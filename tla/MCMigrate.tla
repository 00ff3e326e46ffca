----------------------------- MODULE MCMigrate ------------------------------
(* A network the provider and the templates know, buckets only the templates    *)
(* know, and gateways only the provider knows; one cycle of two calls. Answers: *)
(* clean, of an unknown type, of a type without a template, two at one address  *)
(* the second of which has a misspelt attribute, and one of each kind.          *)
EXTENDS Migrate

CONSTANTS vnet, buckets, gateway, main, cidr_block, cidr_blocks, range

MCSchema == [t \in {vnet, gateway} |->
               [attributes |-> {cidr_block},
                required |-> IF t = vnet THEN {cidr_block} ELSE {}]]

MCResource(type, attrs) ==
  [target_addr |-> <<type, main>>, target_type |-> type, target_name |-> main,
   attributes |-> [a \in attrs |-> range]]

\* Two networks, not in the order of their addresses, where names are numbers.
MCUnordered ==
  {[i \in 1 .. 2 |-> [MCResource(vnet, {cidr_block}) EXCEPT
                       !.target_addr = <<vnet, 3 - i>>, !.target_name = 3 - i]]}

MCAnswers ==
  {<<MCResource(vnet, {cidr_block})>>,
   <<MCResource(gateway, {})>>,
   <<MCResource(vnet, {}), MCResource(buckets, {})>>,
   <<MCResource(vnet, {cidr_block}), MCResource(vnet, {cidr_block, cidr_blocks})>>,
   <<MCResource(vnet, {cidr_block}), MCResource(buckets, {}), MCResource(vnet, {})>>}
=============================================================================

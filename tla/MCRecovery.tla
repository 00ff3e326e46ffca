----------------------------- MODULE MCRecovery -----------------------------
(* One type the provider has, with one required attribute, and one it has not;  *)
(* two cycles of two calls. Plans: clean, empty, of an unknown type, with a     *)
(* misspelt attribute, with two resources at one address, and with a resource   *)
(* whose address is not its type's.                                             *)
EXTENDS FixAgent

CONSTANTS vnet, buckets, main, cidr_block, cidr_blocks, range

MCSchema == [t \in {vnet} |-> [attributes |-> {cidr_block}, required |-> {cidr_block}]]

MCResource(addr_type, type, attrs) ==
  [target_addr |-> <<addr_type, main>>, target_type |-> type, target_name |-> main,
   attributes |-> [a \in attrs |-> range]]

MCInitialPlans ==
  {<<>>,
   <<MCResource(vnet, vnet, {cidr_block})>>,
   <<MCResource(buckets, buckets, {cidr_block})>>,
   <<MCResource(vnet, vnet, {cidr_blocks})>>,
   <<MCResource(vnet, vnet, {}), MCResource(vnet, vnet, {cidr_block, cidr_blocks})>>,
   <<MCResource(buckets, vnet, {})>>}
=============================================================================

----------------------------- MODULE PlanEdits -----------------------------
(***************************************************************************)
(* The migration plan, what the Validator says of it, and the edits the    *)
(* Recovery and Cost Optimizer agents have tools for: MappingPlan of       *)
(* mapper/mod.rs, validator/mod.rs, FixApplier of recovery/mod.rs.         *)
(*                                                                         *)
(* An address is whatever the mapping model wrote: nothing checks that it  *)
(* is type.name, or that no other resource has it.  An attribute's value   *)
(* matters only to the cost of a plan.                                     *)
(***************************************************************************)
EXTENDS Integers, Sequences, FiniteSets, Arrange

CONSTANTS ResourceType, ResourceName, Attribute, Value,
          Schema   \* the target provider's, from type to attribute sets

ASSUME SchemaAssumption ==
  /\ DOMAIN Schema \subseteq ResourceType
  /\ \A t \in DOMAIN Schema :
       /\ Schema[t].attributes \subseteq Attribute
       /\ Schema[t].required \subseteq Schema[t].attributes

Addr == ResourceType \X ResourceName

Attributes == UNION {[S -> Value] : S \in SUBSET Attribute}

MappedResource ==
  [target_addr : Addr, target_type : ResourceType, target_name : ResourceName,
   attributes : Attributes]

----------------------------------------------------------------------------
\* Findings of the Validator: every one of every resource.
known(plan) == {i \in DOMAIN plan : plan[i].target_type \in DOMAIN Schema}

UnknownResourceTypes(plan) ==
  {[kind |-> "UnknownResourceType", resource |-> i, attr |-> ""] : i \in DOMAIN plan \ known(plan)}

UnknownAttributes(plan) ==
  UNION {{[kind |-> "UnknownAttribute", resource |-> i, attr |-> a] :
            a \in DOMAIN plan[i].attributes \ Schema[plan[i].target_type].attributes} :
           i \in known(plan)}

MissingRequiredAttributes(plan) ==
  UNION {{[kind |-> "MissingRequiredAttribute", resource |-> i, attr |-> a] :
            a \in Schema[plan[i].target_type].required \ DOMAIN plan[i].attributes} :
           i \in known(plan)}

validation_errors(plan) ==
  UnknownResourceTypes(plan) \cup UnknownAttributes(plan) \cup MissingRequiredAttributes(plan)

error_count(plan) == Cardinality(validation_errors(plan))

----------------------------------------------------------------------------
\* The resource find() stops at, if there is one.
resource_at(plan, addr) ==
  {i \in DOMAIN plan : /\ plan[i].target_addr = addr
                       /\ \A j \in 1 .. i - 1 : plan[j].target_addr # addr}

\* A tool's answer: the plan it leaves and whether it reports an error.
Edited(plan) == [plan |-> plan, is_error |-> FALSE]
Unedited(plan) == [plan |-> plan, is_error |-> TRUE]

with_attribute(attributes, a, v) ==
  [x \in DOMAIN attributes \cup {a} |-> IF x = a THEN v ELSE attributes[x]]

apply_set_attribute(plan, addr, a, v) ==
  IF resource_at(plan, addr) = {} THEN Unedited(plan)
  ELSE LET i == CHOOSE i \in resource_at(plan, addr) : TRUE
       IN  Edited([plan EXCEPT ![i].attributes = with_attribute(@, a, v)])

\* A variant with a bug: it retypes the resource and answers that it did not.
apply_change_target_type_silently(plan, addr, new_type) ==
  Unedited([i \in DOMAIN plan |->
              IF i \in resource_at(plan, addr) THEN [plan[i] EXCEPT !.target_type = new_type]
                                               ELSE plan[i]])

apply_change_target_type(plan, addr, new_type) ==
  IF resource_at(plan, addr) = {} THEN Unedited(plan)
  ELSE LET i == CHOOSE i \in resource_at(plan, addr) : TRUE
       IN  Edited([plan EXCEPT ![i].target_type = new_type,
                               ![i].target_addr = <<new_type, plan[i].target_name>>])

\* Every resource at the address goes.
apply_remove_resource(plan, addr) ==
  IF resource_at(plan, addr) = {} THEN Unedited(plan)
  ELSE Edited(Filtered(plan, {r \in MappedResource : r.target_addr # addr}))

\* The calls the model may make: a tool it has, or a name that is none.
FixCall ==
  [tool : {"set_attribute"}, addr : Addr, attr : Attribute, value : Value]
  \cup [tool : {"change_target_type"}, addr : Addr, new_type : ResourceType]
  \cup [tool : {"remove_resource"}, addr : Addr]
  \cup [tool : {"unknown"}]

execute(plan, call) ==
  CASE call.tool = "set_attribute" ->
         apply_set_attribute(plan, call.addr, call.attr, call.value)
    [] call.tool = "change_target_type" ->
         apply_change_target_type(plan, call.addr, call.new_type)
    [] call.tool = "remove_resource" -> apply_remove_resource(plan, call.addr)
    [] call.tool = "unknown" -> Unedited(plan)
=============================================================================

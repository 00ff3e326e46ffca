----------------------------- MODULE Templates ------------------------------
(***************************************************************************)
(* What the Generator writes for a plan (generator/templates.rs, and the   *)
(* head of emit): the resources are sorted by address and grouped by type, *)
(* and the template of the type makes a block of each: the attributes it   *)
(* requires, those it knows, and the tags. Generator has the writing.      *)
(*                                                                         *)
(* The templates differ in their lists of attributes only; stage1 has those *)
(* the program registers. An address is a number, in the order of addresses *)
(* as texts. A value is a sequence: its kind, and behind a reference its    *)
(* segments, behind a list or a map the values in it.                      *)
(***************************************************************************)
EXTENDS Integers, Sequences, SequencesExt, FiniteSetsExt, Functions, TLC, Arrange

CONSTANTS
    TemplateOf,     \* from types to [required, optional], sequences of names
    TypeOrder,      \* the types a plan may name, in the order of their texts
    RenderPlans,    \* sequences of [addr, type, attributes]
    MaxValueDepth   \* BOUND: how deep lists and maps are in one another in RenderPlans

\* No template lists an attribute twice, and every type has its place.
ASSUME TemplatesAssumption ==
    /\ \A t \in DOMAIN TemplateOf :
          LET keys == TemplateOf[t].required \o TemplateOf[t].optional
          IN  /\ TemplateOf[t].required \in Seq(STRING) /\ TemplateOf[t].optional \in Seq(STRING)
              /\ \A a, b \in DOMAIN keys : a # b => keys[a] # keys[b]
    /\ TypeOrder \in Seq(ToSet(TypeOrder))
    /\ \A p \in RenderPlans :
          /\ p \in Seq(ToSet(p))
          /\ \A r \in ToSet(p) : r.addr \in Int /\ r.type \in ToSet(TypeOrder)

VARIABLE render

RenderIdle == [pc |-> "idle", plan |-> <<>>, files |-> <<>>, error |-> "none"]

RenderInit == \E p \in RenderPlans : render = [RenderIdle EXCEPT !.pc = "emit", !.plan = p]

----------------------------------------------------------------------------
(* TemplateRegistry::stage1 *)

Keys(required, optional) == [required |-> required, optional |-> optional]

aws_templates ==
  [aws_vpc |-> Keys(<<"cidr_block">>, <<"instance_tenancy", "enable_dns_support">>),
   aws_subnet |->
     Keys(<<"cidr_block">>, <<"vpc_id", "availability_zone", "map_public_ip_on_launch">>),
   aws_security_group |-> Keys(<<"name">>, <<"vpc_id", "description">>),
   aws_instance |->
     Keys(<<"instance_type">>,
          <<"ami", "subnet_id", "key_name", "associate_public_ip_address">>),
   aws_s3_bucket |-> Keys(<<"bucket">>, <<"acl", "force_destroy">>)]

aws_iam_role ==
  Keys(<<"assume_role_policy">>, <<"name", "description", "path", "permissions_boundary">>)

azurerm_templates ==
  [azurerm_virtual_network |->
     Keys(<<"name", "resource_group_name", "location">>, <<"address_space">>),
   azurerm_subnet |->
     Keys(<<"name", "resource_group_name", "virtual_network_name">>, <<"address_prefixes">>),
   azurerm_network_security_group |-> Keys(<<"name", "location", "resource_group_name">>, <<>>),
   azurerm_linux_virtual_machine |->
     Keys(<<"name", "resource_group_name", "location", "size">>,
          <<"admin_username", "network_interface_ids">>),
   azurerm_storage_account |->
     Keys(<<"name", "resource_group_name", "location", "account_tier",
            "account_replication_type">>, <<>>)]

google_templates ==
  [google_storage_bucket |->
     Keys(<<"name", "location">>,
          <<"force_destroy", "storage_class", "uniform_bucket_level_access", "versioning">>),
   google_compute_network |->
     Keys(<<"name">>, <<"description", "auto_create_subnetworks", "routing_mode", "mtu",
                        "delete_default_routes_on_create">>),
   google_compute_subnetwork |->
     Keys(<<"name", "ip_cidr_range", "network", "region">>,
          <<"description", "private_ip_google_access", "purpose", "role", "stack_type",
            "ipv6_access_type">>),
   google_compute_firewall |->
     Keys(<<"name", "network">>,
          <<"description", "direction", "priority", "source_ranges", "destination_ranges",
            "source_tags", "target_tags", "disabled", "log_config">>),
   google_compute_instance |->
     Keys(<<"name", "machine_type", "zone">>,
          <<"description", "tags", "labels", "metadata_startup_script", "can_ip_forward",
            "deletion_protection", "hostname">>)]

\* Those a module of the real world brought.
azurerm_network_templates ==
  [azurerm_route_table |->
     Keys(<<"name", "location", "resource_group_name">>, <<"disable_bgp_route_propagation">>),
   azurerm_public_ip |->
     Keys(<<"name", "location", "resource_group_name", "allocation_method">>,
          <<"sku", "domain_name_label", "ip_version">>),
   azurerm_subnet_network_security_group_association |->
     Keys(<<"subnet_id", "network_security_group_id">>, <<>>),
   azurerm_subnet_route_table_association |-> Keys(<<"subnet_id", "route_table_id">>, <<>>),
   azurerm_resource_group |-> Keys(<<"name", "location">>, <<>>)]

stage1 ==
  aws_templates @@ azurerm_templates @@ google_templates @@ azurerm_network_templates
    @@ [aws_iam_role |-> aws_iam_role]

----------------------------------------------------------------------------
(* to_expression, parse_reference *)

IsMap(value) == value[1] = "Map"

\* A reference is a path of names; one that is empty, begins with a dot, or has a
\* segment that is no identifier, is refused.
parse_reference_ok(segments) == segments # <<>> /\ \A i \in DOMAIN segments : segments[i] # ""

values_in(value) == IF value[1] \in {"List", "Map"} THEN ToSet(Tail(value)) ELSE {}

\* A value with all that are in it, so many levels down.
values_upto(value, depth) ==
    LET upto[n \in 0..depth] ==
          IF n = 0 THEN {value} ELSE upto[n - 1] \cup UNION {values_in(v) : v \in upto[n - 1]}
    IN  upto[depth]

\* No value is deeper than the bound.
ASSUME ValuesAssumption ==
    /\ MaxValueDepth \in Nat
    /\ \A p \in RenderPlans : \A i \in DOMAIN p : \A a \in DOMAIN p[i].attributes :
          \A v \in values_upto(p[i].attributes[a], MaxValueDepth) :
             values_in(v) \subseteq values_upto(p[i].attributes[a], MaxValueDepth)

\* One reference that is refused, at any depth, refuses the whole value.
to_expression_ok(value) ==
    \A v \in values_upto(value, MaxValueDepth) : v[1] = "Reference" => parse_reference_ok(Tail(v))

----------------------------------------------------------------------------
(* build_resource_block *)

missing(r) == \E k \in ToSet(TemplateOf[r.type].required) : k \notin DOMAIN r.attributes

\* The names that are emitted, in order: tags once more if they are a map.
emitted_keys(r) ==
    TemplateOf[r.type].required
    \o Filtered(TemplateOf[r.type].optional, DOMAIN r.attributes)
    \o (IF "tags" \in DOMAIN r.attributes /\ IsMap(r.attributes["tags"])
        THEN <<"tags">> ELSE <<>>)

build_resource_block(r) ==
    [addr |-> r.addr,
     attributes |-> [i \in DOMAIN emitted_keys(r) |->
                        <<emitted_keys(r)[i], r.attributes[emitted_keys(r)[i]]>>]]

\* The error of a resource, none if a block can be made of it.
block_error(r) ==
    IF r.type \notin DOMAIN TemplateOf THEN "TemplateMiss"
    ELSE IF missing(r) THEN "Missing"
    ELSE IF \E i \in DOMAIN emitted_keys(r) : ~to_expression_ok(r.attributes[emitted_keys(r)[i]])
         THEN "Reference" ELSE "none"

----------------------------------------------------------------------------
(* sort_resources, group_by_target_type, and the loop of emit *)

\* A variant with a bug: the resources stay in the order of the plan.
unsorted(resources) == resources

\* The order of a stable sort by address.
by_addr(resources) ==
    {p \in (DOMAIN resources) \X (DOMAIN resources) :
        \/ resources[p[1]].addr < resources[p[2]].addr
        \/ resources[p[1]].addr = resources[p[2]].addr /\ p[1] < p[2]}

sort_resources(resources) == Arranged(resources, DOMAIN resources, by_addr(resources))

groups(resources) ==
    [t \in {resources[i].type : i \in DOMAIN resources} |->
        Filtered(sort_resources(resources), {r \in ToSet(resources) : r.type = t})]

\* render_one of each resource: its blocks, or the first error.
blocks_of(resources) ==
    LET refused == {i \in DOMAIN resources : block_error(resources[i]) # "none"}
    IN  IF refused # {} THEN [error |-> block_error(resources[Min(refused)]), blocks |-> <<>>]
        ELSE [error |-> "none",
              blocks |-> [i \in DOMAIN resources |-> build_resource_block(resources[i])]]

\* All of them in the order of addresses.
render_many(resources) == blocks_of(sort_resources(resources))

\* One group after the other, the types in their order; the first resource a template
\* refuses is the error.
EmitType ==
    /\ render.pc = "emit"
    /\ LET g == groups(render.plan)
           left == DOMAIN g \ {render.files[i].type : i \in DOMAIN render.files}
           t == TypeOrder[Min({k \in DOMAIN TypeOrder : TypeOrder[k] \in left})]
           made == blocks_of(g[t])
       IN  render' =
             IF left = {} THEN [render EXCEPT !.pc = "done"]
             ELSE IF made.error # "none"
                  THEN [render EXCEPT !.pc = "done", !.error = made.error]
             ELSE [render EXCEPT !.files = Append(@, [type |-> t, blocks |-> made.blocks])]

RenderSpec == RenderInit /\ [][EmitType]_render

----------------------------------------------------------------------------
Shuffled(s, p) == [i \in DOMAIN s |-> s[p[i]]]

\* The files depend on the plan alone and not on the order in which its resources
\* come, as long as no two have one address. A plan that is written has a file for each
\* of its types, and in it each resource of the type once, in the order of addresses,
\* with every attribute its template requires, and no attribute twice unless it is
\* tags. A plan is refused if and only if render_many, which looks at the resources in
\* another order, refuses it.
FilesAreThePlan ==
    render.pc = "done" =>
      /\ render.error = "none" <=> render_many(render.plan).error = "none"
      /\ render.error = "none" =>
        LET plan_ == render.plan
            files == render.files
            of(t) == {i \in DOMAIN plan_ : plan_[i].type = t}
        IN  /\ Cardinality({plan_[i].addr : i \in DOMAIN plan_}) = Len(plan_) =>
                 \A p \in Bijection(DOMAIN plan_, DOMAIN plan_) :
                    groups(Shuffled(plan_, p)) = groups(plan_)
            /\ {files[j].type : j \in DOMAIN files} = {plan_[i].type : i \in DOMAIN plan_}
            /\ \A j, k \in DOMAIN files : j # k => files[j].type # files[k].type
            /\ \A j \in DOMAIN files :
                 LET blocks == files[j].blocks IN
                 /\ ToSet(blocks) = {build_resource_block(plan_[i]) : i \in of(files[j].type)}
                 /\ Len(blocks) = Cardinality(of(files[j].type))
                 /\ \A a, b \in DOMAIN blocks : a < b => blocks[a].addr <= blocks[b].addr
            /\ \A i \in DOMAIN plan_ :
                 LET keys == emitted_keys(plan_[i]) IN
                 /\ ToSet(TemplateOf[plan_[i].type].required) \subseteq DOMAIN plan_[i].attributes
                 /\ \A a, b \in DOMAIN keys : a # b /\ keys[a] = keys[b] => keys[a] = "tags"
=============================================================================

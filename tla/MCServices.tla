----------------------------- MODULE MCServices -----------------------------
(* The services around a migration that share no state, one in each behaviour: *)
(* part says which. The others are idle. Each has the inputs that set its cases *)
(* apart; what they are is said with each group of constants.                   *)
EXTENDS CostOptimizer, ShellGate, Secrets, EvalSuite, Notify, Terminal, Inference,
        Scanner, Templates

VARIABLE part

MCVars == <<part, pc, plan, snapshot, iteration, fix_count, fixes_before, calls, outcome,
            starting, gate, subst, suite, costs, notice, tui, turn, thread, scan, render>>

(* Two resources at two prices, a third of them over the target by itself.      *)
CONSTANTS vnet, cheap, dear, size, small
MCSchema == [t \in {vnet} |-> [attributes |-> {size}, required |-> {}]]
MCResource(name_) == [target_addr |-> <<vnet, name_>>, target_type |-> vnet,
                     target_name |-> name_, attributes |-> [a \in {} |-> small]]
MCInitialPlans == {<<>>, <<MCResource(dear)>>, <<MCResource(cheap), MCResource(dear)>>,
                   <<MCResource(cheap), MCResource(cheap)>>}
MCFixedPerAddr == [a \in {<<vnet, dear>>} |-> 3]

(* Scripts that are allowed, denied by a rule for an argument, asked about by the *)
(* rule for the command or for want of one, and shells around them, one within   *)
(* the depth and one beyond.                                                    *)
MCScripts == {"plan", "apply", "rm", "push", "odd", "sh_plan", "sh_rm", "both", "deep",
              "empty"}
MCScriptText ==
  [s \in MCScripts |->
    CASE s = "plan" -> <<Command("terraform", <<"-out", "plan">>)>>
      [] s = "apply" -> <<Command("echo", <<>>), Command("terraform", <<"apply", "plan">>)>>
      [] s = "rm" -> <<Command("rm", <<"-f", "all">>), Command("echo", <<>>)>>
      [] s = "push" -> <<Command("git", <<"push">>), Command("git", <<"status", "all">>)>>
      [] s = "odd" -> <<Command(NoName, <<>>)>>
      [] s = "sh_plan" -> <<ShellCommand("sh", "plan")>>
      [] s = "sh_rm" -> <<ShellCommand("sh", "rm")>>
      [] s = "both" -> <<ShellCommand("sh", "sh_plan"), ShellCommand("sh", "apply")>>
      [] s = "deep" -> <<Command("echo", <<>>), ShellCommand("sh", "both")>>
      [] s = "empty" -> <<>>]
MCApplyLists == UNION {[1..n -> MCScripts] : n \in 0..2}

(* Values of which one begins as another does, or is the same.                   *)
MCNames == {"db", "api", "old", "nobody"}
MCVaults == {[n \in {"db", "api", "old"} |-> v[n]] :
                v \in {[db |-> <<"x">>, api |-> <<"x", "y">>, old |-> <<"x", "y">>],
                       [db |-> <<"x", "y", "z">>, api |-> <<"x">>, old |-> <<"z", "w">>]}}
MCPayloads == UNION {[1..n -> MCNames \cup {"t", Malformed}] : n \in 0..3}

(* Fixtures that pass, miss a file, add one or differ in one, or expect one that is *)
(* no .tf file, and broken ones.                                                 *)
MCTfFiles == {"vpc", "net"}
MCFixture == [hidden |-> FALSE, manifest |-> "ok", source |-> TRUE, plan |-> "ok",
              has_expected |-> TRUE, needs |-> {}, generates |-> TRUE,
              emits |-> [vpc |-> 1], expected |-> [vpc |-> 1]]
MCFixtureSet ==
  {MCFixture, [MCFixture EXCEPT !.hidden = TRUE, !.expected = [vpc |-> 2]],
   [MCFixture EXCEPT !.manifest = "absent", !.expected = [vpc |-> 2]],
   [MCFixture EXCEPT !.manifest = "broken"], [MCFixture EXCEPT !.source = FALSE],
   [MCFixture EXCEPT !.plan = "absent"], [MCFixture EXCEPT !.plan = "broken"],
   [MCFixture EXCEPT !.has_expected = FALSE, !.expected = <<>>],
   [MCFixture EXCEPT !.needs = {"aws@5"}], [MCFixture EXCEPT !.generates = FALSE],
   [MCFixture EXCEPT !.emits = [vpc |-> 1, net |-> 1]],
   [MCFixture EXCEPT !.expected = [vpc |-> 1, net |-> 1]],
   [MCFixture EXCEPT !.emits = [vpc |-> 2]],
   [MCFixture EXCEPT !.expected = [vpc |-> 1, lock |-> 1]],
   [MCFixture EXCEPT !.emits = [net |-> 1], !.expected = [net |-> 1]]}
MCFixtures == UNION {[1..n -> MCFixtureSet] : n \in 0..2}
MCCostReports == UNION {[1..n -> [name : {"001", "002"}, cost : {0, 10, 13, 14}]] : n \in 0..2}

MCNotifierLists == UNION {[1..n -> {"log", "slack", "misconfigured"}] : n \in 0..3}

MCChars == {<<"a">>, <<"e", "'">>, <<" ">>}
MCBlank == <<" ">>

(* Messages of a line, of a line that is wrapped, and of two lines.              *)
MCTexts == {<<1>>, <<3>>, <<1, 1>>}
MCWelcomeRows == <<1, 2, 1>>

(* Retries with a backoff that grows, one that shrinks, and a negative one.      *)
MCRetryConfigs ==
  [max_attempts : {0, 1, 4}, initial_backoff_ms : {20}, max_backoff_ms : {10, 50},
   multiplier : {[num |-> 2, den |-> 1], [num |-> 1, den |-> 2], [num |-> -2, den |-> 1]}]
MCHeaders ==
  [retry_after_ms : {<<>>, <<"garbage">>, <<"value", 7>>},
   retry_after : {<<>>, <<"garbage">>, <<"value", 2>>, <<"value", 90>>, <<"date", -5>>,
                  <<"date", 40>>}]
MCReplies == [fence : {"none", "json", "plain", "unclosed", "prose around"},
              body : {"empty", "prose", "object"},
              tool_calls : {<<>>, <<[id |-> 1, depth |-> 0], [id |-> 2, depth |-> 2]>>}]

MCThreads == UNION {[1..n -> {"go", "call", "ok"}] : n \in 0..4}
MCReductions == UNION {[1..n -> {"go", "call", "ok", "summary"}] : n \in 0..3}

(* Blocks of each kind, with too few labels, and with a dynamic one below; a       *)
(* provider whose name is written without quotes, and a comment and another word *)
(* that read like headers.                                                       *)
MCBlock(kind, labels, inner) == [kind |-> kind, labels |-> labels, attributes |-> {}, inner |-> inner]
MCBlockOf ==
  [vpc |-> [MCBlock("resource", 2, <<"keep">>) EXCEPT !.attributes = {"count", "cidr"}],
   subnet |-> MCBlock("resource", 2, <<>>), bare |-> MCBlock("resource", 1, <<>>), ami |-> MCBlock("data", 2, <<>>),
   aws |-> MCBlock("provider", 1, <<>>), net |-> MCBlock("module", 1, <<>>),
   settings |-> MCBlock("terraform", 0, <<>>), loose |-> MCBlock("attribute", 0, <<>>),
   dynamic |-> MCBlock("dynamic", 1, <<>>), keep |-> MCBlock("lifecycle", 0, <<>>),
   rules |-> MCBlock("ingress", 0, <<"dynamic">>),
   group |-> MCBlock("resource", 2, <<"keep", "rules">>)]
MCHeader(kind, name_) == [kind |-> kind, quoted |-> TRUE, of |-> name_]
MCBrace(kind, name_) == [kind |-> kind, quoted |-> FALSE, of |-> name_]
MCSeen(kind) == [kind |-> kind, quoted |-> TRUE, of |-> "a comment, a string or another word"]
MCFile(path, blocks, text) ==
  [path |-> path, tf |-> TRUE, readable |-> TRUE, blocks |-> blocks, text |-> text]
MCVpc == MCHeader("resource", "vpc")
MCKeep == MCBrace("lifecycle", "keep")
MCFiles ==
  {MCFile(<<"main.tf">>, <<"settings", "vpc", "ami">>,
          <<MCBrace("terraform", "settings"), MCSeen("resource"), MCVpc, MCKeep,
            MCSeen("data"), MCHeader("data", "ami")>>),
   MCFile(<<"net", "net.tf">>, <<"aws", "net", "loose">>, <<MCHeader("module", "net")>>),
   MCFile(<<"two.tf">>, <<"vpc", "subnet">>, <<MCVpc, MCKeep, MCHeader("resource", "subnet")>>),
   MCFile(<<".terraform", "copy.tf">>, <<"vpc">>, <<MCVpc, MCKeep>>),
   MCFile(<<"top.tf">>, <<"dynamic">>, <<MCHeader("dynamic", "dynamic")>>),
   MCFile(<<"bare.tf">>, <<"vpc", "bare">>, <<MCVpc, MCKeep, MCHeader("resource", "bare")>>),
   MCFile(<<"deep.tf">>, <<"vpc", "group">>,
          <<MCVpc, MCKeep, MCHeader("resource", "group"), MCKeep, MCBrace("ingress", "rules"),
            MCHeader("dynamic", "dynamic")>>),
   MCFile(<<"broken.tf">>, <<"unparsable">>, <<>>),
   [MCFile(<<"main.json">>, <<"vpc">>, <<MCVpc>>) EXCEPT !.tf = FALSE],
   [MCFile(<<"locked.tf">>, <<"vpc">>, <<MCVpc>>) EXCEPT !.readable = FALSE]}
MCTrees == {t \in SUBSET MCFiles : Cardinality(t) <= 3}

(* Each template with all it knows, and mixed plans: references, by themselves and *)
(* in lists and maps, tags that are a map or a list, a required attribute missing, *)
(* a type without a template.                                                      *)
MCTypeOrder ==
  <<"aws_iam_role", "aws_instance", "aws_s3_bucket", "aws_security_group", "aws_subnet",
    "aws_vpc", "azurerm_linux_virtual_machine", "azurerm_network_security_group",
    "azurerm_public_ip", "azurerm_resource_group", "azurerm_route_table",
    "azurerm_storage_account", "azurerm_subnet",
    "azurerm_subnet_network_security_group_association",
    "azurerm_subnet_route_table_association", "azurerm_virtual_network",
    "google_compute_firewall", "google_compute_instance", "google_compute_network",
    "google_compute_subnetwork", "google_storage_bucket", "oci_core_vcn">>
MCFull(type_, tags) ==
  [addr |-> 1, type |-> type_,
   attributes |->
     [k \in ToSet(TemplateOf[type_].required) \cup ToSet(TemplateOf[type_].optional)
             \cup {"tags"} |-> IF k = "tags" THEN <<tags>> ELSE <<"String">>]]
MCBucket(value) == [bucket |-> value]
MCMixed ==
  [addr : {1, 2, 3}, type : {"aws_s3_bucket"},
   attributes : {MCBucket(<<"String">>), MCBucket(<<"Reference", "vpc", "id">>)}]
  \cup [addr : {2, 3}, type : {"azurerm_resource_group"},
        attributes : {[name |-> <<"String">>, location |-> <<"String">>,
                       tags |-> <<"Map", <<"List", <<"Reference", "vpc">>>>>>]}]
  \cup {[addr |-> 4, type |-> "azurerm_resource_group", attributes |-> [name |-> <<"String">>]],
        [addr |-> 4, type |-> "aws_s3_bucket", attributes |-> MCBucket(<<"Reference", "">>)],
        [addr |-> 4, type |-> "aws_s3_bucket", attributes |-> MCBucket(
            <<"List", <<"Reference", "vpc", "id">>, <<"Map", <<"Reference", "vpc", "">>>>>>)],
        [addr |-> 5, type |-> "oci_core_vcn", attributes |-> MCBucket(<<"String">>)]}
MCRenderPlans ==
  UNION {[1..n -> MCMixed] : n \in 0..3}
  \cup {<<MCFull(t, tags)>> : t \in DOMAIN TemplateOf, tags \in {"Map", "List"}}

----------------------------------------------------------------------------
CostParked ==
  /\ pc = "Done" /\ plan = <<>> /\ snapshot = <<>> /\ iteration = 1 /\ fix_count = 0
  /\ fixes_before = 0 /\ calls = 0 /\ outcome = Running /\ starting = Unpriced

\* One part begins, the others are idle.
MCStart(name_, parked, begin) ==
  (part = name_ /\ begin) \/ (part # name_ /\ parked)

MCInit ==
  /\ part \in {"cost", "gate", "subst", "suite", "costs", "notice", "tui", "turn", "thread",
               "scan", "render"}
  /\ MCStart("cost", CostParked, CostInit)
  /\ MCStart("gate", gate = GateIdle, GateInit)
  /\ MCStart("subst", subst = SubstIdle, SubstInit)
  /\ MCStart("suite", suite = SuiteIdle, SuiteInit)
  /\ MCStart("costs", costs = CostsIdle, CostsInit)
  /\ MCStart("notice", notice = NoticeIdle, NoticeInit)
  /\ MCStart("tui", tui = TuiIdle, TuiInit)
  /\ MCStart("turn", turn = TurnIdle, TurnInit)
  /\ MCStart("thread", thread = ThreadIdle, ThreadInit)
  /\ MCStart("scan", scan = ScanIdle, ScanInit)
  /\ MCStart("render", render = RenderIdle, RenderInit)

CostStays == UNCHANGED costVars
RestStays == UNCHANGED <<gate, subst, suite, costs, notice, tui, turn, thread, scan, render>>

MCNext ==
  /\ part' = part
  /\ \/ part = "cost" /\ CostNext /\ RestStays
     \/ part = "gate" /\ GateNext /\ CostStays
        /\ UNCHANGED <<subst, suite, costs, notice, tui, turn, thread, scan, render>>
     \/ part = "subst" /\ SubstNext /\ CostStays
        /\ UNCHANGED <<gate, suite, costs, notice, tui, turn, thread, scan, render>>
     \/ part = "suite" /\ SuiteNext /\ CostStays
        /\ UNCHANGED <<gate, subst, costs, notice, tui, turn, thread, scan, render>>
     \/ part = "costs" /\ CompareCosts /\ CostStays
        /\ UNCHANGED <<gate, subst, suite, notice, tui, turn, thread, scan, render>>
     \/ part = "notice" /\ NoticeNext /\ CostStays
        /\ UNCHANGED <<gate, subst, suite, costs, tui, turn, thread, scan, render>>
     \/ part = "tui" /\ TuiNext /\ CostStays
        /\ UNCHANGED <<gate, subst, suite, costs, notice, turn, thread, scan, render>>
     \/ part = "turn" /\ TurnNext /\ CostStays
        /\ UNCHANGED <<gate, subst, suite, costs, notice, tui, thread, scan, render>>
     \/ part = "thread" /\ ThreadNext /\ CostStays
        /\ UNCHANGED <<gate, subst, suite, costs, notice, tui, turn, scan, render>>
     \/ part = "scan" /\ ScanNext /\ CostStays
        /\ UNCHANGED <<gate, subst, suite, costs, notice, tui, turn, thread, render>>
     \/ part = "render" /\ EmitType /\ CostStays
        /\ UNCHANGED <<gate, subst, suite, costs, notice, tui, turn, thread, scan>>

MCSpec == MCInit /\ [][MCNext]_MCVars
=============================================================================

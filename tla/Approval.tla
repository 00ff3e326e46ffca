------------------------------ MODULE Approval ------------------------------
(***************************************************************************)
(* The data type of libs/agent-core/src/approval.rs: the entries of one    *)
(* model turn, the state of each, and what its operations compute.         *)
(* ApprovalStateMachine drives it with every sequence of host calls;       *)
(* AgentLoop drives it the way run_agent does.                             *)
(*                                                                         *)
(* A machine is a record [entries, next_index].  next_index is the index   *)
(* of the source plus one.  A tool call keeps its id and its name: the     *)
(* policy looks at nothing else of it.                                     *)
(***************************************************************************)
EXTENDS Integers, Sequences

CONSTANTS ToolCallId,     \* ids a model may give its tool calls
          ToolName,       \* names of tools
          CustomResult,   \* contents a host may substitute for a tool's result
          NoDecision      \* the decision field of an entry that is not Ready

ASSUME NoDecisionAssumption ==
  /\ NoDecision \notin {"Accept", "Reject"}
  /\ NoDecision \notin CustomResult

ToolCall == [id : ToolCallId, name : ToolName]

ToolDecision == {"Accept", "Reject"} \cup CustomResult

ToolApprovalAction == {"Approve", "Deny", "Ask"}

(***************************************************************************)
(* ToolApprovalPolicy.  None, AcceptAll and DenyAll carry no rules.        *)
(* Custom has a partial map of rules, given here by its domain, and a      *)
(* default.                                                                *)
(***************************************************************************)
ToolApprovalPolicy ==
  [kind : {"None", "AcceptAll", "DenyAll"}]
  \cup [kind : {"Custom"},
        rules : UNION {[S -> ToolApprovalAction] : S \in SUBSET ToolName},
        default : ToolApprovalAction]

action_for(policy, name) ==
  CASE policy.kind = "None"      -> "Ask"
    [] policy.kind = "AcceptAll" -> "Approve"
    [] policy.kind = "DenyAll"   -> "Deny"
    [] policy.kind = "Custom"    -> IF name \in DOMAIN policy.rules
                                    THEN policy.rules[name]
                                    ELSE policy.default

----------------------------------------------------------------------------
PendingUserDecision == [kind |-> "PendingUserDecision", decision |-> NoDecision]
Ready(d)            == [kind |-> "Ready", decision |-> d]
Dispatched          == [kind |-> "Dispatched", decision |-> NoDecision]

ApprovalEntryState ==
  {PendingUserDecision, Dispatched} \cup {Ready(d) : d \in ToolDecision}

ApprovalEntry == [tool_call : ToolCall, state : ApprovalEntryState]

ApprovalMachine == [entries : Seq(ApprovalEntry), next_index : Nat \ {0}]

\* The state a call starts in, from what the policy says of its name.
initial_state(policy, name) ==
  CASE action_for(policy, name) = "Approve" -> Ready("Accept")
    [] action_for(policy, name) = "Deny"    -> Ready("Reject")
    [] action_for(policy, name) = "Ask"     -> PendingUserDecision

new(calls, policy) ==
  [entries    |-> [i \in DOMAIN calls |->
                     [tool_call |-> calls[i],
                      state     |-> initial_state(policy, calls[i].name)]],
   next_index |-> 1]

----------------------------------------------------------------------------
pending(m) == {i \in DOMAIN m.entries : m.entries[i].state = PendingUserDecision}

pending_tool_call_ids(m) == {m.entries[i].tool_call.id : i \in pending(m)}

\* A variant with a bug: it looks at the first call alone.
is_waiting_first(m) == m.entries # <<>> /\ m.entries[1].state = PendingUserDecision

is_waiting_for_user(m) == pending(m) # {}

is_complete(m) == m.next_index > Len(m.entries)

\* The entry find() stops at: the first one with this id, if there is one.
entry_of(m, id) ==
  {i \in DOMAIN m.entries :
     /\ m.entries[i].tool_call.id = id
     /\ \A j \in 1 .. i - 1 : m.entries[j].tool_call.id # id}

resolve_result(m, id, d) ==
  IF entry_of(m, id) = {} THEN "UnknownToolCallId"
  ELSE IF \E i \in entry_of(m, id) :
             m.entries[i].state \in {PendingUserDecision, Ready(d)} THEN "Ok"
  ELSE "AlreadyResolved"

\* Variants of the definitions above and below, each with a plausible bug that the
\* properties of the modules using this one reject.
resolved_all(m, decisions, S) ==
  [m EXCEPT !.entries =
     [i \in DOMAIN m.entries |->
        LET e == m.entries[i]
        IN  IF e.state = PendingUserDecision /\ e.tool_call.id \in DOMAIN decisions
            THEN [e EXCEPT !.state = Ready(decisions[e.tool_call.id])]
            ELSE e]]
dispatch_without_mark(m, i) == m
exhausted_when_blocked(m) == [m EXCEPT !.next_index = Len(m.entries) + 1]

\* The machine after the decisions of the ids in S are applied.
resolved(m, decisions, S) ==
  [m EXCEPT !.entries =
     [i \in DOMAIN m.entries |->
        LET e == m.entries[i]
        IN  IF /\ e.state = PendingUserDecision
               /\ e.tool_call.id \in S
               /\ i \in entry_of(m, e.tool_call.id)
            THEN [e EXCEPT !.state = Ready(decisions[e.tool_call.id])]
            ELSE e]]

\* The entry the loop of next_ready() stops at: it skips Dispatched ones.
next_live(m) ==
  {i \in m.next_index .. Len(m.entries) :
     /\ m.entries[i].state # Dispatched
     /\ \A j \in m.next_index .. i - 1 : m.entries[j].state = Dispatched}

\* The entry next_ready() returns, if it returns one.
ready_entry(m) == {i \in next_live(m) : m.entries[i].state.kind = "Ready"}

\* The machine after next_ready() has returned entry i.
dispatch(m, i) ==
  [entries |-> [m.entries EXCEPT ![i].state = Dispatched], next_index |-> i + 1]

\* The machine after next_ready() has returned None: the cursor stands at the
\* pending entry that stopped it, or past the last one.
exhausted(m) ==
  [m EXCEPT !.next_index = IF next_live(m) = {}
                           THEN IF is_complete(m) THEN @ ELSE Len(m.entries) + 1
                           ELSE CHOOSE i \in next_live(m) : TRUE]
=============================================================================

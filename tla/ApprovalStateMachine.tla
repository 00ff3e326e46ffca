------------------------ MODULE ApprovalStateMachine ------------------------
(***************************************************************************)
(* libs/agent-core/src/approval.rs under every sequence of calls a host    *)
(* can make: decisions one at a time or in bulk, for known and unknown     *)
(* ids, before and after dispatch, interleaved with next_ready().          *)
(***************************************************************************)
EXTENDS Approval

CONSTANTS Policies,   \* the policies a run may be configured with
          MaxCalls    \* BOUND: tool calls in one turn

ASSUME PoliciesAssumption == Policies \subseteq ToolApprovalPolicy
ASSUME MaxCallsAssumption == MaxCalls \in Nat

VARIABLES machine,      \* the ApprovalStateMachine value
          policy,       \* the policy it was built with
          reply,        \* what the last call returned
          dispatched,   \* history: what next_ready() has returned so far
          accepted      \* history: ids a host command has turned into Accept

vars == <<machine, policy, reply, dispatched, accepted>>

Reply == {"New", "Ok", "UnknownToolCallId", "AlreadyResolved", "Some", "None"}

\* run_agent refuses a turn with a repeated id before it builds a machine.
DistinctIds(calls) ==
  \A i, j \in DOMAIN calls : calls[i].id = calls[j].id => i = j

Turns == {calls \in UNION {[1 .. n -> ToolCall] : n \in 0 .. MaxCalls} : DistinctIds(calls)}

Init ==
  /\ policy \in Policies
  /\ \E calls \in Turns : machine = new(calls, policy)
  /\ reply = "New"
  /\ dispatched = <<>>
  /\ accepted = {}

----------------------------------------------------------------------------
ResolveTool(id, d) ==
  /\ reply' = resolve_result(machine, id, d)
  /\ machine' = IF reply' = "Ok" THEN resolved(machine, [x \in {id} |-> d], {id})
                                 ELSE machine
  /\ accepted' = IF reply' = "Ok" /\ d = "Accept" THEN accepted \cup {id} ELSE accepted
  /\ UNCHANGED <<policy, dispatched>>

\* The decisions come out of a HashMap in no particular order, and the first
\* one that fails ends the loop: those before it stay applied.
ResolveTools(decisions) ==
  LET ids == DOMAIN decisions
      bad == {id \in ids : resolve_result(machine, id, decisions[id]) # "Ok"}
  IN  \E done \in SUBSET (ids \ bad) :
        /\ \/ bad = {} /\ done = ids /\ reply' = "Ok"
           \/ \E id \in bad : reply' = resolve_result(machine, id, decisions[id])
        /\ machine' = resolved(machine, decisions, done)
        /\ accepted' = accepted \cup {id \in done : decisions[id] = "Accept"}
        /\ UNCHANGED <<policy, dispatched>>

NextReady ==
  \/ \E i \in ready_entry(machine) :
       /\ machine' = dispatch(machine, i)
       /\ reply' = "Some"
       /\ dispatched' = Append(dispatched,
                               [call     |-> machine.entries[i].tool_call,
                                decision |-> machine.entries[i].state.decision])
       /\ UNCHANGED <<policy, accepted>>
  \/ /\ ready_entry(machine) = {}
     /\ machine' = exhausted(machine)
     /\ reply' = "None"
     /\ UNCHANGED <<policy, dispatched, accepted>>

Commands == UNION {[S -> ToolDecision] : S \in SUBSET ToolCallId}

Next ==
  \/ \E id \in ToolCallId, d \in ToolDecision : ResolveTool(id, d)
  \/ \E decisions \in Commands : ResolveTools(decisions)
  \/ NextReady

Spec == Init /\ [][Next]_vars

\* The caller of next_ready() is a loop; the host may never answer.
FairSpec == Spec /\ WF_vars(NextReady)

----------------------------------------------------------------------------
TypeOK ==
  /\ machine \in ApprovalMachine
  /\ machine.next_index <= Len(machine.entries) + 1
  /\ policy \in Policies
  /\ reply \in Reply
  /\ dispatched \in Seq([call : ToolCall, decision : ToolDecision])
  /\ accepted \subseteq ToolCallId

\* The invariant approval.rs names: next_ready() returns the calls in the order
\* the model proposed them, each once, whatever order decisions arrive in, and
\* the machine's cursor and Dispatched marks say exactly how far it has got.
InOrderDispatch ==
  /\ Len(dispatched) = machine.next_index - 1
  /\ \A k \in DOMAIN machine.entries :
        (machine.entries[k].state = Dispatched) <=> (k <= Len(dispatched))
  /\ \A k \in DOMAIN dispatched : dispatched[k].call = machine.entries[k].tool_call

\* A call comes out as Accept only when the policy approves its tool by itself or
\* a host command accepted it: neither a bulk command cut short nor a decision
\* for another call lets one through.
NoUnapprovedAccept ==
  \A k \in DOMAIN dispatched :
    dispatched[k].decision = "Accept" =>
      \/ action_for(policy, dispatched[k].call.name) = "Approve"
      \/ dispatched[k].call.id \in accepted

\* A call whose predecessors and itself are decided comes out in the end: a
\* decision that came early is not forgotten.
DecidedPrefixDrains ==
  \A n \in 1 .. MaxCalls :
    (/\ n <= Len(machine.entries)
     /\ \A k \in 1 .. n : machine.entries[k].state # PendingUserDecision)
      ~> (Len(dispatched) >= n)

\* The machine does what OrderedDispatch promises. The decision on a dispatched
\* call is no longer in the machine: it is in what next_ready() returned.
Abstract == INSTANCE OrderedDispatch WITH
  Call      <- ToolCall,
  Decision  <- ToolDecision,
  Undecided <- NoDecision,
  proposed  <- [i \in DOMAIN machine.entries |-> machine.entries[i].tool_call],
  decided   <- [i \in DOMAIN machine.entries |->
                  IF machine.entries[i].state = Dispatched
                  THEN dispatched[i].decision
                  ELSE machine.entries[i].state.decision],
  released  <- dispatched

ImplementsOrderedDispatch == Abstract!Spec
=============================================================================

-------------------------- MODULE AgentLoop_proofs --------------------------
(***************************************************************************)
(* For every configuration, answer and number of hooks: the types; how     *)
(* much run_agent may still begin once its token is set; the order in which*)
(* its hooks hear of what it does; the form of the thread, and that it     *)
(* tells what ran; and that only what the policy approves runs.            *)
(***************************************************************************)
EXTENDS AgentLoop, FiniteSetTheorems, TLAPS

\* Where the run can stand when something was begun late. Both places that look at the
\* token, the heads of the two loops, lie on every way from one beginning to the next.
LateInv ==
  /\ config \in AgentLoopConfig
  /\ attempt \in Nat \ {0}
  /\ late \in [llm : Nat, tools : Nat]
  /\ ~cancelled => late.llm = 0 /\ late.tools = 0
  /\ late.tools > 0 => pc \in {"AfterTool", "Drain", "TurnStart", "Done"}
  /\ late.llm > 0 => pc \in {"Llm", "AfterInference", "Judge", "Drain", "TurnStart", "Done"}
  /\ pc = "Llm" => late.llm < attempt

IInv == LateInv /\ CancelBounded

\* The initial state satisfies the inductive invariant.
LEMMA InitIInv == Init => IInv
  BY ConfigsAssumption DEF AgentLoopConfig, Init, IInv, LateInv, CancelBounded

----------------------------------------------------------------------------
\* Telling the hooks of an event leads to the next place or to the end of the run.
LEMMA HooksLead ==
  ASSUME NEW event, NEW next_pc, FireHooks(event, next_pc)
  PROVE  pc' = next_pc \/ pc' = "Done"
  BY DEF FireHooks, Return

\* So does looking at the token, and the next place is reached only if it is not set.
LEMMA TokenLeads ==
  ASSUME NEW next_pc, ContinueUnlessCancelled(next_pc)
  PROVE  (pc' = next_pc /\ ~cancelled) \/ pc' = "Done"
  BY DEF ContinueUnlessCancelled, Return

\* Every step keeps the inductive invariant.
LEMMA StepIInv == IInv /\ [Next]_vars => IInv'
<1>. SUFFICES ASSUME IInv, [Next]_vars PROVE IInv'
  OBVIOUS
<1>. USE DEF AgentLoopConfig, IInv, LateInv, CancelBounded, history
<1>1. CASE CheckConfig
  BY <1>1 DEF CheckConfig, Return
<1>2. CASE TurnStart
  <2>1. CASE NoTurnLeft
    BY <1>2, <2>1 DEF TurnStart, MaxTurnsReached, Return
  <2>2. CASE ~NoTurnLeft
    <3>1. \/ pc' \in {"Compact", "BeforeInference"} /\ ~cancelled
          \/ pc' = "Done"
      BY <1>2, <2>2, TokenLeads DEF TurnStart
    <3>. QED BY <1>2, <3>1 DEF TurnStart
  <2>. QED BY <2>1, <2>2
<1>3. CASE Compact
  BY <1>3 DEF Compact, Return
<1>4. CASE BeforeInference
  BY <1>4, HooksLead DEF BeforeInference
<1>5. CASE CallLlm
  <2>1. late.tools = 0 /\ late.llm < attempt /\ attempt <= config.max_attempts
    BY <1>5 DEF CallLlm
  <2>2. late' \in [llm : Nat, tools : Nat] /\ late'.tools = 0 /\ late'.llm <= late.llm + 1
        /\ (~cancelled => late' = late) /\ cancelled' = cancelled
    BY <1>5, <2>1 DEF CallLlm
  <2>3. \/ pc' = "AfterInference" /\ attempt' = attempt
        \/ pc' = "Done" /\ attempt' = attempt
        \/ pc' = "Llm" /\ attempt' = attempt + 1
    BY <1>5 DEF CallLlm, LlmAnswers, LlmFails, GiveUp, Return
  <2>4. config' = config /\ config.max_attempts \in Nat
    BY <1>5 DEF CallLlm
  <2>. QED BY <2>1, <2>2, <2>3, <2>4
<1>6. CASE NoAttempts
  BY <1>6 DEF NoAttempts, GiveUp, Return
<1>7. CASE AfterInference
  BY <1>7, HooksLead DEF AfterInference
<1>8. CASE Judge
  BY <1>8 DEF Judge, Return
<1>9. CASE Drain
  <2>1. \/ pc' = "TurnStart"
        \/ pc' = "BeforeTool" /\ ~cancelled
        \/ pc' = "Done"
    BY <1>9, TokenLeads DEF Drain
  <2>. QED BY <1>9, <2>1 DEF Drain
<1>10. CASE BeforeTool
  BY <1>10, HooksLead DEF BeforeTool
<1>11. CASE Tool
  <2>1. late.tools = 0 /\ late.llm = 0
    BY <1>11 DEF Tool
  <2>2. /\ late' = late \/ (cancelled /\ late' = [late EXCEPT !.tools = @ + 1])
        /\ pc' \in {"AfterTool", "Done"}
    BY <1>11 DEF Tool, RunTool, SkipTool, PushResult, Return
  <2>. QED BY <1>11, <2>1, <2>2 DEF Tool
<1>12. CASE AfterTool
  BY <1>12, HooksLead DEF AfterTool
<1>13. CASE Cancel
  BY <1>13 DEF Cancel
<1>14. CASE UNCHANGED vars
  BY <1>14 DEF vars
<1>. QED BY <1>1, <1>2, <1>3, <1>4, <1>5, <1>6, <1>7, <1>8, <1>9, <1>10, <1>11, <1>12, <1>13,
            <1>14 DEF Next, Step

\* Once the token of run_agent is set, at most one tool is still started, or the model
\* is asked at most max_attempts times, and never both.
THEOREM CancellationBoundsWork == Spec => []CancelBounded
<1>1. IInv => CancelBounded
  BY DEF IInv
<1>. QED BY InitIInv, StepIInv, <1>1, PTL DEF Spec

----------------------------------------------------------------------------
(* The lifecycle events *)

\* Every hook was told the same event last: it is so between two rounds of telling.
AllHeard(event) == last_event = [h \in 1 .. Hooks |-> event]

BetweenTurns == AllHeard("none") \/ AllHeard("after_tool_execution")

\* What the hooks heard last, place by place. That a turn with calls has one to hand out
\* is what keeps the next turn from following an inference with no tool in between.
HeardInv ==
  /\ pc \in {"Config", "TurnStart", "Compact", "BeforeInference"} => BetweenTurns
  /\ pc \in {"Llm", "AfterInference"} => AllHeard("before_inference")
  /\ pc = "Judge" => AllHeard("after_inference")
  /\ pc = "Drain" =>
       \/ AllHeard("after_tool_execution")
       \/ AllHeard("after_inference") /\ ready_entry(approvals) # {}
  /\ pc = "BeforeTool" => AllHeard("after_inference") \/ AllHeard("after_tool_execution")
  /\ pc \in {"Tool", "AfterTool"} => AllHeard("before_tool_execution")
  /\ pc \in {"Config", "TurnStart", "Compact", "BeforeInference", "Llm", "AfterInference",
             "Judge", "Drain", "BeforeTool", "Tool", "AfterTool", "Done"}
  /\ calls \in Seq(ToolCall)

\* The pairs HooksInCanonicalOrder allows, of which those that differ are Follows.
Follows(e, f) ==
  \/ e = "none" /\ f = "before_inference"
  \/ e = "before_inference" /\ f = "after_inference"
  \/ e = "after_inference" /\ f = "before_tool_execution"
  \/ e = "before_tool_execution" /\ f = "after_tool_execution"
  \/ e = "after_tool_execution" /\ f \in {"before_tool_execution", "before_inference"}

InOrder ==
  \A h \in 1 .. Hooks :
    <<last_event[h], last_event'[h]>> \in
      {<<e, e>> : e \in Event \cup {"none"}} \cup
      {<<"none", "before_inference">>,
       <<"before_inference", "after_inference">>,
       <<"after_inference", "before_tool_execution">>,
       <<"before_tool_execution", "after_tool_execution">>,
       <<"after_tool_execution", "before_tool_execution">>,
       <<"after_tool_execution", "before_inference">>}

\* Telling the hooks an event that may follow what all heard keeps the order, and leads
\* on only once all have heard it.
LEMMA TellingKeepsOrder ==
  ASSUME NEW event, NEW next_pc, FireHooks(event, next_pc),
         NEW heard, AllHeard(heard), Follows(heard, event)
  PROVE  InOrder /\ (pc' = "Done" \/ (pc' = next_pc /\ AllHeard(event)'))
<1>1. PICK told \in 0 .. Hooks :
        /\ last_event' = [h \in 1 .. Hooks |-> IF h <= told THEN event ELSE last_event[h]]
        /\ \/ told = Hooks /\ pc' = next_pc /\ UNCHANGED result
           \/ told > 0 /\ Return(Err("Hook"))
  BY DEF FireHooks
<1>2. \A h \in 1 .. Hooks : last_event[h] = heard /\ last_event'[h] \in {heard, event}
  BY <1>1 DEF AllHeard
<1>3. InOrder
  BY <1>2 DEF InOrder, Follows, Event
<1>4. CASE told = Hooks /\ pc' = next_pc
  <2>1. \A h \in 1 .. Hooks : h <= told
    BY <1>4, CountersAssumption
  <2>. QED BY <1>1, <1>3, <1>4, <2>1 DEF AllHeard
<1>5. CASE Return(Err("Hook"))
  BY <1>3, <1>5 DEF Return
<1>. QED BY <1>1, <1>4, <1>5

\* A turn that calls tools and waits for nobody has a call to hand out.
LEMMA NewMachineIsReady ==
  ASSUME NEW policy \in ToolApprovalPolicy, NEW cs \in Seq(ToolCall), cs # <<>>,
         ~is_waiting_for_user(new(cs, policy))
  PROVE  ready_entry(new(cs, policy)) # {}
<1>. DEFINE m == new(cs, policy)
<1>1. /\ m.next_index = 1
      /\ m.entries = [i \in DOMAIN cs |-> [tool_call |-> cs[i],
                                          state     |-> initial_state(policy, cs[i].name)]]
  BY DEF new
<1>2. Len(cs) \in Nat \ {0} /\ DOMAIN cs = 1 .. Len(cs)
  OBVIOUS
<1>3. m.entries \in Seq([tool_call : {cs[i] : i \in DOMAIN cs},
                        state : {initial_state(policy, cs[i].name) : i \in DOMAIN cs}])
      /\ Len(m.entries) = Len(cs)
  BY <1>1, <1>2
<1>4. m.entries[1].state = initial_state(policy, cs[1].name) /\ 1 \in DOMAIN m.entries
  BY <1>1, <1>2
<1>5. m.entries[1].state # PendingUserDecision
  BY <1>4 DEF is_waiting_for_user, pending
<1>6. action_for(policy, cs[1].name) \in {"Approve", "Deny", "Ask"}
  BY <1>2 DEF action_for, ToolApprovalPolicy, ToolApprovalAction, ToolCall
<1>7. initial_state(policy, cs[1].name) \in {Ready("Accept"), Ready("Reject")}
  BY <1>4, <1>5, <1>6 DEF initial_state
<1>8. m.entries[1].state.kind = "Ready" /\ m.entries[1].state # Dispatched
  BY <1>4, <1>7 DEF Ready, Dispatched
<1>9. 1 \in next_live(m)
  BY <1>1, <1>2, <1>3, <1>8 DEF next_live
<1>. QED BY <1>8, <1>9 DEF ready_entry

\* The initial state satisfies what was heard.
LEMMA InitHeard == Init => HeardInv
  BY DEF Init, HeardInv, BetweenTurns, AllHeard

\* Every step keeps what was heard, and tells each hook an event that may follow.
LEMMA StepHeard == IInv /\ HeardInv /\ [Next]_vars => HeardInv' /\ (InOrder \/ UNCHANGED last_event)
<1>. SUFFICES ASSUME IInv, HeardInv, [Next]_vars
              PROVE  HeardInv' /\ (InOrder \/ UNCHANGED last_event)
  OBVIOUS
<1>. USE DEF history, turn_state
<1>1. CASE CheckConfig
  BY <1>1 DEF CheckConfig, Return, HeardInv, BetweenTurns, AllHeard
<1>2. CASE TurnStart
  <2>1. pc' \in {"Compact", "BeforeInference", "Done"}
    BY <1>2, TokenLeads DEF TurnStart, MaxTurnsReached, Return
  <2>. QED BY <1>2, <2>1 DEF TurnStart, HeardInv, BetweenTurns, AllHeard
<1>3. CASE Compact
  BY <1>3 DEF Compact, Return, HeardInv, BetweenTurns, AllHeard
<1>4. CASE BeforeInference
  <2>1. PICK heard \in {"none", "after_tool_execution"} : AllHeard(heard)
    BY <1>4 DEF BeforeInference, HeardInv, BetweenTurns
  <2>2. InOrder /\ (pc' = "Done" \/ (pc' = "Llm" /\ AllHeard("before_inference")'))
    BY <1>4, <2>1, TellingKeepsOrder DEF BeforeInference, Follows
  <2>. QED BY <1>4, <2>2 DEF BeforeInference, HeardInv
<1>5. CASE CallLlm
  <2>1. pc' \in {"AfterInference", "Done", "Llm"}
    BY <1>5 DEF CallLlm, LlmAnswers, LlmFails, GiveUp, Return
  <2>2. calls' \in Seq(ToolCall)
    BY <1>5, ProposalsAssumption DEF CallLlm, LlmAnswers, LlmFails, HeardInv
  <2>. QED BY <1>5, <2>1, <2>2 DEF CallLlm, HeardInv, AllHeard
<1>6. CASE NoAttempts
  BY <1>6 DEF NoAttempts, GiveUp, Return, HeardInv, AllHeard
<1>7. CASE AfterInference
  <2>1. InOrder /\ (pc' = "Done" \/ (pc' = "Judge" /\ AllHeard("after_inference")'))
    BY <1>7, TellingKeepsOrder DEF AfterInference, HeardInv, Follows
  <2>. QED BY <1>7, <2>1 DEF AfterInference, HeardInv
<1>8. CASE Judge
  <2>1. config.approval_policy \in ToolApprovalPolicy
    BY DEF IInv, LateInv, AgentLoopConfig
  <2>2. pc' = "Done" \/ (pc' = "Drain" /\ ready_entry(approvals') # {})
    BY <1>8, <2>1, NewMachineIsReady DEF Judge, Return, HeardInv
  <2>3. pc' = "Drain" => ready_entry(approvals)' # {}
    BY <2>2 DEF ready_entry, next_live
  <2>4. last_event' = last_event /\ calls' = calls /\ AllHeard("after_inference")
    BY <1>8 DEF Judge, HeardInv
  <2>. QED BY <2>2, <2>3, <2>4 DEF HeardInv, AllHeard
<1>9. CASE Drain
  <2>1. last_event' = last_event /\ calls' = calls
    BY <1>9 DEF Drain
  <2>2. CASE ready_entry(approvals) = {}
    <3>1. pc' = "TurnStart" /\ AllHeard("after_tool_execution")
      BY <1>9, <2>2 DEF Drain, HeardInv
    <3>. QED BY <2>1, <3>1 DEF HeardInv, BetweenTurns, AllHeard
  <2>3. CASE ready_entry(approvals) # {}
    <3>1. pc' \in {"BeforeTool", "Done"}
      BY <1>9, <2>3, TokenLeads DEF Drain
    <3>. QED BY <1>9, <2>1, <3>1 DEF Drain, HeardInv, AllHeard
  <2>. QED BY <2>2, <2>3
<1>10. CASE BeforeTool
  <2>1. PICK heard \in {"after_inference", "after_tool_execution"} : AllHeard(heard)
    BY <1>10 DEF BeforeTool, HeardInv
  <2>2. InOrder /\ (pc' = "Done" \/ (pc' = "Tool" /\ AllHeard("before_tool_execution")'))
    BY <1>10, <2>1, TellingKeepsOrder DEF BeforeTool, Follows
  <2>. QED BY <1>10, <2>2 DEF BeforeTool, HeardInv
<1>11. CASE Tool
  <2>1. pc' \in {"AfterTool", "Done"}
    BY <1>11 DEF Tool, RunTool, SkipTool, PushResult, Return
  <2>. QED BY <1>11, <2>1 DEF Tool, HeardInv, AllHeard
<1>12. CASE AfterTool
  <2>1. InOrder /\ (pc' = "Done" \/ (pc' = "Drain" /\ AllHeard("after_tool_execution")'))
    BY <1>12, TellingKeepsOrder DEF AfterTool, HeardInv, Follows
  <2>. QED BY <1>12, <2>1 DEF AfterTool, HeardInv
<1>13. CASE Cancel \/ UNCHANGED vars
  BY <1>13 DEF Cancel, vars, HeardInv, BetweenTurns, AllHeard, ready_entry, next_live
<1>. QED BY <1>1, <1>2, <1>3, <1>4, <1>5, <1>6, <1>7, <1>8, <1>9, <1>10, <1>11, <1>12, <1>13
         DEF Next, Step

\* Each hook of run_agent hears the four events around inferences and tools in the
\* canonical order, none of them missed or repeated, whichever hook fails and whenever
\* the run is cut short; it never hears the fifth, on_error, which run_agent does not
\* fire (ErrorsAreHeard).
THEOREM EventsInOrder == Spec => HooksInCanonicalOrder
<1>1. InOrder \/ UNCHANGED last_event <=> [InOrder]_last_event
  OBVIOUS
<1>. QED BY InitIInv, StepIInv, InitHeard, StepHeard, <1>1, PTL
         DEF Spec, HooksInCanonicalOrder, InOrder

----------------------------------------------------------------------------
(* The approval machine of a turn. run_agent never decides a call itself,  *)
(* so the machine it drains is one whose entries the policy settled.       *)

InTurn == pc \in {"Drain", "BeforeTool", "Tool", "AfterTool"}

Settled(policy, cs) ==
  \A i \in DOMAIN cs : action_for(policy, cs[i].name) \in {"Approve", "Deny"}

decision_of(policy, name) ==
  IF action_for(policy, name) = "Approve" THEN "Accept" ELSE "Reject"

\* The machine of the calls cs, with those below n handed out.
HandedOut(m, cs, policy, n) ==
  /\ m \in ApprovalMachine
  /\ Len(m.entries) = Len(cs)
  /\ m.next_index = n /\ n \in 1 .. Len(cs) + 1
  /\ \A i \in 1 .. Len(cs) :
       /\ m.entries[i].tool_call = cs[i]
       /\ m.entries[i].state = IF i < n THEN Dispatched ELSE initial_state(policy, cs[i].name)

\* Every policy says one of Approve, Deny and Ask of every tool, and the entry starts so.
LEMMA InitialStates ==
  ASSUME NEW policy \in ToolApprovalPolicy, NEW n \in ToolName
  PROVE  /\ action_for(policy, n) = "Approve" => initial_state(policy, n) = Ready("Accept")
         /\ action_for(policy, n) = "Deny" => initial_state(policy, n) = Ready("Reject")
         /\ action_for(policy, n) = "Ask" => initial_state(policy, n) = PendingUserDecision
         /\ action_for(policy, n) \in {"Approve", "Deny", "Ask"}
         /\ initial_state(policy, n) \in ApprovalEntryState
<1>1. action_for(policy, n) \in {"Approve", "Deny", "Ask"}
  <2>1. CASE policy \in [kind : {"None", "AcceptAll", "DenyAll"}]
    BY <2>1 DEF action_for
  <2>2. CASE policy \in [kind : {"Custom"},
                         rules : UNION {[S -> ToolApprovalAction] : S \in SUBSET ToolName},
                         default : ToolApprovalAction]
    <3>1. policy.kind = "Custom" /\ policy.default \in ToolApprovalAction
      BY <2>2
    <3>2. PICK S \in SUBSET ToolName : policy.rules \in [S -> ToolApprovalAction]
      BY <2>2
    <3>. QED BY <3>1, <3>2 DEF action_for, ToolApprovalAction
  <2>. QED BY <2>1, <2>2 DEF ToolApprovalPolicy
<1>2. /\ action_for(policy, n) = "Approve" => initial_state(policy, n) = Ready("Accept")
      /\ action_for(policy, n) = "Deny" => initial_state(policy, n) = Ready("Reject")
      /\ action_for(policy, n) = "Ask" => initial_state(policy, n) = PendingUserDecision
  BY <1>1 DEF initial_state
<1>3. Ready("Accept") \in ApprovalEntryState /\ Ready("Reject") \in ApprovalEntryState
      /\ PendingUserDecision \in ApprovalEntryState
  BY DEF ApprovalEntryState, ToolDecision
<1>. QED BY <1>1, <1>2, <1>3

\* The states of an entry are told apart.
LEMMA EntryStates ==
  /\ \A d : Ready(d).kind = "Ready" /\ Ready(d).decision = d
  /\ \A d : Ready(d) # Dispatched /\ Ready(d) # PendingUserDecision
  /\ Dispatched.kind # "Ready" /\ Dispatched \in ApprovalEntryState
<1>1. \A d : Ready(d).kind = "Ready" /\ Ready(d).decision = d
  BY DEF Ready
<1>2. Dispatched.kind = "Dispatched" /\ PendingUserDecision.kind = "PendingUserDecision"
  BY DEF Dispatched, PendingUserDecision
<1>3. Dispatched \in ApprovalEntryState
  BY DEF ApprovalEntryState
<1>4. \A d : Ready(d) # Dispatched /\ Ready(d) # PendingUserDecision
  BY <1>1, <1>2
<1>. QED BY <1>1, <1>2, <1>3, <1>4

\* new() has handed out nothing, and waits for nobody only if the policy settles each call.
LEMMA NewIsHandedOut ==
  ASSUME NEW policy \in ToolApprovalPolicy, NEW cs \in Seq(ToolCall)
  PROVE  /\ HandedOut(new(cs, policy), cs, policy, 1)
         /\ ~is_waiting_for_user(new(cs, policy)) => Settled(policy, cs)
<1>. DEFINE es == [i \in DOMAIN cs |-> [tool_call |-> cs[i],
                                       state     |-> initial_state(policy, cs[i].name)]]
<1>1. Len(cs) \in Nat /\ DOMAIN cs = 1 .. Len(cs)
  OBVIOUS
<1>2. \A i \in DOMAIN cs : cs[i] \in ToolCall /\ cs[i].name \in ToolName
  <2>1. \A i \in DOMAIN cs : cs[i] \in ToolCall
    OBVIOUS
  <2>. QED BY <2>1 DEF ToolCall
<1>3. \A i \in DOMAIN cs : es[i] \in ApprovalEntry
  BY <1>2, InitialStates DEF ApprovalEntry
<1>4. es \in [1 .. Len(cs) -> ApprovalEntry]
  BY <1>1, <1>3
<1>5. es \in Seq(ApprovalEntry) /\ Len(es) = Len(cs) /\ DOMAIN es = DOMAIN cs
  BY <1>1, <1>4
<1>6. \A i \in DOMAIN cs : es[i].tool_call = cs[i] /\ es[i].state = initial_state(policy, cs[i].name)
  OBVIOUS
<1>7. new(cs, policy) = [entries |-> es, next_index |-> 1]
  BY DEF new
<1>. HIDE DEF es
<1>8. /\ new(cs, policy).entries = es /\ new(cs, policy).next_index = 1
      /\ new(cs, policy) \in ApprovalMachine
  BY <1>5, <1>7 DEF ApprovalMachine
<1>9. HandedOut(new(cs, policy), cs, policy, 1)
  BY <1>1, <1>5, <1>6, <1>8 DEF HandedOut
<1>10. ASSUME ~is_waiting_for_user(new(cs, policy)) PROVE Settled(policy, cs)
  <2>1. \A i \in DOMAIN cs : initial_state(policy, cs[i].name) # PendingUserDecision
    BY <1>5, <1>6, <1>8, <1>10 DEF is_waiting_for_user, pending
  <2>. QED BY <1>2, <2>1, InitialStates DEF Settled
<1>. QED BY <1>9, <1>10

\* The cursor hands the calls out one by one, each with what the policy says of it.
LEMMA NextIsHandedOut ==
  ASSUME NEW policy \in ToolApprovalPolicy, NEW cs \in Seq(ToolCall), Settled(policy, cs),
         NEW m, NEW n, HandedOut(m, cs, policy, n)
  PROVE  /\ n = Len(cs) + 1 => ready_entry(m) = {} /\ exhausted(m) \in ApprovalMachine
         /\ n # Len(cs) + 1 =>
              /\ n \in DOMAIN cs /\ ready_entry(m) = {n}
              /\ HandedOut(dispatch(m, n), cs, policy, n + 1)
              /\ m.entries[n].tool_call = cs[n]
              /\ m.entries[n].state.decision = decision_of(policy, cs[n].name)
<1>1. /\ m \in ApprovalMachine /\ m.entries \in Seq(ApprovalEntry)
      /\ Len(m.entries) = Len(cs) /\ DOMAIN m.entries = 1 .. Len(cs)
      /\ m.next_index = n /\ n \in 1 .. Len(cs) + 1 /\ Len(cs) \in Nat /\ DOMAIN cs = 1 .. Len(cs)
      /\ \A i \in 1 .. Len(cs) :
           /\ m.entries[i].tool_call = cs[i]
           /\ m.entries[i].state = IF i < n THEN Dispatched ELSE initial_state(policy, cs[i].name)
  BY DEF HandedOut, ApprovalMachine
<1>2. CASE n = Len(cs) + 1
  <2>1. next_live(m) = {}
    BY <1>1, <1>2 DEF next_live
  <2>2. ready_entry(m) = {}
    BY <2>1 DEF ready_entry
  <2>3. exhausted(m) = [m EXCEPT !.next_index = n]
    BY <1>1, <1>2, <2>1 DEF exhausted, is_complete
  <2>4. exhausted(m) \in ApprovalMachine
    BY <1>1, <2>3 DEF ApprovalMachine
  <2>. QED BY <1>2, <2>2, <2>4
<1>3. CASE n # Len(cs) + 1
  <2>1. n \in DOMAIN cs /\ n \in 1 .. Len(cs)
    BY <1>1, <1>3
  <2>2. cs[n] \in ToolCall /\ cs[n].name \in ToolName
    <3>1. cs[n] \in ToolCall
      BY <2>1
    <3>. QED BY <3>1 DEF ToolCall
  <2>3. m.entries[n].tool_call = cs[n] /\ m.entries[n].state = initial_state(policy, cs[n].name)
    BY <1>1, <2>1
  <2>4. m.entries[n].state = Ready(decision_of(policy, cs[n].name))
    <3>1. action_for(policy, cs[n].name) \in {"Approve", "Deny"}
      BY <2>1 DEF Settled
    <3>. QED BY <2>2, <2>3, <3>1, InitialStates DEF decision_of
  <2>5. /\ m.entries[n].state # Dispatched
        /\ m.entries[n].state.kind = "Ready"
        /\ m.entries[n].state.decision = decision_of(policy, cs[n].name)
    BY <2>4, EntryStates
  <2>6. next_live(m) = {n}
    <3>1. n \in next_live(m)
      BY <1>1, <2>1, <2>5 DEF next_live
    <3>2. \A i \in next_live(m) : i = n
      BY <1>1, <2>1, <2>5 DEF next_live
    <3>. QED BY <3>1, <3>2
  <2>7. ready_entry(m) = {n}
    BY <2>5, <2>6 DEF ready_entry
  <2>8. HandedOut(dispatch(m, n), cs, policy, n + 1)
    <3>. DEFINE e == [m.entries[n] EXCEPT !.state = Dispatched]
                es == [m.entries EXCEPT ![n] = e]
    <3>1. m.entries[n] \in ApprovalEntry
      BY <1>1, <2>1
    <3>2. e \in ApprovalEntry /\ e.state = Dispatched /\ e.tool_call = m.entries[n].tool_call
      BY <3>1, EntryStates DEF ApprovalEntry
    <3>3. dispatch(m, n) = [entries |-> es, next_index |-> n + 1]
      BY DEF dispatch
    <3>. HIDE DEF e
    <3>4. /\ es \in Seq(ApprovalEntry) /\ Len(es) = Len(m.entries)
          /\ es[n] = e /\ \A i \in 1 .. Len(cs) : i # n => es[i] = m.entries[i]
      BY <1>1, <2>1, <3>2
    <3>. HIDE DEF es
    <3>5. /\ dispatch(m, n) \in ApprovalMachine
          /\ dispatch(m, n).entries = es /\ dispatch(m, n).next_index = n + 1
      BY <1>1, <3>3, <3>4 DEF ApprovalMachine
    <3>6. \A i \in 1 .. Len(cs) :
            /\ es[i].tool_call = cs[i]
            /\ es[i].state = IF i < n + 1 THEN Dispatched ELSE initial_state(policy, cs[i].name)
      BY <1>1, <2>1, <3>2, <3>4
    <3>. QED BY <1>1, <2>1, <3>4, <3>5, <3>6 DEF HandedOut
  <2>. QED BY <1>3, <2>1, <2>3, <2>5, <2>7, <2>8
<1>. QED BY <1>2, <1>3

----------------------------------------------------------------------------
\* Within a turn the machine is that of the turn's calls, all of them settled, and the
\* call under way is the one handed out last, with what the policy says of it.
MachineInv ==
  /\ pc \notin {"Config", "Done"} => config.max_turns > 0
  /\ pc \notin {"Config", "TurnStart", "Done"} => turn <= config.max_turns
  /\ InTurn =>
       /\ ~HasDuplicateId(calls)
       /\ Settled(config.approval_policy, calls)
       /\ HandedOut(approvals, calls, config.approval_policy, approvals.next_index)
  /\ pc \in {"BeforeTool", "Tool"} =>
       LET n == approvals.next_index - 1
       IN  /\ n \in DOMAIN calls
           /\ current = <<[call     |-> calls[n],
                           decision |-> decision_of(config.approval_policy, calls[n].name)]>>

TypedInv == TypeOK /\ MachineInv

\* The results run_agent may return are of the type of a result, and none is no result.
LEMMA ResultTypes ==
  ASSUME config \in AgentLoopConfig
  PROVE  /\ \A e \in AgentError : Err(e) # NoResult
         /\ \A reason \in {"FinalAnswerReached", "MaxTurnsReached", "WaitingForApproval"} :
              \A t \in 1 .. config.max_turns, ids \in SUBSET ToolCallId :
                Ok(reason, t, ids) \in AgentLoopResult /\ Ok(reason, t, ids) # NoResult
<1>1. NoResult.kind = "Running"
  BY DEF NoResult
<1>2. \A e : Err(e).kind = "Err"
  BY DEF Err
<1>3. \A reason, t, ids : Ok(reason, t, ids).kind = "Ok"
  BY DEF Ok
<1>4. \A reason \in {"FinalAnswerReached", "MaxTurnsReached", "WaitingForApproval"} :
        \A t \in 1 .. config.max_turns, ids \in SUBSET ToolCallId :
          Ok(reason, t, ids) \in AgentLoopResult
  BY DEF Ok, AgentLoopResult
<1>. QED BY <1>1, <1>2, <1>3, <1>4

\* The run returns an error, or goes on.
LEMMA HooksType ==
  ASSUME TypeOK, NEW event \in Event, NEW next_pc, FireHooks(event, next_pc)
  PROVE  /\ last_event' \in [1 .. Hooks -> Event \cup {"none"}]
         /\ \/ pc' = next_pc /\ result' = result
            \/ pc' = "Done" /\ result' = Err("Hook")
  BY DEF FireHooks, Return, TypeOK

\* Looking at the token leads to a place of the run or to its end as cancelled.
LEMMA TokenType ==
  ASSUME NEW next_pc, ContinueUnlessCancelled(next_pc)
  PROVE  \/ pc' = next_pc /\ result' = result
         \/ pc' = "Done" /\ result' = Err("Cancelled")
  BY DEF ContinueUnlessCancelled, Return

Place == {"TurnStart", "Compact", "BeforeInference", "Llm", "AfterInference", "Judge",
          "Drain", "BeforeTool", "Tool", "AfterTool"}

\* A step goes on, or ends the run with an error or with one of the three results.
GoesOnOrEnds ==
  \/ pc' \in Place /\ result' = result
  \/ pc' = "Done" /\ \E e \in AgentError : result' = Err(e)
  \/ /\ pc' = "Done"
     /\ \E reason \in {"FinalAnswerReached", "MaxTurnsReached", "WaitingForApproval"} :
          \E t \in 1 .. config.max_turns, ids \in SUBSET ToolCallId : result' = Ok(reason, t, ids)

\* A step that goes on or ends keeps the types of control.
LEMMA ControlType ==
  ASSUME TypeOK, pc # "Done", config' = config, GoesOnOrEnds
  PROVE  /\ pc' \in Place \cup {"Done"}
         /\ (pc' = "Done") <=> (result' # NoResult)
         /\ result' \in {NoResult} \cup {Err(e) : e \in AgentError} \cup AgentLoopResult'
<1>1. config \in AgentLoopConfig /\ result = NoResult /\ "Done" \notin Place
  BY ConfigsAssumption DEF TypeOK, Place
<1>2. AgentLoopResult' = AgentLoopResult
  BY DEF AgentLoopResult
<1>. QED BY <1>1, <1>2, ResultTypes DEF GoesOnOrEnds

\* A step that touches nothing but where the run stands.
LEMMA MoveKeepsTypes ==
  ASSUME TypeOK, pc # "Done", GoesOnOrEnds,
         UNCHANGED <<config, turn, attempt, total_input_tokens, turn_state, cancelled,
                     messages, executed, last_event, late>>
  PROVE  TypeOK'
BY ControlType DEF TypeOK, Place, turn_state

\* The initial state is well typed.
LEMMA InitTyped == Init => TypedInv
<1>. SUFFICES ASSUME Init PROVE TypedInv
  OBVIOUS
<1>1. config \in AgentLoopConfig /\ config.max_turns \in Nat
  BY ConfigsAssumption DEF Init, AgentLoopConfig
<1>2. no_machine \in ApprovalMachine
  BY DEF no_machine, ApprovalMachine
<1>3. messages \in Seq(Message)
  <2>1. user_message \in Message
    BY DEF Message
  <2>. QED BY <2>1 DEF Init
<1>4. executed \in Seq([turn : 1 .. config.max_turns, call : ToolCall])
  BY DEF Init
<1>. QED BY <1>1, <1>2, <1>3, <1>4, CountersAssumption DEF Init, TypedInv, TypeOK, MachineInv, InTurn

\* Every step of run_agent keeps the types and what is said of the turn's machine.
LEMMA StepTyped == TypedInv /\ [Next]_vars => TypedInv'
<1>. SUFFICES ASSUME TypedInv, [Next]_vars PROVE TypedInv'
  OBVIOUS
<1>0. /\ TypeOK /\ MachineInv /\ config \in AgentLoopConfig
      /\ config.max_turns \in Nat /\ config.approval_policy \in ToolApprovalPolicy
      /\ calls \in Seq(ToolCall)
  <2>1. <<>> \in Seq(ToolCall)
    OBVIOUS
  <2>2. TypeOK /\ MachineInv
    BY DEF TypedInv
  <2>3. config \in AgentLoopConfig /\ calls \in Seq(ToolCall)
    BY <2>1, <2>2, ConfigsAssumption, ProposalsAssumption DEF TypeOK
  <2>. QED BY <2>2, <2>3 DEF AgentLoopConfig
<1>1. CASE CheckConfig
  <2>1. GoesOnOrEnds /\ pc # "Done"
    BY <1>1 DEF CheckConfig, Return, GoesOnOrEnds, Place, AgentError
  <2>2. TypeOK'
    BY <1>0, <1>1, <2>1, MoveKeepsTypes DEF CheckConfig, history
  <2>3. pc' \in {"TurnStart", "Done"} /\ (pc' = "TurnStart" => config'.max_turns > 0)
    BY <1>0, <1>1 DEF CheckConfig, Return
  <2>. QED BY <2>2, <2>3 DEF TypedInv, MachineInv, InTurn
<1>2. CASE TurnStart
  <2>1. pc = "TurnStart" /\ config.max_turns > 0 /\ config' = config /\ turn' = turn
    BY <1>0, <1>2 DEF TurnStart, MachineInv
  <2>2. CASE NoTurnLeft
    <3>1. pc' = "Done" /\ result' = Ok("MaxTurnsReached", config.max_turns, {})
      BY <1>2, <2>2 DEF TurnStart, MaxTurnsReached, Return
    <3>2. GoesOnOrEnds
      BY <1>0, <2>1, <3>1 DEF GoesOnOrEnds
    <3>3. TypeOK'
      BY <1>0, <1>2, <3>2, MoveKeepsTypes DEF TurnStart, history
    <3>. QED BY <3>1, <3>3 DEF TypedInv, MachineInv, InTurn
  <2>3. CASE ~NoTurnLeft
    <3>1. \/ pc' \in {"Compact", "BeforeInference"} /\ result' = result
          \/ pc' = "Done" /\ result' = Err("Cancelled")
      BY <1>2, <2>3, TokenType DEF TurnStart
    <3>2. GoesOnOrEnds
      BY <3>1 DEF GoesOnOrEnds, Place, AgentError
    <3>3. TypeOK'
      BY <1>0, <1>2, <3>2, MoveKeepsTypes DEF TurnStart, history
    <3>4. turn <= config.max_turns
      BY <1>0, <2>3 DEF NoTurnLeft, TypeOK
    <3>. QED BY <2>1, <3>1, <3>3, <3>4 DEF TypedInv, MachineInv, InTurn
  <2>. QED BY <2>2, <2>3
<1>3. CASE Compact
  <2>1. /\ pc = "Compact"
        /\ \/ pc' = "BeforeInference" /\ result' = result
           \/ pc' = "Done" /\ result' = Err("Compaction")
    BY <1>3 DEF Compact, Return
  <2>2. GoesOnOrEnds
    BY <2>1 DEF GoesOnOrEnds, Place, AgentError
  <2>3. TypeOK'
    BY <1>0, <1>3, <2>2, MoveKeepsTypes DEF Compact, history
  <2>. QED BY <1>0, <1>3, <2>1, <2>3 DEF TypedInv, MachineInv, InTurn, Compact
<1>4. CASE BeforeInference
  <2>1. /\ pc = "BeforeInference"
        /\ last_event' \in [1 .. Hooks -> Event \cup {"none"}]
        /\ \/ pc' = "Llm" /\ result' = result
           \/ pc' = "Done" /\ result' = Err("Hook")
    BY <1>0, <1>4, HooksType DEF BeforeInference, Event
  <2>2. GoesOnOrEnds
    BY <2>1 DEF GoesOnOrEnds, Place, AgentError
  <2>3. TypeOK'
    BY <1>0, <1>4, <2>1, <2>2, ControlType DEF BeforeInference, TypeOK, turn_state, Place
  <2>. QED BY <1>0, <1>4, <2>1, <2>3 DEF TypedInv, MachineInv, InTurn, BeforeInference
<1>5. CASE CallLlm
  <2>1. /\ pc = "Llm" /\ config' = config /\ turn' = turn
        /\ \/ pc' \in {"AfterInference", "Llm"} /\ result' = result
           \/ pc' = "Done" /\ result' = Err("LlmRetryExhausted")
    BY <1>5 DEF CallLlm, LlmAnswers, LlmFails, GiveUp, Return
  <2>2. GoesOnOrEnds
    BY <2>1 DEF GoesOnOrEnds, Place, AgentError
  <2>3. late' \in [llm : Nat, tools : Nat]
    <3>1. late \in [llm : Nat, tools : Nat] /\ late' \in {late, [late EXCEPT !.llm = @ + 1]}
      BY <1>0, <1>5 DEF CallLlm, TypeOK
    <3>. QED BY <3>1
  <2>4. /\ calls' \in Proposals \cup {<<>>}
        /\ attempt' \in Nat \ {0}
        /\ total_input_tokens' \in 0 .. MaxTokens
    BY <1>0, <1>5, CountersAssumption DEF CallLlm, LlmAnswers, LlmFails, TypeOK
  <2>5. /\ UNCHANGED <<config, turn, messages, approvals, current, cancelled, executed, last_event>>
    BY <1>5 DEF CallLlm
  <2>6. TypeOK'
    BY <1>0, <2>1, <2>2, <2>3, <2>4, <2>5, ControlType DEF TypeOK, Place
  <2>. QED BY <1>0, <2>1, <2>6 DEF TypedInv, MachineInv, InTurn
<1>6. CASE NoAttempts
  <2>1. pc = "Llm" /\ pc' = "Done" /\ result' = Err("LlmRetryExhausted")
    BY <1>6 DEF NoAttempts, GiveUp, Return
  <2>2. GoesOnOrEnds
    BY <2>1 DEF GoesOnOrEnds, Place, AgentError
  <2>3. TypeOK'
    BY <1>0, <1>6, <2>2, MoveKeepsTypes DEF NoAttempts, history
  <2>. QED BY <2>1, <2>3 DEF TypedInv, MachineInv, InTurn
<1>7. CASE AfterInference
  <2>1. /\ pc = "AfterInference"
        /\ last_event' \in [1 .. Hooks -> Event \cup {"none"}]
        /\ \/ pc' = "Judge" /\ result' = result
           \/ pc' = "Done" /\ result' = Err("Hook")
    BY <1>0, <1>7, HooksType DEF AfterInference, Event
  <2>2. GoesOnOrEnds
    BY <2>1 DEF GoesOnOrEnds, Place, AgentError
  <2>3. TypeOK'
    BY <1>0, <1>7, <2>1, <2>2, ControlType DEF AfterInference, TypeOK, turn_state, Place
  <2>. QED BY <1>0, <1>7, <2>1, <2>3 DEF TypedInv, MachineInv, InTurn, AfterInference
<1>8. CASE Judge
  <2>1. /\ pc = "Judge" /\ UNCHANGED <<config, turn, attempt, total_input_tokens, calls, current,
                                       cancelled, executed, last_event, late>>
    BY <1>8 DEF Judge, history
  <2>2. turn \in 1 .. config.max_turns /\ messages \in Seq(Message)
    BY <1>0, <2>1 DEF TypeOK, MachineInv
  <2>3. assistant(calls) \in Message /\ assistant(<<>>) \in Message
    <3>1. <<>> \in Seq(ToolCall)
      OBVIOUS
    <3>. QED BY <1>0, <3>1 DEF assistant, Message
  <2>4. CASE calls = <<>>
    <3>1. /\ pc' = "Done" /\ result' = Ok("FinalAnswerReached", turn, {})
          /\ messages' = Append(messages, assistant(<<>>)) /\ approvals' = approvals
      BY <1>8, <2>4 DEF Judge, Return
    <3>2. GoesOnOrEnds
      BY <2>2, <3>1 DEF GoesOnOrEnds
    <3>3. messages' \in Seq(Message)
      BY <2>2, <2>3, <3>1
    <3>4. TypeOK'
      BY <1>0, <2>1, <3>1, <3>2, <3>3, ControlType DEF TypeOK, Place
    <3>. QED BY <3>1, <3>4 DEF TypedInv, MachineInv, InTurn
  <2>5. CASE calls # <<>> /\ HasDuplicateId(calls)
    <3>1. /\ pc' = "Done" /\ result' = Err("DuplicateToolCallId")
          /\ UNCHANGED <<messages, approvals>>
      BY <1>8, <2>5 DEF Judge, Return
    <3>2. GoesOnOrEnds
      BY <3>1 DEF GoesOnOrEnds, AgentError
    <3>3. TypeOK'
      BY <1>0, <2>1, <3>1, <3>2, MoveKeepsTypes DEF turn_state
    <3>. QED BY <3>1, <3>3 DEF TypedInv, MachineInv, InTurn
  <2>6. CASE calls # <<>> /\ ~HasDuplicateId(calls)
    <3>1. /\ messages' = Append(messages, assistant(calls))
          /\ approvals' = new(calls, config.approval_policy)
          /\ IF is_waiting_for_user(approvals')
             THEN pc' = "Done" /\ result' = Ok("WaitingForApproval", turn, pending_tool_call_ids(approvals'))
             ELSE pc' = "Drain" /\ UNCHANGED result
      BY <1>8, <2>6 DEF Judge, Return
    <3>2. /\ HandedOut(approvals', calls, config.approval_policy, 1)
          /\ ~is_waiting_for_user(approvals') => Settled(config.approval_policy, calls)
      BY <1>0, <3>1, NewIsHandedOut
    <3>3. approvals' \in ApprovalMachine /\ approvals'.next_index = 1
      BY <3>2 DEF HandedOut
    <3>4. pending_tool_call_ids(approvals') \in SUBSET ToolCallId
      <4>1. approvals'.entries \in Seq(ApprovalEntry)
        BY <3>3 DEF ApprovalMachine
      <4>2. \A i \in DOMAIN approvals'.entries : approvals'.entries[i].tool_call.id \in ToolCallId
        <5>1. \A i \in DOMAIN approvals'.entries : approvals'.entries[i] \in ApprovalEntry
          BY <4>1
        <5>. QED BY <5>1 DEF ApprovalEntry, ToolCall
      <4>. QED BY <4>2 DEF pending_tool_call_ids, pending
    <3>5. GoesOnOrEnds
      BY <2>2, <3>1, <3>4 DEF GoesOnOrEnds, Place
    <3>6. messages' \in Seq(Message)
      BY <2>2, <2>3, <3>1
    <3>7. TypeOK'
      BY <1>0, <2>1, <3>3, <3>5, <3>6, ControlType DEF TypeOK, Place
    <3>8. pc' \in {"Drain", "Done"} /\ (pc' = "Drain" => ~is_waiting_for_user(approvals'))
      BY <3>1
    <3>9. MachineInv'
      BY <1>0, <2>1, <2>2, <2>6, <3>2, <3>3, <3>8 DEF MachineInv, InTurn
    <3>. QED BY <3>7, <3>9 DEF TypedInv
  <2>. QED BY <1>8, <2>4, <2>5, <2>6 DEF Judge
<1>9. CASE Drain
  <2>. DEFINE n == approvals.next_index
              policy == config.approval_policy
  <2>1. /\ pc = "Drain" /\ UNCHANGED <<config, attempt, messages, total_input_tokens, calls,
                                       cancelled, executed, last_event, late>>
    BY <1>9 DEF Drain, history
  <2>2. /\ ~HasDuplicateId(calls) /\ Settled(policy, calls) /\ HandedOut(approvals, calls, policy, n)
        /\ turn \in 1 .. config.max_turns
    BY <1>0, <2>1 DEF MachineInv, InTurn, TypeOK
  <2>3. /\ n = Len(calls) + 1 => ready_entry(approvals) = {} /\ exhausted(approvals) \in ApprovalMachine
        /\ n # Len(calls) + 1 =>
              /\ n \in DOMAIN calls /\ ready_entry(approvals) = {n}
              /\ HandedOut(dispatch(approvals, n), calls, policy, n + 1)
              /\ approvals.entries[n].tool_call = calls[n]
              /\ approvals.entries[n].state.decision = decision_of(policy, calls[n].name)
    BY <1>0, <2>2, NextIsHandedOut
  <2>4. CASE n = Len(calls) + 1
    <3>1. /\ approvals' = exhausted(approvals) /\ turn' = turn + 1
          /\ pc' = "TurnStart" /\ current' = no_call /\ result' = result
      BY <1>9, <2>3, <2>4 DEF Drain
    <3>2. GoesOnOrEnds
      BY <3>1 DEF GoesOnOrEnds, Place
    <3>3. turn' \in 1 .. config.max_turns + 1
      BY <1>0, <2>2, <3>1
    <3>4. TypeOK'
      BY <1>0, <2>1, <2>3, <2>4, <3>1, <3>2, <3>3, ControlType DEF TypeOK, Place
    <3>. QED BY <1>0, <2>1, <3>1, <3>4 DEF TypedInv, MachineInv, InTurn
  <2>5. CASE n # Len(calls) + 1
    <3>. DEFINE c == [call |-> calls[n], decision |-> decision_of(policy, calls[n].name)]
    <3>1. /\ approvals' = dispatch(approvals, n) /\ current' = <<c>> /\ turn' = turn
          /\ ContinueUnlessCancelled("BeforeTool")
      BY <1>9, <2>3, <2>5 DEF Drain
    <3>2. \/ pc' = "BeforeTool" /\ result' = result
          \/ pc' = "Done" /\ result' = Err("Cancelled")
      BY <3>1, TokenType
    <3>3. GoesOnOrEnds
      BY <3>2 DEF GoesOnOrEnds, Place, AgentError
    <3>4. approvals' \in ApprovalMachine /\ approvals'.next_index = n + 1
      BY <2>3, <2>5, <3>1 DEF HandedOut
    <3>5. c \in [call : ToolCall, decision : ToolDecision]
      <4>1. calls[n] \in ToolCall
        BY <1>0, <2>3, <2>5
      <4>2. decision_of(policy, calls[n].name) \in ToolDecision
        BY DEF decision_of, ToolDecision
      <4>. QED BY <4>1, <4>2
    <3>6. current' \in Seq([call : ToolCall, decision : ToolDecision]) /\ Len(current') = 1
      BY <3>1, <3>5
    <3>7. TypeOK'
      <4>1. turn' \in 1 .. config'.max_turns + 1
        BY <1>0, <2>1, <2>2, <3>1
      <4>. QED BY <1>0, <2>1, <3>3, <3>4, <3>6, <4>1, ControlType DEF TypeOK, Place
    <3>8. MachineInv'
      <4>1. n \in Nat /\ (n + 1) - 1 = n
        BY <2>3, <2>5, <1>0
      <4>2. HandedOut(approvals', calls, policy, approvals'.next_index)
        BY <2>3, <2>5, <3>1, <3>4
      <4>3. approvals'.next_index - 1 = n
        BY <3>4, <4>1
      <4>4. config'.max_turns > 0 /\ turn' <= config'.max_turns
        BY <1>0, <2>1, <2>2, <3>1
      <4>. QED BY <2>1, <2>2, <2>3, <2>5, <3>1, <3>2, <4>2, <4>3, <4>4 DEF MachineInv, InTurn
    <3>. QED BY <3>7, <3>8 DEF TypedInv
  <2>. QED BY <2>4, <2>5
<1>10. CASE BeforeTool
  <2>1. /\ pc = "BeforeTool"
        /\ last_event' \in [1 .. Hooks -> Event \cup {"none"}]
        /\ \/ pc' = "Tool" /\ result' = result
           \/ pc' = "Done" /\ result' = Err("Hook")
    BY <1>0, <1>10, HooksType DEF BeforeTool, Event
  <2>2. GoesOnOrEnds
    BY <2>1 DEF GoesOnOrEnds, Place, AgentError
  <2>3. TypeOK'
    BY <1>0, <1>10, <2>1, <2>2, ControlType DEF BeforeTool, TypeOK, turn_state, Place
  <2>. QED BY <1>0, <1>10, <2>1, <2>3 DEF TypedInv, MachineInv, InTurn, BeforeTool, turn_state
<1>11. CASE Tool
  <2>. DEFINE call == current[1].call
  <2>1. /\ pc = "Tool" /\ UNCHANGED <<config, turn, attempt, total_input_tokens, calls, approvals,
                                      current, cancelled, last_event>>
    BY <1>11 DEF Tool, turn_state
  <2>2. /\ call \in ToolCall /\ call.id \in ToolCallId /\ turn \in 1 .. config.max_turns
        /\ current[1].decision \in {"Accept", "Reject"}
    <3>1. PICK n \in DOMAIN calls :
            current = <<[call |-> calls[n],
                         decision |-> decision_of(config.approval_policy, calls[n].name)]>>
      BY <1>0, <2>1 DEF MachineInv
    <3>2. calls[n] \in ToolCall
      BY <1>0
    <3>. QED BY <1>0, <2>1, <3>1, <3>2 DEF MachineInv, TypeOK, ToolCall, decision_of
  <2>3. /\ \/ pc' = "AfterTool" /\ result' = result
           \/ pc' = "Done" /\ result' \in {Err("ToolExecution"), Err("Cancelled")}
        /\ \/ messages' = messages
           \/ \E content \in {"result", "tool_error", "rejected"} :
                messages' = Append(messages, tool_result(call.id, content))
        /\ \/ executed' = executed
           \/ executed' = Append(executed, [turn |-> turn, call |-> call])
        /\ late' = late \/ late' = [late EXCEPT !.tools = @ + 1]
    BY <1>11, <2>2 DEF Tool, RunTool, SkipTool, PushResult, Return
  <2>4. GoesOnOrEnds
    BY <2>3 DEF GoesOnOrEnds, Place, AgentError
  <2>5. messages' \in Seq(Message)
    <3>1. ASSUME NEW content \in {"result", "tool_error", "rejected"}
          PROVE  Append(messages, tool_result(call.id, content)) \in Seq(Message)
      <4>1. tool_result(call.id, content)
              \in [role : {"Tool"}, tool_call_id : ToolCallId,
                   content : {"result", "tool_error", "rejected"} \cup CustomResult]
        BY <2>2 DEF tool_result
      <4>2. tool_result(call.id, content) \in Message /\ messages \in Seq(Message)
        BY <1>0, <4>1 DEF Message, TypeOK
      <4>. QED BY <4>2
    <3>2. messages \in Seq(Message)
      BY <1>0 DEF TypeOK
    <3>. QED BY <2>3, <3>1, <3>2
  <2>6. executed' \in Seq([turn : 1 .. config.max_turns, call : ToolCall])
    <3>1. [turn |-> turn, call |-> call] \in [turn : 1 .. config.max_turns, call : ToolCall]
      BY <2>2
    <3>2. executed \in Seq([turn : 1 .. config.max_turns, call : ToolCall])
      BY <1>0 DEF TypeOK
    <3>3. CASE executed' = executed
      BY <3>2, <3>3
    <3>4. CASE executed' = Append(executed, [turn |-> turn, call |-> call])
      BY <3>1, <3>2, <3>4
    <3>. QED BY <2>3, <3>3, <3>4
  <2>7. late' \in [llm : Nat, tools : Nat]
    <3>1. late \in [llm : Nat, tools : Nat]
      BY <1>0 DEF TypeOK
    <3>. QED BY <2>3, <3>1
  <2>8. TypeOK'
    BY <1>0, <2>1, <2>4, <2>5, <2>6, <2>7, ControlType DEF TypeOK, Place
  <2>. QED BY <1>0, <2>1, <2>3, <2>8 DEF TypedInv, MachineInv, InTurn
<1>12. CASE AfterTool
  <2>1. /\ pc = "AfterTool"
        /\ last_event' \in [1 .. Hooks -> Event \cup {"none"}]
        /\ \/ pc' = "Drain" /\ result' = result
           \/ pc' = "Done" /\ result' = Err("Hook")
    BY <1>0, <1>12, HooksType DEF AfterTool, Event
  <2>2. GoesOnOrEnds
    BY <2>1 DEF GoesOnOrEnds, Place, AgentError
  <2>3. TypeOK'
    BY <1>0, <1>12, <2>1, <2>2, ControlType DEF AfterTool, TypeOK, turn_state, Place
  <2>. QED BY <1>0, <1>12, <2>1, <2>3 DEF TypedInv, MachineInv, InTurn, AfterTool, turn_state
<1>13. CASE Cancel
  BY <1>0, <1>13 DEF Cancel, TypedInv, TypeOK, MachineInv, InTurn, AgentLoopResult, history, turn_state
<1>14. CASE UNCHANGED vars
  BY <1>0, <1>14 DEF vars, TypedInv, TypeOK, MachineInv, InTurn, AgentLoopResult
<1>. QED BY <1>1, <1>2, <1>3, <1>4, <1>5, <1>6, <1>7, <1>8, <1>9, <1>10, <1>11, <1>12, <1>13,
            <1>14 DEF Next, Step

\* The variables of run_agent have their types.
THEOREM TypeCorrect == Spec => []TypeOK
<1>1. TypedInv => TypeOK
  BY DEF TypedInv
<1>. QED BY InitTyped, StepTyped, <1>1, PTL DEF Spec

----------------------------------------------------------------------------
(* What a step may do to the thread and to the executions. The invariants  *)
(* of both are proved from these five kinds of step.                       *)

\* The results that stand behind the answer of the turn under way.
results == approvals.next_index - (IF pc \in {"BeforeTool", "Tool"} THEN 2 ELSE 1)

StepStays ==
  /\ UNCHANGED <<config, messages, executed>>
  /\ \/ pc' = "Done"
     \/ /\ pc # "Done" /\ InTurn' = InTurn /\ turn' = turn
        /\ InTurn => results' = results /\ calls' = calls

StepAnswers ==
  /\ pc = "Judge" /\ pc' \in {"Drain", "Done"}
  /\ UNCHANGED <<config, turn, calls, executed>>
  /\ messages' = Append(messages, assistant(calls))
  /\ pc' = "Drain" => results' = 0

StepEndsTurn ==
  /\ InTurn /\ pc' = "TurnStart" /\ results = Len(calls)
  /\ UNCHANGED <<config, messages, executed>>
  /\ turn' = turn + 1

\* The call under way is the one behind those that have a result.
StepSkips ==
  /\ pc = "Tool" /\ pc' = "AfterTool"
  /\ UNCHANGED <<config, turn, calls, executed>>
  /\ results + 1 \in DOMAIN calls /\ results' = results + 1
  /\ messages' = Append(messages, tool_result(calls[results + 1].id, "rejected"))

StepRuns ==
  /\ pc = "Tool"
  /\ UNCHANGED <<config, turn, calls>>
  /\ results + 1 \in DOMAIN calls
  /\ action_for(config.approval_policy, calls[results + 1].name) = "Approve"
  /\ executed' = Append(executed, [turn |-> turn, call |-> calls[results + 1]])
  /\ \/ pc' = "Done" /\ messages' = messages
     \/ /\ pc' = "AfterTool" /\ results' = results + 1
        /\ \E content \in {"result", "tool_error"} :
             messages' = Append(messages, tool_result(calls[results + 1].id, content))

\* Every step is of one of the five kinds.
LEMMA StepKinds ==
  ASSUME TypedInv, TypedInv', [Next]_vars
  PROVE  StepStays \/ StepAnswers \/ StepEndsTurn \/ StepSkips \/ StepRuns
<1>0. /\ TypeOK /\ MachineInv
      /\ config.approval_policy \in ToolApprovalPolicy
      /\ calls \in Seq(ToolCall)
      /\ approvals.next_index \in Nat
  <2>1. <<>> \in Seq(ToolCall)
    OBVIOUS
  <2>2. TypeOK /\ MachineInv
    BY DEF TypedInv
  <2>3. config \in AgentLoopConfig /\ calls \in Seq(ToolCall)
    BY <2>1, <2>2, ConfigsAssumption, ProposalsAssumption DEF TypeOK
  <2>. QED BY <2>2, <2>3 DEF AgentLoopConfig, TypeOK, ApprovalMachine
<1>. USE DEF history, turn_state
<1>1. CASE CheckConfig
  BY <1>1 DEF CheckConfig, Return, StepStays, InTurn
<1>2. CASE TurnStart
  <2>1. pc' \in {"Compact", "BeforeInference", "Done"}
    BY <1>2, TokenLeads DEF TurnStart, MaxTurnsReached, Return
  <2>. QED BY <1>2, <2>1 DEF TurnStart, StepStays, InTurn
<1>3. CASE Compact
  BY <1>3 DEF Compact, Return, StepStays, InTurn
<1>4. CASE BeforeInference
  BY <1>4, HooksLead DEF BeforeInference, StepStays, InTurn
<1>5. CASE CallLlm
  <2>1. pc' \in {"AfterInference", "Done", "Llm"}
    BY <1>5 DEF CallLlm, LlmAnswers, LlmFails, GiveUp, Return
  <2>. QED BY <1>5, <2>1 DEF CallLlm, StepStays, InTurn
<1>6. CASE NoAttempts
  BY <1>6 DEF NoAttempts, GiveUp, Return, StepStays
<1>7. CASE AfterInference
  BY <1>7, HooksLead DEF AfterInference, StepStays, InTurn
<1>8. CASE Judge
  <2>1. pc = "Judge" /\ UNCHANGED <<config, turn, calls, executed>>
    BY <1>8 DEF Judge
  <2>2. CASE calls # <<>> /\ HasDuplicateId(calls)
    BY <1>8, <2>1, <2>2 DEF Judge, Return, StepStays
  <2>3. CASE calls = <<>>
    BY <1>8, <2>1, <2>3 DEF Judge, Return, StepAnswers
  <2>4. CASE calls # <<>> /\ ~HasDuplicateId(calls)
    <3>1. /\ messages' = Append(messages, assistant(calls))
          /\ approvals' = new(calls, config.approval_policy)
          /\ pc' \in {"Drain", "Done"}
      BY <1>8, <2>4 DEF Judge, Return
    <3>2. pc' = "Drain" => results' = 0
      BY <3>1 DEF new, results
    <3>. QED BY <2>1, <3>1, <3>2 DEF StepAnswers
  <2>. QED BY <2>2, <2>3, <2>4
<1>9. CASE Drain
  <2>. DEFINE n == approvals.next_index
              policy == config.approval_policy
  <2>1. pc = "Drain" /\ UNCHANGED <<config, messages, calls, executed>> /\ results = n - 1
    BY <1>9 DEF Drain, results
  <2>2. Settled(policy, calls) /\ HandedOut(approvals, calls, policy, n)
    BY <1>0, <2>1 DEF MachineInv, InTurn
  <2>3. /\ n = Len(calls) + 1 => ready_entry(approvals) = {} /\ exhausted(approvals) \in ApprovalMachine
        /\ n # Len(calls) + 1 =>
              /\ n \in DOMAIN calls /\ ready_entry(approvals) = {n}
              /\ HandedOut(dispatch(approvals, n), calls, policy, n + 1)
              /\ approvals.entries[n].tool_call = calls[n]
              /\ approvals.entries[n].state.decision = decision_of(policy, calls[n].name)
    BY <1>0, <2>2, NextIsHandedOut
  <2>4. CASE n = Len(calls) + 1
    <3>1. pc' = "TurnStart" /\ turn' = turn + 1
      BY <1>9, <2>3, <2>4 DEF Drain
    <3>2. results = Len(calls)
      BY <1>0, <2>1, <2>4
    <3>. QED BY <2>1, <3>1, <3>2 DEF StepEndsTurn, InTurn
  <2>5. CASE n # Len(calls) + 1
    <3>1. turn' = turn /\ approvals' = dispatch(approvals, n) /\ pc' \in {"BeforeTool", "Done"}
      BY <1>9, <2>3, <2>5, TokenLeads DEF Drain
    <3>2. approvals'.next_index = n + 1
      BY <2>3, <2>5, <3>1 DEF HandedOut
    <3>3. pc' = "BeforeTool" => results' = results
      BY <1>0, <2>1, <3>2 DEF results
    <3>. QED BY <2>1, <3>1, <3>3 DEF StepStays, InTurn
  <2>. QED BY <2>4, <2>5
<1>10. CASE BeforeTool
  <2>1. pc = "BeforeTool" /\ pc' \in {"Tool", "Done"}
    BY <1>10, HooksLead DEF BeforeTool
  <2>. QED BY <1>10, <2>1 DEF BeforeTool, StepStays, InTurn, results
<1>11. CASE Tool
  <2>. DEFINE n == results + 1
  <2>1. /\ pc = "Tool" /\ UNCHANGED <<config, turn, calls, approvals>>
        /\ n = approvals.next_index - 1
    BY <1>0, <1>11 DEF Tool, results
  <2>2. /\ n \in DOMAIN calls
        /\ current = <<[call     |-> calls[n],
                        decision |-> decision_of(config.approval_policy, calls[n].name)]>>
    BY <1>0, <2>1 DEF MachineInv
  <2>3. pc' = "AfterTool" => results' = n
    BY <1>0, <2>1 DEF results
  <2>. HIDE DEF n
  <2>4. current[1].call = calls[n]
        /\ current[1].decision = decision_of(config.approval_policy, calls[n].name)
    BY <2>2
  <2>5. CASE current[1].decision = "Accept"
    <3>1. action_for(config.approval_policy, calls[n].name) = "Approve"
      BY <2>4, <2>5 DEF decision_of
    <3>2. RunTool(calls[n])
      BY <1>11, <2>4, <2>5 DEF Tool
    <3>. QED BY <2>1, <2>2, <2>3, <3>1, <3>2 DEF RunTool, PushResult, Return, StepRuns, n
  <2>6. CASE current[1].decision # "Accept"
    <3>1. current[1].decision = "Reject"
      BY <2>4, <2>6 DEF decision_of
    <3>2. SkipTool(calls[n], "Reject")
      BY <1>11, <2>4, <2>6, <3>1 DEF Tool
    <3>. QED BY <2>1, <2>2, <2>3, <3>2 DEF SkipTool, PushResult, StepSkips, n
  <2>. QED BY <2>5, <2>6
<1>12. CASE AfterTool
  <2>1. pc = "AfterTool" /\ pc' \in {"Drain", "Done"}
    BY <1>12, HooksLead DEF AfterTool
  <2>. QED BY <1>12, <2>1 DEF AfterTool, StepStays, InTurn, results
<1>13. CASE Cancel
  BY <1>13 DEF Cancel, StepStays, InTurn, results
<1>14. CASE UNCHANGED vars
  BY <1>14 DEF vars, StepStays, InTurn, results
<1>. QED BY <1>1, <1>2, <1>3, <1>4, <1>5, <1>6, <1>7, <1>8, <1>9, <1>10, <1>11, <1>12, <1>13,
            <1>14 DEF Next, Step

----------------------------------------------------------------------------
(* The thread *)

\* The answer at i has all its results behind it; a result at i has its answer.
Answered(i) ==
  messages[i].role = "Assistant" =>
    \A k \in DOMAIN messages[i].tool_calls :
      /\ i + k \in DOMAIN messages
      /\ messages[i + k].role = "Tool"
      /\ messages[i + k].tool_call_id = messages[i].tool_calls[k].id

Belongs(i) ==
  messages[i].role = "Tool" =>
    \E a \in 1 .. i - 1 :
      /\ messages[a].role = "Assistant"
      /\ i - a \in DOMAIN messages[a].tool_calls

\* Where the answer of the turn under way stands.
open_answer == Len(messages) - results

\* While a turn is under way its answer, and no other, still lacks results.
ThreadInv ==
  pc # "Done" =>
    /\ \A i \in DOMAIN messages : Belongs(i)
    /\ ~InTurn => \A i \in DOMAIN messages : Answered(i)
    /\ InTurn =>
         /\ results \in 0 .. Len(calls)
         /\ open_answer \in DOMAIN messages
         /\ messages[open_answer] = assistant(calls)
         /\ \A i \in DOMAIN messages : i # open_answer => Answered(i)
         /\ \A k \in 1 .. results :
              /\ messages[open_answer + k].role = "Tool"
              /\ messages[open_answer + k].tool_call_id = calls[k].id

\* A message more takes nothing from what the thread has.
LEMMA ThreadGrows ==
  ASSUME messages \in Seq(Message), NEW m, messages' = Append(messages, m)
  PROVE  /\ Len(messages) \in Nat /\ Len(messages') = Len(messages) + 1
         /\ DOMAIN messages = 1 .. Len(messages) /\ DOMAIN messages' = 1 .. Len(messages) + 1
         /\ \A i \in DOMAIN messages : messages'[i] = messages[i]
         /\ messages'[Len(messages) + 1] = m
         /\ \A i \in DOMAIN messages : Answered(i) => Answered(i)'
         /\ \A i \in DOMAIN messages : Belongs(i) => Belongs(i)'
<1>1. /\ Len(messages) \in Nat /\ Len(messages') = Len(messages) + 1
      /\ DOMAIN messages = 1 .. Len(messages) /\ DOMAIN messages' = 1 .. Len(messages) + 1
      /\ \A i \in DOMAIN messages : messages'[i] = messages[i]
      /\ messages'[Len(messages) + 1] = m
  OBVIOUS
<1>2. ASSUME NEW i \in DOMAIN messages, Answered(i) PROVE Answered(i)'
  BY <1>1, <1>2 DEF Answered
<1>3. ASSUME NEW i \in DOMAIN messages, Belongs(i) PROVE Belongs(i)'
  BY <1>1, <1>3 DEF Belongs
<1>. QED BY <1>1, <1>2, <1>3

\* What the messages say of themselves.
LEMMA Roles ==
  /\ \A cs : assistant(cs).role = "Assistant" /\ assistant(cs).tool_calls = cs
  /\ \A id, content : /\ tool_result(id, content).role = "Tool"
                      /\ tool_result(id, content).tool_call_id = id
                      /\ tool_result(id, content).content = content
  BY DEF assistant, tool_result

\* The initial thread is the user's message.
LEMMA InitThread == Init => ThreadInv
  BY DEF Init, ThreadInv, Belongs, Answered, InTurn, user_message

\* A result more belongs to the answer of the turn.
LEMMA ResultFits ==
  ASSUME TypedInv, ThreadInv, InTurn, pc # "Done", InTurn', NEW content,
         results + 1 \in DOMAIN calls, results' = results + 1, calls' = calls,
         messages' = Append(messages, tool_result(calls[results + 1].id, content))
  PROVE  ThreadInv'
<1>. DEFINE m == tool_result(calls[results + 1].id, content)
            a == open_answer
            n == results + 1
<1>0. messages \in Seq(Message) /\ calls \in Seq(ToolCall)
  <2>1. <<>> \in Seq(ToolCall)
    OBVIOUS
  <2>. QED BY <2>1, ProposalsAssumption DEF TypedInv, TypeOK
<1>1. /\ Len(messages) \in Nat /\ Len(messages') = Len(messages) + 1
      /\ DOMAIN messages = 1 .. Len(messages) /\ DOMAIN messages' = 1 .. Len(messages) + 1
      /\ \A i \in DOMAIN messages : messages'[i] = messages[i]
      /\ messages'[Len(messages) + 1] = m
      /\ \A i \in DOMAIN messages : Answered(i) => Answered(i)'
      /\ \A i \in DOMAIN messages : Belongs(i) => Belongs(i)'
  BY <1>0, ThreadGrows
<1>2. /\ results \in 0 .. Len(calls) /\ a \in DOMAIN messages /\ a = Len(messages) - results
      /\ messages[a] = assistant(calls)
      /\ \A i \in DOMAIN messages : i # a => Answered(i)
      /\ \A i \in DOMAIN messages : Belongs(i)
      /\ \A k \in 1 .. results : /\ messages[a + k].role = "Tool"
                                 /\ messages[a + k].tool_call_id = calls[k].id
  BY DEF ThreadInv, open_answer
<1>3. open_answer' = a /\ Len(messages) + 1 = a + n /\ results' \in 0 .. Len(calls)
  <2>1. open_answer' = Len(messages') - results'
    BY DEF open_answer
  <2>2. DOMAIN calls = 1 .. Len(calls) /\ Len(calls) \in Nat
    BY <1>0
  <2>. QED BY <1>1, <1>2, <2>1, <2>2
<1>4. m.role = "Tool" /\ m.tool_call_id = calls[n].id
  BY Roles
<1>. HIDE DEF m, a
<1>5. \A i \in DOMAIN messages' : Belongs(i)'
  <2>1. ASSUME NEW i \in DOMAIN messages', i \notin DOMAIN messages PROVE Belongs(i)'
    <3>1. a \in 1 .. i - 1 /\ i - a = n
      BY <1>1, <1>2, <1>3, <2>1
    <3>2. messages'[a].role = "Assistant" /\ messages'[a].tool_calls = calls
      BY <1>1, <1>2, Roles
    <3>. QED BY <3>1, <3>2 DEF Belongs
  <2>. QED BY <1>2, <1>1, <2>1
<1>6. \A i \in DOMAIN messages' : i # a => Answered(i)'
  <2>1. ASSUME NEW i \in DOMAIN messages', i \notin DOMAIN messages PROVE Answered(i)'
    <3>1. i = Len(messages) + 1
      BY <1>1, <2>1
    <3>. QED BY <1>1, <1>4, <3>1 DEF Answered
  <2>. QED BY <1>1, <1>2, <2>1
<1>7. \A k \in 1 .. results' : /\ messages'[a + k].role = "Tool"
                               /\ messages'[a + k].tool_call_id = calls[k].id
  <2>1. \A k \in 1 .. results : a + k \in DOMAIN messages
    BY <1>1, <1>2
  <2>2. \A k \in 1 .. results' : k \in 1 .. results \/ (k = n /\ a + k = Len(messages) + 1)
    <3>1. results \in Nat
      <4>1. Len(calls) \in Nat
        BY <1>0
      <4>. QED BY <1>2, <4>1
    <3>2. n = results + 1 /\ a + n = Len(messages) + 1 /\ results' = results + 1
      BY <1>3
    <3>. HIDE DEF n
    <3>3. \A k \in 1 .. results' : k \in 1 .. results \/ k = n
      BY <3>1, <3>2
    <3>. QED BY <3>2, <3>3
  <2>. QED BY <1>1, <1>2, <1>4, <2>1, <2>2
<1>8. /\ open_answer' \in DOMAIN messages' /\ messages'[open_answer'] = assistant(calls')
      /\ \A i \in DOMAIN messages' : i # open_answer' => Answered(i)'
      /\ \A k \in 1 .. results' : /\ messages'[open_answer' + k].role = "Tool"
                                  /\ messages'[open_answer' + k].tool_call_id = calls'[k].id
  <2>1. a \in DOMAIN messages' /\ messages'[a] = assistant(calls)
    BY <1>1, <1>2
  <2>2. open_answer' = a /\ calls' = calls
    BY <1>3
  <2>. QED BY <1>6, <1>7, <2>1, <2>2
<1>9. results' \in 0 .. Len(calls')
  BY <1>3
<1>. HIDE DEF n
<1>. QED BY <1>5, <1>8, <1>9 DEF ThreadInv

\* Every step keeps the thread in shape.
LEMMA StepThread == TypedInv /\ TypedInv' /\ ThreadInv /\ [Next]_vars => ThreadInv'
<1>. SUFFICES ASSUME TypedInv, TypedInv', ThreadInv, [Next]_vars, pc' # "Done" PROVE ThreadInv'
  BY DEF ThreadInv
<1>0. messages \in Seq(Message) /\ calls \in Seq(ToolCall)
  <2>1. <<>> \in Seq(ToolCall)
    OBVIOUS
  <2>. QED BY <2>1, ProposalsAssumption DEF TypedInv, TypeOK
<1>1. CASE StepStays
  <2>1. messages' = messages /\ pc # "Done" /\ InTurn' = InTurn
        /\ (InTurn => results' = results /\ calls' = calls)
    BY <1>1 DEF StepStays
  <2>2. CASE ~InTurn
    BY <2>1, <2>2 DEF ThreadInv, Belongs, Answered
  <2>3. CASE InTurn
    BY <2>1, <2>3 DEF ThreadInv, Belongs, Answered, open_answer
  <2>. QED BY <2>2, <2>3
<1>2. CASE StepAnswers
  <2>1. /\ pc # "Done" /\ ~InTurn /\ InTurn' /\ calls' = calls /\ results' = 0
        /\ messages' = Append(messages, assistant(calls))
    BY <1>2 DEF StepAnswers, InTurn
  <2>2. /\ Len(messages) \in Nat /\ Len(messages') = Len(messages) + 1
        /\ DOMAIN messages = 1 .. Len(messages) /\ DOMAIN messages' = 1 .. Len(messages) + 1
        /\ \A i \in DOMAIN messages : messages'[i] = messages[i]
        /\ messages'[Len(messages) + 1] = assistant(calls)
        /\ \A i \in DOMAIN messages : Answered(i) => Answered(i)'
        /\ \A i \in DOMAIN messages : Belongs(i) => Belongs(i)'
    BY <1>0, <2>1, ThreadGrows
  <2>3. open_answer' = Len(messages) + 1
    BY <2>1, <2>2 DEF open_answer
  <2>4. ASSUME NEW i \in DOMAIN messages', i \notin DOMAIN messages
        PROVE  Belongs(i)' /\ i = Len(messages) + 1
    BY <2>2, <2>4, Roles DEF Belongs
  <2>5. \A i \in DOMAIN messages : Belongs(i) /\ Answered(i)
    BY <2>1 DEF ThreadInv
  <2>6. \A i \in DOMAIN messages' : Belongs(i)' /\ (i # Len(messages) + 1 => Answered(i)')
    BY <2>2, <2>4, <2>5
  <2>7. Len(calls) \in Nat
    BY <1>0
  <2>. QED BY <2>1, <2>2, <2>3, <2>4, <2>5, <2>6, <2>7 DEF ThreadInv
<1>3. CASE StepEndsTurn
  <2>1. /\ pc # "Done" /\ InTurn /\ ~InTurn' /\ messages' = messages /\ results = Len(calls)
    BY <1>3 DEF StepEndsTurn, InTurn
  <2>2. Answered(open_answer)
    <3>1. /\ messages[open_answer] = assistant(calls)
          /\ \A k \in 1 .. results : /\ messages[open_answer + k].role = "Tool"
                                     /\ messages[open_answer + k].tool_call_id = calls[k].id
          /\ open_answer \in DOMAIN messages
      BY <2>1 DEF ThreadInv
    <3>2. /\ DOMAIN calls = 1 .. results /\ Len(messages) \in Nat /\ Len(calls) \in Nat
          /\ DOMAIN messages = 1 .. Len(messages)
      BY <1>0, <2>1
    <3>3. \A k \in 1 .. results : open_answer + k \in DOMAIN messages
      BY <2>1, <3>1, <3>2 DEF open_answer
    <3>4. messages[open_answer].tool_calls = calls
      BY <3>1, Roles
    <3>. QED BY <3>1, <3>2, <3>3, <3>4 DEF Answered
  <2>3. \A i \in DOMAIN messages : Belongs(i) /\ Answered(i)
    BY <2>1, <2>2 DEF ThreadInv
  <2>. QED BY <2>1, <2>3 DEF ThreadInv, Belongs, Answered
<1>4. CASE StepSkips
  <2>1. InTurn /\ InTurn' /\ pc # "Done"
    BY <1>4 DEF StepSkips, InTurn
  <2>. QED BY <1>4, <2>1, ResultFits DEF StepSkips
<1>5. CASE StepRuns
  <2>1. InTurn /\ InTurn' /\ pc # "Done"
    BY <1>5 DEF StepRuns, InTurn
  <2>2. PICK content \in {"result", "tool_error"} :
          messages' = Append(messages, tool_result(calls[results + 1].id, content))
    BY <1>5 DEF StepRuns
  <2>. QED BY <1>5, <2>1, <2>2, ResultFits DEF StepRuns
<1>. QED BY <1>1, <1>2, <1>3, <1>4, <1>5, StepKinds

\* The thread the model is sent is one a provider accepts, in every run: behind each
\* answer stand the results of its calls, in order, and nowhere else a result.
THEOREM ThreadIsWellFormed == Spec => []ThreadWellFormed
<1>1. TypedInv /\ ThreadInv /\ [Next]_vars => (TypedInv /\ ThreadInv)'
  BY StepTyped, StepThread
<1>2. ThreadInv => ThreadWellFormed
  BY DEF ThreadInv, ThreadWellFormed, InTurn, Belongs, Answered
<1>. QED BY InitTyped, InitThread, <1>1, <1>2, PTL DEF Spec

----------------------------------------------------------------------------
(* What runs *)

\* Counting the places of a set of them, and of one that has the next place too.
LEMMA Counting ==
  ASSUME NEW n \in Nat, NEW A \in SUBSET (1 .. n)
  PROVE  /\ IsFiniteSet(A) /\ Cardinality(A) \in Nat
         /\ \A i \in A : Cardinality({j \in A : j <= i}) \in 1 .. Cardinality(A)
         /\ Cardinality(A \cup {n + 1}) = Cardinality(A) + 1
         /\ {j \in A \cup {n + 1} : j <= n + 1} = A \cup {n + 1}
         /\ \A i \in 1 .. n : {j \in A \cup {n + 1} : j <= i} = {j \in A : j <= i}
<1>1. IsFiniteSet(A)
  <2>1. IsFiniteSet(1 .. n)
    BY FS_Interval
  <2>. QED BY <2>1, FS_Subset
<1>2. Cardinality(A) \in Nat
  BY <1>1, FS_CardinalityType
<1>3. ASSUME NEW i \in A
      PROVE  Cardinality({j \in A : j <= i}) \in 1 .. Cardinality(A)
  <2>. DEFINE B == {j \in A : j <= i}
  <2>1. B \in SUBSET A /\ i \in B
    BY <1>3
  <2>. HIDE DEF B
  <2>2. IsFiniteSet(B) /\ Cardinality(B) <= Cardinality(A)
    BY <1>1, <2>1, FS_Subset
  <2>3. Cardinality(B) \in Nat /\ Cardinality(B) # 0
    BY <2>1, <2>2, FS_CardinalityType, FS_EmptySet
  <2>. QED BY <1>2, <2>2, <2>3 DEF B
<1>4. n + 1 \notin A
  OBVIOUS
<1>5. Cardinality(A \cup {n + 1}) = Cardinality(A) + 1
  BY <1>1, <1>4, FS_AddElement
<1>6. {j \in A \cup {n + 1} : j <= n + 1} = A \cup {n + 1}
  <2>1. \A j \in A \cup {n + 1} : j <= n + 1
    OBVIOUS
  <2>. QED BY <2>1
<1>7. \A i \in 1 .. n : {j \in A \cup {n + 1} : j <= i} = {j \in A : j <= i}
  OBVIOUS
<1>. QED BY <1>1, <1>2, <1>3, <1>5, <1>6, <1>7

\* An answer more is counted last; any other message counts for none.
LEMMA AnswersGrow ==
  ASSUME messages \in Seq(Message), NEW m, messages' = Append(messages, m)
  PROVE  /\ Cardinality(answers) \in Nat
         /\ m.role = "Assistant" => Cardinality(answers)' = Cardinality(answers) + 1
         /\ m.role # "Assistant" => answers' = answers
         /\ answers \subseteq answers'
         /\ \A i \in answers : turn_of(i)' = turn_of(i)
<1>1. /\ Len(messages) \in Nat /\ DOMAIN messages = 1 .. Len(messages)
      /\ DOMAIN messages' = 1 .. Len(messages) + 1
      /\ \A i \in DOMAIN messages : messages'[i] = messages[i]
      /\ messages'[Len(messages) + 1] = m
  BY ThreadGrows
<1>2. answers \in SUBSET (1 .. Len(messages))
  BY <1>1 DEF answers
<1>3. \A i \in answers : turn_of(i) = Cardinality({j \in answers : j <= i})
      /\ turn_of(i)' = Cardinality({j \in answers' : j <= i})
  BY DEF turn_of
<1>4. CASE m.role = "Assistant"
  <2>1. answers' = answers \cup {Len(messages) + 1}
    BY <1>1, <1>4 DEF answers
  <2>2. \A i \in answers : {j \in answers' : j <= i} = {j \in answers : j <= i}
    BY <1>1, <1>2, <2>1
  <2>3. Cardinality(answers') = Cardinality(answers) + 1 /\ Cardinality(answers) \in Nat
    BY <1>1, <1>2, <2>1, Counting
  <2>. QED BY <1>3, <1>4, <2>1, <2>2, <2>3
<1>5. CASE m.role # "Assistant"
  <2>1. answers' = answers
    BY <1>1, <1>5 DEF answers
  <2>2. Cardinality(answers) \in Nat
    BY <1>1, <1>2, Counting
  <2>. QED BY <1>3, <1>5, <2>1, <2>2
<1>. QED BY <1>4, <1>5

\* What NothingRunsUnapproved says of one execution, and of two.
Approved(x) ==
  /\ action_for(config.approval_policy, x.call.name) = "Approve"
  /\ \E i \in answers :
       /\ turn_of(i) = x.turn
       /\ \E j \in DOMAIN messages[i].tool_calls : messages[i].tool_calls[j] = x.call
       /\ \A j \in DOMAIN messages[i].tool_calls :
            action_for(config.approval_policy, messages[i].tool_calls[j].name) # "Ask"

AllApproved == \A k \in DOMAIN executed : Approved(executed[k])

RunOnce ==
  \A j, k \in DOMAIN executed :
    (executed[j].turn = executed[k].turn /\ executed[j].call.id = executed[k].call.id) => j = k

\* The answers are counted by the turns, and the executions of this turn are of calls
\* that have their result.
ExecInv ==
  /\ AllApproved
  /\ RunOnce
  /\ pc # "Done" => Cardinality(answers) = IF InTurn THEN turn ELSE turn - 1
  /\ pc # "Done" /\ ~InTurn => \A k \in DOMAIN executed : executed[k].turn < turn
  /\ pc # "Done" /\ InTurn =>
       \A k \in DOMAIN executed :
         /\ executed[k].turn <= turn
         /\ executed[k].turn = turn => \E p \in 1 .. results : executed[k].call = calls[p]

\* What is approved stays approved while the thread grows.
LEMMA ApprovedStays ==
  ASSUME messages \in Seq(Message), NEW m, messages' = Append(messages, m), config' = config,
         NEW x, Approved(x)
  PROVE  Approved(x)'
<1>1. PICK i \in answers :
        /\ turn_of(i) = x.turn
        /\ \E j \in DOMAIN messages[i].tool_calls : messages[i].tool_calls[j] = x.call
        /\ \A j \in DOMAIN messages[i].tool_calls :
             action_for(config.approval_policy, messages[i].tool_calls[j].name) # "Ask"
  BY DEF Approved
<1>2. i \in answers' /\ turn_of(i)' = turn_of(i)
  BY AnswersGrow
<1>3. messages'[i] = messages[i]
  BY ThreadGrows DEF answers
<1>. QED BY <1>1, <1>2, <1>3 DEF Approved

\* Approvals that last, and a new execution that has one, leave all approved.
LEMMA AllStayApproved ==
  ASSUME \A x : Approved(x) => Approved(x)', \A k \in DOMAIN executed' : Approved(executed'[k])
  PROVE  AllApproved'
<1>1. ASSUME NEW k \in DOMAIN executed' PROVE Approved(executed[k])'
  <2>1. PICK x : x = executed'[k]
    OBVIOUS
  <2>2. Approved(x)'
    BY <2>1
  <2>. QED BY <2>1, <2>2 DEF Approved
<1>. QED BY <1>1 DEF AllApproved

\* In a turn the answer that lacks results is the last one, and that of this turn.
LEMMA OpenAnswerIsLast ==
  ASSUME TypedInv, ThreadInv, ExecInv, InTurn, pc # "Done"
  PROVE  open_answer \in answers /\ turn_of(open_answer) = turn
<1>1. /\ results \in 0 .. Len(calls) /\ open_answer \in DOMAIN messages
      /\ messages[open_answer] = assistant(calls)
      /\ \A k \in 1 .. results : messages[open_answer + k].role = "Tool"
  BY DEF ThreadInv
<1>2. messages \in Seq(Message) /\ Len(calls) \in Nat
  <2>1. <<>> \in Seq(ToolCall)
    OBVIOUS
  <2>. QED BY <2>1, ProposalsAssumption DEF TypedInv, TypeOK
<1>3. Len(messages) \in Nat /\ DOMAIN messages = 1 .. Len(messages)
  BY <1>2
<1>4. open_answer \in answers
  BY <1>1, Roles DEF answers
<1>5. \A j \in answers : j <= open_answer
  <2>. SUFFICES ASSUME NEW j \in answers, j > open_answer PROVE FALSE
    BY <1>1, <1>3 DEF answers
  <2>1. j \in 1 .. Len(messages) /\ messages[j].role = "Assistant"
    BY <1>3 DEF answers
  <2>2. j - open_answer \in 1 .. results /\ open_answer + (j - open_answer) = j
    BY <1>1, <1>2, <1>3, <2>1 DEF open_answer
  <2>. QED BY <1>1, <2>1, <2>2
<1>6. {j \in answers : j <= open_answer} = answers
  BY <1>5
<1>. QED BY <1>4, <1>6 DEF turn_of, ExecInv

\* The initial state has run nothing.
LEMMA InitExec == Init => ExecInv
<1>. SUFFICES ASSUME Init PROVE ExecInv
  OBVIOUS
<1>1. DOMAIN executed = {} /\ pc = "Config" /\ turn = 1
  BY DEF Init
<1>2. answers = {}
  BY DEF Init, answers, user_message
<1>. QED BY <1>1, <1>2, FS_EmptySet DEF ExecInv, AllApproved, RunOnce, InTurn

\* Every step keeps what is said of the executions.
LEMMA StepExec ==
  TypedInv /\ TypedInv' /\ ThreadInv /\ ExecInv /\ [Next]_vars => ExecInv'
<1>. SUFFICES ASSUME TypedInv, TypedInv', ThreadInv, ExecInv, [Next]_vars PROVE ExecInv'
  OBVIOUS
<1>0. /\ messages \in Seq(Message) /\ calls \in Seq(ToolCall) /\ turn \in Nat
      /\ executed \in Seq([turn : 1 .. config.max_turns, call : ToolCall])
      /\ config.max_turns \in Nat
      /\ \A k \in DOMAIN executed : executed[k].turn \in Nat
  <2>1. <<>> \in Seq(ToolCall)
    OBVIOUS
  <2>2. config \in AgentLoopConfig
    BY ConfigsAssumption DEF TypedInv, TypeOK
  <2>3. config.max_turns \in Nat
    BY <2>2 DEF AgentLoopConfig
  <2>4. messages \in Seq(Message) /\ calls \in Seq(ToolCall)
        /\ executed \in Seq([turn : 1 .. config.max_turns, call : ToolCall])
    BY <2>1, ProposalsAssumption DEF TypedInv, TypeOK
  <2>5. \A k \in DOMAIN executed : executed[k] \in [turn : 1 .. config.max_turns, call : ToolCall]
    <3>. DEFINE E == [turn : 1 .. config.max_turns, call : ToolCall]
    <3>1. executed \in Seq(E)
      BY <2>4
    <3>. HIDE DEF E
    <3>2. \A k \in DOMAIN executed : executed[k] \in E
      BY <3>1
    <3>. QED BY <3>2 DEF E
  <2>6. turn \in Nat
    BY <2>3 DEF TypedInv, TypeOK
  <2>. QED BY <2>3, <2>4, <2>5, <2>6
<1>1. CASE StepStays
  <2>1. UNCHANGED <<config, messages, executed>>
    BY <1>1 DEF StepStays
  <2>2. answers' = answers /\ (\A i : turn_of(i)' = turn_of(i))
    BY <2>1 DEF answers, turn_of
  <2>3. AllApproved' /\ RunOnce'
    BY <2>1, <2>2 DEF ExecInv, AllApproved, Approved, RunOnce
  <2>4. CASE pc' = "Done"
    BY <2>3, <2>4 DEF ExecInv
  <2>5. CASE pc' # "Done" /\ ~InTurn
    BY <1>1, <2>1, <2>2, <2>3, <2>5 DEF StepStays, ExecInv
  <2>6. CASE pc' # "Done" /\ InTurn
    BY <1>1, <2>1, <2>2, <2>3, <2>6 DEF StepStays, ExecInv
  <2>. QED BY <2>4, <2>5, <2>6
<1>2. CASE StepAnswers
  <2>1. /\ pc # "Done" /\ ~InTurn /\ UNCHANGED <<config, turn, calls, executed>>
        /\ messages' = Append(messages, assistant(calls))
    BY <1>2 DEF StepAnswers, InTurn
  <2>2. pc' # "Done" => InTurn' /\ results' = 0
    BY <1>2 DEF StepAnswers, InTurn
  <2>3. AllApproved' /\ RunOnce'
    <3>1. \A x : Approved(x) => Approved(x)'
      BY <1>0, <2>1, ApprovedStays
    <3>2. AllApproved'
      BY <2>1, <3>1, AllStayApproved DEF ExecInv, AllApproved
    <3>. QED BY <2>1, <3>2 DEF ExecInv, RunOnce
  <2>4. Cardinality(answers)' = Cardinality(answers) + 1
    BY <1>0, <2>1, AnswersGrow, Roles
  <2>5. Cardinality(answers) = turn - 1 /\ \A k \in DOMAIN executed : executed[k].turn < turn
    BY <2>1 DEF ExecInv
  <2>6. Cardinality(answers)' = turn
    BY <1>0, <2>4, <2>5
  <2>7. \A k \in DOMAIN executed' : executed'[k].turn <= turn' /\ executed'[k].turn # turn'
    BY <1>0, <2>1, <2>5
  <2>. QED BY <2>1, <2>2, <2>3, <2>6, <2>7 DEF ExecInv
<1>3. CASE StepEndsTurn
  <2>1. /\ InTurn /\ pc # "Done" /\ ~InTurn' /\ UNCHANGED <<config, messages, executed>>
        /\ turn' = turn + 1
    BY <1>3 DEF StepEndsTurn, InTurn
  <2>2. answers' = answers /\ (\A i : turn_of(i)' = turn_of(i))
    BY <2>1 DEF answers, turn_of
  <2>3. AllApproved' /\ RunOnce'
    BY <2>1, <2>2 DEF ExecInv, AllApproved, Approved, RunOnce
  <2>4. Cardinality(answers) = turn /\ \A k \in DOMAIN executed : executed[k].turn <= turn
    BY <2>1 DEF ExecInv
  <2>5. Cardinality(answers)' = turn' - 1 /\ \A k \in DOMAIN executed' : executed'[k].turn < turn'
    BY <1>0, <2>1, <2>2, <2>4
  <2>. QED BY <2>1, <2>3, <2>5 DEF ExecInv
<1>4. CASE StepSkips
  <2>1. /\ pc # "Done" /\ InTurn /\ InTurn' /\ UNCHANGED <<config, turn, calls, executed>>
        /\ results' = results + 1
        /\ messages' = Append(messages, tool_result(calls[results + 1].id, "rejected"))
    BY <1>4 DEF StepSkips, InTurn
  <2>2. AllApproved' /\ RunOnce'
    <3>1. \A x : Approved(x) => Approved(x)'
      BY <1>0, <2>1, ApprovedStays
    <3>2. AllApproved'
      BY <2>1, <3>1, AllStayApproved DEF ExecInv, AllApproved
    <3>. QED BY <2>1, <3>2 DEF ExecInv, RunOnce
  <2>3. answers' = answers
    BY <1>0, <2>1, AnswersGrow, Roles
  <2>4. results \in Nat
    BY <1>0, <2>1 DEF ThreadInv
  <2>5. \A p \in 1 .. results : p \in 1 .. results'
    BY <2>1, <2>4
  <2>. QED BY <2>1, <2>2, <2>3, <2>5 DEF ExecInv
<1>5. CASE StepRuns
  <2>. DEFINE n == results + 1
              x == [turn |-> turn, call |-> calls[n]]
  <2>1. /\ pc # "Done" /\ InTurn /\ UNCHANGED <<config, turn, calls>>
        /\ n \in DOMAIN calls /\ action_for(config.approval_policy, calls[n].name) = "Approve"
        /\ executed' = Append(executed, x)
        /\ pc' # "Done" => InTurn' /\ results' = n
    BY <1>5 DEF StepRuns, InTurn
  <2>2. results \in 0 .. Len(calls) /\ results \in Nat /\ messages[open_answer] = assistant(calls)
    BY <1>0, <2>1 DEF ThreadInv
  <2>3. x.turn = turn /\ x.call = calls[n]
    OBVIOUS
  <2>4. Approved(x)
    <3>1. open_answer \in answers /\ turn_of(open_answer) = turn
      BY <2>1, OpenAnswerIsLast
    <3>2. messages[open_answer].tool_calls = calls
      BY <2>2, Roles
    <3>3. \A j \in DOMAIN calls : action_for(config.approval_policy, calls[j].name) # "Ask"
      BY <2>1 DEF TypedInv, MachineInv, Settled
    <3>. QED BY <2>1, <2>3, <3>1, <3>2, <3>3 DEF Approved
  <2>5. ASSUME NEW y, Approved(y) PROVE Approved(y)'
    <3>1. CASE messages' = messages
      BY <2>1, <2>5, <3>1 DEF Approved, answers, turn_of
    <3>2. CASE messages' # messages
      <4>1. PICK content \in {"result", "tool_error"} :
              messages' = Append(messages, tool_result(calls[n].id, content))
        BY <1>5, <3>2 DEF StepRuns
      <4>. QED BY <1>0, <2>1, <2>5, <4>1, ApprovedStays
    <3>. QED BY <3>1, <3>2
  <2>6. answers' = answers
    <3>1. CASE messages' = messages
      BY <3>1 DEF answers
    <3>2. CASE messages' # messages
      <4>1. PICK content \in {"result", "tool_error"} :
              messages' = Append(messages, tool_result(calls[n].id, content))
        BY <1>5, <3>2 DEF StepRuns
      <4>2. tool_result(calls[n].id, content).role # "Assistant"
        BY Roles
      <4>. QED BY <1>0, <4>1, <4>2, AnswersGrow
    <3>. QED BY <3>1, <3>2
  <2>7. \A k \in DOMAIN executed : ~(executed[k].turn = turn /\ executed[k].call.id = calls[n].id)
    <3>. SUFFICES ASSUME NEW k \in DOMAIN executed, executed[k].turn = turn,
                         executed[k].call.id = calls[n].id
                  PROVE  FALSE
      OBVIOUS
    <3>1. PICK p \in 1 .. results : executed[k].call = calls[p]
      BY <2>1 DEF ExecInv
    <3>2. p \in DOMAIN calls /\ p < n
      BY <1>0, <2>2, <3>1
    <3>. QED BY <2>1, <3>1, <3>2 DEF TypedInv, MachineInv, HasDuplicateId
  <2>. HIDE DEF x, n
  <2>8. /\ DOMAIN executed' = DOMAIN executed \cup {Len(executed) + 1}
        /\ \A k \in DOMAIN executed : executed'[k] = executed[k]
        /\ executed'[Len(executed) + 1] = x
    BY <1>0, <2>1
  <2>9. AllApproved'
    <3>1. \A k \in DOMAIN executed' : Approved(executed'[k])
      BY <2>4, <2>8 DEF ExecInv, AllApproved
    <3>. QED BY <2>5, <3>1, AllStayApproved
  <2>10. RunOnce'
    BY <2>3, <2>7, <2>8 DEF RunOnce, ExecInv
  <2>11. CASE pc' = "Done"
    BY <2>9, <2>10, <2>11 DEF ExecInv
  <2>12. CASE pc' # "Done"
    <3>1. \A k \in DOMAIN executed :
            /\ executed[k].turn <= turn
            /\ executed[k].turn = turn => \E p \in 1 .. results : executed[k].call = calls[p]
      BY <2>1 DEF ExecInv
    <3>2. n \in 1 .. n /\ \A p \in 1 .. results : p \in 1 .. n
      BY <2>2 DEF n
    <3>3. ASSUME NEW k \in DOMAIN executed'
          PROVE  /\ executed'[k].turn <= turn
                 /\ executed'[k].turn = turn => \E p \in 1 .. n : executed'[k].call = calls[p]
      <4>1. CASE k \in DOMAIN executed
        BY <2>8, <3>1, <3>2, <4>1
      <4>2. CASE k = Len(executed) + 1
        BY <1>0, <2>3, <2>8, <3>2, <4>2
      <4>. QED BY <2>8, <4>1, <4>2
    <3>. QED BY <2>1, <2>6, <2>9, <2>10, <2>12, <3>3 DEF ExecInv
  <2>. QED BY <2>11, <2>12
<1>. QED BY <1>1, <1>2, <1>3, <1>4, <1>5, StepKinds

\* Only what the policy approves runs, in a turn that waits for nobody, and each call
\* once: for every policy, every answer of the model and every way a tool may end.
THEOREM OnlyApprovedRuns == Spec => []NothingRunsUnapproved
<1>1. TypedInv /\ ThreadInv /\ ExecInv /\ [Next]_vars => (TypedInv /\ ThreadInv /\ ExecInv)'
  BY StepTyped, StepThread, StepExec
<1>2. ExecInv => NothingRunsUnapproved
  BY DEF ExecInv, NothingRunsUnapproved, AllApproved, Approved, RunOnce
<1>. QED BY InitTyped, InitThread, InitExec, <1>1, <1>2, PTL DEF Spec

----------------------------------------------------------------------------
\* A result of an executor is counted last; any other message counts for none.
LEMMA RanGrows ==
  ASSUME messages \in Seq(Message), NEW m, messages' = Append(messages, m)
  PROVE  /\ Cardinality(ran) \in Nat
         /\ \A i \in ran : ran_before(i) \in 1 .. Cardinality(ran) /\ ran_before(i)' = ran_before(i)
         /\ \A i \in ran : messages'[i] = messages[i]
         /\ ~(m.role = "Tool" /\ m.content \in {"result", "tool_error"}) => ran' = ran
         /\ m.role = "Tool" /\ m.content \in {"result", "tool_error"} =>
              /\ ran' = ran \cup {Len(messages) + 1}
              /\ Cardinality(ran)' = Cardinality(ran) + 1
              /\ \A i \in ran' : i \notin ran =>
                   ran_before(i)' = Cardinality(ran) + 1 /\ messages'[i] = m
<1>1. /\ Len(messages) \in Nat /\ DOMAIN messages = 1 .. Len(messages)
      /\ DOMAIN messages' = 1 .. Len(messages) + 1
      /\ \A i \in DOMAIN messages : messages'[i] = messages[i]
      /\ messages'[Len(messages) + 1] = m
  BY ThreadGrows
<1>2. ran \in SUBSET (1 .. Len(messages))
  BY <1>1 DEF ran
<1>3. \A i : ran_before(i) = Cardinality({j \in ran : j <= i})
      /\ ran_before(i)' = Cardinality({j \in ran' : j <= i})
  BY DEF ran_before
<1>4. Cardinality(ran) \in Nat /\ \A i \in ran : ran_before(i) \in 1 .. Cardinality(ran)
  BY <1>1, <1>2, <1>3, Counting
<1>5. \A i \in ran : messages'[i] = messages[i]
  BY <1>1, <1>2
<1>6. CASE m.role = "Tool" /\ m.content \in {"result", "tool_error"}
  <2>1. ran' = ran \cup {Len(messages) + 1}
    BY <1>1, <1>6 DEF ran
  <2>2. \A i \in ran : {j \in ran' : j <= i} = {j \in ran : j <= i}
    BY <1>1, <1>2, <2>1
  <2>3. Cardinality(ran') = Cardinality(ran) + 1
        /\ {j \in ran' : j <= Len(messages) + 1} = ran'
    BY <1>1, <1>2, <2>1, Counting
  <2>4. \A i \in ran' : i \notin ran => i = Len(messages) + 1
    BY <2>1
  <2>. QED BY <1>1, <1>3, <1>4, <1>5, <1>6, <2>1, <2>2, <2>3, <2>4
<1>7. CASE ~(m.role = "Tool" /\ m.content \in {"result", "tool_error"})
  <2>1. ran' = ran
    BY <1>1, <1>7 DEF ran
  <2>. QED BY <1>3, <1>4, <1>5, <1>7, <2>1
<1>. QED BY <1>6, <1>7

\* Every step keeps the account the thread gives of the executions.
LEMMA StepTells ==
  TypedInv /\ TypedInv' /\ ThreadTellsExecutions /\ [Next]_vars => ThreadTellsExecutions'
<1>. SUFFICES ASSUME TypedInv, TypedInv', ThreadTellsExecutions, [Next]_vars
              PROVE  ThreadTellsExecutions'
  OBVIOUS
<1>0. /\ messages \in Seq(Message)
      /\ executed \in Seq([turn : 1 .. config.max_turns, call : ToolCall])
      /\ Len(executed) \in Nat
  <2>1. /\ messages \in Seq(Message)
        /\ executed \in Seq([turn : 1 .. config.max_turns, call : ToolCall])
    BY DEF TypedInv, TypeOK
  <2>. QED BY <2>1
<1>1. CASE UNCHANGED <<messages, executed>> /\ (pc' = "Done" \/ pc # "Done")
  <2>1. ran' = ran /\ \A i : ran_before(i)' = ran_before(i)
    BY <1>1 DEF ran, ran_before
  <2>. QED BY <1>1, <2>1 DEF ThreadTellsExecutions
<1>2. ASSUME NEW m, messages' = Append(messages, m), executed' = executed, pc # "Done",
             ~(m.role = "Tool" /\ m.content \in {"result", "tool_error"})
      PROVE  ThreadTellsExecutions'
  <2>1. /\ ran' = ran
        /\ \A i \in ran : ran_before(i)' = ran_before(i) /\ messages'[i] = messages[i]
    BY <1>0, <1>2, RanGrows
  <2>. QED BY <1>2, <2>1 DEF ThreadTellsExecutions
<1>3. CASE StepRuns
  <2>. DEFINE n == results + 1
              x == [turn |-> turn, call |-> calls[n]]
  <2>1. /\ pc # "Done" /\ executed' = Append(executed, x) /\ x.call = calls[n]
        /\ Len(executed) = Cardinality(ran) /\ Cardinality(ran) \in Nat
    <3>1. pc # "Done" /\ executed' = Append(executed, x) /\ x.call = calls[n]
      BY <1>3 DEF StepRuns
    <3>2. Len(executed) - Cardinality(ran) = 0
      BY <3>1 DEF ThreadTellsExecutions
    <3>3. Cardinality(ran) \in Nat
      <4>1. ran \in SUBSET (1 .. Len(messages)) /\ Len(messages) \in Nat
        BY <1>0 DEF ran
      <4>. QED BY <4>1, Counting
    <3>. QED BY <1>0, <3>1, <3>2, <3>3
  <2>. HIDE DEF x
  <2>2. /\ Len(executed') = Len(executed) + 1
        /\ \A k \in 1 .. Len(executed) : executed'[k] = executed[k]
        /\ executed'[Len(executed) + 1] = x
    BY <1>0, <2>1
  <2>3. CASE pc' = "Done" /\ messages' = messages
    <3>1. ran' = ran /\ \A i \in ran : ran_before(i)' = ran_before(i)
          /\ ran_before(i) \in 1 .. Cardinality(ran)
      <4>1. ran \in SUBSET (1 .. Len(messages)) /\ Len(messages) \in Nat
        BY <1>0 DEF ran
      <4>. QED BY <2>3, <4>1, Counting DEF ran, ran_before
    <3>. QED BY <1>0, <2>1, <2>2, <2>3, <3>1 DEF ThreadTellsExecutions
  <2>4. ASSUME NEW content \in {"result", "tool_error"}, pc' = "AfterTool",
               messages' = Append(messages, tool_result(calls[n].id, content))
        PROVE  ThreadTellsExecutions'
    <3>. DEFINE m == tool_result(calls[n].id, content)
    <3>1. m.role = "Tool" /\ m.content \in {"result", "tool_error"} /\ m.tool_call_id = calls[n].id
      BY Roles
    <3>. HIDE DEF m
    <3>2. /\ \A i \in ran : ran_before(i) \in 1 .. Cardinality(ran) /\ ran_before(i)' = ran_before(i)
          /\ \A i \in ran : messages'[i] = messages[i]
          /\ Cardinality(ran)' = Cardinality(ran) + 1
          /\ \A i \in ran' : i \notin ran => ran_before(i)' = Cardinality(ran) + 1 /\ messages'[i] = m
      BY <1>0, <2>4, <3>1, RanGrows DEF m
    <3>3. Len(executed') - Cardinality(ran)' = 0
      BY <1>0, <2>1, <2>2, <3>2
    <3>4. ASSUME NEW i \in ran'
          PROVE  messages'[i].tool_call_id = executed'[ran_before(i)'].call.id
      <4>1. CASE i \in ran
        BY <2>1, <2>2, <3>2, <4>1 DEF ThreadTellsExecutions
      <4>2. CASE i \notin ran
        BY <2>1, <2>2, <3>1, <3>2, <4>2
      <4>. QED BY <4>1, <4>2
    <3>. QED BY <2>4, <3>3, <3>4 DEF ThreadTellsExecutions
  <2>. QED BY <1>3, <2>3, <2>4 DEF StepRuns
<1>4. CASE StepStays \/ StepEndsTurn
  <2>1. UNCHANGED <<messages, executed>> /\ (pc' = "Done" \/ pc # "Done")
    BY <1>4 DEF StepStays, StepEndsTurn, InTurn
  <2>. QED BY <1>1, <2>1
<1>5. CASE StepAnswers
  BY <1>2, <1>5, Roles DEF StepAnswers
<1>6. CASE StepSkips
  BY <1>2, <1>6, Roles DEF StepSkips
<1>. QED BY <1>3, <1>4, <1>5, <1>6, StepKinds

\* The results the thread has of executors are those of the executions, in order, and
\* only the one that ended the run lacks its result.
THEOREM ThreadTellsWhatRan == Spec => []ThreadTellsExecutions
<1>1. Init => ThreadTellsExecutions
  <2>. SUFFICES ASSUME Init PROVE ThreadTellsExecutions
    OBVIOUS
  <2>1. ran = {} /\ Len(executed) = 0
    BY DEF Init, ran, user_message
  <2>. QED BY <2>1, FS_EmptySet DEF ThreadTellsExecutions
<1>2. TypedInv /\ ThreadTellsExecutions /\ [Next]_vars => (TypedInv /\ ThreadTellsExecutions)'
  BY StepTyped, StepTells
<1>. QED BY InitTyped, <1>1, <1>2, PTL DEF Spec
=============================================================================

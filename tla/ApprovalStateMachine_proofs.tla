--------------------- MODULE ApprovalStateMachine_proofs ---------------------
(***************************************************************************)
(* Proofs about ApprovalStateMachine, for every set of ids, names and      *)
(* contents, every set of policies and every bound on the calls of a turn. *)
(***************************************************************************)
EXTENDS ApprovalStateMachine, SequenceTheorems, TLAPS

----------------------------------------------------------------------------
(* What the operations of Approval do to a machine.                        *)

\* Every policy says one of Approve, Deny and Ask of every tool.
LEMMA ActionForTyped ==
  ASSUME NEW p \in ToolApprovalPolicy, NEW n \in ToolName
  PROVE  action_for(p, n) \in ToolApprovalAction
<1>1. CASE p \in [kind : {"None", "AcceptAll", "DenyAll"}]
  BY <1>1 DEF action_for, ToolApprovalAction
<1>2. CASE p \in [kind : {"Custom"},
                  rules : UNION {[S -> ToolApprovalAction] : S \in SUBSET ToolName},
                  default : ToolApprovalAction]
  <2>1. p.kind = "Custom" /\ p.default \in ToolApprovalAction
    BY <1>2
  <2>2. PICK S \in SUBSET ToolName : p.rules \in [S -> ToolApprovalAction]
    BY <1>2
  <2>3. QED BY <2>1, <2>2 DEF action_for
<1>3. QED BY <1>1, <1>2 DEF ToolApprovalPolicy

\* An entry starts pending, or ready with Accept or Reject.
LEMMA InitialStateTyped ==
  ASSUME NEW p \in ToolApprovalPolicy, NEW n \in ToolName
  PROVE  /\ initial_state(p, n) \in ApprovalEntryState
         /\ initial_state(p, n) # Dispatched
<1>1. action_for(p, n) \in {"Approve", "Deny", "Ask"}
  BY ActionForTyped DEF ToolApprovalAction
<1>2. QED
  BY <1>1 DEF initial_state, ApprovalEntryState, ToolDecision, Ready,
              PendingUserDecision, Dispatched

\* new() builds one entry per call, in order, none of them dispatched.
LEMMA NewMachine ==
  ASSUME NEW calls \in Seq(ToolCall), NEW p \in ToolApprovalPolicy
  PROVE  LET m == new(calls, p)
         IN  /\ m \in ApprovalMachine
             /\ m.next_index = 1
             /\ Len(m.entries) = Len(calls)
             /\ \A i \in 1 .. Len(calls) : m.entries[i].state # Dispatched
<1> DEFINE es == [i \in DOMAIN calls |->
                    [tool_call |-> calls[i],
                     state     |-> initial_state(p, calls[i].name)]]
<1>1. Len(calls) \in Nat /\ DOMAIN calls = 1 .. Len(calls)
  BY LenProperties
<1>2. ASSUME NEW i \in 1 .. Len(calls)
      PROVE  /\ es[i] \in ApprovalEntry
             /\ es[i].state # Dispatched
  <2>1. calls[i] \in ToolCall
    BY <1>1, ElementOfSeq
  <2>2. calls[i].name \in ToolName
    BY <2>1 DEF ToolCall
  <2>3. QED BY <1>1, <2>1, <2>2, InitialStateTyped DEF ApprovalEntry
<1>3. es \in [1 .. Len(calls) -> ApprovalEntry]
  BY <1>1, <1>2
<1>4. es \in Seq(ApprovalEntry) /\ Len(es) = Len(calls)
  BY <1>1, <1>3
<1>5. new(calls, p) = [entries |-> es, next_index |-> 1]
  BY DEF new
<1> HIDE DEF es
<1>6. QED BY <1>1, <1>2, <1>4, <1>5 DEF ApprovalMachine

\* Resolving keeps the calls and the cursor, and changes nothing but pending
\* entries, which become ready.
LEMMA ResolvedMachine ==
  ASSUME NEW m \in ApprovalMachine, NEW decisions, NEW S,
         \A id \in S : decisions[id] \in ToolDecision
  PROVE  LET r == resolved(m, decisions, S)
         IN  /\ r \in ApprovalMachine
             /\ r.next_index = m.next_index
             /\ Len(r.entries) = Len(m.entries)
             /\ \A i \in 1 .. Len(m.entries) :
                  /\ r.entries[i].tool_call = m.entries[i].tool_call
                  /\ \/ r.entries[i].state = m.entries[i].state
                     \/ /\ m.entries[i].state = PendingUserDecision
                        /\ m.entries[i].tool_call.id \in S
                        /\ r.entries[i].state = Ready(decisions[m.entries[i].tool_call.id])
<1> DEFINE es == [i \in DOMAIN m.entries |->
                    LET e == m.entries[i]
                    IN  IF /\ e.state = PendingUserDecision
                           /\ e.tool_call.id \in S
                           /\ i \in entry_of(m, e.tool_call.id)
                        THEN [e EXCEPT !.state = Ready(decisions[e.tool_call.id])]
                        ELSE e]
<1>1. /\ m.entries \in Seq(ApprovalEntry)
      /\ Len(m.entries) \in Nat
      /\ DOMAIN m.entries = 1 .. Len(m.entries)
  BY LenProperties DEF ApprovalMachine
<1>2. ASSUME NEW i \in 1 .. Len(m.entries)
      PROVE  /\ es[i] \in ApprovalEntry
             /\ es[i].tool_call = m.entries[i].tool_call
             /\ \/ es[i].state = m.entries[i].state
                \/ /\ m.entries[i].state = PendingUserDecision
                   /\ m.entries[i].tool_call.id \in S
                   /\ es[i].state = Ready(decisions[m.entries[i].tool_call.id])
  <2>1. m.entries[i] \in ApprovalEntry
    BY <1>1, ElementOfSeq
  <2>2. CASE es[i] = m.entries[i]
    BY <2>1, <2>2
  <2>3. CASE es[i] # m.entries[i]
    <3>1. /\ m.entries[i].state = PendingUserDecision
          /\ m.entries[i].tool_call.id \in S
          /\ es[i] = [m.entries[i] EXCEPT !.state = Ready(decisions[m.entries[i].tool_call.id])]
      BY <1>1, <2>3
    <3>2. PICK d \in ToolDecision :
            /\ d = decisions[m.entries[i].tool_call.id]
            /\ es[i] = [m.entries[i] EXCEPT !.state = Ready(d)]
      BY <3>1
    <3>3. Ready(d) \in ApprovalEntryState
      BY DEF ApprovalEntryState
    <3> HIDE DEF es
    <3>4. QED BY <2>1, <3>1, <3>2, <3>3 DEF ApprovalEntry
  <2>4. QED BY <2>2, <2>3
<1>3. es \in Seq(ApprovalEntry) /\ Len(es) = Len(m.entries)
  <2>1. es \in [1 .. Len(m.entries) -> ApprovalEntry]
    BY <1>1, <1>2
  <2>2. QED BY <1>1, <2>1
<1>4. resolved(m, decisions, S) = [m EXCEPT !.entries = es]
  BY DEF resolved
<1> HIDE DEF es
<1>5. QED BY <1>1, <1>2, <1>3, <1>4 DEF ApprovalMachine
\* dispatch() marks one entry and puts the cursor behind it.
LEMMA DispatchMachine ==
  ASSUME NEW m \in ApprovalMachine, NEW i \in 1 .. Len(m.entries)
  PROVE  LET r == dispatch(m, i)
         IN  /\ r \in ApprovalMachine
             /\ r.next_index = i + 1
             /\ Len(r.entries) = Len(m.entries)
             /\ r.entries[i].state = Dispatched
             /\ \A j \in 1 .. Len(m.entries) :
                  /\ r.entries[j].tool_call = m.entries[j].tool_call
                  /\ j # i => r.entries[j].state = m.entries[j].state
<1>1. /\ m.entries \in Seq(ApprovalEntry)
      /\ Len(m.entries) \in Nat
      /\ DOMAIN m.entries = 1 .. Len(m.entries)
  BY LenProperties DEF ApprovalMachine
<1>2. m.entries[i] \in ApprovalEntry
  BY <1>1, ElementOfSeq
<1> DEFINE e == [m.entries[i] EXCEPT !.state = Dispatched]
           es == [m.entries EXCEPT ![i] = e]
<1>3. /\ e \in ApprovalEntry
      /\ e.state = Dispatched
      /\ e.tool_call = m.entries[i].tool_call
  BY <1>2 DEF ApprovalEntry, ApprovalEntryState
<1>4. dispatch(m, i) = [entries |-> es, next_index |-> i + 1]
  BY <1>1 DEF dispatch
<1> HIDE DEF e
<1>5. /\ es \in Seq(ApprovalEntry)
      /\ Len(es) = Len(m.entries)
      /\ \A j \in 1 .. Len(m.entries) : es[j] = IF j = i THEN e ELSE m.entries[j]
  BY <1>1, <1>3, ExceptSeq
<1> HIDE DEF es
<1>6. dispatch(m, i) \in ApprovalMachine
      /\ dispatch(m, i).entries = es
      /\ dispatch(m, i).next_index = i + 1
  BY <1>1, <1>4, <1>5 DEF ApprovalMachine
<1>7. QED BY <1>3, <1>5, <1>6

----------------------------------------------------------------------------
(* The invariant. InOrderDispatch is inductive together with the types: it *)
(* says that the loop of next_ready() never has anything to skip, so that  *)
(* the entry it stops at is the one right behind what came out so far.     *)

IInv == TypeOK /\ InOrderDispatch

\* In a state of IInv the cursor's own entry is the one next_ready() looks at.
LEMMA NextLiveIsCursor ==
  ASSUME IInv
  PROVE  next_live(machine) = IF is_complete(machine) THEN {} ELSE {machine.next_index}
<1>1. /\ machine.next_index \in Nat \ {0}
      /\ Len(machine.entries) \in Nat
      /\ DOMAIN machine.entries = 1 .. Len(machine.entries)
      /\ Len(dispatched) = machine.next_index - 1
      /\ \A k \in DOMAIN machine.entries :
            (machine.entries[k].state = Dispatched) <=> (k <= Len(dispatched))
  BY LenProperties DEF IInv, TypeOK, InOrderDispatch, ApprovalMachine
<1>2. QED BY <1>1 DEF next_live, is_complete

\* The initial state satisfies the inductive invariant.
LEMMA InitIInv == Init => IInv
<1> SUFFICES ASSUME Init PROVE IInv
  OBVIOUS
<1>1. PICK calls \in Turns : machine = new(calls, policy)
  BY DEF Init
<1>2. calls \in Seq(ToolCall)
  BY <1>1, MaxCallsAssumption DEF Turns
<1>3. policy \in ToolApprovalPolicy /\ policy \in Policies
  BY PoliciesAssumption DEF Init
<1>4. /\ machine \in ApprovalMachine
      /\ machine.next_index = 1
      /\ \A i \in 1 .. Len(machine.entries) : machine.entries[i].state # Dispatched
  BY <1>1, <1>2, <1>3, NewMachine
<1>5. Len(machine.entries) \in Nat /\ DOMAIN machine.entries = 1 .. Len(machine.entries)
  BY <1>4, LenProperties DEF ApprovalMachine
<1>6. TypeOK
  BY <1>3, <1>4, <1>5 DEF Init, TypeOK, Reply
<1>7. InOrderDispatch
  BY <1>4, <1>5 DEF Init, InOrderDispatch
<1>8. QED BY <1>6, <1>7 DEF IInv

\* Resolving, whichever decisions are applied, keeps the invariant.
LEMMA ResolvedIInv ==
  ASSUME IInv, NEW decisions, NEW S,
         \A id \in S : decisions[id] \in ToolDecision,
         machine' = resolved(machine, decisions, S),
         reply' \in Reply, accepted' \subseteq ToolCallId,
         UNCHANGED <<policy, dispatched>>
  PROVE  IInv'
<1>1. machine \in ApprovalMachine
  BY DEF IInv, TypeOK
<1>2. /\ machine' \in ApprovalMachine
      /\ machine'.next_index = machine.next_index
      /\ Len(machine'.entries) = Len(machine.entries)
      /\ \A i \in 1 .. Len(machine.entries) :
           /\ machine'.entries[i].tool_call = machine.entries[i].tool_call
           /\ \/ machine'.entries[i].state = machine.entries[i].state
              \/ /\ machine.entries[i].state = PendingUserDecision
                 /\ \E d \in ToolDecision : machine'.entries[i].state = Ready(d)
  BY <1>1, ResolvedMachine
<1>3. /\ Len(machine.entries) \in Nat
      /\ DOMAIN machine.entries = 1 .. Len(machine.entries)
      /\ DOMAIN machine'.entries = 1 .. Len(machine.entries)
  BY <1>1, <1>2, LenProperties DEF ApprovalMachine
<1>4. \A i \in 1 .. Len(machine.entries) :
        (machine'.entries[i].state = Dispatched) <=> (machine.entries[i].state = Dispatched)
  <2>1. PendingUserDecision # Dispatched /\ \A d \in ToolDecision : Ready(d) # Dispatched
    BY DEF Ready, Dispatched, PendingUserDecision
  <2>2. QED BY <1>2, <2>1
<1>5. TypeOK'
  BY <1>2, <1>3 DEF IInv, TypeOK
<1>6. InOrderDispatch'
  <2>1. DOMAIN dispatched \subseteq 1 .. Len(machine.entries)
    BY <1>3, LenProperties DEF IInv, TypeOK, InOrderDispatch, ApprovalMachine
  <2>2. QED BY <1>2, <1>3, <1>4, <2>1 DEF IInv, InOrderDispatch
<1>7. QED BY <1>5, <1>6 DEF IInv
\* A call that comes out is the one behind those that already came out.
LEMMA SomeIInv ==
  ASSUME IInv, NEW i \in ready_entry(machine),
         machine' = dispatch(machine, i),
         reply' = "Some",
         dispatched' = Append(dispatched,
                              [call     |-> machine.entries[i].tool_call,
                               decision |-> machine.entries[i].state.decision]),
         UNCHANGED <<policy, accepted>>
  PROVE  /\ IInv'
         /\ i = Len(dispatched) + 1
         /\ i \in 1 .. Len(machine.entries)
         /\ \E d \in ToolDecision : machine.entries[i].state = Ready(d)
<1> DEFINE out == [call     |-> machine.entries[i].tool_call,
                   decision |-> machine.entries[i].state.decision]
<1>1. /\ machine \in ApprovalMachine
      /\ machine.next_index \in Nat \ {0}
      /\ machine.entries \in Seq(ApprovalEntry)
      /\ Len(machine.entries) \in Nat
      /\ DOMAIN machine.entries = 1 .. Len(machine.entries)
  BY LenProperties DEF IInv, TypeOK, ApprovalMachine
<1>2. /\ i = machine.next_index
      /\ i \in 1 .. Len(machine.entries)
      /\ machine.entries[i].state.kind = "Ready"
  BY <1>1, NextLiveIsCursor DEF ready_entry, is_complete
<1>3. machine.entries[i] \in ApprovalEntry
  BY <1>1, <1>2, ElementOfSeq
<1>4. PICK d \in ToolDecision : machine.entries[i].state = Ready(d)
  BY <1>2, <1>3 DEF ApprovalEntry, ApprovalEntryState, PendingUserDecision, Dispatched
<1>5. out \in [call : ToolCall, decision : ToolDecision]
  BY <1>3, <1>4 DEF ApprovalEntry, Ready
<1>6. /\ dispatched \in Seq([call : ToolCall, decision : ToolDecision])
      /\ Len(dispatched) = i - 1
      /\ DOMAIN dispatched = 1 .. i - 1
  BY <1>2, LenProperties DEF IInv, TypeOK, InOrderDispatch
<1> HIDE DEF out
<1>7. /\ dispatched' \in Seq([call : ToolCall, decision : ToolDecision])
      /\ Len(dispatched') = i
      /\ DOMAIN dispatched' = 1 .. i
      /\ \A k \in 1 .. i : dispatched'[k] = IF k = i THEN out ELSE dispatched[k]
  <2>1. dispatched' = Append(dispatched, out)
    BY DEF out
  <2>2. QED BY <1>2, <1>5, <1>6, <2>1, AppendProperties
<1>8. /\ machine' \in ApprovalMachine
      /\ machine'.next_index = i + 1
      /\ Len(machine'.entries) = Len(machine.entries)
      /\ DOMAIN machine'.entries = 1 .. Len(machine.entries)
      /\ machine'.entries[i].state = Dispatched
      /\ \A j \in 1 .. Len(machine.entries) :
           /\ machine'.entries[j].tool_call = machine.entries[j].tool_call
           /\ j # i => machine'.entries[j].state = machine.entries[j].state
  <2>1. /\ machine' \in ApprovalMachine
        /\ machine'.next_index = i + 1
        /\ Len(machine'.entries) = Len(machine.entries)
        /\ machine'.entries[i].state = Dispatched
        /\ \A j \in 1 .. Len(machine.entries) :
             /\ machine'.entries[j].tool_call = machine.entries[j].tool_call
             /\ j # i => machine'.entries[j].state = machine.entries[j].state
    BY <1>1, <1>2, DispatchMachine
  <2>2. QED BY <2>1, LenProperties DEF ApprovalMachine
<1>9. TypeOK'
  BY <1>1, <1>2, <1>7, <1>8 DEF IInv, TypeOK, Reply
<1>10. /\ \A k \in 1 .. Len(machine.entries) :
            (machine.entries[k].state = Dispatched) <=> (k <= i - 1)
       /\ \A k \in 1 .. i - 1 : dispatched[k].call = machine.entries[k].tool_call
  BY <1>1, <1>6 DEF IInv, InOrderDispatch
<1>11. \A k \in 1 .. Len(machine.entries) :
         (machine'.entries[k].state = Dispatched) <=> (k <= i)
  <2> TAKE k \in 1 .. Len(machine.entries)
  <2>1. CASE k = i
    BY <1>1, <1>2, <1>8, <2>1
  <2>2. CASE k # i
    <3>1. machine'.entries[k].state = machine.entries[k].state
      BY <1>8, <2>2
    <3>2. (k <= i - 1) <=> (k <= i)
      BY <1>1, <1>2, <2>2
    <3>3. QED BY <1>10, <3>1, <3>2
  <2>3. QED BY <2>1, <2>2
<1>12. \A k \in 1 .. i : dispatched'[k].call = machine'.entries[k].tool_call
  <2> TAKE k \in 1 .. i
  <2>1. k \in 1 .. Len(machine.entries)
    BY <1>1, <1>2
  <2>2. CASE k = i
    <3>1. out.call = machine.entries[i].tool_call
      BY DEF out
    <3>2. QED BY <1>7, <1>8, <2>1, <2>2, <3>1
  <2>3. CASE k # i
    <3>1. k \in 1 .. i - 1
      BY <1>2, <2>3
    <3>2. QED BY <1>7, <1>8, <1>10, <2>1, <2>3, <3>1
  <2>4. QED BY <2>2, <2>3
<1>13. InOrderDispatch'
  BY <1>1, <1>2, <1>7, <1>8, <1>11, <1>12 DEF InOrderDispatch
<1>14. QED BY <1>2, <1>4, <1>6, <1>9, <1>13 DEF IInv

\* Returning None leaves the machine as it is.
LEMMA ExhaustedIsMachine ==
  ASSUME IInv
  PROVE  exhausted(machine) = machine
<1>1. /\ machine \in ApprovalMachine
      /\ machine = [entries |-> machine.entries, next_index |-> machine.next_index]
  BY DEF IInv, TypeOK, ApprovalMachine
<1>2. CASE is_complete(machine)
  BY <1>1, <1>2, NextLiveIsCursor DEF exhausted
<1>3. CASE ~is_complete(machine)
  BY <1>1, <1>3, NextLiveIsCursor DEF exhausted
<1>4. QED BY <1>2, <1>3

\* Every step keeps the inductive invariant.
LEMMA StepIInv == IInv /\ [Next]_vars => IInv'
<1> SUFFICES ASSUME IInv, [Next]_vars PROVE IInv'
  OBVIOUS
<1>1. ASSUME NEW id \in ToolCallId, NEW d \in ToolDecision, ResolveTool(id, d)
      PROVE  IInv'
  <2>1. /\ reply' \in Reply /\ accepted' \subseteq ToolCallId
        /\ UNCHANGED <<policy, dispatched>>
    BY <1>1 DEF ResolveTool, resolve_result, Reply, IInv, TypeOK
  <2>2. CASE reply' = "Ok"
    <3>1. machine' = resolved(machine, [x \in {id} |-> d], {id})
      BY <1>1, <2>2 DEF ResolveTool
    <3>2. QED BY <2>1, <3>1, ResolvedIInv
  <2>3. CASE reply' # "Ok"
    <3>1. machine' = machine
      BY <1>1, <2>3 DEF ResolveTool
    <3>2. QED BY <2>1, <3>1 DEF IInv, TypeOK, InOrderDispatch
  <2>4. QED BY <2>2, <2>3
<1>2. ASSUME NEW decisions \in Commands, ResolveTools(decisions)
      PROVE  IInv'
  <2>1. PICK S \in SUBSET ToolCallId : decisions \in [S -> ToolDecision]
    BY DEF Commands
  <2>2. PICK done \in SUBSET S :
          /\ machine' = resolved(machine, decisions, done)
          /\ accepted' = accepted \cup {id \in done : decisions[id] = "Accept"}
          /\ reply' \in Reply
          /\ UNCHANGED <<policy, dispatched>>
    BY <1>2, <2>1 DEF ResolveTools, resolve_result, Reply
  <2>3. accepted' \subseteq ToolCallId
    BY <2>1, <2>2 DEF IInv, TypeOK
  <2>4. QED BY <2>1, <2>2, <2>3, ResolvedIInv
<1>3. ASSUME NextReady
      PROVE  IInv'
  <2>1. CASE ready_entry(machine) # {}
    BY <1>3, <2>1, SomeIInv DEF NextReady
  <2>2. CASE ready_entry(machine) = {}
    <3>1. machine' = machine /\ reply' = "None" /\ UNCHANGED <<policy, dispatched, accepted>>
      BY <1>3, <2>2, ExhaustedIsMachine DEF NextReady
    <3>2. QED BY <3>1 DEF IInv, TypeOK, InOrderDispatch, Reply
  <2>3. QED BY <2>1, <2>2
<1>4. CASE UNCHANGED vars
  BY <1>4 DEF vars, IInv, TypeOK, InOrderDispatch
<1>5. QED BY <1>1, <1>2, <1>3, <1>4 DEF Next

\* Every state of the machine has the type it should.
THEOREM TypeCorrect == Spec => []TypeOK
<1>1. IInv => TypeOK
  BY DEF IInv
<1>2. QED BY InitIInv, StepIInv, <1>1, PTL DEF Spec

\* next_ready() returns the calls of a turn in the order the model proposed
\* them, each once, for every order in which decisions arrive.
THEOREM DispatchInOrder == Spec => []InOrderDispatch
<1>1. IInv => InOrderDispatch
  BY DEF IInv
<1>2. QED BY InitIInv, StepIInv, <1>1, PTL DEF Spec
----------------------------------------------------------------------------
(* Nothing is accepted but by the policy or by the host. A Ready entry has *)
(* lost track of who decided it, so the invariant also speaks of those.    *)

Justified(p, acc, call) == action_for(p, call.name) = "Approve" \/ call.id \in acc

AcceptsJustified ==
  /\ \A k \in 1 .. Len(machine.entries) :
        machine.entries[k].state = Ready("Accept") => Justified(policy, accepted, machine.entries[k].tool_call)
  /\ NoUnapprovedAccept

\* At first nothing is accepted.
LEMMA InitJustified == Init => AcceptsJustified
<1> SUFFICES ASSUME Init PROVE AcceptsJustified
  OBVIOUS
<1>1. PICK calls \in Turns : machine = new(calls, policy)
  BY DEF Init
<1>2. calls \in Seq(ToolCall)
  BY <1>1, MaxCallsAssumption DEF Turns
<1>3. policy \in ToolApprovalPolicy
  BY PoliciesAssumption DEF Init
<1>4. /\ machine.entries = [i \in 1 .. Len(calls) |->
                            [tool_call |-> calls[i],
                             state     |-> initial_state(policy, calls[i].name)]]
      /\ Len(machine.entries) = Len(calls)
  BY <1>1, <1>2, <1>3, NewMachine, LenProperties DEF new
<1>5. ASSUME NEW k \in 1 .. Len(calls), machine.entries[k].state = Ready("Accept")
      PROVE  action_for(policy, machine.entries[k].tool_call.name) = "Approve"
  <2>1. calls[k] \in ToolCall
    BY <1>2, <1>5, ElementOfSeq
  <2>2. action_for(policy, calls[k].name) \in {"Approve", "Deny", "Ask"}
    BY <1>3, <2>1, ActionForTyped DEF ToolCall, ToolApprovalAction
  <2>3. initial_state(policy, calls[k].name) = Ready("Accept")
    BY <1>4, <1>5
  <2>4. action_for(policy, calls[k].name) = "Approve"
    BY <2>2, <2>3 DEF initial_state, Ready, PendingUserDecision
  <2>5. QED BY <1>4, <2>4
<1>6. QED BY <1>4, <1>5 DEF AcceptsJustified, Justified, NoUnapprovedAccept, Init

\* Decisions that have a reason leave each accepted call with one.
LEMMA ResolvedJustified ==
  ASSUME IInv, AcceptsJustified, NEW decisions, NEW S,
         \A id \in S : decisions[id] \in ToolDecision,
         machine' = resolved(machine, decisions, S),
         accepted \subseteq accepted',
         \A id \in S : decisions[id] = "Accept" => id \in accepted',
         UNCHANGED <<policy, dispatched>>
  PROVE  AcceptsJustified'
<1>1. /\ Len(machine'.entries) = Len(machine.entries)
      /\ \A i \in 1 .. Len(machine.entries) :
           /\ machine'.entries[i].tool_call = machine.entries[i].tool_call
           /\ \/ machine'.entries[i].state = machine.entries[i].state
              \/ /\ machine.entries[i].state = PendingUserDecision
                 /\ machine.entries[i].tool_call.id \in S
                 /\ machine'.entries[i].state = Ready(decisions[machine.entries[i].tool_call.id])
  BY ResolvedMachine DEF IInv, TypeOK
<1>2. ASSUME NEW k \in 1 .. Len(machine'.entries), machine'.entries[k].state = Ready("Accept")
      PROVE  Justified(policy', accepted', machine'.entries[k].tool_call)
  <2>1. CASE machine'.entries[k].state = machine.entries[k].state
    BY <1>1, <1>2, <2>1 DEF AcceptsJustified, Justified
  <2>2. CASE /\ machine.entries[k].tool_call.id \in S
             /\ machine'.entries[k].state = Ready(decisions[machine.entries[k].tool_call.id])
    <3>1. decisions[machine.entries[k].tool_call.id] = "Accept"
      BY <1>2, <2>2 DEF Ready
    <3>2. QED BY <1>1, <1>2, <2>2, <3>1 DEF Justified
  <2>3. QED BY <1>1, <1>2, <2>1, <2>2
<1>3. NoUnapprovedAccept'
  BY DEF AcceptsJustified, NoUnapprovedAccept
<1>4. QED BY <1>2, <1>3 DEF AcceptsJustified

\* No step accepts a call without the policy or the user.
LEMMA StepJustified == IInv /\ AcceptsJustified /\ [Next]_vars => AcceptsJustified'
<1> SUFFICES ASSUME IInv, AcceptsJustified, [Next]_vars PROVE AcceptsJustified'
  OBVIOUS
<1>1. ASSUME NEW id \in ToolCallId, NEW d \in ToolDecision, ResolveTool(id, d)
      PROVE  AcceptsJustified'
  <2>1. CASE reply' = "Ok"
    <3>1. /\ machine' = resolved(machine, [x \in {id} |-> d], {id})
          /\ accepted \subseteq accepted'
          /\ d = "Accept" => id \in accepted'
          /\ UNCHANGED <<policy, dispatched>>
      BY <1>1, <2>1 DEF ResolveTool
    <3>2. QED BY <3>1, ResolvedJustified
  <2>2. CASE reply' # "Ok"
    <3>1. UNCHANGED <<machine, accepted, policy, dispatched>>
      BY <1>1, <2>2 DEF ResolveTool
    <3>2. QED BY <3>1 DEF AcceptsJustified, NoUnapprovedAccept, Justified
  <2>3. QED BY <2>1, <2>2
<1>2. ASSUME NEW decisions \in Commands, ResolveTools(decisions)
      PROVE  AcceptsJustified'
  <2>1. PICK S \in SUBSET ToolCallId : decisions \in [S -> ToolDecision]
    BY DEF Commands
  <2>2. PICK done \in SUBSET S :
          /\ machine' = resolved(machine, decisions, done)
          /\ accepted' = accepted \cup {id \in done : decisions[id] = "Accept"}
          /\ UNCHANGED <<policy, dispatched>>
    BY <1>2, <2>1 DEF ResolveTools
  <2>3. QED BY <2>1, <2>2, ResolvedJustified
<1>3. ASSUME NextReady
      PROVE  AcceptsJustified'
  <2>1. ASSUME NEW i \in ready_entry(machine),
               machine' = dispatch(machine, i),
               reply' = "Some",
               dispatched' = Append(dispatched,
                               [call     |-> machine.entries[i].tool_call,
                                decision |-> machine.entries[i].state.decision]),
               UNCHANGED <<policy, accepted>>
        PROVE  AcceptsJustified'
    <3>1. /\ i \in 1 .. Len(machine.entries)
          /\ \E d \in ToolDecision : machine.entries[i].state = Ready(d)
      BY <2>1, SomeIInv
    <3>2. /\ Len(machine'.entries) = Len(machine.entries)
          /\ machine'.entries[i].state = Dispatched
          /\ \A j \in 1 .. Len(machine.entries) :
               /\ machine'.entries[j].tool_call = machine.entries[j].tool_call
               /\ j # i => machine'.entries[j].state = machine.entries[j].state
      BY <2>1, <3>1, DispatchMachine DEF IInv, TypeOK
    <3>3. Dispatched # Ready("Accept")
      BY DEF Dispatched, Ready
    <3>4. \A k \in 1 .. Len(machine'.entries) :
            machine'.entries[k].state = Ready("Accept")
              => Justified(policy', accepted', machine'.entries[k].tool_call)
      BY <2>1, <3>2, <3>3 DEF AcceptsJustified, Justified
    <3>5. machine.entries[i].state.decision = "Accept" => Justified(policy, accepted, machine.entries[i].tool_call)
      BY <3>1 DEF AcceptsJustified, Ready
    <3> DEFINE out == [call     |-> machine.entries[i].tool_call,
                       decision |-> machine.entries[i].state.decision]
    <3>6. /\ DOMAIN dispatched' = 1 .. Len(dispatched) + 1
          /\ DOMAIN dispatched = 1 .. Len(dispatched)
          /\ Len(dispatched) \in Nat
          /\ dispatched'[Len(dispatched) + 1] = out
          /\ \A k \in 1 .. Len(dispatched) : dispatched'[k] = dispatched[k]
      <4>1. /\ dispatched \in Seq([call : ToolCall, decision : ToolDecision])
            /\ dispatched' \in Seq([call : ToolCall, decision : ToolDecision])
        BY <2>1, SomeIInv DEF IInv, TypeOK
      <4>2. dispatched' = Append(dispatched, out)
        BY <2>1
      <4> HIDE DEF out
      <4>3. QED BY <4>1, <4>2, LenProperties
    <3>7. NoUnapprovedAccept'
      <4>1. ASSUME NEW k \in DOMAIN dispatched', dispatched'[k].decision = "Accept"
            PROVE  Justified(policy', accepted', dispatched'[k].call)
        <5>1. CASE k = Len(dispatched) + 1
          BY <2>1, <3>5, <3>6, <4>1, <5>1 DEF Justified
        <5>2. CASE k \in 1 .. Len(dispatched)
          BY <2>1, <3>6, <4>1, <5>2 DEF AcceptsJustified, NoUnapprovedAccept, Justified
        <5>3. QED BY <3>6, <4>1, <5>1, <5>2
      <4>2. QED BY <4>1 DEF NoUnapprovedAccept, Justified
    <3>8. QED BY <3>4, <3>7 DEF AcceptsJustified
  <2>2. CASE ready_entry(machine) = {}
    <3>1. UNCHANGED <<machine, policy, dispatched, accepted>>
      BY <1>3, <2>2, ExhaustedIsMachine DEF NextReady
    <3>2. QED BY <3>1 DEF AcceptsJustified, NoUnapprovedAccept, Justified
  <2>3. QED BY <1>3, <2>1, <2>2 DEF NextReady
<1>4. CASE UNCHANGED vars
  BY <1>4 DEF vars, AcceptsJustified, NoUnapprovedAccept, Justified
<1>5. QED BY <1>1, <1>2, <1>3, <1>4 DEF Next

\* A tool call is dispatched as accepted only if the policy approves its tool or
\* the host accepted that very call, bulk commands cut short included.
THEOREM AcceptedOnlyWithApproval == Spec => []NoUnapprovedAccept
<1>1. AcceptsJustified => NoUnapprovedAccept
  BY DEF AcceptsJustified
<1>2. QED BY InitIInv, StepIInv, InitJustified, StepJustified, <1>1, PTL DEF Spec
----------------------------------------------------------------------------
(* The machine implements OrderedDispatch: commands are Decide steps or    *)
(* stutters, a call that comes out is a Release step, None is a stutter.   *)

proposedBar == [i \in DOMAIN machine.entries |-> machine.entries[i].tool_call]

decidedBar ==
  [i \in DOMAIN machine.entries |->
     IF machine.entries[i].state = Dispatched
     THEN dispatched[i].decision
     ELSE machine.entries[i].state.decision]

\* Both are typed, and what is Ready is what is decided and not released.
LEMMA BarTyped ==
  ASSUME IInv
  PROVE  /\ DOMAIN machine.entries = 1 .. Len(machine.entries)
         /\ proposedBar \in Seq(ToolCall)
         /\ DOMAIN proposedBar = 1 .. Len(machine.entries)
         /\ decidedBar \in [1 .. Len(machine.entries) -> ToolDecision \cup {NoDecision}]
<1>1. /\ machine.entries \in Seq(ApprovalEntry)
      /\ Len(machine.entries) \in Nat
      /\ DOMAIN machine.entries = 1 .. Len(machine.entries)
  BY LenProperties DEF IInv, TypeOK, ApprovalMachine
<1>2. ASSUME NEW i \in 1 .. Len(machine.entries)
      PROVE  /\ machine.entries[i].tool_call \in ToolCall
             /\ decidedBar[i] \in ToolDecision \cup {NoDecision}
  <2>1. machine.entries[i] \in ApprovalEntry
    BY <1>1, ElementOfSeq
  <2>2. CASE machine.entries[i].state = Dispatched
    <3>1. i \in 1 .. Len(dispatched)
      BY <1>1, <2>2, LenProperties DEF IInv, TypeOK, InOrderDispatch
    <3>2. dispatched[i] \in [call : ToolCall, decision : ToolDecision]
      BY <3>1, ElementOfSeq DEF IInv, TypeOK
    <3>3. QED BY <1>1, <2>1, <2>2, <3>2 DEF decidedBar, ApprovalEntry
  <2>3. CASE machine.entries[i].state # Dispatched
    <3>1. machine.entries[i].state.decision \in ToolDecision \cup {NoDecision}
      BY <2>1, <2>3 DEF ApprovalEntry, ApprovalEntryState, Ready, PendingUserDecision
    <3>2. QED BY <1>1, <2>1, <2>3, <3>1 DEF decidedBar, ApprovalEntry
  <2>4. QED BY <2>2, <2>3
<1>3. proposedBar \in [1 .. Len(machine.entries) -> ToolCall]
  BY <1>1, <1>2 DEF proposedBar
<1>4. proposedBar \in Seq(ToolCall)
  BY <1>1, <1>3
<1>5. decidedBar \in [1 .. Len(machine.entries) -> ToolDecision \cup {NoDecision}]
  BY <1>1, <1>2 DEF decidedBar
<1>6. QED BY <1>1, <1>3, <1>4, <1>5

\* The same as a formula, which also holds of the next state.
DecidedOK ==
  decidedBar \in [1 .. Len(machine.entries) -> ToolDecision \cup {NoDecision}]

\* The decisions the mapping shows have their types.
LEMMA DecidedTyped == IInv => DecidedOK
BY BarTyped DEF DecidedOK

\* The initial states map to initial states.
LEMMA InitRefines == Init => Abstract!Init
<1> SUFFICES ASSUME Init PROVE Abstract!Init
  OBVIOUS
<1>1. IInv /\ dispatched = <<>>
  BY InitIInv DEF Init
<1>2. QED BY <1>1, BarTyped DEF Abstract!Init, proposedBar, decidedBar

\* What a command does to the entries is a Decide step.
LEMMA ResolvedRefines ==
  ASSUME IInv, NEW decisions, NEW S,
         \A id \in S : decisions[id] \in ToolDecision,
         machine' = resolved(machine, decisions, S),
         IInv', UNCHANGED dispatched
  PROVE  Abstract!Decide
<1>1. /\ Len(machine'.entries) = Len(machine.entries)
      /\ \A i \in 1 .. Len(machine.entries) :
           /\ machine'.entries[i].tool_call = machine.entries[i].tool_call
           /\ \/ machine'.entries[i].state = machine.entries[i].state
              \/ machine.entries[i].state = PendingUserDecision
  BY ResolvedMachine DEF IInv, TypeOK
<1>2. /\ DOMAIN machine.entries = 1 .. Len(machine.entries)
      /\ DOMAIN machine'.entries = 1 .. Len(machine.entries)
      /\ DOMAIN proposedBar = 1 .. Len(machine.entries)
  <2>1. DOMAIN machine'.entries = 1 .. Len(machine'.entries)
    BY LenProperties DEF IInv, TypeOK, ApprovalMachine
  <2>2. QED BY <1>1, <2>1, BarTyped
<1>3. proposedBar' = proposedBar
  BY <1>1, <1>2 DEF proposedBar
<1>4. decidedBar' \in [DOMAIN proposedBar -> ToolDecision \cup {NoDecision}]
  <2>1. IInv' => DecidedOK'
    BY DecidedTyped, PTL
  <2>2. QED BY <1>1, <1>2, <2>1 DEF DecidedOK
<1>5. ASSUME NEW i \in DOMAIN proposedBar, decidedBar[i] # NoDecision
      PROVE  decidedBar'[i] = decidedBar[i]
  <2>1. machine'.entries[i].state = machine.entries[i].state
    <3>1. CASE machine.entries[i].state = PendingUserDecision
      BY <1>2, <1>5, <3>1 DEF decidedBar, PendingUserDecision, Dispatched
    <3>2. QED BY <1>1, <1>2, <3>1
  <2>2. QED BY <1>2, <2>1 DEF decidedBar
<1>6. QED BY <1>3, <1>4, <1>5 DEF Abstract!Decide, proposedBar, decidedBar

\* A call that comes out is a Release step.
LEMMA SomeRefines ==
  ASSUME IInv, NEW i \in ready_entry(machine),
         machine' = dispatch(machine, i),
         reply' = "Some",
         dispatched' = Append(dispatched,
                              [call     |-> machine.entries[i].tool_call,
                               decision |-> machine.entries[i].state.decision]),
         UNCHANGED <<policy, accepted>>
  PROVE  Abstract!Release
<1>1. /\ i = Len(dispatched) + 1
      /\ i \in 1 .. Len(machine.entries)
      /\ IInv'
  BY SomeIInv
<1>2. PICK d \in ToolDecision : machine.entries[i].state = Ready(d)
  BY SomeIInv
<1>3. /\ Len(machine'.entries) = Len(machine.entries)
      /\ machine'.entries[i].state = Dispatched
      /\ \A j \in 1 .. Len(machine.entries) :
           /\ machine'.entries[j].tool_call = machine.entries[j].tool_call
           /\ j # i => machine'.entries[j].state = machine.entries[j].state
  BY <1>1, DispatchMachine DEF IInv, TypeOK
<1>4. /\ DOMAIN machine.entries = 1 .. Len(machine.entries)
      /\ DOMAIN machine'.entries = 1 .. Len(machine.entries)
      /\ DOMAIN proposedBar = 1 .. Len(machine.entries)
  <2>1. DOMAIN machine'.entries = 1 .. Len(machine'.entries)
    BY <1>1, LenProperties DEF IInv, TypeOK, ApprovalMachine
  <2>2. QED BY <1>3, <2>1, BarTyped
<1>5. decidedBar[i] = d /\ d # NoDecision /\ machine.entries[i].state # Dispatched
  BY <1>1, <1>2, <1>4, NoDecisionAssumption DEF decidedBar, Ready, Dispatched, ToolDecision
<1>6. machine.entries[i].state.decision = d
  BY <1>2 DEF Ready
<1>7. proposedBar[i] = machine.entries[i].tool_call /\ proposedBar' = proposedBar
  BY <1>1, <1>3, <1>4 DEF proposedBar
<1>8. dispatched' = Append(dispatched, [call |-> proposedBar[i], decision |-> decidedBar[i]])
  BY <1>5, <1>6, <1>7
<1>9. /\ dispatched'[i].decision = d
      /\ \A k \in 1 .. i - 1 : dispatched'[k] = dispatched[k]
      /\ \A k \in 1 .. Len(machine.entries) :
            machine.entries[k].state = Dispatched => k \in 1 .. i - 1
  <2>1. /\ dispatched \in Seq([call : ToolCall, decision : ToolDecision])
        /\ [call |-> proposedBar[i], decision |-> d] \in [call : ToolCall, decision : ToolDecision]
    BY <1>1, <1>4, BarTyped, ElementOfSeq DEF IInv, TypeOK
  <2>2. Len(dispatched) = i - 1 /\ Len(dispatched) \in Nat
    BY <1>1, <2>1, LenProperties
  <2>3. \A k \in 1 .. Len(machine.entries) :
          machine.entries[k].state = Dispatched => k \in 1 .. i - 1
    BY <1>1, <1>4, <2>2 DEF IInv, InOrderDispatch
  <2> DEFINE out == [call |-> proposedBar[i], decision |-> d]
  <2>4. dispatched' = Append(dispatched, out) /\ out.decision = d
    BY <1>5, <1>8
  <2> HIDE DEF out
  <2>5. /\ dispatched'[i] = out
        /\ \A k \in 1 .. i - 1 : dispatched'[k] = dispatched[k]
    <3>1. out \in [call : ToolCall, decision : ToolDecision]
      BY <2>1 DEF out
    <3>2. QED BY <1>1, <2>1, <2>2, <2>4, <3>1, AppendProperties
  <2>6. QED BY <2>3, <2>4, <2>5
<1>10. decidedBar' = decidedBar
  <2>1. ASSUME NEW k \in 1 .. Len(machine.entries)
        PROVE  (IF machine'.entries[k].state = Dispatched
                THEN dispatched'[k].decision
                ELSE machine'.entries[k].state.decision)
               = (IF machine.entries[k].state = Dispatched
                  THEN dispatched[k].decision
                  ELSE machine.entries[k].state.decision)
    <3>1. CASE k = i
      BY <1>3, <1>5, <1>6, <1>9, <3>1
    <3>2. CASE k # i
      BY <1>3, <1>9, <3>2
    <3>3. QED BY <3>1, <3>2
  <2>2. QED BY <1>4, <2>1 DEF decidedBar
<1>11. QED
  BY <1>1, <1>4, <1>5, <1>7, <1>8, <1>10 DEF Abstract!Release, proposedBar, decidedBar

\* Every step maps to a step of OrderedDispatch or to a stutter.
LEMMA StepRefines == IInv /\ IInv' /\ [Next]_vars => [Abstract!Next]_Abstract!vars
<1> SUFFICES ASSUME IInv, IInv', [Next]_vars
             PROVE  Abstract!Next \/ UNCHANGED Abstract!vars
  OBVIOUS
<1>1. ASSUME UNCHANGED <<machine, dispatched>>
      PROVE  UNCHANGED Abstract!vars
  BY <1>1 DEF Abstract!vars
<1>2. ASSUME NEW id \in ToolCallId, NEW d \in ToolDecision, ResolveTool(id, d)
      PROVE  Abstract!Next \/ UNCHANGED Abstract!vars
  <2>1. CASE reply' = "Ok"
    <3>1. /\ machine' = resolved(machine, [x \in {id} |-> d], {id})
          /\ UNCHANGED dispatched
      BY <1>2, <2>1 DEF ResolveTool
    <3>2. QED BY <3>1, ResolvedRefines DEF Abstract!Next
  <2>2. CASE reply' # "Ok"
    BY <1>1, <1>2, <2>2 DEF ResolveTool
  <2>3. QED BY <2>1, <2>2
<1>3. ASSUME NEW decisions \in Commands, ResolveTools(decisions)
      PROVE  Abstract!Next
  <2>1. PICK S \in SUBSET ToolCallId : decisions \in [S -> ToolDecision]
    BY DEF Commands
  <2>2. PICK done \in SUBSET S :
          /\ machine' = resolved(machine, decisions, done)
          /\ UNCHANGED dispatched
    BY <1>3, <2>1 DEF ResolveTools
  <2>3. QED BY <2>1, <2>2, ResolvedRefines DEF Abstract!Next
<1>4. ASSUME NextReady
      PROVE  Abstract!Next \/ UNCHANGED Abstract!vars
  <2>1. CASE ready_entry(machine) # {}
    BY <1>4, <2>1, SomeRefines DEF NextReady, Abstract!Next
  <2>2. CASE ready_entry(machine) = {}
    BY <1>1, <1>4, <2>2, ExhaustedIsMachine DEF NextReady
  <2>3. QED BY <2>1, <2>2
<1>5. CASE UNCHANGED vars
  BY <1>1, <1>5 DEF vars
<1>6. QED BY <1>2, <1>3, <1>4, <1>5 DEF Next

\* Whatever a host does with the machine, what it sees is OrderedDispatch.
THEOREM RefinesOrderedDispatch == Spec => ImplementsOrderedDispatch
BY InitIInv, StepIInv, InitRefines, StepRefines, PTL
   DEF Spec, ImplementsOrderedDispatch, Abstract!Spec
=============================================================================

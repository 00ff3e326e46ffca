----------------------------- MODULE FixAgent ------------------------------
(***************************************************************************)
(* The loop of the Recovery agent (recovery/mod.rs) and, with another      *)
(* score and target, of the Cost Optimizer (cost_optimizer/mod.rs): score  *)
(* the plan, stop when the target is met, else let run_agent edit the plan *)
(* for one bounded cycle, at most max_iterations times.                    *)
(*                                                                         *)
(* A cycle of run_agent is what AgentLoop lets its caller see: tool calls  *)
(* one after the other, then one result.  MaxTurnsReached needs a call in  *)
(* each of the turns.                                                      *)
(***************************************************************************)
EXTENDS PlanEdits

CONSTANTS Score(_),          \* of a plan: validation errors, or cost
          Target,            \* the score that is good enough
          FixCalls,          \* the calls the agent's model may make
          InitialPlans,
          MayAsk,            \* whether the approval policy leaves calls to the user
          max_iterations,
          max_turns,
          MaxCalls           \* BOUND: tool calls in one cycle

ASSUME FixAgentAssumption ==
  /\ FixCalls \subseteq FixCall
  /\ InitialPlans \subseteq Seq(MappedResource)
  /\ MayAsk \in BOOLEAN
  /\ max_iterations \in Nat /\ max_turns \in Nat \ {0} /\ MaxCalls \in Nat

VARIABLES
  pc,
  plan,          \* plan_state, which the executor edits
  snapshot,      \* the plan scored at the head of the iteration
  iteration,
  fix_count,
  fixes_before,
  calls,         \* tool calls of this cycle
  outcome        \* what the caller gets

vars == <<pc, plan, snapshot, iteration, fix_count, fixes_before, calls, outcome>>

Running == [kind |-> "Running"]
Failed(e) == [kind |-> "Err", error |-> e]
Ended(kind, iterations) == [kind |-> kind, iterations |-> iterations, score |-> Score(plan)]

Met(p) == Score(p) <= Target

Return(o) == pc' = "Done" /\ outcome' = o

Init ==
  /\ pc = "Config"
  /\ plan \in InitialPlans
  /\ snapshot = plan
  /\ iteration = 1
  /\ fix_count = 0
  /\ fixes_before = 0
  /\ calls = 0
  /\ outcome = Running

CheckConfig ==
  /\ pc = "Config"
  /\ IF max_iterations = 0 THEN Return(Failed("InvalidConfig"))
                           ELSE pc' = "Score" /\ UNCHANGED outcome
  /\ UNCHANGED <<plan, snapshot, iteration, fix_count, fixes_before, calls>>

\* The schema, or the price, cannot be fetched. The caller gets no plan back.
ScoreFails == Return(Failed("Infrastructure"))

\* A variant with a bug: one iteration too many is run.
IterationsLeftOneMore == iteration <= max_iterations + 1

IterationsLeft == iteration <= max_iterations

StartIteration ==
  /\ pc = "Score" /\ IterationsLeft
  /\ \/ ScoreFails /\ UNCHANGED <<snapshot, fixes_before, calls>>
     \/ /\ snapshot' = plan
        /\ fixes_before' = fix_count
        /\ calls' = 0
        /\ IF Met(plan) THEN Return(Ended("Success", iteration - 1))
                        ELSE pc' = "Agent" /\ UNCHANGED outcome
  /\ UNCHANGED <<plan, iteration, fix_count>>

\* The executor: an edit counts as a fix unless its answer is an error.
ToolCall(call) ==
  LET answer == execute(plan, call) IN
  /\ pc = "Agent" /\ calls < MaxCalls
  /\ calls' = calls + 1
  /\ plan' = answer.plan
  /\ fix_count' = IF answer.is_error THEN fix_count ELSE fix_count + 1
  /\ UNCHANGED <<pc, snapshot, iteration, fixes_before, outcome>>

\* run_agent fails, for a reason of its own or over a malformed argument, and the
\* edits made so far are lost with the plan.
AgentFails ==
  /\ pc = "Agent"
  /\ Return(Failed("AgentKernel"))
  /\ UNCHANGED <<plan, snapshot, iteration, fix_count, fixes_before, calls>>

\* A variant with a bug: the iteration is not counted.
NextIterationUncounted == pc' = "Score" /\ UNCHANGED iteration

NextIteration == pc' = "Score" /\ iteration' = iteration + 1

\* run_agent still had a turn for an answer without a call, or with one that waits.
TurnLeft == calls = 0 \/ max_turns > 1

AgentAsks ==
  /\ pc = "Agent" /\ MayAsk /\ TurnLeft
  /\ Return(Ended("WaitingForApproval", iteration))
  /\ UNCHANGED <<plan, snapshot, iteration, fix_count, fixes_before, calls>>

\* A final answer behind a cycle without a fix ends the loop, when the plan can be
\* scored once more.
AgentAnswers ==
  /\ pc = "Agent" /\ TurnLeft
  /\ \/ /\ fix_count = fixes_before
        /\ ScoreFails \/ Return(Ended("AgentGaveUp", iteration))
        /\ UNCHANGED iteration
     \/ /\ fix_count # fixes_before
        /\ NextIteration
        /\ UNCHANGED outcome
  /\ UNCHANGED <<plan, snapshot, fix_count, fixes_before, calls>>

AgentRunsOutOfTurns ==
  /\ pc = "Agent" /\ calls >= max_turns
  /\ NextIteration
  /\ UNCHANGED <<plan, snapshot, fix_count, fixes_before, calls, outcome>>

Exhausted ==
  /\ pc = "Score" /\ ~IterationsLeft
  /\ ScoreFails \/ Return(Ended("MaxIterationsReached", max_iterations))
  /\ UNCHANGED <<plan, snapshot, iteration, fix_count, fixes_before, calls>>

Next ==
  \/ CheckConfig \/ StartIteration \/ Exhausted
  \/ \E call \in FixCalls : ToolCall(call)
  \/ AgentFails \/ AgentAsks \/ AgentAnswers \/ AgentRunsOutOfTurns

Spec == Init /\ [][Next]_vars

\* run_agent ends, as AgentLoop shows of the kernel, and every query comes back.
FairSpec == Spec /\ WF_vars(Next)

----------------------------------------------------------------------------
TypeOK ==
  /\ pc \in {"Config", "Score", "Agent", "Done"}
  /\ plan \in Seq(MappedResource) /\ snapshot \in Seq(MappedResource)
  /\ iteration \in 1 .. max_iterations + 1
  /\ fix_count \in Nat
  /\ fixes_before \in 0 .. fix_count
  /\ calls \in 0 .. MaxCalls
  /\ outcome \in
       {Running} \cup {Failed(e) : e \in {"InvalidConfig", "Infrastructure", "AgentKernel"}}
       \cup [kind : {"Success", "MaxIterationsReached", "AgentGaveUp", "WaitingForApproval"},
             iterations : 0 .. max_iterations, score : Nat]
  /\ (pc = "Done") <=> (outcome # Running)

\* The loop gives up only on a plan that still misses the target and that its last
\* cycle left exactly as it was scored: no edit is made without being counted.
GaveUpOnUnmetPlan ==
  outcome.kind = "AgentGaveUp" => ~(outcome.score <= Target) /\ plan = snapshot

\* A success is that of the plan returned: it meets the target, within the iterations
\* allowed, and it owes that to a fix unless it met it from the start.
SuccessWasEarned ==
  outcome.kind = "Success" =>
    /\ outcome.score <= Target /\ plan = snapshot
    /\ outcome.iterations < max_iterations
    /\ (outcome.iterations = 0) <=> (fix_count = 0)

\* The loop ends, whatever the model proposes.
Termination == <>(pc = "Done")
=============================================================================

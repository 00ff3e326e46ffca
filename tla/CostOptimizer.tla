--------------------------- MODULE CostOptimizer ---------------------------
(***************************************************************************)
(* run_optimizer (libs/engine/src/cost_optimizer/mod.rs): the loop of      *)
(* FixAgent with a cost for the score. It differs in three things: the plan*)
(* is priced once before the loop, and left alone when it is cheap enough; *)
(* the cost it had then is reported with the outcome; and the model has two*)
(* tools, any other name is an unknown one.                                *)
(*                                                                         *)
(* A CostService gives one plan one price while an optimization runs, or   *)
(* fails; a price is a number of dollars, Score of FixAgent.               *)
(***************************************************************************)
EXTENDS FixAgent, Integers, SequencesExt

CONSTANTS FixedPerAddr,      \* prices of some addresses
          DefaultPerResource \* the price of a resource at any other

VARIABLE starting   \* starting_cost, unpriced before the plan is

costVars == <<vars, starting>>
Unpriced == -1

Price(r) == IF r.target_addr \in DOMAIN FixedPerAddr THEN FixedPerAddr[r.target_addr]
            ELSE DefaultPerResource

\* StubCostService::estimate, the only CostService there is.
estimate(plan_) == FoldSeq(LAMBDA r, sum : sum + Price(r), 0, plan_)

\* optimizer_tool_defs: change_target_type is not among them.
OptimizerCall ==
  {call \in FixCall : call.tool \in {"set_attribute", "remove_resource", "unknown"}}

CostInit == Init /\ starting = Unpriced

CheckOptimizerConfig ==
  /\ pc = "Config"
  /\ IF max_iterations = 0 \/ Target < 0 THEN Return(Failed("InvalidConfig"))
                                         ELSE pc' = "Price" /\ UNCHANGED outcome
  /\ UNCHANGED <<plan, snapshot, iteration, fix_count, fixes_before, calls, starting>>

\* The estimate before the loop. A plan that costs no more than the target is given
\* back as it came.
PriceStart ==
  /\ pc = "Price"
  /\ \/ ScoreFails /\ UNCHANGED <<snapshot, starting>>
     \/ /\ snapshot' = plan
        /\ starting' = Score(plan)
        /\ IF Met(plan) THEN Return(Ended("Success", 0))
                        ELSE pc' = "Score" /\ UNCHANGED outcome
  /\ UNCHANGED <<plan, iteration, fix_count, fixes_before, calls>>

\* The head of an iteration, one call of CostFixApplier, and the ways a cycle of the
\* agent ends.
PriceIteration == StartIteration /\ UNCHANGED starting
ApplyCostFix == (\E call \in FixCalls : ToolCall(call)) /\ UNCHANGED starting
OptimizerFails == AgentFails /\ UNCHANGED starting
OptimizerAsks == AgentAsks /\ UNCHANGED starting
OptimizerAnswers == AgentAnswers /\ UNCHANGED starting
OptimizerRunsOutOfTurns == AgentRunsOutOfTurns /\ UNCHANGED starting
PriceAtTheEnd == Exhausted /\ UNCHANGED starting

CostNext ==
  \/ CheckOptimizerConfig \/ PriceStart \/ PriceIteration \/ ApplyCostFix
  \/ OptimizerFails \/ OptimizerAsks \/ OptimizerAnswers \/ OptimizerRunsOutOfTurns
  \/ PriceAtTheEnd

CostSpec == CostInit /\ [][CostNext]_costVars

----------------------------------------------------------------------------
\* A saving that is reported was made: the plan returned meets the target and was not
\* priced before its last edit, within the iterations allowed, and unless it met the
\* target from the start an edit did it; and when the agent gives up, the plan that
\* is returned is the one it was given, still above the target.
SavingsWereEarned ==
  /\ outcome.kind = "Success" =>
       /\ outcome.score <= Target /\ plan = snapshot
       /\ outcome.iterations < max_iterations
       /\ (fix_count = 0) <=> (starting <= Target)
  /\ outcome.kind = "AgentGaveUp" =>
       ~(outcome.score <= Target) /\ plan = snapshot /\ ~(starting <= Target)
=============================================================================

--------------------------- MODULE Services_proofs ---------------------------
(***************************************************************************)
(* What is proved of the parts that run beside one another and share no    *)
(* state: the loop of FixAgent with the score of the Recovery agent and    *)
(* the price of the Cost Optimizer, the notifications, the terminal, the   *)
(* thread that is rebuilt, the retries of a call of the model, the shell   *)
(* gate, the line that is typed, the golden migrations and the prices of   *)
(* their runs, the scan of a subscription, the templates that are          *)
(* rendered, and the secrets of a payload. The lemmas on numbers, on the   *)
(* least of a set and on functions defined by recursion serve those from   *)
(* the thread on; the ones on sorting and on folds, those from the golden  *)
(* migrations on.                                                          *)
(***************************************************************************)
EXTENDS CostOptimizer, Notify, Terminal, Inference, ShellGate, EvalSuite, Scanner, Templates,
        Secrets, FiniteSetTheorems, WellFoundedInduction, TLAPS

\* What ties the plan to its scored snapshot while a cycle runs and at its end.
ScoredPlan ==
  /\ fixes_before \in Nat /\ fix_count \in Nat /\ fixes_before <= fix_count
  /\ pc = "Agent" => /\ outcome = Running
                     /\ ~Met(snapshot)
                     /\ fix_count = fixes_before => plan = snapshot
  /\ pc # "Done" => outcome = Running

\* Between two cycles: there were fixes, or the plan is one that was scored and missed.
FixesBetweenCycles ==
  /\ iteration \in Nat \ {0}
  /\ pc \in {"Config", "Score"} =>
       /\ iteration = 1 => fix_count = 0
       /\ fix_count = 0 => iteration = 1 \/ ~Met(plan)

EndedTruthfully == GaveUpOnUnmetPlan /\ SuccessWasEarned

IInv == ScoredPlan /\ FixesBetweenCycles /\ EndedTruthfully

----------------------------------------------------------------------------
\* An answer that reports an error has edited nothing.
LEMMA ErrorsEditNothing ==
  ASSUME NEW p, NEW call \in FixCall, execute(p, call).is_error
  PROVE  execute(p, call).plan = p
<1>1. CASE call.tool = "set_attribute"
  BY <1>1 DEF execute, apply_set_attribute, Edited, Unedited
<1>2. CASE call.tool = "change_target_type"
  BY <1>2 DEF execute, apply_change_target_type, Edited, Unedited
<1>3. CASE call.tool = "remove_resource"
  BY <1>3 DEF execute, apply_remove_resource, Edited, Unedited
<1>4. CASE call.tool = "unknown"
  BY <1>4 DEF execute, Unedited
<1>. QED BY <1>1, <1>2, <1>3, <1>4 DEF FixCall

\* The initial state satisfies the inductive invariant.
LEMMA InitIInv == Init => IInv
  BY DEF Init, IInv, ScoredPlan, FixesBetweenCycles, EndedTruthfully, GaveUpOnUnmetPlan,
         SuccessWasEarned, Running

\* Every step of the loop keeps the inductive invariant.
LEMMA StepIInv == IInv /\ [Next]_vars => IInv'
<1>. SUFFICES ASSUME IInv, [Next]_vars PROVE IInv'
  OBVIOUS
<1>. USE FixAgentAssumption
     DEF IInv, ScoredPlan, FixesBetweenCycles, EndedTruthfully, GaveUpOnUnmetPlan,
         SuccessWasEarned, Running, Return, Failed, Ended
<1>1. CASE CheckConfig
  BY <1>1 DEF CheckConfig, Met
<1>2. CASE StartIteration
  BY <1>2 DEF StartIteration, ScoreFails, IterationsLeft, Met
<1>3. CASE Exhausted
  BY <1>3 DEF Exhausted, ScoreFails
<1>4. ASSUME NEW call \in FixCalls, ToolCall(call) PROVE IInv'
  <2>1. call \in FixCall
    BY FixAgentAssumption
  <2>2. CASE execute(plan, call).is_error
    BY <1>4, <2>1, <2>2, ErrorsEditNothing DEF ToolCall
  <2>3. CASE ~execute(plan, call).is_error
    BY <1>4, <2>3 DEF ToolCall
  <2>. QED BY <2>2, <2>3
<1>5. CASE AgentFails
  BY <1>5 DEF AgentFails
<1>6. CASE AgentAsks
  BY <1>6 DEF AgentAsks
<1>7. CASE AgentAnswers
  BY <1>7 DEF AgentAnswers, ScoreFails, NextIteration, Met
<1>8. CASE AgentRunsOutOfTurns
  BY <1>8 DEF AgentRunsOutOfTurns, NextIteration, Met
<1>9. CASE UNCHANGED vars
  BY <1>9 DEF vars, Met
<1>. QED BY <1>1, <1>2, <1>3, <1>4, <1>5, <1>6, <1>7, <1>8, <1>9 DEF Next

\* AgentGaveUp is only ever the outcome of a plan that misses the target and is the
\* one the last cycle was given: recovery/mod.rs ends so only behind a cycle that
\* counted no fix.
THEOREM GivesUpOnUnmetPlan == Spec => []GaveUpOnUnmetPlan
<1>1. IInv => GaveUpOnUnmetPlan
  BY DEF IInv, EndedTruthfully
<1>. QED BY InitIInv, StepIInv, <1>1, PTL DEF Spec

\* A Success is that of the plan returned, within the iterations allowed, and it took a
\* fix unless the plan met the target from the start: no edit of recovery/mod.rs comes
\* between the scoring and the return, and a cycle without a fix cannot lead to one.
THEOREM SuccessIsEarned == Spec => []SuccessWasEarned
<1>1. IInv => SuccessWasEarned
  BY DEF IInv, EndedTruthfully
<1>. QED BY InitIInv, StepIInv, <1>1, PTL DEF Spec

----------------------------------------------------------------------------
(* The Cost Optimizer *)

\* From the first estimate on the plan given was too dear, and the plan of an iteration
\* that has begun without an edit is that one.
PricedOnce ==
  /\ iteration \in Nat \ {0}
  /\ pc \in {"Config", "Price"} => fix_count = 0 /\ iteration = 1
  /\ pc = "Price" => max_iterations # 0
  /\ pc \in {"Score", "Agent"} => ~(starting <= Target)
  /\ pc = "Score" /\ fix_count = 0 => ~Met(plan)

CostInv == ScoredPlan /\ PricedOnce /\ SavingsWereEarned

\* The initial state satisfies it.
LEMMA InitCost == CostInit => CostInv
  BY DEF CostInit, Init, CostInv, ScoredPlan, PricedOnce, SavingsWereEarned, Running

\* Every step of the Cost Optimizer keeps it.
LEMMA StepCost == CostInv /\ [CostNext]_costVars => CostInv'
<1>. SUFFICES ASSUME CostInv, [CostNext]_costVars PROVE CostInv'
  OBVIOUS
<1>. USE FixAgentAssumption
     DEF CostInv, ScoredPlan, PricedOnce, SavingsWereEarned, Running, Return, Failed, Ended
<1>1. CASE CheckOptimizerConfig
  BY <1>1 DEF CheckOptimizerConfig, Met
<1>2. CASE PriceStart
  BY <1>2 DEF PriceStart, ScoreFails, Met
<1>3. CASE PriceIteration
  BY <1>3 DEF PriceIteration, StartIteration, ScoreFails, IterationsLeft, Met
<1>4. ASSUME NEW call \in FixCalls, ToolCall(call), UNCHANGED starting PROVE CostInv'
  <2>1. call \in FixCall
    BY FixAgentAssumption
  <2>2. CASE execute(plan, call).is_error
    BY <1>4, <2>1, <2>2, ErrorsEditNothing DEF ToolCall
  <2>3. CASE ~execute(plan, call).is_error
    BY <1>4, <2>3 DEF ToolCall
  <2>. QED BY <2>2, <2>3
<1>5. CASE OptimizerFails
  BY <1>5 DEF OptimizerFails, AgentFails
<1>6. CASE OptimizerAsks
  BY <1>6 DEF OptimizerAsks, AgentAsks
<1>7. CASE OptimizerAnswers
  BY <1>7 DEF OptimizerAnswers, AgentAnswers, ScoreFails, NextIteration, Met
<1>8. CASE OptimizerRunsOutOfTurns
  BY <1>8 DEF OptimizerRunsOutOfTurns, AgentRunsOutOfTurns, NextIteration, Met
<1>9. CASE PriceAtTheEnd
  BY <1>9 DEF PriceAtTheEnd, Exhausted, ScoreFails
<1>10. CASE UNCHANGED costVars
  BY <1>10 DEF costVars, vars, Met
<1>. QED BY <1>1, <1>2, <1>3, <1>4, <1>5, <1>6, <1>7, <1>8, <1>9, <1>10
         DEF CostNext, ApplyCostFix

\* A saving reported was made: run_optimizer succeeds with the plan it priced last, an
\* edit behind it unless the plan was cheap enough as it came, and gives up only while
\* the plan it returns is still too dear.
THEOREM SavingsAreEarned == CostSpec => []SavingsWereEarned
<1>1. CostInv => SavingsWereEarned
  BY DEF CostInv
<1>. QED BY InitCost, StepCost, <1>1, PTL DEF CostSpec

----------------------------------------------------------------------------
(* Notifications *)

Kind == {"log", "slack", "misconfigured"}

\* Of the children tried so far, the logs are reached, and have succeeded.
FannedOut ==
  /\ notice = [pc |-> notice.pc, list |-> notice.list, children |-> notice.children,
               tried |-> notice.tried, reached |-> notice.reached,
               any_succeeded |-> notice.any_succeeded, last_err |-> notice.last_err,
               result |-> notice.result]
  /\ notice.list \in Seq(Kind) /\ notice.children \in Seq(Kind)
  /\ notice.tried \in 0 .. Len(notice.children)
  /\ notice.pc = "with" => notice.tried = 0
  /\ notice.pc \in {"with", "next", "done"}
  /\ \A i \in 1 .. notice.tried : notice.children[i] = "log" =>
        i \in notice.reached /\ notice.any_succeeded
  /\ notice.any_succeeded \in BOOLEAN
  /\ notice.any_succeeded => notice.reached # {}
  /\ ~notice.any_succeeded /\ notice.tried # 0 => notice.last_err # "ok"
  /\ notice.pc = "done" =>
       /\ notice.tried = Len(notice.children)
       /\ notice.result = "ok" <=> notice.any_succeeded \/ notice.children = <<>>

\* Before the first child is registered nobody is tried.
LEMMA InitNotice == NoticeInit => FannedOut
<1>. SUFFICES ASSUME NoticeInit PROVE FannedOut
  OBVIOUS
<1>1. PICK list \in NotifierLists : notice = [NoticeIdle EXCEPT !.pc = "with", !.list = list]
  BY DEF NoticeInit
<1>2. list \in Seq(Kind) /\ <<>> \in Seq(Kind) /\ Len(<<>>) = 0
  BY NotifyAssumption DEF Kind
<1>3. notice = [pc |-> "with", list |-> list, children |-> <<>>, tried |-> 0, reached |-> {},
                any_succeeded |-> FALSE, last_err |-> "none", result |-> "none"]
  BY <1>1 DEF NoticeIdle
<1>. QED BY <1>2, <1>3 DEF FannedOut

\* A child that is registered comes last; none has been tried.
LEMMA StepRegister == FannedOut /\ RegisterChild => FannedOut'
<1>. SUFFICES ASSUME FannedOut, RegisterChild PROVE FannedOut'
  OBVIOUS
<1>1. CASE notice.list = <<>>
  BY <1>1 DEF RegisterChild, FannedOut
<1>2. CASE notice.list # <<>>
  <2>. DEFINE c == IF configured(Head(notice.list))
                   THEN Append(notice.children, Head(notice.list)) ELSE notice.children
  <2>1. Tail(notice.list) \in Seq(Kind) /\ Head(notice.list) \in Kind
    BY <1>2 DEF FannedOut
  <2>2. c \in Seq(Kind) /\ Len(c) \in Nat
    BY <2>1 DEF FannedOut
  <2>3. notice' = [notice EXCEPT !.list = Tail(notice.list), !.children = c]
    BY <1>2 DEF RegisterChild
  <2>4. notice.pc = "with" /\ notice.tried = 0
    BY DEF RegisterChild, FannedOut
  <2>. HIDE DEF c
  <2>5. notice' = [pc |-> "with", list |-> Tail(notice.list), children |-> c, tried |-> 0,
                  reached |-> notice.reached, any_succeeded |-> notice.any_succeeded,
                  last_err |-> notice.last_err, result |-> notice.result]
    BY <2>3, <2>4 DEF FannedOut
  <2>6. notice.any_succeeded \in BOOLEAN /\ (notice.any_succeeded => notice.reached # {})
    BY DEF FannedOut
  <2>. QED BY <2>1, <2>2, <2>5, <2>6 DEF FannedOut
<1>. QED BY <1>1, <1>2

\* A child that is a log is reached, and its success is remembered, whatever the ones
\* before it answered.
LEMMA StepChild == FannedOut /\ NotifyChild => FannedOut'
<1>. SUFFICES ASSUME FannedOut, NotifyChild PROVE FannedOut'
  OBVIOUS
<1>1. PICK answer \in Answers(child) : \E delivered \in Delivered(answer) :
         notice' = [notice EXCEPT
            !.tried = @ + 1,
            !.reached = IF delivered THEN @ \cup {notice.tried + 1} ELSE @,
            !.any_succeeded = @ \/ answer = "ok",
            !.last_err = IF answer = "ok" THEN @ ELSE answer]
  BY DEF NotifyChild
<1>2. PICK delivered \in Delivered(answer) :
         notice' = [notice EXCEPT
            !.tried = @ + 1,
            !.reached = IF delivered THEN @ \cup {notice.tried + 1} ELSE @,
            !.any_succeeded = @ \/ answer = "ok",
            !.last_err = IF answer = "ok" THEN @ ELSE answer]
  BY <1>1
<1>3. /\ child = "log" => answer = "ok"
      /\ answer = "ok" => delivered = TRUE
      /\ answer \in {"ok", "Network", "EndpointError"}
  BY <1>1, <1>2 DEF Answers, Delivered
<1>4. /\ Len(notice.children) \in Nat /\ notice.tried + 1 \in 1 .. Len(notice.children)
      /\ notice.pc = "next" /\ child = notice.children[notice.tried + 1]
  BY DEF FannedOut, NotifyChild, child
<1>. DEFINE r == IF delivered THEN notice.reached \cup {notice.tried + 1} ELSE notice.reached
            s == notice.any_succeeded \/ answer = "ok"
            e == IF answer = "ok" THEN notice.last_err ELSE answer
<1>5. notice' = [pc |-> "next", list |-> notice.list, children |-> notice.children,
                tried |-> notice.tried + 1, reached |-> r, any_succeeded |-> s,
                last_err |-> e, result |-> notice.result]
  BY <1>2, <1>4 DEF FannedOut
<1>6. /\ \A i \in 1 .. notice.tried + 1 : notice.children[i] = "log" => i \in r /\ s
      /\ s \in BOOLEAN /\ (s => r # {}) /\ (~s => e # "ok")
  <2>1. \A i \in 1 .. notice.tried : notice.children[i] = "log" => i \in r /\ s
    BY DEF FannedOut
  <2>2. notice.children[notice.tried + 1] = "log" => notice.tried + 1 \in r /\ s
    BY <1>3, <1>4
  <2>3. notice.tried \in Nat
    BY <1>4 DEF FannedOut
  <2>4. \A i \in 1 .. notice.tried + 1 : i \in 1 .. notice.tried \/ i = notice.tried + 1
    BY <2>3
  <2>5. s \in BOOLEAN /\ (s => r # {})
    BY <1>3 DEF FannedOut
  <2>6. ~s => e # "ok"
    BY <1>3
  <2>. HIDE DEF r, s, e
  <2>. QED BY <2>1, <2>2, <2>4, <2>5, <2>6
<1>. HIDE DEF r, s, e
<1>. QED BY <1>4, <1>5, <1>6 DEF FannedOut

\* Every step of the fan-out keeps it.
LEMMA StepNotice == FannedOut /\ [NoticeNext]_notice => FannedOut'
<1>1. ASSUME FannedOut, NotifyReturns PROVE FannedOut'
  <2>. DEFINE r == IF notice.any_succeeded \/ notice.children = <<>>
                   THEN "ok" ELSE notice.last_err
  <2>1. notice' = [notice EXCEPT !.pc = "done", !.result = r]
    BY <1>1 DEF NotifyReturns
  <2>2. r = "ok" <=> notice.any_succeeded \/ notice.children = <<>>
    BY <1>1 DEF FannedOut, NotifyReturns
  <2>. HIDE DEF r
  <2>. QED BY <1>1, <2>1, <2>2 DEF FannedOut, NotifyReturns
<1>2. FannedOut /\ UNCHANGED notice => FannedOut'
  BY DEF FannedOut
<1>. QED BY StepRegister, StepChild, <1>1, <1>2 DEF NoticeNext

\* MultiNotifier reports an event lost only when no child confirmed it, with every
\* LogNotifier reached by then, however many children fail: multi.rs goes on behind an
\* error, and remembers the success that came before it.
THEOREM FailuresSilenceNobody == NoticeSpec => []LostOnlyEverywhere
<1>1. FannedOut => LostOnlyEverywhere
  <2>. SUFFICES ASSUME FannedOut, notice.pc = "done" PROVE LostOnlyEverywhere
    BY DEF LostOnlyEverywhere
  <2>1. DOMAIN notice.children = 1 .. notice.tried
    BY DEF FannedOut
  <2>2. notice.children # <<>> /\ notice.result = "ok" => notice.reached # {}
    BY DEF FannedOut
  <2>. QED BY <2>1, <2>2 DEF LostOnlyEverywhere, FannedOut
<1>. QED BY InitNotice, StepNotice, <1>1, PTL DEF NoticeSpec

----------------------------------------------------------------------------
(* The terminal *)

\* The larger and the smaller of two numbers.
LEMMA OfTwo ==
  ASSUME NEW a \in Int, NEW b \in Int
  PROVE  /\ Max({a, b}) = IF a >= b THEN a ELSE b
         /\ Min({a, b}) = IF a <= b THEN a ELSE b
  BY DEF Max, Min

\* Messages, each the rows its lines take.
Messages == Seq(Seq(Nat))

\* What every state of the interface is; buffer and cursor are the editor's concern.
IsInterface(t) ==
  /\ DOMAIN t = {"pc", "raw", "alternate", "guard", "input_buffer", "cursor", "messages",
                 "scroll_offset", "should_exit"}
  /\ t.raw \in BOOLEAN /\ t.alternate \in BOOLEAN /\ t.guard \in BOOLEAN
  /\ t.messages \in Messages /\ t.scroll_offset \in Nat

\* Behind the alternate screen there is a guard on every way.
Guarded ==
  /\ IsInterface(tui)
  /\ tui.pc = "start" => ~tui.raw /\ ~tui.alternate
  /\ tui.pc \in {"terminal", "draw", "poll", "leave"} => tui.guard
  /\ tui.pc = "returned" => ~tui.raw /\ ~tui.alternate

\* Nothing is taken over at first.
LEMMA InitTui == TuiInit => Guarded
  BY DEF TuiInit, TuiIdle, Guarded, IsInterface, Messages

\* A key that leaves the guard alone keeps it.
LEMMA KeyKeepsGuard ==
  ASSUME Guarded, NEW t, Handled(t), IsInterface(t), t.guard = tui.guard
  PROVE  Guarded'
<1>1. tui.pc = "poll" /\ tui' = [t EXCEPT !.pc = "draw"]
  BY DEF Handled
<1>. QED BY <1>1 DEF Guarded, IsInterface

\* No edit of the line, no message and no scrolling touches the guard.
LEMMA EditsKeepInterface ==
  ASSUME NEW t, IsInterface(t)
  PROVE  /\ IsInterface(take_input(t)) /\ take_input(t).guard = t.guard
         /\ IsInterface(request_exit(t)) /\ request_exit(t).guard = t.guard
         /\ \A m \in Messages : IsInterface(push(t, m)) /\ push(t, m).guard = t.guard
         /\ \A buffer, offset :
              LET u == [t EXCEPT !.input_buffer = buffer, !.cursor = offset]
              IN  IsInterface(u) /\ u.guard = t.guard
         /\ \A buffer :
              LET u == [t EXCEPT !.input_buffer = buffer]
              IN  IsInterface(u) /\ u.guard = t.guard
         /\ \A offset :
              LET u == [t EXCEPT !.cursor = offset]
              IN  IsInterface(u) /\ u.guard = t.guard
         /\ \A lines \in Nat :
              LET u == [t EXCEPT !.scroll_offset = lines]
              IN  IsInterface(u) /\ u.guard = t.guard
<1>1. IsInterface(take_input(t)) /\ take_input(t).guard = t.guard
  BY DEF take_input, IsInterface
<1>2. IsInterface(request_exit(t)) /\ request_exit(t).guard = t.guard
  BY DEF request_exit, IsInterface
<1>3. ASSUME NEW m \in Messages PROVE IsInterface(push(t, m)) /\ push(t, m).guard = t.guard
  <2>1. t.messages \o m \in Messages
    BY DEF IsInterface, Messages
  <2>. QED BY <2>1 DEF push, IsInterface
<1>4. ASSUME NEW buffer, NEW offset
      PROVE  LET u == [t EXCEPT !.input_buffer = buffer, !.cursor = offset]
             IN  IsInterface(u) /\ u.guard = t.guard
  BY DEF IsInterface
<1>5. ASSUME NEW buffer
      PROVE  LET u == [t EXCEPT !.input_buffer = buffer]
             IN  IsInterface(u) /\ u.guard = t.guard
  BY DEF IsInterface
<1>6. ASSUME NEW offset
      PROVE  LET u == [t EXCEPT !.cursor = offset]
             IN  IsInterface(u) /\ u.guard = t.guard
  BY DEF IsInterface
<1>7. ASSUME NEW lines \in Nat
      PROVE  LET u == [t EXCEPT !.scroll_offset = lines]
             IN  IsInterface(u) /\ u.guard = t.guard
  BY DEF IsInterface
<1>. QED BY <1>1, <1>2, <1>3, <1>4, <1>5, <1>6, <1>7

\* The ways in and out keep it.
LEMMA EntriesKeepGuard ==
  ASSUME Guarded,
         EnableRawMode \/ EnterAlternateScreen \/ MakeTerminal \/ DrawFrame \/ NoKey \/ DropGuard
  PROVE  Guarded'
<1>. USE DEF Guarded, IsInterface
<1>1. CASE EnableRawMode
  BY <1>1 DEF EnableRawMode
<1>2. CASE EnterAlternateScreen
  BY <1>2 DEF EnterAlternateScreen
<1>3. CASE MakeTerminal
  <2>1. CASE tui' = [tui EXCEPT !.pc = "draw", !.messages = push_welcome]
    <3>1. push_welcome \in Messages
      <4>1. \A k \in 1 .. 3 : <<WelcomeRows[k]>> \in Seq(Nat)
        BY TerminalAssumption
      <4>. QED BY <4>1 DEF push_welcome, Messages
    <3>2. tui'.pc = "draw" /\ tui'.messages \in Messages
      BY <2>1, <3>1
    <3>. QED BY <1>3, <2>1, <3>2 DEF MakeTerminal
  <2>2. CASE tui' = [tui EXCEPT !.pc = "leave"]
    BY <1>3, <2>2 DEF MakeTerminal
  <2>. QED BY <1>3, <2>1, <2>2 DEF MakeTerminal
<1>4. CASE DrawFrame
  <2>1. tui' = [tui EXCEPT !.pc = "leave"] \/ tui' = [tui EXCEPT !.pc = "poll"]
    BY <1>4 DEF DrawFrame
  <2>2. tui.guard
    BY <1>4 DEF DrawFrame
  <2>. QED BY <2>1, <2>2
<1>5. CASE NoKey
  BY <1>5 DEF NoKey
<1>6. CASE DropGuard
  BY <1>6 DEF DropGuard
<1>. QED BY <1>1, <1>2, <1>3, <1>4, <1>5, <1>6

\* Every step of the interface keeps it.
LEMMA StepTui == Guarded /\ [TuiNext]_tui => Guarded'
<1>. SUFFICES ASSUME Guarded, [TuiNext]_tui PROVE Guarded'
  OBVIOUS
<1>1. IsInterface(tui)
  BY DEF Guarded
<1>2. CASE ExitKey
  BY <1>1, <1>2, EditsKeepInterface, KeyKeepsGuard DEF ExitKey
<1>3. CASE TypeKey
  <2>1. PICK c \in Chars : Handled(input_insert(c))
    BY <1>3 DEF TypeKey
  <2>2. IsInterface(input_insert(c)) /\ input_insert(c).guard = tui.guard
    BY <1>1 DEF input_insert, IsInterface
  <2>. QED BY <2>1, <2>2, KeyKeepsGuard
<1>4. CASE EditKey
  <2>1. IsInterface(input_backspace) /\ input_backspace.guard = tui.guard
    BY <1>1 DEF input_backspace, IsInterface
  <2>2. IsInterface(input_delete) /\ input_delete.guard = tui.guard
    BY <1>1, EditsKeepInterface DEF input_delete
  <2>3. IsInterface(input_left) /\ input_left.guard = tui.guard
    BY <1>1, EditsKeepInterface DEF input_left
  <2>4. IsInterface(input_right) /\ input_right.guard = tui.guard
    BY <1>1, EditsKeepInterface DEF input_right
  <2>5. ASSUME NEW offset, Handled([tui EXCEPT !.cursor = offset]) PROVE Guarded'
    BY <1>1, <2>5, EditsKeepInterface, KeyKeepsGuard
  <2>. QED BY <1>4, <2>1, <2>2, <2>3, <2>4, <2>5, KeyKeepsGuard DEF EditKey
<1>5. CASE ScrollKey
  <2>1. IsInterface(scroll_up(5)) /\ scroll_up(5).guard = tui.guard
    BY <1>1 DEF scroll_up, IsInterface
  <2>2. IsInterface(scroll_down(5)) /\ scroll_down(5).guard = tui.guard
    <3>1. Max({0, tui.scroll_offset - 5}) \in Nat
      BY <1>1, OfTwo DEF IsInterface
    <3>. QED BY <1>1, <3>1, EditsKeepInterface DEF scroll_down
  <2>. QED BY <1>5, <2>1, <2>2, KeyKeepsGuard DEF ScrollKey
<1>6. CASE EscapeKey
  BY <1>1, <1>6, EditsKeepInterface, KeyKeepsGuard DEF EscapeKey
<1>7. CASE EnterKey
  <2>1. IsInterface(take_input(tui)) /\ take_input(tui).guard = tui.guard
    BY <1>1, EditsKeepInterface
  <2>2. ASSUME NEW line \in MessageTexts, NEW text \in MessageTexts
        PROVE  <<line>> \in Messages /\ <<line, text>> \in Messages
    <3>1. line \in Seq(Nat) /\ text \in Seq(Nat)
      BY TerminalAssumption
    <3>. QED BY <3>1 DEF Messages
  <2>3. ASSUME NEW m \in Messages
        PROVE  /\ IsInterface(push(take_input(tui), m)) /\ push(take_input(tui), m).guard = tui.guard
               /\ IsInterface(request_exit(push(take_input(tui), m)))
               /\ request_exit(push(take_input(tui), m)).guard = tui.guard
    <3>. DEFINE p == push(take_input(tui), m)
    <3>1. IsInterface(p) /\ p.guard = tui.guard
      BY <2>1, EditsKeepInterface
    <3>. HIDE DEF p
    <3>2. IsInterface(request_exit(p)) /\ request_exit(p).guard = tui.guard
      BY <3>1, EditsKeepInterface
    <3>. QED BY <3>1, <3>2 DEF p
  <2>4. CASE IsBlank(tui.input_buffer)
    BY <1>7, <2>1, <2>4, KeyKeepsGuard DEF EnterKey
  <2>5. CASE ~IsBlank(tui.input_buffer)
    <3>1. PICK line \in MessageTexts, text \in MessageTexts :
              \/ Handled(request_exit(push(take_input(tui), <<line>>)))
              \/ Handled(push(take_input(tui), <<line, text>>))
      BY <1>7, <2>5 DEF EnterKey
    <3>2. <<line>> \in Messages /\ <<line, text>> \in Messages
      BY <2>2
    <3>. QED BY <2>3, <3>1, <3>2, KeyKeepsGuard
  <2>. QED BY <2>4, <2>5
<1>8. CASE UNCHANGED tui
  BY <1>8 DEF Guarded, IsInterface
<1>. QED BY <1>2, <1>3, <1>4, <1>5, <1>6, <1>7, <1>8, EntriesKeepGuard DEF TuiNext

----------------------------------------------------------------------------
(* Numbers *)

\* The least of some numbers.
LEMMA LeastOf ==
  ASSUME NEW S \in SUBSET Nat, S # {}
  PROVE  \E m \in S : \A k \in S : m <= k
<1>. DEFINE R == OpToRel(<, Nat)
<1>1. IsWellFoundedOn(R, Nat)
  BY NatLessThanWellFounded
<1>2. PICK m \in S : \A k \in S : ~(<<k, m>> \in R)
  <2>. HIDE DEF R
  <2>1. S \subseteq Nat /\ S # {}
    OBVIOUS
  <2>. QED BY <1>1, <2>1, WFMin
<1>3. R = {p \in Nat \X Nat : p[1] < p[2]}
  BY DEF OpToRel
<1>4. \A k \in S : k < m => <<k, m>> \in R
  <2>. HIDE DEF R
  <2>. QED BY <1>3
<1>. HIDE DEF R
<1>5. \A k \in S : ~(k < m) /\ k \in Nat /\ m \in Nat
  BY <1>2, <1>4
<1>6. \A k \in S : m <= k
  BY <1>5
<1>. QED BY <1>6

\* What holds of zero and goes on to the next holds of all.
LEMMA Inductive ==
  ASSUME NEW S, 0 \in S, \A n \in Nat : n \in S => n + 1 \in S
  PROVE  Nat \subseteq S
<1>. SUFFICES ASSUME Nat \ S # {} PROVE FALSE
  OBVIOUS
<1>1. PICK m \in Nat \ S : \A k \in Nat \ S : m <= k
  <2>1. Nat \ S \in SUBSET Nat
    OBVIOUS
  <2>. QED BY <2>1, LeastOf
<1>2. m - 1 \in Nat /\ m - 1 \in S
  BY <1>1
<1>. QED BY <1>1, <1>2

\* A function on the numbers begins with c, and goes on by D.
Iterates(U, D, c) == \E f \in [Nat -> U] : f[0] = c /\ \A n \in Nat : f[n + 1] = D[f[n]]

\* A value and a step make a function on the numbers.
LEMMA PrimitiveRecursion ==
  ASSUME NEW U, NEW D \in [U -> U], NEW c \in U
  PROVE  Iterates(U, D, c)
<1>. DEFINE Upto(n, f) == f[0] = c /\ \A k \in 1 .. n : f[k] = D[f[k - 1]]
            N == {n \in Nat : \E f \in [0 .. n -> U] : Upto(n, f)}
<1>1. Nat \subseteq N
  <2>1. 0 \in N
    <3>1. [k \in 0 .. 0 |-> c] \in [0 .. 0 -> U] /\ Upto(0, [k \in 0 .. 0 |-> c])
      OBVIOUS
    <3>. QED BY <3>1
  <2>2. ASSUME NEW n \in Nat, n \in N PROVE n + 1 \in N
    <3>1. PICK f \in [0 .. n -> U] : Upto(n, f)
      BY <2>2
    <3>. DEFINE g == [k \in 0 .. n + 1 |-> IF k = n + 1 THEN D[f[n]] ELSE f[k]]
    <3>2. g \in [0 .. n + 1 -> U]
      BY <2>2
    <3>3. Upto(n + 1, g)
      <4>1. \A k \in 1 .. n : g[k] = f[k] /\ g[k - 1] = f[k - 1]
        BY <2>2
      <4>2. g[0] = f[0] /\ g[n + 1] = D[f[n]] /\ g[n] = f[n]
        BY <2>2
      <4>. HIDE DEF g
      <4>. QED BY <2>2, <3>1, <4>1, <4>2
    <3>. HIDE DEF g
    <3>. QED BY <2>2, <3>2, <3>3
  <2>. HIDE DEF N
  <2>. QED BY <2>1, <2>2, Inductive
<1>2. ASSUME NEW n \in Nat, NEW m \in Nat, NEW f, NEW g, Upto(n, f), Upto(m, g), n <= m
      PROVE  \A k \in 0 .. n : f[k] = g[k]
  <2>. DEFINE S == {k \in Nat : k <= n => f[k] = g[k]}
  <2>1. 0 \in S
    BY <1>2
  <2>2. ASSUME NEW k \in Nat, k \in S PROVE k + 1 \in S
    <3>1. CASE k + 1 <= n
      <4>1. k + 1 \in 1 .. n /\ k + 1 \in 1 .. m /\ (k + 1) - 1 = k /\ f[k] = g[k]
        BY <1>2, <2>2, <3>1
      <4>2. f[k + 1] = D[f[k]] /\ g[k + 1] = D[g[k]]
        BY <1>2, <4>1
      <4>. QED BY <4>1, <4>2
    <3>2. CASE ~(k + 1 <= n)
      BY <3>2
    <3>. QED BY <3>1, <3>2
  <2>3. Nat \subseteq S
    <3>. HIDE DEF S
    <3>. QED BY <2>1, <2>2, Inductive
  <2>. QED BY <2>3
<1>. DEFINE a(n) == CHOOSE f \in [0 .. n -> U] : Upto(n, f)
            h == [n \in Nat |-> a(n)[n]]
<1>3. ASSUME NEW n \in Nat PROVE a(n) \in [0 .. n -> U] /\ Upto(n, a(n))
  <2>1. \E f \in [0 .. n -> U] : Upto(n, f)
    BY <1>1
  <2>. HIDE DEF Upto
  <2>. QED BY <2>1
<1>4. h \in [Nat -> U]
  <2>. HIDE DEF a
  <2>. QED BY <1>3
<1>5. h[0] = c
  <2>. HIDE DEF a
  <2>. QED BY <1>3
<1>6. ASSUME NEW n \in Nat PROVE h[n + 1] = D[h[n]]
  <2>. HIDE DEF a
  <2>1. a(n + 1)[n + 1] = D[a(n + 1)[n]]
    <3>1. n + 1 \in Nat /\ n + 1 \in 1 .. n + 1 /\ (n + 1) - 1 = n
      OBVIOUS
    <3>. QED BY <1>3, <3>1
  <2>2. a(n + 1)[n] = a(n)[n]
    <3>1. n + 1 \in Nat /\ n <= n + 1 /\ n \in 0 .. n
      OBVIOUS
    <3>2. Upto(n, a(n)) /\ Upto(n + 1, a(n + 1))
      BY <1>3, <3>1
    <3>. HIDE DEF Upto
    <3>. QED BY <1>2, <3>1, <3>2
  <2>. QED BY <2>1, <2>2
<1>. HIDE DEF h
<1>. QED BY <1>4, <1>5, <1>6 DEF Iterates

----------------------------------------------------------------------------
(* The thread that is rebuilt *)

\* Positions that grow by themselves, as many as there are, are all of them.
LEMMA IncreasingIsIdentity ==
  ASSUME NEW n \in Nat, NEW left \in [1 .. n -> 1 .. n], Increasing(left)
  PROVE  \A i \in 1 .. n : left[i] = i
<1>1. \A i, j \in 1 .. n : i < j => left[i] < left[j]
  BY DEF Increasing
<1>2. \A i \in 1 .. n : left[i] >= i
  <2>. DEFINE S == {i \in 1 .. n : left[i] < i}
  <2>. SUFFICES ASSUME S # {} PROVE FALSE
    OBVIOUS
  <2>1. PICK i \in S : \A k \in S : i <= k
    <3>1. S \in SUBSET Nat
      OBVIOUS
    <3>. HIDE DEF S
    <3>. QED BY <3>1, LeastOf
  <2>2. i - 1 \in 1 .. n /\ i - 1 \notin S
    BY <2>1
  <2>3. left[i - 1] >= i - 1 /\ left[i - 1] < left[i] /\ left[i] < i
    BY <1>1, <2>1, <2>2
  <2>. QED BY <2>1, <2>2, <2>3
<1>3. \A i \in 1 .. n : left[i] <= i
  <2>. DEFINE S == {k \in 0 .. n - 1 : left[n - k] > n - k}
  <2>. SUFFICES ASSUME NEW i \in 1 .. n, left[i] > i PROVE FALSE
    OBVIOUS
  <2>1. n - i \in S
    OBVIOUS
  <2>2. PICK k \in S : \A j \in S : k <= j
    <3>1. S \in SUBSET Nat
      OBVIOUS
    <3>. HIDE DEF S
    <3>. QED BY <2>1, <3>1, LeastOf
  <2>3. k # 0 /\ k - 1 \in 0 .. n - 1 /\ k - 1 \notin S
    <3>1. k \in 0 .. n - 1 /\ left[n - k] > n - k
      BY <2>2
    <3>2. n - k \in 1 .. n /\ left[n - k] \in 1 .. n
      BY <3>1
    <3>3. k # 0
      BY <3>1, <3>2
    <3>4. k - 1 \in 0 .. n - 1 /\ ~(k <= k - 1)
      BY <3>1, <3>3
    <3>. HIDE DEF S
    <3>. QED BY <2>2, <3>3, <3>4
  <2>4. left[n - (k - 1)] <= n - (k - 1)
    BY <2>3
  <2>5. left[n - k] < left[n - (k - 1)] /\ left[n - k] > n - k
    BY <1>1, <2>2, <2>3
  <2>. QED BY <2>2, <2>3, <2>4, <2>5
<1>. QED BY <1>2, <1>3

\* A sequence of texts, whatever they are.
IsThread(t) == Len(t) \in Nat /\ DOMAIN t = 1 .. Len(t) /\ t = [i \in 1 .. Len(t) |-> t[i]]

\* While the thread is rebuilt, what it has is in order and reads as the reduced one
\* does so far, and no way to find the rest has been passed by.
Rebuilding ==
  /\ DOMAIN thread = {"pc", "original", "reduced", "r", "at", "rebuilt"}
  /\ IsThread(thread.original) /\ IsThread(thread.reduced)
  /\ thread.rebuilt \in Seq(Nat)
  /\ thread.pc \in {"same", "rebuild", "done"}
  /\ thread.pc = "same" => Len(thread.reduced) = Len(thread.original)
  /\ thread.pc = "rebuild" =>
       /\ thread.r = Len(thread.rebuilt) + 1 /\ Len(thread.rebuilt) <= Len(thread.reduced)
       /\ thread.at \in 0 .. Len(thread.original)
       /\ \A i \in DOMAIN thread.rebuilt :
            /\ thread.rebuilt[i] \in 1 .. thread.at
            /\ thread.original[thread.rebuilt[i]] = thread.reduced[i]
       /\ Increasing(thread.rebuilt)
       /\ \A left \in [DOMAIN thread.reduced -> DOMAIN thread.original] :
            Increasing(left) /\ Texts(thread.original, left) = thread.reduced =>
              /\ \A i \in DOMAIN thread.rebuilt : thread.rebuilt[i] <= left[i]
              /\ thread.r <= Len(thread.reduced) => thread.at < left[thread.r]
  /\ RebuiltThreadIsTheReduced

\* Nothing is found at first.
LEMMA InitThread == ThreadInit => Rebuilding
<1>. SUFFICES ASSUME ThreadInit PROVE Rebuilding
  OBVIOUS
<1>1. PICK original \in Threads, reduced \in Reductions :
        thread = [ThreadIdle EXCEPT !.original = original, !.reduced = reduced,
                    !.pc = IF Len(reduced) = Len(original) THEN "same" ELSE "rebuild"]
  BY DEF ThreadInit
<1>2. IsThread(original) /\ IsThread(reduced)
  BY ThreadsAssumption DEF IsThread
<1>. DEFINE p == IF Len(reduced) = Len(original) THEN "same" ELSE "rebuild"
<1>3. thread = [pc |-> p, original |-> original, reduced |-> reduced, r |-> 1, at |-> 0,
                rebuilt |-> <<>>]
  BY <1>1 DEF ThreadIdle
<1>4. p \in {"same", "rebuild"} /\ (p = "same" => Len(reduced) = Len(original))
  OBVIOUS
<1>5. <<>> \in Seq(Nat) /\ Len(<<>>) = 0 /\ DOMAIN <<>> = 1 .. 0
  OBVIOUS
<1>6. Increasing(<<>>)
  BY <1>5 DEF Increasing
<1>. HIDE DEF p
<1>7. ASSUME NEW left \in [DOMAIN reduced -> DOMAIN original], 1 <= Len(reduced)
      PROVE  0 < left[1]
  BY <1>2, <1>7 DEF IsThread
<1>8. /\ thread.pc = p /\ thread.original = original /\ thread.reduced = reduced
      /\ thread.r = 1 /\ thread.at = 0 /\ thread.rebuilt = <<>>
      /\ DOMAIN thread = {"pc", "original", "reduced", "r", "at", "rebuilt"}
  BY <1>3
<1>9. Len(original) \in Nat /\ Len(reduced) \in Nat
  BY <1>2 DEF IsThread
<1>10. RebuiltThreadIsTheReduced
  BY <1>4, <1>8 DEF RebuiltThreadIsTheReduced
<1>11. \A i \in DOMAIN <<>> : FALSE
  BY <1>5
<1>12. 0 \in 0 .. Len(original) /\ 1 = Len(<<>>) + 1 /\ Len(<<>>) <= Len(reduced)
  BY <1>5, <1>9
<1>. QED BY <1>2, <1>4, <1>5, <1>6, <1>7, <1>8, <1>10, <1>11, <1>12 DEF Rebuilding

\* A message that reads as the next one wanted is kept: every other way finds it here
\* or later.
LEMMA StepKeep == Rebuilding /\ KeepMessage => Rebuilding'
<1>. SUFFICES ASSUME Rebuilding, KeepMessage PROVE Rebuilding'
  OBVIOUS
<1>. DEFINE original == thread.original
            reduced == thread.reduced
            rebuilt == thread.rebuilt
            n == Len(rebuilt)
            at == thread.at
<1>1. /\ thread' = [thread EXCEPT !.rebuilt = Append(@, at + 1), !.at = @ + 1, !.r = @ + 1]
      /\ thread.pc = "rebuild" /\ thread.r <= Len(reduced) /\ at < Len(original)
      /\ original[at + 1] = reduced[thread.r]
  BY DEF KeepMessage, Looking
<1>2. /\ IsThread(original) /\ IsThread(reduced) /\ rebuilt \in Seq(Nat) /\ n \in Nat
      /\ thread.r = n + 1 /\ at \in 0 .. Len(original) /\ n <= Len(reduced)
      /\ \A i \in DOMAIN rebuilt : rebuilt[i] \in 1 .. at /\ original[rebuilt[i]] = reduced[i]
      /\ Increasing(rebuilt)
      /\ \A left \in [DOMAIN reduced -> DOMAIN original] :
           Increasing(left) /\ Texts(original, left) = reduced =>
             /\ \A i \in DOMAIN rebuilt : rebuilt[i] <= left[i]
             /\ n + 1 <= Len(reduced) => at < left[n + 1]
  BY <1>1 DEF Rebuilding
<1>3. /\ thread'.pc = "rebuild" /\ thread'.original = original /\ thread'.reduced = reduced
      /\ thread'.rebuilt = Append(rebuilt, at + 1) /\ thread'.at = at + 1
      /\ thread'.r = n + 2 /\ DOMAIN thread' = DOMAIN thread
      /\ DOMAIN thread = {"pc", "original", "reduced", "r", "at", "rebuilt"}
  BY <1>1, <1>2 DEF Rebuilding
<1>. DEFINE longer == Append(rebuilt, at + 1)
<1>4. /\ longer \in Seq(Nat) /\ Len(longer) = n + 1 /\ DOMAIN longer = 1 .. n + 1
      /\ \A i \in 1 .. n : longer[i] = rebuilt[i]
      /\ longer[n + 1] = at + 1 /\ DOMAIN rebuilt = 1 .. n
  BY <1>2
<1>5. n + 1 <= Len(reduced) /\ original[at + 1] = reduced[n + 1] /\ at + 1 \in 1 .. Len(original)
  BY <1>1, <1>2
<1>. HIDE DEF longer, original, reduced, rebuilt, n, at
<1>6. at \in Nat /\ Len(original) \in Nat /\ Len(reduced) \in Nat
  BY <1>2 DEF IsThread
<1>7. \A i \in DOMAIN longer : longer[i] \in 1 .. at + 1 /\ original[longer[i]] = reduced[i]
  <2>1. ASSUME NEW i \in 1 .. n PROVE longer[i] \in 1 .. at + 1 /\ original[longer[i]] = reduced[i]
    <3>1. rebuilt[i] \in 1 .. at /\ original[rebuilt[i]] = reduced[i] /\ longer[i] = rebuilt[i]
      BY <1>2, <1>4
    <3>. QED BY <1>6, <3>1
  <2>. QED BY <1>2, <1>4, <1>5, <1>6, <2>1
<1>8. Increasing(longer)
  <2>1. ASSUME NEW i \in 1 .. n + 1, NEW j \in 1 .. n + 1, i < j PROVE longer[i] < longer[j]
    <3>1. n \in Nat
      BY <1>2
    <3>2. i \in 1 .. n
      BY <2>1, <3>1
    <3>3. i \in 1 .. n /\ rebuilt[i] \in 1 .. at
      BY <1>2, <1>4, <3>2
    <3>4. CASE j \in 1 .. n
      <4>1. rebuilt[i] < rebuilt[j]
        BY <1>2, <1>4, <2>1, <3>3, <3>4 DEF Increasing
      <4>. QED BY <1>4, <3>3, <3>4, <4>1
    <3>5. CASE j = n + 1
      BY <1>4, <1>6, <3>3, <3>5
    <3>. QED BY <1>2, <2>1, <3>4, <3>5
  <2>. QED BY <1>4, <2>1 DEF Increasing
<1>9. ASSUME NEW left \in [DOMAIN reduced -> DOMAIN original], Increasing(left),
             Texts(original, left) = reduced
      PROVE  /\ \A i \in DOMAIN longer : longer[i] <= left[i]
             /\ n + 2 <= Len(reduced) => at + 1 < left[n + 2]
  <2>1. at < left[n + 1] /\ \A i \in DOMAIN rebuilt : rebuilt[i] <= left[i]
    BY <1>2, <1>5, <1>9
  <2>2. n + 1 \in DOMAIN reduced /\ left[n + 1] \in 1 .. Len(original)
    BY <1>2, <1>5 DEF IsThread
  <2>3. n + 2 <= Len(reduced) => n + 2 \in DOMAIN reduced /\ left[n + 2] \in 1 .. Len(original)
    BY <1>2 DEF IsThread
  <2>4. n + 2 <= Len(reduced) => left[n + 1] < left[n + 2]
    BY <1>2, <1>9, <2>2, <2>3 DEF Increasing
  <2>5. n + 2 <= Len(reduced) => at + 1 < left[n + 2]
    BY <1>6, <2>1, <2>2, <2>3, <2>4
  <2>6. longer[n + 1] <= left[n + 1]
    BY <1>4, <1>6, <2>1, <2>2
  <2>7. \A i \in 1 .. n : longer[i] <= left[i]
    BY <1>4, <2>1
  <2>. QED BY <1>2, <1>4, <2>5, <2>6, <2>7
<1>10. thread'.rebuilt = longer
  BY <1>3 DEF longer
<1>11. RebuiltThreadIsTheReduced'
  BY <1>3 DEF RebuiltThreadIsTheReduced
<1>12. n + 2 = Len(longer) + 1 /\ Len(longer) <= Len(reduced) /\ at + 1 \in 0 .. Len(original)
  BY <1>2, <1>4, <1>5
<1>. QED
  BY <1>2, <1>3, <1>4, <1>7, <1>8, <1>9, <1>10, <1>11, <1>12 DEF Rebuilding

\* What a way to find the rest says of one message of it.
LEMMA TextAt ==
  ASSUME NEW original, NEW reduced, NEW left \in [DOMAIN reduced -> DOMAIN original],
         Texts(original, left) = reduced, NEW i \in DOMAIN reduced
  PROVE  original[left[i]] = reduced[i]
<1>1. Texts(original, left)[i] = original[left[i]]
  BY DEF Texts
<1>. QED BY <1>1

\* A message that reads otherwise than the next one wanted is on nobody's way.
LEMMA StepSkip == Rebuilding /\ SkipMessage => Rebuilding'
<1>. SUFFICES ASSUME Rebuilding, SkipMessage PROVE Rebuilding'
  OBVIOUS
<1>. DEFINE original == thread.original
            reduced == thread.reduced
            rebuilt == thread.rebuilt
            at == thread.at
            r == thread.r
<1>1. /\ thread' = [thread EXCEPT !.at = @ + 1]
      /\ thread.pc = "rebuild" /\ r <= Len(reduced) /\ at < Len(original)
      /\ original[at + 1] # reduced[r]
  BY DEF SkipMessage, Looking
<1>2. /\ IsThread(original) /\ IsThread(reduced) /\ rebuilt \in Seq(Nat)
      /\ r = Len(rebuilt) + 1 /\ Len(rebuilt) <= Len(reduced)
      /\ at \in 0 .. Len(original)
      /\ \A i \in DOMAIN rebuilt : rebuilt[i] \in 1 .. at /\ original[rebuilt[i]] = reduced[i]
      /\ Increasing(rebuilt)
      /\ \A left \in [DOMAIN reduced -> DOMAIN original] :
           Increasing(left) /\ Texts(original, left) = reduced =>
             /\ \A i \in DOMAIN rebuilt : rebuilt[i] <= left[i]
             /\ r <= Len(reduced) => at < left[r]
  BY <1>1 DEF Rebuilding
<1>3. /\ thread'.pc = "rebuild" /\ thread'.original = original /\ thread'.reduced = reduced
      /\ thread'.rebuilt = rebuilt /\ thread'.at = at + 1 /\ thread'.r = r
      /\ DOMAIN thread' = {"pc", "original", "reduced", "r", "at", "rebuilt"}
  BY <1>1 DEF Rebuilding
<1>. HIDE DEF original, reduced, rebuilt, at, r
<1>4. /\ Len(original) \in Nat /\ Len(reduced) \in Nat /\ at \in Nat /\ Len(rebuilt) \in Nat
      /\ at + 1 \in 0 .. Len(original) /\ r \in DOMAIN reduced
  BY <1>1, <1>2 DEF IsThread
<1>5. ASSUME NEW left \in [DOMAIN reduced -> DOMAIN original], Increasing(left),
             Texts(original, left) = reduced
      PROVE  (\A i \in DOMAIN rebuilt : rebuilt[i] <= left[i]) /\ at + 1 < left[r]
  <2>1. (\A i \in DOMAIN rebuilt : rebuilt[i] <= left[i]) /\ at < left[r]
    BY <1>1, <1>2, <1>5
  <2>2. original[left[r]] = reduced[r]
    BY <1>4, <1>5, TextAt
  <2>3. left[r] \in 1 .. Len(original) /\ left[r] # at + 1
    BY <1>1, <1>2, <1>4, <2>2 DEF IsThread
  <2>. QED BY <1>4, <2>1, <2>3
<1>6. \A i \in DOMAIN rebuilt : rebuilt[i] \in 1 .. at + 1 /\ original[rebuilt[i]] = reduced[i]
  BY <1>2, <1>4
<1>7. RebuiltThreadIsTheReduced'
  BY <1>3 DEF RebuiltThreadIsTheReduced
<1>. QED BY <1>2, <1>3, <1>4, <1>5, <1>6, <1>7 DEF Rebuilding

\* At the end nothing is missing that could have been found, and a thread of the same
\* length is itself.
LEMMA StepRebuilt == Rebuilding /\ ThreadRebuilt => Rebuilding'
<1>. SUFFICES ASSUME Rebuilding, ThreadRebuilt PROVE Rebuilding'
  OBVIOUS
<1>. DEFINE original == thread.original
            reduced == thread.reduced
            rebuilt == thread.rebuilt
            whole == [i \in DOMAIN original |-> i]
            last == IF thread.pc = "same" THEN whole ELSE rebuilt
<1>1. /\ thread.pc \in {"same", "rebuild"}
      /\ thread' = [thread EXCEPT !.pc = "done", !.rebuilt = last]
  BY DEF ThreadRebuilt
<1>2. IsThread(original) /\ IsThread(reduced)
  BY DEF Rebuilding
<1>3. /\ Len(original) \in Nat /\ DOMAIN original = 1 .. Len(original)
      /\ Len(reduced) \in Nat /\ DOMAIN reduced = 1 .. Len(reduced)
      /\ original = [i \in 1 .. Len(original) |-> original[i]]
      /\ reduced = [i \in 1 .. Len(reduced) |-> reduced[i]]
  BY <1>2 DEF IsThread
<1>4. last \in Seq(Nat) /\ Increasing(last)
  <2>1. whole \in Seq(Nat) /\ Increasing(whole)
    BY <1>3 DEF Increasing
  <2>2. thread.pc = "rebuild" => rebuilt \in Seq(Nat) /\ Increasing(rebuilt)
    BY DEF Rebuilding
  <2>. QED BY <1>1, <2>1, <2>2
<1>5. ASSUME NEW left \in [DOMAIN reduced -> DOMAIN original], Increasing(left),
             Texts(original, left) = reduced
      PROVE  /\ Texts(original, last) = reduced
             /\ (\A i, j \in DOMAIN original : original[i] = original[j] => i = j)
                  => last = left
  <2>1. CASE thread.pc = "same"
    <3>1. Len(reduced) = Len(original)
      BY <2>1 DEF Rebuilding
    <3>. HIDE DEF original, reduced
    <3>2. \A i \in 1 .. Len(original) : left[i] = i
      BY <1>3, <1>5, <3>1, IncreasingIsIdentity
    <3>3. left = whole
      BY <1>3, <3>1, <3>2
    <3>. QED BY <1>5, <2>1, <3>3
  <2>2. CASE thread.pc = "rebuild"
    <3>1. /\ rebuilt \in Seq(Nat) /\ thread.r = Len(rebuilt) + 1
          /\ Len(rebuilt) <= Len(reduced) /\ thread.at \in 0 .. Len(original)
          /\ \A i \in DOMAIN rebuilt : /\ rebuilt[i] \in 1 .. thread.at
                                       /\ original[rebuilt[i]] = reduced[i]
          /\ thread.r <= Len(reduced) => thread.at < left[thread.r]
      BY <1>5, <2>2 DEF Rebuilding
    <3>2. ~(thread.r <= Len(reduced)) \/ ~(thread.at < Len(original))
      BY <2>2 DEF ThreadRebuilt, Looking
    <3>. HIDE DEF original, reduced, rebuilt
    <3>3. Len(rebuilt) = Len(reduced)
      <4>. SUFFICES ASSUME Len(rebuilt) # Len(reduced) PROVE FALSE
        OBVIOUS
      <4>1. Len(rebuilt) \in Nat
        BY <3>1
      <4>2. thread.r \in DOMAIN reduced /\ thread.r <= Len(reduced)
        BY <1>3, <3>1, <4>1
      <4>3. thread.at < left[thread.r] /\ left[thread.r] \in 1 .. Len(original)
        BY <1>3, <3>1, <4>2
      <4>. QED BY <1>3, <3>1, <3>2, <4>2, <4>3
    <3>4. DOMAIN rebuilt = DOMAIN reduced /\ rebuilt = [i \in DOMAIN reduced |-> rebuilt[i]]
      BY <1>3, <3>1, <3>3
    <3>5. Texts(original, rebuilt) = [i \in DOMAIN reduced |-> reduced[i]]
      BY <3>1, <3>4 DEF Texts
    <3>6. ASSUME \A i, j \in DOMAIN original : original[i] = original[j] => i = j
          PROVE  rebuilt = left
      <4>1. ASSUME NEW i \in DOMAIN reduced PROVE rebuilt[i] = left[i]
        <5>1. original[rebuilt[i]] = reduced[i] /\ original[left[i]] = reduced[i]
          BY <1>5, <3>1, <3>4, TextAt
        <5>2. rebuilt[i] \in DOMAIN original /\ left[i] \in DOMAIN original
          BY <1>3, <3>1, <3>4
        <5>. QED BY <3>6, <5>1, <5>2
      <4>. QED BY <3>4, <4>1
    <3>. QED BY <1>3, <2>2, <3>5, <3>6
  <2>. QED BY <1>1, <2>1, <2>2
<1>6. /\ thread'.pc = "done" /\ thread'.original = original /\ thread'.reduced = reduced
      /\ thread'.rebuilt = last
      /\ DOMAIN thread' = {"pc", "original", "reduced", "r", "at", "rebuilt"}
  <2>. HIDE DEF last
  <2>. QED BY <1>1 DEF Rebuilding
<1>. HIDE DEF original, reduced, last
<1>7. RebuiltThreadIsTheReduced'
  BY <1>4, <1>5, <1>6 DEF RebuiltThreadIsTheReduced
<1>. QED BY <1>2, <1>4, <1>6, <1>7 DEF Rebuilding

\* Every step keeps it.
LEMMA StepThread == Rebuilding /\ [ThreadNext]_thread => Rebuilding'
<1>1. Rebuilding /\ UNCHANGED thread => Rebuilding'
  BY DEF Rebuilding, RebuiltThreadIsTheReduced
<1>. QED BY StepKeep, StepSkip, StepRebuilt, <1>1 DEF ThreadNext

\* rebuild_thread_after_drop puts back messages of the thread in their order; when the
\* reducer only dropped messages it finds every one it left, although it compares texts
\* and never goes back: taking the first that reads alike never costs a later one.
THEOREM ReducedThreadIsRebuilt == ThreadSpec => []RebuiltThreadIsTheReduced
<1>1. Rebuilding => RebuiltThreadIsTheReduced
  BY DEF Rebuilding
<1>. QED BY InitThread, StepThread, <1>1, PTL DEF ThreadSpec

----------------------------------------------------------------------------
(* The retries of one call of the model *)

PowersOf(p, base) ==
    p \in [Nat -> Int] /\ p[0] = 1 /\ \A n \in Nat : p[n + 1] = base * p[n]

\* powi is what it says: one, and then the base once more.
LEMMA PowersAre ==
  ASSUME NEW base \in Int
  PROVE  PowersOf(powi(base), base)
<1>. DEFINE D == [x \in Int |-> base * x]
            Steps(p) == p = [n \in Nat |-> IF n = 0 THEN 1 ELSE base * p[n - 1]]
<1>1. PICK f \in [Nat -> Int] : f[0] = 1 /\ \A n \in Nat : f[n + 1] = D[f[n]]
  <2>. D \in [Int -> Int] /\ 1 \in Int
    OBVIOUS
  <2>. HIDE DEF D
  <2>1. Iterates(Int, D, 1)
    BY PrimitiveRecursion
  <2>. QED BY <2>1 DEF Iterates
<1>2. Steps(f)
  <2>1. ASSUME NEW n \in Nat PROVE f[n] = IF n = 0 THEN 1 ELSE base * f[n - 1]
    <3>1. CASE n = 0
      BY <1>1, <3>1
    <3>2. CASE n # 0
      <4>1. n - 1 \in Nat /\ (n - 1) + 1 = n
        BY <3>2
      <4>2. f[n] = D[f[n - 1]]
        BY <1>1, <4>1
      <4>. QED BY <1>1, <3>2, <4>1, <4>2
    <3>. QED BY <3>1, <3>2
  <2>. QED BY <2>1
<1>3. powi(base) = CHOOSE p : Steps(p)
  BY DEF powi
<1>4. Steps(powi(base))
  <2>. HIDE DEF Steps
  <2>. QED BY <1>2, <1>3
<1>. DEFINE p == powi(base)
<1>5. p[0] = 1 /\ \A n \in Nat : p[n + 1] = base * p[n]
  <2>1. \A n \in Nat : p[n] = IF n = 0 THEN 1 ELSE base * p[n - 1]
    <3>. HIDE DEF p
    <3>. SUFFICES Steps(p) => \A n \in Nat : p[n] = IF n = 0 THEN 1 ELSE base * p[n - 1]
      BY <1>4 DEF p
    <3>. QED OBVIOUS
  <2>. HIDE DEF p
  <2>2. \A n \in Nat : n + 1 \in Nat /\ n + 1 # 0 /\ (n + 1) - 1 = n
    OBVIOUS
  <2>. QED BY <2>1, <2>2
<1>6. p \in [Nat -> Int]
  <2>. DEFINE S == {n \in Nat : p[n] \in Int}
  <2>1. 0 \in S /\ \A n \in Nat : n \in S => n + 1 \in S
    <3>. HIDE DEF p
    <3>. QED BY <1>5
  <2>2. Nat \subseteq S
    <3>. HIDE DEF S
    <3>. QED BY <2>1, Inductive
  <2>3. p = [n \in Nat |-> p[n]]
    BY <1>4
  <2>. HIDE DEF p
  <2>. QED BY <2>2, <2>3
<1>. HIDE DEF p
<1>7. PowersOf(p, base)
  BY <1>5, <1>6 DEF PowersOf
<1>. QED BY <1>7 DEF p

\* The powers of a positive number are positive.
LEMMA PowersArePositive ==
  ASSUME NEW base \in Nat \ {0}
  PROVE  \A n \in Nat : powi(base)[n] \in Nat \ {0}
<1>. DEFINE p == powi(base)
            S == {n \in Nat : p[n] \in Nat \ {0}}
<1>1. p[0] = 1 /\ \A n \in Nat : p[n + 1] = base * p[n]
  <2>1. PowersOf(p, base)
    BY PowersAre
  <2>. HIDE DEF p
  <2>. QED BY <2>1 DEF PowersOf
<1>. HIDE DEF p
<1>2. 0 \in S
  BY <1>1
<1>3. ASSUME NEW n \in Nat, n \in S PROVE n + 1 \in S
  <2>1. p[n] \in Nat \ {0} /\ p[n + 1] = base * p[n]
    BY <1>1, <1>3
  <2>2. base * p[n] \in Nat \ {0}
    BY <2>1
  <2>. QED BY <2>1, <2>2
<1>4. Nat \subseteq S
  <2>. HIDE DEF S
  <2>. QED BY <1>2, <1>3, Inductive
<1>. QED BY <1>4 DEF p

\* A quotient does not shrink when it is multiplied by one that is not below one.
LEMMA QuotientGrows ==
  ASSUME NEW x \in Nat, NEW y \in Nat \ {0}, NEW n \in Nat, NEW d \in Nat \ {0}, d <= n
  PROVE  x \div y <= (x * n) \div (y * d)
<1>. DEFINE q == x \div y
            r == (x * n) \div (y * d)
<1>1. q \in Nat /\ q * y <= x
  OBVIOUS
<1>2. y * d \in Nat \ {0} /\ x * n \in Nat
  OBVIOUS
<1>3. r \in Nat /\ x * n < (r + 1) * (y * d)
  <2>. DEFINE u == x * n
              v == y * d
  <2>. HIDE DEF u, v
  <2>1. u \in Nat /\ v \in Nat \ {0}
    BY <1>2 DEF u, v
  <2>2. u \div v \in Nat /\ u < (u \div v + 1) * v
    BY <2>1
  <2>. QED BY <2>2 DEF u, v
<1>4. q * (y * d) <= x * n
  <2>1. (q * y) * d <= x * d
    BY <1>1
  <2>2. x * d <= x * n
    OBVIOUS
  <2>3. q * (y * d) = (q * y) * d
    BY <1>1
  <2>. QED BY <2>1, <2>2, <2>3, <1>1, <1>2
<1>. HIDE DEF q, r
<1>5. q * (y * d) < (r + 1) * (y * d)
  BY <1>1, <1>2, <1>3, <1>4
<1>6. q < r + 1
  BY <1>1, <1>2, <1>3, <1>5
<1>. QED BY <1>1, <1>3, <1>6 DEF q, r

\* Clamping stays below the bound and keeps the order.
LEMMA Clamped ==
  ASSUME NEW a \in Int, NEW b \in Int
  PROVE  /\ Min({a, b}) \in Int /\ Min({a, b}) <= b
         /\ \A c \in Int : a <= c => Min({a, b}) <= Min({c, b})
<1>1. Min({a, b}) = IF a <= b THEN a ELSE b
  BY OfTwo
<1>2. ASSUME NEW c \in Int PROVE Min({c, b}) = IF c <= b THEN c ELSE b
  BY OfTwo
<1>. QED BY <1>1, <1>2

\* The delay the kernel chooses is a number within the maximum.
LEMMA BackoffIsClamped ==
  ASSUME NEW retry \in RetryConfigs, NEW a \in Nat \ {0}
  PROVE  /\ exponential_backoff_ms(retry, a) \in Int
         /\ exponential_backoff_ms(retry, a) <= retry.max_backoff_ms
<1>1. /\ retry.initial_backoff_ms \in Nat /\ retry.max_backoff_ms \in Nat
      /\ retry.multiplier.num \in Int /\ retry.multiplier.den \in Nat \ {0}
  BY InferenceAssumption
<1>2. delay_num(retry, a) \in Int
  <2>1. powi(retry.multiplier.num)[a - 1] \in Int
    <3>. DEFINE p == powi(retry.multiplier.num)
    <3>1. PowersOf(p, retry.multiplier.num)
      BY <1>1, PowersAre
    <3>. HIDE DEF p
    <3>2. p \in [Nat -> Int] /\ a - 1 \in Nat
      BY <3>1 DEF PowersOf
    <3>3. p[a - 1] \in Int
      BY <3>2
    <3>. QED BY <3>3 DEF p
  <2>. QED BY <1>1, <2>1 DEF delay_num
<1>3. delay_den(retry, a) \in Nat \ {0}
  BY <1>1, PowersArePositive DEF delay_den
<1>. DEFINE x == delay_num(retry, a) \div delay_den(retry, a)
<1>4. x \in Int
  BY <1>2, <1>3
<1>. HIDE DEF x
<1>5. /\ Min({x, retry.max_backoff_ms}) \in Int
      /\ Min({x, retry.max_backoff_ms}) <= retry.max_backoff_ms
  BY <1>1, <1>4, Clamped
<1>6. /\ Min({retry.initial_backoff_ms, retry.max_backoff_ms}) \in Int
      /\ Min({retry.initial_backoff_ms, retry.max_backoff_ms}) <= retry.max_backoff_ms
  <2>. DEFINE initial == retry.initial_backoff_ms
              most == retry.max_backoff_ms
  <2>1. initial \in Int /\ most \in Int
    BY <1>1
  <2>. HIDE DEF initial, most
  <2>2. Min({initial, most}) \in Int /\ Min({initial, most}) <= most
    BY <2>1, Clamped
  <2>. QED BY <2>2 DEF initial, most
<1>. DEFINE first == Min({retry.initial_backoff_ms, retry.max_backoff_ms})
            later == Min({x, retry.max_backoff_ms})
<1>7. \/ exponential_backoff_ms(retry, a) = first
      \/ exponential_backoff_ms(retry, a) = later
  <2>1. exponential_backoff_ms(retry, a)
          = IF a <= 1 \/ delay_num(retry, a) < 0 THEN first ELSE later
    BY DEF exponential_backoff_ms, x
  <2>. HIDE DEF first, later
  <2>. QED BY <2>1
<1>. QED BY <1>5, <1>6, <1>7

\* With a multiplier that is not below one no delay is shorter than an earlier one.
LEMMA BackoffGrows ==
  ASSUME NEW retry \in RetryConfigs, retry.multiplier.num >= retry.multiplier.den,
         NEW i \in Nat \ {0}, NEW j \in Nat \ {0}, i <= j
  PROVE  exponential_backoff_ms(retry, i) <= exponential_backoff_ms(retry, j)
<1>. DEFINE first == retry.initial_backoff_ms
            most == retry.max_backoff_ms
            num == retry.multiplier.num
            den == retry.multiplier.den
            p == powi(num)
            q == powi(den)
            Q(k) == (first * p[k]) \div q[k]
<1>1. first \in Nat /\ most \in Nat /\ num \in Nat \ {0} /\ den \in Nat \ {0} /\ den <= num
  BY InferenceAssumption
<1>2. /\ \A k \in Nat : p[k] \in Nat \ {0} /\ q[k] \in Nat \ {0}
      /\ p[0] = 1 /\ q[0] = 1
      /\ \A k \in Nat : p[k + 1] = num * p[k] /\ q[k + 1] = den * q[k]
  <2>1. \A k \in Nat : p[k] \in Nat \ {0} /\ q[k] \in Nat \ {0}
    BY <1>1, PowersArePositive
  <2>2. PowersOf(p, num) /\ PowersOf(q, den)
    <3>. HIDE DEF num, den
    <3>1. num \in Int /\ den \in Int
      BY <1>1
    <3>. QED BY <3>1, PowersAre
  <2>. HIDE DEF p, q
  <2>. QED BY <2>1, <2>2 DEF PowersOf
<1>3. ASSUME NEW a \in Nat \ {0} PROVE exponential_backoff_ms(retry, a) = Min({Q(a - 1), most})
  <2>1. delay_num(retry, a) = first * p[a - 1] /\ delay_den(retry, a) = q[a - 1]
    BY DEF delay_num, delay_den
  <2>2. a - 1 \in Nat /\ p[a - 1] \in Nat /\ first * p[a - 1] \in Nat
    BY <1>1, <1>2
  <2>3. CASE a = 1
    <3>1. Q(0) = first
      <4>. HIDE DEF first, p, q
      <4>1. first * p[0] = first /\ first \div 1 = first
        BY <1>1, <1>2
      <4>. QED BY <1>2, <4>1
    <3>2. a <= 1 /\ a - 1 = 0
      BY <2>3
    <3>3. exponential_backoff_ms(retry, a) = Min({first, most})
      BY <3>2 DEF exponential_backoff_ms
    <3>. QED BY <3>1, <3>2, <3>3
  <2>4. CASE a # 1
    <3>1. ~(a <= 1) /\ ~(delay_num(retry, a) < 0)
      BY <2>1, <2>2, <2>4
    <3>. QED BY <2>1, <3>1 DEF exponential_backoff_ms
  <2>. QED BY <2>3, <2>4
<1>. HIDE DEF first, most, num, den, p, q
<1>4. ASSUME NEW k \in Nat PROVE Q(k) \in Nat /\ Q(k) <= Q(k + 1)
  <2>. DEFINE x == first * p[k]
              y == q[k]
  <2>1. x \in Nat /\ y \in Nat \ {0}
    BY <1>1, <1>2
  <2>2. first * p[k + 1] = x * num /\ q[k + 1] = y * den
    <3>1. p[k] \in Nat /\ q[k] \in Nat /\ p[k + 1] = num * p[k] /\ q[k + 1] = den * q[k]
      BY <1>2
    <3>. QED BY <1>1, <3>1
  <2>. HIDE DEF x, y
  <2>3. x \div y <= (x * num) \div (y * den) /\ x \div y \in Nat
    BY <1>1, <2>1, QuotientGrows
  <2>. QED BY <2>2, <2>3 DEF x, y
<1>. HIDE DEF Q
<1>. DEFINE S == {k \in Nat : Q(i - 1) <= Q(i - 1 + k)}
<1>5. Nat \subseteq S
  <2>1. 0 \in S
    BY <1>4
  <2>2. ASSUME NEW k \in Nat, k \in S PROVE k + 1 \in S
    <3>1. Q(i - 1) <= Q(i - 1 + k) /\ i - 1 \in Nat /\ i - 1 + k \in Nat
      BY <2>2
    <3>2. Q(i - 1 + k) <= Q((i - 1 + k) + 1) /\ (i - 1 + k) + 1 \in Nat
      BY <1>4, <3>1
    <3>3. Q(i - 1) \in Nat /\ Q(i - 1 + k) \in Nat /\ Q((i - 1 + k) + 1) \in Nat
      BY <1>4, <3>1, <3>2
    <3>4. Q(i - 1) <= Q((i - 1 + k) + 1)
      BY <3>1, <3>2, <3>3
    <3>5. (i - 1 + k) + 1 = i - 1 + (k + 1)
      BY <2>2
    <3>. QED BY <3>4, <3>5
  <2>. HIDE DEF S
  <2>. QED BY <2>1, <2>2, Inductive
<1>6. Q(i - 1) <= Q(j - 1) /\ Q(i - 1) \in Nat /\ Q(j - 1) \in Nat
  <2>1. j - i \in Nat /\ i - 1 + (j - i) = j - 1
    OBVIOUS
  <2>2. Q(i - 1) <= Q(i - 1 + (j - i))
    BY <1>5, <2>1
  <2>3. i - 1 \in Nat /\ j - 1 \in Nat
    OBVIOUS
  <2>4. Q(i - 1) \in Nat /\ Q(j - 1) \in Nat
    BY <1>4, <2>3
  <2>. QED BY <2>1, <2>2, <2>4
<1>7. Min({Q(i - 1), most}) <= Min({Q(j - 1), most})
  <2>. DEFINE a == Q(i - 1)
              c == Q(j - 1)
  <2>. HIDE DEF a, c
  <2>1. a \in Int /\ c \in Int /\ most \in Int /\ a <= c
    BY <1>1, <1>6 DEF a, c
  <2>2. Min({a, most}) <= Min({c, most})
    BY <2>1, Clamped
  <2>. QED BY <2>2 DEF a, c
<1>. QED BY <1>3, <1>7

Delays == [delay_ms : Int,
           source : {"RetryAfterMsHeader", "RetryAfterHeader", "ExponentialBackoff"}]

AnyHeaders == Headers \cup {NoHeaders}

\* What a delay has to do with the headers, the configuration and the attempt.
DelayFor(d, h, retry, a) ==
  /\ d \in Delays
  /\ d.source = "ExponentialBackoff" => d.delay_ms = exponential_backoff_ms(retry, a)
  /\ d.source = "ExponentialBackoff" <=> AskedFor(h) = {}
  /\ \A asked \in AskedFor(h) : Honours(d, asked)
  /\ h = NoHeaders => d.source = "ExponentialBackoff"

\* A delay is the header's, when there is one, and else the backoff.
LEMMA DelayIsResolved ==
  ASSUME NEW h \in AnyHeaders, NEW retry \in RetryConfigs, NEW a \in Nat \ {0}
  PROVE  DelayFor(resolve_retry_delay_ms(h, retry, a), h, retry, a)
<1>. DEFINE d == resolve_retry_delay_ms(h, retry, a)
            parsed == parse_retry_delay_from_headers(h)
            backoff == exponential_backoff_ms(retry, a)
            ms == Is(h.retry_after_ms, "value")
            seconds == ~ms /\ Is(h.retry_after, "value")
            date == ~ms /\ Is(h.retry_after, "date")
<1>. SUFFICES DelayFor(d, h, retry, a)
  OBVIOUS
<1>1. d = IF parsed.source # "none" THEN parsed ELSE Delay(backoff, "ExponentialBackoff")
  BY DEF resolve_retry_delay_ms
<1>2. backoff \in Int /\ MaxU64 \in Int
  BY BackoffIsClamped, InferenceAssumption
<1>3. h = NoHeaders => ~ms /\ ~Is(h.retry_after, "value") /\ ~Is(h.retry_after, "date")
  BY DEF NoHeaders, Is
<1>4. CASE ms
  <2>1. h \in Headers /\ h.retry_after_ms[2] \in Nat
    BY <1>3, <1>4, InferenceAssumption DEF AnyHeaders
  <2>2. parsed = Delay(h.retry_after_ms[2], "RetryAfterMsHeader")
    BY <1>4 DEF parse_retry_delay_from_headers
  <2>3. d = [delay_ms |-> h.retry_after_ms[2], source |-> "RetryAfterMsHeader"]
    BY <1>1, <2>2 DEF Delay
  <2>4. h # NoHeaders
    BY <1>3, <1>4
  <2>. HIDE DEF d
  <2>5. /\ d \in Delays /\ d.source = "RetryAfterMsHeader" /\ d.delay_ms = h.retry_after_ms[2]
    BY <2>1, <2>3 DEF Delays
  <2>6. AskedFor(h) = {h.retry_after_ms[2]}
    BY <1>4 DEF AskedFor
  <2>. QED BY <2>1, <2>4, <2>5, <2>6 DEF DelayFor, Honours
<1>5. CASE seconds
  <2>. DEFINE n == h.retry_after[2]
              product == saturating_mul(n, 1000)
  <2>1. h \in Headers /\ n \in Nat
    BY <1>3, <1>5, InferenceAssumption DEF AnyHeaders
  <2>2. parsed = Delay(product, "RetryAfterHeader")
    <3>1. ~ms /\ Is(h.retry_after, "value") /\ ~date
      BY <1>5 DEF Is
    <3>. HIDE DEF ms, date
    <3>2. parsed = CASE ms -> Delay(h.retry_after_ms[2], "RetryAfterMsHeader")
                     [] seconds -> Delay(product, "RetryAfterHeader")
                     [] date -> Delay(Max({0, n}), "RetryAfterHeader")
                     [] OTHER -> Delay(0, "none")
      BY DEF parse_retry_delay_from_headers, ms, date
    <3>. HIDE DEF parsed, product
    <3>. QED BY <3>1, <3>2
  <2>3. d = [delay_ms |-> product, source |-> "RetryAfterHeader"]
    BY <1>1, <2>2 DEF Delay
  <2>4. product \in Int /\ product <= n * 1000 /\ (product >= n * 1000 \/ product = MaxU64)
    <3>. HIDE DEF n
    <3>1. n * 1000 \in Int
      BY <2>1
    <3>. DEFINE m == n * 1000
    <3>. HIDE DEF m
    <3>. m \in Int
      BY <3>1 DEF m
    <3>2. Min({m, MaxU64}) = IF m <= MaxU64 THEN m ELSE MaxU64
      BY <1>2, OfTwo
    <3>3. product = Min({m, MaxU64})
      BY DEF saturating_mul, m
    <3>. HIDE DEF product
    <3>4. product \in Int /\ product <= m /\ (product >= m \/ product = MaxU64)
      BY <1>2, <3>2, <3>3
    <3>. QED BY <3>4 DEF m
  <2>5. AskedFor(h) = {n * 1000}
    BY <1>5 DEF AskedFor
  <2>. HIDE DEF d, product, parsed, seconds
  <2>6. h # NoHeaders
    BY <1>3, <1>5 DEF seconds
  <2>7. d \in Delays /\ d.source = "RetryAfterHeader" /\ d.delay_ms = product
    BY <2>3, <2>4 DEF Delays
  <2>. HIDE DEF n
  <2>. QED BY <2>4, <2>6, <2>5, <2>7 DEF DelayFor, Honours
<1>6. CASE date
  <2>. DEFINE n == h.retry_after[2]
              left == Max({0, n})
  <2>1. h \in Headers /\ n \in Int /\ h.retry_after[1] = "date"
    BY <1>3, <1>6, InferenceAssumption DEF AnyHeaders, Is
  <2>2. parsed = Delay(left, "RetryAfterHeader")
    <3>1. ~ms /\ ~seconds
      BY <1>6 DEF Is
    <3>. QED BY <1>6, <3>1 DEF parse_retry_delay_from_headers
  <2>3. d = [delay_ms |-> left, source |-> "RetryAfterHeader"]
    BY <1>1, <2>2 DEF Delay
  <2>4. left \in Int /\ left = IF n > 0 THEN n ELSE 0
    <3>. HIDE DEF n
    <3>1. Max({0, n}) = IF 0 >= n THEN 0 ELSE n
      BY <2>1, OfTwo
    <3>. QED BY <2>1, <3>1
  <2>5. AskedFor(h) = {IF n > 0 THEN n ELSE 0}
    <3>1. ~Is(h.retry_after, "value")
      BY <1>6 DEF Is
    <3>. QED BY <1>6, <3>1 DEF AskedFor
  <2>. HIDE DEF d, left, parsed, date
  <2>6. h # NoHeaders
    BY <1>3, <1>6 DEF date
  <2>7. d \in Delays /\ d.source = "RetryAfterHeader" /\ d.delay_ms = left
    BY <2>1, <2>3, <2>4 DEF Delays
  <2>8. AskedFor(h) = {left}
    BY <2>4, <2>5
  <2>9. Honours(d, left)
    BY <2>4, <2>7 DEF Honours
  <2>. QED BY <2>6, <2>7, <2>8, <2>9 DEF DelayFor
<1>7. CASE ~ms /\ ~seconds /\ ~date
  <2>1. parsed = Delay(0, "none")
    BY <1>7 DEF parse_retry_delay_from_headers
  <2>2. d = [delay_ms |-> backoff, source |-> "ExponentialBackoff"]
    BY <1>1, <2>1 DEF Delay
  <2>. HIDE DEF d, backoff
  <2>3. d \in Delays /\ d.source = "ExponentialBackoff" /\ d.delay_ms = backoff
    BY <1>2, <2>2 DEF Delays
  <2>. HIDE DEF Delays
  <2>4. AskedFor(h) = {}
    BY <1>7 DEF AskedFor
  <2>. QED BY <2>3, <2>4 DEF DelayFor, backoff
<1>. QED BY <1>4, <1>5, <1>6, <1>7

\* Each delay so far is the answer to the error before it, and each of those errors is
\* one that may pass.
Retrying ==
  /\ DOMAIN turn = {"pc", "json", "retry", "attempt", "delays", "errors", "result", "calls"}
  /\ turn.pc \in {"call", "done"} /\ turn.json \in BOOLEAN
  /\ turn.retry \in RetryConfigs /\ turn.attempt \in Nat \ {0}
  /\ turn.errors \in Seq([retryable : BOOLEAN, headers : AnyHeaders])
  /\ turn.delays \in Seq(Delays)
  /\ Len(turn.delays) = turn.attempt - 1
  /\ turn.pc = "call" => Len(turn.errors) = turn.attempt - 1
  /\ Len(turn.errors) \in {turn.attempt - 1, turn.attempt}
  /\ Len(turn.errors) <= turn.retry.max_attempts
  /\ \A i \in 1..(turn.attempt - 1) :
       /\ turn.errors[i].retryable
       /\ turn.delays[i] = resolve_retry_delay_ms(turn.errors[i].headers, turn.retry, i)
       /\ turn.json => turn.errors[i].headers = NoHeaders

\* A call starts without an error.
LEMMA InitTurn == TurnInit => Retrying
<1>. SUFFICES ASSUME TurnInit PROVE Retrying
  OBVIOUS
<1>1. PICK retry \in RetryConfigs, json \in BOOLEAN :
        turn = [TurnIdle EXCEPT !.pc = "call", !.retry = retry, !.json = json]
  BY DEF TurnInit
<1>2. turn = [pc |-> "call", json |-> json, retry |-> retry, attempt |-> 1, delays |-> <<>>,
              errors |-> <<>>, result |-> "none", calls |-> <<>>]
  BY <1>1 DEF TurnIdle
<1>3. retry.max_attempts \in Nat
  BY InferenceAssumption
<1>4. Len(<<>>) = 0 /\ <<>> \in Seq(Delays)
        /\ <<>> \in Seq([retryable : BOOLEAN, headers : AnyHeaders])
  OBVIOUS
<1>5. /\ DOMAIN turn = {"pc", "json", "retry", "attempt", "delays", "errors", "result", "calls"}
      /\ turn.pc = "call" /\ turn.json = json /\ turn.retry = retry /\ turn.attempt = 1
      /\ turn.errors = <<>> /\ turn.delays = <<>>
  <2>1. DOMAIN turn = {"pc", "json", "retry", "attempt", "delays", "errors", "result", "calls"}
    BY <1>2
  <2>2. turn.pc = "call" /\ turn.json = json /\ turn.retry = retry /\ turn.attempt = 1
    BY <1>2
  <2>3. turn.errors = <<>> /\ turn.delays = <<>>
    BY <1>2
  <2>. QED BY <2>1, <2>2, <2>3
<1>6. 1..(turn.attempt - 1) = {}
  BY <1>5
<1>. DEFINE E == [retryable : BOOLEAN, headers : AnyHeaders]
<1>7. Len(turn.delays) = 0 /\ Len(turn.errors) = 0
        /\ turn.delays \in Seq(Delays) /\ turn.errors \in Seq(E)
  BY <1>4, <1>5
<1>8. turn.retry.max_attempts \in Nat /\ turn.retry \in RetryConfigs
  BY <1>3, <1>5
<1>. QED BY <1>5, <1>6, <1>7, <1>8 DEF Retrying

\* An error that the call can meet keeps it.
LEMMA FailureKeepsRetrying ==
  ASSUME Retrying, NEW error \in [retryable : BOOLEAN, headers : AnyHeaders],
         turn.json => error.headers = NoHeaders, TurnFails(error)
  PROVE  Retrying'
<1>. DEFINE E == [retryable : BOOLEAN, headers : AnyHeaders]
            n == turn.attempt
            d == resolve_retry_delay_ms(error.headers, turn.retry, n)
            errors == Append(turn.errors, error)
<1>1. /\ turn.pc = "call" /\ n <= turn.retry.max_attempts /\ n \in Nat \ {0}
      /\ turn.retry.max_attempts \in Nat /\ turn.retry \in RetryConfigs
      /\ Len(turn.errors) = n - 1 /\ Len(turn.delays) = n - 1
      /\ turn.errors \in Seq(E) /\ turn.delays \in Seq(Delays)
  BY InferenceAssumption DEF TurnFails, Retrying
<1>2. /\ errors \in Seq(E) /\ Len(errors) = n /\ errors[n] = error
      /\ \A i \in 1..(n - 1) : errors[i] = turn.errors[i]
  <2>. HIDE DEF E
  <2>1. error \in E
    BY DEF E
  <2>. QED BY <1>1, <2>1
<1>3. CASE WorthRetrying(error)
  <2>. DEFINE delays == Append(turn.delays, d)
  <2>1. error.headers \in AnyHeaders
    OBVIOUS
  <2>2. d \in Delays
    <3>1. DelayFor(d, error.headers, turn.retry, n)
      BY <1>1, <2>1, DelayIsResolved
    <3>. QED BY <3>1 DEF DelayFor
  <2>3. turn' = [turn EXCEPT !.errors = errors, !.attempt = n + 1, !.delays = delays]
    BY <1>3 DEF TurnFails
  <2>4. /\ DOMAIN turn' = DOMAIN turn /\ turn'.pc = turn.pc /\ turn'.json = turn.json
        /\ turn'.retry = turn.retry /\ turn'.attempt = n + 1
        /\ turn'.errors = errors /\ turn'.delays = delays
    <3>. HIDE DEF errors, delays
    <3>. QED BY <2>3 DEF Retrying
  <2>. HIDE DEF d
  <2>5. /\ delays \in Seq(Delays) /\ Len(delays) = n /\ delays[n] = d
        /\ \A i \in 1..(n - 1) : delays[i] = turn.delays[i]
    BY <1>1, <2>2
  <2>. HIDE DEF errors, delays
  <2>6. error.retryable
    BY <1>3 DEF WorthRetrying
  <2>7. ASSUME NEW i \in 1..n
        PROVE  /\ errors[i].retryable
               /\ delays[i] = resolve_retry_delay_ms(errors[i].headers, turn.retry, i)
               /\ turn.json => errors[i].headers = NoHeaders
    <3>1. CASE i = n
      BY <1>2, <2>5, <2>6, <3>1 DEF d
    <3>2. CASE i # n
      <4>1. i \in 1..(n - 1)
        BY <1>1, <3>2
      <4>2. errors[i] = turn.errors[i] /\ delays[i] = turn.delays[i]
        BY <1>2, <2>5, <4>1
      <4>. QED BY <4>1, <4>2 DEF Retrying
    <3>. QED BY <3>1, <3>2
  <2>8. (n + 1) - 1 = n /\ n + 1 \in Nat \ {0}
    BY <1>1
  <2>. QED BY <1>1, <1>2, <2>4, <2>5, <2>7, <2>8 DEF Retrying
<1>4. CASE ~WorthRetrying(error)
  <2>1. turn' = [turn EXCEPT !.errors = errors, !.pc = "done", !.result = "LlmRetryExhausted"]
    BY <1>4 DEF TurnFails
  <2>. HIDE DEF errors
  <2>2. /\ DOMAIN turn' = DOMAIN turn /\ turn'.pc = "done" /\ turn'.json = turn.json
        /\ turn'.retry = turn.retry /\ turn'.attempt = n
        /\ turn'.errors = errors /\ turn'.delays = turn.delays
    BY <2>1 DEF Retrying
  <2>. QED BY <1>1, <1>2, <2>2 DEF Retrying
<1>. QED BY <1>3, <1>4

\* Every step of the call keeps it.
LEMMA StepTurn == Retrying /\ [TurnNext]_turn => Retrying'
<1>. SUFFICES ASSUME Retrying, [TurnNext]_turn PROVE Retrying'
  OBVIOUS
<1>1. CASE GenerateTurn
  <2>1. PICK reply \in Replies :
          turn' = [turn EXCEPT !.pc = "done", !.result = "Ok",
                               !.calls = parse_json_response(reply)]
    BY <1>1 DEF GenerateTurn
  <2>. QED BY <2>1 DEF Retrying
<1>2. CASE CompleteFails
  <2>1. PICK retryable \in BOOLEAN, headers \in IF turn.json THEN {NoHeaders} ELSE Headers :
          TurnFails([retryable |-> retryable, headers |-> headers])
    BY <1>2 DEF CompleteFails
  <2>2. headers \in AnyHeaders /\ (turn.json => headers = NoHeaders)
    BY <2>1 DEF AnyHeaders, Retrying
  <2>. QED BY <2>1, <2>2, FailureKeepsRetrying
<1>3. CASE ReplyUnusable
  <2>1. TurnFails([retryable |-> FALSE, headers |-> NoHeaders])
    BY <1>3 DEF ReplyUnusable
  <2>2. [retryable |-> FALSE, headers |-> NoHeaders] \in [retryable : BOOLEAN, headers : AnyHeaders]
    BY DEF AnyHeaders
  <2>. QED BY <2>1, <2>2, FailureKeepsRetrying
<1>4. CASE NoAttempt
  BY <1>4 DEF NoAttempt, Retrying
<1>5. CASE UNCHANGED turn
  BY <1>5 DEF Retrying
<1>. QED BY <1>1, <1>2, <1>3, <1>4, <1>5 DEF TurnNext

\* What the call has done so far is within its bounds.
LEMMA RetryingWithinBounds == Retrying => RetriesKeepTheirBounds
<1>. SUFFICES ASSUME Retrying PROVE RetriesKeepTheirBounds
  OBVIOUS
<1>. DEFINE retry == turn.retry
            n == turn.attempt
            D(i) == turn.delays[i]
            H(i) == turn.errors[i].headers
<1>1. /\ DOMAIN turn.delays = 1..(n - 1) /\ DOMAIN turn.errors = 1..Len(turn.errors)
      /\ n \in Nat \ {0} /\ Len(turn.errors) \in {n - 1, n} /\ retry \in RetryConfigs
  BY DEF Retrying
<1>2. Len(turn.errors) <= retry.max_attempts
  BY DEF Retrying
<1>3. ASSUME NEW i \in DOMAIN turn.errors, i < Len(turn.errors) PROVE turn.errors[i].retryable
  <2>1. i \in 1..(n - 1)
    BY <1>1, <1>3
  <2>. QED BY <2>1 DEF Retrying
<1>4. ASSUME NEW i \in DOMAIN turn.delays
      PROVE  /\ D(i).source = "ExponentialBackoff" =>
                  D(i).delay_ms = exponential_backoff_ms(retry, i)
             /\ D(i).source = "ExponentialBackoff" <=> AskedFor(H(i)) = {}
             /\ \A ms \in AskedFor(H(i)) : Honours(D(i), ms)
             /\ turn.json => D(i).source = "ExponentialBackoff"
             /\ i \in Nat \ {0}
  <2>1. i \in 1..(n - 1) /\ i \in Nat \ {0}
    BY <1>1
  <2>2. D(i) = resolve_retry_delay_ms(H(i), retry, i) /\ (turn.json => H(i) = NoHeaders)
    BY <2>1 DEF Retrying
  <2>3. H(i) \in AnyHeaders
    <3>1. i \in 1..Len(turn.errors)
      BY <1>1, <2>1
    <3>. DEFINE E == [retryable : BOOLEAN, headers : AnyHeaders]
    <3>2. turn.errors \in Seq(E)
      BY DEF Retrying
    <3>3. turn.errors[i] \in E
      <4>. HIDE DEF E
      <4>. QED BY <3>1, <3>2
    <3>. QED BY <3>3
  <2>. HIDE DEF D, H, retry
  <2>4. DelayFor(D(i), H(i), retry, i)
    BY <1>1, <2>1, <2>2, <2>3, DelayIsResolved
  <2>. QED BY <2>1, <2>2, <2>4 DEF DelayFor
<1>5. ASSUME NEW i \in DOMAIN turn.delays, D(i).source = "ExponentialBackoff"
      PROVE  D(i).delay_ms <= retry.max_backoff_ms
  <2>1. D(i).delay_ms = exponential_backoff_ms(retry, i) /\ i \in Nat \ {0}
    BY <1>4, <1>5
  <2>. HIDE DEF D, retry
  <2>2. exponential_backoff_ms(retry, i) <= retry.max_backoff_ms
    BY <1>1, <2>1, BackoffIsClamped
  <2>. QED BY <2>1, <2>2
<1>6. ASSUME retry.multiplier.num >= retry.multiplier.den,
             NEW i \in DOMAIN turn.delays, NEW j \in DOMAIN turn.delays, i < j,
             D(i).source = "ExponentialBackoff", D(j).source = "ExponentialBackoff"
      PROVE  D(i).delay_ms <= D(j).delay_ms
  <2>1. /\ D(i).delay_ms = exponential_backoff_ms(retry, i) /\ i \in Nat \ {0}
        /\ D(j).delay_ms = exponential_backoff_ms(retry, j) /\ j \in Nat \ {0}
    BY <1>4, <1>6
  <2>. HIDE DEF D, retry
  <2>2. i <= j
    BY <1>6, <2>1
  <2>3. exponential_backoff_ms(retry, i) <= exponential_backoff_ms(retry, j)
    BY <1>1, <1>6, <2>1, <2>2, BackoffGrows
  <2>. QED BY <2>1, <2>3
<1>. QED BY <1>2, <1>3, <1>4, <1>5, <1>6 DEF RetriesKeepTheirBounds

\* Whatever the configuration of the retries and whatever the servers ask for, a call of
\* the model by call_llm_with_retry keeps to both: the attempts, the server's time in
\* each of its three forms, which nothing clamps, and else the delays of
\* exponential_backoff_ms, within the maximum and, from a multiplier of one on, growing.
THEOREM RetriesAreWithinBounds == TurnSpec => []RetriesKeepTheirBounds
<1>. QED BY InitTurn, StepTurn, RetryingWithinBounds, PTL DEF TurnSpec

----------------------------------------------------------------------------
(* The approval of shell commands *)

\* The elements of a sequence, and of what is made of it.
LEMMA Elements ==
  ASSUME NEW S, NEW s \in Seq(S)
  PROVE  /\ \A i \in DOMAIN s : s[i] \in S
         /\ \A x \in S : DOMAIN Append(s, x) = DOMAIN s \cup {Len(s) + 1}
                         /\ Append(s, x)[Len(s) + 1] = x
                         /\ \A i \in DOMAIN s : Append(s, x)[i] = s[i]
         /\ s # <<>> =>
              /\ Head(s) = s[1] /\ Tail(s) \in Seq(S) /\ 1 \in DOMAIN s
              /\ \A i \in DOMAIN s : i # 1 => i - 1 \in DOMAIN Tail(s)
                                              /\ Tail(s)[i - 1] = s[i]
              /\ Last(s) \in S /\ Front(s) \in Seq(S) /\ Last(s) = s[Len(s)]
              /\ \A i \in DOMAIN s : i # Len(s) => i \in DOMAIN Front(s)
                                                   /\ Front(s)[i] = s[i]
<1>1. DOMAIN s = 1 .. Len(s) /\ Len(s) \in Nat
  OBVIOUS
<1>2. ASSUME s # <<>>
      PROVE  /\ Head(s) = s[1] /\ Tail(s) \in Seq(S) /\ 1 \in DOMAIN s
             /\ \A i \in DOMAIN s : i # 1 => i - 1 \in DOMAIN Tail(s)
                                             /\ Tail(s)[i - 1] = s[i]
  BY <1>2
<1>3. ASSUME s # <<>>
      PROVE  /\ Last(s) \in S /\ Front(s) \in Seq(S) /\ Last(s) = s[Len(s)]
             /\ \A i \in DOMAIN s : i # Len(s) => i \in DOMAIN Front(s)
                                                  /\ Front(s)[i] = s[i]
  <2>1. Len(s) \in 1 .. Len(s) /\ Len(s) - 1 \in Nat
    BY <1>3, <1>1
  <2>2. Last(s) = s[Len(s)] /\ Front(s) = SubSeq(s, 1, Len(s) - 1)
    BY DEF Last, Front
  <2>. QED BY <1>1, <2>1, <2>2
<1>4. ASSUME NEW x \in S
      PROVE  DOMAIN Append(s, x) = DOMAIN s \cup {Len(s) + 1}
             /\ Append(s, x)[Len(s) + 1] = x
             /\ \A i \in DOMAIN s : Append(s, x)[i] = s[i]
  OBVIOUS
<1>. QED BY <1>1, <1>2, <1>3, <1>4

\* The given scripts are scripts, and a command is one of its script.
LEMMA TextsOfScripts ==
  ASSUME NEW s \in Scripts
  PROVE  /\ ScriptText[s] \in Seq(Commands)
         /\ given(s) \subseteq Scripts
         /\ \A t \in given(s) : \E i \in DOMAIN ScriptText[s] :
               ScriptText[s][i].script = t /\ t # NoScript
<1>1. ScriptText[s] \in Seq(Commands)
  BY ScriptsAssumption
<1>2. \A i \in DOMAIN ScriptText[s] : ScriptText[s][i] \in Commands
  BY <1>1
<1>3. \A t \in given(s) : \E i \in DOMAIN ScriptText[s] :
               ScriptText[s][i].script = t /\ t # NoScript
  BY DEF given, ToSet
<1>. QED BY <1>1, <1>2, <1>3, ScriptsAssumption

Levels(w) ==
  /\ \A s \in Scripts : w[0][s] = {s}
  /\ \A n \in Nat, s \in Scripts : w[n + 1][s] = UNION {w[n][t] : t \in given(s)}

\* What is in a script at a level is in one that a shell is given in it, one level up.
LEMMA WithinLevels == Levels(within)
<1>. DEFINE U == [Scripts -> SUBSET Scripts]
            D == [w \in U |-> [s \in Scripts |-> UNION {w[t] : t \in given(s)}]]
            c == [s \in Scripts |-> {s}]
            Steps(w) == w = [n \in Nat |-> [s \in Scripts |->
                          IF n = 0 THEN {s} ELSE UNION {w[n - 1][t] : t \in given(s)}]]
<1>1. PICK f \in [Nat -> U] : f[0] = c /\ \A n \in Nat : f[n + 1] = D[f[n]]
  <2>1. c \in U
    OBVIOUS
  <2>2. D \in [U -> U]
    <3>1. ASSUME NEW w \in U, NEW s \in Scripts
          PROVE  UNION {w[t] : t \in given(s)} \subseteq Scripts
      BY TextsOfScripts
    <3>. QED BY <3>1
  <2>. HIDE DEF D, U, c
  <2>3. Iterates(U, D, c)
    BY <2>1, <2>2, PrimitiveRecursion
  <2>. QED BY <2>3 DEF Iterates
<1>2. Steps(f)
  <2>1. ASSUME NEW n \in Nat
        PROVE  f[n] = [s \in Scripts |->
                 IF n = 0 THEN {s} ELSE UNION {f[n - 1][t] : t \in given(s)}]
    <3>1. CASE n = 0
      BY <1>1, <3>1
    <3>2. CASE n # 0
      <4>1. n - 1 \in Nat /\ (n - 1) + 1 = n
        BY <3>2
      <4>2. f[n] = D[f[n - 1]] /\ f[n - 1] \in U
        BY <1>1, <4>1
      <4>. QED BY <3>2, <4>2
    <3>. QED BY <3>1, <3>2
  <2>2. f = [n \in Nat |-> f[n]]
    BY <1>1
  <2>. QED BY <2>1, <2>2
<1>3. within = CHOOSE w : Steps(w)
  BY DEF within
<1>4. Steps(within)
  <2>. HIDE DEF Steps
  <2>. QED BY <1>2, <1>3
<1>5. PICK w : w = within
  OBVIOUS
<1>6. Steps(w)
  <2>. HIDE DEF Steps
  <2>. QED BY <1>4, <1>5
<1>7. \A n \in Nat, s \in Scripts :
         w[n][s] = IF n = 0 THEN {s} ELSE UNION {w[n - 1][t] : t \in given(s)}
  <2>. SUFFICES ASSUME NEW n \in Nat
                PROVE  w[n] = [s \in Scripts |->
                          IF n = 0 THEN {s} ELSE UNION {w[n - 1][t] : t \in given(s)}]
    OBVIOUS
  <2>. QED BY <1>6
<1>8. \A s \in Scripts : w[0][s] = {s}
  BY <1>7
<1>9. ASSUME NEW n \in Nat, NEW s \in Scripts
      PROVE  w[n + 1][s] = UNION {w[n][t] : t \in given(s)}
  <2>1. n + 1 \in Nat /\ n + 1 # 0 /\ (n + 1) - 1 = n
    OBVIOUS
  <2>2. w[n + 1][s] = UNION {w[(n + 1) - 1][t] : t \in given(s)}
    BY <1>7, <2>1
  <2>. QED BY <2>1, <2>2
<1>10. Levels(w)
  BY <1>8, <1>9 DEF Levels
<1>. QED BY <1>5, <1>10

\* Of finitely many sequences one is longest.
LEMMA LongestOf ==
  ASSUME NEW S, IsFiniteSet(S), S # {}, \A k \in S : Len(k) \in Nat
  PROVE  \E k \in S : \A l \in S : Len(l) <= Len(k)
<1>. DEFINE Shorter(k) == {l \in S : Len(k) < Len(l)}
            N == {Cardinality(Shorter(k)) : k \in S}
<1>1. \A k \in S : IsFiniteSet(Shorter(k)) /\ Cardinality(Shorter(k)) \in Nat
  <2>. SUFFICES ASSUME NEW k \in S
                PROVE  IsFiniteSet(Shorter(k)) /\ Cardinality(Shorter(k)) \in Nat
    OBVIOUS
  <2>1. Shorter(k) \in SUBSET S
    OBVIOUS
  <2>. HIDE DEF Shorter
  <2>2. IsFiniteSet(Shorter(k))
    BY <2>1, FS_Subset
  <2>. QED BY <2>2, FS_CardinalityType
<1>2. PICK m \in N : \A n \in N : m <= n
  <2>1. N \in SUBSET Nat /\ N # {}
    <3>. HIDE DEF Shorter
    <3>. QED BY <1>1
  <2>. HIDE DEF N
  <2>. QED BY <2>1, LeastOf
<1>3. PICK k \in S : m = Cardinality(Shorter(k))
  OBVIOUS
<1>4. ASSUME NEW l \in S, Len(k) < Len(l) PROVE FALSE
  <2>1. Shorter(l) \subseteq Shorter(k) \ {l}
    BY <1>4
  <2>2. l \in Shorter(k)
    BY <1>4
  <2>3. Cardinality(Shorter(l)) < Cardinality(Shorter(k))
    <3>1. Shorter(l) \subseteq Shorter(k) /\ Shorter(l) # Shorter(k)
      BY <2>1, <2>2
    <3>. HIDE DEF Shorter
    <3>2. Cardinality(Shorter(l)) <= Cardinality(Shorter(k))
      BY <1>1, <3>1, FS_Subset
    <3>3. Cardinality(Shorter(l)) = Cardinality(Shorter(k)) => Shorter(l) = Shorter(k)
      BY <1>1, <3>1, FS_Subset
    <3>. QED BY <1>1, <3>1, <3>2, <3>3
  <2>4. Cardinality(Shorter(l)) \in N
    OBVIOUS
  <2>. HIDE DEF N, Shorter
  <2>. QED BY <1>1, <1>2, <1>3, <2>3, <2>4
<1>. HIDE DEF Shorter, N
<1>5. \A l \in S : Len(l) \in Nat /\ Len(k) \in Nat /\ ~(Len(k) < Len(l))
  BY <1>4
<1>6. \A l \in S : Len(l) <= Len(k)
  BY <1>5
<1>. QED BY <1>6

\* The verdict of a command is one of the three.
LEMMA VerdictOfCommand ==
  ASSUME NEW cmd
  PROVE  resolve_command(cmd, Prompt) \in {Allow, Prompt, Deny}
<1>1. CASE cmd.name = NoName \/ rules(cmd) = {}
  BY <1>1 DEF resolve_command
<1>2. CASE ~(cmd.name = NoName \/ rules(cmd) = {})
  <2>. DEFINE keys == rules(cmd)
  <2>1. \E k \in keys : \A l \in keys : Len(l) <= Len(k)
    <3>1. IsFiniteSet(keys) /\ keys # {} /\ \A k \in keys : Len(k) \in Nat
      <4>1. keys \subseteq DOMAIN Policy
        BY DEF rules
      <4>. HIDE DEF keys
      <4>2. IsFiniteSet(keys)
        BY <4>1, PolicyAssumption, FS_Subset
      <4>. QED BY <1>2, <4>1, <4>2, PolicyAssumption DEF keys
    <3>. HIDE DEF keys
    <3>. QED BY <3>1, LongestOf
  <2>2. most_specific(keys) \in keys
    <3>. HIDE DEF keys
    <3>. QED BY <2>1 DEF most_specific
  <2>3. most_specific(rules(cmd)) \in DOMAIN Policy
    BY <2>2 DEF rules
  <2>. QED BY <1>2, <2>3, PolicyAssumption DEF resolve_command
<1>. QED BY <1>1, <1>2

Items == [script : Scripts, depth : Nat]

GateTypes ==
  /\ gate \in [pc : {"next", "parse", "verdict", "done"}, inputs : Seq(Scripts),
               stack : Seq(Items), text : Seq(Commands), depth : Nat,
               commands : Seq(Commands), verdict : {Allow, Prompt, Deny},
               authorized : Seq(Scripts),
               result : {"none", "NotImplementedYet", "DeniedByApprovalGate",
                         "PromptRequiredButNonInteractive"}]
  /\ gate.pc \in {"parse", "verdict"} => gate.inputs # <<>>

\* The commands that run in a script are collected or about to be, ...
CommandsFound(inner) ==
  \A cmd \in ToSet(ScriptText[inner]) :
     cmd.script = NoScript => \/ cmd \in ToSet(gate.commands)
                              \/ \E i \in DOMAIN gate.text : gate.text[i] = cmd

\* ... or it is in one that waits on the stack, or is given in what is left of the text.
OnStack(n, inner) ==
  \E k \in DOMAIN gate.stack :
     /\ gate.stack[k].depth <= n
     /\ inner \in within[n - gate.stack[k].depth][gate.stack[k].script]

InText(n, inner) ==
  \E i \in DOMAIN gate.text :
     /\ gate.text[i].script # NoScript
     /\ gate.depth + 1 <= n
     /\ inner \in within[n - (gate.depth + 1)][gate.text[i].script]

Reached(n, inner) ==
  \/ n <= MAX_SCRIPT_DEPTH /\ CommandsFound(inner)
  \/ OnStack(n, inner)
  \/ InText(n, inner)

\* No script in the input is lost, however deep.
NothingIsLost ==
  gate.pc = "parse" =>
     \A n \in Nat : \A inner \in within[n][Head(gate.inputs)] : Reached(n, inner)

AllowedIsSafe ==
  gate.pc = "verdict" /\ gate.verdict = Allow => RunsOnlyAllowed(Head(gate.inputs))

GateInv == GateTypes /\ NothingIsLost /\ AllowedIsSafe /\ AuthorizedRunsOnlyAllowed

LEMMA InitGate == GateInit => GateInv
<1>. SUFFICES ASSUME NEW list \in ApplyLists,
                     gate = [GateIdle EXCEPT !.pc = "next", !.inputs = list]
              PROVE  GateInv
  BY DEF GateInit
<1>1. list \in Seq(Scripts)
  BY ScriptsAssumption
<1>2. GateTypes
  <2>1. <<>> \in Seq(Items) /\ <<>> \in Seq(Commands) /\ <<>> \in Seq(Scripts)
    OBVIOUS
  <2>2. gate = [pc |-> "next", inputs |-> list, stack |-> <<>>, text |-> <<>>, depth |-> 0,
                commands |-> <<>>, verdict |-> Prompt, authorized |-> <<>>,
                result |-> "none"]
    BY DEF GateIdle
  <2>3. GateTypes!1
    <3>. SUFFICES ASSUME NEW S, NEW I, NEW C, <<>> \in S, <<>> \in I, <<>> \in C,
                         list \in S, Prompt \in {Allow, Prompt, Deny}
                  PROVE  gate \in [pc : {"next", "parse", "verdict", "done"}, inputs : S,
               stack : I, text : C, depth : Nat,
               commands : C, verdict : {Allow, Prompt, Deny},
               authorized : S,
               result : {"none", "NotImplementedYet", "DeniedByApprovalGate",
                         "PromptRequiredButNonInteractive"}]
      BY <1>1, <2>1
    <3>. QED BY <2>2
  <2>. QED BY <2>2, <2>3 DEF GateTypes
<1>3. gate.pc = "next" /\ gate.authorized = <<>>
  BY DEF GateIdle
<1>. QED BY <1>2, <1>3 DEF GateInv, NothingIsLost, AllowedIsSafe, AuthorizedRunsOnlyAllowed

\* The next input is all there is to walk.
LEMMA StepNextInput == GateInv /\ NextInput => GateInv'
<1>. SUFFICES ASSUME GateInv, NextInput PROVE GateInv'
  OBVIOUS
<1>1. GateTypes /\ AuthorizedRunsOnlyAllowed /\ gate.pc = "next"
  BY DEF GateInv, NextInput
<1>2. CASE gate.inputs = <<>>
  <2>1. gate' = [gate EXCEPT !.pc = "done", !.result = "NotImplementedYet"]
    BY <1>2 DEF NextInput
  <2>2. GateTypes' /\ gate'.pc = "done" /\ gate'.authorized = gate.authorized
    BY <1>1, <2>1 DEF GateTypes
  <2>. QED BY <1>1, <2>2
       DEF GateInv, NothingIsLost, AllowedIsSafe, AuthorizedRunsOnlyAllowed
<1>3. CASE gate.inputs # <<>>
  <2>. DEFINE item == [script |-> Head(gate.inputs), depth |-> 0]
  <2>1. gate' = [gate EXCEPT !.pc = "parse", !.commands = <<>>, !.stack = <<item>>]
    BY <1>3 DEF NextInput
  <2>2. Head(gate.inputs) \in Scripts
    BY <1>1, <1>3 DEF GateTypes
  <2>3. GateTypes'
    <3>1. item \in Items
      BY <2>2 DEF Items
    <3>. HIDE DEF item
    <3>2. <<item>> \in Seq(Items) /\ <<>> \in Seq(Commands)
      BY <3>1
    <3>. QED BY <1>1, <1>3, <2>1, <3>2 DEF GateTypes
  <2>4. /\ gate'.pc = "parse" /\ gate'.stack = <<item>> /\ gate'.inputs = gate.inputs
        /\ gate'.authorized = gate.authorized
    BY <1>1, <2>1 DEF GateTypes
  <2>5. ASSUME NEW n \in Nat, NEW inner \in within[n][Head(gate.inputs)]
        PROVE  Reached(n, inner)'
    <3>1. 1 \in DOMAIN gate'.stack /\ gate'.stack[1] = item /\ n - 0 = n /\ 0 <= n
      BY <2>4
    <3>2. OnStack(n, inner)'
      BY <2>5, <3>1 DEF OnStack
    <3>. QED BY <3>2 DEF Reached
  <2>. QED BY <1>1, <2>3, <2>4, <2>5
       DEF GateInv, NothingIsLost, AllowedIsSafe, AuthorizedRunsOnlyAllowed
<1>. QED BY <1>2, <1>3

\* A script is taken from the stack: it is the one at its depth, and the others are
\* in those given in its text.
LEMMA StepWalkScript == GateInv /\ WalkScript => GateInv'
<1>. SUFFICES ASSUME GateInv, WalkScript PROVE GateInv'
  OBVIOUS
<1>. DEFINE top == Last(gate.stack)
<1>1. /\ GateTypes /\ AuthorizedRunsOnlyAllowed /\ gate.pc = "parse"
      /\ gate.text = <<>> /\ gate.stack # <<>> /\ gate.stack \in Seq(Items)
      /\ top.depth <= MAX_SCRIPT_DEPTH
      /\ gate' = [gate EXCEPT !.stack = Front(@), !.depth = top.depth,
                              !.text = ScriptText[top.script]]
  BY DEF GateInv, WalkScript, GateTypes
<1>2. /\ top \in Items /\ Front(gate.stack) \in Seq(Items)
      /\ top = gate.stack[Len(gate.stack)]
      /\ \A k \in DOMAIN gate.stack : k # Len(gate.stack) =>
            k \in DOMAIN Front(gate.stack) /\ Front(gate.stack)[k] = gate.stack[k]
  BY <1>1, Elements
<1>. HIDE DEF top
<1>3. top.script \in Scripts /\ top.depth \in Nat
  BY <1>2 DEF Items
<1>4. ScriptText[top.script] \in Seq(Commands)
  BY <1>3, TextsOfScripts
<1>5. GateTypes'
  BY <1>1, <1>2, <1>3, <1>4 DEF GateTypes
<1>6. /\ gate'.pc = "parse" /\ gate'.stack = Front(gate.stack) /\ gate'.depth = top.depth
      /\ gate'.text = ScriptText[top.script] /\ gate'.inputs = gate.inputs
      /\ gate'.commands = gate.commands /\ gate'.authorized = gate.authorized
  BY <1>1 DEF GateTypes
<1>7. ASSUME NEW n \in Nat, NEW inner \in within[n][Head(gate.inputs)]
      PROVE  Reached(n, inner)'
  <2>1. Reached(n, inner)
    BY <1>1, <1>7 DEF GateInv, NothingIsLost
  <2>2. CASE n <= MAX_SCRIPT_DEPTH /\ CommandsFound(inner)
    <3>1. CommandsFound(inner)'
      BY <1>1, <1>6, <2>2 DEF CommandsFound
    <3>. QED BY <2>2, <3>1 DEF Reached
  <2>3. ASSUME NEW k \in DOMAIN gate.stack, gate.stack[k].depth <= n,
               inner \in within[n - gate.stack[k].depth][gate.stack[k].script],
               k # Len(gate.stack)
        PROVE  Reached(n, inner)'
    <3>1. OnStack(n, inner)'
      BY <1>2, <1>6, <2>3 DEF OnStack
    <3>. QED BY <3>1 DEF Reached
  <2>4. ASSUME top.depth <= n, inner \in within[n - top.depth][top.script]
        PROVE  Reached(n, inner)'
    <3>1. CASE n = top.depth
      <4>1. n - top.depth = 0
        BY <3>1, <1>3
      <4>2. inner = top.script
        BY <2>4, <4>1, <1>3, WithinLevels DEF Levels
      <4>3. CommandsFound(inner)'
        BY <1>6, <4>2 DEF CommandsFound, ToSet
      <4>. QED BY <1>1, <3>1, <4>3 DEF Reached
    <3>2. CASE n # top.depth
      <4>1. PICK m : m = n - (top.depth + 1)
        OBVIOUS
      <4>2. m \in Nat /\ n - top.depth = m + 1 /\ top.depth + 1 <= n
        BY <1>3, <2>4, <3>2, <4>1
      <4>3. PICK t \in given(top.script) : inner \in within[m][t]
        <5>1. within[m + 1][top.script] = UNION {within[m][t] : t \in given(top.script)}
          BY <1>3, <4>2, WithinLevels DEF Levels
        <5>. QED BY <2>4, <4>2, <5>1
      <4>4. PICK i \in DOMAIN ScriptText[top.script] :
               ScriptText[top.script][i].script = t /\ t # NoScript
        BY <1>3, TextsOfScripts
      <4>5. InText(n, inner)'
        BY <1>6, <4>1, <4>2, <4>3, <4>4 DEF InText
      <4>. QED BY <4>5 DEF Reached
    <3>. QED BY <3>1, <3>2
  <2>5. ~InText(n, inner)
    BY <1>1 DEF InText
  <2>6. CASE OnStack(n, inner)
    <3>1. PICK k \in DOMAIN gate.stack :
             /\ gate.stack[k].depth <= n
             /\ inner \in within[n - gate.stack[k].depth][gate.stack[k].script]
      BY <2>6 DEF OnStack
    <3>2. CASE k = Len(gate.stack)
      <4>1. gate.stack[k] = top
        BY <1>2, <3>2
      <4>2. top.depth <= n /\ inner \in within[n - top.depth][top.script]
        BY <3>1, <4>1
      <4>. QED BY <2>4, <4>2
    <3>. QED BY <2>3, <3>1, <3>2
  <2>. QED BY <2>1, <2>2, <2>5, <2>6 DEF Reached
<1>. QED BY <1>1, <1>5, <1>6, <1>7
     DEF GateInv, NothingIsLost, AllowedIsSafe, AuthorizedRunsOnlyAllowed

\* A command is collected, or what it gives to a shell is put on the stack.
LEMMA StepFindCommand == GateInv /\ FindCommand => GateInv'
<1>. SUFFICES ASSUME GateInv, FindCommand PROVE GateInv'
  OBVIOUS
<1>. DEFINE cmd == Head(gate.text)
            item == [script |-> cmd.script, depth |-> gate.depth + 1]
<1>1. /\ GateTypes /\ AuthorizedRunsOnlyAllowed /\ gate.pc = "parse"
      /\ gate.text # <<>> /\ gate.text \in Seq(Commands) /\ gate.depth \in Nat
      /\ gate.commands \in Seq(Commands) /\ gate.stack \in Seq(Items)
      /\ gate' = IF cmd.script = NoScript
                 THEN [gate EXCEPT !.text = Tail(@), !.commands = Append(@, cmd)]
                 ELSE [gate EXCEPT !.text = Tail(@), !.stack = Append(@, item)]
  BY DEF GateInv, FindCommand, GateTypes
<1>2. /\ cmd = gate.text[1] /\ 1 \in DOMAIN gate.text /\ cmd \in Commands
      /\ Tail(gate.text) \in Seq(Commands)
      /\ \A i \in DOMAIN gate.text : i # 1 =>
            i - 1 \in DOMAIN Tail(gate.text) /\ Tail(gate.text)[i - 1] = gate.text[i]
  BY <1>1, Elements
<1>. HIDE DEF cmd
<1>3. ASSUME NEW n \in Nat, NEW inner \in within[n][Head(gate.inputs)]
      PROVE  Reached(n, inner)
  BY <1>1, <1>3 DEF GateInv, NothingIsLost
<1>4. CASE cmd.script = NoScript
  <2>1. gate' = [gate EXCEPT !.text = Tail(@), !.commands = Append(@, cmd)]
    BY <1>1, <1>4
  <2>2. /\ Append(gate.commands, cmd) \in Seq(Commands)
        /\ DOMAIN Append(gate.commands, cmd) = DOMAIN gate.commands \cup {Len(gate.commands) + 1}
        /\ Append(gate.commands, cmd)[Len(gate.commands) + 1] = cmd
        /\ \A i \in DOMAIN gate.commands : Append(gate.commands, cmd)[i] = gate.commands[i]
    BY <1>1, <1>2, Elements
  <2>3. GateTypes'
    BY <1>1, <1>2, <2>1, <2>2 DEF GateTypes
  <2>4. /\ gate'.pc = "parse" /\ gate'.stack = gate.stack /\ gate'.depth = gate.depth
        /\ gate'.text = Tail(gate.text) /\ gate'.inputs = gate.inputs
        /\ gate'.commands = Append(gate.commands, cmd) /\ gate'.authorized = gate.authorized
    BY <1>1, <2>1 DEF GateTypes
  <2>5. ASSUME NEW n \in Nat, NEW inner \in within[n][Head(gate.inputs)]
        PROVE  Reached(n, inner)'
    <3>1. CASE n <= MAX_SCRIPT_DEPTH /\ CommandsFound(inner)
      <4>1. cmd \in ToSet(gate'.commands) /\ ToSet(gate.commands) \subseteq ToSet(gate'.commands)
        BY <2>2, <2>4 DEF ToSet
      <4>2. \A i \in DOMAIN gate.text : i # 1 =>
               \E j \in DOMAIN gate'.text : gate'.text[j] = gate.text[i]
        BY <1>2, <2>4
      <4>3. CommandsFound(inner)'
        BY <1>2, <3>1, <4>1, <4>2 DEF CommandsFound
      <4>. QED BY <3>1, <4>3 DEF Reached
    <3>2. CASE OnStack(n, inner)
      <4>1. OnStack(n, inner)'
        BY <2>4, <3>2 DEF OnStack
      <4>. QED BY <4>1 DEF Reached
    <3>3. CASE InText(n, inner)
      <4>1. InText(n, inner)'
        BY <1>2, <1>4, <2>4, <3>3 DEF InText
      <4>. QED BY <4>1 DEF Reached
    <3>. QED BY <1>3, <3>1, <3>2, <3>3 DEF Reached
  <2>. QED BY <1>1, <2>3, <2>4, <2>5
       DEF GateInv, NothingIsLost, AllowedIsSafe, AuthorizedRunsOnlyAllowed
<1>5. CASE cmd.script # NoScript
  <2>1. gate' = [gate EXCEPT !.text = Tail(@), !.stack = Append(@, item)]
    BY <1>1, <1>5
  <2>2. item \in Items /\ item.script = cmd.script /\ item.depth = gate.depth + 1
    BY <1>1, <1>2, <1>5, ScriptsAssumption DEF Items
  <2>. HIDE DEF item
  <2>3. /\ Append(gate.stack, item) \in Seq(Items)
        /\ DOMAIN Append(gate.stack, item) = DOMAIN gate.stack \cup {Len(gate.stack) + 1}
        /\ Append(gate.stack, item)[Len(gate.stack) + 1] = item
        /\ \A i \in DOMAIN gate.stack : Append(gate.stack, item)[i] = gate.stack[i]
    BY <1>1, <2>2, Elements
  <2>4. GateTypes'
    BY <1>1, <1>2, <2>1, <2>3 DEF GateTypes
  <2>5. /\ gate'.pc = "parse" /\ gate'.stack = Append(gate.stack, item)
        /\ gate'.depth = gate.depth /\ gate'.text = Tail(gate.text)
        /\ gate'.inputs = gate.inputs /\ gate'.commands = gate.commands
        /\ gate'.authorized = gate.authorized
    BY <1>1, <2>1 DEF GateTypes
  <2>6. ASSUME NEW n \in Nat, NEW inner \in within[n][Head(gate.inputs)]
        PROVE  Reached(n, inner)'
    <3>1. CASE n <= MAX_SCRIPT_DEPTH /\ CommandsFound(inner)
      <4>1. \A i \in DOMAIN gate.text : i # 1 =>
               \E j \in DOMAIN gate'.text : gate'.text[j] = gate.text[i]
        BY <1>2, <2>5
      <4>2. CommandsFound(inner)'
        BY <1>2, <1>5, <2>5, <3>1, <4>1 DEF CommandsFound
      <4>. QED BY <3>1, <4>2 DEF Reached
    <3>2. CASE OnStack(n, inner)
      <4>1. OnStack(n, inner)'
        BY <2>3, <2>5, <3>2 DEF OnStack
      <4>. QED BY <4>1 DEF Reached
    <3>3. CASE InText(n, inner)
      <4>1. PICK i \in DOMAIN gate.text :
               /\ gate.text[i].script # NoScript
               /\ gate.depth + 1 <= n
               /\ inner \in within[n - (gate.depth + 1)][gate.text[i].script]
        BY <3>3 DEF InText
      <4>2. CASE i = 1
        <5>1. Len(gate.stack) + 1 \in DOMAIN gate'.stack
              /\ gate'.stack[Len(gate.stack) + 1] = item
          BY <2>3, <2>5
        <5>2. OnStack(n, inner)'
          BY <1>2, <2>2, <4>1, <4>2, <5>1 DEF OnStack
        <5>. QED BY <5>2 DEF Reached
      <4>3. CASE i # 1
        <5>1. InText(n, inner)'
          BY <1>2, <2>5, <4>1, <4>3 DEF InText
        <5>. QED BY <5>1 DEF Reached
      <4>. QED BY <4>2, <4>3
    <3>. QED BY <1>3, <3>1, <3>2, <3>3 DEF Reached
  <2>. QED BY <1>1, <2>4, <2>5, <2>6
       DEF GateInv, NothingIsLost, AllowedIsSafe, AuthorizedRunsOnlyAllowed
<1>. QED BY <1>4, <1>5

\* The strictest of some verdicts is one of them, or what there is without any, and
\* Allow only if all are.
LEMMA StrictestVerdict ==
  ASSUME NEW n \in Nat, NEW verdicts \in [1 .. n -> {Allow, Prompt, Deny}]
  PROVE  /\ strictest(verdicts, Prompt) \in {Allow, Prompt, Deny}
         /\ strictest(verdicts, Prompt) = Allow => \A i \in 1 .. n : verdicts[i] = Allow
<1>1. CASE verdicts = <<>>
  BY <1>1 DEF strictest, Allow, Prompt, Deny
<1>2. CASE verdicts # <<>>
  <2>. DEFINE V == {verdicts[i] : i \in DOMAIN verdicts}
  <2>1. V \subseteq {Allow, Prompt, Deny} /\ V # {}
    <3>1. 1 .. n # {}
      <4>. DEFINE W == {Allow, Prompt, Deny}
      <4>. HIDE DEF W
      <4>1. verdicts \in Seq(W) /\ Len(verdicts) = n
        <5>1. verdicts \in [1 .. n -> W]
          BY DEF W
        <5>. QED BY <5>1
      <4>2. n # 0
        BY <1>2, <4>1
      <4>3. 1 \in 1 .. n
        BY <4>2
      <4>. QED BY <4>3
    <3>. QED BY <3>1
  <2>2. \A i \in 1 .. n : verdicts[i] \in V
    OBVIOUS
  <2>3. strictest(verdicts, Prompt) = Max(V)
    BY <1>2 DEF strictest
  <2>. HIDE DEF V
  <2>4. \E x \in V : \A y \in V : x >= y
    <3>1. V \subseteq {0, 1, 2} /\ V # {}
      BY <2>1 DEF Allow, Prompt, Deny
    <3>2. CASE 2 \in V
      BY <3>1, <3>2
    <3>3. CASE 2 \notin V /\ 1 \in V
      <4>1. V \subseteq {0, 1}
        BY <3>1, <3>3
      <4>. QED BY <3>3, <4>1
    <3>4. CASE 2 \notin V /\ 1 \notin V
      <4>1. V = {0}
        BY <3>1, <3>4
      <4>. QED BY <4>1
    <3>. QED BY <3>2, <3>3, <3>4
  <2>5. Max(V) \in V /\ \A y \in V : Max(V) >= y
    <3>. DEFINE IsMax(x) == x \in V /\ \A y \in V : x >= y
    <3>1. \E x : IsMax(x)
      BY <2>4
    <3>2. Max(V) = CHOOSE x \in V : \A y \in V : x >= y
      BY DEF Max
    <3>3. IsMax(Max(V))
      BY <2>4, <3>2, Zenon
    <3>. QED BY <3>3
  <2>6. Max(V) = Allow => \A y \in V : y = Allow
    BY <2>1, <2>5 DEF Allow, Prompt, Deny
  <2>. QED BY <2>1, <2>2, <2>3, <2>5, <2>6
<1>. QED BY <1>1, <1>2

\* With nothing left to walk, all there is was collected.
LEMMA StepResolveInput == GateInv /\ ResolveInput => GateInv'
<1>. SUFFICES ASSUME GateInv, ResolveInput PROVE GateInv'
  OBVIOUS
<1>. DEFINE verdicts == [i \in DOMAIN gate.commands |->
                            resolve_command(gate.commands[i], Prompt)]
            given_ == strictest(verdicts, Prompt)
<1>1. /\ GateTypes /\ AuthorizedRunsOnlyAllowed /\ gate.pc = "parse"
      /\ gate.text = <<>> /\ gate.stack = <<>> /\ gate.commands \in Seq(Commands)
      /\ gate.inputs \in Seq(Scripts) /\ gate.inputs # <<>>
      /\ gate' = [gate EXCEPT !.pc = "verdict", !.verdict = given_]
  BY DEF GateInv, ResolveInput, GateTypes
<1>2. /\ Len(gate.commands) \in Nat
      /\ verdicts \in [1 .. Len(gate.commands) -> {Allow, Prompt, Deny}]
  BY <1>1, VerdictOfCommand
<1>3. /\ given_ \in {Allow, Prompt, Deny}
      /\ given_ = Allow => \A i \in 1 .. Len(gate.commands) : verdicts[i] = Allow
  <2>. HIDE DEF verdicts
  <2>. QED BY <1>2, StrictestVerdict
<1>4. given_ = Allow => \A cmd \in ToSet(gate.commands) : resolve_command(cmd, Prompt) = Allow
  <2>1. DOMAIN gate.commands = 1 .. Len(gate.commands)
    BY <1>1
  <2>2. \A i \in DOMAIN gate.commands :
           verdicts[i] = resolve_command(gate.commands[i], Prompt)
    OBVIOUS
  <2>. HIDE DEF verdicts, given_
  <2>. QED BY <1>3, <2>1, <2>2 DEF ToSet
<1>. HIDE DEF verdicts, given_
<1>5. GateTypes'
  BY <1>1, <1>3 DEF GateTypes
<1>6. /\ gate'.pc = "verdict" /\ gate'.verdict = given_ /\ gate'.inputs = gate.inputs
      /\ gate'.authorized = gate.authorized
  BY <1>1 DEF GateTypes
<1>7. ASSUME given_ = Allow PROVE RunsOnlyAllowed(Head(gate.inputs))
  <2>1. ASSUME NEW n \in Nat, NEW inner \in within[n][Head(gate.inputs)]
        PROVE  /\ n <= MAX_SCRIPT_DEPTH
               /\ \A cmd \in ToSet(ScriptText[inner]) :
                     cmd.script = NoScript => cmd \in ToSet(gate.commands)
    <3>1. Reached(n, inner)
      BY <1>1, <2>1 DEF GateInv, NothingIsLost
    <3>2. ~OnStack(n, inner) /\ ~InText(n, inner)
      BY <1>1 DEF OnStack, InText
    <3>3. n <= MAX_SCRIPT_DEPTH /\ CommandsFound(inner)
      BY <3>1, <3>2 DEF Reached
    <3>. QED BY <1>1, <3>3 DEF CommandsFound
  <2>2. within[MAX_SCRIPT_DEPTH + 1][Head(gate.inputs)] = {}
    <3>1. MAX_SCRIPT_DEPTH \in Nat /\ MAX_SCRIPT_DEPTH + 1 \in Nat
          /\ ~(MAX_SCRIPT_DEPTH + 1 <= MAX_SCRIPT_DEPTH)
      BY ScriptsAssumption
    <3>. QED BY <2>1, <3>1
  <2>3. 0 .. MAX_SCRIPT_DEPTH \subseteq Nat
    BY ScriptsAssumption
  <2>4. \A n \in 0 .. MAX_SCRIPT_DEPTH : \A inner \in within[n][Head(gate.inputs)] :
           \A cmd \in ToSet(ScriptText[inner]) :
              cmd.script = NoScript => resolve_command(cmd, Prompt) = Allow
    BY <1>4, <1>7, <2>1, <2>3
  <2>. QED BY <2>2, <2>4 DEF RunsOnlyAllowed
<1>. QED BY <1>1, <1>5, <1>6, <1>7
     DEF GateInv, NothingIsLost, AllowedIsSafe, AuthorizedRunsOnlyAllowed

LEMMA StepTooDeep == GateInv /\ TooDeep => GateInv'
<1>. SUFFICES ASSUME GateInv, TooDeep PROVE GateInv'
  OBVIOUS
<1>1. /\ GateTypes /\ AuthorizedRunsOnlyAllowed /\ gate.pc = "parse"
      /\ gate' = [gate EXCEPT !.pc = "verdict", !.verdict = Prompt]
  BY DEF GateInv, TooDeep, clamp_failure_closed
<1>2. /\ gate'.pc = "verdict" /\ gate'.verdict = Prompt
      /\ gate'.authorized = gate.authorized
  BY <1>1 DEF GateTypes
<1>3. GateTypes'
  BY <1>1 DEF GateTypes
<1>. QED BY <1>1, <1>2, <1>3
     DEF GateInv, NothingIsLost, AllowedIsSafe, AuthorizedRunsOnlyAllowed, Allow, Prompt

LEMMA StepActOnVerdict == GateInv /\ ActOnVerdict => GateInv'
<1>. SUFFICES ASSUME GateInv, ActOnVerdict PROVE GateInv'
  OBVIOUS
<1>1. /\ GateTypes /\ AuthorizedRunsOnlyAllowed /\ gate.pc = "verdict"
      /\ gate.inputs \in Seq(Scripts) /\ gate.inputs # <<>>
      /\ gate.authorized \in Seq(Scripts)
  BY DEF GateInv, ActOnVerdict, GateTypes
<1>2. CASE gate.verdict = Allow
  <2>. DEFINE s == Head(gate.inputs)
  <2>1. gate' = [gate EXCEPT !.pc = "next", !.inputs = Tail(@), !.authorized = Append(@, s)]
    BY <1>2 DEF ActOnVerdict
  <2>2. s \in Scripts /\ Tail(gate.inputs) \in Seq(Scripts) /\ RunsOnlyAllowed(s)
    BY <1>1, <1>2 DEF GateInv, AllowedIsSafe
  <2>. HIDE DEF s
  <2>3. /\ Append(gate.authorized, s) \in Seq(Scripts)
        /\ DOMAIN Append(gate.authorized, s)
             = DOMAIN gate.authorized \cup {Len(gate.authorized) + 1}
        /\ Append(gate.authorized, s)[Len(gate.authorized) + 1] = s
        /\ \A i \in DOMAIN gate.authorized :
              Append(gate.authorized, s)[i] = gate.authorized[i]
    BY <1>1, <2>2, Elements
  <2>4. GateTypes' /\ gate'.pc = "next" /\ gate'.authorized = Append(gate.authorized, s)
    BY <1>1, <2>1, <2>2, <2>3 DEF GateTypes
  <2>5. AuthorizedRunsOnlyAllowed'
    BY <1>1, <2>2, <2>3, <2>4 DEF AuthorizedRunsOnlyAllowed
  <2>. QED BY <2>4, <2>5 DEF GateInv, NothingIsLost, AllowedIsSafe
<1>3. CASE gate.verdict # Allow
  <2>1. PICK r \in {"DeniedByApprovalGate", "PromptRequiredButNonInteractive"} :
           gate' = [gate EXCEPT !.pc = "done", !.result = r]
    BY <1>3 DEF ActOnVerdict
  <2>2. GateTypes' /\ gate'.pc = "done" /\ gate'.authorized = gate.authorized
    BY <1>1, <2>1 DEF GateTypes
  <2>. QED BY <1>1, <2>2
       DEF GateInv, NothingIsLost, AllowedIsSafe, AuthorizedRunsOnlyAllowed
<1>. QED BY <1>2, <1>3

\* What is authorized runs only commands the policy allows, for every policy, depth and
\* set of scripts.
THEOREM AuthorizedIsAllowed == GateSpec => []AuthorizedRunsOnlyAllowed
<1>1. GateInv /\ [GateNext]_gate => GateInv'
  <2>1. ASSUME GateInv, UNCHANGED gate PROVE GateInv'
    BY <2>1
       DEF GateInv, GateTypes, NothingIsLost, AllowedIsSafe, AuthorizedRunsOnlyAllowed,
           Reached, CommandsFound, OnStack, InText
  <2>. QED BY <2>1, StepNextInput, StepWalkScript, StepFindCommand, StepTooDeep,
              StepResolveInput, StepActOnVerdict DEF GateNext
<1>2. GateInv => AuthorizedRunsOnlyAllowed
  BY DEF GateInv
<1>. QED BY InitGate, <1>1, <1>2, PTL DEF GateSpec

----------------------------------------------------------------------------
(* The line of the terminal *)

ByteSeqs == Seq(Bytes)
Lines == Seq(ByteSeqs)

\* To replace the last of a sequence behind another is to replace it in its own.
LEMMA LastReplaced ==
  ASSUME NEW S, NEW x \in Seq(S), NEW y \in Seq(S), NEW z \in S, x # <<>>
  PROVE  [y \o x EXCEPT ![Len(y) + Len(x)] = z] = y \o [x EXCEPT ![Len(x)] = z]
<1>. DEFINE m == Len(y)
            l == Len(x)
            w == [x EXCEPT ![l] = z]
            t == y \o x
            a == [t EXCEPT ![m + l] = z]
            b == y \o w
<1>1. m \in Nat /\ l \in Nat /\ l >= 1 /\ DOMAIN x = 1 .. l /\ DOMAIN y = 1 .. m
  OBVIOUS
<1>2. w \in Seq(S) /\ Len(w) = l /\ w[l] = z /\ \A i \in 1 .. l : i # l => w[i] = x[i]
  OBVIOUS
<1>. HIDE DEF w
<1>3. t \in Seq(S) /\ Len(t) = m + l /\ DOMAIN t = 1 .. m + l
  OBVIOUS
<1>4. /\ \A i \in 1 .. m + l : i <= m => t[i] = y[i]
      /\ \A i \in 1 .. m + l : i > m => t[i] = x[i - m]
  OBVIOUS
<1>5. b \in Seq(S) /\ Len(b) = m + l
  BY <1>2
<1>6. /\ \A i \in 1 .. m + l : i <= m => b[i] = y[i]
      /\ \A i \in 1 .. m + l : i > m => b[i] = w[i - m]
  BY <1>2
<1>. HIDE DEF m, l, t, b
<1>7. a \in Seq(S) /\ Len(a) = m + l
  BY <1>1, <1>3
<1>8. \A i \in 1 .. m + l : a[i] = IF i = m + l THEN z ELSE t[i]
  BY <1>3
<1>. HIDE DEF a
<1>9. ASSUME NEW i \in 1 .. m + l PROVE a[i] = b[i]
  <2>1. CASE i <= m
    <3>1. i # m + l
      BY <1>1, <2>1
    <3>. QED BY <1>4, <1>6, <1>8, <2>1, <3>1
  <2>2. CASE i > m /\ i # m + l
    <3>1. i - m \in 1 .. l /\ i - m # l
      BY <1>1, <2>2
    <3>. QED BY <1>2, <1>4, <1>6, <1>8, <2>2, <3>1
  <2>3. CASE i = m + l
    <3>1. i - m = l /\ i > m
      BY <1>1, <2>3
    <3>. QED BY <1>2, <1>6, <1>8, <2>3, <3>1
  <2>. QED BY <1>1, <2>1, <2>2, <2>3
<1>10. a = b
  BY <1>1, <1>5, <1>7, <1>9
<1>. QED BY <1>10 DEF a, b, m, l, t, w

\* What a byte does to the characters that are there.
LEMMA WithByte ==
  ASSUME NEW x \in Lines, NEW byte \in Bytes
  PROVE  /\ with_byte(x, byte) \in Lines /\ with_byte(x, byte) # <<>>
         /\ byte \notin Continuation => with_byte(x, byte) = Append(x, <<byte>>)
         /\ \A y \in Lines : (byte \notin Continuation \/ x # <<>>) =>
               with_byte(y \o x, byte) = y \o with_byte(x, byte)
<1>1. <<byte>> \in ByteSeqs
  BY DEF ByteSeqs
<1>2. CASE byte \in Continuation /\ x # <<>>
  <2>. DEFINE l == Len(x)
              z == Append(x[l], byte)
  <2>1. /\ l \in Nat /\ l \in 1 .. Len(x) /\ x[l] \in ByteSeqs /\ DOMAIN x = 1 .. l
        /\ x = [i \in 1 .. l |-> x[i]]
    BY <1>2 DEF Lines
  <2>2. z \in ByteSeqs
    BY <2>1 DEF ByteSeqs
  <2>3. with_byte(x, byte) = [x EXCEPT ![l] = z]
    BY <1>2 DEF with_byte
  <2>. HIDE DEF z
  <2>4. /\ [x EXCEPT ![l] = z] \in Lines /\ [x EXCEPT ![l] = z] # <<>>
        /\ Len([x EXCEPT ![l] = z]) = l
    BY <2>1, <2>2 DEF Lines
  <2>5. ASSUME NEW y \in Lines
        PROVE  with_byte(y \o x, byte) = y \o with_byte(x, byte)
    <3>1. /\ y \o x \in Lines /\ y \o x # <<>> /\ Len(y \o x) = Len(y) + l
          /\ Len(y) \in Nat /\ (y \o x)[Len(y) + l] = x[l]
          /\ \A i \in 1 .. Len(y) : (y \o x)[i] = y[i]
          /\ \A i \in 1 .. l : (y \o x)[Len(y) + i] = x[i]
      BY <1>2, <2>1 DEF Lines
    <3>2. with_byte(y \o x, byte) = [y \o x EXCEPT ![Len(y) + l] = z]
      <4>1. with_byte(y \o x, byte)
              = [y \o x EXCEPT ![Len(y \o x)] = Append((y \o x)[Len(y \o x)], byte)]
        BY <1>2, <3>1 DEF with_byte
      <4>. QED BY <3>1, <4>1 DEF z
    <3>3. [y \o x EXCEPT ![Len(y) + l] = z] = y \o [x EXCEPT ![l] = z]
      <4>1. x \in Seq(ByteSeqs) /\ y \in Seq(ByteSeqs)
        BY <2>5 DEF Lines
      <4>2. x # <<>>
        BY <1>2
      <4>. QED BY <2>2, <4>1, <4>2, LastReplaced
    <3>. QED BY <2>3, <3>2, <3>3
  <2>. QED BY <1>2, <2>3, <2>4, <2>5
<1>3. CASE ~(byte \in Continuation /\ x # <<>>)
  <2>1. with_byte(x, byte) = Append(x, <<byte>>)
    BY <1>3 DEF with_byte
  <2>2. ASSUME NEW c \in ByteSeqs, NEW y \in Lines
        PROVE  /\ Append(x, c) \in Lines /\ Append(x, c) # <<>>
               /\ Append(y \o x, c) = y \o Append(x, c)
    BY DEF Lines
  <2>3. ASSUME NEW y \in Lines, byte \notin Continuation
        PROVE  with_byte(y \o x, byte) = y \o with_byte(x, byte)
    <3>1. with_byte(y \o x, byte) = Append(y \o x, <<byte>>)
      BY <2>3 DEF with_byte
    <3>2. Append(y \o x, <<byte>>) = y \o Append(x, <<byte>>)
      BY <1>1, <2>2
    <3>. QED BY <2>1, <3>1, <3>2
  <2>4. Append(x, <<byte>>) \in Lines /\ Append(x, <<byte>>) # <<>>
    BY <1>1, <2>2
  <2>. QED BY <1>3, <2>1, <2>3, <2>4
<1>. QED BY <1>2, <1>3

\* The characters of the first bytes, one more byte at a time.
Decodes(u, s) ==
  /\ u \in [0 .. Len(s) -> Lines]
  /\ u[0] = <<>>
  /\ \A i \in 1 .. Len(s) : u[i] = with_byte(u[i - 1], s[i])

LEMMA DecodedStepwise ==
  ASSUME NEW s \in ByteSeqs
  PROVE  \E u : Decodes(u, s) /\ decoded(s) = u[Len(s)]
<1>. DEFINE U == Nat \X Lines
            next_(p) == IF p[1] + 1 \in DOMAIN s
                        THEN <<p[1] + 1, with_byte(p[2], s[p[1] + 1])>>
                        ELSE <<p[1] + 1, p[2]>>
            D == [p \in U |-> next_(p)]
            Steps(u) == u = [i \in 0 .. Len(s) |->
                               IF i = 0 THEN <<>> ELSE with_byte(u[i - 1], s[i])]
<1>1. DOMAIN s = 1 .. Len(s) /\ Len(s) \in Nat /\ \A i \in 1 .. Len(s) : s[i] \in Bytes
  BY DEF ByteSeqs
<1>2. PICK f \in [Nat -> U] : f[0] = <<0, <<>>>> /\ \A n \in Nat : f[n + 1] = D[f[n]]
  <2>1. <<0, <<>>>> \in U
    <3>. <<>> \in Lines
      BY DEF Lines
    <3>. QED OBVIOUS
  <2>2. D \in [U -> U]
    <3>1. ASSUME NEW p \in U PROVE next_(p) \in U
      <4>1. CASE p[1] + 1 \in DOMAIN s
        <5>1. with_byte(p[2], s[p[1] + 1]) \in Lines
          BY <1>1, <3>1, <4>1, WithByte
        <5>. QED BY <3>1, <4>1, <5>1
      <4>2. CASE p[1] + 1 \notin DOMAIN s
        BY <3>1, <4>2
      <4>. QED BY <4>1, <4>2
    <3>. HIDE DEF next_, U
    <3>. QED BY <3>1
  <2>. HIDE DEF D, U
  <2>3. Iterates(U, D, <<0, <<>>>>)
    BY <2>1, <2>2, PrimitiveRecursion
  <2>. QED BY <2>3 DEF Iterates
<1>3. \A n \in Nat : f[n][1] = n
  <2>. DEFINE S == {n \in Nat : f[n][1] = n}
  <2>1. 0 \in S
    BY <1>2
  <2>2. ASSUME NEW n \in Nat, n \in S PROVE n + 1 \in S
    <3>1. f[n + 1] = next_(f[n])
      BY <1>2
    <3>. QED BY <2>2, <3>1
  <2>3. Nat \subseteq S
    <3>. HIDE DEF S
    <3>. QED BY <2>1, <2>2, Inductive
  <2>. QED BY <2>3
<1>. DEFINE u == [i \in 0 .. Len(s) |-> f[i][2]]
<1>4. Decodes(u, s)
  <2>1. u \in [0 .. Len(s) -> Lines]
    BY <1>1, <1>2
  <2>2. u[0] = <<>>
    BY <1>1, <1>2
  <2>3. ASSUME NEW i \in 1 .. Len(s) PROVE u[i] = with_byte(u[i - 1], s[i])
    <3>1. i - 1 \in Nat /\ (i - 1) + 1 = i /\ i \in DOMAIN s /\ i \in 0 .. Len(s)
          /\ i - 1 \in 0 .. Len(s)
      BY <1>1
    <3>2. f[i] = next_(f[i - 1])
      <4>1. f[(i - 1) + 1] = D[f[i - 1]] /\ f[i - 1] \in U
        BY <1>2, <3>1
      <4>. QED BY <3>1, <4>1
    <3>3. f[i - 1][1] = i - 1
      BY <1>3, <3>1
    <3>4. f[i] = <<i, with_byte(f[i - 1][2], s[i])>>
      BY <3>1, <3>2, <3>3
    <3>. QED BY <3>1, <3>4
  <2>. HIDE DEF u
  <2>. QED BY <2>1, <2>2, <2>3 DEF Decodes
<1>. HIDE DEF u
<1>5. Steps(u)
  <2>1. ASSUME NEW i \in 0 .. Len(s)
        PROVE  u[i] = IF i = 0 THEN <<>> ELSE with_byte(u[i - 1], s[i])
    BY <1>1, <1>4 DEF Decodes
  <2>2. u = [i \in 0 .. Len(s) |-> u[i]]
    BY <1>4 DEF Decodes
  <2>. QED BY <2>1, <2>2
<1>. DEFINE v == CHOOSE u_ : Steps(u_)
<1>6. decoded(s) = v[Len(s)]
  BY DEF decoded
<1>7. Steps(v)
  <2>. HIDE DEF Steps
  <2>. QED BY <1>5
<1>8. PICK w : w = v
  OBVIOUS
<1>9. Steps(w)
  <2>. HIDE DEF Steps, v
  <2>. QED BY <1>7, <1>8
<1>. HIDE DEF v
<1>10. \A i \in 0 .. Len(s) : w[i] = IF i = 0 THEN <<>> ELSE with_byte(w[i - 1], s[i])
  BY <1>9
<1>11. \A i \in Nat : i <= Len(s) => w[i] = u[i]
  <2>. DEFINE S == {i \in Nat : i <= Len(s) => w[i] = u[i]}
  <2>1. 0 \in S
    <3>1. 0 \in 0 .. Len(s)
      BY <1>1
    <3>2. w[0] = <<>>
      BY <1>10, <3>1
    <3>3. u[0] = <<>>
      BY <1>4 DEF Decodes
    <3>. QED BY <3>2, <3>3
  <2>2. ASSUME NEW i \in Nat, i \in S PROVE i + 1 \in S
    <3>1. CASE i + 1 <= Len(s)
      <4>1. Len(s) \in Nat
        BY <1>1
      <4>2. /\ i + 1 \in 0 .. Len(s) /\ i + 1 \in 1 .. Len(s) /\ i + 1 # 0 /\ i <= Len(s)
            /\ (i + 1) - 1 = i
        BY <3>1, <4>1
      <4>3. u[i + 1] = with_byte(u[i], s[i + 1])
        BY <1>4, <4>2 DEF Decodes
      <4>4. w[i + 1] = IF i + 1 = 0 THEN <<>> ELSE with_byte(w[(i + 1) - 1], s[i + 1])
        BY <1>10, <4>2
      <4>5. w[i] = u[i]
        BY <2>2, <4>2
      <4>. QED BY <4>2, <4>3, <4>4, <4>5
    <3>2. CASE ~(i + 1 <= Len(s))
      <4>1. i + 1 \in Nat /\ (i + 1 <= Len(s) => w[i + 1] = u[i + 1])
        BY <3>2
      <4>. HIDE DEF Steps, D, next_, U
      <4>. QED BY <4>1
    <3>. QED BY <3>1, <3>2
  <2>3. Nat \subseteq S
    <3>. HIDE DEF S
    <3>. QED BY <2>1, <2>2, Inductive
  <2>. QED BY <2>3
<1>12. decoded(s) = u[Len(s)]
  BY <1>1, <1>6, <1>8, <1>11
<1>. QED BY <1>4, <1>12

\* A text that begins with a character, if it begins at all.
Whole(s) == s \in ByteSeqs /\ (s # <<>> => s[1] \notin Continuation)

LEMMA DecodedIsLine ==
  ASSUME NEW s \in ByteSeqs
  PROVE  decoded(s) \in Lines /\ (s = <<>> => decoded(s) = <<>>)
<1>1. PICK u : Decodes(u, s) /\ decoded(s) = u[Len(s)]
  BY DecodedStepwise
<1>2. Len(s) \in 0 .. Len(s) /\ (s = <<>> => Len(s) = 0)
  BY DEF ByteSeqs
<1>. QED BY <1>1, <1>2 DEF Decodes

\* Decoding goes from character to character: what follows does not change what was.
LEMMA DecodedJoined ==
  ASSUME NEW s \in ByteSeqs, NEW t, Whole(t)
  PROVE  decoded(s \o t) = decoded(s) \o decoded(t)
<1>. DEFINE l == Len(s)
            m == Len(t)
            r == s \o t
<1>1. /\ l \in Nat /\ m \in Nat /\ t \in ByteSeqs /\ r \in ByteSeqs /\ Len(r) = l + m
      /\ \A i \in 1 .. l : r[i] = s[i]
      /\ \A i \in 1 .. m : r[l + i] = t[i] /\ t[i] \in Bytes
  BY DEF Whole, ByteSeqs
<1>2. PICK u : Decodes(u, s) /\ decoded(s) = u[l]
  BY DecodedStepwise
<1>3. PICK v : Decodes(v, t) /\ decoded(t) = v[m]
  BY <1>1, DecodedStepwise
<1>4. PICK w : Decodes(w, r) /\ decoded(r) = w[l + m]
  BY <1>1, DecodedStepwise
<1>5. m >= 1 => t[1] \notin Continuation
  BY <1>1 DEF Whole, ByteSeqs
<1>. HIDE DEF l, m, r
<1>6. /\ u[0] = <<>> /\ \A i \in 1 .. l : u[i] = with_byte(u[i - 1], s[i])
      /\ \A i \in 0 .. l : u[i] \in Lines
  BY <1>2 DEF Decodes, l
<1>7. /\ v[0] = <<>> /\ \A i \in 1 .. m : v[i] = with_byte(v[i - 1], t[i])
      /\ \A i \in 0 .. m : v[i] \in Lines
  BY <1>3 DEF Decodes, m
<1>8. /\ w[0] = <<>> /\ \A i \in 1 .. l + m : w[i] = with_byte(w[i - 1], r[i])
  BY <1>1, <1>4 DEF Decodes
<1>9. \A i \in Nat : i <= l => w[i] = u[i]
  <2>. DEFINE S == {i \in Nat : i <= l => w[i] = u[i]}
  <2>1. 0 \in S
    BY <1>6, <1>8
  <2>2. ASSUME NEW i \in Nat, i \in S PROVE i + 1 \in S
    <3>1. CASE i + 1 <= l
      <4>1. i + 1 \in 1 .. l /\ i + 1 \in 1 .. l + m /\ (i + 1) - 1 = i /\ i <= l
        BY <1>1, <3>1
      <4>2. w[i + 1] = with_byte(w[i], r[i + 1]) /\ u[i + 1] = with_byte(u[i], s[i + 1])
        BY <1>6, <1>8, <4>1
      <4>3. r[i + 1] = s[i + 1]
        BY <1>1, <4>1
      <4>4. w[i] = u[i]
        BY <2>2, <4>1
      <4>. QED BY <4>2, <4>3, <4>4
    <3>2. CASE ~(i + 1 <= l)
      BY <1>1, <3>2
    <3>. QED BY <3>1, <3>2
  <2>3. Nat \subseteq S
    <3>. HIDE DEF S
    <3>. QED BY <2>1, <2>2, Inductive
  <2>. QED BY <2>3
<1>. DEFINE Behind(i) == w[l + i] = u[l] \o v[i] /\ (i # 0 => v[i] # <<>>)
<1>10. \A i \in Nat : i <= m => Behind(i)
  <2>. DEFINE S == {i \in Nat : i <= m => Behind(i)}
  <2>1. 0 \in S
    <3>1. w[l + 0] = u[l] /\ u[l] \in Lines
      BY <1>1, <1>6, <1>9
    <3>2. u[l] \o <<>> = u[l]
      BY <3>1 DEF Lines
    <3>3. Behind(0)
      BY <1>7, <3>1, <3>2
    <3>. HIDE DEF Behind
    <3>. QED BY <3>3
  <2>2. ASSUME NEW i \in Nat, i \in S PROVE i + 1 \in S
    <3>1. CASE i + 1 <= m
      <4>1. /\ i + 1 \in 1 .. m /\ l + (i + 1) \in 1 .. l + m /\ (i + 1) - 1 = i /\ i <= m
            /\ (l + (i + 1)) - 1 = l + i /\ i \in 0 .. m /\ l \in 0 .. l
        BY <1>1, <3>1
      <4>2. /\ w[l + (i + 1)] = with_byte(w[l + i], r[l + (i + 1)])
            /\ v[i + 1] = with_byte(v[i], t[i + 1])
            /\ v[i] \in Lines /\ u[l] \in Lines
        BY <1>6, <1>7, <1>8, <4>1
      <4>3. r[l + (i + 1)] = t[i + 1] /\ t[i + 1] \in Bytes
        BY <1>1, <4>1
      <4>4. w[l + i] = u[l] \o v[i] /\ (i # 0 => v[i] # <<>>)
        <5>1. Behind(i)
          <6>. HIDE DEF Behind
          <6>. QED BY <2>2, <4>1
        <5>. QED BY <5>1
      <4>5. t[i + 1] \notin Continuation \/ v[i] # <<>>
        <5>1. CASE i = 0
          BY <1>1, <1>5, <3>1, <5>1
        <5>. QED BY <4>4, <5>1
      <4>6. /\ with_byte(u[l] \o v[i], t[i + 1]) = u[l] \o with_byte(v[i], t[i + 1])
            /\ with_byte(v[i], t[i + 1]) # <<>>
        BY <4>2, <4>3, <4>5, WithByte
      <4>7. w[l + (i + 1)] = u[l] \o v[i + 1] /\ v[i + 1] # <<>>
        BY <4>2, <4>3, <4>4, <4>6
      <4>8. Behind(i + 1)
        BY <4>7
      <4>. HIDE DEF Behind
      <4>. QED BY <4>8
    <3>2. CASE ~(i + 1 <= m)
      <4>. HIDE DEF Behind
      <4>. QED BY <1>1, <3>2
    <3>. QED BY <3>1, <3>2
  <2>3. Nat \subseteq S
    <3>. HIDE DEF S
    <3>. QED BY <2>1, <2>2, Inductive
  <2>. HIDE DEF Behind
  <2>. QED BY <2>3
<1>11. decoded(r) = decoded(s) \o decoded(t)
  <2>1. Behind(m)
    <3>. HIDE DEF Behind
    <3>. QED BY <1>1, <1>10
  <2>. QED BY <1>2, <1>3, <1>4, <2>1
<1>. QED BY <1>11 DEF r

\* A byte that begins a character and bytes that go on with it.
IsCharacter(c) ==
  c \in ByteSeqs /\ c # <<>> /\ \A i \in DOMAIN c : c[i] \in Continuation <=> i # 1

LEMMA CharacterDecodes ==
  ASSUME NEW c, IsCharacter(c)
  PROVE  Whole(c) /\ decoded(c) = <<c>>
<1>. DEFINE l == Len(c)
            first(i) == SubSeq(c, 1, i)
<1>1. /\ c \in Seq(Bytes) /\ l \in Nat /\ l >= 1 /\ c # <<>> /\ DOMAIN c = 1 .. l
      /\ c[1] \notin Continuation /\ \A i \in 1 .. l : c[i] \in Bytes
      /\ \A i \in 1 .. l : i # 1 => c[i] \in Continuation
  BY DEF IsCharacter, ByteSeqs
<1>2. Whole(c)
  BY <1>1 DEF Whole, ByteSeqs
<1>3. PICK u : Decodes(u, c) /\ decoded(c) = u[l]
  BY <1>1, DecodedStepwise DEF ByteSeqs
<1>. HIDE DEF l
<1>4. u[0] = <<>> /\ \A i \in 1 .. l : u[i] = with_byte(u[i - 1], c[i])
  BY <1>3 DEF Decodes, l
<1>5. first(1) = <<c[1]>> /\ first(l) = c
  <2>1. first(1) = <<c[1]>>
    <3>1. 1 \in 1 .. Len(c)
      BY <1>1 DEF l
    <3>2. first(1) \in Seq(Bytes) /\ Len(first(1)) = 1 /\ first(1)[1] = c[1]
      BY <1>1, <3>1
    <3>. HIDE DEF first
    <3>. QED BY <3>2
  <2>2. first(l) \in Seq(Bytes) /\ Len(first(l)) = l
    BY <1>1 DEF l
  <2>3. \A i \in 1 .. l : first(l)[i] = c[i]
    BY <1>1 DEF l
  <2>4. Len(c) = l
    BY DEF l
  <2>. HIDE DEF first
  <2>. QED BY <1>1, <2>1, <2>2, <2>3, <2>4
<1>6. \A i \in Nat : 1 <= i /\ i < l =>
        first(i) \in ByteSeqs /\ first(i + 1) = Append(first(i), c[i + 1])
  <2>. SUFFICES ASSUME NEW i \in Nat, 1 <= i, i < l
                PROVE  first(i) \in ByteSeqs /\ first(i + 1) = Append(first(i), c[i + 1])
    OBVIOUS
  <2>. QED BY <1>1 DEF l, ByteSeqs
<1>. HIDE DEF first
<1>7. \A i \in Nat : 1 <= i /\ i <= l => u[i] = <<first(i)>>
  <2>. DEFINE S == {i \in Nat : 1 <= i /\ i <= l => u[i] = <<first(i)>>}
  <2>1. 0 \in S
    OBVIOUS
  <2>2. ASSUME NEW i \in Nat, i \in S PROVE i + 1 \in S
    <3>1. CASE i + 1 <= l /\ i = 0
      <4>1. u[1] = with_byte(<<>>, c[1])
        <5>1. 1 \in 1 .. l /\ 1 - 1 = 0
          BY <1>1
        <5>. QED BY <1>4, <5>1
      <4>2. with_byte(<<>>, c[1]) = <<<<c[1]>>>>
        BY DEF with_byte
      <4>3. u[i + 1] = <<first(i + 1)>>
        BY <1>5, <3>1, <4>1, <4>2
      <4>. QED BY <4>3
    <3>2. CASE i + 1 <= l /\ i # 0
      <4>1. i + 1 \in 1 .. l /\ (i + 1) - 1 = i /\ 1 <= i /\ i < l /\ i <= l /\ i + 1 # 1
        BY <1>1, <3>2
      <4>2. u[i + 1] = with_byte(<<first(i)>>, c[i + 1])
        <5>1. u[i] = <<first(i)>>
          BY <2>2, <4>1
        <5>2. u[i + 1] = with_byte(u[i], c[i + 1])
          BY <1>4, <4>1
        <5>. QED BY <5>1, <5>2
      <4>3. with_byte(<<first(i)>>, c[i + 1]) = <<Append(first(i), c[i + 1])>>
        <5>1. c[i + 1] \in Continuation
          BY <1>1, <4>1
        <5>. DEFINE x == <<first(i)>>
        <5>2. x # <<>> /\ Len(x) = 1 /\ x[1] = first(i)
          OBVIOUS
        <5>3. with_byte(x, c[i + 1]) = [x EXCEPT ![1] = Append(x[1], c[i + 1])]
          BY <5>1, <5>2 DEF with_byte
        <5>. QED BY <5>3
      <4>4. u[i + 1] = <<first(i + 1)>>
        BY <1>6, <4>1, <4>2, <4>3
      <4>. QED BY <4>4
    <3>3. CASE ~(i + 1 <= l)
      BY <1>1, <3>3
    <3>. QED BY <3>1, <3>2, <3>3
  <2>3. Nat \subseteq S
    <3>. HIDE DEF S
    <3>. QED BY <2>1, <2>2, Inductive
  <2>. QED BY <2>3
<1>8. u[l] = <<first(l)>>
  BY <1>1, <1>7
<1>. QED BY <1>2, <1>3, <1>5, <1>8

\* A sequence behind another.
LEMMA OneBehindOther ==
  ASSUME NEW S, NEW x \in Seq(S), NEW y \in Seq(S)
  PROVE  /\ x \o y \in Seq(S) /\ Len(x \o y) = Len(x) + Len(y)
         /\ \A i \in 1 .. Len(x) : (x \o y)[i] = x[i]
         /\ \A i \in 1 .. Len(y) : (x \o y)[Len(x) + i] = y[i]
         /\ \A i \in 1 .. Len(x) + Len(y) : i > Len(x) => (x \o y)[i] = y[i - Len(x)]
         /\ x = <<>> => x \o y = y
         /\ y = <<>> => x \o y = x
  OBVIOUS

LEMMA SameSequence ==
  ASSUME NEW S, NEW x \in Seq(S), NEW y \in Seq(S), Len(x) = Len(y),
         \A i \in 1 .. Len(x) : x[i] = y[i]
  PROVE  x = y
  OBVIOUS

\* A piece of a text.
LEMMA Piece ==
  ASSUME NEW s \in ByteSeqs, NEW a \in Nat, NEW b \in Nat, a <= b, b <= Len(s)
  PROVE  /\ SubSeq(s, a + 1, b) \in ByteSeqs /\ Len(SubSeq(s, a + 1, b)) = b - a
         /\ \A i \in 1 .. b - a : SubSeq(s, a + 1, b)[i] = s[a + i]
<1>1. s \in Seq(Bytes) /\ Len(s) \in Nat /\ \A i \in 1 .. Len(s) : s[i] \in Bytes
  BY DEF ByteSeqs
<1>. QED BY <1>1 DEF ByteSeqs

\* Pieces that lie side by side.
LEMMA SideBySide ==
  ASSUME NEW s \in ByteSeqs, NEW a \in Nat, NEW b \in Nat, NEW c \in Nat,
         a <= b, b <= c, c <= Len(s)
  PROVE  SubSeq(s, a + 1, b) \o SubSeq(s, b + 1, c) = SubSeq(s, a + 1, c)
<1>. DEFINE x == SubSeq(s, a + 1, b)
            y == SubSeq(s, b + 1, c)
            z == SubSeq(s, a + 1, c)
            t == x \o y
<1>1. Len(s) \in Nat /\ a <= c /\ b <= Len(s)
  BY DEF ByteSeqs
<1>2. x \in ByteSeqs /\ Len(x) = b - a /\ \A i \in 1 .. b - a : x[i] = s[a + i]
  BY <1>1, Piece
<1>3. y \in ByteSeqs /\ Len(y) = c - b /\ \A i \in 1 .. c - b : y[i] = s[b + i]
  BY <1>1, Piece
<1>4. z \in ByteSeqs /\ Len(z) = c - a /\ \A i \in 1 .. c - a : z[i] = s[a + i]
  BY <1>1, Piece
<1>. HIDE DEF x, y, z
<1>5. /\ t \in ByteSeqs /\ Len(t) = Len(x) + Len(y)
      /\ \A i \in 1 .. Len(x) : t[i] = x[i]
      /\ \A i \in 1 .. Len(x) + Len(y) : i > Len(x) => t[i] = y[i - Len(x)]
  BY <1>2, <1>3, OneBehindOther DEF ByteSeqs
<1>. HIDE DEF t
<1>6. ASSUME NEW i \in 1 .. c - a PROVE t[i] = z[i]
  <2>1. CASE i <= b - a
    <3>1. i \in 1 .. b - a
      BY <2>1
    <3>2. t[i] = x[i]
      BY <1>2, <1>5, <3>1
    <3>. QED BY <1>2, <1>4, <3>1, <3>2
  <2>2. CASE i > b - a
    <3>1. PICK j \in 1 .. c - b : j = i - (b - a) /\ b + j = a + i
      <4>1. i - (b - a) \in 1 .. c - b /\ b + (i - (b - a)) = a + i
        BY <2>2
      <4>. QED BY <4>1
    <3>2. i \in 1 .. Len(x) + Len(y) /\ i > Len(x) /\ i - Len(x) = j
      BY <1>2, <1>3, <2>2, <3>1
    <3>3. t[i] = y[j]
      BY <1>5, <3>2
    <3>. QED BY <1>3, <1>4, <3>1, <3>3
  <2>. QED BY <2>1, <2>2
<1>7. Len(t) = c - a
  BY <1>2, <1>3, <1>5
<1>8. t = z
  BY <1>4, <1>5, <1>6, <1>7, SameSequence DEF ByteSeqs
<1>. QED BY <1>8 DEF x, y, z, t

\* Two texts that are joined can be taken apart again.
LEMMA TakenApart ==
  ASSUME NEW x \in ByteSeqs, NEW y \in ByteSeqs
  PROVE  /\ x \o y \in ByteSeqs /\ Len(x \o y) = Len(x) + Len(y)
         /\ SubSeq(x \o y, 1, Len(x)) = x
         /\ SubSeq(x \o y, Len(x) + 1, Len(x \o y)) = y
<1>. DEFINE s == x \o y
            l == Len(x)
            m == Len(y)
            u == SubSeq(s, 0 + 1, l)
            v == SubSeq(s, l + 1, l + m)
<1>1. /\ s \in ByteSeqs /\ Len(s) = l + m /\ l \in Nat /\ m \in Nat
      /\ \A i \in 1 .. l : s[i] = x[i]
      /\ \A i \in 1 .. m : s[l + i] = y[i]
  BY OneBehindOther DEF ByteSeqs
<1>. HIDE DEF s
<1>2. /\ u \in ByteSeqs /\ Len(u) = l - 0 /\ \A i \in 1 .. l - 0 : u[i] = s[0 + i]
  <2>. HIDE DEF l, m
  <2>1. 0 \in Nat /\ 0 <= l /\ l <= Len(s)
    BY <1>1
  <2>. QED BY <1>1, <2>1, Piece
<1>3. /\ v \in ByteSeqs /\ Len(v) = (l + m) - l /\ \A i \in 1 .. (l + m) - l : v[i] = s[l + i]
  <2>. HIDE DEF l, m
  <2>1. l + m \in Nat /\ l <= l + m /\ l + m <= Len(s)
    BY <1>1
  <2>. QED BY <1>1, <2>1, Piece
<1>. HIDE DEF u, v
<1>4. u = x
  <2>1. Len(u) = Len(x) /\ \A i \in 1 .. Len(u) : u[i] = x[i]
    BY <1>1, <1>2
  <2>. QED BY <1>2, <2>1, SameSequence DEF ByteSeqs
<1>5. v = y
  <2>1. Len(v) = Len(y) /\ \A i \in 1 .. Len(v) : v[i] = y[i]
    BY <1>1, <1>3
  <2>. QED BY <1>3, <2>1, SameSequence DEF ByteSeqs
<1>. QED BY <1>1, <1>4, <1>5 DEF s, u, v

\* A cursor that parts no character.
Encoded(b, k) ==
  /\ b \in ByteSeqs /\ k \in 0 .. Len(b)
  /\ Whole(SubSeq(b, 1, k)) /\ Whole(SubSeq(b, k + 1, Len(b)))

\* A character between p and k is the last before k and the first behind p.
LEMMA AroundCharacter ==
  ASSUME NEW b \in ByteSeqs, NEW p \in Nat, NEW k \in Nat, p <= k, k <= Len(b),
         Whole(SubSeq(b, 1, p)), Whole(SubSeq(b, k + 1, Len(b))),
         NEW c, IsCharacter(c), c = SubSeq(b, p + 1, k)
  PROVE  /\ Encoded(b, p) /\ Encoded(b, k)
         /\ decoded(SubSeq(b, 1, k)) = Append(decoded(SubSeq(b, 1, p)), c)
         /\ decoded(SubSeq(b, p + 1, Len(b))) = <<c>> \o decoded(SubSeq(b, k + 1, Len(b)))
         /\ c \in ByteSeqs /\ decoded(SubSeq(b, 1, p)) \in Lines
         /\ decoded(SubSeq(b, k + 1, Len(b))) \in Lines
<1>. DEFINE x == SubSeq(b, 1, p)
            y == SubSeq(b, k + 1, Len(b))
<1>1. Len(b) \in Nat /\ p \in 0 .. Len(b) /\ k \in 0 .. Len(b) /\ p <= Len(b)
  BY DEF ByteSeqs
<1>2. x \o c = SubSeq(b, 1, k)
  <2>1. SubSeq(b, 0 + 1, p) \o SubSeq(b, p + 1, k) = SubSeq(b, 0 + 1, k)
    <3>1. 0 \in Nat /\ 0 <= p
      OBVIOUS
    <3>. QED BY <3>1, SideBySide
  <2>. QED BY <2>1
<1>3. c \o y = SubSeq(b, p + 1, Len(b))
  <2>1. SubSeq(b, p + 1, k) \o SubSeq(b, k + 1, Len(b)) = SubSeq(b, p + 1, Len(b))
    <3>1. Len(b) <= Len(b)
      BY <1>1
    <3>. QED BY <1>1, <3>1, SideBySide
  <2>. QED BY <2>1
<1>4. x \in ByteSeqs /\ y \in ByteSeqs /\ Whole(x) /\ Whole(y)
  BY DEF Whole
<1>5. c \in ByteSeqs /\ Whole(c) /\ decoded(c) = <<c>>
  BY CharacterDecodes DEF IsCharacter
<1>. HIDE DEF x, y
<1>6. Whole(x \o c) /\ Whole(c \o y)
  <2>1. x \o c \in ByteSeqs /\ c \o y \in ByteSeqs
    BY <1>4, <1>5, TakenApart
  <2>2. (c \o y)[1] = c[1] /\ c[1] \notin Continuation /\ 1 \in 1 .. Len(c)
    <3>1. 1 \in 1 .. Len(c) /\ c[1] \notin Continuation
      BY <1>5 DEF IsCharacter, ByteSeqs, Whole
    <3>. QED BY <1>4, <1>5, <3>1, OneBehindOther DEF ByteSeqs
  <2>3. (x \o c)[1] \notin Continuation
    <3>1. CASE x = <<>>
      <4>1. x \o c = c
        BY <1>4, <1>5, <3>1, OneBehindOther DEF ByteSeqs
      <4>. QED BY <2>2, <4>1
    <3>2. CASE x # <<>>
      <4>1. (x \o c)[1] = x[1]
        <5>1. 1 \in 1 .. Len(x)
          BY <1>4, <3>2 DEF ByteSeqs
        <5>. QED BY <1>4, <1>5, <5>1, OneBehindOther DEF ByteSeqs
      <4>. QED BY <1>4, <3>2, <4>1 DEF Whole
    <3>. QED BY <3>1, <3>2
  <2>. QED BY <2>1, <2>2, <2>3 DEF Whole
<1>7. decoded(x \o c) = decoded(x) \o <<c>> /\ decoded(c \o y) = <<c>> \o decoded(y)
  BY <1>4, <1>5, DecodedJoined
<1>8. decoded(x) \in Lines /\ decoded(y) \in Lines
  BY <1>4, DecodedIsLine
<1>9. decoded(x) \o <<c>> = Append(decoded(x), c)
  <2>. SUFFICES ASSUME NEW z \in Lines PROVE z \o <<c>> = Append(z, c)
    BY <1>8
  <2>. QED BY <1>5 DEF Lines
<1>10. Encoded(b, p) /\ Encoded(b, k)
  BY <1>1, <1>2, <1>3, <1>4, <1>6 DEF Encoded, x, y
<1>. QED BY <1>2, <1>3, <1>5, <1>7, <1>8, <1>9, <1>10 DEF x, y

\* Two texts with the cursor between them.
LEMMA CursorBetween ==
  ASSUME NEW x, Whole(x), NEW y, Whole(y)
  PROVE  /\ Encoded(x \o y, Len(x))
         /\ SubSeq(x \o y, 1, Len(x)) = x
         /\ SubSeq(x \o y, Len(x) + 1, Len(x \o y)) = y
         /\ Encoded(x \o y, 0) /\ Encoded(x \o y, Len(x \o y))
         /\ decoded(x \o y) = decoded(x) \o decoded(y)
         /\ Whole(x \o y)
         /\ SubSeq(x \o y, 1, 0) = <<>> /\ SubSeq(x \o y, 1, Len(x \o y)) = x \o y
         /\ SubSeq(x \o y, Len(x \o y) + 1, Len(x \o y)) = <<>>
<1>. DEFINE t == x \o y
<1>1. x \in ByteSeqs /\ y \in ByteSeqs /\ <<>> \in ByteSeqs
  BY DEF Whole, ByteSeqs
<1>2. t \in ByteSeqs /\ Len(t) = Len(x) + Len(y) /\ SubSeq(t, 1, Len(x)) = x
      /\ SubSeq(t, Len(x) + 1, Len(t)) = y
  BY <1>1, TakenApart
<1>3. Len(x) \in Nat /\ Len(y) \in Nat /\ Len(t) \in Nat
  BY <1>1, <1>2 DEF ByteSeqs
<1>4. Whole(t) /\ Whole(<<>>)
  <2>1. t # <<>> => t[1] \notin Continuation
    <3>1. CASE x # <<>>
      <4>1. t[1] = x[1]
        BY <1>1, <3>1 DEF ByteSeqs
      <4>. QED BY <3>1, <4>1 DEF Whole
    <3>2. CASE x = <<>>
      <4>1. t = y
        BY <1>1, <3>2 DEF ByteSeqs
      <4>. HIDE DEF t
      <4>. QED BY <4>1 DEF Whole
    <3>. QED BY <3>1, <3>2
  <2>. HIDE DEF t
  <2>. QED BY <1>1, <1>2, <2>1 DEF Whole
<1>. HIDE DEF t
<1>5. SubSeq(t, 1, 0) = <<>> /\ SubSeq(t, 1, Len(t)) = t /\ SubSeq(t, Len(t) + 1, Len(t)) = <<>>
      /\ SubSeq(t, 0 + 1, Len(t)) = t
  <2>1. t \o <<>> = t /\ <<>> \o t = t /\ Len(<<>>) = 0
    BY <1>2 DEF ByteSeqs
  <2>2. SubSeq(t \o <<>>, 1, Len(t)) = t /\ SubSeq(t \o <<>>, Len(t) + 1, Len(t \o <<>>)) = <<>>
    BY <1>1, <1>2, TakenApart
  <2>3. SubSeq(<<>> \o t, 1, Len(<<>>)) = <<>>
        /\ SubSeq(<<>> \o t, Len(<<>>) + 1, Len(<<>> \o t)) = t
    BY <1>1, <1>2, TakenApart
  <2>4. SubSeq(t, 1, Len(t)) = t /\ SubSeq(t, Len(t) + 1, Len(t)) = <<>>
    BY <2>1, <2>2
  <2>5. SubSeq(t, 1, 0) = <<>> /\ SubSeq(t, 0 + 1, Len(t)) = t
    BY <2>1, <2>3
  <2>. QED BY <2>4, <2>5
<1>6. Encoded(t, Len(x)) /\ Encoded(t, 0) /\ Encoded(t, Len(t))
  <2>1. Len(x) \in 0 .. Len(t) /\ 0 \in 0 .. Len(t) /\ Len(t) \in 0 .. Len(t)
    BY <1>2, <1>3
  <2>2. Encoded(t, Len(x))
    BY <1>2, <2>1 DEF Encoded
  <2>3. Encoded(t, 0)
    BY <1>2, <1>4, <1>5, <2>1 DEF Encoded
  <2>4. Encoded(t, Len(t))
    BY <1>2, <1>4, <1>5, <2>1 DEF Encoded
  <2>. QED BY <2>2, <2>3, <2>4
<1>7. decoded(t) = decoded(x) \o decoded(y)
  BY <1>1, DecodedJoined DEF t
<1>. QED BY <1>2, <1>4, <1>5, <1>6, <1>7 DEF t

\* The greatest of some numbers up to n, and the least of some.
LEMMA GreatestAndLeast ==
  ASSUME NEW n \in Nat, NEW S \in SUBSET (0 .. n), S # {}
  PROVE  /\ Max(S) \in S /\ \A y \in S : y <= Max(S)
         /\ Min(S) \in S /\ \A y \in S : Min(S) <= y
<1>1. \E x \in S : \A y \in S : x >= y
  <2>. DEFINE R == {n - x : x \in S}
  <2>1. R \in SUBSET Nat /\ R # {}
    <3>1. \A x \in S : x \in 0 .. n /\ n - x \in Nat
      OBVIOUS
    <3>. QED BY <3>1
  <2>2. PICK m \in R : \A k \in R : m <= k
    <3>. HIDE DEF R
    <3>. QED BY <2>1, LeastOf
  <2>3. PICK x \in S : m = n - x
    OBVIOUS
  <2>4. ASSUME NEW y \in S PROVE x >= y
    <3>1. n - x <= n - y
      BY <2>2, <2>3
    <3>2. x \in 0 .. n /\ y \in 0 .. n
      OBVIOUS
    <3>. QED BY <3>1, <3>2
  <2>. QED BY <2>4
<1>2. \E x \in S : \A y \in S : x <= y
  <2>1. S \in SUBSET Nat
    OBVIOUS
  <2>. QED BY <2>1, LeastOf
<1>3. Max(S) = CHOOSE x \in S : \A y \in S : x >= y
  BY DEF Max
<1>4. Min(S) = CHOOSE x \in S : \A y \in S : x =< y
  BY DEF Min
<1>5. Max(S) \in S /\ \A y \in S : Max(S) >= y
  BY <1>1, <1>3, Zenon
<1>6. Min(S) \in S /\ \A y \in S : Min(S) <= y
  BY <1>2, <1>4, Zenon
<1>7. ASSUME NEW y \in S PROVE y <= Max(S)
  <2>1. Max(S) >= y /\ Max(S) \in 0 .. n /\ y \in 0 .. n
    BY <1>5
  <2>. QED BY <2>1
<1>. QED BY <1>5, <1>6, <1>7

TuiFields == {"pc", "raw", "alternate", "guard", "input_buffer", "cursor", "messages",
              "scroll_offset", "should_exit"}

\* The cursor is where a character begins, or at the end of the line.
EditorInv == DOMAIN tui = TuiFields /\ Encoded(tui.input_buffer, tui.cursor)

\* The bytes between two boundaries with none between them are a character.
LEMMA BetweenBoundaries ==
  ASSUME NEW b \in ByteSeqs, NEW p \in Nat, NEW k \in Nat, p < k, k <= Len(b),
         b[p + 1] \notin Continuation,
         \A i \in p + 1 .. k - 1 : b[i + 1] \in Continuation
  PROVE  IsCharacter(SubSeq(b, p + 1, k))
<1>. DEFINE c == SubSeq(b, p + 1, k)
<1>1. p <= k
  OBVIOUS
<1>2. c \in ByteSeqs /\ Len(c) = k - p /\ \A i \in 1 .. k - p : c[i] = b[p + i]
  BY <1>1, Piece
<1>. HIDE DEF c
<1>3. DOMAIN c = 1 .. k - p /\ c # <<>>
  BY <1>2 DEF ByteSeqs
<1>4. ASSUME NEW i \in 1 .. k - p, i # 1 PROVE c[i] \in Continuation
  <2>1. p + i - 1 \in p + 1 .. k - 1 /\ (p + i - 1) + 1 = p + i
    BY <1>4
  <2>2. b[(p + i - 1) + 1] \in Continuation
    BY <2>1
  <2>. QED BY <1>2, <2>1, <2>2
<1>5. c[1] \notin Continuation
  BY <1>2
<1>6. \A i \in DOMAIN c : c[i] \in Continuation <=> i # 1
  BY <1>3, <1>4, <1>5
<1>7. IsCharacter(c)
  BY <1>2, <1>3, <1>6 DEF IsCharacter
<1>. QED BY <1>7 DEF c

\* Before a cursor that is not at the beginning there is a character, and behind one
\* that is not at the end.
LEMMA PreviousCharacter ==
  ASSUME EditorInv, tui.cursor # 0
  PROVE  /\ previous \in Nat /\ previous < tui.cursor
         /\ IsCharacter(SubSeq(tui.input_buffer, previous + 1, tui.cursor))
         /\ Whole(SubSeq(tui.input_buffer, 1, previous))
<1>1. PICK b, k, p : b = tui.input_buffer /\ k = tui.cursor /\ p = previous
  OBVIOUS
<1>2. /\ b \in ByteSeqs /\ k \in 1 .. Len(b) /\ Len(b) \in Nat
      /\ Whole(SubSeq(b, 1, k)) /\ Whole(SubSeq(b, k + 1, Len(b)))
  BY <1>1 DEF EditorInv, Encoded, ByteSeqs
<1>. DEFINE at(i) == i = Len(b) \/ b[i + 1] \notin Continuation
            B == {i \in 0 .. Len(b) : at(i)}
            S == {0} \cup {i \in B : i < k}
<1>3. p = Max(S)
  <2>1. Boundaries = B
    BY <1>1 DEF Boundaries, IsBoundary
  <2>. HIDE DEF B
  <2>. QED BY <1>1, <2>1 DEF previous
<1>4. b[1] \notin Continuation
  <2>1. /\ Len(SubSeq(b, 0 + 1, k)) = k - 0
        /\ \A i \in 1 .. k - 0 : SubSeq(b, 0 + 1, k)[i] = b[0 + i]
        /\ SubSeq(b, 0 + 1, k) \in ByteSeqs
    <3>1. 0 \in Nat /\ k \in Nat /\ 0 <= k /\ k <= Len(b)
      BY <1>2
    <3>. QED BY <1>2, <3>1, Piece
  <2>2. SubSeq(b, 1, k)[1] = b[1] /\ SubSeq(b, 1, k) # <<>>
    BY <1>2, <2>1
  <2>. QED BY <1>2, <2>2 DEF Whole
<1>5. p \in S /\ \A y \in S : y <= p
  <2>1. S \in SUBSET (0 .. k) /\ S # {} /\ k \in Nat
    BY <1>2
  <2>. HIDE DEF S
  <2>. QED BY <1>3, <2>1, GreatestAndLeast
<1>6. p \in Nat /\ p < k /\ b[p + 1] \notin Continuation
  BY <1>2, <1>4, <1>5
<1>7. ASSUME NEW i \in p + 1 .. k - 1 PROVE b[i + 1] \in Continuation
  <2>1. i \in 0 .. Len(b) /\ i < k /\ ~(i <= p) /\ i # Len(b)
    BY <1>2, <1>6
  <2>2. i \notin S
    BY <1>5, <2>1
  <2>. QED BY <2>1, <2>2
<1>8. IsCharacter(SubSeq(b, p + 1, k))
  BY <1>2, <1>6, <1>7, BetweenBoundaries
<1>9. Whole(SubSeq(b, 1, p))
  <2>1. /\ SubSeq(b, 0 + 1, p) \in ByteSeqs /\ Len(SubSeq(b, 0 + 1, p)) = p - 0
        /\ \A i \in 1 .. p - 0 : SubSeq(b, 0 + 1, p)[i] = b[0 + i]
    <3>1. 0 \in Nat /\ 0 <= p /\ p <= Len(b)
      BY <1>2, <1>6
    <3>. QED BY <1>2, <1>6, <3>1, Piece
  <2>. DEFINE x == SubSeq(b, 0 + 1, p)
  <2>2. x # <<>> => x[1] = b[1]
    <3>. HIDE DEF x
    <3>1. x \in ByteSeqs /\ Len(x) = p - 0 /\ \A i \in 1 .. p - 0 : x[i] = b[0 + i]
      BY <2>1 DEF x
    <3>2. x # <<>> => 1 \in 1 .. p - 0
      BY <1>6, <3>1 DEF ByteSeqs
    <3>. QED BY <3>1, <3>2
  <2>3. Whole(x)
    <3>. HIDE DEF x
    <3>1. x \in ByteSeqs
      BY <2>1 DEF x
    <3>. QED BY <1>4, <2>2, <3>1 DEF Whole
  <2>. QED BY <2>3
<1>. QED BY <1>1, <1>6, <1>8, <1>9

LEMMA NextCharacter ==
  ASSUME EditorInv, tui.cursor < Len(tui.input_buffer)
  PROVE  /\ next \in Nat /\ tui.cursor < next /\ next <= Len(tui.input_buffer)
         /\ IsCharacter(SubSeq(tui.input_buffer, tui.cursor + 1, next))
         /\ Whole(SubSeq(tui.input_buffer, next + 1, Len(tui.input_buffer)))
<1>1. PICK b, k, n : b = tui.input_buffer /\ k = tui.cursor /\ n = next
  OBVIOUS
<1>2. /\ b \in ByteSeqs /\ k \in Nat /\ k < Len(b) /\ Len(b) \in Nat
      /\ Whole(SubSeq(b, 1, k)) /\ Whole(SubSeq(b, k + 1, Len(b)))
  BY <1>1 DEF EditorInv, Encoded, ByteSeqs
<1>. DEFINE at(i) == i = Len(b) \/ b[i + 1] \notin Continuation
            B == {i \in 0 .. Len(b) : at(i)}
            S == {Len(b)} \cup {i \in B : i > k}
<1>3. n = Min(S)
  <2>1. Boundaries = B
    BY <1>1 DEF Boundaries, IsBoundary
  <2>. HIDE DEF B
  <2>. QED BY <1>1, <2>1 DEF next
<1>4. b[k + 1] \notin Continuation
  <2>. DEFINE x == SubSeq(b, k + 1, Len(b))
  <2>1. x \in ByteSeqs /\ Len(x) = Len(b) - k /\ \A i \in 1 .. Len(b) - k : x[i] = b[k + i]
    <3>1. k <= Len(b) /\ Len(b) <= Len(b)
      BY <1>2
    <3>. QED BY <1>2, <3>1, Piece
  <2>2. Whole(x)
    BY <1>2
  <2>. HIDE DEF x
  <2>3. x[1] = b[k + 1] /\ x # <<>>
    BY <1>2, <2>1
  <2>. QED BY <2>2, <2>3 DEF Whole
<1>5. n \in S /\ \A y \in S : n <= y
  <2>1. S \in SUBSET (0 .. Len(b)) /\ S # {}
    BY <1>2
  <2>. HIDE DEF S
  <2>. QED BY <1>2, <1>3, <2>1, GreatestAndLeast
<1>6. n \in Nat /\ k < n /\ n <= Len(b) /\ at(n)
  BY <1>2, <1>5
<1>7. ASSUME NEW i \in k + 1 .. n - 1 PROVE b[i + 1] \in Continuation
  <2>1. i \in 0 .. Len(b) /\ i > k /\ ~(n <= i) /\ i # Len(b)
    BY <1>2, <1>6
  <2>2. i \notin S
    BY <1>5, <2>1
  <2>. QED BY <2>1, <2>2
<1>8. IsCharacter(SubSeq(b, k + 1, n))
  BY <1>2, <1>4, <1>6, <1>7, BetweenBoundaries
<1>9. Whole(SubSeq(b, n + 1, Len(b)))
  <2>. DEFINE x == SubSeq(b, n + 1, Len(b))
  <2>1. x \in ByteSeqs /\ Len(x) = Len(b) - n /\ \A i \in 1 .. Len(b) - n : x[i] = b[n + i]
    <3>1. n <= Len(b) /\ Len(b) <= Len(b)
      BY <1>2, <1>6
    <3>. QED BY <1>2, <1>6, <3>1, Piece
  <2>. HIDE DEF x
  <2>2. ASSUME x # <<>> PROVE x[1] \notin Continuation
    <3>1. 1 \in 1 .. Len(b) - n
      BY <1>2, <1>6, <2>1, <2>2 DEF ByteSeqs
    <3>2. n # Len(b) /\ x[1] = b[n + 1]
      BY <1>2, <1>6, <2>1, <3>1
    <3>. QED BY <1>6, <3>2
  <2>. QED BY <2>1, <2>2 DEF Whole, x
<1>. QED BY <1>1, <1>6, <1>8, <1>9

\* What may become of the characters left and right of the cursor, in one step.
LineStep(l, r, m, s) ==
  \/ \E c \in Chars : m = Append(l, c) /\ s = r
  \/ l # <<>> /\ m = SubSeq(l, 1, Len(l) - 1) /\ s = r
  \/ r # <<>> /\ m = l /\ s = Tail(r)
  \/ l # <<>> /\ m = SubSeq(l, 1, Len(l) - 1) /\ s = <<l[Len(l)]>> \o r
  \/ r # <<>> /\ m = Append(l, Head(r)) /\ s = Tail(r)
  \/ m = <<>> /\ s = l \o r
  \/ m = l \o r /\ s = <<>>
  \/ m = <<>> /\ s = <<>>
  \/ m = l /\ s = r

LeftOf(b, k) == decoded(SubSeq(b, 1, k))
RightOf(b, k) == decoded(SubSeq(b, k + 1, Len(b)))

KeyEdited(b, k, d, j) ==
  Encoded(d, j) /\ LineStep(LeftOf(b, k), RightOf(b, k), LeftOf(d, j), RightOf(d, j))

\* A character at the end of a line, and at the beginning of one.
LEMMA EndsOfLine ==
  ASSUME NEW x \in Lines, NEW c \in ByteSeqs
  PROVE  /\ Append(x, c) # <<>> /\ SubSeq(Append(x, c), 1, Len(Append(x, c)) - 1) = x
         /\ Append(x, c)[Len(Append(x, c))] = c
         /\ <<c>> \o x # <<>> /\ Head(<<c>> \o x) = c /\ Tail(<<c>> \o x) = x
<1>1. /\ Append(x, c) # <<>> /\ Append(x, c)[Len(Append(x, c))] = c
      /\ <<c>> \o x # <<>> /\ Head(<<c>> \o x) = c
  BY DEF Lines
<1>2. SubSeq(Append(x, c), 1, Len(Append(x, c)) - 1) = x
  <2>. DEFINE y == SubSeq(Append(x, c), 1, Len(Append(x, c)) - 1)
  <2>1. y \in Seq(ByteSeqs) /\ Len(y) = Len(x) /\ \A i \in 1 .. Len(y) : y[i] = x[i]
    BY DEF Lines
  <2>. HIDE DEF y
  <2>2. y = x
    BY <2>1, SameSequence DEF Lines
  <2>. QED BY <2>2 DEF y
<1>3. Tail(<<c>> \o x) = x
  <2>. DEFINE y == Tail(<<c>> \o x)
  <2>1. y \in Seq(ByteSeqs) /\ Len(y) = Len(x) /\ \A i \in 1 .. Len(y) : y[i] = x[i]
    BY DEF Lines
  <2>. HIDE DEF y
  <2>2. y = x
    BY <2>1, SameSequence DEF Lines
  <2>. QED BY <2>2 DEF y
<1>. QED BY <1>1, <1>2, <1>3

LEMMA TypedIsEdited ==
  ASSUME NEW b, NEW k, Encoded(b, k), NEW c \in Chars
  PROVE  KeyEdited(b, k, SubSeq(b, 1, k) \o c \o SubSeq(b, k + 1, Len(b)), k + Len(c))
<1>. DEFINE x == SubSeq(b, 1, k)
            y == SubSeq(b, k + 1, Len(b))
            z == x \o c
            d == z \o y
<1>1. IsCharacter(c)
  BY CharsAssumption DEF IsCharacter, ByteSeqs
<1>2. Whole(c) /\ decoded(c) = <<c>> /\ c \in ByteSeqs
  BY <1>1, CharacterDecodes DEF IsCharacter
<1>3. Whole(x) /\ Whole(y) /\ Len(x) = k /\ k \in Nat /\ x \in ByteSeqs
  <2>1. b \in ByteSeqs /\ k \in Nat /\ k <= Len(b) /\ 0 \in Nat /\ 0 <= k
    BY DEF Encoded, ByteSeqs
  <2>2. Len(SubSeq(b, 0 + 1, k)) = k - 0
    BY <2>1, Piece
  <2>. QED BY <2>1, <2>2 DEF Encoded, Whole
<1>. HIDE DEF x, y
<1>4. Whole(z) /\ decoded(z) = decoded(x) \o <<c>>
  <2>1. Whole(x \o c) /\ decoded(x \o c) = decoded(x) \o decoded(c)
    BY <1>2, <1>3, CursorBetween
  <2>. QED BY <1>2, <2>1
<1>5. Len(z) = k + Len(c)
  BY <1>2, <1>3, TakenApart
<1>. HIDE DEF z
<1>6. /\ Encoded(d, Len(z)) /\ SubSeq(d, 1, Len(z)) = z
      /\ SubSeq(d, Len(z) + 1, Len(d)) = y
  BY <1>3, <1>4, CursorBetween
<1>. HIDE DEF d
<1>7. decoded(z) = Append(decoded(x), c)
  <2>1. decoded(x) \in Lines
    BY <1>3, DecodedIsLine
  <2>2. ASSUME NEW l \in Lines PROVE l \o <<c>> = Append(l, c)
    BY <1>2 DEF Lines
  <2>. QED BY <1>4, <2>1, <2>2
<1>8. LeftOf(d, k + Len(c)) = Append(LeftOf(b, k), c) /\ RightOf(d, k + Len(c)) = RightOf(b, k)
  BY <1>5, <1>6, <1>7 DEF LeftOf, RightOf, x, y
<1>9. KeyEdited(b, k, d, k + Len(c))
  <2>1. Encoded(d, k + Len(c))
    BY <1>5, <1>6
  <2>. HIDE DEF x, y, z, d
  <2>. QED BY <1>8, <2>1 DEF KeyEdited, LineStep
<1>. QED BY <1>9 DEF x, y, z, d

\* A character between p and k: dropped from either side, and passed in either way.
LEMMA CharacterIsEdited ==
  ASSUME NEW b \in ByteSeqs, NEW p \in Nat, NEW k \in Nat, p <= k, k <= Len(b),
         Whole(SubSeq(b, 1, p)), Whole(SubSeq(b, k + 1, Len(b))),
         IsCharacter(SubSeq(b, p + 1, k))
  PROVE  /\ KeyEdited(b, k, SubSeq(b, 1, p) \o SubSeq(b, k + 1, Len(b)), p)
         /\ KeyEdited(b, p, SubSeq(b, 1, p) \o SubSeq(b, k + 1, Len(b)), p)
         /\ KeyEdited(b, k, b, p) /\ KeyEdited(b, p, b, k)
<1>. DEFINE x == SubSeq(b, 1, p)
            y == SubSeq(b, k + 1, Len(b))
            d == x \o y
<1>1. PICK c : c = SubSeq(b, p + 1, k)
  OBVIOUS
<1>2. PICK l, r : l = LeftOf(b, p) /\ r = RightOf(b, k)
  OBVIOUS
<1>3. /\ Encoded(b, p) /\ Encoded(b, k)
      /\ LeftOf(b, k) = Append(l, c) /\ RightOf(b, p) = <<c>> \o r
      /\ c \in ByteSeqs /\ l \in Lines /\ r \in Lines
  <2>1. IsCharacter(c)
    BY <1>1
  <2>2. /\ Encoded(b, p) /\ Encoded(b, k)
        /\ decoded(SubSeq(b, 1, k)) = Append(decoded(SubSeq(b, 1, p)), c)
        /\ decoded(SubSeq(b, p + 1, Len(b))) = <<c>> \o decoded(SubSeq(b, k + 1, Len(b)))
        /\ c \in ByteSeqs /\ decoded(SubSeq(b, 1, p)) \in Lines
        /\ decoded(SubSeq(b, k + 1, Len(b))) \in Lines
    <3>. HIDE DEF x, y
    <3>1. Whole(SubSeq(b, 1, p)) /\ Whole(SubSeq(b, k + 1, Len(b)))
      OBVIOUS
    <3>2. p \in Nat /\ k \in Nat /\ p <= k /\ k <= Len(b) /\ b \in ByteSeqs
      OBVIOUS
    <3>3. c = SubSeq(b, p + 1, k)
      BY <1>1
    <3>. QED BY ONLY <2>1, <3>1, <3>2, <3>3, AroundCharacter, ZenonT(30)
  <2>. QED BY <1>2, <2>2 DEF LeftOf, RightOf
<1>4. /\ Append(l, c) # <<>> /\ SubSeq(Append(l, c), 1, Len(Append(l, c)) - 1) = l
      /\ Append(l, c)[Len(Append(l, c))] = c
      /\ <<c>> \o r # <<>> /\ Head(<<c>> \o r) = c /\ Tail(<<c>> \o r) = r
  BY <1>3, EndsOfLine
<1>5. Len(x) = p
  <2>1. 0 \in Nat /\ 0 <= p /\ p <= Len(b)
    BY DEF ByteSeqs
  <2>2. Len(SubSeq(b, 0 + 1, p)) = p - 0
    BY <2>1, Piece
  <2>. QED BY <2>2
<1>6. Encoded(d, p) /\ LeftOf(d, p) = l /\ RightOf(d, p) = r
  <2>1. Whole(x) /\ Whole(y)
    OBVIOUS
  <2>2. l = decoded(x) /\ r = decoded(y)
    BY <1>2 DEF LeftOf, RightOf
  <2>. HIDE DEF x, y
  <2>3. /\ Encoded(d, Len(x)) /\ SubSeq(d, 1, Len(x)) = x
        /\ SubSeq(d, Len(x) + 1, Len(d)) = y
    BY <2>1, CursorBetween
  <2>. HIDE DEF d
  <2>. QED BY <1>5, <2>2, <2>3 DEF LeftOf, RightOf
<1>. HIDE DEF x, y, d
<1>7. PICK m, s : m = Append(l, c) /\ s = <<c>> \o r
  OBVIOUS
<1>8. /\ m # <<>> /\ SubSeq(m, 1, Len(m) - 1) = l /\ m[Len(m)] = c
      /\ s # <<>> /\ Head(s) = c /\ Tail(s) = r
  BY <1>4, <1>7
<1>9. LineStep(m, r, l, r) /\ LineStep(l, s, l, r)
  BY <1>8 DEF LineStep
<1>10. LineStep(m, r, l, s) /\ LineStep(l, s, m, r)
  BY <1>7, <1>8 DEF LineStep
<1>11. /\ KeyEdited(b, k, d, p) /\ KeyEdited(b, p, d, p)
       /\ KeyEdited(b, k, b, p) /\ KeyEdited(b, p, b, k)
  BY <1>2, <1>3, <1>6, <1>7, <1>9, <1>10 DEF KeyEdited
<1>. QED BY <1>11 DEF x, y, d

\* The cursor at the beginning, at the end, the line as it was, and none.
LEMMA MovedIsEdited ==
  ASSUME NEW b, NEW k, Encoded(b, k)
  PROVE  KeyEdited(b, k, b, 0) /\ KeyEdited(b, k, b, Len(b)) /\ KeyEdited(b, k, b, k)
         /\ KeyEdited(b, k, <<>>, 0)
<1>. DEFINE x == SubSeq(b, 1, k)
            y == SubSeq(b, k + 1, Len(b))
<1>1. Whole(x) /\ Whole(y) /\ Len(x) = k /\ b = x \o y
  <2>1. b \in ByteSeqs /\ k \in Nat /\ k <= Len(b) /\ 0 \in Nat /\ 0 <= k /\ Len(b) \in Nat
        /\ Len(b) <= Len(b) /\ 0 <= Len(b)
    BY DEF Encoded, ByteSeqs
  <2>2. Len(SubSeq(b, 0 + 1, k)) = k - 0
    BY <2>1, Piece
  <2>3. SubSeq(b, 0 + 1, k) \o SubSeq(b, k + 1, Len(b)) = SubSeq(b, 0 + 1, Len(b))
    BY <2>1, SideBySide
  <2>4. /\ SubSeq(b, 0 + 1, Len(b)) \in ByteSeqs /\ Len(SubSeq(b, 0 + 1, Len(b))) = Len(b) - 0
        /\ \A i \in 1 .. Len(b) - 0 : SubSeq(b, 0 + 1, Len(b))[i] = b[0 + i]
    BY <2>1, Piece
  <2>5. SubSeq(b, 0 + 1, Len(b)) = b
    <3>. DEFINE z == SubSeq(b, 0 + 1, Len(b))
    <3>1. z \in ByteSeqs /\ Len(z) = Len(b) /\ \A i \in 1 .. Len(z) : z[i] = b[i]
      BY <2>1, <2>4
    <3>. HIDE DEF z
    <3>2. z = b
      BY <2>1, <3>1, SameSequence DEF ByteSeqs
    <3>. QED BY <3>2 DEF z
  <2>6. x \o y = b
    <3>1. PICK e : e = SubSeq(b, 0 + 1, Len(b))
      OBVIOUS
    <3>2. e = b
      BY <2>5, <3>1
    <3>3. SubSeq(b, 0 + 1, k) = x
      OBVIOUS
    <3>4. x \o y = e
      BY <2>3, <3>1, <3>3
    <3>. HIDE DEF x, y
    <3>. QED BY <3>2, <3>4
  <2>7. Len(x) = k
    BY <2>1, <2>2
  <2>8. Whole(x) /\ Whole(y)
    BY DEF Encoded
  <2>. QED BY <2>6, <2>7, <2>8
<1>2. LeftOf(b, k) = decoded(x) /\ RightOf(b, k) = decoded(y)
  BY DEF LeftOf, RightOf
<1>. HIDE DEF x, y
<1>3. /\ Encoded(b, 0) /\ Encoded(b, Len(b)) /\ decoded(b) = decoded(x) \o decoded(y)
      /\ SubSeq(b, 1, 0) = <<>> /\ SubSeq(b, 1, Len(b)) = b
      /\ SubSeq(b, Len(b) + 1, Len(b)) = <<>>
  <2>1. /\ Encoded(x \o y, 0) /\ Encoded(x \o y, Len(x \o y))
        /\ decoded(x \o y) = decoded(x) \o decoded(y)
        /\ SubSeq(x \o y, 1, 0) = <<>> /\ SubSeq(x \o y, 1, Len(x \o y)) = x \o y
        /\ SubSeq(x \o y, Len(x \o y) + 1, Len(x \o y)) = <<>>
    <3>1. Whole(x) /\ Whole(y)
      BY <1>1
    <3>. QED BY ONLY <3>1, CursorBetween
  <2>2. PICK t : t = x \o y
    OBVIOUS
  <2>3. t = b
    BY <1>1, <2>2
  <2>. QED BY <2>1, <2>2, <2>3
<1>4. decoded(<<>>) = <<>>
  <2>1. <<>> \in ByteSeqs
    BY DEF ByteSeqs
  <2>. QED BY <2>1, DecodedIsLine
<1>5. SubSeq(b, 0 + 1, Len(b)) = b
  BY <1>3
<1>6. /\ LeftOf(b, 0) = <<>> /\ RightOf(b, 0) = LeftOf(b, k) \o RightOf(b, k)
      /\ LeftOf(b, Len(b)) = LeftOf(b, k) \o RightOf(b, k) /\ RightOf(b, Len(b)) = <<>>
  BY <1>2, <1>3, <1>4, <1>5 DEF LeftOf, RightOf
<1>7. Encoded(<<>>, 0) /\ LeftOf(<<>>, 0) = <<>> /\ RightOf(<<>>, 0) = <<>>
  <2>1. SubSeq(<<>>, 1, 0) = <<>> /\ SubSeq(<<>>, 0 + 1, Len(<<>>)) = <<>> /\ Len(<<>>) = 0
        /\ <<>> \in ByteSeqs
    BY DEF ByteSeqs
  <2>2. Whole(<<>>)
    BY <2>1 DEF Whole
  <2>3. Encoded(<<>>, 0)
    <3>1. PICK e : e = <<>>
      OBVIOUS
    <3>2. Whole(e) /\ Encoded(e \o e, 0)
      BY <2>2, <3>1, CursorBetween
    <3>3. e \o e = e
      BY <3>1
    <3>. QED BY <3>1, <3>2, <3>3
  <2>. QED BY <1>4, <2>1, <2>3 DEF LeftOf, RightOf
<1>. QED BY <1>3, <1>6, <1>7 DEF KeyEdited, LineStep

LEMMA InitEditor ==
  ASSUME TuiInit
  PROVE  EditorInv /\ Editor!LineInit
<1>1. DOMAIN tui = TuiFields /\ tui.input_buffer = <<>> /\ tui.cursor = 0
  BY DEF TuiInit, TuiIdle, TuiFields
<1>2. <<>> \in ByteSeqs /\ SubSeq(<<>>, 1, 0) = <<>> /\ SubSeq(<<>>, 0 + 1, Len(<<>>)) = <<>>
      /\ Len(<<>>) = 0 /\ Whole(<<>>)
  BY DEF ByteSeqs, Whole
<1>3. decoded(<<>>) = <<>>
  BY <1>2, DecodedIsLine
<1>4. PICK e : e = <<>>
  OBVIOUS
<1>5. Encoded(e, 0)
  <2>1. e \in ByteSeqs /\ 0 \in 0 .. Len(e) /\ SubSeq(e, 1, 0) = e /\ SubSeq(e, 0 + 1, Len(e)) = e
        /\ Whole(e)
    BY <1>2, <1>4
  <2>. QED BY <2>1 DEF Encoded
<1>6. EditorInv
  BY <1>1, <1>4, <1>5 DEF EditorInv
<1>7. Editor!LineInit
  BY <1>1, <1>2, <1>3 DEF Editor!LineInit, before, after
<1>. QED BY <1>6, <1>7

\* A step of the characters on either side is a step of the editor.
LEMMA EditedIsStep ==
  ASSUME NEW d, NEW j, d = tui'.input_buffer, j = tui'.cursor,
         KeyEdited(tui.input_buffer, tui.cursor, d, j)
  PROVE  [Editor!LineNext]_(Editor!line)
<1>1. PICK l, r, m, s :
         /\ l = LeftOf(tui.input_buffer, tui.cursor) /\ r = RightOf(tui.input_buffer, tui.cursor)
         /\ m = LeftOf(d, j) /\ s = RightOf(d, j)
  OBVIOUS
<1>2. LineStep(l, r, m, s)
  BY <1>1 DEF KeyEdited
<1>3. l = decoded(before(tui.cursor)) /\ r = decoded(after(tui.cursor))
  BY <1>1 DEF LeftOf, RightOf, before, after
<1>4. m = decoded(before(tui.cursor))' /\ s = decoded(after(tui.cursor))'
  BY <1>1 DEF LeftOf, RightOf, before, after
<1>5. CASE \E c \in Chars : m = Append(l, c) /\ s = r
  <2>1. Editor!InsertChar
    BY <1>3, <1>4, <1>5 DEF Editor!InsertChar
  <2>. QED BY <2>1 DEF Editor!LineNext
<1>6. CASE l # <<>> /\ m = SubSeq(l, 1, Len(l) - 1) /\ s = r
  <2>1. Editor!DropLeft
    BY <1>3, <1>4, <1>6 DEF Editor!DropLeft
  <2>. QED BY <2>1 DEF Editor!LineNext
<1>7. CASE r # <<>> /\ m = l /\ s = Tail(r)
  <2>1. Editor!DropRight
    BY <1>3, <1>4, <1>7 DEF Editor!DropRight
  <2>. QED BY <2>1 DEF Editor!LineNext
<1>8. CASE l # <<>> /\ m = SubSeq(l, 1, Len(l) - 1) /\ s = <<l[Len(l)]>> \o r
  <2>1. Editor!MoveLeft
    BY <1>3, <1>4, <1>8 DEF Editor!MoveLeft
  <2>. QED BY <2>1 DEF Editor!LineNext
<1>9. CASE r # <<>> /\ m = Append(l, Head(r)) /\ s = Tail(r)
  <2>1. Editor!MoveRight
    BY <1>3, <1>4, <1>9 DEF Editor!MoveRight
  <2>. QED BY <2>1 DEF Editor!LineNext
<1>10. CASE m = <<>> /\ s = l \o r
  <2>1. Editor!MoveHome
    BY <1>3, <1>4, <1>10 DEF Editor!MoveHome
  <2>. QED BY <2>1 DEF Editor!LineNext
<1>11. CASE m = l \o r /\ s = <<>>
  <2>1. Editor!MoveEnd
    BY <1>3, <1>4, <1>11 DEF Editor!MoveEnd
  <2>. QED BY <2>1 DEF Editor!LineNext
<1>12. CASE m = <<>> /\ s = <<>>
  <2>1. Editor!ClearLine
    BY <1>3, <1>4, <1>12 DEF Editor!ClearLine
  <2>. QED BY <2>1 DEF Editor!LineNext
<1>13. CASE m = l /\ s = r
  <2>1. UNCHANGED Editor!line
    BY <1>3, <1>4, <1>13 DEF Editor!line
  <2>. QED BY <2>1
<1>. QED BY <1>2, <1>5, <1>6, <1>7, <1>8, <1>9, <1>10, <1>11, <1>12, <1>13 DEF LineStep

\* A step that edits the line.
LEMMA EditingStep ==
  ASSUME NEW d, NEW j, KeyEdited(tui.input_buffer, tui.cursor, d, j),
         DOMAIN tui' = TuiFields, tui'.input_buffer = d, tui'.cursor = j
  PROVE  EditorInv' /\ [Editor!LineNext]_(Editor!line)
<1>1. Encoded(d, j)
  BY DEF KeyEdited
<1>2. EditorInv'
  BY <1>1 DEF EditorInv, TuiFields
<1>. QED BY <1>2, EditedIsStep

\* A step that leaves the line alone.
LEMMA OtherStep ==
  ASSUME EditorInv, DOMAIN tui' = TuiFields, tui'.input_buffer = tui.input_buffer,
         tui'.cursor = tui.cursor
  PROVE  EditorInv' /\ [Editor!LineNext]_(Editor!line)
<1>1. PICK b, k : b = tui.input_buffer /\ k = tui.cursor
  OBVIOUS
<1>2. KeyEdited(b, k, b, k)
  <2>1. Encoded(b, k)
    BY <1>1 DEF EditorInv
  <2>. QED BY <2>1, MovedIsEdited
<1>. QED BY <1>1, <1>2, EditingStep

LEMMA StepTypeKey ==
  ASSUME EditorInv, TypeKey
  PROVE  EditorInv' /\ [Editor!LineNext]_(Editor!line)
<1>1. PICK c \in Chars : Handled(input_insert(c))
  BY DEF TypeKey
<1>2. PICK b, k : b = tui.input_buffer /\ k = tui.cursor
  OBVIOUS
<1>. DEFINE d == SubSeq(b, 1, k) \o c \o SubSeq(b, k + 1, Len(b))
<1>3. DOMAIN tui' = TuiFields /\ tui'.input_buffer = d /\ tui'.cursor = k + Len(c)
  BY <1>1, <1>2 DEF EditorInv, TuiFields, Handled, input_insert, before, after
<1>4. KeyEdited(b, k, d, k + Len(c))
  <2>1. Encoded(b, k)
    BY <1>2 DEF EditorInv
  <2>. QED BY <2>1, TypedIsEdited
<1>. HIDE DEF d
<1>. QED BY <1>2, <1>3, <1>4, EditingStep

LEMMA StepBackspace ==
  ASSUME EditorInv, tui.cursor # 0
  PROVE  /\ Handled(input_backspace) => EditorInv' /\ [Editor!LineNext]_(Editor!line)
         /\ Handled(input_left) => EditorInv' /\ [Editor!LineNext]_(Editor!line)
<1>1. PICK b, k, p : b = tui.input_buffer /\ k = tui.cursor /\ p = previous
  OBVIOUS
<1>. DEFINE d == SubSeq(b, 1, p) \o SubSeq(b, k + 1, Len(b))
<1>2. KeyEdited(b, k, d, p) /\ KeyEdited(b, k, b, p)
  <2>1. p \in Nat /\ p < k /\ IsCharacter(SubSeq(b, p + 1, k)) /\ Whole(SubSeq(b, 1, p))
    BY <1>1, PreviousCharacter
  <2>2. b \in ByteSeqs /\ k \in Nat /\ p <= k /\ k <= Len(b) /\ Whole(SubSeq(b, k + 1, Len(b)))
    BY <1>1, <2>1 DEF EditorInv, Encoded, ByteSeqs
  <2>. QED BY <2>1, <2>2, CharacterIsEdited
<1>3. ASSUME Handled(input_backspace)
      PROVE  EditorInv' /\ [Editor!LineNext]_(Editor!line)
  <2>1. DOMAIN tui' = TuiFields /\ tui'.input_buffer = d /\ tui'.cursor = p
    BY <1>1, <1>3 DEF EditorInv, TuiFields, Handled, input_backspace, before, after
  <2>. HIDE DEF d
  <2>. QED BY <1>1, <1>2, <2>1, EditingStep
<1>4. ASSUME Handled(input_left)
      PROVE  EditorInv' /\ [Editor!LineNext]_(Editor!line)
  <2>1. DOMAIN tui' = TuiFields /\ tui'.input_buffer = b /\ tui'.cursor = p
    BY <1>1, <1>4 DEF EditorInv, TuiFields, Handled, input_left
  <2>. QED BY <1>1, <1>2, <2>1, EditingStep
<1>. QED BY <1>3, <1>4

LEMMA StepDelete ==
  ASSUME EditorInv, tui.cursor < Len(tui.input_buffer)
  PROVE  /\ Handled(input_delete) => EditorInv' /\ [Editor!LineNext]_(Editor!line)
         /\ Handled(input_right) => EditorInv' /\ [Editor!LineNext]_(Editor!line)
<1>1. PICK b, k, n : b = tui.input_buffer /\ k = tui.cursor /\ n = next
  OBVIOUS
<1>2. b \in ByteSeqs /\ k \in Nat /\ Len(b) \in Nat /\ k < Len(b) /\ Whole(SubSeq(b, 1, k))
  BY <1>1 DEF EditorInv, Encoded, ByteSeqs
<1>. DEFINE d == SubSeq(b, 1, k) \o SubSeq(b, n + 1, Len(b))
<1>3. KeyEdited(b, k, d, k) /\ KeyEdited(b, k, b, n)
  <2>1. /\ n \in Nat /\ k < n /\ n <= Len(b) /\ IsCharacter(SubSeq(b, k + 1, n))
        /\ Whole(SubSeq(b, n + 1, Len(b)))
    BY <1>1, NextCharacter
  <2>2. k <= n
    BY <1>2, <2>1
  <2>. QED BY <1>2, <2>1, <2>2, CharacterIsEdited
<1>4. ~(k >= Len(b))
  BY <1>2
<1>5. ASSUME Handled(input_delete)
      PROVE  EditorInv' /\ [Editor!LineNext]_(Editor!line)
  <2>1. DOMAIN tui' = TuiFields /\ tui'.input_buffer = d /\ tui'.cursor = k
    BY <1>1, <1>4, <1>5 DEF EditorInv, TuiFields, Handled, input_delete, before, after
  <2>. HIDE DEF d
  <2>. QED BY <1>1, <1>3, <2>1, EditingStep
<1>6. ASSUME Handled(input_right)
      PROVE  EditorInv' /\ [Editor!LineNext]_(Editor!line)
  <2>1. DOMAIN tui' = TuiFields /\ tui'.input_buffer = b /\ tui'.cursor = n
    BY <1>1, <1>4, <1>6 DEF EditorInv, TuiFields, Handled, input_right
  <2>. QED BY <1>1, <1>3, <2>1, EditingStep
<1>. QED BY <1>5, <1>6

\* The keys that move to an end, and a line that is taken.
LEMMA StepEnds ==
  ASSUME EditorInv, DOMAIN tui' = TuiFields,
         \/ tui'.input_buffer = tui.input_buffer /\ tui'.cursor = 0
         \/ tui'.input_buffer = tui.input_buffer /\ tui'.cursor = Len(tui.input_buffer)
         \/ tui'.input_buffer = <<>> /\ tui'.cursor = 0
  PROVE  EditorInv' /\ [Editor!LineNext]_(Editor!line)
<1>1. PICK b, k, e : b = tui.input_buffer /\ k = tui.cursor /\ e = <<>>
  OBVIOUS
<1>2. KeyEdited(b, k, b, 0) /\ KeyEdited(b, k, b, Len(b)) /\ KeyEdited(b, k, e, 0)
  <2>1. Encoded(b, k)
    BY <1>1 DEF EditorInv
  <2>2. KeyEdited(b, k, b, 0) /\ KeyEdited(b, k, b, Len(b)) /\ KeyEdited(b, k, <<>>, 0)
    BY <2>1, MovedIsEdited
  <2>. QED BY <1>1, <2>2
<1>3. CASE tui'.input_buffer = b /\ tui'.cursor = 0
  BY <1>1, <1>2, <1>3, EditingStep
<1>4. CASE tui'.input_buffer = b /\ tui'.cursor = Len(b)
  BY <1>1, <1>2, <1>4, EditingStep
<1>5. CASE tui'.input_buffer = e /\ tui'.cursor = 0
  BY <1>1, <1>2, <1>5, EditingStep
<1>. QED BY <1>1, <1>3, <1>4, <1>5

LEMMA StepEditKey ==
  ASSUME EditorInv, EditKey
  PROVE  EditorInv' /\ [Editor!LineNext]_(Editor!line)
<1>1. DOMAIN tui = TuiFields /\ tui.cursor \in Nat /\ Len(tui.input_buffer) \in Nat
  BY DEF EditorInv, TuiFields, Encoded, ByteSeqs
<1>2. CASE Handled(input_backspace) \/ Handled(input_left)
  <2>1. CASE tui.cursor # 0
    BY <1>2, <2>1, StepBackspace
  <2>2. CASE tui.cursor = 0
    <3>1. /\ DOMAIN tui' = TuiFields /\ tui'.input_buffer = tui.input_buffer
          /\ tui'.cursor = tui.cursor
      BY <1>1, <1>2, <2>2 DEF TuiFields, Handled, input_backspace, input_left
    <3>. QED BY <3>1, OtherStep
  <2>. QED BY <2>1, <2>2
<1>3. CASE Handled(input_delete) \/ Handled(input_right)
  <2>1. CASE tui.cursor < Len(tui.input_buffer)
    BY <1>3, <2>1, StepDelete
  <2>2. CASE tui.cursor >= Len(tui.input_buffer)
    <3>1. /\ DOMAIN tui' = TuiFields /\ tui'.input_buffer = tui.input_buffer
          /\ tui'.cursor = tui.cursor
      BY <1>1, <1>3, <2>2 DEF TuiFields, Handled, input_delete, input_right
    <3>. QED BY <3>1, OtherStep
  <2>. QED BY <1>1, <2>1, <2>2
<1>4. CASE Handled([tui EXCEPT !.cursor = 0])
  <2>1. /\ DOMAIN tui' = TuiFields /\ tui'.input_buffer = tui.input_buffer /\ tui'.cursor = 0
    BY <1>1, <1>4 DEF TuiFields, Handled
  <2>. QED BY <2>1, StepEnds
<1>5. CASE Handled([tui EXCEPT !.cursor = Len(tui.input_buffer)])
  <2>1. /\ DOMAIN tui' = TuiFields /\ tui'.input_buffer = tui.input_buffer
        /\ tui'.cursor = Len(tui.input_buffer)
    BY <1>1, <1>5 DEF TuiFields, Handled
  <2>. QED BY <2>1, StepEnds
<1>. QED BY <1>2, <1>3, <1>4, <1>5 DEF EditKey

\* Escape and Enter: the line is taken, or stays when there is none and the loop ends.
LEMMA StepLineTaken ==
  ASSUME EditorInv, EscapeKey \/ EnterKey
  PROVE  EditorInv' /\ [Editor!LineNext]_(Editor!line)
<1>1. DOMAIN tui = TuiFields
  BY DEF EditorInv, TuiFields
<1>2. /\ DOMAIN tui' = TuiFields
      /\ \/ tui'.input_buffer = <<>> /\ tui'.cursor = 0
         \/ tui'.input_buffer = tui.input_buffer /\ tui'.cursor = tui.cursor
  <2>1. CASE EscapeKey
    BY <1>1, <2>1 DEF EscapeKey, Handled, take_input, request_exit, TuiFields
  <2>2. CASE EnterKey /\ IsBlank(tui.input_buffer)
    BY <1>1, <2>2 DEF EnterKey, Handled, take_input, TuiFields
  <2>3. CASE EnterKey /\ ~IsBlank(tui.input_buffer)
    BY <1>1, <2>3 DEF EnterKey, Handled, take_input, request_exit, push, TuiFields
  <2>. QED BY <2>1, <2>2, <2>3
<1>. QED BY <1>2, OtherStep, StepEnds

\* The steps that do not edit.
LEMMA StepsOfLoop ==
  ASSUME EditorInv,
         \/ EnableRawMode \/ EnterAlternateScreen \/ MakeTerminal \/ DrawFrame \/ NoKey
         \/ DropGuard \/ ExitKey \/ ScrollKey \/ UNCHANGED tui
  PROVE  EditorInv' /\ [Editor!LineNext]_(Editor!line)
<1>1. DOMAIN tui = TuiFields
  BY DEF EditorInv, TuiFields
<1>2. /\ DOMAIN tui' = TuiFields /\ tui'.input_buffer = tui.input_buffer
      /\ tui'.cursor = tui.cursor
  <2>1. CASE EnableRawMode \/ EnterAlternateScreen
    BY <1>1, <2>1 DEF EnableRawMode, EnterAlternateScreen, TuiFields
  <2>2. CASE MakeTerminal \/ DrawFrame
    BY <1>1, <2>2 DEF MakeTerminal, DrawFrame, TuiFields
  <2>3. CASE NoKey \/ DropGuard
    BY <1>1, <2>3 DEF NoKey, DropGuard, TuiFields
  <2>4. CASE ExitKey
    BY <1>1, <2>4 DEF ExitKey, Handled, request_exit, TuiFields
  <2>5. CASE ScrollKey
    BY <1>1, <2>5 DEF ScrollKey, Handled, scroll_up, scroll_down, TuiFields
  <2>6. CASE UNCHANGED tui
    BY <1>1, <2>6
  <2>. QED BY <2>1, <2>2, <2>3, <2>4, <2>5, <2>6
<1>. QED BY <1>2, OtherStep

\* The keys, which work on bytes and on an offset into them, are an editor of one line
\* of characters: EditorIsALine, for whatever characters and however long the line. The
\* invariant is that the cursor stands at a character's beginning, or the end.
THEOREM LineIsEdited == TuiSpec => EditorIsALine
<1>1. TuiInit => EditorInv /\ Editor!LineInit
  BY InitEditor
<1>2. EditorInv /\ [TuiNext]_tui => EditorInv' /\ [Editor!LineNext]_(Editor!line)
  <2>. SUFFICES ASSUME EditorInv, [TuiNext]_tui
                PROVE  EditorInv' /\ [Editor!LineNext]_(Editor!line)
    OBVIOUS
  <2>1. CASE \/ EnableRawMode \/ EnterAlternateScreen \/ MakeTerminal \/ DrawFrame \/ NoKey
             \/ DropGuard \/ ExitKey \/ ScrollKey \/ UNCHANGED tui
    BY <2>1, StepsOfLoop
  <2>2. CASE TypeKey
    BY <2>2, StepTypeKey
  <2>3. CASE EditKey
    BY <2>3, StepEditKey
  <2>4. CASE EscapeKey \/ EnterKey
    BY <2>4, StepLineTaken
  <2>. QED BY <2>1, <2>2, <2>3, <2>4 DEF TuiNext
<1>. QED BY <1>1, <1>2, PTL DEF TuiSpec, EditorIsALine, Editor!LineSpec

----------------------------------------------------------------------------
(* Functions that go on step by step, and sequences filtered and put in order *)

\* A function on the numbers begins with c, and goes on by D, which knows where it is.
Recurs(f, D, c) == f[0] = c /\ \A n \in Nat : f[n + 1] = D[<<n, f[n]>>]

\* A value and a step that depends on the number make a function on the numbers.
LEMMA CourseOfSteps ==
  ASSUME NEW U, NEW D \in [Nat \X U -> U], NEW c \in U
  PROVE  \E f \in [Nat -> U] : Recurs(f, D, c)
<1>. DEFINE W == Nat \X U
            E == [w \in W |-> <<w[1] + 1, D[w]>>]
            a == <<0, c>>
<1>1. a \in W /\ E \in [W -> W]
  <2>1. \A w \in W : w[1] + 1 \in Nat /\ D[w] \in U
    OBVIOUS
  <2>. QED BY <2>1
<1>2. PICK g \in [Nat -> W] : g[0] = a /\ \A n \in Nat : g[n + 1] = E[g[n]]
  <2>. HIDE DEF W, E, a
  <2>1. Iterates(W, E, a)
    BY <1>1, PrimitiveRecursion
  <2>. QED BY <2>1 DEF Iterates
<1>3. \A n \in Nat : g[n + 1] = <<g[n][1] + 1, D[g[n]]>> /\ g[n] \in W
  BY <1>2
<1>. DEFINE S == {n \in Nat : g[n][1] = n}
            f == [n \in Nat |-> g[n][2]]
<1>4. Nat \subseteq S
  <2>1. 0 \in S
    BY <1>2
  <2>2. \A n \in Nat : n \in S => n + 1 \in S
    BY <1>3
  <2>. HIDE DEF S
  <2>. QED BY <2>1, <2>2, Inductive
<1>5. \A n \in Nat : g[n] = <<n, f[n]>>
  <2>1. \A w \in W : w = <<w[1], w[2]>>
    OBVIOUS
  <2>. QED BY <1>3, <1>4, <2>1
<1>6. f \in [Nat -> U]
  BY <1>3
<1>7. f[0] = c
  BY <1>2
<1>8. \A n \in Nat : f[n + 1] = D[<<n, f[n]>>]
  <2>. SUFFICES ASSUME NEW n \in Nat PROVE f[n + 1] = D[<<n, f[n]>>]
    OBVIOUS
  <2>1. f[n + 1] = g[n + 1][2]
    OBVIOUS
  <2>. HIDE DEF f
  <2>2. g[n + 1] = <<g[n][1] + 1, D[g[n]]>> /\ g[n] = <<n, f[n]>>
    BY <1>3, <1>5
  <2>3. g[n + 1][2] = D[g[n]]
    BY <2>2
  <2>. QED BY <2>1, <2>2, <2>3
<1>. HIDE DEF f
<1>. QED BY <1>6, <1>7, <1>8 DEF Recurs

\* w takes the steps of D from c up to n; D knows which step it is.
Climbs(w, n, D, c) == w[0] = c /\ \A k \in 1 .. n : w[k] = D[<<k, w[k - 1]>>]

\* There is a function that takes them.
LEMMA StepsExist ==
  ASSUME NEW n \in Nat, NEW U, NEW D \in [Nat \X U -> U], NEW c \in U
  PROVE  \E w \in [0 .. n -> U] : Climbs(w, n, D, c)
<1>. DEFINE E == [p \in Nat \X U |-> D[<<p[1] + 1, p[2]>>]]
<1>1. E \in [Nat \X U -> U]
  <2>1. \A p \in Nat \X U : <<p[1] + 1, p[2]>> \in Nat \X U
    OBVIOUS
  <2>. QED BY <2>1
<1>2. \A k \in Nat, u \in U : E[<<k, u>>] = D[<<k + 1, u>>]
  OBVIOUS
<1>. HIDE DEF E
<1>3. PICK f \in [Nat -> U] : Recurs(f, E, c)
  BY <1>1, CourseOfSteps
<1>. DEFINE w == [k \in 0 .. n |-> f[k]]
<1>4. w \in [0 .. n -> U] /\ w[0] = c
  BY <1>3 DEF Recurs
<1>5. ASSUME NEW k \in 1 .. n PROVE w[k] = D[<<k, w[k - 1]>>]
  <2>1. k - 1 \in Nat /\ (k - 1) + 1 = k /\ k - 1 \in 0 .. n /\ k \in 0 .. n
    OBVIOUS
  <2>2. f[(k - 1) + 1] = E[<<k - 1, f[k - 1]>>]
    BY <1>3, <2>1 DEF Recurs
  <2>3. E[<<k - 1, f[k - 1]>>] = D[<<(k - 1) + 1, f[k - 1]>>]
    BY <1>2, <1>3, <2>1
  <2>4. w[k] = f[k] /\ w[k - 1] = f[k - 1]
    BY <2>1
  <2>. HIDE DEF w
  <2>. QED BY <2>1, <2>2, <2>3, <2>4
<1>. HIDE DEF w
<1>. QED BY <1>4, <1>5 DEF Climbs

\* A function that takes them as long as it is in U stays there, and takes them all.
LEMMA StepsStay ==
  ASSUME NEW n \in Nat, NEW U, NEW D \in [Nat \X U -> U], NEW c \in U, NEW w, w[0] = c,
         \A k \in 1 .. n : w[k - 1] \in U => w[k] = D[<<k, w[k - 1]>>]
  PROVE  Climbs(w, n, D, c) /\ \A k \in 0 .. n : w[k] \in U
<1>. DEFINE Z == {k \in Nat : k <= n => w[k] \in U}
<1>1. 0 \in Z
  OBVIOUS
<1>2. \A k \in Nat : k \in Z => k + 1 \in Z
  <2>. SUFFICES ASSUME NEW k \in Nat, k <= n => w[k] \in U, k + 1 <= n PROVE w[k + 1] \in U
    OBVIOUS
  <2>1. k + 1 \in 1 .. n /\ (k + 1) - 1 = k /\ w[k] \in U
    OBVIOUS
  <2>2. w[k + 1] = D[<<k + 1, w[k]>>] /\ <<k + 1, w[k]>> \in Nat \X U
    BY <2>1
  <2>. QED BY <2>2
<1>3. Nat \subseteq Z
  <2>. HIDE DEF Z
  <2>. QED BY <1>1, <1>2, Inductive
<1>4. \A k \in 0 .. n : w[k] \in U
  BY <1>3
<1>5. \A k \in 1 .. n : k - 1 \in 0 .. n
  OBVIOUS
<1>. QED BY <1>4, <1>5 DEF Climbs

\* What u has filtered of the first elements of s.
Filters(u, s, S) ==
  /\ u[0] = <<>>
  /\ \A n \in 1 .. Len(s) : u[n] = IF s[n] \in S THEN Append(u[n - 1], s[n]) ELSE u[n - 1]

\* A sequence is filtered from its first element to its last.
LEMMA FilteredStepwise ==
  ASSUME NEW T, NEW s \in Seq(T), NEW S
  PROVE  \E u \in [0 .. Len(s) -> Seq(T)] : Filters(u, s, S) /\ Filtered(s, S) = u[Len(s)]
<1>. DEFINE On(t, n) == IF s[n] \in S THEN Append(t, s[n]) ELSE t
            Upto(n, u) == /\ u[0] = <<>> /\ \A k \in 1 .. n : u[k] = On(u[k - 1], k)
            Z == {n \in Nat : n <= Len(s) => \E u \in [0 .. n -> Seq(T)] : Upto(n, u)}
            Steps(u) == u = [n \in 0 .. Len(s) |-> IF n = 0 THEN <<>> ELSE On(u[n - 1], n)]
<1>1. ASSUME NEW n \in 1 .. Len(s), NEW t \in Seq(T) PROVE On(t, n) \in Seq(T)
  OBVIOUS
<1>2. Nat \subseteq Z
  <2>1. 0 \in Z
    <3>1. [k \in 0 .. 0 |-> <<>>] \in [0 .. 0 -> Seq(T)] /\ Upto(0, [k \in 0 .. 0 |-> <<>>])
      OBVIOUS
    <3>. QED BY <3>1
  <2>2. ASSUME NEW n \in Nat, n \in Z, n + 1 <= Len(s)
        PROVE  \E u \in [0 .. n + 1 -> Seq(T)] : Upto(n + 1, u)
    <3>1. PICK u \in [0 .. n -> Seq(T)] : Upto(n, u)
      <4>1. Len(s) \in Nat /\ n <= Len(s)
        BY <2>2
      <4>. HIDE DEF Upto
      <4>. QED BY <2>2, <4>1
    <3>. DEFINE v == [k \in 0 .. n + 1 |-> IF k = n + 1 THEN On(u[n], n + 1) ELSE u[k]]
    <3>2. v \in [0 .. n + 1 -> Seq(T)]
      <4>1. n + 1 \in 1 .. Len(s) /\ u[n] \in Seq(T)
        BY <2>2
      <4>2. On(u[n], n + 1) \in Seq(T)
        BY <1>1, <4>1
      <4>. HIDE DEF On
      <4>. QED BY <4>2
    <3>3. Upto(n + 1, v)
      <4>. HIDE DEF On
      <4>1. n \in 0 .. n + 1 /\ n # n + 1 /\ 0 # n + 1 /\ 0 \in 0 .. n + 1
        BY <2>2
      <4>2. v[0] = u[0] /\ v[n] = u[n] /\ v[n + 1] = On(u[n], n + 1)
        BY <4>1
      <4>3. ASSUME NEW k \in 1 .. n PROVE v[k] = u[k] /\ v[k - 1] = u[k - 1]
        <5>1. k \in 0 .. n + 1 /\ k - 1 \in 0 .. n + 1 /\ k # n + 1 /\ k - 1 # n + 1
          BY <2>2
        <5>. QED BY <5>1
      <4>. HIDE DEF v
      <4>4. ASSUME NEW k \in 1 .. n + 1 PROVE v[k] = On(v[k - 1], k)
        <5>1. CASE k \in 1 .. n
          BY <3>1, <4>3, <5>1
        <5>2. CASE k = n + 1
          <6>1. k - 1 = n
            BY <5>2
          <6>. QED BY <4>2, <5>2, <6>1
        <5>. QED BY <5>1, <5>2
      <4>5. v[0] = <<>>
        BY <3>1, <4>2
      <4>. QED BY <4>4, <4>5
    <3>. HIDE DEF v, Upto
    <3>. QED BY <3>2, <3>3
  <2>3. \A n \in Nat : n \in Z => n + 1 \in Z
    <3>. HIDE DEF Upto
    <3>. QED BY <2>2
  <2>. HIDE DEF Z
  <2>. QED BY <2>1, <2>3, Inductive
<1>3. PICK f \in [0 .. Len(s) -> Seq(T)] : Upto(Len(s), f)
  <2>. HIDE DEF Upto
  <2>. QED BY <1>2
<1>4. Steps(f)
  <2>. HIDE DEF On
  <2>1. \A n \in 0 .. Len(s) : f[n] = IF n = 0 THEN <<>> ELSE On(f[n - 1], n)
    BY <1>3
  <2>. QED BY <1>3, <2>1
<1>. DEFINE h == CHOOSE u : Steps(u)
<1>5. Steps(h)
  <2>. HIDE DEF Steps
  <2>. QED BY <1>4
<1>6. Filtered(s, S) = h[Len(s)]
  BY DEF Filtered
<1>. HIDE DEF h
<1>7. PICK w : w = h
  OBVIOUS
<1>8. Steps(w)
  <2>. HIDE DEF Steps
  <2>. QED BY <1>5, <1>7
<1>9. Upto(Len(s), w) /\ w = [n \in 0 .. Len(s) |-> w[n]]
  <2>. HIDE DEF On
  <2>1. w[0] = <<>>
    BY <1>8
  <2>2. \A n \in 1 .. Len(s) : w[n] = On(w[n - 1], n)
    BY <1>8
  <2>3. w = [n \in 0 .. Len(s) |-> w[n]]
    BY <1>8
  <2>. QED BY <2>1, <2>2, <2>3
<1>. HIDE DEF Steps
<1>. DEFINE Y == {n \in Nat : n <= Len(s) => w[n] \in Seq(T)}
<1>10. Nat \subseteq Y
  <2>1. 0 \in Y
    <3>. HIDE DEF On
    <3>1. w[0] = <<>> /\ <<>> \in Seq(T)
      BY <1>9
    <3>. QED BY <3>1
  <2>2. ASSUME NEW n \in Nat, n \in Y, n + 1 <= Len(s) PROVE w[n + 1] \in Seq(T)
    <3>1. Len(s) \in Nat /\ n + 1 \in 1 .. Len(s) /\ (n + 1) - 1 = n
      BY <2>2
    <3>2. w[n] \in Seq(T)
      BY <2>2, <3>1
    <3>. HIDE DEF On
    <3>3. w[n + 1] = On(w[n], n + 1)
      BY <1>9, <3>1
    <3>. QED BY <1>1, <3>1, <3>2, <3>3
  <2>3. \A n \in Nat : n \in Y => n + 1 \in Y
    BY <2>2
  <2>. HIDE DEF Y
  <2>. QED BY <2>1, <2>3, Inductive
<1>11. w \in [0 .. Len(s) -> Seq(T)]
  BY <1>9, <1>10
<1>12. Filters(w, s, S)
  BY <1>9 DEF Filters
<1>. QED BY <1>6, <1>7, <1>11, <1>12

\* What is filtered are elements of the sequence that are in the set, all of them.
LEMMA FilteredElements ==
  ASSUME NEW T, NEW s \in Seq(T), NEW S
  PROVE  /\ Filtered(s, S) \in Seq(T)
         /\ \A x : (\E k \in 1 .. Len(Filtered(s, S)) : Filtered(s, S)[k] = x)
                     <=> x \in S /\ \E i \in 1 .. Len(s) : s[i] = x
<1>1. PICK u \in [0 .. Len(s) -> Seq(T)] : Filters(u, s, S) /\ Filtered(s, S) = u[Len(s)]
  BY FilteredStepwise
<1>. DEFINE Within(t, x) == \E k \in 1 .. Len(t) : t[k] = x
            Until(n, x) == \E i \in 1 .. n : s[i] = x
            Z == {n \in Nat : n <= Len(s) => \A x : Within(u[n], x) <=> x \in S /\ Until(n, x)}
<1>2. 0 \in Z
  BY <1>1 DEF Filters
<1>3. ASSUME NEW n \in Nat, n \in Z, n + 1 <= Len(s), NEW x
      PROVE  Within(u[n + 1], x) <=> x \in S /\ Until(n + 1, x)
  <2>1. Len(s) \in Nat /\ n + 1 \in 1 .. Len(s) /\ (n + 1) - 1 = n /\ n \in 0 .. Len(s)
    BY <1>3
  <2>2. u[n + 1] = IF s[n + 1] \in S THEN Append(u[n], s[n + 1]) ELSE u[n]
    BY <1>1, <2>1 DEF Filters
  <2>3. u[n] \in Seq(T) /\ s[n + 1] \in T
    BY <2>1
  <2>4. Within(u[n], x) <=> x \in S /\ Until(n, x)
    BY <1>3, <2>1
  <2>5. Until(n + 1, x) <=> Until(n, x) \/ s[n + 1] = x
    <3>1. \A i \in 1 .. n + 1 : i \in 1 .. n \/ i = n + 1
      OBVIOUS
    <3>2. \A i \in 1 .. n : i \in 1 .. n + 1
      OBVIOUS
    <3>. QED BY <2>1, <3>1, <3>2
  <2>6. ASSUME NEW t \in Seq(T), NEW y \in T PROVE Within(Append(t, y), x) <=> Within(t, x) \/ y = x
    <3>1. Len(Append(t, y)) = Len(t) + 1 /\ Append(t, y)[Len(t) + 1] = y /\ Len(t) \in Nat
      OBVIOUS
    <3>2. \A k \in 1 .. Len(t) : Append(t, y)[k] = t[k]
      OBVIOUS
    <3>3. \A k \in 1 .. Len(t) + 1 : k \in 1 .. Len(t) \/ k = Len(t) + 1
      BY <3>1
    <3>4. \A k \in 1 .. Len(t) : k \in 1 .. Len(t) + 1
      BY <3>1
    <3>5. Len(t) + 1 \in 1 .. Len(t) + 1
      BY <3>1
    <3>. QED BY <3>1, <3>2, <3>3, <3>4, <3>5
  <2>7. Within(Append(u[n], s[n + 1]), x) <=> Within(u[n], x) \/ s[n + 1] = x
    <3>. HIDE DEF Within
    <3>. QED BY <2>3, <2>6
  <2>. HIDE DEF Within, Until, Z
  <2>. QED BY <2>2, <2>4, <2>5, <2>7
<1>4. Nat \subseteq Z
  <2>1. \A n \in Nat : n \in Z => n + 1 \in Z
    <3>. HIDE DEF Within, Until
    <3>. QED BY <1>3
  <2>. HIDE DEF Z
  <2>. QED BY <1>2, <2>1, Inductive
<1>5. \A x : Within(u[Len(s)], x) <=> x \in S /\ Until(Len(s), x)
  <2>. HIDE DEF Within, Until
  <2>. QED BY <1>4
<1>6. u[Len(s)] \in Seq(T)
  OBVIOUS
<1>. QED BY <1>1, <1>5, <1>6

\* R puts the elements of I in an order, one behind the other.
Orders(R, I) ==
  /\ \A i \in I : <<i, i>> \notin R
  /\ \A i, j, k \in I : <<i, j>> \in R /\ <<j, k>> \in R => <<i, k>> \in R
  /\ \A i, j \in I : i = j \/ <<i, j>> \in R \/ <<j, i>> \in R

\* An element that comes before another has a lower place.
LEMMA PlaceGrows ==
  ASSUME NEW I, IsFiniteSet(I), NEW R, Orders(R, I), NEW j \in I
  PROVE  /\ Place(I, R, j) \in 0 .. Cardinality(I) - 1
         /\ \A i \in I : <<i, j>> \in R => Place(I, R, i) < Place(I, R, j)
<1>. DEFINE B(i) == {x \in I : <<x, i>> \in R}
<1>1. ASSUME NEW i \in I
      PROVE  /\ IsFiniteSet(B(i)) /\ Cardinality(B(i)) \in Nat
             /\ Cardinality(B(i) \cup {i}) = Cardinality(B(i)) + 1
             /\ B(i) \cup {i} \in SUBSET I
             /\ Place(I, R, i) = Cardinality(B(i))
  <2>1. IsFiniteSet(B(i))
    BY FS_Subset
  <2>2. i \notin B(i)
    BY DEF Orders
  <2>3. Cardinality(B(i)) \in Nat
    BY <2>1, FS_CardinalityType
  <2>4. Cardinality(B(i) \cup {i}) = Cardinality(B(i)) + 1
    BY <2>1, <2>2, FS_AddElement
  <2>5. Place(I, R, i) = Cardinality(B(i))
    BY DEF Place
  <2>. QED BY <2>1, <2>3, <2>4, <2>5
<1>2. Place(I, R, j) \in 0 .. Cardinality(I) - 1
  <2>1. Cardinality(B(j) \cup {j}) <= Cardinality(I) /\ Cardinality(I) \in Nat
    BY <1>1, FS_Subset, FS_CardinalityType
  <2>2. /\ Place(I, R, j) = Cardinality(B(j)) /\ Cardinality(B(j)) \in Nat
        /\ Cardinality(B(j) \cup {j}) = Cardinality(B(j)) + 1
    BY <1>1
  <2>. DEFINE b == Cardinality(B(j))
              n == Cardinality(I)
              c == Cardinality(B(j) \cup {j})
  <2>3. b \in 0 .. n - 1
    <3>1. b \in Nat /\ c = b + 1 /\ c <= n /\ n \in Nat
      BY <2>1, <2>2
    <3>. HIDE DEF b, n, c
    <3>. QED BY <3>1
  <2>. QED BY <2>2, <2>3
<1>3. ASSUME NEW i \in I, <<i, j>> \in R PROVE Place(I, R, i) < Place(I, R, j)
  <2>1. B(i) \cup {i} \in SUBSET B(j)
    BY <1>3 DEF Orders
  <2>2. Cardinality(B(i) \cup {i}) <= Cardinality(B(j))
    BY <1>1, <2>1, FS_Subset
  <2>3. /\ Place(I, R, i) = Cardinality(B(i)) /\ Place(I, R, j) = Cardinality(B(j))
        /\ Cardinality(B(i)) \in Nat /\ Cardinality(B(j)) \in Nat
        /\ Cardinality(B(i) \cup {i}) = Cardinality(B(i)) + 1
    BY <1>1
  <2>. DEFINE b == Cardinality(B(i))
              n == Cardinality(B(j))
              c == Cardinality(B(i) \cup {i})
  <2>4. b < n
    <3>1. b \in Nat /\ c = b + 1 /\ c <= n /\ n \in Nat
      BY <2>2, <2>3
    <3>. HIDE DEF b, n, c
    <3>. QED BY <3>1
  <2>. QED BY <2>3, <2>4
<1>. QED BY <1>2, <1>3

\* Every place is taken, by one.
LEMMA PlacesAreTaken ==
  ASSUME NEW I, IsFiniteSet(I), NEW R, Orders(R, I)
  PROVE  /\ \A i, j \in I : Place(I, R, i) = Place(I, R, j) => i = j
         /\ \A k \in 0 .. Cardinality(I) - 1 : \E i \in I : Place(I, R, i) = k
<1>1. ASSUME NEW i \in I, NEW j \in I, Place(I, R, i) = Place(I, R, j) PROVE i = j
  <2>1. Place(I, R, i) \in Int /\ Place(I, R, j) \in Int
    BY PlaceGrows
  <2>2. <<i, j>> \notin R /\ <<j, i>> \notin R
    BY <1>1, <2>1, PlaceGrows
  <2>. QED BY <2>2 DEF Orders
<1>2. ASSUME NEW k \in 0 .. Cardinality(I) - 1, \A i \in I : Place(I, R, i) # k PROVE FALSE
  <2>. DEFINE n == Cardinality(I)
              T == 0 .. n - 1
              f == [i \in I |-> Place(I, R, i)]
  <2>1. n \in Nat
    BY FS_CardinalityType
  <2>2. \A i \in I : Place(I, R, i) \in T
    BY PlaceGrows
  <2>3. k \in T
    OBVIOUS
  <2>. HIDE DEF n
  <2>4. IsFiniteSet(T) /\ Cardinality(T) = n
    BY <2>1, FS_Interval
  <2>. HIDE DEF T
  <2>5. IsFiniteSet(T \ {k}) /\ Cardinality(T \ {k}) = n - 1
    BY <2>3, <2>4, FS_RemoveElement
  <2>6. f \in [I -> T \ {k}]
    BY <1>2, <2>2
  <2>7. Cardinality(T \ {k}) < Cardinality(I)
    BY <2>1, <2>5 DEF n
  <2>. HIDE DEF f
  <2>8. \E x, y \in I : x # y /\ f[x] = f[y]
    BY <2>5, <2>6, <2>7, FS_PigeonHole
  <2>. QED BY <1>1, <2>8 DEF f
<1>. QED BY <1>1, <1>2

\* at names what stands where when I is put in the order of R.
Arranges(at, I, R) ==
  /\ Cardinality(I) \in Nat
  /\ at \in [1 .. Cardinality(I) -> I]
  /\ \A i \in I : \E k \in 1 .. Cardinality(I) : at[k] = i
  /\ \A k, l \in 1 .. Cardinality(I) : k < l => <<at[k], at[l]>> \in R /\ at[k] # at[l]

\* And so does what a sequence has at these indices.
Sorts(at, I, R) ==
  /\ Arranges(at, I, R)
  /\ \A s : Arranged(s, I, R) = [k \in 1 .. Cardinality(I) |-> s[at[k]]]

\* A sequence is arranged by putting its indices in order.
LEMMA ArrangedInOrder ==
  ASSUME NEW I, IsFiniteSet(I), NEW R, Orders(R, I)
  PROVE  \E at : Sorts(at, I, R)
<1>. DEFINE n == Cardinality(I)
            At(k) == CHOOSE i \in I : Place(I, R, i) = k - 1
            at == [k \in 1 .. n |-> At(k)]
<1>1. n \in Nat
  BY FS_CardinalityType
<1>2. ASSUME NEW k \in 1 .. n PROVE At(k) \in I /\ Place(I, R, At(k)) = k - 1
  <2>1. k - 1 \in 0 .. n - 1
    <3>. HIDE DEF n
    <3>. QED BY <1>1
  <2>2. \E i \in I : Place(I, R, i) = k - 1
    BY <2>1, PlacesAreTaken
  <2>. QED BY <2>2, Zenon
<1>3. ASSUME NEW i \in I PROVE \E k \in 1 .. n : At(k) = i
  <2>. DEFINE k == Place(I, R, i) + 1
  <2>1. Place(I, R, i) \in 0 .. n - 1
    BY PlaceGrows
  <2>2. k \in 1 .. n /\ Place(I, R, i) = k - 1
    <3>. HIDE DEF n
    <3>. QED BY <1>1, <2>1
  <2>. HIDE DEF k, At
  <2>3. At(k) \in I /\ Place(I, R, At(k)) = k - 1
    BY <1>2, <2>2
  <2>4. At(k) = i
    BY <2>2, <2>3, PlacesAreTaken
  <2>. QED BY <2>2, <2>4
<1>4. ASSUME NEW k \in 1 .. n, NEW l \in 1 .. n, k < l
      PROVE  <<At(k), At(l)>> \in R /\ At(k) # At(l)
  <2>. DEFINE a == At(k)
              b == At(l)
  <2>1. a \in I /\ b \in I /\ Place(I, R, a) = k - 1 /\ Place(I, R, b) = l - 1
    BY <1>2
  <2>. HIDE DEF a, b
  <2>2. a # b /\ ~(Place(I, R, b) < Place(I, R, a))
    <3>. HIDE DEF n
    <3>. QED BY <1>1, <1>4, <2>1
  <2>3. <<b, a>> \notin R
    BY <2>1, <2>2, PlaceGrows
  <2>4. <<a, b>> \in R
    BY <2>1, <2>2, <2>3 DEF Orders
  <2>. QED BY <2>2, <2>4 DEF a, b
<1>5. Arranges(at, I, R)
  <2>. HIDE DEF At
  <2>. QED BY <1>1, <1>2, <1>3, <1>4 DEF Arranges
<1>6. ASSUME NEW s PROVE Arranged(s, I, R) = [k \in 1 .. n |-> s[at[k]]]
  <2>1. Arranged(s, I, R) = [k \in 1 .. n |-> s[At(k)]]
    BY DEF Arranged
  <2>. HIDE DEF At, n
  <2>. QED BY <2>1
<1>. HIDE DEF at
<1>. QED BY <1>5, <1>6 DEF Sorts

----------------------------------------------------------------------------
(* The golden migrations *)

\* The fixture is found, loads, and has what it needs to be generated.
Runs(f) == f.needs \subseteq suite.cache /\ f.generates

\* A fixture that was compared, and what of it says that it passed.
Passed(f) == Runs(f) /\ SameOf(TfFiles \ suite.unread, f.emits, f.expected)

SuiteFields == {"pc", "dirs", "cache", "goldens", "i", "output", "results", "report",
                "unread"}

\* Every fixture that was found loads, and those ahead of the one at hand have results.
FixturesRan ==
  /\ suite.goldens = discovered(suite.dirs)
  /\ \A n \in DOMAIN suite.goldens : load_golden(suite.goldens[n]) = "ok"
  /\ suite.i \in 1 .. Len(suite.goldens) + 1
  /\ suite.results \in Seq(BOOLEAN) /\ Len(suite.results) = suite.i - 1
  /\ \A n \in 1 .. suite.i - 1 : suite.results[n] => Passed(suite.goldens[n])

\* The report tells of every fixture, and passes when all of them do.
Reported ==
  /\ suite.i = Len(suite.goldens) + 1
  /\ suite.report.all_passed => \A n \in DOMAIN suite.results : suite.results[n]

\* Behind the discovery the fixtures run, and what is compared is what the one at hand
\* emits.
SuiteInv ==
  /\ suite = [x \in SuiteFields |-> suite[x]]
  /\ suite.pc \in {"discover", "fixture", "compare", "done"}
  /\ suite.dirs \in Fixtures
  /\ suite.pc = "discover" => suite.i = 1 /\ suite.results = <<>> /\ suite.report = "none"
  /\ suite.pc \in {"fixture", "compare"} => suite.report = "none" /\ FixturesRan
  /\ suite.pc = "compare" =>
       suite.i <= Len(suite.goldens) /\ Runs(golden) /\ suite.output = golden.emits
  /\ suite.pc = "done" /\ suite.report.kind = "Report" => FixturesRan /\ Reported

\* Two directories in which nothing differs have the same files, but for those that one
\* of the listings left out; and a listing that leaves out more says less.
LEMMA NothingDiffers ==
  ASSUME NEW a, NEW e, NEW unread, compare_directories(a, e, unread) = {},
         NEW left, unread[1] \cup unread[2] \subseteq left
  PROVE  SameOf(TfFiles \ left, a, e)
<1>. DEFINE shown == list_tf_files(a, unread[1])
            wanted == list_tf_files(e, unread[2])
<1>1. wanted \subseteq shown /\ shown \subseteq wanted
  BY DEF compare_directories
<1>2. \A n \in wanted \cap shown : a[n] = e[n]
  BY DEF compare_directories
<1>3. \A n \in TfFiles \ left : (n \in shown <=> n \in DOMAIN a) /\ (n \in wanted <=> n \in DOMAIN e)
  BY DEF list_tf_files
<1>. HIDE DEF shown, wanted
<1>. QED BY <1>1, <1>2, <1>3 DEF SameOf

\* What load_golden answers is no report.
LEMMA ErrorsAreNoReports ==
  ASSUME NEW f PROVE load_golden(f) # "Report"
BY DEF load_golden

\* The initial state satisfies the invariant.
LEMMA InitSuite == SuiteInit => SuiteInv
<1>. SUFFICES ASSUME NEW dirs \in Fixtures, NEW cache \in SchemaFiles,
                     suite = [SuiteIdle EXCEPT !.pc = "discover", !.dirs = dirs, !.cache = cache]
              PROVE  SuiteInv
  BY DEF SuiteInit
<1>1. suite = [x \in SuiteFields |-> suite[x]]
  BY DEF SuiteIdle, SuiteFields
<1>. QED BY <1>1 DEF SuiteIdle, SuiteInv

\* The directories that are discovered are a sequence of those there are.
LEMMA DiscoveredOf ==
  ASSUME NEW dirs \in Fixtures
  PROVE  /\ dirs \in Seq(ToSet(dirs)) /\ discovered(dirs) \in Seq(ToSet(dirs))
         /\ \A i \in DOMAIN dirs : dirs[i].manifest # "absent" /\ ~dirs[i].hidden =>
              \E n \in DOMAIN discovered(dirs) : discovered(dirs)[n] = dirs[i]
<1>. DEFINE T == ToSet(dirs)
            S == {f \in T : f.manifest # "absent" /\ ~f.hidden}
            found == Filtered(dirs, S)
<1>1. dirs \in Seq(T)
  BY FixturesAssumption
<1>2. \A i \in DOMAIN dirs : dirs[i] \in T
  BY DEF ToSet
<1>3. discovered(dirs) = found
  BY DEF discovered
<1>. HIDE DEF T
<1>4. DOMAIN dirs = 1 .. Len(dirs)
  BY <1>1
<1>. HIDE DEF found
<1>5. /\ found \in Seq(T)
      /\ \A x : (\E k \in 1 .. Len(found) : found[k] = x) <=> x \in S /\ \E i \in 1 .. Len(dirs) : dirs[i] = x
  <2>. HIDE DEF S
  <2>1. Filtered(dirs, S) \in Seq(T)
    BY <1>1, FilteredElements
  <2>2. \A x : (\E k \in 1 .. Len(Filtered(dirs, S)) : Filtered(dirs, S)[k] = x)
                 <=> x \in S /\ \E i \in 1 .. Len(dirs) : dirs[i] = x
    BY <1>1, FilteredElements
  <2>. QED BY <2>1, <2>2 DEF found
<1>6. DOMAIN found = 1 .. Len(found)
  BY <1>5
<1>7. ASSUME NEW i \in DOMAIN dirs, dirs[i].manifest # "absent" /\ ~dirs[i].hidden
      PROVE  \E n \in DOMAIN found : found[n] = dirs[i]
  <2>1. dirs[i] \in S /\ i \in 1 .. Len(dirs)
    BY <1>2, <1>4, <1>7
  <2>. HIDE DEF S
  <2>. QED BY <1>5, <1>6, <2>1
<1>. QED BY <1>1, <1>3, <1>5, <1>7 DEF T

\* Every step of run_suite keeps the invariant.
LEMMA StepSuite == SuiteInv /\ [SuiteNext]_suite => SuiteInv'
<1>. SUFFICES ASSUME SuiteInv, [SuiteNext]_suite PROVE SuiteInv'
  OBVIOUS
<1>. PICK s : s = suite
  OBVIOUS
<1>. DEFINE Keeps == suite' = [x \in SuiteFields |-> suite'[x]]
<1>1. s = [x \in SuiteFields |-> s[x]] /\ s.dirs \in Fixtures
  BY DEF SuiteInv
<1>2. discovered(s.dirs) \in Seq(ToSet(s.dirs))
  BY <1>1, DiscoveredOf
<1>3. CASE DiscoverSuite
  <2>. DEFINE found == discovered(s.dirs)
  <2>1. \/ /\ suite' = [s EXCEPT !.pc = "fixture", !.goldens = found]
           /\ \A n \in DOMAIN found : load_golden(found[n]) = "ok"
        \/ \E n : suite' = [s EXCEPT !.pc = "done", !.report = EvalFailed(load_golden(found[n]))]
    BY <1>3 DEF DiscoverSuite
  <2>2. s.i = 1 /\ s.results = <<>> /\ s.report = "none"
    BY <1>3 DEF DiscoverSuite, SuiteInv
  <2>3. CASE /\ suite' = [s EXCEPT !.pc = "fixture", !.goldens = found]
             /\ \A n \in DOMAIN found : load_golden(found[n]) = "ok"
    <3>1. /\ suite'.pc = "fixture" /\ suite'.goldens = found /\ suite'.dirs = s.dirs
          /\ suite'.i = 1 /\ suite'.results = <<>> /\ suite'.report = "none" /\ Keeps
      BY <1>1, <2>2, <2>3 DEF SuiteFields
    <3>2. Len(found) \in Nat /\ 1 \in 1 .. Len(found) + 1
      BY <1>2
    <3>3. found = discovered(suite'.dirs)
      BY <3>1
    <3>. HIDE DEF found
    <3>4. /\ suite'.results \in Seq(BOOLEAN) /\ Len(suite'.results) = suite'.i - 1
          /\ \A n \in 1 .. suite'.i - 1 : suite'.results[n] => Passed(suite.goldens[n])'
      <4>1. <<>> \in Seq(BOOLEAN) /\ Len(<<>>) = 1 - 1 /\ \A n \in 1 .. 1 - 1 : FALSE
        OBVIOUS
      <4>. QED BY <3>1, <4>1
    <3>5. FixturesRan'
      BY <2>3, <3>1, <3>2, <3>3, <3>4 DEF FixturesRan
    <3>. QED BY <1>1, <3>1, <3>5 DEF SuiteInv
  <2>4. CASE \E n : suite' = [s EXCEPT !.pc = "done", !.report = EvalFailed(load_golden(found[n]))]
    <3>1. PICK n : suite' = [s EXCEPT !.pc = "done", !.report = EvalFailed(load_golden(found[n]))]
      BY <2>4
    <3>2. suite'.pc = "done" /\ suite'.report.kind # "Report" /\ suite'.dirs = s.dirs /\ Keeps
      BY <1>1, <3>1, ErrorsAreNoReports DEF SuiteFields, EvalFailed
    <3>. QED BY <1>1, <3>2 DEF SuiteInv
  <2>. QED BY <2>1, <2>3, <2>4
<1>4. CASE RunFixture
  <2>1. /\ s.pc = "fixture" /\ s.i <= Len(s.goldens) /\ Runs(golden)
        /\ suite' = [s EXCEPT !.pc = "compare", !.output = golden.emits]
    BY <1>4 DEF RunFixture, Runs
  <2>2. /\ suite'.pc = "compare" /\ suite'.output = golden.emits /\ suite'.goldens = s.goldens
        /\ suite'.i = s.i /\ suite'.results = s.results /\ suite'.dirs = s.dirs
        /\ suite'.cache = s.cache /\ suite'.report = s.report /\ suite'.unread = s.unread /\ Keeps
    BY <1>1, <2>1 DEF SuiteFields
  <2>3. golden' = golden /\ \A f : Runs(f)' <=> Runs(f)
    BY <2>2 DEF golden, Runs
  <2>4. \A f : Passed(f)' <=> Passed(f)
    BY <2>2, <2>3 DEF Passed
  <2>5. FixturesRan /\ s.report = "none"
    BY <2>1 DEF SuiteInv
  <2>6. FixturesRan'
    BY <2>2, <2>4, <2>5 DEF FixturesRan
  <2>7. suite'.output = (golden.emits)' /\ Runs(golden)'
    BY <2>1, <2>2, <2>3
  <2>. QED BY <1>1, <2>1, <2>2, <2>5, <2>6, <2>7 DEF SuiteInv
<1>5. CASE FixtureFails
  <2>1. PICK why \in {"MissingSchema", "Generator"} :
            suite' = [s EXCEPT !.pc = "done", !.report = EvalFailed(why)]
    BY <1>5 DEF FixtureFails
  <2>2. suite'.pc = "done" /\ suite'.report.kind # "Report" /\ suite'.dirs = s.dirs /\ Keeps
    BY <1>1, <2>1 DEF SuiteFields, EvalFailed
  <2>. QED BY <1>1, <2>2 DEF SuiteInv
<1>6. CASE CompareFixture
  <2>. DEFINE found == s.goldens
  <2>1. PICK unread \in (SUBSET TfFiles) \X (SUBSET TfFiles) :
               suite' = [s EXCEPT !.pc = "fixture", !.i = @ + 1,
                           !.unread = @ \cup unread[1] \cup unread[2],
                           !.results = Append(@,
                              compare_directories(s.output, golden.expected, unread) = {})]
    BY <1>6 DEF CompareFixture
  <2>. DEFINE same == compare_directories(s.output, golden.expected, unread) = {}
              left == s.unread \cup unread[1] \cup unread[2]
  <2>2. /\ s.pc = "compare"
        /\ suite' = [s EXCEPT !.pc = "fixture", !.i = @ + 1, !.unread = left,
                               !.results = Append(@, same)]
    BY <1>6, <2>1 DEF CompareFixture
  <2>3. /\ s.i \in 1 .. Len(found) /\ Len(found) \in Nat /\ Runs(golden) /\ s.output = golden.emits
        /\ s.results \in Seq(BOOLEAN) /\ Len(s.results) = s.i - 1
        /\ \A n \in 1 .. s.i - 1 : s.results[n] => Passed(found[n])
        /\ found = discovered(s.dirs) /\ \A n \in DOMAIN found : load_golden(found[n]) = "ok"
    <3>1. FixturesRan /\ s.i <= Len(s.goldens) /\ Runs(golden) /\ s.output = golden.emits
      BY <2>2 DEF SuiteInv
    <3>2. Len(found) \in Nat
      BY <1>2, <3>1 DEF FixturesRan
    <3>. QED BY <3>1, <3>2 DEF FixturesRan
  <2>4. /\ suite'.pc = "fixture" /\ suite'.goldens = found /\ suite'.i = s.i + 1
        /\ suite'.results = Append(s.results, same) /\ suite'.dirs = s.dirs
        /\ suite'.cache = s.cache /\ suite'.report = s.report /\ suite'.unread = left /\ Keeps
    BY <1>1, <2>2 DEF SuiteFields
  <2>5. \A f : Passed(f) => Passed(f)'
    <3>1. s.unread \subseteq left
      OBVIOUS
    <3>. QED BY <2>4, <3>1 DEF Passed, Runs, SameOf
  <2>6. same \in BOOLEAN /\ (same => Passed(found[s.i])')
    <3>1. same => SameOf(TfFiles \ left, s.output, golden.expected)
      <4>1. unread[1] \cup unread[2] \subseteq left
        OBVIOUS
      <4>. QED BY <4>1, NothingDiffers
    <3>2. golden = found[s.i]
      BY DEF golden
    <3>3. Runs(golden) => Runs(found[s.i])'
      BY <2>4, <3>2 DEF Runs
    <3>. HIDE DEF left
    <3>. QED BY <2>3, <2>4, <3>1, <3>2, <3>3 DEF Passed
  <2>. HIDE DEF same, left
  <2>7. /\ Append(s.results, same) \in Seq(BOOLEAN) /\ Len(Append(s.results, same)) = (s.i + 1) - 1
        /\ Append(s.results, same)[s.i] = same
        /\ \A n \in 1 .. s.i - 1 : Append(s.results, same)[n] = s.results[n]
    BY <2>3, <2>6
  <2>8. ASSUME NEW n \in 1 .. (s.i + 1) - 1, Append(s.results, same)[n] PROVE Passed(found[n])'
    <3>1. n \in 1 .. s.i - 1 \/ n = s.i
      BY <2>3
    <3>2. Passed(found[n]) => Passed(found[n])'
      BY <2>4, <2>5
    <3>. QED BY <2>3, <2>6, <2>7, <2>8, <3>1, <3>2
  <2>9. s.i + 1 \in 1 .. Len(found) + 1
    BY <2>3
  <2>10. s.report = "none"
    BY <2>2 DEF SuiteInv
  <2>. HIDE DEF found
  <2>11. FixturesRan'
    BY <2>3, <2>4, <2>5, <2>7, <2>8, <2>9 DEF FixturesRan
  <2>. QED BY <1>1, <2>4, <2>10, <2>11 DEF SuiteInv
<1>7. CASE ReportSuite
  <2>. DEFINE all == ~\E n \in DOMAIN s.results : ~s.results[n]
  <2>1. /\ s.pc = "fixture" /\ s.i > Len(s.goldens)
        /\ suite' = [s EXCEPT !.pc = "done", !.report = [kind |-> "Report", all_passed |-> all]]
    BY <1>7 DEF ReportSuite
  <2>2. /\ suite'.pc = "done" /\ suite'.report.kind = "Report" /\ suite'.report.all_passed = all
        /\ suite'.goldens = s.goldens /\ suite'.i = s.i /\ suite'.results = s.results
        /\ suite'.dirs = s.dirs /\ suite'.cache = s.cache /\ suite'.unread = s.unread /\ Keeps
    BY <1>1, <2>1 DEF SuiteFields
  <2>3. \A f : Passed(f)' <=> Passed(f)
    BY <2>2 DEF Passed, Runs
  <2>4. FixturesRan /\ s.i = Len(s.goldens) + 1
    <3>1. FixturesRan
      BY <2>1 DEF SuiteInv
    <3>2. s.i \in 1 .. Len(s.goldens) + 1 /\ Len(s.goldens) \in Nat
      BY <1>2, <3>1 DEF FixturesRan
    <3>. QED BY <2>1, <3>1, <3>2
  <2>5. all => \A n \in DOMAIN s.results : s.results[n]
    OBVIOUS
  <2>. HIDE DEF all
  <2>6. FixturesRan'
    BY <2>2, <2>3, <2>4 DEF FixturesRan
  <2>7. Reported'
    BY <2>2, <2>4, <2>5 DEF Reported
  <2>. QED BY <1>1, <2>2, <2>6, <2>7 DEF SuiteInv
<1>8. CASE CompareFails
  <2>1. suite' = [s EXCEPT !.pc = "done", !.report = EvalFailed("Io")]
    BY <1>8 DEF CompareFails
  <2>2. suite'.pc = "done" /\ suite'.report.kind # "Report" /\ suite'.dirs = s.dirs /\ Keeps
    BY <1>1, <2>1 DEF SuiteFields, EvalFailed
  <2>. QED BY <1>1, <2>2 DEF SuiteInv
<1>9. CASE UNCHANGED suite
  BY <1>9 DEF SuiteInv, FixturesRan, Reported, Passed, Runs, golden
<1>. QED BY <1>3, <1>4, <1>5, <1>6, <1>7, <1>9, <1>8 DEF SuiteNext

\* The merge gate lets no suite through whose .tf files differ from what is expected.
LEMMA SuiteIsReproduced == SuiteInv => PassedSuiteIsReproduced
<1>. SUFFICES ASSUME SuiteInv, NEW i \in PassedFixtures
              PROVE  LET f == suite.dirs[i] IN
                     /\ load_golden(f) = "ok" /\ f.needs \subseteq suite.cache
                     /\ f.generates /\ SameOf(TfFiles \ suite.unread, f.emits, f.expected)
  BY DEF PassedSuiteIsReproduced
<1>. DEFINE found == discovered(suite.dirs)
<1>1. /\ suite.pc = "done" /\ suite.report.kind = "Report" /\ suite.report.all_passed
      /\ i \in DOMAIN suite.dirs /\ suite.dirs[i].manifest # "absent" /\ ~suite.dirs[i].hidden
  BY DEF PassedFixtures
<1>2. /\ suite.dirs \in Fixtures /\ suite.goldens = found
      /\ \A n \in DOMAIN found : load_golden(found[n]) = "ok"
      /\ suite.results \in Seq(BOOLEAN) /\ Len(suite.results) = suite.i - 1
      /\ \A n \in 1 .. suite.i - 1 : suite.results[n] => Passed(found[n])
      /\ suite.i = Len(found) + 1
      /\ \A n \in DOMAIN suite.results : suite.results[n]
  BY <1>1 DEF SuiteInv, FixturesRan, Reported
<1>3. found \in Seq(ToSet(suite.dirs))
  BY <1>2, DiscoveredOf
<1>4. PICK n \in DOMAIN found : found[n] = suite.dirs[i]
  BY <1>1, <1>2, DiscoveredOf
<1>. HIDE DEF found
<1>5. n \in 1 .. suite.i - 1 /\ n \in DOMAIN suite.results
  BY <1>2, <1>3
<1>6. Passed(found[n]) /\ load_golden(found[n]) = "ok"
  BY <1>2, <1>5
<1>. QED BY <1>4, <1>6 DEF Passed, Runs

----------------------------------------------------------------------------
(* The cost gate *)

\* A report is a sequence of results whose costs are numbers.
LEMMA ReportsHaveCosts ==
  ASSUME NEW results \in CostReports
  PROVE  /\ Len(results) \in Nat /\ DOMAIN results = 1 .. Len(results)
         /\ \A i \in 1 .. Len(results) : results[i].cost \in Nat
<1>1. results \in Seq(ToSet(results))
  BY CostsAssumption
<1>2. DOMAIN results = 1 .. Len(results) /\ Len(results) \in Nat
  BY <1>1
<1>3. \A i \in DOMAIN results : results[i] \in ToSet(results)
  BY DEF ToSet
<1>. QED BY <1>2, <1>3, CostsAssumption

\* What a report costs in all is a number.
LEMMA TotalIsCounted ==
  ASSUME NEW results \in CostReports
  PROVE  TotalCost(results) \in Nat
<1>. DEFINE n == Len(results)
            Steps(u) == u = [k \in 0 .. Len(results) |-> IF k = 0 THEN 0 ELSE u[k - 1] + results[k].cost]
            D == [p \in Nat \X Nat |-> IF p[1] \in 1 .. n THEN p[2] + results[p[1]].cost ELSE 0]
<1>1. n \in Nat /\ \A k \in 1 .. n : results[k].cost \in Nat
  BY ReportsHaveCosts
<1>2. D \in [Nat \X Nat -> Nat]
  <2>1. \A p \in Nat \X Nat :
          (IF p[1] \in 1 .. n THEN p[2] + results[p[1]].cost ELSE 0) \in Nat
    BY <1>1
  <2>. QED BY <2>1
<1>3. \A k \in 1 .. n, c \in Nat : D[<<k, c>>] = c + results[k].cost
  <2>1. \A k \in 1 .. n : k \in Nat
    BY <1>1
  <2>. HIDE DEF n
  <2>. QED BY <2>1
<1>. HIDE DEF D
<1>4. PICK g \in [0 .. n -> Nat] : Climbs(g, n, D, 0)
  <2>. HIDE DEF n
  <2>. QED BY <1>1, <1>2, StepsExist
<1>5. Steps(g)
  <2>1. \A k \in 0 .. n : g[k] = IF k = 0 THEN 0 ELSE g[k - 1] + results[k].cost
    <3>. SUFFICES ASSUME NEW k \in 1 .. n PROVE g[k] = g[k - 1] + results[k].cost
      BY <1>1, <1>4 DEF Climbs
    <3>1. k - 1 \in 0 .. n
      BY <1>1
    <3>. HIDE DEF n
    <3>. QED BY <1>3, <1>4, <3>1 DEF Climbs
  <2>. QED BY <1>4, <2>1
<1>. DEFINE h == CHOOSE u : Steps(u)
<1>6. Steps(h)
  <2>. HIDE DEF Steps
  <2>. QED BY <1>5
<1>7. TotalCost(results) = h[n]
  BY DEF TotalCost
<1>. HIDE DEF h
<1>8. PICK w : w = h
  OBVIOUS
<1>9. Steps(w)
  <2>. HIDE DEF Steps
  <2>. QED BY <1>6, <1>8
<1>10. w[0] = 0 /\ \A k \in 1 .. n : w[k] = w[k - 1] + results[k].cost
  <2>1. 0 \in 0 .. n /\ \A k \in 1 .. n : k \in 0 .. n /\ k # 0
    BY <1>1
  <2>. QED BY <1>9, <2>1
<1>. HIDE DEF Steps, n
<1>11. \A k \in 1 .. n : w[k - 1] \in Nat => w[k] = D[<<k, w[k - 1]>>]
  BY <1>3, <1>10
<1>12. Climbs(w, n, D, 0) /\ \A k \in 0 .. n : w[k] \in Nat
  <2>. DEFINE U == Nat
  <2>1. /\ n \in Nat /\ D \in [Nat \X U -> U] /\ 0 \in U /\ w[0] = 0
        /\ \A k \in 1 .. n : w[k - 1] \in U => w[k] = D[<<k, w[k - 1]>>]
    BY <1>1, <1>2, <1>10, <1>11
  <2>. HIDE DEF U
  <2>2. Climbs(w, n, D, 0) /\ \A k \in 0 .. n : w[k] \in U
    BY <2>1, StepsStay
  <2>. QED BY <2>2 DEF U
<1>. QED BY <1>1, <1>7, <1>8, <1>12

\* A comparison of two quotients: n by d for the one, m by e for the other.
Above(n, d, m, e) == n * e > m * d

\* Of three quotients with positive denominators.
LEMMA QuotientsAreOrdered ==
  ASSUME NEW a \in Int, NEW b \in Int, NEW c \in Int,
         NEW p \in Nat \ {0}, NEW q \in Nat \ {0}, NEW r \in Nat \ {0}
  PROVE  /\ ~Above(a, p, a, p)
         /\ Above(a, p, b, q) => ~Above(b, q, a, p)
         /\ Above(a, p, b, q) /\ ~Above(c, r, b, q) => Above(a, p, c, r)
         /\ ~Above(b, q, a, p) /\ Above(b, q, c, r) => Above(a, p, c, r)
         /\ ~Above(b, q, a, p) /\ ~Above(c, r, b, q) => ~Above(c, r, a, p)
<1>1. ASSUME NEW x \in Int, NEW y \in Int, NEW z \in Nat \ {0}
      PROVE  /\ x > y => x * z > y * z
             /\ x >= y => x * z >= y * z
             /\ x * z > y * z => x > y
  OBVIOUS
<1>2. /\ a * q \in Int /\ b * p \in Int /\ b * r \in Int /\ c * q \in Int
      /\ a * r \in Int /\ c * p \in Int
  OBVIOUS
<1>3. /\ (a * q) * r = (a * r) * q
      /\ (b * p) * r = (b * r) * p
      /\ (c * q) * p = (c * p) * q
  OBVIOUS
<1>4. ASSUME Above(a, p, b, q), ~Above(c, r, b, q) PROVE Above(a, p, c, r)
  <2>1. a * q > b * p /\ b * r >= c * q
    BY <1>2, <1>4 DEF Above
  <2>2. (a * q) * r > (b * p) * r /\ (b * r) * p >= (c * q) * p
    BY <1>1, <1>2, <2>1
  <2>3. (a * r) * q > (c * p) * q
    <3>1. /\ (a * q) * r \in Int /\ (b * p) * r \in Int /\ (c * q) * p \in Int
          /\ (a * r) * q \in Int /\ (b * r) * p \in Int /\ (c * p) * q \in Int
      BY <1>2
    <3>. QED BY <1>3, <2>2, <3>1
  <2>. QED BY <1>1, <1>2, <2>3 DEF Above
<1>5. ASSUME ~Above(b, q, a, p), Above(b, q, c, r) PROVE Above(a, p, c, r)
  <2>1. a * q >= b * p /\ b * r > c * q
    BY <1>2, <1>5 DEF Above
  <2>2. (a * q) * r >= (b * p) * r /\ (b * r) * p > (c * q) * p
    BY <1>1, <1>2, <2>1
  <2>3. (a * r) * q > (c * p) * q
    <3>1. /\ (a * q) * r \in Int /\ (b * p) * r \in Int /\ (c * q) * p \in Int
          /\ (a * r) * q \in Int /\ (b * r) * p \in Int /\ (c * p) * q \in Int
      BY <1>2
    <3>. QED BY <1>3, <2>2, <3>1
  <2>. QED BY <1>1, <1>2, <2>3 DEF Above
<1>6. ASSUME ~Above(b, q, a, p), ~Above(c, r, b, q) PROVE ~Above(c, r, a, p)
  <2>1. a * q >= b * p /\ b * r >= c * q
    BY <1>2, <1>6 DEF Above
  <2>2. (a * q) * r >= (b * p) * r /\ (b * r) * p >= (c * q) * p
    BY <1>1, <1>2, <2>1
  <2>3. ~((c * p) * q > (a * r) * q)
    <3>1. /\ (a * q) * r \in Int /\ (b * p) * r \in Int /\ (c * q) * p \in Int
          /\ (a * r) * q \in Int /\ (b * r) * p \in Int /\ (c * p) * q \in Int
      BY <1>2
    <3>. QED BY <1>3, <2>2, <3>1
  <2>. QED BY <1>1, <1>2, <2>3 DEF Above
<1>7. ~Above(a, p, a, p) /\ (Above(a, p, b, q) => ~Above(b, q, a, p))
  BY <1>2 DEF Above
<1>. QED BY <1>4, <1>5, <1>6, <1>7


\* Deltas that are quotients.
Quotients(deltas) ==
  /\ Len(deltas) \in Nat /\ DOMAIN deltas = 1 .. Len(deltas)
  /\ \A i \in 1 .. Len(deltas) : deltas[i].pct.num \in Int /\ deltas[i].pct.den \in Nat \ {0}

\* The worst first is an order of them: a later one of the same change stays behind.
LEMMA DeltasAreOrdered ==
  ASSUME NEW deltas, Quotients(deltas)
  PROVE  Orders(worst_first(deltas), DOMAIN deltas)
<1>. DEFINE I == DOMAIN deltas
            R == worst_first(deltas)
            A(i, j) == WorstFirst(deltas[i], deltas[j])
<1>1. I \subseteq Nat
  BY DEF Quotients
<1>2. \A i, j \in I : <<i, j>> \in R <=> A(i, j) \/ (~A(j, i) /\ i < j)
  BY DEF worst_first
<1>3. ASSUME NEW i \in I, NEW j \in I, NEW k \in I
      PROVE  /\ ~A(i, i) /\ (A(i, j) => ~A(j, i))
             /\ A(i, j) /\ ~A(k, j) => A(i, k)
             /\ ~A(j, i) /\ A(j, k) => A(i, k)
             /\ ~A(j, i) /\ ~A(k, j) => ~A(k, i)
  <2>. DEFINE num(x) == deltas[x].pct.num
              den(x) == deltas[x].pct.den
  <2>1. \A x \in I : num(x) \in Int /\ den(x) \in Nat \ {0}
    BY DEF Quotients
  <2>2. \A x, y \in I : A(x, y) <=> Above(num(x), den(x), num(y), den(y))
    BY DEF WorstFirst, Above
  <2>3. PICK a \in Int, p \in Nat \ {0} : a = num(i) /\ p = den(i)
    BY <2>1
  <2>4. PICK b \in Int, q \in Nat \ {0} : b = num(j) /\ q = den(j)
    BY <2>1
  <2>5. PICK c \in Int, r \in Nat \ {0} : c = num(k) /\ r = den(k)
    BY <2>1
  <2>6. /\ ~Above(a, p, a, p)
        /\ Above(a, p, b, q) => ~Above(b, q, a, p)
        /\ Above(a, p, b, q) /\ ~Above(c, r, b, q) => Above(a, p, c, r)
        /\ ~Above(b, q, a, p) /\ Above(b, q, c, r) => Above(a, p, c, r)
        /\ ~Above(b, q, a, p) /\ ~Above(c, r, b, q) => ~Above(c, r, a, p)
    BY QuotientsAreOrdered
  <2>. HIDE DEF A, num, den
  <2>. QED BY <2>2, <2>3, <2>4, <2>5, <2>6
<1>. HIDE DEF A, R, I
<1>4. \A i \in I : <<i, i>> \notin R
  BY <1>1, <1>2, <1>3
<1>5. ASSUME NEW i \in I, NEW j \in I, NEW k \in I, <<i, j>> \in R, <<j, k>> \in R
      PROVE  <<i, k>> \in R
  <2>1. i \in Nat /\ j \in Nat /\ k \in Nat
    BY <1>1
  <2>2. A(i, j) \/ (~A(j, i) /\ i < j)
    BY <1>2, <1>5
  <2>3. A(j, k) \/ (~A(k, j) /\ j < k)
    BY <1>2, <1>5
  <2>4. ~A(k, j)
    BY <1>3, <2>3
  <2>5. CASE A(i, j)
    BY <1>2, <1>3, <2>4, <2>5
  <2>6. CASE ~A(j, i) /\ i < j
    <3>1. CASE A(j, k)
      BY <1>2, <1>3, <2>6, <3>1
    <3>2. CASE j < k
      <4>1. ~A(k, i) /\ i < k
        BY <1>3, <2>1, <2>4, <2>6, <3>2
      <4>. QED BY <1>2, <4>1
    <3>. QED BY <2>3, <3>1, <3>2
  <2>. QED BY <2>2, <2>5, <2>6
<1>6. \A i, j \in I : i = j \/ <<i, j>> \in R \/ <<j, i>> \in R
  <2>. SUFFICES ASSUME NEW i \in I, NEW j \in I, i # j PROVE <<i, j>> \in R \/ <<j, i>> \in R
    OBVIOUS
  <2>1. i < j \/ j < i
    BY <1>1
  <2>. QED BY <1>2, <2>1
<1>. QED BY <1>4, <1>5, <1>6 DEF Orders, I, R

\* They are told in that order, each once.
LEMMA DeltasAreSorted ==
  ASSUME NEW deltas, Quotients(deltas)
  PROVE  LET sorted == sort_by_delta(deltas) IN
         /\ ResultNames(sorted) = ResultNames(deltas)
         /\ \A i, j \in DOMAIN sorted : i < j => ~WorstFirst(sorted[j], sorted[i])
<1>. DEFINE I == DOMAIN deltas
            R == worst_first(deltas)
            N == Cardinality(I)
            sorted == sort_by_delta(deltas)
<1>1. I = 1 .. Len(deltas) /\ Len(deltas) \in Nat /\ IsFiniteSet(I)
  <2>1. I = 1 .. Len(deltas) /\ Len(deltas) \in Nat
    BY DEF Quotients
  <2>2. IsFiniteSet(1 .. Len(deltas))
    BY <2>1, FS_Interval
  <2>. QED BY <2>1, <2>2
<1>2. Orders(R, I)
  BY DeltasAreOrdered
<1>3. PICK at : Arranges(at, I, R) /\ \A s : Arranged(s, I, R) = [k \in 1 .. N |-> s[at[k]]]
  <2>. HIDE DEF I, R, N
  <2>1. PICK at : Sorts(at, I, R)
    BY <1>1, <1>2, ArrangedInOrder
  <2>. QED BY <2>1 DEF Sorts, N
<1>4. sorted = [k \in 1 .. N |-> deltas[at[k]]]
  BY <1>3 DEF sort_by_delta
<1>5. /\ \A k \in 1 .. N : at[k] \in I
      /\ \A i \in I : \E k \in 1 .. N : at[k] = i
      /\ \A k, l \in 1 .. N : k < l => <<at[k], at[l]>> \in R
  BY <1>3 DEF Arranges
<1>. HIDE DEF sorted, N
<1>6. DOMAIN sorted = 1 .. N /\ \A k \in 1 .. N : sorted[k] = deltas[at[k]]
  BY <1>4
<1>7. ResultNames(sorted) = ResultNames(deltas)
  <2>1. \A k \in 1 .. N : \E i \in I : sorted[k].name = deltas[i].name
    BY <1>5, <1>6
  <2>2. \A i \in I : \E k \in 1 .. N : sorted[k].name = deltas[i].name
    BY <1>5, <1>6
  <2>. QED BY <1>6, <2>1, <2>2 DEF ResultNames
<1>8. ASSUME NEW k \in DOMAIN sorted, NEW l \in DOMAIN sorted, k < l
      PROVE  ~WorstFirst(sorted[l], sorted[k])
  <2>1. <<at[k], at[l]>> \in R /\ at[k] \in I /\ at[l] \in I
    BY <1>5, <1>6, <1>8
  <2>2. PICK i \in I, j \in I : i = at[k] /\ j = at[l]
    BY <2>1
  <2>3. WorstFirst(deltas[i], deltas[j]) \/ ~WorstFirst(deltas[j], deltas[i])
    BY <2>1, <2>2 DEF worst_first
  <2>4. WorstFirst(deltas[i], deltas[j]) => ~WorstFirst(deltas[j], deltas[i])
    <3>1. /\ deltas[i].pct.num \in Int /\ deltas[i].pct.den \in Nat \ {0}
          /\ deltas[j].pct.num \in Int /\ deltas[j].pct.den \in Nat \ {0}
      BY DEF Quotients
    <3>2. PICK a \in Int, p \in Nat \ {0} : a = deltas[i].pct.num /\ p = deltas[i].pct.den
      BY <3>1
    <3>3. PICK b \in Int, q \in Nat \ {0} : b = deltas[j].pct.num /\ q = deltas[j].pct.den
      BY <3>1
    <3>4. Above(a, p, b, q) => ~Above(b, q, a, p)
      BY QuotientsAreOrdered
    <3>. QED BY <3>2, <3>3, <3>4 DEF WorstFirst, Above
  <2>. QED BY <1>6, <2>2, <2>3, <2>4
<1>. QED BY <1>7, <1>8 DEF sorted

\* A baseline that was made of a report has a cost for each of its names.
LEMMA BaselineHasCosts ==
  ASSUME NEW earlier \in CostReports, NEW name
  PROVE  /\ DOMAIN from_report(earlier).per_fixture = ResultNames(earlier)
         /\ from_report(earlier).total = TotalCost(earlier)
         /\ BaselineCost(from_report(earlier), name) \in Nat
<1>. DEFINE b == from_report(earlier)
<1>1. /\ b.per_fixture = [x \in ResultNames(earlier) |-> LastCost(earlier, x)]
      /\ b.total = TotalCost(earlier)
  BY DEF from_report
<1>2. ASSUME name \in ResultNames(earlier) PROVE LastCost(earlier, name) \in Nat
  <2>. DEFINE S == {i \in DOMAIN earlier : earlier[i].name = name}
  <2>1. S # {}
    BY <1>2 DEF ResultNames
  <2>2. Len(earlier) \in Nat /\ S \in SUBSET (0 .. Len(earlier)) /\ S \subseteq 1 .. Len(earlier)
    BY ReportsHaveCosts
  <2>. HIDE DEF S
  <2>3. Max(S) \in S
    BY <2>1, <2>2, GreatestAndLeast
  <2>. QED BY <2>2, <2>3, ReportsHaveCosts DEF LastCost, S
<1>3. BaselineCost(b, name) \in Nat
  <2>1. DOMAIN b.per_fixture = ResultNames(earlier)
    BY <1>1
  <2>2. CASE name \in ResultNames(earlier)
    BY <1>1, <1>2, <2>1, <2>2 DEF BaselineCost
  <2>3. CASE name \notin ResultNames(earlier)
    BY <2>1, <2>3 DEF BaselineCost
  <2>. QED BY <2>2, <2>3
<1>. QED BY <1>1, <1>3

\* The verdict of one total against another.
LEMMA VerdictIsLoud ==
  ASSUME NEW b \in Nat, NEW a \in Nat
  PROVE  /\ a = b => \A mode : decide_verdict(b, a, mode) = "Pass"
         /\ a * 100 > b * (100 + REGRESSION_THRESHOLD_PCT) => decide_verdict(b, a, "Strict") = "Fail"
<1>. DEFINE P == REGRESSION_THRESHOLD_PCT
<1>1. P \in Nat
  BY CostsAssumption
<1>2. CASE b = 0
  <2>1. b * (100 + P) = 0
    BY <1>1, <1>2
  <2>2. a * 100 > 0 => a # 0
    OBVIOUS
  <2>. QED BY <1>2, <2>1, <2>2 DEF decide_verdict
<1>3. CASE b # 0
  <2>. HIDE DEF P
  <2>1. b * (100 + P) = 100 * b + P * b /\ P * b \in Nat
    BY <1>1
  <2>2. PICK m \in Nat : m = P * b
    BY <2>1
  <2>3. a = b => ~(100 * (a - b) > m)
    BY <2>2
  <2>4. a * 100 > 100 * b + m => 100 * (a - b) > m
    BY <2>2
  <2>5. pct_change(b, a).num = 100 * (a - b)
    BY <1>3 DEF pct_change
  <2>. QED BY <1>3, <2>1, <2>2, <2>3, <2>4, <2>5 DEF decide_verdict, P
<1>. QED BY <1>2, <1>3

CostFields == {"pc", "earlier", "results", "mode", "verdict"}

\* The verdict is that of the two reports.
CostsInv ==
  /\ costs = [x \in CostFields |-> costs[x]]
  /\ costs.earlier \in CostReports /\ costs.results \in CostReports
  /\ costs.pc \in {"compare", "done"}
  /\ costs.pc = "done" => costs.verdict =
       compare_against_baseline(costs.results, from_report(costs.earlier), costs.mode)

\* It holds from the start and is kept.
LEMMA InitCosts == CostsInit => CostsInv
<1>. SUFFICES ASSUME NEW earlier \in CostReports, NEW results \in CostReports, NEW mode,
                     costs = [CostsIdle EXCEPT !.pc = "compare", !.earlier = earlier,
                                               !.results = results, !.mode = mode]
              PROVE  CostsInv
  BY DEF CostsInit
<1>1. costs = [x \in CostFields |-> costs[x]]
  BY DEF CostsIdle, CostFields
<1>. QED BY <1>1 DEF CostsIdle, CostsInv

LEMMA StepCosts == CostsInv /\ [CompareCosts]_costs => CostsInv'
<1>. SUFFICES ASSUME CostsInv, [CompareCosts]_costs PROVE CostsInv'
  OBVIOUS
<1>. PICK c : c = costs
  OBVIOUS
<1>1. c = [x \in CostFields |-> c[x]] /\ c.earlier \in CostReports /\ c.results \in CostReports
  BY DEF CostsInv
<1>2. CASE CompareCosts
  <2>. DEFINE v == compare_against_baseline(c.results, from_report(c.earlier), c.mode)
  <2>1. costs' = [c EXCEPT !.pc = "done", !.verdict = v]
    BY <1>2 DEF CompareCosts
  <2>. HIDE DEF v
  <2>2. /\ costs'.pc = "done" /\ costs'.verdict = v /\ costs'.earlier = c.earlier
        /\ costs'.results = c.results /\ costs'.mode = c.mode
        /\ costs' = [x \in CostFields |-> costs'[x]]
    BY <1>1, <2>1 DEF CostFields
  <2>. QED BY <1>1, <2>2 DEF CostsInv, v
<1>3. CASE UNCHANGED costs
  BY <1>3 DEF CostsInv
<1>. QED BY <1>2, <1>3

\* What the comparison of two reports tells is loud.
LEMMA ComparisonIsLoud == CostsInv => CostGateIsLoud
<1>. SUFFICES ASSUME CostsInv, costs.pc = "done" PROVE CostGateIsLoud
  BY DEF CostGateIsLoud
<1>. PICK earlier \in CostReports, results \in CostReports :
       earlier = costs.earlier /\ results = costs.results
  BY DEF CostsInv
<1>. PICK mode : mode = costs.mode
  OBVIOUS
<1>. DEFINE b == from_report(earlier)
            deltas == [i \in DOMAIN results |-> Delta(b, results[i])]
            v == costs.verdict
            old == ResultNames(earlier)
            new == ResultNames(results)
<1>1. /\ v.verdict = decide_verdict(TotalCost(earlier), TotalCost(results), mode)
      /\ v.per_fixture = sort_by_delta(deltas)
      /\ v.drift = (old \ new) \cup (new \ old)
  <2>1. v = compare_against_baseline(results, b, mode)
    BY DEF CostsInv
  <2>2. DOMAIN b.per_fixture = old /\ b.total = TotalCost(earlier)
    BY BaselineHasCosts
  <2>. HIDE DEF b, v, old, new
  <2>. QED BY <2>1, <2>2 DEF compare_against_baseline, coverage_drift, new
<1>2. Len(results) \in Nat /\ DOMAIN results = 1 .. Len(results)
      /\ \A i \in 1 .. Len(results) : results[i].cost \in Nat
  BY ReportsHaveCosts
<1>3. Quotients(deltas)
  <2>1. deltas \in Seq({Delta(b, results[i]) : i \in 1 .. Len(results)}) /\ Len(deltas) = Len(results)
    <3>. HIDE DEF b
    <3>. QED BY <1>2
  <2>2. ASSUME NEW i \in 1 .. Len(results)
        PROVE  deltas[i].pct.num \in Int /\ deltas[i].pct.den \in Nat \ {0}
    <3>1. deltas[i].pct = pct_change(BaselineCost(b, results[i].name), results[i].cost)
      BY <1>2 DEF Delta
    <3>2. PICK x \in Nat, y \in Nat : x = BaselineCost(b, results[i].name) /\ y = results[i].cost
      BY <1>2, BaselineHasCosts
    <3>3. pct_change(x, y).num \in Int /\ pct_change(x, y).den \in Nat \ {0}
      BY DEF pct_change
    <3>. QED BY <3>1, <3>2, <3>3
  <2>. HIDE DEF deltas
  <2>. QED BY <1>2, <2>1, <2>2 DEF Quotients
<1>4. ResultNames(deltas) = new
  <2>1. DOMAIN deltas = DOMAIN results /\ \A i \in DOMAIN results : deltas[i].name = results[i].name
    <3>. HIDE DEF b
    <3>. QED BY DEF Delta
  <2>. HIDE DEF deltas
  <2>. QED BY <2>1 DEF ResultNames
<1>. HIDE DEF deltas, b
<1>5. /\ ResultNames(v.per_fixture) = new
      /\ \A i, j \in DOMAIN v.per_fixture : i < j => ~WorstFirst(v.per_fixture[j], v.per_fixture[i])
  <2>. DEFINE sorted == sort_by_delta(deltas)
  <2>1. /\ ResultNames(sorted) = ResultNames(deltas)
        /\ \A i, j \in DOMAIN sorted : i < j => ~WorstFirst(sorted[j], sorted[i])
    BY <1>3, DeltasAreSorted
  <2>. HIDE DEF sorted, v, new
  <2>. QED BY <1>1, <1>4, <2>1 DEF sorted
<1>6. TotalCost(earlier) \in Nat /\ TotalCost(results) \in Nat
  BY TotalIsCounted
<1>7. earlier = results => v.verdict = "Pass"
  <2>1. PICK t \in Nat : t = TotalCost(results)
    BY <1>6
  <2>2. decide_verdict(t, t, mode) = "Pass"
    BY VerdictIsLoud
  <2>. QED BY <1>1, <2>1, <2>2
<1>8. ASSUME mode = "Strict",
             TotalCost(results) * 100 > TotalCost(earlier) * (100 + REGRESSION_THRESHOLD_PCT)
      PROVE  v.verdict = "Fail"
  <2>1. PICK x \in Nat, y \in Nat : x = TotalCost(earlier) /\ y = TotalCost(results)
    BY <1>6
  <2>2. decide_verdict(x, y, "Strict") = "Fail"
    BY <1>8, <2>1, VerdictIsLoud
  <2>. QED BY <1>1, <1>8, <2>1, <2>2
<1>9. earlier = results => old = new
  OBVIOUS
<1>10. /\ old \cup new = ResultNames(v.per_fixture) \cup v.drift
       /\ v.drift \cap old \cap new = {}
       /\ new \ old \subseteq v.drift
       /\ earlier = results => v.drift = {}
  <2>. HIDE DEF old, new, v
  <2>. QED BY <1>1, <1>5, <1>9
<1>. QED BY <1>5, <1>7, <1>8, <1>10 DEF CostGateIsLoud

\* A suite that passes was loaded and generated to the last fixture, the .tf files of each
\* as is expected of it, but for entries no listing showed (what else is in a directory
\* list_tf_files leaves alone: PassedSuiteIsIdentical is false); and the comparison of
\* costs tells of each change, the worst first, and fails what costs too much:
\* MergeGatesAreSound, for whatever fixtures and reports. The invariant ties the results
\* to the fixtures behind the one at hand.
THEOREM MergeGatesHold == SuiteSpec /\ CostsSpec => []MergeGatesAreSound
<1>1. SuiteInit => SuiteInv
  BY InitSuite
<1>2. SuiteInv /\ [SuiteNext]_suite => SuiteInv'
  BY StepSuite
<1>3. CostsInit => CostsInv
  BY InitCosts
<1>4. CostsInv /\ [CompareCosts]_costs => CostsInv'
  BY StepCosts
<1>5. SuiteInv /\ CostsInv => MergeGatesAreSound
  BY SuiteIsReproduced, ComparisonIsLoud DEF MergeGatesAreSound
<1>. QED BY <1>1, <1>2, <1>3, <1>4, <1>5, PTL DEF SuiteSpec, CostsSpec

----------------------------------------------------------------------------
(* What the terminal shows *)

\* Sequences that are joined are one.
LEMMA JoinedIsSequence ==
  ASSUME NEW T, NEW ss \in Seq(Seq(T))
  PROVE  Joined(ss) \in Seq(T)
<1>. DEFINE n == Len(ss)
            U == Seq(T)
            Steps(u) == u = [k \in 0 .. Len(ss) |-> IF k = 0 THEN <<>> ELSE u[k - 1] \o ss[k]]
            D == [p \in Nat \X U |-> IF p[1] \in 1 .. n THEN p[2] \o ss[p[1]] ELSE <<>>]
<1>1. n \in Nat /\ <<>> \in U /\ \A k \in 1 .. n : ss[k] \in U
  OBVIOUS
<1>2. \A t, v \in U : t \o v \in U
  OBVIOUS
<1>3. D \in [Nat \X U -> U]
  <2>1. \A p \in Nat \X U : (IF p[1] \in 1 .. n THEN p[2] \o ss[p[1]] ELSE <<>>) \in U
    <3>. HIDE DEF U, n
    <3>. QED BY <1>1, <1>2
  <2>. HIDE DEF U
  <2>. QED BY <2>1
<1>4. \A k \in 1 .. n, t \in U : D[<<k, t>>] = t \o ss[k]
  <2>1. \A k \in 1 .. n : k \in Nat
    OBVIOUS
  <2>. HIDE DEF n, U
  <2>. QED BY <2>1
<1>. HIDE DEF D
<1>5. PICK g \in [0 .. n -> U] : Climbs(g, n, D, <<>>)
  <2>. HIDE DEF n, U
  <2>. QED BY <1>1, <1>3, StepsExist
<1>6. Steps(g)
  <2>1. \A k \in 0 .. n : g[k] = IF k = 0 THEN <<>> ELSE g[k - 1] \o ss[k]
    <3>1. \A k \in 1 .. n : g[k] = g[k - 1] \o ss[k]
      <4>. SUFFICES ASSUME NEW k \in 1 .. n PROVE g[k] = g[k - 1] \o ss[k]
        OBVIOUS
      <4>1. k - 1 \in 0 .. n
        BY <1>1
      <4>. HIDE DEF n, U
      <4>. QED BY <1>4, <1>5, <4>1 DEF Climbs
    <3>2. g[0] = <<>> /\ \A k \in 0 .. n : k = 0 \/ k \in 1 .. n
      BY <1>1, <1>5 DEF Climbs
    <3>3. 0 \notin 1 .. n
      BY <1>1
    <3>. HIDE DEF n
    <3>. QED BY <3>1, <3>2, <3>3
  <2>. QED BY <1>5, <2>1
<1>. DEFINE h == CHOOSE u : Steps(u)
<1>7. Steps(h)
  <2>. HIDE DEF Steps
  <2>. QED BY <1>6
<1>8. Joined(ss) = h[n]
  BY DEF Joined
<1>. HIDE DEF h
<1>9. PICK w : w = h
  OBVIOUS
<1>10. Steps(w)
  <2>. HIDE DEF Steps
  <2>. QED BY <1>7, <1>9
<1>11. w[0] = <<>> /\ \A k \in 1 .. n : w[k] = w[k - 1] \o ss[k]
  <2>1. 0 \in 0 .. n /\ \A k \in 1 .. n : k \in 0 .. n /\ k # 0
    BY <1>1
  <2>. QED BY <1>10, <2>1
<1>. HIDE DEF Steps, n, U
<1>12. \A k \in 1 .. n : w[k - 1] \in U => w[k] = D[<<k, w[k - 1]>>]
  BY <1>4, <1>11
<1>13. Climbs(w, n, D, <<>>) /\ \A k \in 0 .. n : w[k] \in U
  <2>1. /\ n \in Nat /\ D \in [Nat \X U -> U] /\ <<>> \in U /\ w[0] = <<>>
        /\ \A k \in 1 .. n : w[k - 1] \in U => w[k] = D[<<k, w[k - 1]>>]
    BY <1>1, <1>3, <1>11, <1>12
  <2>. PICK c : c = <<>>
    OBVIOUS
  <2>2. c \in U /\ w[0] = c
    BY <2>1
  <2>3. Climbs(w, n, D, c) /\ \A k \in 0 .. n : w[k] \in U
    BY <2>1, <2>2, StepsStay
  <2>. QED BY <2>3
<1>14. n \in 0 .. n
  BY <1>1
<1>. QED BY <1>8, <1>9, <1>13, <1>14 DEF n, U

\* The lines of the messages are a sequence of numbers of rows.
LEMMA LinesAreCounted ==
  ASSUME Guarded
  PROVE  Len(message_lines) \in Nat
<1>. DEFINE ss == [k \in DOMAIN tui.messages |-> Append(tui.messages[k], 1)]
<1>1. tui.messages \in Seq(Seq(Nat))
  BY DEF Guarded, IsInterface, Messages
<1>2. \A k \in DOMAIN tui.messages : Append(tui.messages[k], 1) \in Seq(Nat)
  BY <1>1
<1>3. ss \in Seq(Seq(Nat))
  <2>1. DOMAIN tui.messages = 1 .. Len(tui.messages) /\ Len(tui.messages) \in Nat
    BY <1>1
  <2>. QED BY <1>2, <2>1
<1>. HIDE DEF ss
<1>4. Joined(ss) \in Seq(Nat)
  BY <1>3, JoinedIsSequence
<1>5. message_lines = Joined(ss)
  BY DEF message_lines, ss
<1>. QED BY <1>4, <1>5

\* The terminal is given back on every way out behind the alternate screen, for every
\* key and command: TerminalGuard of event_loop.rs is there as soon as there is something
\* to restore but the raw mode. The lines render_messages takes are as many as the area
\* has rows, and the last ones while nothing is scrolled, whatever the messages' lines:
\* when one is wrapped they take more, and LatestVisible is false.
THEOREM TerminalIsGivenBack == TuiSpec => []TerminalIsRestored
<1>1. Guarded => TerminalIsRestored
  <2>. SUFFICES ASSUME Guarded PROVE TerminalIsRestored
    OBVIOUS
  <2>. DEFINE total == Len(message_lines)
  <2>1. total \in Nat /\ tui.scroll_offset \in Nat /\ VisibleHeight \in Nat
    BY LinesAreCounted, TerminalAssumption DEF Guarded, IsInterface
  <2>. HIDE DEF total
  <2>. DEFINE from == total - (VisibleHeight + tui.scroll_offset)
              shown == IF VisibleHeight <= total THEN VisibleHeight ELSE total
              a == IF 0 >= from THEN 0 ELSE from
              b == IF 0 >= total - shown THEN 0 ELSE total - shown
  <2>2. from \in Int /\ shown \in Int /\ total - shown \in Int
    BY <2>1
  <2>3. Max({0, from}) = a /\ Min({VisibleHeight, total}) = shown
    <3>. HIDE DEF from
    <3>1. Max({0, from}) = a
      BY <2>2, OfTwo
    <3>2. Min({VisibleHeight, total}) = shown
      BY <2>1, OfTwo
    <3>. QED BY <3>1, <3>2
  <2>. HIDE DEF from, shown
  <2>4. Max({0, total - shown}) = b
    BY <2>2, OfTwo
  <2>5. a \in Int /\ b \in Int
    BY <2>2
  <2>6. first_line = Min({a, b})
    <3>. HIDE DEF a, b
    <3>1. first_line = Min({Max({0, from}), Max({0, total - Min({VisibleHeight, total})})})
      BY DEF first_line, total, from
    <3>. QED BY <3>1, <2>3, <2>4
  <2>7. first_line = IF a <= b THEN a ELSE b
    <3>. HIDE DEF a, b
    <3>. QED BY <2>5, <2>6, OfTwo
  <2>8. Max({VisibleHeight, total}) = IF VisibleHeight >= total THEN VisibleHeight ELSE total
    BY <2>1, OfTwo
  <2>9. /\ first_line + VisibleHeight <= Max({VisibleHeight, total})
        /\ tui.scroll_offset = 0 => first_line + VisibleHeight >= total
    BY <2>1, <2>2, <2>7, <2>8 DEF from, shown
  <2>. QED BY <2>9 DEF TerminalIsRestored, Guarded, total
<1>. QED BY InitTui, StepTui, <1>1, PTL DEF TuiSpec

----------------------------------------------------------------------------
(* The scan of a directory *)

Blocks == DOMAIN BlockOf

\* What is found for a block is a number, and where the text has a header of it, a place
\* that reads like one and is not behind it.
LEMMA SpanIsOfKind ==
  ASSUME NEW T, NEW text \in Seq(T), text = scan.file.text, NEW b \in Blocks
  PROVE  /\ approx_span(BlockOf[b].kind) \in Nat
         /\ \A n \in places_of(text, b) : /\ approx_span(BlockOf[b].kind) \in 1 .. n
                                        /\ reads_as(text[approx_span(BlockOf[b].kind)], b)
<1>. DEFINE kind == BlockOf[b].kind
            at(quoted) == {k \in DOMAIN text : text[k].kind = kind /\ text[k].quoted = quoted}
<1>1. DOMAIN text = 1 .. Len(text) /\ Len(text) \in Nat
  OBVIOUS
<1>2. approx_span(kind) = IF at(TRUE) # {} THEN Min(at(TRUE))
                          ELSE IF at(FALSE) # {} THEN Min(at(FALSE)) ELSE 0
  BY DEF approx_span
<1>3. at(TRUE) \subseteq 1 .. Len(text) /\ at(FALSE) \subseteq 1 .. Len(text)
  BY <1>1
<1>4. ASSUME NEW S \in SUBSET (1 .. Len(text)), S # {}
      PROVE  Min(S) \in S /\ Min(S) \in Nat /\ \A y \in S : Min(S) \in 1 .. y
  <2>1. S \in SUBSET (0 .. Len(text))
    BY <1>1
  <2>2. Min(S) \in S /\ \A y \in S : Min(S) <= y
    BY <1>1, <1>4, <2>1, GreatestAndLeast
  <2>3. PICK m \in 1 .. Len(text) : m = Min(S)
    BY <2>2
  <2>4. \A y \in 1 .. Len(text) : m <= y => m \in 1 .. y
    BY <1>1
  <2>. QED BY <1>1, <2>2, <2>3, <2>4
<1>5. approx_span(kind) \in Nat
  <2>. HIDE DEF at
  <2>1. 0 \in Nat
    OBVIOUS
  <2>. QED BY <1>2, <1>3, <1>4, <2>1
<1>6. ASSUME NEW n \in places_of(text, b)
      PROVE  approx_span(kind) \in 1 .. n /\ reads_as(text[approx_span(kind)], b)
  <2>1. n \in at(TRUE)
    BY DEF places_of, reads_as
  <2>2. approx_span(kind) \in at(TRUE) /\ approx_span(kind) \in 1 .. n
    <3>. HIDE DEF at
    <3>. QED BY <1>2, <1>3, <1>4, <2>1
  <2>3. \A m \in at(TRUE) : reads_as(text[m], b)
    BY DEF reads_as
  <2>. HIDE DEF at
  <2>. QED BY <2>2, <2>3
<1>. QED BY <1>5, <1>6

\* Where a dynamic block is nested, depth by depth.
LEMMA NestsUnfolded ==
  ASSUME NEW m \in Nat, NEW b \in Blocks
  PROVE  nests_dynamic[m][b] <=>
           \E k \in DOMAIN BlockOf[b].inner :
              \/ BlockOf[BlockOf[b].inner[k]].kind = "dynamic"
              \/ m > 0 /\ nests_dynamic[m - 1][BlockOf[b].inner[k]]
<1>. DEFINE U == [Blocks -> BOOLEAN]
            Found(x, k) == BlockOf[BlockOf[x].inner[k]].kind = "dynamic"
            On(n, t, x) == \E k \in DOMAIN BlockOf[x].inner :
                             Found(x, k) \/ (n > 0 /\ t[BlockOf[x].inner[k]])
            Steps(u) == u = [n \in Nat |-> [x \in Blocks |-> On(n, u[n - 1], x)]]
            c == [x \in Blocks |-> \E k \in DOMAIN BlockOf[x].inner : Found(x, k)]
            D == [p \in Nat \X U |-> [x \in Blocks |-> On(p[1] + 1, p[2], x)]]
<1>1. \A n, t, x : On(n, t, x) \in BOOLEAN
  OBVIOUS
<1>2. \A t, x : On(0, t, x) <=> \E k \in DOMAIN BlockOf[x].inner : Found(x, k)
  <2>1. ~(0 > 0)
    OBVIOUS
  <2>. HIDE DEF Found
  <2>. QED BY <2>1
<1>. HIDE DEF On, Found
<1>3. c \in U /\ D \in [Nat \X U -> U]
  BY <1>1
<1>4. \A n \in Nat, t \in U : D[<<n, t>>] = [x \in Blocks |-> On(n + 1, t, x)]
  <2>. HIDE DEF U
  <2>. QED OBVIOUS
<1>. HIDE DEF D
<1>5. PICK f \in [Nat -> U] : Recurs(f, D, c)
  <2>. HIDE DEF U, c
  <2>. QED BY <1>3, CourseOfSteps
<1>6. ASSUME NEW n \in Nat PROVE f[n] = [x \in Blocks |-> On(n, f[n - 1], x)]
  <2>1. CASE n = 0
    <3>1. f[0] = c
      BY <1>5 DEF Recurs
    <3>2. \A x \in Blocks : c[x] = On(0, f[0 - 1], x)
      BY <1>1, <1>2
    <3>3. c = [x \in Blocks |-> On(0, f[0 - 1], x)]
      BY <3>2
    <3>. HIDE DEF c
    <3>. QED BY <2>1, <3>1, <3>3
  <2>2. CASE n # 0
    <3>1. n - 1 \in Nat /\ (n - 1) + 1 = n
      BY <2>2
    <3>2. f[(n - 1) + 1] = D[<<n - 1, f[n - 1]>>] /\ f[n - 1] \in U
      BY <1>5, <3>1 DEF Recurs
    <3>. HIDE DEF U
    <3>. QED BY <1>4, <3>1, <3>2
  <2>. QED BY <2>1, <2>2
<1>7. Steps(f)
  BY <1>5, <1>6
<1>. DEFINE h == CHOOSE u : Steps(u)
<1>8. Steps(h)
  <2>. HIDE DEF Steps
  <2>. QED BY <1>7
<1>9. nests_dynamic = h
  BY DEF nests_dynamic, On, Found, Blocks
<1>. HIDE DEF h
<1>10. PICK w : w = h
  OBVIOUS
<1>11. Steps(w)
  <2>. HIDE DEF Steps
  <2>. QED BY <1>8, <1>10
<1>12. w[m][b] = On(m, w[m - 1], b)
  BY <1>11
<1>. HIDE DEF Steps
<1>. QED BY <1>9, <1>10, <1>12 DEF On, Found

\* What is in a block at a depth.
LEMMA InsideUnfolded ==
  ASSUME NEW m \in Nat, NEW b \in Blocks
  PROVE  inside[m][b] = IF m = 0 THEN {b}
                        ELSE UNION {inside[m - 1][c] : c \in ToSet(BlockOf[b].inner)}
<1>. DEFINE U == [Blocks -> SUBSET Blocks]
            In(t, x) == UNION {t[y] : y \in ToSet(BlockOf[x].inner)}
            Steps(u) == u = [n \in Nat |-> [x \in Blocks |-> IF n = 0 THEN {x} ELSE In(u[n - 1], x)]]
            c == [x \in Blocks |-> {x}]
            D == [p \in Nat \X U |-> [x \in Blocks |-> In(p[2], x)]]
<1>1. ASSUME NEW t \in U, NEW x \in Blocks PROVE In(t, x) \in SUBSET Blocks
  <2>1. ToSet(BlockOf[x].inner) \subseteq Blocks
    BY BlocksAssumption DEF ToSet, Blocks
  <2>. QED BY <2>1
<1>. HIDE DEF In
<1>2. c \in U
  OBVIOUS
<1>3. D \in [Nat \X U -> U]
  <2>1. \A p \in Nat \X U : [x \in Blocks |-> In(p[2], x)] \in U
    <3>1. \A p \in Nat \X U : p[2] \in U
      OBVIOUS
    <3>2. \A p \in Nat \X U, x \in Blocks : In(p[2], x) \in SUBSET Blocks
      <4>. HIDE DEF U
      <4>. QED BY <1>1, <3>1
    <3>. QED BY <3>2
  <2>. HIDE DEF U
  <2>. QED BY <2>1
<1>4. \A n \in Nat, t \in U : D[<<n, t>>] = [x \in Blocks |-> In(t, x)]
  <2>. HIDE DEF U
  <2>. QED OBVIOUS
<1>. HIDE DEF D
<1>5. PICK f \in [Nat -> U] : Recurs(f, D, c)
  <2>. HIDE DEF U, c
  <2>. QED BY <1>2, <1>3, CourseOfSteps
<1>6. ASSUME NEW n \in Nat PROVE f[n] = [x \in Blocks |-> IF n = 0 THEN {x} ELSE In(f[n - 1], x)]
  <2>1. CASE n = 0
    <3>1. f[0] = c
      BY <1>5 DEF Recurs
    <3>. QED BY <2>1, <3>1
  <2>2. CASE n # 0
    <3>1. n - 1 \in Nat /\ (n - 1) + 1 = n
      BY <2>2
    <3>2. f[(n - 1) + 1] = D[<<n - 1, f[n - 1]>>] /\ f[n - 1] \in U
      BY <1>5, <3>1 DEF Recurs
    <3>. HIDE DEF U
    <3>3. f[n] = [x \in Blocks |-> In(f[n - 1], x)]
      BY <1>4, <3>1, <3>2
    <3>. QED BY <2>2, <3>3
  <2>. QED BY <2>1, <2>2
<1>7. Steps(f)
  BY <1>5, <1>6
<1>. DEFINE h == CHOOSE u : Steps(u)
<1>8. Steps(h)
  <2>. HIDE DEF Steps
  <2>. QED BY <1>7
<1>9. inside = h
  BY DEF inside, In, Blocks
<1>. HIDE DEF h
<1>10. PICK w : w = h
  OBVIOUS
<1>11. Steps(w)
  <2>. HIDE DEF Steps
  <2>. QED BY <1>8, <1>10
<1>12. w[m][b] = IF m = 0 THEN {b} ELSE In(w[m - 1], b)
  <2>1. w = [n \in Nat |-> [x \in Blocks |-> IF n = 0 THEN {x} ELSE In(w[n - 1], x)]]
    BY <1>11
  <2>2. w[m] = [x \in Blocks |-> IF m = 0 THEN {x} ELSE In(w[m - 1], x)]
    BY <2>1
  <2>. QED BY <2>2
<1>. HIDE DEF Steps
<1>. QED BY <1>9, <1>10, <1>12 DEF In

\* A block in which no dynamic one is found has none in it, as deep as was looked.
LEMMA NoneIsInside ==
  ASSUME NEW m \in Nat
  PROVE  \A b \in Blocks : ~nests_dynamic[m][b] =>
           \A n \in 1 .. m + 1 : \A c \in inside[n][b] : BlockOf[c].kind # "dynamic"
<1>. DEFINE Free(n, b) == \A c \in inside[n][b] : BlockOf[c].kind # "dynamic"
            Holds(k) == \A b \in Blocks : ~nests_dynamic[k][b] => \A n \in 1 .. k + 1 : Free(n, b)
            Z == {k \in Nat : Holds(k)}
<1>1. ASSUME NEW b \in Blocks, NEW k \in DOMAIN BlockOf[b].inner
      PROVE  BlockOf[b].inner[k] \in Blocks
  BY BlocksAssumption DEF Blocks
<1>2. ASSUME NEW b \in Blocks, NEW n \in Nat,
             \A k \in DOMAIN BlockOf[b].inner : Free(n, BlockOf[b].inner[k])
      PROVE  Free(n + 1, b)
  <2>1. n + 1 \in Nat /\ n + 1 # 0 /\ (n + 1) - 1 = n
    OBVIOUS
  <2>2. inside[n + 1][b] = UNION {inside[n][c] : c \in ToSet(BlockOf[b].inner)}
    <3>. PICK q \in Nat : q = n + 1
      BY <2>1
    <3>1. inside[q][b] = UNION {inside[q - 1][c] : c \in ToSet(BlockOf[b].inner)}
      BY <2>1, InsideUnfolded
    <3>. QED BY <2>1, <3>1
  <2>. QED BY <1>2, <2>2 DEF ToSet
<1>3. ASSUME NEW b \in Blocks PROVE Free(0, b) <=> BlockOf[b].kind # "dynamic"
  <2>1. inside[0][b] = {b}
    BY InsideUnfolded
  <2>. QED BY <2>1
<1>. HIDE DEF Free
<1>4. ASSUME NEW k \in Nat, NEW b \in Blocks, ~nests_dynamic[k][b] PROVE Free(1, b)
  <2>1. \A j \in DOMAIN BlockOf[b].inner : BlockOf[BlockOf[b].inner[j]].kind # "dynamic"
    BY <1>4, NestsUnfolded
  <2>2. \A j \in DOMAIN BlockOf[b].inner : Free(0, BlockOf[b].inner[j])
    BY <1>1, <1>3, <2>1
  <2>3. 0 \in Nat /\ 0 + 1 = 1
    OBVIOUS
  <2>. QED BY <1>2, <2>2, <2>3
<1>5. 0 \in Z
  <2>1. \A n \in 1 .. 0 + 1 : n = 1
    OBVIOUS
  <2>. QED BY <1>4, <2>1
<1>6. ASSUME NEW k \in Nat, Holds(k) PROVE Holds(k + 1)
  <2>. SUFFICES ASSUME NEW b \in Blocks, ~nests_dynamic[k + 1][b], NEW n \in 1 .. (k + 1) + 1
                PROVE  Free(n, b)
    OBVIOUS
  <2>1. k + 1 \in Nat /\ k + 1 > 0 /\ (k + 1) - 1 = k
    OBVIOUS
  <2>2. \A j \in DOMAIN BlockOf[b].inner : ~nests_dynamic[k][BlockOf[b].inner[j]]
    BY <2>1, NestsUnfolded
  <2>3. CASE n = 1
    BY <1>4, <2>1, <2>3
  <2>4. CASE n # 1
    <3>1. n - 1 \in 1 .. k + 1 /\ n - 1 \in Nat /\ (n - 1) + 1 = n
      BY <2>4
    <3>2. \A j \in DOMAIN BlockOf[b].inner : Free(n - 1, BlockOf[b].inner[j])
      BY <1>1, <1>6, <2>2, <3>1
    <3>3. Free((n - 1) + 1, b)
      BY <1>2, <3>1, <3>2
    <3>. QED BY <3>1, <3>3
  <2>. QED BY <2>3, <2>4
<1>7. Nat \subseteq Z
  <2>1. \A k \in Nat : k \in Z => k + 1 \in Z
    <3>. HIDE DEF Holds
    <3>. QED BY <1>6
  <2>. HIDE DEF Z
  <2>. QED BY <1>5, <2>1, Inductive
<1>. QED BY <1>7 DEF Free

Item == [block : Blocks, span : Nat]
Sought == {b \in Blocks : BlockOf[b].kind \in Collected}

\* Where an item says that its block is.
Placed(item, text) ==
  \A n \in places_of(text, item.block) :
     item.span \in 1 .. n /\ reads_as(text[item.span], item.block)

\* There is no dynamic block in it.
FreeOfDynamic(b) == \A n \in 0 .. MaxNesting : \A c \in inside[n][b] : BlockOf[c].kind # "dynamic"

\* What is collected of the first n of the blocks.
CollectedUpto(n, blocks, text, items, notes) ==
  /\ items \in Seq(Item) /\ notes \in Nat
  /\ \E u : /\ Filters(u, blocks, Sought) /\ Filtered(blocks, Sought) = u[Len(blocks)]
            /\ [k \in DOMAIN items |-> items[k].block] = u[n]
  /\ \A k \in 1 .. Len(items) : Placed(items[k], text)
  /\ n <= Len(items) + notes
  /\ \A k \in 1 .. n : FreeOfDynamic(blocks[k])

\* Nothing is collected of no block.
LEMMA CollectedOfNone ==
  ASSUME NEW blocks \in Seq(Blocks), NEW text
  PROVE  CollectedUpto(0, blocks, text, <<>>, 0)
<1>1. PICK u \in [0 .. Len(blocks) -> Seq(Blocks)] :
        Filters(u, blocks, Sought) /\ Filtered(blocks, Sought) = u[Len(blocks)]
  BY FilteredStepwise
<1>2. u[0] = <<>>
  BY <1>1 DEF Filters
<1>3. /\ <<>> \in Seq(Item) /\ Len(<<>>) = 0 /\ DOMAIN <<>> = {} /\ 0 \in Nat /\ 0 <= 0 + 0
      /\ \A k \in 1 .. 0 : FALSE
  OBVIOUS
<1>4. [k \in DOMAIN <<>> |-> <<>>[k].block] = <<>>
  OBVIOUS
<1>5. \E v : /\ Filters(v, blocks, Sought) /\ Filtered(blocks, Sought) = v[Len(blocks)]
             /\ [k \in DOMAIN <<>> |-> <<>>[k].block] = v[0]
  BY <1>1, <1>2, <1>4
<1>. QED BY <1>3, <1>5 DEF CollectedUpto

\* A block that is not dynamic, nor holds one, is free of them.
LEMMA BlockIsFree ==
  ASSUME NEW b \in Blocks, BlockOf[b].kind # "dynamic", ~nested_dynamic(b)
  PROVE  FreeOfDynamic(b)
<1>1. MaxNesting \in Nat /\ 0 \in Nat
  BY BlocksAssumption
<1>2. inside[0][b] = {b}
  BY InsideUnfolded
<1>3. \A n \in 1 .. MaxNesting + 1 : \A c \in inside[n][b] : BlockOf[c].kind # "dynamic"
  BY <1>1, NoneIsInside DEF nested_dynamic
<1>4. \A n \in 0 .. MaxNesting : n = 0 \/ n \in 1 .. MaxNesting + 1
  BY <1>1
<1>. QED BY <1>2, <1>3, <1>4 DEF FreeOfDynamic

\* The next block is collected, or leaves a note.
LEMMA CollectedOfNext ==
  ASSUME NEW blocks \in Seq(Blocks), NEW i \in 1 .. Len(blocks), NEW text, NEW items, NEW notes,
         CollectedUpto(i - 1, blocks, text, items, notes), FreeOfDynamic(blocks[i]),
         NEW item, NEW more \in Nat,
         IF blocks[i] \in Sought THEN /\ item \in Item /\ item.block = blocks[i]
                                      /\ Placed(item, text)
         ELSE more >= 1
  PROVE  CollectedUpto(i, blocks, text, IF blocks[i] \in Sought THEN Append(items, item) ELSE items,
                       notes + more)
<1>1. /\ items \in Seq(Item) /\ notes \in Nat /\ i - 1 <= Len(items) + notes
      /\ \A k \in 1 .. Len(items) : Placed(items[k], text)
      /\ \A k \in 1 .. i - 1 : FreeOfDynamic(blocks[k])
  BY DEF CollectedUpto
<1>2. PICK u : /\ Filters(u, blocks, Sought) /\ Filtered(blocks, Sought) = u[Len(blocks)]
               /\ [k \in DOMAIN items |-> items[k].block] = u[i - 1]
  BY DEF CollectedUpto
<1>3. u[i] = IF blocks[i] \in Sought THEN Append(u[i - 1], blocks[i]) ELSE u[i - 1]
  BY <1>2 DEF Filters
<1>4. \A k \in 1 .. i : FreeOfDynamic(blocks[k])
  <2>1. \A k \in 1 .. i : k = i \/ k \in 1 .. i - 1
    OBVIOUS
  <2>. QED BY <1>1, <2>1
<1>5. notes + more \in Nat /\ i \in Nat /\ Len(items) \in Nat
  BY <1>1
<1>6. CASE blocks[i] \in Sought
  <2>. DEFINE now == Append(items, item)
  <2>1. item \in Item /\ item.block = blocks[i] /\ Placed(item, text)
    BY <1>6
  <2>2. /\ now \in Seq(Item) /\ Len(now) = Len(items) + 1 /\ now[Len(items) + 1] = item
        /\ \A k \in 1 .. Len(items) : now[k] = items[k]
    BY <1>1, <2>1
  <2>3. \A k \in 1 .. Len(now) : k \in 1 .. Len(items) \/ k = Len(items) + 1
    BY <1>5, <2>2
  <2>. HIDE DEF now
  <2>4. \A k \in 1 .. Len(now) : Placed(now[k], text)
    BY <1>1, <2>1, <2>2, <2>3
  <2>5. [k \in DOMAIN now |-> now[k].block] = u[i]
    <3>. DEFINE told == [k \in DOMAIN items |-> items[k].block]
                x == [k \in DOMAIN now |-> now[k].block]
                y == Append(told, blocks[i])
    <3>1. \A t \in Item : t.block \in Blocks
      BY DEF Item
    <3>2. told \in Seq(Blocks) /\ Len(told) = Len(items) /\ \A k \in 1 .. Len(items) : told[k] = items[k].block
      BY <1>1, <3>1
    <3>3. x \in Seq(Blocks) /\ Len(x) = Len(now) /\ \A k \in 1 .. Len(now) : x[k] = now[k].block
      BY <2>2, <3>1
    <3>4. u[i] = y
      BY <1>2, <1>3, <1>6
    <3>. HIDE DEF told, x
    <3>5. /\ y \in Seq(Blocks) /\ Len(y) = Len(items) + 1 /\ y[Len(items) + 1] = blocks[i]
          /\ \A k \in 1 .. Len(items) : y[k] = told[k]
      BY <3>2
    <3>. HIDE DEF y
    <3>6. \A k \in 1 .. Len(x) : x[k] = y[k]
      BY <2>1, <2>2, <2>3, <3>2, <3>3, <3>5
    <3>7. x = y
      BY <2>2, <3>3, <3>5, <3>6, SameSequence
    <3>. QED BY <3>4, <3>7 DEF x
  <2>6. i <= Len(now) + (notes + more)
    BY <1>1, <1>5, <2>2
  <2>7. CollectedUpto(i, blocks, text, now, notes + more)
    BY <1>2, <1>4, <1>5, <2>2, <2>4, <2>5, <2>6 DEF CollectedUpto
  <2>. QED BY <1>6, <2>7 DEF now
<1>7. CASE blocks[i] \notin Sought
  <2>1. i <= Len(items) + (notes + more)
    BY <1>1, <1>5, <1>7
  <2>2. [k \in DOMAIN items |-> items[k].block] = u[i]
    BY <1>2, <1>3, <1>7
  <2>3. CollectedUpto(i, blocks, text, items, notes + more)
    BY <1>1, <1>2, <1>4, <1>5, <2>1, <2>2 DEF CollectedUpto
  <2>. QED BY <1>7, <2>3
<1>. QED BY <1>6, <1>7

\* The files a scan is about.
Wanted(tree) == {f \in tree : is_visible(f) /\ f.tf}

ScannedFile == [path : {f.path : f \in UNION Trees}, items : Seq(Item), notes : Nat]

\* The entry is of the file, to its last block.
EntryOf(f, entry) ==
  /\ f.blocks \in Seq(Blocks) /\ entry.path = f.path
  /\ CollectedUpto(Len(f.blocks), f.blocks, f.text, entry.items, entry.notes)

\* All files have been read but those that are left.
ReadBut(left, tree, files) ==
  /\ left \subseteq Wanted(tree)
  /\ files \in Seq(ScannedFile) /\ Len(files) = Cardinality(Wanted(tree) \ left)
  /\ \A k \in 1 .. Len(files) : \E f \in Wanted(tree) \ left : EntryOf(f, files[k])
  /\ \A f \in Wanted(tree) \ left : \E k \in 1 .. Len(files) : files[k].path = f.path

\* Before the first file none has been read.
LEMMA NoneIsRead ==
  ASSUME NEW tree
  PROVE  ReadBut(Wanted(tree), tree, <<>>)
<1>1. Wanted(tree) \ Wanted(tree) = {} /\ Cardinality({}) = 0
  BY FS_EmptySet
<1>2. <<>> \in Seq(ScannedFile) /\ Len(<<>>) = 0 /\ \A k \in 1 .. 0 : FALSE
  OBVIOUS
<1>. QED BY <1>1, <1>2 DEF ReadBut

\* A file that is closed has been read.
LEMMA OneMoreIsRead ==
  ASSUME NEW tree \in Trees, NEW left, NEW file \in Wanted(tree), file \notin left, NEW files,
         ReadBut(left \cup {file}, tree, files), NEW entry \in ScannedFile, EntryOf(file, entry)
  PROVE  ReadBut(left, tree, Append(files, entry))
<1>. DEFINE W == Wanted(tree)
            R == W \ (left \cup {file})
            now == Append(files, entry)
<1>1. /\ left \subseteq W /\ files \in Seq(ScannedFile) /\ Len(files) = Cardinality(R)
      /\ \A k \in 1 .. Len(files) : \E f \in R : EntryOf(f, files[k])
      /\ \A f \in R : \E k \in 1 .. Len(files) : files[k].path = f.path
  BY DEF ReadBut
<1>2. W \ left = R \cup {file} /\ file \notin R
  OBVIOUS
<1>3. IsFiniteSet(R)
  <2>1. IsFiniteSet(tree) /\ R \subseteq tree
    BY TreesAssumption DEF Wanted
  <2>. HIDE DEF R
  <2>. QED BY <2>1, FS_Subset
<1>4. Cardinality(W \ left) = Cardinality(R) + 1
  <2>. HIDE DEF R
  <2>. QED BY <1>2, <1>3, FS_AddElement
<1>. HIDE DEF R, W
<1>5. /\ now \in Seq(ScannedFile) /\ Len(now) = Len(files) + 1 /\ now[Len(files) + 1] = entry
      /\ \A k \in 1 .. Len(files) : now[k] = files[k]
  BY <1>1
<1>6. /\ Len(files) + 1 \in 1 .. Len(now) /\ \A k \in 1 .. Len(files) : k \in 1 .. Len(now)
      /\ \A k \in 1 .. Len(now) : k \in 1 .. Len(files) \/ k = Len(files) + 1
  BY <1>1, <1>5
<1>7. Len(now) = Cardinality(W \ left)
  BY <1>1, <1>4, <1>5
<1>. HIDE DEF now
<1>8. \A k \in 1 .. Len(now) : \E f \in W \ left : EntryOf(f, now[k])
  BY <1>1, <1>2, <1>5, <1>6
<1>9. \A f \in W \ left : \E k \in 1 .. Len(now) : now[k].path = f.path
  <2>1. entry.path = file.path
    BY DEF EntryOf
  <2>. QED BY <1>1, <1>2, <1>5, <1>6, <2>1
<1>. QED BY <1>1, <1>5, <1>7, <1>8, <1>9 DEF ReadBut, W, now

ScanFields == {"pc", "exists", "tree", "todo", "file", "i", "items", "notes", "files", "error"}

\* The blocks of the file at hand are collected up to the next; it and those to do are
\* what has not been read.
AtHand ==
  /\ scan.file \in Wanted(scan.tree) /\ scan.file \notin scan.todo
  /\ ReadBut(scan.todo \cup {scan.file}, scan.tree, scan.files)
  /\ scan.file.blocks \in Seq(Blocks) /\ scan.i \in 1 .. Len(scan.file.blocks) + 1
  /\ CollectedUpto(scan.i - 1, scan.file.blocks, scan.file.text, scan.items, scan.notes)

\* At every step the files that are closed are those that are neither to do nor at hand.
ScanInv ==
  /\ scan = [x \in ScanFields |-> scan[x]]
  /\ scan.pc \in {"discover", "file", "block", "done"} /\ scan.tree \in Trees
  /\ scan.pc = "discover" => scan.files = <<>>
  /\ scan.pc # "done" => scan.error = "none"
  /\ scan.pc = "block" => AtHand
  /\ scan.pc = "file" => ReadBut(scan.todo, scan.tree, scan.files)
  /\ scan.pc = "done" /\ scan.error = "none" => ReadBut({}, scan.tree, scan.files)

\* A scan begins with nothing read.
LEMMA InitScan == ScanInit => ScanInv
<1>. SUFFICES ASSUME NEW tree \in Trees, NEW exists,
                     scan = [ScanIdle EXCEPT !.pc = "discover", !.tree = tree, !.exists = exists]
              PROVE  ScanInv
  BY DEF ScanInit
<1>1. scan = [x \in ScanFields |-> scan[x]]
  BY DEF ScanIdle, ScanFields
<1>. QED BY <1>1 DEF ScanIdle, ScanInv

\* A scan that fails keeps what it has.
LEMMA FailedScan ==
  ASSUME ScanInv, NEW error \in {"Io", "Parse", "UnsupportedFeature", "MalformedBlock"},
         scan' = ScanFails(error)
  PROVE  ScanInv'
<1>. PICK s : s = scan
  OBVIOUS
<1>1. s = [x \in ScanFields |-> s[x]] /\ s.tree \in Trees
  BY DEF ScanInv
<1>2. /\ scan'.pc = "done" /\ scan'.error # "none" /\ scan'.tree = s.tree
      /\ scan' = [x \in ScanFields |-> scan'[x]]
  BY <1>1 DEF ScanFails, ScanFields
<1>. QED BY <1>1, <1>2 DEF ScanInv

\* What is noted of a block.
LEMMA BlockIsSound ==
  ASSUME NEW b \in Blocks
  PROVE  /\ notes_of(BlockOf[b]) \in Nat
         /\ b \notin Sought => notes_of(BlockOf[b]) >= 1
<1>. DEFINE A == BlockOf[b].attributes \cap {"count", "for_each"}
            inner == BlockOf[b].inner
            K == {k \in DOMAIN inner : BlockOf[inner[k]].kind \in {"provisioner", "lifecycle", "connection"}}
<1>1. IsFiniteSet(BlockOf[b].attributes) /\ inner \in Seq(Blocks)
  BY BlocksAssumption DEF Blocks
<1>2. Cardinality(A) \in Nat
  <2>1. A \subseteq BlockOf[b].attributes
    OBVIOUS
  <2>. HIDE DEF A
  <2>. QED BY <1>1, <2>1, FS_Subset, FS_CardinalityType
<1>3. Cardinality(K) \in Nat
  <2>1. DOMAIN inner = 1 .. Len(inner) /\ Len(inner) \in Nat
    BY <1>1
  <2>2. IsFiniteSet(1 .. Len(inner)) /\ K \subseteq 1 .. Len(inner)
    BY <2>1, FS_Interval
  <2>. HIDE DEF K
  <2>. QED BY <2>2, FS_Subset, FS_CardinalityType
<1>4. notes_of(BlockOf[b]) = Cardinality(A) + Cardinality(K) + (IF BlockOf[b].kind \in Collected THEN 0 ELSE 1)
  BY DEF notes_of
<1>5. b \notin Sought => BlockOf[b].kind \notin Collected
  BY DEF Sought
<1>. HIDE DEF A, K
<1>. QED BY <1>2, <1>3, <1>4, <1>5

\* Every step of a scan keeps the invariant.
LEMMA StepScan == ScanInv /\ [ScanNext]_scan => ScanInv'
<1>. SUFFICES ASSUME ScanInv, [ScanNext]_scan PROVE ScanInv'
  OBVIOUS
<1>. PICK s : s = scan
  OBVIOUS
<1>. DEFINE Keeps == scan' = [x \in ScanFields |-> scan'[x]]
<1>1. s = [x \in ScanFields |-> s[x]] /\ s.tree \in Trees
  BY DEF ScanInv
<1>2. CASE DiscoverFiles
  <2>1. CASE scan' = ScanFails("Io")
    BY <2>1, FailedScan
  <2>2. CASE scan' = [s EXCEPT !.pc = "file", !.todo = {f \in s.tree : is_visible(f) /\ f.tf}]
    <3>1. /\ scan'.pc = "file" /\ scan'.todo = Wanted(s.tree) /\ scan'.tree = s.tree
          /\ scan'.files = s.files /\ scan'.error = s.error /\ Keeps
      BY <1>1, <2>2 DEF ScanFields, Wanted
    <3>2. s.files = <<>> /\ s.error = "none"
      BY <1>2 DEF DiscoverFiles, ScanInv
    <3>3. ReadBut(scan'.todo, scan'.tree, scan'.files)
      BY <3>1, <3>2, NoneIsRead
    <3>. QED BY <1>1, <3>1, <3>2, <3>3 DEF ScanInv
  <2>. QED BY <1>2, <2>1, <2>2 DEF DiscoverFiles
<1>3. CASE OpenFile
  <2>1. PICK file \in s.todo :
          \/ \E error \in {"Io", "Parse"} : scan' = ScanFails(error)
          \/ /\ file.blocks # <<"unparsable">>
             /\ scan' = [s EXCEPT !.pc = "block", !.todo = @ \ {file}, !.file = file,
                                  !.i = 1, !.items = <<>>, !.notes = 0]
    BY <1>3 DEF OpenFile
  <2>2. s.pc = "file" /\ ReadBut(s.todo, s.tree, s.files) /\ s.error = "none"
    BY <1>3 DEF OpenFile, ScanInv
  <2>3. CASE \E error \in {"Io", "Parse"} : scan' = ScanFails(error)
    BY <2>3, FailedScan
  <2>4. CASE /\ file.blocks # <<"unparsable">>
             /\ scan' = [s EXCEPT !.pc = "block", !.todo = @ \ {file}, !.file = file,
                                  !.i = 1, !.items = <<>>, !.notes = 0]
    <3>1. /\ scan'.pc = "block" /\ scan'.todo = s.todo \ {file} /\ scan'.file = file
          /\ scan'.i = 1 /\ scan'.items = <<>> /\ scan'.notes = 0 /\ scan'.tree = s.tree
          /\ scan'.files = s.files /\ scan'.error = s.error /\ Keeps
      BY <1>1, <2>4 DEF ScanFields
    <3>2. file \in Wanted(s.tree) /\ s.todo = (s.todo \ {file}) \cup {file}
      BY <2>2 DEF ReadBut
    <3>3. file.blocks \in Seq(Blocks)
      <4>1. file \in s.tree
        BY <3>2 DEF Wanted
      <4>. QED BY <1>1, <2>4, <4>1, TreesAssumption DEF Blocks
    <3>4. 1 \in 1 .. Len(file.blocks) + 1 /\ 1 - 1 = 0
      BY <3>3
    <3>5. CollectedUpto(0, file.blocks, file.text, <<>>, 0)
      BY <3>3, CollectedOfNone
    <3>6. AtHand'
      BY <2>2, <3>1, <3>2, <3>3, <3>4, <3>5 DEF AtHand
    <3>. QED BY <1>1, <2>2, <3>1, <3>6 DEF ScanInv
  <2>. QED BY <2>1, <2>3, <2>4
<1>4. CASE ProcessBlock
  <2>. DEFINE name == s.file.blocks[s.i]
              b == BlockOf[name]
              item == [block |-> name, span |-> approx_span(b.kind)]
              kept == IF b.kind \in Collected THEN Append(s.items, item) ELSE s.items
              noted == s.notes + notes_of(b)
  <2>1. /\ s.pc = "block" /\ s.i <= Len(s.file.blocks)
        /\ \/ \E error \in {"UnsupportedFeature", "MalformedBlock"} : scan' = ScanFails(error)
           \/ /\ b.kind # "dynamic" /\ labels_ok(b) /\ ~nested_dynamic(name)
              /\ scan' = [s EXCEPT !.i = @ + 1, !.notes = @ + notes_of(b), !.items =
                             IF b.kind \in Collected THEN Append(@, item) ELSE @]
    BY <1>4 DEF ProcessBlock, block
  <2>2. CASE \E error \in {"UnsupportedFeature", "MalformedBlock"} : scan' = ScanFails(error)
    BY <2>2, FailedScan
  <2>3. CASE /\ b.kind # "dynamic" /\ labels_ok(b) /\ ~nested_dynamic(name)
             /\ scan' = [s EXCEPT !.i = @ + 1, !.notes = @ + notes_of(b), !.items =
                             IF b.kind \in Collected THEN Append(@, item) ELSE @]
    <3>1. AtHand /\ s.error = "none"
      BY <2>1 DEF ScanInv
    <3>2. /\ s.file \in Wanted(s.tree) /\ s.file \notin s.todo
          /\ ReadBut(s.todo \cup {s.file}, s.tree, s.files)
          /\ s.file.blocks \in Seq(Blocks) /\ s.i \in 1 .. Len(s.file.blocks) + 1
          /\ CollectedUpto(s.i - 1, s.file.blocks, s.file.text, s.items, s.notes)
      BY <3>1 DEF AtHand
    <3>3. s.i \in 1 .. Len(s.file.blocks) /\ s.i + 1 \in 1 .. Len(s.file.blocks) + 1 /\ (s.i + 1) - 1 = s.i
      BY <2>1, <3>2
    <3>4. name \in Blocks
      BY <3>2, <3>3
    <3>. HIDE DEF item
    <3>5. /\ scan'.pc = "block" /\ scan'.todo = s.todo /\ scan'.file = s.file
          /\ scan'.i = s.i + 1 /\ scan'.items = kept /\ scan'.notes = noted /\ scan'.tree = s.tree
          /\ scan'.files = s.files /\ scan'.error = s.error /\ Keeps
      <4>. HIDE DEF name
      <4>. QED BY <1>1, <2>1, <2>3 DEF ScanFields
    <3>6. FreeOfDynamic(name) /\ notes_of(b) \in Nat /\ (name \notin Sought => notes_of(b) >= 1)
      <4>. HIDE DEF name
      <4>. QED BY <2>3, <3>4, BlockIsFree, BlockIsSound
    <3>7. b.kind \in Collected <=> name \in Sought
      BY <3>4 DEF Sought
    <3>8. item \in Item /\ item.block = name /\ Placed(item, s.file.text)
      <4>. DEFINE span == approx_span(b.kind)
      <4>1. s.file.text \in Seq(ToSet(s.file.text))
        BY <1>1, <3>2, TreesAssumption DEF Wanted
      <4>. HIDE DEF name
      <4>2. span \in Nat /\ \A n \in places_of(s.file.text, name) :
                              span \in 1 .. n /\ reads_as(s.file.text[span], name)
        BY <3>4, <4>1, SpanIsOfKind
      <4>. HIDE DEF span
      <4>3. item = [block |-> name, span |-> span]
        BY DEF item, span
      <4>. QED BY <3>4, <4>2, <4>3 DEF Item, Placed
    <3>9. CollectedUpto(s.i, s.file.blocks, s.file.text, IF name \in Sought THEN Append(s.items, item) ELSE s.items, noted)
      BY <3>2, <3>3, <3>6, <3>8, CollectedOfNext
    <3>10. CollectedUpto(s.i, s.file.blocks, s.file.text, kept, noted)
      <4>. HIDE DEF name
      <4>. QED BY <3>7, <3>9
    <3>. HIDE DEF kept, noted, name
    <3>11. AtHand'
      BY <3>2, <3>3, <3>5, <3>10 DEF AtHand
    <3>. QED BY <1>1, <3>1, <3>5, <3>11 DEF ScanInv
  <2>. QED BY <2>1, <2>2, <2>3
<1>5. CASE CloseFile
  <2>. DEFINE entry == [path |-> s.file.path, items |-> s.items, notes |-> s.notes]
  <2>1. /\ s.pc = "block" /\ s.i > Len(s.file.blocks)
        /\ scan' = [s EXCEPT !.pc = "file", !.files = Append(@, entry)]
    BY <1>5 DEF CloseFile
  <2>2. AtHand /\ s.error = "none"
    BY <2>1 DEF ScanInv
  <2>3. /\ s.file \in Wanted(s.tree) /\ s.file \notin s.todo
        /\ ReadBut(s.todo \cup {s.file}, s.tree, s.files)
        /\ s.file.blocks \in Seq(Blocks) /\ s.i \in 1 .. Len(s.file.blocks) + 1
        /\ CollectedUpto(s.i - 1, s.file.blocks, s.file.text, s.items, s.notes)
    BY <2>2 DEF AtHand
  <2>4. s.i - 1 = Len(s.file.blocks)
    BY <2>1, <2>3
  <2>5. entry \in ScannedFile
    <3>1. s.items \in Seq(Item) /\ s.notes \in Nat
      BY <2>3 DEF CollectedUpto
    <3>2. s.file \in UNION Trees
      BY <1>1, <2>3 DEF Wanted
    <3>. QED BY <3>1, <3>2 DEF ScannedFile
  <2>6. EntryOf(s.file, entry)
    BY <2>3, <2>4 DEF EntryOf
  <2>. HIDE DEF entry
  <2>7. ReadBut(s.todo, s.tree, Append(s.files, entry))
    BY <1>1, <2>3, <2>5, <2>6, OneMoreIsRead
  <2>8. /\ scan'.pc = "file" /\ scan'.todo = s.todo /\ scan'.tree = s.tree
        /\ scan'.files = Append(s.files, entry) /\ scan'.error = s.error /\ Keeps
    BY <1>1, <2>1 DEF ScanFields
  <2>. QED BY <1>1, <2>2, <2>7, <2>8 DEF ScanInv
<1>6. CASE ScanEnds
  <2>1. s.pc = "file" /\ s.todo = {} /\ scan' = [s EXCEPT !.pc = "done"]
    BY <1>6 DEF ScanEnds
  <2>2. ReadBut({}, s.tree, s.files) /\ s.error = "none"
    BY <2>1 DEF ScanInv
  <2>3. /\ scan'.pc = "done" /\ scan'.tree = s.tree /\ scan'.files = s.files
        /\ scan'.error = s.error /\ Keeps
    BY <1>1, <2>1 DEF ScanFields
  <2>. QED BY <1>1, <2>2, <2>3 DEF ScanInv
<1>7. CASE UNCHANGED scan
  BY <1>7 DEF ScanInv, AtHand
<1>. QED BY <1>2, <1>3, <1>4, <1>5, <1>6, <1>7 DEF ScanNext

\* What has been read when a scan ends well is the whole of the tree.
LEMMA AllIsRead == ScanInv => InventoryIsComplete
<1>. SUFFICES ASSUME ScanInv, scan.pc = "done", scan.error = "none" PROVE InventoryIsComplete
  BY DEF InventoryIsComplete
<1>. DEFINE tree == scan.tree
            files == scan.files
            wanted == {f \in tree : f.tf /\ \A k \in DOMAIN f.path : f.path[k] \notin Generated \cup Hidden}
<1>1. wanted = Wanted(tree)
  BY DEF Wanted, is_visible, ToSet
<1>2. ReadBut({}, tree, files) /\ tree \in Trees
  BY DEF ScanInv
<1>. HIDE DEF tree, files
<1>3. /\ files \in Seq(ScannedFile) /\ Len(files) = Cardinality(wanted)
      /\ \A k \in 1 .. Len(files) : \E f \in wanted : EntryOf(f, files[k])
      /\ \A f \in wanted : \E k \in 1 .. Len(files) : files[k].path = f.path
  <2>1. Wanted(tree) \ {} = Wanted(tree)
    OBVIOUS
  <2>. HIDE DEF wanted
  <2>. QED BY <1>1, <1>2, <2>1 DEF ReadBut
<1>4. DOMAIN files = 1 .. Len(files)
  BY <1>3
<1>5. \A f, g \in wanted : f.path = g.path => f = g
  BY <1>2, TreesAssumption
<1>. HIDE DEF wanted
<1>6. {files[k].path : k \in DOMAIN files} = {f.path : f \in wanted}
  <2>1. \A k \in 1 .. Len(files) : \E f \in wanted : files[k].path = f.path
    BY <1>3 DEF EntryOf
  <2>2. \A k \in DOMAIN files : files[k].path \in {f.path : f \in wanted}
    BY <1>4, <2>1
  <2>3. \A f \in wanted : f.path \in {files[k].path : k \in DOMAIN files}
    BY <1>3, <1>4
  <2>. QED BY <2>2, <2>3
<1>7. ASSUME NEW f \in wanted, NEW k \in DOMAIN files, files[k].path = f.path
      PROVE  /\ [n \in DOMAIN files[k].items |-> files[k].items[n].block] =
                  Filtered(f.blocks, {b \in DOMAIN BlockOf : BlockOf[b].kind \in Collected})
             /\ \A item \in ToSet(files[k].items) :
                  \A n \in places_of(f.text, item.block) :
                     item.span \in 1..n /\ reads_as(f.text[item.span], item.block)
             /\ Len(f.blocks) <= Len(files[k].items) + files[k].notes
             /\ \A b \in ToSet(f.blocks), n \in 0..MaxNesting :
                  \A c \in inside[n][b] : BlockOf[c].kind # "dynamic"
  <2>1. EntryOf(f, files[k])
    <3>1. PICK g \in wanted : EntryOf(g, files[k])
      BY <1>3, <1>4
    <3>2. g = f
      BY <1>5, <1>7, <3>1 DEF EntryOf
    <3>. QED BY <3>1, <3>2
  <2>. DEFINE items == files[k].items
              notes == files[k].notes
  <2>2. f.blocks \in Seq(Blocks) /\ CollectedUpto(Len(f.blocks), f.blocks, f.text, items, notes)
    BY <2>1 DEF EntryOf
  <2>. HIDE DEF items, notes
  <2>3. /\ items \in Seq(Item) /\ \A n \in 1 .. Len(items) : Placed(items[n], f.text)
        /\ Len(f.blocks) <= Len(items) + notes
        /\ \A n \in 1 .. Len(f.blocks) : FreeOfDynamic(f.blocks[n])
        /\ [n \in DOMAIN items |-> items[n].block] = Filtered(f.blocks, Sought)
    BY <2>2 DEF CollectedUpto
  <2>4. \A b \in ToSet(f.blocks) : FreeOfDynamic(b)
    <3>1. DOMAIN f.blocks = 1 .. Len(f.blocks)
      BY <2>2
    <3>. QED BY <2>3, <3>1 DEF ToSet
  <2>5. \A item \in ToSet(items) : Placed(item, f.text)
    <3>1. DOMAIN items = 1 .. Len(items)
      BY <2>3
    <3>. QED BY <2>3, <3>1 DEF ToSet
  <2>. QED BY <2>3, <2>4, <2>5 DEF items, notes, Sought, Blocks, Placed, FreeOfDynamic
<1>. QED BY <1>3, <1>6, <1>7 DEF InventoryIsComplete, wanted, files, tree

\* An inventory is all of the tree or nothing: InventoryIsComplete, for every tree of
\* files, whatever blocks they hold and however deep. The invariant says that the files
\* closed are those neither to do nor at hand, and what is collected of the one at hand.
THEOREM InventoryHolds == ScanSpec => []InventoryIsComplete
<1>1. ScanInit => ScanInv
  BY InitScan
<1>2. ScanInv /\ [ScanNext]_scan => ScanInv'
  BY StepScan
<1>3. ScanInv => InventoryIsComplete
  BY AllIsRead
<1>. QED BY <1>1, <1>2, <1>3, PTL DEF ScanSpec

----------------------------------------------------------------------------
(* The files of a plan *)

\* at says where in s the elements of f are, in their order: all that are in S.
Picks(at, f, s, S) ==
  /\ Len(f) \in Nat /\ at \in [1 .. Len(f) -> 1 .. Len(s)]
  /\ \A i \in 1 .. Len(f) : f[i] = s[at[i]] /\ s[at[i]] \in S
  /\ \A i, j \in 1 .. Len(f) : i < j => at[i] < at[j]
  /\ \A k \in 1 .. Len(s) : s[k] \in S => \E i \in 1 .. Len(f) : at[i] = k

\* What is filtered of a sequence stands in it, in the same order.
LEMMA FilteredPicks ==
  ASSUME NEW T, NEW s \in Seq(T), NEW S
  PROVE  \E at : Picks(at, Filtered(s, S), s, S)
<1>1. PICK u \in [0 .. Len(s) -> Seq(T)] : Filters(u, s, S) /\ Filtered(s, S) = u[Len(s)]
  BY FilteredStepwise
<1>2. /\ u[0] = <<>> /\ Len(s) \in Nat
      /\ \A n \in 1 .. Len(s) : u[n] = IF s[n] \in S THEN Append(u[n - 1], s[n]) ELSE u[n - 1]
  BY <1>1 DEF Filters
<1>. DEFINE P(n, at) ==
              /\ at \in [1 .. Len(u[n]) -> 1 .. n]
              /\ \A i \in 1 .. Len(u[n]) : u[n][i] = s[at[i]] /\ s[at[i]] \in S
              /\ \A i, j \in 1 .. Len(u[n]) : i < j => at[i] < at[j]
              /\ \A k \in 1 .. n : s[k] \in S => \E i \in 1 .. Len(u[n]) : at[i] = k
            Z == {n \in Nat : n <= Len(s) => \E at : P(n, at)}
<1>3. 0 \in Z
  <2>1. Len(u[0]) = 0 /\ [i \in 1 .. 0 |-> i] \in [1 .. 0 -> 1 .. 0]
    BY <1>2
  <2>2. P(0, [i \in 1 .. 0 |-> i])
    BY <2>1
  <2>. HIDE DEF P
  <2>. QED BY <2>2
<1>4. ASSUME NEW n \in Nat, n + 1 <= Len(s), NEW at, P(n, at) PROVE \E now : P(n + 1, now)
  <2>1. n \in 0 .. Len(s) /\ n + 1 \in 1 .. Len(s) /\ (n + 1) - 1 = n
    BY <1>2, <1>4
  <2>2. u[n + 1] = IF s[n + 1] \in S THEN Append(u[n], s[n + 1]) ELSE u[n]
    BY <1>2, <2>1
  <2>3. s[n + 1] \in T
    BY <2>1
  <2>. PICK f \in Seq(T) : f = u[n]
    BY <1>1, <2>1
  <2>. PICK m \in Nat : m = Len(f)
    OBVIOUS
  <2>4. /\ at \in [1 .. m -> 1 .. n]
        /\ \A i \in 1 .. m : f[i] = s[at[i]] /\ s[at[i]] \in S
        /\ \A i, j \in 1 .. m : i < j => at[i] < at[j]
        /\ \A k \in 1 .. n : s[k] \in S => \E i \in 1 .. m : at[i] = k
    BY <1>4
  <2>5. CASE s[n + 1] \in S
    <3>. DEFINE now == [i \in 1 .. m + 1 |-> IF i = m + 1 THEN n + 1 ELSE at[i]]
                g == Append(f, s[n + 1])
    <3>1. u[n + 1] = g /\ Len(g) = m + 1 /\ g[m + 1] = s[n + 1] /\ \A i \in 1 .. m : g[i] = f[i]
      BY <2>2, <2>3, <2>5
    <3>2. /\ m + 1 \in 1 .. m + 1 /\ \A i \in 1 .. m : i \in 1 .. m + 1 /\ i # m + 1
          /\ \A i \in 1 .. m + 1 : i = m + 1 \/ i \in 1 .. m
          /\ n + 1 \in 1 .. n + 1 /\ \A k \in 1 .. n : k \in 1 .. n + 1 /\ k < n + 1
          /\ \A k \in 1 .. n + 1 : k = n + 1 \/ k \in 1 .. n
          /\ \A i \in 1 .. m : ~(m + 1 < i)
      OBVIOUS
    <3>3. now[m + 1] = n + 1 /\ \A i \in 1 .. m : now[i] = at[i]
      BY <3>2
    <3>4. now \in [1 .. m + 1 -> 1 .. n + 1]
      BY <2>4, <3>2
    <3>. HIDE DEF now, g
    <3>5. \A i \in 1 .. m + 1 : g[i] = s[now[i]] /\ s[now[i]] \in S
      BY <2>4, <2>5, <3>1, <3>2, <3>3
    <3>6. \A i, j \in 1 .. m + 1 : i < j => now[i] < now[j]
      <4>. SUFFICES ASSUME NEW i \in 1 .. m + 1, NEW j \in 1 .. m + 1, i < j PROVE now[i] < now[j]
        OBVIOUS
      <4>1. i \in 1 .. m
        BY <3>2
      <4>2. CASE j = m + 1
        <5>1. now[i] = at[i] /\ at[i] \in 1 .. n
          BY <2>4, <3>3, <4>1
        <5>2. now[j] = n + 1
          BY <3>3, <4>2
        <5>. QED BY <3>2, <5>1, <5>2
      <4>3. CASE j \in 1 .. m
        BY <2>4, <3>3, <4>1, <4>3
      <4>. QED BY <3>2, <4>2, <4>3
    <3>7. \A k \in 1 .. n + 1 : s[k] \in S => \E i \in 1 .. m + 1 : now[i] = k
      BY <2>4, <3>2, <3>3
    <3>8. P(n + 1, now)
      BY <3>1, <3>4, <3>5, <3>6, <3>7
    <3>. HIDE DEF P
    <3>. QED BY <3>8
  <2>6. CASE s[n + 1] \notin S
    <3>1. u[n + 1] = f
      BY <2>2, <2>6
    <3>2. at \in [1 .. m -> 1 .. n + 1]
      BY <2>4
    <3>3. \A k \in 1 .. n + 1 : s[k] \in S => \E i \in 1 .. m : at[i] = k
      <4>1. \A k \in 1 .. n + 1 : k = n + 1 \/ k \in 1 .. n
        OBVIOUS
      <4>. QED BY <2>4, <2>6, <4>1
    <3>4. P(n + 1, at)
      BY <2>4, <3>1, <3>2, <3>3
    <3>. HIDE DEF P
    <3>. QED BY <3>4
  <2>. QED BY <2>5, <2>6
<1>. HIDE DEF P
<1>5. Nat \subseteq Z
  <2>1. \A n \in Nat : n \in Z => n + 1 \in Z
    <3>. SUFFICES ASSUME NEW n \in Nat, n <= Len(s) => \E at : P(n, at), n + 1 <= Len(s)
                  PROVE  \E at : P(n + 1, at)
      OBVIOUS
    <3>1. n <= Len(s)
      BY <1>2
    <3>. QED BY <1>4, <3>1
  <2>. HIDE DEF Z
  <2>. QED BY <1>3, <2>1, Inductive
<1>6. PICK at : P(Len(s), at)
  BY <1>2, <1>5
<1>7. Len(u[Len(s)]) \in Nat
  BY <1>1, <1>2
<1>8. Picks(at, u[Len(s)], s, S)
  BY <1>6, <1>7 DEF P, Picks
<1>. QED BY <1>1, <1>8

\* A set that is numbered has as many elements as there are numbers.
LEMMA NumberedSet ==
  ASSUME NEW n \in Nat, NEW S, NEW q \in [1 .. n -> S],
         \A i, j \in 1 .. n : q[i] = q[j] => i = j, \A x \in S : \E i \in 1 .. n : q[i] = x
  PROVE  Cardinality(S) = n
<1>1. q \in Bijection(1 .. n, S)
  BY DEF Bijection, Injection, Surjection, IsInjective
<1>2. ExistsBijection(1 .. n, S)
  BY <1>1 DEF ExistsBijection
<1>. QED BY <1>2, FS_CountingElements

\* What is assumed of a plan.
Planned(p) ==
  /\ p \in Seq(ToSet(p))
  /\ \A r \in ToSet(p) : r.addr \in Int /\ r.type \in ToSet(TypeOrder)

LEMMA PlanIsTyped ==
  ASSUME NEW p, Planned(p)
  PROVE  /\ p \in Seq(ToSet(p)) /\ Len(p) \in Nat /\ DOMAIN p = 1 .. Len(p)
         /\ \A i \in 1 .. Len(p) :
               p[i] \in ToSet(p) /\ p[i].addr \in Int /\ p[i].type \in ToSet(TypeOrder)
         /\ \A r \in ToSet(p) : \E i \in 1 .. Len(p) : p[i] = r
         /\ IsFiniteSet(1 .. Len(p)) /\ Cardinality(1 .. Len(p)) = Len(p)
<1>1. p \in Seq(ToSet(p)) /\ \A r \in ToSet(p) : r.addr \in Int /\ r.type \in ToSet(TypeOrder)
  BY DEF Planned
<1>2. Len(p) \in Nat /\ DOMAIN p = 1 .. Len(p)
  BY <1>1
<1>3. /\ \A i \in 1 .. Len(p) : p[i] \in ToSet(p)
      /\ \A r \in ToSet(p) : \E i \in 1 .. Len(p) : p[i] = r
  BY <1>2 DEF ToSet
<1>4. PICK n \in Nat : n = Len(p)
  BY <1>2
<1>5. IsFiniteSet(1 .. n) /\ Cardinality(1 .. n) = IF 1 > n THEN 0 ELSE n - 1 + 1
  BY FS_Interval
<1>6. IsFiniteSet(1 .. n) /\ Cardinality(1 .. n) = n
  BY <1>5
<1>. QED BY <1>1, <1>2, <1>3, <1>4, <1>6

LEMMA AddressesAreOrdered ==
  ASSUME NEW p, Planned(p)
  PROVE  Orders(by_addr(p), 1 .. Len(p))
<1>. DEFINE I == 1 .. Len(p)
<1>1. DOMAIN p = I /\ \A i \in I : p[i].addr \in Int /\ i \in Int
  BY PlanIsTyped
<1>2. \A i, j \in I : <<i, j>> \in by_addr(p)
                       <=> p[i].addr < p[j].addr \/ (p[i].addr = p[j].addr /\ i < j)
  BY <1>1 DEF by_addr
<1>. HIDE DEF I
<1>3. \A i \in I : <<i, i>> \notin by_addr(p)
  BY <1>1, <1>2
<1>4. \A i, j, k \in I : <<i, j>> \in by_addr(p) /\ <<j, k>> \in by_addr(p) => <<i, k>> \in by_addr(p)
  <2>. SUFFICES ASSUME NEW i \in I, NEW j \in I, NEW k \in I,
                       <<i, j>> \in by_addr(p), <<j, k>> \in by_addr(p)
                PROVE  <<i, k>> \in by_addr(p)
    OBVIOUS
  <2>1. PICK a \in Int, b \in Int, c \in Int : a = p[i].addr /\ b = p[j].addr /\ c = p[k].addr
    BY <1>1
  <2>2. (a < b \/ (a = b /\ i < j)) /\ (b < c \/ (b = c /\ j < k))
    BY <1>2, <2>1
  <2>3. a < c \/ (a = c /\ i < k)
    BY <1>1, <2>1, <2>2
  <2>. QED BY <1>2, <2>1, <2>3
<1>5. \A i, j \in I : i = j \/ <<i, j>> \in by_addr(p) \/ <<j, i>> \in by_addr(p)
  <2>. SUFFICES ASSUME NEW i \in I, NEW j \in I
                PROVE  i = j \/ <<i, j>> \in by_addr(p) \/ <<j, i>> \in by_addr(p)
    OBVIOUS
  <2>1. PICK a \in Int, b \in Int : a = p[i].addr /\ b = p[j].addr
    BY <1>1
  <2>2. i = j \/ (a < b \/ (a = b /\ i < j)) \/ (b < a \/ (b = a /\ j < i))
    BY <1>1
  <2>. QED BY <1>2, <2>1, <2>2
<1>. QED BY <1>3, <1>4, <1>5 DEF Orders, I

\* at says where in p the resources stand, in the order of addresses.
ByAddress(at, p) ==
  /\ at \in [1 .. Len(p) -> 1 .. Len(p)]
  /\ \A i \in 1 .. Len(p) : \E k \in 1 .. Len(p) : at[k] = i
  /\ \A k, l \in 1 .. Len(p) : k < l => at[k] # at[l] /\ p[at[k]].addr <= p[at[l]].addr

SortedBy(at, p) ==
  ByAddress(at, p) /\ sort_resources(p) = [k \in 1 .. Len(p) |-> p[at[k]]]

LEMMA PlanIsSorted ==
  ASSUME NEW p, Planned(p)
  PROVE  \E at : SortedBy(at, p)
<1>1. DOMAIN p = 1 .. Len(p) /\ Cardinality(1 .. Len(p)) = Len(p) /\ IsFiniteSet(1 .. Len(p))
  BY PlanIsTyped
<1>2. PICK at : Sorts(at, 1 .. Len(p), by_addr(p))
  BY <1>1, AddressesAreOrdered, ArrangedInOrder
<1>3. sort_resources(p) = [k \in 1 .. Len(p) |-> p[at[k]]]
  BY <1>1, <1>2 DEF Sorts, sort_resources
<1>4. /\ at \in [1 .. Len(p) -> 1 .. Len(p)]
      /\ \A i \in 1 .. Len(p) : \E k \in 1 .. Len(p) : at[k] = i
      /\ \A k, l \in 1 .. Len(p) : k < l => <<at[k], at[l]>> \in by_addr(p) /\ at[k] # at[l]
  BY <1>1, <1>2 DEF Sorts, Arranges
<1>5. \A i, j \in 1 .. Len(p) : <<i, j>> \in by_addr(p) => p[i].addr <= p[j].addr
  <2>1. \A i, j \in 1 .. Len(p) : <<i, j>> \in by_addr(p)
                       => p[i].addr < p[j].addr \/ p[i].addr = p[j].addr
    BY DEF by_addr
  <2>. SUFFICES ASSUME NEW i \in 1 .. Len(p), NEW j \in 1 .. Len(p), <<i, j>> \in by_addr(p)
                PROVE  p[i].addr <= p[j].addr
    OBVIOUS
  <2>2. PICK a \in Int, b \in Int : a = p[i].addr /\ b = p[j].addr
    BY PlanIsTyped
  <2>3. a < b \/ a = b
    BY <2>1, <2>2
  <2>. QED BY <2>2, <2>3
<1>6. \A k, l \in 1 .. Len(p) : k < l => p[at[k]].addr <= p[at[l]].addr
  <2>. SUFFICES ASSUME NEW k \in 1 .. Len(p), NEW l \in 1 .. Len(p), k < l
                PROVE  p[at[k]].addr <= p[at[l]].addr
    OBVIOUS
  <2>1. PICK i \in 1 .. Len(p), j \in 1 .. Len(p) : i = at[k] /\ j = at[l]
    BY <1>4
  <2>2. <<i, j>> \in by_addr(p)
    BY <1>4, <2>1
  <2>. QED BY <1>5, <2>1, <2>2
<1>7. ByAddress(at, p)
  BY <1>4, <1>6 DEF ByAddress
<1>. QED BY <1>3, <1>7 DEF SortedBy

\* at says where in p the resources of t stand that are in its group.
OfType(p, t) == {i \in DOMAIN p : p[i].type = t}

Groups(at, g, p, t) ==
  /\ Len(g) \in Nat /\ at \in [1 .. Len(g) -> OfType(p, t)]
  /\ \A i \in 1 .. Len(g) : g[i] = p[at[i]]
  /\ \A i, j \in 1 .. Len(g) : i < j => at[i] # at[j] /\ p[at[i]].addr <= p[at[j]].addr
  /\ \A k \in OfType(p, t) : \E i \in 1 .. Len(g) : at[i] = k

LEMMA TypesAreGrouped ==
  ASSUME NEW p, Planned(p), NEW t \in {p[i].type : i \in 1 .. Len(p)}
  PROVE  /\ DOMAIN groups(p) = {p[i].type : i \in 1 .. Len(p)}
         /\ groups(p)[t] \in Seq(ToSet(p))
         /\ \E at : Groups(at, groups(p)[t], p, t)
<1>. DEFINE S == {r \in ToSet(p) : r.type = t}
<1>1. DOMAIN p = 1 .. Len(p) /\ Len(p) \in Nat /\ \A i \in 1 .. Len(p) : p[i] \in ToSet(p)
  BY PlanIsTyped
<1>2. PICK s : s = sort_resources(p)
  OBVIOUS
<1>3. DOMAIN groups(p) = {p[i].type : i \in 1 .. Len(p)} /\ groups(p)[t] = Filtered(s, S)
  BY <1>1, <1>2 DEF groups
<1>4. PICK pos : ByAddress(pos, p) /\ s = [k \in 1 .. Len(p) |-> p[pos[k]]]
  BY <1>2, PlanIsSorted DEF SortedBy
<1>5. pos \in [1 .. Len(p) -> 1 .. Len(p)]
  BY <1>4 DEF ByAddress
<1>6. s \in Seq(ToSet(p)) /\ Len(s) = Len(p)
  BY <1>1, <1>4, <1>5
<1>7. PICK f : f = Filtered(s, S)
  OBVIOUS
<1>. HIDE DEF S
<1>8. f \in Seq(ToSet(p))
  BY <1>6, <1>7, FilteredElements
<1>9. PICK at : Picks(at, f, s, S)
  BY <1>6, <1>7, FilteredPicks
<1>10. /\ Len(f) \in Nat /\ at \in [1 .. Len(f) -> 1 .. Len(p)]
       /\ \A i \in 1 .. Len(f) : f[i] = p[pos[at[i]]] /\ p[pos[at[i]]] \in S
       /\ \A i, j \in 1 .. Len(f) : i < j => at[i] < at[j]
       /\ \A k \in 1 .. Len(p) : p[pos[k]] \in S => \E i \in 1 .. Len(f) : at[i] = k
  <2>1. \A k \in 1 .. Len(p) : s[k] = p[pos[k]]
    BY <1>4
  <2>. QED BY <1>6, <1>9, <2>1 DEF Picks
<1>. DEFINE q == [i \in 1 .. Len(f) |-> pos[at[i]]]
<1>11. q \in [1 .. Len(f) -> OfType(p, t)]
  BY <1>1, <1>5, <1>10 DEF OfType, S
<1>12. \A i \in 1 .. Len(f) : f[i] = p[q[i]]
  BY <1>10
<1>13. \A i, j \in 1 .. Len(f) : i < j => q[i] # q[j] /\ p[q[i]].addr <= p[q[j]].addr
  BY <1>4, <1>10 DEF ByAddress
<1>14. \A k \in OfType(p, t) : \E i \in 1 .. Len(f) : q[i] = k
  <2>. SUFFICES ASSUME NEW k \in 1 .. Len(p), p[k].type = t PROVE \E i \in 1 .. Len(f) : q[i] = k
    BY <1>1 DEF OfType
  <2>1. p[k] \in S
    BY <1>1 DEF S
  <2>2. PICK l \in 1 .. Len(p) : pos[l] = k
    BY <1>4 DEF ByAddress
  <2>3. PICK i \in 1 .. Len(f) : at[i] = l
    BY <1>10, <2>1, <2>2
  <2>. QED BY <2>2, <2>3
<1>. HIDE DEF q
<1>15. Groups(q, f, p, t)
  BY <1>10, <1>11, <1>12, <1>13, <1>14 DEF Groups
<1>. QED BY <1>3, <1>7, <1>8, <1>15

\* An order in which resources with addresses of their own may come as well.
DistinctAddresses(p) == \A i, j \in 1 .. Len(p) : p[i].addr = p[j].addr => i = j

LEMMA CountedAddressesDiffer ==
  ASSUME NEW p, Planned(p), Cardinality({p[i].addr : i \in DOMAIN p}) = Len(p)
  PROVE  DistinctAddresses(p)
<1>. DEFINE I == 1 .. Len(p)
            T == {p[i].addr : i \in I}
            f == [i \in I |-> p[i].addr]
<1>1. DOMAIN p = I /\ IsFiniteSet(I) /\ Cardinality(I) = Len(p)
  BY PlanIsTyped
<1>2. f \in [I -> T] /\ \A i \in I : f[i] = p[i].addr
  OBVIOUS
<1>3. \A x \in T : \E i \in I : f[i] = x
  OBVIOUS
<1>4. Cardinality(T) = Cardinality(I)
  BY <1>1
<1>. HIDE DEF T, I, f
<1>5. f \in Surjection(I, T)
  BY <1>2, <1>3 DEF Surjection
<1>6. f \in Injection(I, T)
  BY <1>1, <1>4, <1>5, FS_Surjection
<1>7. \A i, j \in I : f[i] = f[j] => i = j
  BY <1>6 DEF Injection, IsInjective
<1>. QED BY <1>2, <1>7 DEF DistinctAddresses, I

\* Resources in another order are the same resources.
Reordered(s, p, b) ==
  /\ b \in [1 .. Len(p) -> 1 .. Len(p)]
  /\ \A i, j \in 1 .. Len(p) : b[i] = b[j] => i = j
  /\ \A j \in 1 .. Len(p) : \E i \in 1 .. Len(p) : b[i] = j
  /\ Len(s) = Len(p) /\ DOMAIN s = 1 .. Len(p)
  /\ \A i \in 1 .. Len(p) : s[i] = p[b[i]]
  /\ ToSet(s) = ToSet(p) /\ Planned(s)

LEMMA ShuffledAreTheSame ==
  ASSUME NEW p, Planned(p), NEW b \in Bijection(DOMAIN p, DOMAIN p)
  PROVE  Reordered(Shuffled(p, b), p, b)
<1>1. /\ DOMAIN p = 1 .. Len(p) /\ Len(p) \in Nat
      /\ \A i \in 1 .. Len(p) : p[i] \in ToSet(p)
      /\ \A r \in ToSet(p) : \E i \in 1 .. Len(p) : p[i] = r
  BY PlanIsTyped
<1>2. /\ b \in [1 .. Len(p) -> 1 .. Len(p)]
      /\ \A i, j \in 1 .. Len(p) : b[i] = b[j] => i = j
      /\ \A j \in 1 .. Len(p) : \E i \in 1 .. Len(p) : b[i] = j
  BY <1>1 DEF Bijection, Injection, Surjection, IsInjective
<1>3. Shuffled(p, b) = [i \in 1 .. Len(p) |-> p[b[i]]]
  BY <1>1 DEF Shuffled
<1>4. PICK s : s = Shuffled(p, b)
  OBVIOUS
<1>5. /\ s \in Seq(ToSet(p)) /\ Len(s) = Len(p) /\ DOMAIN s = 1 .. Len(p)
      /\ \A i \in 1 .. Len(p) : s[i] = p[b[i]]
  <2>1. [i \in 1 .. Len(p) |-> p[b[i]]] \in [1 .. Len(p) -> ToSet(p)]
    BY <1>1, <1>2
  <2>2. PICK n \in Nat : n = Len(p)
    BY <1>1
  <2>3. s = [i \in 1 .. n |-> p[b[i]]] /\ s \in [1 .. n -> ToSet(p)]
    BY <1>3, <1>4, <2>1, <2>2
  <2>4. s \in Seq(ToSet(p)) /\ Len(s) = n
    BY <2>3
  <2>. QED BY <2>2, <2>3, <2>4
<1>6. ToSet(s) = ToSet(p) /\ Planned(s)
  <2>1. \A r \in ToSet(s) : r \in ToSet(p)
    <3>1. \A r \in ToSet(s) : \E i \in 1 .. Len(p) : s[i] = r
      BY <1>5 DEF ToSet
    <3>. QED BY <1>1, <1>2, <1>5, <3>1
  <2>2. \A r \in ToSet(p) : r \in ToSet(s)
    <3>. SUFFICES ASSUME NEW r \in ToSet(p) PROVE \E i \in DOMAIN s : s[i] = r
      BY DEF ToSet
    <3>1. PICK j \in 1 .. Len(p) : p[j] = r
      BY <1>1
    <3>2. PICK i \in 1 .. Len(p) : b[i] = j
      BY <1>2
    <3>. QED BY <1>5, <3>1, <3>2
  <2>3. ToSet(s) = ToSet(p)
    BY <2>1, <2>2
  <2>. QED BY <1>5, <2>3 DEF Planned
<1>. QED BY <1>2, <1>4, <1>5, <1>6 DEF Reordered

\* Resources with addresses of their own are in order in one way only.
LEMMA OneOrder ==
  ASSUME NEW p, Planned(p), DistinctAddresses(p), NEW x, NEW y, ByAddress(x, p), ByAddress(y, p)
  PROVE  \A k \in 1 .. Len(p) : x[k] = y[k]
<1>1. PICK n \in Nat : n = Len(p)
  BY PlanIsTyped
<1>2. /\ x \in [1 .. n -> 1 .. n] /\ y \in [1 .. n -> 1 .. n]
      /\ \A i \in 1 .. n : \E k \in 1 .. n : x[k] = i
  BY <1>1 DEF ByAddress
<1>3. \A k, l \in 1 .. n : k < l => x[k] # x[l] /\ p[x[k]].addr <= p[x[l]].addr
  BY <1>1 DEF ByAddress
<1>4. \A k, l \in 1 .. n : k < l => y[k] # y[l] /\ p[y[k]].addr <= p[y[l]].addr
  BY <1>1 DEF ByAddress
<1>5. \A i \in 1 .. n : p[i].addr \in Int
  BY <1>1, PlanIsTyped
<1>6. \A i, j \in 1 .. n : p[i].addr = p[j].addr => i = j
  BY <1>1 DEF DistinctAddresses
<1>. DEFINE f == [k \in 1 .. n |-> CHOOSE l \in 1 .. n : x[l] = y[k]]
<1>7. f \in [1 .. n -> 1 .. n] /\ \A k \in 1 .. n : x[f[k]] = y[k]
  BY <1>2
<1>. HIDE DEF f
<1>8. ASSUME NEW k \in 1 .. n, NEW l \in 1 .. n, k < l,
             NEW i \in 1 .. n, NEW j \in 1 .. n, i = f[k], j = f[l]
      PROVE  i < j
  <2>1. x[i] = y[k] /\ x[j] = y[l]
    BY <1>7, <1>8
  <2>2. PICK u \in 1 .. n, v \in 1 .. n : u = y[k] /\ v = y[l]
    BY <1>2
  <2>3. PICK a \in Int, c \in Int : a = p[u].addr /\ c = p[v].addr
    BY <1>5
  <2>4. a <= c /\ u # v
    BY <1>4, <1>8, <2>2, <2>3
  <2>5. a # c
    BY <1>6, <2>3, <2>4
  <2>6. i # j
    BY <2>1, <2>2, <2>4
  <2>7. ASSUME j < i PROVE FALSE
    <3>1. p[x[j]].addr <= p[x[i]].addr
      BY <1>3, <2>7
    <3>2. c <= a
      BY <2>1, <2>2, <2>3, <3>1
    <3>. QED BY <2>4, <2>5, <3>2
  <2>. QED BY <2>6, <2>7
<1>9. \A k, l \in 1 .. n : k < l => f[k] < f[l]
  BY <1>7, <1>8
<1>10. Increasing(f)
  BY <1>7, <1>9 DEF Increasing
<1>. QED BY <1>1, <1>7, <1>10, IncreasingIsIdentity

\* Then the groups are the same whatever their order.
LEMMA OrderDoesNotMatter ==
  ASSUME NEW p, Planned(p), DistinctAddresses(p), NEW b \in Bijection(DOMAIN p, DOMAIN p)
  PROVE  groups(Shuffled(p, b)) = groups(p)
<1>. PICK s : s = Shuffled(p, b)
  OBVIOUS
<1>1. Reordered(s, p, b)
  BY ShuffledAreTheSame
<1>2. /\ b \in [1 .. Len(p) -> 1 .. Len(p)]
      /\ \A i, j \in 1 .. Len(p) : b[i] = b[j] => i = j
      /\ \A j \in 1 .. Len(p) : \E i \in 1 .. Len(p) : b[i] = j
      /\ Len(s) = Len(p) /\ DOMAIN s = 1 .. Len(p) /\ Planned(s) /\ ToSet(s) = ToSet(p)
      /\ \A i \in 1 .. Len(p) : s[i] = p[b[i]]
  BY <1>1 DEF Reordered
<1>3. PICK x : ByAddress(x, p) /\ sort_resources(p) = [k \in 1 .. Len(p) |-> p[x[k]]]
  BY PlanIsSorted DEF SortedBy
<1>4. PICK y : ByAddress(y, s) /\ sort_resources(s) = [k \in 1 .. Len(p) |-> s[y[k]]]
  <2>1. PICK y : SortedBy(y, s)
    BY <1>2, PlanIsSorted
  <2>. QED BY <1>2, <2>1 DEF SortedBy
<1>5. /\ y \in [1 .. Len(p) -> 1 .. Len(p)]
      /\ \A i \in 1 .. Len(p) : \E k \in 1 .. Len(p) : y[k] = i
      /\ \A k, l \in 1 .. Len(p) : k < l => y[k] # y[l] /\ s[y[k]].addr <= s[y[l]].addr
  BY <1>2, <1>4 DEF ByAddress
<1>. DEFINE z == [k \in 1 .. Len(p) |-> b[y[k]]]
<1>6. z \in [1 .. Len(p) -> 1 .. Len(p)] /\ \A k \in 1 .. Len(p) : s[y[k]] = p[z[k]]
  BY <1>2, <1>5
<1>7. \A i \in 1 .. Len(p) : \E k \in 1 .. Len(p) : z[k] = i
  <2>. SUFFICES ASSUME NEW i \in 1 .. Len(p) PROVE \E k \in 1 .. Len(p) : z[k] = i
    OBVIOUS
  <2>1. PICK j \in 1 .. Len(p) : b[j] = i
    BY <1>2
  <2>2. PICK k \in 1 .. Len(p) : y[k] = j
    BY <1>5
  <2>. QED BY <2>1, <2>2
<1>8. \A k, l \in 1 .. Len(p) : k < l => z[k] # z[l]
  BY <1>2, <1>5
<1>. HIDE DEF z
<1>9. ByAddress(z, p)
  BY <1>5, <1>6, <1>7, <1>8 DEF ByAddress
<1>10. \A k \in 1 .. Len(p) : x[k] = z[k]
  BY <1>3, <1>9, OneOrder
<1>11. sort_resources(s) = sort_resources(p)
  BY <1>3, <1>4, <1>6, <1>10
<1>12. {s[i].type : i \in DOMAIN s} = {p[i].type : i \in DOMAIN p}
  <2>1. DOMAIN p = 1 .. Len(p)
    BY PlanIsTyped
  <2>2. \A i \in DOMAIN s : s[i].type = p[b[i]].type /\ b[i] \in DOMAIN p
    BY <1>2, <2>1
  <2>3. \A j \in DOMAIN p : \E i \in DOMAIN s : s[i].type = p[j].type
    <3>. SUFFICES ASSUME NEW j \in 1 .. Len(p) PROVE \E i \in 1 .. Len(p) : s[i].type = p[j].type
      BY <1>2, <2>1
    <3>1. PICK i \in 1 .. Len(p) : b[i] = j
      BY <1>2
    <3>. QED BY <1>2, <3>1
  <2>. QED BY <2>2, <2>3
<1>13. PICK T, R, o : T = {p[i].type : i \in DOMAIN p} /\ R = ToSet(p) /\ o = sort_resources(p)
  OBVIOUS
<1>14. groups(p) = [t \in T |-> Filtered(o, {r \in R : r.type = t})]
  BY <1>13 DEF groups
<1>15. groups(s) = [t \in T |-> Filtered(o, {r \in R : r.type = t})]
  BY <1>2, <1>11, <1>12, <1>13 DEF groups
<1>. QED BY <1>14, <1>15

\* No name is emitted twice, unless it is that of the tags.
NoNameTwice(keys) ==
  \A a, b \in DOMAIN keys : a # b /\ keys[a] = keys[b] => keys[a] = "tags"

LEMMA NamesAreEmittedOnce ==
  ASSUME NEW r, r.type \in DOMAIN TemplateOf
  PROVE  NoNameTwice(emitted_keys(r))
<1>. PICK U : U = STRING \cup {"tags"}
  OBVIOUS
<1>1. PICK req \in Seq(U), opt \in Seq(U) :
              req = TemplateOf[r.type].required /\ opt = TemplateOf[r.type].optional
  <2>1. \A x \in Seq(STRING) : x \in Seq(U)
    OBVIOUS
  <2>. QED BY <2>1, TemplatesAssumption
<1>2. PICK all : all = req \o opt
  OBVIOUS
<1>3. \A a, b \in DOMAIN all : a # b => all[a] # all[b]
  <2>1. PICK t \in DOMAIN TemplateOf : t = r.type
    OBVIOUS
  <2>2. \A a, b \in DOMAIN (TemplateOf[t].required \o TemplateOf[t].optional) :
           a # b => (TemplateOf[t].required \o TemplateOf[t].optional)[a]
                      # (TemplateOf[t].required \o TemplateOf[t].optional)[b]
    BY TemplatesAssumption
  <2>3. all = TemplateOf[t].required \o TemplateOf[t].optional
    BY <1>1, <1>2, <2>1
  <2>. QED BY <2>2, <2>3
<1>4. PICK S : S = DOMAIN r.attributes
  OBVIOUS
<1>5. PICK f \in Seq(U) : f = Filtered(opt, S)
  BY FilteredElements
<1>6. PICK at : Picks(at, f, opt, S)
  BY <1>5, FilteredPicks
<1>7. PICK m \in Nat, n \in Nat, l \in Nat : m = Len(req) /\ n = Len(f) /\ l = Len(opt)
  OBVIOUS
<1>8. /\ at \in [1 .. n -> 1 .. l] /\ \A i \in 1 .. n : f[i] = opt[at[i]]
      /\ \A i, j \in 1 .. n : i < j => at[i] < at[j]
  BY <1>6, <1>7 DEF Picks
<1>9. /\ DOMAIN all = 1 .. m + l /\ \A i \in 1 .. m : all[i] = req[i]
      /\ \A i \in 1 .. l : all[m + i] = opt[i]
  BY <1>2, <1>7, OneBehindOther
<1>10. PICK k \in Seq(U) : k = req \o f
  BY <1>5, OneBehindOther
<1>11. /\ Len(k) = m + n /\ \A i \in 1 .. m : k[i] = req[i]
       /\ \A i \in 1 .. m + n : i > m => k[i] = f[i - m]
  BY <1>7, <1>10, OneBehindOther
<1>. DEFINE to == [i \in 1 .. m + n |-> IF i <= m THEN i ELSE m + at[i - m]]
<1>12. \A i \in 1 .. m + n : to[i] \in 1 .. m + l /\ k[i] = all[to[i]]
  <2>. SUFFICES ASSUME NEW i \in 1 .. m + n PROVE to[i] \in 1 .. m + l /\ k[i] = all[to[i]]
    OBVIOUS
  <2>1. CASE i <= m
    BY <1>9, <1>11, <2>1
  <2>2. CASE i > m
    <3>1. PICK j \in 1 .. n : j = i - m
      BY <2>2
    <3>2. PICK h \in 1 .. l : h = at[j]
      BY <1>8
    <3>3. to[i] = m + h
      <4>1. to[i] = m + at[i - m]
        BY <2>2
      <4>. QED BY <3>1, <3>2, <4>1
    <3>4. k[i] = opt[h]
      BY <1>8, <1>11, <2>2, <3>1, <3>2
    <3>5. m + h \in 1 .. m + l /\ all[m + h] = opt[h]
      BY <1>9
    <3>. QED BY <3>3, <3>4, <3>5
  <2>. QED BY <2>1, <2>2
<1>13. \A i, j \in 1 .. m + n : i < j => to[i] < to[j]
  <2>. SUFFICES ASSUME NEW i \in 1 .. m + n, NEW j \in 1 .. m + n, i < j PROVE to[i] < to[j]
    OBVIOUS
  <2>1. CASE i <= m /\ j <= m
    BY <2>1
  <2>2. CASE j > m
    <3>1. PICK b \in 1 .. n : b = j - m
      BY <2>2
    <3>2. PICK h \in 1 .. l : h = at[b] /\ to[j] = m + h
      <4>1. to[j] = m + at[j - m]
        BY <2>2
      <4>. QED BY <1>8, <3>1, <4>1
    <3>3. CASE i <= m
      BY <3>2, <3>3
    <3>4. CASE i > m
      <4>1. PICK a \in 1 .. n : a = i - m
        BY <3>4
      <4>2. PICK g \in 1 .. l : g = at[a] /\ to[i] = m + g
        <5>1. to[i] = m + at[i - m]
          BY <3>4
        <5>. QED BY <1>8, <4>1, <5>1
      <4>3. a < b
        BY <3>1, <4>1
      <4>4. g < h
        BY <1>8, <3>2, <4>2, <4>3
      <4>. QED BY <3>2, <4>2, <4>4
    <3>. QED BY <3>3, <3>4
  <2>. QED BY <2>1, <2>2
<1>. HIDE DEF to
<1>14. \A i, j \in 1 .. m + n : i # j => k[i] # k[j]
  <2>1. \A i, j \in 1 .. m + n : i < j => k[i] # k[j]
    <3>. SUFFICES ASSUME NEW i \in 1 .. m + n, NEW j \in 1 .. m + n, i < j PROVE k[i] # k[j]
      OBVIOUS
    <3>1. PICK a \in 1 .. m + l : a = to[i] /\ k[i] = all[a]
      BY <1>12
    <3>2. PICK b \in 1 .. m + l : b = to[j] /\ k[j] = all[b]
      BY <1>12
    <3>3. a < b
      BY <1>13, <3>1, <3>2
    <3>4. a # b /\ a \in DOMAIN all /\ b \in DOMAIN all
      BY <1>9, <3>3
    <3>5. all[a] # all[b]
      BY <1>3, <3>4
    <3>. QED BY <3>1, <3>2, <3>5
  <2>2. \A i, j \in 1 .. m + n : i # j => i < j \/ j < i
    OBVIOUS
  <2>. QED BY <2>1, <2>2
<1>15. PICK e : e = IF "tags" \in DOMAIN r.attributes /\ IsMap(r.attributes["tags"])
                    THEN <<"tags">> ELSE <<>>
  OBVIOUS
<1>16. e = <<>> \/ e = <<"tags">>
  BY <1>15
<1>17. emitted_keys(r) = k \o e
  BY <1>1, <1>4, <1>5, <1>10, <1>15 DEF emitted_keys
<1>18. CASE e = <<>>
  <2>1. emitted_keys(r) = k
    BY <1>17, <1>18, OneBehindOther
  <2>. QED BY <1>11, <1>14, <2>1 DEF NoNameTwice
<1>19. CASE e = <<"tags">>
  <2>. PICK w \in Nat : w = m + n
    OBVIOUS
  <2>1. e \in Seq(U) /\ Len(e) = 1 /\ e[1] = "tags"
    <3>1. \A x \in U : <<x>> \in Seq(U) /\ Len(<<x>>) = 1 /\ <<x>>[1] = x
      OBVIOUS
    <3>2. "tags" \in U
      OBVIOUS
    <3>. QED BY <1>19, <3>1, <3>2
  <2>2. PICK c \in Seq(U) : c = k \o e
    BY <2>1, OneBehindOther
  <2>3. /\ Len(c) = w + 1 /\ \A i \in 1 .. w : c[i] = k[i]
        /\ c[w + 1] = "tags"
    <3>1. Len(k \o e) = Len(k) + Len(e)
      BY <2>1, OneBehindOther
    <3>2. \A i \in 1 .. Len(k) : (k \o e)[i] = k[i]
      BY <2>1, OneBehindOther
    <3>3. \A i \in 1 .. Len(e) : (k \o e)[Len(k) + i] = e[i]
      <4>1. e \in Seq(U)
        BY <2>1
      <4>. QED BY <4>1, OneBehindOther
    <3>4. PICK i \in 1 .. Len(e) : i = 1
      BY <2>1
    <3>5. (k \o e)[w + 1] = "tags"
      BY <1>11, <2>1, <3>3, <3>4
    <3>. QED BY <1>11, <2>1, <2>2, <3>1, <3>2, <3>5
  <2>4. \A i \in DOMAIN c : i \in 1 .. w \/ i = w + 1
    BY <2>3
  <2>5. NoNameTwice(c)
    BY <1>14, <2>3, <2>4 DEF NoNameTwice
  <2>. QED BY <1>17, <2>2, <2>5
<1>. QED BY <1>16, <1>18, <1>19

\* A block is made of each resource, or of none.
Made(m, s) ==
  /\ m.error = "none" <=> \A i \in 1 .. Len(s) : block_error(s[i]) = "none"
  /\ m.error = "none" => m.blocks = [i \in 1 .. Len(s) |-> build_resource_block(s[i])]

LEMMA BlocksAreMade ==
  ASSUME NEW T, NEW s \in Seq(T)
  PROVE  Made(blocks_of(s), s)
<1>. DEFINE R == {i \in 1 .. Len(s) : block_error(s[i]) # "none"}
<1>1. DOMAIN s = 1 .. Len(s) /\ Len(s) \in Nat
  OBVIOUS
<1>2. blocks_of(s) = IF R # {} THEN [error |-> block_error(s[Min(R)]), blocks |-> <<>>]
                     ELSE [error |-> "none",
                           blocks |-> [i \in 1 .. Len(s) |-> build_resource_block(s[i])]]
  BY <1>1 DEF blocks_of
<1>3. CASE R = {}
  BY <1>2, <1>3 DEF Made
<1>4. CASE R # {}
  <2>1. R \in SUBSET (0 .. Len(s))
    OBVIOUS
  <2>2. Min(R) \in R
    <3>. HIDE DEF R
    <3>. QED BY <1>1, <1>4, <2>1, GreatestAndLeast
  <2>3. block_error(s[Min(R)]) # "none"
    BY <2>2
  <2>. QED BY <1>2, <1>4, <2>3 DEF Made
<1>. QED BY <1>3, <1>4

\* A plan is refused for one of its resources, whatever the order they are seen in.
Refuses(p) == \E i \in 1 .. Len(p) : block_error(p[i]) # "none"

LEMMA AllAreRefused ==
  ASSUME NEW p, Planned(p)
  PROVE  render_many(p).error = "none" <=> ~Refuses(p)
<1>1. PICK at : ByAddress(at, p) /\ sort_resources(p) = [k \in 1 .. Len(p) |-> p[at[k]]]
  BY PlanIsSorted DEF SortedBy
<1>2. /\ at \in [1 .. Len(p) -> 1 .. Len(p)]
      /\ \A i \in 1 .. Len(p) : \E k \in 1 .. Len(p) : at[k] = i
  BY <1>1 DEF ByAddress
<1>3. PICK n \in Nat : n = Len(p)
  BY PlanIsTyped
<1>4. PICK s : s = sort_resources(p)
  OBVIOUS
<1>5. s \in Seq(ToSet(p)) /\ Len(s) = n /\ \A k \in 1 .. n : s[k] = p[at[k]]
  <2>1. \A i \in 1 .. n : p[i] \in ToSet(p)
    BY <1>3, PlanIsTyped
  <2>. QED BY <1>1, <1>2, <1>3, <1>4, <2>1
<1>6. render_many(p).error = "none" <=> \A i \in 1 .. n : block_error(s[i]) = "none"
  <2>1. Made(blocks_of(s), s)
    BY <1>5, BlocksAreMade
  <2>. QED BY <1>4, <1>5, <2>1 DEF render_many, Made
<1>7. (\A i \in 1 .. n : block_error(s[i]) = "none")
        <=> \A i \in 1 .. n : block_error(p[i]) = "none"
  <2>1. ASSUME \A i \in 1 .. n : block_error(s[i]) = "none", NEW i \in 1 .. n
        PROVE  block_error(p[i]) = "none"
    <3>1. PICK k \in 1 .. n : at[k] = i
      BY <1>2, <1>3
    <3>. QED BY <1>5, <2>1, <3>1
  <2>2. ASSUME \A i \in 1 .. n : block_error(p[i]) = "none", NEW k \in 1 .. n
        PROVE  block_error(s[k]) = "none"
    BY <1>2, <1>3, <1>5, <2>2
  <2>. QED BY <2>1, <2>2
<1>. QED BY <1>3, <1>6, <1>7 DEF Refuses

\* The types of which blocks can be made, and the file that is made of one.
Good(p) == {t \in DOMAIN groups(p) : blocks_of(groups(p)[t]).error = "none"}

FileOf(p, t) == [type |-> t, blocks |-> blocks_of(groups(p)[t]).blocks]

Files(p) == {FileOf(p, t) : t \in Good(p)}

LEMMA GoodTypes ==
  ASSUME NEW p, Planned(p)
  PROVE  ~Refuses(p) <=> DOMAIN groups(p) \subseteq Good(p)
<1>1. \A i \in 1 .. Len(p) : p[i].type \in {p[j].type : j \in 1 .. Len(p)}
  OBVIOUS
<1>2. DOMAIN p = 1 .. Len(p)
  BY PlanIsTyped
<1>3. DOMAIN groups(p) = {p[j].type : j \in 1 .. Len(p)}
  BY <1>2 DEF groups
<1>4. ASSUME ~Refuses(p), NEW t \in DOMAIN groups(p) PROVE t \in Good(p)
  <2>1. PICK g \in Seq(ToSet(p)) : g = groups(p)[t]
    BY <1>3, TypesAreGrouped
  <2>2. PICK at : Groups(at, g, p, t)
    BY <1>3, <2>1, TypesAreGrouped
  <2>3. \A i \in 1 .. Len(g) : block_error(g[i]) = "none"
    BY <1>2, <1>4, <2>2 DEF Groups, OfType, Refuses
  <2>4. Made(blocks_of(g), g)
    BY BlocksAreMade
  <2>. QED BY <1>4, <2>1, <2>3, <2>4 DEF Good, Made
<1>5. ASSUME DOMAIN groups(p) \subseteq Good(p), NEW k \in 1 .. Len(p) PROVE block_error(p[k]) = "none"
  <2>1. PICK t \in DOMAIN groups(p) : t = p[k].type
    BY <1>1, <1>3
  <2>2. PICK g \in Seq(ToSet(p)) : g = groups(p)[t]
    BY <1>3, TypesAreGrouped
  <2>3. PICK at : Groups(at, g, p, t)
    BY <1>3, <2>2, TypesAreGrouped
  <2>4. PICK i \in 1 .. Len(g) : at[i] = k
    BY <1>2, <2>1, <2>3 DEF Groups, OfType
  <2>5. g[i] = p[k]
    BY <2>3, <2>4 DEF Groups
  <2>6. blocks_of(g).error = "none"
    BY <1>5, <2>2 DEF Good
  <2>7. Made(blocks_of(g), g)
    BY BlocksAreMade
  <2>. QED BY <2>5, <2>6, <2>7 DEF Made
<1>. QED BY <1>4, <1>5 DEF Refuses

\* A file has the resources of its type once each, in the order of addresses.
HasItsResources(blocks, p, t) ==
  /\ ToSet(blocks) = {build_resource_block(p[i]) : i \in OfType(p, t)}
  /\ Len(blocks) = Cardinality(OfType(p, t))
  /\ \A a, b \in DOMAIN blocks : a < b => blocks[a].addr <= blocks[b].addr

LEMMA FileIsTheGroup ==
  ASSUME NEW p, Planned(p), NEW t \in Good(p)
  PROVE  HasItsResources(blocks_of(groups(p)[t]).blocks, p, t)
<1>1. t \in {p[j].type : j \in 1 .. Len(p)}
  <2>1. DOMAIN p = 1 .. Len(p)
    BY PlanIsTyped
  <2>. QED BY <2>1 DEF Good, groups
<1>2. PICK g \in Seq(ToSet(p)) : g = groups(p)[t]
  BY <1>1, TypesAreGrouped
<1>3. PICK at : Groups(at, g, p, t)
  BY <1>1, <1>2, TypesAreGrouped
<1>4. PICK n \in Nat : n = Len(g)
  OBVIOUS
<1>5. /\ at \in [1 .. n -> OfType(p, t)] /\ \A i \in 1 .. n : g[i] = p[at[i]]
      /\ \A i, j \in 1 .. n : i < j => at[i] # at[j] /\ p[at[i]].addr <= p[at[j]].addr
      /\ \A k \in OfType(p, t) : \E i \in 1 .. n : at[i] = k
  BY <1>3, <1>4 DEF Groups
<1>6. PICK B : B = blocks_of(g).blocks
  OBVIOUS
<1>7. B = [i \in 1 .. n |-> build_resource_block(g[i])]
  <2>1. Made(blocks_of(g), g)
    BY BlocksAreMade
  <2>. QED BY <1>2, <1>4, <1>6, <2>1 DEF Good, Made
<1>8. DOMAIN B = 1 .. n /\ Len(B) = n /\ \A i \in 1 .. n : B[i] = build_resource_block(p[at[i]])
  BY <1>5, <1>7
<1>9. ToSet(B) = {build_resource_block(p[i]) : i \in OfType(p, t)}
  <2>1. \A x \in ToSet(B) : x \in {build_resource_block(p[i]) : i \in OfType(p, t)}
    <3>1. \A x \in ToSet(B) : \E i \in 1 .. n : B[i] = x
      BY <1>8 DEF ToSet
    <3>. QED BY <1>5, <1>8, <3>1
  <2>2. \A x \in {build_resource_block(p[i]) : i \in OfType(p, t)} : x \in ToSet(B)
    <3>. SUFFICES ASSUME NEW k \in OfType(p, t)
                  PROVE  \E i \in 1 .. n : B[i] = build_resource_block(p[k])
      BY <1>8 DEF ToSet
    <3>1. PICK i \in 1 .. n : at[i] = k
      BY <1>5
    <3>. QED BY <1>8, <3>1
  <2>. QED BY <2>1, <2>2
<1>10. Cardinality(OfType(p, t)) = n
  <2>1. \A i, j \in 1 .. n : at[i] = at[j] => i = j
    BY <1>5
  <2>. QED BY <1>5, <2>1, NumberedSet
<1>11. \A a, b \in 1 .. n : a < b => B[a].addr <= B[b].addr
  <2>1. \A r : build_resource_block(r).addr = r.addr
    BY DEF build_resource_block
  <2>2. \A a \in 1 .. n : B[a].addr = p[at[a]].addr
    BY <1>8, <2>1
  <2>. QED BY <1>5, <2>2
<1>. QED BY <1>2, <1>6, <1>8, <1>9, <1>10, <1>11 DEF HasItsResources

\* What holds of the writing: its files are those of types that are good, one of each,
\* and once it is done all are there, or a type is not good.
RenderShape(r) ==
  /\ r = [pc |-> r.pc, plan |-> r.plan, files |-> r.files, error |-> r.error]
  /\ r.pc \in {"emit", "done"} /\ r.plan \in RenderPlans

FilesAreGood(r) ==
  /\ r.files \in Seq(Files(r.plan))
  /\ \A j, k \in DOMAIN r.files : j # k => r.files[j].type # r.files[k].type

ErrorIsRight(r) ==
  /\ r.pc = "emit" => r.error = "none"
  /\ r.pc = "done" /\ r.error = "none" =>
       \A t \in DOMAIN groups(r.plan) : \E j \in DOMAIN r.files : r.files[j].type = t
  /\ r.error # "none" => ~(DOMAIN groups(r.plan) \subseteq Good(r.plan))

RenderInv(r) == RenderShape(r) /\ FilesAreGood(r) /\ ErrorIsRight(r)

LEMMA RenderBegins == RenderInit => RenderInv(render)
<1>. SUFFICES ASSUME NEW p \in RenderPlans,
                     render = [pc |-> "emit", plan |-> p, files |-> <<>>, error |-> "none"]
              PROVE  RenderInv(render)
  BY DEF RenderInit, RenderIdle
<1>1. <<>> \in Seq(Files(p))
  OBVIOUS
<1>. QED BY <1>1 DEF RenderInv, RenderShape, FilesAreGood, ErrorIsRight

\* The type that is written next is one that is left.
LEMMA NextTypeIsLeft ==
  ASSUME NEW p, Planned(p), NEW left, left \subseteq DOMAIN groups(p), left # {}
  PROVE  TypeOrder[Min({k \in DOMAIN TypeOrder : TypeOrder[k] \in left})] \in left
<1>. DEFINE K == {k \in DOMAIN TypeOrder : TypeOrder[k] \in left}
<1>1. PICK n \in Nat : n = Len(TypeOrder) /\ DOMAIN TypeOrder = 1 .. n
  BY TemplatesAssumption
<1>2. left \subseteq ToSet(TypeOrder)
  <2>1. DOMAIN groups(p) = {p[i].type : i \in 1 .. Len(p)}
    <3>1. DOMAIN p = 1 .. Len(p)
      BY PlanIsTyped
    <3>. QED BY <3>1 DEF groups
  <2>2. \A i \in 1 .. Len(p) : p[i].type \in ToSet(TypeOrder)
    BY PlanIsTyped
  <2>. QED BY <2>1, <2>2
<1>3. K \in SUBSET (0 .. n) /\ K # {}
  <2>1. PICK k \in 1 .. n : TypeOrder[k] \in left
    BY <1>1, <1>2 DEF ToSet
  <2>. QED BY <1>1, <2>1
<1>4. Min(K) \in K
  <2>. HIDE DEF K
  <2>. QED BY <1>3, GreatestAndLeast
<1>. QED BY <1>4

LEMMA EmitKeepsRenderInv ==
  ASSUME RenderInv(render), EmitType
  PROVE  RenderInv(render')
<1>. DEFINE left == DOMAIN groups(render.plan)
                      \ {render.files[i].type : i \in DOMAIN render.files}
            t == TypeOrder[Min({k \in DOMAIN TypeOrder : TypeOrder[k] \in left})]
            made == blocks_of(groups(render.plan)[t])
<1>1. /\ render.pc = "emit"
      /\ render' = IF left = {} THEN [render EXCEPT !.pc = "done"]
                   ELSE IF made.error # "none"
                        THEN [render EXCEPT !.pc = "done", !.error = made.error]
                   ELSE [render EXCEPT !.files = Append(@, [type |-> t, blocks |-> made.blocks])]
  BY DEF EmitType
<1>2. left \subseteq DOMAIN groups(render.plan)
  OBVIOUS
<1>3. \A x \in DOMAIN groups(render.plan) :
         x \in left <=> \A i \in DOMAIN render.files : render.files[i].type # x
  OBVIOUS
<1>. HIDE DEF left
<1>4. RenderShape(render) /\ FilesAreGood(render) /\ ErrorIsRight(render)
  BY DEF RenderInv
<1>. PICK p \in RenderPlans : p = render.plan
  BY <1>4 DEF RenderShape
<1>5. Planned(p)
  BY TemplatesAssumption DEF Planned
<1>6. left # {} => t \in left
  BY <1>2, <1>5, NextTypeIsLeft
<1>. HIDE DEF t
<1>7. made = blocks_of(groups(p)[t])
  OBVIOUS
<1>. HIDE DEF made
<1>. PICK old \in Seq(Files(p)) : old = render.files
  BY <1>4 DEF FilesAreGood
<1>8. render = [pc |-> "emit", plan |-> p, files |-> old, error |-> "none"]
  BY <1>1, <1>4 DEF RenderShape, ErrorIsRight
<1>9. \A j, k \in DOMAIN old : j # k => old[j].type # old[k].type
  BY <1>4 DEF FilesAreGood
<1>. PICK s : s = render'
  OBVIOUS
<1>10. CASE left = {}
  <2>1. s = [pc |-> "done", plan |-> p, files |-> old, error |-> "none"]
    BY <1>1, <1>8, <1>10
  <2>2. \A x \in DOMAIN groups(p) : \E j \in DOMAIN old : old[j].type = x
    BY <1>3, <1>10
  <2>3. RenderShape(s) /\ FilesAreGood(s)
    BY <1>9, <2>1 DEF RenderShape, FilesAreGood
  <2>4. ErrorIsRight(s)
    BY <2>1, <2>2 DEF ErrorIsRight
  <2>. QED BY <2>3, <2>4 DEF RenderInv
<1>11. CASE left # {} /\ made.error # "none"
  <2>1. s = [pc |-> "done", plan |-> p, files |-> old, error |-> made.error]
    BY <1>1, <1>8, <1>11
  <2>2. t \in DOMAIN groups(p) /\ t \notin Good(p)
    BY <1>2, <1>6, <1>7, <1>11 DEF Good
  <2>3. RenderShape(s) /\ FilesAreGood(s)
    BY <1>9, <2>1 DEF RenderShape, FilesAreGood
  <2>4. ErrorIsRight(s)
    BY <1>11, <2>1, <2>2 DEF ErrorIsRight
  <2>. QED BY <2>3, <2>4 DEF RenderInv
<1>12. CASE left # {} /\ made.error = "none"
  <2>. PICK f : f = [type |-> t, blocks |-> made.blocks]
    OBVIOUS
  <2>1. t \in Good(p)
    BY <1>2, <1>6, <1>7, <1>12 DEF Good
  <2>2. f = FileOf(p, t) /\ f.type = t
    BY <1>7 DEF FileOf
  <2>3. f \in Files(p)
    BY <2>1, <2>2 DEF Files
  <2>4. PICK new \in Seq(Files(p)) : new = Append(old, f)
    <3>1. \A S : \A x \in Seq(S), y \in S : Append(x, y) \in Seq(S)
      OBVIOUS
    <3>. QED BY <2>3, <3>1
  <2>5. s = [pc |-> "emit", plan |-> p, files |-> new, error |-> "none"]
    <3>1. s = [render EXCEPT !.files = Append(render.files, [type |-> t, blocks |-> made.blocks])]
      BY <1>1, <1>12
    <3>2. s = [render EXCEPT !.files = new]
      BY <2>4, <3>1
    <3>. QED BY <1>8, <3>2
  <2>6. \A j \in DOMAIN old : old[j].type # t
    BY <1>2, <1>3, <1>6, <1>12
  <2>7. PICK n \in Nat : n = Len(old)
    OBVIOUS
  <2>8. /\ DOMAIN old = 1 .. n /\ DOMAIN new = 1 .. n + 1 /\ new[n + 1] = f
        /\ \A i \in 1 .. n : new[i] = old[i]
    BY <2>3, <2>4, <2>7
  <2>9. \A i \in 1 .. n + 1 : i \in 1 .. n \/ i = n + 1
    OBVIOUS
  <2>10. \A j, k \in DOMAIN new : j # k => new[j].type # new[k].type
    BY <1>9, <2>2, <2>6, <2>8, <2>9
  <2>11. RenderShape(s) /\ FilesAreGood(s)
    BY <2>5, <2>10 DEF RenderShape, FilesAreGood
  <2>12. ErrorIsRight(s)
    BY <2>5 DEF ErrorIsRight
  <2>. QED BY <2>11, <2>12 DEF RenderInv
<1>. QED BY <1>10, <1>11, <1>12

LEMMA FilesFollow == RenderInv(render) => FilesAreThePlan
<1>. SUFFICES ASSUME RenderInv(render), render.pc = "done" PROVE FilesAreThePlan
  BY DEF FilesAreThePlan
<1>. DEFINE p == render.plan
            files == render.files
<1>1. /\ RenderShape(render) /\ FilesAreGood(render) /\ ErrorIsRight(render)
      /\ render.pc = "done"
  BY DEF RenderInv
<1>2. p \in RenderPlans /\ Planned(p)
  BY <1>1, TemplatesAssumption DEF RenderShape, Planned
<1>. PICK error : error = render.error
  OBVIOUS
<1>. HIDE DEF p, files
<1>3. /\ files \in Seq(Files(p))
      /\ \A j, k \in DOMAIN files : j # k => files[j].type # files[k].type
      /\ error = "none" => \A t \in DOMAIN groups(p) : \E j \in DOMAIN files : files[j].type = t
      /\ error # "none" => ~(DOMAIN groups(p) \subseteq Good(p))
  BY <1>1 DEF FilesAreGood, ErrorIsRight, p, files
<1>4. DOMAIN p = 1 .. Len(p) /\ DOMAIN groups(p) = {p[i].type : i \in DOMAIN p}
  BY <1>2, PlanIsTyped DEF groups
<1>5. \A j \in DOMAIN files : files[j].type \in Good(p) /\ files[j] = FileOf(p, files[j].type)
  <2>1. \A j \in DOMAIN files : files[j] \in Files(p)
    BY <1>3
  <2>2. \A f \in Files(p) : f.type \in Good(p) /\ f = FileOf(p, f.type)
    BY DEF FileOf, Files
  <2>. QED BY <2>1, <2>2
<1>6. error = "none" <=> DOMAIN groups(p) \subseteq Good(p)
  <2>1. ASSUME error = "none", NEW t \in DOMAIN groups(p) PROVE t \in Good(p)
    <3>1. PICK j \in DOMAIN files : files[j].type = t
      BY <1>3, <2>1
    <3>. QED BY <1>5, <3>1
  <2>. QED BY <1>3, <2>1
<1>7. error = "none" <=> render_many(p).error = "none"
  BY <1>2, <1>6, GoodTypes, AllAreRefused
<1>8. ASSUME error = "none"
      PROVE  /\ Cardinality({p[i].addr : i \in DOMAIN p}) = Len(p) =>
                  \A b \in Bijection(DOMAIN p, DOMAIN p) : groups(Shuffled(p, b)) = groups(p)
             /\ {files[j].type : j \in DOMAIN files} = {p[i].type : i \in DOMAIN p}
             /\ \A j, k \in DOMAIN files : j # k => files[j].type # files[k].type
             /\ \A j \in DOMAIN files : HasItsResources(files[j].blocks, p, files[j].type)
             /\ \A i \in DOMAIN p :
                  /\ ToSet(TemplateOf[p[i].type].required) \subseteq DOMAIN p[i].attributes
                  /\ NoNameTwice(emitted_keys(p[i]))
  <2>1. Cardinality({p[i].addr : i \in DOMAIN p}) = Len(p) =>
          \A b \in Bijection(DOMAIN p, DOMAIN p) : groups(Shuffled(p, b)) = groups(p)
    BY <1>2, CountedAddressesDiffer, OrderDoesNotMatter
  <2>2. {files[j].type : j \in DOMAIN files} = {p[i].type : i \in DOMAIN p}
    <3>1. \A j \in DOMAIN files : files[j].type \in DOMAIN groups(p)
      BY <1>5 DEF Good
    <3>2. \A t \in DOMAIN groups(p) : \E j \in DOMAIN files : files[j].type = t
      BY <1>8, <1>3
    <3>. PICK T, D : T = {files[j].type : j \in DOMAIN files} /\ D = DOMAIN groups(p)
      OBVIOUS
    <3>3. T = D
      <4>1. \A t \in T : t \in D
        BY <3>1
      <4>2. \A t \in D : t \in T
        BY <3>2
      <4>. QED BY <4>1, <4>2
    <3>. QED BY <1>4, <3>3
  <2>3. \A j, k \in DOMAIN files : j # k => files[j].type # files[k].type
    BY <1>3
  <2>4. \A j \in DOMAIN files : HasItsResources(files[j].blocks, p, files[j].type)
    <3>. SUFFICES ASSUME NEW j \in DOMAIN files PROVE HasItsResources(files[j].blocks, p, files[j].type)
      OBVIOUS
    <3>1. PICK t \in Good(p) : t = files[j].type
      BY <1>5
    <3>2. files[j] = FileOf(p, t)
      BY <1>5, <3>1
    <3>3. files[j].blocks = blocks_of(groups(p)[t]).blocks
      BY <3>2 DEF FileOf
    <3>. QED BY <1>2, <3>1, <3>3, FileIsTheGroup
  <2>5. ASSUME NEW i \in DOMAIN p
        PROVE  /\ ToSet(TemplateOf[p[i].type].required) \subseteq DOMAIN p[i].attributes
               /\ NoNameTwice(emitted_keys(p[i]))
    <3>1. block_error(p[i]) = "none"
      BY <1>2, <1>4, <1>6, <1>8, GoodTypes DEF Refuses
    <3>2. p[i].type \in DOMAIN TemplateOf /\ ~missing(p[i])
      BY <3>1 DEF block_error
    <3>3. ToSet(TemplateOf[p[i].type].required) \subseteq DOMAIN p[i].attributes
      BY <3>2 DEF missing
    <3>. QED BY <3>2, <3>3, NamesAreEmittedOnce
  <2>. QED BY <2>1, <2>2, <2>3, <2>4, <2>5
<1>. QED BY <1>7, <1>8 DEF FilesAreThePlan, HasItsResources, NoNameTwice, OfType, p, files

\* The files that are written hold the plan: whatever the templates and the plan, a file for
\* each type, with each of its resources once and in order, or an error if and only if one
\* of them is refused; and the order the resources come in makes no difference.
THEOREM FilesHoldThePlan == RenderSpec => []FilesAreThePlan
<1>1. RenderInit => RenderInv(render)
  BY RenderBegins
<1>2. RenderInv(render) /\ [EmitType]_render => RenderInv(render')
  BY EmitKeepsRenderInv
<1>3. RenderInv(render) => FilesAreThePlan
  BY FilesFollow
<1>4. RenderInv(render)' <=> RenderInv(render')
  OBVIOUS
<1>. QED BY <1>1, <1>2, <1>3, <1>4, PTL DEF RenderSpec

----------------------------------------------------------------------------
(* The text that is recorded *)

\* A text falls into pieces: characters that are in no value, and values of D; B is where
\* they begin, and the end.
Safe(s, i) == s[i] \notin ValueCharacters

HoldsAt(s, i, v) ==
  /\ i + Len(v) <= Len(s) + 1
  /\ \A k \in 1 .. Len(v) : s[i + k - 1] = v[k]

PieceFrom(s, D, i, j) ==
  \/ j = i + 1 /\ Safe(s, i)
  \/ \E v \in D : j = i + Len(v) /\ HoldsAt(s, i, v)

Pieces(B, s, D) ==
  /\ B \subseteq 1 .. Len(s) + 1 /\ 1 \in B /\ Len(s) + 1 \in B
  /\ \A i \in B : i <= Len(s) =>
        \E j \in B : i < j /\ PieceFrom(s, D, i, j) /\ \A k \in B : k <= i \/ j <= k

FallsApart(s, D) == \E B : Pieces(B, s, D)

\* What the values are.
AreValues(D, T) == \A v \in D : v \in Seq(T) /\ Len(v) > 0

\* The pieces stay when there are more values, and a piece more may stand behind them.
LEMMA MoreValues ==
  ASSUME NEW s, NEW D, NEW E, D \subseteq E, FallsApart(s, D)
  PROVE  FallsApart(s, E)
<1>1. PICK B : Pieces(B, s, D)
  BY DEF FallsApart
<1>2. \A i, j : PieceFrom(s, D, i, j) => PieceFrom(s, E, i, j)
  BY DEF PieceFrom
<1>3. Pieces(B, s, E)
  BY <1>1, <1>2 DEF Pieces
<1>. QED BY <1>3 DEF FallsApart

LEMMA PieceBehind ==
  ASSUME NEW T, NEW s \in Seq(T), NEW t \in Seq(T), NEW D, AreValues(D, T), FallsApart(s, D),
         t \in D \/ (Len(t) = 1 /\ t[1] \notin ValueCharacters)
  PROVE  FallsApart(s \o t, D)
<1>1. PICK B : Pieces(B, s, D)
  BY DEF FallsApart
<1>2. PICK m \in Nat, n \in Nat : m = Len(s) /\ n = Len(t)
  OBVIOUS
<1>3. PICK c \in Seq(T) : c = s \o t
  BY OneBehindOther
<1>4. /\ Len(c) = m + n /\ \A i \in 1 .. m : c[i] = s[i]
      /\ \A i \in 1 .. n : c[m + i] = t[i]
  BY <1>2, <1>3, OneBehindOther
<1>5. n > 0
  BY <1>2 DEF AreValues
<1>6. /\ B \subseteq 1 .. m + 1 /\ 1 \in B /\ m + 1 \in B
      /\ \A i \in B : i <= m =>
            \E j \in B : i < j /\ PieceFrom(s, D, i, j) /\ \A k \in B : k <= i \/ j <= k
  BY <1>1, <1>2 DEF Pieces
<1>7. PICK e \in Nat : e = m + n + 1
  OBVIOUS
<1>. DEFINE A == B \cup {e}
<1>8. A \subseteq 1 .. Len(c) + 1 /\ 1 \in A /\ Len(c) + 1 \in A
  <2>1. \A i \in 1 .. m + 1 : i \in 1 .. e
    BY <1>7
  <2>. QED BY <1>4, <1>6, <1>7, <2>1
<1>9. ASSUME NEW i \in A, i <= Len(c)
      PROVE  \E j \in A : i < j /\ PieceFrom(c, D, i, j) /\ \A k \in A : k <= i \/ j <= k
  <2>1. i \in B /\ i \in 1 .. m + 1
    BY <1>4, <1>6, <1>7, <1>9
  <2>2. CASE i <= m
    <3>1. PICK j \in B : i < j /\ PieceFrom(s, D, i, j) /\ \A k \in B : k <= i \/ j <= k
      BY <1>6, <2>1, <2>2
    <3>2. j \in 1 .. m + 1 /\ j <= e
      BY <1>6, <1>7, <3>1
    <3>3. CASE j = i + 1 /\ Safe(s, i)
      <4>1. Safe(c, i)
        BY <1>4, <2>1, <2>2, <3>3 DEF Safe
      <4>2. PieceFrom(c, D, i, j)
        BY <3>3, <4>1 DEF PieceFrom
      <4>. QED BY <3>1, <3>2, <4>2
    <3>4. ASSUME NEW v \in D, j = i + Len(v), HoldsAt(s, i, v) PROVE PieceFrom(c, D, i, j)
      <4>1. Len(v) \in Nat
        BY DEF AreValues
      <4>2. \A k \in 1 .. Len(v) : i + k - 1 \in 1 .. m
        BY <2>1, <3>2, <3>4, <4>1
      <4>3. HoldsAt(c, i, v)
        <5>1. i + Len(v) <= Len(c) + 1
          BY <1>2, <1>4, <3>2, <3>4, <4>1
        <5>2. \A k \in 1 .. Len(v) : c[i + k - 1] = v[k]
          BY <1>4, <3>4, <4>2 DEF HoldsAt
        <5>. QED BY <5>1, <5>2 DEF HoldsAt
      <4>. QED BY <3>4, <4>3 DEF PieceFrom
    <3>5. PieceFrom(c, D, i, j) => \E q \in A : i < q /\ PieceFrom(c, D, i, q) /\ \A k \in A : k <= i \/ q <= k
      BY <3>1, <3>2
    <3>. QED BY <3>1, <3>3, <3>4, <3>5 DEF PieceFrom
  <2>3. CASE i = m + 1
    <3>1. i < e /\ \A k \in A : k <= i \/ e <= k
      BY <1>5, <1>6, <1>7, <2>3
    <3>2. CASE t \in D
      <4>1. HoldsAt(c, i, t)
        <5>1. \A k \in 1 .. n : i + k - 1 = m + k
          BY <2>3
        <5>. QED BY <1>2, <1>4, <2>3, <5>1 DEF HoldsAt
      <4>2. e = i + Len(t)
        BY <1>2, <1>7, <2>3
      <4>. QED BY <3>1, <3>2, <4>1, <4>2 DEF PieceFrom
    <3>3. CASE Len(t) = 1 /\ t[1] \notin ValueCharacters
      <4>1. e = i + 1 /\ c[i] = t[1]
        <5>1. 1 \in 1 .. n /\ m + 1 = i
          BY <1>5, <2>3
        <5>. QED BY <1>2, <1>4, <1>7, <3>3, <5>1
      <4>. QED BY <3>1, <3>3, <4>1 DEF PieceFrom, Safe
    <3>. QED BY <3>2, <3>3
  <2>. QED BY <2>1, <2>2, <2>3
<1>. HIDE DEF A
<1>10. Pieces(A, c, D)
  BY <1>8, <1>9 DEF Pieces
<1>. QED BY <1>3, <1>10 DEF FallsApart

\* Every character is in a piece.
LEMMA PieceAround ==
  ASSUME NEW T, NEW s \in Seq(T), NEW D, NEW B, Pieces(B, s, D), NEW i \in 1 .. Len(s)
  PROVE  \E b, e \in B : /\ b <= i /\ i < e /\ PieceFrom(s, D, b, e)
                         /\ \A k \in B : k <= b \/ e <= k
<1>1. /\ B \subseteq 1 .. Len(s) + 1 /\ 1 \in B
      /\ \A b \in B : b <= Len(s) =>
            \E j \in B : b < j /\ PieceFrom(s, D, b, j) /\ \A k \in B : k <= b \/ j <= k
  BY DEF Pieces
<1>. DEFINE L == {b \in B : b <= i}
<1>2. PICK n \in Nat : n = Len(s) /\ i \in 1 .. n
  OBVIOUS
<1>3. L \in SUBSET (0 .. n) /\ L # {}
  <2>1. \A y \in 1 .. n + 1 : y <= i => y \in 0 .. n
    BY <1>2
  <2>2. 1 <= i
    BY <1>2
  <2>. QED BY <1>1, <1>2, <2>1, <2>2
<1>4. Max(L) \in L /\ \A y \in L : y <= Max(L)
  <2>. HIDE DEF L
  <2>. QED BY <1>3, GreatestAndLeast
<1>5. PICK b \in L : \A y \in L : y <= b
  BY <1>4
<1>6. PICK e \in B : b < e /\ PieceFrom(s, D, b, e) /\ \A k \in B : k <= b \/ e <= k
  BY <1>1, <1>2, <1>5
<1>7. i < e
  BY <1>1, <1>2, <1>5, <1>6
<1>. QED BY <1>5, <1>6, <1>7

\* The end of one sequence, and the beginning of another.
LEMMA SameSubsequence ==
  ASSUME NEW T, NEW x \in Seq(T), NEW y \in Seq(T), NEW l \in Nat, l = Len(x),
         NEW j \in 1 .. l, j <= Len(y), \A k \in 1 .. j : x[l - j + k] = y[k]
  PROVE  SubSeq(x, l - j + 1, l) = SubSeq(y, 1, j)
<1>1. \A h \in Nat : \A i \in 1 .. h : h - i + 1 \in 1 .. h
  OBVIOUS
<1>. PICK p \in 1 .. l : p = l - j + 1
  BY <1>1
<1>. DEFINE a == SubSeq(x, p, l)
            b == SubSeq(y, 1, j)
<1>2. a \in Seq(T) /\ Len(a) = j /\ \A k \in 1 .. j : a[k] = x[l - j + k]
  <2>1. \A k \in 1 .. j : p + k - 1 = l - j + k
    OBVIOUS
  <2>2. l - p + 1 = j
    OBVIOUS
  <2>3. Len(a) = l - p + 1 /\ a \in Seq(T)
    OBVIOUS
  <2>4. \A k \in 1 .. l - p + 1 : a[k] = x[p + k - 1]
    OBVIOUS
  <2>. QED BY <2>1, <2>2, <2>3, <2>4
<1>3. b \in Seq(T) /\ Len(b) = j /\ \A k \in 1 .. j : b[k] = y[k]
  OBVIOUS
<1>. HIDE DEF a, b
<1>. QED BY <1>2, <1>3, SameSequence

\* A longest value is found only where pieces begin and end, if no value ends as another
\* one begins.
LEMMA FoundAtPieces ==
  ASSUME NEW T, NEW s \in Seq(T), NEW D, AreValues(D, T), NEW B, Pieces(B, s, D), OverlapFree(D),
         NEW v \in D, \A w \in D : Len(w) <= Len(v),
         NEW i \in 1 .. Len(s), HoldsAt(s, i, v)
  PROVE  i \in B /\ i + Len(v) \in B
<1>1. PICK n \in Nat, m \in Nat : n = Len(s) /\ m = Len(v)
  BY DEF AreValues
<1>2. m > 0 /\ i \in 1 .. n /\ i + m <= n + 1 /\ \A k \in 1 .. m : s[i + k - 1] = v[k]
  BY <1>1 DEF AreValues, HoldsAt
<1>3. B \subseteq 1 .. n + 1 /\ n + 1 \in B
  BY <1>1 DEF Pieces
<1>4. i \in B
  <2>1. PICK b \in B, e \in B : /\ b <= i /\ i < e /\ PieceFrom(s, D, b, e)
                                /\ \A k \in B : k <= b \/ e <= k
    BY PieceAround
  <2>2. b \in 1 .. n + 1 /\ e \in 1 .. n + 1
    BY <1>3
  <2>3. CASE e = b + 1
    <3>1. b = i
      BY <1>2, <2>1, <2>2, <2>3
    <3>. QED BY <3>1
  <2>4. ASSUME NEW w \in D, e = b + Len(w), HoldsAt(s, b, w), b # i PROVE FALSE
    <3>1. PICK l \in Nat : l = Len(w) /\ l <= m
      BY <1>1 DEF AreValues
    <3>2. PICK j \in Int : j = e - i
      BY <1>2, <2>2
    <3>3. j \in 1 .. l - 1 /\ j < m /\ l - j + 1 = i - b + 1 /\ e = b + l
      BY <1>2, <2>1, <2>2, <2>4, <3>1, <3>2
    <3>4. \A k \in 1 .. l : s[b + k - 1] = w[k]
      BY <2>4, <3>1 DEF HoldsAt
    <3>5. \A k \in 1 .. j : w[l - j + k] = v[k]
      <4>. SUFFICES ASSUME NEW k \in 1 .. j PROVE w[l - j + k] = v[k]
        OBVIOUS
      <4>1. PICK q \in 1 .. l : q = l - j + k
        BY <3>3
      <4>2. b + q - 1 = i + k - 1
        BY <1>2, <2>2, <3>3, <4>1
      <4>3. k \in 1 .. m
        BY <3>3
      <4>. QED BY <1>2, <3>4, <4>1, <4>2, <4>3
    <3>6. w \in Seq(T) /\ v \in Seq(T)
      BY DEF AreValues
    <3>7. SubSeq(w, l - j + 1, l) = SubSeq(v, 1, j)
      <4>1. j \in 1 .. l /\ j <= Len(v)
        BY <1>1, <3>3
      <4>. QED BY <3>1, <3>5, <3>6, <4>1, SameSubsequence
    <3>. QED BY <1>1, <3>1, <3>3, <3>7 DEF OverlapFree
  <2>. QED BY <2>1, <2>3, <2>4 DEF PieceFrom
<1>5. i + m \in B
  <2>1. CASE i + m = n + 1
    BY <1>3, <2>1
  <2>2. CASE i + m \in 1 .. n
    <3>. PICK c \in 1 .. n : c = i + m
      BY <2>2
    <3>1. PICK b \in B, e \in B : /\ b <= c /\ c < e /\ PieceFrom(s, D, b, e)
                                  /\ \A k \in B : k <= b \/ e <= k
      BY <1>1, PieceAround
    <3>2. b \in 1 .. n + 1 /\ e \in 1 .. n + 1
      BY <1>3
    <3>3. CASE e = b + 1
      <4>1. b = c
        BY <3>1, <3>2, <3>3
      <4>. QED BY <4>1
    <3>4. ASSUME NEW w \in D, e = b + Len(w), HoldsAt(s, b, w), b # c PROVE FALSE
      <4>1. PICK l \in Nat : l = Len(w) /\ l <= m
        BY <1>1 DEF AreValues
      <4>2. i < b
        <5>1. i <= b \/ e <= i
          BY <1>4, <3>1
        <5>2. i # b
          BY <1>2, <3>1, <3>2, <3>4, <4>1
        <5>3. ~(e <= i)
          BY <1>2, <3>1, <3>2
        <5>4. i <= b => i < b
          BY <3>2, <5>2
        <5>. QED BY <5>1, <5>3, <5>4
      <4>3. PICK j \in Int : j = c - b
        BY <3>2
      <4>4. j \in 1 .. m - 1 /\ j < l /\ m - j = b - i
        BY <1>2, <3>1, <3>2, <3>4, <4>1, <4>2, <4>3
      <4>5. \A k \in 1 .. l : s[b + k - 1] = w[k]
        BY <3>4, <4>1 DEF HoldsAt
      <4>6. \A k \in 1 .. j : v[m - j + k] = w[k]
        <5>. SUFFICES ASSUME NEW k \in 1 .. j PROVE v[m - j + k] = w[k]
          OBVIOUS
        <5>1. PICK q \in 1 .. m : q = m - j + k
          BY <4>4
        <5>2. i + q - 1 = b + k - 1
          BY <1>2, <3>2, <4>4, <5>1
        <5>3. k \in 1 .. l
          BY <4>4
        <5>. QED BY <1>2, <4>5, <5>1, <5>2, <5>3
      <4>7. w \in Seq(T) /\ v \in Seq(T)
        BY DEF AreValues
      <4>8. SubSeq(v, m - j + 1, m) = SubSeq(w, 1, j)
        <5>1. j \in 1 .. m /\ j <= Len(w) /\ m = Len(v)
          BY <1>1, <4>1, <4>4
        <5>. QED BY <4>6, <4>7, <5>1, SameSubsequence
      <4>. QED BY <1>1, <4>1, <4>4, <4>8 DEF OverlapFree
    <3>. QED BY <3>1, <3>3, <3>4 DEF PieceFrom
  <2>. QED BY <1>2, <2>1, <2>2
<1>. QED BY <1>1, <1>4, <1>5

\* How a text is read by replace: what it has become so far, and what is passed over.
Reading(T) == [out : Seq(T), skip : Nat]

ReadOn(sofar, text, value, reference, i) ==
  IF sofar.skip > 0 THEN [sofar EXCEPT !.skip = @ - 1]
  ELSE IF IsAt(text, value, i) THEN [out |-> Append(sofar.out, reference), skip |-> Len(value) - 1]
  ELSE [sofar EXCEPT !.out = Append(@, text[i])]

Reads(u, text, value, reference) ==
  /\ u[0] = [out |-> <<>>, skip |-> 0]
  /\ \A i \in 1 .. Len(text) : u[i] = ReadOn(u[i - 1], text, value, reference, i)

LEMMA ReadOnIsTyped ==
  ASSUME NEW T, NEW text \in Seq(T), NEW value \in Seq(T), Len(value) > 0, NEW reference \in T,
         NEW i \in 1 .. Len(text), NEW sofar \in Reading(T)
  PROVE  ReadOn(sofar, text, value, reference, i) \in Reading(T)
<1>1. sofar.out \in Seq(T) /\ sofar.skip \in Nat /\ sofar = [out |-> sofar.out, skip |-> sofar.skip]
  BY DEF Reading
<1>2. PICK o \in Seq(T), n \in Nat : o = sofar.out /\ n = sofar.skip
  BY <1>1
<1>3. sofar = [out |-> o, skip |-> n]
  BY <1>1, <1>2
<1>4. Append(o, reference) \in Seq(T) /\ text[i] \in T /\ Append(o, text[i]) \in Seq(T)
  OBVIOUS
<1>5. Len(value) - 1 \in Nat
  OBVIOUS
<1>6. CASE n > 0
  <2>1. ReadOn(sofar, text, value, reference, i) = [out |-> o, skip |-> n - 1]
    BY <1>3, <1>6 DEF ReadOn
  <2>2. n - 1 \in Nat
    BY <1>6
  <2>. QED BY <2>1, <2>2 DEF Reading
<1>7. CASE ~(n > 0) /\ IsAt(text, value, i)
  <2>1. ReadOn(sofar, text, value, reference, i)
          = [out |-> Append(o, reference), skip |-> Len(value) - 1]
    BY <1>3, <1>7 DEF ReadOn
  <2>. QED BY <1>4, <1>5, <2>1 DEF Reading
<1>8. CASE ~(n > 0) /\ ~IsAt(text, value, i)
  <2>1. ReadOn(sofar, text, value, reference, i) = [out |-> Append(o, text[i]), skip |-> n]
    BY <1>3, <1>8 DEF ReadOn
  <2>. QED BY <1>4, <2>1 DEF Reading
<1>. QED BY <1>6, <1>7, <1>8

LEMMA ReplacedStepwise ==
  ASSUME NEW T, NEW text \in Seq(T), NEW value \in Seq(T), Len(value) > 0, NEW reference \in T
  PROVE  \E u \in [0 .. Len(text) -> Reading(T)] :
            Reads(u, text, value, reference) /\ replace(text, value, reference) = u[Len(text)].out
<1>. DEFINE n == Len(text)
            c == [out |-> <<>>, skip |-> 0]
            On(t, i) == ReadOn(t, text, value, reference, i)
            Steps(u) == u = [i \in 0 .. Len(text) |->
                               IF i = 0 THEN c
                               ELSE LET sofar == u[i - 1]
                                    IN  IF sofar.skip > 0 THEN [sofar EXCEPT !.skip = @ - 1]
                                        ELSE IF IsAt(text, value, i)
                                             THEN [out |-> Append(sofar.out, reference),
                                                   skip |-> Len(value) - 1]
                                        ELSE [sofar EXCEPT !.out = Append(@, text[i])]]
            D == [p \in Nat \X Reading(T) |-> IF p[1] \in 1 .. n THEN On(p[2], p[1]) ELSE c]
<1>1. n \in Nat /\ c \in Reading(T)
  BY DEF Reading
<1>2. \A i \in 1 .. n, t \in Reading(T) : On(t, i) \in Reading(T)
  BY ReadOnIsTyped
<1>3. \A u : Steps(u) <=> u = [i \in 0 .. n |-> IF i = 0 THEN c ELSE On(u[i - 1], i)]
  BY DEF ReadOn
<1>. DEFINE h == CHOOSE u : Steps(u)
<1>4. replace(text, value, reference) = h[n].out
  BY DEF replace
<1>. HIDE DEF Steps, h, On, n, c
<1>5. D \in [Nat \X Reading(T) -> Reading(T)]
  <2>1. \A p \in Nat \X Reading(T) : (IF p[1] \in 1 .. n THEN On(p[2], p[1]) ELSE c) \in Reading(T)
    BY <1>1, <1>2
  <2>. QED BY <2>1
<1>6. \A i \in 1 .. n, t \in Reading(T) : D[<<i, t>>] = On(t, i)
  <2>1. \A i \in 1 .. n : i \in Nat
    BY <1>1
  <2>. QED BY <2>1
<1>. HIDE DEF D
<1>7. PICK g \in [0 .. n -> Reading(T)] : Climbs(g, n, D, c)
  BY <1>1, <1>5, StepsExist
<1>8. \A i \in 1 .. n : g[i] = On(g[i - 1], i)
  <2>. SUFFICES ASSUME NEW i \in 1 .. n PROVE g[i] = On(g[i - 1], i)
    OBVIOUS
  <2>1. i - 1 \in 0 .. n
    BY <1>1
  <2>. QED BY <1>6, <1>7, <2>1 DEF Climbs
<1>9. /\ \A i \in 0 .. n : i = 0 \/ i \in 1 .. n
      /\ 0 \notin 1 .. n /\ 0 \in 0 .. n /\ n \in 0 .. n
      /\ \A i \in 1 .. n : i \in 0 .. n /\ i - 1 \in 0 .. n
  BY <1>1
<1>10. Steps(g)
  <2>1. g[0] = c
    BY <1>7 DEF Climbs
  <2>2. \A i \in 0 .. n : g[i] = IF i = 0 THEN c ELSE On(g[i - 1], i)
    BY <1>8, <1>9, <2>1
  <2>. QED BY <1>3, <1>7, <2>2
<1>11. Steps(h)
  BY <1>10 DEF h
<1>12. PICK w : w = h
  OBVIOUS
<1>13. w = [i \in 0 .. n |-> IF i = 0 THEN c ELSE On(w[i - 1], i)]
  BY <1>3, <1>11, <1>12
<1>14. w[0] = c /\ \A i \in 1 .. n : w[i] = On(w[i - 1], i)
  BY <1>9, <1>13
<1>15. w[0] = c /\ \A i \in 1 .. n : w[i - 1] \in Reading(T) => w[i] = D[<<i, w[i - 1]>>]
  BY <1>6, <1>14
<1>16. \A i \in 0 .. n : w[i] \in Reading(T)
  BY <1>1, <1>5, <1>15, StepsStay
<1>17. w \in [0 .. n -> Reading(T)]
  BY <1>13, <1>16
<1>18. Reads(w, text, value, reference)
  BY <1>14 DEF Reads, On, n, c
<1>. QED BY <1>4, <1>12, <1>17, <1>18 DEF n

LEMMA ReplacedIsText ==
  ASSUME NEW T, NEW text \in Seq(T), NEW value \in Seq(T), Len(value) > 0, NEW reference \in T
  PROVE  replace(text, value, reference) \in Seq(T)
<1>1. PICK u \in [0 .. Len(text) -> Reading(T)] :
         replace(text, value, reference) = u[Len(text)].out
  BY ReplacedStepwise
<1>2. Len(text) \in 0 .. Len(text)
  OBVIOUS
<1>3. u[Len(text)] \in Reading(T)
  BY <1>2
<1>. QED BY <1>1, <1>3 DEF Reading

\* Where replace looks for a value.
LEMMA IsAtIsHeld ==
  ASSUME NEW T, NEW s \in Seq(T), NEW v \in Seq(T), Len(v) > 0, NEW i \in 1 .. Len(s)
  PROVE  IsAt(s, v, i) <=> HoldsAt(s, i, v)
<1>. PICK n \in Nat, m \in Nat : n = Len(s) /\ m = Len(v) /\ m > 0
  OBVIOUS
<1>1. i + m - 1 <= n <=> i + m <= n + 1
  OBVIOUS
<1>2. CASE i + m <= n + 1
  <2>1. i + m - 1 \in 1 .. n
    BY <1>2
  <2>. PICK e \in 1 .. n : e = i + m - 1
    BY <2>1
  <2>. DEFINE p == SubSeq(s, i, e)
  <2>2. e - i + 1 = m
    OBVIOUS
  <2>3. p \in Seq(T) /\ Len(p) = e - i + 1
    OBVIOUS
  <2>4. \A k \in 1 .. e - i + 1 : p[k] = s[i + k - 1]
    OBVIOUS
  <2>. HIDE DEF p
  <2>5. p \in Seq(T) /\ Len(p) = Len(v) /\ \A k \in 1 .. m : p[k] = s[i + k - 1]
    BY <2>2, <2>3, <2>4
  <2>6. ASSUME \A k \in 1 .. m : s[i + k - 1] = v[k] PROVE p = v
    <3>1. \A k \in 1 .. Len(p) : p[k] = v[k]
      BY <2>5, <2>6
    <3>. QED BY <2>5, <3>1, SameSequence
  <2>7. ASSUME p = v PROVE \A k \in 1 .. m : s[i + k - 1] = v[k]
    BY <2>5, <2>7
  <2>8. IsAt(s, v, i) <=> p = v
    BY <1>2 DEF IsAt, p
  <2>9. HoldsAt(s, i, v) <=> \A k \in 1 .. m : s[i + k - 1] = v[k]
    BY <1>2 DEF HoldsAt
  <2>. QED BY <2>6, <2>7, <2>8, <2>9
<1>3. CASE ~(i + m <= n + 1)
  BY <1>1, <1>3 DEF IsAt, HoldsAt
<1>. QED BY <1>2, <1>3

\* One character more at the end.
LEMMA AppendedBehind ==
  ASSUME NEW T, NEW q \in Seq(T), NEW c \in T
  PROVE  /\ Append(q, c) \in Seq(T) /\ Len(Append(q, c)) = Len(q) + 1
         /\ Append(q, c)[Len(q) + 1] = c
         /\ \A k \in 1 .. Len(q) : Append(q, c)[k] = q[k]
         /\ q \o <<c>> = Append(q, c)
<1>1. /\ Append(q, c) \in Seq(T) /\ Len(Append(q, c)) = Len(q) + 1
      /\ Append(q, c)[Len(q) + 1] = c
      /\ \A k \in 1 .. Len(q) : Append(q, c)[k] = q[k]
  OBVIOUS
<1>2. q \o <<c>> = Append(q, c)
  OBVIOUS
<1>. QED BY <1>1, <1>2

EndsAlike(t, q, c) == Append(t \o q, c) = t \o Append(q, c)

LEMMA AppendedToBoth ==
  ASSUME NEW T, NEW t \in Seq(T), NEW q \in Seq(T), NEW c \in T
  PROVE  EndsAlike(t, q, c)
  BY DEF EndsAlike

LEMMA NothingFallsApart ==
  ASSUME NEW D
  PROVE  FallsApart(<<>>, D)
<1>1. Len(<<>>) = 0
  OBVIOUS
<1>2. Pieces({1}, <<>>, D)
  BY <1>1 DEF Pieces
<1>. QED BY <1>2 DEF FallsApart

\* When a longest value is replaced, the text falls into pieces without it.
LEMMA ReplacedFallsApart ==
  ASSUME NEW T, NEW text \in Seq(T), NEW D, AreValues(D, T), OverlapFree(D), FallsApart(text, D),
         NEW v \in D, \A w \in D : Len(w) <= Len(v),
         NEW reference \in T, reference \notin ValueCharacters
  PROVE  /\ replace(text, v, reference) \in Seq(T)
         /\ FallsApart(replace(text, v, reference), D \ {v})
<1>1. PICK B : Pieces(B, text, D)
  BY DEF FallsApart
<1>2. v \in Seq(T) /\ Len(v) > 0
  BY DEF AreValues
<1>3. PICK u \in [0 .. Len(text) -> Reading(T)] :
         Reads(u, text, v, reference) /\ replace(text, v, reference) = u[Len(text)].out
  BY <1>2, ReplacedStepwise
<1>. PICK n \in Nat, m \in Nat : n = Len(text) /\ m = Len(v) /\ m > 0
  BY <1>2
<1>. PICK E : E = D \ {v}
  OBVIOUS
<1>4. AreValues(E, T)
  BY DEF AreValues
<1>5. /\ B \subseteq 1 .. n + 1 /\ 1 \in B /\ n + 1 \in B
      /\ \A i \in B : i <= n =>
            \E j \in B : i < j /\ PieceFrom(text, D, i, j) /\ \A k \in B : k <= i \/ j <= k
  BY <1>1 DEF Pieces
<1>. DEFINE At(r, p, b, t, q) ==
       /\ b \in B /\ b <= p /\ p <= n + 1 /\ (\A k \in B : k <= b \/ p < k)
       /\ r.skip > 0 => b = p
       /\ b < p => ~IsAt(text, v, b)
       /\ t \in Seq(T) /\ FallsApart(t, E)
       /\ q \in Seq(T) /\ Len(q) = p - b /\ (\A k \in 1 .. p - b : q[k] = text[b + k - 1])
       /\ r.out = t \o q
<1>6. ASSUME NEW i \in 1 .. n, NEW r \in Reading(T), NEW s \in Reading(T),
             s = ReadOn(r, text, v, reference, i),
             NEW b, NEW t, NEW q, At(r, i + r.skip, b, t, q)
      PROVE  \E b2, t2, q2 : At(s, i + 1 + s.skip, b2, t2, q2)
  <2>1. PICK x \in Seq(T), z \in Nat : x = r.out /\ z = r.skip /\ r = [out |-> x, skip |-> z]
    BY <1>6 DEF Reading
  <2>2. /\ b \in 1 .. n + 1 /\ b <= i + z /\ i + z <= n + 1 /\ (\A k \in B : k <= b \/ i + z < k)
        /\ z > 0 => b = i + z
        /\ b < i + z => ~IsAt(text, v, b)
        /\ t \in Seq(T) /\ FallsApart(t, E)
        /\ q \in Seq(T) /\ Len(q) = i + z - b /\ (\A k \in 1 .. i + z - b : q[k] = text[b + k - 1])
        /\ x = t \o q /\ b \in B
    BY <1>5, <1>6, <2>1
  <2>3. t \in Seq(T) /\ q \in Seq(T) /\ x = t \o q
    BY <2>2
  <2>4. CASE z > 0
    <3>1. s = [out |-> x, skip |-> z - 1]
      BY <1>6, <2>1, <2>4 DEF ReadOn
    <3>2. i + 1 + s.skip = i + z /\ s.out = r.out
      BY <2>1, <3>1
    <3>3. At(s, i + z, b, t, q)
      BY <2>2, <2>4, <3>1
    <3>. HIDE DEF At
    <3>. QED BY <3>2, <3>3
  <2>5. CASE z = 0 /\ IsAt(text, v, i)
    <3>1. s = [out |-> Append(x, reference), skip |-> m - 1]
      BY <1>6, <2>1, <2>5 DEF ReadOn
    <3>2. HoldsAt(text, i, v)
      BY <1>2, <2>5, IsAtIsHeld
    <3>3. i \in B /\ i + m \in B
      BY <1>1, <3>2, FoundAtPieces
    <3>4. b = i
      BY <2>2, <2>5, <3>3
    <3>5. x = t
      BY <2>2, <2>5, <3>4, OneBehindOther
    <3>6. <<reference>> \in Seq(T) /\ Len(<<reference>>) = 1 /\ <<reference>>[1] = reference
      OBVIOUS
    <3>7. PICK y \in Seq(T) : y = t \o <<reference>> /\ y = Append(t, reference)
      <4>1. Append(t, reference) \in Seq(T) /\ t \o <<reference>> = Append(t, reference)
        BY <2>3, AppendedBehind
      <4>. QED BY <4>1
    <3>8. FallsApart(y, E)
      BY <1>4, <2>2, <3>6, <3>7, PieceBehind
    <3>9. PICK p \in 1 .. n + 1 : p = i + m /\ p = i + 1 + s.skip /\ p \in B
      BY <1>5, <3>1, <3>3
    <3>10. At(s, p, p, y, <<>>)
      <4>1. s.out = y /\ y \o <<>> = y /\ <<>> \in Seq(T) /\ Len(<<>>) = 0 /\ p - p = 0
        BY <3>1, <3>5, <3>7
      <4>2. \A k \in B : k <= p \/ p < k
        BY <1>5
      <4>. QED BY <3>7, <3>8, <3>9, <4>1, <4>2
    <3>. HIDE DEF At
    <3>. QED BY <3>9, <3>10
  <2>6. CASE z = 0 /\ ~IsAt(text, v, i)
    <3>1. s = [out |-> Append(x, text[i]), skip |-> 0]
      <4>1. ~(z > 0) /\ ~(r.skip > 0)
        BY <2>1, <2>6
      <4>2. s = [r EXCEPT !.out = Append(@, text[i])]
        BY <1>6, <2>6, <4>1 DEF ReadOn
      <4>. QED BY <2>1, <2>6, <4>2
    <3>2. b <= i /\ b \in 1 .. n /\ ~IsAt(text, v, b)
      BY <2>2, <2>6
    <3>3. text[i] \in T
      OBVIOUS
    <3>4. PICK y \in Seq(T) : y = Append(q, text[i])
      BY <2>2, <3>3, AppendedBehind
    <3>5. Append(x, text[i]) = t \o y
      <4>1. Append(t \o q, text[i]) = t \o Append(q, text[i])
        <5>1. PICK c \in T : c = text[i]
          BY <3>3
        <5>2. PICK a \in Seq(T), d \in Seq(T) : a = t /\ d = q
          BY <2>3
        <5>3. EndsAlike(a, d, c)
          BY AppendedToBoth
        <5>. QED BY <5>1, <5>2, <5>3 DEF EndsAlike
      <4>. QED BY <2>3, <3>4, <4>1
    <3>6. Len(y) = i + 1 - b /\ \A k \in 1 .. i + 1 - b : y[k] = text[b + k - 1]
      <4>1. PICK l \in Nat : l = i - b /\ Len(q) = l
        BY <2>2, <2>6, <3>2
      <4>2. Len(y) = l + 1 /\ y[l + 1] = text[i] /\ \A k \in 1 .. l : y[k] = q[k]
        <5>1. Len(y) = Len(q) + 1 /\ y[Len(q) + 1] = text[i]
              /\ \A k \in 1 .. Len(q) : y[k] = q[k]
          BY <2>3, <3>3, <3>4, AppendedBehind
        <5>. QED BY <4>1, <5>1
      <4>3. \A k \in 1 .. l + 1 : k \in 1 .. l \/ (k = l + 1 /\ b + k - 1 = i)
        BY <3>2, <4>1
      <4>4. \A k \in 1 .. l : y[k] = text[b + k - 1]
        BY <2>2, <2>6, <4>1, <4>2
      <4>5. l + 1 = i + 1 - b
        BY <3>2, <4>1
      <4>. QED BY <4>2, <4>3, <4>4, <4>5
    <3>7. PICK p \in 1 .. n + 1 : p = i + 1 /\ p = i + 1 + s.skip
      BY <3>1
    <3>8. CASE p \notin B
      <4>1. \A k \in B : k <= b \/ p < k
        <5>. SUFFICES ASSUME NEW k \in B, ~(k <= b) PROVE p < k
          OBVIOUS
        <5>1. k \in 1 .. n + 1 /\ k # p
          BY <1>5, <3>8
        <5>2. i < k
          BY <2>2, <2>6
        <5>. QED BY <3>7, <5>1, <5>2
      <4>2. s.skip = 0 /\ s.out = t \o y
        BY <3>1, <3>5
      <4>3. b <= p /\ Len(y) = p - b /\ \A k \in 1 .. p - b : y[k] = text[b + k - 1]
        BY <3>2, <3>6, <3>7
      <4>4. b \in B /\ t \in Seq(T) /\ FallsApart(t, E) /\ ~(s.skip > 0) /\ ~IsAt(text, v, b)
        BY <2>2, <3>2, <4>2
      <4>5. At(s, p, b, t, y)
        BY <3>4, <4>1, <4>2, <4>3, <4>4
      <4>. HIDE DEF At
      <4>. QED BY <3>7, <4>5
    <3>9. CASE p \in B
      <4>1. PICK j \in B : b < j /\ PieceFrom(text, D, b, j) /\ \A k \in B : k <= b \/ j <= k
        <5>1. b \in B /\ b <= n
          BY <2>2, <3>2
        <5>. QED BY <1>5, <5>1
      <4>2. j = p
        <5>1. j \in 1 .. n + 1
          BY <1>5
        <5>2. j <= p
          BY <3>2, <3>7, <3>9, <4>1
        <5>3. i < j
          BY <2>2, <2>6, <3>2, <4>1, <5>1
        <5>. QED BY <3>7, <5>1, <5>2, <5>3
      <4>3. y \in E \/ (Len(y) = 1 /\ y[1] \notin ValueCharacters)
        <5>1. CASE p = b + 1 /\ Safe(text, b)
          <6>1. Len(y) = 1 /\ y[1] = text[b]
            <7>1. i + 1 - b = 1 /\ 1 \in 1 .. 1 /\ b + 1 - 1 = b
              BY <3>2, <3>7, <5>1
            <7>. QED BY <3>6, <7>1
          <6>. QED BY <5>1, <6>1 DEF Safe
        <5>2. ASSUME NEW w \in D, p = b + Len(w), HoldsAt(text, b, w) PROVE y \in E
          <6>1. w \in Seq(T) /\ Len(w) > 0 /\ Len(w) \in Nat
            BY DEF AreValues
          <6>2. Len(w) = i + 1 - b
            BY <3>2, <3>7, <5>2, <6>1
          <6>3. \A k \in 1 .. Len(y) : y[k] = w[k]
            BY <3>6, <5>2, <6>2 DEF HoldsAt
          <6>4. y = w
            BY <3>6, <6>1, <6>2, <6>3, SameSequence
          <6>5. IsAt(text, w, b)
            BY <3>2, <5>2, <6>1, IsAtIsHeld
          <6>. QED BY <3>2, <6>4, <6>5
        <5>. QED BY <4>1, <4>2, <5>1, <5>2 DEF PieceFrom
      <4>4. PICK c \in Seq(T) : c = t \o y
        BY <2>2, OneBehindOther
      <4>5. FallsApart(c, E)
        BY <1>4, <2>2, <4>3, <4>4, PieceBehind
      <4>6. At(s, p, p, c, <<>>)
        <5>1. s.out = c /\ c \o <<>> = c /\ <<>> \in Seq(T) /\ Len(<<>>) = 0 /\ p - p = 0
          BY <3>1, <3>5, <4>4
        <5>2. \A k \in B : k <= p \/ p < k
          BY <1>5
        <5>. QED BY <3>9, <4>4, <4>5, <5>1, <5>2
      <4>. HIDE DEF At
      <4>. QED BY <3>7, <4>6
    <3>. QED BY <3>8, <3>9
  <2>. HIDE DEF At
  <2>. QED BY <2>4, <2>5, <2>6
<1>7. At([out |-> <<>>, skip |-> 0], 1, 1, <<>>, <<>>)
  <2>1. <<>> \in Seq(T) /\ Len(<<>>) = 0 /\ <<>> \o <<>> = <<>> /\ 1 - 1 = 0
    OBVIOUS
  <2>2. \A k \in B : k <= 1 \/ 1 < k
    BY <1>5
  <2>3. 1 <= n + 1 /\ ~(1 < 1)
    OBVIOUS
  <2>. QED BY <1>5, <2>1, <2>2, <2>3, NothingFallsApart
<1>8. /\ u[0] = [out |-> <<>>, skip |-> 0]
      /\ \A i \in 1 .. n : u[i] = ReadOn(u[i - 1], text, v, reference, i)
  BY <1>3 DEF Reads
<1>9. \A i \in 0 .. n : u[i] \in Reading(T)
  BY <1>3
<1>. DEFINE Goes(i) == \E b, t, q : At(u[i], i + 1 + u[i].skip, b, t, q)
            Z == {i \in Nat : i <= n => Goes(i)}
<1>10. \A i \in 0 .. n : Goes(i)
  <2>1. 0 \in Z
    <3>1. 0 + 1 + u[0].skip = 1
      BY <1>8
    <3>. HIDE DEF At
    <3>. QED BY <1>7, <1>8, <3>1
  <2>2. ASSUME NEW i \in Nat, i \in Z, i + 1 <= n PROVE Goes(i + 1)
    <3>. PICK j \in 1 .. n : j = i + 1 /\ j - 1 = i
      BY <2>2
    <3>1. i \in 0 .. n /\ j \in 0 .. n /\ i <= n
      OBVIOUS
    <3>2. PICK r \in Reading(T), s \in Reading(T) : r = u[i] /\ s = u[j]
      BY <1>9, <3>1
    <3>3. s = ReadOn(r, text, v, reference, j)
      BY <1>8, <3>2
    <3>. HIDE DEF At
    <3>4. PICK b, t, q : At(r, j + r.skip, b, t, q)
      BY <2>2, <3>1, <3>2
    <3>5. \E b2, t2, q2 : At(s, j + 1 + s.skip, b2, t2, q2)
      BY <1>6, <3>3, <3>4
    <3>. QED BY <3>2, <3>5
  <2>. HIDE DEF Goes
  <2>3. \A i \in Nat : i \in Z => i + 1 \in Z
    BY <2>2
  <2>. HIDE DEF Z
  <2>4. Nat \subseteq Z
    BY <2>1, <2>3, Inductive
  <2>. QED BY <2>4 DEF Z
<1>11. PICK r \in Reading(T) : r = u[n]
  BY <1>9
<1>12. PICK x \in Seq(T), z \in Nat : x = r.out /\ z = r.skip
  BY DEF Reading
<1>13. PICK b, t, q : At(r, n + 1 + z, b, t, q)
  <2>. HIDE DEF At
  <2>1. Goes(n)
    <3>. HIDE DEF Goes
    <3>. QED BY <1>10
  <2>. QED BY <1>11, <1>12, <2>1
<1>14. z = 0 /\ b = n + 1
  BY <1>5, <1>13
<1>15. q = <<>> /\ t \in Seq(T) /\ q \in Seq(T) /\ x = t \o q /\ FallsApart(t, E)
  BY <1>12, <1>13, <1>14
<1>16. x = t
  BY <1>15, OneBehindOther
<1>. QED BY <1>3, <1>11, <1>12, <1>15, <1>16

\* The order in which the values are replaced: the longest first.
LEMMA LongestFirst ==
  ASSUME NEW T, NEW D, AreValues(D, T), IsFiniteSet(D)
  PROVE  /\ Cardinality(D) \in Nat /\ by_length(D) \in [1 .. Cardinality(D) -> D]
         /\ ToSet(by_length(D)) = D
         /\ \A i, j \in 1 .. Cardinality(D) : i < j => Len(by_length(D)[i]) >= Len(by_length(D)[j])
<1>1. PICK n \in Nat : n = Cardinality(D)
  BY FS_CardinalityType
<1>2. PICK f : f \in Bijection(1 .. n, D)
  <2>1. ExistsBijection(1 .. n, D)
    BY <1>1, FS_CardinalityType
  <2>. QED BY <2>1 DEF ExistsBijection
<1>3. /\ f \in [1 .. n -> D] /\ \A i, j \in 1 .. n : f[i] = f[j] => i = j
      /\ \A v \in D : \E i \in 1 .. n : f[i] = v
  BY <1>2 DEF Bijection, Injection, Surjection, IsInjective
<1>4. PICK g \in [D -> 1 .. n] : \A v \in D : f[g[v]] = v
  <2>. DEFINE g == [v \in D |-> CHOOSE i \in 1 .. n : f[i] = v]
  <2>1. g \in [D -> 1 .. n] /\ \A v \in D : f[g[v]] = v
    BY <1>3
  <2>. QED BY <2>1
<1>. DEFINE R == {p \in D \X D : \/ Len(p[1]) > Len(p[2])
                                 \/ Len(p[1]) = Len(p[2]) /\ g[p[1]] < g[p[2]]}
<1>5. \A v, w \in D : <<v, w>> \in R
                       <=> Len(v) > Len(w) \/ (Len(v) = Len(w) /\ g[v] < g[w])
  OBVIOUS
<1>6. \A v \in D : Len(v) \in Int /\ g[v] \in Int
  BY DEF AreValues
<1>. HIDE DEF R
<1>7. Orders(R, D)
  <2>1. \A v \in D : <<v, v>> \notin R
    BY <1>5, <1>6
  <2>2. ASSUME NEW v \in D, NEW w \in D, NEW x \in D, <<v, w>> \in R, <<w, x>> \in R
        PROVE  <<v, x>> \in R
    <3>1. PICK a \in Int, b \in Int, c \in Int : a = Len(v) /\ b = Len(w) /\ c = Len(x)
      BY <1>6
    <3>2. PICK h \in Int, i \in Int, j \in Int : h = g[v] /\ i = g[w] /\ j = g[x]
      BY <1>6
    <3>3. (a > b \/ (a = b /\ h < i)) /\ (b > c \/ (b = c /\ i < j))
      BY <1>5, <2>2, <3>1, <3>2
    <3>4. a > c \/ (a = c /\ h < j)
      BY <3>3
    <3>. QED BY <1>5, <3>1, <3>2, <3>4
  <2>3. ASSUME NEW v \in D, NEW w \in D PROVE v = w \/ <<v, w>> \in R \/ <<w, v>> \in R
    <3>1. PICK a \in Int, b \in Int, h \in Int, i \in Int :
                  a = Len(v) /\ b = Len(w) /\ h = g[v] /\ i = g[w]
      BY <1>6
    <3>2. h = i => v = w
      BY <1>4, <3>1
    <3>3. h = i \/ (a > b \/ (a = b /\ h < i)) \/ (b > a \/ (b = a /\ i < h))
      OBVIOUS
    <3>. QED BY <1>5, <3>1, <3>2, <3>3
  <2>. QED BY <2>1, <2>2, <2>3 DEF Orders
<1>8. PICK at : Sorts(at, D, R)
  BY <1>7, ArrangedInOrder
<1>9. /\ at \in [1 .. n -> D] /\ \A v \in D : \E k \in 1 .. n : at[k] = v
      /\ \A k, l \in 1 .. n : k < l => <<at[k], at[l]>> \in R
  BY <1>1, <1>8 DEF Sorts, Arranges
<1>10. ToSet(at) = D
  <2>1. DOMAIN at = 1 .. n
    BY <1>9
  <2>2. \A x \in ToSet(at) : x \in D
    BY <1>9, <2>1 DEF ToSet
  <2>3. \A x \in D : x \in ToSet(at)
    BY <1>9, <2>1 DEF ToSet
  <2>. QED BY <2>2, <2>3
<1>11. at \in orders(D)
  BY <1>1, <1>9, <1>10 DEF orders
<1>12. \A i, j \in DOMAIN at : i < j => Len(at[i]) >= Len(at[j])
  <2>1. \A v, w \in D : <<v, w>> \in R => Len(v) >= Len(w)
    BY <1>5, <1>6
  <2>2. DOMAIN at = 1 .. n
    BY <1>9
  <2>. QED BY <1>9, <2>1, <2>2
<1>13. PICK o : o = by_length(D)
  OBVIOUS
<1>14. o \in orders(D) /\ \A i, j \in DOMAIN o : i < j => Len(o[i]) >= Len(o[j])
  BY <1>11, <1>12, <1>13 DEF by_length
<1>15. o \in [1 .. n -> D] /\ ToSet(o) = D /\ DOMAIN o = 1 .. n
  BY <1>1, <1>14 DEF orders
<1>. QED BY <1>1, <1>13, <1>14, <1>15

\* A text that falls into pieces without values holds no character of one.
LEMMA WithoutValues ==
  ASSUME NEW T, NEW s \in Seq(T), FallsApart(s, {})
  PROVE  ToSet(s) \cap ValueCharacters = {}
<1>1. PICK B : Pieces(B, s, {})
  BY DEF FallsApart
<1>2. B \subseteq 1 .. Len(s) + 1
  BY <1>1 DEF Pieces
<1>3. \A i \in 1 .. Len(s) : s[i] \notin ValueCharacters
  <2>. SUFFICES ASSUME NEW i \in 1 .. Len(s) PROVE s[i] \notin ValueCharacters
    OBVIOUS
  <2>1. PICK b \in B, e \in B : b <= i /\ i < e /\ PieceFrom(s, {}, b, e)
    BY <1>1, PieceAround
  <2>2. e = b + 1 /\ Safe(s, b)
    BY <2>1 DEF PieceFrom
  <2>3. b = i
    BY <1>2, <2>1, <2>2
  <2>. QED BY <2>2, <2>3 DEF Safe
<1>. QED BY <1>3 DEF ToSet

\* What is rebuilt value by value.
Rebuilds(w, text, map, order) ==
  /\ w[0] = text
  /\ \A k \in 1 .. Len(order) : w[k] = replace(w[k - 1], order[k], map[order[k]])

LEMMA RebuiltStepwise ==
  ASSUME NEW T, NEW text \in Seq(T), NEW map, NEW order \in Seq(DOMAIN map),
         order = by_length(DOMAIN map), AreValues(DOMAIN map, T),
         \A v \in DOMAIN map : map[v] \in T
  PROVE  \E w \in [0 .. Len(order) -> Seq(T)] :
            Rebuilds(w, text, map, order) /\ rebuild(text, map) = w[Len(order)]
<1>. DEFINE n == Len(order)
            U == Seq(T)
            On(t, k) == replace(t, order[k], map[order[k]])
            Steps(u) == u = [k \in 0 .. Len(order) |-> IF k = 0 THEN text ELSE On(u[k - 1], k)]
            D == [p \in Nat \X U |-> IF p[1] \in 1 .. n THEN On(p[2], p[1]) ELSE text]
            h == CHOOSE u : Steps(u)
<1>1. n \in Nat /\ text \in U /\ \A k \in 1 .. n : order[k] \in DOMAIN map
  OBVIOUS
<1>2. \A k \in 1 .. n, t \in U : On(t, k) \in U
  <2>. SUFFICES ASSUME NEW k \in 1 .. n, NEW t \in Seq(T) PROVE On(t, k) \in Seq(T)
    OBVIOUS
  <2>1. PICK v \in Seq(T), r \in T : v = order[k] /\ r = map[order[k]] /\ Len(v) > 0
    BY <1>1 DEF AreValues
  <2>2. replace(t, v, r) \in Seq(T)
    BY <2>1, ReplacedIsText
  <2>. QED BY <2>1, <2>2
<1>3. rebuild(text, map) = h[n]
  BY DEF rebuild
<1>. HIDE DEF Steps, h, On, n, U
<1>4. D \in [Nat \X U -> U]
  <2>1. \A p \in Nat \X U : (IF p[1] \in 1 .. n THEN On(p[2], p[1]) ELSE text) \in U
    BY <1>1, <1>2
  <2>. QED BY <2>1
<1>5. \A k \in 1 .. n, t \in U : D[<<k, t>>] = On(t, k)
  <2>1. \A k \in 1 .. n : k \in Nat
    BY <1>1
  <2>. QED BY <2>1
<1>. HIDE DEF D
<1>6. PICK g \in [0 .. n -> U] : Climbs(g, n, D, text)
  BY <1>1, <1>4, StepsExist
<1>7. \A k \in 1 .. n : g[k] = On(g[k - 1], k)
  <2>. SUFFICES ASSUME NEW k \in 1 .. n PROVE g[k] = On(g[k - 1], k)
    OBVIOUS
  <2>1. k - 1 \in 0 .. n
    BY <1>1
  <2>. QED BY <1>5, <1>6, <2>1 DEF Climbs
<1>8. /\ \A k \in 0 .. n : k = 0 \/ k \in 1 .. n
      /\ 0 \notin 1 .. n /\ 0 \in 0 .. n /\ n \in 0 .. n
      /\ \A k \in 1 .. n : k \in 0 .. n /\ k - 1 \in 0 .. n
  BY <1>1
<1>9. \A u : Steps(u) <=> u = [k \in 0 .. n |-> IF k = 0 THEN text ELSE On(u[k - 1], k)]
  BY DEF Steps, n
<1>10. Steps(g)
  <2>1. g[0] = text
    BY <1>6 DEF Climbs
  <2>2. \A k \in 0 .. n : g[k] = IF k = 0 THEN text ELSE On(g[k - 1], k)
    BY <1>7, <1>8, <2>1
  <2>. QED BY <1>6, <1>9, <2>2
<1>11. Steps(h)
  BY <1>10 DEF h
<1>12. PICK w : w = h
  OBVIOUS
<1>13. w = [k \in 0 .. n |-> IF k = 0 THEN text ELSE On(w[k - 1], k)]
  BY <1>9, <1>11, <1>12
<1>14. w[0] = text /\ \A k \in 1 .. n : w[k] = On(w[k - 1], k)
  BY <1>8, <1>13
<1>15. w[0] = text /\ \A k \in 1 .. n : w[k - 1] \in U => w[k] = D[<<k, w[k - 1]>>]
  BY <1>5, <1>14
<1>16. \A k \in 0 .. n : w[k] \in U
  BY <1>1, <1>4, <1>15, StepsStay
<1>17. w \in [0 .. n -> U]
  BY <1>13, <1>16
<1>18. Rebuilds(w, text, map, order)
  BY <1>14 DEF Rebuilds, On, n
<1>. QED BY <1>3, <1>12, <1>17, <1>18 DEF n, U

\* No character of a value is left when all are replaced, the longest first.
LEMMA RebuiltHoldsNone ==
  ASSUME NEW T, NEW text \in Seq(T), NEW map, IsFiniteSet(DOMAIN map), AreValues(DOMAIN map, T),
         \A v \in DOMAIN map : map[v] \in T /\ map[v] \notin ValueCharacters,
         OverlapFree(DOMAIN map), FallsApart(text, DOMAIN map)
  PROVE  ToSet(rebuild(text, map)) \cap ValueCharacters = {}
<1>. PICK V : V = DOMAIN map
  OBVIOUS
<1>. PICK order : order = by_length(V)
  OBVIOUS
<1>1. PICK n \in Nat : n = Cardinality(V)
  BY FS_CardinalityType
<1>2. /\ order \in [1 .. n -> V] /\ ToSet(order) = V
      /\ \A i, j \in 1 .. n : i < j => Len(order[i]) >= Len(order[j])
  BY <1>1, LongestFirst
<1>3. order \in Seq(V) /\ Len(order) = n
  BY <1>2
<1>4. PICK w \in [0 .. n -> Seq(T)] :
         Rebuilds(w, text, map, order) /\ rebuild(text, map) = w[n]
  BY <1>3, RebuiltStepwise
<1>5. w[0] = text /\ \A k \in 1 .. n : w[k] = replace(w[k - 1], order[k], map[order[k]])
  BY <1>3, <1>4 DEF Rebuilds
<1>. DEFINE Rest(k) == {order[j] : j \in k + 1 .. n}
            Z == {k \in Nat : k <= n => FallsApart(w[k], Rest(k))}
<1>6. 0 \in Z
  <2>1. V \subseteq Rest(0)
    <3>1. \A v \in V : \E j \in 1 .. n : order[j] = v
      BY <1>2, <1>3 DEF ToSet
    <3>2. 0 + 1 = 1
      OBVIOUS
    <3>. QED BY <3>1, <3>2
  <2>. HIDE DEF Rest
  <2>2. FallsApart(w[0], Rest(0))
    BY <1>5, <2>1, MoreValues
  <2>. QED BY <2>2
<1>7. ASSUME NEW k \in Nat, k + 1 <= n, FallsApart(w[k], Rest(k))
      PROVE  FallsApart(w[k + 1], Rest(k + 1))
  <2>1. PICK l \in 1 .. n : l = k + 1 /\ l - 1 = k /\ k \in 0 .. n
    <3>1. k + 1 <= n
      BY <1>7
    <3>2. k + 1 \in 1 .. n /\ (k + 1) - 1 = k /\ k \in 0 .. n
      BY <1>1, <3>1
    <3>. HIDE DEF Rest, Z
    <3>. QED BY <3>2
  <2>2. PICK v \in V : v = order[l]
    BY <1>2
  <2>3. Rest(k) \subseteq V /\ v \in Rest(k)
    <3>1. \A j \in k + 1 .. n : j \in 1 .. n
      OBVIOUS
    <3>2. l \in k + 1 .. n
      BY <2>1
    <3>. QED BY <1>2, <2>2, <3>1, <3>2
  <2>4. \A x \in Rest(k) : Len(x) <= Len(v)
    <3>. SUFFICES ASSUME NEW j \in k + 1 .. n PROVE Len(order[j]) <= Len(v)
      OBVIOUS
    <3>1. j \in 1 .. n /\ (j = l \/ l < j)
      BY <2>1
    <3>2. Len(v) \in Nat
      BY DEF AreValues
    <3>3. CASE j = l
      BY <2>2, <3>2, <3>3
    <3>4. CASE l < j
      <4>1. Len(order[l]) >= Len(order[j])
        BY <1>2, <3>1, <3>4
      <4>2. order[j] \in V
        BY <1>2, <3>1
      <4>3. Len(order[j]) \in Nat
        BY <4>2 DEF AreValues
      <4>. QED BY <2>2, <3>2, <4>1, <4>3
    <3>. QED BY <3>1, <3>3, <3>4
  <2>5. Rest(k) \ {v} \subseteq Rest(k + 1)
    <3>. SUFFICES ASSUME NEW j \in k + 1 .. n, order[j] # v PROVE \E i \in k + 1 + 1 .. n : order[i] = order[j]
      OBVIOUS
    <3>1. j \in k + 1 + 1 .. n
      BY <2>1, <2>2
    <3>. QED BY <3>1
  <2>6. PICK E : E = Rest(k)
    OBVIOUS
  <2>7. PICK F : F = Rest(k + 1)
    OBVIOUS
  <2>. HIDE DEF Rest
  <2>8. AreValues(E, T) /\ OverlapFree(E)
    BY <2>3, <2>6 DEF AreValues, OverlapFree
  <2>9. PICK t \in Seq(T) : t = w[k]
    BY <2>1
  <2>10. PICK r \in T : r = map[v] /\ r \notin ValueCharacters
    OBVIOUS
  <2>11. FallsApart(replace(t, v, r), E \ {v})
    BY <1>7, <2>3, <2>4, <2>6, <2>8, <2>9, <2>10, ReplacedFallsApart
  <2>12. w[k + 1] = replace(t, v, r)
    BY <1>5, <2>1, <2>2, <2>9, <2>10
  <2>. QED BY <2>5, <2>6, <2>7, <2>11, <2>12, MoreValues
<1>8. FallsApart(w[n], Rest(n))
  <2>. HIDE DEF Rest
  <2>1. ASSUME NEW k \in Nat, k \in Z, k + 1 <= n PROVE FallsApart(w[k + 1], Rest(k + 1))
    <3>1. k <= n
      BY <1>1, <2>1
    <3>2. FallsApart(w[k], Rest(k))
      BY <2>1, <3>1
    <3>. QED BY <1>7, <2>1, <3>2
  <2>2. \A k \in Nat : (k <= n => FallsApart(w[k], Rest(k))) => k \in Z
    OBVIOUS
  <2>3. \A k \in Nat : k \in Z => k + 1 \in Z
    <3>. SUFFICES ASSUME NEW k \in Nat, k \in Z PROVE k + 1 \in Z
      OBVIOUS
    <3>. PICK l \in Nat : l = k + 1
      OBVIOUS
    <3>1. l <= n => FallsApart(w[l], Rest(l))
      BY <2>1
    <3>. HIDE DEF Z
    <3>. QED BY <2>2, <3>1
  <2>. HIDE DEF Z
  <2>4. Nat \subseteq Z
    BY <1>6, <2>3, Inductive
  <2>. QED BY <2>4 DEF Z
<1>9. Rest(n) = {}
  OBVIOUS
<1>. HIDE DEF Rest
<1>10. w[n] \in Seq(T)
  BY <1>1
<1>. QED BY <1>4, <1>8, <1>9, <1>10, WithoutValues

\* What substitute has of a text: the values it put in are known by their references, and
\* with the text of the payload they are all there is.
TextOf(p) == ToSet(p) \cup ValueCharacters \cup SecretNames

SubstRecord(d, v, p, c, o, m, a) ==
  [pc |-> d, vault |-> v, payload |-> p, cursor |-> c, out |-> o, map |-> m, audited |-> a]

SubstShape(s) ==
  /\ s = SubstRecord(s.pc, s.vault, s.payload, s.cursor, s.out, s.map, s.audited)
  /\ s.vault \in Vaults /\ s.payload \in Payloads /\ s.cursor \in 1 .. Len(s.payload) + 1

SubstIsAudited(s) ==
  /\ \A i \in 1 .. s.cursor - 1 : IsReference(s.payload[i]) => s.payload[i] \in s.audited
  /\ s.pc = "done" => s.cursor = Len(s.payload) + 1

SubstIsMapped(s) ==
  /\ IsFiniteSet(DOMAIN s.map) /\ AreValues(DOMAIN s.map, TextOf(s.payload))
  /\ \A v \in DOMAIN s.map : s.map[v] \in SecretNames
  /\ s.out \in Seq(TextOf(s.payload))
  /\ ToSet(s.payload) \cap ValueCharacters = {} => FallsApart(s.out, DOMAIN s.map)

SubstInv(s) == SubstShape(s) /\ SubstIsAudited(s) /\ SubstIsMapped(s)

LEMMA SubstBegins == SubstInit => SubstInv(subst)
<1>. SUFFICES ASSUME NEW p \in Payloads, NEW v \in Vaults,
                     subst = [pc |-> "scan", vault |-> v, payload |-> p, cursor |-> 1,
                              out |-> <<>>, map |-> <<>>, audited |-> {}]
              PROVE  SubstInv(subst)
  BY DEF SubstInit, SubstIdle
<1>1. p \in Seq(ToSet(p)) /\ Len(p) \in Nat
  BY SecretsAssumption
<1>2. SubstShape(subst) /\ SubstIsAudited(subst)
  BY <1>1 DEF SubstShape, SubstIsAudited, SubstRecord
<1>3. DOMAIN <<>> = {} /\ IsFiniteSet({}) /\ <<>> \in Seq(TextOf(p))
  BY FS_EmptySet
<1>4. SubstIsMapped(subst)
  BY <1>3, NothingFallsApart DEF SubstIsMapped, AreValues
<1>. QED BY <1>2, <1>4 DEF SubstInv

LEMMA VaultsHoldValues ==
  ASSUME NEW v \in Vaults, NEW n \in DOMAIN v
  PROVE  v[n] \in Seq(ValueCharacters) /\ Len(v[n]) > 0
<1>1. v[n] \in Seq(ToSet(v[n])) /\ v[n] # <<>>
  BY SecretsAssumption
<1>2. ToSet(v[n]) \subseteq ValueCharacters
  BY DEF ValueCharacters
<1>3. PICK S : S = ToSet(v[n])
  OBVIOUS
<1>4. PICK x \in Seq(S) : x = v[n]
  BY <1>1, <1>3
<1>5. x \in Seq(ValueCharacters) /\ Len(x) > 0
  BY <1>1, <1>2, <1>3, <1>4
<1>. QED BY <1>4, <1>5

\* The record with other fields.
Moved(s, z, j) == [s EXCEPT !.out = z, !.cursor = j]
Learned(s, e, k, z, j) == [s EXCEPT !.audited = e, !.map = k, !.out = z, !.cursor = j]

LEMMA FieldsOfRecord ==
  ASSUME NEW d, NEW v, NEW p, NEW c, NEW o, NEW m, NEW a
  PROVE  /\ SubstRecord(d, v, p, c, o, m, a).pc = d
         /\ SubstRecord(d, v, p, c, o, m, a).payload = p
         /\ SubstRecord(d, v, p, c, o, m, a).cursor = c
         /\ SubstRecord(d, v, p, c, o, m, a).audited = a
<1>. QED BY DEF SubstRecord

LEMMA SubstMoves ==
  ASSUME NEW s, NEW d, NEW v, NEW p, NEW c, NEW o, NEW m, NEW a, NEW j, NEW z,
         s = SubstRecord(d, v, p, c, o, m, a)
  PROVE  Moved(s, z, j) = SubstRecord(d, v, p, j, z, m, a)
<1>1. PICK u : u = [s EXCEPT !.out = z]
  OBVIOUS
<1>2. u = SubstRecord(d, v, p, c, z, m, a)
  BY <1>1 DEF SubstRecord
<1>3. [u EXCEPT !.cursor = j] = SubstRecord(d, v, p, j, z, m, a)
  BY <1>2 DEF SubstRecord
<1>4. Moved(s, z, j) = [u EXCEPT !.cursor = j]
  BY <1>1 DEF Moved
<1>. QED BY <1>3, <1>4

LEMMA SubstLearns ==
  ASSUME NEW s, NEW d, NEW v, NEW p, NEW c, NEW o, NEW m, NEW a, NEW j, NEW z, NEW k, NEW e,
         s = SubstRecord(d, v, p, c, o, m, a)
  PROVE  Learned(s, e, k, z, j) = SubstRecord(d, v, p, j, z, k, e)
<1>1. PICK u : u = [s EXCEPT !.audited = e]
  OBVIOUS
<1>2. u = SubstRecord(d, v, p, c, o, m, e)
  BY <1>1 DEF SubstRecord
<1>3. PICK w : w = [u EXCEPT !.map = k]
  OBVIOUS
<1>4. w = SubstRecord(d, v, p, c, o, k, e)
  BY <1>2, <1>3 DEF SubstRecord
<1>5. Moved(w, z, j) = SubstRecord(d, v, p, j, z, k, e)
  BY <1>4, SubstMoves
<1>6. Learned(s, e, k, z, j) = Moved(w, z, j)
  BY <1>1, <1>3 DEF Learned, Moved
<1>. QED BY <1>5, <1>6

LEMMA ShapeOfRecord ==
  ASSUME NEW d, NEW v \in Vaults, NEW p \in Payloads, NEW j \in 1 .. Len(p) + 1, NEW o, NEW m, NEW a
  PROVE  SubstShape(SubstRecord(d, v, p, j, o, m, a))
<1>. QED BY DEF SubstShape, SubstRecord

LEMMA SubstKeepsInv ==
  ASSUME SubstInv(subst), SubstNext
  PROVE  SubstInv(subst')
<1>. PICK s, t : s = subst /\ t = subst'
  OBVIOUS
<1>1. SubstShape(s) /\ SubstIsAudited(s) /\ SubstIsMapped(s)
  BY DEF SubstInv
<1>2. PICK p \in Payloads, v \in Vaults : p = s.payload /\ v = s.vault
  BY <1>1 DEF SubstShape
<1>3. p \in Seq(ToSet(p)) /\ SecretNames \cap ValueCharacters = {}
  BY SecretsAssumption
<1>4. PICK n \in Nat : n = Len(p)
  BY <1>3
<1>5. PICK c \in 1 .. n + 1 : c = s.cursor
  BY <1>1, <1>2, <1>4 DEF SubstShape
<1>6. PICK d, o, m, a : d = s.pc /\ o = s.out /\ m = s.map /\ a = s.audited
  OBVIOUS
<1>7. s = SubstRecord(d, v, p, c, o, m, a)
  BY <1>1, <1>2, <1>5, <1>6 DEF SubstShape
<1>8. \A i \in 1 .. c - 1 : IsReference(p[i]) => p[i] \in a
  BY <1>1, <1>2, <1>5, <1>6 DEF SubstIsAudited
<1>. PICK T : T = TextOf(p)
  OBVIOUS
<1>9. /\ IsFiniteSet(DOMAIN m) /\ AreValues(DOMAIN m, T) /\ \A x \in DOMAIN m : m[x] \in SecretNames
      /\ o \in Seq(T)
      /\ ToSet(p) \cap ValueCharacters = {} => FallsApart(o, DOMAIN m)
  BY <1>1, <1>2, <1>6 DEF SubstIsMapped
<1>10. here = p[c]
  BY <1>2, <1>5 DEF here
<1>11. CASE CopyText
  <2>1. /\ d = "scan" /\ c <= n /\ ~IsReference(p[c])
        /\ t = [s EXCEPT !.out = Append(@, p[c]), !.cursor = @ + 1]
    BY <1>2, <1>4, <1>5, <1>6, <1>10, <1>11 DEF CopyText
  <2>2. p[c] \in ToSet(p)
    BY <1>3, <1>4, <2>1 DEF ToSet
  <2>3. PICK ch \in T : ch = p[c]
    BY <2>2 DEF TextOf
  <2>4. PICK y \in Seq(T) : y = <<ch>> /\ Len(y) = 1 /\ y[1] = ch
    <3>1. <<ch>> \in Seq(T) /\ Len(<<ch>>) = 1 /\ <<ch>>[1] = ch
      OBVIOUS
    <3>. QED BY <3>1
  <2>5. PICK z \in Seq(T) : z = Append(o, ch) /\ z = o \o y
    <3>1. Append(o, ch) \in Seq(T) /\ Append(o, ch) = o \o <<ch>>
      BY <1>9
    <3>. QED BY <2>4, <3>1
  <2>6. PICK j \in 1 .. Len(p) + 1 : j = c + 1
    BY <1>4, <2>1
  <2>7. t = Moved(s, z, j)
    BY <1>5, <1>6, <2>1, <2>3, <2>5, <2>6 DEF Moved
  <2>8. t = SubstRecord(d, v, p, j, z, m, a)
    BY <1>7, <2>7, SubstMoves
  <2>9. ASSUME ToSet(p) \cap ValueCharacters = {} PROVE FallsApart(z, DOMAIN m)
    <3>1. FallsApart(o, DOMAIN m) /\ ch \notin ValueCharacters
      BY <1>9, <2>2, <2>3, <2>9
    <3>2. FallsApart(o \o y, DOMAIN m)
      BY <1>9, <2>4, <3>1, PieceBehind
    <3>. QED BY <2>5, <3>2
  <2>10. \A i \in 1 .. j - 1 : i \in 1 .. c - 1 \/ i = c
    BY <2>6
  <2>11. SubstShape(t)
    <3>1. SubstShape(SubstRecord(d, v, p, j, z, m, a))
      BY ShapeOfRecord
    <3>. QED BY <2>8, <3>1
  <2>12. SubstIsAudited(t)
    <3>1. PICK q : q = t /\ q.payload = p /\ q.cursor = j /\ q.audited = a /\ q.pc = d
      BY <2>8, FieldsOfRecord
    <3>2. d # "done"
      BY <2>1
    <3>3. \A i \in 1 .. j - 1 : IsReference(p[i]) => p[i] \in a
      BY <1>8, <2>1, <2>10
    <3>. QED BY <3>1, <3>3, <3>2 DEF SubstIsAudited
  <2>13. SubstIsMapped(t)
    BY <1>9, <2>5, <2>8, <2>9 DEF SubstIsMapped, SubstRecord
  <2>. QED BY <2>11, <2>12, <2>13 DEF SubstInv
<1>12. CASE SubstituteFails
  <2>1. t = [s EXCEPT !.pc = "failed"]
    BY <1>12 DEF SubstituteFails
  <2>2. t = SubstRecord("failed", v, p, c, o, m, a)
    BY <1>7, <2>1 DEF SubstRecord
  <2>3. SubstShape(t) /\ SubstIsAudited(t)
    BY <1>4, <1>8, <2>2 DEF SubstShape, SubstIsAudited, SubstRecord
  <2>4. SubstIsMapped(t)
    BY <1>9, <2>2 DEF SubstIsMapped, SubstRecord
  <2>. QED BY <2>3, <2>4 DEF SubstInv
<1>13. CASE ResolveReference
  <2>1. PICK x, r : x = v[p[c]] /\ r = p[c]
    OBVIOUS
  <2>2. /\ d = "scan" /\ c <= n /\ r \in SecretNames /\ r \in DOMAIN v
        /\ t = [s EXCEPT !.audited = @ \cup {r},
                         !.map = [y \in DOMAIN @ \cup {x} |-> IF y = x THEN r ELSE @[y]],
                         !.out = @ \o x, !.cursor = @ + 1]
    BY <1>2, <1>4, <1>5, <1>6, <1>10, <1>13, <2>1 DEF ResolveReference, IsReference
  <2>3. PICK k, e : k = [y \in DOMAIN m \cup {x} |-> IF y = x THEN r ELSE m[y]] /\ e = a \cup {r}
    OBVIOUS
  <2>4. x \in Seq(T) /\ Len(x) > 0
    <3>1. x \in Seq(ValueCharacters) /\ Len(x) > 0
      BY <2>1, <2>2, VaultsHoldValues
    <3>2. ValueCharacters \subseteq T
      BY DEF TextOf
    <3>. QED BY <3>1, <3>2
  <2>5. PICK z \in Seq(T) : z = o \o x
    <3>1. o \o x \in Seq(T)
      BY <1>9, <2>4
    <3>. QED BY <3>1
  <2>6. PICK j \in 1 .. Len(p) + 1 : j = c + 1
    BY <1>4, <2>2
  <2>7. t = Learned(s, e, k, z, j)
    BY <1>5, <1>6, <2>2, <2>3, <2>5, <2>6 DEF Learned
  <2>8. t = SubstRecord(d, v, p, j, z, k, e)
    BY <1>7, <2>7, SubstLearns
  <2>9. DOMAIN k = DOMAIN m \cup {x} /\ \A y \in DOMAIN k : k[y] \in SecretNames
    BY <1>9, <2>2, <2>3
  <2>10. AreValues(DOMAIN k, T) /\ IsFiniteSet(DOMAIN k)
    <3>1. IsFiniteSet(DOMAIN m \cup {x})
      BY <1>9, FS_AddElement
    <3>. QED BY <1>9, <2>4, <2>9, <3>1 DEF AreValues
  <2>11. ASSUME ToSet(p) \cap ValueCharacters = {} PROVE FallsApart(z, DOMAIN k)
    <3>1. FallsApart(o, DOMAIN m) /\ DOMAIN m \subseteq DOMAIN k /\ x \in DOMAIN k
      BY <1>9, <2>9, <2>11
    <3>2. PICK E : E = DOMAIN k
      OBVIOUS
    <3>3. FallsApart(o, E) /\ x \in E /\ AreValues(E, T)
      BY <2>10, <3>1, <3>2, MoreValues
    <3>4. FallsApart(o \o x, E)
      BY <1>9, <2>4, <3>3, PieceBehind
    <3>. QED BY <2>5, <3>2, <3>4
  <2>12. \A i \in 1 .. j - 1 : i \in 1 .. c - 1 \/ i = c
    BY <2>6
  <2>13. SubstShape(t)
    <3>1. SubstShape(SubstRecord(d, v, p, j, z, k, e))
      BY ShapeOfRecord
    <3>. QED BY <2>8, <3>1
  <2>14. SubstIsAudited(t)
    <3>1. PICK q : q = t /\ q.payload = p /\ q.cursor = j /\ q.audited = e /\ q.pc = d
      BY <2>8, FieldsOfRecord
    <3>2. d # "done"
      BY <2>2
    <3>3. \A i \in 1 .. j - 1 : IsReference(p[i]) => p[i] \in e
      BY <1>8, <2>1, <2>2, <2>3, <2>12
    <3>. QED BY <3>1, <3>3, <3>2 DEF SubstIsAudited
  <2>15. SubstIsMapped(t)
    BY <2>5, <2>8, <2>9, <2>10, <2>11 DEF SubstIsMapped, SubstRecord
  <2>. QED BY <2>13, <2>14, <2>15 DEF SubstInv
<1>14. CASE Substituted
  <2>1. s.cursor > Len(s.payload) /\ t = [s EXCEPT !.pc = "done"]
    BY <1>14 DEF Substituted
  <2>2. c = n + 1
    BY <1>2, <1>4, <1>5, <2>1
  <2>3. t = SubstRecord("done", v, p, c, o, m, a)
    BY <1>7, <2>1 DEF SubstRecord
  <2>4. SubstShape(t) /\ SubstIsAudited(t)
    BY <1>4, <1>8, <2>2, <2>3 DEF SubstShape, SubstIsAudited, SubstRecord
  <2>5. SubstIsMapped(t)
    BY <1>9, <2>3 DEF SubstIsMapped, SubstRecord
  <2>. QED BY <2>4, <2>5 DEF SubstInv
<1>. QED BY <1>11, <1>12, <1>13, <1>14 DEF SubstNext

LEMMA RecordsFollow == SubstInv(subst) => RecordsHoldReferencesOnly
<1>. SUFFICES ASSUME SubstInv(subst), subst.pc = "done" PROVE RecordsHoldReferencesOnly
  BY DEF RecordsHoldReferencesOnly
<1>. PICK s : s = subst
  OBVIOUS
<1>1. SubstShape(s) /\ SubstIsAudited(s) /\ SubstIsMapped(s) /\ s.pc = "done"
  BY DEF SubstInv
<1>2. PICK p \in Payloads : p = s.payload
  BY <1>1 DEF SubstShape
<1>3. p \in Seq(ToSet(p)) /\ SecretNames \cap ValueCharacters = {}
  BY SecretsAssumption
<1>4. PICK n \in Nat : n = Len(p) /\ DOMAIN p = 1 .. n
  BY <1>3
<1>5. \A i \in DOMAIN p : IsReference(p[i]) => p[i] \in s.audited
  <2>1. s.cursor - 1 = n
    BY <1>1, <1>2, <1>4 DEF SubstIsAudited
  <2>. QED BY <1>1, <1>2, <1>4, <2>1 DEF SubstIsAudited
<1>6. ASSUME OverlapFree(DOMAIN s.map), ToSet(p) \cap ValueCharacters = {}
      PROVE  ToSet(rebuild(s.out, s.map)) \cap ValueCharacters = {}
  <2>1. PICK T : T = TextOf(p)
    OBVIOUS
  <2>2. PICK o, m : o = s.out /\ m = s.map
    OBVIOUS
  <2>3. /\ IsFiniteSet(DOMAIN m) /\ AreValues(DOMAIN m, T) /\ FallsApart(o, DOMAIN m)
        /\ o \in Seq(T) /\ \A x \in DOMAIN m : m[x] \in SecretNames
    BY <1>1, <1>2, <1>6, <2>1, <2>2 DEF SubstIsMapped
  <2>4. \A x \in DOMAIN m : m[x] \in T /\ m[x] \notin ValueCharacters
    BY <1>3, <2>1, <2>3 DEF TextOf
  <2>. QED BY <1>6, <2>2, <2>3, <2>4, RebuiltHoldsNone
<1>. QED BY <1>2, <1>5, <1>6 DEF RecordsHoldReferencesOnly

\* A payload is recorded without its secrets: whatever the vault and the payload, the text
\* that is rebuilt holds no character of a value, if no two values overlap and the payload
\* itself held none, and each reference was entered in the log before its value was put in.
THEOREM RecordsHoldNoSecrets == SubstSpec => []RecordsHoldReferencesOnly
<1>1. SubstInit => SubstInv(subst)
  BY SubstBegins
<1>2. SubstInv(subst) /\ [SubstNext]_subst => SubstInv(subst')
  BY SubstKeepsInv
<1>3. SubstInv(subst) => RecordsHoldReferencesOnly
  BY RecordsFollow
<1>4. SubstInv(subst)' <=> SubstInv(subst')
  OBVIOUS
<1>. QED BY <1>1, <1>2, <1>3, <1>4, PTL DEF SubstSpec

=============================================================================

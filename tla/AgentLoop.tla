----------------------------- MODULE AgentLoop -----------------------------
(***************************************************************************)
(* run_agent of libs/agent-core/src/agent.rs: one run of the agent kernel, *)
(* from its configuration to the one result or error it returns.           *)
(*                                                                         *)
(* The model, the tools, the hooks, the compaction engine and the owner of *)
(* the cancellation token are the environment: each may answer in every    *)
(* way its trait allows.  A step ends where the code awaits one of them.   *)
(* A loop over the hooks is one step: nothing else reads what it writes    *)
(* before it ends.  ContextReducer is the passthrough one, the only one    *)
(* the repository has, and so is what CompactionEngine returns.            *)
(***************************************************************************)
EXTENDS Approval, FiniteSets

CONSTANTS Configs,       \* configurations a run may be given
          Proposals,     \* sequences of tool calls the model may answer with
          Usages,        \* input tokens an answer may report
          Hooks,         \* number of hooks
          compaction_threshold_tokens,
          MaxTokens      \* where the token counter saturates (u64::MAX)

AgentLoopConfig == [approval_policy : ToolApprovalPolicy, max_turns : Nat, max_attempts : Nat]

ASSUME ConfigsAssumption == Configs \subseteq AgentLoopConfig
ASSUME ProposalsAssumption == Proposals \subseteq Seq(ToolCall)
ASSUME CountersAssumption ==
  /\ Hooks \in Nat
  /\ compaction_threshold_tokens \in Nat /\ MaxTokens \in Nat
  /\ Usages \subseteq Nat

VARIABLES
  pc,                    \* where run_agent stands
  config,
  turn,                  \* the turn of the for loop
  attempt,               \* the attempt of call_llm_with_retry
  messages,              \* the thread
  total_input_tokens,
  calls,                 \* proposed_tool_calls of this turn's answer
  approvals,             \* this turn's approval machine
  current,               \* the call next_ready() returned, with its decision
  cancelled,             \* the token
  result,                \* what run_agent returned
  executed,              \* history: executions begun, as [turn, call]
  last_event,            \* history: the event each hook saw last
  late                   \* history: model and tool calls begun once cancelled

vars == <<pc, config, turn, attempt, messages, total_input_tokens, calls, approvals,
          current, cancelled, result, executed, last_event, late>>

history == <<executed, last_event, late>>
turn_state == <<calls, approvals, current>>

NoResult == [kind |-> "Running"]
Err(e) == [kind |-> "Err", error |-> e]
Ok(reason, turns, pending_ids) ==
  [kind |-> "Ok", reason |-> reason, turns_executed |-> turns, pending_tool_calls |-> pending_ids]

Return(r) == pc' = "Done" /\ result' = r

\* Messages: the text is left out, what links results to calls stays.
user_message == [role |-> "User"]
assistant(cs) == [role |-> "Assistant", tool_calls |-> cs]
tool_result(id, content) == [role |-> "Tool", tool_call_id |-> id, content |-> content]

no_machine == [entries |-> <<>>, next_index |-> 1]
no_call == <<>>

Init ==
  /\ pc = "Config"
  /\ config \in Configs
  /\ turn = 1
  /\ attempt = 1
  /\ messages = <<user_message>>
  /\ total_input_tokens = 0
  /\ calls = <<>>
  /\ approvals = no_machine
  /\ current = no_call
  /\ cancelled \in BOOLEAN
  /\ result = NoResult
  /\ executed = <<>>
  /\ last_event = [h \in 1 .. Hooks |-> "none"]
  /\ late = [llm |-> 0, tools |-> 0]

----------------------------------------------------------------------------
\* Variants of the definitions below, each with a plausible bug the properties reject.
FireHooksIgnoringErrors(event, next_pc) ==
  \E told \in 0 .. Hooks :
    /\ last_event' = [h \in 1 .. Hooks |-> IF h <= told THEN event ELSE last_event[h]]
    /\ pc' = next_pc /\ UNCHANGED result
ContinueEvenIfCancelled(next_pc) == pc' = next_pc /\ UNCHANGED result
NoAttemptsTriedAgain ==
  /\ pc = "Llm"
  /\ attempt > config.max_attempts
  /\ pc' = "BeforeInference"
  /\ UNCHANGED <<config, turn, attempt, messages, total_input_tokens, turn_state, cancelled, result, history>>
SkipToolSilently(call, decision) ==
  pc' = "AfterTool" /\ UNCHANGED <<messages, executed, late, result>>
SkipToolAsIfRun(call, decision) ==
  /\ messages' = Append(messages, tool_result(call.id, "result"))
  /\ pc' = "AfterTool"
  /\ UNCHANGED <<executed, late, result>>

----------------------------------------------------------------------------
\* Every hook is told of an event, in order; the first that fails ends the run,
\* and the ones behind it hear nothing.
FireHooks(event, next_pc) ==
  \E told \in 0 .. Hooks :
    /\ last_event' = [h \in 1 .. Hooks |-> IF h <= told THEN event ELSE last_event[h]]
    /\ \/ told = Hooks /\ pc' = next_pc /\ UNCHANGED result
       \/ told > 0 /\ Return(Err("Hook"))

\* The two places that look at the token.
ContinueUnlessCancelled(next_pc) ==
  IF cancelled THEN Return(Err("Cancelled")) ELSE pc' = next_pc /\ UNCHANGED result

CheckConfig ==
  /\ pc = "Config"
  /\ IF config.max_turns = 0 THEN Return(Err("InvalidConfig"))
                      ELSE pc' = "TurnStart" /\ UNCHANGED result
  /\ UNCHANGED <<config, turn, attempt, messages, total_input_tokens, turn_state, cancelled, history>>

NoTurnLeft == turn > config.max_turns

MaxTurnsReached == Return(Ok("MaxTurnsReached", config.max_turns, {}))

\* The head of the for loop: the range ends, or the token is looked at, the
\* reducer runs and the threshold is tested.
TurnStart ==
  /\ pc = "TurnStart"
  /\ \/ NoTurnLeft /\ MaxTurnsReached
     \/ /\ ~NoTurnLeft
        /\ ContinueUnlessCancelled(IF total_input_tokens > compaction_threshold_tokens
                                   THEN "Compact" ELSE "BeforeInference")
  /\ UNCHANGED <<config, turn, attempt, messages, total_input_tokens, turn_state, cancelled, history>>

Compact ==
  /\ pc = "Compact"
  /\ \/ pc' = "BeforeInference" /\ UNCHANGED result
     \/ Return(Err("Compaction"))
  /\ UNCHANGED <<config, turn, attempt, messages, total_input_tokens, turn_state, cancelled, history>>

BeforeInference ==
  /\ pc = "BeforeInference"
  /\ FireHooks("before_inference", "Llm")
  /\ attempt' = 1
  /\ UNCHANGED <<config, turn, messages, total_input_tokens, turn_state, cancelled,
                 executed, late>>

----------------------------------------------------------------------------
\* One round of the retry loop. An answer leaves it; an error that may be retried
\* starts the next attempt while there is one; every other error, and an empty
\* loop, ends the run. The token is not looked at.
GiveUp == Return(Err("LlmRetryExhausted"))

LlmAnswers(cs, usage) ==
  /\ calls' = cs
  /\ total_input_tokens' = IF total_input_tokens + usage > MaxTokens
                           THEN MaxTokens ELSE total_input_tokens + usage
  /\ pc' = "AfterInference"
  /\ UNCHANGED <<attempt, result>>

LlmFails(retryable) ==
  /\ IF ~retryable \/ attempt = config.max_attempts
     THEN GiveUp /\ UNCHANGED attempt
     ELSE attempt' = attempt + 1 /\ UNCHANGED <<pc, result>>
  /\ UNCHANGED <<calls, total_input_tokens>>

CallLlm ==
  /\ pc = "Llm"
  /\ attempt <= config.max_attempts
  /\ \/ \E cs \in Proposals, usage \in Usages : LlmAnswers(cs, usage)
     \/ \E retryable \in BOOLEAN : LlmFails(retryable)
  /\ late' = IF cancelled THEN [late EXCEPT !.llm = @ + 1] ELSE late
  /\ UNCHANGED <<config, turn, messages, approvals, current, cancelled, executed, last_event>>

NoAttempts ==
  /\ pc = "Llm"
  /\ attempt > config.max_attempts
  /\ GiveUp
  /\ UNCHANGED <<config, turn, attempt, messages, total_input_tokens, turn_state, cancelled, history>>

AfterInference ==
  /\ pc = "AfterInference"
  /\ FireHooks("after_inference", "Judge")
  /\ UNCHANGED <<config, turn, attempt, messages, total_input_tokens, turn_state, cancelled,
                 executed, late>>

----------------------------------------------------------------------------
HasDuplicateId(cs) == \E i, j \in DOMAIN cs : i < j /\ cs[i].id = cs[j].id

\* The answer is final, or malformed, or it waits for the user, or it is drained.
Judge ==
  /\ pc = "Judge"
  /\ \/ /\ calls = <<>>
        /\ messages' = Append(messages, assistant(<<>>))
        /\ Return(Ok("FinalAnswerReached", turn, {}))
        /\ UNCHANGED approvals
     \/ /\ calls # <<>> /\ HasDuplicateId(calls)
        /\ Return(Err("DuplicateToolCallId"))
        /\ UNCHANGED <<messages, approvals>>
     \/ /\ calls # <<>> /\ ~HasDuplicateId(calls)
        /\ messages' = Append(messages, assistant(calls))
        /\ approvals' = new(calls, config.approval_policy)
        /\ IF is_waiting_for_user(approvals')
           THEN Return(Ok("WaitingForApproval", turn, pending_tool_call_ids(approvals')))
           ELSE pc' = "Drain" /\ UNCHANGED result
  /\ UNCHANGED <<config, turn, attempt, total_input_tokens, calls, current, cancelled, history>>

\* The head of the while loop: None ends the turn, a call goes on unless the
\* token is set.
Drain ==
  /\ pc = "Drain"
  /\ \/ /\ ready_entry(approvals) = {}
        /\ approvals' = exhausted(approvals)
        /\ turn' = turn + 1
        /\ pc' = "TurnStart"
        /\ current' = no_call
        /\ UNCHANGED result
     \/ \E i \in ready_entry(approvals) :
          /\ approvals' = dispatch(approvals, i)
          /\ current' = <<[call     |-> approvals.entries[i].tool_call,
                           decision |-> approvals.entries[i].state.decision]>>
          /\ ContinueUnlessCancelled("BeforeTool")
          /\ UNCHANGED turn
  /\ UNCHANGED <<config, attempt, messages, total_input_tokens, calls, cancelled, history>>

BeforeTool ==
  /\ pc = "BeforeTool"
  /\ FireHooks("before_tool_execution", "Tool")
  /\ UNCHANGED <<config, turn, attempt, messages, total_input_tokens, turn_state, cancelled,
                 executed, late>>

PushResult(call, content) ==
  /\ messages' = Append(messages, tool_result(call.id, content))
  /\ pc' = "AfterTool"
  /\ UNCHANGED result

\* An accepted call goes to the executor, which completes, fails the run, or
\* honours the token.
RunTool(call) ==
  /\ executed' = Append(executed, [turn |-> turn, call |-> call])
  /\ late' = IF cancelled THEN [late EXCEPT !.tools = @ + 1] ELSE late
  /\ \/ \E content \in {"result", "tool_error"} : PushResult(call, content)
     \/ Return(Err("ToolExecution")) /\ UNCHANGED messages
     \/ cancelled /\ Return(Err("Cancelled")) /\ UNCHANGED messages

\* Any other call gets its result without running.
SkipTool(call, decision) ==
  /\ PushResult(call, IF decision = "Reject" THEN "rejected" ELSE decision)
  /\ UNCHANGED <<executed, late>>

Tool ==
  /\ pc = "Tool"
  /\ \/ current[1].decision = "Accept" /\ RunTool(current[1].call)
     \/ current[1].decision # "Accept" /\ SkipTool(current[1].call, current[1].decision)
  /\ UNCHANGED <<config, turn, attempt, total_input_tokens, turn_state, cancelled,
                 last_event>>

AfterTool ==
  /\ pc = "AfterTool"
  /\ FireHooks("after_tool_execution", "Drain")
  /\ UNCHANGED <<config, turn, attempt, messages, total_input_tokens, turn_state, cancelled,
                 executed, late>>

\* The owner of the token may set it at any time.
Cancel ==
  /\ pc # "Done" /\ ~cancelled
  /\ cancelled' = TRUE
  /\ UNCHANGED <<pc, config, turn, attempt, messages, total_input_tokens, turn_state, result, history>>

Step ==
  \/ CheckConfig \/ TurnStart \/ Compact \/ BeforeInference
  \/ CallLlm \/ NoAttempts \/ AfterInference
  \/ Judge \/ Drain \/ BeforeTool \/ Tool \/ AfterTool

Next == Step \/ Cancel

Spec == Init /\ [][Next]_vars

\* Every await comes back: the model, the tools and the hooks answer or fail.
FairSpec == Spec /\ WF_vars(Step)

----------------------------------------------------------------------------
\* The five methods of AgentHook. run_agent calls the first four.
Event == {"before_inference", "after_inference", "before_tool_execution",
          "after_tool_execution", "on_error"}

Message ==
  {user_message}
  \cup [role : {"Assistant"}, tool_calls : Seq(ToolCall)]
  \cup [role : {"Tool"}, tool_call_id : ToolCallId,
        content : {"result", "tool_error", "rejected"} \cup CustomResult]

AgentError == {"InvalidConfig", "Cancelled", "Compaction", "Hook", "LlmRetryExhausted",
               "DuplicateToolCallId", "ToolExecution"}

AgentLoopResult ==
  [kind : {"Ok"}, reason : {"FinalAnswerReached", "MaxTurnsReached", "WaitingForApproval"},
   turns_executed : 1 .. config.max_turns, pending_tool_calls : SUBSET ToolCallId]

TypeOK ==
  /\ pc \in {"Config", "TurnStart", "Compact", "BeforeInference", "Llm", "AfterInference",
             "Judge", "Drain", "BeforeTool", "Tool", "AfterTool", "Done"}
  /\ config \in Configs
  /\ turn \in 1 .. config.max_turns + 1
  /\ attempt \in Nat \ {0}
  /\ messages \in Seq(Message)
  /\ total_input_tokens \in 0 .. MaxTokens
  /\ calls \in Proposals \cup {<<>>}
  /\ approvals \in ApprovalMachine
  /\ \/ current = no_call
     \/ current \in Seq([call : ToolCall, decision : ToolDecision]) /\ Len(current) = 1
  /\ cancelled \in BOOLEAN
  /\ result \in {NoResult} \cup {Err(e) : e \in AgentError} \cup AgentLoopResult
  /\ (pc = "Done") <=> (result # NoResult)
  /\ executed \in Seq([turn : 1 .. config.max_turns, call : ToolCall])
  /\ last_event \in [1 .. Hooks -> Event \cup {"none"}]
  /\ late \in [llm : Nat, tools : Nat]

----------------------------------------------------------------------------
\* Where the answers stand in the thread, one for each judged turn, and how many
\* there are up to a place.
answers == {i \in DOMAIN messages : messages[i].role = "Assistant"}
turn_of(i) == Cardinality({j \in answers : j <= i})

\* Where the results of executors stand, and how many there are up to a place.
ran == {i \in DOMAIN messages :
          messages[i].role = "Tool" /\ messages[i].content \in {"result", "tool_error"}}
ran_before(i) == Cardinality({j \in ran : j <= i})

\* The thread the model is sent is one a provider accepts: behind each answer come
\* the results of its calls, all of them, in the order they were proposed, and no
\* result stands anywhere else. Rejected and failed calls are no exception.
ThreadWellFormed ==
  pc = "Llm" =>
    \A i \in DOMAIN messages :
      /\ messages[i].role = "Assistant" =>
           \A k \in DOMAIN messages[i].tool_calls :
             /\ i + k \in DOMAIN messages
             /\ messages[i + k].role = "Tool"
             /\ messages[i + k].tool_call_id = messages[i].tool_calls[k].id
      /\ messages[i].role = "Tool" =>
           \E a \in 1 .. i - 1 :
             /\ messages[a].role = "Assistant"
             /\ i - a \in DOMAIN messages[a].tool_calls

\* What the thread says of the tools is what happened: the results an executor
\* gave are those of the executions, in order, and only the one that ended the run
\* or is under way lacks its result.
ThreadTellsExecutions ==
  /\ Len(executed) - Cardinality(ran) \in IF pc = "Done" THEN {0, 1} ELSE {0}
  /\ \A i \in ran : messages[i].tool_call_id = executed[ran_before(i)].call.id

\* A tool runs only when the policy approves it and no call of the same turn waits
\* for the user, and never twice for one call: a turn that stops for approval has
\* run none of its calls, those the policy approves included.
NothingRunsUnapproved ==
  /\ \A k \in DOMAIN executed :
       /\ action_for(config.approval_policy, executed[k].call.name) = "Approve"
       /\ \E i \in answers :
            /\ turn_of(i) = executed[k].turn
            /\ \E j \in DOMAIN messages[i].tool_calls : messages[i].tool_calls[j] = executed[k].call
            /\ \A j \in DOMAIN messages[i].tool_calls :
                 action_for(config.approval_policy, messages[i].tool_calls[j].name) # "Ask"
  /\ \A j, k \in DOMAIN executed :
       (executed[j].turn = executed[k].turn /\ executed[j].call.id = executed[k].call.id) => j = k

\* The token is looked at between calls only, so once it is set one tool may still
\* start, or the model be asked until its retries are used up, and never both.
CancelBounded ==
  /\ late.tools <= 1
  /\ late.llm <= config.max_attempts
  /\ late.llm = 0 \/ late.tools = 0

\* Each hook hears the events around inferences and tools in the canonical order,
\* none of these four missed or repeated, whichever hook fails and whenever the run
\* is cut short. The fifth event, on_error, has no place in the order: run_agent
\* fires it nowhere (ErrorsAreHeard).
HooksInCanonicalOrder ==
  [][\A h \in 1 .. Hooks :
       <<last_event[h], last_event'[h]>> \in
         {<<e, e>> : e \in Event \cup {"none"}} \cup
         {<<"none", "before_inference">>,
          <<"before_inference", "after_inference">>,
          <<"after_inference", "before_tool_execution">>,
          <<"before_tool_execution", "after_tool_execution">>,
          <<"after_tool_execution", "before_tool_execution">>,
          <<"after_tool_execution", "before_inference">>}]_last_event

\* A run that ends because the model could not be reached has told its hooks so:
\* the loop is said to fire all five events. It does not fire on_error.
ErrorsAreHeard ==
  result = Err("LlmRetryExhausted") => \A h \in 1 .. Hooks : last_event[h] = "on_error"

\* The run ends: no answer of the model, retry or cancellation keeps it going.
Termination == <>(pc = "Done")
=============================================================================

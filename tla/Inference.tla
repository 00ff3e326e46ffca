----------------------------- MODULE Inference -----------------------------
(***************************************************************************)
(* One call of the model by the agent kernel: call_llm_with_retry with the *)
(* delays of retry.rs (libs/agent-core/src), and below it the client that  *)
(* makes a turn of a JSON reply (libs/ai/src/agent_client.rs). AgentLoop   *)
(* has only the outcome of it.                                             *)
(* The second part is the thread of the kernel once a reducer, or the      *)
(* compactor, has changed it: rebuild_thread_after_drop.                   *)
(*                                                                         *)
(* A header is a sequence: empty when it is not there, else what it is and *)
(* its value. A multiplier is a quotient.                                  *)
(***************************************************************************)
EXTENDS Integers, Sequences, SequencesExt, FiniteSetsExt

CONSTANTS
    RetryConfigs,   \* [max_attempts, initial_backoff_ms, max_backoff_ms, multiplier]
    Headers,        \* [retry_after_ms, retry_after]
    Replies,        \* what the model may write: [fence, body, tool_calls]
    MaxU64

VARIABLE turn

Is(header, kind) == header # <<>> /\ header[1] = kind

\* Unsigned numbers, and a date that may have gone by.
ASSUME InferenceAssumption ==
    /\ \A c \in RetryConfigs :
         /\ c.max_attempts \in Nat /\ c.initial_backoff_ms \in Nat /\ c.max_backoff_ms \in Nat
         /\ c.multiplier.num \in Int /\ c.multiplier.den \in Nat \ {0}
    /\ \A h \in Headers :
         /\ Is(h.retry_after_ms, "value") => h.retry_after_ms[2] \in Nat
         /\ Is(h.retry_after, "value") => h.retry_after[2] \in Nat
         /\ Is(h.retry_after, "date") => h.retry_after[2] \in Int
    /\ MaxU64 \in Nat

NoHeaders == [retry_after_ms |-> <<>>, retry_after |-> <<>>]

saturating_mul(a, b) == Min({a * b, MaxU64})

Delay(ms, source) == [delay_ms |-> ms, source |-> source]

\* Milliseconds, else seconds, else a date, one in the past for no delay.
parse_retry_delay_from_headers(h) ==
    CASE Is(h.retry_after_ms, "value") -> Delay(h.retry_after_ms[2], "RetryAfterMsHeader")
      [] ~Is(h.retry_after_ms, "value") /\ Is(h.retry_after, "value") ->
             Delay(saturating_mul(h.retry_after[2], 1000), "RetryAfterHeader")
      [] ~Is(h.retry_after_ms, "value") /\ Is(h.retry_after, "date") ->
             Delay(Max({0, h.retry_after[2]}), "RetryAfterHeader")
      [] OTHER -> Delay(0, "none")

\* The powers of a number.
powi(base) == LET p[n \in Nat] == IF n = 0 THEN 1 ELSE base * p[n - 1] IN p

\* The delay before it is clamped, as a quotient: exact, as the f64 of the code is for
\* configurations whose delays stay below 2^53 milliseconds.
delay_num(retry, attempt) == retry.initial_backoff_ms * powi(retry.multiplier.num)[attempt - 1]
delay_den(retry, attempt) == powi(retry.multiplier.den)[attempt - 1]

\* A variant with a bug: the maximum holds for the first attempt only.
exponential_backoff_unclamped(retry, attempt) ==
    IF attempt <= 1 THEN Min({retry.initial_backoff_ms, retry.max_backoff_ms})
    ELSE delay_num(retry, attempt) \div delay_den(retry, attempt)

exponential_backoff_ms(retry, attempt) ==
    IF attempt <= 1 \/ delay_num(retry, attempt) < 0
    THEN Min({retry.initial_backoff_ms, retry.max_backoff_ms})
    ELSE Min({delay_num(retry, attempt) \div delay_den(retry, attempt), retry.max_backoff_ms})

resolve_retry_delay_ms(headers, retry, attempt) ==
    LET parsed == parse_retry_delay_from_headers(headers)
    IN  IF parsed.source # "none" THEN parsed
        ELSE Delay(exponential_backoff_ms(retry, attempt), "ExponentialBackoff")

----------------------------------------------------------------------------
(* JsonAgentLlmClient *)

\* What is left of a reply: a fence around it is taken off, closed or not; prose
\* around a fence is not.
strip_code_fences(reply) ==
    IF reply.fence \in {"none", "json", "plain", "unclosed"} THEN reply.body ELSE "prose"

parses(reply) == strip_code_fences(reply) = "object"

\* Arguments that are JSON written into a string, as some models give them, are
\* unwrapped once. Their depth is how often they were written so.
unwrap_stringified_json(depth) == Max({0, depth - 1})

parse_json_response(reply) ==
    [i \in DOMAIN reply.tool_calls |->
        [id |-> reply.tool_calls[i].id,
         depth |-> unwrap_stringified_json(reply.tool_calls[i].depth)]]

TurnIdle == [pc |-> "idle", json |-> TRUE, retry |-> <<>>, attempt |-> 1, delays |-> <<>>,
             errors |-> <<>>, result |-> "none", calls |-> <<>>]

TurnInit ==
    \E retry \in RetryConfigs, json \in BOOLEAN :
        turn = [TurnIdle EXCEPT !.pc = "call", !.retry = retry, !.json = json]

\* A reply that parses is the outcome.
GenerateTurn ==
    /\ turn.pc = "call" /\ turn.attempt <= turn.retry.max_attempts
    /\ \E reply \in Replies :
         /\ parses(reply)
         /\ turn' = [turn EXCEPT !.pc = "done", !.result = "Ok",
                                 !.calls = parse_json_response(reply)]

\* An error is worth another attempt.
WorthRetrying(error) == error.retryable /\ turn.attempt # turn.retry.max_attempts

TurnFails(error) ==
    /\ turn.pc = "call" /\ turn.attempt <= turn.retry.max_attempts
    /\ turn' = IF WorthRetrying(error)
               THEN [turn EXCEPT !.errors = Append(@, error), !.attempt = @ + 1,
                       !.delays = Append(@, resolve_retry_delay_ms(
                                       error.headers, turn.retry, turn.attempt))]
               ELSE [turn EXCEPT !.errors = Append(@, error), !.pc = "done",
                       !.result = "LlmRetryExhausted"]

\* The provider fails: only its own errors are worth another attempt. This client
\* knows no headers; another one may hand them on.
CompleteFails ==
    \E retryable \in BOOLEAN, headers \in IF turn.json THEN {NoHeaders} ELSE Headers :
        TurnFails([retryable |-> retryable, headers |-> headers])

\* A reply that does not parse is an error, and asking again would not help.
ReplyUnusable ==
    \E reply \in Replies :
        ~parses(reply) /\ TurnFails([retryable |-> FALSE, headers |-> NoHeaders])

\* A configuration without an attempt.
NoAttempt ==
    /\ turn.pc = "call" /\ turn.attempt > turn.retry.max_attempts
    /\ turn' = [turn EXCEPT !.pc = "done", !.result = "LlmRetryExhausted"]

TurnNext == GenerateTurn \/ CompleteFails \/ ReplyUnusable \/ NoAttempt

TurnSpec == TurnInit /\ [][TurnNext]_turn

----------------------------------------------------------------------------
(* run_reducer, run_compactor: the thread as they see it has no ids.       *)

CONSTANTS Threads,      \* sequences of texts
          Reductions    \* what a reducer may give back: sequences of texts

ASSUME ThreadsAssumption == \A t \in Threads \cup Reductions : t \in Seq(ToSet(t))

VARIABLE thread

ThreadIdle == [pc |-> "idle", original |-> <<>>, reduced |-> <<>>, r |-> 1, at |-> 0,
               rebuilt |-> <<>>]

\* A thread of the same length is taken to be the same.
ThreadInit ==
    \E original \in Threads, reduced \in Reductions :
        thread = [ThreadIdle EXCEPT !.original = original, !.reduced = reduced,
                    !.pc = IF Len(reduced) = Len(original) THEN "same" ELSE "rebuild"]

Looking == thread.pc = "rebuild" /\ thread.r <= Len(thread.reduced)
            /\ thread.at < Len(thread.original)

\* A variant with a bug: each search begins at the first message.
KeepMessageFromTheTop ==
    /\ Looking /\ thread.original[thread.at + 1] = thread.reduced[thread.r]
    /\ thread' = [thread EXCEPT !.rebuilt = Append(@, thread.at + 1), !.at = 0, !.r = @ + 1]

\* The next message of the original that reads as this one does is kept.
KeepMessage ==
    /\ Looking /\ thread.original[thread.at + 1] = thread.reduced[thread.r]
    /\ thread' = [thread EXCEPT !.rebuilt = Append(@, thread.at + 1), !.at = @ + 1,
                                !.r = @ + 1]

SkipMessage ==
    /\ Looking /\ thread.original[thread.at + 1] # thread.reduced[thread.r]
    /\ thread' = [thread EXCEPT !.at = @ + 1]

ThreadRebuilt ==
    /\ thread.pc \in {"same", "rebuild"} /\ ~Looking
    /\ thread' = [thread EXCEPT !.pc = "done",
         !.rebuilt = IF thread.pc = "same" THEN [i \in DOMAIN thread.original |-> i] ELSE @]

ThreadNext == KeepMessage \/ SkipMessage \/ ThreadRebuilt

ThreadSpec == ThreadInit /\ [][ThreadNext]_thread

----------------------------------------------------------------------------
\* What the headers of an error ask for, in milliseconds: a number of them before a
\* number of seconds or a date, and nothing when none can be read.
AskedFor(h) ==
    IF Is(h.retry_after_ms, "value") THEN {h.retry_after_ms[2]}
    ELSE IF Is(h.retry_after, "value") THEN {h.retry_after[2] * 1000}
    ELSE IF Is(h.retry_after, "date")
         THEN {IF h.retry_after[2] > 0 THEN h.retry_after[2] ELSE 0}
    ELSE {}

\* That time and no other, but where it is more than can be told.
Honours(d, ms) == d.delay_ms <= ms /\ (d.delay_ms >= ms \/ d.delay_ms = MaxU64)

\* A retry waits for what the headers of the error before it ask for, whichever of the
\* three forms they use and however much that is: no maximum holds for it. Without
\* their word it waits no longer than the maximum, and, for a multiplier of one or
\* more, no less than the time before. There are no more attempts than allowed, and
\* only errors that may pass are retried: a reply that cannot be read or a refusal ends
\* the call. Behind the JSON client the whole wait is bounded, for its errors name no
\* time.
RetriesKeepTheirBounds ==
    LET retry == turn.retry
    IN  turn.pc # "idle" =>
          /\ Len(turn.errors) <= retry.max_attempts
          /\ \A i \in DOMAIN turn.errors :
                i < Len(turn.errors) => turn.errors[i].retryable
          /\ \A i \in DOMAIN turn.delays :
                LET d == turn.delays[i]
                    asked == AskedFor(turn.errors[i].headers)
                IN  /\ d.source = "ExponentialBackoff" <=> asked = {}
                    /\ d.source = "ExponentialBackoff" => d.delay_ms <= retry.max_backoff_ms
                    /\ \A ms \in asked : Honours(d, ms)
          /\ retry.multiplier.num >= retry.multiplier.den =>
                \A i, j \in DOMAIN turn.delays :
                   /\ i < j
                   /\ turn.delays[i].source = "ExponentialBackoff"
                   /\ turn.delays[j].source = "ExponentialBackoff"
                   => turn.delays[i].delay_ms <= turn.delays[j].delay_ms
          /\ turn.json => \A i \in DOMAIN turn.delays :
                             turn.delays[i].source = "ExponentialBackoff"

\* What retry.rs:20-22 says of a delay without a header: it is clamped to the range
\* from the initial delay to the maximum. Only the maximum is applied: a multiplier
\* below one leads out of it.
BackoffIsInRange ==
    LET retry == turn.retry
    IN  turn.pc # "idle" /\ retry.initial_backoff_ms <= retry.max_backoff_ms =>
          \A i \in DOMAIN turn.delays :
             turn.delays[i].source = "ExponentialBackoff" =>
                turn.delays[i].delay_ms \in retry.initial_backoff_ms..retry.max_backoff_ms

Texts(s, positions) == [i \in DOMAIN positions |-> s[positions[i]]]

Increasing(s) == \A i, j \in DOMAIN s : i < j => s[i] < s[j]

\* A thread is rebuilt of messages of its own, each at most once and in their order;
\* when the reducer only dropped messages each one it left is there again, and it is
\* that very message when no two read the same.
RebuiltThreadIsTheReduced ==
    thread.pc = "done" =>
        LET rebuilt == thread.rebuilt
            original == thread.original
            reduced == thread.reduced
        IN  /\ Increasing(rebuilt)
            /\ \A left \in [DOMAIN reduced -> DOMAIN original] :
                  Increasing(left) /\ Texts(original, left) = reduced =>
                    /\ Texts(original, rebuilt) = reduced
                    /\ (\A i, j \in DOMAIN original : original[i] = original[j] => i = j)
                         => rebuilt = left
=============================================================================

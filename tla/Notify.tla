------------------------------- MODULE Notify -------------------------------
(***************************************************************************)
(* MultiNotifier::notify (libs/notify/src/multi.rs): one event goes to     *)
(* every child, one after the other. A SlackNotifier fails when nobody     *)
(* answers in time, or on an answer that is not a success; a LogNotifier   *)
(* never fails.                                                            *)
(***************************************************************************)
EXTENDS Integers, Sequences

CONSTANT NotifierLists    \* sequences of "log", "slack" and "misconfigured"

ASSUME NotifyAssumption == NotifierLists \subseteq Seq({"log", "slack", "misconfigured"})

VARIABLE notice           \* what notify is at, and whom the event has reached

NoticeIdle == [pc |-> "idle", list |-> <<>>, children |-> <<>>, tried |-> 0, reached |-> {},
               any_succeeded |-> FALSE, last_err |-> "none", result |-> "none"]

\* SlackNotifier::new refuses a URL that is none of Slack's, and a client that cannot
\* be built; such a child is never registered.
configured(kind) == kind # "misconfigured"

NoticeInit ==
    \E list \in NotifierLists : notice = [NoticeIdle EXCEPT !.pc = "with", !.list = list]

\* MultiNotifier::with, for one child after the other.
RegisterChild ==
    /\ notice.pc = "with"
    /\ notice' = IF notice.list = <<>> THEN [notice EXCEPT !.pc = "next"]
                 ELSE [notice EXCEPT
                   !.list = Tail(@),
                   !.children = IF configured(Head(notice.list))
                                THEN Append(@, Head(notice.list)) ELSE @]

child == notice.children[notice.tried + 1]

\* What a child may answer.
Answers(kind) == IF kind = "log" THEN {"ok"} ELSE {"ok", "Network", "EndpointError"}

\* Whether the event came through: an endpoint may have taken it whose answer did not
\* come in time.
Delivered(answer) == IF answer = "ok" THEN {TRUE} ELSE IF answer = "Network" THEN BOOLEAN
                     ELSE {FALSE}

\* A variant with a bug: the first failure ends the fan-out.
NotifyChildOrStop ==
    /\ notice.pc = "next" /\ notice.tried < Len(notice.children)
    /\ \E answer \in Answers(child) : \E delivered \in Delivered(answer) :
         notice' = [notice EXCEPT
            !.tried = @ + 1,
            !.reached = IF delivered THEN @ \cup {notice.tried + 1} ELSE @,
            !.any_succeeded = @ \/ answer = "ok",
            !.pc = IF answer = "ok" THEN @ ELSE "done",
            !.result = IF answer = "ok" THEN @ ELSE answer,
            !.last_err = IF answer = "ok" THEN @ ELSE answer]

NotifyChild ==
    /\ notice.pc = "next" /\ notice.tried < Len(notice.children)
    /\ \E answer \in Answers(child) : \E delivered \in Delivered(answer) :
         notice' = [notice EXCEPT
            !.tried = @ + 1,
            !.reached = IF delivered THEN @ \cup {notice.tried + 1} ELSE @,
            !.any_succeeded = @ \/ answer = "ok",
            !.last_err = IF answer = "ok" THEN @ ELSE answer]

\* Without children there is nothing to fail.
NotifyReturns ==
    /\ notice.pc = "next" /\ notice.tried = Len(notice.children)
    /\ notice' = [notice EXCEPT !.pc = "done",
         !.result = IF notice.any_succeeded \/ notice.children = <<>>
                    THEN "ok" ELSE notice.last_err]

NoticeNext == RegisterChild \/ NotifyChild \/ NotifyReturns

NoticeSpec == NoticeInit /\ [][NoticeNext]_notice

----------------------------------------------------------------------------
\* A child that fails silences no other: an event is reported lost only when no child
\* confirmed it, every LogNotifier has written it by then, and a success that is
\* reported reached somebody, if there is anybody.
LostOnlyEverywhere ==
    notice.pc = "done" =>
        /\ \A i \in DOMAIN notice.children :
              notice.children[i] = "log" => i \in notice.reached
        /\ notice.result # "ok" =>
              \A i \in DOMAIN notice.children : notice.children[i] # "log"
        /\ notice.result = "ok" /\ notice.children # <<>> => notice.reached # {}

\* What multi.rs:54-55 says of an error: the event was actually lost. An endpoint that
\* took the event and answered too late counts as failed, as one that did not take it.
ReportedLossIsLoss == notice.pc = "done" /\ notice.result # "ok" => notice.reached = {}
=============================================================================

----------------------------- MODULE LineEditor -----------------------------
(***************************************************************************)
(* What an editor of one line promises: characters left of the cursor and  *)
(* characters right of it, and each key does one thing to them.            *)
(***************************************************************************)
EXTENDS Integers, Sequences

CONSTANT Characters

VARIABLES left, right

line == <<left, right>>

LineInit == left = <<>> /\ right = <<>>

InsertChar == \E c \in Characters : left' = Append(left, c) /\ right' = right

DropLeft ==
    left # <<>> /\ left' = SubSeq(left, 1, Len(left) - 1) /\ right' = right

DropRight == right # <<>> /\ left' = left /\ right' = Tail(right)

MoveLeft ==
    /\ left # <<>>
    /\ left' = SubSeq(left, 1, Len(left) - 1)
    /\ right' = <<left[Len(left)]>> \o right

MoveRight ==
    right # <<>> /\ left' = Append(left, Head(right)) /\ right' = Tail(right)

MoveHome == left' = <<>> /\ right' = left \o right

MoveEnd == left' = left \o right /\ right' = <<>>

ClearLine == left' = <<>> /\ right' = <<>>

LineNext == \/ InsertChar \/ DropLeft \/ DropRight \/ MoveLeft \/ MoveRight
            \/ MoveHome \/ MoveEnd \/ ClearLine

LineSpec == LineInit /\ [][LineNext]_line
=============================================================================

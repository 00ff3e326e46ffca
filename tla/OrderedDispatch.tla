-------------------------- MODULE OrderedDispatch --------------------------
(***************************************************************************)
(* What the approval machine of libs/agent-core/src/approval.rs promises,  *)
(* stated without its vector, its states or its cursor: a turn proposes a  *)
(* sequence of tool calls, each call gets at most one decision, decisions  *)
(* may arrive in any order, and the calls come out in the proposed order,  *)
(* each once, each with the decision it got.                               *)
(***************************************************************************)
EXTENDS Integers, Sequences

CONSTANTS Call,       \* tool calls a model turn may propose
          Decision,   \* what can be decided about a call
          Undecided   \* the absence of a decision, none of Decision

VARIABLES proposed,   \* the calls of the turn, in the order of the model's answer
          decided,    \* decided[i]: the decision on proposed[i], or Undecided
          released    \* the calls handed to the caller, with their decisions

vars == <<proposed, decided, released>>

TypeOK ==
  /\ proposed \in Seq(Call)
  /\ decided \in [DOMAIN proposed -> Decision \cup {Undecided}]
  /\ released \in Seq([call : Call, decision : Decision])

Init ==
  /\ proposed \in Seq(Call)
  /\ decided \in [DOMAIN proposed -> Decision \cup {Undecided}]
  /\ released = <<>>

\* Some undecided calls get their decision. A decision, once made, stays.
Decide ==
  /\ decided' \in [DOMAIN proposed -> Decision \cup {Undecided}]
  /\ \A i \in DOMAIN proposed : decided[i] # Undecided => decided'[i] = decided[i]
  /\ UNCHANGED <<proposed, released>>

\* The first call not released yet comes out, if it is decided.
Release ==
  LET next == Len(released) + 1
  IN  /\ next \in DOMAIN proposed
      /\ decided[next] # Undecided
      /\ released' = Append(released,
                            [call |-> proposed[next], decision |-> decided[next]])
      /\ UNCHANGED <<proposed, decided>>

Next == Decide \/ Release

Spec == Init /\ [][Next]_vars

----------------------------------------------------------------------------
\* What came out is a prefix of what was proposed, each call with the decision
\* it holds.
InOrder ==
  /\ Len(released) <= Len(proposed)
  /\ \A k \in DOMAIN released :
        released[k] = [call |-> proposed[k], decision |-> decided[k]]
=============================================================================

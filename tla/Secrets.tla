------------------------------ MODULE Secrets ------------------------------
(***************************************************************************)
(* References to secrets (libs/creds/src): substitute() replaces each      *)
(* {{secret:NAME}} of a payload by the value the broker resolves it to, and*)
(* rebuild() puts the references back before the text is recorded. The     *)
(* broker of a test or a first stage, StubBroker, writes an audit entry for*)
(* each value it gives out.                                                *)
(*                                                                         *)
(* A text is a sequence of characters. A reference is one of them, the name*)
(* in it, which the broker may or may not know; "{{" stands for one that is*)
(* malformed. Only the values are spelt out, for they are searched for; none*)
(* is empty, and none is looked for inside the text of a reference.        *)
(***************************************************************************)
EXTENDS Integers, Sequences, SequencesExt, FiniteSets

CONSTANTS
    SecretNames,
    Payloads,     \* sequences of characters and references
    Vaults        \* what the broker holds: functions from names to texts

ValueCharacters == UNION {UNION {ToSet(v[n]) : n \in DOMAIN v} : v \in Vaults}

ASSUME SecretsAssumption ==
    /\ \A p \in Payloads : p \in Seq(ToSet(p))
    /\ \A v \in Vaults : \A n \in DOMAIN v : v[n] \in Seq(ToSet(v[n])) /\ v[n] # <<>>
    /\ SecretNames \cap ValueCharacters = {}

VARIABLE subst    \* what substitute() is at

IsReference(c) == c \in SecretNames
Malformed == "{{"

SubstIdle == [pc |-> "idle", vault |-> <<>>, payload |-> <<>>, cursor |-> 1,
              out |-> <<>>, map |-> <<>>, audited |-> {}]

SubstInit ==
    \E payload \in Payloads, vault \in Vaults :
        subst = [SubstIdle EXCEPT !.pc = "scan", !.payload = payload, !.vault = vault]

here == subst.payload[subst.cursor]

\* What is between two references is copied.
CopyText ==
    /\ subst.pc = "scan" /\ subst.cursor <= Len(subst.payload)
    /\ ~IsReference(here) /\ here # Malformed
    /\ subst' = [subst EXCEPT !.out = Append(@, here), !.cursor = @ + 1]

\* A reference that is malformed, unknown to the broker, or whose audit entry cannot
\* be written ends the call.
SubstituteFails ==
    /\ subst.pc = "scan" /\ subst.cursor <= Len(subst.payload)
    /\ IsReference(here) \/ here = Malformed
    /\ subst' = [subst EXCEPT !.pc = "failed"]

\* StubBroker::resolve writes the entry, and then the value is put in. Of two names
\* with one value the map remembers the later.
ResolveReference ==
    /\ subst.pc = "scan" /\ subst.cursor <= Len(subst.payload)
    /\ IsReference(here) /\ here \in DOMAIN subst.vault
    /\ LET value == subst.vault[here]
       IN  subst' = [subst EXCEPT
             !.audited = @ \cup {here},
             !.map = [v \in DOMAIN @ \cup {value} |-> IF v = value THEN here ELSE @[v]],
             !.out = @ \o value, !.cursor = @ + 1]

Substituted ==
    /\ subst.pc = "scan" /\ subst.cursor > Len(subst.payload)
    /\ subst' = [subst EXCEPT !.pc = "done"]

SubstNext == CopyText \/ SubstituteFails \/ ResolveReference \/ Substituted

SubstSpec == SubstInit /\ [][SubstNext]_subst

----------------------------------------------------------------------------
(* rebuild *)

IsAt(text, value, i) ==
    i + Len(value) - 1 <= Len(text) /\ SubSeq(text, i, i + Len(value) - 1) = value

\* str::replace: the occurrences from the left that do not overlap. What of the text is
\* read, and how much of the next belongs to an occurrence.
replace(text, value, reference) ==
    LET upto[i \in 0..Len(text)] ==
            IF i = 0 THEN [out |-> <<>>, skip |-> 0]
            ELSE LET before == upto[i - 1]
                 IN  IF before.skip > 0 THEN [before EXCEPT !.skip = @ - 1]
                     ELSE IF IsAt(text, value, i)
                          THEN [out |-> Append(before.out, reference), skip |-> Len(value) - 1]
                     ELSE [before EXCEPT !.out = Append(@, text[i])]
    IN  upto[Len(text)].out

\* The sequences of all the values.
orders(values) == {s \in [1..Cardinality(values) -> values] : ToSet(s) = values}

\* A variant with a bug: the shortest value first.
by_length_ascending(values) ==
    CHOOSE s \in orders(values) : \A i, j \in DOMAIN s : i < j => Len(s[i]) <= Len(s[j])

\* The longest value first; values of one length in some order, that of the map.
by_length(values) ==
    CHOOSE s \in orders(values) : \A i, j \in DOMAIN s : i < j => Len(s[i]) >= Len(s[j])

rebuild(text, map) ==
    LET order == by_length(DOMAIN map)
        upto[k \in 0..Len(order)] ==
            IF k = 0 THEN text ELSE replace(upto[k - 1], order[k], map[order[k]])
    IN  upto[Len(order)]

----------------------------------------------------------------------------
\* No two values can be found overlapping in a text made of them: none ends as another
\* one begins. One may be the beginning of another.
OverlapFree(values) ==
    \A v, w \in values : \A n \in 1..Len(v) - 1 :
        n < Len(w) => SubSeq(v, Len(v) - n + 1, Len(v)) # SubSeq(w, 1, n)

\* Behind a substitution, the text that is recorded holds no character of a value,
\* also where one value begins as another does, if the payload itself held none; and
\* each value in it was entered in the log before it was given out.
RecordsHoldReferencesOnly ==
    subst.pc = "done" =>
        /\ \A i \in DOMAIN subst.payload :
              IsReference(subst.payload[i]) => subst.payload[i] \in subst.audited
        /\ OverlapFree(DOMAIN subst.map) /\ ToSet(subst.payload) \cap ValueCharacters = {} =>
              ToSet(rebuild(subst.out, subst.map)) \cap ValueCharacters = {}
=============================================================================

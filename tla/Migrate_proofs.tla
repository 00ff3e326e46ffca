--------------------------- MODULE Migrate_proofs ---------------------------
(***************************************************************************)
(* For every schema, set of templates, answer of the model and behaviour   *)
(* of the Recovery agent: a resource the last validation found wanting     *)
(* reaches no file.                                                        *)
(***************************************************************************)
EXTENDS Migrate, FiniteSetTheorems, WellFoundedInduction, TLAPS

\* Before the loop of emission nothing is validated for good and no block is the plan's.
BeforeEmission ==
  /\ stage \in {"Scan", "Map", "ListVersions", "Validate", "Recover", "Revalidate"} => ~gated
  /\ stage \notin {"Emit", "Done"} =>
       \A t \in ResourceType : \A k \in DOMAIN files[t] : files[t][k] = UserBlock

\* The gaps are those of the very plan that is emitted, looked up by address; so every
\* block that is a resource's is one of a resource whose address has none.
GapsHeldBack ==
  gated =>
    /\ gaps = {addr_of_validation_error(e) : e \in validation_errors(mapped)}
    /\ \A t \in ResourceType : \A k \in DOMAIN files[t] :
         files[t][k] >= 1 => ~flagged(files[t][k])

FilesTyped ==
  /\ next \in Nat \ {0}
  /\ files \in [ResourceType -> Seq(Int)]

IInv == FilesTyped /\ BeforeEmission /\ GapsHeldBack

----------------------------------------------------------------------------
\* The initial state satisfies the inductive invariant.
LEMMA InitIInv == Init => IInv
<1>. SUFFICES ASSUME Init PROVE IInv
  OBVIOUS
<1>1. /\ next = 1 /\ gated = FALSE /\ stage = "Scan"
      /\ files \in [ResourceType -> {<<>>, <<UserBlock>>}]
  BY DEF Init
<1>2. \A t \in ResourceType : files[t] \in Seq(Int) /\ \A k \in DOMAIN files[t] : files[t][k] = UserBlock
  <2>. SUFFICES ASSUME NEW t \in ResourceType
                PROVE  files[t] \in Seq(Int) /\ \A k \in DOMAIN files[t] : files[t][k] = UserBlock
    OBVIOUS
  <2>1. CASE files[t] = <<>>
    BY <2>1
  <2>2. CASE files[t] = <<UserBlock>>
    BY <2>2 DEF UserBlock
  <2>. QED BY <1>1, <2>1, <2>2
<1>3. files \in [ResourceType -> Seq(Int)]
  BY <1>1, <1>2
<1>. QED BY <1>1, <1>2, <1>3 DEF IInv, FilesTyped, BeforeEmission, GapsHeldBack

\* A stage ahead of the last validation leaves it unmade and the files alone.
LEMMA EarlyStageKeeps ==
  ASSUME IInv, ~gated, UNCHANGED <<gated, next, files>>,
         stage \notin {"Emit", "Done"},
         stage' \in {"Scan", "Map", "ListVersions", "Validate", "Recover", "Revalidate",
                     "Output", "Emit", "Done"}
  PROVE  IInv'
  BY DEF IInv, FilesTyped, BeforeEmission, GapsHeldBack

\* A step that leaves the plan, its gaps and the files as they are keeps what is held back.
LEMMA LateStageKeeps ==
  ASSUME IInv, UNCHANGED <<mapped, gaps, gated, files>>,
         next' \in Nat \ {0}, stage \in {"Output", "Emit", "Done"},
         stage' \in {"Emit", "Done"}
  PROVE  IInv'
  BY DEF IInv, FilesTyped, BeforeEmission, GapsHeldBack, flagged, addr_of_validation_error

\* What AppendBlock leaves in the file of the type: what it held, the block of the
\* resource, or neither, and no other resource's block.
LEMMA AppendShape ==
  ASSUME FilesTyped, NEW t \in ResourceType, t = mapped[next].target_type, AppendBlock(next)
  PROVE  \E new \in Seq(Int) :
           /\ files' = [files EXCEPT ![t] = new]
           /\ \A k \in DOMAIN new :
                new[k] < 1 \/ new[k] = next \/ \E j \in DOMAIN files[t] : new[k] = files[t][j]
<1>1. next \in Nat \ {0} /\ files[t] \in Seq(Int)
  BY DEF FilesTyped
<1>2. PICK existing \in {files[t], <<>>} :
        \/ files' = [files EXCEPT ![t] = Append(existing, next)]
        \/ files' \in {[files EXCEPT ![t] = left] : left \in {files[t], <<>>, <<TornBlock>>}}
  BY DEF AppendBlock, combined
<1>3. CASE files' = [files EXCEPT ![t] = Append(existing, next)]
  <2>1. <<>> \in Seq(Int)
    OBVIOUS
  <2>2. existing \in Seq(Int)
    BY <1>1, <1>2, <2>1
  <2>3. \A s \in Seq(Int) :
          /\ Append(s, next) \in Seq(Int)
          /\ \A k \in DOMAIN Append(s, next) :
               \/ Append(s, next)[k] = next
               \/ k \in DOMAIN s /\ Append(s, next)[k] = s[k]
    BY <1>1
  <2>4. DOMAIN existing = {} \/ existing = files[t]
    BY <1>2
  <2>5. \A k \in DOMAIN Append(existing, next) :
          \/ Append(existing, next)[k] = next
          \/ \E j \in DOMAIN files[t] : Append(existing, next)[k] = files[t][j]
    BY <2>2, <2>3, <2>4
  <2>. QED BY <1>3, <2>2, <2>3, <2>5
<1>4. CASE files' \in {[files EXCEPT ![t] = left] : left \in {files[t], <<>>, <<TornBlock>>}}
  <2>1. PICK left \in {files[t], <<>>, <<TornBlock>>} : files' = [files EXCEPT ![t] = left]
    BY <1>4
  <2>2. CASE left = files[t]
    BY <1>1, <2>1, <2>2
  <2>3. CASE left = <<>>
    <3>1. left \in Seq(Int) /\ DOMAIN left = {}
      BY <2>3
    <3>. QED BY <2>1, <3>1
  <2>4. CASE left = <<TornBlock>>
    <3>1. left \in Seq(Int) /\ \A k \in DOMAIN left : left[k] < 1
      BY <2>4 DEF TornBlock
    <3>. QED BY <2>1, <3>1
  <2>. QED BY <2>1, <2>2, <2>3, <2>4
<1>. QED BY <1>2, <1>3, <1>4

\* A block that is appended, and what a write that failed leaves, hold no resource back
\* that is flagged: the one appended has passed the gate.
LEMMA AppendKeeps ==
  ASSUME IInv, stage = "Emit", ~flagged(next), mapped[next].target_type \in Template,
         AppendBlock(next), next' = next + 1, UNCHANGED <<mapped, gaps, gated>>
  PROVE  IInv'
<1>. DEFINE t == mapped[next].target_type
<1>1. t \in ResourceType /\ next \in Nat \ {0} /\ files \in [ResourceType -> Seq(Int)]
  BY MigrateConstants DEF IInv, FilesTyped
<1>2. stage' = stage
  BY DEF AppendBlock
<1>3. PICK new \in Seq(Int) :
        /\ files' = [files EXCEPT ![t] = new]
        /\ \A k \in DOMAIN new :
             new[k] < 1 \/ new[k] = next \/ \E j \in DOMAIN files[t] : new[k] = files[t][j]
  BY <1>1, AppendShape DEF IInv
<1>4. files' \in [ResourceType -> Seq(Int)]
  BY <1>1, <1>3
<1>5. ASSUME gated, NEW u \in ResourceType, NEW k \in DOMAIN files'[u], files'[u][k] >= 1
      PROVE  ~flagged(files'[u][k])
  <2>1. CASE u = t
    <3>1. \/ new[k] < 1 \/ new[k] = next
          \/ \E j \in DOMAIN files[t] : new[k] = files[t][j]
      BY <1>1, <1>3, <1>5, <2>1
    <3>2. files'[u] = new /\ new[k] \in Int
      BY <1>1, <1>3, <1>5, <2>1
    <3>. QED BY <1>1, <1>5, <3>1, <3>2 DEF IInv, GapsHeldBack
  <2>2. CASE u # t
    BY <1>1, <1>3, <1>5, <2>2 DEF IInv, GapsHeldBack
  <2>. QED BY <2>1, <2>2
<1>6. GapsHeldBack'
  <2>1. \A i : flagged(i)' <=> flagged(i)
    BY DEF flagged
  <2>. QED BY <1>5, <2>1 DEF IInv, GapsHeldBack, addr_of_validation_error, flagged
<1>. QED BY <1>1, <1>2, <1>4, <1>6 DEF IInv, FilesTyped, BeforeEmission

\* Every step of the pipeline keeps the inductive invariant.
LEMMA StepIInv == IInv /\ [Next]_vars => IInv'
<1>. SUFFICES ASSUME IInv, [Next]_vars PROVE IInv'
  OBVIOUS
<1>. USE DEF Enter, End, output_vars
<1>. DEFINE Early == {"Scan", "Map", "ListVersions", "Validate", "Recover", "Revalidate"}
<1>1. stage \in Early => ~gated
  BY DEF IInv, BeforeEmission
<1>2. CASE Scan
  BY <1>1, <1>2, EarlyStageKeeps DEF Scan
<1>3. CASE Map
  BY <1>1, <1>3, EarlyStageKeeps DEF Map
<1>4. CASE ListVersions
  BY <1>1, <1>4, EarlyStageKeeps DEF ListVersions
<1>5. CASE Validate
  BY <1>1, <1>5, EarlyStageKeeps DEF Validate
<1>6. CASE Recover
  BY <1>1, <1>6, EarlyStageKeeps DEF Recover
<1>7. CASE RecoveryReturns
  BY <1>1, <1>7, EarlyStageKeeps DEF RecoveryReturns
<1>8. CASE Revalidate
  <2>1. CASE gated' = gated
    BY <1>1, <1>8, <2>1, EarlyStageKeeps DEF Revalidate
  <2>2. CASE gaps' = {addr_of_validation_error(e) : e \in validation_errors(mapped)}
    <3>1. \A t \in ResourceType : \A k \in DOMAIN files[t] : files[t][k] = 0
      BY <1>8 DEF Revalidate, IInv, BeforeEmission, UserBlock
    <3>2. stage' = "Output" /\ UNCHANGED <<mapped, next, files>>
      BY <1>8 DEF Revalidate
    <3>3. gaps' = {addr_of_validation_error(e) : e \in validation_errors(mapped)}'
      BY <2>2, <3>2 DEF addr_of_validation_error
    <3>. QED BY <3>1, <3>2, <3>3
             DEF IInv, FilesTyped, BeforeEmission, GapsHeldBack, UserBlock
  <2>. QED BY <1>8, <2>1, <2>2 DEF Revalidate
<1>9. CASE Output
  BY <1>9, LateStageKeeps DEF Output, IInv, FilesTyped
<1>10. CASE Emit
  <2>1. /\ stage = "Emit" /\ next' = next + 1 /\ next' \in Nat \ {0}
        /\ UNCHANGED <<mapped, gaps, gated>>
    BY <1>10 DEF Emit, IInv, FilesTyped
  <2>2. CASE files' = files /\ stage' \in {"Emit", "Done"}
    BY <2>1, <2>2, LateStageKeeps
  <2>3. CASE /\ ~flagged(next) /\ mapped[next].target_type \in Template
             /\ AppendBlock(next)
    BY <2>1, <2>3, AppendKeeps
  <2>. QED BY <1>10, <2>1, <2>2, <2>3 DEF Emit, Skip, GeneratedUnread
<1>11. CASE EmitDone
  BY <1>11, LateStageKeeps DEF EmitDone, IInv, FilesTyped
<1>12. CASE UNCHANGED vars
  BY <1>12 DEF vars, IInv, FilesTyped, BeforeEmission, GapsHeldBack, flagged,
               addr_of_validation_error
<1>. QED BY <1>2, <1>3, <1>4, <1>5, <1>6, <1>7, <1>8, <1>9, <1>10, <1>11, <1>12 DEF Next

\* Behind a last validation that was made, `migrate` writes no block of a resource that
\* has a finding, however the agent edited the plan and whichever resources share an
\* address: the gate is looked up in the plan that was validated, which is emitted.
THEOREM GapsReachNoFile == Spec => []NoGapEmitted
<1>1. IInv => NoGapEmitted
  <2>. SUFFICES ASSUME IInv, gated, NEW e \in validation_errors(mapped), e.resource \in Emitted
                PROVE  FALSE
    BY DEF NoGapEmitted
  <2>1. e.resource \in 1 .. next - 1 /\ e.resource >= 1
    BY DEF Emitted, IInv, FilesTyped
  <2>2. mapped[e.resource].target_addr \in gaps
    BY DEF IInv, GapsHeldBack, addr_of_validation_error
  <2>3. PICK t \in ResourceType : \E k \in DOMAIN files[t] : files[t][k] = e.resource
    BY DEF Emitted
  <2>. QED BY <2>1, <2>2, <2>3 DEF IInv, GapsHeldBack, flagged
<1>. QED BY InitIInv, StepIInv, <1>1, PTL DEF Spec

----------------------------------------------------------------------------
(* What is written and what is told of it *)

\* One file, block by block: what was there, then resources of the type the loop has
\* passed, each once.
Merged(t) ==
  LET old == before_files[t]  new == files[t] IN
  /\ Len(old) <= Len(new)
  /\ \A k \in 1 .. Len(old) : new[k] = old[k]
  /\ \A k \in Len(old) + 1 .. Len(new) :
       /\ new[k] \in 1 .. next - 1 /\ mapped[new[k]].target_type = t
       /\ \A j \in Len(old) + 1 .. k - 1 : new[j] # new[k]

\* What the summary says of a resource the loop has passed.
Accounted(i) ==
  /\ i \notin skipped \/ i \notin Emitted
  /\ \/ i \in skipped
     \/ i \in Emitted /\ mapped[i].target_type \in listed
     \/ mapped[i].target_type \in io_failed

\* A block of a resource stands in the file of its type, and of none that is still to come.
BlocksPassed ==
  \A t \in ResourceType : \A k \in DOMAIN files[t] :
    /\ files[t][k] < next
    /\ files[t][k] >= 1 => mapped[files[t][k]].target_type = t

\* Ahead of the loop the output is as it was found.
OutputInv ==
  /\ before_files \in [ResourceType -> Seq(Int)]
  /\ io_failed \subseteq ResourceType
  /\ skipped \subseteq 1 .. next - 1
  /\ BlocksPassed
  /\ stage \notin {"Emit", "Done"} => next = 1 /\ files = before_files
  /\ \A t \in ResourceType \ io_failed : Merged(t)
  /\ stage = "Emit" \/ ended = "Ok" => \A i \in 1 .. next - 1 : Accounted(i)

\* The initial state satisfies it.
LEMMA InitOutput == Init => OutputInv
<1>. SUFFICES ASSUME Init PROVE OutputInv
  OBVIOUS
<1>1. IInv
  BY InitIInv
<1>2. /\ next = 1 /\ skipped = {} /\ io_failed = {} /\ stage = "Scan" /\ before_files = files
      /\ \A t \in ResourceType : \A k \in DOMAIN files[t] : files[t][k] = 0
  BY <1>1 DEF Init, IInv, BeforeEmission, UserBlock
<1>3. \A t \in ResourceType : files[t] \in Seq(Int)
  BY <1>1 DEF IInv, FilesTyped
<1>4. \A t \in ResourceType : Merged(t)
  BY <1>2, <1>3 DEF Merged
<1>5. before_files \in [ResourceType -> Seq(Int)]
  BY <1>1, <1>2 DEF IInv, FilesTyped
<1>6. skipped \subseteq 1 .. next - 1 /\ io_failed \subseteq ResourceType
  BY <1>2
<1>7. BlocksPassed
  BY <1>2 DEF BlocksPassed
<1>. QED BY <1>2, <1>4, <1>5, <1>6, <1>7 DEF OutputInv

\* Ahead of the loop nothing of the output changes, whatever becomes of the plan.
LEMMA EarlyKeepsOutput ==
  ASSUME IInv, OutputInv, UNCHANGED <<next, files, skipped, io_failed, before_files>>,
         stage \notin {"Emit", "Done"}
  PROVE  OutputInv'
<1>1. next = 1 /\ files = before_files
  BY DEF OutputInv
<1>2. \A t \in ResourceType : files[t] \in Seq(Int)
  BY DEF IInv, FilesTyped
<1>3. \A t \in ResourceType : Merged(t)'
  BY <1>1, <1>2 DEF Merged
<1>4. BlocksPassed'
  <2>1. \A t \in ResourceType : \A k \in DOMAIN files[t] : files[t][k] \in Int /\ files[t][k] < 1
    BY <1>1, <1>2 DEF OutputInv, BlocksPassed
  <2>. QED BY <1>1, <2>1 DEF BlocksPassed
<1>. QED BY <1>1, <1>3, <1>4 DEF OutputInv

\* Merging behind what a file holds: the new block is the last of its type so far.
LEMMA AppendKeepsMerged ==
  ASSUME IInv, OutputInv, UNCHANGED <<mapped, before_files>>, next' = next + 1,
         NEW t \in ResourceType, t = mapped[next].target_type,
         files' = [files EXCEPT ![t] = Append(files[t], next)],
         NEW u \in ResourceType, Merged(u)
  PROVE  Merged(u)'
<1>1. /\ next \in Nat \ {0} /\ files[u] \in Seq(Int) /\ files[t] \in Seq(Int)
      /\ before_files[u] \in Seq(Int)
      /\ files'[u] = IF u = t THEN Append(files[t], next) ELSE files[u]
  BY DEF IInv, FilesTyped, OutputInv
<1>2. Merged(u) /\ \A k \in DOMAIN files[u] : files[u][k] < next
  BY DEF OutputInv, BlocksPassed
<1>3. CASE u # t
  <2>1. files'[u] = files[u] /\ 1 .. next - 1 \subseteq 1 .. next' - 1
    BY <1>1, <1>3
  <2>. QED BY <1>2, <2>1 DEF Merged
<1>4. CASE u = t
  <2>. DEFINE old == before_files[u]  was == files[u]  new == files'[u]
  <2>1. /\ old \in Seq(Int) /\ was \in Seq(Int) /\ new = Append(was, next)
        /\ Len(new) = Len(was) + 1 /\ new[Len(was) + 1] = next
        /\ \A k \in 1 .. Len(was) : new[k] = was[k]
        /\ Len(old) \in Nat /\ Len(was) \in Nat
    BY <1>1, <1>4
  <2>2. /\ Len(old) <= Len(was)
        /\ \A k \in 1 .. Len(old) : was[k] = old[k]
        /\ \A k \in Len(old) + 1 .. Len(was) :
             /\ was[k] \in 1 .. next - 1 /\ mapped[was[k]].target_type = u
             /\ \A j \in Len(old) + 1 .. k - 1 : was[j] # was[k]
        /\ \A k \in 1 .. Len(was) : was[k] < next
    BY <1>1, <1>2 DEF Merged
  <2>. HIDE DEF old, was, new
  <2>3. Len(old) <= Len(new) /\ \A k \in 1 .. Len(old) : new[k] = old[k]
    BY <2>1, <2>2
  <2>4. ASSUME NEW k \in Len(old) + 1 .. Len(new)
        PROVE  /\ new[k] \in 1 .. next /\ mapped[new[k]].target_type = u
               /\ \A j \in Len(old) + 1 .. k - 1 : new[j] # new[k]
    <3>1. ASSUME NEW j \in Len(old) + 1 .. k - 1
          PROVE  j \in 1 .. Len(was) /\ new[j] = was[j] /\ was[j] < next /\ was[j] \in Int
      BY <2>1, <2>2, <2>4
    <3>2. CASE k \in 1 .. Len(was)
      <4>1. new[k] = was[k]
        BY <2>1, <3>2
      <4>2. k \in Len(old) + 1 .. Len(was)
        BY <2>1, <2>4, <3>2
      <4>3. /\ was[k] \in 1 .. next - 1 /\ mapped[was[k]].target_type = u
            /\ \A j \in Len(old) + 1 .. k - 1 : was[j] # was[k]
        BY <2>2, <4>2
      <4>4. new[k] \in 1 .. next
        BY <1>1, <4>1, <4>3
      <4>5. \A j \in Len(old) + 1 .. k - 1 : new[j] # new[k]
        BY <3>1, <4>1, <4>3
      <4>. QED BY <4>1, <4>3, <4>4, <4>5
    <3>3. CASE k = Len(was) + 1
      <4>1. new[k] = next
        BY <2>1, <3>3
      <4>2. \A j \in Len(old) + 1 .. k - 1 : new[j] # next
        BY <1>1, <3>1
      <4>. QED BY <1>1, <1>4, <4>1, <4>2
    <3>. QED BY <2>1, <2>4, <3>2, <3>3
  <2>5. next' - 1 = next
    BY <1>1
  <2>. QED BY <2>3, <2>4, <2>5 DEF Merged, old, new
<1>. QED BY <1>3, <1>4

\* A block that is appended stands in the file of its type.
LEMMA AppendKeepsPassed ==
  ASSUME IInv, BlocksPassed, UNCHANGED mapped, next' = next + 1,
         NEW t \in ResourceType, t = mapped[next].target_type, AppendBlock(next)
  PROVE  BlocksPassed'
<1>1. next \in Nat \ {0} /\ files \in [ResourceType -> Seq(Int)]
  BY DEF IInv, FilesTyped
<1>2. PICK new \in Seq(Int) :
        /\ files' = [files EXCEPT ![t] = new]
        /\ \A k \in DOMAIN new :
             new[k] < 1 \/ new[k] = next \/ \E j \in DOMAIN files[t] : new[k] = files[t][j]
  BY AppendShape DEF IInv
<1>3. ASSUME NEW u \in ResourceType, NEW k \in DOMAIN files'[u]
      PROVE  /\ files'[u][k] < next'
             /\ files'[u][k] >= 1 => mapped'[files'[u][k]].target_type = u
  <2>1. \A j \in DOMAIN files[u] :
          /\ files[u][j] < next /\ files[u][j] \in Int
          /\ files[u][j] >= 1 => mapped[files[u][j]].target_type = u
    BY <1>1 DEF BlocksPassed
  <2>2. CASE u = t
    <3>1. files'[u] = new /\ k \in DOMAIN new /\ new[k] \in Int
      BY <1>1, <1>2, <1>3, <2>2
    <3>2. new[k] < 1 \/ new[k] = next \/ \E j \in DOMAIN files[u] : new[k] = files[u][j]
      BY <1>2, <2>2, <3>1
    <3>3. new[k] < next + 1
      BY <1>1, <2>1, <3>1, <3>2
    <3>4. new[k] >= 1 => mapped[new[k]].target_type = u
      BY <2>1, <2>2, <3>1, <3>2
    <3>. QED BY <3>1, <3>3, <3>4
  <2>3. CASE u # t
    <3>1. files'[u] = files[u]
      BY <1>1, <1>2, <2>3
    <3>. QED BY <1>1, <1>3, <2>1, <3>1
  <2>. QED BY <2>2, <2>3
<1>. QED BY <1>3 DEF BlocksPassed

\* What is said of a resource stays true while another is appended, or fails to be.
LEMMA AppendKeepsAccounts ==
  ASSUME IInv, OutputInv, BlocksPassed', UNCHANGED mapped, next' = next + 1, stage = "Emit",
         NEW t \in ResourceType, t = mapped[next].target_type, AppendBlock(next),
         NEW i \in 1 .. next
  PROVE  Accounted(i)'
<1>1. /\ next \in Nat \ {0} /\ files \in [ResourceType -> Seq(Int)]
      /\ skipped \subseteq 1 .. next - 1
      /\ i \in 1 .. next - 1 => Accounted(i)
  BY DEF IInv, FilesTyped, OutputInv
<1>2. skipped' = skipped /\ listed' = listed \cup {t}
  BY DEF AppendBlock
<1>3. PICK new \in Seq(Int) :
        /\ files' = [files EXCEPT ![t] = new]
        /\ \A k \in DOMAIN new :
             new[k] < 1 \/ new[k] = next \/ \E j \in DOMAIN files[t] : new[k] = files[t][j]
  BY AppendShape DEF IInv
<1>4. files' \in [ResourceType -> Seq(Int)]
  BY <1>1, <1>3
<1>5. i \in skipped' => i \notin Emitted'
  <2>. SUFFICES ASSUME i \in skipped, NEW u \in ResourceType, NEW k \in DOMAIN files'[u],
                       files'[u][k] = i
                PROVE  FALSE
    BY <1>2 DEF Emitted
  <2>1. i \in 1 .. next - 1 /\ i \notin Emitted /\ i >= 1 /\ i # next
    BY <1>1 DEF Accounted
  <2>2. \A v \in ResourceType : \A j \in DOMAIN files[v] : files[v][j] # i
    BY <2>1 DEF Emitted
  <2>3. CASE u = t
    <3>1. files'[u] = new /\ k \in DOMAIN new
      BY <1>1, <1>3, <2>3
    <3>. QED BY <1>3, <2>1, <2>2, <3>1
  <2>4. CASE u # t
    BY <1>1, <1>3, <2>2, <2>4
  <2>. QED BY <2>3, <2>4
<1>6. CASE t \in io_failed'
  <2>1. io_failed \subseteq io_failed'
    BY DEF AppendBlock
  <2>2. CASE mapped[i].target_type = t
    BY <1>5, <1>6, <2>2 DEF Accounted
  <2>3. CASE mapped[i].target_type # t
    <3>1. i \in 1 .. next - 1 /\ Accounted(i) /\ next' - 1 = next
      BY <1>1, <2>3
    <3>2. i \in Emitted => i \in Emitted'
      <4>. SUFFICES ASSUME i \in Emitted PROVE i \in Emitted'
        OBVIOUS
      <4>1. PICK u \in ResourceType : \E k \in DOMAIN files[u] : files[u][k] = i
        BY DEF Emitted
      <4>2. mapped[i].target_type = u
        <5>1. PICK k \in DOMAIN files[u] : files[u][k] = i
          BY <4>1
        <5>2. files[u][k] >= 1
          BY <3>1, <5>1
        <5>3. files[u][k] >= 1 => mapped[files[u][k]].target_type = u
          BY DEF OutputInv, BlocksPassed
        <5>. QED BY <5>1, <5>2, <5>3
      <4>3. files'[u] = files[u]
        BY <1>1, <1>3, <2>3, <4>2
      <4>. QED BY <1>1, <3>1, <4>1, <4>3 DEF Emitted
    <3>. QED BY <1>2, <1>5, <2>1, <3>1, <3>2 DEF Accounted
  <2>. QED BY <2>2, <2>3
<1>7. CASE t \notin io_failed'
  <2>1. io_failed' = io_failed /\ files' = [files EXCEPT ![t] = Append(files[t], next)]
    BY <1>7 DEF AppendBlock, combined
  <2>2. /\ DOMAIN Append(files[t], next) = DOMAIN files[t] \cup {Len(files[t]) + 1}
        /\ Append(files[t], next)[Len(files[t]) + 1] = next
        /\ \A k \in DOMAIN files[t] : Append(files[t], next)[k] = files[t][k]
    <3>1. \A s \in Seq(Int) :
              /\ DOMAIN Append(s, next) = DOMAIN s \cup {Len(s) + 1}
              /\ Append(s, next)[Len(s) + 1] = next
              /\ \A k \in DOMAIN s : Append(s, next)[k] = s[k]
      BY <1>1
    <3>. QED BY <1>1, <3>1
  <2>3. /\ files'[t] = Append(files[t], next)
        /\ \A u \in ResourceType : u # t => files'[u] = files[u]
    BY <1>1, <2>1
  <2>4. \A u \in ResourceType : \A k \in DOMAIN files[u] :
          k \in DOMAIN files'[u] /\ files'[u][k] = files[u][k]
    BY <2>2, <2>3
  <2>5. CASE i = next
    <3>1. i \in Emitted'
      <4>1. \E k \in DOMAIN files'[t] : files'[t][k] = i
        BY <2>2, <2>3, <2>5
      <4>2. i \in 1 .. next' - 1
        BY <1>1
      <4>. QED BY <4>1, <4>2 DEF Emitted
    <3>2. mapped'[i].target_type \in listed'
      BY <1>2, <2>5
    <3>. QED BY <1>5, <3>1, <3>2 DEF Accounted
  <2>6. CASE i # next
    <3>1. i \in 1 .. next - 1 /\ i \in 1 .. next' - 1 /\ Accounted(i)
      BY <1>1, <2>6
    <3>2. i \in Emitted => i \in Emitted'
      BY <2>4, <3>1 DEF Emitted
    <3>. QED BY <1>2, <1>5, <2>1, <3>1, <3>2 DEF Accounted
  <2>. QED BY <2>5, <2>6
<1>. QED BY <1>6, <1>7

\* Every step of the loop keeps it.
LEMMA EmitKeepsOutput == ASSUME IInv, OutputInv, Emit PROVE OutputInv'
<1>1. /\ stage = "Emit" /\ next \in Nat \ {0} /\ next' = next + 1
      /\ files \in [ResourceType -> Seq(Int)]
      /\ UNCHANGED <<mapped, before_files>>
  BY DEF Emit, IInv, FilesTyped
<1>2. next \notin Emitted /\ next \notin skipped
      /\ \A t \in ResourceType : \A k \in DOMAIN files[t] : files[t][k] # next
  <2>1. \A t \in ResourceType : \A k \in DOMAIN files[t] : files[t][k] < next /\ files[t][k] \in Int
    BY <1>1 DEF OutputInv, BlocksPassed
  <2>. QED BY <1>1, <2>1 DEF OutputInv, Emitted
<1>3. CASE \/ Skip(next)
           \/ mapped[next].target_type \in Template /\ GeneratedUnread(next)
           \/ End("Err") /\ UNCHANGED <<files, listed, skipped, io_failed>>
  <2>. files' = files
    BY <1>3 DEF Skip, GeneratedUnread
  <2>1. Emitted' = Emitted
    BY <1>1, <1>2 DEF Emitted
  <2>2. \A t \in ResourceType : \A k \in DOMAIN files[t] : files[t][k] \in Int
    BY <1>1
  <2>3. \A t \in ResourceType : Merged(t) => Merged(t)'
    BY <1>1 DEF Merged
  <2>4. BlocksPassed'
    BY <1>1, <2>2 DEF OutputInv, BlocksPassed
  <2>5. CASE mapped[next].target_type \in Template /\ GeneratedUnread(next)
    <3>1. /\ io_failed' = io_failed \cup {mapped[next].target_type}
          /\ UNCHANGED <<listed, skipped, stage, ended>>
      BY <2>5 DEF GeneratedUnread
    <3>2. io_failed' \subseteq ResourceType /\ io_failed \subseteq io_failed'
      BY <2>5, <3>1, MigrateConstants DEF OutputInv
    <3>3. ASSUME NEW i \in 1 .. next' - 1 PROVE Accounted(i)'
      <4>1. CASE i = next
        BY <1>1, <1>2, <2>1, <3>1, <4>1 DEF Accounted
      <4>2. CASE i \in 1 .. next - 1
        BY <1>1, <2>1, <3>1, <4>2 DEF Accounted, OutputInv
      <4>. QED BY <1>1, <3>3, <4>1, <4>2
    <3>4. \A t \in ResourceType \ io_failed' : Merged(t)'
      BY <2>3, <3>2 DEF OutputInv
    <3>5. skipped' \subseteq 1 .. next' - 1
      BY <1>1, <3>1 DEF OutputInv
    <3>. QED BY <1>1, <2>4, <3>1, <3>2, <3>3, <3>4, <3>5 DEF OutputInv
  <2>6. CASE Skip(next)
    <3>1. /\ skipped' = skipped \cup {next}
          /\ UNCHANGED <<listed, io_failed, stage, ended>>
      BY <2>6 DEF Skip
    <3>2. ASSUME NEW i \in 1 .. next' - 1 PROVE Accounted(i)'
      <4>1. CASE i = next
        BY <1>2, <2>1, <3>1, <4>1 DEF Accounted
      <4>2. CASE i \in 1 .. next - 1
        BY <1>1, <2>1, <3>1, <4>2 DEF Accounted, OutputInv
      <4>. QED BY <1>1, <3>2, <4>1, <4>2
    <3>3. \A t \in ResourceType \ io_failed' : Merged(t)'
      BY <2>3, <3>1 DEF OutputInv
    <3>4. skipped' \subseteq 1 .. next' - 1
      BY <1>1, <3>1 DEF OutputInv
    <3>. QED BY <1>1, <2>4, <3>1, <3>2, <3>3, <3>4 DEF OutputInv
  <2>7. CASE End("Err") /\ UNCHANGED <<files, listed, skipped, io_failed>>
    <3>1. skipped' \subseteq 1 .. next' - 1
      BY <1>1, <2>7 DEF OutputInv
    <3>. QED BY <1>1, <2>3, <2>4, <2>7, <3>1 DEF End, OutputInv
  <2>. QED BY <1>3, <2>5, <2>6, <2>7
<1>4. CASE mapped[next].target_type \in Template /\ AppendBlock(next)
  <2>. DEFINE t == mapped[next].target_type
  <2>1. t \in ResourceType
    BY <1>4, MigrateConstants
  <2>2. /\ stage' = stage /\ skipped' = skipped
        /\ io_failed' \subseteq ResourceType /\ io_failed \subseteq io_failed'
    BY <1>4, <2>1 DEF AppendBlock, OutputInv
  <2>3. BlocksPassed'
    BY <1>1, <1>4, <2>1, AppendKeepsPassed DEF OutputInv
  <2>4. ASSUME NEW u \in ResourceType \ io_failed' PROVE Merged(u)'
    <3>1. Merged(u)
      BY <2>2, <2>4 DEF OutputInv
    <3>2. CASE files' = [files EXCEPT ![t] = Append(files[t], next)]
      BY <1>1, <2>1, <3>1, <3>2, AppendKeepsMerged
    <3>3. CASE u # t
      <4>1. files'[u] = files[u]
        <5>1. PICK new \in Seq(Int) : files' = [files EXCEPT ![t] = new]
          BY <1>4, <2>1, AppendShape DEF IInv
        <5>. QED BY <1>1, <3>3, <5>1
      <4>2. 1 .. next - 1 \subseteq 1 .. next' - 1
        BY <1>1
      <4>. QED BY <1>1, <3>1, <4>1, <4>2 DEF Merged
    <3>4. u = t => files' = [files EXCEPT ![t] = Append(files[t], next)]
      BY <1>4, <2>4 DEF AppendBlock, combined
    <3>. QED BY <3>2, <3>3, <3>4
  <2>5. ASSUME NEW i \in 1 .. next' - 1 PROVE Accounted(i)'
    <3>1. i \in 1 .. next
      BY <1>1
    <3>. QED BY <1>1, <1>4, <2>1, <2>3, <3>1, AppendKeepsAccounts
  <2>6. skipped' \subseteq 1 .. next' - 1
    BY <1>1, <2>2 DEF OutputInv
  <2>. QED BY <1>1, <2>2, <2>3, <2>4, <2>5, <2>6 DEF OutputInv
<1>. QED BY <1>3, <1>4 DEF Emit

\* Every step of the pipeline keeps it.
LEMMA StepOutput == IInv /\ OutputInv /\ [Next]_vars => OutputInv'
<1>. SUFFICES ASSUME IInv, OutputInv, [Next]_vars PROVE OutputInv'
  OBVIOUS
<1>. USE DEF output_vars
<1>1. CASE \/ Scan \/ Map \/ ListVersions \/ Validate \/ Recover \/ RecoveryReturns
           \/ Revalidate \/ Output
  BY <1>1, EarlyKeepsOutput
     DEF Scan, Map, ListVersions, Validate, Recover, RecoveryReturns, Revalidate, Output
<1>2. CASE Emit
  BY <1>2, EmitKeepsOutput
<1>3. CASE EmitDone
  BY <1>3 DEF EmitDone, End, OutputInv, Merged, BlocksPassed, Accounted, Emitted
<1>4. CASE UNCHANGED vars
  BY <1>4 DEF vars, OutputInv, Merged, BlocksPassed, Accounted, Emitted
<1>. QED BY <1>1, <1>2, <1>3, <1>4 DEF Next

\* `migrate` leaves in each file that could always be read and written what it held, then
\* blocks of resources of its type, each once, wherever a run ends and whichever other
\* files fail.
THEOREM OutputIsMerged == Spec => []MergedWith
<1>1. ASSUME NEW old \in Seq(Int), NEW new \in Seq(Int), Len(old) <= Len(new),
             \A k \in 1 .. Len(old) : new[k] = old[k]
      PROVE  SubSeq(new, 1, Len(old)) = old
  BY <1>1
<1>2. IInv /\ OutputInv => MergedWith
  <2>. SUFFICES ASSUME IInv, OutputInv, NEW t \in ResourceType \ io_failed
                PROVE  LET old == before_files[t]  new == files[t] IN
                       /\ SubSeq(new, 1, Len(old)) = old
                       /\ \A k \in Len(old) + 1 .. Len(new) :
                            /\ new[k] \in {i \in 1 .. next - 1 : mapped[i].target_type = t}
                            /\ \A j \in Len(old) + 1 .. k - 1 : new[j] # new[k]
    BY DEF MergedWith
  <2>1. Merged(t) /\ before_files[t] \in Seq(Int) /\ files[t] \in Seq(Int)
    BY DEF OutputInv, IInv, FilesTyped
  <2>2. SubSeq(files[t], 1, Len(before_files[t])) = before_files[t]
    BY <1>1, <2>1 DEF Merged
  <2>. QED BY <2>1, <2>2 DEF Merged
<1>. QED BY InitIInv, StepIInv, InitOutput, StepOutput, <1>2, PTL DEF Spec

\* Each resource `migrate` has passed is skipped by its summary, or stands in a file the
\* summary lists, or is of a type of which a file failed; none that is skipped stands in
\* a file, whatever fails.
THEOREM SummaryTellsAll == Spec => []SummaryAccounts
<1>1. OutputInv => SummaryAccounts
  BY DEF OutputInv, Accounted, SummaryAccounts
<1>. QED BY InitIInv, StepIInv, InitOutput, StepOutput, <1>1, PTL DEF Spec

----------------------------------------------------------------------------
(* Plans that resources were taken out of *)

\* The least of some numbers.
LEMMA LeastOf ==
  ASSUME NEW S \in SUBSET Nat, S # {}
  PROVE  \E m \in S : \A k \in S : m <= k
<1>. DEFINE R == OpToRel(<, Nat)
<1>1. IsWellFoundedOn(R, Nat)
  BY NatLessThanWellFounded
<1>2. PICK m \in S : \A k \in S : ~(<<k, m>> \in R)
  <2>. HIDE DEF R
  <2>1. S \subseteq Nat /\ S # {}
    OBVIOUS
  <2>. QED BY <1>1, <2>1, WFMin
<1>3. R = {p \in Nat \X Nat : p[1] < p[2]}
  BY DEF OpToRel
<1>4. \A k \in S : k < m => <<k, m>> \in R
  <2>. HIDE DEF R
  <2>. QED BY <1>3
<1>. HIDE DEF R
<1>5. \A k \in S : ~(k < m) /\ k \in Nat /\ m \in Nat
  BY <1>2, <1>4
<1>6. \A k \in S : m <= k
  BY <1>5
<1>. QED BY <1>6

\* What holds of zero and goes on to the next holds of all.
LEMMA Inductive ==
  ASSUME NEW S, 0 \in S, \A n \in Nat : n \in S => n + 1 \in S
  PROVE  Nat \subseteq S
<1>. SUFFICES ASSUME Nat \ S # {} PROVE FALSE
  OBVIOUS
<1>1. PICK m \in Nat \ S : \A k \in Nat \ S : m <= k
  <2>1. Nat \ S \in SUBSET Nat
    OBVIOUS
  <2>. QED BY <2>1, LeastOf
<1>2. m - 1 \in Nat /\ m - 1 \in S
  BY <1>1
<1>. QED BY <1>1, <1>2

\* What u has filtered of the first elements of s.
Filters(u, s, S) ==
  /\ u[0] = <<>>
  /\ \A n \in 1 .. Len(s) : u[n] = IF s[n] \in S THEN Append(u[n - 1], s[n]) ELSE u[n - 1]

\* A sequence is filtered from its first element to its last.
LEMMA FilteredStepwise ==
  ASSUME NEW T, NEW s \in Seq(T), NEW S
  PROVE  \E u \in [0 .. Len(s) -> Seq(T)] : Filters(u, s, S) /\ Filtered(s, S) = u[Len(s)]
<1>. DEFINE On(t, n) == IF s[n] \in S THEN Append(t, s[n]) ELSE t
            Upto(n, u) == /\ u[0] = <<>> /\ \A k \in 1 .. n : u[k] = On(u[k - 1], k)
            Z == {n \in Nat : n <= Len(s) => \E u \in [0 .. n -> Seq(T)] : Upto(n, u)}
            Steps(u) == u = [n \in 0 .. Len(s) |-> IF n = 0 THEN <<>> ELSE On(u[n - 1], n)]
<1>1. ASSUME NEW n \in 1 .. Len(s), NEW t \in Seq(T) PROVE On(t, n) \in Seq(T)
  OBVIOUS
<1>2. Nat \subseteq Z
  <2>1. 0 \in Z
    <3>1. [k \in 0 .. 0 |-> <<>>] \in [0 .. 0 -> Seq(T)] /\ Upto(0, [k \in 0 .. 0 |-> <<>>])
      OBVIOUS
    <3>. QED BY <3>1
  <2>2. ASSUME NEW n \in Nat, n \in Z, n + 1 <= Len(s)
        PROVE  \E u \in [0 .. n + 1 -> Seq(T)] : Upto(n + 1, u)
    <3>1. PICK u \in [0 .. n -> Seq(T)] : Upto(n, u)
      <4>1. Len(s) \in Nat /\ n <= Len(s)
        BY <2>2
      <4>. HIDE DEF Upto
      <4>. QED BY <2>2, <4>1
    <3>. DEFINE v == [k \in 0 .. n + 1 |-> IF k = n + 1 THEN On(u[n], n + 1) ELSE u[k]]
    <3>2. v \in [0 .. n + 1 -> Seq(T)]
      <4>1. n + 1 \in 1 .. Len(s) /\ u[n] \in Seq(T)
        BY <2>2
      <4>2. On(u[n], n + 1) \in Seq(T)
        BY <1>1, <4>1
      <4>. HIDE DEF On
      <4>. QED BY <4>2
    <3>3. Upto(n + 1, v)
      <4>. HIDE DEF On
      <4>1. n \in 0 .. n + 1 /\ n # n + 1 /\ 0 # n + 1 /\ 0 \in 0 .. n + 1
        BY <2>2
      <4>2. v[0] = u[0] /\ v[n] = u[n] /\ v[n + 1] = On(u[n], n + 1)
        BY <4>1
      <4>3. ASSUME NEW k \in 1 .. n PROVE v[k] = u[k] /\ v[k - 1] = u[k - 1]
        <5>1. k \in 0 .. n + 1 /\ k - 1 \in 0 .. n + 1 /\ k # n + 1 /\ k - 1 # n + 1
          BY <2>2
        <5>. QED BY <5>1
      <4>. HIDE DEF v
      <4>4. ASSUME NEW k \in 1 .. n + 1 PROVE v[k] = On(v[k - 1], k)
        <5>1. CASE k \in 1 .. n
          BY <3>1, <4>3, <5>1
        <5>2. CASE k = n + 1
          <6>1. k - 1 = n
            BY <5>2
          <6>. QED BY <4>2, <5>2, <6>1
        <5>. QED BY <5>1, <5>2
      <4>5. v[0] = <<>>
        BY <3>1, <4>2
      <4>. QED BY <4>4, <4>5
    <3>. HIDE DEF v, Upto
    <3>. QED BY <3>2, <3>3
  <2>3. \A n \in Nat : n \in Z => n + 1 \in Z
    <3>. HIDE DEF Upto
    <3>. QED BY <2>2
  <2>. HIDE DEF Z
  <2>. QED BY <2>1, <2>3, Inductive
<1>3. PICK f \in [0 .. Len(s) -> Seq(T)] : Upto(Len(s), f)
  <2>. HIDE DEF Upto
  <2>. QED BY <1>2
<1>4. Steps(f)
  <2>. HIDE DEF On
  <2>1. \A n \in 0 .. Len(s) : f[n] = IF n = 0 THEN <<>> ELSE On(f[n - 1], n)
    BY <1>3
  <2>. QED BY <1>3, <2>1
<1>. DEFINE h == CHOOSE u : Steps(u)
<1>5. Steps(h)
  <2>. HIDE DEF Steps
  <2>. QED BY <1>4
<1>6. Filtered(s, S) = h[Len(s)]
  BY DEF Filtered
<1>. HIDE DEF h
<1>7. PICK w : w = h
  OBVIOUS
<1>8. Steps(w)
  <2>. HIDE DEF Steps
  <2>. QED BY <1>5, <1>7
<1>9. Upto(Len(s), w) /\ w = [n \in 0 .. Len(s) |-> w[n]]
  <2>. HIDE DEF On
  <2>1. w[0] = <<>>
    BY <1>8
  <2>2. \A n \in 1 .. Len(s) : w[n] = On(w[n - 1], n)
    BY <1>8
  <2>3. w = [n \in 0 .. Len(s) |-> w[n]]
    BY <1>8
  <2>. QED BY <2>1, <2>2, <2>3
<1>. HIDE DEF Steps
<1>. DEFINE Y == {n \in Nat : n <= Len(s) => w[n] \in Seq(T)}
<1>10. Nat \subseteq Y
  <2>1. 0 \in Y
    <3>. HIDE DEF On
    <3>1. w[0] = <<>> /\ <<>> \in Seq(T)
      BY <1>9
    <3>. QED BY <3>1
  <2>2. ASSUME NEW n \in Nat, n \in Y, n + 1 <= Len(s) PROVE w[n + 1] \in Seq(T)
    <3>1. Len(s) \in Nat /\ n + 1 \in 1 .. Len(s) /\ (n + 1) - 1 = n
      BY <2>2
    <3>2. w[n] \in Seq(T)
      BY <2>2, <3>1
    <3>. HIDE DEF On
    <3>3. w[n + 1] = On(w[n], n + 1)
      BY <1>9, <3>1
    <3>. QED BY <1>1, <3>1, <3>2, <3>3
  <2>3. \A n \in Nat : n \in Y => n + 1 \in Y
    BY <2>2
  <2>. HIDE DEF Y
  <2>. QED BY <2>1, <2>3, Inductive
<1>11. w \in [0 .. Len(s) -> Seq(T)]
  BY <1>9, <1>10
<1>12. Filters(w, s, S)
  BY <1>9 DEF Filters
<1>. QED BY <1>6, <1>7, <1>11, <1>12

\* What is filtered are elements of the sequence that are in the set, all of them.
LEMMA FilteredElements ==
  ASSUME NEW T, NEW s \in Seq(T), NEW S
  PROVE  /\ Filtered(s, S) \in Seq(T)
         /\ \A x : (\E k \in 1 .. Len(Filtered(s, S)) : Filtered(s, S)[k] = x)
                     <=> x \in S /\ \E i \in 1 .. Len(s) : s[i] = x
<1>1. PICK u \in [0 .. Len(s) -> Seq(T)] : Filters(u, s, S) /\ Filtered(s, S) = u[Len(s)]
  BY FilteredStepwise
<1>. DEFINE Within(t, x) == \E k \in 1 .. Len(t) : t[k] = x
            Until(n, x) == \E i \in 1 .. n : s[i] = x
            Z == {n \in Nat : n <= Len(s) => \A x : Within(u[n], x) <=> x \in S /\ Until(n, x)}
<1>2. 0 \in Z
  BY <1>1 DEF Filters
<1>3. ASSUME NEW n \in Nat, n \in Z, n + 1 <= Len(s), NEW x
      PROVE  Within(u[n + 1], x) <=> x \in S /\ Until(n + 1, x)
  <2>1. Len(s) \in Nat /\ n + 1 \in 1 .. Len(s) /\ (n + 1) - 1 = n /\ n \in 0 .. Len(s)
    BY <1>3
  <2>2. u[n + 1] = IF s[n + 1] \in S THEN Append(u[n], s[n + 1]) ELSE u[n]
    BY <1>1, <2>1 DEF Filters
  <2>3. u[n] \in Seq(T) /\ s[n + 1] \in T
    BY <2>1
  <2>4. Within(u[n], x) <=> x \in S /\ Until(n, x)
    BY <1>3, <2>1
  <2>5. Until(n + 1, x) <=> Until(n, x) \/ s[n + 1] = x
    <3>1. \A i \in 1 .. n + 1 : i \in 1 .. n \/ i = n + 1
      OBVIOUS
    <3>2. \A i \in 1 .. n : i \in 1 .. n + 1
      OBVIOUS
    <3>. QED BY <2>1, <3>1, <3>2
  <2>6. ASSUME NEW t \in Seq(T), NEW y \in T PROVE Within(Append(t, y), x) <=> Within(t, x) \/ y = x
    <3>1. Len(Append(t, y)) = Len(t) + 1 /\ Append(t, y)[Len(t) + 1] = y /\ Len(t) \in Nat
      OBVIOUS
    <3>2. \A k \in 1 .. Len(t) : Append(t, y)[k] = t[k]
      OBVIOUS
    <3>3. \A k \in 1 .. Len(t) + 1 : k \in 1 .. Len(t) \/ k = Len(t) + 1
      BY <3>1
    <3>4. \A k \in 1 .. Len(t) : k \in 1 .. Len(t) + 1
      BY <3>1
    <3>5. Len(t) + 1 \in 1 .. Len(t) + 1
      BY <3>1
    <3>. QED BY <3>1, <3>2, <3>3, <3>4, <3>5
  <2>7. Within(Append(u[n], s[n + 1]), x) <=> Within(u[n], x) \/ s[n + 1] = x
    <3>. HIDE DEF Within
    <3>. QED BY <2>3, <2>6
  <2>. HIDE DEF Within, Until, Z
  <2>. QED BY <2>2, <2>4, <2>5, <2>7
<1>4. Nat \subseteq Z
  <2>1. \A n \in Nat : n \in Z => n + 1 \in Z
    <3>. HIDE DEF Within, Until
    <3>. QED BY <1>3
  <2>. HIDE DEF Z
  <2>. QED BY <1>2, <2>1, Inductive
<1>5. \A x : Within(u[Len(s)], x) <=> x \in S /\ Until(Len(s), x)
  <2>. HIDE DEF Within, Until
  <2>. QED BY <1>4
<1>6. u[Len(s)] \in Seq(T)
  OBVIOUS
<1>. QED BY <1>1, <1>5, <1>6

----------------------------------------------------------------------------
(* The plan that Recovery edits *)

\* Whatever an edit makes of a plan is a plan.
LEMMA EditedIsPlan ==
  ASSUME NEW p \in Seq(MappedResource), NEW call \in FixCall
  PROVE  Recovery!execute(p, call).plan \in Seq(MappedResource)
<1>. DEFINE At(a) == CHOOSE i \in Recovery!resource_at(p, a) : TRUE
<1>1. ASSUME NEW a, Recovery!resource_at(p, a) # {}
      PROVE  At(a) \in DOMAIN p /\ p[At(a)] \in MappedResource
  <2>1. At(a) \in Recovery!resource_at(p, a)
    BY <1>1
  <2>2. Recovery!resource_at(p, a) \subseteq DOMAIN p
    BY DEF Recovery!resource_at
  <2>. HIDE DEF At
  <2>. QED BY <2>1, <2>2
<1>2. CASE call \in [tool : {"set_attribute"}, addr : Addr, attr : Attribute, value : Value]
  <2>1. Recovery!execute(p, call) = Recovery!apply_set_attribute(p, call.addr, call.attr, call.value)
    BY <1>2 DEF Recovery!execute
  <2>2. CASE Recovery!resource_at(p, call.addr) = {}
    BY <2>1, <2>2 DEF Recovery!apply_set_attribute, Recovery!Unedited
  <2>3. CASE Recovery!resource_at(p, call.addr) # {}
    <3>. DEFINE i == At(call.addr)
                new == Recovery!with_attribute(p[i].attributes, call.attr, call.value)
    <3>1. Recovery!execute(p, call).plan = [p EXCEPT ![i].attributes = new]
      BY <2>1, <2>3 DEF Recovery!apply_set_attribute, Recovery!Edited
    <3>2. i \in DOMAIN p /\ p[i] \in MappedResource
      BY <1>1, <2>3
    <3>3. call.attr \in Attribute /\ call.value \in Value
      BY <1>2
    <3>. HIDE DEF i
    <3>4. PICK S \in SUBSET Attribute : p[i].attributes \in [S -> Value]
      BY <3>2 DEF MappedResource, Attributes
    <3>5. new \in [S \cup {call.attr} -> Value]
      BY <3>3, <3>4 DEF Recovery!with_attribute
    <3>6. S \cup {call.attr} \in SUBSET Attribute
      BY <3>3
    <3>7. new \in Attributes
      <4>. HIDE DEF new
      <4>. QED BY <3>5, <3>6 DEF Attributes
    <3>8. [p[i] EXCEPT !.attributes = new] \in MappedResource
      BY <3>2, <3>7 DEF MappedResource
    <3>. HIDE DEF new
    <3>. QED BY <3>1, <3>2, <3>8
  <2>. QED BY <2>2, <2>3
<1>3. CASE call \in [tool : {"change_target_type"}, addr : Addr, new_type : ResourceType]
  <2>1. Recovery!execute(p, call) = Recovery!apply_change_target_type(p, call.addr, call.new_type)
    BY <1>3 DEF Recovery!execute
  <2>2. CASE Recovery!resource_at(p, call.addr) = {}
    BY <2>1, <2>2 DEF Recovery!apply_change_target_type, Recovery!Unedited
  <2>3. CASE Recovery!resource_at(p, call.addr) # {}
    <3>. DEFINE i == At(call.addr)
                t == call.new_type
    <3>1. Recovery!execute(p, call).plan =
            [p EXCEPT ![i].target_type = t, ![i].target_addr = <<t, p[i].target_name>>]
      BY <2>1, <2>3 DEF Recovery!apply_change_target_type, Recovery!Edited
    <3>2. i \in DOMAIN p /\ p[i] \in MappedResource
      BY <1>1, <2>3
    <3>3. t \in ResourceType
      BY <1>3
    <3>. HIDE DEF i, t
    <3>. DEFINE r == [[p[i] EXCEPT !.target_type = t] EXCEPT !.target_addr = <<t, p[i].target_name>>]
    <3>4. r \in MappedResource
      BY <3>2, <3>3 DEF MappedResource, Addr
    <3>5. Recovery!execute(p, call).plan = [p EXCEPT ![i] = r]
      BY <3>1, <3>2
    <3>. HIDE DEF r
    <3>. QED BY <3>2, <3>4, <3>5
  <2>. QED BY <2>2, <2>3
<1>4. CASE call \in [tool : {"remove_resource"}, addr : Addr]
  <2>1. Recovery!execute(p, call) = Recovery!apply_remove_resource(p, call.addr)
    BY <1>4 DEF Recovery!execute
  <2>. DEFINE left == {r \in Recovery!MappedResource : r.target_addr # call.addr}
  <2>2. Recovery!Filtered(p, left) = Filtered(p, left)
    BY DEF Recovery!Filtered, Filtered
  <2>3. Filtered(p, left) \in Seq(MappedResource)
    <3>. HIDE DEF left
    <3>. QED BY FilteredElements
  <2>. HIDE DEF left
  <2>. QED BY <2>1, <2>2, <2>3
       DEF Recovery!apply_remove_resource, Recovery!Edited, Recovery!Unedited, left
<1>5. CASE call \in [tool : {"unknown"}]
  BY <1>5 DEF Recovery!execute, Recovery!Unedited
<1>. QED BY <1>2, <1>3, <1>4, <1>5 DEF FixCall

\* A finding is of a resource of the plan, and of an attribute or none.
Kinds == {"UnknownResourceType", "UnknownAttribute", "MissingRequiredAttribute"}

IsFinding(e, p) ==
  /\ e = [kind |-> e.kind, resource |-> e.resource, attr |-> e.attr]
  /\ e.kind \in Kinds /\ e.resource \in DOMAIN p /\ e.attr \in Attribute \cup {""}

LEMMA FindingsAreOfResources ==
  ASSUME NEW p \in Seq(MappedResource)
  PROVE  \A e \in validation_errors(p) : IsFinding(e, p)
<1>. DEFINE K == Kinds
            A == Attribute \cup {""}
            E == validation_errors(p)
<1>1. \A i \in known(p) : /\ DOMAIN p[i].attributes \subseteq Attribute
                         /\ Schema[p[i].target_type].required \subseteq Attribute
                         /\ i \in DOMAIN p
  <2>. SUFFICES ASSUME NEW i \in known(p)
                PROVE  /\ DOMAIN p[i].attributes \subseteq Attribute
                       /\ Schema[p[i].target_type].required \subseteq Attribute
                       /\ i \in DOMAIN p
    OBVIOUS
  <2>1. i \in DOMAIN p /\ p[i].target_type \in DOMAIN Schema /\ p[i] \in MappedResource
    BY DEF known
  <2>2. p[i].attributes \in Attributes
    BY <2>1 DEF MappedResource
  <2>3. PICK S \in SUBSET Attribute : p[i].attributes \in [S -> Value]
    BY <2>2 DEF Attributes
  <2>4. DOMAIN p[i].attributes \subseteq Attribute
    BY <2>3
  <2>. QED BY <2>1, <2>4, SchemaAssumption
<1>. DEFINE Finding(k, i, a) == [kind |-> k, resource |-> i, attr |-> a]
<1>2. ASSUME NEW k \in K, NEW i \in DOMAIN p, NEW a \in A
      PROVE  IsFinding(Finding(k, i, a), p)
  BY DEF IsFinding
<1>3. ASSUME NEW e \in E
      PROVE  \E k \in K, i \in DOMAIN p, a \in A : e = Finding(k, i, a)
  <2>1. CASE e \in UnknownResourceTypes(p)
    <3>1. PICK i \in DOMAIN p : e = Finding("UnknownResourceType", i, "")
      BY <2>1 DEF UnknownResourceTypes
    <3>. QED BY <3>1 DEF Kinds
  <2>2. CASE e \in UnknownAttributes(p)
    <3>1. PICK i \in known(p) :
            e \in {[kind |-> "UnknownAttribute", resource |-> i, attr |-> a] :
                      a \in DOMAIN p[i].attributes \ Schema[p[i].target_type].attributes}
      BY <2>2 DEF UnknownAttributes
    <3>2. PICK a \in DOMAIN p[i].attributes : e = Finding("UnknownAttribute", i, a)
      BY <3>1
    <3>. HIDE DEF Finding
    <3>. QED BY <1>1, <3>2 DEF Kinds
  <2>3. CASE e \in MissingRequiredAttributes(p)
    <3>1. PICK i \in known(p) :
            e \in {[kind |-> "MissingRequiredAttribute", resource |-> i, attr |-> a] :
                      a \in Schema[p[i].target_type].required \ DOMAIN p[i].attributes}
      BY <2>3 DEF MissingRequiredAttributes
    <3>2. PICK a \in Schema[p[i].target_type].required : e = Finding("MissingRequiredAttribute", i, a)
      BY <3>1
    <3>. HIDE DEF Finding
    <3>. QED BY <1>1, <3>2 DEF Kinds
  <2>. QED BY <2>1, <2>2, <2>3 DEF validation_errors
<1>4. ASSUME NEW e \in E PROVE IsFinding(e, p)
  <2>1. PICK k \in K, i \in DOMAIN p, a \in A : e = Finding(k, i, a)
    BY <1>3
  <2>. HIDE DEF K, A, E, Finding
  <2>. QED BY <1>2, <2>1
<1>. QED BY <1>4

\* A plan has finitely many findings: each is of a resource and of an attribute, or none.
LEMMA FindingsAreFinite ==
  ASSUME NEW p \in Seq(MappedResource)
  PROVE  IsFiniteSet(validation_errors(p))
<1>. DEFINE K == Kinds
            A == Attribute \cup {""}
            P == (K \X (DOMAIN p)) \X A
            E == validation_errors(p)
            f == [e \in E |-> <<<<e.kind, e.resource>>, e.attr>>]
<1>1. IsFiniteSet(K) /\ IsFiniteSet(A) /\ IsFiniteSet(DOMAIN p)
  <2>1. IsFiniteSet({"UnknownResourceType"}) /\ IsFiniteSet({""})
    BY FS_Singleton
  <2>2. IsFiniteSet({"UnknownAttribute"}) /\ IsFiniteSet({"MissingRequiredAttribute"})
    BY FS_Singleton
  <2>3. IsFiniteSet({"UnknownResourceType"} \cup {"UnknownAttribute"})
    BY <2>1, <2>2, FS_Union
  <2>4. IsFiniteSet(({"UnknownResourceType"} \cup {"UnknownAttribute"})
                    \cup {"MissingRequiredAttribute"})
    BY <2>2, <2>3, FS_Union
  <2>5. K = ({"UnknownResourceType"} \cup {"UnknownAttribute"}) \cup {"MissingRequiredAttribute"}
    BY DEF Kinds
  <2>6. IsFiniteSet(A)
    BY <2>1, FS_Union, MigrateConstants
  <2>7. DOMAIN p = 1 .. Len(p) /\ Len(p) \in Nat
    OBVIOUS
  <2>8. IsFiniteSet(1 .. Len(p))
    BY <2>7, FS_Interval
  <2>. QED BY <2>4, <2>5, <2>6, <2>7, <2>8
<1>2. IsFiniteSet(P)
  <2>. HIDE DEF K, A
  <2>1. IsFiniteSet(K \X (DOMAIN p))
    BY <1>1, FS_Product
  <2>. QED BY <1>1, <2>1, FS_Product
<1>3. \A e \in E : IsFinding(e, p)
  BY FindingsAreOfResources
<1>4. f \in [E -> P]
  <2>. HIDE DEF E
  <2>. QED BY <1>3 DEF IsFinding
<1>5. \A d, e \in E : f[d] = f[e] => d = e
  <2>. HIDE DEF K, A, E
  <2>1. ASSUME NEW d \in E, NEW e \in E, f[d] = f[e] PROVE d = e
    <3>1. d.kind = e.kind /\ d.resource = e.resource /\ d.attr = e.attr
      BY <2>1
    <3>. QED BY <1>3, <3>1 DEF IsFinding
  <2>. QED BY <2>1
<1>6. f \in Injection(E, P)
  <2>. HIDE DEF f, E, P
  <2>. QED BY <1>4, <1>5 DEF Injection, IsInjective
<1>. HIDE DEF f, P, E
<1>7. IsFiniteSet(E)
  BY <1>2, <1>6, FS_Injection
<1>. QED BY <1>7 DEF E

\* Stages the run goes through before the agent is asked.
Unasked == {"Scan", "Map", "ListVersions", "Validate"}

\* A plan that is answered is made of templates; while the agent runs it is a plan, a success is one whose plan has no finding,
\* and behind it that plan is the pipeline's. No gap is known before the last validation.
RecoveryInv ==
  /\ plan \in Seq(MappedResource) /\ mapped \in Seq(MappedResource)
  /\ stage \in Unasked => pc = "Config"
  /\ stage \in {"ListVersions", "Validate"} => validate_plan(mapped)
  /\ pc # "Done" => outcome.kind = "Running"
  /\ outcome.kind = "Success" => validation_errors(plan) = {}
  /\ outcome.kind = "Success" /\ stage # "Recover" => mapped = plan
  /\ ~gated => gaps = {}

\* The initial state satisfies it.
LEMMA InitRecovery == Init => RecoveryInv
  BY MigrateConstants DEF Init, Recovery!Init, Recovery!Running, RecoveryInv

\* A plan with no more findings than none has none.
LEMMA MetIsClean ==
  ASSUME NEW p \in Seq(MappedResource), Recovery!Met(p)
  PROVE  validation_errors(p) = {}
<1>1. error_count(p) <= 0
  BY DEF Recovery!Met
<1>2. IsFiniteSet(validation_errors(p))
  BY FindingsAreFinite
<1>. QED BY <1>1, <1>2, FS_CardinalityType, FS_EmptySet DEF error_count

\* Every step of the agent keeps it.
LEMMA RecoverKeeps == ASSUME RecoveryInv, Recover PROVE RecoveryInv'
<1>1. /\ stage = "Recover" /\ stage' = stage /\ UNCHANGED <<mapped, gaps, gated>>
      /\ Recovery!Next
  BY DEF Recover
<1>2. stage \notin Unasked
  BY <1>1 DEF Unasked
<1>. SUFFICES /\ plan' \in Seq(MappedResource)
              /\ pc' # "Done" => outcome'.kind = "Running"
              /\ outcome'.kind = "Success" => validation_errors(plan') = {}
  BY <1>1, <1>2 DEF RecoveryInv
<1>. USE DEF RecoveryInv, Recovery!Return, Recovery!Failed, Recovery!Ended, Recovery!ScoreFails,
             Recovery!NextIteration
<1>3. CASE Recovery!CheckConfig
  BY <1>3 DEF Recovery!CheckConfig
<1>4. CASE Recovery!StartIteration
  <2>1. plan' = plan /\ pc = "Score"
    BY <1>4 DEF Recovery!StartIteration
  <2>2. \/ pc' = "Agent" /\ outcome' = outcome
        \/ pc' = "Done" /\ outcome'.kind = "Err"
        \/ pc' = "Done" /\ Recovery!Met(plan)
    BY <1>4 DEF Recovery!StartIteration
  <2>. QED BY <2>1, <2>2, MetIsClean
<1>5. CASE Recovery!Exhausted
  BY <1>5 DEF Recovery!Exhausted
<1>6. ASSUME NEW call \in FixCalls, Recovery!ToolCall(call)
      PROVE  /\ plan' \in Seq(MappedResource)
             /\ pc' # "Done" => outcome'.kind = "Running"
             /\ outcome'.kind = "Success" => validation_errors(plan') = {}
  <2>1. pc = "Agent" /\ UNCHANGED <<pc, outcome>> /\ plan' = Recovery!execute(plan, call).plan
    BY <1>6 DEF Recovery!ToolCall
  <2>2. call \in FixCall
    BY MigrateConstants
  <2>. QED BY <2>1, <2>2, EditedIsPlan
<1>7. CASE Recovery!AgentFails
  BY <1>7 DEF Recovery!AgentFails
<1>8. CASE Recovery!AgentAsks
  BY <1>8 DEF Recovery!AgentAsks
<1>9. CASE Recovery!AgentAnswers
  BY <1>9 DEF Recovery!AgentAnswers
<1>10. CASE Recovery!AgentRunsOutOfTurns
  BY <1>10 DEF Recovery!AgentRunsOutOfTurns
<1>. QED BY <1>1, <1>3, <1>4, <1>5, <1>6, <1>7, <1>8, <1>9, <1>10 DEF Recovery!Next

\* Every step of the pipeline keeps it.
LEMMA StepRecovery == RecoveryInv /\ [Next]_vars => RecoveryInv'
<1>. SUFFICES ASSUME RecoveryInv, [Next]_vars PROVE RecoveryInv'
  OBVIOUS
<1>. USE DEF RecoveryInv, Unasked, Enter, End, recovery_vars, output_vars, validate_plan
<1>1. CASE Scan
  BY <1>1 DEF Scan
<1>2. CASE Map
  BY <1>2 DEF Map
<1>3. CASE ListVersions
  BY <1>3 DEF ListVersions
<1>4. CASE Validate
  BY <1>4 DEF Validate
<1>5. CASE Recover
  BY <1>5, RecoverKeeps
<1>6. CASE RecoveryReturns
  BY <1>6 DEF RecoveryReturns
<1>7. CASE Revalidate
  BY <1>7 DEF Revalidate
<1>8. CASE Output
  BY <1>8 DEF Output
<1>9. CASE Emit
  <2>1. stage = "Emit" /\ stage' \in {"Emit", "Done"}
        /\ UNCHANGED <<recovery_vars, mapped, gaps, gated>>
    BY <1>9 DEF Emit, Skip, AppendBlock, GeneratedUnread
  <2>. QED BY <2>1
<1>10. CASE EmitDone
  BY <1>10 DEF EmitDone
<1>11. CASE UNCHANGED vars
  BY <1>11 DEF vars
<1>. QED BY <1>1, <1>2, <1>3, <1>4, <1>5, <1>6, <1>7, <1>8, <1>9, <1>10, <1>11 DEF Next

\* What Recovery reports as a success leaves the plan `migrate` goes on with without a
\* finding, for every model of the agent, and the gate holds nothing of it back.
THEOREM RecoveredPlanIsClean == Spec => []RecoveredIsClean
<1>1. IInv /\ RecoveryInv => RecoveredIsClean
  BY DEF IInv, GapsHeldBack, RecoveryInv, RecoveredIsClean
<1>. QED BY InitIInv, StepIInv, InitRecovery, StepRecovery, <1>1, PTL DEF Spec

\* What the agent does within the pipeline is what FixAgent lets it do, with the count of
\* findings as its score and none of them as its target.
THEOREM RecoveryIsFixAgent == Spec => Recovery!Spec
<1>1. Init => Recovery!Init
  BY DEF Init
<1>2. [Next]_vars => [Recovery!Next]_Recovery!vars
  <2>. SUFFICES ASSUME [Next]_vars PROVE [Recovery!Next]_Recovery!vars
    OBVIOUS
  <2>. USE DEF recovery_vars, Recovery!vars
  <2>1. CASE Recover
    BY <2>1 DEF Recover
  <2>2. CASE \/ Scan \/ Map \/ ListVersions \/ Validate \/ RecoveryReturns \/ Revalidate
             \/ Output \/ Emit \/ EmitDone
    BY <2>2 DEF Scan, Map, ListVersions, Validate, RecoveryReturns, Revalidate, Output, Emit,
                EmitDone
  <2>3. CASE UNCHANGED vars
    BY <2>3 DEF vars
  <2>. QED BY <2>1, <2>2, <2>3 DEF Next
<1>. QED BY <1>1, <1>2, PTL DEF Spec, Recovery!Spec

----------------------------------------------------------------------------
(* The types of the variables *)

\* What may stand in a file of the output.
Blocks == {UserBlock, TornBlock} \cup DOMAIN mapped

\* Ahead of the loop a step leaves the output typed, whatever becomes of the plan.
LEMMA EarlyKeepsTypes ==
  ASSUME IInv, OutputInv, TypeOK, mapped' \in Seq(MappedResource),
         UNCHANGED <<next, files, listed, skipped, io_failed>>,
         stage \notin {"Emit", "Done"}, gaps' \subseteq Addr, gated' \in BOOLEAN,
         \/ /\ ended' = ended
            /\ stage' \in {"Scan", "Map", "ListVersions", "Validate", "Recover", "Revalidate",
                          "Output", "Emit"}
         \/ stage' = "Done" /\ ended' \in {"Ok", "Err"},
         stage' = "Validate" => \A i \in DOMAIN mapped' : mapped'[i].target_type \in Template
  PROVE  TypeOK'
<1>1. next = 1 /\ skipped \subseteq 1 .. next - 1
  BY DEF OutputInv
<1>2. skipped = {} /\ skipped' = {} /\ next' = 1
  BY <1>1
<1>3. next' \in 1 .. Len(mapped') + 1
  BY <1>2
<1>4. \A t \in ResourceType :
         files[t] \in Seq(Int) /\ \A k \in DOMAIN files[t] : files[t][k] \in {UserBlock, TornBlock}
  <2>1. CASE stage = "Output"
    BY <2>1 DEF IInv, FilesTyped, BeforeEmission
  <2>2. CASE stage # "Output"
    BY <2>2 DEF IInv, FilesTyped, BeforeEmission
  <2>. QED BY <2>1, <2>2
<1>5. files' \in [ResourceType -> Seq(Blocks')]
  <2>1. \A t \in ResourceType : files[t] \in Seq({UserBlock, TornBlock} \cup DOMAIN mapped')
    BY <1>4
  <2>2. files \in [ResourceType -> Seq({UserBlock, TornBlock} \cup DOMAIN mapped')]
    BY <2>1 DEF IInv, FilesTyped
  <2>. QED BY <2>2 DEF Blocks
<1>. QED BY <1>2, <1>3, <1>5 DEF TypeOK, Blocks

\* A block that is appended is of the plan.
LEMMA AppendKeepsTypes ==
  ASSUME TypeOK, next <= Len(mapped), mapped[next].target_type \in ResourceType,
         AppendBlock(next), mapped' = mapped
  PROVE  files' \in [ResourceType -> Seq(Blocks')] /\ io_failed' \subseteq ResourceType
<1>. DEFINE t == mapped[next].target_type
<1>1. /\ files \in [ResourceType -> Seq(Blocks)] /\ Blocks' = Blocks /\ t \in ResourceType
      /\ next \in DOMAIN mapped /\ io_failed \subseteq ResourceType
  BY DEF TypeOK, Blocks
<1>2. next \in Blocks /\ TornBlock \in Blocks
  BY <1>1 DEF Blocks
<1>3. PICK existing \in {files[t], <<>>} :
        \/ /\ files' = [files EXCEPT ![t] = Append(existing, next)]
           /\ io_failed' = IF existing = files[t] THEN io_failed ELSE io_failed \cup {t}
        \/ /\ files' \in {[files EXCEPT ![t] = left] : left \in {files[t], <<>>, <<TornBlock>>}}
           /\ io_failed' = io_failed \cup {t}
  BY DEF AppendBlock, combined
<1>4. <<>> \in Seq(Blocks) /\ <<TornBlock>> \in Seq(Blocks) /\ files[t] \in Seq(Blocks)
  BY <1>1, <1>2
<1>5. Append(existing, next) \in Seq(Blocks)
  <2>1. \A s \in Seq(Blocks) : Append(s, next) \in Seq(Blocks)
    BY <1>2
  <2>. QED BY <1>3, <1>4, <2>1
<1>. HIDE DEF t
<1>6. \A left \in Seq(Blocks) : [files EXCEPT ![t] = left] \in [ResourceType -> Seq(Blocks)]
  BY <1>1
<1>7. files' \in [ResourceType -> Seq(Blocks)]
  BY <1>3, <1>4, <1>5, <1>6
<1>. QED BY <1>1, <1>3, <1>7

\* Every step of the pipeline keeps the types.
LEMMA StepTypes == IInv /\ OutputInv /\ RecoveryInv /\ TypeOK /\ [Next]_vars => TypeOK'
<1>. SUFFICES ASSUME IInv, OutputInv, RecoveryInv, TypeOK, [Next]_vars PROVE TypeOK'
  OBVIOUS
<1>. USE DEF Enter, End, output_vars
<1>1. mapped \in Seq(MappedResource) /\ plan \in Seq(MappedResource) /\ gaps \subseteq Addr
      /\ gated \in BOOLEAN
  BY DEF TypeOK, RecoveryInv
<1>2. CASE Scan
  BY <1>1, <1>2, EarlyKeepsTypes DEF Scan
<1>3. CASE Map
  BY <1>1, <1>3, EarlyKeepsTypes DEF Map
<1>4. CASE ListVersions
  BY <1>1, <1>4, EarlyKeepsTypes DEF ListVersions, RecoveryInv, validate_plan
<1>5. CASE Validate
  BY <1>1, <1>5, EarlyKeepsTypes DEF Validate
<1>6. CASE Recover
  BY <1>1, <1>6, EarlyKeepsTypes DEF Recover, TypeOK
<1>7. CASE RecoveryReturns
  BY <1>1, <1>7, EarlyKeepsTypes DEF RecoveryReturns
<1>8. CASE Revalidate
  <2>1. {addr_of_validation_error(e) : e \in validation_errors(mapped)} \subseteq Addr
    <3>1. ASSUME NEW e \in validation_errors(mapped)
          PROVE  addr_of_validation_error(e) \in Addr
      <4>1. e.resource \in DOMAIN mapped
        BY <1>1, FindingsAreOfResources DEF IsFinding
      <4>2. mapped[e.resource] \in MappedResource
        BY <1>1, <4>1
      <4>. QED BY <4>2 DEF addr_of_validation_error, MappedResource
    <3>. QED BY <3>1
  <2>. QED BY <1>1, <1>8, <2>1, EarlyKeepsTypes DEF Revalidate
<1>9. CASE Output
  BY <1>1, <1>9, EarlyKeepsTypes DEF Output
<1>10. CASE Emit
  <2>1. /\ stage = "Emit" /\ next <= Len(mapped) /\ next' = next + 1
        /\ UNCHANGED <<recovery_vars, mapped, gaps, gated, before_files>>
    BY <1>10 DEF Emit
  <2>2. next \in DOMAIN mapped /\ next' \in 1 .. Len(mapped) + 1 /\ ended = "Running"
    <3>1. next \in 1 .. Len(mapped) + 1 /\ Len(mapped) \in Nat /\ DOMAIN mapped = 1 .. Len(mapped)
      BY <1>1 DEF TypeOK
    <3>2. ended = "Running"
      BY <2>1 DEF TypeOK
    <3>3. \A n \in Nat : \A k \in 1 .. n + 1 :
            k <= n => k \in 1 .. n /\ k + 1 \in 1 .. n + 1
      OBVIOUS
    <3>4. next \in 1 .. Len(mapped) /\ next + 1 \in 1 .. Len(mapped) + 1
      BY <2>1, <3>1, <3>3
    <3>5. next \in DOMAIN mapped
      BY <3>1, <3>4
    <3>6. next' \in 1 .. Len(mapped) + 1
      BY <2>1, <3>4
    <3>. QED BY <3>2, <3>5, <3>6
  <2>3. mapped[next].target_type \in ResourceType
    <3>1. mapped[next] \in MappedResource
      BY <1>1, <2>2
    <3>. QED BY <3>1 DEF MappedResource
  <2>4. CASE Skip(next)
    BY <2>1, <2>2, <2>4 DEF Skip, TypeOK
  <2>5. CASE AppendBlock(next)
    <3>1. files' \in [ResourceType -> Seq(Blocks')] /\ io_failed' \subseteq ResourceType
      BY <2>1, <2>3, <2>5, AppendKeepsTypes
    <3>2. listed' = listed \cup {mapped[next].target_type} /\ UNCHANGED <<skipped, stage, ended>>
      BY <2>5 DEF AppendBlock
    <3>. QED BY <2>1, <2>2, <2>3, <3>1, <3>2 DEF TypeOK, Blocks
  <2>6. CASE GeneratedUnread(next)
    BY <2>1, <2>2, <2>3, <2>6 DEF GeneratedUnread, TypeOK
  <2>7. CASE End("Err") /\ UNCHANGED <<files, listed, skipped, io_failed>>
    BY <2>1, <2>2, <2>7 DEF TypeOK
  <2>. QED BY <1>10, <2>4, <2>5, <2>6, <2>7 DEF Emit
<1>11. CASE EmitDone
  BY <1>11 DEF EmitDone, TypeOK
<1>12. CASE UNCHANGED vars
  BY <1>12 DEF vars, TypeOK
<1>. QED BY <1>2, <1>3, <1>4, <1>5, <1>6, <1>7, <1>8, <1>9, <1>10, <1>11, <1>12 DEF Next

\* Every variable of the pipeline keeps its type; the blocks in the output are resources
\* of the plan, however often that plan was replaced before.
THEOREM PipelineIsTyped == Spec => []TypeOK
<1>1. Init => TypeOK
  <2>. SUFFICES ASSUME Init PROVE TypeOK
    OBVIOUS
  <2>1. files \in [ResourceType -> {<<>>, <<UserBlock>>}] /\ mapped = <<>>
    BY DEF Init
  <2>2. <<>> \in Seq(Blocks) /\ <<UserBlock>> \in Seq(Blocks)
    BY DEF Blocks
  <2>3. \A t \in ResourceType : files[t] \in Seq(Blocks)
    BY <2>1, <2>2
  <2>4. files \in [ResourceType -> Seq(Blocks)]
    BY <2>1, <2>3
  <2>5. next \in 1 .. Len(mapped) + 1 /\ skipped \subseteq DOMAIN mapped
        /\ mapped \in Seq(MappedResource)
    BY <2>1 DEF Init
  <2>. QED BY <2>1, <2>4, <2>5 DEF Init, TypeOK, Blocks
<1>. QED BY InitIInv, StepIInv, InitOutput, StepOutput, InitRecovery, StepRecovery, StepTypes,
            <1>1, PTL DEF Spec
=============================================================================

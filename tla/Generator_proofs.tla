-------------------------- MODULE Generator_proofs --------------------------
(***************************************************************************)
(* For every set of types, templates and plans, and any number of runs:    *)
(* the types of the Generator's variables, and that neither a failure, a   *)
(* crash nor a repeated rollback costs the user a file.                    *)
(***************************************************************************)
EXTENDS Generator, TLAPS

Outcome == [src : Content, dst : Content, result : {"Ok", "Err"}]

\* The four kinds of content are told apart.
LEMMA Contents ==
  /\ User # Missing /\ User # Torn /\ Missing # Torn
  /\ \A b : hcl(b) # User /\ hcl(b) # Missing
  BY DEF User, Missing, Torn, hcl

\* A move leaves two contents, and says whether it succeeded.
LEMMA MoveType ==
  ASSUME NEW c \in Content, NEW old \in Content, NEW m \in move(c, old)
  PROVE  m \in Outcome
<1>1. Missing \in Content /\ Torn \in Content
  BY DEF Content
<1>2. CASE c = Missing
  BY <1>1, <1>2 DEF move, Outcome
<1>3. CASE c # Missing
  <2>1. \/ m = [src |-> Missing, dst |-> c, result |-> "Ok"]
        \/ m = [src |-> c, dst |-> old, result |-> "Err"]
        \/ m = [src |-> c, dst |-> Torn, result |-> "Err"]
        \/ m = [src |-> c, dst |-> c, result |-> "Err"]
    BY <1>3 DEF move
  <2>. QED BY <1>1, <2>1 DEF Outcome
<1>. QED BY <1>2, <1>3

\* What is moved is in one of the two places, unless there was nothing to move.
LEMMA MoveKeeps ==
  ASSUME NEW c \in Content, NEW old \in Content, NEW m \in move(c, old)
  PROVE  /\ c = Missing => m.src = Missing /\ m.dst = old
         /\ m.src = c \/ (m.src = Missing /\ m.dst = c)
         /\ m.result = "Ok" => m.src = Missing /\ m.dst = c
  BY DEF move

\* A plan has a body, or resources that do not render, for some of the types.
LEMMA PlanType ==
  ASSUME NEW p \in Plan
  PROVE  DOMAIN p \subseteq Type /\ \A t \in DOMAIN p : p[t] \in Body \cup {Unrenderable}
<1>1. PICK S \in SUBSET Type : p \in [S -> Body \cup {Unrenderable}]
  BY DEF Plan
<1>. QED BY <1>1

----------------------------------------------------------------------------
\* The initial state is well typed.
LEMMA InitTypeOK == Init => TypeOK
<1>. SUFFICES ASSUME Init PROVE TypeOK
  OBVIOUS
<1>. USE GeneratorConstants DEF Init
<1>1. disk \in [Type -> Content] /\ before \in [Type -> Content]
  BY DEF Content
<1>2. plan \in Plan
  <2>1. plan \in [{} -> Body \cup {Unrenderable}] /\ {} \in SUBSET Type
    OBVIOUS
  <2>. QED BY <2>1 DEF Plan
<1>3. backups \in Seq(Backup) /\ Len(backups) = 0
  OBVIOUS
<1>4. emitted \in Seq(EmittedFile) /\ DOMAIN emitted = {}
  OBVIOUS
<1>. QED BY <1>1, <1>2, <1>3, <1>4 DEF TypeOK

\* Every step keeps the types.
LEMMA StepTypeOK == TypeOK /\ [Next]_vars => TypeOK'
<1>. SUFFICES ASSUME TypeOK, [Next]_vars PROVE TypeOK'
  OBVIOUS
<1>. USE GeneratorConstants DEF TypeOK
<1>0. <<>> \in Seq(EmittedFile) /\ DOMAIN <<>> = {}
  OBVIOUS
<1>1. ASSUME NEW p \in Plans, Generate(p) PROVE TypeOK'
  <2>1. p \in Plan /\ DOMAIN p \subseteq Type
    BY PlanType
  <2>2. \/ pc' = "Emit" /\ plan' = p /\ todo' = DOMAIN p /\ reply' = "None"
        \/ pc' = "Idle" /\ plan' = plan /\ todo' = todo /\ reply' = "Err"
    BY <1>1 DEF Generate, Fail
  <2>3. /\ emitted' = <<>> /\ before' = disk /\ runs' \in 0 .. MaxRuns /\ failures' = {}
        /\ UNCHANGED <<disk, backups, backup_path, cursor, original>>
    BY <1>1 DEF Generate, Fail
  <2>4. emitted' \in Seq(EmittedFile) /\ DOMAIN emitted' = {}
    BY <2>3
  <2>. QED BY <2>1, <2>2, <2>3, <2>4
<1>2. ASSUME NEW t \in Type, EmitGroup(t) PROVE TypeOK'
  <2>1. /\ todo' = todo /\ plan' = plan /\ cursor' = cursor /\ failures' = failures
        /\ runs' = runs /\ original' = original /\ before' = before
    BY <1>2 DEF EmitGroup
  <2>2. CASE ~renders(t)
    <3>1. pc' = "Idle" /\ emitted' = <<>> /\ reply' = "Err" /\ UNCHANGED <<disk, backups, backup_path>>
      BY <1>2, <2>2 DEF EmitGroup, Fail
    <3>. QED BY <1>0, <2>1, <3>1
  <2>3. renders(t) => plan[t] \in Body /\ t \in todo /\ t \in DOMAIN plan
    BY <1>2, PlanType DEF EmitGroup, renders, is_next
  <2>4. CASE renders(t) /\ Exists(t)
    <3>1. PICK m \in move(disk[t], Missing) :
            /\ disk' = [disk EXCEPT ![t] = m.src]
            /\ backups' = Append(backups, [file |-> t, content |-> m.dst])
            /\ IF m.result = "Ok" THEN /\ pc' = "Write" /\ backup_path' = Len(backups')
                            /\ UNCHANGED <<emitted, reply>>
                       ELSE Fail /\ UNCHANGED backup_path
      BY <1>2, <2>4 DEF EmitGroup
    <3>2. m \in Outcome
      BY MoveType DEF Content
    <3>3. disk' \in [Type -> Content]
      BY <3>1, <3>2 DEF Outcome
    <3>4. backups' \in Seq(Backup) /\ Len(backups') = Len(backups) + 1
      BY <3>1, <3>2 DEF Outcome, Backup
    <3>5. \/ pc' = "Write" /\ backup_path' = Len(backups') /\ emitted' = emitted /\ reply' = reply
          \/ pc' = "Idle" /\ backup_path' = backup_path /\ emitted' = <<>> /\ reply' = "Err"
      BY <3>1 DEF Fail
    <3>6. pc' = "Write" => \E u \in todo' : is_next(u)' /\ plan'[u] \in Body
      BY <1>2, <2>1, <2>3, <2>4 DEF EmitGroup, is_next
    <3>7. todo' \subseteq DOMAIN plan'
      BY <1>2, <2>1 DEF EmitGroup
    <3>8. CASE pc' = "Write"
      BY <2>1, <3>3, <3>4, <3>5, <3>6, <3>7, <3>8
    <3>9. CASE pc' # "Write"
      <4>1. emitted' \in Seq(EmittedFile) /\ DOMAIN emitted' = {} /\ pc' = "Idle" /\ reply' = "Err"
        BY <1>0, <3>5, <3>9
      <4>2. backup_path' \in 0 .. Len(backups')
        BY <3>4, <3>5, <3>9
      <4>. QED BY <2>1, <3>3, <3>4, <3>7, <4>1, <4>2
    <3>. QED BY <3>8, <3>9
  <2>5. CASE renders(t) /\ ~Exists(t)
    <3>1. pc' = "Write" /\ backup_path' = 0 /\ UNCHANGED <<disk, backups, emitted, reply>>
      BY <1>2, <2>5 DEF EmitGroup
    <3>2. \E u \in todo' : is_next(u)' /\ plan'[u] \in Body
      BY <1>2, <2>1, <2>3, <2>5 DEF EmitGroup, is_next
    <3>. QED BY <1>2, <2>1, <3>1, <3>2 DEF EmitGroup
  <2>. QED BY <1>2, <2>2, <2>4, <2>5
<1>3. ASSUME NEW t \in Type, WriteFile(t) PROVE TypeOK'
  <2>1. plan[t] \in Body
    <3>1. PICK u \in todo : is_next(u) /\ plan[u] \in Body
      BY <1>3 DEF WriteFile
    <3>2. u <= t /\ t <= u /\ u \in Int /\ t \in Int
      BY <1>3, <3>1 DEF WriteFile, is_next
    <3>. QED BY <3>1, <3>2
  <2>2. CASE pc' = "Emit"
    <3>1. /\ disk' = [disk EXCEPT ![t] = hcl(plan[t])] /\ reply' = reply
          /\ emitted' = Append(emitted, [path |-> t, backup_path |-> backup_path])
      BY <1>3, <2>2 DEF WriteFile, Fail
    <3>2. disk' \in [Type -> Content]
      BY <2>1, <3>1 DEF Content
    <3>3. /\ emitted' \in Seq(EmittedFile)
          /\ \A k \in DOMAIN emitted' : emitted'[k].backup_path \in 0 .. Len(backups)
      BY <3>1 DEF EmittedFile
    <3>. QED BY <1>3, <2>2, <3>1, <3>2, <3>3 DEF WriteFile
  <2>3. CASE pc' # "Emit"
    <3>1. /\ pc' = "Idle" /\ emitted' = <<>> /\ reply' = "Err"
          /\ disk' \in {disk, [disk EXCEPT ![t] = Torn]}
      BY <1>3, <2>3 DEF WriteFile, Fail
    <3>2. disk' \in [Type -> Content]
      BY <3>1 DEF Content
    <3>3. /\ UNCHANGED <<backups, plan, backup_path, cursor, failures, runs, original, before>>
          /\ todo' \subseteq todo
      BY <1>3 DEF WriteFile
    <3>. QED BY <1>0, <3>1, <3>2, <3>3
  <2>. QED BY <2>2, <2>3
<1>4. CASE EmitDone
  BY <1>4 DEF EmitDone
<1>5. CASE Rollback
  BY <1>5 DEF Rollback
<1>6. CASE RollbackFile
  <2>1. PICK e \in EmittedFile :
          /\ e.backup_path \in 0 .. Len(backups)
          /\ \/ e.backup_path # 0 /\ RestoreFromBackup(e)
             \/ e.backup_path = 0 /\ RemoveCreated(e)
    <3>. DEFINE e == emitted[cursor]
    <3>1. cursor \in DOMAIN emitted /\ e \in EmittedFile
      BY <1>6 DEF RollbackFile
    <3>. QED BY <1>6, <3>1 DEF RollbackFile
  <2>2. /\ pc' = pc /\ plan' = plan /\ todo' = todo /\ backup_path' = backup_path
        /\ emitted' = emitted /\ reply' = reply /\ runs' = runs /\ original' = original
        /\ before' = before /\ cursor' = cursor + 1
    BY <1>6 DEF RollbackFile
  <2>3. disk' \in [Type -> Content] /\ backups' \in Seq(Backup) /\ Len(backups') = Len(backups)
        /\ failures' \subseteq Type
    <3>1. CASE e.backup_path # 0 /\ RestoreFromBackup(e)
      <4>1. PICK m \in move(backups[e.backup_path].content, disk[e.path]) :
              /\ backups' = [backups EXCEPT ![e.backup_path].content = m.src]
              /\ disk' = [disk EXCEPT ![e.path] = m.dst]
              /\ Restored(e.path, m.result)
        BY <3>1 DEF RestoreFromBackup
      <4>. DEFINE b == e.backup_path
      <4>2. b \in DOMAIN backups /\ e.path \in Type
        BY <2>1, <3>1 DEF EmittedFile
      <4>3. backups[b] \in Backup /\ backups[b].content \in Content
        <5>1. backups[b] \in Backup
          BY <4>2
        <5>. QED BY <5>1 DEF Backup
      <4>4. m \in Outcome
        BY <4>1, <4>2, <4>3, MoveType
      <4>5. [backups[b] EXCEPT !.content = m.src] \in Backup
        BY <4>3, <4>4 DEF Backup, Outcome
      <4>6. backups' = [backups EXCEPT ![b] = [backups[b] EXCEPT !.content = m.src]]
        BY <4>1
      <4>7. backups' \in Seq(Backup) /\ Len(backups') = Len(backups)
        BY <4>2, <4>5, <4>6 DEF Backup
      <4>8. disk' \in [Type -> Content]
        BY <4>1, <4>4 DEF Outcome
      <4>. QED BY <4>1, <4>2, <4>7, <4>8 DEF Restored
    <3>2. CASE e.backup_path = 0 /\ RemoveCreated(e)
      BY <2>1, <3>2 DEF RemoveCreated, Restored, EmittedFile, Content, Backup
    <3>. QED BY <2>1, <3>1, <3>2
  <2>4. pc # "Write" /\ pc # "Emit"
    BY <1>6 DEF RollbackFile
  <2>. QED BY <2>2, <2>3, <2>4 DEF Backup
<1>7. CASE RollbackDone
  BY <1>7 DEF RollbackDone
<1>8. CASE Crash
  BY <1>8 DEF Crash, Content
<1>9. CASE UNCHANGED vars
  BY <1>9 DEF vars, is_next
<1>. QED BY <1>1, <1>2, <1>3, <1>4, <1>5, <1>6, <1>7, <1>8, <1>9 DEF Next

\* The variables of the Generator have their types.
THEOREM TypeCorrect == Spec => []TypeOK
  BY InitTypeOK, StepTypeOK, PTL DEF Spec

----------------------------------------------------------------------------
\* The user's content of t is in a backup of it other than number b.
SavedApartFrom(t, b) ==
  \E i \in DOMAIN backups : i # b /\ backups[i].file = t /\ backups[i].content = User

\* Undoing an entry of the list cannot cost the user's content: there was none, or it
\* is what the entry's backup brings back, or another backup has it.
Harmless(e) ==
  \/ original[e.path] # User
  \/ e.backup_path # 0 /\ backups[e.backup_path].content \in {User, Missing}
  \/ SavedApartFrom(e.path, e.backup_path)

OneEntryPerPath ==
  /\ \A j, k \in DOMAIN emitted : emitted[j].path = emitted[k].path => j = k
  /\ pc \in {"Emit", "Write"} => \A k \in DOMAIN emitted : emitted[k].path \notin todo

EntriesHarmless ==
  \A k \in DOMAIN emitted :
    /\ emitted[k].backup_path # 0 => backups[emitted[k].backup_path].file = emitted[k].path
    /\ Harmless(emitted[k])

\* Between backup and write the path is free, and the backup is one of that path.
BetweenBackupAndWrite ==
  pc = "Write" => \A t \in Type : is_next(t) =>
    disk[t] = Missing /\ (backup_path # 0 => backups[backup_path].file = t)

KInv == OneEntryPerPath /\ EntriesHarmless /\ BetweenBackupAndWrite /\ NothingLost

\* The initial state satisfies the inductive invariant.
LEMMA InitKInv == Init => KInv
<1>. SUFFICES ASSUME Init PROVE KInv
  OBVIOUS
<1>1. DOMAIN emitted = {} /\ pc = "Idle"
  BY DEF Init
<1>2. NothingLost
  BY Contents DEF Init, NothingLost
<1>. QED BY <1>1, <1>2 DEF KInv, OneEntryPerPath, EntriesHarmless, BetweenBackupAndWrite

\* With no entry and no group under way, only the user's files are left to look at.
LEMMA ListDropped ==
  ASSUME pc' \notin {"Emit", "Write"}, emitted' = <<>>, NothingLost'
  PROVE  KInv'
BY DEF KInv, OneEntryPerPath, EntriesHarmless, BetweenBackupAndWrite

\* A new backup keeps what the old ones held.
LEMMA BackupsGrow ==
  ASSUME TypeOK, NEW b \in Backup, backups' = Append(backups, b)
  PROVE  /\ DOMAIN backups \subseteq DOMAIN backups'
         /\ Len(backups') = Len(backups) + 1
         /\ \A i \in DOMAIN backups : backups'[i] = backups[i]
         /\ Len(backups') \in DOMAIN backups' /\ backups'[Len(backups')] = b
BY DEF TypeOK

\* Every step of emit keeps the invariant.
LEMMA EmitGroupKInv ==
  ASSUME TypeOK, KInv, NEW t \in Type, EmitGroup(t)
  PROVE  KInv'
<1>1. todo' = todo /\ original' = original /\ t \in todo /\ pc = "Emit"
  BY DEF EmitGroup, is_next
<1>2. \A u \in Type : is_next(u)' => u = t
  <2>1. \A u \in Type : is_next(u)' => u <= t /\ t <= u /\ u \in Int /\ t \in Int
    BY <1>1, GeneratorConstants DEF EmitGroup, is_next
  <2>. QED BY <2>1
<1>3. CASE ~renders(t)
  <2>1. pc' = "Idle" /\ emitted' = <<>> /\ disk' = disk /\ backups' = backups
    BY <1>3 DEF EmitGroup, Fail
  <2>. QED BY <1>1, <2>1, ListDropped DEF KInv, NothingLost
<1>4. CASE renders(t) /\ Exists(t)
  <2>1. PICK m \in move(disk[t], Missing) :
          /\ disk' = [disk EXCEPT ![t] = m.src]
          /\ backups' = Append(backups, [file |-> t, content |-> m.dst])
          /\ IF m.result = "Ok" THEN /\ pc' = "Write" /\ backup_path' = Len(backups')
                                     /\ UNCHANGED <<emitted, reply>>
                                ELSE Fail /\ UNCHANGED backup_path
    BY <1>4 DEF EmitGroup
  <2>2. disk[t] \in Content /\ Missing \in Content
    BY DEF TypeOK, Content
  <2>3. m \in Outcome /\ [file |-> t, content |-> m.dst] \in Backup
    BY <2>2, MoveType DEF Outcome, Backup
  <2>4. /\ DOMAIN backups \subseteq DOMAIN backups' /\ Len(backups') = Len(backups) + 1
        /\ \A i \in DOMAIN backups : backups'[i] = backups[i]
        /\ Len(backups') \in DOMAIN backups'
        /\ backups'[Len(backups')] = [file |-> t, content |-> m.dst]
    BY <2>1, <2>3, BackupsGrow
  <2>5. disk' \in [Type -> Content] /\ \A u \in Type : u # t => disk'[u] = disk[u]
    BY <2>1, <2>3 DEF TypeOK, Outcome
  <2>6. disk'[t] = disk[t] \/ (disk'[t] = Missing /\ m.dst = disk[t])
    BY <2>1, <2>2, MoveKeeps DEF TypeOK
  <2>7. NothingLost'
    <3>. SUFFICES ASSUME NEW u \in Type, original[u] = User
                  PROVE  \/ disk'[u] = User
                         \/ \E i \in DOMAIN backups' : backups'[i].file = u /\ backups'[i].content = User
      BY <1>1 DEF NothingLost
    <3>1. CASE \E i \in DOMAIN backups : backups[i].file = u /\ backups[i].content = User
      BY <3>1, <2>4
    <3>2. CASE disk[u] = User
      <4>1. CASE u # t
        BY <3>2, <4>1, <2>5
      <4>2. CASE u = t
        BY <3>2, <4>2, <2>4, <2>6
      <4>. QED BY <4>1, <4>2
    <3>. QED BY <3>1, <3>2 DEF KInv, NothingLost
  <2>8. CASE m.result = "Ok"
    <3>1. pc' = "Write" /\ backup_path' = Len(backups') /\ emitted' = emitted
      BY <2>1, <2>8
    <3>2. disk'[t] = Missing
      BY <2>1, <2>2, <2>8, MoveKeeps DEF TypeOK
    <3>3. BetweenBackupAndWrite'
      BY <1>2, <2>4, <3>1, <3>2 DEF BetweenBackupAndWrite
    <3>4. OneEntryPerPath'
      BY <1>1, <3>1 DEF KInv, OneEntryPerPath
    <3>5. EntriesHarmless'
      <4>. SUFFICES ASSUME NEW k \in DOMAIN emitted
                    PROVE  /\ emitted[k].backup_path # 0 =>
                                backups'[emitted[k].backup_path].file = emitted[k].path
                           /\ Harmless(emitted[k])'
        BY <3>1 DEF EntriesHarmless
      <4>1. emitted[k].backup_path # 0 => emitted[k].backup_path \in DOMAIN backups
        BY DEF TypeOK
      <4>2. /\ emitted[k].backup_path # 0 => backups[emitted[k].backup_path].file = emitted[k].path
            /\ Harmless(emitted[k])
        BY DEF KInv, EntriesHarmless
      <4>3. Harmless(emitted[k])'
        BY <1>1, <2>4, <3>1, <4>1, <4>2 DEF Harmless, SavedApartFrom
      <4>. QED BY <2>4, <4>1, <4>2, <4>3
    <3>. QED BY <2>7, <3>3, <3>4, <3>5 DEF KInv
  <2>9. CASE m.result # "Ok"
    BY <2>1, <2>7, <2>9, ListDropped DEF Fail
  <2>. QED BY <2>8, <2>9
<1>5. CASE renders(t) /\ ~Exists(t)
  <2>1. pc' = "Write" /\ backup_path' = 0 /\ UNCHANGED <<disk, backups, emitted, reply>>
    BY <1>5 DEF EmitGroup
  <2>2. disk'[t] = Missing
    BY <1>5, <2>1 DEF Exists
  <2>3. BetweenBackupAndWrite'
    BY <1>2, <2>1, <2>2 DEF BetweenBackupAndWrite
  <2>. QED BY <1>1, <2>1, <2>3
         DEF KInv, OneEntryPerPath, EntriesHarmless, Harmless, SavedApartFrom, NothingLost
<1>. QED BY <1>3, <1>4, <1>5

\* So does the write, which finds the path free.
LEMMA WriteFileKInv ==
  ASSUME TypeOK, KInv, NEW t \in Type, WriteFile(t)
  PROVE  KInv'
<1>1. /\ backups' = backups /\ original' = original /\ todo' = todo \ {t}
      /\ t \in todo /\ pc = "Write"
  BY DEF WriteFile, is_next
<1>2. disk[t] = Missing /\ (backup_path # 0 => backups[backup_path].file = t)
  BY DEF WriteFile, KInv, BetweenBackupAndWrite
<1>3. \A u \in Type : u # t => disk'[u] = disk[u]
  BY DEF WriteFile, TypeOK
<1>4. original[t] = User => \E i \in DOMAIN backups : backups[i].file = t /\ backups[i].content = User
  BY <1>2, Contents DEF KInv, NothingLost
<1>5. NothingLost'
  BY <1>1, <1>3, <1>4 DEF KInv, NothingLost
<1>6. CASE pc' = "Emit"
  <2>. DEFINE e == [path |-> t, backup_path |-> backup_path]
  <2>1. emitted' = Append(emitted, e) /\ e \in EmittedFile
    BY <1>6 DEF WriteFile, Fail, TypeOK, EmittedFile
  <2>2. /\ DOMAIN emitted' = DOMAIN emitted \cup {Len(emitted) + 1}
        /\ \A k \in DOMAIN emitted : emitted'[k] = emitted[k] /\ k # Len(emitted) + 1
        /\ emitted'[Len(emitted) + 1] = e
    BY <2>1 DEF TypeOK
  <2>3. \A k \in DOMAIN emitted : emitted[k].path \notin todo
    BY <1>1 DEF KInv, OneEntryPerPath
  <2>4. OneEntryPerPath'
    BY <1>1, <2>2, <2>3 DEF KInv, OneEntryPerPath
  <2>5. Harmless(e)
    <3>1. e.path = t /\ e.backup_path = backup_path /\ 0 \notin DOMAIN backups
      BY DEF TypeOK
    <3>2. CASE original[t] = User
      <4>1. PICK i \in DOMAIN backups : backups[i].file = t /\ backups[i].content = User
        BY <1>4, <3>2
      <4>2. CASE i = backup_path
        BY <3>1, <4>1, <4>2 DEF Harmless
      <4>3. CASE i # backup_path
        BY <3>1, <4>1, <4>3 DEF Harmless, SavedApartFrom
      <4>. QED BY <4>2, <4>3
    <3>. QED BY <3>1, <3>2 DEF Harmless
  <2>6. \A k \in DOMAIN emitted' :
          /\ emitted'[k].backup_path # 0 => backups[emitted'[k].backup_path].file = emitted'[k].path
          /\ Harmless(emitted'[k])
    <3>1. \A k \in DOMAIN emitted :
            /\ emitted[k].backup_path # 0 => backups[emitted[k].backup_path].file = emitted[k].path
            /\ Harmless(emitted[k])
      BY DEF KInv, EntriesHarmless
    <3>. QED BY <1>2, <2>2, <2>5, <3>1
  <2>7. EntriesHarmless'
    BY <1>1, <2>6 DEF EntriesHarmless, Harmless, SavedApartFrom
  <2>. QED BY <1>5, <1>6, <2>4, <2>7 DEF KInv, BetweenBackupAndWrite
<1>7. CASE pc' # "Emit"
  BY <1>5, <1>7, ListDropped DEF WriteFile, Fail
<1>. QED BY <1>6, <1>7

\* So does each step of rollback: what an entry brings back, or removes, is not the
\* last copy of anything the user had.
LEMMA RollbackFileKInv ==
  ASSUME TypeOK, KInv, RollbackFile
  PROVE  KInv'
<1>0. PICK c \in DOMAIN emitted, e \in EmittedFile : c = cursor /\ e = emitted[c]
  BY DEF RollbackFile, TypeOK
<1>. DEFINE t == e.path
            b == e.backup_path
<1>1. /\ t \in Type /\ b \in 0 .. Len(backups) /\ DOMAIN backups = 1 .. Len(backups)
  <2>1. emitted[c].backup_path \in 0 .. Len(backups)
    BY DEF TypeOK
  <2>2. DOMAIN backups = 1 .. Len(backups)
    BY DEF TypeOK
  <2>. QED BY <1>0, <2>1, <2>2 DEF EmittedFile
<1>2. /\ emitted' = emitted /\ original' = original /\ pc' = pc /\ pc = "Rollback"
      /\ \/ b # 0 /\ RestoreFromBackup(e)
         \/ b = 0 /\ RemoveCreated(e)
  BY <1>0 DEF RollbackFile
<1>3. /\ b # 0 => backups[b].file = t
      /\ Harmless(e)
  BY <1>0 DEF KInv, EntriesHarmless
<1>4. OneEntryPerPath' /\ BetweenBackupAndWrite'
  BY <1>2 DEF KInv, OneEntryPerPath, BetweenBackupAndWrite
<1>5. \A k \in DOMAIN emitted : k # c =>
        /\ emitted[k].path # t
        /\ emitted[k].backup_path # 0 => /\ emitted[k].backup_path \in DOMAIN backups
                                         /\ backups[emitted[k].backup_path].file = emitted[k].path
        /\ Harmless(emitted[k])
  BY <1>0 DEF KInv, OneEntryPerPath, EntriesHarmless, TypeOK
<1>6. CASE b = 0 /\ RemoveCreated(e)
  <2>1. backups' = backups /\ \A u \in Type : u # t => disk'[u] = disk[u]
    BY <1>1, <1>6 DEF RemoveCreated, TypeOK
  <2>2. original[t] = User => \E i \in DOMAIN backups : backups[i].file = t /\ backups[i].content = User
    BY <1>3, <1>6 DEF Harmless, SavedApartFrom
  <2>3. NothingLost'
    BY <1>2, <2>1, <2>2 DEF KInv, NothingLost
  <2>4. EntriesHarmless'
    BY <1>2, <2>1 DEF KInv, EntriesHarmless, Harmless, SavedApartFrom
  <2>. QED BY <1>4, <2>3, <2>4 DEF KInv
<1>7. CASE b # 0 /\ RestoreFromBackup(e)
  <2>1. PICK m \in move(backups[b].content, disk[t]) :
          /\ backups' = [backups EXCEPT ![b].content = m.src]
          /\ disk' = [disk EXCEPT ![t] = m.dst]
    BY <1>7 DEF RestoreFromBackup
  <2>2. b \in DOMAIN backups /\ backups[b] \in Backup
    <3>1. b \in DOMAIN backups
      BY <1>1, <1>7
    <3>. QED BY <3>1 DEF TypeOK
  <2>3. backups[b].content \in Content /\ disk[t] \in Content
    BY <1>1, <2>2 DEF TypeOK, Backup
  <2>4. /\ backups[b].content = Missing => m.src = Missing /\ m.dst = disk[t]
        /\ m.src = backups[b].content \/ (m.src = Missing /\ m.dst = backups[b].content)
    BY <2>1, <2>3, MoveKeeps
  <2>5. /\ DOMAIN backups' = DOMAIN backups
        /\ \A i \in DOMAIN backups : i # b => backups'[i] = backups[i]
        /\ backups'[b].file = t /\ backups'[b].content = m.src
    <3>1. backups' = [backups EXCEPT ![b] = [backups[b] EXCEPT !.content = m.src]]
      BY <2>1
    <3>2. backups'[b] = [backups[b] EXCEPT !.content = m.src]
      BY <2>2, <3>1
    <3>3. [backups[b] EXCEPT !.content = m.src].file = backups[b].file
          /\ [backups[b] EXCEPT !.content = m.src].content = m.src
      BY <2>2 DEF Backup
    <3>. QED BY <1>3, <1>7, <2>2, <3>1, <3>2, <3>3
  <2>6. disk'[t] = m.dst /\ \A u \in Type : u # t => disk'[u] = disk[u]
    BY <1>1, <2>1 DEF TypeOK
  <2>7. \A u, i : SavedApartFrom(u, i) /\ (i = b \/ u # t) => SavedApartFrom(u, i)'
    BY <1>3, <1>7, <2>5 DEF SavedApartFrom
  <2>8. NothingLost'
    <3>. SUFFICES ASSUME NEW u \in Type, original[u] = User
                  PROVE  \/ disk'[u] = User
                         \/ \E i \in DOMAIN backups' : backups'[i].file = u /\ backups'[i].content = User
      BY <1>2 DEF NothingLost
    <3>1. CASE u # t
      BY <1>3, <1>7, <2>5, <2>6, <3>1 DEF KInv, NothingLost
    <3>2. CASE u = t /\ backups[b].content = User
      BY <2>2, <2>4, <2>5, <2>6, <3>2
    <3>3. CASE u = t /\ backups[b].content = Missing
      BY <2>4, <2>5, <2>6, <3>3, Contents, <2>2 DEF KInv, NothingLost
    <3>4. CASE u = t /\ SavedApartFrom(t, b)
      BY <2>5, <3>4 DEF SavedApartFrom
    <3>. QED BY <1>3, <3>1, <3>2, <3>3, <3>4 DEF Harmless
  <2>9. EntriesHarmless'
    <3>1. Harmless(e)'
      <4>1. CASE backups[b].content \in {User, Missing}
        BY <1>2, <1>7, <2>4, <2>5, <4>1 DEF Harmless
      <4>2. CASE SavedApartFrom(t, b)
        BY <1>2, <2>7, <4>2 DEF Harmless
      <4>. QED BY <1>2, <1>3, <4>1, <4>2 DEF Harmless
    <3>2. ASSUME NEW k \in DOMAIN emitted, k # c
          PROVE  /\ emitted[k].backup_path # 0 => backups'[emitted[k].backup_path].file = emitted[k].path
                 /\ Harmless(emitted[k])'
      <4>1. emitted[k].backup_path # b
        BY <1>3, <1>5, <1>7, <3>2
      <4>2. emitted[k].backup_path # 0 => backups'[emitted[k].backup_path] = backups[emitted[k].backup_path]
        BY <1>5, <2>5, <3>2, <4>1
      <4>3. SavedApartFrom(emitted[k].path, emitted[k].backup_path)
              => SavedApartFrom(emitted[k].path, emitted[k].backup_path)'
        BY <1>2, <1>5, <2>7, <3>2
      <4>. QED BY <1>2, <1>5, <3>2, <4>2, <4>3 DEF Harmless
    <3>. QED BY <1>0, <1>2, <2>5, <3>1, <3>2 DEF EntriesHarmless
  <2>. QED BY <1>4, <2>8, <2>9 DEF KInv
<1>. QED BY <1>2, <1>6, <1>7

\* The process may end at any step.
LEMMA CrashKInv ==
  ASSUME TypeOK, KInv, Crash
  PROVE  KInv'
<1>1. backups' = backups /\ original' = original /\ pc' = "Idle" /\ emitted' = <<>>
  BY DEF Crash
<1>2. NothingLost'
  <2>1. CASE disk' = disk
    BY <1>1, <2>1 DEF KInv, NothingLost
  <2>2. CASE disk' # disk
    <3>1. PICK t \in Type : pc = "Write" /\ is_next(t) /\ disk' = [disk EXCEPT ![t] = Torn]
      BY <2>2 DEF Crash
    <3>2. disk[t] = Missing /\ \A u \in Type : u # t => disk'[u] = disk[u]
      BY <3>1 DEF KInv, BetweenBackupAndWrite, TypeOK
    <3>. QED BY <1>1, <3>2, Contents DEF KInv, NothingLost
  <2>. QED BY <2>1, <2>2
<1>. QED BY <1>1, <1>2, ListDropped

\* The remaining steps touch no file.
LEMMA StepKInv == TypeOK /\ KInv /\ [Next]_vars => KInv'
<1>. SUFFICES ASSUME TypeOK, KInv, [Next]_vars PROVE KInv'
  OBVIOUS
<1>1. ASSUME NEW p \in Plans, Generate(p) PROVE KInv'
  <2>1. emitted' = <<>> /\ pc' \in {"Emit", "Idle"} /\ UNCHANGED <<disk, backups, original>>
    BY <1>1 DEF Generate, Fail
  <2>. QED BY <2>1
         DEF KInv, OneEntryPerPath, EntriesHarmless, BetweenBackupAndWrite, NothingLost
<1>2. ASSUME NEW t \in Type, EmitGroup(t) PROVE KInv'
  BY <1>2, EmitGroupKInv
<1>3. ASSUME NEW t \in Type, WriteFile(t) PROVE KInv'
  BY <1>3, WriteFileKInv
<1>4. CASE RollbackFile
  BY <1>4, RollbackFileKInv
<1>5. CASE Crash
  BY <1>5, CrashKInv
<1>6. CASE EmitDone \/ Rollback \/ RollbackDone \/ UNCHANGED vars
  <2>1. UNCHANGED <<disk, backups, original, emitted, todo, backup_path>>
        /\ (pc' = pc \/ pc' \notin {"Emit", "Write"})
    BY <1>6 DEF EmitDone, Rollback, RollbackDone, vars
  <2>. QED BY <2>1 DEF KInv, OneEntryPerPath, EntriesHarmless, Harmless, SavedApartFrom,
                       BetweenBackupAndWrite, NothingLost, is_next
<1>. QED BY <1>1, <1>2, <1>3, <1>4, <1>5, <1>6 DEF Next

\* What the user had at a path of the output directory is there or in a backup of it,
\* at every moment of every history of runs, failures, crashes and rollbacks.
THEOREM UserFilesSurvive == Spec => []NothingLost
<1>1. TypeOK /\ KInv /\ [Next]_vars => (TypeOK /\ KInv)'
  BY StepTypeOK, StepKInv
<1>2. KInv => NothingLost
  BY DEF KInv
<1>. QED BY InitTypeOK, InitKInv, <1>1, <1>2, PTL DEF Spec

----------------------------------------------------------------------------
ArchivalStep ==
  \A i \in DOMAIN backups :
    /\ i \in DOMAIN backups'
    /\ backups'[i].file = backups[i].file
    /\ backups'[i].content # backups[i].content =>
         disk'[backups[i].file] = backups[i].content

\* Of the backups, emit adds one and rollback puts one back.
LEMMA StepArchival == TypeOK /\ KInv /\ [Next]_vars => ArchivalStep
<1>. SUFFICES ASSUME TypeOK, KInv, [Next]_vars PROVE ArchivalStep
  OBVIOUS
<1>1. CASE UNCHANGED backups
  BY <1>1 DEF ArchivalStep
<1>2. ASSUME NEW t \in Type, EmitGroup(t), ~UNCHANGED backups PROVE ArchivalStep
  <2>1. PICK m \in move(disk[t], Missing) : backups' = Append(backups, [file |-> t, content |-> m.dst])
    BY <1>2 DEF EmitGroup
  <2>2. m \in Outcome
    BY MoveType DEF TypeOK, Content
  <2>3. [file |-> t, content |-> m.dst] \in Backup
    BY <2>2 DEF Outcome, Backup
  <2>. QED BY <2>1, <2>3, BackupsGrow DEF ArchivalStep
<1>3. ASSUME RollbackFile, ~UNCHANGED backups PROVE ArchivalStep
  <2>1. PICK c \in DOMAIN emitted, e \in EmittedFile :
          c = cursor /\ e = emitted[c] /\ e.backup_path # 0 /\ RestoreFromBackup(e)
    BY <1>3 DEF RollbackFile, RemoveCreated, TypeOK
  <2>. DEFINE b == e.backup_path
  <2>2. b \in DOMAIN backups /\ backups[b] \in Backup /\ backups[b].file = e.path /\ e.path \in Type
    <3>1. emitted[c].backup_path \in 0 .. Len(backups) /\ DOMAIN backups = 1 .. Len(backups)
      BY DEF TypeOK
    <3>2. b \in DOMAIN backups
      BY <2>1, <3>1
    <3>. QED BY <2>1, <3>2 DEF TypeOK, EmittedFile, KInv, EntriesHarmless
  <2>3. PICK m \in move(backups[b].content, disk[e.path]) :
          /\ backups' = [backups EXCEPT ![b] = [backups[b] EXCEPT !.content = m.src]]
          /\ disk' = [disk EXCEPT ![e.path] = m.dst]
    BY <2>1 DEF RestoreFromBackup
  <2>4. m.src = backups[b].content \/ m.dst = backups[b].content
    BY <2>2, <2>3, MoveKeeps DEF TypeOK, Backup
  <2>5. disk'[e.path] = m.dst
    BY <2>2, <2>3 DEF TypeOK
  <2>6. /\ [backups[b] EXCEPT !.content = m.src].file = backups[b].file
        /\ [backups[b] EXCEPT !.content = m.src].content = m.src
    BY <2>2 DEF Backup
  <2>. QED BY <2>2, <2>3, <2>4, <2>5, <2>6 DEF ArchivalStep
<1>. QED BY <1>1, <1>2, <1>3
       DEF Next, Generate, WriteFile, EmitDone, Rollback, RollbackDone, Crash, vars

\* A backup stays as it is until it stands at the path it was taken from.
THEOREM BackupsAreArchival == Spec => BackupsArchival
<1>1. TypeOK /\ KInv /\ [Next]_vars => (TypeOK /\ KInv)'
  BY StepTypeOK, StepKInv
<1>2. TypeOK /\ KInv /\ [Next]_vars => [ArchivalStep]_vars
  BY StepArchival
<1>. QED BY InitTypeOK, InitKInv, <1>1, <1>2, PTL DEF Spec, BackupsArchival, ArchivalStep

----------------------------------------------------------------------------
EmittedPaths == {emitted[k].path : k \in DOMAIN emitted}

\* Rollback undoes one run: a path the run has not emitted stands as it did before it.
OthersStand ==
  pc # "Idle" \/ reply \in {"Generated", "RolledBack", "RollbackPartial"} =>
    \A t \in Type \ EmittedPaths : disk[t] = before[t] \/ (pc = "Write" /\ is_next(t))

\* What an entry brings back is what was there before the run, unless its backup is
\* used up: then it brings nothing back, and rollback says so.
Undoes(e) ==
  IF e.backup_path = 0 THEN before[e.path] = Missing
  ELSE backups[e.backup_path].content \in {before[e.path], Missing}

EntriesUndo == \A k \in DOMAIN emitted : Undoes(emitted[k])

BackupIsOfBefore ==
  pc = "Write" => \A t \in Type : is_next(t) =>
    IF backup_path = 0 THEN before[t] = Missing
    ELSE backups[backup_path].content = before[t]

\* The entries rollback has passed are restored or named as failed.
RestoredSoFar ==
  pc = "Rollback" => \A k \in DOMAIN emitted : k < cursor =>
    \/ emitted[k].path \in failures
    \/ disk[emitted[k].path] = before[emitted[k].path]

TruthInv ==
  OthersStand /\ EntriesUndo /\ BackupIsOfBefore /\ RestoredSoFar /\ RollbackTellsTruth

\* Without a list, a run under way or anything said of a rollback, nothing is claimed.
LEMMA NothingClaimed ==
  ASSUME pc' = "Idle", emitted' = <<>>, reply' \in {"None", "Err"}
  PROVE  TruthInv'
BY DEF TruthInv, OthersStand, EntriesUndo, BackupIsOfBefore, RestoredSoFar, RollbackTellsTruth

\* The types are numbered, so one group is the next.
LEMMA OneIsNext ==
  ASSUME NEW t \in Type, NEW u \in Type, is_next(t), is_next(u)
  PROVE  t = u
BY GeneratorConstants DEF is_next

\* The initial state satisfies the invariant of the rollback.
LEMMA InitTruth == Init => TruthInv
<1>. SUFFICES ASSUME Init PROVE TruthInv
  OBVIOUS
<1>1. DOMAIN emitted = {} /\ pc = "Idle" /\ reply = "None"
  BY DEF Init
<1>. QED BY <1>1 DEF TruthInv, OthersStand, EntriesUndo, BackupIsOfBefore, RestoredSoFar,
                     RollbackTellsTruth

\* A run begins with a list of nothing, and what is there is what was before it.
LEMMA GenerateTruth ==
  ASSUME NEW p \in Plans, Generate(p)
  PROVE  TruthInv'
<1>1. before' = disk /\ disk' = disk /\ emitted' = <<>> /\ DOMAIN <<>> = {}
  BY DEF Generate, Fail
<1>2. CASE pc' = "Idle"
  BY <1>2, NothingClaimed DEF Generate, Fail
<1>3. CASE pc' = "Emit"
  BY <1>1, <1>3
     DEF TruthInv, OthersStand, EntriesUndo, BackupIsOfBefore, RestoredSoFar, RollbackTellsTruth
<1>. QED BY <1>2, <1>3 DEF Generate, Fail

\* What emit backs up for a group is what was there before the run.
LEMMA EmitGroupTruth ==
  ASSUME TypeOK, KInv, TruthInv, NEW t \in Type, EmitGroup(t)
  PROVE  TruthInv'
<1>1. /\ todo' = todo /\ before' = before /\ pc = "Emit" /\ is_next(t) /\ t \in todo
      /\ reply' \in {reply, "Err"}
  BY DEF EmitGroup, Fail, is_next
<1>2. t \notin EmittedPaths
  BY <1>1 DEF EmittedPaths, KInv, OneEntryPerPath
<1>3. disk[t] = before[t]
  BY <1>1, <1>2 DEF TruthInv, OthersStand
<1>4. \A u \in Type : is_next(u)' => u = t
  <2>1. \A u \in Type : is_next(u)' => is_next(u)
    BY <1>1 DEF is_next
  <2>. QED BY <1>1, <2>1, OneIsNext
<1>5. is_next(t)'
  BY <1>1 DEF is_next
<1>6. CASE pc' = "Idle"
  BY <1>6, NothingClaimed DEF EmitGroup, Fail
<1>7. CASE renders(t) /\ Exists(t) /\ pc' # "Idle"
  <2>1. PICK m \in move(disk[t], Missing) :
          /\ disk' = [disk EXCEPT ![t] = m.src]
          /\ backups' = Append(backups, [file |-> t, content |-> m.dst])
          /\ m.result = "Ok" /\ pc' = "Write" /\ backup_path' = Len(backups')
          /\ UNCHANGED <<emitted, reply>>
    BY <1>7 DEF EmitGroup, Fail
  <2>2. m \in Outcome /\ m.dst = disk[t]
    BY <2>1, MoveType, MoveKeeps DEF TypeOK, Content
  <2>3. [file |-> t, content |-> m.dst] \in Backup
    BY <2>2 DEF Outcome, Backup
  <2>4. /\ Len(backups') = Len(backups) + 1
        /\ \A i \in DOMAIN backups : backups'[i] = backups[i]
        /\ backups'[Len(backups')] = [file |-> t, content |-> m.dst]
    BY <2>1, <2>3, BackupsGrow
  <2>5. \A u \in Type : u # t => disk'[u] = disk[u]
    BY <2>1 DEF TypeOK
  <2>6. OthersStand'
    BY <1>1, <1>5, <2>1, <2>5 DEF TruthInv, OthersStand, EmittedPaths
  <2>7. EntriesUndo'
    <3>1. \A k \in DOMAIN emitted : emitted[k].backup_path # 0 => emitted[k].backup_path \in DOMAIN backups
      BY DEF TypeOK
    <3>. QED BY <1>1, <2>1, <2>4, <3>1 DEF TruthInv, EntriesUndo, Undoes
  <2>8. BackupIsOfBefore'
    <3>1. backup_path' # 0 /\ backups'[backup_path'].content = before'[t]
      BY <1>1, <1>3, <2>1, <2>2, <2>4 DEF TypeOK
    <3>. QED BY <1>4, <3>1 DEF BackupIsOfBefore
  <2>. QED BY <2>1, <2>6, <2>7, <2>8 DEF TruthInv, RestoredSoFar, RollbackTellsTruth
<1>8. CASE renders(t) /\ ~Exists(t) /\ pc' # "Idle"
  <2>1. pc' = "Write" /\ backup_path' = 0 /\ UNCHANGED <<disk, backups, emitted, reply>>
    BY <1>8 DEF EmitGroup
  <2>2. BackupIsOfBefore'
    BY <1>1, <1>3, <1>4, <1>8, <2>1 DEF BackupIsOfBefore, Exists
  <2>3. OthersStand' /\ EntriesUndo'
    BY <1>1, <2>1 DEF TruthInv, OthersStand, EmittedPaths, EntriesUndo, Undoes
  <2>. QED BY <2>1, <2>2, <2>3 DEF TruthInv, RestoredSoFar, RollbackTellsTruth
<1>. QED BY <1>6, <1>7, <1>8 DEF EmitGroup, Fail

\* The write puts the group on the list together with its backup.
LEMMA WriteFileTruth ==
  ASSUME TypeOK, KInv, TruthInv, NEW t \in Type, WriteFile(t)
  PROVE  TruthInv'
<1>1. /\ backups' = backups /\ before' = before /\ pc = "Write" /\ is_next(t)
      /\ pc' \in {"Emit", "Idle"}
  BY DEF WriteFile, Fail
<1>2. CASE pc' = "Idle"
  BY <1>2, NothingClaimed DEF WriteFile, Fail
<1>3. CASE pc' = "Emit"
  <2>. DEFINE e == [path |-> t, backup_path |-> backup_path]
  <2>1. /\ emitted' = Append(emitted, e) /\ e \in EmittedFile
        /\ disk' = [disk EXCEPT ![t] = hcl(plan[t])]
    BY <1>3 DEF WriteFile, Fail, TypeOK, EmittedFile
  <2>2. /\ DOMAIN emitted' = DOMAIN emitted \cup {Len(emitted) + 1}
        /\ \A k \in DOMAIN emitted : emitted'[k] = emitted[k]
        /\ emitted'[Len(emitted) + 1] = e
    BY <2>1 DEF TypeOK
  <2>3. EmittedPaths' = EmittedPaths \cup {t}
    <3>1. \A k \in DOMAIN emitted : k # Len(emitted) + 1
      BY DEF TypeOK
    <3>. QED BY <2>2, <3>1 DEF EmittedPaths
  <2>4. OthersStand'
    <3>1. \A u \in Type : u # t => disk'[u] = disk[u] /\ ~is_next(u)
      BY <1>1, <2>1, OneIsNext DEF TypeOK
    <3>. QED BY <1>1, <2>3, <3>1 DEF TruthInv, OthersStand
  <2>5. EntriesUndo'
    <3>1. Undoes(e)
      BY <1>1 DEF TruthInv, BackupIsOfBefore, Undoes
    <3>2. \A k \in DOMAIN emitted' : Undoes(emitted'[k])
      BY <2>2, <3>1 DEF TruthInv, EntriesUndo
    <3>. QED BY <1>1, <3>2 DEF EntriesUndo, Undoes
  <2>. QED BY <1>3, <2>4, <2>5 DEF TruthInv, BackupIsOfBefore, RestoredSoFar, RollbackTellsTruth
<1>. QED BY <1>1, <1>2, <1>3

\* What rollback makes of an entry: its path is as before the run, or is named.
LEMMA RollbackFileTruth ==
  ASSUME TypeOK, KInv, TruthInv, RollbackFile
  PROVE  TruthInv'
<1>0. PICK c \in DOMAIN emitted, e \in EmittedFile : c = cursor /\ e = emitted[c]
  BY DEF RollbackFile, TypeOK
<1>. DEFINE t == e.path
            b == e.backup_path
<1>1. /\ emitted' = emitted /\ before' = before /\ pc' = pc /\ pc = "Rollback"
      /\ cursor' = cursor + 1 /\ reply' = reply
      /\ \/ b # 0 /\ RestoreFromBackup(e)
         \/ b = 0 /\ RemoveCreated(e)
  BY <1>0 DEF RollbackFile
<1>2. t \in Type /\ Undoes(e) /\ t \in EmittedPaths
  BY <1>0 DEF EmittedFile, TruthInv, EntriesUndo, EmittedPaths
<1>3. /\ \A u \in Type : u # t => disk'[u] = disk[u]
      /\ failures' \in {failures, failures \cup {t}}
      /\ t \in failures' \/ disk'[t] = before[t]
      /\ EntriesUndo'
  <2>1. CASE b = 0 /\ RemoveCreated(e)
    <3>1. /\ backups' = backups
          /\ \/ disk' = [disk EXCEPT ![t] = Missing] /\ failures' = failures
             \/ disk' = disk /\ failures' = failures \cup {t}
      BY <2>1 DEF RemoveCreated, Restored
    <3>2. EntriesUndo'
      BY <1>1, <3>1 DEF TruthInv, EntriesUndo, Undoes
    <3>. QED BY <1>2, <2>1, <3>1, <3>2 DEF TypeOK, Undoes
  <2>2. CASE b # 0 /\ RestoreFromBackup(e)
    <3>1. PICK m \in move(backups[b].content, disk[t]) :
            /\ backups' = [backups EXCEPT ![b].content = m.src]
            /\ disk' = [disk EXCEPT ![t] = m.dst]
            /\ Restored(t, m.result)
      BY <2>2 DEF RestoreFromBackup
    <3>2. /\ b \in DOMAIN backups /\ backups[b] \in Backup /\ backups[b].file = t
          /\ backups[b].content \in Content /\ disk[t] \in Content
      <4>1. emitted[c].backup_path \in 0 .. Len(backups)
        BY DEF TypeOK
      <4>2. b \in DOMAIN backups
        BY <1>0, <2>2, <4>1 DEF TypeOK
      <4>3. backups[b].file = t
        BY <1>0, <2>2 DEF KInv, EntriesHarmless
      <4>4. backups[b] \in Backup /\ disk[t] \in Content
        BY <1>2, <4>2 DEF TypeOK
      <4>. QED BY <4>2, <4>3, <4>4 DEF Backup
    <3>3. /\ m \in Outcome
          /\ m.src \in {backups[b].content, Missing}
          /\ backups[b].content = Missing => m.result # "Ok"
          /\ m.result = "Ok" => m.dst = backups[b].content
      BY <3>1, <3>2, MoveType, MoveKeeps DEF move
    <3>4. /\ \A i \in DOMAIN backups : i # b => backups'[i] = backups[i]
          /\ backups'[b].content = m.src
      <4>1. backups' = [backups EXCEPT ![b] = [backups[b] EXCEPT !.content = m.src]]
        BY <3>1
      <4>2. [backups[b] EXCEPT !.content = m.src].content = m.src
        BY <3>2 DEF Backup
      <4>. QED BY <3>2, <4>1, <4>2
    <3>5. disk'[t] = m.dst /\ \A u \in Type : u # t => disk'[u] = disk[u]
      BY <1>2, <3>1 DEF TypeOK
    <3>6. /\ failures' \in {failures, failures \cup {t}}
          /\ m.result # "Ok" => t \in failures'
      BY <3>1 DEF Restored
    <3>7. t \in failures' \/ disk'[t] = before[t]
      BY <1>2, <2>2, <3>3, <3>5, <3>6 DEF Undoes
    <3>8. EntriesUndo'
      <4>1. Undoes(e)'
        BY <1>1, <1>2, <2>2, <3>3, <3>4 DEF Undoes
      <4>2. ASSUME NEW k \in DOMAIN emitted, k # c PROVE Undoes(emitted[k])'
        <5>1. emitted[k].path # t
          BY <1>0, <4>2 DEF KInv, OneEntryPerPath
        <5>2. emitted[k].backup_path # 0 =>
                emitted[k].backup_path \in DOMAIN backups /\ emitted[k].backup_path # b
          BY <3>2, <5>1 DEF KInv, EntriesHarmless, TypeOK
        <5>3. Undoes(emitted[k])
          BY DEF TruthInv, EntriesUndo
        <5>. QED BY <1>1, <3>4, <5>2, <5>3 DEF Undoes
      <4>. QED BY <1>0, <1>1, <4>1, <4>2 DEF EntriesUndo
    <3>. QED BY <3>5, <3>6, <3>7, <3>8
  <2>. QED BY <1>1, <2>1, <2>2
<1>4. OthersStand'
  BY <1>1, <1>2, <1>3 DEF TruthInv, OthersStand, EmittedPaths
<1>5. RestoredSoFar'
  <2>. SUFFICES ASSUME NEW k \in DOMAIN emitted, k < cursor + 1
                PROVE  \/ emitted[k].path \in failures'
                       \/ disk'[emitted[k].path] = before[emitted[k].path]
    BY <1>1 DEF RestoredSoFar
  <2>1. CASE k = c
    BY <1>0, <1>3, <2>1
  <2>2. CASE k # c
    <3>1. k < cursor
      BY <1>0, <2>2 DEF TypeOK
    <3>2. emitted[k].path # t
      BY <1>0, <2>2 DEF KInv, OneEntryPerPath
    <3>3. emitted[k] \in EmittedFile
      BY DEF TypeOK
    <3>. QED BY <1>1, <1>3, <3>1, <3>2, <3>3 DEF EmittedFile, TruthInv, RestoredSoFar
  <2>. QED BY <2>1, <2>2
<1>. QED BY <1>1, <1>3, <1>4, <1>5 DEF TruthInv, BackupIsOfBefore, RollbackTellsTruth

\* Once every entry is passed, what rollback says covers every path.
LEMMA RollbackDoneTruth ==
  ASSUME TypeOK, TruthInv, RollbackDone
  PROVE  TruthInv'
<1>1. /\ pc = "Rollback" /\ pc' = "Idle" /\ cursor > Len(emitted)
      /\ reply' = IF failures = {} THEN "RolledBack" ELSE "RollbackPartial"
      /\ UNCHANGED <<disk, backups, emitted, failures, before>>
  BY DEF RollbackDone
<1>2. \A t \in Type \ failures : disk[t] = before[t]
  <2>1. \A k \in DOMAIN emitted : k < cursor
    BY <1>1 DEF TypeOK
  <2>. QED BY <1>1, <2>1 DEF TruthInv, OthersStand, RestoredSoFar, EmittedPaths
<1>3. OthersStand' /\ EntriesUndo'
  BY <1>1 DEF TruthInv, OthersStand, EmittedPaths, EntriesUndo, Undoes
<1>. QED BY <1>1, <1>2, <1>3 DEF TruthInv, BackupIsOfBefore, RestoredSoFar, RollbackTellsTruth

\* Every step keeps the invariant of the rollback.
LEMMA StepTruth == TypeOK /\ KInv /\ TruthInv /\ [Next]_vars => TruthInv'
<1>. SUFFICES ASSUME TypeOK, KInv, TruthInv, [Next]_vars PROVE TruthInv'
  OBVIOUS
<1>1. CASE \E p \in Plans : Generate(p)
  BY <1>1, GenerateTruth
<1>2. CASE \E t \in Type : EmitGroup(t)
  BY <1>2, EmitGroupTruth
<1>3. CASE \E t \in Type : WriteFile(t)
  BY <1>3, WriteFileTruth
<1>4. CASE EmitDone
  <2>1. /\ pc = "Emit" /\ pc' = "Idle" /\ reply' = "Generated"
        /\ UNCHANGED <<disk, backups, emitted, before>>
    BY <1>4 DEF EmitDone
  <2>. QED BY <2>1 DEF TruthInv, OthersStand, EmittedPaths, EntriesUndo, Undoes,
                       BackupIsOfBefore, RestoredSoFar, RollbackTellsTruth
<1>5. CASE Rollback
  <2>1. /\ pc = "Idle" /\ reply \in {"Generated", "RolledBack", "RollbackPartial"}
        /\ pc' = "Rollback" /\ cursor' = 1
        /\ UNCHANGED <<disk, backups, emitted, reply, before>>
    BY <1>5 DEF Rollback
  <2>2. \A k \in DOMAIN emitted : ~(k < 1)
    BY DEF TypeOK
  <2>. QED BY <2>1, <2>2 DEF TruthInv, OthersStand, EmittedPaths, EntriesUndo, Undoes,
                       BackupIsOfBefore, RestoredSoFar, RollbackTellsTruth
<1>6. CASE RollbackFile
  BY <1>6, RollbackFileTruth
<1>7. CASE RollbackDone
  BY <1>7, RollbackDoneTruth
<1>8. CASE Crash
  BY <1>8, NothingClaimed DEF Crash
<1>9. CASE UNCHANGED vars
  BY <1>9 DEF vars, TruthInv, OthersStand, EmittedPaths, EntriesUndo, Undoes,
              BackupIsOfBefore, RestoredSoFar, RollbackTellsTruth, is_next
<1>. QED BY <1>1, <1>2, <1>3, <1>4, <1>5, <1>6, <1>7, <1>8, <1>9 DEF Next

\* What rollback says is so: a path it does not name as failed stands as it did before
\* the run, however many rollbacks, failures and crashes came before.
THEOREM RollbackSaysWhatItDid == Spec => []RollbackTellsTruth
<1>1. TypeOK /\ KInv /\ TruthInv /\ [Next]_vars => (TypeOK /\ KInv /\ TruthInv)'
  BY StepTypeOK, StepKInv, StepTruth
<1>2. TruthInv => RollbackTellsTruth
  BY DEF TruthInv
<1>. QED BY InitTypeOK, InitKInv, InitTruth, <1>1, <1>2, PTL DEF Spec
=============================================================================

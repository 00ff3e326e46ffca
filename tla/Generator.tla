------------------------------ MODULE Generator ------------------------------
(***************************************************************************)
(* libs/engine/src/generator: emit, which writes one .tf file per resource *)
(* type behind a backup of the file it replaces, and rollback, which puts  *)
(* the backups of one emit back (emitter.rs, backup.rs, mod.rs).           *)
(*                                                                         *)
(* Every call into the file system may fail, and the process may end       *)
(* between two of them.  Of a file it matters only whose content it has:   *)
(* the user's, a rendered plan's, or part of one.  The caller is one that  *)
(* rolls back the artifacts of its last run or of none, any number of      *)
(* times; nobody else writes below output_dir.                             *)
(***************************************************************************)
EXTENDS Integers, Sequences, FiniteSets

CONSTANTS Type,          \* resource types, numbered in the order of their names
          Template,      \* those the registry has a template for
          Body,          \* what the resources of a type may render to
          Unrenderable,  \* resources a template refuses
          Plans,         \* by type, what a plan has of it
          MaxRuns        \* BOUND: runs of generate

Plan == UNION {[S -> Body \cup {Unrenderable}] : S \in SUBSET Type}

ASSUME GeneratorConstants ==
  /\ Type \subseteq Int /\ Template \subseteq Type
  /\ Unrenderable \notin Body
  /\ Plans \subseteq Plan
  /\ MaxRuns \in Nat

VARIABLES
  disk,          \* what is at <output_dir>/<type>.tf
  backups,       \* one per op_uuid: the file and what is there of it
  pc,
  plan,
  todo,          \* groups not emitted yet
  backup_path,   \* of the group being emitted; 0 for None
  emitted,       \* the run's list of emitted files, then the artifacts' one
  cursor,        \* of the loop over it in rollback
  failures,      \* paths rollback could not restore
  reply,         \* what the caller was told last
  runs,
  original,      \* history: the disk at the start
  before         \* history: the disk when the last run began

vars == <<disk, backups, pc, plan, todo, backup_path, emitted, cursor, failures, reply,
          runs, original, before>>

Missing == <<"missing">>
Torn == <<"torn">>
User == <<"user">>
hcl(body) == <<"hcl", body>>

Content == {Missing, Torn, User} \cup {hcl(b) : b \in Body}

Backup == [file : Type, content : Content]

EmittedFile == [path : Type, backup_path : Nat]

----------------------------------------------------------------------------
\* A variant with a bug: the source is removed though the copy failed.
move_removing_anyway(content, old) ==
  {[src |-> Missing, dst |-> content, result |-> "Ok"],
   [src |-> content, dst |-> old, result |-> "Err"],
   [src |-> Missing, dst |-> Torn, result |-> "Err"]}

\* What becomes of a file with this content and of what it is moved over: a rename,
\* or across devices a copy and a removal, each of which may fail.
move(content, old) ==
  IF content = Missing THEN {[src |-> Missing, dst |-> old, result |-> "Err"]}
  ELSE {[src |-> Missing, dst |-> content, result |-> "Ok"],
        [src |-> content, dst |-> old, result |-> "Err"],
        [src |-> content, dst |-> Torn, result |-> "Err"],
        [src |-> content, dst |-> content, result |-> "Err"]}

Init ==
  /\ disk \in [Type -> {Missing, User}]
  /\ backups = <<>>
  /\ pc = "Idle"
  /\ plan = [t \in {} |-> Unrenderable]
  /\ todo = {}
  /\ backup_path = 0
  /\ emitted = <<>>
  /\ cursor = 1
  /\ failures = {}
  /\ reply = "None"
  /\ runs = 0
  /\ original = disk
  /\ before = disk

\* An error of emit: the list of what it emitted goes with it.
Fail ==
  /\ pc' = "Idle"
  /\ emitted' = <<>>
  /\ reply' = "Err"

Generate(p) ==
  /\ pc = "Idle" /\ runs < MaxRuns
  /\ runs' = runs + 1
  /\ before' = disk
  /\ \/ /\ pc' = "Emit" /\ plan' = p /\ todo' = DOMAIN p
        /\ emitted' = <<>> /\ reply' = "None"
     \/ (\A t \in Type : disk[t] = Missing) /\ Fail /\ UNCHANGED <<plan, todo>>
  /\ failures' = {}
  /\ UNCHANGED <<disk, backups, backup_path, cursor, original>>

\* The groups come out of a BTreeMap.
is_next(t) == t \in todo /\ \A u \in todo : t <= u

renders(t) == t \in Template /\ plan[t] # Unrenderable

\* A variant with a bug: a file is replaced without a backup when one is there already.
NotBackedUpYet(t) == disk[t] # Missing /\ \A i \in DOMAIN backups : backups[i].file # t

\* The file is there before the write.
Exists(t) == disk[t] # Missing

EmitGroup(t) ==
  /\ pc = "Emit" /\ is_next(t)
  /\ \/ /\ ~renders(t)
        /\ Fail
        /\ UNCHANGED <<disk, backups, backup_path>>
     \/ /\ renders(t) /\ Exists(t)
        /\ \E m \in move(disk[t], Missing) :
             /\ disk' = [disk EXCEPT ![t] = m.src]
             /\ backups' = Append(backups, [file |-> t, content |-> m.dst])
             /\ IF m.result = "Ok" THEN /\ pc' = "Write" /\ backup_path' = Len(backups')
                             /\ UNCHANGED <<emitted, reply>>
                        ELSE Fail /\ UNCHANGED backup_path
     \/ /\ renders(t) /\ ~Exists(t)
        /\ pc' = "Write" /\ backup_path' = 0
        /\ UNCHANGED <<disk, backups, emitted, reply>>
  /\ UNCHANGED <<plan, todo, cursor, failures, runs, original, before>>

\* A write that fails leaves what was there, or a part of what was to be.
WriteFile(t) ==
  /\ pc = "Write" /\ is_next(t)
  /\ \/ /\ disk' = [disk EXCEPT ![t] = hcl(plan[t])]
        /\ emitted' = Append(emitted, [path |-> t, backup_path |-> backup_path])
        /\ pc' = "Emit"
        /\ UNCHANGED reply
     \/ Fail /\ disk' \in {disk, [disk EXCEPT ![t] = Torn]}
  /\ todo' = todo \ {t}
  /\ UNCHANGED <<backups, plan, backup_path, cursor, failures, runs, original, before>>

EmitDone ==
  /\ pc = "Emit" /\ todo = {}
  /\ pc' = "Idle" /\ reply' = "Generated"
  /\ UNCHANGED <<disk, backups, plan, todo, backup_path, emitted, cursor, failures, runs,
                 original, before>>

----------------------------------------------------------------------------
\* The caller still has the artifacts of the last run.
Rollback ==
  /\ pc = "Idle" /\ reply \in {"Generated", "RolledBack", "RollbackPartial"}
  /\ pc' = "Rollback"
  /\ cursor' = 1
  /\ failures' = {}
  /\ UNCHANGED <<disk, backups, plan, todo, backup_path, emitted, reply, runs, original, before>>

Restored(path, result) ==
  failures' = IF result = "Ok" THEN failures ELSE failures \cup {path}

RestoreFromBackup(e) ==
  \E m \in move(backups[e.backup_path].content, disk[e.path]) :
    /\ backups' = [backups EXCEPT ![e.backup_path].content = m.src]
    /\ disk' = [disk EXCEPT ![e.path] = m.dst]
    /\ Restored(e.path, m.result)

\* A variant with a bug: a file that was not there before stays.
KeepCreated(e) == UNCHANGED <<disk, backups, failures>>

RemoveCreated(e) ==
  /\ \/ disk' = [disk EXCEPT ![e.path] = Missing] /\ Restored(e.path, "Ok")
     \/ disk[e.path] # Missing /\ UNCHANGED disk /\ Restored(e.path, "Err")
  /\ UNCHANGED backups

\* Each file is tried, whatever became of those before it.
RollbackFile ==
  /\ pc = "Rollback" /\ cursor <= Len(emitted)
  /\ LET e == emitted[cursor] IN
     \/ e.backup_path # 0 /\ RestoreFromBackup(e)
     \/ e.backup_path = 0 /\ RemoveCreated(e)
  /\ cursor' = cursor + 1
  /\ UNCHANGED <<pc, plan, todo, backup_path, emitted, reply, runs, original, before>>

RollbackDone ==
  /\ pc = "Rollback" /\ cursor > Len(emitted)
  /\ pc' = "Idle"
  /\ reply' = IF failures = {} THEN "RolledBack" ELSE "RollbackPartial"
  /\ UNCHANGED <<disk, backups, plan, todo, backup_path, emitted, cursor, failures, runs,
                 original, before>>

\* The process ends. A write under way may have got half its way.
Crash ==
  /\ pc # "Idle"
  /\ \/ UNCHANGED disk
     \/ \E t \in Type : pc = "Write" /\ is_next(t) /\ disk' = [disk EXCEPT ![t] = Torn]
  /\ pc' = "Idle" /\ emitted' = <<>> /\ reply' = "None"
  /\ UNCHANGED <<backups, plan, todo, backup_path, cursor, failures, runs, original, before>>

Next ==
  \/ \E p \in Plans : Generate(p)
  \/ \E t \in Type : EmitGroup(t) \/ WriteFile(t)
  \/ EmitDone
  \/ Rollback \/ RollbackFile \/ RollbackDone
  \/ Crash

Spec == Init /\ [][Next]_vars

----------------------------------------------------------------------------
TypeOK ==
  /\ disk \in [Type -> Content]
  /\ backups \in Seq(Backup)
  /\ pc \in {"Idle", "Emit", "Write", "Rollback"}
  /\ todo \subseteq Type
  /\ pc \in {"Emit", "Write"} => todo \subseteq DOMAIN plan
  /\ plan \in Plan
  /\ pc = "Write" => \E t \in todo : is_next(t) /\ plan[t] \in Body
  /\ backup_path \in 0 .. Len(backups)
  /\ emitted \in Seq(EmittedFile)
  /\ \A k \in DOMAIN emitted : emitted[k].backup_path \in 0 .. Len(backups)
  /\ cursor \in Nat \ {0}
  /\ failures \subseteq Type
  /\ reply \in {"None", "Err", "Generated", "RolledBack", "RollbackPartial"}
  /\ runs \in 0 .. MaxRuns
  /\ original \in [Type -> {Missing, User}]
  /\ before \in [Type -> Content]

\* Article V: what the user had at a path is there or in a backup of it, at every
\* moment, whatever fails, wherever the process ends, and however often a run or a
\* rollback is tried again.
NothingLost ==
  \A t \in Type : original[t] = User =>
    \/ disk[t] = User
    \/ \E i \in DOMAIN backups : backups[i].file = t /\ backups[i].content = User

\* What rollback says is so: every path it does not name as failed stands as it did
\* before the run, the paths the run never reached and the ones it created included.
RollbackTellsTruth ==
  /\ reply \in {"RolledBack", "RollbackPartial"} /\ pc = "Idle" =>
       \A t \in Type \ failures : disk[t] = before[t]
  /\ reply = "RolledBack" /\ pc = "Idle" => failures = {}

\* Article IX: a backup stays as it is until it stands at the path it was taken from.
BackupsArchival ==
  [][\A i \in DOMAIN backups :
       /\ i \in DOMAIN backups'
       /\ backups'[i].file = backups[i].file
       /\ backups'[i].content # backups[i].content =>
            disk'[backups[i].file] = backups[i].content]_vars
=============================================================================

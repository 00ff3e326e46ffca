------------------------ MODULE SchemaCatalog_proofs ------------------------
(***************************************************************************)
(* For every number of processes, readers, schemas, captures and commands: *)
(* an entry of the manifest is in the audit log; a command that runs alone *)
(* leaves the manifest whole; commands that run one after the other leave  *)
(* an exact index, and a gc no more than it keeps; an invalidated schema   *)
(* stays out of memory.                                                    *)
(***************************************************************************)
EXTENDS SchemaCatalog, FiniteSetTheorems, TLAPS

Fields == {"pc", "command", "schemas", "todo", "capture", "ok"}

\* What a step reads of a process is there.
Shape ==
  /\ process = [p \in Processes |-> process[p]]
  /\ \A p \in Processes : DOMAIN process[p] = Fields

Audited(schemas) == \A s \in DOMAIN schemas : <<s, schemas[s]>> \in audited

\* A command's copy of the manifest is audited while it may still be saved, but for
\* the capture that is written and not appended yet.
CopiesAreAudited ==
  \A p \in Processes :
    /\ process[p].pc \in {"each", "write", "save"} => Audited(process[p].schemas)
    /\ process[p].pc = "audit" =>
         \A s \in DOMAIN process[p].schemas :
           \/ <<s, process[p].schemas[s]>> \in audited
           \/ s = Target(p) /\ process[p].schemas[s] = process[p].capture

AuditInv ==
  Shape /\ Audited(manifest.schemas) /\ Audited(tmp.schemas) /\ CopiesAreAudited

----------------------------------------------------------------------------
\* The initial state satisfies the invariant.
LEMMA InitAuditInv == Init => AuditInv
  BY DEF Init, AuditInv, Shape, Fields, Audited, CopiesAreAudited, Idle, NoFile, Manifest,
         NoEntries

\* A step of one command that leaves the disk alone, or only adds to the audit log,
\* keeps the invariant if the process it leaves behind satisfies it.
LEMMA ProcessStep ==
  ASSUME AuditInv, NEW p \in Processes, NEW s,
         process' = [process EXCEPT ![p] = s], DOMAIN s = Fields,
         s.pc # "audit",
         s.pc \in {"each", "write", "save"} =>
            \A k \in DOMAIN s.schemas : <<k, s.schemas[k]>> \in audited',
         audited \subseteq audited',
         Audited(manifest.schemas)', Audited(tmp.schemas)'
  PROVE  AuditInv'
  BY DEF AuditInv, Shape, CopiesAreAudited, Audited, Target

\* A process without a command holds no entries.
LEMMA IdleHasFields == DOMAIN Idle = Fields /\ Idle.pc = "idle" /\ Idle.schemas = <<>>
  BY DEF Idle, Fields, NoEntries

\* The end of a command adds no entry.
LEMMA EndsStep ==
  ASSUME AuditInv, NEW p \in Processes, NEW ok, Ends(p, ok), audited' = audited,
         manifest' = manifest, Audited(tmp.schemas)'
  PROVE  AuditInv'
<1>. DEFINE s == [process[p] EXCEPT !.pc = "end", !.ok = ok]
<1>1. process' = [process EXCEPT ![p] = s]
  BY DEF Ends, AuditInv, Shape
<1>2. DOMAIN s = Fields /\ s.pc = "end"
  BY DEF AuditInv, Shape, Fields
<1>3. Audited(manifest.schemas)'
  BY DEF AuditInv, Audited
<1>. QED BY <1>1, <1>2, <1>3, ProcessStep

\* Going on to the next target keeps entries that are audited.
LEMMA NextTargetStep ==
  ASSUME AuditInv, NEW p \in Processes, NEW schemas, NEW ok, NextTarget(p, schemas, ok),
         \A k \in DOMAIN schemas : <<k, schemas[k]>> \in audited',
         audited \subseteq audited', manifest' = manifest, tmp' = tmp
  PROVE  AuditInv'
<1>. DEFINE s == [process[p] EXCEPT !.todo = Tail(@), !.schemas = schemas,
                                    !.ok = @ /\ ok, !.capture = Absent, !.pc = "each"]
<1>1. process' = [process EXCEPT ![p] = s]
  BY DEF NextTarget, AuditInv, Shape
<1>2. DOMAIN s = Fields /\ s.pc = "each" /\ s.schemas = schemas
  BY DEF AuditInv, Shape, Fields
<1>3. Audited(manifest.schemas)' /\ Audited(tmp.schemas)'
  BY DEF AuditInv, Audited
<1>. QED BY <1>1, <1>2, <1>3, ProcessStep

\* A process that does nothing but go on with the copy it has.
LEMMA GotoStep ==
  ASSUME AuditInv, NEW p \in Processes, NEW pc, Goto(p, pc), pc # "audit",
         At(p, "each") \/ At(p, "save"), audited' = audited,
         Audited(manifest.schemas)', Audited(tmp.schemas)'
  PROVE  AuditInv'
<1>. DEFINE s == [process[p] EXCEPT !.pc = pc]
<1>1. process' = [process EXCEPT ![p] = s]
  BY DEF Goto, AuditInv, Shape
<1>2. DOMAIN s = Fields /\ s.pc = pc /\ s.schemas = process[p].schemas
  BY DEF AuditInv, Shape, Fields
<1>3. \A k \in DOMAIN s.schemas : <<k, s.schemas[k]>> \in audited'
  BY <1>2 DEF AuditInv, CopiesAreAudited, Audited, At
<1>. QED BY <1>1, <1>2, <1>3, ProcessStep

\* A step of a command writes only entries that are audited.
LEMMA CommandKeepsAudit ==
  ASSUME AuditInv, NEW p \in Processes, CommandStep(p)
  PROVE  AuditInv'
<1>1. /\ Audited(manifest.schemas) /\ Audited(tmp.schemas)
      /\ process[p].pc \in {"each", "write", "save"} => Audited(process[p].schemas)
  BY DEF AuditInv, CopiesAreAudited
<1>2. DiskUnchanged => /\ audited' = audited /\ manifest' = manifest /\ tmp' = tmp
                       /\ Audited(manifest.schemas)' /\ Audited(tmp.schemas)'
  BY <1>1 DEF DiskUnchanged, Audited
<1>3. CASE Start(p)
  <2>1. PICK c \in Commands :
          process' = [process EXCEPT ![p] = [Idle EXCEPT !.pc = "load", !.command = c]]
    BY <1>3 DEF Start
  <2>2. /\ DOMAIN [Idle EXCEPT !.pc = "load", !.command = c] = Fields
        /\ [Idle EXCEPT !.pc = "load", !.command = c].pc = "load"
    BY DEF Idle, Fields
  <2>. QED BY <1>3, <1>2, <2>1, <2>2, ProcessStep DEF Start
<1>4. CASE Load(p)
  <2>1. DiskUnchanged
    BY <1>4 DEF Load
  <2>2. ASSUME NEW todo, process' = [process EXCEPT ![p].schemas = manifest.schemas,
                                                    ![p].todo = todo, ![p].pc = "each"]
        PROVE  AuditInv'
    <3>. DEFINE s == [process[p] EXCEPT !.schemas = manifest.schemas, !.todo = todo,
                                        !.pc = "each"]
    <3>1. process' = [process EXCEPT ![p] = s]
      BY <2>2 DEF AuditInv, Shape
    <3>2. DOMAIN s = Fields /\ s.pc = "each" /\ s.schemas = manifest.schemas
      BY DEF AuditInv, Shape, Fields
    <3>3. \A k \in DOMAIN s.schemas : <<k, s.schemas[k]>> \in audited'
      BY <1>1, <1>2, <2>1, <3>2 DEF Audited
    <3>. QED BY <1>2, <2>1, <3>1, <3>2, <3>3, ProcessStep
  <2>3. ASSUME NEW ok, Ends(p, ok) PROVE AuditInv'
    BY <1>2, <2>1, <2>3, EndsStep
  <2>. QED BY <1>4, <2>2, <2>3 DEF Load
<1>5. CASE FetchFails(p)
  BY <1>5, <1>1, <1>2, NextTargetStep DEF FetchFails, At, Audited
<1>6. CASE Fetch(p)
  <2>. DEFINE s == [process[p] EXCEPT !.pc = "write", !.capture = captures + 1]
  <2>1. process' = [process EXCEPT ![p] = s]
    BY <1>6 DEF Fetch, AuditInv, Shape
  <2>2. DOMAIN s = Fields /\ s.pc = "write" /\ s.schemas = process[p].schemas
    BY DEF AuditInv, Shape, Fields
  <2>3. /\ audited' = audited /\ manifest' = manifest /\ tmp' = tmp
        /\ Audited(process[p].schemas)
    BY <1>6, <1>1 DEF Fetch, At
  <2>4. Audited(manifest.schemas)' /\ Audited(tmp.schemas)'
    BY <1>1, <2>3 DEF Audited
  <2>5. \A k \in DOMAIN s.schemas : <<k, s.schemas[k]>> \in audited'
    BY <2>2, <2>3 DEF Audited
  <2>. QED BY <2>1, <2>2, <2>3, <2>4, <2>5, ProcessStep
<1>7. CASE AppendAudit(p)
  <2>1. /\ audited' = audited \cup {<<Target(p), process[p].capture>>}
        /\ manifest' = manifest /\ tmp' = tmp
        /\ NextTarget(p, process[p].schemas, TRUE)
    BY <1>7 DEF AppendAudit
  <2>2. \A k \in DOMAIN process[p].schemas : <<k, process[p].schemas[k]>> \in audited'
    BY <1>7, <2>1 DEF AppendAudit, At, AuditInv, CopiesAreAudited
  <2>. QED BY <2>1, <2>2, NextTargetStep
<1>8. CASE RemoveDir(p)
  <2>1. /\ audited' = audited /\ manifest' = manifest /\ tmp' = tmp
        /\ NextTarget(p, remove(process[p].schemas, Target(p)), TRUE)
        /\ Audited(process[p].schemas)
    BY <1>8, <1>1 DEF RemoveDir, At
  <2>2. \A k \in DOMAIN remove(process[p].schemas, Target(p)) :
          <<k, remove(process[p].schemas, Target(p))[k]>> \in audited'
    BY <2>1 DEF remove, Audited
  <2>. QED BY <2>1, <2>2, NextTargetStep
<1>9. CASE RemoveDirFails(p)
  <2>1. /\ audited' = audited /\ manifest' = manifest /\ tmp' = tmp
        /\ NextTarget(p, process[p].schemas, FALSE)
        /\ Audited(process[p].schemas)
    BY <1>9, <1>1 DEF RemoveDirFails, At
  <2>. QED BY <2>1, NextTargetStep DEF Audited
<1>10. CASE Check(p)
  <2>1. /\ NextTarget(p, process[p].schemas, matches(process[p].schemas, Target(p)))
        /\ Audited(process[p].schemas) /\ DiskUnchanged
    BY <1>10, <1>1 DEF Check, At
  <2>. QED BY <1>2, <2>1, NextTargetStep DEF Audited
<1>11. CASE CaptureFails(p) \/ Verdict(p) \/ ShowSchema(p) \/ SaveFails(p)
  <2>1. DiskUnchanged /\ \E ok : Ends(p, ok)
    BY <1>11 DEF CaptureFails, Verdict, ShowSchema, SaveFails
  <2>. QED BY <1>2, <2>1, EndsStep
<1>12. CASE SaveBegins(p)
  <2>1. /\ audited' = audited /\ manifest' = manifest /\ tmp' = TornFile
        /\ Goto(p, "save") /\ At(p, "each")
    BY <1>12 DEF SaveBegins
  <2>2. Audited(manifest.schemas)' /\ Audited(tmp.schemas)'
    BY <1>1, <2>1 DEF Audited, TornFile, Manifest, NoEntries
  <2>. QED BY <2>1, <2>2, GotoStep
<1>13. CASE SaveWritten(p)
  <2>1. /\ audited' = audited /\ manifest' = manifest /\ tmp' = Whole(process[p].schemas)
        /\ Goto(p, "rename") /\ At(p, "save") /\ Audited(process[p].schemas)
    BY <1>13, <1>1 DEF SaveWritten, At
  <2>2. Audited(manifest.schemas)' /\ Audited(tmp.schemas)'
    BY <1>1, <2>1 DEF Audited, Whole, Manifest
  <2>. QED BY <2>1, <2>2, GotoStep
<1>14. CASE Rename(p)
  <2>. DEFINE s == [process[p] EXCEPT !.pc = "end", !.ok = process[p].ok]
  <2>1. /\ audited' = audited /\ manifest' = tmp /\ tmp' = NoFile
        /\ process' = [process EXCEPT ![p] = s]
    BY <1>14 DEF Rename, Ends, AuditInv, Shape
  <2>2. DOMAIN s = Fields /\ s.pc = "end"
    BY DEF AuditInv, Shape, Fields
  <2>3. Audited(manifest.schemas)' /\ Audited(tmp.schemas)'
    BY <1>1, <2>1 DEF Audited, NoFile, Manifest, NoEntries
  <2>. QED BY <2>1, <2>2, <2>3, ProcessStep
<1>15. CASE Exit(p) \/ Crash(p)
  <2>1. DiskUnchanged /\ process' = [process EXCEPT ![p] = Idle]
    BY <1>15 DEF Exit, Crash
  <2>. QED BY <1>2, <2>1, IdleHasFields, ProcessStep
<1>. QED BY <1>3, <1>4, <1>5, <1>6, <1>7, <1>8, <1>9, <1>10, <1>11, <1>12, <1>13, <1>14,
            <1>15 DEF CommandStep

\* The copy with a schema just written is saved only behind its audit.
LEMMA WriteKeepsAudit ==
  ASSUME AuditInv, NEW p \in Processes, WriteSchema(p)
  PROVE  AuditInv'
<1>. DEFINE copy == upsert(process[p].schemas, Target(p), process[p].capture)
<1>1. /\ manifest' = manifest /\ tmp' = tmp /\ audited' = audited
      /\ process' = [process EXCEPT ![p].pc = "audit", ![p].schemas = copy]
  BY DEF WriteSchema
<1>2. Shape /\ Audited(process[p].schemas)
  BY DEF WriteSchema, AuditInv, CopiesAreAudited, At
<1>3. /\ \A q \in Processes : q # p => process'[q] = process[q]
      /\ process'[p].schemas = copy /\ process'[p].todo = process[p].todo
      /\ process'[p].capture = process[p].capture /\ process'[p].pc = "audit"
  BY <1>1, <1>2 DEF Shape, Fields
<1>4. Shape'
  BY <1>1, <1>2 DEF Shape, Fields
<1>5. ASSUME NEW k \in DOMAIN copy
      PROVE  \/ <<k, copy[k]>> \in audited
             \/ k = Target(p) /\ copy[k] = process[p].capture
  <2>1. CASE k = Target(p)
    BY <2>1 DEF upsert
  <2>2. CASE k # Target(p)
    <3>1. k \in DOMAIN process[p].schemas /\ copy[k] = process[p].schemas[k]
      BY <2>2 DEF upsert
    <3>. QED BY <3>1, <1>2 DEF Audited
  <2>. QED BY <2>1, <2>2
<1>6. CopiesAreAudited'
  <2>1. ASSUME NEW q \in Processes, q # p
        PROVE  /\ process'[q].pc \in {"each", "write", "save"} => Audited(process[q].schemas)'
               /\ process'[q].pc = "audit" =>
                    \A k \in DOMAIN process'[q].schemas :
                      \/ <<k, process'[q].schemas[k]>> \in audited'
                      \/ k = Target(q)' /\ process'[q].schemas[k] = process'[q].capture
    <3>1. process'[q] = process[q] /\ Target(q)' = Target(q) /\ audited' = audited
      BY <1>1, <1>3, <2>1 DEF Target
    <3>2. Audited(process[q].schemas)' <=> Audited(process[q].schemas)
      BY <3>1 DEF Audited
    <3>. QED BY <3>1, <3>2 DEF AuditInv, CopiesAreAudited
  <2>2. \A k \in DOMAIN process'[p].schemas :
          \/ <<k, process'[p].schemas[k]>> \in audited'
          \/ k = Target(p)' /\ process'[p].schemas[k] = process'[p].capture
    BY <1>1, <1>3, <1>5 DEF Target
  <2>. QED BY <2>1, <2>2, <1>3 DEF CopiesAreAudited
<1>. QED BY <1>1, <1>4, <1>6 DEF AuditInv, Audited

\* Every step keeps the entries audited.
LEMMA StepAuditInv == AuditInv /\ [Next]_vars => AuditInv'
<1>. SUFFICES ASSUME AuditInv, [Next]_vars PROVE AuditInv'
  OBVIOUS
<1>1. CASE UNCHANGED <<process, manifest, tmp, audited>>
  BY <1>1 DEF AuditInv, Shape, Audited, CopiesAreAudited, Target
<1>. QED BY <1>1, CommandKeepsAudit, WriteKeepsAudit DEF Next, vars, commandVars

\* RFC 4.7, of update.rs:9: an entry of the manifest is in the audit log with its hash,
\* whichever commands run beside each other, fail or are killed.
THEOREM ManifestTellsAudit == Spec => []ManifestIsAudited
<1>1. AuditInv => ManifestIsAudited
  BY DEF AuditInv, Audited, ManifestIsAudited
<1>. QED BY <1>1, InitAuditInv, StepAuditInv, PTL DEF Spec

----------------------------------------------------------------------------
(* The manifest on disk *)

\* While nothing ran beside a command that writes, such a command is alone, and what it
\* is about to rename is whole.
AloneInv ==
  /\ Shape
  /\ \A p \in Processes :
       process[p].pc \in {"save", "rename"} => Writes(process[p].command)
  /\ ~overlapped =>
       /\ \A p, q \in Processes :
            p # q /\ ~At(p, "idle") /\ ~At(q, "idle") => ~Writes(process[p].command)
       /\ manifest.state # "torn"
       /\ \A p \in Processes : At(p, "rename") => tmp.state = "whole"

\* At first no command runs.
LEMMA InitAloneInv == Init => AloneInv
  BY IdleHasFields DEF Init, AloneInv, Shape, At, NoFile, Manifest

\* A step of a command under way that leaves the manifest alone and renames nothing.
LEMMA AloneStep ==
  ASSUME AloneInv, NEW p \in Processes, ~At(p, "idle"), NEW s,
         process' = [process EXCEPT ![p] = s], DOMAIN s = Fields,
         s.pc = "idle" \/ s.command = process[p].command,
         s.pc = "save" => Writes(s.command), s.pc # "rename",
         overlapped' = overlapped, manifest' = manifest, tmp' = tmp
  PROVE  AloneInv'
  BY DEF AloneInv, Shape, At

\* A command on its own leaves the manifest whole at each step.
LEMMA CommandKeepsAlone ==
  ASSUME AloneInv, NEW p \in Processes, CommandStep(p) \/ WriteSchema(p)
  PROVE  AloneInv'
<1>. USE DEF HistoryUnchanged, DiskUnchanged, Fault
<1>1. Shape
  BY DEF AloneInv
<1>2. CASE Start(p)
  <2>1. PICK c \in Commands :
          /\ process' = [process EXCEPT ![p] = [Idle EXCEPT !.pc = "load", !.command = c]]
          /\ overlapped' = (overlapped \/ \E q \in Processes \ {p} :
               /\ ~At(q, "idle")
               /\ Writes(c) \/ Writes(process[q].command))
    BY <1>2 DEF Start
  <2>2. /\ DOMAIN [Idle EXCEPT !.pc = "load", !.command = c] = Fields
        /\ [Idle EXCEPT !.pc = "load", !.command = c].pc = "load"
        /\ [Idle EXCEPT !.pc = "load", !.command = c].command = c
    BY DEF Idle, Fields
  <2>3. /\ process'[p].pc = "load" /\ process'[p].command = c
        /\ \A q \in Processes : q # p => process'[q] = process[q]
        /\ Shape'
    BY <1>1, <2>1, <2>2 DEF Shape
  <2>4. manifest' = manifest /\ tmp' = tmp
    BY <1>2 DEF Start
  <2>5. ASSUME ~overlapped', NEW a \in Processes, NEW b \in Processes, a # b,
               ~At(a, "idle")', ~At(b, "idle")'
        PROVE  ~Writes(process'[a].command)
    <3>1. ~overlapped /\ \A q \in Processes \ {p} :
            ~At(q, "idle") => ~Writes(c) /\ ~Writes(process[q].command)
      BY <2>1, <2>5
    <3>2. CASE a = p
      BY <2>3, <2>5, <3>1, <3>2 DEF At
    <3>3. CASE a # p
      BY <2>3, <2>5, <3>1, <3>3 DEF At
    <3>. QED BY <3>2, <3>3
  <2>6. \A q \in Processes :
          process'[q].pc \in {"save", "rename"} => Writes(process'[q].command)
    BY <2>3 DEF AloneInv
  <2>7. ~overlapped' => ~overlapped
    BY <2>1
  <2>8. \A q \in Processes : At(q, "rename")' => At(q, "rename")
    BY <2>3 DEF At
  <2>. QED BY <2>3, <2>4, <2>5, <2>6, <2>7, <2>8 DEF AloneInv
<1>3. ASSUME NEW ok, Ends(p, ok), ~At(p, "idle"),
             overlapped' = overlapped, manifest' = manifest, tmp' = tmp
      PROVE  AloneInv'
  <2>. DEFINE s == [process[p] EXCEPT !.pc = "end", !.ok = ok]
  <2>1. process' = [process EXCEPT ![p] = s]
    BY <1>3, <1>1 DEF Ends, Shape
  <2>2. DOMAIN s = Fields /\ s.pc = "end" /\ s.command = process[p].command
    BY <1>1 DEF Shape, Fields
  <2>. QED BY <1>3, <2>1, <2>2, AloneStep
<1>4. ASSUME NEW schemas, NEW ok, NextTarget(p, schemas, ok), ~At(p, "idle"),
             overlapped' = overlapped, manifest' = manifest, tmp' = tmp
      PROVE  AloneInv'
  <2>. DEFINE s == [process[p] EXCEPT !.todo = Tail(@), !.schemas = schemas,
                                      !.ok = @ /\ ok, !.capture = Absent, !.pc = "each"]
  <2>1. process' = [process EXCEPT ![p] = s]
    BY <1>4, <1>1 DEF NextTarget, Shape
  <2>2. DOMAIN s = Fields /\ s.pc = "each" /\ s.command = process[p].command
    BY <1>1 DEF Shape, Fields
  <2>. QED BY <1>4, <2>1, <2>2, AloneStep
<1>5. CASE Load(p)
  <2>1. /\ ~At(p, "idle") /\ overlapped' = overlapped /\ manifest' = manifest
        /\ tmp' = tmp
    BY <1>5 DEF Load, At
  <2>2. ASSUME NEW todo, process' = [process EXCEPT ![p].schemas = manifest.schemas,
                                                    ![p].todo = todo, ![p].pc = "each"]
        PROVE  AloneInv'
    <3>. DEFINE s == [process[p] EXCEPT !.schemas = manifest.schemas, !.todo = todo,
                                        !.pc = "each"]
    <3>1. process' = [process EXCEPT ![p] = s]
      BY <2>2, <1>1 DEF Shape
    <3>2. DOMAIN s = Fields /\ s.pc = "each" /\ s.command = process[p].command
      BY <1>1 DEF Shape, Fields
    <3>. QED BY <2>1, <3>1, <3>2, AloneStep
  <2>. QED BY <1>3, <1>5, <2>1, <2>2 DEF Load
<1>6. CASE Fetch(p)
  <2>. DEFINE s == [process[p] EXCEPT !.pc = "write", !.capture = captures + 1]
  <2>1. process' = [process EXCEPT ![p] = s]
    BY <1>6, <1>1 DEF Fetch, Shape
  <2>2. DOMAIN s = Fields /\ s.pc = "write" /\ s.command = process[p].command
    BY <1>1 DEF Shape, Fields
  <2>3. /\ ~At(p, "idle") /\ overlapped' = overlapped /\ manifest' = manifest
        /\ tmp' = tmp
    BY <1>6 DEF Fetch, At
  <2>. QED BY <2>1, <2>2, <2>3, AloneStep
<1>7. CASE WriteSchema(p)
  <2>. DEFINE s == [process[p] EXCEPT !.pc = "audit",
                      !.schemas = upsert(@, Target(p), process[p].capture)]
  <2>1. process' = [process EXCEPT ![p] = s]
    BY <1>7, <1>1 DEF WriteSchema, Shape
  <2>2. DOMAIN s = Fields /\ s.pc = "audit" /\ s.command = process[p].command
    BY <1>1 DEF Shape, Fields
  <2>3. /\ ~At(p, "idle") /\ overlapped' = overlapped /\ manifest' = manifest
        /\ tmp' = tmp
    BY <1>7 DEF WriteSchema, At
  <2>. QED BY <2>1, <2>2, <2>3, AloneStep
<1>8. CASE FetchFails(p) \/ AppendAudit(p) \/ RemoveDir(p) \/ RemoveDirFails(p) \/ Check(p)
  <2>1. /\ ~At(p, "idle") /\ overlapped' = overlapped /\ manifest' = manifest
        /\ tmp' = tmp
    BY <1>8 DEF FetchFails, AppendAudit, RemoveDir, RemoveDirFails, Check, At
  <2>. QED BY <1>4, <1>8, <2>1
           DEF FetchFails, AppendAudit, RemoveDir, RemoveDirFails, Check
<1>9. CASE CaptureFails(p) \/ Verdict(p) \/ ShowSchema(p) \/ SaveFails(p)
  <2>1. /\ ~At(p, "idle") /\ overlapped' = overlapped /\ manifest' = manifest
        /\ tmp' = tmp
    BY <1>9 DEF CaptureFails, Verdict, ShowSchema, SaveFails, At
  <2>. QED BY <1>3, <1>9, <2>1 DEF CaptureFails, Verdict, ShowSchema, SaveFails
<1>10. CASE Exit(p) \/ Crash(p)
  <2>1. /\ ~At(p, "idle") /\ overlapped' = overlapped /\ manifest' = manifest
        /\ tmp' = tmp /\ process' = [process EXCEPT ![p] = Idle]
    BY <1>10 DEF Exit, Crash, At
  <2>. QED BY <2>1, IdleHasFields, AloneStep
<1>11. ASSUME NEW pc, Goto(p, pc), Writes(process[p].command), overlapped' = overlapped
       PROVE  /\ Shape'
              /\ \A q \in Processes : q # p => process'[q] = process[q]
              /\ process'[p].pc = pc /\ process'[p].command = process[p].command
              /\ \A q \in Processes :
                   process'[q].pc \in {"save", "rename"} => Writes(process'[q].command)
  <2>. DEFINE s == [process[p] EXCEPT !.pc = pc]
  <2>1. process' = [process EXCEPT ![p] = s]
    BY <1>11, <1>1 DEF Goto, Shape
  <2>2. DOMAIN s = Fields /\ s.pc = pc /\ s.command = process[p].command
    BY <1>1 DEF Shape, Fields
  <2>3. process'[p] = s /\ Shape' /\ \A q \in Processes : q # p => process'[q] = process[q]
    BY <1>1, <2>1, <2>2 DEF Shape
  <2>. QED BY <1>11, <2>2, <2>3 DEF AloneInv
<1>12. CASE SaveBegins(p)
  <2>1. /\ Goto(p, "save") /\ Writes(process[p].command) /\ overlapped' = overlapped
        /\ manifest' = manifest /\ At(p, "each")
    BY <1>12 DEF SaveBegins
  <2>. QED BY <1>11, <2>1 DEF AloneInv, At
<1>13. CASE SaveWritten(p)
  <2>1. /\ Goto(p, "rename") /\ Writes(process[p].command) /\ overlapped' = overlapped
        /\ manifest' = manifest /\ At(p, "save") /\ tmp'.state = "whole"
    BY <1>13 DEF SaveWritten, AloneInv, At, Whole, Manifest
  <2>. QED BY <1>11, <2>1 DEF AloneInv, At
<1>14. CASE Rename(p)
  <2>. DEFINE s == [process[p] EXCEPT !.pc = "end", !.ok = process[p].ok]
  <2>1. process' = [process EXCEPT ![p] = s]
    BY <1>14, <1>1 DEF Rename, Ends, Shape
  <2>2. DOMAIN s = Fields /\ s.pc = "end" /\ s.command = process[p].command
    BY <1>1 DEF Shape, Fields
  <2>3. process'[p] = s /\ Shape' /\ \A q \in Processes : q # p => process'[q] = process[q]
    BY <1>1, <2>1, <2>2 DEF Shape
  <2>4. /\ manifest' = tmp /\ overlapped' = overlapped
        /\ At(p, "rename") /\ Writes(process[p].command)
    BY <1>14 DEF Rename, AloneInv, At
  <2>5. \A q \in Processes :
          process'[q].pc \in {"save", "rename"} => Writes(process'[q].command)
    BY <2>2, <2>3 DEF AloneInv
  <2>6. \A q \in Processes : /\ ~At(q, "idle")' => ~At(q, "idle")
                             /\ At(q, "rename")' => q # p /\ At(q, "rename")
                             /\ process'[q].command = process[q].command
    BY <2>2, <2>3, <2>4 DEF At
  <2>7. ~overlapped => manifest'.state # "torn"
    BY <2>4 DEF AloneInv
  <2>8. ~overlapped => \A q \in Processes : ~At(q, "rename")'
    BY <2>4, <2>6 DEF AloneInv, At
  <2>. QED BY <2>3, <2>4, <2>5, <2>6, <2>7, <2>8 DEF AloneInv
<1>. QED BY <1>2, <1>5, <1>6, <1>7, <1>8, <1>9, <1>10, <1>12, <1>13, <1>14 DEF CommandStep

\* So does every step, a kill among them.
LEMMA StepAloneInv == AloneInv /\ [Next]_vars => AloneInv'
<1>. SUFFICES ASSUME AloneInv, [Next]_vars PROVE AloneInv'
  OBVIOUS
<1>1. CASE UNCHANGED <<process, manifest, tmp, overlapped>>
  BY <1>1 DEF AloneInv, Shape, At
<1>. QED BY <1>1, CommandKeepsAlone DEF Next, vars, commandVars

\* manifest.rs:79, the rename is atomic: as long as one command runs at a time, the
\* manifest is whole wherever one is killed. (It is false of commands that overlap: they
\* write one temporary file.)
THEOREM KilledAloneLeavesWhole == Spec => []KillLeavesManifestWhole
<1>1. AloneInv => KillLeavesManifestWhole
  BY DEF AloneInv, KillLeavesManifestWhole
<1>. QED BY <1>1, InitAloneInv, StepAloneInv, PTL DEF Spec

----------------------------------------------------------------------------
(* The cache of parsed schemas *)

\* A dropped schema has no file that parses, and no load of it that has read one.
DroppedInv ==
  /\ files = [s \in Schemas |-> files[s]] /\ parsed = [s \in Schemas |-> parsed[s]]
  /\ reader = [r \in Readers |-> reader[r]]
  /\ \A r \in Readers : DOMAIN reader[r] = {"key", "pc", "arc"}
  /\ dropped \subseteq Schemas
  /\ \A s \in dropped :
       /\ parsed[s] = Absent /\ files[s] \notin Captures
       /\ \A r \in Readers : reader[r].key = s => reader[r].pc # "insert"

\* An absent file and a torn one are no captures.
LEMMA NoCapture == Absent \notin Captures /\ Torn \notin Captures
  BY MaxCapturesIsNat DEF Absent, Torn, Captures

\* A reader without a load is idle.
LEMMA NoLoadIsIdle == DOMAIN NoLoad = {"key", "pc", "arc"} /\ NoLoad.pc = "idle"
  BY DEF NoLoad

\* At first nothing has been dropped.
LEMMA InitDroppedInv == Init => DroppedInv
  BY NoLoadIsIdle DEF Init, DroppedInv

\* No step of a command makes a file of a dropped schema but the one that ends its
\* being dropped.
LEMMA CommandKeepsDropped ==
  ASSUME DroppedInv, NEW p \in Processes, UNCHANGED readerVars,
         \/ CommandStep(p) /\ UNCHANGED dropped
         \/ WriteSchema(p)
  PROVE  DroppedInv'
<1>. USE DEF DroppedInv, readerVars
<1>1. ASSUME UNCHANGED files, UNCHANGED dropped PROVE DroppedInv'
  BY <1>1
<1>2. ASSUME NEW s, NEW left, files' = [files EXCEPT ![s] = left],
             left \notin Captures \/ left = files[s], UNCHANGED dropped
      PROVE  DroppedInv'
  BY <1>2
<1>3. CASE WriteSchema(p)
  BY <1>3 DEF WriteSchema
<1>4. CASE Fetch(p) /\ UNCHANGED dropped
  BY <1>2, <1>4, NoCapture DEF Fetch
<1>5. CASE RemoveDir(p) /\ UNCHANGED dropped
  BY <1>2, <1>5, NoCapture DEF RemoveDir
<1>6. CASE RemoveDirFails(p) /\ UNCHANGED dropped
  <2>1. PICK left \in {files[Target(p)], Absent} :
          files' = [files EXCEPT ![Target(p)] = left]
    BY <1>6 DEF RemoveDirFails
  <2>. QED BY <1>2, <1>6, <2>1, NoCapture
<1>7. CASE UNCHANGED dropped /\ UNCHANGED files
  BY <1>1, <1>7
<1>. QED BY <1>3, <1>4, <1>5, <1>6, <1>7
         DEF CommandStep, DiskUnchanged, Start, Load, FetchFails, AppendAudit, CaptureFails,
             Check, Verdict, ShowSchema, SaveBegins, SaveWritten, Rename, SaveFails, Exit,
             Crash

\* No step of a reader brings a dropped schema back.
LEMMA ReaderKeepsDropped ==
  ASSUME DroppedInv, NEW r \in Readers, ReaderStep(r), UNCHANGED <<commandVars, dropped>>
  PROVE  DroppedInv'
<1>. USE DEF DroppedInv
<1>1. files' = files /\ dropped' = dropped
  BY DEF commandVars
<1>2. ASSUME NEW s \in Wanted, LoadHit(r, s) PROVE DroppedInv'
  BY <1>2, <1>1 DEF LoadHit
<1>3. ASSUME NEW s \in Wanted, LoadMiss(r, s) PROVE DroppedInv'
  <2>. DEFINE load == [NoLoad EXCEPT !.key = s, !.pc = "read"]
  <2>1. DOMAIN load = {"key", "pc", "arc"} /\ load.pc = "read"
    BY NoLoadIsIdle
  <2>. QED BY <1>3, <1>1, <2>1 DEF LoadMiss
<1>4. CASE ReadFile(r)
  <2>1. CASE reader' = [reader EXCEPT ![r] = NoLoad]
    BY <1>4, <1>1, <2>1, NoLoadIsIdle DEF ReadFile
  <2>2. CASE /\ files[reader[r].key] \in Captures
             /\ reader' = [reader EXCEPT ![r].pc = "insert",
                                         ![r].arc = files[reader[r].key]]
    <3>1. /\ reader[r].key \notin dropped /\ reader'[r].key = reader[r].key
          /\ \A q \in Readers : q # r => reader'[q] = reader[q]
          /\ reader' = [q \in Readers |-> reader'[q]]
          /\ DOMAIN reader'[r] = {"key", "pc", "arc"}
      BY <2>2
    <3>. QED BY <1>4, <1>1, <3>1 DEF ReadFile
  <2>. QED BY <1>4, <2>1, <2>2 DEF ReadFile
<1>5. CASE InsertParsed(r)
  <2>1. reader[r].key \notin dropped
    BY <1>5 DEF InsertParsed
  <2>. QED BY <1>5, <1>1, <2>1, NoLoadIsIdle DEF InsertParsed
<1>. QED BY <1>2, <1>3, <1>4, <1>5 DEF ReaderStep

\* A schema counts as dropped only while no load of it is under way.
LEMMA InvalidateKeepsDropped ==
  ASSUME DroppedInv, NEW s \in Schemas, Invalidate(s), UNCHANGED commandVars
  PROVE  DroppedInv'
<1>1. /\ files' = files /\ files[s] = Absent /\ reader' = reader
      /\ parsed' = [parsed EXCEPT ![s] = Absent]
      /\ dropped' = IF loading(s) THEN dropped ELSE dropped \cup {s}
  BY DEF Invalidate, commandVars
<1>2. ~loading(s) => \A r \in Readers : reader[r].key = s => reader[r].pc # "insert"
  BY DEF loading
<1>. QED BY <1>1, <1>2, NoCapture DEF DroppedInv

\* Every step keeps what is dropped out of memory.
LEMMA StepDroppedInv == DroppedInv /\ [Next]_vars => DroppedInv'
<1>. SUFFICES ASSUME DroppedInv, [Next]_vars PROVE DroppedInv'
  OBVIOUS
<1>1. CASE UNCHANGED vars
  BY <1>1 DEF vars, DroppedInv
<1>. QED BY <1>1, CommandKeepsDropped, ReaderKeepsDropped, InvalidateKeepsDropped DEF Next

\* cache.rs:96: a pair that was invalidated with its file gone and no load of it under
\* way is not served from memory again until it is captured anew.
THEOREM DroppedStayGone == Spec => []InvalidatedStaysGone
<1>1. DroppedInv => InvalidatedStaysGone
  BY DEF DroppedInv, InvalidatedStaysGone
<1>. QED BY <1>1, InitDroppedInv, StepDroppedInv, PTL DEF Spec
----------------------------------------------------------------------------
(* The order of the entries, and what gc keeps of them *)

\* How many of the pairs D come before s.
Rank(D, s) == Cardinality({t \in D : Place[t] < Place[s]})

\* A pair ranks behind those that come before it, and below the number of pairs.
LEMMA RankGrows ==
  ASSUME NEW D \in SUBSET Schemas, NEW s \in D
  PROVE  /\ Rank(D, s) \in 0 .. Cardinality(D) - 1
         /\ \A t \in D : Place[t] < Place[s] => Rank(D, t) < Rank(D, s)
<1>. DEFINE B(x) == {t \in D : Place[t] < Place[x]}
            n == Cardinality(D)
<1>1. IsFiniteSet(D) /\ n \in Nat /\ \A t \in D : Place[t] \in Nat
  BY SchemasAreFinite, PlaceIsInjective, FS_Subset, FS_CardinalityType
<1>2. ASSUME NEW x \in D
      PROVE  /\ IsFiniteSet(B(x)) /\ Cardinality(B(x)) \in Nat
             /\ Cardinality(B(x) \cup {x}) = Cardinality(B(x)) + 1
             /\ B(x) \cup {x} \in SUBSET D
  <2>1. IsFiniteSet(B(x))
    BY <1>1, FS_Subset
  <2>2. x \notin B(x)
    BY <1>1
  <2>3. Cardinality(B(x)) \in Nat /\ Cardinality(B(x) \cup {x}) = Cardinality(B(x)) + 1
    BY <2>1, <2>2, FS_CardinalityType, FS_AddElement
  <2>. QED BY <2>1, <2>3
<1>3. Rank(D, s) \in 0 .. n - 1
  <2>. DEFINE b == Cardinality(B(s))
              c == Cardinality(B(s) \cup {s})
  <2>1. b \in Nat /\ c = b + 1 /\ c <= n
    BY <1>1, <1>2, FS_Subset
  <2>2. Rank(D, s) = b
    BY DEF Rank
  <2>. HIDE DEF b, c, n
  <2>. QED BY <1>1, <2>1, <2>2
<1>4. ASSUME NEW t \in D, Place[t] < Place[s] PROVE Rank(D, t) < Rank(D, s)
  <2>. DEFINE b == Cardinality(B(t))
              c == Cardinality(B(t) \cup {t})
              d == Cardinality(B(s))
  <2>1. B(t) \cup {t} \in SUBSET B(s)
    BY <1>1, <1>4
  <2>2. b \in Nat /\ c = b + 1 /\ c <= d /\ d \in Nat
    BY <1>2, <2>1, FS_Subset
  <2>3. Rank(D, t) = b /\ Rank(D, s) = d
    BY DEF Rank
  <2>. HIDE DEF b, c, d
  <2>. QED BY <2>2, <2>3
<1>. QED BY <1>3, <1>4

\* A command goes through each of its pairs.
LEMMA SortedHoldsAll ==
  ASSUME NEW D \in SUBSET Schemas
  PROVE  sorted(D) \in Seq(Schemas) /\ D = {sorted(D)[k] : k \in DOMAIN sorted(D)}
<1>. DEFINE n == Cardinality(D)
            Ranked(k) == CHOOSE s \in D : Rank(D, s) = k - 1
<1>1. IsFiniteSet(D) /\ n \in Nat /\ \A s \in D : Place[s] \in Nat
  BY SchemasAreFinite, PlaceIsInjective, FS_Subset, FS_CardinalityType
<1>2. sorted(D) = [k \in 1 .. n |-> Ranked(k)]
  BY DEF sorted, Rank
<1>3. \A s \in D : Rank(D, s) \in 0 .. n - 1
  BY RankGrows
<1>4. ASSUME NEW s \in D, NEW t \in D, Rank(D, s) = Rank(D, t) PROVE s = t
  <2>1. Rank(D, s) \in Int
    BY <1>3
  <2>2. ~(Place[s] < Place[t]) /\ ~(Place[t] < Place[s])
    BY <1>4, <2>1, RankGrows
  <2>3. Place[s] = Place[t]
    BY <1>1, <2>2
  <2>. QED BY <2>3, PlaceIsInjective
<1>5. ASSUME NEW k \in 0 .. n - 1 PROVE \E s \in D : Rank(D, s) = k
  <2>. DEFINE T == 0 .. n - 1
              f == [s \in D |-> Rank(D, s)]
  <2>. SUFFICES ASSUME \A s \in D : Rank(D, s) # k PROVE FALSE
    OBVIOUS
  <2>. HIDE DEF n
  <2>1. IsFiniteSet(T) /\ Cardinality(T) = n /\ k \in T
    BY <1>1, FS_Interval
  <2>. HIDE DEF T
  <2>2. IsFiniteSet(T \ {k}) /\ Cardinality(T \ {k}) = n - 1
    BY <2>1, FS_RemoveElement
  <2>3. f \in [D -> T \ {k}]
    BY <1>3 DEF T
  <2>4. Cardinality(T \ {k}) < Cardinality(D)
    BY <1>1, <2>2 DEF n
  <2>. HIDE DEF f
  <2>5. \E x, y \in D : x # y /\ f[x] = f[y]
    BY <1>1, <2>2, <2>3, <2>4, FS_PigeonHole
  <2>. QED BY <1>4, <2>5 DEF f
<1>6. ASSUME NEW k \in 1 .. n PROVE Ranked(k) \in D
  <2>1. k - 1 \in 0 .. n - 1
    <3>. HIDE DEF n
    <3>. QED BY <1>1
  <2>2. \E s \in D : Rank(D, s) = k - 1
    BY <1>5, <2>1
  <2>. QED BY <2>2
<1>7. ASSUME NEW s \in D PROVE \E k \in 1 .. n : Ranked(k) = s
  <2>. DEFINE k == Rank(D, s) + 1
  <2>1. k \in 1 .. n /\ Rank(D, s) = k - 1
    <3>1. Rank(D, s) \in 0 .. n - 1
      BY <1>3
    <3>. HIDE DEF n
    <3>. QED BY <1>1, <3>1
  <2>. HIDE DEF k
  <2>2. \E x \in D : Rank(D, x) = k - 1
    BY <2>1
  <2>3. Ranked(k) \in D /\ Rank(D, Ranked(k)) = k - 1
    <3>. HIDE DEF n
    <3>. QED BY <2>2
  <2>4. Ranked(k) = s
    <3>. HIDE DEF Ranked
    <3>. QED BY <1>4, <2>1, <2>3
  <2>. QED BY <2>1, <2>4
<1>. HIDE DEF Ranked, n
<1>8. D = {sorted(D)[k] : k \in DOMAIN sorted(D)}
  BY <1>2, <1>6, <1>7
<1>9. sorted(D) \in Seq(Schemas)
  BY <1>1, <1>2, <1>6
<1>. QED BY <1>8, <1>9

\* An entry less leaves none beyond the count that was not, and not itself.
LEMMA FewerBeyond ==
  ASSUME NEW schemas, DOMAIN schemas \subseteq Schemas, NEW keep \in Nat, NEW s
  PROVE  beyond(remove(schemas, s), keep) \subseteq beyond(schemas, keep) \ {s}
<1>. DEFINE Before(m, x) == {t \in DOMAIN m : Provider[t] = Provider[x] /\ Place[t] < Place[x]}
            less == remove(schemas, s)
<1>1. DOMAIN less = DOMAIN schemas \ {s}
  BY DEF remove
<1>. HIDE DEF less
<1>2. ASSUME NEW x PROVE Cardinality(Before(less, x)) <= Cardinality(Before(schemas, x))
  <2>1. Before(less, x) \in SUBSET Before(schemas, x) /\ Before(schemas, x) \in SUBSET Schemas
    BY <1>1
  <2>. HIDE DEF Before
  <2>2. IsFiniteSet(Before(schemas, x))
    BY <2>1, SchemasAreFinite, FS_Subset
  <2>. QED BY <2>1, <2>2, FS_Subset
<1>3. ASSUME NEW x
      PROVE  Cardinality(Before(less, x)) \in Nat /\ Cardinality(Before(schemas, x)) \in Nat
  <2>1. Before(less, x) \in SUBSET Schemas /\ Before(schemas, x) \in SUBSET Schemas
    BY <1>1
  <2>. HIDE DEF Before
  <2>. QED BY <2>1, SchemasAreFinite, FS_Subset, FS_CardinalityType
<1>4. /\ beyond(less, keep) = {x \in DOMAIN less : Cardinality(Before(less, x)) >= keep}
      /\ beyond(schemas, keep) = {x \in DOMAIN schemas : Cardinality(Before(schemas, x)) >= keep}
  BY DEF beyond
<1>. HIDE DEF Before
<1>5. \A x : Cardinality(Before(less, x)) >= keep => Cardinality(Before(schemas, x)) >= keep
  BY <1>2, <1>3
<1>. QED BY <1>1, <1>4, <1>5 DEF less

----------------------------------------------------------------------------
(* The index *)

ProcessTypes(s) ==
  /\ DOMAIN s = Fields
  /\ s.command \in Commands
  /\ DOMAIN s.schemas \subseteq Schemas
  /\ s.todo \in Seq(Schemas)
  /\ s.pc \in {"write", "audit"} => s.command.name = "update" /\ s.todo # <<>>
  /\ s.pc = "write" => s.capture \in Nat \ {0}

IndexTypes ==
  /\ \A p \in Processes : ProcessTypes(process[p])
  /\ files = [s \in Schemas |-> files[s]]
  /\ DOMAIN manifest.schemas \subseteq Schemas /\ DOMAIN tmp.schemas \subseteq Schemas
  /\ captures \in Nat

\* An entry for each file, with its hash, and a file for each entry.
Exact(schemas) ==
  /\ DOMAIN schemas = {s \in Schemas : files[s] # Absent}
  /\ \A s \in DOMAIN schemas : matches(schemas, s)

\* A command that writes has read the manifest and not replaced it yet.
Busy(s) == Writes(s.command) /\ s.pc \in {"each", "write", "audit", "save", "rename"}

\* Its copy is exact, but for the file that is being written.
CopyIsExact(s) ==
  LET target == Head(s.todo)
  IN  /\ s.pc \in {"each", "audit", "save", "rename"} => Exact(s.schemas)
      /\ s.pc = "write" =>
           /\ DOMAIN s.schemas \cup {target} = {k \in Schemas : files[k] # Absent}
           /\ \A k \in DOMAIN s.schemas \ {target} : matches(s.schemas, k)

\* A gc that has removed all it met still has before it what is beyond its count.
GcCounts(s) ==
  s.command.name = "gc" /\ s.ok =>
    /\ s.pc = "each" =>
         beyond(s.schemas, s.command.keep) \subseteq {s.todo[k] : k \in DOMAIN s.todo}
    /\ s.pc \in {"save", "rename"} => beyond(s.schemas, s.command.keep) = {}
    /\ s.pc = "end" => beyond(manifest.schemas, s.command.keep) = {}

TmpIsCopy(s) == Writes(s.command) /\ s.pc = "rename" => tmp = Whole(s.schemas)

IndexInv ==
  /\ AloneInv /\ IndexTypes
  /\ ~overlapped =>
       /\ \A p \in Processes : GcCounts(process[p]) /\ TmpIsCopy(process[p])
       /\ ~faulted => /\ (\A p \in Processes : ~Busy(process[p])) => Exact(manifest.schemas)
                      /\ \A p \in Processes : Busy(process[p]) => CopyIsExact(process[p])

\* What a step has to establish of the process it leaves behind.
IsSound(s, p) ==
  ~overlapped =>
    /\ GcCounts(s) /\ TmpIsCopy(s)
    /\ ~faulted => /\ Busy(s) => CopyIsExact(s)
                   /\ ~Busy(s) /\ (\A q \in Processes \ {p} : ~Busy(process[q])) =>
                        Exact(manifest.schemas)

\* Nothing is kept or counted at first.
LEMMA InitIndexInv == Init => IndexInv
<1>. SUFFICES ASSUME Init PROVE IndexInv
  OBVIOUS
<1>1. \A p \in Processes : /\ process[p] = Idle /\ ~Busy(process[p]) /\ ProcessTypes(process[p])
                           /\ GcCounts(process[p]) /\ TmpIsCopy(process[p])
  <2>1. /\ Idle.pc = "idle" /\ Idle.command \in Commands /\ Idle.todo \in Seq(Schemas)
        /\ DOMAIN Idle.schemas = {} /\ DOMAIN Idle = Fields
    BY DEF Idle, Commands, NoEntries, Fields
  <2>2. ~Busy(Idle) /\ ProcessTypes(Idle) /\ GcCounts(Idle) /\ TmpIsCopy(Idle)
    BY <2>1 DEF Busy, ProcessTypes, GcCounts, TmpIsCopy
  <2>. QED BY <2>2 DEF Init
<1>2. IndexTypes /\ Exact(manifest.schemas)
  BY <1>1 DEF Init, IndexTypes, Exact, NoFile, Manifest, NoEntries
<1>. QED BY <1>1, <1>2, InitAloneInv DEF IndexInv

\* A step of one process keeps the index if it leaves the disk alone or is that of a
\* command that writes, which is on its own.
LEMMA IndexStep ==
  ASSUME IndexInv, AloneInv', NEW p \in Processes, NEW s,
         process' = [process EXCEPT ![p] = s], ProcessTypes(s),
         files' = [x \in Schemas |-> files'[x]], DOMAIN manifest'.schemas \subseteq Schemas,
         DOMAIN tmp'.schemas \subseteq Schemas, captures' \in Nat, overlapped => overlapped', faulted => faulted',
         \/ files' = files /\ manifest' = manifest /\ tmp' = tmp
         \/ Writes(process[p].command) /\ ~At(p, "idle"),
         IsSound(s, p)'
  PROVE  IndexInv'
<1>1. process'[p] = s /\ \A q \in Processes : q # p => process'[q] = process[q]
  BY DEF IndexInv, AloneInv, Shape
<1>2. IndexTypes'
  <2>1. \A q \in Processes : ProcessTypes(process'[q])
    BY <1>1 DEF IndexInv, IndexTypes
  <2>2. \A q \in Processes : ProcessTypes(process[q])'
    BY <2>1 DEF ProcessTypes
  <2>. QED BY <2>2 DEF IndexTypes
<1>. SUFFICES ASSUME ~overlapped'
              PROVE  /\ \A q \in Processes : GcCounts(process[q])' /\ TmpIsCopy(process[q])'
                     /\ ~faulted' =>
                          /\ (\A q \in Processes : ~Busy(process[q])') => Exact(manifest.schemas)'
                          /\ \A q \in Processes : Busy(process[q])' => CopyIsExact(process[q])'
  BY <1>2 DEF IndexInv
<1>3. ~overlapped
  OBVIOUS
<1>4. ASSUME NEW q \in Processes, q # p
      PROVE  /\ GcCounts(process[q])' /\ TmpIsCopy(process[q])'
             /\ ~faulted' /\ Busy(process[q])' => CopyIsExact(process[q])'
  <2>1. PICK g : g = process[q] /\ g = process'[q]
    BY <1>1, <1>4
  <2>2. GcCounts(g) /\ TmpIsCopy(g) /\ (~faulted /\ Busy(g) => CopyIsExact(g))
    BY <1>3, <2>1 DEF IndexInv
  <2>3. CASE files' = files /\ manifest' = manifest /\ tmp' = tmp
    <3>1. GcCounts(g)' /\ TmpIsCopy(g)'
      BY <2>2, <2>3 DEF GcCounts, TmpIsCopy
    <3>2. ~faulted' /\ Busy(g)' => CopyIsExact(g)'
      BY <2>2, <2>3 DEF CopyIsExact, Exact, matches, Busy
    <3>3. /\ GcCounts(process[q])' = GcCounts(g)' /\ TmpIsCopy(process[q])' = TmpIsCopy(g)'
          /\ Busy(process[q])' = Busy(g)' /\ CopyIsExact(process[q])' = CopyIsExact(g)'
      BY <2>1 DEF GcCounts, TmpIsCopy, CopyIsExact, Exact, matches, Busy
    <3>. QED BY <3>1, <3>2, <3>3
  <2>4. CASE Writes(process[p].command) /\ ~At(p, "idle")
    <3>1. g.pc = "idle"
      BY <1>3, <1>4, <2>1, <2>4 DEF IndexInv, AloneInv, At
    <3>2. process'[q].pc = "idle"
      BY <2>1, <3>1
    <3>. QED BY <3>2 DEF GcCounts, TmpIsCopy, Busy
  <2>. QED BY <2>3, <2>4
<1>5. /\ GcCounts(s)' /\ TmpIsCopy(s)'
      /\ ~faulted' => /\ Busy(s)' => CopyIsExact(s)'
                      /\ ~Busy(s)' /\ (\A q \in Processes \ {p} : ~Busy(process[q])') =>
                           Exact(manifest.schemas)'
  BY DEF IsSound
<1>6. /\ GcCounts(process[p])' = GcCounts(s)' /\ TmpIsCopy(process[p])' = TmpIsCopy(s)'
      /\ Busy(process[p])' = Busy(s)' /\ CopyIsExact(process[p])' = CopyIsExact(s)'
  BY <1>1 DEF GcCounts, TmpIsCopy, CopyIsExact, Exact, matches, Busy
<1>7. GcCounts(process[p])' /\ TmpIsCopy(process[p])'
  BY <1>5, <1>6
<1>8. ~faulted' => (Busy(process[p])' => CopyIsExact(process[p])')
  BY <1>5, <1>6
<1>9. ~faulted' => ((\A q \in Processes : ~Busy(process[q])') => Exact(manifest.schemas)')
  BY <1>5, <1>6
<1>. QED BY <1>4, <1>7, <1>8, <1>9

\* The end of a command.
LEMMA EndIs ==
  ASSUME IndexInv, NEW p \in Processes, NEW ok, Ends(p, ok)
  PROVE  \E s : /\ process' = [process EXCEPT ![p] = s] /\ ProcessTypes(s)
                /\ s.pc = "end" /\ s.ok = ok /\ s.command = process[p].command
<1>1. PICK s : s = [process[p] EXCEPT !.pc = "end", !.ok = ok]
  OBVIOUS
<1>2. process' = [process EXCEPT ![p] = s] /\ DOMAIN process[p] = Fields
  BY <1>1 DEF Ends, IndexInv, AloneInv, Shape
<1>3. /\ s.pc = "end" /\ s.ok = ok /\ s.command = process[p].command
      /\ s.schemas = process[p].schemas /\ s.todo = process[p].todo /\ DOMAIN s = Fields
  BY <1>1, <1>2 DEF Fields
<1>4. ProcessTypes(s)
  BY <1>3 DEF IndexInv, IndexTypes, ProcessTypes
<1>. QED BY <1>2, <1>3, <1>4

\* A command that goes on to its next pair.
LEMMA NextIs ==
  ASSUME IndexInv, NEW p \in Processes, NEW schemas, NEW ok, NextTarget(p, schemas, ok),
         process[p].todo # <<>>, DOMAIN schemas \subseteq Schemas
  PROVE  \E s : /\ process' = [process EXCEPT ![p] = s] /\ ProcessTypes(s)
                /\ s.pc = "each" /\ s.schemas = schemas /\ s.todo = Tail(process[p].todo)
                /\ s.command = process[p].command
                /\ (s.ok => process[p].ok /\ ok)
<1>1. PICK s : s = [process[p] EXCEPT !.todo = Tail(@), !.schemas = schemas,
                                      !.ok = @ /\ ok, !.capture = Absent, !.pc = "each"]
  OBVIOUS
<1>2. process' = [process EXCEPT ![p] = s] /\ DOMAIN process[p] = Fields
  BY <1>1 DEF NextTarget, IndexInv, AloneInv, Shape
<1>3. /\ s.pc = "each" /\ s.schemas = schemas /\ s.todo = Tail(process[p].todo)
      /\ s.command = process[p].command /\ DOMAIN s = Fields
      /\ s.ok = (process[p].ok /\ ok)
  BY <1>1, <1>2 DEF Fields
<1>4. Tail(process[p].todo) \in Seq(Schemas)
  BY DEF IndexInv, IndexTypes, ProcessTypes
<1>5. ProcessTypes(s)
  BY <1>3, <1>4 DEF IndexInv, IndexTypes, ProcessTypes
<1>. QED BY <1>2, <1>3, <1>5

\* The pair a command is at is one of those there are, and the first it has left.
LEMMA TargetIs ==
  ASSUME IndexInv, NEW p \in Processes, process[p].todo # <<>>
  PROVE  /\ Target(p) \in Schemas
         /\ {process[p].todo[k] : k \in DOMAIN process[p].todo} \ {Target(p)}
              \subseteq {Tail(process[p].todo)[k] : k \in DOMAIN Tail(process[p].todo)}
<1>. DEFINE t == process[p].todo
            n == Len(t)
<1>1. t \in Seq(Schemas)
  BY DEF IndexInv, IndexTypes, ProcessTypes
<1>. HIDE DEF t
<1>2. n \in Nat /\ DOMAIN t = 1 .. n /\ n # 0 /\ Head(t) = t[1] /\ Head(t) \in Schemas
  BY <1>1 DEF t
<1>3. DOMAIN Tail(t) = 1 .. n - 1 /\ \A k \in 1 .. n - 1 : Tail(t)[k] = t[k + 1]
  BY <1>1, <1>2
<1>4. ASSUME NEW k \in DOMAIN t, t[k] # Head(t)
      PROVE  \E j \in DOMAIN Tail(t) : Tail(t)[j] = t[k]
  <2>1. k - 1 \in 1 .. n - 1 /\ (k - 1) + 1 = k
    BY <1>2, <1>4
  <2>. QED BY <1>3, <2>1
<1>. QED BY <1>2, <1>4 DEF Target, t

\* A step between reading the manifest and replacing it is of a command on its own.
LEMMA OthersAreIdle ==
  ASSUME IndexInv, ~overlapped, NEW p \in Processes, Writes(process[p].command), ~At(p, "idle")
  PROVE  \A q \in Processes \ {p} : At(q, "idle") /\ ~Busy(process[q])
BY DEF IndexInv, AloneInv, At, Busy

\* A command that writes nothing, or is before or behind that, leaves the index as it is.
LEMMA RestingStep ==
  ASSUME IndexInv, AloneInv', NEW p \in Processes, NEW s,
         process' = [process EXCEPT ![p] = s], ProcessTypes(s), DiskUnchanged,
         captures' = captures, overlapped => overlapped', faulted => faulted',
         ~Busy(s), Busy(process[p]) => faulted',
         s.pc = "end" /\ s.ok /\ s.command.name = "gc" /\ ~overlapped' =>
           beyond(manifest.schemas, s.command.keep) = {}
  PROVE  IndexInv'
<1>. USE DEF DiskUnchanged
<1>1. ~overlapped' => GcCounts(s)' /\ TmpIsCopy(s)'
  BY DEF GcCounts, TmpIsCopy, Busy, Writes
<1>2. ASSUME ~overlapped', ~faulted', \A q \in Processes \ {p} : ~Busy(process[q])'
      PROVE  Exact(manifest.schemas)'
  <2>1. \A q \in Processes \ {p} : process'[q] = process[q]
    BY DEF IndexInv, AloneInv, Shape
  <2>2. \A q \in Processes : ~Busy(process[q])
    BY <1>2, <2>1 DEF Busy
  <2>3. Exact(manifest.schemas)
    BY <1>2, <2>2 DEF IndexInv
  <2>. QED BY <2>3 DEF Exact, matches
<1>3. ~Busy(s)'
  BY DEF Busy
<1>4. IsSound(s, p)'
  BY <1>1, <1>2, <1>3 DEF IsSound
<1>5. /\ files' = [x \in Schemas |-> files'[x]] /\ DOMAIN manifest'.schemas \subseteq Schemas
      /\ DOMAIN tmp'.schemas \subseteq Schemas /\ captures' \in Nat
  BY DEF IndexInv, IndexTypes
<1>. QED BY <1>4, <1>5, IndexStep

\* A step of a command that stays busy, on its own, keeps the index if it keeps its
\* copy exact and its count.
LEMMA BusyStep ==
  ASSUME IndexInv, AloneInv', NEW p \in Processes, NEW s,
         process' = [process EXCEPT ![p] = s], ProcessTypes(s),
         Writes(process[p].command), ~At(p, "idle"), Busy(s),
         manifest' = manifest, DOMAIN tmp'.schemas \subseteq Schemas,
         files' = [x \in Schemas |-> files'[x]], captures' \in Nat,
         overlapped' = overlapped, faulted => faulted',
         ~overlapped => GcCounts(s) /\ TmpIsCopy(s)',
         ~overlapped /\ ~faulted' => CopyIsExact(s)'
  PROVE  IndexInv'
<1>1. ~overlapped' => GcCounts(s)'
  BY DEF GcCounts
<1>2. Busy(s)'
  BY DEF Busy
<1>3. IsSound(s, p)'
  BY <1>1, <1>2 DEF IsSound
<1>4. DOMAIN manifest'.schemas \subseteq Schemas
  BY DEF IndexInv, IndexTypes
<1>. QED BY <1>3, <1>4, IndexStep

\* An update keeps the index: what it fetches is in its copy when the file is whole.
LEMMA UpdateKeepsIndex ==
  ASSUME IndexInv, AloneInv', NEW p \in Processes,
         FetchFails(p) \/ Fetch(p) \/ WriteSchema(p) \/ AppendAudit(p)
  PROVE  IndexInv'
<1>. USE DEF HistoryUnchanged, DiskUnchanged
<1>. DEFINE t == Target(p)
            old == process[p]
<1>1. ProcessTypes(old) /\ files = [x \in Schemas |-> files[x]] /\ captures \in Nat
  BY DEF IndexInv, IndexTypes
<1>2. /\ old.command.name = "update" /\ Writes(old.command) /\ ~At(p, "idle") /\ old.todo # <<>>
      /\ overlapped' = overlapped /\ faulted' = faulted /\ manifest' = manifest
      /\ DOMAIN tmp'.schemas \subseteq Schemas
  <2>1. old.command.name = "update" /\ ~At(p, "idle") /\ old.todo # <<>>
    BY <1>1 DEF FetchFails, Fetch, WriteSchema, AppendAudit, At, Runs, ProcessTypes
  <2>2. Writes(old.command)
    BY <2>1 DEF Writes
  <2>3. overlapped' = overlapped /\ faulted' = faulted /\ manifest' = manifest
    BY DEF FetchFails, Fetch, WriteSchema, AppendAudit
  <2>4. DOMAIN tmp'.schemas \subseteq Schemas
    BY DEF FetchFails, Fetch, WriteSchema, AppendAudit, IndexInv, IndexTypes
  <2>. QED BY <2>1, <2>2, <2>3, <2>4
<1>3. ~overlapped /\ ~faulted =>
        /\ At(p, "each") \/ At(p, "audit") => Exact(old.schemas)
        /\ At(p, "write") =>
             /\ DOMAIN old.schemas \cup {t} = {k \in Schemas : files[k] # Absent}
             /\ \A k \in DOMAIN old.schemas \ {t} : matches(old.schemas, k)
  BY <1>2 DEF IndexInv, Busy, CopyIsExact, At, Target
<1>4. t \in Schemas /\ DOMAIN old.schemas \subseteq Schemas
  BY <1>1, <1>2, TargetIs DEF ProcessTypes
<1>. HIDE DEF old
<1>5. captures' \in Nat
  <2>1. captures' = captures \/ captures' = captures + 1
    BY DEF FetchFails, Fetch, WriteSchema, AppendAudit
  <2>. QED BY <1>1, <2>1
<1>6. ASSUME NEW ok, NextTarget(p, old.schemas, ok), files' = files,
             At(p, "each") \/ At(p, "audit")
      PROVE  IndexInv'
  <2>1. PICK s : /\ process' = [process EXCEPT ![p] = s] /\ ProcessTypes(s)
                 /\ s.pc = "each" /\ s.schemas = old.schemas /\ s.command = old.command
    BY <1>6, <1>2, <1>4, NextIs DEF old
  <2>2. Busy(s) /\ GcCounts(s) /\ TmpIsCopy(s)'
    BY <2>1, <1>2 DEF Busy, GcCounts, TmpIsCopy, Writes
  <2>3. ~overlapped /\ ~faulted => Exact(s.schemas)'
    BY <1>6, <1>3, <2>1 DEF Exact, matches
  <2>4. ~overlapped /\ ~faulted' => CopyIsExact(s)'
    BY <2>1, <2>3, <1>2 DEF CopyIsExact, Exact, matches
  <2>5. files' = [x \in Schemas |-> files'[x]] /\ Writes(process[p].command)
    BY <1>6, <1>1, <1>2 DEF old
  <2>. QED BY <1>2, <1>5, <2>1, <2>2, <2>4, <2>5, BusyStep
<1>7. CASE FetchFails(p)
  BY <1>6, <1>7 DEF FetchFails, old
<1>8. CASE AppendAudit(p)
  BY <1>6, <1>8 DEF AppendAudit, old
<1>9. CASE Fetch(p)
  <2>1. PICK s : s = [old EXCEPT !.pc = "write", !.capture = captures + 1]
    OBVIOUS
  <2>2. process' = [process EXCEPT ![p] = s]
    BY <1>9, <2>1 DEF Fetch, IndexInv, AloneInv, Shape, old
  <2>3. /\ s.pc = "write" /\ s.capture = captures + 1 /\ s.schemas = old.schemas
        /\ s.todo = old.todo /\ s.command = old.command /\ DOMAIN s = Fields
    BY <1>1, <2>1 DEF ProcessTypes, Fields
  <2>4. ProcessTypes(s)
    BY <1>1, <1>2, <2>3 DEF ProcessTypes
  <2>5. Busy(s) /\ GcCounts(s) /\ TmpIsCopy(s)'
    BY <1>2, <2>3 DEF Busy, GcCounts, TmpIsCopy, Writes
  <2>6. files' = [files EXCEPT ![t] = Torn] /\ Head(s.todo) = t
    BY <1>9, <2>3 DEF Fetch, Target, old
  <2>7. files' = [x \in Schemas |-> files'[x]] /\ Writes(process[p].command)
    BY <1>1, <1>2, <2>6 DEF old
  <2>8. ~overlapped /\ ~faulted' => CopyIsExact(s)'
    <3>. HIDE DEF t
    <3>1. /\ files'[t] = Torn /\ Torn # Absent
          /\ \A k \in Schemas : k # t => files'[k] = files[k]
      BY <1>1, <1>4, <2>6 DEF Torn, Absent
    <3>. SUFFICES ASSUME ~overlapped, ~faulted' PROVE CopyIsExact(s)'
      OBVIOUS
    <3>2. Exact(old.schemas)
      BY <1>9, <1>2, <1>3 DEF Fetch
    <3>3. DOMAIN s.schemas \cup {t} = {k \in Schemas : files'[k] # Absent}
      BY <1>4, <2>3, <3>1, <3>2 DEF Exact
    <3>4. \A k \in DOMAIN s.schemas \ {t} : matches(s.schemas, k)'
      BY <1>4, <2>3, <3>1, <3>2 DEF Exact, matches
    <3>. QED BY <2>3, <2>6, <3>3, <3>4 DEF CopyIsExact
  <2>. QED BY <1>2, <1>5, <2>2, <2>4, <2>5, <2>7, <2>8, BusyStep
<1>10. CASE WriteSchema(p)
  <2>1. PICK s : s = [old EXCEPT !.pc = "audit", !.schemas = upsert(@, t, old.capture)]
    OBVIOUS
  <2>2. process' = [process EXCEPT ![p] = s]
    BY <1>10, <2>1 DEF WriteSchema, IndexInv, AloneInv, Shape, old
  <2>3. /\ s.pc = "audit" /\ s.schemas = upsert(old.schemas, t, old.capture)
        /\ s.todo = old.todo /\ s.command = old.command /\ DOMAIN s = Fields
    BY <1>1, <2>1 DEF ProcessTypes, Fields
  <2>4. ProcessTypes(s)
    BY <1>1, <1>2, <1>4, <2>3 DEF ProcessTypes, upsert
  <2>5. Busy(s) /\ GcCounts(s) /\ TmpIsCopy(s)'
    BY <1>2, <2>3 DEF Busy, GcCounts, TmpIsCopy, Writes
  <2>6. files' = [files EXCEPT ![t] = old.capture] /\ old.capture # Absent /\ At(p, "write")
    BY <1>10, <1>1 DEF WriteSchema, old, ProcessTypes, At, Absent
  <2>7. files' = [x \in Schemas |-> files'[x]] /\ Writes(process[p].command)
    BY <1>1, <1>2, <2>6 DEF old
  <2>8. ~overlapped /\ ~faulted' => CopyIsExact(s)'
    <3>. HIDE DEF t
    <3>1. /\ files'[t] = old.capture /\ \A k \in Schemas : k # t => files'[k] = files[k]
      BY <1>1, <1>4, <2>6
    <3>. SUFFICES ASSUME ~overlapped, ~faulted' PROVE CopyIsExact(s)'
      OBVIOUS
    <3>2. /\ DOMAIN old.schemas \cup {t} = {k \in Schemas : files[k] # Absent}
          /\ \A k \in DOMAIN old.schemas \ {t} : matches(old.schemas, k)
      BY <1>2, <1>3, <2>6
    <3>3. /\ DOMAIN s.schemas = DOMAIN old.schemas \cup {t} /\ s.schemas[t] = old.capture
          /\ \A k \in DOMAIN old.schemas \ {t} : s.schemas[k] = old.schemas[k]
      BY <2>3 DEF upsert
    <3>4. DOMAIN s.schemas = {k \in Schemas : files'[k] # Absent}
      BY <1>4, <2>6, <3>1, <3>2, <3>3
    <3>5. \A k \in DOMAIN s.schemas : matches(s.schemas, k)'
      BY <1>4, <3>1, <3>2, <3>3 DEF matches
    <3>. QED BY <2>3, <3>4, <3>5 DEF CopyIsExact, Exact
  <2>. QED BY <1>2, <1>5, <2>2, <2>4, <2>5, <2>7, <2>8, BusyStep
<1>. QED BY <1>7, <1>8, <1>9, <1>10

\* A gc keeps the index: with each directory goes its entry.
LEMMA GcKeepsIndex ==
  ASSUME IndexInv, AloneInv', NEW p \in Processes, RemoveDir(p) \/ RemoveDirFails(p)
  PROVE  IndexInv'
<1>. USE DEF HistoryUnchanged, Fault
<1>. DEFINE t == Target(p)
            old == process[p]
            keep == old.command.keep
<1>1. /\ ProcessTypes(old) /\ files = [x \in Schemas |-> files[x]] /\ captures' \in Nat
      /\ t \in Schemas
      /\ {old.todo[k] : k \in DOMAIN old.todo} \ {t}
           \subseteq {Tail(old.todo)[k] : k \in DOMAIN Tail(old.todo)}
  BY TargetIs DEF IndexInv, IndexTypes, RemoveDir, RemoveDirFails
<1>2. /\ old.command.name = "gc" /\ Writes(old.command) /\ ~At(p, "idle") /\ old.todo # <<>>
      /\ overlapped' = overlapped /\ manifest' = manifest /\ At(p, "each") /\ tmp' = tmp
      /\ keep \in Nat /\ DOMAIN tmp'.schemas \subseteq Schemas
  <2>1. keep \in Nat
    BY <1>1 DEF ProcessTypes, Commands, Gc, UpdateOne, UpdateAll, Verify, Show, Command
  <2>2. DOMAIN tmp'.schemas \subseteq Schemas
    BY DEF RemoveDir, RemoveDirFails, IndexInv, IndexTypes
  <2>. QED BY <2>1, <2>2 DEF RemoveDir, RemoveDirFails, At, Runs, Writes
<1>3. DOMAIN old.schemas \subseteq Schemas
  BY <1>1 DEF ProcessTypes
<1>4. /\ ~overlapped /\ ~faulted => Exact(old.schemas)
      /\ ~overlapped /\ old.ok => beyond(old.schemas, keep) \subseteq {old.todo[k] : k \in DOMAIN old.todo}
  BY <1>2 DEF IndexInv, Busy, CopyIsExact, At, GcCounts
<1>. HIDE DEF old, keep
<1>5. CASE RemoveDir(p)
  <2>1. PICK left : left = remove(old.schemas, t)
    OBVIOUS
  <2>2. /\ files' = [files EXCEPT ![t] = Absent] /\ NextTarget(p, left, TRUE)
        /\ faulted' = faulted
    BY <1>5, <2>1 DEF RemoveDir, old
  <2>3. DOMAIN left = DOMAIN old.schemas \ {t} /\ \A k \in DOMAIN left : left[k] = old.schemas[k]
    BY <2>1 DEF remove
  <2>. HIDE DEF t
  <2>4. files' = [x \in Schemas |-> files'[x]] /\ files'[t] = Absent
        /\ \A k \in Schemas : k # t => files'[k] = files[k]
    BY <1>1, <2>2
  <2>5. beyond(left, keep) \subseteq beyond(old.schemas, keep) \ {t}
    BY <1>2, <1>3, <2>1, FewerBeyond
  <2>6. PICK s : /\ process' = [process EXCEPT ![p] = s] /\ ProcessTypes(s)
                 /\ s.pc = "each" /\ s.schemas = left /\ s.todo = Tail(old.todo)
                 /\ s.command = old.command /\ (s.ok => old.ok)
    <3>1. DOMAIN left \subseteq Schemas
      BY <1>3, <2>3
    <3>2. PICK ok : ok = TRUE
      OBVIOUS
    <3>3. NextTarget(p, left, ok) /\ process[p].todo # <<>>
      BY <1>2, <2>2, <3>2 DEF old
    <3>4. PICK s : /\ process' = [process EXCEPT ![p] = s] /\ ProcessTypes(s)
                   /\ s.pc = "each" /\ s.schemas = left /\ s.todo = Tail(process[p].todo)
                   /\ s.command = process[p].command /\ (s.ok => process[p].ok /\ ok)
      BY <3>1, <3>3, NextIs
    <3>5. old = process[p] /\ (s.ok => old.ok)
      BY <3>4 DEF old
    <3>. QED BY <3>4, <3>5
  <2>7. ~overlapped => GcCounts(s)
    <3>. SUFFICES ASSUME ~overlapped, s.ok
                  PROVE  beyond(left, keep) \subseteq {Tail(old.todo)[k] : k \in DOMAIN Tail(old.todo)}
      BY <2>6 DEF GcCounts, keep
    <3>1. old.ok
      BY <2>6
    <3>. QED BY <1>1, <1>4, <2>5, <3>1
  <2>8. ~overlapped /\ ~faulted' => CopyIsExact(s)'
    <3>. SUFFICES ASSUME ~overlapped, ~faulted' PROVE CopyIsExact(s)'
      OBVIOUS
    <3>1. Exact(old.schemas)
      BY <1>4, <2>2
    <3>2. DOMAIN left = {k \in Schemas : files'[k] # Absent}
      BY <1>1, <2>3, <2>4, <3>1 DEF Exact, t
    <3>3. \A k \in DOMAIN left : matches(left, k)'
      BY <2>3, <2>4, <3>1, <1>3 DEF Exact, matches
    <3>. QED BY <2>6, <3>2, <3>3 DEF CopyIsExact, Exact, matches
  <2>9. Busy(s) /\ TmpIsCopy(s)' /\ Writes(process[p].command)
    BY <1>2, <2>6 DEF Busy, TmpIsCopy, Writes, old
  <2>. QED BY <1>1, <1>2, <2>2, <2>4, <2>6, <2>7, <2>8, <2>9, BusyStep
<1>6. CASE RemoveDirFails(p)
  <2>1. PICK left : files' = [files EXCEPT ![t] = left]
    BY <1>6 DEF RemoveDirFails
  <2>2. NextTarget(p, old.schemas, FALSE) /\ faulted' = TRUE
    BY <1>6 DEF RemoveDirFails, old
  <2>3. PICK s : /\ process' = [process EXCEPT ![p] = s] /\ ProcessTypes(s)
                 /\ s.pc = "each" /\ s.command = old.command /\ ~s.ok
    BY <1>2, <1>3, <2>2, NextIs DEF old
  <2>. HIDE DEF t
  <2>4. files' = [x \in Schemas |-> files'[x]]
    BY <1>1, <2>1
  <2>5. /\ GcCounts(s) /\ TmpIsCopy(s)' /\ Busy(s) /\ Writes(process[p].command)
    BY <1>2, <2>3 DEF GcCounts, TmpIsCopy, Busy, Writes, old
  <2>. QED BY <1>1, <1>2, <2>2, <2>3, <2>4, <2>5, BusyStep
<1>. QED BY <1>5, <1>6

\* Saving replaces the manifest with the copy.
LEMMA SaveKeepsIndex ==
  ASSUME IndexInv, AloneInv', NEW p \in Processes, SaveBegins(p) \/ SaveWritten(p) \/ Rename(p)
  PROVE  IndexInv'
<1>. USE DEF HistoryUnchanged
<1>. DEFINE old == process[p]
<1>1. ProcessTypes(old) /\ files = [x \in Schemas |-> files[x]] /\ captures' \in Nat
      /\ DOMAIN old = Fields
  BY DEF IndexInv, IndexTypes, SaveBegins, SaveWritten, Rename, ProcessTypes
<1>2. /\ Writes(old.command) /\ ~At(p, "idle") /\ files' = files
      /\ overlapped' = overlapped /\ faulted' = faulted
  BY DEF SaveBegins, SaveWritten, Rename, At, IndexInv, AloneInv
<1>3. DOMAIN tmp'.schemas \subseteq Schemas
  <2>1. /\ DOMAIN process[p].schemas \subseteq Schemas /\ DOMAIN tmp.schemas \subseteq Schemas
    BY DEF IndexInv, IndexTypes, ProcessTypes
  <2>2. \/ tmp' = NoFile \/ tmp' = TornFile \/ tmp' = Whole(process[p].schemas)
    BY DEF SaveBegins, SaveWritten, Rename
  <2>. QED BY <2>1, <2>2 DEF NoFile, TornFile, Whole, Manifest, NoEntries
<1>4. ~overlapped =>
        /\ GcCounts(old) /\ TmpIsCopy(old)
        /\ ~faulted => (Busy(old) => CopyIsExact(old))
  BY DEF IndexInv
<1>. HIDE DEF old
<1>5. ASSUME NEW pc, Goto(p, pc), pc \notin {"write", "audit"}
      PROVE  \E s : /\ process' = [process EXCEPT ![p] = s] /\ ProcessTypes(s)
                    /\ s.pc = pc /\ s.schemas = old.schemas /\ s.todo = old.todo
                    /\ s.command = old.command /\ s.ok = old.ok
  <2>1. PICK s : s = [old EXCEPT !.pc = pc]
    OBVIOUS
  <2>2. process' = [process EXCEPT ![p] = s]
    BY <1>5, <2>1 DEF Goto, IndexInv, AloneInv, Shape, old
  <2>3. /\ s.pc = pc /\ s.schemas = old.schemas /\ s.todo = old.todo /\ s.ok = old.ok
        /\ s.command = old.command /\ DOMAIN s = Fields
    BY <1>1, <2>1 DEF Fields
  <2>4. ProcessTypes(s)
    BY <1>5, <1>1, <2>3 DEF ProcessTypes
  <2>. QED BY <2>2, <2>3, <2>4
<1>6. CASE SaveBegins(p)
  <2>1. /\ At(p, "each") /\ old.todo = <<>> /\ Goto(p, "save") /\ manifest' = manifest
    BY <1>6 DEF SaveBegins, old
  <2>2. PICK s : /\ process' = [process EXCEPT ![p] = s] /\ ProcessTypes(s)
                 /\ s.pc = "save" /\ s.schemas = old.schemas /\ s.todo = old.todo
                 /\ s.command = old.command /\ s.ok = old.ok
    BY <1>5, <2>1
  <2>3. Busy(s) /\ TmpIsCopy(s)' /\ Busy(old) /\ old.pc = "each" /\ Writes(process[p].command)
    BY <1>2, <2>1, <2>2 DEF Busy, TmpIsCopy, At, old
  <2>4. ~overlapped => GcCounts(s)
    BY <1>4, <2>1, <2>2, <2>3 DEF GcCounts
  <2>5. ~overlapped /\ ~faulted' => CopyIsExact(s)'
    BY <1>2, <1>4, <2>2, <2>3 DEF CopyIsExact, Exact, matches
  <2>. QED BY <1>1, <1>2, <1>3, <2>1, <2>2, <2>3, <2>4, <2>5, BusyStep
<1>7. CASE SaveWritten(p)
  <2>1. /\ At(p, "save") /\ tmp' = Whole(old.schemas) /\ Goto(p, "rename")
        /\ manifest' = manifest
    BY <1>7 DEF SaveWritten, old
  <2>2. PICK s : /\ process' = [process EXCEPT ![p] = s] /\ ProcessTypes(s)
                 /\ s.pc = "rename" /\ s.schemas = old.schemas /\ s.todo = old.todo
                 /\ s.command = old.command /\ s.ok = old.ok
    BY <1>5, <2>1
  <2>3. Busy(s) /\ TmpIsCopy(s)' /\ Busy(old) /\ old.pc = "save" /\ Writes(process[p].command)
    BY <1>2, <2>1, <2>2 DEF Busy, TmpIsCopy, At, old
  <2>4. ~overlapped => GcCounts(s)
    BY <1>4, <2>1, <2>2, <2>3 DEF GcCounts
  <2>5. ~overlapped /\ ~faulted' => CopyIsExact(s)'
    BY <1>2, <1>4, <2>2, <2>3 DEF CopyIsExact, Exact, matches
  <2>. QED BY <1>1, <1>2, <1>3, <2>1, <2>2, <2>3, <2>4, <2>5, BusyStep
<1>8. CASE Rename(p)
  <2>1. At(p, "rename") /\ manifest' = tmp /\ Ends(p, old.ok)
    BY <1>8 DEF Rename, old
  <2>2. PICK s : /\ process' = [process EXCEPT ![p] = s] /\ ProcessTypes(s)
                 /\ s.pc = "end" /\ s.ok = old.ok /\ s.command = old.command
    BY <2>1, EndIs DEF old
  <2>3. Busy(old) /\ old.pc = "rename" /\ ~Busy(s)' /\ Writes(process[p].command)
    BY <1>2, <2>1, <2>2 DEF Busy, At, old
  <2>4. ~overlapped => manifest'.schemas = old.schemas
    BY <1>2, <1>4, <2>1, <2>3 DEF TmpIsCopy, Whole, Manifest
  <2>5. ~overlapped => GcCounts(s)' /\ TmpIsCopy(s)'
    BY <1>4, <2>2, <2>3, <2>4 DEF GcCounts, TmpIsCopy
  <2>6. ~overlapped /\ ~faulted => Exact(manifest.schemas)'
    BY <1>2, <1>4, <2>3, <2>4 DEF CopyIsExact, Exact, matches
  <2>7. IsSound(s, p)'
    BY <1>2, <2>3, <2>5, <2>6 DEF IsSound
  <2>8. DOMAIN manifest'.schemas \subseteq Schemas
    BY <2>1 DEF IndexInv, IndexTypes
  <2>. QED BY <1>1, <1>2, <1>3, <2>2, <2>3, <2>7, <2>8, IndexStep
<1>. QED BY <1>6, <1>7, <1>8

\* A command that ends with a fault has written what no later one counts on.
LEMMA FaultKeepsIndex ==
  ASSUME IndexInv, AloneInv', NEW p \in Processes,
         \/ Ends(p, FALSE)
         \/ process' = [process EXCEPT ![p] = Idle],
         DiskUnchanged, captures' = captures, overlapped' = overlapped,
         faulted => faulted', Busy(process[p]) => faulted'
  PROVE  IndexInv'
<1>1. CASE Ends(p, FALSE)
  <2>1. PICK ok : ok = FALSE
    OBVIOUS
  <2>2. Ends(p, ok)
    BY <1>1, <2>1
  <2>3. PICK s : /\ process' = [process EXCEPT ![p] = s] /\ ProcessTypes(s)
                 /\ s.pc = "end" /\ s.ok = ok /\ s.command = process[p].command
    BY <2>2, EndIs
  <2>4. ~Busy(s) /\ ~s.ok
    BY <2>1, <2>3 DEF Busy
  <2>. QED BY <2>3, <2>4, RestingStep
<1>2. CASE process' = [process EXCEPT ![p] = Idle]
  <2>1. PICK s : s = Idle
    OBVIOUS
  <2>2. /\ s.pc = "idle" /\ s.command \in Commands /\ s.todo \in Seq(Schemas)
        /\ DOMAIN s.schemas = {} /\ DOMAIN s = Fields
    BY <2>1 DEF Idle, Commands, NoEntries, Fields
  <2>3. ~Busy(s) /\ ProcessTypes(s) /\ s.pc # "end"
    BY <2>2 DEF Busy, ProcessTypes
  <2>. QED BY <1>2, <2>1, <2>3, RestingStep
<1>. QED BY <1>1, <1>2

\* A command begins with the manifest there is, and, if it writes, on its own.
LEMMA LoadKeepsIndex ==
  ASSUME IndexInv, AloneInv', NEW p \in Processes, Load(p)
  PROVE  IndexInv'
<1>. USE DEF HistoryUnchanged, DiskUnchanged
<1>. DEFINE old == process[p]
            D == DOMAIN manifest.schemas
<1>1. /\ ProcessTypes(old) /\ DOMAIN old = Fields /\ ~At(p, "idle") /\ old.pc = "load"
      /\ ~Busy(old) /\ D \subseteq Schemas
      /\ files = [x \in Schemas |-> files[x]] /\ DOMAIN tmp.schemas \subseteq Schemas
  BY DEF Load, At, Busy, IndexInv, IndexTypes, ProcessTypes
<1>2. /\ DiskUnchanged /\ captures' = captures /\ captures \in Nat
      /\ overlapped' = overlapped /\ faulted' = faulted
  BY DEF Load, IndexInv, IndexTypes
<1>. HIDE DEF D
<1>3. CASE Ends(p, FALSE)
  BY <1>3, <1>1, <1>2, FaultKeepsIndex
<1>4. ASSUME Ends(p, TRUE),
             old.command.name = "gc" => beyond(manifest.schemas, old.command.keep) = {}
      PROVE  IndexInv'
  <2>1. PICK ok : ok = TRUE
    OBVIOUS
  <2>2. Ends(p, ok)
    BY <1>4, <2>1
  <2>3. PICK s : /\ process' = [process EXCEPT ![p] = s] /\ ProcessTypes(s)
                 /\ s.pc = "end" /\ s.command = process[p].command
    BY <2>2, EndIs
  <2>4. ~Busy(s)
    BY <2>3 DEF Busy
  <2>. QED BY <1>4, <1>1, <1>2, <2>3, <2>4, RestingStep
<1>5. ASSUME NEW X, X \in SUBSET Schemas,
             process' = [process EXCEPT ![p].schemas = manifest.schemas, ![p].todo = sorted(X),
                                        ![p].pc = "each"],
             old.command.name = "gc" => X = beyond(manifest.schemas, old.command.keep)
      PROVE  IndexInv'
  <2>1. PICK s : s = [old EXCEPT !.schemas = manifest.schemas, !.todo = sorted(X), !.pc = "each"]
    OBVIOUS
  <2>2. process' = [process EXCEPT ![p] = s]
    BY <1>5, <2>1 DEF IndexInv, AloneInv, Shape
  <2>3. /\ s.pc = "each" /\ s.schemas = manifest.schemas /\ s.todo = sorted(X)
        /\ s.command = old.command /\ DOMAIN s = Fields
    BY <1>1, <2>1 DEF Fields
  <2>4. sorted(X) \in Seq(Schemas) /\ X = {sorted(X)[k] : k \in DOMAIN sorted(X)}
    BY <1>5, SortedHoldsAll
  <2>5. ProcessTypes(s)
    BY <1>1, <2>3, <2>4 DEF ProcessTypes, D
  <2>6. CASE ~Writes(old.command)
    <3>1. ~Busy(s)
      BY <2>3, <2>6 DEF Busy
    <3>. QED BY <1>1, <1>2, <2>2, <2>3, <2>5, <3>1, RestingStep
  <2>7. CASE Writes(old.command)
    <3>1. Busy(s) /\ TmpIsCopy(s)'
      BY <2>3, <2>7 DEF Busy, TmpIsCopy
    <3>2. GcCounts(s)
      BY <1>5, <2>3, <2>4 DEF GcCounts
    <3>3. ~overlapped /\ ~faulted' => CopyIsExact(s)'
      <4>. SUFFICES ASSUME ~overlapped, ~faulted PROVE CopyIsExact(s)'
        BY <1>2
      <4>1. \A q \in Processes : ~Busy(process[q])
        BY <1>1, <2>7, OthersAreIdle
      <4>2. Exact(manifest.schemas)
        BY <4>1 DEF IndexInv
      <4>. QED BY <1>2, <2>3, <4>2 DEF CopyIsExact, Exact, matches
    <3>. QED BY <1>1, <1>2, <2>2, <2>5, <2>7, <3>1, <3>2, <3>3, BusyStep
  <2>. QED BY <2>6, <2>7
<1>6. CASE /\ old.command.name = "verify"
           /\ process' = [process EXCEPT ![p].schemas = manifest.schemas, ![p].todo = sorted(D),
                                         ![p].pc = "each"]
  BY <1>5, <1>6, <1>1
<1>7. CASE old.command.name = "gc" /\ ~Ends(p, FALSE)
  <2>. DEFINE X == beyond(manifest.schemas, old.command.keep)
  <2>1. X \in SUBSET Schemas
    BY <1>1 DEF beyond, D
  <2>2. IF X = {} THEN Ends(p, TRUE)
        ELSE process' = [process EXCEPT ![p].schemas = manifest.schemas, ![p].todo = sorted(X),
                                        ![p].pc = "each"]
    BY <1>7 DEF Load
  <2>. HIDE DEF X
  <2>3. CASE X = {}
    BY <1>4, <2>2, <2>3 DEF X
  <2>4. CASE X # {}
    <3>1. process' = [process EXCEPT ![p].schemas = manifest.schemas, ![p].todo = sorted(X),
                                     ![p].pc = "each"]
      BY <2>2, <2>4
    <3>2. old.command.name = "gc" => X = beyond(manifest.schemas, old.command.keep)
      BY DEF X
    <3>. QED BY <1>5, <2>1, <3>1, <3>2
  <2>. QED BY <2>3, <2>4
<1>8. CASE old.command.name = "update" /\ ~Ends(p, FALSE)
  <2>. DEFINE X == IF old.command = UpdateAll THEN D ELSE old.command.targets
  <2>1. IF X = {} THEN Ends(p, TRUE)
        ELSE process' = [process EXCEPT ![p].schemas = manifest.schemas, ![p].todo = sorted(X),
                                        ![p].pc = "each"]
    BY <1>8 DEF Load, D
  <2>2. X \in SUBSET Schemas
    <3>1. old.command.targets \subseteq Schemas
      BY <1>8, <1>1 DEF ProcessTypes, Commands, Gc, UpdateOne, UpdateAll, Verify, Show, Command
    <3>. QED BY <1>1, <3>1
  <2>. HIDE DEF X
  <2>3. CASE X = {}
    BY <1>4, <1>8, <2>1, <2>3
  <2>4. CASE X # {}
    BY <1>5, <1>8, <2>1, <2>2, <2>4
  <2>. QED BY <2>3, <2>4
<1>. QED BY <1>3, <1>6, <1>7, <1>8 DEF Load, D

\* Every step of a command keeps the index.
LEMMA CommandKeepsIndex ==
  ASSUME IndexInv, NEW p \in Processes, CommandStep(p) \/ WriteSchema(p)
  PROVE  IndexInv'
<1>1. AloneInv'
  BY CommandKeepsAlone DEF IndexInv
<1>2. CASE Start(p)
  <2>1. PICK c \in Commands :
          process' = [process EXCEPT ![p] = [Idle EXCEPT !.pc = "load", !.command = c]]
    BY <1>2 DEF Start
  <2>2. PICK s : s = [Idle EXCEPT !.pc = "load", !.command = c]
    OBVIOUS
  <2>3. /\ DOMAIN s = Fields /\ s.pc = "load" /\ s.command = c
        /\ DOMAIN s.schemas = {} /\ s.todo \in Seq(Schemas)
    BY <2>2 DEF Idle, Fields, NoEntries
  <2>4. ProcessTypes(s) /\ ~Busy(s) /\ ~Busy(process[p])
    BY <1>2, <2>3 DEF ProcessTypes, Busy, Start, At
  <2>5. /\ DiskUnchanged /\ captures' = captures /\ faulted' = faulted
        /\ overlapped => overlapped'
    BY <1>2 DEF Start
  <2>. QED BY <1>1, <2>1, <2>2, <2>3, <2>4, <2>5, RestingStep
<1>3. CASE Load(p)
  BY <1>3, <1>1, LoadKeepsIndex
<1>4. CASE FetchFails(p) \/ Fetch(p) \/ WriteSchema(p) \/ AppendAudit(p)
  BY <1>4, <1>1, UpdateKeepsIndex
<1>5. CASE RemoveDir(p) \/ RemoveDirFails(p)
  BY <1>5, <1>1, GcKeepsIndex
<1>6. CASE SaveBegins(p) \/ SaveWritten(p) \/ Rename(p)
  BY <1>6, <1>1, SaveKeepsIndex
<1>7. CASE CaptureFails(p) \/ SaveFails(p) \/ Exit(p) \/ Crash(p)
  <2>1. /\ DiskUnchanged /\ captures' = captures /\ overlapped' = overlapped
        /\ Ends(p, FALSE) \/ process' = [process EXCEPT ![p] = Idle]
        /\ faulted => faulted'
    <3>1. /\ DiskUnchanged
          /\ Fault \/ HistoryUnchanged
          /\ Ends(p, FALSE) \/ process' = [process EXCEPT ![p] = Idle]
      BY <1>7 DEF CaptureFails, SaveFails, Exit, Crash
    <3>2. /\ captures' = captures /\ overlapped' = overlapped
          /\ faulted => faulted'
      BY <3>1 DEF Fault, HistoryUnchanged
    <3>. QED BY <3>1, <3>2
  <2>2. Busy(process[p]) => faulted'
    BY <1>7 DEF CaptureFails, SaveFails, Exit, Crash, Fault, At, Busy
  <2>. QED BY <1>1, <2>1, <2>2, FaultKeepsIndex
<1>8. CASE Check(p) \/ Verdict(p) \/ ShowSchema(p)
  <2>. DEFINE old == process[p]
  <2>1. old.command.name \in {"verify", "show"}
    <3>1. Runs(p, "verify") \/ Runs(p, "show")
      BY <1>8 DEF Check, Verdict, ShowSchema
    <3>. QED BY <3>1 DEF Runs
  <2>2. /\ ProcessTypes(old) /\ DiskUnchanged /\ captures' = captures
        /\ overlapped' = overlapped /\ faulted' = faulted
        /\ old.command.name \in {"verify", "show"} /\ ~Busy(old)
    <3>1. DiskUnchanged /\ HistoryUnchanged
      BY <1>8 DEF Check, Verdict, ShowSchema
    <3>. QED BY <2>1, <3>1 DEF HistoryUnchanged, IndexInv, IndexTypes, Busy, Writes
  <2>3. ASSUME NEW ok, Ends(p, ok) PROVE IndexInv'
    <3>1. PICK s : /\ process' = [process EXCEPT ![p] = s] /\ ProcessTypes(s)
                   /\ s.pc = "end" /\ s.command = process[p].command
      BY <2>3, EndIs
    <3>2. ~Busy(s) /\ s.command.name # "gc"
      BY <2>2, <3>1 DEF Busy
    <3>. QED BY <1>1, <2>2, <3>1, <3>2, RestingStep
  <2>4. ASSUME NEW ok, NextTarget(p, old.schemas, ok), old.todo # <<>> PROVE IndexInv'
    <3>1. DOMAIN old.schemas \subseteq Schemas
      BY <2>2 DEF ProcessTypes
    <3>2. PICK s : /\ process' = [process EXCEPT ![p] = s] /\ ProcessTypes(s)
                   /\ s.pc = "each" /\ s.command = process[p].command
      BY <2>4, <3>1, NextIs
    <3>3. ~Busy(s)
      BY <2>2, <3>2 DEF Busy, Writes
    <3>. QED BY <1>1, <2>2, <3>2, <3>3, RestingStep
  <2>5. CASE Check(p)
    <3>1. PICK ok : ok = matches(old.schemas, Target(p))
      OBVIOUS
    <3>2. NextTarget(p, old.schemas, ok) /\ old.todo # <<>>
      BY <2>5, <3>1 DEF Check
    <3>. QED BY <2>4, <3>2
  <2>6. CASE Verdict(p)
    BY <2>3, <2>6 DEF Verdict
  <2>7. CASE ShowSchema(p)
    <3>1. PICK s \in old.command.targets : Ends(p, files[s] \in Captures)
      BY <2>7 DEF ShowSchema
    <3>2. PICK ok : ok = (files[s] \in Captures)
      OBVIOUS
    <3>3. Ends(p, ok)
      BY <3>1, <3>2
    <3>. QED BY <2>3, <3>3
  <2>. QED BY <1>8, <2>5, <2>6, <2>7
<1>. QED BY <1>2, <1>3, <1>4, <1>5, <1>6, <1>7, <1>8 DEF CommandStep

\* The tasks that read change nothing on disk.
LEMMA StepIndexInv == IndexInv /\ [Next]_vars => IndexInv'
<1>. SUFFICES ASSUME IndexInv, [Next]_vars PROVE IndexInv'
  OBVIOUS
<1>1. CASE UNCHANGED commandVars
  <2>1. AloneInv'
    BY <1>1 DEF IndexInv, AloneInv, Shape, At, commandVars
  <2>2. IndexTypes'
    BY <1>1 DEF IndexInv, IndexTypes, ProcessTypes, commandVars
  <2>. QED BY <1>1, <2>1, <2>2
           DEF IndexInv, commandVars, GcCounts, TmpIsCopy, Busy, CopyIsExact, Exact, matches
<1>. QED BY <1>1, CommandKeepsIndex DEF Next, vars, commandVars

\* Commands that ran one after the other and met nothing worse than a fetch that failed
\* leave in manifest.json an entry for each schema.json, with its hash, and a file for
\* each entry; and behind a gc on its own that removed what it meant to (gc.rs), no
\* provider has more entries than it was to keep.
THEOREM IndexStaysKept == Spec => []IndexIsKept
<1>1. IndexInv => IndexIsKept
  <2>. SUFFICES ASSUME IndexInv PROVE IndexIsKept
    OBVIOUS
  <2>1. UndisturbedIndexIsExact
    BY DEF IndexInv, UndisturbedIndexIsExact, IndexIsExact, Busy, Exact, At
  <2>2. GcKeepsItsCount
    BY DEF IndexInv, GcKeepsItsCount, GcCounts, At, Runs
  <2>. QED BY <2>1, <2>2 DEF IndexIsKept
<1>. QED BY <1>1, InitIndexInv, StepIndexInv, PTL DEF Spec
=============================================================================

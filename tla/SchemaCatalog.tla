--------------------------- MODULE SchemaCatalog ---------------------------
(***************************************************************************)
(* The runtime schema cache: `terrashift schema update | gc | verify |     *)
(* show` (cli/src/commands/schema) over one directory, which holds the     *)
(* schema.json of each captured (provider, version) pair and manifest.json,*)
(* their index (libs/knowledge/src/manifest.rs), and the in-memory cache of*)
(* a process that reads the schemas (libs/knowledge/src/cache.rs).         *)
(*                                                                         *)
(* Each command is a process of its own and holds no lock. It reads the    *)
(* manifest when it starts and writes its copy back when it ends; between  *)
(* the two it writes, or removes, one schema after the other. A process may*)
(* end between any two steps, and the writes of a file are not atomic.     *)
(*                                                                         *)
(* A capture stands for the bytes of one schema.json: each carries the time*)
(* it was fetched, so no two are equal, and its hash stands for it.        *)
(***************************************************************************)
EXTENDS Integers, FiniteSets, Sequences

CONSTANTS
    Processes,     \* processes that run commands
    Readers,       \* tasks of one process that share a RuntimeSchemaCache
    Schemas,       \* (provider, version) pairs
    Provider,      \* [Schemas -> a provider]
    Wanted,        \* the pairs among them that the tasks ask for
    Place,         \* [Schemas -> Nat]: where cached_pairs() sorts a pair
    Pinned,        \* those the profile pins, which no command looks at
    MaxCaptures,   \* bound: captures made
    MaxCommands,   \* bound: commands started
    MaxLoads       \* bound: loads started by the readers

ASSUME PlaceIsInjective ==
    /\ Place \in [Schemas -> Nat]
    /\ \A a, b \in Schemas : Place[a] = Place[b] => a = b
ASSUME SchemasAreFinite == IsFiniteSet(Schemas)   \* a directory holds so many
ASSUME PinnedAreSchemas == Pinned \subseteq Schemas
ASSUME MaxCapturesIsNat == MaxCaptures \in Nat

VARIABLES
    manifest,    \* manifest.json
    tmp,         \* manifest.tmp, which every save() writes first
    files,       \* the schema.json of each pair
    audited,     \* the SchemaCapture entries of audit.db
    process,     \* what each process is at
    captures,    \* how many captures were made
    commands,    \* how many commands were started
    parsed,      \* RuntimeSchemaCache::parsed
    reader,      \* what each task of the reading process is at
    loads,       \* how many loads were started
    overlapped,  \* history: a command ran beside one that writes
    faulted,     \* history: a command was cut off, or met a failure
    dropped      \* history: the pairs invalidated when their file was gone
                 \* and no load of them under way, and not captured since

commandVars == <<manifest, tmp, files, audited, process, captures, commands,
                 overlapped, faulted>>
readerVars == <<parsed, reader, loads>>
vars == <<manifest, tmp, files, audited, process, captures, commands,
          overlapped, faulted, parsed, reader, loads, dropped>>

----------------------------------------------------------------------------
(* What is on disk *)

Absent == 0
Torn == -1
Captures == 1..MaxCaptures

NoEntries == <<>>
Manifest(state, schemas) == [state |-> state, schemas |-> schemas]
NoFile == Manifest("absent", NoEntries)
TornFile == Manifest("torn", NoEntries)
Whole(schemas) == Manifest("whole", schemas)

\* RuntimeManifest::upsert and ::remove, of a manifest as a function from
\* the pairs it has an entry for to the capture whose hash the entry holds.
\* A variant with a bug: an entry that is there is kept.
upsert_new_only(schemas, s, c) ==
    [k \in DOMAIN schemas \cup {s} |-> IF k \in DOMAIN schemas THEN schemas[k] ELSE c]
upsert(schemas, s, c) ==
    [k \in DOMAIN schemas \cup {s} |-> IF k = s THEN c ELSE schemas[k]]
remove(schemas, s) == [k \in DOMAIN schemas \ {s} |-> schemas[k]]

\* RuntimeManifest::cached_pairs: by provider, then by version as text, from
\* the greatest down.
sorted(pairs) ==
    LET before(s) == {t \in pairs : Place[t] < Place[s]}
    IN  [k \in 1..Cardinality(pairs) |->
            CHOOSE s \in pairs : Cardinality(before(s)) = k - 1]

\* The entries gc deletes: all but the first `keep` of each provider in that
\* order. run() is given the profile and ignores it, so a pin keeps nothing.
beyond(schemas, keep) ==
    {s \in DOMAIN schemas :
        Cardinality({t \in DOMAIN schemas :
            Provider[t] = Provider[s] /\ Place[t] < Place[s]}) >= keep}

\* An entry verify is content with: the file's hash is the entry's.
matches(schemas, s) == files[s] = schemas[s]

----------------------------------------------------------------------------
(* The commands *)

Command(name, targets, keep) ==
    [name |-> name, targets |-> targets, keep |-> keep]
UpdateOne(s) == Command("update", {s}, 0)
UpdateAll == Command("update", {}, 0)
Gc(keep) == Command("gc", {}, keep)
Verify == Command("verify", {}, 0)
Show(s) == Command("show", {s}, 0)
Commands == {UpdateOne(s) : s \in Schemas} \cup {UpdateAll, Verify}
              \cup {Gc(k) : k \in 0..2} \cup {Show(s) : s \in Schemas}

Idle == [pc |-> "idle", command |-> Verify, schemas |-> NoEntries,
         todo |-> <<>>, capture |-> Absent, ok |-> TRUE]

NoLoad == [key |-> CHOOSE s \in Schemas : TRUE, pc |-> "idle", arc |-> Absent]

At(p, pc) == process[p].pc = pc
Runs(p, name) == process[p].command.name = name
Writes(c) == c.name \in {"update", "gc"}
Target(p) == Head(process[p].todo)
Goto(p, pc) == process' = [process EXCEPT ![p].pc = pc]
Ends(p, ok) == process' = [process EXCEPT ![p].pc = "end", ![p].ok = ok]
\* On to the next of the command's pairs, with `schemas` for its manifest.
NextTarget(p, schemas, ok) ==
    process' = [process EXCEPT ![p].todo = Tail(@), ![p].schemas = schemas,
                               ![p].ok = @ /\ ok, ![p].capture = Absent,
                               ![p].pc = "each"]

DiskUnchanged == UNCHANGED <<manifest, tmp, files, audited>>
HistoryUnchanged == UNCHANGED <<captures, commands, overlapped, faulted>>
Fault == /\ faulted' = TRUE
         /\ UNCHANGED <<captures, commands, overlapped>>

Init ==
    /\ manifest = NoFile /\ tmp = NoFile
    /\ files = [s \in Schemas |-> Absent]
    /\ audited = {}
    /\ process = [p \in Processes |-> Idle]
    /\ captures = 0 /\ commands = 0
    /\ parsed = [s \in Schemas |-> Absent]
    /\ reader = [r \in Readers |-> NoLoad]
    /\ loads = 0
    /\ overlapped = FALSE /\ faulted = FALSE
    /\ dropped = {}

Start(p) ==
    /\ At(p, "idle") /\ commands < MaxCommands
    /\ \E c \in Commands :
        /\ process' = [process EXCEPT ![p] = [Idle EXCEPT !.pc = "load", !.command = c]]
        /\ overlapped' = (overlapped \/ \E q \in Processes \ {p} :
               /\ ~At(q, "idle")
               /\ Writes(c) \/ Writes(process[q].command))
    /\ commands' = commands + 1
    /\ DiskUnchanged /\ UNCHANGED <<captures, faulted>>

\* RuntimeManifest::load and what each command makes of it. The update also
\* looks for terraform and opens the audit store; both may fail.
Load(p) ==
    LET c == process[p].command
        schemas == manifest.schemas
        begin(todo) ==
            process' = [process EXCEPT ![p].schemas = schemas, ![p].todo = todo,
                                       ![p].pc = "each"]
    IN  /\ At(p, "load") /\ c.name # "show"
        /\ \/ /\ manifest.state = "torn" /\ Ends(p, FALSE)
           \/ /\ manifest.state # "torn" /\ c.name = "verify"
              /\ begin(sorted(DOMAIN schemas))
           \/ /\ manifest.state # "torn" /\ c.name = "gc"
              /\ IF beyond(schemas, c.keep) = {}
                 THEN Ends(p, TRUE) ELSE begin(sorted(beyond(schemas, c.keep)))
           \/ /\ manifest.state # "torn" /\ c.name = "update"
              /\ \/ Ends(p, FALSE)
                 \/ LET pairs == IF c = UpdateAll THEN DOMAIN schemas ELSE c.targets
                    IN  IF pairs = {} THEN Ends(p, TRUE) ELSE begin(sorted(pairs))
        /\ DiskUnchanged /\ HistoryUnchanged

\* update: fetcher.fetch() of the next pair fails and is counted, ...
FetchFails(p) ==
    /\ At(p, "each") /\ Runs(p, "update") /\ process[p].todo # <<>>
    /\ NextTarget(p, process[p].schemas, FALSE)
    /\ DiskUnchanged /\ HistoryUnchanged

\* ... or gives a schema, and the write of its file begins, ...
Fetch(p) ==
    /\ At(p, "each") /\ Runs(p, "update") /\ process[p].todo # <<>>
    /\ captures < MaxCaptures
    /\ captures' = captures + 1
    /\ files' = [files EXCEPT ![Target(p)] = Torn]
    /\ process' = [process EXCEPT ![p].pc = "write", ![p].capture = captures + 1]
    /\ UNCHANGED <<manifest, tmp, audited, commands, overlapped, faulted>>

\* ... and comes to its end, behind which the pair is in the command's copy
\* of the manifest, ...
WriteSchema(p) ==
    /\ At(p, "write")
    /\ files' = [files EXCEPT ![Target(p)] = process[p].capture]
    /\ process' = [process EXCEPT ![p].pc = "audit",
                       ![p].schemas = upsert(@, Target(p), process[p].capture)]
    /\ dropped' = dropped \ {Target(p)}
    /\ UNCHANGED <<manifest, tmp, audited>> /\ HistoryUnchanged

\* ... and in the audit log.
AppendAudit(p) ==
    /\ At(p, "audit")
    /\ audited' = audited \cup {<<Target(p), process[p].capture>>}
    /\ NextTarget(p, process[p].schemas, TRUE)
    /\ UNCHANGED <<manifest, tmp, files>> /\ HistoryUnchanged

\* A variant with a bug: a failed write or append is counted as a failed fetch.
CaptureFailsAndGoesOn(p) ==
    /\ At(p, "write") \/ At(p, "audit")
    /\ NextTarget(p, process[p].schemas, FALSE) /\ DiskUnchanged /\ Fault

\* A failed write or append ends the update there and then: what it captured
\* so far is not in the manifest.
CaptureFails(p) ==
    /\ At(p, "write") \/ At(p, "audit")
    /\ Ends(p, FALSE) /\ DiskUnchanged /\ Fault

\* gc: remove_dir_all() of the next pair's directory. One that is not there
\* counts as removed.
RemoveDir(p) ==
    /\ At(p, "each") /\ Runs(p, "gc") /\ process[p].todo # <<>>
    /\ files' = [files EXCEPT ![Target(p)] = Absent]
    /\ NextTarget(p, remove(process[p].schemas, Target(p)), TRUE)
    /\ UNCHANGED <<manifest, tmp, audited>> /\ HistoryUnchanged

\* A removal that fails keeps the entry, and may have removed the file.
RemoveDirFails(p) ==
    /\ At(p, "each") /\ Runs(p, "gc") /\ process[p].todo # <<>>
    /\ files[Target(p)] # Absent
    /\ \E left \in {files[Target(p)], Absent} :
          files' = [files EXCEPT ![Target(p)] = left]
    /\ NextTarget(p, process[p].schemas, FALSE)
    /\ UNCHANGED <<manifest, tmp, audited>> /\ Fault

\* verify: the next pair's file is read and hashed.
Check(p) ==
    /\ At(p, "each") /\ Runs(p, "verify") /\ process[p].todo # <<>>
    /\ NextTarget(p, process[p].schemas, matches(process[p].schemas, Target(p)))
    /\ DiskUnchanged /\ HistoryUnchanged

Verdict(p) ==
    /\ At(p, "each") /\ Runs(p, "verify") /\ process[p].todo = <<>>
    /\ Ends(p, process[p].ok)
    /\ DiskUnchanged /\ HistoryUnchanged

\* show: load() of a RuntimeSchemaCache of its own, which reads the file.
ShowSchema(p) ==
    /\ At(p, "load") /\ Runs(p, "show")
    /\ \E s \in process[p].command.targets : Ends(p, files[s] \in Captures)
    /\ DiskUnchanged /\ HistoryUnchanged

\* A variant with a bug: the manifest is written in place.
SaveInPlaceBegins(p) ==
    /\ At(p, "each") /\ Writes(process[p].command) /\ process[p].todo = <<>>
    /\ manifest' = TornFile
    /\ Goto(p, "save")
    /\ UNCHANGED <<tmp, files, audited>> /\ HistoryUnchanged

\* RuntimeManifest::save: the write of manifest.tmp begins, ends, and the
\* file is renamed.
SaveBegins(p) ==
    /\ At(p, "each") /\ Writes(process[p].command) /\ process[p].todo = <<>>
    /\ tmp' = TornFile
    /\ Goto(p, "save")
    /\ UNCHANGED <<manifest, files, audited>> /\ HistoryUnchanged

SaveWritten(p) ==
    /\ At(p, "save")
    /\ tmp' = Whole(process[p].schemas)
    /\ Goto(p, "rename")
    /\ UNCHANGED <<manifest, files, audited>> /\ HistoryUnchanged

Rename(p) ==
    /\ At(p, "rename") /\ tmp.state # "absent"
    /\ manifest' = tmp /\ tmp' = NoFile
    /\ Ends(p, process[p].ok)
    /\ UNCHANGED <<files, audited>> /\ HistoryUnchanged

SaveFails(p) ==
    /\ At(p, "save") \/ At(p, "rename")
    /\ Ends(p, FALSE) /\ DiskUnchanged /\ Fault

Exit(p) ==
    /\ At(p, "end")
    /\ process' = [process EXCEPT ![p] = Idle]
    /\ DiskUnchanged /\ HistoryUnchanged

\* The process is killed.
Crash(p) ==
    /\ ~At(p, "idle") /\ ~At(p, "end")
    /\ process' = [process EXCEPT ![p] = Idle]
    /\ DiskUnchanged /\ Fault

CommandStep(p) ==
    \/ Start(p) \/ Load(p) \/ FetchFails(p) \/ Fetch(p)
    \/ AppendAudit(p) \/ CaptureFails(p) \/ RemoveDir(p) \/ RemoveDirFails(p)
    \/ Check(p) \/ Verdict(p) \/ ShowSchema(p)
    \/ SaveBegins(p) \/ SaveWritten(p) \/ Rename(p) \/ SaveFails(p)
    \/ Exit(p) \/ Crash(p)

----------------------------------------------------------------------------
(* The cache of parsed schemas that the tasks of a process share *)

\* RuntimeSchemaCache::load: a parsed schema is handed out, ...
LoadHit(r, s) ==
    /\ reader[r].pc = "idle" /\ loads < MaxLoads /\ parsed[s] # Absent
    /\ loads' = loads + 1
    /\ UNCHANGED <<parsed, reader>>

\* ... or there is none, and the file is read, ...
LoadMiss(r, s) ==
    /\ reader[r].pc = "idle" /\ loads < MaxLoads /\ parsed[s] = Absent
    /\ loads' = loads + 1
    /\ reader' = [reader EXCEPT ![r] = [NoLoad EXCEPT !.key = s, !.pc = "read"]]
    /\ UNCHANGED parsed

\* ... which fails if it is not there or does not parse, ...
ReadFile(r) ==
    /\ reader[r].pc = "read"
    /\ \/ /\ files[reader[r].key] \in Captures
          /\ reader' = [reader EXCEPT ![r].pc = "insert", ![r].arc = files[reader[r].key]]
       \/ /\ files[reader[r].key] \notin Captures
          /\ reader' = [reader EXCEPT ![r] = NoLoad]
    /\ UNCHANGED <<parsed, loads>>

\* ... and what was parsed replaces what another task put there meanwhile.
InsertParsed(r) ==
    /\ reader[r].pc = "insert"
    /\ parsed' = [parsed EXCEPT ![reader[r].key] = reader[r].arc]
    /\ reader' = [reader EXCEPT ![r] = NoLoad]
    /\ UNCHANGED loads

ReaderStep(r) ==
    \/ \E s \in Wanted : LoadHit(r, s) \/ LoadMiss(r, s)
    \/ ReadFile(r) \/ InsertParsed(r)

loading(s) == \E r \in Readers : reader[r].pc # "idle" /\ reader[r].key = s

\* A variant with a bug: the key is built the other way round, and matches nothing.
InvalidateOtherKey(s) ==
    /\ parsed[s] # Absent /\ files[s] = Absent
    /\ dropped' = IF loading(s) THEN dropped ELSE dropped \cup {s}
    /\ UNCHANGED <<parsed, reader, loads>>

\* RuntimeSchemaCache::invalidate, which gc's documentation has called behind
\* the removal of the files.
Invalidate(s) ==
    /\ parsed[s] # Absent /\ files[s] = Absent
    /\ parsed' = [parsed EXCEPT ![s] = Absent]
    /\ dropped' = IF loading(s) THEN dropped ELSE dropped \cup {s}
    /\ UNCHANGED <<reader, loads>>

Next ==
    \/ \E p \in Processes : CommandStep(p) /\ UNCHANGED <<readerVars, dropped>>
    \/ \E p \in Processes : WriteSchema(p) /\ UNCHANGED readerVars
    \/ \E r \in Readers : ReaderStep(r) /\ UNCHANGED <<commandVars, dropped>>
    \/ \E s \in Schemas : Invalidate(s) /\ UNCHANGED commandVars

Spec == Init /\ [][Next]_vars

----------------------------------------------------------------------------
(* Properties *)

ManifestMaps == UNION {[D -> Captures] : D \in SUBSET Schemas}
ManifestFiles == [state : {"absent", "torn", "whole"}, schemas : ManifestMaps]

\* Each variable has the shape the code gives it, and the bounds hold.
TypeOK ==
    /\ manifest \in ManifestFiles /\ tmp \in ManifestFiles
    /\ files \in [Schemas -> Captures \cup {Absent, Torn}]
    /\ audited \subseteq Schemas \X Captures
    /\ \A p \in Processes : process[p].schemas \in ManifestMaps
    /\ captures \in 0..MaxCaptures
    /\ parsed \in [Schemas -> Captures \cup {Absent}]
    /\ reader \in [Readers -> [key : Schemas, pc : {"idle", "read", "insert"},
                               arc : Captures \cup {Absent}]]

\* RFC 4.7 of update.rs:9: what the manifest has an entry for was captured
\* and is in the audit log with the same hash, whichever commands run beside
\* each other, fail, or are killed.
ManifestIsAudited ==
    \A s \in DOMAIN manifest.schemas : <<s, manifest.schemas[s]>> \in audited

\* The index is exact: an entry for each file, with its hash, and a file for
\* each entry. Verify is then clean.
IndexIsExact ==
    /\ DOMAIN manifest.schemas = {s \in Schemas : files[s] # Absent}
    /\ \A s \in DOMAIN manifest.schemas : matches(manifest.schemas, s)

\* Commands that ran one after the other, and met no failure but failed
\* fetches, leave such an index. Side by side they need not (IndexOutlivesOverlap).
UndisturbedIndexIsExact ==
    (~overlapped /\ ~faulted /\ \A p \in Processes : At(p, "idle")) => IndexIsExact

\* As long as one command runs at a time, the manifest is always whole,
\* wherever one is killed (manifest.rs:79, the rename is atomic).
KillLeavesManifestWhole == ~overlapped => manifest.state # "torn"

\* gc finishes what an earlier one that was killed left behind: behind a gc
\* that ran alone and removed what it meant to, no provider has more entries
\* than it keeps, whatever is missing or torn on disk, and whatever is pinned
\* (PinnedStay).
GcKeepsItsCount ==
    \A p \in Processes :
        (At(p, "end") /\ Runs(p, "gc") /\ process[p].ok /\ ~overlapped)
            => beyond(manifest.schemas, process[p].command.keep) = {}

\* A pair that was invalidated with its file gone and no load of it under way
\* is not served from memory again until it is captured anew (cache.rs:96).
InvalidatedStaysGone == \A s \in dropped : parsed[s] = Absent

\* What commands one after the other leave behind is an index of the files that are
\* there, and of no more of them than gc counted as to be kept.
IndexIsKept == UndisturbedIndexIsExact /\ GcKeepsItsCount

----------------------------------------------------------------------------
(* As the documentation has it *)

\* gc deletes schemas "not referenced by any profile pin" (gc.rs:5): none of those it
\* is about to remove is pinned, unless it was told to keep no version at all.
PinnedStay ==
    \A p \in Processes :
        At(p, "each") /\ Runs(p, "gc") /\ process[p].command.keep > 0
            => \A k \in DOMAIN process[p].todo : process[p].todo[k] \notin Pinned

\* "No concurrent-modifier hazards on the manifest file" (cache.rs:30): commands
\* side by side that met no failure leave an exact index too.
IndexOutlivesOverlap ==
    (~faulted /\ \A p \in Processes : At(p, "idle")) => IndexIsExact

\* "Partial writes are never visible to a concurrent reader" (manifest.rs:77).
PartialWritesUnseen == manifest.state # "torn"

=============================================================================

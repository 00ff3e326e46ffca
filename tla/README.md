# A TLA+ development of Terrashift

Terrashift reads a Terraform tree of one cloud provider, lets a language model
propose the resources of another, checks the proposal against that provider's
schema, lets an agent repair what fails, and writes the result as `.tf` files.
These modules model the parts of it in which the order of events matters: who
decides, who edits, what is written where, and what is left when something
fails, and the algorithms a migration rests on. TLC checks them on small
instances; TLAPS proves the most important properties for every value of the
constants. All source paths below are relative to `src/`.

## 1. The system

### Parts, their state and their operations

| Part | State | Operations |
|---|---|---|
| Approval machine (`libs/agent-core/src/approval.rs`) | the turn's calls with a state each, a cursor | `new`, `resolve_tool`, `apply_command`, `next_ready`, queries |
| Agent kernel (`libs/agent-core/src/agent.rs`, `retry.rs`) | thread, turn, token sum, a fresh approval machine per turn | `run_agent`, `call_llm_with_retry`, compaction, hooks, `rebuild_thread_after_drop` |
| LLM clients (`libs/ai`) | none | a request, a reply in JSON that may not be one |
| Recovery (`libs/engine/src/recovery`) and Cost Optimizer (`.../cost_optimizer`) | a plan behind a mutex, a count of fixes | the loop; the editing tools |
| Validator (`libs/engine/src/validator`) | none | `validate` |
| Scanner (`libs/engine/src/scanner`) | none | `scan`: the walk, the blocks of each file |
| Mapper (`libs/engine/src/mapper`) | a plan cache | `map`, `validate_plan` |
| Generator (`libs/engine/src/generator`) | the output directory, the backup tree | `generate`, `rollback`, the templates |
| `migrate` (`cli/src/commands/migrate.rs`) | the plan, the gaps by address, the output | one run, stage by stage |
| Audit log (`libs/audit`) | a SQLite table, chain heads in memory | `register_run`, `append`, `export`, `verify_chain` |
| Schema store (`libs/knowledge/src/knowledge_service.rs`) | a SQLite table of schemas, vectors in memory | `sync_provider`, `seed_from_bundle`, `first_launch_sync`, `find_similar_resources` |
| Runtime schema cache (`libs/knowledge/src/{cache,manifest}.rs`), `schema` commands (`cli/src/commands/schema`) | files, a manifest, a map of parsed schemas | `update`, `gc`, `verify`, `show`; `load`, `invalidate` |
| Executor and shell approvals (`libs/engine/src/executor`, `libs/shell-tool-approvals`) | none | a verdict on scripts; `apply` |
| Credentials (`libs/creds`) | what a broker knows | `substitute`, `rebuild` |
| Notifications (`libs/notify`), eval harness (`libs/eval`) | none; a baseline file | `notify`; `run_suite`, the comparison of costs |
| Terminal UI (`tui`) | the line, the messages, the terminal's modes | a key |
| Tool registry, planner, verifier, MCP, xtask | filled once, or nothing | see `PROJECT.json` |

### How they interact

`migrate` calls the Scanner, the Mapper, the Validator, Recovery, the Validator
again and the Generator, one after the other, in one task. The Mapper searches a
KnowledgeService that other tasks fill meanwhile. Recovery calls `run_agent`,
and `run_agent` calls back: hooks, the model, and, through the `ToolExecutor`,
Recovery's own tools, which edit the plan Recovery is holding for the Validator.
The audit log is shared by reference: the audit hook, the credential broker and
the schema commands append to one store from tasks of their own, and each append
is a sequence of awaits. The schema commands are processes of their own, which
share a directory and no lock. Cancellation is a token that another task may set
at any moment and that the kernel polls.

### What is hard

* decisions that arrive in any order, twice, or for the wrong call, between
  calls of `next_ready()`;
* a failure of the model, a hook, a tool or the compaction engine anywhere in a
  turn, and a cancellation at any moment of it;
* appends whose awaits interleave, queries that fail half way, restarts that
  lose what was in memory only;
* two stores filled one after the other by tasks that overlap and may stop
  between them;
* commands without a lock over one directory, killed between any two writes;
* every file operation failing before, in the middle or after, and the process
  ending between any two;
* an agent that makes any edit it has a tool for, on a plan whose addresses
  nobody made unique;
* the edges of small algorithms: a verdict over scripts in scripts, a delay that
  shrinks, a secret that begins as another does, a cursor counted in bytes.

### What makes each part correct

* Approval machine: what comes out is what was proposed, in order, once each,
  each with the one decision it got; None means the end or a pending head.
* Kernel: the thread stays one a provider accepts and tells the truth about the
  tools; nothing runs without approval; a cancelled run stops; each run ends.
* Recovery and Cost Optimizer: the outcome says what became of the plan.
* Generator: nothing of the user's is lost; a rollback tells the truth; the
  files are a function of the plan.
* Pipeline: no resource known to have a gap is emitted; each one is accounted
  for; what was in the output stays in it.
* Audit log: an undisturbed chain verifies; tampering, and the race, do not.
* Schema store: what is stored is found, what is found has a schema, what the
  Mapper answers was validated, from its cache as well.
* Schema commands: the index is exact behind commands that ran one by one; what
  it holds is audited, whatever ran.
* Shell gate, secrets, evals, notifications, Scanner, terminal: an authorization
  covers all that runs; a record holds no value; a passed gate rests on every
  fixture; an event is lost only everywhere; an inventory is all or nothing; the
  terminal is given back.

The hazards of `PROJECT.json` list these at the lines where they bite.

## 2. The modules

`OrderedDispatch` and `LineEditor` are abstract. The others are read with the
code beside them; `PROJECT.json` maps each definition to its lines.

| Module | Models | Uses |
|---|---|---|
| `OrderedDispatch` | what an approval machine promises, without its representation | |
| `Approval` | the machine as operators on a record of entries and cursor; policies | |
| `ApprovalStateMachine` | the machine under any interleaving of its methods | `Approval`, `OrderedDispatch` |
| `AgentLoop` | `run_agent`, one step per await, hook by hook, call by call | `Approval` |
| `Inference` | one call of the model: attempts, delays, the JSON reply; rebuilding a thread | |
| `AuditLog` | the store with several writers, each append in four steps; verification | |
| `Arrange` | what retain, filter, sort_by and extend of the standard library make of a sequence | |
| `PlanEdits` | the plan, the Validator's findings, the tools of Recovery | `Arrange` |
| `FixAgent` | the loop of Recovery | `PlanEdits` |
| `CostOptimizer` | the same loop with prices and two other tools | `FixAgent` |
| `Scanner` | the walk over a tree and the blocks of its files | `Arrange` |
| `Templates` | what the 21 templates make of a plan, file by file | `Arrange` |
| `Generator` | emit, backup, rollback over a file system that may fail | |
| `Migrate` | the pipeline, with `FixAgent` as the stage that recovers | `PlanEdits`, `FixAgent` |
| `Knowledge` | the KnowledgeService, several tasks on two stores | |
| `Mapper` | `map` and its cache, on that service while others fill it | `Knowledge` |
| `SchemaCatalog` | the schema commands as processes, and a process that reads | |
| `ShellGate` | scripts, rules, verdicts, `Executor::apply` | |
| `Secrets` | references, values, what is recorded | |
| `EvalSuite` | a run of the golden migrations, and the gate on their costs | `Arrange` |
| `Notify` | one event to several notifiers | |
| `Terminal` | the terminal's modes, keys, the line as bytes, scrolling | `LineEditor` |
| `LineEditor` | what an editor of one line promises | |
| `MC*` | values for the constants | `MCServices` puts nine modules into one run |
| `*_proofs` | theorems | the module of that name; `Services_proofs` the nine services and `FixAgent`, `Mapper_proofs` also `Knowledge` |

How state and actions correspond to the code:

* **Approval, ApprovalStateMachine.** `machine` is the struct: `entries` the
  vector, `next_index` the cursor (from 1). `ResolveTool` is `resolve_tool`,
  `ResolveTools` a bulk `apply_command`, `NextReady` is `next_ready`. History
  variables keep what was handed out and what a command accepted.
* **AgentLoop, Inference.** `pc` is the place in `run_agent` between two awaits.
  A hook, a tool and an inference are each one step with each of their results;
  `Cancel` may come between any two. `Inference` is what that one step hides: an
  attempt, the error, the delay a header or the backoff gives, with the casts of
  `retry.rs`. A saturating token sum is capped at `MaxTokens`.
* **AuditLog.** `rows` is the table, `chain_heads` the map in memory. An append
  is `Link` (read the head, hash, sign), `ReadSeq`, `Insert`, `AdvanceHead`, the
  places where the code awaits; `scrub_or_panic` ends the task ahead of it. A
  hash is the record of what is hashed and a signature the pair of key and hash,
  so equal hashes mean equal contents.
* **PlanEdits, FixAgent, CostOptimizer.** An attribute's value is opaque, a plan
  is the vector of resources. A cycle of `run_agent` is any sequence of tool
  calls followed by any result `AgentLoop` has, which is what its caller sees.
* **Scanner.** A block is a name with a kind, labels and what is in it; a file
  may be unreadable or fail to parse. The first that does ends the scan. The text
  of a file is given as the places a search for a kind can meet, `kind "` and
  `kind {`: of headers that are written so, and of comments, strings and longer
  words. A header that is written otherwise is not among them.
* **EvalSuite.** A directory of outputs is a function from the paths of all its
  files, of which a comparison sees the `.tf` files of the top level, less those
  whose entry could not be read.
* **Generator, Templates.** Of a file it matters to `Generator` whose content it
  has: the user's, a rendered plan's, or part of one; `move` is the set of
  everything a rename, or a copy and a removal, may leave behind. `Templates` has
  the other half, the attributes each template writes, and in which order.
* **Migrate.** `stage` is the place in `run`; FixAgent's variables are those of
  the Recovery agent, whose working plan (`plan`) is a copy of the pipeline's
  (`mapped`). A file of the output is the sequence of the blocks it holds.
* **Knowledge, Mapper.** `rows` is the table, `vectors` the store in memory;
  `task` what each task is at between two awaits. `CacheSchema` and `Embed` are
  the two writes of a sync, and nothing joins them. A search gives any vectors,
  as many as were asked for. The Mapper is one more task with its cache.
* **SchemaCatalog.** `process` holds a command's own copy of the manifest
  between its load and its save; `files`, `tmp` and `manifest` are on disk, and a
  write of each has a state in which it is torn. A capture stands for bytes no
  two of which are equal. `reader` and `parsed` are the tasks and the map of a
  process that loads schemas meanwhile.
* **ShellGate, Secrets.** A script is a name whose commands the grammar found.
  `WalkScript` takes a script off the stack of `parse()` and `FindCommand` visits
  one command of it, whose own script, if it is a shell with `-c`, goes on the
  stack. A text, in `Secrets`, is a sequence in which only the values of secrets
  are spelt out; `replace` reads it from the left, as `str::replace` does.
* **Arrange.** The order of a sort, and what a filter lets through, are given as
  sets, so that the provers can be told of them: `Filtered(s, S)`,
  `Arranged(s, I, Before)` with the pairs of indices of which the first comes
  before. A stable sort adds the order of the indices for elements that are equal.
* **Terminal.** The buffer is the bytes of the String, the cursor an offset into
  it; that `LineEditor` is implemented says no key parts a character. `decoded`
  reads bytes from the left, each of which begins a character or goes on with one.
  A message is a sequence of lines, each told by the rows it takes when wrapped;
  `visible` is the lines the code takes for a frame, before it wraps them.

Definitions named "a variant with a bug" are not part of the model: each stands
in front of the definition it varies, and shows that a property would notice.

## 3. The runs

Passing:

| Run | Distinct states | Question |
|---|---|---|
| `approvals` | 58,598 | Does every interleaving keep proposal order and approvals, are the decided calls in front of a pending one always drained, and is `OrderedDispatch` implemented? |
| `agent_loop` | 45,176 | Does a run keep a well-formed and truthful thread, run nothing unapproved, stop when cancelled, and end? |
| `audit_log` | 175,804 | Which runs verify, when three tasks append, queries fail, the scrubber panics and the process restarts, and what does verification detect? |
| `recovery` | 13,201 | Do the outcomes of the loop say what became of the plan, whatever the model calls? |
| `generator` | 91,795 | Is anything of the user's lost, and is a rollback's answer true, whatever fails? |
| `migrate` | 1,247,712 | What is emitted, merged and reported, and is what Recovery calls repaired without a finding, when each stage may fail and the agent edits as it likes? |
| `schema_commands` | 2,136,030 | What do the manifest, the files and the parsed cache promise when commands overlap, fail and are killed? |
| `knowledge` | 2,108,954 | Is what tasks stored found as far as the table has it, has what is found a schema, and was what the Mapper answers validated? |
| `services` | 2,008,667 | The properties of nine services, below. |

The services share no state with each other, so one run has a behaviour for each
of them (`part` says whose), with the inputs that set its cases apart:

| Property | Says |
|---|---|
| `SavingsWereEarned` | a saving the Cost Optimizer reports is of the plan it returns; when it gives up, that plan is the one it was given |
| `AuthorizedRunsOnlyAllowed` | in an authorized script every command at every depth is allowed by its own rule |
| `RecordsHoldReferencesOnly` | the recorded text has no character of a value that the payload had not, also where one value begins as another; each value was audited first |
| `MergeGatesAreSound` | every fixture found of a passed suite was loaded, had its schemas and generated the `.tf` files expected of it, but for entries a listing left out; the cost gate tells of every fixture, the worst change first, fails on a rise of the total beyond its threshold and passes equal costs |
| `LostOnlyEverywhere` | an event is reported lost only if no notifier confirmed it, and logs are written in any case |
| `TerminalIsRestored`, `EditorIsALine` | every way out gives the terminal back, and a frame is made of as many lines as it has rows, the last ones unless scrolled up; keys act on whole characters |
| `RetriesKeepTheirBounds` | attempts; errors that are retried; a delay is what a server asks for, in any of the three forms of a header and however long, or else within the maximum, growing for multipliers from one |
| `RebuiltThreadIsTheReduced` | a rebuilt thread has messages of its own, in order, and those the reducer left |
| `InventoryIsComplete` | a scan has each file and block of the tree or fails; no dynamic block passes at any depth; the place of a block with a usual header reads like one of its kind and is not behind it |
| `FilesAreThePlan` | the files do not depend on the order of the plan, have each resource once, and are refused when `render_many` refuses |

Runs that find a disagreement between the code and what its documents or comments
say; each is a finding of `PROJECT.json`, with the line quoted:

| Run | What TLC finds |
|---|---|
| `audit_continued` | a run continued after a restart breaks its own chain: heads are in memory only |
| `migrate_gate` | when the last validation cannot be made, resources with known gaps are emitted |
| `migrate_output` | an existing output file that cannot be read as text is overwritten, and the run succeeds |

Two findings more rest on passing runs, whose properties say what the code does
where its comments say otherwise: `agent_loop` (`HooksInCanonicalOrder` gives
`on_error`, which is said to be fired, no place) and `schema_commands`
(`IndexIsKept`, whose count `gc` keeps whatever a profile pins).

### Bounds, and why they are enough

* `approvals`: three calls. The cursor can be before, at and behind a pending
  call with decided ones on both sides; four policies give every mix of initial
  states. Calls may share a tool, ids may not (`run_agent` refuses that turn).
* `agent_loop`: two turns, two attempts, two hooks, two ids. Two turns are
  needed for anything said about the thread behind an answer, two hooks for a
  failure between them, two attempts for a retry. Configurations with no turn
  and no attempt are in. `MaxTokens = 3` lets the sum saturate.
* `audit_log`: two writers on one run and one on another, three appends
  (`MaxEntries`), one restart (`MaxRestarts`). Two overlapping appends and one
  behind them is the shortest history in which a break is followed by an entry.
* `recovery`: three iterations of two calls (`MaxCalls`), one type known to the
  schema and one unknown, a good and a misspelt attribute, plans with two
  resources at one address and with an address that is not its type's.
* `generator`: two types with a template and one without, two runs (`MaxRuns`),
  any number of rollbacks. The second run is what meets the first one's files,
  and its backups the first one's.
* `migrate`: up to three resources, so that a skipped one can stand between two
  emitted to one file; two iterations of one call; a type that only the schema
  has (the agent may change a resource to it) and one only the templates have.
* `schema_commands`: two processes, three commands (`MaxCommands`), two captures
  (`MaxCaptures`), two loads of one schema (`MaxLoads`): an update that overlaps
  a gc or an update with a third command behind them, and a load that overlaps
  an invalidation with one behind it. Two versions of one provider and one of
  another let `gc` keep none, one or both; the older one is pinned (`Pinned`, which
  no command reads).
* `knowledge`: two tasks, two operations that write (`MaxOperations`), searches
  without bound, two calls of the Mapper (`MaxCalls`), one restart
  (`MaxRestarts`) with the table kept. Two overlapping syncs of a pair whose
  registry gives it differently are what sets the two stores apart; a third
  writer would only repeat one of them.
* `services`: scripts to one depth more than a walk of two goes; lists of two
  scripts, two fixtures, with files that are compared and some that are not, three
  notifiers, three files, whose text has usual headers, one without quotes, a
  comment and a longer word; up to three secrets of
  which one begins as another; characters of one and two bytes in a line of five
  bytes, seven messages of one line or two in four rows, a line taking up to three; backoffs that grow, shrink and are
  negative, of none, one and four attempts, and each form of a header, with garbage,
  a date that is past and one to come, with 16-bit integers for the casts
  (`MaxU64`); threads of four messages with repetitions; every template with all
  its attributes, and mixed plans of up to three resources, with references two
  levels deep in lists and maps (`MaxValueDepth`).

`CHECK_DEADLOCK FALSE` stands in the configurations of programs that end: a run
of the kernel, of the agent, of the pipeline, of a service, and the stores at
their bounds.

### Fairness

`WF(NextReady)` for the approval machine: its caller is the `while let` of
`run_agent`. The user who decides is not assumed to. `WF(Step)` for the kernel
and `WF(Next)` for the agent loop: one task that runs on, and each await comes
back, with an answer or an error. Cancelling is not assumed to happen. The
other modules have safety properties only, and no fairness.

## 4. The theorems

Each is proved from the assumptions on the constants alone (the named ASSUMEs of
the modules, which TLC evaluates in the runs). A module of proofs goes with each
module below; the services, which share no state, share one.

* **`ApprovalStateMachine_proofs`.** `IInv` is TypeOK and InOrderDispatch. The
  second alone is not inductive: that the cursor stands right behind what is
  Dispatched is what shows that `next_ready`'s skipping over dispatched entries
  never skips anything else (`NextLiveIsCursor`). From it follow `TypeCorrect`
  and `DispatchInOrder`. `AcceptedOnlyWithApproval` adds that every entry ready
  with Accept is approved by the policy or was accepted by a command.
  `RefinesOrderedDispatch` shows, action by action, that a step is one of
  `OrderedDispatch` or a stutter, under the mapping that takes a dispatched
  entry's decision from what was handed out. The runs list the refinement
  and not `InOrderDispatch`, which says the same of the calls and adds the cursor.
* **`AgentLoop_proofs`.** `CancellationBoundsWork`: the invariant counts, place
  by place, what may have started since the token was set, so that the poll
  ahead of a turn and the poll ahead of a tool each cut the rest off.
  `EventsInOrder`, of the four events around inferences and tools, and of `on_error`
  that it comes never: between two rounds of telling all hooks heard the same event
  last (`HeardInv`), and a turn that has calls and waits for nobody has one to
  hand out (`NewMachineIsReady`), so no turn begins right behind an inference.
  `TypeCorrect` needs to know where the machine stands (`MachineInv`): what it
  still holds are the calls of this turn that have no result.
  `ThreadIsWellFormed`: while a turn is under way its answer, and no other, lacks
  results, and has those of a prefix of its calls (`ThreadInv`).
  `ThreadTellsWhatRan` maps each execution to the message with its result, which
  stays where it is while the thread grows. `OnlyApprovedRuns`: the turn of an
  execution is the count of answers up to the one that holds its call
  (`ExecInv`), and a turn in which any call asks ends before one is run.
* **`AuditLog_proofs`.** `ChainInv` says how entries hang together whoever
  interleaves: each row is hashed as it stands and has an id of its own, an entry
  under way is nobody else's, and a link leads to a lower number
  (`LinksAscend`), since the number of a row is read behind the head it is linked
  to. `TamperingIsEvident` follows from it and from the hash being injective;
  `RaceIsNoticed` too: of two rows with one number one is exported behind the
  other, which has no lower number and so is not what the first is linked to
  (`SharedSeqBreaks`); and of two rows linked to one only one can be exported right
  behind it, ids being unique (`SharedLinkBreaks`).
  `UndisturbedVerifies` needs `QuietInv` besides: while appends to a run never
  overlapped, the one under way goes on from the newest row and rows are chained
  in their order (`RowsChained`, `HeadChained`), behind a failed query as well.
  What `verify_chain` does step by step, and that the export is in the order of
  the numbers, are lemmas (`VerifiedIsFaultless`, `PlaceGrows`, `Exported`).
* **`Generator_proofs`.** `TypeCorrect`; `UserFilesSurvive`, by an invariant that
  says of the artifacts a caller holds that putting a backup back, or removing a
  created file, can hit no user content that is nowhere else (`OneEntryPerPath`,
  `EntriesHarmless`, `BetweenBackupAndWrite`); `BackupsAreArchival` from both.
  `RollbackSaysWhatItDid`, with `TruthInv`: a path with no entry stands as before
  the run, an entry brings back what was there then or a backup that is used up
  and fails, and a path behind rollback's cursor is restored or named.
* **`SchemaCatalog_proofs`.** `ManifestTellsAudit`: the invariant follows every
  copy of the manifest, in a process, in the temporary file and on disk, and
  excepts the one capture that is written and not appended yet
  (`CopiesAreAudited`). `KilledAloneLeavesWhole`: while nothing overlapped, a
  command that writes is alone, and what it renames is whole (`AloneInv`).
  `DroppedStayGone`: a dropped schema has no file that parses, and no load of it
  that has read one (`DroppedInv`). `IndexStaysKept`, with `IndexInv`: the copy of
  the one process that is busy is exact but for the file it is writing, and what
  a `gc` has still to remove covers what is beyond its count (`GcCounts`), which
  rests on a lemma on the ranks of a finite set of versions.
* **`Mapper_proofs`**, first of the `KnowledgeService` alone: `TypeCorrect`,
  `SearchesResolve` and `StoredIsFound`.
  What is stored is not an invariant by itself: between the two writes of a sync
  a row has no vectors. `RowsAreCovered` adds that each type of a row is
  embedded or in the hands of a task that is about to embed it, unless a call
  was interrupted, and what was acknowledged has its vectors
  (`AcknowledgedHaveVectors`). A vector whose type the row has is found by a search
  (`VectorsAreFound`); of one whose type it lacks, which a second sync may leave,
  nothing is said. `UpsertKeepsSearchable` shows that an upsert removes only what
  it puts back, because an id names pair and type; `CachedKeepsRows` that no row
  changes, which is why hits taken before an await still resolve behind it.
  `QuietKeepsStored` sums up in one frame the steps that write to no store.
  Then with a Mapper on it. `MapperOnlyReads`: that implements the service alone,
  so what is proved of it holds here. `PromptTellsSchemas`: no row of the table
  goes away while the process lives (`RowsPersist`), so the hits a call holds over
  its awaits, and the candidates it collects from them, stay types of schemas of
  its target. `OnlyValidatedAnswers`: the cache and the answer under way were
  validated.
* **`Migrate_proofs`.** `GapsReachNoFile`: the gaps are looked up by address in the
  very plan they were found in, which is the one emitted, and a block that is
  appended has passed the gate (`GapsHeldBack`). `OutputIsMerged` and
  `SummaryTellsAll` from a second invariant, that no file holds a block of a
  resource still to come (`OutputInv`), which says of each file by itself what it
  holds unless it failed (`Merged`, `BlocksPassed`), so a failure of one file takes
  nothing away from what is said of the others. None of the three needs a type of the plan,
  which the agent may have edited in any way.
  `RecoveredPlanIsClean`: a success is of the plan as it was scored, no tool runs
  behind it, and the pipeline takes that plan over before it validates again
  (`RecoveryInv`); a score that meets the target of none is an empty set of
  findings (`MetIsClean`), for which the set must be finite. `RecoveryIsFixAgent`:
  a step of the pipeline is a step of `FixAgent` on the agent's variables, or leaves
  them, so what is proved of that loop holds in the pipeline. `PipelineIsTyped`
  needs that the tools keep a plan a plan.
* **`Services_proofs`**, part by part:
  * the loop of Recovery, `GivesUpOnUnmetPlan` and `SuccessIsEarned` for every
    score and target: a plan differs from its snapshot only if a fix was counted,
    because a tool that answers with an error has edited nothing; and the same of
    the Cost Optimizer (`SavingsAreEarned`), for every catalogue;
  * notifications, `FailuresSilenceNobody`;
  * the terminal, `TerminalIsGivenBack`: raw mode and alternate screen are on only
    while the guard is there, but for one way out, and the lines of a frame are
    counted as they are joined, unwrapped; and `LineIsEdited`, the
    refinement of `LineEditor`. Its invariant is that the cursor stands where a
    character begins or at the end (`Encoded`), and its lemmas say of `decoded`
    that it takes two such pieces apart and a character as one (`DecodedJoined`,
    `AroundCharacter`, `CharacterDecodes`);
  * the rebuilt thread, `ReducedThreadIsRebuilt`: what the search has found maps
    the reduced thread into the original one, increasing;
  * one call of the model, `RetriesAreWithinBounds`: powers of the multiplier and
    the clamp make delays that grow as long as the multiplier is at least one; that
    a header is honoured follows form by form, for integers of any width;
  * the shell gate, `AuthorizedIsAllowed`: each script at a depth the walk may
    reach has been collected, is on the stack, or is in the rest of a text on it
    (`NothingIsLost`), and a list that is allowed has no command that is not
    (`AllowedIsSafe`);
  * the golden migrations and their costs, `MergeGatesHold`: a result is true only
    of a fixture that had its schemas and generated, alone, the `.tf` files that are
    expected, but for entries left out of a listing, and there is one for each fixture behind the cursor (`SuiteInv`); of the costs, that
    the order "worst first" is one although percentages are quotients, and that a
    new fixture, which counts as unchanged, is a drift (`CostsInv`);
  * the scan, `InventoryHolds`: the files collected are those wanted that are
    neither to do nor at hand, and of the one at hand the blocks passed are
    collected (`ScanInv`); where the text has a header of a block as it is usually
    written, the first match of its kind is there or before it and reads like a
    header of that kind (`SpanIsOfKind`), and else nothing is claimed;
  * the templates, `FilesHoldThePlan`: a file is the group of its type
    (`FileIsTheGroup`), and if no two addresses are equal, an order of the same
    resources by address is the only one (`OneOrder`, `OrderDoesNotMatter`);
  * the secrets, `RecordsHoldNoSecrets`: what `substitute` has put out falls apart
    into single characters that are of no value and whole values it knows
    (`FallsApart`). While no two values overlap, an occurrence of the longest value
    begins where a piece begins and is that piece (`FoundAtPieces`), so replacing it
    leaves a text that falls apart into the values that are left
    (`ReplacedFallsApart`); when none is left, no character of a value is. Had a
    shorter one been replaced first, it would have been found inside a longer one.

tlapm cannot use a theorem that takes an operator, so induction is written out
where an algorithm needs it: `LeastOf` (a set of numbers has a least one),
`Inductive`, `PrimitiveRecursion` and `StepsExist` of `Services_proofs` stand for
it, and say of a function defined by recursion that it satisfies its equations. On
them rest the lemmas on `Arrange`: what a filter keeps and in which order, that an
order by places is an order, and that joined sequences are one.

Only model-checked: liveness (`DecidedPrefixDrains` and the two `Termination`s),
which is out of the prover's reach. Every other property a passing run lists is
stated by a theorem. `TypeOK` is proved of the approval machine, the kernel, the
Generator, the pipeline and the KnowledgeService with a Mapper; that of a module
whose type is not proved holds under the constants of its run's cfg, when it is
added to the invariants there, and no run lists it.

## 5. What the models show beside the runs

The modules also state what comments and documents claim and the code does not
do. Each of these definitions is false of the instance of its run: listed there as
the only invariant, it has the counterexample told here. What the runs check is
what holds instead.

| Claim | Where it is made | What TLC finds |
|---|---|---|
| `ErrorsAreHeard` (`agent_loop`) | `agent.rs:25`: "All 5 `AgentHook` lifecycle methods fired" | the attempts are used up, the run fails, and no hook hears `on_error` |
| `NothingUntold` (`migrate`) | `CONSTITUTION.md:29`: "No silent fallbacks, no swallowed errors." | a write is dropped (`migrate.rs:323`), or a generated file is not read back (316): the resource stands nowhere and the run succeeds |
| `OutputIsSorted` (`migrate`) | `mapper/mod.rs:317-318`: "Generator sorts by `target_addr` for byte-stable output" | the Generator is called for one resource at a time; a file has them in the order of the answer |
| `PinnedStay` (`schema_commands`) | `gc.rs:5-6`, `schema/mod.rs:14,49`: schemas "not referenced by any profile pin" are deleted | `gc` removes a pinned schema: it never looks at the profile |
| `IndexOutlivesOverlap` (`schema_commands`) | `cache.rs:29-30`: "no concurrent-modifier hazards on the manifest file" | two commands, no failure: the later save drops entries of the other |
| `PartialWritesUnseen` (`schema_commands`) | `manifest.rs:77-78`: "partial writes are never visible to a concurrent reader" | two commands write one `manifest.tmp`, and half a manifest is renamed into place |
| `AcknowledgedIsFound` (`knowledge`) | `knowledge_service.rs:97-98`: "store the JSON [...] embed each resource description"; 449: "we already stored the full ProviderSchema" | a pair is synced again, given differently, and acknowledged: the table keeps the first, and a search drops the new type |
| `LaunchCoversRequested` (`knowledge`) | `knowledge_service.rs:351-352`: "both versions surface in candidate hits" | a first launch skips a row that a failed embedding or a restart left without vectors |
| `PassedSuiteIsIdentical` (`services`) | `scorer.rs:32-35`: "compare every file", "every file is byte-identical" | files that are no `.tf` files of the top level differ, and the fixture passes |
| `LatestVisible` (`services`) | `app.rs:40-41`: "pinned to bottom (latest message visible)" | lines are counted ahead of wrapping: long ones push the latest message off the screen |
| `BackoffIsInRange` (`services`) | `retry.rs:22`: "clamped to `[initial_backoff_ms, max_backoff_ms]`" | a multiplier below one leads below the initial backoff |
| `PlacesAreOwn` (`services`) | `parser.rs:291-294`: "usually correct for non-pathological inputs" | the second of two blocks of one kind is given the place of the first |
| `ReportedLossIsLoss` (`services`) | `multi.rs:54-55`: "the event was actually lost" | an endpoint took the event and answered too late |

Other places in which the code differs from what is said of it, or in which what it
does may surprise:

* Ids of tool calls are unique within a turn and not within a run, though
  `libs/agent-core/src/tools.rs:34` says so: two turns may hand an executor one
  id (`agent.rs:288` builds its set anew each turn).
* A plan that the last iteration of Recovery repaired is reported as
  `MaxIterationsReached`: the loop scores before a cycle and not behind it.
* `set_attribute` can add and change an attribute and never removes one, so the
  agent cannot repair an attribute the schema does not know.
* `KillLeavesManifestWhole` and the first half of `IndexIsKept` speak of commands
  that did not overlap, and `PartialWritesUnseen` and `IndexOutlivesOverlap` show
  why: commands share one `manifest.tmp` and save copies of what they loaded.
* A write or an append of an `update` that fails ends it at once, and the
  captures made so far are on disk and in the audit log and not in the manifest.
* `schema list` and `gc` sort versions as text: of 5.9 and 5.10, the former is
  kept. `gc`'s documentation has `invalidate` called; nobody calls it.
* A load under way while a schema is invalidated puts it back:
  `InvalidatedStaysGone` speaks of loads that begin behind the removal.
* A row without vectors is not found until somebody syncs the pair; a type the
  kept row lacks not even then.
* A cycle of the Cost Optimizer that fails gives no plan back, so its edits are
  lost with it; `SavingsWereEarned` speaks of outcomes.
* The Mapper's cache is keyed by the estate; neither the target nor the version
  of the prompt is in the key, so Mappers of two targets that shared one would be
  given each other's plans. `migrate` makes one per run, and
  `AnswersWereValidated` says of a cached plan that it passed the validation of
  the Mapper that put it there.
* A delay from a header is not clamped at all, also where it is longer than
  `max_backoff_ms`.
* A block's place is found by searching the text: a comment, a string or a longer
  word (`metadata "`) may be taken for it, and a header with a name without quotes,
  or two blanks, has line 0. Files come in the order of the directory.
* `google_compute_instance` lists `tags` among its attributes, and a map of tags
  is emitted once more behind them. Keys of tags that differ in characters no
  identifier may have are one key.
* A second `migrate` over the same output appends every block again.
* When the terminal cannot enter its alternate screen the raw mode stays on: the
  guard that undoes it comes later. A fixture without `manifest.toml` is not part
  of a suite, and the suite does not say so.
* A terraform child that takes too long is left running
  (`schema_fetcher_cli.rs:164`).

## 6. What is not modelled, and why

* Text: prompts, HCL and JSON as characters, messages to the user, the regular
  expressions of the scrubber, the layout of the terminal, the answers of the
  slash commands. No property here is about their wording.
* What other programs do: terraform, SQLite, model providers, Slack, tree-sitter.
  Each is an answer or an error of the step that asks. The fetchers and clients
  are that step, and keep no state of their own behind it; this is most of the
  code that no definition is mapped to.
* The federated credential brokers, the planner, the verifier and the MCP crate:
  stubs that refuse, or nothing. The tool registry: a map filled ahead of a run.
  xtask: build-time tooling.
* `schema list` and a dry `gc`: they read the manifest and print.
* Warnings of the Validator, which decide nothing; the scores of a search.
* A script, inner or outer, tree-sitter gives no tree for, which needs a parser without
  a language or with a time limit: `ShellGate` has scripts with a tree.

No property depends on which attributes each template lists, as long as none is
listed twice (`Templates` has the lists of all 21), nor on the fences around a reply
(`Inference`, `strip_code_fences`): these definitions are there so that the files and
the thread are those the code makes.

Assumptions of the models: one process at a time writes below an output
directory; the caller of `rollback` still has the artifacts of the last run, and
of no earlier one; a file that is written to its end has what was written. The
delays of `Inference` and the percentages of `EvalSuite` are exact fractions where
the code has f64; they are the same as long as every product in them is one an
f64 holds exactly.

What the theorems assume of the constants, beside their types: attributes are
finitely many (`PlanEdits`), and the calls of the agent are of its tools; no
character is empty, and its first byte is the only one that does not go on with
another (`Terminal`); a fixture's outputs are functions from paths, and a cost is
not negative (`EvalSuite`); a message has a line (`Terminal`); a text is a sequence
of places (`Scanner`) and no value is deeper than `MaxValueDepth` (`Templates`); a tree has finitely many files, no two of one path, and
a block's inner blocks and attributes are given for it (`Scanner`); no template
lists an attribute twice, as none of the 21 does (`Templates`). In `Secrets` no
value is empty (replacing one would put its reference between any two
characters), and a reference is one character and of no value, so no value is
found inside the text of a reference: one like `secret`, which is part of every
reference, would be, and `rebuild` would then replace a part of the references it
has put back. `RecordsHoldReferencesOnly` says nothing of values
that overlap by an end and a beginning (where two do, `rebuild` leaves the rest of
one), nor of a payload that itself has characters of values.

## 7. Plan

Written, in order: the approval machine and what it promises; the kernel around
it; the audit log; the agents' edits and their loop; the Generator; the pipeline;
the schema store, the Mapper on it, and the schema commands; the services.

Left, in the order of what they would add:

1. Theorems: `TypeOK` of the audit log and of the schema commands; that a plan
   `migrate` writes is written as `Templates` says.
2. Liveness of the stores: that a first launch leaves each requested pair with a
   row under a registry that answers in the end.
3. Two runs of the Generator that are rolled back out of order, and a caller
   that lost its artifacts.
4. `Inference` in the place of the one step that stands for it in `AgentLoop`.

------------------------------- MODULE Migrate -------------------------------
(***************************************************************************)
(* One `terrashift migrate` (cli/src/commands/migrate.rs): scan, map,      *)
(* validate, let the Recovery agent edit the plan, validate again, and     *)
(* append what the Generator makes of each resource to the file of its     *)
(* type, skipping those the last validation has a finding for.             *)
(*                                                                         *)
(* The Recovery agent is FixAgent, on its own copy of the plan.  Of a file *)
(* it matters which blocks it holds and in which order: a block is the     *)
(* plan's resource it was made of, by index, or what was there before.     *)
(***************************************************************************)
EXTENDS PlanEdits

CONSTANTS Template,        \* types the TemplateRegistry has a template for
          Answers,         \* plans the mapping model may answer with
          FixCalls, max_iterations, max_turns, MaxCalls   \* as in FixAgent

ASSUME MigrateConstants ==
  /\ Template \subseteq ResourceType
  /\ Answers \subseteq Seq(MappedResource)
  /\ IsFiniteSet(Attribute)
  /\ FixCalls \subseteq FixCall

VARIABLES
  pc, plan, snapshot, iteration, fix_count, fixes_before, calls, outcome,  \* FixAgent's
  stage,
  mapped,          \* the pipeline's plan
  gaps,            \* addresses the last validation has a finding for
  gated,           \* history: that validation was made
  next,            \* resource to emit next
  files,           \* the output directory
  listed,          \* types whose file the summary names
  skipped,         \* resources the summary names
  ended,
  before_files,    \* history: the output directory at the start
  io_failed        \* history: types of which a file could not be read or written

Recovery == INSTANCE FixAgent WITH
  Score <- error_count, Target <- 0, InitialPlans <- Answers, MayAsk <- FALSE

recovery_vars == <<pc, plan, snapshot, iteration, fix_count, fixes_before, calls, outcome>>
output_vars == <<next, files, listed, skipped, io_failed>>
vars == <<recovery_vars, stage, mapped, gaps, gated, output_vars, ended, before_files>>

UserBlock == 0
TornBlock == -1

Init ==
  /\ Recovery!Init          \* on the plan the model is going to answer with
  /\ stage = "Scan"
  /\ mapped = <<>>
  /\ gaps = {}
  /\ gated = FALSE
  /\ next = 1
  /\ files \in [ResourceType -> {<<>>, <<UserBlock>>}]
  /\ listed = {}
  /\ skipped = {}
  /\ ended = "Running"
  /\ before_files = files
  /\ io_failed = {}

End(result) == stage' = "Done" /\ ended' = result
Enter(s) == stage' = s /\ UNCHANGED ended

----------------------------------------------------------------------------
\* A source that cannot be read, or that has no resource, ends the run.
Scan ==
  /\ stage = "Scan"
  /\ Enter("Map") \/ \E result \in {"Ok", "Err"} : End(result)
  /\ UNCHANGED <<recovery_vars, mapped, gaps, gated, output_vars, before_files>>

validate_plan(answer) == \A i \in DOMAIN answer : answer[i].target_type \in Template

Map ==
  /\ stage = "Map"
  /\ \/ validate_plan(plan) /\ mapped' = plan /\ Enter("ListVersions")
     \/ UNCHANGED mapped /\ End("Err")
  /\ UNCHANGED <<recovery_vars, gaps, gated, output_vars, before_files>>

\* Without a cached schema there is nothing to validate against.
ListVersions ==
  /\ stage = "ListVersions"
  /\ Enter("Validate") \/ Enter("Output")
  /\ UNCHANGED <<recovery_vars, mapped, gaps, gated, output_vars, before_files>>

\* A validation that cannot be made ends the run, as a success.
Validate ==
  /\ stage = "Validate"
  /\ \/ End("Ok")
     \/ validation_errors(mapped) # {} /\ Enter("Recover")
     \/ validation_errors(mapped) = {} /\ Enter("Revalidate")
  /\ UNCHANGED <<recovery_vars, mapped, gaps, gated, output_vars, before_files>>

Recover ==
  /\ stage = "Recover"
  /\ Recovery!Next
  /\ UNCHANGED <<stage, mapped, gaps, gated, output_vars, ended, before_files>>

\* A variant with a bug: the pipeline goes on with the plan it had.
RecoveryReturnsNothing ==
  /\ stage = "Recover" /\ pc = "Done"
  /\ Enter("Revalidate")
  /\ UNCHANGED <<recovery_vars, mapped, gaps, gated, output_vars, before_files>>

\* An agent that fails leaves the pipeline with the plan it had.
RecoveryReturns ==
  /\ stage = "Recover" /\ pc = "Done"
  /\ mapped' = IF outcome.kind = "Err" THEN mapped ELSE plan
  /\ Enter("Revalidate")
  /\ UNCHANGED <<recovery_vars, gaps, gated, output_vars, before_files>>

\* Of its resource in the plan that was validated.
addr_of_validation_error(err) == mapped[err.resource].target_addr

\* When the last validation cannot be made, the run goes on with no gap known.
Revalidate ==
  /\ stage = "Revalidate"
  /\ \/ /\ gaps' = {addr_of_validation_error(e) : e \in validation_errors(mapped)}
        /\ gated' = TRUE
     \/ UNCHANGED <<gaps, gated>>
  /\ Enter("Output")
  /\ UNCHANGED <<recovery_vars, mapped, output_vars, before_files>>

\* A dry run ends here, and so does one without an output directory.
Output ==
  /\ stage = "Output"
  /\ Enter("Emit") \/ \E result \in {"Ok", "Err"} : End(result)
  /\ UNCHANGED <<recovery_vars, mapped, gaps, gated, output_vars, before_files>>

----------------------------------------------------------------------------
\* A variant with a bug: of the resources at an address the first is skipped.
flagged_first(i) ==
  /\ mapped[i].target_addr \in gaps
  /\ \A j \in 1 .. i - 1 : mapped[j].target_addr # mapped[i].target_addr

flagged(i) == mapped[i].target_addr \in gaps

\* A variant with a bug: a resource is skipped without a word.
SkipSilently(i) == UNCHANGED <<files, listed, skipped, io_failed, stage, ended>>

Skip(i) ==
  /\ skipped' = skipped \cup {i}
  /\ UNCHANGED <<files, listed, io_failed, stage, ended>>

\* A variant with a bug: what the file held is not taken over.
combined_alone(existing, i) == <<i>>

combined(existing, i) == Append(existing, i)

\* What was generated goes behind what could be read of the file; neither a failed
\* read nor a failed write is told to anyone. A failed write may have truncated it.
AppendBlock(i) ==
  LET t == mapped[i].target_type IN
  /\ \E existing \in {files[t], <<>>} :
       \/ /\ files' = [files EXCEPT ![t] = combined(existing, i)]
          /\ io_failed' = IF existing = files[t] THEN io_failed ELSE io_failed \cup {t}
       \/ /\ files' \in {[files EXCEPT ![t] = left] : left \in {files[t], <<>>, <<TornBlock>>}}
          /\ io_failed' = io_failed \cup {t}
  /\ listed' = listed \cup {t}
  /\ UNCHANGED <<skipped, stage, ended>>

\* The file generated in a temporary directory cannot be read back, which nobody is told.
GeneratedUnread(i) ==
  /\ io_failed' = io_failed \cup {mapped[i].target_type}
  /\ UNCHANGED <<files, listed, skipped, stage, ended>>

\* One resource of the loop: the gate, then the Generator on it alone, which fails for
\* want of a template, of an attribute the template needs, or of a temporary file.
Emit ==
  /\ stage = "Emit" /\ next <= Len(mapped)
  /\ \/ flagged(next) /\ Skip(next)
     \/ /\ ~flagged(next)
        /\ \/ Skip(next)
           \/ mapped[next].target_type \in Template /\ (AppendBlock(next) \/ GeneratedUnread(next))
           \/ End("Err") /\ UNCHANGED <<files, listed, skipped, io_failed>>
  /\ next' = next + 1
  /\ UNCHANGED <<recovery_vars, mapped, gaps, gated, before_files>>

EmitDone ==
  /\ stage = "Emit" /\ next > Len(mapped)
  /\ End("Ok")
  /\ UNCHANGED <<recovery_vars, mapped, gaps, gated, output_vars, before_files>>

Next ==
  \/ Scan \/ Map \/ ListVersions \/ Validate
  \/ Recover \/ RecoveryReturns
  \/ Revalidate \/ Output \/ Emit \/ EmitDone

Spec == Init /\ [][Next]_vars

----------------------------------------------------------------------------
\* The resources, of those the loop has passed, whose block stands in a file.
Emitted == {i \in 1 .. next - 1 :
              \E t \in ResourceType : \E k \in DOMAIN files[t] : files[t][k] = i}

TypeOK ==
  /\ stage \in {"Scan", "Map", "ListVersions", "Validate", "Recover", "Revalidate", "Output",
                "Emit", "Done"}
  /\ mapped \in Seq(MappedResource)
  /\ stage = "Validate" => \A i \in DOMAIN mapped : mapped[i].target_type \in Template
  /\ gaps \subseteq Addr
  /\ gated \in BOOLEAN
  /\ next \in 1 .. Len(mapped) + 1
  /\ files \in [ResourceType -> Seq({UserBlock, TornBlock} \cup DOMAIN mapped)]
  /\ listed \subseteq ResourceType /\ io_failed \subseteq ResourceType
  /\ skipped \subseteq DOMAIN mapped
  /\ ended \in {"Running", "Ok", "Err"}
  /\ (stage = "Done") <=> (ended # "Running")

\* Article III, as far as the code keeps it: behind a last validation that was made, no
\* resource with a finding is emitted, however the agent edited the plan and whichever
\* resources share an address.
NoGapEmitted ==
  gated => \A e \in validation_errors(mapped) : e.resource \notin Emitted

\* What Recovery reports as a success is a plan without a finding, and that plan is the
\* one the pipeline goes on with: the gate holds nothing of it back.
RecoveredIsClean ==
  outcome.kind = "Success" /\ stage # "Recover" =>
    validation_errors(mapped) = {} /\ gaps = {}

\* What is written is merged with what was there: a file that could always be read and
\* written, whatever became of others, holds what it held and behind it blocks of
\* resources of its type, each once. Of their order it says nothing: that is the
\* plan's, which OutputIsSorted denies.
MergedWith ==
  \A t \in ResourceType \ io_failed :
    LET old == before_files[t]  new == files[t] IN
    /\ SubSeq(new, 1, Len(old)) = old
    /\ \A k \in Len(old) + 1 .. Len(new) :
         /\ new[k] \in {i \in 1 .. next - 1 : mapped[i].target_type = t}
         /\ \A j \in Len(old) + 1 .. k - 1 : new[j] # new[k]

\* What the summary says of the resources: none it says was skipped stands in a file, also
\* when files fail; and one it does not say so of stands in a file the summary lists,
\* unless a file of its type could not be read or written: of these the summary may
\* list a file without their blocks, or be silent (NothingUntold).
SummaryAccounts ==
  stage = "Emit" \/ ended = "Ok" =>
    \A i \in 1 .. next - 1 :
      /\ ~(i \in skipped /\ i \in Emitted)
      /\ \/ i \in skipped
         \/ i \in Emitted /\ mapped[i].target_type \in listed
         \/ mapped[i].target_type \in io_failed

----------------------------------------------------------------------------
\* Article III as it is written: where there is a schema to validate against, and the
\* first validation has found gaps, no resource with a finding is emitted.
EmittedIsValidated ==
  pc # "Config" => \A e \in validation_errors(mapped) : e.resource \notin Emitted

\* "Failures are loud": behind a run that reports success, each resource of the plan stands
\* in a file, or the summary says that it was skipped.
NothingUntold ==
  ended = "Ok" => \A i \in 1 .. next - 1 : i \in skipped \cup Emitted

\* "Generator sorts by target_addr for byte-stable output": behind a run without a failure
\* the blocks of a file come in the order of addresses. For an instance whose names are
\* numbers, in the order of their texts; the addresses of one type differ in the name.
OutputIsSorted ==
  ended = "Ok" =>
    \A t \in ResourceType \ io_failed : \A j, k \in Len(before_files[t]) + 1 .. Len(files[t]) :
      j < k => mapped[files[t][j]].target_addr[2] <= mapped[files[t][k]].target_addr[2]

\* "Existing files are merged-with", and the output is user property: whatever a file
\* held before the run it still holds when the run reports success.
ExistingOutputKept ==
  ended = "Ok" => \A t \in ResourceType :
    before_files[t] = <<UserBlock>> => \E k \in DOMAIN files[t] : files[t][k] = UserBlock
=============================================================================

----------------------------- MODULE EvalSuite -----------------------------
(***************************************************************************)
(* The golden migrations (libs/eval/src): EvalRunner::run_suite loads every*)
(* fixture below the suite's root, generates each one's plan into a new    *)
(* directory and compares it with what is expected. SuiteReport::all_passed*)
(* is the merge gate; the cost of the fixtures goes through a second one,  *)
(* compare_against_baseline.                                               *)
(*                                                                         *)
(* A fixture is a directory: each file it needs is there, broken or absent.*)
(* What the Generator makes of its plan, emits, and what is expected are   *)
(* functions from the paths of all their files, below them too, to         *)
(* contents. A comparison looks at some of these only.                     *)
(***************************************************************************)
EXTENDS Integers, Sequences, SequencesExt, FiniteSetsExt, Arrange

CONSTANTS
    Fixtures,      \* the directories there may be, sequences in order of name
    SchemaFiles,   \* what .schema-cache/ may hold: sets of schemas
    TfFiles        \* the paths of regular files with the extension tf, on the top level

\* A directory of outputs, by path.
IsDirectory(d) == d = [n \in DOMAIN d |-> d[n]]

ASSUME FixturesAssumption ==
    \A dirs \in Fixtures :
        /\ dirs \in Seq(ToSet(dirs))
        /\ \A f \in ToSet(dirs) : IsDirectory(f.emits) /\ IsDirectory(f.expected)

VARIABLE suite     \* what run_suite is at

EvalFailed(kind) == [kind |-> kind]

\* load_golden looks for one file after the other; the first that is missing or does
\* not parse is its error.
load_golden(f) ==
    IF f.manifest = "broken" THEN "ManifestParse"
    ELSE IF ~f.source THEN "MissingFixtureFile"
    ELSE IF f.plan = "absent" THEN "MissingFixtureFile"
    ELSE IF f.plan = "broken" THEN "MappingPlanParse"
    ELSE IF ~f.has_expected THEN "MissingFixtureFile"
    ELSE "ok"

\* discover_suite: the directories with a manifest, hidden ones apart.
discovered(dirs) ==
    Filtered(dirs, {f \in ToSet(dirs) : f.manifest # "absent" /\ ~f.hidden})

\* list_tf_files: other files are not looked at, and an entry of the directory that
\* cannot be read is left out.
list_tf_files(d, unread) == (DOMAIN d \cap TfFiles) \ unread

\* compare_directories, and the comparison passes when it finds nothing.
compare_directories(actual, expected, unread) ==
    LET shown == list_tf_files(actual, unread[1])
        wanted == list_tf_files(expected, unread[2])
    IN  {<<"missing", n>> : n \in wanted \ shown}
        \cup {<<"unexpected", n>> : n \in shown \ wanted}
        \cup {<<"differs", n>> : n \in {m \in wanted \cap shown : actual[m] # expected[m]}}

SuiteIdle == [pc |-> "idle", dirs |-> <<>>, cache |-> {}, goldens |-> <<>>, i |-> 1,
              output |-> <<>>, results |-> <<>>, report |-> "none",
              unread |-> {}]   \* history: entries left out of a listing

SuiteInit ==
    \E dirs \in Fixtures, cache \in SchemaFiles :
        suite = [SuiteIdle EXCEPT !.pc = "discover", !.dirs = dirs, !.cache = cache]

\* discover_suite: every fixture is loaded before the first is run.
DiscoverSuite ==
    LET found == discovered(suite.dirs)
        broken == {n \in DOMAIN found : load_golden(found[n]) # "ok"}
    IN  /\ suite.pc = "discover"
        /\ suite' = IF broken = {} THEN [suite EXCEPT !.pc = "fixture", !.goldens = found]
                    ELSE [suite EXCEPT !.pc = "done",
                            !.report = EvalFailed(load_golden(found[Min(broken)]))]

golden == suite.goldens[suite.i]

\* A variant with a bug: one output directory for the suite.
RunFixtureInOneDirectory ==
    /\ suite.pc = "fixture" /\ suite.i <= Len(suite.goldens)
    /\ golden.needs \subseteq suite.cache /\ golden.generates
    /\ suite' = [suite EXCEPT !.pc = "compare", !.output = golden.emits @@ @]

\* run: in directories of its own, with the schemas it asks for at hand.
RunFixture ==
    /\ suite.pc = "fixture" /\ suite.i <= Len(suite.goldens)
    /\ golden.needs \subseteq suite.cache /\ golden.generates
    /\ suite' = [suite EXCEPT !.pc = "compare", !.output = golden.emits]

\* A schema that is missing, or a plan the Generator refuses, ends the suite.
FixtureFails ==
    /\ suite.pc = "fixture" /\ suite.i <= Len(suite.goldens)
    /\ suite' = [suite EXCEPT !.pc = "done",
         !.report = EvalFailed(IF ~(golden.needs \subseteq suite.cache)
                               THEN "MissingSchema" ELSE "Generator")]
    /\ ~(golden.needs \subseteq suite.cache /\ golden.generates)

CompareFixture ==
    /\ suite.pc = "compare"
    /\ \E unread \in (SUBSET TfFiles) \X (SUBSET TfFiles) :
          suite' = [suite EXCEPT !.pc = "fixture", !.i = @ + 1,
            !.unread = @ \cup unread[1] \cup unread[2],
            !.results = Append(@,
               compare_directories(suite.output, golden.expected, unread) = {})]

\* A directory that cannot be listed, or a file of both that cannot be read, ends the
\* suite.
CompareFails ==
    /\ suite.pc = "compare"
    /\ suite' = [suite EXCEPT !.pc = "done", !.report = EvalFailed("Io")]

\* all_passed of the report.
ReportSuite ==
    /\ suite.pc = "fixture" /\ suite.i > Len(suite.goldens)
    /\ suite' = [suite EXCEPT !.pc = "done",
         !.report = [kind |-> "Report",
                     all_passed |-> ~\E n \in DOMAIN suite.results : ~suite.results[n]]]

SuiteNext ==
    DiscoverSuite \/ RunFixture \/ FixtureFails \/ CompareFixture \/ CompareFails
        \/ ReportSuite

----------------------------------------------------------------------------
(* The cost gate. A report is a sequence of results, each with a name and a *)
(* cost; a baseline has a total and a cost per name.                        *)

CONSTANTS REGRESSION_THRESHOLD_PCT,
          CostReports      \* sequences of results

ASSUME CostsAssumption ==
    /\ REGRESSION_THRESHOLD_PCT \in Nat
    /\ \A results \in CostReports :
          results \in Seq(ToSet(results)) /\ \A r \in ToSet(results) : r.cost \in Nat

VARIABLE costs             \* the comparison of one report with an earlier one

TotalCost(results) ==
    LET upto[n \in 0..Len(results)] == IF n = 0 THEN 0 ELSE upto[n - 1] + results[n].cost
    IN  upto[Len(results)]

\* BTreeMap::insert keeps the later of two costs with one name.
LastCost(results, n) == results[Max({i \in DOMAIN results : results[i].name = n})].cost

ResultNames(results) == {results[i].name : i \in DOMAIN results}

from_report(results) ==
    [total |-> TotalCost(results),
     per_fixture |-> [n \in ResultNames(results) |-> LastCost(results, n)]]

BaselineCost(baseline, n) ==
    IF n \in DOMAIN baseline.per_fixture THEN baseline.per_fixture[n] ELSE 0

\* A percentage as a quotient, zero where there is nothing to compare with.
pct_change(baseline, actual) ==
    IF baseline = 0 THEN [num |-> 0, den |-> 1]
    ELSE [num |-> 100 * (actual - baseline), den |-> baseline]

decide_verdict(baseline, actual, mode) ==
    IF baseline = 0 THEN IF actual = 0 \/ mode = "Lenient" THEN "Pass" ELSE "Fail"
    ELSE IF pct_change(baseline, actual).num > REGRESSION_THRESHOLD_PCT * baseline
         THEN "Fail" ELSE "Pass"

seed_recommended(baseline, actual, mode) == baseline = 0 /\ actual > 0 /\ mode = "Lenient"

Delta(baseline, r) ==
    [name |-> r.name, pct |-> pct_change(BaselineCost(baseline, r.name), r.cost)]

WorstFirst(d, e) == d.pct.num * e.pct.den > e.pct.num * d.pct.den

\* The order of a stable sort of deltas, the worst first.
worst_first(deltas) ==
    {p \in (DOMAIN deltas) \X (DOMAIN deltas) :
        \/ WorstFirst(deltas[p[1]], deltas[p[2]])
        \/ ~WorstFirst(deltas[p[2]], deltas[p[1]]) /\ p[1] < p[2]}

sort_by_delta(deltas) == Arranged(deltas, DOMAIN deltas, worst_first(deltas))

coverage_drift(results, baseline) ==
    (DOMAIN baseline.per_fixture \ ResultNames(results))
    \cup (ResultNames(results) \ DOMAIN baseline.per_fixture)

compare_against_baseline(results, baseline, mode) ==
    [verdict |-> decide_verdict(baseline.total, TotalCost(results), mode),
     seed |-> seed_recommended(baseline.total, TotalCost(results), mode),
     per_fixture |-> sort_by_delta([i \in DOMAIN results |-> Delta(baseline, results[i])]),
     drift |-> coverage_drift(results, baseline)]

CostsIdle == [pc |-> "idle", earlier |-> <<>>, results |-> <<>>, mode |-> "Strict",
              verdict |-> "none"]

CostsInit ==
    \E earlier, results \in CostReports, mode \in {"Strict", "Lenient"} :
        costs = [CostsIdle EXCEPT !.pc = "compare", !.earlier = earlier,
                                  !.results = results, !.mode = mode]

\* The baseline is an earlier report, written by from_report and loaded again.
CompareCosts ==
    /\ costs.pc = "compare"
    /\ costs' = [costs EXCEPT !.pc = "done",
         !.verdict = compare_against_baseline(costs.results, from_report(costs.earlier),
                                              costs.mode)]

----------------------------------------------------------------------------
\* The same of the files named, no matter what else there is.
SameOf(names, actual, expected) ==
    \A n \in names :
        /\ n \in DOMAIN actual <=> n \in DOMAIN expected
        /\ n \in DOMAIN actual => actual[n] = expected[n]

PassedFixtures ==
    IF suite.pc = "done" /\ suite.report.kind = "Report" /\ suite.report.all_passed
    THEN {i \in DOMAIN suite.dirs : suite.dirs[i].manifest # "absent" /\ ~suite.dirs[i].hidden}
    ELSE {}

\* The merge gate passes only suites whose every fixture with a manifest was loaded,
\* had its schemas, and generated by itself the .tf files that are expected of it,
\* nothing less, nothing more, nothing different, but for entries that no listing showed.
PassedSuiteIsReproduced ==
    \A i \in PassedFixtures :
        LET f == suite.dirs[i] IN
        /\ load_golden(f) = "ok" /\ f.needs \subseteq suite.cache /\ f.generates
        /\ SameOf(TfFiles \ suite.unread, f.emits, f.expected)

\* What scorer.rs:32-35 says of a comparison that passes: the directories' listings
\* match and every file is identical. A file that is no .tf file, or lies deeper, is
\* not looked at.
PassedSuiteIsIdentical ==
    suite.unread = {} =>
        \A i \in PassedFixtures : suite.dirs[i].emits = suite.dirs[i].expected

\* The cost gate is loud: each fixture of the report or the baseline is told of, as a
\* change of cost, as a drift, or as both when it is new; the worst change is told
\* first; a report passes against the baseline made of it, without a drift; and one
\* that costs too much more in all does not pass.
CostGateIsLoud ==
    costs.pc = "done" =>
        LET v == costs.verdict
            told == ResultNames(v.per_fixture)
        IN  /\ ResultNames(costs.earlier) \cup ResultNames(costs.results) = told \cup v.drift
            /\ v.drift \cap ResultNames(costs.earlier) \cap ResultNames(costs.results) = {}
            /\ ResultNames(costs.results) \ ResultNames(costs.earlier) \subseteq v.drift
            /\ \A i, j \in DOMAIN v.per_fixture :
                  i < j => ~WorstFirst(v.per_fixture[j], v.per_fixture[i])
            /\ costs.earlier = costs.results => v.verdict = "Pass" /\ v.drift = {}
            /\ costs.mode = "Strict"
                 /\ TotalCost(costs.results) * 100
                      > TotalCost(costs.earlier) * (100 + REGRESSION_THRESHOLD_PCT)
               => v.verdict = "Fail"

SuiteSpec == SuiteInit /\ [][SuiteNext]_suite
CostsSpec == CostsInit /\ [][CompareCosts]_costs

\* The two gates of a merge, the trees and the costs.
MergeGatesAreSound == PassedSuiteIsReproduced /\ CostGateIsLoud
=============================================================================

----------------------------- MODULE ShellGate -----------------------------
(***************************************************************************)
(* The approval of shell commands (libs/shell-tool-approvals/src) and the  *)
(* Executor that asks for it (libs/engine/src/executor/mod.rs).            *)
(*                                                                         *)
(* parse() walks a script and every script in it that is given to a shell  *)
(* with -c, on an explicit stack, and collects the commands; resolve()     *)
(* gives each the verdict of the most specific rule for it and takes the   *)
(* most restrictive; apply() goes through a list of such inputs and stops  *)
(* at the first that is not allowed.                                       *)
(*                                                                         *)
(* A script is a name, and ScriptText its commands as the grammar finds    *)
(* them. A command has a name or none, its arguments, and, if it is a shell*)
(* with -c, the script it is given. A rule is a sequence of words with its *)
(* verdict. That the grammar gives no tree at all, which parse() passes    *)
(* over, needs a parser without a language or with a time limit.           *)
(***************************************************************************)
EXTENDS Integers, FiniteSets, Sequences, SequencesExt, FiniteSetsExt

CONSTANTS
    Scripts,          \* names of scripts
    ScriptText,       \* [Scripts -> Seq(commands)]
    Flags,            \* the arguments that begin with a dash
    Policy,           \* the rules: a function from keys, sequences of words
    MAX_SCRIPT_DEPTH,
    ApplyLists        \* what apply() is called with: sequences of scripts

VARIABLE gate         \* what apply() is at

Allow == 0
Prompt == 1
Deny == 2
NoName == "no name"
NoScript == "no script"

Commands == UNION {ToSet(ScriptText[s]) : s \in Scripts}

ASSUME ScriptsAssumption ==
    /\ NoScript \notin Scripts
    /\ \A s \in Scripts : ScriptText[s] \in Seq(Commands)
    /\ \A cmd \in Commands : cmd.script \in Scripts \cup {NoScript}
    /\ ApplyLists \subseteq Seq(Scripts)
    /\ MAX_SCRIPT_DEPTH \in Nat

ASSUME PolicyAssumption ==
    /\ IsFiniteSet(DOMAIN Policy)
    /\ \A k \in DOMAIN Policy : Len(k) \in Nat /\ Policy[k] \in {Allow, Prompt, Deny}

Command(name, args) == [name |-> name, args |-> args, script |-> NoScript]
ShellCommand(name, script) == [name |-> name, args |-> <<"-c">>, script |-> script]

\* The failure-closed clamp: never Allow.
clamp_failure_closed(verdict) == IF verdict < Prompt THEN Prompt ELSE verdict

\* The rules apply() is given unless a caller brings its own. Of terraform only what
\* changes nothing is allowed; env and xargs, whose commands the walk does not see,
\* are denied altogether.
stage1_policy ==
    LET of(name, subcommands) == {<<name, c>> : c \in subcommands}
        allowed == {<<"echo">>} \cup of("git", {"status", "diff", "log", "show"})
                   \cup of("terraform", {"plan", "validate", "fmt", "init", "show", "output"})
                   \cup of("cargo", {"build", "check", "test", "fmt", "clippy"})
        denied == of("terraform", {"apply", "destroy"})
                  \cup {<<"rm">>, <<"nc">>, <<"env">>, <<"xargs">>}
        asked == {<<"terraform">>, <<"cargo">>, <<"git">>, <<"curl">>, <<"wget">>}
                 \cup of("cargo", {"run"}) \cup of("git", {"push", "commit"})
    IN  [k \in allowed \cup asked \cup denied |->
            IF k \in allowed THEN Allow ELSE IF k \in denied THEN Deny ELSE Prompt]

----------------------------------------------------------------------------
(* resolve_command: a rule may name the command alone or with arguments,   *)
(* and the root of all is the empty key.                                   *)

words(cmd) == <<cmd.name>> \o SelectSeq(cmd.args, LAMBDA a : a \notin Flags)

rules(cmd) == {k \in DOMAIN Policy : IsPrefix(k, words(cmd))}

most_specific(keys) == CHOOSE k \in keys : \A l \in keys : Len(l) <= Len(k)

resolve_command(cmd, default) ==
    IF cmd.name = NoName \/ rules(cmd) = {} THEN default
    ELSE Policy[most_specific(rules(cmd))]

\* A variant with a bug: the verdict of the last command.
strictest_last(verdicts, default) ==
    IF verdicts = <<>> THEN default ELSE Last(verdicts)

\* resolve: the maximum over the commands.
strictest(verdicts, default) ==
    IF verdicts = <<>> THEN default ELSE Max({verdicts[i] : i \in DOMAIN verdicts})

----------------------------------------------------------------------------
(* apply(), and in it parse() one script after the other *)

GateIdle == [pc |-> "idle", inputs |-> <<>>, stack |-> <<>>, text |-> <<>>, depth |-> 0,
             commands |-> <<>>, verdict |-> Prompt, authorized |-> <<>>, result |-> "none"]

GateInit == \E list \in ApplyLists : gate = [GateIdle EXCEPT !.pc = "next", !.inputs = list]

\* The next input of apply(). With none left every one was allowed; the commands
\* cannot be started yet.
NextInput ==
    /\ gate.pc = "next"
    /\ gate' = IF gate.inputs = <<>>
               THEN [gate EXCEPT !.pc = "done", !.result = "NotImplementedYet"]
               ELSE [gate EXCEPT !.pc = "parse", !.commands = <<>>,
                       !.stack = <<[script |-> Head(gate.inputs), depth |-> 0]>>]

\* The script on top of the stack is the next that is walked, and its commands are
\* found one after the other.
WalkScript ==
    /\ gate.pc = "parse" /\ gate.text = <<>> /\ gate.stack # <<>>
    /\ LET top == Last(gate.stack)
       IN  /\ top.depth <= MAX_SCRIPT_DEPTH
           /\ gate' = [gate EXCEPT !.stack = Front(@), !.depth = top.depth,
                                   !.text = ScriptText[top.script]]

\* A command is collected; a shell with its own script gives way to that.
FindCommand ==
    /\ gate.pc = "parse" /\ gate.text # <<>>
    /\ LET cmd == Head(gate.text)
       IN  gate' =
             IF cmd.script = NoScript
             THEN [gate EXCEPT !.text = Tail(@), !.commands = Append(@, cmd)]
             ELSE [gate EXCEPT !.text = Tail(@),
                     !.stack = Append(@, [script |-> cmd.script, depth |-> gate.depth + 1])]

\* Nested too deeply: the clamped default is the verdict of the whole input.
TooDeep ==
    /\ gate.pc = "parse" /\ gate.text = <<>> /\ gate.stack # <<>>
    /\ Last(gate.stack).depth > MAX_SCRIPT_DEPTH
    /\ gate' = [gate EXCEPT !.pc = "verdict", !.verdict = clamp_failure_closed(Prompt)]

\* pre_apply_check asks for Prompt where no rule says anything.
ResolveInput ==
    /\ gate.pc = "parse" /\ gate.text = <<>> /\ gate.stack = <<>>
    /\ gate' = [gate EXCEPT !.pc = "verdict",
         !.verdict = strictest([i \in DOMAIN gate.commands |->
                                   resolve_command(gate.commands[i], Prompt)], Prompt)]

\* Interactive mode refuses a Prompt as the non-interactive one does.
ActOnVerdict ==
    /\ gate.pc = "verdict"
    /\ gate' = IF gate.verdict = Allow
               THEN [gate EXCEPT !.pc = "next", !.inputs = Tail(@),
                       !.authorized = Append(@, Head(gate.inputs))]
               ELSE [gate EXCEPT !.pc = "done",
                       !.result = IF gate.verdict = Deny THEN "DeniedByApprovalGate"
                                  ELSE "PromptRequiredButNonInteractive"]

GateNext ==
    NextInput \/ WalkScript \/ FindCommand \/ TooDeep \/ ResolveInput \/ ActOnVerdict

GateSpec == GateInit /\ [][GateNext]_gate

----------------------------------------------------------------------------
\* The scripts that shells are given in a script.
given(script) == {cmd.script : cmd \in ToSet(ScriptText[script])} \ {NoScript}

\* The scripts in a script, level by level, without a stack.
within[n \in Nat] ==
    [s \in Scripts |->
        IF n = 0 THEN {s} ELSE UNION {within[n - 1][t] : t \in given(s)}]

RunsOnlyAllowed(script) ==
    /\ within[MAX_SCRIPT_DEPTH + 1][script] = {}
    /\ \A n \in 0..MAX_SCRIPT_DEPTH : \A inner \in within[n][script] :
          \A cmd \in ToSet(ScriptText[inner]) :
              cmd.script = NoScript => resolve_command(cmd, Prompt) = Allow

\* What apply() authorizes runs nothing but commands that are allowed: every command
\* of the input, at whatever depth a shell is given it, is allowed by its own most
\* specific rule, and nothing is nested more deeply than the walk goes.
AuthorizedRunsOnlyAllowed ==
    \A i \in DOMAIN gate.authorized : RunsOnlyAllowed(gate.authorized[i])
=============================================================================

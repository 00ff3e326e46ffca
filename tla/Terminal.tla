------------------------------ MODULE Terminal ------------------------------
(***************************************************************************)
(* The terminal interface (tui/src): start_tui takes the terminal over and *)
(* gives it back, its loop draws and handles one key at a time, AppState   *)
(* keeps the line that is typed, the messages and how far they are scrolled*)
(* up, and a line that is entered goes to the slash commands.              *)
(*                                                                         *)
(* The buffer is what a String is, bytes, and the cursor an offset into it;*)
(* a character is the sequence of its bytes. Char is such a sequence whose *)
(* later bytes are in Continuation.                                        *)
(*                                                                         *)
(* A message is what it takes to draw: for each line of its text, how many *)
(* rows it is wrapped to. The terminal keeps its size.                     *)
(***************************************************************************)
EXTENDS Integers, Sequences, SequencesExt, FiniteSetsExt, Arrange

CONSTANTS
    Chars,          \* sequences of bytes
    Continuation,   \* bytes no character begins with
    Blank,          \* the space, a sequence of one byte
    Answered,       \* what a command may answer with: kinds of messages
    MessageTexts,   \* what messages may take: sequences of numbers of rows
    WelcomeRows,    \* the rows each line of the welcome takes
    VisibleHeight,  \* rows of the messages' area
    MaxInput,       \* BOUND: bytes typed into one line
    MaxMessages     \* BOUND: messages

ASSUME TerminalAssumption ==
    /\ VisibleHeight \in Nat
    /\ MessageTexts \subseteq Seq(Nat) \ {<<>>}
    /\ WelcomeRows \in [1..3 -> Nat]

Bytes == UNION {ToSet(c) : c \in Chars}

ASSUME CharsAssumption ==
    \A c \in Chars : /\ c \in Seq(Bytes) /\ c # <<>>
                     /\ \A i \in DOMAIN c : c[i] \in Continuation <=> i # 1

VARIABLE tui

TuiIdle == [pc |-> "idle", raw |-> FALSE, alternate |-> FALSE, guard |-> FALSE,
            input_buffer |-> <<>>, cursor |-> 0, messages |-> <<>>, scroll_offset |-> 0,
            should_exit |-> FALSE]

TuiInit == tui = [TuiIdle EXCEPT !.pc = "start"]

----------------------------------------------------------------------------
(* start_tui and its guard *)

EnableRawMode ==
    /\ tui.pc = "start"
    /\ \/ tui' = [tui EXCEPT !.pc = "alternate", !.raw = TRUE]
       \/ tui' = [tui EXCEPT !.pc = "returned"]

\* A variant with a bug: no guard is kept.
EnterAlternateScreenUnguarded ==
    /\ tui.pc = "alternate"
    /\ \/ tui' = [tui EXCEPT !.pc = "terminal", !.alternate = TRUE]
       \/ tui' = [tui EXCEPT !.pc = "returned unguarded"]

\* When the alternate screen cannot be entered, nothing undoes the raw mode.
EnterAlternateScreen ==
    /\ tui.pc = "alternate"
    /\ \/ tui' = [tui EXCEPT !.pc = "terminal", !.alternate = TRUE, !.guard = TRUE]
       \/ tui' = [tui EXCEPT !.pc = "returned unguarded"]

\* push_welcome shows three messages of one line.
push_welcome == [k \in 1..3 |-> <<WelcomeRows[k]>>]

\* Terminal::new, and the welcome.
MakeTerminal ==
    /\ tui.pc = "terminal"
    /\ \/ tui' = [tui EXCEPT !.pc = "draw", !.messages = push_welcome]
       \/ tui' = [tui EXCEPT !.pc = "leave"]

\* The head of the loop: draw, and leave when that was asked for. Drawing may fail.
DrawFrame ==
    /\ tui.pc = "draw"
    /\ \/ tui' = [tui EXCEPT !.pc = IF tui.should_exit THEN "leave" ELSE "poll"]
       \/ tui' = [tui EXCEPT !.pc = "leave"]

\* No event in time, one that is no key, or a failure to read it.
NoKey ==
    /\ tui.pc = "poll"
    /\ tui' = [tui EXCEPT !.pc = "draw"] \/ tui' = [tui EXCEPT !.pc = "leave"]

\* TerminalGuard is dropped, whichever way the function is left.
DropGuard ==
    /\ tui.pc = "leave"
    /\ tui' = [tui EXCEPT !.pc = "returned", !.guard = FALSE,
                 !.raw = @ /\ ~tui.guard, !.alternate = @ /\ ~tui.guard]

----------------------------------------------------------------------------
(* AppState: the line *)

IsBoundary(i) ==
    i = Len(tui.input_buffer) \/ tui.input_buffer[i + 1] \notin Continuation

Boundaries == {i \in 0..Len(tui.input_buffer) : IsBoundary(i)}

\* Where the character before, and the one after, the cursor begins.
previous == Max({0} \cup {i \in Boundaries : i < tui.cursor})
next == Min({Len(tui.input_buffer)} \cup {i \in Boundaries : i > tui.cursor})

before(i) == SubSeq(tui.input_buffer, 1, i)
after(i) == SubSeq(tui.input_buffer, i + 1, Len(tui.input_buffer))

\* A variant with a bug: every character is one byte long.
input_insert_byte(c) ==
    [tui EXCEPT !.input_buffer = before(tui.cursor) \o c \o after(tui.cursor),
                !.cursor = @ + 1]

input_insert(c) ==
    [tui EXCEPT !.input_buffer = before(tui.cursor) \o c \o after(tui.cursor),
                !.cursor = @ + Len(c)]

input_backspace ==
    IF tui.cursor = 0 THEN tui
    ELSE [tui EXCEPT !.input_buffer = before(previous) \o after(tui.cursor),
                     !.cursor = previous]

input_delete ==
    IF tui.cursor >= Len(tui.input_buffer) THEN tui
    ELSE [tui EXCEPT !.input_buffer = before(tui.cursor) \o after(next)]

input_left == IF tui.cursor = 0 THEN tui ELSE [tui EXCEPT !.cursor = previous]

input_right ==
    IF tui.cursor >= Len(tui.input_buffer) THEN tui ELSE [tui EXCEPT !.cursor = next]

take_input(t) == [t EXCEPT !.input_buffer = <<>>, !.cursor = 0]

\* push scrolls to the end of the messages.
push(t, added) == [t EXCEPT !.messages = @ \o added, !.scroll_offset = 0]

scroll_up(lines) == [tui EXCEPT !.scroll_offset = @ + lines]
scroll_down(lines) == [tui EXCEPT !.scroll_offset = Max({0, @ - lines})]
request_exit(t) == [t EXCEPT !.should_exit = TRUE]

----------------------------------------------------------------------------
(* handle_key *)

\* The loop goes on with the next frame.
Handled(t) == tui.pc = "poll" /\ tui' = [t EXCEPT !.pc = "draw"]

\* Ctrl-C, and Ctrl-D on an empty line.
ExitKey == Handled(request_exit(tui))

TypeKey ==
    \E c \in Chars : /\ Len(tui.input_buffer) + Len(c) <= MaxInput
                     /\ Handled(input_insert(c))

EditKey ==
    Handled(input_backspace) \/ Handled(input_delete) \/ Handled(input_left)
    \/ Handled(input_right) \/ Handled([tui EXCEPT !.cursor = 0])
    \/ Handled([tui EXCEPT !.cursor = Len(tui.input_buffer)])

ScrollKey ==
    \/ tui.scroll_offset <= Len(tui.messages) /\ Handled(scroll_up(5))
    \/ Handled(scroll_down(5))

\* Escape clears the line, and leaves when there is none.
EscapeKey ==
    Handled(IF tui.input_buffer # <<>> THEN take_input(tui) ELSE request_exit(tui))

IsBlank(buffer) == \A i \in DOMAIN buffer : <<buffer[i]>> = Blank

\* Enter: the line is taken, shown again, and dispatched. Whatever the command, its
\* answer is one message, or the exit.
EnterKey ==
    IF IsBlank(tui.input_buffer) THEN Handled(take_input(tui))
    ELSE /\ Len(tui.messages) + 2 <= MaxMessages
         /\ \E line, text \in MessageTexts, answer \in Answered :
              /\ Len(line) = 1
              /\ Handled(IF answer = "Exit" THEN request_exit(push(take_input(tui), <<line>>))
                         ELSE push(take_input(tui), <<line, text>>))

TuiNext ==
    \/ EnableRawMode \/ EnterAlternateScreen \/ MakeTerminal \/ DrawFrame \/ NoKey
    \/ DropGuard \/ ExitKey \/ TypeKey \/ EditKey \/ ScrollKey \/ EscapeKey \/ EnterKey

TuiSpec == TuiInit /\ [][TuiNext]_tui

----------------------------------------------------------------------------
(* render_messages: of the lines of all messages, a blank one behind each,  *)
(* it takes as many as the area has rows, and wraps what it took.           *)

message_lines == Joined([k \in DOMAIN tui.messages |-> Append(tui.messages[k], 1)])

first_line ==
    LET total == Len(message_lines)
    IN  Min({Max({0, total - (VisibleHeight + tui.scroll_offset)}),
             Max({0, total - Min({VisibleHeight, total})})})

visible == SubSeq(message_lines, first_line + 1, Min({first_line + VisibleHeight, Len(message_lines)}))

----------------------------------------------------------------------------
\* The characters of a sequence of bytes: each byte begins one or goes on with the last.
with_byte(characters, byte) ==
    IF byte \in Continuation /\ characters # <<>>
    THEN [characters EXCEPT ![Len(characters)] = Append(@, byte)]
    ELSE Append(characters, <<byte>>)

decoded(bytes) ==
    LET upto[i \in 0..Len(bytes)] ==
            IF i = 0 THEN <<>> ELSE with_byte(upto[i - 1], bytes[i])
    IN  upto[Len(bytes)]

Editor == INSTANCE LineEditor
              WITH left <- decoded(before(tui.cursor)),
                   right <- decoded(after(tui.cursor)),
                   Characters <- Chars

\* The keys do to the bytes and the offset what an editor of one line promises to do
\* to characters, also where characters have several bytes: the cursor never parts
\* one, and no key changes what it has nothing to do with.
EditorIsALine == Editor!LineSpec

\* However the interface is left once it owns the terminal, by a key, a command, or
\* a failure to draw or to read, the terminal is given back; and the lines a frame is
\* made of are as many as there are rows, and the last ones unless scrolled up. Of how
\* many rows they then take it says nothing: see LatestVisible.
TerminalIsRestored ==
    /\ tui.pc = "returned" => ~tui.raw /\ ~tui.alternate
    /\ tui.pc = "poll" =>
         /\ first_line + VisibleHeight <= Max({VisibleHeight, Len(message_lines)})
         /\ tui.scroll_offset = 0 => first_line + VisibleHeight >= Len(message_lines)

RowsOf(wrapped) == FoldLeft(LAMBDA sum, n : sum + n, 0, wrapped)

\* What app.rs:40-41 says: unless scrolled up, the latest message is visible. Its last
\* line begins behind the rows of the lines above it, which may be more than there are.
LatestVisible ==
    tui.pc = "poll" /\ tui.scroll_offset = 0 /\ tui.messages # <<>> =>
        RowsOf(SubSeq(visible, 1, Len(visible) - 2)) < VisibleHeight
=============================================================================

------------------------------ MODULE Scanner -------------------------------
(***************************************************************************)
(* Scanner::scan (libs/engine/src/scanner): walks a directory, reads every *)
(* visible .tf file and collects its blocks; the first file that cannot be *)
(* read, or uses what is not supported, ends it.                           *)
(*                                                                         *)
(* An entry of the tree is a file with the names on its way below the root.*)
(* A block is a name, BlockOf says what it is: its kind, how many labels it*)
(* has, the attributes and the names of the blocks in it. The text of a    *)
(* file is what a search for a kind can meet: the places, in their order,  *)
(* where a word that ends in the kind is followed by a blank and by a quote*)
(* or a brace. A place may be the header of a block, and may be in a       *)
(* comment, in a string, or in another word; a header written in another   *)
(* way, with a name without quotes or two blanks, is none.                 *)
(***************************************************************************)
EXTENDS Integers, Sequences, SequencesExt, FiniteSetsExt, Arrange

CONSTANTS
    Trees,       \* sets of files: [path, tf, readable, blocks, text]
    BlockOf,     \* from names of blocks to [kind, labels, attributes, inner]
    MaxNesting   \* BOUND: depth of the blocks in BlockOf

ASSUME BlocksAssumption ==
    /\ MaxNesting \in Nat
    /\ \A b \in DOMAIN BlockOf :
          /\ BlockOf[b].inner \in Seq(DOMAIN BlockOf) /\ BlockOf[b].labels \in Nat
          /\ IsFiniteSet(BlockOf[b].attributes)

\* A file that parses is a sequence of blocks; no two files are at one path.
ASSUME TreesAssumption ==
    \A tree \in Trees :
        /\ IsFiniteSet(tree)
        /\ \A f, g \in tree : f.path = g.path => f = g
        /\ \A f \in tree : /\ f.blocks \in Seq(DOMAIN BlockOf) \cup {<<"unparsable">>}
                           /\ f.text \in Seq(ToSet(f.text))

VARIABLE scan

ScanIdle == [pc |-> "idle", exists |-> TRUE, tree |-> {}, todo |-> {}, file |-> <<>>,
             i |-> 1, items |-> <<>>, notes |-> 0, files |-> <<>>, error |-> "none"]

\* A root that does not exist, or a tree below it.
ScanInit ==
    \E tree \in Trees, exists \in BOOLEAN :
        scan = [ScanIdle EXCEPT !.pc = "discover", !.tree = tree, !.exists = exists]

ScanFails(error) == [scan EXCEPT !.pc = "done", !.error = error]

\* Directories that are skipped with all below them.
Generated == {".terraform", "target", "node_modules"}
Hidden == {".terraform", ".git", ".hidden.tf"}

is_visible(file) == ToSet(file.path) \cap (Generated \cup Hidden) = {}

\* discover_tf_files. An entry that cannot be read ends the walk.
DiscoverFiles ==
    /\ scan.pc = "discover"
    /\ \/ scan.exists /\ scan' = [scan EXCEPT !.pc = "file",
                            !.todo = {f \in scan.tree : is_visible(f) /\ f.tf}]
       \/ scan' = ScanFails("Io")

\* The files come in the order of the directory, which is any. A file that cannot be
\* read or parsed ends the scan.
OpenFile ==
    /\ scan.pc = "file"
    /\ \E file \in scan.todo :
         scan' = IF ~file.readable THEN ScanFails("Io")
                 ELSE IF file.blocks = <<"unparsable">> THEN ScanFails("Parse")
                 ELSE [scan EXCEPT !.pc = "block", !.todo = @ \ {file}, !.file = file,
                                   !.i = 1, !.items = <<>>, !.notes = 0]

block == BlockOf[scan.file.blocks[scan.i]]

\* The number of labels each kind of block needs.
labels_ok(b) ==
    CASE b.kind \in {"resource", "data"} -> b.labels = 2
      [] b.kind = "provider" -> b.labels >= 1
      [] b.kind \in {"module", "variable", "output"} -> b.labels = 1
      [] OTHER -> TRUE

Collected == {"resource", "data", "provider", "module", "variable", "output"}

\* check_no_nested_dynamic, as deep as blocks go.
nests_dynamic[n \in Nat] ==
    [b \in DOMAIN BlockOf |->
        \E k \in DOMAIN BlockOf[b].inner :
            LET c == BlockOf[b].inner[k]
            IN  BlockOf[c].kind = "dynamic" \/ (n > 0 /\ nests_dynamic[n - 1][c])]

\* A variant with a bug: the blocks in a block are looked at, and not those in them.
nested_dynamic_below(name_) == nests_dynamic[0][name_]

nested_dynamic(name_) == nests_dynamic[MaxNesting][name_]

\* note_stage5_features, and the note for a kind that is not collected.
notes_of(b) ==
    Cardinality(b.attributes \cap {"count", "for_each"})
    + Cardinality({k \in DOMAIN b.inner : BlockOf[b.inner[k]].kind \in
                                            {"provisioner", "lifecycle", "connection"}})
    + (IF b.kind \in Collected THEN 0 ELSE 1)

\* The first place in the file where the kind is followed by a quote, or else by a
\* brace, whatever it is part of; 0 if there is none.
approx_span(kind) ==
    LET text == scan.file.text
        at(quoted) == {k \in DOMAIN text : text[k].kind = kind /\ text[k].quoted = quoted}
    IN  IF at(TRUE) # {} THEN Min(at(TRUE))
        ELSE IF at(FALSE) # {} THEN Min(at(FALSE)) ELSE 0

\* process_block. An attribute outside of blocks is a note.
ProcessBlock ==
    /\ scan.pc = "block" /\ scan.i <= Len(scan.file.blocks)
    /\ scan' =
         IF block.kind = "dynamic" THEN ScanFails("UnsupportedFeature")
         ELSE IF ~labels_ok(block) THEN ScanFails("MalformedBlock")
         ELSE IF nested_dynamic(scan.file.blocks[scan.i]) THEN ScanFails("UnsupportedFeature")
         ELSE [scan EXCEPT !.i = @ + 1, !.notes = @ + notes_of(block),
                 !.items = IF block.kind \in Collected
                           THEN Append(@, [block |-> scan.file.blocks[scan.i],
                                           span |-> approx_span(block.kind)])
                           ELSE @]

CloseFile ==
    /\ scan.pc = "block" /\ scan.i > Len(scan.file.blocks)
    /\ scan' = [scan EXCEPT !.pc = "file",
         !.files = Append(@, [path |-> scan.file.path, items |-> scan.items,
                              notes |-> scan.notes])]

ScanEnds == scan.pc = "file" /\ scan.todo = {} /\ scan' = [scan EXCEPT !.pc = "done"]

ScanNext == DiscoverFiles \/ OpenFile \/ ProcessBlock \/ CloseFile \/ ScanEnds

ScanSpec == ScanInit /\ [][ScanNext]_scan

----------------------------------------------------------------------------
\* The blocks in a block, at a depth.
inside[n \in Nat] ==
    [b \in DOMAIN BlockOf |->
        IF n = 0 THEN {b} ELSE UNION {inside[n - 1][c] : c \in ToSet(BlockOf[b].inner)}]

\* A place that reads like a header of the block, and those that are its header.
reads_as(place, b) == place.kind = BlockOf[b].kind /\ place.quoted
places_of(text, b) == {n \in DOMAIN text : text[n].of = b /\ reads_as(text[n], b)}

\* An inventory is all of the tree or nothing: a scan that succeeds has each .tf file
\* outside of the directories that are skipped once, with every block of a kind it
\* collects, in order, a note for what it leaves out, and nowhere, however deep, a
\* dynamic block. The place it gives for a block whose header is written in the usual
\* way is one that reads like a header of its kind, and is not behind it; for another
\* block it may be none at all.
InventoryIsComplete ==
    scan.pc = "done" /\ scan.error = "none" =>
        LET wanted == {f \in scan.tree : f.tf /\ \A k \in DOMAIN f.path :
                                  f.path[k] \notin Generated \cup Hidden}
        IN  /\ {scan.files[k].path : k \in DOMAIN scan.files} = {f.path : f \in wanted}
            /\ Len(scan.files) = Cardinality(wanted)
            /\ \A f \in wanted, k \in DOMAIN scan.files :
                 scan.files[k].path = f.path =>
                   /\ [n \in DOMAIN scan.files[k].items |-> scan.files[k].items[n].block] =
                        Filtered(f.blocks, {b \in DOMAIN BlockOf : BlockOf[b].kind \in Collected})
                   /\ \A item \in ToSet(scan.files[k].items) :
                        \A n \in places_of(f.text, item.block) :
                           item.span \in 1..n /\ reads_as(f.text[item.span], item.block)
                   /\ Len(f.blocks) <= Len(scan.files[k].items) + scan.files[k].notes
                   /\ \A b \in ToSet(f.blocks), n \in 0..MaxNesting :
                        \A c \in inside[n][b] : BlockOf[c].kind # "dynamic"

\* What parser.rs:291-295 says of a place: it is usually correct where nothing is
\* pathological, here where each place of the text is a header. It is that of the first
\* block of the kind for all of them.
PlacesAreOwn ==
    scan.pc = "done" /\ scan.error = "none" =>
        \A f \in scan.tree, k \in DOMAIN scan.files :
            /\ scan.files[k].path = f.path
            /\ \A n \in DOMAIN f.text : f.text[n].of \in DOMAIN BlockOf
            => \A item \in ToSet(scan.files[k].items) : item.span \in places_of(f.text, item.block)
=============================================================================

------------------------------ MODULE AuditLog ------------------------------
(***************************************************************************)
(* libs/audit: the store several tasks append to (store.rs), the signer    *)
(* (signer.rs) and the verification of an exported run (verify.rs).        *)
(*                                                                         *)
(* An append is four steps, because three awaits split it: the head is     *)
(* read, the sequence number is read, the row is inserted, the head is     *)
(* written.  Rows outlive the process; the heads are in its memory.        *)
(*                                                                         *)
(* SHA-256 and Ed25519 are taken as free of collisions: a hash is the      *)
(* record of what it covers, a signature the pair of key and hash.  What   *)
(* an entry says is its body, and whether a scrubber's pattern is in one   *)
(* of its fields is open.                                                  *)
(***************************************************************************)
EXTENDS Integers, Sequences, FiniteSets

CONSTANTS Writer,       \* tasks that share the store: the hook, the broker, ...
          Run,
          Key,
          NoKey,
          RunOf,        \* the run a writer appends to
          MaxEntries,   \* BOUND: appends begun
          MaxRestarts   \* BOUND: restarts of the process

ASSUME AuditConstants ==
  /\ NoKey \notin Key
  /\ RunOf \in [Writer -> Run]
  /\ MaxEntries \in Nat /\ MaxRestarts \in Nat

VARIABLES
  rows,          \* audit_entries, in the order of insertion
  public_key,    \* audit_runs
  chain_heads,   \* head of each run the process has appended to
  signer,        \* the key the process signs a run with
  pc, entry, seq,  \* per writer: the append under way
  begun,         \* appends begun so far; an entry's id
  restarts,
  overlapped,    \* history: runs two of whose appends were under way at once
  severed        \* history: runs that had rows when the process restarted, or
                 \* that were registered with a key other than the signer's

vars == <<rows, public_key, chain_heads, signer, pc, entry, seq, begun, restarts,
          overlapped, severed>>

ZeroHash == <<>>
NoEntry == <<>>

\* A variant with a bug: the link is not part of what is hashed.
compute_content_hash_unlinked(e) == [id |-> e.id, run |-> e.run_id, body |-> e.body]

\* Everything but content_hash and signature.
compute_content_hash(e) ==
  [id |-> e.id, run |-> e.run_id, body |-> e.body, prev_hash |-> e.prev_hash]

sign(key, hash) == <<key, hash>>

----------------------------------------------------------------------------
rows_of(r) == {i \in DOMAIN rows : rows[i].entry.run_id = r}

\* SELECT MAX(seq) + 1: MAX over no row is NULL, which reads as 0.
next_seq(r) ==
  CHOOSE n \in {1} \cup {rows[i].seq + 1 : i \in rows_of(r)} :
    \A i \in rows_of(r) : rows[i].seq < n

\* ORDER BY seq; the index gives rows with one seq in the order of insertion.
export(r) ==
  LET before(i) == {j \in rows_of(r) : \/ rows[j].seq < rows[i].seq
                                       \/ rows[j].seq = rows[i].seq /\ j < i}
  IN  [k \in 1 .. Cardinality(rows_of(r)) |->
         rows[CHOOSE i \in rows_of(r) : Cardinality(before(i)) = k - 1].entry]

\* NoKey is RunNotFound.
get_verify_key(r) == public_key[r]

\* A variant with a bug: the entries are checked one by one, without their links.
entry_fault_unlinked(entries, key, k) ==
  IF compute_content_hash(entries[k]) # entries[k].content_hash THEN "ChainBroken"
  ELSE IF entries[k].signature # sign(key, entries[k].content_hash) THEN "SignatureInvalid"
  ELSE "Ok"

\* What verify_chain finds wrong with entry k.
entry_fault(entries, key, k) ==
  LET e == entries[k]
      expected_prev == IF k = 1 THEN ZeroHash ELSE entries[k - 1].content_hash
  IN  IF e.prev_hash # expected_prev THEN "ChainBroken"
      ELSE IF compute_content_hash(e) # e.content_hash THEN "ChainBroken"
      ELSE IF e.signature # sign(key, e.content_hash) THEN "SignatureInvalid"
      ELSE "Ok"

verify_chain(entries, key) ==
  LET bad == {k \in DOMAIN entries : entry_fault(entries, key, k) # "Ok"}
  IN  IF bad = {} THEN "Ok"
      ELSE entry_fault(entries, key, CHOOSE k \in bad : \A j \in bad : k <= j)

----------------------------------------------------------------------------
Init ==
  /\ rows = <<>>
  /\ public_key = [r \in Run |-> NoKey]
  /\ chain_heads = [r \in {} |-> ZeroHash]
  /\ signer \in [Run -> Key]
  /\ pc = [w \in Writer |-> "new"]
  /\ entry = [w \in Writer |-> NoEntry]
  /\ seq = [w \in Writer |-> 0]
  /\ begun = 0
  /\ restarts = 0
  /\ overlapped = {}
  /\ severed = {}

\* INSERT OR IGNORE: the first key of a run stays.
Register(w) ==
  LET r == RunOf[w] IN
  /\ pc[w] = "new"
  /\ pc' = [pc EXCEPT ![w] = "idle"]
  /\ public_key' = IF public_key[r] = NoKey THEN [public_key EXCEPT ![r] = signer[r]]
                                            ELSE public_key
  /\ severed' = IF public_key'[r] # signer[r] THEN severed \cup {r} ELSE severed
  /\ UNCHANGED <<rows, chain_heads, signer, entry, seq, begun, restarts, overlapped>>

appending(r) == {w \in Writer : RunOf[w] = r /\ pc[w] \in {"sequence", "insert", "head"}}

\* The entry is linked to the head the process knows, hashed and signed.
Link(w) ==
  LET r == RunOf[w]
      linked == [id |-> begun + 1, run_id |-> r, body |-> "body",
                 prev_hash |-> IF r \in DOMAIN chain_heads THEN chain_heads[r] ELSE ZeroHash]
      hash == compute_content_hash(linked)
  IN
  /\ pc[w] = "idle" /\ begun < MaxEntries
  /\ begun' = begun + 1
  /\ entry' = [entry EXCEPT ![w] =
                 [id |-> linked.id, run_id |-> r, body |-> linked.body,
                  prev_hash |-> linked.prev_hash, content_hash |-> hash,
                  signature |-> sign(signer[r], hash)]]
  /\ pc' = [pc EXCEPT ![w] = "sequence"]
  /\ overlapped' = IF appending(r) # {} THEN overlapped \cup {r} ELSE overlapped
  /\ UNCHANGED <<rows, public_key, chain_heads, signer, seq, restarts, severed>>

\* A query that fails ends the append with an error.
Fail(w) ==
  /\ pc' = [pc EXCEPT ![w] = "idle"]
  /\ entry' = [entry EXCEPT ![w] = NoEntry]
  /\ seq' = [seq EXCEPT ![w] = 0]

\* The scrubber finds a secret in a field and panics: nothing is linked, and the task
\* is gone until the process starts again.
scrub_or_panic(w) ==
  /\ pc[w] = "idle" /\ begun < MaxEntries
  /\ begun' = begun + 1
  /\ pc' = [pc EXCEPT ![w] = "panicked"]
  /\ UNCHANGED <<rows, public_key, chain_heads, signer, entry, seq, restarts, overlapped,
                 severed>>

ReadSeq(w) ==
  /\ pc[w] = "sequence"
  /\ \/ /\ seq' = [seq EXCEPT ![w] = next_seq(RunOf[w])]
        /\ pc' = [pc EXCEPT ![w] = "insert"]
        /\ UNCHANGED entry
     \/ Fail(w)
  /\ UNCHANGED <<rows, public_key, chain_heads, signer, begun, restarts, overlapped, severed>>

\* A variant with a bug: an INSERT that failed is taken for one that did not.
InsertErrorIgnored(w) ==
  /\ pc[w] = "insert"
  /\ rows' \in {rows, Append(rows, [entry |-> entry[w], seq |-> seq[w]])}
  /\ pc' = [pc EXCEPT ![w] = "head"]
  /\ UNCHANGED <<public_key, chain_heads, signer, entry, seq, begun, restarts, overlapped, severed>>

Insert(w) ==
  /\ pc[w] = "insert"
  /\ \/ /\ rows' = Append(rows, [entry |-> entry[w], seq |-> seq[w]])
        /\ pc' = [pc EXCEPT ![w] = "head"]
        /\ UNCHANGED <<entry, seq>>
     \/ Fail(w) /\ UNCHANGED rows
  /\ UNCHANGED <<public_key, chain_heads, signer, begun, restarts, overlapped, severed>>

AdvanceHead(w) ==
  LET r == RunOf[w] IN
  /\ pc[w] = "head"
  /\ chain_heads' = [x \in DOMAIN chain_heads \cup {r} |->
                       IF x = r THEN entry[w].content_hash ELSE chain_heads[x]]
  /\ pc' = [pc EXCEPT ![w] = "idle"]
  /\ entry' = [entry EXCEPT ![w] = NoEntry]
  /\ seq' = [seq EXCEPT ![w] = 0]
  /\ UNCHANGED <<rows, public_key, signer, begun, restarts, overlapped, severed>>

\* The process ends, at any point, and starts again on the same file. A run is
\* continued with its seed (SessionSigner::from_seed) or with a new key.
Restart ==
  /\ restarts < MaxRestarts
  /\ restarts' = restarts + 1
  /\ chain_heads' = [r \in {} |-> ZeroHash]
  /\ signer' \in [Run -> Key]
  /\ pc' = [w \in Writer |-> "new"]
  /\ entry' = [w \in Writer |-> NoEntry]
  /\ seq' = [w \in Writer |-> 0]
  /\ severed' = severed \cup {r \in Run : rows_of(r) # {}}
  /\ UNCHANGED <<rows, public_key, begun, overlapped>>

Next ==
  \/ \E w \in Writer : Register(w) \/ scrub_or_panic(w) \/ Link(w) \/ ReadSeq(w) \/ Insert(w)
                         \/ AdvanceHead(w)
  \/ Restart

Spec == Init /\ [][Next]_vars

----------------------------------------------------------------------------
\* The types of the variables; sequence numbers start at 1.
TypeOK ==
  /\ \A i \in DOMAIN rows : rows[i].seq \in 1 .. MaxEntries /\ rows[i].entry.run_id \in Run
  /\ public_key \in [Run -> Key \cup {NoKey}]
  /\ DOMAIN chain_heads \subseteq Run
  /\ signer \in [Run -> Key]
  /\ pc \in [Writer -> {"new", "idle", "sequence", "insert", "head", "panicked"}]
  /\ seq \in [Writer -> 0 .. MaxEntries]
  /\ \A w \in Writer : (entry[w] = NoEntry) <=> (pc[w] \in {"new", "idle", "panicked"})
  /\ begun \in 0 .. MaxEntries /\ restarts \in 0 .. MaxRestarts
  /\ overlapped \subseteq Run /\ severed \subseteq Run

verdict(r) == verify_chain(export(r), get_verify_key(r))

\* A run one task at a time appends to, in one life of the process, verifies at every
\* moment: queries that fail, appends to other runs and restarts before its first
\* entry leave no break in its chain.
UndisturbedChainVerifies ==
  \A r \in Run : public_key[r] # NoKey /\ r \notin overlapped \cup severed => verdict(r) = "Ok"

\* Appends that overlapped far enough to link to one entry, or to draw one number, do
\* not pass verification: the race may break a chain, it cannot go unnoticed.
RaceIsDetected ==
  \A r \in Run : \A i, j \in rows_of(r) :
    /\ i < j
    /\ \/ rows[i].seq = rows[j].seq
       \/ rows[i].entry.prev_hash = rows[j].entry.prev_hash
    => verdict(r) # "Ok"

without(s, k) == SubSeq(s, 1, k - 1) \o SubSeq(s, k + 1, Len(s))

rehashed(e) == [e EXCEPT !.content_hash = compute_content_hash(e)]

\* As it is, or with one entry hashed anew.
rehashings(s) == {s} \cup {[s EXCEPT ![k] = rehashed(s[k])] : k \in DOMAIN s}

\* What an exported run may be turned into without the key: one body changed, and
\* hashed anew or not; an entry dropped and its follower linked over the gap, and
\* hashed anew or not; two entries exchanged.
altered(s) ==
  LET changed == {[s EXCEPT ![k].body = "other"] : k \in DOMAIN s}
      dropped == {[without(s, k) EXCEPT ![k].prev_hash = s[k].prev_hash] : k \in 1 .. Len(s) - 1}
      swapped == {[s EXCEPT ![k] = s[k + 1], ![k + 1] = s[k]] : k \in 1 .. Len(s) - 1}
  IN  swapped \cup UNION {rehashings(t) : t \in changed \cup dropped}

\* A chain that verifies stops verifying when any entry but the newest is lost, or any
\* is changed or moved: only a shortened tail passes.
TamperEvident ==
  \A r \in Run : verdict(r) = "Ok" =>
    \A s \in altered(export(r)) : verify_chain(s, get_verify_key(r)) # "Ok"

----------------------------------------------------------------------------
\* The log of a run is chain-verified, says the constitution, and a run may be
\* continued with its seed after a restart, says signer.rs: while no append is under
\* way, no link of it is broken.
ExportedChainUnbroken ==
  \A r \in Run : public_key[r] # NoKey /\ appending(r) = {} => verdict(r) # "ChainBroken"
=============================================================================

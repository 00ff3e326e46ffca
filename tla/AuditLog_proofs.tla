--------------------------- MODULE AuditLog_proofs ---------------------------
(***************************************************************************)
(* For every set of tasks, runs, keys and lives of the process: a run that *)
(* one task at a time has appended to in one life verifies; an entry linked*)
(* to, or a number drawn, twice is noticed; and whatever verifies does so  *)
(* no more once altered.                                                   *)
(***************************************************************************)
EXTENDS AuditLog, FiniteSetTheorems, WellFoundedInduction, TLAPS

Busy(w) == pc[w] \in {"sequence", "insert", "head"}

EntryFields == {"id", "run_id", "body", "prev_hash", "content_hash", "signature"}

\* An entry has an id of its own and is hashed as it stands.
Sealed(e) ==
  /\ DOMAIN e = EntryFields
  /\ e.id \in 1 .. begun /\ e.run_id \in Run /\ e.body = "body"
  /\ e.content_hash = compute_content_hash(e)

\* It begins a chain, or goes on from a row of its run that is there.
Linked(e) ==
  \/ e.prev_hash = ZeroHash
  \/ \E i \in DOMAIN rows : /\ rows[i].entry.run_id = e.run_id
                            /\ rows[i].entry.content_hash = e.prev_hash

Types ==
  /\ rows \in Seq({rows[i] : i \in DOMAIN rows})
  /\ public_key \in [Run -> Key \cup {NoKey}] /\ signer \in [Run -> Key]
  /\ DOMAIN chain_heads \subseteq Run
  /\ pc \in [Writer -> {"new", "idle", "sequence", "insert", "head", "panicked"}]
  /\ entry = [w \in Writer |-> entry[w]] /\ seq \in [Writer -> Nat]
  /\ begun \in Nat

RowsAreSealed ==
  \A i \in DOMAIN rows :
    /\ Sealed(rows[i].entry) /\ Linked(rows[i].entry) /\ rows[i].seq \in 1 .. i
    /\ \A j \in DOMAIN rows : rows[i].entry.id = rows[j].entry.id => i = j

\* An entry is nobody else's, and in a row only behind its insertion.
FlightsAreSealed ==
  \A w \in Writer :
    /\ Busy(w) => /\ Sealed(entry[w]) /\ Linked(entry[w]) /\ entry[w].run_id = RunOf[w]
                  /\ \A v \in Writer : Busy(v) /\ entry[v].id = entry[w].id => v = w
    /\ pc[w] \in {"sequence", "insert"} =>
         \A i \in DOMAIN rows : rows[i].entry.id # entry[w].id
    /\ pc[w] = "head" => \E i \in DOMAIN rows : rows[i].entry = entry[w]

HeadsAreRows ==
  \A r \in DOMAIN chain_heads :
    \E i \in rows_of(r) : chain_heads[r] = rows[i].entry.content_hash

\* A number is read behind the head it goes with: a link leads to a lower one.
LinksAscend ==
  /\ \A w \in Writer : pc[w] = "insert" =>
       /\ seq[w] \in 1 .. Len(rows) + 1
       /\ \A i \in DOMAIN rows :
            rows[i].entry.content_hash = entry[w].prev_hash => rows[i].seq < seq[w]
  /\ \A i, j \in DOMAIN rows :
       rows[j].entry.prev_hash = rows[i].entry.content_hash => rows[i].seq < rows[j].seq

ChainInv == Types /\ RowsAreSealed /\ FlightsAreSealed /\ HeadsAreRows /\ LinksAscend

----------------------------------------------------------------------------
(* The order of an export *)

\* Row j comes before row i.
Before(j, i) == \/ rows[j].seq < rows[i].seq
                \/ rows[j].seq = rows[i].seq /\ j < i

Place(r, i) == Cardinality({j \in rows_of(r) : Before(j, i)})

\* The rows of a run are numbers with numbers.
LEMMA RowsOfRun ==
  ASSUME Types, RowsAreSealed, NEW r \in Run
  PROVE  /\ IsFiniteSet(rows_of(r)) /\ rows_of(r) \subseteq Nat \ {0}
         /\ \A i \in rows_of(r) : i \in DOMAIN rows /\ rows[i].seq \in Nat \ {0}
<1>1. DOMAIN rows = 1 .. Len(rows) /\ Len(rows) \in Nat
  <2>. DEFINE S == {rows[i] : i \in DOMAIN rows}
  <2>1. rows \in Seq(S)
    BY DEF Types
  <2>. HIDE DEF S
  <2>. QED BY <2>1
<1>2. rows_of(r) \in SUBSET (1 .. Len(rows))
  BY <1>1 DEF rows_of
<1>3. IsFiniteSet(1 .. Len(rows))
  BY <1>1, FS_Interval
<1>4. \A i \in DOMAIN rows : rows[i].seq \in Nat \ {0}
  BY <1>1 DEF RowsAreSealed
<1>. QED BY <1>1, <1>2, <1>3, <1>4, FS_Subset

\* A row that comes before another has a lower place, and the places are those of the run.
LEMMA PlaceGrows ==
  ASSUME Types, RowsAreSealed, NEW r \in Run, NEW j \in rows_of(r)
  PROVE  /\ Place(r, j) \in 0 .. Cardinality(rows_of(r)) - 1
         /\ \A i \in rows_of(r) : Before(i, j) => Place(r, i) < Place(r, j)
<1>. DEFINE R == rows_of(r)
            B(i) == {x \in R : Before(x, i)}
<1>1. IsFiniteSet(R) /\ \A i \in R : i \in Nat /\ rows[i].seq \in Nat
  BY RowsOfRun
<1>. HIDE DEF R
<1>2. ASSUME NEW i \in R
      PROVE  /\ IsFiniteSet(B(i)) /\ Cardinality(B(i)) \in Nat
             /\ Cardinality(B(i) \cup {i}) = Cardinality(B(i)) + 1
             /\ B(i) \cup {i} \in SUBSET R
  <2>1. IsFiniteSet(B(i))
    BY <1>1, FS_Subset
  <2>2. i \notin B(i)
    BY <1>1 DEF Before
  <2>3. Cardinality(B(i)) \in Nat
    BY <2>1, FS_CardinalityType
  <2>4. Cardinality(B(i) \cup {i}) = Cardinality(B(i)) + 1
    BY <2>1, <2>2, FS_AddElement
  <2>. QED BY <2>1, <2>3, <2>4
<1>3. j \in R
  BY DEF R
<1>4. Place(r, j) \in 0 .. Cardinality(R) - 1
  <2>1. Cardinality(B(j) \cup {j}) <= Cardinality(R) /\ Cardinality(R) \in Nat
    BY <1>1, <1>2, <1>3, FS_Subset, FS_CardinalityType
  <2>2. Place(r, j) = Cardinality(B(j))
    BY DEF Place, R
  <2>3. Cardinality(B(j)) \in Nat /\ Cardinality(B(j) \cup {j}) = Cardinality(B(j)) + 1
    BY <1>2, <1>3
  <2>. DEFINE b == Cardinality(B(j))
              n == Cardinality(R)
              c == Cardinality(B(j) \cup {j})
  <2>4. b \in 0 .. n - 1
    <3>1. b \in Nat /\ c = b + 1 /\ c <= n /\ n \in Nat
      BY <2>1, <2>3
    <3>. HIDE DEF b, n, c
    <3>. QED BY <3>1
  <2>. QED BY <2>2, <2>4
<1>5. ASSUME NEW i \in R, Before(i, j) PROVE Place(r, i) < Place(r, j)
  <2>1. B(i) \cup {i} \in SUBSET B(j)
    BY <1>1, <1>3, <1>5 DEF Before
  <2>2. Cardinality(B(i) \cup {i}) <= Cardinality(B(j))
    BY <1>2, <1>3, <2>1, FS_Subset
  <2>3. Place(r, i) = Cardinality(B(i)) /\ Place(r, j) = Cardinality(B(j))
    BY DEF Place, R
  <2>4. /\ Cardinality(B(i)) \in Nat /\ Cardinality(B(j)) \in Nat
        /\ Cardinality(B(i) \cup {i}) = Cardinality(B(i)) + 1
    BY <1>2, <1>3
  <2>. DEFINE b == Cardinality(B(i))
              n == Cardinality(B(j))
              c == Cardinality(B(i) \cup {i})
  <2>5. b < n
    <3>1. b \in Nat /\ c = b + 1 /\ c <= n /\ n \in Nat
      BY <2>2, <2>4
    <3>. HIDE DEF b, n, c
    <3>. QED BY <3>1
  <2>. QED BY <2>3, <2>5
<1>. QED BY <1>4, <1>5 DEF R

\* No two rows have one place.
LEMMA PlacesDiffer ==
  ASSUME Types, RowsAreSealed, NEW r \in Run, NEW i \in rows_of(r), NEW j \in rows_of(r),
         Place(r, i) = Place(r, j)
  PROVE  i = j
<1>1. i \in Nat /\ j \in Nat /\ rows[i].seq \in Nat /\ rows[j].seq \in Nat
  BY RowsOfRun
<1>2. Place(r, i) \in Int /\ Place(r, j) \in Int
  BY PlaceGrows
<1>3. ~Before(i, j) /\ ~Before(j, i)
  BY <1>2, PlaceGrows
<1>. QED BY <1>1, <1>3 DEF Before

\* Every place is taken.
LEMMA PlacesAreTaken ==
  ASSUME Types, RowsAreSealed, NEW r \in Run, NEW k \in 0 .. Cardinality(rows_of(r)) - 1
  PROVE  \E i \in rows_of(r) : Place(r, i) = k
<1>. DEFINE R == rows_of(r)
            n == Cardinality(R)
            T == 0 .. n - 1
            f == [i \in R |-> Place(r, i)]
<1>. SUFFICES ASSUME \A i \in R : Place(r, i) # k PROVE FALSE
  OBVIOUS
<1>1. IsFiniteSet(R) /\ n \in Nat
  BY RowsOfRun, FS_CardinalityType
<1>2. \A i \in R : Place(r, i) \in T
  BY PlaceGrows
<1>3. \A i, j \in R : Place(r, i) = Place(r, j) => i = j
  BY PlacesDiffer
<1>. HIDE DEF R, n
<1>4. IsFiniteSet(T) /\ Cardinality(T) = n
  BY <1>1, FS_Interval
<1>5. k \in T
  BY DEF n, R
<1>. HIDE DEF T
<1>6. IsFiniteSet(T \ {k}) /\ Cardinality(T \ {k}) = n - 1
  BY <1>4, <1>5, FS_RemoveElement
<1>7. f \in [R -> T \ {k}]
  BY <1>2
<1>8. Cardinality(T \ {k}) < Cardinality(R)
  BY <1>1, <1>6 DEF n
<1>. HIDE DEF f
<1>9. \E x, y \in R : x # y /\ f[x] = f[y]
  BY <1>1, <1>6, <1>7, <1>8, FS_PigeonHole
<1>. QED BY <1>3, <1>9 DEF f

\* What is exported: the entry of each row, at its place.
LEMMA Exported ==
  ASSUME Types, RowsAreSealed, NEW r \in Run
  PROVE  /\ DOMAIN export(r) = 1 .. Cardinality(rows_of(r)) /\ Cardinality(rows_of(r)) \in Nat
         /\ \A i \in rows_of(r) : /\ Place(r, i) + 1 \in DOMAIN export(r)
                                  /\ export(r)[Place(r, i) + 1] = rows[i].entry
         /\ \A k \in DOMAIN export(r) : \E i \in rows_of(r) : Place(r, i) = k - 1
<1>. DEFINE R == rows_of(r)
            n == Cardinality(R)
            At(k) == CHOOSE i \in R : Place(r, i) = k - 1
<1>1. export(r) = [k \in 1 .. n |-> rows[At(k)].entry]
  BY DEF export, Place, Before
<1>2. n \in Nat
  BY RowsOfRun, FS_CardinalityType
<1>3. ASSUME NEW i \in R
      PROVE  /\ Place(r, i) + 1 \in 1 .. n
             /\ export(r)[Place(r, i) + 1] = rows[i].entry
  <2>. DEFINE k == Place(r, i) + 1
  <2>1. Place(r, i) \in 0 .. n - 1
    BY PlaceGrows
  <2>2. k \in 1 .. n /\ Place(r, i) = k - 1
    <3>. HIDE DEF n
    <3>. QED BY <1>2, <2>1
  <2>3. At(k) \in R /\ Place(r, At(k)) = k - 1
    <3>. HIDE DEF k, R
    <3>. QED BY <2>2
  <2>4. At(k) = i
    <3>. HIDE DEF At, k
    <3>. QED BY <2>2, <2>3, PlacesDiffer
  <2>. HIDE DEF At, n, k
  <2>5. export(r)[k] = rows[At(k)].entry
    BY <1>1, <2>2
  <2>. QED BY <2>2, <2>4, <2>5 DEF k
<1>4. ASSUME NEW k \in 1 .. n PROVE \E i \in R : Place(r, i) = k - 1
  <2>1. k - 1 \in 0 .. n - 1
    <3>. HIDE DEF n
    <3>. QED BY <1>2
  <2>. QED BY <2>1, PlacesAreTaken
<1>5. DOMAIN export(r) = 1 .. n
  BY <1>1
<1>. QED BY <1>2, <1>3, <1>4, <1>5

----------------------------------------------------------------------------
(* The links of a chain, whoever writes it *)

\* The least of some numbers.
LEMMA LeastOf ==
  ASSUME NEW S \in SUBSET Nat, S # {}
  PROVE  \E m \in S : \A k \in S : m <= k
<1>. DEFINE R == OpToRel(<, Nat)
<1>1. IsWellFoundedOn(R, Nat)
  BY NatLessThanWellFounded
<1>2. PICK m \in S : \A k \in S : ~(<<k, m>> \in R)
  <2>. HIDE DEF R
  <2>1. S \subseteq Nat /\ S # {}
    OBVIOUS
  <2>. QED BY <1>1, <2>1, WFMin
<1>3. R = {p \in Nat \X Nat : p[1] < p[2]}
  BY DEF OpToRel
<1>4. \A k \in S : k < m => <<k, m>> \in R
  <2>. HIDE DEF R
  <2>. QED BY <1>3
<1>. HIDE DEF R
<1>5. \A k \in S : ~(k < m) /\ k \in Nat /\ m \in Nat
  BY <1>2, <1>4
<1>6. \A k \in S : m <= k
  BY <1>5
<1>. QED BY <1>6

\* A row more is the last, and the ones before it stay.
LEMMA Appended ==
  ASSUME NEW S, NEW s \in Seq(S), NEW x
  PROVE  LET t == Append(s, x)
         IN  /\ DOMAIN t = 1 .. Len(s) + 1 /\ Len(t) = Len(s) + 1
             /\ DOMAIN s = 1 .. Len(s) /\ Len(s) \in Nat
             /\ \A i \in 1 .. Len(s) : t[i] = s[i]
             /\ t[Len(s) + 1] = x
             /\ t \in Seq({t[i] : i \in DOMAIN t})
<1>. DEFINE T == S \cup {x}
            t == Append(s, x)
            n == Len(s)
<1>1. s \in Seq(T) /\ x \in T
  OBVIOUS
<1>. HIDE DEF T
<1>2. /\ t \in Seq(T) /\ Len(t) = n + 1 /\ DOMAIN t = 1 .. n + 1 /\ n \in Nat
      /\ DOMAIN s = 1 .. n /\ t[n + 1] = x /\ \A i \in 1 .. n : t[i] = s[i]
  BY <1>1
<1>. HIDE DEF t, n
<1>3. t \in Seq({t[i] : i \in DOMAIN t})
  BY <1>2
<1>. QED BY <1>2, <1>3 DEF t, n

\* A hash tells entries with different ids apart, and from the beginning of a chain.
LEMMA HashesDiffer ==
  ASSUME NEW e
  PROVE  /\ compute_content_hash(e) # ZeroHash
         /\ \A g : compute_content_hash(e) = compute_content_hash(g) =>
              e.id = g.id /\ e.run_id = g.run_id /\ e.body = g.body /\ e.prev_hash = g.prev_hash
<1>1. compute_content_hash(e) # ZeroHash
  <2>1. "id" \in DOMAIN compute_content_hash(e)
    BY DEF compute_content_hash
  <2>2. DOMAIN ZeroHash = {}
    BY DEF ZeroHash
  <2>. QED BY <2>1, <2>2
<1>2. ASSUME NEW g
      PROVE  LET h == compute_content_hash(g)
             IN  h.id = g.id /\ h.run = g.run_id /\ h.body = g.body /\ h.prev_hash = g.prev_hash
  BY DEF compute_content_hash
<1>. QED BY <1>1, <1>2

\* Nothing is linked to an entry that is not inserted yet.
LEMMA UnlinkedYet ==
  ASSUME ChainInv, NEW w \in Writer, pc[w] \in {"sequence", "insert"}, NEW e, Linked(e)
  PROVE  e.prev_hash # entry[w].content_hash
<1>1. entry[w].content_hash = compute_content_hash(entry[w])
  BY DEF ChainInv, FlightsAreSealed, Busy, Sealed
<1>2. CASE e.prev_hash = ZeroHash
  BY <1>1, <1>2, HashesDiffer
<1>3. ASSUME NEW i \in DOMAIN rows, rows[i].entry.content_hash = e.prev_hash
      PROVE  e.prev_hash # entry[w].content_hash
  <2>1. rows[i].entry.content_hash = compute_content_hash(rows[i].entry)
    BY DEF ChainInv, RowsAreSealed, Sealed
  <2>2. rows[i].entry.id # entry[w].id
    BY DEF ChainInv, FlightsAreSealed
  <2>. QED BY <1>1, <1>3, <2>1, <2>2, HashesDiffer
<1>. QED BY <1>2, <1>3 DEF Linked

\* The number read is above those of the run, and not above the number of rows.
LEMMA NextSeqAbove ==
  ASSUME ChainInv, NEW r \in Run
  PROVE  /\ next_seq(r) \in 1 .. Len(rows) + 1
         /\ \A i \in rows_of(r) : rows[i].seq < next_seq(r)
<1>. DEFINE R == rows_of(r)
            N == {1} \cup {rows[i].seq + 1 : i \in R}
            Above == {n \in Nat \ {0} : \A i \in R : rows[i].seq < n}
            most == Len(rows) + 1
<1>1. /\ R \subseteq DOMAIN rows /\ DOMAIN rows = 1 .. Len(rows) /\ Len(rows) \in Nat
      /\ \A i \in R : rows[i].seq \in 1 .. i
  <2>1. R \subseteq DOMAIN rows
    BY DEF rows_of
  <2>2. DOMAIN rows = 1 .. Len(rows) /\ Len(rows) \in Nat
    <3>. DEFINE S == {rows[i] : i \in DOMAIN rows}
    <3>1. rows \in Seq(S)
      BY DEF ChainInv, Types
    <3>. HIDE DEF S
    <3>. QED BY <3>1
  <2>. QED BY <2>1, <2>2 DEF ChainInv, RowsAreSealed
<1>. HIDE DEF R
<1>2. most \in Above
  BY <1>1
<1>3. PICK n \in Above : \A k \in Above : n <= k
  <2>1. Above \in SUBSET Nat /\ Above # {}
    BY <1>2
  <2>. HIDE DEF Above
  <2>. QED BY <2>1, LeastOf
<1>4. n \in N
  <2>1. CASE n = 1
    BY <2>1
  <2>2. CASE n # 1
    <3>1. n - 1 \notin Above /\ n - 1 \in Nat \ {0}
      BY <1>3, <2>2
    <3>2. PICK i \in R : ~(rows[i].seq < n - 1)
      BY <3>1
    <3>3. rows[i].seq < n /\ rows[i].seq \in Nat /\ n \in Nat
      BY <1>1, <1>3, <3>2
    <3>4. n = rows[i].seq + 1
      BY <3>2, <3>3
    <3>. QED BY <3>2, <3>4
  <2>. QED BY <2>1, <2>2
<1>. DEFINE Fits(k) == \A i \in R : rows[i].seq < k
<1>5. next_seq(r) = CHOOSE k \in N : Fits(k)
  BY DEF next_seq, R
<1>6. next_seq(r) \in N /\ Fits(next_seq(r))
  <2>1. n \in N /\ Fits(n)
    BY <1>3, <1>4
  <2>. HIDE DEF N, Fits
  <2>. QED BY <1>5, <2>1
<1>7. next_seq(r) \in 1 .. Len(rows) + 1
  BY <1>1, <1>6
<1>. QED BY <1>6, <1>7 DEF R

\* The initial state has no chain.
LEMMA InitChain == Init => ChainInv
<1>. SUFFICES ASSUME Init PROVE ChainInv
  OBVIOUS
<1>1. DOMAIN rows = {} /\ rows \in Seq({rows[i] : i \in DOMAIN rows})
  BY DEF Init
<1>2. Types
  BY <1>1 DEF Init, Types
<1>3. RowsAreSealed /\ FlightsAreSealed
  BY <1>1 DEF Init, RowsAreSealed, FlightsAreSealed, Busy
<1>4. HeadsAreRows
  BY DEF Init, HeadsAreRows
<1>5. LinksAscend
  BY <1>1 DEF Init, LinksAscend
<1>. QED BY <1>2, <1>3, <1>4, <1>5 DEF ChainInv

\* A step that begins no append and inserts nothing keeps what rows and appends are.
LEMMA QuieterKeepsSealed ==
  ASSUME ChainInv, rows' = rows, begun' \in Nat, begun <= begun',
         \A v \in Writer : Busy(v)' => /\ pc'[v] = pc[v] /\ entry'[v] = entry[v]
                                       /\ seq'[v] = seq[v]
  PROVE  RowsAreSealed' /\ FlightsAreSealed' /\ LinksAscend'
<1>1. begun \in Nat
  BY DEF ChainInv, Types
<1>2. ASSUME NEW e, Sealed(e) PROVE Sealed(e)'
  BY <1>1, <1>2 DEF Sealed
<1>3. ASSUME NEW e, Linked(e) PROVE Linked(e)'
  BY <1>3 DEF Linked
<1>4. RowsAreSealed'
  <2>1. ASSUME NEW i \in DOMAIN rows PROVE Sealed(rows[i].entry)' /\ Linked(rows[i].entry)'
    <3>1. PICK e : e = rows[i].entry
      OBVIOUS
    <3>2. Sealed(e)' /\ Linked(e)'
      BY <1>2, <1>3, <3>1 DEF ChainInv, RowsAreSealed
    <3>. QED BY <3>1, <3>2 DEF Sealed, Linked
  <2>. QED BY <2>1 DEF ChainInv, RowsAreSealed
<1>5. FlightsAreSealed'
  <2>1. ASSUME NEW w \in Writer, Busy(w)'
        PROVE  /\ Busy(w) /\ Sealed(entry[w])' /\ Linked(entry[w])'
               /\ entry'[w] = entry[w] /\ pc'[w] = pc[w]
    <3>1. entry'[w] = entry[w] /\ pc'[w] = pc[w] /\ Busy(w)
      BY <2>1 DEF Busy
    <3>2. PICK e : e = entry[w]
      OBVIOUS
    <3>3. Sealed(e)' /\ Linked(e)'
      BY <1>2, <1>3, <3>1, <3>2 DEF ChainInv, FlightsAreSealed
    <3>. QED BY <3>1, <3>2, <3>3 DEF Sealed, Linked
  <2>2. ASSUME NEW w \in Writer, pc'[w] \in {"sequence", "insert", "head"} PROVE Busy(w)'
    BY <2>2 DEF Busy
  <2>. QED BY <2>1, <2>2 DEF ChainInv, FlightsAreSealed
<1>6. LinksAscend'
  <2>1. ASSUME NEW w \in Writer, pc'[w] = "insert"
        PROVE  pc[w] = "insert" /\ entry'[w] = entry[w] /\ seq'[w] = seq[w]
    BY <2>1 DEF Busy
  <2>. QED BY <2>1 DEF ChainInv, LinksAscend
<1>. QED BY <1>4, <1>5, <1>6

\* The entry that Link makes: a new id, and the head the process knows.
LEMMA LinkKeepsChain ==
  ASSUME AuditConstants, ChainInv, NEW w \in Writer, Link(w)
  PROVE  ChainInv'
<1>. DEFINE r == RunOf[w]
<1>1. PICK e : e = entry'[w]
  OBVIOUS
<1>2. /\ rows' = rows /\ chain_heads' = chain_heads /\ seq' = seq /\ begun' = begun + 1
      /\ public_key' = public_key /\ signer' = signer
      /\ pc[w] = "idle" /\ pc' = [pc EXCEPT ![w] = "sequence"]
      /\ \E x : entry' = [entry EXCEPT ![w] = x]
  BY DEF Link
<1>3. r \in Run /\ begun \in Nat /\ entry = [v \in Writer |-> entry[v]]
      /\ pc \in [Writer -> {"new", "idle", "sequence", "insert", "head", "panicked"}]
  BY AuditConstants DEF ChainInv, Types
<1>4. /\ \A v \in Writer : v # w => pc'[v] = pc[v] /\ entry'[v] = entry[v]
      /\ pc'[w] = "sequence"
      /\ entry' = [v \in Writer |-> entry'[v]]
      /\ pc' \in [Writer -> {"new", "idle", "sequence", "insert", "head", "panicked"}]
  BY <1>2, <1>3
<1>5. Types'
  BY <1>2, <1>3, <1>4 DEF ChainInv, Types
<1>. DEFINE head == IF r \in DOMAIN chain_heads THEN chain_heads[r] ELSE ZeroHash
            linked == [id |-> begun + 1, run_id |-> r, body |-> "body", prev_hash |-> head]
            hash == compute_content_hash(linked)
<1>6. e = [id |-> begun + 1, run_id |-> r, body |-> "body", prev_hash |-> head,
           content_hash |-> hash, signature |-> sign(signer[r], hash)]
  BY <1>1, <1>3 DEF Link
<1>7. /\ DOMAIN e = EntryFields /\ e.id = begun + 1 /\ e.run_id = r /\ e.body = "body"
      /\ e.prev_hash = head /\ e.content_hash = compute_content_hash(e)
  <2>1. compute_content_hash(e) = hash
    BY <1>6 DEF compute_content_hash
  <2>. HIDE DEF hash, head
  <2>2. DOMAIN e = {"id", "run_id", "body", "prev_hash", "content_hash", "signature"}
    BY <1>6
  <2>3. e.id = begun + 1 /\ e.run_id = r /\ e.body = "body"
    BY <1>6
  <2>4. e.prev_hash = head /\ e.content_hash = hash
    BY <1>6
  <2>. QED BY <2>1, <2>2, <2>3, <2>4 DEF EntryFields
<1>. HIDE DEF hash, head
<1>8. Sealed(e)'
  BY <1>2, <1>3, <1>7 DEF Sealed
<1>9. Linked(e)'
  <2>1. CASE r \in DOMAIN chain_heads
    <3>1. PICK i \in rows_of(r) : chain_heads[r] = rows[i].entry.content_hash
      BY <2>1 DEF ChainInv, HeadsAreRows
    <3>2. i \in DOMAIN rows /\ rows[i].entry.run_id = e.run_id
            /\ rows[i].entry.content_hash = e.prev_hash
      BY <1>7, <2>1, <3>1 DEF rows_of, head
    <3>. QED BY <1>2, <3>2 DEF Linked
  <2>2. CASE r \notin DOMAIN chain_heads
    <3>1. e.prev_hash = ZeroHash
      BY <1>7, <2>2 DEF head
    <3>. QED BY <3>1 DEF Linked
  <2>. QED BY <2>1, <2>2
<1>10. ASSUME NEW g, Sealed(g) PROVE Sealed(g)' /\ g.id # begun + 1
  BY <1>2, <1>3, <1>10 DEF Sealed
<1>11. ASSUME NEW g, Linked(g) PROVE Linked(g)'
  BY <1>2, <1>11 DEF Linked
<1>12. RowsAreSealed'
  <2>1. ASSUME NEW i \in DOMAIN rows PROVE Sealed(rows[i].entry)' /\ Linked(rows[i].entry)'
    <3>1. PICK g : g = rows[i].entry
      OBVIOUS
    <3>2. Sealed(g)' /\ Linked(g)'
      BY <1>10, <1>11, <3>1 DEF ChainInv, RowsAreSealed
    <3>. QED BY <1>2, <3>1, <3>2 DEF Sealed, Linked
  <2>. QED BY <1>2, <2>1 DEF ChainInv, RowsAreSealed
<1>13. FlightsAreSealed'
  <2>1. ASSUME NEW v \in Writer, v # w, Busy(v)
        PROVE  Sealed(entry[v])' /\ Linked(entry[v])' /\ entry[v].id # begun + 1
    <3>1. PICK g : g = entry[v]
      OBVIOUS
    <3>2. Sealed(g)' /\ Linked(g)' /\ g.id # begun + 1
      BY <1>10, <1>11, <2>1, <3>1 DEF ChainInv, FlightsAreSealed
    <3>. QED BY <1>2, <1>4, <2>1, <3>1, <3>2 DEF Sealed, Linked
  <2>2. \A i \in DOMAIN rows : rows[i].entry.id # begun + 1
    <3>1. ASSUME NEW i \in DOMAIN rows PROVE rows[i].entry.id # begun + 1
      BY <1>10 DEF ChainInv, RowsAreSealed
    <3>. QED BY <3>1
  <2>3. \A v \in Writer : v # w /\ Busy(v)' => Busy(v)
    BY <1>4 DEF Busy
  <2>4. ASSUME NEW v \in Writer, v # w
        PROVE  /\ Busy(v)' => /\ Sealed(entry[v])' /\ Linked(entry[v])' /\ entry'[v].run_id = RunOf[v]
                              /\ \A u \in Writer : Busy(u)' /\ entry'[u].id = entry'[v].id => u = v
               /\ pc'[v] \in {"sequence", "insert"} =>
                    \A i \in DOMAIN rows' : rows'[i].entry.id # entry'[v].id
               /\ pc'[v] = "head" => \E i \in DOMAIN rows' : rows'[i].entry = entry'[v]
    <3>1. entry'[v] = entry[v] /\ pc'[v] = pc[v]
      BY <1>4, <2>4
    <3>2. Busy(v)' => \A u \in Writer : Busy(u)' /\ entry'[u].id = entry'[v].id => u = v
      BY <1>1, <1>4, <1>7, <2>1, <2>3, <2>4, <3>1 DEF ChainInv, FlightsAreSealed
    <3>3. Busy(v)' => entry'[v].run_id = RunOf[v]
      BY <2>3, <2>4, <3>1 DEF ChainInv, FlightsAreSealed
    <3>4. Busy(v)' => Sealed(entry[v])' /\ Linked(entry[v])'
      BY <2>1, <2>3, <2>4
    <3>. QED BY <1>2, <2>4, <3>1, <3>2, <3>3, <3>4 DEF ChainInv, FlightsAreSealed
  <2>5. /\ Sealed(entry[w])' /\ Linked(entry[w])' /\ entry'[w].run_id = RunOf[w]
        /\ \A u \in Writer : Busy(u)' /\ entry'[u].id = entry'[w].id => u = w
        /\ \A i \in DOMAIN rows' : rows'[i].entry.id # entry'[w].id
        /\ pc'[w] # "head"
    <3>1. Sealed(entry[w])' /\ Linked(entry[w])' /\ entry'[w].run_id = RunOf[w]
      BY <1>1, <1>7, <1>8, <1>9 DEF Sealed, Linked
    <3>2. \A u \in Writer : Busy(u)' /\ entry'[u].id = entry'[w].id => u = w
      BY <1>1, <1>4, <1>7, <2>1, <2>3
    <3>. QED BY <1>1, <1>2, <1>4, <1>7, <2>2, <3>1, <3>2
  <2>. QED BY <2>4, <2>5 DEF FlightsAreSealed
<1>14. HeadsAreRows'
  BY <1>2 DEF ChainInv, HeadsAreRows, rows_of
<1>15. LinksAscend'
  <2>1. \A v \in Writer : pc'[v] = "insert" =>
           pc[v] = "insert" /\ entry'[v] = entry[v] /\ seq'[v] = seq[v]
    BY <1>2, <1>4
  <2>. QED BY <1>2, <2>1 DEF ChainInv, LinksAscend
<1>. QED BY <1>5, <1>12, <1>13, <1>14, <1>15 DEF ChainInv

\* The number read is above the row the entry is linked to.
LEMMA ReadSeqKeepsChain ==
  ASSUME AuditConstants, ChainInv, NEW w \in Writer, pc[w] = "sequence",
         seq' = [seq EXCEPT ![w] = next_seq(RunOf[w])], pc' = [pc EXCEPT ![w] = "insert"],
         UNCHANGED <<entry, rows, public_key, chain_heads, signer, begun>>
  PROVE  ChainInv'
<1>. DEFINE r == RunOf[w]
            n == next_seq(r)
<1>1. r \in Run
  BY AuditConstants
<1>2. n \in 1 .. Len(rows) + 1 /\ \A i \in rows_of(r) : rows[i].seq < n
  BY <1>1, NextSeqAbove
<1>. HIDE DEF n
<1>3. /\ \A v \in Writer : v # w => pc'[v] = pc[v] /\ seq'[v] = seq[v]
      /\ pc'[w] = "insert" /\ seq'[w] = n /\ n \in Nat
      /\ pc' \in [Writer -> {"new", "idle", "sequence", "insert", "head", "panicked"}]
      /\ seq' \in [Writer -> Nat]
  BY <1>2 DEF ChainInv, Types, n
<1>4. Types'
  BY <1>3 DEF ChainInv, Types
<1>5. RowsAreSealed'
  BY DEF ChainInv, RowsAreSealed, Sealed, Linked
<1>6. FlightsAreSealed'
  <2>1. ASSUME NEW v \in Writer
        PROVE  /\ Busy(v)' <=> Busy(v)
               /\ pc'[v] \in {"sequence", "insert"} => pc[v] \in {"sequence", "insert"}
               /\ pc'[v] = "head" => pc[v] = "head"
    BY <1>3 DEF Busy
  <2>2. ASSUME NEW v \in Writer, Busy(v) PROVE Sealed(entry[v])' /\ Linked(entry[v])'
    BY <2>2 DEF ChainInv, FlightsAreSealed, Sealed, Linked
  <2>. QED BY <2>1, <2>2 DEF ChainInv, FlightsAreSealed
<1>7. HeadsAreRows'
  BY DEF ChainInv, HeadsAreRows, rows_of
<1>8. LinksAscend'
  <2>1. ASSUME NEW i \in DOMAIN rows, rows[i].entry.content_hash = entry[w].prev_hash
        PROVE  rows[i].seq < n
    <3>1. Linked(entry[w]) /\ entry[w].run_id = r
      BY DEF ChainInv, FlightsAreSealed, Busy
    <3>2. /\ rows[i].entry.content_hash = compute_content_hash(rows[i].entry)
      BY DEF ChainInv, RowsAreSealed, Sealed
    <3>3. entry[w].prev_hash # ZeroHash
      BY <2>1, <3>2, HashesDiffer
    <3>4. PICK j \in DOMAIN rows : rows[j].entry.run_id = r
                                   /\ rows[j].entry.content_hash = entry[w].prev_hash
      BY <3>1, <3>3 DEF Linked
    <3>5. rows[j].entry.content_hash = compute_content_hash(rows[j].entry)
      BY DEF ChainInv, RowsAreSealed, Sealed
    <3>6. rows[i].entry.run_id = r
      BY <2>1, <3>2, <3>4, <3>5, HashesDiffer
    <3>. QED BY <1>2, <3>6 DEF rows_of
  <2>2. ASSUME NEW v \in Writer, pc'[v] = "insert"
        PROVE  /\ seq'[v] \in 1 .. Len(rows) + 1
               /\ \A i \in DOMAIN rows :
                    rows[i].entry.content_hash = entry[v].prev_hash => rows[i].seq < seq'[v]
    <3>1. CASE v = w
      BY <1>2, <1>3, <2>1, <3>1
    <3>2. CASE v # w
      BY <1>3, <2>2, <3>2 DEF ChainInv, LinksAscend
    <3>. QED BY <3>1, <3>2
  <2>. QED BY <2>2 DEF ChainInv, LinksAscend
<1>. QED BY <1>4, <1>5, <1>6, <1>7, <1>8 DEF ChainInv

\* A row more: no row is linked to it, and it is linked to a lower one.
LEMMA InsertKeepsChain ==
  ASSUME AuditConstants, ChainInv, NEW w \in Writer, pc[w] = "insert",
         rows' = Append(rows, [entry |-> entry[w], seq |-> seq[w]]),
         pc' = [pc EXCEPT ![w] = "head"],
         UNCHANGED <<entry, seq, public_key, chain_heads, signer, begun>>
  PROVE  ChainInv'
<1>. DEFINE m == Len(rows) + 1
            e == entry[w]
            row == [entry |-> e, seq |-> seq[w]]
<1>1. /\ DOMAIN rows' = 1 .. m /\ Len(rows') = m /\ DOMAIN rows = 1 .. Len(rows)
      /\ Len(rows) \in Nat /\ \A i \in 1 .. Len(rows) : rows'[i] = rows[i]
      /\ rows'[m] = row /\ rows' \in Seq({rows'[i] : i \in DOMAIN rows'})
  <2>. DEFINE S == {rows[i] : i \in DOMAIN rows}
  <2>1. rows \in Seq(S)
    BY DEF ChainInv, Types
  <2>. HIDE DEF S, row
  <2>2. rows' = Append(rows, row)
    BY DEF row
  <2>. QED BY <2>1, <2>2, Appended
<1>2. rows'[m].entry = e /\ rows'[m].seq = seq[w]
  BY <1>1
<1>3. /\ \A v \in Writer : v # w => pc'[v] = pc[v]
      /\ pc'[w] = "head" /\ m \in Nat /\ m \in DOMAIN rows'
      /\ \A i \in DOMAIN rows' : i # m => i \in DOMAIN rows /\ rows'[i] = rows[i]
      /\ \A i \in DOMAIN rows : i \in DOMAIN rows' /\ rows'[i] = rows[i] /\ i # m
      /\ pc' \in [Writer -> {"new", "idle", "sequence", "insert", "head", "panicked"}]
  <2>1. /\ \A v \in Writer : v # w => pc'[v] = pc[v]
        /\ pc'[w] = "head"
        /\ pc' \in [Writer -> {"new", "idle", "sequence", "insert", "head", "panicked"}]
    BY DEF ChainInv, Types
  <2>2. m \in Nat /\ m \in 1 .. m /\ m \notin 1 .. Len(rows)
          /\ \A i \in 1 .. m : i # m => i \in 1 .. Len(rows)
    BY <1>1
  <2>. HIDE DEF m, row
  <2>3. \A i \in DOMAIN rows' : i # m => i \in DOMAIN rows /\ rows'[i] = rows[i]
    BY <1>1, <2>2
  <2>4. \A i \in DOMAIN rows : i \in DOMAIN rows' /\ rows'[i] = rows[i] /\ i # m
    <3>1. 1 .. Len(rows) \subseteq 1 .. m
      BY <1>1 DEF m
    <3>. QED BY <1>1, <2>2, <3>1
  <2>. QED BY <1>1, <2>1, <2>2, <2>3, <2>4
<1>4. Types'
  BY <1>1, <1>3 DEF ChainInv, Types
<1>. HIDE DEF m, e, row
<1>5. /\ Sealed(e) /\ Linked(e) /\ e.run_id = RunOf[w] /\ seq[w] \in 1 .. m
      /\ \A i \in DOMAIN rows : rows[i].entry.id # e.id
      /\ \A i \in DOMAIN rows : rows[i].entry.content_hash = e.prev_hash => rows[i].seq < seq[w]
  BY DEF ChainInv, FlightsAreSealed, LinksAscend, Busy, e, m
<1>6. ASSUME NEW g, Sealed(g) PROVE Sealed(g)'
  BY <1>6 DEF Sealed
<1>7. ASSUME NEW g, Linked(g) PROVE Linked(g)'
  BY <1>3, <1>7 DEF Linked
<1>8. RowsAreSealed'
  <2>1. ASSUME NEW i \in DOMAIN rows'
        PROVE  Sealed(rows[i].entry)' /\ Linked(rows[i].entry)' /\ rows'[i].seq \in 1 .. i
    <3>1. PICK g : g = rows'[i].entry
      OBVIOUS
    <3>2. CASE i = m
      <4>1. Sealed(g) /\ Linked(g) /\ rows'[i].seq \in 1 .. i
        BY <1>2, <1>5, <3>1, <3>2
      <4>2. Sealed(g)' /\ Linked(g)'
        BY <1>6, <1>7, <4>1
      <4>. QED BY <3>1, <4>1, <4>2 DEF Sealed, Linked
    <3>3. CASE i # m
      <4>1. Sealed(g) /\ Linked(g) /\ rows'[i].seq \in 1 .. i
        BY <1>3, <3>1, <3>3 DEF ChainInv, RowsAreSealed
      <4>2. Sealed(g)' /\ Linked(g)'
        BY <1>6, <1>7, <4>1
      <4>. QED BY <3>1, <4>1, <4>2 DEF Sealed, Linked
    <3>. QED BY <3>2, <3>3
  <2>2. ASSUME NEW i \in DOMAIN rows', NEW j \in DOMAIN rows',
               rows'[i].entry.id = rows'[j].entry.id
        PROVE  i = j
    <3>1. CASE i = m \/ j = m
      BY <1>2, <1>3, <1>5, <2>2, <3>1
    <3>2. CASE i # m /\ j # m
      BY <1>3, <2>2, <3>2 DEF ChainInv, RowsAreSealed
    <3>. QED BY <3>1, <3>2
  <2>. QED BY <2>1, <2>2 DEF RowsAreSealed
<1>9. FlightsAreSealed'
  <2>1. ASSUME NEW v \in Writer
        PROVE  /\ Busy(v)' <=> Busy(v)
               /\ pc'[v] \in {"sequence", "insert"} => pc[v] \in {"sequence", "insert"} /\ v # w
               /\ pc'[v] = "head" => v = w \/ pc[v] = "head"
    BY <1>3 DEF Busy
  <2>2. ASSUME NEW v \in Writer, Busy(v) PROVE Sealed(entry[v])' /\ Linked(entry[v])'
    <3>1. PICK g : g = entry[v]
      OBVIOUS
    <3>2. Sealed(g)' /\ Linked(g)'
      BY <1>6, <1>7, <2>2, <3>1 DEF ChainInv, FlightsAreSealed
    <3>. QED BY <3>1, <3>2 DEF Sealed, Linked
  <2>3. ASSUME NEW v \in Writer, pc'[v] \in {"sequence", "insert"}
        PROVE  \A i \in DOMAIN rows' : rows'[i].entry.id # entry[v].id
    <3>1. Busy(v) /\ Busy(w) /\ v # w /\ pc[v] \in {"sequence", "insert"}
      BY <2>1, <2>3 DEF Busy
    <3>2. entry[v].id # e.id
      BY <3>1 DEF ChainInv, FlightsAreSealed, e
    <3>3. \A i \in DOMAIN rows : rows[i].entry.id # entry[v].id
      BY <3>1 DEF ChainInv, FlightsAreSealed
    <3>. QED BY <1>2, <1>3, <3>2, <3>3
  <2>4. ASSUME NEW v \in Writer, pc'[v] = "head"
        PROVE  \E i \in DOMAIN rows' : rows'[i].entry = entry[v]
    <3>1. CASE v = w
      BY <1>2, <1>3, <3>1 DEF e
    <3>2. CASE v # w
      <4>1. PICK i \in DOMAIN rows : rows[i].entry = entry[v]
        BY <2>1, <2>4, <3>2 DEF ChainInv, FlightsAreSealed
      <4>. QED BY <1>3, <4>1
    <3>. QED BY <3>1, <3>2
  <2>. QED BY <2>1, <2>2, <2>3, <2>4 DEF ChainInv, FlightsAreSealed
<1>10. HeadsAreRows'
  <2>1. ASSUME NEW x \in DOMAIN chain_heads
        PROVE  \E i \in rows_of(x)' : chain_heads[x] = rows'[i].entry.content_hash
    <3>1. PICK i \in rows_of(x) : chain_heads[x] = rows[i].entry.content_hash
      BY DEF ChainInv, HeadsAreRows
    <3>2. i \in rows_of(x)' /\ rows'[i] = rows[i]
      BY <1>3 DEF rows_of
    <3>. QED BY <3>1, <3>2
  <2>. QED BY <2>1 DEF HeadsAreRows
<1>11. \A g : Linked(g) => g.prev_hash # e.content_hash
  BY UnlinkedYet DEF e
<1>12. LinksAscend'
  <2>1. ASSUME NEW v \in Writer, pc'[v] = "insert"
        PROVE  /\ seq[v] \in 1 .. Len(rows') + 1
               /\ \A i \in DOMAIN rows' :
                    rows'[i].entry.content_hash = entry[v].prev_hash => rows'[i].seq < seq[v]
    <3>1. pc[v] = "insert" /\ v # w
      BY <1>3, <2>1
    <3>2. seq[v] \in 1 .. Len(rows) + 1 /\ Linked(entry[v])
      BY <3>1 DEF ChainInv, LinksAscend, FlightsAreSealed, Busy
    <3>3. entry[v].prev_hash # e.content_hash
      BY <1>11, <3>2
    <3>4. seq[v] \in 1 .. Len(rows') + 1
      BY <1>1, <3>2 DEF m
    <3>5. \A i \in DOMAIN rows :
             rows[i].entry.content_hash = entry[v].prev_hash => rows[i].seq < seq[v]
      BY <3>1 DEF ChainInv, LinksAscend
    <3>. QED BY <1>2, <1>3, <3>3, <3>4, <3>5
  <2>2. ASSUME NEW i \in DOMAIN rows', NEW j \in DOMAIN rows',
               rows'[j].entry.prev_hash = rows'[i].entry.content_hash
        PROVE  rows'[i].seq < rows'[j].seq
    <3>1. i # m
      <4>1. Linked(rows'[j].entry)
        BY <1>2, <1>3, <1>5 DEF ChainInv, RowsAreSealed
      <4>2. rows'[j].entry.prev_hash # e.content_hash
        BY <1>11, <4>1
      <4>. QED BY <1>2, <2>2, <4>2
    <3>2. CASE j = m
      BY <1>2, <1>3, <1>5, <2>2, <3>1, <3>2
    <3>3. CASE j # m
      BY <1>3, <2>2, <3>1, <3>3 DEF ChainInv, LinksAscend
    <3>. QED BY <3>2, <3>3
  <2>. QED BY <2>1, <2>2 DEF LinksAscend
<1>. QED BY <1>4, <1>8, <1>9, <1>10, <1>12 DEF ChainInv

\* A query that fails takes nothing back that is in the table.
LEMMA FailKeepsChain ==
  ASSUME ChainInv, NEW w \in Writer, Fail(w),
         UNCHANGED <<rows, public_key, chain_heads, signer, begun>>
  PROVE  ChainInv'
<1>. USE DEF ChainInv
<1>1. \A v \in Writer : Busy(v)' => pc'[v] = pc[v] /\ entry'[v] = entry[v] /\ seq'[v] = seq[v]
  BY DEF Fail, Busy, Types
<1>2. Types'
  BY DEF Fail, Types
<1>3. HeadsAreRows'
  BY DEF HeadsAreRows, rows_of
<1>4. RowsAreSealed' /\ FlightsAreSealed' /\ LinksAscend'
  <2>1. begun' \in Nat /\ begun <= begun'
    BY DEF Types
  <2>. QED BY <1>1, <2>1, QuieterKeepsSealed
<1>. QED BY <1>2, <1>3, <1>4

\* A head is written once its entry is a row.
LEMMA AdvanceKeepsChain ==
  ASSUME AuditConstants, ChainInv, NEW w \in Writer, AdvanceHead(w)
  PROVE  ChainInv'
<1>. USE DEF ChainInv
<1>1. /\ Fail(w) /\ UNCHANGED <<rows, public_key, signer, begun>> /\ pc[w] = "head"
      /\ chain_heads' = [x \in DOMAIN chain_heads \cup {RunOf[w]} |->
                           IF x = RunOf[w] THEN entry[w].content_hash ELSE chain_heads[x]]
  BY DEF AdvanceHead, Fail
<1>2. \A v \in Writer : Busy(v)' => pc'[v] = pc[v] /\ entry'[v] = entry[v] /\ seq'[v] = seq[v]
  BY <1>1 DEF Fail, Busy, Types
<1>3. Types'
  <2>1. RunOf[w] \in Run
    BY AuditConstants
  <2>2. DOMAIN chain_heads' \subseteq Run
    BY <1>1, <2>1 DEF Types
  <2>. QED BY <1>1, <2>2 DEF Fail, Types
<1>4. HeadsAreRows'
  <2>1. \E i \in rows_of(RunOf[w]) : entry[w].content_hash = rows[i].entry.content_hash
    <3>1. PICK i \in DOMAIN rows : rows[i].entry = entry[w]
      BY <1>1 DEF FlightsAreSealed
    <3>2. entry[w].run_id = RunOf[w]
      BY <1>1 DEF FlightsAreSealed, Busy
    <3>. QED BY <3>1, <3>2 DEF rows_of
  <2>2. ASSUME NEW r \in DOMAIN chain_heads'
        PROVE  \E i \in rows_of(r) : chain_heads'[r] = rows[i].entry.content_hash
    <3>1. CASE r = RunOf[w]
      BY <1>1, <2>1, <3>1
    <3>2. CASE r # RunOf[w]
      BY <1>1, <3>2 DEF HeadsAreRows
    <3>. QED BY <3>1, <3>2
  <2>3. \A r : rows_of(r)' = rows_of(r)
    BY <1>1 DEF rows_of
  <2>4. \A r \in DOMAIN chain_heads' :
          \E i \in rows_of(r)' : chain_heads'[r] = rows'[i].entry.content_hash
    BY <1>1, <2>2, <2>3
  <2>. QED BY <2>4 DEF HeadsAreRows
<1>5. RowsAreSealed' /\ FlightsAreSealed' /\ LinksAscend'
  <2>1. begun' \in Nat /\ begun <= begun' /\ rows' = rows
    BY <1>1 DEF Types
  <2>. QED BY <1>2, <2>1, QuieterKeepsSealed
<1>. QED BY <1>3, <1>4, <1>5

\* Every step keeps the links.
LEMMA StepChain == ChainInv /\ [Next]_vars => ChainInv'
<1>. SUFFICES ASSUME ChainInv, [Next]_vars PROVE ChainInv'
  OBVIOUS
<1>1. ASSUME NEW w \in Writer, Register(w) \/ scrub_or_panic(w) PROVE ChainInv'
  <2>. USE DEF ChainInv
  <2>1. /\ rows' = rows /\ chain_heads' = chain_heads /\ signer' = signer /\ entry' = entry
        /\ seq' = seq /\ (begun' = begun \/ begun' = begun + 1)
        /\ pc' = [pc EXCEPT ![w] = "idle"] \/ pc' = [pc EXCEPT ![w] = "panicked"]
        /\ pc[w] \in {"new", "idle"}
    BY <1>1 DEF Register, scrub_or_panic
  <2>2. public_key' \in [Run -> Key \cup {NoKey}]
    <3>1. public_key' = public_key
            \/ public_key' = [public_key EXCEPT ![RunOf[w]] = signer[RunOf[w]]]
      BY <1>1 DEF Register, scrub_or_panic
    <3>2. signer[RunOf[w]] \in Key
      BY AuditConstants DEF Types
    <3>. QED BY <3>1, <3>2 DEF Types
  <2>3. pc' \in [Writer -> {"new", "idle", "sequence", "insert", "head", "panicked"}]
    BY <2>1 DEF Types
  <2>4. Types'
    BY <2>1, <2>2, <2>3 DEF Types
  <2>5. HeadsAreRows'
    BY <2>1 DEF HeadsAreRows, rows_of
  <2>6. \A v \in Writer : Busy(v)' => pc'[v] = pc[v] /\ entry'[v] = entry[v] /\ seq'[v] = seq[v]
    BY <2>1 DEF Busy, Types
  <2>7. begun' \in Nat /\ begun <= begun'
    BY <2>1 DEF Types
  <2>8. RowsAreSealed' /\ FlightsAreSealed' /\ LinksAscend'
    BY <2>1, <2>6, <2>7, QuieterKeepsSealed
  <2>. QED BY <2>4, <2>5, <2>8
<1>2. ASSUME NEW w \in Writer, Link(w) PROVE ChainInv'
  BY <1>2, AuditConstants, LinkKeepsChain
<1>3. ASSUME NEW w \in Writer, ReadSeq(w) PROVE ChainInv'
  <2>1. CASE Fail(w)
    BY <1>3, <2>1, FailKeepsChain DEF ReadSeq
  <2>2. CASE seq' = [seq EXCEPT ![w] = next_seq(RunOf[w])] /\ pc' = [pc EXCEPT ![w] = "insert"]
               /\ UNCHANGED entry
    BY <1>3, <2>2, AuditConstants, ReadSeqKeepsChain DEF ReadSeq
  <2>. QED BY <1>3, <2>1, <2>2 DEF ReadSeq
<1>4. ASSUME NEW w \in Writer, Insert(w) PROVE ChainInv'
  <2>1. CASE Fail(w) /\ UNCHANGED rows
    BY <1>4, <2>1, FailKeepsChain DEF Insert
  <2>2. CASE rows' = Append(rows, [entry |-> entry[w], seq |-> seq[w]])
               /\ pc' = [pc EXCEPT ![w] = "head"] /\ UNCHANGED <<entry, seq>>
    BY <1>4, <2>2, AuditConstants, InsertKeepsChain DEF Insert
  <2>. QED BY <1>4, <2>1, <2>2 DEF Insert
<1>5. ASSUME NEW w \in Writer, AdvanceHead(w) PROVE ChainInv'
  BY <1>5, AuditConstants, AdvanceKeepsChain
<1>6. CASE Restart
  <2>. USE DEF ChainInv
  <2>1. /\ rows' = rows /\ public_key' = public_key /\ begun' = begun
        /\ DOMAIN chain_heads' = {} /\ signer' \in [Run -> Key]
        /\ pc' = [w \in Writer |-> "new"] /\ entry' = [w \in Writer |-> NoEntry]
        /\ seq' = [w \in Writer |-> 0]
    BY <1>6 DEF Restart
  <2>2. Types'
    BY <2>1 DEF Types
  <2>3. HeadsAreRows'
    BY <2>1 DEF HeadsAreRows
  <2>4. \A v \in Writer : ~Busy(v)'
    BY <2>1 DEF Busy
  <2>5. begun' \in Nat /\ begun <= begun'
    BY <2>1 DEF Types
  <2>6. RowsAreSealed' /\ FlightsAreSealed' /\ LinksAscend'
    BY <2>1, <2>4, <2>5, QuieterKeepsSealed
  <2>. QED BY <2>2, <2>3, <2>6
<1>7. CASE UNCHANGED vars
  <2>. USE DEF ChainInv, vars
  <2>1. Types' /\ HeadsAreRows'
    BY <1>7 DEF Types, HeadsAreRows, rows_of
  <2>2. begun' \in Nat /\ begun <= begun'
    BY <1>7 DEF Types
  <2>3. RowsAreSealed' /\ FlightsAreSealed' /\ LinksAscend'
    BY <1>7, <2>2, QuieterKeepsSealed
  <2>. QED BY <2>1, <2>3
<1>. QED BY <1>1, <1>2, <1>3, <1>4, <1>5, <1>6, <1>7 DEF Next

----------------------------------------------------------------------------
(* What a verification finds *)

\* A verification passes just what has no fault.
LEMMA VerifiedIsFaultless ==
  ASSUME NEW s, NEW key, NEW n \in Nat, DOMAIN s = 1 .. n
  PROVE  verify_chain(s, key) = "Ok" <=> \A k \in 1 .. n : entry_fault(s, key, k) = "Ok"
<1>. DEFINE bad == {k \in DOMAIN s : entry_fault(s, key, k) # "Ok"}
            Least(k) == \A j \in bad : k <= j
<1>1. verify_chain(s, key) = IF bad = {} THEN "Ok"
                             ELSE entry_fault(s, key, CHOOSE k \in bad : Least(k))
  BY DEF verify_chain
<1>2. CASE bad = {}
  BY <1>1, <1>2
<1>3. CASE bad # {}
  <2>1. \E k \in bad : Least(k)
    <3>1. bad \in SUBSET Nat
      OBVIOUS
    <3>. HIDE DEF bad
    <3>. QED BY <1>3, <3>1, LeastOf
  <2>. DEFINE first == CHOOSE k \in bad : Least(k)
  <2>2. first \in bad
    <3>. HIDE DEF bad, Least
    <3>. QED BY <2>1
  <2>3. entry_fault(s, key, first) # "Ok"
    <3>. HIDE DEF first
    <3>. QED BY <2>2
  <2>4. verify_chain(s, key) # "Ok"
    <3>. HIDE DEF bad
    <3>. QED BY <1>1, <1>3, <2>3
  <2>5. \E k \in 1 .. n : entry_fault(s, key, k) # "Ok"
    BY <1>3
  <2>. QED BY <2>4, <2>5
<1>. QED BY <1>2, <1>3

\* What an entry without a fault is.
LEMMA Faultless ==
  ASSUME NEW s, NEW key, NEW k
  PROVE  entry_fault(s, key, k) = "Ok" <=>
           /\ s[k].prev_hash = IF k = 1 THEN ZeroHash ELSE s[k - 1].content_hash
           /\ s[k].content_hash = compute_content_hash(s[k])
           /\ s[k].signature = sign(key, s[k].content_hash)
  BY DEF entry_fault

\* Of the rows with one number, the next behind row i has the place behind its.
LEMMA TwinIsNext ==
  ASSUME ChainInv, NEW r \in Run, NEW i \in rows_of(r), NEW j \in rows_of(r),
         i < j, rows[i].seq = rows[j].seq
  PROVE  \E x \in rows_of(r) : rows[x].seq = rows[i].seq /\ Place(r, x) = Place(r, i) + 1
<1>. DEFINE R == rows_of(r)
            Twins == {x \in R : i < x /\ rows[x].seq = rows[i].seq}
            B(x) == {y \in R : Before(y, x)}
<1>1. IsFiniteSet(R) /\ R \subseteq Nat /\ \A x \in R : rows[x].seq \in Nat
  BY RowsOfRun DEF ChainInv
<1>2. PICK x \in Twins : \A y \in Twins : x <= y
  <2>1. Twins \in SUBSET Nat /\ Twins # {}
    <3>. HIDE DEF R
    <3>. QED BY <1>1 DEF R
  <2>. HIDE DEF Twins
  <2>. QED BY <2>1, LeastOf
<1>3. i \in R /\ x \in R
  OBVIOUS
<1>4. Place(r, x) = Cardinality(B(x)) /\ Place(r, i) = Cardinality(B(i))
  BY DEF Place
<1>. HIDE DEF R
<1>5. B(x) = B(i) \cup {i}
  <2>1. ASSUME NEW y \in R, Before(y, x), y # i PROVE Before(y, i)
    BY <1>1, <1>2, <1>3, <2>1 DEF Before
  <2>2. ASSUME NEW y \in R, Before(y, i) PROVE Before(y, x)
    BY <1>1, <1>2, <1>3, <2>2 DEF Before
  <2>3. Before(i, x)
    BY <1>2 DEF Before
  <2>. QED BY <1>3, <2>1, <2>2, <2>3
<1>6. IsFiniteSet(B(i)) /\ i \notin B(i)
  <2>1. B(i) \in SUBSET R
    OBVIOUS
  <2>2. ~Before(i, i)
    BY <1>1, <1>3 DEF Before
  <2>. QED BY <1>1, <2>1, <2>2, FS_Subset
<1>7. Cardinality(B(i) \cup {i}) = Cardinality(B(i)) + 1
  <2>. HIDE DEF B
  <2>. QED BY <1>6, FS_AddElement
<1>8. Place(r, x) = Place(r, i) + 1
  BY <1>4, <1>5, <1>7
<1>. QED BY <1>2, <1>3, <1>8 DEF R

\* Two appends that overlap may draw one number, in SqliteStore::append; verify_chain
\* never passes the run then, because a link leads to a lower number.
LEMMA SharedSeqBreaks ==
  ASSUME ChainInv, NEW r \in Run, NEW i \in rows_of(r), NEW j \in rows_of(r),
         i < j, rows[i].seq = rows[j].seq
  PROVE  verdict(r) # "Ok"
<1>. SUFFICES ASSUME verdict(r) = "Ok" PROVE FALSE
  OBVIOUS
<1>1. PICK x \in rows_of(r) : rows[x].seq = rows[i].seq /\ Place(r, x) = Place(r, i) + 1
  BY TwinIsNext
<1>. DEFINE s == export(r)
            k == Place(r, i) + 1
            n == Cardinality(rows_of(r))
<1>2. /\ DOMAIN s = 1 .. n /\ n \in Nat
      /\ k \in 1 .. n /\ s[k] = rows[i].entry
      /\ k + 1 \in 1 .. n /\ s[k + 1] = rows[x].entry
  BY <1>1, Exported DEF ChainInv
<1>3. entry_fault(s, get_verify_key(r), k + 1) = "Ok"
  <2>1. verify_chain(s, get_verify_key(r)) = "Ok"
    BY DEF verdict
  <2>. HIDE DEF s, n, k
  <2>. QED BY <1>2, <2>1, VerifiedIsFaultless
<1>. HIDE DEF s, k, n
<1>4. s[k + 1].prev_hash = s[k].content_hash
  <2>1. k + 1 # 1 /\ (k + 1) - 1 = k
    BY <1>2
  <2>. QED BY <1>3, <2>1, Faultless
<1>5. rows[x].entry.prev_hash = rows[i].entry.content_hash
  BY <1>2, <1>4
<1>6. rows[i].seq < rows[x].seq /\ rows[i].seq \in Nat
  BY <1>5, RowsOfRun DEF ChainInv, LinksAscend, rows_of
<1>. QED BY <1>1, <1>6

\* A function on the first numbers is a sequence.
LEMMA SequenceOf ==
  ASSUME NEW n \in Nat, NEW s, s = [k \in 1 .. n |-> s[k]]
  PROVE  s \in Seq({s[k] : k \in 1 .. n}) /\ Len(s) = n
<1>. DEFINE T == {s[k] : k \in 1 .. n}
<1>1. \A k \in 1 .. n : s[k] \in T
  OBVIOUS
<1>. HIDE DEF T
<1>2. s \in [1 .. n -> T]
  BY <1>1
<1>. QED BY <1>2 DEF T

\* A sequence of sealed entries with ids of their own.
SealedSequence(s) ==
  /\ s \in Seq({s[k] : k \in DOMAIN s}) /\ DOMAIN s = 1 .. Len(s) /\ Len(s) \in Nat
  /\ s = [k \in 1 .. Len(s) |-> s[k]]
  /\ \A k \in DOMAIN s : Sealed(s[k])
  /\ \A k, l \in DOMAIN s : s[k].id = s[l].id => k = l

\* An export is such a sequence.
LEMMA ExportIsSealed ==
  ASSUME ChainInv, NEW r \in Run, NEW s, s = export(r)
  PROVE  SealedSequence(s)
<1>. DEFINE n == Cardinality(rows_of(r))
<1>1. DOMAIN s = 1 .. n /\ n \in Nat
  BY Exported DEF ChainInv
<1>2. s = [k \in 1 .. n |-> s[k]]
  BY <1>1 DEF export
<1>. HIDE DEF n
<1>3. s \in Seq({s[k] : k \in DOMAIN s}) /\ Len(s) = n
  BY <1>1, <1>2, SequenceOf
<1>4. ASSUME NEW k \in DOMAIN s
      PROVE  \E i \in rows_of(r) : Place(r, i) = k - 1 /\ s[k] = rows[i].entry
  <2>1. PICK i \in rows_of(r) : Place(r, i) = k - 1
    BY Exported DEF ChainInv
  <2>2. Place(r, i) + 1 = k
    BY <1>1, <2>1
  <2>3. s[Place(r, i) + 1] = rows[i].entry
    BY Exported DEF ChainInv
  <2>. QED BY <2>1, <2>2, <2>3
<1>5. ASSUME NEW k \in DOMAIN s PROVE Sealed(s[k])
  BY <1>4 DEF ChainInv, RowsAreSealed, rows_of
<1>6. ASSUME NEW k \in DOMAIN s, NEW l \in DOMAIN s, s[k].id = s[l].id PROVE k = l
  <2>1. PICK i \in rows_of(r) : Place(r, i) = k - 1 /\ s[k] = rows[i].entry
    BY <1>4
  <2>2. PICK j \in rows_of(r) : Place(r, j) = l - 1 /\ s[l] = rows[j].entry
    BY <1>4
  <2>3. i = j
    BY <1>6, <2>1, <2>2 DEF ChainInv, RowsAreSealed, rows_of
  <2>. QED BY <1>1, <2>1, <2>2, <2>3
<1>. QED BY <1>1, <1>2, <1>3, <1>5, <1>6 DEF SealedSequence

\* Two appends that read one head link to one entry, or both begin the chain, whatever
\* numbers they draw; verify_chain never passes the run then, because each entry must
\* follow the one it is linked to.
LEMMA SharedLinkBreaks ==
  ASSUME ChainInv, NEW r \in Run, NEW i \in rows_of(r), NEW j \in rows_of(r),
         i # j, rows[i].entry.prev_hash = rows[j].entry.prev_hash
  PROVE  verdict(r) # "Ok"
<1>. SUFFICES ASSUME verdict(r) = "Ok" PROVE FALSE
  OBVIOUS
<1>. DEFINE n == Cardinality(rows_of(r))
            k == Place(r, i) + 1
            l == Place(r, j) + 1
<1>1. PICK s : s = export(r)
  OBVIOUS
<1>2. /\ DOMAIN s = 1 .. n /\ n \in Nat
      /\ k \in 1 .. n /\ s[k] = rows[i].entry
      /\ l \in 1 .. n /\ s[l] = rows[j].entry
  BY <1>1, Exported DEF ChainInv
<1>3. SealedSequence(s)
  BY <1>1, ExportIsSealed
<1>4. \A m \in 1 .. n : entry_fault(s, get_verify_key(r), m) = "Ok"
  <2>1. verify_chain(s, get_verify_key(r)) = "Ok"
    BY <1>1 DEF verdict
  <2>. HIDE DEF n
  <2>. QED BY <1>2, <2>1, VerifiedIsFaultless
<1>. HIDE DEF n, k, l
<1>5. \A m \in 1 .. n : s[m].prev_hash = IF m = 1 THEN ZeroHash ELSE s[m - 1].content_hash
  BY <1>4, Faultless
<1>6. \A m \in 1 .. n : s[m].content_hash = compute_content_hash(s[m])
  BY <1>2, <1>3 DEF SealedSequence, Sealed
<1>7. \A a, b \in 1 .. n : s[a].prev_hash = s[b].prev_hash => a = b
  <2>1. ASSUME NEW a \in 1 .. n, NEW b \in 1 .. n, a # 1, b = 1 PROVE s[a].prev_hash # s[b].prev_hash
    <3>1. a - 1 \in 1 .. n
      BY <1>2, <2>1
    <3>. QED BY <1>5, <1>6, <2>1, <3>1, HashesDiffer
  <2>2. ASSUME NEW a \in 1 .. n, NEW b \in 1 .. n, a # 1, b # 1, s[a].prev_hash = s[b].prev_hash
        PROVE  a = b
    <3>1. a - 1 \in 1 .. n /\ b - 1 \in 1 .. n
      BY <1>2, <2>2
    <3>2. s[a - 1].content_hash = s[b - 1].content_hash
      BY <1>5, <2>2
    <3>3. s[a - 1].id = s[b - 1].id
      BY <1>6, <3>1, <3>2, HashesDiffer
    <3>4. a - 1 = b - 1
      BY <1>2, <1>3, <3>1, <3>3 DEF SealedSequence
    <3>. QED BY <1>2, <3>4
  <2>. QED BY <2>1, <2>2
<1>8. k = l
  BY <1>2, <1>7
<1>9. rows[i].entry.id = rows[j].entry.id
  BY <1>2, <1>8
<1>. QED BY <1>9 DEF ChainInv, RowsAreSealed, rows_of

\* An entry that is not hashed as it stands is found, also when it is hashed anew: its
\* signature is one of the hash it had.
LEMMA BrokenSealIsFound ==
  ASSUME NEW n \in Nat, NEW t, t = [i \in 1 .. n |-> t[i]], NEW k \in 1 .. n,
         DOMAIN t[k] = EntryFields, t[k].content_hash # compute_content_hash(t[k]),
         NEW signer_key, t[k].signature = sign(signer_key, t[k].content_hash),
         NEW u \in rehashings(t), NEW key
  PROVE  verify_chain(u, key) # "Ok"
<1>1. DOMAIN t = 1 .. n
  OBVIOUS
<1>2. ASSUME NEW v, DOMAIN v = 1 .. n, entry_fault(v, key, k) # "Ok"
      PROVE  verify_chain(v, key) # "Ok"
  BY <1>2, VerifiedIsFaultless
<1>3. CASE u = t
  BY <1>1, <1>2, <1>3, Faultless
<1>4. ASSUME NEW j \in DOMAIN t, u = [t EXCEPT ![j] = rehashed(t[j])]
      PROVE  verify_chain(u, key) # "Ok"
  <2>1. DOMAIN u = 1 .. n
    BY <1>1, <1>4
  <2>2. CASE j = k
    <3>1. u[k] = rehashed(t[k])
      BY <1>1, <1>4, <2>2
    <3>2. u[k].content_hash = compute_content_hash(t[k]) /\ u[k].signature = t[k].signature
      BY <3>1 DEF rehashed, EntryFields
    <3>3. u[k].signature # sign(key, u[k].content_hash)
      BY <3>2 DEF sign
    <3>. QED BY <1>2, <2>1, <3>3, Faultless
  <2>3. CASE j # k
    <3>1. u[k] = t[k]
      BY <1>1, <1>4, <2>3
    <3>. QED BY <1>2, <2>1, <3>1, Faultless
  <2>. QED BY <2>2, <2>3
<1>. QED BY <1>3, <1>4 DEF rehashings

\* Behind the entry that is dropped, the others move up by one.
LEMMA WithoutIs ==
  ASSUME NEW S, NEW s \in Seq(S), NEW k \in 1 .. Len(s) - 1
  PROVE  LET t == without(s, k)
         IN  /\ t = [i \in 1 .. Len(s) - 1 |-> t[i]] /\ t[k] = s[k + 1]
<1>. DEFINE n == Len(s)
            a == SubSeq(s, 1, k - 1)
            b == SubSeq(s, k + 1, n)
            t == without(s, k)
<1>1. n \in Nat /\ k \in Nat /\ 1 <= k /\ k <= n - 1
  OBVIOUS
<1>2. a \in Seq(S) /\ Len(a) = k - 1
  BY <1>1
<1>3. b \in Seq(S) /\ Len(b) = n - k /\ b[1] = s[k + 1]
  BY <1>1
<1>4. t = a \o b
  BY DEF without
<1>. HIDE DEF a, b, t, n
<1>5. t \in Seq(S) /\ Len(t) = n - 1
  <2>1. a \o b \in Seq(S) /\ Len(a \o b) = Len(a) + Len(b)
    BY <1>2, <1>3
  <2>2. (k - 1) + (n - k) = n - 1
    BY <1>1
  <2>. QED BY <1>2, <1>3, <1>4, <2>1, <2>2
<1>6. t[k] = b[1]
  BY <1>1, <1>2, <1>3, <1>4
<1>. QED BY <1>3, <1>5, <1>6 DEF t, n

\* An export of SqliteStore that passes verify_chain passes it no more with any entry
\* changed, dropped but from the end, or moved, and no new hash helps without the key.
LEMMA AlteredIsFound == ChainInv => TamperEvident
<1>. SUFFICES ASSUME ChainInv, NEW r \in Run, verdict(r) = "Ok",
                     NEW x \in altered(export(r))
              PROVE  verify_chain(x, get_verify_key(r)) # "Ok"
  BY DEF TamperEvident
<1>1. PICK s : s = export(r)
  OBVIOUS
<1>. DEFINE key == get_verify_key(r)
            n == Len(s)
<1>2. /\ s \in Seq({s[k] : k \in DOMAIN s}) /\ DOMAIN s = 1 .. n /\ n \in Nat
      /\ \A k \in 1 .. n : Sealed(s[k])
      /\ \A k, l \in 1 .. n : s[k].id = s[l].id => k = l
      /\ s = [k \in 1 .. n |-> s[k]]
  <2>1. SealedSequence(s)
    BY <1>1, ExportIsSealed
  <2>. QED BY <2>1 DEF SealedSequence
<1>. HIDE DEF n, key
<1>3. ASSUME NEW k \in 1 .. n
      PROVE  /\ s[k].prev_hash = IF k = 1 THEN ZeroHash ELSE s[k - 1].content_hash
             /\ s[k].signature = sign(key, s[k].content_hash)
             /\ DOMAIN s[k] = EntryFields /\ s[k].body = "body"
             /\ s[k].content_hash = compute_content_hash(s[k])
  <2>1. verify_chain(s, key) = "Ok"
    BY <1>1 DEF verdict, key
  <2>2. entry_fault(s, key, k) = "Ok"
    BY <1>2, <2>1, VerifiedIsFaultless
  <2>. QED BY <1>2, <2>2, Faultless DEF Sealed
<1>4. ASSUME NEW k \in 1 .. n, NEW l \in 1 .. n, s[k].content_hash = s[l].content_hash
      PROVE  k = l
  <2>1. compute_content_hash(s[k]) = compute_content_hash(s[l])
    BY <1>3, <1>4
  <2>2. s[k].id = s[l].id
    BY <2>1, HashesDiffer
  <2>. QED BY <1>2, <2>2
<1>5. ASSUME NEW k \in 1 .. n - 1
      PROVE  /\ k \in 1 .. n /\ k + 1 \in 1 .. n /\ k # k + 1
             /\ s[k].prev_hash # s[k].content_hash
             /\ s[k + 1].prev_hash = s[k].content_hash
  <2>1. k \in 1 .. n /\ k + 1 \in 1 .. n /\ (k + 1) - 1 = k /\ k + 1 # 1
    BY <1>2
  <2>2. s[k + 1].prev_hash = s[k].content_hash
    BY <1>3, <2>1
  <2>3. s[k].prev_hash # s[k].content_hash
    <3>1. CASE k = 1
      BY <1>3, <2>1, <3>1, HashesDiffer
    <3>2. CASE k # 1
      <4>1. k - 1 \in 1 .. n /\ k - 1 # k
        BY <1>2, <2>1, <3>2
      <4>2. s[k].prev_hash = s[k - 1].content_hash
        BY <1>3, <2>1, <3>2
      <4>. QED BY <1>4, <2>1, <4>1, <4>2
    <3>. QED BY <3>1, <3>2
  <2>. QED BY <1>2, <2>1, <2>2, <2>3
<1>6. ASSUME NEW k \in 1 .. n, NEW t, t = [s EXCEPT ![k].body = "other"],
             NEW u \in rehashings(t)
      PROVE  verify_chain(u, key) # "Ok"
  <2>1. t[k] = [s[k] EXCEPT !.body = "other"] /\ t = [i \in 1 .. n |-> t[i]]
    BY <1>2, <1>6
  <2>2. /\ DOMAIN t[k] = EntryFields /\ t[k].body = "other"
        /\ t[k].content_hash = s[k].content_hash /\ t[k].signature = s[k].signature
    BY <1>3, <2>1 DEF EntryFields
  <2>3. compute_content_hash(s[k]) # compute_content_hash(t[k])
    <3>1. s[k].body # t[k].body
      BY <1>3, <2>2
    <3>. QED BY <3>1, HashesDiffer
  <2>4. t[k].content_hash # compute_content_hash(t[k])
    BY <1>3, <2>2, <2>3
  <2>5. t[k].signature = sign(key, t[k].content_hash)
    BY <1>3, <2>2
  <2>6. n \in Nat
    BY <1>2
  <2>7. t = [i \in 1 .. n |-> t[i]] /\ DOMAIN t[k] = EntryFields
    BY <2>1, <2>2
  <2>. QED BY <2>4, <2>5, <2>6, <2>7, BrokenSealIsFound
<1>7. ASSUME NEW k \in 1 .. n - 1, NEW t,
             t = [without(s, k) EXCEPT ![k].prev_hash = s[k].prev_hash],
             NEW u \in rehashings(t)
      PROVE  verify_chain(u, key) # "Ok"
  <2>. DEFINE w == without(s, k)
              T == {s[i] : i \in DOMAIN s}
  <2>1. w = [i \in 1 .. n - 1 |-> w[i]] /\ w[k] = s[k + 1]
    <3>1. s \in Seq(T) /\ k \in 1 .. Len(s) - 1
      BY <1>2 DEF n
    <3>. HIDE DEF T
    <3>. QED BY <3>1, WithoutIs DEF n
  <2>2. t = [w EXCEPT ![k].prev_hash = s[k].prev_hash]
    BY <1>7
  <2>. HIDE DEF w
  <2>3. t[k] = [s[k + 1] EXCEPT !.prev_hash = s[k].prev_hash] /\ t = [i \in 1 .. n - 1 |-> t[i]]
    BY <2>1, <2>2
  <2>4. /\ DOMAIN t[k] = EntryFields /\ t[k].prev_hash = s[k].prev_hash
        /\ t[k].content_hash = s[k + 1].content_hash /\ t[k].signature = s[k + 1].signature
    BY <1>3, <1>5, <2>3 DEF EntryFields
  <2>5. t[k].content_hash # compute_content_hash(t[k])
    BY <1>3, <1>5, <2>4, HashesDiffer
  <2>6. t[k].signature = sign(key, t[k].content_hash)
    BY <1>3, <1>5, <2>4
  <2>7. n - 1 \in Nat
    BY <1>2
  <2>. QED BY <2>3, <2>4, <2>5, <2>6, <2>7, BrokenSealIsFound
<1>8. ASSUME NEW k \in 1 .. n - 1, x = [s EXCEPT ![k] = s[k + 1], ![k + 1] = s[k]]
      PROVE  verify_chain(x, key) # "Ok"
  <2>1. DOMAIN x = 1 .. n /\ x[k] = s[k + 1]
    BY <1>2, <1>5, <1>8
  <2>2. s[k].content_hash # IF k = 1 THEN ZeroHash ELSE s[k - 1].content_hash
    BY <1>3, <1>5
  <2>3. k # 1 => x[k - 1] = s[k - 1]
    <3>1. ASSUME k # 1 PROVE x[k - 1] = s[k - 1]
      <4>1. k - 1 \in 1 .. n /\ k - 1 # k /\ k - 1 # k + 1
        BY <1>2, <3>1
      <4>. QED BY <1>2, <1>8, <4>1
    <3>. QED BY <3>1
  <2>4. x[k].prev_hash # IF k = 1 THEN ZeroHash ELSE x[k - 1].content_hash
    BY <1>5, <2>1, <2>2, <2>3
  <2>5. entry_fault(x, key, k) # "Ok"
    BY <2>4, Faultless
  <2>. QED BY <1>2, <1>5, <2>1, <2>5, VerifiedIsFaultless
<1>9. \/ \E k \in 1 .. n - 1 : x = [s EXCEPT ![k] = s[k + 1], ![k + 1] = s[k]]
      \/ \E k \in 1 .. n : x \in rehashings([s EXCEPT ![k].body = "other"])
      \/ \E k \in 1 .. n - 1 :
           x \in rehashings([without(s, k) EXCEPT ![k].prev_hash = s[k].prev_hash])
  <2>1. x \in altered(s)
    BY <1>1
  <2>. DEFINE changed == {[s EXCEPT ![k].body = "other"] : k \in DOMAIN s}
              dropped == {[without(s, k) EXCEPT ![k].prev_hash = s[k].prev_hash]
                            : k \in 1 .. Len(s) - 1}
              swapped == {[s EXCEPT ![k] = s[k + 1], ![k + 1] = s[k]] : k \in 1 .. Len(s) - 1}
  <2>2. x \in swapped \cup UNION {rehashings(t) : t \in changed \cup dropped}
    BY <2>1 DEF altered
  <2>3. x \in swapped \/ \E t \in changed \cup dropped : x \in rehashings(t)
    <3>. HIDE DEF swapped, changed, dropped
    <3>. QED BY <2>2
  <2>4. CASE x \in swapped
    BY <2>4 DEF n
  <2>5. ASSUME NEW t \in changed, x \in rehashings(t)
        PROVE  \E k \in 1 .. n : x \in rehashings([s EXCEPT ![k].body = "other"])
    BY <1>2, <2>5
  <2>6. ASSUME NEW t \in dropped, x \in rehashings(t)
        PROVE  \E k \in 1 .. n - 1 :
                 x \in rehashings([without(s, k) EXCEPT ![k].prev_hash = s[k].prev_hash])
    BY <2>6 DEF n
  <2>. HIDE DEF changed, dropped, swapped
  <2>. QED BY <2>3, <2>4, <2>5, <2>6
<1>. QED BY <1>6, <1>7, <1>8, <1>9 DEF key

----------------------------------------------------------------------------
(* A run that nothing disturbs *)

Newest(r, i) == i \in rows_of(r) /\ \A j \in rows_of(r) : j <= i

\* What an entry linked to the newest row of r is linked to.
ContinuesChain(e, r) ==
  /\ rows_of(r) = {} => e.prev_hash = ZeroHash
  /\ \A i \in rows_of(r) : Newest(r, i) => e.prev_hash = rows[i].entry.content_hash

Undisturbed(r) == r \notin overlapped /\ r \notin severed

\* What verifies the run is what signs it.
KeysAgree(r) ==
  /\ \A w \in Writer : RunOf[w] = r /\ pc[w] \notin {"new", "panicked"} =>
                         public_key[r] = signer[r]
  /\ rows_of(r) # {} => public_key[r] # NoKey
  /\ \A i \in rows_of(r) : rows[i].entry.signature = sign(public_key[r], rows[i].entry.content_hash)
  /\ \A w \in appending(r) : entry[w].signature = sign(public_key[r], entry[w].content_hash)

\* Every row is linked to the row of its run before it, and has a higher number.
RowsChained(r) ==
  \A j \in rows_of(r) :
    /\ (\A i \in rows_of(r) : i >= j) => rows[j].entry.prev_hash = ZeroHash
    /\ \A i \in rows_of(r) : i < j =>
         /\ rows[i].seq < rows[j].seq
         /\ (\A x \in rows_of(r) : x <= i \/ x >= j) =>
               rows[j].entry.prev_hash = rows[i].entry.content_hash

\* The append under way goes on from the newest row, and so will the next one.
HeadChained(r) ==
  /\ \A v, w \in appending(r) : v = w
  /\ \A w \in appending(r) :
       /\ pc[w] # "head" => ContinuesChain(entry[w], r)
       /\ pc[w] = "insert" => \A i \in rows_of(r) : rows[i].seq < seq[w]
       /\ pc[w] = "head" => \A i \in rows_of(r) : Newest(r, i) => rows[i].entry = entry[w]
  /\ (\A w \in appending(r) : pc[w] # "head") =>
       /\ rows_of(r) = {} => r \notin DOMAIN chain_heads
       /\ \A i \in rows_of(r) : Newest(r, i) =>
            r \in DOMAIN chain_heads /\ chain_heads[r] = rows[i].entry.content_hash

Quiet(r) == KeysAgree(r) /\ RowsChained(r) /\ HeadChained(r)

QuietInv == \A r \in Run : Undisturbed(r) => Quiet(r)

\* The initial state has no rows and no appends.
LEMMA InitQuiet == Init => QuietInv
<1>. SUFFICES ASSUME Init, NEW r \in Run PROVE Quiet(r)
  BY DEF QuietInv
<1>1. rows_of(r) = {} /\ appending(r) = {} /\ \A w \in Writer : pc[w] = "new"
  BY DEF Init, rows_of, appending
<1>2. KeysAgree(r) /\ RowsChained(r)
  BY <1>1 DEF KeysAgree, RowsChained
<1>3. HeadChained(r)
  BY <1>1 DEF HeadChained, Init
<1>. QED BY <1>2, <1>3 DEF Quiet

\* A step keeps a run quiet whose rows, appends, keys and head it leaves alone.
LEMMA OthersKeepQuiet ==
  ASSUME NEW r \in Run, Quiet(r),
         rows_of(r)' = rows_of(r), \A i \in rows_of(r) : rows'[i] = rows[i],
         appending(r)' = appending(r),
         \A v \in appending(r) : pc'[v] = pc[v] /\ entry'[v] = entry[v] /\ seq'[v] = seq[v],
         rows_of(r) # {} \/ appending(r) # {} => public_key'[r] = public_key[r],
         \A v \in Writer : RunOf[v] = r /\ pc'[v] \notin {"new", "panicked"} =>
                             public_key'[r] = signer'[r],
         r \in DOMAIN chain_heads' <=> r \in DOMAIN chain_heads,
         r \in DOMAIN chain_heads => chain_heads'[r] = chain_heads[r]
  PROVE  Quiet(r)'
<1>1. KeysAgree(r)'
  BY DEF Quiet, KeysAgree
<1>2. RowsChained(r)'
  BY DEF Quiet, RowsChained
<1>3. \A i \in rows_of(r) : Newest(r, i)' <=> Newest(r, i)
  BY DEF Newest
<1>4. HeadChained(r)'
  BY <1>3 DEF Quiet, HeadChained, ContinuesChain
<1>. QED BY <1>1, <1>2, <1>4 DEF Quiet

\* An append that begins goes on from the head, which is the newest row.
LEMMA LinkKeepsQuiet ==
  ASSUME ChainInv, NEW w \in Writer, Link(w), Quiet(RunOf[w]), Undisturbed(RunOf[w])'
  PROVE  Quiet(RunOf[w])'
<1>. DEFINE r == RunOf[w]
<1>1. appending(r) = {}
  BY DEF Link, Undisturbed
<1>2. /\ UNCHANGED <<rows, public_key, chain_heads, signer>> /\ pc[w] = "idle"
      /\ pc'[w] = "sequence" /\ \A v \in Writer : v # w => pc'[v] = pc[v]
  BY DEF Link, ChainInv, Types
<1>3. /\ entry'[w].prev_hash = IF r \in DOMAIN chain_heads THEN chain_heads[r] ELSE ZeroHash
      /\ entry'[w].signature = sign(signer[r], entry'[w].content_hash)
  BY DEF Link, ChainInv, Types
<1>4. rows_of(r)' = rows_of(r) /\ appending(r)' = {w}
  BY <1>1, <1>2 DEF rows_of, appending
<1>5. public_key[r] = signer[r]
  BY <1>2 DEF Quiet, KeysAgree
<1>. HIDE DEF r
<1>6. Quiet(r)
  BY DEF r
<1>7. KeysAgree(r)'
  BY <1>2, <1>3, <1>4, <1>5, <1>6 DEF Quiet, KeysAgree
<1>8. RowsChained(r)'
  BY <1>2, <1>4, <1>6 DEF Quiet, RowsChained
<1>9. \A i \in rows_of(r) : Newest(r, i)' <=> Newest(r, i)
  BY <1>4 DEF Newest
<1>10. /\ rows_of(r) = {} => r \notin DOMAIN chain_heads
       /\ \A i \in rows_of(r) : Newest(r, i) =>
            r \in DOMAIN chain_heads /\ chain_heads[r] = rows[i].entry.content_hash
  BY <1>1, <1>6 DEF Quiet, HeadChained
<1>11. HeadChained(r)'
  BY <1>2, <1>3, <1>4, <1>9, <1>10 DEF HeadChained, ContinuesChain
<1>. QED BY <1>7, <1>8, <1>11 DEF Quiet, r

\* An append that fails leaves the head where it was.
LEMMA FailKeepsQuiet ==
  ASSUME ChainInv, NEW w \in Writer, Fail(w), pc[w] \in {"sequence", "insert"},
         UNCHANGED <<rows, public_key, chain_heads, signer>>, Quiet(RunOf[w])
  PROVE  Quiet(RunOf[w])'
<1>. DEFINE r == RunOf[w]
<1>1. pc'[w] = "idle" /\ \A v \in Writer : v # w => pc'[v] = pc[v]
  BY DEF Fail, ChainInv, Types
<1>2. w \in appending(r)
  BY DEF appending
<1>. HIDE DEF r
<1>3. Quiet(r)
  BY DEF r
<1>4. appending(r) = {w}
  BY <1>2, <1>3 DEF Quiet, HeadChained
<1>5. rows_of(r)' = rows_of(r) /\ appending(r)' = {}
  BY <1>1, <1>4 DEF rows_of, appending
<1>6. public_key[r] = signer[r]
  BY <1>3 DEF Quiet, KeysAgree, r
<1>7. KeysAgree(r)'
  BY <1>3, <1>5, <1>6 DEF Quiet, KeysAgree
<1>8. RowsChained(r)'
  BY <1>3, <1>5 DEF Quiet, RowsChained
<1>9. \A i \in rows_of(r) : Newest(r, i)' <=> Newest(r, i)
  BY <1>5 DEF Newest
<1>10. /\ rows_of(r) = {} => r \notin DOMAIN chain_heads
       /\ \A i \in rows_of(r) : Newest(r, i) =>
            r \in DOMAIN chain_heads /\ chain_heads[r] = rows[i].entry.content_hash
  BY <1>3, <1>4 DEF Quiet, HeadChained
<1>11. HeadChained(r)'
  BY <1>5, <1>9, <1>10 DEF HeadChained
<1>. QED BY <1>7, <1>8, <1>11 DEF Quiet, r

\* The number read is above those of the run.
LEMMA ReadSeqKeepsQuiet ==
  ASSUME AuditConstants, ChainInv, NEW w \in Writer, pc[w] = "sequence",
         seq' = [seq EXCEPT ![w] = next_seq(RunOf[w])], pc' = [pc EXCEPT ![w] = "insert"],
         UNCHANGED <<entry, rows, public_key, chain_heads, signer>>, Quiet(RunOf[w])
  PROVE  Quiet(RunOf[w])'
<1>. DEFINE r == RunOf[w]
<1>1. /\ pc'[w] = "insert" /\ seq'[w] = next_seq(r)
      /\ \A v \in Writer : v # w => pc'[v] = pc[v]
  BY DEF ChainInv, Types
<1>2. w \in appending(r)
  BY DEF appending
<1>3. r \in Run
  BY AuditConstants
<1>. HIDE DEF r
<1>4. Quiet(r)
  BY DEF r
<1>5. appending(r) = {w}
  BY <1>2, <1>4 DEF Quiet, HeadChained
<1>6. rows_of(r)' = rows_of(r) /\ appending(r)' = {w}
  BY <1>1, <1>5 DEF rows_of, appending
<1>7. KeysAgree(r)'
  <2>1. public_key[r] = signer[r]
    BY <1>4 DEF Quiet, KeysAgree, r
  <2>. QED BY <1>4, <1>5, <1>6, <2>1 DEF Quiet, KeysAgree
<1>8. RowsChained(r)'
  BY <1>4, <1>6 DEF Quiet, RowsChained
<1>9. \A i \in rows_of(r) : Newest(r, i)' <=> Newest(r, i)
  BY <1>6 DEF Newest
<1>10. /\ ContinuesChain(entry[w], r)
       /\ rows_of(r) = {} => r \notin DOMAIN chain_heads
       /\ \A i \in rows_of(r) : Newest(r, i) =>
            r \in DOMAIN chain_heads /\ chain_heads[r] = rows[i].entry.content_hash
  BY <1>4, <1>5 DEF Quiet, HeadChained
<1>11. \A i \in rows_of(r) : rows[i].seq < seq'[w]
  BY <1>1, <1>3, NextSeqAbove
<1>12. HeadChained(r)'
  BY <1>1, <1>6, <1>9, <1>10, <1>11 DEF HeadChained, ContinuesChain
<1>. QED BY <1>7, <1>8, <1>12 DEF Quiet, r

\* The head goes to the row the append has inserted.
LEMMA AdvanceKeepsQuiet ==
  ASSUME ChainInv, NEW w \in Writer, AdvanceHead(w), Quiet(RunOf[w])
  PROVE  Quiet(RunOf[w])'
<1>. DEFINE r == RunOf[w]
<1>1. /\ pc[w] = "head" /\ UNCHANGED <<rows, public_key, signer>>
      /\ pc'[w] = "idle" /\ \A v \in Writer : v # w => pc'[v] = pc[v]
      /\ r \in DOMAIN chain_heads' /\ chain_heads'[r] = entry[w].content_hash
  BY DEF AdvanceHead, ChainInv, Types
<1>2. w \in appending(r)
  BY <1>1 DEF appending
<1>3. rows_of(r) # {}
  <2>1. PICK i \in DOMAIN rows : rows[i].entry = entry[w]
    BY <1>1 DEF ChainInv, FlightsAreSealed
  <2>2. entry[w].run_id = r
    BY <1>1 DEF ChainInv, FlightsAreSealed, Busy
  <2>. QED BY <2>1, <2>2 DEF rows_of
<1>. HIDE DEF r
<1>4. Quiet(r)
  BY DEF r
<1>5. appending(r) = {w}
  BY <1>2, <1>4 DEF Quiet, HeadChained
<1>6. rows_of(r)' = rows_of(r) /\ appending(r)' = {}
  BY <1>1, <1>5 DEF rows_of, appending
<1>7. KeysAgree(r)'
  <2>1. public_key[r] = signer[r]
    BY <1>1, <1>4 DEF Quiet, KeysAgree, r
  <2>. QED BY <1>1, <1>4, <1>6, <2>1 DEF Quiet, KeysAgree
<1>8. RowsChained(r)'
  BY <1>1, <1>4, <1>6 DEF Quiet, RowsChained
<1>9. \A i \in rows_of(r) : Newest(r, i)' <=> Newest(r, i)
  BY <1>6 DEF Newest
<1>10. \A i \in rows_of(r) : Newest(r, i) => rows[i].entry = entry[w]
  BY <1>1, <1>2, <1>4 DEF Quiet, HeadChained
<1>11. HeadChained(r)'
  BY <1>1, <1>3, <1>6, <1>9, <1>10 DEF HeadChained
<1>. QED BY <1>7, <1>8, <1>11 DEF Quiet, r

\* The row inserted is the newest, linked to the one that was.
LEMMA InsertKeepsQuiet ==
  ASSUME AuditConstants, ChainInv, NEW w \in Writer, pc[w] = "insert",
         rows' = Append(rows, [entry |-> entry[w], seq |-> seq[w]]),
         pc' = [pc EXCEPT ![w] = "head"],
         UNCHANGED <<entry, seq, public_key, chain_heads, signer>>, Quiet(RunOf[w])
  PROVE  Quiet(RunOf[w])'
<1>. DEFINE r == RunOf[w]
            m == Len(rows) + 1
            R == rows_of(r)
            row == [entry |-> entry[w], seq |-> seq[w]]
<1>1. /\ DOMAIN rows' = 1 .. m /\ DOMAIN rows = 1 .. Len(rows) /\ Len(rows) \in Nat
      /\ \A i \in 1 .. Len(rows) : rows'[i] = rows[i]
      /\ rows'[m] = row
  <2>. DEFINE S == {rows[i] : i \in DOMAIN rows}
  <2>1. rows \in Seq(S)
    BY DEF ChainInv, Types
  <2>. HIDE DEF S, row
  <2>2. rows' = Append(rows, row)
    BY DEF row
  <2>. QED BY <2>1, <2>2, Appended
<1>2. rows'[m].entry = entry[w] /\ rows'[m].seq = seq[w]
  BY <1>1
<1>3. pc'[w] = "head" /\ \A v \in Writer : v # w => pc'[v] = pc[v]
  BY DEF ChainInv, Types
<1>4. w \in appending(r)
  BY DEF appending
<1>5. entry[w].run_id = r
  BY DEF ChainInv, FlightsAreSealed, Busy
<1>6. r \in Run
  BY AuditConstants
<1>. HIDE DEF r, m, row
<1>7. R \subseteq 1 .. Len(rows) /\ m \in Nat /\ \A i \in R : i < m /\ rows'[i] = rows[i] /\ i \in Nat
  BY <1>1 DEF rows_of, m
<1>8. rows_of(r)' = R \cup {m}
  <2>1. \A i \in 1 .. m : i = m \/ i \in 1 .. Len(rows)
    BY <1>1 DEF m
  <2>2. m \in 1 .. m /\ 1 .. Len(rows) \subseteq 1 .. m
    BY <1>1 DEF m
  <2>. QED BY <1>1, <1>2, <1>5, <2>1, <2>2 DEF rows_of
<1>9. Quiet(r)
  BY DEF r
<1>10. appending(r) = {w}
  BY <1>4, <1>9 DEF Quiet, HeadChained
<1>11. appending(r)' = {w}
  BY <1>3, <1>10 DEF appending
<1>. HIDE DEF R
<1>12. public_key[r] = signer[r] /\ signer[r] # NoKey
  <2>1. public_key[r] = signer[r]
    BY <1>9 DEF Quiet, KeysAgree, r
  <2>. QED BY <1>6, <2>1, AuditConstants DEF ChainInv, Types
<1>13. /\ entry[w].signature = sign(public_key[r], entry[w].content_hash)
       /\ \A i \in R : rows[i].entry.signature = sign(public_key[r], rows[i].entry.content_hash)
  BY <1>4, <1>9 DEF Quiet, KeysAgree, R
<1>14. KeysAgree(r)'
  BY <1>2, <1>7, <1>8, <1>11, <1>12, <1>13 DEF KeysAgree
<1>15. /\ R = {} => entry[w].prev_hash = ZeroHash
       /\ \A i \in R : Newest(r, i) => entry[w].prev_hash = rows[i].entry.content_hash
       /\ \A i \in R : rows[i].seq < seq[w]
  BY <1>4, <1>9 DEF Quiet, HeadChained, ContinuesChain, R
<1>16. ASSUME NEW j \in R \cup {m}
       PROVE  /\ (\A i \in R \cup {m} : i >= j) => rows'[j].entry.prev_hash = ZeroHash
              /\ \A i \in R \cup {m} : i < j =>
                   /\ rows'[i].seq < rows'[j].seq
                   /\ (\A x \in R \cup {m} : x <= i \/ x >= j) =>
                         rows'[j].entry.prev_hash = rows'[i].entry.content_hash
  <2>1. CASE j = m
    <3>1. (\A i \in R \cup {m} : i >= j) => R = {}
      BY <1>7, <2>1
    <3>2. ASSUME NEW i \in R, \A x \in R \cup {m} : x <= i \/ x >= j PROVE Newest(r, i)
      BY <1>7, <2>1, <3>2 DEF Newest, R
    <3>3. \A i \in R \cup {m} : i < j => i \in R
      BY <1>7, <2>1
    <3>. QED BY <1>2, <1>7, <1>15, <2>1, <3>1, <3>2, <3>3
  <2>2. CASE j \in R
    <3>1. /\ (\A i \in R : i >= j) => rows[j].entry.prev_hash = ZeroHash
          /\ \A i \in R : i < j =>
               /\ rows[i].seq < rows[j].seq
               /\ (\A x \in R : x <= i \/ x >= j) =>
                     rows[j].entry.prev_hash = rows[i].entry.content_hash
      BY <1>9, <2>2 DEF Quiet, RowsChained, R
    <3>2. \A i \in R \cup {m} : i < j => i \in R
      BY <1>7, <2>2
    <3>. QED BY <1>7, <2>2, <3>1, <3>2
  <2>. QED BY <2>1, <2>2
<1>17. RowsChained(r)'
  BY <1>8, <1>16 DEF RowsChained
<1>18. HeadChained(r)'
  <2>1. \A i \in rows_of(r)' : i = m \/ (i < m /\ m \in rows_of(r)')
    BY <1>7, <1>8
  <2>2. \A i \in rows_of(r)' : Newest(r, i)' => \A j \in rows_of(r)' : j <= i
    BY DEF Newest
  <2>3. \A i \in rows_of(r)' : i \in Nat
    BY <1>7, <1>8
  <2>4. \A i \in rows_of(r)' : Newest(r, i)' => i = m
    BY <1>7, <2>1, <2>2, <2>3
  <2>5. rows_of(r)' # {}
    BY <1>8
  <2>. QED BY <1>2, <1>3, <1>11, <2>4, <2>5 DEF HeadChained
<1>. QED BY <1>14, <1>17, <1>18 DEF Quiet, r

\* An append to another run leaves a run alone.
LEMMA AppendingElsewhere ==
  ASSUME ChainInv, NEW w \in Writer, NEW r \in Run, r # RunOf[w], Quiet(r),
         Link(w) \/ ReadSeq(w) \/ Insert(w) \/ AdvanceHead(w)
  PROVE  Quiet(r)'
<1>1. /\ UNCHANGED <<public_key, signer>>
      /\ \A v \in Writer : v # w => pc'[v] = pc[v] /\ entry'[v] = entry[v] /\ seq'[v] = seq[v]
  BY DEF Link, ReadSeq, Insert, AdvanceHead, Fail, ChainInv, Types
<1>2. appending(r)' = appending(r) /\ w \notin appending(r)
  BY <1>1 DEF appending
<1>3. /\ r \in DOMAIN chain_heads' <=> r \in DOMAIN chain_heads
      /\ r \in DOMAIN chain_heads => chain_heads'[r] = chain_heads[r]
  BY DEF Link, ReadSeq, Insert, AdvanceHead
<1>4. rows_of(r)' = rows_of(r) /\ \A i \in rows_of(r) : rows'[i] = rows[i]
  <2>1. CASE rows' = rows
    BY <2>1 DEF rows_of
  <2>. DEFINE row == [entry |-> entry[w], seq |-> seq[w]]
  <2>2. CASE pc[w] = "insert" /\ rows' = Append(rows, row)
    <3>. DEFINE S == {rows[i] : i \in DOMAIN rows}
    <3>1. rows \in Seq(S)
      BY DEF ChainInv, Types
    <3>2. row.entry = entry[w] /\ entry[w].run_id = RunOf[w]
      BY <2>2 DEF ChainInv, FlightsAreSealed, Busy
    <3>. HIDE DEF S, row
    <3>3. /\ DOMAIN rows' = 1 .. Len(rows) + 1 /\ DOMAIN rows = 1 .. Len(rows)
          /\ Len(rows) \in Nat /\ \A i \in 1 .. Len(rows) : rows'[i] = rows[i]
          /\ rows'[Len(rows) + 1] = row
      BY <2>2, <3>1, Appended
    <3>4. \A i \in DOMAIN rows' : i \in DOMAIN rows \/ i = Len(rows) + 1
      BY <3>3
    <3>5. \A i \in DOMAIN rows : i \in DOMAIN rows' /\ rows'[i] = rows[i]
      BY <3>3
    <3>. QED BY <3>2, <3>3, <3>4, <3>5 DEF rows_of
  <2>3. rows' = rows \/ (pc[w] = "insert" /\ rows' = Append(rows, row))
    BY DEF Link, ReadSeq, Insert, AdvanceHead
  <2>. QED BY <2>1, <2>2, <2>3
<1>5. \A v \in Writer : RunOf[v] = r /\ pc'[v] \notin {"new", "panicked"} =>
                          public_key'[r] = signer'[r]
  BY <1>1 DEF Quiet, KeysAgree
<1>6. \A v \in appending(r) : pc'[v] = pc[v] /\ entry'[v] = entry[v] /\ seq'[v] = seq[v]
  BY <1>1, <1>2 DEF appending
<1>7. public_key'[r] = public_key[r]
  BY <1>1
<1>. QED BY <1>2, <1>3, <1>4, <1>5, <1>6, <1>7, OthersKeepQuiet

\* Each action keeps the runs quiet that it does not disturb.
LEMMA StepQuiet == ChainInv /\ QuietInv /\ [Next]_vars => QuietInv'
<1>. SUFFICES ASSUME ChainInv, QuietInv, [Next]_vars, NEW r \in Run, Undisturbed(r)'
              PROVE  Quiet(r)'
  BY DEF QuietInv
<1>1. Undisturbed(r)
  BY DEF Undisturbed, Next, Register, scrub_or_panic, Link, ReadSeq, Insert, AdvanceHead,
         Restart, vars
<1>2. Quiet(r)
  BY <1>1 DEF QuietInv
<1>3. ASSUME NEW w \in Writer, Register(w) PROVE Quiet(r)'
  <2>1. /\ UNCHANGED <<rows, chain_heads, signer, entry, seq>> /\ pc[w] = "new" /\ pc'[w] = "idle"
        /\ \A v \in Writer : v # w => pc'[v] = pc[v]
    BY <1>3 DEF Register, ChainInv, Types
  <2>2. appending(r)' = appending(r) /\ w \notin appending(r)
    BY <2>1 DEF appending
  <2>3. public_key[r] # NoKey => public_key'[r] = public_key[r]
    BY <1>3 DEF Register, ChainInv, Types
  <2>4. rows_of(r) # {} \/ appending(r) # {} => public_key[r] # NoKey
    <3>1. \A v \in appending(r) : public_key[r] = signer[r]
      BY <1>2 DEF Quiet, KeysAgree, appending
    <3>. QED BY <1>2, <3>1, AuditConstants DEF Quiet, KeysAgree, ChainInv, Types
  <2>5. RunOf[w] = r => public_key'[r] = signer[r]
    BY <1>3 DEF Register, Undisturbed
  <2>6. ASSUME NEW v \in Writer, RunOf[v] = r, pc'[v] \notin {"new", "panicked"}
        PROVE  public_key'[r] = signer'[r]
    <3>1. CASE v = w
      BY <2>1, <2>5, <2>6, <3>1
    <3>2. CASE v # w
      <4>1. public_key[r] = signer[r] /\ signer[r] \in Key
        BY <1>2, <2>1, <2>6, <3>2 DEF Quiet, KeysAgree, ChainInv, Types
      <4>. QED BY <2>1, <2>3, <4>1, AuditConstants
    <3>. QED BY <3>1, <3>2
  <2>7. rows_of(r)' = rows_of(r)
    BY <2>1 DEF rows_of
  <2>8. \A v \in appending(r) : pc'[v] = pc[v] /\ entry'[v] = entry[v] /\ seq'[v] = seq[v]
    BY <2>1, <2>2 DEF appending
  <2>9. \A i \in rows_of(r) : rows'[i] = rows[i]
    BY <2>1
  <2>10. rows_of(r) # {} \/ appending(r) # {} => public_key'[r] = public_key[r]
    BY <2>3, <2>4
  <2>. QED BY <1>2, <2>1, <2>2, <2>6, <2>7, <2>8, <2>9, <2>10, OthersKeepQuiet
<1>4. ASSUME NEW w \in Writer, scrub_or_panic(w) PROVE Quiet(r)'
  <2>1. /\ UNCHANGED <<rows, public_key, chain_heads, signer, entry, seq>>
        /\ pc[w] = "idle" /\ pc'[w] = "panicked" /\ \A v \in Writer : v # w => pc'[v] = pc[v]
    BY <1>4 DEF scrub_or_panic, ChainInv, Types
  <2>2. appending(r)' = appending(r) /\ w \notin appending(r) /\ rows_of(r)' = rows_of(r)
    BY <2>1 DEF appending, rows_of
  <2>3. \A v \in Writer : RunOf[v] = r /\ pc'[v] \notin {"new", "panicked"} =>
                            public_key'[r] = signer'[r]
    BY <1>2, <2>1 DEF Quiet, KeysAgree
  <2>4. \A v \in appending(r) : pc'[v] = pc[v] /\ entry'[v] = entry[v] /\ seq'[v] = seq[v]
    BY <2>1, <2>2 DEF appending
  <2>. QED BY <1>2, <2>1, <2>2, <2>3, <2>4, OthersKeepQuiet
<1>5. ASSUME NEW w \in Writer, Link(w) \/ ReadSeq(w) \/ Insert(w) \/ AdvanceHead(w)
      PROVE  Quiet(r)'
  <2>1. CASE r # RunOf[w]
    BY <1>2, <1>5, <2>1, AppendingElsewhere
  <2>2. CASE r = RunOf[w]
    <3>1. CASE Link(w)
      BY <1>2, <2>2, <3>1, LinkKeepsQuiet
    <3>2. CASE ReadSeq(w)
      <4>1. CASE Fail(w)
        BY <1>2, <2>2, <3>2, <4>1, FailKeepsQuiet DEF ReadSeq
      <4>2. CASE seq' = [seq EXCEPT ![w] = next_seq(RunOf[w])]
                   /\ pc' = [pc EXCEPT ![w] = "insert"] /\ UNCHANGED entry
        BY <1>2, <2>2, <3>2, <4>2, AuditConstants, ReadSeqKeepsQuiet DEF ReadSeq
      <4>. QED BY <3>2, <4>1, <4>2 DEF ReadSeq
    <3>3. CASE Insert(w)
      <4>1. CASE Fail(w) /\ UNCHANGED rows
        BY <1>2, <2>2, <3>3, <4>1, FailKeepsQuiet DEF Insert
      <4>2. CASE rows' = Append(rows, [entry |-> entry[w], seq |-> seq[w]])
                   /\ pc' = [pc EXCEPT ![w] = "head"] /\ UNCHANGED <<entry, seq>>
        BY <1>2, <2>2, <3>3, <4>2, AuditConstants, InsertKeepsQuiet DEF Insert
      <4>. QED BY <3>3, <4>1, <4>2 DEF Insert
    <3>4. CASE AdvanceHead(w)
      BY <1>2, <2>2, <3>4, AdvanceKeepsQuiet
    <3>. QED BY <1>5, <3>1, <3>2, <3>3, <3>4
  <2>. QED BY <2>1, <2>2
<1>6. CASE Restart
  <2>1. rows_of(r) = {}
    BY <1>6 DEF Restart, Undisturbed
  <2>2. /\ rows' = rows /\ DOMAIN chain_heads' = {} /\ pc' = [w \in Writer |-> "new"]
    BY <1>6 DEF Restart
  <2>3. rows_of(r)' = {} /\ appending(r)' = {} /\ \A w \in Writer : pc'[w] = "new"
    BY <2>1, <2>2 DEF rows_of, appending
  <2>4. KeysAgree(r)' /\ RowsChained(r)'
    BY <2>3 DEF KeysAgree, RowsChained
  <2>5. HeadChained(r)'
    BY <2>2, <2>3 DEF HeadChained
  <2>. QED BY <2>4, <2>5 DEF Quiet
<1>7. CASE UNCHANGED vars
  <2>1. UNCHANGED <<rows, public_key, chain_heads, signer, pc, entry, seq>>
    BY <1>7 DEF vars
  <2>2. rows_of(r)' = rows_of(r) /\ appending(r)' = appending(r)
    BY <2>1 DEF rows_of, appending
  <2>3. \A v \in Writer : RunOf[v] = r /\ pc'[v] \notin {"new", "panicked"} =>
                            public_key'[r] = signer'[r]
    BY <1>2, <2>1 DEF Quiet, KeysAgree
  <2>. QED BY <1>2, <2>1, <2>2, <2>3, OthersKeepQuiet
<1>. QED BY <1>3, <1>4, <1>5, <1>6, <1>7 DEF Next

\* A quiet run is exported in the order of its links, and verifies.
LEMMA QuietVerifies == ChainInv /\ QuietInv => UndisturbedChainVerifies
<1>. SUFFICES ASSUME ChainInv, QuietInv, NEW r \in Run, Undisturbed(r)
              PROVE  verdict(r) = "Ok"
  BY DEF UndisturbedChainVerifies, Undisturbed
<1>. DEFINE s == export(r)
            R == rows_of(r)
            n == Cardinality(R)
            key == get_verify_key(r)
<1>1. Quiet(r)
  BY DEF QuietInv
<1>2. /\ DOMAIN s = 1 .. n /\ n \in Nat
      /\ \A i \in R : s[Place(r, i) + 1] = rows[i].entry
      /\ \A k \in 1 .. n : \E i \in R : Place(r, i) = k - 1
  BY Exported DEF ChainInv
<1>3. \A i \in R : i \in Nat /\ rows[i].seq \in Nat
  BY RowsOfRun DEF ChainInv
<1>4. \A i, j \in R : i < j => Before(i, j)
  BY <1>1 DEF Quiet, RowsChained, Before
<1>5. \A i, j \in R : i < j => Place(r, i) < Place(r, j)
  BY <1>4, PlaceGrows DEF ChainInv
<1>6. \A i \in R : Place(r, i) \in Nat
  <2>1. ASSUME NEW i \in R PROVE Place(r, i) \in Nat
    <3>1. Place(r, i) \in 0 .. n - 1
      BY PlaceGrows DEF ChainInv
    <3>. HIDE DEF n
    <3>. QED BY <1>2, <3>1
  <2>. QED BY <2>1
<1>. HIDE DEF s, n
<1>7. ASSUME NEW k \in 1 .. n PROVE entry_fault(s, key, k) = "Ok"
  <2>1. PICK i \in R : Place(r, i) = k - 1
    BY <1>2
  <2>2. s[k] = rows[i].entry
    <3>1. Place(r, i) + 1 = k
      BY <1>2, <2>1
    <3>. QED BY <1>2, <3>1
  <2>3. rows[i].entry.content_hash = compute_content_hash(rows[i].entry)
    BY DEF ChainInv, RowsAreSealed, Sealed, rows_of
  <2>4. rows[i].entry.signature = sign(key, rows[i].entry.content_hash)
    BY <1>1 DEF Quiet, KeysAgree, get_verify_key
  <2>5. CASE k = 1
    <3>1. \A j \in R : j >= i
      BY <1>3, <1>5, <1>6, <2>1, <2>5
    <3>2. rows[i].entry.prev_hash = ZeroHash
      BY <1>1, <3>1 DEF Quiet, RowsChained
    <3>. QED BY <2>2, <2>3, <2>4, <2>5, <3>2, Faultless
  <2>6. CASE k # 1
    <3>1. k - 1 \in 1 .. n
      BY <1>2, <2>6
    <3>2. PICK h \in R : Place(r, h) = (k - 1) - 1
      BY <1>2, <3>1
    <3>3. s[k - 1] = rows[h].entry
      <4>1. Place(r, h) + 1 = k - 1
        BY <3>1, <3>2
      <4>. QED BY <1>2, <4>1
    <3>. DEFINE p(x) == Place(r, x)
    <3>4. /\ \A x, y \in R : x < y => p(x) < p(y)
          /\ \A x \in R : p(x) \in Nat /\ x \in Nat
          /\ p(i) = k - 1 /\ p(h) = (k - 1) - 1 /\ k \in Nat
      BY <1>2, <1>3, <1>5, <1>6, <2>1, <3>2
    <3>. HIDE DEF p, R
    <3>5. h < i
      BY <3>4
    <3>6. \A x \in R : x <= h \/ x >= i
      BY <3>4
    <3>7. rows[i].entry.prev_hash = rows[h].entry.content_hash
      BY <1>1, <3>5, <3>6 DEF Quiet, RowsChained, R
    <3>. QED BY <2>2, <2>3, <2>4, <2>6, <3>3, <3>7, Faultless
  <2>. QED BY <2>5, <2>6
<1>8. verify_chain(s, key) = "Ok"
  <2>. HIDE DEF key
  <2>. QED BY <1>2, <1>7, VerifiedIsFaultless
<1>. QED BY <1>8 DEF verdict, s

----------------------------------------------------------------------------
\* append in store.rs reads the head, links an entry to it, and then reads the number of
\* its row, with no lock held over these: two tasks may link to one entry, or draw one
\* number. Whatever tasks append, fail and start again, verify_chain refuses the run in
\* which they did.
THEOREM RaceIsNoticed == Spec => []RaceIsDetected
<1>1. ChainInv => RaceIsDetected
  <2>. SUFFICES ASSUME ChainInv, NEW r \in Run, NEW i \in rows_of(r), NEW j \in rows_of(r), i < j,
                       \/ rows[i].seq = rows[j].seq
                       \/ rows[i].entry.prev_hash = rows[j].entry.prev_hash
                PROVE  verdict(r) # "Ok"
    BY DEF RaceIsDetected
  <2>1. i # j
    BY RowsOfRun DEF ChainInv
  <2>. QED BY <2>1, SharedSeqBreaks, SharedLinkBreaks
<1>. QED BY InitChain, StepChain, <1>1, PTL DEF Spec

\* What verify_chain accepts, it accepts only as it was written: with a body changed,
\* an entry dropped or two exchanged, hashed anew or not, the export is refused.
THEOREM TamperingIsEvident == Spec => []TamperEvident
<1>. QED BY InitChain, StepChain, AlteredIsFound, PTL DEF Spec

\* A run whose appends in store.rs never overlapped, in one life of the process and with
\* one key, verifies at every moment: behind a query that failed, too, and whatever
\* other runs the store holds.
THEOREM UndisturbedVerifies == Spec => []UndisturbedChainVerifies
<1>1. Init => ChainInv /\ QuietInv
  BY InitChain, InitQuiet
<1>2. ChainInv /\ QuietInv /\ [Next]_vars => (ChainInv /\ QuietInv)'
  BY StepChain, StepQuiet
<1>. QED BY <1>1, <1>2, QuietVerifies, PTL DEF Spec
=============================================================================

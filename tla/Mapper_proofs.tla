--------------------------- MODULE Mapper_proofs ---------------------------
(***************************************************************************)
(* The service, for every set of tasks, pairs, types, seed files and       *)
(* answers of the registries: a search never meets a vector without its    *)
(* schema, what it answers with is in the schemas, and what calls have     *)
(* stored is found.                                                        *)
(* And a Mapper on it, for every estate, target and answer of the model:   *)
(* it only reads the service, the model is told types the schemas of the   *)
(* target have, and what is answered was validated.                        *)
(***************************************************************************)
EXTENDS Mapper, TLAPS

\* Each type of an acknowledged schema has a vector: upsert takes none away.
AcknowledgedHaveVectors ==
  \A s \in acknowledged : \A type \in s.types : HasVector(s.pair, type)

\* Each type of a row has a vector, or a call that is about to embed has it.
RowsAreCovered ==
  ~interrupted =>
    \A p \in Pairs : HasRow(p) =>
      \A type \in rows[p] :
        \/ HasVector(p, type)
        \/ \E t \in Tasks : /\ At(t, "embed")
                            /\ task[t].schema.pair = p /\ type \in task[t].schema.types

IInv == TypeOK /\ VectorsHaveRows /\ FoundHaveSchemas
          /\ AcknowledgedHaveVectors /\ RowsAreCovered

----------------------------------------------------------------------------
(* The stores *)

\* Every row of vectors is that of its pair and type.
LEMMA VectorOfItself ==
  ASSUME NEW v \in VectorRows
  PROVE  v.pair \in Pairs /\ v.type \in Types /\ v = Vector(v.pair, v.type)
  BY DEF VectorRows, Vector, VectorId

\* InMemoryVectorStore::upsert takes away no vector's pair and type, since a row it
\* replaces is one of those it adds, and it has a vector for each it was given.
LEMMA UpsertKeepsVectors ==
  ASSUME NEW schema \in Schemas, vectors \subseteq VectorRows,
         vectors' = upserted(schema)
  PROVE  /\ vectors' \subseteq VectorRows
         /\ \A p \in Pairs : \A type \in Types :
              HasVector(p, type) => HasVector(p, type)'
         /\ \A type \in schema.types : HasVector(schema.pair, type)'
         /\ \A v \in vectors' : v \in vectors \/ v.pair = schema.pair
<1>. DEFINE new == {Vector(schema.pair, type) : type \in schema.types}
<1>1. schema.pair \in Pairs /\ schema.types \subseteq Types
  BY DEF Schemas
<1>2. vectors' = {v \in vectors : \A n \in new : n.id # v.id} \cup new
  BY DEF upserted
<1>3. new \subseteq VectorRows /\ \A n \in new : n.pair = schema.pair
  BY <1>1 DEF VectorRows, Vector
<1>4. ASSUME NEW p \in Pairs, NEW type \in Types, HasVector(p, type)
      PROVE  HasVector(p, type)'
  <2>1. PICK v \in vectors : v.pair = p /\ v.type = type
    BY <1>4 DEF HasVector
  <2>2. CASE \E n \in new : n.id = v.id
    <3>1. PICK n \in new : n.id = v.id
      BY <2>2
    <3>2. n = Vector(n.pair, n.type) /\ v = Vector(v.pair, v.type)
      BY <1>3, VectorOfItself
    <3>3. n.pair = v.pair /\ n.type = v.type
      BY <3>1, <3>2 DEF Vector, VectorId
    <3>. QED BY <3>3, <2>1, <1>2 DEF HasVector
  <2>3. CASE \A n \in new : n.id # v.id
    BY <2>3, <2>1, <1>2 DEF HasVector
  <2>. QED BY <2>2, <2>3
<1>5. ASSUME NEW type \in schema.types
      PROVE  HasVector(schema.pair, type)'
  <2>1. Vector(schema.pair, type) \in vectors'
    BY <1>2
  <2>2. \E v \in vectors' : v.pair = schema.pair /\ v.type = type
    BY <2>1 DEF Vector
  <2>. QED BY <2>2 DEF HasVector
<1>. QED BY <1>2, <1>3, <1>4, <1>5

\* LocalSchemaStore::cache_schema keeps the rows that are there, and gives the
\* schema's pair one.
LEMMA CachedKeepsRows ==
  ASSUME NEW schema \in Schemas, rows \in [Pairs -> (SUBSET Types) \cup {NoRow}],
         rows' = cached(schema)
  PROVE  /\ rows' \in [Pairs -> (SUBSET Types) \cup {NoRow}]
         /\ \A p \in Pairs : HasRow(p) => rows'[p] = rows[p]
         /\ \A p \in Pairs : p # schema.pair => rows'[p] = rows[p]
         /\ HasRow(schema.pair)'
         /\ ~HasRow(schema.pair) => rows'[schema.pair] = schema.types
<1>1. schema.pair \in Pairs /\ schema.types \in SUBSET Types
  BY DEF Schemas
<1>2. NoRow \notin SUBSET Types
  BY PairsAreGiven DEF NoRow
<1>. QED BY <1>1, <1>2 DEF cached, HasRow

\* A task without a call is in one of the task's states.
LEMMA IdleIsTaskState == Idle \in TaskStates /\ Idle.pc = "idle" /\ Idle.hits = {}
<1>1. (CHOOSE p \in Pairs : TRUE) \in Pairs
  BY PairsAreGiven
<1>. QED BY <1>1 DEF Idle, TaskStates, Schema, Schemas

----------------------------------------------------------------------------
(* The types *)

\* The initial state is type-correct.
LEMMA InitTypeOK == Init => TypeOK
<1>. SUFFICES ASSUME Init PROVE TypeOK
  OBVIOUS
<1>1. rows \in [Pairs -> (SUBSET Types) \cup {NoRow}]
  BY DEF Init
<1>2. \A t \in Tasks : task[t] = Idle
  BY DEF Init
<1>3. task \in [Tasks -> TaskStates]
  BY IdleIsTaskState DEF Init
<1>4. \A t \in Tasks : ~At(t, "fetch")
  BY <1>2, IdleIsTaskState DEF At
<1>. QED BY <1>1, <1>3, <1>4 DEF Init, TypeOK

\* A step that puts one task at a state of the right shape keeps the tasks' types.
LEMMA TaskStep ==
  ASSUME TypeOK, NEW t \in Tasks, NEW s \in TaskStates,
         task' = [task EXCEPT ![t] = s], s.pc = "fetch" => s.wanted # <<>>
  PROVE  /\ task' \in [Tasks -> TaskStates]
         /\ \A u \in Tasks : At(u, "fetch")' => task'[u].wanted # <<>>
  BY DEF TypeOK, At

\* Every step keeps the types.
LEMMA StepTypeOK == TypeOK /\ [Next]_vars => TypeOK'
<1>. SUFFICES ASSUME TypeOK, [Next]_vars PROVE TypeOK'
  OBVIOUS
<1>a. task \in [Tasks -> TaskStates]
  BY DEF TypeOK
<1>1. ASSUME NEW t \in Tasks, NEW operation \in {"sync", "seed", "launch"},
             NEW fs \in SUBSET Bundle, NEW wanted \in Seq(Pairs),
             Begin(t, operation, fs, wanted)
      PROVE  TypeOK'
  <2>1. [Idle EXCEPT !.pc = "next", !.operation = operation,
                     !.files = fs, !.wanted = wanted] \in TaskStates
    BY IdleIsTaskState DEF TaskStates
  <2>. QED BY <1>1, <2>1, TaskStep DEF Begin, TypeOK, At, StoresUnchanged, TaskStates
<1>2. ASSUME NEW t \in Tasks, SyncProvider(t) PROVE TypeOK'
  <2>1. PICK p \in Pairs : Begin(t, "sync", {}, <<p>>)
    BY <1>2 DEF SyncProvider
  <2>2. <<p>> \in Seq(Pairs)
    OBVIOUS
  <2>. QED BY <1>1, <2>1, <2>2
<1>3. ASSUME NEW t \in Tasks, SeedFromBundle(t) PROVE TypeOK'
  <2>1. <<>> \in Seq(Pairs) /\ Bundle \in SUBSET Bundle
    OBVIOUS
  <2>. QED BY <1>1, <1>3, <2>1 DEF SeedFromBundle
<1>4. ASSUME NEW t \in Tasks, FirstLaunchSync(t) PROVE TypeOK'
  BY <1>1, <1>4, PairsAreGiven DEF FirstLaunchSync
<1>5. ASSUME NEW t \in Tasks, Return(t),
             rows' = rows, vectors' = vectors, acknowledged' = acknowledged,
             interrupted' \in BOOLEAN
      PROVE  TypeOK'
  BY <1>5, IdleIsTaskState, TaskStep DEF Return, TypeOK
<1>6. ASSUME NEW t \in Tasks, FindSimilar(t) PROVE TypeOK'
  <2>1. [Idle EXCEPT !.pc = "next", !.operation = "find"] \in TaskStates
    BY IdleIsTaskState DEF TaskStates
  <2>. QED BY <1>6, <2>1, TaskStep DEF FindSimilar, TypeOK, At, StoresUnchanged,
             HistoryUnchanged, TaskStates
<1>7. ASSUME NEW t \in Tasks, SeedFile(t) PROVE TypeOK'
  BY <1>7, BundleIsSchemas
     DEF SeedFile, TypeOK, At, StoresUnchanged, HistoryUnchanged, TaskStates
<1>8. ASSUME NEW t \in Tasks, NextPair(t) PROVE TypeOK'
  <2>1. task[t].wanted \in Seq(Pairs) /\ task[t].wanted # <<>>
    BY <1>8 DEF NextPair, TypeOK, TaskStates
  <2>2. CASE Goto(t, "fetch")
    BY <1>8, <2>1, <2>2
       DEF NextPair, Goto, TypeOK, At, StoresUnchanged, HistoryUnchanged, TaskStates
  <2>3. CASE task' = [task EXCEPT ![t].wanted = Tail(@)]
    <3>1. Tail(task[t].wanted) \in Seq(Pairs)
      BY <2>1
    <3>. QED BY <1>8, <2>3, <3>1
           DEF NextPair, TypeOK, At, StoresUnchanged, HistoryUnchanged, TaskStates
  <2>. QED BY <1>8, <2>2, <2>3 DEF NextPair
<1>9. ASSUME NEW t \in Tasks, Fetch(t) PROVE TypeOK'
  <2>1. task[t].wanted \in Seq(Pairs) /\ task[t].wanted # <<>>
    BY <1>9 DEF Fetch, TypeOK, TaskStates
  <2>2. Head(task[t].wanted) \in Pairs /\ Tail(task[t].wanted) \in Seq(Pairs)
    BY <2>1
  <2>3. ASSUME NEW types \in Registry[Head(task[t].wanted)]
        PROVE  Schema(Head(task[t].wanted), types) \in Schemas
    BY <2>2, PairsAreGiven DEF Schema, Schemas
  <2>. QED BY <1>9, <2>2, <2>3
           DEF Fetch, TypeOK, At, StoresUnchanged, HistoryUnchanged, TaskStates
<1>10. ASSUME NEW t \in Tasks, FetchFails(t) PROVE TypeOK'
  <2>1. CASE task[t].operation = "sync"
    BY <1>10, <2>1, <1>5 DEF FetchFails, StoresUnchanged, HistoryUnchanged, TypeOK
  <2>2. CASE task[t].operation # "sync"
    <3>1. task[t].wanted \in Seq(Pairs) /\ task[t].wanted # <<>>
      BY <1>10 DEF FetchFails, TypeOK, TaskStates
    <3>2. Tail(task[t].wanted) \in Seq(Pairs)
      BY <3>1
    <3>3. task' = [task EXCEPT ![t].pc = "next", ![t].wanted = Tail(@)]
      BY <1>10, <2>2 DEF FetchFails
    <3>. QED BY <1>10, <3>2, <3>3
           DEF FetchFails, StoresUnchanged, HistoryUnchanged, TypeOK, At, TaskStates
  <2>. QED BY <2>1, <2>2
<1>11. ASSUME NEW t \in Tasks, CacheSchema(t) PROVE TypeOK'
  <2>1. task[t].schema \in Schemas
    BY <1>a DEF TaskStates
  <2>2. rows' \in [Pairs -> (SUBSET Types) \cup {NoRow}]
    BY <1>11, <2>1, CachedKeepsRows DEF CacheSchema, TypeOK
  <2>3. PICK pc \in {"next", "embed"} : Goto(t, pc)
    BY <1>11 DEF CacheSchema
  <2>4. /\ task' \in [Tasks -> TaskStates]
        /\ \A u \in Tasks : At(u, "fetch")' => task'[u].wanted # <<>>
    BY <2>3 DEF Goto, TypeOK, At, TaskStates
  <2>. QED BY <1>11, <2>2, <2>4 DEF CacheSchema, TypeOK, HistoryUnchanged
<1>12. ASSUME NEW t \in Tasks, CacheFails(t) \/ EmbedFails(t) \/ Finish(t) \/ Answer(t)
       PROVE  TypeOK'
  BY <1>12, <1>5
     DEF CacheFails, EmbedFails, Finish, Answer, StoresUnchanged, HistoryUnchanged, TypeOK
<1>13. ASSUME NEW t \in Tasks, Embed(t) PROVE TypeOK'
  <2>1. task[t].schema \in Schemas
    BY <1>a DEF TaskStates
  <2>2. vectors' \subseteq VectorRows
    BY <1>13, <2>1, UpsertKeepsVectors DEF Embed, TypeOK
  <2>. QED BY <1>13, <2>1, <2>2 DEF Embed, Goto, TypeOK, At, TaskStates
<1>14. ASSUME NEW t \in Tasks, Search(t) PROVE TypeOK'
  <2>1. ASSUME NEW hits \in nearest(TopK) PROVE hits \subseteq VectorRows
    BY <2>1 DEF nearest, TypeOK
  <2>2. CASE Return(t)
    BY <1>14, <2>2, <1>5 DEF Search, StoresUnchanged, HistoryUnchanged, TypeOK
  <2>3. ASSUME NEW hits \in nearest(TopK),
               task' = [task EXCEPT ![t].pc = "resolve", ![t].hits = hits]
        PROVE  TypeOK'
    <3>1. hits \in SUBSET VectorRows
      BY <2>1
    <3>. QED BY <1>14, <2>3, <3>1
           DEF Search, TypeOK, At, StoresUnchanged, HistoryUnchanged, TaskStates
  <2>. QED BY <1>14, <2>2, <2>3 DEF Search
<1>15. ASSUME NEW t \in Tasks, Resolve(t) PROVE TypeOK'
  <2>1. CASE Return(t)
    BY <1>15, <2>1, <1>5 DEF Resolve, StoresUnchanged, HistoryUnchanged, TypeOK
  <2>2. CASE task' = [task EXCEPT ![t].pc = "found", ![t].hits = resolved(@)]
    BY <1>15, <2>2
       DEF Resolve, resolved, TypeOK, At, StoresUnchanged, HistoryUnchanged, TaskStates
  <2>. QED BY <1>15, <2>1, <2>2 DEF Resolve
<1>16. CASE Restart
  <2>1. rows' \in [Pairs -> (SUBSET Types) \cup {NoRow}]
    BY <1>16 DEF Restart, TypeOK
  <2>2. task' \in [Tasks -> TaskStates] /\ \A t \in Tasks : ~At(t, "fetch")'
    BY <1>16, IdleIsTaskState DEF Restart, At
  <2>. QED BY <1>16, <2>1, <2>2, DurableIsBoolean DEF Restart, TypeOK
<1>17. CASE UNCHANGED vars
  BY <1>17 DEF vars, TypeOK, At
<1>. QED BY <1>2, <1>3, <1>4, <1>6, <1>7, <1>8, <1>9, <1>10, <1>11, <1>12, <1>13, <1>14,
            <1>15, <1>16, <1>17 DEF Next, Step

\* The types of the variables, of every state the service can come to.
THEOREM TypeCorrect == Spec => []TypeOK
  BY InitTypeOK, StepTypeOK, PTL DEF Spec

----------------------------------------------------------------------------
(* What is stored and what is found *)

\* The steps that write to no store and give up no embedding.
Quiet(t) ==
  \/ SyncProvider(t) \/ SeedFromBundle(t) \/ FirstLaunchSync(t) \/ FindSimilar(t)
  \/ SeedFile(t) \/ NextPair(t) \/ Fetch(t) \/ FetchFails(t) \/ CacheFails(t)
  \/ Finish(t) \/ Search(t) \/ Resolve(t) \/ Answer(t)

\* What such a step leaves as it is, and what it may do to the hits of a search.
KeepsStored ==
  /\ rows' = rows /\ vectors' = vectors
  /\ acknowledged' = acknowledged /\ interrupted' = interrupted
  /\ \A u \in Tasks : At(u, "embed")' => At(u, "embed")
  /\ \A u \in Tasks : At(u, "embed") => task'[u] = task[u]
  /\ \A u \in Tasks : \A h \in task'[u].hits : h \in task[u].hits \/ h \in vectors
  /\ \A u \in Tasks : At(u, "found")' =>
       \/ At(u, "found") /\ task'[u] = task[u]
       \/ resolvable(task[u].hits) /\ task'[u].hits = resolved(task[u].hits)

\* A quiet step keeps what is stored as it is.
LEMMA QuietKeepsStored ==
  ASSUME TypeOK, NEW t \in Tasks, Quiet(t)
  PROVE  KeepsStored
<1>. USE DEF KeepsStored, At, StoresUnchanged, HistoryUnchanged
<1>a. task \in [Tasks -> TaskStates]
  BY DEF TypeOK
<1>b. Idle.pc = "idle" /\ Idle.hits = {}
  BY DEF Idle
<1>c. Idle = [pc |-> "idle", operation |-> Idle.operation, files |-> Idle.files,
              wanted |-> Idle.wanted, schema |-> Idle.schema, hits |-> {}]
  BY DEF Idle
<1>1. ASSUME NEW s, task' = [task EXCEPT ![t] = s], ~At(t, "embed"),
             s.hits = {}, s.pc \in {"idle", "next"},
             rows' = rows, vectors' = vectors,
             acknowledged' = acknowledged, interrupted' = interrupted
      PROVE  KeepsStored
  BY <1>1, <1>a
<1>2. ASSUME NEW operation, NEW fs, NEW wanted, Begin(t, operation, fs, wanted)
      PROVE  KeepsStored
  <2>. DEFINE s == [Idle EXCEPT !.pc = "next", !.operation = operation,
                                !.files = fs, !.wanted = wanted]
  <2>1. s.pc = "next" /\ s.hits = {}
    BY <1>c
  <2>2. task' = [task EXCEPT ![t] = s] /\ ~At(t, "embed")
    BY <1>2 DEF Begin
  <2>. QED BY <1>1, <1>2, <2>1, <2>2 DEF Begin
<1>3. CASE SyncProvider(t) \/ SeedFromBundle(t) \/ FirstLaunchSync(t)
  BY <1>2, <1>3 DEF SyncProvider, SeedFromBundle, FirstLaunchSync
<1>4. CASE FindSimilar(t)
  <2>. DEFINE s == [Idle EXCEPT !.pc = "next", !.operation = "find"]
  <2>1. s.pc = "next" /\ s.hits = {}
    BY <1>c
  <2>2. task' = [task EXCEPT ![t] = s] /\ ~At(t, "embed")
    BY <1>4 DEF FindSimilar
  <2>. QED BY <1>1, <1>4, <2>1, <2>2 DEF FindSimilar
<1>5. ASSUME Return(t), ~At(t, "embed"), StoresUnchanged,
             acknowledged' = acknowledged, interrupted' = interrupted
      PROVE  KeepsStored
  BY <1>1, <1>5, <1>b DEF Return
<1>6. CASE CacheFails(t) \/ Finish(t) \/ Answer(t)
  BY <1>5, <1>6 DEF CacheFails, Finish, Answer
<1>7. CASE SeedFile(t)
  BY <1>7, <1>a DEF SeedFile, TaskStates
<1>8. CASE NextPair(t)
  <2>1. At(t, "next") /\ StoresUnchanged /\ HistoryUnchanged
    BY <1>8 DEF NextPair
  <2>2. CASE Goto(t, "fetch")
    BY <2>1, <2>2, <1>a DEF Goto, TaskStates
  <2>3. CASE task' = [task EXCEPT ![t].wanted = Tail(@)]
    BY <2>1, <2>3, <1>a DEF TaskStates
  <2>. QED BY <1>8, <2>2, <2>3 DEF NextPair
<1>9. CASE Fetch(t)
  BY <1>9, <1>a DEF Fetch, TaskStates
<1>10. CASE FetchFails(t)
  <2>1. CASE Return(t)
    BY <1>5, <1>10, <2>1 DEF FetchFails
  <2>2. CASE task' = [task EXCEPT ![t].pc = "next", ![t].wanted = Tail(@)]
    BY <1>10, <1>a, <2>2 DEF FetchFails, TaskStates
  <2>. QED BY <1>10, <2>1, <2>2 DEF FetchFails
<1>11. CASE Search(t)
  <2>1. CASE Return(t)
    BY <1>5, <1>11, <2>1 DEF Search
  <2>2. ASSUME NEW hits \in nearest(TopK),
               task' = [task EXCEPT ![t].pc = "resolve", ![t].hits = hits]
        PROVE  KeepsStored
    <3>1. hits \subseteq vectors
      BY DEF nearest
    <3>. QED BY <1>11, <1>a, <2>2, <3>1 DEF Search, TaskStates
  <2>. QED BY <1>11, <2>1, <2>2 DEF Search
<1>12. CASE Resolve(t)
  <2>1. CASE Return(t)
    BY <1>5, <1>12, <2>1 DEF Resolve
  <2>2. CASE /\ resolvable(task[t].hits)
             /\ task' = [task EXCEPT ![t].pc = "found", ![t].hits = resolved(@)]
    <3>1. resolved(task[t].hits) \subseteq task[t].hits
      BY DEF resolved
    <3>. QED BY <1>12, <1>a, <2>2, <3>1 DEF Resolve, TaskStates
  <2>. QED BY <1>12, <2>1, <2>2 DEF Resolve
<1>. QED BY <1>3, <1>4, <1>6, <1>7, <1>8, <1>9, <1>10, <1>11, <1>12 DEF Quiet

\* The initial state satisfies the inductive invariant.
LEMMA InitIInv == Init => IInv
<1>. SUFFICES ASSUME Init PROVE IInv
  OBVIOUS
<1>1. \A t \in Tasks : task[t].pc = "idle" /\ task[t].hits = {}
  BY IdleIsTaskState DEF Init
<1>2. \A p \in Pairs : ~HasRow(p)
  BY DEF Init, HasRow
<1>3. vectors = {} /\ acknowledged = {}
  BY DEF Init
<1>. QED BY <1>1, <1>2, <1>3, InitTypeOK
         DEF IInv, VectorsHaveRows, resolvable, At, FoundHaveSchemas,
             AcknowledgedHaveVectors, RowsAreCovered

\* A step that writes to no store keeps what is known of them.
LEMMA QuietIInv ==
  ASSUME IInv, TypeOK', KeepsStored
  PROVE  IInv'
<1>. USE DEF KeepsStored
<1>1. \A p \in Pairs : HasRow(p)' = HasRow(p)
  BY DEF HasRow
<1>2. \A p \in Pairs : \A type \in Types : HasVector(p, type)' = HasVector(p, type)
  BY DEF HasVector
<1>3. VectorsHaveRows'
  BY <1>1 DEF IInv, VectorsHaveRows, resolvable, At, HasRow
<1>4. FoundHaveSchemas'
  BY <1>1 DEF IInv, FoundHaveSchemas, resolvable, resolved, At, HasRow
<1>5. AcknowledgedHaveVectors'
  BY DEF IInv, AcknowledgedHaveVectors, HasVector
<1>6. RowsAreCovered'
  BY DEF IInv, RowsAreCovered, HasRow, HasVector, At
<1>. QED BY <1>3, <1>4, <1>5, <1>6 DEF IInv

\* A schema that gets its row has a task about to embed its types.
LEMMA CacheSchemaIInv ==
  ASSUME IInv, TypeOK', NEW t \in Tasks, CacheSchema(t), NEW schema, schema = task[t].schema
  PROVE  IInv'
<1>. USE DEF IInv
<1>1. task \in [Tasks -> TaskStates] /\ schema \in Schemas
  BY DEF TypeOK, TaskStates
<1>2. /\ \A p \in Pairs : HasRow(p) => rows'[p] = rows[p] /\ HasRow(p)'
      /\ \A p \in Pairs : p # schema.pair => rows'[p] = rows[p] /\ HasRow(p)' = HasRow(p)
      /\ HasRow(schema.pair)'
      /\ ~HasRow(schema.pair) => rows'[schema.pair] = schema.types
  <2>1. rows \in [Pairs -> (SUBSET Types) \cup {NoRow}] /\ rows' = cached(schema)
    BY DEF TypeOK, CacheSchema
  <2>2. /\ \A p \in Pairs : HasRow(p) => rows'[p] = rows[p]
        /\ \A p \in Pairs : p # schema.pair => rows'[p] = rows[p]
        /\ HasRow(schema.pair)'
        /\ ~HasRow(schema.pair) => rows'[schema.pair] = schema.types
    BY <1>1, <2>1, CachedKeepsRows
  <2>. QED BY <2>2 DEF HasRow
<1>3. schema.pair \in Pairs /\ schema.types \subseteq Types
  BY <1>1 DEF Schemas
<1>4. /\ vectors' = vectors /\ acknowledged' = acknowledged /\ interrupted' = interrupted
      /\ At(t, "cache")
      /\ task' = [task EXCEPT ![t].pc = IF schema.types = {} THEN "next" ELSE "embed"]
  BY DEF CacheSchema, HistoryUnchanged, Goto
<1>5. /\ \A u \in Tasks : u # t => task'[u] = task[u]
      /\ task'[t].schema = schema /\ task'[t].hits = task[t].hits
      /\ task'[t].pc = IF schema.types = {} THEN "next" ELSE "embed"
  BY <1>1, <1>4 DEF TaskStates
<1>6. /\ \A v \in vectors : v.pair \in Pairs
      /\ \A u \in Tasks : \A h \in task[u].hits : h.pair \in Pairs
      /\ \A u \in Tasks : task[u].schema.pair \in Pairs
  BY VectorOfItself DEF TypeOK, TaskStates, Schemas
<1>7. VectorsHaveRows'
  <2>1. \A v \in vectors' : HasRow(v.pair)'
    BY <1>2, <1>4, <1>6 DEF VectorsHaveRows
  <2>2. ASSUME NEW u \in Tasks, At(u, "embed")' PROVE HasRow(task[u].schema.pair)'
    BY <1>2, <1>5, <1>6, <2>2 DEF VectorsHaveRows, At
  <2>3. ASSUME NEW u \in Tasks PROVE resolvable(task[u].hits)'
    <3>1. \A h \in task'[u].hits : HasRow(h.pair)'
      BY <1>2, <1>5, <1>6 DEF VectorsHaveRows, resolvable
    <3>. QED BY <3>1, <1>5 DEF resolvable
  <2>4. \A u \in Tasks : task'[u].schema = task[u].schema
    BY <1>5
  <2>5. \A u \in Tasks : task'[u].hits = task[u].hits
    BY <1>5
  <2>. QED BY <2>1, <2>2, <2>3, <2>4, <2>5 DEF VectorsHaveRows, resolvable, HasRow
<1>8. FoundHaveSchemas'
  <2>. SUFFICES ASSUME NEW u \in Tasks, At(u, "found")', NEW h \in task'[u].hits
                PROVE  HasRow(h.pair)' /\ h.type \in rows'[h.pair]
    BY DEF FoundHaveSchemas, HasRow
  <2>1. u # t /\ At(u, "found") /\ h \in task[u].hits
    BY <1>5 DEF At
  <2>. QED BY <1>2, <1>6, <2>1 DEF FoundHaveSchemas
<1>9. AcknowledgedHaveVectors'
  BY <1>4 DEF AcknowledgedHaveVectors, HasVector
<1>10. RowsAreCovered'
  <2>. SUFFICES ASSUME ~interrupted', NEW p \in Pairs, HasRow(p)', NEW type \in rows'[p]
                PROVE  \/ HasVector(p, type)'
                       \/ \E u \in Tasks :
                            /\ At(u, "embed")'
                            /\ task'[u].schema.pair = p /\ type \in task'[u].schema.types
    BY DEF RowsAreCovered, HasRow
  <2>1. CASE HasRow(p)
    <3>1. \/ HasVector(p, type)
          \/ \E u \in Tasks : /\ At(u, "embed")
                              /\ task[u].schema.pair = p /\ type \in task[u].schema.types
      BY <2>1, <1>2, <1>4 DEF RowsAreCovered
    <3>2. HasVector(p, type) => HasVector(p, type)'
      BY <1>4 DEF HasVector
    <3>3. \A u \in Tasks : At(u, "embed") => u # t
      BY <1>4 DEF At
    <3>. QED BY <3>1, <3>2, <3>3, <1>5 DEF At
  <2>2. CASE ~HasRow(p)
    <3>1. p = schema.pair /\ type \in schema.types
      BY <2>2, <1>2
    <3>. QED BY <3>1, <1>5 DEF At
  <2>. QED BY <2>1, <2>2
<1>. QED BY <1>7, <1>8, <1>9, <1>10

\* A schema embedded has a vector for each of its types.
LEMMA EmbedIInv ==
  ASSUME IInv, TypeOK', NEW t \in Tasks, Embed(t), NEW schema, schema = task[t].schema
  PROVE  IInv'
<1>. USE DEF IInv
<1>1. task \in [Tasks -> TaskStates] /\ schema \in Schemas /\ vectors \subseteq VectorRows
  BY DEF TypeOK, TaskStates
<1>2. /\ vectors' = upserted(schema) /\ rows' = rows /\ interrupted' = interrupted
      /\ acknowledged' = acknowledged \cup {schema} /\ At(t, "embed")
      /\ task' = [task EXCEPT ![t].pc = "next"]
  BY DEF Embed, Goto
<1>3. /\ \A p \in Pairs : \A type \in Types : HasVector(p, type) => HasVector(p, type)'
      /\ \A type \in schema.types : HasVector(schema.pair, type)'
      /\ \A v \in vectors' : v \in vectors \/ v.pair = schema.pair
  BY <1>1, <1>2, UpsertKeepsVectors
<1>4. /\ \A u \in Tasks : u # t => task'[u] = task[u]
      /\ task'[t].hits = task[t].hits /\ task'[t].pc = "next"
  BY <1>1, <1>2 DEF TaskStates
<1>5. \A p : HasRow(p)' = HasRow(p)
  BY <1>2 DEF HasRow
<1>6. VectorsHaveRows'
  <2>1. \A v \in vectors' : HasRow(v.pair)
    BY <1>2, <1>3 DEF VectorsHaveRows
  <2>2. \A u \in Tasks : At(u, "embed")' => HasRow(task'[u].schema.pair)
    BY <1>4 DEF VectorsHaveRows, At
  <2>3. \A u \in Tasks : \A h \in task'[u].hits : HasRow(h.pair)
    BY <1>4 DEF VectorsHaveRows, resolvable
  <2>. QED BY <1>5, <2>1, <2>2, <2>3 DEF VectorsHaveRows, resolvable
<1>7. FoundHaveSchemas'
  <2>1. \A u \in Tasks : At(u, "found")' => At(u, "found") /\ task'[u] = task[u]
    BY <1>4 DEF At
  <2>. QED BY <1>2, <1>5, <2>1 DEF FoundHaveSchemas
<1>8. AcknowledgedHaveVectors'
  <2>. SUFFICES ASSUME NEW s \in acknowledged', NEW type \in s.types
                PROVE  HasVector(s.pair, type)'
    BY DEF AcknowledgedHaveVectors, HasVector
  <2>1. CASE s = schema
    BY <2>1, <1>3
  <2>2. CASE s \in acknowledged
    <3>1. s.pair \in Pairs /\ type \in Types
      BY <2>2 DEF TypeOK, Schemas
    <3>2. HasVector(s.pair, type)
      BY <2>2 DEF AcknowledgedHaveVectors
    <3>. QED BY <3>1, <3>2, <1>3
  <2>. QED BY <1>2, <2>1, <2>2
<1>9. RowsAreCovered'
  <2>. SUFFICES ASSUME ~interrupted', NEW p \in Pairs, HasRow(p), NEW type \in rows[p]
                PROVE  \/ HasVector(p, type)'
                       \/ \E u \in Tasks :
                            /\ At(u, "embed")'
                            /\ task'[u].schema.pair = p /\ type \in task'[u].schema.types
    BY <1>2, <1>5 DEF RowsAreCovered
  <2>1. type \in Types
    BY DEF TypeOK, HasRow
  <2>2. CASE HasVector(p, type)
    BY <2>1, <2>2, <1>3
  <2>3. CASE \E u \in Tasks : /\ At(u, "embed")
                              /\ task[u].schema.pair = p /\ type \in task[u].schema.types
    <3>1. PICK u \in Tasks : /\ At(u, "embed")
                             /\ task[u].schema.pair = p /\ type \in task[u].schema.types
      BY <2>3
    <3>2. CASE u = t
      BY <3>1, <3>2, <1>3
    <3>3. CASE u # t
      BY <3>1, <3>3, <1>4 DEF At
    <3>. QED BY <3>2, <3>3
  <2>. QED BY <1>2, <2>2, <2>3 DEF RowsAreCovered
<1>. QED BY <1>6, <1>7, <1>8, <1>9

\* An embedding that fails is an interrupted one.
LEMMA EmbedFailsIInv ==
  ASSUME IInv, TypeOK', NEW t \in Tasks, EmbedFails(t)
  PROVE  IInv'
<1>. USE DEF IInv
<1>1. /\ rows' = rows /\ vectors' = vectors /\ acknowledged' = acknowledged
      /\ interrupted' = TRUE /\ task' = [task EXCEPT ![t] = Idle]
  BY DEF EmbedFails, StoresUnchanged, Return
<1>2. \A u \in Tasks : u # t => task'[u] = task[u]
  BY <1>1 DEF TypeOK
<1>3. task'[t].pc = "idle" /\ task'[t].hits = {}
  BY <1>1, IdleIsTaskState DEF TypeOK
<1>4. VectorsHaveRows'
  BY <1>1, <1>2, <1>3 DEF VectorsHaveRows, resolvable, HasRow, At
<1>5. FoundHaveSchemas'
  BY <1>1, <1>2, <1>3 DEF FoundHaveSchemas, HasRow, At
<1>6. AcknowledgedHaveVectors' /\ RowsAreCovered'
  BY <1>1 DEF AcknowledgedHaveVectors, HasVector, RowsAreCovered
<1>. QED BY <1>4, <1>5, <1>6

\* A process that is started anew has no vectors, and no rows or an interrupted history.
LEMMA RestartIInv ==
  ASSUME IInv, TypeOK', Restart
  PROVE  IInv'
<1>1. /\ vectors' = {} /\ acknowledged' = {} /\ interrupted' = Durable
      /\ \A u \in Tasks : task'[u].pc = "idle" /\ task'[u].hits = {}
      /\ ~Durable => \A p \in Pairs : rows'[p] = NoRow
  BY IdleIsTaskState DEF Restart
<1>2. VectorsHaveRows' /\ FoundHaveSchemas' /\ AcknowledgedHaveVectors'
  BY <1>1 DEF VectorsHaveRows, resolvable, FoundHaveSchemas, AcknowledgedHaveVectors, At
<1>3. RowsAreCovered'
  BY <1>1, DurableIsBoolean DEF RowsAreCovered, HasRow
<1>. QED BY <1>2, <1>3 DEF IInv

\* Every step keeps the inductive invariant.
LEMMA StepIInv == IInv /\ [Next]_vars => IInv'
<1>. SUFFICES ASSUME IInv, [Next]_vars PROVE IInv'
  OBVIOUS
<1>1. TypeOK /\ TypeOK'
  BY StepTypeOK DEF IInv
<1>2. ASSUME NEW t \in Tasks, Quiet(t) PROVE IInv'
  BY <1>1, <1>2, QuietKeepsStored, QuietIInv
<1>3. CASE UNCHANGED vars
  <2>1. /\ rows' = rows /\ vectors' = vectors /\ task' = task
        /\ acknowledged' = acknowledged /\ interrupted' = interrupted
    BY <1>3 DEF vars
  <2>2. KeepsStored
    BY <2>1 DEF KeepsStored, At
  <2>. QED BY <1>1, <2>2, QuietIInv
<1>4. ASSUME NEW t \in Tasks, CacheSchema(t) \/ Embed(t) PROVE IInv'
  <2>1. PICK schema : schema = task[t].schema
    OBVIOUS
  <2>. QED BY <1>1, <1>4, <2>1, CacheSchemaIInv, EmbedIInv
<1>. QED BY <1>1, <1>2, <1>3, <1>4, EmbedFailsIInv, RestartIInv DEF Next, Step, Quiet

----------------------------------------------------------------------------
\* A search never meets a vector whose schema is not in the table (the error of
\* knowledge_service.rs for a dangling hit is never given), and what it answers with
\* are types of the schemas in the table, whatever the registries answered and
\* whichever calls ran beside each other or failed.
THEOREM SearchesResolve == Spec => [](VectorsHaveRows /\ FoundHaveSchemas)
<1>1. IInv => VectorsHaveRows /\ FoundHaveSchemas
  BY DEF IInv
<1>. QED BY <1>1, InitIInv, StepIInv, PTL DEF Spec

\* A type that has a vector, in a pair whose schema in the table has it, is among what
\* a wide enough search answers with.
LEMMA VectorsAreFound ==
  ASSUME TypeOK, VectorsHaveRows, NEW p \in Pairs, NEW type \in rows[p], HasVector(p, type)
  PROVE  Searchable(p, type)
<1>1. resolvable(vectors)
  BY DEF VectorsHaveRows, resolvable
<1>2. PICK v \in vectors : v.pair = p /\ v.type = type
  BY DEF HasVector
<1>3. v \in resolved(vectors)
  BY <1>2 DEF resolved
<1>. QED BY <1>1, <1>2, <1>3 DEF Searchable

\* Behind the stores a search finds what the table has of what was put into them: of
\* the schemas that calls acknowledged, at any time, and, with nothing under way or
\* interrupted, of all of them. Of an acknowledged type that the table's schema of the
\* pair lacks it says nothing: a search does not find it (AcknowledgedIsFound).
THEOREM StoredIsFound == Spec => []StoredIsSearchable
<1>1. IInv => AcknowledgedIsSearchable
  <2>. SUFFICES ASSUME IInv, NEW s \in acknowledged, NEW type \in s.types \cap rows[s.pair]
                PROVE  Searchable(s.pair, type)
    BY DEF AcknowledgedIsSearchable
  <2>1. s.pair \in Pairs
    BY DEF IInv, TypeOK, Schemas
  <2>2. HasVector(s.pair, type)
    BY DEF IInv, AcknowledgedHaveVectors
  <2>. QED BY <2>1, <2>2, VectorsAreFound DEF IInv
<1>2. IInv => QuiescentRowsSearchable
  <2>. SUFFICES ASSUME IInv, \A t \in Tasks : At(t, "idle"), ~interrupted,
                       NEW p \in Pairs, HasRow(p), NEW type \in rows[p]
                PROVE  Searchable(p, type)
    BY DEF QuiescentRowsSearchable
  <2>1. HasVector(p, type)
    BY DEF IInv, RowsAreCovered, At
  <2>. QED BY <2>1, VectorsAreFound DEF IInv
<1>3. IInv => StoredIsSearchable
  BY <1>1, <1>2 DEF StoredIsSearchable
<1>. QED BY <1>3, InitIInv, StepIInv, PTL DEF Spec

----------------------------------------------------------------------------
CallFields == {"pc", "target", "estate", "left", "hits", "candidates", "schema"}

\* The hits a call holds over an await have a schema still, and the candidates it has
\* collected are types of schemas of its target.
CandidatesAreResolved ==
  /\ DOMAIN call = CallFields
  /\ \A h \in call.hits : h.pair \in Pairs /\ HasRow(h.pair)
  /\ \A c \in call.candidates :
       /\ c.pair \in Pairs /\ HasRow(c.pair)
       /\ c.type \in rows[c.pair] /\ ProviderOf[c.pair] = call.target

\* What the cache holds passed a validation.
PlansWereValidated ==
  /\ plans = [e \in Estates |-> plans[e]]
  /\ \A e \in Estates : plans[e] # NoPlan => validate_plan(plans[e].types, plans[e].for)

allVars == <<vars, mapperVars>>

----------------------------------------------------------------------------
(* The Mapper and the service *)

\* A call of the Mapper reads the service and changes nothing of it.
LEMMA MapperStepIsServiceStep == [MapperNext]_allVars => [Next]_vars
  BY DEF allVars, MapperNext, KnowledgeStep, RestartAll, Next, Map, SearchType, ResolveType,
         LookupTargetSchema, Complete, MapFails

\* The service with a Mapper on it is the service: all that is proved of it holds here.
THEOREM MapperOnlyReads == MapperSpec => Spec
<1>1. MapperInit => Init
  BY DEF MapperInit
<1>. QED BY <1>1, MapperStepIsServiceStep, PTL DEF MapperSpec, Spec, allVars

\* A row that is there stays as it is, but for a process that is started anew.
LEMMA RowsPersist ==
  ASSUME IInv, NEW t \in Tasks, Step(t)
  PROVE  \A p \in Pairs : HasRow(p) => HasRow(p)' /\ rows'[p] = rows[p]
<1>1. CASE CacheSchema(t)
  <2>1. PICK schema : schema = task[t].schema
    OBVIOUS
  <2>2. /\ schema \in Schemas /\ rows' = cached(schema)
        /\ rows \in [Pairs -> (SUBSET Types) \cup {NoRow}]
    BY <1>1, <2>1 DEF CacheSchema, IInv, TypeOK, TaskStates
  <2>3. \A p \in Pairs : HasRow(p) => rows'[p] = rows[p]
    BY <2>2, CachedKeepsRows
  <2>. QED BY <2>3 DEF HasRow
<1>2. CASE rows' = rows
  BY <1>2 DEF HasRow
<1>3. CASE Quiet(t)
  BY <1>2, <1>3, QuietKeepsStored DEF IInv, KeepsStored
<1>4. CASE Embed(t) \/ EmbedFails(t)
  BY <1>2, <1>4 DEF Embed, EmbedFails, StoresUnchanged
<1>. QED BY <1>1, <1>3, <1>4 DEF Step, Quiet

----------------------------------------------------------------------------
\* Without a call there are no hits and no candidates.
LEMMA NoCallIsEmpty ==
  /\ NoCall.hits = {} /\ NoCall.candidates = {} /\ DOMAIN NoCall = CallFields
  BY DEF NoCall, CallFields

\* At first there is no call and no plan.
LEMMA InitMapper == MapperInit => CandidatesAreResolved /\ PlansWereValidated
  BY NoCallIsEmpty DEF MapperInit, CandidatesAreResolved, PlansWereValidated

\* A call's hits and candidates stay resolved, whatever the other tasks store meanwhile.
LEMMA StepCandidates ==
  ASSUME IInv, CandidatesAreResolved, [MapperNext]_allVars
  PROVE  CandidatesAreResolved'
<1>. USE DEF CandidatesAreResolved
<1>a. \A v \in vectors : v.pair \in Pairs /\ HasRow(v.pair)
  BY VectorOfItself DEF IInv, TypeOK, VectorsHaveRows
<1>1. CASE EndCall
  BY <1>1, NoCallIsEmpty DEF EndCall
<1>2. ASSUME rows' = rows, call' = call PROVE CandidatesAreResolved'
  BY <1>2 DEF HasRow
<1>3. CASE KnowledgeStep
  BY <1>3, RowsPersist DEF KnowledgeStep, mapperVars
<1>4. CASE Map
  <2>1. rows' = rows
    BY <1>4 DEF Map, vars
  <2>2. CASE call' = call
    BY <1>2, <2>1, <2>2
  <2>3. CASE \E target \in Targets, e \in Estates :
               call' = [NoCall EXCEPT !.pc = "search", !.target = target, !.estate = e,
                                      !.left = TypesOf[e]]
    <3>1. call'.hits = {} /\ call'.candidates = {} /\ DOMAIN call' = CallFields
      BY <2>3 DEF NoCall, CallFields
    <3>. QED BY <3>1
  <2>. QED BY <1>4, <2>2, <2>3 DEF Map
<1>5. CASE SearchType
  <2>1. PICK hits \in nearest(MapperTopK * 4) :
          call' = [call EXCEPT !.pc = "resolve", !.hits = hits]
    BY <1>5 DEF SearchType
  <2>2. hits \subseteq vectors
    BY DEF nearest
  <2>3. /\ call'.hits = hits /\ call'.candidates = call.candidates
        /\ call'.target = call.target /\ DOMAIN call' = CallFields
    BY <2>1 DEF CallFields
  <2>4. rows' = rows
    BY <1>5 DEF SearchType, vars
  <2>. QED BY <1>a, <2>2, <2>3, <2>4 DEF HasRow
<1>6. CASE ResolveType
  <2>1. PICK kept \in SUBSET {h \in resolved(call.hits) : ProviderOf[h.pair] = call.target},
             type \in call.left :
          call' = [call EXCEPT !.pc = "search", !.left = @ \ {type}, !.hits = {},
                     !.candidates = @ \cup kept]
    BY <1>6 DEF ResolveType
  <2>2. /\ call'.hits = {} /\ call'.candidates = call.candidates \cup kept
        /\ call'.target = call.target /\ DOMAIN call' = CallFields
    BY <2>1 DEF CallFields
  <2>3. \A h \in kept : /\ h \in call.hits /\ h.type \in rows[h.pair]
                        /\ ProviderOf[h.pair] = call.target
    BY <2>1 DEF resolved
  <2>4. rows' = rows
    BY <1>6 DEF ResolveType, vars
  <2>. QED BY <2>2, <2>3, <2>4 DEF HasRow
<1>7. CASE LookupTargetSchema
  <2>1. PICK schema : call' = [call EXCEPT !.pc = "complete", !.schema = schema]
    BY <1>7 DEF LookupTargetSchema
  <2>2. /\ call'.hits = call.hits /\ call'.candidates = call.candidates
        /\ call'.target = call.target /\ DOMAIN call' = CallFields
    BY <2>1 DEF CallFields
  <2>3. rows' = rows
    BY <1>7 DEF LookupTargetSchema, vars
  <2>. QED BY <2>2, <2>3 DEF HasRow
<1>8. CASE Complete \/ MapFails \/ RestartAll
  BY <1>1, <1>8 DEF Complete, MapFails, RestartAll
<1>9. CASE UNCHANGED allVars
  BY <1>2, <1>9 DEF allVars, vars, mapperVars
<1>. QED BY <1>3, <1>4, <1>5, <1>6, <1>7, <1>8, <1>9 DEF MapperNext

\* Only a plan that passed the validation is cached or answered.
LEMMA StepPlans ==
  ASSUME PlansWereValidated, AnswersWereValidated, [MapperNext]_allVars
  PROVE  PlansWereValidated' /\ AnswersWereValidated'
<1>. USE DEF PlansWereValidated, AnswersWereValidated
<1>1. CASE plans' = plans /\ answered' = answered
  BY <1>1
<1>2. ASSUME NEW e, NEW plan, validate_plan(plan.types, plan.for), Respond(e, plan),
             plans' = plans \/ plans' = [plans EXCEPT ![e] = plan]
      PROVE  PlansWereValidated' /\ AnswersWereValidated'
  BY <1>2 DEF Respond
<1>3. CASE Map
  <2>1. PICK target \in Targets, e \in Estates :
          \/ plans[e] # NoPlan /\ Respond(e, plans[e]) /\ UNCHANGED plans
          \/ /\ plans' = [plans EXCEPT ![e] = [types |-> <<>>, for |-> target]]
             /\ Respond(e, plans'[e])
          \/ UNCHANGED <<plans, answered>>
    BY <1>3 DEF Map
  <2>2. CASE plans[e] # NoPlan /\ Respond(e, plans[e]) /\ UNCHANGED plans
    <3>1. PICK plan : plan = plans[e]
      OBVIOUS
    <3>. QED BY <1>2, <2>2, <3>1
  <2>3. CASE /\ plans' = [plans EXCEPT ![e] = [types |-> <<>>, for |-> target]]
             /\ Respond(e, plans'[e])
    <3>. DEFINE plan == [types |-> <<>>, for |-> target]
    <3>1. validate_plan(plan.types, plan.for)
      BY DEF validate_plan
    <3>2. Respond(e, plan)
      BY <2>3 DEF Respond
    <3>. QED BY <1>2, <2>3, <3>1, <3>2
  <2>. QED BY <1>1, <2>1, <2>2, <2>3
<1>4. CASE Complete
  <2>1. PICK types \in Replies :
          /\ validate_plan(types, call.target)
          /\ plans' = [plans EXCEPT ![call.estate] = [types |-> types, for |-> call.target]]
          /\ Respond(call.estate, [types |-> types, for |-> call.target])
    BY <1>4 DEF Complete
  <2>2. PICK e, plan : e = call.estate /\ plan = [types |-> types, for |-> call.target]
    OBVIOUS
  <2>. QED BY <1>2, <2>1, <2>2
<1>5. CASE RestartAll
  BY <1>5 DEF RestartAll
<1>6. CASE SearchType \/ ResolveType \/ LookupTargetSchema \/ MapFails \/ KnowledgeStep
  BY <1>1, <1>6 DEF SearchType, ResolveType, LookupTargetSchema, MapFails, KnowledgeStep,
                    mapperVars
<1>7. CASE UNCHANGED allVars
  BY <1>1, <1>7 DEF allVars, mapperVars
<1>. QED BY <1>3, <1>4, <1>5, <1>6, <1>7 DEF MapperNext

----------------------------------------------------------------------------
\* What the model is told are types the schemas of the target have: the candidates a
\* call collects stay resolved while other tasks sync, fail and search, and no hit it
\* holds over an await loses its schema.
THEOREM PromptTellsSchemas == MapperSpec => []CandidatesAreResolved
<1>1. MapperInit => IInv /\ CandidatesAreResolved
  BY InitIInv, InitMapper DEF MapperInit
<1>2. IInv /\ CandidatesAreResolved /\ [MapperNext]_allVars
        => (IInv /\ CandidatesAreResolved)'
  BY StepIInv, MapperStepIsServiceStep, StepCandidates
<1>. QED BY <1>1, <1>2, PTL DEF MapperSpec, allVars

\* What map() answers, from the model or from the cache, met the validation of the
\* Mapper that asked the model for it: a refused answer is not kept.
THEOREM OnlyValidatedAnswers == MapperSpec => []AnswersWereValidated
<1>1. MapperInit => PlansWereValidated /\ AnswersWereValidated
  BY InitMapper DEF MapperInit, AnswersWereValidated
<1>2. PlansWereValidated /\ AnswersWereValidated /\ [MapperNext]_allVars
        => (PlansWereValidated /\ AnswersWereValidated)'
  BY StepPlans
<1>. QED BY <1>1, <1>2, PTL DEF MapperSpec, allVars
=============================================================================

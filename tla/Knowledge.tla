----------------------------- MODULE Knowledge -----------------------------
(***************************************************************************)
(* KnowledgeService (libs/knowledge/src/knowledge_service.rs): provider    *)
(* schemas in a table keyed by (provider, version)                         *)
(* (local_schema_store.rs), a vector for each of their resource types in   *)
(* memory (vector_store.rs), filled by sync_provider, seed_from_bundle and *)
(* first_launch_sync and read by find_similar_resources. The service is    *)
(* shared, each operation awaits between its steps, and any of them may    *)
(* fail; nothing joins the two stores in a transaction.                    *)
(*                                                                         *)
(* A schema is a pair with a set of resource types. A score is not         *)
(* modelled: a search gives any vectors, as many as it was asked for.      *)
(***************************************************************************)
EXTENDS Naturals, FiniteSets, Sequences

CONSTANTS
    Tasks,        \* tasks that share the service
    Pairs,        \* (provider, version) pairs
    Types,        \* resource types
    Bundle,       \* the schemas of the seed directory that can be parsed
    Registry,     \* [Pairs -> the type sets the fetcher may answer with]
    Requested,    \* the pairs first_launch_sync is called for
    TopK,         \* how many hits a search asks for
    Durable,      \* whether the table outlives the process
    MaxOperations, MaxRestarts   \* bounds

Schema(pair, types) == [pair |-> pair, types |-> types]
Schemas == [pair : Pairs, types : SUBSET Types]
ASSUME BundleIsSchemas == Bundle \subseteq Schemas
ASSUME DurableIsBoolean == Durable \in BOOLEAN
ASSUME PairsAreGiven ==
    /\ Pairs # {}
    /\ Registry \in [Pairs -> SUBSET SUBSET Types]
    /\ Requested \in Seq(Pairs)
    /\ "no row" \notin Types

VARIABLES
    rows,         \* provider_schemas: the types of a pair's schema
    vectors,      \* InMemoryVectorStore::rows
    task,         \* what each task is at
    operations,   \* how many operations were started
    restarts,     \* how many times the process was started anew
    acknowledged, \* history: schemas stored by calls that came to their end
    interrupted   \* history: a call failed or was cut off behind its insert

vars == <<rows, vectors, task, operations, restarts, acknowledged, interrupted>>

----------------------------------------------------------------------------
(* The stores *)

Smaller(a, b) == IF a < b THEN a ELSE b

NoRow == {"no row"}
HasRow(pair) == rows[pair] # NoRow

\* A variant with a bug: the id is without the provider and its version.
VectorIdOfType(pair, type) == <<type>>

\* The row of a vector: the id it is replaced by, and the metadata a hit is
\* resolved with.
VectorId(pair, type) == <<pair, type>>
Vector(pair, type) == [id |-> VectorId(pair, type), pair |-> pair, type |-> type]
HasVector(pair, type) == \E v \in vectors : v.pair = pair /\ v.type = type

\* LocalSchemaStore::cache_schema, an INSERT OR IGNORE.
cached(schema) ==
    IF HasRow(schema.pair) THEN rows ELSE [rows EXCEPT ![schema.pair] = schema.types]

\* InMemoryVectorStore::upsert.
upserted(schema) ==
    LET new == {Vector(schema.pair, type) : type \in schema.types}
    IN  {v \in vectors : \A n \in new : n.id # v.id} \cup new

----------------------------------------------------------------------------
(* The operations *)

Idle == [pc |-> "idle", operation |-> "none", files |-> {}, wanted |-> <<>>,
         schema |-> Schema(CHOOSE p \in Pairs : TRUE, {}), hits |-> {}]

At(t, pc) == task[t].pc = pc
Goto(t, pc) == task' = [task EXCEPT ![t].pc = pc]
Return(t) == task' = [task EXCEPT ![t] = Idle]
StoresUnchanged == UNCHANGED <<rows, vectors>>
HistoryUnchanged == UNCHANGED <<operations, restarts, acknowledged, interrupted>>

Init ==
    /\ rows = [p \in Pairs |-> NoRow]
    /\ vectors = {}
    /\ task = [t \in Tasks |-> Idle]
    /\ operations = 0 /\ restarts = 0
    /\ acknowledged = {} /\ interrupted = FALSE

Begin(t, operation, files, wanted) ==
    /\ At(t, "idle") /\ operations < MaxOperations
    /\ task' = [task EXCEPT ![t] = [Idle EXCEPT
           !.pc = "next", !.operation = operation, !.files = files, !.wanted = wanted]]
    /\ operations' = operations + 1
    /\ StoresUnchanged /\ UNCHANGED <<restarts, acknowledged, interrupted>>

SyncProvider(t) == \E p \in Pairs : Begin(t, "sync", {}, <<p>>)
SeedFromBundle(t) == Begin(t, "seed", Bundle, <<>>)
FirstLaunchSync(t) == Begin(t, "launch", Bundle, Requested)

\* A search leaves nothing behind, and needs no bound.
FindSimilar(t) ==
    /\ At(t, "idle")
    /\ task' = [task EXCEPT ![t] = [Idle EXCEPT !.pc = "next", !.operation = "find"]]
    /\ StoresUnchanged /\ HistoryUnchanged

\* seed_from_bundle: the next file is skipped, or gives a schema to seed. The
\* directory gives its entries in any order.
SeedFile(t) ==
    /\ At(t, "next")
    /\ \E f \in task[t].files :
          \E pc \in {"next", "cache"} :
             task' = [task EXCEPT ![t].pc = pc, ![t].schema = f, ![t].files = @ \ {f}]
    /\ StoresUnchanged /\ HistoryUnchanged

\* Behind the files, the next pair. A first launch skips one that is cached,
\* and takes a query that fails for one that is not.
NextPair(t) ==
    LET pair == Head(task[t].wanted)
    IN  /\ At(t, "next") /\ task[t].files = {} /\ task[t].wanted # <<>>
        /\ \/ Goto(t, "fetch")
           \/ /\ task[t].operation = "launch" /\ HasRow(pair)
              /\ task' = [task EXCEPT ![t].wanted = Tail(@)]
        /\ task[t].operation = "launch" /\ ~HasRow(pair) => task'[t].pc = "fetch"
        /\ StoresUnchanged /\ HistoryUnchanged

\* SchemaFetcher::fetch answers, ...
Fetch(t) ==
    LET pair == Head(task[t].wanted)
    IN  /\ At(t, "fetch")
        /\ \E types \in Registry[pair] :
              task' = [task EXCEPT ![t].pc = "cache", ![t].wanted = Tail(@),
                         ![t].schema = Schema(pair, types)]
        /\ StoresUnchanged /\ HistoryUnchanged

\* ... or fails, which ends a sync, and which a first launch notes.
FetchFails(t) ==
    /\ At(t, "fetch")
    /\ IF task[t].operation = "sync" THEN Return(t)
       ELSE task' = [task EXCEPT ![t].pc = "next", ![t].wanted = Tail(@)]
    /\ StoresUnchanged /\ HistoryUnchanged

\* seed_provider and sync_provider: the schema goes into the table, and, if it
\* has a type, on to the embedding.
CacheSchema(t) ==
    /\ At(t, "cache")
    /\ rows' = cached(task[t].schema)
    /\ Goto(t, IF task[t].schema.types = {} THEN "next" ELSE "embed")
    /\ UNCHANGED vectors /\ HistoryUnchanged

CacheFails(t) ==
    /\ At(t, "cache") /\ Return(t)
    /\ StoresUnchanged /\ HistoryUnchanged

\* A batch that cannot be embedded, or not in the store's dimension, ends the
\* call; the row stays.
EmbedFails(t) ==
    /\ At(t, "embed") /\ Return(t)
    /\ interrupted' = TRUE
    /\ StoresUnchanged /\ UNCHANGED <<operations, restarts, acknowledged>>

Embed(t) ==
    /\ At(t, "embed")
    /\ vectors' = upserted(task[t].schema)
    /\ Goto(t, "next")
    /\ acknowledged' = acknowledged \cup {task[t].schema}
    /\ UNCHANGED <<rows, operations, restarts, interrupted>>

\* The call has seen all its files and pairs, and answers Ok.
Finish(t) ==
    /\ At(t, "next") /\ task[t].files = {} /\ task[t].wanted = <<>>
    /\ task[t].operation # "find"
    /\ Return(t)
    /\ StoresUnchanged /\ UNCHANGED <<operations, restarts, acknowledged, interrupted>>

\* find_similar_resources: a search for the k nearest vectors, ...
nearest(k) ==
    {hits \in SUBSET vectors : Cardinality(hits) = Smaller(k, Cardinality(vectors))}

\* ... and hit by hit the schema it stands for: a pair that is not in the table
\* fails the whole search, a type that is not in its schema is left out.
resolvable(hits) == \A h \in hits : HasRow(h.pair)

\* A variant with a bug: a hit is taken for a type of the schema.
resolved_unchecked(hits) == hits

resolved(hits) == {h \in hits : h.type \in rows[h.pair]}

\* What a search that is wide enough answers with.
Searchable(pair, type) ==
    /\ resolvable(vectors)
    /\ \E h \in resolved(vectors) : h.pair = pair /\ h.type = type

Search(t) ==
    /\ At(t, "next") /\ task[t].operation = "find"
    /\ \/ \E hits \in nearest(TopK) :
             task' = [task EXCEPT ![t].pc = "resolve", ![t].hits = hits]
       \/ Return(t)
    /\ StoresUnchanged /\ HistoryUnchanged

Resolve(t) ==
    /\ At(t, "resolve")
    /\ \/ /\ resolvable(task[t].hits)
          /\ task' = [task EXCEPT ![t].pc = "found", ![t].hits = resolved(@)]
       \/ Return(t)
    /\ StoresUnchanged /\ HistoryUnchanged

Answer(t) ==
    /\ At(t, "found") /\ Return(t)
    /\ StoresUnchanged /\ HistoryUnchanged

\* The process ends and is started anew: the vectors are gone, and with them
\* the table if it was in memory too.
Restart ==
    /\ restarts < MaxRestarts
    /\ restarts' = restarts + 1
    /\ rows' = IF Durable THEN rows ELSE [p \in Pairs |-> NoRow]
    /\ vectors' = {} /\ acknowledged' = {}
    /\ interrupted' = Durable
    /\ task' = [t \in Tasks |-> Idle]
    /\ UNCHANGED operations

Step(t) ==
    \/ SyncProvider(t) \/ SeedFromBundle(t) \/ FirstLaunchSync(t) \/ FindSimilar(t)
    \/ SeedFile(t) \/ NextPair(t) \/ Fetch(t) \/ FetchFails(t)
    \/ CacheSchema(t) \/ CacheFails(t) \/ Embed(t) \/ EmbedFails(t) \/ Finish(t)
    \/ Search(t) \/ Resolve(t) \/ Answer(t)

Next == (\E t \in Tasks : Step(t)) \/ Restart

Spec == Init /\ [][Next]_vars

----------------------------------------------------------------------------
VectorRows == {Vector(p, type) : p \in Pairs, type \in Types}

TaskStates ==
    [pc : {"idle", "next", "fetch", "cache", "embed", "resolve", "found"},
     operation : {"none", "sync", "seed", "launch", "find"},
     files : SUBSET Bundle, wanted : Seq(Pairs), schema : Schemas, hits : SUBSET VectorRows]

\* The types of the variables; a vector's id is of its pair and type, and what is to be
\* fetched is one of the pairs that are left.
TypeOK ==
    /\ rows \in [Pairs -> (SUBSET Types) \cup {NoRow}]
    /\ vectors \subseteq VectorRows
    /\ task \in [Tasks -> TaskStates]
    /\ \A t \in Tasks : At(t, "fetch") => task[t].wanted # <<>>
    /\ acknowledged \subseteq Schemas
    /\ interrupted \in BOOLEAN

\* A search never meets a vector whose schema is not in the table: sync_provider
\* and seed_provider store the schema first, and nothing removes one. Neither does
\* one under way, whose hits were taken before.
VectorsHaveRows ==
    /\ \A v \in vectors : HasRow(v.pair)
    /\ \A t \in Tasks : At(t, "embed") => HasRow(task[t].schema.pair)
    /\ \A t \in Tasks : resolvable(task[t].hits)

\* What a search answers with are types of the schemas in the table, also where a
\* provider's registry gave the types of one version differently at two fetches:
\* the table keeps the first answer, and the vectors hold both.
FoundHaveSchemas ==
    \A t \in Tasks : At(t, "found") =>
        \A h \in task[t].hits : HasRow(h.pair) /\ h.type \in rows[h.pair]

\* Once a call has stored a schema, a search can answer with each type of it that the
\* table's schema of the pair has, whatever the other calls store, in any order, and
\* of other versions of the provider. A type the table does not have is another matter:
\* see AcknowledgedIsFound.
AcknowledgedIsSearchable ==
    \A s \in acknowledged :
        \A type \in s.types \cap rows[s.pair] : Searchable(s.pair, type)

\* With no call under way, and none that failed between its two writes, a search can
\* answer with each type of each schema in the table: also where two calls stored one
\* pair.
QuiescentRowsSearchable ==
    (\A t \in Tasks : At(t, "idle")) /\ ~interrupted =>
        \A p \in Pairs : HasRow(p) => \A type \in rows[p] : Searchable(p, type)

\* Behind the stores a search finds what the table has of the schemas that were put
\* in, whether they are known from the calls that stored them or from the table.
StoredIsSearchable == AcknowledgedIsSearchable /\ QuiescentRowsSearchable

\* What knowledge_service.rs:97-98 and :449 say of a schema that was fetched, embedded
\* and answered Ok: that it is stored in full, and can be found. The table ignores a
\* second schema of a pair it has, the vectors take its types, and a search drops them.
AcknowledgedIsFound ==
    \A s \in acknowledged : \A type \in s.types : Searchable(s.pair, type)

\* What knowledge_service.rs:348-352 says of a first launch: behind it, with no other
\* call under way, the schemas of the requested pairs surface in a search beside the
\* seed. One that is cached is skipped, also where its vectors went with the process
\* that embedded them, or were never made.
LaunchCoversRequested ==
    \A t \in Tasks :
        /\ At(t, "next") /\ task[t].operation = "launch"
        /\ task[t].files = {} /\ task[t].wanted = <<>>
        /\ \A u \in Tasks \ {t} : At(u, "idle")
        => \A i \in 1..Len(Requested) :
             HasRow(Requested[i]) =>
               \A type \in rows[Requested[i]] : Searchable(Requested[i], type)

=============================================================================

------------------------------ MODULE Mapper ------------------------------
(***************************************************************************)
(* Mapper::map (libs/engine/src/mapper/mod.rs) on a KnowledgeService that  *)
(* other tasks fill meanwhile. One call is a chain of awaits: the plan     *)
(* cache (mapper/cache.rs), a search for each resource type of the estate, *)
(* the schema of the target, one answer of the model, its validation. The  *)
(* cache outlives the call and is exclusively borrowed by it, so calls that*)
(* share one follow each other.                                            *)
(*                                                                         *)
(* A prompt is what the model is told: the candidates of each type, the    *)
(* types it may name, and the schema whose required attributes it reads.   *)
(***************************************************************************)
EXTENDS Knowledge

CONSTANTS
    Targets,       \* the target providers of the Mappers that share the cache
    ProviderOf,    \* [Pairs -> a provider]
    TextPlace,     \* [Pairs -> Nat]: the place of the version in text order
    Estates,       \* inventories
    TypesOf,       \* [Estates -> SUBSET SourceTypes]
    TooLarge,      \* the estates above MAX_INVENTORY_BYTES
    Registered,    \* the types TemplateRegistry::stage1() has a template for
    ProviderOfType,\* [Types -> a provider], the prefix of the name
    MapperTopK,    \* KNOWLEDGE_TOP_K
    MaxPlan,       \* bound: entries of an answer of the model
    MaxCalls       \* bound: calls of map()

VARIABLES
    plans,         \* MapperCache::entries: the target types of an estate's plan
    call,          \* the call under way
    calls,         \* how many were made
    answered       \* history: what each call answered, and whose validation it met

mapperVars == <<plans, call, calls, answered>>

\* A target type that is not there, "" in the answer of the model.
NoType == "no type"
NoPlan == [types |-> <<"none">>, for |-> "none"]
NoCall == [pc |-> "idle", target |-> "none", estate |-> "none", left |-> {},
           hits |-> {}, candidates |-> {}, schema |-> "none"]

CallAt(pc) == call.pc = pc
EndCall == call' = NoCall

supported_types_for(target) == {t \in Registered : ProviderOfType[t] = target}

\* validate_plan: the first entry that is empty or not supported fails it.
validate_plan(types, target) ==
    \A i \in DOMAIN types : types[i] # NoType /\ types[i] \in supported_types_for(target)

MapperInit ==
    /\ Init
    /\ plans = [e \in Estates |-> NoPlan]
    /\ call = NoCall /\ calls = 0 /\ answered = {}

Respond(estate, plan) ==
    answered' = answered \cup {[estate |-> estate, plan |-> plan]}

\* The cache comes first, then an empty inventory, which needs no model, then the cap
\* on its size. The key is the inventory and nothing else.
Map ==
    \E target \in Targets, e \in Estates :
        /\ CallAt("idle") /\ calls < MaxCalls
        /\ calls' = calls + 1
        /\ \/ /\ plans[e] # NoPlan
              /\ Respond(e, plans[e]) /\ UNCHANGED <<plans, call>>
           \/ /\ plans[e] = NoPlan /\ TypesOf[e] = {}
              /\ plans' = [plans EXCEPT ![e] = [types |-> <<>>, for |-> target]]
              /\ Respond(e, plans'[e]) /\ UNCHANGED call
           \/ /\ plans[e] = NoPlan /\ TypesOf[e] # {} /\ e \in TooLarge
              /\ UNCHANGED <<plans, call, answered>>
           \/ /\ plans[e] = NoPlan /\ TypesOf[e] # {} /\ e \notin TooLarge
              /\ call' = [NoCall EXCEPT !.pc = "search", !.target = target,
                            !.estate = e, !.left = TypesOf[e]]
              /\ UNCHANGED <<plans, answered>>
        /\ UNCHANGED vars

\* find_similar_in_provider, for one type after the other: four times as many hits
\* as wanted, of any provider, ...
SearchType ==
    /\ CallAt("search") /\ call.left # {}
    /\ \E hits \in nearest(MapperTopK * 4) :
          call' = [call EXCEPT !.pc = "resolve", !.hits = hits]
    /\ UNCHANGED <<vars, plans, calls, answered>>

\* ... resolved, and of those of the target the first.
ResolveType ==
    /\ CallAt("resolve") /\ resolvable(call.hits)
    /\ \E kept \in SUBSET {h \in resolved(call.hits) : ProviderOf[h.pair] = call.target} :
          /\ Cardinality(kept) = Smaller(MapperTopK, Cardinality(
                {h \in resolved(call.hits) : ProviderOf[h.pair] = call.target}))
          /\ \E type \in call.left :
                call' = [call EXCEPT !.pc = "search", !.left = @ \ {type}, !.hits = {},
                           !.candidates = @ \cup kept]
    /\ UNCHANGED <<vars, plans, calls, answered>>

\* lookup_target_schema: the first version in descending text order. A query that
\* fails leaves the prompt without one.
LookupTargetSchema ==
    LET versions == {p \in Pairs : ProviderOf[p] = call.target /\ HasRow(p)}
        first == {p \in versions : \A q \in versions : TextPlace[q] <= TextPlace[p]}
    IN  /\ CallAt("search") /\ call.left = {}
        /\ \E schema \in first \cup {"none"} :
              call' = [call EXCEPT !.pc = "complete", !.schema = schema]
        /\ UNCHANGED <<vars, plans, calls, answered>>

\* The model answers with any list of target types, whatever the estate has.
Replies == UNION {[1..n -> Types \cup {NoType}] : n \in 0..MaxPlan}

\* A variant with a bug: the plan is in the cache before it is validated.
CompleteCachingFirst ==
    /\ CallAt("complete")
    /\ \E types \in Replies :
          LET plan == [types |-> types, for |-> call.target]
          IN  /\ plans' = [plans EXCEPT ![call.estate] = plan]
              /\ IF validate_plan(types, call.target) THEN Respond(call.estate, plan)
                 ELSE UNCHANGED answered
    /\ EndCall
    /\ UNCHANGED <<vars, calls>>

\* The answer is parsed and validated, and then kept.
Complete ==
    /\ CallAt("complete")
    /\ \E types \in Replies :
          LET plan == [types |-> types, for |-> call.target]
          IN  /\ validate_plan(types, call.target)
              /\ plans' = [plans EXCEPT ![call.estate] = plan]
              /\ Respond(call.estate, plan)
    /\ EndCall
    /\ UNCHANGED <<vars, calls>>

\* A search, the model or the reading of its answer fails, or the plan is refused.
MapFails ==
    /\ ~CallAt("idle") /\ EndCall
    /\ UNCHANGED <<vars, plans, calls, answered>>

\* The cache, and a call under way, go with the process.
KnowledgeStep == (\E t \in Tasks : Step(t)) /\ UNCHANGED mapperVars
RestartAll ==
    /\ Restart
    /\ plans' = [e \in Estates |-> NoPlan] /\ EndCall
    /\ answered' = {} /\ UNCHANGED calls

MapperNext ==
    \/ KnowledgeStep \/ RestartAll
    \/ Map \/ SearchType \/ ResolveType \/ LookupTargetSchema \/ Complete \/ MapFails

MapperSpec == MapperInit /\ [][MapperNext]_<<vars, mapperVars>>

----------------------------------------------------------------------------
MapperTypeOK ==
    /\ TypeOK
    /\ plans \in [Estates -> [types : Seq(Types \cup {NoType, "none"}),
                              for : Targets \cup {"none"}]]
    /\ calls \in 0..MaxCalls
    /\ call.pc \in {"idle", "search", "resolve", "complete"}
    /\ call.left \subseteq UNION {TypesOf[e] : e \in Estates}
    /\ call.hits \subseteq vectors /\ call.candidates \subseteq vectors

\* What map() answers, from the model or from the cache, now or at a later call, met the
\* validation of the Mapper that asked the model for it: a refused answer is not kept.
AnswersWereValidated ==
    \A a \in answered : validate_plan(a.plan.types, a.plan.for)

=============================================================================

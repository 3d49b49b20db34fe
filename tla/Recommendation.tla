--------------------------- MODULE Recommendation ---------------------------
(***************************************************************************)
(* RecommendationEngine.analyze by several clients that share one cache    *)
(* and one registry of analytics engines.  An analysis looks the context   *)
(* up in the cache; on a miss it runs the registered engines, on a pool of *)
(* threads or one after the other, scores their facts and stores the       *)
(* result.  Meanwhile the data of the day is corrected, entries expire or  *)
(* are invalidated, and engines are registered and unregistered.           *)
(*                                                                         *)
(* A context is the data it was built from: the day of its last bar, which *)
(* is part of the cache key, and the revision of everything else (prices,  *)
(* benchmark and sector bars), which is not.                               *)
(***************************************************************************)
EXTENDS Ratios

CONSTANTS Clients,
          Entries,          \* [name, engine]: what may be registered
          DefaultRegistry,  \* the sequence of entries it starts with
          Workers,          \* threads of the pool; 1 is the sequential strategy
          Facts(_, _),      \* engine, context: [score, confidence], or Raises
          Raises,
          Weights,          \* name -> weight in percent
          Ttl,
          MaxTime, MaxDay, MaxRevision, MaxChanges, MaxLookups,   \* bounds
          Nothing

ASSUME RecommendationAssumption == Ttl \in Nat /\ MaxDay \in Nat \ {0} /\ MaxRevision \in Nat

Contexts == [day : 1..MaxDay, revision : 0..MaxRevision]
Keys     == 1..MaxDay
MakeCacheKey(context) == context.day

\* The registry is an ordered dictionary from names to engines.
Names == {e.name : e \in Entries}

VARIABLES clock, data, registry, cache, hits, misses, client, answer,
          changes,          \* changes of the registry, invalidations and clears so far
          invalidations     \* key -> times its entry was thrown away on request

vars == <<clock, data, registry, cache, hits, misses, client, answer, changes, invalidations>>

-----------------------------------------------------------------------------
(* Scoring *)

\* Facts and errors are dictionaries over the engines' own names.
Succeeded(order, context) ==
    {e \in {order[i].engine : i \in DOMAIN order} : Facts(e, context) # Raises}
Failed(order, context) ==
    {e \in {order[i].engine : i \in DOMAIN order} : Facts(e, context) = Raises}

Classify(score) ==
    CASE AtLeast(score, 70) -> "Strong Buy"
      [] ~AtLeast(score, 70) /\ AtLeast(score, 45) -> "Buy"
      [] ~AtLeast(score, 45) /\ AtLeast(score, 20) -> "Monitor"
      [] ~AtLeast(score, 20) /\ AtLeast(score, -10) -> "Watchlist"
      [] OTHER -> "Avoid"

Weight(name) == IF name \in DOMAIN Weights THEN Weights[name] ELSE 10

\* The facts are looked up under the names of the registry as it is now: what
\* is registered under another name than its own, or no longer, is not scored.
Recommend(facts, errors, listed) ==
    LET scored == SelectSeq(listed, LAMBDA n : n \in DOMAIN facts)
        weight == Total([i \in DOMAIN scored |-> Weight(scored[i])])
        score  == Total([i \in DOMAIN scored |-> Weight(scored[i]) * facts[scored[i]].score])
    IN IF DOMAIN facts = {}
       THEN [recommendation |-> "Insufficient Data", confidence |-> 0, facts |-> {}, errors |-> errors]
       ELSE [recommendation |-> Classify(IF scored = <<>> THEN Whole(0) ELSE Ratio(score, weight)),
             confidence |-> Mean([i \in DOMAIN scored |-> facts[scored[i]].confidence]),
             facts |-> DOMAIN facts, errors |-> errors]

NamesOf(entries) == [i \in DOMAIN entries |-> entries[i].name]

\* What one thread, running the engines in order, would recommend.
Sequential(context, order, listed) ==
    Recommend([e \in Succeeded(order, context) |-> Facts(e, context)], Failed(order, context), listed)

-----------------------------------------------------------------------------
(* MemoryCache; every operation holds its lock *)

Expired(key) == clock > cache[key].expires
HitWhilePresent(key) == cache[key] # Nothing      \* mutant
Hit(key)     == cache[key] # Nothing /\ ~Expired(key)

CacheGet(key) ==
    /\ hits'   = IF Hit(key) THEN hits + 1 ELSE hits
    /\ misses' = IF Hit(key) THEN misses ELSE misses + 1
    /\ cache'  = IF Hit(key) THEN cache ELSE [cache EXCEPT ![key] = Nothing]

\* by: how the value was computed; stored and invalidations: when it was put in.
CacheSet(key, value, by) ==
    cache' = [cache EXCEPT ![key] = [value |-> value, expires |-> clock + Ttl, by |-> by,
                                     stored |-> clock, invalidations |-> invalidations[key]]]

-----------------------------------------------------------------------------
Idle == [at |-> "idle"]

Init ==
    /\ clock = 0 /\ data = [day |-> 1, revision |-> 0]
    /\ registry = DefaultRegistry
    /\ cache = [k \in Keys |-> Nothing]
    /\ hits = 0 /\ misses = 0
    /\ client = [c \in Clients |-> Idle]
    /\ answer = [c \in Clients |-> Nothing]
    /\ changes = 0
    /\ invalidations = [k \in Keys |-> 0]

\* What the client gets, and how old the cache entry is that it comes from.
Answer(context, value, by, stored, invalidated) ==
    [context |-> context, value |-> value, by |-> by, age |-> clock - stored,
     invalidated |-> invalidated]

\* The lookup, with the context the client built from the data of the moment.
Lookup(c) ==
    LET key == MakeCacheKey(data)
    IN /\ client[c].at = "idle"
       /\ hits + misses < MaxLookups
       /\ CacheGet(key)
       /\ IF Hit(key)
          THEN /\ answer' = [answer EXCEPT ![c] =
                    Answer(data, cache[key].value, cache[key].by, cache[key].stored,
                           cache[key].invalidations # invalidations[key])]
               /\ UNCHANGED client
          ELSE /\ client' = [client EXCEPT ![c] = [at |-> "missed", context |-> data]]
               /\ answer' = [answer EXCEPT ![c] = Nothing]
       /\ UNCHANGED <<clock, data, registry, changes, invalidations>>

\* The engines to run are those registered now.
StartPipeline(c) ==
    /\ client[c].at = "missed"
    /\ client' = [client EXCEPT ![c] = [at |-> "running", context |-> @.context, order |-> registry,
                                        done |-> {}, facts |-> <<>>, errors |-> {}]]
    /\ UNCHANGED <<clock, data, registry, cache, hits, misses, answer, changes, invalidations>>

\* The pool works on the first Workers tasks that are not done.
Working(c, i) ==
    /\ i \in DOMAIN client[c].order \ client[c].done
    /\ Cardinality({j \in 1..i : j \notin client[c].done}) <= Workers

\* _run_single: an exception becomes the engine's error.
FinishTask(c, i) ==
    LET engine == client[c].order[i].engine
        fact   == Facts(engine, client[c].context)
    IN /\ client[c].at = "running"
       /\ Working(c, i)
       /\ client' = [client EXCEPT
            ![c].done   = @ \union {i},
            ![c].facts  = IF fact = Raises THEN @
                          ELSE [e \in DOMAIN @ \union {engine} |-> IF e = engine THEN fact ELSE @[e]],
            ![c].errors = IF fact = Raises THEN @ \union {engine} ELSE @]
       /\ UNCHANGED <<clock, data, registry, cache, hits, misses, answer, changes, invalidations>>

\* The pipeline's result takes its execution order from the registry again,
\* which may no longer be the one that was run.
ScoreFacts(c) ==
    /\ client[c].at = "running"
    /\ client[c].done = DOMAIN client[c].order
    /\ client' = [client EXCEPT ![c] =
          [at |-> "scored", context |-> @.context,
           by |-> [context |-> @.context, order |-> @.order, listed |-> NamesOf(registry)],
           value |-> Recommend(@.facts, @.errors, NamesOf(registry))]]
    /\ UNCHANGED <<clock, data, registry, cache, hits, misses, answer, changes, invalidations>>

\* Mutant: the key is made of the data of the moment.
StoreResultUnderNewKey(c) ==
    /\ client[c].at = "scored"
    /\ CacheSet(MakeCacheKey(data), client[c].value, client[c].by)
    /\ answer' = [answer EXCEPT ![c] =
          Answer(client[c].context, client[c].value, client[c].by, clock, FALSE)]
    /\ client' = [client EXCEPT ![c] = Idle]
    /\ UNCHANGED <<clock, data, registry, hits, misses, changes, invalidations>>
StoreResult(c) ==
    /\ client[c].at = "scored"
    /\ CacheSet(MakeCacheKey(client[c].context), client[c].value, client[c].by)
    /\ answer' = [answer EXCEPT ![c] =
          Answer(client[c].context, client[c].value, client[c].by, clock, FALSE)]
    /\ client' = [client EXCEPT ![c] = Idle]
    /\ UNCHANGED <<clock, data, registry, hits, misses, changes, invalidations>>

-----------------------------------------------------------------------------
(* What happens around them *)

Register(entry) ==
    /\ changes < MaxChanges
    /\ \A i \in DOMAIN registry : registry[i].name # entry.name
    /\ registry' = Append(registry, entry)
    /\ changes' = changes + 1
    /\ UNCHANGED <<clock, data, cache, hits, misses, client, answer, invalidations>>

Unregister(name) ==
    /\ changes < MaxChanges
    /\ \E i \in DOMAIN registry : registry[i].name = name
    /\ registry' = SelectSeq(registry, LAMBDA e : e.name # name)
    /\ changes' = changes + 1
    /\ UNCHANGED <<clock, data, cache, hits, misses, client, answer, invalidations>>

Invalidate(key) ==
    /\ changes < MaxChanges
    /\ cache' = [cache EXCEPT ![key] = Nothing]
    /\ invalidations' = [invalidations EXCEPT ![key] = @ + 1]
    /\ changes' = changes + 1
    /\ UNCHANGED <<clock, data, registry, hits, misses, client, answer>>

ClearCache ==
    /\ changes < MaxChanges
    /\ cache' = [k \in Keys |-> Nothing]
    /\ invalidations' = [k \in Keys |-> invalidations[k] + 1]
    /\ hits' = 0 /\ misses' = 0
    /\ changes' = changes + 1
    /\ UNCHANGED <<clock, data, registry, client, answer>>

\* Prices, benchmark or sector bars are corrected; a bar of a new day comes in.
CorrectData ==
    /\ data.revision < MaxRevision
    /\ data' = [data EXCEPT !.revision = @ + 1]
    /\ UNCHANGED <<clock, registry, cache, hits, misses, client, answer, changes, invalidations>>

NewDay ==
    /\ data.day < MaxDay
    /\ data' = [day |-> data.day + 1, revision |-> 0]
    /\ UNCHANGED <<clock, registry, cache, hits, misses, client, answer, changes, invalidations>>

Tick ==
    /\ clock < MaxTime
    /\ clock' = clock + 1
    /\ UNCHANGED <<data, registry, cache, hits, misses, client, answer, changes, invalidations>>

Analyse(c) ==
    \/ StartPipeline(c)
    \/ \E i \in DOMAIN (IF client[c].at = "running" THEN client[c].order ELSE <<>>) : FinishTask(c, i)
    \/ ScoreFacts(c) \/ StoreResult(c)

Next ==
    \/ \E c \in Clients : Lookup(c) \/ Analyse(c)
    \/ \E e \in Entries : Register(e)
    \/ \E n \in Names : Unregister(n)
    \/ \E k \in Keys : Invalidate(k)
    \/ ClearCache \/ CorrectData \/ NewDay \/ Tick

Spec == Init /\ [][Next]_vars

-----------------------------------------------------------------------------
\* Every answer, cached or not, is the one a single thread would have computed
\* from a context of the same cache key, however the tasks of the pool and the
\* steps of the clients interleave; and unless the registry was changed, what
\* was scored is what was run.
AnswersAreSequential ==
    \A c \in Clients : answer[c] # Nothing =>
        LET by == answer[c].by
        IN /\ MakeCacheKey(by.context) = MakeCacheKey(answer[c].context)
           /\ answer[c].value = Sequential(by.context, by.order, by.listed)
           /\ by.listed # NamesOf(by.order) => changes > 0

\* No answer is older than the time to live, and none survives an invalidation
\* of its key, whoever looked it up or replaced it in between.
AnswersAreFresh ==
    \A c \in Clients : answer[c] # Nothing => answer[c].age <= Ttl /\ ~answer[c].invalidated
=============================================================================

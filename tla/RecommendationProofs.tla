------------------------ MODULE RecommendationProofs ------------------------
(***************************************************************************)
(* For any clients, threads, engines, facts and registries: every answer   *)
(* of the recommendation engine is one that a single thread would have     *)
(* computed, and none is stale beyond the time to live or survives an      *)
(* invalidation.                                                           *)
(***************************************************************************)
EXTENDS Recommendation, TLAPS

\* The engines of the tasks that are done, by how they ended.
DoneWith(order, done)        == {order[i].engine : i \in done}
GaveFacts(order, done, ctx)  == {e \in DoneWith(order, done) : Facts(e, ctx) # Raises}
GaveErrors(order, done, ctx) == {e \in DoneWith(order, done) : Facts(e, ctx) = Raises}

FactsOf(engines, ctx) == [e \in engines |-> Facts(e, ctx)]

\* How a value was computed explains it: a single thread would have got it from
\* the same context, engines and names, and names that are not those of the
\* engines betray a change of the registry.
Explained(value, by, changed) ==
    /\ value = Sequential(by.context, by.order, by.listed)
    /\ by.listed # NamesOf(by.order) => changed

DomainsOK ==
    /\ clock \in Nat /\ changes \in Nat
    /\ data \in Contexts
    /\ DOMAIN cache = Keys /\ DOMAIN client = Clients /\ DOMAIN answer = Clients
    /\ invalidations \in [Keys -> Nat]

RegistryOK == changes = 0 => registry = DefaultRegistry

\* A running analysis has exactly the facts and errors of its finished tasks,
\* whichever they are.
Gathered(run) ==
    /\ DOMAIN run = {"at", "context", "order", "done", "facts", "errors"}
    /\ run.done \subseteq DOMAIN run.order
    /\ run.facts = FactsOf(GaveFacts(run.order, run.done, run.context), run.context)
    /\ run.errors = GaveErrors(run.order, run.done, run.context)

RunningOK(c) ==
    client[c].at = "running" =>
        /\ Gathered(client[c])
        /\ changes = 0 => client[c].order = DefaultRegistry

ScoredOK(c) ==
    client[c].at = "scored" =>
        /\ client[c].by.context = client[c].context
        /\ Explained(client[c].value, client[c].by, changes > 0)

\* An entry is under the key of the context it was computed from, expires a time
\* to live after it was stored, and was stored after the last invalidation.
EntryOK(k) ==
    cache[k] # Nothing =>
        /\ MakeCacheKey(cache[k].by.context) = k
        /\ Explained(cache[k].value, cache[k].by, changes > 0)
        /\ cache[k].stored \in Nat
        /\ cache[k].expires = cache[k].stored + Ttl
        /\ cache[k].invalidations = invalidations[k]

AnswerOK(c) ==
    answer[c] # Nothing =>
        /\ MakeCacheKey(answer[c].by.context) = MakeCacheKey(answer[c].context)
        /\ Explained(answer[c].value, answer[c].by, changes > 0)
        /\ answer[c].age <= Ttl /\ ~answer[c].invalidated

RecommendationInv ==
    /\ DomainsOK
    /\ RegistryOK
    /\ \A c \in Clients : RunningOK(c)
    /\ \A c \in Clients : ScoredOK(c)
    /\ \A k \in Keys : EntryOK(k)
    /\ \A c \in Clients : AnswerOK(c)

-----------------------------------------------------------------------------
LEMMA InitInv == Init => RecommendationInv
<1> SUFFICES ASSUME Init PROVE RecommendationInv
  OBVIOUS
<1>1. DomainsOK
  BY RecommendationAssumption DEF Init, DomainsOK, Contexts
<1>2. RegistryOK
  BY DEF Init, RegistryOK
<1>3. \A c \in Clients : RunningOK(c) /\ ScoredOK(c) /\ AnswerOK(c)
  BY DEF Init, Idle, RunningOK, ScoredOK, AnswerOK
<1>4. \A k \in Keys : EntryOK(k)
  BY DEF Init, EntryOK
<1> QED BY <1>1, <1>2, <1>3, <1>4 DEF RecommendationInv

-----------------------------------------------------------------------------
(* What a step leaves alone stays as it should be, as long as the count of  *)
(* changes only grows.                                                      *)

Grows == changes \in Nat /\ changes' \in Nat /\ changes' >= changes

LEMMA ClientKept ==
  ASSUME NEW c \in Clients, Grows, client'[c] = client[c], RunningOK(c), ScoredOK(c)
  PROVE  RunningOK(c)' /\ ScoredOK(c)'
<1>1. /\ changes' = 0 => changes = 0
      /\ changes > 0 => changes' > 0
  BY DEF Grows
<1>2. RunningOK(c)'
  BY <1>1 DEF RunningOK
<1>3. ScoredOK(c)'
  BY <1>1 DEF ScoredOK, Explained
<1> QED BY <1>2, <1>3

LEMMA EntryKept ==
  ASSUME NEW k \in Keys, Grows, EntryOK(k),
         \/ cache'[k] = Nothing
         \/ cache'[k] = cache[k] /\ invalidations'[k] = invalidations[k]
  PROVE  EntryOK(k)'
<1>1. changes > 0 => changes' > 0
  BY DEF Grows
<1> QED BY <1>1 DEF EntryOK, Explained

LEMMA AnswerKept ==
  ASSUME NEW c \in Clients, Grows, AnswerOK(c),
         answer'[c] = Nothing \/ answer'[c] = answer[c]
  PROVE  AnswerOK(c)'
<1>1. changes > 0 => changes' > 0
  BY DEF Grows
<1> QED BY <1>1 DEF AnswerOK, Explained

\* A step of the surroundings: no client moves and no cache entry is made.
LEMMA SurroundingsKeepInv ==
  ASSUME RecommendationInv, DomainsOK', RegistryOK', Grows, UNCHANGED <<client, answer>>,
         \A k \in Keys : \/ cache'[k] = Nothing
                         \/ cache'[k] = cache[k] /\ invalidations'[k] = invalidations[k]
  PROVE  RecommendationInv'
<1>1. \A c \in Clients : RunningOK(c)' /\ ScoredOK(c)' /\ AnswerOK(c)'
  BY ClientKept, AnswerKept DEF RecommendationInv
<1>2. \A k \in Keys : EntryOK(k)'
  BY EntryKept DEF RecommendationInv
<1> QED BY <1>1, <1>2 DEF RecommendationInv

\* A step of client c alone that leaves the cache and the answers alone.
LEMMA ComputingKeepsInv ==
  ASSUME RecommendationInv, NEW c \in Clients, NEW r,
         client' = [client EXCEPT ![c] = r],
         UNCHANGED <<clock, data, registry, cache, hits, misses, answer, changes, invalidations>>,
         RunningOK(c)', ScoredOK(c)'
  PROVE  RecommendationInv'
<1>1. Grows /\ DomainsOK' /\ RegistryOK'
  BY DEF RecommendationInv, Grows, DomainsOK, RegistryOK
<1>2. \A o \in Clients \ {c} : client'[o] = client[o]
  BY DEF RecommendationInv, DomainsOK
<1>3. \A o \in Clients : RunningOK(o)' /\ ScoredOK(o)'
  BY <1>1, <1>2, ClientKept DEF RecommendationInv
<1>4. \A o \in Clients : AnswerOK(o)'
  BY <1>1, AnswerKept DEF RecommendationInv
<1>5. \A k \in Keys : EntryOK(k)'
  BY <1>1, EntryKept DEF RecommendationInv
<1> QED BY <1>1, <1>3, <1>4, <1>5 DEF RecommendationInv

-----------------------------------------------------------------------------
(* The steps of a client *)

\* A hit is of the day's key, not expired and not replaced since.
LEMMA LookupKeepsInv ==
  ASSUME RecommendationInv, NEW c \in Clients, Lookup(c)
  PROVE  RecommendationInv'
<1> DEFINE key == data.day
<1>1. key \in Keys /\ clock \in Nat
  BY DEF RecommendationInv, DomainsOK, Contexts, Keys
<1>2. Grows /\ RegistryOK'
  BY DEF Lookup, RecommendationInv, Grows, DomainsOK, RegistryOK
<1>3. cache' = cache \/ cache' = [cache EXCEPT ![key] = Nothing]
  BY DEF Lookup, CacheGet, MakeCacheKey
<1>4. DomainsOK'
  BY <1>3 DEF Lookup, RecommendationInv, DomainsOK
<1>5. \A k \in Keys : EntryOK(k)'
  <2>1. \A k \in Keys : cache'[k] = Nothing \/ cache'[k] = cache[k]
    BY <1>3 DEF RecommendationInv, DomainsOK
  <2>2. invalidations' = invalidations
    BY DEF Lookup
  <2> QED BY <1>2, <2>1, <2>2, EntryKept DEF RecommendationInv
<1>6. \A o \in Clients : RunningOK(o)' /\ ScoredOK(o)'
  <2>1. \A o \in Clients \ {c} : client'[o] = client[o]
    BY DEF Lookup, RecommendationInv, DomainsOK
  <2>2. client'[c] = client[c] \/ client'[c] = [at |-> "missed", context |-> data]
    BY DEF Lookup, RecommendationInv, DomainsOK
  <2>3. CASE client'[c] = client[c]
    BY <1>2, <2>1, <2>3, ClientKept DEF RecommendationInv
  <2>4. CASE client'[c] = [at |-> "missed", context |-> data]
    <3>1. RunningOK(c)' /\ ScoredOK(c)'
      BY <2>4 DEF RunningOK, ScoredOK
    <3> QED BY <1>2, <2>1, <3>1, ClientKept DEF RecommendationInv
  <2> QED BY <2>2, <2>3, <2>4
<1>7. \A o \in Clients : AnswerOK(o)'
  <2>1. \A o \in Clients \ {c} : answer'[o] = answer[o]
    BY DEF Lookup, RecommendationInv, DomainsOK
  <2>2. AnswerOK(c)'
    <3>1. CASE ~Hit(key)
      <4>1. answer'[c] = Nothing
        BY <3>1 DEF Lookup, MakeCacheKey, RecommendationInv, DomainsOK
      <4> QED BY <4>1 DEF AnswerOK
    <3>2. CASE Hit(key)
      <4> DEFINE thrown == cache[key].invalidations # invalidations[key]
      <4>1. answer'[c] = Answer(data, cache[key].value, cache[key].by, cache[key].stored, thrown)
        BY <3>2 DEF Lookup, MakeCacheKey, RecommendationInv, DomainsOK
      <4>2. cache[key] # Nothing /\ ~(clock > cache[key].expires)
        BY <3>2 DEF Hit, Expired
      <4>3. /\ MakeCacheKey(cache[key].by.context) = key
            /\ Explained(cache[key].value, cache[key].by, changes > 0)
            /\ cache[key].stored \in Nat
            /\ cache[key].expires = cache[key].stored + Ttl
            /\ cache[key].invalidations = invalidations[key]
        BY <1>1, <4>2 DEF RecommendationInv, EntryOK
      <4>4. clock - cache[key].stored <= Ttl
        BY <1>1, <4>2, <4>3, RecommendationAssumption
      <4>5. /\ answer'[c].context = data /\ answer'[c].value = cache[key].value
            /\ answer'[c].by = cache[key].by
            /\ answer'[c].age = clock - cache[key].stored
            /\ ~answer'[c].invalidated
        <5>1. thrown = FALSE
          BY <4>3
        <5> HIDE DEF thrown
        <5> QED BY <4>1, <5>1 DEF Answer
      <4>6. changes' = changes /\ data' = data
        BY DEF Lookup
      <4> QED BY <4>3, <4>4, <4>5, <4>6 DEF AnswerOK, Explained, MakeCacheKey
    <3> QED BY <3>1, <3>2
  <2> QED BY <1>2, <2>1, <2>2, AnswerKept DEF RecommendationInv
<1> QED BY <1>2, <1>4, <1>5, <1>6, <1>7 DEF RecommendationInv

LEMMA NothingGathered ==
  ASSUME NEW order, NEW ctx
  PROVE  Gathered([at |-> "running", context |-> ctx, order |-> order,
                   done |-> {}, facts |-> <<>>, errors |-> {}])
<1>1. DoneWith(order, {}) = {}
  BY DEF DoneWith
<1>2. GaveFacts(order, {}, ctx) = {} /\ GaveErrors(order, {}, ctx) = {}
  BY <1>1 DEF GaveFacts, GaveErrors
<1>3. <<>> = FactsOf({}, ctx)
  BY DEF FactsOf
<1> QED BY <1>2, <1>3 DEF Gathered

LEMMA StartKeepsInv ==
  ASSUME RecommendationInv, NEW c \in Clients, StartPipeline(c)
  PROVE  RecommendationInv'
<1> DEFINE r == [at |-> "running", context |-> client[c].context, order |-> registry,
                 done |-> {}, facts |-> <<>>, errors |-> {}]
<1>1. client' = [client EXCEPT ![c] = r] /\ client'[c] = r
  BY DEF StartPipeline, RecommendationInv, DomainsOK
<1>2. changes' = 0 => registry = DefaultRegistry
  BY DEF StartPipeline, RecommendationInv, RegistryOK
<1>3. Gathered(r)
  BY NothingGathered
<1>4. client'[c].at = "running" /\ client'[c].order = registry
  BY <1>1
<1> HIDE DEF r
<1>5. RunningOK(c)' /\ ScoredOK(c)'
  BY <1>1, <1>2, <1>3, <1>4 DEF RunningOK, ScoredOK
<1> QED BY <1>1, <1>5, ComputingKeepsInv DEF StartPipeline

\* One task more, whichever it is: its fact or its error is added.
Gather(run, i) ==
    LET engine == run.order[i].engine
        fact   == Facts(engine, run.context)
    IN [run EXCEPT
          !.done   = @ \union {i},
          !.facts  = IF fact = Raises THEN @
                     ELSE [e \in DOMAIN @ \union {engine} |-> IF e = engine THEN fact ELSE @[e]],
          !.errors = IF fact = Raises THEN @ \union {engine} ELSE @]

LEMMA OneMoreGathered ==
  ASSUME NEW run, Gathered(run), NEW i \in DOMAIN run.order
  PROVE  Gathered(Gather(run, i)) /\ Gather(run, i).at = run.at /\ Gather(run, i).order = run.order
<1> DEFINE engine == run.order[i].engine
           fact   == Facts(engine, run.context)
           facts  == IF fact = Raises THEN run.facts
                     ELSE [e \in DOMAIN run.facts \union {engine} |->
                             IF e = engine THEN fact ELSE run.facts[e]]
           errors == IF fact = Raises THEN run.errors \union {engine} ELSE run.errors
           n      == Gather(run, i)
<1> DEFINE ctx   == run.context
           gave  == GaveFacts(run.order, run.done, ctx)
           after == GaveFacts(run.order, run.done \union {i}, ctx)
           wrong == GaveErrors(run.order, run.done \union {i}, ctx)
<1>1. DoneWith(run.order, run.done \union {i}) = DoneWith(run.order, run.done) \union {engine}
  BY DEF DoneWith
<1>2. facts = FactsOf(after, ctx) /\ errors = wrong
  <2>1. run.facts = FactsOf(gave, ctx) /\ run.errors = GaveErrors(run.order, run.done, ctx)
    BY DEF Gathered
  <2>2. CASE fact = Raises
    <3>1. after = gave /\ wrong = run.errors \union {engine}
      BY <1>1, <2>1, <2>2 DEF GaveFacts, GaveErrors
    <3> QED BY <2>1, <2>2, <3>1
  <2>3. CASE fact # Raises
    <3>1. after = gave \union {engine} /\ wrong = run.errors
      BY <1>1, <2>1, <2>3 DEF GaveFacts, GaveErrors
    <3>2. DOMAIN run.facts = gave /\ \A e \in gave : run.facts[e] = Facts(e, ctx)
      BY <2>1 DEF FactsOf
    <3>3. facts = FactsOf(after, ctx)
      BY <2>3, <3>1, <3>2 DEF FactsOf
    <3> QED BY <2>3, <3>1, <3>3
  <2> QED BY <2>2, <2>3
<1> HIDE DEF facts, errors
<1>n. n = [run EXCEPT !.done = @ \union {i}, !.facts = facts, !.errors = errors]
  BY DEF Gather, facts, errors
<1>3. /\ DOMAIN n = DOMAIN run /\ n.order = run.order /\ n.context = run.context
      /\ n.done = run.done \union {i} /\ n.facts = facts /\ n.errors = errors
      /\ n.at = run.at
  BY <1>n DEF Gathered
<1> HIDE DEF n
<1>4. DOMAIN n = {"at", "context", "order", "done", "facts", "errors"}
  BY <1>3 DEF Gathered
<1>5. n.done \subseteq DOMAIN n.order
  BY <1>3 DEF Gathered
<1> QED BY <1>2, <1>3, <1>4, <1>5 DEF Gathered, n

LEMMA FinishKeepsInv ==
  ASSUME RecommendationInv, NEW c \in Clients, NEW i, FinishTask(c, i)
  PROVE  RecommendationInv'
<1> DEFINE n == Gather(client[c], i)
<1>1. /\ client[c].at = "running" /\ i \in DOMAIN client[c].order
      /\ c \in DOMAIN client /\ changes' = changes
  BY DEF FinishTask, Working, RecommendationInv, DomainsOK
<1>2. Gathered(client[c]) /\ (changes = 0 => client[c].order = DefaultRegistry)
  BY <1>1 DEF RecommendationInv, RunningOK
<1>3. client' = [client EXCEPT ![c] = n]
  BY <1>1 DEF FinishTask, Gather
<1>4. Gathered(n) /\ n.at = "running" /\ n.order = client[c].order
  BY <1>1, <1>2, OneMoreGathered
<1> HIDE DEF n
<1>5. client'[c] = n
  BY <1>1, <1>3
<1>6. RunningOK(c)' /\ ScoredOK(c)'
  BY <1>1, <1>2, <1>4, <1>5 DEF RunningOK, ScoredOK
<1> QED BY <1>3, <1>6, ComputingKeepsInv DEF FinishTask

\* When all tasks are done, their facts and errors are those of one thread.
LEMMA AllGathered ==
  ASSUME NEW run, Gathered(run), run.done = DOMAIN run.order, NEW listed
  PROVE  Recommend(run.facts, run.errors, listed) = Sequential(run.context, run.order, listed)
<1>1. /\ GaveFacts(run.order, run.done, run.context) = Succeeded(run.order, run.context)
      /\ GaveErrors(run.order, run.done, run.context) = Failed(run.order, run.context)
  BY DEF GaveFacts, GaveErrors, DoneWith, Succeeded, Failed
<1>2. /\ run.facts = [e \in Succeeded(run.order, run.context) |-> Facts(e, run.context)]
      /\ run.errors = Failed(run.order, run.context)
  BY <1>1 DEF Gathered, FactsOf
<1> QED BY <1>2 DEF Sequential

LEMMA ScoreKeepsInv ==
  ASSUME RecommendationInv, NEW c \in Clients, ScoreFacts(c)
  PROVE  RecommendationInv'
<1> DEFINE run    == client[c]
           listed == NamesOf(registry)
           by     == [context |-> run.context, order |-> run.order, listed |-> listed]
           value  == Recommend(run.facts, run.errors, listed)
           r      == [at |-> "scored", context |-> run.context, by |-> by, value |-> value]
<1>1. run.at = "running" /\ run.done = DOMAIN run.order /\ changes' = changes /\ changes \in Nat
  BY DEF ScoreFacts, RecommendationInv, DomainsOK
<1>2. Gathered(run) /\ (changes = 0 => run.order = DefaultRegistry)
  BY <1>1 DEF RecommendationInv, RunningOK
<1>3. value = Sequential(run.context, run.order, listed)
  BY <1>1, <1>2, AllGathered
<1>4. listed # NamesOf(run.order) => changes > 0
  BY <1>1, <1>2 DEF RecommendationInv, RegistryOK
<1>5. Explained(value, by, changes > 0)
  <2>1. by.context = run.context /\ by.order = run.order /\ by.listed = listed
    OBVIOUS
  <2> QED BY <1>3, <1>4, <2>1 DEF Explained
<1>6. client' = [client EXCEPT ![c] = r]
  BY DEF ScoreFacts
<1>7. r.at = "scored" /\ r.context = run.context /\ r.by = by /\ r.value = value
      /\ by.context = run.context
  OBVIOUS
<1> HIDE DEF r, by, value
<1>8. client'[c] = r
  BY <1>6 DEF RecommendationInv, DomainsOK
<1>9. RunningOK(c)' /\ ScoredOK(c)'
  BY <1>1, <1>5, <1>7, <1>8 DEF RunningOK, ScoredOK
<1> QED BY <1>6, <1>9, ComputingKeepsInv DEF ScoreFacts

\* The result goes into the cache under the key of its own context, and to the
\* client.
LEMMA StoreKeepsInv ==
  ASSUME RecommendationInv, NEW c \in Clients, StoreResult(c)
  PROVE  RecommendationInv'
<1> DEFINE run   == client[c]
           key   == MakeCacheKey(run.context)
           entry == [value |-> run.value, expires |-> clock + Ttl, by |-> run.by,
                     stored |-> clock, invalidations |-> invalidations[key]]
<1>1. /\ cache' = [cache EXCEPT ![key] = entry]
      /\ answer' = [answer EXCEPT ![c] = Answer(run.context, run.value, run.by, clock, FALSE)]
      /\ client' = [client EXCEPT ![c] = Idle]
      /\ UNCHANGED <<clock, data, registry, changes, invalidations>>
  BY DEF StoreResult, CacheSet
<1>2. run.by.context = run.context /\ Explained(run.value, run.by, changes > 0)
  BY DEF StoreResult, RecommendationInv, ScoredOK
<1>3. Grows /\ DomainsOK' /\ RegistryOK' /\ clock \in Nat
  BY <1>1 DEF RecommendationInv, Grows, DomainsOK, RegistryOK
<1>4. \A o \in Clients : RunningOK(o)' /\ ScoredOK(o)'
  <2>1. client'[c].at = "idle" /\ \A o \in Clients \ {c} : client'[o] = client[o]
    BY <1>1 DEF RecommendationInv, DomainsOK, Idle
  <2>2. RunningOK(c)' /\ ScoredOK(c)'
    BY <2>1 DEF RunningOK, ScoredOK
  <2> QED BY <1>3, <2>1, <2>2, ClientKept DEF RecommendationInv
<1>5. ASSUME NEW k \in Keys PROVE EntryOK(k)'
  <2>1. CASE k # key
    <3>1. cache'[k] = cache[k] /\ invalidations'[k] = invalidations[k]
      BY <1>1, <2>1 DEF RecommendationInv, DomainsOK
    <3> QED BY <1>3, <3>1, EntryKept DEF RecommendationInv
  <2>2. CASE k = key
    <3>1. cache'[k] = entry
      BY <1>1, <2>2 DEF RecommendationInv, DomainsOK
    <3>2. /\ entry.value = run.value /\ entry.by = run.by /\ entry.stored = clock
          /\ entry.expires = clock + Ttl /\ entry.invalidations = invalidations[k]
      BY <2>2
    <3>3. MakeCacheKey(run.by.context) = k
      BY <1>2, <2>2 DEF MakeCacheKey
    <3> HIDE DEF entry, key, run
    <3>4. /\ MakeCacheKey(entry.by.context) = k
          /\ Explained(entry.value, entry.by, changes > 0)
          /\ entry.stored \in Nat /\ entry.expires = entry.stored + Ttl
          /\ entry.invalidations = invalidations[k]
      BY <1>2, <1>3, <3>2, <3>3 DEF run
    <3>5. changes' = changes /\ invalidations' = invalidations
      BY <1>1
    <3> QED BY <3>1, <3>4, <3>5 DEF EntryOK
  <2> QED BY <2>1, <2>2
<1>6. \A o \in Clients : AnswerOK(o)'
  <2>1. \A o \in Clients \ {c} : answer'[o] = answer[o]
    BY <1>1 DEF RecommendationInv, DomainsOK
  <2>2. AnswerOK(c)'
    <3> DEFINE a == Answer(run.context, run.value, run.by, clock, FALSE)
    <3>1. answer'[c] = a
      BY <1>1 DEF RecommendationInv, DomainsOK
    <3>2. /\ a.context = run.context /\ a.value = run.value /\ a.by = run.by
          /\ a.age = clock - clock /\ ~a.invalidated
      BY DEF Answer
    <3>3. clock - clock <= Ttl
      BY <1>3, RecommendationAssumption
    <3> HIDE DEF a
    <3> QED BY <1>1, <1>2, <3>1, <3>2, <3>3 DEF AnswerOK
  <2> QED BY <1>3, <2>1, <2>2, AnswerKept DEF RecommendationInv
<1> QED BY <1>3, <1>4, <1>5, <1>6 DEF RecommendationInv

-----------------------------------------------------------------------------
(* The steps around the clients *)

LEMMA RegisterKeepsInv ==
  ASSUME RecommendationInv, NEW entry, Register(entry)
  PROVE  RecommendationInv'
<1>1. Grows /\ DomainsOK' /\ RegistryOK'
  BY DEF Register, RecommendationInv, Grows, DomainsOK, RegistryOK
<1> QED BY <1>1, SurroundingsKeepInv DEF Register

LEMMA UnregisterKeepsInv ==
  ASSUME RecommendationInv, NEW name, Unregister(name)
  PROVE  RecommendationInv'
<1>1. changes' = changes + 1 /\ UNCHANGED <<clock, data, cache, client, answer, invalidations>>
  BY DEF Unregister
<1>2. Grows /\ DomainsOK' /\ RegistryOK'
  BY <1>1 DEF RecommendationInv, Grows, DomainsOK, RegistryOK
<1> QED BY <1>1, <1>2, SurroundingsKeepInv

LEMMA InvalidateKeepsInv ==
  ASSUME RecommendationInv, NEW key \in Keys, Invalidate(key)
  PROVE  RecommendationInv'
<1>1. Grows /\ DomainsOK' /\ RegistryOK'
  BY DEF Invalidate, RecommendationInv, Grows, DomainsOK, RegistryOK
<1>2. \A k \in Keys : \/ cache'[k] = Nothing
                      \/ cache'[k] = cache[k] /\ invalidations'[k] = invalidations[k]
  BY DEF Invalidate, RecommendationInv, DomainsOK
<1> QED BY <1>1, <1>2, SurroundingsKeepInv DEF Invalidate

LEMMA ClearKeepsInv ==
  ASSUME RecommendationInv, ClearCache
  PROVE  RecommendationInv'
<1>1. Grows /\ DomainsOK' /\ RegistryOK'
  BY DEF ClearCache, RecommendationInv, Grows, DomainsOK, RegistryOK
<1> QED BY <1>1, SurroundingsKeepInv DEF ClearCache

LEMMA DataKeepsInv ==
  ASSUME RecommendationInv, CorrectData \/ NewDay
  PROVE  RecommendationInv'
<1>1. data' \in Contexts
  BY RecommendationAssumption
     DEF CorrectData, NewDay, RecommendationInv, DomainsOK, Contexts
<1>2. UNCHANGED <<clock, registry, cache, client, answer, changes, invalidations>>
  BY DEF CorrectData, NewDay
<1>3. Grows /\ DomainsOK' /\ RegistryOK'
  BY <1>1, <1>2 DEF RecommendationInv, Grows, DomainsOK, RegistryOK
<1> QED BY <1>2, <1>3, SurroundingsKeepInv

LEMMA TickKeepsInv ==
  ASSUME RecommendationInv, Tick
  PROVE  RecommendationInv'
<1>1. Grows /\ DomainsOK' /\ RegistryOK'
  BY DEF Tick, RecommendationInv, Grows, DomainsOK, RegistryOK
<1> QED BY <1>1, SurroundingsKeepInv DEF Tick

LEMMA StutterKeepsInv ==
  ASSUME RecommendationInv, UNCHANGED vars
  PROVE  RecommendationInv'
<1>1. Grows /\ DomainsOK' /\ RegistryOK'
  BY DEF vars, RecommendationInv, Grows, DomainsOK, RegistryOK
<1> QED BY <1>1, SurroundingsKeepInv DEF vars

LEMMA StepKeepsInv ==
  ASSUME RecommendationInv, [Next]_vars
  PROVE  RecommendationInv'
<1>1. ASSUME NEW c \in Clients, Lookup(c) PROVE RecommendationInv'
  BY <1>1, LookupKeepsInv
<1>2. ASSUME NEW c \in Clients, Analyse(c) PROVE RecommendationInv'
  BY <1>2, StartKeepsInv, FinishKeepsInv, ScoreKeepsInv, StoreKeepsInv DEF Analyse
<1>3. ASSUME NEW e \in Entries, Register(e) PROVE RecommendationInv'
  BY <1>3, RegisterKeepsInv
<1>4. ASSUME NEW n \in Names, Unregister(n) PROVE RecommendationInv'
  BY <1>4, UnregisterKeepsInv
<1>5. ASSUME NEW k \in Keys, Invalidate(k) PROVE RecommendationInv'
  BY <1>5, InvalidateKeepsInv
<1>6. ASSUME ClearCache \/ CorrectData \/ NewDay \/ Tick PROVE RecommendationInv'
  BY <1>6, ClearKeepsInv, DataKeepsInv, TickKeepsInv
<1>7. CASE UNCHANGED vars
  BY <1>7, StutterKeepsInv
<1> QED BY <1>1, <1>2, <1>3, <1>4, <1>5, <1>6, <1>7 DEF Next

-----------------------------------------------------------------------------
\* The inductive invariant holds in every reachable state.
THEOREM RecommendationInvariant == Spec => []RecommendationInv
BY InitInv, StepKeepsInv, PTL DEF Spec

\* Every recommendation, cached or not, is the one a single thread would have
\* computed from a context of the same cache key, however many clients and
\* threads there are and in whatever order their tasks end.
THEOREM RecommendationSequential == Spec => []AnswersAreSequential
<1>1. RecommendationInv => AnswersAreSequential
  BY DEF RecommendationInv, AnswerOK, Explained, AnswersAreSequential
<1> QED BY <1>1, RecommendationInvariant, PTL

\* No recommendation is older than the time to live of the cache or comes from
\* an entry that was there when its key was invalidated.
THEOREM RecommendationFresh == Spec => []AnswersAreFresh
<1>1. RecommendationInv => AnswersAreFresh
  BY DEF RecommendationInv, AnswerOK, AnswersAreFresh
<1> QED BY <1>1, RecommendationInvariant, PTL
=============================================================================

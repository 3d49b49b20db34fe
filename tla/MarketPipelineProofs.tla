------------------------- MODULE MarketPipelineProofs -------------------------
(***************************************************************************)
(* What PriceStore and MarketPipeline promise for any number of clients,   *)
(* symbols, dates, requests and runs.                                      *)
(*                                                                         *)
(* The invariants of the store are inductive only together (StoreInv):     *)
(* commit() cannot break a unique key or mix the rows of two versions      *)
(* because flushed rows are safe, and they stay safe because any other     *)
(* flush is checked against them and every version and price row carries   *)
(* the key it was checked by.  A delete cannot break them because what it  *)
(* takes away are whole versions, and rows are held deleted by one client  *)
(* at a time (DoomedInv).  The balance of the log needs the recursive sum  *)
(* over it to exist and to be unique, proved by least counterexample.      *)
(*                                                                         *)
(* Every step of the pipeline but a crash is a step of the store or leaves *)
(* the store alone, so all of this holds under the pipeline.  On top:      *)
(*                                                                         *)
(*   HandedInv  what store() was handed is about the symbol at hand, and   *)
(*              names no day before its bars                               *)
(*   DailyInv   if the operator lets no day pass without a run, and no run *)
(*              or delete() go past midnight, what is stored of a symbol   *)
(*              that was carried through today reaches into today's        *)
(*              window, and into yesterday's for the others; a delete()    *)
(*              leaves nothing, or what was stored today                   *)
(*   GapInv     so bars that are handed over close up with what is stored, *)
(*              but for the records that were skipped                      *)
(***************************************************************************)
EXTENDS MarketPipeline, FoldLemmas

\* The rows a client's DELETE has found are whole versions of one listing, on
\* the exchange delete() is bound to; those held deleted are there, and held
\* by one client only.
DoomedInv ==
  /\ \A c \in Clients : doomed[c] # {} => stage[c] \in {"erasing", "erased"}
  /\ \A c \in Clients : \E s \in Symbols : \A p \in doomed[c] : p.listing = HomeListing(s)
  /\ \A c \in Clients : \A p \in doomed[c] : \E v \in versions : p \in RowsOf(v)
  /\ \A c \in Clients : \A v \in versions : \A p, q \in RowsOf(v) :
       p \in doomed[c] => q \in doomed[c]
  /\ \A c \in Clients : Erased(c) => doomed[c] \subseteq prices
  /\ \A c, o \in Clients : c # o /\ Erased(c) /\ Erased(o) => doomed[c] \cap doomed[o] = {}

StoreInv ==
  /\ StoreTypeOK
  /\ IsFiniteSet(prices)
  /\ FlushedRowsAreSafe
  /\ KeysAreUnique
  /\ StoresAreAtomic
  /\ DoomedInv

\* The rows of a request are price rows, finitely many.
LEMMA RowsOfType ==
  ASSUME NEW r \in Requests
  PROVE  RowsOf(r) \subseteq Row /\ IsFiniteSet(RowsOf(r))
<1>1. r \in Request /\ IsFiniteSet(r.dates)
  BY StoreAssumption
<1>2. RowsOf(r) \subseteq Row
  BY <1>1 DEF RowsOf, Request, Row
<1>3. IsFiniteSet(RowsOf(r))
  <2> DEFINE row == [d \in r.dates |->
                       [listing |-> r.listing, date |-> d, version |-> r.version]]
  <2>1. row \in Surjection(r.dates, RowsOf(r))
    BY DEF Surjection, RowsOf
  <2> QED BY <1>1, <2>1, FS_Surjection
<1> QED BY <1>2, <1>3

\* The empty database.
LEMMA InitInv == StoreInit => StoreInv
<1> SUFFICES ASSUME StoreInit PROVE StoreInv
  OBVIOUS
<1>1. (CHOOSE r \in Requests : TRUE) \in Requests
  BY StoreAssumption
<1>2. StoreTypeOK
  BY <1>1 DEF StoreInit, StoreTypeOK, Stages, Replies
<1>3. IsFiniteSet(prices)
  BY FS_EmptySet DEF StoreInit
<1>4. FlushedRowsAreSafe /\ KeysAreUnique /\ StoresAreAtomic
  BY DEF StoreInit, FlushedRowsAreSafe, KeysAreUnique, StoresAreAtomic, Flushed
<1>5. DoomedInv
  <2>1. Symbols # {}
    BY StoreAssumption DEF Request, Listings
  <2> QED BY <2>1 DEF StoreInit, DoomedInv, Erased
<1> QED BY <1>2, <1>3, <1>4, <1>5 DEF StoreInv

\* What keeps the price and version rows keeps what is said of them alone.
LEMMA TablesKept ==
  ASSUME StoreInv, UNCHANGED tables
  PROVE  IsFiniteSet(prices)' /\ KeysAreUnique' /\ StoresAreAtomic'
BY DEF StoreInv, tables, KeysAreUnique, StoresAreAtomic

\* A step that flushes nothing and commits nothing keeps flushed rows safe.
LEMMA SafeKept ==
  ASSUME StoreInv,
         prices' \subseteq prices, versions' = versions,
         \A o \in Clients : Flushed(o)' => Flushed(o) /\ req'[o] = req[o]
  PROVE  FlushedRowsAreSafe'
BY DEF StoreInv, FlushedRowsAreSafe, Taken

\* A step that begins no DELETE and ends one at most.
LEMMA DoomedKept ==
  ASSUME StoreInv, UNCHANGED <<prices, versions>>,
         \A o \in Clients : \/ doomed'[o] = {}
                            \/ doomed'[o] = doomed[o] /\ stage'[o] = stage[o]
  PROVE  DoomedInv'
<1>1. DoomedInv /\ \E s : s \in Symbols
  BY StoreAssumption DEF StoreInv, Request, Listings
<1>2. \A o \in Clients : doomed'[o] # {} => doomed'[o] = doomed[o] /\ stage'[o] = stage[o]
  OBVIOUS
<1>3. \A o \in Clients : doomed'[o] # {} => stage'[o] \in {"erasing", "erased"}
  BY <1>1, <1>2 DEF DoomedInv
<1>4. \A o \in Clients : \E s \in Symbols : \A p \in doomed'[o] : p.listing = HomeListing(s)
  BY <1>1, <1>2 DEF DoomedInv
<1>5. \A o \in Clients : \A p \in doomed'[o] : \E v \in versions' : p \in RowsOf(v)
  BY <1>1, <1>2 DEF DoomedInv
<1>6. \A o \in Clients : \A v \in versions' : \A p, q \in RowsOf(v) :
        p \in doomed'[o] => q \in doomed'[o]
  BY <1>1, <1>2 DEF DoomedInv
<1>7. \A o \in Clients : Erased(o)' => doomed'[o] \subseteq prices'
  BY <1>1, <1>2 DEF DoomedInv, Erased
<1>8. \A c, o \in Clients : c # o /\ Erased(c)' /\ Erased(o)' => doomed'[c] \cap doomed'[o] = {}
  BY <1>1, <1>2 DEF DoomedInv, Erased
<1> QED BY <1>3, <1>4, <1>5, <1>6, <1>7, <1>8 DEF DoomedInv, RowsOf, HomeListing, Erased

\* A step that ends the transaction of c and leaves the tables alone.
LEMMA AnswerKeepsInv ==
  ASSUME StoreInv, NEW c \in Clients, NEW a \in Replies,
         Answer(c, a), UNCHANGED <<tables, req>>
  PROVE  StoreInv'
<1>1. StoreTypeOK'
  BY DEF StoreInv, StoreTypeOK, Answer, tables, Stages
<1>2. \A o \in Clients : Flushed(o)' => Flushed(o) /\ req'[o] = req[o]
  BY DEF StoreInv, StoreTypeOK, Answer, Flushed
<1>3. FlushedRowsAreSafe'
  BY <1>2, SafeKept DEF tables
<1>4. \A o \in Clients : \/ doomed'[o] = {}
                         \/ doomed'[o] = doomed[o] /\ stage'[o] = stage[o]
  BY DEF StoreInv, StoreTypeOK, Answer
<1>5. DoomedInv'
  BY <1>4, DoomedKept DEF tables
<1>6. UNCHANGED tables
  OBVIOUS
<1>7. IsFiniteSet(prices)' /\ KeysAreUnique' /\ StoresAreAtomic'
  BY <1>6, TablesKept
<1> QED BY <1>1, <1>3, <1>5, <1>7 DEF StoreInv

\* commit(): the new rows have the keys of no other row, and no waiting
\* transaction has theirs.
LEMMA CommitKeepsInv ==
  ASSUME StoreInv, NEW c \in Clients, NEW a \in Replies,
         Committed(c), Answer(c, a)
  PROVE  StoreInv'
<1> DEFINE r == req[c]
<1>1. /\ r \in Requests /\ r \in Request
      /\ r.listing \in Listings /\ IsFiniteSet(r.dates)
  BY StoreAssumption DEF StoreInv, StoreTypeOK, Request
<1>2. /\ symbols' = symbols \cup {r.listing}
      /\ prices' = prices \cup RowsOf(r)
      /\ versions' = versions \cup {r}
      /\ UNCHANGED req
      /\ stage' = [stage EXCEPT ![c] = "idle"]
      /\ doomed' = [doomed EXCEPT ![c] = {}]
  BY DEF Committed, Answer
<1>3. /\ ~Taken(r)
      /\ \A o \in Clients \ {c} : Flushed(o) => ~SameKey(req[o], r)
  BY DEF StoreInv, FlushedRowsAreSafe, Committed
<1>4. /\ \A p \in prices : ~(p.listing = r.listing /\ p.date \in r.dates)
      /\ \A v \in versions : ~(v.listing = r.listing /\ v.version = r.version)
  BY <1>3 DEF Taken
<1>5. \A p \in RowsOf(r) : /\ p.listing = r.listing /\ p.date \in r.dates
                           /\ p.version = r.version
  BY DEF RowsOf
<1>6. \A p \in prices : ~(p.listing = r.listing /\ p.version = r.version)
  BY <1>4 DEF StoreInv, StoresAreAtomic, RowsOf
<1>7. StoreTypeOK'
  <2>1. Cardinality(r.dates) \in Nat
    BY <1>1, FS_CardinalityType
  <2>2. log' \in Seq([status : {"success", "deleted"}, count : Nat])
    BY <2>1 DEF StoreInv, StoreTypeOK, Committed
  <2>3. symbols' \subseteq Listings /\ prices' \subseteq Row /\ versions' \subseteq Request
    BY <1>1, <1>2, RowsOfType DEF StoreInv, StoreTypeOK
  <2>4. doomed' \in [Clients -> SUBSET Row] /\ stage' \in [Clients -> Stages]
    BY <1>2 DEF StoreInv, StoreTypeOK, Stages
  <2> QED BY <2>2, <2>3, <2>4, <1>2 DEF StoreInv, StoreTypeOK, Answer
<1>8. IsFiniteSet(prices)'
  BY <1>1, <1>2, RowsOfType, FS_Union DEF StoreInv
<1>9. FlushedRowsAreSafe'
  <2> SUFFICES ASSUME NEW o \in Clients, Flushed(o)'
               PROVE  /\ ~Taken(req[o])'
                      /\ \A n \in Clients \ {o} : Flushed(n)' => ~SameKey(req[n], req[o])'
    BY DEF FlushedRowsAreSafe
  <2>1. o # c /\ Flushed(o) /\ req'[o] = req[o]
    BY <1>2 DEF Flushed, StoreInv, StoreTypeOK
  <2>2. ~Taken(req[o]) /\ \A n \in Clients \ {o} : Flushed(n) => ~SameKey(req[n], req[o])
    BY <2>1 DEF StoreInv, FlushedRowsAreSafe
  <2>3. ~SameKey(req[o], r)
    BY <2>1, <1>3
  <2>4. \A p \in RowsOf(r) : ~(p.listing = req[o].listing /\ p.date \in req[o].dates)
    BY <1>5, <2>3 DEF SameKey
  <2>5. ~(r.listing = req[o].listing /\ r.version = req[o].version)
    BY <2>3 DEF SameKey
  <2>6. ~Taken(req[o])'
    BY <1>2, <2>1, <2>2, <2>4, <2>5 DEF Taken
  <2>7. \A n \in Clients : Flushed(n)' => Flushed(n) /\ req'[n] = req[n]
    BY <1>2 DEF Flushed, StoreInv, StoreTypeOK
  <2> QED BY <2>1, <2>2, <2>6, <2>7 DEF SameKey
<1>10. KeysAreUnique'
  <2>1. \A p, q \in prices' : p.listing = q.listing /\ p.date = q.date => p = q
    <3>1. \A p, q \in RowsOf(r) : p.date = q.date => p = q
      BY DEF RowsOf
    <3> QED BY <1>2, <1>4, <1>5, <3>1 DEF StoreInv, KeysAreUnique
  <2>2. \A v, w \in versions' : v.listing = w.listing /\ v.version = w.version => v = w
    BY <1>2, <1>4 DEF StoreInv, KeysAreUnique
  <2> QED BY <2>1, <2>2 DEF KeysAreUnique
<1>11. StoresAreAtomic'
  <2> DEFINE There(P, v) == {p \in P : p.listing = v.listing /\ p.version = v.version}
  <2>1. ASSUME NEW v \in versions'
        PROVE  There(prices', v) = RowsOf(v) \/ There(prices', v) = {}
    <3>1. CASE v = r
      <4>1. There(prices', r) = RowsOf(r)
        BY <1>2, <1>5, <1>6
      <4> QED BY <3>1, <4>1
    <3>2. CASE v \in versions
      <4>1. There(prices', v) = There(prices, v)
        BY <1>2, <1>4, <1>5, <3>2
      <4> QED BY <3>2, <4>1 DEF StoreInv, StoresAreAtomic
    <3> QED BY <1>2, <3>1, <3>2
  <2>2. ASSUME NEW p \in prices'
        PROVE  p.listing \in symbols' /\ \E v \in versions' : p \in RowsOf(v)
    <3>1. CASE p \in prices
      BY <1>2, <3>1 DEF StoreInv, StoresAreAtomic
    <3>2. CASE p \in RowsOf(r)
      BY <1>2, <1>5, <3>2
    <3> QED BY <1>2, <3>1, <3>2
  <2> HIDE DEF There
  <2>3. \A v \in versions' : There(prices', v) = RowsOf(v) \/ There(prices', v) = {}
    BY <2>1
  <2> USE DEF There
  <2> QED BY <2>2, <2>3 DEF StoresAreAtomic, RowsOf
<1>12. DoomedInv'
  <2>1. \A o \in Clients : doomed'[o] # {} => o # c /\ doomed'[o] = doomed[o]
                                             /\ stage'[o] = stage[o]
    BY <1>2 DEF StoreInv, StoreTypeOK
  <2>2. \A o \in Clients : Erased(o)' => o # c /\ Erased(o) /\ doomed'[o] = doomed[o]
    BY <1>2 DEF StoreInv, StoreTypeOK, Erased
  <2>3. DoomedInv /\ \E s : s \in Symbols
    BY DEF StoreInv, DoomedInv
  <2>4. \A o \in Clients : doomed'[o] # {} => stage'[o] \in {"erasing", "erased"}
    BY <2>1, <2>3 DEF DoomedInv
  <2>5. \A o \in Clients : \E s \in Symbols : \A p \in doomed'[o] : p.listing = HomeListing(s)
    BY <2>1, <2>3 DEF DoomedInv
  <2>6. \A o \in Clients : \A p \in doomed'[o] : \E v \in versions' : p \in RowsOf(v)
    BY <1>2, <2>1, <2>3 DEF DoomedInv
  <2>7. \A o \in Clients : \A p \in doomed'[o] : p \notin RowsOf(r)
    <3> SUFFICES ASSUME NEW o \in Clients, NEW p \in doomed'[o], p \in RowsOf(r) PROVE FALSE
      OBVIOUS
    <3>1. PICK v \in versions : p \in RowsOf(v)
      BY <2>1, <2>3 DEF DoomedInv
    <3>2. v.listing = r.listing /\ v.version = r.version
      BY <1>5, <3>1 DEF RowsOf
    <3> QED BY <1>4, <3>2
  <2>8. \A o \in Clients : \A v \in versions' : \A p, q \in RowsOf(v) :
          p \in doomed'[o] => q \in doomed'[o]
    BY <1>2, <2>1, <2>3, <2>7 DEF DoomedInv
  <2>9. \A o \in Clients : Erased(o)' => doomed'[o] \subseteq prices'
    BY <1>2, <2>2, <2>3 DEF DoomedInv
  <2>10. \A m, o \in Clients : m # o /\ Erased(m)' /\ Erased(o)' =>
           doomed'[m] \cap doomed'[o] = {}
    BY <2>2, <2>3 DEF DoomedInv
  <2> QED BY <2>4, <2>5, <2>6, <2>8, <2>9, <2>10 DEF DoomedInv, RowsOf, HomeListing, Erased
<1> QED BY <1>7, <1>8, <1>9, <1>10, <1>11, <1>12 DEF StoreInv

\* The commit of a delete() takes whole versions away, and none of the rows
\* another client holds deleted.
LEMMA DeleteKeepsInv ==
  ASSUME StoreInv, NEW c \in Clients, NEW a \in Replies, Deleted(c), Answer(c, a)
  PROVE  StoreInv'
<1> DEFINE gone == doomed[c]
<1>1. /\ prices' = prices \ gone
      /\ UNCHANGED <<symbols, versions, req>>
      /\ stage' = [stage EXCEPT ![c] = "idle"]
      /\ doomed' = [doomed EXCEPT ![c] = {}]
      /\ Erased(c)
  BY DEF Deleted, Answer
<1>2. gone \subseteq prices /\ IsFiniteSet(gone) /\ Cardinality(gone) \in Nat
  <2>1. gone \subseteq prices
    BY <1>1 DEF StoreInv, DoomedInv
  <2> QED BY <2>1, FS_Subset, FS_CardinalityType DEF StoreInv
<1>3. StoreTypeOK'
  <2>1. log' \in Seq([status : {"success", "deleted"}, count : Nat])
    <3> DEFINE entry == [status |-> "deleted", count |-> Cardinality(gone)]
               Entries == [status : {"success", "deleted"}, count : Nat]
    <3>1. entry \in Entries
      BY <1>2
    <3>2. log \in Seq(Entries) /\ log' = Append(log, entry)
      BY DEF Deleted, StoreInv, StoreTypeOK
    <3> HIDE DEF entry, Entries
    <3>3. log' \in Seq(Entries)
      BY <3>1, <3>2
    <3> QED BY <3>3 DEF Entries
  <2>2. doomed' \in [Clients -> SUBSET Row] /\ stage' \in [Clients -> Stages]
    BY <1>1 DEF StoreInv, StoreTypeOK, Stages
  <2>3. reply' \in [Clients -> Replies] /\ fresh' \subseteq Clients
    BY DEF Answer, StoreInv, StoreTypeOK
  <2> QED BY <1>1, <2>1, <2>2, <2>3 DEF StoreInv, StoreTypeOK
<1>4. IsFiniteSet(prices)'
  BY <1>1, FS_Subset DEF StoreInv
<1>5. FlushedRowsAreSafe'
  <2>1. \A o \in Clients : Flushed(o)' => Flushed(o) /\ req'[o] = req[o]
    BY <1>1 DEF Flushed, StoreInv, StoreTypeOK
  <2> QED BY <1>1, <2>1, SafeKept
<1>6. KeysAreUnique'
  BY <1>1 DEF StoreInv, KeysAreUnique
<1>7. StoresAreAtomic'
  <2> DEFINE There(P, v) == {p \in P : p.listing = v.listing /\ p.version = v.version}
  <2>1. \A v \in versions : There(prices, v) = RowsOf(v) \/ There(prices, v) = {}
    BY DEF StoreInv, StoresAreAtomic
  <2>2. ASSUME NEW v \in versions
        PROVE  There(prices', v) = RowsOf(v) \/ There(prices', v) = {}
    <3>1. There(prices', v) = There(prices, v) \ gone
      BY <1>1
    <3>2. \A p, q \in RowsOf(v) : p \in gone => q \in gone
      BY DEF StoreInv, DoomedInv
    <3> HIDE DEF There, gone
    <3> QED BY <2>1, <3>1, <3>2
  <2>3. \A v \in versions' : There(prices', v) = RowsOf(v) \/ There(prices', v) = {}
    <3> HIDE DEF There
    <3> QED BY <1>1, <2>2
  <2> QED BY <1>1, <2>3 DEF StoreInv, StoresAreAtomic, RowsOf
<1>8. DoomedInv'
  <2>1. \A o \in Clients : doomed'[o] # {} => o # c /\ doomed'[o] = doomed[o]
                                             /\ stage'[o] = stage[o]
    BY <1>1 DEF StoreInv, StoreTypeOK
  <2>2. \A o \in Clients : Erased(o)' => o # c /\ Erased(o) /\ doomed'[o] = doomed[o]
    BY <1>1 DEF StoreInv, StoreTypeOK, Erased
  <2>3. DoomedInv /\ \E s : s \in Symbols
    BY DEF StoreInv, DoomedInv
  <2>4. \A o \in Clients : doomed'[o] # {} => stage'[o] \in {"erasing", "erased"}
    BY <2>1, <2>3 DEF DoomedInv
  <2>5. \A o \in Clients : \E s \in Symbols : \A p \in doomed'[o] : p.listing = HomeListing(s)
    BY <2>1, <2>3 DEF DoomedInv
  <2>6. \A o \in Clients : \A p \in doomed'[o] : \E v \in versions' : p \in RowsOf(v)
    BY <1>1, <2>1, <2>3 DEF DoomedInv
  <2>7. \A o \in Clients : \A v \in versions' : \A p, q \in RowsOf(v) :
          p \in doomed'[o] => q \in doomed'[o]
    BY <1>1, <2>1, <2>3 DEF DoomedInv
  <2>8. \A o \in Clients : Erased(o)' => doomed'[o] \subseteq prices'
    BY <1>1, <2>2, <2>3 DEF DoomedInv
  <2>9. \A m, o \in Clients : m # o /\ Erased(m)' /\ Erased(o)' =>
          doomed'[m] \cap doomed'[o] = {}
    BY <2>2, <2>3 DEF DoomedInv
  <2> QED BY <2>4, <2>5, <2>6, <2>7, <2>8, <2>9 DEF DoomedInv, RowsOf, HomeListing, Erased
<1> QED BY <1>3, <1>4, <1>5, <1>6, <1>7, <1>8 DEF StoreInv

\* A delete() that finds the symbol takes note of every row of the listing.
LEMMA BeginDeleteKeepsInv ==
  ASSUME StoreInv, NEW c \in Clients, NEW s \in Symbols, BeginDelete(c, s)
  PROVE  StoreInv'
<1> DEFINE rows == RowsHeld(HomeListing(s))
<1>1. /\ UNCHANGED <<tables, req, fresh>> /\ stage[c] = "idle"
      /\ \/ UNCHANGED <<stage, doomed>>
         \/ /\ stage' = [stage EXCEPT ![c] = "erasing"]
            /\ doomed' = [doomed EXCEPT ![c] = rows]
  BY DEF BeginDelete
<1>2. rows \subseteq prices /\ \A p : p \in rows <=> p \in prices /\ p.listing = HomeListing(s)
  BY DEF RowsHeld
<1> HIDE DEF rows
<1>3. StoreTypeOK'
  <2>1. reply' \in [Clients -> Replies]
    BY DEF BeginDelete, StoreInv, StoreTypeOK, Replies
  <2>2. rows \subseteq Row
    BY <1>2 DEF StoreInv, StoreTypeOK
  <2>3. doomed' \in [Clients -> SUBSET Row] /\ stage' \in [Clients -> Stages]
    BY <1>1, <2>2 DEF StoreInv, StoreTypeOK, Stages
  <2> QED BY <1>1, <2>1, <2>3 DEF StoreInv, StoreTypeOK, tables
<1>4. FlushedRowsAreSafe'
  <2>1. \A o \in Clients : Flushed(o)' => Flushed(o) /\ req'[o] = req[o]
    BY <1>1 DEF Flushed, StoreInv, StoreTypeOK
  <2> QED BY <1>1, <2>1, SafeKept DEF tables
<1>5. DoomedInv'
  <2>1. CASE UNCHANGED <<stage, doomed>>
    BY <1>1, <2>1, DoomedKept DEF tables
  <2>2. CASE /\ stage' = [stage EXCEPT ![c] = "erasing"]
             /\ doomed' = [doomed EXCEPT ![c] = rows]
    <3>1. /\ doomed'[c] = rows /\ stage'[c] = "erasing"
          /\ \A o \in Clients : o # c => doomed'[o] = doomed[o] /\ stage'[o] = stage[o]
      BY <2>2 DEF StoreInv, StoreTypeOK
    <3>2. DoomedInv
      BY DEF StoreInv
    <3>3. UNCHANGED <<prices, versions>>
      BY <1>1 DEF tables
    <3>4. \A o \in Clients : doomed'[o] # {} => stage'[o] \in {"erasing", "erased"}
      BY <3>1, <3>2 DEF DoomedInv
    <3>5. \A o \in Clients : \E x \in Symbols : \A p \in doomed'[o] : p.listing = HomeListing(x)
      BY <1>2, <3>1, <3>2 DEF DoomedInv
    <3>6. \A p \in prices : \E v \in versions : p \in RowsOf(v)
      BY DEF StoreInv, StoresAreAtomic
    <3>7. \A o \in Clients : \A p \in doomed'[o] : \E v \in versions' : p \in RowsOf(v)
      BY <1>2, <3>1, <3>2, <3>3, <3>6 DEF DoomedInv
    <3>8. \A v \in versions : \A p, q \in RowsOf(v) : p \in rows => q \in rows
      <4> SUFFICES ASSUME NEW v \in versions, NEW p \in RowsOf(v), NEW q \in RowsOf(v),
                          p \in rows
                   PROVE  q \in rows
        OBVIOUS
      <4>1. \A x \in RowsOf(v) : x.listing = v.listing /\ x.version = v.version
        BY DEF RowsOf
      <4>2. q \in prices
        BY <1>2, <4>1 DEF StoreInv, StoresAreAtomic
      <4> QED BY <1>2, <4>1, <4>2
    <3>9. \A o \in Clients : \A v \in versions' : \A p, q \in RowsOf(v) :
            p \in doomed'[o] => q \in doomed'[o]
      BY <3>1, <3>2, <3>3, <3>8 DEF DoomedInv
    <3>10. \A o \in Clients : Erased(o)' => o # c /\ Erased(o)
      BY <3>1 DEF Erased
    <3>11. \A o \in Clients : Erased(o)' => doomed'[o] \subseteq prices'
      BY <3>1, <3>2, <3>3, <3>10 DEF DoomedInv
    <3>12. \A m, o \in Clients : m # o /\ Erased(m)' /\ Erased(o)' =>
             doomed'[m] \cap doomed'[o] = {}
      BY <3>1, <3>2, <3>10 DEF DoomedInv
    <3> QED BY <3>4, <3>5, <3>7, <3>9, <3>11, <3>12 DEF DoomedInv, RowsOf, HomeListing, Erased
  <2> QED BY <1>1, <2>1, <2>2
<1> QED BY <1>1, <1>3, <1>4, <1>5, TablesKept DEF StoreInv

\* The DELETE holds what is left of the rows it had found: of a version, all
\* rows are left or none.
LEMMA EraseKeepsInv ==
  ASSUME StoreInv, NEW c \in Clients, EraseRows(c)
  PROVE  StoreInv'
<1>1. /\ UNCHANGED <<tables, req, fresh, reply>>
      /\ stage' = [stage EXCEPT ![c] = "erased"]
      /\ doomed' = [doomed EXCEPT ![c] = doomed[c] \cap prices]
      /\ \A o \in Clients \ {c} : Erased(o) => doomed[o] \cap doomed[c] = {}
  BY DEF EraseRows
<1>2. StoreTypeOK'
  <2>1. doomed' \in [Clients -> SUBSET Row] /\ stage' \in [Clients -> Stages]
    BY <1>1 DEF StoreInv, StoreTypeOK, Stages
  <2> QED BY <1>1, <2>1 DEF StoreInv, StoreTypeOK, tables
<1>3. FlushedRowsAreSafe'
  <2>1. \A o \in Clients : Flushed(o)' => Flushed(o) /\ req'[o] = req[o]
    BY <1>1 DEF Flushed, StoreInv, StoreTypeOK
  <2> QED BY <1>1, <2>1, SafeKept DEF tables
<1>4. DoomedInv'
  <2>1. /\ doomed'[c] = doomed[c] \cap prices /\ stage'[c] = "erased"
        /\ \A o \in Clients : o # c => doomed'[o] = doomed[o] /\ stage'[o] = stage[o]
    BY <1>1 DEF StoreInv, StoreTypeOK
  <2>2. DoomedInv
    BY DEF StoreInv
  <2>3. UNCHANGED <<prices, versions>>
    BY <1>1 DEF tables
  <2>4. \A o \in Clients : doomed'[o] \subseteq doomed[o]
    BY <2>1
  <2>5. \A o \in Clients : doomed'[o] # {} => stage'[o] \in {"erasing", "erased"}
    BY <2>1, <2>2 DEF DoomedInv
  <2>6. \A o \in Clients : \E x \in Symbols : \A p \in doomed'[o] : p.listing = HomeListing(x)
    BY <2>2, <2>4 DEF DoomedInv
  <2>7. \A o \in Clients : \A p \in doomed'[o] : \E v \in versions' : p \in RowsOf(v)
    BY <2>2, <2>3, <2>4 DEF DoomedInv
  <2>8. \A v \in versions : \A p, q \in RowsOf(v) : p \in prices => q \in prices
    <3> SUFFICES ASSUME NEW v \in versions, NEW p \in RowsOf(v), NEW q \in RowsOf(v),
                        p \in prices
                 PROVE  q \in prices
      OBVIOUS
    <3>1. p.listing = v.listing /\ p.version = v.version
      BY DEF RowsOf
    <3> QED BY <3>1 DEF StoreInv, StoresAreAtomic
  <2>9. \A o \in Clients : \A v \in versions' : \A p, q \in RowsOf(v) :
          p \in doomed'[o] => q \in doomed'[o]
    <3>1. ASSUME NEW o \in Clients, NEW v \in versions, NEW p \in RowsOf(v), NEW q \in RowsOf(v),
                 p \in doomed'[o]
          PROVE  q \in doomed'[o]
      <4>1. q \in doomed[o]
        BY <2>2, <2>4, <3>1 DEF DoomedInv
      <4> QED BY <2>1, <2>8, <3>1, <4>1
    <3> QED BY <2>3, <3>1
  <2>10. \A o \in Clients : Erased(o)' => o = c \/ (o # c /\ Erased(o))
    BY <2>1 DEF Erased
  <2>11. \A o \in Clients : Erased(o)' => doomed'[o] \subseteq prices'
    BY <2>1, <2>2, <2>3, <2>10 DEF DoomedInv
  <2>12. \A m, o \in Clients : m # o /\ Erased(m)' /\ Erased(o)' =>
           doomed'[m] \cap doomed'[o] = {}
    <3>1. \A o \in Clients : o # c /\ Erased(o) => doomed[o] \cap doomed[c] = {}
      BY <1>1
    <3>2. \A m, o \in Clients : m # o /\ Erased(m) /\ Erased(o) => doomed[m] \cap doomed[o] = {}
      BY <2>2 DEF DoomedInv
    <3> QED BY <2>1, <2>10, <3>1, <3>2
  <2> QED BY <2>5, <2>6, <2>7, <2>9, <2>11, <2>12 DEF DoomedInv, RowsOf, HomeListing, Erased
<1> QED BY <1>1, <1>2, <1>3, <1>4, TablesKept DEF StoreInv

\* A step of store() before its commit: it flushes nothing, or only what is
\* safe beside the rows of the others.
LEMMA ProgressKeepsInv ==
  ASSUME StoreInv, NEW c \in Clients,
         \/ \E r \in Requests : BeginStore(c, r)
         \/ InsertSymbol(c)
         \/ FlushRows(c)
  PROVE  StoreInv'
<1>1. StoreTypeOK'
  <2> USE DEF StoreInv, StoreTypeOK, tables, Stages, Replies
  <2>1. ASSUME NEW r \in Requests, BeginStore(c, r) PROVE StoreTypeOK'
    BY <2>1 DEF BeginStore
  <2>2. CASE InsertSymbol(c)
    BY <2>2 DEF InsertSymbol
  <2>3. CASE FlushRows(c)
    BY <2>3 DEF FlushRows
  <2> QED BY <2>1, <2>2, <2>3
<1>2. UNCHANGED tables
  BY DEF BeginStore, InsertSymbol, FlushRows
<1>4. DoomedInv'
  <2>1. doomed' = doomed /\ \A o \in Clients : o # c => stage'[o] = stage[o]
    BY DEF BeginStore, InsertSymbol, FlushRows, StoreInv, StoreTypeOK
  <2>2. doomed[c] = {}
    <3>1. stage[c] \notin {"erasing", "erased"}
      BY DEF BeginStore, InsertSymbol, FlushRows
    <3> QED BY <3>1 DEF StoreInv, DoomedInv
  <2> QED BY <1>2, <2>1, <2>2, DoomedKept DEF tables
<1>3. FlushedRowsAreSafe'
  <2>1. CASE \/ \E r \in Requests : BeginStore(c, r)
             \/ InsertSymbol(c)
    <3>1. \A o \in Clients : Flushed(o)' => Flushed(o) /\ req'[o] = req[o]
      BY <2>1 DEF BeginStore, InsertSymbol, Flushed, StoreInv, StoreTypeOK
    <3> QED BY <1>2, <3>1, SafeKept DEF tables
  <2>2. CASE FlushRows(c)
    <3>1. UNCHANGED req /\ \A o \in Clients \ {c} : Flushed(o)' => Flushed(o)
      BY <2>2 DEF FlushRows, Flushed, StoreInv, StoreTypeOK
    <3>2. /\ ~Taken(req[c])
          /\ \A o \in Clients \ {c} : Flushed(o) => ~SameKey(req[o], req[c])
      BY <2>2 DEF FlushRows
    <3>3. \A o \in Clients : SameKey(req[o], req[c]) <=> SameKey(req[c], req[o])
      BY DEF SameKey
    <3>4. \A o \in Clients : Taken(req[o])' <=> Taken(req[o])
      BY <1>2, <3>1 DEF Taken, tables
    <3>5. \A o, n \in Clients : SameKey(req[n], req[o])' <=> SameKey(req[n], req[o])
      BY <3>1 DEF SameKey
    <3> QED BY <3>1, <3>2, <3>3, <3>4, <3>5 DEF StoreInv, FlushedRowsAreSafe
  <2> QED BY <2>1, <2>2
<1> QED BY <1>1, <1>2, <1>4, <1>3, TablesKept DEF StoreInv

\* retrieve() changes only the reply.
LEMMA RetrieveKeepsInv ==
  ASSUME StoreInv, NEW c \in Clients, NEW s \in Symbols, NEW first, NEW last,
         NEW versioned \in BOOLEAN, Retrieve(c, s, first, last, versioned)
  PROVE  StoreInv'
<1>1. UNCHANGED <<tables, stage, req, fresh, doomed>>
  BY DEF Retrieve
<1>2. reply' \in [Clients -> Replies]
  BY DEF Retrieve, StoreInv, StoreTypeOK, Replies
<1>3. StoreTypeOK'
  BY <1>1, <1>2 DEF StoreInv, StoreTypeOK, tables
<1>4. FlushedRowsAreSafe'
  BY <1>1, SafeKept DEF Flushed, tables
<1>5. DoomedInv'
  BY <1>1, DoomedKept DEF tables
<1> QED BY <1>1, <1>3, <1>4, <1>5, TablesKept DEF StoreInv

\* Every step of the store keeps the invariant.
LEMMA NextInv == StoreInv /\ [StoreNext]_storeVars => StoreInv'
<1> SUFFICES ASSUME StoreInv, [StoreNext]_storeVars PROVE StoreInv'
  OBVIOUS
<1>1. CASE UNCHANGED storeVars
  <2>1. DoomedInv'
    BY <1>1, DoomedKept DEF storeVars, client, tables
  <2> QED BY <1>1, <2>1 DEF storeVars, client, tables, StoreInv, StoreTypeOK,
             FlushedRowsAreSafe, KeysAreUnique, StoresAreAtomic, Flushed, Taken
<1>2. ASSUME NEW c \in Clients, StoreStep(c) \/ StoreFault(c)
      PROVE  StoreInv'
  <2>1. CASE InsertSymbol(c) \/ FlushRows(c)
    BY <2>1, ProgressKeepsInv
  <2>2. CASE SymbolRaceLost(c) \/ FlushDuplicate(c)
    BY <2>2, AnswerKeepsInv DEF SymbolRaceLost, FlushDuplicate, Replies
  <2>3. CASE Commit(c)
    BY <2>3, CommitKeepsInv DEF Commit, Replies
  <2>4. CASE CommitUnacknowledged(c)
    BY <2>4, CommitKeepsInv, DeleteKeepsInv DEF CommitUnacknowledged, Replies
  <2>5. CASE Abort(c)
    BY <2>5, AnswerKeepsInv DEF Abort, Replies
  <2>6. CASE EraseRows(c)
    BY <2>6, EraseKeepsInv
  <2>7. CASE CommitDelete(c)
    BY <2>7, DeleteKeepsInv DEF CommitDelete, Replies
  <2> QED BY <1>2, <2>1, <2>2, <2>3, <2>4, <2>5, <2>6, <2>7 DEF StoreStep, StoreFault
<1>3. ASSUME NEW c \in Clients, NEW r \in Requests, BeginStore(c, r)
      PROVE  StoreInv'
  BY <1>3, ProgressKeepsInv
<1>4. ASSUME NEW c \in Clients, NEW s \in Symbols, BeginDelete(c, s)
      PROVE  StoreInv'
  BY <1>4, BeginDeleteKeepsInv
<1>5. ASSUME NEW c \in Clients, NEW s \in Symbols, NEW first \in Days, NEW last \in Days,
             NEW versioned \in BOOLEAN, Retrieve(c, s, first, last, versioned)
      PROVE  StoreInv'
  BY <1>5, RetrieveKeepsInv
<1> QED BY <1>1, <1>2, <1>3, <1>4, <1>5 DEF StoreNext

\* The strengthened invariant holds in every reachable state.
THEOREM StoreInvariant == StoreSpec => []StoreInv
BY InitInv, NextInv, PTL DEF StoreSpec

\* Every reachable state is well typed (PostgreSQLRepository's tables and
\* the state of each client's store()).
THEOREM StoreTypeCorrect == StoreSpec => []StoreTypeOK
<1>1. StoreInv => StoreTypeOK
  BY DEF StoreInv
<1> QED BY <1>1, StoreInvariant, PTL

\* store() is all or nothing: no reader ever sees a part of a version, or a
\* price row without its version and its symbol.
THEOREM StoreAtomic == StoreSpec => []StoresAreAtomic
<1>1. StoreInv => StoresAreAtomic
  BY DEF StoreInv
<1> QED BY <1>1, StoreInvariant, PTL

\* uq_price_symbol_date_provider and uq_version_symbol_type hold of the
\* committed rows, however many clients store at the same time.
THEOREM StoreKeysUnique == StoreSpec => []KeysAreUnique
<1>1. StoreInv => KeysAreUnique
  BY DEF StoreInv
<1> QED BY <1>1, StoreInvariant, PTL

\* Once its rows are flushed, a store() cannot fail on a unique constraint.
THEOREM StoreFlushedSafe == StoreSpec => []FlushedRowsAreSafe
<1>1. StoreInv => FlushedRowsAreSafe
  BY DEF StoreInv
<1> QED BY <1>1, StoreInvariant, PTL

\* Price rows disappear only when a delete() ends, only on the exchange it is
\* bound to, and are those its DELETE holds; the log counts them.
THEOREM StoreRowsSurvive == StoreSpec => RowsSurvive
<1>1. StoreInv /\ [StoreNext]_storeVars =>
        [LET gone == prices \ prices'
         IN  gone # {} =>
               /\ log' = Append(log, [status |-> "deleted", count |-> Cardinality(gone)])
               /\ \E c \in Clients : Erased(c) /\ gone = doomed[c]
               /\ \E s \in Symbols : \A p \in gone : p.listing = HomeListing(s)]_storeVars
  <2> DEFINE gone == prices \ prices'
  <2> SUFFICES ASSUME StoreInv, [StoreNext]_storeVars, gone # {}
               PROVE  /\ log' = Append(log, [status |-> "deleted", count |-> Cardinality(gone)])
                      /\ \E c \in Clients : Erased(c) /\ gone = doomed[c]
                      /\ \E s \in Symbols : \A p \in gone : p.listing = HomeListing(s)
    OBVIOUS
  <2>1. PICK c \in Clients : Deleted(c)
    BY DEF StoreNext, StoreStep, StoreFault, storeVars, tables, InsertSymbol, SymbolRaceLost,
       FlushRows, FlushDuplicate, Commit, CommitUnacknowledged, Committed, Abort,
       BeginStore, Retrieve, BeginDelete, EraseRows, CommitDelete
  <2>2. doomed[c] \subseteq prices /\ \E s \in Symbols : \A p \in doomed[c] : p.listing = HomeListing(s)
    BY <2>1 DEF Deleted, StoreInv, DoomedInv
  <2>3. gone = doomed[c] /\ Erased(c)
    BY <2>1, <2>2 DEF Deleted
  <2>4. log' = Append(log, [status |-> "deleted", count |-> Cardinality(gone)])
    BY <2>1, <2>3 DEF Deleted
  <2> HIDE DEF gone
  <2> QED BY <2>2, <2>3, <2>4
<1> QED BY <1>1, StoreInvariant, PTL DEF StoreSpec, RowsSurvive

------------------------------------------------------------------------------
(* The replies.                                                            *)

\* A client told "stored" finds its version on record.
StoredOnRecord == \A c \in Clients : reply[c] = "stored" => req[c] \in versions

\* Every step of the store keeps that true.
LEMMA NextReplies == StoreInv /\ StoredOnRecord /\ [StoreNext]_storeVars => StoredOnRecord'
<1> SUFFICES ASSUME StoreInv, StoredOnRecord, [StoreNext]_storeVars,
                    NEW o \in Clients, reply'[o] = "stored"
             PROVE  req'[o] \in versions'
  BY DEF StoredOnRecord
<1> USE DEF StoreInv, StoreTypeOK
<1>1. CASE UNCHANGED <<reply, req, versions>>
  BY <1>1 DEF StoredOnRecord
<1>2. ASSUME NEW c \in Clients, NEW a \in Replies, a # "stored", UNCHANGED versions,
             reply' = [reply EXCEPT ![c] = a], \A x \in Clients : x # c => req'[x] = req[x]
      PROVE  req'[o] \in versions'
  BY <1>2 DEF StoredOnRecord
<1>3. ASSUME NEW c \in Clients, NEW a \in Replies, Committed(c),
             reply' = [reply EXCEPT ![c] = a]
      PROVE  req'[o] \in versions'
  BY <1>3 DEF StoredOnRecord, Committed
<1> HIDE DEF StoreInv, StoreTypeOK
<1>4. CASE UNCHANGED storeVars
  BY <1>1, <1>4 DEF storeVars, client, tables
<1>5. ASSUME NEW c \in Clients, StoreStep(c) \/ StoreFault(c)
      PROVE  req'[o] \in versions'
  <2>1. CASE InsertSymbol(c) \/ FlushRows(c) \/ EraseRows(c)
    BY <1>1, <2>1 DEF InsertSymbol, FlushRows, EraseRows, tables
  <2>2. CASE SymbolRaceLost(c) \/ FlushDuplicate(c)
    BY <1>2, <2>2 DEF SymbolRaceLost, FlushDuplicate, Answer, Replies, tables
  <2>3. CASE Abort(c)
    BY <1>2, <2>3 DEF Abort, Answer, Replies, tables
  <2>4. CASE Commit(c)
    BY <1>3, <2>4 DEF Commit, Answer, Replies
  <2>5. ASSUME Deleted(c), NEW a \in {"deleted", "nothing", "error"}, Answer(c, a)
        PROVE  req'[o] \in versions'
    BY <1>2, <2>5 DEF Deleted, Answer, Replies
  <2>6. CASE CommitUnacknowledged(c)
    BY <1>3, <2>5, <2>6 DEF CommitUnacknowledged, Answer, Replies
  <2>7. CASE CommitDelete(c)
    BY <2>5, <2>7 DEF CommitDelete
  <2> QED BY <1>5, <2>1, <2>2, <2>3, <2>4, <2>6, <2>7 DEF StoreStep, StoreFault
<1>6. ASSUME NEW c \in Clients, NEW r \in Requests, BeginStore(c, r)
      PROVE  req'[o] \in versions'
  <2>1. /\ "none" \in Replies /\ UNCHANGED versions /\ reply' = [reply EXCEPT ![c] = "none"]
        /\ \A x \in Clients : x # c => req'[x] = req[x]
    BY <1>6 DEF BeginStore, Replies, tables, StoreInv, StoreTypeOK
  <2> QED BY <1>2, <2>1
<1>7. ASSUME NEW c \in Clients, NEW s \in Symbols, BeginDelete(c, s)
      PROVE  req'[o] \in versions'
  <2>1. PICK a \in {"none", "nothing"} : reply' = [reply EXCEPT ![c] = a]
    BY <1>7 DEF BeginDelete
  <2> QED BY <1>2, <1>7, <2>1 DEF BeginDelete, Replies, tables
<1>8. ASSUME NEW c \in Clients, NEW s \in Symbols, NEW first \in Days, NEW last \in Days,
             NEW versioned \in BOOLEAN, Retrieve(c, s, first, last, versioned)
      PROVE  req'[o] \in versions'
  <2>1. PICK a \in {"attribute_error", "data", "not_found"} : reply' = [reply EXCEPT ![c] = a]
    BY <1>8 DEF Retrieve
  <2> QED BY <1>2, <1>8, <2>1 DEF Retrieve, Replies, tables
<1> QED BY <1>4, <1>5, <1>6, <1>7, <1>8 DEF StoreNext

------------------------------------------------------------------------------
(* The update log.                                                         *)

Entry == [status : {"success", "deleted"}, count : Nat]

\* f counts the rows of the first N entries of L with status st, as the
\* recursive function in Logged does.
Counting(f, L, st, N) ==
  f = [n \in 0 .. N |->
         IF n = 0 THEN 0
         ELSE f[n - 1] + IF L[n].status = st THEN L[n].count ELSE 0]

\* A longer count agrees with a shorter one: the recursive definition defines
\* one function, and appending to the log does not change it.
LEMMA CountingIsUnique ==
  ASSUME NEW f, NEW g, NEW L, NEW M, NEW st, NEW N \in Nat, NEW K \in Nat, N <= K,
         Counting(f, L, st, N), Counting(g, M, st, K),
         \A n \in 1 .. N : L[n] = M[n]
  PROVE  \A n \in 0 .. N : f[n] = g[n]
<1> DEFINE T == {n \in 0 .. N : f[n] # g[n]}
<1> SUFFICES ASSUME T # {} PROVE FALSE
  OBVIOUS
<1>1. T \in SUBSET Nat
  OBVIOUS
<1>2. PICK n \in T : \A m \in T : n <= m
  BY <1>1, LeastElement
<1>3. n \in 0 .. N /\ n \in 0 .. K /\ f[n] # g[n]
  BY <1>2
<1>4. n # 0
  BY <1>3 DEF Counting
<1>5. n - 1 \in 0 .. N /\ n \in 1 .. N /\ ~(n <= n - 1)
  BY <1>3, <1>4
<1>6. f[n - 1] = g[n - 1]
  BY <1>2, <1>5
<1> QED BY <1>3, <1>4, <1>5, <1>6 DEF Counting

\* There is such a function, with natural values.
LEMMA CountingExists ==
  ASSUME NEW L \in Seq(Entry), NEW st
  PROVE  \A N \in 0 .. Len(L) : \E f : Counting(f, L, st, N) /\ f \in [0 .. N -> Nat]
<1> DEFINE Good(N) == \E f : Counting(f, L, st, N) /\ f \in [0 .. N -> Nat]
           T == {N \in 0 .. Len(L) : ~Good(N)}
<1> SUFFICES ASSUME T # {} PROVE FALSE
  OBVIOUS
<1>1. T \in SUBSET Nat /\ Len(L) \in Nat
  OBVIOUS
<1>2. PICK N \in T : \A m \in T : N <= m
  BY <1>1, LeastElement
<1>3. N \in 0 .. Len(L) /\ ~Good(N)
  BY <1>2
<1>4. CASE N = 0
  <2> DEFINE f == [n \in 0 .. 0 |-> 0]
  <2>1. Counting(f, L, st, 0) /\ f \in [0 .. 0 -> Nat]
    BY DEF Counting
  <2> QED BY <1>3, <1>4, <2>1
<1>5. CASE N # 0
  <2>1. N - 1 \in 0 .. Len(L) /\ ~(N <= N - 1) /\ N \in 1 .. Len(L)
    BY <1>1, <1>3, <1>5
  <2>2. Good(N - 1)
    BY <1>2, <2>1
  <2>3. PICK f : Counting(f, L, st, N - 1) /\ f \in [0 .. N - 1 -> Nat]
    BY <2>2
  <2>4. L[N] \in Entry
    BY <2>1
  <2> DEFINE amount == IF L[N].status = st THEN L[N].count ELSE 0
             g == [n \in 0 .. N |-> IF n = N THEN f[N - 1] + amount ELSE f[n]]
  <2>5. amount \in Nat
    BY <2>4 DEF Entry
  <2>6. g \in [0 .. N -> Nat]
    BY <2>1, <2>3, <2>5
  <2>7. g[0] = 0 /\ \A n \in 1 .. N : n - 1 \in 0 .. N - 1 /\ g[n - 1] = f[n - 1]
    BY <2>1, <2>3 DEF Counting
  <2>8. \A n \in 0 .. N :
          g[n] = IF n = 0 THEN 0
                 ELSE g[n - 1] + IF L[n].status = st THEN L[n].count ELSE 0
    <3> TAKE n \in 0 .. N
    <3>1. CASE n = 0
      BY <2>7, <3>1
    <3>2. CASE n = N
      <4>1. n # 0 /\ n \in 1 .. N /\ g[n] = f[N - 1] + amount
        BY <1>5, <2>1, <3>2
      <4> QED BY <2>7, <3>2, <4>1
    <3>3. CASE n # 0 /\ n # N
      <4>1. n \in 1 .. N /\ n \in 0 .. N - 1 /\ g[n] = f[n]
        BY <2>1, <3>3
      <4> QED BY <2>3, <2>7, <3>3, <4>1 DEF Counting
    <3> QED BY <3>1, <3>2, <3>3
  <2>9. Counting(g, L, st, N)
    <3>1. g = [n \in 0 .. N |-> g[n]]
      BY <2>6
    <3> HIDE DEF g
    <3> QED BY <2>8, <3>1 DEF Counting
  <2> HIDE DEF g
  <2> QED BY <1>3, <2>6, <2>9
<1> QED BY <1>4, <1>5

\* What Logged computes, for a log L.
LoggedIn(L, st) == (CHOOSE f : Counting(f, L, st, Len(L)))[Len(L)]

\* ... is what it computes for the log, now and
LEMMA LoggedIsCount == \A st : Logged(st) = LoggedIn(log, st)
BY DEF Logged, LoggedIn, Counting

\* ... in the next state.
LEMMA NextLoggedIsCount == \A st : Logged(st)' = LoggedIn(log', st)
BY DEF Logged, LoggedIn, Counting

\* Nothing is counted in an empty log.
LEMMA LoggedOfEmpty == \A st : LoggedIn(<<>>, st) = 0
<1> SUFFICES ASSUME NEW st PROVE LoggedIn(<<>>, st) = 0
  OBVIOUS
<1>1. <<>> \in Seq(Entry) /\ Len(<<>>) = 0 /\ 0 \in 0 .. Len(<<>>)
  OBVIOUS
<1>2. \E f : Counting(f, <<>>, st, 0)
  BY <1>1, CountingExists
<1> DEFINE c == CHOOSE f : Counting(f, <<>>, st, 0)
<1>3. Counting(c, <<>>, st, 0)
  BY <1>2
<1>4. LoggedIn(<<>>, st) = c[0]
  BY <1>1 DEF LoggedIn
<1> HIDE DEF c
<1>5. c[0] = 0
  BY <1>3 DEF Counting
<1> QED BY <1>4, <1>5

\* An appended entry adds its count to the sum of its status.
LEMMA LoggedOfAppend ==
  ASSUME NEW L \in Seq(Entry), NEW e \in Entry, NEW st
  PROVE  /\ LoggedIn(L, st) \in Nat
         /\ LoggedIn(Append(L, e), st)
              = LoggedIn(L, st) + IF e.status = st THEN e.count ELSE 0
<1> DEFINE M == Append(L, e)
           N == Len(L)
<1>1. /\ M \in Seq(Entry) /\ N \in Nat /\ Len(M) = N + 1
      /\ \A n \in 1 .. N : L[n] = M[n]
      /\ M[N + 1] = e
      /\ N \in 0 .. N /\ N + 1 \in 0 .. Len(M)
  OBVIOUS
<1> DEFINE f == CHOOSE x : Counting(x, L, st, N)
           g == CHOOSE x : Counting(x, M, st, N + 1)
<1>2. Counting(f, L, st, N)
  BY <1>1, CountingExists
<1>3. Counting(g, M, st, N + 1)
  <2> HIDE DEF M
  <2> QED BY <1>1, CountingExists
<1>4. LoggedIn(L, st) = f[N] /\ LoggedIn(M, st) = g[N + 1]
  BY <1>1 DEF LoggedIn
<1>5. PICK h \in [0 .. N -> Nat] : Counting(h, L, st, N)
  BY <1>1, CountingExists
<1> HIDE DEF M, f, g
<1>6. f[N] = h[N]
  BY <1>1, <1>2, <1>5, CountingIsUnique
<1>7. h[N] = g[N]
  <2>1. N \in 0 .. N /\ N + 1 \in Nat /\ N <= N + 1
    BY <1>1
  <2>2. \A n \in 0 .. N : h[n] = g[n]
    <3>1. N \in Nat /\ \A n \in 1 .. N : L[n] = M[n]
      BY <1>1
    <3> DEFINE K == N + 1
    <3>2. Counting(g, M, st, K) /\ K \in Nat /\ N <= K
      BY <1>3, <2>1
    <3> HIDE DEF N, K
    <3> QED BY <1>5, <3>1, <3>2, CountingIsUnique
  <2> QED BY <2>1, <2>2
<1>8. g[N + 1] = g[N] + IF e.status = st THEN e.count ELSE 0
  <2>1. N + 1 \in 0 .. N + 1 /\ N + 1 # 0 /\ (N + 1) - 1 = N
    BY <1>1
  <2> QED BY <1>1, <1>3, <2>1 DEF Counting
<1> QED BY <1>1, <1>4, <1>5, <1>6, <1>7, <1>8 DEF M

\* A request has as many rows as dates.
LEMMA RowsOfCount ==
  ASSUME NEW r \in Requests
  PROVE  Cardinality(RowsOf(r)) = Cardinality(r.dates)
<1> DEFINE row == [d \in r.dates |->
                     [listing |-> r.listing, date |-> d, version |-> r.version]]
<1>1. IsFiniteSet(r.dates)
  BY StoreAssumption
<1>2. row \in Bijection(r.dates, RowsOf(r))
  <2>1. row \in Surjection(r.dates, RowsOf(r))
    BY DEF Surjection, RowsOf
  <2>2. \A d, e \in r.dates : row[d] = row[e] => d = e
    OBVIOUS
  <2> HIDE DEF row
  <2> QED BY <2>1, <2>2 DEF Bijection, Injection, Surjection, IsInjective
<1> QED BY <1>1, <1>2, FS_Bijection DEF ExistsBijection

\* The log L accounts for the price rows P.
Balanced(L, P) == LoggedIn(L, "success") - LoggedIn(L, "deleted") = Cardinality(P)

\* LogBalances restated over LoggedIn.
LEMMA BalanceIsLogged ==
  /\ LogBalances <=> Balanced(log, prices)
  /\ LogBalances' <=> Balanced(log', prices')
<1>1. LogBalances <=> Balanced(log, prices)
  BY LoggedIsCount DEF LogBalances, Balanced
<1>2. LogBalances' <=> Balanced(log', prices')
  BY NextLoggedIsCount DEF LogBalances, Balanced
<1> QED BY <1>1, <1>2

\* A commit logs the rows it adds.
LEMMA CommitBalances ==
  ASSUME StoreInv, Balanced(log, prices), NEW c \in Clients, Committed(c)
  PROVE  Balanced(log', prices')
<1> DEFINE r == req[c]
           k == Cardinality(r.dates)
           e == [status |-> "success", count |-> k]
<1>1. log \in Seq(Entry) /\ IsFiniteSet(prices) /\ Cardinality(prices) \in Nat
  BY FS_CardinalityType DEF StoreInv, StoreTypeOK, Entry
<1>2. r \in Requests /\ IsFiniteSet(r.dates) /\ k \in Nat
  BY StoreAssumption, FS_CardinalityType DEF StoreInv, StoreTypeOK
<1>3. prices \cap RowsOf(r) = {}
  BY DEF Committed, StoreInv, FlushedRowsAreSafe, Taken, RowsOf
<1>4. IsFiniteSet(RowsOf(r)) /\ Cardinality(RowsOf(r)) = k
  BY <1>2, RowsOfType, RowsOfCount
<1>5. Cardinality(prices \cup RowsOf(r)) = Cardinality(prices) + k
  <2> DEFINE both == prices \cap RowsOf(r)
  <2>1. IsFiniteSet(both) /\ both = {}
    BY <1>3, FS_EmptySet
  <2>2. Cardinality(prices \cup RowsOf(r))
          = Cardinality(prices) + Cardinality(RowsOf(r)) - Cardinality(prices \cap RowsOf(r))
    BY <1>1, <1>4, FS_Union
  <2> HIDE DEF r, k, both
  <2>3. Cardinality(both) = 0
    BY <2>1, FS_EmptySet
  <2> QED BY <1>1, <1>2, <1>4, <2>2, <2>3 DEF both
<1>6. prices' = prices \cup RowsOf(r) /\ log' = Append(log, e)
  BY DEF Committed
<1>7. e \in Entry /\ e.status = "success" /\ e.count = k
  BY <1>2 DEF Entry
<1> HIDE DEF e, r, k
<1>8. /\ LoggedIn(log', "success") = LoggedIn(log, "success") + k
      /\ LoggedIn(log', "deleted") = LoggedIn(log, "deleted") + 0
      /\ LoggedIn(log, "success") \in Nat /\ LoggedIn(log, "deleted") \in Nat
  BY <1>1, <1>6, <1>7, LoggedOfAppend
<1> QED BY <1>1, <1>2, <1>5, <1>6, <1>8 DEF Balanced

\* A delete logs the rows it takes away: those it holds are all there.
LEMMA DeleteBalances ==
  ASSUME StoreInv, Balanced(log, prices), NEW c \in Clients, Deleted(c)
  PROVE  Balanced(log', prices')
<1> DEFINE gone == doomed[c]
           k == Cardinality(gone)
           e == [status |-> "deleted", count |-> k]
<1>1. log \in Seq(Entry) /\ IsFiniteSet(prices) /\ Cardinality(prices) \in Nat
  BY FS_CardinalityType DEF StoreInv, StoreTypeOK, Entry
<1>2. prices' = prices \ gone /\ log' = Append(log, e)
  BY DEF Deleted
<1>3. gone \subseteq prices
  BY DEF Deleted, StoreInv, DoomedInv
<1>4. IsFiniteSet(gone) /\ k \in Nat /\ prices \cap gone = gone
  BY <1>1, <1>3, FS_Subset, FS_CardinalityType
<1>5. Cardinality(prices \ gone) = Cardinality(prices) - Cardinality(prices \cap gone)
  BY <1>1, FS_Difference
<1>6. e \in Entry /\ e.status = "deleted" /\ e.count = k
  BY <1>4 DEF Entry
<1>7. Cardinality(prices \ gone) = Cardinality(prices) - k
  BY <1>4, <1>5
<1> HIDE DEF e, gone, k
<1>8. /\ LoggedIn(log', "success") = LoggedIn(log, "success") + 0
      /\ LoggedIn(log', "deleted") = LoggedIn(log, "deleted") + k
      /\ LoggedIn(log, "success") \in Nat /\ LoggedIn(log, "deleted") \in Nat
  BY <1>1, <1>2, <1>6, LoggedOfAppend
<1> QED BY <1>1, <1>2, <1>4, <1>7, <1>8 DEF Balanced

\* Every step of the store keeps the balance.
LEMMA NextBalances == StoreInv /\ LogBalances /\ [StoreNext]_storeVars => LogBalances'
<1> SUFFICES ASSUME StoreInv, Balanced(log, prices), [StoreNext]_storeVars
             PROVE  Balanced(log', prices')
  BY BalanceIsLogged
<1>1. CASE UNCHANGED <<prices, log>>
  BY <1>1
<1>2. CASE \E c \in Clients : Committed(c)
  BY <1>2, CommitBalances
<1>3. CASE \E c \in Clients : Deleted(c)
  BY <1>3, DeleteBalances
<1>4. CASE UNCHANGED storeVars
  BY <1>1, <1>4 DEF storeVars, tables
<1>5. ASSUME NEW c \in Clients, StoreStep(c) \/ StoreFault(c)
      PROVE  Balanced(log', prices')
  BY <1>1, <1>2, <1>3, <1>5 DEF StoreStep, StoreFault, tables, InsertSymbol, SymbolRaceLost,
     FlushRows, FlushDuplicate, Commit, CommitUnacknowledged, Abort, EraseRows, CommitDelete
<1>6. ASSUME NEW c, NEW r, BeginStore(c, r)
      PROVE  Balanced(log', prices')
  BY <1>1, <1>6 DEF BeginStore, tables
<1>7. ASSUME NEW c, NEW s, NEW first, NEW last, NEW versioned, Retrieve(c, s, first, last, versioned)
      PROVE  Balanced(log', prices')
  BY <1>1, <1>7 DEF Retrieve, tables
<1>8. ASSUME NEW c, NEW s, BeginDelete(c, s)
      PROVE  Balanced(log', prices')
  BY <1>1, <1>8 DEF BeginDelete, tables
<1> QED BY <1>4, <1>5, <1>6, <1>7, <1>8 DEF StoreNext

\* Whatever is stored and deleted concurrently, the rows the log says were
\* inserted, less those it says were deleted, are the rows that are there.
THEOREM StoreLogBalances == StoreSpec => []LogBalances
<1>1. StoreInit => LogBalances
  <2>1. StoreInit => Balanced(log, prices)
    BY LoggedOfEmpty, FS_EmptySet DEF StoreInit, Balanced
  <2> QED BY <2>1, BalanceIsLogged
<1> QED BY <1>1, NextBalances, StoreInvariant, PTL DEF StoreSpec

------------------------------------------------------------------------------
(* The pipeline.                                                           *)

Listed(s) == [symbol |-> s, exchange |-> Exchange]

ReportOf == [symbol : Symbols, ok : BOOLEAN, fetched : Nat, inserted : Nat]

RunStates == {"idle", "symbol", "persist", "success", "partial", "failed"}

PipelineTypeOK ==
  /\ today \in Days
  /\ run \in [Clients -> RunStates]
  /\ todo \in [Clients -> Seq(Symbols)]
  /\ from \in [Clients -> Int]
  /\ to \in [Clients -> Days]
  /\ fetched \in [Clients -> Nat]
  /\ reports \in [Clients -> Seq(ReportOf)]
  /\ covered \subseteq Symbols

\* A client is in the middle of store() only while it persists, and then with
\* records of the symbol at hand, none of them after the day of the version
\* and no more than were fetched; it is in delete() only between two runs.
Handed(c) ==
  /\ run[c] = "symbol" => stage[c] = "idle"
  /\ ~Running(c) => stage[c] \in {"idle", "erasing", "erased"}
  /\ run[c] = "persist" =>
       /\ stage[c] \notin {"erasing", "erased"}
       /\ todo[c] # <<>>
       /\ req[c].listing = Listed(Head(todo[c]))
       /\ req[c].version <= today
       /\ req[c].dates \subseteq TradingDays
       /\ \A d \in req[c].dates : d <= req[c].version
       /\ Cardinality(req[c].dates) <= fetched[c]

HandedInv ==
  /\ StoreInv
  /\ StoredOnRecord
  /\ PipelineTypeOK
  /\ \A c \in Clients : to[c] <= today /\ Handed(c)
  /\ VersionsFollowBars
  /\ \A v \in versions : v.dates \subseteq TradingDays
  /\ InsertedRowsAreCommitted

------------------------------------------------------------------------------
(* The days.                                                               *)

\* The calendar is finite and has no holes.
LEMMA DaysFacts ==
  /\ IsFiniteSet(Days)
  /\ Days \subseteq Nat
  /\ LastDay \in Days /\ \A d \in Days : d <= LastDay
  /\ \A d \in Days : d < LastDay => d + 1 \in Days
<1>1. PICK first \in Days, last \in Days : Days = first .. last
  BY PipelineAssumption
<1>2. first \in Int /\ last \in Int /\ Days \subseteq Nat
  BY StoreAssumption
<1>3. IsFiniteSet(Days)
  BY <1>1, <1>2, FS_Interval
<1>4. last \in Days /\ \A e \in Days : e <= last
  BY <1>1, <1>2
<1>5. LastDay \in Days /\ \A d \in Days : d <= LastDay
  BY <1>4 DEF LastDay
<1>6. \A d \in Days : d < LastDay => d + 1 \in Days
  BY <1>1, <1>2, <1>5
<1> QED BY <1>2, <1>3, <1>5, <1>6

\* What the provider may answer with lies in the window of the run.
LEMMA PayloadFacts ==
  ASSUME NEW c, NEW payload \in Payloads(c)
  PROVE  /\ payload \subseteq TradingDays /\ IsFiniteSet(payload)
         /\ Cardinality(payload) \in Nat
         /\ \A d \in payload : from[c] <= d /\ d <= to[c]
<1>1. /\ payload \subseteq TradingDays /\ payload \subseteq Days
      /\ \A d \in payload : from[c] <= d /\ d <= to[c]
  BY DEF Payloads, Window, TradingDays
<1>2. IsFiniteSet(payload)
  BY <1>1, DaysFacts, FS_Subset
<1> QED BY <1>1, <1>2, FS_CardinalityType

\* The bars that are made of it are bars of the window too, and all of them
\* but the malformed ones.
LEMMA ConvertedFacts ==
  ASSUME NEW c, NEW payload \in Payloads(c), NEW bars \in Converted(c, payload)
  PROVE  /\ bars \subseteq TradingDays /\ bars \subseteq Days
         /\ Cardinality(payload) \in Nat /\ Cardinality(bars) <= Cardinality(payload)
         /\ \A d \in bars : from[c] <= d /\ d <= to[c]
         /\ \A d \in payload :
              d \in bars \/ [symbol |-> Head(todo[c]), day |-> d] \in Malformed
<1>1. /\ bars \subseteq payload
      /\ \A d \in payload :
           d \in bars \/ [symbol |-> Head(todo[c]), day |-> d] \in Malformed
  BY DEF Converted
<1>2. bars \subseteq Days
  BY <1>1, PayloadFacts DEF TradingDays
<1>3. Cardinality(bars) <= Cardinality(payload)
  BY <1>1, PayloadFacts, FS_Subset
<1> QED BY <1>1, <1>2, <1>3, PayloadFacts

------------------------------------------------------------------------------
(* The steps of the pipeline as steps of the store.                        *)

\* The reports made before store() is called.
Early(c) ==
  \/ FetchFails(c)
  \/ /\ InSymbol(c)
     /\ \E payload \in Payloads(c) :
          ValidationFails(c, payload) \/ NothingToPersist(c, payload)

\* The call of store().
Handing(c, payload, bars) ==
  /\ InSymbol(c)
  /\ payload \in Payloads(c) /\ bars \in Converted(c, payload)
  /\ Persist(c, payload, bars)

\* Every step of the pipeline, with ProcessSymbol taken apart.
LEMMA PipelineSteps ==
  ASSUME [PipelineNext]_pipelineVars
  PROVE  \/ UNCHANGED pipelineVars \/ Tick
         \/ \E c \in Clients :
              \/ \E o \in Orders, n \in Spans : RunMany(c, o, n)
              \/ Early(c) \/ \E payload, bars : Handing(c, payload, bars)
              \/ Persisted(c) \/ RunReported(c)
              \/ DatabaseStep(c) \/ Crash(c) \/ Administer(c)
<1>1. ASSUME NEW c \in Clients, ProcessSymbol(c)
      PROVE  Early(c) \/ \E payload, bars : Handing(c, payload, bars)
  BY <1>1 DEF ProcessSymbol, Early, Handing
<1> QED BY <1>1 DEF PipelineNext, Early

\* What Persist hands to store() is a request.
LEMMA PersistIsRequest ==
  ASSUME HandedInv, NEW c \in Clients, NEW payload, NEW bars, Handing(c, payload, bars)
  PROVE  \E r \in Requests :
           /\ BeginStore(c, r)
           /\ r.listing = Listed(Head(todo[c])) /\ r.dates = bars /\ r.version = today
<1>1. Head(todo[c]) \in Symbols
  BY DEF Handing, InSymbol, HandedInv, PipelineTypeOK
<1>2. bars \in SUBSET TradingDays /\ today \in Days
  BY ConvertedFacts DEF Handing, HandedInv, PipelineTypeOK
<1> DEFINE r == Asked(c, bars, today)
<1>3. r \in Requests
  <2>1. r \in [listing : [symbol : Symbols, exchange : {Exchange}],
               dates : SUBSET TradingDays, version : Days]
    BY <1>1, <1>2 DEF Asked
  <2> HIDE DEF r
  <2> QED BY <2>1, PipelineAssumption
<1>4. BeginStore(c, r)
  BY DEF Handing, Persist, HandOver
<1>5. r.listing = Listed(Head(todo[c])) /\ r.dates = bars /\ r.version = today
  BY DEF Listed, Asked
<1> HIDE DEF r
<1> QED BY <1>3, <1>4, <1>5

\* ... and the rest of the step.
LEMMA HandingEffect ==
  ASSUME PipelineTypeOK, NEW c \in Clients, NEW payload, NEW bars, Handing(c, payload, bars)
  PROVE  /\ payload \in Payloads(c) /\ bars \in Converted(c, payload) \ {{}}
         /\ run[c] = "symbol" /\ todo[c] # <<>> /\ run'[c] = "persist"
         /\ fetched'[c] = Cardinality(payload)
         /\ run' \in [Clients -> RunStates] /\ fetched' \in [Clients -> Nat]
         /\ \A o \in Clients \ {c} : run'[o] = run[o] /\ fetched'[o] = fetched[o]
         /\ UNCHANGED <<tables, fresh, today, todo, from, to, reports, covered>>
<1>1. payload \in Payloads(c) /\ bars \in Converted(c, payload) \ {{}}
  BY DEF Handing, Persist, HandOver
<1>2. Cardinality(payload) \in Nat
  BY <1>1, PayloadFacts
<1>3. /\ run' = [run EXCEPT ![c] = "persist"]
      /\ fetched' = [fetched EXCEPT ![c] = Cardinality(payload)]
      /\ run[c] = "symbol" /\ todo[c] # <<>>
  BY DEF Handing, Persist, HandOver, InSymbol
<1>4. UNCHANGED <<tables, fresh, today, todo, from, to, reports, covered>>
  BY DEF Handing, Persist, HandOver, BeginStore
<1> QED BY <1>1, <1>2, <1>3, <1>4 DEF PipelineTypeOK, RunStates

\* Every step but a crash is a step of the store, or none.
LEMMA StepsOfStore ==
  ASSUME HandedInv, [PipelineNext]_pipelineVars
  PROVE  [StoreNext]_storeVars \/ \E c \in Clients : Crash(c)
<1>1. CASE UNCHANGED storeVars
  BY <1>1
<1>2. CASE Tick \/ UNCHANGED pipelineVars
  BY <1>1, <1>2 DEF Tick, pipelineVars
<1>3. ASSUME NEW c \in Clients, NEW o, NEW n, RunMany(c, o, n)
      PROVE  UNCHANGED storeVars
  BY <1>3 DEF RunMany
<1>4. ASSUME NEW c \in Clients, Early(c) \/ Persisted(c) \/ RunReported(c)
      PROVE  UNCHANGED storeVars
  BY <1>4 DEF Early, FetchFails, ValidationFails, NothingToPersist, Persisted, RunReported
<1>5. ASSUME NEW c \in Clients, NEW payload, NEW bars, Handing(c, payload, bars)
      PROVE  StoreNext
  BY <1>5, PersistIsRequest DEF StoreNext
<1>6. ASSUME NEW c \in Clients, DatabaseStep(c) \/ Administer(c)
      PROVE  StoreNext
  BY <1>6 DEF DatabaseStep, Administer, StoreNext
<1> QED BY <1>1, <1>2, <1>3, <1>4, <1>5, <1>6, PipelineSteps

\* So what holds of the store alone holds under the pipeline, crashes included.
LEMMA StoreUnderPipeline ==
  ASSUME HandedInv, [PipelineNext]_pipelineVars
  PROVE  StoreInv' /\ StoredOnRecord'
<1>1. CASE [StoreNext]_storeVars
  BY <1>1, NextInv, NextReplies DEF HandedInv
<1>2. ASSUME NEW c \in Clients, Crash(c)
      PROVE  StoreInv' /\ StoredOnRecord'
  <2>1. Answer(c, "none") /\ UNCHANGED <<tables, req>> /\ "none" \in Replies
    BY <1>2 DEF Crash, Replies
  <2>2. StoreInv'
    BY <2>1, AnswerKeepsInv DEF HandedInv
  <2>3. /\ reply'[c] = "none"
        /\ \A o \in Clients : o # c => reply'[o] = reply[o]
    BY <2>1 DEF Answer, HandedInv, StoreInv, StoreTypeOK
  <2>4. StoredOnRecord'
    BY <2>1, <2>3 DEF HandedInv, StoredOnRecord, tables
  <2> QED BY <2>2, <2>4
<1> QED BY <1>1, <1>2, StepsOfStore

------------------------------------------------------------------------------
(* What is handed to store(), and what the reports say of it.              *)

\* The steps of the database leave the run alone; they keep the request of a
\* store() that goes on, add no version but a request that was flushed, and
\* take no row away but those a delete() holds.
LEMMA DatabaseFrame ==
  ASSUME StoreInv, NEW c \in Clients, StoreStep(c) \/ StoreFault(c)
  PROVE  /\ UNCHANGED req
         /\ stage[c] # "idle"
         /\ \A o \in Clients \ {c} : stage'[o] = stage[o] /\ reply'[o] = reply[o]
         /\ \/ stage'[c] = "idle"
            \/ /\ stage[c] \notin {"erasing", "erased"}
               /\ stage'[c] \in {"ready", "flushed"} /\ reply'[c] = reply[c]
            \/ stage[c] = "erasing" /\ stage'[c] = "erased" /\ reply'[c] = reply[c]
         /\ \/ UNCHANGED <<symbols, prices, versions>>
            \/ Committed(c) /\ stage'[c] = "idle"
            \/ Deleted(c) /\ stage'[c] = "idle"
<1> USE DEF StoreInv, StoreTypeOK, tables, Replies, Stages
<1>1. CASE InsertSymbol(c)
  BY <1>1 DEF InsertSymbol
<1>2. CASE FlushRows(c)
  BY <1>2 DEF FlushRows
<1>3. CASE SymbolRaceLost(c) \/ FlushDuplicate(c) \/ Abort(c)
  BY <1>3 DEF SymbolRaceLost, FlushDuplicate, Abort, Answer
<1>4. ASSUME NEW a \in Replies, Committed(c) \/ Deleted(c), Answer(c, a)
      PROVE  /\ UNCHANGED req
             /\ stage[c] # "idle" /\ stage'[c] = "idle"
             /\ \A o \in Clients \ {c} : stage'[o] = stage[o] /\ reply'[o] = reply[o]
  BY <1>4 DEF Committed, Deleted, Answer, Flushed, Erased
<1>5. CASE Commit(c) \/ CommitUnacknowledged(c) \/ CommitDelete(c)
  <2>1. PICK a \in Replies : (Committed(c) \/ Deleted(c)) /\ Answer(c, a)
    <3> HIDE DEF StoreInv, StoreTypeOK, tables
    <3> QED BY <1>5 DEF Commit, CommitUnacknowledged, CommitDelete
  <2> HIDE DEF StoreInv, StoreTypeOK, tables, Replies, Stages
  <2> QED BY <1>4, <2>1
<1>6. CASE EraseRows(c)
  BY <1>6 DEF EraseRows
<1> QED BY <1>1, <1>2, <1>3, <1>5, <1>6 DEF StoreStep, StoreFault

\* A report closes the symbol at hand.
LEMMA ReportEffect ==
  ASSUME PipelineTypeOK, NEW c \in Clients, NEW ok \in BOOLEAN, NEW records \in Nat,
         NEW inserted \in Nat, todo[c] # <<>>, Report(c, ok, records, inserted)
  PROVE  LET r == [symbol |-> Head(todo[c]), ok |-> ok, fetched |-> records,
                   inserted |-> inserted]
         IN  /\ r \in ReportOf
             /\ reports'[c] = Append(reports[c], r)
             /\ \A o \in Clients \ {c} : reports'[o] = reports[o]
             /\ reports' \in [Clients -> Seq(ReportOf)]
             /\ todo' \in [Clients -> Seq(Symbols)]
             /\ run' \in [Clients -> RunStates]
             /\ run'[c] = "symbol"
             /\ \A o \in Clients \ {c} : run'[o] = run[o] /\ todo'[o] = todo[o]
<1> DEFINE r == [symbol |-> Head(todo[c]), ok |-> ok, fetched |-> records,
                 inserted |-> inserted]
<1>1. /\ todo[c] \in Seq(Symbols) /\ Head(todo[c]) \in Symbols
      /\ Tail(todo[c]) \in Seq(Symbols)
      /\ reports[c] \in Seq(ReportOf)
  BY DEF PipelineTypeOK
<1>2. r \in ReportOf
  BY <1>1 DEF ReportOf
<1>3. reports' = [reports EXCEPT ![c] = Append(reports[c], r)]
  BY DEF Report
<1>4. /\ todo' = [todo EXCEPT ![c] = Tail(todo[c])]
      /\ run' = [run EXCEPT ![c] = "symbol"]
  BY DEF Report
<1> HIDE DEF r
<1>5. Append(reports[c], r) \in Seq(ReportOf)
  BY <1>1, <1>2
<1>6. /\ todo' \in [Clients -> Seq(Symbols)]
      /\ run' \in [Clients -> RunStates]
      /\ reports' \in [Clients -> Seq(ReportOf)]
      /\ reports'[c] = Append(reports[c], r) /\ run'[c] = "symbol"
      /\ \A o \in Clients \ {c} : run'[o] = run[o] /\ todo'[o] = todo[o]
                                  /\ reports'[o] = reports[o]
  BY <1>1, <1>3, <1>4, <1>5 DEF PipelineTypeOK, RunStates
<1> QED BY <1>2, <1>6 DEF r

\* What Persisted reports: no more rows than were fetched.
LEMMA PersistedEffect ==
  ASSUME HandedInv, NEW c \in Clients, Persisted(c)
  PROVE  \E ok \in BOOLEAN, n \in Nat, i \in Nat :
           /\ ok <=> reply[c] = "stored"
           /\ IF ok THEN i = Cardinality(req[c].dates) ELSE i = 0
           /\ i <= n
           /\ Report(c, ok, n, i)
           /\ todo[c] # <<>>
<1> DEFINE m == Cardinality(req[c].dates)
           n == fetched[c]
           ok == reply[c] = "stored"
           i == IF ok THEN m ELSE 0
<1>1. m \in Nat
  <2>1. req[c] \in Requests
    BY DEF HandedInv, StoreInv, StoreTypeOK
  <2> QED BY <2>1, StoreAssumption, FS_CardinalityType
<1>2. n \in Nat
  BY DEF HandedInv, PipelineTypeOK
<1>3. todo[c] # <<>> /\ m <= n
  BY DEF Persisted, HandedInv, Handed
<1>4. ok \in BOOLEAN /\ (ok <=> reply[c] = "stored")
  OBVIOUS
<1>5. Report(c, ok, n, i)
  BY DEF Persisted
<1> HIDE DEF n, m, ok
<1>6. i \in Nat /\ i <= n /\ IF ok THEN i = m ELSE i = 0
  BY <1>1, <1>2, <1>3
<1> HIDE DEF i
<1> QED BY <1>2, <1>3, <1>4, <1>5, <1>6 DEF m

\* The reports that leave the store alone.
LEMMA EarlyReport ==
  ASSUME HandedInv, NEW c \in Clients, Early(c)
  PROVE  /\ \E ok \in BOOLEAN, n \in Nat : Report(c, ok, n, 0)
         /\ todo[c] # <<>> /\ run[c] = "symbol"
         /\ UNCHANGED <<storeVars, today, from, to, fetched, covered>>
<1>1. CASE FetchFails(c)
  BY <1>1 DEF FetchFails, InSymbol
<1>2. ASSUME InSymbol(c), NEW payload \in Payloads(c),
             ValidationFails(c, payload) \/ NothingToPersist(c, payload)
      PROVE  /\ \E ok \in BOOLEAN, n \in Nat : Report(c, ok, n, 0)
             /\ todo[c] # <<>> /\ run[c] = "symbol"
             /\ UNCHANGED <<storeVars, today, from, to, fetched, covered>>
  BY <1>2, PayloadFacts DEF ValidationFails, NothingToPersist, InSymbol
<1> QED BY <1>1, <1>2 DEF Early

\* The end of a run.
LEMMA RunReportedEffect ==
  ASSUME PipelineTypeOK, NEW c \in Clients, RunReported(c)
  PROVE  /\ run'[c] \in {"success", "partial", "failed"} /\ run[c] = "symbol"
         /\ run' \in [Clients -> RunStates]
         /\ \A o \in Clients \ {c} : run'[o] = run[o]
         /\ UNCHANGED <<storeVars, today, todo, from, to, fetched, reports, covered>>
<1> DEFINE failed == \E k \in DOMAIN reports[c] : ~reports[c][k].ok
           succeeded == \E k \in DOMAIN reports[c] : reports[c][k].ok
           st == CASE ~failed -> "success" [] failed /\ ~succeeded -> "failed"
                   [] OTHER -> "partial"
<1>1. run' = [run EXCEPT ![c] = st] /\ run[c] = "symbol"
      /\ UNCHANGED <<storeVars, today, todo, from, to, fetched, reports, covered>>
  BY Zenon DEF RunReported
<1>2. failed \in BOOLEAN /\ succeeded \in BOOLEAN
  OBVIOUS
<1> HIDE DEF failed, succeeded
<1>3. st \in {"success", "partial", "failed"}
  BY <1>2
<1> HIDE DEF st
<1> QED BY <1>1, <1>3 DEF PipelineTypeOK, RunStates

\* Every step keeps the types.
LEMMA TypeKept ==
  ASSUME HandedInv, [PipelineNext]_pipelineVars
  PROVE  PipelineTypeOK'
<1> USE DEF HandedInv
<1>1. CASE UNCHANGED pipelineVars
  BY <1>1 DEF pipelineVars, pipeline, PipelineTypeOK
<1>2. CASE Tick
  BY <1>2, DaysFacts DEF Tick, PipelineTypeOK
<1>3. ASSUME NEW c \in Clients, NEW o \in Orders, NEW n \in Spans, RunMany(c, o, n)
      PROVE  PipelineTypeOK'
  <2>1. o \in Seq(Symbols) /\ today \in Days /\ today - n \in Int /\ <<>> \in Seq(ReportOf)
    BY PipelineAssumption, DaysFacts DEF PipelineTypeOK
  <2> QED BY <1>3, <2>1 DEF RunMany, PipelineTypeOK, RunStates
<1>4. ASSUME NEW c \in Clients, Early(c)
      PROVE  PipelineTypeOK'
  BY <1>4, EarlyReport, ReportEffect DEF PipelineTypeOK
<1>5. ASSUME NEW c \in Clients, NEW payload, NEW bars, Handing(c, payload, bars)
      PROVE  PipelineTypeOK'
  BY <1>5, HandingEffect DEF PipelineTypeOK
<1>6. ASSUME NEW c \in Clients, Persisted(c)
      PROVE  PipelineTypeOK'
  <2>1. Head(todo[c]) \in Symbols
    BY <1>6, PersistedEffect DEF PipelineTypeOK
  <2>2. covered' \subseteq Symbols /\ UNCHANGED <<today, from, to, fetched>>
    BY <1>6, <2>1 DEF Persisted, PipelineTypeOK
  <2>3. PICK ok \in BOOLEAN, n \in Nat, m \in Nat : todo[c] # <<>> /\ Report(c, ok, n, m)
    BY <1>6, PersistedEffect
  <2>4. /\ reports' \in [Clients -> Seq(ReportOf)]
        /\ todo' \in [Clients -> Seq(Symbols)]
        /\ run' \in [Clients -> RunStates]
    BY <2>3, ReportEffect
  <2> QED BY <2>2, <2>4 DEF PipelineTypeOK
<1>7. ASSUME NEW c \in Clients, RunReported(c)
      PROVE  PipelineTypeOK'
  BY <1>7, RunReportedEffect DEF PipelineTypeOK
<1>8. ASSUME NEW c \in Clients, DatabaseStep(c) \/ Administer(c)
      PROVE  PipelineTypeOK'
  BY <1>8 DEF DatabaseStep, Administer, pipeline, PipelineTypeOK
<1>9. ASSUME NEW c \in Clients, Crash(c)
      PROVE  PipelineTypeOK'
  <2>1. <<>> \in Seq(Symbols) /\ <<>> \in Seq(ReportOf)
    OBVIOUS
  <2> QED BY <1>9, <2>1 DEF Crash, PipelineTypeOK, RunStates
<1> QED BY <1>1, <1>2, <1>3, <1>4, <1>5, <1>6, <1>7, <1>8, <1>9, PipelineSteps

\* The steps that do not touch the request, the transaction and the symbol at
\* hand of o keep what it was handed.
LEMMA HandedStays ==
  ASSUME HandedInv, NEW o \in Clients, today' \in Days, today <= today',
         to'[o] = to[o], run'[o] = run[o], todo'[o] = todo[o], fetched'[o] = fetched[o],
         req'[o] = req[o], stage'[o] = stage[o]
  PROVE  to'[o] <= today' /\ Handed(o)'
<1>1. /\ to[o] \in Days /\ to[o] <= today /\ today \in Days
      /\ Handed(o)
  BY DEF HandedInv, PipelineTypeOK
<1>2. req[o].version \in Days
  BY StoreAssumption DEF HandedInv, StoreInv, StoreTypeOK, Request
<1>3. \A d \in Days : d <= today => d <= today'
  BY <1>1, DaysFacts
<1>4. to'[o] <= today'
  BY <1>1, <1>3
<1>5. req'[o].version <= today \/ run'[o] # "persist"
  BY <1>1 DEF Handed
<1>6. Running(o)' <=> Running(o)
  BY DEF Running
<1> QED BY <1>1, <1>2, <1>3, <1>4, <1>5, <1>6 DEF Handed

\* Every step keeps what was handed to store() about the symbol at hand.
LEMMA HandedKept ==
  ASSUME HandedInv, [PipelineNext]_pipelineVars, NEW o \in Clients
  PROVE  to'[o] <= today' /\ Handed(o)'
<1>1. PipelineTypeOK' /\ today' \in Days
  BY TypeKept DEF PipelineTypeOK
<1>2. today \in Days /\ today \in Int /\ today <= today /\ to[o] <= today /\ Handed(o)
  BY DaysFacts DEF HandedInv, PipelineTypeOK
<1>3. CASE UNCHANGED pipelineVars
  BY <1>1, <1>2, <1>3, HandedStays DEF pipelineVars, pipeline, storeVars, client
<1>4. CASE Tick
  <2>1. today' = today + 1 /\ UNCHANGED <<stage, req, to, run, todo, fetched>>
    BY <1>4 DEF Tick, storeVars, client
  <2> QED BY <1>1, <1>2, <2>1, HandedStays
<1>5. ASSUME NEW c \in Clients, NEW os \in Orders, NEW n \in Spans, RunMany(c, os, n)
      PROVE  to'[o] <= today' /\ Handed(o)'
  <2>1. CASE o = c
    <3>1. run'[c] = "symbol" /\ to'[c] = today /\ stage'[c] = "idle" /\ today' = today
      BY <1>5 DEF RunMany, HandedInv, PipelineTypeOK, storeVars, client
    <3> QED BY <1>2, <2>1, <3>1 DEF Handed, Running
  <2>2. CASE o # c
    BY <1>1, <1>2, <1>5, <2>2, HandedStays
       DEF RunMany, HandedInv, PipelineTypeOK, storeVars, client
  <2> QED BY <2>1, <2>2
<1>6. ASSUME NEW c \in Clients, Early(c)
      PROVE  to'[o] <= today' /\ Handed(o)'
  <2>1. /\ run'[c] = "symbol" /\ run[c] = "symbol"
        /\ \A x \in Clients \ {c} : run'[x] = run[x] /\ todo'[x] = todo[x]
    BY <1>6, EarlyReport, ReportEffect DEF HandedInv
  <2>2. UNCHANGED <<stage, req, today, to, fetched>>
    BY <1>6, EarlyReport DEF storeVars, client
  <2>3. CASE o = c
    BY <1>2, <2>1, <2>2, <2>3 DEF Handed, Running
  <2>4. CASE o # c
    BY <1>1, <1>2, <2>1, <2>2, <2>4, HandedStays
  <2> QED BY <2>3, <2>4
<1>7. ASSUME NEW c \in Clients, NEW payload, NEW bars, Handing(c, payload, bars)
      PROVE  to'[o] <= today' /\ Handed(o)'
  <2>1. PICK r \in Requests :
           /\ BeginStore(c, r)
           /\ r.listing = Listed(Head(todo[c])) /\ r.dates = bars /\ r.version = today
    BY <1>7, PersistIsRequest
  <2>2. /\ UNCHANGED <<today, todo, to>> /\ todo[c] # <<>>
        /\ run'[c] = "persist" /\ fetched'[c] = Cardinality(payload)
        /\ payload \in Payloads(c) /\ bars \in Converted(c, payload)
        /\ \A x \in Clients \ {c} : run'[x] = run[x] /\ fetched'[x] = fetched[x]
    BY <1>7, HandingEffect DEF HandedInv
  <2>3. CASE o = c
    <3>1. req'[c] = r /\ stage'[c] \in {"found", "missing"}
      BY <2>1 DEF BeginStore, HandedInv, StoreInv, StoreTypeOK
    <3>2. /\ bars \subseteq TradingDays /\ \A d \in bars : d <= to[c] /\ d \in Days
          /\ Cardinality(bars) <= Cardinality(payload)
      BY <2>2, ConvertedFacts
    <3>3. \A d \in bars : d <= today
      <4>1. to[c] \in Nat /\ today \in Nat /\ to[c] <= today /\ \A d \in bars : d \in Nat
        BY <3>2, DaysFacts DEF HandedInv, PipelineTypeOK
      <4> QED BY <3>2, <4>1
    <3>4. req'[c].dates = bars /\ req'[c].version = today /\ todo'[c] = todo[c]
          /\ req'[c].listing = Listed(Head(todo[c])) /\ today' = today
      BY <2>1, <2>2, <3>1
    <3>5. Handed(c)'
      BY <1>2, <2>2, <3>1, <3>2, <3>3, <3>4 DEF Handed, Listed, Running
    <3> QED BY <1>2, <2>2, <2>3, <3>5
  <2>4. CASE o # c
    <3>1. req'[o] = req[o] /\ stage'[o] = stage[o]
      BY <2>1, <2>4 DEF BeginStore, HandedInv, StoreInv, StoreTypeOK
    <3>2. run'[o] = run[o] /\ fetched'[o] = fetched[o]
      BY <2>2, <2>4
    <3>3. to'[o] = to[o] /\ todo'[o] = todo[o] /\ today' = today
      BY <2>2
    <3> QED BY <1>1, <1>2, <3>1, <3>2, <3>3, HandedStays
  <2> QED BY <2>3, <2>4
<1>8. ASSUME NEW c \in Clients, Persisted(c)
      PROVE  to'[o] <= today' /\ Handed(o)'
  <2>1. /\ run'[c] = "symbol"
        /\ \A x \in Clients \ {c} : run'[x] = run[x] /\ todo'[x] = todo[x]
    <3>1. PICK ok \in BOOLEAN, n \in Nat, m \in Nat : todo[c] # <<>> /\ Report(c, ok, n, m)
      BY <1>8, PersistedEffect
    <3> QED BY <3>1, ReportEffect DEF HandedInv
  <2>2. UNCHANGED <<stage, req, today, to, fetched>> /\ stage[c] = "idle"
    BY <1>8 DEF Persisted, storeVars, client
  <2>3. CASE o = c
    BY <1>2, <2>1, <2>2, <2>3 DEF Handed, Running
  <2>4. CASE o # c
    BY <1>1, <1>2, <2>1, <2>2, <2>4, HandedStays
  <2> QED BY <2>3, <2>4
<1>9. ASSUME NEW c \in Clients, RunReported(c)
      PROVE  to'[o] <= today' /\ Handed(o)'
  <2>1. /\ run'[c] \in {"success", "partial", "failed"} /\ run[c] = "symbol"
        /\ \A x \in Clients \ {c} : run'[x] = run[x]
        /\ UNCHANGED <<stage, req, today, to, todo, fetched>>
    BY <1>9, RunReportedEffect DEF HandedInv, storeVars, client
  <2>2. CASE o = c
    BY <1>2, <2>1, <2>2 DEF Handed, Running
  <2>3. CASE o # c
    BY <1>1, <1>2, <2>1, <2>3, HandedStays
  <2> QED BY <2>2, <2>3
<1>10. ASSUME NEW c \in Clients, DatabaseStep(c)
       PROVE  to'[o] <= today' /\ Handed(o)'
  <2>1. /\ UNCHANGED <<req, today, to, todo, run, fetched>> /\ stage[c] # "idle"
        /\ \A x \in Clients \ {c} : stage'[x] = stage[x]
        /\ \/ stage'[c] = "idle"
           \/ stage[c] \notin {"erasing", "erased"} /\ stage'[c] \in {"ready", "flushed"}
           \/ stage[c] = "erasing" /\ stage'[c] = "erased"
    BY <1>10, DatabaseFrame DEF DatabaseStep, pipeline, HandedInv
  <2>2. CASE o = c
    BY <1>2, <2>1, <2>2 DEF Handed, Running
  <2>3. CASE o # c
    BY <1>1, <1>2, <2>1, <2>3, HandedStays
  <2> QED BY <2>2, <2>3
<1>11. ASSUME NEW c \in Clients, Administer(c)
       PROVE  to'[o] <= today' /\ Handed(o)'
  <2>1. /\ UNCHANGED <<req, today, to, todo, run, fetched>> /\ ~Running(c)
        /\ stage'[c] \in {"idle", "erasing"}
        /\ \A x \in Clients \ {c} : stage'[x] = stage[x]
    BY <1>11 DEF Administer, BeginDelete, pipeline, HandedInv, StoreInv, StoreTypeOK
  <2>2. CASE o = c
    BY <1>2, <2>1, <2>2 DEF Handed, Running
  <2>3. CASE o # c
    BY <1>1, <1>2, <2>1, <2>3, HandedStays
  <2> QED BY <2>2, <2>3
<1>12. ASSUME NEW c \in Clients, Crash(c)
       PROVE  to'[o] <= today' /\ Handed(o)'
  <2>1. /\ run'[c] = "idle" /\ stage'[c] = "idle"
        /\ UNCHANGED <<req, today, to, fetched>>
        /\ \A x \in Clients \ {c} :
             stage'[x] = stage[x] /\ run'[x] = run[x] /\ todo'[x] = todo[x]
    BY <1>12 DEF Crash, Answer, HandedInv, PipelineTypeOK, StoreInv, StoreTypeOK
  <2>2. CASE o = c
    BY <1>2, <2>1, <2>2 DEF Handed, Running
  <2>3. CASE o # c
    BY <1>1, <1>2, <2>1, <2>3, HandedStays
  <2> QED BY <2>2, <2>3
<1> QED BY <1>3, <1>4, <1>5, <1>6, <1>7, <1>8, <1>9, <1>10, <1>11, <1>12, PipelineSteps

\* The version and price rows change by the commit of a client that persists,
\* by the commit of a delete() (the price rows only), or not at all.
LEMMA TablesSteps ==
  ASSUME HandedInv, [PipelineNext]_pipelineVars
  PROVE  \/ UNCHANGED <<symbols, prices, versions>>
         \/ \E c \in Clients : /\ DatabaseStep(c) /\ Committed(c) /\ stage'[c] = "idle"
                               /\ run[c] = "persist"
         \/ \E c \in Clients : /\ DatabaseStep(c) /\ Deleted(c) /\ stage'[c] = "idle"
                               /\ ~Running(c)
<1>1. CASE UNCHANGED storeVars
  BY <1>1 DEF storeVars, tables
<1>2. CASE Tick \/ UNCHANGED pipelineVars
  BY <1>1, <1>2 DEF Tick, pipelineVars
<1>3. ASSUME NEW c \in Clients, NEW o, NEW n, RunMany(c, o, n)
      PROVE  UNCHANGED storeVars
  BY <1>3 DEF RunMany
<1>4. ASSUME NEW c \in Clients, Early(c) \/ Persisted(c) \/ RunReported(c)
      PROVE  UNCHANGED storeVars
  BY <1>4 DEF Early, FetchFails, ValidationFails, NothingToPersist, Persisted, RunReported
<1>5. ASSUME NEW c \in Clients, NEW payload, NEW bars, Handing(c, payload, bars)
      PROVE  UNCHANGED <<symbols, prices, versions>>
  BY <1>5, HandingEffect DEF HandedInv, tables
<1>6. ASSUME NEW c \in Clients, DatabaseStep(c)
      PROVE  \/ UNCHANGED <<symbols, prices, versions>>
             \/ Committed(c) /\ stage'[c] = "idle" /\ run[c] = "persist"
             \/ Deleted(c) /\ stage'[c] = "idle" /\ ~Running(c)
  <2>1. Handed(c)
    BY DEF HandedInv
  <2>2. Committed(c) => run[c] = "persist"
    BY <2>1 DEF Committed, Flushed, Handed, Running
  <2>3. Deleted(c) => ~Running(c)
    BY <2>1 DEF Deleted, Erased, Handed, Running
  <2> QED BY <1>6, <2>2, <2>3, DatabaseFrame DEF DatabaseStep, HandedInv
<1>7. ASSUME NEW c \in Clients, Crash(c) \/ Administer(c)
      PROVE  UNCHANGED <<symbols, prices, versions>>
  BY <1>7 DEF Crash, Administer, BeginDelete, tables
<1> QED BY <1>1, <1>2, <1>3, <1>4, <1>5, <1>6, <1>7, PipelineSteps

\* A version comes from a client that persists, or was there before.
LEMMA VersionsKept ==
  ASSUME HandedInv, [PipelineNext]_pipelineVars
  PROVE  VersionsFollowBars' /\ \A v \in versions' : v.dates \subseteq TradingDays
<1>1. today \in Nat /\ today' \in Nat /\ today <= today'
  <2>1. today \in Nat /\ today' \in Nat
    BY TypeKept, DaysFacts DEF HandedInv, PipelineTypeOK
  <2>2. today' = today \/ today' = today + 1
    BY DEF PipelineNext, Tick, RunMany, FetchFails, ProcessSymbol, NothingToPersist,
       ValidationFails, Persist, HandOver, Persisted, RunReported, DatabaseStep, Crash,
       Administer, pipeline, pipelineVars
  <2> QED BY <2>1, <2>2
<1>2. \A v \in versions' : v \in versions \/ \E c \in Clients : v = req[c] /\ run[c] = "persist"
  BY TablesSteps DEF Committed, Deleted
<1>3. \A v \in versions' : v.version \in Nat
  BY StoreUnderPipeline, DaysFacts DEF StoreInv, StoreTypeOK, Request
<1>4. \A c \in Clients : run[c] = "persist" =>
        /\ req[c].version <= today /\ req[c].dates \subseteq TradingDays
        /\ \A d \in req[c].dates : d <= req[c].version
  BY DEF HandedInv, Handed
<1>5. \A v \in versions :
        /\ v.version <= today /\ v.dates \subseteq TradingDays
        /\ \A d \in v.dates : d <= v.version
  BY DEF HandedInv, VersionsFollowBars
<1>6. \A v \in versions' :
        /\ v.version <= today /\ v.dates \subseteq TradingDays
        /\ \A d \in v.dates : d <= v.version
  BY <1>2, <1>4, <1>5
<1> QED BY <1>1, <1>3, <1>6 DEF VersionsFollowBars

\* What InsertedRowsAreCommitted says of one report.
Honest(r, V) ==
  /\ r.inserted > 0 =>
       /\ r.ok /\ r.inserted <= r.fetched
       /\ \E v \in V : v.listing.symbol = r.symbol /\ Cardinality(v.dates) = r.inserted
  /\ ~r.ok => r.inserted = 0

\* An honest report appended to honest ones.
LEMMA HonestAfterAppend ==
  ASSUME NEW R, NEW h \in Seq(R), NEW r \in R, NEW V,
         \A k \in DOMAIN h : Honest(h[k], V), Honest(r, V)
  PROVE  \A k \in DOMAIN Append(h, r) : Honest(Append(h, r)[k], V)
<1>1. \A k \in DOMAIN Append(h, r) :
        \/ k \in DOMAIN h /\ Append(h, r)[k] = h[k]
        \/ Append(h, r)[k] = r
  OBVIOUS
<1> QED BY <1>1

\* Every step keeps the reports honest.
LEMMA InsertedKept ==
  ASSUME HandedInv, [PipelineNext]_pipelineVars
  PROVE  InsertedRowsAreCommitted'
<1> DEFINE Told(x, V) == \A c \in Clients : \A k \in DOMAIN x[c] : Honest(x[c][k], V)
<1>1. Told(reports, versions)
  BY DEF HandedInv, InsertedRowsAreCommitted, Honest
<1>2. versions \subseteq versions'
  BY TablesSteps DEF Committed, Deleted
<1>3. Told(reports, versions')
  BY <1>1, <1>2 DEF Honest
<1>4. SUFFICES Told(reports', versions')
  BY DEF InsertedRowsAreCommitted, Honest
<1>5. \A c \in Clients : reports[c] \in Seq(ReportOf)
  BY DEF HandedInv, PipelineTypeOK
<1>6. CASE UNCHANGED reports
  BY <1>3, <1>6
<1>7. ASSUME NEW c \in Clients, NEW r \in ReportOf, Honest(r, versions'),
             reports'[c] = Append(reports[c], r),
             \A o \in Clients \ {c} : reports'[o] = reports[o]
      PROVE  Told(reports', versions')
  <2>1. \A k \in DOMAIN reports'[c] : Honest(reports'[c][k], versions')
    BY <1>3, <1>5, <1>7, HonestAfterAppend
  <2> QED BY <1>3, <1>7, <2>1
<1>8. ASSUME NEW c \in Clients, reports'[c] = <<>>,
             \A o \in Clients \ {c} : reports'[o] = reports[o]
      PROVE  Told(reports', versions')
  <2>1. DOMAIN reports'[c] = {}
    BY <1>8
  <2> QED BY <1>3, <1>8, <2>1
<1> HIDE DEF Told
<1>9. ASSUME NEW c \in Clients, NEW o, NEW n, RunMany(c, o, n)
      PROVE  Told(reports', versions')
  BY <1>8, <1>9 DEF RunMany, HandedInv, PipelineTypeOK
<1>10. ASSUME NEW c \in Clients, Early(c)
       PROVE  Told(reports', versions')
  <2>1. PICK ok \in BOOLEAN, n \in Nat : Report(c, ok, n, 0) /\ todo[c] # <<>>
    BY <1>10, EarlyReport
  <2> DEFINE r == [symbol |-> Head(todo[c]), ok |-> ok, fetched |-> n, inserted |-> 0]
  <2>2. /\ r \in ReportOf /\ reports'[c] = Append(reports[c], r)
        /\ \A x \in Clients \ {c} : reports'[x] = reports[x]
    BY <2>1, ReportEffect DEF HandedInv
  <2>3. Honest(r, versions')
    BY DEF Honest
  <2> HIDE DEF r
  <2> QED BY <1>7, <2>2, <2>3
<1>11. ASSUME NEW c \in Clients, Persisted(c)
       PROVE  Told(reports', versions')
  <2>1. PICK ok \in BOOLEAN, n \in Nat, i \in Nat :
           /\ ok <=> reply[c] = "stored"
           /\ IF ok THEN i = Cardinality(req[c].dates) ELSE i = 0
           /\ i <= n
           /\ Report(c, ok, n, i)
           /\ todo[c] # <<>>
    BY <1>11, PersistedEffect
  <2> DEFINE r == [symbol |-> Head(todo[c]), ok |-> ok, fetched |-> n, inserted |-> i]
  <2>2. /\ r \in ReportOf /\ reports'[c] = Append(reports[c], r)
        /\ \A x \in Clients \ {c} : reports'[x] = reports[x]
    BY <2>1, ReportEffect DEF HandedInv
  <2>3. /\ r.symbol = Head(todo[c]) /\ r.fetched = n /\ r.inserted = i
        /\ r.ok <=> ok
    OBVIOUS
  <2>4. CASE ok
    <3>1. req[c] \in versions /\ i = Cardinality(req[c].dates)
      BY <2>1, <2>4 DEF HandedInv, StoredOnRecord
    <3>2. req[c].listing.symbol = Head(todo[c])
      <4>1. req[c].listing = Listed(Head(todo[c]))
        BY <1>11 DEF Persisted, HandedInv, Handed
      <4> QED BY <4>1 DEF Listed
    <3>3. req[c] \in versions'
      BY <1>2, <3>1
    <3> HIDE DEF r
    <3>4. Honest(r, versions')
      BY <2>1, <2>3, <2>4, <3>1, <3>2, <3>3 DEF Honest
    <3> QED BY <1>7, <2>2, <3>4
  <2>5. CASE ~ok
    <3>1. i = 0
      BY <2>1, <2>5
    <3> HIDE DEF r
    <3>2. Honest(r, versions')
      BY <2>3, <2>5, <3>1 DEF Honest
    <3> QED BY <1>7, <2>2, <3>2
  <2> QED BY <2>4, <2>5
<1>12. ASSUME NEW c \in Clients, Crash(c)
       PROVE  Told(reports', versions')
  BY <1>8, <1>12 DEF Crash, HandedInv, PipelineTypeOK
<1>13. ASSUME NEW c \in Clients, NEW payload, NEW bars, Handing(c, payload, bars)
       PROVE  UNCHANGED reports
  BY <1>13, HandingEffect DEF HandedInv
<1> QED BY <1>6, <1>9, <1>10, <1>11, <1>12, <1>13, PipelineSteps
        DEF Tick, RunReported, DatabaseStep, Administer, pipeline, pipelineVars

\* All of it holds from the start and is kept by every step.
LEMMA HandedInitially == PipelineInit => HandedInv
<1> SUFFICES ASSUME PipelineInit PROVE HandedInv
  OBVIOUS
<1>1. StoreInv
  BY InitInv DEF PipelineInit
<1>2. symbols = {} /\ prices = {} /\ versions = {} /\ stage = [c \in Clients |-> "idle"]
      /\ reply = [c \in Clients |-> "none"]
  BY DEF PipelineInit, StoreInit
<1>3. StoredOnRecord /\ VersionsFollowBars /\ \A v \in versions : v.dates \subseteq TradingDays
  BY <1>2 DEF StoredOnRecord, VersionsFollowBars
<1>4. PipelineTypeOK /\ InsertedRowsAreCommitted
  <2>1. <<>> \in Seq(Symbols) /\ <<>> \in Seq(ReportOf) /\ FirstDay \in Days /\ FirstDay \in Int
    BY PipelineAssumption, DaysFacts
  <2>2. \A c \in Clients : DOMAIN reports[c] = {}
    BY DEF PipelineInit
  <2> QED BY <2>1, <2>2 DEF PipelineInit, PipelineTypeOK, RunStates, InsertedRowsAreCommitted
<1>5. \A c \in Clients : to[c] <= today /\ Handed(c)
  BY <1>2, PipelineAssumption, DaysFacts DEF PipelineInit, Handed, Running
<1> QED BY <1>1, <1>3, <1>4, <1>5 DEF HandedInv

\* ... and is kept.
LEMMA HandedNext == HandedInv /\ [PipelineNext]_pipelineVars => HandedInv'
<1> SUFFICES ASSUME HandedInv, [PipelineNext]_pipelineVars PROVE HandedInv'
  OBVIOUS
<1>1. StoreInv' /\ StoredOnRecord'
  BY StoreUnderPipeline
<1>2. PipelineTypeOK'
  BY TypeKept
<1>3. (\A c \in Clients : to[c] <= today /\ Handed(c))'
  BY HandedKept
<1>4. VersionsFollowBars' /\ (\A v \in versions : v.dates \subseteq TradingDays)'
  BY VersionsKept
<1>5. InsertedRowsAreCommitted'
  BY InsertedKept
<1> QED BY <1>1, <1>2, <1>3, <1>4, <1>5 DEF HandedInv

\* The strengthened invariant holds in every reachable state.
THEOREM PipelineInvariant == PipelineSpec => []HandedInv
BY HandedInitially, HandedNext, PTL DEF PipelineSpec

\* The version string of a stored set of bars never names a day before one of
\* them, although the window and the version read the clock separately.
THEOREM PipelineVersions == PipelineSpec => []VersionsFollowBars
<1>1. HandedInv => VersionsFollowBars
  BY DEF HandedInv
<1> QED BY <1>1, PipelineInvariant, PTL

\* Rows a report counts as inserted were committed, in a version of that size
\* and no more than were fetched, whichever records the conversion skips and
\* whoever else is storing, deleting or crashing.
THEOREM PipelineReports == PipelineSpec => []InsertedRowsAreCommitted
<1>1. HandedInv => InsertedRowsAreCommitted
  BY DEF HandedInv
<1> QED BY <1>1, PipelineInvariant, PTL

\* The pipeline breaks none of the store's promises: a version is all or
\* nothing and the keys are unique, crashes included.
THEOREM PipelineStores == PipelineSpec => [](StoresAreAtomic /\ KeysAreUnique)
<1>1. HandedInv => StoresAreAtomic /\ KeysAreUnique
  BY DEF HandedInv, StoreInv
<1> QED BY <1>1, PipelineInvariant, PTL

------------------------------------------------------------------------------
(* A run on every day.                                                     *)

\* What is stored of s reaches into today's window.
Recent(s) == Stored(s) = {} \/ \E d \in Stored(s), n \in Spans : today <= d + n

\* ... or at least into yesterday's.
Lagging(s) == Stored(s) = {} \/ \E d \in Stored(s), n \in Spans : today <= d + n + 1

\* D are bars of what the provider may answer to c.
BarsOfPayload(c, D) == \E payload \in Payloads(c) : D \in Converted(c, payload) \ {{}}

\* A run ends on the day it began; what it hands over are bars of its window;
\* an attempt to store that ended without an error, or that found the symbol
\* missing, leaves recent bars or none.
InWindow(c) ==
  /\ Running(c) => to[c] = today /\ \E n \in Spans : from[c] = today - n
  /\ run[c] = "persist" =>
       /\ req[c].version = today
       /\ BarsOfPayload(c, req[c].dates)
       /\ stage[c] = "missing" \/ (stage[c] = "idle" /\ reply[c] # "error") =>
            Recent(Head(todo[c]))

\* All bars of D are in today's window.
AllRecent(D) == \E n \in Spans : \A d \in D : today <= d + n

\* What a delete() under way will leave of its listing was stored today: no
\* delete() goes past midnight.
DoomedByToday(c) ==
  \A p \in doomed[c] : \A q \in prices :
    q.listing = p.listing /\ q \notin doomed[c] => q.version = today

DailyInv ==
  /\ \A c \in Clients : InWindow(c)
  /\ \A s \in covered : Recent(s)
  /\ \A s \in Symbols : \A v \in versions :
       v.listing = Listed(s) /\ v.version = today => Recent(s) /\ AllRecent(v.dates)
  /\ \A s \in Symbols : Lagging(s)
  /\ \A c \in Clients : DoomedByToday(c)

\* The days with a bar of s among the price rows P.
BarsIn(P, s) == {p.date : p \in {q \in P : q.listing = Listed(s)}}

\* ... is what Stored says, now and in the next state.
LEMMA StoredBars ==
  ASSUME NEW s
  PROVE  Stored(s) = BarsIn(prices, s) /\ Stored(s)' = BarsIn(prices', s)
BY DEF Stored, BarsIn, Listed

\* ... and has the expected members.
LEMMA BarsOf ==
  ASSUME NEW P, NEW s
  PROVE  \A d : d \in BarsIn(P, s) <=> \E p \in P : p.listing = Listed(s) /\ p.date = d
BY DEF BarsIn

\* Stored bars are bars of trading days up to today, today's under a version
\* of today.
LEMMA StoredFacts ==
  ASSUME HandedInv, NEW s
  PROVE  /\ Stored(s) \subseteq TradingDays
         /\ \A d \in Stored(s) : d \in Nat /\ d <= today
         /\ today \in Stored(s) =>
              \E v \in versions : v.listing = Listed(s) /\ v.version = today
         /\ Listed(s) \notin symbols => Stored(s) = {}
<1>1. today \in Nat
  BY DaysFacts DEF HandedInv, PipelineTypeOK
<1>2. ASSUME NEW d \in Stored(s)
      PROVE  \E v \in versions :
               v.listing = Listed(s) /\ d \in v.dates /\ Listed(s) \in symbols
  <2>1. PICK p \in prices : p.listing = Listed(s) /\ p.date = d
    BY DEF Stored, Listed
  <2>2. PICK v \in versions : p \in RowsOf(v)
    BY DEF HandedInv, StoreInv, StoresAreAtomic
  <2>3. p.listing \in symbols
    BY DEF HandedInv, StoreInv, StoresAreAtomic
  <2> QED BY <2>1, <2>2, <2>3 DEF RowsOf
<1>3. ASSUME NEW v \in versions, NEW d \in v.dates
      PROVE  /\ d \in TradingDays /\ d \in Nat /\ d <= today
             /\ d = today => v.version = today
  <2>1. d \in TradingDays /\ v.version <= today /\ d <= v.version
    BY DEF HandedInv, VersionsFollowBars
  <2>2. d \in Nat /\ v.version \in Nat
    BY <2>1, DaysFacts DEF HandedInv, StoreInv, StoreTypeOK, Request, TradingDays
  <2> QED BY <1>1, <2>1, <2>2
<1> QED BY <1>2, <1>3

\* What a client that persists has handed over are bars of today's window.
LEMMA WindowFacts ==
  ASSUME HandedInv, NEW c \in Clients, InWindow(c), run[c] = "persist"
  PROVE  /\ req[c].dates # {} /\ AllRecent(req[c].dates)
         /\ to[c] = today /\ req[c].version = today
         /\ req[c].listing = Listed(Head(todo[c])) /\ Head(todo[c]) \in Symbols
<1>1. to[c] = today /\ req[c].version = today
  BY DEF InWindow, Running
<1>2. PICK payload \in Payloads(c) : req[c].dates \in Converted(c, payload) \ {{}}
  BY DEF InWindow, BarsOfPayload
<1>3. PICK n \in Spans : from[c] = today - n
  BY DEF InWindow, Running
<1>4. req[c].dates # {} /\ \A d \in req[c].dates : from[c] <= d /\ d \in Nat
  BY <1>2, ConvertedFacts, DaysFacts
<1>5. n \in Nat /\ today \in Nat
  BY PipelineAssumption, DaysFacts DEF HandedInv, PipelineTypeOK
<1>6. \A d \in req[c].dates : today <= d + n
  BY <1>3, <1>4, <1>5
<1>7. req[c].listing = Listed(Head(todo[c])) /\ Head(todo[c]) \in Symbols
  BY DEF HandedInv, Handed, PipelineTypeOK
<1> QED BY <1>1, <1>4, <1>6, <1>7 DEF AllRecent

\* A commit adds the bars that were handed over.
LEMMA CommitStores ==
  ASSUME HandedInv, NEW c \in Clients, Committed(c), run[c] = "persist", NEW s
  PROVE  \/ Stored(s)' = Stored(s)
         \/ s = Head(todo[c]) /\ Stored(s)' = Stored(s) \cup req[c].dates
<1>1. prices' = prices \cup RowsOf(req[c]) /\ req[c].listing = Listed(Head(todo[c]))
  BY DEF Committed, HandedInv, Handed
<1>2. Listed(s) = Listed(Head(todo[c])) => s = Head(todo[c])
  BY DEF Listed
<1>3. CASE s = Head(todo[c])
  <2>1. \A d : (\E p \in RowsOf(req[c]) : p.listing = Listed(s) /\ p.date = d)
               <=> d \in req[c].dates
    <3>1. \A p \in RowsOf(req[c]) : p.date \in req[c].dates
      BY DEF RowsOf
    <3>2. ASSUME NEW d \in req[c].dates
          PROVE  \E p \in RowsOf(req[c]) : p.listing = Listed(s) /\ p.date = d
      <4> DEFINE p == [listing |-> req[c].listing, date |-> d, version |-> req[c].version]
      <4>1. p \in RowsOf(req[c]) /\ p.listing = req[c].listing /\ p.date = d
        BY DEF RowsOf
      <4> HIDE DEF p
      <4> QED BY <1>1, <1>3, <4>1
    <3> QED BY <3>1, <3>2
  <2>2. \A d : d \in BarsIn(prices', s) <=> d \in BarsIn(prices, s) \/ d \in req[c].dates
    BY <1>1, <2>1, BarsOf
  <2> QED BY <1>3, <2>2, StoredBars
<1>4. CASE s # Head(todo[c])
  <2>1. \A p \in RowsOf(req[c]) : p.listing # Listed(s)
    BY <1>1, <1>2, <1>4 DEF RowsOf
  <2> QED BY <1>1, <2>1 DEF Stored, Listed
<1> QED BY <1>3, <1>4

\* What a delete() of s leaves is what was stored since its DELETE: nothing,
\* or the one version of today.
LEMMA DeleteStores ==
  ASSUME HandedInv, DailyInv, NEW c \in Clients, Deleted(c), StoresAreAtomic', NEW s
  PROVE  \/ Stored(s)' = Stored(s)
         \/ Stored(s)' = {}
         \/ \E v \in versions : /\ v.listing = Listed(s) /\ v.version = today
                                /\ Stored(s)' = v.dates
<1>1. prices' = prices \ doomed[c] /\ versions' = versions
  BY DEF Deleted
<1>2. CASE \A p \in doomed[c] : p.listing # Listed(s)
  <2>1. \A d : d \in BarsIn(prices', s) <=> d \in BarsIn(prices, s)
    BY <1>1, <1>2, BarsOf
  <2> QED BY <2>1, StoredBars
<1>3. ASSUME NEW p \in doomed[c], p.listing = Listed(s), Stored(s)' # {}
      PROVE  \E v \in versions : /\ v.listing = Listed(s) /\ v.version = today
                                 /\ Stored(s)' = v.dates
  <2>1. \A q \in prices' : q.listing = Listed(s) => q.version = today
    BY <1>1, <1>3 DEF DailyInv, DoomedByToday
  <2>2. PICK q \in prices' : q.listing = Listed(s)
    <3>1. PICK d : d \in BarsIn(prices', s)
      BY <1>3, StoredBars
    <3> QED BY <3>1, BarsOf
  <2>3. PICK v \in versions : q \in RowsOf(v)
    BY <1>1 DEF HandedInv, StoreInv, StoresAreAtomic
  <2>4. v.listing = Listed(s) /\ v.version = today
    BY <2>1, <2>2, <2>3 DEF RowsOf
  <2> DEFINE there == {x \in prices' : x.listing = v.listing /\ x.version = v.version}
  <2>5. there = RowsOf(v) \/ there = {}
    BY <1>1 DEF StoresAreAtomic
  <2>6. q \in there
    BY <2>1, <2>2, <2>4
  <2>7. there = RowsOf(v)
    BY <2>5, <2>6
  <2>8. \A x \in prices' : x.listing = Listed(s) => x \in RowsOf(v)
    BY <2>1, <2>4, <2>7
  <2>9. RowsOf(v) \subseteq prices'
    BY <2>7
  <2> HIDE DEF there
  <2>10. \A d : d \in BarsIn(prices', s) <=> d \in v.dates
    <3>1. ASSUME NEW d \in BarsIn(prices', s) PROVE d \in v.dates
      <4>1. PICK x \in prices' : x.listing = Listed(s) /\ x.date = d
        BY <3>1, BarsOf
      <4> QED BY <2>8, <4>1 DEF RowsOf
    <3>2. ASSUME NEW d \in v.dates PROVE d \in BarsIn(prices', s)
      <4> DEFINE x == [listing |-> v.listing, date |-> d, version |-> v.version]
      <4>1. x \in RowsOf(v) /\ x.listing = v.listing /\ x.date = d
        BY DEF RowsOf
      <4> HIDE DEF x
      <4> QED BY <2>4, <2>9, <4>1, BarsOf
    <3> QED BY <3>1, <3>2
  <2>11. Stored(s)' = BarsIn(prices', s) /\ v \in Request
    BY StoredBars DEF HandedInv, StoreInv, StoreTypeOK
  <2>12. v.dates \in SUBSET Days
    BY <2>11 DEF Request
  <2>13. BarsIn(prices', s) = v.dates
    BY <2>10, <2>12
  <2> QED BY <2>4, <2>11, <2>13
<1> QED BY <1>2, <1>3

\* What is stored of s changes by the commit of a client that persists s, or
\* is deleted.
LEMMA StoredSteps ==
  ASSUME HandedInv, DailyInv, [PipelineNext]_pipelineVars, NEW s \in Symbols
  PROVE  \/ Stored(s)' = Stored(s)
         \/ Stored(s)' = {}
         \/ \E v \in versions : /\ v.listing = Listed(s) /\ v.version = today
                                /\ Stored(s)' = v.dates
         \/ \E c \in Clients : /\ Committed(c) /\ run[c] = "persist" /\ s = Head(todo[c])
                               /\ Stored(s)' = Stored(s) \cup req[c].dates
<1>1. CASE UNCHANGED prices
  BY <1>1 DEF Stored
<1>2. StoresAreAtomic'
  BY StoreUnderPipeline DEF StoreInv
<1>3. ASSUME NEW c \in Clients, Deleted(c)
      PROVE  \/ Stored(s)' = Stored(s)
             \/ Stored(s)' = {}
             \/ \E v \in versions : /\ v.listing = Listed(s) /\ v.version = today
                                    /\ Stored(s)' = v.dates
  BY <1>2, <1>3, DeleteStores
<1>4. ASSUME NEW c \in Clients, Committed(c), run[c] = "persist"
      PROVE  \/ Stored(s)' = Stored(s)
             \/ s = Head(todo[c]) /\ Stored(s)' = Stored(s) \cup req[c].dates
  BY <1>4, CommitStores
<1> QED BY <1>1, <1>3, <1>4, TablesSteps

\* A commit leaves recent bars.
LEMMA CommitIsRecent ==
  ASSUME HandedInv, NEW c \in Clients, InWindow(c), run[c] = "persist", Committed(c),
         today' = today, NEW s, s = Head(todo[c])
  PROVE  Recent(s)'
<1>1. PICK n \in Spans : \A d \in req[c].dates : today <= d + n
  BY WindowFacts DEF AllRecent
<1>2. PICK d \in req[c].dates : TRUE
  BY WindowFacts
<1>3. req[c].listing = Listed(s)
  BY WindowFacts
<1>4. \A e \in req[c].dates :
        [listing |-> Listed(s), date |-> e, version |-> req[c].version] \in prices'
  BY <1>3 DEF Committed, RowsOf
<1>5. \A e \in req[c].dates : \E p \in prices' : p.listing = Listed(s) /\ p.date = e
  BY <1>4
<1>6. d \in Stored(s)'
  <2>1. d \in BarsIn(prices', s)
    BY <1>2, <1>5, BarsOf
  <2> QED BY <2>1, StoredBars
<1> QED BY <1>1, <1>6 DEF Recent

\* While the day lasts, what was recent stays recent, and what lags no further.
LEMMA RecentStays ==
  ASSUME HandedInv, DailyInv, [PipelineNext]_pipelineVars, today' = today, NEW s \in Symbols
  PROVE  /\ Recent(s) => Recent(s)'
         /\ Lagging(s)'
<1>1. Lagging(s)
  BY DEF DailyInv
<1>2. CASE Stored(s)' = Stored(s)
  BY <1>1, <1>2 DEF Recent, Lagging
<1>3. CASE Stored(s)' = {}
  BY <1>3 DEF Recent, Lagging
<1>4. ASSUME Recent(s)' PROVE Lagging(s)'
  <2>1. \A d \in Stored(s)' : d \in Nat
    <3>1. \A p \in prices' : p.date \in Nat
      BY StoreUnderPipeline, DaysFacts DEF StoreInv, StoreTypeOK, Row
    <3>2. Stored(s)' = BarsIn(prices', s)
      BY StoredBars
    <3> QED BY <3>1, <3>2, BarsOf
  <2>2. \A d \in Stored(s)', n \in Spans : today <= d + n => today <= d + n + 1
    BY <2>1, PipelineAssumption, DaysFacts DEF HandedInv, PipelineTypeOK
  <2> QED BY <1>4, <2>2 DEF Recent, Lagging
<1>5. ASSUME NEW c \in Clients, Committed(c), run[c] = "persist", s = Head(todo[c])
      PROVE  Recent(s)'
  BY <1>5, CommitIsRecent DEF DailyInv
<1>6. ASSUME NEW v \in versions, v.listing = Listed(s), v.version = today, Stored(s)' = v.dates
      PROVE  Recent(s)'
  BY <1>6 DEF DailyInv, AllRecent, Recent
<1> QED BY <1>2, <1>3, <1>4, <1>5, <1>6, StoredSteps

\* The next day: what was recent lags by one day.
LEMMA TickLags ==
  ASSUME HandedInv, DailyInv, EveryDay, Tick, NEW s \in Symbols
  PROVE  Lagging(s)'
<1>1. Recent(s)
  BY DEF Tick, DailyInv
<1>2. Stored(s)' = Stored(s) /\ today' = today + 1
  BY DEF Tick, Stored, storeVars, tables
<1>3. \A d \in Stored(s), n \in Spans : today <= d + n => today + 1 <= d + n + 1
  BY StoredFacts, PipelineAssumption, DaysFacts DEF HandedInv, PipelineTypeOK
<1> QED BY <1>1, <1>2, <1>3 DEF Recent, Lagging

\* A key that is taken belongs to recent bars.
LEMMA TakenIsRecent ==
  ASSUME HandedInv, DailyInv, NEW c \in Clients, run[c] = "persist", Taken(req[c])
  PROVE  Recent(Head(todo[c]))
<1> DEFINE s == Head(todo[c])
<1>1. /\ req[c].listing = Listed(s) /\ s \in Symbols /\ req[c].version = today
      /\ \E n \in Spans : \A d \in req[c].dates : today <= d + n
  BY WindowFacts DEF DailyInv, AllRecent
<1> HIDE DEF s
<1>2. ASSUME NEW p \in prices, p.listing = req[c].listing, p.date \in req[c].dates
      PROVE  Recent(s)
  <2>1. p.date \in Stored(s)
    BY <1>1, <1>2, BarsOf, StoredBars
  <2> QED BY <1>1, <1>2, <2>1 DEF Recent
<1>3. ASSUME NEW v \in versions, v.listing = req[c].listing, v.version = req[c].version
      PROVE  Recent(s)
  BY <1>1, <1>3 DEF DailyInv
<1> QED BY <1>2, <1>3 DEF Taken, s

\* The window of a run and the symbol at hand say what may be handed over.
LEMMA PayloadsStay ==
  ASSUME NEW o \in Clients, to'[o] = to[o], from'[o] = from[o], todo'[o] = todo[o],
         NEW D, BarsOfPayload(o, D)
  PROVE  BarsOfPayload(o, D)'
<1>1. Payloads(o)' = Payloads(o)
  BY DEF Payloads, Window
<1>2. \A payload : Converted(o, payload)' = Converted(o, payload)
  BY DEF Converted
<1> QED BY <1>1, <1>2 DEF BarsOfPayload

\* A step of another client during the day.
LEMMA WindowStays ==
  ASSUME HandedInv, DailyInv, [PipelineNext]_pipelineVars, today' = today, NEW o \in Clients,
         to'[o] = to[o], from'[o] = from[o], run'[o] = run[o], todo'[o] = todo[o],
         req'[o] = req[o], stage'[o] = stage[o], reply'[o] = reply[o]
  PROVE  InWindow(o)'
<1>1. InWindow(o)
  BY DEF DailyInv
<1>2. Running(o)' <=> Running(o)
  BY DEF Running
<1>3. CASE run[o] = "persist"
  <2>1. PICK s \in Symbols : s = Head(todo[o])
    BY <1>1, <1>3, WindowFacts
  <2>2. Recent(s) => Recent(s)'
    BY RecentStays
  <2>3. s = Head(todo'[o])
    BY <2>1
  <2>4. BarsOfPayload(o, req[o].dates)'
    <3>1. PICK D : D = req[o].dates
      OBVIOUS
    <3>2. BarsOfPayload(o, D)'
      BY <1>1, <1>3, <3>1, PayloadsStay DEF InWindow
    <3>3. D = req'[o].dates
      BY <3>1
    <3> QED BY <3>2, <3>3 DEF BarsOfPayload
  <2> QED BY <1>1, <1>2, <1>3, <2>1, <2>2, <2>3, <2>4 DEF InWindow, Recent
<1>4. CASE run[o] # "persist"
  BY <1>1, <1>2, <1>4 DEF InWindow
<1> QED BY <1>3, <1>4

\* The answer of store() to a client: without an error, it leaves recent bars.
LEMMA AnswerIsRecent ==
  ASSUME HandedInv, DailyInv, [PipelineNext]_pipelineVars, NEW c \in Clients,
         DatabaseStep(c), run[c] = "persist", stage'[c] = "idle", reply'[c] # "error",
         NEW s, s = Head(todo[c])
  PROVE  Recent(s)'
<1>1. stage[c] \notin {"idle", "erasing", "erased"} /\ today' = today
  BY DatabaseFrame DEF DatabaseStep, HandedInv, Handed, pipeline
<1>2. InWindow(c) /\ s \in Symbols
  BY WindowFacts DEF DailyInv
<1>3. Recent(s) => Recent(s)'
  BY <1>1, <1>2, RecentStays
<1>4. CASE Commit(c)
  BY <1>1, <1>2, <1>4, CommitIsRecent DEF Commit
<1>5. CASE SymbolRaceLost(c)
  BY <1>2, <1>3, <1>5 DEF SymbolRaceLost, InWindow
<1>6. CASE FlushDuplicate(c)
  BY <1>3, <1>6, TakenIsRecent DEF FlushDuplicate, Refused, Taken
<1>7. CASE InsertSymbol(c) \/ FlushRows(c)
  BY <1>7 DEF InsertSymbol, FlushRows, HandedInv, StoreInv, StoreTypeOK
<1>8. CASE CommitUnacknowledged(c) \/ Abort(c)
  BY <1>8 DEF CommitUnacknowledged, Abort, Answer, HandedInv, StoreInv, StoreTypeOK
<1>9. CASE EraseRows(c) \/ CommitDelete(c)
  BY <1>1, <1>9 DEF EraseRows, CommitDelete, Deleted, Erased
<1> QED BY <1>4, <1>5, <1>6, <1>7, <1>8, <1>9 DEF DatabaseStep, StoreStep, StoreFault

\* Every step keeps the windows.
LEMMA WindowKept ==
  ASSUME EveryDay, HandedInv, DailyInv, [PipelineNext]_pipelineVars, NEW o \in Clients
  PROVE  InWindow(o)'
<1>1. today \in Nat /\ InWindow(o)
  BY DaysFacts DEF HandedInv, PipelineTypeOK, DailyInv
<1>2. PipelineTypeOK /\ StoreInv
  BY DEF HandedInv
<1>3. CASE UNCHANGED pipelineVars
  BY <1>3, WindowStays DEF pipelineVars, pipeline, storeVars, client
<1>4. CASE Tick
  <2>1. ~Running(o) /\ run'[o] = run[o]
    BY <1>4 DEF Tick
  <2> QED BY <2>1 DEF InWindow, Running
<1>5. ASSUME NEW c \in Clients, NEW os \in Orders, NEW n \in Spans, RunMany(c, os, n)
      PROVE  InWindow(o)'
  <2>1. CASE o = c
    <3>1. run'[c] = "symbol" /\ to'[c] = today /\ from'[c] = today - n /\ today' = today
      BY <1>2, <1>5 DEF RunMany, PipelineTypeOK
    <3> QED BY <2>1, <3>1 DEF InWindow
  <2>2. CASE o # c
    BY <1>2, <1>5, <2>2, WindowStays DEF RunMany, storeVars, client, PipelineTypeOK
  <2> QED BY <2>1, <2>2
<1>6. ASSUME NEW c \in Clients, Early(c)
      PROVE  InWindow(o)'
  <2>1. /\ run'[c] = "symbol" /\ run[c] = "symbol"
        /\ \A x \in Clients \ {c} : run'[x] = run[x] /\ todo'[x] = todo[x]
    BY <1>2, <1>6, EarlyReport, ReportEffect
  <2>2. UNCHANGED <<stage, req, reply, today, from, to>>
    BY <1>6, EarlyReport DEF storeVars, client
  <2>3. CASE o = c
    BY <1>1, <2>1, <2>2, <2>3 DEF InWindow, Running
  <2>4. CASE o # c
    BY <2>1, <2>2, <2>4, WindowStays
  <2> QED BY <2>3, <2>4
<1>7. ASSUME NEW c \in Clients, NEW payload, NEW bars, Handing(c, payload, bars)
      PROVE  InWindow(o)'
  <2>1. PICK r \in Requests :
           /\ BeginStore(c, r)
           /\ r.listing = Listed(Head(todo[c])) /\ r.dates = bars /\ r.version = today
    BY <1>7, PersistIsRequest
  <2>2. /\ UNCHANGED <<today, todo, from, to>>
        /\ run[c] = "symbol" /\ run'[c] = "persist"
        /\ \A x \in Clients \ {c} : run'[x] = run[x]
        /\ payload \in Payloads(c) /\ bars \in Converted(c, payload) \ {{}}
    BY <1>2, <1>7, HandingEffect
  <2>3. /\ req' = [req EXCEPT ![c] = r]
        /\ stage' = [stage EXCEPT ![c] = IF r.listing \in symbols THEN "found" ELSE "missing"]
        /\ reply' = [reply EXCEPT ![c] = "none"]
        /\ UNCHANGED prices
    BY <2>1 DEF BeginStore, tables
  <2>4. CASE o = c
    <3>1. PICK s : s = Head(todo[c])
      OBVIOUS
    <3>2. /\ req'[c].version = today /\ req'[c].dates = bars
          /\ stage'[c] # "idle"
          /\ stage'[c] = "missing" => Listed(s) \notin symbols
      BY <1>2, <2>1, <2>3, <3>1 DEF StoreInv, StoreTypeOK
    <3>3. Listed(s) \notin symbols => Recent(s)'
      <4>1. Listed(s) \notin symbols => Stored(s) = {}
        BY StoredFacts
      <4>2. Stored(s)' = Stored(s)
        BY <2>3 DEF Stored
      <4> QED BY <4>1, <4>2 DEF Recent
    <3>4. s = Head(todo'[c])
      BY <2>2, <3>1
    <3>5. to'[c] = today' /\ \E n \in Spans : from'[c] = today' - n
      BY <1>1, <2>2, <2>4 DEF InWindow, Running
    <3>6. BarsOfPayload(c, req[c].dates)'
      <4>1. BarsOfPayload(c, bars)
        BY <2>2 DEF BarsOfPayload
      <4>2. BarsOfPayload(c, bars)'
        BY <2>2, <4>1, PayloadsStay
      <4> QED BY <3>2, <4>2 DEF BarsOfPayload
    <3>7. Recent(Head(todo[c]))' <=> Recent(s)'
      BY <3>4 DEF Recent, Stored
    <3> QED BY <2>2, <2>4, <3>2, <3>3, <3>5, <3>6, <3>7 DEF InWindow
  <2>5. CASE o # c
    BY <1>2, <2>2, <2>3, <2>5, WindowStays DEF StoreInv, StoreTypeOK
  <2> QED BY <2>4, <2>5
<1>8. ASSUME NEW c \in Clients, Persisted(c)
      PROVE  InWindow(o)'
  <2>1. /\ run'[c] = "symbol"
        /\ \A x \in Clients \ {c} : run'[x] = run[x] /\ todo'[x] = todo[x]
    <3>1. PICK ok \in BOOLEAN, n \in Nat, m \in Nat : todo[c] # <<>> /\ Report(c, ok, n, m)
      BY <1>8, PersistedEffect
    <3> QED BY <1>2, <3>1, ReportEffect
  <2>2. UNCHANGED <<stage, req, reply, today, from, to>> /\ run[c] = "persist"
    BY <1>8 DEF Persisted, storeVars, client
  <2>3. CASE o = c
    BY <1>1, <2>1, <2>2, <2>3 DEF InWindow, Running
  <2>4. CASE o # c
    BY <2>1, <2>2, <2>4, WindowStays
  <2> QED BY <2>3, <2>4
<1>9. ASSUME NEW c \in Clients, RunReported(c)
      PROVE  InWindow(o)'
  <2>1. /\ run'[c] \in {"success", "partial", "failed"}
        /\ \A x \in Clients \ {c} : run'[x] = run[x]
        /\ UNCHANGED <<stage, req, reply, today, from, to, todo>>
    BY <1>2, <1>9, RunReportedEffect DEF storeVars, client
  <2>2. CASE o = c
    BY <2>1, <2>2 DEF InWindow, Running
  <2>3. CASE o # c
    BY <2>1, <2>3, WindowStays
  <2> QED BY <2>2, <2>3
<1>10. ASSUME NEW c \in Clients, DatabaseStep(c)
       PROVE  InWindow(o)'
  <2>1. /\ UNCHANGED <<req, today, from, to, todo, run>> /\ stage[c] # "idle"
        /\ \A x \in Clients \ {c} : stage'[x] = stage[x] /\ reply'[x] = reply[x]
        /\ stage'[c] \in {"idle", "ready", "flushed", "erased"}
    BY <1>2, <1>10, DatabaseFrame DEF DatabaseStep, pipeline
  <2>2. CASE o = c /\ run[c] = "persist"
    <3>1. PICK s : s = Head(todo[c])
      OBVIOUS
    <3>2. stage'[c] = "idle" /\ reply'[c] # "error" => Recent(s)'
      BY <1>10, <2>2, <3>1, AnswerIsRecent
    <3>3. BarsOfPayload(c, req[c].dates)'
      <4>1. PICK D : D = req[c].dates
        OBVIOUS
      <4>2. BarsOfPayload(c, D)'
        BY <1>1, <2>1, <2>2, <4>1, PayloadsStay DEF InWindow
      <4> QED BY <2>1, <4>1, <4>2 DEF BarsOfPayload
    <3>4. Recent(Head(todo[c]))' <=> Recent(s)'
      BY <2>1, <3>1 DEF Recent, Stored
    <3>5. /\ to'[c] = today' /\ \E n \in Spans : from'[c] = today' - n
          /\ req'[c].version = today'
      BY <1>1, <2>1, <2>2 DEF InWindow, Running
    <3> QED BY <2>1, <2>2, <3>2, <3>3, <3>4, <3>5 DEF InWindow
  <2>3. CASE o = c /\ run[c] # "persist"
    BY <1>1, <2>1, <2>3 DEF InWindow, Running
  <2>4. CASE o # c
    BY <2>1, <2>4, WindowStays
  <2> QED BY <2>2, <2>3, <2>4
<1>11. ASSUME NEW c \in Clients, Administer(c)
       PROVE  InWindow(o)'
  <2>1. /\ UNCHANGED <<req, today, from, to, todo, run>> /\ ~Running(c)
        /\ \A x \in Clients \ {c} : reply'[x] = reply[x] /\ stage'[x] = stage[x]
    BY <1>2, <1>11 DEF Administer, BeginDelete, pipeline, StoreInv, StoreTypeOK
  <2>2. CASE o = c
    BY <2>1, <2>2 DEF InWindow, Running
  <2>3. CASE o # c
    BY <2>1, <2>3, WindowStays
  <2> QED BY <2>2, <2>3
<1>12. ASSUME NEW c \in Clients, Crash(c)
       PROVE  InWindow(o)'
  <2>1. /\ run'[c] = "idle"
        /\ UNCHANGED <<req, today, from, to>>
        /\ \A x \in Clients \ {c} : /\ stage'[x] = stage[x] /\ run'[x] = run[x]
                                    /\ todo'[x] = todo[x] /\ reply'[x] = reply[x]
    BY <1>2, <1>12 DEF Crash, Answer, StoreInv, StoreTypeOK, PipelineTypeOK
  <2>2. CASE o = c
    BY <2>1, <2>2 DEF InWindow, Running
  <2>3. CASE o # c
    BY <2>1, <2>3, WindowStays
  <2> QED BY <2>2, <2>3
<1> QED BY <1>3, <1>4, <1>5, <1>6, <1>7, <1>8, <1>9, <1>10, <1>11, <1>12, PipelineSteps

\* Either the day ends, with every symbol carried through, or it goes on, and
\* a symbol is carried through by an answer without an error.
LEMMA CoveredSteps ==
  ASSUME HandedInv, [PipelineNext]_pipelineVars
  PROVE  \/ Tick
         \/ today' = today /\ covered' = covered
         \/ /\ today' = today
            /\ \E c \in Clients : /\ run[c] = "persist" /\ stage[c] = "idle"
                                  /\ reply[c] # "error"
                                  /\ covered' = covered \cup {Head(todo[c])}
BY DEF PipelineNext, RunMany, FetchFails, ProcessSymbol, NothingToPersist, ValidationFails,
   Persist, HandOver, Persisted, RunReported, DatabaseStep, Crash, Administer, pipeline,
   pipelineVars

\* The rows a client's DELETE has found change when it begins, when it gets
\* them and when it ends.
LEMMA DoomedSteps ==
  ASSUME HandedInv, [PipelineNext]_pipelineVars, NEW o \in Clients
  PROVE  \/ doomed'[o] = {}
         \/ doomed'[o] = doomed[o]
         \/ doomed'[o] = doomed[o] \cap prices /\ UNCHANGED prices
         \/ /\ UNCHANGED prices
            /\ \E x \in Symbols : doomed'[o] = RowsHeld(HomeListing(x))
<1> USE DEF HandedInv, StoreInv, StoreTypeOK
<1>1. CASE UNCHANGED storeVars
  BY <1>1 DEF storeVars, client
<1>2. CASE UNCHANGED pipelineVars \/ Tick
  BY <1>1, <1>2 DEF Tick, pipelineVars
<1>3. ASSUME NEW c \in Clients, NEW os, NEW n, RunMany(c, os, n)
      PROVE  UNCHANGED storeVars
  BY <1>3 DEF RunMany
<1>4. ASSUME NEW c \in Clients, Early(c) \/ Persisted(c) \/ RunReported(c)
      PROVE  UNCHANGED storeVars
  BY <1>4 DEF Early, FetchFails, ValidationFails, NothingToPersist, Persisted, RunReported
<1>5. ASSUME NEW c \in Clients, NEW a, Answer(c, a)
      PROVE  doomed'[o] = {} \/ doomed'[o] = doomed[o]
  BY <1>5 DEF Answer
<1>6. ASSUME NEW c \in Clients, NEW payload, NEW bars, Handing(c, payload, bars)
      PROVE  UNCHANGED doomed
  BY <1>6 DEF Handing, Persist, HandOver, BeginStore
<1>7. ASSUME NEW c \in Clients, EraseRows(c)
      PROVE  \/ doomed'[o] = doomed[o]
             \/ doomed'[o] = doomed[o] \cap prices /\ UNCHANGED prices
  BY <1>7 DEF EraseRows, tables
<1>8. ASSUME NEW c \in Clients, DatabaseStep(c)
      PROVE  \/ doomed'[o] = {}
             \/ doomed'[o] = doomed[o]
             \/ doomed'[o] = doomed[o] \cap prices /\ UNCHANGED prices
  BY <1>5, <1>7, <1>8 DEF DatabaseStep, StoreStep, StoreFault, InsertSymbol, SymbolRaceLost,
     FlushRows, FlushDuplicate, Commit, CommitDelete, CommitUnacknowledged, Abort
<1>9. ASSUME NEW c \in Clients, NEW x \in Symbols, BeginDelete(c, x)
      PROVE  \/ doomed'[o] = doomed[o]
             \/ UNCHANGED prices /\ doomed'[o] = RowsHeld(HomeListing(x))
  BY <1>9 DEF BeginDelete, tables
<1> QED BY <1>1, <1>2, <1>3, <1>4, <1>5, <1>6, <1>8, <1>9, PipelineSteps DEF Crash, Administer

\* While the day lasts, a delete() leaves only rows of today.
LEMMA DoomedStays ==
  ASSUME HandedInv, DailyInv, [PipelineNext]_pipelineVars, today' = today, NEW o \in Clients
  PROVE  DoomedByToday(o)'
<1>1. DoomedByToday(o)
  BY DEF DailyInv
<1>2. \A q \in prices' : q \in prices \/ q.version = today
  <2>1. ASSUME NEW c \in Clients, Committed(c), run[c] = "persist", NEW q \in RowsOf(req[c])
        PROVE  q.version = today
    <3>1. req[c].version = today
      BY <2>1 DEF DailyInv, InWindow
    <3> QED BY <2>1, <3>1 DEF RowsOf
  <2> QED BY <2>1, TablesSteps DEF Committed, Deleted
<1>3. CASE doomed'[o] = {}
  BY <1>3 DEF DoomedByToday
<1>4. CASE doomed'[o] = doomed[o]
  BY <1>1, <1>2, <1>4 DEF DoomedByToday
<1>5. CASE doomed'[o] = doomed[o] \cap prices /\ UNCHANGED prices
  BY <1>1, <1>5 DEF DoomedByToday
<1>6. ASSUME NEW x \in Symbols, UNCHANGED prices, doomed'[o] = RowsHeld(HomeListing(x))
      PROVE  DoomedByToday(o)'
  BY <1>6 DEF DoomedByToday, RowsHeld
<1> QED BY <1>3, <1>4, <1>5, <1>6, DoomedSteps

\* Every step keeps the daily invariant.
LEMMA DailyNext ==
  EveryDay /\ HandedInv /\ DailyInv /\ [PipelineNext]_pipelineVars => DailyInv'
<1> SUFFICES ASSUME EveryDay, HandedInv, DailyInv, [PipelineNext]_pipelineVars
             PROVE  DailyInv'
  OBVIOUS
<1>1. (\A c \in Clients : InWindow(c))'
  BY WindowKept
<1>2. CASE Tick
  <2>1. (\A s \in Symbols : Lagging(s))'
    BY <1>2, TickLags
  <2>2. (\A s \in covered : Recent(s))'
    BY <1>2 DEF Tick
  <2>3. \A v \in versions' : v.version # today'
    <3>1. versions' = versions /\ today' = today + 1 /\ today \in Nat
      BY <1>2, DaysFacts DEF Tick, storeVars, tables, HandedInv, PipelineTypeOK
    <3>2. \A v \in versions : v.version \in Nat /\ v.version <= today
      BY DaysFacts DEF HandedInv, StoreInv, StoreTypeOK, Request, VersionsFollowBars
    <3> QED BY <3>1, <3>2
  <2>4. (\A c \in Clients : DoomedByToday(c))'
    <3>1. \A c \in Clients : stage[c] = "idle"
      BY <1>2 DEF Tick
    <3>2. \A c \in Clients : doomed[c] = {}
      BY <3>1 DEF HandedInv, StoreInv, DoomedInv
    <3>3. doomed' = doomed
      BY <1>2 DEF Tick, storeVars, client
    <3> QED BY <3>2, <3>3 DEF DoomedByToday
  <2> QED BY <1>1, <2>1, <2>2, <2>3, <2>4 DEF DailyInv
<1>3. CASE today' = today
  <2>1. (\A s \in Symbols : Lagging(s))'
    BY <1>3, RecentStays
  <2>2. \A s \in Symbols : Recent(s) => Recent(s)'
    BY <1>3, RecentStays
  <2>3. (\A s \in covered : Recent(s))'
    <3>1. covered \subseteq Symbols /\ \A s \in covered : Recent(s)
      BY DEF DailyInv, HandedInv, PipelineTypeOK
    <3>2. ASSUME NEW c \in Clients, run[c] = "persist", stage[c] = "idle",
                 reply[c] # "error", covered' = covered \cup {Head(todo[c])}
          PROVE  (\A s \in covered : Recent(s))'
      <4>1. InWindow(c) /\ Head(todo[c]) \in Symbols
        BY <3>2, WindowFacts DEF DailyInv
      <4>2. Recent(Head(todo[c]))
        BY <3>2, <4>1 DEF InWindow
      <4>3. \A s \in covered' : Recent(s)'
        BY <2>2, <3>1, <3>2, <4>1, <4>2
      <4> QED BY <4>3
    <3>3. CASE covered' = covered
      BY <2>2, <3>1, <3>3
    <3>4. CASE Tick
      BY <3>4 DEF Tick
    <3> QED BY <3>2, <3>3, <3>4, CoveredSteps
  <2>4. ASSUME NEW s \in Symbols, NEW v \in versions', v.listing = Listed(s), v.version = today'
        PROVE  Recent(s)' /\ AllRecent(v.dates)'
    <3>1. CASE v \in versions
      BY <1>3, <2>2, <2>4, <3>1 DEF DailyInv, AllRecent
    <3>2. CASE v \notin versions
      <4>1. PICK c \in Clients : Committed(c) /\ run[c] = "persist"
        BY <3>2, TablesSteps DEF Deleted
      <4>2. v = req[c] /\ InWindow(c)
        BY <3>2, <4>1 DEF Committed, DailyInv
      <4>3. s = Head(todo[c])
        <5>1. Listed(s) = Listed(Head(todo[c]))
          BY <2>4, <4>1, <4>2, WindowFacts
        <5> QED BY <5>1 DEF Listed
      <4>4. AllRecent(v.dates)'
        BY <1>3, <4>1, <4>2, WindowFacts DEF AllRecent
      <4> QED BY <1>3, <4>1, <4>2, <4>3, <4>4, CommitIsRecent
    <3> QED BY <3>1, <3>2
  <2>5. (\A c \in Clients : DoomedByToday(c))'
    BY <1>3, DoomedStays
  <2> QED BY <1>1, <2>1, <2>3, <2>4, <2>5 DEF DailyInv
<1> QED BY <1>2, <1>3, CoveredSteps

\* Nothing is stored when the first day begins.
LEMMA DailyInitially == PipelineInit => DailyInv
<1> SUFFICES ASSUME PipelineInit PROVE DailyInv
  OBVIOUS
<1>1. /\ prices = {} /\ versions = {} /\ covered = {}
      /\ run = [c \in Clients |-> "idle"] /\ doomed = [c \in Clients |-> {}]
  BY DEF PipelineInit, StoreInit
<1>2. \A s : Stored(s) = {}
  BY <1>1 DEF Stored
<1>3. \A c \in Clients : InWindow(c) /\ DoomedByToday(c)
  BY <1>1 DEF InWindow, Running, DoomedByToday
<1> QED BY <1>1, <1>2, <1>3 DEF DailyInv, Lagging

\* The last stored day is a stored day, and the first one too.
LEMMA FirstAndLast ==
  ASSUME HandedInv, NEW s, Stored(s) # {}
  PROVE  /\ FirstOf(Stored(s)) \in Stored(s)
         /\ LatestOf(Stored(s)) \in Stored(s)
         /\ \A e \in Stored(s) : e <= LatestOf(Stored(s))
<1> DEFINE S == Stored(s)
<1>1. S \subseteq Nat /\ today \in Nat /\ \A d \in S : d <= today
  BY StoredFacts, DaysFacts DEF HandedInv, PipelineTypeOK
<1> HIDE DEF S
<1>2. S # {}
  BY DEF S
<1>3. \E d \in S : \A e \in S : d <= e
  BY <1>1, <1>2, LeastElement
<1>4. \E d \in S : \A e \in S : e <= d
  <2> DEFINE T == {k \in Nat : today - k \in S}
  <2>1. PICK d \in S : TRUE
    BY <1>2
  <2>2. today - d \in T
    BY <1>1, <2>1
  <2>3. PICK k \in T : \A m \in T : k <= m
    BY <2>2, LeastElement
  <2>4. today - k \in S
    BY <2>3
  <2>5. ASSUME NEW e \in S PROVE e <= today - k
    <3>1. today - e \in T
      BY <1>1
    <3>2. k <= today - e /\ k \in Nat /\ e \in Nat
      BY <1>1, <2>3, <3>1
    <3> QED BY <1>1, <3>2
  <2> HIDE DEF T
  <2> QED BY <2>4, <2>5
<1>5. FirstOf(S) \in S
  BY <1>3 DEF FirstOf
<1>6. LatestOf(S) \in S /\ \A e \in S : e <= LatestOf(S)
  BY <1>4 DEF LatestOf
<1> QED BY <1>5, <1>6 DEF S

\* With a run on every day, whatever fails, crashes or is late, and however
\* many clients run, delete and store, what is stored of a symbol is never
\* further behind than the longest window and a day.
THEOREM PipelineLag == ASSUME EveryDay PROVE PipelineSpec => []LagIsBounded
<1>1. HandedInv /\ DailyInv => LagIsBounded
  <2> SUFFICES ASSUME HandedInv, DailyInv, NEW s \in Symbols, Stored(s) # {}
               PROVE  \E n \in Spans : today <= LatestOf(Stored(s)) + n + 1
    BY DEF LagIsBounded
  <2>1. PICK d \in Stored(s), n \in Spans : today <= d + n + 1
    BY DEF DailyInv, Lagging
  <2>2. d <= LatestOf(Stored(s)) /\ LatestOf(Stored(s)) \in Stored(s)
    BY FirstAndLast
  <2>3. d \in Nat /\ n \in Nat /\ LatestOf(Stored(s)) \in Nat /\ today \in Nat
    BY <2>2, StoredFacts, PipelineAssumption, DaysFacts DEF HandedInv, PipelineTypeOK
  <2>4. today <= LatestOf(Stored(s)) + n + 1
    BY <2>1, <2>2, <2>3
  <2> QED BY <2>4
<1>2. EveryDay
  OBVIOUS
<1> QED BY <1>1, <1>2, HandedInitially, HandedNext, DailyInitially, DailyNext, PTL
        DEF PipelineSpec

\* No trading day between two days of S is missing from S, but days whose
\* record of s may be skipped.
Convex(s, S) ==
  \A a, b \in S : \A d \in TradingDays :
    a <= d /\ d <= b => d \in S \/ [symbol |-> s, day |-> d] \in Malformed

\* The bars handed over: all of the window before today, but skipped records,
\* and nothing outside the window.
LEMMA HandedBars ==
  ASSUME HandedInv, DailyInv, NEW c \in Clients, run[c] = "persist",
         NEW n \in Spans, from[c] = today - n
  PROVE  /\ \A d \in req[c].dates : d \in TradingDays /\ today - n <= d /\ d <= today
         /\ \A d \in TradingDays : today - n <= d /\ d < today =>
              d \in req[c].dates \/ [symbol |-> Head(todo[c]), day |-> d] \in Malformed
<1>1. to[c] = today /\ BarsOfPayload(c, req[c].dates)
  BY DEF DailyInv, InWindow, Running
<1>2. PICK payload \in Payloads(c) : req[c].dates \in Converted(c, payload) \ {{}}
  BY <1>1 DEF BarsOfPayload
<1>3. today \in Nat /\ TradingDays \subseteq Nat
  BY DaysFacts DEF HandedInv, PipelineTypeOK, TradingDays
<1>4. \A d \in req[c].dates : d \in TradingDays /\ today - n <= d /\ d <= today
  BY <1>1, <1>2, ConvertedFacts
<1>5. payload = Window(c) \/ payload = Window(c) \ {today}
  <2>1. payload # {}
    BY <1>2 DEF Converted
  <2> QED BY <1>1, <2>1 DEF Payloads
<1>6. \A d \in payload : d \in req[c].dates \/ [symbol |-> Head(todo[c]), day |-> d] \in Malformed
  BY <1>2, ConvertedFacts
<1>7. \A d \in TradingDays : today - n <= d /\ d < today => d \in payload
  <2> SUFFICES ASSUME NEW d \in TradingDays, today - n <= d, d < today PROVE d \in payload
    OBVIOUS
  <2>1. d <= to[c] /\ d # today
    BY <1>1, <1>3
  <2> QED BY <1>5, <2>1 DEF Window
<1> QED BY <1>4, <1>6, <1>7

\* They have no other holes,
LEMMA HandedIsConvex ==
  ASSUME HandedInv, DailyInv, NEW c \in Clients, run[c] = "persist", NEW s, s = Head(todo[c])
  PROVE  Convex(s, req[c].dates)
<1>1. PICK n \in Spans : from[c] = today - n
  BY DEF DailyInv, InWindow, Running
<1> DEFINE D == req[c].dates
<1>2. /\ \A d \in D : d \in TradingDays /\ today - n <= d /\ d <= today
      /\ \A d \in TradingDays : today - n <= d /\ d < today =>
           d \in D \/ [symbol |-> s, day |-> d] \in Malformed
  BY <1>1, HandedBars
<1>3. today \in Nat /\ n \in Nat /\ TradingDays \subseteq Nat
  BY PipelineAssumption, DaysFacts DEF HandedInv, PipelineTypeOK, TradingDays
<1> HIDE DEF D
<1>4. ASSUME NEW a \in D, NEW b \in D, NEW d \in TradingDays, a <= d, d <= b
      PROVE  d \in D \/ [symbol |-> s, day |-> d] \in Malformed
  <2>1. a \in Nat /\ b \in Nat /\ d \in Nat
    BY <1>2, <1>3
  <2>2. today - n <= a /\ b <= today
    BY <1>2
  <2>3. CASE d = today
    <3>1. d = b
      BY <1>3, <1>4, <2>1, <2>2, <2>3
    <3> QED BY <1>4, <3>1
  <2>4. CASE d # today
    <3>1. today - n <= d /\ d < today
      BY <1>3, <1>4, <2>1, <2>2, <2>4
    <3> QED BY <1>2, <3>1
  <2> QED BY <2>3, <2>4
<1> QED BY <1>4 DEF Convex, D

\* and close up with what is stored: that reaches to the day before the
\* window, and today's bar is not among it.
LEMMA WindowsCloseUp ==
  ASSUME HandedInv, DailyInv, \A m, n \in Spans : m = n, NEW c \in Clients,
         run[c] = "persist", Flushed(c), NEW s \in Symbols, s = Head(todo[c]),
         Convex(s, Stored(s))
  PROVE  Convex(s, Stored(s) \cup req[c].dates)
<1> DEFINE S == Stored(s)
           D == req[c].dates
           Skipped(d) == [symbol |-> s, day |-> d] \in Malformed
<1>1. req[c].version = today /\ req[c].listing = Listed(s)
  BY WindowFacts DEF DailyInv
<1>2. PICK n \in Spans : from[c] = today - n
  BY DEF DailyInv, InWindow, Running
<1>3. today \in Nat /\ n \in Nat /\ TradingDays \subseteq Nat
  BY PipelineAssumption, DaysFacts DEF HandedInv, PipelineTypeOK, TradingDays
<1>4. /\ \A d \in TradingDays : today - n <= d /\ d < today => d \in D \/ Skipped(d)
      /\ \A d \in D : d \in TradingDays /\ today - n <= d /\ d <= today
  BY <1>2, HandedBars
<1>5. S \subseteq TradingDays /\ \A d \in S : d <= today
  BY StoredFacts
<1>6. ~Taken(req[c])
  BY DEF HandedInv, StoreInv, FlushedRowsAreSafe
<1>7. today \notin S
  BY <1>1, <1>6, StoredFacts DEF Taken
<1>8. S # {} => \E d \in S : today - n - 1 <= d
  <2>1. S # {} => \E d \in S, m \in Spans : today <= d + m + 1
    BY DEF DailyInv, Lagging
  <2>2. S # {} => \E d \in S : today <= d + n + 1
    BY <2>1
  <2> HIDE DEF S
  <2> QED BY <1>3, <1>5, <2>2
<1>9. \A a, b \in S : \A d \in TradingDays : a <= d /\ d <= b => d \in S \/ Skipped(d)
  BY DEF Convex
<1> HIDE DEF S, D, Skipped
<1>10. ASSUME NEW a \in S \cup D, NEW b \in S \cup D, NEW d \in TradingDays, a <= d, d <= b
       PROVE  d \in S \cup D \/ Skipped(d)
  <2>1. a \in Nat /\ b \in Nat /\ d \in Nat
    BY <1>3, <1>4, <1>5
  <2>2. CASE b \in S
    <3>1. d < today
      BY <1>3, <1>5, <1>7, <1>10, <2>1, <2>2
    <3>2. CASE a \in S
      BY <1>9, <1>10, <2>2, <3>2
    <3>3. CASE a \in D
      BY <1>3, <1>4, <1>10, <2>1, <3>1, <3>3
    <3> QED BY <3>2, <3>3
  <2>3. CASE b \in D
    <3>1. CASE today - n <= d
      <4>1. d <= today
        BY <1>3, <1>4, <1>10, <2>1, <2>3
      <4>2. d = today => d = b
        BY <1>3, <1>4, <1>10, <2>1, <2>3
      <4> QED BY <1>3, <1>4, <2>1, <2>3, <3>1, <4>1, <4>2
    <3>2. CASE ~(today - n <= d)
      <4>1. a \in S
        BY <1>3, <1>4, <1>10, <2>1, <3>2
      <4>2. PICK e \in S : today - n - 1 <= e
        BY <1>8, <4>1
      <4>3. d <= e
        BY <1>3, <1>5, <2>1, <3>2, <4>2
      <4> QED BY <1>9, <1>10, <4>1, <4>2, <4>3
    <3> QED BY <3>1, <3>2
  <2> QED BY <2>2, <2>3
<1> QED BY <1>10 DEF Convex, S, D, Skipped

\* What is stored of each symbol, and what each version of it was made of.
GapInv ==
  \A s \in Symbols :
    /\ Convex(s, Stored(s))
    /\ \A v \in versions : v.listing = Listed(s) => Convex(s, v.dates)

\* Every step keeps that: a commit closes up, and a delete() leaves nothing
\* or one version.
LEMMA GapNext ==
  ASSUME HandedInv, DailyInv, GapInv, [PipelineNext]_pipelineVars, \A m, n \in Spans : m = n
  PROVE  GapInv'
<1>1. ASSUME NEW c \in Clients, Committed(c), run[c] = "persist", NEW s \in Symbols,
             s = Head(todo[c])
      PROVE  Convex(s, Stored(s) \cup req[c].dates) /\ Convex(s, req[c].dates)
  BY <1>1, WindowsCloseUp, HandedIsConvex DEF Committed, GapInv
<1>2. \A s : Convex(s, {})
  BY DEF Convex
<1>3. ASSUME NEW s \in Symbols
      PROVE  Convex(s, Stored(s)')
  <2>1. CASE Stored(s)' = Stored(s) \/ Stored(s)' = {}
    BY <1>2, <2>1 DEF GapInv
  <2>2. ASSUME NEW v \in versions, v.listing = Listed(s), Stored(s)' = v.dates
        PROVE  Convex(s, Stored(s)')
    BY <2>2 DEF GapInv
  <2>3. ASSUME NEW c \in Clients, Committed(c), run[c] = "persist", s = Head(todo[c]),
               Stored(s)' = Stored(s) \cup req[c].dates
        PROVE  Convex(s, Stored(s)')
    BY <1>1, <2>3
  <2> QED BY <2>1, <2>2, <2>3, StoredSteps
<1>4. ASSUME NEW s \in Symbols, NEW v \in versions', v.listing = Listed(s)
      PROVE  Convex(s, v.dates)
  <2>1. CASE v \in versions
    BY <1>4, <2>1 DEF GapInv
  <2>2. CASE v \notin versions
    <3>1. PICK c \in Clients : Committed(c) /\ run[c] = "persist"
      BY <2>2, TablesSteps DEF Deleted
    <3>2. v = req[c]
      BY <2>2, <3>1 DEF Committed
    <3>3. s = Head(todo[c])
      <4>1. Listed(s) = Listed(Head(todo[c]))
        BY <1>4, <3>1, <3>2, WindowFacts DEF DailyInv
      <4> QED BY <4>1 DEF Listed
    <3> QED BY <1>1, <3>1, <3>2, <3>3
  <2> QED BY <2>1, <2>2
<1> QED BY <1>3, <1>4 DEF GapInv, Convex

\* With a run of one span on every day, the only trading days missing between
\* the first and the last stored day are days whose record may not convert:
\* whatever fails, crashes or is late, and however many clients run, delete
\* and store.
THEOREM PipelineGaps ==
  ASSUME EveryDay, \A m, n \in Spans : m = n
  PROVE  PipelineSpec => []StoredWithoutGaps
<1>1. PipelineInit => GapInv
  BY DEF PipelineInit, StoreInit, Stored, Convex, GapInv
<1>2. HandedInv /\ DailyInv /\ GapInv /\ [PipelineNext]_pipelineVars => GapInv'
  BY GapNext
<1>3. HandedInv /\ GapInv => StoredWithoutGaps
  <2> SUFFICES ASSUME HandedInv, GapInv, NEW s \in Symbols, NEW d \in TradingDays,
                      Stored(s) # {}, FirstOf(Stored(s)) < d, d < LatestOf(Stored(s)),
                      d \notin Stored(s)
               PROVE  [symbol |-> s, day |-> d] \in Malformed
    BY DEF StoredWithoutGaps
  <2>1. FirstOf(Stored(s)) \in Stored(s) /\ LatestOf(Stored(s)) \in Stored(s)
    BY FirstAndLast
  <2>2. FirstOf(Stored(s)) \in Nat /\ LatestOf(Stored(s)) \in Nat /\ d \in Nat
    BY <2>1, StoredFacts, DaysFacts DEF TradingDays
  <2>3. FirstOf(Stored(s)) <= d /\ d <= LatestOf(Stored(s))
    BY <2>2
  <2> QED BY <2>1, <2>3 DEF GapInv, Convex
<1>4. EveryDay
  OBVIOUS
<1> QED BY <1>1, <1>2, <1>3, <1>4, HandedInitially, HandedNext, DailyInitially, DailyNext, PTL
        DEF PipelineSpec

===============================================================================

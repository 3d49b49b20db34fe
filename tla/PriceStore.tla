------------------------------ MODULE PriceStore ------------------------------
(***************************************************************************)
(* backend/storage/postgresql: PostgreSQLRepository over a database shared *)
(* by several clients (processes or threads, each with its own session).   *)
(*                                                                         *)
(* store() is one transaction of four database round trips: look the       *)
(* symbol up, insert it if it is missing, flush the price, version and log *)
(* rows, commit; delete() is one of three: look the symbol up, DELETE its  *)
(* price rows, flush the log row and commit.  Another client may act       *)
(* between any two of them, and any of them may fail.  The database        *)
(* (external) is READ COMMITTED: a statement sees the rows committed when  *)
(* it begins, an insert waits for the uncommitted insert or delete of an   *)
(* equal key and fails when the key is committed, and a DELETE waits for   *)
(* the rows another transaction is deleting and skips those then gone.     *)
(***************************************************************************)
EXTENDS Integers, FiniteSets, Sequences

CONSTANTS
  Clients,   \* sessions in use at the same time
  Symbols,   \* ticker symbols
  Exchanges, \* exchange identifiers
  Home,      \* the exchange retrieve, delete and exists are bound to ("NSE")
  Days,      \* trade dates; also the dates a version string is made of
  Requests,  \* the store requests clients may issue
  MaxLog     \* bound: the log length beyond which no more deletes begin

Listings == [symbol : Symbols, exchange : Exchanges]
HomeListing(s) == [symbol |-> s, exchange |-> Home]

\* What store() is asked to persist: price records of one symbol under a
\* version string, which the callers build from the symbol and a date.
Request == [listing : Listings, dates : SUBSET Days, version : Days]

ASSUME StoreAssumption ==
  /\ Days \subseteq Nat
  /\ Home \in Exchanges
  /\ Requests \subseteq Request /\ Requests # {}
  /\ \A r \in Requests : IsFiniteSet(r.dates)
  /\ MaxLog \in Nat

VARIABLES
  symbols,   \* table symbols: the listings inserted
  prices,    \* table daily_prices, with the version that wrote each row
  versions,  \* table dataset_versions, with the dates each version wrote
  log,       \* table update_logs: status and number of rows
  stage,     \* per client: how far its store() or delete() transaction is
  req,       \* per client: the request of its last store()
  fresh,     \* clients whose transaction holds an uncommitted symbols row
  doomed,    \* per client: the rows its DELETE has seen, or holds deleted
  reply      \* per client: what its last operation ended in

tables == <<symbols, prices, versions, log>>
client == <<stage, req, fresh, doomed, reply>>
storeVars == <<tables, client>>

Row == [listing : Listings, date : Days, version : Days]
Stages == {"idle", "found", "missing", "ready", "flushed", "erasing", "erased"}
Replies == {"none", "stored", "duplicate", "error", "deleted", "nothing",
            "data", "not_found", "attribute_error"}

StoreTypeOK ==
  /\ symbols \subseteq Listings
  /\ prices \subseteq Row
  /\ versions \subseteq Request
  /\ log \in Seq([status : {"success", "deleted"}, count : Nat])
  /\ stage \in [Clients -> Stages]
  /\ req \in [Clients -> Requests]
  /\ fresh \subseteq Clients
  /\ doomed \in [Clients -> SUBSET Row]
  /\ reply \in [Clients -> Replies]

StoreInit ==
  /\ symbols = {} /\ prices = {} /\ versions = {} /\ log = <<>>
  /\ stage = [c \in Clients |-> "idle"]
  /\ req = [c \in Clients |-> CHOOSE r \in Requests : TRUE]
  /\ fresh = {}
  /\ doomed = [c \in Clients |-> {}]
  /\ reply = [c \in Clients |-> "none"]

RowsOf(r) == {[listing |-> r.listing, date |-> d, version |-> r.version] : d \in r.dates}

\* uq_price_symbol_date_provider and uq_version_symbol_type: the keys of two
\* requests collide.
SameKey(r, s) ==
  /\ r.listing = s.listing
  /\ r.version = s.version \/ r.dates \cap s.dates # {}

\* Mutant: no unique constraint on daily_prices.
TakenVersionOnly(r) ==
  \E v \in versions : v.listing = r.listing /\ v.version = r.version

\* A key of r is already in a committed row.
Taken(r) ==
  \/ \E p \in prices : p.listing = r.listing /\ p.date \in r.dates
  \/ \E v \in versions : v.listing = r.listing /\ v.version = r.version

Flushed(c) == stage[c] = "flushed"
Erased(c)  == stage[c] = "erased"

\* A key of r is in a committed row that no transaction is deleting: an insert
\* of r fails.  When the key is only in rows being deleted the insert waits.
Refused(r) ==
  \/ \E p \in prices : /\ p.listing = r.listing /\ p.date \in r.dates
                      /\ \A o \in Clients : Erased(o) => p \notin doomed[o]
  \/ \E v \in versions : v.listing = r.listing /\ v.version = r.version

------------------------------------------------------------------------------
(* The transaction of store(), one action per round trip.                  *)

Answer(c, a) ==
  /\ stage' = [stage EXCEPT ![c] = "idle"]
  /\ fresh' = fresh \ {c}
  /\ doomed' = [doomed EXCEPT ![c] = {}]
  /\ reply' = [reply EXCEPT ![c] = a]

\* _ensure_symbol: the lookup.
BeginStore(c, r) ==
  /\ stage[c] = "idle"
  /\ req' = [req EXCEPT ![c] = r]
  /\ stage' = [stage EXCEPT ![c] = IF r.listing \in symbols THEN "found" ELSE "missing"]
  /\ reply' = [reply EXCEPT ![c] = "none"]
  /\ UNCHANGED <<tables, fresh, doomed>>

\* _ensure_symbol: session.flush() of the new Symbol.
InsertSymbol(c) ==
  /\ stage[c] = "missing"
  /\ \A o \in fresh : req[o].listing # req[c].listing
  /\ req[c].listing \notin symbols
  /\ stage' = [stage EXCEPT ![c] = "ready"]
  /\ fresh' = fresh \cup {c}
  /\ UNCHANGED <<tables, req, doomed, reply>>

\* Mutant: the conflict on the symbol is never reported.
SymbolRaceIgnored(c) == FALSE

\* Somebody committed the symbol after this client had looked: IntegrityError.
SymbolRaceLost(c) ==
  /\ stage[c] = "missing"
  /\ req[c].listing \in symbols
  /\ Answer(c, "duplicate")
  /\ UNCHANGED <<tables, req>>

\* Mutant: the flush does not wait for the rows of other transactions.
FlushRowsUnlocked(c) ==
  /\ stage[c] \in {"found", "ready"}
  /\ ~Taken(req[c])
  /\ stage' = [stage EXCEPT ![c] = "flushed"]
  /\ UNCHANGED <<tables, req, fresh, doomed, reply>>

\* commit(): the unit of work flushes the price, version and log rows, once
\* every transaction that inserts or deletes an equal key has ended.
FlushRows(c) ==
  /\ stage[c] \in {"found", "ready"}
  /\ \A o \in Clients \ {c} : Flushed(o) => ~SameKey(req[o], req[c])
  /\ ~Taken(req[c])
  /\ stage' = [stage EXCEPT ![c] = "flushed"]
  /\ UNCHANGED <<tables, req, fresh, doomed, reply>>

\* A unique constraint fails: everything is rolled back, the new symbol too.
FlushDuplicate(c) ==
  /\ stage[c] \in {"found", "ready"}
  /\ Refused(req[c])
  /\ Answer(c, "duplicate")
  /\ UNCHANGED <<tables, req>>

Committed(c) ==
  LET r == req[c]
  IN  /\ Flushed(c)
      /\ symbols' = symbols \cup {r.listing}
      /\ prices' = prices \cup RowsOf(r)
      /\ versions' = versions \cup {r}
      /\ log' = Append(log, [status |-> "success", count |-> Cardinality(r.dates)])
      /\ UNCHANGED req

Commit(c) == Committed(c) /\ Answer(c, "stored")

\* Mutant: rows flushed before the failure stay (no transaction).
AbortHalfway(c) ==
  /\ stage[c] # "idle"
  /\ Answer(c, "error")
  /\ prices' = IF Flushed(c) THEN prices \cup RowsOf(req[c]) ELSE prices
  /\ UNCHANGED <<symbols, versions, log, req>>

\* The database fails or the client's connection drops: rolled back.
Abort(c) ==
  /\ stage[c] # "idle"
  /\ Answer(c, "error")
  /\ UNCHANGED <<tables, req>>

------------------------------------------------------------------------------
(* The transaction of delete().  delete(), retrieve() and exists() look    *)
(* the symbol up on Home.                                                  *)

RowsHeld(listing) == {p \in prices : p.listing = listing}

\* Mutant: the DELETE names the symbol, whatever its exchange.
BeginDeleteEverywhere(c, s) ==
  /\ stage[c] = "idle"
  /\ IF HomeListing(s) \in symbols
     THEN /\ Len(log) < MaxLog
          /\ stage' = [stage EXCEPT ![c] = "erasing"]
          /\ doomed' = [doomed EXCEPT ![c] = {p \in prices : p.listing.symbol = s}]
          /\ reply' = [reply EXCEPT ![c] = "none"]
     ELSE /\ reply' = [reply EXCEPT ![c] = "nothing"]
          /\ UNCHANGED <<stage, doomed>>
  /\ UNCHANGED <<tables, req, fresh>>

\* The lookup, and the snapshot the DELETE statement takes when it begins.
\* (A symbol that was found stays: the two are one step.)
BeginDelete(c, s) ==
  /\ stage[c] = "idle"
  /\ IF HomeListing(s) \in symbols
     THEN /\ Len(log) < MaxLog
          /\ stage' = [stage EXCEPT ![c] = "erasing"]
          /\ doomed' = [doomed EXCEPT ![c] = RowsHeld(HomeListing(s))]
          /\ reply' = [reply EXCEPT ![c] = "none"]
     ELSE /\ reply' = [reply EXCEPT ![c] = "nothing"]
          /\ UNCHANGED <<stage, doomed>>
  /\ UNCHANGED <<tables, req, fresh>>

\* Mutant: the DELETE neither waits for another one nor skips its rows.
EraseUnlocked(c) ==
  /\ stage[c] = "erasing"
  /\ stage' = [stage EXCEPT ![c] = "erased"]
  /\ UNCHANGED <<tables, req, fresh, doomed, reply>>

\* The DELETE returns: the rows of its snapshot that are still there are
\* deleted, not yet for the other clients.
EraseRows(c) ==
  /\ stage[c] = "erasing"
  /\ \A o \in Clients \ {c} : Erased(o) => doomed[o] \cap doomed[c] = {}
  /\ stage' = [stage EXCEPT ![c] = "erased"]
  /\ doomed' = [doomed EXCEPT ![c] = @ \cap prices]
  /\ UNCHANGED <<tables, req, fresh, reply>>

\* _log_update and commit().
Deleted(c) ==
  /\ Erased(c)
  /\ prices' = prices \ doomed[c]
  /\ log' = Append(log, [status |-> "deleted", count |-> Cardinality(doomed[c])])
  /\ UNCHANGED <<symbols, versions, req>>

CommitDelete(c) ==
  Deleted(c) /\ Answer(c, IF doomed[c] # {} THEN "deleted" ELSE "nothing")

\* The database commits, but the connection is lost before the answer.
CommitUnacknowledged(c) == (Committed(c) \/ Deleted(c)) /\ Answer(c, "error")

\* The column the version filter names does not exist: building the query
\* raises AttributeError, whatever is stored.
Retrieve(c, s, from, to, versioned) ==
  /\ stage[c] = "idle"
  /\ reply' = [reply EXCEPT ![c] =
       IF HomeListing(s) \in symbols /\ versioned THEN "attribute_error"
       ELSE IF /\ HomeListing(s) \in symbols
               /\ \E p \in prices : p.listing = HomeListing(s) /\ p.date \in from .. to
            THEN "data" ELSE "not_found"]
  /\ UNCHANGED <<tables, stage, req, fresh, doomed>>

Exists(s) == RowsHeld(HomeListing(s)) # {}

------------------------------------------------------------------------------
StoreStep(c) ==
  \/ InsertSymbol(c) \/ SymbolRaceLost(c)
  \/ FlushRows(c) \/ FlushDuplicate(c) \/ Commit(c)
  \/ EraseRows(c) \/ CommitDelete(c)

StoreFault(c) == CommitUnacknowledged(c) \/ Abort(c)

StoreNext ==
  \E c \in Clients :
    \/ StoreStep(c) \/ StoreFault(c)
    \/ \E r \in Requests : BeginStore(c, r)
    \/ \E s \in Symbols :
         \/ BeginDelete(c, s)
         \/ \E from, to \in Days : \E versioned \in BOOLEAN :
              Retrieve(c, s, from, to, versioned)

StoreSpec == StoreInit /\ [][StoreNext]_storeVars

\* The steps that may wait for the end of another transaction.
LockingStep(c) == InsertSymbol(c) \/ FlushRows(c) \/ EraseRows(c)

------------------------------------------------------------------------------
(* What the repository promises.                                           *)

\* "Every store() is atomic": a version's price rows are all there or, after
\* a delete, all gone; no price row is without its version and its symbol.
StoresAreAtomic ==
  /\ \A v \in versions :
       LET there == {p \in prices : p.listing = v.listing /\ p.version = v.version}
       IN  there = RowsOf(v) \/ there = {}
  /\ \A p \in prices :
       /\ p.listing \in symbols
       /\ \E v \in versions : p \in RowsOf(v)

\* The unique constraints hold across clients: one row per listing and date,
\* one version row per listing and version string.
KeysAreUnique ==
  /\ \A p, q \in prices : p.listing = q.listing /\ p.date = q.date => p = q
  /\ \A v, w \in versions : v.listing = w.listing /\ v.version = w.version => v = w

\* Rows waiting to be committed collide with no committed row and with no
\* other transaction's rows: commit() itself cannot fail.
FlushedRowsAreSafe ==
  \A c \in Clients : Flushed(c) =>
    /\ ~Taken(req[c])
    /\ \A o \in Clients \ {c} : Flushed(o) => ~SameKey(req[o], req[c])

\* The update log accounts for the price table: rows inserted minus rows
\* deleted is what is there.
Logged(st) ==
  LET count[n \in 0 .. Len(log)] ==
        IF n = 0 THEN 0
        ELSE count[n - 1] + IF log[n].status = st THEN log[n].count ELSE 0
  IN  count[Len(log)]
LogBalances == Logged("success") - Logged("deleted") = Cardinality(prices)

\* "DuplicateDatasetError: If version already exists": a client whose store()
\* is refused as a duplicate finds its listing's version string on record.
DuplicateMeansVersion ==
  \A c \in Clients : reply[c] = "duplicate" =>
    \E v \in versions : v.listing = req[c].listing /\ v.version = req[c].version

\* Rows disappear only when a delete() ends, only on the exchange delete() is
\* bound to, and only rows its DELETE had found: what was stored between the
\* DELETE and its commit survives.  The log counts the rows that vanish, no
\* matter how many deletes of the listing were under way.
RowsSurvive ==
  [][LET gone == prices \ prices'
     IN  gone # {} =>
           /\ log' = Append(log, [status |-> "deleted", count |-> Cardinality(gone)])
           /\ \E c \in Clients : Erased(c) /\ gone = doomed[c]
           /\ \E s \in Symbols : \A p \in gone : p.listing = HomeListing(s)]_storeVars

==============================================================================

--------------------------- MODULE SchedulerProofs ---------------------------
(***************************************************************************)
(* What Scheduler promises for any number of jobs, any dependency sets,    *)
(* any policies and attempts, any callbacks, cancellations and pauses.     *)
(*                                                                         *)
(* That a job is executed only after its dependencies have succeeded is    *)
(* not inductive: the loop looks at the set failed alone.  It rests on     *)
(* three facts about a run (SchedulerInv): the order lists dependencies    *)
(* first, failed is exactly the set of jobs with a result other than       *)
(* success, and a job whose turn has passed without a result has left a    *)
(* result on every job that depends on it.  The order in turn rests on the *)
(* state of the sort.  Each of these is inductive together with it:        *)
(*                                                                         *)
(*   BooksInv    results, status_of and the history agree, job by job      *)
(*   TriesInv    the history of a job is a sequence of retried failures    *)
(*   VerdictInv  popped nodes come after what they depend on; what is left *)
(*               when the queue runs dry depends on itself in a circle     *)
(*   CauseInv    every skip has a lost dependency behind it, and nothing   *)
(*               that waits for a deferred job has had its turn            *)
(*                                                                         *)
(* The last section maps every step of the scheduler to a step of JobRun.  *)
(***************************************************************************)
EXTENDS Scheduler, FoldLemmas

\* sorted(S) lists S, without repetition.
LEMMA SortedListsType ==
  ASSUME NEW S, S \subseteq JobIds, NEW s \in SortedLists(S)
  PROVE  /\ s \in Seq(S)
         /\ Range(s) = S
         /\ \A a, b \in DOMAIN s : s[a] = s[b] => a = b
<1>1. IsFiniteSet(S) /\ S \subseteq Nat
  BY ConstantsAssumption, FS_Subset
<1>2. Cardinality(S) \in Nat
  BY <1>1, FS_CardinalityType
<1>3. s \in Seq(S) /\ DOMAIN s = 1 .. Cardinality(S)
  BY <1>2 DEF SortedLists
<1>4. Range(s) = S
  BY DEF SortedLists
<1>5. ASSUME NEW a \in DOMAIN s, NEW b \in DOMAIN s, s[a] = s[b] PROVE a = b
  <2>1. s[a] \in S /\ s[b] \in S
    BY <1>3 DEF SortedLists
  <2>2. a \in Int /\ b \in Int /\ s[a] \in Int /\ s[b] \in Int
    <3>1. a \in Int /\ b \in Int
      BY <1>2, <1>3
    <3>2. s[a] \in Nat /\ s[b] \in Nat
      BY <1>1, <2>1
    <3> QED BY <3>1, <3>2
  <2>3. ~(a < b) /\ ~(b < a)
    BY <1>5, <2>2 DEF SortedLists
  <2> QED BY <2>2, <2>3
<1> QED BY <1>3, <1>4, <1>5

LEMMA InitType == Init => TypeOK
BY ConstantsAssumption DEF Init, TypeOK, NoResult, Statuses

\* The entries _resolve_terminal writes are well typed.
LEMMA ResolveType ==
  ASSUME TypeOK,
         NEW st \in [JobIds -> Statuses \cup {"none"}],
         NEW S \in SUBSET JobIds, NEW verdict \in [S -> Final],
         Resolve(st, verdict)
  PROVE  /\ results' \in [JobIds -> Result \cup {NoResult}]
         /\ status' \in [JobIds -> Statuses \cup {"none"}]
         /\ history' \in [JobIds -> Seq(Record)]
         /\ failed' \subseteq JobIds
<1> DEFINE Entry(j) == [status |-> verdict[j], attempt |-> 0]
<1>1. \A j \in S : Entry(j) \in Result /\ Entry(j) \in Record /\ verdict[j] \in Statuses
  BY DEF Result, Record, Final, Statuses
<1>2. DOMAIN verdict = S
  OBVIOUS
<1>3. results' = [j \in JobIds |-> IF j \in S THEN Entry(j) ELSE results[j]]
  BY <1>2 DEF Resolve
<1>4. status' = [j \in JobIds |-> IF j \in S THEN verdict[j] ELSE st[j]]
  BY <1>2 DEF Resolve
<1>5. history' = [j \in JobIds |-> IF j \in S THEN Append(history[j], Entry(j))
                                   ELSE history[j]]
  BY <1>2 DEF Resolve
<1>6. failed' = failed \cup S
  BY <1>2 DEF Resolve
<1>7. results' \in [JobIds -> Result \cup {NoResult}]
  BY <1>1, <1>3 DEF TypeOK
<1>8. status' \in [JobIds -> Statuses \cup {"none"}]
  BY <1>1, <1>4
<1>9. history' \in [JobIds -> Seq(Record)]
  <2>1. \A j \in JobIds : history[j] \in Seq(Record)
    BY DEF TypeOK
  <2>2. \A j \in S : Append(history[j], Entry(j)) \in Seq(Record)
    BY <1>1, <2>1
  <2> QED BY <1>5, <2>1, <2>2
<1> QED BY <1>6, <1>7, <1>8, <1>9 DEF TypeOK

\* The result the executor returns is well typed.
LEMMA StoreType ==
  ASSUME TypeOK, NEW j \in JobIds, NEW st \in {"success", "failed"},
         NEW n \in Nat, Store(j, st, n)
  PROVE  /\ results' \in [JobIds -> Result \cup {NoResult}]
         /\ status' \in [JobIds -> Statuses \cup {"none"}]
         /\ failed' \subseteq JobIds
         /\ turn' \in Nat \ {0}
<1>1. [status |-> st, attempt |-> n] \in Result /\ st \in Statuses
  BY DEF Result, Final, Statuses
<1> QED BY <1>1 DEF TypeOK, Store, NextTurn

LEMMA RecordType ==
  ASSUME TypeOK, NEW j \in JobIds, NEW st \in Statuses, RecordAttempt(j, st)
  PROVE  history' \in [JobIds -> Seq(Record)]
<1> DEFINE entry == [status |-> st, attempt |-> attempt]
<1>1. entry \in Record /\ history[j] \in Seq(Record)
  BY DEF TypeOK, Record
<1>2. history' = [history EXCEPT ![j] = Append(history[j], entry)]
  BY DEF RecordAttempt
<1> HIDE DEF entry
<1>3. Append(history[j], entry) \in Seq(Record)
  BY <1>1
<1> QED BY <1>2, <1>3 DEF TypeOK

\* The jobs the loop resolves besides the current one are registered jobs.
LEMMA ReachedSubset ==
  ASSUME NEW open, NEW node
  PROVE  Reached(deps, open, node) \subseteq open
BY DEF Reached

LEMMA CurrentType ==
  ASSUME TypeOK, turn \in Turns
  PROVE  Current \in JobIds
BY DEF TypeOK, Turns, Current

\* turn stays an index when a run takes a handler's attempt up.
AttemptTurn == phase = "attempt" => turn \in Turns

LEMMA ApiTypeStep ==
  ASSUME TypeOK, ApiStep
  PROVE  TypeOK'
<1> USE DEF RunFrame, sorting, loop, api
<1>1. ASSUME NEW j \in JobIds, NEW ds \in Graphs[j], RegisterJob(j, ds)
      PROVE  TypeOK'
  <2>1. ds \in SUBSET JobIds
    BY ConstantsAssumption
  <2> QED BY <1>1, <2>1 DEF RegisterJob, TypeOK, Statuses
<1>2. ASSUME NEW t \in Types, RegisterHandler(t) PROVE TypeOK'
  BY <1>2 DEF RegisterHandler, TypeOK
<1>3. ASSUME NEW j \in JobIds, Cancel(j) PROVE TypeOK'
  BY <1>3 DEF Cancel, TypeOK
<1>4. ASSUME NEW j \in JobIds, Pause(j) PROVE TypeOK'
  BY <1>4 DEF Pause, TypeOK
<1>5. ASSUME NEW j \in JobIds, Resume(j) PROVE TypeOK'
  BY <1>5 DEF Resume, TypeOK
<1>6. ASSUME ClearHistory PROVE TypeOK'
  BY <1>6 DEF ClearHistory, TypeOK
<1> QED BY <1>1, <1>2, <1>3, <1>4, <1>5, <1>6 DEF ApiStep

LEMMA SortTypeStep ==
  ASSUME TypeOK, RunRejected \/ RunCalled \/ PopNode \/ CycleFound \/ OrderFound
  PROVE  TypeOK'
<1> USE DEF sorting, loop, api
<1>1. CASE RunRejected
  BY <1>1, ConstantsAssumption DEF RunRejected, TypeOK
<1>2. CASE RunCalled
  <2>1. Roots(jobs, deps) \subseteq JobIds
    BY DEF Roots, TypeOK
  <2>2. queue' \in Seq(JobIds)
    BY <1>2, <2>1, SortedListsType DEF RunCalled
  <2> QED BY <1>2, <2>2, ConstantsAssumption DEF RunCalled, TypeOK
<1>3. CASE PopNode
  <2>1. Unblocked(jobs, deps, Range(sorted), Head(queue)) \subseteq JobIds
    BY DEF Unblocked, DependentsOf, TypeOK
  <2>2. PICK s \in SortedLists(Unblocked(jobs, deps, Range(sorted), Head(queue))) :
          queue' = Tail(queue) \o s
    BY <1>3 DEF PopNode
  <2>3. s \in Seq(JobIds)
    BY <2>1, SortedListsType
  <2>4. Head(queue) \in JobIds /\ Tail(queue) \in Seq(JobIds)
    BY <1>3 DEF PopNode, TypeOK
  <2>5. queue' \in Seq(JobIds)
    BY <2>2, <2>3, <2>4
  <2>6. sorted' \in Seq(JobIds)
    BY <1>3, <2>4 DEF PopNode, TypeOK
  <2> QED BY <1>3, <2>5, <2>6 DEF PopNode, TypeOK
<1>4. CASE CycleFound
  BY <1>4 DEF CycleFound, TypeOK
<1>5. CASE OrderFound
  BY <1>5 DEF OrderFound, TypeOK
<1> QED BY <1>1, <1>2, <1>3, <1>4, <1>5

\* The fields a step of the loop may change are well typed after it.
LEMMA LoopTypeStep ==
  ASSUME TypeOK, AttemptTurn, RunStep, ~(PopNode \/ CycleFound \/ OrderFound)
  PROVE  TypeOK'
<1> USE DEF sorting, loop, api, LoopFrame, NextTurn
<1>1. CASE AlreadyResolved
  BY <1>1 DEF AlreadyResolved, TypeOK
<1>2. CASE ResolveCancelled
  <2>1. Current \in JobIds
    BY <1>2, CurrentType DEF ResolveCancelled, Loop
  <2> DEFINE hit == Reached(deps, Open \ {Current}, Current) \cup {Current}
             verdict == [j \in hit |-> IF j = Current THEN "cancelled" ELSE "skipped"]
  <2>2. hit \in SUBSET JobIds
    BY <2>1, ReachedSubset DEF Open, TypeOK
  <2>3. verdict \in [hit -> Final]
    BY DEF Final
  <2>4. Resolve(status, verdict)
    BY <1>2 DEF ResolveCancelled
  <2>5. status \in [JobIds -> Statuses \cup {"none"}]
    BY DEF TypeOK
  <2> HIDE DEF hit, verdict
  <2>6. /\ results' \in [JobIds -> Result \cup {NoResult}]
        /\ status' \in [JobIds -> Statuses \cup {"none"}]
        /\ history' \in [JobIds -> Seq(Record)]
        /\ failed' \subseteq JobIds
    BY <2>2, <2>3, <2>4, <2>5, ResolveType
  <2> QED BY <1>2, <2>6 DEF ResolveCancelled, TypeOK
<1>3. CASE DeferPaused
  <2>1. Current \in JobIds
    BY <1>3, CurrentType DEF DeferPaused, Loop
  <2> DEFINE hit == Reached(deps, Open, Current)
             verdict == [j \in hit |-> "skipped"]
             st == [status EXCEPT ![Current] = "pending"]
  <2>2. hit \in SUBSET JobIds
    BY ReachedSubset DEF Open, TypeOK
  <2>3. verdict \in [hit -> Final]
    BY DEF Final
  <2>4. Resolve(st, verdict)
    BY <1>3 DEF DeferPaused
  <2>5. st \in [JobIds -> Statuses \cup {"none"}]
    BY DEF TypeOK, Statuses
  <2> HIDE DEF hit, verdict, st
  <2>6. /\ results' \in [JobIds -> Result \cup {NoResult}]
        /\ status' \in [JobIds -> Statuses \cup {"none"}]
        /\ history' \in [JobIds -> Seq(Record)]
        /\ failed' \subseteq JobIds
    BY <2>2, <2>3, <2>4, <2>5, ResolveType
  <2> QED BY <1>3, <2>6 DEF DeferPaused, TypeOK
<1>4. CASE ResolveSkipped
  <2>1. Current \in JobIds
    BY <1>4, CurrentType DEF ResolveSkipped, Runnable, Loop
  <2> DEFINE verdict == [j \in {Current} |-> "skipped"]
  <2>2. verdict \in [{Current} -> Final] /\ Resolve(status, verdict)
    BY <1>4 DEF ResolveSkipped, Final
  <2>3. status \in [JobIds -> Statuses \cup {"none"}]
    BY DEF TypeOK
  <2> HIDE DEF verdict
  <2>4. /\ results' \in [JobIds -> Result \cup {NoResult}]
        /\ status' \in [JobIds -> Statuses \cup {"none"}]
        /\ history' \in [JobIds -> Seq(Record)]
        /\ failed' \subseteq JobIds
    BY <2>1, <2>2, <2>3, ResolveType
  <2> QED BY <1>4, <2>4 DEF ResolveSkipped, TypeOK
<1>5. CASE StartFirstAttempt
  BY <1>5 DEF StartFirstAttempt, TypeOK, Statuses
<1>6. CASE StartWithoutAttempts
  <2>1. Current \in JobIds /\ Store(Current, "failed", 0)
    BY <1>6, CurrentType DEF StartWithoutAttempts, Runnable, Loop
  <2> QED BY <1>6, <2>1, StoreType DEF StartWithoutAttempts, TypeOK
<1>7. CASE StartUnsupported
  BY <1>7 DEF StartUnsupported, Raise, TypeOK, Statuses
<1>8. CASE RunReturns
  BY <1>8 DEF RunReturns, TypeOK
<1>9. CASE HandlerReturns
  <2>1. Current \in JobIds
    BY <1>9, CurrentType DEF HandlerReturns, Attempting, AttemptTurn
  <2>2. RecordAttempt(Current, "success") /\ Store(Current, "success", attempt)
    BY <1>9 DEF HandlerReturns
  <2>3. history' \in [JobIds -> Seq(Record)]
    BY <2>1, <2>2, RecordType DEF Statuses
  <2>4. attempt \in Nat
    BY DEF TypeOK
  <2> QED BY <1>9, <2>1, <2>2, <2>3, <2>4, StoreType DEF HandlerReturns, TypeOK
<1>10. CASE HandlerFailsRetryable
  <2>1. Current \in JobIds
    BY <1>10, CurrentType DEF HandlerFailsRetryable, Attempting, AttemptTurn
  <2>2. history' \in [JobIds -> Seq(Record)]
    BY <1>10, <2>1, RecordType DEF HandlerFailsRetryable, Statuses
  <2> QED BY <1>10, <2>2 DEF HandlerFailsRetryable, TypeOK
<1>11. CASE HandlerExhausted
  <2>1. Current \in JobIds
    BY <1>11, CurrentType DEF HandlerExhausted, Attempting, AttemptTurn
  <2>2. RecordAttempt(Current, "failed") /\ Store(Current, "failed", attempt)
    BY <1>11 DEF HandlerExhausted
  <2>3. history' \in [JobIds -> Seq(Record)]
    BY <2>1, <2>2, RecordType DEF Statuses
  <2>4. attempt \in Nat
    BY DEF TypeOK
  <2> QED BY <1>11, <2>1, <2>2, <2>3, <2>4, StoreType DEF HandlerExhausted, TypeOK
<1>12. CASE HandlerFatal
  <2>1. Current \in JobIds
    BY <1>12, CurrentType DEF HandlerFatal, Attempting, AttemptTurn
  <2>2. history' \in [JobIds -> Seq(Record)]
    BY <1>12, <2>1, RecordType DEF HandlerFatal, Statuses
  <2> QED BY <1>12, <2>2 DEF HandlerFatal, Raise, TypeOK
<1> QED BY <1>1, <1>2, <1>3, <1>4, <1>5, <1>6, <1>7, <1>8, <1>9, <1>10, <1>11, <1>12
     DEF RunStep

------------------------------------------------------------------------------
(* Lists of job ids.                                                       *)

Distinct(s) == \A a, b \in DOMAIN s : s[a] = s[b] => a = b

LEMMA AppendList ==
  ASSUME NEW S, NEW s \in Seq(S), NEW n \in S
  PROVE  /\ Append(s, n) \in Seq(S)
         /\ Range(Append(s, n)) = Range(s) \cup {n}
         /\ Distinct(s) /\ n \notin Range(s) => Distinct(Append(s, n))
<1>1. /\ DOMAIN s = 1 .. Len(s) /\ Len(s) \in Nat
      /\ DOMAIN Append(s, n) = 1 .. Len(s) + 1
      /\ \A k \in 1 .. Len(s) : Append(s, n)[k] = s[k]
      /\ Append(s, n)[Len(s) + 1] = n
  OBVIOUS
<1>2. Range(Append(s, n)) = Range(s) \cup {n}
  BY <1>1 DEF Range
<1>3. Distinct(s) /\ n \notin Range(s) => Distinct(Append(s, n))
  BY <1>1 DEF Distinct, Range
<1> QED BY <1>2, <1>3

LEMMA TailList ==
  ASSUME NEW S, NEW s \in Seq(S), s # <<>>
  PROVE  /\ Head(s) \in S /\ Tail(s) \in Seq(S)
         /\ Head(s) \in Range(s)
         /\ Range(Tail(s)) \subseteq Range(s)
         /\ Distinct(s) => Head(s) \notin Range(Tail(s)) /\ Distinct(Tail(s))
<1>1. /\ DOMAIN s = 1 .. Len(s) /\ Len(s) \in Nat /\ Len(s) > 0
      /\ DOMAIN Tail(s) = 1 .. Len(s) - 1
      /\ \A k \in 1 .. Len(s) - 1 : Tail(s)[k] = s[k + 1]
      /\ Head(s) = s[1]
  OBVIOUS
<1>2. /\ Head(s) \in Range(s)
      /\ Range(Tail(s)) \subseteq Range(s)
  BY <1>1 DEF Range
<1>3. Distinct(s) => Head(s) \notin Range(Tail(s)) /\ Distinct(Tail(s))
  BY <1>1 DEF Distinct, Range
<1> QED BY <1>2, <1>3

LEMMA ConcatList ==
  ASSUME NEW S, NEW s \in Seq(S), NEW t \in Seq(S)
  PROVE  /\ s \o t \in Seq(S)
         /\ Range(s \o t) = Range(s) \cup Range(t)
         /\ Distinct(s) /\ Distinct(t) /\ Range(s) \cap Range(t) = {}
              => Distinct(s \o t)
<1>1. /\ DOMAIN s = 1 .. Len(s) /\ Len(s) \in Nat
      /\ DOMAIN t = 1 .. Len(t) /\ Len(t) \in Nat
      /\ DOMAIN (s \o t) = 1 .. Len(s) + Len(t)
      /\ \A k \in 1 .. Len(s) : (s \o t)[k] = s[k]
      /\ \A k \in 1 .. Len(t) : (s \o t)[Len(s) + k] = t[k]
  OBVIOUS
<1>2. \A k \in Len(s) + 1 .. Len(s) + Len(t) :
        k - Len(s) \in 1 .. Len(t) /\ (s \o t)[k] = t[k - Len(s)]
  BY <1>1
<1>3. Range(s \o t) = Range(s) \cup Range(t)
  <2>1. Range(s) \subseteq Range(s \o t)
    BY <1>1 DEF Range
  <2>2. ASSUME NEW k \in 1 .. Len(t) PROVE t[k] \in Range(s \o t)
    <3>1. Len(s) + k \in DOMAIN (s \o t) /\ (s \o t)[Len(s) + k] = t[k]
      BY <1>1
    <3> QED BY <3>1 DEF Range
  <2>3. Range(s \o t) \subseteq Range(s) \cup Range(t)
    BY <1>1, <1>2 DEF Range
  <2> QED BY <1>1, <2>1, <2>2, <2>3 DEF Range
<1>4. ASSUME Distinct(s), Distinct(t), Range(s) \cap Range(t) = {},
             NEW a \in DOMAIN (s \o t), NEW b \in DOMAIN (s \o t),
             (s \o t)[a] = (s \o t)[b]
      PROVE  a = b
  <2>1. \A k \in 1 .. Len(s) : s[k] \in Range(s)
    BY <1>1 DEF Range
  <2>2. \A k \in 1 .. Len(t) : t[k] \in Range(t)
    BY <1>1 DEF Range
  <2>3. CASE a \in 1 .. Len(s) /\ b \in 1 .. Len(s)
    BY <1>1, <1>4, <2>3 DEF Distinct
  <2>4. CASE a \notin 1 .. Len(s) /\ b \notin 1 .. Len(s)
    <3>1. /\ a - Len(s) \in DOMAIN t /\ b - Len(s) \in DOMAIN t
          /\ t[a - Len(s)] = t[b - Len(s)]
      BY <1>1, <1>2, <1>4, <2>4
    <3>2. a - Len(s) = b - Len(s)
      BY <1>4, <3>1 DEF Distinct
    <3> QED BY <1>1, <3>2
  <2>5. CASE a \in 1 .. Len(s) /\ b \notin 1 .. Len(s)
    BY <1>1, <1>2, <1>4, <2>1, <2>2, <2>5
  <2>6. CASE a \notin 1 .. Len(s) /\ b \in 1 .. Len(s)
    BY <1>1, <1>2, <1>4, <2>1, <2>2, <2>6
  <2> QED BY <2>3, <2>4, <2>5, <2>6
<1> QED BY <1>3, <1>4 DEF Distinct

------------------------------------------------------------------------------
(* The inductive invariant.                                                *)

\* topological_order: what is sorted or queued is registered, listed once,
\* and waits for sorted nodes only.
SortInv ==
  phase = "sort" =>
    /\ Range(sorted) \cup Range(queue) \subseteq jobs
    /\ Distinct(sorted) /\ Distinct(queue)
    /\ Range(sorted) \cap Range(queue) = {}
    /\ \A n \in Range(queue) : deps[n] \subseteq Range(sorted)
    /\ \A k \in DOMAIN sorted :
         deps[sorted[k]] \subseteq {sorted[m] : m \in {i \in DOMAIN sorted : i < k}}

\* run(): failed is the set of jobs with a result other than success, and no
\* job depends on a deferred one without having a result.
LoopInv ==
  phase \in {"loop", "attempt"} =>
    /\ \A j \in failed : HasResult(j)
    /\ \A j \in JobIds : HasResult(j) /\ results[j].status # "success" => j \in failed
    /\ \A d \in Passed : HasResult(d) \/ \A e \in Range(order) : d \in deps[e] => HasResult(e)

AttemptInv ==
  phase = "attempt" =>
    /\ turn \in Turns
    /\ ~HasResult(Current)
    /\ \A d \in deps[Current] : results[d].status = "success"

SchedulerInv ==
  /\ TypeOK
  /\ \A j \in JobIds : HasResult(j) => j \in jobs
  /\ Range(order) \subseteq jobs
  /\ OrderRespectsDependencies
  /\ SortInv
  /\ LoopInv
  /\ AttemptInv
  /\ RunsOnlyAfterDependencies

LEMMA InitSchedulerInv == Init => SchedulerInv
<1> SUFFICES ASSUME Init PROVE SchedulerInv
  OBVIOUS
<1>1. \A j \in JobIds : ~HasResult(j) /\ results[j].status = "none"
  BY DEF Init, HasResult, NoResult
<1>2. Range(order) = {} /\ Turns = {}
  BY DEF Init, Range, Turns
<1>3. phase = "idle"
  BY DEF Init
<1>4. RunsOnlyAfterDependencies
  BY <1>1, <1>3 DEF RunsOnlyAfterDependencies, Executed
<1> QED BY <1>1, <1>2, <1>3, <1>4, InitType
    DEF SchedulerInv, OrderRespectsDependencies, SortInv, LoopInv, AttemptInv

\* A callback changes nothing a run relies on: jobs are only added, and the
\* dependencies of a registered job never change.
LEMMA ApiKeepsInv ==
  ASSUME SchedulerInv, ApiStep
  PROVE  SchedulerInv'
<1>1. TypeOK'
  BY ApiTypeStep DEF SchedulerInv
<1>2. /\ UNCHANGED <<results, phase, queue, sorted, order, turn, failed, attempt>>
      /\ phase \in {"idle", "attempt"}
      /\ jobs \subseteq jobs'
      /\ \A j \in jobs : deps'[j] = deps[j]
  <2>1. ASSUME NEW j \in JobIds, NEW ds \in Graphs[j], RegisterJob(j, ds)
        PROVE  jobs \subseteq jobs' /\ \A i \in jobs : deps'[i] = deps[i]
    BY <2>1 DEF RegisterJob, SchedulerInv, TypeOK
  <2>2. (\A j \in JobIds : \A ds \in Graphs[j] : ~RegisterJob(j, ds)) => UNCHANGED <<jobs, deps>>
    BY DEF ApiStep, RegisterHandler, Cancel, Pause, Resume, ClearHistory, api
  <2>3. UNCHANGED <<results, phase, queue, sorted, order, turn, failed, attempt>>
    BY DEF ApiStep, RegisterJob, RegisterHandler, Cancel, Pause, Resume, ClearHistory,
       RunFrame, sorting, loop
  <2>4. phase \in {"idle", "attempt"}
    BY DEF ApiStep, RegisterJob, RegisterHandler, Cancel, Pause, Resume, ClearHistory,
       CallbackPoint
  <2> QED BY <2>1, <2>2, <2>3, <2>4
<1>3. \A j \in JobIds : HasResult(j)' <=> HasResult(j)
  BY <1>2 DEF HasResult
<1>4. /\ \A j \in JobIds : HasResult(j)' => j \in jobs'
      /\ Range(order)' \subseteq jobs'
  BY <1>2, <1>3 DEF SchedulerInv
<1>5. \A k \in Turns : order[k] \in jobs /\ deps'[order[k]] = deps[order[k]]
  BY <1>2 DEF SchedulerInv, Range, Turns
<1>6. OrderRespectsDependencies'
  BY <1>2, <1>5 DEF SchedulerInv, OrderRespectsDependencies, Turns
<1>7. SortInv'
  BY <1>2 DEF SortInv
<1>8. LoopInv'
  <2>1. Range(order) = {order[k] : k \in Turns} /\ Passed \subseteq Range(order)
    BY DEF Range, Turns, Passed
  <2>2. \A e \in Range(order) : deps'[e] = deps[e]
    BY <1>5, <2>1
  <2>3. Passed' = Passed /\ Range(order)' = Range(order)
    BY <1>2 DEF Passed, Turns
  <2> QED BY <1>2, <2>1, <2>2, <2>3 DEF SchedulerInv, LoopInv, HasResult
<1>9. AttemptInv'
  BY <1>2, <1>5 DEF SchedulerInv, AttemptInv, Turns, Current, HasResult
<1>10. RunsOnlyAfterDependencies'
  <2> SUFFICES ASSUME NEW j \in JobIds,
                      Executed(j)' \/ (phase = "attempt" /\ j = Current)'
               PROVE  \A d \in deps'[j] : results'[d].status = "success"
    BY DEF RunsOnlyAfterDependencies
  <2>1. Executed(j) \/ (phase = "attempt" /\ j = Current)
    BY <1>2 DEF Executed, Current
  <2>2. j \in jobs
    <3>1. CASE Executed(j)
      BY <3>1 DEF SchedulerInv, Executed, HasResult, NoResult
    <3>2. CASE phase = "attempt" /\ j = Current
      BY <1>5, <3>2 DEF SchedulerInv, AttemptInv, Current
    <3> QED BY <2>1, <3>1, <3>2
  <2> QED BY <1>2, <2>1, <2>2 DEF SchedulerInv, RunsOnlyAfterDependencies
<1> QED BY <1>1, <1>4, <1>6, <1>7, <1>8, <1>9, <1>10 DEF SchedulerInv

------------------------------------------------------------------------------
(* The sort.                                                               *)

LEMMA OrderKept ==
  ASSUME SchedulerInv, UNCHANGED <<jobs, deps, order>>
  PROVE  Range(order)' \subseteq jobs' /\ OrderRespectsDependencies'
BY DEF SchedulerInv, OrderRespectsDependencies, Turns

\* While results stay and no attempt is in progress, nothing is executed.
LEMMA ExecutedKept ==
  ASSUME SchedulerInv, UNCHANGED <<jobs, deps, results>>, phase' # "attempt"
  PROVE  /\ \A j \in JobIds : HasResult(j)' => j \in jobs'
         /\ RunsOnlyAfterDependencies'
BY DEF SchedulerInv, RunsOnlyAfterDependencies, HasResult, Executed

LEMMA SortStepKeepsInv ==
  ASSUME SchedulerInv, RunRejected \/ RunCalled \/ PopNode \/ CycleFound \/ OrderFound
  PROVE  SchedulerInv'
<1> USE DEF api, sorting, loop
<1>1. TypeOK'
  BY SortTypeStep DEF SchedulerInv
<1>2. CASE RunRejected
  <2>1. UNCHANGED <<jobs, deps, results, order>> /\ phase' = "idle"
    BY <1>2 DEF RunRejected
  <2> QED BY <1>1, <2>1, OrderKept, ExecutedKept
      DEF SchedulerInv, SortInv, LoopInv, AttemptInv
<1>3. CASE RunCalled
  <2>1. UNCHANGED <<jobs, deps, results, order>> /\ phase' = "sort"
    BY <1>3 DEF RunCalled
  <2>2. Roots(jobs, deps) \subseteq JobIds
    BY DEF SchedulerInv, Roots, TypeOK
  <2>3. sorted' = <<>> /\ queue' \in SortedLists(Roots(jobs, deps))
    BY <1>3 DEF RunCalled
  <2>4. Range(queue') = Roots(jobs, deps) /\ Distinct(queue')
    BY <2>2, <2>3, SortedListsType DEF Distinct
  <2>5. Range(sorted') = {} /\ Distinct(sorted') /\ DOMAIN sorted' = {}
    BY <2>3 DEF Range, Distinct
  <2>6. SortInv'
    BY <2>1, <2>4, <2>5 DEF SortInv, Roots, Distinct
  <2> QED BY <1>1, <2>1, <2>6, OrderKept, ExecutedKept
      DEF SchedulerInv, LoopInv, AttemptInv
<1>4. CASE PopNode
  <2> DEFINE node == Head(queue)
             released == Unblocked(jobs, deps, Range(sorted), node)
  <2>1. UNCHANGED <<jobs, deps, results, order, phase>> /\ phase = "sort" /\ queue # <<>>
    BY <1>4 DEF PopNode
  <2>2. PICK s \in SortedLists(released) :
          sorted' = Append(sorted, node) /\ queue' = Tail(queue) \o s
    BY <1>4 DEF PopNode
  <2>3. queue \in Seq(JobIds) /\ sorted \in Seq(JobIds) /\ SortInv
    BY DEF SchedulerInv, TypeOK
  <2>4. /\ node \in JobIds /\ Tail(queue) \in Seq(JobIds) /\ node \in Range(queue)
        /\ Range(Tail(queue)) \subseteq Range(queue) /\ node \notin Range(Tail(queue))
        /\ Distinct(Tail(queue))
    BY <2>1, <2>3, TailList DEF SortInv
  <2>5. /\ node \notin Range(sorted)
        /\ Range(sorted') = Range(sorted) \cup {node}
        /\ Distinct(sorted')
    <3>1. node \notin Range(sorted)
      BY <2>1, <2>3, <2>4 DEF SortInv
    <3> QED BY <2>1, <2>2, <2>3, <2>4, <3>1, AppendList DEF SortInv
  <2>6. released \subseteq JobIds /\ released \subseteq jobs
    BY DEF Unblocked, DependentsOf, SchedulerInv, TypeOK
  <2>7. s \in Seq(JobIds) /\ Range(s) = released /\ Distinct(s)
    <3> HIDE DEF released
    <3>1. s \in Seq(released) /\ Range(s) = released /\ Distinct(s)
      BY <2>6, SortedListsType DEF Distinct
    <3> QED BY <2>6, <3>1
  <2>8. \A n \in released : node \in deps[n] /\ deps[n] \subseteq Range(sorted) \cup {node}
    BY DEF Unblocked, DependentsOf
  <2>9. \A k \in DOMAIN sorted : deps[sorted[k]] \subseteq Range(sorted)
    BY <2>1, <2>3 DEF SortInv, Range
  <2>10. /\ released \cap Range(queue) = {}
         /\ released \cap Range(sorted) = {}
         /\ node \notin released
    <3>1. \A n \in Range(queue) : node \notin deps[n]
      BY <2>1, <2>3, <2>5 DEF SortInv
    <3>2. \A n \in Range(sorted) : node \notin deps[n]
      BY <2>5, <2>9 DEF Range
    <3> QED BY <2>4, <2>8, <3>1, <3>2
  <2>11. /\ Range(queue') = Range(Tail(queue)) \cup released
         /\ Distinct(queue')
    <3> DEFINE rest == Tail(queue)
    <3>1. Range(rest) \cap Range(s) = {}
      BY <2>4, <2>7, <2>10
    <3>2. /\ rest \in Seq(JobIds) /\ Distinct(rest)
          /\ s \in Seq(JobIds) /\ Distinct(s)
      BY <2>4, <2>7
    <3>3. /\ Range(rest \o s) = Range(rest) \cup Range(s)
          /\ Distinct(rest \o s)
      <4> HIDE DEF rest, node, released
      <4> QED BY <3>1, <3>2, ConcatList
    <3> QED BY <2>2, <2>7, <3>3
  <2>12. \A k \in DOMAIN sorted' :
           deps[sorted'[k]] \subseteq {sorted'[m] : m \in {i \in DOMAIN sorted' : i < k}}
    <3>1. /\ DOMAIN sorted = 1 .. Len(sorted) /\ Len(sorted) \in Nat
          /\ DOMAIN sorted' = 1 .. Len(sorted) + 1
          /\ \A k \in 1 .. Len(sorted) : sorted'[k] = sorted[k]
          /\ sorted'[Len(sorted) + 1] = node
      BY <2>2, <2>3, <2>4
    <3>2. \A k \in DOMAIN sorted :
            deps[sorted[k]] \subseteq {sorted[m] : m \in {i \in DOMAIN sorted : i < k}}
      BY <2>1, <2>3 DEF SortInv
    <3>3. deps[node] \subseteq Range(sorted)
      BY <2>1, <2>3, <2>4 DEF SortInv
    <3>4. ASSUME NEW k \in 1 .. Len(sorted)
          PROVE  deps[sorted'[k]] \subseteq {sorted'[m] : m \in {i \in DOMAIN sorted' : i < k}}
      <4>1. {sorted[m] : m \in {i \in DOMAIN sorted : i < k}}
              \subseteq {sorted'[m] : m \in {i \in DOMAIN sorted' : i < k}}
        BY <3>1
      <4> QED BY <3>1, <3>2, <4>1
    <3>5. deps[sorted'[Len(sorted) + 1]] \subseteq
            {sorted'[m] : m \in {i \in DOMAIN sorted' : i < Len(sorted) + 1}}
      <4>1. Range(sorted) \subseteq
              {sorted'[m] : m \in {i \in DOMAIN sorted' : i < Len(sorted) + 1}}
        BY <3>1 DEF Range
      <4> QED BY <3>1, <3>3, <4>1
    <3>6. \A k \in DOMAIN sorted' : k \in 1 .. Len(sorted) \/ k = Len(sorted) + 1
      BY <3>1
    <3> HIDE DEF node
    <3> QED BY <3>4, <3>5, <3>6
  <2>13. /\ Range(sorted') \cup Range(queue') \subseteq jobs
         /\ Range(sorted') \cap Range(queue') = {}
         /\ \A n \in Range(queue') : deps[n] \subseteq Range(sorted')
    <3>1. Range(sorted) \cup Range(queue) \subseteq jobs /\ Range(sorted) \cap Range(queue) = {}
      BY <2>1, <2>3 DEF SortInv
    <3>2. \A n \in Range(queue) : deps[n] \subseteq Range(sorted)
      BY <2>1, <2>3 DEF SortInv
    <3> HIDE DEF node, released
    <3> QED BY <2>4, <2>5, <2>6, <2>8, <2>10, <2>11, <3>1, <3>2
  <2>14. SortInv'
    BY <2>1, <2>5, <2>11, <2>12, <2>13 DEF SortInv, Distinct
  <2> QED BY <1>1, <2>1, <2>14, OrderKept, ExecutedKept
      DEF SchedulerInv, LoopInv, AttemptInv
<1>5. CASE CycleFound
  <2>1. UNCHANGED <<jobs, deps, results, order>> /\ phase' = "idle"
    BY <1>5 DEF CycleFound
  <2> QED BY <1>1, <2>1, OrderKept, ExecutedKept
      DEF SchedulerInv, SortInv, LoopInv, AttemptInv
<1>6. CASE OrderFound
  <2>1. /\ UNCHANGED <<jobs, deps>> /\ phase = "sort" /\ phase' = "loop"
        /\ order' = sorted /\ turn' = 1 /\ failed' = {}
        /\ results' = [j \in JobIds |-> NoResult]
    BY <1>6 DEF OrderFound
  <2>2. \A j \in JobIds : ~HasResult(j)' /\ ~Executed(j)'
    BY <2>1 DEF HasResult, Executed, NoResult
  <2>3. sorted \in Seq(JobIds) /\ Distinct(sorted) /\ SortInv
    BY <2>1 DEF SchedulerInv, SortInv, TypeOK
  <2>4. Range(order)' \subseteq jobs' /\ OrderRespectsDependencies'
    BY <2>1, <2>3 DEF SortInv, OrderRespectsDependencies, Turns, Distinct
  <2>5. Passed' = {}
    BY <2>1, <2>3 DEF Passed, Turns
  <2>6. RunsOnlyAfterDependencies'
    BY <2>1, <2>2 DEF RunsOnlyAfterDependencies
  <2> QED BY <1>1, <2>1, <2>2, <2>4, <2>5, <2>6
      DEF SchedulerInv, SortInv, LoopInv, AttemptInv
<1> QED BY <1>2, <1>3, <1>4, <1>5, <1>6

------------------------------------------------------------------------------
(* The loop.                                                               *)

\* A step of the loop that gives the jobs in S their results and moves on.
LEMMA TurnOver ==
  ASSUME SchedulerInv, phase \in {"loop", "attempt"}, turn \in Turns,
         turn' = turn + 1, UNCHANGED <<deps, order>>,
         NEW S \in SUBSET JobIds,
         \A j \in JobIds : HasResult(j)' <=> HasResult(j) \/ j \in S,
         \A j \in JobIds : HasResult(j) => results'[j] = results[j],
         failed' = failed \cup {j \in S : results'[j].status # "success"},
         results'[Current] # NoResult \/
           \A e \in Range(order) : Current \in deps[e] => HasResult(e)'
  PROVE  LoopInv'
<1>1. Passed' = Passed \cup {Current} /\ Passed \subseteq JobIds
  <2>1. turn \in Nat /\ order \in Seq(JobIds) /\ Turns = 1 .. Len(order)
    BY DEF SchedulerInv, TypeOK, Turns
  <2>2. {m \in Turns : m < turn + 1} = {m \in Turns : m < turn} \cup {turn}
    BY <2>1
  <2>3. Passed' = {order[k] : k \in {m \in Turns : m < turn + 1}}
    BY DEF Passed, Turns
  <2>4. Passed' = Passed \cup {Current}
    BY <2>2, <2>3 DEF Passed, Current
  <2>5. \A k \in Turns : order[k] \in JobIds
    BY <2>1
  <2>6. Passed \subseteq JobIds
    BY <2>5 DEF Passed
  <2> QED BY <2>4, <2>6
<1>2. Range(order) \subseteq JobIds /\ Current \in JobIds
  BY CurrentType DEF SchedulerInv, TypeOK
<1>3. /\ \A j \in failed : HasResult(j)
      /\ \A j \in JobIds : HasResult(j) /\ results[j].status # "success" => j \in failed
      /\ \A d \in Passed : HasResult(d) \/ \A e \in Range(order) : d \in deps[e] => HasResult(e)
      /\ failed \subseteq JobIds
  BY DEF SchedulerInv, LoopInv, TypeOK
<1>4. \A j \in failed' : HasResult(j)'
  BY <1>3
<1>5. \A j \in JobIds : HasResult(j)' /\ results'[j].status # "success" => j \in failed'
  BY <1>3
<1>6. \A d \in Passed' : HasResult(d)' \/
        \A e \in Range(order) : d \in deps[e] => HasResult(e)'
  <2>1. ASSUME NEW d \in Passed
        PROVE  HasResult(d)' \/ \A e \in Range(order) : d \in deps[e] => HasResult(e)'
    <3>1. CASE HasResult(d)
      BY <1>1, <3>1
    <3>2. CASE \A e \in Range(order) : d \in deps[e] => HasResult(e)
      BY <1>2, <3>2
    <3> QED BY <1>3, <3>1, <3>2
  <2>2. ASSUME NEW d, d = Current
        PROVE  HasResult(d)' \/ \A e \in Range(order) : d \in deps[e] => HasResult(e)'
    BY <2>2 DEF HasResult
  <2>3. \A d \in Passed' : d \in Passed \/ d = Current
    BY <1>1
  <2> QED BY <2>1, <2>2, <2>3
<1> QED BY <1>4, <1>5, <1>6 DEF LoopInv

\* A step of the loop after which no attempt is in progress keeps the
\* invariant if what it gives a result is registered, and if it executes
\* only a job whose dependencies have succeeded.
LEMMA LoopStepKeepsInv ==
  ASSUME SchedulerInv, TypeOK', phase' \in {"loop", "idle"},
         UNCHANGED <<jobs, deps, order>>,
         \A j \in JobIds : HasResult(j) => results'[j] = results[j],
         \A j \in JobIds : HasResult(j)' => HasResult(j) \/ j \in jobs,
         \A j \in JobIds : Executed(j)' =>
           Executed(j) \/ \A d \in deps[j] : results[d].status = "success",
         LoopInv'
  PROVE  SchedulerInv'
<1>1. RunsOnlyAfterDependencies'
  <2>1. deps \in [JobIds -> SUBSET JobIds]
    BY DEF SchedulerInv, TypeOK
  <2>2. \A d \in JobIds : results[d].status = "success" => results'[d].status = "success"
    BY DEF HasResult, NoResult
  <2>3. \A j \in JobIds : Executed(j)' => \A d \in deps[j] : results[d].status = "success"
    BY DEF SchedulerInv, RunsOnlyAfterDependencies
  <2>4. phase' # "attempt"
    OBVIOUS
  <2> QED BY <2>1, <2>2, <2>3, <2>4 DEF RunsOnlyAfterDependencies
<1>2. SortInv' /\ AttemptInv'
  BY DEF SortInv, AttemptInv
<1>3. \A j \in JobIds : HasResult(j)' => j \in jobs'
  BY DEF SchedulerInv
<1> QED BY <1>1, <1>2, <1>3, OrderKept DEF SchedulerInv

\* What _resolve_terminal does to the results, whatever it is called for.
LEMMA ResolveResults ==
  ASSUME NEW st, NEW S \in SUBSET Open, NEW verdict, DOMAIN verdict = S,
         \A j \in S : verdict[j] \in {"cancelled", "skipped"},
         TypeOK, Resolve(st, verdict)
  PROVE  /\ S \in SUBSET JobIds
         /\ \A j \in JobIds : HasResult(j)' <=> HasResult(j) \/ j \in S
         /\ \A j \in JobIds : HasResult(j) => results'[j] = results[j]
         /\ failed' = failed \cup {j \in S : results'[j].status # "success"}
         /\ \A j \in JobIds : HasResult(j)' => HasResult(j) \/ j \in jobs
         /\ \A j \in JobIds : Executed(j)' => Executed(j)
<1>1. S \subseteq JobIds /\ S \subseteq jobs /\ \A j \in S : ~HasResult(j)
  BY DEF Open, TypeOK
<1>2. /\ results' = [j \in JobIds |->
           IF j \in S THEN [status |-> verdict[j], attempt |-> 0] ELSE results[j]]
      /\ failed' = failed \cup S
  BY DEF Resolve
<1>3. \A j \in S : results'[j].status \in {"cancelled", "skipped"}
  BY <1>1, <1>2
<1>4. \A j \in JobIds \ S : results'[j] = results[j]
  BY <1>2
<1>5. \A j \in S : HasResult(j)' /\ ~Executed(j)'
  BY <1>1, <1>3 DEF HasResult, Executed, NoResult
<1>6. \A j \in JobIds \ S : (HasResult(j)' <=> HasResult(j)) /\ (Executed(j)' <=> Executed(j))
  BY <1>4 DEF HasResult, Executed
<1>7. failed' = failed \cup {j \in S : results'[j].status # "success"}
  BY <1>2, <1>3
<1> QED BY <1>1, <1>4, <1>5, <1>6, <1>7

\* run() stores a result for a job that had none.
LEMMA StoreResults ==
  ASSUME TypeOK, NEW j \in JobIds, NEW st \in {"success", "failed"}, NEW n,
         ~HasResult(j), Store(j, st, n)
  PROVE  /\ \A i \in JobIds : HasResult(i)' <=> HasResult(i) \/ i \in {j}
         /\ \A i \in JobIds : HasResult(i) => results'[i] = results[i]
         /\ failed' = failed \cup {i \in {j} : results'[i].status # "success"}
         /\ \A i \in JobIds : Executed(i)' => Executed(i) \/ i = j
         /\ turn' = turn + 1
<1>1. results'[j] = [status |-> st, attempt |-> n]
  BY DEF Store, TypeOK
<1>2. \A i \in JobIds \ {j} : results'[i] = results[i]
  BY DEF Store, TypeOK
<1>3. HasResult(j)' /\ results'[j].status = st
  BY <1>1 DEF HasResult, NoResult
<1>4. \A i \in JobIds \ {j} : (HasResult(i)' <=> HasResult(i)) /\ (Executed(i)' <=> Executed(i))
  BY <1>2 DEF HasResult, Executed
<1>5. failed' = failed \cup {i \in {j} : results'[i].status # "success"}
  BY <1>3 DEF Store
<1> QED BY <1>2, <1>3, <1>4, <1>5 DEF Store, NextTurn

\* The test the loop makes is enough: the dependencies of the job whose turn
\* it is have had their turn, so each has succeeded, or is in failed, or was
\* deferred - and then this job has a result already.
LEMMA ReadyJob ==
  ASSUME SchedulerInv, Runnable, ~Blocked
  PROVE  /\ Current \in JobIds /\ Current \in jobs /\ ~HasResult(Current)
         /\ \A d \in deps[Current] : results[d].status = "success"
<1>1. phase = "loop" /\ turn \in Turns /\ ~HasResult(Current)
  BY DEF Runnable, Loop
<1>2. Current \in JobIds /\ Current \in Range(order) /\ Current \in jobs
  BY <1>1, CurrentType DEF SchedulerInv, Current, Turns, Range
<1>3. deps[Current] \subseteq Passed
  BY <1>1 DEF SchedulerInv, OrderRespectsDependencies, Current, Passed
<1>4. ASSUME NEW d \in deps[Current] PROVE results[d].status = "success"
  <2>1. d \in JobIds
    BY <1>2 DEF SchedulerInv, TypeOK
  <2>2. d \notin failed
    BY DEF Blocked
  <2>3. HasResult(d)
    BY <1>1, <1>2, <1>3 DEF SchedulerInv, LoopInv
  <2> QED BY <1>1, <2>1, <2>2, <2>3 DEF SchedulerInv, LoopInv
<1> QED BY <1>1, <1>2, <1>4

\* A step of the loop keeps the invariant and every result there is.
LEMMA LoopKeepsInv ==
  ASSUME SchedulerInv, RunStep, ~(PopNode \/ CycleFound \/ OrderFound)
  PROVE  /\ SchedulerInv'
         /\ \A j \in JobIds : HasResult(j) => results'[j] = results[j]
<1> USE DEF api, sorting, loop, LoopFrame
<1>1. TypeOK /\ TypeOK' /\ deps \in [JobIds -> SUBSET JobIds]
  BY LoopTypeStep DEF SchedulerInv, AttemptInv, AttemptTurn, TypeOK
<1>2. CASE AlreadyResolved
  <2>1. /\ phase = "loop" /\ phase' = "loop" /\ turn \in Turns /\ HasResult(Current)
        /\ turn' = turn + 1 /\ UNCHANGED <<jobs, deps, order, results, failed>>
    BY <1>2 DEF AlreadyResolved, Loop, NextTurn
  <2>2. LoopInv'
    <3> DEFINE S == {}
    <3>1. \A j \in JobIds : HasResult(j)' <=> HasResult(j) \/ j \in S
      BY <2>1 DEF HasResult
    <3>2. results'[Current] # NoResult
      BY <2>1 DEF HasResult
    <3>3. failed' = failed \cup {j \in S : results'[j].status # "success"}
      BY <2>1
    <3>4. S \in SUBSET JobIds /\ \A j \in JobIds : HasResult(j) => results'[j] = results[j]
      BY <2>1
    <3> HIDE DEF S
    <3> QED BY <2>1, <3>1, <3>2, <3>3, <3>4, TurnOver
  <2> QED BY <1>1, <2>1, <2>2, LoopStepKeepsInv DEF HasResult, Executed
<1>3. CASE ResolveCancelled
  <2> DEFINE hit == Reached(deps, Open \ {Current}, Current) \cup {Current}
             verdict == [j \in hit |-> IF j = Current THEN "cancelled" ELSE "skipped"]
  <2>1. /\ phase = "loop" /\ phase' = "loop" /\ turn \in Turns /\ ~HasResult(Current)
        /\ turn' = turn + 1 /\ UNCHANGED <<jobs, deps, order>>
        /\ Resolve(status, verdict)
    BY <1>3 DEF ResolveCancelled, Loop, NextTurn
  <2>2. Current \in Open
    BY <1>1, <2>1, CurrentType DEF Open, SchedulerInv, LoopInv, Current, Turns, Range
  <2>3. hit \in SUBSET Open /\ Current \in hit
    BY <2>2, ReachedSubset
  <2>4. DOMAIN verdict = hit /\ \A j \in hit : verdict[j] \in {"cancelled", "skipped"}
    OBVIOUS
  <2> HIDE DEF hit, verdict
  <2>5. /\ hit \in SUBSET JobIds
        /\ \A j \in JobIds : HasResult(j)' <=> HasResult(j) \/ j \in hit
        /\ \A j \in JobIds : HasResult(j) => results'[j] = results[j]
        /\ failed' = failed \cup {j \in hit : results'[j].status # "success"}
        /\ \A j \in JobIds : HasResult(j)' => HasResult(j) \/ j \in jobs
        /\ \A j \in JobIds : Executed(j)' => Executed(j)
    <3>1. TypeOK /\ Resolve(status, verdict)
      BY <1>1, <2>1
    <3> QED BY ONLY <2>3, <2>4, <3>1, ResolveResults
  <2>6. results'[Current] # NoResult
    BY <2>3, <2>5 DEF HasResult
  <2>7. LoopInv'
    BY <2>1, <2>5, <2>6, TurnOver
  <2> QED BY <1>1, <2>1, <2>5, <2>7, LoopStepKeepsInv
<1>4. CASE DeferPaused
  <2> DEFINE hit == Reached(deps, Open, Current)
             verdict == [j \in hit |-> "skipped"]
             st == [status EXCEPT ![Current] = "pending"]
  <2>1. /\ phase = "loop" /\ phase' = "loop" /\ turn \in Turns
        /\ turn' = turn + 1 /\ UNCHANGED <<jobs, deps, order>>
        /\ Resolve(st, verdict)
    BY <1>4 DEF DeferPaused, Loop, NextTurn
  <2>2. hit \in SUBSET Open
    BY ReachedSubset
  <2>3. \A e \in Open : Current \in deps[e] => e \in hit
    BY DEF Reached
  <2>4. DOMAIN verdict = hit /\ \A j \in hit : verdict[j] \in {"cancelled", "skipped"}
    OBVIOUS
  <2> HIDE DEF hit, verdict, st
  <2>5. /\ hit \in SUBSET JobIds
        /\ \A j \in JobIds : HasResult(j)' <=> HasResult(j) \/ j \in hit
        /\ \A j \in JobIds : HasResult(j) => results'[j] = results[j]
        /\ failed' = failed \cup {j \in hit : results'[j].status # "success"}
        /\ \A j \in JobIds : HasResult(j)' => HasResult(j) \/ j \in jobs
        /\ \A j \in JobIds : Executed(j)' => Executed(j)
    <3>1. TypeOK /\ Resolve(st, verdict)
      BY <1>1, <2>1
    <3> QED BY ONLY <2>2, <2>4, <3>1, ResolveResults
  <2>6. \A e \in Range(order) : Current \in deps[e] => HasResult(e)'
    <3>1. \A e \in Range(order) : e \in JobIds /\ (HasResult(e) \/ e \in Open)
      BY <1>1, <2>1 DEF Open, SchedulerInv, LoopInv, TypeOK
    <3> QED BY <2>3, <2>5, <3>1
  <2>7. LoopInv'
    BY <2>1, <2>5, <2>6, TurnOver
  <2> QED BY <1>1, <2>1, <2>5, <2>7, LoopStepKeepsInv
<1>5. CASE ResolveSkipped
  <2> DEFINE verdict == [j \in {Current} |-> "skipped"]
  <2>1. /\ phase = "loop" /\ phase' = "loop" /\ turn \in Turns /\ ~HasResult(Current)
        /\ turn' = turn + 1 /\ UNCHANGED <<jobs, deps, order>>
        /\ Resolve(status, verdict)
    BY <1>5 DEF ResolveSkipped, Runnable, Loop, NextTurn
  <2>2. {Current} \in SUBSET Open
    BY <1>1, <2>1, CurrentType DEF Open, SchedulerInv, LoopInv, Current, Turns, Range
  <2>3. DOMAIN verdict = {Current} /\ \A j \in {Current} : verdict[j] \in {"cancelled", "skipped"}
    OBVIOUS
  <2> HIDE DEF verdict
  <2>4. /\ {Current} \in SUBSET JobIds
        /\ \A j \in JobIds : HasResult(j)' <=> HasResult(j) \/ j \in {Current}
        /\ \A j \in JobIds : HasResult(j) => results'[j] = results[j]
        /\ failed' = failed \cup {j \in {Current} : results'[j].status # "success"}
        /\ \A j \in JobIds : HasResult(j)' => HasResult(j) \/ j \in jobs
        /\ \A j \in JobIds : Executed(j)' => Executed(j)
    <3>1. TypeOK /\ Resolve(status, verdict)
      BY <1>1, <2>1
    <3> QED BY ONLY <2>2, <2>3, <3>1, ResolveResults
  <2>5. results'[Current] # NoResult
    BY <2>4 DEF HasResult
  <2>6. LoopInv'
    BY <2>1, <2>4, <2>5, TurnOver
  <2> QED BY <1>1, <2>1, <2>4, <2>6, LoopStepKeepsInv
<1>6. CASE StartFirstAttempt
  <2>1. /\ phase = "loop" /\ phase' = "attempt" /\ turn \in Turns
        /\ UNCHANGED <<jobs, deps, order, results, failed, turn>>
    BY <1>6 DEF StartFirstAttempt, Runnable, Loop
  <2>2. /\ Current \in JobIds /\ ~HasResult(Current)
        /\ \A d \in deps[Current] : results[d].status = "success"
    BY <1>6, ReadyJob DEF StartFirstAttempt
  <2>3. LoopInv'
    BY <2>1 DEF SchedulerInv, LoopInv, HasResult, Passed, Turns
  <2>4. AttemptInv' /\ RunsOnlyAfterDependencies'
    BY <2>1, <2>2 DEF SchedulerInv, AttemptInv, RunsOnlyAfterDependencies, HasResult,
       Current, Turns, Executed
  <2>5. SortInv' /\ \A j \in JobIds : HasResult(j)' => j \in jobs'
    BY <2>1 DEF SchedulerInv, SortInv, HasResult
  <2> QED BY <1>1, <2>1, <2>3, <2>4, <2>5, OrderKept DEF SchedulerInv
<1>7. ASSUME NEW st \in {"success", "failed"}, NEW n, Store(Current, st, n),
             phase \in {"loop", "attempt"}, turn \in Turns, phase' = "loop",
             UNCHANGED <<jobs, deps, order>>,
             Current \in JobIds, Current \in jobs, ~HasResult(Current),
             \A d \in deps[Current] : results[d].status = "success"
      PROVE  /\ SchedulerInv'
             /\ \A j \in JobIds : HasResult(j) => results'[j] = results[j]
  <2>1. /\ \A i \in JobIds : HasResult(i)' <=> HasResult(i) \/ i \in {Current}
        /\ \A i \in JobIds : HasResult(i) => results'[i] = results[i]
        /\ failed' = failed \cup {i \in {Current} : results'[i].status # "success"}
        /\ \A i \in JobIds : Executed(i)' => Executed(i) \/ i = Current
        /\ turn' = turn + 1
    BY <1>1, <1>7, StoreResults
  <2>2. results'[Current] # NoResult /\ {Current} \in SUBSET JobIds
    BY <1>7, <2>1 DEF HasResult
  <2>3. LoopInv'
    BY <1>7, <2>1, <2>2, TurnOver
  <2> QED BY <1>1, <1>7, <2>1, <2>3, LoopStepKeepsInv
<1>8. CASE StartWithoutAttempts
  <2>1. /\ Runnable /\ ~Blocked /\ Store(Current, "failed", 0)
        /\ phase = "loop" /\ turn \in Turns /\ phase' = "loop"
        /\ UNCHANGED <<jobs, deps, order>>
    BY <1>8 DEF StartWithoutAttempts, Runnable, Loop
  <2> QED BY <1>7, <2>1, ReadyJob
<1>9. CASE StartUnsupported \/ RunReturns \/ HandlerFatal
  <2>1. phase' = "idle" /\ UNCHANGED <<jobs, deps, order, results>>
    BY <1>9 DEF StartUnsupported, RunReturns, HandlerFatal, Raise
  <2>2. LoopInv'
    BY <2>1 DEF LoopInv
  <2> QED BY <1>1, <2>1, <2>2, LoopStepKeepsInv DEF HasResult, Executed
<1>10. phase = "attempt" =>
         /\ turn \in Turns /\ Current \in JobIds /\ Current \in jobs /\ ~HasResult(Current)
         /\ \A d \in deps[Current] : results[d].status = "success"
  BY <1>1, CurrentType DEF SchedulerInv, AttemptInv, Current, Turns, Range
<1>11. CASE HandlerReturns
  <2>1. /\ phase = "attempt" /\ Store(Current, "success", attempt) /\ phase' = "loop"
        /\ UNCHANGED <<jobs, deps, order>>
    BY <1>11 DEF HandlerReturns, Attempting
  <2> QED BY <1>7, <1>10, <2>1
<1>12. CASE HandlerExhausted
  <2>1. /\ phase = "attempt" /\ Store(Current, "failed", attempt) /\ phase' = "loop"
        /\ UNCHANGED <<jobs, deps, order>>
    BY <1>12 DEF HandlerExhausted, Attempting
  <2> QED BY <1>7, <1>10, <2>1
<1>13. CASE HandlerFailsRetryable
  <2>1. /\ phase = "attempt" /\ phase' = "attempt"
        /\ UNCHANGED <<jobs, deps, order, results, failed, turn>>
    BY <1>13 DEF HandlerFailsRetryable, Attempting
  <2>2. LoopInv' /\ AttemptInv' /\ RunsOnlyAfterDependencies'
    BY <2>1 DEF SchedulerInv, LoopInv, AttemptInv, RunsOnlyAfterDependencies, HasResult,
       Current, Turns, Executed, Passed
  <2>3. SortInv' /\ \A j \in JobIds : HasResult(j)' => j \in jobs'
    BY <2>1 DEF SchedulerInv, SortInv, HasResult
  <2> QED BY <1>1, <2>1, <2>2, <2>3, OrderKept DEF SchedulerInv
<1> QED BY <1>2, <1>3, <1>4, <1>5, <1>6, <1>8, <1>9, <1>11, <1>12, <1>13 DEF RunStep

LEMMA NextSchedulerInv == SchedulerInv /\ [Next]_vars => SchedulerInv'
<1> SUFFICES ASSUME SchedulerInv, [Next]_vars PROVE SchedulerInv'
  OBVIOUS
<1>1. CASE UNCHANGED vars
  BY <1>1 DEF vars, api, sorting, loop, SchedulerInv, TypeOK, OrderRespectsDependencies,
     SortInv, LoopInv, AttemptInv, RunsOnlyAfterDependencies, HasResult, Executed,
     Current, Turns, Passed
<1>2. CASE ApiStep
  BY <1>2, ApiKeepsInv
<1>3. CASE RunRejected \/ RunCalled \/ PopNode \/ CycleFound \/ OrderFound
  BY <1>3, SortStepKeepsInv
<1>4. CASE RunStep /\ ~(PopNode \/ CycleFound \/ OrderFound)
  BY <1>4, LoopKeepsInv
<1> QED BY <1>1, <1>2, <1>3, <1>4 DEF Next

\* The strengthened invariant holds in every reachable state.
THEOREM SchedulerInvariant == Spec => []SchedulerInv
BY InitSchedulerInv, NextSchedulerInv, PTL DEF Spec

\* Every reachable state of the scheduler is well typed.
THEOREM SchedulerTypeCorrect == Spec => []TypeOK
<1>1. SchedulerInv => TypeOK
  BY DEF SchedulerInv
<1> QED BY <1>1, SchedulerInvariant, PTL

\* topological_order lists every job once, after its dependencies, for every
\* graph it gives an order.
THEOREM SchedulerOrder == Spec => []OrderRespectsDependencies
<1>1. SchedulerInv => OrderRespectsDependencies
  BY DEF SchedulerInv
<1> QED BY <1>1, SchedulerInvariant, PTL

\* Job.dependencies: "Job ids that must succeed before this job runs" - for
\* any graph, any failures, and handlers that call back.
THEOREM SchedulerDependencies == Spec => []RunsOnlyAfterDependencies
<1>1. SchedulerInv => RunsOnlyAfterDependencies
  BY DEF SchedulerInv
<1> QED BY <1>1, SchedulerInvariant, PTL

\* A result, once stored, stays until the next run has its order.
THEOREM SchedulerResultsFinal == Spec => ResultsAreFinal
<1>1. SchedulerInv /\ [Next]_vars =>
        [phase # "sort" => \A j \in JobIds : HasResult(j) => results'[j] = results[j]]_vars
  <2> SUFFICES ASSUME SchedulerInv, Next, phase # "sort", NEW j \in JobIds, HasResult(j)
               PROVE  results'[j] = results[j]
    OBVIOUS
  <2>1. CASE ApiStep
    BY <2>1 DEF ApiStep, RegisterJob, RegisterHandler, Cancel, Pause, Resume,
       ClearHistory, RunFrame
  <2>2. CASE RunRejected \/ RunCalled
    BY <2>2 DEF RunRejected, RunCalled
  <2>3. CASE RunStep
    <3>1. ~(PopNode \/ CycleFound \/ OrderFound)
      BY DEF PopNode, CycleFound, OrderFound
    <3> QED BY <2>3, <3>1, LoopKeepsInv
  <2> QED BY <2>1, <2>2, <2>3 DEF Next
<1> QED BY <1>1, SchedulerInvariant, PTL DEF Spec, ResultsAreFinal

------------------------------------------------------------------------------
(* What the steps of run() write, job by job.                              *)

\* _resolve_terminal writes the three books of the jobs it is called for.
LEMMA ResolveEffect ==
  ASSUME NEW st, NEW verdict, Resolve(st, verdict), NEW j \in JobIds
  PROVE  /\ j \in DOMAIN verdict =>
              /\ results'[j] = [status |-> verdict[j], attempt |-> 0]
              /\ status'[j] = verdict[j]
              /\ history'[j] = Append(history[j], [status |-> verdict[j], attempt |-> 0])
         /\ j \notin DOMAIN verdict =>
              /\ results'[j] = results[j]
              /\ status'[j] = st[j]
              /\ history'[j] = history[j]
BY DEF Resolve

\* What _propagate_skip reaches depends on the node or on something reached,
\* and everything open that does is reached.
LEMMA ReachedIsClosed ==
  ASSUME NEW d, NEW open, NEW node
  PROVE  \A n \in open :
           d[n] \cap (Reached(d, open, node) \cup {node}) # {} => n \in Reached(d, open, node)
<1> DEFINE R == Reached(d, open, node)
           Closed(S) == \A n \in open : d[n] \cap (S \cup {node}) # {} => n \in S
<1>1. R = {n \in open : \A S \in SUBSET open : Closed(S) => n \in S}
  BY DEF Reached
<1> SUFFICES ASSUME NEW n \in open, d[n] \cap (R \cup {node}) # {},
                    NEW S \in SUBSET open, Closed(S)
             PROVE  n \in S
  BY <1>1
<1>2. R \subseteq S
  BY <1>1
<1> HIDE DEF R
<1> QED BY <1>2

\* Nothing is reached without a reason: the least closed set has no member
\* that depends on nothing in it.
LEMMA ReachedHasCause ==
  ASSUME NEW d, NEW open, NEW node, NEW n \in Reached(d, open, node)
  PROVE  d[n] \cap (Reached(d, open, node) \cup {node}) # {}
<1> DEFINE R == Reached(d, open, node)
           Closed(S) == \A m \in open : d[m] \cap (S \cup {node}) # {} => m \in S
           rest == R \ {n}
<1>1. R = {m \in open : \A S \in SUBSET open : Closed(S) => m \in S}
  BY DEF Reached
<1>2. \A m \in open : d[m] \cap (R \cup {node}) # {} => m \in R
  BY ReachedIsClosed
<1> SUFFICES ASSUME d[n] \cap (R \cup {node}) = {} PROVE FALSE
  OBVIOUS
<1>3. rest \in SUBSET open
  BY <1>1
<1>4. Closed(rest)
  <2> SUFFICES ASSUME NEW m \in open, d[m] \cap (rest \cup {node}) # {} PROVE m \in rest
    OBVIOUS
  <2>1. d[m] \cap (R \cup {node}) # {}
    OBVIOUS
  <2> HIDE DEF R
  <2> QED BY <1>2, <2>1
<1>5. n \in R
  OBVIOUS
<1> HIDE DEF rest, Closed, R
<1>6. n \in rest
  BY <1>1, <1>3, <1>4, <1>5
<1> QED BY <1>6 DEF rest

\* Where the indices of a run lie.
LEMMA OrderFacts ==
  ASSUME SchedulerInv
  PROVE  /\ order \in Seq(JobIds) /\ Turns = 1 .. Len(order) /\ Len(order) \in Nat
         /\ turn \in Nat /\ Range(order) \subseteq JobIds
         /\ \A k, m \in Turns : order[k] = order[m] => k = m
         /\ \A k \in Turns : order[k] \in JobIds /\ order[k] \in jobs /\ order[k] \in Range(order)
BY DEF SchedulerInv, TypeOK, Turns, Range, OrderRespectsDependencies

\* Skips go forward: nothing whose turn has come is reached, so neither a
\* finished nor a deferred job is.
LEMMA ReachedIsAhead ==
  ASSUME SchedulerInv, turn \in Turns, NEW open,
         NEW k \in Turns, order[k] \in Reached(deps, open, Current)
  PROVE  k > turn
<1> DEFINE Ahead == {n \in open : \A m \in Turns : order[m] = n => m > turn}
           Closed(S) == \A n \in open : deps[n] \cap (S \cup {Current}) # {} => n \in S
<1>1. Closed(Ahead)
  <2> SUFFICES ASSUME NEW n \in open, NEW d \in deps[n], d \in Ahead \cup {Current},
                      NEW m \in Turns, order[m] = n
               PROVE  m > turn
    OBVIOUS
  <2>1. PICK i \in Turns : i < m /\ d = order[i]
    BY DEF SchedulerInv, OrderRespectsDependencies
  <2>2. i \in Nat /\ m \in Nat /\ turn \in Nat
    BY OrderFacts
  <2>3. CASE d \in Ahead
    BY <2>1, <2>2, <2>3
  <2>4. CASE d = Current
    <3>1. i = turn
      BY <2>1, <2>4, OrderFacts DEF Current
    <3> QED BY <2>1, <2>2, <3>1
  <2> QED BY <2>3, <2>4
<1>2. Ahead \in SUBSET open
  OBVIOUS
<1>3. order[k] \in {n \in open : \A S \in SUBSET open : Closed(S) => n \in S}
  BY DEF Reached
<1>4. order[k] \in Ahead
  <2> HIDE DEF Ahead, Closed
  <2> QED BY <1>1, <1>2, <1>3
<1> QED BY <1>4

\* The three kinds of step that resolve jobs, and what they write for the
\* jobs S they resolve.
ResolveStep == ResolveCancelled \/ DeferPaused \/ ResolveSkipped

Resolves(S) ==
  /\ \A j \in S :
       \E e \in Result :
         /\ e.status \in {"cancelled", "skipped"} /\ e.attempt = 0
         /\ results'[j] = e /\ status'[j] = e.status
         /\ history'[j] = Append(history[j], e)
         /\ j # Current => e.status = "skipped"
         /\ e.status = "skipped" => deps[j] \cap (S \cup failed \cup {Current}) # {}
  /\ \A j \in JobIds \ S :
         /\ results'[j] = results[j]
         /\ j # Current => status'[j] = status[j]
         /\ history'[j] = history[j]
  /\ failed' = failed \cup S
  /\ Current \notin S =>
       /\ status'[Current] = "pending"
       /\ \A j \in Open : Current \in deps[j] => j \in S

\* A ResolveStep leaves the sort, the graph and the attempt alone.
LEMMA ResolveStepFrame ==
  ASSUME SchedulerInv, ResolveStep
  PROVE  /\ phase = "loop" /\ phase' = "loop" /\ turn \in Turns /\ ~HasResult(Current)
         /\ turn' = turn + 1
         /\ Current \in JobIds /\ Current \in Open /\ Open \subseteq JobIds
         /\ UNCHANGED <<jobs, deps, order, attempt, outcome, queue, sorted>>
<1>1. /\ phase = "loop" /\ phase' = "loop" /\ turn \in Turns /\ ~HasResult(Current)
      /\ turn' = turn + 1
      /\ UNCHANGED <<jobs, deps, order, attempt, outcome, queue, sorted>>
  BY DEF ResolveStep, ResolveCancelled, DeferPaused, ResolveSkipped, Runnable, Loop,
     NextTurn, LoopFrame, api, sorting
<1>2. Current \in JobIds /\ Current \in Open /\ Open \subseteq JobIds
  BY <1>1, CurrentType DEF Open, SchedulerInv, TypeOK, LoopInv, Current, Turns, Range
<1> QED BY <1>1, <1>2

\* From a call of _resolve_terminal to Resolves.
LEMMA ResolveToResolves ==
  ASSUME SchedulerInv, NEW st, NEW verdict, Resolve(st, verdict),
         NEW S \in SUBSET JobIds, S = DOMAIN verdict,
         \A j \in S :
           /\ verdict[j] \in {"cancelled", "skipped"}
           /\ j # Current => verdict[j] = "skipped"
           /\ verdict[j] = "skipped" => deps[j] \cap (S \cup failed \cup {Current}) # {},
         \A j \in JobIds : j # Current => st[j] = status[j],
         Current \in JobIds,
         Current \notin S => /\ st[Current] = "pending"
                             /\ \A j \in Open : Current \in deps[j] => j \in S
  PROVE  Resolves(S)
<1>1. ASSUME NEW j \in S
      PROVE  \E e \in Result :
               /\ e.status \in {"cancelled", "skipped"} /\ e.attempt = 0
               /\ results'[j] = e /\ status'[j] = e.status
               /\ history'[j] = Append(history[j], e)
               /\ j # Current => e.status = "skipped"
               /\ e.status = "skipped" => deps[j] \cap (S \cup failed \cup {Current}) # {}
  <2> DEFINE e == [status |-> verdict[j], attempt |-> 0]
  <2>1. verdict[j] \in {"cancelled", "skipped"} /\ j \in JobIds
    OBVIOUS
  <2>2. e \in Result /\ e.status = verdict[j] /\ e.attempt = 0
    BY <2>1 DEF Result, Final
  <2>3. results'[j] = e /\ status'[j] = verdict[j] /\ history'[j] = Append(history[j], e)
    BY <2>1, ResolveEffect
  <2> HIDE DEF e
  <2> QED BY <2>1, <2>2, <2>3
<1>2. ASSUME NEW j \in JobIds \ S
      PROVE  /\ results'[j] = results[j]
             /\ j # Current => status'[j] = status[j]
             /\ history'[j] = history[j]
  <2>1. j \in JobIds /\ j \notin DOMAIN verdict
    OBVIOUS
  <2>2. results'[j] = results[j] /\ status'[j] = st[j] /\ history'[j] = history[j]
    BY <2>1 DEF Resolve
  <2> QED BY <2>1, <2>2
<1>3. ASSUME Current \notin S PROVE status'[Current] = "pending"
  <2>1. Current \notin DOMAIN verdict /\ st[Current] = "pending"
    BY <1>3
  <2>2. status'[Current] = st[Current]
    BY <2>1 DEF Resolve
  <2> QED BY <2>1, <2>2
<1>4. failed' = failed \cup S
  BY DEF Resolve
<1> QED BY <1>1, <1>2, <1>3, <1>4 DEF Resolves

\* What each of the three ways to resolve a job does to the books.
LEMMA ResolveStepEffect ==
  ASSUME SchedulerInv, ResolveStep
  PROVE  \E S \in SUBSET Open :
           /\ Resolves(S)
           /\ \A k \in Turns : order[k] \in S => k >= turn
<1>1. /\ turn \in Turns /\ Current \in JobIds /\ Current \in Open
      /\ Open \subseteq JobIds
  BY ResolveStepFrame
<1>2. \A k \in Turns : k \in Nat /\ turn \in Nat
  BY OrderFacts
<1>3. CASE ResolveCancelled
  <2> DEFINE R == Reached(deps, Open \ {Current}, Current)
             S == R \cup {Current}
             verdict == [j \in S |-> IF j = Current THEN "cancelled" ELSE "skipped"]
  <2>1. R \subseteq Open \ {Current}
    BY ReachedSubset
  <2>2. Resolve(status, verdict)
    BY <1>3 DEF ResolveCancelled
  <2>3. \A k \in Turns : order[k] \in R => k > turn
    BY <1>1, ReachedIsAhead
  <2>4. \A k \in Turns : order[k] \in S => k >= turn
    <3>1. \A k \in Turns : order[k] = Current => k = turn
      BY <1>1, OrderFacts DEF Current
    <3> HIDE DEF R
    <3> QED BY <1>2, <2>3, <3>1
  <2>5. \A j \in R : deps[j] \cap (R \cup {Current}) # {}
    BY ReachedHasCause
  <2>6. /\ S = DOMAIN verdict
        /\ \A j \in S : verdict[j] \in {"cancelled", "skipped"}
                        /\ (j # Current => verdict[j] = "skipped")
        /\ verdict[Current] = "cancelled"
    OBVIOUS
  <2>7. \A j \in S : verdict[j] = "skipped" => deps[j] \cap (S \cup failed \cup {Current}) # {}
    <3> HIDE DEF R, verdict
    <3> QED BY <2>5, <2>6
  <2>8. S \in SUBSET Open /\ S \in SUBSET JobIds /\ Current \in S
    BY <1>1, <2>1
  <2> HIDE DEF R, S, verdict
  <2>9. Resolves(S)
    BY <1>1, <2>2, <2>6, <2>7, <2>8, ResolveToResolves
  <2> QED BY <2>4, <2>8, <2>9
<1>4. CASE DeferPaused
  <2> DEFINE S == Reached(deps, Open, Current)
             verdict == [j \in S |-> "skipped"]
             st == [status EXCEPT ![Current] = "pending"]
  <2>1. S \in SUBSET Open /\ S \in SUBSET JobIds
    BY <1>1, ReachedSubset
  <2>2. Resolve(st, verdict)
    BY <1>4 DEF DeferPaused
  <2>3. \A k \in Turns : order[k] \in S => k > turn
    BY <1>1, ReachedIsAhead
  <2>4. \A k \in Turns : order[k] \in S => k >= turn
    <3> HIDE DEF S
    <3> QED BY <1>2, <2>3
  <2>5. \A j \in S : deps[j] \cap (S \cup {Current}) # {}
    BY ReachedHasCause
  <2>6. \A j \in Open : Current \in deps[j] => j \in S
    BY ReachedIsClosed
  <2>7. S = DOMAIN verdict /\ \A j \in S : verdict[j] = "skipped"
    OBVIOUS
  <2>8. st[Current] = "pending" /\ \A j \in JobIds : j # Current => st[j] = status[j]
    BY <1>1 DEF SchedulerInv, TypeOK
  <2> HIDE DEF S, verdict, st
  <2>9. Resolves(S)
    <3>1. \A j \in S : deps[j] \cap (S \cup failed \cup {Current}) # {}
      BY <2>5
    <3> QED BY <1>1, <2>1, <2>2, <2>6, <2>7, <2>8, <3>1, ResolveToResolves
  <2> QED BY <2>1, <2>4, <2>9
<1>5. CASE ResolveSkipped
  <2> DEFINE verdict == [j \in {Current} |-> "skipped"]
  <2>1. Resolve(status, verdict) /\ deps[Current] \cap failed # {}
    BY <1>5 DEF ResolveSkipped, Blocked
  <2>2. {Current} = DOMAIN verdict /\ verdict[Current] = "skipped"
    OBVIOUS
  <2>3. {Current} \in SUBSET Open /\ {Current} \in SUBSET JobIds
    BY <1>1
  <2> HIDE DEF verdict
  <2>4. Resolves({Current})
    <3> DEFINE S == {Current}
    <3>1. \A j \in S : /\ verdict[j] = "skipped"
                       /\ deps[j] \cap (S \cup failed \cup {Current}) # {}
      BY <2>1, <2>2
    <3>2. S \in SUBSET JobIds /\ S = DOMAIN verdict /\ Current \in S
      BY <2>2, <2>3
    <3> HIDE DEF S
    <3>3. Resolves(S)
      BY <1>1, <2>1, <3>1, <3>2, ResolveToResolves
    <3> QED BY <3>3 DEF S
  <2>5. \A k \in Turns : order[k] \in {Current} => k >= turn
    BY <1>1, <1>2, OrderFacts DEF Current
  <2> QED BY <2>3, <2>4, <2>5
<1> QED BY <1>3, <1>4, <1>5 DEF ResolveStep

------------------------------------------------------------------------------
(* The three books.                                                        *)

\* Result r, status s and history h of one job do not contradict each other.
Agree(r, s, h) ==
  r # NoResult =>
    /\ s = r.status
    /\ r # [status |-> "failed", attempt |-> 0] /\ h # <<>> => h[Len(h)] = r

\* Appending the current result to the history keeps the books in agreement.
LEMMA AgreeAfterAppend ==
  ASSUME NEW h \in Seq(Record), NEW e \in Result
  PROVE  Agree(e, e.status, Append(h, e))
<1>1. e \in Record
  BY DEF Result, Record, Final, Statuses
<1>2. Append(h, e)[Len(Append(h, e))] = e
  BY <1>1
<1> QED BY <1>2 DEF Agree

BooksInv ==
  /\ \A j \in JobIds : Agree(results[j], status[j], history[j])
  /\ phase = "attempt" => status[Current] = "running"

\* BooksInv restates the property job by job.
LEMMA BooksAgree == BooksInv <=> ThreeBooksAgree
BY DEF BooksInv, ThreeBooksAgree, Agree, HasResult

\* register() and a new run, between runs.
LEMMA ApiKeepsBooks ==
  ASSUME SchedulerInv, BooksInv, ApiStep
  PROVE  BooksInv'
<1>1. UNCHANGED <<results, phase, order, turn>>
  BY DEF ApiStep, RegisterJob, RegisterHandler, Cancel, Pause, Resume, ClearHistory,
     RunFrame, loop
<1>2. CASE \E j \in JobIds : \E ds \in Graphs[j] : RegisterJob(j, ds)
  <2>1. PICK i \in JobIds : i \notin jobs /\ status' = [status EXCEPT ![i] = "pending"]
                            /\ UNCHANGED history
    BY <1>2 DEF RegisterJob
  <2>2. results[i] = NoResult
    BY <2>1 DEF SchedulerInv, HasResult
  <2>3. \A j \in JobIds \ {i} : status'[j] = status[j]
    BY <2>1 DEF SchedulerInv, TypeOK
  <2>4. \A j \in JobIds : Agree(results[j], status[j], history[j])'
    BY <1>1, <2>1, <2>2, <2>3 DEF BooksInv, Agree
  <2>5. phase = "attempt" => Current \in JobIds \ {i}
    BY <2>1, CurrentType DEF SchedulerInv, AttemptInv, Current, Turns, Range
  <2> QED BY <1>1, <2>3, <2>4, <2>5 DEF BooksInv, Current
<1>3. CASE ClearHistory
  <2>1. UNCHANGED status /\ history' = [j \in JobIds |-> <<>>]
    BY <1>3 DEF ClearHistory
  <2> QED BY <1>1, <2>1 DEF BooksInv, Agree, Current
<1>4. CASE UNCHANGED <<status, history>>
  BY <1>1, <1>4 DEF BooksInv, Current
<1>5. \/ UNCHANGED <<status, history>> \/ ClearHistory
      \/ \E j \in JobIds : \E ds \in Graphs[j] : RegisterJob(j, ds)
  BY DEF ApiStep, RegisterHandler, Cancel, Pause, Resume
<1> QED BY <1>2, <1>3, <1>4, <1>5

\* run() copies the status of the result it stores.
LEMMA StoreEffect ==
  ASSUME SchedulerInv, NEW i \in JobIds, NEW st, NEW n, Store(i, st, n)
  PROVE  /\ results'[i] = [status |-> st, attempt |-> n] /\ status'[i] = st
         /\ \A j \in JobIds \ {i} : results'[j] = results[j] /\ status'[j] = status[j]
         /\ turn' = turn + 1
BY DEF Store, NextTurn, SchedulerInv, TypeOK

\* HistoryStore.record for the job i.
LEMMA RecordEffect ==
  ASSUME SchedulerInv, NEW i \in JobIds, NEW st, RecordAttempt(i, st)
  PROVE  /\ history'[i] = Append(history[i], [status |-> st, attempt |-> attempt])
         /\ \A j \in JobIds \ {i} : history'[j] = history[j]
BY DEF RecordAttempt, SchedulerInv, TypeOK

\* The steps inside a run.
LEMMA RunKeepsBooks ==
  ASSUME SchedulerInv, BooksInv, RunStep
  PROVE  BooksInv'
<1>1. CASE PopNode \/ CycleFound \/ AlreadyResolved \/ RunReturns
  <2>1. UNCHANGED <<results, status, history>> /\ phase' # "attempt"
    BY <1>1 DEF PopNode, CycleFound, AlreadyResolved, RunReturns, Loop, LoopFrame, vars
  <2> QED BY <2>1 DEF BooksInv
<1>2. CASE OrderFound
  BY <1>2 DEF OrderFound, BooksInv, Agree
<1>3. CASE ResolveStep
  <2>1. PICK S \in SUBSET Open : Resolves(S)
    BY <1>3, ResolveStepEffect
  <2>2. phase' = "loop" /\ results[Current] = NoResult
    BY <1>3, ResolveStepFrame DEF HasResult
  <2>3. ASSUME NEW j \in JobIds PROVE Agree(results[j], status[j], history[j])'
    <3>1. CASE j \in S
      <4>1. history[j] \in Seq(Record)
        BY DEF SchedulerInv, TypeOK
      <4> QED BY <2>1, <3>1, <4>1, AgreeAfterAppend DEF Resolves
    <3>2. CASE j \notin S
      BY <2>1, <2>2, <3>2 DEF BooksInv, Agree, Resolves
    <3> QED BY <3>1, <3>2
  <2> QED BY <2>2, <2>3 DEF BooksInv
<1>4. CASE StartFirstAttempt \/ StartUnsupported
  <2>1. /\ UNCHANGED <<results, history, order, turn>> /\ Current \in JobIds
        /\ status' = [status EXCEPT ![Current] = "running"] /\ results[Current] = NoResult
    BY <1>4, CurrentType DEF StartFirstAttempt, StartUnsupported, Runnable, Loop, HasResult,
       SchedulerInv, loop
  <2>2. /\ status'[Current] = "running"
        /\ \A j \in JobIds \ {Current} : status'[j] = status[j]
    BY <2>1 DEF SchedulerInv, TypeOK
  <2> QED BY <2>1, <2>2 DEF BooksInv, Agree, Current
<1>5. CASE StartWithoutAttempts
  <2>1. /\ phase' = "loop" /\ UNCHANGED history /\ Current \in JobIds
        /\ Store(Current, "failed", 0)
    BY <1>5, CurrentType DEF StartWithoutAttempts, Runnable, Loop, LoopFrame, SchedulerInv
  <2>2. /\ results'[Current] = [status |-> "failed", attempt |-> 0]
        /\ status'[Current] = "failed"
        /\ \A j \in JobIds \ {Current} : results'[j] = results[j] /\ status'[j] = status[j]
    BY <2>1, StoreEffect
  <2> QED BY <2>1, <2>2 DEF BooksInv, Agree
<1>6. phase = "attempt" => Current \in JobIds /\ results[Current] = NoResult
  BY CurrentType DEF SchedulerInv, AttemptInv, HasResult
<1>7. CASE HandlerReturns \/ HandlerExhausted
  <2>1. PICK st \in {"success", "failed"} :
          RecordAttempt(Current, st) /\ Store(Current, st, attempt)
    BY <1>7 DEF HandlerReturns, HandlerExhausted
  <2> DEFINE e == [status |-> st, attempt |-> attempt]
  <2>2. phase' = "loop" /\ Current \in JobIds
    BY <1>6, <1>7 DEF HandlerReturns, HandlerExhausted, Attempting
  <2>3. /\ results'[Current] = e /\ status'[Current] = st
        /\ \A j \in JobIds \ {Current} : results'[j] = results[j] /\ status'[j] = status[j]
    BY <2>1, <2>2, StoreEffect
  <2>4. /\ history'[Current] = Append(history[Current], e)
        /\ \A j \in JobIds \ {Current} : history'[j] = history[j]
    BY <2>1, <2>2, RecordEffect
  <2>5. e \in Result /\ e.status = st /\ history[Current] \in Seq(Record)
    BY <2>2 DEF Result, Final, SchedulerInv, TypeOK
  <2> HIDE DEF e
  <2>6. Agree(results'[Current], status'[Current], history'[Current])
    BY <2>3, <2>4, <2>5, AgreeAfterAppend
  <2>7. \A j \in JobIds \ {Current} : Agree(results[j], status[j], history[j])'
    BY <2>3, <2>4 DEF BooksInv, Agree
  <2> QED BY <2>2, <2>6, <2>7 DEF BooksInv
<1>8. CASE HandlerFailsRetryable \/ HandlerFatal
  <2>1. PICK st : RecordAttempt(Current, st)
    BY <1>8 DEF HandlerFailsRetryable, HandlerFatal
  <2>2. /\ UNCHANGED <<results, status, order, turn>> /\ Current \in JobIds
        /\ results[Current] = NoResult /\ phase = "attempt"
    BY <1>6, <1>8 DEF HandlerFailsRetryable, HandlerFatal, Attempting, loop
  <2>3. \A j \in JobIds \ {Current} : history'[j] = history[j]
    BY <2>1, <2>2, RecordEffect
  <2> QED BY <2>2, <2>3 DEF BooksInv, Agree, Current
<1> QED BY <1>1, <1>2, <1>3, <1>4, <1>5, <1>7, <1>8 DEF RunStep, ResolveStep

\* status_of, results() and HistoryStore.latest never contradict each other,
\* whatever the graph, the failures and the callbacks.
THEOREM SchedulerBooks == Spec => []ThreeBooksAgree
<1>1. Init => BooksInv
  BY DEF Init, BooksInv, Agree
<1>2. SchedulerInv /\ BooksInv /\ [Next]_vars => BooksInv'
  <2> SUFFICES ASSUME SchedulerInv, BooksInv, [Next]_vars PROVE BooksInv'
    OBVIOUS
  <2>1. CASE RunRejected \/ RunCalled \/ UNCHANGED vars
    <3>1. UNCHANGED <<results, status, history, order, turn>> /\ phase' \in {phase, "sort"}
      BY <2>1 DEF RunRejected, RunCalled, vars, loop
    <3> QED BY <3>1 DEF BooksInv, Current
  <2> QED BY <2>1, ApiKeepsBooks, RunKeepsBooks DEF Next
<1>3. BooksInv => ThreeBooksAgree
  BY BooksAgree
<1> QED BY <1>1, <1>2, <1>3, SchedulerInvariant, PTL DEF Spec

------------------------------------------------------------------------------
(* Retries.                                                                *)

\* Every record of history h is within max attempts, and follows the record
\* of the attempt before it.
Retried(h, max) ==
  \A k \in DOMAIN h :
    /\ h[k].attempt <= max
    /\ h[k].status = "running" => h[k].attempt < max
    /\ k > 1 /\ h[k].attempt > 1 =>
         h[k - 1] = [status |-> "running", attempt |-> h[k].attempt - 1]

\* Attempt n may be recorded next in h.
MayFollow(h, n) ==
  n > 1 /\ h # <<>> => h[Len(h)] = [status |-> "running", attempt |-> n - 1]

\* A record that may follow keeps the history well formed.
LEMMA RetriedAfterAppend ==
  ASSUME NEW max \in Nat, NEW h \in Seq(Record), Retried(h, max),
         NEW e \in Record, e.attempt <= max, MayFollow(h, e.attempt),
         e.status = "running" => e.attempt < max
  PROVE  Retried(Append(h, e), max)
<1>1. /\ DOMAIN h = 1 .. Len(h) /\ Len(h) \in Nat
      /\ DOMAIN Append(h, e) = 1 .. Len(h) + 1
      /\ \A k \in 1 .. Len(h) : Append(h, e)[k] = h[k]
      /\ Append(h, e)[Len(h) + 1] = e
  OBVIOUS
<1>2. \A k \in 1 .. Len(h) : k > 1 => k - 1 \in 1 .. Len(h)
  BY <1>1
<1>3. Len(h) + 1 > 1 => h # <<>> /\ Len(h) \in 1 .. Len(h) /\ (Len(h) + 1) - 1 = Len(h)
  BY <1>1
<1> QED BY <1>1, <1>2, <1>3 DEF Retried, MayFollow

\* While an attempt is in progress its number is within the policy, and the
\* one before it was recorded as retried, unless the history was cleared.
TriesInv ==
  /\ \A j \in JobIds : Retried(history[j], MaxAttempts[j])
  /\ phase = "attempt" =>
       /\ 1 <= attempt /\ attempt <= MaxAttempts[Current]
       /\ MayFollow(history[Current], attempt)

\* Recording the end of an attempt.
LEMMA RecordKeepsRetried ==
  ASSUME SchedulerInv, TriesInv, phase = "attempt", NEW st \in {"running", "success", "failed"},
         st = "running" => attempt < MaxAttempts[Current],
         RecordAttempt(Current, st)
  PROVE  /\ Current \in JobIds
         /\ \A j \in JobIds : Retried(history'[j], MaxAttempts[j])
         /\ history'[Current] = Append(history[Current], [status |-> st, attempt |-> attempt])
<1>1. Current \in JobIds /\ attempt \in Nat
  BY CurrentType DEF SchedulerInv, AttemptInv, TypeOK
<1> DEFINE e == [status |-> st, attempt |-> attempt]
<1>2. /\ history'[Current] = Append(history[Current], e)
      /\ \A j \in JobIds \ {Current} : history'[j] = history[j]
  BY <1>1, RecordEffect
<1>3. e \in Record /\ e.status = st /\ e.attempt = attempt
  BY <1>1 DEF Record, Statuses
<1>4. MaxAttempts[Current] \in Nat /\ history[Current] \in Seq(Record)
  BY <1>1, ConstantsAssumption DEF SchedulerInv, TypeOK
<1>5. Retried(Append(history[Current], e), MaxAttempts[Current])
  <2> HIDE DEF e
  <2> QED BY <1>1, <1>3, <1>4, RetriedAfterAppend DEF TriesInv
<1> QED BY <1>1, <1>2, <1>5 DEF TriesInv

\* Every step of the scheduler keeps the order of the attempts.
LEMMA NextTries ==
  ASSUME SchedulerInv, TriesInv, [Next]_vars
  PROVE  TriesInv'
<1>1. CASE ApiStep
  <2>1. UNCHANGED <<phase, order, turn, attempt>> /\ (UNCHANGED history \/ ClearHistory)
    BY <1>1 DEF ApiStep, RegisterJob, RegisterHandler, Cancel, Pause, Resume, ClearHistory,
       RunFrame, loop
  <2>2. CASE UNCHANGED history
    BY <2>1, <2>2 DEF TriesInv, Current
  <2>3. CASE ClearHistory
    <3>1. \A j \in JobIds : history'[j] = <<>>
      BY <2>3 DEF ClearHistory
    <3>2. phase = "attempt" => Current \in JobIds
      BY CurrentType DEF SchedulerInv, AttemptInv
    <3> QED BY <2>1, <3>1, <3>2 DEF TriesInv, Retried, MayFollow, Current
  <2> QED BY <2>1, <2>2, <2>3
<1>2. CASE RunRejected \/ RunCalled \/ UNCHANGED vars \/ PopNode \/ CycleFound
           \/ OrderFound \/ AlreadyResolved \/ StartWithoutAttempts
           \/ StartUnsupported \/ RunReturns
  <2>1. UNCHANGED history /\ (phase' # "attempt" \/ UNCHANGED <<phase, order, turn, attempt>>)
    BY <1>2 DEF RunRejected, RunCalled, vars, PopNode, CycleFound, OrderFound,
       AlreadyResolved, StartWithoutAttempts, StartUnsupported, RunReturns, loop,
       Loop, LoopFrame, Runnable, Raise
  <2> QED BY <2>1 DEF TriesInv, Current
<1>3. CASE ResolveStep
  <2>1. PICK S \in SUBSET Open :
          \A j \in JobIds :
            /\ j \in S => \E e \in Result : e.attempt = 0 /\ e.status # "running"
                                            /\ history'[j] = Append(history[j], e)
            /\ j \notin S => history'[j] = history[j]
    <3>1. PICK S \in SUBSET Open : Resolves(S)
      BY <1>3, ResolveStepEffect
    <3>2. \A j \in S : \E e \in Result : e.attempt = 0 /\ e.status # "running"
                                          /\ history'[j] = Append(history[j], e)
      BY <3>1 DEF Resolves
    <3>3. \A j \in JobIds \ S : history'[j] = history[j]
      BY <3>1 DEF Resolves
    <3> QED BY <3>2, <3>3
  <2>2. ASSUME NEW j \in S, NEW e \in Result, e.attempt = 0, e.status # "running"
        PROVE  Retried(Append(history[j], e), MaxAttempts[j])
    <3>1. j \in JobIds
      BY DEF Open, SchedulerInv, TypeOK
    <3>2. e \in Record /\ MaxAttempts[j] \in Nat /\ history[j] \in Seq(Record)
      BY <3>1, ConstantsAssumption DEF Result, Record, Final, Statuses, SchedulerInv, TypeOK
    <3>3. MayFollow(history[j], e.attempt) /\ e.attempt <= MaxAttempts[j]
      BY <2>2, <3>2 DEF MayFollow
    <3> QED BY <2>2, <3>1, <3>2, <3>3, RetriedAfterAppend DEF TriesInv
  <2>3. phase' = "loop"
    BY <1>3, ResolveStepFrame
  <2> QED BY <2>1, <2>2, <2>3 DEF TriesInv
<1>4. CASE StartFirstAttempt
  <2>1. /\ UNCHANGED <<history, order, turn>> /\ attempt' = 1 /\ Current \in JobIds
        /\ MaxAttempts[Current] > 0
    BY <1>4, CurrentType DEF StartFirstAttempt, loop, Runnable, Loop, SchedulerInv
  <2> QED BY <2>1, ConstantsAssumption DEF TriesInv, MayFollow, Current
<1>5. CASE HandlerReturns \/ HandlerExhausted \/ HandlerFatal
  <2>1. PICK st \in {"success", "failed"} : RecordAttempt(Current, st)
    BY <1>5 DEF HandlerReturns, HandlerExhausted, HandlerFatal
  <2>2. phase = "attempt" /\ phase' # "attempt"
    BY <1>5 DEF HandlerReturns, HandlerExhausted, HandlerFatal, Attempting, Raise
  <2> QED BY <2>1, <2>2, RecordKeepsRetried DEF TriesInv
<1>6. CASE HandlerFailsRetryable
  <2>1. /\ phase = "attempt" /\ attempt < MaxAttempts[Current] /\ RecordAttempt(Current, "running")
        /\ attempt' = attempt + 1 /\ UNCHANGED <<phase, order, turn>>
    BY <1>6 DEF HandlerFailsRetryable, Attempting, loop
  <2> DEFINE e == [status |-> "running", attempt |-> attempt]
  <2>2. /\ Current \in JobIds
        /\ \A j \in JobIds : Retried(history'[j], MaxAttempts[j])
        /\ history'[Current] = Append(history[Current], e)
    BY <2>1, RecordKeepsRetried
  <2>3. e \in Record /\ history[Current] \in Seq(Record) /\ attempt \in Nat
    BY <2>2 DEF Record, Statuses, SchedulerInv, TypeOK
  <2>4. MaxAttempts[Current] \in Nat
    BY <2>2, ConstantsAssumption
  <2>5. history'[Current][Len(history'[Current])] = e
    <3> HIDE DEF e
    <3> QED BY <2>2, <2>3
  <2>6. MayFollow(history'[Current], attempt')
    BY <2>1, <2>3, <2>5 DEF MayFollow
  <2>7. 1 <= attempt' /\ attempt' <= MaxAttempts[Current]
    BY <2>1, <2>3, <2>4
  <2> QED BY <2>1, <2>2, <2>6, <2>7 DEF TriesInv, Current
<1> QED BY <1>1, <1>2, <1>3, <1>4, <1>5, <1>6 DEF Next, RunStep, ResolveStep

\* Attempts are recorded in sequence, each after the failure it retries, and
\* never more of them than the policy allows.
THEOREM SchedulerRetries == Spec => []RetriesFollowFailures
<1>1. Init => TriesInv
  BY DEF Init, TriesInv, Retried
<1>2. SchedulerInv /\ TriesInv /\ [Next]_vars => TriesInv'
  BY NextTries
<1>3. TriesInv => RetriesFollowFailures
  BY DEF TriesInv, Retried, RetriesFollowFailures
<1> QED BY <1>1, <1>2, <1>3, SchedulerInvariant, PTL DEF Spec

------------------------------------------------------------------------------
(* The verdict of the sort.                                                *)

\* The first job of a knot in the order would wait for a job after it.
LEMMA OrderedIsAcyclic ==
  ASSUME SchedulerInv
  PROVE  ~ Cyclic(Range(order), deps)
<1> SUFFICES ASSUME NEW S \in SUBSET Range(order), Knot(deps, S) PROVE FALSE
  BY DEF Cyclic
<1> DEFINE T == {k \in Turns : order[k] \in S}
<1>1. Turns \subseteq Nat
  BY DEF SchedulerInv, TypeOK, Turns
<1>2. T \in SUBSET Nat /\ T # {}
  BY <1>1 DEF Knot, Range, Turns
<1> HIDE DEF T
<1>3. PICK k \in T : \A m \in T : k <= m
  BY <1>2, LeastElement
<1> USE DEF T
<1>4. PICK d \in deps[order[k]] : d \in S
  BY <1>3 DEF Knot
<1>5. PICK m \in Turns : m < k /\ d = order[m]
  BY <1>3, <1>4 DEF SchedulerInv, OrderRespectsDependencies
<1>6. m \in T
  BY <1>4, <1>5
<1> QED BY <1>1, <1>3, <1>5, <1>6

\* topological_order misses nobody: a node all of whose dependencies are
\* sorted is sorted or in the queue.
CompleteInv ==
  phase = "sort" =>
    \A n \in jobs :
      /\ deps[n] \subseteq jobs
      /\ deps[n] \subseteq Range(sorted) => n \in Range(sorted) \cup Range(queue)

VerdictInv == CompleteInv /\ (outcome = "cycle" => Cyclic(jobs, deps))

\* Popping a node whose dependencies have all been popped.
LEMMA PopKeepsComplete ==
  ASSUME SchedulerInv, CompleteInv, PopNode
  PROVE  CompleteInv'
<1> DEFINE node == Head(queue)
           released == Unblocked(jobs, deps, Range(sorted), node)
<1>1. UNCHANGED <<jobs, deps, phase>> /\ phase = "sort" /\ queue # <<>>
  BY DEF PopNode, api
<1>2. PICK s \in SortedLists(released) :
        sorted' = Append(sorted, node) /\ queue' = Tail(queue) \o s
  BY DEF PopNode
<1>3. queue \in Seq(JobIds) /\ sorted \in Seq(JobIds) /\ SortInv
  BY DEF SchedulerInv, TypeOK
<1>4. node \in JobIds /\ Tail(queue) \in Seq(JobIds)
  BY <1>1, <1>3
<1>5. released \subseteq JobIds
  BY DEF Unblocked, DependentsOf, SchedulerInv, TypeOK
<1>6. s \in Seq(JobIds) /\ Range(s) = released
  <2> HIDE DEF released
  <2>1. s \in Seq(released) /\ Range(s) = released
    BY <1>5, SortedListsType
  <2> QED BY <1>5, <2>1
<1>7. Range(queue') = Range(Tail(queue)) \cup released
  <2> HIDE DEF released
  <2> QED BY <1>2, <1>4, <1>6, ConcatList
<1>8. Range(sorted') = Range(sorted) \cup {node}
  BY <1>2, <1>3, <1>4, AppendList
<1>9. Range(queue) \subseteq Range(Tail(queue)) \cup {node}
  <2>1. /\ DOMAIN queue = 1 .. Len(queue) /\ Len(queue) \in Nat
        /\ DOMAIN Tail(queue) = 1 .. Len(queue) - 1
        /\ \A k \in 1 .. Len(queue) - 1 : Tail(queue)[k] = queue[k + 1]
        /\ Head(queue) = queue[1]
    BY <1>1, <1>3
  <2>2. ASSUME NEW k \in 2 .. Len(queue) PROVE queue[k] \in Range(Tail(queue))
    <3>1. k - 1 \in 1 .. Len(queue) - 1 /\ Tail(queue)[k - 1] = queue[k]
      BY <2>1
    <3> QED BY <2>1, <3>1 DEF Range
  <2>3. \A k \in DOMAIN queue : k = 1 \/ k \in 2 .. Len(queue)
    BY <2>1
  <2> QED BY <2>1, <2>2, <2>3 DEF Range
<1>10. ASSUME NEW n \in jobs, deps[n] \subseteq Range(sorted) \cup {node}
       PROVE  n \in Range(sorted) \cup {node} \cup Range(Tail(queue)) \cup released
  <2>1. CASE deps[n] \subseteq Range(sorted)
    BY <1>1, <1>9, <2>1 DEF CompleteInv
  <2>2. CASE ~(deps[n] \subseteq Range(sorted))
    BY <1>10, <2>2 DEF Unblocked, DependentsOf
  <2> QED BY <2>1, <2>2
<1> HIDE DEF node, released
<1> QED BY <1>1, <1>7, <1>8, <1>10 DEF CompleteInv

\* The queue is empty and a node is left over: what is left over is a knot.
LEMMA LeftOverIsKnot ==
  ASSUME SchedulerInv, CompleteInv, CycleFound
  PROVE  Cyclic(jobs, deps)
<1> DEFINE left == jobs \ Range(sorted)
<1>1. /\ phase = "sort" /\ Range(queue) = {} /\ Len(sorted) # Cardinality(jobs)
      /\ sorted \in Seq(JobIds) /\ Distinct(sorted) /\ Range(sorted) \subseteq jobs
  BY DEF CycleFound, SchedulerInv, TypeOK, SortInv, Range
<1>2. left # {}
  <2> SUFFICES ASSUME Range(sorted) = jobs PROVE FALSE
    BY <1>1
  <2>1. Len(sorted) \in Nat /\ DOMAIN sorted = 1 .. Len(sorted)
    BY <1>1
  <2>2. sorted \in Bijection(1 .. Len(sorted), jobs)
    <3>1. sorted \in [1 .. Len(sorted) -> JobIds]
      BY <1>1, <2>1
    <3>2. sorted \in [1 .. Len(sorted) -> jobs]
      <4>1. \A k \in 1 .. Len(sorted) : sorted[k] \in jobs
        BY <2>1 DEF Range
      <4> QED BY <3>1, <4>1
    <3>3. \A j \in jobs : \E k \in 1 .. Len(sorted) : sorted[k] = j
      BY <2>1 DEF Range
    <3>4. IsInjective(sorted)
      BY <1>1 DEF IsInjective, Distinct
    <3> QED BY <3>2, <3>3, <3>4 DEF Bijection, Injection, Surjection
  <2>3. IsFiniteSet(1 .. Len(sorted)) /\ Cardinality(1 .. Len(sorted)) = Len(sorted)
    <3> DEFINE n == Len(sorted)
    <3>1. 1 \in Int /\ n \in Int /\ n \in Nat
      BY <2>1
    <3> HIDE DEF n
    <3>2. /\ IsFiniteSet(1 .. n)
          /\ Cardinality(1 .. n) = IF 1 > n THEN 0 ELSE n - 1 + 1
      BY <3>1, FS_Interval
    <3>3. Cardinality(1 .. n) = n
      BY <3>1, <3>2
    <3> QED BY <3>2, <3>3 DEF n
  <2>4. Cardinality(jobs) = Len(sorted)
    BY <2>2, <2>3, FS_Bijection DEF ExistsBijection
  <2> QED BY <1>1, <2>4
<1>3. \A n \in left : deps[n] \cap left # {}
  BY <1>1 DEF CompleteInv
<1>4. Knot(deps, left) /\ left \in SUBSET jobs
  BY <1>2, <1>3 DEF Knot
<1> QED BY <1>4 DEF Cyclic

\* Every step of the scheduler keeps the verdict true.
LEMMA NextVerdict ==
  ASSUME SchedulerInv, VerdictInv, [Next]_vars
  PROVE  VerdictInv'
<1>1. CASE ApiStep
  <2>1. UNCHANGED <<phase, outcome>> /\ phase # "sort"
    BY <1>1 DEF ApiStep, RegisterJob, RegisterHandler, Cancel, Pause, Resume, ClearHistory,
       RunFrame, CallbackPoint
  <2>2. /\ jobs \subseteq jobs'
        /\ \A j \in jobs : deps'[j] = deps[j]
    <3>1. ASSUME NEW j \in JobIds, NEW ds \in Graphs[j], RegisterJob(j, ds)
          PROVE  jobs \subseteq jobs' /\ \A i \in jobs : deps'[i] = deps[i]
      BY <3>1 DEF RegisterJob, SchedulerInv, TypeOK
    <3>2. (\A j \in JobIds : \A ds \in Graphs[j] : ~RegisterJob(j, ds)) => UNCHANGED <<jobs, deps>>
      BY <1>1 DEF ApiStep, RegisterHandler, Cancel, Pause, Resume, ClearHistory, api
    <3> QED BY <3>1, <3>2
  <2>3. ASSUME Cyclic(jobs, deps) PROVE Cyclic(jobs, deps)'
    <3>1. PICK S \in SUBSET jobs : Knot(deps, S)
      BY <2>3 DEF Cyclic
    <3>2. S \in SUBSET jobs' /\ Knot(deps', S)
      BY <2>2, <3>1 DEF Knot
    <3> QED BY <3>2 DEF Cyclic
  <2> QED BY <2>1, <2>3 DEF VerdictInv, CompleteInv
<1>2. CASE RunCalled
  <2>1. /\ UNCHANGED <<jobs, deps, outcome>> /\ ~UnknownDependency
        /\ sorted' = <<>> /\ queue' \in SortedLists(Roots(jobs, deps))
    BY <1>2 DEF RunCalled, api
  <2>2. Roots(jobs, deps) \subseteq JobIds
    BY DEF SchedulerInv, Roots, TypeOK
  <2>3. Range(queue') = Roots(jobs, deps) /\ Range(sorted') = {}
    BY <2>1, <2>2, SortedListsType DEF Range
  <2> QED BY <2>1, <2>3 DEF VerdictInv, CompleteInv, UnknownDependency, Roots
<1>3. CASE PopNode
  BY <1>3, PopKeepsComplete DEF VerdictInv, PopNode, api
<1>4. CASE CycleFound
  <2>1. UNCHANGED <<jobs, deps>> /\ phase' = "idle"
    BY <1>4 DEF CycleFound, api
  <2> QED BY <1>4, <2>1, LeftOverIsKnot DEF VerdictInv, CompleteInv
<1>5. CASE RunRejected \/ UNCHANGED vars
           \/ (RunStep /\ ~PopNode /\ ~CycleFound)
  <2>1. /\ UNCHANGED <<jobs, deps>> /\ outcome' \in {outcome, "unknown_dependency", "returned", "raised"}
        /\ phase' # "sort" \/ UNCHANGED <<phase, sorted, queue>>
    BY <1>5 DEF RunRejected, vars, RunStep, OrderFound, AlreadyResolved, ResolveCancelled,
       DeferPaused, ResolveSkipped, StartFirstAttempt, StartWithoutAttempts,
       StartUnsupported, RunReturns, HandlerReturns, HandlerFailsRetryable,
       HandlerExhausted, HandlerFatal, Runnable, Loop, LoopFrame, Raise, api, sorting
  <2> QED BY <2>1 DEF VerdictInv, CompleteInv
<1> QED BY <1>1, <1>2, <1>3, <1>4, <1>5 DEF Next

\* A cycle is reported only where there is one, and an order is never given
\* to jobs that wait for each other in a circle.
THEOREM SchedulerCycleVerdict == Spec => []CycleVerdictExact
<1>1. Init => VerdictInv
  BY DEF Init, VerdictInv, CompleteInv
<1>2. SchedulerInv /\ VerdictInv /\ [Next]_vars => VerdictInv'
  BY NextVerdict
<1>3. SchedulerInv /\ VerdictInv => CycleVerdictExact
  BY OrderedIsAcyclic DEF VerdictInv, CycleVerdictExact
<1> QED BY <1>1, <1>2, <1>3, SchedulerInvariant, PTL DEF Spec

------------------------------------------------------------------------------
(* Skips and deferrals.                                                    *)

Looping == phase \in {"loop", "attempt"}

\* Why job j was skipped.
HasCause(j) ==
  \E d \in deps[j] :
    \/ results[d].status \in {"failed", "cancelled", "skipped"}
    \/ d \in Passed /\ ~HasResult(d)

\* Job j was put off, and everything that waits for it was skipped.
IsDeferred(j) ==
  /\ status[j] = "pending"
  /\ \A d \in Range(order) : j \in deps[d] => results[d].status = "skipped"

\* A job has no dependencies before it is registered, a failed job is one
\* without success, and a job that has a result before its turn was skipped.
CauseInv ==
  /\ \A j \in JobIds \ jobs : deps[j] = {}
  /\ Looping => \A j \in failed : results[j].status # "success"
  /\ Looping => \A k \in Turns : k >= turn /\ HasResult(order[k]) =>
                  results[order[k]].status = "skipped"
  /\ \A j \in Passed : ~HasResult(j) => IsDeferred(j)
  /\ \A j \in JobIds : results[j].status = "skipped" => HasCause(j)

\* The turns already taken.
LEMMA PassedFacts ==
  ASSUME SchedulerInv
  PROVE  /\ Passed \subseteq Range(order) /\ Passed \subseteq JobIds /\ Passed \subseteq jobs
         /\ turn \in Turns => Current \notin Passed /\ Current \in Range(order)
         /\ \A k \in Turns : k >= turn => order[k] \notin Passed
<1>1. \A k \in Turns : k \in Nat
  BY OrderFacts
<1>2. Passed \subseteq Range(order) /\ Passed \subseteq JobIds /\ Passed \subseteq jobs
  BY OrderFacts DEF Passed
<1>3. ASSUME NEW k \in Turns, k >= turn PROVE order[k] \notin Passed
  BY <1>1, <1>3, OrderFacts DEF Passed
<1>4. turn \in Turns => Current \notin Passed /\ Current \in Range(order)
  BY <1>3, OrderFacts DEF Current
<1> QED BY <1>2, <1>3, <1>4

\* The end of a turn adds the current job to those that had theirs.
LEMMA PassedGrows ==
  ASSUME SchedulerInv, turn \in Turns, turn' = turn + 1, UNCHANGED order
  PROVE  Passed' = Passed \cup {Current}
<1>1. {m \in Turns : m < turn + 1} = {m \in Turns : m < turn} \cup {turn}
  BY OrderFacts
<1>2. Passed' = {order[k] : k \in {m \in Turns : m < turn + 1}}
  BY DEF Passed, Turns
<1> QED BY <1>1, <1>2 DEF Passed, Current

\* Results that stay and turns that stay passed: so does the cause of a skip.
LEMMA CauseStays ==
  ASSUME SchedulerInv,
         \A d \in JobIds : HasResult(d) => results'[d] = results[d],
         \A d \in Passed : results'[d] = results[d],
         Passed \subseteq Passed',
         NEW j \in JobIds, deps'[j] = deps[j], HasCause(j)
  PROVE  HasCause(j)'
<1>1. PICK d \in deps[j] :
        \/ results[d].status \in {"failed", "cancelled", "skipped"}
        \/ d \in Passed /\ ~HasResult(d)
  BY DEF HasCause
<1>2. d \in JobIds
  BY DEF SchedulerInv, TypeOK
<1>3. CASE results[d].status \in {"failed", "cancelled", "skipped"}
  <2>1. HasResult(d)
    BY <1>3 DEF HasResult, NoResult
  <2>2. results'[d].status \in {"failed", "cancelled", "skipped"}
    BY <1>2, <1>3, <2>1
  <2> QED BY <2>2 DEF HasCause
<1>4. CASE d \in Passed /\ ~HasResult(d)
  <2>1. d \in Passed' /\ ~HasResult(d)'
    BY <1>4 DEF HasResult
  <2> QED BY <2>1 DEF HasCause
<1> QED BY <1>1, <1>3, <1>4

\* A deferral outlives the turns of other jobs.
LEMMA DeferralStays ==
  ASSUME SchedulerInv,
         \A d \in JobIds : HasResult(d) => results'[d] = results[d],
         UNCHANGED order, \A d \in Range(order) : deps'[d] = deps[d],
         NEW j \in JobIds, status'[j] = status[j], IsDeferred(j)
  PROVE  IsDeferred(j)'
<1>1. ASSUME NEW d \in Range(order), j \in deps[d] PROVE results'[d].status = "skipped"
  <2>1. d \in JobIds /\ results[d].status = "skipped"
    BY <1>1, OrderFacts DEF IsDeferred
  <2>2. HasResult(d)
    BY <2>1 DEF HasResult, NoResult
  <2> QED BY <2>1, <2>2
<1> QED BY <1>1 DEF IsDeferred

\* A step that leaves the results and the turn alone.
LEMMA QuietKeepsCause ==
  ASSUME SchedulerInv, CauseInv,
         UNCHANGED <<results, order, turn, failed>>,
         jobs \subseteq jobs', \A j \in jobs : deps'[j] = deps[j],
         \A j \in JobIds \ jobs' : deps'[j] = deps[j],
         Looping' => Looping,
         \A j \in Passed : status'[j] = status[j]
  PROVE  CauseInv'
<1>1. \A j \in JobIds \ jobs' : deps'[j] = {}
  BY DEF CauseInv
<1>2. Looping' => \A j \in failed' : results'[j].status # "success"
  BY DEF CauseInv
<1>3. Looping' => \A k \in Turns' : k >= turn' /\ HasResult(order[k])' =>
                   results'[order'[k]].status = "skipped"
  BY DEF CauseInv, HasResult, Turns
<1>4. Passed' = Passed
  BY DEF Passed, Turns
<1>5. \A d \in Range(order) : deps'[d] = deps[d]
  BY DEF SchedulerInv
<1>6. ASSUME NEW j \in Passed', ~HasResult(j)' PROVE IsDeferred(j)'
  <2>1. j \in JobIds /\ j \in Passed /\ ~HasResult(j) /\ status'[j] = status[j]
    BY <1>4, <1>6, PassedFacts DEF HasResult
  <2>2. IsDeferred(j)
    BY <2>1 DEF CauseInv
  <2>3. UNCHANGED order /\ \A d \in JobIds : HasResult(d) => results'[d] = results[d]
    OBVIOUS
  <2> QED BY <1>5, <2>1, <2>2, <2>3, DeferralStays
<1>7. ASSUME NEW j \in JobIds, results'[j].status = "skipped" PROVE HasCause(j)'
  <2>1. HasResult(j) /\ HasCause(j)
    BY <1>7 DEF CauseInv, HasResult, NoResult
  <2>2. deps'[j] = deps[j]
    BY <2>1 DEF SchedulerInv
  <2>3. /\ \A d \in JobIds : HasResult(d) => results'[d] = results[d]
        /\ \A d \in Passed : results'[d] = results[d]
        /\ Passed \subseteq Passed'
    BY <1>4
  <2> QED BY <2>1, <2>2, <2>3, CauseStays
<1> QED BY <1>1, <1>2, <1>3, <1>6, <1>7 DEF CauseInv

\* A step that ends a turn by giving the jobs S, none of which has had its
\* turn, their results.
LEMMA TurnKeepsCause ==
  ASSUME SchedulerInv, CauseInv, Looping, turn \in Turns, turn' = turn + 1,
         UNCHANGED <<jobs, deps, order>>,
         NEW S \in SUBSET JobIds,
         \A k \in Turns : order[k] \in S => k >= turn,
         \A j \in JobIds \ S :
            results'[j] = results[j] /\ (j # Current => status'[j] = status[j]),
         \A j \in JobIds : HasResult(j) => results'[j] = results[j],
         \A j \in S : j # Current => results'[j].status = "skipped",
         \A j \in S : results'[j].status = "skipped" => HasCause(j)',
         \A j \in failed' : results'[j].status # "success",
         \A j \in JobIds : j = Current => HasResult(j)' \/ IsDeferred(j)'
  PROVE  CauseInv'
<1>1. Passed' = Passed \cup {Current} /\ Current \in JobIds
  BY PassedGrows, CurrentType DEF SchedulerInv
<1>2. \A j \in Passed : j \in JobIds /\ j \notin S /\ j # Current
  <2>1. \A k \in Turns : k \in Nat /\ turn \in Nat
    BY OrderFacts
  <2>2. ASSUME NEW j \in Passed PROVE j \notin S
    <3>1. PICK k \in Turns : k < turn /\ j = order[k]
      BY DEF Passed
    <3> QED BY <2>1, <3>1
  <2> QED BY <2>2, PassedFacts
<1>3. \A j \in Passed : results'[j] = results[j] /\ status'[j] = status[j]
  BY <1>2
<1>4. \A j \in JobIds \ jobs' : deps'[j] = {}
  BY DEF CauseInv
<1>5. ASSUME NEW k \in Turns', k >= turn', HasResult(order[k])'
      PROVE  results'[order'[k]].status = "skipped"
  <2>1. k \in Turns /\ k > turn /\ order'[k] = order[k] /\ k >= turn
    BY <1>5, OrderFacts DEF Turns
  <2>2. order[k] # Current /\ order[k] \in JobIds
    BY <2>1, OrderFacts DEF Current
  <2>3. CASE order[k] \in S
    BY <2>1, <2>2, <2>3
  <2>4. CASE order[k] \notin S
    <3>1. results'[order[k]] = results[order[k]]
      BY <2>2, <2>4
    <3>2. HasResult(order[k])
      BY <1>5, <2>1, <3>1 DEF HasResult
    <3> QED BY <2>1, <3>1, <3>2 DEF CauseInv
  <2> QED BY <2>3, <2>4
<1>6. ASSUME NEW j \in Passed', ~HasResult(j)' PROVE IsDeferred(j)'
  <2>1. CASE j = Current
    BY <1>1, <1>6, <2>1
  <2>2. CASE j \in Passed
    <3>1. j \in JobIds /\ ~HasResult(j) /\ status'[j] = status[j]
      BY <1>2, <1>3, <1>6, <2>2 DEF HasResult
    <3>2. IsDeferred(j)
      BY <2>2, <3>1 DEF CauseInv
    <3>3. UNCHANGED order /\ \A d \in Range(order) : deps'[d] = deps[d]
      OBVIOUS
    <3> QED BY <3>1, <3>2, <3>3, DeferralStays
  <2> QED BY <1>1, <2>1, <2>2
<1>7. ASSUME NEW j \in JobIds, results'[j].status = "skipped" PROVE HasCause(j)'
  <2>1. CASE j \in S
    <3>1. results'[j].status = "skipped" => HasCause(j)'
      BY <2>1
    <3> QED BY <1>7, <3>1
  <2>2. CASE j \notin S
    <3>1. HasCause(j) /\ deps'[j] = deps[j]
      BY <1>7, <2>2 DEF CauseInv
    <3> QED BY <1>1, <1>3, <3>1, CauseStays
  <2> QED BY <2>1, <2>2
<1> QED BY <1>4, <1>5, <1>6, <1>7 DEF CauseInv

\* Cancelling, deferring and skipping end the turn with a cause for each skip.
LEMMA ResolveKeepsCause ==
  ASSUME SchedulerInv, CauseInv, ResolveStep
  PROVE  CauseInv'
<1>1. /\ phase = "loop" /\ turn \in Turns /\ turn' = turn + 1 /\ ~HasResult(Current)
      /\ Current \in JobIds /\ Current \in Open /\ Open \subseteq JobIds
      /\ UNCHANGED <<jobs, deps, order>>
  BY ResolveStepFrame
<1>2. PICK S \in SUBSET Open : Resolves(S) /\ \A k \in Turns : order[k] \in S => k >= turn
  BY ResolveStepEffect
<1>3. S \in SUBSET JobIds /\ \A j \in S : ~HasResult(j)
  BY <1>1, <1>2 DEF Open
<1>4. \A j \in S : /\ results'[j].status \in {"cancelled", "skipped"}
                   /\ results'[j] \in Result
                   /\ j # Current => results'[j].status = "skipped"
                   /\ results'[j].status = "skipped" =>
                        deps[j] \cap (S \cup failed \cup {Current}) # {}
  BY <1>2 DEF Resolves
<1>5. \A j \in S : HasResult(j)'
  BY <1>4 DEF HasResult, NoResult
<1>6. \A j \in JobIds \ S :
        results'[j] = results[j] /\ (j # Current => status'[j] = status[j])
  BY <1>2 DEF Resolves
<1>7. \A j \in JobIds : HasResult(j) => results'[j] = results[j]
  BY <1>3, <1>6
<1>8. Passed' = Passed \cup {Current}
  BY <1>1, PassedGrows
<1>9. \A d \in failed : results'[d].status \in {"failed", "cancelled", "skipped"}
  <2> SUFFICES ASSUME NEW d \in failed
               PROVE  results'[d].status \in {"failed", "cancelled", "skipped"}
    OBVIOUS
  <2>1. d \in JobIds /\ HasResult(d) /\ results[d].status # "success"
    BY <1>1 DEF SchedulerInv, TypeOK, LoopInv, CauseInv, Looping
  <2>2. results[d] \in Result
    BY <2>1 DEF SchedulerInv, TypeOK, HasResult
  <2>3. results'[d] = results[d]
    BY <1>7, <2>1
  <2> QED BY <2>1, <2>2, <2>3 DEF Result, Final
<1>10. ASSUME NEW j \in S, results'[j].status = "skipped" PROVE HasCause(j)'
  <2>1. PICK d \in deps[j] : d \in S \cup failed \cup {Current}
    BY <1>4, <1>10
  <2>2. CASE d \in S \/ d \in failed
    <3>1. results'[d].status \in {"failed", "cancelled", "skipped"}
      BY <1>4, <1>9, <2>2
    <3> QED BY <1>1, <2>1, <3>1 DEF HasCause
  <2>3. CASE d = Current /\ d \notin S
    <3>1. d \in Passed' /\ ~HasResult(d)'
      BY <1>1, <1>6, <1>8, <2>3 DEF HasResult
    <3> QED BY <1>1, <2>1, <3>1 DEF HasCause
  <2> QED BY <2>1, <2>2, <2>3
<1>11. \A j \in failed' : results'[j].status # "success"
  BY <1>2, <1>4, <1>9 DEF Resolves
<1>12. ASSUME NEW i \in JobIds, i = Current PROVE HasResult(i)' \/ IsDeferred(i)'
  <2>1. CASE i \in S
    BY <1>5, <2>1
  <2>2. CASE i \notin S
    <3>1. status'[i] = "pending" /\ \A j \in Open : i \in deps[j] => j \in S
      BY <1>2, <1>12, <2>2 DEF Resolves
    <3>2. ASSUME NEW e \in Range(order), i \in deps[e] PROVE results'[e].status = "skipped"
      <4>1. PICK k \in Turns : e = order[k]
        BY DEF Range, Turns
      <4>2. PICK m \in Turns : m < k /\ i = order[m]
        BY <3>2, <4>1 DEF SchedulerInv, OrderRespectsDependencies
      <4>3. m = turn /\ k \in Nat /\ turn \in Nat
        <5>1. order[m] = order[turn] /\ turn \in Turns /\ m \in Turns
          BY <1>1, <1>12, <4>2 DEF Current
        <5>2. \A a, b \in Turns : order[a] = order[b] => a = b
          BY OrderFacts
        <5>3. Turns \subseteq Nat
          BY OrderFacts
        <5> QED BY <5>1, <5>2, <5>3
      <4>4. k >= turn /\ e # Current /\ e \in JobIds /\ e \in jobs
        <5>1. k >= turn /\ k # turn
          BY <4>2, <4>3, OrderFacts
        <5>2. e # Current
          BY <1>1, <4>1, <5>1, OrderFacts DEF Current
        <5>3. e \in JobIds /\ e \in jobs
          BY <4>1, OrderFacts
        <5> QED BY <5>1, <5>2, <5>3
      <4>5. CASE e \in Open
        BY <1>4, <3>1, <3>2, <4>4, <4>5
      <4>6. CASE e \notin Open
        <5>1. HasResult(e)
          BY <1>1, <4>4, <4>6 DEF Open, SchedulerInv, LoopInv
        <5>2. results[e].status = "skipped"
          BY <1>1, <4>1, <4>4, <5>1 DEF CauseInv, Looping
        <5> QED BY <1>7, <4>4, <5>1, <5>2
      <4> QED BY <4>5, <4>6
    <3> QED BY <1>1, <3>1, <3>2 DEF IsDeferred
  <2> QED BY <2>1, <2>2
<1> QED BY <1>1, <1>2, <1>3, <1>4, <1>6, <1>7, <1>10, <1>11, <1>12, TurnKeepsCause
    DEF Looping

\* The executor's result ends the turn.
LEMMA StoreKeepsCause ==
  ASSUME SchedulerInv, CauseInv, Looping, turn \in Turns, ~HasResult(Current),
         NEW st \in {"success", "failed"}, NEW n, Store(Current, st, n),
         UNCHANGED <<jobs, deps, order>>
  PROVE  CauseInv'
<1>1. Current \in JobIds
  BY CurrentType DEF SchedulerInv
<1>2. /\ results'[Current] = [status |-> st, attempt |-> n]
      /\ \A j \in JobIds \ {Current} : results'[j] = results[j] /\ status'[j] = status[j]
      /\ turn' = turn + 1
  BY <1>1, StoreEffect
<1> DEFINE S == {Current}
<1>3. S \in SUBSET JobIds /\ \A k \in Turns : order[k] \in S => k >= turn
  <2>1. \A k \in Turns : k \in Nat /\ turn \in Nat
    BY OrderFacts
  <2> QED BY <1>1, <2>1, OrderFacts DEF Current
<1>4. \A j \in JobIds \ S :
        results'[j] = results[j] /\ (j # Current => status'[j] = status[j])
  BY <1>2
<1>5. \A j \in JobIds : HasResult(j) => results'[j] = results[j]
  BY <1>2
<1>6. \A j \in S : j = Current /\ results'[j].status # "skipped"
  BY <1>2
<1>7. \A j \in failed' : results'[j].status # "success"
  <2>1. \A j \in failed : j \in JobIds /\ HasResult(j) /\ results[j].status # "success"
    BY DEF SchedulerInv, TypeOK, LoopInv, CauseInv, Looping
  <2>2. \A j \in failed : results'[j].status # "success"
    BY <1>5, <2>1
  <2>3. failed' = failed \/ (failed' = failed \cup {Current} /\ st = "failed")
    BY DEF Store
  <2> QED BY <1>2, <2>2, <2>3
<1>8. \A j \in JobIds : j = Current => HasResult(j)' \/ IsDeferred(j)'
  BY <1>2 DEF HasResult, NoResult
<1> HIDE DEF S
<1> QED BY <1>2, <1>3, <1>4, <1>5, <1>6, <1>7, <1>8, TurnKeepsCause

\* Every step of the scheduler keeps a cause behind every skip.
LEMMA NextCause ==
  ASSUME SchedulerInv, CauseInv, [Next]_vars
  PROVE  CauseInv'
<1>1. CASE ApiStep
  <2>1. UNCHANGED <<results, phase, order, turn, failed>>
    BY <1>1 DEF ApiStep, RegisterJob, RegisterHandler, Cancel, Pause, Resume, ClearHistory,
       RunFrame, loop
  <2>2. /\ jobs \subseteq jobs' /\ \A j \in jobs : deps'[j] = deps[j] /\ status'[j] = status[j]
        /\ \A j \in JobIds \ jobs' : deps'[j] = deps[j]
    <3>1. ASSUME NEW i \in JobIds, NEW ds \in Graphs[i], RegisterJob(i, ds)
          PROVE  /\ jobs \subseteq jobs' /\ \A j \in jobs : deps'[j] = deps[j] /\ status'[j] = status[j]
                 /\ \A j \in JobIds \ jobs' : deps'[j] = deps[j]
      BY <3>1 DEF RegisterJob, SchedulerInv, TypeOK
    <3>2. (\A j \in JobIds : \A ds \in Graphs[j] : ~RegisterJob(j, ds))
            => UNCHANGED <<jobs, deps, status>>
      BY <1>1 DEF ApiStep, RegisterHandler, Cancel, Pause, Resume, ClearHistory, api
    <3> QED BY <3>1, <3>2
  <2>3. Looping' => Looping
    BY <2>1 DEF Looping
  <2> QED BY <2>1, <2>2, <2>3, PassedFacts, QuietKeepsCause
<1>2. CASE RunRejected \/ RunCalled \/ UNCHANGED vars \/ PopNode \/ CycleFound
           \/ RunReturns \/ StartFirstAttempt \/ StartUnsupported
           \/ HandlerFailsRetryable \/ HandlerFatal
  <2>1. /\ UNCHANGED <<jobs, deps, results, order, turn, failed>>
        /\ Looping' => Looping
    BY <1>2 DEF RunRejected, RunCalled, vars, PopNode, CycleFound, RunReturns,
       StartFirstAttempt, StartUnsupported, HandlerFailsRetryable, HandlerFatal, api,
       loop, Runnable, Loop, Raise, Attempting, Looping
  <2>2. UNCHANGED status \/
          (turn \in Turns /\ status' = [status EXCEPT ![Current] = "running"])
    BY <1>2 DEF RunRejected, RunCalled, vars, PopNode, CycleFound, RunReturns,
       StartFirstAttempt, StartUnsupported, HandlerFailsRetryable, HandlerFatal,
       Runnable, Loop
  <2>3. \A j \in Passed : status'[j] = status[j]
    BY <2>2, PassedFacts DEF SchedulerInv, TypeOK
  <2> QED BY <2>1, <2>3, QuietKeepsCause
<1>3. CASE OrderFound
  <2>1. /\ UNCHANGED <<jobs, deps>> /\ turn' = 1 /\ failed' = {}
        /\ order' = sorted /\ results' = [j \in JobIds |-> NoResult]
    BY <1>3 DEF OrderFound, api
  <2>2. \A j \in JobIds : ~HasResult(j)' /\ results'[j].status = "none"
    BY <2>1 DEF HasResult, NoResult
  <2>3. sorted \in Seq(JobIds)
    BY DEF SchedulerInv, TypeOK
  <2>4. Passed' = {} /\ \A k \in Turns' : order'[k] \in JobIds
    BY <2>1, <2>3 DEF Passed, Turns
  <2> QED BY <2>1, <2>2, <2>4 DEF CauseInv, HasResult
<1>4. CASE AlreadyResolved
  <2>1. /\ Looping /\ turn \in Turns /\ turn' = turn + 1 /\ HasResult(Current)
        /\ UNCHANGED <<jobs, deps, order, results, status, failed>>
    BY <1>4 DEF AlreadyResolved, Loop, LoopFrame, NextTurn, Looping, api
  <2> DEFINE S == {}
  <2>2. /\ S \in SUBSET JobIds
        /\ \A k \in Turns : order[k] \in S => k >= turn
        /\ \A j \in S : results'[j].status = "skipped" => HasCause(j)'
        /\ \A j \in S : j # Current => results'[j].status = "skipped"
    OBVIOUS
  <2>3. \A j \in failed' : results'[j].status # "success"
    BY <2>1 DEF CauseInv
  <2>4. \A j \in JobIds : j = Current => HasResult(j)' \/ IsDeferred(j)'
    BY <2>1 DEF HasResult
  <2> HIDE DEF S
  <2> QED BY <2>1, <2>2, <2>3, <2>4, TurnKeepsCause
<1>5. CASE StartWithoutAttempts
  <2>1. /\ Looping /\ turn \in Turns /\ ~HasResult(Current) /\ Store(Current, "failed", 0)
        /\ UNCHANGED <<jobs, deps, order>>
    BY <1>5 DEF StartWithoutAttempts, Runnable, Loop, LoopFrame, Looping, api
  <2> QED BY <2>1, StoreKeepsCause
<1>6. CASE HandlerReturns \/ HandlerExhausted
  <2>1. /\ Looping /\ turn \in Turns /\ ~HasResult(Current)
        /\ UNCHANGED <<jobs, deps, order>>
    BY <1>6 DEF HandlerReturns, HandlerExhausted, Attempting, Looping, SchedulerInv,
       AttemptInv, api
  <2>2. Store(Current, "success", attempt) \/ Store(Current, "failed", attempt)
    BY <1>6 DEF HandlerReturns, HandlerExhausted
  <2> QED BY <2>1, <2>2, StoreKeepsCause
<1> QED BY <1>1, <1>2, <1>3, <1>4, <1>5, <1>6, ResolveKeepsCause
    DEF Next, RunStep, ResolveStep

\* The strengthened invariant holds in every reachable state.
LEMMA CauseInvariant == Spec => [](SchedulerInv /\ CauseInv)
<1>1. Init => CauseInv
  <2> SUFFICES ASSUME Init PROVE CauseInv
    OBVIOUS
  <2>1. Passed = {} /\ ~Looping
    BY DEF Init, Passed, Turns, Looping
  <2>2. \A j \in JobIds : deps[j] = {} /\ results[j].status = "none"
    BY DEF Init, NoResult
  <2> QED BY <2>1, <2>2 DEF CauseInv
<1>2. SchedulerInv /\ CauseInv /\ [Next]_vars => CauseInv'
  BY NextCause
<1> QED BY <1>1, <1>2, SchedulerInvariant, PTL DEF Spec

\* No job is skipped without a dependency that failed, was cancelled, skipped
\* or deferred - in any graph, under any cancellations and pauses.
THEOREM SchedulerSkipsHaveCause == Spec => []SkipHasCause
<1>1. CauseInv => SkipHasCause
  BY DEF CauseInv, HasCause, SkipHasCause
<1> QED BY <1>1, CauseInvariant, PTL

\* A deferred job is PENDING again, and nothing that waits for it was run.
THEOREM SchedulerDeferrals == Spec => []DeferralIsolates
<1>1. CauseInv => DeferralIsolates
  BY DEF CauseInv, IsDeferred, DeferralIsolates
<1> QED BY <1>1, CauseInvariant, PTL

------------------------------------------------------------------------------
(* The run implements the promise of JobRun.  Each step of the scheduler   *)
(* is a step of JobRun or leaves needs and fates alone.                    *)

Running(j) == phase = "attempt" /\ j = Current

\* A job that is running has no fate yet: the cases of Fate exclude each other.
RunningIsOpen == \A j : Running(j) => ~HasResult(j) /\ j \notin Passed

\* SchedulerInv says so: a running job is the current one, without a result.
LEMMA FatesExclude == SchedulerInv => RunningIsOpen
BY PassedFacts DEF RunningIsOpen, Running, SchedulerInv, AttemptInv

\* ... in the next state too.
LEMMA NextFatesExclude == SchedulerInv' => RunningIsOpen'
BY FatesExclude, PTL

\* The fate of a job is read off its result, its turn and the attempt.
LEMMA FateCases ==
  ASSUME NEW j, RunningIsOpen
  PROVE  /\ results[j].status = "success" => Fate(j) = "done"
         /\ results[j].status = "failed" => Fate(j) = "failed"
         /\ results[j].status = "skipped" => Fate(j) = "blocked"
         /\ results[j].status = "cancelled" => Fate(j) = "withdrawn"
         /\ ~HasResult(j) /\ j \in Passed => Fate(j) = "deferred"
         /\ ~HasResult(j) /\ j \notin Passed /\ Running(j) => Fate(j) = "running"
         /\ ~HasResult(j) /\ j \notin Passed /\ ~Running(j) => Fate(j) = "waiting"
<1>1. ~HasResult(j) => results[j].status = "none"
  BY DEF HasResult, NoResult
<1>2. Running(j) => ~HasResult(j) /\ j \notin Passed
  BY DEF RunningIsOpen
<1> QED BY <1>1, <1>2 DEF Fate, Running

\* ... and in the next state.
LEMMA NextFateCases ==
  ASSUME NEW j, RunningIsOpen'
  PROVE  /\ results'[j].status = "success" => Fate(j)' = "done"
         /\ results'[j].status = "failed" => Fate(j)' = "failed"
         /\ results'[j].status = "skipped" => Fate(j)' = "blocked"
         /\ results'[j].status = "cancelled" => Fate(j)' = "withdrawn"
         /\ ~HasResult(j)' /\ j \in Passed' => Fate(j)' = "deferred"
         /\ ~HasResult(j)' /\ j \notin Passed' /\ Running(j)' => Fate(j)' = "running"
         /\ ~HasResult(j)' /\ j \notin Passed' /\ ~Running(j)' => Fate(j)' = "waiting"
<1>1. ~HasResult(j)' => results'[j].status = "none"
  BY DEF HasResult, NoResult
<1>2. Running(j)' => ~HasResult(j)' /\ j \notin Passed'
  BY DEF RunningIsOpen
<1> QED BY <1>1, <1>2 DEF Fate, Running

\* Every fate is one JobRun knows.
LEMMA FateType ==
  ASSUME NEW j
  PROVE  Fate(j) \in Promised!Fates /\ Fate(j)' \in Promised!Fates
BY DEF Fate, Promised!Fates

\* A job with a result has the fate the result says, whatever else happens.
LEMMA FateKept ==
  ASSUME SchedulerInv, SchedulerInv', NEW j \in JobIds, results'[j] = results[j],
         ~HasResult(j) => ((j \in Passed') <=> (j \in Passed)) /\ (Running(j)' <=> Running(j))
  PROVE  Fate(j)' = Fate(j)
<1> USE FatesExclude, NextFatesExclude
<1>1. CASE HasResult(j)
  <2>1. results[j] \in Result
    BY <1>1 DEF SchedulerInv, TypeOK, HasResult
  <2>2. results[j].status \in {"success", "failed", "cancelled", "skipped"}
    BY <2>1 DEF Result, Final
  <2> QED BY <2>2, FateCases, NextFateCases
<1>2. CASE ~HasResult(j)
  <2>1. ~HasResult(j)'
    BY <1>2 DEF HasResult
  <2> QED BY <1>2, <2>1, FateCases, NextFateCases
<1> QED BY <1>1, <1>2

\* Steps that leave the results and the turn alone, and neither start nor
\* end an attempt, change no fate.
LEMMA FatesKept ==
  ASSUME SchedulerInv, SchedulerInv', UNCHANGED <<results, order, turn>>,
         (phase' = "attempt") <=> (phase = "attempt")
  PROVE  \A j \in JobIds : Fate(j)' = Fate(j)
<1>1. Passed' = Passed /\ \A j : Running(j)' <=> Running(j)
  BY DEF Passed, Turns, Running, Current
<1> QED BY <1>1, FateKept

Fates == [j \in JobIds |-> Fate(j)]

\* RegisterJob declares what the job needs, once.
LEMMA RegisterDeclares ==
  ASSUME SchedulerInv, SchedulerInv', CauseInv, NEW j \in JobIds, NEW ds \in Graphs[j],
         RegisterJob(j, ds)
  PROVE  Promised!Declare(j)
<1>1. /\ UNCHANGED <<results, phase, order, turn>> /\ j \notin jobs
      /\ deps' = [deps EXCEPT ![j] = ds] /\ ds \in SUBSET JobIds
  BY ConstantsAssumption DEF RegisterJob, RunFrame, loop
<1>2. \A i \in JobIds : Fate(i)' = Fate(i)
  BY <1>1, FatesKept
<1>3. ~HasResult(j) /\ j \notin Passed
  BY <1>1, PassedFacts DEF SchedulerInv
<1>4. ~Running(j)
  BY <1>1, OrderFacts DEF Running, SchedulerInv, AttemptInv, Current
<1>5. Fate(j) = "waiting"
  BY <1>3, <1>4, FateCases, FatesExclude
<1>6. deps[j] = {}
  BY <1>1 DEF CauseInv
<1>7. deps' \in [JobIds -> SUBSET JobIds] /\ \A i \in JobIds \ {j} : deps'[i] = deps[i]
  BY <1>1 DEF SchedulerInv, TypeOK
<1> QED BY <1>2, <1>5, <1>6, <1>7 DEF Promised!Declare

\* The first attempt of a job: its dependencies are done.
LEMMA AttemptStarts ==
  ASSUME SchedulerInv, SchedulerInv', StartFirstAttempt
  PROVE  \E j \in JobIds : Promised!Start(j)
<1>1. PICK c \in JobIds : c = Current
  BY CurrentType DEF StartFirstAttempt, Runnable, Loop, SchedulerInv
<1>2. /\ phase = "loop" /\ phase' = "attempt" /\ UNCHANGED <<deps, results, order, turn>>
      /\ turn \in Turns
  BY DEF StartFirstAttempt, Runnable, Loop, loop, api
<1>3. ~HasResult(c) /\ \A d \in deps[c] : d \in JobIds /\ results[d].status = "success"
  BY <1>1, ReadyJob DEF StartFirstAttempt, SchedulerInv, TypeOK
<1>4. Passed' = Passed /\ c \notin Passed /\ ~HasResult(c)'
  BY <1>1, <1>2, <1>3, PassedFacts DEF Passed, Turns, HasResult
<1>5. \A j : ~Running(j) /\ (Running(j)' <=> j = c)
  BY <1>1, <1>2 DEF Running, Current
<1>6. Fate(c) = "waiting" /\ Fate(c)' = "running"
  BY <1>3, <1>4, <1>5, FateCases, NextFateCases, FatesExclude, NextFatesExclude
<1>7. \A j \in JobIds \ {c} : Fate(j)' = Fate(j)
  BY <1>2, <1>4, <1>5, FateKept
<1>8. \A d \in deps[c] : Fate(d) = "done"
  BY <1>3, FateCases, FatesExclude
<1> QED BY <1>2, <1>3, <1>6, <1>7, <1>8 DEF Promised!Start

\* The end of the executor, or of the run in the middle of an attempt.
LEMMA AttemptFinishes ==
  ASSUME SchedulerInv, SchedulerInv', HandlerReturns \/ HandlerExhausted \/ HandlerFatal
  PROVE  \E j \in JobIds : Promised!Finish(j)
<1>1. /\ phase = "attempt" /\ phase' # "attempt" /\ UNCHANGED <<deps, order>>
      /\ turn \in Turns /\ ~HasResult(Current)
  BY DEF HandlerReturns, HandlerExhausted, HandlerFatal, Attempting, Raise, api, loop,
     SchedulerInv, AttemptInv
<1>2. PICK c \in JobIds : c = Current
  BY <1>1, CurrentType DEF SchedulerInv
<1>3. \A j : (Running(j) <=> j = c) /\ ~Running(j)'
  BY <1>1, <1>2 DEF Running
<1>4. c \notin Passed /\ ~HasResult(c)
  BY <1>1, <1>2, PassedFacts
<1>5. Fate(c) = "running"
  BY <1>3, <1>4, FateCases, FatesExclude
<1>6. CASE HandlerFatal
  <2>1. UNCHANGED <<results, turn>>
    BY <1>6 DEF HandlerFatal, loop
  <2>2. Passed' = Passed /\ ~HasResult(c)'
    BY <1>1, <1>4, <2>1 DEF Passed, Turns, HasResult
  <2>3. Fate(c)' = "waiting"
    BY <1>3, <1>4, <2>2, NextFateCases, NextFatesExclude
  <2>4. \A j \in JobIds \ {c} : Fate(j)' = Fate(j)
    BY <1>3, <2>1, <2>2, FateKept
  <2> QED BY <1>1, <1>5, <2>3, <2>4 DEF Promised!Finish
<1>7. CASE HandlerReturns \/ HandlerExhausted
  <2>1. PICK st \in {"success", "failed"} : Store(c, st, attempt)
    BY <1>2, <1>7 DEF HandlerReturns, HandlerExhausted
  <2>2. /\ results'[c] = [status |-> st, attempt |-> attempt] /\ turn' = turn + 1
        /\ \A j \in JobIds \ {c} : results'[j] = results[j]
    BY <2>1, StoreEffect
  <2>3. Passed' = Passed \cup {c}
    BY <1>1, <1>2, <2>2, PassedGrows
  <2>4. Fate(c)' \in {"done", "failed"}
    BY <2>2, NextFateCases, NextFatesExclude
  <2>5. \A j \in JobIds \ {c} : Fate(j)' = Fate(j)
    BY <1>3, <2>2, <2>3, FateKept
  <2> QED BY <1>1, <1>5, <2>4, <2>5 DEF Promised!Finish
<1> QED BY <1>6, <1>7

\* A job that is allowed no attempt fails, although all it needs is done.
LEMMA NoAttemptGivesUp ==
  ASSUME SchedulerInv, SchedulerInv', StartWithoutAttempts
  PROVE  Promised!GiveUp("failed")
<1>1. /\ phase = "loop" /\ phase' = "loop" /\ UNCHANGED <<deps, order>>
      /\ turn \in Turns /\ ~HasResult(Current) /\ Store(Current, "failed", 0)
  BY DEF StartWithoutAttempts, Runnable, Loop, LoopFrame, api
<1>2. PICK c \in JobIds : c = Current
  BY <1>1, CurrentType DEF SchedulerInv
<1>3. \A j : ~Running(j) /\ ~Running(j)'
  BY <1>1 DEF Running
<1>4. c \notin Passed /\ ~HasResult(c)
  BY <1>1, <1>2, PassedFacts
<1>5. /\ results'[c] = [status |-> "failed", attempt |-> 0] /\ turn' = turn + 1
      /\ \A j \in JobIds \ {c} : results'[j] = results[j]
  BY <1>1, <1>2, StoreEffect
<1>6. Passed' = Passed \cup {c}
  BY <1>1, <1>2, <1>5, PassedGrows
<1>7. Fate(c) = "waiting" /\ Fate(c)' = "failed"
  BY <1>3, <1>4, <1>5, FateCases, NextFateCases, FatesExclude, NextFatesExclude
<1>8. \A j \in JobIds \ {c} : Fate(j)' = Fate(j)
  BY <1>3, <1>5, <1>6, FateKept
<1>9. \A d \in deps[c] : d \in JobIds /\ Fate(d) = "done"
  <2>1. \A d \in deps[c] : results[d].status = "success"
    BY <1>2, ReadyJob DEF StartWithoutAttempts
  <2> QED BY <2>1, FateCases, FatesExclude DEF SchedulerInv, TypeOK
<1> QED BY <1>1, <1>7, <1>8, <1>9, FateType DEF Promised!GiveUp, Promised!Fates

\* Cancelling, deferring and skipping: the current job leaves as its owner
\* wished or because something it needs is lost, the others because of it.
LEMMA ResolveGivesUp ==
  ASSUME SchedulerInv, SchedulerInv', CauseInv, ResolveStep
  PROVE  \E f \in {"withdrawn", "deferred"} : Promised!GiveUp(f)
<1>1. /\ phase = "loop" /\ phase' = "loop" /\ turn \in Turns /\ turn' = turn + 1
      /\ ~HasResult(Current) /\ Open \subseteq JobIds /\ UNCHANGED <<jobs, deps, order>>
  BY ResolveStepFrame
<1>2. PICK c \in JobIds : c = Current
  BY ResolveStepFrame
<1>3. PICK S \in SUBSET Open : Resolves(S) /\ \A k \in Turns : order[k] \in S => k >= turn
  BY ResolveStepEffect
<1>4. /\ \A j \in S : /\ j \in JobIds /\ ~HasResult(j)
                      /\ results'[j].status \in {"cancelled", "skipped"}
                      /\ j # c => results'[j].status = "skipped"
                      /\ results'[j].status = "skipped" =>
                           deps[j] \cap (S \cup failed \cup {c}) # {}
      /\ \A j \in JobIds \ S : results'[j] = results[j]
  BY <1>1, <1>2, <1>3 DEF Resolves, Open
<1>5. Passed' = Passed \cup {c} /\ \A j : ~Running(j) /\ ~Running(j)'
  BY <1>1, <1>2, PassedGrows DEF Running
<1>6. \A j \in S \cup {c} : j \notin Passed /\ ~HasResult(j)
  <2>1. \A k \in Turns : k \in Nat /\ turn \in Nat
    BY OrderFacts
  <2>2. ASSUME NEW k \in Turns, k < turn PROVE order[k] \notin S
    BY <1>3, <2>1, <2>2
  <2>3. \A j \in S : j \notin Passed
    BY <2>2 DEF Passed
  <2> QED BY <1>1, <1>2, <1>4, <2>3, PassedFacts
<1>7. \A j \in S \cup {c} : Fate(j) = "waiting"
  BY <1>5, <1>6, FateCases, FatesExclude
<1>8. \A j \in S : /\ results'[j].status = "cancelled" => Fate(j)' = "withdrawn"
                   /\ results'[j].status = "skipped" => Fate(j)' = "blocked"
  BY NextFateCases, NextFatesExclude
<1>9. c \notin S => Fate(c)' = "deferred"
  <2>1. c \notin S => ~HasResult(c)'
    BY <1>1, <1>2, <1>4 DEF HasResult
  <2> QED BY <1>5, <2>1, NextFateCases, NextFatesExclude
<1>10. \A j \in JobIds : j \notin S /\ j # c => Fate(j)' = Fate(j)
  BY <1>4, <1>5, FateKept
<1>11. \A d \in failed : Fate(d)' \in Promised!Lost
  <2> SUFFICES ASSUME NEW d \in failed PROVE Fate(d)' \in Promised!Lost
    OBVIOUS
  <2>1. d \in JobIds /\ HasResult(d) /\ results[d].status # "success"
    BY <1>1 DEF SchedulerInv, TypeOK, LoopInv, CauseInv, Looping
  <2>2. results[d] \in Result /\ results'[d] = results[d]
    BY <1>4, <2>1 DEF SchedulerInv, TypeOK, HasResult
  <2>3. results'[d].status \in {"failed", "cancelled", "skipped"}
    BY <2>1, <2>2 DEF Result, Final
  <2> QED BY <2>3, NextFateCases, NextFatesExclude DEF Promised!Lost
<1>12. \A d \in S \cup {c} : Fate(d)' \in Promised!Lost
  BY <1>4, <1>8, <1>9 DEF Promised!Lost
<1>13. ASSUME NEW j \in JobIds, Fate(j)' = "blocked", Fate(j)' # Fate(j)
       PROVE  \E d \in deps[j] : d \in JobIds /\ Fate(d)' \in Promised!Lost
  <2>1. j \in S
    BY <1>9, <1>10, <1>13
  <2>2. results'[j].status = "skipped"
    BY <1>4, <1>8, <1>13, <2>1
  <2>3. PICK d \in deps[j] : d \in S \cup failed \cup {c}
    BY <1>4, <2>1, <2>2
  <2>4. d \in JobIds
    BY <1>4, <2>1, <2>3 DEF SchedulerInv, TypeOK
  <2> QED BY <1>11, <1>12, <2>3, <2>4
<1>14. PICK f \in {"withdrawn", "deferred"} :
         /\ f = IF c \in S THEN "withdrawn" ELSE "deferred"
  OBVIOUS
<1>15. ASSUME NEW j \in JobIds, Fate(j)' # Fate(j)
       PROVE  Fate(j) = "waiting" /\ Fate(j)' \in {f, "blocked"}
  <2>1. j \in S \cup {c}
    BY <1>10, <1>15
  <2>2. CASE j \in S
    BY <1>4, <1>7, <1>8, <1>14, <2>2
  <2>3. CASE j = c /\ j \notin S
    BY <1>7, <1>9, <1>14, <2>3
  <2> QED BY <2>1, <2>2, <2>3
<1>16. \A j \in JobIds : Fate(j)' # Fate(j) => Fate(j)' # "failed"
  BY <1>15
<1>17. /\ Fates' \in [JobIds -> Promised!Fates]
       /\ \A j \in JobIds : Fates'[j] # Fates[j] =>
            /\ Fates[j] = "waiting"
            /\ Fates'[j] \in {f, "blocked"}
            /\ Fates'[j] = "blocked" => \E n \in deps[j] : Fates'[n] \in Promised!Lost
            /\ Fates'[j] = "failed" => \A n \in deps[j] : Fates[n] = "done"
       /\ UNCHANGED deps
  BY <1>1, <1>13, <1>15, <1>16, FateType DEF Fates
<1>18. Promised!GiveUp(f)
  BY <1>17 DEF Promised!GiveUp, Fates
<1> QED BY <1>18

\* The start of the loop: the results of the last run are dropped.
LEMMA OrderStartsRun ==
  ASSUME SchedulerInv, SchedulerInv', OrderFound
  PROVE  Promised!NewRun
<1>1. /\ UNCHANGED deps /\ turn' = 1 /\ order' = sorted /\ phase' = "loop"
      /\ results' = [j \in JobIds |-> NoResult] /\ sorted \in Seq(JobIds)
  BY DEF OrderFound, api, SchedulerInv, TypeOK
<1>2. Passed' = {} /\ \A j : ~Running(j)'
  BY <1>1 DEF Passed, Turns, Running
<1>3. \A j \in JobIds : ~HasResult(j)'
  BY <1>1 DEF HasResult
<1>4. \A j \in JobIds : Fate(j)' = "waiting"
  BY <1>2, <1>3, NextFateCases, NextFatesExclude
<1> QED BY <1>1, <1>4 DEF Promised!NewRun

\* Every step of the scheduler is a step of JobRun or leaves every fate alone.
LEMMA NextPromise ==
  ASSUME SchedulerInv, SchedulerInv', CauseInv, [Next]_vars
  PROVE  [Promised!PromiseNext]_<<deps, [j \in JobIds |-> Fate(j)]>>
<1>1. CASE \E j \in JobIds : \E ds \in Graphs[j] : RegisterJob(j, ds)
  BY <1>1, RegisterDeclares DEF Promised!PromiseNext
<1>2. CASE OrderFound
  BY <1>2, OrderStartsRun DEF Promised!PromiseNext
<1>3. CASE StartFirstAttempt
  BY <1>3, AttemptStarts DEF Promised!PromiseNext
<1>4. CASE HandlerReturns \/ HandlerExhausted \/ HandlerFatal
  BY <1>4, AttemptFinishes DEF Promised!PromiseNext
<1>5. CASE StartWithoutAttempts
  BY <1>5, NoAttemptGivesUp DEF Promised!PromiseNext
<1>6. CASE ResolveStep
  BY <1>6, ResolveGivesUp DEF Promised!PromiseNext
<1>7. CASE AlreadyResolved
  <2>1. /\ phase = "loop" /\ phase' = "loop" /\ turn \in Turns /\ turn' = turn + 1
        /\ UNCHANGED <<deps, order, results>> /\ HasResult(Current)
    BY <1>7 DEF AlreadyResolved, Loop, LoopFrame, NextTurn, api
  <2>2. Passed' = Passed \cup {Current} /\ \A j : ~Running(j) /\ ~Running(j)'
    BY <2>1, PassedGrows DEF Running
  <2>3. \A j \in JobIds : Fate(j)' = Fate(j)
    BY <2>1, <2>2, FateKept
  <2> QED BY <2>1, <2>3
<1>8. CASE \/ \E t \in Types : RegisterHandler(t)
           \/ \E j \in JobIds : Cancel(j) \/ Pause(j) \/ Resume(j)
           \/ ClearHistory
           \/ RunRejected \/ RunCalled \/ PopNode \/ CycleFound \/ RunReturns
           \/ StartUnsupported \/ HandlerFailsRetryable
           \/ UNCHANGED vars
  <2>1. /\ UNCHANGED <<deps, results, order, turn>>
        /\ (phase' = "attempt") <=> (phase = "attempt")
    BY <1>8 DEF RegisterHandler, Cancel, Pause, Resume, ClearHistory, RunFrame, RunRejected,
       RunCalled, PopNode, CycleFound, RunReturns, StartUnsupported, HandlerFailsRetryable,
       Runnable, Loop, Raise, Attempting, vars, api, loop
  <2>2. \A j \in JobIds : Fate(j)' = Fate(j)
    BY <2>1, FatesKept
  <2> QED BY <2>1, <2>2
<1> QED BY <1>1, <1>2, <1>3, <1>4, <1>5, <1>6, <1>7, <1>8
    DEF Next, ApiStep, RunStep, ResolveStep

\* The scheduler implements JobRun: whatever the order it finds and whatever
\* handlers call back, a job starts only when all it needs is done, and is
\* given up only at its owner's wish or because something it needs is lost.
THEOREM SchedulerPromise == Spec => Promise
<1>1. Init => Promised!PromiseInit
  <2> SUFFICES ASSUME Init PROVE Promised!PromiseInit
    OBVIOUS
  <2>1. \A j \in JobIds : ~HasResult(j) /\ results[j].status = "none"
    BY DEF Init, HasResult, NoResult
  <2>2. Passed = {} /\ phase = "idle"
    BY DEF Init, Passed, Turns
  <2>3. \A j \in JobIds : Fate(j) = "waiting"
    BY <2>1, <2>2 DEF Fate
  <2> QED BY <2>3 DEF Init, Promised!PromiseInit
<1>2. SchedulerInv /\ SchedulerInv' /\ CauseInv /\ [Next]_vars
        => [Promised!PromiseNext]_<<deps, [j \in JobIds |-> Fate(j)]>>
  BY NextPromise
<1> QED BY <1>1, <1>2, CauseInvariant, PTL DEF Spec, Promise, Promised!PromiseSpec
==============================================================================

------------------------------ MODULE Scheduler ------------------------------
(***************************************************************************)
(* The job scheduler of backend/orchestration: Scheduler.run together with *)
(* the parts it drives, DependencyGraph.topological_order, JobExecutor,    *)
(* RetryExecutor, JobRegistry and HistoryStore.                            *)
(*                                                                         *)
(* run() is single threaded, but job handlers are callbacks: while one     *)
(* executes it may call back into the scheduler (cancel, pause, resume,    *)
(* register_job, register a handler, clear the history).  The public       *)
(* operations are therefore enabled when the scheduler is idle and while   *)
(* an attempt is in progress, and nowhere else.                            *)
(***************************************************************************)
EXTENDS DependencyGraph

CONSTANTS
  JobIds,       \* the job ids clients use
  Types,        \* the job types
  JobType,      \* JobType[j]: Job.job_type
  MaxAttempts,  \* MaxAttempts[j]: Job.retry_policy.max_attempts
  Graphs,       \* Graphs[j]: the dependency sets job j may be declared with
  MaxRuns       \* bound: how many times run() is called

ASSUME ConstantsAssumption ==
  /\ JobIds \subseteq Nat
  /\ IsFiniteSet(JobIds)
  /\ JobType \in [JobIds -> Types]
  /\ MaxAttempts \in [JobIds -> Nat]
  /\ Graphs \in [JobIds -> SUBSET SUBSET JobIds]
  /\ MaxRuns \in Nat

VARIABLES
  jobs,       \* ids of the registered jobs (keys of _jobs)
  deps,       \* the dependency sets (_graph._deps)
  status,     \* _status; "none" before registration
  cancelled,  \* _cancelled
  paused,     \* _paused
  handlers,   \* job types with a handler (JobRegistry._handlers)
  results,    \* _results; NoResult for an absent key
  history,    \* HistoryStore._records, one sequence per job
  phase,      \* what run() is doing
  queue,      \* topological_order: the queue
  sorted,     \* topological_order: the list being built
  order,      \* run: the order of the last validated run
  turn,       \* run: index in order of the job whose turn it is
  failed,     \* run: the set failed
  attempt,    \* RetryExecutor: number of the attempt in progress
  outcome,    \* how the last run() ended
  runs        \* how many times run() was called

api     == <<jobs, deps, cancelled, paused, handlers>>
sorting == <<queue, sorted>>
loop    == <<order, turn, failed>>
vars    == <<api, status, results, history, phase, sorting, loop, attempt,
             outcome, runs>>

Statuses == {"pending", "running", "success", "failed", "cancelled", "skipped"}
Final    == {"success", "failed", "cancelled", "skipped"}
NoResult == [status |-> "none", attempt |-> 0]
Result   == [status : Final, attempt : Nat]
Record   == [status : Statuses, attempt : Nat]

HasResult(j) == results[j] # NoResult
Current      == order[turn]
Turns        == DOMAIN order
\* Jobs whose turn in the last validated run has come and gone.
Passed       == {order[k] : k \in {m \in Turns : m < turn}}
\* Neither in self._results nor in failed.
Open         == {j \in jobs : ~HasResult(j) /\ j \notin failed}

TypeOK ==
  /\ jobs \subseteq JobIds
  /\ deps \in [JobIds -> SUBSET JobIds]
  /\ status \in [JobIds -> Statuses \cup {"none"}]
  /\ cancelled \subseteq JobIds
  /\ paused \subseteq JobIds
  /\ handlers \subseteq Types
  /\ results \in [JobIds -> Result \cup {NoResult}]
  /\ history \in [JobIds -> Seq(Record)]
  /\ phase \in {"idle", "sort", "loop", "attempt"}
  /\ queue \in Seq(JobIds)
  /\ sorted \in Seq(JobIds)
  /\ order \in Seq(JobIds)
  /\ turn \in Nat \ {0}
  /\ failed \subseteq JobIds
  /\ attempt \in Nat
  /\ outcome \in {"none", "returned", "unknown_dependency", "cycle", "raised"}
  /\ runs \in 0 .. MaxRuns

Init ==
  /\ jobs = {} /\ deps = [j \in JobIds |-> {}]
  /\ status = [j \in JobIds |-> "none"]
  /\ cancelled = {} /\ paused = {} /\ handlers = {}
  /\ results = [j \in JobIds |-> NoResult]
  /\ history = [j \in JobIds |-> <<>>]
  /\ phase = "idle" /\ outcome = "none"
  /\ queue = <<>> /\ sorted = <<>>
  /\ order = <<>> /\ turn = 1 /\ failed = {}
  /\ attempt = 0 /\ runs = 0

------------------------------------------------------------------------------
(* The public operations, called by the owner or by a handler.             *)

CallbackPoint == phase \in {"idle", "attempt"}

\* What no public operation touches.
RunFrame == UNCHANGED <<results, phase, sorting, loop, attempt, outcome, runs>>

RegisterJob(j, ds) ==
  /\ CallbackPoint
  /\ j \notin jobs
  /\ ds \in Graphs[j]
  /\ jobs' = jobs \cup {j}
  /\ deps' = [deps EXCEPT ![j] = ds]
  /\ status' = [status EXCEPT ![j] = "pending"]
  /\ UNCHANGED <<cancelled, paused, handlers, history>> /\ RunFrame

RegisterHandler(t) ==
  /\ CallbackPoint
  /\ handlers' = handlers \cup {t}
  /\ UNCHANGED <<jobs, deps, cancelled, paused, status, history>> /\ RunFrame

Cancel(j) ==
  /\ CallbackPoint
  /\ j \in jobs
  /\ cancelled' = cancelled \cup {j}
  /\ UNCHANGED <<jobs, deps, paused, handlers, status, history>> /\ RunFrame

Pause(j) ==
  /\ CallbackPoint
  /\ j \in jobs
  /\ paused' = paused \cup {j}
  /\ UNCHANGED <<jobs, deps, cancelled, handlers, status, history>> /\ RunFrame

Resume(j) ==
  /\ CallbackPoint
  /\ j \in jobs
  /\ paused' = paused \ {j}
  /\ UNCHANGED <<jobs, deps, cancelled, handlers, status, history>> /\ RunFrame

ClearHistory ==
  /\ CallbackPoint
  /\ history' = [j \in JobIds |-> <<>>]
  /\ UNCHANGED <<api, status>> /\ RunFrame

------------------------------------------------------------------------------
(* run(): validation and the topological order.                            *)

UnknownDependency == \E j \in jobs : ~ deps[j] \subseteq jobs

\* _validate_graph raises before anything of the previous run is dropped.
RunRejected ==
  /\ phase = "idle" /\ runs < MaxRuns
  /\ UnknownDependency
  /\ runs' = runs + 1
  /\ outcome' = "unknown_dependency"
  /\ UNCHANGED <<api, status, results, history, phase, sorting, loop, attempt>>

RunCalled ==
  /\ phase = "idle" /\ runs < MaxRuns
  /\ ~ UnknownDependency
  /\ runs' = runs + 1
  /\ phase' = "sort"
  /\ sorted' = <<>>
  /\ queue' \in SortedLists(Roots(jobs, deps))
  /\ UNCHANGED <<api, status, results, history, loop, attempt, outcome>>

\* One iteration of "while queue".
PopNode ==
  /\ phase = "sort" /\ queue # <<>>
  /\ LET node == Head(queue)
     IN  /\ sorted' = Append(sorted, node)
         /\ \E s \in SortedLists(Unblocked(jobs, deps, Range(sorted), node)) :
              queue' = Tail(queue) \o s
  /\ UNCHANGED <<api, status, results, history, phase, loop, attempt, outcome,
                 runs>>

CycleFound ==
  /\ phase = "sort" /\ queue = <<>>
  /\ Len(sorted) # Cardinality(jobs)
  /\ phase' = "idle" /\ outcome' = "cycle" /\ sorted' = <<>>
  /\ UNCHANGED <<api, status, results, history, queue, loop, attempt, runs>>

\* Mutant: the loop visits the jobs in id order.
OrderFoundById ==
  /\ phase = "sort" /\ queue = <<>>
  /\ Len(sorted) = Cardinality(jobs)
  /\ phase' = "loop"
  /\ order' \in SortedLists(jobs) /\ turn' = 1 /\ failed' = {}
  /\ results' = [j \in JobIds |-> NoResult]
  /\ sorted' = <<>>
  /\ UNCHANGED <<api, status, history, queue, attempt, outcome, runs>>

OrderFound ==
  /\ phase = "sort" /\ queue = <<>>
  /\ Len(sorted) = Cardinality(jobs)
  /\ phase' = "loop"
  /\ order' = sorted /\ turn' = 1 /\ failed' = {}
  /\ results' = [j \in JobIds |-> NoResult]
  /\ sorted' = <<>>
  /\ UNCHANGED <<api, status, history, queue, attempt, outcome, runs>>

------------------------------------------------------------------------------
(* run(): the loop over the order.                                         *)

\* _resolve_terminal for every job in the domain of verdict, over the
\* statuses st: a result and a history record with attempt number 0.
Resolve(st, verdict) ==
  LET Entry(j) == [status |-> verdict[j], attempt |-> 0]
      S == DOMAIN verdict
  IN  /\ results' = [j \in JobIds |-> IF j \in S THEN Entry(j) ELSE results[j]]
      /\ status'  = [j \in JobIds |-> IF j \in S THEN verdict[j] ELSE st[j]]
      /\ history' = [j \in JobIds |-> IF j \in S THEN Append(history[j], Entry(j))
                                      ELSE history[j]]
      /\ failed' = failed \cup S

Loop == phase = "loop" /\ turn \in Turns
NextTurn == turn' = turn + 1
LoopFrame == UNCHANGED <<api, phase, sorting, order, attempt, outcome, runs>>

\* Mutant: the loop forgets to move on.
AlreadyResolvedForEver ==
  /\ Loop /\ HasResult(Current)
  /\ UNCHANGED turn
  /\ UNCHANGED <<results, status, history, failed>> /\ LoopFrame

\* "if job_id in self._results: continue"
AlreadyResolved ==
  /\ Loop /\ HasResult(Current)
  /\ NextTurn
  /\ UNCHANGED <<results, status, history, failed>> /\ LoopFrame

ResolveCancelled ==
  /\ Loop /\ ~HasResult(Current)
  /\ Current \in cancelled
  /\ LET hit == Reached(deps, Open \ {Current}, Current) \cup {Current}
     IN  Resolve(status, [j \in hit |-> IF j = Current THEN "cancelled"
                                                       ELSE "skipped"])
  /\ NextTurn /\ LoopFrame

\* Mutant: the dependents of a paused job are not skipped.
DeferPausedAlone ==
  /\ Loop /\ ~HasResult(Current)
  /\ Current \notin cancelled /\ Current \in paused
  /\ status' = [status EXCEPT ![Current] = "pending"]
  /\ UNCHANGED <<results, history, failed>>
  /\ NextTurn /\ LoopFrame

\* A paused job itself gets no result and is not put in failed.
DeferPaused ==
  /\ Loop /\ ~HasResult(Current)
  /\ Current \notin cancelled /\ Current \in paused
  /\ Resolve([status EXCEPT ![Current] = "pending"],
             [j \in Reached(deps, Open, Current) |-> "skipped"])
  /\ NextTurn /\ LoopFrame

\* Mutant: jobs that have a result already are run again.
RunnableAgain ==
  /\ Loop
  /\ Current \notin cancelled \cup paused

Runnable ==
  /\ Loop /\ ~HasResult(Current)
  /\ Current \notin cancelled \cup paused

\* Mutant: all() for any().
BlockedByAll == deps[Current] # {} /\ deps[Current] \subseteq failed

\* any(dep in failed for dep in deps)
Blocked == deps[Current] \cap failed # {}

ResolveSkipped ==
  /\ Runnable
  /\ Blocked
  /\ Resolve(status, [j \in {Current} |-> "skipped"])
  /\ NextTurn /\ LoopFrame

\* Mutant: the set failed is not updated.
StoreUnmarked(j, st, n) ==
  /\ results' = [results EXCEPT ![j] = [status |-> st, attempt |-> n]]
  /\ status' = [status EXCEPT ![j] = st]
  /\ failed' = failed
  /\ NextTurn

\* run(): the result of the executor is stored, its status copied.
Store(j, st, n) ==
  /\ results' = [results EXCEPT ![j] = [status |-> st, attempt |-> n]]
  /\ status' = [status EXCEPT ![j] = st]
  /\ failed' = IF st = "success" THEN failed ELSE failed \cup {j}
  /\ NextTurn

\* JobExecutor._on_attempt
RecordAttempt(j, st) ==
  history' = [history EXCEPT ![j] = Append(@, [status |-> st, attempt |-> attempt])]

\* An exception leaves run(): locals are gone, the fields stay as they are.
Raise == phase' = "idle" /\ outcome' = "raised" /\ attempt' = 0

StartFirstAttempt ==
  /\ Runnable
  /\ ~Blocked
  /\ JobType[Current] \in handlers
  /\ MaxAttempts[Current] > 0
  /\ status' = [status EXCEPT ![Current] = "running"]
  /\ phase' = "attempt" /\ attempt' = 1
  /\ UNCHANGED <<api, results, history, sorting, loop, outcome, runs>>

\* max_attempts = 0: RetryExhaustedError without a single call.
StartWithoutAttempts ==
  /\ Runnable
  /\ ~Blocked
  /\ JobType[Current] \in handlers
  /\ MaxAttempts[Current] = 0
  /\ Store(Current, "failed", 0)
  /\ UNCHANGED history /\ LoopFrame

\* JobRegistry.get raises UnsupportedJobTypeError through run().
StartUnsupported ==
  /\ Runnable
  /\ ~Blocked
  /\ JobType[Current] \notin handlers
  /\ status' = [status EXCEPT ![Current] = "running"]
  /\ Raise
  /\ UNCHANGED <<api, results, history, sorting, loop, runs>>

RunReturns ==
  /\ phase = "loop" /\ turn \notin Turns
  /\ phase' = "idle" /\ outcome' = "returned"
  /\ UNCHANGED <<api, status, results, history, sorting, loop, attempt, runs>>

------------------------------------------------------------------------------
(* RetryExecutor.execute: what the handler's attempt may end in.           *)

Attempting == phase = "attempt"

HandlerReturns ==
  /\ Attempting
  /\ RecordAttempt(Current, "success")
  /\ Store(Current, "success", attempt)
  /\ phase' = "loop" /\ attempt' = 0
  /\ UNCHANGED <<api, sorting, order, outcome, runs>>

\* Mutant: one attempt too many.
HandlerFailsOnceMore ==
  /\ Attempting /\ attempt <= MaxAttempts[Current]
  /\ RecordAttempt(Current, "running")
  /\ attempt' = attempt + 1
  /\ UNCHANGED <<api, status, results, phase, sorting, loop, outcome, runs>>

HandlerFailsRetryable ==
  /\ Attempting /\ attempt < MaxAttempts[Current]
  /\ RecordAttempt(Current, "running")
  /\ attempt' = attempt + 1
  /\ UNCHANGED <<api, status, results, phase, sorting, loop, outcome, runs>>

\* Mutant: the last failure is recorded as if it were retried.
HandlerExhaustedRunning ==
  /\ Attempting /\ attempt >= MaxAttempts[Current]
  /\ RecordAttempt(Current, "running")
  /\ Store(Current, "failed", attempt)
  /\ phase' = "loop" /\ attempt' = 0
  /\ UNCHANGED <<api, sorting, order, outcome, runs>>

HandlerExhausted ==
  /\ Attempting /\ attempt >= MaxAttempts[Current]
  /\ RecordAttempt(Current, "failed")
  /\ Store(Current, "failed", attempt)
  /\ phase' = "loop" /\ attempt' = 0
  /\ UNCHANGED <<api, sorting, order, outcome, runs>>

\* An exception the retry policy does not list: recorded, then re-raised
\* through JobExecutor.execute and Scheduler.run.
HandlerFatal ==
  /\ Attempting
  /\ RecordAttempt(Current, "failed")
  /\ Raise
  /\ UNCHANGED <<api, status, results, sorting, loop, runs>>

------------------------------------------------------------------------------
ApiStep ==
  \/ \E j \in JobIds : \E ds \in Graphs[j] : RegisterJob(j, ds)
  \/ \E t \in Types : RegisterHandler(t)
  \/ \E j \in JobIds : Cancel(j) \/ Pause(j) \/ Resume(j)
  \/ ClearHistory

RunStep ==
  \/ PopNode \/ CycleFound \/ OrderFound
  \/ AlreadyResolved \/ ResolveCancelled \/ DeferPaused \/ ResolveSkipped
  \/ StartFirstAttempt \/ StartWithoutAttempts \/ StartUnsupported
  \/ RunReturns
  \/ HandlerReturns \/ HandlerFailsRetryable \/ HandlerExhausted \/ HandlerFatal

Next == ApiStep \/ RunRejected \/ RunCalled \/ RunStep

Spec == Init /\ [][Next]_vars

\* run() is a loop and handlers return: a started run keeps taking steps.
FairSpec == Spec /\ WF_vars(RunStep)
------------------------------------------------------------------------------
(* What a run promises.                                                    *)

\* A job is executed only when every job it depends on has succeeded in the
\* same run (Job.dependencies: "Job ids that must succeed before this job
\* runs").  "failed" is the status of executed jobs only, so both final
\* statuses of an executed job are covered, and the attempt in progress.
Executed(j) == results[j].status \in {"success", "failed"}
RunsOnlyAfterDependencies ==
  \A j \in JobIds :
    Executed(j) \/ (phase = "attempt" /\ j = Current) =>
      \A d \in deps[j] : results[d].status = "success"

\* The order computed by topological_order lists each job once and after all
\* of its dependencies.
OrderRespectsDependencies ==
  \A k \in Turns :
    /\ \A m \in Turns : order[m] = order[k] => m = k
    /\ deps[order[k]] \subseteq {order[m] : m \in {i \in Turns : i < k}}

\* topological_order reports a cycle exactly when some set of jobs waits for
\* itself: never for an acyclic graph, and an ordered graph has none.
CycleVerdictExact ==
  /\ outcome = "cycle" => Cyclic(jobs, deps)
  /\ ~ Cyclic(Range(order), deps)

\* A job reported SKIPPED has a dependency that did not succeed in that run:
\* it failed, was cancelled or skipped itself, or was deferred (its turn
\* passed without a result).
SkipHasCause ==
  \A j \in JobIds :
    results[j].status = "skipped" =>
      \E d \in deps[j] :
        \/ results[d].status \in {"failed", "cancelled", "skipped"}
        \/ d \in Passed /\ ~HasResult(d)

\* A job whose turn passed without a result was deferred: it is back to
\* PENDING, and each of its dependents in the run is reported SKIPPED.
DeferralIsolates ==
  \A j \in Passed :
    ~HasResult(j) =>
      /\ status[j] = "pending"
      /\ \A d \in Range(order) : j \in deps[d] => results[d].status = "skipped"

\* status_of, results() and HistoryStore.latest never contradict each other:
\* the status of a job with a result is the result's, and the latest attempt is
\* the one that decided it, unless no attempt did (max_attempts = 0).
ThreeBooksAgree ==
  /\ \A j \in JobIds : HasResult(j) => status[j] = results[j].status
  /\ phase = "attempt" => status[Current] = "running"
  /\ \A j \in JobIds :
       /\ HasResult(j) /\ results[j] # [status |-> "failed", attempt |-> 0]
       /\ history[j] # <<>>
       => history[j][Len(history[j])] = results[j]

\* Attempt n > 1 is recorded only after attempt n - 1 of the same execution
\* was recorded as retried, and never beyond the policy's maximum.
RetriesFollowFailures ==
  \A j \in JobIds : \A k \in DOMAIN history[j] :
    LET r == history[j][k]
    IN  /\ r.attempt <= MaxAttempts[j]
        /\ r.status = "running" => r.attempt < MaxAttempts[j]
        /\ k > 1 /\ r.attempt > 1 =>
             history[j][k - 1] = [status |-> "running", attempt |-> r.attempt - 1]

\* Within a run a result is written once: only the start of the loop of the
\* next run takes results away.
ResultsAreFinal ==
  [][phase # "sort" => \A j \in JobIds : HasResult(j) => results'[j] = results[j]]_vars

\* Handlers that call back into the scheduler cannot keep run() from ending.
RunEnds == phase # "idle" ~> phase = "idle"
------------------------------------------------------------------------------
(* The run implements the promise of JobRun.                               *)

\* What has become of a job, read off the scheduler's fields.  In a run that
\* raised, the job it raised in waits again: it has no result.
Fate(j) ==
  CASE results[j].status = "success"   -> "done"
    [] results[j].status = "failed"    -> "failed"
    [] results[j].status = "skipped"   -> "blocked"
    [] results[j].status = "cancelled" -> "withdrawn"
    [] ~HasResult(j) /\ j \in Passed   -> "deferred"
    [] phase = "attempt" /\ j = Current -> "running"
    [] OTHER                           -> "waiting"

Promised == INSTANCE JobRun WITH needs <- deps,
                                 fate  <- [j \in JobIds |-> Fate(j)]
Promise == Promised!PromiseSpec
==============================================================================

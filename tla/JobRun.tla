-------------------------------- MODULE JobRun --------------------------------
(***************************************************************************)
(* What a scheduler run promises to the owner of the jobs, whatever the    *)
(* order it visits them in: a job starts only after all of its             *)
(* dependencies are done, and a job that is given up has a dependency that *)
(* did not get done.  backend/orchestration/scheduler.py is shown to       *)
(* implement it (Scheduler!Promise).                                       *)
(***************************************************************************)
CONSTANT JobIds

VARIABLES
  needs,  \* needs[j]: the jobs that must be done before j starts
  fate    \* fate[j]: what has become of j in the current run

Fates == {"waiting", "running", "done", "failed", "blocked", "withdrawn",
          "deferred"}

\* A job in one of these states will not get done in this run.
Lost == {"failed", "blocked", "withdrawn", "deferred"}

PromiseType ==
  /\ needs \in [JobIds -> SUBSET JobIds]
  /\ fate \in [JobIds -> Fates]

PromiseInit ==
  /\ needs = [j \in JobIds |-> {}]
  /\ fate = [j \in JobIds |-> "waiting"]

\* A job nobody has declared yet is given its needs.
Declare(j) ==
  /\ fate[j] = "waiting" /\ needs[j] = {}
  /\ needs' \in [JobIds -> SUBSET JobIds]
  /\ \A n \in JobIds \ {j} : needs'[n] = needs[n]
  /\ UNCHANGED fate

NewRun ==
  /\ fate' = [j \in JobIds |-> "waiting"]
  /\ UNCHANGED needs

Start(j) ==
  /\ fate[j] = "waiting"
  /\ \A n \in needs[j] : fate[n] = "done"
  /\ fate' = [fate EXCEPT ![j] = "running"]
  /\ UNCHANGED needs

\* The attempt is over; "waiting" when the run was abandoned with it.
Finish(j) ==
  /\ fate[j] = "running"
  /\ \E f \in {"done", "failed", "waiting"} : fate' = [fate EXCEPT ![j] = f]
  /\ UNCHANGED needs

\* Waiting jobs leave the run: some by the owner's wish (withdrawn, deferred)
\* or because they may not be attempted at all (failed, although everything
\* they need is done), the others only because a need of theirs is lost.
GiveUp(f) ==
  /\ fate' \in [JobIds -> Fates]
  /\ \A j \in JobIds : fate'[j] # fate[j] =>
       /\ fate[j] = "waiting"
       /\ fate'[j] \in {f, "blocked"}
       /\ fate'[j] = "blocked" => \E n \in needs[j] : fate'[n] \in Lost
       /\ fate'[j] = "failed" => \A n \in needs[j] : fate[n] = "done"
  /\ UNCHANGED needs

PromiseNext ==
  \/ NewRun
  \/ \E j \in JobIds : Declare(j) \/ Start(j) \/ Finish(j)
  \/ \E f \in {"withdrawn", "deferred", "failed"} : GiveUp(f)

PromiseSpec == PromiseInit /\ [][PromiseNext]_<<needs, fate>>
==============================================================================

----------------------------- MODULE MCScheduler -----------------------------
(* Instances of Scheduler for TLC.                                         *)
EXTENDS Scheduler

\* Three jobs, any dependency sets (cycles, self loops and unknown ids
\* included), one handler type.
ThreeJobs  == {1, 2, 3}
AnyGraph   == [j \in ThreeJobs |-> SUBSET ThreeJobs]
OneType    == [j \in ThreeJobs |-> "t"]
OneAttempt == [j \in ThreeJobs |-> 1]

\* A chain 2 <- 1 <- 3 (1 needs 2, 3 needs 1) over two runs, with a retried
\* job, a job that is allowed no attempt and two handler types.
Chain        == [j \in ThreeJobs |-> CASE j = 2 -> {{}} [] j = 1 -> {{2}} [] j = 3 -> {{1}}]
ChainType    == [j \in ThreeJobs |-> IF j = 3 THEN "u" ELSE "t"]
ChainRetry   == [j \in ThreeJobs |-> CASE j = 1 -> 2 [] j = 2 -> 1 [] j = 3 -> 0]
==============================================================================

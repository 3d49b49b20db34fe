--------------------------- MODULE DependencyGraph ---------------------------
(***************************************************************************)
(* The dependency graph of backend/orchestration/dependency_graph.py.      *)
(* A graph is a function deps from job ids to the set of ids they depend   *)
(* on (self._deps); the reverse edges (self._dependents) and the in-degree *)
(* counters of the sort are derived from it.  Job ids are numbers: the     *)
(* code only compares them, to iterate in sorted order.                    *)
(***************************************************************************)
EXTENDS Integers, FiniteSets, Sequences, Functions

\* Every id the graph knows, a dependency nobody registered included.
Nodes(jobs, deps) == jobs \cup UNION {deps[j] : j \in jobs}

\* Direct dependents of a node (the set behind dependents_of).
DependentsOf(jobs, deps, node) == {j \in jobs : node \in deps[j]}

\* sorted(S): the members of S once each, in ascending order.
SortedLists(S) ==
  {s \in [1 .. Cardinality(S) -> S] :
     /\ Range(s) = S
     /\ \A a, b \in DOMAIN s : a < b => s[a] < s[b]}

\* Nodes whose in-degree is zero before anything is popped from the queue.
Roots(nodes, deps) == {n \in nodes : deps[n] = {}}

\* Mutant: only dependents with a single dependency are ever released.
UnblockedSingleOnly(nodes, deps, done, node) ==
  {n \in DependentsOf(nodes, deps, node) : deps[n] = {node}}

\* Nodes whose in-degree counter reaches zero when node is popped after the
\* nodes in done: the dependents of node that wait for nothing else.
Unblocked(nodes, deps, done, node) ==
  {n \in DependentsOf(nodes, deps, node) : deps[n] \subseteq done \cup {node}}

\* A set of nodes each of which waits for another of them: what a cycle is
\* made of, whatever order the nodes are visited in.
Knot(deps, S) == S # {} /\ \A n \in S : deps[n] \cap S # {}
Cyclic(nodes, deps) == \E S \in SUBSET nodes : Knot(deps, S)

\* Mutant: every open job is taken for a dependent.
ReachedEverything(deps, open, node) == open \ {node}

\* The jobs _propagate_skip(node) resolves: the least set of open jobs (jobs
\* with neither a result nor a mark in failed) that contains every open
\* dependent of node and of its own members.
Reached(deps, open, node) ==
  LET Closed(S) == \A n \in open : deps[n] \cap (S \cup {node}) # {} => n \in S
  IN  {n \in open : \A S \in SUBSET open : Closed(S) => n \in S}
==============================================================================

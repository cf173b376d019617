------------------------------ MODULE MapGraph ------------------------------
(***************************************************************************)
(* The dependency graph of a proof map, as an adjacency function: D[n] is  *)
(* the set of nodes that n directly rests on.  The services walk it with   *)
(* explicit worklists; here a walk is what it computes, the least set      *)
(* closed under the edges.                                                 *)
(***************************************************************************)

\* C is closed under the edges of D: whatever a member rests on is a member.
Closed(D, C) == \A m \in C : D[m] \subseteq C

\* The node n and every node it rests on, directly or through others
\* (proof_map.rests_on).
RestsOn(D, n) ==
  {m \in DOMAIN D : \A C \in SUBSET DOMAIN D : n \in C /\ Closed(D, C) => m \in C}

ReachesDirectly(D, start, goal) == start = goal \/ goal \in D[start]

\* The breadth-first walk of proof_map._dependency_path finds a chain of edges
\* from start down to goal.
Reaches(D, start, goal) == goal \in RestsOn(D, start)

\* No cycle: every nonempty set of nodes has a member resting on none of them.
Acyclic(D) ==
  \A S \in SUBSET DOMAIN D : S # {} => \E m \in S : D[m] \cap S = {}
=============================================================================

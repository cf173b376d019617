----------------------------- MODULE MapReadings ------------------------------
(***************************************************************************)
(* What the map says of a node from what its dependencies are (proof_map.py *)
(* 4035-4556): the cause that unsettles it, the unsettled support it is     *)
(* worked on, Provisional, Conditional, the integrity axis and the          *)
(* frontier.  Two of these are walks: each goes down the dependencies once  *)
(* per read scope, with a stack of its own, and leaves its answer for every *)
(* node it passes in a table that later questions of the scope reuse.       *)
(* The records do not change while they are read (NodeStates and ReadScope  *)
(* have the writes).                                                        *)
(***************************************************************************)
EXTENDS MapGraph, Naturals, FiniteSets, Sequences

CONSTANTS
  Nodes,
  Imports,     \* the imported results: leaves of the map
  Standings,   \* a bound: the standings a node may have, for each node
  Edges,       \* a bound: the dependencies this instance may have
  Asked        \* a bound: the nodes the readers of the scope ask about

\* accepted: Accepted, or Reference-reviewed or trusted by rule; passed: a
\* snapshot that awaits its decision with the Verifier's pass on the present text,
\* or an imported result nobody has reviewed; awaiting: one without; open: none;
\* returned: sent back for revision, rejected: for good (no longer callable).
AllStandings == {"accepted", "passed", "awaiting", "open", "returned", "rejected"}

\* Imports and Asked are sets of nodes, Edges lead from nodes that are no imports,
\* and an import is accepted, passed or rejected.

VARIABLES
  deps,        \* node -> the nodes it directly rests on
  standing,    \* node -> its own standing
  challenged,  \* the nodes under an open Challenge
  behind,      \* the nodes with a pin on an interface its target no longer has
  cause,       \* scoped_memo "upstream_cause": node -> its cause
  causeWalk,   \* the stack of the walk that is filling it
  support,     \* scoped_memo "unsettled_support": node -> set of nodes
  supportWalk

records == <<deps, standing, challenged, behind>>
vars == <<records, cause, causeWalk, support, supportWalk>>

Causes == {"none", "stale", "challenged"}
Rank == [none |-> 0, stale |-> 1, challenged |-> 2]
Worse(a, b) == IF Rank[a] >= Rank[b] THEN a ELSE b

\* What a node itself starts.
OwnCause(n) ==
  IF n \in challenged \/ (n \in Imports /\ standing[n] = "rejected") THEN "challenged"
  ELSE IF n \in behind THEN "stale" ELSE "none"

\* Plain reachability: the worst cause of the node and all it rests on.
ReachableCause(n) ==
  LET found == {OwnCause(m) : m \in RestsOn(deps, n)}
  IN  CHOOSE c \in found : \A other \in found : Rank[other] <= Rank[c]

\* Whether a dependency has the standing that unblocks what rests on it.
Satisfied(d) == standing[d] = "accepted" /\ ReachableCause(d) = "none"

\* Plain reachability again, through unsettled nodes only.
ReachableUnsettled(n) ==
  LET unsettled == [m \in Nodes |-> {d \in deps[m] : ~Satisfied(d)}]
  IN  UNION {unsettled[m] : m \in RestsOn(unsettled, n)}
-----------------------------------------------------------------------------
(* The walk for the cause.                                                 *)

Top(walk) == walk[Len(walk)]
Below(walk) == SubSeq(walk, 1, Len(walk) - 1)

Remember(table, keys, value) ==
  [n \in DOMAIN table \cup keys |-> IF n \in keys THEN value ELSE table[n]]

Frame(n, found) == [node |-> n, left |-> deps[n], found |-> found]

\* Nothing outranks a Challenge: every node on the path has it, and the walk ends.
Settles(path) ==
  /\ cause' = Remember(cause, path, "challenged")
  /\ causeWalk' = <<>>

PathOf(walk) == {walk[i].node : i \in DOMAIN walk}

Enter(n, walk) ==
  IF OwnCause(n) = "challenged" THEN Settles({n} \cup PathOf(walk))
  ELSE /\ causeWalk' = Append(walk, Frame(n, OwnCause(n)))
       /\ UNCHANGED cause

SeenSoFar(walk, d, found) ==
  [walk EXCEPT ![Len(walk)].left = @ \ {d}, ![Len(walk)].found = found]

\* A question: of a reader, or of the other walk about a dependency it has come to.
AskCause(n) ==
  /\ causeWalk = <<>> /\ n \notin DOMAIN cause
  /\ IF supportWalk = <<>> THEN n \in Asked
     ELSE n \in Top(supportWalk).left /\ standing[n] = "accepted"
  /\ Enter(n, <<>>)
  /\ UNCHANGED <<records, support, supportWalk>>

CarriedOver(walk, found) ==
  IF walk = <<>> THEN walk ELSE [walk EXCEPT ![Len(walk)].found = found]

CarriedUp(walk, found) ==
  IF walk = <<>> THEN walk ELSE [walk EXCEPT ![Len(walk)].found = Worse(@, found)]

\* One turn of the loop: the top node's dependencies are all seen, or one of
\* them, in whatever order its row lists them, is reused or entered.
CauseLeaves ==
  /\ causeWalk # <<>> /\ Top(causeWalk).left = {}
  /\ cause' = Remember(cause, {Top(causeWalk).node}, Top(causeWalk).found)
  /\ causeWalk' = CarriedUp(Below(causeWalk), Top(causeWalk).found)
  /\ UNCHANGED <<records, support, supportWalk>>

CauseSees(d) ==
  /\ causeWalk # <<>> /\ d \in Top(causeWalk).left
  /\ IF d \in DOMAIN cause
     THEN IF cause[d] = "challenged" THEN Settles(PathOf(causeWalk))
          ELSE /\ causeWalk' = SeenSoFar(causeWalk, d, Worse(Top(causeWalk).found, cause[d]))
               /\ UNCHANGED cause
     ELSE Enter(d, SeenSoFar(causeWalk, d, Top(causeWalk).found))
  /\ UNCHANGED <<records, support, supportWalk>>
-----------------------------------------------------------------------------
(* The walk for the unsettled support.                                     *)

AskSupport(n) ==
  /\ causeWalk = <<>> /\ supportWalk = <<>> /\ n \in Asked \ DOMAIN support
  /\ supportWalk' = <<Frame(n, {})>>
  /\ UNCHANGED <<records, cause, causeWalk, support>>

SupportLeaves ==
  /\ causeWalk = <<>> /\ supportWalk # <<>> /\ Top(supportWalk).left = {}
  /\ LET done == Top(supportWalk)
         rest == Below(supportWalk)
     IN  /\ support' = Remember(support, {done.node}, done.found)
         /\ supportWalk' = IF rest = <<>> THEN rest ELSE [rest EXCEPT ![Len(rest)].found = @ \cup done.found]
  /\ UNCHANGED <<records, cause, causeWalk>>

ReusedAlone(d) == {d}
Reused(d) == {d} \cup support[d]

\* _dependency_satisfied asks for the cause of a dependency that has its standing.
SupportSees(d) ==
  /\ causeWalk = <<>> /\ supportWalk # <<>> /\ d \in Top(supportWalk).left
  /\ standing[d] = "accepted" => d \in DOMAIN cause
  /\ LET found == Top(supportWalk).found
         settled == standing[d] = "accepted" /\ cause[d] = "none"
     IN  supportWalk' =
           IF settled THEN SeenSoFar(supportWalk, d, found)
           ELSE IF d \in DOMAIN support THEN SeenSoFar(supportWalk, d, found \cup Reused(d))
           ELSE Append(SeenSoFar(supportWalk, d, found \cup {d}), Frame(d, {}))
  /\ UNCHANGED <<records, cause, causeWalk, support>>
-----------------------------------------------------------------------------
(* What the walks are for.                                                 *)

Awaiting(n) == n \notin Imports /\ standing[n] \in {"passed", "awaiting"}

SentBack(n) == standing[n] \in {"returned", "rejected"}

SupportWithdrawn(n) == \E d \in ReachableUnsettled(n) : SentBack(d)

\* A restatement, a dependency edit or a missing pass leaves a snapshot "awaiting".
ProvisionalItself(n) ==
  /\ standing[n] = "passed"
  /\ n \notin Imports => n \notin challenged /\ ~SupportWithdrawn(n)

\* May be rested on for work: read without recursion, over the whole support.
Provisional(n) == ProvisionalItself(n) /\ \A s \in ReachableUnsettled(n) : ProvisionalItself(s)

\* The Provisional nodes a proof stands on.
ConditionalOn(n) ==
  IF n \notin Imports /\ standing[n] = "accepted" THEN {}
  ELSE {d \in ReachableUnsettled(n) : Provisional(d)}

Pickable(n) ==
  /\ n \notin Imports
  /\ standing[n] # "rejected"
  /\ standing[n] = "accepted" => n \in challenged

FrontierOnItself ==
  {n \in Nodes : Pickable(n) /\ ~Awaiting(n) /\ \A d \in deps[n] : Satisfied(d) \/ ProvisionalItself(d)}

\* What an agent should claim next, as long as nobody holds it.
Frontier ==
  {n \in Nodes : Pickable(n) /\ ~Awaiting(n) /\ \A d \in deps[n] : Satisfied(d) \/ Provisional(d)}

PotentiallyStale(n) ==
  /\ n \notin challenged
  /\ \/ n \notin Imports /\ standing[n] = "accepted" /\ ReachableCause(n) # "none"
     \/ Awaiting(n) /\ SupportWithdrawn(n)

BlockedReason(n) ==
  LET unresolved == {d \in deps[n] : ~Satisfied(d)}
  IN  IF standing[n] = "accepted" \/ unresolved = {} THEN "none"
      ELSE IF \E d \in deps[n] : d \in Imports /\ standing[d] = "rejected" THEN "dependency-not-callable"
      ELSE IF \E d \in unresolved : ReachableCause(d) = "challenged" THEN "dependency-challenged"
      ELSE IF \E d \in unresolved : ReachableCause(d) = "stale" THEN "dependency-stale"
      ELSE "not-accepted"
-----------------------------------------------------------------------------
\* A scope as it opens: nothing read.
Fresh == cause = <<>> /\ causeWalk = <<>> /\ support = <<>> /\ supportWalk = <<>>

Init ==
  /\ deps \in {D \in {[n \in Nodes |-> {d \in Nodes : <<n, d>> \in E}] : E \in SUBSET Edges} : Acyclic(D)}
  /\ standing \in {s \in [Nodes -> AllStandings] : \A n \in Nodes : s[n] \in Standings[n]}
  /\ challenged \in {C \in SUBSET Nodes : Cardinality(C) <= 1}
  /\ behind \in {B \in SUBSET {n \in Nodes : deps[n] # {}} : Cardinality(B) <= 1}
  /\ Fresh

Next ==
  \/ \E n \in Nodes : AskCause(n) \/ CauseSees(n) \/ AskSupport(n) \/ SupportSees(n)
  \/ CauseLeaves
  \/ SupportLeaves

Spec == Init /\ [][Next]_vars
-----------------------------------------------------------------------------
(* Properties.                                                             *)

\* Every cause the walk leaves in the table of its scope, for a node it only
\* passed included, is the worst one the node can reach, in whatever order the
\* dependencies came and the questions were asked (_upstream_cause).
CauseRight == \A n \in DOMAIN cause : cause[n] = ReachableCause(n)

\* So is every unsettled support (_unsettled_support).
SupportRight == \A n \in DOMAIN support : support[n] = ReachableUnsettled(n)

\* What the walks leave in the tables of their scope is right, for every node
\* they only passed too (_upstream_cause, _unsettled_support).
WalksRight == CauseRight /\ SupportRight

\* What the frontier offers rests on settled and Provisional nodes only, so that
\* its proof is conditional on the whole of its unsettled support (get_frontier,
\* conditional_on).
FrontierGrounded ==
  \A n \in Frontier : standing[n] # "accepted" => ConditionalOn(n) = ReachableUnsettled(n)

\* "A node under an open Challenge ... is not [Provisional]" (is_provisional).
ChallengedIsNotProvisional == \A n \in Nodes : n \in challenged => ~Provisional(n)
=============================================================================

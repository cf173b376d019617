------------------------------ MODULE ProofMap ------------------------------
(***************************************************************************)
(* The proof map of one project (src/proof_cli/proof_map.py): its nodes,   *)
(* the edges between them, the claims on them, their Review snapshots and  *)
(* the researcher's Acceptance decisions.                                  *)
(*                                                                         *)
(* Every service below checks and writes inside one store.transaction()    *)
(* (BEGIN IMMEDIATE), so one action is one operation; the few that check   *)
(* before the lock are modelled as if they checked on it.                  *)
(*                                                                         *)
(* What is abstracted: wording, ids of rows, files' bytes.  A node's open  *)
(* Challenges are one bit, "some Challenge on it is open".  Statements and  *)
(* what their restating may not undo are Definitions', which keeps the      *)
(* history and reads the fixed nodes from it each time, as the code does;   *)
(* that this is the sum of what each decision relied on, which is all of it  *)
(* that this module keeps (fixed), is proved in RecordsProofs               *)
(* (FixedIsReadBack).                                                       *)
(***************************************************************************)
EXTENDS MapGraph

CONSTANTS
  Nodes,       \* the ids a node may be created under
  Actors,      \* whoever edits: the researcher and the agents
  Researcher,  \* RESEARCHER, "human" in the code
  Nobody,      \* no actor, no parent
  NewKinds,    \* a bound: the kinds of node created in this instance
  Judged       \* a bound: the nodes reviewed, challenged or sealed in this instance

Kinds == {"theorem", "claim", "imported_result"}

ASSUME ActorsAssumption == Researcher \in Actors /\ Nobody \notin Actors
ASSUME NodesAssumption == Nobody \notin Nodes /\ NewKinds \subseteq Kinds

VARIABLES
  nodes,        \* the ids that have a row in proof_map_nodes
  kind,         \* kind[n]: theorem, claim or imported_result
  deps,         \* deps[n]: the node's dependencies
  derivedFrom,  \* derivedFrom[n]: the parent a Split derived n from
  createdBy,    \* createdBy[n]: who created n by a Split (read for split Claims alone)
  claims,       \* the active rows of the claims table
  snapshots,    \* the nodes that have a Candidate proof
  snapDeps,     \* snapDeps[n]: the dependencies its newest Candidate proof records
  pins,         \* pins[n]: the targets of the node's dependency_pins rows
  versioned,    \* versioned[n]: those of them that pin an accepted version
  decision,     \* decision[n]: the newest acceptance line of the node
  refReview,    \* refReview[n]: the standing of an imported result's citation
  challenged,   \* the nodes with an open Challenge
  sealedFalse,  \* the nodes sealed false
  foundFalse,   \* foundFalse[n]: dependencies found false since n's acceptance
  fixed         \* the nodes whose text some decision so far relied on, in sum

nodeVars == <<nodes, kind, derivedFrom, createdBy>>
reviewVars == <<snapshots, snapDeps, versioned, decision, refReview, foundFalse, fixed>>
doubtVars == <<challenged, sealedFalse>>
vars == <<nodeVars, deps, claims, pins, reviewVars, doubtVars>>

Outcomes == {"none", "approved", "revision_requested", "rejected"}
RefStates == {"unreviewed", "reviewed", "no_longer_callable"}

NoDecision == [outcome |-> "none", deps |-> {}, versioned |-> {}, onCurrent |-> FALSE]

Init ==
  /\ nodes = {}
  /\ kind = [n \in Nodes |-> "claim"]
  /\ deps = [n \in Nodes |-> {}]
  /\ derivedFrom = [n \in Nodes |-> Nobody]
  /\ createdBy = [n \in Nodes |-> Nobody]
  /\ claims = {}
  /\ snapshots = {}
  /\ snapDeps = [n \in Nodes |-> {}]
  /\ pins = [n \in Nodes |-> {}]
  /\ versioned = [n \in Nodes |-> {}]
  /\ decision = [n \in Nodes |-> NoDecision]
  /\ refReview = [n \in Nodes |-> "unreviewed"]
  /\ challenged = {}
  /\ sealedFalse = {}
  /\ foundFalse = [n \in Nodes |-> {}]
  /\ fixed = {}

-----------------------------------------------------------------------------
(* What the services read.                                                 *)

\* The newest acceptance line still describes the node: it was made on the
\* dependencies the node has now (_binding_problem).
Counts(n) == decision[n].outcome # "none" /\ decision[n].deps = deps[n]

\* A Reject is terminal, whatever the node became since.
Rejected(n) == decision[n].outcome = "rejected"
Accepted(n) == decision[n].outcome = "approved" /\ Counts(n)

\* A direct dependency was found false after the verification (ADR-0025 point 3).
VerificationVoid(n) == Accepted(n) /\ deps[n] \cap foundFalse[n] # {}

EditableImports(n) == ~Rejected(n) /\ (Accepted(n) => n \in challenged \/ VerificationVoid(n))
EditableRejected(n) == kind[n] # "imported_result" /\ (Accepted(n) => n \in challenged \/ VerificationVoid(n))
EditableAccepted(n) == kind[n] # "imported_result" /\ ~Rejected(n)

\* Whether the node's edges may be edited at all, apart from who holds it.
StructureEditable(n) ==
  /\ kind[n] # "imported_result"
  /\ ~Rejected(n)
  /\ Accepted(n) => n \in challenged \/ VerificationVoid(n)

\* _not_pickable: whether anyone may claim the node.  The same three checks.
Pickable(n) == StructureEditable(n)

Local(n) == kind[n] # "imported_result"

\* The pins of n as they count: the accepted line's for an Accepted node, else its rows.
VersionedPins(n) == IF Accepted(n) THEN decision[n].versioned ELSE versioned[n]

\* What n itself starts: a Challenge, a citation found wanting, or a pin whose
\* target no longer offers an accepted interface.
OwnCause(n) ==
  \/ n \in challenged
  \/ refReview[n] = "no_longer_callable"
  \/ \E d \in deps[n] \cap VersionedPins(n) : ~Accepted(d)

\* A dependency unblocks its dependents: it has its standing, and nothing it
\* rests on is unsettled.
Satisfied(d) ==
  /\ IF Local(d) THEN Accepted(d) ELSE refReview[d] = "reviewed"
  /\ \A m \in RestsOn(deps, d) : ~OwnCause(m)

Blocked(n) == ~Accepted(n) /\ \E d \in deps[n] : ~Satisfied(d)

\* The newest Candidate proof has no counting decision on it.
AwaitingDecision(n) ==
  /\ n \in snapshots
  /\ ~Rejected(n)
  /\ ~(Counts(n) /\ decision[n].onCurrent)

HeldBy(n) == {c.by : c \in {r \in claims : r.node = n}}

\* The nodes whose text a decision on n relied on: what its snapshot rests on,
\* and below each of those what that node's newest snapshot rests on.
Relied(n) == RestsOn(snapDeps, n)

-----------------------------------------------------------------------------
(* Claims.                                                                 *)

\* _held_by_another: the node is free, the actor's own, or taken over.
MayChange(a, n, reassign) == HeldBy(n) \subseteq {a} \/ reassign

TakenOverUnreleased(a, N) == claims \cup {[node |-> n, by |-> a] : n \in {m \in N : HeldBy(m) # {}}}
TakenOverByNobody(a, N) ==
  {c \in claims : c.node \notin N} \cup
  {[node |-> n, by |-> Nobody] : n \in {m \in N : HeldBy(m) # {}}}
TakenOverNever(a, N) == claims

\* _take_over moves the claim on each node of N that another holds.
TakenOver(a, N) ==
  {c \in claims : c.node \notin N} \cup
  {[node |-> n, by |-> a] : n \in {m \in N : HeldBy(m) # {}}}

ClaimNode(a, n, reassign) ==
  /\ n \in nodes
  /\ a \notin HeldBy(n)                  \* the same claimant: nothing is written
  /\ Pickable(n)
  /\ HeldBy(n) = {} \/ reassign
  /\ claims' = {c \in claims : c.node # n} \cup {[node |-> n, by |-> a]}
  /\ UNCHANGED <<nodeVars, deps, pins, reviewVars, doubtVars>>

\* Anyone may clear a claim.
ReleaseNode(n) ==
  /\ HeldBy(n) # {}
  /\ claims' = {c \in claims : c.node # n}
  /\ UNCHANGED <<nodeVars, deps, pins, reviewVars, doubtVars>>

-----------------------------------------------------------------------------
(* Creating nodes.                                                         *)

CanCreate(n, k, ds) ==
  /\ n \in Nodes \ nodes
  /\ ds \subseteq nodes
  /\ k = "imported_result" => ds = {}
  /\ k = "theorem" => \A m \in nodes : kind[m] # "theorem"  \* one per project, by index

CreateNode(n, k, ds) ==
  /\ CanCreate(n, k, ds)
  /\ nodes' = nodes \cup {n}
  /\ kind' = [kind EXCEPT ![n] = k]
  /\ deps' = [deps EXCEPT ![n] = ds]
  /\ UNCHANGED <<derivedFrom, createdBy, claims, pins, reviewVars, doubtVars>>

\* Create a node and make p rest on it, in one transaction.
CreateNodeUnderParent(a, p, n, k, ds, reassign) ==
  /\ CanCreate(n, k, ds)
  /\ p \in nodes
  /\ StructureEditable(p)
  /\ \A d \in ds : ~Reaches(deps, d, p)
  /\ MayChange(a, p, reassign)
  /\ nodes' = nodes \cup {n}
  /\ kind' = [kind EXCEPT ![n] = k]
  /\ deps' = [deps EXCEPT ![n] = ds, ![p] = deps[p] \cup {n}]
  /\ claims' = TakenOver(a, {p})
  /\ UNCHANGED <<derivedFrom, createdBy, pins, reviewVars, doubtVars>>

\* Decompose p into the new claims C, each resting on existing nodes; all or
\* nothing.  An accepted parent is refused even under a Challenge.
SplitNode(a, p, C, childDeps, reassign) ==
  /\ p \in nodes
  /\ Local(p) /\ ~Rejected(p) /\ ~Accepted(p)
  /\ MayChange(a, p, reassign)
  /\ C # {}
  /\ \A c \in C : CanCreate(c, "claim", childDeps[c])
  /\ \A c \in C : \A d \in childDeps[c] : ~Reaches(deps, d, p)
  /\ nodes' = nodes \cup C
  /\ kind' = [n \in Nodes |-> IF n \in C THEN "claim" ELSE kind[n]]
  /\ deps' = [n \in Nodes |->
                IF n \in C THEN childDeps[n]
                ELSE IF n = p THEN deps[p] \cup C ELSE deps[n]]
  /\ derivedFrom' = [n \in Nodes |-> IF n \in C THEN p ELSE derivedFrom[n]]
  /\ createdBy' = [n \in Nodes |-> IF n \in C THEN a ELSE createdBy[n]]
  /\ claims' = TakenOver(a, {p})
  /\ UNCHANGED <<pins, reviewVars, doubtVars>>

-----------------------------------------------------------------------------
(* Editing edges.                                                          *)

\* Agent a adds an edge between two unaccepted Claims its own Split created.
OwnSplitEdge(a, n, d) ==
  /\ a # Researcher
  /\ derivedFrom[n] # Nobody /\ derivedFrom[d] = derivedFrom[n]
  /\ \A m \in {n, d} : /\ kind[m] = "claim"
                       /\ createdBy[m] = a
                       /\ ~Accepted(m) /\ ~Rejected(m)

\* Agent a takes back off p an unaccepted Claim its own Split of p created,
\* while no decision has fixed p.
OwnSplitRemoval(a, p, c) ==
  /\ a # Researcher
  /\ kind[c] = "claim"
  /\ derivedFrom[c] = p
  /\ createdBy[c] = a
  /\ ~Accepted(c)
  /\ p \notin fixed

AddDependency(a, n, d, reassign) ==
  /\ n \in nodes /\ d \in nodes
  /\ StructureEditable(n)
  /\ d \notin deps[n]
  /\ ~Reaches(deps, d, n)
  /\ \/ OwnSplitEdge(a, n, d) /\ claims' = claims
     \/ ~OwnSplitEdge(a, n, d) /\ MayChange(a, n, reassign) /\ claims' = TakenOver(a, {n})
  /\ deps' = [deps EXCEPT ![n] = deps[n] \cup {d}]
  /\ UNCHANGED <<nodeVars, pins, reviewVars, doubtVars>>

PinKept(P, n, d) == P

\* delete_dependency_pin: the pin of the edge from n to d goes with the edge.
WithoutPin(P, n, d) == [P EXCEPT ![n] = P[n] \ {d}]

RemoveDependency(a, n, d, reassign) ==
  /\ n \in nodes
  /\ StructureEditable(n)
  /\ d \in deps[n]
  /\ \/ OwnSplitRemoval(a, n, d) /\ claims' = claims
     \/ ~OwnSplitRemoval(a, n, d) /\ MayChange(a, n, reassign) /\ claims' = TakenOver(a, {n})
  /\ deps' = [deps EXCEPT ![n] = deps[n] \ {d}]
  /\ pins' = WithoutPin(pins, n, d)
  /\ versioned' = WithoutPin(versioned, n, d)
  /\ UNCHANGED <<nodeVars, snapshots, snapDeps, decision, refReview, foundFalse, fixed, doubtVars>>

\* Hand n's dependency d down to t, one of n's own dependencies.
MoveDependency(a, n, d, t, reassign) ==
  /\ n \in nodes /\ t \in nodes
  /\ d \in deps[n] /\ t \in deps[n] /\ t # d
  /\ StructureEditable(n) /\ StructureEditable(t)
  /\ d \in deps[t] \/ ~Reaches(deps, d, t)
  /\ MayChange(a, n, reassign) /\ MayChange(a, t, reassign)
  /\ claims' = TakenOver(a, {n, t})
  /\ deps' = [deps EXCEPT ![n] = deps[n] \ {d}, ![t] = deps[t] \cup {d}]
  /\ pins' = WithoutPin(pins, n, d)
  /\ versioned' = WithoutPin(versioned, n, d)
  /\ UNCHANGED <<nodeVars, snapshots, snapDeps, decision, refReview, foundFalse, fixed, doubtVars>>

-----------------------------------------------------------------------------
(* Review.                                                                 *)

\* An acceptance line once a newer snapshot than the one it decided was requested.
OnEarlier(line) == [outcome |-> line.outcome, deps |-> line.deps,
                    versioned |-> line.versioned, onCurrent |-> FALSE]

\* Freeze a new snapshot: the dependencies of the node are recorded with it
\* and pinned, and its claim ends.  The working files are edited freely, so a
\* request with changed files is always possible; one with unchanged files on
\* the same dependencies is refused.
RequestReview(a, n, unassign) ==
  /\ n \in nodes \cap Judged
  /\ Local(n)
  /\ HeldBy(n) \subseteq {a} \/ unassign
  /\ snapshots' = snapshots \cup {n}
  /\ snapDeps' = [snapDeps EXCEPT ![n] = deps[n]]
  /\ pins' = [pins EXCEPT ![n] = deps[n]]
  /\ versioned' = [versioned EXCEPT ![n] = {d \in deps[n] : Local(d) /\ Accepted(d)}]
  /\ decision' = [decision EXCEPT ![n] = OnEarlier(decision[n])]
  /\ claims' = {c \in claims : c.node # n}
  /\ UNCHANGED <<nodeVars, deps, refReview, foundFalse, fixed, doubtVars>>

\* The pins an Acceptance is made against: a pin from before its target was
\* accepted is answered by the target's acceptance since.
PinsAcceptedAgainst(n) == versioned[n] \cup {d \in pins[n] : Local(d) /\ Accepted(d)}

\* A decision answers a snapshot that waits for it, on the dependencies it was
\* requested on, with everything under it settled.
MayDecide(n) ==
  /\ Local(n) /\ ~Rejected(n)
  /\ ~Blocked(n)
  /\ HeldBy(n) = {}
  /\ AwaitingDecision(n)
  /\ snapDeps[n] = deps[n]

\* What it is bound to.
DecisionLine(n, outcome) ==
  [outcome |-> outcome, deps |-> pins[n], versioned |-> PinsAcceptedAgainst(n), onCurrent |-> TRUE]

\* The researcher's decision on the snapshot awaiting review.  It ends the
\* node's open Challenges and fixes the text it relied on.
DecideAcceptance(n, outcome) ==
  /\ n \in nodes
  /\ outcome \in Outcomes \ {"none"}
  /\ MayDecide(n)
  /\ decision' = [decision EXCEPT ![n] = DecisionLine(n, outcome)]
  /\ versioned' = IF outcome = "approved"
                  THEN [versioned EXCEPT ![n] = PinsAcceptedAgainst(n)]
                  ELSE versioned
  /\ foundFalse' = [foundFalse EXCEPT ![n] = {}]
  /\ fixed' = fixed \cup Relied(n)
  /\ challenged' = challenged \ {n}
  /\ UNCHANGED <<nodeVars, deps, claims, pins, snapshots, snapDeps, refReview, sealedFalse>>

\* False from now on: every acceptance resting directly on d notes it.
NoteFalse(d) ==
  foundFalse' = [n \in Nodes |->
                   IF decision[n].outcome = "approved" /\ d \in decision[n].deps
                   THEN foundFalse[n] \cup {d} ELSE foundFalse[n]]

DecideReferenceReview(n, standing) ==
  /\ n \in nodes \cap Judged
  /\ kind[n] = "imported_result"
  /\ refReview[n] # "no_longer_callable"
  /\ standing \in RefStates \ {"unreviewed"}
  /\ refReview' = [refReview EXCEPT ![n] = standing]
  /\ IF standing = "no_longer_callable" THEN NoteFalse(n) ELSE foundFalse' = foundFalse
  /\ fixed' = fixed \cup {n}
  /\ challenged' = challenged \ {n}
  /\ UNCHANGED <<nodeVars, deps, claims, pins, snapshots, snapDeps, versioned, decision, sealedFalse>>

\* Anyone may challenge any node that is not sealed.
OpenChallenge(n) ==
  /\ n \in (nodes \cap Judged) \ (challenged \cup sealedFalse)
  /\ refReview[n] # "no_longer_callable"    \* reads as sealed false
  /\ challenged' = challenged \cup {n}
  /\ UNCHANGED <<nodeVars, deps, claims, pins, reviewVars, sealedFalse>>

\* The last open Challenge of the node is withdrawn or dismissed.
EndChallenge(n) ==
  /\ n \in challenged
  /\ challenged' = challenged \ {n}
  /\ UNCHANGED <<nodeVars, deps, claims, pins, reviewVars, sealedFalse>>

\* seal_node(value=False): it seals only the node, and relies on its text.
SealFalse(n) ==
  /\ n \in nodes \cap Judged
  /\ sealedFalse' = sealedFalse \cup {n}
  /\ NoteFalse(n)
  /\ fixed' = fixed \cup {n}
  /\ UNCHANGED <<nodeVars, deps, claims, pins, snapshots, snapDeps, versioned, decision, refReview, challenged>>

\* Unsealing does not undo what the seal voided.
Unseal(n) ==
  /\ n \in sealedFalse
  /\ sealedFalse' = sealedFalse \ {n}
  /\ UNCHANGED <<nodeVars, deps, claims, pins, reviewVars, challenged>>

-----------------------------------------------------------------------------
\* Whether a passes --reassign: it matters only where another holds a node.
Reassign(a, N) == {\E n \in N : ~(HeldBy(n) \subseteq {a})}

\* One step made by a: an agent's or the researcher's edit.
EditBy(a) ==
  \/ \E n \in nodes : \E re \in Reassign(a, {n}) :
        ClaimNode(a, n, re) \/ RequestReview(a, n, re)
  \/ \E p \in nodes, n \in Nodes, k \in NewKinds, ds \in SUBSET nodes :
        \E re \in Reassign(a, {p}) : CreateNodeUnderParent(a, p, n, k, ds, re)
  \/ \E p \in nodes, C \in SUBSET (Nodes \ nodes) :
        \E childDeps \in [C -> SUBSET nodes], re \in Reassign(a, {p}) :
           SplitNode(a, p, C, childDeps, re)
  \/ \E n, d \in nodes : \E re \in Reassign(a, {n}) :
        AddDependency(a, n, d, re) \/ RemoveDependency(a, n, d, re)
  \/ \E n, d, t \in nodes : \E re \in Reassign(a, {n, t}) : MoveDependency(a, n, d, t, re)

\* The steps whose author the map does not depend on, and the researcher's clicks.
Decision ==
  \/ \E n \in Nodes, k \in NewKinds, ds \in SUBSET nodes : CreateNode(n, k, ds)
  \/ \E n \in nodes : ReleaseNode(n)
  \/ \E n \in nodes, o \in Outcomes : DecideAcceptance(n, o)
  \/ \E n \in nodes, s \in RefStates : DecideReferenceReview(n, s)
  \/ \E n \in nodes : OpenChallenge(n) \/ EndChallenge(n) \/ SealFalse(n) \/ Unseal(n)

Next == (\E a \in Actors : EditBy(a)) \/ Decision

Spec == Init /\ [][Next]_vars
-----------------------------------------------------------------------------
(* Properties.                                                             *)

AcceptanceLines ==
  [outcome : Outcomes, deps : SUBSET Nodes, versioned : SUBSET Nodes, onCurrent : BOOLEAN]

\* Every variable has its type; only ids with a row have edges, parents and claims.
TypeOK ==
  /\ nodes \subseteq Nodes
  /\ kind \in [Nodes -> Kinds]
  /\ deps \in [Nodes -> SUBSET Nodes]
  /\ derivedFrom \in [Nodes -> Nodes \cup {Nobody}]
  /\ createdBy \in [Nodes -> Actors \cup {Nobody}]
  /\ claims \subseteq [node : Nodes, by : Actors]
  /\ snapshots \subseteq Nodes
  /\ snapDeps \in [Nodes -> SUBSET Nodes]
  /\ pins \in [Nodes -> SUBSET Nodes]
  /\ versioned \in [Nodes -> SUBSET Nodes]
  /\ decision \in [Nodes -> AcceptanceLines]
  /\ refReview \in [Nodes -> RefStates]
  /\ challenged \subseteq Nodes
  /\ sealedFalse \subseteq Nodes
  /\ foundFalse \in [Nodes -> SUBSET Nodes]
  /\ fixed \subseteq Nodes

\* No node ever rests on itself, whatever Splits, edges added, edges handed
\* down and nodes created under a parent follow one another (DEPENDENCY_CYCLE).
AcyclicMap == Acyclic(deps)

\* At most one actor holds a node, takeovers by structural edits included
\* (idx_claims_one_active_per_node).
OneActiveClaim == \A c1, c2 \in claims : c1.node = c2.node => c1 = c2

\* An imported result is a leaf: no operation gives it a dependency, a claim
\* or a snapshot, not even as the node an edge is handed down to.
LeafImports ==
  \A n \in Nodes : ~Local(n) => deps[n] = {} /\ HeldBy(n) = {} /\ n \notin snapshots

\* The pins of a node are pins of edges it has, taken with its snapshot: an
\* edge removed or handed down takes its pin along, an edge added brings none.
PinsFollowEdges == \A n \in Nodes : versioned[n] \subseteq pins[n] /\ pins[n] \subseteq deps[n] \cap snapDeps[n]

\* A Reject is for good: the node keeps its edges and is never held again,
\* by its own edits or as an end of another node's.
RejectedFrozen ==
  [][\A n \in Nodes : Rejected(n) => Rejected(n)' /\ deps'[n] = deps[n] /\ HeldBy(n)' = {}]_vars

\* An Acceptance stops counting only by a further decision on the node, or by
\* an edit a Challenge or a dependency found false invited; no Split and no
\* edit made from another node voids it silently.
AcceptanceNotLostSilently ==
  [][\A n \in Nodes : Accepted(n) /\ ~Accepted(n)' =>
       \/ n \in challenged
       \/ VerificationVoid(n)
       \/ decision'[n] # decision[n] /\ decision'[n].onCurrent]_vars

\* Nobody's structure changes under them: while a holder keeps a claim, the
\* node's edges are edited by that holder alone, except by an agent editing what
\* its own Split made, on text no decision relied on (ADR-0021 points 7 and 9).
HolderRespected ==
  [][\A n \in nodes : deps'[n] # deps[n] /\ HeldBy(n) # {} =>
       \/ HeldBy(n)' # {} /\ HeldBy(n)' # HeldBy(n)
       \/ \E x \in Actors, m \in Nodes :
            \/ OwnSplitEdge(x, n, m) /\ deps'[n] = deps[n] \cup {m}
            \/ OwnSplitRemoval(x, n, m) /\ deps'[n] = deps[n] \ {m}
       \/ \E x \in HeldBy(n) : EditBy(x)]_vars

\* An approval just recorded counts: a decision that is not refused
\* (DEPENDENCIES_CHANGED) describes the node it was made on.
ApprovalCounts ==
  [][\A n \in Nodes : DecideAcceptance(n, "approved") => Accepted(n)']_vars
=============================================================================

--------------------------- MODULE ProofMapProofs ---------------------------
(***************************************************************************)
(* What ProofMap guarantees for every set of nodes and actors: its         *)
(* structure, and what a decision on a node guarantees.  The               *)
(* structural invariants are inductive together with Rooted: an id without *)
(* a row has left no trace, so a node just created is reached from nowhere.*)
(***************************************************************************)
EXTENDS ProofMap, TLAPS

-----------------------------------------------------------------------------
(* Walks over the edges: what one finds, and the one argument by which every *)
(* edit of the map keeps it free of cycles.                                *)

\* A walk from n (proof_map.rests_on) finds n, stays inside the map, and
\* finds whatever rests under a node it found.
LEMMA RestsOnClosed ==
  ASSUME NEW N, NEW D \in [N -> SUBSET N], NEW n \in N
  PROVE  /\ n \in RestsOn(D, n)
         /\ RestsOn(D, n) \subseteq N
         /\ \A m \in RestsOn(D, n) : D[m] \subseteq RestsOn(D, n)
  BY DEF RestsOn, Closed

\* A walk from n finds nothing outside a set closed under the edges.
LEMMA RestsOnLeast ==
  ASSUME NEW N, NEW D \in [N -> SUBSET N], NEW n \in N,
         NEW C \in SUBSET N, n \in C, \A m \in C : D[m] \subseteq C
  PROVE  RestsOn(D, n) \subseteq C
  BY DEF RestsOn, Closed

\* The edges E put in place of D make no cycle when the edges they add lead into
\* R, which rests on nothing but itself and gains no edge, or into C, whose own
\* edges lead into R.
LEMMA EditKeepsAcyclic ==
  ASSUME NEW N, NEW D \in [N -> SUBSET N], NEW E \in [N -> SUBSET N],
         NEW R \in SUBSET N, NEW C \in SUBSET N,
         Acyclic(D),
         \A m \in R : D[m] \subseteq R /\ E[m] \subseteq D[m],
         \A m \in C : E[m] \subseteq R,
         \A m \in N \ C : E[m] \subseteq D[m] \cup C \cup R
  PROVE  Acyclic(E)
<1> SUFFICES ASSUME NEW S \in SUBSET N, S # {}
             PROVE  \E m \in S : E[m] \cap S = {}
  BY DEF Acyclic
<1>1. CASE S \cap R # {}
  <2>1. PICK m \in S \cap R : D[m] \cap (S \cap R) = {}
    BY <1>1 DEF Acyclic
  <2> QED
    BY <2>1
<1>2. CASE S \cap R = {} /\ S \cap C # {}
  BY <1>2
<1>3. CASE S \cap R = {} /\ S \cap C = {}
  <2>1. PICK m \in S : D[m] \cap S = {}
    BY DEF Acyclic
  <2> QED
    BY <1>3, <2>1
<1> QED
  BY <1>1, <1>2, <1>3

\* Every edit of the map has one form: it creates the nodes C over the nodes B,
\* and gives p edges to C and to B; it may take edges away anywhere.  It makes no
\* cycle when no walk from B finds p (_refuse_cycle).
EditOver(N, D, E, M, B, C, p) ==
  /\ D \in [N -> SUBSET N] /\ E \in [N -> SUBSET N]
  /\ M \in SUBSET N /\ \A m \in M : D[m] \subseteq M
  /\ B \in SUBSET M /\ C \in SUBSET (N \ M)
  /\ Acyclic(D) /\ \A b \in B : ~Reaches(D, b, p)
  /\ \A c \in C : E[c] \subseteq B
  /\ \A m \in N \ C : m # p => E[m] \subseteq D[m]
  /\ p \in N \ C => E[p] \subseteq D[p] \cup C \cup B

LEMMA EditOverKeepsAcyclic ==
  ASSUME NEW N, NEW D, NEW E, NEW M, NEW B, NEW C, NEW p, EditOver(N, D, E, M, B, C, p)
  PROVE  Acyclic(E)
<1> USE DEF EditOver
<1> DEFINE R == UNION {RestsOn(D, b) : b \in B}
<1>1. ASSUME NEW b \in B
      PROVE  /\ b \in RestsOn(D, b) /\ RestsOn(D, b) \subseteq M /\ p \notin RestsOn(D, b)
             /\ \A m \in RestsOn(D, b) : D[m] \subseteq RestsOn(D, b)
  <2>1. RestsOn(D, b) \subseteq M
    BY RestsOnLeast
  <2> QED
    BY <2>1, RestsOnClosed DEF Reaches
<1>2. R \subseteq M /\ p \notin R /\ B \subseteq R /\ \A m \in R : D[m] \subseteq R
  BY <1>1
<1> HIDE DEF R
<1>3. \A m \in R : D[m] \subseteq R /\ E[m] \subseteq D[m]
  BY <1>2
<1>4. \A m \in C : E[m] \subseteq R
  BY <1>2
<1>5. \A m \in N \ C : E[m] \subseteq D[m] \cup C \cup R
  BY <1>2
<1>6. R \in SUBSET N /\ C \in SUBSET N
  BY <1>2
<1> QED
  BY <1>3, <1>4, <1>5, <1>6, EditKeepsAcyclic

\* One node is given an edge to d, which does not reach it, and others lose some.
LEMMA EdgeKeepsAcyclic ==
  ASSUME NEW N, NEW D \in [N -> SUBSET N], NEW E \in [N -> SUBSET N],
         NEW M \in SUBSET N, \A m \in M : D[m] \subseteq M,
         NEW d \in M, NEW p \in N, Acyclic(D), ~Reaches(D, d, p),
         \A m \in N : m # p => E[m] \subseteq D[m],
         E[p] \subseteq D[p] \cup {d}
  PROVE  Acyclic(E)
<1> DEFINE B == {d}
           C == {}
<1>1. /\ B \in SUBSET M /\ C \in SUBSET (N \ M)
      /\ \A b \in B : ~Reaches(D, b, p)
      /\ \A c \in C : E[c] \subseteq B
      /\ \A m \in N \ C : m # p => E[m] \subseteq D[m]
      /\ p \in N \ C => E[p] \subseteq D[p] \cup C \cup B
  OBVIOUS
<1> HIDE DEF B, C
<1>2. EditOver(N, D, E, M, B, C, p)
  BY <1>1 DEF EditOver
<1> QED
  BY <1>2, EditOverKeepsAcyclic

-----------------------------------------------------------------------------
(* Types.                                                                  *)

\* What a Split or a takeover writes into claims are claims of actors.
LEMMA TakenOverType ==
  ASSUME TypeOK, NEW a \in Actors, NEW N \in SUBSET Nodes
  PROVE  TakenOver(a, N) \subseteq [node : Nodes, by : Actors]
  BY DEF TypeOK, TakenOver

\* Every value of every variable has its type, in every step of every map.
LEMMA TypeStep == TypeOK /\ [Next]_vars => TypeOK'
<1> SUFFICES ASSUME TypeOK, [Next]_vars PROVE TypeOK'
  OBVIOUS
<1> USE NodesAssumption, ActorsAssumption
<1>1. ASSUME NEW a \in Actors, NEW n \in nodes, NEW re, ClaimNode(a, n, re)
      PROVE  TypeOK'
  BY <1>1 DEF TypeOK, ClaimNode, nodeVars, reviewVars, doubtVars
<1>2. ASSUME NEW a \in Actors, NEW n \in nodes, NEW re, RequestReview(a, n, re)
      PROVE  TypeOK'
  <2>1. decision' \in [Nodes -> AcceptanceLines]
    BY <1>2 DEF TypeOK, RequestReview, OnEarlier, AcceptanceLines
  <2> QED
    BY <1>2, <2>1 DEF TypeOK, RequestReview, nodeVars, doubtVars
<1>3. ASSUME NEW a \in Actors, NEW p \in nodes, NEW n \in Nodes, NEW k \in NewKinds,
             NEW ds \in SUBSET nodes, NEW re, CreateNodeUnderParent(a, p, n, k, ds, re)
      PROVE  TypeOK'
  <2>1. claims' \subseteq [node : Nodes, by : Actors]
    BY <1>3, TakenOverType DEF TypeOK, CreateNodeUnderParent
  <2> QED
    BY <1>3, <2>1 DEF TypeOK, CreateNodeUnderParent, CanCreate, reviewVars, doubtVars
<1>4. ASSUME NEW a \in Actors, NEW p \in nodes, NEW C \in SUBSET (Nodes \ nodes),
             NEW childDeps \in [C -> SUBSET nodes], NEW re, SplitNode(a, p, C, childDeps, re)
      PROVE  TypeOK'
  <2>1. claims' \subseteq [node : Nodes, by : Actors]
    BY <1>4, TakenOverType DEF TypeOK, SplitNode
  <2>2. deps' \in [Nodes -> SUBSET Nodes]
    BY <1>4 DEF TypeOK, SplitNode
  <2>3. kind' \in [Nodes -> Kinds]
    BY <1>4 DEF TypeOK, SplitNode, Kinds
  <2>4. derivedFrom' \in [Nodes -> Nodes \cup {Nobody}] /\ createdBy' \in [Nodes -> Actors \cup {Nobody}]
    BY <1>4 DEF TypeOK, SplitNode
  <2> QED
    BY <1>4, <2>1, <2>2, <2>3, <2>4 DEF TypeOK, SplitNode, reviewVars, doubtVars
<1>5. ASSUME NEW a \in Actors, NEW n \in nodes, NEW d \in nodes, NEW re, AddDependency(a, n, d, re)
      PROVE  TypeOK'
  <2>1. claims' \subseteq [node : Nodes, by : Actors]
    BY <1>5, TakenOverType DEF TypeOK, AddDependency
  <2> QED
    BY <1>5, <2>1 DEF TypeOK, AddDependency, nodeVars, reviewVars, doubtVars
<1>6. ASSUME NEW a \in Actors, NEW n \in nodes, NEW d \in nodes, NEW re, RemoveDependency(a, n, d, re)
      PROVE  TypeOK'
  <2>1. claims' \subseteq [node : Nodes, by : Actors]
    BY <1>6, TakenOverType DEF TypeOK, RemoveDependency
  <2> QED
    BY <1>6, <2>1 DEF TypeOK, RemoveDependency, WithoutPin, nodeVars, doubtVars
<1>7. ASSUME NEW a \in Actors, NEW n \in nodes, NEW d \in nodes, NEW t \in nodes, NEW re,
             MoveDependency(a, n, d, t, re)
      PROVE  TypeOK'
  <2>1. claims' \subseteq [node : Nodes, by : Actors]
    BY <1>7, TakenOverType DEF TypeOK, MoveDependency
  <2>2. deps' \in [Nodes -> SUBSET Nodes]
    BY <1>7 DEF TypeOK, MoveDependency
  <2>3. pins' \in [Nodes -> SUBSET Nodes] /\ versioned' \in [Nodes -> SUBSET Nodes]
    BY <1>7 DEF TypeOK, MoveDependency, WithoutPin
  <2> QED
    BY <1>7, <2>1, <2>2, <2>3 DEF TypeOK, MoveDependency, nodeVars, doubtVars
<1>8. ASSUME NEW n \in Nodes, NEW k \in NewKinds, NEW ds \in SUBSET nodes, CreateNode(n, k, ds)
      PROVE  TypeOK'
  BY <1>8 DEF TypeOK, CreateNode, CanCreate, reviewVars, doubtVars
<1>9. ASSUME NEW n \in nodes, ReleaseNode(n)
      PROVE  TypeOK'
  BY <1>9 DEF TypeOK, ReleaseNode, nodeVars, reviewVars, doubtVars
<1>10. ASSUME NEW n \in nodes, NEW o \in Outcomes, DecideAcceptance(n, o)
       PROVE  TypeOK'
  <2>1. PinsAcceptedAgainst(n) \subseteq Nodes
    BY <1>10 DEF TypeOK, PinsAcceptedAgainst
  <2>2. decision' \in [Nodes -> AcceptanceLines]
    BY <1>10, <2>1 DEF TypeOK, DecideAcceptance, MayDecide, DecisionLine, AcceptanceLines
  <2>3. fixed' \subseteq Nodes
    BY <1>10 DEF TypeOK, DecideAcceptance, MayDecide, DecisionLine, Relied, RestsOn
  <2> QED
    BY <1>10, <2>1, <2>2, <2>3 DEF TypeOK, DecideAcceptance, MayDecide, DecisionLine, nodeVars
<1>11. ASSUME NEW n \in nodes, NEW s \in RefStates, DecideReferenceReview(n, s)
       PROVE  TypeOK'
  <2>1. foundFalse' \in [Nodes -> SUBSET Nodes]
    BY <1>11 DEF TypeOK, DecideReferenceReview, NoteFalse
  <2> QED
    BY <1>11, <2>1 DEF TypeOK, DecideReferenceReview, nodeVars
<1>12. ASSUME NEW n \in nodes, OpenChallenge(n) \/ EndChallenge(n) \/ SealFalse(n) \/ Unseal(n)
       PROVE  TypeOK'
  <2>1. foundFalse' \in [Nodes -> SUBSET Nodes]
    BY <1>12 DEF TypeOK, OpenChallenge, EndChallenge, SealFalse, Unseal, NoteFalse, reviewVars
  <2> QED
    BY <1>12, <2>1
       DEF TypeOK, OpenChallenge, EndChallenge, SealFalse, Unseal, nodeVars, reviewVars
<1>13. CASE UNCHANGED vars
  BY <1>13 DEF TypeOK, vars, nodeVars, reviewVars, doubtVars
<1> QED
  BY <1>1, <1>2, <1>3, <1>4, <1>5, <1>6, <1>7, <1>8, <1>9, <1>10, <1>11, <1>12, <1>13
     DEF Next, EditBy, Decision, TypeOK

\* Every reachable map is well typed.
THEOREM TypeCorrect == Spec => []TypeOK
<1>1. Init => TypeOK
  BY NodesAssumption, ActorsAssumption
     DEF Init, TypeOK, NoDecision, AcceptanceLines, Outcomes, RefStates, Kinds
<1> QED
  BY <1>1, TypeStep, PTL DEF Spec

-----------------------------------------------------------------------------
(* No cycle.                                                               *)

\* An id without a row has left no trace in the map: no edge, claim, snapshot
\* or decision names it.
Rooted ==
  /\ claims \subseteq [node : nodes, by : Actors]
  /\ snapshots \subseteq nodes
  /\ \A n \in Nodes : deps[n] \subseteq nodes
  /\ \A n \in Nodes \ nodes : deps[n] = {} /\ pins[n] = {} /\ decision[n] = NoDecision

\* The steps that may change the edges, each with the nodes it names.
EdgeStep ==
  \/ \E n \in Nodes, k \in NewKinds, ds \in SUBSET nodes : CreateNode(n, k, ds)
  \/ \E a \in Actors, p \in nodes, n \in Nodes, k \in NewKinds, ds \in SUBSET nodes, re \in BOOLEAN :
        CreateNodeUnderParent(a, p, n, k, ds, re)
  \/ \E a \in Actors, p \in nodes, C \in SUBSET (Nodes \ nodes), re \in BOOLEAN :
        \E childDeps \in [C -> SUBSET nodes] : SplitNode(a, p, C, childDeps, re)
  \/ \E a \in Actors, n, d \in nodes, re \in BOOLEAN : AddDependency(a, n, d, re)
  \/ \E a \in Actors, n, d \in nodes, re \in BOOLEAN : RemoveDependency(a, n, d, re)
  \/ \E a \in Actors, n, d, t \in nodes, re \in BOOLEAN : MoveDependency(a, n, d, t, re)

\* Every other step leaves the nodes and the edges alone.
LEMMA EdgeSteps ==
  ASSUME [Next]_vars, ~EdgeStep
  PROVE  UNCHANGED <<nodes, kind, deps>>
<1> DEFINE Unedited == UNCHANGED <<nodes, kind, deps>>
<1>1. \A a, N : Reassign(a, N) \subseteq BOOLEAN
  BY DEF Reassign
<1>2. ASSUME NEW a \in Actors, EditBy(a) PROVE Unedited
  <2>1. ASSUME NEW n \in nodes, NEW re, ClaimNode(a, n, re) \/ RequestReview(a, n, re)
        PROVE  Unedited
    BY <2>1 DEF ClaimNode, RequestReview, nodeVars
  <2>2. ASSUME NEW p \in nodes, NEW n \in Nodes, NEW k \in NewKinds, NEW ds \in SUBSET nodes,
               NEW re \in Reassign(a, {p})
        PROVE  ~CreateNodeUnderParent(a, p, n, k, ds, re)
    BY <1>1 DEF EdgeStep
  <2>3. ASSUME NEW p \in nodes, NEW C \in SUBSET (Nodes \ nodes),
               NEW childDeps \in [C -> SUBSET nodes], NEW re \in Reassign(a, {p})
        PROVE  ~SplitNode(a, p, C, childDeps, re)
    BY <1>1 DEF EdgeStep
  <2>4. ASSUME NEW n \in nodes, NEW d \in nodes, NEW re \in Reassign(a, {n})
        PROVE  ~AddDependency(a, n, d, re) /\ ~RemoveDependency(a, n, d, re)
    BY <1>1 DEF EdgeStep
  <2>5. ASSUME NEW n \in nodes, NEW d \in nodes, NEW t \in nodes, NEW re \in Reassign(a, {n, t})
        PROVE  ~MoveDependency(a, n, d, t, re)
    BY <1>1 DEF EdgeStep
  <2> QED
    BY <1>2, <2>1, <2>2, <2>3, <2>4, <2>5 DEF EditBy
<1>3. CASE Decision
  BY <1>3 DEF Decision, EdgeStep, ReleaseNode, DecideAcceptance, MayDecide, DecisionLine, DecideReferenceReview,
              OpenChallenge, EndChallenge, SealFalse, Unseal, nodeVars
<1>4. CASE UNCHANGED vars
  BY <1>4 DEF vars, nodeVars
<1> QED
  BY <1>2, <1>3, <1>4 DEF Next

\* Creating nodes and editing edges never closes a cycle.
LEMMA AcyclicStep ==
  ASSUME TypeOK, Rooted, AcyclicMap, [Next]_vars
  PROVE  AcyclicMap'
<1>1. /\ deps \in [Nodes -> SUBSET Nodes] /\ nodes \in SUBSET Nodes
      /\ \A m \in nodes : deps[m] \subseteq nodes
      /\ Acyclic(deps)
  BY DEF TypeOK, Rooted, AcyclicMap
<1>2. deps' \in [Nodes -> SUBSET Nodes]
  BY TypeStep DEF TypeOK
<1>3. ASSUME NEW n \in Nodes, NEW k \in NewKinds, NEW ds \in SUBSET nodes, CreateNode(n, k, ds)
      PROVE  Acyclic(deps')
  <2> DEFINE C == {n}
  <2>1. /\ C \in SUBSET (Nodes \ nodes)
        /\ \A c \in C : deps'[c] \subseteq ds
        /\ \A m \in Nodes \ C : deps'[m] \subseteq deps[m]
    BY <1>1, <1>3 DEF CreateNode, CanCreate
  <2>2. Nobody \notin Nodes /\ \A b \in ds : ~Reaches(deps, b, Nobody)
    BY <1>1, NodesAssumption DEF Reaches, RestsOn
  <2> HIDE DEF C
  <2>3. EditOver(Nodes, deps, deps', nodes, ds, C, Nobody)
    BY <1>1, <1>2, <2>1, <2>2 DEF EditOver
  <2> QED
    BY <2>3, EditOverKeepsAcyclic
<1>4. ASSUME NEW a \in Actors, NEW p \in nodes, NEW n \in Nodes, NEW k \in NewKinds,
             NEW ds \in SUBSET nodes, NEW re, CreateNodeUnderParent(a, p, n, k, ds, re)
      PROVE  Acyclic(deps')
  <2> DEFINE C == {n}
  <2>1. /\ C \in SUBSET (Nodes \ nodes)
        /\ \A b \in ds : ~Reaches(deps, b, p)
        /\ \A c \in C : deps'[c] \subseteq ds
        /\ \A m \in Nodes \ C : m # p => deps'[m] \subseteq deps[m]
        /\ deps'[p] \subseteq deps[p] \cup C \cup ds
    BY <1>1, <1>4 DEF CreateNodeUnderParent, CanCreate
  <2> HIDE DEF C
  <2>2. EditOver(Nodes, deps, deps', nodes, ds, C, p)
    BY <1>1, <1>2, <2>1 DEF EditOver
  <2> QED
    BY <2>2, EditOverKeepsAcyclic
<1>5. ASSUME NEW a \in Actors, NEW p \in nodes, NEW C \in SUBSET (Nodes \ nodes), NEW re,
             NEW childDeps \in [C -> SUBSET nodes], SplitNode(a, p, C, childDeps, re)
      PROVE  Acyclic(deps')
  <2> DEFINE B == UNION {childDeps[c] : c \in C}
  <2>1. /\ B \in SUBSET nodes
        /\ \A b \in B : ~Reaches(deps, b, p)
        /\ \A c \in C : deps'[c] \subseteq B
        /\ \A m \in Nodes \ C : m # p => deps'[m] \subseteq deps[m]
        /\ deps'[p] \subseteq deps[p] \cup C \cup B
    BY <1>1, <1>5 DEF SplitNode
  <2> HIDE DEF B
  <2>2. EditOver(Nodes, deps, deps', nodes, B, C, p)
    BY <1>1, <1>2, <2>1 DEF EditOver
  <2> QED
    BY <2>2, EditOverKeepsAcyclic
<1>6. ASSUME NEW a \in Actors, NEW n \in nodes, NEW d \in nodes, NEW re, AddDependency(a, n, d, re)
      PROVE  Acyclic(deps')
  <2>1. /\ n \in Nodes /\ ~Reaches(deps, d, n)
        /\ \A m \in Nodes : m # n => deps'[m] \subseteq deps[m]
        /\ deps'[n] \subseteq deps[n] \cup {d}
    BY <1>1, <1>6 DEF AddDependency
  <2> QED
    BY <1>1, <1>2, <2>1, EdgeKeepsAcyclic
<1>7. ASSUME \A m \in Nodes : deps'[m] \subseteq deps[m]
      PROVE  Acyclic(deps')
  <2> DEFINE B == {}
             C == {}
  <2>1. /\ B \in SUBSET nodes /\ C \in SUBSET (Nodes \ nodes)
        /\ \A b \in B : ~Reaches(deps, b, Nobody)
        /\ \A c \in C : deps'[c] \subseteq B
        /\ \A m \in Nodes \ C : m # Nobody => deps'[m] \subseteq deps[m]
        /\ Nobody \notin Nodes
    BY <1>7, NodesAssumption
  <2> HIDE DEF B, C
  <2>2. EditOver(Nodes, deps, deps', nodes, B, C, Nobody)
    BY <1>1, <1>2, <2>1 DEF EditOver
  <2> QED
    BY <2>2, EditOverKeepsAcyclic
<1>8. ASSUME NEW a \in Actors, NEW n \in nodes, NEW d \in nodes, NEW re, RemoveDependency(a, n, d, re)
      PROVE  Acyclic(deps')
  BY <1>1, <1>7, <1>8 DEF RemoveDependency
<1>9. ASSUME NEW a \in Actors, NEW n \in nodes, NEW d \in nodes, NEW t \in nodes, NEW re,
             MoveDependency(a, n, d, t, re)
      PROVE  Acyclic(deps')
  <2>1. CASE d \in deps[t]
    <3>1. \A m \in Nodes : deps'[m] \subseteq deps[m]
      BY <1>1, <1>9, <2>1 DEF MoveDependency
    <3> QED
      BY <1>7, <3>1
  <2>2. CASE ~Reaches(deps, d, t)
    <3>1. /\ t \in Nodes /\ \A m \in Nodes : m # t => deps'[m] \subseteq deps[m]
          /\ deps'[t] \subseteq deps[t] \cup {d}
      BY <1>1, <1>9 DEF MoveDependency
    <3> QED
      BY <1>1, <1>2, <2>2, <3>1, EdgeKeepsAcyclic
  <2> QED
    BY <1>9, <2>1, <2>2 DEF MoveDependency
<1>10. CASE UNCHANGED deps
  BY <1>1, <1>10 DEF Acyclic, AcyclicMap
<1> QED
  BY <1>3, <1>4, <1>5, <1>6, <1>8, <1>9, <1>10, EdgeSteps DEF EdgeStep, AcyclicMap

-----------------------------------------------------------------------------
(* Claims, imports, and ids without a row.                                 *)

\* The steps that may write the claims table.
ClaimStep ==
  \/ \E a \in Actors, n \in nodes, re \in BOOLEAN : ClaimNode(a, n, re) \/ RequestReview(a, n, re)
  \/ \E n \in nodes : ReleaseNode(n)

\* Every other step leaves the claims alone or takes them over.
LEMMA ClaimSteps ==
  ASSUME [Next]_vars, ~ClaimStep
  PROVE  claims' = claims \/ \E a \in Actors, N \in SUBSET nodes : claims' = TakenOver(a, N)
<1> DEFINE Kept == claims' = claims \/ \E a \in Actors, N \in SUBSET nodes : claims' = TakenOver(a, N)
<1>1. \A a, N : Reassign(a, N) \subseteq BOOLEAN
  BY DEF Reassign
<1>2. ASSUME NEW a \in Actors, EditBy(a) PROVE Kept
  <2>1. ASSUME NEW n \in nodes, NEW re \in Reassign(a, {n})
        PROVE  ~ClaimNode(a, n, re) /\ ~RequestReview(a, n, re)
    BY <1>1 DEF ClaimStep
  <2>2. ASSUME NEW p \in nodes, NEW n, NEW k, NEW ds, NEW re, CreateNodeUnderParent(a, p, n, k, ds, re)
        PROVE  Kept
    <3>1. {p} \in SUBSET nodes /\ claims' = TakenOver(a, {p})
      BY <2>2 DEF CreateNodeUnderParent
    <3> QED
      BY <3>1
  <2>3. ASSUME NEW p \in nodes, NEW C, NEW childDeps, NEW re, SplitNode(a, p, C, childDeps, re)
        PROVE  Kept
    <3>1. {p} \in SUBSET nodes /\ claims' = TakenOver(a, {p})
      BY <2>3 DEF SplitNode
    <3> QED
      BY <3>1
  <2>4. ASSUME NEW n \in nodes, NEW d \in nodes, NEW re,
               AddDependency(a, n, d, re) \/ RemoveDependency(a, n, d, re)
        PROVE  Kept
    <3>1. {n} \in SUBSET nodes /\ (claims' = claims \/ claims' = TakenOver(a, {n}))
      BY <2>4 DEF AddDependency, RemoveDependency
    <3> QED
      BY <3>1
  <2>5. ASSUME NEW n \in nodes, NEW d \in nodes, NEW t \in nodes, NEW re, MoveDependency(a, n, d, t, re)
        PROVE  Kept
    <3>1. {n, t} \in SUBSET nodes /\ claims' = TakenOver(a, {n, t})
      BY <2>5 DEF MoveDependency
    <3> QED
      BY <3>1
  <2> HIDE DEF Kept
  <2> QED
    BY <1>2, <2>1, <2>2, <2>3, <2>4, <2>5 DEF EditBy
<1>3. ASSUME Decision PROVE claims' = claims
  BY <1>3 DEF Decision, ClaimStep, CreateNode, DecideAcceptance, MayDecide, DecisionLine, DecideReferenceReview,
              OpenChallenge, EndChallenge, SealFalse, Unseal
<1>4. CASE UNCHANGED vars
  BY <1>4 DEF vars
<1> QED
  BY <1>2, <1>3, <1>4 DEF Next

\* The steps that may freeze a snapshot or record an acceptance line.
ReviewStep ==
  \/ \E a \in Actors, n \in nodes, re \in BOOLEAN : RequestReview(a, n, re)
  \/ \E n \in nodes, o \in Outcomes : DecideAcceptance(n, o)

\* Every other step leaves the snapshots and the acceptance lines alone.
LEMMA ReviewSteps ==
  ASSUME [Next]_vars, ~ReviewStep
  PROVE  UNCHANGED <<snapshots, snapDeps, decision>>
<1> DEFINE Unreviewed == UNCHANGED <<snapshots, snapDeps, decision>>
<1>1. \A a, N : Reassign(a, N) \subseteq BOOLEAN
  BY DEF Reassign
<1>2. ASSUME NEW a \in Actors, EditBy(a) PROVE Unreviewed
  <2>1. ASSUME NEW n \in nodes, NEW re \in Reassign(a, {n})
        PROVE  ~RequestReview(a, n, re)
    BY <1>1 DEF ReviewStep
  <2>2. ASSUME NEW n, NEW re, ClaimNode(a, n, re)
        PROVE  Unreviewed
    BY <2>2 DEF ClaimNode, reviewVars
  <2>3. ASSUME NEW p, NEW n, NEW k, NEW ds, NEW re, CreateNodeUnderParent(a, p, n, k, ds, re)
        PROVE  Unreviewed
    BY <2>3 DEF CreateNodeUnderParent, reviewVars
  <2>4. ASSUME NEW p, NEW C, NEW childDeps, NEW re, SplitNode(a, p, C, childDeps, re)
        PROVE  Unreviewed
    BY <2>4 DEF SplitNode, reviewVars
  <2>5. ASSUME NEW n, NEW d, NEW t, NEW re,
               AddDependency(a, n, d, re) \/ RemoveDependency(a, n, d, re) \/ MoveDependency(a, n, d, t, re)
        PROVE  Unreviewed
    BY <2>5 DEF AddDependency, RemoveDependency, MoveDependency, reviewVars
  <2> HIDE DEF Unreviewed
  <2> QED
    BY <1>2, <2>1, <2>2, <2>3, <2>4, <2>5 DEF EditBy
<1>3. CASE Decision
  BY <1>3 DEF Decision, ReviewStep, CreateNode, ReleaseNode, DecideReferenceReview,
              OpenChallenge, EndChallenge, SealFalse, Unseal, reviewVars
<1>4. CASE UNCHANGED vars
  BY <1>4 DEF vars, reviewVars
<1> QED
  BY <1>2, <1>3, <1>4 DEF Next

\* A takeover moves claims between actors: no node is held after it that was
\* not held before.
LEMMA TakenOverHolds ==
  ASSUME NEW a \in Actors, NEW N \in SUBSET Nodes, claims' = TakenOver(a, N), NEW n
  PROVE  HeldBy(n) = {} => HeldBy(n)' = {}
  BY DEF TakenOver, HeldBy

\* However a node is taken over, at most one actor holds it.
LEMMA OneActiveClaimStep ==
  ASSUME TypeOK, OneActiveClaim, [Next]_vars
  PROVE  OneActiveClaim'
<1>1. CASE claims' = claims
  BY <1>1 DEF OneActiveClaim
<1>2. ASSUME NEW a \in Actors, NEW N \in SUBSET nodes, claims' = TakenOver(a, N)
      PROVE  OneActiveClaim'
  BY <1>2 DEF OneActiveClaim, TakenOver
<1>3. ASSUME NEW a \in Actors, NEW n \in nodes, NEW re, ClaimNode(a, n, re)
      PROVE  OneActiveClaim'
  BY <1>3 DEF OneActiveClaim, ClaimNode
<1>4. ASSUME NEW a \in Actors, NEW n \in nodes, NEW re, RequestReview(a, n, re)
      PROVE  OneActiveClaim'
  BY <1>4 DEF OneActiveClaim, RequestReview
<1>5. ASSUME NEW n \in nodes, ReleaseNode(n)
      PROVE  OneActiveClaim'
  BY <1>5 DEF OneActiveClaim, ReleaseNode
<1> QED
  BY <1>1, <1>2, <1>3, <1>4, <1>5, ClaimSteps DEF ClaimStep

\* A node is created before anything names it, and its row is never deleted.
LEMMA RootedStep ==
  ASSUME TypeOK, Rooted, [Next]_vars
  PROVE  Rooted'
<1> USE DEF TypeOK, Rooted
<1>1. ASSUME NEW a \in Actors, NEW n \in nodes, NEW re, ClaimNode(a, n, re)
      PROVE  Rooted'
  BY <1>1 DEF ClaimNode, nodeVars, reviewVars
<1>2. ASSUME NEW a \in Actors, NEW n \in nodes, NEW re, RequestReview(a, n, re)
      PROVE  Rooted'
  BY <1>2 DEF RequestReview, nodeVars
<1>3. ASSUME NEW a \in Actors, NEW p \in nodes, NEW n \in Nodes, NEW k \in NewKinds,
             NEW ds \in SUBSET nodes, NEW re, CreateNodeUnderParent(a, p, n, k, ds, re)
      PROVE  Rooted'
  <2>1. claims' \subseteq [node : nodes', by : Actors]
    BY <1>3 DEF CreateNodeUnderParent, TakenOver
  <2>2. /\ \A m \in Nodes : deps'[m] \subseteq nodes'
        /\ \A m \in Nodes \ nodes' : deps'[m] = {}
    BY <1>3 DEF CreateNodeUnderParent, CanCreate
  <2> QED
    BY <1>3, <2>1, <2>2 DEF CreateNodeUnderParent, CanCreate, reviewVars
<1>4. ASSUME NEW a \in Actors, NEW p \in nodes, NEW C \in SUBSET (Nodes \ nodes), NEW re,
             NEW childDeps \in [C -> SUBSET nodes], SplitNode(a, p, C, childDeps, re)
      PROVE  Rooted'
  <2>1. claims' \subseteq [node : nodes', by : Actors]
    BY <1>4 DEF SplitNode, TakenOver
  <2>2. /\ \A m \in Nodes : deps'[m] \subseteq nodes'
        /\ \A m \in Nodes \ nodes' : deps'[m] = {}
    BY <1>4 DEF SplitNode
  <2> QED
    BY <1>4, <2>1, <2>2 DEF SplitNode, reviewVars
<1>5. ASSUME NEW a \in Actors, NEW n \in nodes, NEW d \in nodes, NEW re, AddDependency(a, n, d, re)
      PROVE  Rooted'
  <2>1. claims' \subseteq [node : nodes, by : Actors]
    BY <1>5 DEF AddDependency, TakenOver
  <2> QED
    BY <1>5, <2>1 DEF AddDependency, nodeVars, reviewVars
<1>6. ASSUME NEW a \in Actors, NEW n \in nodes, NEW d \in nodes, NEW re, RemoveDependency(a, n, d, re)
      PROVE  Rooted'
  <2>1. claims' \subseteq [node : nodes, by : Actors]
    BY <1>6 DEF RemoveDependency, TakenOver
  <2> QED
    BY <1>6, <2>1 DEF RemoveDependency, WithoutPin, nodeVars
<1>7. ASSUME NEW a \in Actors, NEW n \in nodes, NEW d \in nodes, NEW t \in nodes, NEW re,
             MoveDependency(a, n, d, t, re)
      PROVE  Rooted'
  <2>1. claims' \subseteq [node : nodes, by : Actors]
    BY <1>7 DEF MoveDependency, TakenOver
  <2>2. pins' = [pins EXCEPT ![n] = pins[n] \ {d}]
    BY <1>7 DEF MoveDependency, WithoutPin
  <2>3. \A m \in Nodes : deps'[m] \subseteq nodes
    BY <1>7 DEF MoveDependency
  <2>4. \A m \in Nodes \ nodes : deps'[m] = {} /\ pins'[m] = {}
    BY <1>7, <2>2 DEF MoveDependency
  <2>5. UNCHANGED <<nodes, snapshots, decision>>
    BY <1>7 DEF MoveDependency, nodeVars
  <2> QED
    BY <2>1, <2>3, <2>4, <2>5
<1>8. ASSUME NEW n \in Nodes, NEW k \in NewKinds, NEW ds \in SUBSET nodes, CreateNode(n, k, ds)
      PROVE  Rooted'
  BY <1>8 DEF CreateNode, CanCreate, reviewVars
<1>9. ASSUME NEW n \in nodes, ReleaseNode(n)
      PROVE  Rooted'
  BY <1>9 DEF ReleaseNode, nodeVars, reviewVars
<1>10. ASSUME NEW n \in nodes, NEW o \in Outcomes, DecideAcceptance(n, o)
       PROVE  Rooted'
  BY <1>10 DEF DecideAcceptance, MayDecide, DecisionLine, nodeVars
<1>11. ASSUME NEW n \in nodes, NEW s \in RefStates, DecideReferenceReview(n, s)
       PROVE  Rooted'
  BY <1>11 DEF DecideReferenceReview, nodeVars
<1>12. ASSUME NEW n \in nodes, OpenChallenge(n) \/ EndChallenge(n) \/ SealFalse(n) \/ Unseal(n)
       PROVE  Rooted'
  BY <1>12 DEF OpenChallenge, EndChallenge, SealFalse, Unseal, nodeVars, reviewVars
<1>13. CASE UNCHANGED vars
  BY <1>13 DEF vars, nodeVars, reviewVars
<1> HIDE DEF TypeOK, Rooted
<1> QED
  BY <1>1, <1>2, <1>3, <1>4, <1>5, <1>6, <1>7, <1>8, <1>9, <1>10, <1>11, <1>12, <1>13
     DEF Next, EditBy, Decision

\* No step makes an imported result rest on anything, be held, or be reviewed.
LEMMA LeafImportsStep ==
  ASSUME TypeOK, Rooted, LeafImports, [Next]_vars
  PROVE  LeafImports'
<1> SUFFICES ASSUME NEW n \in Nodes, kind'[n] = "imported_result"
             PROVE  deps'[n] = {} /\ HeldBy(n)' = {} /\ n \notin snapshots'
  BY DEF LeafImports, Local
<1>1. n \in nodes => kind[n] = "imported_result"
  <2>1. ASSUME NEW m \in Nodes, NEW k, kind' = [kind EXCEPT ![m] = k], m \notin nodes
        PROVE  n \in nodes => kind[n] = "imported_result"
    BY <2>1 DEF TypeOK
  <2>2. ASSUME NEW m \in Nodes, NEW k, NEW ds, CreateNode(m, k, ds)
        PROVE  n \in nodes => kind[n] = "imported_result"
    BY <2>1, <2>2 DEF CreateNode, CanCreate
  <2>3. ASSUME NEW a, NEW p, NEW m \in Nodes, NEW k, NEW ds, NEW re,
               CreateNodeUnderParent(a, p, m, k, ds, re)
        PROVE  n \in nodes => kind[n] = "imported_result"
    BY <2>1, <2>3 DEF CreateNodeUnderParent, CanCreate
  <2>4. ASSUME NEW a, NEW p, NEW C \in SUBSET (Nodes \ nodes), NEW childDeps, NEW re,
               SplitNode(a, p, C, childDeps, re)
        PROVE  n \in nodes => kind[n] = "imported_result"
    BY <2>4 DEF SplitNode
  <2>5. CASE kind' = kind
    BY <2>5
  <2>6. ASSUME NEW a, NEW m, NEW d, NEW t, NEW re,
               AddDependency(a, m, d, re) \/ RemoveDependency(a, m, d, re) \/ MoveDependency(a, m, d, t, re)
        PROVE  kind' = kind
    BY <2>6 DEF AddDependency, RemoveDependency, MoveDependency, nodeVars
  <2> QED
    BY <2>2, <2>3, <2>4, <2>5, <2>6, EdgeSteps DEF EdgeStep
<1>2. deps[n] = {} /\ HeldBy(n) = {} /\ n \notin snapshots
  BY <1>1 DEF LeafImports, Local, Rooted, HeldBy
<1>3. deps'[n] = {}
  <2>1. ASSUME NEW m \in Nodes, NEW k \in NewKinds, NEW ds \in SUBSET nodes, CreateNode(m, k, ds)
        PROVE  deps'[n] = {}
    BY <1>2, <2>1 DEF CreateNode, CanCreate, TypeOK
  <2>2. ASSUME NEW a \in Actors, NEW p \in nodes, NEW m \in Nodes, NEW k \in NewKinds,
               NEW ds \in SUBSET nodes, NEW re, CreateNodeUnderParent(a, p, m, k, ds, re)
        PROVE  deps'[n] = {}
    BY <1>1, <1>2, <2>2 DEF CreateNodeUnderParent, CanCreate, StructureEditable, TypeOK
  <2>3. ASSUME NEW a \in Actors, NEW p \in nodes, NEW C \in SUBSET (Nodes \ nodes), NEW re,
               NEW childDeps \in [C -> SUBSET nodes], SplitNode(a, p, C, childDeps, re)
        PROVE  deps'[n] = {}
    BY <1>1, <1>2, <2>3 DEF SplitNode, Local, TypeOK
  <2>4. ASSUME NEW a \in Actors, NEW m \in nodes, NEW d \in nodes, NEW re,
               AddDependency(a, m, d, re) \/ RemoveDependency(a, m, d, re)
        PROVE  deps'[n] = {}
    BY <1>1, <1>2, <2>4 DEF AddDependency, RemoveDependency, StructureEditable, nodeVars, TypeOK
  <2>5. ASSUME NEW a \in Actors, NEW m \in nodes, NEW d \in nodes, NEW t \in nodes, NEW re,
               MoveDependency(a, m, d, t, re)
        PROVE  deps'[n] = {}
    BY <1>1, <1>2, <2>5 DEF MoveDependency, StructureEditable, nodeVars, TypeOK
  <2> QED
    BY <1>2, <2>1, <2>2, <2>3, <2>4, <2>5, EdgeSteps DEF EdgeStep
<1>4. HeldBy(n)' = {}
  <2>1. ASSUME NEW a \in Actors, NEW m \in nodes, NEW re, ClaimNode(a, m, re)
        PROVE  HeldBy(n)' = {}
    BY <1>1, <1>2, <2>1 DEF ClaimNode, Pickable, StructureEditable, HeldBy
  <2>2. ASSUME NEW a \in Actors, NEW m \in nodes, NEW re, RequestReview(a, m, re)
        PROVE  HeldBy(n)' = {}
    BY <1>2, <2>2 DEF RequestReview, HeldBy
  <2>3. ASSUME NEW m \in nodes, ReleaseNode(m)
        PROVE  HeldBy(n)' = {}
    BY <1>2, <2>3 DEF ReleaseNode, HeldBy
  <2>4. ASSUME NEW a \in Actors, NEW N \in SUBSET nodes, claims' = TakenOver(a, N)
        PROVE  HeldBy(n)' = {}
    BY <1>2, <2>4, TakenOverHolds DEF TypeOK
  <2>5. CASE claims' = claims
    BY <1>2, <2>5 DEF HeldBy
  <2> QED
    BY <2>1, <2>2, <2>3, <2>4, <2>5, ClaimSteps DEF ClaimStep
<1>5. n \notin snapshots'
  <2>1. ASSUME NEW a \in Actors, NEW m \in nodes, NEW re, RequestReview(a, m, re)
        PROVE  n \notin snapshots'
    BY <1>1, <1>2, <2>1 DEF RequestReview, Local
  <2>2. ASSUME NEW m \in nodes, NEW o \in Outcomes, DecideAcceptance(m, o)
        PROVE  snapshots' = snapshots
    BY <2>2 DEF DecideAcceptance, MayDecide, DecisionLine
  <2> QED
    BY <1>2, <2>1, <2>2, ReviewSteps DEF ReviewStep
<1> QED
  BY <1>3, <1>4, <1>5

-----------------------------------------------------------------------------
(* The structural theorems.                                                *)

\* The inductive invariant.
Structure == TypeOK /\ Rooted /\ AcyclicMap /\ OneActiveClaim /\ LeafImports

\* The structure of the map is as every service leaves it.
LEMMA StructureCorrect == Spec => []Structure
<1>1. Init => Structure
  <2>1. Init => TypeOK
    BY NodesAssumption, ActorsAssumption
       DEF Init, TypeOK, NoDecision, AcceptanceLines, Outcomes, RefStates, Kinds
  <2>2. Init => Rooted /\ AcyclicMap /\ OneActiveClaim /\ LeafImports
    BY DEF Init, Rooted, AcyclicMap, Acyclic, OneActiveClaim, LeafImports, Local
  <2> QED
    BY <2>1, <2>2 DEF Structure
<1>2. Structure /\ [Next]_vars => Structure'
  BY TypeStep, RootedStep, AcyclicStep, OneActiveClaimStep, LeafImportsStep DEF Structure
<1> QED
  BY <1>1, <1>2, PTL DEF Spec

\* No sequence of Splits, edges added, edges handed down and nodes created ever
\* makes a node rest on itself, in a map of any size (DEPENDENCY_CYCLE).
THEOREM MapAcyclic == Spec => []AcyclicMap
  BY StructureCorrect, PTL DEF Structure

\* No node is ever held by two actors, however many edit the map.
THEOREM OneHolder == Spec => []OneActiveClaim
  BY StructureCorrect, PTL DEF Structure

\* An imported result never gains a dependency, a claim or a snapshot.
THEOREM ImportsAreLeaves == Spec => []LeafImports
  BY StructureCorrect, PTL DEF Structure

-----------------------------------------------------------------------------
(* Decisions: a Reject freezes the node, an Acceptance is not lost to      *)
(* somebody's edit, and pins stay pins of edges.                           *)

\* A rejected node is held by nobody: a decision is refused while it is held,
\* and nobody may claim it since.
RejectedUnheld == \A n \in Nodes : Rejected(n) => HeldBy(n) = {}

\* A Reject is never replaced.
LEMMA RejectIsTerminal ==
  ASSUME TypeOK, [Next]_vars, NEW n \in Nodes, Rejected(n)
  PROVE  Rejected(n)'
<1>1. ASSUME NEW a \in Actors, NEW m \in nodes, NEW re, RequestReview(a, m, re)
      PROVE  Rejected(n)'
  BY <1>1 DEF TypeOK, Rejected, RequestReview, OnEarlier
<1>2. ASSUME NEW m \in nodes, NEW o \in Outcomes, DecideAcceptance(m, o)
      PROVE  Rejected(n)'
  BY <1>2 DEF TypeOK, Rejected, DecideAcceptance, MayDecide, DecisionLine
<1>3. CASE decision' = decision
  BY <1>3 DEF Rejected
<1> QED
  BY <1>1, <1>2, <1>3, ReviewSteps DEF ReviewStep

\* Only an edit the node itself allows changes its edges.
LEMMA EdgesNeedLeave ==
  ASSUME TypeOK, Rooted, [Next]_vars, NEW n \in nodes, deps'[n] # deps[n]
  PROVE  ~Rejected(n) /\ (Accepted(n) => n \in challenged \/ VerificationVoid(n))
<1> USE DEF TypeOK
<1>1. ASSUME NEW m \in Nodes, NEW k \in NewKinds, NEW ds \in SUBSET nodes, CreateNode(m, k, ds)
      PROVE  FALSE
  BY <1>1 DEF CreateNode, CanCreate
<1>2. ASSUME NEW a \in Actors, NEW p \in nodes, NEW m \in Nodes, NEW k \in NewKinds,
             NEW ds \in SUBSET nodes, NEW re, CreateNodeUnderParent(a, p, m, k, ds, re)
      PROVE  StructureEditable(n)
  BY <1>2 DEF CreateNodeUnderParent, CanCreate
<1>3. ASSUME NEW a \in Actors, NEW p \in nodes, NEW C \in SUBSET (Nodes \ nodes), NEW re,
             NEW childDeps \in [C -> SUBSET nodes], SplitNode(a, p, C, childDeps, re)
      PROVE  ~Rejected(n) /\ ~Accepted(n)
  BY <1>3 DEF SplitNode
<1>4. ASSUME NEW a \in Actors, NEW m \in nodes, NEW d \in nodes, NEW re,
             AddDependency(a, m, d, re) \/ RemoveDependency(a, m, d, re)
      PROVE  StructureEditable(n)
  BY <1>4 DEF AddDependency, RemoveDependency
<1>5. ASSUME NEW a \in Actors, NEW m \in nodes, NEW d \in nodes, NEW t \in nodes, NEW re,
             MoveDependency(a, m, d, t, re)
      PROVE  StructureEditable(n)
  BY <1>5 DEF MoveDependency
<1> QED
  BY <1>1, <1>2, <1>3, <1>4, <1>5, EdgeSteps DEF EdgeStep, StructureEditable

\* A rejected node stays unheld.
LEMMA RejectedUnheldStep ==
  ASSUME TypeOK, RejectedUnheld, [Next]_vars
  PROVE  RejectedUnheld'
<1> SUFFICES ASSUME NEW n \in Nodes, Rejected(n)'
             PROVE  HeldBy(n)' = {}
  BY DEF RejectedUnheld
<1>1. ASSUME NEW a \in Actors, NEW m \in nodes, NEW re, RequestReview(a, m, re)
      PROVE  HeldBy(n)' = {}
  <2>1. Rejected(n)
    BY <1>1 DEF TypeOK, Rejected, RequestReview, OnEarlier
  <2> QED
    BY <1>1, <2>1 DEF RejectedUnheld, RequestReview, HeldBy
<1>2. ASSUME NEW m \in nodes, NEW o \in Outcomes, DecideAcceptance(m, o)
      PROVE  HeldBy(n)' = {}
  <2>1. n = m \/ Rejected(n)
    BY <1>2 DEF TypeOK, Rejected, DecideAcceptance, MayDecide, DecisionLine
  <2> QED
    BY <1>2, <2>1 DEF RejectedUnheld, DecideAcceptance, MayDecide, DecisionLine, HeldBy
<1>3. ASSUME ~ReviewStep PROVE HeldBy(n)' = {}
  <2>1. Rejected(n) /\ HeldBy(n) = {}
    BY <1>3, ReviewSteps DEF Rejected, RejectedUnheld
  <2>2. ASSUME NEW a \in Actors, NEW m \in nodes, NEW re, ClaimNode(a, m, re)
        PROVE  HeldBy(n)' = {}
    BY <2>1, <2>2 DEF ClaimNode, Pickable, StructureEditable, HeldBy
  <2>3. ASSUME NEW m \in nodes, ReleaseNode(m)
        PROVE  HeldBy(n)' = {}
    BY <2>1, <2>3 DEF ReleaseNode, HeldBy
  <2>4. ASSUME NEW a \in Actors, NEW N \in SUBSET nodes, claims' = TakenOver(a, N)
        PROVE  HeldBy(n)' = {}
    BY <2>1, <2>4, TakenOverHolds DEF TypeOK
  <2>5. CASE claims' = claims
    BY <2>1, <2>5 DEF HeldBy
  <2> QED
    BY <1>1, <2>2, <2>3, <2>4, <2>5, ClaimSteps DEF ClaimStep
<1> QED
  BY <1>1, <1>2, <1>3 DEF ReviewStep

\* A Reject freezes the node: no edit of it, or of a node it hangs on or from,
\* changes its edges or puts a holder on it.
THEOREM RejectFreezes == Spec => RejectedFrozen
<1>1. Init => RejectedUnheld
  BY DEF Init, RejectedUnheld, Rejected, NoDecision
<1>2. Structure /\ RejectedUnheld /\ [Next]_vars => RejectedUnheld'
  BY RejectedUnheldStep DEF Structure
<1>3. ASSUME Structure, RejectedUnheld, RejectedUnheld', [Next]_vars, NEW n \in Nodes, Rejected(n)
      PROVE  Rejected(n)' /\ deps'[n] = deps[n] /\ HeldBy(n)' = {}
  <2>1. n \in nodes
    BY <1>3 DEF Structure, Rooted, Rejected, NoDecision
  <2>2. Rejected(n)'
    BY <1>3, RejectIsTerminal DEF Structure
  <2>3. HeldBy(n)' = {}
    BY <1>3, <2>2 DEF RejectedUnheld
  <2> QED
    BY <1>3, <2>1, <2>2, <2>3, EdgesNeedLeave DEF Structure
<1>4. Structure /\ RejectedUnheld /\ RejectedUnheld' /\ [Next]_vars =>
        [\A n \in Nodes : Rejected(n) => Rejected(n)' /\ deps'[n] = deps[n] /\ HeldBy(n)' = {}]_vars
  BY <1>3
<1> QED
  BY <1>1, <1>2, <1>4, StructureCorrect, PTL DEF Spec, RejectedFrozen

\* An approval stops counting only by a further decision on the node itself, or
\* by an edit that a Challenge or a dependency found false invited.
THEOREM AcceptanceStands == Spec => AcceptanceNotLostSilently
<1>1. ASSUME Structure, [Next]_vars, NEW n \in Nodes, Accepted(n), ~Accepted(n)'
      PROVE  \/ n \in challenged
             \/ VerificationVoid(n)
             \/ decision'[n] # decision[n] /\ decision'[n].onCurrent
  <2>1. n \in nodes
    BY <1>1 DEF Structure, Rooted, Accepted, NoDecision
  <2>2. CASE deps'[n] # deps[n]
    BY <1>1, <2>1, <2>2, EdgesNeedLeave DEF Structure
  <2>3. ASSUME deps'[n] = deps[n], NEW a \in Actors, NEW m \in nodes, NEW re, RequestReview(a, m, re)
        PROVE  FALSE
    BY <1>1, <2>3 DEF Structure, TypeOK, Accepted, Counts, RequestReview, OnEarlier
  <2>4. ASSUME NEW m \in nodes, NEW o \in Outcomes, DecideAcceptance(m, o)
        PROVE  decision'[n] # decision[n] /\ decision'[n].onCurrent
    <3>1. n = m
      <4>1. n # m => decision'[n] = decision[n] /\ deps'[n] = deps[n]
        BY <1>1, <2>4 DEF Structure, TypeOK, DecideAcceptance, MayDecide, DecisionLine
      <4> QED
        BY <1>1, <4>1 DEF Accepted, Counts
    <3>2. ~decision[n].onCurrent
      BY <1>1, <2>4, <3>1 DEF DecideAcceptance, MayDecide, DecisionLine, AwaitingDecision, Accepted
    <3>3. decision'[n].onCurrent
      BY <1>1, <2>4, <3>1 DEF DecideAcceptance, MayDecide, DecisionLine, Structure, TypeOK
    <3> QED
      BY <3>2, <3>3
  <2>5. CASE deps'[n] = deps[n] /\ decision' = decision
    BY <1>1, <2>5 DEF Accepted, Counts
  <2> QED
    BY <2>2, <2>3, <2>4, <2>5, <1>1, ReviewSteps DEF ReviewStep
<1>2. Structure /\ [Next]_vars =>
        [\A n \in Nodes : Accepted(n) /\ ~Accepted(n)' =>
           \/ n \in challenged
           \/ VerificationVoid(n)
           \/ decision'[n] # decision[n] /\ decision'[n].onCurrent]_vars
  BY <1>1
<1> QED
  BY <1>2, StructureCorrect, PTL DEF Spec, AcceptanceNotLostSilently

-----------------------------------------------------------------------------
(* Pins.                                                                   *)

\* Every step keeps the pins of a node among the edges its snapshot recorded.
LEMMA PinsStep ==
  ASSUME TypeOK, Rooted, PinsFollowEdges, [Next]_vars
  PROVE  PinsFollowEdges'
<1> USE DEF TypeOK, PinsFollowEdges
<1>1. ASSUME NEW a \in Actors, NEW n \in nodes, NEW re, RequestReview(a, n, re)
      PROVE  PinsFollowEdges'
  BY <1>1 DEF RequestReview
<1>3. ASSUME NEW a \in Actors, NEW n \in nodes, NEW d \in nodes, NEW re, RemoveDependency(a, n, d, re)
      PROVE  PinsFollowEdges'
  <2>1. ASSUME NEW m \in Nodes
        PROVE  /\ deps'[m] = IF m = n THEN deps[n] \ {d} ELSE deps[m]
               /\ pins'[m] = IF m = n THEN pins[n] \ {d} ELSE pins[m]
               /\ versioned'[m] = IF m = n THEN versioned[n] \ {d} ELSE versioned[m]
               /\ snapDeps' = snapDeps
    <3>1. deps'[m] = IF m = n THEN deps[n] \ {d} ELSE deps[m]
      BY <1>3 DEF RemoveDependency
    <3>2. pins' = WithoutPin(pins, n, d) /\ versioned' = WithoutPin(versioned, n, d) /\ snapDeps' = snapDeps
      BY <1>3 DEF RemoveDependency
    <3> QED
      BY <3>1, <3>2 DEF WithoutPin
  <2> QED
    BY <2>1
<1>4. ASSUME NEW a \in Actors, NEW n \in nodes, NEW d \in nodes, NEW t \in nodes, NEW re,
             MoveDependency(a, n, d, t, re)
      PROVE  PinsFollowEdges'
  <2>1. ASSUME NEW m \in Nodes
        PROVE  /\ deps[m] \ (IF m = n THEN {d} ELSE {}) \subseteq deps'[m]
               /\ pins'[m] = IF m = n THEN pins[n] \ {d} ELSE pins[m]
               /\ versioned'[m] = IF m = n THEN versioned[n] \ {d} ELSE versioned[m]
               /\ snapDeps' = snapDeps
    <3>1. deps[m] \ (IF m = n THEN {d} ELSE {}) \subseteq deps'[m]
      <4>1. deps' = [deps EXCEPT ![n] = deps[n] \ {d}, ![t] = deps[t] \cup {d}]
        BY <1>4 DEF MoveDependency
      <4>2. CASE m = t
        BY <4>1, <4>2
      <4>3. CASE m # t
        BY <4>1, <4>3
      <4> QED
        BY <4>2, <4>3
    <3>2. pins' = WithoutPin(pins, n, d) /\ versioned' = WithoutPin(versioned, n, d) /\ snapDeps' = snapDeps
      BY <1>4 DEF MoveDependency
    <3> QED
      BY <3>1, <3>2 DEF WithoutPin
  <2> QED
    BY <2>1
<1>5. ASSUME NEW n \in nodes, NEW o \in Outcomes, DecideAcceptance(n, o)
      PROVE  PinsFollowEdges'
  BY <1>5 DEF DecideAcceptance, MayDecide, DecisionLine, PinsAcceptedAgainst
<1>6. ASSUME UNCHANGED <<pins, versioned, snapDeps>>, \A m \in Nodes : deps[m] \subseteq deps'[m]
      PROVE  PinsFollowEdges'
  BY <1>6
<1>7. ASSUME NEW n \in Nodes, NEW k, NEW ds, CreateNode(n, k, ds)
      PROVE  PinsFollowEdges'
  <2>1. UNCHANGED <<pins, versioned, snapDeps>> /\ \A m \in Nodes : deps[m] \subseteq deps'[m]
    BY <1>7 DEF CreateNode, CanCreate, Rooted, reviewVars
  <2> QED
    BY <1>6, <2>1
<1>8. ASSUME NEW a, NEW p \in nodes, NEW n \in Nodes, NEW k, NEW ds, NEW re,
             CreateNodeUnderParent(a, p, n, k, ds, re)
      PROVE  PinsFollowEdges'
  <2>1. UNCHANGED <<pins, versioned, snapDeps>> /\ \A m \in Nodes : deps[m] \subseteq deps'[m]
    BY <1>8 DEF CreateNodeUnderParent, CanCreate, Rooted, reviewVars
  <2> QED
    BY <1>6, <2>1
<1>9. ASSUME NEW a, NEW p \in nodes, NEW C \in SUBSET (Nodes \ nodes), NEW childDeps, NEW re,
             SplitNode(a, p, C, childDeps, re)
      PROVE  PinsFollowEdges'
  <2>1. UNCHANGED <<pins, versioned, snapDeps>> /\ \A m \in Nodes : deps[m] \subseteq deps'[m]
    BY <1>9 DEF SplitNode, Rooted, reviewVars
  <2> QED
    BY <1>6, <2>1
<1>10. ASSUME NEW a, NEW n \in nodes, NEW d \in nodes, NEW re, AddDependency(a, n, d, re)
       PROVE  PinsFollowEdges'
  <2>1. UNCHANGED <<pins, versioned, snapDeps>> /\ \A m \in Nodes : deps[m] \subseteq deps'[m]
    BY <1>10 DEF AddDependency, reviewVars
  <2> QED
    BY <1>6, <2>1
<1>11. ASSUME UNCHANGED <<deps, pins, versioned, snapDeps>>
       PROVE  PinsFollowEdges'
  BY <1>11
<1>12. ASSUME NEW a, NEW n, NEW re, ClaimNode(a, n, re)
       PROVE  PinsFollowEdges'
  BY <1>11, <1>12 DEF ClaimNode, reviewVars
<1>13. ASSUME NEW n, \E s \in RefStates : DecideReferenceReview(n, s)
       PROVE  PinsFollowEdges'
  BY <1>11, <1>13 DEF DecideReferenceReview
<1>14. ASSUME NEW n, ReleaseNode(n) \/ OpenChallenge(n) \/ EndChallenge(n) \/ SealFalse(n) \/ Unseal(n)
       PROVE  PinsFollowEdges'
  BY <1>11, <1>14 DEF ReleaseNode, OpenChallenge, EndChallenge, SealFalse, Unseal, reviewVars
<1>15. CASE UNCHANGED vars
  BY <1>11, <1>15 DEF vars, reviewVars
<1> HIDE DEF TypeOK, PinsFollowEdges
<1> QED
  BY <1>1, <1>3, <1>4, <1>5, <1>7, <1>8, <1>9, <1>10, <1>12, <1>13, <1>14, <1>15
     DEF Next, EditBy, Decision

\* The pins of a node are always pins of edges it has, taken with its snapshot.
THEOREM PinsAreEdges == Spec => []PinsFollowEdges
<1>1. Init => PinsFollowEdges
  BY DEF Init, PinsFollowEdges
<1>2. Structure /\ PinsFollowEdges /\ [Next]_vars => PinsFollowEdges'
  BY PinsStep DEF Structure
<1> QED
  BY <1>1, <1>2, StructureCorrect, PTL DEF Spec

-----------------------------------------------------------------------------
(* Whoever holds a node.                                                   *)

\* A takeover hands each held node to the actor it was made for.
LEMMA TakenOverHands ==
  ASSUME NEW a, NEW N, claims' = TakenOver(a, N), NEW n \in N, HeldBy(n) # {}
  PROVE  HeldBy(n)' = {a}
<1>1. \A c \in claims' : c.node = n => c.by = a
  BY DEF TakenOver
<1>2. [node |-> n, by |-> a] \in claims'
  BY DEF TakenOver
<1>3. \E c \in claims' : c.node = n /\ c.by = a
  BY <1>2
<1> QED
  BY <1>1, <1>3 DEF HeldBy

\* A holder's node is edited by the holder, taken over openly, or edited by the
\* agent whose own Split it is (ADR-0021 points 7 and 9).
THEOREM HolderIsRespected == Spec => HolderRespected
<1> DEFINE Respected(n) ==
       \/ HeldBy(n)' # {} /\ HeldBy(n)' # HeldBy(n)
       \/ \E x \in Actors, m \in Nodes :
            \/ OwnSplitEdge(x, n, m) /\ deps'[n] = deps[n] \cup {m}
            \/ OwnSplitRemoval(x, n, m) /\ deps'[n] = deps[n] \ {m}
       \/ \E x \in HeldBy(n) : EditBy(x)
<1>1. ASSUME TypeOK, [Next]_vars, NEW n \in nodes, deps'[n] # deps[n], HeldBy(n) # {}
      PROVE  Respected(n)
  <2> USE <1>1
  <2>1. deps' # deps
    OBVIOUS
  <2>2. ~Decision /\ ~UNCHANGED vars
    <3>1. ASSUME NEW m, NEW k, NEW ds, CreateNode(m, k, ds)
          PROVE  FALSE
      BY <3>1 DEF CreateNode, CanCreate, TypeOK
    <3>2. CASE Decision
      BY <2>1, <3>1, <3>2 DEF Decision, ReleaseNode, DecideAcceptance, MayDecide, DecisionLine, DecideReferenceReview,
                              OpenChallenge, EndChallenge, SealFalse, Unseal
    <3>3. CASE UNCHANGED vars
      BY <2>1, <3>3 DEF vars
    <3> QED
      BY <3>2, <3>3
  <2>3. PICK a \in Actors : EditBy(a)
    BY <2>2 DEF Next
  <2>4. CASE a \in HeldBy(n)
    BY <2>3, <2>4
  <2>5. CASE a \notin HeldBy(n)
    <3>1. ASSUME NEW N, n \in N, claims' = TakenOver(a, N)
          PROVE  Respected(n)
      BY <2>5, <3>1, TakenOverHands
    <3>2. ASSUME NEW m, NEW re, ClaimNode(a, m, re) \/ RequestReview(a, m, re)
          PROVE  Respected(n)
      BY <2>1, <3>2 DEF ClaimNode, RequestReview
    <3>3. ASSUME NEW p \in nodes, NEW m \in Nodes, NEW k, NEW ds, NEW re,
                 CreateNodeUnderParent(a, p, m, k, ds, re)
          PROVE  Respected(n)
      <4>1. n = p /\ claims' = TakenOver(a, {p})
        BY <3>3 DEF CreateNodeUnderParent, CanCreate, TypeOK
      <4> QED
        BY <3>1, <4>1
    <3>4. ASSUME NEW p \in nodes, NEW C \in SUBSET (Nodes \ nodes), NEW childDeps, NEW re,
                 SplitNode(a, p, C, childDeps, re)
          PROVE  Respected(n)
      <4>1. n = p /\ claims' = TakenOver(a, {p})
        BY <3>4 DEF SplitNode, TypeOK
      <4> QED
        BY <3>1, <4>1
    <3>5. ASSUME NEW m \in nodes, NEW d \in nodes, NEW re, AddDependency(a, m, d, re)
          PROVE  Respected(n)
      <4>1. n = m /\ deps'[n] = deps[n] \cup {d}
        BY <3>5 DEF AddDependency, TypeOK
      <4>2. d \in Nodes
        BY DEF TypeOK
      <4>3. claims' = TakenOver(a, {n}) \/ OwnSplitEdge(a, n, d)
        BY <3>5, <4>1 DEF AddDependency
      <4> HIDE DEF Respected
      <4> QED
        BY <3>1, <4>1, <4>2, <4>3 DEF Respected
    <3>6. ASSUME NEW m \in nodes, NEW d \in nodes, NEW re, RemoveDependency(a, m, d, re)
          PROVE  Respected(n)
      <4>1. n = m /\ deps'[n] = deps[n] \ {d}
        BY <3>6 DEF RemoveDependency, TypeOK
      <4>2. d \in Nodes
        BY DEF TypeOK
      <4>3. claims' = TakenOver(a, {n}) \/ OwnSplitRemoval(a, n, d)
        BY <3>6, <4>1 DEF RemoveDependency
      <4> HIDE DEF Respected
      <4> QED
        BY <3>1, <4>1, <4>2, <4>3 DEF Respected
    <3>7. ASSUME NEW m \in nodes, NEW d \in nodes, NEW t \in nodes, NEW re, MoveDependency(a, m, d, t, re)
          PROVE  Respected(n)
      <4>1. n \in {m, t} /\ claims' = TakenOver(a, {m, t})
        BY <3>7 DEF MoveDependency, TypeOK
      <4> QED
        BY <3>1, <4>1
    <3> HIDE DEF Respected
    <3> QED
      BY <2>3, <3>2, <3>3, <3>4, <3>5, <3>6, <3>7 DEF EditBy
  <2> QED
    BY <2>4, <2>5
<1>2. TypeOK /\ [Next]_vars =>
        [\A n \in nodes : deps'[n] # deps[n] /\ HeldBy(n) # {} => Respected(n)]_vars
  BY <1>1
<1> QED
  BY <1>2, TypeCorrect, PTL DEF Spec, HolderRespected
=============================================================================

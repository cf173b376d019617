-------------------------- MODULE NodeStatesProofs --------------------------
(***************************************************************************)
(* What the states of the nodes keep for every map, every set of           *)
(* Challenges and every order of agents' work and the researcher's clicks. *)
(* No proof unfolds the conclusion (Reading): what is shown is that seals  *)
(* and verifications move by clicks only, whatever the conclusions are.    *)
(***************************************************************************)
EXTENDS NodeStates, TLAPS

-----------------------------------------------------------------------------
(* The type invariant.                                                     *)

\* A Challenge is raised as a record of its type.
LEMMA RaiseType ==
  ASSUME TypeOK, NEW i \in Ids, NEW n \in Nodes, NEW kind \in {"proof", "statement"},
         NEW c \in Nodes \cup {Nobody}, NEW byAgent \in BOOLEAN, Raise(i, n, kind, c, byAgent)
  PROVE  challenges' \in [Ids -> ChallengeRecords]
<1>1. [status |-> "open", target |-> n, kind |-> kind, counterexample |-> c,
       byAgent |-> byAgent, after |-> TRUE, cleared |-> FALSE] \in ChallengeRecords
  BY DEF ChallengeRecords
<1> QED
  BY <1>1 DEF Raise, TypeOK

\* What the ends of Challenges, and a verification, write of one is of its type.
LEMMA EndType ==
  ASSUME NEW r \in ChallengeRecords,
         NEW status \in {"open", "withdrawn", "fixed", "dismissed", "unraised"}
  PROVE  /\ [r EXCEPT !.status = status] \in ChallengeRecords
         /\ [r EXCEPT !.after = FALSE] \in ChallengeRecords
         /\ [r EXCEPT !.cleared = TRUE, !.status = status] \in ChallengeRecords
BY DEF ChallengeRecords

\* Every agent's step keeps the types.
LEMMA AgentTypes == ASSUME TypeOK, AgentStep PROVE TypeOK'
<1>1. ASSUME NEW n \in Nodes, NEW d \in Nodes, AddDependency(n, d)
      PROVE  TypeOK'
  BY <1>1 DEF AddDependency, TypeOK, workVars
<1>2. ASSUME NEW n \in Nodes, NEW d \in Nodes, RemoveDependency(n, d)
      PROVE  TypeOK'
  BY <1>2 DEF RemoveDependency, TypeOK
<1>3. ASSUME NEW n \in Nodes, NEW content \in Drafts, EditFiles(n, content)
      PROVE  TypeOK'
  BY <1>3 DEF EditFiles, TypeOK
<1>4. ASSUME NEW n \in Nodes, RequestReview(n)
      PROVE  TypeOK'
  <2>1. Version(n) \in Versions
    BY DEF Version, Versions, TypeOK
  <2>2. \A line \in verification[n] : [line EXCEPT !.current = FALSE] \in [deps : SUBSET Nodes, current : BOOLEAN]
    <3>1. verification[n] \subseteq [deps : SUBSET Nodes, current : BOOLEAN]
      BY DEF TypeOK
    <3>2. \A line \in [deps : SUBSET Nodes, current : BOOLEAN] :
             [line EXCEPT !.current = FALSE] \in [deps : SUBSET Nodes, current : BOOLEAN]
      OBVIOUS
    <3> QED
      BY <3>1, <3>2
  <2>3. verification' \in [Nodes -> SUBSET [deps : SUBSET Nodes, current : BOOLEAN]]
    BY <1>4, <2>2 DEF RequestReview, TypeOK
  <2> QED
    BY <1>4, <2>1, <2>3 DEF RequestReview, TypeOK
<1>5. ASSUME NEW n \in Nodes, NEW audit \in BOOLEAN, PassVerdict(n, audit)
      PROVE  TypeOK'
  <2>1. Version(n) \in Versions
    BY DEF Version, Versions, TypeOK
  <2>2. challenges' \in [Ids -> ChallengeRecords]
    BY <1>5, EndType DEF PassVerdict, TypeOK
  <2> QED
    BY <1>5, <2>1, <2>2 DEF PassVerdict, TypeOK
<1>6. ASSUME NEW n \in Nodes, NEW i \in Ids, FailVerdict(n, i)
      PROVE  TypeOK'
  <2>1. challenges' \in [Ids -> ChallengeRecords]
    BY <1>6, RaiseType DEF FailVerdict
  <2> QED
    BY <1>6, <2>1 DEF FailVerdict, TypeOK
<1>7. ASSUME NEW i \in Ids, NEW n \in Nodes, NEW kind \in {"proof", "statement"},
             NEW c \in Nodes \cup {Nobody}, OpenChallenge(i, n, kind, c, TRUE)
      PROVE  TypeOK'
  <2>1. challenges' \in [Ids -> ChallengeRecords]
    BY <1>7, RaiseType DEF OpenChallenge
  <2> QED
    BY <1>7, <2>1 DEF OpenChallenge, TypeOK, workVars
<1>8. ASSUME NEW i \in Ids, Withdraw(i, TRUE)
      PROVE  TypeOK'
  <2>1. challenges' \in [Ids -> ChallengeRecords]
    BY <1>8, EndType DEF Withdraw, TypeOK
  <2> QED
    BY <1>8, <2>1 DEF Withdraw, TypeOK, workVars
<1> QED
  BY <1>1, <1>2, <1>3, <1>4, <1>5, <1>6, <1>7, <1>8 DEF AgentStep

\* Every click keeps the types.
LEMMA ClickTypes == ASSUME TypeOK, ResearcherStep PROVE TypeOK'
<1>1. ASSUME NEW i \in Ids, NEW n \in Nodes, NEW kind \in {"proof", "statement"},
             NEW c \in Nodes \cup {Nobody}, OpenChallenge(i, n, kind, c, FALSE)
      PROVE  TypeOK'
  <2>1. challenges' \in [Ids -> ChallengeRecords]
    BY <1>1, RaiseType DEF OpenChallenge
  <2> QED
    BY <1>1, <2>1 DEF OpenChallenge, TypeOK, workVars
<1>2. ASSUME NEW i \in Ids, Withdraw(i, FALSE) \/ DismissChallenge(i) \/ NotAProblem(i)
      PROVE  TypeOK'
  <2>1. challenges[i] \in ChallengeRecords
    BY DEF TypeOK
  <2>2. challenges' \in [Ids -> ChallengeRecords]
    <3>1. CASE Withdraw(i, FALSE) \/ DismissChallenge(i)
      BY <3>1, <2>1, EndType DEF Withdraw, DismissChallenge, TypeOK
    <3>2. CASE NotAProblem(i)
      <4> DEFINE status == IF challenges[i].status = "open" THEN "withdrawn" ELSE challenges[i].status
      <4>1. status \in {"open", "withdrawn", "fixed", "dismissed", "unraised"}
        BY <2>1 DEF ChallengeRecords
      <4>2. challenges' = [challenges EXCEPT ![i] = [challenges[i] EXCEPT !.cleared = TRUE, !.status = status]]
        BY <3>2, <2>1 DEF NotAProblem, TypeOK
      <4> HIDE DEF status
      <4>3. [challenges[i] EXCEPT !.cleared = TRUE, !.status = status] \in ChallengeRecords
        BY <4>1, <2>1, EndType
      <4> QED
        BY <4>2, <4>3 DEF TypeOK
    <3> QED
      BY <1>2, <3>1, <3>2
  <2>3. UNCHANGED <<deps, workVars, verification, foundFalse, seal, covered>>
    BY <1>2 DEF Withdraw, DismissChallenge, NotAProblem
  <2> QED
    BY <2>2, <2>3 DEF TypeOK, workVars
<1>3. ASSUME NEW n \in Nodes, VerifyNode(n)
      PROVE  TypeOK'
  <2>1. challenges' \in [Ids -> ChallengeRecords]
    BY <1>3, EndType DEF VerifyNode, TypeOK
  <2>2. verification' \in [Nodes -> SUBSET [deps : SUBSET Nodes, current : BOOLEAN]]
    BY <1>3 DEF VerifyNode, TypeOK
  <2>3. foundFalse' \in [Nodes -> SUBSET Nodes]
    BY <1>3 DEF VerifyNode, TypeOK
  <2>4. UNCHANGED <<deps, workVars, seal, covered>>
    BY <1>3 DEF VerifyNode
  <2> QED
    BY <2>1, <2>2, <2>3, <2>4 DEF TypeOK, workVars
<1>4. ASSUME NEW n \in Nodes, SealTrue(n) \/ SealFalse(n) \/ Unseal(n)
      PROVE  TypeOK'
  <2>1. RestsOn(deps, n) \subseteq Nodes
    BY DEF TypeOK, RestsOn
  <2>2. CASE SealTrue(n)
    BY <2>1, <2>2 DEF SealTrue, TypeOK, workVars
  <2>3. CASE SealFalse(n)
    <3>1. foundFalse' \in [Nodes -> SUBSET Nodes]
      BY <2>3 DEF SealFalse, TypeOK
    <3> QED
      BY <2>3, <3>1 DEF SealFalse, TypeOK, workVars
  <2>4. CASE Unseal(n)
    BY <2>4 DEF Unseal, TypeOK, workVars
  <2> QED
    BY <1>4, <2>2, <2>3, <2>4
<1> QED
  BY <1>1, <1>2, <1>3, <1>4 DEF ResearcherStep

\* The initial states are typed.
LEMMA TypeInit == Init => TypeOK
<1> SUFFICES ASSUME Init PROVE TypeOK
  OBVIOUS
<1>1. Unraised \in ChallengeRecords
  BY DEF Unraised, ChallengeRecords
<1> QED
  BY <1>1, DraftsAssumption DEF Init, TypeOK

\* Every record of the map keeps its type, for any nodes, drafts and Challenges.
THEOREM StatesTyped == Spec => []TypeOK
<1>1. TypeOK /\ [Next]_vars => TypeOK'
  <2>1. TypeOK /\ UNCHANGED vars => TypeOK'
    BY DEF TypeOK, vars, workVars
  <2> QED
    BY <2>1, AgentTypes, ClickTypes DEF Next
<1> QED
  BY <1>1, TypeInit, PTL DEF Spec
-----------------------------------------------------------------------------
(* What the order of the records never breaks.                             *)

\* An imported result rests on nothing.
ImportsUseNothing == \A n \in Imports \cap Nodes : deps[n] = {}

\* A node has one newest verification line, at most.
OneLine == \A n \in Nodes : \A old, new \in verification[n] : old = new

\* Only a true seal covers.
OnlyTrueCovers == \A n \in Nodes : covered[n] # {} => seal[n] = "sealed-true"

RecordsInv == TypeOK /\ ImportsUseNothing /\ OneLine /\ OnlyTrueCovers

LEMMA RecordsStep == RecordsInv /\ [Next]_vars => RecordsInv'
<1> SUFFICES ASSUME RecordsInv, [Next]_vars PROVE RecordsInv'
  OBVIOUS
<1>1. TypeOK'
  BY AgentTypes, ClickTypes DEF RecordsInv, Next, TypeOK, vars, workVars
<1>2. ImportsUseNothing'
  <2>1. \A n \in Imports \cap Nodes : deps'[n] \subseteq deps[n]
    <3>1. CASE \E n, d \in Nodes : AddDependency(n, d) \/ RemoveDependency(n, d)
      BY <3>1 DEF RecordsInv, TypeOK, AddDependency, RemoveDependency
    <3>2. CASE ~\E n, d \in Nodes : AddDependency(n, d) \/ RemoveDependency(n, d)
      <4>1. UNCHANGED deps
        BY <3>2 DEF Next, AgentStep, ResearcherStep, vars, workVars, EditFiles, RequestReview, PassVerdict,
           FailVerdict, OpenChallenge, Withdraw, DismissChallenge, NotAProblem, VerifyNode, SealTrue,
           SealFalse, Unseal
      <4> QED
        BY <4>1
    <3> QED
      BY <3>1, <3>2
  <2> QED
    BY <2>1 DEF RecordsInv, ImportsUseNothing
<1>3. OneLine'
  <2>1. CASE \E n \in Nodes : RequestReview(n)
    <3>1. PICK m \in Nodes : RequestReview(m)
      BY <2>1
    <3>2. verification' = [verification EXCEPT ![m] = {[line EXCEPT !.current = FALSE] : line \in verification[m]}]
      BY <3>1 DEF RequestReview
    <3>3. \A old, new \in verification'[m] : old = new
      <4>1. verification'[m] = {[line EXCEPT !.current = FALSE] : line \in verification[m]}
        BY <3>2 DEF RecordsInv, TypeOK
      <4>2. \A old, new \in verification[m] : old = new
        BY DEF RecordsInv, OneLine
      <4> QED
        BY <4>1, <4>2
    <3>4. \A n \in Nodes \ {m} : verification'[n] = verification[n]
      BY <3>2 DEF RecordsInv, TypeOK
    <3> QED
      BY <3>3, <3>4 DEF RecordsInv, OneLine
  <2>2. CASE \E n \in Nodes : VerifyNode(n)
    <3>1. PICK m \in Nodes : VerifyNode(m)
      BY <2>2
    <3>2. verification' = [verification EXCEPT ![m] = {[deps |-> pins[m], current |-> TRUE]}]
      BY <3>1 DEF VerifyNode
    <3>3. \A n \in Nodes \ {m} : verification'[n] = verification[n]
      BY <3>2 DEF RecordsInv, TypeOK
    <3>4. verification'[m] = {[deps |-> pins[m], current |-> TRUE]}
      BY <3>2 DEF RecordsInv, TypeOK
    <3>5. \A v, w \in verification'[m] : v = w
      BY <3>4
    <3> QED
      BY <3>3, <3>5 DEF RecordsInv, OneLine
  <2>3. CASE ~\E n \in Nodes : RequestReview(n) \/ VerifyNode(n)
    <3>1. UNCHANGED verification
      BY <2>3 DEF Next, AgentStep, ResearcherStep, vars, workVars, AddDependency, RemoveDependency, EditFiles,
         PassVerdict, FailVerdict, OpenChallenge, Withdraw, DismissChallenge, NotAProblem, SealTrue,
         SealFalse, Unseal
    <3> QED
      BY <3>1 DEF RecordsInv, OneLine
  <2> QED
    BY <2>1, <2>2, <2>3
<1>4. OnlyTrueCovers'
  <2>1. CASE \E n \in Nodes : SealTrue(n) \/ SealFalse(n) \/ Unseal(n)
    BY <2>1 DEF RecordsInv, TypeOK, OnlyTrueCovers, SealTrue, SealFalse, Unseal
  <2>2. CASE ~\E n \in Nodes : SealTrue(n) \/ SealFalse(n) \/ Unseal(n)
    <3>1. UNCHANGED <<seal, covered>>
      BY <2>2 DEF Next, AgentStep, ResearcherStep, vars, workVars, AddDependency, RemoveDependency, EditFiles,
         RequestReview, PassVerdict, FailVerdict, OpenChallenge, Withdraw, DismissChallenge, NotAProblem,
         VerifyNode
    <3> QED
      BY <3>1 DEF RecordsInv, OnlyTrueCovers
  <2> QED
    BY <2>1, <2>2
<1> QED
  BY <1>1, <1>2, <1>3, <1>4 DEF RecordsInv

LEMMA RecordsHold == Spec => []RecordsInv
<1>1. Init => RecordsInv
  BY TypeInit DEF Init, RecordsInv, ImportsUseNothing, OneLine, OnlyTrueCovers
<1> QED
  BY <1>1, RecordsStep, PTL DEF Spec

-----------------------------------------------------------------------------
(* Seals.                                                                  *)

\* No agent's step writes a seal line.
LEMMA AgentsWriteNoSeal == AgentStep => UNCHANGED <<seal, covered>>
BY DEF AgentStep, workVars, AddDependency, RemoveDependency, EditFiles, RequestReview, PassVerdict,
   FailVerdict, OpenChallenge, Withdraw

\* Whatever agents do to the edges, a node stays sealed, and a sealed node gets
\* no Challenge.
THEOREM SealsStand == Spec => SealStands
<1>1. ASSUME RecordsInv, AgentStep, NEW n \in Nodes
      PROVE  Seal(n)' = Seal(n)
  BY <1>1, AgentsWriteNoSeal DEF Seal, CoveredBy
<1>2. ASSUME RecordsInv, AgentStep, NEW n \in Nodes, Seal(n) # "unsealed"
      PROVE  OpenOn(n)' \subseteq OpenOn(n)
  <2>1. CASE \E i \in Ids, m \in Nodes : FailVerdict(m, i)
    BY <2>1, <1>2 DEF RecordsInv, TypeOK, FailVerdict, Raise, OpenOn, On
  <2>2. CASE \E i \in Ids, m \in Nodes, kind \in {"proof", "statement"}, c \in Nodes \cup {Nobody} :
               OpenChallenge(i, m, kind, c, TRUE)
    BY <2>2, <1>2 DEF RecordsInv, TypeOK, OpenChallenge, Raise, OpenOn, On
  <2>3. CASE \E m \in Nodes, audit \in BOOLEAN : PassVerdict(m, audit)
    BY <2>3 DEF RecordsInv, TypeOK, ChallengeRecords, PassVerdict, OpenOn, On
  <2>4. CASE \E i \in Ids : Withdraw(i, TRUE)
    BY <2>4 DEF RecordsInv, TypeOK, ChallengeRecords, Withdraw, OpenOn, On
  <2>5. CASE UNCHANGED challenges
    BY <2>5 DEF OpenOn, On
  <2> QED
    BY <1>2, <2>1, <2>2, <2>3, <2>4, <2>5 DEF AgentStep, AddDependency, RemoveDependency, EditFiles, RequestReview
<1>3. RecordsInv /\ [Next]_vars => [AgentStep => \A n \in Nodes :
        /\ Seal(n)' = Seal(n)
        /\ Seal(n) # "unsealed" => OpenOn(n)' \subseteq OpenOn(n)]_vars
  BY <1>1, <1>2
<1> QED
  BY <1>3, RecordsHold, PTL DEF Spec, SealStands

\* An unseal releases what the page listed, no more and no less.
THEOREM UnsealReleases == Spec => UnsealReleasesListed
<1>1. ASSUME RecordsInv, NEW n \in Nodes, Unseal(n)
      PROVE  {m \in Nodes : Seal(m) # "unsealed" /\ Seal(m)' = "unsealed"} = Releases(n)
  <2>1. \A m \in Nodes : CoveredBy(m)' = CoveredBy(m) \ {n}
    BY <1>1 DEF RecordsInv, TypeOK, Unseal, CoveredBy
  <2>2. seal' = [seal EXCEPT ![n] = "unsealed"] /\ seal[n] # "unsealed"
    BY <1>1 DEF Unseal
  <2>3. \A m \in Nodes : Seal(m)' = SealAfterUnseal(m, n)
    <3>1. ASSUME NEW m \in Nodes \ {n}
          PROVE  seal'[m] = seal[m]
      BY <1>1, <2>2 DEF RecordsInv, TypeOK
    <3>2. seal'[n] = "unsealed"
      BY <1>1, <2>2 DEF RecordsInv, TypeOK
    <3>3. ASSUME NEW m \in Nodes \ {n}
          PROVE  Seal(m)' = SealAfterUnseal(m, n)
      BY <3>1, <2>1, Zenon DEF Seal, SealAfterUnseal
    <3>4. Seal(n)' = SealAfterUnseal(n, n)
      BY <3>2, <2>1, Zenon DEF Seal, SealAfterUnseal
    <3> QED
      BY <3>3, <3>4
  <2>4. \A m \in covered[n] : m \in Nodes /\ n \in CoveredBy(m)
    <3>1. covered[n] \subseteq Nodes
      BY <1>1 DEF RecordsInv, TypeOK
    <3>2. covered[n] # {} => seal[n] = "sealed-true"
      BY <1>1 DEF RecordsInv, OnlyTrueCovers
    <3> QED
      BY <3>1, <3>2 DEF CoveredBy
  <2>5. \A m \in Nodes : m \in covered[n] <=> n \in CoveredBy(m)
    BY <2>4 DEF CoveredBy
  <2>6. \A m \in {n} \cup covered[n] : SealAfterUnseal(m, n) = "unsealed" => Seal(m) # "unsealed"
    BY <2>2, <2>4 DEF Seal, SealAfterUnseal
  <2>7. \A m \in Nodes : Seal(m) # "unsealed" /\ SealAfterUnseal(m, n) = "unsealed" => m \in {n} \cup covered[n]
    BY <2>5 DEF Seal, SealAfterUnseal
  <2> QED
    BY <2>3, <2>4, <2>6, <2>7 DEF Releases
<1>2. RecordsInv /\ [Next]_vars => [\A n \in Nodes : Unseal(n) =>
        {m \in Nodes : Seal(m) # "unsealed" /\ Seal(m)' = "unsealed"} = Releases(n)]_vars
  BY <1>1
<1> QED
  BY <1>2, RecordsHold, PTL DEF Spec, UnsealReleasesListed

-----------------------------------------------------------------------------
(* Verifications.                                                          *)

\* A step that leaves the verifications, and what they were made on, as they are.
LEMMA VerificationStays ==
  ASSUME NEW n \in Nodes, deps'[n] = deps[n], verification'[n] = verification[n], foundFalse'[n] = foundFalse[n]
  PROVE  Verified(n)' = Verified(n) /\ VerificationHolds(n)' = VerificationHolds(n)
BY DEF Verified, VerificationHolds

\* A Challenge keeps a verification lapsed while its record stays what it lapses by.
LEMMA LapsesStay ==
  ASSUME NEW n \in Nodes,
         \A i \in On(n) : /\ challenges'[i].status \notin {"unraised", "dismissed"}
                             \/ challenges'[i].status = challenges[i].status
                          /\ challenges'[i].target = n
                          /\ challenges'[i].byAgent = challenges[i].byAgent
                          /\ challenges'[i].after = challenges[i].after
                          /\ challenges'[i].cleared = challenges[i].cleared,
         VerificationHolds(n)' => VerificationHolds(n)
  PROVE  ExpertVerified(n)' => ExpertVerified(n)
<1>1. \A i \in On(n) : i \in On(n)' /\ (Lapses(i) => Lapses(i)')
  BY DEF On, Lapses
<1> QED
  BY <1>1 DEF ExpertVerified

\* An end of a Challenge that no click made leaves it lapsing what it lapsed.
LEMMA EndsRestoreNothing ==
  ASSUME RecordsInv, NEW n \in Nodes, NEW ended \in {"fixed", "withdrawn"},
         \A i \in Ids : challenges'[i] = challenges[i] \/ challenges'[i] = [challenges[i] EXCEPT !.status = ended],
         VerificationHolds(n)' => VerificationHolds(n)
  PROVE  ExpertVerified(n)' => ExpertVerified(n)
<1>1. \A i \in On(n) : challenges[i] \in ChallengeRecords /\ challenges[i].target = n
  BY DEF RecordsInv, TypeOK, On
<1>2. \A r \in ChallengeRecords : LET now == [r EXCEPT !.status = ended]
         IN  /\ now.status = ended /\ now.target = r.target /\ now.byAgent = r.byAgent
             /\ now.after = r.after /\ now.cleared = r.cleared
  BY DEF ChallengeRecords
<1>3. ASSUME NEW i \in On(n)
      PROVE  /\ challenges'[i].status \notin {"unraised", "dismissed"} \/ challenges'[i].status = challenges[i].status
             /\ challenges'[i].target = n
             /\ challenges'[i].byAgent = challenges[i].byAgent
             /\ challenges'[i].after = challenges[i].after
             /\ challenges'[i].cleared = challenges[i].cleared
  <2>1. CASE challenges'[i] = challenges[i]
    BY <2>1, <1>1
  <2>2. CASE challenges'[i] = [challenges[i] EXCEPT !.status = ended]
    BY <2>2, <1>1, <1>2
  <2>3. i \in Ids
    BY DEF On
  <2> QED
    BY <2>1, <2>2, <2>3
<1> QED
  BY <1>3, LapsesStay

\* Agents end Challenges, and raise new ones; no verification comes back by
\* that, on the dependencies it was made on.
LEMMA AgentsRestoreNothing ==
  ASSUME RecordsInv, AgentStep, NEW n \in Nodes, deps'[n] = deps[n]
  PROVE  ExpertVerified(n)' => ExpertVerified(n)
<1>1. CASE \E m, d \in Nodes : AddDependency(m, d) \/ RemoveDependency(m, d)
  <2>1. UNCHANGED <<verification, foundFalse, challenges>>
    BY <1>1 DEF AddDependency, RemoveDependency
  <2> QED
    BY <2>1, VerificationStays, LapsesStay DEF On
<1>2. CASE \E m \in Nodes, content \in Drafts : EditFiles(m, content)
  <2>1. UNCHANGED <<verification, foundFalse, challenges>>
    BY <1>2 DEF EditFiles
  <2> QED
    BY <2>1, VerificationStays, LapsesStay DEF On
<1>3. CASE \E m \in Nodes : RequestReview(m)
  <2>1. PICK m \in Nodes : RequestReview(m)
    BY <1>3
  <2>2. UNCHANGED <<foundFalse, challenges>>
    BY <2>1 DEF RequestReview
  <2>3. VerificationHolds(n)' => VerificationHolds(n)
    <3>1. CASE m = n
      <4>1. n \notin Imports
        BY <2>1, <3>1 DEF RequestReview
      <4>2. verification'[n] = {[line EXCEPT !.current = FALSE] : line \in verification[n]}
        BY <2>1, <3>1 DEF RequestReview, RecordsInv, TypeOK
      <4>3. \A line \in verification[n] : line \in [deps : SUBSET Nodes, current : BOOLEAN]
        BY DEF RecordsInv, TypeOK
      <4>4. \A line \in verification'[n] : line.current = FALSE
        BY <4>2, <4>3
      <4>5. [deps |-> deps'[n], current |-> TRUE] \notin verification'[n]
        BY <4>4
      <4> QED
        BY <4>1, <4>5 DEF VerificationHolds, Verified
    <3>2. CASE m # n
      <4>1. verification'[n] = verification[n]
        BY <2>1, <3>2 DEF RequestReview, RecordsInv, TypeOK
      <4> QED
        BY <4>1, <2>2, VerificationStays
    <3> QED
      BY <3>1, <3>2
  <2> QED
    BY <2>2, <2>3, LapsesStay DEF On
<1>4. CASE \E m \in Nodes, audit \in BOOLEAN : PassVerdict(m, audit)
  <2>1. UNCHANGED <<verification, foundFalse>>
    BY <1>4 DEF PassVerdict
  <2>2. \A i \in Ids : challenges'[i] = challenges[i] \/ challenges'[i] = [challenges[i] EXCEPT !.status = "fixed"]
    BY <1>4 DEF PassVerdict, RecordsInv, TypeOK
  <2> QED
    BY <2>1, <2>2, VerificationStays, EndsRestoreNothing
<1>5. CASE \E m \in Nodes, i \in Ids : FailVerdict(m, i)
  <2>1. UNCHANGED <<verification, foundFalse>>
    BY <1>5 DEF FailVerdict
  <2>2. \A i \in Ids : challenges[i].status # "unraised" => challenges'[i] = challenges[i]
    BY <1>5 DEF FailVerdict, Raise, RecordsInv, TypeOK
  <2> QED
    BY <2>1, <2>2, VerificationStays, LapsesStay DEF On
<1>6. CASE \E i \in Ids, m \in Nodes, kind \in {"proof", "statement"}, c \in Nodes \cup {Nobody} :
             OpenChallenge(i, m, kind, c, TRUE)
  <2>1. UNCHANGED <<verification, foundFalse>>
    BY <1>6 DEF OpenChallenge
  <2>2. \A i \in Ids : challenges[i].status # "unraised" => challenges'[i] = challenges[i]
    BY <1>6 DEF OpenChallenge, Raise, RecordsInv, TypeOK
  <2> QED
    BY <2>1, <2>2, VerificationStays, LapsesStay DEF On
<1>7. CASE \E i \in Ids : Withdraw(i, TRUE)
  <2>1. UNCHANGED <<verification, foundFalse>>
    BY <1>7 DEF Withdraw
  <2>2. \A i \in Ids : challenges'[i] = challenges[i] \/ challenges'[i] = [challenges[i] EXCEPT !.status = "withdrawn"]
    BY <1>7 DEF Withdraw, RecordsInv, TypeOK
  <2> QED
    BY <2>1, <2>2, VerificationStays, EndsRestoreNothing
<1> QED
  BY <1>1, <1>2, <1>3, <1>4, <1>5, <1>6, <1>7 DEF AgentStep

\* However agents end the Challenges they raised, a lapsed verification is
\* restored by a click only.
THEOREM OnlyClicksRestore == Spec => OnlyClicksVerify
<1>1. RecordsInv /\ [Next]_vars =>
        [AgentStep => \A n \in Nodes : ExpertVerified(n)' /\ ~ExpertVerified(n) => deps'[n] # deps[n]]_vars
  BY AgentsRestoreNothing
<1> QED
  BY <1>1, RecordsHold, PTL DEF Spec, OnlyClicksVerify

\* A void verification holds again only once the node is verified again.
LEMMA VoidStays ==
  ASSUME RecordsInv, Next, NEW n \in Nodes, Void(n), VerificationHolds(n)'
  PROVE  VerifyNode(n)
<1>1. Verified(n) /\ deps[n] \cap foundFalse[n] # {}
  BY DEF Void, VerificationHolds
<1>2. n \notin Imports
  BY <1>1 DEF RecordsInv, ImportsUseNothing
<1>3. [deps |-> deps[n], current |-> TRUE] \in verification[n]
  BY <1>1, <1>2 DEF Verified
<1>4. [deps |-> deps'[n], current |-> TRUE] \in verification'[n] /\ deps'[n] \cap foundFalse'[n] = {}
  BY <1>2 DEF VerificationHolds, Verified
<1>5. CASE \E m \in Nodes : RequestReview(m)
  <2>1. PICK m \in Nodes : RequestReview(m)
    BY <1>5
  <2>2. UNCHANGED <<deps, foundFalse>>
    BY <2>1 DEF RequestReview
  <2> QED
    BY <1>1, <1>4, <2>2
<1>6. CASE \E m \in Nodes : VerifyNode(m)
  <2>1. PICK m \in Nodes : VerifyNode(m)
    BY <1>6
  <2>2. CASE m # n
    <3>1. foundFalse'[n] = foundFalse[n] /\ deps' = deps
      BY <2>1, <2>2 DEF VerifyNode, RecordsInv, TypeOK
    <3> QED
      BY <1>1, <1>4, <3>1
  <2> QED
    BY <2>1, <2>2
<1>7. CASE \E m \in Nodes : SealFalse(m)
  <2>1. UNCHANGED deps /\ foundFalse[n] \subseteq foundFalse'[n]
    BY <1>7 DEF SealFalse, RecordsInv, TypeOK
  <2> QED
    BY <1>1, <1>4, <2>1
<1>8. CASE ~\E m \in Nodes : RequestReview(m) \/ VerifyNode(m) \/ SealFalse(m)
  <2>1. UNCHANGED <<verification, foundFalse>>
    BY <1>8 DEF Next, AgentStep, ResearcherStep, AddDependency, RemoveDependency, EditFiles,
       PassVerdict, FailVerdict, OpenChallenge, Withdraw, DismissChallenge, NotAProblem, SealTrue, Unseal
  <2>2. [deps |-> deps'[n], current |-> TRUE] = [deps |-> deps[n], current |-> TRUE]
    BY <1>3, <1>4, <2>1 DEF RecordsInv, OneLine
  <2>3. deps'[n] = deps[n]
    BY <2>2
  <2> QED
    BY <1>1, <1>4, <2>1, <2>3
<1> QED
  BY <1>5, <1>6, <1>7, <1>8

\* A verification on a dependency found false is void for good.
THEOREM VoidStaysVoid == Spec => VoidForGood
<1>1. RecordsInv /\ [Next]_vars => [\A n \in Nodes : Void(n) /\ VerificationHolds(n)' => VerifyNode(n)]_vars
  BY VoidStays
<1> QED
  BY <1>1, RecordsHold, PTL DEF Spec, VoidForGood

\* Sealing false voids the verifications the page lists, and only those of users.
THEOREM SealFalseVoids == Spec => SealFalseVoidsUsers
<1> DEFINE voided == {m \in Nodes : VerificationHolds(m) /\ ~VerificationHolds(m)'}
<1>1. ASSUME RecordsInv, NEW n \in Nodes, SealFalse(n)
      PROVE  VerifiedUsers(n) \subseteq voided /\ voided \subseteq DirectUsers(n)
  <2>1. \A m \in Nodes : Verified(m)' = Verified(m) /\ deps' = deps
    BY <1>1 DEF SealFalse, Verified
  <2>2. \A m \in Nodes : foundFalse'[m] = IF \E line \in verification[m] : n \in line.deps
                                          THEN foundFalse[m] \cup {n} ELSE foundFalse[m]
    BY <1>1 DEF SealFalse
  <2>3. ASSUME NEW m \in VerifiedUsers(n)
        PROVE  m \in voided
    <3>1. m \in Nodes /\ n \in deps[m] /\ ExpertVerified(m)
      BY DEF VerifiedUsers, DirectUsers, Proof, ProofLayer
    <3>2. VerificationHolds(m) /\ Verified(m)
      BY <3>1 DEF ExpertVerified, VerificationHolds
    <3>3. m \notin Imports
      BY <1>1, <3>1 DEF RecordsInv, ImportsUseNothing
    <3>4. \E line \in verification[m] : n \in line.deps
      BY <3>1, <3>2, <3>3 DEF Verified
    <3>5. n \in foundFalse'[m]
      BY <2>2, <3>1, <3>4
    <3> QED
      BY <2>1, <3>1, <3>2, <3>5 DEF VerificationHolds
  <2>4. ASSUME NEW m \in voided
        PROVE  m \in DirectUsers(n)
    <3>1. deps[m] \cap foundFalse[m] = {} /\ deps[m] \cap foundFalse'[m] # {}
      BY <2>1 DEF VerificationHolds
    <3> QED
      BY <2>2, <3>1 DEF DirectUsers
  <2> QED
    BY <2>3, <2>4
<1>2. RecordsInv /\ [Next]_vars => [\A n \in Nodes : SealFalse(n) =>
        LET voidedBy == {m \in Nodes : VerificationHolds(m) /\ ~VerificationHolds(m)'}
        IN  VerifiedUsers(n) \subseteq voidedBy /\ voidedBy \subseteq DirectUsers(n)]_vars
  BY <1>1
<1> QED
  BY <1>2, RecordsHold, PTL DEF Spec, SealFalseVoidsUsers
=============================================================================

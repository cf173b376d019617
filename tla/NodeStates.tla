----------------------------- MODULE NodeStates -----------------------------
(***************************************************************************)
(* The states of a node and its conclusion (ADR-0025; node_states.py, and  *)
(* the records it reads, proof_map.py).  Nothing is kept but the records:  *)
(* snapshots, Verdicts, Challenges, the researcher's verifications and     *)
(* seals.  The Seal, the Statement layer, the Proof layer and the          *)
(* conclusion of a node are read off them each time.                       *)
(*                                                                         *)
(* One action is one operation, checked and written on the write lock.     *)
(* A time is kept as what it is compared with: whether a Challenge was     *)
(* raised after the newest verification of its node, and which             *)
(* dependencies were found false after it.  Who holds a node, and the      *)
(* Acceptances and Reference reviews from before verifications, are        *)
(* ProofMap's; restatements are not modelled here.                         *)
(***************************************************************************)
EXTENDS MapGraph

CONSTANTS
  Nodes,     \* the nodes of the map, all created
  Imports,   \* those that are imported results
  Ids,       \* a bound: the Challenges that may be raised
  Nobody,    \* no node
  Drafts,    \* a bound: what the working files of a node may hold
  FirstDraft,
  Judged,    \* a bound: the nodes the agents check and the researcher verifies
  Sealable,  \* a bound: the nodes the researcher seals
  Doubted    \* a bound: the nodes that are challenged

ASSUME NodesAssumption == Imports \subseteq Nodes /\ Nobody \notin Nodes
ASSUME DraftsAssumption == FirstDraft \in Drafts

VARIABLES
  deps,          \* deps[n]: the node's dependencies
  draft,         \* draft[n]: its working files
  snapshot,      \* snapshot[n]: its current Review snapshot, none or one
  pins,          \* pins[n]: the targets of its dependency_pins rows
  check,         \* check[n]: its newest Verdict if that passed, none or one
  verification,  \* verification[n]: its newest verification line, none or one
  foundFalse,    \* foundFalse[n]: dependencies found false since that line
  challenges,    \* challenges[i]: the Challenge raised under id i
  seal,          \* seal[n]: its newest seal line
  covered        \* covered[n]: what its true seal covers, as recorded in the line

workVars == <<draft, snapshot, pins, check>>
vars == <<deps, workVars, verification, foundFalse, challenges, seal, covered>>

Version(n) == [deps |-> deps[n], draft |-> draft[n]]

Unraised == [status |-> "unraised", target |-> Nobody, kind |-> "proof", counterexample |-> Nobody,
             byAgent |-> FALSE, after |-> FALSE, cleared |-> FALSE]

Init ==
  /\ deps = [n \in Nodes |-> {}]
  /\ draft = [n \in Nodes |-> FirstDraft]
  /\ snapshot = [n \in Nodes |-> {}]
  /\ pins = [n \in Nodes |-> {}]
  /\ check = [n \in Nodes |-> {}]
  /\ verification = [n \in Nodes |-> {}]
  /\ foundFalse = [n \in Nodes |-> {}]
  /\ challenges = [i \in Ids |-> Unraised]
  /\ seal = [n \in Nodes |-> "unsealed"]
  /\ covered = [n \in Nodes |-> {}]

-----------------------------------------------------------------------------
(* Challenges.                                                             *)

On(n) == {i \in Ids : challenges[i].status # "unraised" /\ challenges[i].target = n}
OpenOn(n) == {i \in On(n) : challenges[i].status = "open"}
AgainstStatement(n) == {i \in OpenOn(n) : challenges[i].kind = "statement"}
AgainstProof(n) == OpenOn(n) \ AgainstStatement(n)

\* An agent's, against the statement, with its counterexample: worked from both sides.
TwoSided(i) ==
  /\ challenges[i].kind = "statement"
  /\ challenges[i].counterexample # Nobody
  /\ challenges[i].byAgent

\* What the counterexample of i must satisfy to decide it, its conclusion apart.
MayDecide(i) ==
  /\ challenges[i].status = "open" /\ challenges[i].kind = "statement"
  /\ challenges[i].counterexample # Nobody
  /\ AgainstStatement(challenges[i].counterexample) = {}
  /\ challenges[i].target \notin RestsOn(deps, challenges[i].counterexample)

-----------------------------------------------------------------------------
(* A node's own states.                                                    *)

CoveredByGraph(n) == {s \in Nodes \ {n} : seal[s] = "sealed-true" /\ n \in RestsOn(deps, s)}
CoveredBy(n) == {s \in Nodes : seal[s] = "sealed-true" /\ n \in covered[s]}

\* own_seal, and a true seal above where there is none of its own.
Seal(n) ==
  IF seal[n] = "unsealed" /\ CoveredBy(n) # {} THEN "sealed-true" ELSE seal[n]

\* The newest verification is of the version as it stands (researcher_verification_time).
Verified(n) ==
  IF n \in Imports THEN verification[n] # {}
  ELSE [deps |-> deps[n], current |-> TRUE] \in verification[n]

HoldsWhileSealed(n) == Verified(n) /\ \A d \in deps[n] : seal[d] # "sealed-false"

\* verification_holds: not void, whatever became of the seal that voided it.
VerificationHolds(n) == Verified(n) /\ deps[n] \cap foundFalse[n] = {}

LapsesWhileOpen(i) ==
  challenges[i].byAgent /\ challenges[i].after /\ challenges[i].status = "open"

\* lapses: an agent's, raised after the verification, not ended by a click.
Lapses(i) ==
  /\ challenges[i].byAgent /\ challenges[i].after
  /\ challenges[i].status # "dismissed" /\ ~challenges[i].cleared

ExpertVerified(n) == VerificationHolds(n) /\ \A i \in On(n) : ~Lapses(i)

\* has_passing_check: on the files as they stand, covering the dependencies it has.
PassingCheck(n) == Version(n) \in check[n]

\* The two layers, once decided are the Challenges on n whose counterexample decides.
StatementLayer(n, decided) ==
  IF AgainstStatement(n) = {} THEN "unchallenged"
  ELSE IF AgainstStatement(n) \cap decided # {} THEN "false" ELSE "challenged-as-false"

ProofLayer(n, decided) ==
  IF AgainstProof(n) # {} \/ \E i \in AgainstStatement(n) \ decided : TwoSided(i) THEN "incomplete"
  ELSE IF ExpertVerified(n) THEN "expert-verified"
  ELSE IF n \in Imports \/ PassingCheck(n) THEN "checks-passed" ELSE "incomplete"

-----------------------------------------------------------------------------
(* The conclusion.                                                         *)

Holding == {"true", "verified-true"}

Weakest(conclusions) ==
  IF conclusions \subseteq {"verified-true"} THEN "verified-true"
  ELSE IF conclusions \subseteq Holding THEN "true" ELSE "uncertain"

\* conclusion: a seal decides alone; else never above the weakest dependency.
Concluded(sealed, statement, proof, below) ==
  IF sealed = "sealed-true" THEN "verified-true"
  ELSE IF sealed = "sealed-false" \/ statement = "false" THEN "false"
  ELSE IF statement = "challenged-as-false" \/ proof = "incomplete" THEN "uncertain"
  ELSE Weakest(below \cup {IF proof = "expert-verified" THEN "verified-true" ELSE "true"})

\* Reading[D, n]: the conclusion of n, each Challenge of D read undecided, as
\* it is while its own decision is being read (counterexample_decides).
Reading ==
  LET reading[D \in SUBSET Ids, n \in Nodes] ==
        LET decided == {i \in AgainstStatement(n) \ D :
                          MayDecide(i) /\ reading[D \cup {i}, challenges[i].counterexample] \in Holding}
        IN  Concluded(Seal(n), StatementLayer(n, decided), ProofLayer(n, decided),
                      {reading[D, d] : d \in deps[n]})
  IN  reading

Decides(i) == MayDecide(i) /\ Reading[{i}, challenges[i].counterexample] \in Holding
Decided(n) == {i \in AgainstStatement(n) : Decides(i)}

Conclusion(n) == Reading[{}, n]
Proof(n) == ProofLayer(n, Decided(n))
Statement(n) == StatementLayer(n, Decided(n))

\* The sides of the Challenges on a statement, while all of them are two-sided.
Counterexamples(n) ==
  IF \A i \in AgainstStatement(n) : TwoSided(i)
  THEN {challenges[i].counterexample : i \in AgainstStatement(n)} ELSE {}

DirectUsers(n) == {m \in Nodes : n \in deps[m]}

\* What a challenged statement stops: everything under each direct user of it,
\* but its sides and what they rest on.
StoppedBy(n) ==
  IF Statement(n) # "challenged-as-false" THEN {}
  ELSE UNION {RestsOn(deps, u) : u \in DirectUsers(n)} \
       (IF Counterexamples(n) = {} THEN {}
        ELSE UNION {RestsOn(deps, side) : side \in {n} \cup Counterexamples(n)})

-----------------------------------------------------------------------------
(* What the page lists before a seal or an unseal (seal_preview).          *)

SealAfterUnsealAlone(n, unsealed) == IF n = unsealed THEN "unsealed" ELSE seal[n]

\* _seal_after_unseal: the Seal of n once the node unsealed is.
SealAfterUnseal(n, unsealed) ==
  IF n # unsealed /\ seal[n] # "unsealed" THEN seal[n]
  ELSE IF CoveredBy(n) \ {unsealed} # {} THEN "sealed-true" ELSE "unsealed"

Releases(n) == {m \in {n} \cup covered[n] : SealAfterUnseal(m, n) = "unsealed"}

VerifiedUsers(n) == {m \in DirectUsers(n) : Proof(m) = "expert-verified"}

-----------------------------------------------------------------------------
(* The agents' work.                                                       *)

AddDependency(n, d) ==
  /\ n \notin Imports
  /\ d \notin deps[n] /\ ~Reaches(deps, d, n)
  /\ deps' = [deps EXCEPT ![n] = @ \cup {d}]
  /\ UNCHANGED <<workVars, verification, foundFalse, challenges, seal, covered>>

RemoveDependency(n, d) ==
  /\ d \in deps[n]
  /\ deps' = [deps EXCEPT ![n] = @ \ {d}]
  /\ pins' = [pins EXCEPT ![n] = @ \ {d}]
  /\ UNCHANGED <<draft, snapshot, check, verification, foundFalse, challenges, seal, covered>>

EditFiles(n, content) ==
  /\ n \in Judged \ Imports
  /\ content # draft[n]
  /\ draft' = [draft EXCEPT ![n] = content]
  /\ UNCHANGED <<deps, snapshot, pins, check, verification, foundFalse, challenges, seal, covered>>

\* A new snapshot, unless nothing is new; a verification of the last one is of
\* that version only.
RequestReview(n) ==
  /\ n \in Judged \ Imports
  /\ Version(n) \notin snapshot[n]
  /\ snapshot' = [snapshot EXCEPT ![n] = {Version(n)}]
  /\ pins' = [pins EXCEPT ![n] = deps[n]]
  /\ verification' = [verification EXCEPT ![n] = {[line EXCEPT !.current = FALSE] : line \in @}]
  /\ UNCHANGED <<deps, draft, check, foundFalse, challenges, seal, covered>>

EndingsOfProofs(n) == AgainstProof(n)

\* _endings: what a passing Verdict must say it fixed.
Endings(n) == AgainstProof(n) \cup {i \in AgainstStatement(n) : TwoSided(i) /\ ~Decides(i)}

\* A passing Verdict on the files as they stand; an audit's ends nothing.
PassVerdict(n, audit) ==
  /\ n \in Judged \ Imports
  /\ check' = [check EXCEPT ![n] = {Version(n)}]
  /\ challenges' = IF audit THEN challenges
                   ELSE [i \in Ids |-> IF i \in Endings(n) THEN [challenges[i] EXCEPT !.status = "fixed"]
                                       ELSE challenges[i]]
  /\ UNCHANGED <<deps, draft, snapshot, pins, verification, foundFalse, seal, covered>>

RaiseUnkinded(i, n, kind, counterexample, byAgent) ==
  /\ challenges[i].status = "unraised"
  /\ Seal(n) = "unsealed"
  /\ challenges' = [challenges EXCEPT ![i] =
       [status |-> "open", target |-> n, kind |-> "", counterexample |-> counterexample,
        byAgent |-> byAgent, after |-> TRUE, cleared |-> FALSE]]

\* Every Challenge is written here: none reaches a sealed node.
Raise(i, n, kind, counterexample, byAgent) ==
  /\ challenges[i].status = "unraised"
  /\ Seal(n) = "unsealed"
  /\ challenges' = [challenges EXCEPT ![i] =
       [status |-> "open", target |-> n, kind |-> kind, counterexample |-> counterexample,
        byAgent |-> byAgent, after |-> TRUE, cleared |-> FALSE]]

\* A failed Verdict's objection is a Challenge against the proof.
FailVerdict(n, i) ==
  /\ n \in Judged \ Imports
  /\ Raise(i, n, "proof", Nobody, TRUE)
  /\ check' = [check EXCEPT ![n] = {}]
  /\ UNCHANGED <<deps, draft, snapshot, pins, verification, foundFalse, seal, covered>>

OpenChallenge(i, n, kind, counterexample, byAgent) ==
  /\ n \in Doubted
  /\ kind = "proof" => counterexample = Nobody
  /\ kind = "statement" /\ byAgent => counterexample # Nobody
  /\ Raise(i, n, kind, counterexample, byAgent)
  /\ counterexample # Nobody => n \notin RestsOn(deps, counterexample)
  /\ UNCHANGED <<deps, workVars, verification, foundFalse, seal, covered>>

\* Any agent withdraws any agent's; the researcher's is the researcher's.
Withdraw(i, byAgent) ==
  /\ challenges[i].status = "open"
  /\ byAgent => challenges[i].byAgent
  /\ challenges' = [challenges EXCEPT ![i].status = "withdrawn"]
  /\ UNCHANGED <<deps, workVars, verification, foundFalse, seal, covered>>

-----------------------------------------------------------------------------
(* The researcher's clicks.                                                *)

DismissChallenge(i) ==
  /\ challenges[i].status = "open"
  /\ challenges' = [challenges EXCEPT ![i].status = "dismissed"]
  /\ UNCHANGED <<deps, workVars, verification, foundFalse, seal, covered>>

\* restore_verification: the "not a problem" that restores a verification.
NotAProblem(i) ==
  /\ challenges[i].status # "unraised"
  /\ VerificationHolds(challenges[i].target)
  /\ Lapses(i)
  /\ challenges' = [challenges EXCEPT ![i].cleared = TRUE,
                                      ![i].status = IF @ = "open" THEN "withdrawn" ELSE @]
  /\ UNCHANGED <<deps, workVars, verification, foundFalse, seal, covered>>

\* It is of the version as it stands; of no Challenge, and no Challenge ends.
VerifyNode(n) ==
  /\ n \in Judged
  /\ n \notin Imports => \E version \in snapshot[n] : version.deps = deps[n]
  /\ verification' = [verification EXCEPT ![n] = {[deps |-> pins[n], current |-> TRUE]}]
  /\ foundFalse' = [foundFalse EXCEPT ![n] = {}]
  /\ challenges' = [i \in Ids |-> IF i \in On(n) THEN [challenges[i] EXCEPT !.after = FALSE] ELSE challenges[i]]
  /\ UNCHANGED <<deps, workVars, seal, covered>>

SealTrue(n) ==
  /\ n \in Sealable
  /\ seal' = [seal EXCEPT ![n] = "sealed-true"]
  /\ covered' = [covered EXCEPT ![n] = RestsOn(deps, n) \ {n}]
  /\ UNCHANGED <<deps, workVars, verification, foundFalse, challenges>>

SealFalseForNow(n) ==
  /\ n \in Sealable
  /\ seal' = [seal EXCEPT ![n] = "sealed-false"]
  /\ covered' = [covered EXCEPT ![n] = {}]
  /\ UNCHANGED <<deps, workVars, verification, foundFalse, challenges>>

\* False from now on, for every verification made on it.
SealFalse(n) ==
  /\ n \in Sealable
  /\ seal' = [seal EXCEPT ![n] = "sealed-false"]
  /\ covered' = [covered EXCEPT ![n] = {}]
  /\ foundFalse' = [m \in Nodes |-> IF \E line \in verification[m] : n \in line.deps
                                    THEN foundFalse[m] \cup {n} ELSE foundFalse[m]]
  /\ UNCHANGED <<deps, workVars, verification, challenges>>

Unseal(n) ==
  /\ seal[n] # "unsealed"
  /\ seal' = [seal EXCEPT ![n] = "unsealed"]
  /\ covered' = [covered EXCEPT ![n] = {}]
  /\ UNCHANGED <<deps, workVars, verification, foundFalse, challenges>>

-----------------------------------------------------------------------------
AgentStep ==
  \/ \E n, d \in Nodes : AddDependency(n, d) \/ RemoveDependency(n, d)
  \/ \E n \in Nodes, content \in Drafts : EditFiles(n, content)
  \/ \E n \in Nodes : RequestReview(n)
  \/ \E n \in Nodes, audit \in BOOLEAN : PassVerdict(n, audit)
  \/ \E n \in Nodes, i \in Ids : FailVerdict(n, i)
  \/ \E i \in Ids, n \in Nodes, kind \in {"proof", "statement"}, c \in Nodes \cup {Nobody} :
        OpenChallenge(i, n, kind, c, TRUE)
  \/ \E i \in Ids : Withdraw(i, TRUE)

ResearcherStep ==
  \/ \E i \in Ids, n \in Nodes, kind \in {"proof", "statement"}, c \in Nodes \cup {Nobody} :
        OpenChallenge(i, n, kind, c, FALSE)
  \/ \E i \in Ids : Withdraw(i, FALSE) \/ DismissChallenge(i) \/ NotAProblem(i)
  \/ \E n \in Nodes : VerifyNode(n) \/ SealTrue(n) \/ SealFalse(n) \/ Unseal(n)

Next == AgentStep \/ ResearcherStep

Spec == Init /\ [][Next]_vars
-----------------------------------------------------------------------------
(* Properties.                                                             *)

Versions == [deps : SUBSET Nodes, draft : Drafts]

ChallengeRecords ==
  [status : {"unraised", "open", "withdrawn", "fixed", "dismissed"}, target : Nodes \cup {Nobody},
   kind : {"proof", "statement"}, counterexample : Nodes \cup {Nobody},
   byAgent : BOOLEAN, after : BOOLEAN, cleared : BOOLEAN]

\* Every variable has its type.
TypeOK ==
  /\ deps \in [Nodes -> SUBSET Nodes]
  /\ draft \in [Nodes -> Drafts]
  /\ snapshot \in [Nodes -> SUBSET Versions]
  /\ pins \in [Nodes -> SUBSET Nodes]
  /\ check \in [Nodes -> SUBSET Versions]
  /\ verification \in [Nodes -> SUBSET [deps : SUBSET Nodes, current : BOOLEAN]]
  /\ foundFalse \in [Nodes -> SUBSET Nodes]
  /\ challenges \in [Ids -> ChallengeRecords]
  /\ seal \in [Nodes -> {"unsealed", "sealed-true", "sealed-false"}]
  /\ covered \in [Nodes -> SUBSET Nodes]

\* No agent moves a seal: whatever edges it adds or removes, a node stays sealed
\* by what sealed it, and is not challenged while it is (ADR-0025 point 14).
SealStands ==
  [][AgentStep => \A n \in Nodes :
       /\ Seal(n)' = Seal(n)
       /\ Seal(n) # "unsealed" => OpenOn(n)' \subseteq OpenOn(n)]_vars

\* A verification an agent's Challenge lapsed stays lapsed, however agents end
\* that Challenge; an agent's step brings a verification back only by giving the
\* node the dependencies it was verified on (ADR-0025 point 13).
OnlyClicksVerify ==
  [][AgentStep => \A n \in Nodes : ExpertVerified(n)' /\ ~ExpertVerified(n) => deps'[n] # deps[n]]_vars

Void(n) == Verified(n) /\ ~VerificationHolds(n)

\* A verification voided by a dependency found false is void for good: unsealing
\* the dependency restores nothing, only a new verification does (point 3).
VoidForGood == [][\A n \in Nodes : Void(n) /\ VerificationHolds(n)' => VerifyNode(n)]_vars

\* A passing Verdict leaves no objection undropped: what it did not have to end
\* does not keep the proof it passed incomplete (ENDINGS_REQUIRED).
PassedMeansChecked == [][\A n \in Nodes : PassVerdict(n, FALSE) => Proof(n)' # "incomplete"]_vars

\* What the page lists before an unseal is what the unseal releases, no more
\* and no less: a node sealed otherwise stays sealed (point 15).
UnsealReleasesListed ==
  [][\A n \in Nodes : Unseal(n) =>
       {m \in Nodes : Seal(m) # "unsealed" /\ Seal(m)' = "unsealed"} = Releases(n)]_vars

\* Sealing false voids the verifications the page lists, and none but those of
\* the nodes that use the sealed one directly: none further up (point 3).
SealFalseVoidsUsers ==
  [][\A n \in Nodes : SealFalse(n) =>
       LET voided == {m \in Nodes : VerificationHolds(m) /\ ~VerificationHolds(m)'}
       IN  VerifiedUsers(n) \subseteq voided /\ voided \subseteq DirectUsers(n)]_vars
=============================================================================

----------------------------- MODULE MCReadings ------------------------------
(***************************************************************************)
(* The records of a node (NodeStates) and what the records of the map are    *)
(* read as, each reading by a module of its own: the states of a node        *)
(* (ReadScope), what its dependencies make of it (MapReadings), trust by rule *)
(* (TrustRules) and the work log (WorkLog).  None reads what another works    *)
(* out, so one run checks them all: what a behaviour is about moves, and the   *)
(* others stay where they began.                                              *)
(***************************************************************************)
EXTENDS NodeStates, Naturals, TLC

CONSTANTS x, y, c, z, i1, i2, f1,          \* ReadScope
          i, l, m, t,                      \* MapReadings
                c1, c2, s1, r1, r2, p1, p2,      \* TrustRules
    n1, n2, t1, t2, t3, reader       \* WorkLog

VARIABLES
    about,                                              \* the reading
    rests, files, frozen, pinned, checked, verified,    \* ReadScope's records
    falseBelow, doubts, seals, covers, read,
    edges, standing, challenged, behind,                \* MapReadings
    cause, causeWalk, support, supportWalk,
    file, present, explicit, meets, noted, proc, excused,   \* TrustRules
    log, going                                          \* WorkLog

scopeVars == <<rests, files, frozen, pinned, checked, verified, falseBelow, doubts, seals, covers, read>>
mapVars   == <<edges, standing, challenged, behind, cause, causeWalk, support, supportWalk>>
trustVars == <<file, present, explicit, meets, noted, proc, excused>>
logVars   == <<log, going>>

\* A counterexample c resting on y, and the counterexample z of a Challenge on
\* y, resting on x.
ScopeNodes == {x, y, c, z}
Ends == {c, z}
Twice == {i1, i2}
OneDraft == {f1}
Crossed == {<<c, y>>, <<z, x>>}
Linked == {<<c, x>>, <<z, y>>}
Listed == <<x, y, c, z>>

Scope == INSTANCE ReadScope WITH
    Nodes <- ScopeNodes, Imports <- {}, Ids <- Twice, Nobody <- Nobody, Drafts <- OneDraft,
    FirstDraft <- f1, Judged <- {}, Sealable <- Ends, Doubted <- ScopeNodes,
    Edges <- Crossed, Against <- Linked, Order <- Listed,
    deps <- rests, draft <- files, snapshot <- frozen, pins <- pinned, check <- checked,
    verification <- verified, foundFalse <- falseBelow, challenges <- doubts, seal <- seals,
    covered <- covers

\* Two nodes t and m over a lemma l and an imported result i.
MapNodes == {i, l, m, t}
MapImports == {i}
Upper == {m, t}
MapEdges == {<<t, m>>, <<t, l>>, <<m, l>>, <<m, i>>}
MapStandings == i :> {"accepted", "passed", "rejected"} @@ l :> {"accepted", "passed", "returned"} @@
                m :> {"accepted", "passed"} @@ t :> {"open"}

Map == INSTANCE MapReadings WITH
    Nodes <- MapNodes, Imports <- MapImports, Asked <- Upper, deps <- edges, Edges <- MapEdges,
    Standings <- MapStandings

\* Two citations of one source, one created by an agent, and two rules.
Two == {p1, p2}
Cited == {c1, c2}
OfAgents == {c2}
OneSource == {s1}
CitedSource == [n \in Cited |-> s1]
TwoRules == {r1, r2}
EitherKind == {{"reviewed"}, {"bibliography"}}

Trust == INSTANCE TrustRules WITH
    Processes <- Two, Citations <- Cited, ByAgents <- OfAgents, Sources <- OneSource,
    SourceOf <- CitedSource, Names <- TwoRules, Later <- TwoRules, MaxLines <- 3,
    Conditions <- EitherKind

\* Two nodes and the Reader, every turn under one agent's name.
WorkNodes == {n1, n2}
ThreeTurns == {t1, t2, t3}
Worked == t1 :> n1 @@ t2 :> n2 @@ t3 :> reader
Roles == t1 :> "prover" @@ t2 :> "verifier" @@ t3 :> "reader"
OneName == [u \in ThreeTurns |-> "agent"]

Work == INSTANCE WorkLog WITH
    Nodes <- WorkNodes, Turns <- ThreeTurns, NodeOf <- Worked, RoleOf <- Roles,
    NameOf <- OneName, Reader <- reader, Researcher <- "human", MaxActs <- 1

(* Where the readings begin: one that is not the behaviour's own begins in  *)
(* one way only.                                                            *)
ReadingsInit ==
    /\ about \in {"records", "states", "map", "trust", "work"}
    /\ Init
    /\ Scope!ScopeInit
    /\ Work!Init
    /\ IF about = "trust" THEN Trust!Init
       ELSE Trust!Init /\ file = <<>> /\ meets = [s \in {s1} |-> {}]
    /\ IF about = "map" THEN Map!Init
       ELSE /\ edges = [n \in {i, l, m, t} |-> {}] /\ standing = [n \in {i, l, m, t} |-> "accepted"]
            /\ challenged = {} /\ behind = {} /\ Map!Fresh

ReadingsNext ==
    /\ UNCHANGED about
    /\ \/ /\ about = "records" /\ Next
          /\ UNCHANGED <<scopeVars, mapVars, trustVars, logVars>>
       \/ /\ about = "states" /\ Scope!ScopeNext
          /\ UNCHANGED <<vars, mapVars, trustVars, logVars>>
       \/ /\ about = "map" /\ Map!Next
          /\ UNCHANGED <<vars, scopeVars, trustVars, logVars>>
       \/ /\ about = "trust" /\ Trust!Next
          /\ UNCHANGED <<vars, scopeVars, mapVars, logVars>>
       \/ /\ about = "work" /\ Work!Next
          /\ UNCHANGED <<vars, scopeVars, mapVars, trustVars>>

ReadingsSpec == ReadingsInit /\ [][ReadingsNext]_<<about, vars, scopeVars, mapVars, trustVars, logVars>>

(* The processes and the rules of TrustRules are alike.                     *)
Alike == Permutations(Two) \cup Permutations(TwoRules)

(* No reading of a scope is too high, and the first is right (ReadScope).   *)
ScopesRight == [](about = "states" => Scope!NeverOverstated) /\ Scope!FreshReadingRight

(* The walks over the dependencies find what they are for, and the frontier *)
(* rests on settled and Provisional nodes (MapReadings); and a role in a      *)
(* node's work log is never guessed (WorkLog).                              *)
MapReadRight ==
    /\ about = "map" => Map!WalksRight /\ Map!FrontierGrounded
    /\ about = "work" => Work!RoleNeverGuessed

(* The page's impact of a rule is what the rule does, and the first time a  *)
(* citation meets a rule is noted (TrustRules).                             *)
RulesRight == [](about = "trust" => Trust!MatchesNoted) /\ Trust!ImpactTold
=============================================================================

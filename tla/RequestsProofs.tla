--------------------------- MODULE RequestsProofs ---------------------------
(***************************************************************************)
(* What Requests guarantees for every set of nodes and requesters and any  *)
(* number of events, whatever was read before the write lock and whatever  *)
(* was edited meanwhile.                                                   *)
(***************************************************************************)
EXTENDS Requests, TLAPS

Words == Nat \X Nat \X Nat \X SUBSET (Nodes \X Nat)

Verdicts  == [outcome : {"none", "passed", "failed"}, files : Nat, uses : SUBSET Nodes,
              at : Nat, audit : BOOLEAN, ofText : Nat]
Snapshots == [id : Nat, files : Nat, deps : SUBSET Nodes, gated : BOOLEAN]
Lines     == [at : Nat, snapshot : Nat, stored : Nat, text : Nat,
              pins : SUBSET (Nodes \X Nat), seen : Words \cup {<<>>}]
Reads     == [at : {"rest", "medium", "verifying", "reported", "review", "viewing", "clicked", "checking"},
              node : Nodes \cup {0}, deps : SUBSET Nodes, text : Nat, files : Nat,
              named : SUBSET Nat, gated : BOOLEAN, view : Words \cup {<<>>}]

NodesTyped ==
  /\ time \in Nat
  /\ deps \in [Nodes -> SUBSET Nodes]
  /\ text \in [Nodes -> Nat] /\ changed \in [Nodes -> Nat]
  /\ medium \in [Nodes -> {"latex", "computation"}] /\ files \in [Nodes -> Nat]

ReviewsTyped ==
  /\ verdict \in [Nodes -> Verdicts] /\ objections \in [Nodes -> SUBSET Nat]
  /\ snapshot \in [Nodes -> Snapshots] /\ stored \in [Nodes -> Nat]
  /\ pins \in [Nodes -> SUBSET (Nodes \X Nat)] /\ line \in [Nodes -> Lines]
  /\ fixed \in SUBSET Nodes
  /\ checks \in SUBSET [node : Nodes, bound : Nat, ranOn : Nat]

\* A request under way is about a node, and one that goes on from a page has
\* what the page showed.
RequestsTyped ==
  /\ request \in [Requesters -> Reads]
  /\ \A r \in Requesters :
       /\ ~Holds(r, "rest") => request[r].node \in Nodes
       /\ Holds(r, "viewing") \/ Holds(r, "clicked") => request[r].view \in Words

TypeOK == NodesTyped /\ ReviewsTyped /\ RequestsTyped

\* A verification line holds what the researcher was shown.
LinesAsShown ==
  \A n \in Nodes : line[n].at # 0 =>
    line[n].seen = <<line[n].snapshot, line[n].stored, line[n].text, line[n].pins>>

\* As long as an ordinary passing verdict is the newest, no objection is open.
NoneOpenAfterPassing ==
  \A n \in Nodes : verdict[n].outcome = "passed" /\ ~verdict[n].audit => objections[n] = {}

ChecksRan == \A c \in checks : c.bound = c.ranOn

RequestsInv == TypeOK /\ LinesAsShown /\ NoneOpenAfterPassing /\ ChecksRan
-----------------------------------------------------------------------------
(* Types.                                                                  *)

\* A request that is over, answered or given up, leaves nothing to go on from.
LEMMA DoneTyped ==
  ASSUME RequestsTyped, NEW r \in Requesters, Done(r)
  PROVE  RequestsTyped'
<1>1. Resting \in Reads
  BY DEF Resting, Reads
<1> QED
  BY <1>1 DEF RequestsTyped, Done, Holds, Resting

\* A request that read what it is about goes on from it.
LEMMA ReadTyped ==
  ASSUME RequestsTyped, NEW r \in Requesters, NEW q \in Reads, q.node \in Nodes,
         q.at \in {"viewing", "clicked"} => q.view \in Words,
         request' = [request EXCEPT ![r] = q]
  PROVE  RequestsTyped'
  BY DEF RequestsTyped, Holds

\* What a page shows of a node.
LEMMA BindingTyped ==
  ASSUME TypeOK, NEW n \in Nodes
  PROVE  Binding(n) \in Words
  BY DEF TypeOK, NodesTyped, ReviewsTyped, Binding, Words, Snapshots

\* Every edit of the map, and of the folders behind the store's back, is typed.
LEMMA EditTyped == TypeOK /\ EditStep => TypeOK'
<1> SUFFICES ASSUME TypeOK, EditStep PROVE TypeOK'
  OBVIOUS
<1> USE WorkedAssumption
<1>1. ASSUME NEW n \in Nodes, Restate(n) PROVE TypeOK'
  BY <1>1 DEF Restate, Tick, Now, TypeOK, NodesTyped, ReviewsTyped, RequestsTyped, reviewVars, Holds
<1>2. ASSUME NEW n \in Nodes, NEW d \in Nodes, AddDependency(n, d) PROVE TypeOK'
  BY <1>2 DEF AddDependency, Tick, TypeOK, NodesTyped, ReviewsTyped, RequestsTyped, reviewVars, Holds
<1>3. ASSUME NEW n \in Nodes, NEW d \in Nodes, RemoveDependency(n, d) PROVE TypeOK'
  <2>1. pins' \in [Nodes -> SUBSET (Nodes \X Nat)]
    BY <1>3 DEF RemoveDependency, TypeOK, ReviewsTyped
  <2> QED
    BY <1>3, <2>1 DEF RemoveDependency, Tick, TypeOK, NodesTyped, ReviewsTyped, RequestsTyped, Holds
<1>4. ASSUME NEW n \in Worked, EditFiles(n) PROVE TypeOK'
  BY <1>4 DEF EditFiles, Tick, Now, TypeOK, NodesTyped, ReviewsTyped, RequestsTyped, reviewVars, Holds
<1>5. ASSUME NEW n \in Worked, EditSnapshot(n) PROVE TypeOK'
  BY <1>5 DEF EditSnapshot, Tick, Now, TypeOK, NodesTyped, ReviewsTyped, RequestsTyped, nodeVars, Holds
<1>6. ASSUME NEW n \in Worked, NEW o \in objections[n], Withdraw(n, o) PROVE TypeOK'
  BY <1>6 DEF Withdraw, TypeOK, NodesTyped, ReviewsTyped, RequestsTyped, nodeVars, Holds
<1> QED
  BY <1>1, <1>2, <1>3, <1>4, <1>5, <1>6 DEF EditStep

\* So is every step of a request, which goes on from what it read.
LEMMA RequestTyped == ASSUME TypeOK, NEW r \in Requesters, RequestStep(r) PROVE TypeOK'
<1> USE WorkedAssumption, MediaAssumption
<1> DEFINE n == request[r].node
<1>1. request[r] \in Reads /\ (~Holds(r, "rest") => n \in Nodes)
  BY DEF TypeOK, RequestsTyped
<1>2. ASSUME NEW m \in Worked, MediumRead(r, m) PROVE TypeOK'
  <2>1. [Resting EXCEPT !.at = "medium", !.node = m, !.deps = deps[m], !.text = text[m]] \in Reads
    BY DEF Resting, Reads, TypeOK, NodesTyped
  <2>2. RequestsTyped'
    BY <1>2, <2>1, ReadTyped DEF MediumRead, TypeOK, Resting
  <2> QED
    BY <1>2, <2>2 DEF MediumRead, TypeOK, NodesTyped, ReviewsTyped, nodeVars, reviewVars
<1>3. ASSUME SetMedium(r) PROVE TypeOK'
  <2>1. RequestsTyped'
    BY <1>3, DoneTyped DEF SetMedium, TypeOK
  <2>2. n \in Nodes /\ request[r].deps \in SUBSET Nodes /\ request[r].text \in Nat
    BY <1>1, <1>3 DEF SetMedium, Holds, Reads
  <2>3. NodesTyped'
    BY <1>3, <2>2 DEF SetMedium, Tick, TypeOK, NodesTyped
  <2> QED
    BY <1>3, <2>1, <2>3 DEF SetMedium, TypeOK, ReviewsTyped, reviewVars
<1>4. ASSUME NEW m \in Worked, VerifierReads(r, m) PROVE TypeOK'
  <2>1. [Resting EXCEPT !.at = "verifying", !.node = m, !.text = text[m], !.named = objections[m]] \in Reads
    BY DEF Resting, Reads, TypeOK, NodesTyped, ReviewsTyped
  <2>2. RequestsTyped'
    BY <1>4, <2>1, ReadTyped DEF VerifierReads, TypeOK, Resting
  <2> QED
    BY <1>4, <2>2 DEF VerifierReads, TypeOK, NodesTyped, ReviewsTyped, nodeVars, reviewVars
<1>5. ASSUME ReportVerdict(r) PROVE TypeOK'
  <2>1. n \in Nodes /\ files[n] \in Nat /\ deps[n] \in SUBSET Nodes
    BY <1>1, <1>5 DEF ReportVerdict, Holds, TypeOK, NodesTyped
  <2> DEFINE q == [request[r] EXCEPT !.at = "reported", !.files = files[n], !.deps = deps[n]]
  <2>2. q \in Reads /\ q.node \in Nodes /\ q.at = "reported"
    BY <1>1, <2>1 DEF Reads
  <2>3. request' = [request EXCEPT ![r] = q]
    BY <1>1, <1>5 DEF ReportVerdict, TypeOK, RequestsTyped, Reads
  <2>4. RequestsTyped'
    BY <2>2, <2>3, ReadTyped DEF TypeOK
  <2> QED
    BY <1>5, <2>4 DEF ReportVerdict, TypeOK, NodesTyped, ReviewsTyped, nodeVars, reviewVars
<1>6. ASSUME NEW outcome \in {"passed", "failed"}, NEW audit \in BOOLEAN, RecordVerdict(r, outcome, audit)
      PROVE  TypeOK'
  <2>1. RequestsTyped'
    BY <1>6, DoneTyped DEF RecordVerdict, TypeOK
  <2>2. n \in Nodes /\ Now \in Nat /\ time' \in Nat
    BY <1>1, <1>6 DEF RecordVerdict, Holds, Now, Tick, TypeOK, NodesTyped
  <2>3. verdict' \in [Nodes -> Verdicts]
    BY <1>1, <1>6, <2>2 DEF RecordVerdict, TypeOK, ReviewsTyped, Reads, Verdicts
  <2>4. objections' \in [Nodes -> SUBSET Nat]
    BY <1>6, <2>2 DEF RecordVerdict, TypeOK, ReviewsTyped
  <2> QED
    BY <1>6, <2>1, <2>2, <2>3, <2>4 DEF RecordVerdict, TypeOK, NodesTyped, ReviewsTyped, nodeVars
<1>7. ASSUME NEW m \in Worked, NEW gated \in BOOLEAN, ReviewRead(r, m, gated) PROVE TypeOK'
  <2>1. [Resting EXCEPT !.at = "review", !.node = m, !.deps = deps[m], !.files = files[m], !.gated = gated] \in Reads
    BY DEF Resting, Reads, TypeOK, NodesTyped
  <2>2. RequestsTyped'
    BY <1>7, <2>1, ReadTyped DEF ReviewRead, TypeOK, Resting
  <2> QED
    BY <1>7, <2>2 DEF ReviewRead, TypeOK, NodesTyped, ReviewsTyped, nodeVars, reviewVars
<1>8. ASSUME RequestReview(r) PROVE TypeOK'
  <2>1. RequestsTyped'
    BY <1>8, DoneTyped DEF RequestReview, TypeOK
  <2>2. n \in Nodes /\ Now \in Nat /\ time' \in Nat
    BY <1>1, <1>8 DEF RequestReview, Holds, Now, Tick, TypeOK, NodesTyped
  <2>3. snapshot' \in [Nodes -> Snapshots] /\ stored' \in [Nodes -> Nat]
    BY <1>1, <1>8, <2>2 DEF RequestReview, TypeOK, NodesTyped, ReviewsTyped, Reads, Snapshots
  <2>4. pins' \in [Nodes -> SUBSET (Nodes \X Nat)]
    BY <1>8, <2>2 DEF RequestReview, TypeOK, NodesTyped, ReviewsTyped
  <2>5. checks' \in SUBSET [node : Nodes, bound : Nat, ranOn : Nat]
    BY <1>8 DEF RequestReview, TypeOK, ReviewsTyped
  <2> QED
    BY <1>8, <2>1, <2>2, <2>3, <2>4, <2>5 DEF RequestReview, TypeOK, NodesTyped, ReviewsTyped, nodeVars
<1>9. ASSUME NEW m \in Worked, View(r, m) PROVE TypeOK'
  <2>1. m \in Nodes /\ Binding(m) \in Words
    BY BindingTyped
  <2>2. [Resting EXCEPT !.at = "viewing", !.node = m, !.view = Binding(m)] \in Reads
    BY <2>1 DEF Resting, Reads
  <2>3. RequestsTyped'
    BY <1>9, <2>1, <2>2, ReadTyped DEF View, TypeOK, Resting
  <2> QED
    BY <1>9, <2>3 DEF View, TypeOK, NodesTyped, ReviewsTyped, nodeVars, reviewVars
<1>10. ASSUME VerifyChecks(r) PROVE TypeOK'
  <2>1. RequestsTyped'
    BY <1>1, <1>10 DEF VerifyChecks, TypeOK, RequestsTyped, Holds, Reads
  <2> QED
    BY <1>10, <2>1 DEF VerifyChecks, TypeOK, NodesTyped, ReviewsTyped, nodeVars, reviewVars
<1>11. ASSUME Verify(r) PROVE TypeOK'
  <2>1. RequestsTyped'
    BY <1>11, DoneTyped DEF Verify, TypeOK
  <2>2. n \in Nodes /\ Now \in Nat /\ time' \in Nat
    BY <1>1, <1>11 DEF Verify, Holds, Now, Tick, TypeOK, NodesTyped
  <2>3. line' \in [Nodes -> Lines]
    BY <1>1, <1>11, <2>2 DEF Verify, TypeOK, NodesTyped, ReviewsTyped, RequestsTyped, Reads, Lines, Snapshots, Holds
  <2>4. fixed' \in SUBSET Nodes
    BY <1>11 DEF Verify, TypeOK, ReviewsTyped, Relied, RestsOn, SnapshotDeps
  <2> QED
    BY <1>11, <2>1, <2>2, <2>3, <2>4 DEF Verify, TypeOK, NodesTyped, ReviewsTyped, nodeVars
<1>12. ASSUME NEW m \in Worked, CheckerRuns(r, m) PROVE TypeOK'
  <2>1. [Resting EXCEPT !.at = "checking", !.node = m, !.text = snapshot[m].id, !.files = stored[m]] \in Reads
    BY DEF Resting, Reads, TypeOK, ReviewsTyped, Snapshots
  <2>2. RequestsTyped'
    BY <1>12, <2>1, ReadTyped DEF CheckerRuns, TypeOK, Resting
  <2> QED
    BY <1>12, <2>2 DEF CheckerRuns, TypeOK, NodesTyped, ReviewsTyped, nodeVars, reviewVars
<1>13. ASSUME RecordEvidenceCheck(r) PROVE TypeOK'
  <2>1. RequestsTyped'
    BY <1>13, DoneTyped DEF RecordEvidenceCheck, TypeOK
  <2>2. n \in Nodes /\ request[r].files \in Nat /\ time' \in Nat
    BY <1>1, <1>13 DEF RecordEvidenceCheck, Holds, Tick, Reads, TypeOK, NodesTyped
  <2>3. checks' \in SUBSET [node : Nodes, bound : Nat, ranOn : Nat]
    BY <1>13, <2>2 DEF RecordEvidenceCheck, TypeOK, ReviewsTyped
  <2> QED
    BY <1>13, <2>1, <2>2, <2>3 DEF RecordEvidenceCheck, TypeOK, NodesTyped, ReviewsTyped, nodeVars
<1>14. ASSUME GiveUp(r) PROVE TypeOK'
  <2>1. RequestsTyped'
    BY <1>14, DoneTyped DEF GiveUp, TypeOK
  <2> QED
    BY <1>14, <2>1 DEF GiveUp, TypeOK, NodesTyped, ReviewsTyped, nodeVars, reviewVars
<1> QED
  BY <1>2, <1>3, <1>4, <1>5, <1>6, <1>7, <1>8, <1>9, <1>10, <1>11, <1>12, <1>13, <1>14 DEF RequestStep

\* Every value keeps its type, for any nodes, requesters and events.
LEMMA TypeStep == TypeOK /\ [Next]_vars => TypeOK'
<1>1. ASSUME TypeOK, UNCHANGED vars PROVE TypeOK'
  BY <1>1 DEF vars, nodeVars, reviewVars, TypeOK, NodesTyped, ReviewsTyped, RequestsTyped, Holds
<1> QED
  BY <1>1, EditTyped, RequestTyped DEF Next

THEOREM RequestsWellTyped == Spec => []TypeOK
<1>1. Init => TypeOK
  <2> SUFFICES ASSUME Init PROVE TypeOK
    OBVIOUS
  <2>1. NodesTyped
    BY DEF Init, NodesTyped
  <2>2. ReviewsTyped
    BY DEF Init, ReviewsTyped, NoVerdict, NoSnapshot, NoLine, Verdicts, Snapshots, Lines
  <2>3. Resting \in Reads /\ Resting.at = "rest"
    BY DEF Resting, Reads
  <2> QED
    BY <2>1, <2>2, <2>3 DEF Init, RequestsTyped, Holds, TypeOK
<1> QED
  BY <1>1, TypeStep, PTL DEF Spec

-----------------------------------------------------------------------------
(* Who writes what.                                                        *)

\* Only the researcher's verification writes a verification line, only a Review
\* request a snapshot, only a verdict the newest verdict and new objections, and
\* only a recorded check a check.
LEMMA WritersOf ==
  ASSUME [Next]_vars
  PROVE  /\ line' = line \/ \E r \in Requesters : Verify(r)
         /\ snapshot' = snapshot \/ \E r \in Requesters : RequestReview(r)
         /\ \/ verdict' = verdict /\ objections' = objections
            \/ \E n \in Worked : \E o \in objections[n] : Withdraw(n, o)
            \/ \E r \in Requesters, outcome \in {"passed", "failed"}, audit \in BOOLEAN :
                 RecordVerdict(r, outcome, audit)
         /\ checks' \subseteq checks \/ \E r \in Requesters : RecordEvidenceCheck(r)
<1>1. ASSUME EditStep
      PROVE  /\ UNCHANGED <<line, snapshot, verdict, checks>>
             /\ objections' = objections \/ \E n \in Worked : \E o \in objections[n] : Withdraw(n, o)
  BY <1>1 DEF EditStep, Restate, AddDependency, RemoveDependency, EditFiles, EditSnapshot, Withdraw, nodeVars, reviewVars
<1>3. ASSUME NEW r \in Requesters, RequestStep(r)
      PROVE  \/ UNCHANGED reviewVars
             \/ \E outcome \in {"passed", "failed"}, audit \in BOOLEAN : RecordVerdict(r, outcome, audit)
             \/ RequestReview(r) \/ Verify(r) \/ RecordEvidenceCheck(r)
  BY <1>3 DEF RequestStep, MediumRead, SetMedium, VerifierReads, ReportVerdict, ReviewRead, View, VerifyChecks, CheckerRuns, GiveUp
<1>4. ASSUME NEW r \in Requesters, NEW outcome, NEW audit, RecordVerdict(r, outcome, audit)
      PROVE  UNCHANGED <<line, snapshot, checks>>
  BY <1>4 DEF RecordVerdict
<1>5. ASSUME NEW r \in Requesters, RequestReview(r) PROVE UNCHANGED <<line, verdict, objections>> /\ checks' \subseteq checks
  BY <1>5 DEF RequestReview
<1>6. ASSUME NEW r \in Requesters, Verify(r) PROVE UNCHANGED <<snapshot, verdict, objections, checks>>
  BY <1>6 DEF Verify
<1>7. ASSUME NEW r \in Requesters, RecordEvidenceCheck(r) PROVE UNCHANGED <<line, snapshot, verdict, objections>>
  BY <1>7 DEF RecordEvidenceCheck
<1>8. ASSUME UNCHANGED vars PROVE UNCHANGED reviewVars
  BY <1>8 DEF vars
<1>9. CASE UNCHANGED reviewVars
  BY <1>9 DEF reviewVars
<1> QED
  BY <1>1, <1>3, <1>4, <1>5, <1>6, <1>7, <1>8, <1>9 DEF Next

-----------------------------------------------------------------------------
(* What holds of every state.                                              *)

\* A verification is written on the lock, after the binding was found to be the
\* one shown (_decide).
LEMMA LinesStep == TypeOK /\ LinesAsShown /\ [Next]_vars => LinesAsShown'
<1> SUFFICES ASSUME TypeOK, LinesAsShown, [Next]_vars PROVE LinesAsShown'
  OBVIOUS
<1>1. CASE line' = line
  BY <1>1 DEF LinesAsShown
<1>2. ASSUME NEW r \in Requesters, Verify(r) PROVE LinesAsShown'
  <2> DEFINE n == request[r].node
  <2>1. line' = [line EXCEPT ![n] = [at |-> Now, snapshot |-> snapshot[n].id, stored |-> stored[n],
                                     text |-> text[n], pins |-> pins[n], seen |-> Binding(n)]]
    BY <1>2 DEF Verify, AsViewed
  <2> QED
    BY <2>1 DEF LinesAsShown, Binding, TypeOK, ReviewsTyped
<1> QED
  BY <1>1, <1>2, WritersOf

\* A passing verdict is recorded with the objections open on the lock those it
\* answers (_endings).
LEMMA ObjectionsStep == TypeOK /\ NoneOpenAfterPassing /\ [Next]_vars => NoneOpenAfterPassing'
<1> SUFFICES ASSUME TypeOK, NoneOpenAfterPassing, [Next]_vars PROVE NoneOpenAfterPassing'
  OBVIOUS
<1>1. CASE verdict' = verdict /\ objections' = objections
  BY <1>1 DEF NoneOpenAfterPassing
<1>2. ASSUME NEW n \in Worked, NEW o \in objections[n], Withdraw(n, o) PROVE NoneOpenAfterPassing'
  BY <1>2, WorkedAssumption DEF Withdraw, NoneOpenAfterPassing, TypeOK, ReviewsTyped
<1>3. ASSUME NEW r \in Requesters, NEW outcome \in {"passed", "failed"}, NEW audit \in BOOLEAN,
             RecordVerdict(r, outcome, audit)
      PROVE  NoneOpenAfterPassing'
  <2> DEFINE n == request[r].node
  <2>1. n \in Nodes
    BY <1>3 DEF RecordVerdict, Holds, TypeOK, RequestsTyped
  <2>2. /\ \A m \in Nodes \ {n} : verdict'[m] = verdict[m] /\ objections'[m] = objections[m]
        /\ verdict'[n].outcome = outcome /\ verdict'[n].audit = audit
        /\ outcome = "passed" /\ ~audit => objections'[n] = objections[n] \ request[r].named
    BY <1>3, <2>1 DEF RecordVerdict, TypeOK, ReviewsTyped
  <2>3. outcome = "passed" /\ ~audit => objections'[n] = {}
    BY <1>3, <2>2 DEF RecordVerdict, Endings
  <2> QED
    BY <2>2, <2>3 DEF NoneOpenAfterPassing
<1> QED
  BY <1>1, <1>2, <1>3, WritersOf

\* A check is recorded with the hash it ran on, which is the snapshot's on the lock
\* (record_evidence_check).
LEMMA ChecksStep == TypeOK /\ ChecksRan /\ [Next]_vars => ChecksRan'
<1> SUFFICES ASSUME TypeOK, ChecksRan, [Next]_vars PROVE ChecksRan'
  OBVIOUS
<1>1. ASSUME NEW r \in Requesters, RecordEvidenceCheck(r) PROVE ChecksRan'
  BY <1>1 DEF RecordEvidenceCheck, RanOnThis, ChecksRan
<1> QED
  BY <1>1, WritersOf DEF ChecksRan

LEMMA RequestsInvariant == Spec => []RequestsInv
<1>1. Init => LinesAsShown /\ NoneOpenAfterPassing /\ ChecksRan
  BY DEF Init, LinesAsShown, NoneOpenAfterPassing, ChecksRan, NoLine, NoVerdict
<1>2. TypeOK /\ RequestsInv /\ [Next]_vars => (LinesAsShown /\ NoneOpenAfterPassing /\ ChecksRan)'
  BY LinesStep, ObjectionsStep, ChecksStep DEF RequestsInv
<1> QED
  BY <1>1, <1>2, RequestsWellTyped, PTL DEF Spec, RequestsInv

\* Whatever was edited between the page and the click, a verification that counts
\* is of what the researcher was shown.
THEOREM CountsAsShown == Spec => []CountedAsShown
<1>1. RequestsInv => CountedAsShown
  BY DEF RequestsInv, LinesAsShown, CountedAsShown, Counts
<1> QED
  BY <1>1, RequestsInvariant, PTL

\* However verdicts, objections and withdrawals interleave, an ordinary passing
\* verdict answers every objection raised before it.
THEOREM PassingAnswersAll == Spec => []PassedAnswersAll
<1>1. RequestsInv => PassedAnswersAll
  BY DEF RequestsInv, NoneOpenAfterPassing, PassedAnswersAll
<1> QED
  BY <1>1, RequestsInvariant, PTL

\* An Evidence check that reads as matching its snapshot ran on what it holds now.
THEOREM MatchingChecksStand == Spec => []MatchingChecksRan
<1>1. RequestsInv => MatchingChecksRan
  BY DEF RequestsInv, ChecksRan, MatchingChecksRan
<1> QED
  BY <1>1, RequestsInvariant, PTL

\* A snapshot a gated request freezes holds the files its newest verdict passed,
\* whatever was recorded or edited while the request waited for the lock.
THEOREM GateStands == Spec => GatedFreezesWhatPassed
<1>1. TypeOK /\ [Next]_vars =>
        [\A n \in Nodes : snapshot'[n].id # snapshot[n].id /\ snapshot'[n].gated =>
           verdict[n].outcome = "passed" /\ verdict[n].files = stored'[n] /\ ~Stale(n)]_vars
  <2> SUFFICES ASSUME TypeOK, [Next]_vars, NEW n \in Nodes,
                      snapshot'[n].id # snapshot[n].id, snapshot'[n].gated
               PROVE  verdict[n].outcome = "passed" /\ verdict[n].files = stored'[n] /\ ~Stale(n)
    OBVIOUS
  <2>1. PICK r \in Requesters : RequestReview(r)
    BY WritersOf
  <2>2. n = request[r].node /\ request[r].gated /\ stored'[n] = request[r].files
    BY <2>1 DEF RequestReview, TypeOK, ReviewsTyped
  <2> QED
    BY <2>1, <2>2 DEF RequestReview, GateHolds
<1> QED
  BY <1>1, RequestsWellTyped, PTL DEF Spec, GatedFreezesWhatPassed
=============================================================================

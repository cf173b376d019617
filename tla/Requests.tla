------------------------------ MODULE Requests ------------------------------
(***************************************************************************)
(* What a service of the proof map reads before it takes the write lock,   *)
(* and what a page or an agent read before it asked (proof_map.py): the    *)
(* Verifier's verdict, a Review request gated by it, the researcher's      *)
(* verification, an Evidence check and set_medium, against the edits that  *)
(* restate a node, change its edges or rewrite its files meanwhile.        *)
(*                                                                         *)
(* Time is the number of events recorded; a text, a snapshot, a verdict is *)
(* named by the event that made it.  A file's bytes, and their digest, are *)
(* a version number.                                                       *)
(***************************************************************************)
EXTENDS Naturals, FiniteSets, TLC, MapGraph

CONSTANTS
  Nodes,
  Worked,      \* a bound: the nodes requests are about
  Requesters,  \* the requests under way at once
  Media,       \* "latex", "computation"
  Ops,         \* the operations the instance has
  MaxTime      \* a bound: the events recorded in all

ASSUME WorkedAssumption == Worked \subseteq Nodes
ASSUME MediaAssumption == Media \subseteq {"latex", "computation"}

\* No request differs from another but in what it does.
Symmetry == Permutations(Requesters)

VARIABLES
  time,       \* the events recorded
  deps,       \* deps[n]: the node's dependencies
  text,       \* text[n]: what the node says: the event that said it
  changed,    \* changed[n]: its newest restatement
  medium,     \* medium[n]
  files,      \* files[n]: the working files
  verdict,    \* verdict[n]: the newest verdict
  objections, \* objections[n]: the open proof Challenges verdicts raised
  snapshot,   \* snapshot[n]: the newest Review snapshot
  stored,     \* stored[n]: what its folder holds now
  pins,       \* pins[n]: <<dependency, what it said>> for each pin
  line,       \* line[n]: the newest verification line
  fixed,      \* the nodes whose text some decision relied on
  checks,     \* the Evidence checks on newest snapshots
  request     \* request[r]: what requester r read, and how far it is

nodeVars == <<deps, text, changed, medium, files>>
reviewVars == <<verdict, objections, snapshot, stored, pins, line, fixed, checks>>
vars == <<time, nodeVars, reviewVars, request>>

Times == 0 .. MaxTime
NoVerdict == [outcome |-> "none", files |-> 0, uses |-> {}, at |-> 0, audit |-> FALSE, ofText |-> 0]
NoSnapshot == [id |-> 0, files |-> 0, deps |-> {}, gated |-> FALSE]
NoLine == [at |-> 0, snapshot |-> 0, stored |-> 0, text |-> 0, pins |-> {}, seen |-> <<>>]
Resting == [at |-> "rest", node |-> 0, deps |-> {}, text |-> 0, files |-> 0, named |-> {}, gated |-> FALSE, view |-> <<>>]

Init ==
  /\ time = 0
  /\ deps = [n \in Nodes |-> {}] /\ text = [n \in Nodes |-> 0] /\ changed = text
  /\ medium = [n \in Nodes |-> "latex"] /\ files = text
  /\ verdict = [n \in Nodes |-> NoVerdict] /\ objections = [n \in Nodes |-> {}]
  /\ snapshot = [n \in Nodes |-> NoSnapshot] /\ stored = text /\ pins = [n \in Nodes |-> {}]
  /\ line = [n \in Nodes |-> NoLine] /\ fixed = {} /\ checks = {}
  /\ request = [r \in Requesters |-> Resting]

-----------------------------------------------------------------------------
(* What the services read.                                                 *)

\* The text a proof of n is read against last changed: its own or under it.
RestatedSince(n, at) == \E m \in RestsOn(deps, n) : changed[m] > at

\* verdicts: a verdict from before a restatement is stale.
Stale(n) == RestatedSince(n, verdict[n].at)

\* Reported on the uses of exactly these dependencies; a computation has none to report.
Covers(v, D, how) == how = "computation" \/ v.uses = D

HasPassingCheck(n) ==
  /\ verdict[n].outcome = "passed" /\ ~Stale(n)
  /\ Covers(verdict[n], deps[n], medium[n]) /\ verdict[n].files = files[n]

\* _snapshot_dependencies_stand.
DependenciesStand(n) == snapshot[n].deps = deps[n]

\* decision_binding of a verification: snapshot, its hash, interface, pins and words.
Binding(n) == <<snapshot[n].id, stored[n], text[n], pins[n]>>

PinTargets(P) == {pin[1] : pin \in P}

\* _binding_problem: the newest verification still describes the node.
Counts(n) ==
  /\ line[n].at # 0
  /\ line[n].snapshot = snapshot[n].id /\ line[n].stored = stored[n]
  /\ line[n].text = text[n]
  /\ PinTargets(line[n].pins) = deps[n]

SnapshotDeps == [n \in Nodes |-> snapshot[n].deps]
Relied(n) == RestsOn(SnapshotDeps, n)

Tick == time < MaxTime /\ time' = time + 1
Now == time + 1
Done(r) == request' = [request EXCEPT ![r] = Resting]
Holds(r, at) == request[r].at = at

-----------------------------------------------------------------------------
(* Edits that check and write under one lock, and the folder's own.        *)

Restate(n) ==
  /\ n \notin fixed /\ Tick
  /\ text' = [text EXCEPT ![n] = Now] /\ changed' = [changed EXCEPT ![n] = Now]
  /\ UNCHANGED <<deps, medium, files, reviewVars, request>>

AddDependency(n, d) ==
  /\ d \notin deps[n] /\ ~Reaches(deps, d, n) /\ Tick
  /\ deps' = [deps EXCEPT ![n] = @ \cup {d}]
  /\ UNCHANGED <<text, changed, medium, files, reviewVars, request>>

RemoveDependency(n, d) ==
  /\ d \in deps[n] /\ Tick
  /\ deps' = [deps EXCEPT ![n] = @ \ {d}]
  /\ pins' = [pins EXCEPT ![n] = {pin \in @ : pin[1] # d}]
  /\ UNCHANGED <<text, changed, medium, files, verdict, objections, snapshot, stored, line, fixed, checks, request>>

\* Anyone edits the working files, or a snapshot's folder, behind the store's back.
EditFiles(n) ==
  /\ Tick /\ files' = [files EXCEPT ![n] = Now]
  /\ UNCHANGED <<deps, text, changed, medium, reviewVars, request>>

EditSnapshot(n) ==
  /\ snapshot[n].id # 0 /\ Tick /\ stored' = [stored EXCEPT ![n] = Now]
  /\ UNCHANGED <<nodeVars, verdict, objections, snapshot, pins, line, fixed, checks, request>>

Withdraw(n, o) ==
  /\ o \in objections[n]
  /\ objections' = [objections EXCEPT ![n] = @ \ {o}]
  /\ UNCHANGED <<time, nodeVars, verdict, snapshot, stored, pins, line, fixed, checks, request>>

-----------------------------------------------------------------------------
(* set_medium: the whole row read before the lock, and written on it.      *)

MediumRead(r, n) ==
  /\ Holds(r, "rest")
  /\ request' = [request EXCEPT ![r] = [Resting EXCEPT !.at = "medium", !.node = n, !.deps = deps[n], !.text = text[n]]]
  /\ UNCHANGED <<time, nodeVars, reviewVars>>

SetMedium(r) ==
  /\ Holds(r, "medium") /\ Tick
  /\ LET n == request[r].node
     IN  /\ \E m \in Media \ {medium[n]} : medium' = [medium EXCEPT ![n] = m]
         /\ deps' = [deps EXCEPT ![n] = request[r].deps]
         /\ text' = [text EXCEPT ![n] = request[r].text]
  /\ Done(r)
  /\ UNCHANGED <<changed, files, reviewVars>>

-----------------------------------------------------------------------------
(* A verdict: the Verifier reads the node and its open objections, then    *)
(* record_progress reads the folder, and records under the lock.           *)

VerifierReads(r, n) ==
  /\ Holds(r, "rest")
  /\ request' = [request EXCEPT ![r] = [Resting EXCEPT !.at = "verifying", !.node = n, !.text = text[n], !.named = objections[n]]]
  /\ UNCHANGED <<time, nodeVars, reviewVars>>

\* _working_read: the digest, and the uses off the same bytes, for the dependencies read.
ReportVerdict(r) ==
  /\ Holds(r, "verifying")
  /\ LET n == request[r].node
     IN  request' = [request EXCEPT ![r].at = "reported", ![r].files = files[n], ![r].deps = deps[n]]
  /\ UNCHANGED <<time, nodeVars, reviewVars>>

EndedUnasked(r, audit) == TRUE

\* _endings: an ordinary passing verdict answers every objection open now.
Endings(r, audit) == audit \/ objections[request[r].node] = request[r].named

RecordVerdict(r, outcome, audit) ==
  /\ Holds(r, "reported") /\ Tick
  /\ outcome = "passed" => Endings(r, audit)
  /\ LET n == request[r].node
     IN  /\ verdict' = [verdict EXCEPT ![n] = [outcome |-> outcome, files |-> request[r].files, uses |-> request[r].deps,
                                               at |-> Now, audit |-> audit, ofText |-> request[r].text]]
         /\ objections' = [objections EXCEPT ![n] = IF outcome = "failed" THEN @ \cup {Now}
                                                    ELSE IF audit THEN @ ELSE @ \ request[r].named]
  /\ Done(r)
  /\ UNCHANGED <<nodeVars, snapshot, stored, pins, line, fixed, checks>>

-----------------------------------------------------------------------------
(* request_review: the node and its files read before the lock.            *)

ReviewRead(r, n, gated) ==
  /\ Holds(r, "rest")
  /\ gated => verdict[n].files = files[n]
  /\ request' = [request EXCEPT ![r] = [Resting EXCEPT !.at = "review", !.node = n, !.deps = deps[n], !.files = files[n], !.gated = gated]]
  /\ UNCHANGED <<time, nodeVars, reviewVars>>

GatePassed(r) == TRUE

\* The newest verdict on the write lock; the dependencies are those read before it.
GateHolds(r) ==
  LET n == request[r].node  v == verdict[n]
  IN  v.outcome = "passed" /\ v.files = request[r].files /\ ~Stale(n) /\ Covers(v, request[r].deps, medium[n])

\* Refused only when nothing is new: same files, same dependencies, snapshot still there.
Unchanged(r) ==
  LET n == request[r].node
  IN  snapshot[n].id # 0 /\ snapshot[n].files = request[r].files /\ DependenciesStand(n)

RequestReview(r) ==
  /\ Holds(r, "review") /\ Tick
  /\ request[r].gated => GateHolds(r)
  /\ ~Unchanged(r)
  /\ LET n == request[r].node
     IN  /\ snapshot' = [snapshot EXCEPT ![n] = [id |-> Now, files |-> request[r].files, deps |-> deps[n], gated |-> request[r].gated]]
         /\ stored' = [stored EXCEPT ![n] = request[r].files]
         /\ pins' = [pins EXCEPT ![n] = {<<d, text[d]>> : d \in deps[n]}]
         /\ checks' = {c \in checks : c.node # n}
  /\ Done(r)
  /\ UNCHANGED <<nodeVars, verdict, objections, line, fixed>>

-----------------------------------------------------------------------------
(* The researcher's verification: a page shows the binding, verify_node    *)
(* checks the snapshot before the lock, and _decide binds again on it.     *)

View(r, n) ==
  /\ Holds(r, "rest")
  /\ request' = [request EXCEPT ![r] = [Resting EXCEPT !.at = "viewing", !.node = n, !.view = Binding(n)]]
  /\ UNCHANGED <<time, nodeVars, reviewVars>>

VerifyChecks(r) ==
  /\ Holds(r, "viewing")
  /\ snapshot[request[r].node].id # 0 /\ DependenciesStand(request[r].node)
  /\ request' = [request EXCEPT ![r].at = "clicked"]
  /\ UNCHANGED <<time, nodeVars, reviewVars>>

AnyView(r) == TRUE

\* STALE_VIEW otherwise.
AsViewed(r) == Binding(request[r].node) = request[r].view

Verify(r) ==
  /\ Holds(r, "clicked") /\ AsViewed(r) /\ Tick
  /\ LET n == request[r].node
     IN  /\ line' = [line EXCEPT ![n] = [at |-> Now, snapshot |-> snapshot[n].id, stored |-> stored[n], text |-> text[n],
                                         pins |-> pins[n], seen |-> request[r].view]]
         /\ fixed' = fixed \cup Relied(n)
  /\ Done(r)
  /\ UNCHANGED <<nodeVars, verdict, objections, snapshot, stored, pins, checks>>

-----------------------------------------------------------------------------
(* An Evidence check: run on what the folder holds, recorded later.        *)

CheckerRuns(r, n) ==
  /\ Holds(r, "rest") /\ snapshot[n].id # 0
  /\ request' = [request EXCEPT ![r] = [Resting EXCEPT !.at = "checking", !.node = n, !.text = snapshot[n].id, !.files = stored[n]]]
  /\ UNCHANGED <<time, nodeVars, reviewVars>>

CheckerTrusted(r) == snapshot[request[r].node].id = request[r].text

\* EVIDENCE_SNAPSHOT_MISMATCH: the hash the checker ran on is the snapshot's now.
RanOnThis(r) ==
  snapshot[request[r].node].id = request[r].text /\ stored[request[r].node] = request[r].files

RecordEvidenceCheck(r) ==
  /\ Holds(r, "checking") /\ RanOnThis(r) /\ Tick
  /\ checks' = checks \cup {[node |-> request[r].node, bound |-> stored[request[r].node], ranOn |-> request[r].files]}
  /\ Done(r)
  /\ UNCHANGED <<nodeVars, verdict, objections, snapshot, stored, pins, line, fixed>>

\* A refused or abandoned request.
GiveUp(r) ==
  /\ ~Holds(r, "rest") /\ Done(r)
  /\ UNCHANGED <<time, nodeVars, reviewVars>>

EditStep ==
  \/ "text" \in Ops /\ \E n \in Nodes : Restate(n)
  \/ "edges" \in Ops /\ \E n \in Nodes, d \in Nodes : AddDependency(n, d) \/ RemoveDependency(n, d)
  \/ "files" \in Ops /\ \E n \in Worked : EditFiles(n)
  \/ "snapshots" \in Ops /\ \E n \in Worked : EditSnapshot(n)
  \/ \E n \in Worked : \E o \in objections[n] : Withdraw(n, o)

RequestStep(r) ==
  \/ "medium" \in Ops /\ ((\E n \in Worked : MediumRead(r, n)) \/ SetMedium(r))
  \/ "verdict" \in Ops /\ ((\E n \in Worked : VerifierReads(r, n)) \/ ReportVerdict(r)
       \/ \E outcome \in {"passed", "failed"}, audit \in BOOLEAN : RecordVerdict(r, outcome, audit))
  \/ "review" \in Ops /\ ((\E n \in Worked, gated \in BOOLEAN : ReviewRead(r, n, gated)) \/ RequestReview(r))
  \/ "verify" \in Ops /\ ((\E n \in Worked : View(r, n)) \/ VerifyChecks(r) \/ Verify(r))
  \/ "evidence" \in Ops /\ ((\E n \in Worked : CheckerRuns(r, n)) \/ RecordEvidenceCheck(r))
  \/ GiveUp(r)

Next == EditStep \/ \E r \in Requesters : RequestStep(r)

Spec == Init /\ [][Next]_vars

-----------------------------------------------------------------------------
(* What holds.                                                             *)

\* A snapshot frozen through the agent's gate holds the very files the newest verdict
\* passed, on text not restated since, whatever was recorded or edited while the
\* request waited for the lock (request_review).
GatedFreezesWhatPassed ==
  [][\A n \in Nodes :
       snapshot'[n].id # snapshot[n].id /\ snapshot'[n].gated =>
         verdict[n].outcome = "passed" /\ verdict[n].files = stored'[n] /\ ~Stale(n)]_vars

\* A verification that counts is of exactly what the researcher was shown: that
\* snapshot, those bytes, those words and those dependencies (_decide, _binding_problem).
CountedAsShown ==
  \A n \in Nodes : Counts(n) =>
    /\ line[n].seen[1] = snapshot[n].id /\ line[n].seen[2] = stored[n] /\ line[n].seen[3] = text[n]
    /\ PinTargets(line[n].seen[4]) = deps[n]

\* An ordinary passing verdict leaves none of the objections raised before it open
\* (_endings), though others may be raised while the Verifier reads.
PassedAnswersAll ==
  \A n \in Nodes : verdict[n].outcome = "passed" /\ ~verdict[n].audit => \A o \in objections[n] : o > verdict[n].at

\* An Evidence check that reads as matching its snapshot ran on what it holds now
\* (record_evidence_check, evidence_binding).
MatchingChecksRan == \A c \in checks : c.bound = stored[c.node] => c.ranOn = stored[c.node]

\* A cycle of dependencies is what no service writes (node_states.py:111).
AcyclicMap == Acyclic(deps)

\* A verdict that is not stale read the text as it stands.
PassedOnTheTextRead ==
  \A n \in Nodes : verdict[n].outcome = "passed" /\ ~Stale(n) => verdict[n].ofText = text[n]
=============================================================================

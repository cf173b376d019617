------------------------------ MODULE Debugging ------------------------------
(***************************************************************************)
(* The older proof state's search for bugs (checks.py, bugs.py, evidence.py,     *)
(* debug_tasks.py, commands.py): a scan of a theorem reports what its detectors     *)
(* find, decisions on a report are appended to the history and read over the          *)
(* reports, tasks are generated for what is still open, and the layered memory           *)
(* takes all of it (memory.py).  The history is the state: each command appends to         *)
(* it (two at once are in Memory).  An id is made of Python's hash of the report, so          *)
(* any id may be given to any report, another's too.                                             *)
(***************************************************************************)
EXTENDS Naturals, Sequences, FiniteSets, SequencesExt

CONSTANTS
  Theorems,
  Ids,          \* the ids of reports
  Reviewed, Repaired,   \* the statuses a review and a repair give
  MaxEdits,     \* a bound on the edits of what is scanned
  MaxSteps      \* a bound on the edits and the history together

VARIABLES
  contract,     \* theorem -> its contract
  context,      \* whether the assumption stands in the current context
  obligations,  \* the obligations
  history,      \* the markers of the project state, oldest first
  records,      \* the debug history of the layered memory
  synced,       \* the length of the history when the memory last took it
  edits

vars == <<contract, context, obligations, history, records, synced, edits>>

Unknown == "unknown"    \* a dependency no contract has
First == CHOOSE t \in Theorems : TRUE

Plain == [assumes |-> FALSE, speaks |-> FALSE, exports |-> TRUE, imported |-> FALSE, approved |-> TRUE, trusted |-> TRUE,
          grounds |-> "none", blocked |-> FALSE, drifts |-> FALSE, deps |-> {}]
Obligation(id, gap, open, reason) == [id |-> id, gap |-> gap, open |-> open, reason |-> reason]
-----------------------------------------------------------------------------
(* The checks.                                                             *)

\* The first thing that stands against calling a theorem.
Callability(t) ==
  LET c == contract[t] IN
  CASE c.blocked -> "blocked"
    [] ~c.blocked /\ c.imported /\ ~c.approved -> "not approved"
    [] ~c.blocked /\ ~(c.imported /\ ~c.approved) /\ ~c.trusted -> "not trusted"
    [] OTHER -> IF c.assumes /\ ~context THEN "missing assumptions" ELSE "callable"

\* A search in depth; it has the cycle when it meets a theorem it is still searching.
CycleFrom(graph, t) ==
  LET all == {t} \cup DOMAIN graph \cup UNION {graph[u] : u \in DOMAIN graph}
      searches[todo \in Seq(all), visited \in SUBSET all, stack \in Seq(all)] ==
        IF todo = <<>> THEN [cycle |-> <<>>, visited |-> visited]
        ELSE LET u == Head(todo) IN
             IF Contains(stack, u)
             THEN [cycle |-> SubSeq(stack, CHOOSE i \in DOMAIN stack : stack[i] = u, Len(stack)) \o <<u>>,
                   visited |-> visited]
             ELSE IF u \in visited THEN searches[Tail(todo), visited, stack]
             ELSE LET below == searches[IF u \in DOMAIN graph THEN SetToSeq(graph[u]) ELSE <<>>,
                                        visited \cup {u}, Append(stack, u)]
                  IN IF below.cycle # <<>> THEN below ELSE searches[Tail(todo), below.visited, stack]
  IN searches[<<t>>, {}, <<>>].cycle
Graph == [t \in Theorems |-> contract[t].deps]

ExportCheck(c) ==
  CASE ~c.exports -> IF c.imported \/ c.approved THEN "none recorded" ELSE "fine"
    [] c.exports /\ c.imported /\ c.grounds = "none" -> "without grounds"
    [] OTHER -> IF c.exports /\ c.grounds = "weak" THEN "weak" ELSE "fine"

\* An obligation stands while it is open, and whatever its status with a reason that blocks.
Omission == \E o \in obligations : o.gap /\ (o.open \/ o.reason)
-----------------------------------------------------------------------------
(* A scan.                                                                 *)

Detectors == <<"assumption_mismatch", "export_overstretch", "omitted_side_condition",
               "circular_dependency", "notation_drift">>

Detects(type, t) ==
  CASE type = "assumption_mismatch" -> Callability(t) = "missing assumptions"
    [] type = "export_overstretch" -> ExportCheck(contract[t]) # "fine"
    [] type = "omitted_side_condition" -> Omission
    [] type = "circular_dependency" -> CycleFrom(Graph, t) # <<>>
    [] type = "notation_drift" -> contract[t].drifts

Severity(type, t) ==
  CASE type = "circular_dependency" -> 3
    [] type = "notation_drift" -> 0
    [] type = "export_overstretch" -> IF ExportCheck(contract[t]) \in {"weak", "without grounds"} THEN 2 ELSE 1
    [] OTHER -> 2

Reports(t, ids) ==
  LET found == SelectSeq(Detectors, LAMBDA type : Detects(type, t)) IN
  [k \in DOMAIN found |-> [id |-> ids[found[k]], type |-> found[k], severity |-> Severity(found[k], t)]]

Scan(t, reports) == [is |-> "scan", of |-> t, reports |-> reports]
Scanned(t) ==
  {Scan(t, Reports(t, ids)) : ids \in [{type \in ToSet(Detectors) : Detects(type, t)} -> Ids]}
-----------------------------------------------------------------------------
(* Decisions.                                                              *)

OpenStatuses == {"suspected", "under_review"}
ClosedStatuses == {"confirmed", "dismissed", "repaired", "superseded"}

IdsOf(h) == {r.id : r \in UNION {ToSet(h[i].reports) : i \in {j \in DOMAIN h : h[j].is = "scan"}}}
Latest(h, is, id) ==
  LET at == {i \in DOMAIN h : h[i].is = is /\ h[i].id = id}
  IN IF at = {} THEN "none" ELSE h[CHOOSE i \in at : \A j \in at : j <= i].status

\* (A plausible error: a review's word alone.)
ReviewedAs(h, id) == IF Latest(h, "review", id) # "none" THEN Latest(h, "review", id) ELSE "suspected"

\* What the decisions so far make of a report: a repair's word over a review's.
StatusIn(h, id) ==
  IF Latest(h, "repair", id) # "none" THEN Latest(h, "repair", id)
  ELSE IF Latest(h, "review", id) # "none" THEN Latest(h, "review", id) ELSE "suspected"
-----------------------------------------------------------------------------
(* Tasks.                                                                  *)

\* The templates' own priorities.
Templates(type) ==
  CASE type \in {"assumption_mismatch", "export_overstretch"} -> <<2, 1>>
    [] type = "omitted_side_condition" -> <<2, 2, 1>>
    [] type = "circular_dependency" -> <<3, 2>>
    [] type = "notation_drift" -> <<1, 0>>

Priority(report, template) == IF report.severity > template THEN report.severity ELSE template

\* A chain of evidence goes with a bug no one has looked at yet; of reports given one id,
\* the last one's goes with them all.
Recommends(report) == IF report.severity >= 2 THEN "block" ELSE "revise"
Chain(reports, id) == Recommends(Last(SelectSeq(reports, LAMBDA r : r.id = id)))
Task(report, recommends, n) ==
  [of |-> report.id, type |-> report.type, n |-> n, priority |-> Priority(report, Templates(report.type)[n]),
   recommends |-> recommends]

TasksOf(report, status, chain) ==
  IF status \in OpenStatuses
  THEN [n \in DOMAIN Templates(report.type) |-> Task(report, IF status = "suspected" THEN chain ELSE "none", n)]
  ELSE <<>>

\* Sorted as Python sorts: by priority, and as they came among equals.
Sorted(tasks) ==
  FlattenSeq([k \in 1..4 |-> SelectSeq(tasks, LAMBDA task : task.priority = 4 - k)])

Batch(h, reports) ==
  Sorted(FlattenSeq([k \in DOMAIN reports |->
    TasksOf(reports[k], StatusIn(h, reports[k].id), Chain(reports, reports[k].id))]))

ScansOf(h, t) == SelectSeq(h, LAMBDA m : m.is = "scan" /\ m.of = t)
-----------------------------------------------------------------------------
(* The commands.                                                           *)

Says(h) == history' = h /\ Len(h) + edits <= MaxSteps /\ UNCHANGED <<contract, context, obligations, records, synced, edits>>

BugScan(t) == \E scan \in Scanned(t) : Says(Append(history, scan))
Review(id, status) ==
  id \in IdsOf(history) /\ Says(Append(history, [is |-> "review", id |-> id, status |-> status]))
Repair(id, status) ==
  id \in IdsOf(history) /\ Says(Append(history, [is |-> "repair", id |-> id, status |-> status]))

\* From the theorem's latest scan, however old; scanned first when there is none.
Generates(t, scan, h) ==
  Says(Append(h, [is |-> "batch", of |-> t, tasks |-> Batch(h, scan.reports), about |-> scan]))
Generate(t) ==
  IF ScansOf(history, t) # <<>> THEN Generates(t, Last(ScansOf(history, t)), history)
  ELSE \E scan \in Scanned(t) : Generates(t, scan, Append(history, scan))

\* What using the theorem needs: its assumptions, and the claim between; derived again,
\* an obligation is written over the one there is.  The reason of each is what is missing.
Derived(t) ==
  LET missing == contract[t].assumes /\ ~context
      of(what) == Obligation(<<t, what>>, missing /\ contract[t].speaks, TRUE, TRUE)
  IN {of("claim")} \cup {o \in {of("assumption")} : missing}
Derive(t) ==
  /\ Len(history) + edits < MaxSteps
  /\ obligations' = {o \in obligations : \A d \in Derived(t) : d.id # o.id} \cup Derived(t)
  /\ history' = Append(history, [is |-> "reasoning", of |-> t])
  /\ UNCHANGED <<contract, context, records, synced, edits>>

\* A record of the layered memory: of which kind, about which bug or pattern, found by
\* which detector, and what it says; what says the same again is counted once (a chain of
\* evidence has a new id, and so a record more, at each sync).
Record(kind, id, type, says) == [kind |-> kind, id |-> id, type |-> type, says |-> says]

OfReport(r, status) == Record(IF status \in OpenStatuses THEN "suspicion" ELSE "bug_history", r.id, r.type, status)
OfChain(r) == Record("evidence_chain", r.id, r.type, Recommends(r))
OfPattern(r) == Record("repair_pattern", "pattern", r.type, "repair")
OfMotif(r) == Record("failure_motif", "motif", r.type, "failure")
Template(n) == <<"first", "second", "third">>[n]
OfTask(task) == Record("debug_task", task.of, task.type, Template(task.n))
OfDecision(m) == Record("repair_decision", m.id, "decision", m.status)

\* Each report as scanned, and again as decided, with what goes with it; tasks; decisions.
FromState ==
  LET of(m) ==
        CASE m.is = "scan" ->
               UNION {{OfReport(r, "suspected"), OfReport(r, StatusIn(history, r.id)), OfChain(r), OfPattern(r), OfMotif(r)}
                        : r \in ToSet(m.reports)}
          [] m.is = "batch" -> {OfTask(task) : task \in ToSet(m.tasks)}
          [] m.is = "reasoning" -> {}
          [] OTHER -> {OfDecision(m)}
  IN UNION {of(m) : m \in ToSet(history)}

\* Only what the memory does not have yet is added, and nothing is taken out.
Taken(new) == records \cup new
Of(kind) == {r \in records : r.kind = kind}

\* What a handoff carries of it, when no node and no theorem is named.
Handoff ==
  [suspicions |-> Of("suspicion"), settled |-> Of("bug_history"), chains |-> Of("evidence_chain"),
   tasks |-> Of("debug_task"), decisions |-> Of("repair_decision"), patterns |-> Of("repair_pattern"),
   motifs |-> Of("failure_motif")]

Sync ==
  /\ synced < Len(history) /\ synced' = Len(history)
  /\ records' = Taken(FromState)
  /\ UNCHANGED <<contract, context, obligations, history, edits>>
-----------------------------------------------------------------------------
(* What is scanned, edited; only what older commands could leave is varied.    *)

Changes(c) ==
  {[c EXCEPT !.assumes = ~@], [c EXCEPT !.assumes = TRUE, !.speaks = TRUE], [c EXCEPT !.exports = ~@], [c EXCEPT !.imported = ~@],
   [c EXCEPT !.approved = ~@], [c EXCEPT !.trusted = ~@], [c EXCEPT !.grounds = "weak"],
   [c EXCEPT !.blocked = ~@], [c EXCEPT !.drifts = ~@]}
     \cup {[c EXCEPT !.deps = @ \cup {d}] : d \in Theorems \cup {Unknown}}

EditContract(t) ==
  /\ edits < MaxEdits /\ edits' = edits + 1 /\ history = <<>>
  /\ \E c \in Changes(contract[t]) : contract' = [contract EXCEPT ![t] = c]
  /\ UNCHANGED <<context, obligations, history, records, synced>>
AddObligation ==
  /\ edits < MaxEdits /\ edits' = edits + 1 /\ history = <<>>
  /\ \E open, reason \in BOOLEAN :
       obligations' = obligations \cup {Obligation(<<First, "step">>, TRUE, open, reason)}
  /\ UNCHANGED <<contract, context, history, records, synced>>

Init ==
  /\ contract = [t \in Theorems |-> Plain] /\ context = FALSE /\ obligations = {}
  /\ history = <<>> /\ records = {} /\ synced = 0 /\ edits = 0

Next ==
  \/ \E t \in Theorems : BugScan(t) \/ Generate(t) \/ Derive(t) \/ EditContract(t)
  \/ \E id \in Ids : (\E s \in Reviewed : Review(id, s)) \/ \E s \in Repaired : Repair(id, s)
  \/ AddObligation \/ Sync

Spec == Init /\ [][Next]_vars
-----------------------------------------------------------------------------
(* Properties.                                                             *)

TypeOK == Len(history) + edits <= MaxSteps /\ synced \in 0..Len(history) /\ edits \in 0..MaxEdits

Decisions(h, id) == {i \in DOMAIN h : h[i].is \in {"review", "repair"} /\ h[i].id = id}

\* Decided on and not opened again since; or open: never decided, or opened again by a
\* review where no repair was ever marked.
IsSettled(h, id) ==
  \E i \in Decisions(h, id) : h[i].status \in ClosedStatuses /\ \A j \in Decisions(h, id) : j > i => h[j].status \in ClosedStatuses
IsOpen(h, id) ==
  ~IsSettled(h, id) /\ \A i \in Decisions(h, id) : h[i].is = "review"

\* What is settled gets no task, each open bug of the scan gets every task of its kind,
\* of no lower priority than its severity and told to block when that is high (unless
\* another was given its id), and the most urgent come first (cmd_proof_debug_generate, generate_debug_tasks).
TasksFollow ==
  \A k \in DOMAIN history : history[k].is = "batch" =>
    LET b == history[k]
        before == SubSeq(history, 1, k - 1)
        tasks == ToSet(b.tasks)
        of(r) == {task \in tasks : task.of = r.id /\ task.type = r.type}
    IN /\ \A task \in tasks : ~IsSettled(before, task.of)
       /\ \A r \in ToSet(b.about.reports) : IsOpen(before, r.id) =>
            /\ Cardinality(of(r)) >= 2
            /\ \A task \in of(r) : task.priority >= r.severity
            /\ Decisions(before, r.id) = {} /\ (\A q \in ToSet(b.about.reports) : q.id = r.id => q = r) =>
                 \A task \in of(r) : task.recommends = "block" <=> r.severity >= 2
       /\ \A i, j \in DOMAIN b.tasks : i < j => b.tasks[i].priority >= b.tasks[j].priority
       /\ b.about.of = b.of /\ \A i \in DOMAIN before : before[i].is = "scan" /\ before[i].of = b.of /\ before[i] # b.about =>
            \E j \in DOMAIN before : j > i /\ before[j] = b.about

\* The search finds a cycle exactly when the theorem reaches one, and what it reports is
\* one: each rests on the next, and the last is the first (simple_circular_dependency_detection).
CyclesFound ==
  history = <<>> /\ edits = 0 =>
    \A graph \in [1..3 -> SUBSET (1..3)] :
      LET one(S) == S \cup UNION {graph[u] : u \in S}
          cycle == CycleFrom(graph, 1)
      IN /\ cycle = <<>> <=> \A t \in one(one({1})) : t \notin one(one(graph[t]))
         /\ cycle # <<>> =>
              /\ Len(cycle) > 1 /\ cycle[1] = Last(cycle)
              /\ \A i \in 1..(Len(cycle) - 1) : cycle[i + 1] \in graph[cycle[i]]

\* Once the memory has taken the history, a handoff has each bug where its decisions put
\* it, whoever scanned it when; a chain of evidence and a motif of its own for every report,
\* recommending what its severity does; every decision; and the tasks of every batch
\* (synchronize_proof_debug_history, build_handoff_snapshot).
HandoffCarries ==
  synced = Len(history) =>
    LET ids(S) == {r.id : r \in S}
        kept(S, id, type) == {r.says : r \in {q \in S : q.id = id /\ q.type = type}}
        said(is) == {i \in DOMAIN history : history[i].is = is}
    IN  /\ \A id \in IdsOf(history) :
             /\ IsSettled(history, id) => id \in ids(Handoff.settled)
             /\ IsOpen(history, id) => id \in ids(Handoff.suspicions)
        /\ \A i \in said("scan") : \A r \in ToSet(history[i].reports) :
             /\ "block" \in kept(Handoff.chains, r.id, r.type) <=> r.severity >= 2
             /\ kept(Handoff.motifs, "motif", r.type) # {} /\ kept(Handoff.patterns, "pattern", r.type) # {}
        /\ \A i \in said("review") \cup said("repair") :
             history[i].status \in kept(Handoff.decisions, history[i].id, "decision")
        /\ \A i \in said("batch") : \A task \in ToSet(history[i].tasks) :
             Template(task.n) \in kept(Handoff.tasks, task.of, task.type)
=============================================================================

------------------------------- MODULE Memory -------------------------------
(***************************************************************************)
(* What is kept of verifications and bug scans (memory.py), and the markers    *)
(* they come from: a verification command (commands.py) appends markers to the *)
(* project state, each by loading the whole state and saving it whole with no   *)
(* lock around the two (proof_state.py), so that of two processes' markers one    *)
(* may be lost; a reader takes the markers it finds into the layered memory, in     *)
(* one transaction, and the memory is what must never lose one.  No backend runs:   *)
(* a result is only ever pending review.                                       *)
(***************************************************************************)
EXTENDS Naturals, Sequences, SequencesExt

CONSTANTS
  Processes,
  MaxStamps,   \* a bound on the commands that make a new fragment, scan or note
  MaxMarkers   \* a bound on the markers of the state

Nobody == "nobody"
NoResult == 0

VARIABLES
  state,     \* the markers of the project state (session_history), oldest first
  memory,    \* the layered memory: its verification and debug histories and its notes
  lock,      \* who holds the write lock
  proc,      \* process -> what it is doing
  stamps     \* the fragments, results, scans and notes there have been

vars == <<state, memory, lock, proc, stamps>>

Empty == [verification |-> <<>>, debug |-> <<>>, notes |-> <<>>]
Idle == [doing |-> "idle", todo |-> <<>>, state |-> <<>>, loaded |-> Empty, draft |-> Empty]
-----------------------------------------------------------------------------
(* The markers: a fragment as it stood, a result, or a scan.                 *)

Fragment(id, status, at) == [kind |-> "fragment", id |-> id, status |-> status, at |-> at,
                             result |-> NoResult, again |-> FALSE]
Result(fragment, id) == [kind |-> "result", id |-> id, fragment |-> fragment.id]
Scan(id) == [kind |-> "scan", id |-> id]

Of(markers, kind) == SelectSeq(markers, LAMBDA m : m.kind = kind)
Fragments == Of(state, "fragment")
LatestFragment == Last(Fragments)

\* A fragment is marked stale after a change, keeping its id.
Stale(f, at) == [f EXCEPT !.status = "stale", !.at = at]

\* Running never marks a fragment as checked, and leaves a stale one as it is.
Run(f, result) == IF f.status = "stale" THEN f ELSE [f EXCEPT !.result = result]

Again(id, at) == [Fragment(id, "queued", at) EXCEPT !.again = TRUE]
-----------------------------------------------------------------------------
(* The commands: each reads the latest fragment and appends its markers one    *)
(* by one.                                                                 *)

Begins(p, todo) ==
  /\ proc[p] = Idle /\ stamps < MaxStamps /\ Len(state) + Len(todo) <= MaxMarkers
  /\ stamps' = stamps + 1
  /\ proc' = [proc EXCEPT ![p] = [Idle EXCEPT !.doing = "load", !.todo = todo]]
  /\ UNCHANGED <<state, memory, lock>>

Queue(p) == Begins(p, <<Fragment(stamps + 1, "queued", stamps + 1)>>)
VerifyRun(p) ==
  LET new == Fragment(stamps + 1, "queued", stamps + 1)
      f == IF Fragments = <<>> THEN new ELSE LatestFragment
  IN Begins(p, (IF Fragments = <<>> THEN <<new>> ELSE <<>>)
                 \o <<Result(f, stamps + 1), Run(f, stamps + 1)>>)
VerifyStale(p) == Fragments # <<>> /\ Begins(p, <<Stale(LatestFragment, stamps + 1)>>)

\* The translation of the source may fail, and then only the stale mark is written.
Revalidate(p) ==
  /\ Fragments # <<>>
  /\ \E fails \in BOOLEAN :
       Begins(p, <<Stale(LatestFragment, stamps + 1)>>
                   \o IF fails THEN <<>> ELSE <<Again(stamps + 1, stamps + 1)>>)
FormalizeEdit(p) == Fragments # <<>> /\ Begins(p, <<LatestFragment>>)
BugScan(p) == Begins(p, <<Scan(stamps + 1)>>)

Load(p) ==
  /\ proc[p].doing = "load"
  /\ proc' = [proc EXCEPT ![p].doing = "save", ![p].state = state]
  /\ UNCHANGED <<state, memory, lock, stamps>>

Save(p) ==
  /\ proc[p].doing = "save" /\ lock = Nobody
  /\ state' = Append(proc[p].state, Head(proc[p].todo))
  /\ proc' = [proc EXCEPT ![p] = IF Len(@.todo) = 1 THEN Idle
                                 ELSE [Idle EXCEPT !.doing = "load", !.todo = Tail(proc[p].todo)]]
  /\ UNCHANGED <<memory, lock, stamps>>
-----------------------------------------------------------------------------
(* The memory: loaded whole and saved whole, in one transaction.             *)

\* A fragment's record is known by the fragment as it stood and by its result.
ResultOf(f) == {r \in ToSet(Of(state, "result")) : r.id = f.result \/ r.fragment = f.id}
RecordOf(f) == [of |-> f, reviewed |-> ResultOf(f) # {}]
AddNew(history, record) == IF Contains(history, record) THEN history ELSE Append(history, record)
AddAny(history, record) == Append(history, record)

\* The markers of a kind, oldest first, each taken into a history as its record.
RecordFor(m) == IF m.kind = "fragment" THEN RecordOf(m) ELSE m.id
TakenInto(history, kind) ==
  LET after[n \in 0..Len(state)] ==
        IF n = 0 THEN history
        ELSE IF state[n].kind = kind THEN AddNew(after[n - 1], RecordFor(state[n])) ELSE after[n - 1]
  IN after[Len(state)]

TakesVerifications(m) == [m EXCEPT !.verification = TakenInto(@, "fragment")]
TakesScans(m) == [m EXCEPT !.debug = TakenInto(@, "scan")]

NoTransaction(p) == lock = Nobody /\ UNCHANGED lock
OneTransaction(p) == lock = Nobody /\ lock' = p

Loads(p, doing) ==
  /\ proc[p] = Idle /\ OneTransaction(p)
  /\ proc' = [proc EXCEPT ![p] = [Idle EXCEPT !.doing = doing, !.loaded = memory, !.draft = memory]]

SyncVerification(p) == Loads(p, "verification") /\ UNCHANGED <<state, memory, stamps>>
SyncDebug(p) == Loads(p, "debug") /\ UNCHANGED <<state, memory, stamps>>
RecordNote(p) == stamps < MaxStamps /\ stamps' = stamps + 1 /\ Loads(p, "note") /\ UNCHANGED <<state, memory>>

\* A scan's reports are recorded one by one, each loading and saving the memory
\* within the transaction, before the sync writes what it had loaded itself.
RecordsReport(p) ==
  /\ proc[p].doing = "debug" /\ proc[p].draft # TakesScans(proc[p].draft)
  /\ \E s \in ToSet(Of(state, "scan")) :
       /\ ~Contains(proc[p].draft.debug, s.id)
       /\ proc' = [proc EXCEPT ![p].draft.debug = Append(@, s.id)]
  /\ UNCHANGED <<state, memory, lock, stamps>>

Saved(p) ==
  CASE proc[p].doing = "verification" -> TakesVerifications(proc[p].loaded)
    [] proc[p].doing = "debug" -> TakesScans(proc[p].loaded)
    [] proc[p].doing = "note" -> [proc[p].loaded EXCEPT !.notes = Append(@, p)]

Commit(p) ==
  /\ proc[p].doing \in {"verification", "debug", "note"}
  /\ proc[p].doing = "debug" => proc[p].draft = TakesScans(proc[p].draft)
  /\ memory' = Saved(p) /\ lock' = IF lock = p THEN Nobody ELSE lock
  /\ proc' = [proc EXCEPT ![p] = Idle]
  /\ UNCHANGED <<state, stamps>>

\* A process dies, or its transaction fails.
Dies(p) ==
  /\ proc[p] # Idle
  /\ proc' = [proc EXCEPT ![p] = Idle] /\ lock' = (IF lock = p THEN Nobody ELSE lock)
  /\ UNCHANGED <<state, memory, stamps>>

Init ==
  /\ state = <<>> /\ memory = Empty /\ lock = Nobody /\ stamps = 0
  /\ proc = [p \in Processes |-> Idle]

Next ==
  \E p \in Processes :
    \/ Queue(p) \/ VerifyRun(p) \/ VerifyStale(p) \/ Revalidate(p) \/ FormalizeEdit(p) \/ BugScan(p)
    \/ Load(p) \/ Save(p) \/ SyncVerification(p) \/ SyncDebug(p) \/ RecordNote(p) \/ RecordsReport(p)
    \/ Commit(p) \/ Dies(p)

Spec == Init /\ [][Next]_vars
-----------------------------------------------------------------------------
(* Properties.                                                             *)

NoneTwice(history) == \A i, j \in DOMAIN history : history[i] = history[j] => i = j

\* What a reader took into the memory stays in it, where it was and once, though
\* the state loses markers to two commands at once (load_memory, "a single
\* critical section").
NothingForgotten ==
  [][/\ IsPrefix(memory.verification, memory'.verification) /\ NoneTwice(memory'.verification)
     /\ IsPrefix(memory.debug, memory'.debug) /\ NoneTwice(memory'.debug)
     /\ IsPrefix(memory.notes, memory'.notes)]_vars
=============================================================================

------------------------------ MODULE TurnRecords -----------------------------
(***************************************************************************)
(* The record of an agent's turn, or of an exchange of the map-level         *)
(* discussion (proof_map.py record_agent_turn, record_discussion_turn):       *)
(* events in the database that say it started and ended, and beside them a     *)
(* file with its conversation, which no transaction covers (storage.py         *)
(* put_turn_transcript).  Several processes may record the end of one turn:     *)
(* a host that was cut short does so again.                                  *)
(***************************************************************************)
EXTENDS Naturals

CONSTANTS
  Processes,
  MaxAttempts   \* a bound on the attempts to record an end

Nothing == 0    \* no file, or no end; an attempt's conversation is its number
Nobody == "nobody"

VARIABLES
  started,   \* the started event
  ended,     \* the attempt whose ended event has committed
  others,    \* ended events that committed after the first
  file,      \* the transcript at its place
  proc,      \* process -> its step, its attempt and what it has moved aside
  lock,      \* who holds the write lock
  attempts

vars == <<started, ended, others, file, proc, lock, attempts>>

Idle == [step |-> "idle", own |-> Nothing, aside |-> Nothing]

Ready(p, step) == proc[p].step = step /\ lock = p

Start(p) ==
  /\ lock = Nobody /\ proc[p] = Idle /\ ~started
  /\ started' = TRUE
  /\ UNCHANGED <<ended, others, file, proc, lock, attempts>>

\* With the write lock taken: a turn whose end is recorded is refused.  An end
\* without a start is a launch that failed before any job existed.
NeverRefused == FALSE
EndedAlready == ended # Nothing

Begin(p) ==
  /\ lock = Nobody /\ proc[p] = Idle /\ attempts < MaxAttempts
  /\ ~EndedAlready
  /\ lock' = p /\ attempts' = attempts + 1
  /\ proc' = [proc EXCEPT ![p] = [Idle EXCEPT !.step = "writing", !.own = attempts + 1]]
  /\ UNCHANGED <<started, ended, others, file>>

\* What is there is an orphan of a crash: moved aside, to a name of its own.
MoveAside(p) ==
  /\ Ready(p, "writing") /\ file # Nothing
  /\ proc' = [proc EXCEPT ![p].aside = file]
  /\ file' = Nothing
  /\ UNCHANGED <<started, ended, others, lock, attempts>>

\* The temporary file takes its place by a rename, so no reader sees half of it.
Put(p) ==
  /\ Ready(p, "writing") /\ file = Nothing
  /\ file' = proc[p].own
  /\ proc' = [proc EXCEPT ![p].step = "put"]
  /\ UNCHANGED <<started, ended, others, lock, attempts>>

Left(aside) == Nothing
Undone(aside) == aside

\* The write, the event or the commit fails: the file is as it was before the attempt.
RollBack(p) ==
  /\ lock = p /\ proc[p].step \in {"writing", "put"}
  /\ file' = IF proc[p].step = "writing" /\ file # Nothing THEN file ELSE Undone(proc[p].aside)
  /\ proc' = [proc EXCEPT ![p] = Idle] /\ lock' = Nobody
  /\ UNCHANGED <<started, ended, others, attempts>>

\* Once committed, what was moved aside is removed; if it is not, nothing reads it.
Commit(p) ==
  /\ Ready(p, "put")
  /\ ended' = IF ended = Nothing THEN proc[p].own ELSE ended
  /\ others' = IF ended = Nothing THEN others ELSE others \cup {proc[p].own}
  /\ proc' = [proc EXCEPT ![p] = Idle] /\ lock' = Nobody
  /\ UNCHANGED <<started, file, attempts>>

\* The process dies: the database forgets the attempt, the files stay as they are.
Die(p) ==
  /\ lock = p
  /\ proc' = [proc EXCEPT ![p] = Idle] /\ lock' = Nobody
  /\ UNCHANGED <<started, ended, others, file, attempts>>

Init ==
  /\ started = FALSE /\ ended = Nothing /\ others = {} /\ file = Nothing
  /\ proc = [p \in Processes |-> Idle] /\ lock = Nobody /\ attempts = 0

Next ==
  \E p \in Processes :
    Start(p) \/ Begin(p) \/ MoveAside(p) \/ Put(p) \/ RollBack(p) \/ Commit(p) \/ Die(p)

Spec == Init /\ [][Next]_vars
-----------------------------------------------------------------------------
(* Properties.                                                             *)

\* What a reader is shown with the end of a turn is the conversation recorded
\* with that end, through every failed, repeated and cut-short attempt to record
\* it ("its record is kept as it is", record_agent_turn); and an attempt that
\* rolls back puts back what it had moved aside.
RecordKept ==
  [][/\ others' = {}
     /\ ended' # Nothing => file' = ended'
     /\ \A p \in Processes :
          proc[p].aside # Nothing /\ proc'[p] = Idle /\ ended' = Nothing /\ file' # file
            => file' = proc[p].aside]_vars
=============================================================================

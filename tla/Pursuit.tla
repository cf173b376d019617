------------------------------- MODULE Pursuit -------------------------------
(***************************************************************************)
(* A project Pursue's history (src/proof_cli/pursuit.py): the steps its host *)
(* records, the records of the turns spent under it, and what it is then     *)
(* read to have spent. The host that runs the turns is outside the           *)
(* repository: it records what it does, may fail to, and may die in between. *)
(***************************************************************************)
EXTENDS Naturals, FiniteSets, Sequences

CONSTANTS
    Pursuits,       \* ids a host may give its pursuits
    NodeTurns,      \* turns on a node
    ReaderTurns,    \* turns of the Reader
    None,
    MaxSteps        \* bound: steps of one pursuit

Turns == NodeTurns \cup ReaderTurns

VARIABLES
    steps,  \* [Pursuits -> its recorded steps]
    record, \* [Turns -> [under, started, ended]] as recorded
    turn,   \* [Turns -> [at, under]]: what became of it
    unsaid, \* [Pursuits -> turns with no record, which no step has said]
    up      \* [Pursuits -> its host runs]

vars == <<steps, record, turn, unsaid, up>>

NoTurn == [at |-> "none", under |-> None]
NoRecord == [under |-> None, started |-> FALSE, ended |-> None]

Init ==
    /\ steps = [p \in Pursuits |-> <<>>]
    /\ record = [t \in Turns |-> NoRecord]
    /\ turn = [t \in Turns |-> NoTurn]
    /\ unsaid = [p \in Pursuits |-> {}]
    /\ up = [p \in Pursuits |-> FALSE]

Phases(p) == {steps[p][i].phase : i \in DOMAIN steps[p]}

-----------------------------------------------------------------------------
(* record_pursuit                                                           *)

(* A start takes an id no pursuit has; any other phase needs a pursuit that *)
(* started and has not ended.                                               *)
MayRecord(p, phase) ==
    IF phase = "start" THEN steps[p] = <<>> ELSE steps[p] # <<>> /\ "end" \notin Phases(p)

(* A step may carry the Pursue's total, and with it that the spend on       *)
(* record is incomplete: the host says so of the turns it could not record. *)
Recorded(p, phase, total, launched) ==
    /\ MayRecord(p, phase)
    /\ Len(steps[p]) < MaxSteps
    /\ steps' = [steps EXCEPT ![p] = Append(@,
           [phase |-> phase, total |-> total, launched |-> launched, incomplete |-> total /\ unsaid[p] # {}])]
    /\ unsaid' = [unsaid EXCEPT ![p] = IF total THEN {} ELSE @]
    /\ UNCHANGED <<record, turn>>

Start(p) == /\ Recorded(p, "start", FALSE, TRUE)
            /\ up' = [up EXCEPT ![p] = TRUE]

(* theorem, spend, stop and release_failed read alike.                      *)
Step(p) ==
    /\ up[p]
    /\ \E total \in BOOLEAN : Recorded(p, "step", total, TRUE)
    /\ UNCHANGED up

(* A Reader's launch refused before its job existed is on no turn's record. *)
ReaderEnd(p) ==
    /\ up[p]
    /\ \E total \in BOOLEAN, launched \in BOOLEAN : Recorded(p, "reader_end", total, launched)
    /\ UNCHANGED up

End(p) ==
    /\ up[p]
    /\ \A t \in Turns : turn[t].under = p => turn[t].at \in {"over", "off"}
    /\ \E total \in BOOLEAN : Recorded(p, "end", total, TRUE)
    /\ up' = [up EXCEPT ![p] = FALSE]

-----------------------------------------------------------------------------
(* The turns: a record that is not written leaves the host to say so        *)

Keeps(t, r) == record' = [record EXCEPT ![t] = r] /\ UNCHANGED unsaid
Loses(t) == unsaid' = [unsaid EXCEPT ![turn[t].under] = @ \cup {t}] /\ UNCHANGED record
Becomes(t, at) == turn' = [turn EXCEPT ![t].at = at]

(* A node turn is recorded before it runs (record_agent_turn), ...          *)
NodeStarts(t, p) ==
    /\ up[p] /\ turn[t] = NoTurn
    /\ turn' = [turn EXCEPT ![t] = [at |-> "ready", under |-> p]]
    /\ \/ record' = [record EXCEPT ![t] = [under |-> p, started |-> TRUE, ended |-> None]] /\ UNCHANGED unsaid
       \/ unsaid' = [unsaid EXCEPT ![p] = @ \cup {t}] /\ UNCHANGED record
    /\ UNCHANGED <<steps, up>>

(* ... and a launch that fails or is called off is an end with no job; with *)
(* no record of it there is none to correct.                                *)
NodeLaunches(t) ==
    /\ turn[t].at = "ready" /\ up[turn[t].under]
    /\ Becomes(t, "running")
    /\ UNCHANGED <<steps, record, unsaid, up>>
NodeFails(t) ==
    /\ turn[t].at = "ready" /\ up[turn[t].under]
    /\ Becomes(t, "off")
    /\ \/ \E failed \in BOOLEAN :
            Keeps(t, [record[t] EXCEPT !.under = turn[t].under, !.ended = [job |-> FALSE, failed |-> failed]])
       \/ Loses(t)
    /\ UNCHANGED <<steps, up>>

(* record_reader_turn: recorded once its job exists; its pursuit is there.  *)
ReaderLaunches(t, p) ==
    /\ up[p] /\ turn[t] = NoTurn
    /\ turn' = [turn EXCEPT ![t] = [at |-> "unrecorded", under |-> p]]
    /\ UNCHANGED <<steps, record, unsaid, up>>
ReaderStarts(t) ==
    /\ turn[t].at = "unrecorded" /\ up[turn[t].under] /\ steps[turn[t].under] # <<>>
    /\ Becomes(t, "running")
    /\ Keeps(t, [record[t] EXCEPT !.under = turn[t].under, !.started = TRUE]) \/ Loses(t)
    /\ UNCHANGED <<steps, up>>

(* A turn ends once on record; its record alone may be the end's.           *)
TurnEnds(t) ==
    /\ turn[t].at = "running" /\ up[turn[t].under]
    /\ Becomes(t, "over")
    /\ \/ /\ record[t].ended = None
          /\ Keeps(t, [record[t] EXCEPT !.under = turn[t].under, !.ended = [job |-> TRUE, failed |-> FALSE]])
       \/ Loses(t)
    /\ UNCHANGED <<steps, up>>

(* The host's process dies, its agents with it.                             *)
HostDies(p) ==
    /\ up[p]
    /\ up' = [up EXCEPT ![p] = FALSE]
    /\ UNCHANGED <<steps, record, turn, unsaid>>

Next ==
    \/ \E p \in Pursuits : Start(p) \/ Step(p) \/ ReaderEnd(p) \/ End(p) \/ HostDies(p)
    \/ \E t \in NodeTurns : NodeLaunches(t) \/ NodeFails(t) \/ \E p \in Pursuits : NodeStarts(t, p)
    \/ \E t \in ReaderTurns : ReaderStarts(t) \/ \E p \in Pursuits : ReaderLaunches(t, p)
    \/ \E t \in Turns : TurnEnds(t)

Spec == Init /\ [][Next]_vars

-----------------------------------------------------------------------------
(* project_progress                                                         *)

(* _spends: a node turn that began, and a Reader turn on record, however    *)
(* either ended; a turn that ended with no job never began.                 *)
OnRecord(p) == {t \in Turns : record[t].under = p}
EveryOne(p) == OnRecord(p)
Began(p) == {t \in OnRecord(p) : record[t].ended = None \/ record[t].ended.job}
Spent(p) == Cardinality(Began(p))
UnderWay(p) == Cardinality({t \in Began(p) : record[t].ended = None})

Totals(p) == {i \in DOMAIN steps[p] : steps[p][i].total}

(* _pursuit_budget: at least this much, when a step said so, or a Reader    *)
(* may have begun and no turn of it was kept.                               *)
SpendIncomplete(p) ==
    \/ \E i \in Totals(p) : steps[p][i].incomplete
    \/ /\ \E i \in DOMAIN steps[p] : steps[p][i].phase = "reader_end" /\ steps[p][i].launched
       /\ OnRecord(p) \cap ReaderTurns = {}

Status(p) == IF "end" \in Phases(p) THEN "ended" ELSE IF up[p] THEN "running" ELSE "interrupted"

-----------------------------------------------------------------------------
(* The turns that had a job.                                                *)
Ran(p) == {t \in Turns : turn[t].under = p /\ turn[t].at \in {"unrecorded", "running", "over"}}

(* What a Pursue is read to have spent is not less than what it spent,      *)
(* unless it is read as incomplete or its host died or has yet to say so;   *)
(* and the turns read as ended with a job did have one.                     *)
SpendIsItsTurns ==
    \A p \in Pursuits :
        /\ Spent(p) - UnderWay(p) <= Cardinality(Ran(p))
        /\ \/ SpendIncomplete(p) \/ unsaid[p] # {}
           \/ \E t \in Ran(p) : turn[t].at = "unrecorded"
           \/ Cardinality(Ran(p)) <= Spent(p)
=============================================================================

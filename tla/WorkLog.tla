------------------------------- MODULE WorkLog --------------------------------
(***************************************************************************)
(* A node's work log (proof_map.py work_log, storage.py acting_as): which   *)
(* role did what, read off one event log that every run of the project       *)
(* writes to.  Several runs act under one agent's name at once.  An event     *)
(* written for a turn names it; one from before events did is ascribed to a   *)
(* turn only when the log ties it to that one, and is otherwise left unknown.  *)
(***************************************************************************)
EXTENDS Naturals, FiniteSets, Sequences, SequencesExt

CONSTANTS
  Nodes,
  Turns, NodeOf, RoleOf,  \* the turns of the instance, the node each works, its role
  NameOf,                 \* the name each turn's agent acts under
  Reader,                 \* what stands for the node of a Reader's turn, which has none
  Researcher,             \* the researcher's name: no agent's
  MaxActs                 \* a bound on the events that are not a turn's own

VARIABLES
  log,    \* the events, oldest first
  going   \* the turns that are running

vars == <<log, going>>

Entries(kind) == {k \in DOMAIN log : log[k].kind = kind}
Recorded(kind, t) == \E k \in Entries(kind) : log[k].turn = t

\* "named": the turn its acting_turn field names; "turn" for an act is who really did it.
Event(kind, t, about, by, named) == [kind |-> kind, turn |-> t, about |-> about, by |-> by, named |-> named]
NoTurn == "no turn"
-----------------------------------------------------------------------------
(* What happens.                                                           *)

Place(t) == NodeOf[t]

\* A node has one turn at a time.  A turn ends once, and with its record.
Start(t) ==
  /\ ~Recorded("started", t)
  /\ \A u \in going : Place(u) # Place(t)
  /\ log' = Append(log, Event("started", t, Place(t), NameOf[t], NoTurn))
  /\ going' = going \cup {t}

End(t) ==
  /\ t \in going
  /\ log' = Append(log, Event("ended", t, Place(t), NameOf[t], NoTurn))
  /\ going' = going \ {t}

\* The host died with the turn: no end is recorded.
Die(t) ==
  /\ t \in going
  /\ going' = going \ {t}
  /\ UNCHANGED log

MoreActs == Cardinality(Entries("act")) < MaxActs

\* append_event in a turn: inside acting_as (the CLI and the host enter it), or
\* as it was written before events named their turn.
Act(t, n, named) ==
  /\ t \in going /\ MoreActs
  /\ log' = Append(log, Event("act", t, n, NameOf[t], IF named THEN t ELSE NoTurn))
  /\ UNCHANGED going

\* The researcher's own command is never stamped with a turn (not_acting).
ActOutside(n) ==
  /\ MoreActs
  /\ log' = Append(log, Event("act", NoTurn, n, Researcher, NoTurn))
  /\ UNCHANGED going
-----------------------------------------------------------------------------
(* The reading.                                                            *)

\* The turns a pass over the log holds to be running, by node: a start puts
\* its turn there, an end takes away whichever is there.
After(running, event) ==
  IF event.kind = "started" THEN [running EXCEPT ![event.about] = event.turn]
  ELSE IF event.kind = "ended" THEN [running EXCEPT ![event.about] = NoTurn]
  ELSE running

RunningAt(k) == FoldLeft(After, [n \in Nodes \cup {Reader} |-> NoTurn], SubSeq(log, 1, k - 1))

UnderNameHere(running, event) ==
  {n \in {event.about} : running[n] # NoTurn /\ NameOf[running[n]] = event.by}

UnderName(running, event) ==
  {n \in DOMAIN running : running[n] # NoTurn /\ NameOf[running[n]] = event.by}

Unknown == [role |-> "none", known |-> FALSE, from |-> NoTurn]
OwnActor == [role |-> "none", known |-> TRUE, from |-> NoTurn]

\* How the log of node n shows its event k (n is the node the event is about, or
\* one that a dependency, a fog item or a definition ties it to: then "about" differs).
Shown(n, k) ==
  LET event == log[k]
      under == UnderName(RunningAt(k), event)
  IN  IF event.named # NoTurn
      THEN [role |-> RoleOf[event.named], known |-> TRUE,
            from |-> IF Place(event.named) \in {n, Reader} THEN NoTurn ELSE Place(event.named)]
      ELSE IF under = {} THEN OwnActor
      ELSE IF event.about = n /\ under = {n}
      THEN [role |-> RoleOf[RunningAt(k)[n]], known |-> TRUE, from |-> NoTurn]
      ELSE Unknown

Init == log = <<>> /\ going = {}

Next ==
  \/ \E t \in Turns :
       \/ Start(t)
       \/ End(t)
       \/ Die(t)
       \/ \E n \in Nodes : \E named \in BOOLEAN : Act(t, n, named)
  \/ \E n \in Nodes : ActOutside(n)

Spec == Init /\ [][Next]_vars
-----------------------------------------------------------------------------
(* Properties.                                                             *)

\* A role is "never guessed" (work_log): one the log of a node shows is the role
\* of the turn that did it, whatever other turns run under its name, and the
\* researcher's own doings are given no role and are never unknown.
RoleNeverGuessed ==
  \A k \in Entries("act") : \A n \in Nodes :
    LET shown == Shown(n, k)
    IN  /\ shown.role # "none" => log[k].turn # NoTurn /\ shown.role = RoleOf[log[k].turn]
        /\ log[k].turn = NoTurn => shown = OwnActor

=============================================================================

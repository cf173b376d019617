----------------------------- MODULE ProjectList ------------------------------
(***************************************************************************)
(* The list of the researcher's projects (projects.py): one file that the     *)
(* Home, `proof init` and `proof map open` in terminals and agents rewrite     *)
(* whole. Each change reads it, changes it and replaces it under a lock on a    *)
(* file beside it, which a process that dies gives up; the Home reads it with    *)
(* no lock.                                                                      *)
(***************************************************************************)
EXTENDS Naturals, FiniteSets

CONSTANTS
  Processes,
  Projects,    \* their keys: one spelling per folder
  MaxOpens     \* a bound on the times a project is opened

Nobody == "nobody"

VARIABLES
  file,     \* projects.json: project -> when it was last opened (0: never)
  asked,    \* what the changes, one after another, make of the list
  lock,     \* who holds projects.json.lock
  proc      \* process -> its change, and what it read

vars == <<file, asked, lock, proc>>

Idle == [step |-> "idle", change |-> "none", project |-> Nobody, read |-> <<>>]

Registered(list, project, opened) ==
  [q \in DOMAIN list \cup {project} |->
     LET was == IF q \in DOMAIN list THEN list[q] ELSE 0
     IN  IF q = project /\ opened THEN was + 1 ELSE was]

Forgotten(list, project) == [q \in DOMAIN list \ {project} |-> list[q]]

Change(list, change, project) ==
  IF change = "forget" THEN Forgotten(list, project)
  ELSE Registered(list, project, change = "open")

Opens(list, project) == IF project \in DOMAIN list THEN list[project] ELSE 0

\* register_project and forget_project, called.
Ask(p, change, project) ==
  /\ proc[p] = Idle
  /\ proc' = [proc EXCEPT ![p] = [Idle EXCEPT !.step = "waiting", !.change = change, !.project = project]]
  /\ UNCHANGED <<file, asked, lock>>

Unlocked(p) == TRUE
LockFree(p) == lock = Nobody

Lock(p) ==
  /\ proc[p].step = "waiting" /\ LockFree(p)
  /\ lock' = p
  /\ proc' = [proc EXCEPT ![p].step = "locked"]
  /\ UNCHANGED <<file, asked>>

Reads(p) ==
  /\ proc[p].step = "locked"
  /\ Opens(file, proc[p].project) < MaxOpens
  /\ proc' = [proc EXCEPT ![p].step = "read", ![p].read = file]
  /\ UNCHANGED <<file, asked, lock>>

Ends(p) == proc' = [proc EXCEPT ![p] = Idle] /\ lock' = (IF lock = p THEN Nobody ELSE lock)

\* The change is written to a file of this writer's own, which replaces the list.
Replaces(p) ==
  /\ proc[p].step = "read"
  /\ file' = Change(proc[p].read, proc[p].change, proc[p].project)
  /\ asked' = Change(asked, proc[p].change, proc[p].project)
  /\ Ends(p)

\* A write that fails, or a process that dies, before the replace: the list is
\* as it was, and the lock is given up.
Fails(p) ==
  /\ proc[p].step \in {"locked", "read"}
  /\ Ends(p)
  /\ UNCHANGED <<file, asked>>

Init ==
  /\ file = <<>> /\ asked = <<>> /\ lock = Nobody
  /\ proc = [p \in Processes |-> Idle]

Next ==
  \E p \in Processes :
    \/ \E change \in {"register", "open", "forget"} : \E project \in Projects : Ask(p, change, project)
    \/ Lock(p)
    \/ Reads(p)
    \/ Replaces(p)
    \/ Fails(p)

Spec == Init /\ [][Next]_vars
-----------------------------------------------------------------------------
(* Properties.                                                             *)

\* No change is lost, nor half made, whoever else changes the list or dies: it
\* is what the changes make of it one after another ("Without it two
\* registrations at once lost one of them", projects.py).
NoChangeLost == file = asked
=============================================================================

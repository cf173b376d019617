---------------------------- MODULE DecisionLog ----------------------------
(***************************************************************************)
(* What the Review history promises (ADR-0010): one list of the decisions  *)
(* made on a project, each of them once, which only ever grows at its end. *)
(***************************************************************************)
EXTENDS Sequences

CONSTANTS Decisions   \* the decisions that may be made
VARIABLE log          \* the decisions that count, oldest first

Init == log = <<>>

Decided == {log[i] : i \in DOMAIN log}

Decide(d) == d \notin Decided /\ log' = Append(log, d)

Next == \E d \in Decisions : Decide(d)

Spec == Init /\ [][Next]_log
=============================================================================

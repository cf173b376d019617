----------------------------- MODULE Challenges -----------------------------
(***************************************************************************)
(* How the Challenges on one node end (proof_map.py, _with_resolution and   *)
(* what writes the endings it reads). An ending is recorded where it is     *)
(* made: on the Challenge's row (withdrawn), in a passing verdict (fixed),   *)
(* in a decision line of the reviews file (dismissed, upheld, resolved by    *)
(* revision), or nowhere (superseded by a restatement). The lines are in git *)
(* and may go and come back under a database that stays. Every operation is *)
(* one write transaction. Seals are NodeStates'.                            *)
(***************************************************************************)
EXTENDS Naturals, Sequences, FiniteSetsExt

CONSTANTS
    Ids,            \* the Challenges that may be raised
    MaxLines,       \* bounds the decision lines
    MaxChanges      \* bounds the restatements

Authors == {"researcher", "agent"}

VARIABLES
    row,        \* [Ids -> the challenges row]
    fixes,      \* the Challenges that passing verdicts say are fixed
    lines,      \* the decision lines, oldest first
    imported,   \* the node is an imported result, decided by Reference review
    changes,    \* how often the node's own text changed
    checkout    \* the last step was git's

vars == <<row, fixes, lines, imported, changes, checkout>>

Unraised == [raised |-> FALSE, kind |-> "proof", by |-> "agent", at |-> 0, withdrawn |-> FALSE]

-----------------------------------------------------------------------------
(* challenge_resolution: the newest line that counts and names it.          *)
Naming(c) == {i \in DOMAIN lines : lines[i].counts /\ c \in lines[i].names}

(* _challenge_outcome                                                      *)
Outcome(line) ==
    IF line.kind = "resolution" THEN "dismissed"
    ELSE IF ~ line.approved THEN "upheld"
    ELSE IF line.kind = "reference" THEN "dismissed" ELSE "resolved"

(* A gap in the proof of the statement as it was. A Challenge from before   *)
(* Challenges had a kind follows the statement.                             *)
Superseded(c) == row[c].kind = "proof" /\ changes > row[c].at

(* _with_resolution                                                        *)
Status(c) ==
    IF ~ row[c].raised THEN "unraised"
    ELSE IF row[c].withdrawn THEN "withdrawn"
    ELSE IF c \in fixes THEN "fixed"
    ELSE IF Naming(c) # {} THEN Outcome(lines[Max(Naming(c))])
    ELSE IF Superseded(c) THEN "superseded"
    ELSE "open"

Open == {c \in Ids : Status(c) = "open"}

-----------------------------------------------------------------------------
Init ==
    /\ row \in [Ids -> {Unraised, [Unraised EXCEPT !.raised = TRUE, !.kind = "none"]}]
    /\ fixes = {} /\ lines = <<>> /\ imported \in BOOLEAN /\ changes = 0 /\ checkout = FALSE

Ours == checkout' = FALSE

(* A new row, and a withdrawn one.                                         *)
Inserted(kind, by) == [Unraised EXCEPT !.raised = TRUE, !.kind = kind, !.by = by, !.at = changes]
Withdrawn(challenge) == [challenge EXCEPT !.withdrawn = TRUE]

(* _raise_challenge: opened, or a verdict's objection.                      *)
Raise(c, kind, by) ==
    /\ ~ row[c].raised
    /\ row' = [row EXCEPT ![c] = Inserted(kind, by)]
    /\ Ours /\ UNCHANGED <<fixes, lines, imported, changes>>

(* classify_challenge: given once, while it is open.                        *)
Classify(c, kind) ==
    /\ c \in Open /\ row[c].kind = "none"
    /\ row' = [row EXCEPT ![c].kind = kind]
    /\ Ours /\ UNCHANGED <<fixes, lines, imported, changes>>

(* withdraw_challenge: no agent withdraws the researcher's.                 *)
MayWithdraw(c, by) == c \in Open /\ (by = "researcher" \/ row[c].by = "agent")
Withdraw(c, by) ==
    /\ MayWithdraw(c, by)
    /\ row' = [row EXCEPT ![c] = Withdrawn(@)]
    /\ Ours /\ UNCHANGED <<fixes, lines, imported, changes>>

(* _endings: a passing verdict says where each proof Challenge open on the  *)
(* node is fixed, and where the counterexample of each agent's Challenge to *)
(* the statement fails, unless that counterexample decided first.           *)
PassingVerdict ==
    /\ ~ imported
    /\ \E failing \in SUBSET {c \in Open : row[c].kind = "statement" /\ row[c].by = "agent"} :
          fixes' = fixes \cup failing \cup {c \in Open : row[c].kind = "proof"}
    /\ Ours /\ UNCHANGED <<row, lines, imported, changes>>

(* decision_binding: what an Acceptance or a Reference review resolves.     *)
EveryRaised == {c \in Ids : row[c].raised}
OpenIds == Open

Line(kind, approved, names) == [kind |-> kind, approved |-> approved, names |-> names, counts |-> TRUE]

Decide(approved) ==
    /\ Len(lines) < MaxLines
    /\ lines' = Append(lines, Line(IF imported THEN "reference" ELSE "acceptance", approved, OpenIds))
    /\ Ours /\ UNCHANGED <<row, fixes, imported, changes>>

(* dismiss_challenge: looked at again on the write lock.                    *)
Dismiss(c) ==
    /\ c \in Open /\ Len(lines) < MaxLines
    /\ lines' = Append(lines, Line("resolution", FALSE, {c}))
    /\ Ours /\ UNCHANGED <<row, fixes, imported, changes>>

(* restate_node, or an edit of a definition the node names.                 *)
Restate ==
    /\ changes < MaxChanges
    /\ changes' = changes + 1
    /\ Ours /\ UNCHANGED <<row, fixes, lines, imported>>

(* A checkout: a line goes, or no longer verifies, or is there again.       *)
Checkout ==
    \E i \in DOMAIN lines :
        /\ lines' = [lines EXCEPT ![i].counts = ~ @]
        /\ checkout' = TRUE
        /\ UNCHANGED <<row, fixes, imported, changes>>

Next ==
    \/ \E c \in Ids, by \in Authors :
        \/ \E kind \in {"proof", "statement"} : Raise(c, kind, by)
        \/ Withdraw(c, by)
    \/ \E c \in Ids : Dismiss(c) \/ \E kind \in {"proof", "statement"} : Classify(c, kind)
    \/ \E approved \in BOOLEAN : Decide(approved)
    \/ PassingVerdict
    \/ Restate
    \/ Checkout

Spec == Init /\ [][Next]_vars

-----------------------------------------------------------------------------
(* An ending stands: however the three records that hold endings are        *)
(* interleaved, a Challenge that ended reads the same ending from then on,  *)
(* save when git takes away or brings back the line that ended it; and what *)
(* the database itself ended, git does not touch (_with_resolution and what *)
(* it reads).                                                              *)
EndingsStand ==
    [][\A c \in Ids :
        Status(c) \notin {"unraised", "open"} =>
            Status(c)' = Status(c) \/ (checkout' /\ Status(c) \notin {"withdrawn", "fixed"})]_vars
=============================================================================

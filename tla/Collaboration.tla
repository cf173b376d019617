--------------------------- MODULE Collaboration ----------------------------
(***************************************************************************)
(* Collaboration records (src/proof_cli/collaboration.py): the generic       *)
(* review history, an append-only table; the side document of contributors,  *)
(* comments, branches and policies, loaded and saved whole in one            *)
(* transaction; and the one-shot move of an older project's review records   *)
(* out of collaboration.json, which reads the file before it takes the lock, *)
(* strips it after it commits, and may run inside a caller's transaction     *)
(* that rolls back.                                                          *)
(***************************************************************************)
EXTENDS Naturals, FiniteSets

CONSTANTS
    Processes,
    Kept,       \* review records an older project left in collaboration.json
    Malformed,  \* entries there that are not records
    Forged,     \* records somebody writes into the file
    Reviews,    \* reviews requested by the program
    Objects, Authors, Branches,
    Assets,
    None,
    MaxEdits    \* bound: transactions that change the records

VARIABLES
    file,   \* what collaboration.json's review_records holds
    db,     \* the committed rows
    lock,   \* who holds the write lock
    proc,   \* [Processes -> what each is doing]
    edits

vars == <<file, db, lock, proc, edits>>

InJson == Kept \cup Malformed \cup Forged

Idle == [at |-> "idle"]

Init ==
    /\ file = Kept \cup Malformed
    /\ db = [migrated |-> FALSE,
             history |-> [r \in Kept \cup Forged \cup Reviews |-> None],   \* a review's latest row
             warned |-> {},                                               \* records an event was kept of
             contributors |-> {}, threads |-> {}, comments |-> {},
             branches |-> [b \in Branches |-> None],
             policies |-> 0]
    /\ lock = None
    /\ proc = [p \in Processes |-> Idle]
    /\ edits = 0

Goes(p, t) == proc' = [proc EXCEPT ![p] = t]

Missing(d, rs) == {r \in rs : d.history[r] = None}

(* _append_legacy_record: with the decision it has, unless it is known.     *)
Appended(d, rs) ==
    [d EXCEPT !.history = [r \in DOMAIN @ |-> IF r \in Missing(d, rs) THEN "decided" ELSE @[r]]]

Records(rs) == rs \ Malformed

-----------------------------------------------------------------------------
(* _migrate_legacy_review_records, called on its own                        *)

ReadsFile(p) ==
    /\ proc[p] = Idle
    /\ Goes(p, [at |-> "read", found |-> file])
    /\ UNCHANGED <<file, db, lock, edits>>

(* The common case takes no lock: it was done long ago, and the file is     *)
(* clean.                                                                   *)
Peeks(p) ==
    /\ proc[p].at = "read"
    /\ Goes(p, IF db.migrated /\ proc[p].found = {} THEN Idle
               ELSE [at |-> "wait", found |-> proc[p].found, peeked |-> db.migrated])
    /\ UNCHANGED <<file, db, lock, edits>>

(* In the transaction: the first one migrates what it read, a later one     *)
(* keeps a warning of every record nobody knows.                            *)
PendingAsPeeked(p) == ~ proc[p].peeked
Pending(p) == ~ db.migrated

Migrates(p) ==
    /\ proc[p].at = "wait" /\ lock = None
    /\ LET found == proc[p].found IN
       db' = IF Pending(p)
             THEN [Appended(db, Records(found)) EXCEPT !.migrated = TRUE, !.warned = @ \cup (found \cap Malformed)]
             ELSE [db EXCEPT !.warned = @ \cup (found \cap Malformed) \cup Missing(db, Records(found))]
    /\ Goes(p, [at |-> "strip"])
    /\ UNCHANGED <<file, lock, edits>>

(* _strip_legacy_review_records re-reads the file and drops them all.       *)
Strips(p) ==
    /\ proc[p].at = "strip"
    /\ file' = {}
    /\ Goes(p, Idle)
    /\ UNCHANGED <<db, lock, edits>>

-----------------------------------------------------------------------------
(* A transaction that changes the records: it loads them, in it, which runs *)
(* the migration on its own connection and leaves the file alone.           *)

Unlocked(p) == TRUE
MayLock(p) == lock = None

Locks(p) ==
    /\ proc[p] = Idle /\ edits < MaxEdits
    /\ MayLock(p)
    /\ lock' = p
    /\ edits' = edits + 1
    /\ Goes(p, [at |-> "load"])
    /\ UNCHANGED <<file, db>>

StripsFile == {}
LeavesFile == file

Loads(p) ==
    /\ proc[p].at = "load"
    /\ file' = LeavesFile
    /\ Goes(p, [at |-> "edit",
                tx |-> IF db.migrated THEN db ELSE [Appended(db, Records(file)) EXCEPT !.migrated = TRUE]])
    /\ UNCHANGED <<db, lock, edits>>

Edited(p, d) == Goes(p, [at |-> "commit", tx |-> d])

(* upsert_contributor; set_contributor_role finds one or fails.             *)
Contributes(p, tx) == \E a \in Authors : Edited(p, [tx EXCEPT !.contributors = @ \cup {a}])

(* ensure_comment_thread, then add_comment, in one transaction.             *)
Comments(p, tx) ==
    \E o \in Objects, a \in Authors :
        Edited(p, [tx EXCEPT !.threads = @ \cup {o}, !.comments = @ \cup {<<o, a>>}])

CreatesBranch(p, tx) ==
    \E b \in Branches, s \in Assets :
        /\ tx.branches[b] = None
        /\ Edited(p, [tx EXCEPT !.branches[b] = [merged |-> FALSE, assets |-> {s}]])

(* The target takes over what it has not; a target that is not found fails. *)
MergesBranch(p, tx) ==
    \E b, into \in {x \in Branches : tx.branches[x] # None} :
        Edited(p, [tx EXCEPT !.branches[b].merged = TRUE, !.branches[into].assets = @ \cup tx.branches[b].assets])

SetsPolicy(p, tx) == Edited(p, [tx EXCEPT !.policies = @ + 1])

(* record_review_request, record_review_decision on a request there is, and *)
(* both at once; an import takes only the records it does not know.         *)
RequestsReview(p, tx) ==
    \E r \in Reviews : tx.history[r] = None /\ Edited(p, [tx EXCEPT !.history[r] = "requested"])
DecidesReview(p, tx) ==
    \E r \in Reviews : tx.history[r] # None /\ Edited(p, [tx EXCEPT !.history[r] = "decided"])
RecordsDecided(p, tx) ==
    \E r \in Reviews : tx.history[r] = None /\ Edited(p, Appended(tx, {r}))

Edits(p) ==
    /\ proc[p].at = "edit"
    /\ LET tx == proc[p].tx IN
         \/ Contributes(p, tx) \/ Comments(p, tx)
         \/ CreatesBranch(p, tx) \/ MergesBranch(p, tx) \/ SetsPolicy(p, tx)
         \/ RequestsReview(p, tx) \/ DecidesReview(p, tx) \/ RecordsDecided(p, tx)
    /\ UNCHANGED <<file, db, lock, edits>>

Commits(p) ==
    /\ proc[p].at = "commit"
    /\ db' = proc[p].tx /\ lock' = None
    /\ Goes(p, Idle)
    /\ UNCHANGED <<file, edits>>

(* A refusal, an error or the process's death: nothing of it is kept.       *)
Fails(p) ==
    /\ proc[p] # Idle
    /\ lock' = IF lock = p THEN None ELSE lock
    /\ Goes(p, Idle)
    /\ UNCHANGED <<file, db, edits>>

(* Outside the program: a record is written into the file.                  *)
Forges(r) ==
    /\ r \notin file /\ db.history[r] = None /\ r \notin db.warned
    /\ file' = file \cup {r}
    /\ UNCHANGED <<db, lock, proc, edits>>

Next ==
    \/ \E p \in Processes :
          \/ ReadsFile(p) \/ Peeks(p) \/ Migrates(p) \/ Strips(p)
          \/ Locks(p) \/ Loads(p) \/ Edits(p) \/ Commits(p) \/ Fails(p)
    \/ \E r \in Forged : Forges(r)

Spec == Init /\ [][Next]_vars

-----------------------------------------------------------------------------
(* Whatever rolls back, dies or runs at once, a review record of the older  *)
(* project is in the history or still in the file, and a malformed entry is *)
(* in a warning or still in the file.                                       *)
OldRecordsKept ==
    /\ \A r \in Kept : r \in file \/ db.history[r] # None
    /\ \A r \in Malformed : r \in file \/ r \in db.warned

(* Once the migration has committed, what turns up in collaboration.json is *)
(* never taken for a review, by a process that read it before either        *)
(* (_migrate_legacy_review_records).                                        *)
JsonNeverDecides ==
    [][db.migrated => /\ db'.migrated
                      /\ \A r \in Kept \cup Forged : db.history[r] = None => db'.history[r] = None]_vars

(* No write of one process takes another's away (issue #39), though each    *)
(* saves the whole document.                                                *)
WritesAreKept ==
    [][/\ db.comments \subseteq db'.comments /\ db.contributors \subseteq db'.contributors
       /\ \A r \in DOMAIN db.history : db.history[r] # None => db'.history[r] # None]_vars
=============================================================================

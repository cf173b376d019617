--------------------------- MODULE ReviewHistory ---------------------------
(***************************************************************************)
(* How a decision reaches proofs/<node>/reviews.jsonl (authority.py,       *)
(* reviews.py, storage.transaction): processes share one SQLite write lock *)
(* and the files.  A decision's line is appended as its transaction        *)
(* commits, before the commit itself and still under the lock, and goes to *)
(* git after it.  The first process to open a project from before ADR-0010 *)
(* moves its decisions out of the review_history table first.              *)
(*                                                                         *)
(* A process may die between any two steps, an append or a commit may      *)
(* fail, and with TornWrites a failed append may leave part of its line.   *)
(***************************************************************************)
EXTENDS Naturals, Sequences, FiniteSets, FiniteSetsExt

CONSTANTS
  Processes,   \* whoever opens the project: the page, a CLI command, an agent's tool
  Nodes,       \* the nodes, each with its folder and its reviews.jsonl
  NewIds,      \* a bound: the decisions the researcher makes
  Legacy,      \* the rows of review_history, oldest first: [id, node]
  Nobody,      \* nobody holds the write lock
  TornWrites,  \* whether a full disk may cut an append short
  MaxTorn      \* a bound on the appends cut short

LegacyIds == {Legacy[i].id : i \in DOMAIN Legacy}
ASSUME IdsAssumption == NewIds \cap LegacyIds = {} /\ Nobody \notin Processes
ASSUME LegacyAssumption ==
  /\ Legacy \in Seq([id : LegacyIds, node : Nodes])
  /\ \A i, j \in DOMAIN Legacy : Legacy[i].id = Legacy[j].id => i = j

\* An instance: three rows of two nodes.
ThreeRows == <<[id |-> "old1", node |-> "n2"], [id |-> "old2", node |-> "n1"], [id |-> "old3", node |-> "n2"]>>

VARIABLES
  writer,     \* the process whose BEGIN IMMEDIATE holds the write lock
  pc,         \* pc[p]: how far p is
  entry,      \* entry[p]: the decision p is making: [id, node]
  todo,       \* todo[p]: the rows of Legacy p still has to move
  lines,      \* lines[n]: the lines of n's reviews.jsonl
  cutShort,   \* the nodes whose file ends in part of a line, with no newline
  committed,  \* the decisions whose transaction committed
  moved,      \* project_meta says review_history was moved
  head        \* head[n]: how many lines of n's file git has

procVars == <<pc, entry, todo>>
fileVars == <<lines, cutShort>>
dbVars == <<committed, moved>>
vars == <<writer, procVars, fileVars, dbVars, head>>

States == {"closed", "migrating", "moving", "open", "deciding", "written", "recorded"}
NoEntry == [id |-> Nobody, node |-> Nobody]

Init ==
  /\ writer = Nobody
  /\ pc = [p \in Processes |-> "closed"]
  /\ entry = [p \in Processes |-> NoEntry]
  /\ todo = [p \in Processes |-> {}]
  /\ lines = [n \in Nodes |-> <<>>]
  /\ cutShort = {}
  /\ committed = {}
  /\ moved = FALSE
  /\ head = [n \in Nodes |-> 0]

-----------------------------------------------------------------------------
(* Reading the files.                                                      *)

\* load_entries: every line that parses; one that does not is ignored.
Entries == UNION {{lines[n][i] : i \in {j \in DOMAIN lines[n] : lines[n][j].readable}} : n \in Nodes}

Recorded == {l.id : l \in Entries}

\* Every decision some append began to write, readable or not.
Written == UNION {{lines[n][i].id : i \in DOMAIN lines[n]} : n \in Nodes}

\* Where n's file has what no reader can parse (REVIEW_LINE_UNREADABLE).
Unreadable(n) == {i \in DOMAIN lines[n] : ~lines[n][i].readable}

NextSeqOfCommitted == 1 + Cardinality(committed)

\* next_seq: one more than the newest entry's.
NextSeq == IF Entries = {} THEN 1 ELSE 1 + Max({l.seq : l \in Entries})

\* append_line: what is written after a line cut short reads as part of it.
AppendLine(n, id, seq) ==
  /\ lines' = [lines EXCEPT ![n] = Append(@, [id |-> id, seq |-> seq, readable |-> n \notin cutShort])]
  /\ cutShort' = cutShort \ {n}

\* The write stops part way: the disk is full.
AppendPart(n, id, seq) ==
  /\ TornWrites
  /\ Cardinality(UNION {{<<m, i>> : i \in Unreadable(m)} : m \in Nodes}) < MaxTorn
  /\ lines' = [lines EXCEPT ![n] = Append(@, [id |-> id, seq |-> seq, readable |-> FALSE])]
  /\ cutShort' = cutShort \cup {n}

-----------------------------------------------------------------------------
(* Moving review_history into the files, once (_migrate_review_history).   *)

MoveAll == DOMAIN Legacy

\* The rows that are not in the files yet: a rerun adds only what is new.
Unmoved == {i \in DOMAIN Legacy : Legacy[i].id \notin Recorded}

\* A process opens the project.  The move's flag is read on the write lock.
Open(p) ==
  /\ pc[p] = "closed"
  /\ writer = Nobody
  /\ IF moved
     THEN /\ pc' = [pc EXCEPT ![p] = "open"]
          /\ UNCHANGED <<writer, todo>>
     ELSE /\ pc' = [pc EXCEPT ![p] = "migrating"]
          /\ writer' = p
          /\ todo' = [todo EXCEPT ![p] = Unmoved]
  /\ UNCHANGED <<entry, fileVars, dbVars, head>>

\* Rows are moved oldest first.
IsOldest(p, i) == \A j \in todo[p] : i <= j

MoveRow(p) ==
  /\ pc[p] = "migrating"
  /\ \E i \in todo[p] :
       /\ IsOldest(p, i)
       /\ AppendLine(Legacy[i].node, Legacy[i].id, NextSeq)
       /\ todo' = [todo EXCEPT ![p] = @ \ {i}]
  /\ UNCHANGED <<writer, pc, entry, dbVars, head>>

FinishMove(p) ==
  /\ pc[p] = "migrating" /\ todo[p] = {}
  /\ moved' = TRUE
  /\ writer' = Nobody
  /\ pc' = [pc EXCEPT ![p] = "moving"]
  /\ UNCHANGED <<entry, todo, fileVars, committed, head>>

\* One commit for all the files written; a failed one leaves them uncommitted.
CommitMove(p) ==
  /\ pc[p] = "moving"
  /\ pc' = [pc EXCEPT ![p] = "open"]
  /\ head' \in {[n \in Nodes |-> Len(lines[n])], head}
  /\ UNCHANGED <<writer, entry, todo, fileVars, dbVars>>

-----------------------------------------------------------------------------
(* Deciding (record_decision, on the operation's transaction).             *)

\* The checks passed on the write lock; the line is to be written on commit.
Begin(p, id, n) ==
  /\ pc[p] = "open"
  /\ writer = Nobody
  /\ id \notin Written \cup committed \cup {entry[q].id : q \in Processes}   \* a fresh uuid
  /\ writer' = p
  /\ pc' = [pc EXCEPT ![p] = "deciding"]
  /\ entry' = [entry EXCEPT ![p] = [id |-> id, node |-> n]]
  /\ UNCHANGED <<todo, fileVars, dbVars, head>>

\* before_commit, still holding the lock.
Write(p) ==
  /\ pc[p] = "deciding"
  /\ AppendLine(entry[p].node, entry[p].id, NextSeq)
  /\ pc' = [pc EXCEPT ![p] = "written"]
  /\ UNCHANGED <<writer, entry, todo, dbVars, head>>

Commit(p) ==
  /\ pc[p] = "written"
  /\ committed' = committed \cup {entry[p].id}
  /\ writer' = Nobody
  /\ pc' = [pc EXCEPT ![p] = "recorded"]
  /\ UNCHANGED <<entry, todo, fileVars, moved, head>>

\* after_commit, the lock given up: git commits the file as it is by now, or
\* fails and leaves the decision recorded but not yet committed.
GitCommit(p) ==
  /\ pc[p] = "recorded"
  /\ pc' = [pc EXCEPT ![p] = "open"]
  /\ entry' = [entry EXCEPT ![p] = NoEntry]
  /\ head' \in {[head EXCEPT ![entry[p].node] = Len(lines[entry[p].node])], head}
  /\ UNCHANGED <<writer, todo, fileVars, dbVars>>

-----------------------------------------------------------------------------
(* What goes wrong.                                                        *)

HoldsLock(p) == pc[p] \in {"migrating", "deciding", "written"}

RollbackOnly(p, state) ==
  /\ pc' = [pc EXCEPT ![p] = state]
  /\ entry' = [entry EXCEPT ![p] = NoEntry]
  /\ todo' = [todo EXCEPT ![p] = {}]
  /\ UNCHANGED <<writer, dbVars, head>>

\* An exception inside the transaction: every row it wrote is undone and the
\* lock given up.  Nothing takes an appended line back (no on_rollback).
Rollback(p, state) ==
  /\ pc' = [pc EXCEPT ![p] = state]
  /\ entry' = [entry EXCEPT ![p] = NoEntry]
  /\ todo' = [todo EXCEPT ![p] = {}]
  /\ writer' = Nobody
  /\ UNCHANGED <<dbVars, head>>

WriteFailureIgnored(p) ==
  /\ pc[p] = "deciding"
  /\ pc' = [pc EXCEPT ![p] = "written"]
  /\ UNCHANGED <<writer, entry, todo, fileVars, dbVars, head>>

\* The append raises, having written nothing or part of the line.
WriteFails(p) ==
  \/ /\ pc[p] = "deciding"
     /\ \/ UNCHANGED fileVars
        \/ AppendPart(entry[p].node, entry[p].id, NextSeq)
     /\ Rollback(p, "open")
  \/ /\ pc[p] = "migrating" /\ todo[p] # {}
     /\ \/ UNCHANGED fileVars
        \/ \E i \in todo[p] : IsOldest(p, i) /\ AppendPart(Legacy[i].node, Legacy[i].id, NextSeq)
     /\ Rollback(p, "closed")

\* conn.commit() raises: the disk is full, or a reader outlasts the busy timeout.
CommitFails(p) ==
  /\ pc[p] = "written" \/ (pc[p] = "migrating" /\ todo[p] = {})
  /\ Rollback(p, IF pc[p] = "written" THEN "open" ELSE "closed")
  /\ UNCHANGED fileVars

\* The process dies: SQLite undoes an open transaction.
Crash(p) ==
  /\ pc[p] # "closed"
  /\ pc' = [pc EXCEPT ![p] = "closed"]
  /\ entry' = [entry EXCEPT ![p] = NoEntry]
  /\ todo' = [todo EXCEPT ![p] = {}]
  /\ writer' = IF HoldsLock(p) THEN Nobody ELSE writer
  /\ UNCHANGED <<fileVars, dbVars, head>>

-----------------------------------------------------------------------------
Finish(p) ==
  \/ MoveRow(p) \/ FinishMove(p) \/ CommitMove(p)
  \/ Write(p) \/ Commit(p) \/ GitCommit(p)

Fail(p) == WriteFails(p) \/ CommitFails(p) \/ Crash(p)

Next == \E p \in Processes :
  \/ Open(p)
  \/ \E id \in NewIds, n \in Nodes : Begin(p, id, n)
  \/ Finish(p)
  \/ Fail(p)

\* A process that has begun an operation runs on, unless it dies: nothing in it
\* waits on another process once it holds the lock.
Fairness == \A p \in Processes : WF_vars(Finish(p) \/ WriteFails(p) \/ CommitFails(p))

Spec == Init /\ [][Next]_vars /\ Fairness
-----------------------------------------------------------------------------
(* Properties.                                                             *)

Lines == [id : NewIds \cup LegacyIds, seq : Nat, readable : BOOLEAN]

\* Every variable has its type, and the lock is held by who runs under it.
TypeOK ==
  /\ writer \in Processes \cup {Nobody}
  /\ pc \in [Processes -> States]
  /\ \A p \in Processes : HoldsLock(p) <=> writer = p
  /\ entry \in [Processes -> [id : NewIds, node : Nodes] \cup {NoEntry}]
  /\ todo \in [Processes -> SUBSET DOMAIN Legacy]
  /\ lines \in [Nodes -> Seq(Lines)]
  /\ cutShort \subseteq Nodes
  /\ committed \subseteq NewIds
  /\ moved \in BOOLEAN
  /\ \A n \in Nodes : head[n] \in 0 .. Len(lines[n])

\* No two decisions of a project have the same place in its history, whichever
\* processes made them on whichever nodes, and no decision has two places.
OneOrder ==
  \A k, l \in Entries : k.seq = l.seq \/ k.id = l.id => k = l

\* No append was cut short: every line of every file can be read.
AllReadable == \A n \in Nodes : Unreadable(n) = {}

\* The decisions moved out of review_history keep their order, and stand before
\* every decision made since.
MovedFirst ==
  AllReadable => \A k, l \in Entries :
     /\ k.id \in LegacyIds /\ l.id \in NewIds => k.seq < l.seq
     /\ \A i, j \in DOMAIN Legacy : k.id = Legacy[i].id /\ l.id = Legacy[j].id /\ i < j => k.seq < l.seq

\* Once the move is marked as done, every row is in the files.
MovedAll == moved /\ AllReadable => LegacyIds \subseteq Recorded

\* A decision whose transaction committed, the one its caller is told of, counts.
CommittedCounts == committed \subseteq Recorded

\* It counts, whatever failed or crashed meanwhile, unless an append was cut short.
CountedWhileReadable == AllReadable => CommittedCounts

\* "A decision interrupted part-way leaves the node exactly as it was"
\* (decide_acceptance): a decision that counts is committed, or about to be.
InterruptedLeavesNothing ==
  \A d \in Recorded \cap NewIds :
     d \in committed \/ \E p \in Processes : pc[p] = "written" /\ entry[p].id = d

\* The write lock is always given up: an append or a commit that fails leaves
\* no process holding it.
LockGivenUp == \A p \in Processes : writer = p ~> writer # p

\* The decisions that count, oldest first.
Counted ==
  [i \in 1 .. Cardinality(Entries) |->
     (CHOOSE l \in Entries : Cardinality({k \in Entries : k.seq <= l.seq}) = i).id]

Log == INSTANCE DecisionLog WITH log <- Counted, Decisions <- NewIds \cup LegacyIds

\* The files implement the log: no process, crash or failed write reorders,
\* repeats or takes back a decision that counts.
ImplementsLog == Log!Spec
=============================================================================

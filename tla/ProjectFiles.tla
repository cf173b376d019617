---------------------------- MODULE ProjectFiles ----------------------------
(***************************************************************************)
(* What a write transaction of the store writes outside SQLite (storage.py *)
(* 576-764): Review snapshots, node folders, a turn's transcript, the      *)
(* backup of the switch to five states.  A file is there the moment it is  *)
(* written, a row once its transaction commits: callbacks undo the files   *)
(* of a transaction that rolls back, and nothing undoes those of a process *)
(* that died.                                                              *)
(*                                                                         *)
(* Every attempt at an operation has a number; a file and a row carry the  *)
(* number of the attempt that wrote them.  Rows are written at the commit: *)
(* nobody reads them before.                                               *)
(***************************************************************************)
EXTENDS Naturals, FiniteSets, FiniteSetsExt

CONSTANTS
  Processes,
  NoOne,      \* no process
  Nodes,      \* a bound: the ids a node may be created under
  Turns,      \* a bound: the turns that may end
  Ops,        \* the operations the instance has
  MaxTries    \* a bound: the attempts made in all

VARIABLES
  lock,      \* who holds SQLite's write lock
  rows,      \* what is committed
  disk,      \* disk[f]: what file or folder f holds
  preamble,  \* proofs/preamble.tex: "before" the switch completed it, or "completed"
  proc,      \* proc[p]: the operation p is in
  tries,     \* the attempts made
  atLock     \* the disk as it was when the lock was taken last

vars == <<lock, rows, disk, preamble, proc, tries, atLock>>

Attempts == 1 .. MaxTries
Absent == [by |-> 0, whole |-> FALSE]
Part(a) == [by |-> a, whole |-> FALSE]
Whole(a) == [by |-> a, whole |-> TRUE]

Folders == {"folder"} \X Nodes
Snapshots == {"snapshot"} \X Nodes \X Attempts
Transcripts == {"turn"} \X Turns
Asides == {"aside"} \X Attempts
Paths == Folders \cup Snapshots \cup Transcripts \cup Asides \cup {<<"backup">>, <<"partial">>}

Idle == [at |-> "idle", op |-> "none", on |-> NoOne, by |-> 0, target |-> <<>>, made |-> {}, before |-> FALSE,
         read |-> {}]

Init ==
  /\ lock = NoOne
  /\ rows = [node |-> [n \in Nodes |-> 0], together |-> {}, review |-> [n \in Nodes |-> [v \in Attempts |-> 0]],
             ended |-> [t \in Turns |-> 0], switches |-> 0, document |-> {}, migrated |-> FALSE]
  /\ disk = [f \in Paths |-> Absent]
  /\ preamble = "before"
  /\ proc = [p \in Processes |-> Idle]
  /\ tries = 0
  /\ atLock = disk

-----------------------------------------------------------------------------
(* The operations: what each reads before the lock, checks under it, where *)
(* its file goes, and what it undoes.                                      *)

Made(n) == rows.node[n] # 0

\* create_node asks for a free id before it writes anything.
CreateAsks(n) == ~Made(n)

\* The import's plan: no problem only where the node is new and its files are free.
ImportPlanned(n) == ~Made(n) /\ disk[<<"folder", n>>] = Absent

\* request_review reads the files it will freeze before the lock.
ReviewReads(n) == Made(n) /\ disk[<<"folder", n>>].whole

\* switch_to_five_states asks the flag before it reads the project.
Unswitched == rows.switches = 0

\* Before the lock.
MayAsk(op, on) ==
  CASE op \in {"create", "split"} -> CreateAsks(on)
    [] op = "import" -> ImportPlanned(on)
    [] op = "review" -> ReviewReads(on)
    [] op = "medium" -> Made(on)
    [] op = "switch" -> Unswitched
    [] OTHER -> TRUE

\* A row under a taken id is refused by its key.
KeyFree(n) == ~Made(n)

\* record_agent_turn: an end recorded is kept (TURN_ENDED).
NotEnded(t) == rows.ended[t] = 0

AllowedUnchecked(op, on) ==
  CASE op \in {"create", "split", "import"} -> KeyFree(on)
    [] op = "switch" -> Unswitched
    [] OTHER -> TRUE

SwitchesAgain(op, on) ==
  CASE op \in {"create", "split", "import"} -> KeyFree(on)
    [] op = "turn" -> NotEnded(on)
    [] OTHER -> TRUE

\* Under the lock; another process may have switched meanwhile.
Allowed(op, on) ==
  CASE op \in {"create", "split", "import"} -> KeyFree(on)
    [] op = "turn" -> NotEnded(on)
    [] op = "switch" -> Unswitched
    [] OTHER -> TRUE

\* Past the rows and past what is on disk: an orphan is never overwritten.
NextVersion(n) ==
  1 + Max({0} \cup {v \in Attempts : rows.review[n][v] # 0 \/ disk[<<"snapshot", n, v>>] # Absent})

Target(op, on) ==
  CASE op = "review" -> <<"snapshot", on, NextVersion(on)>>
    [] op = "turn" -> <<"turn", on>>
    [] op \in {"switch", "save"} -> <<"partial">>
    [] OTHER -> <<"folder", on>>

\* The files on_rollback removes: remove_new_node_folders_on_rollback and
\* _scaffold_on_rollback list what is absent, as request_review does; the
\* import's undo removes what it wrote; nothing yet for a transcript.
ToUndo(op, f) ==
  IF (op \in {"split", "medium", "review"} /\ disk[f] = Absent) \/ op = "import" THEN {f} ELSE {}

Asides1(p) == <<"aside", proc[p].by>>

-----------------------------------------------------------------------------
(* A transaction.                                                          *)

Goes(p, at) == proc' = [proc EXCEPT ![p].at = at]
At(p, op, at) == proc[p].op = op /\ proc[p].at = at

Ask(p, op, on) ==
  /\ proc[p].at = "idle" /\ tries < MaxTries
  /\ MayAsk(op, on)
  /\ tries' = tries + 1
  /\ proc' = [proc EXCEPT ![p] = [Idle EXCEPT !.at = "asked", !.op = op, !.on = on, !.by = tries + 1]]
  /\ UNCHANGED <<lock, rows, disk, preamble, atLock>>

\* BEGIN IMMEDIATE waits for the lock; then the checks, and what to undo is listed.
Begin(p) ==
  /\ proc[p].at = "asked" /\ lock = NoOne
  /\ lock' = p /\ atLock' = disk
  /\ LET f == Target(proc[p].op, proc[p].on)
     IN  proc' = IF Allowed(proc[p].op, proc[p].on)
                 THEN [proc EXCEPT ![p].at = "begun", ![p].target = f, ![p].made = ToUndo(proc[p].op, f)]
                 ELSE [proc EXCEPT ![p].at = "undoing"]
  /\ UNCHANGED <<rows, disk, preamble, tries>>

\* A folder or a snapshot is begun; the scaffold never overwrites, an import does.
Place(p) ==
  /\ proc[p].at = "begun" /\ proc[p].op \in {"split", "medium", "import", "review"}
  /\ disk' = IF proc[p].op \in {"split", "medium"} /\ disk[proc[p].target] # Absent THEN disk
             ELSE [disk EXCEPT ![proc[p].target] = Part(proc[p].by)]
  /\ Goes(p, "placing")
  /\ UNCHANGED <<lock, rows, preamble, tries, atLock>>

\* put_turn_transcript: an orphan a crash left is moved aside.
MoveAside(p) ==
  /\ At(p, "turn", "begun")
  /\ disk' = [disk EXCEPT ![Asides1(p)] = disk[proc[p].target], ![proc[p].target] = Absent]
  /\ Goes(p, "placing")
  /\ UNCHANGED <<lock, rows, preamble, tries, atLock>>

\* _back_up: under another name first; a copy once made is kept.
BackUp(p) ==
  /\ At(p, "switch", "begun")
  /\ IF disk[<<"backup">>] # Absent THEN disk' = disk /\ Goes(p, "copied")
     ELSE disk' = [disk EXCEPT ![<<"partial">>] = Part(proc[p].by)] /\ Goes(p, "placing")
  /\ UNCHANGED <<lock, rows, preamble, tries, atLock>>

\* The last byte: a transcript and the backup are renamed into place whole.
Fill(p) ==
  /\ proc[p].at = "placing"
  /\ disk' = CASE proc[p].op = "turn" -> [disk EXCEPT ![proc[p].target] = Whole(proc[p].by)]
               [] proc[p].op = "switch" -> [disk EXCEPT ![<<"backup">>] = Whole(proc[p].by), ![<<"partial">>] = Absent]
               [] proc[p].op \notin {"turn", "switch"} /\ disk[proc[p].target].by = proc[p].by ->
                    [disk EXCEPT ![proc[p].target].whole = TRUE]
               [] OTHER -> disk
  /\ proc' = [proc EXCEPT ![p].at = IF @ = "placing" /\ proc[p].op = "switch" THEN "copied" ELSE "placed",
                          ![p].made = IF proc[p].op = "turn" THEN {proc[p].target} ELSE @]
  /\ UNCHANGED <<lock, rows, preamble, tries, atLock>>

\* _complete_preamble, a file like any other: undone by switch_to_five_states itself.
CompletePreamble(p) ==
  /\ At(p, "switch", "copied")
  /\ preamble' = "completed"
  /\ proc' = [proc EXCEPT ![p].at = "placed", ![p].before = (preamble = "before")]
  /\ UNCHANGED <<lock, rows, disk, tries, atLock>>

\* create_node writes rows alone.
RowsOnly(p) ==
  /\ At(p, "create", "begun")
  /\ Goes(p, "placed")
  /\ UNCHANGED <<lock, rows, disk, preamble, tries, atLock>>

\* A side document, as the saves it holds: the legacy file, 0, moves in first, once.
Document == rows.document \cup (IF rows.migrated THEN {} ELSE {0})

LoadsBeforeTheLock(p) ==
  /\ proc[p].op = "save"
  /\ \/ proc[p].at = "asked" /\ proc' = [proc EXCEPT ![p].read = Document]
     \/ proc[p].at = "begun" /\ proc[p].read # {} /\ Goes(p, "placed")
  /\ UNCHANGED <<lock, rows, disk, preamble, tries, atLock>>

\* read_side_document under the lock; what is saved is what was loaded, changed.
Loads(p) ==
  /\ At(p, "save", "begun")
  /\ proc' = [proc EXCEPT ![p].at = "placed", ![p].read = Document]
  /\ UNCHANGED <<lock, rows, disk, preamble, tries, atLock>>

\* write_side_document replaces the whole of it.
Saved(document, a) == [rows EXCEPT !.document = document \cup {a}, !.migrated = TRUE]

Created(n, a) == [rows EXCEPT !.node[n] = a]

\* _split and _write_import write their nodes in one transaction with their files.
CreatedTogether(n, a) == [rows EXCEPT !.node[n] = a, !.together = @ \cup {n}]

Requested(n, v, a) == [rows EXCEPT !.review[n][v] = a]

Ended(t, a) == [rows EXCEPT !.ended[t] = a]

Switched == [rows EXCEPT !.switches = @ + 1]

RowsWith(p) ==
  LET on == proc[p].on  a == proc[p].by
  IN  CASE proc[p].op = "create" -> Created(on, a)
        [] proc[p].op \in {"split", "import"} -> CreatedTogether(on, a)
        [] proc[p].op = "review" -> Requested(on, proc[p].target[3], a)
        [] proc[p].op = "turn" -> Ended(on, a)
        [] proc[p].op = "switch" -> Switched
        [] proc[p].op = "save" -> Saved(proc[p].read, a)
        [] OTHER -> rows

Commit(p) ==
  /\ proc[p].at = "placed"
  /\ rows' = RowsWith(p)
  /\ lock' = NoOne
  /\ Goes(p, "committed")
  /\ UNCHANGED <<disk, preamble, tries, atLock>>

\* The after_commit callbacks, and create_node's working files: outside the lock.
AfterCommit(p) ==
  /\ proc[p].at = "committed"
  /\ disk' = CASE proc[p].op = "turn" -> [disk EXCEPT ![Asides1(p)] = Absent]
               [] At(p, "create", "committed") /\ disk[<<"folder", proc[p].on>>] = Absent ->
                    [disk EXCEPT ![<<"folder", proc[p].on>>] = Whole(proc[p].by)]
               [] OTHER -> disk
  /\ proc' = [proc EXCEPT ![p] = Idle]
  /\ UNCHANGED <<lock, rows, preamble, tries, atLock>>

-----------------------------------------------------------------------------
(* What goes wrong.                                                        *)

\* A file that cannot be written, a row refused, a commit that fails.  What
\* put_turn_transcript moved aside it puts back before it raises.
Raise(p) ==
  /\ proc[p].at \in {"begun", "placing", "copied", "placed"}
  /\ disk' = IF At(p, "turn", "placing") /\ disk[Asides1(p)] # Absent
             THEN [disk EXCEPT ![proc[p].target] = disk[Asides1(p)], ![Asides1(p)] = Absent] ELSE disk
  /\ Goes(p, "undoing")
  /\ UNCHANGED <<lock, rows, preamble, tries, atLock>>

UndoneLosingAside(p) == [f \in Paths |-> IF f \in proc[p].made THEN Absent ELSE disk[f]]

\* _run_rollback_callbacks: what was made goes, what was moved aside comes back.
Undone(p) ==
  LET aside == Asides1(p)
  IN  [f \in Paths |->
         IF proc[p].op = "turn" /\ disk[aside] # Absent
         THEN IF f = proc[p].target THEN disk[aside] ELSE IF f = aside THEN Absent ELSE disk[f]
         ELSE IF f \in proc[p].made THEN Absent ELSE disk[f]]

Undo(p) ==
  /\ proc[p].at = "undoing"
  /\ disk' = Undone(p)
  /\ Goes(p, "undone")
  /\ UNCHANGED <<lock, rows, preamble, tries, atLock>>

\* conn.rollback gives the lock up; the switch then puts the preamble back.
Rollback(p) ==
  /\ proc[p].at = "undone"
  /\ lock' = NoOne
  /\ proc' = [proc EXCEPT ![p] = IF @.before THEN [@ EXCEPT !.at = "restoring"] ELSE Idle]
  /\ UNCHANGED <<rows, disk, preamble, tries, atLock>>

RestorePreamble(p) ==
  /\ proc[p].at = "restoring"
  /\ preamble' = "before"
  /\ proc' = [proc EXCEPT ![p] = Idle]
  /\ UNCHANGED <<lock, rows, disk, tries, atLock>>

\* The process dies: SQLite undoes its rows, and nobody its files.
Crash(p) ==
  /\ proc[p].at \notin {"idle", "asked"}
  /\ lock' = IF lock = p THEN NoOne ELSE lock
  /\ proc' = [proc EXCEPT ![p] = Idle]
  /\ UNCHANGED <<rows, disk, preamble, tries, atLock>>

Operate(p) ==
  \/ \E op \in Ops \ {"turn"}, n \in Nodes : Ask(p, op, n)
  \/ "turn" \in Ops /\ \E t \in Turns : Ask(p, "turn", t)
  \/ Begin(p) \/ Place(p) \/ MoveAside(p) \/ BackUp(p) \/ Fill(p) \/ CompletePreamble(p)
  \/ RowsOnly(p) \/ Loads(p)
  \/ Commit(p) \/ AfterCommit(p)
  \/ Undo(p) \/ Rollback(p) \/ RestorePreamble(p)

Next == \E p \in Processes : Operate(p) \/ Raise(p) \/ Crash(p)

Spec == Init /\ [][Next]_vars

-----------------------------------------------------------------------------
(* What holds.                                                             *)

TypeOK ==
  /\ lock \in Processes \cup {NoOne}
  /\ rows.node \in [Nodes -> 0 .. MaxTries] /\ rows.together \subseteq Nodes
  /\ disk \in [Paths -> [by : 0 .. MaxTries, whole : BOOLEAN]]
  /\ preamble \in {"before", "completed"}
  /\ \A p \in Processes : proc[p].made \subseteq Paths
  /\ tries \in 0 .. MaxTries

\* Whatever fails or crashes on the way, a committed row has its file: a Review
\* snapshot the very files of its request, an end its own transcript, whole; a
\* node made with its transaction a folder (request_review, put_turn_transcript,
\* _split, _write_files).
FilesMatchRows ==
  /\ \A n \in Nodes, v \in Attempts :
       rows.review[n][v] # 0 => disk[<<"snapshot", n, v>>] = Whole(rows.review[n][v])
  /\ \A t \in Turns : rows.ended[t] # 0 => disk[<<"turn", t>>] = Whole(rows.ended[t])
  /\ \A n \in rows.together : disk[<<"folder", n>>] # Absent

\* A transaction that rolled back leaves the snapshots and the transcripts as they
\* were when it took the lock, and the folders of the nodes there are, but for one a
\* create_node wrote outside the lock meanwhile (on_rollback, _run_rollback_callbacks).
RollbackSpares ==
  \A p \in Processes : proc[p].at = "undone" =>
    /\ \A f \in Snapshots \cup Transcripts : disk[f] = atLock[f]
    /\ \A n \in Nodes : LET f == <<"folder", n>>
                        IN  Made(n) => disk[f] = atLock[f] \/ disk[f].by = rows.node[n]

\* However many processes open an older project at once, and however often the
\* switch fails, it is made once, with a whole backup kept (_switched, _back_up).
SwitchedOnce == rows.switches <= 1 /\ (rows.switches = 1 => disk[<<"backup">>].whole)

\* No save of a side document, loaded and replaced whole, loses what another saved,
\* nor the legacy file (read_side_document, write_side_document, one_transaction).
DocumentKept ==
  [][rows.document \subseteq rows'.document /\ (rows'.document # {} => 0 \in rows'.document)]_vars
=============================================================================

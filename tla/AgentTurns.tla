----------------------------- MODULE AgentTurns -----------------------------
(* The agent panel of one studio (packages/latex-agent): AgentManager runs   *)
(* one turn at a time on a command-line backend, snapshots the files around  *)
(* it, reverts what an unscoped backend wrote outside the turn's files, and  *)
(* can undo the turn, while editor tabs save the same files and the studio   *)
(* may be closed. Every thread is a process here: the requests that start a  *)
(* turn, the turn's own thread, stop(), shutdown(), undo() and the saves.    *)
EXTENDS Naturals, FiniteSets

CONSTANTS
  Files,      \* the files a turn may change and the editor saves
  KeyIdeas,   \* the summary file a running edit turn keeps the editor out of, if it is one
  Texts,      \* what a file can hold
  NoText,     \* no such file
  Requests,   \* the turns asked for: mode, the files it is limited to as far as Files go
              \* (Files: any file), and whether the backend enforces that (claude, not codex)
  Callers,    \* request threads in AgentManager.start
  Tabs,       \* editor tabs
  MaxTurns,   \* bound: turns ever started
  MaxSaves,   \* bound: saves ever asked for
  Kept        \* MAX_TURNS: finished turns remembered

ASSUME TurnsAssumption == /\ NoText \notin Texts
                          /\ Requests \subseteq [mode : {"ask", "edit"}, scope : SUBSET Files,
                                                  enforces : BOOLEAN]
                          /\ MaxTurns \in Nat /\ MaxSaves \in Nat /\ Kept \in Nat

\* An instance: an edit turn limited to other files than these, by a backend that
\* does not enforce it.
Elsewhere == {[mode |-> "edit", scope |-> {}, enforces |-> FALSE]}

VARIABLES
  disk,       \* file -> its text, or NoText
  closed, closing,  \* AgentManager.closed; how far shutdown() is
  nextId, active, jobs, turns,  \* itertools.count; the manager's tables
  caller,     \* caller -> its call of start()
  stage, mode, scope, enforces, cancel, alive, before, after,  \* turn -> its Job
  touched, reverted,  \* files the running turn's agent wrote / the manager put back
  stopper,    \* stop() calls under way: caller of stop -> the turn to kill, or 0
  restoring,  \* the two callers of _restore: the turn's own revert, and undo()
  tab, seen, saves    \* the saves under way; what a tab knows of a file; the bound's count

request == <<closed, closing, nextId, active, jobs, turns, caller>>
job == <<stage, mode, scope, enforces, cancel, alive, before, after>>
editor == <<tab, saves>>
vars == <<disk, request, job, touched, reverted, stopper, restoring, editor, seen>>

Ids == 1 .. MaxTurns
Contents == Texts \cup {NoText}
Stoppers == {"user", "shutdown"}
Restorers == {"revert", "undo"}
NoFile == "no file"

NoRequest == [mode |-> "ask", scope |-> Files, enforces |-> TRUE]
Idle == [at |-> "idle", req |-> NoRequest, id |-> 0]
Resting == [turn |-> 0, left |-> {}, hand |-> {}]
NoSave == [at |-> "idle", file |-> NoFile, text |-> NoText, force |-> FALSE]

Restoring(j, left, hand) ==
  IF left \cup hand = {} THEN Resting ELSE [turn |-> j, left |-> left, hand |-> hand]

Unfinished(j) == stage[j] \notin {"none", "done"}
Busy == active # 0 /\ Unfinished(active)
EditTurnRunning == Busy /\ mode[active] = "edit"

Calls == [at : {"idle", "checked", "registered"}, req : Requests \cup {NoRequest}, id : {0} \cup Ids]
Restores == [turn : {0} \cup Ids, left : SUBSET Files, hand : SUBSET Files]
Saves == [at : {"idle", "admitted", "writing"}, file : Files \cup {NoFile}, text : Contents,
          force : BOOLEAN]

FilesTyped ==
  /\ disk \in [Files -> Contents]
  /\ before \in [Ids -> [Files -> Contents]] /\ after \in [Ids -> [Files -> Contents]]
  /\ touched \subseteq Files /\ reverted \subseteq Files
  /\ seen \in [Tabs -> [Files -> {"current", "saved", "changed"}]]
ManagerTyped ==
  /\ closed \in BOOLEAN /\ closing \in {"open", "closing", "closed"}
  /\ nextId \in 1 .. MaxTurns + 1 /\ active \in {0} \cup Ids
  /\ jobs \subseteq Ids /\ turns \subseteq Ids
  /\ caller \in [Callers -> Calls] /\ stopper \in [Stoppers -> {0} \cup Ids]
JobsTyped ==
  /\ stage \in [Ids -> {"none", "new", "queued", "starting", "spawned", "begun", "reading",
                        "ended", "reverting", "settled", "done"}]
  /\ mode \in [Ids -> {"ask", "edit"}] /\ scope \in [Ids -> SUBSET Files]
  /\ enforces \in [Ids -> BOOLEAN] /\ cancel \in [Ids -> BOOLEAN] /\ alive \in [Ids -> BOOLEAN]
RestoringTyped ==
  /\ restoring \in [Restorers -> Restores]
  /\ \A r \in Restorers : restoring[r].turn = 0 => restoring[r] = Resting
SavesTyped == tab \in [Tabs -> Saves] /\ saves \in 0 .. MaxSaves

TypeOK == FilesTyped /\ ManagerTyped /\ JobsTyped /\ RestoringTyped /\ SavesTyped

Init ==
  /\ disk \in [Files -> Texts]
  /\ closed = FALSE /\ closing = "open" /\ nextId = 1 /\ active = 0 /\ jobs = {} /\ turns = {}
  /\ caller = [c \in Callers |-> Idle]
  /\ stage = [j \in Ids |-> "none"] /\ mode = [j \in Ids |-> "ask"]
  /\ scope = [j \in Ids |-> Files] /\ enforces = [j \in Ids |-> TRUE]
  /\ cancel = [j \in Ids |-> FALSE] /\ alive = [j \in Ids |-> FALSE]
  /\ before = [j \in Ids |-> [f \in Files |-> NoText]] /\ after = before
  /\ touched = {} /\ reverted = {}
  /\ stopper = [s \in Stoppers |-> 0]
  /\ restoring = [r \in Restorers |-> Resting]
  /\ tab = [t \in Tabs |-> NoSave] /\ seen = [t \in Tabs |-> [f \in Files |-> "current"]]
  /\ saves = 0

\* A write of x to f; to every tab but `by` the file is now `how`.
Put(f, x, how, by) ==
  /\ disk' = [disk EXCEPT ![f] = x]
  /\ seen' = [t \in Tabs |-> [seen[t] EXCEPT ![f] = IF t = by THEN "current" ELSE how]]

-----------------------------------------------------------------------------
(* start(): the checks outside the lock, registration under it, and the      *)
(* turn's preparation after it.                                              *)

Ask(c) ==
  /\ caller[c].at = "idle" /\ ~closed
  /\ \E r \in Requests : caller' = [caller EXCEPT ![c] = [at |-> "checked", req |-> r, id |-> 0]]
  /\ UNCHANGED <<disk, closed, closing, nextId, active, jobs, turns, job, touched, reverted,
                 stopper, restoring, editor, seen>>

\* Under the lock: closed meanwhile, another turn running, or called off by `unless`.
Refused(c) ==
  /\ caller[c].at = "checked"
  /\ caller' = [caller EXCEPT ![c] = Idle]
  /\ UNCHANGED <<disk, closed, closing, nextId, active, jobs, turns, job, touched, reverted,
                 stopper, restoring, editor, seen>>

RegisterThoughClosed == ~Busy
RegisterThoughBusy == ~closed
MayRegister == ~closed /\ ~Busy

Register(c) ==
  /\ caller[c].at = "checked" /\ MayRegister /\ nextId <= MaxTurns
  /\ nextId' = nextId + 1 /\ active' = nextId /\ jobs' = jobs \cup {nextId}
  /\ mode' = [mode EXCEPT ![nextId] = caller[c].req.mode]
  /\ stage' = [stage EXCEPT ![nextId] = "new"]
  /\ touched' = {} /\ reverted' = {}
  /\ caller' = [caller EXCEPT ![c] = [at |-> "registered", req |-> @.req, id |-> nextId]]
  /\ UNCHANGED <<disk, closed, closing, turns, scope, enforces, cancel, alive, before, after,
                 stopper, restoring, editor, seen>>

\* Scope and context, the snapshot, begin(), and the turn's thread.
Prepare(c) ==
  /\ caller[c].at = "registered"
  /\ LET j == caller[c].id IN
       /\ scope' = [scope EXCEPT ![j] = caller[c].req.scope]
       /\ enforces' = [enforces EXCEPT ![j] = caller[c].req.enforces]
       /\ before' = [before EXCEPT ![j] = disk]
       /\ stage' = [stage EXCEPT ![j] = "queued"]
  /\ caller' = [caller EXCEPT ![c] = Idle]
  /\ UNCHANGED <<disk, closed, closing, nextId, active, jobs, turns, mode, cancel, alive, after,
                 touched, reverted, stopper, restoring, editor, seen>>

-----------------------------------------------------------------------------
(* The turn's thread: CliBackend.run, then what _run does after it.          *)

Step(j, from, to) == stage[j] = from /\ stage' = [stage EXCEPT ![j] = to]
SameJob == UNCHANGED <<mode, scope, enforces, cancel, before>>

Enter(j) ==
  /\ Step(j, "queued", IF cancel[j] THEN "ended" ELSE "starting")
  /\ SameJob /\ UNCHANGED <<disk, request, alive, after, touched, reverted, stopper, restoring,
                            editor, seen>>

\* Popen starts the process, or raises and _run goes on to its end.
Popen(j) ==
  /\ \/ Step(j, "starting", "spawned") /\ alive' = [alive EXCEPT ![j] = TRUE]
     \/ Step(j, "starting", "ended") /\ UNCHANGED alive
  /\ SameJob /\ UNCHANGED <<disk, request, after, touched, reverted, stopper, restoring,
                            editor, seen>>

\* job.proc is assigned: from here on stop() sees the process.
KeepProc(j) ==
  /\ Step(j, "spawned", "begun")
  /\ SameJob /\ UNCHANGED <<disk, request, alive, after, touched, reverted, stopper, restoring,
                            editor, seen>>

SecondCheckDropped(j) ==
  /\ Step(j, "begun", "reading")
  /\ SameJob /\ UNCHANGED <<disk, request, alive, after, touched, reverted, stopper, restoring,
                            editor, seen>>
SecondCheck(j) ==
  /\ Step(j, "begun", "reading")
  /\ alive' = [alive EXCEPT ![j] = alive[j] /\ ~cancel[j]]
  /\ SameJob /\ UNCHANGED <<disk, request, after, touched, reverted, stopper, restoring,
                            editor, seen>>

\* The end of the process's output is the end of backend.run.
Drain(j) ==
  /\ Step(j, "reading", "ended") /\ ~alive[j]
  /\ SameJob /\ UNCHANGED <<disk, request, alive, after, touched, reverted, stopper, restoring,
                            editor, seen>>

\* So is an event it cannot handle, which leaves the process running.
HandleRaises(j) ==
  /\ Step(j, "reading", "ended") /\ alive[j]
  /\ SameJob /\ UNCHANGED <<disk, request, alive, after, touched, reverted, stopper, restoring,
                            editor, seen>>

\* The agent's process: it writes what its mode and its scope let it, and exits.
AgentWrites(j) ==
  /\ alive[j] /\ mode[j] = "edit"
  /\ \E f \in Files, x \in Contents :
       /\ enforces[j] => f \in scope[j]
       /\ x # disk[f] /\ Put(f, x, "changed", NoFile)
       /\ touched' = touched \cup {f}
  /\ UNCHANGED <<request, job, reverted, stopper, restoring, editor>>

Exits(j) ==
  /\ alive[j] /\ alive' = [alive EXCEPT ![j] = FALSE]
  /\ UNCHANGED <<disk, request, stage, mode, scope, enforces, cancel, before, after, touched,
                 reverted, stopper, restoring, editor, seen>>

Changed(j) == {f \in Files : before[j][f] # after[j][f]}

\* The snapshot after the turn, and what it changed outside its files.
Snapshot(j) ==
  LET out == {f \in Files \ scope[j] : before[j][f] # disk[f]}
      revert == out # {} /\ ~enforces[j]
  IN /\ Step(j, "ended", IF revert THEN "reverting" ELSE "settled")
     /\ after' = [after EXCEPT ![j] = disk]
     /\ restoring' = IF revert
                     THEN [restoring EXCEPT !["revert"] = Restoring(j, out, {})]
                     ELSE restoring
     /\ SameJob /\ UNCHANGED <<disk, request, alive, touched, reverted, stopper, editor, seen>>

Reverted(j) ==
  /\ Step(j, "reverting", "settled") /\ restoring["revert"] = Resting
  /\ after' = [after EXCEPT ![j] = disk]
  /\ SameJob /\ UNCHANGED <<disk, request, alive, touched, reverted, stopper, restoring, editor,
                            seen>>

NewestFromZero(table, j) ==
  {i - 1 : i \in {k \in table : k >= j \/ Cardinality({m \in table : m >= k}) <= Kept}}
\* The newest Kept of a table's turns; the turn at its end is never dropped.
Newest(table, j) == {i \in table : i >= j \/ Cardinality({k \in table : k >= i}) <= Kept}

\* Only the changed files' snapshots stay, the tables drop their oldest turns; then the done event
\* and job.done. What nobody reads of a finished turn is forgotten here: undo() asks for its
\* snapshots only, and what its agent may write matters while its process runs.
Done(j) ==
  /\ Step(j, "settled", "done")
  /\ LET kept(snap) == [snap EXCEPT ![j] = [f \in Files |-> IF f \in Changed(j) THEN @[f] ELSE NoText]]
     IN before' = kept(before) /\ after' = kept(after)
  /\ turns' = Newest(turns \cup {j}, j) /\ jobs' = Newest(jobs, j)
  /\ mode' = [mode EXCEPT ![j] = IF alive[j] THEN @ ELSE "ask"]
  /\ scope' = [scope EXCEPT ![j] = IF alive[j] THEN @ ELSE Files]
  /\ enforces' = [enforces EXCEPT ![j] = alive[j] => @]
  /\ cancel' = [cancel EXCEPT ![j] = FALSE]
  /\ touched' = {} /\ reverted' = {}
  /\ UNCHANGED <<disk, closed, closing, nextId, active, caller, alive, stopper, restoring, editor,
                 seen>>

-----------------------------------------------------------------------------
(* stop() and shutdown().                                                    *)

Cancel(s, j) ==
  /\ j \in jobs /\ Unfinished(j)
  /\ cancel' = [cancel EXCEPT ![j] = TRUE]
  /\ stopper' = [stopper EXCEPT ![s] = j]

StopCancels(j) ==
  /\ stopper["user"] = 0 /\ Cancel("user", j)
  /\ UNCHANGED <<disk, request, stage, mode, scope, enforces, alive, before, after, touched,
                 reverted, restoring, editor, seen>>

\* backend.stop: it kills the process it can see.
ProcSeen(j) == stage[j] \notin {"none", "new", "queued", "starting", "spawned"}
StopOnlyCancels(s) ==
  /\ stopper[s] # 0
  /\ stopper' = [stopper EXCEPT ![s] = 0]
  /\ UNCHANGED <<disk, request, job, touched, reverted, restoring, editor, seen>>
StopKills(s) ==
  /\ stopper[s] # 0
  /\ alive' = [alive EXCEPT ![stopper[s]] = @ /\ ~ProcSeen(stopper[s])]
  /\ stopper' = [stopper EXCEPT ![s] = 0]
  /\ UNCHANGED <<disk, request, stage, mode, scope, enforces, cancel, before, after, touched,
                 reverted, restoring, editor, seen>>

Close ==
  /\ closing = "open" /\ closed' = TRUE /\ closing' = "closing"
  /\ UNCHANGED <<disk, nextId, active, jobs, turns, caller, job, touched, reverted, stopper,
                 restoring, editor, seen>>

\* Out of the lock again: the active turn, if it is still running, is stopped.
CloseStops ==
  /\ closing = "closing" /\ closing' = "closed"
  /\ \/ Busy /\ Cancel("shutdown", active)
     \/ ~Busy /\ UNCHANGED <<cancel, stopper>>
  /\ UNCHANGED <<disk, closed, nextId, active, jobs, turns, caller, stage, mode, scope, enforces,
                 alive, before, after, touched, reverted, restoring, editor, seen>>

-----------------------------------------------------------------------------
(* _restore: a file is read, compared with the turn's result, and written.   *)

RestoreLooks(r) ==
  /\ restoring[r].hand = {}
  /\ \E f \in restoring[r].left, h \in SUBSET restoring[r].left :
       /\ h \in {{}, {f}}      \* {}: changed since, or it cannot be read
       /\ h = {f} => disk[f] = after[restoring[r].turn][f]
       /\ restoring' = [restoring EXCEPT ![r] = Restoring(@.turn, @.left \ {f}, h)]
  /\ UNCHANGED <<disk, request, job, touched, reverted, stopper, editor, seen>>

RestoreWrites(r) ==
  /\ restoring' = [restoring EXCEPT ![r] = Restoring(@.turn, @.left, {})]
  /\ \E f \in restoring[r].hand :
       \/ /\ Put(f, before[restoring[r].turn][f], "changed", NoFile)
          /\ reverted' = IF r = "revert" THEN reverted \cup {f} ELSE reverted
       \/ UNCHANGED <<disk, seen, reverted>>    \* the write failed: not restored
  /\ UNCHANGED <<request, job, touched, stopper, editor>>

Undo(j) ==
  /\ j \in turns /\ restoring["undo"] = Resting
  /\ restoring' = [restoring EXCEPT !["undo"] = Restoring(j, Changed(j), {})]
  /\ UNCHANGED <<disk, request, job, touched, reverted, stopper, editor, seen>>

-----------------------------------------------------------------------------
(* The editor: a tab loads a file and saves it (Studio.save_file).           *)

Load(t, f) ==
  /\ tab[t].at = "idle" /\ seen[t][f] # "current"
  /\ seen' = [seen EXCEPT ![t][f] = "current"]
  /\ UNCHANGED <<disk, request, job, touched, reverted, stopper, restoring, editor>>

\* The key ideas are refused while an edit turn runs; any other file goes on.
SaveAsked(t) ==
  /\ tab[t].at = "idle" /\ saves < MaxSaves /\ saves' = saves + 1
  /\ \E f \in Files, x \in Texts, force \in BOOLEAN :
       /\ ~(f = KeyIdeas /\ EditTurnRunning)
       /\ tab' = [tab EXCEPT ![t] = [at |-> "admitted", file |-> f, text |-> x, force |-> force]]
  /\ UNCHANGED <<disk, request, job, touched, reverted, stopper, restoring, seen>>

\* Under save_lock: a conflict, or the file may be written.
SaveLockFree == \A u \in Tabs : tab[u].at # "writing"
SaveChecks(t) ==
  /\ tab[t].at = "admitted" /\ SaveLockFree
  /\ LET f == tab[t].file
         conflict == disk[f] # NoText /\ seen[t][f] # "current" /\ ~tab[t].force
     IN tab' = [tab EXCEPT ![t] = IF conflict THEN NoSave ELSE [@ EXCEPT !.at = "writing"]]
  /\ UNCHANGED <<disk, request, job, touched, reverted, stopper, restoring, saves, seen>>

SaveWrites(t) ==
  /\ tab[t].at = "writing"
  /\ Put(tab[t].file, tab[t].text, "saved", t)
  /\ tab' = [tab EXCEPT ![t] = NoSave]
  /\ UNCHANGED <<request, job, touched, reverted, stopper, restoring, saves>>

-----------------------------------------------------------------------------
TurnThread(j) ==
  \/ Enter(j) \/ Popen(j) \/ KeepProc(j) \/ SecondCheck(j) \/ Drain(j)
  \/ Snapshot(j) \/ Reverted(j) \/ Done(j)
Restore(r) == RestoreLooks(r) \/ RestoreWrites(r)

Next ==
  \/ \E c \in Callers : Ask(c) \/ Refused(c) \/ Register(c) \/ Prepare(c)
  \/ \E j \in Ids : TurnThread(j) \/ HandleRaises(j) \/ AgentWrites(j) \/ Exits(j) \/ StopCancels(j) \/ Undo(j)
  \/ \E s \in Stoppers : StopKills(s)
  \/ Close \/ CloseStops
  \/ \E r \in Restorers : Restore(r)
  \/ \E t \in Tabs : \/ \E f \in Files : Load(t, f)
                     \/ SaveAsked(t) \/ SaveChecks(t) \/ SaveWrites(t)

\* The studio's threads run on; the agent's process owes nothing, nor does an exception.
Fairness ==
  /\ \A c \in Callers : WF_vars(Prepare(c))
  /\ \A j \in Ids : WF_vars(TurnThread(j))
  /\ \A s \in Stoppers : WF_vars(StopKills(s))
  /\ WF_vars(CloseStops)
  /\ WF_vars(Restore("revert"))

Spec == Init /\ [][Next]_vars /\ Fairness

-----------------------------------------------------------------------------
\* One turn at a time, whatever requests race in start() ("The agent is still working on the
\* previous message", AgentManager.start): no two turns are between registration and their end.
OneTurn == \A i, j \in Ids : Unfinished(i) /\ Unfinished(j) => i = j

\* No stop falls between CliBackend.run's check and its Popen: once a turn is cancelled and no
\* stop() is about to kill, a process the manager reads from has been ended.
StopIsNotMissed ==
  \A j \in Ids : cancel[j] /\ stage[j] \in {"reading", "ended"} /\ (\A s \in Stoppers : stopper[s] # j)
                   => ~alive[j]

\* shutdown(): once it has gone through, every turn that still runs has been cancelled, the ones
\* whose start() passed its first check of `closed` before the studio closed included.
NoTurnOutlivesClose == closing = "closed" => \A j \in Ids : Unfinished(j) => cancel[j]

\* A stopped turn ends, wherever the stop caught it, even before its thread ran (AgentManager.stop:
\* "a turn not started yet then never starts").
StoppedTurnEnds == Busy /\ cancel[active] ~> ~Busy

\* save_file's lock: a save that is not forced never overwrites what another tab saved since this
\* tab loaded the file. (What the agent or a restore wrote between the check and the write, it may.)
SavesSpareSaves ==
  [][\A t \in Tabs : tab[t].at = "writing" /\ tab'[t].at = "idle" /\ ~tab[t].force
                       /\ disk[tab[t].file] # NoText
                       => seen[t][tab[t].file] # "saved"]_vars

\* _run: "so undo what it wrote outside them (only where nothing else changed the file since)".
\* A file the manager puts back after a turn is one the turn's agent wrote.
RevertsOnlyTheAgents == [][reverted' \ reverted \subseteq touched]_vars
=============================================================================

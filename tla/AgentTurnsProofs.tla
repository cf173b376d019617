-------------------------- MODULE AgentTurnsProofs --------------------------
(* For any number of requests, turns, tabs, files and saves: one turn runs   *)
(* at a time, no stop is missed, no turn outlives the close, and no save     *)
(* overwrites another tab's.                                                 *)
EXTENDS AgentTurns, TLAPS

-----------------------------------------------------------------------------
(* Types of the values the steps build.                                      *)

\* A request's fields have the types its job gets.
LEMMA RequestType ==
  ASSUME NEW r \in Requests \cup {NoRequest}
  PROVE  r.mode \in {"ask", "edit"} /\ r.scope \in SUBSET Files /\ r.enforces \in BOOLEAN
  <1>1. CASE r \in Requests
    <2>1. r \in [mode : {"ask", "edit"}, scope : SUBSET Files, enforces : BOOLEAN]
      BY <1>1, TurnsAssumption
    <2>2. QED
      BY <2>1
  <1>2. CASE r = NoRequest
    BY <1>2 DEF NoRequest
  <1>3. QED
    BY <1>1, <1>2

\* A write leaves the disk, and what the tabs know of it, typed.
LEMMA PutType ==
  ASSUME FilesTyped, NEW f \in Files, NEW text \in Contents, NEW by,
         NEW how \in {"current", "saved", "changed"}, Put(f, text, how, by)
  PROVE  disk' \in [Files -> Contents] /\ seen' \in [Tabs -> [Files -> {"current", "saved", "changed"}]]
  BY DEF FilesTyped, Put

\* What Restoring returns is the restore of a turn, or rests.
LEMMA RestoringType ==
  ASSUME NEW j \in Ids, NEW left \in SUBSET Files, NEW hand \in SUBSET Files
  PROVE  /\ Restoring(j, left, hand) \in Restores
         /\ Restoring(j, left, hand).turn = 0 => Restoring(j, left, hand) = Resting
  <1>1. j # 0
    BY DEF Ids
  <1>2. QED
    BY <1>1 DEF Restoring, Resting, Restores

\* A restorer moves on to what Restoring returns.
LEMMA RestoringStep ==
  ASSUME RestoringTyped, NEW r \in Restorers, NEW j \in Ids,
         NEW left \in SUBSET Files, NEW hand \in SUBSET Files,
         restoring' = [restoring EXCEPT ![r] = Restoring(j, left, hand)]
  PROVE  RestoringTyped'
  <1> DEFINE next == Restoring(j, left, hand)
  <1>1. next \in Restores /\ (next.turn = 0 => next = Resting)
    BY RestoringType
  <1>2. restoring' = [restoring EXCEPT ![r] = next]
    OBVIOUS
  <1> HIDE DEF next
  <1>3. QED
    BY <1>1, <1>2 DEF RestoringTyped

\* A restorer that has files left, or one in hand, restores a turn's files.
LEMMA AtWork ==
  ASSUME RestoringTyped, NEW r \in Restorers, restoring[r].left \cup restoring[r].hand # {}
  PROVE  restoring[r].turn \in Ids
  BY DEF RestoringTyped, Restores, Resting

\* A restorer's sets are sets of files.
LEMMA InHand ==
  ASSUME RestoringTyped, NEW r \in Restorers
  PROVE  restoring[r].left \in SUBSET Files /\ restoring[r].hand \in SUBSET Files
  BY DEF RestoringTyped, Restores

\* A save that takes the lock, or ends, is a save.
LEMMA SaveType ==
  /\ NoSave \in Saves
  /\ \A s \in Saves : [s EXCEPT !.at = "writing"] \in Saves
  BY DEF NoSave, Saves, Contents

-----------------------------------------------------------------------------
(* The type invariant.                                                       *)

\* The initial states are typed.
LEMMA TypeInit == Init => TypeOK
  <1> SUFFICES ASSUME Init PROVE TypeOK
    OBVIOUS
  <1> USE DEF Init
  <1>1. FilesTyped
    BY DEF FilesTyped, Contents
  <1>2. ManagerTyped
    <2>1. Idle \in Calls
      BY DEF Calls, Idle
    <2>2. 1 \in 1 .. MaxTurns + 1
      BY TurnsAssumption
    <2>3. QED
      BY <2>1, <2>2 DEF ManagerTyped
  <1>3. JobsTyped
    BY DEF JobsTyped
  <1>4. RestoringTyped
    BY DEF RestoringTyped, Restores, Resting
  <1>5. SavesTyped
    BY SaveType, TurnsAssumption DEF SavesTyped
  <1>6. QED
    BY <1>1, <1>2, <1>3, <1>4, <1>5 DEF TypeOK

\* The steps of start() keep the types.
LEMMA StartTyped ==
  ASSUME TypeOK, NEW c \in Callers, Ask(c) \/ Refused(c) \/ Register(c) \/ Prepare(c)
  PROVE  TypeOK'
  <1> USE DEF TypeOK, request, job, editor
  <1>1. Idle \in Calls
    BY DEF Idle, Calls
  <1>2. CASE Ask(c)
    BY <1>2 DEF Ask, Calls, FilesTyped, ManagerTyped, JobsTyped, RestoringTyped, SavesTyped
  <1>3. CASE Refused(c)
    BY <1>1, <1>3 DEF Refused, FilesTyped, ManagerTyped, JobsTyped, RestoringTyped, SavesTyped
  <1>4. CASE Register(c)
    <2>1. nextId \in Ids /\ nextId + 1 \in 1 .. MaxTurns + 1
      BY <1>4, TurnsAssumption DEF Register, Ids, ManagerTyped
    <2>2. caller[c].req \in Requests \cup {NoRequest}
      BY DEF ManagerTyped, Calls
    <2>3. JobsTyped'
      BY <1>4, <2>1, <2>2, RequestType DEF Register, JobsTyped
    <2>4. [at |-> "registered", req |-> caller[c].req, id |-> nextId] \in Calls
      BY <2>1, <2>2 DEF Calls
    <2>5. ManagerTyped'
      BY <1>4, <2>1, <2>4 DEF Register, ManagerTyped
    <2>6. FilesTyped' /\ RestoringTyped' /\ SavesTyped'
      BY <1>4 DEF Register, FilesTyped, RestoringTyped, SavesTyped
    <2>7. QED
      BY <2>3, <2>5, <2>6
  <1>5. CASE Prepare(c)
    <2>1. caller[c].req \in Requests \cup {NoRequest}
      BY DEF ManagerTyped, Calls
    <2>2. JobsTyped'
      BY <1>5, <2>1, RequestType DEF Prepare, JobsTyped
    <2>3. FilesTyped'
      BY <1>5 DEF Prepare, FilesTyped
    <2>4. ManagerTyped'
      BY <1>1, <1>5 DEF Prepare, ManagerTyped
    <2>5. RestoringTyped' /\ SavesTyped'
      BY <1>5 DEF Prepare, RestoringTyped, SavesTyped
    <2>6. QED
      BY <2>2, <2>3, <2>4, <2>5
  <1>6. QED
    BY <1>2, <1>3, <1>4, <1>5

\* The turn's thread keeps the types.
LEMMA ThreadTyped ==
  ASSUME TypeOK, NEW j \in Ids, TurnThread(j) \/ HandleRaises(j)
  PROVE  TypeOK'
  <1> USE DEF TypeOK, request, job, editor, Step, SameJob
  <1>1. CASE Enter(j) \/ Popen(j) \/ KeepProc(j) \/ SecondCheck(j) \/ Drain(j) \/ HandleRaises(j)
    <2>1. JobsTyped'
      BY <1>1 DEF Enter, Popen, KeepProc, SecondCheck, Drain, HandleRaises, JobsTyped
    <2>2. FilesTyped' /\ ManagerTyped' /\ RestoringTyped' /\ SavesTyped'
      BY <1>1 DEF Enter, Popen, KeepProc, SecondCheck, Drain, HandleRaises,
                  FilesTyped, ManagerTyped, RestoringTyped, SavesTyped
    <2>3. QED
      BY <2>1, <2>2
  <1>2. CASE Snapshot(j)
    <2> DEFINE out == {f \in Files \ scope[j] : before[j][f] # disk[f]}
    <2>1. RestoringTyped'
      <3>1. out \in SUBSET Files /\ {} \in SUBSET Files /\ "revert" \in Restorers
        BY DEF Restorers
      <3>2. \/ restoring' = [restoring EXCEPT !["revert"] = Restoring(j, out, {})]
            \/ restoring' = restoring
        BY <1>2 DEF Snapshot
      <3> HIDE DEF out
      <3>3. QED
        BY <3>1, <3>2, RestoringStep DEF RestoringTyped
    <2>2. JobsTyped' /\ FilesTyped'
      BY <1>2 DEF Snapshot, JobsTyped, FilesTyped
    <2>3. ManagerTyped' /\ SavesTyped'
      BY <1>2 DEF Snapshot, ManagerTyped, SavesTyped
    <2>4. QED
      BY <2>1, <2>2, <2>3
  <1>3. CASE Reverted(j)
    BY <1>3 DEF Reverted, FilesTyped, ManagerTyped, JobsTyped, RestoringTyped, SavesTyped
  <1>4. CASE Done(j)
    <2>1. FilesTyped'
      BY <1>4 DEF Done, FilesTyped, Contents
    <2>2. turns' \subseteq Ids /\ jobs' \subseteq Ids
      BY <1>4 DEF Done, Newest, ManagerTyped
    <2>3. ManagerTyped'
      BY <1>4, <2>2 DEF Done, ManagerTyped
    <2>4. JobsTyped'
      BY <1>4 DEF Done, JobsTyped
    <2>5. RestoringTyped' /\ SavesTyped'
      BY <1>4 DEF Done, RestoringTyped, SavesTyped
    <2>6. QED
      BY <2>1, <2>3, <2>4, <2>5
  <1>5. QED
    BY <1>1, <1>2, <1>3, <1>4 DEF TurnThread

\* What the agent's process, stop() and undo() do keeps the types.
LEMMA TurnTyped ==
  ASSUME TypeOK, NEW j \in Ids, AgentWrites(j) \/ Exits(j) \/ StopCancels(j) \/ Undo(j)
  PROVE  TypeOK'
  <1> USE DEF TypeOK, request, job, editor
  <1>1. CASE AgentWrites(j)
    <2>1. PICK f \in Files, x \in Contents :
            Put(f, x, "changed", NoFile) /\ touched' = touched \cup {f}
      BY <1>1 DEF AgentWrites
    <2>2. FilesTyped'
      BY <1>1, <2>1, PutType DEF AgentWrites, FilesTyped
    <2>3. QED
      BY <1>1, <2>2 DEF AgentWrites, ManagerTyped, JobsTyped, RestoringTyped, SavesTyped
  <1>2. CASE Exits(j)
    BY <1>2 DEF Exits, FilesTyped, ManagerTyped, JobsTyped, RestoringTyped, SavesTyped
  <1>3. CASE StopCancels(j)
    <2>1. ManagerTyped'
      BY <1>3 DEF StopCancels, Cancel, ManagerTyped, Stoppers
    <2>2. JobsTyped'
      BY <1>3 DEF StopCancels, Cancel, JobsTyped
    <2>3. QED
      BY <1>3, <2>1, <2>2 DEF StopCancels, FilesTyped, RestoringTyped, SavesTyped
  <1>4. CASE Undo(j)
    <2>1. Changed(j) \in SUBSET Files /\ {} \in SUBSET Files /\ "undo" \in Restorers
      BY DEF Changed, Restorers
    <2>2. RestoringTyped'
      BY <1>4, <2>1, RestoringStep DEF Undo
    <2>3. QED
      BY <1>4, <2>2 DEF Undo, FilesTyped, ManagerTyped, JobsTyped, SavesTyped
  <1>5. QED
    BY <1>1, <1>2, <1>3, <1>4

\* stop() and shutdown() keep the types.
LEMMA StopTyped ==
  ASSUME TypeOK, Close \/ CloseStops \/ \E s \in Stoppers : StopKills(s)
  PROVE  TypeOK'
  <1> USE DEF TypeOK, request, job, editor
  <1>1. CASE Close
    BY <1>1 DEF Close, FilesTyped, ManagerTyped, JobsTyped, RestoringTyped, SavesTyped
  <1>2. CASE CloseStops
    <2>1. Busy => active \in Ids
      BY DEF Busy, ManagerTyped
    <2>2. ManagerTyped'
      BY <1>2, <2>1 DEF CloseStops, Cancel, ManagerTyped, Stoppers
    <2>3. JobsTyped'
      BY <1>2, <2>1 DEF CloseStops, Cancel, JobsTyped
    <2>4. QED
      BY <1>2, <2>2, <2>3 DEF CloseStops, FilesTyped, RestoringTyped, SavesTyped
  <1>3. ASSUME NEW s \in Stoppers, StopKills(s) PROVE TypeOK'
    <2>1. JobsTyped'
      BY <1>3 DEF StopKills, JobsTyped, ProcSeen
    <2>2. ManagerTyped'
      BY <1>3 DEF StopKills, ManagerTyped
    <2>3. QED
      BY <1>3, <2>1, <2>2 DEF StopKills, FilesTyped, RestoringTyped, SavesTyped
  <1>4. QED
    BY <1>1, <1>2, <1>3

\* A restore keeps the types.
LEMMA RestoreTyped ==
  ASSUME TypeOK, NEW r \in Restorers, Restore(r)
  PROVE  TypeOK'
  <1> USE DEF TypeOK, request, job, editor
  <1>1. restoring[r].left \in SUBSET Files /\ restoring[r].hand \in SUBSET Files
    BY InHand
  <1>2. CASE RestoreLooks(r)
    <2>1. PICK f \in restoring[r].left, h \in SUBSET restoring[r].left :
            restoring' = [restoring EXCEPT ![r] = Restoring(restoring[r].turn, restoring[r].left \ {f}, h)]
      BY <1>2 DEF RestoreLooks
    <2>2. restoring[r].turn \in Ids
      BY AtWork, <2>1
    <2>3. restoring[r].left \ {f} \in SUBSET Files /\ h \in SUBSET Files
      BY <1>1
    <2>4. RestoringTyped'
      BY <2>1, <2>2, <2>3, RestoringStep
    <2>5. QED
      BY <1>2, <2>4 DEF RestoreLooks, FilesTyped, ManagerTyped, JobsTyped, SavesTyped
  <1>3. CASE RestoreWrites(r)
    <2>1. PICK f \in restoring[r].hand :
            \/ /\ Put(f, before[restoring[r].turn][f], "changed", NoFile)
               /\ reverted' = IF r = "revert" THEN reverted \cup {f} ELSE reverted
            \/ UNCHANGED <<disk, seen, reverted>>
      BY <1>3 DEF RestoreWrites
    <2>2. restoring[r].turn \in Ids /\ f \in Files
      BY AtWork, <2>1, <1>1
    <2>3. before[restoring[r].turn][f] \in Contents
      BY <2>2 DEF FilesTyped
    <2>4. disk' \in [Files -> Contents] /\ seen' \in [Tabs -> [Files -> {"current", "saved", "changed"}]]
      BY <2>1, <2>2, <2>3, PutType DEF FilesTyped
    <2>5. FilesTyped'
      BY <1>3, <2>1, <2>2, <2>4 DEF RestoreWrites, FilesTyped
    <2>6. restoring' = [restoring EXCEPT ![r] = Restoring(restoring[r].turn, restoring[r].left, {})]
      BY <1>3 DEF RestoreWrites
    <2>7. RestoringTyped'
      BY <1>1, <2>2, <2>6, {} \in SUBSET Files, RestoringStep
    <2>8. QED
      BY <1>3, <2>5, <2>7 DEF RestoreWrites, ManagerTyped, JobsTyped, SavesTyped
  <1>4. QED
    BY <1>2, <1>3 DEF Restore

\* The editor's steps keep the types.
LEMMA EditorTyped ==
  ASSUME TypeOK, NEW t \in Tabs,
         \/ \E f \in Files : Load(t, f)
         \/ SaveAsked(t) \/ SaveChecks(t) \/ SaveWrites(t)
  PROVE  TypeOK'
  <1> USE DEF TypeOK, request, job, editor
  <1>1. ASSUME NEW f \in Files, Load(t, f) PROVE TypeOK'
    BY <1>1 DEF Load, FilesTyped, ManagerTyped, JobsTyped, RestoringTyped, SavesTyped
  <1>2. CASE SaveAsked(t)
    <2>1. PICK f \in Files, x \in Texts, force \in BOOLEAN :
            tab' = [tab EXCEPT ![t] = [at |-> "admitted", file |-> f, text |-> x, force |-> force]]
      BY <1>2 DEF SaveAsked
    <2>2. [at |-> "admitted", file |-> f, text |-> x, force |-> force] \in Saves
      BY DEF Saves, Contents
    <2>3. saves' \in 0 .. MaxSaves
      BY <1>2, TurnsAssumption DEF SaveAsked, SavesTyped
    <2>4. SavesTyped'
      BY <2>1, <2>2, <2>3 DEF SavesTyped
    <2>5. QED
      BY <1>2, <2>4 DEF SaveAsked, FilesTyped, ManagerTyped, JobsTyped, RestoringTyped
  <1>3. CASE SaveChecks(t)
    <2>1. tab[t] \in Saves
      BY DEF SavesTyped
    <2>2. PICK s \in {NoSave, [tab[t] EXCEPT !.at = "writing"]} : tab' = [tab EXCEPT ![t] = s]
      BY <1>3 DEF SaveChecks
    <2>3. s \in Saves
      BY <2>1, <2>2, SaveType
    <2>4. SavesTyped'
      BY <1>3, <2>2, <2>3 DEF SaveChecks, SavesTyped
    <2>5. QED
      BY <1>3, <2>4 DEF SaveChecks, FilesTyped, ManagerTyped, JobsTyped, RestoringTyped
  <1>4. CASE SaveWrites(t)
    <2>1. SavesTyped'
      BY <1>4, SaveType DEF SaveWrites, SavesTyped
    <2>2. tab[t].text \in Contents
      BY DEF SavesTyped, Saves
    <2>3. FilesTyped'
      BY <1>4, <2>2 DEF SaveWrites, FilesTyped, Put
    <2>4. QED
      BY <1>4, <2>1, <2>3 DEF SaveWrites, ManagerTyped, JobsTyped, RestoringTyped
  <1>5. QED
    BY <1>1, <1>2, <1>3, <1>4

\* Every step keeps the types.
LEMMA TypeNext == TypeOK /\ [Next]_vars => TypeOK'
  <1> SUFFICES ASSUME TypeOK, [Next]_vars PROVE TypeOK'
    OBVIOUS
  <1>1. CASE UNCHANGED vars
    BY <1>1 DEF vars, request, job, editor, TypeOK, FilesTyped, ManagerTyped, JobsTyped,
                RestoringTyped, SavesTyped
  <1>2. CASE Next
    BY <1>2, StartTyped, ThreadTyped, TurnTyped, StopTyped, RestoreTyped, EditorTyped DEF Next
  <1>3. QED
    BY <1>1, <1>2

\* Every variable keeps its type: the files, the manager's tables, the turns, the restores, the saves.
THEOREM TurnsTyped == Spec => []TypeOK
  BY TypeInit, TypeNext, PTL DEF Spec

-----------------------------------------------------------------------------
(* The manager. What makes its invariants inductive: an unfinished turn is   *)
(* the active one; a request that registered a turn and has not prepared it  *)
(* holds the active turn, still new, and is the only one; a process exists   *)
(* only from Popen on; shutdown() stops after it closed.                     *)

Alone == /\ \A j \in Ids : Unfinished(j) => j = active
         /\ \A j \in Ids : stage[j] # "none" => j < nextId
Holding == /\ \A c \in Callers : caller[c].at = "registered"
                 => caller[c].id \in Ids /\ caller[c].id = active /\ stage[active] = "new"
           /\ \A c, d \in Callers : caller[c].at = "registered" /\ caller[d].at = "registered" => c = d
Started == \A j \in Ids : alive[j] => stage[j] \notin {"none", "new", "queued", "starting"}
Shutting == /\ closing # "open" => closed
            /\ closing # "closed" => stopper["shutdown"] = 0
ManagerInv == Alone /\ Holding /\ Started /\ Shutting /\ NoTurnOutlivesClose /\ StopIsNotMissed

\* The initial states satisfy it.
LEMMA ManagerInit == Init => ManagerInv
  BY DEF Init, ManagerInv, Alone, Holding, Started, Shutting, NoTurnOutlivesClose, StopIsNotMissed,
         Unfinished, Idle, Stoppers

\* start() keeps it: registration under the lock, preparation of the turn registered.
LEMMA StartKeeps ==
  ASSUME TypeOK, ManagerInv, NEW c \in Callers, Ask(c) \/ Refused(c) \/ Register(c) \/ Prepare(c)
  PROVE  ManagerInv'
  <1> USE DEF TypeOK, ManagerTyped, JobsTyped, ManagerInv, request, job
  <1>1. CASE Ask(c) \/ Refused(c)
    BY <1>1 DEF Ask, Refused, Idle, Alone, Holding, Started, Shutting, NoTurnOutlivesClose,
                StopIsNotMissed, Unfinished
  <1>2. CASE Register(c)
    <2>1. nextId \in Ids /\ ~Busy /\ ~closed
      BY <1>2, TurnsAssumption DEF Register, MayRegister, Ids
    <2>2. \A j \in Ids : ~Unfinished(j)
      BY <2>1 DEF Busy, Alone, Ids
    <2>3. \A d \in Callers : caller[d].at # "registered"
      BY <2>2 DEF Holding, Unfinished
    <2>4. Alone'
      BY <1>2, <2>1, <2>2 DEF Register, Alone, Unfinished, Ids
    <2>5. Holding'
      BY <1>2, <2>1, <2>3 DEF Register, Holding
    <2>6. stage[nextId] = "none"
      BY <2>1 DEF Alone, Ids
    <2>7. Started' /\ StopIsNotMissed'
      BY <1>2, <2>1, <2>6 DEF Register, Started, StopIsNotMissed
    <2>8. Shutting' /\ NoTurnOutlivesClose'
      BY <1>2, <2>1 DEF Register, Shutting, NoTurnOutlivesClose
    <2>9. QED
      BY <2>4, <2>5, <2>7, <2>8
  <1>3. CASE Prepare(c)
    <2>1. caller[c].id \in Ids /\ caller[c].id = active /\ stage[active] = "new"
      BY <1>3 DEF Prepare, Holding
    <2>2. Alone' /\ Started' /\ Shutting' /\ NoTurnOutlivesClose' /\ StopIsNotMissed'
      BY <1>3, <2>1 DEF Prepare, Alone, Started, Shutting, NoTurnOutlivesClose, StopIsNotMissed, Unfinished
    <2>3. Holding'
      BY <1>3, <2>1 DEF Prepare, Holding, Idle
    <2>4. QED
      BY <2>2, <2>3
  <1>4. QED
    BY <1>1, <1>2, <1>3

\* The turn's thread keeps it: the second check of the cancellation is what StopIsNotMissed needs.
LEMMA ThreadKeeps ==
  ASSUME TypeOK, ManagerInv, NEW j \in Ids, TurnThread(j) \/ HandleRaises(j) \/ Exits(j)
  PROVE  ManagerInv'
  <1> USE DEF TypeOK, ManagerTyped, JobsTyped, ManagerInv, request, job
  <1>1. CASE Exits(j)
    BY <1>1 DEF Exits, Alone, Holding, Started, Shutting, NoTurnOutlivesClose, StopIsNotMissed, Unfinished
  <1>2. CASE TurnThread(j) \/ HandleRaises(j)
    <2>1. stage[j] \notin {"none", "new", "done"}
          /\ \E to \in {"ended", "starting", "spawned", "begun", "reading", "reverting", "settled", "done"} :
               stage' = [stage EXCEPT ![j] = to]
      BY <1>2 DEF TurnThread, Enter, Popen, KeepProc, SecondCheck, Drain, HandleRaises, Snapshot,
                  Reverted, Done, Step
    <2>2. UNCHANGED <<closed, closing, nextId, active, caller, stopper>>
      BY <1>2 DEF TurnThread, Enter, Popen, KeepProc, SecondCheck, Drain, HandleRaises, Snapshot,
                  Reverted, Done
    <2>3. \A i \in Ids : (i # j => cancel'[i] = cancel[i]) /\ (Unfinished(j)' => cancel'[j] = cancel[j])
      BY <1>2 DEF TurnThread, Enter, Popen, KeepProc, SecondCheck, Drain, HandleRaises, Snapshot,
                  Reverted, Done, Step, SameJob, Unfinished
    <2>4. Alone' /\ Holding'
      BY <2>1, <2>2 DEF Alone, Holding, Unfinished
    <2>5. Shutting' /\ NoTurnOutlivesClose'
      BY <2>1, <2>2, <2>3 DEF Shutting, NoTurnOutlivesClose, Unfinished
    <2>6. Started'
      BY <1>2 DEF TurnThread, Enter, Popen, KeepProc, SecondCheck, Drain, HandleRaises, Snapshot,
                  Reverted, Done, Step, Started
    <2>7. StopIsNotMissed'
      <3>1. CASE Enter(j)
        BY <3>1 DEF Enter, Step, SameJob, Started, StopIsNotMissed
      <3>2. CASE Popen(j)
        BY <3>2 DEF Popen, Step, SameJob, Started, StopIsNotMissed
      <3>3. CASE KeepProc(j) \/ SecondCheck(j) \/ Drain(j) \/ HandleRaises(j)
        <4>1. CASE KeepProc(j)
          BY <4>1 DEF KeepProc, Step, SameJob, StopIsNotMissed
        <4>2. CASE SecondCheck(j)
          BY <4>2 DEF SecondCheck, Step, SameJob, StopIsNotMissed
        <4>3. CASE Drain(j) \/ HandleRaises(j)
          BY <4>3 DEF Drain, HandleRaises, Step, SameJob, StopIsNotMissed
        <4>4. QED
          BY <3>3, <4>1, <4>2, <4>3
      <3>4. CASE Snapshot(j) \/ Reverted(j) \/ Done(j)
        BY <3>4 DEF Snapshot, Reverted, Done, Step, SameJob, StopIsNotMissed
      <3>5. QED
        BY <1>2, <3>1, <3>2, <3>3, <3>4 DEF TurnThread
    <2>8. QED
      BY <2>4, <2>5, <2>6, <2>7
  <1>3. QED
    BY <1>1, <1>2

\* stop() and shutdown() keep it.
LEMMA StopKeeps ==
  ASSUME TypeOK, ManagerInv,
         \/ \E j \in Ids : StopCancels(j)
         \/ \E s \in Stoppers : StopKills(s)
         \/ Close \/ CloseStops
  PROVE  ManagerInv'
  <1> USE DEF TypeOK, ManagerTyped, JobsTyped, ManagerInv, request, job, Stoppers
  <1>1. ASSUME NEW j \in Ids, StopCancels(j) PROVE ManagerInv'
    BY <1>1 DEF StopCancels, Cancel, Alone, Holding, Started, Shutting, NoTurnOutlivesClose,
                StopIsNotMissed, Unfinished
  <1>2. ASSUME NEW s \in Stoppers, StopKills(s) PROVE ManagerInv'
    <2>1. Alone' /\ Holding' /\ Started' /\ Shutting' /\ NoTurnOutlivesClose'
      BY <1>2 DEF StopKills, Alone, Holding, Started, Shutting, NoTurnOutlivesClose, Unfinished
    <2>2. StopIsNotMissed'
      BY <1>2 DEF StopKills, StopIsNotMissed, ProcSeen
    <2>3. QED
      BY <2>1, <2>2
  <1>3. CASE Close
    BY <1>3 DEF Close, Alone, Holding, Started, Shutting, NoTurnOutlivesClose, StopIsNotMissed, Unfinished
  <1>4. CASE CloseStops
    <2>1. Alone' /\ Holding' /\ Started' /\ Shutting'
      BY <1>4 DEF CloseStops, Cancel, Alone, Holding, Started, Shutting, Unfinished
    <2>2. NoTurnOutlivesClose'
      <3>1. CASE Busy
        BY <1>4, <3>1 DEF CloseStops, Cancel, Alone, NoTurnOutlivesClose, Unfinished
      <3>2. CASE ~Busy
        BY <1>4, <3>2 DEF CloseStops, Cancel, Alone, NoTurnOutlivesClose, Unfinished, Busy, Ids
      <3>3. QED
        BY <3>1, <3>2
    <2>3. StopIsNotMissed'
      <3>1. CASE Busy /\ Cancel("shutdown", active)
        <4>1. active \in Ids /\ stopper["shutdown"] = 0 /\ 0 \notin Ids
          BY <1>4, <3>1 DEF CloseStops, Busy, Shutting, Ids
        <4>2. \A j \in Ids : (\A s \in Stoppers : stopper'[s] # j)
                => j # active /\ (\A s \in Stoppers : stopper[s] # j)
          BY <3>1, <4>1 DEF Cancel
        <4>3. \A j \in Ids \ {active} : cancel'[j] = cancel[j]
          BY <3>1, <4>1 DEF Cancel
        <4>4. QED
          BY <1>4, <4>2, <4>3 DEF CloseStops, StopIsNotMissed
      <3>2. CASE UNCHANGED <<cancel, stopper>>
        BY <1>4, <3>2 DEF CloseStops, StopIsNotMissed
      <3>3. QED
        BY <1>4, <3>1, <3>2 DEF CloseStops
    <2>4. QED
      BY <2>1, <2>2, <2>3
  <1>5. QED
    BY <1>1, <1>2, <1>3, <1>4

\* No other step touches what it speaks of.
LEMMA RestKeeps ==
  ASSUME ManagerInv, UNCHANGED <<closed, closing, nextId, active, caller, stage, cancel, alive, stopper>>
  PROVE  ManagerInv'
  BY DEF ManagerInv, Alone, Holding, Started, Shutting, NoTurnOutlivesClose, StopIsNotMissed, Unfinished

\* Every step keeps the manager's invariant.
LEMMA ManagerNext == TypeOK /\ ManagerInv /\ [Next]_vars => ManagerInv'
  <1> SUFFICES ASSUME TypeOK, ManagerInv, [Next]_vars PROVE ManagerInv'
    OBVIOUS
  <1> USE DEF request, job
  <1>1. CASE UNCHANGED vars
    BY <1>1, RestKeeps DEF vars
  <1>2. ASSUME NEW j \in Ids, AgentWrites(j) \/ Undo(j) PROVE ManagerInv'
    BY <1>2, RestKeeps DEF AgentWrites, Undo
  <1>3. ASSUME NEW r \in Restorers, Restore(r) PROVE ManagerInv'
    BY <1>3, RestKeeps DEF Restore, RestoreLooks, RestoreWrites
  <1>4. ASSUME NEW t \in Tabs,
               (\E f \in Files : Load(t, f)) \/ SaveAsked(t) \/ SaveChecks(t) \/ SaveWrites(t)
        PROVE  ManagerInv'
    BY <1>4, RestKeeps DEF Load, SaveAsked, SaveChecks, SaveWrites
  <1>5. QED
    BY <1>1, <1>2, <1>3, <1>4, StartKeeps, ThreadKeeps, StopKeeps DEF Next

\* The invariant holds of every reachable state.
LEMMA ManagerAlways == Spec => [](TypeOK /\ ManagerInv)
  BY TypeInit, ManagerInit, TypeNext, ManagerNext, PTL DEF Spec

\* One turn at a time, however many requests race in start().
THEOREM OneTurnAtATime == Spec => []OneTurn
  <1>1. ManagerInv => OneTurn
    BY DEF ManagerInv, Alone, OneTurn
  <1>2. QED
    BY ManagerAlways, <1>1, PTL

\* No stop falls between the check, the start of the process and the second check.
THEOREM NoStopIsMissed == Spec => []StopIsNotMissed
  <1>1. ManagerInv => StopIsNotMissed
    BY DEF ManagerInv
  <1>2. QED
    BY ManagerAlways, <1>1, PTL

\* After shutdown() every turn that still runs has been cancelled.
THEOREM CloseStopsTurns == Spec => []NoTurnOutlivesClose
  <1>1. ManagerInv => NoTurnOutlivesClose
    BY DEF ManagerInv
  <1>2. QED
    BY ManagerAlways, <1>1, PTL

-----------------------------------------------------------------------------
(* The editor. Only one tab is past the conflict check, and what it checked  *)
(* stays true of the other tabs' saves until it has written.                 *)

Saving == \A t \in Tabs : tab[t].at # "idle" => tab[t].file \in Files
Unspoilt == \A t \in Tabs : tab[t].at = "writing" /\ ~tab[t].force /\ seen[t][tab[t].file] = "saved"
                              => disk[tab[t].file] = NoText
OneWriter == \A t, u \in Tabs : tab[t].at = "writing" /\ tab[u].at = "writing" => t = u
SaveInv == Saving /\ OneWriter /\ Unspoilt

\* A write by the agent or by a restore is not another tab's save.
LEMMA OtherWriteKeeps ==
  ASSUME TypeOK, SaveInv, NEW f \in Files, NEW text, NEW by,
         Put(f, text, "changed", by), UNCHANGED tab
  PROVE  SaveInv'
  <1>1. \A t \in Tabs, g \in Files :
          seen'[t][g] = "saved" => g # f /\ seen[t][g] = "saved" /\ disk'[g] = disk[g]
    BY DEF Put, TypeOK, FilesTyped
  <1>2. QED
    BY <1>1 DEF SaveInv, Saving, OneWriter, Unspoilt

\* A save in progress keeps it: the lock makes it the only one.
LEMMA EditorKeeps ==
  ASSUME TypeOK, SaveInv, NEW t \in Tabs,
         \/ \E f \in Files : Load(t, f)
         \/ SaveAsked(t) \/ SaveChecks(t) \/ SaveWrites(t)
  PROVE  SaveInv'
  <1> USE DEF TypeOK, FilesTyped, SavesTyped, Saves, SaveInv, Saving
  <1>1. ASSUME NEW f \in Files, Load(t, f) PROVE SaveInv'
    BY <1>1 DEF Load, editor, OneWriter, Unspoilt
  <1>2. CASE SaveAsked(t)
    <2>1. PICK f \in Files, x \in Texts, force \in BOOLEAN :
            tab' = [tab EXCEPT ![t] = [at |-> "admitted", file |-> f, text |-> x, force |-> force]]
      BY <1>2 DEF SaveAsked
    <2>2. QED
      BY <1>2, <2>1 DEF SaveAsked, OneWriter, Unspoilt
  <1>3. CASE SaveChecks(t)
    <2>1. \A u \in Tabs : tab[u].at # "writing"
      BY <1>3 DEF SaveChecks, SaveLockFree
    <2>2. CASE tab' = [tab EXCEPT ![t] = NoSave]
      BY <1>3, <2>1, <2>2 DEF SaveChecks, NoSave, OneWriter, Unspoilt
    <2>3. CASE /\ tab' = [tab EXCEPT ![t] = [@ EXCEPT !.at = "writing"]]
               /\ disk[tab[t].file] = NoText \/ seen[t][tab[t].file] = "current" \/ tab[t].force
      <3>1. /\ \A u \in Tabs \ {t} : tab'[u] = tab[u]
            /\ tab'[t].at = "writing" /\ tab'[t].file = tab[t].file /\ tab'[t].force = tab[t].force
        BY <2>3
      <3>2. UNCHANGED <<disk, seen>> /\ tab[t].at = "admitted"
        BY <1>3 DEF SaveChecks
      <3>3. Saving' /\ OneWriter'
        <4>1. \A u \in Tabs : tab'[u].at = "writing" => u = t
          BY <2>1, <3>1
        <4>2. \A u \in Tabs : tab'[u].at # "idle" => tab'[u].file \in Files
          BY <3>1, <3>2
        <4>3. QED
          BY <4>1, <4>2 DEF OneWriter
      <3>4. Unspoilt'
        BY <2>1, <2>3, <3>1, <3>2 DEF Unspoilt
      <3>5. QED
        BY <3>3, <3>4
    <2>4. QED
      BY <1>3, <2>2, <2>3 DEF SaveChecks
  <1>4. CASE SaveWrites(t)
    <2>1. \A u \in Tabs : tab'[u].at # "writing"
      BY <1>4 DEF SaveWrites, OneWriter, NoSave
    <2>2. Saving'
      BY <1>4 DEF SaveWrites, NoSave
    <2>3. QED
      BY <2>1, <2>2 DEF OneWriter, Unspoilt
  <1>5. QED
    BY <1>1, <1>2, <1>3, <1>4

\* Every step keeps it.
LEMMA SaveNext == TypeOK /\ SaveInv /\ [Next]_vars => SaveInv'
  <1> SUFFICES ASSUME TypeOK, SaveInv, [Next]_vars PROVE SaveInv'
    OBVIOUS
  <1> USE DEF editor
  <1>1. ASSUME UNCHANGED <<disk, seen, tab>> PROVE SaveInv'
    BY <1>1 DEF SaveInv, Saving, OneWriter, Unspoilt
  <1>2. CASE UNCHANGED vars
    BY <1>1, <1>2 DEF vars
  <1>3. ASSUME NEW c \in Callers, Ask(c) \/ Refused(c) \/ Register(c) \/ Prepare(c) PROVE SaveInv'
    BY <1>1, <1>3 DEF Ask, Refused, Register, Prepare
  <1>4. ASSUME NEW j \in Ids, TurnThread(j) \/ HandleRaises(j) \/ Exits(j) \/ StopCancels(j) \/ Undo(j)
        PROVE  SaveInv'
    BY <1>1, <1>4 DEF TurnThread, Enter, Popen, KeepProc, SecondCheck, Drain, HandleRaises, Snapshot,
                      Reverted, Done, Exits, StopCancels, Undo
  <1>5. ASSUME NEW j \in Ids, AgentWrites(j) PROVE SaveInv'
    BY <1>5, OtherWriteKeeps DEF AgentWrites
  <1>6. ASSUME Close \/ CloseStops \/ \E s \in Stoppers : StopKills(s) PROVE SaveInv'
    BY <1>1, <1>6 DEF Close, CloseStops, StopKills
  <1>7. ASSUME NEW r \in Restorers, Restore(r) PROVE SaveInv'
    <2>1. CASE RestoreLooks(r)
      BY <1>1, <2>1 DEF RestoreLooks
    <2>2. CASE RestoreWrites(r)
      <3>1. PICK f \in restoring[r].hand :
              \/ Put(f, before[restoring[r].turn][f], "changed", NoFile)
              \/ UNCHANGED <<disk, seen>>
        BY <2>2 DEF RestoreWrites
      <3>2. f \in Files
        BY <3>1, InHand DEF TypeOK
      <3>3. UNCHANGED tab
        BY <2>2 DEF RestoreWrites
      <3>4. QED
        BY <1>1, <3>1, <3>2, <3>3, OtherWriteKeeps
    <2>3. QED
      BY <1>7, <2>1, <2>2 DEF Restore
  <1>8. QED
    BY <1>2, <1>3, <1>4, <1>5, <1>6, <1>7, EditorKeeps DEF Next

\* A save that is not forced never overwrites what another tab saved since its tab loaded the
\* file, for any number of tabs: save_lock holds from the conflict check to the write.
THEOREM SavesAreSpared == Spec => SavesSpareSaves
  <1>1. Init => SaveInv
    BY DEF Init, SaveInv, Saving, OneWriter, Unspoilt, NoSave
  <1>2. SaveInv => \A t \in Tabs : tab[t].at = "writing" /\ tab'[t].at = "idle" /\ ~tab[t].force
                                     /\ disk[tab[t].file] # NoText
                                     => seen[t][tab[t].file] # "saved"
    BY DEF SaveInv, Unspoilt
  <1>3. QED
    BY TypeInit, TypeNext, SaveNext, <1>1, <1>2, PTL DEF Spec, SavesSpareSaves
=============================================================================

------------------------------ MODULE MCStore -------------------------------
(***************************************************************************)
(* What is written of a project, and how much of it one failure or another     *)
(* process may spoil, each part by a module of its own: the files beside the   *)
(* rows (ProjectFiles), blocks within blocks (Transactions), a turn's record    *)
(* (TurnRecords), the fog's crystallizing (Fog), the Home page's list           *)
(* (ProjectList), the layered memory (Memory), a bundle taken to another        *)
(* project (Exchange) and what a checkout may undo of a Challenge               *)
(* (Challenges).  The part a behaviour is about moves, and the others     *)
(* stay where they began.                                                       *)
(***************************************************************************)
EXTENDS Naturals, TLC

CONSTANTS
    Processes,
    Nodes, Turns, MaxTries,        \* ProjectFiles
    Keys, MaxWrites, MaxBlocks,    \* Transactions
    MaxAttempts,                   \* TurnRecords
    Parents, NewNodes, MaxItems, MaxRuns,   \* Fog
    Projects, MaxOpens,            \* ProjectList
    MaxStamps, MaxMarkers,         \* Memory
    Exported, MaxSteps,             \* Exchange's nodes
    Ids, MaxLines, MaxChanges,     \* Challenges
    NoOne

(* Nobody, no node and no lock's holder are none of the things themselves, a  *)
(* node made in the fog is not there from the start, and what bounds an        *)
(* instance is a number.                                                       *)
ASSUME StoreAssumption ==
    /\ {"nobody", NoOne} \cap Processes = {}
    /\ "no node" \notin Parents \cup NewNodes /\ Parents \cap NewNodes = {}
    /\ {MaxTries, MaxWrites, MaxBlocks, MaxAttempts, MaxItems, MaxRuns, MaxOpens, MaxStamps, MaxMarkers,
        MaxSteps, MaxLines, MaxChanges} \subseteq Nat

VARIABLES
    about,                                                   \* the part
    lock, rows, disk, preamble, proc, tries, atLock,         \* ProjectFiles
    committed, working, file, blocks, callbacks, raised, writes, own,   \* Transactions
    started, ended, others, transcript, recorder, turnLock, attempts,   \* TurnRecords
    fog, nodeRows, from, settled, crystallizer, fogLock,     \* Fog
    list, asked, listLock, opener,                           \* ProjectList
    state, memory, memoryLock, command, stamps,              \* Memory
    source, target, bundle, read, torn, plan, steps,         \* Exchange
    row, fixes, lines, imported, changes, checkout           \* Challenges

fileVars   == <<lock, rows, disk, preamble, proc, tries, atLock>>
blockVars  == <<committed, working, file, blocks, callbacks, raised, writes, own>>
turnVars   == <<started, ended, others, transcript, recorder, turnLock, attempts>>
fogVars    == <<fog, nodeRows, from, settled, crystallizer, fogLock>>
listVars   == <<list, asked, listLock, opener>>
memoryVars == <<state, memory, memoryLock, command, stamps>>
bundleVars == <<source, target, bundle, read, torn, plan, steps>>
doubtVars  == <<row, fixes, lines, imported, changes, checkout>>

AllOps == {"create", "split", "medium", "import", "review", "turn", "switch", "save"}

Files == INSTANCE ProjectFiles WITH Ops <- AllOps

Blocks == INSTANCE Transactions

Turn == INSTANCE TurnRecords WITH file <- transcript, proc <- recorder, lock <- turnLock

Cloud == INSTANCE Fog WITH rows <- nodeRows, proc <- crystallizer, lock <- fogLock

Home == INSTANCE ProjectList WITH file <- list, lock <- listLock, proc <- opener

Kept == INSTANCE Memory WITH lock <- memoryLock, proc <- command

Bundle == INSTANCE Exchange WITH Nodes <- Exported

Doubts == INSTANCE Challenges

vars ==
    <<about, fileVars, blockVars, turnVars, fogVars, listVars, memoryVars, bundleVars, doubtVars>>

Init ==
    /\ about \in {"files", "blocks", "turn", "fog", "list", "memory", "bundle", "doubts"}
    /\ Files!Init /\ Blocks!Init /\ Turn!Init /\ Cloud!Init /\ Home!Init /\ Kept!Init /\ Bundle!Init
    /\ Doubts!Init
    /\ about # "bundle" => source = Bundle!Empty
    /\ about # "doubts" => row = [c \in Ids |-> Doubts!Unraised] /\ ~ imported

Next ==
    /\ UNCHANGED about
    /\ \/ /\ about = "files" /\ Files!Next
          /\ UNCHANGED <<blockVars, turnVars, fogVars, listVars, memoryVars, bundleVars, doubtVars>>
       \/ /\ about = "blocks" /\ Blocks!Next
          /\ UNCHANGED <<fileVars, turnVars, fogVars, listVars, memoryVars, bundleVars, doubtVars>>
       \/ /\ about = "turn" /\ Turn!Next
          /\ UNCHANGED <<fileVars, blockVars, fogVars, listVars, memoryVars, bundleVars, doubtVars>>
       \/ /\ about = "fog" /\ Cloud!Next
          /\ UNCHANGED <<fileVars, blockVars, turnVars, listVars, memoryVars, bundleVars, doubtVars>>
       \/ /\ about = "list" /\ Home!Next
          /\ UNCHANGED <<fileVars, blockVars, turnVars, fogVars, memoryVars, bundleVars, doubtVars>>
       \/ /\ about = "memory" /\ Kept!Next
          /\ UNCHANGED <<fileVars, blockVars, turnVars, fogVars, listVars, bundleVars, doubtVars>>
       \/ /\ about = "bundle" /\ Bundle!Next
          /\ UNCHANGED <<fileVars, blockVars, turnVars, fogVars, listVars, memoryVars, doubtVars>>
       \/ /\ about = "doubts" /\ Doubts!Next
          /\ UNCHANGED <<fileVars, blockVars, turnVars, fogVars, listVars, memoryVars, bundleVars>>

Spec == Init /\ [][Next]_vars

(* The processes are alike, and so are the nodes of a bundle.              *)
Alike == Permutations(Processes) \cup Permutations(Exported)

(* Whatever fails, crashes or is left half-way, a committed row has its file, *)
(* a rollback spares the files of others (ProjectFiles), and blocks within    *)
(* blocks leave every file as its row says (Transactions).                    *)
FilesFollow ==
    /\ about = "files" => Files!FilesMatchRows /\ Files!RollbackSpares
    /\ about = "blocks" => Blocks!FilesFollowRows

(* What one process recorded no other and no failure takes back: a side       *)
(* document's saves (ProjectFiles) and a turn's transcript (TurnRecords).     *)
KeptForGood == Files!DocumentKept /\ Turn!RecordKept

(* What the layered memory took in stays in it, once and where it was          *)
(* (Memory).                                                                   *)
MemoryKept == Kept!NothingForgotten

(* Two processes at once make what one after the other would: one node of an  *)
(* item (Fog), and every change of the list of projects (ProjectList).        *)
OneAfterAnother ==
    /\ about = "fog" => Cloud!CrystallizedOnce
    /\ about = "list" => Home!NoChangeLost

(* An import is whole, and what was there stands (Exchange).                  *)
ImportStands == about = "bundle" => Bundle!ImportStands

(* What became of a Challenge is not undone but by a checkout (Challenges).   *)
EndingsStand == Doubts!EndingsStand
=============================================================================

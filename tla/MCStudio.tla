------------------------------ MODULE MCStudio ------------------------------
(***************************************************************************)
(* What the studio does besides its agent's turns (AgentTurns): a small     *)
(* instance of its builds and runs (Studio), and beside it a file open in   *)
(* its page (Page), the page following a turn (Follow), what it draws of it *)
(* (Stream) and the text of a file the agent is writing (LiveInput).  The   *)
(* part a behaviour is about moves, and the others stay where they began.   *)
(***************************************************************************)
EXTENDS Studio

CONSTANTS
    FirstText, FirstBib,                                \* of the builds (Studio)
    Fetches, MaxTexts, MaxGens, MaxSaves, MaxWrites,    \* of the page (Page)
    MaxEvents, MaxBuilds,                               \* of a turn followed (Follow)
    Calls, MaxPieces, MaxMessages, MaxBatch,            \* of a turn drawn (Stream)
    MaxItems                                            \* of a file written (LiveInput)

VARIABLES
    about,                                                  \* the part
    disk, tab, gens, undone, timer, saves, fetch, texts, seen, written,   \* Page
    events, done, builds, request, after, drawn, following, \* Follow
    partial, open, name, said, count, queue, page,          \* Stream
    items, json, fed, pos, ended, path, out                 \* LiveInput

pageVars   == <<disk, tab, gens, undone, timer, saves, fetch, texts, seen, written>>
followVars == <<events, done, builds, request, after, drawn, following>>
streamVars == <<partial, open, name, said, count, queue, page>>
inputVars  == <<items, json, fed, pos, ended, path, out>>

Open == INSTANCE Page WITH Others <- {"page", "program"}

Panel == INSTANCE Follow

Turn == INSTANCE Stream

Live == INSTANCE LiveInput WITH done <- ended

(* The builds and runs are looked at twice, to keep the instance small: in a *)
(* folder that is edited and has no run, and in one that nobody edits.      *)
NoRun == \A r \in Runs : pc'[r] = "new"
NoEdit == UNCHANGED <<tex, bib>>

(* Where the parts begin: one that is not the behaviour's own begins in one *)
(* way only.                                                                *)
StudioInit ==
    /\ about \in {"builds", "runs", "page", "panel", "stream", "input"}
    /\ Init /\ Open!Init /\ Panel!Init /\ Turn!Init /\ Live!Init
    /\ about # "builds" => tex = FirstText /\ bib = FirstBib
    /\ about # "stream" => ~partial
    /\ about # "input" => items = <<>> /\ json = Live!Input(<<>>, TRUE)

StudioNext ==
    /\ UNCHANGED about
    /\ \/ /\ \/ about = "builds" /\ Next /\ NoRun
             \/ about = "runs" /\ Next /\ NoEdit
          /\ UNCHANGED <<pageVars, followVars, streamVars, inputVars>>
       \/ about = "page" /\ Open!Next /\ UNCHANGED <<vars, followVars, streamVars, inputVars>>
       \/ about = "panel" /\ Panel!Next /\ UNCHANGED <<vars, pageVars, streamVars, inputVars>>
       \/ about = "stream" /\ Turn!Next /\ UNCHANGED <<vars, pageVars, followVars, inputVars>>
       \/ about = "input" /\ Live!Next /\ UNCHANGED <<vars, pageVars, followVars, streamVars>>

StudioSpec ==
    /\ StudioInit
    /\ [][StudioNext]_<<about, vars, pageVars, followVars, streamVars, inputVars>>
    /\ Fair

(* A tab without the mark of unsaved edits shows what was loaded or saved,   *)
(* and what was typed is not taken from it before it was on disk (Page); and *)
(* of a turn it follows the page draws every event, once and in order, and   *)
(* stops only after the last (Follow).                                       *)
NothingLost == []Open!CleanIsSaved /\ Open!TypedIsKept /\ Panel!FollowedWhole

(* The log is what the program said, each text and call once (Stream), and   *)
(* the text of a file being written is shown as it is, wherever its fragments  *)
(* are cut (LiveInput).                                                       *)
DrawnWhole ==
    /\ about = "stream" => Turn!DrawnAsSaid
    /\ about = "input" => Live!ShownAsWritten
=============================================================================

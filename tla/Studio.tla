------------------------------- MODULE Studio -------------------------------
(***************************************************************************)
(* One folder's studio (packages/latex-agent: server.py's Studio, build.py's *)
(* Runner and Build): the built-in LaTeX build with its passes and BibTeX, a *)
(* computation's runs, the requests that stop them and the studio's closing. *)
(* Each request is served in a thread of its own; `build_lock` and `_admit`  *)
(* are the locks, and a program runs without `_admit` held.                  *)
(*                                                                           *)
(* A text is its contents, as the hashes of build.py tell it: an edit that  *)
(* is undone gives back what was there.  The output folder holds what LaTeX *)
(* reads back: the .aux (the document it was written from), the .bbl (the   *)
(* citations and the .bib it was made from), each Cut when the program was  *)
(* killed while it wrote, and the build's saved signature; the PDF of a     *)
(* build's last pass is the triple it was typeset from.                     *)
(*                                                                           *)
(* dir.loose is observed only: a .bbl was left whose BibTeX was stopped,    *)
(* failed, read another .bib than its signature says, or had its signature  *)
(* not saved.  A Build and a Runner are used once, so each is an element of *)
(* Builds or Runs.                                                          *)
(***************************************************************************)
EXTENDS Naturals, FiniteSets

CONSTANTS
    NBuilds,    \* bound: how many builds are asked for, numbered as they are
    Runs,       \* Runner objects of a computation's runs
    None,       \* nobody, no file
    Cut,        \* an .aux or a .bbl left half written
    Manuscripts, Bibs,      \* what the document and the .bib may say
    Uncited,    \* the manuscripts that cite nothing; no two others cite the same
    MaxPasses   \* build.py's MAX_PASSES

Builds == 1 .. NBuilds
Jobs == Builds \cup Runs

ASSUME JobsAssumption == Builds \cap Runs = {} /\ None \notin Jobs
ASSUME TextsAssumption ==
    /\ Uncited \subseteq Manuscripts
    /\ {None, Cut} \cap (Manuscripts \cup (Manuscripts \X Bibs)) = {} /\ None \notin Bibs /\ None # Cut

VARIABLES
    tex, bib,       \* what the document and the bibliography say
    dir,            \* the output folder: [aux, bbl, sig, loose]
    pc,             \* [Jobs -> where its thread is]
    mine,           \* [Builds -> its locals: before, pdf, state, sig, read,
                    \*  ended, passes, retried, edited]
    program,        \* [Jobs -> the program it runs, or None]
    stopped,        \* the Runners whose `stopped` event is set
    buildLock, runningBuild, runningRuns,
    closed,
    stopping        \* [asked: the jobs stop requests read and have not stopped yet,
                    \*  close: where close() is, taken: the jobs it took]

vars == <<tex, bib, dir, pc, mine, program, stopped, buildLock,
          runningBuild, runningRuns, closed, stopping>>

files  == <<tex, bib>>
admits == <<buildLock, runningBuild, runningRuns, closed, stopping>>

Fresh == [before |-> None, pdf |-> None, state |-> None, sig |-> None, read |-> None,
          ended |-> "not", passes |-> 0, retried |-> FALSE, edited |-> FALSE]

Feedback == <<dir.aux, dir.bbl>>

Bibliography == IF tex \in Uncited THEN None ELSE <<tex, bib>>
UpToDate == <<tex, tex, Bibliography>>

Init ==
    /\ tex \in Manuscripts /\ bib \in Bibs
    /\ dir = [aux |-> None, bbl |-> None, sig |-> None, loose |-> FALSE]
    /\ pc = [j \in Jobs |-> "new"]
    /\ mine = [b \in Builds |-> Fresh]
    /\ program = [j \in Jobs |-> None]
    /\ stopped = {}
    /\ buildLock = None /\ runningBuild = None /\ runningRuns = {}
    /\ closed = FALSE
    /\ stopping = [asked |-> {}, close |-> "no", taken |-> {}]

-----------------------------------------------------------------------------
(* The page, the agent or another editor write the document.                 *)

(* Something was edited: a build under way may not have seen it.            *)
UnderWay == {b \in Builds : pc[b] \in {"pass", "tex", "tools", "bibtex", "bibread", "decide", "settled"}}
Edited == mine' = [b \in Builds |-> IF b \in UnderWay THEN [mine[b] EXCEPT !.edited = TRUE] ELSE mine[b]]

EditTex ==
    /\ tex' \in Manuscripts \ {tex}
    /\ Edited
    /\ UNCHANGED <<bib, dir, pc, program, stopped, admits>>

EditBib ==
    /\ bib' \in Bibs \ {bib}
    /\ Edited
    /\ UNCHANGED <<tex, dir, pc, program, stopped, admits>>

-----------------------------------------------------------------------------
(* Runner.run: under the Runner's lock, nothing starts once it is stopped.  *)
MayStart(j) == j \notin stopped

Starts(j, prog) ==
    /\ MayStart(j)
    /\ program' = [program EXCEPT ![j] = prog]

(* A program that ended with the Runner stopped raises Stopped, as the next *)
(* one's start does: the build or run goes no further.                      *)
Halts(j, at) ==
    /\ pc[j] = at /\ ~ MayStart(j)
    /\ pc' = [pc EXCEPT ![j] = "halted"]
    /\ UNCHANGED <<files, dir, mine, program, stopped, admits>>

(* stop() kills the program after it set the event, as the time limit does. *)
(* TeX killed while it writes may leave its .aux cut short, or was done, and *)
(* so may BibTeX its .bbl, from the .bib it has read.                       *)
Typeset == [dir EXCEPT !.aux = tex]
BblOf(b) == [dir EXCEPT !.bbl = <<dir.aux, mine[b].read>>]
BblBroken(b) == {dir, [dir EXCEPT !.bbl = Cut], BblOf(b)}

LeftBehind(j) ==
    IF pc[j] = "tex" THEN {dir, [dir EXCEPT !.aux = Cut], Typeset}
    ELSE IF pc[j] = "bibread" THEN BblBroken(j) ELSE {dir}

Killed(j) ==
    /\ j \in stopped /\ program[j] # None
    /\ program' = [program EXCEPT ![j] = None]
    /\ pc' = [pc EXCEPT ![j] = "halted"]
    /\ dir' \in LeftBehind(j)
    /\ UNCHANGED <<files, mine, stopped, admits>>

TimedOut(j) ==
    /\ program[j] # None /\ j \notin stopped
    /\ stopped' = stopped \cup {j}
    /\ UNCHANGED <<files, dir, pc, mine, program, admits>>

-----------------------------------------------------------------------------
(* run_build and Build.run with the built-in builder.                       *)

(* The build lock is tried, never waited for: a second build is busy.       *)
BuildAsked(b) ==
    /\ pc[b] = "new" /\ \A c \in 1 .. b - 1 : pc[c] # "new"
    /\ IF buildLock = None
       THEN /\ buildLock' = b
            /\ pc' = [pc EXCEPT ![b] = "locked"]
       ELSE /\ pc' = [pc EXCEPT ![b] = "busy"]
            /\ UNCHANGED buildLock
    /\ UNCHANGED <<files, dir, mine, program, stopped, runningBuild, runningRuns, closed, stopping>>

(* Registered before it runs, under _admit, so that close() can stop it.    *)
AdmitsAlways == TRUE
AdmitsBuild == ~ closed
BuildAdmitted(b) ==
    /\ pc[b] = "locked"
    /\ IF AdmitsBuild
       THEN /\ runningBuild' = b
            /\ pc' = [pc EXCEPT ![b] = "admitted"]
       ELSE /\ pc' = [pc EXCEPT ![b] = "halted"]
            /\ UNCHANGED runningBuild
    /\ UNCHANGED <<files, dir, mine, program, stopped, buildLock, runningRuns, closed, stopping>>

Cleaned == [dir EXCEPT !.aux = None, !.bbl = None, !.sig = None, !.loose = FALSE]

(* Recompiling from scratch cleans first; the saved signatures are loaded.  *)
BuildBegins(b) ==
    /\ pc[b] = "admitted"
    /\ \E d \in {dir, Cleaned} :
         /\ dir' = d
         /\ mine' = [mine EXCEPT ![b] = [Fresh EXCEPT !.state = d.sig]]
    /\ pc' = [pc EXCEPT ![b] = "pass"]
    /\ UNCHANGED <<files, program, stopped, admits>>

(* A pass: the feedback files are noted, then the engine runs.              *)
PassStarts(b) ==
    /\ pc[b] = "pass"
    /\ Starts(b, "tex")
    /\ mine' = [mine EXCEPT ![b].before = Feedback]
    /\ pc' = [pc EXCEPT ![b] = "tex"]
    /\ UNCHANGED <<files, dir, stopped, admits>>

(* It typesets the document from the feedback files it found and writes     *)
(* them again; one cut short may end the first pass with an error, and      *)
(* then what earlier builds left is removed and the build starts once more. *)
Retries(b) == mine[b].passes = 0 /\ ~ mine[b].retried /\ Cut \in {dir.aux, dir.bbl}

PassBreaks(b) ==
    /\ pc[b] = "tex" /\ program[b] = "tex" /\ MayStart(b) /\ Retries(b)
    /\ program' = [program EXCEPT ![b] = None]
    /\ dir' = Cleaned
    /\ mine' = [mine EXCEPT ![b] = [@ EXCEPT !.state = None, !.retried = TRUE]]
    /\ pc' = [pc EXCEPT ![b] = "pass"]
    /\ UNCHANGED <<files, stopped, admits>>

PassEnds(b) ==
    /\ pc[b] = "tex" /\ program[b] = "tex" /\ MayStart(b)
    /\ program' = [program EXCEPT ![b] = None]
    /\ dir' = Typeset
    /\ mine' = [mine EXCEPT ![b] = [@ EXCEPT !.pdf = <<tex, dir.aux, dir.bbl>>,
                                             !.passes = mine[b].passes + 1]]
    /\ pc' = [pc EXCEPT ![b] = "tools"]
    /\ UNCHANGED <<files, stopped, admits>>

(* _tools: BibTeX runs when the signature of its input (the citations and   *)
(* the .bib's contents) is not the saved one, or when there is no .bbl; and *)
(* where nothing is cited any .bbl is removed.                              *)
Signature == <<dir.aux, bib>>
Cites == dir.aux \notin Uncited
BibIsDue(b) == Cites /\ ~ (mine[b].state = Signature /\ dir.bbl # None)
BibStarts(b) ==
    /\ pc[b] = "tools" /\ BibIsDue(b)
    /\ Starts(b, "bibtex")
    /\ mine' = [mine EXCEPT ![b] = [@ EXCEPT !.sig = Signature, !.ended = "not"]]
    /\ dir' = [dir EXCEPT !.loose = TRUE]
    /\ pc' = [pc EXCEPT ![b] = "bibtex"]
    /\ UNCHANGED <<files, stopped, admits>>

(* It reads the .bib after its signature was taken, ...                     *)
BibReads(b) ==
    /\ pc[b] = "bibtex" /\ program[b] = "bibtex"
    /\ mine' = [mine EXCEPT ![b].read = bib]
    /\ pc' = [pc EXCEPT ![b] = "bibread"]
    /\ UNCHANGED <<files, dir, program, stopped, admits>>

(* ... and makes the .bbl.  The signature is kept when it ends well; when it *)
(* fails the error is reported, the .bbl may be there or not, and the build *)
(* goes on with the signature it had.                                       *)
SigTakenAfter(b) == Signature
SigKept(b) == mine[b].sig

\* Whether it read the .bib that stood when it was started, and was signed.
Ended(b) == IF mine[b].read = mine[b].sig[2] THEN "sound" ELSE "unsure"

BibEnds(b) ==
    /\ pc[b] = "bibread" /\ program[b] = "bibtex" /\ MayStart(b)
    /\ program' = [program EXCEPT ![b] = None]
    /\ \E rc \in {"well", "failed"} :
         LET m == [mine[b] EXCEPT !.sig = None, !.read = None] IN
         /\ dir' \in IF rc = "well" THEN {BblOf(b)} ELSE BblBroken(b)
         /\ mine' = [mine EXCEPT ![b] =
              IF rc = "well" THEN [m EXCEPT !.state = SigKept(b), !.ended = Ended(b)]
              ELSE [m EXCEPT !.ended = "failed"]]
    /\ pc' = [pc EXCEPT ![b] = "decide"]
    /\ UNCHANGED <<files, stopped, admits>>

BibNotDue(b) ==
    /\ pc[b] = "tools" /\ ~ BibIsDue(b)
    /\ dir' = IF Cites THEN dir ELSE [dir EXCEPT !.bbl = None, !.loose = FALSE]
    /\ pc' = [pc EXCEPT ![b] = "decide"]
    /\ UNCHANGED <<files, mine, program, stopped, admits>>

(* Another pass while the feedback files change, up to MAX_PASSES; then the *)
(* signature is saved, if it can be written.                                *)
SettlesEarly(b) == mine[b].before[1] = dir.aux
Settles(b) == mine[b].before = Feedback

\* The last BibTeX of the build ended well, on the .bib its signature says.
Sound(b) == mine[b].ended = "sound"
Saved(b) == [dir EXCEPT !.sig = mine[b].state, !.loose = @ /\ ~ Sound(b)]

Decides(b) ==
    /\ pc[b] = "decide"
    /\ LET to == IF Settles(b) THEN "settled"
                 ELSE IF mine[b].passes >= MaxPasses THEN "capped" ELSE "pass" IN
         /\ pc' = [pc EXCEPT ![b] = to]
         /\ dir' \in IF to = "pass" THEN {dir} ELSE {dir, Saved(b)}
    /\ UNCHANGED <<files, mine, program, stopped, admits>>

(* run_build's finally: the build is no longer the running one, and the     *)
(* lock is given back.                                                      *)
OverUnstopped == {"settled", "capped"}
Over == {"settled", "capped", "halted"}
BuildReturns(b) ==
    /\ pc[b] \in Over
    /\ pc' = [pc EXCEPT ![b] = "returned"]
    /\ runningBuild' = None
    /\ buildLock' = None
    /\ mine' = [mine EXCEPT ![b] = Fresh]
    /\ UNCHANGED <<files, dir, program, stopped, runningRuns, closed, stopping>>

-----------------------------------------------------------------------------
(* run_program: a computation's run.sh.                                     *)

RunAdmitted(r) ==
    /\ pc[r] = "new"
    /\ IF closed
       THEN /\ pc' = [pc EXCEPT ![r] = "refused"]
            /\ UNCHANGED runningRuns
       ELSE /\ runningRuns' = runningRuns \cup {r}
            /\ pc' = [pc EXCEPT ![r] = "run"]
    /\ UNCHANGED <<files, dir, mine, program, stopped, buildLock, runningBuild, closed, stopping>>

RunStarts(r) ==
    /\ pc[r] = "run"
    /\ Starts(r, "run.sh")
    /\ pc' = [pc EXCEPT ![r] = "running"]
    /\ UNCHANGED <<files, dir, mine, stopped, admits>>

RunEnds(r) ==
    /\ pc[r] = "running" /\ program[r] = "run.sh"
    /\ program' = [program EXCEPT ![r] = None]
    /\ pc' = [pc EXCEPT ![r] = "halted"]
    /\ UNCHANGED <<files, dir, mine, stopped, admits>>

RunRemoved(r) ==
    /\ pc[r] = "halted" /\ r \in runningRuns
    /\ runningRuns' = runningRuns \ {r}
    /\ pc' = [pc EXCEPT ![r] = "returned"]
    /\ UNCHANGED <<files, dir, mine, program, stopped, buildLock, runningBuild, closed, stopping>>

-----------------------------------------------------------------------------
(* The stops: what runs is read first, and stopped in a later step.         *)

Reads(jobs) == stopping' = [stopping EXCEPT !.asked = @ \cup jobs]

StopBuildRead ==
    /\ stopping.asked = {} /\ runningBuild # None
    /\ Reads({runningBuild})
    /\ UNCHANGED <<files, dir, pc, mine, program, stopped, buildLock, runningBuild, runningRuns, closed>>

StopRunsRead ==
    /\ stopping.asked = {} /\ runningRuns # {}
    /\ Reads(runningRuns)
    /\ UNCHANGED <<files, dir, pc, mine, program, stopped, buildLock, runningBuild, runningRuns, closed>>

(* Runner.stop sets the event; what runs is killed afterwards.              *)
StopAsked ==
    /\ \E j \in stopping.asked :
         /\ stopped' = stopped \cup {j}
         /\ stopping' = [stopping EXCEPT !.asked = @ \ {j}]
    /\ UNCHANGED <<files, dir, pc, mine, program, buildLock, runningBuild, runningRuns, closed>>

(* close(): admits nothing more and takes the running build, ...            *)
CloseAdmit ==
    /\ ~ closed
    /\ closed' = TRUE
    /\ stopping' = [stopping EXCEPT !.close = "build", !.taken = {runningBuild} \ {None}]
    /\ UNCHANGED <<files, dir, pc, mine, program, stopped, buildLock, runningBuild, runningRuns>>

(* ... stops what it took and returns when the program it killed is gone ...*)
CloseStops ==
    /\ \E j \in stopping.taken \ stopped : stopped' = stopped \cup {j}
    /\ UNCHANGED <<files, dir, pc, mine, program, admits>>

Reaped == \A j \in stopping.taken : j \in stopped /\ program[j] = None

(* ... and then takes the computation's runs and stops them as well.        *)
CloseRuns ==
    /\ stopping.close = "build" /\ Reaped
    /\ stopping' = [stopping EXCEPT !.close = "runs", !.taken = runningRuns]
    /\ UNCHANGED <<files, dir, pc, mine, program, stopped, buildLock, runningBuild, runningRuns, closed>>

CloseReturns ==
    /\ stopping.close = "runs" /\ Reaped
    /\ stopping' = [stopping EXCEPT !.close = "done", !.taken = {}]
    /\ UNCHANGED <<files, dir, pc, mine, program, stopped, buildLock, runningBuild, runningRuns, closed>>

-----------------------------------------------------------------------------
BuildSteps(b) ==
    \/ BuildAsked(b) \/ BuildAdmitted(b) \/ BuildBegins(b)
    \/ PassStarts(b) \/ PassBreaks(b) \/ PassEnds(b)
    \/ BibStarts(b) \/ BibReads(b) \/ BibEnds(b) \/ BibNotDue(b) \/ Decides(b)
    \/ BuildReturns(b)
    \/ Halts(b, "pass")
    \/ /\ BibIsDue(b)
       /\ Halts(b, "tools")

RunSteps(r) ==
    \/ RunAdmitted(r) \/ RunStarts(r) \/ RunEnds(r) \/ RunRemoved(r)
    \/ Halts(r, "run")

Next ==
    \/ EditTex \/ EditBib
    \/ \E b \in Builds : BuildSteps(b)
    \/ \E r \in Runs : RunSteps(r)
    \/ \E j \in Jobs : Killed(j) \/ TimedOut(j)
    \/ StopBuildRead \/ StopRunsRead \/ StopAsked
    \/ CloseAdmit \/ CloseStops \/ CloseRuns \/ CloseReturns

(* Fairness: a request's thread goes on (Python's scheduler is fair and the *)
(* locks are held for a few statements); a program of a build ends or meets *)
(* its time limit, whose kill is the thread's own.                          *)
Spec == Init /\ [][Next]_vars

Fair ==
    /\ \A b \in Builds : WF_vars(BuildSteps(b) /\ pc[b] # "new")
    /\ \A j \in Jobs : WF_vars(Killed(j))

FairSpec == Spec /\ Fair

-----------------------------------------------------------------------------
(* A build that settled while nothing was edited left a PDF of the document *)
(* as it stands, typeset from the feedback files that are there.  Its       *)
(* bibliography is of what the document cites and the .bib says too,        *)
(* whatever earlier builds, stops and half-written files left, undone edits *)
(* among them, unless the .bbl was left loose before it: those are the only *)
(* ways a settled build can be stale (Build._builtin, Build._tools).        *)
SettledUnlessLoose ==
    \A b \in Builds : pc[b] = "settled" /\ ~ mine[b].edited =>
        /\ mine[b].pdf = <<tex, tex, dir.bbl>>
        /\ Sound(b) \/ ~ dir.loose => mine[b].pdf = UpToDate

(* build.py runs BibTeX "when their input changed" (build.py:12): so a build *)
(* that settled while nothing was edited, with no BibTeX failing in it,     *)
(* left a PDF of the document and the bibliography as they stand.  It does  *)
(* not hold: the input is compared with the one of the last signature that  *)
(* was saved, not of the BibTeX that ran last (Build._tools).               *)
SettledIsUpToDate ==
    \A b \in Builds :
        pc[b] = "settled" /\ ~ mine[b].edited /\ mine[b].ended # "failed" => mine[b].pdf = UpToDate

(* When close() has stopped what it took, no build and no run has a program *)
(* running, and none starts one (Studio._admit: a job is registered before  *)
(* it runs anything, or refused).                                           *)
NothingOutlivesClose ==
    stopping.close = "done" => \A j \in Jobs : program[j] = None

(* Every build that took the build lock gives it back, stopped, timed out,  *)
(* or still changing at MAX_PASSES (run_build's finally): the next build is *)
(* not busy for ever.                                                       *)
BuildsGiveTheLockBack == \A b \in Builds : buildLock = b ~> buildLock # b
=============================================================================

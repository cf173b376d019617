---------------------------- MODULE StudioProofs ----------------------------
(***************************************************************************)
(* What MCStudio's run checks of its parts, proved for any number of       *)
(* builds, runs, edits, passes, texts, saves, polls and events: what a      *)
(* build that settled left is up to date, and nothing outlives the studio's *)
(* closing (StudioInv); the page loses nothing that was typed (PageInv), and *)
(* draws every event of a turn it follows (PanelInv).                       *)
(***************************************************************************)
EXTENDS MCStudio, Sequences, TLAPS

Auxes == Manuscripts \cup {None, Cut}
Sigs == {None} \cup (Manuscripts \X Bibs)      \* a signature: a citation and a .bib
Bbls == Sigs \cup {Cut}                        \* a .bbl: what it was made from
Feedbacks == Auxes \X Bbls
Places == {"new", "locked", "busy", "admitted", "pass", "tex", "tools", "bibtex", "bibread", "decide",
           "settled", "capped", "halted", "returned", "refused", "run", "running"}
Locals == [before : {None} \cup Feedbacks, pdf : {None} \cup (Manuscripts \X Auxes \X Bbls),
           state : Sigs, sig : Sigs, read : Bibs \cup {None},
           ended : {"not", "sound", "unsure", "failed"},
           passes : Nat, retried : BOOLEAN, edited : BOOLEAN]

Folders == [aux : Auxes, bbl : Bbls, sig : Sigs, loose : BOOLEAN]

FilesTyped ==
  /\ tex \in Manuscripts /\ bib \in Bibs
  /\ dir \in Folders
  /\ mine \in [Builds -> Locals]

JobsTyped ==
  /\ pc \in [Jobs -> Places]
  /\ program \in [Jobs -> {None, "tex", "bibtex", "run.sh"}]
  /\ stopped \in SUBSET Jobs
  /\ buildLock \in Builds \cup {None} /\ runningBuild \in Builds \cup {None}
  /\ runningRuns \in SUBSET Runs /\ closed \in BOOLEAN
  /\ stopping \in [asked : SUBSET Jobs, close : {"no", "build", "runs", "done"}, taken : SUBSET Jobs]

-----------------------------------------------------------------------------
(* Who may run a program.                                                  *)

\* A build past _admit, with something of it left to run or to save.
Admitted == {"admitted", "pass", "tex", "tools", "bibtex", "bibread", "decide", "settled", "capped"}
Under == {"run", "running"}

\* One build holds the lock from when it was asked for until it returns; what is
\* admitted is registered; and a program runs for whoever waits for its end.
Registered ==
  /\ \A b \in Builds :
       /\ pc[b] \in Admitted \cup {"locked", "halted"} => buildLock = b
       /\ pc[b] \in Admitted => runningBuild = b
       /\ program[b] # None => \/ pc[b] = "tex" /\ program[b] = "tex"
                               \/ pc[b] \in {"bibtex", "bibread"} /\ program[b] = "bibtex"
       /\ pc[b] \notin Under
  /\ \A r \in Runs :
       /\ pc[r] \in Under => r \in runningRuns
       /\ program[r] # None => pc[r] = "running" /\ program[r] = "run.sh"

\* close() admits nothing more.  It stops the build it took before it takes the
\* runs, and what is stopped starts nothing.
Closing ==
  /\ stopping.close # "no" => closed
  /\ \A b \in Builds : pc[b] \in Admitted =>
       /\ stopping.close = "build" => b \in stopping.taken
       /\ stopping.close \in {"runs", "done"} => b \in stopped /\ program[b] = None
  /\ \A r \in Runs : pc[r] \in Under =>
       /\ stopping.close = "runs" => r \in stopping.taken
       /\ stopping.close = "done" => r \in stopped /\ program[r] = None

-----------------------------------------------------------------------------
(* What the output folder holds.                                           *)

\* The .bbl p is the one the signature s says, where both are there.
Matches(s, p) == s # None /\ p # None => s = p

\* The saved signature is its .bbl's, unless that is loose.
Stored == ~dir.loose => Matches(dir.sig, dir.bbl)

\* What a build has in hand goes with what its folder holds.
InHand(b) ==
  LET at == pc[b]  m == mine[b]  trusted == Sound(b) \/ ~dir.loose IN
  /\ at \in Admitted \ {"admitted"} /\ trusted => Matches(m.state, dir.bbl)
  /\ at = "tex" => m.before = Feedback
  /\ at \in {"tools", "bibtex", "bibread", "decide"} =>
       /\ dir.aux \in Manuscripts /\ m.before \in Feedbacks
       /\ ~m.edited => dir.aux = tex /\ m.pdf = <<tex, m.before[1], m.before[2]>>
  /\ at \in {"bibtex", "bibread"} =>
       /\ dir.loose /\ ~Sound(b) /\ Cites
       /\ m.sig \in Manuscripts \X Bibs /\ m.sig[1] = dir.aux
       /\ ~m.edited => m.sig[2] = bib
  /\ at = "bibread" => m.read \in Bibs
  /\ at = "decide" /\ ~m.edited /\ trusted => dir.bbl = Bibliography
  /\ at = "settled" /\ ~m.edited =>
       /\ m.pdf = <<tex, tex, dir.bbl>>
       /\ trusted => m.pdf = UpToDate

Made == Stored /\ \A b \in Builds : InHand(b)

-----------------------------------------------------------------------------
(* Every step keeps the locks, and the register of what runs.              *)

LEMMA RegisteredStep ==
  ASSUME JobsTyped, Registered, [Next]_vars
  PROVE  JobsTyped' /\ Registered'
<1> USE JobsAssumption DEF JobsTyped, Registered, Places, Admitted, Under, Jobs, files, admits
<1>1. ASSUME NEW b \in Builds, BuildAsked(b) PROVE JobsTyped' /\ Registered'
  BY <1>1 DEF BuildAsked
<1>2. ASSUME NEW b \in Builds, BuildAdmitted(b) PROVE JobsTyped' /\ Registered'
  BY <1>2 DEF BuildAdmitted
<1>3. ASSUME NEW b \in Builds, BuildBegins(b) \/ BibReads(b) \/ BibNotDue(b) \/ Decides(b) PROVE JobsTyped' /\ Registered'
  BY <1>3 DEF BuildBegins, BibReads, BibNotDue, Decides
<1>4. ASSUME NEW b \in Builds, PassStarts(b) \/ BibStarts(b) PROVE JobsTyped' /\ Registered'
  BY <1>4 DEF PassStarts, BibStarts, Starts
<1>5. ASSUME NEW b \in Builds, PassBreaks(b) \/ PassEnds(b) \/ BibEnds(b) PROVE JobsTyped' /\ Registered'
  BY <1>5 DEF PassBreaks, PassEnds, BibEnds
<1>6. ASSUME NEW b \in Builds, BuildReturns(b) PROVE JobsTyped' /\ Registered'
  BY <1>6 DEF BuildReturns, Over
<1>7. ASSUME NEW b \in Builds, Halts(b, "pass") \/ Halts(b, "tools") PROVE JobsTyped' /\ Registered'
  BY <1>7 DEF Halts
<1>8. ASSUME NEW r \in Runs, RunAdmitted(r) PROVE JobsTyped' /\ Registered'
  BY <1>8 DEF RunAdmitted
<1>9. ASSUME NEW r \in Runs, RunStarts(r) \/ RunEnds(r) PROVE JobsTyped' /\ Registered'
  BY <1>9 DEF RunStarts, RunEnds, Starts
<1>10. ASSUME NEW r \in Runs, RunRemoved(r) \/ Halts(r, "run") PROVE JobsTyped' /\ Registered'
  BY <1>10 DEF RunRemoved, Halts
<1>11. ASSUME NEW j \in Jobs, Killed(j) PROVE JobsTyped' /\ Registered'
  BY <1>11 DEF Killed
<1>12. ASSUME NEW j \in Jobs, TimedOut(j) PROVE JobsTyped' /\ Registered'
  BY <1>12 DEF TimedOut
<1>13. CASE StopBuildRead \/ StopRunsRead \/ StopAsked
  BY <1>13 DEF StopBuildRead, StopRunsRead, StopAsked, Reads
<1>14. CASE CloseAdmit \/ CloseStops \/ CloseRuns \/ CloseReturns
  <2>1. {runningBuild} \ {None} \in SUBSET Jobs /\ runningRuns \in SUBSET Jobs
    OBVIOUS
  <2>2. stopping' \in [asked : SUBSET Jobs, close : {"no", "build", "runs", "done"}, taken : SUBSET Jobs]
    <3>1. CASE CloseStops
      BY <3>1 DEF CloseStops, admits
    <3>2. CASE CloseAdmit
      BY <2>1, <3>2 DEF CloseAdmit
    <3>3. CASE CloseRuns
      BY <2>1, <3>3 DEF CloseRuns
    <3>4. CASE CloseReturns
      BY <3>4 DEF CloseReturns
    <3> QED
      BY <1>14, <3>1, <3>2, <3>3, <3>4
  <2>3. /\ UNCHANGED <<pc, mine, program, buildLock, runningBuild, runningRuns>>
        /\ stopped' = stopped \/ \E j \in stopping.taken : stopped' = stopped \cup {j}
        /\ closed' \in {closed, TRUE}
    BY <1>14 DEF CloseAdmit, CloseStops, CloseRuns, CloseReturns
  <2>4. stopped' \in SUBSET Jobs
    BY <2>3
  <2> QED
    BY <2>2, <2>3, <2>4
<1>15. CASE EditTex \/ EditBib \/ UNCHANGED vars
  BY <1>15 DEF EditTex, EditBib, vars
<1> QED
  BY <1>1, <1>2, <1>3, <1>4, <1>5, <1>6, <1>7, <1>8, <1>9, <1>10, <1>11, <1>12, <1>13, <1>14, <1>15
     DEF Next, BuildSteps, RunSteps

\* Every step keeps what close() has stopped stopped.
LEMMA ClosingStep ==
  ASSUME JobsTyped, Registered, Closing, [Next]_vars
  PROVE  Closing'
<1> USE JobsAssumption DEF JobsTyped, Registered, Closing, Places, Admitted, Under, Jobs, files, admits
<1>1. ASSUME NEW b \in Builds, BuildAsked(b) \/ BuildAdmitted(b) PROVE Closing'
  BY <1>1 DEF BuildAsked, BuildAdmitted, AdmitsBuild
<1>2. ASSUME NEW b \in Builds, BuildBegins(b) \/ BibReads(b) \/ BibNotDue(b) \/ Decides(b) PROVE Closing'
  BY <1>2 DEF BuildBegins, BibReads, BibNotDue, Decides
<1>3. ASSUME NEW b \in Builds, PassStarts(b) \/ BibStarts(b) PROVE Closing'
  BY <1>3 DEF PassStarts, BibStarts, Starts, MayStart
<1>4. ASSUME NEW b \in Builds, PassBreaks(b) \/ PassEnds(b) \/ BibEnds(b) PROVE Closing'
  BY <1>4 DEF PassBreaks, PassEnds, BibEnds
<1>5. ASSUME NEW b \in Builds, BuildReturns(b) \/ Halts(b, "pass") \/ Halts(b, "tools") PROVE Closing'
  BY <1>5 DEF BuildReturns, Over, Halts
<1>6. ASSUME NEW r \in Runs, RunAdmitted(r) PROVE Closing'
  BY <1>6 DEF RunAdmitted
<1>7. ASSUME NEW r \in Runs, RunStarts(r) \/ RunEnds(r) \/ RunRemoved(r) \/ Halts(r, "run") PROVE Closing'
  BY <1>7 DEF RunStarts, RunEnds, RunRemoved, Halts, Starts, MayStart
<1>8. ASSUME NEW j \in Jobs, Killed(j) \/ TimedOut(j) PROVE Closing'
  BY <1>8 DEF Killed, TimedOut
<1>9. CASE StopBuildRead \/ StopRunsRead \/ StopAsked
  BY <1>9 DEF StopBuildRead, StopRunsRead, StopAsked, Reads
<1>10. CASE CloseAdmit
  BY <1>10 DEF CloseAdmit
<1>11. CASE CloseStops
  BY <1>11 DEF CloseStops
<1>12. CASE CloseRuns
  BY <1>12 DEF CloseRuns, Reaped
<1>13. CASE CloseReturns
  BY <1>13 DEF CloseReturns, Reaped
<1>14. CASE EditTex \/ EditBib \/ UNCHANGED vars
  BY <1>14 DEF EditTex, EditBib, vars
<1> QED
  BY <1>1, <1>2, <1>3, <1>4, <1>5, <1>6, <1>7, <1>8, <1>9, <1>10, <1>11, <1>12, <1>13, <1>14
     DEF Next, BuildSteps, RunSteps

-----------------------------------------------------------------------------
(* Every step keeps what the output folder holds.                          *)

\* One build at a time is past _admit, so no other has anything in hand.
LEMMA OneInHand ==
  ASSUME JobsTyped, Registered, NEW b \in Builds, pc[b] \in Admitted, NEW c \in Builds \ {b}
  PROVE  pc[c] \notin Admitted /\ InHand(c)
  BY DEF Registered, Admitted, InHand

\* Nor has a build that is not past _admit.
LEMMA NothingInHand ==
  ASSUME NEW b \in Builds, pc[b] \notin Admitted \ {"admitted"}
  PROVE  InHand(b)
  BY DEF Admitted, InHand

\* When the document or its bibliography is edited, a build under way knows that
\* it may not have seen it.
LEMMA EditsMade ==
  ASSUME FilesTyped, JobsTyped, Made, EditTex \/ EditBib
  PROVE  FilesTyped' /\ Made'
<1>1. /\ tex' \in Manuscripts /\ bib' \in Bibs /\ dir' = dir /\ pc' = pc
      /\ mine' = [b \in Builds |-> IF b \in UnderWay THEN [mine[b] EXCEPT !.edited = TRUE] ELSE mine[b]]
  BY DEF EditTex, EditBib, Edited, FilesTyped
<1>2. FilesTyped'
  <2>1. ASSUME NEW b \in Builds PROVE mine'[b] \in Locals
    <3>1. mine[b] \in Locals
      BY DEF FilesTyped
    <3>2. mine'[b] = mine[b] \/ mine'[b] = [mine[b] EXCEPT !.edited = TRUE]
      BY <1>1
    <3> QED
      BY <3>1, <3>2 DEF Locals
  <2>2. mine' \in [Builds -> Locals]
    BY <1>1, <2>1
  <2> QED
    BY <1>1, <2>2 DEF FilesTyped
<1>3. Stored'
  BY <1>1 DEF Made, Stored
<1>4. ASSUME NEW b \in Builds PROVE InHand(b)'
  <2>1. CASE b \in UnderWay
    <3>1. mine'[b] = [mine[b] EXCEPT !.edited = TRUE] /\ mine[b] \in Locals
      BY <1>1, <2>1 DEF FilesTyped
    <3>2. /\ mine'[b].before = mine[b].before /\ mine'[b].state = mine[b].state
          /\ mine'[b].sig = mine[b].sig /\ mine'[b].read = mine[b].read
          /\ mine'[b].ended = mine[b].ended /\ mine'[b].edited
      BY <3>1 DEF Locals
    <3> HIDE DEF Locals
    <3> QED
      BY <1>1, <3>2 DEF Made, InHand, Feedback, Sound, Cites
  <2>2. CASE b \notin UnderWay
    <3>1. /\ mine'[b] = mine[b]
          /\ pc[b] \notin {"pass", "tex", "tools", "bibtex", "bibread", "decide", "settled"}
      BY <1>1, <2>2 DEF UnderWay
    <3> QED
      BY <1>1, <3>1 DEF Made, InHand, Sound
  <2> QED
    BY <2>1, <2>2
<1> QED
  BY <1>2, <1>3, <1>4 DEF Made

\* What is not there is no text.
LEMMA NoFile ==
  /\ None \notin Manuscripts /\ Cut \notin Manuscripts /\ None \notin Bibs
  /\ None \notin Manuscripts \X Bibs /\ Cut \notin Manuscripts \X Bibs /\ None # Cut
  BY TextsAssumption

\* What the ways of writing the output folder leave in it.
LEMMA CleanedStored ==
  ASSUME dir \in Folders
  PROVE  Cleaned \in Folders /\ Cleaned.bbl = None /\ Cleaned.sig = None /\ ~Cleaned.loose
  BY DEF Folders, Cleaned, Auxes, Bbls, Sigs

LEMMA CutStored ==
  ASSUME dir \in Folders, NEW d, d = [dir EXCEPT !.aux = Cut]
  PROVE  d \in Folders /\ d.bbl = dir.bbl /\ d.sig = dir.sig /\ d.loose = dir.loose
  BY DEF Folders, Auxes

LEMMA TypesetStored ==
  ASSUME dir \in Folders, tex \in Manuscripts
  PROVE  /\ Typeset \in Folders /\ Typeset.aux = tex /\ Typeset.bbl = dir.bbl
         /\ Typeset.sig = dir.sig /\ Typeset.loose = dir.loose
  BY DEF Folders, Auxes, Typeset

LEMMA BblStored ==
  ASSUME dir \in Folders, NEW p \in Bbls, NEW d, d = [dir EXCEPT !.bbl = p]
  PROVE  d \in Folders /\ d.aux = dir.aux /\ d.bbl = p /\ d.sig = dir.sig /\ d.loose = dir.loose
  BY DEF Folders

\* However BibTeX ends, the .bbl alone is another.
LEMMA BrokenStored ==
  ASSUME dir \in Folders, NEW b \in Builds, <<dir.aux, mine[b].read>> \in Bbls, NEW d \in BblBroken(b)
  PROVE  d \in Folders /\ d.aux = dir.aux /\ d.sig = dir.sig /\ d.loose = dir.loose
<1>1. CASE d = dir
  BY <1>1
<1>2. CASE d = [dir EXCEPT !.bbl = Cut]
  BY <1>2, BblStored DEF Bbls
<1>3. CASE d = BblOf(b)
  BY <1>3, BblStored DEF BblOf
<1> QED
  BY <1>1, <1>2, <1>3 DEF BblBroken

\* A step that touches no file, and lets no build on.
LEMMA Untouched ==
  ASSUME FilesTyped, Made, UNCHANGED <<tex, bib, dir, mine>>,
         \A c \in Builds : pc'[c] = pc[c] \/ pc'[c] \notin Admitted \ {"admitted"}
  PROVE  FilesTyped' /\ Made'
<1>1. FilesTyped' /\ Stored'
  BY DEF FilesTyped, Made, Stored
<1>2. ASSUME NEW c \in Builds PROVE InHand(c)'
  <2>1. CASE pc'[c] = pc[c]
    BY <2>1 DEF Made, InHand, Feedback, UpToDate, Bibliography, Sound, Cites
  <2>2. CASE pc'[c] \notin Admitted \ {"admitted"}
    BY <2>2 DEF InHand, Admitted
  <2> QED
    BY <2>1, <2>2
<1> QED
  BY <1>1, <1>2 DEF Made

\* A step of the build that is past _admit is to be looked at for that build alone.
LEMMA MineAlone ==
  ASSUME JobsTyped, Registered, NEW b \in Builds, pc[b] \in Admitted, NEW to, pc' = [pc EXCEPT ![b] = to],
         Stored', InHand(b)'
  PROVE  Made'
<1>1. ASSUME NEW c \in Builds \ {b} PROVE InHand(c)'
  <2>1. pc'[c] = pc[c] /\ pc[c] \notin Admitted
    BY OneInHand DEF JobsTyped, Jobs
  <2> QED
    BY <2>1 DEF InHand, Admitted
<1> QED
  BY <1>1 DEF Made

\* A program killed leaves its file as it was, cut short, or written; its build is over,
\* and a .bbl BibTeX was at was loose already.
LEMMA KilledMade ==
  ASSUME FilesTyped, JobsTyped, Registered, Made, NEW j \in Jobs, Killed(j)
  PROVE  FilesTyped' /\ Made'
<1>1. CASE j \in Runs
  <2>1. dir' = dir
    BY <1>1 DEF Killed, LeftBehind, Registered
  <2>2. UNCHANGED <<tex, bib, mine>> /\ pc' = [pc EXCEPT ![j] = "halted"]
    BY DEF Killed, files
  <2>3. \A c \in Builds : pc'[c] = pc[c]
    BY <1>1, <2>2, JobsAssumption DEF JobsTyped, Jobs
  <2> QED
    BY <2>1, <2>2, <2>3, Untouched
<1>2. CASE j \in Builds
  <2>1. pc[j] \in Admitted /\ pc' = [pc EXCEPT ![j] = "halted"] /\ pc'[j] = "halted"
    BY <1>2 DEF Killed, Registered, Admitted, JobsTyped
  <2>2. InHand(j)'
    BY <2>1 DEF InHand, Admitted
  <2>3. dir' \in LeftBehind(j) /\ UNCHANGED <<tex, bib, mine>>
    BY DEF Killed, files
  <2>4. FilesTyped' /\ Stored'
    <3>1. CASE dir' = dir
      BY <2>3, <3>1 DEF FilesTyped, Made, Stored
    <3>2. CASE dir' = [dir EXCEPT !.aux = Cut]
      BY <2>3, <3>2, CutStored DEF FilesTyped, Made, Stored
    <3>3. CASE dir' = Typeset
      BY <2>3, <3>3, TypesetStored DEF FilesTyped, Made, Stored
    <3>4. CASE pc[j] = "bibread" /\ dir' \in BblBroken(j)
      <4>1. dir.loose /\ <<dir.aux, mine[j].read>> \in Bbls
        BY <1>2, <3>4 DEF Made, InHand, Bbls, Sigs
      <4>2. dir' \in Folders /\ dir'.loose = dir.loose
        BY <1>2, <3>4, <4>1, BrokenStored DEF FilesTyped
      <4> QED
        BY <2>3, <4>1, <4>2 DEF FilesTyped, Stored
    <3> QED
      BY <2>3, <3>1, <3>2, <3>3, <3>4 DEF LeftBehind
  <2> QED
    BY <1>2, <2>1, <2>2, <2>4, MineAlone
<1> QED
  BY <1>1, <1>2 DEF Jobs

\* A build begins with the signature it found saved, or with nothing.
LEMMA BeginsMade ==
  ASSUME FilesTyped, JobsTyped, Registered, Made, NEW b \in Builds, BuildBegins(b)
  PROVE  FilesTyped' /\ Made'
<1>1. PICK d \in {dir, Cleaned} : dir' = d /\ mine' = [mine EXCEPT ![b] = [Fresh EXCEPT !.state = d.sig]]
  BY DEF BuildBegins
<1>2. pc[b] \in Admitted /\ pc' = [pc EXCEPT ![b] = "pass"] /\ pc'[b] = "pass" /\ UNCHANGED <<tex, bib>>
  BY DEF BuildBegins, Admitted, JobsTyped, Jobs, files
<1>3. d \in Folders
  BY <1>1, CleanedStored DEF FilesTyped
<1>4. FilesTyped'
  <2>1. [Fresh EXCEPT !.state = d.sig] \in Locals
    BY <1>3 DEF Folders, Fresh, Locals, Sigs
  <2> QED
    BY <1>1, <1>2, <1>3, <2>1 DEF FilesTyped
<1>5. Stored'
  BY <1>1, CleanedStored DEF FilesTyped, Made, Stored, Matches
<1>6. mine'[b].state = dir'.sig /\ mine'[b].ended = "not"
  BY <1>1 DEF FilesTyped, Fresh
<1>7. InHand(b)'
  BY <1>2, <1>5, <1>6 DEF InHand, Stored, Sound
<1> QED
  BY <1>2, <1>4, <1>5, <1>7, MineAlone

\* A pass notes what it will read back; nothing is written until it ends.
LEMMA PassStartsMade ==
  ASSUME FilesTyped, JobsTyped, Registered, Made, NEW b \in Builds, PassStarts(b)
  PROVE  FilesTyped' /\ Made'
<1>1. /\ pc[b] = "pass" /\ pc[b] \in Admitted /\ pc' = [pc EXCEPT ![b] = "tex"] /\ pc'[b] = "tex"
      /\ UNCHANGED <<tex, bib, dir>>
  BY DEF PassStarts, Admitted, JobsTyped, Jobs, files
<1>2. mine' = [mine EXCEPT ![b].before = Feedback] /\ Feedback \in Feedbacks
  BY DEF PassStarts, Feedback, Feedbacks, FilesTyped, Folders
<1>3. FilesTyped'
  BY <1>1, <1>2 DEF FilesTyped, Locals
<1>4. /\ mine'[b].before = Feedback /\ mine'[b].state = mine[b].state
      /\ mine'[b].ended = mine[b].ended
  BY <1>2 DEF FilesTyped, Locals
<1>5. InHand(b)'
  BY <1>1, <1>4 DEF Made, InHand, Admitted, Feedback, Sound
<1>6. Stored'
  BY <1>1 DEF Made, Stored
<1> QED
  BY <1>1, <1>3, <1>5, <1>6, MineAlone

\* A first pass that breaks on a file cut short cleans the folder and starts once more.
LEMMA PassBreaksMade ==
  ASSUME FilesTyped, JobsTyped, Registered, Made, NEW b \in Builds, PassBreaks(b)
  PROVE  FilesTyped' /\ Made'
<1>1. /\ pc[b] \in Admitted /\ pc' = [pc EXCEPT ![b] = "pass"] /\ pc'[b] = "pass"
      /\ UNCHANGED <<tex, bib>> /\ dir' = Cleaned
  BY DEF PassBreaks, Admitted, JobsTyped, Jobs, files
<1>2. mine' = [mine EXCEPT ![b] = [mine[b] EXCEPT !.state = None, !.retried = TRUE]]
  BY DEF PassBreaks
<1>3. FilesTyped'
  <2>1. mine[b] \in Locals
    BY DEF FilesTyped
  <2>2. [mine[b] EXCEPT !.state = None, !.retried = TRUE] \in Locals
    BY <2>1 DEF Locals, Sigs
  <2> QED
    BY <1>1, <1>2, <2>2, CleanedStored DEF FilesTyped
<1>4. dir'.bbl = None
  BY <1>1, CleanedStored DEF FilesTyped
<1>5. InHand(b)'
  BY <1>1, <1>4 DEF InHand, Matches
<1>6. Stored'
  BY <1>4 DEF Stored, Matches
<1> QED
  BY <1>1, <1>3, <1>5, <1>6, MineAlone

\* The pass that ends has typeset the document from what it noted.
LEMMA PassEndsMade ==
  ASSUME FilesTyped, JobsTyped, Registered, Made, NEW b \in Builds, PassEnds(b)
  PROVE  FilesTyped' /\ Made'
<1>1. /\ pc[b] = "tex" /\ pc[b] \in Admitted /\ pc' = [pc EXCEPT ![b] = "tools"] /\ pc'[b] = "tools"
      /\ UNCHANGED <<tex, bib>> /\ dir' = Typeset
  BY DEF PassEnds, Admitted, JobsTyped, Jobs, files
<1> DEFINE m == [mine[b] EXCEPT !.pdf = <<tex, dir.aux, dir.bbl>>, !.passes = mine[b].passes + 1]
<1>2. mine' = [mine EXCEPT ![b] = m]
  BY DEF PassEnds
<1>3. /\ dir' \in Folders /\ dir'.aux = tex /\ dir'.bbl = dir.bbl /\ dir'.sig = dir.sig
      /\ dir'.loose = dir.loose
  BY <1>1, TypesetStored DEF FilesTyped
<1>4. <<tex, dir.aux, dir.bbl>> \in Manuscripts \X Auxes \X Bbls
  BY DEF FilesTyped, Folders
<1>5. /\ mine'[b] \in Locals /\ mine'[b].before = mine[b].before /\ mine'[b].state = mine[b].state
      /\ mine'[b].pdf = <<tex, dir.aux, dir.bbl>> /\ mine'[b].ended = mine[b].ended
  <2>1. mine[b] \in Locals
    BY DEF FilesTyped
  <2>2. /\ m \in Locals /\ m.before = mine[b].before /\ m.state = mine[b].state
        /\ m.pdf = <<tex, dir.aux, dir.bbl>> /\ m.ended = mine[b].ended
    <3>1. mine[b].passes + 1 \in Nat
      BY <2>1 DEF Locals
    <3> DEFINE n == mine[b].passes + 1  t == <<tex, dir.aux, dir.bbl>>
    <3> HIDE DEF Auxes, Bbls, Sigs, Feedbacks, n, t
    <3>2. n \in Nat /\ t \in Manuscripts \X Auxes \X Bbls
      BY <1>4, <3>1 DEF n, t
    <3>3. m = [mine[b] EXCEPT !.pdf = t, !.passes = n]
      BY DEF n, t
    <3> HIDE DEF m
    <3>4. /\ m \in Locals /\ m.before = mine[b].before /\ m.state = mine[b].state
          /\ m.pdf = t /\ m.ended = mine[b].ended
      BY <2>1, <3>2, <3>3 DEF Locals
    <3> QED
      BY <3>4 DEF t
  <2> HIDE DEF m
  <2> QED
    BY <1>2, <2>2 DEF FilesTyped
<1>6. FilesTyped'
  BY <1>1, <1>2, <1>3, <1>5 DEF FilesTyped
<1>7. Stored'
  BY <1>3 DEF Made, Stored
<1>8. mine[b].before = Feedback /\ (Sound(b) \/ ~dir.loose => Matches(mine[b].state, dir.bbl))
  BY <1>1 DEF Made, InHand, Admitted
<1>9. Feedback \in Feedbacks /\ Feedback[1] = dir.aux /\ Feedback[2] = dir.bbl
  BY DEF Feedback, Feedbacks, FilesTyped, Folders
<1>10. InHand(b)'
  <2> HIDE DEF Matches, Feedbacks, Locals
  <2> QED
    BY <1>1, <1>3, <1>5, <1>8, <1>9 DEF InHand, FilesTyped, Sound
<1> QED
  BY <1>1, <1>6, <1>7, <1>10, MineAlone

\* BibTeX starts on what the pass wrote, and on the bibliography as it is.
LEMMA BibStartsMade ==
  ASSUME FilesTyped, JobsTyped, Registered, Made, NEW b \in Builds, BibStarts(b)
  PROVE  FilesTyped' /\ Made'
<1>1. /\ pc[b] = "tools" /\ pc[b] \in Admitted /\ pc' = [pc EXCEPT ![b] = "bibtex"] /\ pc'[b] = "bibtex"
      /\ UNCHANGED <<tex, bib>> /\ dir' = [dir EXCEPT !.loose = TRUE] /\ Cites
  BY DEF BibStarts, BibIsDue, Admitted, JobsTyped, Jobs, files
<1>2. mine' = [mine EXCEPT ![b] = [mine[b] EXCEPT !.sig = Signature, !.ended = "not"]] /\ mine[b] \in Locals
  BY DEF BibStarts, FilesTyped
<1>3. /\ dir' \in Folders /\ dir'.aux = dir.aux /\ dir'.loose
  BY <1>1 DEF FilesTyped, Folders
<1>4. InHand(b) /\ dir.aux \in Manuscripts
  BY <1>1 DEF Made, InHand
<1>5. Signature \in Manuscripts \X Bibs /\ Signature[1] = dir.aux /\ Signature[2] = bib
  BY <1>4 DEF Signature, FilesTyped
<1>6. /\ mine'[b] \in Locals /\ mine'[b].before = mine[b].before /\ mine'[b].pdf = mine[b].pdf
      /\ mine'[b].edited = mine[b].edited /\ mine'[b].sig = Signature /\ mine'[b].ended = "not"
  BY <1>2, <1>5 DEF FilesTyped, Locals, Sigs
<1>7. FilesTyped'
  BY <1>1, <1>2, <1>3, <1>6 DEF FilesTyped
<1>8. Stored'
  BY <1>3 DEF Stored
<1>9. InHand(b)'
  <2> HIDE DEF Locals, Feedbacks, Matches
  <2> QED
    BY <1>1, <1>3, <1>4, <1>5, <1>6 DEF InHand, FilesTyped, Sound, Cites
<1> QED
  BY <1>1, <1>7, <1>8, <1>9, MineAlone

\* BibTeX reads the bibliography as it is by then.
LEMMA BibReadsMade ==
  ASSUME FilesTyped, JobsTyped, Registered, Made, NEW b \in Builds, BibReads(b)
  PROVE  FilesTyped' /\ Made'
<1>1. /\ pc[b] = "bibtex" /\ pc[b] \in Admitted /\ pc' = [pc EXCEPT ![b] = "bibread"]
      /\ pc'[b] = "bibread" /\ UNCHANGED <<tex, bib, dir>>
  BY DEF BibReads, Admitted, JobsTyped, Jobs, files
<1>2. mine' = [mine EXCEPT ![b].read = bib] /\ mine[b] \in Locals
  BY DEF BibReads, FilesTyped
<1>3. /\ mine'[b] \in Locals /\ mine'[b].before = mine[b].before /\ mine'[b].pdf = mine[b].pdf
      /\ mine'[b].edited = mine[b].edited /\ mine'[b].sig = mine[b].sig /\ mine'[b].read = bib
      /\ mine'[b].ended = mine[b].ended
  BY <1>2 DEF FilesTyped, Locals
<1>4. FilesTyped'
  BY <1>1, <1>2, <1>3 DEF FilesTyped
<1>5. Stored'
  BY <1>1 DEF Made, Stored
<1>6. InHand(b)'
  <2> HIDE DEF Locals, Feedbacks, Matches
  <2> QED
    BY <1>1, <1>3 DEF Made, InHand, FilesTyped, Sound, Cites
<1> QED
  BY <1>1, <1>4, <1>5, <1>6, MineAlone

\* BibTeX has made the .bbl from the pass's .aux and the bibliography it read: where that
\* is what was signed and it ended well, the .bbl is the signature's.
LEMMA BibEndsMade ==
  ASSUME FilesTyped, JobsTyped, Registered, Made, NEW b \in Builds, BibEnds(b)
  PROVE  FilesTyped' /\ Made'
<1>1. /\ pc[b] = "bibread" /\ pc[b] \in Admitted /\ pc' = [pc EXCEPT ![b] = "decide"] /\ pc'[b] = "decide"
      /\ UNCHANGED <<tex, bib>>
  BY DEF BibEnds, Admitted, JobsTyped, Jobs, files
<1>2. /\ InHand(b) /\ dir.aux \in Manuscripts /\ mine[b].sig \in Manuscripts \X Bibs
      /\ mine[b].sig[1] = dir.aux /\ mine[b].read \in Bibs /\ dir.loose /\ Cites
  BY <1>1 DEF Made, InHand
<1>3. <<dir.aux, mine[b].read>> \in Bbls /\ mine[b] \in Locals
  BY <1>2 DEF Bbls, Sigs, FilesTyped
<1> DEFINE m == [mine[b] EXCEPT !.sig = None, !.read = None]
<1>4. /\ m \in Locals /\ m.before = mine[b].before /\ m.pdf = mine[b].pdf /\ m.state = mine[b].state
      /\ m.edited = mine[b].edited
  BY <1>3 DEF Locals, Sigs
<1>5. CASE /\ dir' = BblOf(b)
           /\ mine' = [mine EXCEPT ![b] = [m EXCEPT !.state = mine[b].sig, !.ended = Ended(b)]]
  <2>1. /\ dir' \in Folders /\ dir'.aux = dir.aux /\ dir'.bbl = <<dir.aux, mine[b].read>>
        /\ dir'.loose
    BY <1>2, <1>3, <1>5, BblStored DEF FilesTyped, BblOf
  <2>2. /\ mine'[b] \in Locals /\ mine'[b].before = mine[b].before /\ mine'[b].pdf = mine[b].pdf
        /\ mine'[b].edited = mine[b].edited /\ mine'[b].state = mine[b].sig /\ mine'[b].ended = Ended(b)
    <3>1. mine[b].sig \in Sigs /\ Ended(b) \in {"sound", "unsure"}
      BY <1>2 DEF Sigs, Ended
    <3> HIDE DEF m
    <3> QED
      BY <1>4, <1>5, <3>1 DEF FilesTyped, Locals
  <2>3. FilesTyped'
    BY <1>1, <1>5, <2>1, <2>2 DEF FilesTyped
  <2>4. Ended(b) = "sound" => mine[b].read = mine[b].sig[2]
    BY DEF Ended
  <2>5. mine[b].sig = <<mine[b].sig[1], mine[b].sig[2]>>
    BY <1>2
  <2>6. Ended(b) = "sound" => dir'.bbl = mine'[b].state
    BY <1>2, <2>1, <2>2, <2>4, <2>5
  <2>7. Ended(b) = "sound" /\ ~mine[b].edited => dir'.bbl = Bibliography
    BY <1>1, <1>2, <2>1, <2>4 DEF InHand, Bibliography, Cites
  <2>8. Stored'
    BY <2>1 DEF Stored
  <2>9. InHand(b)'
    <3> HIDE DEF Locals, Feedbacks, m
    <3> QED
      BY <1>1, <1>2, <2>1, <2>2, <2>6, <2>7 DEF InHand, Matches, Sound, Bibliography
  <2> QED
    BY <1>1, <2>3, <2>8, <2>9, MineAlone
<1>6. CASE dir' \in BblBroken(b) /\ mine' = [mine EXCEPT ![b] = [m EXCEPT !.ended = "failed"]]
  <2>1. dir' \in Folders /\ dir'.aux = dir.aux /\ dir'.loose
    BY <1>2, <1>3, <1>6, BrokenStored DEF FilesTyped
  <2>2. /\ mine'[b] \in Locals /\ mine'[b].before = mine[b].before /\ mine'[b].pdf = mine[b].pdf
        /\ mine'[b].edited = mine[b].edited /\ mine'[b].ended = "failed"
    <3> HIDE DEF m
    <3> QED
      BY <1>4, <1>6 DEF FilesTyped, Locals
  <2>3. FilesTyped'
    BY <1>1, <1>6, <2>1, <2>2 DEF FilesTyped
  <2>4. Stored'
    BY <2>1 DEF Stored
  <2>5. InHand(b)'
    <3> HIDE DEF Locals, Feedbacks, m, Matches
    <3> QED
      BY <1>1, <1>2, <2>1, <2>2 DEF InHand, Sound
  <2> QED
    BY <1>1, <2>3, <2>4, <2>5, MineAlone
<1> QED
  BY <1>5, <1>6 DEF BibEnds, SigKept

\* BibTeX is left out only where nothing is cited, and no .bbl stays, or where the .bbl is
\* the signature's that was kept, unless it is loose.
LEMMA BibNotDueMade ==
  ASSUME FilesTyped, JobsTyped, Registered, Made, NEW b \in Builds, BibNotDue(b)
  PROVE  FilesTyped' /\ Made'
<1>1. /\ pc[b] = "tools" /\ pc[b] \in Admitted /\ pc' = [pc EXCEPT ![b] = "decide"] /\ pc'[b] = "decide"
      /\ UNCHANGED <<tex, bib, mine>>
      /\ dir' = IF Cites THEN dir ELSE [dir EXCEPT !.bbl = None, !.loose = FALSE]
      /\ Cites => mine[b].state = Signature /\ dir.bbl # None
  BY DEF BibNotDue, BibIsDue, Admitted, JobsTyped, Jobs, files
<1>2. InHand(b) /\ dir.aux \in Manuscripts
  BY <1>1 DEF Made, InHand
<1>3. ~mine[b].edited => dir.aux = tex
  BY <1>1, <1>2 DEF InHand
<1>4. CASE Cites
  <2>1. dir' = dir
    BY <1>1, <1>4
  <2>2. Sound(b) \/ ~dir.loose => dir.bbl = Signature
    <3>1. Signature \in Manuscripts \X Bibs
      BY <1>2 DEF Signature, FilesTyped
    <3>2. Sound(b) \/ ~dir.loose => Matches(mine[b].state, dir.bbl)
      BY <1>1, <1>2 DEF InHand, Admitted
    <3> QED
      BY <1>1, <1>4, <3>1, <3>2, NoFile DEF Matches
  <2>3. ~mine[b].edited => Signature = Bibliography
    BY <1>3, <1>4 DEF Signature, Bibliography, Cites
  <2>4. InHand(b)'
    <3> HIDE DEF Feedbacks, Matches
    <3> QED
      BY <1>1, <1>2, <2>1, <2>2, <2>3 DEF InHand, Admitted, Sound, Bibliography
  <2>5. FilesTyped' /\ Stored'
    BY <1>1, <2>1 DEF FilesTyped, Made, Stored
  <2> QED
    BY <1>1, <2>4, <2>5, MineAlone
<1>5. CASE ~Cites
  <2>1. /\ dir' \in Folders /\ dir'.aux = dir.aux /\ dir'.bbl = None
    BY <1>1, <1>5 DEF FilesTyped, Folders, Bbls, Sigs
  <2>2. ~mine[b].edited => dir'.bbl = Bibliography
    BY <1>3, <1>5, <2>1 DEF Bibliography, Cites
  <2>3. InHand(b)'
    <3> HIDE DEF Feedbacks
    <3> QED
      BY <1>1, <1>2, <2>1, <2>2 DEF InHand, Matches, Sound, Bibliography
  <2>4. FilesTyped' /\ Stored'
    BY <1>1, <2>1 DEF FilesTyped, Stored, Matches
  <2> QED
    BY <1>1, <2>3, <2>4, MineAlone
<1> QED
  BY <1>4, <1>5

\* The feedback files no longer change: the PDF was typeset from what they hold now.
LEMMA DecidesMade ==
  ASSUME FilesTyped, JobsTyped, Registered, Made, NEW b \in Builds, Decides(b)
  PROVE  FilesTyped' /\ Made'
<1>1. PICK to \in {"settled", "capped", "pass"} :
        /\ pc' = [pc EXCEPT ![b] = to]
        /\ to = "settled" => mine[b].before = Feedback
        /\ dir' \in IF to = "pass" THEN {dir} ELSE {dir, Saved(b)}
  BY DEF Decides, Settles
<1>2. /\ pc[b] = "decide" /\ pc[b] \in Admitted /\ pc'[b] = to /\ UNCHANGED <<tex, bib, mine>>
  BY <1>1 DEF Decides, Admitted, JobsTyped, Jobs, files
<1>3. InHand(b) /\ (Sound(b) \/ ~dir.loose => Matches(mine[b].state, dir.bbl))
  BY <1>2 DEF Made, InHand, Admitted
<1>4. mine[b].state \in Sigs /\ Sound(b) \in BOOLEAN
  BY DEF FilesTyped, Locals, Sound
<1>5. /\ dir' \in Folders /\ dir'.aux = dir.aux /\ dir'.bbl = dir.bbl
      /\ \/ dir'.sig = dir.sig /\ dir'.loose = dir.loose
         \/ dir'.sig = mine[b].state /\ dir'.loose = (dir.loose /\ ~Sound(b))
  <2>1. CASE dir' = dir
    BY <2>1 DEF FilesTyped
  <2>2. CASE dir' = Saved(b)
    BY <1>4, <2>2 DEF FilesTyped, Folders, Saved
  <2> QED
    BY <1>1, <2>1, <2>2
<1>6. FilesTyped'
  BY <1>2, <1>5 DEF FilesTyped
<1>7. Stored'
  <2> HIDE DEF Matches
  <2> QED
    BY <1>2, <1>3, <1>5 DEF Made, Stored
<1>8. Sound(b)' <=> Sound(b)
  BY <1>2 DEF Sound
<1>9. Sound(b) \/ ~dir'.loose => Sound(b) \/ ~dir.loose
  BY <1>5
<1>10. to = "settled" /\ ~mine[b].edited =>
         /\ mine[b].pdf = <<tex, tex, dir.bbl>>
         /\ Sound(b) \/ ~dir.loose => mine[b].pdf = UpToDate
  <2> SUFFICES ASSUME to = "settled", ~mine[b].edited
               PROVE  /\ mine[b].pdf = <<tex, tex, dir.bbl>>
                      /\ Sound(b) \/ ~dir.loose => mine[b].pdf = UpToDate
    OBVIOUS
  <2>1. dir.aux = tex /\ mine[b].pdf = <<tex, mine[b].before[1], mine[b].before[2]>>
    BY <1>2, <1>3 DEF InHand
  <2>2. mine[b].before[1] = dir.aux /\ mine[b].before[2] = dir.bbl
    BY <1>1 DEF Feedback
  <2>3. Sound(b) \/ ~dir.loose => dir.bbl = Bibliography
    BY <1>2, <1>3 DEF InHand
  <2> QED
    BY <2>1, <2>2, <2>3 DEF UpToDate
<1>11. InHand(b)'
  <2> HIDE DEF Matches, Feedbacks
  <2> QED
    BY <1>1, <1>2, <1>3, <1>5, <1>8, <1>9, <1>10 DEF InHand, UpToDate, Bibliography
<1> QED
  BY <1>1, <1>2, <1>6, <1>7, <1>11, MineAlone

\* A build that returns has nothing left in hand.
LEMMA ReturnsMade ==
  ASSUME FilesTyped, JobsTyped, Registered, Made, NEW b \in Builds, BuildReturns(b)
  PROVE  FilesTyped' /\ Made'
<1>1. /\ pc[b] \in Over /\ pc' = [pc EXCEPT ![b] = "returned"] /\ pc'[b] = "returned"
      /\ UNCHANGED <<tex, bib, dir>> /\ mine' = [mine EXCEPT ![b] = Fresh]
  BY DEF BuildReturns, JobsTyped, Jobs, files
<1>2. Fresh \in Locals
  BY DEF Fresh, Locals, Sigs
<1>3. FilesTyped' /\ Stored'
  BY <1>1, <1>2 DEF FilesTyped, Made, Stored
<1>4. InHand(b)'
  BY <1>1 DEF InHand, Admitted
<1>5. ASSUME NEW c \in Builds \ {b} PROVE InHand(c)'
  <2>1. pc'[c] = pc[c] /\ mine'[c] = mine[c]
    BY <1>1 DEF JobsTyped, FilesTyped, Jobs
  <2> QED
    BY <1>1, <2>1 DEF Made, InHand, Feedback, UpToDate, Bibliography, Sound, Cites
<1> QED
  BY <1>3, <1>4, <1>5 DEF Made

\* Every step keeps what the output folder holds, and what a build has in hand of it.
LEMMA MadeStep ==
  ASSUME FilesTyped, JobsTyped, Registered, Made, [Next]_vars
  PROVE  FilesTyped' /\ Made'
<1>1. ASSUME NEW b \in Builds, BuildAsked(b) \/ BuildAdmitted(b) \/ Halts(b, "pass") \/ Halts(b, "tools")
      PROVE  FilesTyped' /\ Made'
  <2>1. UNCHANGED <<tex, bib, dir, mine>>
    BY <1>1 DEF BuildAsked, BuildAdmitted, Halts, files
  <2>2. \A c \in Builds : pc'[c] = pc[c] \/ pc'[c] \notin Admitted \ {"admitted"}
    BY <1>1 DEF BuildAsked, BuildAdmitted, Halts, JobsTyped, Jobs, Admitted
  <2> QED
    BY <2>1, <2>2, Untouched
<1>2. ASSUME NEW r \in Runs, RunSteps(r) PROVE FilesTyped' /\ Made'
  <2>1. UNCHANGED <<tex, bib, dir, mine>>
    BY <1>2 DEF RunSteps, RunAdmitted, RunStarts, RunEnds, RunRemoved, Halts, files
  <2>2. \A c \in Builds : pc'[c] = pc[c]
    BY <1>2, JobsAssumption DEF RunSteps, RunAdmitted, RunStarts, RunEnds, RunRemoved, Halts, JobsTyped, Jobs
  <2> QED
    BY <2>1, <2>2, Untouched
<1>3. CASE StopBuildRead \/ StopRunsRead \/ StopAsked \/ CloseAdmit \/ CloseStops \/ CloseRuns \/ CloseReturns
           \/ UNCHANGED vars \/ \E j \in Jobs : TimedOut(j)
  <2>1. UNCHANGED <<tex, bib, dir, mine, pc>>
    BY <1>3 DEF StopBuildRead, StopRunsRead, StopAsked, CloseAdmit, CloseStops, CloseRuns, CloseReturns,
                TimedOut, vars, files
  <2> QED
    BY <2>1, Untouched
<1> QED
  BY <1>1, <1>2, <1>3, EditsMade, KilledMade, BeginsMade, PassStartsMade, PassBreaksMade, PassEndsMade,
     BibStartsMade, BibReadsMade, BibEndsMade, BibNotDueMade, DecidesMade, ReturnsMade DEF Next, BuildSteps

-----------------------------------------------------------------------------
(* What holds of the studio whatever happens.                              *)

StudioInv == FilesTyped /\ JobsTyped /\ Registered /\ Closing /\ Made

LEMMA StudioBegins == Init => StudioInv
<1> SUFFICES ASSUME Init PROVE StudioInv
  OBVIOUS
<1>1. FilesTyped
  BY DEF Init, FilesTyped, Folders, Fresh, Locals, Bbls, Sigs, Auxes
<1>2. JobsTyped /\ Registered /\ Closing
  BY JobsAssumption DEF Init, JobsTyped, Registered, Closing, Jobs, Places, Admitted, Under
<1>3. Made
  BY DEF Init, Made, Stored, InHand, Matches, Admitted, Jobs
<1> QED
  BY <1>1, <1>2, <1>3 DEF StudioInv

\* The studio is as it should be at every step: one build holds the lock, what is past
\* _admit is registered, and a saved signature is its .bbl's unless that was left loose.
THEOREM StudioHolds == Spec => []StudioInv
<1>1. StudioInv /\ [Next]_vars => StudioInv'
  BY RegisteredStep, ClosingStep, MadeStep DEF StudioInv
<1> QED
  BY StudioBegins, <1>1, PTL DEF Spec

\* A build that settled while nothing was edited left a PDF of the document and the
\* feedback files as they stand, and of the bibliography too unless the .bbl was left
\* loose before it (Build._builtin, Build._tools).
THEOREM SettledStandsUpToDate == Spec => []SettledUnlessLoose
<1>1. StudioInv => SettledUnlessLoose
  BY DEF StudioInv, Made, InHand, SettledUnlessLoose
<1> QED
  BY StudioHolds, <1>1, PTL

\* When close() is done, no build and no run has a program running (Studio._admit).
THEOREM NothingRunsAfterClose == Spec => []NothingOutlivesClose
<1>1. StudioInv => NothingOutlivesClose
  BY DEF StudioInv, Registered, Closing, NothingOutlivesClose, Jobs, Admitted, Under, JobsTyped
<1> QED
  BY StudioHolds, <1>1, PTL
-----------------------------------------------------------------------------
(* The page: each generation of a document is one text.                     *)

Texts == [text : Nat, gen : Nat]
SaveRecords == [step : {"waiting", "sent", "conflict", "checked", "written", "ok"}, force : BOOLEAN,
                doc : Texts, base : Nat, at : Nat]
FetchRecords == [step : {"idle", "tree", "asked", "text", "read"}, discard : BOOLEAN, text : Nat, at : Nat]

Elements(s) == {s[i] : i \in DOMAIN s}

\* The documents the page has in hand: shown, last loaded or saved, undone to and being saved.
Documents(t, u, s) ==
  {t.doc, [text |-> t.basis, gen |-> t.clean]} \cup Elements(u) \cup {save.doc : save \in Elements(s)}

OneTextEach(D, n) == \A d \in D : d.gen \in 0..n /\ \A e \in D : d.gen = e.gen => d = e

PageTyped ==
  /\ disk \in [text : Nat, at : Nat] /\ gens \in Nat /\ texts \in Nat
  /\ tab \in [doc : Texts, clean : Nat, at : Nat, conflict : BOOLEAN, basis : Nat]
  /\ undone \in Seq(Texts) /\ saves \in Seq(SaveRecords) /\ fetch \in [Fetches -> FetchRecords]

\* What was on disk: what a save wrote, what was read, and what the tab goes by.
WasOnDisk ==
  /\ disk.text \in written /\ tab.basis \in written
  /\ \A save \in Elements(saves) : save.step \in {"written", "ok"} => save.doc.text \in written
  /\ \A f \in Fetches : fetch[f].step \in {"text", "read"} => fetch[f].text \in written

PageInv == PageTyped /\ OneTextEach(Documents(tab, undone, saves), gens) /\ WasOnDisk

LEMMA PageBegins == Open!Init => PageInv
<1> SUFFICES ASSUME Open!Init PROVE PageInv
  OBVIOUS
<1>1. PageTyped
  BY DEF Open!Init, PageTyped, Texts, FetchRecords, Open!NoFetch
<1>2. Elements(undone) = {} /\ Elements(saves) = {}
  BY DEF Open!Init, Elements
<1>3. Documents(tab, undone, saves) = {[text |-> 0, gen |-> 0]}
  BY <1>2 DEF Open!Init, Documents
<1>4. OneTextEach(Documents(tab, undone, saves), gens)
  BY <1>3 DEF Open!Init, OneTextEach
<1>5. WasOnDisk
  BY <1>2 DEF Open!Init, WasOnDisk, Open!NoFetch
<1> QED
  BY <1>1, <1>4, <1>5 DEF PageInv

LEMMA AppendElements ==
  ASSUME NEW S, NEW s \in Seq(S), NEW x \in S
  PROVE  Append(s, x) \in Seq(S) /\ Elements(Append(s, x)) = Elements(s) \cup {x}
<1>1. Append(s, x) \in Seq(S) /\ Len(Append(s, x)) = Len(s) + 1
  OBVIOUS
<1>2. \A i \in 1..Len(s) : Append(s, x)[i] = s[i]
  OBVIOUS
<1>3. Append(s, x)[Len(s) + 1] = x
  OBVIOUS
<1>4. DOMAIN Append(s, x) = 1..(Len(s) + 1) /\ DOMAIN s = 1..Len(s) /\ Len(s) \in Nat
  BY <1>1
<1>5. Elements(Append(s, x)) \subseteq Elements(s) \cup {x}
  BY <1>2, <1>3, <1>4 DEF Elements
<1>6. Elements(s) \subseteq Elements(Append(s, x))
  <2>1. ASSUME NEW i \in 1..Len(s) PROVE s[i] \in Elements(Append(s, x))
    <3>1. i \in DOMAIN Append(s, x) /\ Append(s, x)[i] = s[i]
      BY <1>2, <1>4
    <3> QED
      BY <3>1 DEF Elements
  <2> QED
    BY <1>4, <2>1 DEF Elements
<1>7. x \in Elements(Append(s, x))
  <2>1. Len(s) + 1 \in DOMAIN Append(s, x)
    BY <1>4
  <2> QED
    BY <1>3, <2>1 DEF Elements
<1> QED
  BY <1>1, <1>5, <1>6, <1>7

LEMMA ShorterElements ==
  ASSUME NEW S, NEW s \in Seq(S), s # <<>>
  PROVE  /\ Tail(s) \in Seq(S) /\ Elements(Tail(s)) \subseteq Elements(s)
         /\ SubSeq(s, 1, Len(s) - 1) \in Seq(S) /\ Elements(SubSeq(s, 1, Len(s) - 1)) \subseteq Elements(s)
         /\ s[1] \in Elements(s) /\ s[Len(s)] \in Elements(s) /\ s[1] \in S /\ s[Len(s)] \in S
<1>1. Len(s) \in Nat \ {0} /\ DOMAIN s = 1..Len(s)
  OBVIOUS
<1>2. Tail(s) \in Seq(S) /\ Len(Tail(s)) = Len(s) - 1 /\ \A i \in 1..(Len(s) - 1) : Tail(s)[i] = s[i + 1]
  BY <1>1
<1>3. /\ SubSeq(s, 1, Len(s) - 1) \in Seq(S) /\ Len(SubSeq(s, 1, Len(s) - 1)) = Len(s) - 1
      /\ \A i \in 1..(Len(s) - 1) : SubSeq(s, 1, Len(s) - 1)[i] = s[i]
  BY <1>1
<1>4. Elements(Tail(s)) \subseteq Elements(s)
  BY <1>1, <1>2 DEF Elements
<1>5. Elements(SubSeq(s, 1, Len(s) - 1)) \subseteq Elements(s)
  BY <1>1, <1>3 DEF Elements
<1>6. s[1] \in Elements(s) /\ s[Len(s)] \in Elements(s) /\ s[1] \in S /\ s[Len(s)] \in S
  BY <1>1 DEF Elements
<1> QED
  BY <1>2, <1>3, <1>4, <1>5, <1>6

LEMMA FirstElements ==
  ASSUME NEW S, NEW s \in Seq(S), s # <<>>, NEW x \in S
  PROVE  [s EXCEPT ![1] = x] \in Seq(S) /\ Elements([s EXCEPT ![1] = x]) \subseteq Elements(s) \cup {x}
<1>1. [s EXCEPT ![1] = x] \in Seq(S)
  OBVIOUS
<1>2. Elements([s EXCEPT ![1] = x]) \subseteq Elements(s) \cup {x}
  BY DEF Elements
<1> QED
  BY <1>1, <1>2

\* No document of the page is new, or one is, of a generation of its own.
LEMMA FewerDocuments ==
  ASSUME NEW D, NEW n \in Nat, OneTextEach(D, n), NEW E \in SUBSET D
  PROVE  OneTextEach(E, n)
BY DEF OneTextEach

LEMMA NewDocument ==
  ASSUME NEW D, NEW n \in Nat, OneTextEach(D, n), NEW d, d.gen = n + 1, NEW E \in SUBSET (D \cup {d})
  PROVE  OneTextEach(E, n + 1)
<1>1. \A e \in D : e.gen \in 0..n /\ e.gen \in 0..(n + 1) /\ e.gen # n + 1
  BY DEF OneTextEach
<1>2. \A e \in D : \A f \in D : e.gen = f.gen => e = f
  BY DEF OneTextEach
<1>3. d.gen \in 0..(n + 1)
  OBVIOUS
<1> QED
  BY <1>1, <1>2, <1>3 DEF OneTextEach


\* A tab without edits shows the document it goes by.
LEMMA PageShowsSaved == PageInv => Open!CleanIsSaved
<1> SUFFICES ASSUME PageInv, ~Open!Dirty PROVE tab.doc.text = tab.basis
  BY DEF Open!CleanIsSaved
<1>1. tab.doc \in Documents(tab, undone, saves)
      /\ [text |-> tab.basis, gen |-> tab.clean] \in Documents(tab, undone, saves)
  BY DEF Documents
<1>2. tab.doc = [text |-> tab.basis, gen |-> tab.clean]
  BY <1>1 DEF PageInv, OneTextEach, Open!Dirty
<1> QED
  BY <1>2

\* A step that makes no document, and has no less on disk.
LEMMA PageStays ==
  ASSUME PageInv, PageTyped', gens' = gens, WasOnDisk',
         Documents(tab, undone, saves)' \subseteq Documents(tab, undone, saves)
  PROVE  PageInv'
<1>1. gens \in Nat
  BY DEF PageInv, PageTyped
<1>2. OneTextEach(Documents(tab, undone, saves)', gens)
  BY <1>1, FewerDocuments DEF PageInv
<1> QED
  BY <1>2 DEF PageInv

LEMMA PageTypes ==
  ASSUME PageInv, Open!Type \/ Open!Undo
  PROVE  PageInv'
<1>1. PageTyped /\ WasOnDisk /\ OneTextEach(Documents(tab, undone, saves), gens)
  BY DEF PageInv
<1>2. CASE Open!Type
  <2>1. PICK doc : doc = [text |-> texts + 1, gen |-> gens + 1]
    OBVIOUS
  <2>2. doc \in Texts /\ doc.gen = gens + 1 /\ tab.doc \in Texts
    BY <1>1, <2>1 DEF PageTyped, Texts
  <2>3. tab' = [tab EXCEPT !.doc = doc] /\ gens' = gens + 1 /\ undone' = Append(undone, tab.doc)
    BY <1>2, <2>1 DEF Open!Type, Open!Shows, Open!New
  <2>4. undone' \in Seq(Texts) /\ Elements(undone)' = Elements(undone) \cup {tab.doc}
    BY <1>1, <2>2, <2>3, AppendElements DEF PageTyped
  <2>5. tab'.doc = doc /\ tab'.basis = tab.basis /\ tab'.clean = tab.clean
    BY <1>1, <2>3 DEF PageTyped
  <2>6. UNCHANGED <<disk, saves, fetch, written>> /\ texts' = texts + 1
    BY <1>2 DEF Open!Type
  <2>7. PageTyped'
    <3>1. tab' \in [doc : Texts, clean : Nat, at : Nat, conflict : BOOLEAN, basis : Nat]
      BY <1>1, <2>2, <2>3 DEF PageTyped
    <3>2. gens' \in Nat /\ texts' \in Nat
      BY <1>1, <2>3, <2>6 DEF PageTyped
    <3> QED
      BY <1>1, <2>4, <2>6, <3>1, <3>2 DEF PageTyped
  <2>8. Documents(tab, undone, saves)' \subseteq Documents(tab, undone, saves) \cup {doc}
    BY <2>4, <2>5, <2>6 DEF Documents
  <2>9. OneTextEach(Documents(tab, undone, saves)', gens + 1)
    BY <1>1, <2>2, <2>8, NewDocument DEF PageTyped
  <2>10. WasOnDisk'
    BY <1>1, <2>5, <2>6 DEF WasOnDisk
  <2> QED
    BY <2>3, <2>7, <2>9, <2>10 DEF PageInv
<1>3. CASE Open!Undo
  <2>1. PICK doc : doc = undone[Len(undone)]
    OBVIOUS
  <2>2. undone # <<>> /\ tab' = [tab EXCEPT !.doc = doc] /\ undone' = SubSeq(undone, 1, Len(undone) - 1)
        /\ UNCHANGED <<gens, disk, saves, fetch, texts, written>>
    BY <1>3, <2>1 DEF Open!Undo, Open!Shows
  <2>3. doc \in Texts /\ doc \in Elements(undone)
    BY <1>1, <2>1, <2>2, ShorterElements DEF PageTyped
  <2>4. undone' \in Seq(Texts) /\ Elements(undone)' \subseteq Elements(undone)
    BY <1>1, <2>2, ShorterElements DEF PageTyped
  <2>5. tab'.doc = doc /\ tab'.basis = tab.basis /\ tab'.clean = tab.clean
    BY <1>1, <2>2 DEF PageTyped
  <2>6. PageTyped'
    BY <1>1, <2>2, <2>3, <2>4 DEF PageTyped
  <2>7. Documents(tab, undone, saves)' \subseteq Documents(tab, undone, saves)
    BY <2>2, <2>3, <2>4, <2>5 DEF Documents
  <2>8. WasOnDisk'
    BY <1>1, <2>2, <2>5 DEF WasOnDisk
  <2> QED
    BY <2>2, <2>6, <2>7, <2>8, PageStays
<1> QED
  BY <1>2, <1>3

\* A save more, asked for of what the tab shows.
LEMMA SaveAsked ==
  ASSUME PageInv, NEW force \in BOOLEAN, Open!SaveTab(force),
         UNCHANGED <<disk, tab, gens, undone, fetch, texts, written>>
  PROVE  PageInv'
<1>1. PageTyped /\ WasOnDisk /\ OneTextEach(Documents(tab, undone, saves), gens)
  BY DEF PageInv
<1>2. PICK save : save = Open!Waiting(force)
  OBVIOUS
<1>3. save \in SaveRecords /\ save.step = "waiting" /\ save.doc = tab.doc
  BY <1>1, <1>2 DEF Open!Waiting, PageTyped, SaveRecords
<1>4. saves' = Append(saves, save)
  BY <1>2 DEF Open!SaveTab
<1>5. saves' \in Seq(SaveRecords) /\ Elements(saves)' = Elements(saves) \cup {save}
  BY <1>1, <1>3, <1>4, AppendElements DEF PageTyped
<1>6. PageTyped'
  BY <1>1, <1>5 DEF PageTyped
<1>7. Documents(tab, undone, saves)' \subseteq Documents(tab, undone, saves)
  BY <1>3, <1>5 DEF Documents
<1>8. WasOnDisk'
  BY <1>1, <1>3, <1>5 DEF WasOnDisk
<1> QED
  BY <1>6, <1>7, <1>8, PageStays

\* The first save moves on, or is no more.
LEMMA FirstMoves ==
  ASSUME PageInv, saves # <<>>, NEW save \in SaveRecords, save.doc \in {saves[1].doc, tab.doc},
         saves' = Tail(saves) \/ saves' = [saves EXCEPT ![1] = save],
         UNCHANGED <<tab, gens, undone, fetch, texts>>, written \subseteq written',
         disk' \in [text : Nat, at : Nat], disk'.text \in written',
         save.step \in {"written", "ok"} => save.doc.text \in written'
  PROVE  PageInv'
<1>1. PageTyped /\ WasOnDisk /\ OneTextEach(Documents(tab, undone, saves), gens)
  BY DEF PageInv
<1>2. saves \in Seq(SaveRecords)
  BY <1>1 DEF PageTyped
<1>3. saves[1] \in Elements(saves)
  BY <1>2, ShorterElements
<1>4. saves' \in Seq(SaveRecords) /\ Elements(saves)' \subseteq Elements(saves) \cup {save}
  <2>1. CASE saves' = Tail(saves)
    BY <1>2, <2>1, ShorterElements
  <2>2. CASE saves' = [saves EXCEPT ![1] = save]
    <3>1. PICK now : now = [saves EXCEPT ![1] = save]
      OBVIOUS
    <3>2. now \in Seq(SaveRecords) /\ Elements(now) \subseteq Elements(saves) \cup {save}
      BY <1>2, <3>1, FirstElements
    <3> QED
      BY <2>2, <3>1, <3>2
  <2> QED
    BY <2>1, <2>2
<1>5. PageTyped'
  BY <1>1, <1>4 DEF PageTyped
<1>6. Documents(tab, undone, saves)' \subseteq Documents(tab, undone, saves)
  BY <1>3, <1>4 DEF Documents
<1>7. WasOnDisk'
  BY <1>1, <1>4 DEF WasOnDisk
<1> QED
  BY <1>5, <1>6, <1>7, PageStays

LEMMA PageSaves ==
  ASSUME PageInv,
         \/ Open!TimerFires \/ Open!FlushesSaves \/ Open!Saves \/ Open!SaveStarts \/ Open!ServerChecks
         \/ Open!ServerWrites \/ Open!ServerAnswers \/ Open!SaveFails
  PROVE  PageInv'
<1>1. PageTyped /\ WasOnDisk /\ OneTextEach(Documents(tab, undone, saves), gens)
  BY DEF PageInv
<1>2. disk \in [text : Nat, at : Nat] /\ disk.text \in written /\ saves \in Seq(SaveRecords)
  BY <1>1 DEF PageTyped, WasOnDisk
<1>3. ASSUME saves # <<>> PROVE /\ saves[1] \in SaveRecords
                                /\ saves[1].step \in {"written", "ok"} => saves[1].doc.text \in written
  BY <1>1, <1>2, <1>3, ShorterElements DEF WasOnDisk
<1>4. CASE \/ Open!TimerFires \/ Open!FlushesSaves \/ Open!Saves
  <2>1. UNCHANGED <<disk, tab, gens, undone, fetch, texts, written>>
    BY <1>4 DEF Open!TimerFires, Open!FlushesSaves, Open!Saves
  <2>2. UNCHANGED saves \/ Open!SaveTab(FALSE) \/ Open!SaveTab(TRUE)
    BY <1>4 DEF Open!TimerFires, Open!FlushesSaves, Open!Saves, Open!Autosave
  <2>3. CASE UNCHANGED saves
    BY <1>1, <2>1, <2>3 DEF PageInv, PageTyped, WasOnDisk
  <2> QED
    BY <2>1, <2>2, <2>3, SaveAsked
<1>5. CASE Open!SaveStarts
  <2>1. PICK save : save = [saves[1] EXCEPT !.step = "sent", !.doc = tab.doc, !.base = tab.at]
    OBVIOUS
  <2>2. saves # <<>> /\ UNCHANGED <<disk, tab, gens, undone, fetch, texts, written>>
        /\ (saves' = Tail(saves) \/ saves' = [saves EXCEPT ![1] = save])
    BY <1>5, <2>1 DEF Open!SaveStarts, Open!Head1, Open!HeadIs, Open!editor
  <2>3. save = [step |-> "sent", force |-> saves[1].force, doc |-> tab.doc, base |-> tab.at, at |-> saves[1].at]
    BY <1>3, <2>1, <2>2 DEF SaveRecords
  <2>4. save \in SaveRecords /\ save.doc = tab.doc /\ save.step = "sent"
    BY <1>1, <1>3, <2>2, <2>3 DEF SaveRecords, PageTyped
  <2> QED
    BY <1>2, <2>2, <2>4, FirstMoves
<1>6. CASE Open!ServerChecks
  <2>1. PICK save : save = [saves[1] EXCEPT !.step = IF @ = "sent" /\ saves[1].base # disk.at /\ ~saves[1].force
                                                     THEN "conflict" ELSE "checked"]
    OBVIOUS
  <2>2. saves # <<>> /\ saves' = [saves EXCEPT ![1] = save]
        /\ UNCHANGED <<disk, tab, gens, undone, fetch, texts, written>>
    BY <1>6, <2>1 DEF Open!ServerChecks, Open!Head1, Open!HeadIs, Open!editor
  <2>3. save \in SaveRecords /\ save.doc = saves[1].doc /\ save.step \in {"conflict", "checked"}
    BY <1>3, <2>1, <2>2 DEF SaveRecords
  <2> QED
    BY <1>2, <2>2, <2>3, FirstMoves
<1>7. CASE Open!ServerWrites
  <2>1. PICK save : save = [saves[1] EXCEPT !.step = "written"]
    OBVIOUS
  <2>2. /\ saves # <<>> /\ saves' = [saves EXCEPT ![1] = save] /\ UNCHANGED <<tab, gens, undone, fetch, texts>>
        /\ disk' = [text |-> saves[1].doc.text, at |-> disk.at + 1] /\ written' = written \cup {saves[1].doc.text}
    BY <1>7, <2>1 DEF Open!ServerWrites, Open!Head1, Open!HeadIs, Open!editor
  <2>3. save \in SaveRecords /\ save.doc = saves[1].doc
    BY <1>3, <2>1, <2>2 DEF SaveRecords
  <2>4. disk' \in [text : Nat, at : Nat] /\ disk'.text \in written'
    BY <1>2, <1>3, <2>2 DEF SaveRecords, Texts
  <2> QED
    BY <1>2, <2>2, <2>3, <2>4, FirstMoves
<1>8. CASE Open!ServerAnswers
  <2>1. PICK save : save = [saves[1] EXCEPT !.step = "ok", !.at = disk.at]
    OBVIOUS
  <2>2. /\ saves # <<>> /\ saves[1].step = "written" /\ saves' = [saves EXCEPT ![1] = save]
        /\ UNCHANGED <<disk, tab, gens, undone, fetch, texts, written>>
    BY <1>8, <2>1 DEF Open!ServerAnswers, Open!Head1, Open!HeadIs, Open!editor
  <2>3. save = [step |-> "ok", force |-> saves[1].force, doc |-> saves[1].doc, base |-> saves[1].base, at |-> disk.at]
    BY <1>3, <2>1, <2>2 DEF SaveRecords
  <2>4. save \in SaveRecords /\ save.doc = saves[1].doc /\ save.doc.text \in written
    BY <1>2, <1>3, <2>2, <2>3 DEF SaveRecords
  <2> QED
    BY <1>2, <2>2, <2>4, FirstMoves
<1>9. CASE Open!SaveFails
  <2>1. saves # <<>> /\ saves' = Tail(saves) /\ UNCHANGED <<disk, tab, gens, undone, fetch, texts, written>>
    BY <1>9 DEF Open!SaveFails, Open!editor
  <2> QED
    BY <1>2, <1>3, <2>1, FirstMoves
<1> QED
  BY <1>4, <1>5, <1>6, <1>7, <1>8, <1>9

\* The answer to a save: a conflict, or the tab goes by what was saved.
LEMMA PageSaved ==
  ASSUME PageInv, Open!SaveReturns
  PROVE  PageInv'
<1>1. PageTyped /\ WasOnDisk /\ OneTextEach(Documents(tab, undone, saves), gens)
  BY DEF PageInv
<1>2. saves \in Seq(SaveRecords) /\ saves # <<>> /\ saves' = Tail(saves) /\ saves[1].step \in {"ok", "conflict"}
      /\ UNCHANGED <<disk, gens, undone, fetch, texts, written>>
  BY <1>1 DEF Open!SaveReturns, PageTyped
<1>3. saves[1] \in Elements(saves) /\ saves[1] \in SaveRecords
  BY <1>2, ShorterElements
<1>4. saves' \in Seq(SaveRecords) /\ Elements(saves)' \subseteq Elements(saves)
  BY <1>2, ShorterElements
<1>5. PICK save : save = saves[1]
  OBVIOUS
<1>6. CASE save.step = "conflict"
  <2>1. tab' = [tab EXCEPT !.conflict = TRUE]
    BY <1>2, <1>5, <1>6 DEF Open!SaveReturns, Open!Head1
  <2>2. PageTyped' /\ tab'.doc = tab.doc /\ tab'.clean = tab.clean /\ tab'.basis = tab.basis
    BY <1>1, <1>2, <1>4, <2>1 DEF PageTyped
  <2>3. Documents(tab, undone, saves)' \subseteq Documents(tab, undone, saves)
    BY <1>2, <1>4, <2>2 DEF Documents
  <2>4. WasOnDisk'
    BY <1>1, <1>2, <1>4, <2>2 DEF WasOnDisk
  <2> QED
    BY <1>2, <2>2, <2>3, <2>4, PageStays
<1>7. CASE save.step = "ok"
  <2>1. tab' = [tab EXCEPT !.at = save.at, !.clean = save.doc.gen, !.conflict = FALSE, !.basis = save.doc.text]
    BY <1>2, <1>5, <1>7 DEF Open!SaveReturns, Open!Head1, Open!Saved
  <2>2. tab' = [doc |-> tab.doc, clean |-> save.doc.gen, at |-> save.at, conflict |-> FALSE, basis |-> save.doc.text]
    BY <1>1, <2>1 DEF PageTyped
  <2>3. save.doc \in Texts /\ save.at \in Nat
    BY <1>3, <1>5 DEF SaveRecords
  <2>4. PageTyped'
    BY <1>1, <1>2, <1>4, <2>2, <2>3 DEF PageTyped, Texts
  <2>5. [text |-> tab'.basis, gen |-> tab'.clean] = save.doc
    BY <2>2, <2>3 DEF Texts
  <2>6. Documents(tab, undone, saves)' \subseteq Documents(tab, undone, saves)
    BY <1>2, <1>3, <1>4, <1>5, <2>2, <2>5 DEF Documents
  <2>7. save.doc.text \in written
    BY <1>1, <1>3, <1>5, <1>7 DEF WasOnDisk
  <2>8. WasOnDisk'
    BY <1>1, <1>2, <1>4, <2>2, <2>7 DEF WasOnDisk
  <2> QED
    BY <1>2, <2>4, <2>6, <2>8, PageStays
<1> QED
  BY <1>2, <1>5, <1>6, <1>7

\* A poll or a reload moves on, and the tab may show a conflict.
LEMMA FetchMoves ==
  ASSUME PageInv, NEW f \in Fetches, NEW to \in FetchRecords, fetch' = [fetch EXCEPT ![f] = to],
         to.step \in {"text", "read"} => to.text \in written,
         NEW conflict \in BOOLEAN, tab' = [tab EXCEPT !.conflict = conflict],
         UNCHANGED <<disk, gens, undone, saves, texts, written>>
  PROVE  PageInv'
<1>1. PageTyped /\ WasOnDisk /\ OneTextEach(Documents(tab, undone, saves), gens)
  BY DEF PageInv
<1>2. PageTyped' /\ tab'.doc = tab.doc /\ tab'.clean = tab.clean /\ tab'.basis = tab.basis
  BY <1>1 DEF PageTyped
<1>3. Documents(tab, undone, saves)' \subseteq Documents(tab, undone, saves)
  BY <1>2 DEF Documents
<1>4. WasOnDisk'
  BY <1>1, <1>2 DEF WasOnDisk, PageTyped
<1> QED
  BY <1>2, <1>3, <1>4, PageStays

LEMMA PagePolls ==
  ASSUME PageInv, NEW f \in Fetches,
         \/ Open!PollAnswered(f) \/ Open!PollSees(f) \/ Open!Discards(f) \/ Open!ReadsText(f) \/ Open!ReadsTime(f)
         \/ Open!ReadFails(f)
  PROVE  PageInv'
<1>1. PageTyped /\ WasOnDisk
  BY DEF PageInv
<1>2. /\ tab \in [doc : Texts, clean : Nat, at : Nat, conflict : BOOLEAN, basis : Nat]
      /\ fetch[f] \in FetchRecords /\ disk \in [text : Nat, at : Nat]
      /\ disk.text \in written
      /\ fetch[f].step \in {"text", "read"} => fetch[f].text \in written
  BY <1>1 DEF PageTyped, WasOnDisk
<1>3. tab = [tab EXCEPT !.conflict = tab.conflict] /\ tab.conflict \in BOOLEAN
  BY <1>2
<1>4. UNCHANGED <<disk, gens, undone, saves, texts, written>>
  BY DEF Open!PollAnswered, Open!PollSees, Open!Discards, Open!ReadsText, Open!ReadsTime, Open!ReadFails, Open!editor
<1>5. Open!NoFetch = [step |-> "idle", discard |-> FALSE, text |-> 0, at |-> 0] /\ Open!NoFetch \in FetchRecords
  BY DEF Open!NoFetch, FetchRecords
<1>7. CASE Open!PollAnswered(f)
  <2>1. PICK to : to = [Open!NoFetch EXCEPT !.step = "tree", !.at = disk.at]
    OBVIOUS
  <2>2. to = [step |-> "tree", discard |-> FALSE, text |-> 0, at |-> disk.at]
    BY <1>5, <2>1
  <2>3. fetch' = [fetch EXCEPT ![f] = to] /\ UNCHANGED tab
    BY <1>7, <2>1 DEF Open!PollAnswered, Open!Steps, Open!editor
  <2>4. to \in FetchRecords /\ to.step = "tree"
    BY <1>2, <2>2 DEF FetchRecords
  <2> QED
    BY <1>3, <1>4, <2>3, <2>4, FetchMoves
<1>8. CASE Open!PollSees(f)
  <2>1. PICK moved \in BOOLEAN : moved = (fetch[f].at # tab.at)
    OBVIOUS
  <2>2. PICK to : to = IF moved /\ ~Open!Dirty THEN [Open!NoFetch EXCEPT !.step = "asked"] ELSE Open!NoFetch
    OBVIOUS
  <2>3. to \in FetchRecords /\ to.step \in {"asked", "idle"}
    BY <1>5, <2>2 DEF FetchRecords
  <2>4. fetch' = [fetch EXCEPT ![f] = to]
    BY <1>8, <2>1, <2>2 DEF Open!PollSees, Open!Steps
  <2>5. PICK conflict \in BOOLEAN : conflict = (tab.conflict \/ (moved /\ Open!Dirty))
    BY <1>2 DEF Open!Dirty
  <2>6. tab' = [tab EXCEPT !.conflict = conflict]
    BY <1>8, <2>1, <2>5 DEF Open!PollSees
  <2> QED
    BY <1>4, <2>3, <2>4, <2>5, <2>6, FetchMoves
<1>9. CASE Open!Discards(f)
  <2>1. PICK to : to = [Open!NoFetch EXCEPT !.step = "asked", !.discard = TRUE]
    OBVIOUS
  <2>2. to = [step |-> "asked", discard |-> TRUE, text |-> 0, at |-> 0]
    BY <1>5, <2>1
  <2>3. fetch' = [fetch EXCEPT ![f] = to] /\ UNCHANGED tab
    BY <1>9, <2>1 DEF Open!Discards, Open!Steps, Open!editor
  <2>4. to \in FetchRecords /\ to.step = "asked"
    BY <2>2 DEF FetchRecords
  <2> QED
    BY <1>3, <1>4, <2>3, <2>4, FetchMoves
<1>10. CASE Open!ReadsText(f)
  <2>1. PICK to : to = [fetch[f] EXCEPT !.step = "text", !.text = disk.text]
    OBVIOUS
  <2>2. to = [step |-> "text", discard |-> fetch[f].discard, text |-> disk.text, at |-> fetch[f].at]
    BY <1>2, <2>1 DEF FetchRecords
  <2>3. fetch' = [fetch EXCEPT ![f] = to] /\ UNCHANGED tab
    BY <1>10, <2>1 DEF Open!ReadsText, Open!Steps, Open!editor
  <2>4. to \in FetchRecords /\ to.text \in written
    BY <1>2, <2>2 DEF FetchRecords
  <2> QED
    BY <1>3, <1>4, <2>3, <2>4, FetchMoves
<1>11. CASE Open!ReadsTime(f)
  <2>1. PICK to : to = [fetch[f] EXCEPT !.step = "read", !.at = disk.at]
    OBVIOUS
  <2>2. to = [step |-> "read", discard |-> fetch[f].discard, text |-> fetch[f].text, at |-> disk.at]
    BY <1>2, <2>1 DEF FetchRecords
  <2>3. fetch' = [fetch EXCEPT ![f] = to] /\ UNCHANGED tab /\ fetch[f].step = "text"
    BY <1>11, <2>1 DEF Open!ReadsTime, Open!Steps, Open!editor
  <2>4. to \in FetchRecords /\ to.text \in written
    BY <1>2, <2>2, <2>3 DEF FetchRecords
  <2> QED
    BY <1>3, <1>4, <2>3, <2>4, FetchMoves
<1>12. CASE Open!ReadFails(f)
  <2>1. fetch' = [fetch EXCEPT ![f] = Open!NoFetch] /\ UNCHANGED tab /\ Open!NoFetch.step = "idle"
    BY <1>5, <1>12 DEF Open!ReadFails, Open!editor
  <2> QED
    BY <1>3, <1>4, <1>5, <2>1, FetchMoves
<1> QED
  BY <1>7, <1>8, <1>9, <1>10, <1>11, <1>12

\* What was read is shown, unless the tab has edits: in a document of its own if it
\* is another text.
LEMMA PageReloads ==
  ASSUME PageInv, NEW f \in Fetches, Open!Reloads(f)
  PROVE  PageInv' /\ (tab'.doc # tab.doc => fetch[f].discard \/ tab.doc.text \in written)
<1>1. PageTyped /\ WasOnDisk /\ OneTextEach(Documents(tab, undone, saves), gens)
  BY DEF PageInv
<1>2. /\ tab \in [doc : Texts, clean : Nat, at : Nat, conflict : BOOLEAN, basis : Nat]
      /\ fetch[f] \in FetchRecords /\ gens \in Nat /\ fetch[f].step = "read" /\ fetch[f].text \in written
      /\ fetch' = [fetch EXCEPT ![f] = Open!NoFetch] /\ UNCHANGED <<disk, saves, texts, written>>
  BY <1>1 DEF PageTyped, WasOnDisk, Open!Reloads, Open!Steps
<1>3. Open!NoFetch \in FetchRecords /\ Open!NoFetch.step = "idle"
  BY DEF Open!NoFetch, FetchRecords
<1>4. CASE ~Open!MayReplace(f)
  <2>1. tab' = [tab EXCEPT !.conflict = TRUE] /\ UNCHANGED <<gens, undone>>
    BY <1>4 DEF Open!Reloads
  <2>2. tab'.doc = tab.doc
    BY <1>2, <2>1
  <2> QED
    BY <1>2, <1>3, <2>1, <2>2, FetchMoves
<1>5. CASE Open!MayReplace(f)
  <2>1. PICK now : now = fetch[f].text
    OBVIOUS
  <2>2. PICK doc : doc = IF now = tab.doc.text THEN tab.doc ELSE [text |-> now, gen |-> gens + 1]
    OBVIOUS
  <2>3. now \in Nat /\ now \in written /\ doc \in Texts /\ doc.text = now
    BY <1>2, <2>1, <2>2 DEF FetchRecords, Texts
  <2>4. tab' = [doc |-> doc, clean |-> doc.gen, at |-> fetch[f].at, conflict |-> FALSE, basis |-> doc.text]
    BY <1>5, <2>1, <2>2 DEF Open!Reloads, Open!New
  <2>5. [text |-> tab'.basis, gen |-> tab'.clean] = doc /\ tab'.doc = doc
    BY <2>3, <2>4 DEF Texts
  <2>6. WasOnDisk'
    BY <1>1, <1>2, <1>3, <2>3, <2>4 DEF WasOnDisk, PageTyped
  <2>7. CASE now = tab.doc.text
    <3>1. UNCHANGED <<gens, undone>> /\ doc = tab.doc
      BY <1>5, <2>1, <2>2, <2>7 DEF Open!Reloads
    <3>2. PageTyped'
      BY <1>1, <1>2, <1>3, <2>3, <2>4, <3>1 DEF PageTyped, Texts, FetchRecords
    <3>3. Documents(tab, undone, saves)' \subseteq Documents(tab, undone, saves)
      BY <1>2, <2>5, <3>1 DEF Documents
    <3> QED
      BY <2>5, <2>6, <3>1, <3>2, <3>3, PageStays
  <2>8. CASE now # tab.doc.text
    <3>1. gens' = gens + 1 /\ undone' = Append(undone, tab.doc) /\ doc = [text |-> now, gen |-> gens + 1]
      BY <1>5, <2>1, <2>2, <2>8 DEF Open!Reloads
    <3>2. undone' \in Seq(Texts) /\ Elements(undone)' = Elements(undone) \cup {tab.doc}
      BY <1>1, <1>2, <3>1, AppendElements DEF PageTyped
    <3>3. PageTyped'
      BY <1>1, <1>2, <1>3, <2>3, <2>4, <3>1, <3>2 DEF PageTyped, Texts, FetchRecords
    <3>4. Documents(tab, undone, saves)' \subseteq Documents(tab, undone, saves) \cup {doc}
      BY <1>2, <2>5, <3>2 DEF Documents
    <3>5. OneTextEach(Documents(tab, undone, saves)', gens + 1)
      BY <1>1, <1>2, <3>1, <3>4, NewDocument
    <3>6. fetch[f].discard \/ tab.doc.text \in written
      BY <1>1, <1>5, PageShowsSaved DEF Open!MayReplace, WasOnDisk, PageInv, Open!CleanIsSaved
    <3> QED
      BY <2>6, <3>1, <3>3, <3>5, <3>6 DEF PageInv
  <2> QED
    BY <2>7, <2>8
<1> QED
  BY <1>4, <1>5

LEMMA OthersWrite ==
  ASSUME PageInv, NEW who, Open!OtherWrites(who)
  PROVE  PageInv'
<1>1. PageTyped /\ WasOnDisk /\ OneTextEach(Documents(tab, undone, saves), gens)
  BY DEF PageInv
<1>2. /\ texts' = texts + 1 /\ disk' = [text |-> texts + 1, at |-> disk.at + 1]
      /\ written' = written \cup {texts + 1} /\ UNCHANGED <<tab, gens, undone, saves, fetch>>
  BY DEF Open!OtherWrites, Open!editor
<1>3. PageTyped'
  BY <1>1, <1>2 DEF PageTyped
<1>4. WasOnDisk'
  BY <1>1, <1>2 DEF WasOnDisk
<1> QED
  BY <1>1, <1>2, <1>3, <1>4 DEF PageInv

PageKept ==
  \A f \in Fetches :
    fetch[f].step = "read" /\ ~fetch[f].discard /\ fetch'[f].step = "idle" /\ tab'.doc # tab.doc
      => tab.doc.text \in written

LEMMA PageStep == PageInv /\ [Open!Next]_(Open!vars) => PageInv' /\ PageKept
<1> SUFFICES ASSUME PageInv, [Open!Next]_(Open!vars) PROVE PageInv' /\ PageKept
  OBVIOUS
<1>1. \A f \in Fetches : fetch[f].step = "read" => fetch[f].step # "idle"
  OBVIOUS
<1>2. CASE UNCHANGED Open!vars
  BY <1>2 DEF Open!vars, Open!editor, PageInv, PageTyped, WasOnDisk, PageKept
<1>3. CASE Open!Type \/ Open!Undo
  <2>1. UNCHANGED fetch
    BY <1>3 DEF Open!Type, Open!Undo
  <2> QED
    BY <1>1, <1>3, <2>1, PageTypes DEF PageKept
<1>4. CASE \/ Open!TimerFires \/ Open!FlushesSaves \/ Open!Saves \/ Open!SaveStarts \/ Open!ServerChecks
           \/ Open!ServerWrites \/ Open!ServerAnswers \/ Open!SaveFails
  <2>1. UNCHANGED fetch
    BY <1>4 DEF Open!TimerFires, Open!FlushesSaves, Open!Saves, Open!SaveStarts, Open!ServerChecks,
                Open!ServerWrites, Open!ServerAnswers, Open!SaveFails
  <2> QED
    BY <1>1, <1>4, <2>1, PageSaves DEF PageKept
<1>5. CASE Open!SaveReturns
  <2>1. UNCHANGED fetch
    BY <1>5 DEF Open!SaveReturns
  <2> QED
    BY <1>1, <1>5, <2>1, PageSaved DEF PageKept
<1>6. ASSUME NEW f \in Fetches,
             \/ Open!PollAnswered(f) \/ Open!PollSees(f) \/ Open!Discards(f) \/ Open!ReadsText(f)
             \/ Open!ReadsTime(f) \/ Open!ReadFails(f)
      PROVE  PageInv' /\ PageKept
  <2>1. tab \in [doc : Texts, clean : Nat, at : Nat, conflict : BOOLEAN, basis : Nat]
    BY DEF PageInv, PageTyped
  <2>2. tab'.doc = tab.doc
    BY <1>6, <2>1 DEF Open!PollAnswered, Open!PollSees, Open!Discards, Open!ReadsText, Open!ReadsTime, Open!ReadFails,
                      Open!editor
  <2> QED
    BY <1>6, <2>2, PagePolls DEF PageKept
<1>7. ASSUME NEW f \in Fetches, Open!Reloads(f) PROVE PageInv' /\ PageKept
  <2>1. fetch' = [fetch EXCEPT ![f] = Open!NoFetch] /\ fetch \in [Fetches -> FetchRecords]
    BY <1>7 DEF Open!Reloads, Open!Steps, PageInv, PageTyped
  <2>2. \A g \in Fetches : fetch[g].step = "read" /\ fetch'[g].step = "idle" => g = f
    BY <2>1
  <2> QED
    BY <1>7, <2>2, PageReloads DEF PageKept
<1>8. ASSUME NEW who, Open!OtherWrites(who) PROVE PageInv' /\ PageKept
  <2>1. UNCHANGED fetch
    BY <1>8 DEF Open!OtherWrites
  <2> QED
    BY <1>1, <1>8, <2>1, OthersWrite DEF PageKept
<1> QED
  BY <1>2, <1>3, <1>4, <1>5, <1>6, <1>7, <1>8 DEF Open!Next
-----------------------------------------------------------------------------
(* The panel: what is drawn is the first of the events, and an answer brings *)
(* those after it.                                                           *)

Kinds == {"text", "done", "build"}
Requests == [step : {"none", "asked", "answered"}, events : Seq(Kinds), done : BOOLEAN]

\* The last event is among the first n.
DoneWithin(n) == \E i \in 1..n : events[i] = "done"

PanelTyped ==
  /\ events \in Seq(Kinds) /\ drawn \in Seq(Kinds) /\ request \in Requests
  /\ done \in BOOLEAN /\ after \in Nat

PanelInv ==
  /\ PanelTyped
  /\ after = Len(drawn) /\ after <= Len(events) /\ \A i \in 1..after : drawn[i] = events[i]
  /\ done => DoneWithin(Len(events))
  /\ request.step = "answered" =>
       /\ after + Len(request.events) <= Len(events)
       /\ \A i \in 1..Len(request.events) : request.events[i] = events[after + i]
       /\ request.done => DoneWithin(after + Len(request.events))

LEMMA PanelBegins == Panel!Init => PanelInv
<1> SUFFICES ASSUME Panel!Init PROVE PanelInv
  OBVIOUS
<1>1. <<>> \in Seq(Kinds) /\ Len(<<>>) = 0
  OBVIOUS
<1>2. Panel!NoRequest \in Requests /\ Panel!NoRequest.step = "none"
  BY <1>1 DEF Panel!NoRequest, Requests
<1>3. PanelTyped
  BY <1>1, <1>2 DEF Panel!Init, PanelTyped
<1> QED
  BY <1>1, <1>2, <1>3 DEF Panel!Init, PanelInv

\* An event more leaves the others where they were.
LEMMA EventAdded ==
  ASSUME PanelInv, NEW e \in Kinds, events' = Append(events, e), UNCHANGED <<request, after, drawn>>,
         done' = done
  PROVE  PanelInv'
<1>1. PanelTyped /\ Len(events) \in Nat /\ Len(request.events) \in Nat
  BY DEF PanelInv, PanelTyped, Requests
<1>2. events' \in Seq(Kinds) /\ Len(events') = Len(events) + 1 /\ \A i \in 1..Len(events) : events'[i] = events[i]
  BY <1>1 DEF PanelTyped
<1>3. PanelTyped'
  BY <1>1, <1>2 DEF PanelTyped
<1>4. ASSUME NEW n \in 0..Len(events), DoneWithin(n) PROVE DoneWithin(n)'
  BY <1>1, <1>2, <1>4 DEF DoneWithin
<1>5. (after <= Len(events) /\ \A i \in 1..after : drawn[i] = events[i])'
  BY <1>1, <1>2 DEF PanelInv, PanelTyped
<1>6. done' => DoneWithin(Len(events))'
  <2>1. ASSUME DoneWithin(Len(events)) PROVE DoneWithin(Len(events))'
    BY <1>1, <1>2, <2>1 DEF DoneWithin
  <2> QED
    BY <2>1 DEF PanelInv
<1>7. ASSUME request.step = "answered"
      PROVE  (/\ after + Len(request.events) <= Len(events)
              /\ \A i \in 1..Len(request.events) : request.events[i] = events[after + i]
              /\ request.done => DoneWithin(after + Len(request.events)))'
  <2>1. after + Len(request.events) <= Len(events) /\ after + Len(request.events) \in 0..Len(events)
    BY <1>1, <1>7 DEF PanelInv, PanelTyped
  <2>2. \A i \in 1..Len(request.events) : after + i \in 1..Len(events) /\ request.events[i] = events[after + i]
    BY <1>1, <1>7, <2>1 DEF PanelInv, PanelTyped
  <2>3. request.done => DoneWithin(after + Len(request.events))'
    BY <1>4, <1>7, <2>1 DEF PanelInv
  <2> QED
    BY <1>1, <1>2, <2>1, <2>2, <2>3
<1> QED
  BY <1>3, <1>5, <1>6, <1>7 DEF PanelInv

\* Each time the page draws, it draws all there is in order, and stops with the last.
PanelKept ==
  <<drawn, following>>' # <<drawn, following>> =>
    Panel!IsPrefix(drawn', events) /\ (~following' => Panel!Contains(drawn', "done"))

LEMMA PanelDraws ==
  ASSUME PanelInv, Panel!Draws
  PROVE  PanelInv' /\ PanelKept
<1>1. PICK new : new = request.events
  OBVIOUS
<1>2. /\ events \in Seq(Kinds) /\ drawn \in Seq(Kinds) /\ request \in Requests /\ new \in Seq(Kinds)
      /\ done \in BOOLEAN /\ after \in Nat /\ after = Len(drawn) /\ Len(new) \in Nat /\ Len(events) \in Nat
  BY <1>1 DEF PanelInv, PanelTyped, Requests
<1>3. /\ after + Len(new) <= Len(events) /\ \A i \in 1..Len(new) : new[i] = events[after + i]
      /\ request.done => DoneWithin(after + Len(new))
  BY <1>1 DEF PanelInv, Panel!Draws
<1>4. /\ drawn' = drawn \o new /\ after' = after + Len(new) /\ following' = ~request.done
      /\ request' = Panel!NoRequest /\ UNCHANGED <<events, done>>
  BY <1>1 DEF Panel!Draws, Panel!Beyond
<1>5. PICK now : now = drawn \o new
  OBVIOUS
<1>6. now \in Seq(Kinds) /\ Len(now) = after + Len(new)
  BY <1>2, <1>5
<1>7. \A i \in 1..Len(now) : now[i] = events[i]
  <2>1. ASSUME NEW i \in 1..Len(now) PROVE now[i] = events[i]
    <3>1. CASE i <= after
      <4>1. now[i] = drawn[i]
        BY <1>2, <1>5, <1>6, <3>1
      <4> QED
        BY <1>2, <3>1, <4>1 DEF PanelInv
    <3>2. CASE i > after
      <4>1. now[i] = new[i - after] /\ i - after \in 1..Len(new)
        BY <1>2, <1>5, <1>6, <3>2
      <4>2. new[i - after] = events[after + (i - after)] /\ after + (i - after) = i
        BY <1>2, <1>3, <1>6, <4>1
      <4> QED
        BY <4>1, <4>2
    <3> QED
      BY <1>2, <1>6, <3>1, <3>2
  <2> QED
    BY <2>1
<1>8. PanelTyped'
  BY <1>2, <1>4, <1>5, <1>6 DEF PanelTyped, Panel!NoRequest, Requests
<1>9. PanelInv'
  <2>1. (done => DoneWithin(Len(events)))'
    BY <1>4 DEF PanelInv, DoneWithin
  <2>2. request'.step = "none"
    BY <1>4 DEF Panel!NoRequest
  <2> QED
    BY <1>3, <1>4, <1>5, <1>6, <1>7, <1>8, <2>1, <2>2 DEF PanelInv
<1>10. Panel!IsPrefix(drawn', events)
  <2>1. Len(now) <= Len(events) /\ Len(now) \in Nat
    BY <1>2, <1>3, <1>6
  <2>2. SubSeq(now, 1, Len(now)) = SubSeq(events, 1, Len(now))
    <3>1. /\ SubSeq(now, 1, Len(now)) = [i \in 1..Len(now) |-> now[i]]
          /\ SubSeq(events, 1, Len(now)) = [i \in 1..Len(now) |-> events[i]]
      BY <1>2, <1>6, <2>1
    <3> QED
      BY <1>7, <3>1
  <2> QED
    BY <1>4, <1>5, <2>1, <2>2 DEF Panel!IsPrefix
<1>11. ASSUME ~following' PROVE Panel!Contains(drawn', "done")
  <2>1. PICK i \in 1..(after + Len(new)) : events[i] = "done"
    BY <1>3, <1>4, <1>11 DEF DoneWithin
  <2>2. i \in 1..Len(now) /\ now[i] = "done"
    BY <1>6, <1>7, <2>1
  <2> QED
    BY <1>4, <1>5, <2>2 DEF Panel!Contains
<1> QED
  BY <1>9, <1>10, <1>11 DEF PanelKept

LEMMA PanelAnswers ==
  ASSUME PanelInv, Panel!Asks \/ Panel!Answered \/ Panel!Lost
  PROVE  PanelInv'
<1>1. /\ events \in Seq(Kinds) /\ drawn \in Seq(Kinds) /\ request \in Requests /\ done \in BOOLEAN
      /\ after \in Nat /\ after = Len(drawn) /\ after <= Len(events) /\ Len(events) \in Nat
  BY DEF PanelInv, PanelTyped
<1>2. UNCHANGED <<events, done, after, drawn>>
  BY DEF Panel!Asks, Panel!Answered, Panel!Lost
<1>3. CASE Panel!Asks \/ Panel!Lost
  <2>1. PICK none : none = Panel!NoRequest
    OBVIOUS
  <2>2. none = [step |-> "none", events |-> <<>>, done |-> FALSE] /\ <<>> \in Seq(Kinds)
    BY <2>1 DEF Panel!NoRequest
  <2>3. request' = none \/ request' = [none EXCEPT !.step = "asked"]
    BY <1>3, <2>1 DEF Panel!Asks, Panel!Lost
  <2>4. request' \in Requests /\ request'.step # "answered"
    <3>1. request' = [step |-> "none", events |-> none.events, done |-> FALSE]
          \/ request' = [step |-> "asked", events |-> none.events, done |-> FALSE]
      BY <2>2, <2>3
    <3>2. none.events \in Seq(Kinds)
      BY <2>2
    <3> QED
      <4>1. \A step \in {"none", "asked"} : \A e \in Seq(Kinds) :
              [step |-> step, events |-> e, done |-> FALSE] \in Requests
        BY DEF Requests
      <4> QED
        BY <3>1, <3>2, <4>1
  <2> QED
    BY <1>1, <1>2, <2>4 DEF PanelInv, PanelTyped, DoneWithin
<1>4. CASE Panel!Answered
  <2>1. PICK new : new = SubSeq(events, after + 1, Len(events))
    OBVIOUS
  <2>2. request' = [step |-> "answered", events |-> new, done |-> done]
    BY <1>4, <2>1 DEF Panel!Answered
  <2>3. new \in Seq(Kinds) /\ Len(new) = Len(events) - after /\ \A i \in 1..Len(new) : new[i] = events[after + i]
    BY <1>1, <2>1
  <2>4. after + Len(new) = Len(events)
    BY <1>1, <2>3
  <2>5. PanelTyped'
    BY <1>1, <1>2, <2>2, <2>3 DEF PanelTyped, Requests
  <2>6. done => DoneWithin(Len(events))
    BY DEF PanelInv
  <2>7. (done => DoneWithin(Len(events)))' /\ (after = Len(drawn) /\ after <= Len(events))'
        /\ (\A i \in 1..after : drawn[i] = events[i])'
    BY <1>2 DEF PanelInv, DoneWithin
  <2>8. (/\ after + Len(request.events) <= Len(events)
         /\ \A i \in 1..Len(request.events) : request.events[i] = events[after + i]
         /\ request.done => DoneWithin(after + Len(request.events)))'
    <3>1. request'.events = new /\ request'.done = done
      BY <2>2
    <3>2. after' + Len(request'.events) = Len(events')
      BY <1>2, <2>4, <3>1
    <3>3. request'.done => DoneWithin(after + Len(request.events))'
      BY <1>2, <2>6, <2>4, <3>1 DEF DoneWithin
    <3>4. after' + Len(request'.events) <= Len(events')
      BY <1>1, <1>2, <3>2
    <3> QED
      BY <1>2, <2>3, <3>1, <3>3, <3>4
  <2> QED
    BY <2>5, <2>7, <2>8 DEF PanelInv
<1> QED
  BY <1>3, <1>4

LEMMA PanelStep == PanelInv /\ [Panel!Next]_(Panel!vars) => PanelInv' /\ PanelKept
<1> SUFFICES ASSUME PanelInv, [Panel!Next]_(Panel!vars) PROVE PanelInv' /\ PanelKept
  OBVIOUS
<1>1. CASE UNCHANGED Panel!vars
  BY <1>1 DEF Panel!vars, PanelInv, PanelTyped, DoneWithin, PanelKept
<1>2. CASE Panel!Says
  <2>1. events' = Append(events, "text") /\ UNCHANGED <<done, request, after, drawn, following>>
    BY <1>2, Zenon DEF Panel!Says, Panel!Emit
  <2> QED
    BY <2>1, EventAdded DEF Kinds, PanelKept
<1>3. CASE Panel!SaysDone
  BY <1>3, EventAdded DEF Panel!SaysDone, Panel!Emit, Kinds, PanelKept
<1>4. CASE Panel!IsDone
  <2>1. done' = TRUE /\ UNCHANGED <<events, request, after, drawn, following>>
    BY <1>4 DEF Panel!IsDone
  <2>2. DoneWithin(Len(events))
    BY <1>4 DEF Panel!IsDone, Panel!Contains, DoneWithin
  <2>3. PanelInv'
    BY <2>1, <2>2 DEF PanelInv, PanelTyped, DoneWithin
  <2> QED
    BY <2>1, <2>3 DEF PanelKept
<1>5. CASE Panel!BuildEnds
  BY <1>5 DEF Panel!BuildEnds, PanelInv, PanelTyped, DoneWithin, PanelKept
<1>6. CASE Panel!Built
  BY <1>6, EventAdded DEF Panel!Built, Panel!Emit, Kinds, PanelKept
<1>7. CASE Panel!Asks \/ Panel!Answered \/ Panel!Lost
  <2>1. UNCHANGED <<drawn, following>>
    BY <1>7 DEF Panel!Asks, Panel!Answered, Panel!Lost
  <2> QED
    BY <1>7, <2>1, PanelAnswers DEF PanelKept
<1> QED
  BY <1>1, <1>2, <1>3, <1>4, <1>5, <1>6, <1>7, PanelDraws DEF Panel!Next

-----------------------------------------------------------------------------
(* The whole of MCStudio.                                                    *)

EachMoves == [Next]_vars /\ [Open!Next]_(Open!vars) /\ [Panel!Next]_(Panel!vars)

LEMMA OneMoves == [StudioNext]_<<about, vars, pageVars, followVars, streamVars, inputVars>> => EachMoves
<1> USE DEF EachMoves, pageVars, followVars, Open!vars, Open!editor, Panel!vars
<1>1. CASE UNCHANGED <<about, vars, pageVars, followVars, streamVars, inputVars>>
  BY <1>1
<1>2. CASE StudioNext
  BY <1>2, Zenon DEF StudioNext
<1> QED
  BY <1>1, <1>2

\* In everything the studio does together, its builds are as they should be, each
\* generation of a document is one text, and the panel draws what comes next.
THEOREM StudioPartsHold == StudioSpec => [](StudioInv /\ PageInv /\ PanelInv)
<1>1. StudioInit => StudioInv /\ PageInv /\ PanelInv
  BY StudioBegins, PageBegins, PanelBegins DEF StudioInit
<1>2. StudioInv /\ PageInv /\ PanelInv /\ [StudioNext]_<<about, vars, pageVars, followVars, streamVars, inputVars>>
        => (StudioInv /\ PageInv /\ PanelInv)'
  BY OneMoves, RegisteredStep, ClosingStep, MadeStep, PageStep, PanelStep DEF EachMoves, StudioInv
<1> QED
  BY <1>1, <1>2, PTL DEF StudioSpec

\* What is typed is not lost to an answer that comes late, and no event of a turn is
\* missed or drawn twice (app.js saveTab, reloadFromDisk, followTurn).
THEOREM NothingIsLost == StudioSpec => NothingLost
<1>1. PageInv => Open!CleanIsSaved
  BY PageShowsSaved
<1>2. PageInv /\ [StudioNext]_<<about, vars, pageVars, followVars, streamVars, inputVars>> => [PageKept]_(Open!vars)
  BY OneMoves, PageStep DEF EachMoves
<1>3. PanelInv /\ [StudioNext]_<<about, vars, pageVars, followVars, streamVars, inputVars>> => [PanelKept]_(Panel!vars)
  BY OneMoves, PanelStep DEF EachMoves
<1> QED
  BY <1>1, <1>2, <1>3, StudioPartsHold, PTL
     DEF StudioSpec, NothingLost, Open!TypedIsKept, Panel!FollowedWhole, PageKept, PanelKept
=============================================================================

-------------------------------- MODULE Page --------------------------------
(***************************************************************************)
(* One file open in the studio's page (static/app.js) and on the disk of the *)
(* studio's server (server.py): typing, autosave, the poll that sees the file *)
(* change, reloads and the conflict banner, while another page or a program    *)
(* writes the same file.  The page is one thread, and every request it makes    *)
(* is answered later.                                                        *)
(***************************************************************************)
EXTENDS Naturals, Sequences

CONSTANTS
  Fetches,    \* the polls and reloads that may be under way at once
  Others,     \* who else writes: "page", another page through the server, or "program"
  MaxTexts,   \* a bound on the texts typed and written by others
  MaxGens,    \* a bound on the document's generations
  MaxSaves,   \* a bound on the saves waiting for one another
  MaxWrites   \* a bound on the writes of the file

VARIABLES
  disk,      \* the file's text and its time
  tab,       \* the tab: its document, clean generation, file time, conflict and text taken
  gens,      \* the generations the document has had
  undone,    \* the documents an undo goes back to, newest last
  timer,     \* the autosave timer is set
  saves,     \* the saves of the tab, each after the one before it
  fetch,     \* a poll or reload -> how far it is
  texts,     \* the texts there have been: a text is its number
  seen,      \* texts the tab has shown
  written    \* texts the file has had

editor == <<tab, gens, undone, timer>>
vars == <<disk, editor, saves, fetch, texts, seen, written>>

NoFetch == [step |-> "idle", discard |-> FALSE, text |-> 0, at |-> 0]
Dirty == tab.doc.gen # tab.clean
Shows(doc) == tab' = [tab EXCEPT !.doc = doc] /\ timer' = TRUE
New(text) == [text |-> text, gen |-> gens + 1]
-----------------------------------------------------------------------------
(* Typing.  A change sets the timer again; an undo restores the document     *)
(* and its generation.                                                     *)

Type ==
  /\ texts < MaxTexts /\ gens < MaxGens
  /\ texts' = texts + 1 /\ gens' = gens + 1
  /\ Shows(New(texts'))
  /\ undone' = Append(undone, tab.doc) /\ seen' = seen \cup {texts'}
  /\ UNCHANGED <<disk, saves, fetch, written>>

Undo ==
  /\ undone # <<>>
  /\ Shows(undone[Len(undone)])
  /\ undone' = SubSeq(undone, 1, Len(undone) - 1)
  /\ UNCHANGED <<gens, disk, saves, fetch, texts, seen, written>>
-----------------------------------------------------------------------------
(* Saves.                                                                  *)

Waiting(force) == [step |-> "waiting", force |-> force, doc |-> tab.doc, base |-> 0, at |-> 0]
SaveTab(force) == Len(saves) < MaxSaves /\ saves' = Append(saves, Waiting(force))
Autosave == IF tab.conflict \/ ~Dirty THEN UNCHANGED saves ELSE SaveTab(FALSE)

TimerFires ==
  /\ timer /\ timer' = FALSE /\ Autosave
  /\ UNCHANGED <<disk, tab, gens, undone, fetch, texts, seen, written>>

\* The researcher saves, or takes "Keep mine" in the banner.
Saves ==
  /\ \/ SaveTab(FALSE) /\ timer' = FALSE
     \/ tab.conflict /\ SaveTab(TRUE) /\ UNCHANGED timer
  /\ UNCHANGED <<disk, tab, gens, undone, fetch, texts, seen, written>>

Head1(step) == saves # <<>> /\ saves[1].step = step
HeadIs(save) == saves' = [saves EXCEPT ![1] = save]

SaveStarts ==
  /\ Head1("waiting")
  /\ IF Dirty \/ saves[1].force
     THEN HeadIs([saves[1] EXCEPT !.step = "sent", !.doc = tab.doc, !.base = tab.at])
     ELSE saves' = Tail(saves)
  /\ UNCHANGED <<disk, editor, fetch, texts, seen, written>>

\* The server, under its save lock: the file's time, the write, its time again.
ServerChecks ==
  /\ Head1("sent")
  /\ HeadIs([saves[1] EXCEPT !.step = IF @ = "sent" /\ saves[1].base # disk.at /\ ~saves[1].force
                                       THEN "conflict" ELSE "checked"])
  /\ UNCHANGED <<disk, editor, fetch, texts, seen, written>>

ServerWrites ==
  /\ Head1("checked") /\ disk.at <= MaxWrites
  /\ disk' = [text |-> saves[1].doc.text, at |-> disk.at + 1]
  /\ written' = written \cup {saves[1].doc.text}
  /\ HeadIs([saves[1] EXCEPT !.step = "written"])
  /\ UNCHANGED <<editor, fetch, texts, seen>>

ServerAnswers ==
  /\ Head1("written")
  /\ HeadIs([saves[1] EXCEPT !.step = "ok", !.at = disk.at])
  /\ UNCHANGED <<disk, editor, fetch, texts, seen, written>>

\* The request is refused or its answer lost: a toast, and the tab stays as it is.
SaveFails ==
  /\ saves # <<>> /\ saves[1].step \in {"sent", "ok"}
  /\ saves' = Tail(saves)
  /\ UNCHANGED <<disk, editor, fetch, texts, seen, written>>

SavedNow(save) == tab.doc.gen
Saved(save) == save.doc.gen

SaveReturns ==
  /\ saves # <<>> /\ saves[1].step \in {"ok", "conflict"}
  /\ tab' = IF Head1("conflict") THEN [tab EXCEPT !.conflict = TRUE]
            ELSE [tab EXCEPT !.at = saves[1].at, !.clean = Saved(saves[1]), !.conflict = FALSE,
                             !.basis = saves[1].doc.text]
  /\ saves' = Tail(saves)
  /\ UNCHANGED <<disk, gens, undone, timer, fetch, texts, seen, written>>
-----------------------------------------------------------------------------
(* The poll and the reloads.                                               *)

Steps(f, from, to) == fetch[f].step = from /\ fetch' = [fetch EXCEPT ![f] = to]

PollAnswered(f) ==
  /\ Steps(f, "idle", [NoFetch EXCEPT !.step = "tree", !.at = disk.at])
  /\ UNCHANGED <<disk, editor, saves, texts, seen, written>>

PollSees(f) ==
  /\ LET moved == fetch[f].at # tab.at IN
     /\ Steps(f, "tree", IF moved /\ ~Dirty THEN [NoFetch EXCEPT !.step = "asked"] ELSE NoFetch)
     /\ tab' = [tab EXCEPT !.conflict = @ \/ (moved /\ Dirty)]
  /\ UNCHANGED <<disk, gens, undone, timer, saves, texts, seen, written>>

\* "Load disk version" in the banner.
Discards(f) ==
  /\ tab.conflict
  /\ Steps(f, "idle", [NoFetch EXCEPT !.step = "asked", !.discard = TRUE])
  /\ UNCHANGED <<disk, editor, saves, texts, seen, written>>

\* GET /api/file: the text, and then its time.
ReadsText(f) ==
  /\ Steps(f, "asked", [fetch[f] EXCEPT !.step = "text", !.text = disk.text])
  /\ UNCHANGED <<disk, editor, saves, texts, seen, written>>

ReadsTime(f) ==
  /\ Steps(f, "text", [fetch[f] EXCEPT !.step = "read", !.at = disk.at])
  /\ UNCHANGED <<disk, editor, saves, texts, seen, written>>

ReadFails(f) ==
  /\ fetch[f].step \in {"tree", "asked", "read"} /\ fetch' = [fetch EXCEPT ![f] = NoFetch]
  /\ UNCHANGED <<disk, editor, saves, texts, seen, written>>

\* Typed into while the file was fetched, the tab is left alone.
Whenever(f) == TRUE
MayReplace(f) == fetch[f].discard \/ ~Dirty

Reloads(f) ==
  /\ Steps(f, "read", NoFetch)
  /\ IF ~MayReplace(f) THEN tab' = [tab EXCEPT !.conflict = TRUE] /\ UNCHANGED <<gens, undone, timer, seen>>
     ELSE LET same == fetch[f].text = tab.doc.text
              doc == IF same THEN tab.doc ELSE New(fetch[f].text)
          IN /\ same \/ gens < MaxGens
             /\ gens' = IF same THEN gens ELSE gens + 1
             /\ tab' = [doc |-> doc, clean |-> doc.gen, at |-> fetch[f].at, conflict |-> FALSE, basis |-> doc.text]
             /\ timer' = (timer \/ ~same) /\ undone' = IF same THEN undone ELSE Append(undone, tab.doc)
             /\ seen' = seen \cup {doc.text}
  /\ UNCHANGED <<disk, saves, texts, written>>
-----------------------------------------------------------------------------
(* The others: another page's save takes the server's save lock; a program    *)
(* knows of none.                                                          *)

OtherWrites(who) ==
  /\ texts < MaxTexts /\ disk.at <= MaxWrites
  /\ who = "page" => ~(Head1("checked") \/ Head1("written"))
  /\ texts' = texts + 1
  /\ disk' = [text |-> texts', at |-> disk.at + 1] /\ written' = written \cup {texts'}
  /\ UNCHANGED <<editor, saves, fetch, seen>>
-----------------------------------------------------------------------------
\* The page loses the focus, or a turn it followed is over: every file is saved.
FlushesSaves ==
  /\ Dirty /\ timer' = FALSE /\ Autosave
  /\ UNCHANGED <<disk, tab, gens, undone, fetch, texts, seen, written>>

Init ==
  /\ disk = [text |-> 0, at |-> 1]
  /\ tab = [doc |-> [text |-> 0, gen |-> 0], clean |-> 0, at |-> 1, conflict |-> FALSE, basis |-> 0]
  /\ undone = <<>> /\ timer = FALSE /\ gens = 0 /\ saves = <<>> /\ fetch = [f \in Fetches |-> NoFetch]
  /\ texts = 0 /\ seen = {0} /\ written = {0}

Next ==
  \/ Type \/ Undo \/ TimerFires \/ Saves
  \/ SaveStarts \/ ServerChecks \/ ServerWrites \/ ServerAnswers \/ SaveFails \/ SaveReturns
  \/ \E f \in Fetches : PollAnswered(f) \/ PollSees(f) \/ Discards(f) \/ ReadsText(f) \/ ReadsTime(f)
                          \/ ReadFails(f) \/ Reloads(f)
  \/ \E who \in Others : OtherWrites(who)
  \/ FlushesSaves

Spec == Init /\ [][Next]_vars
-----------------------------------------------------------------------------
(* Properties.                                                             *)

\* A tab without the mark of unsaved edits shows what it last loaded, or what
\* its last save wrote, whatever was typed or undone while the answer came.
CleanIsSaved == ~Dirty => tab.doc.text = tab.basis

\* What was typed is taken from the tab, unless by the researcher's own undo or
\* "Load disk version", only after it was on disk.
TypedIsKept ==
  [][\A f \in Fetches :
       fetch[f].step = "read" /\ ~fetch[f].discard /\ fetch'[f].step = "idle" /\ tab'.doc # tab.doc
         => tab.doc.text \in written]_vars

\* "A file that changed on disk meanwhile is not overwritten" (app.js autosave):
\* a save that is not forced replaces a text the tab has shown.  The code does
\* not keep it: a file's time is read after its text.
UnseenIsSpared ==
  [][Head1("checked") /\ saves'[1].step = "written" /\ ~saves[1].force => disk.text \in seen]_vars
=============================================================================

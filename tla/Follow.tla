------------------------------- MODULE Follow -------------------------------
(***************************************************************************)
(* The page follows a turn of the agent panel (app.js followTurn): the turn's *)
(* thread appends events (backends.py Job), the build its compile tool asked   *)
(* for adds one from another thread (agent.py built), and the page asks, again  *)
(* and again, for the events after those it has drawn.  A turn so old that the studio has    *)
(* dropped it, which only ends the following, is left out.                       *)
(***************************************************************************)
EXTENDS Naturals, Sequences, SequencesExt

CONSTANTS
  MaxEvents,   \* a bound on the events of the turn's own thread
  MaxBuilds    \* a bound on the builds its tool asks for

VARIABLES
  events,   \* the events of the turn
  done,     \* the turn is done
  builds,   \* builds that have ended: "seen" while the turn is not yet done, or "told"
  request,  \* the request the page waits on: its step and what it was answered
  after,    \* the number of events asked beyond
  drawn,    \* what the page has drawn
  following \* the page still follows the turn

vars == <<events, done, builds, request, after, drawn, following>>

NoRequest == [step |-> "none", events |-> <<>>, done |-> FALSE]

\* Job.emit
Emit(event) == events' = Append(events, event)

Says ==
  /\ ~done /\ Len(SelectSeq(events, LAMBDA e : e = "text")) < MaxEvents
  /\ ~Contains(events, "done")
  /\ Emit("text")
  /\ UNCHANGED <<done, builds, request, after, drawn, following>>

\* The last event of the turn's thread, and only then is the turn done.
SaysDone ==
  /\ ~Contains(events, "done")
  /\ Emit("done")
  /\ UNCHANGED <<done, builds, request, after, drawn, following>>

IsDone ==
  /\ Contains(events, "done") /\ ~done
  /\ done' = TRUE
  /\ UNCHANGED <<events, builds, request, after, drawn, following>>

\* A build ends: its thread sees a turn that is not done, and tells of it after.
BuildEnds ==
  /\ ~done /\ Len(builds) < MaxBuilds
  /\ builds' = Append(builds, "seen")
  /\ UNCHANGED <<events, done, request, after, drawn, following>>

Built ==
  /\ \E k \in DOMAIN builds : builds[k] = "seen" /\ builds' = [builds EXCEPT ![k] = "told"]
  /\ Emit("build")
  /\ UNCHANGED <<done, request, after, drawn, following>>

Asks ==
  /\ following /\ request.step = "none"
  /\ request' = [NoRequest EXCEPT !.step = "asked"]
  /\ UNCHANGED <<events, done, builds, after, drawn, following>>

\* Job.wait_events: at once, under the job's condition, or after 20 seconds.
Answered ==
  /\ request.step = "asked"
  /\ request' = [step |-> "answered", events |-> SubSeq(events, after + 1, Len(events)), done |-> done]
  /\ UNCHANGED <<events, done, builds, after, drawn, following>>

\* The answer is lost: the page asks again a second later.
Lost ==
  /\ request.step = "answered" /\ request' = NoRequest
  /\ UNCHANGED <<events, done, builds, after, drawn, following>>

AllThereAre(answer) == Len(events)
Beyond(answer) == after + Len(answer)

Draws ==
  /\ request.step = "answered"
  /\ drawn' = drawn \o request.events
  /\ after' = Beyond(request.events) /\ following' = ~request.done
  /\ request' = NoRequest
  /\ UNCHANGED <<events, done, builds>>

Init ==
  /\ events = <<>> /\ done = FALSE /\ builds = <<>> /\ request = NoRequest
  /\ after = 0 /\ drawn = <<>> /\ following = TRUE

Next == Says \/ SaysDone \/ IsDone \/ BuildEnds \/ Built \/ Asks \/ Answered \/ Lost \/ Draws

Spec == Init /\ [][Next]_vars
-----------------------------------------------------------------------------
(* Properties.                                                             *)

\* Whenever the page draws, what it has drawn is every event so far, once and in
\* order, answers lost or not, and it stops following a turn that is done only with its
\* last event drawn.  A build that is told of after the turn was found done is not shown.
FollowedWhole ==
  [][<<drawn, following>>' # <<drawn, following>> =>
       IsPrefix(drawn', events) /\ (~following' => Contains(drawn', "done"))]_vars
=============================================================================

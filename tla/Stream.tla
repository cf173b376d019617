-------------------------------- MODULE Stream --------------------------------
(***************************************************************************)
(* What the page draws of a Claude Code turn (backend_claude.py handle, app.js  *)
(* followTurn).  The program says its output as lines, most of it twice: in        *)
(* fragments while the model writes it, then whole; a sub-agent's lines come        *)
(* between.  Each line becomes events, and the page draws them a batch at a time.    *)
(* What the program says is modelled from how the code reads it: a turn is streamed     *)
(* or it is not, a streamed message begins with message_start, and each block is          *)
(* said whole before the next begins.                                                      *)
(***************************************************************************)
EXTENDS Naturals, Sequences, SequencesExt

CONSTANTS
  Calls,       \* the tool calls of a turn
  MaxPieces,   \* a bound on the pieces of text
  MaxMessages, \* a bound on the messages, and each thinks once at most
  MaxBatch     \* a bound on the events of a batch

VARIABLES
  partial,   \* the turn is streamed
  open,      \* the block the program is saying, and what of it has been said
  name,      \* each call's tool, once it is called
  said,      \* what the program has said, in order
  count,     \* pieces and messages so far
  queue,     \* events the page has not drawn
  page       \* the page: the log it draws and what it keeps beside it

vars == <<partial, open, name, said, count, queue, page>>

\* A file tool, a search that loads the compile tool, and another search.
Tools == {"Edit", "loads compile", "ToolSearch"}
Uncalled == "uncalled"

Piece(k) == [is |-> "text", of |-> k]
Thought == [is |-> "thinking", of |-> "none"]
Call(c) == [is |-> "tool", of |-> c, result |-> "none"]
Nothing == [is |-> "none", of |-> <<>>]
-----------------------------------------------------------------------------
(* What a line becomes.                                                    *)

Searches(c) == name[c] \in {"loads compile", "ToolSearch"}
Loads(c) == name[c] = "loads compile"

\* Lines of a sub-agent are its own.
Handle(line) ==
  IF line.sub THEN <<>>
  ELSE CASE line.is \in {"message_start", "thinking_start", "delta", "tool_result"} -> <<line>>
    [] line.is = "tool_start" -> IF Searches(line.of) THEN <<>> ELSE <<line>>
    [] line.is = "text" -> <<line>>
    [] line.is = "tool" -> IF Loads(line.of) THEN <<>> ELSE <<line>>

Line(what, of) == [is |-> what, of |-> of, sub |-> FALSE]
Says(line) == Len(queue) < MaxBatch /\ queue' = queue \o Handle(line) /\ UNCHANGED <<partial, page>>
-----------------------------------------------------------------------------
(* The page.                                                               *)

NoBox == 0
Box(what, of) == [is |-> what, of |-> of, result |-> "none"]

\* The text so far goes into its box; a batch of fragments is drawn once.
Flush(g) == IF g.cur = NoBox THEN g ELSE [g EXCEPT !.log[g.cur].of = g.buf]
Adds(g, box) == [g EXCEPT !.log = Append(@, box)]
Writes(g) == [Adds(g, Box("text", <<>>)) EXCEPT !.cur = Len(g.log) + 1, !.buf = <<>>]

BoxOf(g, c) == {i \in DOMAIN g.log : g.log[i].is = "tool" /\ g.log[i].of = c}

Drawn(g, e) ==
  CASE e.is = "thinking_start" ->
         LET h == [g EXCEPT !.cur = NoBox] IN
         IF g.thinks THEN h ELSE [Adds(h, Box("thinking", "none")) EXCEPT !.thinks = TRUE]
    [] e.is = "message_start" -> [g EXCEPT !.cur = NoBox, !.buf = <<>>, !.streamed = FALSE]
    [] e.is = "delta" ->
         LET h == IF g.cur = NoBox THEN Writes(g) ELSE g IN [h EXCEPT !.buf = Append(@, e.of), !.streamed = TRUE]
    [] e.is = "text" ->
         IF g.streamed THEN g ELSE [Flush([Writes(g) EXCEPT !.buf = e.of]) EXCEPT !.cur = NoBox]
    [] e.is = "tool_start" -> [Adds(g, Box("tool", e.of)) EXCEPT !.cur = NoBox]
    [] e.is = "tool" ->
         LET h == [g EXCEPT !.cur = NoBox] IN IF BoxOf(g, e.of) = {} THEN Adds(h, Box("tool", e.of)) ELSE h
    [] e.is = "tool_result" ->
         [g EXCEPT !.log = [i \in DOMAIN @ |-> IF i \in BoxOf(g, e.of) THEN [@[i] EXCEPT !.result = "given"] ELSE @[i]]]

\* Anything but a fragment has the text before it drawn first; anything but thinking
\* ends the thinking.
Step(g, e) ==
  LET h == IF e.is # "delta" /\ g.pending THEN [Flush(g) EXCEPT !.pending = FALSE] ELSE g
      k == IF e.is # "thinking_start" THEN [h EXCEPT !.thinks = FALSE] ELSE h
  IN [Drawn(k, e) EXCEPT !.pending = IF e.is = "delta" THEN TRUE ELSE @]

DrawsBatch ==
  /\ queue # <<>> /\ queue' = <<>>
  /\ page' = LET g == FoldLeft(Step, page, queue) IN
             IF g.pending THEN [Flush(g) EXCEPT !.pending = FALSE] ELSE g
  /\ UNCHANGED <<partial, open, name, said, count>>
-----------------------------------------------------------------------------
(* What Claude Code says.                                                  *)

Message ==
  /\ open = Nothing /\ count.messages < MaxMessages
  /\ count' = [count EXCEPT !.messages = @ + 1]
  /\ IF partial THEN Says(Line("message_start", "none")) ELSE UNCHANGED <<partial, queue, page>>
  /\ UNCHANGED <<open, name, said>>

Thinks ==
  /\ partial /\ count.messages > 0 /\ open = Nothing
  /\ Len(SelectSeq(said, LAMBDA x : x.is = "thinking")) < count.messages
  /\ said # <<>> => Last(said).is # "thinking"
  /\ said' = Append(said, Thought)
  /\ Says(Line("thinking_start", "none"))
  /\ UNCHANGED <<open, name, count>>

\* A fragment of the text, or, of a turn not streamed, nothing until it is whole.
Fragment ==
  /\ count.messages > 0 /\ open.is \in {"none", "text"} /\ count.pieces < MaxPieces
  /\ count' = [count EXCEPT !.pieces = @ + 1]
  /\ open' = [is |-> "text", of |-> Append(open.of, count.pieces + 1)]
  /\ said' = Append(said, Piece(count.pieces + 1))
  /\ IF partial THEN Says(Line("delta", count.pieces + 1)) ELSE UNCHANGED <<partial, queue, page>>
  /\ UNCHANGED name
TextWhole ==
  /\ open.is = "text" /\ open' = Nothing
  /\ Says(Line("text", open.of))
  /\ UNCHANGED <<name, said, count>>

\* A call is shown when it starts, or only when whole: a search, or a turn not streamed.
CallStarts(c) ==
  /\ count.messages > 0 /\ open = Nothing /\ name[c] = Uncalled
  /\ \E tool \in Tools : name' = [name EXCEPT ![c] = tool]
  /\ open' = [is |-> "tool", of |-> c]
  /\ said' = IF name'[c] = "loads compile" THEN said ELSE Append(said, Call(c))
  /\ Len(queue) < MaxBatch
  /\ queue' = IF partial /\ name'[c] = "Edit" THEN Append(queue, Line("tool_start", c)) ELSE queue
  /\ UNCHANGED <<partial, count, page>>
CallWhole ==
  /\ open.is = "tool" /\ open' = Nothing
  /\ Says(Line("tool", open.of))
  /\ UNCHANGED <<name, said, count>>
Result(c) ==
  /\ open = Nothing /\ name[c] # Uncalled
  /\ \A i \in DOMAIN said : said[i].is = "tool" /\ said[i].of = c => said[i].result = "none"
  /\ said' = [i \in DOMAIN said |-> IF said[i].is = "tool" /\ said[i].of = c
                                    THEN [said[i] EXCEPT !.result = "given"] ELSE said[i]]
  /\ Says(Line("tool_result", c))
  /\ UNCHANGED <<open, name, count>>

\* What a sub-agent writes, calls and is answered.
SubAgent ==
  /\ \E c \in Calls : name[c] # Uncalled
  /\ \E what \in {"message_start", "delta", "text", "tool_result"} :
       Says([Line(what, IF what = "tool_result" THEN CHOOSE c \in Calls : TRUE ELSE <<>>) EXCEPT !.sub = TRUE])
  /\ UNCHANGED <<open, name, said, count>>
-----------------------------------------------------------------------------
Init ==
  /\ partial \in BOOLEAN /\ open = Nothing /\ name = [c \in Calls |-> Uncalled] /\ said = <<>>
  /\ count = [pieces |-> 0, messages |-> 0] /\ queue = <<>>
  /\ page = [cur |-> NoBox, buf |-> <<>>, streamed |-> FALSE, pending |-> FALSE, thinks |-> FALSE, log |-> <<>>]

Next ==
  \/ Message \/ Thinks \/ Fragment \/ TextWhole \/ CallWhole \/ SubAgent \/ DrawsBatch
  \/ \E c \in Calls : CallStarts(c) \/ Result(c)

Spec == Init /\ [][Next]_vars
-----------------------------------------------------------------------------
TypeOK ==
  /\ partial \in BOOLEAN /\ open.is \in {"none", "text", "tool"}
  /\ page.cur \in 0..Len(page.log) /\ page.streamed \in BOOLEAN

\* The log as the pieces, thoughts and calls in it.
Shown ==
  LET of(box) == CASE box.is = "text" -> [k \in DOMAIN box.of |-> Piece(box.of[k])]
                   [] box.is = "thinking" -> <<Thought>>
                   [] box.is = "tool" -> <<[Call(box.of) EXCEPT !.result = box.result]>>
  IN FlattenSeq([i \in DOMAIN page.log |-> of(page.log[i])])

\* Once the page has drawn what there is, the log is what the program has said, each
\* piece and each call once and in order, streamed or not, and nothing of a sub-agent's;
\* what is said of a block only when it is whole comes with it (handle, followTurn).
DrawnAsSaid ==
  queue = <<>> =>
    IF open = Nothing \/ (partial /\ open.is = "text") THEN Shown = said
    ELSE IsPrefix(Shown, said)
=============================================================================

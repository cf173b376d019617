------------------------------ MODULE LiveInput ------------------------------
(***************************************************************************)
(* The text a tool call writes, shown while its JSON still streams in           *)
(* (backend_claude.py LiveInput): each fragment is decoded where the last one      *)
(* ended, and an escape cut off by the end of a fragment waits for the next.  A     *)
(* unit stands for one character of the JSON, or for the four digits of a \u          *)
(* escape, which the code reads at once; the file's path is one unit.                  *)
(***************************************************************************)
EXTENDS Naturals, Sequences, SequencesExt

CONSTANT MaxItems    \* a bound on the characters of the text

VARIABLES
  items,   \* the characters of the field
  json,    \* the tool's input: the file's path and the field, in either order
  fed,     \* how much of it has arrived
  pos,     \* where the next character of the value is (0: the field hasn't begun)
  done,    \* the field has ended
  path,    \* how often the path was told
  out      \* what was shown

vars == <<items, json, fed, pos, done, path, out>>

\* A character as the model writes it: as itself, escaped, or as a \u escape of a
\* character, of half a surrogate pair.
Items == {"plain", "u", "backslash", "newline", "bmp", "high", "low"}
Units(item) ==
  CASE item \in {"plain", "u"} -> <<item>>
    [] item = "backslash" -> <<"slash", "slash">>
    [] item = "newline" -> <<"slash", "n">>
    [] OTHER -> <<"slash", "u", item>>
Written(its) == FlattenSeq([k \in DOMAIN its |-> Units(its[k])])

Field(its) == <<"key", "opens">> \o Written(its) \o <<"quote">>
Input(its, first) ==
  IF first THEN Field(its) \o <<"path", "brace">> ELSE <<"path">> \o Field(its) \o <<"brace">>

\* How many characters a piece of the JSON is.
Wide(units) ==
  LET w(u) == CASE u = "path" -> 12 [] u \in {"bmp", "high", "low"} -> 4 [] OTHER -> 1
  IN FoldLeft(LAMBDA n, u : n + w(u), 0, units)

\* What an escaped character stands for, and what half a pair alone is shown as.
Escaped(unit) == CASE unit = "n" -> "newline" [] unit = "slash" -> "backslash" [] OTHER -> unit
Alone == "replacement"
-----------------------------------------------------------------------------
Arrived(n) == SubSeq(json, 1, n)

\* The key is found once all of it is there.
Opens(buf) == IF \E i \in 1..(Len(buf) - 1) : buf[i] = "key" /\ buf[i + 1] = "opens"
              THEN 2 + CHOOSE i \in DOMAIN buf : buf[i] = "key" ELSE 0

\* Waits for the other half while it may still come: for the six characters after.
OnlyCutInside(buf, i) == Wide(SubSeq(buf, i, Len(buf))) < 6
CutOff(buf, i) == Wide(SubSeq(buf, i, Len(buf))) < 12

\* The characters decoded from a place on, and where decoding stopped.
Decoded(buf, from) ==
  LET then(chars, rest) == [rest EXCEPT !.out = chars \o @]
      stop(i, ended) == [out |-> <<>>, at |-> i, ended |-> ended]
      d[i \in 1..(Len(buf) + 1)] ==
        IF i > Len(buf) THEN stop(i, FALSE)
        ELSE IF buf[i] = "quote" THEN stop(i, TRUE)
        ELSE IF buf[i] # "slash" THEN then(<<buf[i]>>, d[i + 1])
        ELSE IF i + 1 > Len(buf) THEN stop(i, FALSE)
        ELSE IF buf[i + 1] # "u" THEN then(<<Escaped(buf[i + 1])>>, d[i + 2])
        ELSE IF i + 2 > Len(buf) THEN stop(i, FALSE)
        ELSE IF buf[i + 2] = "bmp" THEN then(<<"bmp">>, d[i + 3])
        ELSE IF buf[i + 2] = "low" THEN then(<<Alone>>, d[i + 3])
        ELSE IF CutOff(buf, i) THEN stop(i, FALSE)
        ELSE IF IsPrefix(<<"slash", "u", "low">>, SubSeq(buf, i + 3, Len(buf))) THEN then(<<"pair">>, d[i + 6])
        ELSE then(<<Alone>>, d[i + 3])
  IN d[from]

\* LiveInput.feed, and the path told when it is first read (handle).
Feed(n) ==
  LET buf == Arrived(fed + n)
      start == IF pos # 0 THEN pos ELSE Opens(buf)
      read == Decoded(buf, start)
  IN /\ fed' = fed + n
     /\ path' = IF ~Contains(Arrived(fed), "path") /\ Contains(buf, "path") THEN path + 1 ELSE path
     /\ IF done \/ start = 0 THEN UNCHANGED <<pos, done, out>>
        ELSE pos' = read.at /\ done' = read.ended /\ out' = out \o read.out
     /\ UNCHANGED <<items, json>>

Init ==
  /\ items \in SeqOf(Items, MaxItems)
  /\ json \in {Input(items, first) : first \in BOOLEAN}
  /\ fed = 0 /\ pos = 0 /\ done = FALSE /\ path = 0 /\ out = <<>>

Next == \E n \in 1..(Len(json) - fed) : Feed(n)

Spec == Init /\ [][Next]_vars
-----------------------------------------------------------------------------
\* What the text is, as its characters.
Means ==
  LET m[k \in 1..(Len(items) + 2)] ==
        IF k > Len(items) THEN <<>>
        ELSE IF items[k] = "high" /\ k < Len(items) /\ items[k + 1] = "low" THEN <<"pair">> \o m[k + 2]
        ELSE <<IF items[k] \in {"high", "low"} THEN Alone ELSE items[k]>> \o m[k + 1]
  IN m[1]

\* Half a pair with fewer than six characters of the JSON after it: waited for in vain.
HalfAtEnd ==
  /\ Last(json) = "brace" /\ json[Len(json) - 1] = "quote"
  /\ \E k \in DOMAIN items :
       /\ items[k] = "high" /\ (k < Len(items) => items[k + 1] # "low")
       /\ Wide(Written(SubSeq(items, k + 1, Len(items)))) + 2 < 6

TypeOK ==
  /\ fed \in 0..Len(json) /\ pos \in 0..(Len(json) + 1) /\ path \in 0..1 /\ done \in BOOLEAN

\* Wherever the fragments are cut, what is shown is the text so far and never anything
\* the text does not begin with, it is the whole text once the field has ended, and the
\* path is told once; only half a surrogate pair near the very end is waited for in vain.
ShownAsWritten ==
  /\ IsPrefix(out, Means)
  /\ done => out = Means
  /\ fed = Len(json) => path = 1 /\ (done \/ HalfAtEnd)
=============================================================================

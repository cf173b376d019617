----------------------------- MODULE NodeCheck ------------------------------
(***************************************************************************)
(* What is settled about a node's working proof before and as it is judged:    *)
(* the mechanical checks (node_check.py), which gate the Verifier, and the       *)
(* verdict's own re-check of the Uses of dependencies (record_progress), off       *)
(* the bytes its digest is of, with one line on each application.  proof.tex is    *)
(* the sequence of what the checks look for, comments stripped; the files it          *)
(* inputs are named, may be links, and may not be readable.                           *)
(***************************************************************************)
EXTENDS Naturals, Sequences, FiniteSets, SequencesExt

CONSTANTS
  Deps,            \* the nodes a proof may rest on
  Stranger,        \* an id an entry may name that is none of them
  Files,           \* the other files of the node folder
  MaxInputFiles,   \* MAX_INPUT_FILES: how many files the checks read
  MaxEdits         \* a bound

VARIABLES
  doc,         \* proof.tex: the marks of it, in order
  states,      \* the statement proof.tex's theorem environment gives
  statement,   \* the node's, as the map has it
  deps,        \* the node's dependencies
  inputs,      \* what proof.tex and each file inputs
  leads,       \* where a file's path leads: itself, or another when it is a link
  holding,     \* the files that hold an entry
  unreadable,  \* the files that can't be read
  ideas,       \* key-ideas.md
  verdict,     \* the last verdict recorded
  edits

vars == <<doc, states, statement, deps, inputs, leads, holding, unreadable, ideas, verdict, edits>>
folder == <<doc, states, statement, deps, inputs, leads, holding, unreadable, ideas>>

Proof == "proof.tex"
Outside == "outside"
Statements == {"as first", "restated"}
Mark(what) == [is |-> what]
Entry(d, n, whole) == [is |-> "entry", of |-> d, uses |-> n, whole |-> whole]
Marks == {Mark("proof end"), Mark("heading"), Mark("section")}
           \cup {Entry(d, 1, whole) : d \in Deps \cup {Stranger}, whole \in BOOLEAN}
           \cup {Entry(d, 2, TRUE) : d \in Deps}

NoVerdict == [outcome |-> "none", lines |-> <<>>, deps |-> {}, expected |-> <<>>, digest |-> FALSE]

\* What write_working_proof writes: the statement, a proof, and the section's heading.
Scaffold == <<Mark("proof end"), Mark("heading")>>
-----------------------------------------------------------------------------
(* Comments.  A % opens one unless an odd number of backslashes precedes it.  *)

\* How many backslashes stand right before a character.
Slashes(line) ==
  LET n[i \in 1..(Len(line) + 1)] == IF i = 1 \/ line[i - 1] # "slash" THEN 0 ELSE n[i - 1] + 1 IN n
StripComment(line) ==
  LET opening == {i \in DOMAIN line : line[i] = "percent" /\ Slashes(line)[i] % 2 = 0}
  IN IF opening = {} THEN line ELSE SubSeq(line, 1, (CHOOSE i \in opening : \A j \in opening : i <= j) - 1)
-----------------------------------------------------------------------------
(* The Uses of dependencies.                                               *)

At(what) == {i \in DOMAIN doc : doc[i].is = what}
EntriesAt == At("entry")

\* In the section: between the one heading and the next section.
InSection(i) == \E h \in At("heading") : At("heading") = {h} /\ h < i /\ ~ \E s \in At("section") : h < s /\ s < i

Named == {doc[i].of : i \in EntriesAt}

\* An application's id: the dependency and its place in the entry.
Applications(i) == [k \in 1..doc[i].uses |-> <<doc[i].of, k>>]
ApplicationIds ==
  LET given == SelectSeq([i \in DOMAIN doc |-> i], LAMBDA i : i \in EntriesAt /\ InSection(i))
  IN FlattenSeq([j \in DOMAIN given |-> Applications(given[j])])

\* The section's structure and coverage; elsewhere says an input file holds an entry.
UsesFindings(D, elsewhere) ==
  IF D = {} /\ EntriesAt = {} /\ ~elsewhere THEN {}
  ELSE
    LET one == Cardinality(At("heading")) = 1
        late == \A h \in At("heading") : At("proof end") # {} /\ \A p \in At("proof end") : p < h
        stray == \E i \in EntriesAt : ~InSection(i)
    IN {c \in {"USES_SECTION"} : ~one \/ ~late \/ stray \/ elsewhere}
         \cup {c \in {"USES_MISSING"} : D \ Named # {} /\ (At("heading") # {} \/ EntriesAt # {})}
         \cup {c \in {"USES_DUPLICATE"} : \E i, j \in EntriesAt : i # j /\ doc[i].of = doc[j].of /\ doc[i].of \in D}
         \cup {c \in {"USES_NOT_A_DEPENDENCY"} : Named \ D # {}}
         \cup {c \in {"USES_FIELDS"} : \E i \in EntriesAt : ~doc[i].whole}
-----------------------------------------------------------------------------
(* What the checks read.                                                   *)

\* Where an input leads: a link is followed, as TeX follows it.
Leads(target) == IF target \in Files THEN leads[target] ELSE target

\* proof.tex and what it inputs, each once, no more than the bound, files inside alone.
RECURSIVE Sources(_, _)
Sources(queue, got) ==
  IF queue = <<>> \/ Cardinality(got) >= MaxInputFiles THEN got
  ELSE LET f == Head(queue) IN
       IF f \in got \/ f \in unreadable THEN Sources(Tail(queue), got)
       ELSE Sources(Tail(queue) \o SetToSeq({Leads(t) : t \in inputs[f]} \cap Files), got \cup {f})
Read == Sources(<<Proof>>, {})

InputFindings ==
  {c \in {"INPUT_OUTSIDE"} : \E f \in Read : \E t \in inputs[f] : Leads(t) = Outside}
    \cup {c \in {"INPUT_UNREADABLE"} : Cardinality(Read) < MaxInputFiles /\
            (Proof \in unreadable \/ \E f \in Read : \E t \in inputs[f] : Leads(t) \in unreadable)}

IdeasFindings == {c \in {"KEY_IDEAS_MISSING"} : ideas = "none"} \cup {c \in {"KEY_IDEAS_EMPTY"} : ideas = "empty"}

\* A file proof.tex can't be read has nothing in it, for the checks.
CheckErrors ==
  InputFindings \cup IdeasFindings
    \cup {c \in {"STATEMENT_MISMATCH"} : Proof \notin Read \/ states # statement}
    \cup (IF Proof \in Read THEN UsesFindings(deps, (Read \ {Proof}) \cap holding # {})
          ELSE {c \in {"USES_SECTION"} : deps # {}})
-----------------------------------------------------------------------------
(* A verdict.                                                              *)

\* The folder as the digest reads it: whole, or not at all.
WorkingRead == unreadable = {} /\ \A f \in Files : leads[f] = f

UsesOf == UsesFindings(deps, FALSE)

\* (A plausible error: an application may be reported on twice.)
LinesCover(lines, expected, raised) ==
  /\ {lines[i].on : i \in DOMAIN lines} = ToSet(expected)
  /\ \A i \in DOMAIN lines : lines[i].objection <= raised

\* One line on each application, and none on another; objections are the verdict's.
LinesAnswer(lines, expected, raised) ==
  /\ \A i \in DOMAIN expected : \E j \in DOMAIN lines : lines[j].on = expected[i]
  /\ \A i, j \in DOMAIN lines : lines[i].on = lines[j].on => i = j
  /\ \A i \in DOMAIN lines : \E j \in DOMAIN expected : expected[j] = lines[i].on
  /\ \A i \in DOMAIN lines : lines[i].objection <= raised

\* The reports a Verifier may give; the objection 0 stands for "checked".
Reports ==
  LET on == (Deps \X {1}) \cup ({CHOOSE d \in Deps : TRUE} \X {2})
  IN UNION {[1..n -> [on : on, objection : {0, 1}]] : n \in 0..2}

\* A passing one needs the section complete and objects to nothing.  One on a folder
\* that can't be read, or that fails, has lines nothing reads again.
Passes ==
  /\ verdict = NoVerdict
  /\ IF WorkingRead
     THEN /\ UsesOf = {}
          /\ \E lines \in Reports :
               /\ \A i \in DOMAIN lines : lines[i].objection = 0
               /\ LinesAnswer(lines, ApplicationIds, 0)
               /\ verdict' = [outcome |-> "passed", lines |-> lines, deps |-> deps, expected |-> ApplicationIds,
                               digest |-> TRUE]
     ELSE verdict' = [NoVerdict EXCEPT !.outcome = "passed"]
  /\ UNCHANGED <<folder, edits>>
Fails ==
  /\ verdict = NoVerdict
  /\ WorkingRead => \E lines \in Reports : LinesAnswer(lines, ApplicationIds, 1)
  /\ verdict' = [NoVerdict EXCEPT !.outcome = "failed"]
  /\ UNCHANGED <<folder, edits>>

\* Whether a verdict reported on the uses of exactly the dependencies there are now.
CoversDependencies(v, D) == {v.lines[i].on[1] : i \in DOMAIN v.lines} = D
-----------------------------------------------------------------------------
(* The folder and the node, edited.                                        *)

Edits == edits < MaxEdits /\ edits' = edits + 1 /\ UNCHANGED verdict

Write(m, at) ==
  /\ Edits /\ doc' = InsertAt(doc, at, m)
  /\ UNCHANGED <<states, statement, deps, inputs, leads, holding, unreadable, ideas>>
Erase(at) ==
  /\ Edits /\ doc' = RemoveAt(doc, at)
  /\ UNCHANGED <<states, statement, deps, inputs, leads, holding, unreadable, ideas>>
Restate ==
  /\ Edits /\ \E s \in Statements : statement' = s /\ s # statement
  /\ UNCHANGED <<doc, states, deps, inputs, leads, holding, unreadable, ideas>>
StatesAnew ==
  /\ Edits /\ \E s \in Statements : states' = s /\ s # states
  /\ UNCHANGED <<doc, statement, deps, inputs, leads, holding, unreadable, ideas>>
ChangeDependency(d) ==
  /\ Edits /\ deps' = IF d \in deps THEN deps \ {d} ELSE deps \cup {d}
  /\ UNCHANGED <<doc, states, statement, inputs, leads, holding, unreadable, ideas>>
AddInput(f, target) ==
  /\ Edits /\ target \notin inputs[f] /\ inputs' = [inputs EXCEPT ![f] = @ \cup {target}]
  /\ UNCHANGED <<doc, states, statement, deps, leads, holding, unreadable, ideas>>
Link(f, to) ==
  /\ Edits /\ leads[f] = f /\ leads' = [leads EXCEPT ![f] = to]
  /\ UNCHANGED <<doc, states, statement, deps, inputs, holding, unreadable, ideas>>
WriteEntry(f) ==
  /\ Edits /\ f \notin holding /\ holding' = holding \cup {f}
  /\ UNCHANGED <<doc, states, statement, deps, inputs, leads, unreadable, ideas>>
Unread(f) ==
  /\ Edits /\ f \notin unreadable /\ unreadable' = unreadable \cup {f}
  /\ UNCHANGED <<doc, states, statement, deps, inputs, leads, holding, ideas>>
FillIdeas ==
  /\ Edits /\ \E i \in {"none", "empty", "filled"} : ideas' = i /\ i # ideas
  /\ UNCHANGED <<doc, states, statement, deps, inputs, leads, holding, unreadable>>
-----------------------------------------------------------------------------
Init ==
  /\ doc = Scaffold /\ states = "as first" /\ statement = "as first" /\ deps \in SUBSET Deps
  /\ inputs = [f \in {Proof} \cup Files |-> {}] /\ leads = [f \in Files |-> f]
  /\ holding = {} /\ unreadable = {} /\ ideas = "filled" /\ verdict = NoVerdict /\ edits = 0

Next ==
  \/ \E m \in Marks : \E at \in 1..(Len(doc) + 1) : Write(m, at)
  \/ \E at \in DOMAIN doc : Erase(at)
  \/ Restate \/ StatesAnew \/ FillIdeas
  \/ \E d \in Deps : ChangeDependency(d)
  \/ \E f \in {Proof} \cup Files : (\E t \in Files \cup {Outside} : AddInput(f, t)) \/ Unread(f)
  \/ \E f \in Files : WriteEntry(f) \/ \E to \in (Files \ {f}) \cup {Outside} : Link(f, to)
  \/ Passes \/ Fails

Spec == Init /\ [][Next]_vars
-----------------------------------------------------------------------------
(* Properties.                                                             *)

TypeOK ==
  /\ \A i \in DOMAIN doc : doc[i] \in Marks
  /\ deps \subseteq Deps /\ inputs \in [{Proof} \cup Files -> SUBSET (Files \cup {Outside})]
  /\ leads \in [Files -> Files \cup {Outside}] /\ states \in Statements /\ statement \in Statements

\* A passing verdict on a folder that was read whole answers for every application
\* of the section, each once, and the section for every dependency; so it covers the
\* node's dependencies exactly while they are what they were (record_progress,
\* covers_dependencies), which the gate relies on.
VerdictAnswersAll ==
  LET v == verdict IN
  v.outcome = "passed" /\ v.digest =>
    /\ IsInjective(v.expected) /\ Len(v.lines) = Len(v.expected)
    /\ {v.expected[i][1] : i \in DOMAIN v.expected} = v.deps
    /\ CoversDependencies(v, deps) <=> deps = v.deps

\* What the check passed, a verdict on the same folder never refuses ("so the verdict
\* never refuses what the check passed", uses_of); and each line the Verifier owes is on an
\* application of its own.
CheckedIsNotRefused == CheckErrors = {} => UsesOf = {} /\ IsInjective(ApplicationIds)

\* The checks never read outside the node folder, and while proof.tex reaches no more
\* files than the bound they read every one of them, through inputs and links: a reach
\* outside, an unreadable file or an entry out of place in any is a finding (_sources).
Reached ==
  LET one(S) == S \cup {Leads(t) : t \in UNION {inputs[f] : f \in (S \cap ({Proof} \cup Files)) \ unreadable}}
      far[n \in Nat] == IF n = 0 THEN {Proof} ELSE one(far[n - 1])
  IN far[Cardinality(Files) + 1]
NothingUnseen ==
  /\ Read \subseteq {Proof} \cup Files
  /\ Cardinality(Reached) <= MaxInputFiles =>
       /\ Read = (Reached \ {Outside}) \ unreadable
       /\ Outside \in Reached => "INPUT_OUTSIDE" \in CheckErrors
       /\ Reached \cap unreadable # {} => CheckErrors # {}
       /\ (Reached \cap Files) \cap holding # {} /\ unreadable = {} => "USES_SECTION" \in CheckErrors

\* A comment is cut at the first % that no backslash escapes, and what is cut
\* holds no mark the checks count; the rest is as written (strip_comments).
CommentsGone ==
  edits = 0 =>
    \A n \in 0..4 : \A line \in [1..n -> {"percent", "slash", "text"}] :
      LET kept == StripComment(line)
          escaped(i) == \E k \in 1..(i - 1) : line[k] = "slash" /\ (k = 1 \/ line[k - 1] # "slash")
                          /\ (\A j \in k..(i - 1) : line[j] = "slash") /\ (i - k) % 2 = 1
      IN /\ kept = SubSeq(line, 1, Len(kept))
         /\ \A i \in DOMAIN kept : kept[i] = "percent" => escaped(i)
         /\ Len(kept) < Len(line) => line[Len(kept) + 1] = "percent" /\ ~escaped(Len(kept) + 1)
=============================================================================

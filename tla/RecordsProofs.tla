--------------------------- MODULE RecordsProofs ----------------------------
(***************************************************************************)
(* What MCRecords' run checks of its components, proved for every number of    *)
(* nodes, texts, processes, writes and versions.  Each component has an         *)
(* inductive invariant of its own, and a lemma for its first state and one for   *)
(* its steps:                                                                   *)
(*   WordedInv     the history reads as it was written, of nodes that are there.    *)
(*   CollabInv     what a process has in hand covers the records that count.       *)
(*   PubInv        an export under way shows no more than stood since it began.     *)
(*   PinsInv       a pin was taken on what some snapshot of its target said.         *)
(*   VaultInv      what a request has in hand, and what a version's row says, is      *)
(*                 what was read; a folder without a row is its writer's alone.         *)
(*   AutomatedInv  a run, recorded or in hand, did the first actions of its plan.       *)
(*   PursueInv     a turn is on its Pursue's record, or its host owns up to it.          *)
(* At the end they are put together.                                                    *)
(***************************************************************************)
EXTENDS MCRecords, Sequences, TLAPS, FiniteSetTheorems

-----------------------------------------------------------------------------
(* Definitions: what the history is read to have fixed is what each decision *)
(* relied on as it was made, and all of that is there.                      *)

Definition == [text : Texts, by : {"researcher", "agent"}]
Statement == [text : Texts, names : SUBSET Defs, by : {"researcher", "agent"}, deps : SUBSET Nodes]
Row == [what : {"snapshot", "decision", "seal"}, node : Nodes, on : SUBSET Nodes, relied : SUBSET Nodes]

WordedTyped ==
    /\ def \in [Defs -> {None} \cup Definition]
    /\ node \in [Nodes -> {None} \cup Statement]
    /\ decided \in Seq(Row)

\* The rows of the history.
Made == 1 .. Len(decided)

(* What a node rests on and what a row of the history names was there when  *)
(* it was written, and nothing is taken away.                               *)
CitesWhatIs ==
    /\ \A n \in Worded!Existing : node[n].deps \subseteq Worded!Existing
    /\ \A i \in Made : /\ decided[i].node \in Worded!Existing
                       /\ decided[i].on \subseteq Worded!Existing
                       /\ decided[i].relied \subseteq Worded!Existing

(* A row is read, at any later time, as it was when it was written.         *)
IndexTells == \A i \in Made : Worded!ReliedOn(i) = decided[i].relied

(* A bundle about to be written.                                            *)
Bundle(b) ==
    /\ b.node \in Nodes /\ b.new \subseteq Defs
    /\ b.by \in {"researcher", "agent"} /\ \A d \in b.new : b.says[d] \in Texts
    /\ b.written \in Statement /\ b.written.deps = {}

PlansStand ==
    /\ plan = [i \in Importers |-> plan[i]]
    /\ \A i \in Importers : plan[i] # None => Bundle(plan[i])

WordedInv == WordedTyped /\ CitesWhatIs /\ IndexTells /\ PlansStand

LEMMA WordedInit == Worded!Init => WordedInv
BY DEF Worded!Init, WordedInv, WordedTyped, CitesWhatIs, IndexTells, PlansStand, Worded!Existing, Made

LEMMA WrittenInit == WrittenOut => WordedInv
<1> SUFFICES ASSUME WrittenOut PROVE WordedInv
    OBVIOUS
<1>1. FirstText \in Texts
    BY RecordsAssumption DEF FirstText
<1>2. PICK s : s = [text |-> FirstText, names |-> {}, by |-> "researcher", deps |-> {}]
    OBVIOUS
<1>3. s \in Statement /\ s.deps = {}
    BY <1>1, <1>2 DEF Statement
<1>4. node = [n \in Nodes |-> s]
    BY <1>2 DEF WrittenOut, Worded!Written
<1>5. WordedTyped
    BY <1>3, <1>4 DEF WordedTyped, WrittenOut
<1>6. CitesWhatIs /\ IndexTells /\ PlansStand
    BY <1>3, <1>4 DEF WrittenOut, CitesWhatIs, IndexTells, PlansStand, Worded!Existing, Made
<1> QED
    BY <1>5, <1>6 DEF WordedInv

LEMMA NoneIsNoText == None \notin Definition /\ None \notin Statement
BY RecordsAssumption DEF Definition, Statement

(* So what is refused as fixed is what some decision relied on.             *)
LEMMA FixedIsRelied == WordedInv => Worded!Fixed = Worded!ReliedText /\ Worded!ReliedText \subseteq Worded!Existing
BY DEF WordedInv, IndexTells, CitesWhatIs, Worded!Fixed, Worded!ReliedText, Made

(* A history nothing was added to reads as before.                          *)
LEMMA SameHistory ==
    ASSUME IndexTells, UNCHANGED decided
    PROVE  IndexTells' /\ Made' = Made
<1>1. ASSUME NEW i \in Made PROVE Worded!ReliedOn(i)' = Worded!ReliedOn(i)
    BY DEF Worded!ReliedOn, Worded!Cited, Worded!ByThen, Worded!SnapshotsOf
<1> QED
    BY <1>1 DEF IndexTells, Made

(* Nor does a row added change what those before it are read to rely on.    *)
LEMMA OldRowsStand ==
    ASSUME decided \in Seq(Row), NEW r \in Row, decided' = Append(decided, r), NEW i \in Made
    PROVE  Worded!ReliedOn(i)' = Worded!ReliedOn(i) /\ decided'[i] = decided[i] /\ i \in Made'
<1>1. /\ Len(decided) \in Nat /\ Len(decided') = Len(decided) + 1
      /\ \A j \in Made : decided'[j] = decided[j]
      /\ i \in 1 .. Len(decided) /\ i \in Made'
    BY DEF Made
<1>2. ASSUME NEW x \in Nodes
      PROVE  Worded!ByThen(x, i)' = Worded!ByThen(x, i)
    BY <1>1 DEF Worded!ByThen, Worded!SnapshotsOf, Made
<1>3. ASSUME NEW x \in Nodes
      PROVE  Worded!Cited(Worded!ByThen(x, i))' = Worded!Cited(Worded!ByThen(x, i))
    <2>1. Worded!ByThen(x, i) \subseteq Made
        BY DEF Worded!ByThen, Worded!SnapshotsOf, Made
    <2> QED
        BY <1>1, <1>2, <2>1 DEF Worded!Cited
<1>4. [x \in Nodes |-> IF x = decided[i].node THEN decided[i].on ELSE Worded!Cited(Worded!ByThen(x, i))]'
      = [x \in Nodes |-> IF x = decided[i].node THEN decided[i].on ELSE Worded!Cited(Worded!ByThen(x, i))]
    BY <1>1, <1>3 DEF Made
<1> QED
    BY <1>1, <1>4 DEF Worded!ReliedOn, Made

(* A decision just made is read to rely on what it was made on.             *)
LEMMA NewRowReads ==
    ASSUME decided \in Seq(Row), NEW r \in Row, decided' = Append(decided, r),
           NEW i, i = Len(decided) + 1
    PROVE  /\ decided'[i] = r /\ Made' = Made \cup {i}
           /\ r.what = "snapshot" => Worded!ReliedOn(i)' = {}
           /\ r.what = "seal" => Worded!ReliedOn(i)' = {r.node} \cup r.on
           /\ r.what = "decision" /\ r.on = Worded!Cited(Worded!SnapshotsOf(r.node)) =>
                Worded!ReliedOn(i)'
                = Worded!RestsOn([x \in Nodes |-> Worded!Cited(Worded!SnapshotsOf(x))], r.node)
<1>1. /\ Len(decided) \in Nat /\ Len(decided') = i
      /\ \A j \in Made : decided'[j] = decided[j]
      /\ decided'[i] = r /\ Made' = Made \cup {i}
    BY DEF Made
<1>2. r.what = "snapshot" => Worded!ReliedOn(i)' = {}
    BY <1>1 DEF Worded!ReliedOn
<1>3. r.what = "seal" => Worded!ReliedOn(i)' = {r.node} \cup r.on
    BY <1>1 DEF Worded!ReliedOn
<1>4. ASSUME r.what = "decision", r.on = Worded!Cited(Worded!SnapshotsOf(r.node))
      PROVE  Worded!ReliedOn(i)'
             = Worded!RestsOn([x \in Nodes |-> Worded!Cited(Worded!SnapshotsOf(x))], r.node)
    <2>1. ASSUME NEW x \in Nodes
          PROVE  Worded!ByThen(x, i)' = Worded!SnapshotsOf(x)
        BY <1>1, <1>4 DEF Worded!ByThen, Worded!SnapshotsOf, Made
    <2>2. ASSUME NEW x \in Nodes
          PROVE  Worded!Cited(Worded!ByThen(x, i))' = Worded!Cited(Worded!SnapshotsOf(x))
        <3> DEFINE taken == Worded!SnapshotsOf(x)
                   newest == {j \in taken : \A k \in taken : k <= j}
        <3>1. newest \subseteq Made
            BY DEF Worded!SnapshotsOf, Made
        <3>2. Worded!Cited(Worded!ByThen(x, i))' = UNION {decided'[j].on : j \in newest}
            BY <2>1 DEF Worded!Cited
        <3>3. {decided'[j].on : j \in newest} = {decided[j].on : j \in newest}
            BY <1>1, <3>1
        <3> QED
            BY <3>2, <3>3 DEF Worded!Cited
    <2>3. [x \in Nodes |-> IF x = decided[i].node THEN decided[i].on ELSE Worded!Cited(Worded!ByThen(x, i))]'
          = [x \in Nodes |-> Worded!Cited(Worded!SnapshotsOf(x))]
        BY <1>1, <1>4, <2>2
    <2> QED
        BY <1>1, <1>4, <2>3 DEF Worded!ReliedOn
<1> QED
    BY <1>1, <1>2, <1>3, <1>4

(* A row added that is read to rely on what it says, of nodes that are there.*)
LEMMA RowRecorded ==
    ASSUME WordedInv, NEW r \in Row, decided' = Append(decided, r), UNCHANGED <<def, node, plan>>,
           r.node \in Worded!Existing, r.on \subseteq Worded!Existing, r.relied \subseteq Worded!Existing,
           NEW i, i = Len(decided) + 1, Worded!ReliedOn(i)' = r.relied
    PROVE  WordedInv' /\ \A x \in Worded!Existing : Worded!SameText(x)
<1>1. decided \in Seq(Row) /\ Worded!Existing' = Worded!Existing
    BY DEF WordedInv, WordedTyped, Worded!Existing
<1>2. Made' = Made \cup {i} /\ decided'[i] = r
    BY <1>1, NewRowReads
<1>3. \A j \in Made : Worded!ReliedOn(j)' = Worded!ReliedOn(j) /\ decided'[j] = decided[j]
    BY <1>1, OldRowsStand
<1>4. WordedTyped'
    BY <1>1 DEF WordedInv, WordedTyped
<1>5. CitesWhatIs' /\ PlansStand'
    BY <1>1, <1>2, <1>3 DEF WordedInv, CitesWhatIs, PlansStand
<1>6. IndexTells'
    BY <1>2, <1>3 DEF WordedInv, IndexTells
<1>7. \A x \in Worded!Existing : Worded!SameText(x)
    BY DEF Worded!SameText
<1> QED
    BY <1>4, <1>5, <1>6, <1>7 DEF WordedInv

(* A definition written, changed or removed, the nodes as they are.         *)
LEMMA DefinitionChanges ==
    ASSUME WordedInv, NEW d \in Defs, NEW e \in {None} \cup Definition,
           def' = [def EXCEPT ![d] = e], UNCHANGED <<node, decided, plan>>
    PROVE  WordedInv'
<1>1. IndexTells' /\ Made' = Made
    BY SameHistory DEF WordedInv
<1> QED
    BY <1>1 DEF WordedInv, WordedTyped, CitesWhatIs, PlansStand, Worded!Existing

(* A node written or changed, with what it rests on there.                  *)
LEMMA NodeChanges ==
    ASSUME WordedInv, NEW n \in Nodes, NEW s \in Statement, s.deps \subseteq Worded!Existing,
           node' = [node EXCEPT ![n] = s], UNCHANGED <<plan, decided>>,
           def' \in [Defs -> {None} \cup Definition]
    PROVE  WordedInv'
<1>1. /\ \A m \in Nodes : node'[m] = IF m = n THEN s ELSE node[m]
      /\ node' \in [Nodes -> {None} \cup Statement]
    BY DEF WordedInv, WordedTyped
<1>2. Worded!Existing \subseteq Worded!Existing'
    BY <1>1, NoneIsNoText DEF Worded!Existing
<1>3. IndexTells' /\ Made' = Made
    BY SameHistory DEF WordedInv
<1>4. WordedTyped'
    BY <1>1 DEF WordedInv, WordedTyped
<1>5. CitesWhatIs'
    BY <1>1, <1>2, <1>3 DEF WordedInv, CitesWhatIs, Worded!Existing
<1>6. PlansStand'
    BY DEF WordedInv, PlansStand
<1> QED
    BY <1>3, <1>4, <1>5, <1>6 DEF WordedInv

(* A definition changed alone leaves what the nodes say that do not name it, *)
(* and a new one leaves what every node says.                               *)
LEMMA DefinitionStands ==
    ASSUME WordedInv, NEW d \in Defs, NEW e \in {None} \cup Definition,
           def' = [def EXCEPT ![d] = e], UNCHANGED node,
           NEW n \in Worded!Existing, d \in node[n].names => def[d] = None
    PROVE  Worded!SameText(n)
<1>1. \A x \in Defs : def'[x] = IF x = d THEN e ELSE def[x]
    BY DEF WordedInv, WordedTyped
<1>2. node[n].names \subseteq Defs
    BY DEF WordedInv, WordedTyped, Worded!Existing, Statement
<1> QED
    BY <1>1, <1>2 DEF Worded!SameText

(* A node written where none was, or changed but for what it says, leaves   *)
(* what each node says.                                                     *)
LEMMA StatementStands ==
    ASSUME WordedInv, NEW n \in Nodes, NEW s \in Statement, node' = [node EXCEPT ![n] = s],
           UNCHANGED def, NEW m \in Worded!Existing,
           n = m => s.text = node[n].text /\ s.names = node[n].names
    PROVE  Worded!SameText(m)
<1>1. \A x \in Nodes : node'[x] = IF x = n THEN s ELSE node[x]
    BY DEF WordedInv, WordedTyped
<1> QED
    BY <1>1 DEF Worded!SameText, Worded!Existing

LEMMA DefinitionSteps ==
    ASSUME WordedInv, NEW d \in Defs, NEW t \in Texts, NEW by \in {"researcher", "agent"},
           Worded!AddDefinition(d, t, by) \/ Worded!EditDefinition(d, t, by)
    PROVE  /\ WordedInv'
           /\ \A n \in Worded!ReliedText : Worded!SameText(n)
           /\ by = "agent" => \A n \in Worded!Existing : node[n].by = "researcher" => Worded!SameText(n)
<1> DEFINE new == [text |-> t, by |-> by]
<1>t. /\ Worded!Fixed = Worded!ReliedText /\ Worded!ReliedText \subseteq Worded!Existing
      /\ def \in [Defs -> {None} \cup Definition]
    BY FixedIsRelied DEF WordedInv, WordedTyped
<1>1. CASE Worded!AddDefinition(d, t, by)
    <2>1. new \in {None} \cup Definition /\ def' = [def EXCEPT ![d] = new] /\ def[d] = None
          /\ UNCHANGED <<node, decided, plan>>
        BY <1>1 DEF Worded!AddDefinition, Definition
    <2> HIDE DEF new
    <2> QED
        BY <2>1, <1>t, DefinitionChanges, DefinitionStands
<1>2. CASE Worded!EditDefinition(d, t, by)
    <2> DEFINE e == [def[d] EXCEPT !.text = t]
    <2>1. e \in {None} \cup Definition /\ def' = [def EXCEPT ![d] = e] /\ UNCHANGED <<node, decided, plan>>
        BY <1>2, <1>t DEF Worded!EditDefinition, Definition
    <2>2. \A n \in Worded!ReliedText : d \notin node[n].names
        BY <1>2, <1>t DEF Worded!EditDefinition, Worded!FixedDefinition, Worded!Naming
    <2>3. by = "agent" => \A n \in Worded!Existing : node[n].by = "researcher" => d \notin node[n].names
        BY <1>2 DEF Worded!EditDefinition, Worded!SparesTheirs, Worded!Naming
    <2> HIDE DEF e
    <2> QED
        BY <2>1, <2>2, <2>3, <1>t, DefinitionChanges, DefinitionStands
<1> QED
    BY <1>1, <1>2

LEMMA DefinitionRemoved ==
    ASSUME WordedInv, NEW d \in Defs, Worded!RemoveDefinition(d)
    PROVE  WordedInv' /\ \A n \in Worded!Existing : Worded!SameText(n)
<1>1. None \in {None} \cup Definition /\ def' = [def EXCEPT ![d] = None] /\ UNCHANGED <<node, decided, plan>>
    BY DEF Worded!RemoveDefinition
<1>2. \A n \in Worded!Existing : d \notin node[n].names
    BY DEF Worded!RemoveDefinition, Worded!Naming
<1> QED
    BY <1>1, <1>2, DefinitionChanges, DefinitionStands

LEMMA StatementSteps ==
    ASSUME WordedInv, NEW n \in Nodes, NEW t \in Texts, NEW names \in SUBSET Defs,
           NEW by \in {"researcher", "agent"},
           Worded!CreateNode(n, t, names, by) \/ Worded!Restate(n, t, names, by)
    PROVE  /\ WordedInv'
           /\ \A x \in Worded!ReliedText : Worded!SameText(x)
           /\ by = "agent" => \A x \in Worded!Existing : node[x].by = "researcher" => Worded!SameText(x)
<1>t. /\ Worded!Fixed = Worded!ReliedText /\ Worded!ReliedText \subseteq Worded!Existing
      /\ def \in [Defs -> {None} \cup Definition] /\ Worded!Existing \subseteq Nodes
      /\ n \in Worded!Existing => node[n] \in Statement /\ node[n].deps \subseteq Worded!Existing
    BY FixedIsRelied DEF WordedInv, WordedTyped, CitesWhatIs, Worded!Existing
<1>1. CASE Worded!CreateNode(n, t, names, by)
    <2>1. PICK deps \in SUBSET Worded!Existing : node' = [node EXCEPT ![n] = Worded!Written(t, names, by, deps)]
        BY <1>1 DEF Worded!CreateNode
    <2> DEFINE s == Worded!Written(t, names, by, deps)
    <2>2. s \in Statement /\ s.deps \subseteq Worded!Existing /\ node' = [node EXCEPT ![n] = s]
        BY <1>t, <2>1 DEF Worded!Written, Statement
    <2>3. UNCHANGED <<def, decided, plan>> /\ n \notin Worded!Existing
        BY <1>1 DEF Worded!CreateNode, Worded!Existing
    <2> HIDE DEF s
    <2> QED
        BY <2>2, <2>3, <1>t, NodeChanges, StatementStands
<1>2. CASE Worded!Restate(n, t, names, by)
    <2> DEFINE s == [node[n] EXCEPT !.text = t, !.names = names]
    <2>1. n \in Worded!Existing /\ n \notin Worded!Fixed /\ UNCHANGED <<def, decided, plan>>
          /\ (by = "agent" => node[n].by # "researcher")
        BY <1>2 DEF Worded!Restate, Worded!Restatable
    <2>2. s \in Statement /\ s.deps = node[n].deps
        BY <1>t, <2>1 DEF Statement
    <2>3. node' = [node EXCEPT ![n] = s]
        BY <1>2, <2>1, <1>t DEF Worded!Restate, Statement, WordedInv, WordedTyped
    <2> HIDE DEF s
    <2> QED
        BY <2>1, <2>2, <2>3, <1>t, NodeChanges, StatementStands
<1> QED
    BY <1>1, <1>2

(* What a node rests on changes, and what it says does not.                 *)
LEMMA CitationSteps ==
    ASSUME WordedInv, NEW n \in Nodes, NEW m \in Nodes,
           Worded!AddDependency(n, m) \/ Worded!RemoveDependency(n, m)
    PROVE  WordedInv' /\ \A x \in Worded!Existing : Worded!SameText(x)
<1>t. /\ def \in [Defs -> {None} \cup Definition]
      /\ n \in Worded!Existing => node[n] \in Statement /\ node[n].deps \subseteq Worded!Existing
    BY DEF WordedInv, WordedTyped, CitesWhatIs, Worded!Existing
<1>1. PICK deps \in SUBSET Nodes :
        /\ n \in Worded!Existing /\ deps \subseteq Worded!Existing /\ UNCHANGED <<def, decided, plan>>
        /\ node' = [node EXCEPT ![n].deps = deps]
    <2>1. CASE Worded!AddDependency(n, m)
        BY <1>t, <2>1 DEF Worded!AddDependency, Worded!Existing, Statement
    <2>2. CASE Worded!RemoveDependency(n, m)
        BY <1>t, <2>2 DEF Worded!RemoveDependency, Statement
    <2> QED
        BY <2>1, <2>2
<1> DEFINE s == [node[n] EXCEPT !.deps = deps]
<1>2. node' = [node EXCEPT ![n] = s]
    BY <1>1
<1>3. s \in Statement /\ s.deps = deps /\ s.text = node[n].text /\ s.names = node[n].names
    BY <1>t, <1>1 DEF Statement
<1> HIDE DEF s
<1> QED
    BY <1>1, <1>2, <1>3, <1>t, NodeChanges, StatementStands

(* What a walk from a node that is there over what is there reaches is there.*)
LEMMA RestsOnWhatIs ==
    ASSUME NEW D, DOMAIN D = Nodes, NEW n \in Worded!Existing,
           \A x \in Worded!Existing : D[x] \subseteq Worded!Existing
    PROVE  Worded!RestsOn(D, n) \subseteq Worded!Existing /\ n \in Worded!RestsOn(D, n)
<1>1. Worded!Closed(D, Worded!Existing) /\ Worded!Existing \in SUBSET Nodes
    BY DEF Worded!Closed, Worded!Existing
<1> QED
    BY <1>1 DEF Worded!RestsOn

(* A snapshot, a decision or a seal added to the history.                   *)
LEMMA HistorySteps ==
    ASSUME WordedInv, NEW n \in Nodes,
           Worded!Snapshot(n) \/ Worded!Decide(n) \/ Worded!SealAlone(n) \/ Worded!SealTrue(n)
    PROVE  WordedInv' /\ \A x \in Worded!Existing : Worded!SameText(x)
<1>t. /\ decided \in Seq(Row) /\ Worded!Existing \subseteq Nodes
      /\ \A x \in Worded!Existing : node[x].deps \subseteq Worded!Existing
      /\ \A i \in Made : decided[i].on \subseteq Worded!Existing
    BY DEF WordedInv, WordedTyped, CitesWhatIs, Worded!Existing
<1>i. PICK i : i = Len(decided) + 1
    OBVIOUS
<1>1. CASE Worded!Snapshot(n)
    <2> DEFINE r == [what |-> "snapshot", node |-> n, on |-> node[n].deps, relied |-> {}]
    <2>1. /\ r \in Row /\ decided' = Append(decided, r) /\ UNCHANGED <<def, node, plan>>
          /\ n \in Worded!Existing
        BY <1>1, <1>t DEF Worded!Snapshot, Worded!Records, Row
    <2>2. r.what = "snapshot" /\ r.node = n /\ r.on = node[n].deps /\ r.relied = {}
        OBVIOUS
    <2> HIDE DEF r
    <2>3. Worded!ReliedOn(i)' = r.relied
        BY <1>t, <2>1, <2>2, <1>i, NewRowReads
    <2> QED
        BY <1>t, <2>1, <2>2, <2>3, <1>i, RowRecorded
<1>2. CASE Worded!Decide(n)
    <2> DEFINE D == [x \in Nodes |-> Worded!Cited(Worded!SnapshotsOf(x))]
               r == [what |-> "decision", node |-> n, on |-> D[n], relied |-> Worded!RestsOn(D, n)]
    <2>1. \A x \in Nodes : D[x] \subseteq Worded!Existing
        BY <1>t DEF Worded!Cited, Worded!SnapshotsOf, Made
    <2>2. n \in Worded!Existing /\ decided' = Append(decided, r) /\ UNCHANGED <<def, node, plan>>
        BY <1>2 DEF Worded!Decide, Worded!Records
    <2>3. /\ r.what = "decision" /\ r.node = n /\ r.relied = Worded!RestsOn(D, n)
          /\ r.on = Worded!Cited(Worded!SnapshotsOf(n)) /\ r.on = D[n]
          /\ DOMAIN D = Nodes
        OBVIOUS
    <2>4. Worded!RestsOn(D, n) \subseteq Worded!Existing
        <3> HIDE DEF D, r
        <3> QED
            BY <1>t, <2>1, <2>2, <2>3, RestsOnWhatIs
    <2>5. r \in Row
        BY <1>t, <2>1, <2>4 DEF Row
    <2>6. Worded!ReliedOn(i)' = Worded!RestsOn(D, n)
        <3> HIDE DEF r
        <3> QED
            BY <1>t, <2>2, <2>3, <2>5, <1>i, NewRowReads
    <2> HIDE DEF r, D
    <2> QED
        BY <1>t, <2>1, <2>2, <2>3, <2>4, <2>5, <2>6, <1>i, RowRecorded
<1>3. CASE Worded!SealAlone(n)
    <2> DEFINE r == [what |-> "seal", node |-> n, on |-> {}, relied |-> {n}]
    <2>1. /\ r \in Row /\ decided' = Append(decided, r) /\ UNCHANGED <<def, node, plan>>
          /\ n \in Worded!Existing
        BY <1>3, <1>t DEF Worded!SealAlone, Worded!Records, Row
    <2>2. r.what = "seal" /\ r.node = n /\ r.on = {} /\ r.relied = {n}
        OBVIOUS
    <2> HIDE DEF r
    <2>3. Worded!ReliedOn(i)' = r.relied
        <3>1. Worded!ReliedOn(i)' = {r.node} \cup r.on
            BY <1>t, <2>1, <2>2, <1>i, NewRowReads
        <3> QED
            BY <2>2, <3>1
    <2> QED
        BY <1>t, <2>1, <2>2, <2>3, <1>i, RowRecorded
<1>4. CASE Worded!SealTrue(n)
    <2> DEFINE all == Worded!RestsOn(Worded!Edges, n)
               r == [what |-> "seal", node |-> n, on |-> all \ {n}, relied |-> all]
    <2>1. n \in Worded!Existing /\ decided' = Append(decided, r) /\ UNCHANGED <<def, node, plan>>
        BY <1>4 DEF Worded!SealTrue, Worded!Records
    <2>2. DOMAIN Worded!Edges = Nodes /\ \A x \in Worded!Existing : Worded!Edges[x] \subseteq Worded!Existing
        BY <1>t DEF Worded!Edges, Worded!Existing
    <2>3. all \subseteq Worded!Existing /\ n \in all
        BY <2>1, <2>2, RestsOnWhatIs
    <2> HIDE DEF all
    <2>4. r \in Row /\ r.what = "seal" /\ r.node = n /\ r.on = all \ {n} /\ r.relied = all
        BY <1>t, <2>3 DEF Row
    <2> HIDE DEF r
    <2>5. Worded!ReliedOn(i)' = r.relied
        <3>1. Worded!ReliedOn(i)' = {r.node} \cup r.on
            BY <1>t, <2>1, <2>4, <1>i, NewRowReads
        <3> QED
            BY <2>3, <2>4, <3>1
    <2> QED
        BY <1>t, <2>1, <2>3, <2>4, <2>5, <1>i, RowRecorded
<1> QED
    BY <1>1, <1>2, <1>3, <1>4

LEMMA ImportSteps ==
    ASSUME WordedInv, NEW i \in Importers, Worded!PlanImport(i) \/ Worded!WriteImport(i)
    PROVE  WordedInv' /\ \A x \in Worded!ReliedText : Worded!SameText(x)
<1>t. /\ Worded!ReliedText \subseteq Worded!Existing
      /\ def \in [Defs -> {None} \cup Definition]
      /\ node \in [Nodes -> {None} \cup Statement]
      /\ plan = [j \in Importers |-> plan[j]]
      /\ \A x \in Worded!Existing : x \in Nodes /\ node[x].names \subseteq Defs
    BY FixedIsRelied DEF WordedInv, WordedTyped, PlansStand, Worded!Existing, Statement
<1>h. IndexTells' /\ Made' = Made
    BY SameHistory DEF WordedInv, Worded!PlanImport, Worded!WriteImport
<1>1. CASE Worded!PlanImport(i)
    <2>1. PICK n \in Nodes, names \in SUBSET Defs, t \in Texts, by \in {"researcher", "agent"} :
            \E says_n \in [names -> Texts] :
              plan' = [plan EXCEPT ![i] =
                 [node |-> n, written |-> Worded!Written(t, names, by, {}), by |-> by, says |-> says_n,
                  new |-> {d \in names : def[d] = None}]]
        BY <1>1 DEF Worded!PlanImport, Worded!Authors
    <2>2. PICK says_n \in [names -> Texts] :
              plan' = [plan EXCEPT ![i] =
                 [node |-> n, written |-> Worded!Written(t, names, by, {}), by |-> by, says |-> says_n,
                  new |-> {d \in names : def[d] = None}]]
        BY <2>1
    <2> DEFINE b == [node |-> n, written |-> Worded!Written(t, names, by, {}), by |-> by, says |-> says_n,
                     new |-> {d \in names : def[d] = None}]
    <2>3. Bundle(b) /\ plan' = [plan EXCEPT ![i] = b] /\ UNCHANGED <<def, node, decided>>
        BY <1>1, <2>2 DEF Bundle, Worded!Written, Statement, Worded!PlanImport
    <2> HIDE DEF b
    <2>4. PlansStand'
        BY <1>t, <2>3 DEF WordedInv, PlansStand
    <2> QED
        BY <2>3, <2>4, <1>t, <1>h DEF WordedInv, WordedTyped, CitesWhatIs, Worded!Existing, Worded!SameText
<1>2. CASE Worded!WriteImport(i)
    <2> DEFINE p == plan[i]
               free == node[p.node] = None /\ \A d \in p.new : def[d] = None
               D == [d \in Defs |-> IF d \in p.new THEN [text |-> p.says[d], by |-> p.by] ELSE def[d]]
    <2>1. /\ Bundle(p)
          /\ def' = (IF free THEN D ELSE def)
          /\ node' = (IF free THEN [node EXCEPT ![p.node] = p.written] ELSE node)
          /\ plan' = [plan EXCEPT ![i] = None] /\ decided' = decided
        BY <1>2 DEF Worded!WriteImport, WordedInv, PlansStand
    <2>2. PlansStand'
        BY <1>t, <2>1 DEF WordedInv, PlansStand
    <2>3. CASE ~ free
        BY <2>1, <2>2, <2>3, <1>t, <1>h
           DEF WordedInv, WordedTyped, CitesWhatIs, Worded!Existing, Worded!SameText
    <2>4. CASE free
        <3>1. D \in [Defs -> {None} \cup Definition]
            <4>1. ASSUME NEW d \in Defs, d \in p.new PROVE [text |-> p.says[d], by |-> p.by] \in Definition
                BY <2>1, <4>1 DEF Bundle, Definition
            <4> QED
                BY <1>t, <4>1
        <3>2. /\ p.node \in Nodes /\ p.written \in Statement /\ p.written.deps = {}
              /\ node' = [node EXCEPT ![p.node] = p.written] /\ def' = D /\ node[p.node] = None
            BY <2>1, <2>4 DEF Bundle
        <3>3. \A n \in Nodes : node'[n] = IF n = p.node THEN p.written ELSE node[n]
            BY <1>t, <3>2
        <3>4. WordedTyped' /\ CitesWhatIs'
            BY <1>t, <1>h, <2>1, <3>1, <3>2, <3>3, NoneIsNoText
               DEF WordedInv, WordedTyped, CitesWhatIs, Worded!Existing
        <3>5. \A x \in Worded!ReliedText : Worded!SameText(x)
            <4> SUFFICES ASSUME NEW x \in Worded!ReliedText PROVE Worded!SameText(x)
                OBVIOUS
            <4>1. x \in Nodes /\ node'[x] = node[x] /\ node[x].names \subseteq Defs
                BY <1>t, <3>2, <3>3 DEF Worded!Existing
            <4>2. \A d \in Defs : def[d] # None => def'[d] = def[d]
                BY <2>4, <3>2
            <4> QED
                BY <4>1, <4>2 DEF Worded!SameText
        <3> QED
            BY <1>h, <2>2, <3>4, <3>5 DEF WordedInv
    <2> QED
        BY <2>3, <2>4
<1> QED
    BY <1>1, <1>2

LEMMA EditSteps ==
    ASSUME WordedInv, NEW by \in {"researcher", "agent"}, Worded!Edits(by)
    PROVE  /\ WordedInv'
           /\ \A n \in Worded!ReliedText : Worded!SameText(n)
           /\ by = "agent" => \A n \in Worded!Existing : node[n].by = "researcher" => Worded!SameText(n)
<1> DEFINE Stands == /\ WordedInv'
                     /\ \A n \in Worded!ReliedText : Worded!SameText(n)
                     /\ by = "agent" => \A n \in Worded!Existing : node[n].by = "researcher" => Worded!SameText(n)
<1>1. ASSUME NEW d \in Defs, NEW t \in Texts, Worded!AddDefinition(d, t, by) \/ Worded!EditDefinition(d, t, by)
      PROVE  Stands
    BY <1>1, DefinitionSteps
<1>2. ASSUME NEW n \in Nodes, NEW t \in Texts, NEW names \in SUBSET Defs,
             Worded!CreateNode(n, t, names, by) \/ Worded!Restate(n, t, names, by)
      PROVE  Stands
    BY <1>2, StatementSteps
<1>3. Worded!ReliedText \subseteq Worded!Existing
    BY FixedIsRelied
<1>4. ASSUME NEW d \in Defs, Worded!RemoveDefinition(d) PROVE Stands
    BY <1>3, <1>4, DefinitionRemoved
<1>5. ASSUME NEW n \in Nodes, NEW m \in Nodes,
             Worded!AddDependency(n, m) \/ Worded!RemoveDependency(n, m)
      PROVE  Stands
    BY <1>3, <1>5, CitationSteps
<1>6. ASSUME NEW n \in Nodes, Worded!Snapshot(n) PROVE Stands
    BY <1>3, <1>6, HistorySteps
<1> HIDE DEF Stands
<1>7. Stands
    BY <1>1, <1>2, <1>4, <1>5, <1>6 DEF Worded!Edits
<1> QED
    BY <1>7 DEF Stands

LEMMA WordedStep ==
    WordedInv /\ [Worded!Next]_(Worded!vars) =>
        WordedInv' /\ \A n \in Worded!ReliedText : Worded!SameText(n)
<1> SUFFICES ASSUME WordedInv, [Worded!Next]_(Worded!vars)
             PROVE  WordedInv' /\ \A n \in Worded!ReliedText : Worded!SameText(n)
    OBVIOUS
<1>1. CASE UNCHANGED Worded!vars
    <2>1. IndexTells' /\ Made' = Made /\ UNCHANGED <<def, node, decided, plan>>
        BY <1>1, SameHistory DEF Worded!vars, WordedInv
    <2> QED
        BY <2>1 DEF WordedInv, WordedTyped, CitesWhatIs, PlansStand, Worded!Existing, Worded!SameText
<1>2. ASSUME NEW n \in Nodes, Worded!Decide(n) \/ Worded!SealAlone(n) \/ Worded!SealTrue(n)
      PROVE  WordedInv' /\ \A x \in Worded!ReliedText : Worded!SameText(x)
    BY <1>2, HistorySteps, FixedIsRelied
<1> QED
    BY <1>1, <1>2, EditSteps, ImportSteps DEF Worded!Next, Worded!Authors
-----------------------------------------------------------------------------
(* Collaboration: what a process has in hand covers the old records.        *)

Reviewed == OldRecords \cup Forged \cup Reviews

Documents ==
    [migrated : BOOLEAN, history : [Reviewed -> {None, "requested", "decided"}],
     warned : SUBSET (OldRecords \cup Malformed \cup Forged),
     contributors : SUBSET Members, threads : SUBSET Topics, comments : SUBSET (Topics \X Members),
     branches : [Branches -> {None} \cup [merged : BOOLEAN, assets : SUBSET Assets]], policies : Nat]

(* Every old record is among those found or in d's history, and every       *)
(* malformed entry among those found or in d's warnings.                    *)
Covers(found, d) ==
    /\ found \subseteq OldRecords \cup Malformed \cup Forged
    /\ \A r \in OldRecords : r \in found \/ d.history[r] # None
    /\ \A r \in Malformed : r \in found \/ r \in d.warned

(* Once the records have moved, they are all in the history.                *)
MovedWhole(d) == d.migrated => \A r \in OldRecords : d.history[r] # None

(* What d keeps, e keeps.                                                   *)
KeptIn(d, e) == d.warned \subseteq e.warned /\ \A r \in Reviewed : d.history[r] # None => e.history[r] # None

(* What a process has in hand: what it found covers the records, it strips  *)
(* the file when the committed rows do, and what it changes it changes with *)
(* the lock, on what is committed.                                          *)
InHand(p, t) ==
    \/ t.at = "idle"
    \/ t.at \in {"read", "wait"} /\ Covers(t.found, db)
    \/ t.at = "strip" /\ Covers({}, db)
    \/ t.at = "load" /\ lock = p
    \/ t.at \in {"edit", "commit"} /\ lock = p /\ t.tx \in Documents /\ MovedWhole(t.tx) /\ KeptIn(db, t.tx)

CollabInv ==
    /\ db \in Documents /\ Covers(file, db) /\ MovedWhole(db)
    /\ proc = [p \in Processes |-> proc[p]]
    /\ \A p \in Processes : InHand(p, proc[p])

LEMMA CollabInit == Collab!Init => CollabInv
<1> SUFFICES ASSUME Collab!Init PROVE CollabInv
    OBVIOUS
<1>1. db \in Documents
    BY DEF Collab!Init, Documents, Reviewed, Collab!InJson
<1>2. Covers(file, db) /\ MovedWhole(db)
    BY DEF Collab!Init, Covers, MovedWhole
<1>3. proc = [p \in Processes |-> proc[p]] /\ \A p \in Processes : proc[p].at = "idle"
    BY DEF Collab!Init, Collab!Idle
<1> QED
    BY <1>1, <1>2, <1>3 DEF CollabInv, InHand

(* One process goes on, on records that only grow and under a lock that only *)
(* it may take or give up.                                                  *)
LEMMA OneGoes ==
    ASSUME CollabInv, NEW p \in Processes, NEW t, proc' = [proc EXCEPT ![p] = t],
           db' \in Documents, Covers(file, db)', MovedWhole(db'), KeptIn(db, db'), InHand(p, t)',
           \A q \in Processes \ {p} : lock = q => lock' = q /\ db' = db
    PROVE  CollabInv'
<1>1. proc'[p] = t /\ proc' = [q \in Processes |-> proc'[q]] /\ \A q \in Processes \ {p} : proc'[q] = proc[q]
    BY DEF CollabInv
<1>2. ASSUME NEW q \in Processes \ {p} PROVE InHand(q, proc[q])'
    <2>1. InHand(q, proc[q]) /\ proc'[q] = proc[q]
        BY <1>1 DEF CollabInv
    <2>2. ASSUME NEW found, Covers(found, db) PROVE Covers(found, db')
        BY <2>2 DEF Covers, KeptIn, Reviewed
    <2> QED
        BY <2>1, <2>2 DEF InHand
<1> QED
    BY <1>1, <1>2 DEF CollabInv

LEMMA OneGoesOn ==
    ASSUME CollabInv, NEW p \in Processes, NEW t, proc' = [proc EXCEPT ![p] = t],
           file' = file, db' = db, InHand(p, t)', \A q \in Processes \ {p} : lock = q => lock' = q
    PROVE  CollabInv'
<1>1. db' \in Documents /\ Covers(file, db)' /\ MovedWhole(db') /\ KeptIn(db, db')
    BY DEF CollabInv, Covers, MovedWhole, KeptIn
<1> QED
    BY <1>1, OneGoes

LEMMA AppendedKeeps ==
    ASSUME NEW d \in Documents, NEW rs
    PROVE  /\ Collab!Appended(d, rs) \in Documents /\ KeptIn(d, Collab!Appended(d, rs))
           /\ Collab!Appended(d, rs).warned = d.warned
           /\ \A r \in rs \cap Reviewed : Collab!Appended(d, rs).history[r] # None
<1> DEFINE h == [r \in Reviewed |-> IF r \in Collab!Missing(d, rs) THEN "decided" ELSE d.history[r]]
           e == Collab!Appended(d, rs)
<1>1. DOMAIN d.history = Reviewed /\ \A r \in Reviewed : d.history[r] \in {None, "requested", "decided"}
    BY DEF Documents
<1>2. h \in [Reviewed -> {None, "requested", "decided"}]
    BY <1>1
<1>3. e = [d EXCEPT !.history = h]
    BY <1>1 DEF Collab!Appended
<1>4. \A r \in Reviewed : h[r] = d.history[r] \/ h[r] = "decided"
    OBVIOUS
<1>5. \A r \in rs \cap Reviewed : h[r] # None
    BY RecordsAssumption DEF Collab!Missing
<1> HIDE DEF h
<1>6. e \in Documents /\ e.history = h /\ e.warned = d.warned
    BY <1>2, <1>3 DEF Documents
<1> QED
    BY <1>4, <1>5, <1>6, RecordsAssumption DEF KeptIn

(* The migration called on its own: what it read is what it moves.          *)
LEMMA MigrationSteps ==
    ASSUME CollabInv, NEW p \in Processes,
           Collab!ReadsFile(p) \/ Collab!Peeks(p) \/ Collab!Migrates(p) \/ Collab!Strips(p)
    PROVE  CollabInv'
<1>t. /\ db \in Documents /\ Covers(file, db) /\ MovedWhole(db) /\ KeptIn(db, db) /\ InHand(p, proc[p])
    BY DEF CollabInv, KeptIn
<1>1. CASE Collab!ReadsFile(p)
    <2>1. PICK t : /\ t.at = "read" /\ t.found = file /\ proc' = [proc EXCEPT ![p] = t]
                   /\ file' = file /\ db' = db /\ lock' = lock
        BY <1>1 DEF Collab!ReadsFile, Collab!Goes
    <2>2. InHand(p, t)'
        BY <1>t, <2>1 DEF InHand
    <2> QED
        BY <2>1, <2>2, OneGoesOn
<1>2. CASE Collab!Peeks(p)
    <2>1. PICK t : /\ t = IF db.migrated /\ proc[p].found = {} THEN Collab!Idle
                          ELSE [at |-> "wait", found |-> proc[p].found, peeked |-> db.migrated]
                   /\ proc' = [proc EXCEPT ![p] = t]
                   /\ file' = file /\ db' = db /\ lock' = lock
        BY <1>2 DEF Collab!Peeks, Collab!Goes
    <2>2. t.at = "idle" \/ (t.at = "wait" /\ t.found = proc[p].found)
        BY <2>1, Zenon DEF Collab!Idle
    <2>3. Covers(proc[p].found, db)
        BY <1>t, <1>2 DEF Collab!Peeks, InHand
    <2>4. InHand(p, t)'
        BY <2>1, <2>2, <2>3 DEF InHand
    <2> QED
        BY <2>1, <2>4, OneGoesOn
<1>3. CASE Collab!Migrates(p)
    <2> DEFINE found == proc[p].found
               rs == Collab!Records(found)
               moved == Collab!Appended(db, rs)
               t == [at |-> "strip"]
    <2>1. /\ Covers(found, db) /\ lock = None /\ UNCHANGED <<file, lock>> /\ proc' = [proc EXCEPT ![p] = t]
          /\ db' = IF ~ db.migrated
                   THEN [moved EXCEPT !.migrated = TRUE, !.warned = @ \cup (found \cap Malformed)]
                   ELSE [db EXCEPT !.warned = @ \cup (found \cap Malformed) \cup Collab!Missing(db, rs)]
        BY <1>t, <1>3 DEF Collab!Migrates, Collab!Pending, Collab!Goes, InHand
    <2>2. found \subseteq OldRecords \cup Malformed \cup Forged /\ rs \subseteq found
        BY <2>1 DEF Covers, Collab!Records
    <2>3. moved \in Documents /\ KeptIn(db, moved) /\ moved.warned = db.warned
          /\ \A r \in rs \cap Reviewed : moved.history[r] # None
        BY <1>t, AppendedKeeps
    <2>4. \A r \in OldRecords : r \in found => r \in rs \cap Reviewed
        BY RecordsAssumption DEF Collab!Records, Reviewed
    <2> HIDE DEF moved, rs
    <2>5. /\ db' \in Documents /\ KeptIn(db, db')
          /\ \A r \in Malformed : r \in found => r \in db'.warned
          /\ db.migrated => db'.history = db.history
          /\ ~ db.migrated => db'.history = moved.history
        <3>1. CASE db.migrated
            <4>1. db' = [db EXCEPT !.warned = @ \cup (found \cap Malformed) \cup Collab!Missing(db, rs)]
                BY <2>1, <3>1
            <4>2. db.warned \cup (found \cap Malformed) \cup Collab!Missing(db, rs)
                    \in SUBSET (OldRecords \cup Malformed \cup Forged)
                BY <1>t, <2>2 DEF Documents, Collab!Missing
            <4> QED
                BY <1>t, <3>1, <4>1, <4>2 DEF Documents, KeptIn
        <3>2. CASE ~ db.migrated
            <4>1. db' = [moved EXCEPT !.migrated = TRUE, !.warned = @ \cup (found \cap Malformed)]
                BY <2>1, <3>2
            <4>2. db.warned \cup (found \cap Malformed) \in SUBSET (OldRecords \cup Malformed \cup Forged)
                BY <1>t, <2>2 DEF Documents
            <4> QED
                BY <2>3, <3>2, <4>1, <4>2 DEF Documents, KeptIn
        <3> QED
            BY <3>1, <3>2
    <2>6. /\ \A r \in OldRecords : db'.history[r] # None
          /\ \A r \in Malformed : r \in db'.warned
        BY <1>t, <2>1, <2>3, <2>4, <2>5 DEF Covers, MovedWhole, KeptIn, Reviewed
    <2>7. Covers(file, db)' /\ MovedWhole(db') /\ InHand(p, t)'
        BY <1>t, <2>1, <2>6 DEF Covers, MovedWhole, InHand
    <2>8. \A q \in Processes \ {p} : lock # q
        BY <2>1, RecordsAssumption
    <2> HIDE DEF t, found
    <2> QED
        BY <1>t, <2>1, <2>5, <2>7, <2>8, OneGoes
<1>4. CASE Collab!Strips(p)
    <2> DEFINE t == Collab!Idle
    <2>1. proc' = [proc EXCEPT ![p] = t] /\ UNCHANGED <<db, lock>> /\ file' = {} /\ Covers({}, db)
        BY <1>t, <1>4 DEF Collab!Strips, Collab!Goes, InHand
    <2>2. InHand(p, t)'
        BY DEF InHand, Collab!Idle
    <2> HIDE DEF t
    <2>3. db' \in Documents /\ Covers(file, db)' /\ MovedWhole(db') /\ KeptIn(db, db')
        BY <1>t, <2>1
    <2> QED
        BY <2>1, <2>2, <2>3, OneGoes
<1> QED
    BY <1>1, <1>2, <1>3, <1>4

(* What a transaction may make of the document it loaded.                   *)
Edited(d, e) == e \in Documents /\ e.migrated = d.migrated /\ KeptIn(d, e)

LEMMA KeptInTwice ==
    ASSUME NEW d, NEW e, NEW f, KeptIn(d, e), KeptIn(e, f)
    PROVE  KeptIn(d, f)
BY DEF KeptIn

LEMMA HistoryEdited ==
    ASSUME NEW d \in Documents, NEW r \in Reviewed, NEW status \in {"requested", "decided"}
    PROVE  Edited(d, [d EXCEPT !.history[r] = status])
<1> DEFINE h == [d.history EXCEPT ![r] = status]
<1>1. d.history \in [Reviewed -> {None, "requested", "decided"}]
    BY DEF Documents
<1>2. h \in [Reviewed -> {None, "requested", "decided"}] /\ \A x \in Reviewed : h[x] = IF x = r THEN status ELSE d.history[x]
    BY <1>1
<1>3. [d EXCEPT !.history[r] = status] = [d EXCEPT !.history = h]
    OBVIOUS
<1> HIDE DEF h
<1> QED
    BY <1>2, <1>3, RecordsAssumption DEF Edited, Documents, KeptIn

(* The edit of a transaction, whatever it is.                               *)
LEMMA EditsEdit ==
    ASSUME NEW p \in Processes, proc[p].at = "edit", NEW d \in Documents, proc[p].tx = d,
           Collab!Edits(p)
    PROVE  \E e : Edited(d, e) /\ proc' = [proc EXCEPT ![p] = [at |-> "commit", tx |-> e]]
<1> USE DEF Collab!Edited, Collab!Goes
<1>1. CASE Collab!Contributes(p, d)
    BY <1>1 DEF Collab!Contributes, Edited, Documents, KeptIn
<1>2. CASE Collab!Comments(p, d)
    <2>1. PICK o \in Topics, a \in Members :
             proc' = [proc EXCEPT ![p] = [at |-> "commit",
                          tx |-> [d EXCEPT !.threads = @ \cup {o}, !.comments = @ \cup {<<o, a>>}]]]
        BY <1>2 DEF Collab!Comments
    <2>2. d.threads \cup {o} \in SUBSET Topics /\ d.comments \cup {<<o, a>>} \in SUBSET (Topics \X Members)
        BY DEF Documents
    <2>3. Edited(d, [d EXCEPT !.threads = @ \cup {o}, !.comments = @ \cup {<<o, a>>}])
        BY <2>2 DEF Edited, Documents, KeptIn
    <2> QED
        BY <2>1, <2>3
<1>3. CASE Collab!CreatesBranch(p, d)
    <2>1. PICK b \in Branches, a \in Assets :
             proc' = [proc EXCEPT ![p] = [at |-> "commit",
                          tx |-> [d EXCEPT !.branches[b] = [merged |-> FALSE, assets |-> {a}]]]]
        BY <1>3 DEF Collab!CreatesBranch
    <2>2. PICK made : made = [d.branches EXCEPT ![b] = [merged |-> FALSE, assets |-> {a}]]
        OBVIOUS
    <2>3. made \in [Branches -> {None} \cup [merged : BOOLEAN, assets : SUBSET Assets]]
        BY <2>2 DEF Documents
    <2>4. PICK e : e = [d EXCEPT !.branches = made]
        OBVIOUS
    <2>5. Edited(d, e)
        BY <2>3, <2>4 DEF Edited, Documents, KeptIn
    <2>6. e = [d EXCEPT !.branches[b] = [merged |-> FALSE, assets |-> {a}]]
        BY <2>2, <2>4
    <2> QED
        BY <2>1, <2>5, <2>6
<1>4. CASE Collab!MergesBranch(p, d)
    <2>1. PICK b \in Branches, into \in Branches :
             /\ d.branches[b] # None /\ d.branches[into] # None
             /\ proc' = [proc EXCEPT ![p] = [at |-> "commit",
                  tx |-> [d EXCEPT !.branches[b].merged = TRUE, !.branches[into].assets = @ \cup d.branches[b].assets]]]
        BY <1>4 DEF Collab!MergesBranch
    <2> DEFINE Branch == [merged : BOOLEAN, assets : SUBSET Assets]
               once == [d.branches EXCEPT ![b].merged = TRUE]
               both == [once EXCEPT ![into].assets = @ \cup d.branches[b].assets]
               e == [d EXCEPT !.branches[b].merged = TRUE, !.branches[into].assets = @ \cup d.branches[b].assets]
    <2>2. d.branches \in [Branches -> {None} \cup Branch] /\ d.branches[b] \in Branch /\ d.branches[into] \in Branch
        BY <2>1 DEF Documents
    <2>3. once \in [Branches -> {None} \cup Branch] /\ once[into] \in Branch
        BY <2>2
    <2>4. both \in [Branches -> {None} \cup Branch]
        BY <2>2, <2>3
    <2> DEFINE d1 == [d EXCEPT !.branches[b].merged = TRUE]
    <2>5. d1 = [d EXCEPT !.branches = once] /\ e = [d1 EXCEPT !.branches[into].assets = @ \cup d.branches[b].assets]
        <3>1. d1 = [d EXCEPT !.branches = once]
            OBVIOUS
        <3>2. e = [d1 EXCEPT !.branches[into].assets = @ \cup d.branches[b].assets]
            BY Zenon
        <3> HIDE DEF d1, e, once
        <3> QED
            BY <3>1, <3>2
    <2>6. d1 \in Documents /\ d1.branches = once /\ d1.migrated = d.migrated /\ KeptIn(d, d1)
        BY <2>3, <2>5 DEF Documents, KeptIn
    <2>7. e = [d1 EXCEPT !.branches = both]
        BY <2>5, <2>6
    <2> HIDE DEF both, once, d1, e
    <2>8. Edited(d, e)
        BY <2>4, <2>6, <2>7 DEF Edited, Documents, KeptIn
    <2> HIDE DEF e
    <2> QED
        BY <2>1, <2>8 DEF e
<1>5. CASE Collab!SetsPolicy(p, d)
    <2>1. Edited(d, [d EXCEPT !.policies = @ + 1])
        BY DEF Edited, Documents, KeptIn
    <2> QED
        BY <1>5, <2>1 DEF Collab!SetsPolicy
<1>6. CASE Collab!RequestsReview(p, d) \/ Collab!DecidesReview(p, d)
    BY <1>6, HistoryEdited DEF Collab!RequestsReview, Collab!DecidesReview, Reviewed
<1>7. CASE Collab!RecordsDecided(p, d)
    <2>1. PICK r \in Reviews : proc' = [proc EXCEPT ![p] = [at |-> "commit", tx |-> Collab!Appended(d, {r})]]
        BY <1>7 DEF Collab!RecordsDecided
    <2>2. Collab!Appended(d, {r}).migrated = d.migrated
        BY DEF Collab!Appended, Documents
    <2>3. Edited(d, Collab!Appended(d, {r}))
        BY <2>2, AppendedKeeps DEF Edited
    <2> QED
        BY <2>1, <2>3
<1> QED
    BY <1>1, <1>2, <1>3, <1>4, <1>5, <1>6, <1>7 DEF Collab!Edits

(* A transaction: it loads the document, edits it and commits it, or fails. *)
LEMMA TransactionSteps ==
    ASSUME CollabInv, NEW p \in Processes,
           Collab!Locks(p) \/ Collab!Loads(p) \/ Collab!Edits(p) \/ Collab!Commits(p) \/ Collab!Fails(p)
    PROVE  CollabInv'
<1>t. /\ db \in Documents /\ Covers(file, db) /\ MovedWhole(db) /\ InHand(p, proc[p])
      /\ p # None
    BY RecordsAssumption DEF CollabInv
<1>1. CASE Collab!Locks(p)
    <2>1. PICK t : /\ t.at = "load" /\ proc' = [proc EXCEPT ![p] = t] /\ file' = file /\ db' = db /\ lock' = p
        BY <1>1 DEF Collab!Locks, Collab!Goes
    <2>2. InHand(p, t)' /\ lock = None
        BY <1>1, <2>1 DEF InHand, Collab!Locks, Collab!MayLock
    <2> QED
        BY <2>1, <2>2, RecordsAssumption, OneGoesOn
<1>2. CASE Collab!Loads(p)
    <2> DEFINE moved == Collab!Appended(db, Collab!Records(file))
    <2> DEFINE loaded == IF db.migrated THEN db ELSE [moved EXCEPT !.migrated = TRUE]
    <2>a. /\ proc' = [proc EXCEPT ![p] = [at |-> "edit", tx |-> loaded]]
          /\ file' = file /\ db' = db /\ lock' = lock
        BY <1>2 DEF Collab!Loads, Collab!Goes, Collab!LeavesFile
    <2> HIDE DEF loaded
    <2>1. PICK t : /\ t.at = "edit" /\ t.tx = loaded
                   /\ proc' = [proc EXCEPT ![p] = t] /\ file' = file /\ db' = db /\ lock' = lock
        BY <2>a
    <2> USE DEF loaded
    <2>2. lock = p
        BY <1>t, <1>2 DEF Collab!Loads, InHand
    <2>3. t.tx \in Documents /\ MovedWhole(t.tx) /\ KeptIn(db, t.tx)
        <3>1. CASE db.migrated
            BY <1>t, <2>1, <3>1 DEF KeptIn
        <3>2. CASE ~ db.migrated
            <4>1. moved \in Documents /\ KeptIn(db, moved)
                  /\ \A r \in Collab!Records(file) \cap Reviewed : moved.history[r] # None
                BY <1>t, AppendedKeeps
            <4>2. \A r \in OldRecords : r \in file => r \in Collab!Records(file) \cap Reviewed
                BY RecordsAssumption DEF Collab!Records, Reviewed
            <4>3. t.tx = [moved EXCEPT !.migrated = TRUE]
                BY <2>1, <3>2
            <4> HIDE DEF moved
            <4>4. t.tx \in Documents /\ t.tx.history = moved.history /\ t.tx.warned = moved.warned
                BY <4>1, <4>3 DEF Documents
            <4> QED
                BY <1>t, <4>1, <4>2, <4>4 DEF Covers, MovedWhole, KeptIn, Reviewed
        <3> QED
            BY <3>1, <3>2
    <2>4. InHand(p, t)'
        BY <2>1, <2>2, <2>3 DEF InHand
    <2> QED
        BY <2>1, <2>4, OneGoesOn
<1>3. CASE Collab!Edits(p)
    <2>1. /\ proc[p].at = "edit" /\ lock = p /\ proc[p].tx \in Documents /\ MovedWhole(proc[p].tx)
          /\ KeptIn(db, proc[p].tx) /\ file' = file /\ db' = db /\ lock' = lock
        BY <1>t, <1>3 DEF Collab!Edits, InHand
    <2>2. PICK e : Edited(proc[p].tx, e) /\ proc' = [proc EXCEPT ![p] = [at |-> "commit", tx |-> e]]
        BY <1>3, <2>1, EditsEdit
    <2>3. PICK t : t.at = "commit" /\ t.tx = e /\ proc' = [proc EXCEPT ![p] = t]
        BY <2>2
    <2>4. e \in Documents /\ MovedWhole(e) /\ KeptIn(db, e)
        BY <2>1, <2>2, KeptInTwice DEF Edited, MovedWhole, KeptIn, Reviewed
    <2>5. InHand(p, t)'
        BY <2>1, <2>3, <2>4 DEF InHand
    <2> QED
        BY <2>1, <2>3, <2>5, OneGoesOn
<1>4. CASE Collab!Commits(p)
    <2>1. PICK t : t.at = "idle" /\ proc' = [proc EXCEPT ![p] = t]
        BY <1>4 DEF Collab!Commits, Collab!Goes, Collab!Idle
    <2>2. /\ proc[p].tx \in Documents /\ MovedWhole(proc[p].tx) /\ KeptIn(db, proc[p].tx)
          /\ lock = p /\ db' = proc[p].tx /\ file' = file
        BY <1>t, <1>4 DEF Collab!Commits, InHand
    <2>3. Covers(file, db)' /\ InHand(p, t)'
        BY <1>t, <2>1, <2>2 DEF Covers, KeptIn, Reviewed, InHand
    <2> QED
        BY <2>1, <2>2, <2>3, OneGoes
<1>5. CASE Collab!Fails(p)
    <2>1. PICK t : t.at = "idle" /\ proc' = [proc EXCEPT ![p] = t]
        BY <1>5 DEF Collab!Fails, Collab!Goes, Collab!Idle
    <2>2. file' = file /\ db' = db /\ lock' = IF lock = p THEN None ELSE lock
        BY <1>5 DEF Collab!Fails
    <2>3. InHand(p, t)'
        BY <2>1 DEF InHand
    <2> QED
        BY <2>1, <2>2, <2>3, OneGoesOn
<1> QED
    BY <1>1, <1>2, <1>3, <1>4, <1>5

LEMMA CollabStep == CollabInv /\ [Collab!Next]_(Collab!vars) => CollabInv'
<1> SUFFICES ASSUME CollabInv, [Collab!Next]_(Collab!vars) PROVE CollabInv'
    OBVIOUS
<1>1. ASSUME NEW r \in Forged, Collab!Forges(r) PROVE CollabInv'
    <2>1. file' = file \cup {r} /\ db' = db /\ lock' = lock /\ proc' = proc
        BY <1>1 DEF Collab!Forges
    <2>2. Covers(file, db)'
        BY <2>1 DEF CollabInv, Covers
    <2> QED
        BY <2>1, <2>2 DEF CollabInv, InHand
<1>2. CASE UNCHANGED Collab!vars
    BY <1>2 DEF Collab!vars, CollabInv, InHand
<1> QED
    BY <1>1, <1>2, MigrationSteps, TransactionSteps DEF Collab!Next

LEMMA CollabHolds == CollabInv => Collab!OldRecordsKept
BY DEF CollabInv, Covers, Collab!OldRecordsKept
-----------------------------------------------------------------------------
(* Publication: what an export took to stand, it looked up as it went.      *)

(* What follows an export: nothing, or the snapshot it was asked for, and   *)
(* then that one's row.                                                     *)
Follows(t) == t.at = "free" \/ (t.at = "save" /\ t.then.at = "row" /\ t.then.then.at = "free")

(* An export under way: what it shows to outside readers stood meanwhile,   *)
(* and so does, for it, all that stands now.                                *)
Exporting(t) ==
    /\ t = [at |-> "select", a |-> t.a, ws |-> t.ws, view |-> t.view, todo |-> t.todo,
            visible |-> t.visible, stood |-> t.stood, then |-> t.then]
    /\ \A n \in Claimed : stands[n] => n \in t.stood
    /\ t.a # "internal" => t.visible \subseteq t.stood
    /\ Follows(t.then)

UnderWay(t) ==
    \/ t.at \in {"free", "set"}
    \/ t.at = "save" /\ (t.then.at = "free" \/ (t.then.at = "row" /\ Follows(t.then.then)))
    \/ t.at \in {"row", "bundle"} /\ Follows(t.then)
    \/ t.at = "select" /\ Exporting(t)

PubInv ==
    /\ task = [p \in Callers |-> task[p]]
    /\ \A p \in Callers : UnderWay(task[p])
    /\ Pub!ShownStood

LEMMA PubInit == Pub!Init => PubInv
BY DEF Pub!Init, Pub!Free, PubInv, UnderWay, Pub!ShownStood

(* A process goes on to t while nothing else about the exports changes.     *)
LEMMA TaskGoes ==
    ASSUME PubInv, NEW p \in Callers, NEW t, task' = [task EXCEPT ![p] = t], stands' = stands,
           UnderWay(t), shown' = shown \/ Pub!ShownStood'
    PROVE  PubInv'
<1>1. task'[p] = t /\ task' = [q \in Callers |-> task'[q]] /\ \A q \in Callers \ {p} : task'[q] = task[q]
    BY DEF PubInv
<1>2. \A q \in Callers : UnderWay(task'[q])
    BY <1>1 DEF PubInv
<1>3. \A q \in Callers : UnderWay(task[q])'
    BY <1>2 DEF UnderWay, Exporting
<1> QED
    BY <1>1, <1>3 DEF PubInv, Pub!ShownStood

LEMMA SaveIsUnderWay ==
    ASSUME NEW ws, NEW then, then.at = "free" \/ (then.at = "row" /\ Follows(then.then))
    PROVE  UnderWay(Pub!Save(ws, then))
BY DEF Pub!Save, UnderWay

(* A write loads the workspace, changes it and saves it.                    *)
LEMMA WriteSteps ==
    ASSUME PubInv, NEW p \in Callers,
           \/ Pub!Import(p) \/ Pub!SetClaimLoads(p) \/ Pub!SetClaimChecks(p)
           \/ Pub!CreateView(p) \/ Pub!RecordRelease(p) \/ Pub!WithdrawRelease(p)
    PROVE  PubInv'
<1>f. Pub!Free.at = "free"
    BY DEF Pub!Free
<1>1. CASE Pub!Import(p)
    BY <1>1 DEF Pub!Import, PubInv, UnderWay, Exporting, Pub!ShownStood
<1>2. CASE Pub!SetClaimLoads(p)
    <2>1. PICK t : t.at = "set" /\ task' = [task EXCEPT ![p] = t] /\ stands' = stands /\ shown' = shown
        BY <1>2 DEF Pub!SetClaimLoads, Pub!Begins
    <2> QED
        BY <2>1, TaskGoes DEF UnderWay
<1>3. CASE Pub!SetClaimChecks(p)
    <2>1. PICK ws : /\ \/ task' = [task EXCEPT ![p] = Pub!Save(ws, Pub!Free)]
                       \/ task' = [task EXCEPT ![p] = Pub!Free]
                    /\ stands' = stands /\ shown' = shown
        BY <1>3 DEF Pub!SetClaimChecks, Pub!Goes
    <2>2. UnderWay(Pub!Save(ws, Pub!Free)) /\ UnderWay(Pub!Free)
        BY <1>f, SaveIsUnderWay DEF UnderWay
    <2> QED
        BY <2>1, <2>2, TaskGoes
<1>4. CASE Pub!CreateView(p) \/ Pub!RecordRelease(p) \/ Pub!WithdrawRelease(p)
    <2>1. PICK ws : task' = [task EXCEPT ![p] = Pub!Save(ws, Pub!Free)] /\ stands' = stands /\ shown' = shown
        BY <1>4 DEF Pub!CreateView, Pub!RecordRelease, Pub!WithdrawRelease, Pub!Begins
    <2>2. UnderWay(Pub!Save(ws, Pub!Free))
        BY <1>f, SaveIsUnderWay
    <2> QED
        BY <2>1, <2>2, TaskGoes
<1> QED
    BY <1>1, <1>2, <1>3, <1>4

(* An export loads the workspace and knows what stands then.                *)
LEMMA ExportBegins ==
    ASSUME NEW a, NEW ws, NEW view, NEW then, Follows(then)
    PROVE  UnderWay(Pub!Selecting(ws, a, view, {n \in Claimed : stands[n]}, then))
<1> DEFINE t == Pub!Selecting(ws, a, view, {n \in Claimed : stands[n]}, then)
<1>1. t = [at |-> "select", a |-> a, ws |-> ws, view |-> view, todo |-> Pub!Objects, visible |-> {},
           stood |-> {n \in Claimed : stands[n]}, then |-> then]
    BY DEF Pub!Selecting
<1> HIDE DEF t
<1>2. /\ t.at = "select" /\ t.visible = {} /\ t.then = then /\ t.stood = {n \in Claimed : stands[n]}
      /\ t = [at |-> "select", a |-> t.a, ws |-> t.ws, view |-> t.view, todo |-> t.todo,
              visible |-> t.visible, stood |-> t.stood, then |-> t.then]
    BY <1>1
<1>3. UnderWay(t)
    BY <1>2 DEF UnderWay, Exporting
<1> QED
    BY <1>3 DEF t

LEMMA ExportSteps ==
    ASSUME PubInv, NEW p \in Callers,
           Pub!ExportLoads(p) \/ Pub!SnapshotLoads(p) \/ Pub!Selects(p) \/ Pub!SelectsWithoutView(p)
    PROVE  PubInv'
<1>f. Follows(Pub!Free)
    BY DEF Pub!Free, Follows
<1>t. task[p].at = "select" => Exporting(task[p])
    BY DEF PubInv, UnderWay
<1>1. CASE Pub!ExportLoads(p) \/ Pub!SnapshotLoads(p)
    <2> DEFINE now == {n \in Claimed : stands[n]}
    <2>1. \E a, ws, view, then :
             /\ Follows(then) /\ stands' = stands /\ shown' = shown
             /\ task' = [task EXCEPT ![p] = Pub!Selecting(ws, a, view, now, then)]
        <3>1. CASE Pub!ExportLoads(p)
            BY <1>f, <3>1, Zenon DEF Pub!ExportLoads, Pub!Begins, Pub!Exporting
        <3>2. CASE Pub!SnapshotLoads(p)
            <4>1. \A id : Follows(Pub!Snapshot(id, Pub!Free))
                BY DEF Pub!Snapshot, Pub!Save, Pub!Free, Follows
            <4> QED
                BY <3>2, <4>1, Zenon DEF Pub!SnapshotLoads, Pub!Begins, Pub!Exporting
        <3> QED
            BY <1>1, <3>1, <3>2
    <2>2. PICK a, ws, view, then :
             /\ Follows(then) /\ stands' = stands /\ shown' = shown
             /\ task' = [task EXCEPT ![p] = Pub!Selecting(ws, a, view, now, then)]
        BY <2>1
    <2>3. PICK t : t = Pub!Selecting(ws, a, view, now, then)
        OBVIOUS
    <2>4. UnderWay(t)
        BY <2>2, <2>3, ExportBegins
    <2> QED
        BY <2>2, <2>3, <2>4, TaskGoes
<1>2. CASE Pub!Selects(p)
    <2>1. PICK o \in task[p].todo :
             task' = [task EXCEPT ![p] = [task[p] EXCEPT !.todo = @ \ {o},
                         !.visible = IF Pub!Wanted(task[p], o) /\ Pub!Unwithheld(task[p], o)
                                     THEN @ \cup {o} ELSE @]]
             /\ stands' = stands /\ shown' = shown /\ Exporting(task[p])
        BY <1>t, <1>2 DEF Pub!Selects, Pub!Goes
    <2>2. PICK t : t = [task[p] EXCEPT !.todo = @ \ {o},
                         !.visible = IF Pub!Wanted(task[p], o) /\ Pub!Unwithheld(task[p], o)
                                     THEN @ \cup {o} ELSE @]
        OBVIOUS
    <2>3. task[p].a # "internal" /\ Pub!Unwithheld(task[p], o) => o \in task[p].stood
        BY <2>1 DEF Exporting, Pub!Unwithheld
    <2> DEFINE visible == IF Pub!Wanted(task[p], o) /\ Pub!Unwithheld(task[p], o)
                          THEN task[p].visible \cup {o} ELSE task[p].visible
    <2>4. visible \subseteq task[p].visible \cup {o}
          /\ (task[p].a # "internal" => visible \subseteq task[p].stood)
        BY <2>1, <2>3 DEF Exporting
    <2>5. t = [task[p] EXCEPT !.todo = @ \ {o}, !.visible = visible]
        BY <2>1, <2>2 DEF Exporting
    <2> HIDE DEF visible
    <2>6. /\ t = [at |-> "select", a |-> t.a, ws |-> t.ws, view |-> t.view, todo |-> t.todo,
                  visible |-> t.visible, stood |-> t.stood, then |-> t.then]
          /\ t.at = "select" /\ t.visible = visible /\ t.stood = task[p].stood /\ t.a = task[p].a
          /\ t.then = task[p].then
        <3>1. PICK a, ws, view, todo, seen_o, stood, then :
                 task[p] = [at |-> "select", a |-> a, ws |-> ws, view |-> view, todo |-> todo,
                            visible |-> seen_o, stood |-> stood, then |-> then]
            BY <2>1 DEF Exporting
        <3>2. PICK e : e = task[p]
            OBVIOUS
        <3>3. e = [at |-> "select", a |-> a, ws |-> ws, view |-> view, todo |-> todo,
                   visible |-> seen_o, stood |-> stood, then |-> then]
              /\ t = [e EXCEPT !.todo = todo \ {o}, !.visible = visible]
            BY <2>5, <3>1, <3>2
        <3>4. t = [at |-> "select", a |-> a, ws |-> ws, view |-> view, todo |-> todo \ {o},
                   visible |-> visible, stood |-> stood, then |-> then]
            BY <3>3
        <3> QED
            BY <3>1, <3>4
    <2>7. UnderWay(t)
        BY <2>1, <2>4, <2>6 DEF UnderWay, Exporting
    <2> QED
        BY <2>1, <2>2, <2>7, TaskGoes
<1>3. CASE Pub!SelectsWithoutView(p)
    <2>1. PICK t : t = Pub!Selecting(task[p].ws, task[p].a, Pub!NoView, task[p].stood, task[p].then)
                   /\ task' = [task EXCEPT ![p] = t]
                   /\ stands' = stands /\ shown' = shown /\ Exporting(task[p])
        BY <1>t, <1>3 DEF Pub!SelectsWithoutView, Pub!Goes
    <2>2. UnderWay(t)
        BY <2>1 DEF UnderWay, Exporting, Pub!Selecting
    <2> QED
        BY <2>1, <2>2, TaskGoes
<1> QED
    BY <1>1, <1>2, <1>3

LEMMA BundleSteps ==
    ASSUME PubInv, NEW p \in Callers,
           Pub!Saves(p) \/ Pub!Shows(p) \/ Pub!BundleRecorded(p) \/ Pub!RowStored(p)
    PROVE  PubInv'
<1>t. UnderWay(task[p])
    BY DEF PubInv
<1>1. CASE Pub!Saves(p) \/ Pub!RowStored(p)
    <2>1. PICK t : t = task[p].then /\ task' = [task EXCEPT ![p] = t] /\ stands' = stands /\ shown' = shown
        BY <1>1 DEF Pub!Saves, Pub!RowStored
    <2>2. UnderWay(t)
        BY <1>t, <1>1, <2>1 DEF Pub!Saves, Pub!RowStored, UnderWay, Follows
    <2> QED
        BY <2>1, <2>2, TaskGoes
<1>2. CASE Pub!Shows(p)
    <2>1. PICK t : t.at = "bundle" /\ t.then = task[p].then /\ task' = [task EXCEPT ![p] = t] /\ stands' = stands
        BY <1>2 DEF Pub!Shows
    <2>2. Exporting(task[p])
          /\ shown' = [audience |-> task[p].a, objects |-> task[p].visible, stood |-> task[p].stood]
        BY <1>t, <1>2 DEF Pub!Shows, UnderWay
    <2>3. UnderWay(t) /\ Pub!ShownStood'
        BY <2>1, <2>2 DEF UnderWay, Exporting, Pub!ShownStood
    <2> QED
        BY <2>1, <2>3, TaskGoes
<1>3. CASE Pub!BundleRecorded(p)
    <2>1. PICK t : t = Pub!Snapshot(task[p].id, task[p].then) /\ task' = [task EXCEPT ![p] = t]
                   /\ stands' = stands /\ shown' = shown
        BY <1>3 DEF Pub!BundleRecorded, Pub!Goes
    <2>2. UnderWay(t)
        BY <1>t, <1>3, <2>1 DEF Pub!BundleRecorded, Pub!Snapshot, Pub!Save, UnderWay
    <2> QED
        BY <2>1, <2>2, TaskGoes
<1> QED
    BY <1>1, <1>2, <1>3

(* A node that comes to stand while an export goes on may have been seen to.*)
LEMMA StandingSteps ==
    ASSUME PubInv, NEW n \in Claimed, Pub!StandingChanges(n)
    PROVE  PubInv'
<1> DEFINE Seen(t) == IF t.at = "select" THEN [t EXCEPT !.stood = @ \cup {n}] ELSE t
<1>1. /\ task' = [p \in Callers |-> Seen(task[p])]
      /\ \A m \in Claimed \ {n} : stands'[m] => stands[m]
      /\ shown' = shown
    BY DEF Pub!StandingChanges
<1>2. ASSUME NEW p \in Callers PROVE UnderWay(task[p])'
    <2>1. UnderWay(task[p]) /\ task'[p] = Seen(task[p])
        BY <1>1 DEF PubInv
    <2>2. CASE task[p].at # "select"
        BY <2>1, <2>2 DEF UnderWay
    <2>3. CASE task[p].at = "select"
        BY <1>1, <2>1, <2>3 DEF UnderWay, Exporting
    <2> QED
        BY <2>2, <2>3
<1> HIDE DEF Seen
<1> QED
    BY <1>1, <1>2 DEF PubInv, Pub!ShownStood

LEMMA PubStep == PubInv /\ [Pub!Next]_(Pub!vars) => PubInv'
<1> SUFFICES ASSUME PubInv, [Pub!Next]_(Pub!vars) PROVE PubInv'
    OBVIOUS
<1>1. CASE UNCHANGED Pub!vars
    BY <1>1 DEF Pub!vars, PubInv, UnderWay, Exporting, Pub!ShownStood
<1> QED
    BY <1>1, StandingSteps, WriteSteps, ExportSteps, BundleSteps DEF Pub!Next
-----------------------------------------------------------------------------
(* Interfaces: a pin is spelled as what it was taken on, or was made when    *)
(* that was fixed.                                                          *)

Said == [text : Sayings, defined : Sayings]

(* What pin tells of the text s it was taken on: a pin at an accepted       *)
(* version was taken on what is fixed since, a provisional one has the words *)
(* in it, and one of the oldest kind the time before any change.            *)
Tells(pin, s) ==
    \/ pin.version \in Nat \ {0} /\ decidedOn /\ s = says
       /\ pin.print \in {Pins!Interface(s), Pins!WithKind("claim", s)}
    \/ pin.version = 0 /\ pin.print = Pins!Provisional(s)
    \/ pin.version = 0 /\ pin.print = None /\ pin.at = 0 /\ (changes = 0 => s = says)

(* A node's versions, and the one its newest decision is on.                *)
Versioned(n) ==
    /\ n \in [snapshots : Nat, decided : Nat, accepts : BOOLEAN, whole : BOOLEAN]
    /\ n.decided <= n.snapshots
    /\ n.accepts \/ ~ n.whole => n.decided # 0

PinsInv ==
    /\ says \in Said /\ seen \in Said /\ accepted \in Said /\ changes \in Nat
    /\ Versioned(target) /\ Versioned(dependent)
    /\ target.accepts => decidedOn
    /\ decidedOn \in BOOLEAN
    /\ dependent.snapshots # 0 \/ stored # None => Tells(stored, seen)
    /\ dependent.accepts => Tells(signed, accepted)

LEMMA NoneIsNoPrint ==
    ASSUME NEW s \in Said
    PROVE  None # Pins!Provisional(s) /\ None # Pins!Interface(s) /\ None # Pins!WithKind("claim", s)
<1>1. s.text \in Sayings /\ s.defined \in Sayings
    BY DEF Said
<1>2. Pins!Provisional(s) \in [form : {"worded"}, text : Sayings, defined : Sayings]
    BY <1>1 DEF Pins!Provisional
<1>3. /\ Pins!Interface(s) \in [form : {"plain", "claim", "lemma"}, text : Sayings]
      /\ Pins!WithKind("claim", s) \in [form : {"plain", "claim", "lemma"}, text : Sayings]
    BY <1>1 DEF Pins!Interface, Pins!WithKind
<1> QED
    BY <1>2, <1>3, RecordsAssumption

LEMMA DecidedVersioned ==
    ASSUME NEW v \in Nat, NEW accept \in BOOLEAN, v # 0 \/ ~ accept
    PROVE  Versioned(Pins!Decided(v, accept)) /\ Pins!Decided(v, accept).accepts = accept
           /\ Pins!Decided(v, accept).snapshots = v
BY DEF Versioned, Pins!Decided

LEMMA UndecidedVersioned ==
    ASSUME NEW k \in {0, 1}
    PROVE  LET n == [Pins!Decided(0, FALSE) EXCEPT !.snapshots = k]
           IN  Versioned(n) /\ n.accepts = FALSE /\ n.snapshots = k
<1> DEFINE r == [snapshots |-> k, decided |-> 0, accepts |-> FALSE, whole |-> TRUE]
<1>1. [Pins!Decided(0, FALSE) EXCEPT !.snapshots = k] = r
    <2>1. PICK b, c : b = FALSE /\ c = TRUE
        OBVIOUS
    <2>2. Pins!Decided(0, b) = [snapshots |-> 0, decided |-> 0, accepts |-> b, whole |-> c]
        BY <2>1, Zenon DEF Pins!Decided
    <2>3. [Pins!Decided(0, b) EXCEPT !.snapshots = k] = [snapshots |-> k, decided |-> 0, accepts |-> b, whole |-> c]
        BY <2>2
    <2> QED
        BY <2>1, <2>3, Zenon
<1>2. Versioned(r) /\ r.accepts = FALSE /\ r.snapshots = k
    BY DEF Versioned
<1> HIDE DEF r
<1> QED
    BY <1>1, <1>2

LEMMA PinsInit == Pins!Init => PinsInv
<1> SUFFICES ASSUME Pins!Init PROVE PinsInv
    OBVIOUS
<1> USE DEF Pins!Init
<1>1. says \in Said /\ seen = says /\ accepted = says /\ changes = 0
    BY DEF Said
<1>2. stored = None \/ (stored # None /\ Tells(stored, seen))
    <2>1. \A s \in Said : Pins!Older(s) \subseteq [version : {0, 1}, print : {None} \cup [form : {"claim"}, text : Sayings], at : {0}]
        BY DEF Pins!Older, Pins!WithKind, Said
    <2>2. stored \in Pins!Older(says) => stored # None
        BY <1>1, <2>1, RecordsAssumption
    <2> QED
        <3>1. CASE stored = [version |-> 0, print |-> None, at |-> 0]
            BY <1>1, <2>2, <3>1 DEF Tells, Pins!Older
        <3>2. CASE stored = [version |-> 1, print |-> Pins!WithKind("claim", says), at |-> 0]
            <4>1. stored \in Pins!Older(says)
                BY <3>2 DEF Pins!Older
            <4>2. stored.version = 1 /\ stored # None /\ stored.print = Pins!WithKind("claim", says)
                BY <2>2, <3>2, <4>1
            <4>3. decidedOn
                BY <4>2
            <4> QED
                BY <1>1, <4>2, <4>3 DEF Tells
        <3> QED
            BY <3>1, <3>2 DEF Pins!Older
<1>3. decidedOn \in BOOLEAN /\ Versioned(target) /\ (target.accepts => decidedOn)
    <2>1. CASE decidedOn
        <3>1. target = Pins!Decided(1, TRUE)
            BY <2>1, Zenon
        <3>2. Versioned(Pins!Decided(1, TRUE))
            BY DEF Versioned, Pins!Decided
        <3> QED
            BY <2>1, <3>1, <3>2
    <2>2. CASE ~ decidedOn
        BY <2>2, UndecidedVersioned
    <2> QED
        BY <2>1, <2>2
<1>4. Versioned(dependent) /\ dependent.accepts = FALSE /\ (dependent.snapshots # 0 => stored # None)
    BY UndecidedVersioned
<1> HIDE DEF Pins!Init
<1> QED
    BY <1>1, <1>2, <1>3, <1>4 DEF PinsInv

(* Only a pin whose target says what it said reads current, and then it can *)
(* be brought up to the version the target was accepted at.                 *)
LEMMA CurrentTells ==
    ASSUME NEW pin, NEW s \in Said, says \in Said, changes \in Nat, Tells(pin, s), Pins!Current(pin)
    PROVE  s = says
<1>1. None # Pins!Provisional(says) /\ None # Pins!Interface(s) /\ None # Pins!WithKind("claim", s)
      /\ None # Pins!Provisional(s)
    BY NoneIsNoPrint
<1>2. Pins!Provisional(s) = Pins!Provisional(says) => s = says
    BY DEF Said, Pins!Provisional
<1> QED
    BY <1>1, <1>2 DEF Tells, Pins!Current

LEMMA RefreshedTells ==
    ASSUME PinsInv, Pins!Accepted(target)
    PROVE  Tells(Pins!Refreshed, says)
BY DEF PinsInv, Pins!Accepted, Pins!Refreshed, Tells, Pins!AcceptedInterface, Versioned

LEMMA PinsHold == PinsInv => Pins!PinTells
<1> SUFFICES ASSUME PinsInv, Pins!Counted # None PROVE Pins!PinTells
    BY DEF Pins!PinTells
<1> DEFINE pin == Pins!Counted
           s == Pins!CheckedAgainst
<1>1. Tells(pin, s) /\ s \in Said /\ says \in Said /\ changes \in Nat
    BY DEF PinsInv, Pins!Counted, Pins!CheckedAgainst, Pins!Accepted
<1> HIDE DEF pin, s
<1>2. Pins!Current(pin) => says = s
    BY <1>1, CurrentTells
<1>3. says = s /\ (pin.version # 0 => Pins!Accepted(target)) =>
         Pins!Current(pin) \/ (pin.version = 0 /\ pin.print = None)
    <2>1. None # Pins!Interface(says) /\ None # Pins!WithKind("claim", says)
        BY <1>1, NoneIsNoPrint
    <2> QED
        BY <1>1, <2>1 DEF Tells, Pins!Current, Pins!SameInterface, Pins!Spellings, Pins!AcceptedInterface
<1> QED
    BY <1>2, <1>3 DEF Pins!PinTells, pin, s

(* What a version's own changes leave of it.                                *)
LEMMA VersionedChanges ==
    ASSUME NEW n, Versioned(n)
    PROVE  /\ Versioned([n EXCEPT !.snapshots = @ + 1])
           /\ [n EXCEPT !.snapshots = @ + 1].accepts = n.accepts
           /\ n.decided # 0 => Versioned([n EXCEPT !.whole = ~ @])
                               /\ [n EXCEPT !.whole = ~ @].accepts = n.accepts
                               /\ [n EXCEPT !.whole = ~ @].snapshots = n.snapshots
           /\ Pins!Awaiting(n) => n.snapshots # 0 /\ n.snapshots \in Nat
<1> DEFINE Type == [snapshots : Nat, decided : Nat, accepts : BOOLEAN, whole : BOOLEAN]
<1>1. n \in Type /\ n.snapshots \in Nat /\ n.decided \in Nat /\ n.accepts \in BOOLEAN /\ n.whole \in BOOLEAN
    BY DEF Versioned
<1>2. PICK m : m = [n EXCEPT !.snapshots = @ + 1]
    OBVIOUS
<1>3. m \in Type /\ m.snapshots = n.snapshots + 1 /\ m.decided = n.decided /\ m.accepts = n.accepts /\ m.whole = n.whole
    BY <1>1, <1>2
<1>4. Versioned(m)
    BY <1>1, <1>3 DEF Versioned
<1>5. PICK w : w = [n EXCEPT !.whole = ~ @]
    OBVIOUS
<1>6. w \in Type /\ w.snapshots = n.snapshots /\ w.decided = n.decided /\ w.accepts = n.accepts
    BY <1>1, <1>5
<1>7. n.decided # 0 => Versioned(w)
    BY <1>1, <1>6 DEF Versioned
<1>8. Pins!Awaiting(n) => n.snapshots # 0
    BY <1>1 DEF Versioned, Pins!Awaiting
<1> QED
    BY <1>1, <1>2, <1>3, <1>4, <1>5, <1>6, <1>7, <1>8

(* The text changes while no decision relied on it.                         *)
LEMMA ChangeStep ==
    ASSUME PinsInv, NEW new \in Said, Pins!Change(new)
    PROVE  PinsInv'
<1>1. /\ ~ decidedOn /\ says' = new /\ changes' = changes + 1 /\ changes \in Nat
      /\ UNCHANGED <<decidedOn, kind, target, stored, signed, dependent, seen, accepted>>
    BY DEF PinsInv, Pins!Change, Pins!dependentVars
<1>2. ASSUME NEW pin, NEW s, Tells(pin, s) PROVE Tells(pin, s)'
    BY <1>1, <1>2 DEF Tells, Pins!Provisional
<1> QED
    BY <1>1, <1>2 DEF PinsInv

(* The target's versions, and the decisions on it.                          *)
LEMMA TargetSteps ==
    ASSUME PinsInv, NEW accept \in BOOLEAN, Pins!SnapshotTarget \/ Pins!DecideTarget(accept) \/ Pins!Promote
    PROVE  PinsInv'
<1>1. /\ Versioned(target') /\ (target'.accepts => decidedOn') /\ decidedOn' \in BOOLEAN
      /\ decidedOn => decidedOn'
    <2>1. CASE Pins!SnapshotTarget \/ Pins!Promote
        BY <2>1, VersionedChanges DEF PinsInv, Pins!SnapshotTarget, Pins!Promote
    <2>2. CASE Pins!DecideTarget(accept)
        BY <2>2, VersionedChanges, DecidedVersioned DEF PinsInv, Pins!DecideTarget
    <2> QED
        BY <2>1, <2>2
<1>2. UNCHANGED <<says, changes, stored, signed, dependent, seen, accepted>>
    BY DEF Pins!SnapshotTarget, Pins!DecideTarget, Pins!Promote, Pins!dependentVars
<1>3. ASSUME NEW pin, NEW s, Tells(pin, s) PROVE Tells(pin, s)'
    BY <1>1, <1>2, <1>3 DEF Tells, Pins!Provisional, Pins!Interface, Pins!WithKind
<1> QED
    BY <1>1, <1>2, <1>3 DEF PinsInv

(* The files of a decided version are edited and put back.                  *)
LEMMA EditedStep == PinsInv /\ Pins!SnapshotEdited => PinsInv'
<1> SUFFICES ASSUME PinsInv, Pins!SnapshotEdited PROVE PinsInv'
    OBVIOUS
<1>1. /\ Versioned(target') /\ target'.accepts = target.accepts
      /\ Versioned(dependent') /\ dependent'.accepts = dependent.accepts
      /\ dependent'.snapshots = dependent.snapshots
    BY VersionedChanges DEF PinsInv, Pins!SnapshotEdited, Pins!dependentVars, Pins!targetVars
<1>2. UNCHANGED <<says, decidedOn, changes, stored, signed, seen, accepted>>
    BY DEF Pins!SnapshotEdited, Pins!dependentVars, Pins!targetVars
<1>3. ASSUME NEW pin, NEW s, Tells(pin, s) PROVE Tells(pin, s)'
    BY <1>2, <1>3 DEF Tells, Pins!Provisional, Pins!Interface, Pins!WithKind
<1> QED
    BY <1>1, <1>2, <1>3 DEF PinsInv

(* A pin is taken on what the target says now.                              *)
LEMMA ReviewStep == PinsInv /\ Pins!RequestReview => PinsInv'
<1> SUFFICES ASSUME PinsInv, Pins!RequestReview PROVE PinsInv'
    OBVIOUS
<1>1. /\ dependent' = [dependent EXCEPT !.snapshots = @ + 1] /\ stored' = Pins!Taken /\ seen' = says
      /\ UNCHANGED <<says, decidedOn, changes, kind, target, signed, accepted>>
    BY DEF Pins!RequestReview, Pins!targetVars
<1>2. Tells(Pins!Taken, says)
    BY RefreshedTells DEF Pins!Taken, Tells
<1>3. Versioned(dependent') /\ dependent'.accepts = dependent.accepts
    BY <1>1, VersionedChanges DEF PinsInv
<1>4. ASSUME NEW pin, NEW s, Tells(pin, s) PROVE Tells(pin, s)'
    BY <1>1, <1>4 DEF Tells, Pins!Provisional, Pins!Interface, Pins!WithKind
<1>5. PICK pin, s : pin = Pins!Taken /\ s = says
    OBVIOUS
<1>6. Tells(pin, s)'
    BY <1>2, <1>4, <1>5
<1>7. Tells(stored, seen)'
    BY <1>1, <1>5, <1>6
<1> QED
    BY <1>1, <1>3, <1>4, <1>7 DEF PinsInv

(* An Acceptance signs the pin, brought up to the target's own when that    *)
(* came since and the pin is still current.                                 *)
LEMMA DecideStep ==
    ASSUME PinsInv, NEW accept \in BOOLEAN, Pins!Decide(accept)
    PROVE  PinsInv'
<1> DEFINE against == Pins!AcceptedAgainst(stored)
<1>1. /\ Versioned(dependent') /\ dependent'.accepts = accept /\ dependent'.snapshots = dependent.snapshots
      /\ dependent.snapshots # 0
    BY VersionedChanges, DecidedVersioned DEF PinsInv, Pins!Decide
<1>2. decidedOn' = TRUE /\ UNCHANGED <<says, changes, kind, target, seen>>
    BY DEF Pins!Decide
<1>3. Tells(stored, seen) /\ seen \in Said /\ says \in Said /\ changes \in Nat
    BY <1>1 DEF PinsInv
<1>4. Tells(against, seen)
    <2>1. CASE stored.version = 0 /\ Pins!Accepted(target) /\ Pins!Current(stored)
        <3>1. seen = says
            BY <1>3, <2>1, CurrentTells
        <3> QED
            BY <2>1, <3>1, RefreshedTells DEF Pins!AcceptedAgainst
    <2>2. CASE ~ (stored.version = 0 /\ Pins!Accepted(target) /\ Pins!Current(stored))
        BY <1>3, <2>2 DEF Pins!AcceptedAgainst
    <2> QED
        BY <2>1, <2>2
<1>5. against = stored \/ (against = Pins!Refreshed /\ Tells([against EXCEPT !.at = changes], seen))
    <2>1. CASE against # stored
        <3>1. against = Pins!Refreshed /\ Pins!Accepted(target) /\ seen = says
            BY <1>3, <2>1, CurrentTells DEF Pins!AcceptedAgainst
        <3>2. [Pins!Refreshed EXCEPT !.at = changes] = Pins!Refreshed
            BY DEF Pins!Refreshed
        <3> QED
            BY <1>4, <3>1, <3>2
    <2> QED
        BY <2>1
<1> HIDE DEF against
<1>6. ASSUME NEW pin, NEW s, Tells(pin, s) PROVE Tells(pin, s)'
    BY <1>2, <1>6 DEF Tells, Pins!Provisional, Pins!Interface, Pins!WithKind
<1>7. PICK a, e, b : a = against /\ e = seen /\ b = [against EXCEPT !.at = changes]
    OBVIOUS
<1>8. Tells(a, e)' /\ (against # stored => Tells(b, e)')
    BY <1>4, <1>5, <1>6, <1>7
<1>9. CASE accept
    <2>1. /\ signed' = against /\ accepted' = seen
          /\ stored' = IF against = stored THEN stored ELSE [against EXCEPT !.at = changes]
        BY <1>9 DEF Pins!Decide, against
    <2>2. Tells(signed, accepted)' /\ Tells(stored, seen)' /\ accepted' \in Said
        BY <1>2, <1>3, <1>7, <1>8, <2>1
    <2> QED
        BY <1>1, <1>2, <2>2 DEF PinsInv
<1>10. CASE ~ accept
    <2>1. stored' = stored /\ accepted' = accepted
        BY <1>10 DEF Pins!Decide
    <2>2. PICK pin : pin = stored
        OBVIOUS
    <2>3. Tells(stored, seen)'
        BY <1>2, <1>3, <1>6, <1>7, <2>1, <2>2
    <2> QED
        BY <1>1, <1>2, <1>10, <2>1, <2>3 DEF PinsInv
<1> QED
    BY <1>9, <1>10

LEMMA PinsStep == PinsInv /\ [Pins!Next]_(Pins!vars) => PinsInv'
<1> SUFFICES ASSUME PinsInv, [Pins!Next]_(Pins!vars) PROVE PinsInv'
    OBVIOUS
<1>1. CASE UNCHANGED Pins!vars
    BY <1>1 DEF Pins!vars, PinsInv, Tells, Pins!Provisional, Pins!Interface, Pins!WithKind
<1>2. FALSE \in BOOLEAN
    OBVIOUS
<1> QED
    BY <1>1, <1>2, ChangeStep, TargetSteps, EditedStep, ReviewStep, DecideStep DEF Pins!Next, Said
-----------------------------------------------------------------------------
(* Of the naturals, every set has its least, and one that is bounded its    *)
(* greatest.                                                                *)
LEMMA LeastNatural ==
    ASSUME NEW T \in SUBSET Nat, T # {}
    PROVE  \E x \in T : \A y \in T : x <= y
<1> DEFINE R == StrictSubsetOrdering(Nat)
           Initial == {1 .. x : x \in T}
<1>1. IsWellFoundedOn(R, FiniteSubsetsOf(Nat))
    BY FS_StrictSubsetOrderingWellFounded
<1>2. Initial \subseteq FiniteSubsetsOf(Nat) /\ Initial # {}
    <2>1. ASSUME NEW x \in T PROVE 1 .. x \in FiniteSubsetsOf(Nat)
        <3>1. IsFiniteSet(1 .. x) /\ 1 .. x \in SUBSET Nat
            BY FS_Interval
        <3> QED
            BY <3>1 DEF FiniteSubsetsOf
    <2> QED
        BY <2>1
<1>3. \A x, y \in T : y < x => <<1 .. y, 1 .. x>> \in R
    <2> SUFFICES ASSUME NEW x \in T, NEW y \in T, y < x PROVE <<1 .. y, 1 .. x>> \in R
        OBVIOUS
    <2>1. x \in 1 .. x /\ x \notin 1 .. y /\ 1 .. y \subseteq 1 .. x
        OBVIOUS
    <2> QED
        BY <2>1 DEF StrictSubsetOrdering
<1> HIDE DEF R
<1>4. PICK I \in Initial : \A J \in Initial : ~ (<<J, I>> \in R)
    <2> HIDE DEF Initial
    <2> QED
        BY <1>1, <1>2, WFMin
<1>5. PICK x \in T : I = 1 .. x
    OBVIOUS
<1>6. \A y \in T : ~ (y < x)
    BY <1>3, <1>4, <1>5
<1> QED
    BY <1>6

LEMMA GreatestNatural ==
    ASSUME NEW n \in Nat, NEW S \in SUBSET (0 .. n), S # {}
    PROVE  \E i \in S : \A j \in S : i >= j
<1> DEFINE T == {n - i : i \in S}
<1>1. T \in SUBSET Nat /\ T # {}
    <2>1. \A i \in S : n - i \in Nat
        OBVIOUS
    <2> QED
        BY <2>1
<1>2. PICK x \in T : \A y \in T : x <= y
    BY <1>1, LeastNatural
<1>3. PICK i \in S : x = n - i
    OBVIOUS
<1>4. \A j \in S : i >= j
    BY <1>2, <1>3
<1> QED
    BY <1>4

-----------------------------------------------------------------------------
(* Vault: a request writes a version of its own.                            *)

Writing == {"files", "manifest", "archive", "commit"}

(* What a version's folder holds.                                           *)
Folder(s) ==
    s = [files |-> s.files, names |-> s.names, marked |-> s.marked, runs |-> s.runs, state |-> s.state]

(* A row's digest is that of what its request read.                         *)
RowsRead ==
    \A v \in Frozen!Rows : frozen[v].sha = Frozen!Digest(frozen[v].read, frozen[v].exec)
                           /\ "unreadable" \notin frozen[v].exec

(* A folder whose digest is that of what was read holds what was read.      *)
LEMMA DigestTells ==
    ASSUME NEW s, NEW read, NEW ran, "unreadable" \notin ran,
           Frozen!FolderDigest(s) = Frozen!Digest(read, ran)
    PROVE  /\ s.state = "whole" /\ s.names \subseteq DOMAIN s.files /\ s.marked \subseteq s.runs
           /\ [p \in s.names |-> s.files[p]] = read /\ s.marked = ran
<1>1. Frozen!Unreadable # Frozen!Digest(read, ran)
    <2>1. Frozen!Unreadable.executable = {"unreadable"} /\ Frozen!Digest(read, ran).executable = ran
        BY DEF Frozen!Unreadable, Frozen!Digest
    <2> QED
        BY <2>1
<1>2. /\ s.state = "whole" /\ s.names \subseteq DOMAIN s.files /\ s.marked \subseteq s.runs
      /\ Frozen!FolderDigest(s) = Frozen!Digest([p \in s.names |-> s.files[p]], s.marked)
    BY <1>1 DEF Frozen!FolderDigest
<1>3. PICK f : f = [p \in s.names |-> s.files[p]]
    OBVIOUS
<1>4. Frozen!Digest(f, s.marked) = Frozen!Digest(read, ran)
    BY <1>2, <1>3
<1>5. f = read /\ s.marked = ran
    BY <1>4 DEF Frozen!Digest
<1> QED
    BY <1>2, <1>3, <1>5

(* Unreadable is no digest of what was read.                                *)
LEMMA UnreadableIsNone ==
    ASSUME NEW read, NEW ran, "unreadable" \notin ran
    PROVE  Frozen!Unreadable # Frozen!Digest(read, ran)
<1>1. Frozen!Unreadable.executable = {"unreadable"} /\ Frozen!Digest(read, ran).executable = ran
    BY DEF Frozen!Unreadable, Frozen!Digest
<1> QED
    BY <1>1

(* What an exchange takes of a folder.                                      *)
LEMMA ExportedHolds ==
    ASSUME NEW s, Folder(s)
    PROVE  /\ Folder(Frozen!Exported(s))
           /\ Frozen!Exported(s).state = "whole" => Frozen!Withheld(s) = {}
           /\ \A p \in DOMAIN Frozen!Exported(s).files \cup Frozen!Exported(s).names : p # "secret"
<1>1. PICK x : x = Frozen!Exported(s)
    OBVIOUS
<1>2. x = [files |-> [p \in Frozen!Carried(s) |-> s.files[p]], names |-> s.names \ Frozen!Withheld(s),
           marked |-> s.marked \ Frozen!Withheld(s), runs |-> s.marked \ Frozen!Withheld(s),
           state |-> IF s.state = "whole" /\ Frozen!Withheld(s) # {} THEN "unverifiable" ELSE s.state]
    BY <1>1 DEF Folder, Frozen!Exported
<1>3. /\ x.files = [p \in Frozen!Carried(s) |-> s.files[p]] /\ x.names = s.names \ Frozen!Withheld(s)
      /\ x.state = (IF s.state = "whole" /\ Frozen!Withheld(s) # {} THEN "unverifiable" ELSE s.state)
      /\ Folder(x)
    BY <1>2 DEF Folder
<1>4. \A p \in Frozen!Carried(s) : p # "secret"
    BY DEF Frozen!Carried, Frozen!FrozenFile, Frozen!IsSecret
<1>5. \A p \in DOMAIN x.files \cup x.names : p # "secret"
    BY <1>3, <1>4 DEF Frozen!Withheld
<1> QED
    BY <1>1, <1>3, <1>5

(* What arrives of a folder x with the flags of a bundle reads as sha only   *)
(* if it is what was read, flags and all.                                   *)
LEMMA ArrivesAsRead ==
    ASSUME NEW x, Folder(x), NEW read, NEW ran, "unreadable" \notin ran, NEW flags, NEW withheld \in BOOLEAN,
           withheld => x.state # "whole",
           NEW there, there = Frozen!Arrives(x, Frozen!Digest(read, ran), flags, withheld)
    PROVE  /\ there.names = x.names /\ there.files = x.files
           /\ there.state # Frozen!NotImported /\ Frozen!FolderDigest(there) = Frozen!Digest(read, ran) =>
                /\ there.state = "whole" /\ [p \in there.names |-> there.files[p]] = read
                /\ ran \subseteq there.runs /\ flags = ran
<1> DEFINE sha == Frozen!Digest(read, ran)
           digest == Frozen!CarriedDigest(x, flags)
           plain == Frozen!FolderDigest([x EXCEPT !.runs = x.marked])
<1>1. \/ there = [x EXCEPT !.runs = flags, !.state = "unverifiable"]
      \/ there = [x EXCEPT !.runs = flags] /\ (digest = sha \/ withheld)
      \/ there = [x EXCEPT !.state = Frozen!NotImported]
    BY DEF Frozen!Arrives
<1>2. /\ \A y : y = [x EXCEPT !.runs = flags, !.state = "unverifiable"] =>
               y.names = x.names /\ y.files = x.files /\ y.state = "unverifiable"
      /\ \A y : y = [x EXCEPT !.state = Frozen!NotImported] =>
               y.names = x.names /\ y.files = x.files /\ y.state = Frozen!NotImported
      /\ \A y : y = [x EXCEPT !.runs = flags] =>
               y.names = x.names /\ y.files = x.files /\ y.state = x.state /\ y.runs = flags /\ y.marked = x.marked
    BY DEF Folder
<1>3. there.names = x.names /\ there.files = x.files
    BY <1>1, <1>2
<1>4. ASSUME there.state # Frozen!NotImported, Frozen!FolderDigest(there) = sha
      PROVE  /\ there.state = "whole" /\ [p \in there.names |-> there.files[p]] = read
             /\ ran \subseteq there.runs /\ flags = ran
    <2>1. /\ there.state = "whole" /\ there.marked \subseteq there.runs
          /\ [p \in there.names |-> there.files[p]] = read /\ there.marked = ran
        BY <1>4, DigestTells
    <2>2. there = [x EXCEPT !.runs = flags] /\ (digest = sha \/ withheld)
        BY <1>1, <1>2, <1>4, <2>1
    <2>3. there.state = x.state /\ there.marked = x.marked /\ there.runs = flags
        BY <1>2, <2>2
    <2>4. digest = sha
        BY <2>1, <2>2, <2>3
    <2>5. x.marked = flags
        BY <2>4, UnreadableIsNone DEF Frozen!CarriedDigest
    <2> QED
        BY <2>1, <2>3, <2>5
<1> QED
    BY <1>3, <1>4

LEMMA VaultCounts ==
    ASSUME RowsRead, \A v \in Frozen!Rows : Folder(disk[v])
    PROVE  Frozen!CountsAsFrozen
<1> SUFFICES ASSUME NEW v \in Frozen!Rows
             PROVE  /\ Frozen!FolderDigest(disk[v]) = frozen[v].sha =>
                         /\ disk[v].state = "whole" /\ [p \in disk[v].names |-> disk[v].files[p]] = frozen[v].read
                         /\ frozen[v].exec \subseteq disk[v].runs
                    /\ \A flags \in {{}, {"work"}, disk[v].marked} :
                         LET there == Frozen!Elsewhere(v, flags) IN
                         /\ there.state # Frozen!NotImported /\ Frozen!FolderDigest(there) = frozen[v].sha =>
                              /\ there.state = "whole" /\ [p \in there.names |-> there.files[p]] = frozen[v].read
                              /\ frozen[v].exec \subseteq there.runs /\ flags = frozen[v].exec
                         /\ \A p \in DOMAIN there.files \cup there.names : p # "secret"
    BY DEF Frozen!CountsAsFrozen, Frozen!IsSecret
<1>1. PICK read, ran : read = frozen[v].read /\ ran = frozen[v].exec
    OBVIOUS
<1>2. frozen[v].sha = Frozen!Digest(read, ran) /\ "unreadable" \notin ran
    BY <1>1 DEF RowsRead
<1>3. Frozen!FolderDigest(disk[v]) = frozen[v].sha =>
         /\ disk[v].state = "whole" /\ [p \in disk[v].names |-> disk[v].files[p]] = frozen[v].read
         /\ frozen[v].exec \subseteq disk[v].runs
    BY <1>1, <1>2, DigestTells
<1>4. ASSUME NEW flags \in {{}, {"work"}, disk[v].marked}, NEW there, there = Frozen!Elsewhere(v, flags)
      PROVE  /\ there.state # Frozen!NotImported /\ Frozen!FolderDigest(there) = frozen[v].sha =>
                  /\ there.state = "whole" /\ [p \in there.names |-> there.files[p]] = frozen[v].read
                  /\ frozen[v].exec \subseteq there.runs /\ flags = frozen[v].exec
             /\ \A p \in DOMAIN there.files \cup there.names : p # "secret"
    <2>1. PICK s, x, withheld : s = disk[v] /\ x = Frozen!Exported(s) /\ withheld = (Frozen!Withheld(s) # {})
        OBVIOUS
    <2>2. /\ Folder(x) /\ withheld \in BOOLEAN /\ (withheld => x.state # "whole")
          /\ \A p \in DOMAIN x.files \cup x.names : p # "secret"
        BY <2>1, ExportedHolds
    <2>3. there = Frozen!Arrives(x, Frozen!Digest(read, ran), flags, withheld)
        BY <1>2, <1>4, <2>1 DEF Frozen!Elsewhere
    <2> QED
        BY <1>1, <1>2, <2>2, <2>3, ArrivesAsRead
<1> QED
    BY <1>3, <1>4

LEMMA VaultTells ==
    ASSUME RowsRead
    PROVE  Frozen!InputsTell
<1> SUFFICES ASSUME NEW v \in Frozen!Rows, Frozen!FolderDigest(disk[v]) = frozen[v].sha
             PROVE  LET now == Frozen!WorkingFiles(TRUE) IN
                    Frozen!WorkingInputs(TRUE) = Frozen!FrozenInputs(disk[v]) <=>
                      /\ Frozen!InputsOf(now) = Frozen!InputsOf(frozen[v].read)
                      /\ \A p \in Frozen!InputsOf(now) :
                            now[p] = frozen[v].read[p] /\ (p \in exec <=> p \in frozen[v].exec)
    BY DEF Frozen!InputsTell
<1>1. PICK s, read, ran, now, scanned :
         /\ s = disk[v] /\ read = frozen[v].read /\ ran = frozen[v].exec
         /\ now = Frozen!WorkingFiles(TRUE) /\ scanned = Frozen!Scanned(TRUE)
    OBVIOUS
<1>2. /\ s.state = "whole" /\ s.names \subseteq DOMAIN s.files
      /\ [p \in s.names |-> s.files[p]] = read /\ s.marked = ran
    BY <1>1, DigestTells DEF RowsRead
<1>3. DOMAIN read = s.names /\ \A p \in s.names : read[p] = s.files[p]
    BY <1>2
<1>4. Frozen!InputsOf(now) \subseteq scanned /\ DOMAIN now = scanned
    BY <1>1 DEF Frozen!InputsOf, Frozen!WorkingFiles
<1> DEFINE theirs == [p \in Frozen!InputsOf(read) |-> read[p]]
           ours == [p \in Frozen!InputsOf(now) |-> now[p]]
<1>5. Frozen!FrozenInputs(s) = Frozen!Digest(theirs, ran \cap Frozen!InputsOf(read))
    <2>1. [p \in s.names \cap DOMAIN s.files |-> s.files[p]] = read
        BY <1>2
    <2>2. {p \in s.names : Frozen!Role(p) = "input"} \subseteq DOMAIN s.files
        BY <1>2
    <2> QED
        BY <1>2, <2>1, <2>2 DEF Frozen!FrozenInputs, Frozen!InputsDigest
<1>6. Frozen!WorkingInputs(TRUE) = Frozen!Digest(ours, (exec \cap scanned) \cap Frozen!InputsOf(now))
    BY <1>1 DEF Frozen!WorkingInputs, Frozen!InputsDigest, Frozen!WorkingExec
<1>7. Frozen!WorkingInputs(TRUE) = Frozen!FrozenInputs(s) <=>
        ours = theirs /\ (exec \cap scanned) \cap Frozen!InputsOf(now) = ran \cap Frozen!InputsOf(read)
    <2>1. PICK f, g, x, y : /\ f = ours /\ g = theirs
                            /\ x = (exec \cap scanned) \cap Frozen!InputsOf(now) /\ y = ran \cap Frozen!InputsOf(read)
        OBVIOUS
    <2>2. Frozen!Digest(f, x) = Frozen!Digest(g, y) <=> f = g /\ x = y
        BY DEF Frozen!Digest
    <2> QED
        BY <1>5, <1>6, <2>1, <2>2
<1>8. ours = theirs <=> /\ Frozen!InputsOf(now) = Frozen!InputsOf(read)
                        /\ \A p \in Frozen!InputsOf(now) : now[p] = read[p]
    <2>1. DOMAIN ours = Frozen!InputsOf(now) /\ DOMAIN theirs = Frozen!InputsOf(read)
        OBVIOUS
    <2>2. \A p \in Frozen!InputsOf(now) : ours[p] = now[p]
        OBVIOUS
    <2>3. \A p \in Frozen!InputsOf(read) : theirs[p] = read[p]
        OBVIOUS
    <2>4. /\ Frozen!InputsOf(now) = Frozen!InputsOf(read)
          /\ \A p \in Frozen!InputsOf(now) : now[p] = read[p]
          => ours = theirs
        OBVIOUS
    <2> HIDE DEF ours, theirs
    <2> QED
        BY <2>1, <2>2, <2>3, <2>4
<1>9. Frozen!InputsOf(now) = Frozen!InputsOf(read) =>
        ((exec \cap scanned) \cap Frozen!InputsOf(now) = ran \cap Frozen!InputsOf(read) <=>
           \A p \in Frozen!InputsOf(now) : p \in exec <=> p \in ran)
    BY <1>4
<1> HIDE DEF ours, theirs
<1> QED
    BY <1>1, <1>7, <1>8, <1>9

(* A request: it writes with the lock alone, to a version with no row.      *)
Request(p, r) ==
    /\ r = [at |-> r.at, todo |-> r.todo, got |-> r.got, exec |-> r.exec, computation |-> r.computation,
            version |-> r.version]
    /\ "unreadable" \notin r.exec
    /\ writer = p <=> r.at \in Writing
    /\ r.at \in Writing => r.version \in (1 .. MaxVersions) \ Frozen!Rows

VaultInv ==
    /\ "unreadable" \notin exec
    /\ disk = [v \in 1 .. MaxVersions |-> disk[v]] /\ \A v \in 1 .. MaxVersions : Folder(disk[v])
    /\ pdf = [v \in 1 .. MaxVersions |-> pdf[v]]
    /\ frozen = [v \in 1 .. MaxVersions |-> frozen[v]] /\ RowsRead
    /\ req = [p \in Callers |-> req[p]] /\ \A p \in Callers : Request(p, req[p])

(* What a step leaves of the versions with a row.                           *)
VersionsHold ==
    \A v \in Frozen!Rows : /\ frozen'[v] = frozen[v] /\ pdf'[v] = pdf[v]
                           /\ damage' = damage => disk'[v] = disk[v]

LEMMA NobodyIsNoCaller == Frozen!NoOne \notin Callers
BY RecordsAssumption DEF Frozen!NoOne

LEMMA VaultInit == Frozen!Init => VaultInv
<1> SUFFICES ASSUME Frozen!Init PROVE VaultInv
    OBVIOUS
<1>a. PICK old \in {{}, {"work", "ideas", "secret"}} :
         LET files == [p \in old |-> "first"] IN
         /\ disk = [v \in 1 .. MaxVersions |-> IF v = 1 /\ old # {}
              THEN [files |-> files, names |-> old, marked |-> {"work"}, runs |-> {"work"}, state |-> "whole"]
              ELSE Frozen!NoFolder]
         /\ frozen = [v \in 1 .. MaxVersions |-> IF v = 1 /\ old # {}
              THEN [sha |-> Frozen!Digest(files, {"work"}), read |-> files, exec |-> {"work"}]
              ELSE Frozen!NoRow]
    BY DEF Frozen!Init
<1>b. PICK files : files = [p \in old |-> "first"]
    OBVIOUS
<1>1. /\ disk = [v \in 1 .. MaxVersions |-> IF v = 1 /\ old # {}
            THEN [files |-> files, names |-> old, marked |-> {"work"}, runs |-> {"work"}, state |-> "whole"]
            ELSE Frozen!NoFolder]
      /\ frozen = [v \in 1 .. MaxVersions |-> IF v = 1 /\ old # {}
            THEN [sha |-> Frozen!Digest(files, {"work"}), read |-> files, exec |-> {"work"}]
            ELSE Frozen!NoRow]
    BY <1>a, <1>b, Zenon
<1>2. \A v \in 1 .. MaxVersions : Folder(disk[v])
    BY <1>1 DEF Folder, Frozen!NoFolder
<1>3. RowsRead
    BY <1>1 DEF RowsRead, Frozen!Rows
<1>4. disk = [v \in 1 .. MaxVersions |-> disk[v]] /\ frozen = [v \in 1 .. MaxVersions |-> frozen[v]]
    BY <1>1
<1>5. /\ exec = {"work"} /\ pdf = [v \in 1 .. MaxVersions |-> FALSE]
      /\ req = [p \in Callers |-> Frozen!Idle] /\ writer = Frozen!NoOne
    BY DEF Frozen!Init
<1>6. \A p \in Callers : Request(p, req[p])
    BY <1>5, NobodyIsNoCaller DEF Request, Writing, Frozen!Idle
<1> QED
    BY <1>2, <1>3, <1>4, <1>5, <1>6 DEF VaultInv

(* A request goes on to r, and what it wrote is no version with a row.      *)
LEMMA RequestGoes ==
    ASSUME VaultInv, NEW p \in Callers, NEW r, req' = [req EXCEPT ![p] = r], Request(p, r)',
           exec' = exec, frozen' = frozen,
           disk' = [v \in 1 .. MaxVersions |-> disk'[v]], \A v \in 1 .. MaxVersions : Folder(disk'[v]),
           pdf' = [v \in 1 .. MaxVersions |-> pdf'[v]],
           \A q \in Callers \ {p} : writer' = q <=> writer = q
    PROVE  VaultInv'
<1>1. req'[p] = r /\ req' = [q \in Callers |-> req'[q]] /\ \A q \in Callers \ {p} : req'[q] = req[q]
    BY DEF VaultInv
<1>2. Frozen!Rows' = Frozen!Rows
    BY DEF Frozen!Rows
<1>3. RowsRead'
    BY <1>2 DEF VaultInv, RowsRead
<1>4. ASSUME NEW q \in Callers \ {p} PROVE Request(q, req[q])'
    <2>1. Request(q, req[q]) /\ req'[q] = req[q] /\ (writer' = q <=> writer = q)
        BY <1>1 DEF VaultInv
    <2> QED
        BY <1>2, <2>1 DEF Request
<1> QED
    BY <1>1, <1>3, <1>4 DEF VaultInv

(* The version a request takes has no row.                                  *)
LEMMA NextIsNew == Frozen!NextVersion \notin Frozen!Rows
<1> DEFINE taken == Frozen!Rows \cup Frozen!OnDisk
<1>1. taken \subseteq 1 .. MaxVersions /\ MaxVersions \in Nat
    BY RecordsAssumption DEF Frozen!Rows, Frozen!OnDisk
<1>2. CASE taken = {}
    BY <1>2
<1>3. CASE taken # {}
    <2> DEFINE newest == CHOOSE v \in taken : \A w \in taken : w <= v
    <2>1. \E v \in taken : \A w \in taken : w <= v
        <3>1. taken \in SUBSET (0 .. MaxVersions)
            BY <1>1
        <3>2. PICK v \in taken : \A w \in taken : v >= w
            BY <1>1, <1>3, <3>1, GreatestNatural
        <3>3. \A w \in taken : w <= v
            BY <1>1, <3>2
        <3> QED
            BY <3>3
    <2>2. newest \in taken /\ \A w \in taken : w <= newest
        BY <2>1
    <2>3. Frozen!NextVersion = 1 + newest
        BY <1>3 DEF Frozen!NextVersion
    <2> HIDE DEF newest
    <2>4. 1 + newest \notin taken
        BY <1>1, <2>2
    <2> QED
        BY <2>3, <2>4
<1> QED
    BY <1>2, <1>3

(* The folder's edits and builds leave the snapshots alone.                 *)
LEMMA FolderSteps ==
    ASSUME VaultInv, NEW f, Frozen!Edit(f) \/ Frozen!Chmod \/ Frozen!SetMedium \/ Frozen!Compile
    PROVE  VaultInv' /\ VersionsHold
<1>1. /\ UNCHANGED <<disk, pdf, frozen, req, writer>> /\ "unreadable" \notin exec'
    BY DEF VaultInv, Frozen!Edit, Frozen!Chmod, Frozen!SetMedium, Frozen!Compile
<1> QED
    BY <1>1 DEF VaultInv, VersionsHold, RowsRead, Request, Frozen!Rows

(* A request reads.                                                         *)
LEMMA ReadSteps ==
    ASSUME VaultInv, NEW p \in Callers, Frozen!Begins(p) \/ Frozen!Reads(p) \/ Frozen!ReadsModes(p)
    PROVE  VaultInv' /\ VersionsHold
<1>t. Request(p, req[p]) /\ "unreadable" \notin exec
    BY DEF VaultInv
<1>1. UNCHANGED <<disk, pdf, frozen, writer, exec>>
    BY DEF Frozen!Begins, Frozen!Reads, Frozen!ReadsModes, Frozen!RequestUnchanged
<1>2. req[p].at \notin Writing
    BY DEF Frozen!Begins, Frozen!Reads, Frozen!ReadsModes, Writing, Frozen!Idle
<1>3. \E r : /\ req' = [req EXCEPT ![p] = r] /\ r.at \notin Writing /\ "unreadable" \notin r.exec
             /\ r = [at |-> r.at, todo |-> r.todo, got |-> r.got, exec |-> r.exec, computation |-> r.computation,
                     version |-> r.version]
    <2>0. /\ Frozen!Idle.at \notin Writing /\ "unreadable" \notin Frozen!Idle.exec
          /\ Frozen!Idle = [at |-> Frozen!Idle.at, todo |-> Frozen!Idle.todo, got |-> Frozen!Idle.got,
                            exec |-> Frozen!Idle.exec, computation |-> Frozen!Idle.computation,
                            version |-> Frozen!Idle.version]
        BY DEF Frozen!Idle, Writing
    <2>1. CASE Frozen!Begins(p)
        <3>1. PICK c, r : r = [Frozen!Idle EXCEPT !.at = "reads", !.todo = Frozen!Present(c), !.computation = c]
                          /\ req' = [req EXCEPT ![p] = r]
            BY <2>1 DEF Frozen!Begins
        <3>2. PICK todo : todo = Frozen!Present(c)
            OBVIOUS
        <3>3. r = [at |-> "reads", todo |-> todo, got |-> <<>>, exec |-> {}, computation |-> c, version |-> 0]
            BY <3>1, <3>2 DEF Frozen!Idle
        <3>4. /\ r.at \notin Writing /\ "unreadable" \notin r.exec
              /\ r = [at |-> r.at, todo |-> r.todo, got |-> r.got, exec |-> r.exec, computation |-> r.computation,
                      version |-> r.version]
            BY <3>3 DEF Writing
        <3> QED
            BY <3>1, <3>4
    <2>2. CASE Frozen!Refused(p)
        BY <2>0, <2>2 DEF Frozen!Refused
    <2>3. CASE Frozen!Reads(p) /\ ~ Frozen!Refused(p)
        <3>1. PICK todo, got : req' = [req EXCEPT ![p].todo = todo, ![p].got = got]
            BY <2>3 DEF Frozen!Reads
        <3>2. PICK r : r = [req[p] EXCEPT !.todo = todo, !.got = got]
            OBVIOUS
        <3>3. req' = [req EXCEPT ![p] = r]
            BY <3>1, <3>2
        <3>4. /\ r.at = req[p].at /\ r.exec = req[p].exec
              /\ r = [at |-> r.at, todo |-> r.todo, got |-> r.got, exec |-> r.exec, computation |-> r.computation,
                      version |-> r.version]
            BY <1>t, <3>2 DEF Request
        <3> QED
            BY <1>t, <1>2, <3>3, <3>4 DEF Request
    <2>4. CASE Frozen!ReadsModes(p) /\ ~ Frozen!Refused(p)
        <3>1. PICK bits : req' = [req EXCEPT ![p].at = "read", ![p].exec = bits] /\ "unreadable" \notin bits
            BY <1>t, <2>4 DEF Frozen!ReadsModes
        <3>2. PICK r : r = [req[p] EXCEPT !.at = "read", !.exec = bits]
            OBVIOUS
        <3>3. req' = [req EXCEPT ![p] = r]
            BY <3>1, <3>2
        <3>4. /\ r.at = "read" /\ r.exec = bits
              /\ r = [at |-> r.at, todo |-> r.todo, got |-> r.got, exec |-> r.exec, computation |-> r.computation,
                      version |-> r.version]
            BY <1>t, <3>2 DEF Request
        <3> QED
            BY <3>1, <3>3, <3>4 DEF Writing
    <2> QED
        BY <2>1, <2>2, <2>3, <2>4
<1>4. PICK r : /\ req' = [req EXCEPT ![p] = r] /\ r.at \notin Writing /\ "unreadable" \notin r.exec
               /\ r = [at |-> r.at, todo |-> r.todo, got |-> r.got, exec |-> r.exec, computation |-> r.computation,
                       version |-> r.version]
    BY <1>3
<1>5. Request(p, r)'
    BY <1>t, <1>1, <1>2, <1>4 DEF Request
<1>6. VaultInv'
    BY <1>1, <1>4, <1>5, RequestGoes DEF VaultInv
<1> QED
    BY <1>1, <1>6 DEF VersionsHold

(* A request takes the lock and a version, and writes it.                   *)
LEMMA WritesSteps ==
    ASSUME VaultInv, NEW p \in Callers,
           Frozen!Locks(p) \/ Frozen!WritesFiles(p) \/ Frozen!WritesManifest(p) \/ Frozen!Archives(p)
    PROVE  VaultInv' /\ VersionsHold
<1>t. Request(p, req[p]) /\ p # Frozen!NoOne
    BY NobodyIsNoCaller DEF VaultInv
<1>s. Frozen!Idle.at \notin Writing /\ "unreadable" \notin Frozen!Idle.exec
      /\ Frozen!Idle = [at |-> Frozen!Idle.at, todo |-> Frozen!Idle.todo, got |-> Frozen!Idle.got,
                        exec |-> Frozen!Idle.exec, computation |-> Frozen!Idle.computation,
                        version |-> Frozen!Idle.version]
    BY DEF Frozen!Idle, Writing
<1>d. /\ disk = [v \in 1 .. MaxVersions |-> disk[v]] /\ \A v \in 1 .. MaxVersions : Folder(disk[v])
      /\ pdf = [v \in 1 .. MaxVersions |-> pdf[v]]
    BY DEF VaultInv
<1>1. CASE Frozen!Locks(p)
    <2>1. UNCHANGED <<disk, pdf, frozen, exec>> /\ req[p].at = "read" /\ writer = Frozen!NoOne
        BY <1>1 DEF Frozen!Locks, Frozen!RequestUnchanged
    <2>2. CASE Frozen!Refused(p) /\ UNCHANGED writer
        <3>1. PICK r : req' = [req EXCEPT ![p] = r] /\ r = Frozen!Idle
            BY <2>2 DEF Frozen!Refused
        <3>2. Request(p, r)'
            BY <1>s, <1>t, <2>1, <2>2, <3>1 DEF Request, Writing
        <3> QED
            BY <1>d, <2>1, <2>2, <3>1, <3>2, RequestGoes DEF VersionsHold
    <2>3. CASE ~ (Frozen!Refused(p) /\ UNCHANGED writer)
        <3>1. /\ Frozen!NextVersion \in 1 .. MaxVersions /\ writer' = p
              /\ req' = [req EXCEPT ![p].at = "files", ![p].version = Frozen!NextVersion]
            BY <1>1, <2>3 DEF Frozen!Locks
        <3>2. PICK v : v = Frozen!NextVersion
            OBVIOUS
        <3>3. PICK r : r = [req[p] EXCEPT !.at = "files", !.version = v]
            OBVIOUS
        <3>4. req' = [req EXCEPT ![p] = r]
            BY <3>1, <3>2, <3>3
        <3>5. /\ r.at = "files" /\ r.version = v /\ r.exec = req[p].exec
              /\ r = [at |-> r.at, todo |-> r.todo, got |-> r.got, exec |-> r.exec,
                      computation |-> r.computation, version |-> r.version]
            BY <1>t, <3>3 DEF Request
        <3>6. v \in (1 .. MaxVersions) \ Frozen!Rows /\ Frozen!Rows' = Frozen!Rows
            BY <2>1, <3>1, <3>2, NextIsNew DEF Frozen!Rows
        <3>7. Request(p, r)'
            BY <1>t, <3>1, <3>5, <3>6 DEF Request, Writing
        <3>8. \A q \in Callers \ {p} : writer' = q <=> writer = q
            BY <2>1, <3>1, NobodyIsNoCaller
        <3>9. VaultInv'
            BY <1>d, <2>1, <3>4, <3>7, <3>8, RequestGoes
        <3> QED
            BY <2>1, <3>9 DEF VersionsHold
    <2> QED
        BY <2>2, <2>3
<1>2. ASSUME NEW at \in {"manifest", "archive", "commit"}, req[p].at \in Writing,
             req' = [req EXCEPT ![p].at = at], UNCHANGED <<frozen, writer, exec>>,
             disk' = [v \in 1 .. MaxVersions |-> disk'[v]], pdf' = [v \in 1 .. MaxVersions |-> pdf'[v]],
             Folder(disk'[req[p].version]),
             \A v \in (1 .. MaxVersions) \ {req[p].version} : disk'[v] = disk[v] /\ pdf'[v] = pdf[v]
      PROVE  VaultInv' /\ VersionsHold
    <2>1. PICK r : r = [req[p] EXCEPT !.at = at]
        OBVIOUS
    <2>2. req' = [req EXCEPT ![p] = r]
        BY <1>2, <2>1
    <2>3. /\ r.at = at /\ r.version = req[p].version /\ r.exec = req[p].exec
          /\ r = [at |-> r.at, todo |-> r.todo, got |-> r.got, exec |-> r.exec,
                  computation |-> r.computation, version |-> r.version]
        BY <1>t, <2>1 DEF Request
    <2>4. Request(p, r)'
        BY <1>2, <1>t, <2>3 DEF Request, Writing, Frozen!Rows
    <2>5. \A v \in 1 .. MaxVersions : Folder(disk'[v])
        BY <1>2, <1>d
    <2>6. VaultInv'
        BY <1>2, <2>2, <2>4, <2>5, RequestGoes
    <2> QED
        BY <1>2, <1>t, <2>6 DEF VersionsHold, Request, Frozen!Rows
<1>3. CASE Frozen!WritesFiles(p)
    <2>1. /\ req[p].at = "files" /\ req' = [req EXCEPT ![p].at = "manifest"]
          /\ UNCHANGED <<frozen, writer, exec, pdf>>
        BY <1>3 DEF Frozen!WritesFiles, Frozen!RequestUnchanged
    <2>2. PICK s : /\ disk' = [disk EXCEPT ![req[p].version] = s]
                   /\ s = [files |-> req[p].got, names |-> {}, marked |-> {}, runs |-> req[p].exec, state |-> "unlisted"]
        BY <1>3 DEF Frozen!WritesFiles
    <2>3. Folder(s) /\ req[p].version \in 1 .. MaxVersions
        BY <1>t, <2>1, <2>2 DEF Folder, Request, Writing
    <2>4. disk' = [v \in 1 .. MaxVersions |-> disk'[v]] /\ disk'[req[p].version] = s
          /\ \A v \in (1 .. MaxVersions) \ {req[p].version} : disk'[v] = disk[v]
        BY <1>d, <2>2, <2>3
    <2> QED
        BY <1>2, <1>d, <2>1, <2>3, <2>4 DEF Writing
<1>4. CASE Frozen!WritesManifest(p)
    <2>1. /\ req[p].at = "manifest" /\ req' = [req EXCEPT ![p].at = "archive"]
          /\ UNCHANGED <<frozen, writer, exec, pdf>>
        BY <1>4 DEF Frozen!WritesManifest, Frozen!RequestUnchanged
    <2>2. PICK v : v = req[p].version
        OBVIOUS
    <2>3. v \in 1 .. MaxVersions /\ Folder(disk[v])
        BY <1>t, <1>d, <2>1, <2>2 DEF Request, Writing
    <2>4. disk' = [disk EXCEPT ![v].names = DOMAIN req[p].got, ![v].marked = req[p].exec, ![v].state = "whole"]
        BY <1>4, <2>2 DEF Frozen!WritesManifest
    <2>5. PICK s : s = [disk[v] EXCEPT !.names = DOMAIN req[p].got, !.marked = req[p].exec, !.state = "whole"]
        OBVIOUS
    <2>6. disk' = [disk EXCEPT ![v] = s]
        BY <2>4, <2>5
    <2>7. Folder(s)
        BY <2>3, <2>5 DEF Folder
    <2>8. disk' = [w \in 1 .. MaxVersions |-> disk'[w]] /\ disk'[v] = s
          /\ \A w \in (1 .. MaxVersions) \ {v} : disk'[w] = disk[w]
        BY <1>d, <2>3, <2>6
    <2> QED
        BY <1>2, <1>d, <2>1, <2>2, <2>7, <2>8 DEF Writing
<1>5. CASE Frozen!Archives(p)
    <2>1. /\ req[p].at = "archive" /\ req' = [req EXCEPT ![p].at = "commit"]
          /\ UNCHANGED <<frozen, writer, exec, disk>>
        BY <1>5 DEF Frozen!Archives, Frozen!RequestUnchanged
    <2>2. PICK b : pdf' = [pdf EXCEPT ![req[p].version] = b]
        BY <1>5 DEF Frozen!Archives
    <2>3. req[p].version \in 1 .. MaxVersions
        BY <1>t, <2>1 DEF Request, Writing
    <2>4. pdf' = [v \in 1 .. MaxVersions |-> pdf'[v]]
          /\ \A v \in (1 .. MaxVersions) \ {req[p].version} : pdf'[v] = pdf[v]
        BY <1>d, <2>2, <2>3
    <2> QED
        BY <1>2, <1>d, <2>1, <2>3, <2>4 DEF Writing
<1> QED
    BY <1>1, <1>3, <1>4, <1>5

(* A request ends: its row is written, its files go, or they are left.      *)
LEMMA EndSteps ==
    ASSUME VaultInv, NEW p \in Callers, Frozen!Commits(p) \/ Frozen!RollsBack(p) \/ Frozen!Dies(p)
    PROVE  VaultInv' /\ VersionsHold
<1>t. Request(p, req[p]) /\ p # Frozen!NoOne
    BY NobodyIsNoCaller DEF VaultInv
<1>d. /\ disk = [v \in 1 .. MaxVersions |-> disk[v]] /\ \A v \in 1 .. MaxVersions : Folder(disk[v])
      /\ pdf = [v \in 1 .. MaxVersions |-> pdf[v]]
    BY DEF VaultInv
<1>1. writer = p /\ req[p].at \in Writing /\ req[p].version \in (1 .. MaxVersions) \ Frozen!Rows
    BY <1>t DEF Request, Frozen!Commits, Frozen!RollsBack, Frozen!Dies, Writing
<1>2. PICK r : r = Frozen!Idle /\ req' = [req EXCEPT ![p] = r]
    BY DEF Frozen!Commits, Frozen!RollsBack, Frozen!Dies, Frozen!Refused
<1>3. r.at \notin Writing /\ "unreadable" \notin r.exec
      /\ r = [at |-> r.at, todo |-> r.todo, got |-> r.got, exec |-> r.exec, computation |-> r.computation,
              version |-> r.version]
    BY <1>2 DEF Frozen!Idle, Writing
<1>4. writer' = Frozen!NoOne /\ exec' = exec
    BY DEF Frozen!Commits, Frozen!RollsBack, Frozen!Dies, Frozen!RequestUnchanged
<1>5. Request(p, r)' /\ \A q \in Callers \ {p} : writer' = q <=> writer = q
    BY <1>t, <1>1, <1>3, <1>4, NobodyIsNoCaller DEF Request
<1>6. CASE Frozen!Dies(p)
    <2>1. UNCHANGED <<disk, pdf, frozen>>
        BY <1>6 DEF Frozen!Dies
    <2> QED
        BY <1>d, <1>2, <1>4, <1>5, <2>1, RequestGoes DEF VersionsHold
<1>7. CASE Frozen!RollsBack(p)
    <2>1. /\ disk' = [disk EXCEPT ![req[p].version] = Frozen!NoFolder]
          /\ pdf' = [pdf EXCEPT ![req[p].version] = FALSE] /\ frozen' = frozen
        BY <1>7 DEF Frozen!RollsBack
    <2>2. Folder(Frozen!NoFolder)
        BY DEF Folder, Frozen!NoFolder
    <2>3. /\ disk' = [v \in 1 .. MaxVersions |-> disk'[v]] /\ \A v \in 1 .. MaxVersions : Folder(disk'[v])
          /\ pdf' = [v \in 1 .. MaxVersions |-> pdf'[v]]
          /\ \A v \in (1 .. MaxVersions) \ {req[p].version} : disk'[v] = disk[v] /\ pdf'[v] = pdf[v]
        BY <1>d, <1>1, <2>1, <2>2
    <2>4. VaultInv'
        BY <1>2, <1>4, <1>5, <2>1, <2>3, RequestGoes
    <2> QED
        BY <1>1, <2>1, <2>3, <2>4 DEF VersionsHold, Frozen!Rows
<1>8. CASE Frozen!Commits(p)
    <2>1. PICK v : v = req[p].version
        OBVIOUS
    <2>2. PICK row : row = [sha |-> Frozen!Digest(req[p].got, req[p].exec), read |-> req[p].got, exec |-> req[p].exec]
        OBVIOUS
    <2>3. frozen' = [frozen EXCEPT ![v] = row] /\ UNCHANGED <<disk, pdf>>
        BY <1>8, <2>1, <2>2 DEF Frozen!Commits
    <2>4. /\ frozen' = [w \in 1 .. MaxVersions |-> frozen'[w]] /\ frozen'[v] = row
          /\ \A w \in (1 .. MaxVersions) \ {v} : frozen'[w] = frozen[w]
        BY <1>1, <2>1, <2>3 DEF VaultInv
    <2>5. row.sha = Frozen!Digest(row.read, row.exec) /\ "unreadable" \notin row.exec
        BY <1>t, <2>2 DEF Request
    <2>6. Frozen!Rows' \subseteq Frozen!Rows \cup {v}
        BY <2>4 DEF Frozen!Rows
    <2>7. RowsRead'
        BY <2>4, <2>5, <2>6 DEF VaultInv, RowsRead, Frozen!Rows
    <2>8. ASSUME NEW q \in Callers PROVE Request(q, req[q])'
        <3>1. CASE q = p
            BY <1>2, <1>5, <3>1 DEF VaultInv
        <3>2. CASE q # p
            <4>1. Request(q, req[q]) /\ req'[q] = req[q] /\ writer # q
                BY <1>1, <1>2, <3>2 DEF VaultInv
            <4> QED
                BY <1>5, <3>2, <4>1 DEF Request
        <3> QED
            BY <3>1, <3>2
    <2>9. req' = [q \in Callers |-> req'[q]]
        BY <1>2 DEF VaultInv
    <2> QED
        BY <1>1, <1>4, <2>1, <2>3, <2>4, <2>7, <2>8, <2>9 DEF VaultInv, VersionsHold, Frozen!Rows
<1> QED
    BY <1>6, <1>7, <1>8

(* What befalls a stored snapshot.                                          *)
LEMMA DamageStep ==
    ASSUME VaultInv, damage \in Nat, NEW v \in 1 .. MaxVersions, Frozen!Damage(v)
    PROVE  VaultInv' /\ VersionsHold
<1>1. PICK s \in Frozen!Damaged(disk[v]) : disk' = [disk EXCEPT ![v] = s]
    BY DEF Frozen!Damage
<1>2. Folder(disk[v]) /\ disk = [w \in 1 .. MaxVersions |-> disk[w]]
    BY DEF VaultInv
<1>3. Folder(s)
    <2>1. Folder(Frozen!NoFolder)
        BY DEF Folder, Frozen!NoFolder
    <2>2. PICK t : t = disk[v]
        OBVIOUS
    <2>3. s = Frozen!NoFolder \/ (\E f : s = [t EXCEPT !.files = f]) \/ \E x : s = [t EXCEPT !.runs = x]
        <3>1. \A p : [t EXCEPT !.files[p] = "edited"] = [t EXCEPT !.files = [t.files EXCEPT ![p] = "edited"]]
            OBVIOUS
        <3> QED
            BY <2>2, <3>1 DEF Frozen!Damaged
    <2>4. \A f : Folder([t EXCEPT !.files = f]) /\ Folder([t EXCEPT !.runs = f])
        BY <1>2, <2>2 DEF Folder
    <2> QED
        BY <2>1, <2>3, <2>4
<1>4. /\ disk' = [w \in 1 .. MaxVersions |-> disk'[w]] /\ \A w \in 1 .. MaxVersions : Folder(disk'[w])
    BY <1>1, <1>2, <1>3 DEF VaultInv
<1>5. UNCHANGED <<exec, pdf, frozen, req, writer>> /\ Frozen!Rows' = Frozen!Rows
    BY DEF Frozen!Damage, Frozen!Rows
<1>6. \A w : disk'[w] # disk[w] => damage' # damage
    <2>1. damage' = damage + 1
        BY DEF Frozen!Damage
    <2> QED
        BY <2>1
<1> QED
    BY <1>4, <1>5, <1>6 DEF VaultInv, VersionsHold, RowsRead, Request

LEMMA DamageCounted == damage \in Nat /\ [Frozen!Next]_(Frozen!vars) => damage' \in Nat
<1> SUFFICES ASSUME damage \in Nat, [Frozen!Next]_(Frozen!vars) PROVE damage' \in Nat
    OBVIOUS
<1>1. damage' = damage \/ damage' = damage + 1
    <2>1. CASE UNCHANGED Frozen!vars
        BY <2>1 DEF Frozen!vars
    <2>2. ASSUME NEW p \in Frozen!Paths, Frozen!Edit(p) PROVE damage' = damage
        BY <2>2 DEF Frozen!Edit
    <2>3. CASE Frozen!Chmod \/ Frozen!SetMedium \/ Frozen!Compile
        BY <2>3 DEF Frozen!Chmod, Frozen!SetMedium, Frozen!Compile
    <2>4. ASSUME NEW v \in 1 .. MaxVersions, Frozen!Damage(v) PROVE damage' = damage + 1
        BY <2>4 DEF Frozen!Damage
    <2>5. ASSUME NEW p \in Callers,
                 \/ Frozen!Begins(p) \/ Frozen!Reads(p) \/ Frozen!ReadsModes(p) \/ Frozen!Locks(p)
                 \/ Frozen!WritesFiles(p) \/ Frozen!WritesManifest(p) \/ Frozen!Archives(p)
                 \/ Frozen!Commits(p) \/ Frozen!RollsBack(p) \/ Frozen!Dies(p)
          PROVE  damage' = damage
        BY <2>5 DEF Frozen!Begins, Frozen!Reads, Frozen!ReadsModes, Frozen!Locks, Frozen!WritesFiles,
                    Frozen!WritesManifest, Frozen!Archives, Frozen!Commits, Frozen!RollsBack, Frozen!Dies,
                    Frozen!RequestUnchanged
    <2> QED
        BY <2>1, <2>2, <2>3, <2>4, <2>5 DEF Frozen!Next
<1> QED
    BY <1>1

LEMMA VaultStep ==
    VaultInv /\ damage \in Nat /\ [Frozen!Next]_(Frozen!vars) => VaultInv' /\ VersionsHold
<1> SUFFICES ASSUME VaultInv, damage \in Nat, [Frozen!Next]_(Frozen!vars) PROVE VaultInv' /\ VersionsHold
    OBVIOUS
<1>1. CASE UNCHANGED Frozen!vars
    BY <1>1 DEF Frozen!vars, VaultInv, VersionsHold, RowsRead, Request, Frozen!Rows
<1>2. CASE Frozen!Chmod \/ Frozen!SetMedium \/ Frozen!Compile \/ \E p \in Frozen!Paths : Frozen!Edit(p)
    BY <1>2, FolderSteps
<1> QED
    BY <1>1, <1>2, ReadSteps, WritesSteps, EndSteps, DamageStep DEF Frozen!Next

LEMMA VaultHolds == VaultInv => Frozen!CountsAsFrozen /\ Frozen!InputsTell
BY VaultCounts, VaultTells DEF VaultInv, Frozen!Rows
-----------------------------------------------------------------------------
(* Automation: what a run did is its plan so far, each action once.         *)

Actions == [kind : Automated!Kinds, status : {"planned", "simulated", "completed", "awaiting_approval", "rejected"},
            approved : BOOLEAN]
RunRecords ==
    [profile : Policies, mode : Automated!Modes,
     status : {"planned", "running", "waiting_for_review", "interrupted", "completed", "rejected", "rolled_back"},
     next : Nat, done : Seq(Nat), plan : Seq(Actions)]

Followed(r) ==
    /\ r \in RunRecords
    /\ r.done = [i \in 1 .. Len(r.done) |-> i] /\ r.next = Len(r.done) /\ Len(r.done) <= Len(r.plan)
    /\ r.status = "completed" => Len(r.done) = Len(r.plan)

(* Run q after k of the actions left of run r.                              *)
After(q, r, k) ==
    /\ Followed(q) /\ Len(q.plan) = Len(r.plan) /\ q.status # "completed"
    /\ ~ Automated!Stopped(q) => Len(q.done) = r.next + k

AutomatedInv ==
    /\ records \in Seq(RunRecords) /\ records # <<>> /\ \A i \in DOMAIN records : Followed(records[i])
    /\ reader \in [Runners -> Seq(RunRecords)]
    /\ \A p \in Runners : reader[p] # <<>> => Len(reader[p]) = 1 /\ Followed(reader[p][1])

LEMMA AutomatedHolds == AutomatedInv => Automated!OnceInOrder
<1> SUFFICES ASSUME AutomatedInv PROVE Automated!OnceInOrder
    OBVIOUS
<1>1. Len(records) \in DOMAIN records
    BY DEF AutomatedInv
<1>2. PICK r : r = records[Len(records)] /\ Followed(r)
    BY <1>1 DEF AutomatedInv
<1>3. Len(r.done) \in Nat
    BY <1>2 DEF Followed, RunRecords
<1>4. r.done = [i \in 1 .. Len(r.done) |-> i] /\ r.next >= Len(r.done)
      /\ (r.status = "completed" => Len(r.done) = Len(r.plan))
    BY <1>2, <1>3 DEF Followed
<1> QED
    BY <1>2, <1>4 DEF Automated!OnceInOrder, Automated!Newest

LEMMA AutomatedInit == Automated!Init => AutomatedInv
<1> SUFFICES ASSUME Automated!Init PROVE AutomatedInv
    OBVIOUS
<1>1. PICK r \in Automated!Runs : records = <<r>>
    BY DEF Automated!Init
<1>2. r.plan \in Seq(Actions) /\ Len(r.plan) \in Nat
    <2>1. PICK n \in 1 .. MaxActions : r.plan \in [1 .. n -> {Automated!Planned(k) : k \in Automated!Kinds}]
        BY <1>1 DEF Automated!Runs
    <2>2. {Automated!Planned(k) : k \in Automated!Kinds} \subseteq Actions
        <3> SUFFICES ASSUME NEW k \in Automated!Kinds PROVE Automated!Planned(k) \in Actions
            OBVIOUS
        <3> QED
            BY DEF Actions, Automated!Planned
    <2> QED
        BY <2>1, <2>2
<1>3. r = [profile |-> r.profile, mode |-> r.mode, status |-> "planned", next |-> 0, done |-> <<>>, plan |-> r.plan]
      /\ r.profile \in Policies /\ r.mode \in Automated!Modes
    BY <1>1 DEF Automated!Runs
<1>4. Followed(r)
    <2>1. r \in RunRecords
        <3>1. PICK profile, mode, todo :
                 /\ r = [profile |-> profile, mode |-> mode, status |-> "planned", next |-> 0, done |-> <<>>,
                         plan |-> todo]
                 /\ profile \in Policies /\ mode \in Automated!Modes /\ todo \in Seq(Actions)
            BY <1>2, <1>3
        <3> QED
            BY <3>1 DEF RunRecords
    <2>2. r.done = [i \in 1 .. Len(r.done) |-> i] /\ r.next = Len(r.done) /\ r.next = 0
        <3>1. Len(<<>>) = 0 /\ <<>> = [i \in 1 .. 0 |-> i]
            OBVIOUS
        <3>2. r.done = <<>> /\ r.next = 0
            BY <1>3
        <3> QED
            BY <3>1, <3>2
    <2> QED
        BY <1>2, <1>3, <2>1, <2>2 DEF Followed
<1>5. records \in Seq(RunRecords) /\ records # <<>> /\ \A i \in DOMAIN records : Followed(records[i])
    BY <1>1, <1>4 DEF Followed
<1>6. reader = [p \in Runners |-> <<>>]
    BY DEF Automated!Init
<1> QED
    BY <1>5, <1>6 DEF AutomatedInv

(* One action of a run, marked, approved or carried out.                    *)

Goes(x, q) == Followed(x) /\ Len(x.plan) = Len(q.plan) /\ x.done = q.done /\ x.status = q.status

LEMMA PlanMarked ==
    ASSUME NEW q, Followed(q), NEW i \in DOMAIN q.plan, NEW a \in Actions,
           NEW x, x = [q EXCEPT !.plan = [q.plan EXCEPT ![i] = a]]
    PROVE  Goes(x, q)
<1>1. PICK todo : todo = [q.plan EXCEPT ![i] = a]
    OBVIOUS
<1>2. q \in RunRecords /\ q.plan \in Seq(Actions)
    BY DEF Followed, RunRecords
<1>3. todo \in Seq(Actions) /\ Len(todo) = Len(q.plan)
    BY <1>1, <1>2
<1>4. x = [q EXCEPT !.plan = todo]
    BY <1>1
<1>5. x \in RunRecords /\ x.plan = todo /\ x.done = q.done /\ x.status = q.status /\ x.next = q.next
    BY <1>2, <1>3, <1>4 DEF RunRecords
<1> QED
    BY <1>3, <1>5 DEF Goes, Followed

LEMMA MarkedGoes ==
    ASSUME NEW q, Followed(q), NEW i \in DOMAIN q.plan,
           NEW s \in {"planned", "simulated", "completed", "awaiting_approval", "rejected"}
    PROVE  Goes(Automated!Marked(q, i, s), q)
<1>1. q \in RunRecords /\ q.plan[i] \in Actions
    BY DEF Followed, RunRecords
<1>2. PICK a : a = [q.plan[i] EXCEPT !.status = s]
    OBVIOUS
<1>3. a \in Actions
    BY <1>1, <1>2 DEF Actions
<1>4. PICK x : x = [q EXCEPT !.plan = [q.plan EXCEPT ![i] = a]]
    OBVIOUS
<1>5. Automated!Marked(q, i, s) = x
    BY <1>2, <1>4, Zenon DEF Automated!Marked
<1> QED
    BY <1>3, <1>4, <1>5, PlanMarked

LEMMA ApprovedGoes ==
    ASSUME NEW q, Followed(q), NEW i \in DOMAIN q.plan
    PROVE  Goes(Automated!ApprovedToo(q, i), q)
<1>1. q \in RunRecords /\ q.plan[i] \in Actions
    BY DEF Followed, RunRecords
<1>2. PICK a : a = [q.plan[i] EXCEPT !.approved = TRUE]
    OBVIOUS
<1>3. a \in Actions
    BY <1>1, <1>2 DEF Actions
<1>4. PICK x : x = [q EXCEPT !.plan = [q.plan EXCEPT ![i] = a]]
    OBVIOUS
<1>5. Automated!ApprovedToo(q, i) = x
    BY <1>2, <1>4, Zenon DEF Automated!ApprovedToo
<1> QED
    BY <1>3, <1>4, <1>5, PlanMarked

LEMMA RanFollows ==
    ASSUME NEW q, Followed(q), q.status # "completed", Len(q.done) + 1 <= Len(q.plan),
           NEW i, i = Len(q.done) + 1, NEW x, x = Automated!Ran(q, i)
    PROVE  /\ Followed(x) /\ Len(x.plan) = Len(q.plan) /\ Len(x.done) = i /\ x.status = q.status
<1>1. q \in RunRecords /\ q.done \in Seq(Nat) /\ q.done = [j \in 1 .. Len(q.done) |-> j]
    BY DEF Followed, RunRecords
<1>2. PICK so : so = Append(q.done, i)
    OBVIOUS
<1>3. so \in Seq(Nat) /\ Len(so) = i /\ i \in Nat
    BY <1>1, <1>2
<1>4. so = [j \in 1 .. Len(so) |-> j]
    <2>1. \A j \in 1 .. Len(so) : so[j] = j
        BY <1>1, <1>2, <1>3
    <2> QED
        BY <1>3, <2>1
<1>5. x = [q EXCEPT !.done = so, !.next = i]
    BY <1>2 DEF Automated!Ran
<1>6. PICK y : y = [q EXCEPT !.done = so]
    OBVIOUS
<1>7. y \in RunRecords /\ y.done = so /\ y.plan = q.plan /\ y.status = q.status
    BY <1>1, <1>3, <1>6 DEF RunRecords
<1>8. x = [y EXCEPT !.next = i]
    BY <1>5, <1>6, Zenon
<1>9. /\ x \in RunRecords /\ x.done = so /\ x.next = i /\ x.plan = q.plan /\ x.status = q.status
    BY <1>3, <1>7, <1>8 DEF RunRecords
<1> QED
    BY <1>3, <1>4, <1>9 DEF Followed

(* A run put to rest with another status, from where it is.                 *)
LEMMA StatusFollows ==
    ASSUME NEW q, Followed(q), NEW s \in {"running", "interrupted", "rejected"},
           NEW x, x = [q EXCEPT !.status = s]
    PROVE  Followed(x) /\ x.plan = q.plan /\ x.done = q.done /\ x.status = s
<1>1. q \in RunRecords /\ q.next = Len(q.done) /\ Len(q.done) \in Nat
    BY DEF Followed, RunRecords
<1>2. /\ x \in RunRecords /\ x.plan = q.plan /\ x.done = q.done /\ x.status = s /\ x.next = q.next
    BY <1>1 DEF RunRecords
<1> QED
    BY <1>2 DEF Followed

(* The same, with its place written again.                                  *)
LEMMA RestsFollows ==
    ASSUME NEW q, Followed(q), NEW s \in {"waiting_for_review", "interrupted"},
           NEW x, x = [q EXCEPT !.status = s, !.next = Len(q.done)]
    PROVE  Followed(x) /\ x.plan = q.plan /\ x.done = q.done /\ x.status = s
<1>1. q \in RunRecords /\ q.next = Len(q.done) /\ Len(q.done) \in Nat
    BY DEF Followed, RunRecords
<1>2. /\ x \in RunRecords /\ x.plan = q.plan /\ x.done = q.done /\ x.status = s /\ x.next = q.next
    BY <1>1 DEF RunRecords
<1> QED
    BY <1>2 DEF Followed

LEMMA StepFollows ==
    ASSUME NEW r, NEW q, NEW k \in Nat, After(q, r, k), ~ Automated!Stopped(q), r.next \in Nat,
           NEW i, i = r.next + k + 1, i <= Len(r.plan), NEW approvals,
           NEW x, x = Automated!Step(q, i, approvals)
    PROVE  After(x, r, k + 1)
<1>1. /\ Followed(q) /\ Len(q.done) + 1 = i /\ Len(q.plan) = Len(r.plan) /\ q.status # "completed"
      /\ Len(q.done) \in Nat /\ i \in DOMAIN q.plan
    BY DEF After, Followed, RunRecords
<1>2. Automated!Decided(q, i) \in {"deny", "simulate", "allow", "requires_review"}
    BY Zenon DEF Automated!Decided, Automated!Decision
<1>3. CASE Automated!Decided(q, i) = "deny"
    <2>1. PICK y : y = Automated!Marked(q, i, "rejected")
        OBVIOUS
    <2>2. Goes(y, q)
        BY <1>1, <2>1, MarkedGoes
    <2>3. x = [y EXCEPT !.status = "rejected"]
        BY <1>3, <2>1 DEF Automated!Step
    <2>4. Followed(x) /\ x.plan = y.plan /\ x.status = "rejected"
        BY <2>2, <2>3, StatusFollows DEF Goes
    <2> QED
        BY <1>1, <2>2, <2>4 DEF After, Goes, Automated!Stopped
<1>4. ASSUME NEW y, Goes(y, q), x = Automated!Ran(y, i) PROVE After(x, r, k + 1)
    <2>1. Followed(x) /\ Len(x.plan) = Len(q.plan) /\ Len(x.done) = i /\ x.status = q.status
        <3>1. /\ Followed(y) /\ y.status = q.status /\ y.status # "completed" /\ i = Len(y.done) + 1
              /\ Len(y.plan) = Len(q.plan) /\ Len(y.done) + 1 <= Len(y.plan)
            BY <1>1, <1>4 DEF Goes
        <3> QED
            BY <1>4, <3>1, RanFollows
    <2> QED
        BY <1>1, <2>1 DEF After
<1>5. CASE Automated!Decided(q, i) = "simulate"
    <2>1. PICK y : y = Automated!Marked(q, i, "simulated")
        OBVIOUS
    <2>2. x = Automated!Ran(y, i)
        BY <1>5, <2>1 DEF Automated!Step
    <2> QED
        BY <1>1, <1>4, <2>1, <2>2, MarkedGoes
<1>6. CASE Automated!Decided(q, i) \in {"allow", "requires_review"} /\ Automated!MayRun(q, i, approvals)
    <2>1. PICK z : z = IF Automated!Decided(q, i) = "allow" THEN q ELSE Automated!ApprovedToo(q, i)
        OBVIOUS
    <2>2. Goes(z, q)
        BY <1>1, <2>1, ApprovedGoes DEF Goes
    <2>3. PICK y : y = Automated!Marked(z, i, "completed")
        OBVIOUS
    <2>4. i \in DOMAIN z.plan
        BY <1>1, <2>2 DEF Goes, Followed, RunRecords
    <2>5. Goes(y, z)
        BY <2>2, <2>3, <2>4, MarkedGoes DEF Goes
    <2>6. Goes(y, q)
        BY <2>2, <2>5 DEF Goes
    <2>7. x = Automated!Ran(y, i)
        BY <1>6, <2>1, <2>3 DEF Automated!Step
    <2> QED
        BY <1>4, <2>6, <2>7
<1>7. CASE Automated!Decided(q, i) \in {"allow", "requires_review"} /\ ~ Automated!MayRun(q, i, approvals)
    <2>1. PICK y : y = Automated!Marked(q, i, "awaiting_approval")
        OBVIOUS
    <2>2. Goes(y, q)
        BY <1>1, <2>1, MarkedGoes
    <2>3. x = [y EXCEPT !.status = "waiting_for_review", !.next = i - 1]
        BY <1>7, <2>1 DEF Automated!Step
    <2>4. i - 1 = Len(y.done)
        BY <1>1, <2>2 DEF Goes
    <2>5. Followed(x) /\ x.plan = y.plan /\ x.status = "waiting_for_review"
        <3>1. x = [y EXCEPT !.status = "waiting_for_review", !.next = Len(y.done)] /\ Followed(y)
            BY <2>2, <2>3, <2>4 DEF Goes
        <3> QED
            BY <3>1, RestsFollows
    <2> QED
        BY <1>1, <2>2, <2>5 DEF After, Goes, Automated!Stopped
<1> QED
    BY <1>2, <1>3, <1>5, <1>6, <1>7

(* The whole call: what the run is after each of the actions left of it.    *)

Onward(r, q, k, approvals) == IF Automated!Stopped(q) THEN q ELSE Automated!Step(q, r.next + k, approvals)
Unfolds(r, approvals, m, f) ==
    f = [k \in 0 .. m |-> IF k = 0 THEN Automated!Going(r) ELSE Onward(r, f[k - 1], k, approvals)]
Unfolded(r, approvals) ==
    CHOOSE after : after = [k \in 0 .. Len(r.plan) - r.next |->
        IF k = 0 THEN Automated!Going(r)
        ELSE IF Automated!Stopped(after[k - 1]) THEN after[k - 1]
        ELSE Automated!Step(after[k - 1], r.next + k, approvals)]

LEMMA ExecuteUnfolds ==
    ASSUME NEW r, NEW approvals, NEW limit
    PROVE  Automated!Execute(r, approvals, limit) =
             LET left == Len(r.plan) - r.next
                 n == IF limit < left THEN limit ELSE left
                 after == Unfolded(r, approvals)
             IN IF r.status \in Automated!Finished THEN r
                ELSE IF Automated!Stopped(after[n]) THEN after[n]
                ELSE IF n < left THEN Automated!Interrupted(after[n], r.next + n)
                ELSE [after[n] EXCEPT !.status = "completed", !.next = Len(r.plan)]
BY Zenon DEF Automated!Execute, Unfolded

LEMMA ItUnfolds ==
    ASSUME NEW r, NEW approvals, NEW m \in Nat
    PROVE  \E f : Unfolds(r, approvals, m, f)
<1> DEFINE Missing == {k \in Nat : ~ \E f : Unfolds(r, approvals, k, f)}
<1> SUFFICES ASSUME Missing # {} PROVE FALSE
    OBVIOUS
<1>1. PICK x \in Missing : \A y \in Missing : x <= y
    <2>1. Missing \in SUBSET Nat
        OBVIOUS
    <2> HIDE DEF Missing
    <2> QED
        BY <2>1, LeastNatural
<1>2. x \in Nat /\ ~ \E f : Unfolds(r, approvals, x, f)
    BY <1>1
<1>3. CASE x = 0
    <2>1. PICK f : f = [k \in 0 .. 0 |-> Automated!Going(r)]
        OBVIOUS
    <2>2. f = [k \in 0 .. 0 |-> IF k = 0 THEN Automated!Going(r) ELSE Onward(r, f[k - 1], k, approvals)]
        BY <2>1
    <2> QED
        BY <1>2, <1>3, <2>2 DEF Unfolds
<1>4. CASE x # 0
    <2>1. x - 1 \in Nat /\ x - 1 < x
        BY <1>2, <1>4
    <2>2. x - 1 \notin Missing
        <3> HIDE DEF Missing
        <3> QED
            BY <1>1, <1>2, <2>1
    <2>3. PICK f : Unfolds(r, approvals, x - 1, f)
        BY <2>1, <2>2
    <2>4. f = [k \in 0 .. x - 1 |-> IF k = 0 THEN Automated!Going(r) ELSE Onward(r, f[k - 1], k, approvals)]
        BY <2>3 DEF Unfolds
    <2>5. PICK last : last = Onward(r, f[x - 1], x, approvals)
        OBVIOUS
    <2>6. PICK g : g = [k \in 0 .. x |-> IF k < x THEN f[k] ELSE last]
        OBVIOUS
    <2>7. ASSUME NEW k \in 0 .. x
          PROVE  g[k] = IF k = 0 THEN Automated!Going(r) ELSE Onward(r, g[k - 1], k, approvals)
        <3>1. CASE k = 0
            <4>1. g[k] = f[k] /\ k \in 0 .. x - 1
                BY <1>2, <2>1, <2>6, <3>1
            <4> QED
                BY <2>4, <3>1, <4>1
        <3>2. CASE k # 0 /\ k < x
            <4>1. g[k] = f[k] /\ g[k - 1] = f[k - 1] /\ k \in 0 .. x - 1
                BY <1>2, <2>6, <3>2
            <4> QED
                BY <2>4, <3>2, <4>1
        <3>3. CASE k = x
            <4>1. g[k] = last /\ g[k - 1] = f[x - 1]
                BY <1>2, <1>4, <2>1, <2>6, <3>3
            <4> QED
                BY <1>4, <2>5, <3>3, <4>1
        <3> QED
            BY <1>2, <3>1, <3>2, <3>3
    <2>8. g = [k \in 0 .. x |-> IF k = 0 THEN Automated!Going(r) ELSE Onward(r, g[k - 1], k, approvals)]
        BY <2>6, <2>7
    <2> QED
        BY <1>2, <2>8 DEF Unfolds
<1> QED
    BY <1>3, <1>4

LEMMA UnfoldedUnfolds ==
    ASSUME NEW r, NEW approvals, Len(r.plan) - r.next \in Nat
    PROVE  Unfolds(r, approvals, Len(r.plan) - r.next, Unfolded(r, approvals))
<1>1. \E f : Unfolds(r, approvals, Len(r.plan) - r.next, f)
    BY ItUnfolds
<1>2. PICK f : f = [k \in 0 .. Len(r.plan) - r.next |->
        IF k = 0 THEN Automated!Going(r)
        ELSE IF Automated!Stopped(f[k - 1]) THEN f[k - 1]
        ELSE Automated!Step(f[k - 1], r.next + k, approvals)]
    BY <1>1, Zenon DEF Unfolds, Onward
<1>3. Unfolded(r, approvals) = [k \in 0 .. Len(r.plan) - r.next |->
        IF k = 0 THEN Automated!Going(r)
        ELSE IF Automated!Stopped(Unfolded(r, approvals)[k - 1]) THEN Unfolded(r, approvals)[k - 1]
        ELSE Automated!Step(Unfolded(r, approvals)[k - 1], r.next + k, approvals)]
    BY <1>2, Zenon DEF Unfolded
<1> QED
    BY <1>3, Zenon DEF Unfolds, Onward

LEMMA UnfoldedFollows ==
    ASSUME NEW r, Followed(r), r.status # "completed", ~ (r.status \in Automated!Finished), NEW approvals,
           NEW n \in 0 .. Len(r.plan) - r.next
    PROVE  After(Unfolded(r, approvals)[n], r, n)
<1>1. /\ Len(r.plan) \in Nat /\ r.next \in Nat /\ r.next = Len(r.done) /\ r.next <= Len(r.plan)
      /\ Len(r.plan) - r.next \in Nat
    BY DEF Followed, RunRecords
<1>2. PICK after : after = Unfolded(r, approvals)
    OBVIOUS
<1>3. after = [k \in 0 .. Len(r.plan) - r.next |->
                  IF k = 0 THEN Automated!Going(r) ELSE Onward(r, after[k - 1], k, approvals)]
    <2>1. Unfolds(r, approvals, Len(r.plan) - r.next, after)
        BY <1>1, <1>2, UnfoldedUnfolds
    <2> QED
        BY <2>1, Zenon DEF Unfolds
<1> DEFINE Wrong == {k \in 0 .. Len(r.plan) - r.next : ~ After(after[k], r, k)}
<1> SUFFICES ASSUME Wrong # {} PROVE FALSE
    BY <1>2
<1>4. PICK x \in Wrong : \A y \in Wrong : x <= y
    <2>1. Wrong \in SUBSET Nat
        <3>1. 0 .. Len(r.plan) - r.next \subseteq Nat
            <4>1. \A m \in Nat : 0 .. m \subseteq Nat
                OBVIOUS
            <4> QED
                BY <1>1, <4>1
        <3> QED
            BY <3>1, Zenon
    <2> HIDE DEF Wrong
    <2> QED
        BY <2>1, LeastNatural
<1>5. x \in 0 .. Len(r.plan) - r.next /\ x \in Nat /\ ~ After(after[x], r, x)
    BY <1>1, <1>4
<1>6. CASE x = 0
    <2>1. PICK q : q = [r EXCEPT !.status = "running"]
        OBVIOUS
    <2>2. after[0] = q
        BY <1>3, <1>5, <1>6, <2>1 DEF Automated!Going
    <2>3. Followed(q) /\ q.plan = r.plan /\ q.done = r.done /\ q.status = "running"
        BY <2>1, StatusFollows
    <2>4. After(q, r, 0)
        BY <1>1, <2>3 DEF After
    <2> QED
        BY <1>5, <1>6, <2>2, <2>4
<1>7. CASE x # 0
    <2>1. x - 1 \in 0 .. Len(r.plan) - r.next /\ x - 1 < x /\ x - 1 \in Nat
        BY <1>1, <1>5, <1>7
    <2>2. x - 1 \notin Wrong
        <3> HIDE DEF Wrong
        <3> QED
            BY <1>4, <1>5, <2>1
    <2>3. After(after[x - 1], r, x - 1)
        BY <2>1, <2>2
    <2>4. PICK q : q = after[x - 1]
        OBVIOUS
    <2>5. after[x] = Onward(r, q, x, approvals)
        BY <1>3, <1>5, <1>7, <2>4
    <2>6. CASE Automated!Stopped(q)
        <3>1. after[x] = q
            BY <2>5, <2>6 DEF Onward
        <3> QED
            BY <1>5, <2>3, <2>4, <2>6, <3>1 DEF After
    <2>7. CASE ~ Automated!Stopped(q)
        <3>1. PICK y : y = Automated!Step(q, r.next + x, approvals)
            OBVIOUS
        <3>2. after[x] = y
            BY <2>5, <2>7, <3>1 DEF Onward
        <3>3. r.next + x = r.next + (x - 1) + 1 /\ r.next + x <= Len(r.plan)
            BY <1>1, <1>5
        <3>4. After(y, r, (x - 1) + 1)
            BY <1>1, <2>1, <2>3, <2>4, <2>7, <3>1, <3>3, StepFollows
        <3>5. (x - 1) + 1 = x
            BY <1>5
        <3> QED
            BY <1>5, <3>2, <3>4, <3>5
    <2> QED
        BY <2>6, <2>7
<1> QED
    BY <1>6, <1>7

LEMMA ExecuteFollows ==
    ASSUME NEW r, Followed(r), NEW approvals, NEW limit \in Nat
    PROVE  Followed(Automated!Execute(r, approvals, limit))
<1>1. /\ Len(r.plan) \in Nat /\ r.next \in Nat /\ r.next <= Len(r.plan)
    BY DEF Followed, RunRecords
<1>2. PICK left : left = Len(r.plan) - r.next
    OBVIOUS
<1>3. PICK n : n = IF limit < left THEN limit ELSE left
    OBVIOUS
<1>4. left \in Nat /\ n \in 0 .. left /\ n \in Nat
    BY <1>1, <1>2, <1>3
<1>5. PICK q : q = Unfolded(r, approvals)[n]
    OBVIOUS
<1>6. PICK x : x = Automated!Execute(r, approvals, limit)
    OBVIOUS
<1>7. x = IF r.status \in Automated!Finished THEN r
          ELSE IF Automated!Stopped(q) THEN q
          ELSE IF n < left THEN Automated!Interrupted(q, r.next + n)
          ELSE [q EXCEPT !.status = "completed", !.next = Len(r.plan)]
    BY <1>2, <1>3, <1>5, <1>6, ExecuteUnfolds
<1>8. CASE r.status \in Automated!Finished
    BY <1>6, <1>7, <1>8
<1>9. CASE ~ (r.status \in Automated!Finished)
    <2>1. r.status # "completed"
        BY <1>9 DEF Automated!Finished
    <2>2. After(q, r, n)
        BY <1>2, <1>4, <1>5, <1>9, <2>1, UnfoldedFollows
    <2>3. CASE Automated!Stopped(q)
        BY <1>6, <1>7, <1>9, <2>2, <2>3 DEF After
    <2>4. CASE ~ Automated!Stopped(q) /\ n < left
        <3>1. x = [q EXCEPT !.status = "interrupted", !.next = Len(q.done)]
            BY <1>7, <1>9, <2>2, <2>4 DEF After, Automated!Interrupted
        <3> QED
            <4>1. Followed(q) /\ Len(q.plan) = Len(r.plan)
                BY <2>2, Zenon DEF After
            <4>2. Followed(x) /\ x.plan = q.plan
                BY <3>1, <4>1, RestsFollows
            <4> QED
                BY <1>6, <4>1, <4>2
    <2>5. CASE ~ Automated!Stopped(q) /\ ~ (n < left)
        <3>1. x = [q EXCEPT !.status = "completed", !.next = Len(r.plan)] /\ n = left
            BY <1>3, <1>4, <1>7, <1>9, <2>5
        <3>2. q \in RunRecords /\ Len(q.done) = Len(q.plan) /\ Len(q.plan) = Len(r.plan)
            BY <1>1, <1>2, <2>2, <2>5, <3>1 DEF After, Followed
        <3>3. /\ x \in RunRecords /\ x.done = q.done /\ x.next = Len(q.done) /\ x.plan = q.plan
            BY <1>1, <3>1, <3>2 DEF RunRecords
        <3> QED
            BY <1>6, <2>2, <3>2, <3>3 DEF After, Followed
    <2> QED
        BY <2>3, <2>4, <2>5
<1> QED
    BY <1>8, <1>9

LEMMA AutomatedStep == AutomatedInv /\ [Automated!Next]_(Automated!vars) => AutomatedInv'
<1> SUFFICES ASSUME AutomatedInv, [Automated!Next]_(Automated!vars) PROVE AutomatedInv'
    OBVIOUS
<1>1. CASE UNCHANGED Automated!vars
    BY <1>1 DEF Automated!vars, AutomatedInv
<1>2. ASSUME NEW p \in Runners, Automated!Reads(p) PROVE AutomatedInv'
    <2>1. PICK r : r = records[Len(records)]
        OBVIOUS
    <2>2. Len(records) \in DOMAIN records /\ r \in RunRecords /\ Followed(r)
        BY <2>1 DEF AutomatedInv
    <2>3. reader' = [reader EXCEPT ![p] = <<r>>] /\ records' = records
        BY <1>2, <2>1 DEF Automated!Reads, Automated!Newest
    <2> QED
        BY <2>2, <2>3 DEF AutomatedInv
<1>3. ASSUME NEW p \in Runners, NEW r, Followed(r), Automated!Records(p, r) PROVE AutomatedInv'
    <2>1. records' = Append(records, r) /\ reader' = [reader EXCEPT ![p] = <<>>]
        BY <1>3 DEF Automated!Records
    <2>2. r \in RunRecords
        BY <1>3 DEF Followed
    <2>3. records' \in Seq(RunRecords) /\ records' # <<>> /\ \A i \in DOMAIN records' : Followed(records'[i])
        BY <1>3, <2>1, <2>2 DEF AutomatedInv
    <2>4. reader' \in [Runners -> Seq(RunRecords)]
          /\ \A q \in Runners : reader'[q] # <<>> => Len(reader'[q]) = 1 /\ Followed(reader'[q][1])
        BY <2>1 DEF AutomatedInv
    <2> QED
        BY <2>3, <2>4 DEF AutomatedInv
<1>4. ASSUME NEW p \in Runners, reader[p] # <<>> PROVE Followed(reader[p][1])
    BY <1>4 DEF AutomatedInv
<1>5. ASSUME NEW p \in Runners, Automated!Automates(p) PROVE AutomatedInv'
    <2>1. PICK approvals \in SUBSET (1 .. MaxActions), limit \in 0 .. MaxActions :
             reader[p] # <<>> /\ Automated!Records(p, Automated!Execute(reader[p][1], approvals, limit))
        BY <1>5 DEF Automated!Automates
    <2>2. PICK r : r = Automated!Execute(reader[p][1], approvals, limit)
        OBVIOUS
    <2>3. limit \in Nat /\ Followed(r)
        BY <1>4, <2>1, <2>2, ExecuteFollows
    <2> QED
        BY <1>3, <2>1, <2>2, <2>3
<1>6. ASSUME NEW p \in Runners, Automated!Approves(p) PROVE AutomatedInv'
    <2>1. PICK i \in 1 .. MaxActions :
             /\ reader[p] # <<>> /\ i \in DOMAIN reader[p][1].plan
             /\ Automated!Records(p, Automated!ApprovedToo(reader[p][1], i))
        BY <1>6 DEF Automated!Approves
    <2>2. PICK r : r = Automated!ApprovedToo(reader[p][1], i)
        OBVIOUS
    <2>3. Followed(r)
        BY <1>4, <2>1, <2>2, ApprovedGoes DEF Goes
    <2> QED
        BY <1>3, <2>1, <2>2, <2>3
<1>7. ASSUME NEW p \in Runners, Automated!Rejects(p) PROVE AutomatedInv'
    <2>1. PICK i \in 1 .. MaxActions :
             /\ reader[p] # <<>> /\ i \in DOMAIN reader[p][1].plan
             /\ Automated!Records(p, [Automated!Marked(reader[p][1], i, "rejected") EXCEPT !.status = "rejected"])
        BY <1>7 DEF Automated!Rejects
    <2>2. PICK q : q = Automated!Marked(reader[p][1], i, "rejected")
        OBVIOUS
    <2>3. Followed(q)
        BY <1>4, <2>1, <2>2, MarkedGoes DEF Goes
    <2>4. PICK r : r = [q EXCEPT !.status = "rejected"]
        OBVIOUS
    <2>5. Followed(r)
        BY <2>3, <2>4, StatusFollows
    <2> QED
        BY <1>3, <2>1, <2>2, <2>4, <2>5
<1> QED
    BY <1>1, <1>2, <1>5, <1>6, <1>7 DEF Automated!Next

-----------------------------------------------------------------------------
(* Pursuit: a turn is on its Pursue's record, or the host has said or has   *)
(* yet to say that it is not.                                               *)

TurnKinds == [at : {"none", "ready", "unrecorded", "running", "over", "off"}, under : {None} \cup Pursuits]
TurnNotes == [under : {None} \cup Pursuits, started : BOOLEAN,
              ended : {None} \cup [job : BOOLEAN, failed : BOOLEAN]]
Phases == [phase : {"start", "step", "reader_end", "end"}, total : BOOLEAN, launched : BOOLEAN,
           incomplete : BOOLEAN]

(* Turn t with what became of it, u, and its record, r.                     *)
NotedRight(u, r) ==
    /\ u \in TurnKinds /\ r \in TurnNotes
    /\ u.at = "none" => r = Pursue!NoRecord
    /\ u.at # "none" => u.under \in Pursuits
    /\ r.under \in {None, u.under}
    /\ r.ended # None => u.at \in {"over", "off"} /\ r.ended.job = (u.at = "over")

(* The host owns up to what is not on record.                               *)
OwnsUp(p) == \E i \in DOMAIN steps[p] : steps[p][i].total /\ steps[p][i].incomplete

Known(t, p) == turn[t].under = p /\ turn[t].at \in {"ready", "running", "over"}

PursueInv ==
    /\ steps \in [Pursuits -> Seq(Phases)]
    /\ unsaid \in [Pursuits -> SUBSET Pursue!Turns]
    /\ turn = [t \in Pursue!Turns |-> turn[t]] /\ record = [t \in Pursue!Turns |-> record[t]]
    /\ IsFiniteSet({t \in Pursue!Turns : turn[t].at # "none"})
    /\ \A t \in Pursue!Turns : NotedRight(turn[t], record[t])
    /\ \A p \in Pursuits, t \in Pursue!Turns :
          Known(t, p) => record[t].under = p \/ t \in unsaid[p] \/ OwnsUp(p)

LEMMA PursueInit == Pursue!Init => PursueInv
<1> SUFFICES ASSUME Pursue!Init PROVE PursueInv
    OBVIOUS
<1>1. /\ steps \in [Pursuits -> Seq(Phases)] /\ unsaid \in [Pursuits -> SUBSET Pursue!Turns]
      /\ turn = [t \in Pursue!Turns |-> turn[t]] /\ record = [t \in Pursue!Turns |-> record[t]]
    BY DEF Pursue!Init
<1>2. \A t \in Pursue!Turns : turn[t] = Pursue!NoTurn /\ record[t] = Pursue!NoRecord
    BY DEF Pursue!Init
<1>3. {t \in Pursue!Turns : turn[t].at # "none"} = {}
    BY <1>2 DEF Pursue!NoTurn
<1>4. NotedRight(Pursue!NoTurn, Pursue!NoRecord)
    BY RecordsAssumption DEF NotedRight, Pursue!NoTurn, Pursue!NoRecord, TurnKinds, TurnNotes
<1>5. \A p \in Pursuits, t \in Pursue!Turns : ~ Known(t, p)
    BY <1>2 DEF Known, Pursue!NoTurn
<1> QED
    BY <1>1, <1>2, <1>3, <1>4, <1>5, FS_EmptySet DEF PursueInv

(* What the history is read to say of it.                                   *)
LEMMA SameCardinality == \A S : Pursue!Cardinality(S) = Cardinality(S)
BY Zenon DEF Pursue!Cardinality, Cardinality

LEMMA PursueHolds == PursueInv => Pursue!SpendIsItsTurns
<1> SUFFICES ASSUME PursueInv, NEW p \in Pursuits
             PROVE  /\ Pursue!Spent(p) - Pursue!UnderWay(p) <= Cardinality(Pursue!Ran(p))
                    /\ \/ Pursue!SpendIncomplete(p) \/ unsaid[p] # {}
                       \/ \E t \in Pursue!Ran(p) : turn[t].at = "unrecorded"
                       \/ Cardinality(Pursue!Ran(p)) <= Pursue!Spent(p)
    BY SameCardinality, Zenon DEF Pursue!SpendIsItsTurns
<1> DEFINE Begun == {t \in Pursue!Turns : turn[t].at # "none"}
           Going == {t \in Pursue!Began(p) : record[t].ended = None}
<1>1. IsFiniteSet(Begun) /\ \A t \in Pursue!Turns : NotedRight(turn[t], record[t])
    BY DEF PursueInv
<1>2. p # None
    BY RecordsAssumption
<1>3. Pursue!Began(p) \subseteq Begun
    BY <1>1, <1>2 DEF Pursue!Began, Pursue!OnRecord, NotedRight, Pursue!NoRecord
<1>4. Pursue!Ran(p) \subseteq Begun
    BY DEF Pursue!Ran
<1>5. Pursue!Began(p) \ Going \subseteq Pursue!Ran(p)
    <2> SUFFICES ASSUME NEW t \in Pursue!Began(p), record[t].ended # None PROVE t \in Pursue!Ran(p)
        OBVIOUS
    <2>1. t \in Pursue!Turns /\ record[t].under = p /\ record[t].ended.job
        BY DEF Pursue!Began, Pursue!OnRecord
    <2>2. turn[t].under = p
        BY <1>1, <1>2, <2>1 DEF NotedRight
    <2>3. record[t].ended.job = (turn[t].at = "over")
        BY <1>1, <2>1 DEF NotedRight
    <2> QED
        BY <2>1, <2>2, <2>3 DEF Pursue!Ran
<1>6. /\ IsFiniteSet(Pursue!Began(p)) /\ IsFiniteSet(Pursue!Ran(p)) /\ IsFiniteSet(Going)
      /\ Cardinality(Pursue!Began(p)) \in Nat /\ Cardinality(Pursue!Ran(p)) \in Nat
    <2> HIDE DEF Begun
    <2>1. IsFiniteSet(Pursue!Began(p)) /\ IsFiniteSet(Pursue!Ran(p))
        BY <1>1, <1>3, <1>4, FS_Subset
    <2>2. IsFiniteSet(Going)
        BY <2>1, FS_Subset
    <2> QED
        BY <2>1, <2>2, FS_CardinalityType
<1>7. Pursue!Spent(p) - Pursue!UnderWay(p) <= Cardinality(Pursue!Ran(p))
    <2>1. Cardinality(Pursue!Began(p) \ Going) = Cardinality(Pursue!Began(p)) - Cardinality(Pursue!Began(p) \cap Going)
        BY <1>6, FS_Difference
    <2>2. Pursue!Began(p) \cap Going = Going
        OBVIOUS
    <2>3. Cardinality(Pursue!Began(p) \ Going) <= Cardinality(Pursue!Ran(p))
        BY <1>5, <1>6, FS_Subset
    <2>4. Pursue!Spent(p) = Cardinality(Pursue!Began(p)) /\ Pursue!UnderWay(p) = Cardinality(Going)
        BY SameCardinality, Zenon DEF Pursue!Spent, Pursue!UnderWay
    <2> HIDE DEF Going
    <2> QED
        BY <2>1, <2>2, <2>3, <2>4
<1>8. ASSUME ~ Pursue!SpendIncomplete(p), unsaid[p] = {},
             \A t \in Pursue!Ran(p) : turn[t].at # "unrecorded"
      PROVE  Cardinality(Pursue!Ran(p)) <= Pursue!Spent(p)
    <2>1. Pursue!Ran(p) \subseteq Pursue!Began(p)
        <3> SUFFICES ASSUME NEW t \in Pursue!Ran(p) PROVE t \in Pursue!Began(p)
            OBVIOUS
        <3>1. t \in Pursue!Turns /\ turn[t].under = p /\ turn[t].at \in {"running", "over"}
            BY <1>8 DEF Pursue!Ran
        <3>2. ~ OwnsUp(p)
            BY <1>8 DEF Pursue!SpendIncomplete, Pursue!Totals, OwnsUp
        <3>3. record[t].under = p
            BY <1>8, <3>1, <3>2 DEF PursueInv, Known
        <3>4. record[t].ended = None \/ record[t].ended.job
            <4>1. record[t].ended # None => record[t].ended.job = (turn[t].at = "over") /\ turn[t].at \in {"over", "off"}
                BY <1>1, <3>1 DEF NotedRight
            <4> QED
                BY <3>1, <4>1
        <3> QED
            BY <3>1, <3>3, <3>4 DEF Pursue!Began, Pursue!OnRecord
    <2>2. Cardinality(Pursue!Ran(p)) <= Cardinality(Pursue!Began(p))
        BY <1>6, <2>1, FS_Subset
    <2> QED
        BY <2>2, SameCardinality, Zenon DEF Pursue!Spent
<1> QED
    BY <1>7, <1>8
(* A step as it is recorded.                                                *)
LEMMA StepRecorded ==
    ASSUME PursueInv, NEW p \in Pursuits, NEW phase \in {"start", "step", "reader_end", "end"},
           NEW total \in BOOLEAN, NEW launched \in BOOLEAN, Pursue!Recorded(p, phase, total, launched)
    PROVE  PursueInv'
<1>1. PICK said : said = [phase |-> phase, total |-> total, launched |-> launched,
                          incomplete |-> total /\ unsaid[p] # {}]
    OBVIOUS
<1>2. /\ said \in Phases /\ said.total = total /\ (total /\ unsaid[p] # {} => said.incomplete)
    BY <1>1, Zenon DEF Phases
<1>3. steps' = [steps EXCEPT ![p] = Append(@, said)]
    BY <1>1 DEF Pursue!Recorded
<1>4. unsaid' = [unsaid EXCEPT ![p] = IF total THEN {} ELSE @] /\ record' = record /\ turn' = turn
    BY DEF Pursue!Recorded
<1>5. steps \in [Pursuits -> Seq(Phases)] /\ unsaid \in [Pursuits -> SUBSET Pursue!Turns]
    BY DEF PursueInv
<1>6. steps' \in [Pursuits -> Seq(Phases)] /\ unsaid' \in [Pursuits -> SUBSET Pursue!Turns]
    BY <1>2, <1>3, <1>4, <1>5
<1>7. ASSUME NEW q \in Pursuits, OwnsUp(q) PROVE OwnsUp(q)'
    <2>1. PICK i \in DOMAIN steps[q] : steps[q][i].total /\ steps[q][i].incomplete
        BY <1>7 DEF OwnsUp
    <2>2. i \in DOMAIN steps'[q] /\ steps'[q][i] = steps[q][i]
        BY <1>2, <1>3, <1>5, <2>1
    <2> QED
        BY <2>1, <2>2 DEF OwnsUp
<1>8. total /\ unsaid[p] # {} => OwnsUp(p)'
    <2> SUFFICES ASSUME total, unsaid[p] # {} PROVE OwnsUp(p)'
        OBVIOUS
    <2>1. steps'[p] = Append(steps[p], said) /\ steps[p] \in Seq(Phases)
        BY <1>3, <1>5
    <2>2. Len(steps[p]) + 1 \in DOMAIN steps'[p] /\ steps'[p][Len(steps[p]) + 1] = said
        BY <1>2, <2>1
    <2> QED
        BY <1>2, <2>2 DEF OwnsUp
<1>9. ASSUME NEW q \in Pursuits, NEW t \in Pursue!Turns, Known(t, q)'
      PROVE  record'[t].under = q \/ t \in unsaid'[q] \/ OwnsUp(q)'
    <2>1. Known(t, q)
        BY <1>4, <1>9 DEF Known
    <2>2. record[t].under = q \/ t \in unsaid[q] \/ OwnsUp(q)
        BY <2>1 DEF PursueInv
    <2>3. t \in unsaid[q] => t \in unsaid'[q] \/ (q = p /\ total /\ unsaid[p] # {})
        BY <1>4, <1>5
    <2> QED
        BY <1>4, <1>7, <1>8, <2>2, <2>3
<1> QED
    BY <1>4, <1>6, <1>9 DEF PursueInv

LEMMA TurnMoves ==
    ASSUME PursueInv, NEW t \in Pursue!Turns, NEW u, NEW r, NotedRight(u, r), NEW said,
           turn' = [turn EXCEPT ![t] = u], record' = [record EXCEPT ![t] = r], steps' = steps,
           said \in [Pursuits -> SUBSET Pursue!Turns], unsaid' = said,
           \A p \in Pursuits : unsaid[p] \subseteq said[p],
           u.at \in {"ready", "running", "over"} =>
               r.under = u.under \/ t \in said[u.under] \/ OwnsUp(u.under)
    PROVE  PursueInv'
<1>1. /\ turn = [x \in Pursue!Turns |-> turn[x]] /\ record = [x \in Pursue!Turns |-> record[x]]
      /\ steps \in [Pursuits -> Seq(Phases)]
    BY DEF PursueInv
<1>2. \A x \in Pursue!Turns : x # t => turn'[x] = turn[x] /\ record'[x] = record[x]
    BY <1>1
<1>3. turn'[t] = u /\ record'[t] = r
    BY <1>1
<1>4. turn' = [x \in Pursue!Turns |-> turn'[x]] /\ record' = [x \in Pursue!Turns |-> record'[x]]
    BY <1>1
<1>5. \A x \in Pursue!Turns : NotedRight(turn'[x], record'[x])
    BY <1>2, <1>3 DEF PursueInv
<1>6. IsFiniteSet({x \in Pursue!Turns : turn'[x].at # "none"})
    <2> DEFINE Begun == {x \in Pursue!Turns : turn[x].at # "none"}
    <2>1. IsFiniteSet(Begun)
        BY DEF PursueInv
    <2>2. {x \in Pursue!Turns : turn'[x].at # "none"} \subseteq Begun \cup {t}
        BY <1>2
    <2>3. IsFiniteSet(Begun \cup {t})
        <3> HIDE DEF Begun
        <3> QED
            BY <2>1, FS_AddElement
    <2> HIDE DEF Begun
    <2> QED
        BY <2>2, <2>3, FS_Subset
<1>7. ASSUME NEW p \in Pursuits, NEW x \in Pursue!Turns, Known(x, p)'
      PROVE  record'[x].under = p \/ x \in unsaid'[p] \/ OwnsUp(p)'
    <2>1. OwnsUp(p)' = OwnsUp(p)
        BY DEF OwnsUp
    <2>2. CASE x = t
        BY <1>3, <1>7, <2>1, <2>2 DEF Known
    <2>3. CASE x # t
        <3>1. Known(x, p)
            BY <1>2, <1>7, <2>3 DEF Known
        <3> QED
            BY <1>2, <2>1, <2>3, <3>1 DEF PursueInv
    <2> QED
        BY <2>2, <2>3
<1> QED
    BY <1>1, <1>4, <1>5, <1>6, <1>7 DEF PursueInv

(* A turn that is there moves on, its record kept or lost.                  *)
LEMMA TurnGoesOn ==
    ASSUME PursueInv, NEW t \in Pursue!Turns, NEW at \in {"ready", "unrecorded", "running", "over", "off"},
           turn[t].at # "none", turn' = [turn EXCEPT ![t].at = at], steps' = steps,
           NEW r, record' = [record EXCEPT ![t] = r],
           NotedRight([turn[t] EXCEPT !.at = at], r),
           NEW said, unsaid' = said,
           \/ said = unsaid
           \/ said = [unsaid EXCEPT ![turn[t].under] = @ \cup {t}],
           at \in {"ready", "running", "over"} =>
               \/ r.under = turn[t].under \/ said # unsaid \/ Known(t, turn[t].under)
               \/ said = [unsaid EXCEPT ![turn[t].under] = @ \cup {t}],
           r.under = record[t].under \/ r.under = turn[t].under
    PROVE  PursueInv'
<1>1. PICK u : u = [turn[t] EXCEPT !.at = at]
    OBVIOUS
<1>2. /\ turn[t] \in TurnKinds /\ turn[t].under \in Pursuits
      /\ turn = [x \in Pursue!Turns |-> turn[x]] /\ unsaid \in [Pursuits -> SUBSET Pursue!Turns]
    BY DEF PursueInv, NotedRight
<1>3. u.at = at /\ u.under = turn[t].under
    BY <1>1, <1>2 DEF TurnKinds
<1>4. turn' = [turn EXCEPT ![t] = u]
    BY <1>1, <1>2
<1>5. /\ said \in [Pursuits -> SUBSET Pursue!Turns] /\ \A p \in Pursuits : unsaid[p] \subseteq said[p]
      /\ said = unsaid \/ t \in said[turn[t].under]
    BY <1>2
<1>6. at \in {"ready", "running", "over"} =>
          r.under = u.under \/ t \in said[u.under] \/ OwnsUp(u.under)
    <2> SUFFICES ASSUME at \in {"ready", "running", "over"}, said = unsaid, t \notin said[turn[t].under]
                 PROVE  r.under = turn[t].under \/ OwnsUp(turn[t].under)
        BY <1>3, <1>5
    <2>1. r.under = turn[t].under \/ Known(t, turn[t].under)
        BY <1>2
    <2>2. Known(t, turn[t].under) => record[t].under = turn[t].under \/ OwnsUp(turn[t].under)
        BY <1>2 DEF PursueInv
    <2> QED
        BY <2>1, <2>2
<1>7. NotedRight(u, r)
    BY <1>1
<1> QED
    BY <1>3, <1>4, <1>5, <1>6, <1>7, TurnMoves

LEMMA NodeTurnSteps ==
    ASSUME PursueInv, NEW t \in NodeTurns,
           \/ Pursue!NodeLaunches(t) \/ Pursue!NodeFails(t)
           \/ \E p \in Pursuits : Pursue!NodeStarts(t, p)
    PROVE  PursueInv'
<1>1. /\ t \in Pursue!Turns /\ NotedRight(turn[t], record[t])
      /\ unsaid \in [Pursuits -> SUBSET Pursue!Turns]
      /\ record = [x \in Pursue!Turns |-> record[x]] /\ turn = [x \in Pursue!Turns |-> turn[x]]
    BY DEF PursueInv, Pursue!Turns
<1>2. record = [record EXCEPT ![t] = record[t]]
    BY <1>1
<1>3. ASSUME NEW p \in Pursuits, Pursue!NodeStarts(t, p) PROVE PursueInv'
    <2>1. PICK u : u = [at |-> "ready", under |-> p]
        OBVIOUS
    <2>2. turn' = [turn EXCEPT ![t] = u] /\ steps' = steps /\ turn[t] = Pursue!NoTurn
        BY <1>3, <2>1 DEF Pursue!NodeStarts
    <2>3. record[t] = Pursue!NoRecord
        BY <1>1, <2>2 DEF NotedRight, Pursue!NoTurn
    <2>4. CASE unsaid' = unsaid /\ record' = [record EXCEPT ![t] = [under |-> p, started |-> TRUE, ended |-> None]]
        <3>1. PICK r : r = [under |-> p, started |-> TRUE, ended |-> None]
            OBVIOUS
        <3>2. NotedRight(u, r) /\ r.under = u.under
            BY <2>1, <3>1 DEF NotedRight, TurnKinds, TurnNotes
        <3> QED
            BY <1>1, <2>2, <2>4, <3>1, <3>2, TurnMoves
    <2>5. CASE unsaid' = [unsaid EXCEPT ![p] = @ \cup {t}] /\ record' = record
        <3>1. PICK said : said = [unsaid EXCEPT ![p] = @ \cup {t}]
            OBVIOUS
        <3>2. NotedRight(u, record[t]) /\ u.under = p
            BY <2>1, <2>3, RecordsAssumption DEF NotedRight, TurnKinds, TurnNotes, Pursue!NoRecord
        <3>3. /\ said \in [Pursuits -> SUBSET Pursue!Turns] /\ t \in said[p]
              /\ \A q \in Pursuits : unsaid[q] \subseteq said[q]
            BY <1>1, <3>1
        <3>4. record' = [record EXCEPT ![t] = record[t]] /\ unsaid' = said
            BY <1>2, <2>5, <3>1
        <3> QED
            BY <1>1, <2>2, <3>2, <3>3, <3>4, TurnMoves
    <2> QED
        BY <1>3, <2>4, <2>5 DEF Pursue!NodeStarts
<1>4. CASE Pursue!NodeLaunches(t)
    <2>1. /\ turn[t].at = "ready" /\ turn' = [turn EXCEPT ![t].at = "running"]
          /\ steps' = steps /\ record' = [record EXCEPT ![t] = record[t]] /\ unsaid' = unsaid
        BY <1>2, <1>4 DEF Pursue!NodeLaunches, Pursue!Becomes
    <2>2. NotedRight([turn[t] EXCEPT !.at = "running"], record[t]) /\ Known(t, turn[t].under)
        BY <1>1, <2>1 DEF NotedRight, TurnKinds, Known
    <2> QED
        BY <1>1, <2>1, <2>2, TurnGoesOn
<1>5. CASE Pursue!NodeFails(t)
    <2>1. turn[t].at = "ready" /\ turn' = [turn EXCEPT ![t].at = "off"] /\ steps' = steps
        BY <1>5 DEF Pursue!NodeFails, Pursue!Becomes
    <2>2. ASSUME NEW failed \in BOOLEAN,
                 Pursue!Keeps(t, [record[t] EXCEPT !.under = turn[t].under, !.ended = [job |-> FALSE, failed |-> failed]])
          PROVE  PursueInv'
        <3>1. PICK r : r = [record[t] EXCEPT !.under = turn[t].under, !.ended = [job |-> FALSE, failed |-> failed]]
            OBVIOUS
        <3>2. r = [under |-> turn[t].under, started |-> record[t].started, ended |-> [job |-> FALSE, failed |-> failed]]
            BY <1>1, <3>1 DEF NotedRight, TurnNotes
        <3>3. NotedRight([turn[t] EXCEPT !.at = "off"], r) /\ r.under = turn[t].under
            BY <1>1, <2>1, <3>2 DEF NotedRight, TurnKinds, TurnNotes
        <3>4. record' = [record EXCEPT ![t] = r] /\ unsaid' = unsaid
            BY <2>2, <3>1 DEF Pursue!Keeps
        <3> QED
            BY <1>1, <2>1, <3>3, <3>4, TurnGoesOn
    <2>3. CASE Pursue!Loses(t)
        <3>1. PICK said : said = [unsaid EXCEPT ![turn[t].under] = @ \cup {t}]
            OBVIOUS
        <3>2. unsaid' = said /\ record' = [record EXCEPT ![t] = record[t]]
            BY <1>2, <2>3, <3>1 DEF Pursue!Loses
        <3>3. NotedRight([turn[t] EXCEPT !.at = "off"], record[t])
            BY <1>1, <2>1 DEF NotedRight, TurnKinds
        <3> QED
            BY <1>1, <2>1, <3>1, <3>2, <3>3, TurnGoesOn
    <2> QED
        BY <1>5, <2>2, <2>3 DEF Pursue!NodeFails
<1> QED
    BY <1>3, <1>4, <1>5

LEMMA ReaderTurnSteps ==
    ASSUME PursueInv, NEW t \in ReaderTurns,
           Pursue!ReaderStarts(t) \/ \E p \in Pursuits : Pursue!ReaderLaunches(t, p)
    PROVE  PursueInv'
<1>1. /\ t \in Pursue!Turns /\ NotedRight(turn[t], record[t])
      /\ unsaid \in [Pursuits -> SUBSET Pursue!Turns]
      /\ record = [x \in Pursue!Turns |-> record[x]] /\ turn = [x \in Pursue!Turns |-> turn[x]]
    BY DEF PursueInv, Pursue!Turns
<1>2. record = [record EXCEPT ![t] = record[t]]
    BY <1>1
<1>3. ASSUME NEW p \in Pursuits, Pursue!ReaderLaunches(t, p) PROVE PursueInv'
    <2>1. PICK u : u = [at |-> "unrecorded", under |-> p]
        OBVIOUS
    <2>2. /\ turn' = [turn EXCEPT ![t] = u] /\ steps' = steps /\ turn[t] = Pursue!NoTurn
          /\ record' = [record EXCEPT ![t] = record[t]] /\ unsaid' = unsaid
        BY <1>2, <1>3, <2>1 DEF Pursue!ReaderLaunches
    <2>3. record[t] = Pursue!NoRecord
        BY <1>1, <2>2 DEF NotedRight, Pursue!NoTurn
    <2>4. NotedRight(u, record[t]) /\ u.at \notin {"ready", "running", "over"}
        BY <2>1, <2>3, RecordsAssumption DEF NotedRight, TurnKinds, TurnNotes, Pursue!NoRecord
    <2> QED
        BY <1>1, <2>2, <2>4, TurnMoves
<1>4. CASE Pursue!ReaderStarts(t)
    <2>1. turn[t].at = "unrecorded" /\ turn' = [turn EXCEPT ![t].at = "running"] /\ steps' = steps
        BY <1>4 DEF Pursue!ReaderStarts, Pursue!Becomes
    <2>2. CASE Pursue!Keeps(t, [record[t] EXCEPT !.under = turn[t].under, !.started = TRUE])
        <3>1. PICK r : r = [record[t] EXCEPT !.under = turn[t].under, !.started = TRUE]
            OBVIOUS
        <3>2. r = [under |-> turn[t].under, started |-> TRUE, ended |-> record[t].ended]
            BY <1>1, <3>1 DEF NotedRight, TurnNotes
        <3>3. NotedRight([turn[t] EXCEPT !.at = "running"], r) /\ r.under = turn[t].under
            BY <1>1, <2>1, <3>2 DEF NotedRight, TurnKinds, TurnNotes
        <3>4. record' = [record EXCEPT ![t] = r] /\ unsaid' = unsaid
            BY <2>2, <3>1 DEF Pursue!Keeps
        <3> QED
            BY <1>1, <2>1, <3>3, <3>4, TurnGoesOn
    <2>3. CASE Pursue!Loses(t)
        <3>1. PICK said : said = [unsaid EXCEPT ![turn[t].under] = @ \cup {t}]
            OBVIOUS
        <3>2. unsaid' = said /\ record' = [record EXCEPT ![t] = record[t]]
            BY <1>2, <2>3, <3>1 DEF Pursue!Loses
        <3>3. NotedRight([turn[t] EXCEPT !.at = "running"], record[t])
            BY <1>1, <2>1 DEF NotedRight, TurnKinds
        <3> QED
            BY <1>1, <2>1, <3>1, <3>2, <3>3, TurnGoesOn
    <2> QED
        BY <1>4, <2>2, <2>3 DEF Pursue!ReaderStarts
<1> QED
    BY <1>3, <1>4

LEMMA TurnEndSteps ==
    ASSUME PursueInv, NEW t \in Pursue!Turns, Pursue!TurnEnds(t)
    PROVE  PursueInv'
<1>1. /\ NotedRight(turn[t], record[t]) /\ record = [x \in Pursue!Turns |-> record[x]]
      /\ turn[t].at = "running" /\ turn' = [turn EXCEPT ![t].at = "over"] /\ steps' = steps
    BY DEF PursueInv, Pursue!TurnEnds, Pursue!Becomes
<1>2. CASE Pursue!Keeps(t, [record[t] EXCEPT !.under = turn[t].under, !.ended = [job |-> TRUE, failed |-> FALSE]])
    <2>1. PICK r : r = [record[t] EXCEPT !.under = turn[t].under, !.ended = [job |-> TRUE, failed |-> FALSE]]
        OBVIOUS
    <2>2. r = [under |-> turn[t].under, started |-> record[t].started, ended |-> [job |-> TRUE, failed |-> FALSE]]
        BY <1>1, <2>1 DEF NotedRight, TurnNotes
    <2>3. NotedRight([turn[t] EXCEPT !.at = "over"], r) /\ r.under = turn[t].under
        BY <1>1, <2>2 DEF NotedRight, TurnKinds, TurnNotes
    <2>4. record' = [record EXCEPT ![t] = r] /\ unsaid' = unsaid
        BY <1>2, <2>1 DEF Pursue!Keeps
    <2> QED
        BY <1>1, <2>3, <2>4, TurnGoesOn
<1>3. CASE Pursue!Loses(t)
    <2>1. PICK said : said = [unsaid EXCEPT ![turn[t].under] = @ \cup {t}]
        OBVIOUS
    <2>2. unsaid' = said /\ record' = [record EXCEPT ![t] = record[t]]
        BY <1>1, <1>3, <2>1 DEF Pursue!Loses
    <2>3. NotedRight([turn[t] EXCEPT !.at = "over"], record[t])
        BY <1>1 DEF NotedRight, TurnKinds
    <2> QED
        BY <1>1, <2>1, <2>2, <2>3, TurnGoesOn
<1> QED
    BY <1>2, <1>3 DEF Pursue!TurnEnds

LEMMA PursueStep == PursueInv /\ [Pursue!Next]_(Pursue!vars) => PursueInv'
<1> SUFFICES ASSUME PursueInv, [Pursue!Next]_(Pursue!vars) PROVE PursueInv'
    OBVIOUS
<1>1. steps' = steps /\ record' = record /\ turn' = turn /\ unsaid' = unsaid => PursueInv'
    BY DEF PursueInv, Known, OwnsUp
<1>2. UNCHANGED Pursue!vars => PursueInv'
    BY <1>1 DEF Pursue!vars
<1>3. ASSUME NEW p \in Pursuits,
             Pursue!Start(p) \/ Pursue!Step(p) \/ Pursue!ReaderEnd(p) \/ Pursue!End(p) \/ Pursue!HostDies(p)
      PROVE  PursueInv'
    <2>1. CASE Pursue!Start(p)
        BY <2>1, StepRecorded DEF Pursue!Start
    <2>2. CASE Pursue!Step(p)
        BY <2>2, StepRecorded DEF Pursue!Step
    <2>3. CASE Pursue!ReaderEnd(p)
        BY <2>3, StepRecorded DEF Pursue!ReaderEnd
    <2>4. CASE Pursue!End(p)
        BY <2>4, StepRecorded DEF Pursue!End
    <2>5. CASE Pursue!HostDies(p)
        BY <1>1, <2>5 DEF Pursue!HostDies
    <2> QED
        BY <1>3, <2>1, <2>2, <2>3, <2>4, <2>5
<1> QED
    BY <1>2, <1>3, NodeTurnSteps, ReaderTurnSteps, TurnEndSteps DEF Pursue!Next

-----------------------------------------------------------------------------
(* All of them together: the component a behaviour is about moves, the      *)
(* others stay.                                                             *)

RecordsInv ==
    /\ WordedInv /\ CollabInv /\ PubInv /\ AutomatedInv /\ PursueInv /\ PinsInv
    /\ VaultInv /\ damage \in Nat

LEMMA RecordsInit == Init => RecordsInv
<1>1. Frozen!Init => damage \in Nat
    BY DEF Frozen!Init
<1> QED
    BY <1>1, WordedInit, WrittenInit, CollabInit, PubInit, AutomatedInit, PursueInit, PinsInit, VaultInit DEF Init, RecordsInv

PartMoves ==
    /\ [Worded!Next]_(Worded!vars) /\ [Collab!Next]_(Collab!vars) /\ [Pub!Next]_(Pub!vars)
    /\ [Automated!Next]_(Automated!vars) /\ [Pursue!Next]_(Pursue!vars)
    /\ [Pins!Next]_(Pins!vars) /\ [Frozen!Next]_(Frozen!vars)

LEMMA EachPartMoves == [Next]_vars => PartMoves
<1> SUFFICES ASSUME [Next]_vars PROVE PartMoves
    OBVIOUS
<1> USE DEF PartMoves, textVars, pubVars, collabVars, autoVars, pursueVars, debugVars, pinVars, vaultVars,
            Worded!vars, Collab!vars, Pub!vars, Automated!vars, Pursue!vars, Pins!vars, Frozen!vars
<1>1. CASE UNCHANGED vars
    BY <1>1 DEF vars
<1>2. CASE Next
    BY <1>2, Zenon DEF Next
<1> QED
    BY <1>1, <1>2

LEMMA RecordsStep == RecordsInv /\ [Next]_vars => RecordsInv'
<1> SUFFICES ASSUME RecordsInv, PartMoves PROVE RecordsInv'
    BY EachPartMoves
<1>1. WordedInv' /\ CollabInv' /\ PubInv' /\ PinsInv'
    BY WordedStep, CollabStep, PubStep, PinsStep DEF RecordsInv, PartMoves
<1>2. AutomatedInv' /\ PursueInv'
    BY AutomatedStep, PursueStep DEF RecordsInv, PartMoves
<1>3. VaultInv' /\ damage' \in Nat
    BY VaultStep, DamageCounted DEF RecordsInv, PartMoves
<1> QED
    BY <1>1, <1>2, <1>3 DEF RecordsInv

\* Whoever edits, imports, exports, migrates, pins or asks for a review, and whatever
\* fails between, the records a project keeps and what each says of another agree.
THEOREM RecordsHold == Spec => []RecordsInv
BY RecordsInit, RecordsStep, PTL DEF Spec

(* Definitions by itself: its own initial state and steps, with no bound of  *)
(* the compositions' on names, edges, snapshots, decisions or restatements.  *)
WordedSpec == Worded!Init /\ [][Worded!Next]_(Worded!vars)

LEMMA WordedHolds == WordedSpec => []WordedInv
BY WordedInit, WordedStep, PTL DEF WordedSpec

\* What fixed_by recomputes from the snapshots and decisions of the history, on every read
\* and however many snapshots and edges came since, is what the decisions relied on as each
\* was made (_fixed_index, _relied_on).
THEOREM FixedIsReadBack == WordedSpec => [](Worded!Fixed = Worded!ReliedText)
BY WordedHolds, FixedIsRelied, PTL

\* What a decision relied on as it was made is never restated, in its statement or in a
\* definition it names, by any edit or import, whatever snapshots, edges and decisions came
\* since (fixed_by, restate_node, edit_definition, remove_definition).
THEOREM DecidedTextStands == WordedSpec => Worded!FixedTextStands
<1>1. WordedInv /\ [Worded!Next]_(Worded!vars) => [\A n \in Worded!ReliedText : Worded!SameText(n)]_(Worded!vars)
    BY WordedStep
<1> QED
    BY <1>1, WordedHolds, PTL DEF WordedSpec, Worded!FixedTextStands

\* What a decision relied on is never restated, in its statement or in a definition it
\* names, and what the researcher wrote no agent rewrites (edit_definition, restate_node).
THEOREM TextsStand == Spec => TextStands
<1>1. RecordsInv /\ [Next]_vars => [\A n \in Worded!ReliedText : Worded!SameText(n)]_(Worded!vars)
    BY WordedStep, EachPartMoves DEF RecordsInv, PartMoves
<1>2. RecordsInv =>
        (\A n \in Worded!Existing :
            node[n].by = "researcher" /\ ~ Worded!SameText(n) => ~ Worded!Edits("agent"))
    BY EditSteps DEF RecordsInv
<1>3. RecordsInv /\ [Next]_vars =>
        [\A n \in Worded!Existing :
            node[n].by = "researcher" /\ ~ Worded!SameText(n) => ~ Worded!Edits("agent")]_(Worded!vars)
    BY <1>2
<1> QED
    BY <1>1, <1>3, RecordsHold, PTL
    DEF Spec, TextStands, Worded!FixedTextStands, Worded!ResearcherTextStands

\* No review record of an older project is lost while it moves to the history, whoever
\* edits or dies meanwhile (migrate_collaboration_reviews).
THEOREM OldRecordsAreKept == Spec => []OldRecordsKept
<1>1. RecordsInv => OldRecordsKept
    BY CollabHolds DEF RecordsInv, OldRecordsKept
<1> QED
    BY <1>1, RecordsHold, PTL

\* What an export shows outside readers stood while it was being made, and a paper's
\* workspace holds no theorem the map did not give (export_paper, attach).
THEOREM WhatIsShownStood == Spec => []ShownStood
<1>1. RecordsInv => ShownStood
    BY DEF RecordsInv, PubInv, ShownStood
<1> QED
    BY <1>1, RecordsHold, PTL

\* However a run waited, was interrupted and resumed, and whichever commands raced, its
\* actions were executed in order and none twice; and a Pursue is read to have spent what
\* its turns were, or says that it may be less (Automation execute, _pursuit_budget).
THEOREM WorkIsFollowed == Spec => []WorkFollows
<1>1. RecordsInv => WorkFollows
    BY AutomatedHolds, PursueHolds DEF RecordsInv, WorkFollows
<1> QED
    BY <1>1, RecordsHold, PTL

\* A pin reads current when its target says what the dependent was checked against, and
\* only then (dependency_changes, interface_current).
THEOREM PinsTell == Spec => []PinTells
<1>1. RecordsInv => PinTells
    BY PinsHold DEF RecordsInv, PinTells
<1> QED
    BY <1>1, RecordsHold, PTL

\* A snapshot is what its request read wherever it is carried, a Run counts while no input
\* changed, and no request touches a version another recorded (request_review, vault.py).
THEOREM VaultsStand == Spec => VaultStands
<1>1. RecordsInv => (about = "vault" => Frozen!CountsAsFrozen /\ Frozen!InputsTell)
    BY VaultHolds DEF RecordsInv
<1>2. RecordsInv /\ [Next]_vars =>
        [\A v \in Frozen!Rows :
            /\ frozen'[v] = frozen[v] /\ pdf'[v] = pdf[v]
            /\ damage' = damage => disk'[v] = disk[v]]_(Frozen!vars)
    BY VaultStep, EachPartMoves DEF RecordsInv, PartMoves, VersionsHold
<1> QED
    BY <1>1, <1>2, RecordsHold, PTL DEF Spec, VaultStands, Frozen!VersionsStand
=============================================================================

---------------------------- MODULE Definitions -----------------------------
(***************************************************************************)
(* The text of a project (src/proof_cli/definitions.py, restate_node and     *)
(* fixed_by of proof_map.py): nodes whose statements are written in named    *)
(* definitions, who may restate either and until when, and the import of     *)
(* another project's nodes, planned before it takes the write lock           *)
(* (exchange.py). Every operation but the import is one transaction.         *)
(*                                                                         *)
(* What is fixed is no state: it is read, each time, from the snapshots and  *)
(* decisions recorded so far, in the order of their times, while the edges   *)
(* of the map and the newest snapshots go on changing.                       *)
(***************************************************************************)
EXTENDS MapGraph, Naturals, Sequences

CONSTANTS
    Nodes, Defs,    \* the ids of nodes and definitions
    Texts,          \* what a statement or a definition may say
    Importers,      \* processes that import bundles
    MaxRows,        \* a bound: snapshots and decisions in the history
    None

Authors == {"researcher", "agent"}

VARIABLES
    def,    \* [Defs -> None or [text, by]]
    node,   \* [Nodes -> None or [text, names, by, deps]]
    rows,   \* snapshots, decisions and seals, oldest first (created_at)
    plan    \* [Importers -> None or the bundle it is about to write]

vars == <<def, node, rows, plan>>

Existing == {n \in Nodes : node[n] # None}
Edges == [n \in Nodes |-> IF node[n] = None THEN {} ELSE node[n].deps]
Naming(d) == {n \in Existing : d \in node[n].names}
Exist(ds) == \A d \in ds : def[d] # None

TypeOK ==
    /\ def \in [Defs -> {None} \cup [text : Texts, by : Authors]]
    /\ node \in [Nodes -> {None} \cup
          [text : Texts, names : SUBSET Defs, by : Authors, deps : SUBSET Nodes]]
    /\ rows \in Seq([what : {"snapshot", "decision", "seal"}, node : Nodes,
                     on : SUBSET Nodes, relied : SUBSET Nodes])

Init ==
    /\ def = [d \in Defs |-> None]
    /\ node = [n \in Nodes |-> None]
    /\ rows = <<>>
    /\ plan = [i \in Importers |-> None]

-----------------------------------------------------------------------------
(* What the decisions fixed                                                *)

SnapshotsOf(n) == {i \in 1 .. Len(rows) : rows[i].what = "snapshot" /\ rows[i].node = n}

(* A node's own newest snapshot by then, not by now.                        *)
ByThen(n, i) == {j \in SnapshotsOf(n) : j <= i}

(* What the newest of some snapshots rests on: nothing, where there is none.*)
Cited(taken) == UNION {rows[i].on : i \in {j \in taken : \A k \in taken : k <= j}}

ReliedOnNewest(i) ==
    LET n == rows[i].node
    IN  CASE rows[i].what = "decision" -> RestsOn([x \in Nodes |-> Cited(SnapshotsOf(x))], n)
          [] rows[i].what = "seal" -> {n} \cup rows[i].on
          [] OTHER -> {}

(* _relied_on: the decided node, what the snapshot decided rests on, and    *)
(* below each of those what its newest snapshot by then does; a seal relies *)
(* on what it says it covers.                                               *)
ReliedOn(i) ==
    LET n == rows[i].node
    IN  CASE rows[i].what = "decision" ->
               RestsOn([x \in Nodes |-> IF x = n THEN rows[i].on ELSE Cited(ByThen(x, i))], n)
          [] rows[i].what = "seal" -> {n} \cup rows[i].on
          [] OTHER -> {}

(* _fixed_index: one pass over the decisions, on every read.                *)
Fixed == UNION {ReliedOn(i) : i \in 1 .. Len(rows)}

-----------------------------------------------------------------------------
(* Definitions                                                             *)

(* One condition, written once (_refuse_a_repeat).                          *)
Repeats(d, t) == \E other \in Defs \ {d} : def[other] # None /\ def[other].text = t

AddDefinition(d, t, by) ==
    /\ def[d] = None /\ ~ Repeats(d, t)
    /\ def' = [def EXCEPT ![d] = [text |-> t, by |-> by]]
    /\ UNCHANGED <<node, rows, plan>>

(* A definition is fixed with the first node naming it (fixed_by_definition)*)
FixedWithEvery(d) == Naming(d) # {} /\ Naming(d) \subseteq Fixed
FixedDefinition(d) == Naming(d) \cap Fixed # {}

(* require_restatable: an agent restates only what an agent wrote, ...      *)
Restatable(author, by) == by = "researcher" \/ author = "agent"

(* ... and edits no definition a statement of the researcher is written in. *)
NoTheirs(d, by) == TRUE
SparesTheirs(d, by) == by = "researcher" \/ \A n \in Naming(d) : node[n].by = "agent"

EditDefinition(d, t, by) ==
    /\ def[d] # None /\ def[d].text # t
    /\ ~ FixedDefinition(d)
    /\ Restatable(def[d].by, by) /\ SparesTheirs(d, by)
    /\ ~ Repeats(d, t)
    /\ def' = [def EXCEPT ![d].text = t]
    /\ UNCHANGED <<node, rows, plan>>

RemoveDefinition(d) ==
    /\ def[d] # None /\ Naming(d) = {}
    /\ def' = [def EXCEPT ![d] = None]
    /\ UNCHANGED <<node, rows, plan>>

-----------------------------------------------------------------------------
(* Nodes                                                                   *)

Written(t, names, by, deps) ==
    [text |-> t, names |-> names, by |-> by, deps |-> deps]

CreateNode(n, t, names, by) ==
    /\ node[n] = None /\ Exist(names)
    /\ \E deps \in SUBSET Existing : node' = [node EXCEPT ![n] = Written(t, names, by, deps)]
    /\ UNCHANGED <<def, rows, plan>>

Restate(n, t, names, by) ==
    /\ n \in Existing \ Fixed
    /\ Exist(names)
    /\ <<t, names>> # <<node[n].text, node[n].names>>
    /\ Restatable(node[n].by, by)
    /\ node' = [node EXCEPT ![n].text = t, ![n].names = names]
    /\ UNCHANGED <<def, rows, plan>>

(* The structural edits. Whether a decision stands in the way of one is for *)
(* ProofMap: here none ever does, so all the edits there are are here.      *)
AddDependency(n, m) ==
    /\ n \in Existing /\ m \in Existing \ node[n].deps
    /\ n # m /\ ~ Reaches(Edges, m, n)
    /\ node' = [node EXCEPT ![n].deps = @ \cup {m}]
    /\ UNCHANGED <<def, rows, plan>>

RemoveDependency(n, m) ==
    /\ n \in Existing /\ m \in node[n].deps
    /\ node' = [node EXCEPT ![n].deps = @ \ {m}]
    /\ UNCHANGED <<def, rows, plan>>

-----------------------------------------------------------------------------
(* The history: its rows get their times on the write lock.                *)

Records(what, n, on, relied) ==
    /\ n \in Existing
    /\ Len(rows) < MaxRows
    /\ rows' = Append(rows, [what |-> what, node |-> n, on |-> on, relied |-> relied])
    /\ UNCHANGED <<def, node, plan>>

(* A Review snapshot records what the proof rests on.                       *)
Snapshot(n) == n \in Existing /\ Records("snapshot", n, node[n].deps, {})

(* A decision of any outcome is on the newest snapshot; a verification looks*)
(* at the dependencies before its transaction, so they need not be the      *)
(* snapshot's. The row says which snapshot it was made on. What it relied on*)
(* as it was made is kept beside it, for the properties: no guard reads it. *)
Decide(n) ==
    /\ SnapshotsOf(n) # {}
    /\ LET cites == [x \in Nodes |-> Cited(SnapshotsOf(x))]
       IN  Records("decision", n, cites[n], RestsOn(cites, n))

(* A false seal relies on the sealed node alone, a true one on all it rests *)
(* on; an imported result's Reference review on the node alone too.         *)
SealAlone(n) == Records("seal", n, {}, {n})
SealTrue(n) ==
    /\ n \in Existing
    /\ Records("seal", n, RestsOn(Edges, n) \ {n}, RestsOn(Edges, n))

-----------------------------------------------------------------------------
(* Import: planned on what the project says now, written later.             *)

(* A definition of the bundle joins, or is here and says the same.          *)
PlanImport(i) ==
    \E n \in Nodes, names \in SUBSET Defs, t \in Texts, by \in Authors :
      \E says \in [names -> Texts] :
        /\ plan[i] = None
        /\ node[n] = None
        /\ \A d \in names : def[d] # None => def[d].text = says[d]
        /\ plan' = [plan EXCEPT ![i] =
              [node |-> n, written |-> Written(t, names, by, {}), by |-> by, says |-> says,
               new |-> {d \in names : def[d] = None}]]
        /\ UNCHANGED <<def, node, rows>>

(* _write_import inserts what the plan found missing, and looks at nothing  *)
(* it found here: an id taken since fails the whole import.                 *)
WriteImport(i) ==
    /\ plan[i] # None
    /\ LET p == plan[i]
           free == node[p.node] = None /\ \A d \in p.new : def[d] = None
       IN /\ def' = IF free THEN [d \in Defs |-> IF d \in p.new THEN [text |-> p.says[d], by |-> p.by] ELSE def[d]]
                    ELSE def
          /\ node' = IF free THEN [node EXCEPT ![p.node] = p.written] ELSE node
    /\ plan' = [plan EXCEPT ![i] = None]
    /\ UNCHANGED rows

-----------------------------------------------------------------------------
Edits(by) ==
    \/ \E d \in Defs, t \in Texts : AddDefinition(d, t, by) \/ EditDefinition(d, t, by)
    \/ \E d \in Defs : RemoveDefinition(d)
    \/ \E n \in Nodes, t \in Texts, names \in SUBSET Defs : CreateNode(n, t, names, by) \/ Restate(n, t, names, by)
    \/ \E n, m \in Nodes : AddDependency(n, m) \/ RemoveDependency(n, m)
    \/ \E n \in Nodes : Snapshot(n)

Next ==
    \/ \E by \in Authors : Edits(by)
    \/ \E n \in Nodes : Decide(n) \/ SealAlone(n) \/ SealTrue(n)
    \/ \E i \in Importers : PlanImport(i) \/ WriteImport(i)

Spec == Init /\ [][Next]_vars

-----------------------------------------------------------------------------
(* The text of the definitions n names that exist and are not removed.      *)
SameText(n) ==
    /\ node'[n].text = node[n].text /\ node'[n].names = node[n].names
    /\ \A d \in node[n].names : def[d] # None => def'[d] # None /\ def'[d].text = def[d].text

(* What some decision relied on as it was made.                             *)
ReliedText == UNION {rows[i].relied : i \in 1 .. Len(rows)}

(* No edit of a definition or a statement changes what a node says under a  *)
(* decision that relied on it: not by a definition another node shares, not *)
(* below the decided node, and not once newer snapshots and other edges have*)
(* taken the place of what that decision was made on (_fixed_index,         *)
(* edit_definition, restate_node, remove_definition).                       *)
FixedTextStands == [][\A n \in ReliedText : SameText(n)]_vars

(* No agent changes what a statement of the researcher says, by way of a    *)
(* definition it wrote itself included (RESEARCHER_TEXT).                   *)
ResearcherTextStands ==
    [][\A n \in Existing : node[n].by = "researcher" /\ ~ SameText(n) => ~ Edits("agent")]_vars

(* What a node says, with the definitions it names that there are.          *)
Says(n) == [text |-> node[n].text, names |-> node[n].names,
            means |-> [d \in node[n].names |-> IF def[d] = None THEN None ELSE def[d].text]]

(* "no edit anywhere can change what a node says under a decision that      *)
(* relied on it" (definitions.py). An import may write a node naming a      *)
(* definition removed since it was planned, and the next one of that id     *)
(* says something else under whatever was decided meanwhile.                *)
SaysTheSame == [][\A n \in ReliedText : Says(n)' = Says(n)]_vars
=============================================================================

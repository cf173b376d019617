------------------------------ MODULE Exchange ------------------------------
(***************************************************************************)
(* A project's records taken to another project (exchange.py, and what it   *)
(* uses of vault.py). The export reads one section after another, in no     *)
(* transaction, while others write the source; the import checks the whole  *)
(* bundle against the target as it finds it, and then writes everything in  *)
(* one transaction. Definitions models the definitions of a bundle, and     *)
(* ProjectFiles the files an import leaves if it is cut short.               *)
(***************************************************************************)
EXTENDS Naturals, Sequences

CONSTANTS
    Nodes,
    MaxSteps       \* bounds what is written at the source

(* The sections in the order export_exchange_bundle reads them.             *)
Sections == <<"nodes", "claims", "proofs", "pins", "challenges", "files", "decisions">>

VARIABLES
    source,     \* the project exported
    target,     \* the project the bundle is taken to
    bundle,     \* what the export has read
    read,       \* how many sections that is
    torn,       \* somebody wrote the source meanwhile
    plan,       \* the import: "none", "checked" or "written"
    steps

vars == <<source, target, bundle, read, torn, plan, steps>>

(* deps, pins and challenges are pairs of nodes; a challenge's second node  *)
(* is its counterexample. Of the snapshots, old ones froze files that no    *)
(* export carries.                                                          *)
Empty == [nodes |-> {}, deps |-> {}, claims |-> {}, proofs |-> {}, old |-> {},
          pins |-> {}, challenges |-> {}, files |-> {}, marked |-> {}, decisions |-> {}]

Init ==
    /\ source \in {Empty} \cup {[Empty EXCEPT !.nodes = {n}, !.proofs = {n}, !.files = {n}, !.old = {n}] : n \in Nodes}
    /\ target = Empty /\ bundle = Empty /\ read = 0 /\ torn = FALSE /\ plan = "none" /\ steps = 0

-----------------------------------------------------------------------------
(* What is written at a project, each in a transaction of its own.          *)

Created(P, n, ds) == [P EXCEPT !.nodes = @ \cup {n}, !.deps = @ \cup ({n} \X ds)]
Depending(P, n, d) == [P EXCEPT !.deps = @ \cup {<<n, d>>}]
Claimed(P, n) == [P EXCEPT !.claims = @ \cup {n}]
DepsOf(P, n) == {e \in P.deps : e[1] = n}
Reviewed(P, n) ==
    [P EXCEPT !.proofs = @ \cup {n}, !.files = @ \cup {n}, !.claims = @ \ {n},
              !.pins = {e \in @ : e[1] # n} \cup DepsOf(P, n)]
Challenging(P, n, c) == [P EXCEPT !.challenges = @ \cup {<<n, c>>}]
Accepting(P, n) == [P EXCEPT !.decisions = @ \cup {n}]

Writes(P) ==
    {Created(P, n, ds) : n \in Nodes \ P.nodes, ds \in SUBSET P.nodes} \cup
    {Depending(P, e[1], e[2]) : e \in {x \in P.nodes \X P.nodes : x[1] # x[2] /\ <<x[2], x[1]>> \notin P.deps}} \cup
    {Claimed(P, n) : n \in P.nodes} \cup
    {Reviewed(P, n) : n \in P.nodes \ P.proofs} \cup
    {Challenging(P, e[1], e[2]) : e \in {x \in P.nodes \X P.nodes : x[1] # x[2]}} \cup
    {Accepting(P, n) : n \in P.proofs}

WriteSource ==
    /\ steps < MaxSteps
    /\ source' \in Writes(source) \ {source}
    /\ torn' = (torn \/ (read > 0 /\ read < Len(Sections)))
    /\ steps' = steps + 1
    /\ UNCHANGED <<target, bundle, read, plan>>

(* Others write the target too, while the import looks at it and after.     *)
WriteTarget ==
    /\ steps < MaxSteps
    /\ target' \in {Created(target, n, {}) : n \in Nodes \ target.nodes} \cup {Claimed(target, n) : n \in target.nodes}
    /\ target' # target
    /\ steps' = steps + 1
    /\ UNCHANGED <<source, bundle, read, torn, plan>>

-----------------------------------------------------------------------------
(* Export                                                                  *)

(* _vault_files walks the folders of the nodes read first, and marks the    *)
(* snapshots it leaves files out of as unverifiable.                        *)
CarriedWithoutOld(B, P) == [B EXCEPT !.files = (P.files \ P.old) \cap B.nodes]
Carried(B, P) == [B EXCEPT !.files = P.files \cap B.nodes, !.marked = P.old \cap P.files \cap B.nodes]

(* export_exchange_bundle: a section as the source has it when it is read.  *)
Section(B, P, s) ==
    CASE s = "nodes" -> [B EXCEPT !.nodes = P.nodes, !.deps = P.deps]
      [] s = "claims" -> [B EXCEPT !.claims = P.claims]
      [] s = "proofs" -> [B EXCEPT !.proofs = P.proofs]
      [] s = "pins" -> [B EXCEPT !.pins = P.pins]
      [] s = "challenges" -> [B EXCEPT !.challenges = P.challenges]
      [] s = "files" -> Carried(B, P)
      [] s = "decisions" -> [B EXCEPT !.decisions = P.decisions]

Export ==
    /\ read < Len(Sections)
    /\ bundle' = Section(bundle, source, Sections[read + 1])
    /\ read' = read + 1
    /\ UNCHANGED <<source, target, torn, plan, steps>>

-----------------------------------------------------------------------------
(* Import                                                                  *)

(* _new_only: a local node keeps its own history, and about_new: so does    *)
(* everything about it.                                                     *)
NewOnly(B, T) == B.nodes \ T.nodes
About(pairs, new) == {e \in pairs : e[1] \in new}

(* What _plan_import refuses a bundle for.                                  *)
MissingDependency(B, T) == \E e \in About(B.deps, NewOnly(B, T)) : e[2] \notin B.nodes \cup T.nodes
MissingPin(B, T) == \E e \in About(B.pins, NewOnly(B, T)) : e[2] \notin B.nodes \cup T.nodes

(* _check_snapshot: a row's snapshot travels with it, or its export said    *)
(* what it withheld.                                                        *)
MissingSnapshot(B, T) == \E n \in B.proofs \cap NewOnly(B, T) : n \notin B.files
FileConflict(B, T) == B.files \cap NewOnly(B, T) \cap T.files # {}

Problem(B, T) == MissingDependency(B, T) \/ MissingPin(B, T) \/ MissingSnapshot(B, T) \/ FileConflict(B, T)

(* What the import would write: no claim and no decision of the source's    *)
(* counts here, and a Challenge's counterexample is not looked for.         *)
Joined(B, T) ==
    LET new == NewOnly(B, T)
    IN [T EXCEPT !.nodes = @ \cup new,
                 !.deps = @ \cup About(B.deps, new),
                 !.proofs = @ \cup (B.proofs \cap new),
                 !.pins = @ \cup About(B.pins, new),
                 !.challenges = @ \cup About(B.challenges, new),
                 !.files = @ \cup (B.files \cap new),
                 !.marked = @ \cup (B.marked \cap new)]

(* _plan_import, before the write lock.                                     *)
PlanImport ==
    /\ read = Len(Sections) /\ plan = "none"
    /\ plan' = IF Problem(bundle, target) THEN "refused" ELSE "checked"
    /\ bundle' = [bundle EXCEPT !.nodes = NewOnly(bundle, target)]
    /\ UNCHANGED <<source, target, read, torn, steps>>

(* _write_import: what was planned, whole, or nothing if a node of it has   *)
(* been made here since.                                                    *)
WriteImport ==
    /\ plan = "checked"
    /\ IF bundle.nodes \cap target.nodes = {}
       THEN target' = Joined(bundle, target) /\ plan' = "written"
       ELSE plan' = "refused" /\ UNCHANGED target
    /\ UNCHANGED <<source, bundle, read, torn, steps>>

Next == WriteSource \/ WriteTarget \/ Export \/ PlanImport \/ WriteImport

Spec == Init /\ [][Next]_vars

-----------------------------------------------------------------------------
(* What an import leaves is a project that stands by itself, however the    *)
(* source was written during the export and the target since the bundle was *)
(* checked: every dependency and pin names a node that is here, every       *)
(* snapshot row's snapshot is, nothing of the source's is held or decided,  *)
(* and a bundle of a project at rest is not refused by an empty one.        *)
ImportStands ==
    /\ \A e \in target.deps \cup target.pins : e[1] \in target.nodes /\ e[2] \in target.nodes
    /\ target.proofs \subseteq target.files
    /\ target.decisions = {}
    /\ read = Len(Sections) /\ plan = "none" /\ ~ torn => ~ Problem(bundle, Empty)

(* What was here before the import is as it was.                            *)
OwnRecordsKept ==
    [][plan' = "written" /\ plan # "written" =>
         \A n \in target.nodes :
            /\ DepsOf(target', n) = DepsOf(target, n)
            /\ n \in target'.claims <=> n \in target.claims
            /\ n \in target'.proofs <=> n \in target.proofs]_vars
=============================================================================

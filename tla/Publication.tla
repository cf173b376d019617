---------------------------- MODULE Publication -----------------------------
(***************************************************************************)
(* The editorial track of publication (src/proof_cli/publication.py): the    *)
(* workspace of claims, views, releases and snapshots, kept as one row of    *)
(* the database that every write loads and saves whole, with no transaction  *)
(* around the two; the moves a claim's readiness may make; the view an       *)
(* export selects for an audience; and the bundle snapshots exports record.  *)
(* The mathematical track is the environment: whether a node stands          *)
(* (`accepted . current`) changes at any time.                               *)
(***************************************************************************)
EXTENDS Naturals, FiniteSets, Sequences

CONSTANTS
    Nodes,      \* proof map nodes with a claim
    Theorems,   \* theorem contracts with a claim: they have no acceptance axis
    Processes,  \* the processes that write or export (pages, agents, command lines)
    None,
    MaxWrites   \* bound: writes and exports begun

Objects == Nodes \cup Theorems

Readinesses == {"internal_draft", "collaborator_ready", "supplement_ready", "paper_ready", "withdrawn"}
ReadyStates == {"supplement_ready", "paper_ready"}
Audiences   == {"internal", "supplement", "paper"}

(* ALLOWED_TRANSITIONS: one step forward or back, withdrawn from anywhere,  *)
(* and a withdrawn claim starts again.                                      *)
Ladder == <<"internal_draft", "collaborator_ready", "supplement_ready", "paper_ready">>
MayMove(from, to) ==
    \/ to = from
    \/ to = "withdrawn"
    \/ from = "withdrawn" /\ to = "internal_draft"
    \/ \E i \in 1 .. 3 : {from, to} = {Ladder[i], Ladder[i + 1]}

VARIABLES
    stands,     \* [Nodes -> BOOLEAN]: the node is accepted . current
    workspace,  \* the row: [claims, internal, views, releases, snapshots]
    rows,       \* the snapshots' own table
    task,       \* [Processes -> what it is doing, with the workspace it loaded]
    shown,      \* the last export: [audience, objects, stood]
    writes      \* writes and exports begun

vars == <<stands, workspace, rows, task, shown, writes>>

Free == [at |-> "free"]

(* A claim nobody has written yet reads as a draft.                         *)
Readiness(ws, o) == IF ws.claims[o] = None THEN "internal_draft" ELSE ws.claims[o]

Init ==
    /\ stands \in [Nodes -> BOOLEAN]
    /\ workspace = [claims |-> [o \in Objects |-> None], internal |-> {}, views |-> <<>>,
                    releases |-> <<>>, snapshots |-> {}]
    /\ rows = {}
    /\ task = [p \in Processes |-> Free]
    /\ shown = [audience |-> None, objects |-> {}, stood |-> {}]
    /\ writes = 0

(* A node's state changes on the mathematical track; an export under way    *)
(* may have read it either way.                                             *)
StandingChanges(n) ==
    /\ stands' = [stands EXCEPT ![n] = ~ @]
    /\ task' = [p \in Processes |-> IF task[p].at = "select"
                                     THEN [task[p] EXCEPT !.stood = @ \cup {n}] ELSE task[p]]
    /\ UNCHANGED <<workspace, rows, shown, writes>>

(* load_publication_state: a write begins by loading the whole workspace.   *)
Begins(p, t) ==
    /\ task[p] = Free /\ writes < MaxWrites
    /\ writes' = writes + 1
    /\ task' = [task EXCEPT ![p] = t]
    /\ UNCHANGED <<stands, workspace, rows, shown>>

Goes(p, t) ==
    /\ task' = [task EXCEPT ![p] = t]
    /\ UNCHANGED <<stands, workspace, rows, shown, writes>>

(* _save_state_with_event: the workspace is written whole as it was changed.*)
Saves(p) ==
    /\ task[p].at = "save"
    /\ workspace' = task[p].ws
    /\ task' = [task EXCEPT ![p] = task[p].then]
    /\ UNCHANGED <<stands, rows, shown, writes>>

Save(ws, then) == [at |-> "save", ws |-> ws, then |-> then]

-----------------------------------------------------------------------------
(* set_publication_claim: load, check, save.                                *)

SetClaimLoads(p) ==
    \E o \in Objects, to \in Readinesses, internal \in BOOLEAN :
        Begins(p, [at |-> "set", o |-> o, to |-> to, internal |-> internal, ws |-> workspace])

(* check_readiness_write: the move must be allowed from the claim as        *)
(* loaded, and a ready state needs a node that stands now.                  *)
AnyMove(ws, o, to) == TRUE
Moves(ws, o, to) == MayMove(Readiness(ws, o), to)
ReadyGate(o, to) == to \in ReadyStates => o \in Nodes /\ stands[o]

SetClaimChecks(p) ==
    /\ task[p].at = "set"
    /\ LET t == task[p] IN
         Goes(p, IF Moves(t.ws, t.o, t.to) /\ ReadyGate(t.o, t.to)
                 THEN Save([t.ws EXCEPT !.claims[t.o] = t.to,
                                        !.internal = IF t.internal THEN @ \cup {t.o} ELSE @ \ {t.o}], Free)
                 ELSE Free)

-----------------------------------------------------------------------------
(* The appends: a view, a release, a withdrawal.                            *)

CreateView(p) ==
    \E a \in Audiences, in \in SUBSET Objects, out \in SUBSET Objects :
        /\ Cardinality(in) + Cardinality(out) <= 1
        /\ Begins(p, Save([workspace EXCEPT !.views = Append(@, [audience |-> a, in |-> in, out |-> out])], Free))

RecordRelease(p) ==
    \E a \in Audiences :
        Begins(p, Save([workspace EXCEPT !.releases = Append(@, [audience |-> a, status |-> "approved"])], Free))

(* withdraw_release appends a record of its own for the release's audience. *)
WithdrawRelease(p) ==
    \E i \in DOMAIN workspace.releases :
        Begins(p, Save([workspace EXCEPT
            !.releases = Append(@, [audience |-> workspace.releases[i].audience, status |-> "withdrawn"])], Free))

(* An exchange import merges another project's claims in one transaction:   *)
(* the local claim is kept, and any readiness comes with a new one.         *)
Import(p) ==
    /\ task[p] = Free /\ writes < MaxWrites
    /\ \E o \in Objects, r \in Readinesses :
         /\ workspace.claims[o] = None
         /\ workspace' = [workspace EXCEPT !.claims[o] = r]
    /\ writes' = writes + 1
    /\ UNCHANGED <<stands, rows, task, shown>>

-----------------------------------------------------------------------------
(* build_publication_view: the audience's last view selects, or none does.  *)

NoView == [audience |-> None, in |-> {}, out |-> {}]
ViewFor(ws, a) ==
    LET of == {i \in DOMAIN ws.views : ws.views[i].audience = a} IN
        IF of = {} THEN NoView ELSE ws.views[CHOOSE i \in of : \A j \in of : j <= i]

Selecting(ws, a, v, stood, then) ==
    [at |-> "select", a |-> a, ws |-> ws, view |-> v, todo |-> Objects, visible |-> {}, stood |-> stood,
     then |-> then]

Exporting(a, then) == Selecting(workspace, a, ViewFor(workspace, a), {n \in Nodes : stands[n]}, then)

(* A snapshot joins the workspace, and then gets a row of a table of its own.*)
Snapshot(id, then) ==
    Save([workspace EXCEPT !.snapshots = @ \cup {id}], [at |-> "row", id |-> id, then |-> then])

ExportLoads(p) == \E a \in Audiences : Begins(p, Exporting(a, Free))

(* record_publication_bundle_snapshot for an audience: the workspace it     *)
(* loads first is the one it saves, after the export it makes in between.   *)
SnapshotLoads(p) == \E a \in Audiences : Begins(p, Exporting(a, Snapshot(<<"asked", writes>>, Free)))

(* The editorial side of _select_claims_for_audience, ...                   *)
Wanted(t, o) ==
    /\ o \notin t.view.out
    /\ t.view.in # {} => o \in t.view.in
    /\ o \notin t.ws.internal
    /\ t.a = "paper" => Readiness(t.ws, o) = "paper_ready"
    /\ t.a = "supplement" => Readiness(t.ws, o) \in ReadyStates

(* ... and the mathematical one: a claim whose node does not stand when its *)
(* axes are read is withheld from outside readers (standing_problem).       *)
Trusted(t, o) == TRUE
Unwithheld(t, o) == t.a # "internal" => o \in Nodes /\ stands[o]

Selects(p) ==
    /\ task[p].at = "select"
    /\ \E o \in task[p].todo :
         Goes(p, [task[p] EXCEPT !.todo = @ \ {o},
                                 !.visible = IF Wanted(task[p], o) /\ Unwithheld(task[p], o)
                                             THEN @ \cup {o} ELSE @])

(* A view that shows outside readers nothing is passed over: the audience's *)
(* own selection is made instead, what the view excluded included.          *)
SelectsWithoutView(p) ==
    /\ task[p].at = "select" /\ task[p].todo = {}
    /\ task[p].view # NoView /\ task[p].a # "internal" /\ task[p].visible = {}
    /\ Goes(p, Selecting(task[p].ws, task[p].a, NoView, task[p].stood, task[p].then))

(* build_publication_bundle then records the bundle it made, with a load of *)
(* its own: the snapshot joins the workspace, and then its own table.       *)
Shows(p) ==
    LET t == task[p] IN
    /\ t.at = "select" /\ t.todo = {}
    /\ t.view = NoView \/ t.a = "internal" \/ t.visible # {}
    /\ shown' = [audience |-> t.a, objects |-> t.visible, stood |-> t.stood]
    /\ task' = [task EXCEPT ![p] = [at |-> "bundle", id |-> <<"made", writes>>, then |-> t.then]]
    /\ UNCHANGED <<stands, workspace, rows, writes>>

BundleRecorded(p) ==
    /\ task[p].at = "bundle"
    /\ Goes(p, Snapshot(task[p].id, task[p].then))

RowStored(p) ==
    /\ task[p].at = "row"
    /\ rows' = rows \cup {task[p].id}
    /\ task' = [task EXCEPT ![p] = task[p].then]
    /\ UNCHANGED <<stands, workspace, shown, writes>>

-----------------------------------------------------------------------------
Next ==
    \/ \E n \in Nodes : StandingChanges(n)
    \/ \E p \in Processes :
          \/ Import(p) \/ SetClaimLoads(p) \/ SetClaimChecks(p) \/ Saves(p)
          \/ CreateView(p) \/ RecordRelease(p) \/ WithdrawRelease(p)
          \/ ExportLoads(p) \/ SnapshotLoads(p) \/ Selects(p) \/ SelectsWithoutView(p) \/ Shows(p)
          \/ BundleRecorded(p) \/ RowStored(p)

Spec == Init /\ [][Next]_vars

-----------------------------------------------------------------------------
(* What an export shows readers outside the project stood at some moment of *)
(* the export, however the claim became ready: by a write whose node stood  *)
(* then, by an import, or by a stale workspace written over a newer one     *)
(* (_select_claims_for_audience reads the axes live).                       *)
ShownStood ==
    shown.audience \in {"supplement", "paper"} => shown.objects \subseteq shown.stood

(* A recorded claim's readiness moves only as CONTEXT.md's editorial track  *)
(* allows (ALLOWED_TRANSITIONS, check_readiness_write). A single process    *)
(* keeps it; two do not, each saving the workspace it loaded.               *)
MovesAllowed ==
    [][\A o \in Objects : workspace.claims[o] # None =>
            MayMove(Readiness(workspace, o), Readiness(workspace', o))]_vars
=============================================================================

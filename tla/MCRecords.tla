----------------------------- MODULE MCRecords ------------------------------
(***************************************************************************)
(* The records a project keeps beside the map's claims, each by a component  *)
(* of its own: Definitions, Publication, Collaboration, Automation, Pursuit,  *)
(* the older search for bugs (Debugging), the pins of what a dependency said   *)
(* (Interfaces) and the folders and snapshots that decisions are bound to      *)
(* (Vault).  None reads what another keeps, so one run checks them all: the   *)
(* component a behaviour is about moves, and the others stay where they began. *)
(***************************************************************************)
EXTENDS Naturals, Sequences, FiniteSets, TLC

CONSTANTS
    Nodes, Defs, Texts, Importers,           \* Definitions
    MaxRows, MaxNamed, MaxSealed, MaxDecided,    \* ... and the bounds of its two parts
    Claimed, Theorems, MaxWrites,            \* Publication's nodes and theorems
    Processes, OldRecords, Malformed, Forged, Reviews,   \* Collaboration
    Topics, Members, Branches, Assets, MaxEdits,
    Policies, MaxActions, MaxRecords, Runners,   \* Automation
    Pursuits, NodeTurns, ReaderTurns, MaxSteps,          \* Pursuit
    Ids, Judgements, Repaired, MaxDone,      \* Debugging
    Sayings, MaxChanges, MaxSnapshots,       \* Interfaces
    MaxVersions, MaxTouches, MaxDamage,      \* Vault
    Callers,                                 \* who publishes, automates, requests review
    None

\* There is something to say, None is no record and no process, and a malformed entry is no record.
ASSUME RecordsAssumption ==
    /\ Texts # {}
    /\ None \notin [text : Texts, by : {"researcher", "agent"}]
    /\ None \notin [text : Texts, names : SUBSET Defs, by : {"researcher", "agent"}, deps : SUBSET Nodes]
    /\ None \notin Processes \cup {"requested", "decided"} /\ OldRecords \cap Malformed = {}
    /\ None \notin [form : {"plain", "claim", "lemma"}, text : Sayings]
                    \cup [form : {"worded"}, text : Sayings, defined : Sayings]
    /\ None \notin [version : {0, 1}, print : {None} \cup [form : {"claim"}, text : Sayings], at : {0}]
    /\ "nobody" \notin Callers /\ None \notin Pursuits /\ None \notin [job : BOOLEAN, failed : BOOLEAN]
    /\ NodeTurns \cap ReaderTurns = {}
    /\ MaxVersions \in Nat /\ MaxChanges \in Nat /\ MaxSnapshots \in Nat

VARIABLES
    about,                                              \* the component
    def, node, decided, plan,                           \* Definitions
    stands, workspace, rows, task, shown, writes,       \* Publication
    file, db, lock, proc, edits,                        \* Collaboration
    records, reader,                                    \* Automation
    steps, record, turn, unsaid, up,                    \* Pursuit
    contract, context, obligations, history,            \* Debugging
    remembered, synced, altered,
    says, decidedOn, changes, kind, target, dependent,  \* Interfaces
    stored, signed, seen, accepted,
    folder, exec, medium, built, newer, disk, pdf,      \* Vault
    frozen, req, writer, touched, damage

textVars   == <<def, node, decided, plan>>
pubVars    == <<stands, workspace, rows, task, shown, writes>>
collabVars == <<file, db, lock, proc, edits>>
autoVars   == <<records, reader>>
pursueVars == <<steps, record, turn, unsaid, up>>
debugVars  == <<contract, context, obligations, history, remembered, synced, altered>>
pinVars    == <<says, decidedOn, changes, kind, target, dependent, stored, signed, seen, accepted>>
vaultVars  == <<folder, exec, medium, built, newer, disk, pdf, frozen, req, writer, touched, damage>>

Worded == INSTANCE Definitions WITH rows <- decided

Pub == INSTANCE Publication WITH Nodes <- Claimed, Processes <- Callers

Collab == INSTANCE Collaboration WITH Kept <- OldRecords, Objects <- Topics, Authors <- Members

Default == [allowed |-> {"inspect_state", "execute_task"}, forbidden |-> {},
            reviewed |-> {"execute_task"}, reversibleOnly |-> FALSE]
Strict == [allowed |-> {}, forbidden |-> {"execute_task"}, reviewed |-> {}, reversibleOnly |-> TRUE]
TwoPolicies == {Default, Strict}

Automated == INSTANCE Automation WITH Processes <- Runners, proc <- reader

Pursue == INSTANCE Pursuit

Debug == INSTANCE Debugging WITH
    Reviewed <- Judgements, MaxSteps <- MaxDone, records <- remembered, edits <- altered

Pins == INSTANCE Interfaces WITH Texts <- Sayings, fixed <- decidedOn

Frozen == INSTANCE Vault WITH
    Processes <- Callers, Versions <- 1 .. MaxVersions, MaxEdits <- MaxTouches,
    rows <- frozen, lock <- writer, edits <- touched

vars == <<about, textVars, pubVars, collabVars, autoVars, pursueVars, debugVars, pinVars, vaultVars>>

(* Where the second part of Definitions begins: every node is written.      *)
FirstText == CHOOSE t \in Texts : TRUE

WrittenOut ==
    /\ def = [d \in Defs |-> None] /\ decided = <<>> /\ plan = [i \in Importers |-> None]
    /\ node = [n \in Nodes |-> Worded!Written(FirstText, {}, "researcher", {})]

(* Where the components begin: one that is not the behaviour's own begins   *)
(* in one way only.                                                         *)
Init ==
    /\ about \in {"texts", "history", "publication", "collaboration", "automation", "pursuit", "debugging",
                  "pins", "vault"}
    /\ IF about = "history" THEN WrittenOut ELSE Worded!Init
    /\ Pub!Init /\ Collab!Init /\ Automated!Init /\ Pursue!Init /\ Debug!Init
    /\ Pins!Init /\ Frozen!Init
    /\ about # "publication" => stands = [n \in Claimed |-> FALSE]
    /\ about # "automation" =>
          /\ records[1].profile = Default /\ records[1].mode = "supervised"
          /\ records[1].plan = <<Automated!Planned([type |-> "inspect_state", risk |-> "low", reversible |-> TRUE])>>
    /\ about # "pins" => says = [text |-> CHOOSE v \in Sayings : TRUE, defined |-> CHOOSE v \in Sayings : TRUE]
                         /\ stored = None
    /\ about # "vault" => medium = "latex" /\ folder["env"] = "none" /\ disk[1] = Frozen!NoFolder

(* Definitions in two parts. One is about few nodes, written in definitions *)
(* and imported, some of them sealed; the other about more nodes in plain   *)
(* words, their edges, snapshots and decisions, and what is restated after. *)
(* Texts are alike: in either, the first one written is the same one.       *)
OfTexts ==
    /\ Worded!Existing = {} /\ (\A d \in Defs : def[d] = None) =>
          /\ \A n \in Worded!Existing' : node'[n].text = FirstText
          /\ \A d \in Defs : def'[d] # None => def'[d].text = FirstText
          /\ \A i \in Importers : plan'[i] # None => plan'[i].written.text = FirstText
    /\ Cardinality(Worded!Existing') <= MaxNamed
    /\ Len(decided') <= MaxSealed
    /\ \A i \in 1 .. Len(decided') : decided'[i].what = "seal"

Decisions == {i \in 1 .. Len(decided) : decided[i].what = "decision"}

OfHistory ==
    /\ UNCHANGED <<def, plan>>
    /\ \A n \in Worded!Existing :
          /\ node'[n].names = {}
          /\ node'[n].text # node[n].text => Decisions # {}
          /\ Worded!Snapshot(n) => node[n].deps # Worded!Cited(Worded!SnapshotsOf(n))
    /\ Cardinality(Decisions') <= MaxDecided
    /\ \A i \in 1 .. Len(decided') : decided'[i].what # "seal"

Next ==
    /\ UNCHANGED about
    /\ \/ /\ about = "texts" /\ Worded!Next /\ OfTexts
          /\ UNCHANGED <<pubVars, collabVars, autoVars, pursueVars, debugVars, pinVars, vaultVars>>
       \/ /\ about = "history" /\ Worded!Next /\ OfHistory
          /\ UNCHANGED <<pubVars, collabVars, autoVars, pursueVars, debugVars, pinVars, vaultVars>>
       \/ /\ about = "publication" /\ Pub!Next
          /\ UNCHANGED <<textVars, collabVars, autoVars, pursueVars, debugVars, pinVars, vaultVars>>
       \/ /\ about = "collaboration" /\ Collab!Next
          /\ UNCHANGED <<textVars, pubVars, autoVars, pursueVars, debugVars, pinVars, vaultVars>>
       \/ /\ about = "automation" /\ Automated!Next
          /\ UNCHANGED <<textVars, pubVars, collabVars, pursueVars, debugVars, pinVars, vaultVars>>
       \/ /\ about = "pursuit" /\ Pursue!Next
          /\ UNCHANGED <<textVars, pubVars, collabVars, autoVars, debugVars, pinVars, vaultVars>>
       \/ /\ about = "debugging" /\ Debug!Next
          /\ UNCHANGED <<textVars, pubVars, collabVars, autoVars, pursueVars, pinVars, vaultVars>>
       \/ /\ about = "pins" /\ Pins!Next
          /\ UNCHANGED <<textVars, pubVars, collabVars, autoVars, pursueVars, debugVars, vaultVars>>
       \/ /\ about = "vault" /\ Frozen!Next
          /\ UNCHANGED <<textVars, pubVars, collabVars, autoVars, pursueVars, debugVars, pinVars>>

Spec == Init /\ [][Next]_vars

(* The nodes of Definitions are alike.                                      *)
NodeSymmetry == Permutations(Nodes)

(* What a publication export shows outside readers stood during the export  *)
(* (Publication).                                                           *)
ShownStood == about = "publication" => Pub!ShownStood

(* No review record of an older project is lost while it moves to the       *)
(* history (Collaboration).                                                 *)
OldRecordsKept == about = "collaboration" => Collab!OldRecordsKept

(* The work done is the work recorded: a run's actions are executed in order *)
(* and none twice (Automation); and a Pursue's spend is what its turns were,  *)
(* or says that it may be less (Pursuit).                                   *)
WorkFollows ==
    /\ about = "automation" => Automated!OnceInOrder
    /\ about = "pursuit" => Pursue!SpendIsItsTurns

(* What is settled of a bug gets no task, what is open gets all of them, and *)
(* a handoff carries each (Debugging).                                      *)
BugsFollowed == about = "debugging" => Debug!TasksFollow /\ Debug!CyclesFound /\ Debug!HandoffCarries

(* A pin that fits says what the text it was taken on said (Interfaces).    *)
PinTells == about = "pins" => Pins!PinTells

(* What a decision relied on is never restated, and what the researcher     *)
(* wrote no agent rewrites (Definitions).                                   *)
TextStands == Worded!FixedTextStands /\ Worded!ResearcherTextStands

(* A snapshot a decision is bound to is what the request read, wherever it is *)
(* carried; a Run counts while no input changed; and a version, once recorded, *)
(* is left alone by every other request (Vault).                            *)
VaultStands ==
  [](about = "vault" => Frozen!CountsAsFrozen /\ Frozen!InputsTell) /\ Frozen!VersionsStand
=============================================================================

----------------------------- MODULE MCProofMap -----------------------------
(***************************************************************************)
(* Two small instances of ProofMap in one: the map's structure, three nodes   *)
(* that two actors split, link, claim and remove; and its decisions, two      *)
(* nodes that one actor edits, reviews, challenges and decides.  Beside them,   *)
(* one node's working proof, its mechanical checks and its verdict (NodeCheck).   *)
(***************************************************************************)
EXTENDS ProofMap, TLC

CONSTANTS a, b, c, human, agent, nobody,
          x1, x2, y1, j1, j2     \* NodeCheck

VARIABLES
  about,                                               \* the instance
  doc, states, statement, uses, inputs, leads,         \* NodeCheck
  holding, unreadable, ideas, checked, revisions

checkVars == <<doc, states, statement, uses, inputs, leads, holding, unreadable, ideas, checked, revisions>>

Two == {a, b}
Three == {a, b, c}

Alone == {human}
People == {human, agent}

NoNodes == {}
LocalAndImported == {"claim", "imported_result"}

Structure == INSTANCE ProofMap WITH Judged <- NoNodes
Decisions == INSTANCE ProofMap WITH Actors <- Alone, NewKinds <- LocalAndImported

InputFiles == {j1, j2}
Check == INSTANCE NodeCheck WITH
  Deps <- {x1, x2}, Stranger <- y1, Files <- InputFiles, MaxInputFiles <- 3, MaxEdits <- 3,
  deps <- uses, verdict <- checked, edits <- revisions

MapInit ==
  /\ Init /\ Check!Init
  /\ about \in {"structure", "decisions", "checks"}
  /\ about # "checks" => uses = {}

MapNext ==
  /\ UNCHANGED about
  /\ \/ about = "structure" /\ Structure!Next /\ UNCHANGED checkVars
     \/ about = "decisions" /\ Decisions!Next /\ nodes' \subseteq Two /\ UNCHANGED checkVars
     \/ about = "checks" /\ Check!Next /\ UNCHANGED vars

MapSpec == MapInit /\ [][MapNext]_<<vars, checkVars, about>>

(* The two nodes of the decisions are alike, and the files of a folder.     *)
Alike == Permutations(Two) \cup Permutations(InputFiles)

(* A passing verdict answers for every application of every dependency, on   *)
(* what the mechanical checks would pass, and they leave nothing of the         *)
(* folder unseen (NodeCheck).                                               *)
ChecksStand ==
  about = "checks" =>
    Check!VerdictAnswersAll /\ Check!CheckedIsNotRefused /\ Check!NothingUnseen /\ Check!CommentsGone
=============================================================================

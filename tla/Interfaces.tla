----------------------------- MODULE Interfaces -----------------------------
(***************************************************************************)
(* What a dependent was checked against, and whether its dependency still   *)
(* says it (the pins of proof_map.py): one target node, written in one      *)
(* definition, and one dependent resting on it. A pin keeps a fingerprint   *)
(* of what the target said, in one of four spellings the project has used,  *)
(* and is read against what the target says now.                            *)
(***************************************************************************)
EXTENDS Naturals

CONSTANTS
    Texts,          \* what a statement or a definition may say
    MaxChanges,     \* bounds the restatements and edits
    MaxSnapshots,   \* bounds the snapshots of each node
    None

VARIABLES
    says,      \* [text, defined]: the target's statement and its definition's text
    fixed,     \* a decision relied on what the target says
    changes,   \* how often that changed: the time of the newest text event
    kind,      \* the target as it counts: a claim, or a lemma since its Promote
    target,    \* [snapshots, decided, accepts, whole]: its versions, the one its newest
               \* decision is on (0: none), its outcome, and whether that version still
               \* is as decided
    dependent, \* likewise
    stored,    \* the dependent's dependency_pins row
    signed,    \* the pin of its newest decision, if that was an Acceptance
    seen,      \* what the target said when the dependent's newest snapshot was taken
    accepted   \* and when the snapshot its Acceptance names was

vars == <<says, fixed, changes, kind, target, stored, signed, dependent, seen, accepted>>

targetVars    == <<says, fixed, changes, kind, target>>
dependentVars == <<stored, signed, dependent, seen, accepted>>

-----------------------------------------------------------------------------
(* Fingerprints                                                            *)

(* compute_interface_fingerprint: a definition is in it by its id.          *)
Interface(s) == [form |-> "plain", text |-> s.text]

(* Before #22 a fingerprint had the node's kind in it.                      *)
WithKind(k, s) == [form |-> k, text |-> s.text]

(* _provisional_interface: the definition's text is in it too.              *)
Provisional(s) == [form |-> "worded", text |-> s.text, defined |-> s.defined]

(* _same_interface: two spellings of what the node says now.                *)
OfThisKind(s) == {Interface(s), WithKind(kind, s)}
Spellings(s) == {Interface(s)} \cup {WithKind(k, s) : k \in {"claim", "lemma"}}
SameInterface(left, right) ==
    left # None /\ right # None /\ (left = right \/ {left, right} \subseteq Spellings(says))

-----------------------------------------------------------------------------
(* Pins                                                                    *)

Accepted(n) == n.accepts /\ n.whole

(* _awaiting_decision: a decision that does not count covers nothing.       *)
Awaiting(n) == n.snapshots > n.decided \/ ~ n.whole
AcceptedInterface == IF Accepted(target) THEN Interface(says) ELSE None

(* _refreshed_pin: at the version and interface the target is accepted at.  *)
Refreshed == [version |-> target.decided, print |-> AcceptedInterface, at |-> changes]

(* pin_dependencies: a target not yet Accepted offers its words alone.      *)
Taken == IF Accepted(target) THEN Refreshed
         ELSE [version |-> 0, print |-> Provisional(says), at |-> changes]

(* dependency_pin_is_current. A pin with neither version nor fingerprint is *)
(* read against the time of the target's newest change.                     *)
Current(pin) ==
    IF pin.version # 0 THEN SameInterface(pin.print, AcceptedInterface)
    ELSE IF pin.print # None THEN pin.print = Provisional(says)
    ELSE changes <= pin.at

(* _pins_accepted_against: the target's Acceptance since then answers a pin *)
(* that is still current.                                                   *)
WhateverItSays(pin) == IF pin.version = 0 /\ Accepted(target) THEN Refreshed ELSE pin
AcceptedAgainst(pin) == IF pin.version = 0 /\ Accepted(target) /\ Current(pin) THEN Refreshed ELSE pin

(* get_dependency_pin: the pin as it counts.                                *)
Counted == IF Accepted(dependent) THEN signed ELSE stored
CheckedAgainst == IF Accepted(dependent) THEN accepted ELSE seen

-----------------------------------------------------------------------------
(* A pin an older version took, spelled as it did.                          *)
Older(s) ==
    {[version |-> 0, print |-> None, at |-> 0]} \cup
    {[version |-> 1, print |-> WithKind("claim", s), at |-> 0]}

Decided(v, accept) == [snapshots |-> v, decided |-> v, accepts |-> accept, whole |-> TRUE]

Init ==
    /\ says \in [text : Texts, defined : Texts]
    /\ changes = 0 /\ kind = "claim"
    /\ stored \in {None} \cup Older(says)
    /\ fixed = (stored # None /\ stored.version = 1)
    /\ target = IF fixed THEN Decided(1, TRUE) ELSE [Decided(0, FALSE) EXCEPT !.snapshots = 0]
    /\ dependent = [Decided(0, FALSE) EXCEPT !.snapshots = IF stored = None THEN 0 ELSE 1]
    /\ signed = None
    /\ seen = says /\ accepted = says

(* restate_node, edit_definition: only until a decision relied on the text. *)
Change(new) ==
    /\ changes < MaxChanges /\ ~ fixed /\ new # says
    /\ new.text = says.text \/ new.defined = says.defined
    /\ says' = new
    /\ changes' = changes + 1
    /\ UNCHANGED <<fixed, kind, target, dependentVars>>

SnapshotTarget ==
    /\ target.snapshots < MaxSnapshots
    /\ target' = [target EXCEPT !.snapshots = @ + 1]
    /\ UNCHANGED <<says, fixed, changes, kind, dependentVars>>

(* A decision on the target's newest snapshot, of any outcome.              *)
DecideTarget(accept) ==
    /\ Awaiting(target)
    /\ target' = Decided(target.snapshots, accept)
    /\ fixed' = TRUE
    /\ UNCHANGED <<says, changes, kind, dependentVars>>

(* The files of the snapshot a decision names are edited, and put back.     *)
SnapshotEdited ==
    \/ /\ target.decided # 0
       /\ target' = [target EXCEPT !.whole = ~ @]
       /\ UNCHANGED <<says, fixed, changes, kind, dependentVars>>
    \/ /\ dependent.decided # 0
       /\ dependent' = [dependent EXCEPT !.whole = ~ @]
       /\ UNCHANGED <<targetVars, stored, signed, seen, accepted>>

(* promote_to_lemma                                                        *)
Promote ==
    /\ kind = "claim" /\ Accepted(target)
    /\ kind' = "lemma"
    /\ UNCHANGED <<says, fixed, changes, target, dependentVars>>

(* request_review of the dependent                                         *)
RequestReview ==
    /\ dependent.snapshots < MaxSnapshots
    /\ dependent' = [dependent EXCEPT !.snapshots = @ + 1]
    /\ stored' = Taken /\ seen' = says
    /\ UNCHANGED <<targetVars, signed, accepted>>

(* decide_acceptance of the dependent: what it rests on is decided first,   *)
(* unless it is Accepted already.                                           *)
Decide(accept) ==
    /\ Awaiting(dependent)
    /\ Accepted(dependent) \/ Accepted(target)
    /\ dependent' = Decided(dependent.snapshots, accept)
    /\ IF accept
       THEN LET against == AcceptedAgainst(stored)
            IN /\ signed' = against /\ accepted' = seen
               /\ stored' = IF against = stored THEN stored ELSE [against EXCEPT !.at = changes]
       ELSE signed' = None /\ UNCHANGED <<stored, accepted>>
    /\ fixed' = TRUE
    /\ UNCHANGED <<says, changes, kind, target, seen>>

Next ==
    \/ \E new \in [text : Texts, defined : Texts] : Change(new)
    \/ SnapshotTarget
    \/ \E accept \in BOOLEAN : DecideTarget(accept) \/ Decide(accept)
    \/ SnapshotEdited
    \/ Promote
    \/ RequestReview

Spec == Init /\ [][Next]_vars

-----------------------------------------------------------------------------
(* A pin that reads current is one whose target says, in its statement and  *)
(* its definition, what the dependent's counted snapshot was checked        *)
(* against. And it does read current while the target says that and stands  *)
(* as the pin says it did: no Acceptance, proof-only revision or Promote of *)
(* the target unsettles what rests on it (a pin of the oldest kind keeps no *)
(* text, and reads changed once the target was restated at all).            *)
PinTells ==
    Counted # None =>
        /\ Current(Counted) => says = CheckedAgainst
        /\ says = CheckedAgainst /\ (Counted.version # 0 => Accepted(target))
             => Current(Counted) \/ (Counted.version = 0 /\ Counted.print = None)
=============================================================================

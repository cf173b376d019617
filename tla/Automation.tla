----------------------------- MODULE Automation -----------------------------
(***************************************************************************)
(* Automation runs (src/proof_cli/automation.py, kept by governance.py): a   *)
(* run is a value, its planned actions executed in order under a policy that *)
(* may deny one, simulate it or ask for a review. Each command reads the     *)
(* newest record of the run, computes the next value and appends it, with no *)
(* lock over the three.                                                      *)
(***************************************************************************)
EXTENDS Naturals, Sequences

CONSTANTS
    Processes,      \* commands run at once
    Policies,       \* the policy profiles a run may be planned with
    MaxActions,     \* a profile's max_actions_per_run
    MaxRecords      \* bound: records of the run

Modes    == {"supervised", "approval_required", "dry_run"}
Types    == {"inspect_state", "execute_task"}
Risks    == {"low", "high"}
Kinds    == [type : Types, risk : Risks, reversible : BOOLEAN]
Finished == {"completed", "rejected", "rolled_back"}

VARIABLES
    records,    \* the run's governance records, oldest first
    proc        \* [Processes -> the run each has read, or <<>>]

vars == <<records, proc>>

Newest == records[Len(records)]

(* AutomationPolicyProfile.decide                                           *)
Denied(profile, a) ==
    \/ a.type \in profile.forbidden
    \/ profile.allowed # {} /\ a.type \notin profile.allowed
Reviewed(profile, mode, a) ==
    \/ profile.reversibleOnly /\ ~ a.reversible
    \/ mode = "approval_required"
    \/ a.type \in profile.reviewed
    \/ a.risk = "high"
Decision(profile, mode, a) ==
    IF a.type \in profile.forbidden THEN "deny"
    ELSE IF mode = "dry_run" THEN "simulate"
    ELSE IF Denied(profile, a) THEN "deny"
    ELSE IF Reviewed(profile, mode, a) THEN "requires_review"
    ELSE "allow"

(* build_automation_run: the plan, refused past the profile's maximum.      *)
Planned(k) == [kind |-> k, status |-> "planned", approved |-> FALSE]
Runs ==
    [profile : Policies, mode : Modes, status : {"planned"}, next : {0}, done : {<<>>},
     plan : UNION {[1 .. n -> {Planned(k) : k \in Kinds}] : n \in 1 .. MaxActions}]

Init ==
    /\ \E r \in Runs : records = <<r>>
    /\ proc = [p \in Processes |-> <<>>]

-----------------------------------------------------------------------------
(* execute, one planned action at a time                                    *)

(* What is decided of action i of run r: a review that was made lets it     *)
(* through, and one the mode asks for overrides even a denial.              *)
Decided(r, i) ==
    LET asked == IF r.mode = "approval_required" THEN "requires_review"
                 ELSE Decision(r.profile, r.mode, r.plan[i].kind)
    IN IF r.plan[i].approved /\ asked = "requires_review" THEN "allow" ELSE asked

Marked(r, i, status) == [r EXCEPT !.plan[i].status = status]

(* _record_executed_action                                                  *)
RanAgain(r, i) == [r EXCEPT !.done = Append(@, i), !.next = i - 1]
Ran(r, i) == [r EXCEPT !.done = Append(@, i), !.next = i]

ApprovedToo(r, i) == [r EXCEPT !.plan[i].approved = TRUE]

(* The run after action i, approvals being the reviews given with the call. *)
RunsUnreviewed(r, i, approvals) == TRUE
MayRun(r, i, approvals) == Decided(r, i) = "allow" \/ i \in approvals

Step(r, i, approvals) ==
    CASE Decided(r, i) = "deny" -> [Marked(r, i, "rejected") EXCEPT !.status = "rejected"]
      [] Decided(r, i) = "simulate" -> Ran(Marked(r, i, "simulated"), i)
      [] Decided(r, i) \in {"allow", "requires_review"} ->
           IF MayRun(r, i, approvals)
           THEN Ran(Marked(IF Decided(r, i) = "allow" THEN r ELSE ApprovedToo(r, i), i, "completed"), i)
           ELSE [Marked(r, i, "awaiting_approval") EXCEPT !.status = "waiting_for_review", !.next = i - 1]

Stopped(r) == r.status \in {"rejected", "waiting_for_review"}

(* AutomationRun.interrupt: where the run goes on from, whatever its status. *)
Interrupted(r, at) == [r EXCEPT !.status = "interrupted", !.next = at]

(* The whole call: from the next action until one stops it, or limit of     *)
(* them were processed, or all were. A run that waited or was interrupted   *)
(* goes on with the status it had.                                          *)
Going(r) == [r EXCEPT !.status = "running"]

Execute(r, approvals, limit) ==
    LET from == r.next
        after[k \in 0 .. Len(r.plan) - from] ==
            IF k = 0 THEN Going(r)
            ELSE IF Stopped(after[k - 1]) THEN after[k - 1]
            ELSE Step(after[k - 1], from + k, approvals)
        left == Len(r.plan) - from
        n == IF limit < left THEN limit ELSE left
    IN IF r.status \in Finished THEN r
       ELSE IF Stopped(after[n]) THEN after[n]
       ELSE IF n < left THEN Interrupted(after[n], from + n)
       ELSE [after[n] EXCEPT !.status = "completed", !.next = Len(r.plan)]

-----------------------------------------------------------------------------
(* The commands                                                             *)

Reads(p) ==
    /\ proc[p] = <<>>
    /\ proc' = [proc EXCEPT ![p] = <<Newest>>]
    /\ UNCHANGED records

Records(p, r) ==
    /\ proc[p] # <<>> /\ Len(records) < MaxRecords
    /\ records' = Append(records, r)
    /\ proc' = [proc EXCEPT ![p] = <<>>]

(* cmd_proof_automate_run                                                   *)
Automates(p) ==
    \E approvals \in SUBSET (1 .. MaxActions), limit \in 0 .. MaxActions :
        proc[p] # <<>> /\ Records(p, Execute(proc[p][1], approvals, limit))

(* cmd_proof_automate_review: an approval counts when the run goes on, ...  *)
Approves(p) ==
    \E i \in 1 .. MaxActions :
        /\ proc[p] # <<>> /\ i \in DOMAIN proc[p][1].plan
        /\ Records(p, ApprovedToo(proc[p][1], i))

(* ... and a rejection ends it.                                             *)
Rejects(p) ==
    \E i \in 1 .. MaxActions :
        /\ proc[p] # <<>> /\ i \in DOMAIN proc[p][1].plan
        /\ Records(p, [Marked(proc[p][1], i, "rejected") EXCEPT !.status = "rejected"])

Next == \E p \in Processes : Reads(p) \/ Automates(p) \/ Approves(p) \/ Rejects(p)

Spec == Init /\ [][Next]_vars

-----------------------------------------------------------------------------
(* However a run was interrupted, kept waiting and resumed, and whichever   *)
(* commands raced, its actions were executed in the order planned and none  *)
(* twice, and a run that reads completed executed every one.                *)
OnceInOrder ==
    LET r == Newest IN
    /\ r.done = [i \in 1 .. Len(r.done) |-> i]
    /\ r.next >= Len(r.done)
    /\ r.status = "completed" => Len(r.done) = Len(r.plan)

(* An action the policy wants reviewed, by its kind, its risk or the mode,  *)
(* is completed only with an approval of that action.                       *)
CompletedWasReviewed ==
    \A i \in DOMAIN Newest.plan :
        /\ Newest.plan[i].status = "completed"
        /\ Reviewed(Newest.profile, Newest.mode, Newest.plan[i].kind)
        => Newest.plan[i].approved
=============================================================================

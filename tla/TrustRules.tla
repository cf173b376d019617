----------------------------- MODULE TrustRules -------------------------------
(***************************************************************************)
(* Trust rules (trust_rules.py, proof_map.py 3540-3721): the researcher     *)
(* declares, in a file of decisions that only grows, which citations may be  *)
(* relied on without a review of their own.  Whether a citation meets a rule *)
(* is worked out from the file each time it is asked, and the first time it  *)
(* does is noted as an event, after the decision that made it so.            *)
(***************************************************************************)
EXTENDS Naturals, FiniteSets, Sequences, SequencesExt

CONSTANTS
  Processes,
  Citations,    \* the imported results a project may have
  ByAgents,     \* those an agent creates
  Sources, SourceOf,   \* the reference each cites; all at one version of it
  Names,        \* rule names
  Conditions,   \* the sets of conditions a rule may be given
  Later,        \* the names a line this version cannot read may declare
  MaxLines      \* a bound on the file

\* The closed vocabulary: source_already_reviewed, and what the bibliography says: source_type_in,
\* identifier_has_doi and identifier_has_arxiv are one kind here.
Kinds == {"reviewed", "bibliography"}

\* ByAgents are citations, and a rule has at least one condition.

VARIABLES
  file,       \* trust-rules.jsonl: its lines, oldest first
  present,    \* the citations created so far
  explicit,   \* citation -> the researcher's own decision on it
  meets,      \* source -> the conditions its bibliography meets
  noted,      \* the events: pairs of a citation and a rule
  proc,       \* process -> what it has still to note
  excused     \* an edit of a bibliography, or a death, may have left a match unnoted

vars == <<file, present, explicit, meets, noted, proc, excused>>

Idle == [stage |-> "idle", scope |-> {}, found |-> {}]
-----------------------------------------------------------------------------
(* The rules in force: the file, folded.                                   *)

None == [conditions |-> {}, retired |-> TRUE]
NoRules == [name \in {} |-> None]

\* A line of a later vocabulary, or one edited by hand, is passed over.
Readable(line) == line.conditions \subseteq Kinds

Folded(rules, line) ==
  LET name == line.name
      standing == name \in DOMAIN rules /\ ~rules[name].retired
  IN  IF ~Readable(line) THEN rules
      ELSE IF line.decision = "declare" /\ name \notin DOMAIN rules
      THEN [m \in DOMAIN rules \cup {name} |->
              IF m = name THEN [conditions |-> line.conditions, retired |-> FALSE] ELSE rules[m]]
      ELSE IF line.decision = "amend" /\ standing THEN [rules EXCEPT ![name].conditions = line.conditions]
      ELSE IF line.decision = "retire" /\ standing THEN [rules EXCEPT ![name].retired = TRUE]
      ELSE rules

Rules == FoldLeft(Folded, NoRules, file)

InForce(rules) == {name \in DOMAIN rules : ~rules[name].retired}
-----------------------------------------------------------------------------
(* The matcher.                                                            *)

Siblings(n) == {m \in present \ {n} : SourceOf[m] = SourceOf[n]}

\* A citation found no longer callable poisons its source, and a review vouches
\* for another citation, never for its own.
Holds(kind, n) ==
  IF kind = "reviewed"
  THEN /\ \A m \in Siblings(n) : explicit[m] # "no-longer-callable"
       /\ \E m \in Siblings(n) : explicit[m] = "reviewed"
  ELSE kind \in meets[SourceOf[n]]

MeetsOf(n, rules) ==
  IF explicit[n] = "no-longer-callable" THEN {}
  ELSE {name \in InForce(rules) : \A kind \in rules[name].conditions : Holds(kind, n)}

\* A rule vouches for the source, not for an agent's statement of it.
RulesOf(n, rules) == IF n \in ByAgents THEN {} ELSE MeetsOf(n, rules)

StateUnder(n, rules) ==
  IF explicit[n] \in {"no-longer-callable", "reviewed"} THEN explicit[n]
  ELSE IF RulesOf(n, rules) # {} THEN "trusted-by-rule" ELSE explicit[n]

\* From the rules before to the rules after a change, with nothing else changed.
Untrusted(rules, after) ==
  {n \in present : StateUnder(n, rules) = "trusted-by-rule" /\ RulesOf(n, after) = {}}
Trusted(rules, after) ==
  {n \in present : StateUnder(n, rules) = "unreviewed" /\ RulesOf(n, after) # {}}

ImpactAlone(name, changed) ==
  LET rules == Rules
      after == [rules EXCEPT ![name] = changed]
  IN  [losing |-> {n \in present : name \in RulesOf(n, rules) \ RulesOf(n, after)},
       gaining |-> Trusted(rules, after)]

\* What the page shows before a rule is amended (or, changed = None, retired).
Impact(name, changed) ==
  LET rules == Rules
      after == [rules EXCEPT ![name] = changed]
  IN  [losing |-> Untrusted(rules, after), gaining |-> Trusted(rules, after)]
-----------------------------------------------------------------------------
(* Decisions, and what each notes once it has landed.                      *)

ToNote(p, scope) ==
  /\ proc[p] = Idle
  /\ proc' = [proc EXCEPT ![p] = [stage |-> "decided", scope |-> scope, found |-> {}]]

Recorded(line) ==
  /\ Len(file) < MaxLines
  /\ file' = Append(file, line)
  /\ UNCHANGED <<present, explicit, meets, noted, excused>>

\* The checks, the line and the rules they read are under one write lock.
Declare(p, name, conditions) ==
  /\ ToNote(p, Citations)
  /\ Recorded([name |-> name, decision |-> "declare", conditions |-> conditions])
  /\ name \notin DOMAIN Rules

Amend(p, name, conditions) ==
  /\ ToNote(p, Citations)
  /\ Recorded([name |-> name, decision |-> "amend", conditions |-> conditions])
  /\ name \in InForce(Rules)

Retire(p, name) ==
  /\ ToNote(p, Citations)
  /\ Recorded([name |-> name, decision |-> "retire", conditions |-> {}])
  /\ name \in InForce(Rules)

OfItself(n) == {n}
OfAll(n) == Citations

\* decide_reference_review: other citations of the source may now meet a rule.
Review(p, n, decision) ==
  /\ n \in present /\ explicit[n] # "no-longer-callable"
  /\ explicit' = [explicit EXCEPT ![n] = decision]
  /\ ToNote(p, OfAll(n))
  /\ UNCHANGED <<file, present, meets, noted, excused>>

Create(p, n) ==
  /\ n \notin present
  /\ present' = present \cup {n}
  /\ ToNote(p, {n})
  /\ UNCHANGED <<file, explicit, meets, noted, excused>>

\* edit_reference corrects the bibliography and notes nothing.
EditReference(s, kinds) ==
  /\ meets[s] # kinds
  /\ meets' = [meets EXCEPT ![s] = kinds]
  /\ excused' = TRUE
  /\ UNCHANGED <<file, present, explicit, noted, proc>>

\* note_trust_rule_matches reads what is met and not noted, then appends one
\* event each; nothing holds a lock from one to the other.
FindMatches(p) ==
  /\ proc[p].stage = "decided"
  /\ proc' = [proc EXCEPT ![p].stage = "noting",
        ![p].found = LET rules == Rules IN
                     {<<n, name>> \in (present \cap proc[p].scope) \X Names :
                        name \in RulesOf(n, rules)} \ noted]
  /\ UNCHANGED <<file, present, explicit, meets, noted, excused>>

AppendEvents(p) ==
  /\ proc[p].stage = "noting"
  /\ noted' = noted \cup proc[p].found
  /\ proc' = [proc EXCEPT ![p] = Idle]
  /\ UNCHANGED <<file, present, explicit, meets, excused>>

Die(p) ==
  /\ proc[p] # Idle
  /\ proc' = [proc EXCEPT ![p] = Idle]
  /\ excused' = TRUE
  /\ UNCHANGED <<file, present, explicit, meets, noted>>

\* An older line whose conditions this version cannot read may be there.
Init ==
  /\ file \in {<<>>} \cup {<<[name |-> name, decision |-> "declare", conditions |-> {"later"}]>> : name \in Later}
  /\ present = {} /\ explicit = [n \in Citations |-> "unreviewed"]
  /\ meets \in [Sources -> SUBSET {"bibliography"}]
  /\ noted = {} /\ proc = [p \in Processes |-> Idle] /\ excused = FALSE

Next ==
  \/ \E p \in Processes :
       \/ \E name \in Names : \E conditions \in Conditions :
            Declare(p, name, conditions) \/ Amend(p, name, conditions)
       \/ \E name \in Names : Retire(p, name)
       \/ \E n \in Citations : Create(p, n) \/ \E d \in {"reviewed", "no-longer-callable"} : Review(p, n, d)
       \/ FindMatches(p)
       \/ AppendEvents(p)
       \/ Die(p)
  \/ \E s \in Sources : \E kinds \in SUBSET {"bibliography"} : EditReference(s, kinds)

Spec == Init /\ [][Next]_vars
-----------------------------------------------------------------------------
(* Properties.                                                             *)

StateAt(n) == StateUnder(n, Rules)

\* The citations a step made stop, and start, being trusted.
Changed ==
  LET before == [n \in present |-> StateAt(n)]
      after == [n \in present |-> StateAt(n)']
  IN  [losing |-> {n \in present : before[n] = "trusted-by-rule" /\ after[n] # "trusted-by-rule"},
       gaining |-> {n \in present : before[n] # "trusted-by-rule" /\ after[n] = "trusted-by-rule"}]

\* A decision on a rule does what the page said it would: exactly the citations
\* it listed stop, or start, being trusted, whatever other rules, reviews and
\* poisoned sources there are (trust_rule_impact).
ImpactAsTold ==
  file' # file =>
    LET line == Last(file')
    IN  /\ line.decision = "retire" => Changed = Impact(line.name, None)
        /\ line.decision = "amend" =>
             Changed = Impact(line.name, [conditions |-> line.conditions, retired |-> FALSE])
ImpactTold == [][ImpactAsTold]_vars

\* "The first time a node meets a rule is noted" (ADR-0014): one that is not
\* noted yet is about to be, as long as no bibliography was edited and no
\* process died before it noted.
MatchesNoted ==
  ~excused =>
    LET rules == Rules IN
    \A n \in present : \A name \in RulesOf(n, rules) :
      \/ <<n, name>> \in noted
      \/ \E p \in Processes :
           \/ proc[p].stage = "decided" /\ n \in proc[p].scope
           \/ <<n, name>> \in proc[p].found
=============================================================================

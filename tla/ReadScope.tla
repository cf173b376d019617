------------------------------ MODULE ReadScope ------------------------------
(***************************************************************************)
(* How the conclusions of NodeStates are worked out (node_states.py,       *)
(* storage.read_scope): inside one read scope every conclusion is worked   *)
(* out once, in one table that all readers of the scope share.  A walk     *)
(* over the dependencies fills it; deciding a statement Challenge walks    *)
(* its counterexample in turn, and where such a walk comes back to a       *)
(* Challenge being decided, that Challenge reads undecided there.          *)
(***************************************************************************)
EXTENDS NodeStates, SequencesExt

CONSTANTS
  Order,    \* the nodes in the order the map lists them
  Edges,    \* a bound: the dependencies this instance may have
  Against   \* a bound: the counterexamples, each with the node it may be linked against

VARIABLE read     \* the table of the open read scope: node -> conclusion

Fresh == <<>>

RECURSIVE Read(_, _, _)

\* own_states: the Challenges on n that are decided, and the table once they
\* have been asked about, each one's counterexample read on the way.
OwnStates(n, deciding, table) ==
  LET ask(i, found) ==
        IF i \in deciding \/ ~MayDecide(i) THEN found
        ELSE LET after == Read(challenges[i].counterexample, deciding \cup {i}, found.table)
             IN  [table |-> after,
                  decided |-> found.decided \cup
                    (IF after[challenges[i].counterexample] \in Holding THEN {i} ELSE {})]
  IN  FoldSet(ask, [table |-> table, decided |-> {}], AgainstStatement(n))

EnteredOnce(n, table, value) ==
  [m \in DOMAIN table \cup {n} |-> IF m = n /\ n \notin DOMAIN table THEN value ELSE table[m]]

\* A node read again further up its own walk is read anew (no Challenge cut).
Entered(n, table, value) ==
  [m \in DOMAIN table \cup {n} |-> IF m = n THEN value ELSE table[m]]

\* node_states: the table once n is in it, what it rests on read first.
Read(n, deciding, table) ==
  IF n \in DOMAIN table THEN table
  ELSE LET below == FoldSet(LAMBDA d, t : Read(d, deciding, t), table, deps[n])
           own == OwnStates(n, deciding, below)
       IN  Entered(n, own.table,
                   Concluded(Seal(n), StatementLayer(n, own.decided), ProofLayer(n, own.decided),
                             {own.table[d] : d \in deps[n]}))

AskStates(n) ==
  /\ read' = Read(n, {}, read)
  /\ UNCHANGED vars

\* _stopped reads the own states of every node, in the order of the map.
AskStopped ==
  /\ read' = FoldLeft(LAMBDA table, n : OwnStates(n, {}, table).table, read, Order)
  /\ UNCHANGED vars

WithinBounds ==
  /\ \A n \in Nodes : \A d \in deps'[n] : <<n, d>> \in Edges
  /\ \A i \in Ids : challenges'[i].status # "unraised" =>
        <<challenges'[i].counterexample, challenges'[i].target>> \in Against

WriteKeepingTable == Next /\ WithinBounds /\ UNCHANGED read

\* Any write in the scope drops the table.
Write == Next /\ WithinBounds /\ read' = Fresh

CloseScope ==
  /\ read # Fresh
  /\ read' = Fresh
  /\ UNCHANGED vars

ScopeInit == Init /\ read = Fresh
ScopeNext == (\E n \in Nodes : AskStates(n)) \/ AskStopped \/ Write \/ CloseScope
ScopeSpec == ScopeInit /\ [][ScopeNext]_<<vars, read>>
-----------------------------------------------------------------------------
(* Properties.                                                             *)

\* In a fresh scope the walk finds the conclusion of every node it passes, one
\* that a counterexample's walk passed while its Challenge was being decided
\* included, and ends whatever the counterexamples contradict.
FreshReadingRight ==
  [][\A n \in Nodes : read = Fresh /\ read' # Fresh /\ AskStates(n) =>
       n \in DOMAIN read' /\ \A m \in DOMAIN read' : read'[m] = Conclusion(m)]_<<vars, read>>

\* No reading of a scope, in whichever order its readers asked, is higher than
\* the node's conclusion: what is in doubt or false is never read as holding.
NeverOverstated ==
  \A n \in DOMAIN read : read[n] \in Holding => read[n] = Conclusion(n)

\* "Every reader that needs to know ... reads it here, so two readings of one
\* node's conclusion cannot disagree" (node_states).
OneReading == \A n \in DOMAIN read : read[n] = Conclusion(n)
=============================================================================

--------------------------------- MODULE Fog ----------------------------------
(***************************************************************************)
(* The proof fog (fog.py): a flat list of difficulties beside the map. An     *)
(* item is open, dropped with a reason, or crystallized: stated as a Claim,    *)
(* by a Split of a parent or on its own, in one transaction that changes the    *)
(* item first and makes the node after it. Every check is made again under      *)
(* the write lock, as what the caller saw of the item may be old by then.         *)
(***************************************************************************)
EXTENDS Naturals, FiniteSets, Sequences

CONSTANTS
  Processes,
  Parents,    \* nodes there from the start, which an item may be near
  NewNodes,   \* ids a new node may be given
  MaxItems,   \* a bound on the fog
  MaxRuns     \* a bound on the Experiments of an item

Nobody == "nobody"
NoNode == "no node"

VARIABLES
  fog,      \* the items' rows, by number
  rows,     \* the nodes' rows
  from,     \* node -> the items whose crystallizing made it
  settled,  \* parents Accepted or Rejected, which take no new children
  proc,     \* process -> the crystallizing it is about
  lock

vars == <<fog, rows, from, settled, proc, lock>>

\* The transaction's own view: what it has changed, committed or undone as one.
Idle == [step |-> "idle", item |-> 0, node |-> NoNode, parent |-> NoNode, fog |-> <<>>, rows |-> {}]

Open(item) == item.status = "open"

\* A write that is one transaction, nobody else holding the lock.
Alone == lock = Nobody

Changed(k, item) ==
  /\ fog' = [fog EXCEPT ![k] = item]
  /\ UNCHANGED <<rows, from, settled, proc, lock>>

\* What an item is put down as, and what each Experiment on it appends to.
Inserted(near) == [status |-> "open", node |-> NoNode, near |-> near, runs |-> 0]
WithExperiment(item) == [item EXCEPT !.runs = @ + 1]

\* The number is one more than the highest there is, read on the lock; the near
\* nodes were found to exist before it, and nodes are never removed.
Add(near) ==
  /\ Alone /\ Len(fog) < MaxItems
  /\ fog' = Append(fog, Inserted(near))
  /\ UNCHANGED <<rows, from, settled, proc, lock>>

Edit(k, near) ==
  /\ Alone /\ Open(fog[k])
  /\ Changed(k, [fog[k] EXCEPT !.near = near])

Drop(k) ==
  /\ Alone /\ Open(fog[k])
  /\ Changed(k, [fog[k] EXCEPT !.status = "dropped"])

\* An open item is left as it is; a crystallized one never reopens.
Reopen(k) ==
  /\ Alone /\ fog[k].status = "dropped"
  /\ Changed(k, [fog[k] EXCEPT !.status = "open"])

\* It changes the item's status not at all.
RecordExperiment(k) ==
  /\ Alone /\ Open(fog[k]) /\ fog[k].runs < MaxRuns
  /\ Changed(k, WithExperiment(fog[k]))
-----------------------------------------------------------------------------
(* Crystallizing.                                                          *)

\* The parent given, or none asked for, or else the item's one near node;
\* several, with neither said, are refused.
Resolved(item, given) ==
  IF given # "unsaid" THEN given
  ELSE IF item.near = {} THEN NoNode ELSE CHOOSE n \in item.near : TRUE

Ambiguous(item, given) == given = "unsaid" /\ Cardinality(item.near) > 1

NeverRefused(item) == TRUE
StillOpen(item) == Open(item)

\* The item first: if the node cannot be made, all of it rolls back.
Begin(p, k, node, given) ==
  /\ Alone /\ proc[p] = Idle
  /\ StillOpen(fog[k]) /\ ~Ambiguous(fog[k], given)
  /\ lock' = p
  /\ proc' = [proc EXCEPT ![p] =
       [step |-> "making", item |-> k, node |-> node, parent |-> Resolved(fog[k], given), rows |-> rows,
        fog |-> [fog EXCEPT ![k] = [@ EXCEPT !.status = "crystallized", !.node = node]]]]
  /\ UNCHANGED <<fog, rows, from, settled>>

\* create_node, or a single-child Split of the parent.
MakesNode(p) ==
  /\ proc[p].step = "making"
  /\ proc[p].node \notin rows /\ proc[p].parent \notin settled
  /\ proc' = [proc EXCEPT ![p].step = "made", ![p].rows = @ \cup {proc[p].node}]
  /\ UNCHANGED <<fog, rows, from, settled, lock>>

Commit(p) ==
  /\ proc[p].step = "made"
  /\ fog' = proc[p].fog /\ rows' = proc[p].rows
  /\ from' = [from EXCEPT ![proc[p].node] = @ \cup {proc[p].item}]
  /\ proc' = [proc EXCEPT ![p] = Idle] /\ lock' = Nobody
  /\ UNCHANGED settled

\* A refusal, a file that cannot be written, a commit that fails, or a death:
\* the rows are as they were.
RollBack(p) ==
  /\ proc[p] # Idle
  /\ proc' = [proc EXCEPT ![p] = Idle] /\ lock' = Nobody
  /\ UNCHANGED <<fog, rows, from, settled>>

\* What others do to the map meanwhile.
CreateNode(node) ==
  /\ Alone /\ node \notin rows
  /\ rows' = rows \cup {node}
  /\ UNCHANGED <<fog, from, settled, proc, lock>>

Settle(n) ==
  /\ Alone /\ n \notin settled
  /\ settled' = settled \cup {n}
  /\ UNCHANGED <<fog, rows, from, proc, lock>>

Init ==
  /\ fog = <<>> /\ rows = Parents /\ from = [n \in NewNodes |-> {}] /\ settled = {}
  /\ proc = [p \in Processes |-> Idle] /\ lock = Nobody

Next ==
  \/ \E near \in SUBSET Parents : Add(near) \/ \E k \in DOMAIN fog : Edit(k, near)
  \/ \E k \in DOMAIN fog : Drop(k) \/ Reopen(k) \/ RecordExperiment(k)
  \/ \E p \in Processes :
       \/ \E k \in DOMAIN fog : \E node \in NewNodes : \E given \in Parents \cup {NoNode, "unsaid"} :
            Begin(p, k, node, given)
       \/ MakesNode(p)
       \/ Commit(p)
       \/ RollBack(p)
  \/ \E node \in NewNodes : CreateNode(node)
  \/ \E n \in Parents : Settle(n)

Spec == Init /\ [][Next]_vars
-----------------------------------------------------------------------------
(* Properties.                                                             *)

\* The item a node came out of, as its page looks it up.
CrystallizedFrom(n) == {k \in DOMAIN fog : fog[k].node = n}

\* "Two crystallizes of one item can't both pass" (crystallize_fog), nor one of
\* two items make one node: a node and the item it came out of name each other,
\* no other item names it, and an item that is not crystallized names none.
CrystallizedOnce ==
  /\ \A n \in NewNodes : from[n] = CrystallizedFrom(n) /\ \A j, k \in from[n] : j = k
  /\ \A k \in DOMAIN fog : fog[k].status = "crystallized" <=> fog[k].node \in rows
=============================================================================

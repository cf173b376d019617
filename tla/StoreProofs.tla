------------------------------ MODULE StoreProofs ------------------------------
(***************************************************************************)
(* What MCStore's runs check of its parts, proved for every number of         *)
(* processes, nodes, keys and attempts.  Each part has an inductive invariant  *)
(* of its own, and a lemma for its first state and one for its steps:          *)
(*   CloudInv   the fog: whoever is crystallizing holds the lock, so its       *)
(*              transaction stands on the items and nodes there are;           *)
(*   HomeInv    the list: what was read under the lock is what is there;       *)
(*   BundleInv  the bundle: what is read of each section is within what the    *)
(*              source had, unless somebody wrote it meanwhile;                *)
(*   DoubtsInv  the Challenges, whose endings are read from lines that stay;   *)
(*   TurnInv    the turn's record: who writes an end holds the lock, and       *)
(*              found none recorded;                                           *)
(*   FilesInv   the files: what the lock's holder has made is what its undoing *)
(*              takes back, and every number is given to one attempt;          *)
(*   BlocksInv  the blocks: each block's callbacks, run from the newest, leave *)
(*              the files as they were where the block began;                  *)
(*   MemoryInv  the memory: who is about to save it holds the lock and loaded  *)
(*              what is there, and what it adds comes after, each once.        *)
(* At the end they are put together.                                           *)
(***************************************************************************)
EXTENDS MCStore, TLAPS, SequenceTheorems, FiniteSetTheorems

-----------------------------------------------------------------------------
(* The fog: an item crystallizes once.                                     *)

Items == [status : {"open", "dropped", "crystallized"}, node : NewNodes \cup {Cloud!NoNode},
          near : SUBSET Parents, runs : Nat]

Crystallizers ==
    [step : {"idle", "making", "made"}, item : Nat, node : NewNodes \cup {Cloud!NoNode},
     parent : Parents \cup {Cloud!NoNode}, fog : Seq(Items), rows : SUBSET (Parents \cup NewNodes)]

(* The fog F as the transaction of item k has it.                          *)
Taken(F, k, node) == [F EXCEPT ![k] = [@ EXCEPT !.status = "crystallized", !.node = node]]

(* A transaction T that stands on the fog and the nodes there are.          *)
Crystallizing(T) ==
    /\ T.item \in DOMAIN fog /\ fog[T.item].status = "open" /\ T.node \in NewNodes
    /\ T.fog = Taken(fog, T.item, T.node)
    /\ \/ T.step = "making" /\ T.rows = nodeRows
       \/ T.step = "made" /\ T.node \notin nodeRows /\ T.rows = nodeRows \cup {T.node}

(* Whoever is crystallizing holds the lock, so what it read is what is there. *)
CrystallizerHolds ==
    /\ crystallizer \in [Processes -> Crystallizers]
    /\ \A p \in Processes : crystallizer[p] = Cloud!Idle \/ (fogLock = p /\ Crystallizing(crystallizer[p]))

(* What links the items, the nodes and what made them.                      *)
FogTyped ==
    /\ fog \in Seq(Items)
    /\ nodeRows \subseteq Parents \cup NewNodes
    /\ from = [n \in NewNodes |-> {k \in DOMAIN fog : fog[k].node = n}]

ItemsNameTheirs ==
    /\ \A k \in DOMAIN fog : IF fog[k].status = "crystallized" THEN fog[k].node \in nodeRows
                             ELSE fog[k].node = Cloud!NoNode
    /\ \A j, k \in DOMAIN fog : fog[j].node = fog[k].node /\ fog[j].node # Cloud!NoNode => j = k

CloudInv == CrystallizerHolds /\ FogTyped /\ ItemsNameTheirs

LEMMA AloneMeansIdle ==
    ASSUME CrystallizerHolds, Cloud!Alone
    PROVE  \A p \in Processes : crystallizer[p] = Cloud!Idle
BY StoreAssumption DEF CrystallizerHolds, Cloud!Alone, Cloud!Nobody

LEMMA CloudInit == Cloud!Init => CloudInv
<1> SUFFICES ASSUME Cloud!Init PROVE CloudInv
    OBVIOUS
<1> USE DEF Cloud!Init
<1>1. CrystallizerHolds
    <2>1. Cloud!Idle \in Crystallizers
        BY DEF Cloud!Idle, Crystallizers
    <2> QED
        BY <2>1 DEF CrystallizerHolds
<1>2. fog = <<>> /\ DOMAIN fog = {}
    OBVIOUS
<1>3. FogTyped
    BY <1>2 DEF FogTyped
<1>4. ItemsNameTheirs
    BY <1>2 DEF ItemsNameTheirs
<1> QED
    BY <1>1, <1>3, <1>4 DEF CloudInv

(* An item changed in place, by a write of one transaction: its node is as it  *)
(* was, and neither way does it become crystallized.                          *)
LEMMA ItemChanged ==
    ASSUME CloudInv, Cloud!Alone, NEW k \in DOMAIN fog, NEW item \in Items,
           item.node = fog[k].node, item.status # "crystallized", fog[k].status # "crystallized",
           Cloud!Changed(k, item)
    PROVE  CloudInv'
<1> USE DEF Cloud!Changed
<1>1. /\ DOMAIN fog' = DOMAIN fog
      /\ fog' \in Seq(Items)
      /\ \A j \in DOMAIN fog : fog'[j] = IF j = k THEN item ELSE fog[j]
    BY ExceptSeq DEF CloudInv, FogTyped
<1>2. \A j \in DOMAIN fog : fog'[j].node = fog[j].node
    BY <1>1
<1>3. CrystallizerHolds'
    BY AloneMeansIdle DEF CloudInv, CrystallizerHolds
<1>4. FogTyped'
    BY <1>1, <1>2 DEF CloudInv, FogTyped
<1>5. ItemsNameTheirs'
    BY <1>1, <1>2 DEF CloudInv, ItemsNameTheirs
<1> QED
    BY <1>3, <1>4, <1>5 DEF CloudInv

LEMMA TakenTyped ==
    ASSUME fog \in Seq(Items), NEW k \in DOMAIN fog, NEW node \in NewNodes
    PROVE  Taken(fog, k, node) \in Seq(Items)
<1> DEFINE item == [fog[k] EXCEPT !.status = "crystallized", !.node = node]
<1>1. item \in Items
    <2>1. fog[k] \in Items
        BY ElementOfSeq
    <2> QED
        BY <2>1 DEF Items
<1> HIDE DEF item
<1>2. [fog EXCEPT ![k] = item] \in Seq(Items)
    BY <1>1, ExceptSeq
<1> QED
    BY <1>2 DEF Taken, item

LEMMA CloudStep == CloudInv /\ [Cloud!Next]_(Cloud!vars) => CloudInv'
<1> SUFFICES ASSUME CloudInv, [Cloud!Next]_(Cloud!vars) PROVE CloudInv'
    OBVIOUS
<1>t. \A k \in DOMAIN fog : fog[k] \in Items
    BY ElementOfSeq DEF CloudInv, FogTyped
<1>1. ASSUME NEW near \in SUBSET Parents, Cloud!Add(near) PROVE CloudInv'
    <2> DEFINE item == Cloud!Inserted(near)
    <2>1. item \in Items /\ item.status = "open" /\ item.node = Cloud!NoNode
        BY DEF Items, Cloud!Inserted
    <2>2. /\ fog' \in Seq(Items)
          /\ Len(fog') = Len(fog) + 1
          /\ \A j \in 1 .. Len(fog) : fog'[j] = fog[j]
          /\ fog'[Len(fog) + 1] = item
        BY <1>1, <2>1, AppendProperties DEF Cloud!Add, CloudInv, FogTyped
    <2>3. fog \in Seq(Items) /\ Len(fog) \in Nat /\ DOMAIN fog = 1 .. Len(fog) /\ DOMAIN fog' = 1 .. Len(fog')
        BY <2>2 DEF CloudInv, FogTyped
    <2> HIDE DEF item
    <2>4. /\ DOMAIN fog' = DOMAIN fog \cup {Len(fog) + 1}
          /\ Len(fog) + 1 \notin DOMAIN fog
        BY <2>2, <2>3
    <2>5. CrystallizerHolds'
        BY <1>1, AloneMeansIdle DEF Cloud!Add, CloudInv, CrystallizerHolds
    <2>6. \A n \in NewNodes : {k \in DOMAIN fog' : fog'[k].node = n} = {k \in DOMAIN fog : fog[k].node = n}
        <3>1. item.node \notin NewNodes
            BY <2>1, StoreAssumption DEF Cloud!NoNode
        <3> QED
            BY <2>2, <2>3, <2>4, <3>1
    <2>7. FogTyped'
        BY <1>1, <2>2, <2>6 DEF Cloud!Add, CloudInv, FogTyped
    <2>8. ItemsNameTheirs'
        BY <1>1, <2>1, <2>2, <2>3, <2>4 DEF Cloud!Add, CloudInv, ItemsNameTheirs
    <2> QED
        BY <2>5, <2>7, <2>8 DEF CloudInv
<1>2. ASSUME NEW k \in DOMAIN fog, NEW near \in SUBSET Parents, Cloud!Edit(k, near) PROVE CloudInv'
    <2>1. [fog[k] EXCEPT !.near = near] \in Items
        BY <1>t DEF Items
    <2> QED
        BY <1>2, <1>t, <2>1, ItemChanged DEF Cloud!Edit, Cloud!Open, Items
<1>3. ASSUME NEW k \in DOMAIN fog, Cloud!Drop(k) PROVE CloudInv'
    <2>1. [fog[k] EXCEPT !.status = "dropped"] \in Items
        BY <1>t DEF Items
    <2> QED
        BY <1>3, <1>t, <2>1, ItemChanged DEF Cloud!Drop, Cloud!Open, Items
<1>4. ASSUME NEW k \in DOMAIN fog, Cloud!Reopen(k) PROVE CloudInv'
    <2>1. [fog[k] EXCEPT !.status = "open"] \in Items
        BY <1>t DEF Items
    <2> QED
        BY <1>4, <1>t, <2>1, ItemChanged DEF Cloud!Reopen, Items
<1>5. ASSUME NEW k \in DOMAIN fog, Cloud!RecordExperiment(k) PROVE CloudInv'
    <2>1. Cloud!WithExperiment(fog[k]) \in Items
        BY <1>t DEF Items, Cloud!WithExperiment
    <2> QED
        BY <1>5, <1>t, <2>1, ItemChanged DEF Cloud!RecordExperiment, Cloud!WithExperiment, Cloud!Open, Items
<1>6. ASSUME NEW p \in Processes, NEW k \in DOMAIN fog, NEW node \in NewNodes,
             NEW given \in Parents \cup {Cloud!NoNode, "unsaid"}, Cloud!Begin(p, k, node, given)
      PROVE  CloudInv'
    <2> PICK T : T = [step |-> "making", item |-> k, node |-> node, parent |-> Cloud!Resolved(fog[k], given),
                       rows |-> nodeRows, fog |-> Taken(fog, k, node)]
        OBVIOUS
    <2>1. /\ fogLock' = p /\ crystallizer' = [crystallizer EXCEPT ![p] = T]
          /\ UNCHANGED <<fog, nodeRows, from>> /\ fog[k].status = "open"
        BY <1>6 DEF Cloud!Begin, Taken, Cloud!StillOpen, Cloud!Open
    <2>2. \A q \in Processes : crystallizer[q] = Cloud!Idle
        BY <1>6, AloneMeansIdle DEF Cloud!Begin, CloudInv
    <2>3. T.parent \in Parents \cup {Cloud!NoNode}
        <3>1. fog[k].near \in SUBSET Parents
            BY <1>t DEF Items
        <3> QED
            BY <3>1 DEF Cloud!Resolved
    <2>4. T \in Crystallizers
        <3>1. Taken(fog, k, node) \in Seq(Items)
            BY TakenTyped DEF CloudInv, FogTyped
        <3>2. k \in Nat /\ nodeRows \in SUBSET (Parents \cup NewNodes)
            BY DEF CloudInv, FogTyped
        <3> QED
            BY <2>3, <3>1, <3>2 DEF Crystallizers
    <2>5. Crystallizing(T)
        BY <2>1 DEF Crystallizing
    <2>6. Crystallizing(T)'
        BY <2>1, <2>5 DEF Crystallizing
    <2>7. /\ crystallizer' \in [Processes -> Crystallizers]
          /\ crystallizer'[p] = T /\ \A q \in Processes \ {p} : crystallizer'[q] = Cloud!Idle
        BY <2>1, <2>2, <2>4 DEF CloudInv, CrystallizerHolds
    <2>8. CrystallizerHolds'
        BY <2>1, <2>6, <2>7 DEF CrystallizerHolds, Cloud!Idle
    <2> QED
        BY <2>1, <2>8 DEF CloudInv, FogTyped, ItemsNameTheirs
<1>7. ASSUME NEW p \in Processes, Cloud!MakesNode(p) PROVE CloudInv'
    <2> DEFINE T == crystallizer[p]
    <2>1. T.step = "making" /\ Crystallizing(T) /\ fogLock = p /\ T \in Crystallizers
        BY <1>7 DEF Cloud!MakesNode, CloudInv, CrystallizerHolds, Cloud!Idle
    <2>2. UNCHANGED <<fog, nodeRows, from, fogLock>> /\ T.node \notin nodeRows
        BY <1>7 DEF Cloud!MakesNode
    <2>3. /\ crystallizer'[p] = [T EXCEPT !.step = "made", !.rows = @ \cup {T.node}]
          /\ \A q \in Processes \ {p} : crystallizer'[q] = crystallizer[q]
          /\ DOMAIN crystallizer' = Processes
          /\ crystallizer' = [q \in Processes |-> crystallizer'[q]]
        BY <1>7 DEF Cloud!MakesNode, CloudInv, CrystallizerHolds, Crystallizers
    <2>a. T.node \in NewNodes /\ T.rows \cup {T.node} \in SUBSET (Parents \cup NewNodes)
        BY <2>1 DEF Crystallizers, Crystallizing
    <2>4. /\ crystallizer'[p] \in Crystallizers
          /\ crystallizer'[p].step = "made" /\ crystallizer'[p].rows = T.rows \cup {T.node}
          /\ crystallizer'[p].item = T.item /\ crystallizer'[p].node = T.node /\ crystallizer'[p].fog = T.fog
        BY <2>1, <2>3, <2>a DEF Crystallizers
    <2>5. Crystallizing(crystallizer[p])'
        BY <2>1, <2>2, <2>4 DEF Crystallizing
    <2>6. crystallizer' \in [Processes -> Crystallizers]
        BY <2>3, <2>4 DEF CloudInv, CrystallizerHolds
    <2>7. CrystallizerHolds'
        BY <2>1, <2>2, <2>3, <2>5, <2>6 DEF CloudInv, CrystallizerHolds, Cloud!Idle
    <2> QED
        BY <2>2, <2>7 DEF CloudInv, FogTyped, ItemsNameTheirs
<1>8. ASSUME NEW p \in Processes, Cloud!Commit(p) PROVE CloudInv'
    <2> DEFINE k == crystallizer[p].item
               node == crystallizer[p].node
               item == [fog[k] EXCEPT !.status = "crystallized", !.node = node]
    <2>1. crystallizer[p].step = "made" /\ Crystallizing(crystallizer[p]) /\ fogLock = p
        BY <1>8 DEF Cloud!Commit, CloudInv, CrystallizerHolds, Cloud!Idle
    <2>2. k \in DOMAIN fog /\ node \in NewNodes /\ fog[k].status = "open" /\ node \notin nodeRows
        BY <2>1 DEF Crystallizing
    <2>3. /\ fog' = [fog EXCEPT ![k] = item] /\ nodeRows' = nodeRows \cup {node}
          /\ from' = [from EXCEPT ![node] = @ \cup {k}]
          /\ crystallizer' = [crystallizer EXCEPT ![p] = Cloud!Idle]
        BY <1>8, <2>1 DEF Cloud!Commit, Crystallizing, Taken
    <2>4. item \in Items /\ item.status = "crystallized" /\ item.node = node
        <3>1. fog[k] \in Items
            BY <2>2 DEF CloudInv, FogTyped
        <3> QED
            BY <2>2, <3>1 DEF Items
    <2> HIDE DEF k, node, item
    <2>5. /\ DOMAIN fog' = DOMAIN fog /\ fog' \in Seq(Items)
          /\ \A j \in DOMAIN fog : fog'[j] = IF j = k THEN item ELSE fog[j]
        BY <2>2, <2>3, <2>4, ExceptSeq DEF CloudInv, FogTyped
    <2>6. \A j \in DOMAIN fog : fog[j].node # node /\ fog[k].node = Cloud!NoNode
        BY <2>2, StoreAssumption DEF CloudInv, ItemsNameTheirs, Cloud!NoNode
    <2>7. CrystallizerHolds'
        <3>1. \A q \in Processes \ {p} : crystallizer[q] = Cloud!Idle
            BY <2>1 DEF CloudInv, CrystallizerHolds
        <3>2. Cloud!Idle \in Crystallizers
            BY DEF Cloud!Idle, Crystallizers
        <3> QED
            BY <2>3, <3>1, <3>2 DEF CloudInv, CrystallizerHolds
    <2>8. FogTyped'
        <3>1. Cloud!NoNode \notin NewNodes
            BY StoreAssumption DEF Cloud!NoNode
        <3>2. \A n \in NewNodes \ {node} :
                  {j \in DOMAIN fog' : fog'[j].node = n} = {j \in DOMAIN fog : fog[j].node = n}
            BY <2>4, <2>5, <2>6, <3>1
        <3>3. {j \in DOMAIN fog' : fog'[j].node = node} = {k}
            BY <2>2, <2>4, <2>5, <2>6
        <3>4. {j \in DOMAIN fog : fog[j].node = node} = {}
            BY <2>6
        <3>5. \A n \in NewNodes : from'[n] = {j \in DOMAIN fog' : fog'[j].node = n}
            BY <2>2, <2>3, <3>2, <3>3, <3>4 DEF CloudInv, FogTyped
        <3>6. from' = [n \in NewNodes |-> from'[n]]
            BY <2>3 DEF CloudInv, FogTyped
        <3> QED
            BY <2>2, <2>3, <2>5, <3>5, <3>6 DEF CloudInv, FogTyped
    <2>9. ItemsNameTheirs'
        BY <2>2, <2>3, <2>4, <2>5, <2>6 DEF CloudInv, ItemsNameTheirs
    <2> QED
        BY <2>7, <2>8, <2>9 DEF CloudInv
<1>9. ASSUME NEW p \in Processes, Cloud!RollBack(p) PROVE CloudInv'
    <2>1. /\ fogLock = p /\ crystallizer' = [crystallizer EXCEPT ![p] = Cloud!Idle]
          /\ UNCHANGED <<fog, nodeRows, from>>
        BY <1>9 DEF Cloud!RollBack, CloudInv, CrystallizerHolds
    <2>2. Cloud!Idle \in Crystallizers
        BY DEF Cloud!Idle, Crystallizers
    <2>3. CrystallizerHolds'
        BY <2>1, <2>2 DEF CloudInv, CrystallizerHolds
    <2> QED
        BY <2>1, <2>3 DEF CloudInv, FogTyped, ItemsNameTheirs
<1>10. ASSUME NEW node \in NewNodes, Cloud!CreateNode(node) PROVE CloudInv'
    <2>1. CrystallizerHolds'
        BY <1>10, AloneMeansIdle DEF Cloud!CreateNode, CloudInv, CrystallizerHolds
    <2>2. FogTyped'
        BY <1>10 DEF Cloud!CreateNode, CloudInv, FogTyped
    <2>3. ItemsNameTheirs'
        BY <1>10 DEF Cloud!CreateNode, CloudInv, ItemsNameTheirs
    <2> QED
        BY <2>1, <2>2, <2>3 DEF CloudInv
<1>11. ASSUME NEW n \in Parents, Cloud!Settle(n) PROVE CloudInv'
    BY <1>11, AloneMeansIdle DEF Cloud!Settle, CloudInv, CrystallizerHolds, FogTyped, ItemsNameTheirs
<1>12. CASE UNCHANGED Cloud!vars
    <2>1. UNCHANGED <<fog, nodeRows, from, crystallizer, fogLock>>
        BY <1>12 DEF Cloud!vars
    <2>2. CrystallizerHolds'
        BY <2>1 DEF CloudInv, CrystallizerHolds, Crystallizing, Cloud!Idle
    <2> QED
        BY <2>1, <2>2 DEF CloudInv, FogTyped, ItemsNameTheirs
<1> QED
    BY <1>1, <1>2, <1>3, <1>4, <1>5, <1>6, <1>7, <1>8, <1>9, <1>10, <1>11, <1>12 DEF Cloud!Next

LEMMA CloudHolds == CloudInv => Cloud!CrystallizedOnce
<1> SUFFICES ASSUME CloudInv PROVE Cloud!CrystallizedOnce
    OBVIOUS
<1>1. ASSUME NEW n \in NewNodes PROVE from[n] = Cloud!CrystallizedFrom(n) /\ \A j, k \in from[n] : j = k
    <2>1. from[n] = Cloud!CrystallizedFrom(n) /\ from[n] = {k \in DOMAIN fog : fog[k].node = n}
        BY DEF CloudInv, FogTyped, Cloud!CrystallizedFrom
    <2>2. n # Cloud!NoNode
        BY StoreAssumption DEF Cloud!NoNode
    <2> QED
        BY <2>1, <2>2 DEF CloudInv, ItemsNameTheirs
<1>2. Cloud!NoNode \notin nodeRows
    BY StoreAssumption DEF CloudInv, FogTyped, Cloud!NoNode
<1>3. \A k \in DOMAIN fog : fog[k].status = "crystallized" <=> fog[k].node \in nodeRows
    BY <1>2 DEF CloudInv, ItemsNameTheirs
<1> QED
    BY <1>1, <1>3 DEF Cloud!CrystallizedOnce

-----------------------------------------------------------------------------
(* The Home page's list.                                                   *)

(* Whoever changes the list holds its lock from before it reads to the     *)
(* replace, so what it read is what is there.                              *)
HomeInv ==
    /\ DOMAIN opener = Processes
    /\ \A p \in Processes :
          /\ DOMAIN opener[p] = {"step", "change", "project", "read"}
          /\ opener[p].step \in {"locked", "read"} => listLock = p
          /\ opener[p].step = "read" => opener[p].read = list
    /\ Home!NoChangeLost

LEMMA HomeInit == Home!Init => HomeInv
BY DEF Home!Init, HomeInv, Home!Idle, Home!NoChangeLost

(* A change ended: whoever held the lock gives it up.                       *)
LEMMA HomeEnds ==
    ASSUME HomeInv, NEW p \in Processes, Home!Ends(p), opener[p].step \in {"locked", "read"},
           list' = asked'
    PROVE  HomeInv'
<1>1. /\ listLock = p /\ opener' = [opener EXCEPT ![p] = Home!Idle]
      BY DEF Home!Ends, HomeInv
<1>2. opener'[p] = Home!Idle /\ \A q \in Processes \ {p} : opener'[q] = opener[q] /\ DOMAIN opener' = Processes
    BY <1>1 DEF HomeInv
<1>3. DOMAIN Home!Idle = {"step", "change", "project", "read"} /\ Home!Idle.step = "idle"
    BY DEF Home!Idle
<1>4. \A q \in Processes \ {p} : opener[q].step \notin {"locked", "read"}
    BY <1>1 DEF HomeInv
<1> QED
    BY <1>1, <1>2, <1>3, <1>4 DEF HomeInv, Home!NoChangeLost

LEMMA HomeStep == HomeInv /\ [Home!Next]_(Home!vars) => HomeInv'
<1> SUFFICES ASSUME HomeInv, [Home!Next]_(Home!vars) PROVE HomeInv'
    OBVIOUS
<1>1. ASSUME NEW p \in Processes, NEW change \in {"register", "open", "forget"}, NEW project \in Projects,
             Home!Ask(p, change, project)
      PROVE  HomeInv'
    <2> PICK r : r = [Home!Idle EXCEPT !.step = "waiting", !.change = change, !.project = project]
        OBVIOUS
    <2>1. r.step = "waiting" /\ DOMAIN r = {"step", "change", "project", "read"}
        BY DEF Home!Idle
    <2>2. opener' = [opener EXCEPT ![p] = r] /\ UNCHANGED <<list, asked, listLock>>
        BY <1>1 DEF Home!Ask
    <2> QED
        BY <2>1, <2>2 DEF HomeInv, Home!NoChangeLost
<1>2. ASSUME NEW p \in Processes, Home!Lock(p) PROVE HomeInv'
    <2> PICK r : r = [opener[p] EXCEPT !.step = "locked"]
        OBVIOUS
    <2>1. r.step = "locked" /\ DOMAIN r = {"step", "change", "project", "read"}
        BY DEF HomeInv
    <2>2. /\ opener' = [opener EXCEPT ![p] = r] /\ UNCHANGED <<list, asked>>
          /\ listLock = Home!Nobody /\ listLock' = p
        BY <1>2 DEF Home!Lock, Home!LockFree, HomeInv
    <2>3. \A q \in Processes : opener[q].step \notin {"locked", "read"}
        BY <2>2, StoreAssumption DEF HomeInv, Home!Nobody
    <2> QED
        BY <2>1, <2>2, <2>3 DEF HomeInv, Home!NoChangeLost
<1>3. ASSUME NEW p \in Processes, Home!Reads(p) PROVE HomeInv'
    <2> PICK r : r = [opener[p] EXCEPT !.step = "read", !.read = list]
        OBVIOUS
    <2>1. r.step = "read" /\ r.read = list /\ DOMAIN r = {"step", "change", "project", "read"}
        BY DEF HomeInv
    <2>2. opener'[p] = r /\ \A q \in Processes \ {p} : opener'[q] = opener[q] /\ DOMAIN opener' = Processes
        BY <1>3 DEF Home!Reads, HomeInv
    <2>3. UNCHANGED <<list, asked, listLock>> /\ listLock = p
        BY <1>3 DEF Home!Reads, HomeInv
    <2> QED
        BY <1>3, <2>1, <2>2, <2>3 DEF Home!Reads, HomeInv, Home!NoChangeLost
<1>4. ASSUME NEW p \in Processes, Home!Replaces(p) PROVE HomeInv'
    <2>1. opener[p].step = "read" /\ opener[p].read = asked
        BY <1>4 DEF Home!Replaces, HomeInv, Home!NoChangeLost
    <2>2. list' = asked'
        BY <1>4, <2>1 DEF Home!Replaces
    <2> QED
        BY <1>4, <2>1, <2>2, HomeEnds DEF Home!Replaces
<1>5. ASSUME NEW p \in Processes, Home!Fails(p) PROVE HomeInv'
    <2>1. list' = asked'
        BY <1>5 DEF Home!Fails, HomeInv, Home!NoChangeLost
    <2> QED
        BY <1>5, <2>1, HomeEnds DEF Home!Fails
<1>6. CASE UNCHANGED Home!vars
    BY <1>6 DEF Home!vars, HomeInv, Home!NoChangeLost
<1> QED
    BY <1>1, <1>2, <1>3, <1>4, <1>5, <1>6 DEF Home!Next

-----------------------------------------------------------------------------
(* A bundle taken to another project.                                      *)

Fields == {"nodes", "deps", "claims", "proofs", "old", "pins", "challenges", "files", "marked", "decisions"}

(* A project that stands by itself.                                        *)
Within(P) == \A e \in P.deps \cup P.pins : e[1] \in P.nodes /\ e[2] \in P.nodes
Stands(P) == DOMAIN P = Fields /\ Within(P) /\ P.proofs \subseteq P.files

(* What the export has read so far, of a source nobody wrote meanwhile.     *)
ReadSoFar ==
    /\ read >= 1 => bundle.nodes = source.nodes /\ bundle.deps = source.deps
    /\ read >= 3 => bundle.proofs = source.proofs
    /\ read >= 4 => bundle.pins = source.pins
    /\ read >= 6 => bundle.files = source.files \cap source.nodes

(* The bundle the plan passed, whatever was made at the target since.       *)
PassedThePlan ==
    /\ \A e \in bundle.deps \cup bundle.pins : e[1] \in bundle.nodes => e[2] \in bundle.nodes \cup target.nodes
    /\ bundle.proofs \cap bundle.nodes \subseteq bundle.files

BundleInv ==
    /\ Stands(source) /\ source.proofs \subseteq source.nodes
    /\ Stands(target) /\ target.decisions = {}
    /\ DOMAIN bundle = Fields /\ read \in 0 .. 7 /\ torn \in BOOLEAN
    /\ plan # "none" => read = 7
    /\ ~ torn /\ plan = "none" /\ read \in 1 .. 6 => ReadSoFar
    /\ ~ torn /\ plan = "none" /\ read = 7 => Within(bundle) /\ bundle.proofs \subseteq bundle.files
    /\ plan = "checked" => PassedThePlan

LEMMA SevenSections == Len(Bundle!Sections) = 7
BY DEF Bundle!Sections

LEMMA EmptyStands == Stands(Bundle!Empty) /\ DOMAIN Bundle!Empty = Fields /\ Bundle!Empty.proofs = {}
                     /\ Bundle!Empty.decisions = {}
BY DEF Stands, Within, Fields, Bundle!Empty

LEMMA BundleInit == Bundle!Init => BundleInv
<1> SUFFICES ASSUME Bundle!Init PROVE BundleInv
    OBVIOUS
<1>1. Stands(source) /\ source.proofs \subseteq source.nodes
    <2>1. CASE source = Bundle!Empty
        BY <2>1, EmptyStands
    <2>2. CASE \E n \in Exported : source = [Bundle!Empty EXCEPT !.nodes = {n}, !.proofs = {n}, !.files = {n}, !.old = {n}]
        BY <2>2 DEF Stands, Within, Fields, Bundle!Empty
    <2> QED
        BY <2>1, <2>2 DEF Bundle!Init
<1> QED
    <2>1. target = Bundle!Empty /\ bundle = Bundle!Empty /\ read = 0 /\ plan = "none"
        BY DEF Bundle!Init
    <2>2. torn \in BOOLEAN
        BY DEF Bundle!Init
    <2>3. Stands(target) /\ target.decisions = {} /\ DOMAIN bundle = Fields
        BY <2>1, EmptyStands
    <2> QED
        BY <1>1, <2>1, <2>2, <2>3 DEF BundleInv

(* What a write at a project is.                                           *)
LEMMA WriteCases ==
    ASSUME NEW P, NEW Q \in Bundle!Writes(P)
    PROVE  \/ \E n \in Exported \ P.nodes, ds \in SUBSET P.nodes : Q = Bundle!Created(P, n, ds)
           \/ \E e \in P.nodes \X P.nodes : Q = Bundle!Depending(P, e[1], e[2])
           \/ \E n \in P.nodes : Q = Bundle!Claimed(P, n)
           \/ \E n \in P.nodes : Q = Bundle!Reviewed(P, n)
           \/ \E e \in P.nodes \X P.nodes : Q = Bundle!Challenging(P, e[1], e[2])
           \/ \E n \in P.proofs : Q = Bundle!Accepting(P, n)
<1> DEFINE Creations == {Bundle!Created(P, n, ds) : n \in Exported \ P.nodes, ds \in SUBSET P.nodes}
           Dependings == {Bundle!Depending(P, e[1], e[2]) :
                            e \in {x \in P.nodes \X P.nodes : x[1] # x[2] /\ <<x[2], x[1]>> \notin P.deps}}
           Claims == {Bundle!Claimed(P, n) : n \in P.nodes}
           Reviews == {Bundle!Reviewed(P, n) : n \in P.nodes \ P.proofs}
           Doubtings == {Bundle!Challenging(P, e[1], e[2]) : e \in {x \in P.nodes \X P.nodes : x[1] # x[2]}}
           Acceptings == {Bundle!Accepting(P, n) : n \in P.proofs}
<1>1. Bundle!Writes(P) = Creations \cup Dependings \cup Claims \cup Reviews \cup Doubtings \cup Acceptings
    BY DEF Bundle!Writes
<1> HIDE DEF Creations, Dependings, Claims, Reviews, Doubtings, Acceptings
<1>2. Q \in Creations => \E n \in Exported \ P.nodes, ds \in SUBSET P.nodes : Q = Bundle!Created(P, n, ds)
    BY DEF Creations
<1>3. Q \in Dependings => \E e \in P.nodes \X P.nodes : Q = Bundle!Depending(P, e[1], e[2])
    BY DEF Dependings
<1>4. Q \in Claims => \E n \in P.nodes : Q = Bundle!Claimed(P, n)
    BY DEF Claims
<1>5. Q \in Reviews => \E n \in P.nodes : Q = Bundle!Reviewed(P, n)
    BY DEF Reviews
<1>6. Q \in Doubtings => \E e \in P.nodes \X P.nodes : Q = Bundle!Challenging(P, e[1], e[2])
    BY DEF Doubtings
<1>7. Q \in Acceptings => \E n \in P.proofs : Q = Bundle!Accepting(P, n)
    BY DEF Acceptings
<1> QED
    BY <1>1, <1>2, <1>3, <1>4, <1>5, <1>6, <1>7

(* Every write at a project leaves it standing.                             *)
LEMMA WritesStand ==
    ASSUME NEW P, Stands(P), P.proofs \subseteq P.nodes, NEW Q \in Bundle!Writes(P)
    PROVE  Stands(Q) /\ Q.proofs \subseteq Q.nodes
<1> USE DEF Stands, Within, Fields
<1>1. ASSUME NEW n \in Exported \ P.nodes, NEW ds \in SUBSET P.nodes, Q = Bundle!Created(P, n, ds)
      PROVE  Stands(Q) /\ Q.proofs \subseteq Q.nodes
    BY <1>1 DEF Bundle!Created
<1>2. ASSUME NEW e \in P.nodes \X P.nodes, Q = Bundle!Depending(P, e[1], e[2])
      PROVE  Stands(Q) /\ Q.proofs \subseteq Q.nodes
    BY <1>2 DEF Bundle!Depending
<1>3. ASSUME NEW n \in P.nodes, Q = Bundle!Claimed(P, n)
      PROVE  Stands(Q) /\ Q.proofs \subseteq Q.nodes
    BY <1>3 DEF Bundle!Claimed
<1>4. ASSUME NEW n \in P.nodes, Q = Bundle!Reviewed(P, n)
      PROVE  Stands(Q) /\ Q.proofs \subseteq Q.nodes
    BY <1>4 DEF Bundle!Reviewed, Bundle!DepsOf
<1>5. ASSUME NEW e \in P.nodes \X P.nodes, Q = Bundle!Challenging(P, e[1], e[2])
      PROVE  Stands(Q) /\ Q.proofs \subseteq Q.nodes
    BY <1>5 DEF Bundle!Challenging
<1>6. ASSUME NEW n \in P.proofs, Q = Bundle!Accepting(P, n)
      PROVE  Stands(Q) /\ Q.proofs \subseteq Q.nodes
    BY <1>6 DEF Bundle!Accepting
<1> HIDE DEF Stands, Within, Fields
<1> QED
    BY <1>1, <1>2, <1>3, <1>4, <1>5, <1>6, WriteCases

LEMMA BundleStep == BundleInv /\ [Bundle!Next]_(Bundle!vars) => BundleInv'
<1> SUFFICES ASSUME BundleInv, [Bundle!Next]_(Bundle!vars) PROVE BundleInv'
    OBVIOUS
<1>1. CASE Bundle!WriteSource
    <2>1. Stands(source') /\ source'.proofs \subseteq source'.nodes
        BY <1>1, WritesStand DEF Bundle!WriteSource, BundleInv
    <2>2. torn' \/ (~ torn /\ read \notin 1 .. 6)
        <3>1. torn' = (torn \/ (read > 0 /\ read < 7)) /\ read \in 0 .. 7 /\ torn \in BOOLEAN
            BY <1>1, SevenSections DEF Bundle!WriteSource, BundleInv
        <3>2. torn' \in BOOLEAN
            BY <3>1
        <3>3. torn' <=> torn \/ (read > 0 /\ read < 7)
            BY <3>1, Zenon
        <3> QED
            BY <3>1, <3>2, <3>3
    <2>3. UNCHANGED <<target, bundle, read, plan>> /\ (torn => torn') /\ torn' \in BOOLEAN
        BY <1>1 DEF Bundle!WriteSource, BundleInv
    <2> QED
        BY <2>1, <2>2, <2>3 DEF BundleInv, PassedThePlan, Within
<1>2. CASE Bundle!WriteTarget
    <2>1. Stands(target') /\ target'.decisions = {} /\ target.nodes \subseteq target'.nodes
        <3>1. ASSUME NEW n \in Exported, target' = Bundle!Created(target, n, {})
              PROVE  Stands(target') /\ target'.decisions = {} /\ target.nodes \subseteq target'.nodes
            BY <3>1 DEF BundleInv, Stands, Within, Fields, Bundle!Created
        <3>2. ASSUME NEW n \in Exported, target' = Bundle!Claimed(target, n)
              PROVE  Stands(target') /\ target'.decisions = {} /\ target.nodes \subseteq target'.nodes
            BY <3>2 DEF BundleInv, Stands, Within, Fields, Bundle!Claimed
        <3>3. ASSUME NEW n \in target.nodes, target' = Bundle!Claimed(target, n)
              PROVE  Stands(target') /\ target'.decisions = {} /\ target.nodes \subseteq target'.nodes
            BY <3>3 DEF BundleInv, Stands, Within, Fields, Bundle!Claimed
        <3> QED
            BY <1>2, <3>1, <3>3 DEF Bundle!WriteTarget
    <2>2. UNCHANGED <<source, bundle, read, torn, plan>>
        BY <1>2 DEF Bundle!WriteTarget
    <2>3. plan = "checked" => PassedThePlan'
        BY <2>1, <2>2 DEF BundleInv, PassedThePlan
    <2> QED
        BY <2>1, <2>2, <2>3 DEF BundleInv, ReadSoFar, Within
<1>3. CASE Bundle!Export
    <2>1. /\ read \in 0 .. 6 /\ read' = read + 1 /\ plan = "none"
          /\ bundle' = Bundle!Section(bundle, source, Bundle!Sections[read + 1])
          /\ UNCHANGED <<source, target, torn, plan>>
        BY <1>3, SevenSections DEF Bundle!Export, BundleInv
    <2>2. /\ DOMAIN bundle' = Fields
          /\ ~ torn => ReadSoFar'
        <3>1. DOMAIN bundle = Fields /\ (~ torn /\ read \in 1 .. 6 => ReadSoFar)
            BY <2>1 DEF BundleInv
        <3>2. CASE read = 0
            <4>1. bundle' = [bundle EXCEPT !.nodes = source.nodes, !.deps = source.deps]
                BY <2>1, <3>2 DEF Bundle!Section, Bundle!Sections
            <4>2. DOMAIN bundle' = Fields /\ bundle'.nodes = source.nodes /\ bundle'.deps = source.deps
                BY <3>1, <4>1 DEF Fields
            <4> QED
                BY <2>1, <3>2, <4>2 DEF ReadSoFar
        <3>3. CASE read = 5
            <4>1. bundle' = [bundle EXCEPT !.files = source.files \cap bundle.nodes,
                                           !.marked = source.old \cap source.files \cap bundle.nodes]
                BY <2>1, <3>3 DEF Bundle!Section, Bundle!Sections, Bundle!Carried
            <4>2. /\ DOMAIN bundle' = Fields /\ bundle'.files = source.files \cap bundle.nodes
                  /\ \A f \in Fields \ {"files", "marked"} : bundle'[f] = bundle[f]
                BY <3>1, <4>1 DEF Fields
            <4> QED
                BY <2>1, <3>1, <3>3, <4>2 DEF ReadSoFar, Fields
        <3> USE DEF ReadSoFar, Fields, Bundle!Section, Bundle!Sections
        <3>4. CASE read = 1
            BY <2>1, <3>1, <3>4
        <3>5. CASE read = 2
            BY <2>1, <3>1, <3>5
        <3>6. CASE read = 3
            BY <2>1, <3>1, <3>6
        <3>7. CASE read = 4
            BY <2>1, <3>1, <3>7
        <3>8. CASE read = 6
            BY <2>1, <3>1, <3>8
        <3> HIDE DEF ReadSoFar, Fields, Bundle!Section, Bundle!Sections
        <3> QED
            BY <2>1, <3>2, <3>3, <3>4, <3>5, <3>6, <3>7, <3>8
    <2>3. ~ torn /\ read' = 7 => Within(bundle') /\ bundle'.proofs \subseteq bundle'.files
        BY <2>1, <2>2 DEF ReadSoFar, BundleInv, Stands, Within
    <2> QED
        BY <2>1, <2>2, <2>3 DEF BundleInv
<1>4. CASE Bundle!PlanImport
    <2>1. /\ read = 7 /\ plan' \in {"checked", "refused"}
          /\ plan' = "checked" => ~ Bundle!Problem(bundle, target)
          /\ bundle' = [bundle EXCEPT !.nodes = bundle.nodes \ target.nodes]
          /\ UNCHANGED <<source, target, read, torn>>
        BY <1>4, SevenSections DEF Bundle!PlanImport, Bundle!NewOnly
    <2>2. /\ DOMAIN bundle' = Fields /\ bundle'.nodes = bundle.nodes \ target.nodes
          /\ bundle'.deps = bundle.deps /\ bundle'.pins = bundle.pins
          /\ bundle'.proofs = bundle.proofs /\ bundle'.files = bundle.files
        BY <2>1 DEF BundleInv, Fields
    <2>3. plan' = "checked" => PassedThePlan'
        BY <2>1, <2>2
        DEF PassedThePlan, Bundle!Problem, Bundle!MissingDependency, Bundle!MissingPin, Bundle!MissingSnapshot,
            Bundle!About, Bundle!NewOnly
    <2> QED
        BY <2>1, <2>2, <2>3 DEF BundleInv
<1>5. CASE Bundle!WriteImport
    <2>1. plan = "checked" /\ plan' \in {"written", "refused"} /\ UNCHANGED <<source, bundle, read, torn>>
        BY <1>5 DEF Bundle!WriteImport
    <2>2. Stands(target') /\ target'.decisions = {}
        <3>1. CASE target' = target
            BY <3>1 DEF BundleInv
        <3>2. CASE bundle.nodes \cap target.nodes = {} /\ target' = Bundle!Joined(bundle, target)
            <4>1. bundle.nodes = Bundle!NewOnly(bundle, target)
                BY <3>2 DEF Bundle!NewOnly
            <4>2. /\ DOMAIN target' = Fields /\ target'.decisions = target.decisions
                  /\ target'.nodes = target.nodes \cup bundle.nodes
                  /\ target'.deps = target.deps \cup Bundle!About(bundle.deps, bundle.nodes)
                  /\ target'.pins = target.pins \cup Bundle!About(bundle.pins, bundle.nodes)
                  /\ target'.proofs = target.proofs \cup (bundle.proofs \cap bundle.nodes)
                  /\ target'.files = target.files \cup (bundle.files \cap bundle.nodes)
                BY <3>2, <4>1 DEF Bundle!Joined, BundleInv, Stands, Fields
            <4> QED
                BY <2>1, <4>2 DEF BundleInv, Stands, Within, PassedThePlan, Bundle!About
        <3> QED
            BY <1>5, <3>1, <3>2 DEF Bundle!WriteImport
    <2> QED
        BY <2>1, <2>2 DEF BundleInv
<1>6. CASE UNCHANGED Bundle!vars
    BY <1>6 DEF Bundle!vars, BundleInv, ReadSoFar, Within, Stands, PassedThePlan
<1> QED
    BY <1>1, <1>2, <1>3, <1>4, <1>5, <1>6 DEF Bundle!Next

LEMMA BundleHolds == BundleInv => Bundle!ImportStands
<1> SUFFICES ASSUME BundleInv PROVE Bundle!ImportStands
    OBVIOUS
<1>1. read = 7 /\ plan = "none" /\ ~ torn => ~ Bundle!Problem(bundle, Bundle!Empty)
    <2>1. /\ DOMAIN Bundle!Empty = Fields /\ Bundle!Empty.nodes = {} /\ Bundle!Empty.files = {}
        BY DEF Bundle!Empty, Fields
    <2> QED
        BY <2>1
        DEF BundleInv, Within, Bundle!Problem, Bundle!MissingDependency, Bundle!MissingPin, Bundle!MissingSnapshot,
            Bundle!FileConflict, Bundle!About, Bundle!NewOnly
<1> QED
    BY <1>1, SevenSections DEF BundleInv, Stands, Within, Bundle!ImportStands

-----------------------------------------------------------------------------
(* How Challenges end.                                                     *)

(* Of the naturals, every set has its least, and so one that is bounded its *)
(* greatest: the newest line that names a Challenge is a line.               *)
LEMMA LeastNatural ==
    ASSUME NEW T \in SUBSET Nat, T # {}
    PROVE  \E x \in T : \A y \in T : x <= y
<1> DEFINE R == StrictSubsetOrdering(Nat)
           Initial == {1 .. x : x \in T}
<1>1. IsWellFoundedOn(R, FiniteSubsetsOf(Nat))
    BY FS_StrictSubsetOrderingWellFounded
<1>2. Initial \subseteq FiniteSubsetsOf(Nat) /\ Initial # {}
    <2>1. ASSUME NEW x \in T PROVE 1 .. x \in FiniteSubsetsOf(Nat)
        <3>1. IsFiniteSet(1 .. x) /\ 1 .. x \in SUBSET Nat
            BY FS_Interval
        <3> QED
            BY <3>1 DEF FiniteSubsetsOf
    <2> QED
        BY <2>1
<1>3. \A x, y \in T : y < x => <<1 .. y, 1 .. x>> \in R
    <2> SUFFICES ASSUME NEW x \in T, NEW y \in T, y < x PROVE <<1 .. y, 1 .. x>> \in R
        OBVIOUS
    <2>1. x \in 1 .. x /\ x \notin 1 .. y /\ 1 .. y \subseteq 1 .. x
        OBVIOUS
    <2> QED
        BY <2>1 DEF StrictSubsetOrdering
<1> HIDE DEF R
<1>4. PICK I \in Initial : \A J \in Initial : ~ (<<J, I>> \in R)
    <2> HIDE DEF Initial
    <2> QED
        BY <1>1, <1>2, WFMin
<1>5. PICK x \in T : I = 1 .. x
    OBVIOUS
<1>6. \A y \in T : ~ (y < x)
    BY <1>3, <1>4, <1>5
<1> QED
    BY <1>6

LEMMA GreatestNatural ==
    ASSUME NEW n \in Nat, NEW S \in SUBSET (0 .. n), S # {}
    PROVE  \E i \in S : \A j \in S : i >= j
<1> DEFINE T == {n - i : i \in S}
<1>1. T \in SUBSET Nat /\ T # {}
    <2>1. \A i \in S : n - i \in Nat
        OBVIOUS
    <2> QED
        BY <2>1
<1>2. PICK x \in T : \A y \in T : x <= y
    BY <1>1, LeastNatural
<1>3. PICK i \in S : x = n - i
    OBVIOUS
<1>4. \A j \in S : i >= j
    BY <1>2, <1>3
<1> QED
    BY <1>4

LEMMA NewestIsOne ==
    ASSUME NEW n \in Nat, NEW S \in SUBSET (1 .. n), S # {}
    PROVE  Doubts!Max(S) \in S
<1>1. S \in SUBSET (0 .. n)
    OBVIOUS
<1>2. \E i \in S : \A j \in S : i >= j
    BY <1>1, GreatestNatural
<1> QED
    BY <1>2 DEF Doubts!Max

Raisings ==
    [raised : BOOLEAN, kind : {"none", "proof", "statement"}, by : Doubts!Authors, at : Nat, withdrawn : BOOLEAN]
Lines == [kind : {"resolution", "reference", "acceptance"}, approved : BOOLEAN, names : SUBSET Ids, counts : BOOLEAN]

DoubtsInv ==
    /\ row \in [Ids -> Raisings] /\ fixes \subseteq Ids
    /\ lines \in Seq(Lines) /\ changes \in Nat /\ imported \in BOOLEAN

LEMMA DoubtsInit == Doubts!Init => DoubtsInv
<1> SUFFICES ASSUME Doubts!Init PROVE DoubtsInv
    OBVIOUS
<1>1. Doubts!Unraised \in Raisings
    BY DEF Doubts!Unraised, Raisings, Doubts!Authors
<1>2. [Doubts!Unraised EXCEPT !.raised = TRUE, !.kind = "none"] \in Raisings
    BY DEF Doubts!Unraised, Raisings, Doubts!Authors
<1> HIDE DEF Doubts!Unraised
<1> QED
    BY <1>1, <1>2 DEF Doubts!Init, DoubtsInv

Ended(c) == Doubts!Status(c) \notin {"unraised", "open"}

(* Nothing a Challenge's ending is read from is touched: its row, a fix, the *)
(* lines that name it and, of a gap in a proof, that the statement is no more *)
(* the one it is a gap in.                                                    *)
LEMMA EndingUntouched ==
    ASSUME DoubtsInv, NEW c \in Ids, Ended(c), row'[c] = row[c], c \in fixes' <=> c \in fixes,
           Doubts!Naming(c)' = Doubts!Naming(c), \A i \in Doubts!Naming(c) : lines'[i] = lines[i],
           Doubts!Superseded(c) => Doubts!Superseded(c)'
    PROVE  Doubts!Status(c)' = Doubts!Status(c)
<1>1. Doubts!Naming(c) # {} => Doubts!Max(Doubts!Naming(c)) \in Doubts!Naming(c)
    <2>1. Doubts!Naming(c) \in SUBSET (1 .. Len(lines)) /\ Len(lines) \in Nat
        BY DEF DoubtsInv, Doubts!Naming
    <2> QED
        BY <2>1, NewestIsOne
<1>2. Doubts!Naming(c) # {} =>
         Doubts!Outcome(lines[Doubts!Max(Doubts!Naming(c))])' = Doubts!Outcome(lines[Doubts!Max(Doubts!Naming(c))])
    BY <1>1
<1> QED
    BY <1>2 DEF Doubts!Status, Ended

(* A line appended that does not name a Challenge changes no line that does. *)
LEMMA LineNotNaming ==
    ASSUME DoubtsInv, NEW c \in Ids, NEW line \in Lines, c \notin line.names, lines' = Append(lines, line)
    PROVE  Doubts!Naming(c)' = Doubts!Naming(c) /\ \A i \in Doubts!Naming(c) : lines'[i] = lines[i]
<1>1. /\ lines \in Seq(Lines) /\ Len(lines) \in Nat /\ DOMAIN lines = 1 .. Len(lines)
      /\ lines' \in Seq(Lines) /\ Len(lines') = Len(lines) + 1 /\ DOMAIN lines' = 1 .. Len(lines')
      /\ \A i \in 1 .. Len(lines) : lines'[i] = lines[i]
      /\ lines'[Len(lines) + 1] = line
    BY AppendProperties DEF DoubtsInv
<1>2. DOMAIN lines' = DOMAIN lines \cup {Len(lines) + 1}
    BY <1>1
<1> QED
    BY <1>1, <1>2 DEF Doubts!Naming

(* What a step does to the records, and that what ended stands.             *)
EndingsKept ==
    \A c \in Ids : Ended(c) =>
        Doubts!Status(c)' = Doubts!Status(c) \/ (checkout' /\ Doubts!Status(c) \notin {"withdrawn", "fixed"})

LEMMA DoubtsStep == DoubtsInv /\ Doubts!Next => DoubtsInv' /\ EndingsKept
<1> SUFFICES ASSUME DoubtsInv, Doubts!Next PROVE DoubtsInv' /\ EndingsKept
    OBVIOUS
<1>r. ASSUME NEW c \in Ids, NEW r \in Raisings, row' = [row EXCEPT ![c] = r], ~ Ended(c),
             UNCHANGED <<fixes, lines, imported, changes>>
      PROVE  DoubtsInv' /\ EndingsKept
    <2>1. row' \in [Ids -> Raisings] /\ \A d \in Ids \ {c} : row'[d] = row[d]
        BY <1>r DEF DoubtsInv
    <2>2. ASSUME NEW d \in Ids, Ended(d) PROVE Doubts!Status(d)' = Doubts!Status(d)
        <3>1. row'[d] = row[d]
            BY <1>r, <2>1, <2>2
        <3>2. Doubts!Superseded(d) => Doubts!Superseded(d)'
            BY <1>r, <3>1 DEF Doubts!Superseded
        <3>3. Doubts!Naming(d)' = Doubts!Naming(d)
            BY <1>r DEF Doubts!Naming
        <3> QED
            BY <1>r, <2>2, <3>1, <3>2, <3>3, EndingUntouched
    <2> QED
        BY <1>r, <2>1, <2>2 DEF DoubtsInv, EndingsKept
<1>l. ASSUME NEW line \in Lines, \A c \in line.names : ~ Ended(c), lines' = Append(lines, line),
             UNCHANGED <<row, fixes, imported, changes>>
      PROVE  DoubtsInv' /\ EndingsKept
    <2>1. lines' \in Seq(Lines)
        BY <1>l, AppendProperties DEF DoubtsInv
    <2>2. ASSUME NEW d \in Ids, Ended(d) PROVE Doubts!Status(d)' = Doubts!Status(d)
        <3>1. Doubts!Superseded(d) => Doubts!Superseded(d)'
            BY <1>l DEF Doubts!Superseded
        <3>2. Doubts!Naming(d)' = Doubts!Naming(d) /\ \A i \in Doubts!Naming(d) : lines'[i] = lines[i]
            BY <1>l, <2>2, LineNotNaming
        <3> QED
            BY <1>l, <2>2, <3>1, <3>2, EndingUntouched
    <2> QED
        BY <1>l, <2>1, <2>2 DEF DoubtsInv, EndingsKept
<1>t. \A c \in Ids : row[c] \in Raisings
    BY DEF DoubtsInv
<1>1. ASSUME NEW c \in Ids, NEW by \in Doubts!Authors, NEW kind \in {"proof", "statement"}, Doubts!Raise(c, kind, by)
      PROVE  DoubtsInv' /\ EndingsKept
    <2>1. Doubts!Inserted(kind, by) \in Raisings
        BY DEF Doubts!Inserted, Doubts!Unraised, Raisings, DoubtsInv
    <2>2. ~ Ended(c)
        BY <1>1 DEF Doubts!Raise, Ended, Doubts!Status
    <2> QED
        BY <1>1, <2>1, <2>2, <1>r DEF Doubts!Raise
<1>2. ASSUME NEW c \in Ids, NEW by \in Doubts!Authors, Doubts!Withdraw(c, by)
      PROVE  DoubtsInv' /\ EndingsKept
    <2>1. Doubts!Withdrawn(row[c]) \in Raisings
        BY <1>t DEF Doubts!Withdrawn, Raisings
    <2>2. ~ Ended(c)
        BY <1>2 DEF Doubts!Withdraw, Doubts!MayWithdraw, Doubts!Open, Ended
    <2> QED
        BY <1>2, <2>1, <2>2, <1>r DEF Doubts!Withdraw
<1>3. ASSUME NEW c \in Ids, Doubts!Dismiss(c)
      PROVE  DoubtsInv' /\ EndingsKept
    <2> DEFINE line == Doubts!Line("resolution", FALSE, {c})
    <2>1. line \in Lines /\ line.names = {c}
        BY DEF Doubts!Line, Lines
    <2>2. ~ Ended(c)
        BY <1>3 DEF Doubts!Dismiss, Doubts!Open, Ended
    <2> QED
        BY <1>3, <2>1, <2>2, <1>l DEF Doubts!Dismiss
<1>4. ASSUME NEW c \in Ids, NEW kind \in {"proof", "statement"}, Doubts!Classify(c, kind)
      PROVE  DoubtsInv' /\ EndingsKept
    <2>1. [row[c] EXCEPT !.kind = kind] \in Raisings
        BY <1>t DEF Raisings
    <2>2. ~ Ended(c)
        BY <1>4 DEF Doubts!Classify, Doubts!Open, Ended
    <2> QED
        BY <1>4, <2>1, <2>2, <1>r DEF Doubts!Classify
<1>5. ASSUME NEW approved \in BOOLEAN, Doubts!Decide(approved)
      PROVE  DoubtsInv' /\ EndingsKept
    <2> DEFINE line == Doubts!Line(IF imported THEN "reference" ELSE "acceptance", approved, Doubts!OpenIds)
    <2>1. line \in Lines /\ line.names = Doubts!Open
        BY DEF Doubts!Line, Lines, Doubts!OpenIds, Doubts!Open
    <2>2. \A c \in Doubts!Open : ~ Ended(c)
        BY DEF Doubts!Open, Ended
    <2> QED
        BY <1>5, <2>1, <2>2, <1>l DEF Doubts!Decide
<1>6. CASE Doubts!PassingVerdict
    <2>1. UNCHANGED <<row, lines, imported, changes>>
        BY <1>6 DEF Doubts!PassingVerdict
    <2>2. PICK failing \in SUBSET Doubts!Open : fixes' = fixes \cup failing \cup {c \in Doubts!Open : row[c].kind = "proof"}
        BY <1>6 DEF Doubts!PassingVerdict
    <2>3. ASSUME NEW d \in Ids, Ended(d) PROVE Doubts!Status(d)' = Doubts!Status(d)
        <3>1. d \notin Doubts!Open
            BY <2>3 DEF Doubts!Open, Ended
        <3>2. d \in fixes' <=> d \in fixes
            BY <2>2, <3>1
        <3>3. Doubts!Superseded(d) => Doubts!Superseded(d)'
            BY <2>1 DEF Doubts!Superseded
        <3>4. Doubts!Naming(d)' = Doubts!Naming(d)
            BY <2>1 DEF Doubts!Naming
        <3> QED
            BY <2>1, <2>3, <3>2, <3>3, <3>4, EndingUntouched
    <2>4. fixes' \subseteq Ids
        BY <2>2 DEF DoubtsInv, Doubts!Open
    <2> QED
        BY <2>1, <2>3, <2>4 DEF DoubtsInv, EndingsKept
<1>7. CASE Doubts!Restate
    <2>1. UNCHANGED <<row, fixes, lines, imported>> /\ changes' = changes + 1
        BY <1>7 DEF Doubts!Restate
    <2>2. ASSUME NEW d \in Ids, Ended(d) PROVE Doubts!Status(d)' = Doubts!Status(d)
        <3>1. Doubts!Superseded(d) => Doubts!Superseded(d)'
            BY <2>1, <1>t DEF Doubts!Superseded, DoubtsInv, Raisings
        <3>2. Doubts!Naming(d)' = Doubts!Naming(d)
            BY <2>1 DEF Doubts!Naming
        <3> QED
            BY <2>1, <2>2, <3>1, <3>2, EndingUntouched
    <2> QED
        BY <2>1, <2>2 DEF DoubtsInv, EndingsKept
<1>8. CASE Doubts!Checkout
    <2>1. UNCHANGED <<row, fixes, imported, changes>> /\ checkout' = TRUE
        BY <1>8 DEF Doubts!Checkout
    <2>2. lines' \in Seq(Lines)
        <3>1. PICK i \in DOMAIN lines : lines' = [lines EXCEPT ![i] = [lines[i] EXCEPT !.counts = ~ lines[i].counts]]
            BY <1>8 DEF Doubts!Checkout
        <3>2. lines[i] \in Lines
            BY ElementOfSeq DEF DoubtsInv
        <3>3. [lines[i] EXCEPT !.counts = ~ lines[i].counts] \in Lines
            BY <3>2 DEF Lines
        <3> QED
            BY <3>1, <3>3, ExceptSeq DEF DoubtsInv
    <2>3. ASSUME NEW d \in Ids, Doubts!Status(d) \in {"withdrawn", "fixed"}
          PROVE  Doubts!Status(d)' = Doubts!Status(d)
        BY <2>1, <2>3 DEF Doubts!Status, Doubts!Outcome
    <2> QED
        BY <2>1, <2>2, <2>3 DEF DoubtsInv, EndingsKept
<1> QED
    BY <1>1, <1>2, <1>3, <1>4, <1>5, <1>6, <1>7, <1>8 DEF Doubts!Next

-----------------------------------------------------------------------------
(* A turn's record.                                                        *)

Recorders == [step : {"idle", "writing", "put"}, own : Nat, aside : Nat]

(* Whoever records an end holds the write lock, and found none recorded.    *)
TurnInv ==
    /\ recorder \in [Processes -> Recorders] /\ attempts \in Nat /\ ended \in Nat /\ transcript \in Nat
    /\ others = {}
    /\ ended # Turn!Nothing => transcript = ended
    /\ \A p \in Processes :
          \/ recorder[p] = Turn!Idle
          \/ /\ turnLock = p /\ recorder[p].step # "idle"
             /\ ended = Turn!Nothing /\ recorder[p].own # Turn!Nothing
             /\ recorder[p].step = "put" => transcript = recorder[p].own

TurnKept ==
    /\ others' = {}
    /\ ended' # Turn!Nothing => transcript' = ended'
    /\ \A p \in Processes :
          recorder[p].aside # Turn!Nothing /\ recorder'[p] = Turn!Idle /\ ended' = Turn!Nothing
          /\ transcript' # transcript => transcript' = recorder[p].aside

LEMMA TurnInit == Turn!Init => TurnInv
<1> SUFFICES ASSUME Turn!Init PROVE TurnInv
    OBVIOUS
<1>1. Turn!Idle \in Recorders
    BY DEF Turn!Idle, Recorders, Turn!Nothing
<1> HIDE DEF Turn!Idle
<1> QED
    BY <1>1 DEF Turn!Init, TurnInv, Turn!Nothing

LEMMA TurnStep == TurnInv /\ Turn!Next => TurnInv' /\ TurnKept
<1> SUFFICES ASSUME TurnInv, NEW p \in Processes,
                    \/ Turn!Start(p) \/ Turn!Begin(p) \/ Turn!MoveAside(p) \/ Turn!Put(p) \/ Turn!RollBack(p)
                    \/ Turn!Commit(p) \/ Turn!Die(p)
             PROVE  TurnInv' /\ TurnKept
    BY DEF Turn!Next
<1> USE DEF Turn!Nothing
<1>i. Turn!Idle \in Recorders /\ Turn!Idle.aside = 0 /\ Turn!Idle.step = "idle"
    BY DEF Turn!Idle, Recorders
<1>t. recorder \in [Processes -> Recorders] /\ recorder[p] \in Recorders
    BY DEF TurnInv
(* The one that moves is the lock's holder, and all others are idle.          *)
<1>h. ASSUME recorder[p].step # "idle"
      PROVE  /\ turnLock = p /\ ended = 0 /\ recorder[p].own \in Nat \ {0}
             /\ recorder[p].step = "put" => transcript = recorder[p].own
             /\ \A q \in Processes \ {p} : recorder[q] = Turn!Idle
    BY <1>h, <1>i, <1>t DEF TurnInv, Recorders
(* It keeps the lock, its record being r.                                     *)
<1>k. ASSUME NEW r \in Recorders, recorder[p].step # "idle", recorder' = [recorder EXCEPT ![p] = r],
             r.step # "idle", r.own = recorder[p].own, transcript' \in Nat,
             r.step = "put" => transcript' = r.own, UNCHANGED <<ended, others, turnLock, attempts>>
      PROVE  TurnInv' /\ TurnKept
    <2>1. recorder' \in [Processes -> Recorders] /\ recorder'[p] = r
          /\ \A q \in Processes \ {p} : recorder'[q] = Turn!Idle
        BY <1>h, <1>k, <1>t
    <2>2. TurnInv'
        BY <1>h, <1>k, <2>1 DEF TurnInv, Turn!Idle
    <2> QED
        BY <1>h, <1>i, <1>k, <2>1, <2>2 DEF TurnInv, TurnKept
(* It gives the lock up.                                                      *)
<1>g. ASSUME recorder[p].step # "idle", recorder' = [recorder EXCEPT ![p] = Turn!Idle], transcript' \in Nat,
             ended' \in Nat, ended' # 0 => transcript' = ended', UNCHANGED <<others, attempts>>,
             ended' = 0 /\ transcript' # transcript => transcript' = recorder[p].aside
      PROVE  TurnInv' /\ TurnKept
    <2>1. recorder' \in [Processes -> Recorders] /\ \A q \in Processes : recorder'[q] = Turn!Idle
        BY <1>g, <1>h, <1>i, <1>t
    <2>2. TurnInv'
        BY <1>g, <2>1 DEF TurnInv, Turn!Idle
    <2> QED
        BY <1>g, <1>h, <1>i, <2>2 DEF TurnInv, TurnKept
<1>1. CASE Turn!Start(p)
    BY <1>1, <1>i DEF Turn!Start, TurnInv, TurnKept, Turn!Idle
<1>2. CASE Turn!Begin(p)
    <2> PICK r : r = [Turn!Idle EXCEPT !.step = "writing", !.own = attempts + 1]
        OBVIOUS
    <2>1. r \in Recorders /\ r.step = "writing" /\ r.own # 0
        <3>1. attempts + 1 \in Nat /\ attempts + 1 # 0
            BY DEF TurnInv
        <3> QED
            BY <3>1 DEF Turn!Idle, Recorders
    <2>2. /\ turnLock = "nobody" /\ turnLock' = p /\ attempts' = attempts + 1 /\ ended = 0
          /\ recorder' = [recorder EXCEPT ![p] = r] /\ UNCHANGED <<ended, others, transcript>>
        BY <1>2 DEF Turn!Begin, Turn!EndedAlready, Turn!Nobody
    <2>3. \A q \in Processes : recorder[q] = Turn!Idle
        BY <2>2, StoreAssumption DEF TurnInv
    <2>4. recorder' \in [Processes -> Recorders] /\ recorder'[p] = r
          /\ \A q \in Processes \ {p} : recorder'[q] = Turn!Idle
        BY <2>1, <2>2, <2>3, <1>t
    <2>5. TurnInv'
        BY <2>1, <2>2, <2>4 DEF TurnInv, Turn!Idle
    <2> QED
        BY <1>i, <2>2, <2>3, <2>5 DEF TurnInv, TurnKept
<1>3. CASE Turn!MoveAside(p)
    <2> PICK r : r = [recorder[p] EXCEPT !.aside = transcript]
        OBVIOUS
    <2>1. r \in Recorders /\ r.step = "writing" /\ r.own = recorder[p].own
        BY <1>3, <1>t DEF Turn!MoveAside, Turn!Ready, Recorders, TurnInv
    <2> QED
        BY <1>3, <2>1, <1>k DEF Turn!MoveAside, Turn!Ready
<1>4. CASE Turn!Put(p)
    <2> PICK r : r = [recorder[p] EXCEPT !.step = "put"]
        OBVIOUS
    <2>1. r \in Recorders /\ r.step = "put" /\ r.own = recorder[p].own
        BY <1>t DEF Recorders
    <2> QED
        BY <1>4, <2>1, <1>h, <1>k DEF Turn!Put, Turn!Ready
<1>5. CASE Turn!RollBack(p)
    <2>1. recorder[p].aside \in Nat /\ transcript \in Nat
        BY <1>t DEF Recorders, TurnInv
    <2>2. /\ recorder[p].step # "idle" /\ recorder' = [recorder EXCEPT ![p] = Turn!Idle]
          /\ UNCHANGED <<ended, others, attempts>>
          /\ transcript' = transcript \/ transcript' = recorder[p].aside
        BY <1>5 DEF Turn!RollBack, Turn!Undone
    <2>3. ended' = 0
        BY <1>h, <2>2
    <2> QED
        BY <2>1, <2>2, <2>3, <1>g
<1>6. CASE Turn!Commit(p)
    <2>1. recorder[p].step = "put" /\ recorder' = [recorder EXCEPT ![p] = Turn!Idle] /\ UNCHANGED <<transcript, attempts>>
        BY <1>6 DEF Turn!Commit, Turn!Ready
    <2>2. ended' = recorder[p].own /\ others' = others
        BY <1>6, <2>1, <1>h DEF Turn!Commit
    <2> QED
        BY <2>1, <2>2, <1>h, <1>g DEF TurnInv
<1>7. CASE Turn!Die(p)
    <2>1. CASE recorder[p].step # "idle"
        BY <1>7, <2>1, <1>h, <1>g DEF Turn!Die, TurnInv
    <2>2. CASE recorder[p].step = "idle"
        <3>1. recorder[p] = Turn!Idle /\ turnLock = p
            BY <1>7, <2>2 DEF Turn!Die, TurnInv
        <3>2. recorder' = recorder /\ \A q \in Processes : recorder[q] = Turn!Idle
            BY <1>7, <3>1, <1>t DEF Turn!Die, TurnInv
        <3> QED
            BY <1>7, <3>2, <1>i DEF Turn!Die, TurnInv, TurnKept
    <2> QED
        BY <2>1, <2>2
<1> QED
    BY <1>1, <1>2, <1>3, <1>4, <1>5, <1>6, <1>7

-----------------------------------------------------------------------------
(* The files beside the rows.                                              *)

Locked == {"begun", "placing", "copied", "placed", "undoing", "undone"}
Contents == [by : Nat, whole : BOOLEAN]
Targets == Files!Paths \cup {<<>>} \cup ({"snapshot"} \X Nodes \X Nat)
Operations ==
    [at : Locked \cup {"idle", "asked", "committed", "restoring"}, op : AllOps \cup {"none"},
     on : Nodes \cup Turns \cup {NoOne}, by : Nat, target : Targets, made : SUBSET Targets, before : BOOLEAN,
     read : SUBSET Nat]
Committed ==
    [node : [Nodes -> Nat], together : SUBSET Nodes, review : [Nodes -> [Files!Attempts -> Nat]],
     ended : [Turns -> Nat], switches : Nat, document : SUBSET Nat, migrated : BOOLEAN]

FilesTyped ==
    /\ rows \in Committed
    /\ disk \in [Files!Paths -> Contents] /\ atLock \in [Files!Paths -> Contents]
    /\ proc \in [Processes -> Operations]
    /\ \A p \in Processes : proc[p].at # "idle" =>
          proc[p].op \in AllOps /\ proc[p].on \in (IF proc[p].op = "turn" THEN Turns ELSE Nodes)

(* Nothing on the disk D is of attempt b.                                   *)
Fresh(b, D) == (\A f \in Files!Paths : D[f].by # b) /\ (b \in Files!Attempts => D[<<"aside", b>>] = Files!Absent)

(* An attempt's number is its own, and nothing has it before it writes.     *)
Numbers ==
    /\ tries \in 0 .. MaxTries
    /\ \A p \in Processes : proc[p].at # "idle" => proc[p].by \in 1 .. tries
    /\ \A p, q \in Processes : p # q /\ proc[p].at # "idle" /\ proc[q].at # "idle" => proc[p].by # proc[q].by
    /\ \A b \in Files!Attempts : b > tries => Fresh(b, disk)
    /\ \A p \in Processes : proc[p].at \in {"asked", "begun"} => Fresh(proc[p].by, disk)
    /\ \A p \in Processes : proc[p].at = "asked" => proc[p].target = <<>> /\ proc[p].made = {}

(* What operation r found under the lock stands for as long as it holds it.   *)
Guarded(r, R) ==
    /\ r.op \in {"create", "split", "import"} => r.target = <<"folder", r.on>> /\ R.node[r.on] = 0
    /\ r.op = "medium" => r.target = <<"folder", r.on>>
    /\ r.op = "turn" => r.target = <<"turn", r.on>> /\ R.ended[r.on] = 0
    /\ r.op = "review" => \E v \in Nat : r.target = <<"snapshot", r.on, v>>
                                        /\ (v \in Files!Attempts => R.review[r.on][v] = 0)
    /\ r.op \in {"switch", "save"} => r.target = <<"partial">>

(* Where a Review's snapshot, a turn's transcript and a node's folder are, on  *)
(* the disk D, with A the disk when the lock was taken: what is undone goes    *)
(* back to A.                                                                  *)
SnapshotStage(r, D, A) ==
    r.op = "review" => /\ r.made \subseteq {r.target}
                       /\ r.target \in Files!Paths =>
                            /\ A[r.target] = Files!Absent /\ r.made = {r.target}
                            /\ r.at = "placing" => D[r.target] = Files!Part(r.by)
                            /\ r.at = "placed" => D[r.target] = Files!Whole(r.by)
                            /\ r.at = "undone" => D[r.target] = Files!Absent

TranscriptStage(r, D, A) ==
    r.op = "turn" =>
        /\ r.at # "copied"
        /\ r.at = "begun" => r.made = {} /\ D[r.target] = A[r.target]
        /\ r.at = "placing" => r.made = {} /\ D[r.target] = Files!Absent /\ D[<<"aside", r.by>>] = A[r.target]
        /\ r.at = "placed" => /\ r.made = {r.target} /\ D[r.target] = Files!Whole(r.by)
                              /\ D[<<"aside", r.by>>] = A[r.target]
        /\ r.at = "undoing" => \/ /\ r.made = {} /\ D[r.target] = A[r.target]
                                  /\ D[<<"aside", r.by>>] = Files!Absent
                               \/ r.made = {r.target} /\ D[<<"aside", r.by>>] = A[r.target]
        /\ r.at = "undone" => D[r.target] = A[r.target]

FolderStage(r, D, A, R) ==
    r.op \in {"split", "medium", "import"} =>
        /\ r.made \subseteq {r.target}
        /\ r.at \in {"placing", "placed"} => D[r.target] # Files!Absent
        /\ r.op = "medium" =>
              /\ IF r.target \in r.made THEN r.on \notin R.together /\ A[r.target] = Files!Absent
                 ELSE D[r.target] = A[r.target] /\ A[r.target] # Files!Absent /\ A[r.target].by # r.by
              /\ r.at = "undone" => D[r.target] = A[r.target] \/ D[r.target].by = R.node[r.on]

(* What was loaded of a side document is what there is, for the lock's holder. *)
Loaded(r, R) ==
    r.op = "save" =>
        /\ r.at # "placing"
        /\ r.at = "placed" => r.read = R.document \cup (IF R.migrated THEN {} ELSE {0})

Stage(r, D, A, R) ==
    IF r.target = <<>> THEN r.at \in {"undoing", "undone"} /\ r.made = {}
    ELSE /\ Guarded(r, R)
         /\ SnapshotStage(r, D, A) /\ TranscriptStage(r, D, A) /\ FolderStage(r, D, A, R)
         /\ Loaded(r, R)
         /\ r.op \in {"create", "switch", "save"} => r.made = {}

(* Everything but its target is as it was, but for the folders of nodes that   *)
(* create_node makes outside the lock.                                         *)
Spared(r, D, A, R) ==
    /\ \A f \in Files!Snapshots \cup Files!Transcripts : f # r.target => D[f] = A[f]
    /\ \A n \in Nodes : <<"folder", n>> # r.target /\ R.node[n] # 0 =>
          D[<<"folder", n>>] = A[<<"folder", n>>] \/ D[<<"folder", n>>].by = R.node[n]

Holders ==
    \A p \in Processes : proc[p].at \in Locked =>
        lock = p /\ Spared(proc[p], disk, atLock, rows) /\ Stage(proc[p], disk, atLock, rows)

RowsMatch ==
    /\ Files!FilesMatchRows
    /\ \A n \in rows.together : rows.node[n] # 0
    /\ \A p \in Processes : proc[p].at = "committed" /\ proc[p].op = "create" => rows.node[proc[p].on] = proc[p].by

DocumentWhole == IF rows.migrated THEN 0 \in rows.document ELSE rows.document = {}

FilesInv == FilesTyped /\ Numbers /\ Holders /\ RowsMatch /\ DocumentWhole

(* The kinds of paths are apart.                                            *)
LEMMA PathsAre ==
    /\ \A n \in Nodes : <<"folder", n>> \in Files!Paths
    /\ \A t \in Turns : <<"turn", t>> \in Files!Paths /\ <<"turn", t>> \in Files!Transcripts
    /\ \A a \in Files!Attempts : <<"aside", a>> \in Files!Paths
    /\ \A n \in Nodes, v \in Files!Attempts : <<"snapshot", n, v>> \in Files!Paths
                                             /\ <<"snapshot", n, v>> \in Files!Snapshots
    /\ \A n \in Nodes, v \in Nat : <<"snapshot", n, v>> \in Files!Paths => v \in Files!Attempts
    /\ <<"backup">> \in Files!Paths /\ <<"partial">> \in Files!Paths
    /\ Files!Snapshots \cup Files!Transcripts \subseteq Files!Paths
<1> USE DEF Files!Paths, Files!Folders, Files!Snapshots, Files!Transcripts, Files!Asides
<1>1. \A n \in Nodes, v \in Nat : <<"snapshot", n, v>> \in Files!Paths => v \in Files!Attempts
    OBVIOUS
<1> QED
    BY <1>1

LEMMA PathsApart ==
    /\ \A n, t : <<"folder", n>> # <<"turn", t>> /\ <<"folder", n>> # <<"aside", t>> /\ <<"turn", n>> # <<"aside", t>>
    /\ \A n, v, t : /\ <<"snapshot", n, v>> # <<"folder", t>> /\ <<"snapshot", n, v>> # <<"turn", t>>
                    /\ <<"snapshot", n, v>> # <<"aside", t>>
    /\ \A n, v : /\ <<"snapshot", n, v>> # <<"partial">> /\ <<"snapshot", n, v>> # <<"backup">>
                 /\ <<"snapshot", n, v>> # <<>>
    /\ \A n, t : <<n, t>> # <<"partial">> /\ <<n, t>> # <<"backup">> /\ <<n, t>> # <<>>
    /\ <<"partial">> # <<"backup">> /\ <<"partial">> # <<>>
    /\ \A f \in Files!Snapshots \cup Files!Transcripts :
          /\ \A t : f # <<"folder", t>> /\ f # <<"aside", t>>
          /\ f # <<"partial">> /\ f # <<"backup">>
<1>1. \A f \in Files!Snapshots \cup Files!Transcripts :
          /\ \A t : f # <<"folder", t>> /\ f # <<"aside", t>>
          /\ f # <<"partial">> /\ f # <<"backup">>
    BY DEF Files!Snapshots, Files!Transcripts
<1> QED
    BY <1>1

(* The next number is past every row of the node and every file on disk.    *)
LEMMA NextIsFree ==
    ASSUME FilesTyped, MaxTries \in Nat, NEW n \in Nodes, NEW v, v = Files!NextVersion(n)
    PROVE  /\ v \in Nat
           /\ v \in Files!Attempts => rows.review[n][v] = 0 /\ disk[<<"snapshot", n, v>>] = Files!Absent
<1> DEFINE Numbered == {w \in Files!Attempts : rows.review[n][w] # 0 \/ disk[<<"snapshot", n, w>>] # Files!Absent}
<1>1. {0} \cup Numbered \in SUBSET (0 .. MaxTries)
    BY DEF Files!Attempts
<1>2. PICK i \in {0} \cup Numbered : \A j \in {0} \cup Numbered : i >= j
    BY <1>1, GreatestNatural
<1> PICK m : m = Files!Max({0} \cup Numbered)
    OBVIOUS
<1>3. v = 1 + m
    BY DEF Files!NextVersion
<1> HIDE DEF Numbered
<1>4. m \in {0} \cup Numbered /\ \A j \in {0} \cup Numbered : m >= j
    BY <1>2 DEF Files!Max
<1>5. v \in Nat /\ v \notin Numbered
    <2>1. m \in 0 .. MaxTries
        BY <1>1, <1>4
    <2>2. v \in Numbered => m >= v
        BY <1>4
    <2> QED
        BY <2>1, <2>2, <1>3
<1> QED
    BY <1>5 DEF Numbered

(* What one that holds the lock goes on to be.                              *)
Follows(r, o) == r \in Operations /\ r.op = o.op /\ r.on = o.on /\ r.by = o.by /\ r.target = o.target

LEMMA Going ==
    ASSUME NEW o \in Operations, NEW s \in Locked \cup {"idle", "asked", "committed", "restoring"},
           NEW r, r = [o EXCEPT !.at = s]
    PROVE  Follows(r, o) /\ r.at = s /\ r.made = o.made /\ r.before = o.before
BY DEF Follows, Operations

(* From the disk D to E, one that holds the lock changes its target, what it  *)
(* moved aside and the backup, and writes nothing as another.                  *)
Changes(D, E, r) ==
    /\ E \in [Files!Paths -> Contents]
    /\ \A f \in Files!Paths : f \notin {r.target, <<"aside", r.by>>, <<"backup">>, <<"partial">>} => E[f] = D[f]
    /\ \A f \in Files!Paths : E[f].by \in {0, r.by} \/ \E g \in Files!Paths : E[f].by = D[g].by

(* Nor does it take the folder of a node made together with it.              *)
FolderStays(r, D, R) == r.on \in R.together /\ r.target = <<"folder", r.on>> => D[r.target] # Files!Absent

LEMMA HolderMoves ==
    ASSUME FilesInv, NEW p \in Processes, proc[p].at \in Locked,
           NEW r, Follows(r, proc[p]), r.at \in Locked \ {"begun"}, proc' = [proc EXCEPT ![p] = r],
           UNCHANGED <<lock, rows, tries, atLock>>,
           Changes(disk, disk', r), FolderStays(r, disk', rows),
           Stage(r, disk', atLock, rows)
    PROVE  FilesInv'
<1> USE PathsAre, PathsApart DEF Changes, FolderStays
<1>0. lock = p /\ r.by \in 1 .. tries /\ Spared(proc[p], disk, atLock, rows) /\ Stage(proc[p], disk, atLock, rows)
    BY DEF FilesInv, Holders, Numbers, Follows, Locked
<1>1. proc'[p] = r /\ \A q \in Processes \ {p} : proc'[q] = proc[q] /\ proc[q].at \notin Locked
    BY <1>0 DEF FilesInv, Holders, FilesTyped
<1>2. FilesTyped'
    BY <1>1 DEF FilesInv, FilesTyped, Follows, Locked
<1>3. \A b \in Nat \ {0, r.by} : Fresh(b, disk) => Fresh(b, disk')
    <2> SUFFICES ASSUME NEW b \in Nat \ {0, r.by}, Fresh(b, disk) PROVE Fresh(b, disk')
        OBVIOUS
    <2>1. ASSUME NEW f \in Files!Paths PROVE disk'[f].by # b
        BY DEF Fresh
    <2>2. ASSUME b \in Files!Attempts PROVE disk'[<<"aside", b>>] = Files!Absent
        <3>1. <<"aside", b>> # r.target
            BY <1>0, <2>2 DEF Stage, Guarded, Follows, FilesInv, FilesTyped, Locked, AllOps
        <3>2. <<"aside", b>> # <<"aside", r.by>> /\ <<"aside", b>> # <<"backup">> /\ <<"aside", b>> # <<"partial">>
            OBVIOUS
        <3> QED
            BY <2>2, <3>1, <3>2 DEF Fresh
    <2> QED
        BY <2>1, <2>2 DEF Fresh
<1>4. Numbers'
    <2>1. \A b \in Files!Attempts : b > tries => Fresh(b, disk')
        BY <1>0, <1>3 DEF FilesInv, Numbers, Files!Attempts
    <2>2. \A q \in Processes : proc'[q].at \in {"asked", "begun"} => Fresh(proc'[q].by, disk')
        BY <1>0, <1>1, <1>3 DEF FilesInv, Numbers, Locked, Follows
    <2> QED
        BY <2>1, <2>2, <1>0, <1>1 DEF FilesInv, Numbers, Locked, Follows
<1>5. Spared(r, disk', atLock, rows)
    BY <1>0 DEF Spared, Follows, FilesInv, FilesTyped
<1>6. Holders'
    BY <1>0, <1>1, <1>5 DEF Holders, Locked
<1>7. RowsMatch'
    <2>0. r.op \in AllOps /\ r.on \in (IF r.op = "turn" THEN Turns ELSE Nodes)
        BY DEF FilesInv, FilesTyped, Follows, Locked
    <2>t. r.target = <<>> \/ Guarded(r, rows)
        BY DEF Stage
    <2>1. ASSUME NEW n \in Nodes, NEW v \in Files!Attempts, rows.review[n][v] # 0
          PROVE  disk'[<<"snapshot", n, v>>] = Files!Whole(rows.review[n][v])
        <3>1. <<"snapshot", n, v>> # r.target
            BY <2>0, <2>t, <2>1 DEF Guarded, AllOps
        <3> QED
            BY <3>1, <2>1 DEF FilesInv, RowsMatch, Files!FilesMatchRows
    <2>2. ASSUME NEW t \in Turns, rows.ended[t] # 0
          PROVE  disk'[<<"turn", t>>] = Files!Whole(rows.ended[t])
        <3>1. <<"turn", t>> # r.target
            BY <2>0, <2>t, <2>2 DEF Guarded, AllOps
        <3> QED
            BY <3>1, <2>2 DEF FilesInv, RowsMatch, Files!FilesMatchRows
    <2>3. ASSUME NEW n \in rows.together PROVE disk'[<<"folder", n>>] # Files!Absent
        <3>1. n \in Nodes
            BY DEF FilesInv, FilesTyped, Committed
        <3>2. <<"folder", n>> = r.target => n = r.on
            BY <2>0, <2>t, <3>1 DEF Guarded, AllOps
        <3> QED
            BY <3>1, <3>2 DEF FilesInv, RowsMatch, Files!FilesMatchRows
    <2>4. Files!FilesMatchRows'
        BY <2>1, <2>2, <2>3 DEF Files!FilesMatchRows
    <2> QED
        BY <2>4, <1>1 DEF FilesInv, RowsMatch, Locked
<1> QED
    BY <1>2, <1>4, <1>6, <1>7 DEF FilesInv, DocumentWhole

(* What the proofs about files need of the constants.                       *)
LEMMA FilesBounds == MaxTries \in Nat /\ NoOne \notin Processes
BY Zenon, StoreAssumption

LEMMA FilesInit == Files!Init => FilesInv
<1> SUFFICES ASSUME Files!Init PROVE FilesInv
    OBVIOUS
<1> USE DEF Files!Init
<1>1. \A p \in Processes : /\ proc[p].at = "idle" /\ proc[p] \in Operations
    BY DEF Files!Idle, Operations, Targets, AllOps
<1>2. FilesTyped
    <2>1. rows \in Committed
        BY DEF Committed
    <2>2. Files!Absent \in Contents
        BY DEF Contents, Files!Absent
    <2>3. disk \in [Files!Paths -> Contents] /\ atLock \in [Files!Paths -> Contents]
        BY <2>2
    <2> QED
        BY <1>1, <2>1, <2>3 DEF FilesTyped
<1>3. Numbers
    <2>0. \A b \in Files!Attempts : b # 0
        BY DEF Files!Attempts
    <2>1. \A b \in Files!Attempts : Fresh(b, disk)
        BY <2>0, PathsAre DEF Fresh, Files!Absent
    <2> QED
        BY <1>1, <2>1, FilesBounds DEF Numbers
<1>4. Holders
    BY <1>1 DEF Holders, Locked
<1>5. RowsMatch /\ DocumentWhole
    BY <1>1 DEF RowsMatch, DocumentWhole, Files!FilesMatchRows
<1> QED
    BY <1>2, <1>3, <1>4, <1>5 DEF FilesInv

LEMMA FilesAsk ==
    ASSUME FilesInv, NEW p \in Processes, NEW op \in AllOps, NEW on \in (IF op = "turn" THEN Turns ELSE Nodes),
           Files!Ask(p, op, on)
    PROVE  FilesInv'
<1> PICK r : r = [Files!Idle EXCEPT !.at = "asked", !.op = op, !.on = on, !.by = tries + 1]
    OBVIOUS
<1>1. /\ proc[p].at = "idle" /\ tries < MaxTries /\ tries' = tries + 1 /\ proc' = [proc EXCEPT ![p] = r]
      /\ UNCHANGED <<lock, rows, disk, atLock>>
    BY DEF Files!Ask
<1>2. /\ r.at = "asked" /\ r.op = op /\ r.on = on /\ r.by = tries + 1 /\ r.target = <<>> /\ r.made = {}
      /\ r \in Operations /\ tries \in Nat /\ MaxTries \in Nat
    <2>1. tries \in Nat /\ MaxTries \in Nat /\ tries + 1 \in Nat
        BY FilesBounds DEF FilesInv, Numbers
    <2>2. <<>> \in Targets /\ on \in Nodes \cup Turns
        BY DEF Targets, AllOps
    <2> HIDE DEF Targets
    <2> QED
        BY <2>1, <2>2 DEF Files!Idle, Operations
<1>3. proc'[p] = r /\ \A q \in Processes \ {p} : proc'[q] = proc[q]
    BY <1>1 DEF FilesInv, FilesTyped
<1>4. FilesTyped'
    BY <1>1, <1>2, <1>3 DEF FilesInv, FilesTyped
<1>5. Numbers'
    <2>1. \A b \in Files!Attempts : b > tries => Fresh(b, disk)
        BY DEF FilesInv, Numbers
    <2>2. tries + 1 \in Files!Attempts /\ tries + 1 > tries
        BY <1>1, <1>2 DEF Files!Attempts
    <2>3. \A b \in Files!Attempts : b > tries' => Fresh(b, disk)
        BY <2>1, <1>1, <1>2 DEF Files!Attempts
    <2>4. \A q \in Processes \ {p} : proc[q].at # "idle" => proc[q].by \in 1 .. tries
        BY DEF FilesInv, Numbers
    <2>5. \A q \in Processes : proc'[q].at # "idle" => proc'[q].by \in 1 .. tries'
        BY <2>4, <1>1, <1>2, <1>3
    <2>6. \A q \in Processes \ {p} : proc[q].at # "idle" => proc[q].by # r.by
        BY <2>4, <1>2
    <2> QED
        BY <2>1, <2>2, <2>3, <2>5, <2>6, <1>1, <1>2, <1>3 DEF FilesInv, Numbers
<1>6. Holders'
    BY <1>1, <1>2, <1>3 DEF FilesInv, Holders, Locked
<1>7. RowsMatch' /\ DocumentWhole'
    BY <1>1, <1>2, <1>3 DEF FilesInv, RowsMatch, DocumentWhole, Files!FilesMatchRows
<1> QED
    BY <1>4, <1>5, <1>6, <1>7 DEF FilesInv

LEMMA FilesBegin ==
    ASSUME FilesInv, NEW p \in Processes, Files!Begin(p)
    PROVE  FilesInv'
<1> USE PathsAre, PathsApart
<1> DEFINE o == proc[p]
           f == Files!Target(o.op, o.on)
<1>1. /\ o.at = "asked" /\ lock = NoOne /\ lock' = p /\ atLock' = disk /\ UNCHANGED <<rows, disk, tries>>
      /\ o \in Operations /\ o.op \in AllOps /\ o.on \in (IF o.op = "turn" THEN Turns ELSE Nodes)
      /\ o.target = <<>> /\ o.made = {} /\ Fresh(o.by, disk) /\ o.by \in 1 .. tries
    BY DEF Files!Begin, FilesInv, FilesTyped, Numbers
<1>2. \A q \in Processes : proc[q].at \notin Locked
    BY <1>1, FilesBounds DEF FilesInv, Holders
<1>3. PICK r \in Operations :
        /\ proc' = [proc EXCEPT ![p] = r] /\ r.op = o.op /\ r.on = o.on /\ r.by = o.by
        /\ r.at \in {"begun", "undoing"} /\ Stage(r, disk, disk, rows)
    <2>1. CASE Files!Allowed(o.op, o.on)
        <3> PICK r : r = [o EXCEPT !.at = "begun", !.target = f, !.made = Files!ToUndo(o.op, f)]
            OBVIOUS
        <3>1. proc' = [proc EXCEPT ![p] = r]
            BY <2>1 DEF Files!Begin
        <3>2. f \in Targets /\ f # <<>>
            <4>1. CASE o.op = "review"
                BY <4>1, <1>1, NextIsFree, FilesBounds DEF Files!Target, Targets, FilesInv
            <4>2. CASE o.op # "review"
                BY <4>2, <1>1 DEF Files!Target, Targets, AllOps
            <4> QED
                BY <4>1, <4>2
        <3>3. Files!ToUndo(o.op, f) \subseteq {f}
            BY DEF Files!ToUndo
        <3>4. /\ r \in Operations /\ r.at = "begun" /\ r.target = f /\ r.made = Files!ToUndo(o.op, f)
              /\ r.op = o.op /\ r.on = o.on /\ r.by = o.by
            BY <1>1, <3>2, <3>3 DEF Operations, Locked
        <3>5. Guarded(r, rows) /\ SnapshotStage(r, disk, disk)
            <4>1. CASE o.op = "review"
                <5> PICK v : v = Files!NextVersion(o.on)
                    OBVIOUS
                <5>1. f = <<"snapshot", o.on, v>>
                    BY <4>1 DEF Files!Target
                <5>2. /\ v \in Nat
                      /\ v \in Files!Attempts => rows.review[o.on][v] = 0 /\ disk[f] = Files!Absent
                    BY <4>1, <5>1, <1>1, NextIsFree, FilesBounds DEF FilesInv
                <5>3. Guarded(r, rows)
                    BY <4>1, <5>1, <5>2, <3>4 DEF Guarded
                <5>4. f \in Files!Paths => v \in Files!Attempts
                    BY <4>1, <5>1, <5>2, <1>1
                <5> QED
                    BY <4>1, <5>2, <5>3, <5>4, <3>3, <3>4 DEF SnapshotStage, Files!ToUndo
            <4>2. CASE o.op # "review"
                BY <4>2, <2>1, <1>1, <3>4 DEF SnapshotStage, Guarded, Files!Target, Files!Allowed, Files!KeyFree,
                    Files!Made, Files!NotEnded, AllOps
            <4> QED
                BY <4>1, <4>2
        <3>6. TranscriptStage(r, disk, disk)
            BY <3>4 DEF TranscriptStage, Files!ToUndo
        <3>7. FolderStage(r, disk, disk, rows)
            <4>1. ASSUME o.op = "medium" PROVE f = <<"folder", o.on>> /\ f \in Files!Paths
                BY <4>1, <1>1 DEF Files!Target
            <4>2. ASSUME o.op = "medium", disk[f] = Files!Absent PROVE o.on \notin rows.together
                BY <4>1, <4>2 DEF FilesInv, RowsMatch, Files!FilesMatchRows
            <4>3. o.op = "medium" => disk[f].by # o.by
                BY <4>1, <1>1 DEF Fresh
            <4> QED
                BY <4>2, <4>3, <3>3, <3>4 DEF FolderStage, Files!ToUndo
        <3>8. r.op \in {"create", "switch", "save"} => r.made = {}
            BY <3>4 DEF Files!ToUndo
        <3> QED
            BY <3>1, <3>2, <3>4, <3>5, <3>6, <3>7, <3>8 DEF Stage, Loaded
    <2>2. CASE ~ Files!Allowed(o.op, o.on)
        <3> PICK r : r = [o EXCEPT !.at = "undoing"]
            OBVIOUS
        <3>1. proc' = [proc EXCEPT ![p] = r]
            BY <2>2 DEF Files!Begin
        <3>2. Follows(r, o) /\ r.at = "undoing" /\ r.made = o.made
            BY Going, <1>1 DEF Locked
        <3> QED
            BY <3>1, <3>2, <1>1 DEF Stage, Follows
    <2> QED
        BY <2>1, <2>2
<1> HIDE DEF o, f
<1>4. proc'[p] = r /\ \A q \in Processes \ {p} : proc'[q] = proc[q]
    BY <1>3 DEF FilesInv, FilesTyped
<1>5. FilesTyped'
    BY <1>1, <1>3, <1>4 DEF FilesInv, FilesTyped
<1>6. Numbers'
    BY <1>1, <1>3, <1>4 DEF FilesInv, Numbers, o
<1>7. Holders'
    <2>1. Spared(r, disk, disk, rows)
        BY DEF Spared
    <2> QED
        BY <2>1, <1>1, <1>2, <1>3, <1>4 DEF Holders
<1>8. RowsMatch' /\ DocumentWhole'
    BY <1>1, <1>3, <1>4 DEF FilesInv, RowsMatch, DocumentWhole, Files!FilesMatchRows
<1> QED
    BY <1>5, <1>6, <1>7, <1>8 DEF FilesInv

(* What is known of one that holds the lock.                                *)
LEMMA HolderIs ==
    ASSUME FilesInv, NEW p \in Processes, proc[p].at \in Locked
    PROVE  /\ lock = p /\ proc[p] \in Operations /\ proc[p].by \in Nat \ {0} /\ proc[p].by \in Files!Attempts
           /\ proc[p].op \in AllOps /\ proc[p].on \in (IF proc[p].op = "turn" THEN Turns ELSE Nodes)
           /\ Stage(proc[p], disk, atLock, rows) /\ Spared(proc[p], disk, atLock, rows)
           /\ proc[p].at = "begun" => Fresh(proc[p].by, disk)
           /\ disk \in [Files!Paths -> Contents] /\ atLock \in [Files!Paths -> Contents]
           /\ \A q \in Processes \ {p} : proc[q].at \notin Locked
BY FilesBounds DEF FilesInv, Holders, FilesTyped, Numbers, Locked, Files!Attempts

LEMMA FilesPlace ==
    ASSUME FilesInv, NEW p \in Processes, Files!Place(p)
    PROVE  FilesInv'
<1> USE PathsAre, PathsApart
<1>1. proc[p].at = "begun" /\ proc[p].op \in {"split", "medium", "import", "review"}
    BY DEF Files!Place
<1>2. PICK r : r = [proc[p] EXCEPT !.at = "placing"]
    OBVIOUS
<1>3. Follows(r, proc[p]) /\ r.at = "placing" /\ r.made = proc[p].made
    BY <1>1, <1>2, HolderIs, Going DEF Locked
<1>4. PICK c : c = Files!Part(r.by)
    OBVIOUS
<1>5. c \in Contents /\ c # Files!Absent /\ c.by = r.by /\ Files!Absent.by = 0
    BY <1>1, <1>3, <1>4, HolderIs DEF Files!Part, Files!Absent, Contents, Follows, Locked
<1>6. /\ proc' = [proc EXCEPT ![p] = r] /\ UNCHANGED <<lock, rows, tries, atLock>>
      /\ disk' = IF r.op \in {"split", "medium"} /\ disk[r.target] # Files!Absent THEN disk
                 ELSE [disk EXCEPT ![r.target] = c]
    BY <1>2, <1>3, <1>4 DEF Files!Place, Files!Goes, Follows
<1>7. /\ disk' \in [Files!Paths -> Contents]
      /\ \A f \in Files!Paths : f # r.target => disk'[f] = disk[f]
      /\ r.target \in Files!Paths => disk'[r.target] \in {disk[r.target], c} /\ disk'[r.target] # Files!Absent
      /\ r.op = "review" /\ r.target \in Files!Paths => disk'[r.target] = c
      /\ r.op = "medium" /\ r.target \in Files!Paths /\ disk[r.target] # Files!Absent => disk'[r.target] = disk[r.target]
    BY <1>1, <1>5, <1>6, HolderIs DEF Locked
<1>8. Stage(proc[p], disk, atLock, rows) /\ proc[p].target # <<>> /\ Guarded(proc[p], rows)
    BY <1>1, HolderIs DEF Stage, Locked
<1>9. r.op # "review" => r.target \in Files!Paths
    <2>1. r.op \in {"split", "medium", "import", "review"} /\ r.op = proc[p].op /\ r.on = proc[p].on
          /\ r.target = proc[p].target
        BY <1>1, <1>3 DEF Follows
    <2>2. r.on \in Nodes
        BY <1>1, <2>1, HolderIs DEF Locked
    <2> QED
        BY <1>8, <2>1, <2>2 DEF Guarded
<1>10. Stage(r, disk', atLock, rows)
    <2>1. Guarded(r, rows)
        BY <1>3, <1>8 DEF Guarded, Follows
    <2>2. SnapshotStage(r, disk', atLock)
        BY <1>3, <1>4, <1>7, <1>8 DEF Stage, SnapshotStage, Follows
    <2>3. TranscriptStage(r, disk', atLock)
        BY <1>1, <1>3 DEF TranscriptStage, Follows
    <2>4. FolderStage(r, disk', atLock, rows)
        BY <1>1, <1>3, <1>7, <1>8, <1>9 DEF Stage, FolderStage, Follows
    <2> QED
        BY <1>1, <1>3, <1>8, <2>1, <2>2, <2>3, <2>4 DEF Stage, Loaded, Follows
<1>11. FolderStays(r, disk', rows)
    <2>1. r.op = "review" => r.target # <<"folder", r.on>>
        BY <1>3, <1>8 DEF Guarded, Follows
    <2> QED
        BY <1>7, <1>9, <2>1 DEF FolderStays
<1>12. Changes(disk, disk', r)
    BY <1>5, <1>7 DEF Changes
<1>13. proc[p].at \in Locked /\ r.at \in Locked \ {"begun"}
    BY <1>1, <1>3 DEF Locked
<1> QED
    BY <1>3, <1>6, <1>10, <1>11, <1>12, <1>13, HolderMoves

LEMMA FilesMoveAside ==
    ASSUME FilesInv, NEW p \in Processes, Files!MoveAside(p)
    PROVE  FilesInv'
<1> USE PathsAre, PathsApart
<1>1. proc[p].at = "begun" /\ proc[p].op = "turn"
    BY DEF Files!MoveAside, Files!At
<1>2. PICK r : r = [proc[p] EXCEPT !.at = "placing"]
    OBVIOUS
<1>3. Follows(r, proc[p]) /\ r.at = "placing" /\ r.made = proc[p].made
    BY <1>1, <1>2, HolderIs, Going DEF Locked
<1>4. /\ Stage(proc[p], disk, atLock, rows) /\ proc[p].target # <<>> /\ Guarded(proc[p], rows)
      /\ r.target = <<"turn", r.on>> /\ r.on \in Turns /\ r.by \in Files!Attempts
    BY <1>1, <1>3, HolderIs DEF Stage, Guarded, Follows, Locked
<1>5. PICK aside : aside = <<"aside", r.by>>
    OBVIOUS
<1>6. aside \in Files!Paths /\ r.target \in Files!Paths /\ aside # r.target
    BY <1>4, <1>5
<1>7. /\ proc' = [proc EXCEPT ![p] = r] /\ UNCHANGED <<lock, rows, tries, atLock>>
      /\ disk' = [disk EXCEPT ![aside] = disk[r.target], ![r.target] = Files!Absent]
    BY <1>2, <1>3, <1>5 DEF Files!MoveAside, Files!Goes, Follows, Files!Asides1
<1>8. Files!Absent \in Contents /\ Files!Absent.by = 0
    BY DEF Files!Absent, Contents
<1>9. /\ disk' \in [Files!Paths -> Contents]
      /\ \A f \in Files!Paths \ {aside, r.target} : disk'[f] = disk[f]
      /\ disk'[aside] = disk[r.target] /\ disk'[r.target] = Files!Absent
    BY <1>1, <1>6, <1>7, <1>8, HolderIs DEF Locked
<1>10. Stage(r, disk', atLock, rows)
    <2>1. Guarded(r, rows)
        BY <1>3, <1>4 DEF Guarded, Follows
    <2>3. TranscriptStage(r, disk', atLock)
        BY <1>1, <1>3, <1>4, <1>5, <1>9 DEF Stage, TranscriptStage, Follows
    <2> QED
        BY <1>1, <1>3, <1>4, <2>1, <2>3 DEF Stage, Loaded, Follows, SnapshotStage, FolderStage
<1>11. FolderStays(r, disk', rows)
    BY <1>4 DEF FolderStays
<1>12. Changes(disk, disk', r)
    BY <1>5, <1>6, <1>8, <1>9 DEF Changes
<1>13. proc[p].at \in Locked /\ r.at \in Locked \ {"begun"}
    BY <1>1, <1>3 DEF Locked
<1> QED
    BY <1>3, <1>7, <1>10, <1>11, <1>12, <1>13, HolderMoves

LEMMA FilesBackUp ==
    ASSUME FilesInv, NEW p \in Processes, Files!BackUp(p)
    PROVE  FilesInv'
<1> USE PathsAre, PathsApart
<1>1. proc[p].at = "begun" /\ proc[p].op = "switch"
    BY DEF Files!BackUp, Files!At
<1>2. PICK s \in {"placing", "copied"} :
        /\ proc' = [proc EXCEPT ![p].at = s]
        /\ disk' \in {disk, [disk EXCEPT ![<<"partial">>] = Files!Part(proc[p].by)]}
    BY DEF Files!BackUp, Files!Goes
<1>3. PICK r : r = [proc[p] EXCEPT !.at = s]
    OBVIOUS
<1>4. Follows(r, proc[p]) /\ r.at = s /\ r.made = proc[p].made
    BY <1>1, <1>3, HolderIs, Going DEF Locked
<1>5. proc' = [proc EXCEPT ![p] = r] /\ UNCHANGED <<lock, rows, tries, atLock>>
    BY <1>2, <1>3 DEF Files!BackUp
<1>6. Files!Part(r.by) \in Contents /\ Files!Part(r.by).by = r.by
    BY <1>1, <1>4, HolderIs DEF Files!Part, Contents, Follows, Locked
<1>7. /\ disk' \in [Files!Paths -> Contents]
      /\ \A f \in Files!Paths \ {<<"partial">>} : disk'[f] = disk[f]
      /\ disk'[<<"partial">>] = disk[<<"partial">>] \/ disk'[<<"partial">>].by = r.by
    BY <1>1, <1>2, <1>4, <1>6, HolderIs DEF Follows, Locked
<1>8. Stage(proc[p], disk, atLock, rows) /\ proc[p].target # <<>> /\ r.target = <<"partial">>
    BY <1>1, <1>4, HolderIs DEF Stage, Guarded, Follows, Locked
<1>9. Stage(r, disk', atLock, rows)
    BY <1>1, <1>4, <1>8 DEF Stage, Loaded, Guarded, SnapshotStage, TranscriptStage, FolderStage, Follows
<1>10. Changes(disk, disk', r)
    BY <1>7 DEF Changes
<1>11. proc[p].at \in Locked /\ r.at \in Locked \ {"begun"} /\ FolderStays(r, disk', rows)
    BY <1>1, <1>4, <1>8 DEF Locked, FolderStays
<1> QED
    BY <1>4, <1>5, <1>9, <1>10, <1>11, HolderMoves

LEMMA FilesCompletePreamble ==
    ASSUME FilesInv, NEW p \in Processes, Files!CompletePreamble(p) \/ Files!RowsOnly(p) \/ Files!Loads(p)
    PROVE  FilesInv'
<1>1. proc[p].at \in {"begun", "copied"} /\ proc[p].op \in {"create", "switch", "save"}
    BY DEF Files!CompletePreamble, Files!RowsOnly, Files!Loads, Files!At
<1>2. PICK r : /\ proc' = [proc EXCEPT ![p] = r] /\ Follows(r, proc[p]) /\ r.at = "placed" /\ r.made = proc[p].made
               /\ r.op = "save" => r.read = Files!Document
    <2>1. CASE Files!RowsOnly(p)
        <3> PICK r : r = [proc[p] EXCEPT !.at = "placed"]
            OBVIOUS
        <3>1. Follows(r, proc[p]) /\ r.at = "placed" /\ r.made = proc[p].made
            BY <1>1, HolderIs, Going DEF Locked
        <3> QED
            BY <2>1, <3>1 DEF Files!RowsOnly, Files!At, Files!Goes, Follows
    <2>2. CASE Files!CompletePreamble(p)
        <3> PICK r : r = [proc[p] EXCEPT !.at = "placed", !.before = (preamble = "before")]
            OBVIOUS
        <3>1. (preamble = "before") \in BOOLEAN
            OBVIOUS
        <3>2. proc[p] \in Operations
            BY <1>1, HolderIs DEF Locked
        <3>3. Follows(r, proc[p]) /\ r.at = "placed" /\ r.made = proc[p].made
            BY <3>1, <3>2 DEF Follows, Operations, Locked
        <3> QED
            BY <2>2, <3>3 DEF Files!CompletePreamble, Files!At, Follows
    <2>3. CASE Files!Loads(p)
        <3> PICK d : d = Files!Document
            OBVIOUS
        <3> PICK r : r = [proc[p] EXCEPT !.at = "placed", !.read = d]
            OBVIOUS
        <3>1. d \in SUBSET Nat
            BY DEF Files!Document, FilesInv, FilesTyped, Committed
        <3>2. proc[p] \in Operations
            BY <1>1, HolderIs DEF Locked
        <3>3. Follows(r, proc[p]) /\ r.at = "placed" /\ r.made = proc[p].made /\ r.read = d
            BY <3>1, <3>2 DEF Follows, Operations, Locked
        <3> QED
            BY <2>3, <3>3 DEF Files!Loads
    <2> QED
        BY <2>1, <2>2, <2>3
<1>3. UNCHANGED <<lock, rows, disk, tries, atLock>>
    BY DEF Files!CompletePreamble, Files!RowsOnly, Files!Loads
<1>4. /\ Guarded(proc[p], rows) /\ proc[p].target # <<>> /\ proc[p].made = {}
      /\ disk \in [Files!Paths -> Contents] /\ proc[p].at \in Locked
    BY <1>1, HolderIs DEF Stage, Locked
<1> DEFINE o == proc[p]
<1>r. r.op = o.op /\ r.on = o.on /\ r.by = o.by /\ r.target = o.target /\ r.made = o.made /\ Follows(r, proc[p])
    BY <1>2 DEF Follows
<1> HIDE DEF o
<1>5. r.on \in rows.together /\ r.target = <<"folder", r.on>> => disk[r.target] # Files!Absent
    BY <1>1, <1>2, HolderIs DEF FilesInv, RowsMatch, Files!FilesMatchRows, Locked, Follows
<1>6. Stage(r, disk, atLock, rows)
    <2>0. Guarded(o, rows) /\ o.target # <<>> /\ o.made = {}
        BY <1>4 DEF o
    <2>1. Guarded(r, rows)
        BY <2>0, <1>r DEF Guarded
    <2>2. SnapshotStage(r, disk, atLock) /\ TranscriptStage(r, disk, atLock) /\ FolderStage(r, disk, atLock, rows)
        BY <1>1, <1>2 DEF SnapshotStage, TranscriptStage, FolderStage, Follows
    <2>3. r.op \in {"create", "switch", "save"} => r.made = {}
        BY <2>0, <1>r
    <2>4. Loaded(r, rows)
        BY <1>2 DEF Files!Document, Loaded
    <2> QED
        BY <2>0, <1>r, <2>1, <2>2, <2>3, <2>4 DEF Stage
<1>7. Stage(r, disk', atLock, rows)
    BY <1>3, <1>6
<1>8. proc[p].at \in Locked /\ r.at \in Locked \ {"begun"}
    BY <1>2, <1>4 DEF Locked
<1>9. Changes(disk, disk', r) /\ FolderStays(r, disk', rows)
    BY <1>3, <1>4, <1>5 DEF Changes, FolderStays
<1> QED
    BY <1>2, <1>3, <1>7, <1>8, <1>9, <1>r, HolderMoves

LEMMA FilesFill ==
    ASSUME FilesInv, NEW p \in Processes, Files!Fill(p)
    PROVE  FilesInv'
<1> PICK o : o = proc[p]
    OBVIOUS
<1>1. o.at = "placing" /\ proc[p].at \in Locked /\ UNCHANGED <<lock, rows, tries, atLock>>
    BY DEF Files!Fill, Locked
<1> PICK w : w = Files!Whole(o.by)
    OBVIOUS
<1>2. /\ o \in Operations /\ o.by \in Files!Attempts /\ o.by \in Nat \ {0} /\ o.op \in AllOps
      /\ o.on \in (IF o.op = "turn" THEN Turns ELSE Nodes) /\ disk \in [Files!Paths -> Contents]
    BY <1>1, HolderIs
<1>3. w \in Contents /\ w # Files!Absent /\ w.by = o.by /\ Files!Absent.by = 0 /\ Files!Absent \in Contents
    BY <1>2 DEF Files!Whole, Files!Absent, Contents
<1>4. /\ Guarded(o, rows) /\ o.target # <<>>
      /\ SnapshotStage(o, disk, atLock) /\ TranscriptStage(o, disk, atLock)
      /\ FolderStage(o, disk, atLock, rows)
      /\ o.op \in {"create", "switch", "save"} => o.made = {}
      /\ Loaded(o, rows)
    BY <1>1, HolderIs DEF Stage, Locked
<1>5. CASE o.op = "turn"
    <2> PICK r : r = [o EXCEPT !.at = "placed", !.made = {o.target}]
        OBVIOUS
    <2>1. /\ r \in Operations /\ r.op = o.op /\ r.on = o.on /\ r.by = o.by /\ r.target = o.target
          /\ r.at = "placed" /\ r.made = {r.target}
        BY <1>2 DEF Operations, Locked
    <2>2. proc' = [proc EXCEPT ![p] = r]
        BY <1>1, <1>5 DEF Files!Fill
    <2>3. disk' = [disk EXCEPT ![o.target] = w]
        BY <1>5 DEF Files!Fill
    <2>4. r.target = <<"turn", r.on>> /\ r.target \in Files!Paths
        <3>1. o.target = <<"turn", o.on>> /\ o.on \in Turns
            BY <1>2, <1>4, <1>5 DEF Guarded
        <3>2. <<"turn", o.on>> \in Files!Paths
            BY <3>1, PathsAre, Zenon
        <3> QED
            BY <3>1, <3>2, <2>1
    <2>5. /\ disk' \in [Files!Paths -> Contents] /\ disk'[r.target] = w
          /\ \A f \in Files!Paths \ {r.target} : disk'[f] = disk[f]
        BY <1>2, <1>3, <2>1, <2>3, <2>4
    <2>6. Stage(r, disk', atLock, rows)
        <3>1. Guarded(r, rows)
            BY <1>4, <2>1 DEF Guarded
        <3>2. disk[<<"aside", r.by>>] = atLock[r.target]
            BY <1>1, <1>4, <1>5, <2>1 DEF TranscriptStage
        <3>3. <<"aside", r.by>> \in Files!Paths /\ <<"aside", r.by>> # r.target
            BY <1>2, <2>1, <2>4, PathsAre, PathsApart
        <3>4. disk'[<<"aside", r.by>>] = atLock[r.target]
            BY <2>5, <3>2, <3>3
        <3>5. TranscriptStage(r, disk', atLock)
            BY <2>1, <2>5, <3>4 DEF TranscriptStage
        <3>6. SnapshotStage(r, disk', atLock) /\ FolderStage(r, disk', atLock, rows)
            BY <1>5, <2>1 DEF SnapshotStage, FolderStage
        <3> QED
            BY <1>4, <1>5, <2>1, <3>1, <3>5, <3>6 DEF Stage, Loaded
    <2>7. Changes(disk, disk', r)
        BY <1>3, <2>1, <2>5 DEF Changes
    <2>8. FolderStays(r, disk', rows)
        BY <2>4, PathsApart DEF FolderStays
    <2> QED
        BY <1>1, <2>1, <2>2, <2>6, <2>7, <2>8, HolderMoves DEF Locked, Follows
<1>6. CASE o.op = "switch"
    <2> PICK r : r = [o EXCEPT !.at = "copied"]
        OBVIOUS
    <2>1. /\ r \in Operations /\ r.op = o.op /\ r.on = o.on /\ r.by = o.by /\ r.target = o.target
          /\ r.at = "copied" /\ r.made = o.made
        BY <1>2 DEF Operations, Locked
    <2>2. proc' = [proc EXCEPT ![p] = r]
        BY <1>1, <1>6 DEF Files!Fill
    <2>3. disk' = [disk EXCEPT ![<<"backup">>] = w, ![<<"partial">>] = Files!Absent]
        BY <1>6 DEF Files!Fill
    <2>4. /\ disk' \in [Files!Paths -> Contents] /\ disk'[<<"backup">>] = w /\ disk'[<<"partial">>] = Files!Absent
          /\ \A f \in Files!Paths \ {<<"backup">>, <<"partial">>} : disk'[f] = disk[f]
        BY <1>2, <1>3, <2>3, PathsAre, PathsApart
    <2>5. Stage(r, disk', atLock, rows)
        <3>1. Guarded(r, rows)
            BY <1>4, <2>1 DEF Guarded
        <3>2. SnapshotStage(r, disk', atLock) /\ FolderStage(r, disk', atLock, rows) /\ TranscriptStage(r, disk', atLock)
            BY <1>6, <2>1 DEF SnapshotStage, FolderStage, TranscriptStage
        <3> QED
            BY <1>4, <2>1, <3>1, <3>2 DEF Stage, Loaded
    <2>6. Changes(disk, disk', r)
        BY <1>3, <2>1, <2>4 DEF Changes
    <2>7. r.target = <<"partial">>
        BY <1>4, <1>6, <2>1 DEF Guarded
    <2>8. FolderStays(r, disk', rows)
        BY <2>7, PathsApart DEF FolderStays
    <2> QED
        BY <1>1, <2>1, <2>2, <2>5, <2>6, <2>8, HolderMoves DEF Locked, Follows
<1>7. CASE o.op \notin {"turn", "switch"}
    <2> PICK r : r = [o EXCEPT !.at = "placed", !.made = o.made]
        OBVIOUS
    <2>1. /\ r \in Operations /\ r.op = o.op /\ r.on = o.on /\ r.by = o.by /\ r.target = o.target
          /\ r.at = "placed" /\ r.made = o.made
        BY <1>2 DEF Operations, Locked
    <2>2. proc' = [proc EXCEPT ![p] = r]
        BY <1>1, <1>7 DEF Files!Fill
    <2>3. disk' = IF disk[r.target].by = r.by THEN [disk EXCEPT ![r.target].whole = TRUE] ELSE disk
        BY <1>7, <2>1 DEF Files!Fill
    <2>4. /\ disk' \in [Files!Paths -> Contents]
          /\ r.target \in Files!Paths => disk'[r.target] = IF disk[r.target].by = r.by THEN w ELSE disk[r.target]
          /\ \A f \in Files!Paths \ {r.target} : disk'[f] = disk[f]
        <3>1. CASE disk[r.target].by = r.by
            <4> PICK c : c = [disk[r.target] EXCEPT !.whole = TRUE]
                OBVIOUS
            <4>1. disk' = [disk EXCEPT ![r.target] = c]
                BY <2>3, <3>1
            <4>2. r.target \in Files!Paths => c \in Contents /\ c.by = r.by /\ c.whole = TRUE
                BY <1>2, <3>1 DEF Contents
            <4>3. r.target \in Files!Paths => c = w
                <5>1. w = [by |-> o.by, whole |-> TRUE] /\ o.by = r.by
                    BY <2>1 DEF Files!Whole
                <5>2. \A e \in Contents : e.by = r.by /\ e.whole = TRUE => e = [by |-> r.by, whole |-> TRUE]
                    BY DEF Contents
                <5> QED
                    BY <4>2, <5>1, <5>2
            <4> QED
                BY <1>2, <3>1, <4>1, <4>2, <4>3
        <3>2. CASE disk[r.target].by # r.by
            BY <2>3, <1>2, <3>2
        <3> QED
            BY <3>1, <3>2
    <2>5. r.target \in Files!Paths /\ disk[r.target] # Files!Absent => disk'[r.target] # Files!Absent
        BY <1>3, <2>4
    <2>6. Stage(r, disk', atLock, rows)
        <3>1. Guarded(r, rows)
            BY <1>4, <2>1 DEF Guarded
        <3>2. SnapshotStage(r, disk', atLock)
            <4>1. Files!Part(r.by).by = r.by
                BY DEF Files!Part
            <4> QED
                BY <1>1, <1>4, <2>1, <2>4, <4>1 DEF SnapshotStage
        <3>3. TranscriptStage(r, disk', atLock)
            BY <1>7, <2>1 DEF TranscriptStage
        <3>4. FolderStage(r, disk', atLock, rows)
            <4>1. r.op \in {"split", "medium", "import"} => r.target \in Files!Paths
                <5> SUFFICES ASSUME o.op \in {"split", "medium", "import"} PROVE o.target \in Files!Paths
                    BY <2>1
                <5>1. o.target = <<"folder", o.on>> /\ o.on \in Nodes
                    BY <1>2, <1>4 DEF Guarded
                <5>2. <<"folder", o.on>> \in Files!Paths
                    BY <5>1, PathsAre, Zenon
                <5> QED
                    BY <5>1, <5>2
            <4>2. ASSUME r.op = "medium", r.target \notin r.made PROVE disk'[r.target] = disk[r.target]
                BY <4>1, <4>2, <1>4, <2>1, <2>4 DEF FolderStage
            <4> QED
                BY <1>1, <1>4, <2>1, <2>5, <4>1, <4>2 DEF FolderStage
        <3>5. r.op \in {"create", "switch", "save"} => r.made = {}
            BY <1>4, <2>1
        <3> QED
            BY <1>1, <1>4, <2>1, <3>1, <3>2, <3>3, <3>4, <3>5 DEF Stage, Loaded
    <2>7. FolderStays(r, disk', rows)
        <3>1. \A n \in rows.together : <<"folder", n>> \in Files!Paths /\ disk[<<"folder", n>>] # Files!Absent
            BY PathsAre DEF FilesInv, FilesTyped, Committed, RowsMatch, Files!FilesMatchRows
        <3> QED
            BY <2>5, <3>1 DEF FolderStays
    <2>8. Changes(disk, disk', r)
        BY <1>3, <2>1, <2>4 DEF Changes
    <2> QED
        BY <1>1, <2>1, <2>2, <2>6, <2>7, <2>8, HolderMoves DEF Locked, Follows
<1> QED
    BY <1>5, <1>6, <1>7

LEMMA FilesRaise ==
    ASSUME FilesInv, NEW p \in Processes, Files!Raise(p)
    PROVE  FilesInv'
<1> PICK o : o = proc[p]
    OBVIOUS
<1>1. o.at \in {"begun", "placing", "copied", "placed"} /\ proc[p].at \in Locked
    BY DEF Files!Raise, Locked
<1>2. /\ o \in Operations /\ o.by \in Files!Attempts /\ o.on \in (IF o.op = "turn" THEN Turns ELSE Nodes)
      /\ disk \in [Files!Paths -> Contents]
      /\ o.at = "begun" => Fresh(o.by, disk)
    BY <1>1, HolderIs
<1> PICK r : r = [o EXCEPT !.at = "undoing"]
    OBVIOUS
<1>3. /\ r \in Operations /\ r.op = o.op /\ r.on = o.on /\ r.by = o.by /\ r.target = o.target
      /\ r.at = "undoing" /\ r.made = o.made
    BY <1>2 DEF Operations, Locked
<1>4. proc' = [proc EXCEPT ![p] = r] /\ UNCHANGED <<lock, rows, tries, atLock>>
    BY DEF Files!Raise, Files!Goes
<1>5. /\ Guarded(o, rows) /\ o.target # <<>>
      /\ SnapshotStage(o, disk, atLock) /\ TranscriptStage(o, disk, atLock)
      /\ FolderStage(o, disk, atLock, rows)
      /\ o.op \in {"create", "switch", "save"} => o.made = {}
    BY <1>1, HolderIs DEF Stage
<1> PICK aside : aside = <<"aside", r.by>>
    OBVIOUS
<1>6. aside \in Files!Paths /\ aside = Files!Asides1(p)
    BY <1>2, <1>3, PathsAre DEF Files!Asides1
<1>7. Guarded(r, rows) /\ (r.op \in {"create", "switch", "save"} => r.made = {})
    BY <1>3, <1>5 DEF Guarded
<1>8. CASE o.op = "turn" /\ o.at = "placing" /\ disk[aside] # Files!Absent
    <2>1. r.target = <<"turn", r.on>> /\ r.target \in Files!Paths /\ aside # r.target
        BY <1>2, <1>3, <1>5, <1>8, PathsAre, PathsApart DEF Guarded
    <2>2. disk' = [disk EXCEPT ![r.target] = disk[aside], ![aside] = Files!Absent]
        BY <1>3, <1>6, <1>8 DEF Files!Raise, Files!At
    <2>3. Files!Absent \in Contents /\ Files!Absent.by = 0
        BY DEF Files!Absent, Contents
    <2>4. /\ disk' \in [Files!Paths -> Contents] /\ disk'[r.target] = disk[aside] /\ disk'[aside] = Files!Absent
          /\ \A f \in Files!Paths \ {r.target, aside} : disk'[f] = disk[f]
        BY <1>2, <1>6, <2>1, <2>2, <2>3
    <2>5. TranscriptStage(r, disk', atLock)
        BY <1>3, <1>5, <1>8, <2>4 DEF TranscriptStage
    <2>6. SnapshotStage(r, disk', atLock) /\ FolderStage(r, disk', atLock, rows)
        BY <1>3, <1>8 DEF SnapshotStage, FolderStage
    <2>7. Stage(r, disk', atLock, rows)
        BY <1>3, <1>5, <1>7, <2>5, <2>6 DEF Stage, Loaded
    <2>8. Changes(disk, disk', r)
        BY <1>6, <2>1, <2>3, <2>4 DEF Changes
    <2>9. FolderStays(r, disk', rows)
        BY <2>1, PathsApart DEF FolderStays
    <2> QED
        BY <1>1, <1>3, <1>4, <2>7, <2>8, <2>9, HolderMoves DEF Locked, Follows
<1>9. CASE ~ (o.op = "turn" /\ o.at = "placing" /\ disk[aside] # Files!Absent)
    <2>1. disk' = disk
        BY <1>6, <1>9 DEF Files!Raise, Files!At
    <2>2. TranscriptStage(r, disk, atLock)
        <3>1. o.at = "begun" => disk[aside] = Files!Absent
            BY <1>2, <1>3 DEF Fresh
        <3>2. o.at = "placing" /\ o.op = "turn" => disk[aside] = Files!Absent
            BY <1>9
        <3> QED
            BY <1>1, <1>3, <1>5, <3>1, <3>2 DEF TranscriptStage
    <2>3. SnapshotStage(r, disk, atLock)
        BY <1>3, <1>5 DEF SnapshotStage
    <2>4. FolderStage(r, disk, atLock, rows)
        BY <1>3, <1>5 DEF FolderStage
    <2>5. Stage(r, disk', atLock, rows)
        BY <1>3, <1>5, <1>7, <2>1, <2>2, <2>3, <2>4 DEF Stage, Loaded
    <2>6. FolderStays(r, disk', rows)
        BY <2>1 DEF FilesInv, RowsMatch, Files!FilesMatchRows, FolderStays
    <2>7. Changes(disk, disk', r)
        BY <1>2, <2>1 DEF Changes
    <2> QED
        BY <1>1, <1>3, <1>4, <2>5, <2>6, <2>7, HolderMoves DEF Locked, Follows
<1> QED
    BY <1>8, <1>9

LEMMA FilesUndo ==
    ASSUME FilesInv, NEW p \in Processes, Files!Undo(p)
    PROVE  FilesInv'
<1> PICK o : o = proc[p]
    OBVIOUS
<1>1. o.at = "undoing" /\ proc[p].at \in Locked
    BY DEF Files!Undo, Locked
<1>2. /\ o \in Operations /\ o.by \in Files!Attempts /\ o.on \in (IF o.op = "turn" THEN Turns ELSE Nodes)
      /\ o.op \in AllOps /\ disk \in [Files!Paths -> Contents] /\ Stage(o, disk, atLock, rows)
    BY <1>1, HolderIs
<1> PICK r : r = [o EXCEPT !.at = "undone"]
    OBVIOUS
<1>3. /\ r \in Operations /\ r.op = o.op /\ r.on = o.on /\ r.by = o.by /\ r.target = o.target
      /\ r.at = "undone" /\ r.made = o.made
    BY <1>2 DEF Operations, Locked
<1>4. proc' = [proc EXCEPT ![p] = r] /\ UNCHANGED <<lock, rows, tries, atLock>>
    BY DEF Files!Undo, Files!Goes
<1> PICK aside : aside = <<"aside", r.by>>
    OBVIOUS
<1>5. aside \in Files!Paths /\ aside = Files!Asides1(p)
    BY <1>2, <1>3, PathsAre DEF Files!Asides1
<1>6. disk' = [f \in Files!Paths |->
                 IF r.op = "turn" /\ disk[aside] # Files!Absent
                 THEN IF f = r.target THEN disk[aside] ELSE IF f = aside THEN Files!Absent ELSE disk[f]
                 ELSE IF f \in r.made THEN Files!Absent ELSE disk[f]]
    BY <1>3, <1>5 DEF Files!Undo, Files!Undone
<1>7. Files!Absent \in Contents /\ Files!Absent.by = 0
    BY DEF Files!Absent, Contents
<1>8. r.made \subseteq {r.target} /\ (r.target = <<>> => r.made = {})
    BY <1>1, <1>2, <1>3 DEF Stage, SnapshotStage, TranscriptStage, FolderStage, AllOps
<1>9. Changes(disk, disk', r)
    <2>1. disk' \in [Files!Paths -> Contents]
        BY <1>2, <1>5, <1>6, <1>7
    <2>2. \A f \in Files!Paths : f \notin {r.target, aside} => disk'[f] = disk[f]
        BY <1>6, <1>8
    <2>3. \A f \in Files!Paths : disk'[f] \in {disk[f], Files!Absent, disk[aside]}
        BY <1>6
    <2> QED
        BY <1>5, <1>7, <2>1, <2>2, <2>3 DEF Changes
<1>10. CASE r.target = <<>>
    <2>1. Stage(r, disk', atLock, rows)
        BY <1>3, <1>8, <1>10 DEF Stage
    <2>2. FolderStays(r, disk', rows)
        BY <1>10, PathsApart DEF FolderStays
    <2> QED
        BY <1>1, <1>3, <1>4, <1>9, <2>1, <2>2, HolderMoves DEF Locked, Follows
<1>11. CASE r.target # <<>>
    <2>1. /\ Guarded(o, rows) /\ SnapshotStage(o, disk, atLock) /\ TranscriptStage(o, disk, atLock)
          /\ FolderStage(o, disk, atLock, rows)
          /\ o.op \in {"create", "switch", "save"} => o.made = {}
        BY <1>2, <1>3, <1>11 DEF Stage
    <2>2. Guarded(r, rows) /\ (r.op \in {"create", "switch", "save"} => r.made = {})
        BY <1>3, <2>1 DEF Guarded
    <2>3. SnapshotStage(r, disk', atLock)
        BY <1>3, <1>6, <2>1 DEF SnapshotStage
    <2>4. TranscriptStage(r, disk', atLock)
        <3> SUFFICES ASSUME r.op = "turn" PROVE disk'[r.target] = atLock[r.target]
            BY <1>3 DEF TranscriptStage
        <3>1. r.target \in Files!Paths /\ aside # r.target
            BY <1>2, <1>3, <2>1, PathsAre, PathsApart DEF Guarded
        <3>2. \/ r.made = {} /\ disk[r.target] = atLock[r.target] /\ disk[aside] = Files!Absent
              \/ r.made = {r.target} /\ disk[aside] = atLock[r.target]
            BY <1>1, <1>3, <2>1 DEF TranscriptStage
        <3> QED
            BY <1>6, <3>1, <3>2
    <2>5. r.op \in {"split", "medium", "import"} => r.target \in Files!Paths
        BY <1>2, <1>3, <2>1, PathsAre DEF Guarded
    <2>6. FolderStage(r, disk', atLock, rows)
        <3>1. r.op = "medium" /\ r.target \notin r.made => disk'[r.target] = disk[r.target]
            BY <1>6, <2>5
        <3>2. r.op = "medium" /\ r.target \in r.made => disk'[r.target] = Files!Absent
            BY <1>6, <2>5
        <3> QED
            BY <1>3, <1>8, <2>1, <3>1, <3>2 DEF FolderStage
    <2>7. Stage(r, disk', atLock, rows)
        BY <1>11, <2>2, <2>3, <2>4, <2>6 DEF Stage, Loaded
    <2>8. FolderStays(r, disk', rows)
        <3> SUFFICES ASSUME r.on \in rows.together, r.target = <<"folder", r.on>> PROVE disk'[r.target] # Files!Absent
            BY DEF FolderStays
        <3>1. r.on \in Nodes /\ rows.node[r.on] # 0 /\ disk[r.target] # Files!Absent /\ r.target \in Files!Paths
            BY PathsAre DEF FilesInv, FilesTyped, Committed, RowsMatch, Files!FilesMatchRows
        <3>2. r.op = "medium" /\ r.target \notin r.made
            BY <1>2, <1>3, <2>1, <2>2, <3>1, PathsApart DEF Guarded, FolderStage, AllOps
        <3> QED
            BY <1>6, <3>1, <3>2
    <2> QED
        BY <1>1, <1>3, <1>4, <1>9, <2>7, <2>8, HolderMoves DEF Locked, Follows
<1> QED
    BY <1>10, <1>11

(* What a commit of the operation o makes of the rows.                      *)
Becomes(R, o) ==
    /\ o.op \in {"create", "split", "import"} => R.node = [rows.node EXCEPT ![o.on] = o.by]
    /\ o.op \notin {"create", "split", "import"} => R.node = rows.node
    /\ o.op \in {"split", "import"} => R.together = rows.together \cup {o.on}
    /\ o.op \notin {"split", "import"} => R.together = rows.together
    /\ o.op = "review" => \E v \in Nat :
          /\ o.target = <<"snapshot", o.on, v>>
          /\ R.review = [rows.review EXCEPT ![o.on] = [rows.review[o.on] EXCEPT ![v] = o.by]]
    /\ o.op # "review" => R.review = rows.review
    /\ o.op = "turn" => R.ended = [rows.ended EXCEPT ![o.on] = o.by]
    /\ o.op # "turn" => R.ended = rows.ended
    /\ IF R.migrated THEN 0 \in R.document ELSE R.document = {}
    /\ rows.document \subseteq R.document

LEMMA CommittedRows ==
    ASSUME FilesInv, NEW p \in Processes, proc[p].at = "placed", NEW o, o = proc[p], NEW R, R = Files!RowsWith(p)
    PROVE  R \in Committed /\ Becomes(R, o)
<1> USE DEF Becomes
<1>1. /\ o \in Operations /\ o.by \in Nat /\ o.on \in (IF o.op = "turn" THEN Turns ELSE Nodes) /\ o.op \in AllOps
      /\ Stage(o, disk, atLock, rows) /\ rows \in Committed
    BY HolderIs DEF Locked, FilesInv, FilesTyped
<1>2. Guarded(o, rows)
    BY <1>1 DEF Stage
<1>3. IF rows.migrated THEN 0 \in rows.document ELSE rows.document = {}
    BY DEF FilesInv, DocumentWhole
<1>4. CASE o.op = "create"
    <2>1. R = [rows EXCEPT !.node[o.on] = o.by]
        BY <1>4 DEF Files!RowsWith, Files!Created
    <2> PICK N : N = [rows.node EXCEPT ![o.on] = o.by]
        OBVIOUS
    <2>2. N \in [Nodes -> Nat] /\ R = [rows EXCEPT !.node = N]
        BY <1>1, <1>4, <2>1 DEF Committed
    <2> QED
        BY <1>1, <1>3, <1>4, <2>2 DEF Committed
<1>5. CASE o.op \in {"split", "import"}
    <2>1. R = [rows EXCEPT !.node[o.on] = o.by, !.together = @ \cup {o.on}]
        BY <1>5 DEF Files!RowsWith, Files!CreatedTogether
    <2> PICK N : N = [rows.node EXCEPT ![o.on] = o.by]
        OBVIOUS
    <2> PICK T : T = rows.together \cup {o.on}
        OBVIOUS
    <2>2. N \in [Nodes -> Nat] /\ T \in SUBSET Nodes /\ R = [rows EXCEPT !.node = N, !.together = T]
        BY <1>1, <1>5, <2>1 DEF Committed
    <2> QED
        BY <1>1, <1>3, <1>5, <2>2 DEF Committed
<1>6. CASE o.op = "review"
    <2> PICK v \in Nat : o.target = <<"snapshot", o.on, v>>
        BY <1>2, <1>6 DEF Guarded
    <2>1. R = [rows EXCEPT !.review[o.on][v] = o.by]
        BY <1>6 DEF Files!RowsWith, Files!Requested
    <2> PICK V : V = [rows.review EXCEPT ![o.on] = [rows.review[o.on] EXCEPT ![v] = o.by]]
        OBVIOUS
    <2>2. V \in [Nodes -> [Files!Attempts -> Nat]] /\ R = [rows EXCEPT !.review = V]
        BY <1>1, <1>6, <2>1 DEF Committed
    <2> QED
        BY <1>1, <1>3, <1>6, <2>2 DEF Committed
<1>7. CASE o.op = "turn"
    <2>1. R = [rows EXCEPT !.ended[o.on] = o.by]
        BY <1>7 DEF Files!RowsWith, Files!Ended
    <2> PICK E : E = [rows.ended EXCEPT ![o.on] = o.by]
        OBVIOUS
    <2>2. E \in [Turns -> Nat] /\ R = [rows EXCEPT !.ended = E]
        BY <1>1, <1>7, <2>1 DEF Committed
    <2> QED
        BY <1>1, <1>3, <1>7, <2>2 DEF Committed
<1>8. CASE o.op = "switch"
    <2>1. R = [rows EXCEPT !.switches = @ + 1]
        BY <1>8 DEF Files!RowsWith, Files!Switched
    <2> PICK w : w = rows.switches + 1
        OBVIOUS
    <2>2. w \in Nat /\ R = [rows EXCEPT !.switches = w]
        BY <1>1, <2>1 DEF Committed
    <2>3. R \in Committed
        BY <1>1, <2>2 DEF Committed
    <2> QED
        BY <1>1, <1>3, <1>8, <2>2, <2>3 DEF Committed
<1>9. CASE o.op = "save"
    <2>1. R = [rows EXCEPT !.document = o.read \cup {o.by}, !.migrated = TRUE]
        BY <1>9 DEF Files!RowsWith, Files!Saved
    <2>4. o.read = rows.document \cup (IF rows.migrated THEN {} ELSE {0})
        BY <1>1, <1>9 DEF Stage, Guarded, Loaded
    <2> PICK D : D = o.read \cup {o.by}
        OBVIOUS
    <2>2. D \in SUBSET Nat /\ rows.document \subseteq D /\ 0 \in D /\ R = [rows EXCEPT !.document = D, !.migrated = TRUE]
        BY <1>1, <1>3, <2>1, <2>4 DEF Committed
    <2>3. R \in Committed
        BY <1>1, <2>2 DEF Committed
    <2> QED
        BY <1>1, <1>9, <2>2, <2>3 DEF Committed
<1>10. CASE o.op = "medium"
    <2>1. R = rows
        BY <1>10 DEF Files!RowsWith
    <2> QED
        BY <1>1, <1>3, <1>10, <2>1
<1> QED
    BY <1>1, <1>4, <1>5, <1>6, <1>7, <1>8, <1>9, <1>10 DEF AllOps

LEMMA FilesCommit ==
    ASSUME FilesInv, NEW p \in Processes, Files!Commit(p)
    PROVE  FilesInv' /\ rows.document \subseteq rows'.document
<1> PICK o : o = proc[p]
    OBVIOUS
<1> PICK R : R = Files!RowsWith(p)
    OBVIOUS
<1>1. o.at = "placed" /\ proc[p].at \in Locked /\ rows' = R /\ lock' = NoOne /\ UNCHANGED <<disk, tries, atLock>>
    BY DEF Files!Commit, Locked
<1>2. /\ o \in Operations /\ o.by \in Files!Attempts /\ o.by \in Nat \ {0} /\ o.op \in AllOps
      /\ o.on \in (IF o.op = "turn" THEN Turns ELSE Nodes) /\ disk \in [Files!Paths -> Contents]
      /\ \A q \in Processes \ {p} : proc[q].at \notin Locked
    BY <1>1, HolderIs
<1>3. /\ Guarded(o, rows) /\ SnapshotStage(o, disk, atLock) /\ TranscriptStage(o, disk, atLock)
      /\ FolderStage(o, disk, atLock, rows)
    BY <1>1, HolderIs DEF Stage
<1> PICK r : r = [o EXCEPT !.at = "committed"]
    OBVIOUS
<1>4. /\ r \in Operations /\ r.op = o.op /\ r.on = o.on /\ r.by = o.by /\ r.at = "committed"
    BY <1>2 DEF Operations
<1>5. proc' = [proc EXCEPT ![p] = r]
    BY DEF Files!Commit, Files!Goes
<1>6. proc'[p] = r /\ \A q \in Processes \ {p} : proc'[q] = proc[q]
    BY <1>5 DEF FilesInv, FilesTyped
<1>7. rows \in Committed /\ R \in Committed /\ Becomes(R, o)
    BY <1>1, CommittedRows DEF FilesInv, FilesTyped
<1>c. /\ o.op \in {"create", "split", "import"} => R.node = [rows.node EXCEPT ![o.on] = o.by]
      /\ o.op \notin {"create", "split", "import"} => R.node = rows.node
      /\ o.op \in {"split", "import"} => R.together = rows.together \cup {o.on}
      /\ o.op \notin {"split", "import"} => R.together = rows.together
      /\ IF R.migrated THEN 0 \in R.document ELSE R.document = {}
      /\ rows.document \subseteq R.document
    BY <1>7 DEF Becomes
<1>d. /\ o.op = "review" => \E v \in Nat :
            /\ o.target = <<"snapshot", o.on, v>>
            /\ R.review = [rows.review EXCEPT ![o.on] = [rows.review[o.on] EXCEPT ![v] = o.by]]
      /\ o.op # "review" => R.review = rows.review
      /\ o.op = "turn" => R.ended = [rows.ended EXCEPT ![o.on] = o.by]
      /\ o.op # "turn" => R.ended = rows.ended
    BY <1>7 DEF Becomes
<1>8. FilesTyped'
    BY <1>1, <1>2, <1>4, <1>5, <1>6, <1>7 DEF FilesInv, FilesTyped, Locked
<1>9. Numbers'
    <2>1. proc[p].at # "idle" /\ \A q \in Processes : proc'[q].at # "idle" => proc[q].at # "idle" /\ proc'[q].by = proc[q].by
        BY <1>1, <1>4, <1>6
    <2>2. \A q \in Processes : proc'[q].at \in {"asked", "begun"} => proc'[q] = proc[q]
        BY <1>4, <1>6
    <2> QED
        BY <1>1, <2>1, <2>2 DEF FilesInv, Numbers
<1>10. Holders'
    BY <1>2, <1>4, <1>6 DEF Holders, Locked
<1>11. DocumentWhole'
    BY <1>1, <1>c DEF DocumentWhole
<1>12. ASSUME NEW n \in Nodes, NEW v \in Files!Attempts, R.review[n][v] # 0
       PROVE  disk[<<"snapshot", n, v>>] = Files!Whole(R.review[n][v])
    <2>1. CASE o.op = "review"
        <3> PICK w \in Nat : /\ o.target = <<"snapshot", o.on, w>>
                             /\ R.review = [rows.review EXCEPT ![o.on] = [rows.review[o.on] EXCEPT ![w] = o.by]]
            BY <1>d, <2>1
        <3>1. CASE n = o.on /\ v = w
            <4>1. R.review[n][v] = o.by
                BY <1>2, <1>7, <2>1, <3>1 DEF Committed
            <4>2. o.target = <<"snapshot", n, v>> /\ o.target \in Files!Paths
                BY <3>1, PathsAre
            <4> QED
                BY <1>1, <1>3, <2>1, <4>1, <4>2 DEF SnapshotStage
        <3>2. CASE n # o.on \/ v # w
            <4>1. R.review[n][v] = rows.review[n][v]
                BY <1>2, <1>7, <2>1, <3>2 DEF Committed
            <4> QED
                BY <1>12, <4>1 DEF FilesInv, RowsMatch, Files!FilesMatchRows
        <3> QED
            BY <3>1, <3>2
    <2>2. CASE o.op # "review"
        <3>1. R.review = rows.review
            BY <1>d, <2>2
        <3> QED
            BY <1>12, <3>1 DEF FilesInv, RowsMatch, Files!FilesMatchRows
    <2> QED
        BY <2>1, <2>2
<1>13. ASSUME NEW t \in Turns, R.ended[t] # 0 PROVE disk[<<"turn", t>>] = Files!Whole(R.ended[t])
    <2>1. CASE o.op = "turn" /\ t = o.on
        <3>1. R.ended[t] = o.by
            BY <1>d, <1>2, <1>7, <2>1 DEF Committed
        <3> QED
            BY <1>1, <1>3, <2>1, <3>1 DEF TranscriptStage, Guarded
    <2>2. CASE ~ (o.op = "turn" /\ t = o.on)
        <3>1. R.ended[t] = rows.ended[t]
            BY <1>d, <1>2, <1>7, <2>2 DEF Committed
        <3> QED
            BY <1>13, <3>1 DEF FilesInv, RowsMatch, Files!FilesMatchRows
    <2> QED
        BY <2>1, <2>2
<1>14. ASSUME NEW n \in R.together PROVE disk[<<"folder", n>>] # Files!Absent /\ R.node[n] # 0
    <2>1. CASE o.op \in {"split", "import"} /\ n = o.on
        <3>1. disk[<<"folder", n>>] # Files!Absent
            BY <1>1, <1>3, <2>1 DEF FolderStage, Guarded
        <3>2. R.node[n] = o.by
            BY <1>c, <1>2, <1>7, <2>1 DEF Committed
        <3> QED
            BY <1>2, <3>1, <3>2
    <2>2. CASE ~ (o.op \in {"split", "import"} /\ n = o.on)
        <3>1. n \in rows.together
            BY <1>c, <2>2
        <3>2. n \in Nodes /\ rows.node[n] # 0 /\ disk[<<"folder", n>>] # Files!Absent
            BY <1>7, <3>1 DEF FilesInv, RowsMatch, Files!FilesMatchRows, Committed
        <3>3. R.node[n] \in {rows.node[n], o.by}
            BY <1>c, <1>7, <3>2 DEF Committed
        <3> QED
            BY <1>2, <3>2, <3>3
    <2> QED
        BY <2>1, <2>2
<1>15. ASSUME NEW q \in Processes, proc'[q].at = "committed", proc'[q].op = "create"
       PROVE  R.node[proc'[q].on] = proc'[q].by
    <2>1. CASE q = p
        <3>1. o.op = "create" /\ proc'[q].on = o.on /\ proc'[q].by = o.by /\ o.on \in Nodes
            BY <1>2, <1>4, <1>6, <1>15, <2>1
        <3> QED
            BY <1>c, <1>7, <3>1 DEF Committed
    <2>2. CASE q # p
        <3>1. /\ proc'[q] = proc[q] /\ rows.node[proc[q].on] = proc[q].by /\ proc[q].by \in Nat \ {0}
              /\ proc[q].on \in Nodes
            BY <1>6, <1>15, <2>2 DEF FilesInv, RowsMatch, Numbers, FilesTyped
        <3>2. o.op \in {"create", "split", "import"} => proc[q].on # o.on
            BY <1>3, <3>1 DEF Guarded
        <3> QED
            BY <1>c, <1>7, <3>1, <3>2 DEF Committed
    <2> QED
        BY <2>1, <2>2
<1>16. RowsMatch'
    <2>1. Files!FilesMatchRows'
        BY <1>1, <1>12, <1>13, <1>14 DEF Files!FilesMatchRows
    <2> QED
        BY <2>1, <1>1, <1>14, <1>15 DEF RowsMatch
<1> QED
    BY <1>1, <1>c, <1>8, <1>9, <1>10, <1>11, <1>16 DEF FilesInv

(* One outside the lock ends; what another holds stands.                    *)
LEMMA FilesAfterCommit ==
    ASSUME FilesInv, NEW p \in Processes, Files!AfterCommit(p)
    PROVE  FilesInv'
<1> PICK o : o = proc[p]
    OBVIOUS
<1> PICK w : w = Files!Whole(o.by)
    OBVIOUS
<1> PICK g : g = IF o.op = "turn" THEN <<"aside", o.by>> ELSE <<"folder", o.on>>
    OBVIOUS
<1>1. o.at = "committed" /\ proc' = [proc EXCEPT ![p] = Files!Idle] /\ UNCHANGED <<lock, rows, tries, atLock>>
    BY DEF Files!AfterCommit
<1>2. /\ o \in Operations /\ o.by \in Files!Attempts /\ o.by \in Nat \ {0} /\ o.op \in AllOps /\ o.by \in 1 .. tries
      /\ o.on \in (IF o.op = "turn" THEN Turns ELSE Nodes)
      /\ disk \in [Files!Paths -> Contents] /\ atLock \in [Files!Paths -> Contents]
      /\ o.op = "create" => rows.node[o.on] = o.by
    BY <1>1, FilesBounds DEF FilesInv, FilesTyped, Numbers, RowsMatch, Files!Attempts
<1>3. g \in Files!Paths
    BY <1>2, PathsAre
<1>4. w \in Contents /\ w # Files!Absent /\ w.by = o.by /\ Files!Absent.by = 0 /\ Files!Absent \in Contents
    BY <1>2 DEF Files!Whole, Files!Absent, Contents
<1>5. \/ o.op = "turn" /\ disk' = [disk EXCEPT ![g] = Files!Absent]
      \/ o.op = "create" /\ disk[g] = Files!Absent /\ disk' = [disk EXCEPT ![g] = w]
      \/ disk' = disk
    BY <1>1 DEF Files!AfterCommit, Files!At, Files!Asides1
<1>6. /\ disk' \in [Files!Paths -> Contents] /\ \A f \in Files!Paths \ {g} : disk'[f] = disk[f]
      /\ disk'[g] \in {disk[g], Files!Absent, w}
      /\ o.op # "turn" => disk'[g] = disk[g] \/ (o.op = "create" /\ disk[g] = Files!Absent /\ disk'[g] = w)
    BY <1>2, <1>3, <1>4, <1>5
<1>7. /\ proc'[p] = Files!Idle /\ Files!Idle.at = "idle" /\ Files!Idle \in Operations
      /\ \A q \in Processes \ {p} : proc'[q] = proc[q]
    <2>1. <<>> \in Targets
        BY DEF Targets
    <2> HIDE DEF Targets
    <2> QED
        BY <1>1, <2>1 DEF FilesInv, FilesTyped, Files!Idle, Operations
<1>8. FilesTyped'
    BY <1>1, <1>6, <1>7 DEF FilesInv, FilesTyped
<1>9. Numbers'
    <2>1. ASSUME NEW b \in Nat \ {0, o.by}, Fresh(b, disk) PROVE Fresh(b, disk')
        <3>1. b \in Files!Attempts => <<"aside", b>> # g /\ <<"aside", b>> \in Files!Paths
            BY PathsAre, PathsApart
        <3>2. \A f \in Files!Paths : disk'[f].by # b
            BY <1>3, <1>4, <1>6, <2>1 DEF Fresh
        <3> QED
            BY <1>6, <2>1, <3>1, <3>2 DEF Fresh
    <2>2. tries \in Nat /\ o.by <= tries
        BY <1>2 DEF FilesInv, Numbers
    <2>3. \A b \in Files!Attempts : b > tries => Fresh(b, disk')
        BY <2>1, <2>2 DEF FilesInv, Numbers, Files!Attempts
    <2>4. \A q \in Processes \ {p} : proc[q].at # "idle" => proc[q].by # o.by /\ proc[q].by \in Nat \ {0}
        BY <1>1 DEF FilesInv, Numbers
    <2>5. \A q \in Processes : proc'[q].at \in {"asked", "begun"} => Fresh(proc'[q].by, disk')
        BY <1>7, <2>1, <2>4 DEF FilesInv, Numbers
    <2> QED
        BY <1>1, <1>7, <2>3, <2>5 DEF FilesInv, Numbers
<1>10. RowsMatch'
    <2>1. /\ \A n \in Nodes, v \in Files!Attempts : <<"snapshot", n, v>> # g /\ <<"snapshot", n, v>> \in Files!Paths
          /\ \A t \in Turns : <<"turn", t>> # g /\ <<"turn", t>> \in Files!Paths
          /\ rows.together \subseteq Nodes /\ \A n \in Nodes : <<"folder", n>> \in Files!Paths
          /\ o.op = "turn" => \A n \in Nodes : <<"folder", n>> # g
        BY PathsAre, PathsApart DEF FilesInv, FilesTyped, Committed
    <2>2. \A n \in rows.together : disk'[<<"folder", n>>] # Files!Absent
        <3> SUFFICES ASSUME NEW n \in rows.together PROVE disk'[<<"folder", n>>] # Files!Absent
            OBVIOUS
        <3> PICK f : f = <<"folder", n>>
            OBVIOUS
        <3>1. f \in Files!Paths /\ disk[f] # Files!Absent
            BY <2>1 DEF FilesInv, RowsMatch, Files!FilesMatchRows
        <3>2. o.op = "turn" => f # g
            BY <2>1
        <3> QED
            BY <1>6, <3>1, <3>2
    <2>3. Files!FilesMatchRows'
        BY <1>1, <1>6, <2>1, <2>2 DEF FilesInv, RowsMatch, Files!FilesMatchRows
    <2> QED
        BY <1>1, <1>7, <2>3 DEF FilesInv, RowsMatch
<1>11. Holders'
    <2> SUFFICES ASSUME NEW q \in Processes, proc'[q].at \in Locked
                 PROVE  lock' = q /\ Spared(proc'[q], disk', atLock, rows) /\ Stage(proc'[q], disk', atLock, rows)
        BY <1>1 DEF Holders
    <2> PICK r : r = proc[q]
        OBVIOUS
    <2>1. q # p /\ proc'[q] = r /\ proc[q].at \in Locked
        BY <1>7 DEF Locked
    <2>2. /\ lock = q /\ Spared(r, disk, atLock, rows) /\ Stage(r, disk, atLock, rows)
          /\ r.by # o.by /\ r.by \in Files!Attempts /\ r.by \in Nat \ {0} /\ r.op \in AllOps /\ r.at # "idle"
          /\ r.on \in (IF r.op = "turn" THEN Turns ELSE Nodes)
        BY <1>1, <2>1, HolderIs DEF FilesInv, Numbers, Locked
    <2>3. Spared(r, disk', atLock, rows)
        <3>1. \A f \in Files!Snapshots \cup Files!Transcripts : f \in Files!Paths /\ f # g
            BY PathsAre, PathsApart
        <3>2. ASSUME NEW n \in Nodes PROVE disk'[<<"folder", n>>] = disk[<<"folder", n>>]
                                         \/ disk'[<<"folder", n>>].by = rows.node[n]
            <4>1. <<"folder", n>> \in Files!Paths /\ (o.op = "turn" => <<"folder", n>> # g)
                                                  /\ (o.op # "turn" /\ <<"folder", n>> = g => n = o.on)
                BY PathsAre, PathsApart
            <4> QED
                BY <1>2, <1>4, <1>6, <4>1
        <3> QED
            BY <1>6, <2>2, <3>1, <3>2 DEF Spared
    <2>4. ASSUME r.target = <<>> PROVE Stage(r, disk', atLock, rows)
        BY <2>2, <2>4 DEF Stage
    <2>5. ASSUME r.target # <<>> PROVE Stage(r, disk', atLock, rows)
        <3>1. /\ Guarded(r, rows) /\ SnapshotStage(r, disk, atLock) /\ TranscriptStage(r, disk, atLock)
              /\ FolderStage(r, disk, atLock, rows)
              /\ r.op \in {"create", "switch", "save"} => r.made = {}
              /\ Loaded(r, rows)
            BY <2>2, <2>5 DEF Stage
        <3>2. SnapshotStage(r, disk', atLock)
            <4>1. r.op = "review" => r.target # g
                BY <3>1, PathsApart DEF Guarded
            <4> QED
                BY <1>6, <3>1, <4>1 DEF SnapshotStage
        <3>3. TranscriptStage(r, disk', atLock)
            <4>1. r.op = "turn" => r.target # g /\ r.target \in Files!Paths
                BY <2>2, <3>1, PathsApart, PathsAre DEF Guarded
            <4>2. <<"aside", r.by>> # g /\ <<"aside", r.by>> \in Files!Paths
                BY <2>2, PathsApart, PathsAre
            <4>3. disk'[<<"aside", r.by>>] = disk[<<"aside", r.by>>] /\ (r.op = "turn" => disk'[r.target] = disk[r.target])
                BY <1>6, <4>1, <4>2
            <4> QED
                BY <3>1, <4>3 DEF TranscriptStage
        <3>4. FolderStage(r, disk', atLock, rows)
            <4> SUFFICES ASSUME r.op \in {"split", "medium", "import"} PROVE FolderStage(r, disk', atLock, rows)
                BY DEF FolderStage
            <4>1. r.target = <<"folder", r.on>> /\ r.target \in Files!Paths /\ r.on \in Nodes
                BY <2>2, <3>1, PathsAre DEF Guarded
            <4>2. disk[r.target] # Files!Absent => disk'[r.target] = disk[r.target]
                BY <1>6, <4>1, PathsApart
            <4>3. disk'[r.target] = disk[r.target] \/ (o.op = "create" /\ r.on = o.on /\ disk'[r.target].by = o.by)
                BY <1>4, <1>6, <4>1, PathsApart
            <4>4. disk'[r.target] = disk[r.target] \/ disk'[r.target].by = rows.node[r.on]
                BY <1>2, <4>3
            <4> QED
                BY <3>1, <4>2, <4>4 DEF FolderStage
        <3> QED
            BY <2>5, <3>1, <3>2, <3>3, <3>4 DEF Stage
    <2> QED
        BY <1>1, <2>1, <2>2, <2>3, <2>4, <2>5
<1> QED
    BY <1>1, <1>8, <1>9, <1>10, <1>11 DEF FilesInv, DocumentWhole

(* One gives the lock up, or dies.                                          *)
LEMMA FilesLeave ==
    ASSUME FilesInv, NEW p \in Processes, Files!Rollback(p) \/ Files!RestorePreamble(p) \/ Files!Crash(p)
    PROVE  FilesInv'
<1> PICK o : o = proc[p]
    OBVIOUS
<1>1. o.at \notin {"idle", "asked"} /\ UNCHANGED <<rows, disk, tries, atLock>> /\ o \in Operations
    BY DEF Files!Rollback, Files!RestorePreamble, Files!Crash, FilesInv, FilesTyped
<1>2. \A q \in Processes \ {p} : proc[q].at \in Locked => lock = q /\ lock' = q
    BY FilesBounds DEF FilesInv, Holders, Files!Rollback, Files!RestorePreamble, Files!Crash, Locked
<1>3. Files!Idle.at = "idle" /\ Files!Idle \in Operations
    <2>1. <<>> \in Targets
        BY DEF Targets
    <2> HIDE DEF Targets
    <2> QED
        BY <2>1 DEF Files!Idle, Operations
<1>4. PICK r \in Operations : /\ proc' = [proc EXCEPT ![p] = r] /\ r.at \in {"idle", "restoring"}
                              /\ r.at # "idle" => r.op = o.op /\ r.on = o.on /\ r.by = o.by
    <2> PICK r : r = [o EXCEPT !.at = "restoring"]
        OBVIOUS
    <2>1. r \in Operations /\ r.at = "restoring" /\ r.op = o.op /\ r.on = o.on /\ r.by = o.by
        BY <1>1 DEF Operations
    <2>2. proc' = [proc EXCEPT ![p] = r] \/ proc' = [proc EXCEPT ![p] = Files!Idle]
        BY DEF Files!Rollback, Files!RestorePreamble, Files!Crash
    <2> QED
        BY <1>3, <2>1, <2>2
<1>5. proc'[p] = r /\ \A q \in Processes \ {p} : proc'[q] = proc[q]
    BY <1>4 DEF FilesInv, FilesTyped
<1>6. FilesTyped'
    BY <1>1, <1>4, <1>5 DEF FilesInv, FilesTyped
<1>7. Numbers'
    <2>1. \A q \in Processes : proc'[q].at # "idle" => proc[q].at # "idle" /\ proc'[q].by = proc[q].by
        BY <1>1, <1>4, <1>5
    <2>2. \A q \in Processes : proc'[q].at \in {"asked", "begun"} => proc'[q] = proc[q]
        BY <1>4, <1>5
    <2> QED
        BY <1>1, <2>1, <2>2 DEF FilesInv, Numbers
<1>8. Holders'
    BY <1>1, <1>2, <1>4, <1>5 DEF FilesInv, Holders, Locked
<1>9. RowsMatch' /\ DocumentWhole'
    BY <1>1, <1>4, <1>5 DEF FilesInv, RowsMatch, DocumentWhole, Files!FilesMatchRows
<1> QED
    BY <1>6, <1>7, <1>8, <1>9 DEF FilesInv

(* Every step keeps it, and what is saved of a side document.                *)
LEMMA FilesStep ==
    FilesInv /\ [Files!Next]_(Files!vars) =>
        FilesInv' /\ rows.document \subseteq rows'.document /\ (rows'.document # {} => 0 \in rows'.document)
<1> SUFFICES ASSUME FilesInv, [Files!Next]_(Files!vars)
             PROVE  FilesInv' /\ rows.document \subseteq rows'.document /\ (rows'.document # {} => 0 \in rows'.document)
    OBVIOUS
<1>1. FilesInv' /\ rows.document \subseteq rows'.document
    <2>1. ASSUME NEW p \in Processes, NEW op \in AllOps \ {"turn"}, NEW n \in Nodes, Files!Ask(p, op, n)
          PROVE  FilesInv' /\ rows' = rows
        BY <2>1, FilesAsk DEF Files!Ask
    <2>2. ASSUME NEW p \in Processes, NEW t \in Turns, Files!Ask(p, "turn", t)
          PROVE  FilesInv' /\ rows' = rows
        BY <2>2, FilesAsk DEF Files!Ask, AllOps
    <2>3. ASSUME NEW p \in Processes, Files!Begin(p) PROVE FilesInv' /\ rows' = rows
        BY <2>3, FilesBegin DEF Files!Begin
    <2>4. ASSUME NEW p \in Processes, Files!Place(p) PROVE FilesInv' /\ rows' = rows
        BY <2>4, FilesPlace DEF Files!Place
    <2>5. ASSUME NEW p \in Processes, Files!MoveAside(p) PROVE FilesInv' /\ rows' = rows
        BY <2>5, FilesMoveAside DEF Files!MoveAside
    <2>6. ASSUME NEW p \in Processes, Files!BackUp(p) PROVE FilesInv' /\ rows' = rows
        BY <2>6, FilesBackUp DEF Files!BackUp
    <2>7. ASSUME NEW p \in Processes, Files!Fill(p) PROVE FilesInv' /\ rows' = rows
        BY <2>7, FilesFill DEF Files!Fill
    <2>8. ASSUME NEW p \in Processes, Files!CompletePreamble(p) \/ Files!RowsOnly(p) \/ Files!Loads(p)
          PROVE  FilesInv' /\ rows' = rows
        BY <2>8, FilesCompletePreamble DEF Files!CompletePreamble, Files!RowsOnly, Files!Loads
    <2>9. ASSUME NEW p \in Processes, Files!Commit(p) PROVE FilesInv' /\ rows.document \subseteq rows'.document
        BY <2>9, FilesCommit
    <2>10. ASSUME NEW p \in Processes, Files!AfterCommit(p) PROVE FilesInv' /\ rows' = rows
        BY <2>10, FilesAfterCommit DEF Files!AfterCommit
    <2>11. ASSUME NEW p \in Processes, Files!Undo(p) PROVE FilesInv' /\ rows' = rows
        BY <2>11, FilesUndo DEF Files!Undo
    <2>12. ASSUME NEW p \in Processes, Files!Rollback(p) \/ Files!RestorePreamble(p) \/ Files!Crash(p)
           PROVE  FilesInv' /\ rows' = rows
        BY <2>12, FilesLeave DEF Files!Rollback, Files!RestorePreamble, Files!Crash
    <2>13. ASSUME NEW p \in Processes, Files!Raise(p) PROVE FilesInv' /\ rows' = rows
        BY <2>13, FilesRaise DEF Files!Raise
    <2>14. CASE UNCHANGED Files!vars
        BY <2>14 DEF Files!vars, FilesInv, FilesTyped, Numbers, Holders, RowsMatch, DocumentWhole, Files!FilesMatchRows
    <2> QED
        BY <2>1, <2>2, <2>3, <2>4, <2>5, <2>6, <2>7, <2>8, <2>9, <2>10, <2>11, <2>12, <2>13, <2>14
        DEF Files!Next, Files!Operate
<1> QED
    BY <1>1 DEF FilesInv, DocumentWhole

LEMMA FilesHold == FilesInv => Files!FilesMatchRows /\ Files!RollbackSpares
<1> SUFFICES ASSUME FilesInv PROVE Files!RollbackSpares
    BY DEF FilesInv, RowsMatch
<1> SUFFICES ASSUME NEW p \in Processes, proc[p].at = "undone"
             PROVE  /\ \A f \in Files!Snapshots \cup Files!Transcripts : disk[f] = atLock[f]
                    /\ \A n \in Nodes : rows.node[n] # 0 =>
                          disk[<<"folder", n>>] = atLock[<<"folder", n>>] \/ disk[<<"folder", n>>].by = rows.node[n]
    BY DEF Files!RollbackSpares, Files!Made
<1> PICK o : o = proc[p]
    OBVIOUS
<1>1. /\ Spared(o, disk, atLock, rows) /\ Stage(o, disk, atLock, rows) /\ o.op \in AllOps
      /\ o.on \in (IF o.op = "turn" THEN Turns ELSE Nodes)
    BY HolderIs DEF Locked
<1>2. CASE o.target = <<>>
    <2>1. \A f \in Files!Snapshots \cup Files!Transcripts : f # <<>>
        BY DEF Files!Snapshots, Files!Transcripts
    <2>2. \A n \in Nodes : <<"folder", n>> # <<>>
        BY PathsApart
    <2> QED
        BY <1>1, <1>2, <2>1, <2>2 DEF Spared
<1>3. CASE o.target # <<>>
    <2>1. /\ Guarded(o, rows) /\ SnapshotStage(o, disk, atLock) /\ TranscriptStage(o, disk, atLock)
          /\ FolderStage(o, disk, atLock, rows)
        BY <1>1, <1>3 DEF Stage
    <2>2. ASSUME NEW f \in Files!Snapshots \cup Files!Transcripts, f = o.target PROVE disk[f] = atLock[f]
        <3>1. f \in Files!Paths /\ o.op \in {"review", "turn"}
            BY <1>1, <2>1, <2>2, PathsAre, PathsApart DEF Guarded, AllOps
        <3> QED
            BY <2>1, <2>2, <3>1 DEF SnapshotStage, TranscriptStage
    <2>3. ASSUME NEW n \in Nodes, rows.node[n] # 0, <<"folder", n>> = o.target
          PROVE  disk[<<"folder", n>>] = atLock[<<"folder", n>>] \/ disk[<<"folder", n>>].by = rows.node[n]
        <3>1. o.op = "medium" /\ n = o.on
            BY <1>1, <2>1, <2>3, PathsApart DEF Guarded, AllOps
        <3> QED
            BY <2>1, <2>3, <3>1 DEF FolderStage
    <2> QED
        BY <1>1, <2>2, <2>3 DEF Spared
<1> QED
    BY <1>2, <1>3

-----------------------------------------------------------------------------
(* Blocks within blocks.                                                   *)

Opened == [kind : {"transaction", "nested", "scope"}, saved : [Keys -> Nat], from : Nat,
           memo : UNION {[S -> Nat] : S \in SUBSET Keys}]
Callbacks == [key : Keys, held : Nat]

(* What the files of the rows go back to from F, when the callbacks after the  *)
(* first "from" are run.                                                       *)
Past(calls, k, since) == {i \in DOMAIN calls : i > since /\ calls[i].key = k}
Back(calls, F, since) ==
    [k \in Keys |-> IF Past(calls, k, since) = {} THEN F[k] ELSE calls[Blocks!Min(Past(calls, k, since))].held]

(* One transaction, and the blocks nested in it after it.                    *)
Nested(B) ==
    /\ B \in Seq(Opened)
    /\ \A j, k \in 1 .. Len(B) : B[j].kind = "transaction" /\ B[k].kind = "transaction" => j = k
    /\ \A k \in 1 .. Len(B) : B[k].kind = "nested" => \E j \in 1 .. Len(B) : j < k /\ B[j].kind = "transaction"
    /\ \A j, k \in 1 .. Len(B) : j < k /\ B[j].kind # "scope" /\ B[k].kind # "scope" => B[j].from <= B[k].from

(* A block that fails goes back to where it began: its rows and its files.    *)
Returns(b, C, F, calls) ==
    b.kind # "scope" => /\ b.from <= Len(calls) /\ Back(calls, F, b.from) = b.saved
                        /\ b.kind = "transaction" => b.from = 0 /\ b.saved = C

NoTransaction(B) == \A k \in 1 .. Len(B) : B[k].kind # "transaction"

BlocksInv ==
    /\ committed \in [Keys -> Nat] /\ working \in [Keys -> Nat] /\ file = working /\ writes \in Nat
    /\ callbacks \in Seq(Callbacks)
    /\ Nested(blocks)
    /\ \A k \in 1 .. Len(blocks) : Returns(blocks[k], committed, file, callbacks)
    /\ NoTransaction(blocks) => callbacks = <<>> /\ working = committed

LEMMA BlocksInit == Blocks!Init => BlocksInv
BY DEF Blocks!Init, BlocksInv, Nested, NoTransaction

(* Nothing to put back, or the earliest callback puts it back.               *)
Earliest(calls, F, since, k) ==
    \/ Past(calls, k, since) = {} /\ Back(calls, F, since)[k] = F[k]
    \/ \E m \in Past(calls, k, since) : /\ \A y \in Past(calls, k, since) : m <= y
                                        /\ Back(calls, F, since)[k] = calls[m].held

LEMMA BackIs ==
    ASSUME NEW calls \in Seq(Callbacks), NEW F \in [Keys -> Nat], NEW since \in Nat, NEW k \in Keys
    PROVE  Earliest(calls, F, since, k)
<1> USE DEF Earliest
<1> PICK S : S = Past(calls, k, since)
    OBVIOUS
<1>1. S \in SUBSET Nat
    BY LenProperties DEF Past
<1>2. Back(calls, F, since)[k] = IF S = {} THEN F[k] ELSE calls[Blocks!Min(S)].held
    BY DEF Back
<1>3. CASE S # {}
    <2>1. \E x \in S : \A y \in S : x <= y
        BY <1>1, <1>3, LeastNatural
    <2> PICK m : m = Blocks!Min(S)
        OBVIOUS
    <2>2. m \in S /\ \A y \in S : m <= y
        BY <2>1 DEF Blocks!Min
    <2> QED
        BY <1>2, <1>3, <2>2
<1> QED
    BY <1>2, <1>3

LEMMA BackTo ==
    ASSUME NEW calls \in Seq(Callbacks), NEW F \in [Keys -> Nat], NEW since \in Nat, NEW k \in Keys,
           NEW m \in Past(calls, k, since), \A y \in Past(calls, k, since) : m <= y
    PROVE  Back(calls, F, since)[k] = calls[m].held
<1>e. Earliest(calls, F, since, k)
    BY BackIs
<1>1. PICK n \in Past(calls, k, since) : /\ \A y \in Past(calls, k, since) : n <= y
                                         /\ Back(calls, F, since)[k] = calls[n].held
    BY <1>e DEF Earliest
<1>2. m \in Nat /\ n \in Nat
    BY LenProperties DEF Past
<1> QED
    BY <1>1, <1>2

LEMMA BackTyped ==
    ASSUME NEW calls \in Seq(Callbacks), NEW F \in [Keys -> Nat], NEW since \in Nat
    PROVE  Back(calls, F, since) \in [Keys -> Nat]
<1>1. ASSUME NEW k \in Keys PROVE Back(calls, F, since)[k] \in Nat
    <2>1. Earliest(calls, F, since, k)
        BY BackIs
    <2>2. \A m \in Past(calls, k, since) : calls[m] \in Callbacks
        BY LenProperties, ElementOfSeq DEF Past
    <2> QED
        BY <2>1, <2>2 DEF Callbacks, Earliest
<1>2. Back(calls, F, since) = [k \in Keys |-> Back(calls, F, since)[k]]
    BY DEF Back
<1> QED
    BY <1>1, <1>2

(* No callback after the last: nothing to put back.                          *)
LEMMA BackFromHere ==
    ASSUME NEW calls \in Seq(Callbacks), NEW F \in [Keys -> Nat]
    PROVE  Back(calls, F, Len(calls)) = F
<1>1. \A k \in Keys : Past(calls, k, Len(calls)) = {}
    BY LenProperties DEF Past
<1> QED
    BY <1>1 DEF Back

(* A write and its callback: everybody goes back to where it went.            *)
PastAWrite(calls, F, k, v, since, c) ==
    /\ calls \in Seq(Callbacks) /\ F \in [Keys -> Nat] /\ k \in Keys /\ v \in Nat
    /\ since \in Nat /\ since <= Len(calls) /\ c \in Callbacks /\ c.key = k /\ c.held = F[k]

LEMMA BackPastAWrite ==
    ASSUME NEW calls, NEW F, NEW k, NEW v, NEW since, NEW c, PastAWrite(calls, F, k, v, since, c)
    PROVE  Back(Append(calls, c), [F EXCEPT ![k] = v], since) = Back(calls, F, since)
<1> USE DEF PastAWrite
<1>y. PICK G : G = [F EXCEPT ![k] = v]
    OBVIOUS
<1>x. PICK more : more = Append(calls, c)
    OBVIOUS
<1>1. /\ more \in Seq(Callbacks) /\ Len(more) = Len(calls) + 1 /\ Len(calls) \in Nat
      /\ DOMAIN calls = 1 .. Len(calls) /\ DOMAIN more = 1 .. Len(more)
      /\ \A i \in 1 .. Len(calls) : more[i] = calls[i]
      /\ more[Len(calls) + 1] = c
    BY <1>x, AppendProperties, LenProperties
<1>g. G \in [Keys -> Nat]
    BY <1>y
<1>m. more \in Seq(Callbacks)
    BY <1>1
<1>2. ASSUME NEW j \in Keys PROVE Back(more, G, since)[j] = Back(calls, F, since)[j]
    <2>a. PICK S : S = Past(calls, j, since)
        OBVIOUS
    <2>b. PICK T : T = Past(more, j, since)
        OBVIOUS
    <2>s. \/ S = {} /\ Back(calls, F, since)[j] = F[j]
          \/ \E m \in S : (\A y \in S : m <= y) /\ Back(calls, F, since)[j] = calls[m].held
        <3>1. Earliest(calls, F, since, j)
            BY BackIs
        <3> QED
            BY <2>a, <3>1 DEF Earliest
    <2>t. \/ T = {} /\ Back(more, G, since)[j] = G[j]
          \/ \E m \in T : (\A y \in T : m <= y) /\ Back(more, G, since)[j] = more[m].held
        <3>1. Earliest(more, G, since, j)
            BY <1>m, <1>g, BackIs
        <3> QED
            BY <2>b, <3>1 DEF Earliest
    <2>m. ASSUME NEW m \in T, \A y \in T : m <= y PROVE Back(more, G, since)[j] = more[m].held
        <3>1. m \in Past(more, j, since) /\ \A y \in Past(more, j, since) : m <= y
            BY <2>b, <2>m
        <3> QED
            BY <1>m, <1>g, <3>1, BackTo
    <2>1. T = S \cup (IF j = k THEN {Len(calls) + 1} ELSE {}) /\ S \subseteq 1 .. Len(calls)
        BY <1>1, <2>a, <2>b DEF Past
    <2>2. CASE S # {}
        <3>1. PICK m \in S : (\A y \in S : m <= y) /\ Back(calls, F, since)[j] = calls[m].held
            BY <2>2, <2>s
        <3>2. m \in T /\ \A y \in T : m <= y
            BY <1>1, <2>1, <3>1
        <3>3. Back(more, G, since)[j] = more[m].held
            BY <2>m, <3>2
        <3> QED
            BY <1>1, <2>1, <3>1, <3>3
    <2>3. CASE S = {} /\ j = k
        <3>1. T = {Len(calls) + 1} /\ Back(calls, F, since)[j] = F[j]
            BY <2>1, <2>3, <2>s
        <3>2. Back(more, G, since)[j] = more[Len(calls) + 1].held
            BY <2>t, <3>1
        <3> QED
            BY <1>1, <2>3, <3>1, <3>2
    <2>4. CASE S = {} /\ j # k
        <3>1. T = {} /\ G[j] = F[j]
            BY <1>y, <2>1, <2>4
        <3>2. Back(more, G, since)[j] = G[j] /\ Back(calls, F, since)[j] = F[j]
            BY <2>s, <2>t, <2>4, <3>1
        <3> QED
            BY <3>1, <3>2
    <2> QED
        BY <2>2, <2>3, <2>4
<1>3. DOMAIN Back(more, G, since) = Keys /\ DOMAIN Back(calls, F, since) = Keys
    BY DEF Back
<1>4. Back(more, G, since) = [j \in Keys |-> Back(more, G, since)[j]]
    BY DEF Back
<1>5. Back(calls, F, since) = [j \in Keys |-> Back(calls, F, since)[j]]
    BY DEF Back
<1>6. Back(more, G, since) = Back(calls, F, since)
    BY <1>2, <1>4, <1>5
<1> QED
    BY <1>x, <1>y, <1>6

(* A block that went back: the blocks about it still go back to where they went. *)
LEMMA BackInTwo ==
    ASSUME NEW calls \in Seq(Callbacks), NEW F \in [Keys -> Nat],
           NEW since \in Nat, NEW at \in Nat, since <= at, at <= Len(calls)
    PROVE  Back(SubSeq(calls, 1, at), Back(calls, F, at), since) = Back(calls, F, since)
<1>y. PICK G : G = Back(calls, F, at)
    OBVIOUS
<1>x. PICK less : less = SubSeq(calls, 1, at)
    OBVIOUS
<1>1. DOMAIN calls = 1 .. Len(calls) /\ Len(calls) \in Nat /\ \A i \in 1 .. Len(calls) : calls[i] \in Callbacks
    BY LenProperties, ElementOfSeq
<1>2. less \in Seq(Callbacks) /\ Len(less) = at /\ \A i \in 1 .. at : less[i] = calls[i]
    BY <1>x, <1>1, SubSeqProperties
<1>3. DOMAIN less = 1 .. at
    BY <1>2, LenProperties
<1>g. G \in [Keys -> Nat]
    BY <1>y, BackTyped
<1>m. less \in Seq(Callbacks)
    BY <1>2
<1>4. ASSUME NEW j \in Keys PROVE Back(less, G, since)[j] = Back(calls, F, since)[j]
    <2>a. PICK S : S = Past(calls, j, since)
        OBVIOUS
    <2>b. PICK T : T = Past(less, j, since)
        OBVIOUS
    <2>c. PICK U : U = Past(calls, j, at)
        OBVIOUS
    <2>t. \/ T = {} /\ Back(less, G, since)[j] = G[j]
          \/ \E m \in T : (\A y \in T : m <= y) /\ Back(less, G, since)[j] = less[m].held
        <3>1. Earliest(less, G, since, j)
            BY <1>m, <1>g, BackIs
        <3> QED
            BY <2>b, <3>1 DEF Earliest
    <2>1. T = {i \in S : i <= at} /\ U = {i \in S : i > at} /\ S \subseteq 1 .. Len(calls)
        BY <1>1, <1>2, <1>3, <2>a, <2>b, <2>c DEF Past
    <2>2. CASE T # {}
        <3>1. PICK m \in T : (\A y \in T : m <= y) /\ Back(less, G, since)[j] = less[m].held
            BY <2>t, <2>2
        <3>2. m \in S /\ m \in 1 .. at /\ \A y \in S : m <= y
            BY <2>1, <3>1
        <3>3. Back(calls, F, since)[j] = calls[m].held
            <4>1. m \in Past(calls, j, since) /\ \A y \in Past(calls, j, since) : m <= y
                BY <2>a, <3>2
            <4> QED
                BY <4>1, BackTo
        <3> QED
            BY <1>2, <3>1, <3>2, <3>3
    <2>3. CASE T = {}
        <3>1. S = U /\ Back(less, G, since)[j] = G[j]
            <4>1. \A i \in S : i > at
                BY <2>1, <2>3
            <4>2. S = U
                BY <2>1, <4>1
            <4> QED
                BY <2>t, <2>3, <4>2
        <3>2. Back(calls, F, at)[j] = Back(calls, F, since)[j]
            <4>1. Back(calls, F, at)[j] = IF U = {} THEN F[j] ELSE calls[Blocks!Min(U)].held
                BY <2>c DEF Back
            <4>2. Back(calls, F, since)[j] = IF S = {} THEN F[j] ELSE calls[Blocks!Min(S)].held
                BY <2>a DEF Back
            <4> QED
                BY <3>1, <4>1, <4>2
        <3> QED
            BY <1>y, <3>1, <3>2
    <2> QED
        BY <2>2, <2>3
<1>5. Back(less, G, since) = [j \in Keys |-> Back(less, G, since)[j]]
    BY DEF Back
<1>6. Back(calls, F, since) = [j \in Keys |-> Back(calls, F, since)[j]]
    BY DEF Back
<1>7. Back(less, G, since) = Back(calls, F, since)
    BY <1>4, <1>5, <1>6
<1> QED
    BY <1>x, <1>y, <1>7

(* The same blocks, whatever they remember.                                  *)
SameBlocks(B, A) ==
    /\ A \in Seq(Opened) /\ Len(A) = Len(B)
    /\ \A k \in 1 .. Len(B) : A[k].kind = B[k].kind /\ A[k].saved = B[k].saved /\ A[k].from = B[k].from

LEMMA SameNested ==
    ASSUME NEW B, NEW A, Nested(B), SameBlocks(B, A)
    PROVE  Nested(A) /\ (NoTransaction(A) <=> NoTransaction(B))
BY DEF Nested, SameBlocks, NoTransaction

LEMMA ForgetsReads ==
    ASSUME blocks \in Seq(Opened)
    PROVE  SameBlocks(blocks, Blocks!ForgetReads(blocks))
<1>1. PICK A : A = Blocks!ForgetReads(blocks)
    OBVIOUS
<1>2. DOMAIN blocks = 1 .. Len(blocks) /\ Len(blocks) \in Nat /\ \A k \in 1 .. Len(blocks) : blocks[k] \in Opened
    BY LenProperties, ElementOfSeq
<1>3. A = [k \in 1 .. Len(blocks) |->
             IF k \in Blocks!CurrentScope THEN [blocks[k] EXCEPT !.memo = <<>>] ELSE blocks[k]]
    BY <1>1, <1>2 DEF Blocks!ForgetReads
<1>4. ASSUME NEW k \in 1 .. Len(blocks)
      PROVE  A[k] \in Opened /\ A[k].kind = blocks[k].kind /\ A[k].saved = blocks[k].saved /\ A[k].from = blocks[k].from
    <2>1. PICK b : b = [blocks[k] EXCEPT !.memo = <<>>]
        OBVIOUS
    <2>2. <<>> \in UNION {[S -> Nat] : S \in SUBSET Keys}
        <3>1. <<>> \in [{} -> Nat] /\ {} \in SUBSET Keys
            OBVIOUS
        <3> QED
            BY <3>1
    <2>3. b \in Opened /\ b.kind = blocks[k].kind /\ b.saved = blocks[k].saved /\ b.from = blocks[k].from
        <3>1. PICK M : M = UNION {[S -> Nat] : S \in SUBSET Keys}
            OBVIOUS
        <3>2. <<>> \in M /\ Opened = [kind : {"transaction", "nested", "scope"}, saved : [Keys -> Nat], from : Nat, memo : M]
            BY <2>2, <3>1 DEF Opened
        <3> QED
            BY <1>2, <2>1, <3>2
    <2> QED
        BY <1>2, <1>3, <2>1, <2>3
<1>5. A \in Seq(Opened) /\ Len(A) = Len(blocks)
    <2>1. A \in [1 .. Len(blocks) -> Opened]
        BY <1>3, <1>4
    <2> QED
        BY <1>2, <2>1
<1> QED
    BY <1>1, <1>4, <1>5 DEF SameBlocks

LEMMA LeavesOne ==
    ASSUME NEW B, Nested(B), B # <<>>, NEW A, A = SubSeq(B, 1, Len(B) - 1)
    PROVE  /\ Nested(A) /\ Len(B) \in Nat \ {0} /\ Len(A) = Len(B) - 1 /\ \A k \in 1 .. Len(A) : A[k] = B[k]
<1>1. B \in Seq(Opened) /\ Len(B) \in Nat \ {0} /\ \A k \in 1 .. Len(B) : B[k] \in Opened
    BY EmptySeq, LenProperties, ElementOfSeq DEF Nested
<1>2. Len(B) - 1 \in Nat /\ \A k \in 1 .. Len(B) - 1 : k \in 1 .. Len(B)
    BY <1>1
<1>3. A \in Seq(Opened) /\ Len(A) = Len(B) - 1 /\ \A k \in 1 .. Len(A) : A[k] = B[k]
    <2>1. PICK n : n = Len(B) - 1
        OBVIOUS
    <2>2. n \in Nat /\ A = SubSeq(B, 1, n) /\ \A k \in 1 .. n : B[k] \in Opened
        BY <1>1, <1>2, <2>1
    <2>3. A \in Seq(Opened) /\ Len(A) = (IF 1 <= n THEN n - 1 + 1 ELSE 0)
          /\ \A k \in 1 .. n - 1 + 1 : A[k] = B[1 + k - 1]
        BY <2>2, SubSeqProperties
    <2>4. Len(A) = n
        BY <2>2, <2>3
    <2>5. ASSUME NEW k \in 1 .. Len(A) PROVE A[k] = B[k]
        <3>1. k \in 1 .. n - 1 + 1 /\ 1 + k - 1 = k
            BY <2>2, <2>4
        <3> QED
            BY <2>3, <3>1
    <2> QED
        BY <2>1, <2>3, <2>4, <2>5
<1>4. \A k \in 1 .. Len(A) : k \in 1 .. Len(B)
    BY <1>2, <1>3
<1>5. ASSUME NEW k \in 1 .. Len(A), A[k].kind = "nested" PROVE \E j \in 1 .. Len(A) : j < k /\ A[j].kind = "transaction"
    <2>1. PICK j \in 1 .. Len(B) : j < k /\ B[j].kind = "transaction"
        BY <1>3, <1>4, <1>5 DEF Nested
    <2>2. j \in 1 .. Len(A)
        BY <1>1, <1>3, <2>1
    <2> QED
        BY <1>3, <2>1, <2>2
<1> QED
    BY <1>1, <1>3, <1>4, <1>5 DEF Nested

LEMMA OpensOne ==
    ASSUME NEW B, Nested(B), NEW b \in Opened, NEW n \in Nat,
           \A k \in 1 .. Len(B) : B[k].kind # "scope" => B[k].from <= n,
           b.kind = "transaction" => NoTransaction(B),
           b.kind = "nested" => ~ NoTransaction(B),
           b.kind # "scope" => b.from = n
    PROVE  /\ Nested(Append(B, b)) /\ Len(Append(B, b)) = Len(B) + 1
           /\ \A k \in 1 .. Len(B) : Append(B, b)[k] = B[k]
           /\ Append(B, b)[Len(B) + 1] = b
<1>1. PICK A : A = Append(B, b)
    OBVIOUS
<1>2. B \in Seq(Opened) /\ Len(B) \in Nat
    BY LenProperties DEF Nested
<1>3. A \in Seq(Opened) /\ Len(A) = Len(B) + 1 /\ (\A k \in 1 .. Len(B) : A[k] = B[k]) /\ A[Len(B) + 1] = b
    BY <1>1, <1>2, AppendProperties
<1>4. \A k \in 1 .. Len(A) : k \in 1 .. Len(B) \/ k = Len(B) + 1
    BY <1>2, <1>3
<1>5. \A k \in 1 .. Len(B) : k \in 1 .. Len(A) /\ k < Len(B) + 1
    BY <1>2, <1>3
<1>6. ASSUME NEW j \in 1 .. Len(A), NEW k \in 1 .. Len(A), A[j].kind = "transaction", A[k].kind = "transaction"
      PROVE  j = k
    BY <1>3, <1>4, <1>6 DEF Nested, NoTransaction
<1>7. ASSUME NEW k \in 1 .. Len(A), A[k].kind = "nested" PROVE \E j \in 1 .. Len(A) : j < k /\ A[j].kind = "transaction"
    <2>1. CASE k \in 1 .. Len(B)
        <3>1. PICK j \in 1 .. Len(B) : j < k /\ B[j].kind = "transaction"
            BY <1>3, <1>7, <2>1 DEF Nested
        <3> QED
            BY <1>3, <1>5, <3>1
    <2>2. CASE k = Len(B) + 1
        <3>1. PICK j \in 1 .. Len(B) : B[j].kind = "transaction"
            BY <1>3, <1>7, <2>2 DEF NoTransaction
        <3> QED
            BY <1>3, <1>5, <2>2, <3>1
    <2> QED
        BY <1>4, <2>1, <2>2
<1>8. ASSUME NEW j \in 1 .. Len(A), NEW k \in 1 .. Len(A), j < k, A[j].kind # "scope", A[k].kind # "scope"
      PROVE  A[j].from <= A[k].from
    <2>1. j \in 1 .. Len(B)
        BY <1>2, <1>3, <1>8
    <2>2. CASE k \in 1 .. Len(B)
        BY <1>3, <1>8, <2>1, <2>2 DEF Nested
    <2>3. CASE k = Len(B) + 1
        BY <1>3, <1>8, <2>1, <2>3
    <2> QED
        BY <1>4, <2>2, <2>3
<1>9. Nested(A)
    BY <1>3, <1>6, <1>7, <1>8 DEF Nested
<1> QED
    BY <1>1, <1>3, <1>9

LEMMA WritesInATransaction ==
    ASSUME BlocksInv, NEW k \in Keys, Blocks!Write(k)
    PROVE  BlocksInv'
<1>1. PICK c : c = [key |-> k, held |-> file[k]]
    OBVIOUS
<1>2. /\ writes' = writes + 1 /\ working' = [working EXCEPT ![k] = writes + 1]
      /\ file' = [file EXCEPT ![k] = writes + 1] /\ callbacks' = Append(callbacks, c)
      /\ UNCHANGED <<committed, blocks>> /\ ~ NoTransaction(blocks)
    BY <1>1, LenProperties DEF Blocks!Write, Blocks!ActiveTransaction, Blocks!In, NoTransaction, BlocksInv, Nested
<1>3. /\ writes \in Nat /\ working \in [Keys -> Nat] /\ file = working /\ callbacks \in Seq(Callbacks)
      /\ Len(callbacks) \in Nat
    BY LenProperties DEF BlocksInv
<1>4. c \in Callbacks /\ c.key = k /\ c.held = file[k]
    BY <1>1, <1>3 DEF Callbacks
<1>5. /\ callbacks' \in Seq(Callbacks) /\ Len(callbacks') = Len(callbacks) + 1
      /\ working' \in [Keys -> Nat] /\ file' = working' /\ writes' \in Nat
    BY <1>2, <1>3, <1>4, AppendProperties
<1>6. ASSUME NEW j \in 1 .. Len(blocks) PROVE Returns(blocks[j], committed, file', callbacks')
    <2> SUFFICES ASSUME blocks[j].kind # "scope"
                 PROVE  blocks[j].from <= Len(callbacks') /\ Back(callbacks', file', blocks[j].from) = blocks[j].saved
        BY DEF Returns, BlocksInv
    <2>1. blocks[j].from \in Nat /\ blocks[j].from <= Len(callbacks) /\ Back(callbacks, file, blocks[j].from) = blocks[j].saved
        <3>1. blocks[j] \in Opened
            BY ElementOfSeq DEF BlocksInv, Nested
        <3>2. blocks[j].from \in Nat
            BY <3>1 DEF Opened
        <3> QED
            BY <3>2 DEF Returns, BlocksInv
    <2>2. Back(Append(callbacks, c), [file EXCEPT ![k] = writes + 1], blocks[j].from) = Back(callbacks, file, blocks[j].from)
        <3>1. PICK F : F = file
            OBVIOUS
        <3>2. PICK calls : calls = callbacks
            OBVIOUS
        <3>3. PICK v : v = writes + 1
            OBVIOUS
        <3>4. PICK n : n = blocks[j].from
            OBVIOUS
        <3>5. /\ v \in Nat /\ F \in [Keys -> Nat] /\ calls \in Seq(Callbacks) /\ n \in Nat /\ n <= Len(calls)
              /\ c.held = F[k]
            BY <1>3, <1>4, <2>1, <3>1, <3>2, <3>3, <3>4
        <3>6. Back(Append(calls, c), [F EXCEPT ![k] = v], n) = Back(calls, F, n)
            <4>1. PastAWrite(calls, F, k, v, n, c)
                BY <1>1, <1>4, <3>5 DEF PastAWrite
            <4> QED
                BY <4>1, BackPastAWrite
        <3> QED
            BY <3>1, <3>2, <3>3, <3>4, <3>6
    <2> QED
        BY <1>2, <1>3, <1>5, <2>1, <2>2
<1> QED
    BY <1>2, <1>5, <1>6 DEF BlocksInv

(* Outside a transaction there is none to go back to.                        *)
LEMMA WritesAlone ==
    ASSUME BlocksInv, NEW k \in Keys, Blocks!WriteAlone(k) \/ Blocks!OtherWrites(k)
    PROVE  BlocksInv'
<1>1. /\ writes' = writes + 1 /\ committed' = [committed EXCEPT ![k] = writes + 1] /\ working' = committed'
      /\ file' = [file EXCEPT ![k] = writes + 1] /\ callbacks' = callbacks
      /\ NoTransaction(blocks)
    BY LenProperties DEF Blocks!WriteAlone, Blocks!OtherWrites, Blocks!ActiveTransaction, Blocks!In, NoTransaction,
        BlocksInv, Nested
<1>2. SameBlocks(blocks, blocks')
    <2>1. CASE Blocks!WriteAlone(k)
        BY <2>1, ForgetsReads DEF Blocks!WriteAlone, BlocksInv, Nested
    <2>2. CASE Blocks!OtherWrites(k)
        BY <2>2 DEF Blocks!OtherWrites, BlocksInv, Nested, SameBlocks
    <2> QED
        BY <2>1, <2>2
<1>3. Nested(blocks') /\ NoTransaction(blocks')
    BY <1>1, <1>2, SameNested DEF BlocksInv
<1>4. /\ writes \in Nat /\ working \in [Keys -> Nat] /\ file = working /\ working = committed /\ callbacks = <<>>
      /\ callbacks \in Seq(Callbacks)
    BY <1>1 DEF BlocksInv
<1>5. writes' \in Nat /\ committed' \in [Keys -> Nat] /\ file' = working'
    BY <1>1, <1>4
<1>6. \A j \in 1 .. Len(blocks') : blocks'[j].kind = "scope"
    <2>1. ASSUME NEW j \in 1 .. Len(blocks') PROVE blocks'[j].kind \in {"transaction", "nested", "scope"}
        <3>1. blocks'[j] \in Opened
            BY <1>3, ElementOfSeq DEF Nested
        <3> QED
            BY <3>1 DEF Opened
    <2> QED
        BY <1>3, <2>1 DEF Nested, NoTransaction
<1> QED
    BY <1>1, <1>3, <1>4, <1>5, <1>6 DEF BlocksInv, Returns

LEMMA BlocksRead ==
    ASSUME BlocksInv, NEW k \in Keys, Blocks!Read(k)
    PROVE  BlocksInv'
<1>1. /\ UNCHANGED <<committed, working, file, callbacks, writes>> /\ blocks \in Seq(Opened)
      /\ DOMAIN blocks = 1 .. Len(blocks) /\ committed[k] \in Nat
    BY LenProperties DEF Blocks!Read, BlocksInv, Nested
<1>2. PICK s \in Blocks!UsableScope :
        blocks' = [blocks EXCEPT ![s].memo = [j \in DOMAIN @ \cup {k} |-> IF j = k THEN committed[k] ELSE @[j]]]
    BY DEF Blocks!Read
<1>3. s \in 1 .. Len(blocks)
    BY <1>1 DEF Blocks!UsableScope, Blocks!CurrentScope, Blocks!Scopes
<1>4. PICK old : old = blocks[s].memo
    OBVIOUS
<1>5. PICK new : new = [j \in DOMAIN old \cup {k} |-> IF j = k THEN committed[k] ELSE old[j]]
    OBVIOUS
<1>6. blocks[s] \in Opened
    BY <1>1, <1>3, ElementOfSeq
<1>7. PICK M : M = UNION {[S -> Nat] : S \in SUBSET Keys}
    OBVIOUS
<1>8. Opened = [kind : {"transaction", "nested", "scope"}, saved : [Keys -> Nat], from : Nat, memo : M]
    BY <1>7 DEF Opened
<1>9. new \in M
    <2>1. old \in M
        BY <1>4, <1>6, <1>8
    <2>2. PICK S \in SUBSET Keys : old \in [S -> Nat]
        BY <1>7, <2>1
    <2>3. new \in [S \cup {k} -> Nat] /\ S \cup {k} \in SUBSET Keys
        BY <1>1, <1>5, <2>2
    <2> QED
        BY <1>7, <2>3
<1>10. PICK b : b = [blocks[s] EXCEPT !.memo = new]
    OBVIOUS
<1>11. b \in Opened /\ b.kind = blocks[s].kind /\ b.saved = blocks[s].saved /\ b.from = blocks[s].from
    BY <1>6, <1>8, <1>9, <1>10
<1>12. blocks' = [blocks EXCEPT ![s] = b]
    BY <1>2, <1>4, <1>5, <1>10
<1>13. SameBlocks(blocks, blocks')
    <2>1. /\ blocks' \in Seq(Opened) /\ Len(blocks') = Len(blocks)
          /\ \A j \in 1 .. Len(blocks) : blocks'[j] = IF j = s THEN b ELSE blocks[j]
        BY <1>1, <1>3, <1>11, <1>12, ExceptSeq
    <2> QED
        BY <1>11, <2>1 DEF SameBlocks
<1>14. Nested(blocks') /\ (NoTransaction(blocks') <=> NoTransaction(blocks))
    BY <1>13, SameNested DEF BlocksInv
<1>15. \A j \in 1 .. Len(blocks') : Returns(blocks'[j], committed, file, callbacks)
    BY <1>13 DEF SameBlocks, Returns, BlocksInv
<1> QED
    BY <1>1, <1>14, <1>15 DEF BlocksInv

LEMMA BlocksOpen ==
    ASSUME BlocksInv, Blocks!Begin \/ Blocks!OpenScope
    PROVE  BlocksInv'
<1>1. /\ UNCHANGED <<committed, working, file, callbacks, writes>> /\ blocks \in Seq(Opened) /\ Len(blocks) \in Nat
      /\ callbacks \in Seq(Callbacks) /\ Len(callbacks) \in Nat
      /\ working \in [Keys -> Nat] /\ committed \in [Keys -> Nat] /\ file = working /\ writes \in Nat
    BY LenProperties DEF Blocks!Begin, Blocks!OpenScope, BlocksInv, Nested
<1>2. PICK kind, B :
        /\ kind \in {"transaction", "nested", "scope"}
        /\ blocks' = Append(B, Blocks!Block(kind)) /\ SameBlocks(blocks, B)
        /\ kind = "transaction" => NoTransaction(blocks)
        /\ kind = "nested" => ~ NoTransaction(blocks)
    <2>1. CASE Blocks!Begin /\ NoTransaction(blocks)
        <3>1. blocks' = Append(Blocks!ForgetReads(blocks), Blocks!Block("transaction"))
            BY <1>1, <2>1, LenProperties DEF Blocks!Begin, Blocks!ActiveTransaction, Blocks!In, NoTransaction
        <3>2. SameBlocks(blocks, Blocks!ForgetReads(blocks))
            BY <1>1, ForgetsReads
        <3> QED
            BY <2>1, <3>1, <3>2, "nested" # "transaction"
    <2>2. CASE Blocks!Begin /\ ~ NoTransaction(blocks)
        <3>1. blocks' = Append(blocks, Blocks!Block("nested"))
            BY <1>1, <2>2, LenProperties DEF Blocks!Begin, Blocks!ActiveTransaction, Blocks!In, NoTransaction
        <3>2. SameBlocks(blocks, blocks)
            BY <1>1 DEF SameBlocks
        <3> QED
            BY <2>2, <3>1, <3>2
    <2>3. CASE Blocks!OpenScope
        <3>1. blocks' = Append(blocks, Blocks!Block("scope")) /\ SameBlocks(blocks, blocks)
            BY <1>1, <2>3 DEF Blocks!OpenScope, SameBlocks
        <3> QED
            BY <3>1
    <2> QED
        BY <2>1, <2>2, <2>3
<1>3. PICK b : b = Blocks!Block(kind)
    OBVIOUS
<1>4. b \in Opened /\ b.kind = kind /\ b.saved = working /\ b.from = Len(callbacks)
    <2>1. PICK M : M = UNION {[S -> Nat] : S \in SUBSET Keys}
        OBVIOUS
    <2>2. <<>> \in M
        <3>1. <<>> \in [{} -> Nat] /\ {} \in SUBSET Keys
            OBVIOUS
        <3> QED
            BY <2>1, <3>1
    <2>3. Opened = [kind : {"transaction", "nested", "scope"}, saved : [Keys -> Nat], from : Nat, memo : M]
        BY <2>1 DEF Opened
    <2> QED
        BY <1>1, <1>2, <1>3, <2>2, <2>3 DEF Blocks!Block
<1>5. Nested(B) /\ (NoTransaction(B) <=> NoTransaction(blocks)) /\ Len(B) = Len(blocks) /\ Len(B) \in Nat
    BY <1>1, <1>2, SameNested DEF BlocksInv, SameBlocks
<1>6. \A k \in 1 .. Len(B) : Returns(B[k], committed, file, callbacks)
    BY <1>2 DEF SameBlocks, Returns, BlocksInv
<1>7. \A k \in 1 .. Len(B) : B[k].kind # "scope" => B[k].from <= Len(callbacks)
    BY <1>6 DEF Returns
<1>8. /\ Nested(Append(B, b)) /\ Len(Append(B, b)) = Len(B) + 1
      /\ \A k \in 1 .. Len(B) : Append(B, b)[k] = B[k]
      /\ Append(B, b)[Len(B) + 1] = b
    BY <1>1, <1>2, <1>4, <1>5, <1>7, OpensOne
<1>9. blocks' = Append(B, b)
    BY <1>2, <1>3
<1>10. Returns(b, committed, file, callbacks)
    <2>1. Back(callbacks, file, Len(callbacks)) = working
        BY <1>1, BackFromHere
    <2>2. kind = "transaction" => Len(callbacks) = 0 /\ working = committed
        BY <1>2 DEF BlocksInv
    <2> QED
        BY <1>1, <1>4, <2>1, <2>2 DEF Returns
<1>11. \A k \in 1 .. Len(blocks') : Returns(blocks'[k], committed, file, callbacks)
    <2>1. \A k \in 1 .. Len(blocks') : k \in 1 .. Len(B) \/ k = Len(B) + 1
        BY <1>5, <1>8, <1>9
    <2> QED
        BY <1>6, <1>8, <1>9, <1>10, <2>1
<1>12. NoTransaction(blocks') => NoTransaction(blocks)
    <2>1. \A k \in 1 .. Len(B) : k \in 1 .. Len(blocks')
        BY <1>5, <1>8, <1>9
    <2>2. NoTransaction(blocks') => NoTransaction(B)
        BY <1>8, <1>9, <2>1 DEF NoTransaction
    <2> QED
        BY <1>5, <2>2
<1>13. Nested(blocks')
    BY <1>8, <1>9
<1> QED
    BY <1>1, <1>11, <1>12, <1>13 DEF BlocksInv

(* A block left with its work: what is about it stands.                       *)
LEMMA BlocksLeave ==
    ASSUME BlocksInv, Blocks!LeaveScope \/ Blocks!Release
    PROVE  BlocksInv'
<1>1. /\ UNCHANGED <<committed, working, file, callbacks, writes>> /\ blocks # <<>> /\ blocks[Len(blocks)].kind # "transaction"
      /\ blocks' = SubSeq(blocks, 1, Len(blocks) - 1)
    BY DEF Blocks!LeaveScope, Blocks!Release, Blocks!Top, Blocks!Outer, Blocks!Last, Blocks!Front
<1>2. /\ Nested(blocks') /\ Len(blocks) \in Nat \ {0} /\ Len(blocks') = Len(blocks) - 1
      /\ \A k \in 1 .. Len(blocks') : blocks'[k] = blocks[k]
    BY <1>1, LeavesOne DEF BlocksInv
<1>3. \A k \in 1 .. Len(blocks') : k \in 1 .. Len(blocks)
    BY <1>2
<1>4. \A k \in 1 .. Len(blocks) : k \in 1 .. Len(blocks') \/ k = Len(blocks)
    BY <1>2
<1>5. NoTransaction(blocks') => NoTransaction(blocks)
    BY <1>1, <1>2, <1>4 DEF NoTransaction
<1> QED
    BY <1>1, <1>2, <1>3, <1>5 DEF BlocksInv

(* A nested block undone: its rows and its files go back to where it began.   *)
LEMMA BlocksRollBackTo ==
    ASSUME BlocksInv, Blocks!RollBackTo
    PROVE  BlocksInv'
<1>1. PICK top : top = blocks[Len(blocks)]
    OBVIOUS
<1>2. PICK n : n = top.from
    OBVIOUS
<1>3. /\ blocks # <<>> /\ top.kind = "nested" /\ file' = Back(callbacks, file, n)
      /\ callbacks' = SubSeq(callbacks, 1, n) /\ working' = top.saved
      /\ blocks' = SubSeq(blocks, 1, Len(blocks) - 1) /\ UNCHANGED <<committed, writes>>
    BY <1>1, <1>2 DEF Blocks!RollBackTo, Blocks!Top, Blocks!Outer, Blocks!Last, Blocks!Front, Blocks!Undone, Blocks!Later,
        Back, Past
<1>4. /\ Nested(blocks') /\ Len(blocks) \in Nat \ {0} /\ Len(blocks') = Len(blocks) - 1
      /\ \A k \in 1 .. Len(blocks') : blocks'[k] = blocks[k]
    BY <1>3, LeavesOne DEF BlocksInv
<1>5. \A k \in 1 .. Len(blocks') : k \in 1 .. Len(blocks) /\ k < Len(blocks)
    BY <1>4
<1>6. Len(blocks) \in 1 .. Len(blocks)
    BY <1>4
<1>7. top \in Opened
    BY <1>1, <1>6, ElementOfSeq DEF BlocksInv, Nested
<1>8. /\ n \in Nat /\ n <= Len(callbacks) /\ Len(callbacks) \in Nat /\ callbacks \in Seq(Callbacks)
      /\ file \in [Keys -> Nat] /\ top.saved \in [Keys -> Nat] /\ file' = working'
    <2>1. n \in Nat /\ top.saved \in [Keys -> Nat]
        BY <1>2, <1>7 DEF Opened
    <2>2. Returns(top, committed, file, callbacks)
        BY <1>1, <1>6 DEF BlocksInv
    <2>3. n <= Len(callbacks) /\ Back(callbacks, file, n) = top.saved
        BY <1>2, <1>3, <2>2 DEF Returns
    <2> QED
        BY <1>3, <2>1, <2>3, LenProperties DEF BlocksInv
<1>9. callbacks' \in Seq(Callbacks) /\ Len(callbacks') = n
    <2>1. \A i \in 1 .. n : callbacks[i] \in Callbacks
        BY <1>8, ElementOfSeq
    <2>2. SubSeq(callbacks, 1, n) \in Seq(Callbacks) /\ Len(SubSeq(callbacks, 1, n)) = (IF 1 <= n THEN n - 1 + 1 ELSE 0)
        BY <1>8, <2>1, SubSeqProperties
    <2> QED
        BY <1>3, <1>8, <2>2
<1>10. ASSUME NEW k \in 1 .. Len(blocks') PROVE Returns(blocks'[k], committed', file', callbacks')
    <2>1. PICK b : b = blocks[k]
        OBVIOUS
    <2>2. blocks'[k] = b /\ Returns(b, committed, file, callbacks) /\ b \in Opened
        BY <1>4, <1>5, <2>1, ElementOfSeq DEF BlocksInv, Nested
    <2>3. ASSUME b.kind # "scope" PROVE b.from \in Nat /\ b.from <= n
        <3>1. b.from <= n
            BY <1>1, <1>2, <1>3, <1>5, <1>6, <2>1, <2>3 DEF BlocksInv, Nested
        <3> QED
            BY <2>2, <3>1 DEF Opened
    <2>4. ASSUME b.kind # "scope" PROVE Back(callbacks', file', b.from) = Back(callbacks, file, b.from)
        <3>1. PICK F : F = file
            OBVIOUS
        <3>2. PICK calls : calls = callbacks
            OBVIOUS
        <3>3. PICK m : m = b.from
            OBVIOUS
        <3>4. /\ F \in [Keys -> Nat] /\ calls \in Seq(Callbacks) /\ m \in Nat /\ n \in Nat /\ m <= n
              /\ n <= Len(calls)
            BY <1>8, <2>3, <2>4, <3>1, <3>2, <3>3
        <3>5. Back(SubSeq(calls, 1, n), Back(calls, F, n), m) = Back(calls, F, m)
            BY <3>4, BackInTwo
        <3> QED
            BY <1>3, <3>1, <3>2, <3>3, <3>5
    <2> QED
        BY <1>3, <1>9, <2>2, <2>3, <2>4 DEF Returns
<1>11. ~ NoTransaction(blocks')
    <2>1. PICK j \in 1 .. Len(blocks) : j < Len(blocks) /\ blocks[j].kind = "transaction"
        BY <1>1, <1>3, <1>6 DEF BlocksInv, Nested
    <2>2. j \in 1 .. Len(blocks')
        BY <1>4, <2>1
    <2> QED
        BY <1>4, <2>1, <2>2 DEF NoTransaction
<1> QED
    BY <1>3, <1>4, <1>8, <1>9, <1>10, <1>11 DEF BlocksInv

(* The transaction left: there is no other, and its rows are everybody's or   *)
(* nobody's.                                                                *)
LEMMA BlocksEnd ==
    ASSUME BlocksInv, Blocks!Commit \/ Blocks!RollBack
    PROVE  BlocksInv'
<1>1. PICK top : top = blocks[Len(blocks)]
    OBVIOUS
<1>2. PICK B : B = Blocks!ForgetReads(blocks)
    OBVIOUS
<1>3. /\ blocks # <<>> /\ top.kind = "transaction" /\ callbacks' = <<>> /\ UNCHANGED writes
      /\ blocks' = SubSeq(B, 1, Len(blocks) - 1)
    BY <1>1, <1>2 DEF Blocks!Commit, Blocks!RollBack, Blocks!Top, Blocks!Left, Blocks!Last
<1>4. SameBlocks(blocks, B) /\ Len(blocks) \in Nat \ {0}
    BY <1>2, <1>3, ForgetsReads, EmptySeq DEF BlocksInv, Nested
<1>5. Nested(B) /\ Len(B) = Len(blocks) /\ B # <<>>
    BY <1>3, <1>4, SameNested, EmptySeq DEF BlocksInv, SameBlocks
<1>6. Nested(blocks') /\ Len(blocks') = Len(blocks) - 1 /\ \A k \in 1 .. Len(blocks') : blocks'[k] = B[k]
    BY <1>3, <1>5, LeavesOne
<1>7. Len(blocks) \in 1 .. Len(blocks) /\ \A k \in 1 .. Len(blocks') : k \in 1 .. Len(blocks) /\ k # Len(blocks)
    BY <1>4, <1>6
<1>8. NoTransaction(blocks')
    <2>1. ASSUME NEW k \in 1 .. Len(blocks') PROVE blocks[k].kind # "transaction" /\ blocks'[k].kind = blocks[k].kind
        <3>1. k \in 1 .. Len(blocks) /\ k # Len(blocks) /\ blocks'[k] = B[k]
            BY <1>6, <1>7
        <3> QED
            BY <1>1, <1>3, <1>4, <1>7, <3>1 DEF BlocksInv, Nested, SameBlocks
    <2> QED
        BY <2>1 DEF NoTransaction
<1>9. \A j \in 1 .. Len(blocks') : blocks'[j].kind = "scope"
    <2>1. ASSUME NEW j \in 1 .. Len(blocks') PROVE blocks'[j].kind \in {"transaction", "nested", "scope"}
        <3>1. blocks'[j] \in Opened
            BY <1>6, ElementOfSeq DEF Nested
        <3> QED
            BY <3>1 DEF Opened
    <2> QED
        BY <1>6, <1>8, <2>1 DEF Nested, NoTransaction
<1>10. Returns(top, committed, file, callbacks)
    BY <1>1, <1>7 DEF BlocksInv
<1>11. /\ committed \in [Keys -> Nat] /\ working \in [Keys -> Nat] /\ file = working /\ writes \in Nat
    BY DEF BlocksInv
<1>12. committed' \in [Keys -> Nat] /\ working' = committed' /\ file' = working'
    <2>1. CASE Blocks!Commit
        BY <1>11, <2>1 DEF Blocks!Commit
    <2>2. CASE Blocks!RollBack
        <3>1. file' = Back(callbacks, file, 0) /\ working' = committed /\ committed' = committed
            BY <2>2 DEF Blocks!RollBack, Blocks!Undone, Blocks!Later, Back, Past
        <3> QED
            BY <1>3, <1>10, <1>11, <3>1 DEF Returns
    <2> QED
        BY <2>1, <2>2
<1>13. callbacks' \in Seq(Callbacks)
    BY <1>3, EmptySeq
<1> QED
    BY <1>3, <1>6, <1>9, <1>11, <1>12, <1>13 DEF BlocksInv, Returns

LEMMA BlocksStep == BlocksInv /\ [Blocks!Next]_(Blocks!vars) => BlocksInv'
<1> SUFFICES ASSUME BlocksInv, [Blocks!Next]_(Blocks!vars) PROVE BlocksInv'
    OBVIOUS
<1>1. CASE Blocks!Begin \/ Blocks!OpenScope
    BY <1>1, BlocksOpen
<1>2. ASSUME NEW k \in Keys, Blocks!Write(k) PROVE BlocksInv'
    BY <1>2, WritesInATransaction
<1>3. ASSUME NEW k \in Keys, Blocks!WriteAlone(k) \/ Blocks!OtherWrites(k) PROVE BlocksInv'
    BY <1>3, WritesAlone
<1>4. ASSUME NEW k \in Keys, Blocks!Read(k) PROVE BlocksInv'
    BY <1>4, BlocksRead
<1>5. CASE Blocks!LeaveScope \/ Blocks!Release
    BY <1>5, BlocksLeave
<1>6. CASE Blocks!RollBackTo
    BY <1>6, BlocksRollBackTo
<1>7. CASE Blocks!Commit \/ Blocks!RollBack
    BY <1>7, BlocksEnd
<1>8. CASE Blocks!Raise \/ Blocks!Catch \/ UNCHANGED Blocks!vars
    <2>1. UNCHANGED <<committed, working, file, callbacks, writes, blocks>>
        BY <1>8 DEF Blocks!Raise, Blocks!Catch, Blocks!vars
    <2> QED
        BY <2>1 DEF BlocksInv
<1> QED
    BY <1>1, <1>2, <1>3, <1>4, <1>5, <1>6, <1>7, <1>8 DEF Blocks!Next
-----------------------------------------------------------------------------
(* The memory: who is about to save it holds the lock, and has loaded what  *)
(* is there.                                                                *)

Listed(s) == \E S : s \in Seq(S)
Extends(s, t) == Listed(t) /\ Len(s) <= Len(t) /\ \A i \in 1 .. Len(s) : t[i] = s[i]

Remembers(m) ==
    /\ m = [verification |-> m.verification, debug |-> m.debug, notes |-> m.notes]
    /\ Listed(m.verification) /\ Listed(m.debug) /\ Listed(m.notes)
    /\ Kept!NoneTwice(m.verification) /\ Kept!NoneTwice(m.debug)

Commanded(p, c) ==
    /\ c = [doing |-> c.doing, todo |-> c.todo, state |-> c.state, loaded |-> c.loaded, draft |-> c.draft]
    /\ c.doing = "save" => Listed(c.state)
    /\ c.doing \in {"verification", "debug", "note"} => memoryLock = p /\ c.loaded = memory

MemoryInv ==
    /\ Listed(state) /\ Remembers(memory)
    /\ command = [p \in Processes |-> command[p]] /\ \A p \in Processes : Commanded(p, command[p])

(* What a step leaves of it.                                                *)
MemoryExtended ==
    /\ Extends(memory.verification, memory'.verification) /\ Extends(memory.debug, memory'.debug)
    /\ Extends(memory.notes, memory'.notes)

LEMMA MemoryInit == Kept!Init => MemoryInv
<1> SUFFICES ASSUME Kept!Init PROVE MemoryInv
    OBVIOUS
<1>1. Listed(<<>>) /\ Kept!NoneTwice(<<>>)
    <2>1. <<>> \in Seq({})
        OBVIOUS
    <2> QED
        BY <2>1 DEF Listed, Kept!NoneTwice
<1>2. Listed(state) /\ Remembers(memory)
    BY <1>1 DEF Kept!Init, Kept!Empty, Remembers
<1>3. command = [p \in Processes |-> Kept!Idle]
    BY DEF Kept!Init
<1>4. \A p \in Processes : Commanded(p, Kept!Idle)
    BY DEF Commanded, Kept!Idle
<1> QED
    BY <1>2, <1>3, <1>4 DEF MemoryInv

LEMMA ExtendsItself == \A s : Listed(s) => Extends(s, s)
BY DEF Extends, Listed

LEMMA ExtendsOn ==
    ASSUME NEW r, NEW s, NEW t, Listed(r), Extends(r, s), Extends(s, t)
    PROVE  Extends(r, t)
<1>1. Len(r) \in Nat /\ Len(s) \in Nat
    BY DEF Extends, Listed
<1> QED
    BY <1>1 DEF Extends

LEMMA AppendExtends ==
    ASSUME NEW s, Listed(s), NEW e
    PROVE  /\ Extends(s, Append(s, e)) /\ Len(Append(s, e)) = Len(s) + 1 /\ Append(s, e)[Len(s) + 1] = e
<1>1. PICK S : s \in Seq(S)
    BY DEF Listed
<1>2. s \in Seq(S \cup {e})
    BY <1>1
<1>3. Append(s, e) \in Seq(S \cup {e}) /\ Len(Append(s, e)) = Len(s) + 1 /\ Append(s, e)[Len(s) + 1] = e
      /\ \A i \in 1 .. Len(s) : Append(s, e)[i] = s[i]
    BY <1>2
<1> QED
    BY <1>2, <1>3 DEF Extends, Listed

LEMMA ExtendsIsPrefix ==
    ASSUME NEW s, NEW t, Listed(s), Extends(s, t)
    PROVE  Kept!IsPrefix(s, t)
<1>1. PICK S : s \in Seq(S)
    BY DEF Listed
<1>2. PICK T : t \in Seq(T)
    BY DEF Extends, Listed
<1>3. SubSeq(s, 1, Len(s)) = [i \in 1 .. Len(s) |-> s[i]] /\ SubSeq(t, 1, Len(s)) = [i \in 1 .. Len(s) |-> t[i]]
    BY <1>1, <1>2 DEF Extends
<1>4. [i \in 1 .. Len(s) |-> s[i]] = [i \in 1 .. Len(s) |-> t[i]] /\ Len(s) <= Len(t)
    BY DEF Extends
<1> QED
    BY <1>3, <1>4 DEF Kept!IsPrefix

(* What a history is after the first n markers were taken into it.          *)

TakesNext(history, kind, n) ==
    IF state[n].kind = kind THEN Kept!AddNew(history, Kept!RecordFor(state[n])) ELSE history
TakesOn(history, kind, m, f) ==
    f = [n \in 0 .. m |-> IF n = 0 THEN history ELSE TakesNext(f[n - 1], kind, n)]
TakenSoFar(history, kind) ==
    CHOOSE after : after = [n \in 0 .. Len(state) |->
        IF n = 0 THEN history
        ELSE IF state[n].kind = kind THEN Kept!AddNew(after[n - 1], Kept!RecordFor(state[n])) ELSE after[n - 1]]

LEMMA ItTakesOn ==
    ASSUME NEW history, NEW kind, NEW m \in Nat
    PROVE  \E f : TakesOn(history, kind, m, f)
<1> DEFINE Missing == {k \in Nat : ~ \E f : TakesOn(history, kind, k, f)}
<1> SUFFICES ASSUME Missing # {} PROVE FALSE
    OBVIOUS
<1>1. PICK x \in Missing : \A y \in Missing : x <= y
    <2>1. Missing \in SUBSET Nat
        OBVIOUS
    <2> HIDE DEF Missing
    <2> QED
        BY <2>1, LeastNatural
<1>2. x \in Nat /\ ~ \E f : TakesOn(history, kind, x, f)
    BY <1>1
<1>3. CASE x = 0
    <2>1. PICK f : f = [k \in 0 .. 0 |-> history]
        OBVIOUS
    <2>2. f = [k \in 0 .. 0 |-> IF k = 0 THEN history ELSE TakesNext(f[k - 1], kind, k)]
        BY <2>1
    <2> QED
        BY <1>2, <1>3, <2>2 DEF TakesOn
<1>4. CASE x # 0
    <2>1. x - 1 \in Nat /\ x - 1 < x
        BY <1>2, <1>4
    <2>2. x - 1 \notin Missing
        <3> HIDE DEF Missing
        <3> QED
            BY <1>1, <1>2, <2>1
    <2>3. PICK f : TakesOn(history, kind, x - 1, f)
        BY <2>1, <2>2
    <2>4. f = [k \in 0 .. x - 1 |-> IF k = 0 THEN history ELSE TakesNext(f[k - 1], kind, k)]
        BY <2>3 DEF TakesOn
    <2>5. PICK last : last = TakesNext(f[x - 1], kind, x)
        OBVIOUS
    <2>6. PICK g : g = [k \in 0 .. x |-> IF k < x THEN f[k] ELSE last]
        OBVIOUS
    <2>7. ASSUME NEW k \in 0 .. x
          PROVE  g[k] = IF k = 0 THEN history ELSE TakesNext(g[k - 1], kind, k)
        <3>1. CASE k = 0
            <4>1. g[k] = f[k] /\ k \in 0 .. x - 1
                BY <1>2, <2>1, <2>6, <3>1
            <4> QED
                BY <2>4, <3>1, <4>1
        <3>2. CASE k # 0 /\ k < x
            <4>1. g[k] = f[k] /\ g[k - 1] = f[k - 1] /\ k \in 0 .. x - 1
                BY <1>2, <2>6, <3>2
            <4> QED
                BY <2>4, <3>2, <4>1
        <3>3. CASE k = x
            <4>1. g[k] = last /\ g[k - 1] = f[x - 1]
                BY <1>2, <1>4, <2>1, <2>6, <3>3
            <4> QED
                BY <1>4, <2>5, <3>3, <4>1
        <3> QED
            BY <1>2, <3>1, <3>2, <3>3
    <2>8. g = [k \in 0 .. x |-> IF k = 0 THEN history ELSE TakesNext(g[k - 1], kind, k)]
        BY <2>6, <2>7
    <2> QED
        BY <1>2, <2>8 DEF TakesOn
<1> QED
    BY <1>3, <1>4

LEMMA TakenTakesOn ==
    ASSUME NEW history, NEW kind, Len(state) \in Nat
    PROVE  TakesOn(history, kind, Len(state), TakenSoFar(history, kind))
<1>1. \E f : TakesOn(history, kind, Len(state), f)
    BY ItTakesOn
<1>2. PICK f : f = [n \in 0 .. Len(state) |->
        IF n = 0 THEN history
        ELSE IF state[n].kind = kind THEN Kept!AddNew(f[n - 1], Kept!RecordFor(state[n])) ELSE f[n - 1]]
    BY <1>1, Zenon DEF TakesOn, TakesNext
<1>3. TakenSoFar(history, kind) = [n \in 0 .. Len(state) |->
        IF n = 0 THEN history
        ELSE IF state[n].kind = kind
             THEN Kept!AddNew(TakenSoFar(history, kind)[n - 1], Kept!RecordFor(state[n]))
             ELSE TakenSoFar(history, kind)[n - 1]]
    BY <1>2, Zenon DEF TakenSoFar
<1> QED
    BY <1>3, Zenon DEF TakesOn, TakesNext

(* A history that a record is added to stands, and has it once.             *)
LEMMA AddNewExtends ==
    ASSUME NEW s, Listed(s), Kept!NoneTwice(s), NEW e, NEW t, t = Kept!AddNew(s, e)
    PROVE  Extends(s, t) /\ Listed(t) /\ Kept!NoneTwice(t)
<1>1. CASE Kept!Contains(s, e)
    <2>1. t = s
        BY <1>1 DEF Kept!AddNew
    <2> QED
        BY <2>1, ExtendsItself
<1>2. CASE ~ Kept!Contains(s, e)
    <2>1. t = Append(s, e)
        BY <1>2 DEF Kept!AddNew
    <2>2. Extends(s, t) /\ Len(t) = Len(s) + 1 /\ t[Len(s) + 1] = e /\ Listed(t)
        BY <2>1, AppendExtends DEF Extends
    <2>3. \A i \in 1 .. Len(s) : s[i] # e
        BY <1>2 DEF Kept!Contains
    <2>4. DOMAIN s = 1 .. Len(s) /\ DOMAIN t = 1 .. Len(t) /\ Len(s) \in Nat
        BY <2>2 DEF Listed
    <2>5. ASSUME NEW i \in DOMAIN t, NEW j \in DOMAIN t, t[i] = t[j] PROVE i = j
        <3>1. \A k \in 1 .. Len(s) : t[k] = s[k]
            BY <2>2 DEF Extends
        <3>2. i \in 1 .. Len(s) /\ j \in 1 .. Len(s) => i = j
            BY <2>4, <2>5, <3>1 DEF Kept!NoneTwice
        <3>3. (i \in 1 .. Len(s) \/ i = Len(s) + 1) /\ (j \in 1 .. Len(s) \/ j = Len(s) + 1)
            BY <2>2, <2>4
        <3> QED
            BY <2>2, <2>3, <2>5, <3>1, <3>2, <3>3
    <2> QED
        BY <2>2, <2>5 DEF Kept!NoneTwice
<1> QED
    BY <1>1, <1>2

LEMMA TakenExtends ==
    ASSUME Listed(state), NEW history, Listed(history), Kept!NoneTwice(history), NEW kind,
           NEW t, t = Kept!TakenInto(history, kind)
    PROVE  Extends(history, t) /\ Listed(t) /\ Kept!NoneTwice(t)
<1>1. Len(state) \in Nat
    BY DEF Listed
<1>2. PICK after : after = TakenSoFar(history, kind)
    OBVIOUS
<1>3. t = after[Len(state)]
    BY <1>2, Zenon DEF Kept!TakenInto, TakenSoFar
<1>4. after = [n \in 0 .. Len(state) |-> IF n = 0 THEN history ELSE TakesNext(after[n - 1], kind, n)]
    <2>1. TakesOn(history, kind, Len(state), after)
        BY <1>1, <1>2, TakenTakesOn
    <2> QED
        BY <2>1, Zenon DEF TakesOn
<1> DEFINE Right(s) == Extends(history, s) /\ Listed(s) /\ Kept!NoneTwice(s)
           Wrong == {n \in 0 .. Len(state) : ~ Right(after[n])}
<1> SUFFICES ASSUME Wrong # {} PROVE FALSE
    BY <1>1, <1>3
<1>5. PICK x \in Wrong : \A y \in Wrong : x <= y
    <2>1. Wrong \in SUBSET Nat
        <3>1. \A m \in Nat : 0 .. m \subseteq Nat
            OBVIOUS
        <3>2. 0 .. Len(state) \subseteq Nat
            BY <1>1, <3>1
        <3> QED
            BY <3>2, Zenon
    <2> HIDE DEF Wrong
    <2> QED
        BY <2>1, LeastNatural
<1>6. x \in 0 .. Len(state) /\ x \in Nat /\ ~ Right(after[x])
    BY <1>1, <1>5
<1>7. CASE x = 0
    <2>1. after[x] = history
        BY <1>4, <1>6, <1>7
    <2> QED
        BY <1>6, <2>1, ExtendsItself
<1>8. CASE x # 0
    <2>1. x - 1 \in 0 .. Len(state) /\ x - 1 < x
        BY <1>1, <1>6, <1>8
    <2>2. x - 1 \notin Wrong
        <3> HIDE DEF Wrong
        <3> QED
            BY <1>5, <1>6, <2>1
    <2>3. PICK s : s = after[x - 1]
        OBVIOUS
    <2>4. Right(s)
        BY <2>1, <2>2, <2>3
    <2>5. PICK u : u = after[x]
        OBVIOUS
    <2>6. u = TakesNext(s, kind, x)
        BY <1>4, <1>6, <1>8, <2>3, <2>5
    <2>7. CASE u = s
        BY <1>6, <2>4, <2>5, <2>7
    <2>8. CASE u = Kept!AddNew(s, Kept!RecordFor(state[x]))
        <3>1. Extends(s, u) /\ Listed(u) /\ Kept!NoneTwice(u)
            BY <2>4, <2>8, AddNewExtends
        <3>2. Extends(history, u)
            BY <2>4, <3>1, ExtendsOn
        <3> QED
            BY <1>6, <2>5, <3>1, <3>2
    <2> QED
        BY <2>6, <2>7, <2>8 DEF TakesNext
<1> QED
    BY <1>7, <1>8
-----------------------------------------------------------------------------
(* The steps.                                                              *)

LEMMA MemoryUntouched ==
    ASSUME MemoryInv, memory' = memory, NEW now, state' = now, Listed(now),
           NEW p \in Processes, NEW c, command' = [command EXCEPT ![p] = c],
           Commanded(p, c)',
           memoryLock' = memoryLock \/ \A q \in Processes \ {p} : memoryLock # q
    PROVE  MemoryInv' /\ MemoryExtended
<1>1. command = [q \in Processes |-> command[q]] /\ Remembers(memory)
    BY DEF MemoryInv
<1>2. command' = [q \in Processes |-> command'[q]]
    BY <1>1
<1>3. ASSUME NEW q \in Processes PROVE Commanded(q, command[q])' 
    <2>1. CASE q = p
        <3>1. command'[q] = c
            BY <1>1, <2>1
        <3> QED
            BY <2>1, <3>1 DEF Commanded
    <2>2. CASE q # p
        <3>1. command'[q] = command[q] /\ Commanded(q, command[q])
            BY <1>1, <2>2 DEF MemoryInv
        <3> QED
            BY <2>2, <3>1 DEF Commanded
    <2> QED
        BY <2>1, <2>2
<1>4. Remembers(memory)' /\ MemoryExtended
    BY <1>1, ExtendsItself DEF Remembers, MemoryExtended
<1> QED
    BY <1>2, <1>3, <1>4 DEF MemoryInv

(* The commands that make markers, and the one that puts them in the state. *)
LEMMA MarkerSteps ==
    ASSUME MemoryInv, NEW p \in Processes,
           \/ Kept!Queue(p) \/ Kept!VerifyRun(p) \/ Kept!VerifyStale(p) \/ Kept!Revalidate(p)
           \/ Kept!FormalizeEdit(p) \/ Kept!BugScan(p) \/ Kept!Load(p) \/ Kept!Save(p)
    PROVE  MemoryInv' /\ MemoryExtended
<1>1. Commanded(p, command[p]) /\ Listed(state) /\ command = [q \in Processes |-> command[q]]
    BY DEF MemoryInv
<1>2. ASSUME NEW todo, Kept!Begins(p, todo) PROVE MemoryInv' /\ MemoryExtended
    <2>1. PICK c : c = [doing |-> "load", todo |-> todo, state |-> <<>>, loaded |-> Kept!Empty, draft |-> Kept!Empty]
        OBVIOUS
    <2>2. PICK idle : idle = Kept!Idle
        OBVIOUS
    <2>3. [idle EXCEPT !.doing = "load", !.todo = todo] = c
        <3>1. idle = [doing |-> "idle", todo |-> <<>>, state |-> <<>>, loaded |-> Kept!Empty, draft |-> Kept!Empty]
            BY <2>2 DEF Kept!Idle
        <3>2. PICK one : one = [idle EXCEPT !.doing = "load"]
            OBVIOUS
        <3>3. one = [doing |-> "load", todo |-> <<>>, state |-> <<>>, loaded |-> Kept!Empty, draft |-> Kept!Empty]
            BY <3>1, <3>2
        <3>4. [one EXCEPT !.todo = todo] = c
            BY <2>1, <3>3
        <3> QED
            BY <3>2, <3>4
    <2>4. command' = [command EXCEPT ![p] = c]
        <3>1. command' = [command EXCEPT ![p] = [idle EXCEPT !.doing = "load", !.todo = todo]]
            BY <1>2, <2>2, Zenon DEF Kept!Begins
        <3> QED
            BY <2>3, <3>1, Zenon
    <2>5. Commanded(p, c)'
        BY <2>1 DEF Commanded
    <2> QED
        BY <1>1, <1>2, <2>4, <2>5, MemoryUntouched DEF Kept!Begins
<1>3. CASE Kept!Load(p)
    <2>1. PICK c : c = [command[p] EXCEPT !.doing = "save", !.state = state]
        OBVIOUS
    <2>2. command' = [command EXCEPT ![p] = c]
        BY <1>1, <1>3, <2>1 DEF Kept!Load
    <2>3. c = [doing |-> "save", todo |-> command[p].todo, state |-> state, loaded |-> command[p].loaded,
               draft |-> command[p].draft]
        BY <1>1, <2>1 DEF Commanded
    <2>4. Commanded(p, c)'
        BY <1>1, <2>3 DEF Commanded
    <2> QED
        BY <1>1, <1>3, <2>2, <2>4, MemoryUntouched DEF Kept!Load
<1>4. CASE Kept!Save(p)
    <2>1. command[p].doing = "save" /\ memory' = memory /\ memoryLock' = memoryLock
        BY <1>4 DEF Kept!Save
    <2>2. PICK now : now = Append(command[p].state, Head(command[p].todo))
        OBVIOUS
    <2>3. state' = now /\ Listed(now)
        BY <1>1, <1>4, <2>1, <2>2, AppendExtends DEF Kept!Save, Commanded, Extends
    <2>4. PICK c : c = IF Len(command[p].todo) = 1 THEN Kept!Idle
                       ELSE [Kept!Idle EXCEPT !.doing = "load", !.todo = Tail(command[p].todo)]
        OBVIOUS
    <2>5. command' = [command EXCEPT ![p] = c]
        BY <1>4, <2>4 DEF Kept!Save
    <2>6. Commanded(p, c)'
        <3>1. PICK todo : todo = Tail(command[p].todo)
            OBVIOUS
        <3>2. c = Kept!Idle \/ c = [doing |-> "load", todo |-> todo, state |-> <<>>, loaded |-> Kept!Empty,
                                    draft |-> Kept!Empty]
            BY <2>4, <3>1 DEF Kept!Idle
        <3> QED
            BY <3>2 DEF Commanded, Kept!Idle
    <2> QED
        BY <2>1, <2>3, <2>5, <2>6, MemoryUntouched
<1>5. CASE Kept!Queue(p) \/ Kept!BugScan(p)
    BY <1>2, <1>5 DEF Kept!Queue, Kept!BugScan
<1>6. CASE Kept!VerifyRun(p)
    BY <1>2, <1>6 DEF Kept!VerifyRun
<1>7. CASE Kept!VerifyStale(p) \/ Kept!FormalizeEdit(p)
    BY <1>2, <1>7 DEF Kept!VerifyStale, Kept!FormalizeEdit
<1>8. CASE Kept!Revalidate(p)
    BY <1>2, <1>8 DEF Kept!Revalidate
<1> QED
    BY <1>3, <1>4, <1>5, <1>6, <1>7, <1>8

(* A transaction on the memory, from its load to its commit.                *)
LEMMA TransactionSteps ==
    ASSUME MemoryInv, NEW p \in Processes,
           \/ Kept!SyncVerification(p) \/ Kept!SyncDebug(p) \/ Kept!RecordNote(p)
           \/ Kept!RecordsReport(p) \/ Kept!Dies(p)
    PROVE  MemoryInv' /\ MemoryExtended
<1>1. Commanded(p, command[p]) /\ Listed(state) /\ command = [q \in Processes |-> command[q]]
    BY DEF MemoryInv
<1>2. ASSUME NEW doing \in {"verification", "debug", "note"}, Kept!Loads(p, doing), state' = state, memory' = memory
      PROVE  MemoryInv' /\ MemoryExtended
    <2>1. PICK c : c = [doing |-> doing, todo |-> <<>>, state |-> <<>>, loaded |-> memory, draft |-> memory]
        OBVIOUS
    <2>2. command' = [command EXCEPT ![p] = c] /\ memoryLock = "nobody" /\ memoryLock' = p
        <3>1. PICK idle : idle = Kept!Idle
            OBVIOUS
        <3>2. [idle EXCEPT !.doing = doing, !.loaded = memory, !.draft = memory] = c
            <4>1. idle = [doing |-> "idle", todo |-> <<>>, state |-> <<>>, loaded |-> Kept!Empty,
                          draft |-> Kept!Empty]
                BY <3>1 DEF Kept!Idle
            <4>2. PICK one : one = [idle EXCEPT !.doing = doing]
                OBVIOUS
            <4>3. one = [doing |-> doing, todo |-> <<>>, state |-> <<>>, loaded |-> Kept!Empty,
                         draft |-> Kept!Empty]
                BY <4>1, <4>2
            <4>4. PICK two : two = [one EXCEPT !.loaded = memory]
                OBVIOUS
            <4>5. two = [doing |-> doing, todo |-> <<>>, state |-> <<>>, loaded |-> memory, draft |-> Kept!Empty]
                BY <4>3, <4>4
            <4>6. [two EXCEPT !.draft = memory] = c
                BY <2>1, <4>5
            <4> QED
                BY <4>2, <4>4, <4>6
        <3>3. command' = [command EXCEPT ![p] = [idle EXCEPT !.doing = doing, !.loaded = memory, !.draft = memory]]
            BY <1>2, <3>1, Zenon DEF Kept!Loads
        <3>4. memoryLock = "nobody" /\ memoryLock' = p
            BY <1>2 DEF Kept!Loads, Kept!OneTransaction, Kept!Nobody
        <3> QED
            BY <3>2, <3>3, <3>4, Zenon
    <2>3. Commanded(p, c)'
        BY <1>2, <2>1, <2>2 DEF Commanded
    <2>4. \A q \in Processes : memoryLock # q
        BY <2>2, StoreAssumption
    <2> QED
        BY <1>1, <1>2, <2>2, <2>3, <2>4, MemoryUntouched
<1>3. CASE Kept!RecordsReport(p)
    <2>2. PICK s : command' = [command EXCEPT ![p].draft.debug = Append(@, s.id)]
        BY <1>3 DEF Kept!RecordsReport
    <2>3. PICK draft : draft = [command[p].draft EXCEPT !.debug = Append(@, s.id)]
        OBVIOUS
    <2>4. PICK c : c = [command[p] EXCEPT !.draft = draft]
        OBVIOUS
    <2>5. command' = [command EXCEPT ![p] = c]
        BY <1>1, <2>2, <2>3, <2>4, Zenon
    <2>6. c = [doing |-> command[p].doing, todo |-> command[p].todo, state |-> command[p].state,
               loaded |-> command[p].loaded, draft |-> draft]
        BY <1>1, <2>4 DEF Commanded
    <2>7. memory' = memory /\ memoryLock' = memoryLock /\ state' = state
        BY <1>3 DEF Kept!RecordsReport
    <2>8. Commanded(p, c)'
        BY <1>1, <2>6, <2>7 DEF Commanded
    <2> QED
        BY <1>1, <2>5, <2>7, <2>8, MemoryUntouched
<1>4. CASE Kept!Dies(p)
    <2>1. command' = [command EXCEPT ![p] = Kept!Idle] /\ memory' = memory /\ state' = state
          /\ memoryLock' = (IF memoryLock = p THEN Kept!Nobody ELSE memoryLock)
        BY <1>4 DEF Kept!Dies
    <2>2. PICK c : c = Kept!Idle
        OBVIOUS
    <2>3. Commanded(p, c)'
        BY <2>2 DEF Commanded, Kept!Idle
    <2>4. memoryLock' = memoryLock \/ \A q \in Processes \ {p} : memoryLock # q
        BY <2>1
    <2> QED
        BY <1>1, <2>1, <2>2, <2>3, <2>4, MemoryUntouched
<1> QED
    BY <1>2, <1>3, <1>4 DEF Kept!SyncVerification, Kept!SyncDebug, Kept!RecordNote

LEMMA SavedExtends ==
    ASSUME MemoryInv, NEW p \in Processes, command[p].doing \in {"verification", "debug", "note"},
           NEW m, m = Kept!Saved(p)
    PROVE  /\ Remembers(m) /\ Extends(memory.verification, m.verification) /\ Extends(memory.debug, m.debug)
           /\ Extends(memory.notes, m.notes)
<1>1. Commanded(p, command[p]) /\ Listed(state) /\ Remembers(memory)
    BY DEF MemoryInv
<1>2. command[p].loaded = memory
    BY <1>1 DEF Commanded
<1>3. CASE command[p].doing = "verification"
    <2>1. PICK t : t = Kept!TakenInto(memory.verification, "fragment")
        OBVIOUS
    <2>2. Extends(memory.verification, t) /\ Listed(t) /\ Kept!NoneTwice(t)
        BY <1>1, <2>1, TakenExtends DEF Remembers
    <2>3. m = [memory EXCEPT !.verification = t]
        BY <1>2, <1>3, <2>1 DEF Kept!Saved, Kept!TakesVerifications
    <2>4. m = [verification |-> t, debug |-> memory.debug, notes |-> memory.notes]
        BY <1>1, <2>3 DEF Remembers
    <2> QED
        BY <1>1, <2>2, <2>4, ExtendsItself DEF Remembers
<1>4. CASE command[p].doing = "debug"
    <2>1. PICK t : t = Kept!TakenInto(memory.debug, "scan")
        OBVIOUS
    <2>2. Extends(memory.debug, t) /\ Listed(t) /\ Kept!NoneTwice(t)
        BY <1>1, <2>1, TakenExtends DEF Remembers
    <2>3. m = [memory EXCEPT !.debug = t]
        BY <1>2, <1>4, <2>1 DEF Kept!Saved, Kept!TakesScans
    <2>4. m = [verification |-> memory.verification, debug |-> t, notes |-> memory.notes]
        BY <1>1, <2>3 DEF Remembers
    <2> QED
        BY <1>1, <2>2, <2>4, ExtendsItself DEF Remembers
<1>5. CASE command[p].doing = "note"
    <2>1. PICK t : t = Append(memory.notes, p)
        OBVIOUS
    <2>2. Extends(memory.notes, t) /\ Listed(t)
        BY <1>1, <2>1, AppendExtends DEF Remembers, Extends
    <2>3. m = [memory EXCEPT !.notes = t]
        BY <1>2, <1>5, <2>1 DEF Kept!Saved
    <2>4. m = [verification |-> memory.verification, debug |-> memory.debug, notes |-> t]
        BY <1>1, <2>3 DEF Remembers
    <2> QED
        BY <1>1, <2>2, <2>4, ExtendsItself DEF Remembers
<1> QED
    BY <1>3, <1>4, <1>5

LEMMA CommitStep ==
    ASSUME MemoryInv, NEW p \in Processes, Kept!Commit(p)
    PROVE  MemoryInv' /\ MemoryExtended
<1>1. /\ Commanded(p, command[p]) /\ command = [q \in Processes |-> command[q]]
      /\ command[p].doing \in {"verification", "debug", "note"} /\ state' = state /\ Listed(state)
    BY DEF MemoryInv, Kept!Commit
<1>2. PICK m : m = Kept!Saved(p)
    OBVIOUS
<1>3. memory' = m /\ command' = [command EXCEPT ![p] = Kept!Idle] /\ memoryLock = p
    BY <1>1, <1>2 DEF Kept!Commit, Commanded
<1>4. Remembers(memory') /\ MemoryExtended
    BY <1>1, <1>2, <1>3, SavedExtends DEF MemoryExtended
<1>5. ASSUME NEW q \in Processes PROVE Commanded(q, command[q])'
    <2>1. CASE q = p
        <3>1. command'[q] = Kept!Idle
            BY <1>1, <1>3, <2>1
        <3> QED
            BY <3>1 DEF Commanded, Kept!Idle
    <2>2. CASE q # p
        <3>1. command'[q] = command[q] /\ Commanded(q, command[q])
            BY <1>1, <1>3, <2>2 DEF MemoryInv
        <3>2. command[q].doing \notin {"verification", "debug", "note"}
            BY <1>3, <2>2, <3>1 DEF Commanded
        <3> QED
            BY <3>1, <3>2 DEF Commanded
    <2> QED
        BY <2>1, <2>2
<1>6. command' = [q \in Processes |-> command'[q]]
    BY <1>1, <1>3
<1> QED
    BY <1>1, <1>4, <1>5, <1>6 DEF MemoryInv, Remembers

LEMMA MemoryStep == MemoryInv /\ [Kept!Next]_(Kept!vars) => MemoryInv' /\ MemoryExtended
<1> SUFFICES ASSUME MemoryInv, [Kept!Next]_(Kept!vars) PROVE MemoryInv' /\ MemoryExtended
    OBVIOUS
<1>1. CASE UNCHANGED Kept!vars
    <2>1. Listed(memory.verification) /\ Listed(memory.debug) /\ Listed(memory.notes)
        BY DEF MemoryInv, Remembers
    <2>2. MemoryExtended
        BY <1>1, <2>1, ExtendsItself DEF Kept!vars, MemoryExtended
    <2> QED
        BY <1>1, <2>2 DEF Kept!vars, MemoryInv, Remembers, Commanded
<1> QED
    BY <1>1, MarkerSteps, TransactionSteps, CommitStep DEF Kept!Next

(* What is taken in stays, where it was and once.                           *)
MemoryStays ==
    /\ Kept!IsPrefix(memory.verification, memory'.verification) /\ Kept!NoneTwice(memory'.verification)
    /\ Kept!IsPrefix(memory.debug, memory'.debug) /\ Kept!NoneTwice(memory'.debug)
    /\ Kept!IsPrefix(memory.notes, memory'.notes)

LEMMA MemoryHolds == MemoryInv /\ [Kept!Next]_(Kept!vars) => MemoryStays
<1> SUFFICES ASSUME MemoryInv, MemoryInv', MemoryExtended PROVE MemoryStays
    BY MemoryStep
<1>1. Listed(memory.verification) /\ Listed(memory.debug) /\ Listed(memory.notes)
    BY DEF MemoryInv, Remembers
<1>2. Kept!NoneTwice(memory'.verification) /\ Kept!NoneTwice(memory'.debug)
    BY DEF MemoryInv, Remembers
<1>3. PICK now : now = memory'
    OBVIOUS
<1>4. /\ Kept!IsPrefix(memory.verification, now.verification) /\ Kept!IsPrefix(memory.debug, now.debug)
      /\ Kept!IsPrefix(memory.notes, now.notes)
    BY <1>1, <1>3, ExtendsIsPrefix DEF MemoryExtended
<1> QED
    BY <1>2, <1>3, <1>4 DEF MemoryStays
-----------------------------------------------------------------------------
(* The whole store: one part moves, and the others stay as they are.       *)

StoreInv ==
    CloudInv /\ HomeInv /\ BundleInv /\ DoubtsInv /\ TurnInv /\ FilesInv /\ BlocksInv /\ MemoryInv

LEMMA StoreInit == Init => StoreInv
BY CloudInit, HomeInit, BundleInit, DoubtsInit, TurnInit, FilesInit, BlocksInit, MemoryInit
   DEF Init, StoreInv

(* A part takes a step of its own or none.                                  *)
PartMoves ==
    /\ [Files!Next]_(Files!vars) /\ [Blocks!Next]_(Blocks!vars) /\ [Cloud!Next]_(Cloud!vars)
    /\ [Home!Next]_(Home!vars) /\ [Bundle!Next]_(Bundle!vars)
    /\ [Turn!Next]_(Turn!vars) /\ [Doubts!Next]_(Doubts!vars) /\ [Kept!Next]_(Kept!vars)

LEMMA EachPartMoves == [Next]_vars => PartMoves
<1>1. CASE UNCHANGED vars
    <2>1. UNCHANGED <<fileVars, blockVars, turnVars, fogVars, listVars, memoryVars, bundleVars, doubtVars>>
        BY <1>1 DEF vars
    <2>2. UNCHANGED Files!vars
        BY <2>1 DEF fileVars, Files!vars
    <2>3. UNCHANGED Blocks!vars
        BY <2>1 DEF blockVars, Blocks!vars
    <2>4. UNCHANGED Turn!vars
        BY <2>1 DEF turnVars, Turn!vars
    <2>5. UNCHANGED Cloud!vars
        BY <2>1 DEF fogVars, Cloud!vars
    <2>6. UNCHANGED Home!vars
        BY <2>1 DEF listVars, Home!vars
    <2>7. UNCHANGED Kept!vars
        BY <2>1 DEF memoryVars, Kept!vars
    <2>8. UNCHANGED Bundle!vars
        BY <2>1 DEF bundleVars, Bundle!vars
    <2>9. UNCHANGED Doubts!vars
        BY <2>1, Zenon DEF doubtVars, Doubts!vars
    <2> QED
        BY <2>2, <2>3, <2>4, <2>5, <2>6, <2>7, <2>8, <2>9 DEF PartMoves
<1> USE DEF PartMoves, fileVars, blockVars, turnVars, fogVars, listVars, memoryVars, bundleVars, doubtVars,
            Files!vars, Blocks!vars, Cloud!vars, Home!vars, Bundle!vars, Turn!vars, Doubts!vars, Kept!vars
<1>2. CASE Next
    <2>1. CASE Files!Next /\ UNCHANGED <<blockVars, turnVars, fogVars, listVars, memoryVars, bundleVars, doubtVars>>
        BY <2>1, Zenon
    <2>2. CASE Blocks!Next /\ UNCHANGED <<fileVars, turnVars, fogVars, listVars, memoryVars, bundleVars, doubtVars>>
        BY <2>2, Zenon
    <2>3. CASE Turn!Next /\ UNCHANGED <<fileVars, blockVars, fogVars, listVars, memoryVars, bundleVars, doubtVars>>
        BY <2>3, Zenon
    <2>4. CASE Cloud!Next /\ UNCHANGED <<fileVars, blockVars, turnVars, listVars, memoryVars, bundleVars, doubtVars>>
        BY <2>4, Zenon
    <2>5. CASE Home!Next /\ UNCHANGED <<fileVars, blockVars, turnVars, fogVars, memoryVars, bundleVars, doubtVars>>
        BY <2>5, Zenon
    <2>6. CASE Kept!Next /\ UNCHANGED <<fileVars, blockVars, turnVars, fogVars, listVars, bundleVars, doubtVars>>
        BY <2>6, Zenon
    <2>7. CASE Bundle!Next /\ UNCHANGED <<fileVars, blockVars, turnVars, fogVars, listVars, memoryVars, doubtVars>>
        BY <2>7, Zenon
    <2>8. CASE Doubts!Next /\ UNCHANGED <<fileVars, blockVars, turnVars, fogVars, listVars, memoryVars, bundleVars>>
        BY <2>8, Zenon
    <2> HIDE DEF PartMoves, fileVars, blockVars, turnVars, fogVars, listVars, memoryVars, bundleVars, doubtVars
    <2> QED
        BY <1>2, <2>1, <2>2, <2>3, <2>4, <2>5, <2>6, <2>7, <2>8 DEF Next
<1> QED
    BY <1>1, <1>2

LEMMA TurnStays == TurnInv /\ UNCHANGED Turn!vars => TurnInv'
BY DEF TurnInv, Turn!vars, Turn!Idle, Turn!Nothing

LEMMA DoubtsStay == DoubtsInv /\ UNCHANGED Doubts!vars => DoubtsInv'
BY DEF DoubtsInv, Doubts!vars

LEMMA StoreStep == StoreInv /\ [Next]_vars => StoreInv'
<1> SUFFICES ASSUME StoreInv, PartMoves PROVE StoreInv'
    BY EachPartMoves
<1>1. CloudInv' /\ HomeInv' /\ BundleInv' /\ FilesInv' /\ BlocksInv' /\ MemoryInv'
    BY CloudStep, HomeStep, BundleStep, FilesStep, BlocksStep, MemoryStep DEF StoreInv, PartMoves
<1>2. TurnInv' /\ DoubtsInv'
    BY TurnStep, TurnStays, DoubtsStep, DoubtsStay DEF StoreInv, PartMoves
<1> QED
    BY <1>1, <1>2 DEF StoreInv

\* Whatever fails, whoever crashes and whoever waits, what the lock's holder has in
\* hand and what is committed agree, in the files, the blocks and every other part.
THEOREM StoreHolds == Spec => []StoreInv
BY StoreInit, StoreStep, PTL DEF Spec

\* Every committed row has its file, a rollback spares the files of others, and blocks
\* within blocks leave each file as its row says (Storage.transaction, rollback_callbacks).
THEOREM FilesFollowTheRows == Spec => []FilesFollow
<1>1. StoreInv => FilesFollow
    BY FilesHold DEF StoreInv, FilesFollow, BlocksInv, Blocks!FilesFollowRows
<1> QED
    BY <1>1, StoreHolds, PTL

\* Two processes at once make one node of an item of the fog, and lose no change of the
\* Home page's list (crystallize_fog_item, the list's lock).
THEOREM OneGoesAfterAnother == Spec => []OneAfterAnother
<1>1. StoreInv => OneAfterAnother
    BY CloudHolds DEF StoreInv, HomeInv, OneAfterAnother
<1> QED
    BY <1>1, StoreHolds, PTL

\* An import is whole, and what was there before it stands (import_bundle).
THEOREM ImportsStand == Spec => []ImportStands
<1>1. StoreInv => ImportStands
    BY BundleHolds DEF StoreInv, ImportStands
<1> QED
    BY <1>1, StoreHolds, PTL

\* A side document's saves and the transcript of a turn that ended stay as they were
\* recorded, whoever fails or dies after (save_side_document, record_agent_turn).
THEOREM RecordsAreKept == Spec => KeptForGood
<1>1. StoreInv /\ [Next]_vars =>
          [rows.document \subseteq rows'.document /\ (rows'.document # {} => 0 \in rows'.document)]_(Files!vars)
    BY FilesStep, EachPartMoves DEF StoreInv, PartMoves
<1>2. StoreInv /\ [Next]_vars =>
          [/\ others' = {}
           /\ ended' # Turn!Nothing => transcript' = ended'
           /\ \A p \in Processes :
                 recorder[p].aside # Turn!Nothing /\ recorder'[p] = Turn!Idle /\ ended' = Turn!Nothing
                 /\ transcript' # transcript => transcript' = recorder[p].aside]_(Turn!vars)
    BY TurnStep, EachPartMoves DEF StoreInv, PartMoves, TurnKept
<1> QED
    BY <1>1, <1>2, StoreHolds, PTL DEF Spec, KeptForGood, Files!DocumentKept, Turn!RecordKept

\* What became of a Challenge is undone by a checkout alone, and a withdrawal or a fix
\* not even by that (challenge_status).
THEOREM ChallengesStayEnded == Spec => EndingsStand
<1>1. StoreInv /\ [Next]_vars =>
          [\A c \in Ids : Doubts!Status(c) \notin {"unraised", "open"} =>
              Doubts!Status(c)' = Doubts!Status(c)
              \/ (checkout' /\ Doubts!Status(c) \notin {"withdrawn", "fixed"})]_(Doubts!vars)
    BY DoubtsStep, EachPartMoves DEF StoreInv, PartMoves, EndingsKept, Ended
<1> QED
    BY <1>1, StoreHolds, PTL DEF Spec, EndingsStand, Doubts!EndingsStand

\* The memory forgets no record, and takes in none twice: every transaction lengthens its
\* lists by what they have not (synchronize_verification_history, add_debug_report).
THEOREM MemoryIsKept == Spec => MemoryKept
<1>1. StoreInv /\ [Next]_vars => [MemoryStays]_(Kept!vars)
    BY MemoryHolds, EachPartMoves DEF StoreInv, PartMoves
<1> QED
    BY <1>1, StoreHolds, PTL DEF Spec, MemoryKept, Kept!NothingForgotten, MemoryStays
=============================================================================

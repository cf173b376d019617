------------------------ MODULE ReviewHistoryProofs ------------------------
(***************************************************************************)
(* What ReviewHistory guarantees for every set of processes, nodes and     *)
(* decisions and every list of rows to move.  As long as every line of     *)
(* every file can be read, a decision whose transaction committed counts:  *)
(* its line is written before the commit, and no later step, failure or    *)
(* crash takes it back.  Torn writes or not, the decisions that count are  *)
(* in one order, and the files implement DecisionLog.                      *)
(***************************************************************************)
EXTENDS ReviewHistory, FiniteSetTheorems, TLAPS

\* A file is a sequence of lines, whatever is in them.
Files == /\ lines = [n \in Nodes |-> lines[n]]
         /\ \A n \in Nodes : \E S : lines[n] \in Seq(S)

\* A file that ends in part of a line has a line nobody can read.
CutIsUnreadable == \A n \in cutShort \cap Nodes : Unreadable(n) # {}

Processing ==
  /\ pc \in [Processes -> States]
  /\ entry \in [Processes -> [id : NewIds, node : Nodes] \cup {NoEntry}]
  /\ \A p \in Processes : pc[p] = "deciding" => entry[p].node \in Nodes

\* What was committed counts, and so does what is about to be.
LinesBeforeCommit ==
  /\ committed \subseteq Recorded
  /\ \A p \in Processes : pc[p] = "written" => entry[p].id \in Recorded

WholeLines ==
  /\ Files
  /\ CutIsUnreadable
  /\ Processing
  /\ AllReadable => LinesBeforeCommit

\* Every line there was stays where it was.
LinesKept ==
  \A m \in Nodes : \A i \in DOMAIN lines[m] : i \in DOMAIN lines'[m] /\ lines'[m][i] = lines[m][i]

\* A line is written at the end of a file, and is there.
Appended(n, line) == lines' = [lines EXCEPT ![n] = Append(@, line)]
Ends(n, line) == n \in Nodes => \E i \in DOMAIN lines'[n] : lines'[n][i] = line

\* A line appended to one file moves no other, in it or elsewhere.
LEMMA AppendKeeps ==
  ASSUME Files, NEW n, NEW line, Appended(n, line)
  PROVE  Files' /\ LinesKept /\ Ends(n, line)
<1> USE DEF Appended, Ends
<1>1. CASE n \notin Nodes
  <2>1. lines' = lines
    BY <1>1 DEF Files
  <2> QED
    BY <1>1, <2>1 DEF Files, LinesKept
<1>2. CASE n \in Nodes
  <2>1. PICK S : lines[n] \in Seq(S)
    BY <1>2 DEF Files
  <2>2. lines[n] \in Seq(S \cup {line}) /\ line \in S \cup {line}
    BY <2>1
  <2>3. /\ Append(lines[n], line) \in Seq(S \cup {line})
        /\ DOMAIN lines[n] \subseteq DOMAIN Append(lines[n], line)
        /\ \A i \in DOMAIN lines[n] : Append(lines[n], line)[i] = lines[n][i]
        /\ Len(lines[n]) + 1 \in DOMAIN Append(lines[n], line)
        /\ Append(lines[n], line)[Len(lines[n]) + 1] = line
    BY <2>2
  <2>4. /\ lines'[n] = Append(lines[n], line)
        /\ \A m \in Nodes : m # n => lines'[m] = lines[m]
        /\ lines' = [m \in Nodes |-> lines'[m]]
    BY <1>2 DEF Files
  <2>5. Files'
    <3>1. ASSUME NEW m \in Nodes PROVE \E T : lines'[m] \in Seq(T)
      <4>1. CASE m = n
        BY <2>3, <2>4, <4>1
      <4>2. CASE m # n
        BY <2>4, <4>2 DEF Files
      <4> QED
        BY <4>1, <4>2
    <3> QED
      BY <2>4, <3>1 DEF Files
  <2>6. LinesKept
    BY <2>3, <2>4 DEF LinesKept
  <2> QED
    BY <2>3, <2>4, <2>5, <2>6
<1> QED
  BY <1>1, <1>2

\* So every decision that counted counts still, and no unreadable line goes away.
LEMMA KeptLinesCount ==
  ASSUME LinesKept
  PROVE  /\ Recorded \subseteq Recorded'
         /\ \A n \in Nodes : Unreadable(n) # {} => Unreadable(n)' # {}
         /\ AllReadable' => AllReadable
<1>1. Entries \subseteq Entries'
  BY DEF LinesKept, Entries
<1>2. \A n \in Nodes : Unreadable(n) \subseteq Unreadable(n)'
  BY DEF LinesKept, Unreadable
<1> QED
  BY <1>1, <1>2 DEF Recorded, AllReadable

\* append_line keeps every line, and counts where the file ends in a whole one.
LEMMA AppendLineKeeps ==
  ASSUME Files, CutIsUnreadable, NEW n, NEW id, NEW seq, AppendLine(n, id, seq)
  PROVE  /\ Files' /\ CutIsUnreadable'
         /\ Recorded \subseteq Recorded' /\ (AllReadable' => AllReadable)
         /\ n \in Nodes /\ AllReadable => id \in Recorded'
<1> DEFINE line == [id |-> id, seq |-> seq, readable |-> n \notin cutShort]
<1>1. Appended(n, line) /\ cutShort' = cutShort \ {n}
  BY DEF AppendLine, Appended
<1> HIDE DEF line
<1>2. Files' /\ LinesKept /\ Ends(n, line)
  BY <1>1, AppendKeeps
<1>3. CutIsUnreadable'
  BY <1>1, <1>2, KeptLinesCount DEF CutIsUnreadable
<1>4. ASSUME n \in Nodes, AllReadable PROVE id \in Recorded'
  <2>1. line.readable /\ line.id = id
    BY <1>4 DEF line, CutIsUnreadable, AllReadable
  <2>2. line \in Entries'
    BY <1>2, <1>4, <2>1 DEF Entries, Ends
  <2> QED
    BY <2>1, <2>2 DEF Recorded
<1> QED
  BY <1>2, <1>3, <1>4, KeptLinesCount

\* An append that stops part way leaves what was there, and what nobody can read.
LEMMA AppendPartKeeps ==
  ASSUME Files, CutIsUnreadable, NEW n, NEW id, NEW seq, AppendPart(n, id, seq)
  PROVE  /\ Files' /\ CutIsUnreadable'
         /\ Recorded \subseteq Recorded' /\ (AllReadable' => AllReadable)
<1> DEFINE line == [id |-> id, seq |-> seq, readable |-> FALSE]
<1>1. Appended(n, line) /\ cutShort' = cutShort \cup {n}
  BY DEF AppendPart, Appended
<1>2. ~line.readable
  OBVIOUS
<1> HIDE DEF line
<1>3. Files' /\ LinesKept /\ Ends(n, line)
  BY <1>1, AppendKeeps
<1>4. n \in Nodes => Unreadable(n)' # {}
  BY <1>2, <1>3 DEF Unreadable, Ends
<1> QED
  BY <1>1, <1>3, <1>4, KeptLinesCount DEF CutIsUnreadable

\* No step takes back a line, or commits a decision before its line is written.
LEMMA WholeLinesStep ==
  ASSUME WholeLines, [Next]_vars
  PROVE  WholeLines'
<1> USE DEF WholeLines, Processing, LinesBeforeCommit
<1>1. ASSUME UNCHANGED fileVars
      PROVE  Files' /\ CutIsUnreadable' /\ Recorded' = Recorded /\ (AllReadable' => AllReadable)
  BY <1>1 DEF fileVars, Files, Recorded, Entries, CutIsUnreadable, Unreadable, AllReadable
<1>2. ASSUME NEW p \in Processes, Open(p) PROVE WholeLines'
  BY <1>1, <1>2 DEF Open, dbVars, States
<1>3. ASSUME NEW p \in Processes, NEW id \in NewIds, NEW n \in Nodes, Begin(p, id, n)
      PROVE  WholeLines'
  BY <1>1, <1>3 DEF Begin, dbVars, States
<1>4. ASSUME NEW p \in Processes, MoveRow(p) PROVE WholeLines'
  <2>1. Files' /\ CutIsUnreadable' /\ Recorded \subseteq Recorded' /\ (AllReadable' => AllReadable)
    BY <1>4, AppendLineKeeps DEF MoveRow
  <2> QED
    BY <1>4, <2>1 DEF MoveRow, dbVars
<1>5. ASSUME NEW p \in Processes, FinishMove(p) PROVE WholeLines'
  BY <1>1, <1>5 DEF FinishMove, States
<1>6. ASSUME NEW p \in Processes, CommitMove(p) PROVE WholeLines'
  BY <1>1, <1>6 DEF CommitMove, dbVars, States
<1>7. ASSUME NEW p \in Processes, Write(p) PROVE WholeLines'
  <2>1. /\ Files' /\ CutIsUnreadable' /\ Recorded \subseteq Recorded' /\ (AllReadable' => AllReadable)
        /\ AllReadable => entry[p].id \in Recorded'
    BY <1>7, AppendLineKeeps DEF Write
  <2> QED
    BY <1>7, <2>1 DEF Write, dbVars, States
<1>8. ASSUME NEW p \in Processes, Commit(p) PROVE WholeLines'
  BY <1>1, <1>8 DEF Commit, States
<1>9. ASSUME NEW p \in Processes, GitCommit(p) PROVE WholeLines'
  BY <1>1, <1>9 DEF GitCommit, dbVars, States, NoEntry
<1>10. ASSUME NEW p \in Processes, Fail(p) PROVE WholeLines'
  <2>1. Files' /\ CutIsUnreadable' /\ Recorded \subseteq Recorded' /\ (AllReadable' => AllReadable)
    <3>1. CASE UNCHANGED fileVars
      BY <1>1, <3>1
    <3>2. CASE ~UNCHANGED fileVars
      <4>1. \E n, id : AppendPart(n, id, NextSeq)
        BY <1>10, <3>2 DEF Fail, WriteFails, CommitFails, Crash
      <4> QED
        BY <4>1, AppendPartKeeps
    <3> QED
      BY <3>1, <3>2
  <2>2. \E state \in States \ {"deciding", "written"} : pc' = [pc EXCEPT ![p] = state]
    BY <1>10 DEF Fail, WriteFails, CommitFails, Crash, Rollback, States
  <2>3. entry' = [entry EXCEPT ![p] = NoEntry] /\ committed' = committed
    BY <1>10 DEF Fail, WriteFails, CommitFails, Crash, Rollback, dbVars
  <2> QED
    BY <2>1, <2>2, <2>3
<1>11. CASE UNCHANGED vars
  BY <1>1, <1>11 DEF vars, procVars, dbVars
<1> HIDE DEF WholeLines
<1> QED
  BY <1>2, <1>3, <1>4, <1>5, <1>6, <1>7, <1>8, <1>9, <1>10, <1>11 DEF Next, Finish

\* While every line can be read, a decision its caller was told of counts from
\* then on, however processes interleave, fail and die.
THEOREM CommittedIsCounted == Spec => []CountedWhileReadable
<1>1. Init => WholeLines
  BY DEF Init, WholeLines, Files, CutIsUnreadable, Processing, LinesBeforeCommit, States
<1>2. WholeLines /\ [Next]_vars => WholeLines'
  BY WholeLinesStep
<1>3. WholeLines => CountedWhileReadable
  BY DEF WholeLines, LinesBeforeCommit, CountedWhileReadable, CommittedCounts
<1> QED
  BY <1>1, <1>2, <1>3, PTL DEF Spec

-----------------------------------------------------------------------------
(* One order: an append is made by whoever holds the write lock, of what   *)
(* no file has yet, with a place after every place there is.               *)

Exclusive ==
  /\ pc \in [Processes -> States]
  /\ entry = [p \in Processes |-> entry[p]]
  /\ todo \in [Processes -> SUBSET DOMAIN Legacy]
  /\ \A p \in Processes : HoldsLock(p) => writer = p

\* What a process is about to append is in no file.
NotYetRecorded ==
  \A p \in Processes :
    /\ pc[p] = "deciding" => entry[p].id \in NewIds \ Recorded
    /\ pc[p] = "migrating" => \A i \in todo[p] : Legacy[i].id \notin Recorded

\* The places are numbers, and there is a last one.
Ordered ==
  /\ \A l \in Entries : l.seq \in Nat
  /\ Entries = {} \/ \E k \in Entries : \A l \in Entries : l.seq <= k.seq
  /\ OneOrder

HistoryInv == Files /\ Exclusive /\ NotYetRecorded /\ Ordered

\* next_seq is after every place there is.
LEMMA NextSeqIsAfter ==
  ASSUME Ordered
  PROVE  NextSeq \in Nat /\ \A l \in Entries : l.seq < NextSeq
<1>1. CASE Entries = {}
  BY <1>1 DEF NextSeq
<1>2. CASE Entries # {}
  <2> DEFINE S == {l.seq : l \in Entries}
             last == Max(S)
  <2>1. \E m \in S : \A k \in S : m >= k
    <3>1. PICK k \in Entries : \A l \in Entries : l.seq <= k.seq
      BY <1>2 DEF Ordered
    <3>2. \A l \in Entries : k.seq >= l.seq
      BY <3>1 DEF Ordered
    <3> QED
      BY <3>2
  <2>2. last \in S /\ \A k \in S : last >= k
    BY <2>1 DEF Max
  <2>3. S \subseteq Nat
    BY DEF Ordered
  <2>4. NextSeq = 1 + last
    BY <1>2 DEF NextSeq
  <2> HIDE DEF S, last
  <2>5. NextSeq \in Nat /\ \A k \in S : k < NextSeq
    BY <2>2, <2>3, <2>4
  <2> QED
    BY <2>5 DEF S
<1> QED
  BY <1>1, <1>2

\* A line appended to a file adds one entry when it reads, and none when it does not.
LEMMA AppendedEntries ==
  ASSUME Files, NEW n, NEW line, Appended(n, line)
  PROVE  Entries' = IF n \in Nodes /\ line.readable THEN Entries \cup {line} ELSE Entries
<1>1. Files' /\ LinesKept /\ Ends(n, line)
  BY AppendKeeps
<1>2. Entries \subseteq Entries'
  BY <1>1 DEF LinesKept, Entries
<1>3. n \in Nodes /\ line.readable => line \in Entries'
  BY <1>1 DEF Entries, Ends
<1>4. ASSUME NEW m \in Nodes, NEW i \in DOMAIN lines'[m]
      PROVE  lines'[m][i] \in {lines[m][j] : j \in DOMAIN lines[m]} \/ (m = n /\ lines'[m][i] = line)
  <2>1. CASE m # n
    BY <2>1 DEF Files, Appended
  <2>2. CASE m = n
    <3>1. PICK S : lines[n] \in Seq(S)
      BY <2>2 DEF Files
    <3>2. lines'[n] = Append(lines[n], line)
      BY <2>2 DEF Files, Appended
    <3>3. lines[n] \in Seq(S \cup {line})
      BY <3>1
    <3>4. /\ DOMAIN Append(lines[n], line) = 1 .. Len(lines[n]) + 1
          /\ DOMAIN lines[n] = 1 .. Len(lines[n]) /\ Len(lines[n]) \in Nat
          /\ \A j \in 1 .. Len(lines[n]) : Append(lines[n], line)[j] = lines[n][j]
          /\ Append(lines[n], line)[Len(lines[n]) + 1] = line
      BY <3>3
    <3> QED
      BY <2>2, <3>2, <3>4
  <2> QED
    BY <2>1, <2>2
<1>5. Entries' \subseteq Entries \cup (IF n \in Nodes /\ line.readable THEN {line} ELSE {})
  BY <1>4 DEF Entries
<1> QED
  BY <1>2, <1>3, <1>5

\* append_line of what no file has keeps the order.
LEMMA AppendLineOrders ==
  ASSUME Files, Ordered, NEW n, NEW id, id \notin Recorded, AppendLine(n, id, NextSeq)
  PROVE  Files' /\ Ordered' /\ Recorded' \subseteq Recorded \cup {id}
<1> DEFINE line == [id |-> id, seq |-> NextSeq, readable |-> n \notin cutShort]
<1>1. Appended(n, line)
  BY DEF AppendLine, Appended
<1>2. line.id = id /\ line.seq = NextSeq
  OBVIOUS
<1> HIDE DEF line
<1>3. Files'
  BY <1>1, AppendKeeps
<1>4. Entries' = Entries \/ Entries' = Entries \cup {line}
  BY <1>1, AppendedEntries
<1>5. Recorded' \subseteq Recorded \cup {id}
  BY <1>2, <1>4 DEF Recorded
<1>6. Ordered'
  <2>1. CASE Entries' = Entries
    BY <2>1 DEF Ordered, OneOrder
  <2>2. CASE Entries' = Entries \cup {line}
    <3>1. NextSeq \in Nat /\ \A l \in Entries : l.seq < NextSeq /\ l.seq \in Nat /\ l.id # id
      BY NextSeqIsAfter DEF Ordered, Recorded
    <3>2. /\ \A l \in Entries' : l.seq \in Nat
          /\ \E k \in Entries' : \A l \in Entries' : l.seq <= k.seq
      BY <1>2, <2>2, <3>1
    <3>3. OneOrder'
      BY <1>2, <2>2, <3>1 DEF Ordered, OneOrder
    <3> QED
      BY <3>2, <3>3 DEF Ordered
  <2> QED
    BY <1>4, <2>1, <2>2
<1> QED
  BY <1>3, <1>5, <1>6

\* An append that stops part way adds no entry.
LEMMA AppendPartAddsNone ==
  ASSUME Files, NEW n, NEW id, NEW seq, AppendPart(n, id, seq)
  PROVE  Files' /\ Entries' = Entries
<1> DEFINE line == [id |-> id, seq |-> seq, readable |-> FALSE]
<1>1. Appended(n, line)
  BY DEF AppendPart, Appended
<1>2. ~line.readable
  OBVIOUS
<1> HIDE DEF line
<1> QED
  BY <1>1, <1>2, AppendKeeps, AppendedEntries

\* Only the process that holds the write lock appends, and only what it said it would.
LEMMA HistoryStep ==
  ASSUME HistoryInv, [Next]_vars
  PROVE  HistoryInv'
<1> USE IdsAssumption
<1>1. \A p, q \in Processes : HoldsLock(p) /\ HoldsLock(q) => p = q
  BY DEF HistoryInv, Exclusive
<1>2. ASSUME UNCHANGED fileVars
      PROVE  Files' /\ Ordered' /\ Entries' = Entries /\ Recorded' = Recorded
  <2>1. Entries' = Entries
    BY <1>2 DEF fileVars, Entries
  <2> QED
    BY <1>2, <2>1 DEF HistoryInv, fileVars, Files, Recorded, Ordered, OneOrder
<1>3. ASSUME NEW p \in Processes, Open(p) PROVE HistoryInv'
  <2>1. Exclusive'
    BY <1>3, <1>1 DEF HistoryInv, Exclusive, Open, HoldsLock, States, Unmoved
  <2>2. NotYetRecorded'
    BY <1>2, <1>3 DEF HistoryInv, Exclusive, NotYetRecorded, Open, Unmoved
  <2> QED
    BY <1>2, <1>3, <2>1, <2>2 DEF Open, HistoryInv
<1>4. ASSUME NEW p \in Processes, NEW id \in NewIds, NEW n \in Nodes, Begin(p, id, n)
      PROVE  HistoryInv'
  <2>1. Exclusive'
    BY <1>4 DEF HistoryInv, Exclusive, Begin, HoldsLock, States
  <2>2. id \notin Recorded
    BY <1>4 DEF Begin, Recorded, Entries, Written
  <2>3. NotYetRecorded'
    BY <1>2, <1>4, <2>2 DEF HistoryInv, Exclusive, NotYetRecorded, Begin
  <2> QED
    BY <1>2, <1>4, <2>1, <2>3 DEF Begin, HistoryInv
<1>5. ASSUME NEW p \in Processes, MoveRow(p) PROVE HistoryInv'
  <2>1. PICK i \in todo[p] : /\ AppendLine(Legacy[i].node, Legacy[i].id, NextSeq)
                             /\ todo' = [todo EXCEPT ![p] = @ \ {i}]
    BY <1>5 DEF MoveRow
  <2>2. Files' /\ Ordered' /\ Recorded' \subseteq Recorded \cup {Legacy[i].id}
    BY <1>5, <2>1, AppendLineOrders DEF HistoryInv, NotYetRecorded, MoveRow
  <2>3. Exclusive'
    BY <1>5, <2>1 DEF HistoryInv, Exclusive, MoveRow, HoldsLock
  <2>4. \A j \in todo[p] \ {i} : Legacy[j].id # Legacy[i].id
    BY <2>1, LegacyAssumption DEF HistoryInv, Exclusive
  <2>5. \A q \in Processes \ {p} : pc[q] # "deciding" /\ pc[q] # "migrating"
    BY <1>1, <1>5 DEF MoveRow, HoldsLock
  <2>6. NotYetRecorded'
    BY <1>5, <2>1, <2>2, <2>4, <2>5 DEF HistoryInv, Exclusive, NotYetRecorded, MoveRow
  <2> QED
    BY <2>2, <2>3, <2>6 DEF HistoryInv
<1>6. ASSUME NEW p \in Processes, FinishMove(p) PROVE HistoryInv'
  <2>1. Exclusive' /\ NotYetRecorded'
    BY <1>1, <1>2, <1>6 DEF HistoryInv, Exclusive, NotYetRecorded, FinishMove, HoldsLock, States
  <2> QED
    BY <1>2, <1>6, <2>1 DEF FinishMove, HistoryInv
<1>7. ASSUME NEW p \in Processes, CommitMove(p) PROVE HistoryInv'
  <2>1. Exclusive' /\ NotYetRecorded'
    BY <1>2, <1>7 DEF HistoryInv, Exclusive, NotYetRecorded, CommitMove, HoldsLock, States
  <2> QED
    BY <1>2, <1>7, <2>1 DEF CommitMove, HistoryInv
<1>8. ASSUME NEW p \in Processes, Write(p) PROVE HistoryInv'
  <2>1. Files' /\ Ordered' /\ Recorded' \subseteq Recorded \cup {entry[p].id}
    BY <1>8, AppendLineOrders DEF HistoryInv, NotYetRecorded, Write
  <2>2. Exclusive'
    BY <1>8 DEF HistoryInv, Exclusive, Write, HoldsLock, States
  <2>3. \A q \in Processes \ {p} : pc[q] # "deciding" /\ pc[q] # "migrating"
    BY <1>1, <1>8 DEF Write, HoldsLock
  <2>4. NotYetRecorded'
    BY <1>8, <2>3 DEF HistoryInv, Exclusive, NotYetRecorded, Write
  <2> QED
    BY <2>1, <2>2, <2>4 DEF HistoryInv
<1>9. ASSUME NEW p \in Processes, Commit(p) PROVE HistoryInv'
  <2>1. Exclusive' /\ NotYetRecorded'
    BY <1>1, <1>2, <1>9 DEF HistoryInv, Exclusive, NotYetRecorded, Commit, HoldsLock, States
  <2> QED
    BY <1>2, <1>9, <2>1 DEF Commit, HistoryInv
<1>10. ASSUME NEW p \in Processes, GitCommit(p) PROVE HistoryInv'
  <2>1. Exclusive' /\ NotYetRecorded'
    BY <1>2, <1>10 DEF HistoryInv, Exclusive, NotYetRecorded, GitCommit, HoldsLock, States
  <2> QED
    BY <1>2, <1>10, <2>1 DEF GitCommit, HistoryInv
<1>11. ASSUME NEW p \in Processes, Fail(p) PROVE HistoryInv'
  <2>1. Files' /\ Entries' = Entries
    <3>1. CASE UNCHANGED fileVars
      BY <1>2, <3>1
    <3>2. CASE ~UNCHANGED fileVars
      <4>1. \E n, id : AppendPart(n, id, NextSeq)
        BY <1>11, <3>2 DEF Fail, WriteFails, CommitFails, Crash
      <4> QED
        BY <4>1, AppendPartAddsNone DEF HistoryInv
    <3> QED
      BY <3>1, <3>2
  <2>2. Ordered' /\ Recorded' = Recorded
    BY <2>1 DEF HistoryInv, Ordered, OneOrder, Recorded
  <2>3. /\ \E state \in {"open", "closed"} : pc' = [pc EXCEPT ![p] = state]
        /\ entry' = [entry EXCEPT ![p] = NoEntry] /\ todo' = [todo EXCEPT ![p] = {}]
        /\ writer' = IF HoldsLock(p) THEN Nobody ELSE writer
    BY <1>11 DEF Fail, WriteFails, CommitFails, Crash, Rollback, HoldsLock
  <2>4. Exclusive'
    BY <1>1, <2>3 DEF HistoryInv, Exclusive, HoldsLock, States
  <2>5. NotYetRecorded'
    BY <2>2, <2>3 DEF HistoryInv, Exclusive, NotYetRecorded
  <2> QED
    BY <2>1, <2>2, <2>4, <2>5 DEF HistoryInv
<1>12. CASE UNCHANGED vars
  <2>1. Exclusive' /\ NotYetRecorded'
    BY <1>2, <1>12 DEF vars, procVars, HistoryInv, Exclusive, NotYetRecorded, HoldsLock
  <2> QED
    BY <1>2, <1>12, <2>1 DEF vars, HistoryInv
<1> QED
  BY <1>3, <1>4, <1>5, <1>6, <1>7, <1>8, <1>9, <1>10, <1>11, <1>12 DEF Next, Finish

LEMMA HistoryInit == Init => HistoryInv /\ Entries = {} /\ Recorded = {}
<1> SUFFICES ASSUME Init PROVE HistoryInv /\ Entries = {} /\ Recorded = {}
  OBVIOUS
<1>1. Entries = {} /\ Recorded = {}
  BY DEF Init, Entries, Recorded
<1> QED
  BY <1>1 DEF Init, HistoryInv, Files, Exclusive, NotYetRecorded, Ordered, OneOrder, HoldsLock, States

\* Whatever processes open, move, decide, fail and die, and whatever append was
\* cut short, no two decisions have one place and no decision two.
THEOREM DecisionsInOneOrder == Spec => []OneOrder
<1>1. Init => HistoryInv
  BY HistoryInit
<1>2. HistoryInv /\ [Next]_vars => HistoryInv'
  BY HistoryStep
<1>3. HistoryInv => OneOrder
  BY DEF HistoryInv, Ordered
<1> QED
  BY <1>1, <1>2, <1>3, PTL DEF Spec

-----------------------------------------------------------------------------
(* The decisions that count are the log DecisionLog promises.  Lemmas on a *)
(* set E of entries: the place of an entry is how many come no later.      *)

Below(E, l) == {k \in E : k.seq <= l.seq}

Sorted(E) ==
  /\ IsFiniteSet(E)
  /\ \A l \in E : l.seq \in Nat
  /\ \A k, l \in E : k.seq = l.seq => k = l

\* No place is empty.
Placed(E) == \A i \in 1 .. Cardinality(E) : \E l \in E : Cardinality(Below(E, l)) = i

InOrder(E) == [i \in 1 .. Cardinality(E) |-> (CHOOSE l \in E : Cardinality(Below(E, l)) = i).id]

\* Two entries have two places.
LEMMA OnePerPlace ==
  ASSUME NEW E, Sorted(E), NEW k \in E, NEW l \in E, Cardinality(Below(E, k)) = Cardinality(Below(E, l))
  PROVE  k = l
<1>1. ASSUME NEW a \in E, NEW b \in E, a.seq <= b.seq, Cardinality(Below(E, a)) = Cardinality(Below(E, b))
      PROVE  b.seq <= a.seq
  <2>1. Below(E, b) \in SUBSET E /\ IsFiniteSet(E)
    BY DEF Below, Sorted
  <2>2. IsFiniteSet(Below(E, b))
    BY <2>1, FS_Subset
  <2>3. Below(E, a) \in SUBSET Below(E, b)
    BY <1>1 DEF Below, Sorted
  <2>4. Below(E, a) = Below(E, b)
    BY <1>1, <2>2, <2>3, FS_Subset
  <2>5. b \in Below(E, b)
    BY DEF Below, Sorted
  <2> QED
    BY <2>4, <2>5 DEF Below
<1>2. k.seq \in Nat /\ l.seq \in Nat
  BY DEF Sorted
<1>3. k.seq <= l.seq \/ l.seq <= k.seq
  BY <1>2
<1>4. k.seq <= l.seq /\ l.seq <= k.seq
  BY <1>1, <1>3
<1> QED
  BY <1>2, <1>4 DEF Sorted

\* The decision at an entry's place is the entry's.
LEMMA InItsPlace ==
  ASSUME NEW E, Sorted(E), NEW l \in E, NEW i \in 1 .. Cardinality(E), Cardinality(Below(E, l)) = i
  PROVE  InOrder(E)[i] = l.id
<1> DEFINE c == CHOOSE k \in E : Cardinality(Below(E, k)) = i
<1>1. c \in E /\ Cardinality(Below(E, c)) = i
  OBVIOUS
<1>2. c = l
  BY <1>1, OnePerPlace
<1> QED
  BY <1>2 DEF InOrder

\* A sequence with one more place than s, where it has e, is s with e appended.
LEMMA AppendIs ==
  ASSUME NEW T, NEW s \in Seq(T), NEW e, NEW t,
         t = [i \in 1 .. Len(s) + 1 |-> t[i]],
         \A i \in 1 .. Len(s) : t[i] = s[i], t[Len(s) + 1] = e
  PROVE  Append(s, e) = t
<1> DEFINE u == Append(s, e)  n == Len(s)
<1>1. s \in Seq(T \cup {e}) /\ n \in Nat
  OBVIOUS
<1>2. /\ u = [i \in 1 .. n + 1 |-> u[i]]
      /\ \A i \in 1 .. n : u[i] = s[i]
      /\ u[n + 1] = e
  <2>1. u \in Seq(T \cup {e}) /\ Len(u) = n + 1
    BY <1>1
  <2>2. \A i \in 1 .. n : u[i] = s[i]
    BY <1>1
  <2>3. u[n + 1] = e
    BY <1>1
  <2> HIDE DEF u, n
  <2>4. u = [i \in 1 .. n + 1 |-> u[i]]
    BY <2>1
  <2> QED
    BY <2>2, <2>3, <2>4
<1>3. \A i \in 1 .. n + 1 : i \in 1 .. n \/ i = n + 1
  BY <1>1
<1> HIDE DEF u, n
<1>4. \A i \in 1 .. n + 1 : u[i] = t[i]
  BY <1>2, <1>3 DEF n
<1>5. t = [i \in 1 .. n + 1 |-> t[i]]
  BY DEF n
<1>6. u = t
  BY <1>2, <1>4, <1>5
<1> QED
  BY <1>6 DEF u

\* An entry after every other goes to the end, and moves none.
LEMMA AppendedLast ==
  ASSUME NEW E, Sorted(E), Placed(E), NEW x, x.seq \in Nat, \A l \in E : l.seq < x.seq
  PROVE  /\ Sorted(E \cup {x}) /\ Placed(E \cup {x})
         /\ InOrder(E \cup {x}) = Append(InOrder(E), x.id)
<1> DEFINE F == E \cup {x}  n == Cardinality(E)
<1>1. x \notin E
  BY DEF Sorted
<1>2. IsFiniteSet(F) /\ Cardinality(F) = n + 1 /\ n \in Nat
  BY <1>1, FS_AddElement, FS_CardinalityType DEF Sorted
<1>3. Sorted(F)
  BY <1>2 DEF Sorted
<1>4. \A l \in E : Below(F, l) = Below(E, l)
  BY DEF Below, Sorted
<1>5. Below(F, x) = F
  BY DEF Below, Sorted
<1>6. \A i \in 1 .. n + 1 : i \in 1 .. n \/ i = n + 1
  BY <1>2
<1>7. ASSUME NEW i \in 1 .. n
      PROVE  (\E l \in F : Cardinality(Below(F, l)) = i) /\ InOrder(F)[i] = InOrder(E)[i]
  <2>1. PICK l \in E : Cardinality(Below(E, l)) = i
    BY DEF Placed
  <2>2. l \in F /\ Cardinality(Below(F, l)) = i /\ i \in 1 .. Cardinality(F)
    BY <1>2, <1>4, <2>1
  <2> HIDE DEF F, n
  <2>3. InOrder(F)[i] = l.id
    BY <1>3, <2>2, InItsPlace
  <2>4. InOrder(E)[i] = l.id
    BY <2>1, InItsPlace DEF n
  <2> QED
    BY <2>2, <2>3, <2>4
<1>8. x \in F /\ Cardinality(Below(F, x)) = n + 1 /\ InOrder(F)[n + 1] = x.id
  <2>1. x \in F /\ Cardinality(Below(F, x)) = n + 1 /\ n + 1 \in 1 .. Cardinality(F)
    BY <1>2, <1>5
  <2> HIDE DEF F, n
  <2> QED
    BY <1>3, <2>1, InItsPlace
<1>9. Placed(F)
  <2> HIDE DEF F, n
  <2> QED
    BY <1>2, <1>6, <1>7, <1>8 DEF Placed
<1>10. InOrder(F) = Append(InOrder(E), x.id)
  <2> DEFINE s == InOrder(E)  t == InOrder(F)
  <2>1. s = [i \in 1 .. n |-> s[i]] /\ t = [i \in 1 .. n + 1 |-> t[i]]
    BY <1>2 DEF InOrder
  <2>2. \A i \in 1 .. n : t[i] = s[i]
    BY <1>7
  <2>3. t[n + 1] = x.id
    BY <1>8
  <2> HIDE DEF s, t, n, F
  <2>4. s \in Seq({s[i] : i \in 1 .. n}) /\ Len(s) = n
    BY <1>2, <2>1
  <2>5. /\ t = [i \in 1 .. Len(s) + 1 |-> t[i]]
        /\ \A i \in 1 .. Len(s) : t[i] = s[i]
        /\ t[Len(s) + 1] = x.id
    BY <2>1, <2>2, <2>3, <2>4
  <2>6. Append(s, x.id) = t
    BY <2>4, <2>5, AppendIs
  <2> QED
    BY <2>6 DEF s, t
<1> QED
  BY <1>3, <1>9, <1>10

\* What a step may do to the entries: nothing, or add a decision they do not have,
\* after every other.
GrowsByOne ==
  \/ Entries' = Entries
  \/ \E l : /\ Entries' = Entries \cup {l}
            /\ l.id \in (NewIds \cup LegacyIds) \ Recorded
            /\ l.seq \in Nat /\ \A k \in Entries : k.seq < l.seq

LEMMA AppendLineGrows ==
  ASSUME Files, Ordered, NEW n, NEW id \in (NewIds \cup LegacyIds) \ Recorded, AppendLine(n, id, NextSeq)
  PROVE  GrowsByOne
<1> DEFINE line == [id |-> id, seq |-> NextSeq, readable |-> n \notin cutShort]
<1>1. Appended(n, line)
  BY DEF AppendLine, Appended
<1>2. line.id = id /\ line.seq = NextSeq
  OBVIOUS
<1> HIDE DEF line
<1>3. Entries' = Entries \/ Entries' = Entries \cup {line}
  BY <1>1, AppendedEntries
<1> QED
  BY <1>2, <1>3, NextSeqIsAfter DEF GrowsByOne

\* Every step of every process does no more.
LEMMA EntriesStep ==
  ASSUME HistoryInv, [Next]_vars
  PROVE  GrowsByOne
<1>1. CASE UNCHANGED fileVars
  BY <1>1 DEF fileVars, Entries, GrowsByOne
<1>2. ASSUME NEW p \in Processes, MoveRow(p) PROVE GrowsByOne
  <2>1. PICK i \in todo[p] : AppendLine(Legacy[i].node, Legacy[i].id, NextSeq)
    BY <1>2 DEF MoveRow
  <2>2. Legacy[i].id \in LegacyIds \ Recorded
    BY <1>2 DEF MoveRow, HistoryInv, Exclusive, NotYetRecorded, LegacyIds
  <2> QED
    BY <2>1, <2>2, AppendLineGrows DEF HistoryInv
<1>3. ASSUME NEW p \in Processes, Write(p) PROVE GrowsByOne
  <2>1. entry[p].id \in NewIds \ Recorded /\ AppendLine(entry[p].node, entry[p].id, NextSeq)
    BY <1>3 DEF Write, HistoryInv, NotYetRecorded
  <2> QED
    BY <2>1, AppendLineGrows DEF HistoryInv
<1>4. ASSUME NEW p \in Processes, WriteFails(p) PROVE GrowsByOne
  <2>1. UNCHANGED fileVars \/ \E n, id : AppendPart(n, id, NextSeq)
    BY <1>4 DEF WriteFails
  <2> QED
    BY <1>1, <2>1, AppendPartAddsNone DEF HistoryInv, GrowsByOne
<1>5. ASSUME NEW p \in Processes,
             \/ Open(p) \/ \E id \in NewIds, n \in Nodes : Begin(p, id, n)
             \/ FinishMove(p) \/ CommitMove(p) \/ Commit(p) \/ GitCommit(p)
             \/ CommitFails(p) \/ Crash(p)
      PROVE  UNCHANGED fileVars
  BY <1>5 DEF Open, Begin, FinishMove, CommitMove, Commit, GitCommit, CommitFails, Crash
<1>6. CASE UNCHANGED vars
  BY <1>1, <1>6 DEF vars
<1> QED
  BY <1>1, <1>2, <1>3, <1>4, <1>5, <1>6 DEF Next, Finish, Fail

\* Every decision that counts is one that could be made, and has its place.
Logged == Sorted(Entries) /\ Placed(Entries)

LEMMA LoggedStep ==
  ASSUME HistoryInv, Logged, [Next]_vars
  PROVE  Logged' /\ [Log!Next]_Counted
<1>1. Counted = InOrder(Entries) /\ Counted' = InOrder(Entries')
  BY DEF Counted, InOrder, Below
<1>2. CASE Entries' = Entries
  BY <1>1, <1>2 DEF Logged, Sorted, Placed, Below
<1>3. CASE Entries' # Entries
  <2>1. PICK l : /\ Entries' = Entries \cup {l}
                 /\ l.id \in (NewIds \cup LegacyIds) \ Recorded
                 /\ l.seq \in Nat /\ \A k \in Entries : k.seq < l.seq
    BY <1>3, EntriesStep DEF GrowsByOne
  <2>2. /\ Sorted(Entries \cup {l}) /\ Placed(Entries \cup {l})
        /\ InOrder(Entries \cup {l}) = Append(InOrder(Entries), l.id)
    BY <2>1, AppendedLast DEF Logged
  <2>3. Logged'
    BY <2>1, <2>2 DEF Logged, Sorted, Placed, Below
  <2>4. Counted' = Append(Counted, l.id)
    BY <1>1, <2>1, <2>2
  <2>5. \A i \in DOMAIN Counted : Counted[i] \in Recorded
    <3>1. ASSUME NEW i \in 1 .. Cardinality(Entries) PROVE InOrder(Entries)[i] \in Recorded
      <4>1. PICK k \in Entries : Cardinality(Below(Entries, k)) = i
        BY DEF Logged, Placed
      <4>2. InOrder(Entries)[i] = k.id
        BY <4>1, InItsPlace DEF Logged
      <4> QED
        BY <4>2 DEF Recorded
    <3> QED
      BY <1>1, <3>1 DEF InOrder
  <2>6. l.id \notin Log!Decided
    BY <2>1, <2>5 DEF Log!Decided
  <2> QED
    BY <2>1, <2>3, <2>4, <2>6 DEF Log!Next, Log!Decide
<1> QED
  BY <1>2, <1>3

\* The files of all the nodes together implement one log of the decisions made on
\* the project, which only grows at its end, whatever fails, crashes or is cut short.
THEOREM FilesImplementTheLog == Spec => ImplementsLog
<1>1. Init => HistoryInv /\ Logged /\ Log!Init
  <2> SUFFICES ASSUME Init PROVE HistoryInv /\ Logged /\ Log!Init
    OBVIOUS
  <2>1. HistoryInv /\ Entries = {} /\ Recorded = {}
    BY HistoryInit
  <2>2. Cardinality({}) = 0 /\ IsFiniteSet({})
    BY FS_EmptySet
  <2>3. Logged
    BY <2>1, <2>2 DEF Logged, Sorted, Placed
  <2>4. Counted = <<>>
    BY <2>1, <2>2 DEF Counted
  <2> QED
    BY <2>1, <2>3, <2>4 DEF Log!Init
<1>2. HistoryInv /\ Logged /\ [Next]_vars => HistoryInv' /\ Logged' /\ [Log!Next]_Counted
  BY HistoryStep, LoggedStep
<1> QED
  BY <1>1, <1>2, PTL DEF Spec, ImplementsLog, Log!Spec
=============================================================================

----------------------------- MODULE Transactions -----------------------------
(***************************************************************************)
(* The store's transactions and read scopes (storage.py), as one thread opens  *)
(* them one inside another.  The outermost transaction is SQLite's; one inside  *)
(* it joins it as a savepoint; an exception leaves the blocks one by one until   *)
(* a caller catches it.  A file written in a transaction is undone by a callback  *)
(* registered with it.  A read scope remembers what it read on a connection of     *)
(* its own, which never sees what an open transaction has written.                 *)
(***************************************************************************)
EXTENDS Naturals, Sequences, SequencesExt

CONSTANTS
  Keys,        \* the rows, each with a file
  MaxWrites,   \* a bound: a write's number is what it leaves in the row and the file
  MaxBlocks    \* a bound on the blocks open at once

VARIABLES
  committed,   \* what other connections read of the rows
  working,     \* what the open transaction reads of them
  file,        \* what is in the files
  blocks,      \* the open blocks, the outermost first
  callbacks,   \* on_rollback of the transaction: what each file held before a write
  raised,      \* an exception is on its way out
  writes, own  \* how many there were, and the thread's last that was committed, by row

vars == <<committed, working, file, blocks, callbacks, raised, writes, own>>

\* The kinds of blocks: a transaction, one nested in it, a read scope.
Block(kind) == [kind |-> kind, saved |-> working, from |-> Len(callbacks), memo |-> <<>>]

In(kind) == \E k \in DOMAIN blocks : blocks[k].kind = kind

ActiveTransaction == In("transaction")

Scopes == {k \in DOMAIN blocks : blocks[k].kind = "scope"}
Begun == {k \in DOMAIN blocks : blocks[k].kind = "transaction"}

\* The scope a read is in, which counts only in the transaction it was opened in.
CurrentScope == {k \in Scopes : \A j \in Scopes : j <= k}
UsableScope == {k \in CurrentScope : \A j \in Begun : j < k}

Kept(open) == open

\* forget_reads: of the current scope, whichever transaction it belongs to.
ForgetReads(open) == [k \in DOMAIN open |-> IF k \in CurrentScope THEN [open[k] EXCEPT !.memo = <<>>] ELSE open[k]]

MayOpen == ~raised /\ Len(blocks) < MaxBlocks

Begin ==
  /\ MayOpen
  /\ blocks' = IF ActiveTransaction THEN Append(blocks, Block("nested"))
               ELSE Append(ForgetReads(blocks), Block("transaction"))
  /\ UNCHANGED <<committed, working, file, callbacks, raised, writes, own>>

\* One in a scope of the same transaction joins it.
OpenScope ==
  /\ MayOpen /\ UsableScope = {}
  /\ blocks' = Append(blocks, Block("scope"))
  /\ UNCHANGED <<committed, working, file, callbacks, raised, writes, own>>

\* A write in a transaction, and its file with the callback that undoes it.  No
\* caller writes inside a scope it opened in the transaction.
Write(k) ==
  /\ ~raised /\ ActiveTransaction /\ UsableScope = {} /\ writes < MaxWrites
  /\ writes' = writes + 1
  /\ working' = [working EXCEPT ![k] = writes + 1]
  /\ file' = [file EXCEPT ![k] = writes + 1]
  /\ callbacks' = Append(callbacks, [key |-> k, held |-> file[k]])
  /\ UNCHANGED <<committed, blocks, raised, own>>

\* A helper that is given no connection outside a transaction: one of its own.
WriteAlone(k) ==
  /\ ~raised /\ ~ActiveTransaction /\ writes < MaxWrites
  /\ writes' = writes + 1
  /\ committed' = [committed EXCEPT ![k] = writes + 1]
  /\ own' = [own EXCEPT ![k] = writes + 1]
  /\ working' = committed'
  /\ file' = [file EXCEPT ![k] = writes + 1]
  /\ blocks' = ForgetReads(blocks)
  /\ UNCHANGED <<callbacks, raised>>

\* Another process: it waits for the write lock.
OtherWrites(k) ==
  /\ ~ActiveTransaction /\ writes < MaxWrites
  /\ writes' = writes + 1
  /\ committed' = [committed EXCEPT ![k] = writes + 1]
  /\ working' = committed'
  /\ file' = [file EXCEPT ![k] = writes + 1]
  /\ UNCHANGED <<blocks, callbacks, raised, own>>

\* memoized_read: an answer is remembered by the scope that counts here.
Read(k) ==
  /\ ~raised
  /\ \E s \in UsableScope :
       /\ k \notin DOMAIN blocks[s].memo
       /\ blocks' = [blocks EXCEPT ![s].memo =
            [j \in DOMAIN @ \cup {k} |-> IF j = k THEN committed[k] ELSE @[j]]]
  /\ UNCHANGED <<committed, working, file, callbacks, raised, writes, own>>

Raise ==
  /\ ~raised /\ blocks # <<>>
  /\ raised' = TRUE
  /\ UNCHANGED <<committed, working, file, blocks, callbacks, writes, own>>

\* The caller of the block that raised goes on.
Catch ==
  /\ raised
  /\ raised' = FALSE
  /\ UNCHANGED <<committed, working, file, blocks, callbacks, writes, own>>
-----------------------------------------------------------------------------
(* Leaving a block.                                                        *)

Top == Last(blocks)
Outer == Front(blocks)

\* The callbacks after the first "from", of those that wrote the file of a row.
Later(k, from) == {i \in DOMAIN callbacks : i > from /\ callbacks[i].key = k}

OldestFirst(held, from) ==
  [k \in Keys |-> IF Later(k, from) = {} THEN held[k] ELSE callbacks[Max(Later(k, from))].held]

\* _run_rollback_callbacks: the latest first, each putting back what the file held,
\* so that what stays is what it held before the earliest.
Undone(held, from) ==
  [k \in Keys |-> IF Later(k, from) = {} THEN held[k] ELSE callbacks[Min(Later(k, from))].held]

LeaveScope ==
  /\ blocks # <<>> /\ Top.kind = "scope"
  /\ blocks' = Outer
  /\ UNCHANGED <<committed, working, file, callbacks, raised, writes, own>>

Release ==
  /\ ~raised /\ blocks # <<>> /\ Top.kind = "nested"
  /\ blocks' = Outer
  /\ UNCHANGED <<committed, working, file, callbacks, raised, writes, own>>

RollBackTo ==
  /\ raised /\ blocks # <<>> /\ Top.kind = "nested"
  /\ file' = Undone(file, Top.from)
  /\ callbacks' = SubSeq(callbacks, 1, Top.from)
  /\ working' = Top.saved
  /\ blocks' = Outer
  /\ UNCHANGED <<committed, raised, writes, own>>

Left == SubSeq(ForgetReads(blocks), 1, Len(blocks) - 1)

Commit ==
  /\ ~raised /\ blocks # <<>> /\ Top.kind = "transaction"
  /\ committed' = working
  /\ own' = [k \in Keys |-> IF working[k] # committed[k] THEN working[k] ELSE own[k]]
  /\ callbacks' = <<>>
  /\ blocks' = Left
  /\ UNCHANGED <<working, file, raised, writes>>

\* The block raised, or a callback before the commit, or the commit itself.
RollBack ==
  /\ blocks # <<>> /\ Top.kind = "transaction"
  /\ file' = Undone(file, 0)
  /\ working' = committed
  /\ callbacks' = <<>>
  /\ blocks' = Left
  /\ raised' = TRUE
  /\ UNCHANGED <<committed, writes, own>>

Init ==
  /\ committed = [k \in Keys |-> 0] /\ working = committed /\ file = committed /\ own = committed
  /\ blocks = <<>> /\ callbacks = <<>> /\ raised = FALSE /\ writes = 0

Next ==
  \/ Begin
  \/ OpenScope
  \/ \E k \in Keys : Write(k) \/ WriteAlone(k) \/ OtherWrites(k) \/ Read(k)
  \/ Raise
  \/ Catch
  \/ LeaveScope
  \/ Release
  \/ RollBackTo
  \/ Commit
  \/ RollBack

Spec == Init /\ [][Next]_vars
-----------------------------------------------------------------------------
(* Properties.                                                             *)

\* However transactions nest, fail and are caught, the files are what the rows
\* are: a block that fails undoes the files it wrote with its rows, one written
\* twice included, and no other's (transaction, on_rollback).
FilesFollowRows == file = working

\* What a scope remembers where it counts is never older than what its own thread
\* has committed, and in a transaction it is what is committed (read_scope).
MemoNotOlder ==
  \A s \in UsableScope : \A k \in DOMAIN blocks[s].memo :
    /\ blocks[s].memo[k] >= own[k]
    /\ ActiveTransaction => blocks[s].memo[k] = committed[k]
=============================================================================

------------------------------ MODULE FreeList ------------------------------
(***************************************************************************)
(* The state that slab_allocator and pinned_slab_allocator share           *)
(* (include/conduit/pending/core/): a list of free blocks linked by their  *)
(* indices, whose head is swapped by compare-and-swap, and the registers   *)
(* of the threads that use it.  Each access to shared memory is one step.  *)
(***************************************************************************)
EXTENDS Integers, Sequences

CONSTANTS
    Thread,              \* the threads that call allocate() and deallocate()
    Blocks               \* Capacity, PoolSize: the number of blocks

ASSUME BlocksAssumption == Blocks \in Nat \ {0}

Block == 0 .. Blocks - 1
END_OF_LIST == Blocks    \* 0xFFFFFFFF: no block has this index

VARIABLES
    head,                \* free_head_, head_index_: an index, and an ABA counter
    link,                \* next_free, the first four bytes: the next free block
    pc,                  \* where each thread is
    cur, nxt,            \* its current_head and next_index
    blk                  \* the block it works with; END_OF_LIST: nullptr

freeList == <<head, link>>
registers == <<cur, nxt, blk>>

NoHead == [aba |-> 0, index |-> END_OF_LIST]

\* A thread's current_head and next_index go out of scope.
Forget(t) ==
    /\ cur' = [cur EXCEPT ![t] = NoHead]
    /\ nxt' = [nxt EXCEPT ![t] = END_OF_LIST]

FreeListInit ==
    /\ head = [aba |-> 0, index |-> 0]
    /\ link = [b \in Block |-> IF b < Blocks - 1 THEN b + 1 ELSE END_OF_LIST]
    /\ cur = [t \in Thread |-> NoHead]
    /\ nxt = [t \in Thread |-> END_OF_LIST]
    /\ blk = [t \in Thread |-> END_OF_LIST]

At(t, from, to) == pc[t] = from /\ pc' = [pc EXCEPT ![t] = to]

\* current_head = head.load()
LoadHead(t, from, to) ==
    /\ At(t, from, to)
    /\ cur' = [cur EXCEPT ![t] = head]
    /\ UNCHANGED <<freeList, nxt, blk>>

\* allocate() finds the list empty and returns nullptr.
Exhausted(t) ==
    /\ cur[t].index = END_OF_LIST
    /\ At(t, "next", "allocated")
    /\ blk' = [blk EXCEPT ![t] = END_OF_LIST]
    /\ Forget(t)
    /\ UNCHANGED freeList

\* The link of a block that another thread may have taken since.
ReadLink(t) ==
    /\ cur[t].index # END_OF_LIST
    /\ At(t, "next", "take")
    /\ nxt' = [nxt EXCEPT ![t] = link[cur[t].index]]
    /\ UNCHANGED <<freeList, cur, blk>>

\* The swap fails, perhaps spuriously, and loads the head it met.
Retry(t, from, to) == LoadHead(t, from, to)

\* The swap succeeds: the block is taken.
Take(t, new, to) ==
    /\ At(t, "take", to)
    /\ head' = new
    /\ blk' = [blk EXCEPT ![t] = cur[t].index]
    /\ Forget(t)
    /\ UNCHANGED link

WriteLink(t) ==
    /\ At(t, "link", "give")
    /\ link' = [link EXCEPT ![blk[t]] = cur[t].index]
    /\ UNCHANGED <<head, registers>>

\* The swap succeeds: the block is back.
Give(t, new, to) ==
    /\ At(t, "give", to)
    /\ head' = new
    /\ blk' = [blk EXCEPT ![t] = END_OF_LIST]
    /\ Forget(t)
    /\ UNCHANGED link

----------------------------------------------------------------------------
\* What follows the first k blocks of a list: its next block, or its end.
After(s, k) == IF k < Len(s) THEN s[k + 1] ELSE END_OF_LIST

\* Is s the blocks that one meets from the head on, first block first?
IsFreeList(s) ==
    /\ head.index = After(s, 0)
    /\ \A k \in 1 .. Len(s) : link[s[k]] = After(s, k)

\* The free list, if it ends; a list that runs in a circle is none of these.
FreeLists == {s \in UNION {[1 .. n -> Block] : n \in 0 .. Blocks} : IsFreeList(s)}
=============================================================================

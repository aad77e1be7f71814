------------------------ MODULE PinnedSlabAllocator ------------------------
(***************************************************************************)
(* cre::core::pinned_slab_allocator (include/conduit/pending/core/         *)
(* pinned_slab_allocator.hpp): the head is a bare index, and free_count_   *)
(* is brought up to date after the list.                                   *)
(***************************************************************************)
EXTENDS FreeList

CONSTANT CountModulus    \* 2^64 in the code, where an index has 32 bits

ASSUME CountAssumption == CountModulus \in Nat /\ CountModulus > Blocks + 1

VARIABLE free_count      \* free_count_

\* The constructor; the memory itself is locked into RAM, or there is no allocator.
PinnedInit == FreeListInit /\ free_count = Blocks

PinnedAllocate(t) ==
    \/ /\ \/ LoadHead(t, "alloc", "next")
          \/ Exhausted(t)
          \/ ReadLink(t)
          \/ Retry(t, "take", "next")
          \/ /\ head.index = cur[t].index
             /\ Take(t, [head EXCEPT !.index = nxt[t]], "count_taken")
       /\ UNCHANGED free_count
    \/ /\ At(t, "count_taken", "allocated")
       /\ free_count' = (free_count + CountModulus - 1) % CountModulus
       /\ UNCHANGED <<freeList, registers>>

PinnedDeallocateCountsFirst(t) ==
    \/ /\ LoadHead(t, "free", "link")
       /\ free_count' = (free_count + 1) % CountModulus
    \/ /\ \/ WriteLink(t)
          \/ Retry(t, "give", "link")
          \/ /\ head.index = cur[t].index
             /\ Give(t, [head EXCEPT !.index = blk[t]], "freed")
       /\ UNCHANGED free_count

PinnedDeallocate(t) ==
    \/ /\ \/ LoadHead(t, "free", "link")
          \/ WriteLink(t)
          \/ Retry(t, "give", "link")
          \/ /\ head.index = cur[t].index
             /\ Give(t, [head EXCEPT !.index = blk[t]], "count_given")
       /\ UNCHANGED free_count
    \/ /\ At(t, "count_given", "freed")
       /\ free_count' = (free_count + 1) % CountModulus
       /\ UNCHANGED <<freeList, registers>>

=============================================================================

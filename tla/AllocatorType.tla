---------------------------- MODULE AllocatorType ----------------------------
(***************************************************************************)
(* The template parameter AllocatorType of http_gateway and load_generator:*)
(* slab_allocator or pinned_slab_allocator.                                *)
(***************************************************************************)
EXTENDS SlabAllocator, PinnedSlabAllocator

VARIABLE pinned          \* is it pinned_slab_allocator?

memory == <<freeList, registers, free_count>>

AllocatorInit ==
    /\ pinned \in BOOLEAN
    /\ IF pinned THEN PinnedInit ELSE FreeListInit /\ free_count = 0

\* A step of allocate() and of deallocate().
AllocateStep(t) ==
    IF pinned THEN PinnedAllocate(t) ELSE SlabAllocate(t) /\ UNCHANGED free_count

DeallocateStep(t) ==
    IF pinned THEN PinnedDeallocate(t) ELSE SlabDeallocate(t) /\ UNCHANGED free_count

----------------------------------------------------------------------------
\* Where block b is: its positions in a list, and the threads that hold it while they
\* are at one of the places.
Positions(s, b) == {k \in 1 .. Len(s) : s[k] = b}
Holders(places, b) == {t \in Thread : pc[t] \in places /\ blk[t] = b}

IsSingleton(S) == \E x \in S : S = {x}
=============================================================================

--------------------------- MODULE SlabAllocator ---------------------------
(***************************************************************************)
(* cre::core::slab_allocator (include/conduit/pending/core/                *)
(* slab_allocator.hpp): the head carries a counter that every swap of it   *)
(* increments.  deallocate() reads the index back from the object it has   *)
(* just destroyed; the index is still there.                               *)
(***************************************************************************)
EXTENDS FreeList

CONSTANT AbaModulus      \* 2^32 in the code

ASSUME AbaAssumption == AbaModulus \in Nat \ {0}

Pack(aba, index) == [aba |-> aba % AbaModulus, index |-> index]

SlabAllocate(t) ==
    \/ LoadHead(t, "alloc", "next")
    \/ Exhausted(t)
    \/ ReadLink(t)
    \/ Retry(t, "take", "next")
    \/ head = cur[t] /\ Take(t, Pack(cur[t].aba + 1, nxt[t]), "allocated")

SlabDeallocateLinksOnce(t) ==
    \/ LoadHead(t, "free", "link")
    \/ WriteLink(t)
    \/ Retry(t, "give", "give")
    \/ head = cur[t] /\ Give(t, Pack(cur[t].aba + 1, blk[t]), "freed")

SlabDeallocate(t) ==
    \/ LoadHead(t, "free", "link")
    \/ WriteLink(t)
    \/ Retry(t, "give", "link")
    \/ head = cur[t] /\ Give(t, Pack(cur[t].aba + 1, blk[t]), "freed")
=============================================================================

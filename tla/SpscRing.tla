------------------------------ MODULE SpscRing ------------------------------
(***************************************************************************)
(* cre::core::spsc_ring_buffer (include/conduit/core/networked_conduit.hpp)*)
(* carrying blocks from the thread that pushes to the thread that pops.    *)
(* Unlike cre::conduit its indices are reduced to the capacity, and one    *)
(* slot stays empty.  Each access to an index or a slot is one step.       *)
(***************************************************************************)
EXTENDS FreeList

CONSTANTS
    Capacity,            \* slots, a power of two
    Producer, Consumer   \* the threads at its ends

ASSUME CapacityAssumption == Capacity \in Nat \ {0} /\ \E k \in 0 .. Capacity : Capacity = 2 ^ k
ASSUME EndsAssumption == {Producer, Consumer} \subseteq Thread /\ Producer # Consumer

VARIABLES
    buffer,              \* buffer_
    write_idx, read_idx  \* write_idx_, read_idx_

ring == <<buffer, write_idx, read_idx>>

RingInit ==
    /\ buffer = [k \in 0 .. Capacity - 1 |-> END_OF_LIST]
    /\ write_idx = 0 /\ read_idx = 0

\* (idx + 1) & (Capacity - 1)
Advance(idx) == (idx + 1) % Capacity

\* push(): the test for room, the slot, the index.  It returns false at full and
\* true at "pushed".
PushTest(full) ==
    /\ At(Producer, "push", IF Advance(write_idx) = read_idx THEN full ELSE "store")
    /\ UNCHANGED ring

PushStore(from, to) ==
    /\ At(Producer, from, to)
    /\ buffer' = [buffer EXCEPT ![write_idx] = blk[Producer]]
    /\ UNCHANGED <<write_idx, read_idx>>

PushPublish(from, to) ==
    /\ At(Producer, from, to)
    /\ write_idx' = Advance(write_idx)
    /\ UNCHANGED <<buffer, read_idx>>

PushPublishingFirst(full) ==
    /\ \/ PushTest(full)
       \/ PushPublish("store", "publish")
       \/ /\ At(Producer, "publish", "pushed")
          /\ buffer' = [buffer EXCEPT ![(write_idx + Capacity - 1) % Capacity] = blk[Producer]]
          /\ UNCHANGED <<write_idx, read_idx>>
    /\ UNCHANGED <<freeList, registers>>

Push(full) ==
    /\ \/ PushTest(full)
       \/ PushStore("store", "publish")
       \/ PushPublish("publish", "pushed")
    /\ UNCHANGED <<freeList, registers>>

\* pop(): the test for an item, the slot, the index.  It returns
\* nullptr at empty and the pointer at "popped".
Pop(empty) ==
    \/ /\ At(Consumer, "pop", IF read_idx = write_idx THEN empty ELSE "fetch")
       /\ UNCHANGED <<ring, freeList, registers>>
    \/ /\ At(Consumer, "fetch", "advance")
       /\ blk' = [blk EXCEPT ![Consumer] = buffer[read_idx]]
       /\ UNCHANGED <<ring, freeList, cur, nxt>>
    \/ /\ At(Consumer, "advance", "popped")
       /\ read_idx' = Advance(read_idx)
       /\ UNCHANGED <<buffer, write_idx, freeList, registers>>

----------------------------------------------------------------------------
Slots == 0 .. Capacity - 1

\* How many slots lie from r up to w, the slot i places after r, and the pointers
\* in these slots.
Count(r, w) == IF w >= r THEN w - r ELSE w - r + Capacity
SlotAt(r, i) == (r + i) % Capacity
Between(slots, r, w) == [k \in 1 .. Count(r, w) |-> slots[SlotAt(r, k - 1)]]

\* The pointers published and not yet taken, oldest first.
Queued == Between(buffer, read_idx, write_idx)

Fifo == INSTANCE BoundedFifo WITH
    Value   <- Block,
    None    <- END_OF_LIST,
    Bound   <- Capacity - 1,
    queue   <- Queued,
    pushing <- IF pc[Producer] \in {"push", "store", "publish"} THEN blk[Producer]
               ELSE END_OF_LIST,
    accepted <- pc[Producer] = "pushed",
    out     <- IF pc[Consumer] = "popped" THEN blk[Consumer] ELSE END_OF_LIST,
    popping <- pc[Consumer] \in {"pop", "fetch", "advance"}

\* Whatever the two threads interleave, the ring is the bounded queue that
\* cre::conduit promises as well: nothing overtakes, nothing is lost or made up,
\* a push is refused only when Capacity - 1 pointers are queued.
RingIsFifo == Fifo!Spec
=============================================================================

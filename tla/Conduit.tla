------------------------------- MODULE Conduit -------------------------------
(***************************************************************************)
(* cre::conduit<T, Size> (include/conduit/core.hpp): a single-producer     *)
(* single-consumer ring of pointers.  One thread calls push(), another     *)
(* calls pop().  Each access to memory the other thread can see (the other *)
(* side's index, a slot of the ring, the own index) is one step.           *)
(*                                                                         *)
(* The indices are published with release stores and read with acquire     *)
(* loads, so a side that sees an index sees every slot access before it:   *)
(* interleaving these steps covers the behaviours of the code as long as   *)
(* no slot is accessed by both sides at once, which NoSlotConflict states. *)
(***************************************************************************)
EXTENDS Integers, Sequences

CONSTANTS
    Value,               \* the pointers that may be pushed
    None,                \* no pointer; also the content of a slot never written
    Size                 \* number of slots of the ring

ASSUME SizeAssumption == Size \in Nat \ {0}
ASSUME NoneAssumption == None \notin Value

Slots == 0 .. Size - 1

VARIABLES
    ring,                \* ring_
    write_idx,           \* write_idx_, stored by the producer only
    read_idx,            \* read_idx_, stored by the consumer only
    ppc, arg, accepted,  \* the producer: where it is in push(), ptr, last result
    cpc, got, out        \* the consumer: where it is in pop(), ptr, last result

producer == <<ppc, arg, accepted>>
consumer == <<cpc, got, out>>
vars == <<ring, write_idx, read_idx, producer, consumer>>

Init ==
    /\ ring = [s \in Slots |-> None]
    /\ write_idx = 0
    /\ read_idx = 0
    /\ ppc = "idle" /\ arg = None /\ accepted = FALSE
    /\ cpc = "idle" /\ got = None /\ out = None

\* The slot after i.
Succ(i) == (i + 1) % Size

IsFullNever(r, w) == FALSE

\* One slot always stays empty: a full ring would look like an empty one.
IsFull(r, w) == Succ(w) = r

IsEmpty(r, w) == r = w

(***************************************************************************)
(* push(ptr)                                                               *)
(***************************************************************************)
PushCall(v) ==
    /\ ppc = "idle"
    /\ ppc' = "check"
    /\ arg' = v
    /\ UNCHANGED <<ring, write_idx, read_idx, accepted, consumer>>

PushFull ==
    /\ ppc = "check"
    /\ IsFull(read_idx, write_idx)
    /\ ppc' = "idle"
    /\ accepted' = FALSE
    /\ UNCHANGED <<ring, write_idx, read_idx, arg, consumer>>

PushRoom ==
    /\ ppc = "check"
    /\ ~IsFull(read_idx, write_idx)
    /\ ppc' = "slot"
    /\ UNCHANGED <<ring, write_idx, read_idx, arg, accepted, consumer>>

PushSlotAhead ==
    /\ ppc = "slot"
    /\ ring' = [ring EXCEPT ![Succ(write_idx)] = arg]
    /\ ppc' = "publish"
    /\ UNCHANGED <<write_idx, read_idx, arg, accepted, consumer>>

PushSlot ==
    /\ ppc = "slot"
    /\ ring' = [ring EXCEPT ![write_idx] = arg]
    /\ ppc' = "publish"
    /\ UNCHANGED <<write_idx, read_idx, arg, accepted, consumer>>

PushPublish ==
    /\ ppc = "publish"
    /\ write_idx' = Succ(write_idx)
    /\ accepted' = TRUE
    /\ ppc' = "idle"
    /\ UNCHANGED <<ring, read_idx, arg, consumer>>

(***************************************************************************)
(* pop()                                                                   *)
(***************************************************************************)
PopCall ==
    /\ cpc = "idle"
    /\ cpc' = "check"
    /\ UNCHANGED <<ring, write_idx, read_idx, producer, got, out>>

PopEmptySpins ==
    /\ cpc = "check"
    /\ IsEmpty(read_idx, write_idx)
    /\ UNCHANGED vars

PopEmpty ==
    /\ cpc = "check"
    /\ IsEmpty(read_idx, write_idx)
    /\ out' = None
    /\ cpc' = "idle"
    /\ UNCHANGED <<ring, write_idx, read_idx, producer, got>>

PopSome ==
    /\ cpc = "check"
    /\ ~IsEmpty(read_idx, write_idx)
    /\ cpc' = "slot"
    /\ UNCHANGED <<ring, write_idx, read_idx, producer, got, out>>

PopSlot ==
    /\ cpc = "slot"
    /\ got' = ring[read_idx]
    /\ cpc' = "publish"
    /\ UNCHANGED <<ring, write_idx, read_idx, producer, out>>

PopPublish ==
    /\ cpc = "publish"
    /\ read_idx' = Succ(read_idx)
    /\ out' = got
    /\ cpc' = "idle"
    /\ UNCHANGED <<ring, write_idx, producer, got>>

----------------------------------------------------------------------------
PushStep == PushFull \/ PushRoom \/ PushSlot \/ PushPublish
PopStep == PopEmpty \/ PopSome \/ PopSlot \/ PopPublish

Next ==
    \/ \E v \in Value : PushCall(v)
    \/ PushStep
    \/ PopCall
    \/ PopStep

Spec == Init /\ [][Next]_vars

\* Both threads run, and the consumer polls the ring again and again.
FairSpec ==
    /\ Spec
    /\ WF_vars(PushStep)
    /\ WF_vars(PopStep)
    /\ WF_vars(PopCall)

----------------------------------------------------------------------------
\* Every variable has its type.
TypeOK ==
    /\ ring \in [Slots -> Value \cup {None}]
    /\ write_idx \in Slots
    /\ read_idx \in Slots
    /\ ppc \in {"idle", "check", "slot", "publish"}
    /\ arg \in Value \cup {None}
    /\ accepted \in BOOLEAN
    /\ cpc \in {"idle", "check", "slot", "publish"}
    /\ got \in Value \cup {None}
    /\ out \in Value \cup {None}

\* How many pointers are between the two indices.
Count(r, w) == IF w >= r THEN w - r ELSE w - r + Size

\* The slot i places after slot r.
SlotAt(r, i) == (r + i) % Size

\* The pointers in slots r up to, not including, w.
Between(slots, r, w) == [i \in 1 .. Count(r, w) |-> slots[SlotAt(r, i - 1)]]

\* The pointers in the ring, oldest first.
Contents == Between(ring, read_idx, write_idx)

\* The producer never writes the slot the consumer is reading: the room it
\* found, and the pointer the consumer found, stay there while the other side
\* moves on.
NoSlotConflict ==
    ~(ppc = "slot" /\ cpc = "slot" /\ write_idx = read_idx)

\* What each side found out stays true until it acts on it: the producer's
\* room cannot vanish, the consumer's pointer is neither taken nor replaced.
ChecksStayValid ==
    /\ ppc # "idle" => arg \in Value
    /\ ppc \in {"slot", "publish"} => ~IsFull(read_idx, write_idx)
    /\ ppc = "publish" => ring[write_idx] = arg
    /\ cpc \in {"slot", "publish"} => ~IsEmpty(read_idx, write_idx)
    /\ cpc = "publish" => got = ring[read_idx]

\* The ring is a bounded queue of Size - 1 pointers.  push() takes effect when
\* it stores its index, or when it finds the ring full; pop() likewise.
Fifo == INSTANCE BoundedFifo WITH
    Bound <- Size - 1,
    queue <- Contents,
    pushing <- IF ppc = "idle" THEN None ELSE arg,
    popping <- cpc # "idle"

\* Every behaviour of the ring is one of the queue: nothing is lost,
\* duplicated, reordered or overwritten, and full and empty are never reported
\* of a ring that is not.
ImplementsFifo == Fifo!Spec

\* Under fair threads the ring also drains: calls return, and a consumer that
\* keeps polling is given every pointer that was accepted.
ImplementsFairFifo == Fifo!FairSpec
=============================================================================

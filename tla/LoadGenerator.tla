---------------------------- MODULE LoadGenerator ----------------------------
(***************************************************************************)
(* cre::supplemental::load_generator (include/conduit/pending/             *)
(* supplemental/load_generator.hpp) firing into a tcp_sender_node          *)
(* (include/conduit/core/networked_conduit.hpp): the generator takes all   *)
(* its events from the allocator, pushes each into the sender's ring until *)
(* it is accepted, and gives them back when it is destroyed.  The sender   *)
(* pops them and hands their bytes to send(), whose result nobody reads.   *)
(* Nothing makes the destructor wait for the sender.                       *)
(***************************************************************************)
EXTENDS AllocatorType, SpscRing

CONSTANT EventCounts     \* the events_count a generator is built with

ASSUME EventCountsAssumption == EventCounts \subseteq Nat

VARIABLES
    total_events_to_send,
    ammo,                \* pre_allocated_ammo_
    fired,               \* i of fire()
    sent,                \* how many events were handed to send()
    is_sending           \* is_running_ of the sender

load == <<total_events_to_send, ammo, fired, sent, is_sending>>

LoadInit ==
    /\ AllocatorInit /\ RingInit
    /\ pc = [t \in Thread |-> IF t = Producer THEN "arm" ELSE "run"]
    /\ total_events_to_send \in EventCounts
    /\ ammo = <<>> /\ fired = 0 /\ sent = 0 /\ is_sending = FALSE

----------------------------------------------------------------------------
\* arm_weapon(): a loop of allocate(); without a block it throws, and the
\* destructor runs.
ArmWeapon ==
    /\ \/ /\ At(Producer, "arm",
                IF Len(ammo) < total_events_to_send THEN "alloc" ELSE "fire")
          /\ UNCHANGED <<memory, ammo>>
       \/ AllocateStep(Producer) /\ UNCHANGED ammo
       \/ /\ At(Producer, "allocated", IF blk[Producer] = END_OF_LIST THEN "destroy" ELSE "arm")
          /\ ammo' = IF blk[Producer] = END_OF_LIST THEN ammo ELSE Append(ammo, blk[Producer])
          /\ blk' = [blk EXCEPT ![Producer] = END_OF_LIST]
          /\ UNCHANGED <<freeList, cur, nxt, free_count>>
    /\ UNCHANGED <<ring, total_events_to_send, fired, sent, is_sending, pinned>>

FireMovesOn ==
    /\ \/ /\ At(Producer, "fire", IF fired < total_events_to_send THEN "push" ELSE "destroy")
          /\ blk' = [blk EXCEPT ![Producer] =
                        IF fired < total_events_to_send THEN ammo[fired + 1] ELSE END_OF_LIST]
          /\ UNCHANGED <<ring, freeList, cur, nxt, fired>>
       \/ Push("pushed") /\ UNCHANGED fired
       \/ /\ At(Producer, "pushed", "fire")
          /\ fired' = fired + 1
          /\ UNCHANGED <<ring, freeList, registers>>
    /\ UNCHANGED <<free_count, total_events_to_send, ammo, sent, is_sending, pinned>>

\* fire(): push() of each event, again and again while the ring is full.
Fire ==
    /\ \/ /\ At(Producer, "fire", IF fired < total_events_to_send THEN "push" ELSE "destroy")
          /\ blk' = [blk EXCEPT ![Producer] =
                        IF fired < total_events_to_send THEN ammo[fired + 1] ELSE END_OF_LIST]
          /\ UNCHANGED <<ring, freeList, cur, nxt, fired>>
       \/ Push("fire") /\ UNCHANGED fired
       \/ /\ At(Producer, "pushed", "fire")
          /\ fired' = fired + 1
          /\ UNCHANGED <<ring, freeList, registers>>
    /\ UNCHANGED <<free_count, total_events_to_send, ammo, sent, is_sending, pinned>>

\* ~load_generator(): deallocate() of every event, whoever has a pointer to it.
Destroy ==
    /\ \/ /\ At(Producer, "destroy", IF ammo = <<>> THEN "exit" ELSE "free")
          /\ ammo' = IF ammo = <<>> THEN ammo ELSE Tail(ammo)
          /\ blk' = [blk EXCEPT ![Producer] = IF ammo = <<>> THEN END_OF_LIST ELSE Head(ammo)]
          /\ UNCHANGED <<freeList, cur, nxt, free_count>>
       \/ DeallocateStep(Producer) /\ UNCHANGED ammo
       \/ At(Producer, "freed", "destroy") /\ UNCHANGED <<memory, ammo>>
    /\ UNCHANGED <<ring, total_events_to_send, fired, sent, is_sending, pinned>>

----------------------------------------------------------------------------
\* tcp_sender_node::run(): nothing without a socket.
SenderRun ==
    /\ \/ At(Consumer, "run", "loop") /\ is_sending' = TRUE
       \/ At(Consumer, "run", "exit") /\ UNCHANGED is_sending
    /\ UNCHANGED <<memory, ring, total_events_to_send, ammo, fired, sent, pinned>>

SenderLoop ==
    /\ \/ /\ At(Consumer, "loop", IF is_sending THEN "pop" ELSE "exit")
          /\ UNCHANGED <<ring, freeList, registers, sent>>
       \/ Pop("loop") /\ UNCHANGED sent
       \/ /\ At(Consumer, "popped", "loop")
          /\ sent' = sent + 1
          /\ UNCHANGED <<ring, freeList, registers>>
    /\ UNCHANGED <<free_count, total_events_to_send, ammo, fired, is_sending, pinned>>

SenderStop ==
    /\ is_sending
    /\ is_sending' = FALSE
    /\ UNCHANGED <<pc, memory, ring, total_events_to_send, ammo, fired, sent, pinned>>

Generator == ArmWeapon \/ Fire \/ Destroy
Sender == SenderRun \/ SenderLoop

LoadNext == Generator \/ Sender \/ SenderStop

----------------------------------------------------------------------------
\* Every block is once in the free list, or in the magazine, or on its way
\* between them; the destructor gives back each block it took, once.
AmmoConserved ==
    LET moving == {"count_taken", "allocated", "free", "link", "give"}
    IN  \E s \in FreeLists :
          \A b \in Block :
              IsSingleton(({"free"} \X Positions(s, b))
                            \cup ({"ammo"} \X Positions(ammo, b))
                            \cup ({"held"} \X (Holders(moving, b) \cap {Producer})))

\* However slow the sender is, fire() ends and every event is sent, once;
\* unless the sender has no socket or is stopped.
AllSent ==
    pc[Producer] = "fire" ~> (sent = total_events_to_send \/ pc[Consumer] = "exit")
=============================================================================

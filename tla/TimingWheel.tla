----------------------------- MODULE TimingWheel -----------------------------
(***************************************************************************)
(* cre::core::timing_wheel (include/conduit/pending/core/timing_wheel.hpp):*)
(* a ring of buckets, each the head of a doubly linked list of timers that *)
(* runs through the nodes themselves.  current_tick_ only counts modulo    *)
(* WheelSlots, which divides 2^64.                                         *)
(***************************************************************************)
EXTENDS Integers

CONSTANTS
    Node,                \* the indices of the timing_nodes
    END_OF_LIST,         \* no index
    WheelSlots           \* a power of two

ASSUME WheelAssumption ==
    /\ END_OF_LIST \notin Node \cup 0 .. WheelSlots - 1
    /\ WheelSlots \in Nat \ {0}
    /\ \E k \in 0 .. WheelSlots : WheelSlots = 2 ^ k

VARIABLES
    buckets,             \* buckets_
    current_tick,        \* current_tick_ & SLOT_MASK
    timer_next, timer_prev, wheel_bucket    \* of each node

nodes == <<timer_next, timer_prev, wheel_bucket>>
wheel == <<buckets, current_tick, nodes>>

Slot == 0 .. WheelSlots - 1

WheelInit ==
    /\ buckets = [s \in Slot |-> END_OF_LIST]
    /\ current_tick = 0
    /\ timer_next = [n \in Node |-> END_OF_LIST]
    /\ timer_prev = [n \in Node |-> END_OF_LIST]
    /\ wheel_bucket = [n \in Node |-> END_OF_LIST]

\* f with y at x, unless x is END_OF_LIST
Set(f, x, y) == IF x = END_OF_LIST THEN f ELSE [f EXCEPT ![x] = y]

Clamp(delay_ticks) == IF delay_ticks >= WheelSlots THEN WheelSlots - 1 ELSE delay_ticks

ScheduleUnclamped(n, delay_ticks) ==
    LET b == (current_tick + delay_ticks) % WheelSlots
    IN  /\ timer_next' = [timer_next EXCEPT ![n] = buckets[b]]
        /\ timer_prev' = Set([timer_prev EXCEPT ![n] = END_OF_LIST], buckets[b], n)
        /\ wheel_bucket' = [wheel_bucket EXCEPT ![n] = b]
        /\ buckets' = [buckets EXCEPT ![b] = n]
        /\ UNCHANGED current_tick

Schedule(n, delay_ticks) ==
    LET b == (current_tick + Clamp(delay_ticks)) % WheelSlots
    IN  /\ timer_next' = [timer_next EXCEPT ![n] = buckets[b]]
        /\ timer_prev' = Set([timer_prev EXCEPT ![n] = END_OF_LIST], buckets[b], n)
        /\ wheel_bucket' = [wheel_bucket EXCEPT ![n] = b]
        /\ buckets' = [buckets EXCEPT ![b] = n]
        /\ UNCHANGED current_tick

CancelForgettingPrev(n) ==
    IF wheel_bucket[n] = END_OF_LIST THEN UNCHANGED wheel
    ELSE /\ timer_next' = Set(timer_next, timer_prev[n], timer_next[n])
         /\ buckets' = IF timer_prev[n] # END_OF_LIST THEN buckets
                       ELSE [buckets EXCEPT ![wheel_bucket[n]] = timer_next[n]]
         /\ wheel_bucket' = [wheel_bucket EXCEPT ![n] = END_OF_LIST]
         /\ UNCHANGED <<current_tick, timer_prev>>

\* The links of n itself stay as they are.
Cancel(n) ==
    IF wheel_bucket[n] = END_OF_LIST THEN UNCHANGED wheel
    ELSE /\ timer_next' = Set(timer_next, timer_prev[n], timer_next[n])
         /\ buckets' = IF timer_prev[n] # END_OF_LIST THEN buckets
                       ELSE [buckets EXCEPT ![wheel_bucket[n]] = timer_next[n]]
         /\ timer_prev' = Set(timer_prev, timer_next[n], timer_prev[n])
         /\ wheel_bucket' = [wheel_bucket EXCEPT ![n] = END_OF_LIST]
         /\ UNCHANGED current_tick

\* tick() returns the list of the bucket it reaches; nothing tells its nodes.
Expired == buckets[(current_tick + 1) % WheelSlots]

Tick ==
    /\ current_tick' = (current_tick + 1) % WheelSlots
    /\ buckets' = [buckets EXCEPT ![current_tick'] = END_OF_LIST]
    /\ UNCHANGED nodes

----------------------------------------------------------------------------
\* The nodes of the list that begins at n: the smallest set of nodes with n in it that
\* timer_next does not leave.
Chain(n) ==
    {m \in Node :
        \A C \in SUBSET Node :
            n \in C \cup {END_OF_LIST} /\ (\A k \in C : timer_next[k] \in C \cup {END_OF_LIST})
              => m \in C}
=============================================================================

------------------------------ MODULE ClockNode ------------------------------
(***************************************************************************)
(* cre::io::clock_node (include/conduit/pending/io/clock_node.hpp): a      *)
(* thread that puts a tick_event into a conduit whenever resolution_ms_    *)
(* has passed.  Real time advances by a fraction of a millisecond.  The    *)
(* conduit is the bounded queue that Conduit implements.                   *)
(***************************************************************************)
EXTENDS Integers

CONSTANTS
    Millisecond,         \* steps of real time in a millisecond
    resolution_ms,       \* resolution_ms_
    TickBound,           \* tick events the conduit can hold
    MaxTime              \* where the two measures of time below saturate

ASSUME ClockAssumption ==
    /\ Millisecond \in Nat \ {0} /\ resolution_ms \in Nat
    /\ TickBound \in Nat /\ MaxTime \in Nat

VARIABLES
    clock,               \* where run() is: "none", "loop" or "exit"
    clock_running,       \* is_running_
    since,               \* real time since last_tick
    ticks,               \* tick events in the conduit
    owed                 \* real time that no queued or delivered delta_ms accounts for

clockVars == <<clock, clock_running, since, ticks, owed>>

ClockInit ==
    /\ clock = "none" /\ clock_running = FALSE
    /\ since = 0 /\ ticks = 0 /\ owed = 0

Later(time) == IF time < MaxTime THEN time + 1 ELSE time

TimePasses ==
    /\ clock_running
    /\ since' = Later(since)
    /\ owed' = Later(owed)
    /\ UNCHANGED <<clock, clock_running, ticks>>

Run ==
    /\ clock = "none"
    /\ clock' = "loop" /\ clock_running' = TRUE
    /\ UNCHANGED <<since, ticks, owed>>

\* delta_ms: the cast drops the fraction of a millisecond.
Elapsed == since \div Millisecond

PushKeepsASlotFree ==
    \/ /\ ticks + 1 < TickBound
       /\ ticks' = ticks + 1
       /\ owed' = owed - Elapsed * Millisecond
    \/ UNCHANGED <<ticks, owed>>

\* make() and push(): without an event or without room the time disappears.
Push ==
    \/ /\ ticks < TickBound
       /\ ticks' = ticks + 1
       /\ owed' = owed - Elapsed * Millisecond
    \/ UNCHANGED <<ticks, owed>>

EmitTickWithoutLast ==
    /\ clock = "loop" /\ clock_running
    /\ Elapsed >= resolution_ms
    /\ Push
    /\ UNCHANGED <<clock, clock_running, since>>

\* last_tick becomes now whether or not the event got through.
EmitTick ==
    /\ clock = "loop" /\ clock_running
    /\ Elapsed >= resolution_ms
    /\ Push
    /\ since' = 0
    /\ UNCHANGED <<clock, clock_running>>

Leave ==
    /\ clock = "loop" /\ ~clock_running
    /\ clock' = "exit"
    /\ UNCHANGED <<clock_running, since, ticks, owed>>

\* From here on nothing measures time.
StopClock ==
    /\ clock_running
    /\ clock_running' = FALSE
    /\ since' = 0 /\ owed' = 0
    /\ UNCHANGED <<clock, ticks>>

\* The core takes a tick event from the conduit.
PopTick ==
    /\ ticks > 0
    /\ ticks' = ticks - 1
    /\ UNCHANGED <<clock, clock_running, since, owed>>

----------------------------------------------------------------------------
ClockStep == Run \/ TimePasses \/ EmitTick \/ Leave \/ StopClock

ClockSpec == ClockInit /\ [][ClockStep \/ PopTick]_clockVars

\* The milliseconds that the core has been told of never exceed the real time
\* since the clock started: lost events and the fractions that the clock drops
\* make the core late, never early.
CoreNeverAhead == owed >= since
=============================================================================

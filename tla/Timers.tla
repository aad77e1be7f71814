------------------------------- MODULE Timers -------------------------------
(***************************************************************************)
(* A timing_wheel driven by a clock_node: the compute core, alone with the *)
(* wheel, pops a tick event, calls tick() and walks the list it returns,   *)
(* reading a node's timer_next before it handles the node.  Between two    *)
(* ticks, and in the handler of a node, user code sets and cancels timers. *)
(***************************************************************************)
EXTENDS TimingWheel, ClockNode

CONSTANTS
    Delay,               \* the delay_ticks that user code asks for
    Cancellable          \* the states of a timer in which user code cancels it

\* User code cancels no timer that the wheel has already given up.
ASSUME UserAssumption == Delay \subseteq Nat /\ Cancellable \subseteq {"idle", "set"}

VARIABLES
    timer,               \* "idle", "set", "expired" or "fired": what user code knows
    left,                \* ticks until a timer that is set is due, else 0
    expired              \* the rest of the list that the core walks

user == <<timer, left, expired>>
vars == <<wheel, clockVars, user>>

Init ==
    /\ WheelInit /\ ClockInit
    /\ timer = [n \in Node |-> "idle"]
    /\ left = [n \in Node |-> 0]
    /\ expired = END_OF_LIST

Clock ==
    /\ ClockStep
    /\ UNCHANGED <<wheel, user>>

\* A delay of zero is a whole turn of the wheel.
DueIn(d) == IF Clamp(d) = 0 THEN WheelSlots ELSE Clamp(d)

SetTimer ==
    \E n \in Node, d \in Delay :
        /\ timer[n] \in {"idle", "fired"}
        /\ Schedule(n, d)
        /\ timer' = [timer EXCEPT ![n] = "set"]
        /\ left' = [left EXCEPT ![n] = DueIn(d)]
        /\ UNCHANGED <<clockVars, expired>>

CancelTimer ==
    \E n \in Node :
        /\ timer[n] \in Cancellable
        /\ Cancel(n)
        /\ timer' = [timer EXCEPT ![n] = "idle"]
        /\ left' = [left EXCEPT ![n] = 0]
        /\ UNCHANGED <<clockVars, expired>>

CoreTick ==
    /\ expired = END_OF_LIST
    /\ PopTick
    /\ Tick
    /\ expired' = Expired
    /\ timer' = [n \in Node |-> IF left[n] = 1 THEN "expired" ELSE timer[n]]
    /\ left' = [n \in Node |-> IF left[n] = 0 THEN 0 ELSE left[n] - 1]

\* The walk meets a node; it is up to user code from then on.
Fire ==
    /\ expired # END_OF_LIST
    /\ expired' = timer_next[expired]
    /\ timer' = [timer EXCEPT ![expired] = "fired"]
    /\ UNCHANGED <<wheel, clockVars, left>>

Next == Clock \/ SetTimer \/ CancelTimer \/ CoreTick \/ Fire

\* Time passes, both threads run, and a tick event that there is room for gets
\* through in the end.
Spec ==
    /\ Init
    /\ [][Next]_vars
    /\ WF_vars((Run \/ TimePasses) /\ UNCHANGED <<wheel, user>>)
    /\ SF_vars(EmitTick /\ ticks' > ticks /\ UNCHANGED <<wheel, user>>)
    /\ WF_vars(CoreTick \/ Fire)

----------------------------------------------------------------------------
\* The timers set for the tick that reaches slot s, and those that the core has been
\* given and has not handled.
Due(s) == {n \in Node : left[n] # 0 /\ (current_tick + left[n]) % WheelSlots = s}
Unhandled == {n \in Node : timer[n] = "expired"}

\* The list of each bucket is well linked in both directions, its nodes know the
\* bucket, and they are exactly the timers set for the tick that reaches it:
\* no cancel or schedule has cut off, duplicated or moved another timer.
WheelIntact ==
    \A s \in Slot :
        /\ Chain(buckets[s]) = Due(s)
        /\ \A n \in Due(s) :
              /\ wheel_bucket[n] = s
              /\ n = buckets[s] <=> timer_prev[n] = END_OF_LIST
              /\ timer_next[n] # END_OF_LIST => timer_prev[timer_next[n]] = n

\* What the core still has to walk is the timers that are due and have not been
\* handled, whatever the handlers before them have set, and the walk comes to
\* none of them twice: each timer is handed to the core once, at the tick it was
\* set for.
WalkMeetsAllDue ==
    /\ Chain(expired) = Unhandled
    /\ \A m, n \in Unhandled :
          /\ timer_next[m] # expired
          /\ timer_next[m] = timer_next[n] => m = n \/ timer_next[m] = END_OF_LIST

\* A timer that is set is cancelled or handled, not just reached by the wheel and
\* lost, although ticks may be dropped; unless the clock is stopped.
TimersFire ==
    \A n \in Node :
        timer[n] \in {"set", "expired"} ~>
            (timer[n] \in {"idle", "fired"} \/ (clock # "none" /\ ~clock_running))
=============================================================================

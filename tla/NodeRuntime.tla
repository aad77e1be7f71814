---------------------------- MODULE NodeRuntime ----------------------------
(***************************************************************************)
(* cre::runtime::node_runtime (include/conduit/runtime/node_runtime.hpp):  *)
(* one thread calls run(), which polls every binding in turn until another *)
(* thread calls stop().  A conduit found dead is reported once through its *)
(* on_dead callback, which may bind a new socket to it.                    *)
(*                                                                         *)
(* What becomes of the frames is NetworkedConduit's concern.  What matters *)
(* here is that poll_rx reads on until the socket is empty, however long   *)
(* that takes, and that either poll may find the connection gone.          *)
(***************************************************************************)
EXTENDS Integers

CONSTANTS
    NumBindings,         \* number of bindings
    MaxBinds,            \* bound: how often a socket is bound to each conduit
    KernelBuffer,        \* how much a socket holds for recv()
    StopWaits            \* is stop() only called once run() is polling?

ASSUME BindingsAssumption == NumBindings \in Nat \ {0}
ASSUME MaxBindsAssumption == MaxBinds \in Nat
ASSUME KernelBufferAssumption == KernelBuffer \in Nat \ {0}
ASSUME StopWaitsAssumption == StopWaits \in BOOLEAN

Binding == 1 .. NumBindings

VARIABLES
    is_running,          \* is_running_
    alive,               \* is_alive() of each conduit
    pending,             \* what each socket holds for recv()
    on_dead,             \* is the callback of each binding still set?
    pc, b,               \* the running thread: where it is, the binding it polls
    stopping,            \* has stop() been called?
    \* Bound and history.
    binds,               \* how often each conduit was bound
    reports              \* how often on_dead was called for each binding

vars == <<is_running, alive, pending, on_dead, pc, b, stopping, binds, reports>>

\* The conduits are bound, or not yet; each binding has a callback, or none.
Init ==
    /\ is_running = FALSE
    /\ alive \in [Binding -> BOOLEAN]
    /\ pending = [k \in Binding |-> 0]
    /\ on_dead \in [Binding -> BOOLEAN]
    /\ pc = "start"
    /\ b = 1
    /\ stopping = FALSE
    /\ binds = [k \in Binding |-> 0]
    /\ reports = [k \in Binding |-> 0]

\* run(): is_running_.store(true)
Run ==
    /\ pc = "start"
    /\ is_running' = TRUE
    /\ pc' = "loop"
    /\ UNCHANGED <<alive, pending, on_dead, b, stopping, binds, reports>>

\* while (is_running_.load())
EnterRound ==
    /\ pc = "loop"
    /\ is_running
    /\ pc' = "poll"
    /\ b' = 1
    /\ UNCHANGED <<is_running, alive, pending, on_dead, stopping, binds, reports>>

ExitIgnoresStop ==
    /\ pc = "loop"
    /\ ~is_running
    /\ pc' = "poll"
    /\ b' = 1
    /\ UNCHANGED <<is_running, alive, pending, on_dead, stopping, binds, reports>>

Exit ==
    /\ pc = "loop"
    /\ ~is_running
    /\ pc' = "exited"
    /\ UNCHANGED <<is_running, alive, pending, on_dead, b, stopping, binds, reports>>

\* The fold over the bindings goes on, or back to the test of the loop.
NextBindingSkipsLast ==
    /\ b' = IF b < NumBindings - 1 THEN b + 1 ELSE b
    /\ pc' = IF b < NumBindings - 1 THEN "poll" ELSE "loop"

NextBinding ==
    /\ b' = IF b < NumBindings THEN b + 1 ELSE b
    /\ pc' = IF b < NumBindings THEN "poll" ELSE "loop"

\* poll_single, alive: poll_rx begins.
PollAlive ==
    /\ pc = "poll"
    /\ alive[b]
    /\ pc' = "rx"
    /\ UNCHANGED <<is_running, alive, pending, on_dead, b, stopping, binds, reports>>

\* recv() yields something, and poll_rx goes round its loop.
PollMore ==
    /\ pc = "rx"
    /\ pending[b] > 0
    /\ pending' = [pending EXCEPT ![b] = @ - 1]
    /\ UNCHANGED <<is_running, alive, on_dead, pc, b, stopping, binds, reports>>

\* recv() would block, and poll_tx sends what it can; or either of them finds the
\* connection gone, with what was still to be read.
PollEnds ==
    /\ pc = "rx"
    /\ \/ pending[b] = 0 /\ UNCHANGED <<alive, pending>>
       \/ /\ alive' = [alive EXCEPT ![b] = FALSE]
          /\ pending' = [pending EXCEPT ![b] = 0]
    /\ NextBinding
    /\ UNCHANGED <<is_running, on_dead, stopping, binds, reports>>

\* poll_single, dead: the callback is called, and cleared.
Report ==
    /\ pc = "poll"
    /\ ~alive[b]
    /\ on_dead[b]
    /\ on_dead' = [on_dead EXCEPT ![b] = FALSE]
    /\ reports' = [reports EXCEPT ![b] = @ + 1]
    /\ \/ alive' = alive /\ binds' = binds
       \/ /\ binds[b] < MaxBinds
          /\ alive' = [alive EXCEPT ![b] = TRUE]
          /\ binds' = [binds EXCEPT ![b] = @ + 1]
    /\ NextBinding
    /\ UNCHANGED <<is_running, pending, stopping>>

PollDead ==
    /\ pc = "poll"
    /\ ~alive[b]
    /\ ~on_dead[b]
    /\ NextBinding
    /\ UNCHANGED <<is_running, alive, pending, on_dead, stopping, binds, reports>>

\* stop(), on another thread.
Stop ==
    /\ ~stopping
    /\ StopWaits => is_running
    /\ stopping' = TRUE
    /\ is_running' = FALSE
    /\ UNCHANGED <<alive, pending, on_dead, pc, b, binds, reports>>

\* Someone else than the callback binds a socket to a dead conduit.
Bind(k) ==
    /\ ~alive[k]
    /\ binds[k] < MaxBinds
    /\ alive' = [alive EXCEPT ![k] = TRUE]
    /\ binds' = [binds EXCEPT ![k] = @ + 1]
    /\ UNCHANGED <<is_running, pending, on_dead, pc, b, stopping, reports>>

\* The peer sends, as often as it likes.
Arrive(k) ==
    /\ alive[k]
    /\ pending[k] < KernelBuffer
    /\ pending' = [pending EXCEPT ![k] = @ + 1]
    /\ UNCHANGED <<is_running, alive, on_dead, pc, b, stopping, binds, reports>>

Step ==
    \/ Run \/ EnterRound \/ Exit
    \/ PollAlive \/ PollMore \/ PollEnds
    \/ Report \/ PollDead

Next == Step \/ Stop \/ \E k \in Binding : Bind(k) \/ Arrive(k)

Spec == Init /\ [][Next]_vars

\* The thread that called run() is scheduled.
FairSpec == Spec /\ WF_vars(Step)

----------------------------------------------------------------------------
\* Every poll_rx returns: no peer keeps its socket filled for ever.
PollsReturn == []<>(pc # "rx")

\* stop() makes run() return, unless a peer never lets poll_rx return.
StopEndsRun == PollsReturn => (stopping ~> pc = "exited")

\* Every conduit is polled again and again until run() is told to stop: bindings
\* that are dead, or that come and go, never keep the others from their turn.
EveryBindingPolled ==
    PollsReturn => \A k \in Binding : []<>(pc = "poll" /\ b = k) \/ <>stopping

\* A conduit that stays dead is reported, if it has a callback, even while others
\* are busy.
DeathReported ==
    PollsReturn => \A k \in Binding :
        ~alive[k] /\ on_dead[k] ~> alive[k] \/ reports[k] > 0 \/ stopping
=============================================================================

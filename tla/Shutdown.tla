------------------------------ MODULE Shutdown ------------------------------
(***************************************************************************)
(* Programs of one producer, one conduit and one consumer, and how they    *)
(* end: 03_graceful_drain, 02_heartbeat_timeouts and 01_lockfree_spsc_bus  *)
(* (examples/) send a last event that tells the consumer to leave;         *)
(* async_logger_node and logger_client (include/conduit/pending/           *)
(* supplemental/async_logger.hpp) are stopped by a flag.                   *)
(*                                                                         *)
(* The three examples push make(...).release(): if the conduit refuses the *)
(* pointer nobody owns the cell any more, and if the pool is exhausted the *)
(* pointer is null, is pushed all the same, and looks to the consumer like *)
(* an empty conduit.  logger_client keeps its event_ptr until push accepts *)
(* the event.  make, free, push and pop are atomic, as EventPool and       *)
(* Conduit justify.                                                        *)
(***************************************************************************)
EXTENDS Integers, Sequences

CONSTANTS
    Memory,              \* the cells of the pool
    nullptr,
    PipeSlots,           \* events that the conduit holds
    Events               \* 50, 3 and 2: events sent before the last one

VARIABLES
    example,             \* which program runs
    unused,              \* the cells in the pool
    raw,                 \* the event between make() and push()
    at,                  \* where the producer is
    made,                \* event_counter, i: events counted by the producer
    requested,           \* global_shutdown_requested; ~is_running_ of the logger
    pipe,                \* the conduit
    popped,              \* the consumer's event_ptr
    left,                \* has the consumer left its loop?
    last,                \* the cells whose event tells the consumer to leave
    \* History.
    lost,                \* cells whose only pointer was refused by push()
    starved              \* did make() ever return null?

producing == <<raw, at, made, requested>>
consuming == <<popped, left>>
handoff == <<example, unused, producing, pipe, consuming, last, lost, starved>>

HandoffInit ==
    /\ example \in {"drain", "heartbeat", "bus", "log"}
    /\ unused = Memory
    /\ raw = nullptr /\ at = "top" /\ made = 0 /\ requested = FALSE
    /\ pipe = <<>>
    /\ popped = nullptr /\ left = FALSE
    /\ last = {} /\ lost = {} /\ starved = FALSE

----------------------------------------------------------------------------
\* domain.make(): a cell, or null.
NewEvent(to) ==
    /\ at' = to
    /\ IF unused = {} THEN raw' = nullptr /\ starved' = TRUE /\ UNCHANGED unused
       ELSE /\ \E c \in unused : raw' = c /\ unused' = unused \ {c}
            /\ UNCHANGED starved
    /\ UNCHANGED <<made, requested, pipe, lost>>

NewTask(to) == NewEvent(to) /\ last' = last \ {raw'}
NewLast(to) == NewEvent(to) /\ last' = last \cup ({raw'} \ {nullptr})

HasSlot == Len(pipe) < PipeSlots

\* push(ptr) of a released pointer.
PushReleased(accepted, refused) ==
    /\ at' = IF HasSlot THEN accepted ELSE refused
    /\ pipe' = IF HasSlot THEN Append(pipe, raw) ELSE pipe
    /\ lost' = IF HasSlot THEN lost ELSE lost \cup ({raw} \ {nullptr})
    /\ raw' = nullptr
    /\ UNCHANGED <<unused, last, starved>>

\* join(): waits for the consumer.
Halt ==
    /\ at = "join" /\ left
    /\ at' = "halted"
    /\ UNCHANGED <<unused, raw, made, requested, pipe, last, lost, starved>>

\* The body of a consumer's loop: pop(), and ~event_ptr.
Consume ==
    /\ ~left
    /\ IF popped = nullptr
       THEN /\ pipe # <<>>
            /\ popped' = Head(pipe) /\ pipe' = Tail(pipe)
            /\ UNCHANGED <<unused, left, last>>
       ELSE /\ unused' = unused \cup {popped} /\ popped' = nullptr
            /\ left' = (popped \in last) /\ last' = last \ {popped}
            /\ UNCHANGED pipe

----------------------------------------------------------------------------
\* main of 03_graceful_drain: events until a shutdown is requested, the last event
\* again and again until it is accepted, and the join.
DrainMain ==
    \/ /\ at = "top"
       /\ IF requested THEN NewLast("last")
          ELSE NewTask("push")
    \/ /\ at = "push"
       /\ PushReleased("top", "top")
       /\ made' = made + 1
       /\ requested' = (requested \/ made' = Events)
    \/ /\ at = "last"
       /\ PushReleased("join", "top")
       /\ UNCHANGED <<made, requested>>
    \/ Halt

\* SIGINT
SignalHandler ==
    /\ ~requested
    /\ requested' = TRUE
    /\ UNCHANGED <<unused, raw, at, made, pipe, last, lost, starved>>

DrainWorker == Consume

\* The chronos thread of 02_heartbeat_timeouts: a tick is made anew until one is
\* accepted; the last event is pushed once.
ChronosThread ==
    \/ /\ at = "top"
       /\ IF made < Events THEN NewTask("push") ELSE NewLast("last")
    \/ /\ at = "push"
       /\ PushReleased("top", "top")
       /\ made' = made + (IF HasSlot THEN 1 ELSE 0)
       /\ UNCHANGED requested
    \/ /\ at = "last"
       /\ PushReleased("join", "join")
       /\ UNCHANGED <<made, requested>>

\* Its main thread consumes, and joins when it has left the loop.
HeartbeatLoop == Consume
HeartbeatJoin == Halt

\* main of 01_lockfree_spsc_bus: each event is pushed once.
BusMain ==
    \/ /\ at = "top"
       /\ IF made < Events THEN NewTask("push") ELSE NewLast("last")
    \/ /\ at = "push"
       /\ PushReleased("top", "top")
       /\ made' = made + 1
       /\ UNCHANGED requested
    \/ /\ at = "last"
       /\ PushReleased("join", "join")
       /\ UNCHANGED <<made, requested>>
    \/ Halt

BackgroundProcessor == Consume

\* logger_client::log: without an event nothing happens; a refused one goes back.
Log ==
    \/ /\ at = "top" /\ unused # {}
       /\ NewTask("push")
    \/ /\ at = "push"
       /\ at' = "top" /\ raw' = nullptr
       /\ pipe' = IF HasSlot THEN Append(pipe, raw) ELSE pipe
       /\ unused' = IF HasSlot THEN unused ELSE unused \cup {raw}
       /\ UNCHANGED <<made, requested, last, lost, starved>>

\* async_logger_node::run leaves once it sees the stop(), whatever is in the conduit;
\* is_running_ is a plain bool, so it may go on for a while.
LoggerRun ==
    \/ Consume
    \/ /\ requested /\ popped = nullptr /\ ~left
       /\ left' = TRUE
       /\ UNCHANGED <<unused, pipe, popped, last>>

\* stop(); before run() it has no effect.
LoggerStop == SignalHandler

----------------------------------------------------------------------------
Producer ==
    /\ \/ example = "drain" /\ DrainMain
       \/ example = "heartbeat" /\ (ChronosThread \/ HeartbeatJoin)
       \/ example = "bus" /\ BusMain
       \/ example = "log" /\ Log
    /\ UNCHANGED <<example, consuming>>

Consumer ==
    /\ \/ example = "drain" /\ DrainWorker
       \/ example = "heartbeat" /\ HeartbeatLoop
       \/ example = "bus" /\ BackgroundProcessor
       \/ example = "log" /\ LoggerRun
    /\ UNCHANGED <<example, producing, lost, starved>>

Interrupt ==
    /\ \/ example = "drain" /\ SignalHandler
       \/ example = "log" /\ LoggerStop
    /\ UNCHANGED <<example, consuming>>

HandoffNext == Producer \/ Consumer \/ Interrupt

----------------------------------------------------------------------------
\* The consumer has left, and every cell is back in the pool but for those that a
\* refused push() lost.
HaltedClean == at = "halted" /\ left /\ pipe = <<>> /\ unused = Memory \ lost

\* The three examples end, with the conduit drained and every cell returned that push()
\* did not refuse; unless the pool was exhausted, or the conduit was full for
\* the one push() of the last event of 02_heartbeat_timeouts or 01_lockfree_spsc_bus.
ExamplesHalt ==
    example # "log" ~>
        HaltedClean \/ starved \/ (example # "drain" /\ lost \cap last # {})

\* The logger returns every cell that log() took, until it is stopped.
LogCellsReturn ==
    \A c \in Memory : example = "log" /\ c \notin unused ~> c \in unused \/ requested
=============================================================================

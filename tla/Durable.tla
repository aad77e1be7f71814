------------------------------- MODULE Durable -------------------------------
(***************************************************************************)
(* The durable log (include/conduit/pending/storage/): durable_sink        *)
(* appends the raw bytes of each event to a file, durable_source reads     *)
(* them back into cells of a pool and pushes these into a conduit, whose   *)
(* worker hands them to a deterministic_saga (pending/workflow/            *)
(* state_machine.hpp).  The source's and the worker's event_ptr are those  *)
(* of EventPtr; the conduit is the bounded queue that Conduit implements,  *)
(* and takes a cell from the event_ptr only when it accepts it.            *)
(*                                                                         *)
(* An event is its number in the order of logging.  sizeof(Event) is two:  *)
(* the byte that holds workflow_id and a byte of payload.                  *)
(***************************************************************************)
EXTENDS EventPtr, Integers, Sequences

CONSTANTS
    MaxEvents,           \* events logged in a run
    MaxConcurrentWorkflows,
    Bound                \* cells the conduit can hold

VARIABLES
    file,                \* the bytes of the log: [event, byte]
    logged,              \* the events handed to the sink whose traces a crash has not erased
    last,                \* the number of the last event
    bytes_written,       \* bytes_written_ of the sink
    aligned,             \* has every append been whole, and begun where a record begins?
    phase,               \* "log", then "replay" while run_replay runs, then "done"
    is_running,          \* is_running_ of the source
    offset,              \* bytes of the file read
    content,             \* the bytes in each cell
    queue,               \* the conduit
    slots,               \* slots_: the records each workflow has been handed
    handled,             \* all records handed to the saga
    interrupted          \* was the replay stopped, or did open() or a read() fail?

log == <<file, logged, last, bytes_written, aligned>>
handles == <<ptr, deleter, free, bare>>
allVars == <<handles, log, phase, is_running, offset, content, queue, slots, handled, interrupted>>

sizeofEvent == 2
Bytes(e) == [b \in 1 .. sizeofEvent |-> [event |-> e, byte |-> b]]

WorkflowId(e) == e % (MaxConcurrentWorkflows + 1)

DurableInit ==
    /\ Init
    /\ file = <<>> /\ logged = <<>> /\ last = 0 /\ bytes_written = 0 /\ aligned = TRUE
    /\ phase = "log" /\ is_running = FALSE /\ offset = 0
    /\ content = [c \in Cell |-> <<>>]
    /\ queue = <<>>
    /\ handled = <<>> /\ interrupted = FALSE
    /\ slots = [id \in 0 .. MaxConcurrentWorkflows - 1 |-> <<>>]

----------------------------------------------------------------------------
\* durable_sink::on: write() may append all of the event, a part of it or none.
Log ==
    /\ phase = "log" /\ last < MaxEvents
    /\ last' = last + 1
    /\ logged' = Append(logged, last')
    /\ \E written \in 0 .. sizeofEvent :
          /\ file' = file \o SubSeq(Bytes(last'), 1, written)
          /\ bytes_written' = bytes_written + (IF written = sizeofEvent THEN written ELSE 0)
          /\ aligned' = (aligned /\ written = sizeofEvent /\ Len(file) % sizeofEvent = 0)
    /\ UNCHANGED <<handles, phase, is_running, offset, content, queue, slots, handled, interrupted>>

\* The machine stops; nothing was flushed on purpose, so any suffix of the file
\* may be missing.  A new sink opens what is left with O_APPEND.
Crash ==
    /\ phase = "log"
    /\ \E kept \in 0 .. Len(file) :
          /\ file' = SubSeq(file, 1, kept)
          /\ logged' = SubSeq(logged, 1, kept \div sizeofEvent)
    /\ bytes_written' = 0
    /\ UNCHANGED <<handles, last, aligned, phase, is_running, offset, content, queue, slots, handled, interrupted>>

\* run_replay(): at once over if the file did not open.
StartReplay ==
    /\ phase = "log"
    /\ \/ phase' = "replay" /\ is_running' = TRUE
             /\ UNCHANGED interrupted
       \/ phase' = "done" /\ interrupted' = TRUE /\ UNCHANGED is_running
    /\ UNCHANGED <<handles, log, offset, content, queue, slots, handled>>

----------------------------------------------------------------------------
source == "source"
worker == "worker"

ASSUME ThreadsAssumption == source \in Var /\ worker \in Var

\* make_uninitialized(): with the pool exhausted the loop yields and tries again.
MakeUninitialized ==
    /\ phase = "replay" /\ is_running
    /\ ptr[source] = NULL
    /\ \E c \in Cell : Make(source, c)
    /\ UNCHANGED <<log, phase, is_running, offset, content, queue, slots, handled, interrupted>>

Reading == phase = "replay" /\ ptr[source] # NULL /\ content[ptr[source]] = <<>>
Pushing == phase = "replay" /\ ptr[source] # NULL /\ content[ptr[source]] # <<>>
RecordLeft == offset + sizeofEvent <= Len(file)

\* read() of a whole record into the cell.
ReadRecord ==
    /\ Reading /\ RecordLeft
    /\ content' = [content EXCEPT ![ptr[source]] = SubSeq(file, offset + 1, offset + sizeofEvent)]
    /\ offset' = offset + sizeofEvent
    /\ UNCHANGED <<handles, log, phase, is_running, queue, slots, handled, interrupted>>

EndReplayWaitsForMore ==
    /\ phase = "replay"
    /\ \/ ~is_running /\ ptr[source] = NULL
       \/ ~is_running /\ Pushing /\ Len(queue) = Bound
    /\ phase' = "done" /\ is_running' = FALSE
    /\ Reset(source)
    /\ UNCHANGED <<log, offset, content, queue, slots, handled, interrupted>>

\* The loop ends: with a read() that meets the end of the file, finds a part of a
\* record or fails, or after stop(), at its top or with the conduit full.
EndReplay ==
    /\ phase = "replay"
    /\ \/ Reading
       \/ ~is_running /\ ptr[source] = NULL
       \/ ~is_running /\ Pushing /\ Len(queue) = Bound
    /\ phase' = "done" /\ is_running' = FALSE
    /\ interrupted' = (interrupted \/ (Reading /\ RecordLeft))
    /\ Reset(source)
    /\ UNCHANGED <<log, offset, content, queue, slots, handled>>

PushFirstTryOnly ==
    /\ Pushing
    /\ IF Len(queue) < Bound THEN queue' = Append(queue, ptr[source]) /\ Release(source)
       ELSE UNCHANGED queue /\ Reset(source)
    /\ UNCHANGED <<log, phase, is_running, offset, content, slots, handled, interrupted>>

PushReleasesFirst ==
    /\ Pushing
    /\ queue' = IF Len(queue) < Bound THEN Append(queue, ptr[source]) ELSE queue
    /\ Release(source)
    /\ UNCHANGED <<log, phase, is_running, offset, content, slots, handled, interrupted>>

\* push(std::move(ev)); while the conduit is full the loop tries again.
Push ==
    /\ Pushing
    /\ Len(queue) < Bound
    /\ queue' = Append(queue, ptr[source])
    /\ Release(source)
    /\ UNCHANGED <<log, phase, is_running, offset, content, slots, handled, interrupted>>

StopReplay ==
    /\ phase = "replay" /\ is_running
    /\ is_running' = FALSE
    /\ interrupted' = TRUE
    /\ UNCHANGED <<handles, log, phase, offset, content, queue, slots, handled>>

----------------------------------------------------------------------------
Pop ==
    /\ queue # <<>>
    /\ Adopt(worker, Head(queue))
    /\ queue' = Tail(queue)
    /\ UNCHANGED <<log, phase, is_running, offset, content, slots, handled, interrupted>>

SagaOnFolds(record, id) ==
    /\ record[1].byte = 1 => id = WorkflowId(record[1].event)
    /\ slots' = [slots EXCEPT ![id % MaxConcurrentWorkflows] = Append(@, record)]

\* deterministic_saga::on.  A record whose first byte is no workflow_id may name
\* any workflow, or none.
SagaOn(record, id) ==
    /\ record[1].byte = 1 => id = WorkflowId(record[1].event)
    /\ slots' = IF id >= MaxConcurrentWorkflows THEN slots
                ELSE [slots EXCEPT ![id] = Append(@, record)]

Handle ==
    /\ ptr[worker] # NULL
    /\ \E id \in 0 .. MaxConcurrentWorkflows : SagaOn(content[ptr[worker]], id)
    /\ content' = [content EXCEPT ![ptr[worker]] = <<>>]
    /\ handled' = Append(handled, content[ptr[worker]])
    /\ Reset(worker)
    /\ UNCHANGED <<log, phase, is_running, offset, queue, interrupted>>

Source == MakeUninitialized \/ ReadRecord \/ Push \/ EndReplay
Worker == Pop \/ Handle

DurableNext == Log \/ Crash \/ StartReplay \/ Source \/ StopReplay \/ Worker

\* Both threads run.
DurableSpec ==
    /\ DurableInit
    /\ [][DurableNext]_allVars
    /\ WF_allVars(Source)
    /\ WF_allVars(Worker)

----------------------------------------------------------------------------
Records ==
    [k \in 1 .. Len(file) \div sizeofEvent |->
        SubSeq(file, (k - 1) * sizeofEvent + 1, k * sizeofEvent)]

Drained == phase = "done" /\ queue = <<>> /\ ptr[worker] = NULL

\* The saga is handed the records of the file in order, each once, whatever cells
\* they travel in and however often the pool or the conduit makes the source
\* wait; and all of them, unless the replay is stopped, or open() or a read() fails.
ReplayFaithful ==
    /\ Len(handled) <= Len(Records)
    /\ \A n \in 1 .. Len(handled) : handled[n] = Records[n]
    /\ Drained /\ ~interrupted => handled = Records

\* No cell is lost on the way from the source to the worker, whatever the conduit
\* refuses and wherever the replay ends: a pointer that was release()d is in the
\* conduit, and every other cell in the pool or with an owner.
NoCellStranded ==
    \A c \in Cell :
        \/ c \in free
        \/ \E x \in Var : Owns(x, c)
        \/ \E n \in 1 .. Len(queue) : queue[n] = c

\* As long as every write() was whole and none followed half a record, the
\* workflows are rebuilt to a state that they had: the one after some number of
\* the events logged, even if a crash erased a part of the file.
RebuiltStateExisted ==
    aligned =>
        \E k \in 0 .. Len(logged) :
            slots = [id \in DOMAIN slots |->
                LET mine == SelectSeq(SubSeq(logged, 1, k), LAMBDA e : WorkflowId(e) = id)
                IN  [n \in DOMAIN mine |-> Bytes(mine[n])]]

\* A replay comes to an end and the worker handles what it queued, however small
\* the pool and the conduit are.
ReplayDrains == phase = "replay" ~> Drained
=============================================================================

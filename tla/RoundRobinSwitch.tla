-------------------------- MODULE RoundRobinSwitch --------------------------
(***************************************************************************)
(* Fan-out (include/conduit/core.hpp): a producer thread makes events from *)
(* a pool and sends each through round_robin_switch::on to one of several  *)
(* conduits; a worker thread behind each conduit pops its events, handles  *)
(* them and lets the event_ptr return them to the pool.                    *)
(*                                                                         *)
(* pool and conduit are used through what EventPool and Conduit establish: *)
(* make and free, push and pop, are atomic.  The raw pointer crosses a     *)
(* conduit outside any event_ptr: between a successful push and release()  *)
(* the producer's event_ptr still names a cell that it no longer owns.     *)
(***************************************************************************)
EXTENDS Integers, Sequences

CONSTANTS
    Cell,                \* the cells of the pool
    NumOutputs,          \* number of tracks of the switch
    ConduitSize,         \* ring size of each track
    NULL                 \* the null pointer

ASSUME NumOutputsAssumption == NumOutputs \in Nat \ {0}
ASSUME ConduitSizeAssumption == ConduitSize \in Nat \ {0}
ASSUME NullAssumption == NULL \notin Cell

Track == 0 .. NumOutputs - 1

VARIABLES
    free,                \* the cells in the pool
    outputs,             \* outputs_: which tracks are bound
    track,               \* contents of each conduit
    next,                \* next_
    ev,                  \* the producer's event_ptr: the cell it names, or NULL
    pc, i,               \* the producer: where it is, and the loop counter of on()
    job,                 \* each worker's event_ptr
    \* History: which bound tracks had room when on() was called.
    roomy

producer == <<next, ev, pc, i, roomy>>
vars == <<free, outputs, track, producer, job>>

HasRoom(k) == Len(track[k]) < ConduitSize - 1

Init ==
    /\ free = Cell
    /\ outputs = {}
    /\ track = [k \in Track |-> <<>>]
    /\ next = 0
    /\ ev = NULL
    /\ pc = "idle"
    /\ i = 0
    /\ job = [k \in Track |-> NULL]
    /\ roomy = {}

\* bind_track(k, conduit), between two events.  Each track is bound once.
BindTrack(k) ==
    /\ pc = "idle"
    /\ k \notin outputs
    /\ outputs' = outputs \cup {k}
    /\ UNCHANGED <<free, track, producer, job>>

\* make() finds a cell; on() starts with it.  When the pool is exhausted make()
\* returns null and on() returns at once: the state does not change.
Make ==
    /\ pc = "idle"
    /\ \E c \in free :
          /\ ev' = c
          /\ free' = free \ {c}
    /\ pc' = "on"
    /\ i' = 0
    /\ roomy' = {k \in outputs : HasRoom(k)}
    /\ UNCHANGED <<outputs, track, next, job>>

Candidate(n) == (next + n) % NumOutputs

TrySkipsRoom ==
    /\ pc = "on"
    /\ i < NumOutputs
    /\ i' = i + 1
    /\ UNCHANGED <<free, outputs, track, next, ev, pc, job, roomy>>

\* The track is not bound, or its push() finds it full: go on to the next one.
TrySkip ==
    /\ pc = "on"
    /\ i < NumOutputs
    /\ Candidate(i) \in outputs => ~HasRoom(Candidate(i))
    /\ i' = i + 1
    /\ UNCHANGED <<free, outputs, track, next, ev, pc, job, roomy>>

\* push(ev.get()) succeeds: from now on the worker may have the cell.
TryPush ==
    /\ pc = "on"
    /\ i < NumOutputs
    /\ Candidate(i) \in outputs
    /\ HasRoom(Candidate(i))
    /\ track' = [track EXCEPT ![Candidate(i)] = Append(@, ev)]
    /\ pc' = "release"
    /\ UNCHANGED <<free, outputs, next, ev, i, job, roomy>>

ReleaseForgotten ==
    /\ pc = "release"
    /\ next' = (Candidate(i) + 1) % NumOutputs
    /\ pc' = "leave"
    /\ i' = 0 /\ roomy' = {}
    /\ UNCHANGED <<free, outputs, track, ev, job>>

Release ==
    /\ pc = "release"
    /\ ev' = NULL
    /\ next' = (Candidate(i) + 1) % NumOutputs
    /\ pc' = "leave"
    /\ i' = 0 /\ roomy' = {}
    /\ UNCHANGED <<free, outputs, track, job>>

GiveUpStartsOver ==
    /\ pc = "on"
    /\ i = NumOutputs
    /\ i' = 0
    /\ UNCHANGED <<free, outputs, track, next, ev, pc, job, roomy>>

\* Every track refused the event: on() returns and ev still owns it.
GiveUp ==
    /\ pc = "on"
    /\ i = NumOutputs
    /\ pc' = "leave"
    /\ i' = 0 /\ roomy' = {}
    /\ UNCHANGED <<free, outputs, track, next, ev, job>>

\* ev goes out of scope: ~event_ptr frees the cell it still names, if any.
Leave ==
    /\ pc = "leave"
    /\ free' = free \cup ({ev} \ {NULL})
    /\ ev' = NULL
    /\ pc' = "idle"
    /\ UNCHANGED <<outputs, track, next, i, job, roomy>>

\* The worker of track k: pop() into an event_ptr, and its destruction.
Pop(k) ==
    /\ job[k] = NULL
    /\ track[k] # <<>>
    /\ job' = [job EXCEPT ![k] = Head(track[k])]
    /\ track' = [track EXCEPT ![k] = Tail(@)]
    /\ UNCHANGED <<free, outputs, producer>>

Done(k) ==
    /\ job[k] # NULL
    /\ free' = free \cup {job[k]}
    /\ job' = [job EXCEPT ![k] = NULL]
    /\ UNCHANGED <<outputs, track, producer>>

----------------------------------------------------------------------------
Work(k) == Pop(k) \/ Done(k)

----------------------------------------------------------------------------
\* Does the producer's event_ptr own what it names?  Not in the window between
\* the push that gave the cell away and release().
Owns(c) == ev = c /\ pc # "release"

\* The holders of a cell, each counted as often as it holds it.
Holders(c) ==
    (IF c \in free THEN {<<"pool">>} ELSE {})
    \cup (IF Owns(c) THEN {<<"producer">>} ELSE {})
    \cup {<<"worker", k>> : k \in {l \in Track : job[l] = c}}
    \cup {<<"track", p[1], p[2]>> : p \in
            {q \in Track \X (1 .. ConduitSize) :
                q[2] <= Len(track[q[1]]) /\ track[q[1]][q[2]] = c}}

\* on() takes the first track with room in rotation order, and gives up only if
\* every bound track was full when it was called: it never passes over a track
\* that had room then, for only workers touch the tracks meanwhile.
NearestTrackTaken ==
    pc \in {"on", "release"} => \A n \in 0 .. i - 1 : Candidate(n) \notin roomy
=============================================================================

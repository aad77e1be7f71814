------------------------------ MODULE Sharding ------------------------------
(***************************************************************************)
(* The program around round_robin_switch in examples/                      *)
(* 02_concurrency_and_routing/03_sharding.cpp: main sends its tasks, then  *)
(* one poison pill per shard, and joins the workers.  A worker leaves at   *)
(* the first pill it pops.  Nothing sees to it that a pill gets through,   *)
(* or that each shard gets one: the switch decides.                        *)
(***************************************************************************)
EXTENDS RoundRobinSwitch

CONSTANT Tasks           \* how many tasks main sends

ASSUME TasksAssumption == Tasks \in Nat

VARIABLES
    sent,                \* calls of on() that main has begun
    stops,               \* stop1, stop2: the pills that main still owns
    pill,                \* the cells whose job_id is -1
    stopped,             \* the shards whose worker has left its loop
    joined,              \* have the joins of main returned?
    refused              \* History: was there no cell, or a track not bound or full?

shards == <<stops, pill, stopped, joined>>
allVars == <<vars, sent, shards, refused>>

Shards == 1 .. NumOutputs

ShardInit ==
    /\ Init
    /\ sent = 0
    /\ stops = [n \in Shards |-> NULL]
    /\ pill = {}
    /\ stopped = {}
    /\ joined = FALSE
    /\ refused = FALSE

\* memory.make(i), and on(task) begins.
SendTask ==
    /\ sent < Tasks
    /\ sent' = sent + 1
    /\ \/ /\ Make
          /\ pill' = pill \ {ev'}
          /\ UNCHANGED refused
       \/ /\ pc = "idle" /\ free = {}
          /\ refused' = TRUE
          /\ UNCHANGED <<vars, pill>>
    /\ UNCHANGED <<stops, stopped, joined>>

\* memory.make(-1), for every shard before the first pill is sent.
MakeStops ==
    /\ pc = "idle" /\ sent = Tasks
    /\ \E cells \in [Shards -> free \cup {NULL}] :
          /\ \A m, n \in Shards : cells[m] = cells[n] /\ m # n => cells[m] = NULL
          /\ (\E n \in Shards : cells[n] = NULL) => free \subseteq {cells[n] : n \in Shards}
          /\ stops' = cells
          /\ free' = free \ {cells[n] : n \in Shards}
          /\ pill' = pill \cup ({cells[n] : n \in Shards} \ {NULL})
          /\ refused' = (refused \/ \E n \in Shards : cells[n] = NULL)
    /\ sent' = sent + 1
    /\ UNCHANGED <<outputs, track, producer, job, stopped, joined>>

\* on(stop1), on(stop2): a pill that is refused stays with main.
SendStop ==
    /\ pc = "idle" /\ sent \in Tasks + 1 .. Tasks + NumOutputs
    /\ sent' = sent + 1
    /\ ev' = stops[sent - Tasks]
    /\ pc' = IF ev' = NULL THEN "idle" ELSE "on"
    /\ i' = 0
    /\ stops' = [stops EXCEPT ![sent - Tasks] = NULL]
    /\ roomy' = {k \in outputs : HasRoom(k)}
    /\ UNCHANGED <<free, outputs, track, next, job, pill, stopped, joined, refused>>

\* on() returns, to the loop or to the next pill.
Return ==
    IF sent <= Tasks THEN Leave /\ UNCHANGED stops
    ELSE /\ pc = "leave"
         /\ stops' = [stops EXCEPT ![sent - Tasks - 1] = ev]
         /\ ev' = NULL
         /\ pc' = "idle"
         /\ UNCHANGED <<free, outputs, track, next, i, job, roomy>>

Route ==
    /\ \/ /\ TrySkip \/ TryPush \/ Release \/ GiveUp
          /\ UNCHANGED stops
       \/ Return
    /\ refused' = (refused \/ (pc = "on" /\ i' > i))
    /\ UNCHANGED <<sent, pill, stopped, joined>>

\* The joins return, and main gives back the pills it still owns.
Join ==
    /\ pc = "idle" /\ sent > Tasks + NumOutputs /\ ~joined
    /\ stopped = Track
    /\ joined' = TRUE
    /\ free' = free \cup ({stops[n] : n \in Shards} \ {NULL})
    /\ stops' = [n \in Shards |-> NULL]
    /\ UNCHANGED <<outputs, track, producer, job, sent, pill, stopped, refused>>

Bind ==
    /\ \E k \in Track : BindTrack(k)
    /\ UNCHANGED <<sent, shards, refused>>

\* shard_worker: pop, look at job_id, and let go of the event.
ShardWorkerKeepsGoing(k) ==
    /\ k \notin stopped
    /\ Work(k)
    /\ UNCHANGED <<sent, stops, pill, stopped, joined, refused>>

ShardWorker(k) ==
    /\ k \notin stopped
    /\ Work(k)
    /\ stopped' = IF job[k] \in pill THEN stopped \cup {k} ELSE stopped
    /\ UNCHANGED <<sent, stops, pill, joined, refused>>

MainStep == MakeStops \/ SendStop \/ Route \/ Join

ShardNext == SendTask \/ MainStep \/ Bind \/ \E k \in Track : ShardWorker(k)

\* main and the workers run.
ShardSpec ==
    /\ ShardInit
    /\ [][ShardNext]_allVars
    /\ WF_allVars(SendTask \/ MainStep)
    /\ \A k \in Track : WF_allVars(ShardWorker(k))

----------------------------------------------------------------------------
\* Every cell has exactly one holder: the pool, an event_ptr of main (a pill that
\* waits or was refused included), a track or a worker.
OneHolderEach ==
    \A c \in Cell :
        LET kept == {<<"main", n>> : n \in {m \in Shards : stops[m] = c}}
        IN  \E h \in Holders(c) \cup kept : Holders(c) \cup kept = {h}

\* If no track refuses an event and the pool is never exhausted, each shard gets a
\* pill and main returns.  (With a track full at the wrong moment both pills
\* may end in one track, or be dropped, and main waits for ever.)
MainReturns == sent > Tasks /\ ~refused ~> joined \/ refused

\* Every event returns to the pool, but for those behind the pill of a shard and the
\* pills that main holds while it waits.
Reclaimed ==
    \A c \in Cell :
        c \notin free ~> \/ c \in free
                         \/ \E n \in Shards : stops[n] = c
                         \/ \E k \in stopped, p \in 1 .. ConduitSize :
                               p <= Len(track[k]) /\ track[k][p] = c
=============================================================================

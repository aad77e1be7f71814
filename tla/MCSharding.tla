----------------------------- MODULE MCSharding -----------------------------
(***************************************************************************)
(* Programs that pass events from thread to thread, for TLC: Sharding, one *)
(* of the programs of Shutdown, or LoadGenerator, from the start.  Here    *)
(* LoadGenerator has a ring of more slots than in SlabPrograms.            *)
(***************************************************************************)
EXTENDS Sharding, Shutdown

CONSTANTS Blocks, Capacity, EventCounts, AbaModulus, CountModulus

VARIABLES
    running,             \* the program that runs
    head, link, lpc, cur, nxt, blk, free_count, pinned,
    buffer, write_idx, read_idx,
    total_events_to_send, ammo, fired, lsent, is_sending

Load == INSTANCE LoadGenerator WITH
    Thread <- {"generator", "sender"}, Producer <- "generator", Consumer <- "sender",
    pc <- lpc, sent <- lsent

loadVars == <<head, link, lpc, cur, nxt, blk, free_count, pinned, buffer, write_idx,
              read_idx, total_events_to_send, ammo, fired, lsent, is_sending>>
mcVars == <<allVars, handoff, loadVars, running>>

\* A step of one program leaves the state of the others alone.
Shard(step) == running = "sharding" /\ step /\ UNCHANGED <<handoff, loadVars, running>>
Handoff(step) == running = "handoff" /\ step /\ UNCHANGED <<allVars, loadVars, running>>
Generate(step) == running = "load" /\ step /\ UNCHANGED <<allVars, handoff, running>>

MCInit ==
    /\ running \in {"sharding", "handoff", "load"}
    /\ ShardInit /\ HandoffInit /\ Load!LoadInit
    /\ running # "handoff" => example = "log"
    /\ running # "load" => ~pinned /\ \A n \in EventCounts : total_events_to_send <= n

MCNext == Shard(ShardNext) \/ Handoff(HandoffNext) \/ Generate(Load!LoadNext)

\* main and the workers run, and so do the producer and the consumer, but for the
\* calls of log(), which begin when user code likes.
ProducerRuns ==
    Shard(SendTask \/ MainStep) \/ Handoff((example = "log" => at = "push") /\ Producer)
WorkerRuns(k) == Shard(ShardWorker(k)) \/ Handoff(Consumer)

MCSpec ==
    /\ MCInit
    /\ [][MCNext]_mcVars
    /\ WF_mcVars(ProducerRuns)
    /\ \A k \in Track : WF_mcVars(WorkerRuns(k))

----------------------------------------------------------------------------
\* Every program shuts down as far as its refused events allow.
ShutdownsComplete == MainReturns /\ ExamplesHalt /\ LogCellsReturn

\* In a ring that fills up, wraps around and holds several pointers at once,
\* whatever the generator and the sender interleave: nothing overtakes, nothing is
\* lost or made up, a push is refused only when Capacity - 1 pointers are queued.
RingIsFifo == Load!RingIsFifo
=============================================================================

----------------------------- MODULE HttpGateway -----------------------------
(***************************************************************************)
(* cre::transport::http_gateway (include/conduit/pending/transport/        *)
(* http_gateway.hpp) feeding a worker of cre::supplemental::environment    *)
(* (include/conduit/pending/supplemental/environment.hpp): the gateway     *)
(* thread accepts a client, parses its request into a block of the         *)
(* allocator and pushes the block into the ring; the worker pops it, hands *)
(* it to the node and gives the block back.  The allocator is either of    *)
(* the two; the node's handler is user code.                               *)
(* is_running_ of the gateway is a plain bool, reread after every accept().*)
(***************************************************************************)
EXTENDS AllocatorType, SpscRing

CONSTANTS
    Client,              \* the file descriptors accept() returns
    NoClient,
    Request,             \* what recv() may put into read_buffer
    WellFormed           \* the requests that parse() of HttpParser accepts

ASSUME ClientAssumption == NoClient \notin Client

VARIABLES
    open,                \* connections accepted and not yet closed
    client_fd,           \* the connection accept_loop works on, if any
    read_buffer,         \* what recv() read and parse() has not yet seen
    connection,          \* connection_id of the event in each block
    listening,           \* is_running_ of the gateway
    is_running,          \* is_running_ of the environment
    main                 \* where the program's main thread is

network == <<open, client_fd, read_buffer, connection>>
lifecycle == <<listening, is_running, main>>
vars == <<pc, memory, ring, network, lifecycle, pinned>>

NetworkInit ==
    /\ open = {} /\ client_fd = NoClient /\ read_buffer = <<>>
    /\ connection = [b \in Block |-> NoClient]
    /\ listening = FALSE /\ is_running = FALSE /\ main = "spawn"

Init ==
    /\ AllocatorInit /\ RingInit /\ NetworkInit
    /\ pc = [t \in Thread |-> "none"]

----------------------------------------------------------------------------
\* The calls of the main thread, in the order of environment.hpp's comments.
MainAt(from, to) == main = from /\ main' = to

SpawnWorker ==
    /\ MainAt("spawn", "start")
    /\ pc' = [pc EXCEPT ![Consumer] = "loop"]
    /\ UNCHANGED <<memory, ring, network, listening, is_running, pinned>>

EnvironmentStart ==
    /\ MainAt("start", "open")
    /\ is_running' = TRUE
    /\ UNCHANGED <<pc, memory, ring, network, listening, pinned>>

GatewayStart ==
    /\ MainAt("open", "close")
    /\ listening' = TRUE
    /\ pc' = [pc EXCEPT ![Producer] = "loop"]
    /\ UNCHANGED <<memory, ring, network, is_running, pinned>>

GatewayStop ==
    /\ MainAt("close", "stop")
    /\ listening' = FALSE
    /\ UNCHANGED <<pc, memory, ring, network, is_running, pinned>>

Stop ==
    /\ MainAt("stop", "join")
    /\ is_running' = FALSE
    /\ UNCHANGED <<pc, memory, ring, network, listening, pinned>>

WaitForShutdown ==
    /\ MainAt("join", "joined")
    /\ pc[Consumer] = "exit"
    /\ UNCHANGED <<pc, memory, ring, network, listening, is_running, pinned>>

Main == SpawnWorker \/ EnvironmentStart \/ GatewayStart \/ GatewayStop \/ Stop \/ WaitForShutdown

----------------------------------------------------------------------------
Allocate(t) ==
    /\ AllocateStep(t)
    /\ UNCHANGED <<ring, network, lifecycle, pinned>>

\* The event ends when deallocate() begins.
Deallocate(t) ==
    /\ DeallocateStep(t)
    /\ connection' = IF pc[t] = "free" THEN [connection EXCEPT ![blk[t]] = NoClient]
                     ELSE connection
    /\ UNCHANGED <<ring, open, client_fd, read_buffer, lifecycle, pinned>>

Close(c) == open' = open \ {c}

\* while (is_running_), and accept(): a client, or an error.
AcceptLoop ==
    /\ \/ At(Producer, "loop", IF listening THEN "accept" ELSE "exit")
          /\ UNCHANGED network
       \/ At(Producer, "accept", "loop") /\ UNCHANGED network
       \/ /\ At(Producer, "accept", "recv")
          /\ \E c \in Client \ open : open' = open \cup {c} /\ client_fd' = c
          /\ UNCHANGED <<read_buffer, connection>>
    /\ UNCHANGED <<memory, ring, lifecycle, pinned>>

\* recv(): bytes, or the end of the connection.
Receive ==
    /\ \/ /\ At(Producer, "recv", "alloc")
          /\ \E r \in Request : read_buffer' = r
          /\ UNCHANGED <<open, client_fd, connection>>
       \/ /\ At(Producer, "recv", "loop")
          /\ Close(client_fd)
          /\ client_fd' = NoClient
          /\ UNCHANGED <<read_buffer, connection>>
    /\ UNCHANGED <<memory, ring, lifecycle, pinned>>

\* What accept_loop does with what allocate() returned; from here on the bytes in
\* read_buffer matter to the handler only.
ParseRequest ==
    LET b == blk[Producer]
    IN  /\ \/ /\ b = END_OF_LIST
              /\ At(Producer, "allocated", "loop")
              /\ Close(client_fd)
              /\ client_fd' = NoClient
              /\ UNCHANGED connection
           \/ /\ b # END_OF_LIST
              /\ At(Producer, "allocated", IF read_buffer \in WellFormed THEN "push" ELSE "free")
              /\ connection' = [connection EXCEPT ![b] = client_fd]
              /\ UNCHANGED <<open, client_fd>>
        /\ read_buffer' = <<>>
        /\ UNCHANGED <<memory, ring, lifecycle, pinned>>

PushEventForgettingTheClient ==
    /\ \/ Push("pushed")
       \/ /\ At(Producer, "pushed", "loop")
          /\ blk' = [blk EXCEPT ![Producer] = END_OF_LIST]
          /\ UNCHANGED <<ring, freeList, cur, nxt>>
    /\ client_fd' = IF pc'[Producer] = "pushed" THEN NoClient ELSE client_fd
    /\ UNCHANGED <<free_count, open, read_buffer, connection, lifecycle, pinned>>

\* push(ev); a refused event is deallocated, then its client is told.
PushEvent ==
    /\ \/ Push("free")
       \/ /\ At(Producer, "pushed", "loop")
          /\ blk' = [blk EXCEPT ![Producer] = END_OF_LIST]
          /\ UNCHANGED <<ring, freeList, cur, nxt>>
    /\ client_fd' = IF pc'[Producer] = "pushed" THEN NoClient ELSE client_fd
    /\ UNCHANGED <<free_count, open, read_buffer, connection, lifecycle, pinned>>

\* send_503, send_400 after a deallocate(): each closes the connection.
SendError ==
    /\ At(Producer, "freed", "loop")
    /\ Close(client_fd)
    /\ client_fd' = NoClient
    /\ UNCHANGED <<memory, ring, read_buffer, connection, lifecycle, pinned>>

Gateway ==
    \/ AcceptLoop \/ Receive \/ Allocate(Producer) \/ ParseRequest \/ PushEvent
    \/ Deallocate(Producer) \/ SendError

----------------------------------------------------------------------------
\* The loop of spawn_worker.  A worker that looks before start() leaves.
WorkerLoop ==
    /\ \/ At(Consumer, "loop", IF is_running THEN "pop" ELSE "exit")
          /\ UNCHANGED <<ring, freeList, registers>>
       \/ Pop("loop")
    /\ UNCHANGED <<free_count, network, lifecycle, pinned>>

\* node.on(ev): answers the client and gives the block back.
On ==
    /\ At(Consumer, "popped", "free")
    /\ Close(connection[blk[Consumer]])
    /\ UNCHANGED <<memory, ring, client_fd, read_buffer, connection, lifecycle, pinned>>

OnReturns ==
    /\ At(Consumer, "freed", "loop")
    /\ UNCHANGED <<memory, ring, network, lifecycle, pinned>>

Worker == WorkerLoop \/ On \/ Deallocate(Consumer) \/ OnReturns

Next == Main \/ Gateway \/ Worker

\* What is sure to happen: the two threads run and their system calls, but for
\* accept() and recv(), return; a compare-and-swap that is possible again and
\* again succeeds.
GatewayRuns == pc[Producer] \notin {"accept", "recv"} /\ Gateway
SwapSucceeds(t) ==
    pc[t] \in {"take", "give"} /\ (Allocate(t) \/ Deallocate(t)) /\ head' # head

----------------------------------------------------------------------------
\* A block is in exactly one place: once in the free list, or with the thread
\* that works on it, or once in the ring; no request takes a block from the
\* allocator for good, and none is queued in a block that is free.
RequestsConserveBlocks ==
    LET holding == {"count_taken", "allocated", "push", "store", "publish", "popped",
                    "free", "link", "give"}
    IN  \E s \in FreeLists :
          \A b \in Block :
              IsSingleton(({"free"} \X Positions(s, b))
                            \cup ({"queued"} \X Positions(Queued, b))
                            \cup ({"held"} \X Holders(holding, b)))

\* free_count_ of the pinned allocator is the length of its list, but for the calls
\* that have changed the list and not yet the counter.  It may pass below
\* zero: a block can be given, taken again and counted out before it is counted in,
\* and get_free_count() is then 2^64 - 1.
CountAccounted ==
    LET waiting(t, where) == IF pc[t] = where THEN 1 ELSE 0
    IN  pinned =>
          \E s \in FreeLists :
              free_count = (Len(s) + waiting(Producer, "count_taken")
                              + waiting(Consumer, "count_taken")
                              - waiting(Producer, "count_given")
                              - waiting(Consumer, "count_given")) % CountModulus

Serving(c) == client_fd = c
QueuedFor(c) == {k \in 1 .. Len(Queued) : connection[Queued[k]] = c}
Handling(c) == pc[Consumer] = "popped" /\ connection[blk[Consumer]] = c

\* An open connection has exactly one keeper that will close it: the accept loop,
\* a queued event, or the handler; a closed one has none.  So no connection
\* leaks and none is closed twice, when its number may be another client's.
OneKeeperEach ==
    \A c \in Client :
        LET keepers == ({"queued"} \X QueuedFor(c))
                         \cup {k \in {<<"serving", 0>>} : Serving(c)}
                         \cup {k \in {<<"handling", 0>>} : Handling(c)}
        IN  IF c \in open THEN IsSingleton(keepers) ELSE keepers = {}

\* A client whose request has been read is answered and its connection closed,
\* unless the request is queued for a worker that has left its loop.
ClientsAnswered ==
    \A c \in Client :
        (c \in open /\ ~(Serving(c) /\ pc[Producer] = "recv"))
          ~> (c \notin open \/ (QueuedFor(c) # {} /\ pc[Consumer] = "exit"))
=============================================================================

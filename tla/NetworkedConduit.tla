-------------------------- MODULE NetworkedConduit --------------------------
(***************************************************************************)
(* cre::net::networked_conduit (include/conduit/net/networked_conduit.hpp):*)
(* events cross a TCP connection as frames of fixed size.  On the sending  *)
(* node a producer thread pushes frames into a ring and the poll thread    *)
(* sends them; on the receiving node the poll thread assembles them.  send *)
(* and recv may transfer part of a frame.                                  *)
(*                                                                         *)
(* A connection may break at any time.  Each end then finds out by itself, *)
(* marks its conduit dead, and is given the socket of a later connection.  *)
(* One direction is modelled; what the other one does to this one is that  *)
(* it may be first to find the connection broken (LoseSender/LoseReceiver).*)
(***************************************************************************)
EXTENDS Integers, Sequences

CONSTANTS
    Capacity,            \* slots of tx_ring_
    FrameSize,           \* FRAME_SIZE, in the units that send and recv may split
    KernelBuffer,        \* units a connection holds before send would block
    MaxFrames,           \* bound: how many events are pushed
    MaxConns             \* bound: how many connections are made

ASSUME SizesAssumption ==
    /\ Capacity \in Nat \ {0} /\ FrameSize \in Nat \ {0}
    /\ KernelBuffer \in Nat \ {0} /\ MaxFrames \in Nat /\ MaxConns \in Nat

Conn == 1 .. MaxConns
Msg == 1 .. MaxFrames    \* the n-th event pushed carries n

VARIABLES
    \* The sending conduit.
    tx_dead, tx_sock,    \* is_dead_, sock_fd_ (0: INVALID_SOCKET)
    tx_ring, tx_head, tx_tail,
    offset,              \* tx_inflight_offset_
    ppc, ev,             \* the producer: where it is in push(), the event it pushes
    spc, tail, head,     \* the poll thread: where it is in poll_tx(), its locals
    \* The receiving conduit.
    rx_dead, rx_sock,
    staging,             \* the rx_bytes_read_ units read into rx_staging_
    rpc,                 \* is the poll thread in poll_rx()?
    delivered,           \* the events given to the sink
    \* The connections.
    wire, up,            \* units in flight on each connection; is it up?
    \* History.
    via,                 \* the connection each event was sent on; 0: not yet
    dropped              \* events dropped for lack of a cell

producer == <<ppc, ev>>
poll_tx == <<spc, tail, head>>
receiver == <<rx_dead, rx_sock, staging, rpc, delivered, dropped>>
sender == <<tx_dead, tx_sock, tx_ring, tx_head, tx_tail, offset, producer, poll_tx, via>>
vars == <<sender, receiver, wire, up>>

Slot(n) == n % Capacity
Frame(m) == [k \in 1 .. FrameSize |-> <<m, k>>]

Init ==
    /\ tx_dead = TRUE /\ tx_sock = 0
    /\ tx_ring = [s \in 0 .. Capacity - 1 |-> 0]
    /\ tx_head = 0 /\ tx_tail = 0
    /\ offset = 0
    /\ ppc = "idle" /\ ev = 0
    /\ spc = "idle" /\ tail = 0 /\ head = 0
    /\ rx_dead = TRUE /\ rx_sock = 0
    /\ staging = <<>>
    /\ rpc = "idle"
    /\ delivered = <<>>
    /\ wire = [c \in Conn |-> <<>>]
    /\ up = [c \in Conn |-> TRUE]
    /\ via = [m \in Msg |-> 0]
    /\ dropped = {}

(***************************************************************************)
(* push(ev), on the producer's thread.  A refused event stays with the     *)
(* caller, which tries again with it.                                      *)
(***************************************************************************)
PushAlive ==
    /\ ppc = "idle"
    /\ ~tx_dead
    /\ ev < MaxFrames
    /\ ev' = ev + 1
    /\ ppc' = "room"
    /\ UNCHANGED <<tx_dead, tx_sock, tx_ring, tx_head, tx_tail, offset, poll_tx, via,
                   receiver, wire, up>>

IsFullOffByOne(h, t) == h - t > Capacity

IsFull(h, t) == h - t >= Capacity

PushRefused ==
    /\ ppc = "room"
    /\ IsFull(tx_head, tx_tail)
    /\ ev' = ev - 1
    /\ ppc' = "idle"
    /\ UNCHANGED <<tx_dead, tx_sock, tx_ring, tx_head, tx_tail, offset, poll_tx, via,
                   receiver, wire, up>>

PushRoom ==
    /\ ppc = "room"
    /\ ~IsFull(tx_head, tx_tail)
    /\ ppc' = "copy"
    /\ UNCHANGED <<tx_dead, tx_sock, tx_ring, tx_head, tx_tail, offset, ev, poll_tx, via,
                   receiver, wire, up>>

PushCopy ==
    /\ ppc = "copy"
    /\ tx_ring' = [tx_ring EXCEPT ![Slot(tx_head)] = ev]
    /\ ppc' = "publish"
    /\ UNCHANGED <<tx_dead, tx_sock, tx_head, tx_tail, offset, ev, poll_tx, via,
                   receiver, wire, up>>

PushPublish ==
    /\ ppc = "publish"
    /\ tx_head' = tx_head + 1
    /\ ppc' = "idle"
    /\ UNCHANGED <<tx_dead, tx_sock, tx_ring, tx_tail, offset, ev, poll_tx, via,
                   receiver, wire, up>>

(***************************************************************************)
(* poll_tx(), on the sending node's poll thread.                           *)
(***************************************************************************)
\* mark_dead() on the sending conduit: partial state is cleared with the death.
TxMarkDeadKeepsOffset ==
    /\ tx_dead' = TRUE
    /\ UNCHANGED offset

TxMarkDead ==
    /\ tx_dead' = TRUE
    /\ offset' = 0

PollTx ==
    /\ spc = "idle"
    /\ ~tx_dead
    /\ spc' = "send"
    /\ tail' = tx_tail
    /\ head' = tx_head
    /\ UNCHANGED <<tx_dead, tx_sock, tx_ring, tx_head, tx_tail, offset, producer, via,
                   receiver, wire, up>>

Sending == spc = "send" /\ tail < head

\* The frame in the slot, as send() finds it now.
Outgoing == Frame(tx_ring[Slot(tail)])

\* What send() of the next n units puts on the connection: the kernel may still
\* accept them after the connection broke, and they are lost.
Accepted(n) ==
    IF up[tx_sock] THEN SubSeq(Outgoing, offset + 1, offset + n) ELSE <<>>

\* send() takes n units; the frame is finished when all of it is sent.
SendSome(n) ==
    /\ Sending
    /\ n <= KernelBuffer - Len(wire[tx_sock])
    /\ wire' = [wire EXCEPT ![tx_sock] = @ \o Accepted(n)]
    /\ IF offset + n = FrameSize
       THEN /\ offset' = 0
            /\ tail' = tail + 1
            /\ via' = [via EXCEPT ![tx_ring[Slot(tail)]] = tx_sock]
       ELSE /\ offset' = offset + n
            /\ UNCHANGED <<tail, via>>
    /\ UNCHANGED <<tx_dead, tx_sock, tx_ring, tx_head, tx_tail, producer, spc, head,
                   receiver, up>>

\* The loop ends: nothing is left, or send() would block.
SendStops ==
    /\ spc = "send"
    /\ \/ tail >= head
       \/ up[tx_sock] /\ Len(wire[tx_sock]) = KernelBuffer
    /\ spc' = "idle"
    /\ tx_tail' = tail
    /\ UNCHANGED <<tx_dead, tx_sock, tx_ring, tx_head, offset, producer, tail, head, via,
                   receiver, wire, up>>

SendFailsKeepsTail ==
    /\ Sending
    /\ ~up[tx_sock]
    /\ TxMarkDead
    /\ spc' = "idle"
    /\ UNCHANGED <<tx_sock, tx_ring, tx_head, tx_tail, producer, tail, head, via,
                   receiver, wire, up>>

SendFails ==
    /\ Sending
    /\ ~up[tx_sock]
    /\ TxMarkDead
    /\ spc' = "idle"
    /\ tx_tail' = tail
    /\ UNCHANGED <<tx_sock, tx_ring, tx_head, producer, tail, head, via, receiver, wire, up>>

\* poll_rx() on the sending conduit's own receiving half finds the break first.
LoseSender ==
    /\ spc = "idle"
    /\ ~tx_dead
    /\ ~up[tx_sock]
    /\ TxMarkDead
    /\ UNCHANGED <<tx_sock, tx_ring, tx_head, tx_tail, producer, poll_tx, via,
                   receiver, wire, up>>

\* The orchestrator binds a later connection to a dead conduit.
BindSender(c) ==
    /\ tx_dead
    /\ spc = "idle"
    /\ c > tx_sock
    /\ tx_sock' = c
    /\ tx_dead' = FALSE
    /\ UNCHANGED <<tx_ring, tx_head, tx_tail, offset, producer, poll_tx, via,
                   receiver, wire, up>>

(***************************************************************************)
(* poll_rx(), on the receiving node's poll thread.                         *)
(***************************************************************************)
RxMarkDeadKeepsBytes ==
    /\ rx_dead' = TRUE
    /\ UNCHANGED staging

RxMarkDead ==
    /\ rx_dead' = TRUE
    /\ staging' = <<>>

PollRx ==
    /\ rpc = "idle"
    /\ ~rx_dead
    /\ rpc' = "recv"
    /\ UNCHANGED <<sender, rx_dead, rx_sock, staging, delivered, dropped, wire, up>>

\* recv() yields n units.  A whole frame is given to the sink if there is a cell
\* for it (room) and is dropped otherwise.  The type id is in its first unit.
RecvSome(n, room) ==
    /\ rpc = "recv"
    /\ n <= Len(wire[rx_sock])
    /\ n <= FrameSize - Len(staging)
    /\ wire' = [wire EXCEPT ![rx_sock] = SubSeq(@, n + 1, Len(@))]
    /\ LET bytes == staging \o SubSeq(wire[rx_sock], 1, n)
       IN  CASE Len(bytes) < FrameSize ->
                  /\ staging' = bytes
                  /\ UNCHANGED <<rpc, rx_dead, delivered, dropped>>
             [] Len(bytes) = FrameSize /\ bytes[1][2] # 1 ->
                  /\ RxMarkDead
                  /\ rpc' = "idle"
                  /\ UNCHANGED <<delivered, dropped>>
             [] OTHER ->
                  /\ staging' = <<>>
                  /\ delivered' = IF room THEN Append(delivered, bytes) ELSE delivered
                  /\ dropped' = IF room THEN dropped ELSE dropped \cup {bytes[1][1]}
                  /\ UNCHANGED <<rpc, rx_dead>>
    /\ UNCHANGED <<sender, rx_sock, up>>

RecvWouldBlock ==
    /\ rpc = "recv"
    /\ wire[rx_sock] = <<>>
    /\ up[rx_sock]
    /\ rpc' = "idle"
    /\ UNCHANGED <<sender, rx_dead, rx_sock, staging, delivered, dropped, wire, up>>

\* recv() reports the end of the stream, or an error that discards its rest.
RecvFails ==
    /\ rpc = "recv"
    /\ ~up[rx_sock]
    /\ RxMarkDead
    /\ rpc' = "idle"
    /\ UNCHANGED <<sender, rx_sock, delivered, dropped, wire, up>>

\* poll_tx() on the receiving conduit's own sending half finds the break first.
LoseReceiver ==
    /\ rpc = "idle"
    /\ ~rx_dead
    /\ ~up[rx_sock]
    /\ RxMarkDead
    /\ UNCHANGED <<sender, rx_sock, rpc, delivered, dropped, wire, up>>

BindReceiver(c) ==
    /\ rx_dead
    /\ rpc = "idle"
    /\ c > rx_sock
    /\ rx_sock' = c
    /\ rx_dead' = FALSE
    /\ UNCHANGED <<sender, staging, rpc, delivered, dropped, wire, up>>

\* A connection breaks; the units in flight may be lost from some point on.
Break(c, n) ==
    /\ up[c]
    /\ n <= Len(wire[c])
    /\ up' = [up EXCEPT ![c] = FALSE]
    /\ wire' = [wire EXCEPT ![c] = SubSeq(@, 1, n)]
    /\ UNCHANGED <<sender, receiver>>

----------------------------------------------------------------------------
PushStep == PushRefused \/ PushRoom \/ PushCopy \/ PushPublish
TxStep == PollTx \/ (\E n \in 1 .. FrameSize - offset : SendSome(n)) \/ SendStops \/ SendFails
RxStep ==
    \/ PollRx
    \/ \E n \in 1 .. FrameSize, room \in BOOLEAN : RecvSome(n, room)
    \/ RecvWouldBlock
    \/ RecvFails

Next ==
    \/ PushAlive
    \/ PushStep
    \/ TxStep
    \/ LoseSender
    \/ \E c \in Conn : BindSender(c)
    \/ RxStep
    \/ LoseReceiver
    \/ \E c \in Conn : BindReceiver(c)
    \/ \E c \in Conn, n \in 0 .. KernelBuffer : Break(c, n)

Spec == Init /\ [][Next]_vars

\* Both nodes keep polling (node_runtime::run), and a push() that began ends.
FairSpec == Spec /\ WF_vars(PushStep) /\ WF_vars(TxStep) /\ WF_vars(RxStep)

----------------------------------------------------------------------------
\* A frame that is delivered is one that was pushed, whole: no frame is put
\* together from the ends of two, even if a connection breaks in the middle of a
\* frame at either end and another one takes its place ("zombie frame").
FramesIntact == \A k \in 1 .. Len(delivered) : \E m \in Msg : delivered[k] = Frame(m)

\* Events arrive in the order they were pushed and at most once, across any
\* number of connections: a frame cut short is sent again, a whole one is not.
InOrderAtMostOnce ==
    \A k \in 1 .. Len(delivered) - 1 : delivered[k][1][1] < delivered[k + 1][1][1]

\* Is (part of) event m on its way on a connection that still works?
InFlight(m) ==
    /\ via[m] = rx_sock
    /\ \/ \E k \in 1 .. Len(wire[rx_sock]) : wire[rx_sock][k][1] = m
       \/ \E k \in 1 .. Len(staging) : staging[k][1] = m

\* An event that push() accepted gets lost only with its connection or for lack
\* of a cell: otherwise it is in the ring, in flight, or with the sink.
LostOnlyWithConnection ==
    \A m \in 1 .. tx_head :
        \/ m > (IF spc = "send" THEN tail ELSE tx_tail)
        \/ m \in dropped
        \/ \E k \in 1 .. Len(delivered) : delivered[k] = Frame(m)
        \/ via[m] > rx_sock \/ InFlight(m)
        \/ via[m] \in 1 .. rx_sock - 1 \/ (via[m] \in Conn /\ ~up[via[m]])

\* push() never writes the slot that the poll thread is sending.
NoSlotConflict == ~(ppc = "copy" /\ Sending /\ Slot(tx_head) = Slot(tail))

\* Both ends are bound to one connection, which is up.
Healthy == ~tx_dead /\ ~rx_dead /\ tx_sock = rx_sock /\ up[tx_sock]

\* Once the connection stays healthy, every event that push() accepted arrives,
\* unless it was lost with an earlier connection or for lack of a cell: partial
\* sends and receives, full buffers and reconnections strand no frame.
EventuallyDelivered ==
    <>[]Healthy =>
        \A m \in Msg :
            tx_head >= m ~>
                \/ \E k \in 1 .. Len(delivered) : delivered[k] = Frame(m)
                \/ m \in dropped
                \/ via[m] \in 1 .. tx_sock - 1
=============================================================================

----------------------- MODULE NetworkedConduitProofs -----------------------
(***************************************************************************)
(* For every ring capacity the producer's push() and the poll thread's     *)
(* poll_tx() never meet in a slot, and poll_tx() finds each event whole    *)
(* and in its turn.  The indices only grow and poll_tx() works on private  *)
(* copies of them, so the argument is about how stale those may be.        *)
(*                                                                         *)
(* Then the invariant of what is on its way over the connections: send(),  *)
(* a broken connection and a new one keep it, and so does recv(), whatever *)
(* part of a frame it returns.  So for every frame size, ring capacity and *)
(* number of connections the receiver delivers only whole frames, in order *)
(* and at most once, and an event that was sent is lost only with a        *)
(* connection or for lack of a cell.                                       *)
(***************************************************************************)
EXTENDS NetworkedConduit, TLAPS

\* The obligations are many, and the provers run beside one another.
USE ZenonT(3), SMTT(20)

\* Two positions less than a ring apart lie in different slots.
LEMMA SlotsDiffer ==
    ASSUME NEW a \in Nat, NEW b \in Nat, a < b, b - a < Capacity
    PROVE  Slot(a) # Slot(b)
<1> DEFINE qa == a \div Capacity
           qb == b \div Capacity
<1>0. Capacity \in Nat /\ Capacity > 0
  BY SizesAssumption
<1>1. /\ qa \in Int /\ qb \in Int
      /\ a = Capacity * qa + Slot(a) /\ b = Capacity * qb + Slot(b)
      /\ Slot(a) \in Int /\ Slot(b) \in Int
  BY <1>0 DEF Slot
<1> HIDE DEF qa, qb
<1>2. SUFFICES ASSUME Slot(a) = Slot(b) PROVE FALSE
  OBVIOUS
<1>3. b - a = Capacity * (qb - qa)
  BY <1>0, <1>1, <1>2
<1>4. CASE qb - qa <= 0
  BY <1>0, <1>1, <1>3, <1>4
<1>5. CASE qb - qa >= 1
  BY <1>0, <1>1, <1>3, <1>5
<1> QED
  BY <1>1, <1>4, <1>5

----------------------------------------------------------------------------
\* What the two threads know of the ring: the poll thread's copies lie between the
\* shared indices, a push() that found room still has it, and the events that
\* are not yet given up lie in their slots, the n-th pushed at position n - 1.
IInv ==
    /\ tx_head \in Nat /\ tx_tail \in Nat /\ tail \in Nat /\ head \in Nat /\ ev \in Nat
    /\ DOMAIN tx_ring = 0 .. Capacity - 1
    /\ tx_tail <= tx_head /\ tx_head - tx_tail <= Capacity
    /\ spc = "send" => tx_tail <= tail /\ tail <= head /\ head <= tx_head
    /\ ppc \in {"copy", "publish"} => tx_head - tx_tail < Capacity
    /\ ev = IF ppc = "idle" THEN tx_head ELSE tx_head + 1
    /\ ppc = "publish" => tx_ring[Slot(tx_head)] = ev
    /\ \A n \in Nat : tx_tail <= n /\ n < tx_head => tx_ring[Slot(n)] = n + 1

\* Slots are indices of tx_ring_.
LEMMA SlotInRing == ASSUME NEW n \in Nat PROVE Slot(n) \in 0 .. Capacity - 1
BY SizesAssumption DEF Slot

\* The inductive invariant holds initially.
LEMMA InitInv == Init => IInv
BY SizesAssumption, SMTT(20) DEF Init, IInv

\* Copying the new event changes no slot that is still in use.
LEMMA CopyKeepsOthers == ASSUME IInv, PushCopy PROVE IInv'
<1>1. /\ tx_ring' = [tx_ring EXCEPT ![Slot(tx_head)] = ev]
      /\ ppc = "copy" /\ ppc' = "publish"
      /\ UNCHANGED <<tx_head, tx_tail, tail, head, ev, spc>>
  BY DEF PushCopy, poll_tx
<1>2. Slot(tx_head) \in DOMAIN tx_ring
  BY SlotInRing DEF IInv
<1>3. ASSUME NEW n \in Nat, tx_tail <= n, n < tx_head
      PROVE  tx_ring'[Slot(n)] = n + 1
  <2>1. Slot(n) # Slot(tx_head)
    <3>1. tx_head - n < Capacity
      BY <1>1, <1>3, SizesAssumption, SMTT(20) DEF IInv
    <3> QED
      BY <1>3, <3>1, SlotsDiffer DEF IInv
  <2>2. Slot(n) \in DOMAIN tx_ring
    BY SlotInRing DEF IInv
  <2>3. tx_ring[Slot(n)] = n + 1
    BY <1>3 DEF IInv
  <2> QED
    BY <1>1, <2>1, <2>2, <2>3
<1>4. tx_ring'[Slot(tx_head)] = ev /\ DOMAIN tx_ring' = DOMAIN tx_ring
  BY <1>1, <1>2
<1> QED
  BY <1>1, <1>3, <1>4 DEF IInv, Slot

\* Every step preserves the inductive invariant.
LEMMA StepInv == IInv /\ [Next]_vars => IInv'
<1> SUFFICES ASSUME IInv, [Next]_vars PROVE IInv'
  OBVIOUS
<1> USE SizesAssumption
<1>1. CASE PushAlive
  BY <1>1, SMTT(20) DEF PushAlive, IInv, poll_tx, Slot
<1>2. CASE PushRefused
  BY <1>2, SMTT(20) DEF PushRefused, IInv, poll_tx, Slot
<1>3. CASE PushRoom
  BY <1>3, SMTT(20) DEF PushRoom, IsFull, IInv, poll_tx, Slot
<1>4. CASE PushCopy
  BY <1>4, CopyKeepsOthers
<1>5. CASE PushPublish
  BY <1>5, SMTT(20) DEF PushPublish, IInv, poll_tx
<1>6. CASE PollTx
  BY <1>6 DEF PollTx, IInv, producer, Slot
<1>7. ASSUME NEW n \in 1 .. FrameSize - offset, SendSome(n)
      PROVE  IInv'
  BY <1>7, SMTT(20) DEF SendSome, Sending, IInv, producer
<1>8. CASE SendStops
  BY <1>8 DEF SendStops, IInv, producer
<1>9. CASE SendFails
  BY <1>9, SMTT(20) DEF SendFails, Sending, IInv, producer
<1>10. CASE LoseSender \/ \E c \in Conn : BindSender(c)
  BY <1>10, Zenon DEF LoseSender, BindSender, IInv, producer, poll_tx, Slot
<1>11. CASE UNCHANGED sender
  BY <1>11 DEF sender, IInv, producer, poll_tx, Slot
<1>12. RxStep \/ LoseReceiver \/ (\E c \in Conn : BindReceiver(c))
         \/ (\E c \in Conn, n \in 0 .. KernelBuffer : Break(c, n)) => UNCHANGED sender
  BY DEF RxStep, PollRx, RecvSome, RecvWouldBlock, RecvFails, LoseReceiver, BindReceiver, Break
<1> QED
  BY <1>1, <1>2, <1>3, <1>4, <1>5, <1>6, <1>7, <1>8, <1>9, <1>10, <1>11, <1>12
  DEF Next, PushStep, TxStep, vars

\* The inductive invariant always holds.
THEOREM Invariance == Spec => []IInv
BY InitInv, StepInv, PTL DEF Spec

\* For every capacity push() never writes the slot that poll_tx() is sending,
\* although poll_tx() publishes its tail only when it returns.
THEOREM SlotsRaceFree == Spec => []NoSlotConflict
<1>1. ASSUME IInv PROVE NoSlotConflict
  <2>1. SUFFICES ASSUME ppc = "copy", Sending PROVE Slot(tx_head) # Slot(tail)
    BY DEF NoSlotConflict
  <2>2. tail < tx_head /\ tx_head - tail < Capacity
    BY <1>1, <2>1, SizesAssumption, SMTT(20) DEF IInv, Sending
  <2> QED
    BY <1>1, <2>2, SlotsDiffer DEF IInv
<1> QED
  BY <1>1, Invariance, PTL

\* poll_tx() is at the event that follows the last one it sent: none is skipped,
\* repeated or overwritten in the ring, over any number of connections.
SendsInTurn == Sending => tx_ring[Slot(tail)] = tail + 1

\* For every capacity and any number of connections poll_tx() sends the events
\* of push() one after the other.
THEOREM SendingInTurn == Spec => []SendsInTurn
<1>1. IInv => SendsInTurn
  BY SizesAssumption, SMTT(20) DEF IInv, SendsInTurn, Sending
<1> QED
  BY <1>1, Invariance, PTL

----------------------------------------------------------------------------
\* What is on its way to the receiver on connection c: the units it has staged, if
\* it is bound to c, and those on the wire.
Unit == Msg \X (1 .. FrameSize)
Staged(c) == IF c = rx_sock THEN Len(staging) ELSE 0
InLen(c) == Staged(c) + Len(wire[c])
InAt(c, j) == IF j <= Staged(c) THEN staging[j] ELSE wire[c][j - Staged(c)]

\* v is the d-th unit after u in what poll_tx() sends on a connection.
Later(u, d, v) ==
    IF u[2] + d <= FrameSize THEN v[1] = u[1] /\ v[2] = u[2] + d
    ELSE u[1] < v[1] /\ (u[2] + d = FrameSize + 1 => v[2] = 1)

\* How many events poll_tx() has sent, and the unit that it sends next.
Sent == IF spc = "send" THEN tail ELSE tx_tail
NextUnit == <<Sent + 1, offset + 1>>

\* Will the receiver read what is on connection c from the start of a frame?
Receives(c) == c > rx_sock \/ (c = rx_sock /\ ~rx_dead)

\* Every variable has its type, and the flags agree with what they stand for.
NetType ==
    /\ tx_sock \in 0 .. MaxConns /\ rx_sock \in 0 .. MaxConns
    /\ tx_dead \in BOOLEAN /\ rx_dead \in BOOLEAN
    /\ offset \in 0 .. FrameSize - 1
    /\ wire \in [Conn -> Seq(Unit)] /\ up \in [Conn -> BOOLEAN]
    /\ via \in [Msg -> 0 .. MaxConns]
    /\ staging \in Seq(Unit) /\ Len(staging) < FrameSize
    /\ delivered \in Seq([1 .. FrameSize -> Unit])
    /\ ev <= MaxFrames
    /\ tx_dead => offset = 0 /\ spc = "idle"
    /\ ~tx_dead => tx_sock # 0
    /\ spc \in {"idle", "send"}
    /\ rx_dead => staging = <<>> /\ rpc = "idle"
    /\ ~rx_dead => rx_sock # 0

\* On each connection units follow one another as poll_tx() sends them, and the first
\* one that the receiver reads begins a frame.
Chained(c) == \A i, j \in 1 .. InLen(c) : i < j => Later(InAt(c, i), j - i, InAt(c, j))
AtBoundary(c) == Receives(c) /\ InLen(c) > 0 => InAt(c, 1)[2] = 1
InStream ==
    \A c \in Conn : Chained(c) /\ AtBoundary(c) /\ (c > tx_sock => InLen(c) = 0)

\* What poll_tx() sends next continues what is on a connection that is up.
SendContinues ==
    ~tx_dead /\ up[tx_sock] =>
        /\ \A j \in 1 .. InLen(tx_sock) :
              Later(InAt(tx_sock, j), InLen(tx_sock) + 1 - j, NextUnit)
        /\ Receives(tx_sock) /\ InLen(tx_sock) = 0 => offset = 0

\* Of the event that poll_tx() is at, no last unit has been sent; and an event whose
\* last unit was sent is not sent again, on this connection or on a later one.
InOrder ==
    /\ \A c \in Conn : \A j \in 1 .. InLen(c) :
          /\ InAt(c, j)[1] <= Sent + 1
          /\ InAt(c, j)[2] = FrameSize => InAt(c, j)[1] <= Sent
    /\ \A b, c \in Conn : b < c =>
          \A i \in 1 .. InLen(b), j \in 1 .. InLen(c) :
              InAt(b, i)[2] = FrameSize => InAt(b, i)[1] < InAt(c, j)[1]

\* The event of a frame, and what was delivered: it is whole, in order and before all
\* that may follow.
Event(f) == f[1][1]

DeliveredOK ==
    /\ FramesIntact
    /\ \A k, l \in 1 .. Len(delivered) : k < l => Event(delivered[k]) < Event(delivered[l])
    /\ \A k \in 1 .. Len(delivered) :
          /\ Event(delivered[k]) <= Sent
          /\ \A c \in Conn : c >= rx_sock =>
                \A j \in 1 .. InLen(c) : Event(delivered[k]) < InAt(c, j)[1]

\* Where each event that was sent is: delivered or dropped, on a connection that the
\* receiver left or that broke, or on its way to its last unit.
Settled(m) == m \in dropped \/ \E k \in 1 .. Len(delivered) : delivered[k] = Frame(m)
Gone(m) == via[m] \in 1 .. rx_sock - 1 \/ (via[m] \in Conn /\ ~up[via[m]])
OnItsWay(m) ==
    via[m] \in Conn /\ \E j \in 1 .. InLen(via[m]) : InAt(via[m], j) = <<m, FrameSize>>
Accounted(m) == Settled(m) \/ Gone(m) \/ OnItsWay(m)

AllAccounted == \A m \in Msg : m <= Sent => Accounted(m)

\* The inductive invariant, together with IInv.
NetInv == NetType /\ InStream /\ SendContinues /\ InOrder /\ DeliveredOK /\ AllAccounted

----------------------------------------------------------------------------
\* The sender's connection, and the one an event was sent on, after a step.
LEMMA SenderAt ==
    ASSUME NEW s, tx_sock' = s
    PROVE  InLen(tx_sock)' = InLen(s)' /\ \A j : InAt(tx_sock, j)' = InAt(s, j)'
BY DEF InLen, InAt, Staged

\* The same of the connection that event m was sent on.
LEMMA ViaAt ==
    ASSUME NEW m, NEW c, via'[m] = c
    PROVE  InLen(via[m])' = InLen(c)' /\ \A j : InAt(via[m], j)' = InAt(c, j)'
BY DEF InLen, InAt, Staged

\* An event is on its way where its last unit is.
LEMMA StillOnItsWay ==
    ASSUME NEW m \in Msg, NEW c \in Conn, via'[m] = c,
           NEW j \in 1 .. InLen(c)', InAt(c, j)' = <<m, FrameSize>>
    PROVE  OnItsWay(m)'
<1>1. InLen(via[m])' = InLen(c)' /\ InAt(via[m], j)' = InAt(c, j)'
  BY ViaAt
<1> QED
  BY <1>1 DEF OnItsWay

\* The types of what is on its way.
LEMMA InTypes ==
    ASSUME NetType, NEW c \in Conn
    PROVE  /\ Staged(c) \in Nat /\ Len(wire[c]) \in Nat /\ InLen(c) \in Nat
           /\ wire[c] \in Seq(Unit)
           /\ \A j \in 1 .. InLen(c) :
                 /\ InAt(c, j) \in Unit
                 /\ InAt(c, j)[1] \in Msg /\ InAt(c, j)[2] \in 1 .. FrameSize
                 /\ InAt(c, j) = <<InAt(c, j)[1], InAt(c, j)[2]>>
<1>1. wire[c] \in Seq(Unit) /\ staging \in Seq(Unit)
  BY DEF NetType
<1>2. Len(wire[c]) \in Nat /\ Len(staging) \in Nat
  BY <1>1
<1>3. Staged(c) \in Nat /\ InLen(c) \in Nat /\ Staged(c) <= Len(staging)
  <2>1. Staged(c) \in Nat /\ Staged(c) <= Len(staging)
    BY <1>2 DEF Staged
  <2> QED
    BY <1>2, <2>1 DEF InLen
<1>4. ASSUME NEW j \in 1 .. InLen(c) PROVE InAt(c, j) \in Unit
  <2>1. CASE j <= Staged(c)
    <3>1. j \in 1 .. Len(staging)
      BY <1>2, <1>3, <2>1
    <3>2. staging[j] \in Unit
      BY <1>1, <3>1
    <3> QED
      BY <2>1, <3>2 DEF InAt
  <2>2. CASE ~(j <= Staged(c))
    <3>1. j - Staged(c) \in 1 .. Len(wire[c])
      BY <1>2, <1>3, <2>2 DEF InLen
    <3>2. wire[c][j - Staged(c)] \in Unit
      BY <1>1, <3>1
    <3> QED
      BY <2>2, <3>2 DEF InAt
  <2> QED
    BY <2>1, <2>2
<1>5. \A u \in Unit : u[1] \in Msg /\ u[2] \in 1 .. FrameSize /\ u = <<u[1], u[2]>>
  BY DEF Unit
<1> QED
  BY <1>1, <1>2, <1>3, <1>4, <1>5

\* The ring keeps poll_tx() within what was pushed.
LEMMA SentTypes ==
    ASSUME IInv, NetType
    PROVE  /\ Sent \in Nat /\ Sent <= MaxFrames
           /\ FrameSize \in Nat \ {0}
           /\ Sending => /\ Sent = tail /\ Sent + 1 \in Msg
                         /\ tx_ring[Slot(tail)] = Sent + 1
<1>1. Sent \in Nat /\ Sent <= tx_head /\ tx_head <= ev
  BY DEF IInv, Sent
<1>2. Sent <= MaxFrames
  BY <1>1, SizesAssumption, SMTT(20) DEF IInv, NetType
<1>3. ASSUME Sending PROVE Sent = tail /\ Sent + 1 \in Msg /\ tx_ring[Slot(tail)] = Sent + 1
  <2>1. Sent = tail /\ tail + 1 <= tx_head /\ tx_tail <= tail
    BY <1>3, SMTT(20) DEF Sending, Sent, IInv
  <2>2. tail + 1 <= MaxFrames
    BY <1>1, <2>1, SizesAssumption, SMTT(20) DEF IInv, NetType
  <2> QED
    BY <2>1, <2>2, SizesAssumption, SMTT(20) DEF IInv, Msg
<1> QED
  BY <1>1, <1>2, <1>3, SizesAssumption

\* A step after which a part of what was on its way is left on each connection, from
\* some unit on, keeps its order.
LEMMA PartKeepsOrder ==
    ASSUME NetType, InStream, InOrder, NEW a \in [Conn -> Nat],
           \A c \in Conn : /\ InLen(c)' \in Nat /\ a[c] + InLen(c)' <= InLen(c)
                           /\ \A j \in 1 .. InLen(c)' : InAt(c, j)' = InAt(c, a[c] + j),
           Sent' = Sent, tx_sock' >= tx_sock, tx_sock' \in Nat
    PROVE  /\ \A c \in Conn : Chained(c)' /\ (c > tx_sock' => InLen(c)' = 0)
           /\ InOrder'
<1>1. ASSUME NEW c \in Conn, NEW j \in 1 .. InLen(c)'
      PROVE  a[c] + j \in 1 .. InLen(c) /\ InAt(c, j)' = InAt(c, a[c] + j) /\ a[c] \in Nat
  <2>1. InLen(c) \in Nat
    BY InTypes
  <2> QED
    BY <2>1
<1>2. ASSUME NEW c \in Conn PROVE Chained(c)'
  <2> SUFFICES ASSUME NEW i \in 1 .. InLen(c)', NEW j \in 1 .. InLen(c)', i < j
               PROVE  Later(InAt(c, i)', j - i, InAt(c, j)')
    BY DEF Chained, Later
  <2>1. /\ a[c] + i \in 1 .. InLen(c) /\ a[c] + j \in 1 .. InLen(c)
        /\ InAt(c, i)' = InAt(c, a[c] + i) /\ InAt(c, j)' = InAt(c, a[c] + j) /\ a[c] \in Nat
    BY <1>1
  <2>2. a[c] + i < a[c] + j /\ (a[c] + j) - (a[c] + i) = j - i
    BY <2>1
  <2>3. Later(InAt(c, a[c] + i), (a[c] + j) - (a[c] + i), InAt(c, a[c] + j))
    BY <2>1, <2>2 DEF InStream, Chained
  <2> QED
    BY <2>1, <2>2, <2>3
<1>3. ASSUME NEW c \in Conn, c > tx_sock' PROVE InLen(c)' = 0
  <2>1. c > tx_sock
    BY <1>3 DEF NetType, Conn
  <2>2. InLen(c) = 0
    BY <2>1 DEF InStream
  <2> QED
    BY <2>2
<1>4. ASSUME NEW c \in Conn, NEW j \in 1 .. InLen(c)'
      PROVE  /\ InAt(c, j)'[1] <= Sent + 1
             /\ InAt(c, j)'[2] = FrameSize => InAt(c, j)'[1] <= Sent
  BY <1>1 DEF InOrder
<1>5. ASSUME NEW b \in Conn, NEW c \in Conn, b < c, NEW i \in 1 .. InLen(b)',
             NEW j \in 1 .. InLen(c)', InAt(b, i)'[2] = FrameSize
      PROVE  InAt(b, i)'[1] < InAt(c, j)'[1]
  <2>1. a[b] + i \in 1 .. InLen(b) /\ InAt(b, i)' = InAt(b, a[b] + i)
    BY <1>1
  <2>2. a[c] + j \in 1 .. InLen(c) /\ InAt(c, j)' = InAt(c, a[c] + j)
    BY <1>1
  <2> QED
    BY <1>5, <2>1, <2>2 DEF InOrder
<1>6. InOrder'
  BY <1>4, <1>5 DEF InOrder
<1> QED
  BY <1>2, <1>3, <1>6

\* Nor does such a step bring back what was delivered.
LEMMA PartKeepsDelivered ==
    ASSUME NetType, DeliveredOK, NEW a \in [Conn -> Nat],
           \A c \in Conn : /\ InLen(c)' \in Nat /\ a[c] + InLen(c)' <= InLen(c)
                           /\ \A j \in 1 .. InLen(c)' : InAt(c, j)' = InAt(c, a[c] + j),
           Sent' = Sent, rx_sock' >= rx_sock, rx_sock' \in Nat, delivered' = delivered
    PROVE  DeliveredOK'
<1>1. FramesIntact'
  BY DEF DeliveredOK, FramesIntact
<1>2. ASSUME NEW k \in 1 .. Len(delivered), NEW c \in Conn, c >= rx_sock', NEW j \in 1 .. InLen(c)'
      PROVE  Event(delivered[k]) < InAt(c, j)'[1]
  <2>1. InLen(c) \in Nat
    BY InTypes
  <2>2. a[c] + j \in 1 .. InLen(c) /\ InAt(c, j)' = InAt(c, a[c] + j)
    BY <2>1
  <2>3. c >= rx_sock
    BY <1>2 DEF NetType, Conn
  <2> QED
    BY <2>2, <2>3 DEF DeliveredOK
<1> QED
  BY <1>1, <1>2 DEF DeliveredOK

\* Steps that touch neither a connection nor its ends.
network == <<tx_sock, tx_dead, rx_sock, rx_dead, offset, up, wire, via, staging, delivered,
             dropped>>

\* They keep everything but, perhaps, the types.
LEMMA QuietKeeps ==
    ASSUME NetInv, UNCHANGED network, Sent' = Sent
    PROVE  InStream' /\ SendContinues' /\ InOrder' /\ DeliveredOK' /\ AllAccounted'
<1>1. /\ tx_sock' = tx_sock /\ tx_dead' = tx_dead /\ rx_sock' = rx_sock /\ rx_dead' = rx_dead
      /\ offset' = offset /\ up' = up /\ wire' = wire /\ via' = via /\ staging' = staging
      /\ delivered' = delivered /\ dropped' = dropped
  BY DEF network
<1>2. \A c : InLen(c)' = InLen(c) /\ Staged(c)' = Staged(c) /\ Receives(c)' = Receives(c)
  BY <1>1 DEF InLen, Staged, Receives
<1>3. \A c, j : InAt(c, j)' = InAt(c, j)
  BY <1>1, <1>2 DEF InAt
<1>4. NextUnit' = NextUnit
  BY <1>1 DEF NextUnit
<1>5. InStream'
  <2>1. \A c \in Conn : Chained(c)' = Chained(c) /\ AtBoundary(c)' = AtBoundary(c)
    BY <1>1, <1>2, <1>3, SMTT(20) DEF Chained, AtBoundary, Later
  <2> QED
    BY <1>1, <1>2, <2>1 DEF NetInv, InStream
<1>6. SendContinues'
  BY <1>1, <1>2, <1>3, <1>4 DEF NetInv, SendContinues, Later
<1>7. InOrder'
  BY <1>2, <1>3 DEF NetInv, InOrder
<1>8. DeliveredOK'
  BY <1>1, <1>2, <1>3 DEF NetInv, DeliveredOK, FramesIntact
<1>9. AllAccounted'
  <2>1. \A m \in Msg : Accounted(m)' = Accounted(m)
    BY <1>1, <1>2, <1>3 DEF Accounted, Settled, Gone, OnItsWay
  <2> QED
    BY <2>1 DEF NetInv, AllAccounted
<1> QED
  BY <1>5, <1>6, <1>7, <1>8, <1>9

\* The producer's push() touches the ring only.
LEMMA PushKeepsNet ==
    ASSUME IInv, NetInv, PushAlive \/ PushStep
    PROVE  NetInv'
<1>1. UNCHANGED <<network, spc, tail, tx_tail, rpc>> /\ ev' <= MaxFrames
  <2>1. CASE PushAlive
    BY <2>1, SizesAssumption, SMTT(20) DEF PushAlive, network, receiver, poll_tx, NetInv, NetType, IInv
  <2>2. CASE PushRefused
    BY <2>2, SizesAssumption, SMTT(20) DEF PushRefused, network, receiver, poll_tx, NetInv, NetType, IInv
  <2>3. CASE PushRoom \/ PushCopy \/ PushPublish
    BY <2>3 DEF PushRoom, PushCopy, PushPublish, network, receiver, poll_tx, NetInv, NetType
  <2> QED
    BY <2>1, <2>2, <2>3 DEF PushStep
<1>2. Sent' = Sent
  BY <1>1 DEF Sent
<1>3. NetType'
  BY <1>1 DEF NetInv, NetType, network
<1> QED
  BY <1>1, <1>2, <1>3, QuietKeeps DEF NetInv

\* poll_tx() begins, or stops before a frame or in the middle of one; poll_rx()
\* begins, or finds nothing.
LEMMA PollKeepsNet ==
    ASSUME IInv, NetInv,
           PollTx \/ SendStops \/ PollRx \/ RecvWouldBlock \/ UNCHANGED vars
    PROVE  NetInv'
<1>1. UNCHANGED network /\ ev' = ev
  BY DEF PollTx, SendStops, PollRx, RecvWouldBlock, vars, sender, receiver, producer, network
<1>2. Sent' = Sent
  BY DEF PollTx, SendStops, PollRx, RecvWouldBlock, vars, sender, poll_tx, Sent
<1>3. NetType'
  <2>1. CASE PollTx
    BY <1>1, <2>1 DEF PollTx, NetInv, NetType, network, receiver
  <2>2. CASE SendStops
    BY <1>1, <2>2 DEF SendStops, NetInv, NetType, network, receiver
  <2>3. CASE PollRx \/ RecvWouldBlock \/ UNCHANGED vars
    BY <1>1, <2>3 DEF PollRx, RecvWouldBlock, NetInv, NetType, network, vars, sender, poll_tx, receiver
  <2> QED
    BY <2>1, <2>2, <2>3
<1> QED
  BY <1>1, <1>2, <1>3, QuietKeeps DEF NetInv

\* The sending end dies, or is bound to a connection that nothing was sent on.
LEMMA TxEndKeepsNet ==
    ASSUME IInv, NetInv, SendFails \/ LoseSender \/ \E c \in Conn : BindSender(c)
    PROVE  NetInv'
<1>1. /\ rx_sock' = rx_sock /\ rx_dead' = rx_dead /\ up' = up /\ wire' = wire /\ via' = via
      /\ staging' = staging /\ delivered' = delivered /\ dropped' = dropped /\ rpc' = rpc
      /\ ev' = ev /\ spc' = "idle" /\ offset' = 0
  BY DEF SendFails, LoseSender, BindSender, TxMarkDead, receiver, poll_tx, producer, NetInv, NetType
<1>2. Sent' = Sent
  BY DEF SendFails, Sending, LoseSender, BindSender, poll_tx, Sent
<1>3. \A c : InLen(c)' = InLen(c) /\ Staged(c)' = Staged(c) /\ Receives(c)' = Receives(c)
  BY <1>1 DEF InLen, Staged, Receives
<1>4. \A c, j : InAt(c, j)' = InAt(c, j)
  BY <1>1, <1>3 DEF InAt
<1>5. tx_sock' >= tx_sock /\ tx_sock' \in 0 .. MaxConns /\ tx_dead' \in BOOLEAN
  <2>1. tx_sock \in 0 .. MaxConns
    BY DEF NetInv, NetType
  <2>2. CASE SendFails \/ LoseSender
    <3>1. tx_sock' = tx_sock /\ tx_dead' = TRUE
      BY <2>2 DEF SendFails, LoseSender, TxMarkDead
    <3> QED
      BY <2>1, <3>1
  <2>3. ASSUME NEW c \in Conn, BindSender(c)
        PROVE  tx_sock' >= tx_sock /\ tx_sock' \in 0 .. MaxConns /\ tx_dead' \in BOOLEAN
    <3>1. tx_sock' = c /\ c > tx_sock /\ tx_dead' = FALSE
      BY <2>3 DEF BindSender
    <3>2. tx_dead' \in BOOLEAN
      BY <3>1, Zenon
    <3>3. tx_sock' >= tx_sock /\ tx_sock' \in 0 .. MaxConns
      BY <2>1, <3>1, SizesAssumption DEF Conn
    <3> QED
      BY <3>2, <3>3
  <2> QED
    BY <2>2, <2>3
<1>6. ~tx_dead' => tx_sock' > tx_sock /\ tx_sock' \in Conn
  BY DEF SendFails, LoseSender, BindSender, TxMarkDead
<1>7. NetType'
  <2>1. ~tx_dead' => tx_sock' # 0
    BY <1>6 DEF Conn
  <2> QED
    BY <1>1, <1>5, <2>1, SizesAssumption, SMTT(20) DEF NetInv, NetType
<1>8. InStream'
  <2>1. \A c \in Conn : Chained(c)' = Chained(c) /\ AtBoundary(c)' = AtBoundary(c)
    BY <1>3, <1>4, SMTT(20) DEF Chained, AtBoundary, Later
  <2>2. ASSUME NEW c \in Conn, c > tx_sock' PROVE InLen(c)' = 0
    <3>1. c > tx_sock
      BY <1>5, <2>2 DEF NetInv, NetType, Conn
    <3> QED
      BY <1>3, <3>1 DEF NetInv, InStream
  <2> QED
    BY <2>1, <2>2 DEF NetInv, InStream
<1>9. SendContinues'
  <2> SUFFICES ASSUME ~tx_dead'
               PROVE  InLen(tx_sock)' = 0
    BY <1>1 DEF SendContinues
  <2>1. PICK c \in Conn : c = tx_sock' /\ c > tx_sock
    BY <1>6
  <2>2. InLen(c) = 0
    BY <2>1 DEF NetInv, InStream
  <2>3. InLen(tx_sock)' = InLen(c)'
    BY <2>1, SenderAt
  <2> QED
    BY <1>3, <2>2, <2>3
<1>10. InOrder'
  BY <1>2, <1>3, <1>4 DEF NetInv, InOrder
<1>11. DeliveredOK'
  BY <1>1, <1>2, <1>3, <1>4 DEF NetInv, DeliveredOK, FramesIntact
<1>12. AllAccounted'
  <2>1. \A m \in Msg : Accounted(m)' = Accounted(m)
    BY <1>1, <1>3, <1>4 DEF Accounted, Settled, Gone, OnItsWay
  <2> QED
    BY <1>2, <2>1 DEF NetInv, AllAccounted
<1> QED
  BY <1>7, <1>8, <1>9, <1>10, <1>11, <1>12 DEF NetInv

\* The receiving end dies with its connection.
LEMMA RxEndDies ==
    ASSUME IInv, NetInv, RecvFails \/ LoseReceiver
    PROVE  NetInv'
<1>1. /\ tx_sock' = tx_sock /\ tx_dead' = tx_dead /\ offset' = offset /\ ev' = ev /\ spc' = spc
      /\ tail' = tail /\ tx_tail' = tx_tail /\ rx_sock' = rx_sock /\ up' = up /\ wire' = wire
      /\ via' = via /\ delivered' = delivered /\ dropped' = dropped
      /\ staging' = <<>> /\ rx_dead' = TRUE /\ rpc' = "idle" /\ ~up[rx_sock]
  BY DEF RecvFails, LoseReceiver, RxMarkDead, sender, poll_tx, producer
<1>2. Sent' = Sent /\ NextUnit' = NextUnit
  BY <1>1 DEF Sent, NextUnit
<1>3. <<>> \in Seq(Unit) /\ Len(<<>>) = 0
  OBVIOUS
<1>4. NetType'
  BY <1>1, <1>3, SizesAssumption, SMTT(20) DEF NetInv, NetType
<1> DEFINE a == [c \in Conn |-> Staged(c)]
<1>5. a \in [Conn -> Nat]
  BY InTypes DEF NetInv
<1>6. ASSUME NEW c \in Conn
      PROVE  /\ InLen(c)' = Len(wire[c]) /\ InLen(c)' \in Nat /\ a[c] + InLen(c)' = InLen(c)
             /\ \A j \in 1 .. InLen(c)' : InAt(c, j)' = InAt(c, a[c] + j)
  <2>1. Staged(c)' = 0 /\ InLen(c)' = Len(wire[c]) /\ Len(wire[c]) \in Nat /\ Staged(c) \in Nat
    BY <1>1, <1>3, InTypes DEF Staged, InLen, NetInv
  <2>2. ASSUME NEW j \in 1 .. Len(wire[c]) PROVE InAt(c, j)' = InAt(c, Staged(c) + j)
    <3>1. InAt(c, j)' = wire[c][j]
      BY <1>1, <2>1 DEF InAt
    <3>2. InAt(c, Staged(c) + j) = wire[c][j]
      BY <2>1 DEF InAt
    <3> QED
      BY <3>1, <3>2
  <2> QED
    BY <2>1, <2>2 DEF InLen
<1>7. \A c \in Conn : c # rx_sock => a[c] = 0 /\ InLen(c)' = InLen(c)
  BY <1>6 DEF Staged
<1> HIDE DEF a
<1>8. \A c \in Conn : a[c] + InLen(c)' <= InLen(c)
  BY <1>6, InTypes DEF NetInv
<1>9. (\A c \in Conn : Chained(c)' /\ (c > tx_sock' => InLen(c)' = 0)) /\ InOrder'
  BY <1>1, <1>2, <1>5, <1>6, <1>8, PartKeepsOrder, SMTT(20) DEF NetInv, NetType
<1>10. DeliveredOK'
  BY <1>1, <1>2, <1>5, <1>6, <1>8, PartKeepsDelivered, SMTT(20) DEF NetInv, NetType
<1>11. ASSUME NEW c \in Conn, Receives(c)' PROVE c # rx_sock /\ Receives(c)
  BY <1>1, <1>11 DEF Receives, NetInv, NetType, Conn
<1>12. \A c \in Conn : AtBoundary(c)'
  <2> SUFFICES ASSUME NEW c \in Conn, Receives(c)', InLen(c)' > 0 PROVE InAt(c, 1)'[2] = 1
    BY DEF AtBoundary
  <2>1. c # rx_sock /\ Receives(c) /\ a[c] = 0 /\ InLen(c)' = InLen(c)
    BY <1>7, <1>11
  <2>2. InAt(c, 1)' = InAt(c, 1)
    BY <1>6, <2>1
  <2> QED
    BY <2>1, <2>2 DEF NetInv, InStream, AtBoundary
<1>13. SendContinues'
  <2> SUFFICES ASSUME ~tx_dead, up[tx_sock]
               PROVE  SendContinues'
    BY <1>1 DEF SendContinues
  <2>1. tx_sock \in Conn /\ tx_sock # rx_sock
    BY <1>1, SMTT(20) DEF NetInv, NetType, Conn
  <2>2. InLen(tx_sock)' = InLen(tx_sock) /\ \A j \in 1 .. InLen(tx_sock) : InAt(tx_sock, j)' = InAt(tx_sock, j)
    BY <1>1, <2>1 DEF InLen, InAt, Staged
  <2>3. Receives(tx_sock)' => Receives(tx_sock)
    BY <1>1, <2>1 DEF Receives
  <2> QED
    BY <1>1, <1>2, <2>2, <2>3 DEF NetInv, SendContinues, Later
<1>14. AllAccounted'
  <2> SUFFICES ASSUME NEW m \in Msg, Accounted(m) PROVE Accounted(m)'
    BY <1>2 DEF NetInv, AllAccounted
  <2>1. CASE OnItsWay(m)
    <3>1. PICK c \in Conn : c = via[m]
      BY <2>1 DEF OnItsWay
    <3>2. CASE c = rx_sock
      BY <1>1, <3>1, <3>2 DEF Accounted, Gone
    <3>3. CASE c # rx_sock
      <4>1. PICK j \in 1 .. InLen(c) : InAt(c, j) = <<m, FrameSize>>
        BY <2>1, <3>1 DEF OnItsWay
      <4>2. j \in 1 .. InLen(c)' /\ InAt(c, j)' = <<m, FrameSize>>
        BY <1>6, <1>7, <3>3, <4>1
      <4>3. via'[m] = c
        BY <1>1, <3>1
      <4> QED
        BY <4>2, <4>3, StillOnItsWay DEF Accounted
    <3> QED
      BY <3>2, <3>3
  <2>2. CASE Settled(m) \/ Gone(m)
    BY <1>1, <2>2 DEF Accounted, Settled, Gone
  <2> QED
    BY <2>1, <2>2 DEF Accounted
<1>15. InStream'
  BY <1>9, <1>12 DEF InStream
<1> QED
  BY <1>4, <1>9, <1>10, <1>13, <1>14, <1>15 DEF NetInv

\* The receiving end is bound to a later connection, from its first unit on.
LEMMA BindReceiverKeepsNet ==
    ASSUME IInv, NetInv, NEW d \in Conn, BindReceiver(d)
    PROVE  NetInv'
<1>1. /\ tx_sock' = tx_sock /\ tx_dead' = tx_dead /\ offset' = offset /\ ev' = ev /\ spc' = spc
      /\ tail' = tail /\ tx_tail' = tx_tail /\ rx_sock' = d /\ up' = up /\ wire' = wire
      /\ via' = via /\ delivered' = delivered /\ dropped' = dropped /\ staging' = staging
      /\ rx_dead' = FALSE /\ rpc' = rpc /\ d > rx_sock /\ staging = <<>>
  BY DEF BindReceiver, sender, poll_tx, producer, NetInv, NetType
<1>2. Sent' = Sent /\ NextUnit' = NextUnit
  BY <1>1 DEF Sent, NextUnit
<1>3. Len(<<>>) = 0
  OBVIOUS
<1>4. \A c : Staged(c) = 0 /\ Staged(c)' = 0
  BY <1>1, <1>3 DEF Staged
<1>5. \A c : InLen(c)' = InLen(c)
  BY <1>1, <1>4 DEF InLen
<1>6. \A c, j : InAt(c, j)' = InAt(c, j)
  BY <1>1, <1>4 DEF InAt
<1>7. d \in 1 .. MaxConns /\ rx_sock \in 0 .. MaxConns /\ MaxConns \in Nat
  BY SizesAssumption DEF NetInv, NetType, Conn
<1>8. NetType'
  <2>1. rx_dead' \in BOOLEAN /\ ~rx_dead'
    BY <1>1, Zenon
  <2>2. rx_sock' \in 0 .. MaxConns /\ rx_sock' # 0
    BY <1>1, <1>7
  <2> QED
    BY <1>1, <2>1, <2>2 DEF NetInv, NetType
<1>9. \A c \in Conn : Receives(c)' => Receives(c)
  BY <1>1, <1>7 DEF Receives, Conn
<1>10. InStream'
  <2>1. \A c \in Conn : Chained(c)' = Chained(c)
    BY <1>5, <1>6, SMTT(20) DEF Chained, Later
  <2>2. \A c \in Conn : AtBoundary(c) => AtBoundary(c)'
    BY <1>5, <1>6, <1>9 DEF AtBoundary
  <2> QED
    BY <1>1, <1>5, <2>1, <2>2 DEF NetInv, InStream
<1>11. SendContinues'
  <2>1. ~tx_dead => tx_sock \in Conn
    BY SMTT(20) DEF NetInv, NetType, Conn
  <2> QED
    BY <1>1, <1>2, <1>5, <1>6, <1>9, <2>1 DEF NetInv, SendContinues, Later
<1>12. InOrder'
  BY <1>2, <1>5, <1>6 DEF NetInv, InOrder
<1>13. DeliveredOK'
  <2>1. \A c \in Conn : c >= rx_sock' => c >= rx_sock
    BY <1>1, <1>7 DEF Conn
  <2> QED
    BY <1>1, <1>2, <1>5, <1>6, <2>1 DEF NetInv, DeliveredOK, FramesIntact
<1>14. AllAccounted'
  <2>1. \A m \in Msg : via[m] \in 1 .. rx_sock - 1 => via[m] \in 1 .. rx_sock' - 1
    BY <1>1, <1>7
  <2>2. \A m \in Msg : Accounted(m) => Accounted(m)'
    BY <1>1, <1>5, <1>6, <2>1 DEF Accounted, Settled, Gone, OnItsWay
  <2> QED
    BY <1>2, <2>2 DEF NetInv, AllAccounted
<1> QED
  BY <1>8, <1>10, <1>11, <1>12, <1>13, <1>14 DEF NetInv

\* A connection breaks: its last units may be lost.
LEMMA BreakKeepsNet ==
    ASSUME IInv, NetInv, NEW d \in Conn, NEW n \in 0 .. KernelBuffer, Break(d, n)
    PROVE  NetInv'
<1>1. /\ tx_sock' = tx_sock /\ tx_dead' = tx_dead /\ offset' = offset /\ ev' = ev /\ spc' = spc
      /\ tail' = tail /\ tx_tail' = tx_tail /\ rx_sock' = rx_sock /\ via' = via
      /\ delivered' = delivered /\ dropped' = dropped /\ staging' = staging
      /\ rx_dead' = rx_dead /\ rpc' = rpc
  BY DEF Break, sender, receiver, poll_tx, producer
<1>2. Sent' = Sent /\ NextUnit' = NextUnit /\ \A c : Receives(c)' = Receives(c) /\ Staged(c)' = Staged(c)
  BY <1>1 DEF Sent, NextUnit, Receives, Staged
<1>3. /\ up' = [up EXCEPT ![d] = FALSE] /\ wire' = [wire EXCEPT ![d] = SubSeq(wire[d], 1, n)]
      /\ n <= Len(wire[d]) /\ n \in Nat
  BY SizesAssumption DEF Break
<1>4. /\ SubSeq(wire[d], 1, n) \in Seq(Unit) /\ Len(SubSeq(wire[d], 1, n)) = n
      /\ \A i \in 1 .. n : SubSeq(wire[d], 1, n)[i] = wire[d][i]
  <2>1. \A i \in 1 .. n : wire[d][i] \in Unit
    BY <1>3, InTypes DEF NetInv
  <2>2. /\ SubSeq(wire[d], 1, n) \in Seq(Unit)
        /\ Len(SubSeq(wire[d], 1, n)) = IF 1 <= n THEN n - 1 + 1 ELSE 0
        /\ \A i \in 1 .. n - 1 + 1 : SubSeq(wire[d], 1, n)[i] = wire[d][1 + i - 1]
    BY <1>3, <2>1
  <2> QED
    BY <1>3, <2>2
<1>5. wire' \in [Conn -> Seq(Unit)] /\ up' \in [Conn -> BOOLEAN]
  BY <1>3, <1>4 DEF NetInv, NetType
<1>6. NetType'
  BY <1>1, <1>5 DEF NetInv, NetType
<1>7. ASSUME NEW c \in Conn
      PROVE  /\ InLen(c)' \in Nat /\ InLen(c)' <= InLen(c)
             /\ \A j \in 1 .. InLen(c)' : InAt(c, j)' = InAt(c, j)
             /\ c # d => InLen(c)' = InLen(c) /\ up'[c] = up[c]
  <2>1. Staged(c) \in Nat /\ Len(wire[c]) \in Nat
    BY InTypes DEF NetInv
  <2>2. CASE c # d
    <3>1. wire'[c] = wire[c] /\ up'[c] = up[c]
      BY <1>3, <2>2 DEF NetInv, NetType
    <3> QED
      BY <1>1, <1>2, <2>1, <3>1 DEF InLen, InAt
  <2>3. CASE c = d
    <3>1. wire'[d] = SubSeq(wire[d], 1, n)
      BY <1>3 DEF NetInv, NetType
    <3>2. InLen(c)' = Staged(c) + n
      BY <1>2, <1>4, <2>3, <3>1 DEF InLen
    <3>3. ASSUME NEW j \in 1 .. Staged(c) + n PROVE InAt(c, j)' = InAt(c, j)
      <4>1. CASE j <= Staged(c)
        BY <1>1, <1>2, <4>1 DEF InAt
      <4>2. CASE ~(j <= Staged(c))
        <5>1. j - Staged(c) \in 1 .. n
          BY <1>3, <2>1, <4>2
        <5>2. wire'[c][j - Staged(c)] = wire[c][j - Staged(c)]
          BY <1>4, <2>3, <3>1, <5>1
        <5> QED
          BY <1>2, <4>2, <5>2 DEF InAt
      <4> QED
        BY <4>1, <4>2
    <3> QED
      BY <1>3, <2>1, <2>3, <3>2, <3>3 DEF InLen
  <2> QED
    BY <2>2, <2>3
<1> DEFINE a == [c \in Conn |-> 0]
<1>8. a \in [Conn -> Nat] /\ \A c \in Conn : a[c] = 0
  OBVIOUS
<1> HIDE DEF a
<1>9. ASSUME NEW c \in Conn
      PROVE  /\ InLen(c)' \in Nat /\ a[c] + InLen(c)' <= InLen(c)
             /\ \A j \in 1 .. InLen(c)' : InAt(c, j)' = InAt(c, a[c] + j)
  <2>1. InLen(c) \in Nat
    BY InTypes DEF NetInv
  <2>2. \A j \in 1 .. InLen(c)' : a[c] + j = j
    BY <1>7, <1>8
  <2> QED
    BY <1>7, <1>8, <2>1, <2>2
<1>10. (\A c \in Conn : Chained(c)' /\ (c > tx_sock' => InLen(c)' = 0)) /\ InOrder'
  <2>1. tx_sock' >= tx_sock /\ tx_sock' \in Nat
    BY <1>1 DEF NetInv, NetType
  <2> QED
    BY <1>2, <1>8, <1>9, <2>1, PartKeepsOrder DEF NetInv
<1>11. DeliveredOK'
  <2>1. rx_sock' >= rx_sock /\ rx_sock' \in Nat
    BY <1>1 DEF NetInv, NetType
  <2> QED
    BY <1>1, <1>2, <1>8, <1>9, <2>1, PartKeepsDelivered DEF NetInv
<1>12. \A c \in Conn : AtBoundary(c)'
  <2> SUFFICES ASSUME NEW c \in Conn, Receives(c)', InLen(c)' > 0 PROVE InAt(c, 1)'[2] = 1
    BY DEF AtBoundary
  <2>1. InLen(c) > 0 /\ InAt(c, 1)' = InAt(c, 1) /\ Receives(c)
    BY <1>2, <1>7, InTypes DEF NetInv
  <2> QED
    BY <2>1 DEF NetInv, InStream, AtBoundary
<1>13. SendContinues'
  <2> SUFFICES ASSUME ~tx_dead, up'[tx_sock] PROVE SendContinues'
    BY <1>1 DEF SendContinues
  <2>1. tx_sock \in Conn /\ tx_sock # d
    BY <1>3, SMTT(20) DEF NetInv, NetType, Conn
  <2>2. wire'[tx_sock] = wire[tx_sock] /\ up[tx_sock]
    BY <1>3, <2>1 DEF NetInv, NetType
  <2>3. InLen(tx_sock)' = InLen(tx_sock) /\ \A j : InAt(tx_sock, j)' = InAt(tx_sock, j)
    BY <1>1, <2>2 DEF InLen, InAt, Staged
  <2>4. Receives(tx_sock)' = Receives(tx_sock)
    BY <1>1 DEF Receives
  <2> QED
    BY <1>1, <1>2, <2>2, <2>3, <2>4 DEF NetInv, SendContinues
<1>14. AllAccounted'
  <2> SUFFICES ASSUME NEW m \in Msg, Accounted(m) PROVE Accounted(m)'
    BY <1>2 DEF NetInv, AllAccounted
  <2>1. CASE OnItsWay(m)
    <3>1. PICK c \in Conn : c = via[m]
      BY <2>1 DEF OnItsWay
    <3>2. CASE c = d
      <4>1. ~up'[via'[m]] /\ via'[m] \in Conn
        BY <1>1, <1>3, <3>1, <3>2 DEF NetInv, NetType
      <4> QED
        BY <4>1 DEF Accounted, Gone
    <3>3. CASE c # d
      <4>1. PICK j \in 1 .. InLen(c) : InAt(c, j) = <<m, FrameSize>>
        BY <2>1, <3>1 DEF OnItsWay
      <4>2. j \in 1 .. InLen(c)' /\ InAt(c, j)' = <<m, FrameSize>>
        BY <1>7, <3>3, <4>1
      <4>3. via'[m] = c
        BY <1>1, <3>1
      <4> QED
        BY <4>2, <4>3, StillOnItsWay DEF Accounted
    <3> QED
      BY <3>2, <3>3
  <2>2. CASE Settled(m)
    BY <1>1, <2>2 DEF Accounted, Settled
  <2>3. CASE Gone(m)
    <3>1. \A c \in Conn : up'[c] => up[c]
      BY <1>3 DEF NetInv, NetType
    <3> QED
      BY <1>1, <2>3, <3>1 DEF Accounted, Gone
  <2> QED
    BY <2>1, <2>2, <2>3 DEF Accounted
<1>15. InStream'
  BY <1>10, <1>12 DEF InStream
<1> QED
  BY <1>6, <1>10, <1>11, <1>13, <1>14, <1>15 DEF NetInv

\* What follows a unit is followed by the rest of its frame and by the next frame.
LEMMA LaterOn ==
    ASSUME NEW u \in Unit, NEW e \in Nat, NEW o \in Nat, NEW d \in Nat, NEW k \in Nat,
           Later(u, d, <<e, o + 1>>), o + 1 + k <= FrameSize + 1
    PROVE  IF o + 1 + k <= FrameSize THEN Later(u, d + k, <<e, o + 1 + k>>)
           ELSE Later(u, d + k, <<e + 1, 1>>)
<1>1. u[1] \in Nat /\ u[2] \in Nat /\ FrameSize \in Nat
  BY SizesAssumption, SMTT(20) DEF Unit, Msg
<1>2. CASE u[2] + d <= FrameSize
  <2>1. e = u[1] /\ o + 1 = u[2] + d
    BY <1>2 DEF Later
  <2>2. o + 1 + k = u[2] + (d + k)
    BY <1>1, <2>1
  <2> QED
    BY <1>1, <2>1, <2>2 DEF Later
<1>3. CASE ~(u[2] + d <= FrameSize)
  <2>1. u[1] < e /\ (u[2] + d = FrameSize + 1 => o + 1 = 1)
    BY <1>3 DEF Later
  <2>2. ~(u[2] + (d + k) <= FrameSize)
    BY <1>1, <1>3
  <2>3. u[2] + (d + k) = FrameSize + 1 => k = 0 /\ o + 1 = 1
    BY <1>1, <1>3, <2>1
  <2> QED
    BY <1>1, <2>1, <2>2, <2>3 DEF Later
<1> QED
  BY <1>2, <1>3

\* The k units of event e after its first o ones come after the L units on connection s,
\* and nothing else on its way changes.
Appends(s, L, k, e, o) ==
    /\ wire' \in [Conn -> Seq(Unit)]
    /\ InLen(s)' = L + k
    /\ \A j \in 1 .. L : InAt(s, j)' = InAt(s, j)
    /\ \A i \in 1 .. k : InAt(s, L + i)' = <<e, o + i>>
    /\ \A c \in Conn \ {s} : InLen(c)' = InLen(c) /\ \A j : InAt(c, j)' = InAt(c, j)

\* What send() of n units leaves alone,
SendLeaves ==
    /\ tx_sock' = tx_sock /\ tx_dead' = tx_dead /\ ev' = ev /\ spc' = spc /\ tx_tail' = tx_tail
    /\ rx_sock' = rx_sock /\ up' = up /\ delivered' = delivered /\ dropped' = dropped
    /\ staging' = staging /\ rx_dead' = rx_dead /\ rpc' = rpc

\* the state it starts from: event e is sent on connection s, o of its units before and k
\* of them now,
SendArgs(n, s, e, o, k, L, z) ==
    /\ ~tx_dead /\ s = tx_sock /\ o = offset /\ L = InLen(s) /\ z = Sent
    /\ (up[s] => k = n) /\ (~up[s] => k = 0)
    /\ e = z + 1 /\ e \in Nat /\ n >= 1 /\ o + n <= FrameSize /\ k <= n /\ FrameSize \in Nat

\* and what it does to poll_tx()'s own state.
SendEnds(n, s, e, o, z) ==
    /\ o + n = FrameSize => offset' = 0 /\ Sent' = e /\ via' = [via EXCEPT ![e] = s]
    /\ o + n # FrameSize => offset' = o + n /\ Sent' = z /\ via' = via
    /\ Sent' \in Nat /\ z <= Sent' /\ Sent' <= e /\ e <= Sent' + 1
    /\ Sent' = e => o + n = FrameSize

\* send() continues the stream of its connection.
LEMMA SendAppends ==
    ASSUME IInv, NetInv, NEW n \in 1 .. FrameSize - offset, SendSome(n),
           NEW s \in Conn, NEW e \in Msg, NEW o \in Nat, NEW k \in Nat, NEW L \in Nat,
           NEW z \in Nat, SendArgs(n, s, e, o, k, L, z), SendLeaves
    PROVE  Appends(s, L, k, e, o)
<1>1. wire' = [wire EXCEPT ![s] = @ \o Accepted(n)] /\ rx_sock' = rx_sock /\ staging' = staging
  <2>1. wire' = [wire EXCEPT ![tx_sock] = @ \o Accepted(n)]
    BY DEF SendSome
  <2>2. s = tx_sock
    BY DEF SendArgs
  <2> QED
    BY <2>1, <2>2 DEF SendLeaves
<1>2. tx_ring[Slot(tail)] = e /\ FrameSize \in Nat
  <2>1. Sending
    BY DEF SendSome
  <2> QED
    BY <2>1, SentTypes DEF NetInv, SendArgs
<1>3. s = tx_sock /\ o = offset /\ L = InLen(s)
  BY DEF SendArgs
<1>4. /\ Accepted(n) \in Seq(Unit) /\ Len(Accepted(n)) = k
      /\ \A i \in 1 .. k : Accepted(n)[i] = <<e, o + i>>
  <2>1. CASE up[s]
    <3>1. Outgoing = [i \in 1 .. FrameSize |-> <<e, i>>] /\ Accepted(n) = SubSeq(Outgoing, o + 1, o + n)
      BY <1>2, <1>3, <2>1 DEF Outgoing, Frame, Accepted
    <3>2. \A i \in 1 .. FrameSize : <<e, i>> \in Unit
      BY DEF Unit
    <3>3. n = k /\ n \in Nat /\ n >= 1 /\ o + n <= FrameSize
      BY <2>1 DEF SendArgs
    <3>4. \A i \in o + 1 .. o + n : Outgoing[i] = <<e, i>> /\ Outgoing[i] \in Unit
      <4>1. \A i \in o + 1 .. o + n : i \in 1 .. FrameSize
        BY <1>2, <3>3
      <4> QED
        BY <3>1, <3>2, <4>1
    <3>5. /\ Accepted(n) \in Seq(Unit)
          /\ Len(Accepted(n)) = IF o + 1 <= o + n THEN (o + n) - (o + 1) + 1 ELSE 0
          /\ \A i \in 1 .. (o + n) - (o + 1) + 1 : Accepted(n)[i] = Outgoing[o + 1 + i - 1]
      <4>1. PICK p \in Int, q \in Int : p = o + 1 /\ q = o + n
        BY <3>3
      <4>2. \A i \in p .. q : Outgoing[i] \in Unit
        BY <3>4, <4>1
      <4>3. /\ SubSeq(Outgoing, p, q) \in Seq(Unit)
            /\ Len(SubSeq(Outgoing, p, q)) = IF p <= q THEN q - p + 1 ELSE 0
            /\ \A i \in 1 .. q - p + 1 : SubSeq(Outgoing, p, q)[i] = Outgoing[p + i - 1]
        BY <4>2
      <4> QED
        BY <3>1, <4>1, <4>3, Zenon
    <3>6. (o + n) - (o + 1) + 1 = k /\ o + 1 <= o + n
      BY <3>3
    <3>7. \A i \in 1 .. k : o + 1 + i - 1 = o + i /\ o + i \in o + 1 .. o + n
      BY <3>3
    <3> QED
      BY <3>4, <3>5, <3>6, <3>7
  <2>2. CASE ~up[s]
    <3>1. k = 0
      BY <2>2 DEF SendArgs
    <3>2. Accepted(n) = <<>>
      BY <1>3, <2>2 DEF Accepted
    <3> QED
      BY <3>1, <3>2
  <2> QED
    BY <2>1, <2>2
<1>5. PICK W \in Seq(Unit), A \in Seq(Unit), w \in Nat, g \in Nat :
        W = wire[s] /\ A = Accepted(n) /\ w = Len(W) /\ g = Staged(s)
  BY <1>4, InTypes DEF NetInv
<1>6. /\ W \o A \in Seq(Unit) /\ Len(W \o A) = w + k
      /\ \A i \in 1 .. w + k : (W \o A)[i] = IF i <= w THEN W[i] ELSE A[i - w]
  <2>1. Len(A) = k
    BY <1>4, <1>5
  <2>2. /\ W \o A \in Seq(Unit) /\ Len(W \o A) = Len(W) + Len(A)
        /\ \A i \in 1 .. Len(W) + Len(A) :
              (W \o A)[i] = IF i <= Len(W) THEN W[i] ELSE A[i - Len(W)]
    OBVIOUS
  <2>3. Len(W) = w
    BY <1>5
  <2> QED
    BY <2>1, <2>2, <2>3
<1>7. wire' \in [Conn -> Seq(Unit)] /\ wire'[s] = W \o A
      /\ \A c \in Conn \ {s} : wire'[c] = wire[c]
  BY <1>1, <1>5, <1>6 DEF NetInv, NetType
<1>8. (\A c : Staged(c)' = Staged(c)) /\ L = g + w
  BY <1>1, <1>3, <1>5 DEF Staged, InLen
<1>9. \A c \in Conn \ {s} : InLen(c)' = InLen(c) /\ \A j : InAt(c, j)' = InAt(c, j)
  BY <1>1, <1>7, <1>8 DEF InLen, InAt
<1>10. InLen(s)' = L + k
  <2>1. InLen(s)' = g + (w + k)
    BY <1>5, <1>6, <1>7, <1>8 DEF InLen
  <2> QED
    BY <1>8, <2>1
<1>11. ASSUME NEW j \in 1 .. L PROVE InAt(s, j)' = InAt(s, j)
  <2>1. CASE j <= g
    BY <1>1, <1>5, <1>8, <2>1 DEF InAt
  <2>2. CASE ~(j <= g)
    <3>1. j - g \in 1 .. w + k /\ j - g <= w
      BY <1>8, <2>2
    <3>2. wire'[s][j - g] = wire[s][j - g]
      BY <1>5, <1>6, <1>7, <3>1
    <3> QED
      BY <1>5, <1>8, <2>2, <3>2 DEF InAt
  <2> QED
    BY <2>1, <2>2
<1>12. ASSUME NEW i \in 1 .. k PROVE InAt(s, L + i)' = <<e, o + i>>
  <2>1. ~(L + i <= g) /\ (L + i) - g = w + i
    BY <1>8
  <2>2. InAt(s, L + i)' = wire'[s][w + i]
    BY <1>5, <1>8, <2>1 DEF InAt
  <2>3. w + i \in 1 .. w + k /\ ~(w + i <= w) /\ (w + i) - w = i
    OBVIOUS
  <2>4. wire'[s][w + i] = A[i]
    BY <1>6, <1>7, <2>3, Zenon
  <2> QED
    BY <1>4, <1>5, <2>2, <2>4, Zenon
<1> QED
  BY <1>7, <1>9, <1>10, <1>11, <1>12 DEF Appends

\* Each unit that is now on the connection was there or is new.
ThereOrNew(s, L, k, e, o, n, j) ==
    \/ j \in 1 .. L /\ InAt(s, j)' = InAt(s, j) /\ InAt(s, j) \in Unit
    \/ j - L \in 1 .. k /\ InAt(s, j)' = <<e, o + (j - L)>> /\ up[s] /\ k = n

\* send() adds its units behind those that are on the connection.
LEMMA SentUnits ==
    ASSUME NetInv, NEW n \in Nat, NEW s \in Conn, NEW e \in Msg, NEW o \in Nat, NEW k \in Nat,
           NEW L \in Nat, NEW z \in Nat, SendArgs(n, s, e, o, k, L, z), Appends(s, L, k, e, o),
           SendEnds(n, s, e, o, z), SendLeaves,
           NEW j \in 1 .. L + k
    PROVE  ThereOrNew(s, L, k, e, o, n, j)
<1>1. CASE j <= L
  BY <1>1, InTypes, SMTT(20) DEF NetInv, SendArgs, Appends, ThereOrNew
<1>2. CASE ~(j <= L)
  <2>1. PICK i \in 1 .. k : j = L + i
    <3>1. j - L \in 1 .. k /\ j = L + (j - L)
      BY <1>2
    <3> QED
      BY <3>1
  <2>2. j - L = i /\ k # 0
    BY <2>1
  <2>3. up[s] /\ k = n
    BY <2>2 DEF SendArgs
  <2>4. InAt(s, j)' = <<e, o + i>>
    BY <2>1 DEF Appends
  <2> QED
    BY <2>2, <2>3, <2>4 DEF ThereOrNew
<1> QED
  BY <1>1, <1>2

\* What was there is followed by the new units.
LEMMA SentAfter ==
    ASSUME NetInv, NEW n \in Nat, NEW s \in Conn, NEW e \in Msg, NEW o \in Nat, NEW k \in Nat,
           NEW L \in Nat, NEW z \in Nat, SendArgs(n, s, e, o, k, L, z), up[s], NEW j \in 1 .. L
    PROVE  InAt(s, j) \in Unit /\ Later(InAt(s, j), L + 1 - j, <<e, o + 1>>)
<1>1. InAt(s, j) \in Unit
  BY InTypes DEF NetInv, SendArgs
<1>2. NextUnit = <<e, o + 1>>
  BY DEF NextUnit, SendArgs
<1> QED
  BY <1>1, <1>2 DEF NetInv, SendContinues, SendArgs

\* So the units still follow one another,
LEMMA SendChained ==
    ASSUME NetInv, NEW n \in Nat, NEW s \in Conn, NEW e \in Msg, NEW o \in Nat, NEW k \in Nat,
           NEW L \in Nat, NEW z \in Nat, SendArgs(n, s, e, o, k, L, z), Appends(s, L, k, e, o),
           SendEnds(n, s, e, o, z), SendLeaves
    PROVE  Chained(s)'
<1>1. Chained(s)'
  <2> SUFFICES ASSUME NEW i \in 1 .. L + k, NEW j \in 1 .. L + k, i < j
               PROVE  Later(InAt(s, i)', j - i, InAt(s, j)')
    BY DEF Chained, Later, Appends
  <2>1. CASE j \in 1 .. L
    <3>1. i \in 1 .. L
      BY <2>1
    <3> QED
      BY <2>1, <3>1 DEF NetInv, InStream, Chained, SendArgs, Appends
  <2>2. CASE ~(j \in 1 .. L) /\ i \in 1 .. L
    <3>1. j - L \in 1 .. k /\ InAt(s, j)' = <<e, o + (j - L)>> /\ up[s] /\ k = n
      BY <2>2, SentUnits DEF ThereOrNew
    <3>2. InAt(s, i)' = InAt(s, i) /\ InAt(s, i) \in Unit /\ Later(InAt(s, i), L + 1 - i, <<e, o + 1>>)
      BY <2>2, <3>1, SentAfter DEF Appends
    <3>3. PICK g \in Nat, d \in Nat : g = (j - L) - 1 /\ d = L + 1 - i
      BY <2>2, <3>1
    <3>4. d + g = j - i /\ o + 1 + g = o + (j - L) /\ o + 1 + g <= FrameSize
      BY <3>1, <3>3 DEF SendArgs
    <3>5. Later(InAt(s, i), d + g, <<e, o + 1 + g>>)
      <4>1. Later(InAt(s, i), d, <<e, o + 1>>)
        BY <3>2, <3>3
      <4>2. o + 1 + g <= FrameSize + 1
        BY <3>4 DEF SendArgs
      <4>3. e \in Nat /\ InAt(s, i) \in Unit
        BY <3>2 DEF SendArgs
      <4>4. IF o + 1 + g <= FrameSize THEN Later(InAt(s, i), d + g, <<e, o + 1 + g>>)
            ELSE Later(InAt(s, i), d + g, <<e + 1, 1>>)
        BY <4>1, <4>2, <4>3, LaterOn, Zenon
      <4> QED
        BY <3>4, <4>4
    <3> QED
      BY <3>1, <3>2, <3>4, <3>5
  <2>3. CASE ~(j \in 1 .. L) /\ ~(i \in 1 .. L)
    <3>1. /\ j - L \in 1 .. k /\ InAt(s, j)' = <<e, o + (j - L)>>
          /\ i - L \in 1 .. k /\ InAt(s, i)' = <<e, o + (i - L)>> /\ k = n
      <4>1. ThereOrNew(s, L, k, e, o, n, j) /\ ThereOrNew(s, L, k, e, o, n, i)
        BY SentUnits
      <4> QED
        BY <2>3, <4>1 DEF ThereOrNew
    <3>2. (o + (i - L)) + (j - i) = o + (j - L) /\ o + (j - L) <= FrameSize
      BY <3>1 DEF SendArgs
    <3> QED
      BY <3>1, <3>2 DEF Later
  <2> QED
    BY <2>1, <2>2, <2>3
<1> QED
  BY <1>1

\* the first one that the receiver reads begins a frame,
LEMMA SendAtBoundary ==
    ASSUME NetInv, NEW n \in Nat, NEW s \in Conn, NEW e \in Msg, NEW o \in Nat, NEW k \in Nat,
           NEW L \in Nat, NEW z \in Nat, SendArgs(n, s, e, o, k, L, z), Appends(s, L, k, e, o),
           SendEnds(n, s, e, o, z), SendLeaves
    PROVE  AtBoundary(s)'
<1>1. AtBoundary(s)'
  <2> SUFFICES ASSUME Receives(s), InLen(s)' > 0 PROVE InAt(s, 1)'[2] = 1
    BY DEF AtBoundary, Receives, SendLeaves
  <2>1. CASE L > 0
    <3>1. InAt(s, 1)' = InAt(s, 1)
      BY <2>1 DEF Appends
    <3> QED
      BY <2>1, <3>1 DEF NetInv, InStream, AtBoundary, SendArgs
  <2>2. CASE L = 0
    <3>1. k > 0 /\ up[s] /\ 1 \in 1 .. L + k
      BY <2>2 DEF SendArgs, Appends
    <3>2. o = 0
      BY <2>2, <3>1 DEF NetInv, SendContinues, SendArgs
    <3>3. InAt(s, 1)' = <<e, o + (1 - L)>>
      BY <2>2, <3>1, SentUnits, SMTT(20) DEF ThereOrNew
    <3> QED
      BY <2>2, <3>2, <3>3
  <2> QED
    BY <2>1, <2>2
<1> QED
  BY <1>1

\* and nothing is sent beyond this connection.
LEMMA SendInStream ==
    ASSUME NetInv, NEW n \in Nat, NEW s \in Conn, NEW e \in Msg, NEW o \in Nat, NEW k \in Nat,
           NEW L \in Nat, NEW z \in Nat, SendArgs(n, s, e, o, k, L, z), Appends(s, L, k, e, o),
           SendEnds(n, s, e, o, z), SendLeaves
    PROVE  InStream'
<1>1. InStream'
  <2>1. ASSUME NEW c \in Conn \ {s} PROVE Chained(c)' /\ AtBoundary(c)' /\ (c > tx_sock' => InLen(c)' = 0)
    <3>1. InLen(c)' = InLen(c) /\ \A j : InAt(c, j)' = InAt(c, j)
      BY DEF Appends
    <3>2. Receives(c)' = Receives(c)
      BY DEF Receives, SendLeaves
    <3>3. Chained(c)'
      BY <3>1, SMTT(20) DEF NetInv, InStream, Chained, Later
    <3>4. AtBoundary(c)'
      BY <3>1, <3>2, Zenon DEF NetInv, InStream, AtBoundary
    <3>5. c > tx_sock' => InLen(c)' = 0
      BY <3>1 DEF NetInv, InStream, SendLeaves
    <3> QED
      BY <3>3, <3>4, <3>5
  <2>2. ~(s > tx_sock')
    BY DEF Conn, SendLeaves, SendArgs
  <2> QED
    BY SendChained, SendAtBoundary, <2>1, <2>2 DEF InStream
<1> QED
  BY <1>1

\* What is sent next continues it.
LEMMA SendGoesOn ==
    ASSUME NetInv, NEW n \in Nat, NEW s \in Conn, NEW e \in Msg, NEW o \in Nat, NEW k \in Nat,
           NEW L \in Nat, NEW z \in Nat, SendArgs(n, s, e, o, k, L, z), Appends(s, L, k, e, o),
           SendEnds(n, s, e, o, z), SendLeaves
    PROVE  SendContinues'
<1>1. NextUnit' = IF o + 1 + n <= FrameSize THEN <<e, o + 1 + n>> ELSE <<e + 1, 1>>
  <2>1. CASE o + n = FrameSize
    <3>1. ~(o + 1 + n <= FrameSize)
      BY <2>1 DEF SendArgs
    <3> QED
      BY <2>1, <3>1 DEF NextUnit, SendEnds
  <2>2. CASE o + n # FrameSize
    <3>1. o + 1 + n <= FrameSize /\ o + n + 1 = o + 1 + n
      BY <2>2 DEF SendArgs
    <3> QED
      BY <2>2, <3>1 DEF NextUnit, SendArgs, SendEnds
  <2> QED
    BY <2>1, <2>2
<1>2. ASSUME up[s], NEW j \in 1 .. L + k
      PROVE  Later(InAt(s, j)', L + k + 1 - j, NextUnit')
  <2>1. k = n
    BY <1>2 DEF SendArgs
  <2>2. CASE j \in 1 .. L
    <3>1. PICK d \in Nat : d = L + 1 - j
      BY <2>2
    <3>2. InAt(s, j)' = InAt(s, j) /\ InAt(s, j) \in Unit /\ Later(InAt(s, j), d, <<e, o + 1>>)
      BY <1>2, <2>2, <3>1, SentAfter DEF Appends
    <3>3. o + 1 + n <= FrameSize + 1 /\ d + n = L + k + 1 - j
      BY <2>1, <3>1 DEF SendArgs
    <3>4. Later(InAt(s, j), d + n, NextUnit')
      <4>1. e \in Nat
        BY DEF SendArgs
      <4>2. IF o + 1 + n <= FrameSize THEN Later(InAt(s, j), d + n, <<e, o + 1 + n>>)
            ELSE Later(InAt(s, j), d + n, <<e + 1, 1>>)
        BY <3>2, <3>3, <4>1, LaterOn, Zenon
      <4> QED
        BY <1>1, <4>2
    <3> QED
      BY <3>2, <3>3, <3>4
  <2>3. CASE ~(j \in 1 .. L)
    <3>1. j - L \in 1 .. n /\ InAt(s, j)' = <<e, o + (j - L)>>
      BY <2>1, <2>3, SentUnits, SMTT(20) DEF ThereOrNew
    <3>2. (o + (j - L)) + (L + k + 1 - j) = o + 1 + n /\ o + 1 + n <= FrameSize + 1
      BY <2>1 DEF SendArgs
    <3>3. e < e + 1
      BY DEF SendArgs
    <3> QED
      BY <1>1, <3>1, <3>2, <3>3 DEF Later, SendArgs
  <2> QED
    BY <2>2, <2>3
<1>3. InLen(s)' = L + k
  BY DEF Appends
<1>4. ASSUME up[s] PROVE L + k # 0
  <2>1. k = n /\ n >= 1
    BY <1>4 DEF SendArgs
  <2> QED
    BY <2>1
<1>5. tx_sock' = s /\ up' = up
  BY DEF SendLeaves, SendArgs
<1>6. InLen(tx_sock)' = L + k /\ \A j : InAt(tx_sock, j)' = InAt(s, j)'
  BY <1>3, <1>5, SenderAt
<1>7. ASSUME up[s], NEW j \in 1 .. InLen(tx_sock)'
      PROVE  Later(InAt(tx_sock, j)', InLen(tx_sock)' + 1 - j, NextUnit')
  <2>1. j \in 1 .. L + k
    BY <1>6
  <2>2. Later(InAt(s, j)', L + k + 1 - j, NextUnit')
    BY <1>2, <1>7, <2>1
  <2> QED
    BY <1>6, <2>2
<1> QED
  BY <1>4, <1>5, <1>6, <1>7 DEF SendContinues

\* On each connection a unit was there, or it is one of event e.
ThereOrSent(s, e, c, j) ==
    \/ j \in 1 .. InLen(c) /\ InAt(c, j)' = InAt(c, j) /\ InAt(c, j)[1] \in Nat
    \/ c = s /\ InAt(c, j)'[1] = e /\ (InAt(c, j)'[2] = FrameSize => Sent' = e)

\* send() adds units of the event being sent, to the connection of the sender.
LEMMA SentOrThere ==
    ASSUME NetInv, NEW n \in Nat, NEW s \in Conn, NEW e \in Msg, NEW o \in Nat, NEW k \in Nat,
           NEW L \in Nat, NEW z \in Nat, SendArgs(n, s, e, o, k, L, z), Appends(s, L, k, e, o),
           SendEnds(n, s, e, o, z), SendLeaves,
           NEW c \in Conn, NEW j \in 1 .. InLen(c)'
    PROVE  ThereOrSent(s, e, c, j)
<1>1. CASE c # s
  <2>1. InLen(c)' = InLen(c) /\ InAt(c, j)' = InAt(c, j)
    BY <1>1 DEF Appends
  <2>2. InAt(c, j) \in Unit
    BY <2>1, InTypes DEF NetInv
  <2> QED
    BY <2>1, <2>2 DEF ThereOrSent, Unit, Msg
<1>2. CASE c = s
  <2>0. j \in 1 .. L + k /\ L = InLen(s)
    BY <1>2 DEF Appends, SendArgs
  <2>3. ThereOrNew(s, L, k, e, o, n, j)
    BY <2>0, SentUnits
  <2>1. CASE j \in 1 .. L /\ InAt(s, j)' = InAt(s, j) /\ InAt(s, j) \in Unit
    BY <1>2, <2>0, <2>1 DEF ThereOrSent, Unit, Msg
  <2>2. CASE j - L \in 1 .. k /\ InAt(s, j)' = <<e, o + (j - L)>> /\ up[s] /\ k = n
    <3>1. o + (j - L) = FrameSize => o + n = FrameSize
      BY <2>2 DEF SendArgs
    <3> QED
      BY <1>2, <2>2, <3>1 DEF SendEnds, ThereOrSent
  <2> QED
    BY <2>1, <2>2, <2>3 DEF ThereOrNew
<1> QED
  BY <1>1, <1>2

\* So the order of events is kept.
LEMMA SendInOrder ==
    ASSUME NetInv, NEW n \in Nat, NEW s \in Conn, NEW e \in Msg, NEW o \in Nat, NEW k \in Nat,
           NEW L \in Nat, NEW z \in Nat, SendArgs(n, s, e, o, k, L, z), Appends(s, L, k, e, o),
           SendEnds(n, s, e, o, z), SendLeaves
    PROVE  InOrder'
<1>1. ASSUME NEW c \in Conn, NEW j \in 1 .. InLen(c)'
       PROVE  /\ InAt(c, j)'[1] <= Sent' + 1
              /\ InAt(c, j)'[2] = FrameSize => InAt(c, j)'[1] <= Sent'
  <2>1. CASE j \in 1 .. InLen(c) /\ InAt(c, j)' = InAt(c, j) /\ InAt(c, j)[1] \in Nat
    <3>1. /\ InAt(c, j)[1] <= z + 1
          /\ InAt(c, j)[2] = FrameSize => InAt(c, j)[1] <= z
      BY <2>1 DEF NetInv, InOrder, SendArgs
    <3> QED
      BY <2>1, <3>1, SMTT(20) DEF SendEnds
  <2>2. CASE c = s /\ InAt(c, j)'[1] = e /\ (InAt(c, j)'[2] = FrameSize => Sent' = e)
    <3>1. e <= e
      BY DEF SendArgs
    <3> QED
      BY <2>2, <3>1 DEF SendEnds
  <2>3. ThereOrSent(s, e, c, j)
    BY SentOrThere
  <2> QED
    BY <2>1, <2>2, <2>3 DEF ThereOrSent
<1>2. ASSUME NEW b \in Conn, NEW c \in Conn, b < c, NEW i \in 1 .. InLen(b)', NEW j \in 1 .. InLen(c)',
              InAt(b, i)'[2] = FrameSize
       PROVE  InAt(b, i)'[1] < InAt(c, j)'[1]
  <2>1. b # s
    <3> SUFFICES ASSUME b = s PROVE FALSE
      OBVIOUS
    <3>1. c # s /\ c > tx_sock
      BY <1>2 DEF Conn, SendArgs
    <3>2. InLen(c) = 0 /\ InLen(c)' = InLen(c)
      BY <3>1 DEF NetInv, InStream, Appends
    <3> QED
      BY <3>2
  <2>2. i \in 1 .. InLen(b) /\ InAt(b, i)' = InAt(b, i) /\ InAt(b, i)[1] \in Nat
    <3>1. ThereOrSent(s, e, b, i)
      BY SentOrThere
    <3> QED
      BY <2>1, <3>1 DEF ThereOrSent
  <2>3. CASE j \in 1 .. InLen(c) /\ InAt(c, j)' = InAt(c, j)
    BY <1>2, <2>2, <2>3 DEF NetInv, InOrder
  <2>4. CASE InAt(c, j)'[1] = e
    <3>1. InAt(b, i)[1] <= z
      BY <1>2, <2>2 DEF NetInv, InOrder, SendArgs
    <3> QED
      BY <2>2, <2>4, <3>1 DEF SendArgs
  <2>5. ThereOrSent(s, e, c, j)
    BY SentOrThere
  <2> QED
    BY <2>3, <2>4, <2>5 DEF ThereOrSent
<1> QED
  BY <1>1, <1>2 DEF InOrder

\* The event of a frame.
LEMMA FrameOf ==
    ASSUME NEW m \in Msg
    PROVE  Frame(m) \in [1 .. FrameSize -> Unit] /\ Event(Frame(m)) = m
<1>1. 1 \in 1 .. FrameSize
  BY SizesAssumption
<1> QED
  BY <1>1 DEF Frame, Unit, Event

\* What was delivered comes before the new units,
LEMMA SendDelivered ==
    ASSUME NetInv, NEW n \in Nat, NEW s \in Conn, NEW e \in Msg, NEW o \in Nat, NEW k \in Nat,
           NEW L \in Nat, NEW z \in Nat, SendArgs(n, s, e, o, k, L, z), Appends(s, L, k, e, o),
           SendEnds(n, s, e, o, z), SendLeaves
    PROVE  DeliveredOK'
<1>1. DeliveredOK'
  <2>1. ASSUME NEW l \in 1 .. Len(delivered) PROVE Event(delivered[l]) \in Nat /\ Event(delivered[l]) <= z
    <3>1. PICK m \in Msg : delivered[l] = Frame(m)
      BY DEF NetInv, DeliveredOK, FramesIntact
    <3>2. Event(delivered[l]) = m /\ m \in Nat
      BY <3>1, FrameOf, SMTT(20) DEF Msg
    <3>3. Event(delivered[l]) <= Sent
      BY DEF NetInv, DeliveredOK
    <3>4. Sent = z
      BY DEF SendArgs
    <3> QED
      BY <3>2, <3>3, <3>4
  <2>2. ASSUME NEW l \in 1 .. Len(delivered), NEW c \in Conn, c >= rx_sock, NEW j \in 1 .. InLen(c)'
        PROVE  Event(delivered[l]) < InAt(c, j)'[1]
    <3>1. CASE j \in 1 .. InLen(c) /\ InAt(c, j)' = InAt(c, j)
      BY <2>2, <3>1 DEF NetInv, DeliveredOK
    <3>2. CASE InAt(c, j)'[1] = e
      <4>1. z < e /\ e \in Nat
        BY DEF SendArgs
      <4>2. Event(delivered[l]) \in Nat /\ Event(delivered[l]) <= z
        BY <2>1
      <4>3. Event(delivered[l]) < e
        BY <4>1, <4>2
      <4> QED
        BY <3>2, <4>3
    <3>3. ThereOrSent(s, e, c, j)
      BY SentOrThere
    <3> QED
      BY <3>1, <3>2, <3>3 DEF ThereOrSent
  <2>3. \A l \in 1 .. Len(delivered) : Event(delivered[l]) <= Sent'
    <3>1. Sent' \in Nat /\ z <= Sent'
      BY DEF SendEnds
    <3> QED
      BY <2>1, <3>1
  <2> QED
    BY <2>2, <2>3 DEF NetInv, DeliveredOK, FramesIntact, SendLeaves
<1> QED
  BY <1>1

\* and the event whose last unit is sent is on its way, or its connection is down.
LEMMA SendAccounted ==
    ASSUME NetInv, NEW n \in Nat, NEW s \in Conn, NEW e \in Msg, NEW o \in Nat, NEW k \in Nat,
           NEW L \in Nat, NEW z \in Nat, SendArgs(n, s, e, o, k, L, z), Appends(s, L, k, e, o),
           SendEnds(n, s, e, o, z), SendLeaves
    PROVE  AllAccounted'
<1>1. AllAccounted'
  <2> SUFFICES ASSUME NEW m \in Msg, m <= Sent' PROVE Accounted(m)'
    BY DEF AllAccounted
  <2>1. CASE m <= z
    <3>1. Accounted(m) /\ m # e
      BY <2>1 DEF NetInv, AllAccounted, Msg, SendArgs
    <3>2. via'[m] = via[m]
      BY <3>1 DEF NetInv, NetType, SendEnds
    <3>3. CASE OnItsWay(m)
      <4>0. PICK c \in Conn : c = via[m]
        BY <3>3 DEF OnItsWay
      <4>1. PICK j \in 1 .. InLen(c) : InAt(c, j) = <<m, FrameSize>>
        BY <3>3, <4>0 DEF OnItsWay
      <4>2. j \in 1 .. InLen(c)' /\ InAt(c, j)' = InAt(c, j)
        <5>1. CASE c = s
          BY <5>1, SMTT(20) DEF SendArgs, Appends
        <5>2. CASE c # s
          BY <5>2 DEF Appends
        <5> QED
          BY <5>1, <5>2
      <4>3. via'[m] = c
        BY <3>2, <4>0, Zenon
      <4> QED
        BY <4>1, <4>2, <4>3, StillOnItsWay DEF Accounted
    <3>4. CASE Settled(m) \/ Gone(m)
      BY <3>2, <3>4 DEF Accounted, Settled, Gone, SendLeaves
    <3> QED
      BY <3>1, <3>3, <3>4 DEF Accounted
  <2>2. CASE ~(m <= z)
    <3>1. m = e /\ Sent' = e
      BY <2>2, SMTT(20) DEF Msg, SendArgs, SendEnds
    <3>2. o + n = FrameSize /\ via'[m] = s
      <4>1. o + n = FrameSize
        BY <3>1 DEF SendEnds
      <4>2. via' = [via EXCEPT ![e] = s]
        BY <4>1 DEF SendEnds
      <4>3. via \in [Msg -> 0 .. MaxConns]
        BY DEF NetInv, NetType
      <4> QED
        BY <3>1, <4>1, <4>2, <4>3
    <3>3. CASE ~up[s]
      BY <3>2, <3>3 DEF Accounted, Gone, SendLeaves
    <3>4. CASE up[s]
      <4>1. k = n /\ n \in 1 .. k
        BY <3>4 DEF SendArgs
      <4>2. InAt(s, L + n)' = <<m, FrameSize>>
        BY <3>1, <3>2, <4>1 DEF Appends
      <4>3. L + n \in 1 .. InLen(s)'
        BY <4>1 DEF Appends, SendArgs
      <4> QED
        BY <3>2, <4>2, <4>3, StillOnItsWay DEF Accounted
    <3> QED
      BY <3>3, <3>4
  <2> QED
    BY <2>1, <2>2
<1> QED
  BY <1>1

\* send() of some units of a frame, or of its rest.
LEMMA SendKeepsNet ==
    ASSUME IInv, NetInv, NEW n \in 1 .. FrameSize - offset, SendSome(n)
    PROVE  NetInv'
<1>1. SendLeaves /\ Sending /\ spc = "send"
  BY DEF SendSome, receiver, producer, Sending, SendLeaves
<1>2. ~tx_dead /\ tx_sock \in Conn
  BY <1>1, SMTT(20) DEF NetInv, NetType, Conn
<1>3. /\ Sent \in Nat /\ Sent = tail /\ Sent + 1 \in Msg /\ tx_ring[Slot(tail)] = Sent + 1
      /\ FrameSize \in Nat \ {0} /\ offset \in Nat /\ offset < FrameSize
  BY <1>1, SentTypes, SizesAssumption DEF NetInv, NetType
<1>4. PICK s \in Conn, e \in Msg, o \in Nat, k \in Nat, L \in Nat, z \in Nat :
        /\ s = tx_sock /\ e = Sent + 1 /\ o = offset /\ k = (IF up[s] THEN n ELSE 0)
        /\ L = InLen(s) /\ z = Sent
  <2>1. n \in Nat /\ InLen(tx_sock) \in Nat
    BY <1>2, <1>3, InTypes DEF NetInv
  <2> QED
    BY <1>2, <1>3, <2>1
<1>6. /\ n \in Nat /\ n >= 1 /\ o + n <= FrameSize /\ e = z + 1 /\ e \in Nat /\ k <= n
      /\ FrameSize \in Nat
  BY <1>3, <1>4
<1>7. SendArgs(n, s, e, o, k, L, z)
  BY <1>2, <1>4, <1>6 DEF SendArgs
<1>5. Appends(s, L, k, e, o)
  BY <1>1, <1>7, SendAppends
<1>8. /\ o + n = FrameSize => offset' = 0 /\ Sent' = e /\ via' = [via EXCEPT ![e] = s]
      /\ o + n # FrameSize => offset' = o + n /\ Sent' = z /\ via' = via
  BY <1>1, <1>3, <1>4 DEF SendSome, Sent, SendLeaves
<1>9. Sent' \in Nat /\ z <= Sent' /\ Sent' <= e /\ e <= Sent' + 1 /\ (Sent' = e => o + n = FrameSize)
  BY <1>6, <1>8, SMTT(20)
<1>10. SendEnds(n, s, e, o, z)
  BY <1>8, <1>9 DEF SendEnds
<1>11. NetType'
  <2>1. offset' \in 0 .. FrameSize - 1
    BY <1>3, <1>6, <1>8, SMTT(20)
  <2>2. via' \in [Msg -> 0 .. MaxConns]
    <3>1. s \in 0 .. MaxConns
      BY SizesAssumption DEF Conn
    <3> QED
      BY <1>8, <3>1 DEF NetInv, NetType
  <2>3. wire' \in [Conn -> Seq(Unit)]
    BY <1>5 DEF Appends
  <2> QED
    BY <1>1, <1>2, <2>1, <2>2, <2>3 DEF NetInv, NetType, SendLeaves
<1>12. SendLeaves
  BY <1>1
<1>13. InStream' /\ SendContinues'
  BY <1>5, <1>6, <1>7, <1>10, <1>12, SendInStream, SendGoesOn
<1>14. InOrder' /\ DeliveredOK' /\ AllAccounted'
  BY <1>5, <1>6, <1>7, <1>10, <1>12, SendInOrder, SendDelivered, SendAccounted
<1> QED
  BY <1>11, <1>13, <1>14 DEF NetInv

\* What poll_rx() has of a frame after recv() of n units, and what it leaves on its
\* connection r of the L units that were on their way, g of them already staged.
Bytes(n) == staging \o SubSeq(wire[rx_sock], 1, n)
Takes(r, L, g, n) ==
    /\ Bytes(n) \in Seq(Unit) /\ Len(Bytes(n)) = g + n /\ g + n <= FrameSize /\ g + n <= L
    /\ \A i \in 1 .. g + n : Bytes(n)[i] = InAt(r, i)
    /\ wire' \in [Conn -> Seq(Unit)] /\ Len(wire'[r]) = L - (g + n)
    /\ \A i \in 1 .. L - (g + n) : wire'[r][i] = InAt(r, (g + n) + i)
    /\ \A c \in Conn \ {r} : wire'[c] = wire[c]

\* The part of a sequence after its first p elements, up to the q-th.
LEMMA PartOfSeq ==
    ASSUME NEW S, NEW s, NEW p \in Nat, NEW q \in Nat, p <= q,
           \A i \in p + 1 .. q : s[i] \in S
    PROVE  /\ SubSeq(s, p + 1, q) \in Seq(S) /\ Len(SubSeq(s, p + 1, q)) = q - p
           /\ \A i \in 1 .. q - p : SubSeq(s, p + 1, q)[i] = s[p + i]
<1>1. PICK m \in Int : m = p + 1
  OBVIOUS
<1>2. \A i \in m .. q : s[i] \in S
  BY <1>1
<1>3. /\ SubSeq(s, m, q) \in Seq(S)
      /\ Len(SubSeq(s, m, q)) = IF m <= q THEN q - m + 1 ELSE 0
      /\ \A i \in 1 .. q - m + 1 : SubSeq(s, m, q)[i] = s[m + i - 1]
  BY <1>2
<1>4. /\ (IF m <= q THEN q - m + 1 ELSE 0) = q - p /\ q - m + 1 = q - p
      /\ \A i \in 1 .. q - p : m + i - 1 = p + i
  BY <1>1
<1> QED
  BY <1>1, <1>3, <1>4

\* recv() takes the units at the front of its connection.
LEMMA RecvTakes ==
    ASSUME IInv, NetInv, NEW n \in 1 .. FrameSize, NEW room \in BOOLEAN, RecvSome(n, room),
           NEW r \in Conn, r = rx_sock, NEW L \in Nat, L = InLen(r), NEW g \in Nat, g = Staged(r)
    PROVE  Takes(r, L, g, n)
<1>1. /\ wire' = [wire EXCEPT ![r] = SubSeq(@, n + 1, Len(@))]
      /\ n <= Len(wire[r]) /\ n <= FrameSize - Len(staging)
  BY DEF RecvSome
<1>2. PICK W \in Seq(Unit), S \in Seq(Unit), w \in Nat :
        W = wire[r] /\ S = staging /\ w = Len(W) /\ g = Len(S) /\ L = g + w
  BY InTypes, Zenon DEF NetInv, NetType, Staged, InLen
<1>3. n \in Nat /\ n >= 1 /\ n <= w /\ g + n <= FrameSize /\ FrameSize \in Nat
  BY <1>1, <1>2, SizesAssumption
<1>4. \A i \in 1 .. w : W[i] \in Unit /\ W[i] = InAt(r, g + i)
  <2>1. \A i \in 1 .. w : ~(g + i <= g) /\ (g + i) - g = i
    OBVIOUS
  <2>2. \A i \in 1 .. w : InAt(r, g + i) = W[i]
    BY <1>2, <2>1 DEF InAt
  <2>3. \A i \in 1 .. w : W[i] \in Unit
    BY <1>2
  <2> QED
    BY <2>2, <2>3
<1>5. PICK F \in Seq(Unit) : F = SubSeq(W, 1, n) /\ Len(F) = n /\ \A i \in 1 .. n : F[i] = W[i]
  <2>1. \A i \in 1 .. n : W[i] \in Unit
    BY <1>3, <1>4
  <2>2. /\ SubSeq(W, 0 + 1, n) \in Seq(Unit) /\ Len(SubSeq(W, 0 + 1, n)) = n - 0
        /\ \A i \in 1 .. n - 0 : SubSeq(W, 0 + 1, n)[i] = W[0 + i]
    BY <1>3, <2>1, PartOfSeq, SMTT(20)
  <2>3. 0 + 1 = 1 /\ n - 0 = n /\ \A i \in 1 .. n : 0 + i = i
    BY <1>3
  <2> QED
    BY <2>2, <2>3, Zenon
<1>6. Bytes(n) \in Seq(Unit) /\ Len(Bytes(n)) = g + n /\ \A i \in 1 .. g + n : Bytes(n)[i] = InAt(r, i)
  <2>1. /\ S \o F \in Seq(Unit) /\ Len(S \o F) = Len(S) + Len(F)
        /\ \A i \in 1 .. Len(S) + Len(F) : (S \o F)[i] = IF i <= Len(S) THEN S[i] ELSE F[i - Len(S)]
    OBVIOUS
  <2>2. Bytes(n) = S \o F /\ Len(S) = g /\ Len(F) = n
    BY <1>2, <1>5 DEF Bytes
  <2>3. ASSUME NEW i \in 1 .. g + n PROVE Bytes(n)[i] = InAt(r, i)
    <3>1. CASE i <= g
      BY <1>2, <2>1, <2>2, <3>1 DEF InAt
    <3>2. CASE ~(i <= g)
      <4>1. i - g \in 1 .. n /\ g + (i - g) = i /\ i - g \in 1 .. w
        BY <1>3, <3>2
      <4>2. Bytes(n)[i] = F[i - g]
        BY <2>1, <2>2, <3>2
      <4> QED
        BY <1>4, <1>5, <4>1, <4>2, Zenon
    <3> QED
      BY <3>1, <3>2
  <2> QED
    BY <2>1, <2>2, <2>3
<1>7. PICK R \in Seq(Unit) : /\ R = SubSeq(W, n + 1, w) /\ Len(R) = w - n
                             /\ \A i \in 1 .. w - n : R[i] = W[n + i]
  <2>1. \A i \in n + 1 .. w : W[i] \in Unit
    BY <1>3, <1>4
  <2>2. /\ SubSeq(W, n + 1, w) \in Seq(Unit) /\ Len(SubSeq(W, n + 1, w)) = w - n
        /\ \A i \in 1 .. w - n : SubSeq(W, n + 1, w)[i] = W[n + i]
    BY <1>3, <2>1, PartOfSeq, SMTT(20)
  <2> QED
    BY <2>2, Zenon
<1>8. wire' \in [Conn -> Seq(Unit)] /\ wire'[r] = R /\ \A c \in Conn \ {r} : wire'[c] = wire[c]
  <2>1. wire' = [wire EXCEPT ![r] = R]
    BY <1>1, <1>2, <1>7
  <2> QED
    BY <2>1 DEF NetInv, NetType
<1>9. w - n = L - (g + n) /\ g + n <= L
  BY <1>2, <1>3
<1>10. ASSUME NEW i \in 1 .. w - n PROVE wire'[r][i] = InAt(r, (g + n) + i)
  <2>1. n + i \in 1 .. w /\ g + (n + i) = (g + n) + i
    BY <1>3
  <2> QED
    BY <1>4, <1>7, <1>8, <2>1
<1> QED
  BY <1>3, <1>6, <1>7, <1>8, <1>9, <1>10, Zenon DEF Takes

\* recv() leaves the sender, both ends and the state of the connections as they are.
RecvLeaves ==
    /\ tx_sock' = tx_sock /\ tx_dead' = tx_dead /\ offset' = offset /\ ev' = ev /\ spc' = spc
    /\ tail' = tail /\ tx_tail' = tx_tail /\ rx_sock' = rx_sock /\ up' = up /\ via' = via
    /\ rx_dead' = rx_dead /\ rpc' = rpc
    /\ Sent' = Sent /\ NextUnit' = NextUnit /\ \A c : Receives(c)' = Receives(c)

\* What recv() does not assign is left as it is.
LEMMA RecvLeavesRest ==
    ASSUME UNCHANGED <<sender, rx_sock, rx_dead, rpc, up>>
    PROVE  RecvLeaves
<1>1. /\ tx_sock' = tx_sock /\ tx_dead' = tx_dead /\ offset' = offset /\ ev' = ev /\ spc' = spc
      /\ tail' = tail /\ tx_tail' = tx_tail /\ rx_sock' = rx_sock /\ up' = up /\ via' = via
      /\ rx_dead' = rx_dead /\ rpc' = rpc
  BY DEF sender, poll_tx, producer
<1>2. Sent' = Sent /\ NextUnit' = NextUnit /\ \A c : Receives(c)' = Receives(c)
  BY <1>1 DEF Sent, NextUnit, Receives
<1> QED
  BY <1>1, <1>2 DEF RecvLeaves

\* recv() of a part of a frame moves it to the staging buffer: all is still on its way.
Stays == \A c \in Conn : InLen(c)' = InLen(c) /\ \A j \in 1 .. InLen(c) : InAt(c, j)' = InAt(c, j)

\* A part of a frame is on its way before and after recv().
LEMMA PartStays ==
    ASSUME NetInv, NEW n \in 1 .. FrameSize, NEW r \in Conn, r = rx_sock,
           NEW L \in Nat, L = InLen(r), NEW g \in Nat, g = Staged(r), Takes(r, L, g, n),
           staging' = Bytes(n), RecvLeaves
    PROVE  Stays
<1>1. ASSUME NEW c \in Conn
      PROVE  InLen(c)' = InLen(c) /\ \A j \in 1 .. InLen(c) : InAt(c, j)' = InAt(c, j)
  <2>1. CASE c # r
    BY <2>1, SMTT(20) DEF Takes, InLen, InAt, Staged, RecvLeaves
  <2>2. CASE c = r
    <3>1. Staged(r)' = g + n /\ n \in Nat /\ g + n <= L
      BY SMTT(20) DEF Takes, Staged, RecvLeaves
    <3>2. InLen(r)' = L
      BY <3>1, SMTT(20) DEF Takes, InLen
    <3>3. ASSUME NEW j \in 1 .. L PROVE InAt(r, j)' = InAt(r, j)
      <4>1. CASE j <= g + n
        BY <3>1, <4>1, SMTT(20) DEF InAt, Takes
      <4>2. CASE ~(j <= g + n)
        <5>1. j - (g + n) \in 1 .. L - (g + n) /\ (g + n) + (j - (g + n)) = j
          BY <3>1, <4>2
        <5>2. wire'[r][j - (g + n)] = InAt(r, j)
          BY <5>1 DEF Takes
        <5> QED
          BY <3>1, <4>2, <5>2 DEF InAt
      <4> QED
        BY <4>1, <4>2
    <3> QED
      BY <2>2, <3>2, <3>3
  <2> QED
    BY <2>1, <2>2
<1> QED
  BY <1>1 DEF Stays

\* So what is sent next continues it as before,
LEMMA PartContinues ==
    ASSUME NetInv, RecvLeaves, Stays
    PROVE  InStream' /\ SendContinues' /\ InOrder'
<1>1. InStream'
  <2>1. \A c \in Conn : Chained(c)'
    BY SMTT(20) DEF NetInv, InStream, Chained, Later, Stays
  <2>2. ASSUME NEW c \in Conn PROVE AtBoundary(c)'
    <3> SUFFICES ASSUME Receives(c), InLen(c) > 0 PROVE InAt(c, 1)'[2] = 1
      BY DEF AtBoundary, RecvLeaves, Stays
    <3>1. 1 \in 1 .. InLen(c)
      BY InTypes DEF NetInv
    <3> QED
      BY <3>1 DEF NetInv, InStream, AtBoundary, Stays
  <2> QED
    BY <2>1, <2>2 DEF NetInv, InStream, RecvLeaves, Stays
<1>2. SendContinues'
  <2> SUFFICES ASSUME ~tx_dead, up[tx_sock] PROVE SendContinues'
    BY DEF SendContinues, RecvLeaves
  <2>1. PICK s \in Conn : s = tx_sock
    BY SMTT(20) DEF NetInv, NetType, Conn
  <2>2. InLen(tx_sock)' = InLen(s)' /\ \A j : InAt(tx_sock, j)' = InAt(s, j)'
    BY <2>1, SenderAt DEF RecvLeaves
  <2>3. InLen(s)' = InLen(s) /\ \A j \in 1 .. InLen(s) : InAt(s, j)' = InAt(s, j)
    BY DEF Stays
  <2> QED
    BY <2>1, <2>2, <2>3 DEF NetInv, SendContinues, Later, Receives, RecvLeaves
<1>3. InOrder'
  BY SMTT(20) DEF NetInv, InOrder, RecvLeaves, Stays
<1> QED
  BY <1>1, <1>2, <1>3

\* and nothing changes for what was delivered or is accounted for.
LEMMA PartAccounted ==
    ASSUME NetInv, RecvLeaves, Stays, delivered' = delivered, dropped' = dropped
    PROVE  DeliveredOK' /\ AllAccounted'
<1>1. DeliveredOK'
  BY SMTT(20) DEF NetInv, DeliveredOK, FramesIntact, RecvLeaves, Stays
<1>2. AllAccounted'
  <2> SUFFICES ASSUME NEW m \in Msg, Accounted(m) PROVE Accounted(m)'
    BY DEF NetInv, AllAccounted, RecvLeaves
  <2>1. CASE OnItsWay(m)
    <3>1. PICK c \in Conn : c = via[m]
      BY <2>1 DEF OnItsWay
    <3>2. PICK j \in 1 .. InLen(c) : InAt(c, j) = <<m, FrameSize>>
      BY <2>1, <3>1 DEF OnItsWay
    <3>3. j \in 1 .. InLen(c)' /\ InAt(c, j)' = <<m, FrameSize>>
      BY <3>2 DEF Stays
    <3>4. via'[m] = c
      BY <3>1 DEF RecvLeaves
    <3> QED
      BY <3>3, <3>4, StillOnItsWay DEF Accounted
  <2>2. CASE Settled(m) \/ Gone(m)
    BY <2>2 DEF Accounted, Settled, Gone, RecvLeaves
  <2> QED
    BY <2>1, <2>2 DEF Accounted
<1> QED
  BY <1>1, <1>2

\* recv() of a part of a frame.
LEMMA RecvPartKeepsNet ==
    ASSUME IInv, NetInv, NEW n \in 1 .. FrameSize, NEW r \in Conn, r = rx_sock, ~rx_dead,
           NEW L \in Nat, L = InLen(r), NEW g \in Nat, g = Staged(r), Takes(r, L, g, n),
           g + n < FrameSize, staging' = Bytes(n),
           UNCHANGED <<sender, rx_sock, rx_dead, rpc, up>>, UNCHANGED <<delivered, dropped>>
    PROVE  NetInv'
<1>1. RecvLeaves
  BY RecvLeavesRest
<1>2. Stays
  BY <1>1, PartStays
<1>3. NetType'
  <2>1. staging' \in Seq(Unit) /\ Len(staging') < FrameSize /\ wire' \in [Conn -> Seq(Unit)]
    BY DEF Takes
  <2> QED
    BY <1>1, <2>1 DEF NetInv, NetType, RecvLeaves
<1>4. delivered' = delivered /\ dropped' = dropped
  OBVIOUS
<1> QED
  BY <1>1, <1>2, <1>3, <1>4, PartContinues, PartAccounted DEF NetInv

\* The first units on connection r are the frame of event m, which was sent to its end
\* and comes after all that was delivered and before all that follows.
Front(r, L, m) ==
    /\ \A i \in 1 .. FrameSize : InAt(r, i) = <<m, i>>
    /\ m <= Sent
    /\ \A k \in 1 .. Len(delivered) : Event(delivered[k]) < m
    /\ \A j \in FrameSize + 1 .. L : m < InAt(r, j)[1] /\ (j = FrameSize + 1 => InAt(r, j)[2] = 1)
    /\ \A c \in Conn : c > r => \A j \in 1 .. InLen(c) : m < InAt(c, j)[1]

\* So it is on the connection that poll_rx() reads.
LEMMA WholeFrame ==
    ASSUME IInv, NetInv, NEW r \in Conn, r = rx_sock, ~rx_dead, NEW L \in Nat, L = InLen(r),
           FrameSize <= L
    PROVE  \E m \in Msg : Front(r, L, m)
<1>1. FrameSize \in Nat \ {0} /\ 1 \in 1 .. L /\ FrameSize \in 1 .. L /\ r \in Nat
  BY SizesAssumption DEF Conn
<1>2. PICK m \in Msg : m = InAt(r, 1)[1]
  BY <1>1, InTypes DEF NetInv
<1>3. InAt(r, 1) = <<m, 1>>
  <2>1. Receives(r) /\ L > 0
    BY <1>1 DEF Receives
  <2>2. InAt(r, 1)[2] = 1
    BY <2>1 DEF NetInv, InStream, AtBoundary
  <2> QED
    BY <1>1, <1>2, <2>2, InTypes DEF NetInv
<1>4. ASSUME NEW i \in 1 .. FrameSize PROVE InAt(r, i) = <<m, i>>
  <2>1. CASE i = 1
    BY <1>3, <2>1
  <2>2. CASE i # 1
    <3>1. i \in 1 .. L /\ 1 < i
      BY <1>1, <2>2
    <3>2. Later(InAt(r, 1), i - 1, InAt(r, i))
      BY <1>1, <3>1 DEF NetInv, InStream, Chained
    <3>3. 1 + (i - 1) = i /\ i <= FrameSize
      BY <1>1
    <3>4. InAt(r, i)[1] = m /\ InAt(r, i)[2] = i
      BY <1>3, <3>2, <3>3 DEF Later
    <3> QED
      BY <3>1, <3>4, InTypes DEF NetInv
  <2> QED
    BY <2>1, <2>2
<1>5. InAt(r, FrameSize) = <<m, FrameSize>>
  BY <1>1, <1>4
<1>6. m <= Sent
  BY <1>1, <1>5 DEF NetInv, InOrder
<1>7. \A k \in 1 .. Len(delivered) : Event(delivered[k]) < m
  <2>1. r >= rx_sock
    BY <1>1
  <2> QED
    BY <1>1, <1>2, <2>1 DEF NetInv, DeliveredOK
<1>8. ASSUME NEW j \in FrameSize + 1 .. L
      PROVE  m < InAt(r, j)[1] /\ (j = FrameSize + 1 => InAt(r, j)[2] = 1)
  <2>1. j \in 1 .. L /\ FrameSize < j
    BY <1>1
  <2>2. Later(InAt(r, FrameSize), j - FrameSize, InAt(r, j))
    BY <1>1, <2>1 DEF NetInv, InStream, Chained
  <2>3. ~(FrameSize + (j - FrameSize) <= FrameSize) /\ FrameSize + (j - FrameSize) = j
    BY <1>1, <2>1
  <2> QED
    BY <1>5, <2>2, <2>3 DEF Later
<1>9. ASSUME NEW c \in Conn, c > r, NEW j \in 1 .. InLen(c) PROVE m < InAt(c, j)[1]
  <2>1. r < c
    BY <1>1, <1>9 DEF Conn
  <2> QED
    BY <1>1, <1>5, <2>1 DEF NetInv, InOrder
<1> QED
  BY <1>4, <1>6, <1>7, <1>8, <1>9 DEF Front

\* recv() of the rest of that frame has just this frame,
LEMMA WholeBytes ==
    ASSUME NEW n \in 1 .. FrameSize, NEW r \in Conn, NEW L \in Nat, NEW g \in Nat,
           Takes(r, L, g, n), g + n = FrameSize, NEW m0 \in Msg, Front(r, L, m0)
    PROVE  Bytes(n) = Frame(m0)
<1>1. Bytes(n) \in [1 .. FrameSize -> Unit]
  BY SMTT(20) DEF Takes
<1>2. \A i \in 1 .. FrameSize : Bytes(n)[i] = <<m0, i>>
  BY DEF Takes, Front
<1>3. Bytes(n) = [i \in 1 .. FrameSize |-> <<m0, i>>]
  BY <1>1, <1>2, Zenon
<1> QED
  BY <1>3 DEF Frame

\* and takes it from what is on its way,
Moves(r, L) ==
    /\ InLen(r)' = L - FrameSize /\ \A j \in 1 .. L - FrameSize : InAt(r, j)' = InAt(r, FrameSize + j)
    /\ \A c \in Conn \ {r} :
          InLen(c)' = InLen(c) /\ \A j \in 1 .. InLen(c) : InAt(c, j)' = InAt(c, j)

\* The rest of a frame leaves the front of its connection, and nothing else moves.
LEMMA WholeMoves ==
    ASSUME NEW n \in 1 .. FrameSize, NEW r \in Conn, r = rx_sock, NEW L \in Nat, NEW g \in Nat,
           Takes(r, L, g, n), g + n = FrameSize, staging' = <<>>, RecvLeaves
    PROVE  Moves(r, L)
<1>1. FrameSize \in Nat \ {0} /\ FrameSize <= L /\ Len(<<>>) = 0
  BY SizesAssumption DEF Takes
<1>2. \A c : Staged(c)' = 0 /\ (c # r => Staged(c) = 0)
  BY <1>1 DEF Staged
<1>3. InLen(r)' = L - FrameSize
  <2>1. InLen(r)' = 0 + Len(wire'[r])
    BY <1>2 DEF InLen
  <2>2. Len(wire'[r]) = L - FrameSize
    BY DEF Takes
  <2>3. L - FrameSize \in Nat
    BY <1>1
  <2> QED
    BY <2>1, <2>2, <2>3
<1>4. ASSUME NEW j \in 1 .. L - FrameSize PROVE InAt(r, j)' = InAt(r, FrameSize + j)
  <2>1. ~(j <= 0) /\ j - 0 = j
    OBVIOUS
  <2>2. InAt(r, j)' = wire'[r][j]
    BY <1>2, <2>1 DEF InAt
  <2> QED
    BY <2>2 DEF Takes
<1>5. ASSUME NEW c \in Conn \ {r}
      PROVE  InLen(c)' = InLen(c) /\ \A j \in 1 .. InLen(c) : InAt(c, j)' = InAt(c, j)
  <2>1. wire'[c] = wire[c] /\ Staged(c)' = 0 /\ Staged(c) = 0
    BY <1>2 DEF Takes
  <2>2. \A j \in 1 .. InLen(c) : ~(j <= 0)
    OBVIOUS
  <2> QED
    BY <2>1, <2>2 DEF InLen, InAt
<1> QED
  BY <1>3, <1>4, <1>5 DEF Moves

\* so that each connection has a rest of what it had.
Shifted(a) ==
    \A c \in Conn : /\ InLen(c)' \in Nat /\ a[c] + InLen(c)' <= InLen(c)
                    /\ \A j \in 1 .. InLen(c)' : InAt(c, j)' = InAt(c, a[c] + j)

\* After a whole frame was received, what is on its way is a rest of what was.
LEMMA WholeShifts ==
    ASSUME NetInv, NEW r \in Conn, NEW L \in Nat, L = InLen(r), FrameSize <= L, Moves(r, L)
    PROVE  \E a \in [Conn -> Nat] : Shifted(a)
<1>0. FrameSize \in Nat
  BY SizesAssumption
<1> DEFINE a == [c \in Conn |-> IF c = r THEN FrameSize ELSE 0]
<1>1. a \in [Conn -> Nat] /\ a[r] = FrameSize /\ \A c \in Conn \ {r} : a[c] = 0
  BY <1>0
<1> HIDE DEF a
<1>2. ASSUME NEW c \in Conn
       PROVE  /\ InLen(c)' \in Nat /\ a[c] + InLen(c)' <= InLen(c)
              /\ \A j \in 1 .. InLen(c)' : InAt(c, j)' = InAt(c, a[c] + j)
  <2>1. CASE c = r
    <3>1. L - FrameSize \in Nat
      BY <1>0
    <3>2. FrameSize + (L - FrameSize) = L /\ L <= L
      BY <1>0
    <3> QED
      BY <1>1, <2>1, <3>1, <3>2 DEF Moves
  <2>2. CASE c # r
    <3>1. InLen(c)' = InLen(c) /\ InLen(c) \in Nat /\ a[c] = 0
      BY <1>1, <2>2, InTypes DEF NetInv, Moves
    <3>2. \A j \in 1 .. InLen(c)' : a[c] + j = j
      BY <3>1
    <3> QED
      BY <2>2, <3>1, <3>2 DEF Moves
  <2> QED
    BY <2>1, <2>2
<1>3. Shifted(a)
  BY <1>2 DEF Shifted
<1> QED
  BY <1>1, <1>3

\* What is left on its way begins with a frame and is in order,
LEMMA WholeOrder ==
    ASSUME NetInv, NEW r \in Conn, NEW L \in Nat, L = InLen(r), FrameSize <= L, Moves(r, L),
           NEW m0 \in Msg, Front(r, L, m0), RecvLeaves
    PROVE  InStream' /\ InOrder'
<1>1. PICK a \in [Conn -> Nat] : Shifted(a)
  BY WholeShifts
<1>2. (\A c \in Conn : Chained(c)' /\ (c > tx_sock' => InLen(c)' = 0)) /\ InOrder'
  <2>1. tx_sock' >= tx_sock /\ tx_sock' \in Nat /\ Sent' = Sent
    BY SMTT(20) DEF NetInv, NetType, RecvLeaves
  <2>2. \A c \in Conn : /\ InLen(c)' \in Nat /\ a[c] + InLen(c)' <= InLen(c)
                        /\ \A j \in 1 .. InLen(c)' : InAt(c, j)' = InAt(c, a[c] + j)
    BY <1>1 DEF Shifted
  <2>3. NetType /\ InStream /\ InOrder
    BY DEF NetInv
  <2> QED
    BY <2>1, <2>2, <2>3, PartKeepsOrder
<1>3. \A c \in Conn : AtBoundary(c)'
  <2> SUFFICES ASSUME NEW c \in Conn, Receives(c), InLen(c)' > 0 PROVE InAt(c, 1)'[2] = 1
    BY DEF AtBoundary, RecvLeaves
  <2>1. CASE c = r
    <3>1. 1 \in 1 .. L - FrameSize /\ FrameSize + 1 \in FrameSize + 1 .. L
      BY <2>1, SizesAssumption DEF Moves
    <3> QED
      BY <2>1, <3>1 DEF Front, Moves
  <2>2. CASE c # r
    <3>1. InLen(c)' = InLen(c) /\ 1 \in 1 .. InLen(c)
      BY <2>2, InTypes DEF NetInv, Moves
    <3> QED
      BY <2>2, <3>1 DEF NetInv, InStream, AtBoundary, Moves
  <2> QED
    BY <2>1, <2>2
<1> QED
  BY <1>2, <1>3 DEF InStream

\* what is sent next continues it,
LEMMA WholeContinues ==
    ASSUME NetInv, NEW r \in Conn, NEW L \in Nat, L = InLen(r), FrameSize <= L, Moves(r, L),
           NEW m0 \in Msg, Front(r, L, m0), RecvLeaves
    PROVE  SendContinues'
<1>1. FrameSize \in Nat \ {0} /\ FrameSize <= L
  BY SizesAssumption
<1>2. SendContinues'
  <2> SUFFICES ASSUME ~tx_dead, up[tx_sock] PROVE SendContinues'
    BY DEF SendContinues, RecvLeaves
  <2>1. PICK s \in Conn : s = tx_sock
    BY SMTT(20) DEF NetInv, NetType, Conn
  <2>2. InLen(tx_sock)' = InLen(s)' /\ \A j : InAt(tx_sock, j)' = InAt(s, j)'
    BY <2>1, SenderAt DEF RecvLeaves
  <2>3. CASE s # r
    <3>1. InLen(s)' = InLen(s) /\ \A j \in 1 .. InLen(s) : InAt(s, j)' = InAt(s, j)
      BY <2>3 DEF Moves
    <3> QED
      BY <2>1, <2>2, <3>1 DEF NetInv, SendContinues, Later, Receives, RecvLeaves
  <2>4. CASE s = r
    <3>1. \A j \in 1 .. L : Later(InAt(r, j), L + 1 - j, NextUnit)
      BY <2>1, <2>4 DEF NetInv, SendContinues
    <3>2. ASSUME NEW j \in 1 .. L - FrameSize
          PROVE  Later(InAt(r, j)', L - FrameSize + 1 - j, NextUnit)
      <4>1. FrameSize + j \in 1 .. L
        BY <1>1
      <4>2. L - FrameSize + 1 - j = L + 1 - (FrameSize + j)
        BY <1>1
      <4> QED
        BY <3>1, <4>1, <4>2 DEF Moves
    <3>3. L - FrameSize = 0 => offset = 0
      <4> SUFFICES ASSUME L - FrameSize = 0 PROVE offset = 0
        OBVIOUS
      <4>1. FrameSize \in 1 .. L /\ L + 1 - FrameSize = 1 /\ FrameSize + 1 > FrameSize
        BY <1>1
      <4>2. InAt(r, FrameSize) = <<m0, FrameSize>> /\ Later(InAt(r, FrameSize), 1, NextUnit)
        BY <1>1, <3>1, <4>1 DEF Front
      <4>3. offset + 1 = 1
        BY <1>1, <4>1, <4>2 DEF Later, NextUnit
      <4> QED
        BY <4>3 DEF NetInv, NetType
    <3> QED
      BY <2>1, <2>2, <2>4, <3>2, <3>3 DEF SendContinues, Later, RecvLeaves, Moves
  <2> QED
    BY <2>3, <2>4
<1> QED
  BY <1>2

\* The frame of event m goes to the sink, if there is room, or is dropped.
Ends(room, m) ==
    /\ delivered' = (IF room THEN Append(delivered, Frame(m)) ELSE delivered)
    /\ dropped' = (IF room THEN dropped ELSE dropped \cup {m})

\* In the sink it comes after the k0 frames delivered before.
AddsFrame(k0, m) ==
    /\ Len(delivered') = k0 + 1 /\ delivered'[k0 + 1] = Frame(m)
    /\ \A k \in 1 .. k0 : delivered'[k] = delivered[k]

\* A frame that the sink has room for is the last one delivered.
LEMMA Delivers ==
    ASSUME NetType, NEW m0 \in Msg, NEW room \in BOOLEAN, Ends(room, m0), room,
           NEW k0 \in Nat, k0 = Len(delivered)
    PROVE  AddsFrame(k0, m0) /\ delivered' \in Seq([1 .. FrameSize -> Unit])
<1>1. Frame(m0) \in [1 .. FrameSize -> Unit] /\ delivered \in Seq([1 .. FrameSize -> Unit])
  BY FrameOf DEF NetType
<1>2. delivered' = Append(delivered, Frame(m0))
  BY DEF Ends
<1>3. /\ Append(delivered, Frame(m0)) \in Seq([1 .. FrameSize -> Unit])
      /\ Len(Append(delivered, Frame(m0))) = Len(delivered) + 1
      /\ \A i \in 1 .. Len(delivered) : Append(delivered, Frame(m0))[i] = delivered[i]
      /\ Append(delivered, Frame(m0))[Len(delivered) + 1] = Frame(m0)
  BY <1>1
<1> QED
  BY <1>2, <1>3 DEF AddsFrame

\* What was delivered is whole and in order,
LEMMA WholeIntact ==
    ASSUME NetInv, NEW r \in Conn, NEW L \in Nat, NEW m0 \in Msg, Front(r, L, m0),
           NEW k0 \in Nat, k0 = Len(delivered), AddsFrame(k0, m0)
    PROVE  /\ FramesIntact'
           /\ \A k, l \in 1 .. k0 + 1 : k < l => Event(delivered'[k]) < Event(delivered'[l])
<1>1. \A k \in 1 .. k0 + 1 : k \in 1 .. k0 \/ k = k0 + 1
  OBVIOUS
<1>2. FramesIntact'
  BY <1>1 DEF NetInv, DeliveredOK, FramesIntact, AddsFrame
<1>3. ASSUME NEW k \in 1 .. k0 + 1, NEW l \in 1 .. k0 + 1, k < l
      PROVE  Event(delivered'[k]) < Event(delivered'[l])
  <2>1. CASE l \in 1 .. k0
    <3>1. k \in 1 .. k0
      BY <1>3, <2>1
    <3> QED
      BY <1>3, <2>1, <3>1 DEF NetInv, DeliveredOK, AddsFrame
  <2>2. CASE l = k0 + 1
    <3>1. k \in 1 .. k0
      BY <1>3, <2>2
    <3>2. Event(delivered'[l]) = m0
      BY <2>2, FrameOf DEF AddsFrame
    <3> QED
      BY <3>1, <3>2 DEF Front, AddsFrame
  <2> QED
    BY <1>1, <2>1, <2>2
<1> QED
  BY <1>2, <1>3

\* and comes before all that may follow.
LEMMA WholeBefore ==
    ASSUME NetInv, NEW r \in Conn, r = rx_sock, NEW L \in Nat, L = InLen(r), FrameSize <= L,
           Moves(r, L), NEW m0 \in Msg, Front(r, L, m0), NEW c \in Conn, c >= r,
           NEW j \in 1 .. InLen(c)'
    PROVE  /\ m0 < InAt(c, j)'[1]
           /\ \A k \in 1 .. Len(delivered) : Event(delivered[k]) < InAt(c, j)'[1]
<1>1. m0 < InAt(c, j)'[1]
  <2>1. CASE c = r
    <3>1. j \in 1 .. L - FrameSize /\ FrameSize + j \in FrameSize + 1 .. L
      BY <2>1, SizesAssumption, SMTT(20) DEF Moves
    <3> QED
      BY <2>1, <3>1 DEF Front, Moves
  <2>2. CASE c # r
    <3>1. c > r
      BY <2>2 DEF Conn
    <3>2. j \in 1 .. InLen(c) /\ InAt(c, j)' = InAt(c, j)
      BY <2>2 DEF Moves
    <3> QED
      BY <3>1, <3>2 DEF Front
  <2> QED
    BY <2>1, <2>2
<1>2. ASSUME NEW k \in 1 .. Len(delivered) PROVE Event(delivered[k]) < InAt(c, j)'[1]
  <2>1. PICK a \in [Conn -> Nat] : Shifted(a)
    BY WholeShifts
  <2>2. a[c] \in Nat /\ InLen(c) \in Nat /\ InLen(c)' \in Nat /\ a[c] + InLen(c)' <= InLen(c)
    BY <2>1, InTypes DEF NetInv, Shifted
  <2>3. a[c] + j \in 1 .. InLen(c)
    BY <2>2
  <2>4. InAt(c, j)' = InAt(c, a[c] + j)
    BY <2>1 DEF Shifted
  <2> QED
    BY <2>3, <2>4 DEF NetInv, DeliveredOK
<1> QED
  BY <1>1, <1>2

\* A frame received whole is delivered after those sent before it.
LEMMA WholeDelivered ==
    ASSUME NetInv, NEW r \in Conn, r = rx_sock, NEW L \in Nat, L = InLen(r), FrameSize <= L,
           Moves(r, L), NEW m0 \in Msg, Front(r, L, m0), RecvLeaves,
           NEW room \in BOOLEAN, Ends(room, m0)
    PROVE  DeliveredOK'
<1>1. Sent' = Sent /\ rx_sock' = r
  BY DEF RecvLeaves
<1>2. PICK k0 \in Nat : k0 = Len(delivered)
  BY DEF NetInv, NetType
<1>3. ASSUME NEW c \in Conn, c >= r, NEW j \in 1 .. InLen(c)'
      PROVE  /\ m0 < InAt(c, j)'[1]
             /\ \A k \in 1 .. k0 : Event(delivered[k]) < InAt(c, j)'[1]
  BY <1>2, <1>3, WholeBefore
<1>4. CASE ~room
  <2>1. delivered' = delivered
    BY <1>4 DEF Ends
  <2>2. FramesIntact'
    BY <2>1 DEF NetInv, DeliveredOK, FramesIntact
  <2> QED
    BY <1>1, <1>2, <1>3, <2>1, <2>2 DEF NetInv, DeliveredOK
<1>5. CASE room
  <2>1. AddsFrame(k0, m0)
    BY <1>2, <1>5, Delivers, Zenon DEF NetInv
  <2>2. /\ FramesIntact'
        /\ \A k, l \in 1 .. k0 + 1 : k < l => Event(delivered'[k]) < Event(delivered'[l])
    BY <1>2, <2>1, WholeIntact
  <2>3. \A k \in 1 .. k0 + 1 : k \in 1 .. k0 \/ k = k0 + 1
    OBVIOUS
  <2>4. ASSUME NEW k \in 1 .. k0 + 1
        PROVE  /\ Event(delivered'[k]) <= Sent
               /\ \A c \in Conn : c >= r =>
                     \A j \in 1 .. InLen(c)' : Event(delivered'[k]) < InAt(c, j)'[1]
    <3>1. CASE k \in 1 .. k0
      <4>1. Event(delivered'[k]) <= Sent
        BY <1>2, <2>1, <3>1 DEF NetInv, DeliveredOK, AddsFrame
      <4> QED
        BY <1>3, <2>1, <3>1, <4>1, Zenon DEF AddsFrame
    <3>2. CASE k = k0 + 1
      <4>1. Event(delivered'[k]) = m0
        BY <2>1, <3>2, FrameOf DEF AddsFrame
      <4> QED
        BY <1>3, <4>1 DEF Front
    <3> QED
      BY <2>3, <3>1, <3>2
  <2> QED
    BY <1>1, <2>1, <2>2, <2>4, Zenon DEF DeliveredOK, AddsFrame
<1> QED
  BY <1>4, <1>5

\* Nothing that was delivered or dropped is forgotten, the frame of event m included.
LEMMA WholeSettles ==
    ASSUME NetType, NEW m0 \in Msg, NEW room \in BOOLEAN, Ends(room, m0)
    PROVE  /\ \A m \in Msg : Settled(m) => Settled(m)'
           /\ Settled(m0)'
<1>1. CASE ~room
  <2>1. delivered' = delivered /\ dropped' = dropped \cup {m0}
    BY <1>1 DEF Ends
  <2> QED
    BY <2>1 DEF Settled
<1>2. CASE room
  <2>1. PICK k0 \in Nat : k0 = Len(delivered)
    BY DEF NetType
  <2>2. AddsFrame(k0, m0)
    BY <1>2, <2>1, Delivers, Zenon
  <2>3. dropped' = dropped
    BY <1>2 DEF Ends
  <2>4. (\A k \in 1 .. k0 : k \in 1 .. k0 + 1) /\ k0 + 1 \in 1 .. k0 + 1
    OBVIOUS
  <2>5. ASSUME NEW m \in Msg, Settled(m) PROVE Settled(m)'
    BY <2>1, <2>2, <2>3, <2>4, <2>5 DEF Settled, AddsFrame
  <2>6. Settled(m0)'
    BY <2>2, <2>4 DEF Settled, AddsFrame
  <2> QED
    BY <2>5, <2>6
<1> QED
  BY <1>1, <1>2

\* An event whose frame was received whole is delivered or counted as dropped.
LEMMA WholeAccounted ==
    ASSUME NetInv, NEW r \in Conn, NEW L \in Nat, L = InLen(r), FrameSize <= L, Moves(r, L),
           NEW m0 \in Msg, Front(r, L, m0), RecvLeaves, NEW room \in BOOLEAN, Ends(room, m0)
    PROVE  AllAccounted'
<1>1. FrameSize \in Nat
  BY SizesAssumption
<1>2. (\A m \in Msg : Settled(m) => Settled(m)') /\ Settled(m0)'
  BY WholeSettles DEF NetInv
<1>3. AllAccounted'
  <2> SUFFICES ASSUME NEW m \in Msg, Accounted(m) PROVE Accounted(m)'
    BY DEF NetInv, AllAccounted, RecvLeaves
  <2>1. CASE Settled(m)
    BY <1>2, <2>1 DEF Accounted
  <2>2. CASE Gone(m)
    BY <2>2 DEF Accounted, Gone, RecvLeaves
  <2>3. CASE OnItsWay(m)
    <3>1. PICK c \in Conn : c = via[m]
      BY <2>3 DEF OnItsWay
    <3>2. PICK j \in 1 .. InLen(c) : InAt(c, j) = <<m, FrameSize>>
      BY <2>3, <3>1 DEF OnItsWay
    <3>3. via'[m] = c
      BY <3>1 DEF RecvLeaves
    <3>4. CASE c # r
      <4>1. j \in 1 .. InLen(c)' /\ InAt(c, j)' = <<m, FrameSize>>
        BY <3>2, <3>4 DEF Moves
      <4> QED
        BY <3>3, <4>1, StillOnItsWay DEF Accounted
    <3>5. CASE c = r /\ j > FrameSize
      <4>1. PICK i \in 1 .. L - FrameSize : j = FrameSize + i
        <5>1. j - FrameSize \in 1 .. L - FrameSize /\ j = FrameSize + (j - FrameSize)
          BY <1>1, <3>2, <3>5
        <5> QED
          BY <5>1
      <4>2. i \in 1 .. InLen(c)' /\ InAt(c, i)' = <<m, FrameSize>>
        BY <3>2, <3>5, <4>1 DEF Moves
      <4> QED
        BY <3>3, <4>2, StillOnItsWay DEF Accounted
    <3>6. CASE c = r /\ ~(j > FrameSize)
      <4>1. j \in 1 .. FrameSize
        BY <1>1, <3>2, <3>6
      <4>2. <<m0, j>> = <<m, FrameSize>>
        BY <3>2, <3>6, <4>1 DEF Front
      <4>3. m = m0
        BY <4>2
      <4> QED
        BY <1>2, <4>3 DEF Accounted
    <3> QED
      BY <3>4, <3>5, <3>6
  <2> QED
    BY <2>1, <2>2, <2>3 DEF Accounted
<1> QED
  BY <1>3

\* Every variable keeps its type.
LEMMA WholeTypes ==
    ASSUME NetInv, NEW n \in 1 .. FrameSize, NEW r \in Conn, NEW L \in Nat, NEW g \in Nat,
           Takes(r, L, g, n), staging' = <<>>, RecvLeaves,
           NEW m0 \in Msg, NEW room \in BOOLEAN, Ends(room, m0)
    PROVE  NetType'
<1>1. staging' \in Seq(Unit) /\ Len(staging') < FrameSize
  BY SizesAssumption
<1>2. wire' \in [Conn -> Seq(Unit)]
  BY DEF Takes
<1>3. delivered' \in Seq([1 .. FrameSize -> Unit])
  <2>1. CASE room
    <3>1. PICK k0 \in Nat : k0 = Len(delivered)
      BY DEF NetInv, NetType
    <3> QED
      BY <2>1, <3>1, Delivers, Zenon DEF NetInv
  <2>2. CASE ~room
    BY <2>2 DEF Ends, NetInv, NetType
  <2> QED
    BY <2>1, <2>2
<1> QED
  BY <1>1, <1>2, <1>3 DEF NetInv, NetType, RecvLeaves

\* recv() of the rest of a frame: it goes to the sink or is dropped.
LEMMA RecvWholeKeepsNet ==
    ASSUME IInv, NetInv, NEW n \in 1 .. FrameSize, NEW r \in Conn, r = rx_sock, ~rx_dead,
           NEW L \in Nat, L = InLen(r), NEW g \in Nat, g = Staged(r), Takes(r, L, g, n),
           g + n = FrameSize, staging' = <<>>, NEW room \in BOOLEAN,
           delivered' = (IF room THEN Append(delivered, Bytes(n)) ELSE delivered),
           dropped' = (IF room THEN dropped ELSE dropped \cup {Bytes(n)[1][1]}),
           UNCHANGED <<sender, rx_sock, rx_dead, rpc, up>>
    PROVE  NetInv'
<1>1. RecvLeaves
  BY RecvLeavesRest
<1>2. FrameSize <= L
  BY DEF Takes
<1>3. Moves(r, L)
  BY <1>1, WholeMoves
<1>4. PICK m0 \in Msg : Front(r, L, m0)
  BY <1>2, WholeFrame
<1>5. Ends(room, m0)
  <2>1. Bytes(n) = Frame(m0)
    BY <1>4, WholeBytes
  <2>2. Event(Frame(m0)) = m0
    BY FrameOf
  <2>3. Bytes(n)[1][1] = m0
    BY <2>1, <2>2, Zenon DEF Event
  <2> QED
    BY <2>1, <2>3, Zenon DEF Ends
<1>6. NetType'
  BY <1>1, <1>5, WholeTypes, Zenon
<1>7. InStream' /\ InOrder' /\ SendContinues'
  BY <1>1, <1>2, <1>3, <1>4, WholeOrder, WholeContinues
<1>8. DeliveredOK' /\ AllAccounted'
  BY <1>1, <1>2, <1>3, <1>4, <1>5, WholeDelivered, WholeAccounted
<1> QED
  BY <1>6, <1>7, <1>8 DEF NetInv

\* What recv() does with the units that it has then.
Handles(bytes, room) ==
    CASE Len(bytes) < FrameSize ->
           staging' = bytes /\ UNCHANGED <<rpc, rx_dead, delivered, dropped>>
      [] Len(bytes) = FrameSize /\ bytes[1][2] # 1 ->
           RxMarkDead /\ rpc' = "idle" /\ UNCHANGED <<delivered, dropped>>
      [] OTHER ->
           /\ staging' = <<>>
           /\ delivered' = IF room THEN Append(delivered, bytes) ELSE delivered
           /\ dropped' = IF room THEN dropped ELSE dropped \cup {bytes[1][1]}
           /\ UNCHANGED <<rpc, rx_dead>>

\* A step of recv() handles the units it has then in one of these ways.
LEMMA RecvHandles ==
    ASSUME NEW n, NEW room, RecvSome(n, room)
    PROVE  Handles(Bytes(n), room)
BY Zenon DEF RecvSome, Bytes, Handles

\* recv() of some units, which never begin in the middle of a frame.
LEMMA RecvKeepsNet ==
    ASSUME IInv, NetInv, NEW n \in 1 .. FrameSize, NEW room \in BOOLEAN, RecvSome(n, room)
    PROVE  NetInv'
<1>1. ~rx_dead /\ rx_sock \in Conn
  BY SMTT(20) DEF RecvSome, NetInv, NetType, Conn
<1>2. PICK r \in Conn, L \in Nat, g \in Nat : r = rx_sock /\ L = InLen(r) /\ g = Staged(r)
  BY <1>1, InTypes DEF NetInv
<1>3. Takes(r, L, g, n)
  BY <1>2, RecvTakes
<1>4. Len(Bytes(n)) = g + n /\ g + n <= FrameSize /\ g + n <= L /\ Bytes(n)[1][2] = 1
  <2>1. Len(Bytes(n)) = g + n /\ g + n <= FrameSize /\ g + n <= L /\ n \in Nat /\ n >= 1
    BY <1>3, SizesAssumption DEF Takes
  <2>2. 1 \in 1 .. g + n /\ L > 0
    BY <2>1
  <2>3. Receives(r)
    BY <1>1, <1>2 DEF Receives
  <2>4. Bytes(n)[1] = InAt(r, 1) /\ InAt(r, 1)[2] = 1
    BY <1>2, <1>3, <2>2, <2>3 DEF Takes, NetInv, InStream, AtBoundary
  <2> QED
    BY <2>1, <2>4
<1>5. UNCHANGED <<sender, rx_sock, up>>
  BY DEF RecvSome
<1>6. CASE g + n < FrameSize
  <2>1. staging' = Bytes(n) /\ UNCHANGED <<rpc, rx_dead, delivered, dropped>>
    BY <1>4, <1>6, RecvHandles DEF Handles
  <2>2. UNCHANGED <<sender, rx_sock, rx_dead, rpc, up>> /\ UNCHANGED <<delivered, dropped>>
    BY <1>5, <2>1
  <2> QED
    BY <1>1, <1>2, <1>3, <1>6, <2>1, <2>2, RecvPartKeepsNet
<1>7. CASE ~(g + n < FrameSize)
  <2>1. g + n = FrameSize /\ Len(Bytes(n)) = FrameSize /\ ~(FrameSize < FrameSize)
    BY <1>4, <1>7, SizesAssumption
  <2>2. /\ staging' = <<>>
        /\ delivered' = (IF room THEN Append(delivered, Bytes(n)) ELSE delivered)
        /\ dropped' = (IF room THEN dropped ELSE dropped \cup {Bytes(n)[1][1]})
        /\ UNCHANGED <<rpc, rx_dead>>
    <3>1. PICK b : b = Bytes(n)
      OBVIOUS
    <3>2. Handles(b, room) /\ ~(Len(b) < FrameSize) /\ b[1][2] = 1
      BY <1>4, <2>1, <3>1, RecvHandles
    <3> QED
      BY <3>1, <3>2 DEF Handles
  <2>3. UNCHANGED <<sender, rx_sock, rx_dead, rpc, up>>
    BY <1>5, <2>2
  <2> QED
    BY <1>1, <1>2, <1>3, <2>1, <2>2, <2>3, RecvWholeKeepsNet, Zenon
<1> QED
  BY <1>6, <1>7

----------------------------------------------------------------------------
\* Nothing is on its way at the start.
LEMMA NetInvInit == Init => NetInv
<1> SUFFICES ASSUME Init PROVE NetInv
  OBVIOUS
<1>1. <<>> \in Seq(Unit) /\ Len(<<>>) = 0 /\ <<>> \in Seq([1 .. FrameSize -> Unit])
  OBVIOUS
<1>2. FrameSize \in Nat /\ FrameSize > 0 /\ MaxConns \in Nat /\ MaxFrames \in Nat
  BY SizesAssumption
<1>3. NetType
  <2>1. wire \in [Conn -> Seq(Unit)] /\ up \in [Conn -> BOOLEAN] /\ via \in [Msg -> 0 .. MaxConns]
    BY <1>1, <1>2 DEF Init
  <2>2. tx_dead \in BOOLEAN /\ rx_dead \in BOOLEAN
    BY DEF Init
  <2> QED
    BY <1>1, <1>2, <2>1, <2>2, SMTT(20) DEF Init, NetType
<1>4. \A c \in Conn : InLen(c) = 0
  BY <1>1, <1>2 DEF InLen, Staged, Init, Conn
<1>5. Sent = 0 /\ Len(delivered) = 0
  BY <1>1 DEF Init, Sent
<1>6. \A k \in 1 .. Len(delivered) : FALSE
  BY <1>5
<1>7. \A c \in Conn : \A j \in 1 .. InLen(c) : FALSE
  BY <1>4
<1>8. InStream
  <2>1. \A c \in Conn : Chained(c)
    BY <1>7 DEF Chained
  <2>2. \A c \in Conn : AtBoundary(c)
    BY <1>4 DEF AtBoundary
  <2> QED
    BY <1>4, <2>1, <2>2 DEF InStream
<1>9. SendContinues
  BY DEF Init, SendContinues
<1>10. InOrder
  BY <1>7 DEF InOrder
<1>11. DeliveredOK
  BY <1>6 DEF DeliveredOK, FramesIntact
<1>12. AllAccounted
  BY <1>2, <1>5 DEF AllAccounted, Msg
<1> QED
  BY <1>3, <1>8, <1>9, <1>10, <1>11, <1>12 DEF NetInv

\* Every step keeps it.
LEMMA NetInvStep == IInv /\ NetInv /\ [Next]_vars => NetInv'
<1> SUFFICES ASSUME IInv, NetInv, [Next]_vars PROVE NetInv'
  OBVIOUS
<1>1. CASE PushAlive \/ PushStep
  BY <1>1, PushKeepsNet
<1>2. CASE PollTx \/ SendStops \/ PollRx \/ RecvWouldBlock \/ UNCHANGED vars
  BY <1>2, PollKeepsNet
<1>3. ASSUME NEW n \in 1 .. FrameSize - offset, SendSome(n) PROVE NetInv'
  BY <1>3, SendKeepsNet
<1>4. CASE SendFails \/ LoseSender \/ \E c \in Conn : BindSender(c)
  BY <1>4, TxEndKeepsNet
<1>5. ASSUME NEW n \in 1 .. FrameSize, NEW room \in BOOLEAN, RecvSome(n, room) PROVE NetInv'
  BY <1>5, RecvKeepsNet
<1>6. CASE RecvFails \/ LoseReceiver
  BY <1>6, RxEndDies
<1>7. ASSUME NEW c \in Conn, BindReceiver(c) PROVE NetInv'
  BY <1>7, BindReceiverKeepsNet
<1>8. ASSUME NEW c \in Conn, NEW n \in 0 .. KernelBuffer, Break(c, n) PROVE NetInv'
  BY <1>8, BreakKeepsNet
<1> QED
  BY <1>1, <1>2, <1>3, <1>4, <1>5, <1>6, <1>7, <1>8 DEF Next, TxStep, RxStep

\* It holds in every state.
THEOREM NetInvariance == Spec => []NetInv
BY NetInvInit, NetInvStep, Invariance, PTL DEF Spec

\* For every capacity, frame size, kernel buffer and number of connections, what
\* poll_rx() delivers is a whole frame that was pushed.
THEOREM NoZombieFrame == Spec => []FramesIntact
<1>1. NetInv => FramesIntact
  BY DEF NetInv, DeliveredOK
<1> QED
  BY <1>1, NetInvariance, PTL

\* The events arrive in the order of their push() and at most once, across any number
\* of connections.
THEOREM OrderAcrossConnections == Spec => []InOrderAtMostOnce
<1>1. NetInv => InOrderAtMostOnce
  <2> SUFFICES ASSUME NetInv, NEW k \in 1 .. Len(delivered) - 1
               PROVE  Event(delivered[k]) < Event(delivered[k + 1])
    BY DEF InOrderAtMostOnce, Event
  <2>1. Len(delivered) \in Nat
    BY DEF NetInv, NetType
  <2>2. k \in 1 .. Len(delivered) /\ k + 1 \in 1 .. Len(delivered) /\ k < k + 1
    BY <2>1
  <2> QED
    BY <2>2 DEF NetInv, DeliveredOK
<1> QED
  BY <1>1, NetInvariance, PTL

\* An event that push() accepted is lost only with the connection that carried it or
\* for lack of a cell.
THEOREM NothingElseLost == Spec => []LostOnlyWithConnection
<1>1. IInv /\ NetInv => LostOnlyWithConnection
  <2> SUFFICES ASSUME IInv, NetInv, NEW m \in 1 .. tx_head, ~(m > Sent)
               PROVE  Settled(m) \/ Gone(m) \/ via[m] > rx_sock \/ InFlight(m)
    BY Zenon DEF LostOnlyWithConnection, Sent, Settled, Gone
  <2>1. m \in Msg /\ m <= Sent
    <3>1. tx_head \in Nat /\ Sent \in Nat /\ tx_head <= ev /\ ev <= MaxFrames /\ ev \in Nat /\ MaxFrames \in Nat
      BY SizesAssumption, SentTypes, SMTT(20) DEF IInv, NetInv, NetType
    <3> QED
      BY <3>1 DEF Msg
  <2>2. Accounted(m)
    BY <2>1 DEF NetInv, AllAccounted
  <2>3. ASSUME OnItsWay(m)
        PROVE  Gone(m) \/ via[m] > rx_sock \/ InFlight(m)
    <3>1. PICK c \in Conn : c = via[m]
      BY <2>3 DEF OnItsWay
    <3>2. PICK j \in 1 .. InLen(c) : InAt(c, j) = <<m, FrameSize>>
      BY <2>3, <3>1 DEF OnItsWay
    <3>3. c \in Nat /\ c >= 1 /\ rx_sock \in Nat
      BY SizesAssumption, SMTT(20) DEF Conn, NetInv, NetType
    <3>4. CASE c = rx_sock
      <4>1. Staged(c) = Len(staging) /\ Len(wire[c]) \in Nat /\ Len(staging) \in Nat
        BY <3>4, InTypes DEF Staged, NetInv
      <4>2. CASE j <= Staged(c)
        <5>1. j \in 1 .. Len(staging) /\ staging[j][1] = m
          BY <3>2, <4>1, <4>2 DEF InAt
        <5> QED
          BY <3>1, <3>4, <5>1 DEF InFlight
      <4>3. CASE ~(j <= Staged(c))
        <5>1. j - Staged(c) \in 1 .. Len(wire[c])
          BY <4>1, <4>3 DEF InLen
        <5>2. wire[c][j - Staged(c)][1] = m
          BY <3>2, <4>3 DEF InAt
        <5> QED
          BY <3>1, <3>4, <5>1, <5>2 DEF InFlight
      <4> QED
        BY <4>2, <4>3
    <3>5. CASE c # rx_sock
      <4>1. c > rx_sock \/ c \in 1 .. rx_sock - 1
        BY <3>3, <3>5
      <4> QED
        BY <3>1, <4>1 DEF Gone
    <3> QED
      BY <3>4, <3>5
  <2> QED
    BY <2>2, <2>3 DEF Accounted
<1> QED
  BY <1>1, NetInvariance, Invariance, PTL
=============================================================================

------------------------- MODULE SlabProgramsProofs -------------------------
(***************************************************************************)
(* The programs on the slab allocators, for any number of blocks, clients  *)
(* and events, and any size of the ring: spsc_ring_buffer is a bounded     *)
(* queue between their threads; both allocators keep every block in one    *)
(* place; and every connection has one keeper.                             *)
(***************************************************************************)
EXTENDS SlabPrograms, SlabMemoryProofs

USE ZenonT(3), SMTT(20)

\* The block that thread t holds while it is at one of the places, if any.
Held(t, places) == IF pc[t] \in places /\ blk[t] # END_OF_LIST THEN {blk[t]} ELSE {}

Size(t, places) == IF pc[t] \in places /\ blk[t] # END_OF_LIST THEN 1 ELSE 0

\* A partition of the blocks into three parts.
Parted(A, B, C) ==
    A \cup B \cup C = Block /\ A \cap B = {} /\ A \cap C = {} /\ B \cap C = {}

\* The gateway: where a thread holds a block, where it serves a client, how main
\* has got there.
HoldsAt == {"count_taken", "allocated", "push", "store", "publish", "popped",
            "free", "link", "give"}
ServesAt == {"recv", "alloc", "next", "take", "count_taken", "allocated", "push", "store",
             "publish", "free", "link", "give", "count_given", "freed"}
HttpPlaces ==
    /\ pc[Producer] \in {"none", "loop", "accept", "exit", "pushed"} \cup ServesAt
    /\ pc[Consumer] \in {"none", "loop", "exit", "popped", "free", "link", "give",
                         "count_given", "freed"} \cup InPop
    /\ main = "spawn" => pc[Consumer] = "none"
    /\ main \in {"spawn", "start", "open"} => pc[Producer] = "none"

HttpBlocks(F, Q) ==
    /\ Parted(F, Q, Held(Producer, HoldsAt) \cup Held(Consumer, HoldsAt))
    /\ Held(Producer, HoldsAt) \cap Held(Consumer, HoldsAt) = {}
    /\ pc[Producer] \in HoldsAt \ {"allocated"} => blk[Producer] \in Block
    /\ pc[Consumer] \in HoldsAt => blk[Consumer] \in Block

\* The same in numbers, n free and m queued: no list is longer than the pool.
HttpSum(n, m) ==
    n \in Nat /\ m \in Nat /\ n + m + Size(Producer, HoldsAt) + Size(Consumer, HoldsAt) = Blocks

\* Who closes an open connection: the accept loop, a queued event, or the handler.
Kept(c, Q) ==
    \/ client_fd = c
    \/ c \in {connection[b] : b \in Q}
    \/ pc[Consumer] = "popped" /\ connection[blk[Consumer]] = c
Keepers(Q) ==
    /\ open \subseteq Client /\ connection \in [Block -> Client \cup {NoClient}]
    /\ IF pc[Producer] \in ServesAt THEN client_fd \in open ELSE client_fd = NoClient
    /\ pc[Producer] \in InPush => connection[blk[Producer]] = client_fd
    /\ \A b \in Q : connection[b] \in open \ {client_fd}
    /\ \A a, b \in Q : connection[a] = connection[b] => a = b
    /\ pc[Consumer] = "popped" =>
          /\ connection[blk[Consumer]] \in open \ {client_fd}
          /\ \A b \in Q : connection[b] # connection[blk[Consumer]]
    /\ \A c \in open : Kept(c, Q)

HttpInv(F, Q, n, m) == HttpPlaces /\ HttpBlocks(F, Q) /\ Keepers(Q) /\ HttpSum(n, m)

\* The generator: its blocks are in the magazine, but for the one being taken or
\* given back; no connection is open.
ArmsAt == {"count_taken", "allocated", "free", "link", "give"}
LoadPlaces ==
    /\ pc[Producer] \in {"arm", "alloc", "next", "take", "fire", "pushed", "destroy", "exit",
                         "count_given", "freed"} \cup ArmsAt \cup InPush
    /\ pc[Consumer] \in {"run", "loop", "exit", "popped"} \cup InPop
    /\ pc[Consumer] = "popped" => blk[Consumer] \in Block
    /\ open = {} /\ client_fd = NoClient /\ connection = [b \in Block |-> NoClient]

Magazine ==
    /\ ammo \in Seq(Block) /\ Once(ammo)
    /\ total_events_to_send \in Nat /\ fired \in Nat
    /\ pc[Producer] \in {"fire", "pushed"} \cup InPush => Len(ammo) >= total_events_to_send
    /\ pc[Producer] \in InPush => blk[Producer] \in Elems(ammo)

\* The partition, free blocks F and magazine A, and the same in numbers.
LoadHolds(F, A, n, k) ==
    /\ Parted(F, A, Held(Producer, ArmsAt))
    /\ n \in Nat /\ k \in Nat /\ n + k + Size(Producer, ArmsAt) = Blocks
    /\ pc[Producer] \in ArmsAt \ {"allocated"} => blk[Producer] \in Block

LoadInv(F, n) == LoadPlaces /\ Magazine /\ LoadHolds(F, Elems(ammo), n, Len(ammo))

\* Together, for the list s that the head leads to and the queue q in the ring.
ProgramInv(s, q) ==
    /\ MemInv(s) /\ RingInv(q) /\ Idle
    /\ \/ program = "http" /\ Once(q) /\ HttpInv(Elems(s), Elems(q), Len(s), Len(q))
       \/ program = "load" /\ LoadInv(Elems(s), Len(s))
IInv == \E s, q : ProgramInv(s, q)

----------------------------------------------------------------------------
\* The programs.

\* A step of thread t from one place to another, with block b, that is not part of a
\* call of the allocator or the ring.
Outside(s, t, from, to, b) ==
    /\ from \notin InPush \cup InPop \cup {"count_taken", "count_given"}
    /\ to \notin {"next", "take", "count_taken", "link", "give", "count_given",
                  "store", "publish", "pushed", "fetch", "advance", "popped"}
    /\ t = Producer /\ to = "push" => from # "pushed" /\ b \in Block
    /\ t = Consumer /\ to = "pop" => from # "popped"
    /\ to = "free" =>
          b \in Block \ Elems(s) /\ \A u \in Ends \ {t} : Giving(u) => blk[u] # b

\* A step of thread t outside the calls of the allocator and the ring, which may
\* hand it another block, begin a call, or use the result of one.
LEMMA PlainKeeps ==
    ASSUME NEW s, MemInv(s), NEW q, RingInv(q), Idle, NEW t \in Ends, NEW from, NEW to,
           NEW b \in Loc, At(t, from, to), blk' = [blk EXCEPT ![t] = b],
           UNCHANGED <<freeList, cur, nxt, free_count, ring, pinned>>,
           Outside(s, t, from, to, b)
    PROVE  /\ MemInv(s)' /\ RingInv(q)' /\ Idle' /\ [Fifo!Next]_Fifo!vars
           /\ Others(t) /\ pc[t] = from /\ pc'[t] = to /\ blk'[t] = b
<1>0. t \in Thread
  BY TwoEnds
<1>1. /\ pc[t] = from /\ pc'[t] = to /\ DOMAIN pc' = Thread
      /\ \A u \in Thread \ {t} : pc'[u] = pc[u]
  BY <1>0, AtMoves DEF MemInv, MemType
<1>2. blk' \in [Thread -> Loc] /\ blk'[t] = b /\ Others(t)
  BY <1>0, <1>1 DEF MemInv, MemType, Others
<1>3. MemInv(s)'
  BY <1>1, <1>2, MemoryKeeps DEF Outside
<1>4. RingInv(q)' /\ [Fifo!Next]_Fifo!vars
  BY <1>1, <1>2, RingKeeps, Zenon DEF InPush, InPop, Outside
<1>5. Idle'
  BY <1>1, TwoEnds DEF Idle, Ends
<1> QED
  BY <1>1, <1>2, <1>3, <1>4, <1>5

\* The same when the thread keeps its block.
LEMMA PlainKeepsBlock ==
    ASSUME NEW s, MemInv(s), NEW q, RingInv(q), Idle, NEW t \in Ends, NEW from, NEW to,
           At(t, from, to), UNCHANGED <<memory, ring, pinned>>,
           Outside(s, t, from, to, blk[t])
    PROVE  /\ MemInv(s)' /\ RingInv(q)' /\ Idle' /\ [Fifo!Next]_Fifo!vars
           /\ Others(t) /\ pc[t] = from /\ pc'[t] = to /\ blk' = blk
<1>0. t \in Thread /\ blk \in [Thread -> Loc]
  BY TwoEnds DEF MemInv, MemType
<1> PICK b : b = blk[t]
  BY Zenon
<1>1. b \in Loc /\ blk' = [blk EXCEPT ![t] = b]
  BY <1>0 DEF memory, registers
<1>2. UNCHANGED <<freeList, cur, nxt, free_count, ring, pinned>> /\ blk' = blk
  BY DEF memory, registers
<1>3. Outside(s, t, from, to, b)
  BY Zenon
<1> QED
  BY <1>1, <1>2, <1>3, PlainKeeps

\* A step that moves no thread at one of the ends.
LEMMA StillKeeps ==
    ASSUME NEW s, MemInv(s), NEW q, RingInv(q), Idle, UNCHANGED <<pc, memory, ring, pinned>>
    PROVE  MemInv(s)' /\ RingInv(q)' /\ Idle' /\ [Fifo!Next]_Fifo!vars /\ blk' = blk
<1>1. /\ UNCHANGED <<head, link, cur, nxt, blk, free_count>>
      /\ UNCHANGED <<buffer, write_idx, read_idx>>
  BY DEF memory, freeList, registers, ring
<1>2. MemInv(s)'
  <2>1. MemType' /\ ListOf(s)'
    BY <1>1 DEF MemInv, MemType, ListOf, IsFreeList
  <2>2. SwapInv(s)'
    BY <1>1 DEF MemInv, SwapInv, Giving
  <2>3. CountInv(s)'
    BY <1>1, Zenon DEF MemInv, CountInv, Balance, Waits
  <2> QED
    BY <2>1, <2>2, <2>3 DEF MemInv
<1>3. Queued' = Queued
  BY <1>1 DEF Queued
<1>4. RingInv(q)'
  BY <1>1, <1>3 DEF RingInv
<1>5. Pushing' = Pushing /\ Accepted' = Accepted /\ Popping' = Popping /\ Out' = Out
  BY <1>1 DEF Pushing, Accepted, Popping, Out
<1>6. [Fifo!Next]_Fifo!vars
  BY <1>3, <1>5, FifoSteps
<1> QED
  BY <1>1, <1>2, <1>4, <1>6 DEF Idle

\* The threads that are not at the ends stay idle.
LEMMA IdleKeeps ==
    ASSUME Idle, NEW t \in Ends, Others(t)
    PROVE  Idle'
BY TwoEnds DEF Idle, Ends, Others
----------------------------------------------------------------------------
\* The gateway.
HttpState(s, q) ==
    MemInv(s) /\ RingInv(q) /\ Idle /\ Once(q) /\ HttpInv(Elems(s), Elems(q), Len(s), Len(q))

\* What a step of it must leave: the invariant for a list and a queue of the new
\* state; and it is a step of the queue, or invisible to it.
HttpStep == (\E s, q : HttpState(s, q)') /\ [Fifo!Next]_Fifo!vars

\* What a thread holds is neither free nor queued nor with the other thread.
LEMMA HeldApart ==
    ASSUME NEW F, NEW Q, HttpBlocks(F, Q)
    PROVE  /\ F \subseteq Block /\ Q \subseteq Block /\ F \cap Q = {}
           /\ \A t \in Ends :
                 pc[t] \in HoldsAt /\ blk[t] \in Block => blk[t] \notin F /\ blk[t] \notin Q
           /\ pc[Producer] \in HoldsAt /\ pc[Consumer] \in HoldsAt /\ blk[Producer] \in Block =>
                 blk[Producer] # blk[Consumer]
           /\ pc[Producer] \in HoldsAt \ {"allocated"} => blk[Producer] \in Block
           /\ pc[Consumer] \in HoldsAt => blk[Consumer] \in Block
<1>1. /\ F \subseteq Block /\ Q \subseteq Block /\ F \cap Q = {}
      /\ \A t \in Ends : Held(t, HoldsAt) \cap F = {} /\ Held(t, HoldsAt) \cap Q = {}
  BY DEF HttpBlocks, Parted, Ends
<1>2. \A t \in Ends : pc[t] \in HoldsAt /\ blk[t] \in Block => Held(t, HoldsAt) = {blk[t]}
  BY NoBlock DEF Held
<1>3. /\ pc[Producer] \in HoldsAt \ {"allocated"} => blk[Producer] \in Block
      /\ pc[Consumer] \in HoldsAt => blk[Consumer] \in Block
  BY DEF HttpBlocks
<1>4. pc[Producer] \in HoldsAt /\ pc[Consumer] \in HoldsAt /\ blk[Producer] \in Block =>
                 blk[Producer] # blk[Consumer]
  BY <1>2, <1>3 DEF HttpBlocks, Ends
<1> QED
  BY <1>1, <1>2, <1>3, <1>4

\* A thread goes on with the block it holds, or holds none before and after.
LEMMA HoldingStays ==
    ASSUME NEW F, NEW Q, NEW n, NEW m, HttpBlocks(F, Q), HttpSum(n, m), NEW t \in Ends, Others(t),
           \/ /\ pc[t] \notin HoldsAt \/ blk[t] = END_OF_LIST
              /\ pc'[t] \notin HoldsAt \/ blk'[t] = END_OF_LIST
           \/ pc[t] \in HoldsAt /\ pc'[t] \in HoldsAt /\ blk'[t] = blk[t],
           pc'[t] \in HoldsAt => blk'[t] \in Block \/ (t = Producer /\ pc'[t] = "allocated")
    PROVE  HttpBlocks(F, Q)' /\ HttpSum(n, m)'
<1>1. \A u \in Ends : Held(u, HoldsAt)' = Held(u, HoldsAt) /\ Size(u, HoldsAt)' = Size(u, HoldsAt)
  <2>1. Held(t, HoldsAt)' = Held(t, HoldsAt) /\ Size(t, HoldsAt)' = Size(t, HoldsAt)
    BY DEF Held, Size
  <2>2. ASSUME NEW u \in Ends \ {t}
        PROVE  Held(u, HoldsAt)' = Held(u, HoldsAt) /\ Size(u, HoldsAt)' = Size(u, HoldsAt)
    BY TwoEnds DEF Held, Size, Others
  <2> QED
    BY <2>1, <2>2
<1>2. HttpSum(n, m)'
  BY <1>1 DEF HttpSum, Ends
<1>3. /\ pc'[Producer] \in HoldsAt \ {"allocated"} => blk'[Producer] \in Block
      /\ pc'[Consumer] \in HoldsAt => blk'[Consumer] \in Block
  BY TwoEnds, SMTT(20) DEF HttpBlocks, Others, Ends
<1> QED
  BY <1>1, <1>2, <1>3 DEF HttpBlocks, Ends

\* A block b moves out of the free list or out of the queue, or into one of them.
Taken(b, F, Q, n, m, F2, Q2, n2, m2) ==
    \/ b \in F /\ F2 = F \ {b} /\ n2 = n - 1 /\ Q2 = Q /\ m2 = m
    \/ b \in Q /\ Q2 = Q \ {b} /\ m2 = m - 1 /\ F2 = F /\ n2 = n
Given(b, F, Q, n, m, F2, Q2, n2, m2) ==
    \/ F2 = F \cup {b} /\ n2 = n + 1 /\ Q2 = Q /\ m2 = m
    \/ Q2 = Q \cup {b} /\ m2 = m + 1 /\ F2 = F /\ n2 = n

\* A thread takes a block out of the free list or out of the queue.
LEMMA HoldingTakes ==
    ASSUME NEW F, NEW Q, NEW n, NEW m, HttpBlocks(F, Q), HttpSum(n, m), NEW t \in Ends, Others(t),
           pc[t] \notin HoldsAt \/ blk[t] = END_OF_LIST, pc'[t] \in HoldsAt,
           NEW F2, NEW Q2, NEW n2 \in Nat, NEW m2 \in Nat,
           Taken(blk'[t], F, Q, n, m, F2, Q2, n2, m2)
    PROVE  HttpBlocks(F2, Q2)' /\ HttpSum(n2, m2)'
<1>0. blk'[t] \in Block /\ blk'[t] # END_OF_LIST
  BY HeldApart, NoBlock, SMTT(20) DEF Taken
<1>1. /\ Held(t, HoldsAt) = {} /\ Size(t, HoldsAt) = 0
      /\ Held(t, HoldsAt)' = {blk'[t]} /\ Size(t, HoldsAt)' = 1
  BY <1>0 DEF Held, Size
<1>2. ASSUME NEW u \in Ends \ {t}
      PROVE  Held(u, HoldsAt)' = Held(u, HoldsAt) /\ Size(u, HoldsAt)' = Size(u, HoldsAt)
  BY TwoEnds DEF Held, Size, Others
<1>3. HttpSum(n2, m2)'
  <2>1. Size(Producer, HoldsAt) \in Nat /\ Size(Consumer, HoldsAt) \in Nat
    BY DEF Size
  <2> QED
    BY <1>1, <1>2, <2>1, TwoEnds, SMTT(20) DEF HttpSum, Ends, Taken
<1>4. /\ pc'[Producer] \in HoldsAt \ {"allocated"} => blk'[Producer] \in Block
      /\ pc'[Consumer] \in HoldsAt => blk'[Consumer] \in Block
  BY <1>0, TwoEnds DEF HttpBlocks, Others, Ends
<1>5. PICK A, B, A2, B2 :
         /\ A = Held(Producer, HoldsAt) /\ B = Held(Consumer, HoldsAt)
         /\ A2 = Held(Producer, HoldsAt)' /\ B2 = Held(Consumer, HoldsAt)'
  BY Zenon
<1>6. Parted(F, Q, A \cup B) /\ A \cap B = {}
  BY <1>5 DEF HttpBlocks
<1>7. \/ A = {} /\ A2 = {blk'[t]} /\ B2 = B
      \/ B = {} /\ B2 = {blk'[t]} /\ A2 = A
  BY <1>1, <1>2, <1>5, TwoEnds DEF Ends
<1>8. Parted(F2, Q2, A2 \cup B2) /\ A2 \cap B2 = {}
  BY <1>6, <1>7 DEF Parted, Taken
<1> QED
  BY <1>3, <1>4, <1>5, <1>8 DEF HttpBlocks

\* A thread puts its block into the free list or into the queue.
LEMMA HoldingGives ==
    ASSUME NEW F, NEW Q, NEW n, NEW m, HttpBlocks(F, Q), HttpSum(n, m), NEW t \in Ends, Others(t),
           pc[t] \in HoldsAt, blk[t] \in Block, pc'[t] \notin HoldsAt,
           NEW F2, NEW Q2, NEW n2 \in Nat, NEW m2 \in Nat,
           Given(blk[t], F, Q, n, m, F2, Q2, n2, m2)
    PROVE  HttpBlocks(F2, Q2)' /\ HttpSum(n2, m2)'
<1>1. /\ Held(t, HoldsAt)' = {} /\ Size(t, HoldsAt)' = 0
      /\ Held(t, HoldsAt) = {blk[t]} /\ Size(t, HoldsAt) = 1
  BY NoBlock DEF Held, Size
<1>2. ASSUME NEW u \in Ends \ {t}
      PROVE  Held(u, HoldsAt)' = Held(u, HoldsAt) /\ Size(u, HoldsAt)' = Size(u, HoldsAt)
  BY TwoEnds DEF Held, Size, Others
<1>3. HttpSum(n2, m2)'
  <2>1. Size(Producer, HoldsAt) \in Nat /\ Size(Consumer, HoldsAt) \in Nat
    BY DEF Size
  <2> QED
    BY <1>1, <1>2, <2>1, TwoEnds, SMTT(20) DEF HttpSum, Ends, Given
<1>4. /\ pc'[Producer] \in HoldsAt \ {"allocated"} => blk'[Producer] \in Block
      /\ pc'[Consumer] \in HoldsAt => blk'[Consumer] \in Block
  BY TwoEnds DEF HttpBlocks, Others, Ends
<1>5. PICK A, B, A2, B2 :
         /\ A = Held(Producer, HoldsAt) /\ B = Held(Consumer, HoldsAt)
         /\ A2 = Held(Producer, HoldsAt)' /\ B2 = Held(Consumer, HoldsAt)'
  BY Zenon
<1>6. Parted(F, Q, A \cup B) /\ A \cap B = {}
  BY <1>5 DEF HttpBlocks
<1>7. \/ A2 = {} /\ A = {blk[t]} /\ B2 = B
      \/ B2 = {} /\ B = {blk[t]} /\ A2 = A
  BY <1>1, <1>2, <1>5, TwoEnds DEF Ends
<1>8. Parted(F2, Q2, A2 \cup B2) /\ A2 \cap B2 = {}
  BY <1>6, <1>7 DEF Parted, Given
<1> QED
  BY <1>3, <1>4, <1>5, <1>8 DEF HttpBlocks

\* The pool bounds the lists.
LEMMA SumBounds ==
    ASSUME NEW n, NEW m, HttpSum(n, m)
    PROVE  n \in 0 .. Blocks
<1>1. \A t \in Ends : Size(t, HoldsAt) \in Nat
  BY DEF Size
<1> QED
  BY <1>1, BlocksAssumption DEF HttpSum, Ends

\* The parts make up a step.
LEMMA HttpDone ==
    ASSUME NEW s, NEW q, MemInv(s)', RingInv(q)', Idle', Once(q), HttpPlaces',
           HttpBlocks(Elems(s), Elems(q))', HttpSum(Len(s), Len(q))', Keepers(Elems(q))',
           [Fifo!Next]_Fifo!vars
    PROVE  HttpStep
BY DEF HttpStep, HttpState, HttpInv

\* The main thread: the threads it starts have not run before.
LEMMA MainKeeps ==
    ASSUME NEW s, NEW q, HttpState(s, q), Main
    PROVE  HttpStep
<1> PICK F, Q, n, m : F = Elems(s) /\ Q = Elems(q) /\ n = Len(s) /\ m = Len(q)
  BY Zenon
<1>0. /\ MemInv(s) /\ RingInv(q) /\ Idle /\ Once(q)
      /\ HttpPlaces /\ HttpBlocks(F, Q) /\ HttpSum(n, m) /\ Keepers(Q)
  BY DEF HttpState, HttpInv
<1>1. UNCHANGED <<memory, ring, network, pinned>>
  BY DEF Main, SpawnWorker, EnvironmentStart, GatewayStart, GatewayStop, Stop, WaitForShutdown
<1>2. UNCHANGED <<open, client_fd, connection, blk>>
  BY <1>1 DEF network, memory, registers
<1>3. CASE SpawnWorker
  <2>1. main = "spawn" /\ main' = "start" /\ At(Consumer, "none", "loop")
    BY <1>0, <1>3 DEF SpawnWorker, MainAt, HttpPlaces, At
  <2>2. /\ MemInv(s)' /\ RingInv(q)' /\ Idle' /\ [Fifo!Next]_Fifo!vars
        /\ Others(Consumer) /\ pc[Consumer] = "none" /\ pc'[Consumer] = "loop"
    <3>1. Consumer \in Ends /\ Outside(s, Consumer, "none", "loop", blk[Consumer])
      BY DEF Outside, Ends, InPush, InPop
    <3> QED
      BY <1>0, <1>1, <2>1, <3>1, PlainKeepsBlock
  <2>3. pc'[Producer] = pc[Producer] /\ Consumer \in Ends
    BY <2>2, TwoEnds DEF Others, Ends
  <2>4. HttpPlaces'
    BY <1>0, <2>1, <2>2, <2>3 DEF HttpPlaces
  <2>5. HttpBlocks(F, Q)' /\ HttpSum(n, m)'
    BY <1>0, <2>2, <2>3, HoldingStays DEF HoldsAt
  <2>6. Keepers(Q)'
    BY <1>0, <1>2, <2>2, <2>3, SMTT(20) DEF Keepers, Kept
  <2> QED
    BY <1>0, <2>2, <2>4, <2>5, <2>6, HttpDone
<1>4. CASE GatewayStart
  <2>1. main = "open" /\ main' = "close" /\ At(Producer, "none", "loop")
    BY <1>0, <1>4 DEF GatewayStart, MainAt, HttpPlaces, At
  <2>2. /\ MemInv(s)' /\ RingInv(q)' /\ Idle' /\ [Fifo!Next]_Fifo!vars
        /\ Others(Producer) /\ pc[Producer] = "none" /\ pc'[Producer] = "loop"
    <3>1. Producer \in Ends /\ Outside(s, Producer, "none", "loop", blk[Producer])
      BY DEF Outside, Ends, InPush, InPop
    <3> QED
      BY <1>0, <1>1, <2>1, <3>1, PlainKeepsBlock
  <2>3. pc'[Consumer] = pc[Consumer] /\ Producer \in Ends
    BY <2>2, TwoEnds DEF Others, Ends
  <2>4. HttpPlaces'
    BY <1>0, <2>1, <2>2, <2>3 DEF HttpPlaces
  <2>5. HttpBlocks(F, Q)' /\ HttpSum(n, m)'
    BY <1>0, <2>2, <2>3, HoldingStays DEF HoldsAt
  <2>6. Keepers(Q)'
    BY <1>0, <1>2, <2>2, <2>3, SMTT(20) DEF Keepers, Kept, ServesAt, InPush
  <2> QED
    BY <1>0, <2>2, <2>4, <2>5, <2>6, HttpDone
<1>5. CASE EnvironmentStart \/ GatewayStop \/ Stop \/ WaitForShutdown
  <2>1. UNCHANGED pc /\ main # "spawn" /\ main' # "spawn" /\ main' # "start"
        /\ (main' = "open" => main = "start")
    BY <1>5 DEF EnvironmentStart, GatewayStop, Stop, WaitForShutdown, MainAt
  <2>2. MemInv(s)' /\ RingInv(q)' /\ Idle' /\ [Fifo!Next]_Fifo!vars
    BY <1>0, <1>1, <2>1, StillKeeps
  <2>3. HttpPlaces'
    BY <1>0, <2>1 DEF HttpPlaces
  <2>4. HttpBlocks(F, Q)' /\ HttpSum(n, m)'
    BY <1>0, <1>2, <2>1 DEF HttpBlocks, Held, HttpSum, Size
  <2>5. Keepers(Q)'
    BY <1>0, <1>2, <2>1 DEF Keepers, Kept
  <2> QED
    BY <1>0, <2>2, <2>3, <2>4, <2>5, HttpDone
<1> QED
  BY <1>3, <1>4, <1>5 DEF Main

\* A block that a thread holds can be given back.
LEMMA MayFree ==
    ASSUME NEW F, NEW Q, HttpBlocks(F, Q), NEW t \in Ends, pc[t] \in HoldsAt, blk[t] \in Block
    PROVE  blk[t] \in Block \ F /\ \A u \in Ends \ {t} : Giving(u) => blk[u] # blk[t]
<1>1. \A u \in Ends : Giving(u) => pc[u] \in HoldsAt \ {"allocated"}
  BY DEF Giving, HoldsAt
<1>2. blk[t] \notin F
  BY HeldApart
<1>3. ASSUME NEW u \in Ends \ {t}, Giving(u) PROVE blk[u] # blk[t]
  BY <1>1, <1>3, HeldApart, SMTT(20) DEF Ends
<1> QED
  BY <1>2, <1>3

\* The steps of the gateway thread outside the calls, and what one does.
Plain(from, to) ==
    /\ from \in {"loop", "accept", "recv", "allocated", "freed"}
    /\ to \in {"loop", "accept", "exit", "recv", "alloc", "push", "free"}
    /\ to \in {"push", "free"} => from = "allocated" /\ blk[Producer] # END_OF_LIST
    /\ from = "allocated" => to \in {"push", "free"} \/ blk[Producer] = END_OF_LIST
Moved(from, to) ==
    /\ pc[Producer] = from /\ pc'[Producer] = to
    /\ pc'[Consumer] = pc[Consumer] /\ blk' = blk

\* Such a step keeps what is not said of the connections.
LEMMA ProducerMoves ==
    ASSUME NEW s, NEW q, HttpState(s, q), NEW from, NEW to, At(Producer, from, to),
           UNCHANGED <<memory, ring, main, pinned>>, Plain(from, to),
           NEW Q, Q = Elems(q), Moved(from, to) => Keepers(Q)'
    PROVE  HttpStep
<1> PICK F, n, m : F = Elems(s) /\ n = Len(s) /\ m = Len(q)
  BY Zenon
<1> /\ from \in {"loop", "accept", "recv", "allocated", "freed"}
    /\ to \in {"loop", "accept", "exit", "recv", "alloc", "push", "free"}
    /\ to \in {"push", "free"} => from = "allocated" /\ blk[Producer] # END_OF_LIST
    /\ from = "allocated" => to \in {"push", "free"} \/ blk[Producer] = END_OF_LIST
  BY Zenon DEF Plain
<1>0. /\ MemInv(s) /\ RingInv(q) /\ Idle /\ Once(q)
      /\ HttpPlaces /\ HttpBlocks(F, Q) /\ HttpSum(n, m) /\ Keepers(Q)
  BY DEF HttpState, HttpInv
<1>1. Producer \in Ends /\ pc[Producer] = from /\ blk[Producer] \in Loc
  BY <1>0, TwoEnds DEF Ends, At, MemInv, MemType
<1>2. to \in {"push", "free"} => blk[Producer] \in Block
  BY <1>1 DEF Loc
<1>3. to = "free" =>
         /\ blk[Producer] \in Block \ Elems(s)
         /\ \A u \in Ends \ {Producer} : Giving(u) => blk[u] # blk[Producer]
  BY <1>0, <1>1, <1>2, MayFree DEF HoldsAt
<1>4. /\ MemInv(s)' /\ RingInv(q)' /\ Idle' /\ [Fifo!Next]_Fifo!vars
      /\ Others(Producer) /\ pc'[Producer] = to /\ blk' = blk
  <2>1. Outside(s, Producer, from, to, blk[Producer])
    BY <1>1, <1>2, <1>3, TwoEnds DEF Outside, InPush, InPop
  <2> QED
    BY <1>0, <1>1, <2>1, PlainKeepsBlock
<1>5. pc'[Consumer] = pc[Consumer]
  BY <1>4, TwoEnds DEF Others
<1>6. HttpPlaces'
  BY <1>0, <1>1, <1>4, <1>5 DEF HttpPlaces, ServesAt
<1>7. HttpBlocks(F, Q)' /\ HttpSum(n, m)'
  <2>1. \/ pc[Producer] \notin HoldsAt /\ pc'[Producer] \notin HoldsAt
        \/ pc'[Producer] \notin HoldsAt /\ blk[Producer] = END_OF_LIST
        \/ pc[Producer] \in HoldsAt /\ pc'[Producer] \in HoldsAt /\ blk[Producer] \in Block
    BY <1>1, <1>2, <1>4 DEF HoldsAt
  <2> QED
    BY <1>0, <1>1, <1>4, <2>1, HoldingStays
<1>8. Keepers(Q)'
  BY <1>1, <1>4, <1>5 DEF Moved
<1> QED
  BY <1>0, <1>4, <1>6, <1>7, <1>8, HttpDone

\* accept() returns a connection that is not open yet.
LEMMA AcceptLoopKeeps ==
    ASSUME NEW s, NEW q, HttpState(s, q), AcceptLoop
    PROVE  HttpStep
<1> PICK Q : Q = Elems(q)
  BY Zenon
<1>0. Keepers(Q) /\ UNCHANGED <<memory, ring, main, pinned>>
  BY DEF HttpState, HttpInv, AcceptLoop, lifecycle
<1>1. CASE /\ At(Producer, "loop", IF listening THEN "accept" ELSE "exit")
           /\ UNCHANGED network
  <2> PICK to : to = IF listening THEN "accept" ELSE "exit"
    BY Zenon
  <2>1. Moved("loop", to) => Keepers(Q)'
    BY <1>0, <1>1, SMTT(20) DEF Moved, Keepers, Kept, ServesAt, InPush, network
  <2>2. Plain("loop", to)
    BY DEF Plain
  <2> QED
    BY <1>0, <1>1, <2>1, <2>2, ProducerMoves
<1>2. CASE At(Producer, "accept", "loop") /\ UNCHANGED network
  <2>1. Moved("accept", "loop") => Keepers(Q)'
    BY <1>0, <1>2, SMTT(20) DEF Moved, Keepers, Kept, ServesAt, InPush, network
  <2>2. Plain("accept", "loop")
    BY DEF Plain
  <2> QED
    BY <1>0, <1>2, <2>1, <2>2, ProducerMoves
<1>3. ASSUME At(Producer, "accept", "recv"), UNCHANGED <<read_buffer, connection>>,
             NEW c \in Client \ open, open' = open \cup {c}, client_fd' = c
      PROVE  HttpStep
  <2>1. Moved("accept", "recv") => Keepers(Q)'
    BY <1>0, <1>3, ClientAssumption, SMTT(20) DEF Moved, Keepers, Kept, ServesAt, InPush
  <2>2. Plain("accept", "recv")
    BY DEF Plain
  <2> QED
    BY <1>0, <1>3, <2>1, <2>2, ProducerMoves
<1> QED
  BY <1>1, <1>2, <1>3 DEF AcceptLoop

\* The accept loop closes the connection that it alone keeps.
LEMMA CloseKeeps ==
    ASSUME NEW Q, Keepers(Q), Q \subseteq Block, pc[Producer] \in ServesAt, pc'[Producer] = "loop",
           pc'[Consumer] = pc[Consumer], blk' = blk, Close(client_fd), client_fd' = NoClient,
           UNCHANGED connection
    PROVE  Keepers(Q)'
<1>1. NoClient \notin open /\ open' = open \ {client_fd}
  BY ClientAssumption DEF Keepers, Close
<1>2. /\ open' \subseteq Client /\ connection' \in [Block -> Client \cup {NoClient}]
      /\ \A b \in Q : connection[b] \in open' \ {NoClient}
      /\ \A a, b \in Q : connection[a] = connection[b] => a = b
  BY <1>1, SMTT(20) DEF Keepers
<1>3. pc[Consumer] = "popped" =>
          /\ connection[blk[Consumer]] \in open' \ {NoClient}
          /\ \A b \in Q : connection[b] # connection[blk[Consumer]]
  BY <1>1 DEF Keepers
<1>4. ASSUME NEW c \in open' PROVE Kept(c, Q)'
  BY <1>1, <1>4 DEF Keepers, Kept
<1> QED
  BY <1>1, <1>2, <1>3, <1>4 DEF Keepers, ServesAt, InPush

\* recv() gets a request, or the connection is closed.
LEMMA ReceiveKeeps ==
    ASSUME NEW s, NEW q, HttpState(s, q), Receive
    PROVE  HttpStep
<1> PICK F, Q : F = Elems(s) /\ Q = Elems(q)
  BY Zenon
<1>0. Keepers(Q) /\ Q \subseteq Block /\ UNCHANGED <<memory, ring, main, pinned>>
  BY HeldApart DEF HttpState, HttpInv, Receive, lifecycle
<1>1. CASE At(Producer, "recv", "alloc") /\ UNCHANGED <<open, client_fd, connection>>
  <2>1. Moved("recv", "alloc") => Keepers(Q)'
    BY <1>0, <1>1, SMTT(20) DEF Moved, Keepers, Kept, ServesAt, InPush
  <2>2. Plain("recv", "alloc")
    BY DEF Plain
  <2> QED
    BY <1>0, <1>1, <2>1, <2>2, ProducerMoves
<1>2. CASE /\ At(Producer, "recv", "loop") /\ Close(client_fd) /\ client_fd' = NoClient
           /\ UNCHANGED connection
  <2>1. Moved("recv", "loop") => Keepers(Q)'
    BY <1>0, <1>2, CloseKeeps DEF Moved, ServesAt
  <2>2. Plain("recv", "loop")
    BY DEF Plain
  <2> QED
    BY <1>0, <1>2, <2>1, <2>2, ProducerMoves
<1> QED
  BY <1>1, <1>2 DEF Receive

\* After a deallocate() the client gets its error and is closed.
LEMMA SendErrorKeeps ==
    ASSUME NEW s, NEW q, HttpState(s, q), SendError
    PROVE  HttpStep
<1> PICK F, Q : F = Elems(s) /\ Q = Elems(q)
  BY Zenon
<1>0. Keepers(Q) /\ Q \subseteq Block /\ UNCHANGED <<memory, ring, main, pinned>>
  BY HeldApart DEF HttpState, HttpInv, SendError, lifecycle
<1>1. /\ At(Producer, "freed", "loop") /\ Close(client_fd) /\ client_fd' = NoClient
      /\ UNCHANGED connection
  BY DEF SendError
<1>2. Moved("freed", "loop") => Keepers(Q)'
  BY <1>0, <1>1, CloseKeeps DEF Moved, ServesAt
<1>3. Plain("freed", "loop")
  BY DEF Plain
<1> QED
  BY <1>0, <1>1, <1>2, <1>3, ProducerMoves

\* A new event takes over the connection's number; without a block the client goes.
LEMMA ParseRequestKeeps ==
    ASSUME NEW s, NEW q, HttpState(s, q), ParseRequest
    PROVE  HttpStep
<1> PICK F, Q : F = Elems(s) /\ Q = Elems(q)
  BY Zenon
<1>0. /\ Keepers(Q) /\ Q \subseteq Block /\ HttpBlocks(F, Q) /\ blk[Producer] \in Loc
      /\ UNCHANGED <<memory, ring, main, pinned>>
  BY HeldApart, TwoEnds DEF HttpState, HttpInv, ParseRequest, lifecycle, MemInv, MemType
<1>1. CASE /\ blk[Producer] = END_OF_LIST
           /\ At(Producer, "allocated", "loop") /\ Close(client_fd) /\ client_fd' = NoClient
           /\ UNCHANGED connection
  <2>1. Moved("allocated", "loop") => Keepers(Q)'
    BY <1>0, <1>1, CloseKeeps DEF Moved, ServesAt
  <2>2. Plain("allocated", "loop")
    BY <1>1 DEF Plain
  <2> QED
    BY <1>0, <1>1, <2>1, <2>2, ProducerMoves
<1>2. CASE /\ blk[Producer] # END_OF_LIST
           /\ At(Producer, "allocated", IF read_buffer \in WellFormed THEN "push" ELSE "free")
           /\ connection' = [connection EXCEPT ![blk[Producer]] = client_fd]
           /\ UNCHANGED <<open, client_fd>>
  <2> PICK to, b : /\ to = IF read_buffer \in WellFormed THEN "push" ELSE "free"
                   /\ b = blk[Producer]
    BY Zenon
  <2>1. pc[Producer] = "allocated" /\ b \in Block /\ to \in {"push", "free"}
    BY <1>0, <1>2 DEF At, Loc
  <2>2. b \notin Q /\ (pc[Consumer] = "popped" => blk[Consumer] # b /\ blk[Consumer] \in Block)
    BY <1>0, <2>1, HeldApart DEF HoldsAt, Ends
  <2>3. /\ connection' \in [Block -> Client \cup {NoClient}] /\ connection'[b] = client_fd
        /\ client_fd \in open /\ open \subseteq Client
        /\ \A a \in Block \ {b} : connection'[a] = connection[a]
    BY <1>0, <1>2, <2>1 DEF Keepers, ServesAt
  <2>4. ASSUME Moved("allocated", to)
        PROVE  Keepers(Q)'
    <3>0. pc'[Producer] = to /\ pc'[Consumer] = pc[Consumer] /\ blk' = blk
      BY <2>4 DEF Moved
    <3>1. /\ \A a \in Q : connection'[a] = connection[a]
          /\ pc[Consumer] = "popped" => connection'[blk[Consumer]] = connection[blk[Consumer]]
      BY <1>0, <2>2, <2>3
    <3>2. \A c \in open : Kept(c, Q)'
      BY <1>0, <1>2, <3>0, <3>1 DEF Keepers, Kept
    <3>3. /\ \A a \in Q : connection'[a] \in open \ {client_fd}
          /\ \A a, d \in Q : connection'[a] = connection'[d] => a = d
      BY <1>0, <3>1 DEF Keepers
    <3>4. pc[Consumer] = "popped" =>
             /\ connection'[blk[Consumer]] \in open \ {client_fd}
             /\ \A a \in Q : connection'[a] # connection'[blk[Consumer]]
      BY <1>0, <3>1 DEF Keepers
    <3>5. pc'[Producer] \in ServesAt
      BY <2>1, <3>0 DEF ServesAt
    <3> QED
      BY <1>2, <2>3, <3>0, <3>2, <3>3, <3>4, <3>5 DEF Keepers
  <2>5. Plain("allocated", to)
    BY <1>2, <2>1 DEF Plain
  <2> QED
    BY <1>0, <1>2, <2>1, <2>4, <2>5, ProducerMoves
<1> QED
  BY <1>1, <1>2 DEF ParseRequest

\* A step of allocate(): a block that it takes out of the list is the thread's.
LEMMA AllocateKeepsHttp ==
    ASSUME NEW s, NEW q, HttpState(s, q), Allocate(Producer)
    PROVE  HttpStep
<1> PICK F, Q, n, m : F = Elems(s) /\ Q = Elems(q) /\ n = Len(s) /\ m = Len(q)
  BY Zenon
<1>0. /\ MemInv(s) /\ RingInv(q) /\ Idle /\ Once(q) /\ Producer \in Ends
      /\ HttpPlaces /\ HttpBlocks(F, Q) /\ HttpSum(n, m) /\ Keepers(Q)
  BY TwoEnds DEF HttpState, HttpInv, Ends
<1>1. /\ AllocateStep(Producer) /\ UNCHANGED pinned /\ UNCHANGED ring
      /\ UNCHANGED <<open, client_fd, connection, main>>
  BY DEF Allocate, network, lifecycle
<1>2. PICK s2 : MemInv(s2)' /\ AllocateEffect(Elems(s), Elems(s2), Len(s), Len(s2))
  BY <1>0, <1>1, SumBounds, AllocateKeeps
<1> PICK F2, n2 : F2 = Elems(s2) /\ n2 = Len(s2)
  BY Zenon
<1>3. AllocateEffect(F, F2, n, n2) /\ Others(Producer) /\ n2 \in Nat /\ m \in Nat
  BY <1>0, <1>2, ElemsAreBlocks DEF AllocateEffect, MemInv, ListOf, HttpSum
<1>4. /\ pc[Producer] \in {"alloc", "next", "take", "count_taken"}
      /\ pc'[Producer] \in {"next", "take", "count_taken", "allocated"}
  BY <1>3 DEF AllocateEffect
<1>5. pc'[Consumer] = pc[Consumer] /\ blk'[Consumer] = blk[Consumer] /\ Idle'
  BY <1>0, <1>3, TwoEnds, IdleKeeps DEF Others
<1>6. RingInv(q)' /\ [Fifo!Next]_Fifo!vars
  BY <1>0, <1>1, <1>3, <1>4, TwoEnds, RingKeeps DEF InPush
<1>7. HttpPlaces'
  BY <1>0, <1>1, <1>4, <1>5 DEF HttpPlaces, ServesAt
<1>8. HttpBlocks(F2, Q)' /\ HttpSum(n2, m)'
  <2>1. CASE /\ pc[Producer] = "take" /\ blk'[Producer] \in F
             /\ pc'[Producer] \in {"count_taken", "allocated"}
             /\ F2 = F \ {blk'[Producer]} /\ n2 = n - 1
    <3>1. /\ pc[Producer] \notin HoldsAt /\ pc'[Producer] \in HoldsAt
          /\ Taken(blk'[Producer], F, Q, n, m, F2, Q, n2, m)
      BY <2>1 DEF HoldsAt, Taken
    <3> QED
      BY Zenon, <1>0, <1>3, <3>1, HoldingTakes
  <2>2. CASE pc'[Producer] \in {"next", "take"} /\ F2 = F /\ n2 = n
    BY <1>0, <1>3, <1>4, <2>2, HoldingStays DEF HoldsAt, AllocateEffect
  <2>3. CASE /\ pc[Producer] = "next" /\ pc'[Producer] = "allocated"
             /\ blk'[Producer] = END_OF_LIST /\ F2 = F /\ n2 = n
    BY <1>0, <1>3, <2>3, HoldingStays DEF HoldsAt
  <2>4. CASE /\ pc[Producer] = "count_taken" /\ pc'[Producer] = "allocated"
             /\ blk' = blk /\ F2 = F /\ n2 = n
    BY <1>0, <1>3, <2>4, HoldingStays DEF HoldsAt
  <2> QED
    BY <1>3, <2>1, <2>2, <2>3, <2>4 DEF AllocateEffect
<1>9. Keepers(Q)'
  BY <1>0, <1>1, <1>4, <1>5, SMTT(20) DEF Keepers, Kept, ServesAt, InPush
<1> QED
  BY <1>0, <1>2, <1>5, <1>6, <1>7, <1>8, <1>9, HttpDone

\* A step of deallocate(): the event is gone when it begins, and a block that it
\* puts back into the list is nobody's.
LEMMA DeallocateKeepsHttp ==
    ASSUME NEW s, NEW q, HttpState(s, q), NEW t \in Ends, Deallocate(t)
    PROVE  HttpStep
<1> PICK F, Q, n, m : F = Elems(s) /\ Q = Elems(q) /\ n = Len(s) /\ m = Len(q)
  BY Zenon
<1>0. /\ MemInv(s) /\ RingInv(q) /\ Idle /\ Once(q)
      /\ HttpPlaces /\ HttpBlocks(F, Q) /\ HttpSum(n, m) /\ Keepers(Q)
  BY DEF HttpState, HttpInv
<1>1. /\ DeallocateStep(t) /\ UNCHANGED pinned /\ UNCHANGED ring
      /\ UNCHANGED <<open, client_fd, main>>
      /\ connection' = IF pc[t] = "free" THEN [connection EXCEPT ![blk[t]] = NoClient]
                       ELSE connection
  BY DEF Deallocate, lifecycle
<1>2. PICK s2 : MemInv(s2)' /\ DeallocateEffect(t, Elems(s), Elems(s2), Len(s), Len(s2))
  BY <1>0, <1>1, SumBounds, DeallocateKeeps
<1> PICK F2, n2 : F2 = Elems(s2) /\ n2 = Len(s2)
  BY Zenon
<1>3. DeallocateEffect(t, F, F2, n, n2) /\ Others(t) /\ n2 \in Nat /\ m \in Nat
  BY <1>0, <1>2, ElemsAreBlocks DEF DeallocateEffect, MemInv, ListOf, HttpSum
<1>4. /\ pc[t] \in {"free", "link", "give", "count_given"}
      /\ pc'[t] \in {"link", "give", "count_given", "freed"}
  BY <1>3 DEF DeallocateEffect
<1>5. /\ \A u \in Ends \ {t} : pc'[u] = pc[u] /\ blk'[u] = blk[u]
      /\ Idle'
  BY <1>0, <1>3, TwoEnds, IdleKeeps DEF Others
<1>6. RingInv(q)' /\ [Fifo!Next]_Fifo!vars
  BY <1>0, <1>1, <1>3, <1>4, TwoEnds, RingKeeps DEF InPush, InPop
<1>7. HttpPlaces'
  BY <1>0, <1>1, <1>4, <1>5, TwoEnds DEF HttpPlaces, ServesAt, Ends
<1>8. HttpBlocks(F2, Q)' /\ HttpSum(n2, m)'
  <2>1. pc[t] \in HoldsAt => blk[t] \in Block
    BY <1>0, <1>4, HeldApart DEF Ends
  <2>2. CASE /\ pc[t] = "give" /\ pc'[t] \in {"count_given", "freed"}
             /\ F2 = F \cup {blk[t]} /\ n2 = n + 1
    <3>1. /\ pc[t] \in HoldsAt /\ pc'[t] \notin HoldsAt /\ blk[t] \in Block
          /\ Given(blk[t], F, Q, n, m, F2, Q, n2, m)
      BY <2>1, <2>2 DEF HoldsAt, Given
    <3> QED
      BY Zenon, <1>0, <1>3, <3>1, HoldingGives
  <2>3. CASE /\ pc[t] \in {"free", "link", "give"} /\ pc'[t] \in {"link", "give"}
             /\ blk' = blk /\ F2 = F /\ n2 = n
    BY <1>0, <1>3, <2>1, <2>3, HoldingStays DEF HoldsAt
  <2>4. CASE pc[t] = "count_given" /\ pc'[t] = "freed" /\ F2 = F /\ n2 = n
    BY <1>0, <1>3, <2>4, HoldingStays DEF HoldsAt
  <2> QED
    BY <1>3, <2>2, <2>3, <2>4 DEF DeallocateEffect
<1>9. Keepers(Q)'
  <2>1. /\ connection' \in [Block -> Client \cup {NoClient}]
        /\ \A b \in Block : (pc[t] = "free" /\ b = blk[t]) \/ connection'[b] = connection[b]
    BY <1>0, <1>1 DEF Keepers
  <2>2. pc[t] = "free" => blk[t] \in Block /\ blk[t] \notin Q
    BY <1>0, HeldApart DEF HoldsAt, Ends
  <2>3. Q \subseteq Block /\ \A b \in Q : connection'[b] = connection[b]
    BY <1>0, <2>1, <2>2, HeldApart
  <2>4. pc'[Consumer] = "popped" =>
           /\ pc[Consumer] = "popped" /\ blk'[Consumer] = blk[Consumer]
           /\ connection'[blk[Consumer]] = connection[blk[Consumer]]
    <3>1. ASSUME pc'[Consumer] = "popped"
          PROVE  /\ t = Producer /\ pc[Consumer] = "popped" /\ blk'[Consumer] = blk[Consumer]
                 /\ blk[Consumer] \in Block
      BY <1>0, <1>4, <1>5, <3>1, HeldApart DEF Ends, HoldsAt
    <3>2. pc'[Consumer] = "popped" /\ pc[t] = "free" => blk[Consumer] # blk[t]
      BY <1>0, <2>2, <3>1, HeldApart DEF HoldsAt
    <3> QED
      BY <2>1, <3>1, <3>2
  <2>5. /\ pc'[Producer] \in ServesAt <=> pc[Producer] \in ServesAt
        /\ pc'[Producer] \in InPush =>
             /\ t = Consumer /\ pc[Producer] \in InPush /\ blk'[Producer] = blk[Producer]
             /\ connection'[blk[Producer]] = connection[blk[Producer]]
    <3>1. ASSUME pc'[Producer] \in InPush
          PROVE  /\ t = Consumer /\ pc[Producer] \in InPush /\ blk'[Producer] = blk[Producer]
                 /\ blk[Producer] \in Block
      BY <1>0, <1>4, <1>5, <3>1 DEF Ends, InPush, RingInv
    <3>2. pc'[Producer] \in InPush /\ pc[t] = "free" => blk[Producer] # blk[t]
      BY <1>0, <2>2, <3>1, HeldApart DEF HoldsAt, InPush
    <3>3. pc'[Producer] \in ServesAt <=> pc[Producer] \in ServesAt
      BY <1>4, <1>5 DEF Ends, ServesAt
    <3> QED
      BY <2>1, <3>1, <3>2, <3>3
  <2>6. pc[Consumer] = "popped" => pc'[Consumer] = "popped"
    BY <1>4, <1>5 DEF Ends
  <2>7. \A c \in open : Kept(c, Q)'
    BY <1>0, <1>1, <2>3, <2>4, <2>6, SMTT(20) DEF Keepers, Kept
  <2>8. /\ \A b \in Q : connection'[b] \in open \ {client_fd}
        /\ \A a, b \in Q : connection'[a] = connection'[b] => a = b
        /\ pc'[Consumer] = "popped" =>
              /\ connection'[blk'[Consumer]] \in open \ {client_fd}
              /\ \A b \in Q : connection'[b] # connection'[blk'[Consumer]]
    BY <1>0, <2>3, <2>4, SMTT(20) DEF Keepers
  <2> QED
    BY <1>0, <1>1, <2>1, <2>5, <2>7, <2>8 DEF Keepers
<1> QED
  BY <1>0, <1>2, <1>5, <1>6, <1>7, <1>8, <1>9, HttpDone

\* A step of push(): the event takes its connection with it into the ring.
LEMMA PushKeepsHttp ==
    ASSUME NEW s, NEW q, HttpState(s, q), Push("free"), UNCHANGED <<free_count, pinned, main>>,
           UNCHANGED <<open, connection>>,
           client_fd' = IF pc'[Producer] = "pushed" THEN NoClient ELSE client_fd
    PROVE  HttpStep
<1> PICK F, Q, n, m, b : /\ F = Elems(s) /\ Q = Elems(q) /\ n = Len(s) /\ m = Len(q)
                         /\ b = blk[Producer]
  BY Zenon
<1>0. /\ MemInv(s) /\ RingInv(q) /\ Idle /\ Once(q) /\ Producer \in Ends /\ q \in Seq(Block)
      /\ HttpPlaces /\ HttpBlocks(F, Q) /\ HttpSum(n, m) /\ Keepers(Q)
  BY TwoEnds DEF HttpState, HttpInv, Ends, RingInv
<1>1. DOMAIN pc = Thread /\ blk \in [Thread -> Loc] /\ "free" \notin InPush \cup {"pushed"}
  BY <1>0 DEF MemInv, MemType, InPush
<1>2. PICK q2 : RingInv(q2)' /\ PushEffect("free", q, q2)
  BY <1>0, <1>1, PushKeeps, Zenon
<1>3. [Fifo!Next]_Fifo!vars /\ UNCHANGED <<freeList, registers>> /\ DOMAIN pc' = Thread
  BY <1>0, <1>1, PushKeeps, Zenon
<1>4. /\ Others(Producer) /\ blk' = blk /\ UNCHANGED <<cur, nxt>>
      /\ pc[Producer] \in InPush /\ pc'[Producer] \in {"free", "store", "publish", "pushed"}
  BY <1>2, <1>3 DEF PushEffect, InPush, registers
<1>5. pc'[Consumer] = pc[Consumer] /\ Idle'
  BY <1>0, <1>4, TwoEnds, IdleKeeps DEF Others
<1>6. pc[Producer] \in HoldsAt /\ b \in Block /\ b \notin Q
  BY <1>0, <1>4, HeldApart DEF HoldsAt, InPush, RingInv
<1>7. MemInv(s)'
  <2>1. /\ b \in Block \ Elems(s) /\ \A u \in Ends \ {Producer} : Giving(u) => blk[u] # b
    BY <1>0, <1>6, MayFree
  <2>2. /\ pc[Producer] \notin {"count_taken", "count_given"}
        /\ pc'[Producer] \notin {"next", "take", "count_taken", "link", "give", "count_given"}
    BY <1>4 DEF InPush
  <2> QED
    BY <1>0, <1>1, <1>3, <1>4, <2>1, <2>2, MemoryKeeps
<1>8. HttpPlaces'
  <2>1. pc[Producer] # "none"
    BY <1>4 DEF InPush
  <2>2. pc'[Producer] \in {"pushed"} \cup ServesAt
    BY <1>4 DEF ServesAt
  <2> QED
    BY <1>0, <1>5, <2>1, <2>2 DEF HttpPlaces
<1>9. CASE pc'[Producer] = "pushed"
  <2>1. q2 = Append(q, b) /\ client_fd' = NoClient
    BY <1>2, <1>9 DEF PushEffect
  <2> PICK Q2, m2 : Q2 = Elems(q2) /\ m2 = Len(q2)
    BY Zenon
  <2>2. q2 \in Seq(Block) /\ Q2 = Q \cup {b} /\ m2 = m + 1 /\ m \in Nat /\ n \in Nat /\ Once(q2)
    BY <1>0, <1>6, <2>1, AppendOnce DEF HttpSum
  <2>3. Given(b, F, Q, n, m, F, Q2, n, m2) /\ pc'[Producer] \notin HoldsAt /\ m2 \in Nat
    BY <1>9, <2>2 DEF Given, HoldsAt
  <2>4. HttpBlocks(F, Q2)' /\ HttpSum(n, m2)'
    BY <1>0, <1>4, <1>6, <2>2, <2>3, HoldingGives
  <2>5. Keepers(Q2)'
    <3>1. client_fd \in open /\ connection[b] = client_fd /\ open \subseteq Client
      BY <1>0, <1>4 DEF Keepers, InPush, ServesAt
    <3>2. /\ \A a \in Q2 : connection[a] \in open \ {NoClient}
          /\ \A a, d \in Q2 : connection[a] = connection[d] => a = d
      BY <1>0, <2>2, <3>1, ClientAssumption, SMTT(20) DEF Keepers
    <3>3. pc[Consumer] = "popped" =>
             /\ connection[blk[Consumer]] \in open \ {NoClient}
             /\ \A a \in Q2 : connection[a] # connection[blk[Consumer]]
      BY <1>0, <2>2, <3>1, ClientAssumption, SMTT(20) DEF Keepers
    <3>4. \A c \in open : Kept(c, Q2)'
      BY <1>0, <1>4, <1>5, <2>2, <3>1, SMTT(20) DEF Keepers, Kept
    <3>5. pc'[Producer] \notin ServesAt /\ pc'[Producer] \notin InPush
      BY <1>9 DEF ServesAt, InPush
    <3> QED
      BY <1>0, <1>4, <1>5, <2>1, <3>2, <3>3, <3>4, <3>5 DEF Keepers
  <2> QED
    BY <1>2, <1>3, <1>5, <1>7, <1>8, <2>2, <2>4, <2>5, HttpDone
<1>10. CASE pc'[Producer] # "pushed"
  <2>1. q2 = q /\ client_fd' = client_fd
    BY <1>2, <1>10 DEF PushEffect
  <2>2. HttpBlocks(F, Q)' /\ HttpSum(n, m)'
    <3>1. pc'[Producer] \in HoldsAt
      BY <1>4, <1>10 DEF HoldsAt
    <3> QED
      BY <1>0, <1>4, <1>6, <3>1, HoldingStays
  <2>3. Keepers(Q)'
    BY <1>0, <1>4, <1>5, <1>10, <2>1, SMTT(20) DEF Keepers, Kept, ServesAt, InPush
  <2> QED
    BY <1>0, <1>2, <1>3, <1>5, <1>7, <1>8, <2>1, <2>2, <2>3, HttpDone
<1> QED
  BY <1>9, <1>10

\* push() and what follows it.
LEMMA PushEventKeeps ==
    ASSUME NEW s, NEW q, HttpState(s, q), PushEvent
    PROVE  HttpStep
<1> PICK F, Q, n, m : F = Elems(s) /\ Q = Elems(q) /\ n = Len(s) /\ m = Len(q)
  BY Zenon
<1>0. /\ MemInv(s) /\ RingInv(q) /\ Idle /\ Once(q) /\ Producer \in Ends
      /\ HttpPlaces /\ HttpBlocks(F, Q) /\ HttpSum(n, m) /\ Keepers(Q)
  BY TwoEnds DEF HttpState, HttpInv, Ends
<1>1. /\ UNCHANGED <<free_count, pinned, main>> /\ UNCHANGED <<open, connection>>
      /\ client_fd' = IF pc'[Producer] = "pushed" THEN NoClient ELSE client_fd
  BY DEF PushEvent, lifecycle
<1>2. CASE /\ At(Producer, "pushed", "loop") /\ blk' = [blk EXCEPT ![Producer] = END_OF_LIST]
           /\ UNCHANGED <<ring, freeList, cur, nxt>>
  <2>1. /\ MemInv(s)' /\ RingInv(q)' /\ Idle' /\ [Fifo!Next]_Fifo!vars
        /\ Others(Producer) /\ pc[Producer] = "pushed" /\ pc'[Producer] = "loop"
    <3>1. UNCHANGED <<freeList, cur, nxt, free_count, ring, pinned>> /\ END_OF_LIST \in Loc
      BY <1>1, <1>2 DEF Loc
    <3>2. Outside(s, Producer, "pushed", "loop", END_OF_LIST)
      BY TwoEnds DEF Outside, InPush, InPop
    <3> QED
      BY <1>0, <1>2, <3>1, <3>2, PlainKeeps
  <2>2. pc'[Consumer] = pc[Consumer] /\ blk'[Consumer] = blk[Consumer] /\ client_fd' = client_fd
    BY <1>1, <2>1, TwoEnds DEF Others
  <2>3. HttpPlaces'
    BY <1>0, <1>1, <2>1, <2>2 DEF HttpPlaces
  <2>4. HttpBlocks(F, Q)' /\ HttpSum(n, m)'
    <3>1. pc[Producer] \notin HoldsAt /\ pc'[Producer] \notin HoldsAt
      BY <2>1 DEF HoldsAt
    <3> QED
      BY <1>0, <2>1, <3>1, HoldingStays
  <2>5. Keepers(Q)'
    BY <1>0, <1>1, <2>1, <2>2, SMTT(20) DEF Keepers, Kept, ServesAt, InPush
  <2> QED
    BY <1>0, <2>1, <2>3, <2>4, <2>5, HttpDone
<1>3. CASE Push("free")
  BY <1>1, <1>3, PushKeepsHttp
<1> QED
  BY <1>2, <1>3 DEF PushEvent

\* A step of the worker outside the calls.
LEMMA WorkerMoves ==
    ASSUME NEW s, NEW q, HttpState(s, q), NEW from, NEW to, At(Consumer, from, to),
           UNCHANGED <<memory, ring, main, pinned>>,
           from \in {"loop", "popped", "freed"}, to \in {"loop", "pop", "exit", "free"},
           from = "popped" <=> to = "free"
    PROVE  /\ MemInv(s)' /\ RingInv(q)' /\ Idle' /\ [Fifo!Next]_Fifo!vars
           /\ pc[Consumer] = from /\ pc'[Consumer] = to /\ pc'[Producer] = pc[Producer]
           /\ blk' = blk /\ HttpPlaces'
           /\ HttpBlocks(Elems(s), Elems(q))' /\ HttpSum(Len(s), Len(q))'
<1> PICK F, Q, n, m : F = Elems(s) /\ Q = Elems(q) /\ n = Len(s) /\ m = Len(q)
  BY Zenon
<1>0. /\ MemInv(s) /\ RingInv(q) /\ Idle /\ Consumer \in Ends
      /\ HttpPlaces /\ HttpBlocks(F, Q) /\ HttpSum(n, m)
  BY TwoEnds DEF HttpState, HttpInv, Ends
<1>1. pc[Consumer] = from
  BY DEF At
<1>2. from = "popped" => pc[Consumer] \in HoldsAt /\ blk[Consumer] \in Block
  BY <1>0, <1>1, HeldApart DEF HoldsAt
<1>3. to = "free" =>
         /\ blk[Consumer] \in Block \ Elems(s)
         /\ \A u \in Ends \ {Consumer} : Giving(u) => blk[u] # blk[Consumer]
  BY <1>0, <1>2, MayFree
<1>4. /\ MemInv(s)' /\ RingInv(q)' /\ Idle' /\ [Fifo!Next]_Fifo!vars
      /\ Others(Consumer) /\ pc'[Consumer] = to /\ blk' = blk
  <2>1. Outside(s, Consumer, from, to, blk[Consumer])
    BY <1>3, TwoEnds DEF Outside, InPush, InPop
  <2> QED
    BY <1>0, <2>1, PlainKeepsBlock
<1>5. pc'[Producer] = pc[Producer]
  BY <1>4, TwoEnds DEF Others
<1>6. HttpPlaces'
  BY <1>0, <1>1, <1>4, <1>5 DEF HttpPlaces, InPop
<1>7. HttpBlocks(F, Q)' /\ HttpSum(n, m)'
  <2>1. \/ pc[Consumer] \notin HoldsAt /\ pc'[Consumer] \notin HoldsAt
        \/ pc[Consumer] \in HoldsAt /\ pc'[Consumer] \in HoldsAt /\ blk[Consumer] \in Block
    BY <1>1, <1>2, <1>4 DEF HoldsAt
  <2> QED
    BY <1>0, <1>4, <2>1, HoldingStays
<1> QED
  BY <1>1, <1>4, <1>5, <1>6, <1>7

\* The handler answers its client and closes the connection that it alone keeps.
LEMMA OnKeeps ==
    ASSUME NEW s, NEW q, HttpState(s, q), On
    PROVE  HttpStep
<1> PICK Q, k : Q = Elems(q) /\ k = connection[blk[Consumer]]
  BY Zenon
<1>0. Keepers(Q) /\ Once(q)
  BY DEF HttpState, HttpInv
<1>1. /\ At(Consumer, "popped", "free") /\ open' = open \ {k}
      /\ UNCHANGED <<memory, ring, main, pinned>> /\ UNCHANGED <<client_fd, connection>>
  BY DEF On, Close, lifecycle
<1>2. /\ MemInv(s)' /\ RingInv(q)' /\ Idle' /\ [Fifo!Next]_Fifo!vars
      /\ pc[Consumer] = "popped" /\ pc'[Consumer] = "free" /\ pc'[Producer] = pc[Producer]
      /\ blk' = blk /\ HttpPlaces'
      /\ HttpBlocks(Elems(s), Elems(q))' /\ HttpSum(Len(s), Len(q))'
  BY <1>1, WorkerMoves
<1>3. Keepers(Q)'
  <2>1. k \in open \ {client_fd} /\ \A b \in Q : connection[b] # k
    BY <1>0, <1>2 DEF Keepers
  <2>2. \A c \in open' : Kept(c, Q)'
    BY <1>0, <1>1, <1>2, SMTT(20) DEF Keepers, Kept
  <2> QED
    BY <1>0, <1>1, <1>2, <2>1, <2>2 DEF Keepers
<1> QED
  BY <1>0, <1>2, <1>3, HttpDone

\* The handler returns.
LEMMA OnReturnsKeeps ==
    ASSUME NEW s, NEW q, HttpState(s, q), OnReturns
    PROVE  HttpStep
<1> PICK Q : Q = Elems(q)
  BY Zenon
<1>0. Keepers(Q) /\ Once(q)
  BY DEF HttpState, HttpInv
<1>1. /\ At(Consumer, "freed", "loop") /\ UNCHANGED <<memory, ring, main, pinned>>
      /\ UNCHANGED <<open, client_fd, connection>>
  BY DEF OnReturns, network, lifecycle
<1>2. /\ MemInv(s)' /\ RingInv(q)' /\ Idle' /\ [Fifo!Next]_Fifo!vars
      /\ pc[Consumer] = "freed" /\ pc'[Consumer] = "loop" /\ pc'[Producer] = pc[Producer]
      /\ blk' = blk /\ HttpPlaces'
      /\ HttpBlocks(Elems(s), Elems(q))' /\ HttpSum(Len(s), Len(q))'
  BY <1>1, WorkerMoves
<1>3. Keepers(Q)'
  BY <1>0, <1>1, <1>2, SMTT(20) DEF Keepers, Kept
<1> QED
  BY <1>0, <1>2, <1>3, HttpDone

\* The worker's loop: pop() hands it the oldest event and its connection.
LEMMA WorkerLoopKeeps ==
    ASSUME NEW s, NEW q, HttpState(s, q), WorkerLoop
    PROVE  HttpStep
<1> PICK F, Q, n, m : F = Elems(s) /\ Q = Elems(q) /\ n = Len(s) /\ m = Len(q)
  BY Zenon
<1>0. /\ MemInv(s) /\ RingInv(q) /\ Idle /\ Once(q) /\ Consumer \in Ends /\ q \in Seq(Block)
      /\ HttpPlaces /\ HttpBlocks(F, Q) /\ HttpSum(n, m) /\ Keepers(Q)
  BY TwoEnds DEF HttpState, HttpInv, Ends, RingInv
<1>1. UNCHANGED <<free_count, pinned, main>> /\ UNCHANGED <<open, client_fd, connection>>
  BY DEF WorkerLoop, network, lifecycle
<1>2. CASE /\ At(Consumer, "loop", IF is_running THEN "pop" ELSE "exit")
           /\ UNCHANGED <<ring, freeList, registers>>
  <2> PICK to : to = IF is_running THEN "pop" ELSE "exit"
    BY Zenon
  <2>1. At(Consumer, "loop", to) /\ UNCHANGED <<memory, ring, main, pinned>> /\ to \in {"pop", "exit"}
    BY <1>1, <1>2 DEF memory
  <2>2. /\ MemInv(s)' /\ RingInv(q)' /\ Idle' /\ [Fifo!Next]_Fifo!vars
        /\ pc[Consumer] = "loop" /\ pc'[Consumer] = to /\ pc'[Producer] = pc[Producer]
        /\ blk' = blk /\ HttpPlaces'
        /\ HttpBlocks(Elems(s), Elems(q))' /\ HttpSum(Len(s), Len(q))'
    BY <2>1, WorkerMoves
  <2>3. Keepers(Q)'
    BY <1>0, <1>1, <2>1, <2>2, SMTT(20) DEF Keepers, Kept
  <2> QED
    BY <1>0, <2>2, <2>3, HttpDone
<1>3. CASE Pop("loop")
  <2>1. DOMAIN pc = Thread /\ blk \in [Thread -> Loc] /\ "loop" \notin InPop \cup {"popped"}
    BY <1>0 DEF MemInv, MemType, InPop
  <2>2. PICK q2 : RingInv(q2)' /\ PopEffect("loop", q, q2)
    BY <1>0, <1>3, <2>1, PopKeeps, Zenon
  <2>3. [Fifo!Next]_Fifo!vars /\ UNCHANGED <<freeList, cur, nxt>> /\ DOMAIN pc' = Thread
    BY <1>0, <1>3, <2>1, PopKeeps, Zenon
  <2>4. /\ Others(Consumer) /\ blk' \in [Thread -> Loc]
        /\ pc[Consumer] \in InPop /\ pc'[Consumer] \in {"loop", "fetch", "advance", "popped"}
    BY <2>2 DEF PopEffect, InPop
  <2>5. pc'[Producer] = pc[Producer] /\ blk'[Producer] = blk[Producer] /\ Idle'
    BY <1>0, <2>4, TwoEnds, IdleKeeps DEF Others
  <2>6. MemInv(s)'
    BY <1>0, <1>1, <2>3, <2>4, MemoryKeeps DEF InPop
  <2>7. HttpPlaces'
    BY <1>0, <1>1, <2>4, <2>5 DEF HttpPlaces, InPop
  <2>8. CASE pc'[Consumer] = "popped"
    <3>1. q # <<>> /\ blk' = blk /\ blk[Consumer] = Head(q) /\ q2 = Tail(q)
      BY <2>2, <2>8 DEF PopEffect
    <3> PICK Q2, m2, b : Q2 = Elems(q2) /\ m2 = Len(q2) /\ b = blk'[Consumer]
      BY Zenon
    <3>2. /\ b \in Q /\ Q2 = Q \ {b} /\ Once(q2) /\ m2 = m - 1 /\ m2 \in Nat /\ n \in Nat
          /\ m \in Nat /\ b \in Block
      BY <1>0, <3>1, TailOnce, SMTT(20) DEF HttpSum
    <3>3. /\ Taken(b, F, Q, n, m, F, Q2, n, m2)
          /\ pc[Consumer] \notin HoldsAt /\ pc'[Consumer] \in HoldsAt
      BY <2>4, <2>8, <3>2 DEF Taken, HoldsAt, InPop
    <3>4. HttpBlocks(F, Q2)' /\ HttpSum(n, m2)'
      BY <1>0, <2>4, <3>2, <3>3, HoldingTakes
    <3>5. Keepers(Q2)'
      <4>1. /\ \A a \in Q2 : connection[a] \in open \ {client_fd}
            /\ \A a, d \in Q2 : connection[a] = connection[d] => a = d
            /\ connection[b] \in open \ {client_fd}
            /\ \A a \in Q2 : connection[a] # connection[b]
        BY <1>0, <3>2 DEF Keepers
      <4>2. \A c \in open : Kept(c, Q2)'
        BY <1>0, <1>1, <2>4, <2>8, <3>2, SMTT(20) DEF Keepers, Kept, InPop
      <4> QED
        BY <1>0, <1>1, <2>5, <4>1, <4>2 DEF Keepers
    <3> QED
      BY <2>2, <2>3, <2>5, <2>6, <2>7, <3>2, <3>4, <3>5, HttpDone
  <2>9. CASE pc'[Consumer] # "popped"
    <3>1. q2 = q
      BY <2>2, <2>9 DEF PopEffect
    <3>2. pc[Consumer] \notin HoldsAt /\ pc'[Consumer] \notin HoldsAt /\ pc[Consumer] # "popped"
      BY <2>4, <2>9 DEF HoldsAt, InPop
    <3>3. HttpBlocks(F, Q)' /\ HttpSum(n, m)'
      BY <1>0, <2>4, <3>2, HoldingStays
    <3>4. Keepers(Q)'
      BY <1>0, <1>1, <2>5, <2>9, <3>2, SMTT(20) DEF Keepers, Kept
    <3> QED
      BY <1>0, <2>2, <2>3, <2>5, <2>6, <2>7, <3>1, <3>3, <3>4, HttpDone
  <2> QED
    BY <2>8, <2>9
<1> QED
  BY <1>2, <1>3 DEF WorkerLoop

\* Every step of the gateway and its worker keeps the invariant.
LEMMA HttpKeeps ==
    ASSUME NEW s, NEW q, HttpState(s, q), Next
    PROVE  HttpStep
<1>1. CASE Gateway
  BY <1>1, AcceptLoopKeeps, ReceiveKeeps, AllocateKeepsHttp, ParseRequestKeeps, PushEventKeeps,
     DeallocateKeepsHttp, SendErrorKeeps DEF Gateway, Ends
<1>2. CASE Worker
  BY <1>2, WorkerLoopKeeps, OnKeeps, DeallocateKeepsHttp, OnReturnsKeeps DEF Worker, Ends
<1> QED
  BY <1>1, <1>2, MainKeeps DEF Next

----------------------------------------------------------------------------
\* The load generator.
LoadState(s, q) == MemInv(s) /\ RingInv(q) /\ Idle /\ LoadInv(Elems(s), Len(s))
LoadStep == (\E s, q : LoadState(s, q)') /\ [Fifo!Next]_Fifo!vars

\* The parts make up a step.
LEMMA LoadDone ==
    ASSUME NEW s, NEW q, MemInv(s)', RingInv(q)', Idle', LoadPlaces', Magazine',
           NEW A, A = Elems(ammo'), NEW k, k = Len(ammo'),
           LoadHolds(Elems(s), A, Len(s), k)', [Fifo!Next]_Fifo!vars
    PROVE  LoadStep
BY DEF LoadStep, LoadState, LoadInv, Elems

\* The generator goes on with the block it holds, or holds none before and after.
LEMMA LoadStays ==
    ASSUME NEW F, NEW A, NEW n, NEW k, LoadHolds(F, A, n, k),
           \/ /\ pc[Producer] \notin ArmsAt \/ blk[Producer] = END_OF_LIST
              /\ pc'[Producer] \notin ArmsAt \/ blk'[Producer] = END_OF_LIST
           \/ /\ pc[Producer] \in ArmsAt /\ pc'[Producer] \in ArmsAt
              /\ blk'[Producer] = blk[Producer],
           pc'[Producer] \in ArmsAt => blk'[Producer] \in Block \/ pc'[Producer] = "allocated"
    PROVE  LoadHolds(F, A, n, k)'
<1>1. Held(Producer, ArmsAt)' = Held(Producer, ArmsAt)
      /\ Size(Producer, ArmsAt)' = Size(Producer, ArmsAt)
  BY DEF Held, Size
<1> QED
  BY <1>1 DEF LoadHolds

\* It takes a block out of the free list or out of the magazine.
LEMMA LoadTakes ==
    ASSUME NEW F, NEW A, NEW n, NEW k, LoadHolds(F, A, n, k),
           pc[Producer] \notin ArmsAt \/ blk[Producer] = END_OF_LIST, pc'[Producer] \in ArmsAt,
           NEW F2, NEW A2, NEW n2 \in Nat, NEW k2 \in Nat,
           Taken(blk'[Producer], F, A, n, k, F2, A2, n2, k2)
    PROVE  LoadHolds(F2, A2, n2, k2)'
<1>0. blk'[Producer] \in Block /\ blk'[Producer] # END_OF_LIST
  BY NoBlock DEF Taken, LoadHolds, Parted
<1>1. /\ Held(Producer, ArmsAt) = {} /\ Size(Producer, ArmsAt) = 0
      /\ Held(Producer, ArmsAt)' = {blk'[Producer]} /\ Size(Producer, ArmsAt)' = 1
  BY <1>0 DEF Held, Size
<1>2. Parted(F2, A2, {blk'[Producer]})
  BY <1>1 DEF LoadHolds, Parted, Taken
<1>3. n2 + k2 + 1 = Blocks
  BY <1>1 DEF LoadHolds, Taken
<1> QED
  BY <1>0, <1>1, <1>2, <1>3 DEF LoadHolds

\* It puts its block into the free list or into the magazine.
LEMMA LoadGives ==
    ASSUME NEW F, NEW A, NEW n, NEW k, LoadHolds(F, A, n, k),
           pc[Producer] \in ArmsAt, blk[Producer] \in Block, pc'[Producer] \notin ArmsAt,
           NEW F2, NEW A2, NEW n2 \in Nat, NEW k2 \in Nat,
           Given(blk[Producer], F, A, n, k, F2, A2, n2, k2)
    PROVE  LoadHolds(F2, A2, n2, k2)'
<1>1. /\ Held(Producer, ArmsAt)' = {} /\ Size(Producer, ArmsAt)' = 0
      /\ Held(Producer, ArmsAt) = {blk[Producer]} /\ Size(Producer, ArmsAt) = 1
  BY NoBlock DEF Held, Size
<1>2. Parted(F2, A2, {})
  BY <1>1 DEF LoadHolds, Parted, Given
<1>3. n2 + k2 + 0 = Blocks
  BY <1>1 DEF LoadHolds, Given
<1> QED
  BY <1>1, <1>2, <1>3 DEF LoadHolds

\* What is known before a step, spelled out.
LEMMA LoadFacts ==
    ASSUME NEW s, NEW q, LoadState(s, q)
    PROVE  /\ MemInv(s) /\ RingInv(q) /\ Idle /\ LoadPlaces /\ Magazine
           /\ LoadHolds(Elems(s), Elems(ammo), Len(s), Len(ammo))
           /\ DOMAIN pc = Thread /\ blk \in [Thread -> Loc] /\ Producer \in Ends /\ Consumer \in Ends
           /\ Len(s) \in 0 .. Blocks /\ Len(s) \in Nat /\ Len(ammo) \in Nat
<1>1. /\ MemInv(s) /\ RingInv(q) /\ Idle /\ LoadPlaces /\ Magazine
      /\ LoadHolds(Elems(s), Elems(ammo), Len(s), Len(ammo))
  BY DEF LoadState, LoadInv
<1>2. DOMAIN pc = Thread /\ blk \in [Thread -> Loc] /\ Producer \in Ends /\ Consumer \in Ends
  BY <1>1, TwoEnds DEF MemInv, MemType, Ends
<1> PICK n, k : n = Len(s) /\ k = Len(ammo)
  BY Zenon
<1>3. n \in 0 .. Blocks /\ n \in Nat /\ k \in Nat
  <2>1. Size(Producer, ArmsAt) \in Nat /\ n \in Nat /\ k \in Nat
        /\ n + k + Size(Producer, ArmsAt) = Blocks
    BY <1>1 DEF Size, LoadHolds
  <2> QED
    BY <2>1, BlocksAssumption
<1> QED
  BY <1>1, <1>2, <1>3

\* Where the generator may go outside the calls.
GeneratorAt == {"arm", "alloc", "fire", "push", "destroy", "exit", "free"}

\* A step of the generator outside the calls keeps what is not said of its blocks.
LEMMA GeneratorMoves ==
    ASSUME NEW s, NEW q, LoadState(s, q), NEW from, NEW to, NEW b \in Loc, At(Producer, from, to),
           blk' = [blk EXCEPT ![Producer] = b], Outside(s, Producer, from, to, b),
           UNCHANGED <<freeList, cur, nxt, free_count, ring, pinned>>, UNCHANGED network,
           to \in GeneratorAt
    PROVE  /\ MemInv(s)' /\ RingInv(q)' /\ Idle' /\ [Fifo!Next]_Fifo!vars /\ LoadPlaces'
           /\ pc[Producer] = from /\ pc'[Producer] = to /\ blk'[Producer] = b
<1>0. MemInv(s) /\ RingInv(q) /\ Idle /\ LoadPlaces /\ Producer \in Ends
  BY LoadFacts
<1>1. /\ MemInv(s)' /\ RingInv(q)' /\ Idle' /\ [Fifo!Next]_Fifo!vars
      /\ Others(Producer) /\ pc[Producer] = from /\ pc'[Producer] = to /\ blk'[Producer] = b
  BY <1>0, PlainKeeps
<1>2. pc'[Consumer] = pc[Consumer] /\ blk'[Consumer] = blk[Consumer]
  BY <1>1, TwoEnds DEF Others
<1>3. LoadPlaces'
  BY <1>0, <1>1, <1>2 DEF LoadPlaces, network, ArmsAt, InPush, GeneratorAt
<1> QED
  BY <1>1, <1>3

\* The same when it keeps its block.
LEMMA GeneratorStays ==
    ASSUME NEW s, NEW q, LoadState(s, q), NEW from, NEW to, At(Producer, from, to),
           Outside(s, Producer, from, to, blk[Producer]),
           UNCHANGED <<memory, ring, pinned>>, UNCHANGED network,
           to \in GeneratorAt
    PROVE  /\ MemInv(s)' /\ RingInv(q)' /\ Idle' /\ [Fifo!Next]_Fifo!vars /\ LoadPlaces'
           /\ pc[Producer] = from /\ pc'[Producer] = to /\ blk'[Producer] = blk[Producer]
<1>0. blk \in [Thread -> Loc] /\ Producer \in Thread
  BY LoadFacts, TwoEnds
<1> PICK b : b = blk[Producer]
  BY Zenon
<1>1. b \in Loc /\ blk' = [blk EXCEPT ![Producer] = b]
  BY <1>0 DEF memory, registers
<1>2. UNCHANGED <<freeList, cur, nxt, free_count, ring, pinned>>
  BY DEF memory, registers
<1>3. Outside(s, Producer, from, to, b)
  BY Zenon
<1> QED
  BY <1>1, <1>2, <1>3, GeneratorMoves

\* A step of allocate() in the generator.
LEMMA LoadAllocateKeeps ==
    ASSUME NEW s, NEW q, LoadState(s, q), AllocateStep(Producer), UNCHANGED <<ring, pinned>>,
           UNCHANGED network, UNCHANGED <<ammo, fired, total_events_to_send>>
    PROVE  LoadStep
<1> PICK F, A, n, k : F = Elems(s) /\ A = Elems(ammo) /\ n = Len(s) /\ k = Len(ammo)
  BY Zenon
<1>0. /\ MemInv(s) /\ RingInv(q) /\ Idle /\ LoadPlaces /\ Magazine /\ LoadHolds(F, A, n, k)
      /\ Producer \in Ends /\ Len(s) \in 0 .. Blocks /\ n \in Nat /\ k \in Nat
  BY LoadFacts
<1>1. PICK s2 : MemInv(s2)' /\ AllocateEffect(Elems(s), Elems(s2), Len(s), Len(s2))
  BY <1>0, AllocateKeeps
<1> PICK F2, n2 : F2 = Elems(s2) /\ n2 = Len(s2)
  BY Zenon
<1>2. AllocateEffect(F, F2, n, n2) /\ Others(Producer) /\ n2 \in Nat
  BY <1>1, ElemsAreBlocks DEF AllocateEffect, MemInv, ListOf
<1>3. /\ pc[Producer] \in {"alloc", "next", "take", "count_taken"}
      /\ pc'[Producer] \in {"next", "take", "count_taken", "allocated"}
  BY <1>2 DEF AllocateEffect
<1>4. pc'[Consumer] = pc[Consumer] /\ blk'[Consumer] = blk[Consumer] /\ Idle'
  BY <1>0, <1>2, TwoEnds, IdleKeeps DEF Others
<1>5. RingInv(q)' /\ [Fifo!Next]_Fifo!vars
  BY <1>0, <1>2, <1>3, TwoEnds, RingKeeps DEF InPush
<1>6. LoadPlaces' /\ Magazine'
  <2>1. LoadPlaces'
    BY <1>0, <1>3, <1>4 DEF LoadPlaces, network, ArmsAt
  <2>2. Magazine'
    BY <1>0, <1>3 DEF Magazine, InPush, Once
  <2> QED
    BY <2>1, <2>2
<1>7. LoadHolds(F2, A, n2, k)'
  <2>1. CASE /\ pc[Producer] = "take" /\ blk'[Producer] \in F
             /\ pc'[Producer] \in {"count_taken", "allocated"}
             /\ F2 = F \ {blk'[Producer]} /\ n2 = n - 1
    <3>1. /\ pc[Producer] \notin ArmsAt /\ pc'[Producer] \in ArmsAt
          /\ Taken(blk'[Producer], F, A, n, k, F2, A, n2, k)
      BY <2>1 DEF ArmsAt, Taken
    <3> QED
      BY <1>0, <1>2, <3>1, LoadTakes
  <2>2. CASE pc'[Producer] \in {"next", "take"} /\ F2 = F /\ n2 = n
    BY <1>0, <1>2, <1>3, <2>2, LoadStays DEF ArmsAt, AllocateEffect
  <2>3. CASE /\ pc[Producer] = "next" /\ pc'[Producer] = "allocated"
             /\ blk'[Producer] = END_OF_LIST /\ F2 = F /\ n2 = n
    BY <1>0, <2>3, LoadStays DEF ArmsAt
  <2>4. CASE /\ pc[Producer] = "count_taken" /\ pc'[Producer] = "allocated"
             /\ blk' = blk /\ F2 = F /\ n2 = n
    BY <1>0, <2>4, LoadStays DEF ArmsAt
  <2> QED
    BY <1>2, <2>1, <2>2, <2>3, <2>4 DEF AllocateEffect
<1> QED
  BY <1>1, <1>4, <1>5, <1>6, <1>7, LoadDone

\* A step of deallocate() in the generator.
LEMMA LoadDeallocateKeeps ==
    ASSUME NEW s, NEW q, LoadState(s, q), DeallocateStep(Producer), UNCHANGED <<ring, pinned>>,
           UNCHANGED network, UNCHANGED <<ammo, fired, total_events_to_send>>
    PROVE  LoadStep
<1> PICK F, A, n, k : F = Elems(s) /\ A = Elems(ammo) /\ n = Len(s) /\ k = Len(ammo)
  BY Zenon
<1>0. /\ MemInv(s) /\ RingInv(q) /\ Idle /\ LoadPlaces /\ Magazine /\ LoadHolds(F, A, n, k)
      /\ Producer \in Ends /\ Len(s) \in 0 .. Blocks /\ n \in Nat /\ k \in Nat
  BY LoadFacts
<1>1. PICK s2 : MemInv(s2)' /\ DeallocateEffect(Producer, Elems(s), Elems(s2), Len(s), Len(s2))
  BY <1>0, DeallocateKeeps
<1> PICK F2, n2 : F2 = Elems(s2) /\ n2 = Len(s2)
  BY Zenon
<1>2. DeallocateEffect(Producer, F, F2, n, n2) /\ Others(Producer) /\ n2 \in Nat
  BY <1>1, ElemsAreBlocks DEF DeallocateEffect, MemInv, ListOf
<1>3. /\ pc[Producer] \in {"free", "link", "give", "count_given"}
      /\ pc'[Producer] \in {"link", "give", "count_given", "freed"}
  BY <1>2 DEF DeallocateEffect
<1>4. pc'[Consumer] = pc[Consumer] /\ blk'[Consumer] = blk[Consumer] /\ Idle'
  BY <1>0, <1>2, TwoEnds, IdleKeeps DEF Others
<1>5. RingInv(q)' /\ [Fifo!Next]_Fifo!vars
  BY <1>0, <1>2, <1>3, TwoEnds, RingKeeps DEF InPush
<1>6. LoadPlaces' /\ Magazine'
  <2>1. LoadPlaces'
    BY <1>0, <1>3, <1>4 DEF LoadPlaces, network, ArmsAt
  <2>2. Magazine'
    BY <1>0, <1>3 DEF Magazine, InPush, Once
  <2> QED
    BY <2>1, <2>2
<1>7. LoadHolds(F2, A, n2, k)'
  <2>1. pc[Producer] \in {"free", "link", "give"} => blk[Producer] \in Block
    BY <1>0 DEF LoadHolds, ArmsAt
  <2>2. CASE /\ pc[Producer] = "give" /\ pc'[Producer] \in {"count_given", "freed"}
             /\ F2 = F \cup {blk[Producer]} /\ n2 = n + 1
    <3>1. /\ pc[Producer] \in ArmsAt /\ pc'[Producer] \notin ArmsAt /\ blk[Producer] \in Block
          /\ Given(blk[Producer], F, A, n, k, F2, A, n2, k)
      BY <2>1, <2>2 DEF ArmsAt, Given
    <3> QED
      BY <1>0, <1>2, <3>1, LoadGives
  <2>3. CASE /\ pc[Producer] \in {"free", "link", "give"} /\ pc'[Producer] \in {"link", "give"}
             /\ blk' = blk /\ F2 = F /\ n2 = n
    BY <1>0, <2>1, <2>3, LoadStays DEF ArmsAt
  <2>4. CASE pc[Producer] = "count_given" /\ pc'[Producer] = "freed" /\ F2 = F /\ n2 = n
    BY <1>0, <2>4, LoadStays DEF ArmsAt
  <2> QED
    BY <1>2, <2>2, <2>3, <2>4 DEF DeallocateEffect
<1> QED
  BY <1>1, <1>4, <1>5, <1>6, <1>7, LoadDone

\* arm_weapon(): every block it gets goes into the magazine.
LEMMA ArmWeaponKeeps ==
    ASSUME NEW s, NEW q, LoadState(s, q), ArmWeapon, UNCHANGED network
    PROVE  LoadStep
<1> PICK F, A, n, k : F = Elems(s) /\ A = Elems(ammo) /\ n = Len(s) /\ k = Len(ammo)
  BY Zenon
<1>0. /\ LoadPlaces /\ Magazine /\ LoadHolds(F, A, n, k)
      /\ blk[Producer] \in Loc /\ n \in Nat /\ k \in Nat
  BY LoadFacts, TwoEnds
<1>1. UNCHANGED <<ring, pinned>> /\ UNCHANGED <<fired, total_events_to_send>>
  BY DEF ArmWeapon
<1>2. CASE /\ At(Producer, "arm", IF Len(ammo) < total_events_to_send THEN "alloc" ELSE "fire")
           /\ UNCHANGED <<memory, ammo>>
  <2> PICK to : to = IF k < total_events_to_send THEN "alloc" ELSE "fire"
    BY Zenon
  <2>1. At(Producer, "arm", to) /\ to \in {"alloc", "fire"} /\ UNCHANGED <<memory, ring, pinned>>
    BY <1>1, <1>2
  <2>2. Outside(s, Producer, "arm", to, blk[Producer]) /\ to \in GeneratorAt
    BY <2>1, TwoEnds DEF Outside, InPush, InPop, GeneratorAt
  <2>3. /\ MemInv(s)' /\ RingInv(q)' /\ Idle' /\ [Fifo!Next]_Fifo!vars /\ LoadPlaces'
        /\ pc[Producer] = "arm" /\ pc'[Producer] = to /\ blk'[Producer] = blk[Producer]
    BY <2>1, <2>2, GeneratorStays
  <2>4. Magazine'
    <3>1. to = "fire" => k >= total_events_to_send
      BY <1>0 DEF Magazine
    <3> QED
      BY <1>0, <1>1, <1>2, <2>1, <2>3, <3>1 DEF Magazine, InPush, Once
  <2>5. LoadHolds(F, A, n, k)'
    BY <1>0, <2>1, <2>3, LoadStays DEF ArmsAt
  <2> QED
    BY <1>2, <2>3, <2>4, <2>5, LoadDone
<1>3. CASE AllocateStep(Producer) /\ UNCHANGED ammo
  BY <1>1, <1>3, LoadAllocateKeeps
<1>4. CASE /\ At(Producer, "allocated", IF blk[Producer] = END_OF_LIST THEN "destroy" ELSE "arm")
           /\ ammo' = IF blk[Producer] = END_OF_LIST THEN ammo ELSE Append(ammo, blk[Producer])
           /\ blk' = [blk EXCEPT ![Producer] = END_OF_LIST]
           /\ UNCHANGED <<freeList, cur, nxt, free_count>>
  <2> PICK to, b : /\ to = IF blk[Producer] = END_OF_LIST THEN "destroy" ELSE "arm"
                   /\ b = blk[Producer]
    BY Zenon
  <2>1. /\ At(Producer, "allocated", to) /\ to \in {"destroy", "arm"}
        /\ UNCHANGED <<freeList, cur, nxt, free_count, ring, pinned>> /\ END_OF_LIST \in Loc
    BY <1>1, <1>4 DEF Loc
  <2>2. Outside(s, Producer, "allocated", to, END_OF_LIST) /\ to \in GeneratorAt
    BY <2>1, TwoEnds DEF Outside, InPush, InPop, GeneratorAt
  <2>3. /\ MemInv(s)' /\ RingInv(q)' /\ Idle' /\ [Fifo!Next]_Fifo!vars /\ LoadPlaces'
        /\ pc[Producer] = "allocated" /\ pc'[Producer] = to /\ blk'[Producer] = END_OF_LIST
    BY <1>4, <2>1, <2>2, GeneratorMoves
  <2>4. CASE b = END_OF_LIST
    <3>1. ammo' = ammo
      BY <1>4, <2>4
    <3>2. Magazine'
      BY <1>0, <1>1, <2>1, <2>3, <3>1 DEF Magazine, InPush, Once
    <3>3. LoadHolds(F, A, n, k)'
      BY <1>0, <2>1, <2>3, <2>4, LoadStays DEF ArmsAt
    <3> QED
      BY <2>3, <3>1, <3>2, <3>3, LoadDone
  <2>5. CASE b # END_OF_LIST
    <3>1. b \in Block /\ ammo' = Append(ammo, b) /\ ammo \in Seq(Block) /\ Once(ammo)
      BY <1>0, <1>4, <2>5 DEF Loc, Magazine
    <3>2. b \notin A
      BY <1>0, <2>3, <2>5 DEF LoadHolds, Parted, Held, ArmsAt
    <3> PICK A2, k2 : A2 = Elems(ammo') /\ k2 = Len(ammo')
      BY Zenon
    <3>3. ammo' \in Seq(Block) /\ Once(ammo') /\ A2 = A \cup {b} /\ k2 = k + 1
      BY <3>1, <3>2, AppendOnce
    <3>4. Magazine'
      BY <1>0, <1>1, <2>1, <2>3, <3>3 DEF Magazine, InPush, Once
    <3>5. /\ pc[Producer] \in ArmsAt /\ pc'[Producer] \notin ArmsAt /\ k2 \in Nat
          /\ Given(blk[Producer], F, A, n, k, F, A2, n, k2)
      BY <1>0, <2>1, <2>3, <3>3, SMTT(20) DEF ArmsAt, Given
    <3>6. LoadHolds(F, A2, n, k2)'
      BY <1>0, <3>1, <3>5, LoadGives
    <3> QED
      BY <2>3, <3>4, <3>6, LoadDone
  <2> QED
    BY <2>4, <2>5
<1> QED
  BY <1>2, <1>3, <1>4 DEF ArmWeapon

\* ~load_generator() takes its events out of the magazine one by one.
LEMMA DestroyKeeps ==
    ASSUME NEW s, NEW q, LoadState(s, q), Destroy, UNCHANGED network
    PROVE  LoadStep
<1> PICK F, A, n, k : F = Elems(s) /\ A = Elems(ammo) /\ n = Len(s) /\ k = Len(ammo)
  BY Zenon
<1>0. /\ LoadPlaces /\ Magazine /\ LoadHolds(F, A, n, k) /\ n \in Nat /\ k \in Nat
  BY LoadFacts
<1>1. UNCHANGED <<ring, pinned>> /\ UNCHANGED <<fired, total_events_to_send>>
  BY DEF Destroy
<1>2. CASE /\ At(Producer, "destroy", IF ammo = <<>> THEN "exit" ELSE "free")
           /\ ammo' = IF ammo = <<>> THEN ammo ELSE Tail(ammo)
           /\ blk' = [blk EXCEPT ![Producer] = IF ammo = <<>> THEN END_OF_LIST ELSE Head(ammo)]
           /\ UNCHANGED <<freeList, cur, nxt, free_count>>
  <2>1. UNCHANGED <<freeList, cur, nxt, free_count, ring, pinned>>
    BY <1>1, <1>2
  <2>2. CASE ammo = <<>>
    <3>1. /\ At(Producer, "destroy", "exit") /\ ammo' = ammo
          /\ blk' = [blk EXCEPT ![Producer] = END_OF_LIST] /\ END_OF_LIST \in Loc
      BY <1>2, <2>2 DEF Loc
    <3>2. Outside(s, Producer, "destroy", "exit", END_OF_LIST) /\ "exit" \in GeneratorAt
      BY TwoEnds DEF Outside, InPush, InPop, GeneratorAt
    <3>3. /\ MemInv(s)' /\ RingInv(q)' /\ Idle' /\ [Fifo!Next]_Fifo!vars /\ LoadPlaces'
          /\ pc[Producer] = "destroy" /\ pc'[Producer] = "exit"
      BY <2>1, <3>1, <3>2, GeneratorMoves
    <3>4. Magazine'
      BY <1>0, <1>1, <3>1, <3>3 DEF Magazine, InPush, Once
    <3>5. LoadHolds(F, A, n, k)'
      BY <1>0, <3>3, LoadStays DEF ArmsAt
    <3> QED
      BY <3>1, <3>3, <3>4, <3>5, LoadDone
  <2>3. CASE ammo # <<>>
    <3> PICK b, A2, k2 : b = Head(ammo) /\ A2 = Elems(ammo') /\ k2 = Len(ammo')
      BY Zenon
    <3>1. /\ At(Producer, "destroy", "free") /\ ammo' = Tail(ammo)
          /\ blk' = [blk EXCEPT ![Producer] = b]
      BY <1>2, <2>3
    <3>2. /\ ammo' \in Seq(Block) /\ Once(ammo') /\ b \in A /\ A2 = A \ {b} /\ b \in Block
          /\ k2 = k - 1 /\ k2 \in Nat /\ b \in Loc
      BY <1>0, <2>3, <3>1, TailOnce, SMTT(20) DEF Magazine, Loc
    <3>3. Outside(s, Producer, "destroy", "free", b) /\ "free" \in GeneratorAt
      <4>1. b \in Block \ F
        BY <1>0, <3>2 DEF LoadHolds, Parted
      <4>2. \A u \in Ends \ {Producer} : ~Giving(u)
        BY <1>0 DEF Ends, Giving, LoadPlaces, InPop
      <4> QED
        BY <4>1, <4>2, TwoEnds DEF Outside, InPush, InPop, GeneratorAt
    <3>4. /\ MemInv(s)' /\ RingInv(q)' /\ Idle' /\ [Fifo!Next]_Fifo!vars /\ LoadPlaces'
          /\ pc[Producer] = "destroy" /\ pc'[Producer] = "free" /\ blk'[Producer] = b
      <4>1. b \in Loc
        BY <3>2
      <4> QED
        BY <2>1, <3>1, <3>3, <4>1, GeneratorMoves
    <3>5. Magazine'
      BY <1>0, <1>1, <3>2, <3>4 DEF Magazine, InPush, Once
    <3>6. /\ pc[Producer] \notin ArmsAt /\ pc'[Producer] \in ArmsAt
          /\ Taken(blk'[Producer], F, A, n, k, F, A2, n, k2)
      BY <3>2, <3>4 DEF ArmsAt, Taken
    <3>7. LoadHolds(F, A2, n, k2)'
      BY <1>0, <3>2, <3>6, LoadTakes
    <3> QED
      BY <3>4, <3>5, <3>7, LoadDone
  <2> QED
    BY <2>2, <2>3
<1>3. CASE DeallocateStep(Producer) /\ UNCHANGED ammo
  BY <1>1, <1>3, LoadDeallocateKeeps
<1>4. CASE At(Producer, "freed", "destroy") /\ UNCHANGED <<memory, ammo>>
  <2>1. Outside(s, Producer, "freed", "destroy", blk[Producer]) /\ "destroy" \in GeneratorAt
    BY TwoEnds DEF Outside, InPush, InPop, GeneratorAt
  <2>2. UNCHANGED <<memory, ring, pinned>>
    BY <1>1, <1>4
  <2>3. /\ MemInv(s)' /\ RingInv(q)' /\ Idle' /\ [Fifo!Next]_Fifo!vars /\ LoadPlaces'
        /\ pc[Producer] = "freed" /\ pc'[Producer] = "destroy"
    BY <1>4, <2>1, <2>2, GeneratorStays
  <2>4. Magazine'
    BY <1>0, <1>1, <1>4, <2>3 DEF Magazine, InPush, Once
  <2>5. LoadHolds(F, A, n, k)'
    BY <1>0, <2>3, LoadStays DEF ArmsAt
  <2> QED
    BY <1>4, <2>3, <2>4, <2>5, LoadDone
<1> QED
  BY <1>2, <1>3, <1>4 DEF Destroy

\* fire(): the ring gets events of the magazine, which stay in it.
LEMMA FireKeeps ==
    ASSUME NEW s, NEW q, LoadState(s, q), Fire, UNCHANGED network
    PROVE  LoadStep
<1> PICK F, A, n, k : F = Elems(s) /\ A = Elems(ammo) /\ n = Len(s) /\ k = Len(ammo)
  BY Zenon
<1>0. /\ MemInv(s) /\ RingInv(q) /\ Idle /\ LoadPlaces /\ Magazine /\ LoadHolds(F, A, n, k)
      /\ DOMAIN pc = Thread /\ blk \in [Thread -> Loc] /\ Producer \in Ends
      /\ n \in Nat /\ k \in Nat
  BY LoadFacts
<1>1. UNCHANGED <<free_count, pinned>> /\ UNCHANGED <<ammo, total_events_to_send>>
  BY DEF Fire
<1>2. CASE /\ At(Producer, "fire", IF fired < total_events_to_send THEN "push" ELSE "destroy")
           /\ blk' = [blk EXCEPT ![Producer] =
                         IF fired < total_events_to_send THEN ammo[fired + 1] ELSE END_OF_LIST]
           /\ UNCHANGED <<ring, freeList, cur, nxt, fired>>
  <2> PICK to, b :
         /\ to = IF fired < total_events_to_send THEN "push" ELSE "destroy"
         /\ b = IF fired < total_events_to_send THEN ammo[fired + 1] ELSE END_OF_LIST
    BY Zenon
  <2>1. /\ At(Producer, "fire", to) /\ blk' = [blk EXCEPT ![Producer] = b]
        /\ UNCHANGED <<freeList, cur, nxt, free_count, ring, pinned>> /\ UNCHANGED fired
        /\ to \in {"push", "destroy"}
    BY <1>1, <1>2
  <2>2. b \in Loc /\ (to = "push" => b \in Block /\ b \in A)
    <3>1. pc[Producer] = "fire"
      BY <1>2 DEF At
    <3>2. /\ ammo \in Seq(Block) /\ fired \in Nat /\ total_events_to_send \in Nat
          /\ k >= total_events_to_send
      BY <1>0, <3>1 DEF Magazine
    <3>3. ASSUME fired < total_events_to_send PROVE ammo[fired + 1] \in Block /\ ammo[fired + 1] \in A
      <4>1. fired + 1 \in 1 .. Len(ammo)
        BY <1>0, <3>2, <3>3
      <4> QED
        BY <3>2, <4>1 DEF Elems
    <3> QED
      BY <3>3 DEF Loc
  <2>3. Outside(s, Producer, "fire", to, b) /\ to \in GeneratorAt
    BY <2>1, <2>2, TwoEnds DEF Outside, InPush, InPop, GeneratorAt
  <2>4. /\ MemInv(s)' /\ RingInv(q)' /\ Idle' /\ [Fifo!Next]_Fifo!vars /\ LoadPlaces'
        /\ pc[Producer] = "fire" /\ pc'[Producer] = to /\ blk'[Producer] = b
    BY <2>1, <2>2, <2>3, GeneratorMoves
  <2>5. Magazine'
    <3>1. blk'[Producer] \in Elems(ammo)' \/ to # "push"
      BY <1>1, <2>2, <2>4 DEF Elems
    <3> QED
      BY <1>0, <1>1, <2>1, <2>4, <3>1 DEF Magazine, InPush, Once
  <2>6. LoadHolds(F, A, n, k)'
    BY <1>0, <2>1, <2>4, LoadStays DEF ArmsAt
  <2> QED
    BY <1>1, <2>4, <2>5, <2>6, LoadDone
<1>3. CASE Push("fire") /\ UNCHANGED fired
  <2>1. "fire" \notin InPush \cup {"pushed"}
    BY DEF InPush
  <2>2. PICK q2 : RingInv(q2)' /\ PushEffect("fire", q, q2)
    BY <1>0, <1>3, <2>1, PushKeeps, Zenon
  <2>3. [Fifo!Next]_Fifo!vars /\ UNCHANGED <<freeList, registers>> /\ DOMAIN pc' = Thread
    BY <1>0, <1>3, <2>1, PushKeeps, Zenon
  <2>4. /\ Others(Producer) /\ blk' = blk /\ UNCHANGED <<cur, nxt>>
        /\ pc[Producer] \in InPush /\ pc'[Producer] \in {"fire", "store", "publish", "pushed"}
    BY <2>2, <2>3 DEF PushEffect, InPush, registers
  <2>5. pc'[Consumer] = pc[Consumer] /\ Idle'
    BY <1>0, <2>4, TwoEnds, IdleKeeps DEF Others
  <2>6. MemInv(s)'
    BY <1>0, <1>1, <2>3, <2>4, MemoryKeeps DEF InPush
  <2>7. LoadPlaces'
    BY <1>0, <2>4, <2>5 DEF LoadPlaces, network, InPush
  <2>8. Magazine'
    <3>1. blk[Producer] \in Elems(ammo)'
      BY <1>0, <1>1, <2>4 DEF Magazine, Elems
    <3> QED
      BY <1>0, <1>1, <1>3, <2>4, <3>1 DEF Magazine, Once
  <2>9. LoadHolds(F, A, n, k)'
    <3>1. pc[Producer] \notin ArmsAt /\ pc'[Producer] \notin ArmsAt
      BY <2>4 DEF ArmsAt, InPush
    <3> QED
      BY <1>0, <3>1, LoadStays
  <2> QED
    BY <1>1, <2>2, <2>3, <2>5, <2>6, <2>7, <2>8, <2>9, LoadDone
<1>4. CASE /\ At(Producer, "pushed", "fire") /\ fired' = fired + 1
           /\ UNCHANGED <<ring, freeList, registers>>
  <2>1. Outside(s, Producer, "pushed", "fire", blk[Producer]) /\ "fire" \in GeneratorAt
    BY TwoEnds DEF Outside, InPush, InPop, GeneratorAt
  <2>2. UNCHANGED <<memory, ring, pinned>>
    BY <1>1, <1>4 DEF memory
  <2>3. /\ MemInv(s)' /\ RingInv(q)' /\ Idle' /\ [Fifo!Next]_Fifo!vars /\ LoadPlaces'
        /\ pc[Producer] = "pushed" /\ pc'[Producer] = "fire"
    BY <1>4, <2>1, <2>2, GeneratorStays
  <2>4. Magazine'
    BY <1>0, <1>1, <1>4, <2>3, SMTT(20) DEF Magazine, InPush, Once
  <2>5. LoadHolds(F, A, n, k)'
    BY <1>0, <2>3, LoadStays DEF ArmsAt
  <2> QED
    BY <1>1, <2>3, <2>4, <2>5, LoadDone
<1> QED
  BY <1>2, <1>3, <1>4 DEF Fire

\* What pop() returns is a block.
LEMMA HeadIsBlock == \A q \in Seq(Block) : q # <<>> => Head(q) \in Block
  OBVIOUS

\* The sender's steps touch nothing of the generator.
LEMMA SenderKeeps ==
    ASSUME NEW s, NEW q, LoadState(s, q), Sender \/ SenderStop, UNCHANGED network
    PROVE  LoadStep
<1> PICK F, A, n, k : F = Elems(s) /\ A = Elems(ammo) /\ n = Len(s) /\ k = Len(ammo)
  BY Zenon
<1>0. /\ MemInv(s) /\ RingInv(q) /\ Idle /\ LoadPlaces /\ Magazine /\ LoadHolds(F, A, n, k)
      /\ DOMAIN pc = Thread /\ blk \in [Thread -> Loc] /\ Consumer \in Ends
  BY LoadFacts
<1>1. UNCHANGED <<free_count, pinned>> /\ UNCHANGED <<ammo, fired, total_events_to_send>>
  BY DEF Sender, SenderRun, SenderLoop, SenderStop, memory
<1>2. ASSUME pc'[Producer] = pc[Producer], blk'[Producer] = blk[Producer]
      PROVE  Magazine' /\ LoadHolds(F, A, n, k)'
  BY <1>0, <1>1, <1>2 DEF Magazine, LoadHolds, Held, Size, Once, Elems
<1>3. ASSUME NEW from \in {"run", "loop", "popped"}, NEW to \in {"loop", "pop", "exit"},
             At(Consumer, from, to), from = "popped" => to = "loop",
             UNCHANGED <<memory, ring, pinned>>
      PROVE  LoadStep
  <2>1. Outside(s, Consumer, from, to, blk[Consumer])
    BY <1>3, TwoEnds DEF Outside, InPush, InPop
  <2>2. /\ MemInv(s)' /\ RingInv(q)' /\ Idle' /\ [Fifo!Next]_Fifo!vars
        /\ Others(Consumer) /\ pc'[Consumer] = to
    BY <1>0, <1>3, <2>1, PlainKeepsBlock
  <2>3. pc'[Producer] = pc[Producer] /\ blk'[Producer] = blk[Producer]
    BY <2>2, TwoEnds DEF Others
  <2>4. LoadPlaces'
    BY <1>0, <1>3, <2>2, <2>3 DEF LoadPlaces, network, InPop
  <2> QED
    BY <1>1, <1>2, <2>2, <2>3, <2>4, LoadDone
<1>4. CASE SenderRun
  BY <1>1, <1>3, <1>4 DEF SenderRun
<1>5. CASE SenderLoop /\ ~Pop("loop")
  <2>1. PICK to : to = IF is_sending THEN "pop" ELSE "exit"
    BY Zenon
  <2>2. \/ At(Consumer, "loop", to) /\ to \in {"pop", "exit"}
        \/ At(Consumer, "popped", "loop")
    BY <1>5, <2>1 DEF SenderLoop
  <2>3. UNCHANGED <<memory, ring, pinned>>
    BY <1>1, <1>5 DEF SenderLoop, memory
  <2> QED
    BY <1>3, <2>2, <2>3
<1>6. CASE Pop("loop")
  <2>1. "loop" \notin InPop \cup {"popped"}
    BY DEF InPop
  <2>2. PICK q2 : RingInv(q2)' /\ PopEffect("loop", q, q2)
    BY <1>0, <1>6, <2>1, PopKeeps, Zenon
  <2>3. [Fifo!Next]_Fifo!vars /\ UNCHANGED <<freeList, cur, nxt>> /\ DOMAIN pc' = Thread
    BY <1>0, <1>6, <2>1, PopKeeps, Zenon
  <2>4. /\ Others(Consumer) /\ blk' \in [Thread -> Loc]
        /\ pc[Consumer] \in InPop /\ pc'[Consumer] \in {"loop", "fetch", "advance", "popped"}
    BY <2>2 DEF PopEffect, InPop
  <2>5. pc'[Producer] = pc[Producer] /\ blk'[Producer] = blk[Producer] /\ Idle'
    BY <1>0, <2>4, TwoEnds, IdleKeeps DEF Others
  <2>6. MemInv(s)'
    BY <1>0, <1>1, <2>3, <2>4, MemoryKeeps DEF InPop
  <2>7. LoadPlaces'
    <3>1. pc'[Consumer] = "popped" => blk'[Consumer] \in Block
      BY <1>0, <2>2, HeadIsBlock DEF PopEffect, RingInv
    <3> QED
      BY <1>0, <2>4, <2>5, <3>1 DEF LoadPlaces, network, InPop
  <2> QED
    BY <1>1, <1>2, <2>2, <2>3, <2>5, <2>6, <2>7, LoadDone
<1>7. CASE SenderStop
  <2>1. UNCHANGED <<pc, memory, ring, pinned>>
    BY <1>7 DEF SenderStop
  <2>2. MemInv(s)' /\ RingInv(q)' /\ Idle' /\ [Fifo!Next]_Fifo!vars /\ blk' = blk
    BY <1>0, <2>1, StillKeeps
  <2>3. LoadPlaces'
    BY <1>0, <2>1, <2>2 DEF LoadPlaces, network
  <2> QED
    BY <1>1, <1>2, <2>1, <2>2, <2>3, LoadDone
<1> QED
  BY <1>4, <1>5, <1>6, <1>7 DEF Sender

\* Every step of the load generator and its sender keeps the invariant.
LEMMA LoadKeeps ==
    ASSUME NEW s, NEW q, LoadState(s, q), LoadNext, UNCHANGED network
    PROVE  LoadStep
BY ArmWeaponKeeps, FireKeeps, DestroyKeeps, SenderKeeps DEF LoadNext, Generator

----------------------------------------------------------------------------
\* Both programs.

\* The constructor links all the blocks, in order, and the ring is empty.
LEMMA InitialState ==
    ASSUME AllocatorInit, RingInit, NEW a, NEW b, a \in {"none", "arm"}, b \in {"none", "run"},
           DOMAIN pc = Thread, pc[Producer] = a, \A t \in Thread \ {Producer} : pc[t] = b
    PROVE  \E s : /\ MemInv(s) /\ RingInv(<<>>) /\ Idle /\ Fifo!Init
                  /\ Elems(s) = Block /\ Len(s) = Blocks
<1>0. Blocks \in Nat /\ Blocks > 0 /\ FreeListInit /\ (pinned => free_count = Blocks)
  BY BlocksAssumption, SMTT(20) DEF AllocatorInit, PinnedInit
<1> PICK s : s = [k \in 1 .. Blocks |-> k - 1]
  BY Zenon
<1>1. s \in Seq(Block) /\ Len(s) = Blocks /\ \A k \in 1 .. Blocks : s[k] = k - 1
  BY <1>0, SMTT(20) DEF Block
<1>2. Elems(s) = Block /\ Once(s)
  <2>1. ASSUME NEW x \in Block PROVE x \in Elems(s)
    <3>1. x + 1 \in 1 .. Len(s) /\ s[x + 1] = x
      BY <1>0, <1>1, SMTT(20) DEF Block
    <3> QED
      BY <3>1 DEF Elems
  <2>2. Elems(s) \subseteq Block
    BY <1>1, ElemsAreBlocks
  <2>3. Once(s)
    BY <1>0, <1>1, SMTT(20) DEF Once
  <2> QED
    BY <2>1, <2>2, <2>3
<1>3. IsFreeList(s)
  <2>1. head.index = 0 /\ After(s, 0) = 0
    BY <1>0, <1>1, SMTT(20) DEF FreeListInit, After
  <2>2. ASSUME NEW k \in 1 .. Len(s) PROVE link[s[k]] = After(s, k)
    <3>1. s[k] = k - 1 /\ k - 1 \in Block /\ k \in Int /\ k <= Blocks
      BY <1>0, <1>1, SMTT(20) DEF Block
    <3>2. link[k - 1] = IF k - 1 < Blocks - 1 THEN (k - 1) + 1 ELSE END_OF_LIST
      BY <1>0, <3>1 DEF FreeListInit
    <3>3. k < Blocks => s[k + 1] = k
      BY <1>0, <1>1, <3>1, SMTT(20)
    <3> QED
      BY <1>0, <1>1, <3>1, <3>2, <3>3, SMTT(20) DEF After
  <2> QED
    BY <2>1, <2>2 DEF IsFreeList
<1>4. MemType
  <2>1. head \in HeadType /\ NoHead \in HeadType
    BY <1>0, SMTT(20) DEF FreeListInit, HeadType, NoHead, Loc, Block
  <2>2. link \in [Block -> Loc]
    BY <1>0, SMTT(20) DEF FreeListInit, Loc, Block
  <2> QED
    BY <1>0, <2>1, <2>2 DEF MemType, FreeListInit, Loc
<1>5. /\ pc[Producer] \in {"none", "arm"} /\ pc[Consumer] \in {"none", "run"}
      /\ \A t \in Thread \ Ends : pc[t] \in {"none", "run"}
  BY TwoEnds DEF Ends
<1>6. SwapInv(s) /\ CountInv(s)
  <2>1. SwapInv(s)
    BY <1>5 DEF SwapInv, Giving, Ends
  <2>2. Waits(Producer, "count_taken") = 0 /\ Waits(Producer, "count_given") = 0
        /\ Waits(Consumer, "count_given") = 0
    BY <1>5 DEF Waits
  <2>3. Balance(s) = Blocks /\ Wrap(Blocks) = Blocks
    BY <1>0, <1>1, <2>2, SMTT(20) DEF Balance, Wrap
  <2> QED
    BY <1>0, <2>1, <2>3 DEF CountInv
<1>7. Queued = <<>> /\ buffer \in [Slots -> Loc] /\ write_idx \in Slots /\ read_idx \in Slots
  <2>1. buffer \in [Slots -> Loc] /\ write_idx \in Slots /\ read_idx \in Slots /\ read_idx = write_idx
    BY CapacityAssumption, SMTT(20) DEF RingInit, Slots, Loc
  <2>2. Queued \in Seq(Loc) /\ Len(Queued) = 0
    <3>1. Between(buffer, read_idx, write_idx) \in Seq(Loc)
      BY <2>1, BetweenIsSeq
    <3>2. Len(Between(buffer, read_idx, write_idx)) = Count(read_idx, write_idx)
      BY <2>1, BetweenLen
    <3>3. Count(read_idx, write_idx) = 0
      BY <2>1, CountProperties
    <3> QED
      BY <3>1, <3>2, <3>3 DEF Queued
  <2>3. Queued = <<>>
    BY <2>2, SMTT(20)
  <2> QED
    BY <2>1, <2>3
<1>8. RingInv(<<>>)
  BY <1>5, <1>7, SMTT(20) DEF RingInv, InPush
<1>9. Fifo!Init
  BY <1>5, <1>7, SMTT(20) DEF Fifo!Init
<1> QED
  BY <1>1, <1>2, <1>3, <1>4, <1>5, <1>6, <1>8, <1>9 DEF MemInv, ListOf, Idle

\* The invariant holds at first.
LEMMA InitInv == ProgramInit => IInv /\ Fifo!Init
<1>0. Once(<<>>) /\ Elems(<<>>) = {} /\ Len(<<>>) = 0 /\ <<>> \in Seq(Block) /\ Blocks \in Nat
  BY BlocksAssumption DEF Once, Elems
<1>1. ASSUME program = "http", Init PROVE IInv /\ Fifo!Init
  <2>1. /\ AllocatorInit /\ RingInit /\ NetworkInit /\ DOMAIN pc = Thread
        /\ pc[Producer] = "none" /\ \A t \in Thread \ {Producer} : pc[t] = "none"
    BY <1>1, TwoEnds DEF Init
  <2>2. PICK s : /\ MemInv(s) /\ RingInv(<<>>) /\ Idle /\ Fifo!Init
                 /\ Elems(s) = Block /\ Len(s) = Blocks
    BY <2>1, InitialState
  <2>3. pc[Producer] = "none" /\ pc[Consumer] = "none"
    BY <2>1, TwoEnds
  <2>4. HttpPlaces
    BY <2>3 DEF HttpPlaces
  <2>5. HttpBlocks(Block, {}) /\ HttpSum(Blocks, 0)
    BY <1>0, <2>3 DEF HttpBlocks, HttpSum, Parted, Held, Size, HoldsAt
  <2>6. Keepers({})
    BY <2>1, <2>3 DEF Keepers, NetworkInit, ServesAt, InPush
  <2>7. HttpInv(Elems(s), Elems(<<>>), Len(s), Len(<<>>))
    BY <1>0, <2>2, <2>4, <2>5, <2>6 DEF HttpInv
  <2> QED
    BY <1>0, <1>1, <2>2, <2>7 DEF IInv, ProgramInv
<1>2. ASSUME program = "load", LoadInit, NetworkInit PROVE IInv /\ Fifo!Init
  <2>1. /\ AllocatorInit /\ RingInit /\ DOMAIN pc = Thread
        /\ pc[Producer] = "arm" /\ \A t \in Thread \ {Producer} : pc[t] = "run"
    BY <1>2, TwoEnds DEF LoadInit
  <2>2. PICK s : /\ MemInv(s) /\ RingInv(<<>>) /\ Idle /\ Fifo!Init
                 /\ Elems(s) = Block /\ Len(s) = Blocks
    BY <2>1, InitialState, SMTT(20)
  <2>3. pc[Producer] = "arm" /\ pc[Consumer] = "run"
    BY <2>1, TwoEnds
  <2>4. LoadPlaces
    BY <1>2, <2>3 DEF LoadPlaces, NetworkInit
  <2>5. ammo = <<>> /\ fired = 0 /\ total_events_to_send \in Nat
    BY <1>2, EventCountsAssumption DEF LoadInit
  <2>6. Magazine
    BY <1>0, <2>3, <2>5 DEF Magazine, InPush
  <2>7. LoadHolds(Block, {}, Blocks, 0)
    BY <1>0, <2>3 DEF LoadHolds, Parted, Held, Size, ArmsAt
  <2>8. LoadInv(Elems(s), Len(s))
    BY <1>0, <2>2, <2>4, <2>5, <2>6, <2>7 DEF LoadInv
  <2> QED
    BY <1>2, <2>2, <2>8 DEF IInv, ProgramInv
<1> QED
  BY <1>1, <1>2 DEF ProgramInit

\* Every step of either program keeps it, and is a step of the queue or none.
LEMMA StepInv ==
    ASSUME IInv, [ProgramNext]_programVars
    PROVE  IInv' /\ [Fifo!Next]_Fifo!vars
<1>0. PICK s, q : ProgramInv(s, q)
  BY DEF IInv
<1>1. CASE Http(Next)
  <2>1. program = "http" /\ program' = "http" /\ Next
    BY <1>1 DEF Http
  <2>2. HttpState(s, q)
    BY <1>0, <2>1 DEF ProgramInv, HttpState
  <2>3. HttpStep
    BY <2>1, <2>2, HttpKeeps
  <2> QED
    BY <2>1, <2>3 DEF HttpStep, HttpState, IInv, ProgramInv
<1>2. CASE Load(LoadNext)
  <2>1. program = "load" /\ program' = "load" /\ LoadNext /\ UNCHANGED network
    BY <1>2 DEF Load
  <2>2. LoadState(s, q)
    BY <1>0, <2>1 DEF ProgramInv, LoadState
  <2>3. LoadStep
    BY <2>1, <2>2, LoadKeeps
  <2> QED
    BY <2>1, <2>3 DEF LoadStep, LoadState, IInv, ProgramInv
<1>3. CASE UNCHANGED programVars
  <2>1. UNCHANGED <<pc, memory, ring, pinned>> /\ UNCHANGED <<network, main, program, load>>
    BY <1>3 DEF programVars, vars, lifecycle
  <2>2. MemInv(s)' /\ RingInv(q)' /\ Idle' /\ [Fifo!Next]_Fifo!vars /\ blk' = blk
    BY <1>0, <2>1, StillKeeps DEF ProgramInv
  <2>3. ASSUME NEW F, NEW Q, NEW n, NEW m, HttpInv(F, Q, n, m) PROVE HttpInv(F, Q, n, m)'
    <3>1. HttpPlaces' /\ HttpBlocks(F, Q)' /\ HttpSum(n, m)'
      BY <2>1, <2>2, <2>3 DEF HttpInv, HttpPlaces, HttpBlocks, HttpSum, Held, Size
    <3>2. Keepers(Q)'
      BY <2>1, <2>2, <2>3 DEF HttpInv, Keepers, Kept, network
    <3> QED
      BY <3>1, <3>2 DEF HttpInv
  <2>4. ASSUME NEW F, NEW n, LoadInv(F, n) PROVE LoadInv(F, n)'
    <3>1. LoadPlaces' /\ Magazine'
      BY <2>1, <2>2, <2>4 DEF LoadInv, LoadPlaces, Magazine, network, load, Once, Elems
    <3>2. LoadHolds(F, Elems(ammo), n, Len(ammo))'
      BY <2>1, <2>2, <2>4 DEF LoadInv, LoadHolds, Held, Size, load, Elems
    <3> QED
      BY <3>1, <3>2 DEF LoadInv
  <2>5. ProgramInv(s, q)'
    BY <1>0, <2>1, <2>2, <2>3, <2>4 DEF ProgramInv
  <2> QED
    BY <2>2, <2>5 DEF IInv
<1> QED
  BY <1>1, <1>2, <1>3 DEF ProgramNext

\* spsc_ring_buffer, whose indices are reduced to the capacity, is the bounded queue
\* that cre::conduit promises as well, in both programs and for every capacity.
THEOREM RingRefinesFifo == ProgramSpec => RingIsFifo
<1>1. ProgramInit => IInv /\ Fifo!Init
  BY InitInv
<1>2. IInv /\ [ProgramNext]_programVars => IInv' /\ [Fifo!Next]_Fifo!vars
  BY StepInv
<1> QED
  BY <1>1, <1>2, PTL DEF ProgramSpec, RingIsFifo, Fifo!Spec

\* The invariant holds in every reachable state.
LEMMA Invariance == ProgramSpec => []IInv
<1>1. ProgramInit => IInv
  BY InitInv
<1>2. IInv /\ [ProgramNext]_programVars => IInv'
  BY StepInv
<1> QED
  BY <1>1, <1>2, PTL DEF ProgramSpec

----------------------------------------------------------------------------
\* What follows from the invariant.

\* A list that meets no block twice has a block at one position, or nowhere.
LEMMA OnePosition ==
    ASSUME NEW s \in Seq(Block), Once(s), NEW b
    PROVE  /\ b \in Elems(s) => IsSingleton(Positions(s, b))
           /\ b \notin Elems(s) => Positions(s, b) = {}
<1>1. ASSUME b \in Elems(s) PROVE IsSingleton(Positions(s, b))
  <2>1. PICK k \in 1 .. Len(s) : s[k] = b
    BY <1>1 DEF Elems
  <2>2. Positions(s, b) = {k}
    BY <2>1 DEF Positions, Once
  <2> QED
    BY <2>2 DEF IsSingleton
<1>2. b \notin Elems(s) => Positions(s, b) = {}
  BY DEF Elems, Positions
<1> QED
  BY <1>1, <1>2

\* Only the threads at the ends hold blocks.
LEMMA HoldersAreEnds ==
    ASSUME Idle, NEW places, "none" \notin places, "run" \notin places, NEW b \in Block
    PROVE  /\ Holders(places, b) \subseteq Ends
           /\ \A t \in Ends : t \in Holders(places, b) <=> b \in Held(t, places)
<1>1. Holders(places, b) \subseteq Ends
  BY DEF Holders, Idle
<1>2. \A t \in Ends : t \in Holders(places, b) <=> b \in Held(t, places)
  BY TwoEnds, NoBlock DEF Holders, Held
<1> QED
  BY <1>1, <1>2

\* Of three sets of places, marked apart, one has one place and the others none.
LEMMA OnePlace ==
    ASSUME NEW x, NEW y, NEW z, NEW A, NEW B, NEW C,
           \/ IsSingleton(A) /\ B = {} /\ C = {}
           \/ A = {} /\ IsSingleton(B) /\ C = {}
           \/ A = {} /\ B = {} /\ IsSingleton(C)
    PROVE  IsSingleton(({x} \X A) \cup ({y} \X B) \cup ({z} \X C))
<1>1. ASSUME NEW w, NEW S, IsSingleton(S) PROVE IsSingleton({w} \X S)
  <2>1. PICK e : S = {e}
    BY <1>1 DEF IsSingleton
  <2>2. {w} \X S = {<<w, e>>}
    BY <2>1, SMTT(20)
  <2> QED
    BY <2>2 DEF IsSingleton
<1>2. \A w : {w} \X {} = {}
  OBVIOUS
<1>3. CASE IsSingleton(A) /\ B = {} /\ C = {}
  <2>1. ({x} \X A) \cup ({y} \X B) \cup ({z} \X C) = {x} \X A
    BY <1>2, <1>3
  <2>2. IsSingleton({x} \X A)
    BY <1>1, <1>3
  <2> QED
    BY <2>1, <2>2, Zenon
<1>4. CASE A = {} /\ IsSingleton(B) /\ C = {}
  <2>1. ({x} \X A) \cup ({y} \X B) \cup ({z} \X C) = {y} \X B
    BY <1>2, <1>4
  <2>2. IsSingleton({y} \X B)
    BY <1>1, <1>4
  <2> QED
    BY <2>1, <2>2, Zenon
<1>5. CASE A = {} /\ B = {} /\ IsSingleton(C)
  <2>1. ({x} \X A) \cup ({y} \X B) \cup ({z} \X C) = {z} \X C
    BY <1>2, <1>5
  <2>2. IsSingleton({z} \X C)
    BY <1>1, <1>5
  <2> QED
    BY <2>1, <2>2, Zenon
<1> QED
  BY <1>3, <1>4, <1>5

\* A connection's keepers, when the queue has one or none of them.
OneOf(Q, S, H) ==
    \/ IsSingleton(Q) /\ ~S /\ ~H
    \/ Q = {} /\ S /\ ~H
    \/ Q = {} /\ ~S /\ H

\* Marked apart, they are one in all, or none.
LEMMA OneMark ==
    ASSUME NEW Q, NEW S \in BOOLEAN, NEW H \in BOOLEAN,
           NEW K, K = ({"queued"} \X Q) \cup {k \in {<<"serving", 0>>} : S}
                                       \cup {k \in {<<"handling", 0>>} : H}
    PROVE  /\ OneOf(Q, S, H) => IsSingleton(K)
           /\ Q = {} /\ ~S /\ ~H => K = {}
<1>1. ASSUME IsSingleton(Q), ~S, ~H PROVE IsSingleton(K)
  <2>1. K = {"queued"} \X Q
    BY <1>1
  <2>2. PICK e \in Q : Q = {e}
    BY <1>1 DEF IsSingleton
  <2>3. K = {<<"queued", e>>}
    BY <2>1, <2>2, SMTT(20)
  <2> QED
    BY <2>3 DEF IsSingleton
<1>2. ASSUME Q = {}, S, ~H PROVE IsSingleton(K)
  <2>1. K = {<<"serving", 0>>}
    BY <1>2
  <2> QED
    BY <2>1 DEF IsSingleton
<1>3. ASSUME Q = {}, ~S, H PROVE IsSingleton(K)
  <2>1. K = {<<"handling", 0>>}
    BY <1>3
  <2> QED
    BY <2>1 DEF IsSingleton
<1>4. Q = {} /\ ~S /\ ~H => K = {}
  OBVIOUS
<1> QED
  BY <1>1, <1>2, <1>3, <1>4 DEF OneOf

\* The list is one of FreeLists.
LEMMA ListIsFreeList ==
    ASSUME NEW s, MemInv(s), Len(s) \in 0 .. Blocks
    PROVE  s \in FreeLists
<1>1. s \in Seq(Block) /\ IsFreeList(s)
  BY DEF MemInv, ListOf
<1>2. s \in [1 .. Len(s) -> Block]
  BY <1>1
<1>3. s \in UNION {[1 .. n -> Block] : n \in 0 .. Blocks}
  BY <1>2
<1> QED
  BY <1>1, <1>3 DEF FreeLists

\* The gateway has each block in one place.
LEMMA HttpConserves ==
    ASSUME NEW s, NEW q, HttpState(s, q)
    PROVE  RequestsConserveBlocks
<1> PICK F, Q : F = Elems(s) /\ Q = Elems(q)
  BY Zenon
<1>0. /\ MemInv(s) /\ RingInv(q) /\ Idle /\ Once(q) /\ HttpBlocks(F, Q) /\ Len(s) \in 0 .. Blocks
      /\ s \in Seq(Block) /\ Once(s) /\ q \in Seq(Block) /\ q = Queued
  BY SumBounds DEF HttpState, HttpInv, MemInv, ListOf, RingInv
<1>1. s \in FreeLists
  BY <1>0, ListIsFreeList
<1>2. ASSUME NEW b \in Block
      PROVE  IsSingleton(({"free"} \X Positions(s, b)) \cup ({"queued"} \X Positions(q, b))
                           \cup ({"held"} \X Holders(HoldsAt, b)))
  <2>1. /\ b \in F => IsSingleton(Positions(s, b))
        /\ b \notin F => Positions(s, b) = {}
        /\ b \in Q => IsSingleton(Positions(q, b))
        /\ b \notin Q => Positions(q, b) = {}
    BY <1>0, OnePosition
  <2>2. /\ Holders(HoldsAt, b) \subseteq Ends
        /\ \A t \in Ends : t \in Holders(HoldsAt, b) <=> b \in Held(t, HoldsAt)
    BY <1>0, HoldersAreEnds DEF HoldsAt
  <2> PICK A, B, H : A = Held(Producer, HoldsAt) /\ B = Held(Consumer, HoldsAt)
                     /\ H = Holders(HoldsAt, b)
    BY Zenon
  <2>3. /\ b \in A /\ b \notin B => H = {Producer}
        /\ b \notin A /\ b \in B => H = {Consumer}
        /\ b \notin A /\ b \notin B => H = {}
    BY <2>2, TwoEnds DEF Ends
  <2>4. Parted(F, Q, A \cup B) /\ A \cap B = {}
    BY <1>0 DEF HttpBlocks
  <2>5. \/ b \in F /\ b \notin Q /\ b \notin A /\ b \notin B
        \/ b \notin F /\ b \in Q /\ b \notin A /\ b \notin B
        \/ b \notin F /\ b \notin Q /\ b \in A /\ b \notin B
        \/ b \notin F /\ b \notin Q /\ b \notin A /\ b \in B
    BY <2>4 DEF Parted
  <2>6. IsSingleton({Producer}) /\ IsSingleton({Consumer})
    BY DEF IsSingleton
  <2>7. \/ IsSingleton(Positions(s, b)) /\ Positions(q, b) = {} /\ H = {}
        \/ Positions(s, b) = {} /\ IsSingleton(Positions(q, b)) /\ H = {}
        \/ Positions(s, b) = {} /\ Positions(q, b) = {} /\ IsSingleton(H)
    BY <2>1, <2>3, <2>5, <2>6
  <2> QED
    BY <2>7, OnePlace
<1> QED
  BY <1>0, <1>1, <1>2 DEF RequestsConserveBlocks, HoldsAt

\* The generator has each block in one place.
LEMMA LoadConserves ==
    ASSUME NEW s, NEW q, LoadState(s, q)
    PROVE  AmmoConserved
<1> PICK F, A : F = Elems(s) /\ A = Elems(ammo)
  BY Zenon
<1>0. /\ MemInv(s) /\ Idle /\ Magazine /\ LoadHolds(F, A, Len(s), Len(ammo)) /\ Len(s) \in 0 .. Blocks
  BY LoadFacts
<1>1. s \in FreeLists /\ s \in Seq(Block) /\ Once(s) /\ ammo \in Seq(Block) /\ Once(ammo)
  BY <1>0, ListIsFreeList DEF MemInv, ListOf, Magazine
<1>2. ASSUME NEW b \in Block
      PROVE  IsSingleton(({"free"} \X Positions(s, b)) \cup ({"ammo"} \X Positions(ammo, b))
                           \cup ({"held"} \X (Holders(ArmsAt, b) \cap {Producer})))
  <2>1. /\ b \in F => IsSingleton(Positions(s, b))
        /\ b \notin F => Positions(s, b) = {}
        /\ b \in A => IsSingleton(Positions(ammo, b))
        /\ b \notin A => Positions(ammo, b) = {}
    BY <1>1, OnePosition
  <2>2. /\ Holders(ArmsAt, b) \subseteq Ends
        /\ \A t \in Ends : t \in Holders(ArmsAt, b) <=> b \in Held(t, ArmsAt)
    BY <1>0, HoldersAreEnds DEF ArmsAt
  <2> PICK B, H : B = Held(Producer, ArmsAt) /\ H = Holders(ArmsAt, b) \cap {Producer}
    BY Zenon
  <2>3. (b \in B => H = {Producer}) /\ (b \notin B => H = {})
    BY <2>2 DEF Ends
  <2>4. Parted(F, A, B)
    BY <1>0 DEF LoadHolds
  <2>5. \/ b \in F /\ b \notin A /\ b \notin B
        \/ b \notin F /\ b \in A /\ b \notin B
        \/ b \notin F /\ b \notin A /\ b \in B
    BY <2>4 DEF Parted
  <2>6. IsSingleton({Producer})
    BY DEF IsSingleton
  <2>7. \/ IsSingleton(Positions(s, b)) /\ Positions(ammo, b) = {} /\ H = {}
        \/ Positions(s, b) = {} /\ IsSingleton(Positions(ammo, b)) /\ H = {}
        \/ Positions(s, b) = {} /\ Positions(ammo, b) = {} /\ IsSingleton(H)
    BY <2>1, <2>3, <2>5, <2>6
  <2> QED
    BY <2>7, OnePlace
<1> QED
  BY <1>1, <1>2 DEF AmmoConserved, ArmsAt

\* In both programs, with either allocator and for any number of blocks, every block
\* is in one place: the free list, the ring or the magazine, or with a thread.
THEOREM Conservation == ProgramSpec => []BlocksConserved
<1>1. IInv => BlocksConserved
  <2>1. SUFFICES ASSUME IInv PROVE BlocksConserved
    OBVIOUS
  <2>2. PICK s, q : ProgramInv(s, q)
    BY <2>1 DEF IInv
  <2>3. CASE program = "http" /\ HttpState(s, q)
    BY <2>3, HttpConserves DEF BlocksConserved
  <2>4. CASE program = "load" /\ LoadState(s, q)
    BY <2>4, LoadConserves DEF BlocksConserved
  <2> QED
    BY <2>2, <2>3, <2>4 DEF ProgramInv, HttpState, LoadState
<1> QED
  BY <1>1, Invariance, PTL

\* The counter of the pinned allocator is off by the calls that wait to change it, and
\* by nothing else, for every number of blocks and every modulus above it.
THEOREM CounterAccounted == ProgramSpec => []CountAccounted
<1>1. IInv => CountAccounted
  <2>1. SUFFICES ASSUME IInv, pinned PROVE CountAccounted
    BY DEF CountAccounted
  <2>2. PICK s, q : ProgramInv(s, q)
    BY <2>1 DEF IInv
  <2>3. MemInv(s) /\ Len(s) \in 0 .. Blocks
    <3>1. CASE HttpState(s, q)
      BY <3>1, SumBounds DEF HttpState, HttpInv
    <3>2. CASE LoadState(s, q)
      BY <3>2, LoadFacts
    <3> QED
      BY <2>2, <3>1, <3>2 DEF ProgramInv, HttpState, LoadState
  <2>4. s \in FreeLists /\ free_count = Wrap(Balance(s))
    BY <2>1, <2>3, ListIsFreeList DEF MemInv, CountInv
  <2>5. Waits(Consumer, "count_taken") = 0
    BY <2>3 DEF Waits, MemInv, SwapInv
  <2>6. Wrap(Balance(s)) = Balance(s) % CountModulus
    <3>1. Balance(s) \in -2 .. Blocks + 1
      BY <2>3, BalanceBounds
    <3>2. ASSUME NEW x \in -2 .. Blocks + 1 PROVE Wrap(x) = x % CountModulus
      BY CountAssumption, BlocksAssumption DEF Wrap
    <3> QED
      BY <3>1, <3>2
  <2>7. Balance(s) = Len(s) + Waits(Producer, "count_taken") + Waits(Consumer, "count_taken")
                       - Waits(Producer, "count_given") - Waits(Consumer, "count_given")
    <3>1. /\ Waits(Producer, "count_taken") \in Int /\ Waits(Producer, "count_given") \in Int
          /\ Waits(Consumer, "count_given") \in Int
      BY DEF Waits
    <3> QED
      BY <2>3, <2>5, <3>1 DEF Balance
  <2> QED
    BY <2>4, <2>6, <2>7 DEF CountAccounted, Waits
<1> QED
  BY <1>1, Invariance, PTL

\* The one keeper of an open connection, and none of a closed one.
LEMMA KeepersAreOne ==
    ASSUME NEW q \in Seq(Block), Once(q), q = Queued, Keepers(Elems(q)), NEW c \in Client
    PROVE  /\ c \in open => OneOf(QueuedFor(c), Serving(c), Handling(c))
           /\ c \notin open => QueuedFor(c) = {} /\ ~Serving(c) /\ ~Handling(c)
<1>0. Len(q) \in Nat /\ \A k \in 1 .. Len(q) : q[k] \in Elems(q)
  BY ElemsAreBlocks DEF Elems
<1>1. QueuedFor(c) = {k \in 1 .. Len(q) : connection[q[k]] = c}
  BY DEF QueuedFor
<1> PICK Q : Q = Elems(q)
  BY Zenon
<1>2. /\ client_fd = c => c \in open /\ \A b \in Q : connection[b] # c
      /\ Handling(c) => c \in open /\ client_fd # c /\ \A b \in Q : connection[b] # c
      /\ \A b \in Q : connection[b] = c => c \in open /\ client_fd # c
      /\ \A a, b \in Q : connection[a] = c /\ connection[b] = c => a = b
      /\ c \in open => client_fd = c \/ Handling(c) \/ \E b \in Q : connection[b] = c
  BY ClientAssumption, SMTT(20) DEF Keepers, Kept, Handling
<1>3. (\A b \in Q : connection[b] # c) => QueuedFor(c) = {}
  BY <1>0, <1>1
<1>4. ASSUME NEW b \in Q, connection[b] = c PROVE IsSingleton(QueuedFor(c))
  <2>1. PICK k \in 1 .. Len(q) : q[k] = b
    BY DEF Elems
  <2>2. \A j \in 1 .. Len(q) : connection[q[j]] = c => j = k
    BY <1>0, <1>2, <1>4, <2>1 DEF Once
  <2>3. QueuedFor(c) = {k}
    BY <1>1, <1>4, <2>1, <2>2
  <2> QED
    BY <2>3 DEF IsSingleton
<1>5. CASE c \notin open
  BY <1>2, <1>3, <1>5 DEF Serving
<1>6. CASE c \in open
  BY <1>2, <1>3, <1>4, <1>6 DEF Serving, OneOf
<1> QED
  BY <1>5, <1>6

\* In the load generator there are no connections.
LEMMA NoKeepers ==
    ASSUME NEW s, NEW q, LoadState(s, q), NEW c \in Client
    PROVE  c \notin open /\ QueuedFor(c) = {} /\ ~Serving(c) /\ ~Handling(c)
<1>0. /\ open = {} /\ client_fd = NoClient /\ connection = [b \in Block |-> NoClient]
      /\ q = Queued /\ q \in Seq(Block) /\ c # NoClient
      /\ pc[Consumer] = "popped" => blk[Consumer] \in Block
  BY LoadFacts, ClientAssumption, SMTT(20) DEF LoadPlaces, RingInv
<1>1. QueuedFor(c) = {}
  <2>1. \A k \in 1 .. Len(q) : q[k] \in Block
    BY <1>0
  <2> QED
    BY <1>0, <2>1 DEF QueuedFor
<1> QED
  BY <1>0, <1>1 DEF Serving, Handling

\* An open connection has one keeper, the accept loop, a queued event or the handler,
\* and a closed one has none, for any number of connections and requests.
THEOREM Keeping == ProgramSpec => []OneKeeperEach
<1>1. IInv => OneKeeperEach
  <2>1. SUFFICES ASSUME IInv PROVE OneKeeperEach
    OBVIOUS
  <2>2. PICK s, q : ProgramInv(s, q)
    BY <2>1 DEF IInv
  <2>3. ASSUME NEW c \in Client
        PROVE  /\ c \in open => OneOf(QueuedFor(c), Serving(c), Handling(c))
               /\ c \notin open => QueuedFor(c) = {} /\ ~Serving(c) /\ ~Handling(c)
    <3>1. CASE HttpState(s, q)
      <4>1. q \in Seq(Block) /\ Once(q) /\ q = Queued /\ Keepers(Elems(q))
        BY <3>1 DEF HttpState, HttpInv, RingInv
      <4> QED
        BY <2>3, <4>1, KeepersAreOne
    <3>2. CASE LoadState(s, q)
      BY <2>3, <3>2, NoKeepers
    <3> QED
      BY <2>2, <3>1, <3>2 DEF ProgramInv, HttpState, LoadState
  <2>4. ASSUME NEW c \in Client, NEW K,
               K = ({"queued"} \X QueuedFor(c)) \cup {k \in {<<"serving", 0>>} : Serving(c)}
                                                \cup {k \in {<<"handling", 0>>} : Handling(c)}
        PROVE  IF c \in open THEN IsSingleton(K) ELSE K = {}
    <3> PICK Q, S, H : Q = QueuedFor(c) /\ S = Serving(c) /\ H = Handling(c)
      BY Zenon
    <3>1. S \in BOOLEAN /\ H \in BOOLEAN
      BY DEF Serving, Handling
    <3>2. /\ c \in open => OneOf(Q, S, H)
          /\ c \notin open => Q = {} /\ ~S /\ ~H
      BY <2>3
    <3>3. K = ({"queued"} \X Q) \cup {k \in {<<"serving", 0>>} : S}
                                \cup {k \in {<<"handling", 0>>} : H}
      BY <2>4
    <3>4. CASE c \in open
      BY <3>1, <3>2, <3>3, <3>4, OneMark, SMTT(20)
    <3>5. CASE c \notin open
      BY <3>1, <3>2, <3>3, <3>5, OneMark
    <3> QED
      BY <3>4, <3>5
  <2> QED
    BY <2>4 DEF OneKeeperEach
<1> QED
  BY <1>1, Invariance, PTL

=============================================================================

-------------------------- MODULE SlabMemoryProofs --------------------------
(***************************************************************************)
(* What the programs on the slab allocators rest on, for any number of     *)
(* blocks and any size of the ring: one step of allocate(), deallocate(),  *)
(* push() or pop() keeps the free list, its counter and the ring intact    *)
(* and has one of a few effects, whatever the other thread is at.  The     *)
(* head of one allocator carries no tag; that is enough because one thread *)
(* only takes blocks.                                                      *)
(***************************************************************************)
EXTENDS AllocatorType, SpscRing, TLAPS

\* Time for the prover; a leaf that names another prover goes to that one.
USE ZenonT(3), SMTT(20)

----------------------------------------------------------------------------
\* The invariant.  A list of free blocks and what is in it.
Loc == Block \cup {END_OF_LIST}
Elems(s) == {s[k] : k \in 1 .. Len(s)}
Once(s) == \A j, k \in 1 .. Len(s) : s[j] = s[k] => j = k
ListOf(s) == s \in Seq(Block) /\ Once(s) /\ IsFreeList(s)

HeadType == [aba : Nat, index : Loc]
MemType ==
    /\ head \in HeadType /\ link \in [Block -> Loc]
    /\ cur \in [Thread -> HeadType] /\ nxt \in [Thread -> Loc] /\ blk \in [Thread -> Loc]
    /\ DOMAIN pc = Thread

\* One thread only takes blocks.  So the block that it saw at the head is still in the
\* list, if not at its head, and its link is still the one read; and a block on its way
\* back is in nobody else's hands.
Giving(t) == pc[t] \in {"free", "link", "give"}
Ends == {Producer, Consumer}
SwapInv(s) ==
    /\ pc[Producer] = "next" => cur[Producer].index \in Elems(s) \cup {END_OF_LIST}
    /\ pc[Producer] = "take" =>
          cur[Producer].index \in Elems(s) /\ nxt[Producer] = link[cur[Producer].index]
    /\ pc[Consumer] \notin {"next", "take", "count_taken"}
    /\ \A t \in Ends :
          /\ pc[t] = "give" => link[blk[t]] = cur[t].index
          /\ Giving(t) => blk[t] \in Block \ Elems(s)
    /\ Giving(Producer) /\ Giving(Consumer) => blk[Producer] # blk[Consumer]

\* How many calls of thread t wait at a place, and free_count_ without its modulus.
Waits(t, where) == IF pc[t] = where THEN 1 ELSE 0
Wrap(x) == IF x < 0 THEN x + CountModulus ELSE x
Balance(s) ==
    Len(s) + Waits(Producer, "count_taken")
      - Waits(Producer, "count_given") - Waits(Consumer, "count_given")
CountInv(s) == pinned => free_count = Wrap(Balance(s))

MemInv(s) == MemType /\ ListOf(s) /\ SwapInv(s) /\ CountInv(s)

\* The ring: what push() and pop() found out stays true until they use it.
InPush == {"push", "store", "publish"}
InPop == {"pop", "fetch", "advance"}
RingInv(q) ==
    /\ buffer \in [Slots -> Loc] /\ write_idx \in Slots /\ read_idx \in Slots
    /\ q = Queued /\ q \in Seq(Block)
    /\ pc[Producer] \in InPush => blk[Producer] \in Block
    /\ pc[Producer] \in {"store", "publish"} => Advance(write_idx) # read_idx
    /\ pc[Producer] = "publish" => buffer[write_idx] = blk[Producer]
    /\ pc[Consumer] \in {"fetch", "advance"} => read_idx # write_idx
    /\ pc[Consumer] = "advance" => blk[Consumer] = buffer[read_idx]

\* The threads that are not at the ends of the ring.
Idle == \A t \in Thread \ Ends : pc[t] \in {"none", "run"}

----------------------------------------------------------------------------
\* The threads.

\* What a step of one thread does to pc.
LEMMA AtMoves ==
    ASSUME DOMAIN pc = Thread, NEW t \in Thread, NEW from, NEW to,
           At(t, from, to)
    PROVE  /\ pc[t] = from /\ pc'[t] = to /\ DOMAIN pc' = Thread
           /\ \A u \in Thread \ {t} : pc'[u] = pc[u]
BY Zenon DEF At

\* The two ends of the ring are two threads.
LEMMA TwoEnds ==
    Producer \in Thread /\ Consumer \in Thread /\ Producer # Consumer /\ Ends \subseteq Thread
BY EndsAssumption DEF Ends

\* A thread's other registers stay, one way to say it.
Others(t) == \A u \in Thread \ {t} : pc'[u] = pc[u] /\ blk'[u] = blk[u]

\* The end of a list is no block.
LEMMA NoBlock == END_OF_LIST \notin Block
BY BlocksAssumption DEF END_OF_LIST, Block

----------------------------------------------------------------------------
\* The ring.

\* The mapping to the queue: what each variable of it is.
Pushing == IF pc[Producer] \in InPush THEN blk[Producer] ELSE END_OF_LIST
Accepted == pc[Producer] = "pushed"
Out == IF pc[Consumer] = "popped" THEN blk[Consumer] ELSE END_OF_LIST
Popping == pc[Consumer] \in InPop

\* The steps of the queue, in terms of this mapping.
LEMMA FifoSteps ==
    ASSUME \/ UNCHANGED <<Queued, Pushing, Accepted, Popping, Out>>
           \/ /\ Pushing = END_OF_LIST /\ Pushing' \in Block
              /\ UNCHANGED <<Queued, Accepted, Popping, Out>>
           \/ /\ Pushing \in Block /\ Len(Queued) < Capacity - 1
              /\ Queued' = Append(Queued, Pushing) /\ Pushing' = END_OF_LIST /\ Accepted'
              /\ UNCHANGED <<Popping, Out>>
           \/ /\ Pushing \in Block /\ Len(Queued) = Capacity - 1
              /\ Pushing' = END_OF_LIST /\ ~Accepted' /\ UNCHANGED <<Queued, Popping, Out>>
           \/ ~Popping /\ Popping' /\ UNCHANGED <<Queued, Pushing, Accepted, Out>>
           \/ /\ Popping /\ Queued # <<>> /\ Out' = Head(Queued) /\ Queued' = Tail(Queued)
              /\ ~Popping' /\ UNCHANGED <<Pushing, Accepted>>
           \/ /\ Popping /\ Queued = <<>> /\ Out' = END_OF_LIST
              /\ ~Popping' /\ UNCHANGED <<Queued, Pushing, Accepted>>
           \/ ~Accepted' /\ UNCHANGED <<Queued, Pushing, Popping, Out>>
           \/ Out' = END_OF_LIST /\ UNCHANGED <<Queued, Pushing, Accepted, Popping>>
    PROVE  [Fifo!Next]_Fifo!vars
<1>1. CASE UNCHANGED <<Queued, Pushing, Accepted, Popping, Out>>
  BY <1>1 DEF Fifo!vars, Pushing, Accepted, Popping, Out, InPush, InPop
<1>2. CASE /\ Pushing = END_OF_LIST /\ Pushing' \in Block
           /\ UNCHANGED <<Queued, Accepted, Popping, Out>>
  <2>1. Fifo!StartPush(Pushing')
    BY <1>2 DEF Fifo!StartPush, Pushing, Accepted, Popping, Out, InPush, InPop
  <2> QED
    BY <1>2, <2>1 DEF Fifo!Next
<1>3. CASE /\ Pushing \in Block /\ Len(Queued) < Capacity - 1
           /\ Queued' = Append(Queued, Pushing) /\ Pushing' = END_OF_LIST /\ Accepted'
           /\ UNCHANGED <<Popping, Out>>
  BY <1>3, NoBlock DEF Fifo!Next, Fifo!Accept, Pushing, Accepted, Popping, Out, InPush, InPop
<1>4. CASE /\ Pushing \in Block /\ Len(Queued) = Capacity - 1
           /\ Pushing' = END_OF_LIST /\ ~Accepted' /\ UNCHANGED <<Queued, Popping, Out>>
  BY <1>4, NoBlock DEF Fifo!Next, Fifo!Refuse, Pushing, Accepted, Popping, Out, InPush, InPop
<1>5. CASE ~Popping /\ Popping' /\ UNCHANGED <<Queued, Pushing, Accepted, Out>>
  BY <1>5 DEF Fifo!Next, Fifo!StartPop, Pushing, Accepted, Popping, Out, InPush, InPop
<1>6. CASE /\ Popping /\ Queued # <<>> /\ Out' = Head(Queued) /\ Queued' = Tail(Queued)
           /\ ~Popping' /\ UNCHANGED <<Pushing, Accepted>>
  BY <1>6 DEF Fifo!Next, Fifo!Deliver, Pushing, Accepted, Popping, Out, InPush, InPop
<1>7. CASE /\ Popping /\ Queued = <<>> /\ Out' = END_OF_LIST
           /\ ~Popping' /\ UNCHANGED <<Queued, Pushing, Accepted>>
  BY <1>7 DEF Fifo!Next, Fifo!ComeBackEmpty, Pushing, Accepted, Popping, Out, InPush, InPop
<1>8. CASE ~Accepted' /\ UNCHANGED <<Queued, Pushing, Popping, Out>>
  BY <1>8 DEF Fifo!Next, Fifo!UseResult, Pushing, Accepted, Popping, Out, InPush, InPop
<1>9. CASE Out' = END_OF_LIST /\ UNCHANGED <<Queued, Pushing, Accepted, Popping>>
  BY <1>9 DEF Fifo!Next, Fifo!UseResult, Pushing, Accepted, Popping, Out, InPush, InPop
<1> QED
  BY <1>1, <1>2, <1>3, <1>4, <1>5, <1>6, <1>7, <1>8, <1>9

\* A step elsewhere: a call of push() or pop() may begin, or its result is used.
LEMMA RingKeeps ==
    ASSUME NEW q, RingInv(q), UNCHANGED ring, NEW t \in Ends, Others(t),
           t = Producer => /\ pc[t] \notin InPush /\ pc'[t] \notin {"store", "publish", "pushed"}
                           /\ pc'[t] = "push" => pc[t] # "pushed" /\ blk'[t] \in Block,
           t = Consumer => /\ pc[t] \notin InPop /\ pc'[t] \notin {"fetch", "advance", "popped"}
                           /\ pc'[t] = "pop" => pc[t] # "popped"
    PROVE  RingInv(q)' /\ [Fifo!Next]_Fifo!vars
<1>1. UNCHANGED Queued
  BY DEF Queued, ring
<1>2. CASE t = Producer
  <2>1. /\ pc'[Consumer] = pc[Consumer] /\ blk'[Consumer] = blk[Consumer]
        /\ Popping' = Popping /\ Out' = Out
    BY <1>2, TwoEnds DEF Others, Popping, Out
  <2>2. Pushing = END_OF_LIST /\ ~Accepted'
    BY <1>2 DEF Pushing, Accepted
  <2>3. pc'[Producer] = "push" => Pushing' \in Block /\ Accepted' = Accepted
    BY <1>2 DEF Pushing, Accepted, InPush
  <2>4. pc'[Producer] # "push" => Pushing' = END_OF_LIST
    BY <1>2 DEF Pushing, InPush
  <2>5. RingInv(q)'
    BY <1>1, <1>2, <2>1 DEF RingInv, InPush, ring
  <2> QED
    BY <1>1, <2>1, <2>2, <2>3, <2>4, <2>5, FifoSteps
<1>3. CASE t = Consumer
  <2>1. /\ pc'[Producer] = pc[Producer] /\ blk'[Producer] = blk[Producer]
        /\ Pushing' = Pushing /\ Accepted' = Accepted
    BY <1>3, TwoEnds DEF Others, Pushing, Accepted
  <2>2. ~Popping /\ Out' = END_OF_LIST
    BY <1>3 DEF Popping, Out
  <2>3. pc'[Consumer] = "pop" => Popping' /\ Out = END_OF_LIST
    BY <1>3 DEF Popping, Out, InPop
  <2>4. pc'[Consumer] # "pop" => ~Popping'
    BY <1>3 DEF Popping, InPop
  <2>5. RingInv(q)'
    BY <1>1, <1>3, <2>1 DEF RingInv, InPush, ring
  <2> QED
    BY <1>1, <2>1, <2>2, <2>3, <2>4, <2>5, FifoSteps DEF Popping
<1> QED
  BY <1>2, <1>3 DEF Ends

----------------------------------------------------------------------------
\* Lists without repetition.

\* A block added at the end.
LEMMA AppendOnce ==
    ASSUME NEW s \in Seq(Block), NEW b \in Block
    PROVE  /\ Append(s, b) \in Seq(Block)
           /\ Elems(Append(s, b)) = Elems(s) \cup {b} /\ Len(Append(s, b)) = Len(s) + 1
           /\ Once(s) /\ b \notin Elems(s) => Once(Append(s, b))
<1> DEFINE n == Len(s)
           d == Append(s, b)
<1>1. /\ n \in Nat /\ d \in Seq(Block) /\ Len(d) = n + 1
      /\ d[n + 1] = b
      /\ \A i \in 1 .. n : d[i] = s[i]
  OBVIOUS
<1> HIDE DEF n, d
<1>2. \A i \in 1 .. n + 1 : i \in 1 .. n \/ i = n + 1
  BY <1>1
<1>3. Elems(d) = Elems(s) \cup {b}
  BY <1>1, <1>2, SMTT(20) DEF Elems, n
<1>4. Once(s) /\ b \notin Elems(s) => Once(d)
  BY <1>1, <1>2, SMTT(20) DEF Elems, Once, n
<1> QED
  BY <1>1, <1>3, <1>4 DEF n, d

\* A block added in front.
LEMMA ConsOnce ==
    ASSUME NEW s \in Seq(Block), NEW b \in Block
    PROVE  /\ <<b>> \o s \in Seq(Block)
           /\ Len(<<b>> \o s) = Len(s) + 1
           /\ (<<b>> \o s)[1] = b
           /\ \A k \in 1 .. Len(s) : (<<b>> \o s)[k + 1] = s[k]
           /\ Elems(<<b>> \o s) = Elems(s) \cup {b}
           /\ Once(s) /\ b \notin Elems(s) => Once(<<b>> \o s)
<1> DEFINE n == Len(s)
           d == <<b>> \o s
<1>1. n \in Nat /\ d \in Seq(Block) /\ Len(d) = n + 1
  OBVIOUS
<1>2. d[1] = b /\ \A i \in 1 .. n : d[i + 1] = s[i]
  OBVIOUS
<1> HIDE DEF n, d
<1>3. \A i \in 1 .. n + 1 : i = 1 \/ (i - 1 \in 1 .. n /\ d[i] = s[i - 1])
  <2>1. ASSUME NEW i \in 1 .. n + 1, i # 1 PROVE i - 1 \in 1 .. n /\ d[i] = s[i - 1]
    <3>1. i - 1 \in 1 .. n /\ i - 1 + 1 = i
      BY <1>1, <2>1
    <3> QED
      BY <1>2, <3>1
  <2> QED
    BY <2>1
<1>4. \A i \in 1 .. n : i + 1 \in 1 .. n + 1
  BY <1>1
<1>5. Elems(d) = Elems(s) \cup {b}
  <2>1. 1 \in 1 .. n + 1
    BY <1>1
  <2>2. Elems(d) \subseteq Elems(s) \cup {b}
    BY <1>1, <1>2, <1>3, SMTT(20) DEF Elems, n
  <2>3. b \in Elems(d)
    BY <1>1, <1>2, <2>1 DEF Elems
  <2>4. ASSUME NEW i \in 1 .. n PROVE s[i] \in Elems(d)
    BY <1>1, <1>2, <1>4 DEF Elems
  <2> QED
    BY <2>2, <2>3, <2>4 DEF Elems, n
<1>6. Once(s) /\ b \notin Elems(s) => Once(d)
  <2> SUFFICES ASSUME Once(s), b \notin Elems(s),
                      NEW i \in 1 .. n + 1, NEW j \in 1 .. n + 1, d[i] = d[j]
               PROVE  i = j
    BY <1>1 DEF Once
  <2>1. \A k \in 1 .. n : s[k] # b
    BY DEF Elems, n
  <2>2. i = 1 <=> j = 1
    BY <1>2, <1>3, <2>1, SMTT(20)
  <2>3. i # 1 => i - 1 = j - 1
    BY <1>3, <2>2 DEF Once, n
  <2> QED
    BY <2>2, <2>3
<1> QED
  BY <1>1, <1>2, <1>5, <1>6 DEF n, d

\* The first block taken off.
LEMMA TailOnce ==
    ASSUME NEW s \in Seq(Block), s # <<>>
    PROVE  /\ Tail(s) \in Seq(Block) /\ Len(s) \in Nat /\ Len(s) >= 1
           /\ Len(Tail(s)) = Len(s) - 1
           /\ Head(s) = s[1] /\ s[1] \in Block /\ s[1] \in Elems(s)
           /\ \A k \in 1 .. Len(s) - 1 : Tail(s)[k] = s[k + 1]
           /\ Once(s) => Once(Tail(s)) /\ Elems(Tail(s)) = Elems(s) \ {s[1]}
<1> DEFINE n == Len(s)
           d == Tail(s)
<1>1. /\ n \in Nat /\ n >= 1 /\ d \in Seq(Block) /\ Len(d) = n - 1
      /\ \A i \in 1 .. n - 1 : d[i] = s[i + 1]
  OBVIOUS
<1>2. Head(s) = s[1] /\ s[1] \in Block
  BY <1>1
<1> HIDE DEF n, d
<1>3. s[1] \in Elems(s)
  BY <1>1, SMTT(20) DEF Elems, n
<1>4. ASSUME Once(s) PROVE Once(d)
  <2>1. \A i \in 1 .. n - 1 : i + 1 \in 1 .. n
    BY <1>1
  <2> QED
    BY <1>1, <1>4, <2>1, SMTT(20) DEF Once, n
<1>5. ASSUME Once(s) PROVE Elems(d) = Elems(s) \ {s[1]}
  <2>1. \A i \in 1 .. n - 1 : i + 1 \in 1 .. n /\ i + 1 # 1
    BY <1>1
  <2>2. \A i \in 1 .. n : i = 1 \/ (i - 1 \in 1 .. n - 1 /\ i - 1 + 1 = i)
    BY <1>1
  <2>3. 1 \in 1 .. n
    BY <1>1
  <2>4. Elems(d) \subseteq Elems(s) \ {s[1]}
    BY <1>1, <1>5, <2>1, <2>3, SMTT(20) DEF Elems, Once, n
  <2>5. Elems(s) \ {s[1]} \subseteq Elems(d)
    <3>1. ASSUME NEW i \in 1 .. n, i # 1 PROVE s[i] \in Elems(d)
      <4>1. i - 1 \in 1 .. n - 1 /\ i - 1 + 1 = i
        BY <2>2, <3>1
      <4>2. d[i - 1] = s[i]
        BY <1>1, <4>1
      <4> QED
        BY <1>1, <4>1, <4>2 DEF Elems
    <3> QED
      BY <3>1 DEF Elems, n
  <2> QED
    BY <2>4, <2>5
<1> QED
  BY <1>1, <1>2, <1>3, <1>4, <1>5 DEF n, d

\* The blocks of a list are blocks, and an empty list has none.
LEMMA ElemsAreBlocks ==
    ASSUME NEW s \in Seq(Block)
    PROVE  Len(s) \in Nat /\ Elems(s) \subseteq Block /\ (s = <<>> <=> Elems(s) = {})
<1>1. Len(s) \in Nat /\ (s = <<>> <=> Len(s) = 0) /\ \A i \in 1 .. Len(s) : s[i] \in Block
  OBVIOUS
<1>2. s # <<>> => s[1] \in Elems(s)
  <2>1. Len(s) # 0 => 1 \in 1 .. Len(s)
    BY <1>1
  <2> QED
    BY <1>1, <2>1 DEF Elems
<1>3. s = <<>> => Elems(s) = {}
  <2>1. Len(s) = 0 => 1 .. Len(s) = {}
    BY <1>1
  <2> QED
    BY <1>1, <2>1 DEF Elems
<1>4. Elems(s) \subseteq Block
  BY <1>1 DEF Elems
<1> QED
  BY <1>1, <1>2, <1>3, <1>4

\* The two indices are where the code's modular arithmetic says.
LEMMA AdvanceWraps ==
    ASSUME NEW i \in Slots
    PROVE  /\ Advance(i) \in Slots
           /\ Advance(i) = IF i = Capacity - 1 THEN 0 ELSE i + 1
BY CapacityAssumption DEF Advance, Slots

\* The slot i places after r, without the modulus.
LEMMA SlotAtWraps ==
    ASSUME NEW r \in Slots, NEW i \in 0 .. Capacity
    PROVE  /\ SlotAt(r, i) \in Slots
           /\ SlotAt(r, i) = IF r + i < Capacity THEN r + i ELSE r + i - Capacity
<1>1. CASE r + i < Capacity
  BY <1>1, CapacityAssumption DEF SlotAt, Slots
<1>2. CASE r + i >= Capacity
  BY <1>2, CapacityAssumption DEF SlotAt, Slots
<1> QED
  BY <1>1, <1>2, CapacityAssumption DEF Slots

\* Full and empty, as the code tests them, are the extremes of Count.
LEMMA CountProperties ==
    ASSUME NEW r \in Slots, NEW w \in Slots
    PROVE  /\ Count(r, w) \in 0 .. Capacity - 1
           /\ Advance(w) = r <=> Count(r, w) = Capacity - 1
           /\ r = w <=> Count(r, w) = 0
           /\ SlotAt(r, Count(r, w)) = w
           /\ Advance(w) # r => Count(r, Advance(w)) = Count(r, w) + 1
           /\ r # w => Count(Advance(r), w) = Count(r, w) - 1
<1>1. /\ Advance(w) = IF w = Capacity - 1 THEN 0 ELSE w + 1
      /\ Advance(r) = IF r = Capacity - 1 THEN 0 ELSE r + 1
  BY AdvanceWraps
<1>2. Count(r, w) \in 0 .. Capacity - 1
  BY CapacityAssumption DEF Count, Slots
<1>3. SlotAt(r, Count(r, w)) = IF r + Count(r, w) < Capacity
                               THEN r + Count(r, w) ELSE r + Count(r, w) - Capacity
  BY <1>2, SlotAtWraps, CapacityAssumption, SMTT(20)
<1>4. SlotAt(r, Count(r, w)) = w
  BY <1>3, CapacityAssumption DEF Count, Slots
<1> QED
  BY <1>1, <1>2, <1>4, CapacityAssumption DEF Count, Slots

\* The slots of the pointers in the ring differ from the one written next,
\* and follow each other round the ring.
LEMMA SlotProperties ==
    ASSUME NEW r \in Slots, NEW w \in Slots, NEW i \in 0 .. Capacity - 1, i < Count(r, w)
    PROVE  /\ SlotAt(r, i) \in Slots
           /\ SlotAt(r, i) # w
           /\ SlotAt(Advance(r), i) = SlotAt(r, i + 1)
<1>1. SlotAt(r, i) \in Slots /\ SlotAt(r, i) = IF r + i < Capacity THEN r + i ELSE r + i - Capacity
  BY SlotAtWraps, CapacityAssumption, SMTT(20)
<1>2. SlotAt(r, i + 1) = IF r + (i + 1) < Capacity THEN r + (i + 1) ELSE r + (i + 1) - Capacity
  <2>1. i + 1 \in 0 .. Capacity
    BY CapacityAssumption
  <2> QED
    BY <2>1, SlotAtWraps
<1>3. Advance(r) \in Slots /\ Advance(r) = IF r = Capacity - 1 THEN 0 ELSE r + 1
  BY AdvanceWraps
<1>4. SlotAt(Advance(r), i) = IF Advance(r) + i < Capacity THEN Advance(r) + i ELSE Advance(r) + i - Capacity
  BY <1>3, SlotAtWraps, CapacityAssumption, SMTT(20)
<1>5. SlotAt(r, i) # w
  BY <1>1, CapacityAssumption DEF Count, Slots
<1>6. SlotAt(Advance(r), i) = SlotAt(r, i + 1)
  BY <1>2, <1>3, <1>4, CapacityAssumption DEF Slots
<1> QED
  BY <1>1, <1>5, <1>6

\* The pointers between two indices are a sequence.
LEMMA BetweenIsSeq ==
    ASSUME NEW S, NEW slots \in [Slots -> S], NEW r \in Slots, NEW w \in Slots
    PROVE  Between(slots, r, w) \in Seq(S)
<1> DEFINE n == Count(r, w)
           b == Between(slots, r, w)
<1>1. n \in 0 .. Capacity - 1 /\ n \in Nat
  BY CountProperties, CapacityAssumption, SMTT(20)
<1>2. ASSUME NEW i \in 1 .. n PROVE slots[SlotAt(r, i - 1)] \in S
  <2>1. i - 1 \in 0 .. Capacity
    BY <1>1, CapacityAssumption
  <2> QED
    BY <2>1, SlotAtWraps
<1>3. b \in [1 .. n -> S]
  BY <1>2 DEF Between
<1> QED
  BY <1>1, <1>3, SMTT(20)

\* Sequences of one length with the same elements are the same.
LEMMA SeqEqual ==
    ASSUME NEW S, NEW s \in Seq(S), NEW t \in Seq(S), Len(s) = Len(t),
           \A i \in 1 .. Len(s) : s[i] = t[i]
    PROVE  s = t
OBVIOUS

\* As many pointers lie between two indices as Count says.
LEMMA BetweenLen ==
    ASSUME NEW S, NEW slots \in [Slots -> S], NEW r \in Slots, NEW w \in Slots
    PROVE  Len(Between(slots, r, w)) = Count(r, w)
<1> DEFINE n == Count(r, w)
           b == Between(slots, r, w)
<1>1. n \in Nat
  BY CountProperties, CapacityAssumption, SMTT(20)
<1>2. b \in Seq(S)
  BY BetweenIsSeq
<1>3. DOMAIN b = 1 .. n
  BY DEF Between
<1> QED
  BY <1>1, <1>2, <1>3

\* The i-th pointer from r on is in the slot i - 1 places after r.
LEMMA BetweenElement ==
    ASSUME NEW r, NEW w, NEW slots, NEW i \in 1 .. Count(r, w)
    PROVE  Between(slots, r, w)[i] = slots[SlotAt(r, i - 1)]
BY DEF Between

\* Moving w one slot on appends the pointer in slot w.
LEMMA BetweenAppend ==
    ASSUME NEW S, NEW slots \in [Slots -> S], NEW r \in Slots, NEW w \in Slots,
           NEW x \in Slots, x = Advance(w), Advance(w) # r
    PROVE  Between(slots, r, x) = Append(Between(slots, r, w), slots[w])
<1> DEFINE n == Count(r, w)
           b == Between(slots, r, w)
           c == Between(slots, r, x)
<1>1. /\ n \in 0 .. Capacity - 1
      /\ Count(r, x) = n + 1 /\ SlotAt(r, n) = w
  BY CountProperties, AdvanceWraps
<1>2. /\ b \in Seq(S) /\ Len(b) = n
      /\ \A i \in 1 .. n : b[i] = slots[SlotAt(r, i - 1)]
  <2>1. b \in Seq(S)
    BY BetweenIsSeq
  <2>2. Len(b) = n
    BY BetweenLen
  <2>3. \A i \in 1 .. n : b[i] = slots[SlotAt(r, i - 1)]
    BY BetweenElement, SMTT(20)
  <2> QED
    BY <2>1, <2>2, <2>3
<1>3. /\ c \in Seq(S) /\ Len(c) = n + 1
      /\ \A i \in 1 .. n + 1 : c[i] = slots[SlotAt(r, i - 1)]
  <2>1. c \in Seq(S)
    BY BetweenIsSeq
  <2>2. Len(c) = Count(r, x)
    BY BetweenLen
  <2>3. \A i \in 1 .. Count(r, x) : c[i] = slots[SlotAt(r, i - 1)]
    BY BetweenElement, SMTT(20)
  <2> QED
    BY <1>1, <2>1, <2>2, <2>3
<1> DEFINE d == Append(b, slots[w])
<1>4. /\ d \in Seq(S) /\ Len(d) = n + 1
      /\ \A i \in 1 .. n : d[i] = b[i]
      /\ d[n + 1] = slots[w]
  BY <1>2
<1> HIDE DEF b, c, d, n
<1>5. ASSUME NEW i \in 1 .. n + 1 PROVE c[i] = d[i]
  <2>1. CASE i \in 1 .. n
    BY <1>2, <1>3, <1>4, <2>1
  <2>2. CASE i = n + 1
    <3>1. n + 1 - 1 = n
      BY <1>1, CapacityAssumption
    <3> QED
      BY <1>1, <1>3, <1>4, <2>2, <3>1, SMTT(20)
  <2> QED
    BY <1>1, <2>1, <2>2
<1>6. c = d
  BY <1>3, <1>4, <1>5, SeqEqual
<1> QED
  BY <1>6 DEF b, c, d

\* Moving r one slot on removes the pointer in slot r, the oldest one.
LEMMA BetweenTail ==
    ASSUME NEW S, NEW slots \in [Slots -> S], NEW r \in Slots, NEW w \in Slots,
           NEW x \in Slots, x = Advance(r), r # w
    PROVE  /\ Between(slots, r, w) # <<>>
           /\ Head(Between(slots, r, w)) = slots[r]
           /\ Between(slots, x, w) = Tail(Between(slots, r, w))
<1> DEFINE n == Count(r, w)
           b == Between(slots, r, w)
           c == Between(slots, x, w)
<1>1. /\ n \in 1 .. Capacity - 1
      /\ Count(x, w) = n - 1
  BY CountProperties, AdvanceWraps, CapacityAssumption, SMTT(20)
<1>2. /\ b \in Seq(S) /\ Len(b) = n
      /\ \A i \in 1 .. n : b[i] = slots[SlotAt(r, i - 1)]
  <2>1. b \in Seq(S)
    BY BetweenIsSeq
  <2>2. Len(b) = n
    BY BetweenLen
  <2>3. \A i \in 1 .. n : b[i] = slots[SlotAt(r, i - 1)]
    BY BetweenElement, SMTT(20)
  <2> QED
    BY <2>1, <2>2, <2>3
<1>3. /\ c \in Seq(S) /\ Len(c) = n - 1
      /\ \A i \in 1 .. n - 1 : c[i] = slots[SlotAt(x, i - 1)]
  <2>1. c \in Seq(S)
    BY BetweenIsSeq
  <2>2. Len(c) = Count(x, w)
    BY BetweenLen
  <2>3. \A i \in 1 .. Count(x, w) : c[i] = slots[SlotAt(x, i - 1)]
    BY BetweenElement, SMTT(20)
  <2> QED
    BY <1>1, <2>1, <2>2, <2>3
<1>4. SlotAt(r, 0) = r
  BY SlotAtWraps, CapacityAssumption, SMTT(20) DEF Slots
<1>5. ASSUME NEW i \in 1 .. n - 1
      PROVE  SlotAt(x, i - 1) = SlotAt(r, i + 1 - 1)
  <2>1. i - 1 \in 0 .. Capacity - 1 /\ i - 1 < n /\ i - 1 + 1 = i + 1 - 1
    BY <1>1, CapacityAssumption
  <2>2. SlotAt(x, i - 1) = SlotAt(r, i - 1 + 1)
    BY <2>1, SlotProperties, SMTT(20)
  <2> QED
    BY <2>1, <2>2
<1> HIDE DEF b, c, n
<1>6. b # <<>> /\ Head(b) = slots[r]
  <2>1. 1 \in 1 .. n /\ 1 - 1 = 0
    BY <1>1, CapacityAssumption
  <2>2. b[1] = slots[r]
    BY <1>2, <1>4, <2>1
  <2>3. b # <<>>
    BY <1>1, <1>2, CapacityAssumption
  <2> QED
    BY <1>2, <2>2, <2>3, SMTT(20)
<1> DEFINE d == Tail(b)
<1>7. /\ d \in Seq(S) /\ Len(d) = n - 1
      /\ \A i \in 1 .. n - 1 : d[i] = b[i + 1]
  BY <1>2, <1>6, SMTT(20)
<1> HIDE DEF d
<1>8. ASSUME NEW i \in 1 .. n - 1 PROVE c[i] = d[i]
  <2>1. i + 1 \in 1 .. n
    BY <1>1, CapacityAssumption
  <2>2. b[i + 1] = slots[SlotAt(r, i + 1 - 1)]
    BY <1>2, <2>1
  <2> QED
    BY <1>3, <1>5, <1>7, <2>2
<1>9. c = d
  BY <1>3, <1>7, <1>8, SeqEqual
<1> QED
  BY <1>6, <1>9 DEF b, c, d

\* Writing slot w leaves the pointers before it alone.
LEMMA BetweenWrite ==
    ASSUME NEW slots, NEW new, NEW r \in Slots, NEW w \in Slots,
           \A s \in Slots \ {w} : new[s] = slots[s]
    PROVE  Between(new, r, w) = Between(slots, r, w)
<1>1. ASSUME NEW i \in 1 .. Count(r, w)
      PROVE  new[SlotAt(r, i - 1)] = slots[SlotAt(r, i - 1)]
  <2>1. Count(r, w) \in 0 .. Capacity - 1
    BY CountProperties
  <2>2. i - 1 \in 0 .. Capacity - 1 /\ i - 1 < Count(r, w)
    BY <2>1, CapacityAssumption
  <2>3. SlotAt(r, i - 1) \in Slots /\ SlotAt(r, i - 1) # w
    BY <2>2, SlotProperties
  <2> QED
    BY <2>3
<1> QED
  BY <1>1 DEF Between


\* The queue in terms of the indices: full, empty, and what lies in between.
LEMMA QueueLen ==
    ASSUME NEW q, RingInv(q)
    PROVE  /\ Len(q) \in Nat
           /\ Advance(write_idx) = read_idx <=> Len(q) = Capacity - 1
           /\ Advance(write_idx) # read_idx => Len(q) < Capacity - 1
           /\ read_idx = write_idx <=> q = <<>>
<1>1. /\ buffer \in [Slots -> Loc] /\ write_idx \in Slots /\ read_idx \in Slots
      /\ q = Between(buffer, read_idx, write_idx) /\ q \in Seq(Block)
  BY DEF RingInv, Queued
<1>2. Len(q) = Count(read_idx, write_idx)
  BY <1>1, BetweenLen
<1>3. Len(q) \in Nat /\ (q = <<>> <=> Len(q) = 0)
  BY <1>1, ElemsAreBlocks, SMTT(20)
<1>4. /\ Count(read_idx, write_idx) \in 0 .. Capacity - 1
      /\ Advance(write_idx) = read_idx <=> Count(read_idx, write_idx) = Capacity - 1
      /\ read_idx = write_idx <=> Count(read_idx, write_idx) = 0
  BY <1>1, CountProperties, SMTT(20)
<1> QED
  BY <1>2, <1>3, <1>4, CapacityAssumption

\* What a step of push() does to the queue.
PushEffect(full, q, q2) ==
    /\ Others(Producer) /\ blk' = blk
    /\ \/ pc[Producer] = "push" /\ pc'[Producer] \in {full, "store"} /\ q2 = q
       \/ pc[Producer] = "store" /\ pc'[Producer] = "publish" /\ q2 = q
       \/ pc[Producer] = "publish" /\ pc'[Producer] = "pushed" /\ q2 = Append(q, blk[Producer])

\* push() keeps the ring, and takes effect when it stores its index or finds no room.
LEMMA PushKeeps ==
    ASSUME NEW q, RingInv(q), DOMAIN pc = Thread, NEW full,
           full \notin InPush \cup {"pushed"}, Push(full)
    PROVE  /\ \E q2 : RingInv(q2)' /\ PushEffect(full, q, q2)
           /\ [Fifo!Next]_Fifo!vars /\ UNCHANGED <<freeList, registers>> /\ DOMAIN pc' = Thread
<1>0. /\ buffer \in [Slots -> Loc] /\ write_idx \in Slots /\ read_idx \in Slots
      /\ q = Queued /\ q \in Seq(Block) /\ Queued = Between(buffer, read_idx, write_idx)
  BY DEF RingInv, Queued
<1>1. UNCHANGED <<freeList, registers>> /\ blk' = blk
  BY DEF Push, registers
<1>2. DOMAIN pc' = Thread /\ \A u \in Thread \ {Producer} : pc'[u] = pc[u]
  BY TwoEnds DEF Push, PushTest, PushStore, PushPublish, At
<1>3. Others(Producer) /\ Popping' = Popping /\ Out' = Out
  BY <1>1, <1>2, TwoEnds DEF Others, Popping, Out
<1>4. CASE PushTest(full)
  <2>1. /\ pc[Producer] = "push" /\ UNCHANGED ring
        /\ pc'[Producer] = IF Advance(write_idx) = read_idx THEN full ELSE "store"
    BY <1>4, TwoEnds DEF PushTest, At
  <2>2. Queued' = Queued
    BY <2>1 DEF Queued, ring
  <2>3. blk[Producer] \in Block /\ Pushing = blk[Producer]
    BY <2>1 DEF RingInv, InPush, Pushing
  <2>4. RingInv(q)'
    BY <1>1, <1>2, <2>1, <2>2, TwoEnds DEF RingInv, InPush, ring
  <2>5. PushEffect(full, q, q)
    BY <1>1, <1>3, <2>1 DEF PushEffect
  <2>6. CASE Advance(write_idx) = read_idx
    <3>1. Len(Queued) = Capacity - 1 /\ Pushing' = END_OF_LIST /\ ~Accepted'
      BY <1>0, <2>1, <2>6, QueueLen DEF Pushing, Accepted
    <3>2. [Fifo!Next]_Fifo!vars
      BY <1>3, <2>2, <2>3, <3>1, FifoSteps
    <3> QED
      BY <1>1, <1>2, <2>4, <2>5, <3>2
  <2>7. CASE Advance(write_idx) # read_idx
    <3>1. Pushing' = Pushing /\ Accepted' = Accepted
      BY <1>1, <2>1, <2>7 DEF Pushing, Accepted, InPush
    <3>2. [Fifo!Next]_Fifo!vars
      BY <1>3, <2>2, <3>1, FifoSteps
    <3> QED
      BY <1>1, <1>2, <2>4, <2>5, <3>2
  <2> QED
    BY <2>6, <2>7
<1>5. CASE PushStore("store", "publish")
  <2>1. pc[Producer] = "store" /\ pc'[Producer] = "publish" /\ UNCHANGED <<write_idx, read_idx>>
    BY <1>5, TwoEnds DEF PushStore, At
  <2>2. blk[Producer] \in Block /\ blk[Producer] \in Loc
    BY <2>1 DEF RingInv, InPush, Loc
  <2>3. /\ buffer' \in [Slots -> Loc] /\ buffer'[write_idx] = blk[Producer]
        /\ \A k \in Slots \ {write_idx} : buffer'[k] = buffer[k]
    BY <1>0, <1>5, <2>2 DEF PushStore
  <2>4. Queued' = Queued
    <3>1. Between(buffer', read_idx, write_idx) = Between(buffer, read_idx, write_idx)
      BY <1>0, <2>3, BetweenWrite, SMTT(20)
    <3> QED
      BY <2>1, <3>1 DEF Queued
  <2>5. RingInv(q)'
    BY <1>0, <1>1, <1>2, <2>1, <2>2, <2>3, <2>4, TwoEnds DEF RingInv, InPush
  <2>6. PushEffect(full, q, q)
    BY <1>1, <1>3, <2>1 DEF PushEffect
  <2>7. Pushing' = Pushing /\ Accepted' = Accepted
    BY <1>1, <2>1 DEF Pushing, Accepted, InPush
  <2>8. [Fifo!Next]_Fifo!vars
    BY <1>3, <2>4, <2>7, FifoSteps
  <2> QED
    BY <1>1, <1>2, <2>5, <2>6, <2>8
<1>6. CASE PushPublish("publish", "pushed")
  <2>1. /\ pc[Producer] = "publish" /\ pc'[Producer] = "pushed" /\ UNCHANGED <<buffer, read_idx>>
        /\ write_idx' = Advance(write_idx)
    BY <1>6, TwoEnds DEF PushPublish, At
  <2>2. /\ blk[Producer] \in Block /\ Advance(write_idx) # read_idx
        /\ buffer[write_idx] = blk[Producer]
    BY <2>1 DEF RingInv, InPush
  <2>3. write_idx' \in Slots
    BY <1>0, <2>1, AdvanceWraps
  <2>4. Between(buffer, read_idx, write_idx') = Append(Between(buffer, read_idx, write_idx), buffer[write_idx])
    <3>1. Advance(write_idx) \in Slots
      BY <2>1, <2>3
    <3>2. Between(buffer, read_idx, Advance(write_idx))
            = Append(Between(buffer, read_idx, write_idx), buffer[write_idx])
      BY <1>0, <2>2, <3>1, BetweenAppend, Zenon
    <3> QED
      BY <2>1, <3>2
  <2>5. Queued' = Append(q, blk[Producer])
    BY <1>0, <2>1, <2>2, <2>4 DEF Queued
  <2>6. Append(q, blk[Producer]) \in Seq(Block)
    BY <1>0, <2>2, AppendOnce
  <2> PICK d : d = Append(q, blk[Producer])
    BY Zenon
  <2>7. RingInv(d)'
    BY <1>0, <1>1, <1>2, <2>1, <2>2, <2>3, <2>5, <2>6, TwoEnds DEF RingInv, InPush
  <2>8. PushEffect(full, q, d)
    BY <1>1, <1>3, <2>1 DEF PushEffect
  <2>9. Pushing = blk[Producer] /\ Pushing' = END_OF_LIST /\ Accepted' /\ Len(q) < Capacity - 1
    BY <2>1, <2>2, QueueLen DEF Pushing, Accepted, InPush
  <2>10. [Fifo!Next]_Fifo!vars
    BY <1>0, <1>3, <2>2, <2>5, <2>9, FifoSteps, Zenon
  <2> QED
    BY <1>1, <1>2, <2>7, <2>8, <2>10
<1> QED
  BY <1>4, <1>5, <1>6 DEF Push

\* What a step of pop() does to the queue.
PopEffect(empty, q, q2) ==
    /\ Others(Consumer) /\ blk' \in [Thread -> Loc]
    /\ \/ pc[Consumer] = "pop" /\ pc'[Consumer] \in {empty, "fetch"} /\ q2 = q
       \/ pc[Consumer] = "fetch" /\ pc'[Consumer] = "advance" /\ q2 = q
       \/ /\ pc[Consumer] = "advance" /\ pc'[Consumer] = "popped"
          /\ q # <<>> /\ blk' = blk /\ blk[Consumer] = Head(q) /\ q2 = Tail(q)

\* pop() keeps the ring, and takes effect when it stores its index or finds nothing.
LEMMA PopKeeps ==
    ASSUME NEW q, RingInv(q), DOMAIN pc = Thread, blk \in [Thread -> Loc], NEW empty,
           empty \notin InPop \cup {"popped"}, Pop(empty)
    PROVE  /\ \E q2 : RingInv(q2)' /\ PopEffect(empty, q, q2)
           /\ [Fifo!Next]_Fifo!vars /\ UNCHANGED <<freeList, cur, nxt>> /\ DOMAIN pc' = Thread
<1>0. /\ buffer \in [Slots -> Loc] /\ write_idx \in Slots /\ read_idx \in Slots
      /\ q = Queued /\ q \in Seq(Block) /\ Queued = Between(buffer, read_idx, write_idx)
  BY DEF RingInv, Queued
<1>1. UNCHANGED <<freeList, cur, nxt>>
  BY DEF Pop, registers
<1>2. DOMAIN pc' = Thread /\ \A u \in Thread \ {Consumer} : pc'[u] = pc[u] /\ blk'[u] = blk[u]
  BY TwoEnds DEF Pop, registers, At
<1>3. /\ Others(Consumer) /\ Pushing' = Pushing /\ Accepted' = Accepted
      /\ pc'[Producer] = pc[Producer] /\ blk'[Producer] = blk[Producer]
  BY <1>2, TwoEnds DEF Others, Pushing, Accepted
<1>4. CASE /\ At(Consumer, "pop", IF read_idx = write_idx THEN empty ELSE "fetch")
           /\ UNCHANGED <<ring, freeList, registers>>
  <2>1. /\ pc[Consumer] = "pop" /\ UNCHANGED ring /\ blk' = blk
        /\ pc'[Consumer] = IF read_idx = write_idx THEN empty ELSE "fetch"
    BY <1>4, TwoEnds DEF At, registers
  <2>2. Queued' = Queued
    BY <2>1 DEF Queued, ring
  <2>3. RingInv(q)'
    BY <1>3, <2>1, <2>2 DEF RingInv, InPop, ring
  <2>4. PopEffect(empty, q, q)
    BY <1>3, <2>1 DEF PopEffect
  <2>5. CASE read_idx = write_idx
    <3>1. Queued = <<>> /\ Popping /\ ~Popping' /\ Out' = END_OF_LIST
      BY <1>0, <2>1, <2>5, QueueLen DEF Popping, Out, InPop
    <3>2. [Fifo!Next]_Fifo!vars
      BY <1>3, <2>2, <3>1, FifoSteps
    <3> QED
      BY <1>1, <1>2, <2>3, <2>4, <3>2
  <2>6. CASE read_idx # write_idx
    <3>1. Popping /\ Popping' /\ Popping' = Popping /\ Out' = Out
      BY <2>1, <2>6, SMTT(20) DEF Popping, Out, InPop
    <3>2. [Fifo!Next]_Fifo!vars
      BY <1>3, <2>2, <3>1, FifoSteps
    <3> QED
      BY <1>1, <1>2, <2>3, <2>4, <3>2
  <2> QED
    BY <2>5, <2>6
<1>5. CASE /\ At(Consumer, "fetch", "advance")
           /\ blk' = [blk EXCEPT ![Consumer] = buffer[read_idx]]
           /\ UNCHANGED <<ring, freeList, cur, nxt>>
  <2>1. /\ pc[Consumer] = "fetch" /\ pc'[Consumer] = "advance" /\ UNCHANGED ring
        /\ blk' \in [Thread -> Loc] /\ blk'[Consumer] = buffer[read_idx]
    BY <1>0, <1>5, TwoEnds DEF At
  <2>2. Queued' = Queued
    BY <2>1 DEF Queued, ring
  <2>3. RingInv(q)'
    BY <1>3, <2>1, <2>2 DEF RingInv, InPop, ring
  <2>4. PopEffect(empty, q, q)
    BY <1>3, <2>1 DEF PopEffect
  <2>5. Popping /\ Popping' /\ Popping' = Popping /\ Out' = Out
    BY <2>1, SMTT(20) DEF Popping, Out, InPop
  <2>6. [Fifo!Next]_Fifo!vars
    BY <1>3, <2>2, <2>5, FifoSteps
  <2> QED
    BY <1>1, <1>2, <2>3, <2>4, <2>6
<1>6. CASE /\ At(Consumer, "advance", "popped")
           /\ read_idx' = Advance(read_idx)
           /\ UNCHANGED <<buffer, write_idx, freeList, registers>>
  <2>1. /\ pc[Consumer] = "advance" /\ pc'[Consumer] = "popped" /\ blk' = blk
        /\ read_idx' = Advance(read_idx) /\ UNCHANGED <<buffer, write_idx>>
    BY <1>6, TwoEnds DEF At, registers
  <2>2. read_idx # write_idx /\ blk[Consumer] = buffer[read_idx]
    BY <2>1 DEF RingInv
  <2>3. read_idx' \in Slots
    BY <1>0, <2>1, AdvanceWraps
  <2>4. /\ Between(buffer, read_idx, write_idx) # <<>>
        /\ Head(Between(buffer, read_idx, write_idx)) = buffer[read_idx]
        /\ Between(buffer, read_idx', write_idx) = Tail(Between(buffer, read_idx, write_idx))
    <3>1. Advance(read_idx) \in Slots
      BY <2>1, <2>3
    <3>2. /\ Between(buffer, read_idx, write_idx) # <<>>
          /\ Head(Between(buffer, read_idx, write_idx)) = buffer[read_idx]
          /\ Between(buffer, Advance(read_idx), write_idx) = Tail(Between(buffer, read_idx, write_idx))
      BY <1>0, <2>2, <3>1, BetweenTail, Zenon
    <3> QED
      BY <2>1, <3>2
  <2>5. Queued' = Tail(q) /\ q # <<>> /\ blk[Consumer] = Head(q) /\ Tail(q) \in Seq(Block)
    BY <1>0, <2>1, <2>2, <2>4, TailOnce DEF Queued
  <2>6. Advance(write_idx) # read_idx'
    <3>1. /\ Advance(read_idx) = IF read_idx = Capacity - 1 THEN 0 ELSE read_idx + 1
          /\ Advance(write_idx) = IF write_idx = Capacity - 1 THEN 0 ELSE write_idx + 1
      BY <1>0, AdvanceWraps
    <3> QED
      BY <1>0, <2>1, <2>2, <3>1, CapacityAssumption, SMTT(20) DEF Slots
  <2> PICK d : d = Tail(q)
    BY Zenon
  <2>7. RingInv(d)'
    BY <1>0, <1>3, <2>1, <2>3, <2>5, <2>6 DEF RingInv, InPush
  <2>8. PopEffect(empty, q, d)
    BY <1>3, <2>1, <2>5 DEF PopEffect
  <2>9. Popping /\ ~Popping' /\ Out' = blk[Consumer]
    BY <2>1 DEF Popping, Out, InPop
  <2>10. [Fifo!Next]_Fifo!vars
    BY <1>0, <1>3, <2>5, <2>9, FifoSteps, Zenon
  <2> QED
    BY <1>1, <1>2, <2>7, <2>8, <2>10
<1> QED
  BY <1>4, <1>5, <1>6 DEF Pop

----------------------------------------------------------------------------
\* The memory: the list, the registers and the counter.

\* Loading the head, or meeting it when a swap fails.
LEMMA LoadHeadKeeps ==
    ASSUME NEW s, MemInv(s), UNCHANGED <<free_count, pinned>>,
           NEW t \in Ends, NEW from, NEW to, LoadHead(t, from, to),
           \/ t = Producer /\ from \in {"alloc", "take"} /\ to = "next"
           \/ from \in {"free", "give"} /\ to = "link"
    PROVE  MemInv(s)' /\ UNCHANGED blk /\ pc[t] = from /\ pc'[t] = to /\ Others(t)
<1>0. t \in Thread
  BY TwoEnds
<1>1. /\ pc[t] = from /\ pc'[t] = to /\ DOMAIN pc' = Thread
      /\ \A u \in Thread \ {t} : pc'[u] = pc[u]
  BY <1>0, AtMoves DEF LoadHead, MemInv, MemType
<1>2. /\ UNCHANGED <<head, link, nxt, blk>> /\ cur' \in [Thread -> HeadType]
      /\ cur'[t] = head /\ \A u \in Thread \ {t} : cur'[u] = cur[u]
  BY <1>0 DEF LoadHead, MemInv, MemType, freeList
<1>3. MemType' /\ ListOf(s)'
  BY <1>1, <1>2 DEF MemInv, MemType, ListOf, IsFreeList, After
<1>4. head.index \in Elems(s) \cup {END_OF_LIST}
  BY SMTT(20) DEF MemInv, ListOf, IsFreeList, After, Elems
<1>5. SwapInv(s)'
  BY <1>0, <1>1, <1>2, <1>4, TwoEnds, SMTT(20) DEF MemInv, SwapInv, Giving, Ends
<1>6. CountInv(s)'
  BY <1>0, <1>1, <1>2, TwoEnds, Zenon DEF MemInv, CountInv, Balance, Waits, Ends
<1> QED
  BY <1>1, <1>2, <1>3, <1>5, <1>6 DEF MemInv, Others

\* allocate() reads the link of the block that it saw.
LEMMA ReadLinkKeeps ==
    ASSUME NEW s, MemInv(s), UNCHANGED <<free_count, pinned>>, ReadLink(Producer)
    PROVE  /\ MemInv(s)' /\ UNCHANGED blk /\ Others(Producer)
           /\ pc[Producer] = "next" /\ pc'[Producer] = "take"
<1>1. /\ pc[Producer] = "next" /\ pc'[Producer] = "take" /\ DOMAIN pc' = Thread
      /\ \A u \in Thread \ {Producer} : pc'[u] = pc[u]
  BY TwoEnds, AtMoves DEF ReadLink, MemInv, MemType
<1>2. cur[Producer].index \in Elems(s) /\ cur[Producer].index \in Block
  BY <1>1, ElemsAreBlocks DEF ReadLink, MemInv, SwapInv, ListOf
<1>3. /\ UNCHANGED <<head, link, cur, blk>> /\ nxt' \in [Thread -> Loc]
      /\ nxt'[Producer] = link[cur[Producer].index]
  BY <1>2, TwoEnds DEF ReadLink, MemInv, MemType, freeList
<1>4. MemType' /\ ListOf(s)'
  BY <1>1, <1>3 DEF MemInv, MemType, ListOf, IsFreeList, After
<1>5. SwapInv(s)'
  BY <1>1, <1>2, <1>3, TwoEnds DEF MemInv, SwapInv, Giving, Ends
<1>6. CountInv(s)'
  BY <1>1, <1>3, TwoEnds, Zenon DEF MemInv, CountInv, Balance, Waits, Ends
<1> QED
  BY <1>1, <1>3, <1>4, <1>5, <1>6 DEF MemInv, Others

\* A thread's registers are cleared.
LEMMA Forgets ==
    ASSUME MemType, NEW t \in Thread, NEW b \in Loc, Forget(t), blk' = [blk EXCEPT ![t] = b]
    PROVE  /\ cur' \in [Thread -> HeadType] /\ nxt' \in [Thread -> Loc] /\ blk' \in [Thread -> Loc]
           /\ blk'[t] = b
           /\ \A u \in Thread \ {t} : cur'[u] = cur[u] /\ nxt'[u] = nxt[u] /\ blk'[u] = blk[u]
<1>1. NoHead \in HeadType /\ END_OF_LIST \in Loc
  BY DEF NoHead, HeadType, Loc
<1> QED
  BY <1>1 DEF MemType, Forget

\* allocate() returns nullptr.
LEMMA ExhaustedKeeps ==
    ASSUME NEW s, MemInv(s), UNCHANGED <<free_count, pinned>>, Exhausted(Producer)
    PROVE  /\ MemInv(s)' /\ Others(Producer) /\ blk'[Producer] = END_OF_LIST
           /\ pc[Producer] = "next" /\ pc'[Producer] = "allocated"
<1>1. /\ pc[Producer] = "next" /\ pc'[Producer] = "allocated" /\ DOMAIN pc' = Thread
      /\ \A u \in Thread \ {Producer} : pc'[u] = pc[u]
  BY TwoEnds, AtMoves DEF Exhausted, MemInv, MemType
<1>2. UNCHANGED <<head, link>>
  BY DEF Exhausted, freeList
<1>3. /\ cur' \in [Thread -> HeadType] /\ nxt' \in [Thread -> Loc] /\ blk' \in [Thread -> Loc]
      /\ blk'[Producer] = END_OF_LIST
      /\ \A u \in Thread \ {Producer} : cur'[u] = cur[u] /\ nxt'[u] = nxt[u] /\ blk'[u] = blk[u]
  <2>1. END_OF_LIST \in Loc
    BY DEF Loc
  <2> QED
    BY <2>1, TwoEnds, Forgets, Zenon DEF Exhausted, MemInv
<1>4. MemType' /\ ListOf(s)'
  BY <1>1, <1>2, <1>3 DEF MemInv, MemType, ListOf, IsFreeList, After
<1>5. SwapInv(s)'
  BY <1>1, <1>2, <1>3, TwoEnds, SMTT(20) DEF MemInv, SwapInv, Giving, Ends
<1>6. CountInv(s)'
  BY <1>1, TwoEnds, Zenon DEF MemInv, CountInv, Balance, Waits, Ends
<1> QED
  BY <1>1, <1>3, <1>4, <1>5, <1>6 DEF MemInv, Others

\* free_count_ wraps as an unsigned number does, one down and one up.
LEMMA CountWraps ==
    /\ \A b \in 0 .. Blocks + 1 : (Wrap(b) + CountModulus - 1) % CountModulus = Wrap(b - 1)
    /\ \A b \in -2 .. Blocks : (Wrap(b) + 1) % CountModulus = Wrap(b + 1)
<1>1. CountModulus \in Nat /\ Blocks \in Nat /\ Blocks + 1 < CountModulus /\ 2 < CountModulus
  BY CountAssumption, BlocksAssumption
<1>2. ASSUME NEW x \in 0 .. CountModulus - 1
      PROVE  x % CountModulus = x /\ (x + CountModulus) % CountModulus = x
  BY <1>1
<1>3. ASSUME NEW b \in 0 .. Blocks + 1
      PROVE  (Wrap(b) + CountModulus - 1) % CountModulus = Wrap(b - 1)
  <2>1. CASE b = 0
    <3>1. CountModulus - 1 \in 0 .. CountModulus - 1
      BY <1>1
    <3>2. (CountModulus - 1) % CountModulus = CountModulus - 1
      BY <1>2, <3>1
    <3>3. Wrap(b) + CountModulus - 1 = CountModulus - 1 /\ Wrap(b - 1) = CountModulus - 1
      BY <1>1, <2>1 DEF Wrap
    <3> QED
      BY <3>2, <3>3
  <2>2. CASE b # 0
    <3>1. b - 1 \in 0 .. CountModulus - 1
      BY <1>1, <2>2
    <3>2. ((b - 1) + CountModulus) % CountModulus = b - 1
      BY <1>2, <3>1
    <3>3. Wrap(b) + CountModulus - 1 = (b - 1) + CountModulus /\ Wrap(b - 1) = b - 1
      BY <1>1, <2>2 DEF Wrap
    <3> QED
      BY <3>2, <3>3
  <2> QED
    BY <2>1, <2>2
<1>4. ASSUME NEW b \in -2 .. Blocks
      PROVE  (Wrap(b) + 1) % CountModulus = Wrap(b + 1)
  <2>1. CASE b = -1
    <3>1. 0 \in 0 .. CountModulus - 1
      BY <1>1
    <3>2. (0 + CountModulus) % CountModulus = 0
      BY <1>2, <3>1
    <3>3. Wrap(b) + 1 = 0 + CountModulus /\ Wrap(b + 1) = 0
      BY <1>1, <2>1 DEF Wrap
    <3> QED
      BY <3>2, <3>3
  <2>2. CASE b # -1
    <3>1. Wrap(b) + 1 \in 0 .. CountModulus - 1 /\ Wrap(b) + 1 = Wrap(b + 1)
      BY <1>1, <2>2 DEF Wrap
    <3>2. (Wrap(b) + 1) % CountModulus = Wrap(b) + 1
      BY <1>2, <3>1
    <3> QED
      BY <3>1, <3>2
  <2> QED
    BY <2>1, <2>2
<1> QED
  BY <1>3, <1>4

\* The counter stays between its bounds.
LEMMA BalanceBounds ==
    ASSUME NEW s, Len(s) \in 0 .. Blocks
    PROVE  /\ Waits(Producer, "count_taken") = 1 => Balance(s) \in 0 .. Blocks + 1
           /\ Waits(Producer, "count_given") = 1 \/ Waits(Consumer, "count_given") = 1 =>
                 Balance(s) \in -2 .. Blocks
           /\ Balance(s) \in -2 .. Blocks + 1
<1>2. /\ Waits(Producer, "count_taken") \in {0, 1} /\ Waits(Producer, "count_given") \in {0, 1}
      /\ Waits(Consumer, "count_given") \in {0, 1}
      /\ Waits(Producer, "count_taken") = 1 => Waits(Producer, "count_given") = 0
  BY DEF Waits
<1> QED
  BY <1>2, BlocksAssumption DEF Balance

\* The swap of allocate() succeeds, in either allocator: the block at the head is
\* the one whose link was read, and it has been in the list all along.
LEMMA TakeKeeps ==
    ASSUME NEW s, MemInv(s), UNCHANGED <<free_count, pinned>>, NEW aba \in Nat, NEW to,
           head.index = cur[Producer].index,
           Take(Producer, [aba |-> aba, index |-> nxt[Producer]], to),
           to = IF pinned THEN "count_taken" ELSE "allocated"
    PROVE  /\ MemInv(Tail(s))' /\ Others(Producer)
           /\ blk'[Producer] \in Elems(s)
           /\ Elems(Tail(s)) = Elems(s) \ {blk'[Producer]} /\ Len(Tail(s)) = Len(s) - 1
           /\ pc[Producer] = "take" /\ pc'[Producer] = to
<1> DEFINE d == Tail(s)
<1>1. /\ pc[Producer] = "take" /\ pc'[Producer] = to /\ DOMAIN pc' = Thread
      /\ \A u \in Thread \ {Producer} : pc'[u] = pc[u]
  BY TwoEnds, AtMoves, SMTT(20) DEF Take, MemInv, MemType
<1>2. cur[Producer].index \in Elems(s) /\ nxt[Producer] = link[cur[Producer].index]
  BY <1>1 DEF MemInv, SwapInv
<1>3. s \in Seq(Block) /\ s # <<>> /\ Once(s)
  BY <1>2, ElemsAreBlocks DEF MemInv, ListOf
<1>4. /\ d \in Seq(Block) /\ Once(d) /\ Len(s) \in Nat /\ Len(s) >= 1 /\ Len(d) = Len(s) - 1
      /\ s[1] \in Block /\ s[1] \in Elems(s) /\ Elems(d) = Elems(s) \ {s[1]}
      /\ \A k \in 1 .. Len(s) - 1 : d[k] = s[k + 1]
  BY <1>3, TailOnce
<1> HIDE DEF d
<1>5. cur[Producer].index = s[1] /\ nxt[Producer] = After(s, 1)
  BY <1>2, <1>4, SMTT(20) DEF MemInv, ListOf, IsFreeList, After
<1>6. /\ cur' \in [Thread -> HeadType] /\ nxt' \in [Thread -> Loc] /\ blk' \in [Thread -> Loc]
      /\ blk'[Producer] = s[1]
      /\ \A u \in Thread \ {Producer} : cur'[u] = cur[u] /\ nxt'[u] = nxt[u] /\ blk'[u] = blk[u]
  <2>1. s[1] \in Loc
    BY <1>4 DEF Loc
  <2> QED
    BY <1>5, <2>1, TwoEnds, Forgets, Zenon DEF Take, MemInv
<1>7. head'.index = After(s, 1) /\ head' \in HeadType /\ link' = link
  BY <1>5, TwoEnds DEF Take, MemInv, MemType, HeadType
<1>8. MemType'
  BY <1>1, <1>6, <1>7 DEF MemInv, MemType
<1>9. ListOf(d)'
  <2>1. After(s, 1) = After(d, 0)
    <3>1. CASE Len(d) = 0
      BY <1>4, <3>1, SMTT(20) DEF After
    <3>2. CASE Len(d) # 0
      <4>1. 1 < Len(s) /\ 0 < Len(d) /\ 1 \in 1 .. Len(s) - 1
        BY <1>4, <3>2, SMTT(20)
      <4>2. d[0 + 1] = s[1 + 1]
        BY <1>4, <4>1, SMTT(20)
      <4> QED
        BY <4>1, <4>2 DEF After
    <3> QED
      BY <3>1, <3>2
  <2>2. ASSUME NEW k \in 1 .. Len(d) PROVE link[d[k]] = After(d, k)
    <3>1. k + 1 \in 1 .. Len(s) /\ d[k] = s[k + 1]
      BY <1>4, SMTT(20)
    <3>2. link[s[k + 1]] = After(s, k + 1)
      BY <3>1 DEF MemInv, ListOf, IsFreeList
    <3>3. After(s, k + 1) = After(d, k)
      <4>1. CASE k < Len(d)
        <5>1. k + 1 < Len(s) /\ k + 1 \in 1 .. Len(s) - 1 /\ k \in Nat
          BY <1>4, <4>1, SMTT(20)
        <5>2. d[k + 1] = s[k + 1 + 1]
          BY <1>4, <5>1
        <5> QED
          BY <4>1, <5>1, <5>2 DEF After
      <4>2. CASE ~(k < Len(d))
        <5>1. ~(k + 1 < Len(s))
          BY <1>4, <4>2
        <5> QED
          BY <4>2, <5>1 DEF After
      <4> QED
        BY <4>1, <4>2
    <3> QED
      BY <3>1, <3>2, <3>3
  <2> QED
    BY <1>4, <1>7, <2>1, <2>2 DEF ListOf, IsFreeList
<1>10. SwapInv(d)'
  BY <1>1, <1>4, <1>6, <1>7, TwoEnds, SMTT(20) DEF MemInv, SwapInv, Giving, Ends
<1>11. CountInv(d)'
  <2> SUFFICES ASSUME pinned PROVE free_count' = Wrap(Balance(d)')
    BY DEF CountInv
  <2>1. Balance(d)' = Balance(s)
    <3>1. /\ Waits(Producer, "count_taken") = 0 /\ Waits(Producer, "count_taken")' = 1
          /\ Waits(Producer, "count_given") = 0 /\ Waits(Producer, "count_given")' = 0
          /\ Waits(Consumer, "count_given")' = Waits(Consumer, "count_given")
      BY <1>1, TwoEnds DEF Waits
    <3>2. Waits(Consumer, "count_given") \in {0, 1}
      BY DEF Waits
    <3> QED
      BY <1>4, <3>1, <3>2, SMTT(20) DEF Balance
  <2> QED
    BY <2>1 DEF MemInv, CountInv
<1> QED
  BY <1>1, <1>4, <1>6, <1>8, <1>9, <1>10, <1>11 DEF MemInv, Others, d

\* deallocate() writes the link of its block, which nobody else reaches.
LEMMA WriteLinkKeeps ==
    ASSUME NEW s, MemInv(s), UNCHANGED <<free_count, pinned>>, NEW t \in Ends, WriteLink(t)
    PROVE  /\ MemInv(s)' /\ UNCHANGED blk /\ Others(t)
           /\ pc[t] = "link" /\ pc'[t] = "give"
<1>0. t \in Thread
  BY TwoEnds
<1>1. /\ pc[t] = "link" /\ pc'[t] = "give" /\ DOMAIN pc' = Thread
      /\ \A u \in Thread \ {t} : pc'[u] = pc[u]
  BY <1>0, AtMoves DEF WriteLink, MemInv, MemType
<1>2. blk[t] \in Block \ Elems(s)
  BY <1>1 DEF MemInv, SwapInv, Giving
<1>3. /\ UNCHANGED <<head, cur, nxt, blk>> /\ link' \in [Block -> Loc]
      /\ link'[blk[t]] = cur[t].index
      /\ \A b \in Block \ {blk[t]} : link'[b] = link[b]
  <2>1. cur[t].index \in Loc
    BY <1>0 DEF MemInv, MemType, HeadType
  <2> QED
    BY <1>2, <2>1 DEF WriteLink, MemInv, MemType, registers
<1>4. \A b \in Elems(s) : b \in Block /\ link'[b] = link[b]
  BY <1>2, <1>3, ElemsAreBlocks DEF MemInv, ListOf
<1>5. MemType'
  BY <1>1, <1>3 DEF MemInv, MemType
<1>6. ListOf(s)'
  <2>1. \A k \in 1 .. Len(s) : link'[s[k]] = link[s[k]]
    BY <1>4 DEF Elems
  <2> QED
    BY <1>3, <2>1 DEF MemInv, ListOf, IsFreeList
<1>7. SwapInv(s)'
  <2>1. CASE t = Producer
    BY <1>1, <1>2, <1>3, <1>4, <2>1, TwoEnds, SMTT(20) DEF MemInv, SwapInv, Giving, Ends
  <2>2. CASE t = Consumer
    BY <1>1, <1>2, <1>3, <1>4, <2>2, TwoEnds, SMTT(20) DEF MemInv, SwapInv, Giving, Ends
  <2> QED
    BY <2>1, <2>2 DEF Ends
<1>8. CountInv(s)'
  BY <1>0, <1>1, TwoEnds, Zenon DEF MemInv, CountInv, Balance, Waits, Ends
<1> QED
  BY <1>1, <1>3, <1>5, <1>6, <1>7, <1>8 DEF MemInv, Others

\* The swap of deallocate() succeeds, in either allocator.
LEMMA GiveKeeps ==
    ASSUME NEW s, MemInv(s), UNCHANGED <<free_count, pinned>>, NEW aba \in Nat, NEW to,
           NEW t \in Ends, head.index = cur[t].index,
           Give(t, [aba |-> aba, index |-> blk[t]], to),
           to = IF pinned THEN "count_given" ELSE "freed"
    PROVE  /\ \E d : MemInv(d)' /\ Elems(d) = Elems(s) \cup {blk[t]} /\ Len(d) = Len(s) + 1
           /\ Others(t)
           /\ pc[t] = "give" /\ pc'[t] = to /\ blk'[t] = END_OF_LIST
<1>0. t \in Thread
  BY TwoEnds
<1>1. /\ pc[t] = "give" /\ pc'[t] = to /\ DOMAIN pc' = Thread
      /\ \A u \in Thread \ {t} : pc'[u] = pc[u]
  BY <1>0, AtMoves, SMTT(20) DEF Give, MemInv, MemType
<1> PICK b : b = blk[t]
  BY Zenon
<1>2. b \in Block \ Elems(s) /\ link[b] = head.index
  BY <1>1 DEF MemInv, SwapInv, Giving
<1> DEFINE d == <<b>> \o s
<1>3. s \in Seq(Block) /\ Once(s) /\ Len(s) \in Nat
  BY ElemsAreBlocks DEF MemInv, ListOf
<1>4. /\ d \in Seq(Block) /\ Once(d) /\ Len(d) = Len(s) + 1 /\ Elems(d) = Elems(s) \cup {b}
      /\ d[1] = b /\ \A k \in 1 .. Len(s) : d[k + 1] = s[k]
  BY <1>2, <1>3, ConsOnce
<1> HIDE DEF d
<1>5. /\ cur' \in [Thread -> HeadType] /\ nxt' \in [Thread -> Loc] /\ blk' \in [Thread -> Loc]
      /\ blk'[t] = END_OF_LIST
      /\ \A u \in Thread \ {t} : cur'[u] = cur[u] /\ nxt'[u] = nxt[u] /\ blk'[u] = blk[u]
  <2>1. END_OF_LIST \in Loc
    BY DEF Loc
  <2> QED
    BY <1>0, <2>1, Forgets, Zenon DEF Give, MemInv
<1>6. head'.index = b /\ head' \in HeadType /\ link' = link
  BY <1>2 DEF Give, HeadType, Loc
<1>7. MemType'
  BY <1>1, <1>5, <1>6 DEF MemInv, MemType
<1>8. ListOf(d)'
  <2>1. After(d, 0) = b
    BY <1>3, <1>4, SMTT(20) DEF After
  <2>2. ASSUME NEW k \in 0 .. Len(s) PROVE After(d, k + 1) = After(s, k)
    <3>1. CASE k < Len(s)
      <4>1. k + 1 \in 1 .. Len(s) /\ k + 1 < Len(d)
        BY <1>3, <1>4, <3>1
      <4>2. d[k + 1 + 1] = s[k + 1]
        BY <1>4, <4>1
      <4> QED
        BY <3>1, <4>1, <4>2 DEF After
    <3>2. CASE ~(k < Len(s))
      <4>1. ~(k + 1 < Len(d))
        BY <1>3, <1>4, <3>2
      <4> QED
        BY <3>2, <4>1 DEF After
    <3> QED
      BY <3>1, <3>2
  <2>3. ASSUME NEW k \in 1 .. Len(d) PROVE link[d[k]] = After(d, k)
    <3>1. CASE k = 1
      <4>1. 0 \in 0 .. Len(s) /\ 0 + 1 = 1
        BY <1>3
      <4>2. After(d, 1) = After(s, 0)
        BY <2>2, <4>1
      <4> QED
        BY <1>2, <1>4, <3>1, <4>2 DEF MemInv, ListOf, IsFreeList
    <3>2. CASE k # 1
      <4> PICK j \in 1 .. Len(s) : k = j + 1
        <5>1. k - 1 \in 1 .. Len(s) /\ k = k - 1 + 1
          BY <1>3, <1>4, <3>2, SMTT(20)
        <5> QED
          BY <5>1
      <4>1. d[k] = s[j] /\ j \in 0 .. Len(s)
        BY <1>3, <1>4, SMTT(20)
      <4>2. link[s[j]] = After(s, j)
        BY DEF MemInv, ListOf, IsFreeList
      <4> QED
        BY <2>2, <4>1, <4>2
    <3> QED
      BY <3>1, <3>2
  <2> QED
    BY <1>4, <1>6, <2>1, <2>3 DEF ListOf, IsFreeList
<1>9. SwapInv(d)'
  <2>0. to \in {"count_given", "freed"}
    OBVIOUS
  <2>1. CASE t = Producer
    <3>1. /\ pc'[Consumer] = pc[Consumer] /\ blk'[Consumer] = blk[Consumer]
          /\ cur'[Consumer] = cur[Consumer] /\ pc'[Producer] \in {"count_given", "freed"}
      BY <1>1, <1>5, <2>0, <2>1, TwoEnds
    <3>2. Giving(Consumer) => blk[Consumer] \in Block \ Elems(d)
      BY <1>1, <1>4, <2>1 DEF MemInv, SwapInv, Giving, Ends
    <3> QED
      BY <1>6, <3>1, <3>2 DEF MemInv, SwapInv, Giving, Ends
  <2>2. CASE t = Consumer
    BY <1>1, <1>2, <1>4, <1>5, <1>6, <2>2, TwoEnds, SMTT(20) DEF MemInv, SwapInv, Giving, Ends
  <2> QED
    BY <2>1, <2>2 DEF Ends
<1>10. CountInv(d)'
  <2> SUFFICES ASSUME pinned PROVE free_count' = Wrap(Balance(d)')
    BY DEF CountInv
  <2>1. Balance(d)' = Balance(s)
    <3>1. /\ Waits(t, "count_given") = 0 /\ Waits(t, "count_given")' = 1
          /\ Waits(Producer, "count_taken")' = Waits(Producer, "count_taken")
      BY <1>0, <1>1, TwoEnds DEF Waits
    <3>2. \A u \in Ends \ {t} : Waits(u, "count_given")' = Waits(u, "count_given")
      BY <1>1, TwoEnds DEF Waits
    <3>3. \A u \in Ends : Waits(u, "count_given") \in {0, 1} /\ Waits(u, "count_taken") \in {0, 1}
      BY DEF Waits
    <3> QED
      BY <1>3, <1>4, <3>1, <3>2, <3>3, TwoEnds, SMTT(20) DEF Balance, Ends
  <2> QED
    BY <2>1 DEF MemInv, CountInv
<1>11. MemInv(d)'
  BY <1>7, <1>8, <1>9, <1>10 DEF MemInv
<1> QED
  BY <1>1, <1>4, <1>5, <1>11 DEF Others

\* A step of the counter alone, up or down, after the list has changed.
LEMMA CountStepKeeps ==
    ASSUME NEW s, MemInv(s), Len(s) \in 0 .. Blocks,
           pinned, UNCHANGED <<freeList, registers, pinned>>,
           NEW t \in Ends, NEW from, NEW to, At(t, from, to),
           \/ /\ t = Producer /\ from = "count_taken" /\ to = "allocated"
              /\ free_count' = (free_count + CountModulus - 1) % CountModulus
           \/ /\ from = "count_given" /\ to = "freed"
              /\ free_count' = (free_count + 1) % CountModulus
    PROVE  MemInv(s)' /\ UNCHANGED blk /\ Others(t) /\ pc[t] = from /\ pc'[t] = to
<1>0. t \in Thread /\ UNCHANGED <<head, link, cur, nxt, blk>>
  BY TwoEnds DEF freeList, registers
<1>1. /\ pc[t] = from /\ pc'[t] = to /\ DOMAIN pc' = Thread
      /\ \A u \in Thread \ {t} : pc'[u] = pc[u]
  BY <1>0, AtMoves DEF MemInv, MemType
<1>2. MemType' /\ ListOf(s)'
  BY <1>0, <1>1 DEF MemInv, MemType, ListOf, IsFreeList
<1>3. SwapInv(s)'
  BY <1>0, <1>1, TwoEnds DEF MemInv, SwapInv, Giving, Ends
<1>4. \A u \in Ends \ {t} : \A w \in {"count_taken", "count_given"} : Waits(u, w)' = Waits(u, w)
  BY <1>1, TwoEnds DEF Waits
<1>5. \A u \in Ends : Waits(u, "count_given") \in {0, 1} /\ Waits(u, "count_taken") \in {0, 1}
  BY DEF Waits
<1>6. free_count = Wrap(Balance(s)) /\ Len(s) \in Nat
  BY DEF MemInv, CountInv
<1>7. CASE from = "count_taken"
  <2>1. /\ Waits(Producer, "count_taken") = 1 /\ Waits(Producer, "count_taken")' = 0
        /\ Waits(Producer, "count_given") = 0 /\ Waits(Producer, "count_given")' = 0
    BY <1>1, <1>7, TwoEnds DEF Waits
  <2>2. Balance(s)' = Balance(s) - 1
    BY <1>4, <1>5, <1>6, <1>7, <2>1, TwoEnds DEF Balance, Ends
  <2>3. Balance(s) \in 0 .. Blocks + 1
    BY <2>1, BalanceBounds
  <2>4. (Wrap(Balance(s)) + CountModulus - 1) % CountModulus = Wrap(Balance(s) - 1)
    BY <2>3, CountWraps
  <2>5. free_count' = Wrap(Balance(s)')
    BY <1>6, <1>7, <2>2, <2>4
  <2> QED
    BY <1>0, <1>1, <1>2, <1>3, <2>5 DEF MemInv, CountInv, Others
<1>8. CASE from = "count_given"
  <2>1. /\ Waits(t, "count_given") = 1 /\ Waits(t, "count_given")' = 0
        /\ Waits(t, "count_taken") = 0 /\ Waits(t, "count_taken")' = 0
    BY <1>0, <1>1, <1>8 DEF Waits
  <2>2. Balance(s)' = Balance(s) + 1
    BY <1>4, <1>5, <1>6, <1>8, <2>1, TwoEnds DEF Balance, Ends
  <2>3. Balance(s) \in -2 .. Blocks
    BY <2>1, BalanceBounds DEF Ends
  <2>4. (Wrap(Balance(s)) + 1) % CountModulus = Wrap(Balance(s) + 1)
    BY <2>3, CountWraps
  <2>5. free_count' = Wrap(Balance(s)')
    BY <1>6, <1>8, <2>2, <2>4
  <2> QED
    BY <1>0, <1>1, <1>2, <1>3, <2>5 DEF MemInv, CountInv, Others
<1> QED
  BY <1>7, <1>8

\* Both allocators put the index they want in the head, with some ABA counter.
LEMMA NewHead ==
    ASSUME NEW h \in HeadType, NEW i
    PROVE  /\ \E aba \in Nat : Pack(h.aba + 1, i) = [aba |-> aba, index |-> i]
           /\ \E aba \in Nat : [h EXCEPT !.index = i] = [aba |-> aba, index |-> i]
<1>1. h.aba \in Nat /\ (h.aba + 1) % AbaModulus \in Nat
  BY AbaAssumption, SMTT(20) DEF HeadType
<1>2. [h EXCEPT !.index = i] = [aba |-> h.aba, index |-> i]
  BY DEF HeadType
<1> QED
  BY <1>1, <1>2 DEF Pack

\* What a step of allocate() does, from n free blocks F to n2 free blocks F2.
AllocateEffect(F, F2, n, n2) ==
    /\ Others(Producer)
    /\ \/ /\ pc[Producer] \in {"alloc", "next", "take"} /\ pc'[Producer] \in {"next", "take"}
          /\ blk' = blk /\ F2 = F /\ n2 = n
       \/ /\ pc[Producer] = "next" /\ pc'[Producer] = "allocated"
          /\ blk'[Producer] = END_OF_LIST /\ F2 = F /\ n2 = n
       \/ /\ pc[Producer] = "take" /\ pc'[Producer] \in {"count_taken", "allocated"}
          /\ blk'[Producer] \in F /\ F2 = F \ {blk'[Producer]} /\ n2 = n - 1
       \/ /\ pc[Producer] = "count_taken" /\ pc'[Producer] = "allocated"
          /\ blk' = blk /\ F2 = F /\ n2 = n

\* Whichever the allocator, a step of allocate() has one of these effects.
LEMMA AllocateKeeps ==
    ASSUME NEW s, MemInv(s), Len(s) \in 0 .. Blocks, AllocateStep(Producer), UNCHANGED pinned
    PROVE  \E s2 : MemInv(s2)' /\ AllocateEffect(Elems(s), Elems(s2), Len(s), Len(s2))
<1>0. Producer \in Ends /\ head \in HeadType /\ cur[Producer] \in HeadType
  BY TwoEnds DEF Ends, MemInv, MemType
<1>1. CASE UNCHANGED free_count /\ LoadHead(Producer, "alloc", "next")
  BY <1>0, <1>1, LoadHeadKeeps DEF AllocateEffect
<1>2. CASE UNCHANGED free_count /\ Exhausted(Producer)
  BY <1>2, ExhaustedKeeps DEF AllocateEffect
<1>3. CASE UNCHANGED free_count /\ ReadLink(Producer)
  BY <1>3, ReadLinkKeeps DEF AllocateEffect
<1>4. CASE UNCHANGED free_count /\ Retry(Producer, "take", "next")
  BY <1>0, <1>4, LoadHeadKeeps DEF AllocateEffect, Retry
<1>5. CASE /\ ~pinned /\ UNCHANGED free_count /\ head = cur[Producer]
           /\ Take(Producer, Pack(cur[Producer].aba + 1, nxt[Producer]), "allocated")
  <2>1. PICK aba \in Nat : Pack(cur[Producer].aba + 1, nxt[Producer]) = [aba |-> aba, index |-> nxt[Producer]]
    BY Zenon, <1>0, NewHead
  <2>2. Take(Producer, [aba |-> aba, index |-> nxt[Producer]], "allocated")
    BY Zenon, <1>5, <2>1
  <2> QED
    BY <1>5, <2>2, TakeKeeps DEF AllocateEffect
<1>6. CASE /\ pinned /\ UNCHANGED free_count /\ head.index = cur[Producer].index
           /\ Take(Producer, [head EXCEPT !.index = nxt[Producer]], "count_taken")
  <2>1. PICK aba \in Nat : [head EXCEPT !.index = nxt[Producer]] = [aba |-> aba, index |-> nxt[Producer]]
    BY <1>0 DEF HeadType
  <2>2. Take(Producer, [aba |-> aba, index |-> nxt[Producer]], "count_taken")
    BY Zenon, <1>6, <2>1
  <2> QED
    BY <1>6, <2>2, TakeKeeps DEF AllocateEffect
<1>7. CASE /\ pinned /\ At(Producer, "count_taken", "allocated")
           /\ free_count' = (free_count + CountModulus - 1) % CountModulus
           /\ UNCHANGED <<freeList, registers>>
  BY <1>0, <1>7, CountStepKeeps DEF AllocateEffect
<1> QED
  BY <1>1, <1>2, <1>3, <1>4, <1>5, <1>6, <1>7 DEF AllocateStep, PinnedAllocate, SlabAllocate

\* What a step of deallocate() in thread t does.
DeallocateEffect(t, F, F2, n, n2) ==
    /\ Others(t)
    /\ \/ /\ pc[t] \in {"free", "link", "give"} /\ pc'[t] \in {"link", "give"}
          /\ blk' = blk /\ F2 = F /\ n2 = n
       \/ /\ pc[t] = "give" /\ pc'[t] \in {"count_given", "freed"}
          /\ blk'[t] = END_OF_LIST /\ F2 = F \cup {blk[t]} /\ n2 = n + 1
       \/ /\ pc[t] = "count_given" /\ pc'[t] = "freed"
          /\ blk' = blk /\ F2 = F /\ n2 = n

\* Whichever the allocator, a step of deallocate() has one of these effects.
LEMMA DeallocateKeeps ==
    ASSUME NEW s, MemInv(s), Len(s) \in 0 .. Blocks,
           NEW t \in Ends, DeallocateStep(t), UNCHANGED pinned
    PROVE  \E s2 : MemInv(s2)' /\ DeallocateEffect(t, Elems(s), Elems(s2), Len(s), Len(s2))
<1>0. t \in Thread /\ head \in HeadType /\ cur[t] \in HeadType
  BY TwoEnds DEF MemInv, MemType
<1>1. CASE UNCHANGED free_count /\ LoadHead(t, "free", "link")
  BY <1>1, LoadHeadKeeps DEF DeallocateEffect
<1>2. CASE UNCHANGED free_count /\ WriteLink(t)
  BY <1>2, WriteLinkKeeps DEF DeallocateEffect
<1>3. CASE UNCHANGED free_count /\ Retry(t, "give", "link")
  BY <1>3, LoadHeadKeeps DEF DeallocateEffect, Retry
<1>4. CASE /\ ~pinned /\ UNCHANGED free_count /\ head = cur[t]
           /\ Give(t, Pack(cur[t].aba + 1, blk[t]), "freed")
  <2>1. PICK aba \in Nat : Pack(cur[t].aba + 1, blk[t]) = [aba |-> aba, index |-> blk[t]]
    BY Zenon, <1>0, NewHead
  <2>2. Give(t, [aba |-> aba, index |-> blk[t]], "freed")
    BY Zenon, <1>4, <2>1
  <2> QED
    BY <1>4, <2>2, GiveKeeps, SMTT(20) DEF DeallocateEffect
<1>5. CASE /\ pinned /\ UNCHANGED free_count /\ head.index = cur[t].index
           /\ Give(t, [head EXCEPT !.index = blk[t]], "count_given")
  <2>1. PICK aba \in Nat : [head EXCEPT !.index = blk[t]] = [aba |-> aba, index |-> blk[t]]
    BY <1>0 DEF HeadType
  <2>2. Give(t, [aba |-> aba, index |-> blk[t]], "count_given")
    BY Zenon, <1>5, <2>1
  <2> QED
    BY <1>5, <2>2, GiveKeeps, SMTT(20) DEF DeallocateEffect
<1>6. CASE /\ pinned /\ At(t, "count_given", "freed")
           /\ free_count' = (free_count + 1) % CountModulus
           /\ UNCHANGED <<freeList, registers>>
  BY <1>6, CountStepKeeps DEF DeallocateEffect
<1> QED
  BY <1>1, <1>2, <1>3, <1>4, <1>5, <1>6 DEF DeallocateStep, PinnedDeallocate, SlabDeallocate

\* A step elsewhere, that may give thread t a block to work with or to free.
LEMMA MemoryKeeps ==
    ASSUME NEW s, MemInv(s), UNCHANGED <<freeList, cur, nxt, free_count, pinned>>,
           NEW t \in Ends, DOMAIN pc' = Thread, Others(t), blk' \in [Thread -> Loc],
           pc[t] \notin {"count_taken", "count_given"},
           pc'[t] \notin {"next", "take", "count_taken", "link", "give", "count_given"},
           pc'[t] = "free" =>
              /\ blk'[t] \in Block \ Elems(s)
              /\ \A u \in Ends \ {t} : Giving(u) => blk[u] # blk'[t]
    PROVE  MemInv(s)'
<1>0. t \in Thread /\ UNCHANGED <<head, link, cur, nxt>>
  BY TwoEnds DEF freeList
<1>1. MemType' /\ ListOf(s)'
  BY <1>0 DEF MemInv, MemType, ListOf, IsFreeList
<1>2. SwapInv(s)'
  <2>1. CASE t = Producer
    BY <1>0, <2>1, TwoEnds, SMTT(20) DEF MemInv, SwapInv, Giving, Ends, Others
  <2>2. CASE t = Consumer
    BY <1>0, <2>2, TwoEnds, SMTT(20) DEF MemInv, SwapInv, Giving, Ends, Others
  <2> QED
    BY <2>1, <2>2 DEF Ends
<1>3. CountInv(s)'
  <2>1. \A u \in Ends : \A w \in {"count_taken", "count_given"} : Waits(u, w)' = Waits(u, w)
    BY TwoEnds DEF Waits, Others
  <2> QED
    BY <2>1 DEF MemInv, CountInv, Balance, Ends
<1> QED
  BY <1>1, <1>2, <1>3 DEF MemInv
=============================================================================

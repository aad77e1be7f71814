---------------------------- MODULE ConduitProofs ----------------------------
(***************************************************************************)
(* cre::conduit is a bounded FIFO queue, for every ring size and every set *)
(* of pointers: the invariant of its two threads, and the refinement.      *)
(* And round_robin_poller bounds the wait of every conduit it polls, for   *)
(* any number of tracks: the bypasses a track has suffered and its         *)
(* distance from the start of the next poll() never add up to more than    *)
(* NumInputs - 1.                                                          *)
(* And pipeline::dispatch calls no handler with an event that it does not  *)
(* own alone, and lets no two owners free one event, for any hierarchy of  *)
(* types and any handlers.                                                 *)
(***************************************************************************)
EXTENDS Conduit, RoundRobinPoller, Pipeline, TLAPS

\* Time for the provers; a leaf that names another prover goes to that one.
USE ZenonT(3), SMTT(20)

\* The two indices are where the code's modular arithmetic says.
LEMMA SuccWraps ==
    ASSUME NEW j \in Slots
    PROVE  /\ Succ(j) \in Slots
           /\ Succ(j) = IF j = Size - 1 THEN 0 ELSE j + 1
BY SizeAssumption DEF Succ, Slots

\* The slot j places after r, without the modulus.
LEMMA SlotAtWraps ==
    ASSUME NEW r \in Slots, NEW j \in 0 .. Size
    PROVE  /\ SlotAt(r, j) \in Slots
           /\ SlotAt(r, j) = IF r + j < Size THEN r + j ELSE r + j - Size
<1>1. CASE r + j < Size
  BY <1>1, SizeAssumption DEF SlotAt, Slots
<1>2. CASE r + j >= Size
  BY <1>2, SizeAssumption DEF SlotAt, Slots
<1> QED
  BY <1>1, <1>2, SizeAssumption DEF Slots

\* Full and empty, as the code tests them, are the extremes of Count.
LEMMA CountProperties ==
    ASSUME NEW r \in Slots, NEW w \in Slots
    PROVE  /\ Count(r, w) \in 0 .. Size - 1
           /\ IsFull(r, w) <=> Count(r, w) = Size - 1
           /\ IsEmpty(r, w) <=> Count(r, w) = 0
           /\ SlotAt(r, Count(r, w)) = w
           /\ ~IsFull(r, w) => Count(r, Succ(w)) = Count(r, w) + 1
           /\ ~IsEmpty(r, w) => Count(Succ(r), w) = Count(r, w) - 1
<1>1. /\ Succ(w) = IF w = Size - 1 THEN 0 ELSE w + 1
      /\ Succ(r) = IF r = Size - 1 THEN 0 ELSE r + 1
  BY SuccWraps
<1>2. Count(r, w) \in 0 .. Size - 1
  BY SizeAssumption DEF Count, Slots
<1>3. SlotAt(r, Count(r, w)) = IF r + Count(r, w) < Size
                               THEN r + Count(r, w) ELSE r + Count(r, w) - Size
  BY <1>2, SlotAtWraps, SizeAssumption
<1>4. SlotAt(r, Count(r, w)) = w
  BY <1>3, SizeAssumption DEF Count, Slots
<1> QED
  BY <1>1, <1>2, <1>4, SizeAssumption DEF Count, IsFull, IsEmpty, Slots

\* The slots of the pointers in the ring differ from the one written next,
\* and follow each other round the ring.
LEMMA SlotProperties ==
    ASSUME NEW r \in Slots, NEW w \in Slots, NEW j \in 0 .. Size - 1, j < Count(r, w)
    PROVE  /\ SlotAt(r, j) \in Slots
           /\ SlotAt(r, j) # w
           /\ SlotAt(Succ(r), j) = SlotAt(r, j + 1)
<1>1. SlotAt(r, j) \in Slots /\ SlotAt(r, j) = IF r + j < Size THEN r + j ELSE r + j - Size
  BY SlotAtWraps, SizeAssumption
<1>2. SlotAt(r, j + 1) = IF r + (j + 1) < Size THEN r + (j + 1) ELSE r + (j + 1) - Size
  <2>1. j + 1 \in 0 .. Size
    BY SizeAssumption
  <2> QED
    BY <2>1, SlotAtWraps
<1>3. Succ(r) \in Slots /\ Succ(r) = IF r = Size - 1 THEN 0 ELSE r + 1
  BY SuccWraps
<1>4. SlotAt(Succ(r), j) = IF Succ(r) + j < Size THEN Succ(r) + j ELSE Succ(r) + j - Size
  BY <1>3, SlotAtWraps, SizeAssumption, SMTT(20)
<1>5. SlotAt(r, j) # w
  BY <1>1, SizeAssumption DEF Count, Slots
<1>6. SlotAt(Succ(r), j) = SlotAt(r, j + 1)
  BY <1>2, <1>3, <1>4, SizeAssumption DEF Slots
<1> QED
  BY <1>1, <1>5, <1>6

\* The pointers between two indices are a sequence.
LEMMA BetweenIsSeq ==
    ASSUME NEW S, NEW slots \in [Slots -> S], NEW r \in Slots, NEW w \in Slots
    PROVE  Between(slots, r, w) \in Seq(S)
<1> DEFINE n == Count(r, w)
           b == Between(slots, r, w)
<1>1. n \in 0 .. Size - 1 /\ n \in Nat
  BY CountProperties, SizeAssumption, SMTT(20)
<1>2. ASSUME NEW j \in 1 .. n PROVE slots[SlotAt(r, j - 1)] \in S
  <2>1. j - 1 \in 0 .. Size
    BY <1>1, SizeAssumption
  <2> QED
    BY <2>1, SlotAtWraps
<1>3. b \in [1 .. n -> S]
  BY <1>2 DEF Between
<1> QED
  BY <1>1, <1>3, SMTT(20)

\* As many pointers lie between two indices as Count says.
LEMMA BetweenLen ==
    ASSUME NEW S, NEW slots \in [Slots -> S], NEW r \in Slots, NEW w \in Slots
    PROVE  Len(Between(slots, r, w)) = Count(r, w)
<1> DEFINE n == Count(r, w)
           b == Between(slots, r, w)
<1>1. n \in Nat
  BY CountProperties, SizeAssumption, SMTT(20)
<1>2. b \in Seq(S)
  BY BetweenIsSeq
<1>3. DOMAIN b = 1 .. n
  BY DEF Between
<1> QED
  BY <1>1, <1>2, <1>3

\* The j-th pointer from r on is in the slot j - 1 places after r.
LEMMA BetweenElement ==
    ASSUME NEW r, NEW w, NEW slots, NEW j \in 1 .. Count(r, w)
    PROVE  Between(slots, r, w)[j] = slots[SlotAt(r, j - 1)]
BY DEF Between

\* Moving w one slot on appends the pointer in slot w.
LEMMA BetweenAppend ==
    ASSUME NEW S, NEW slots \in [Slots -> S], NEW r \in Slots, NEW w \in Slots,
           NEW x \in Slots, x = Succ(w), ~IsFull(r, w)
    PROVE  Between(slots, r, x) = Append(Between(slots, r, w), slots[w])
<1> DEFINE n == Count(r, w)
           b == Between(slots, r, w)
           c == Between(slots, r, x)
<1>1. /\ n \in 0 .. Size - 1
      /\ Count(r, x) = n + 1 /\ SlotAt(r, n) = w
  BY CountProperties, SuccWraps
<1>2. /\ b \in Seq(S) /\ Len(b) = n
      /\ \A j \in 1 .. n : b[j] = slots[SlotAt(r, j - 1)]
  <2>1. b \in Seq(S)
    BY BetweenIsSeq
  <2>2. Len(b) = n
    BY BetweenLen
  <2>3. \A j \in 1 .. n : b[j] = slots[SlotAt(r, j - 1)]
    BY BetweenElement, SMTT(20)
  <2> QED
    BY <2>1, <2>2, <2>3
<1>3. /\ c \in Seq(S) /\ Len(c) = n + 1
      /\ \A j \in 1 .. n + 1 : c[j] = slots[SlotAt(r, j - 1)]
  <2>1. c \in Seq(S)
    BY BetweenIsSeq
  <2>2. Len(c) = Count(r, x)
    BY BetweenLen
  <2>3. \A j \in 1 .. Count(r, x) : c[j] = slots[SlotAt(r, j - 1)]
    BY BetweenElement, SMTT(20)
  <2> QED
    BY <1>1, <2>1, <2>2, <2>3
<1> DEFINE d == Append(b, slots[w])
<1>4. /\ d \in Seq(S) /\ Len(d) = n + 1
      /\ \A j \in 1 .. n : d[j] = b[j]
      /\ d[n + 1] = slots[w]
  BY <1>2
<1> HIDE DEF b, c, d, n
<1>5. ASSUME NEW j \in 1 .. n + 1 PROVE c[j] = d[j]
  <2>1. CASE j \in 1 .. n
    BY <1>2, <1>3, <1>4, <2>1
  <2>2. CASE j = n + 1
    <3>1. n + 1 - 1 = n
      BY <1>1, SizeAssumption
    <3> QED
      BY <1>1, <1>3, <1>4, <2>2, <3>1, SMTT(20)
  <2> QED
    BY <1>1, <2>1, <2>2
<1>6. c = d
  BY <1>3, <1>4, <1>5
<1> QED
  BY <1>6 DEF b, c, d

\* Moving r one slot on removes the pointer in slot r, the oldest one.
LEMMA BetweenTail ==
    ASSUME NEW S, NEW slots \in [Slots -> S], NEW r \in Slots, NEW w \in Slots,
           NEW x \in Slots, x = Succ(r), ~IsEmpty(r, w)
    PROVE  /\ Between(slots, r, w) # <<>>
           /\ Head(Between(slots, r, w)) = slots[r]
           /\ Between(slots, x, w) = Tail(Between(slots, r, w))
<1> DEFINE n == Count(r, w)
           b == Between(slots, r, w)
           c == Between(slots, x, w)
<1>1. /\ n \in 1 .. Size - 1
      /\ Count(x, w) = n - 1
  BY CountProperties, SuccWraps, SizeAssumption, SMTT(20)
<1>2. /\ b \in Seq(S) /\ Len(b) = n
      /\ \A j \in 1 .. n : b[j] = slots[SlotAt(r, j - 1)]
  <2>1. b \in Seq(S)
    BY BetweenIsSeq
  <2>2. Len(b) = n
    BY BetweenLen
  <2>3. \A j \in 1 .. n : b[j] = slots[SlotAt(r, j - 1)]
    BY BetweenElement, SMTT(20)
  <2> QED
    BY <2>1, <2>2, <2>3
<1>3. /\ c \in Seq(S) /\ Len(c) = n - 1
      /\ \A j \in 1 .. n - 1 : c[j] = slots[SlotAt(x, j - 1)]
  <2>1. c \in Seq(S)
    BY BetweenIsSeq
  <2>2. Len(c) = Count(x, w)
    BY BetweenLen
  <2>3. \A j \in 1 .. Count(x, w) : c[j] = slots[SlotAt(x, j - 1)]
    BY BetweenElement, SMTT(20)
  <2> QED
    BY <1>1, <2>1, <2>2, <2>3
<1>4. SlotAt(r, 0) = r
  BY SlotAtWraps, SizeAssumption, SMTT(20) DEF Slots
<1>5. ASSUME NEW j \in 1 .. n - 1
      PROVE  SlotAt(x, j - 1) = SlotAt(r, j + 1 - 1)
  <2>1. j - 1 \in 0 .. Size - 1 /\ j - 1 < n /\ j - 1 + 1 = j + 1 - 1
    BY <1>1, SizeAssumption
  <2>2. SlotAt(x, j - 1) = SlotAt(r, j - 1 + 1)
    BY <2>1, SlotProperties, SMTT(20)
  <2> QED
    BY <2>1, <2>2
<1> HIDE DEF b, c, n
<1>6. b # <<>> /\ Head(b) = slots[r]
  <2>1. 1 \in 1 .. n /\ 1 - 1 = 0
    BY <1>1, SizeAssumption
  <2>2. b[1] = slots[r]
    BY <1>2, <1>4, <2>1
  <2>3. b # <<>>
    BY <1>1, <1>2, SizeAssumption
  <2> QED
    BY <1>2, <2>2, <2>3, SMTT(20)
<1> DEFINE d == Tail(b)
<1>7. /\ d \in Seq(S) /\ Len(d) = n - 1
      /\ \A j \in 1 .. n - 1 : d[j] = b[j + 1]
  BY <1>2, <1>6, SMTT(20)
<1> HIDE DEF d
<1>8. ASSUME NEW j \in 1 .. n - 1 PROVE c[j] = d[j]
  <2>1. j + 1 \in 1 .. n
    BY <1>1, SizeAssumption
  <2>2. b[j + 1] = slots[SlotAt(r, j + 1 - 1)]
    BY <1>2, <2>1
  <2> QED
    BY <1>3, <1>5, <1>7, <2>2
<1>9. c = d
  BY <1>3, <1>7, <1>8
<1> QED
  BY <1>6, <1>9 DEF b, c, d

\* Writing slot w leaves the pointers before it alone.
LEMMA BetweenWrite ==
    ASSUME NEW slots, NEW new, NEW r \in Slots, NEW w \in Slots,
           \A s \in Slots \ {w} : new[s] = slots[s]
    PROVE  Between(new, r, w) = Between(slots, r, w)
<1>1. ASSUME NEW j \in 1 .. Count(r, w)
      PROVE  new[SlotAt(r, j - 1)] = slots[SlotAt(r, j - 1)]
  <2>1. Count(r, w) \in 0 .. Size - 1
    BY CountProperties
  <2>2. j - 1 \in 0 .. Size - 1 /\ j - 1 < Count(r, w)
    BY <2>1, SizeAssumption
  <2>3. SlotAt(r, j - 1) \in Slots /\ SlotAt(r, j - 1) # w
    BY <2>2, SlotProperties
  <2> QED
    BY <2>3
<1> QED
  BY <1>1 DEF Between

\* The inductive invariant.
IInv == TypeOK /\ ChecksStayValid

\* The empty ring satisfies the inductive invariant.
LEMMA InitInv == Init => IInv
<1> SUFFICES ASSUME Init PROVE IInv
  OBVIOUS
<1>1. 0 \in Slots
  BY SizeAssumption DEF Slots
<1>2. TypeOK
  BY <1>1 DEF Init, TypeOK
<1>3. ChecksStayValid
  BY DEF Init, ChecksStayValid
<1> QED
  BY <1>2, <1>3 DEF IInv

\* Every step of push() and pop() preserves the inductive invariant.
LEMMA StepInv == IInv /\ [Next]_vars => IInv'
<1> SUFFICES ASSUME IInv, [Next]_vars PROVE IInv'
  OBVIOUS
<1> USE DEF IInv, producer, consumer
<1>0. /\ Succ(write_idx) \in Slots /\ Succ(read_idx) \in Slots
      /\ read_idx \in Slots /\ write_idx \in Slots
  BY SuccWraps DEF TypeOK
<1>1. ASSUME NEW v \in Value, PushCall(v) PROVE IInv'
  BY <1>1 DEF PushCall, TypeOK, ChecksStayValid
<1>2. CASE PushFull
  BY <1>2 DEF PushFull, TypeOK, ChecksStayValid
<1>3. CASE PushRoom
  BY <1>3 DEF PushRoom, TypeOK, ChecksStayValid
<1>4. CASE PushSlot
  <2>1. TypeOK'
    BY <1>4 DEF PushSlot, TypeOK, ChecksStayValid
  <2>2. ChecksStayValid'
    BY <1>4 DEF PushSlot, TypeOK, ChecksStayValid, IsEmpty
  <2> QED
    BY <2>1, <2>2
<1>5. CASE PushPublish
  <2>1. TypeOK'
    BY <1>0, <1>5 DEF PushPublish, TypeOK
  <2>2. ~IsFull(read_idx, write_idx) => ~IsEmpty(read_idx, Succ(write_idx))
    BY DEF IsFull, IsEmpty
  <2>3. ChecksStayValid'
    BY <1>5, <2>2 DEF PushPublish, ChecksStayValid
  <2> QED
    BY <2>1, <2>3
<1>6. CASE PopCall
  BY <1>6 DEF PopCall, TypeOK, ChecksStayValid
<1>7. CASE PopEmpty
  BY <1>7 DEF PopEmpty, TypeOK, ChecksStayValid
<1>8. CASE PopSome
  BY <1>8 DEF PopSome, TypeOK, ChecksStayValid
<1>9. CASE PopSlot
  <2>1. TypeOK'
    BY <1>9 DEF PopSlot, TypeOK
  <2>2. ChecksStayValid'
    BY <1>9 DEF PopSlot, ChecksStayValid
  <2> QED
    BY <2>1, <2>2
<1>10. CASE PopPublish
  <2>1. TypeOK'
    BY <1>0, <1>10 DEF PopPublish, TypeOK
  <2>2. ~IsEmpty(read_idx, write_idx) => ~IsFull(Succ(read_idx), write_idx)
    BY <1>0, SuccWraps, SizeAssumption, SMTT(20) DEF IsFull, IsEmpty, Slots
  <2>3. ChecksStayValid'
    BY <1>10, <2>2 DEF PopPublish, ChecksStayValid
  <2> QED
    BY <2>1, <2>3
<1>11. CASE UNCHANGED vars
  BY <1>11, SMTT(20) DEF vars, TypeOK, ChecksStayValid
<1> QED
  BY <1>1, <1>2, <1>3, <1>4, <1>5, <1>6, <1>7, <1>8, <1>9, <1>10, <1>11
  DEF Next, PushStep, PopStep

\* The inductive invariant holds in every reachable state of the ring.
THEOREM Invariance == Spec => []IInv
BY InitInv, StepInv, PTL DEF Spec

\* What either side of the ring found out stays true until it acts on it.
THEOREM ChecksHold == Spec => []ChecksStayValid
<1>1. IInv => ChecksStayValid
  BY DEF IInv
<1> QED
  BY <1>1, Invariance, PTL

\* The two threads never access the same slot at the same time.
THEOREM SlotsRaceFree == Spec => []NoSlotConflict
<1>1. IInv => NoSlotConflict
  BY DEF IInv, ChecksStayValid, NoSlotConflict, IsEmpty
<1> QED
  BY <1>1, Invariance, PTL

\* Contents in terms of Len: full and empty as the queue sees them.
LEMMA ContentsLen ==
    ASSUME TypeOK
    PROVE  /\ Len(Contents) \in 0 .. Size - 1
           /\ IsFull(read_idx, write_idx) <=> Len(Contents) = Size - 1
           /\ IsEmpty(read_idx, write_idx) <=> Contents = <<>>
<1> DEFINE n == Count(read_idx, write_idx)
<1>1. ring \in [Slots -> Value \cup {None}] /\ read_idx \in Slots /\ write_idx \in Slots
  BY DEF TypeOK
<1>2. Contents \in Seq(Value \cup {None})
  BY <1>1, BetweenIsSeq DEF Contents
<1>3. Len(Contents) = n
  BY <1>1, BetweenLen DEF Contents
<1>4. /\ n \in 0 .. Size - 1
      /\ IsFull(read_idx, write_idx) <=> n = Size - 1
      /\ IsEmpty(read_idx, write_idx) <=> n = 0
  BY <1>1, CountProperties
<1>5. Contents = <<>> <=> Len(Contents) = 0
  BY <1>2
<1> QED
  BY <1>3, <1>4, <1>5

\* The initial state of the ring is the initial state of the queue.
LEMMA RefinesInit == Init => Fifo!Init
<1> SUFFICES ASSUME Init PROVE Fifo!Init
  OBVIOUS
<1>1. TypeOK /\ IsEmpty(read_idx, write_idx)
  BY InitInv DEF Init, IInv, IsEmpty
<1>2. Contents = <<>>
  BY <1>1, ContentsLen
<1> QED
  BY <1>2 DEF Init, Fifo!Init

\* Every step of the ring is a step of the queue, or invisible to it.
LEMMA RefinesNext == IInv /\ [Next]_vars => [Fifo!Next]_(Fifo!vars)
<1> SUFFICES ASSUME IInv, [Next]_vars PROVE [Fifo!Next]_(Fifo!vars)
  OBVIOUS
<1> USE NoneAssumption DEF producer, consumer
<1>0. /\ TypeOK /\ ChecksStayValid
      /\ ring \in [Slots -> Value \cup {None}] /\ read_idx \in Slots /\ write_idx \in Slots
  BY DEF IInv, TypeOK
<1>1. ASSUME NEW v \in Value, PushCall(v) PROVE Fifo!StartPush(v)
  BY <1>1 DEF PushCall, Fifo!StartPush, Contents
<1>2. CASE PushFull
  <2>1. Len(Contents) = Size - 1
    BY <1>0, <1>2, ContentsLen DEF PushFull
  <2>2. arg # None
    BY <1>0, <1>2 DEF PushFull, ChecksStayValid
  <2>3. Fifo!Refuse
    BY <1>2, <2>1, <2>2 DEF PushFull, Fifo!Refuse, Contents
  <2> QED
    BY <2>3 DEF Fifo!Next
<1>3. CASE PushRoom
  BY <1>3 DEF PushRoom, Fifo!vars, Contents
<1>4. CASE PushSlot
  <2>1. Contents' = Contents
    <3>1. \A j \in Slots \ {write_idx} : ring'[j] = ring[j]
      BY <1>0, <1>4 DEF PushSlot
    <3>2. Between(ring', read_idx, write_idx) = Between(ring, read_idx, write_idx)
      BY <1>0, <3>1, BetweenWrite, SMTT(20)
    <3> QED
      BY <1>4, <3>2 DEF PushSlot, Contents
  <2> QED
    BY <1>4, <2>1 DEF PushSlot, Fifo!vars
<1>5. CASE PushPublish
  <2>1. /\ ~IsFull(read_idx, write_idx) /\ arg \in Value /\ ring[write_idx] = arg
        /\ write_idx' = Succ(write_idx) /\ ring' = ring /\ read_idx' = read_idx
    BY <1>0, <1>5 DEF ChecksStayValid, PushPublish
  <2>2. write_idx' \in Slots
    BY <1>0, <2>1, SuccWraps
  <2>3. Between(ring, read_idx, write_idx') = Append(Between(ring, read_idx, write_idx), ring[write_idx])
    BY <1>0, <2>1, <2>2, BetweenAppend
  <2>4. Contents' = Append(Contents, arg)
    BY <2>1, <2>3 DEF Contents
  <2>5. Len(Contents) < Size - 1
    BY <1>0, <2>1, ContentsLen, SizeAssumption, SMTT(20)
  <2>6. Fifo!Accept
    BY <1>5, <2>1, <2>4, <2>5 DEF PushPublish, Fifo!Accept
  <2> QED
    BY <2>6 DEF Fifo!Next
<1>6. CASE PopCall
  <2>1. Fifo!StartPop
    BY <1>6 DEF PopCall, Fifo!StartPop, Contents
  <2> QED
    BY <2>1 DEF Fifo!Next
<1>7. CASE PopEmpty
  <2>1. Contents = <<>>
    BY <1>0, <1>7, ContentsLen DEF PopEmpty
  <2>2. Contents' = Contents
    BY <1>7 DEF PopEmpty, Contents
  <2>3. Fifo!ComeBackEmpty
    BY <1>7, <2>1, <2>2 DEF PopEmpty, Fifo!ComeBackEmpty
  <2> QED
    BY <2>3 DEF Fifo!Next
<1>8. CASE PopSome
  BY <1>8 DEF PopSome, Fifo!vars, Contents
<1>9. CASE PopSlot
  BY <1>9 DEF PopSlot, Fifo!vars, Contents
<1>10. CASE PopPublish
  <2>1. /\ ~IsEmpty(read_idx, write_idx) /\ got = ring[read_idx]
        /\ read_idx' = Succ(read_idx) /\ ring' = ring /\ write_idx' = write_idx
    BY <1>0, <1>10 DEF ChecksStayValid, PopPublish
  <2>2. read_idx' \in Slots
    BY <1>0, <2>1, SuccWraps
  <2>3. /\ Between(ring, read_idx, write_idx) # <<>>
        /\ Head(Between(ring, read_idx, write_idx)) = ring[read_idx]
        /\ Between(ring, read_idx', write_idx) = Tail(Between(ring, read_idx, write_idx))
    <3>1. /\ ring \in [Slots -> Value \cup {None}] /\ read_idx \in Slots
          /\ write_idx \in Slots
      BY <1>0
    <3>2. Succ(read_idx) \in Slots
      BY <2>1, <2>2
    <3>3. /\ Between(ring, read_idx, write_idx) # <<>>
          /\ Head(Between(ring, read_idx, write_idx)) = ring[read_idx]
          /\ Between(ring, Succ(read_idx), write_idx) = Tail(Between(ring, read_idx, write_idx))
      BY <2>1, <3>1, <3>2, BetweenTail
    <3> QED
      BY <2>1, <3>3
  <2>4. Contents # <<>> /\ Head(Contents) = got /\ Contents' = Tail(Contents)
    BY <2>1, <2>3 DEF Contents
  <2>5. Fifo!Deliver
    BY <1>10, <2>4 DEF PopPublish, Fifo!Deliver
  <2> QED
    BY <2>5 DEF Fifo!Next
<1>11. CASE UNCHANGED vars
  BY <1>11 DEF vars, Fifo!vars, Contents
<1> QED
  BY <1>1, <1>2, <1>3, <1>4, <1>5, <1>6, <1>7, <1>8, <1>9, <1>10, <1>11
  DEF Next, PushStep, PopStep, Fifo!Next

\* cre::conduit implements the bounded FIFO queue: nothing is lost, duplicated,
\* reordered or overwritten, whatever the ring size.
THEOREM ConduitIsFifo == Spec => ImplementsFifo
<1>1. IInv /\ [Next]_vars => [Fifo!Next]_(Fifo!vars)
  BY RefinesNext
<1> QED
  BY <1>1, RefinesInit, Invariance, PTL DEF Spec, ImplementsFifo, Fifo!Spec
----------------------------------------------------------------------------
\* The inductive invariant of the poller.
PollerInv == PollerTypeOK /\ BypassBudget

\* The code's modular arithmetic, case by case.
LEMMA CandidateWraps ==
    ASSUME next \in Track, NEW n \in 0 .. NumInputs - 1
    PROVE  /\ Candidate(n) \in Track
           /\ Candidate(n) = IF next + n < NumInputs THEN next + n ELSE next + n - NumInputs
<1>1. CASE next + n < NumInputs
  BY <1>1, NumInputsAssumption DEF Candidate, Track
<1>2. CASE next + n >= NumInputs
  BY <1>2, NumInputsAssumption DEF Candidate, Track
<1> QED
  BY <1>1, <1>2, NumInputsAssumption DEF Track

\* poll() starts right after the track it served last.
LEMMA AfterWraps ==
    ASSUME NEW k \in Track
    PROVE  /\ After(k) \in Track
           /\ After(k) = IF k = NumInputs - 1 THEN 0 ELSE k + 1
BY NumInputsAssumption DEF After, Track

\* Serving the track at distance i brings the ones behind it closer, and sends
\* it and the ones before it to the back.
LEMMA DistanceAfterService ==
    ASSUME next \in Track, NEW n \in 0 .. NumInputs - 1, NEW k \in Track,
           next' = After(Candidate(n))
    PROVE  /\ Distance(k) \in 0 .. NumInputs - 1
           /\ Distance(k) = n <=> k = Candidate(n)
           /\ Distance(k)' = IF Distance(k) > n
                             THEN Distance(k) - n - 1
                             ELSE Distance(k) - n - 1 + NumInputs
<1>1. /\ Candidate(n) \in Track
      /\ Candidate(n) = IF next + n < NumInputs THEN next + n ELSE next + n - NumInputs
  BY CandidateWraps
<1>2. next' = IF Candidate(n) = NumInputs - 1 THEN 0 ELSE Candidate(n) + 1
  BY <1>1, AfterWraps
<1> QED
  BY <1>1, <1>2, NumInputsAssumption DEF Distance, Track

\* No track has waited when the poller is created.
LEMMA PollerInitInv == PollerInit => PollerInv
<1> SUFFICES ASSUME PollerInit PROVE PollerInv
  OBVIOUS
<1>1. 0 \in Track /\ 0 \in 0 .. NumInputs
  BY NumInputsAssumption DEF Track
<1>2. 0 <= ConduitSize - 1
  BY ConduitSizeAssumption
<1>3. PollerTypeOK
  BY <1>1, <1>2 DEF PollerInit, PollerTypeOK
<1>4. BypassBudget
  BY DEF PollerInit, BypassBudget
<1> QED
  BY <1>3, <1>4 DEF PollerInv

\* Every step of the poller and of the producers preserves the invariant.
LEMMA PollerStepInv == PollerInv /\ [PollerNext]_pollerVars => PollerInv'
<1> SUFFICES ASSUME PollerInv, [PollerNext]_pollerVars PROVE PollerInv'
  OBVIOUS
<1>0. PollerTypeOK /\ BypassBudget
  BY DEF PollerInv
<1> USE NumInputsAssumption, ConduitSizeAssumption
<1>1. ASSUME NEW k \in Track, Push(k) PROVE PollerInv'
  <2>1. PollerTypeOK'
    BY <1>0, <1>1 DEF Push, PollerTypeOK
  <2>2. BypassBudget'
    BY <1>0, <1>1, SMTT(20) DEF Push, PollerTypeOK, BypassBudget, Distance
  <2> QED
    BY <2>1, <2>2 DEF PollerInv
<1>7. ASSUME NEW k \in Track, BindTrack(k) PROVE PollerInv'
  <2>1. PollerTypeOK'
    BY <1>0, <1>7 DEF BindTrack, PollerTypeOK
  <2>2. BypassBudget'
    BY <1>0, <1>7 DEF BindTrack, PollerTypeOK, BypassBudget, Distance
  <2> QED
    BY <2>1, <2>2 DEF PollerInv
<1>2. CASE PollCall
  <2>1. PollerTypeOK'
    BY <1>0, <1>2, SMTT(20) DEF PollCall, PollerTypeOK
  <2>2. \A k \in Track : Distance(k) \in 0 .. NumInputs - 1
    BY <1>0, SMTT(20) DEF PollerTypeOK, Distance, Track
  <2>3. BypassBudget'
    BY <1>0, <1>2, <2>2 DEF PollCall, BypassBudget, Distance
  <2> QED
    BY <2>1, <2>3 DEF PollerInv
<1>3. CASE PollSkip
  <2>1. PollerTypeOK'
    BY <1>0, <1>3, SMTT(20) DEF PollSkip, PollerTypeOK
  <2>2. ASSUME NEW k \in Track, Distance(k) < i + 1
        PROVE  bypass[k] = 0
    <3>1. i \in 0 .. NumInputs - 1 /\ Distance(k) \in 0 .. NumInputs - 1
      BY <1>0, <1>3, SMTT(20) DEF PollSkip, PollerTypeOK, Distance, Track
    <3>2. CASE Distance(k) < i
      BY <1>0, <1>3, <3>2 DEF PollSkip, BypassBudget
    <3>3. CASE Distance(k) = i
      <4>1. k = Candidate(i)
        <5>1. Candidate(i) = IF next + i < NumInputs THEN next + i ELSE next + i - NumInputs
          BY <1>0, <3>1, CandidateWraps DEF PollerTypeOK
        <5> QED
          BY <1>0, <3>1, <3>3, <5>1 DEF PollerTypeOK, Distance, Track
      <4>2. k \notin inputs \/ load[k] = 0
        BY <1>3, <4>1 DEF PollSkip
      <4> QED
        BY <1>0, <4>2 DEF BypassBudget
    <3> QED
      BY <2>2, <3>1, <3>2, <3>3
  <2>3. BypassBudget'
    BY <1>0, <1>3, <2>2 DEF PollSkip, BypassBudget, Distance
  <2> QED
    BY <2>1, <2>3 DEF PollerInv
<1>4. CASE PollTake
  <2>1. i \in 0 .. NumInputs - 1 /\ next \in Track /\ next' = After(Candidate(i))
    BY <1>0, <1>4 DEF PollTake, PollerTypeOK
  <2>2. Candidate(i) \in Track /\ next' \in Track
    BY <2>1, CandidateWraps, AfterWraps
  <2>3. PollerTypeOK'
    BY <1>0, <1>4, <2>2, NumInputsAssumption DEF PollTake, PollerTypeOK, OneMore
  <2>4. ASSUME NEW k \in Track
        PROVE  /\ bypass'[k] = 0 \/ bypass'[k] + Distance(k)' <= NumInputs - 1
               /\ k \notin inputs \/ load'[k] = 0 => bypass'[k] = 0
    <3>1. CASE k = Candidate(i) \/ k \notin inputs \/ load[k] = 0
      BY <1>0, <1>4, <3>1 DEF PollTake, PollerTypeOK
    <3>2. CASE k # Candidate(i) /\ k \in inputs /\ load[k] # 0
      <4>1. /\ bypass'[k] <= bypass[k] + 1 /\ load'[k] = load[k]
            /\ bypass[k] \in Nat /\ bypass'[k] \in Nat
        BY <1>0, <1>4, <3>2, NumInputsAssumption, SMTT(20) DEF PollTake, PollerTypeOK, OneMore
      <4>2. /\ Distance(k) \in 0 .. NumInputs - 1
            /\ Distance(k) # i
            /\ Distance(k)' = IF Distance(k) > i
                              THEN Distance(k) - i - 1
                              ELSE Distance(k) - i - 1 + NumInputs
        BY <2>1, <3>2, DistanceAfterService
      <4>3. CASE Distance(k) > i
        <5>1. bypass[k] + Distance(k) <= NumInputs - 1
          BY <1>0, <4>1, <4>2 DEF BypassBudget
        <5> QED
          BY <2>1, <3>2, <4>1, <4>2, <4>3, <5>1
      <4>4. CASE Distance(k) < i
        <5>1. bypass[k] = 0
          BY <1>0, <1>4, <4>4 DEF PollTake, BypassBudget
        <5> QED
          BY <2>1, <3>2, <4>1, <4>2, <4>4, <5>1
      <4> QED
        BY <2>1, <4>2, <4>3, <4>4
    <3> QED
      BY <3>1, <3>2
  <2>5. pc' # "poll" /\ inputs' = inputs
    BY <1>4 DEF PollTake
  <2>6. BypassBudget'
    BY <2>4, <2>5 DEF BypassBudget
  <2> QED
    BY <2>3, <2>6 DEF PollerInv
<1>5. CASE PollNull
  BY <1>0, <1>5 DEF PollNull, PollerInv, PollerTypeOK, BypassBudget, Distance
<1>6. CASE UNCHANGED pollerVars
  BY <1>0, <1>6 DEF pollerVars, PollerInv, PollerTypeOK, BypassBudget, Distance
<1> QED
  BY <1>1, <1>2, <1>3, <1>4, <1>5, <1>6, <1>7 DEF PollerNext, Poll

\* The budget of bypasses holds in every reachable state.
THEOREM PollerInvariance == PollerSpec => []PollerInv
BY PollerInitInv, PollerStepInv, PTL DEF PollerSpec

\* A waiting track is bypassed at most NumInputs - 1 times.
THEOREM BypassesBounded == PollerSpec => []BoundedBypass
<1>1. PollerInv => BoundedBypass
  <2> SUFFICES ASSUME PollerInv, NEW k \in Track PROVE bypass[k] <= NumInputs - 1
    BY DEF BoundedBypass
  <2>1. /\ bypass[k] \in Nat /\ Distance(k) \in 0 .. NumInputs - 1
        /\ bypass[k] = 0 \/ bypass[k] + Distance(k) <= NumInputs - 1
    BY NumInputsAssumption, SMTT(20) DEF PollerInv, PollerTypeOK, BypassBudget, Distance, Track
  <2> QED
    BY <2>1, NumInputsAssumption
<1> QED
  BY <1>1, PollerInvariance, PTL

----------------------------------------------------------------------------
\* A track that held events when poll() was called still does: only poll() takes
\* events out, and it returns with the first one it takes.
BusyKeepEvents == pc = "poll" => \A k \in busy : k \in inputs /\ load[k] > 0

\* Both hold before the first poll().
LEMMA BusyInit == PollerInit => BusyKeepEvents /\ NoTrackMissed
BY DEF PollerInit, BusyKeepEvents, NoTrackMissed

\* No push, no binding and no step of poll() makes poll() pass over a busy track.
LEMMA BusyStep ==
    PollerInv /\ BusyKeepEvents /\ NoTrackMissed /\ [PollerNext]_pollerVars
      => BusyKeepEvents' /\ NoTrackMissed'
<1> SUFFICES ASSUME PollerInv, BusyKeepEvents, NoTrackMissed, [PollerNext]_pollerVars
             PROVE  BusyKeepEvents' /\ NoTrackMissed'
  OBVIOUS
<1>0. PollerTypeOK
  BY DEF PollerInv
<1>1. ASSUME NEW k \in Track, Push(k) PROVE BusyKeepEvents' /\ NoTrackMissed'
  <2>1. BusyKeepEvents'
    BY <1>0, <1>1 DEF Push, PollerTypeOK, BusyKeepEvents
  <2>2. NoTrackMissed'
    BY <1>1 DEF Push, NoTrackMissed, Candidate
  <2> QED
    BY <2>1, <2>2
<1>2. ASSUME NEW k \in Track, BindTrack(k) PROVE BusyKeepEvents' /\ NoTrackMissed'
  BY <1>2 DEF BindTrack, BusyKeepEvents, NoTrackMissed
<1>3. CASE PollCall
  <2>1. BusyKeepEvents'
    BY <1>3 DEF PollCall, BusyKeepEvents
  <2>2. NoTrackMissed'
    BY <1>3 DEF PollCall, NoTrackMissed
  <2> QED
    BY <2>1, <2>2
<1>4. CASE PollSkip
  <2>1. BusyKeepEvents'
    BY <1>4 DEF PollSkip, BusyKeepEvents
  <2>2. Candidate(i) \notin busy
    BY <1>4 DEF PollSkip, BusyKeepEvents
  <2>3. \A n \in 0 .. i : n \in 0 .. i - 1 \/ n = i
    BY <1>0 DEF PollerTypeOK
  <2>4. NoTrackMissed'
    BY <1>0, <1>4, <2>2, <2>3 DEF PollSkip, NoTrackMissed, Candidate, PollerTypeOK
  <2> QED
    BY <2>1, <2>4
<1>5. CASE PollTake \/ PollNull
  BY <1>5 DEF PollTake, PollNull, BusyKeepEvents, NoTrackMissed
<1>6. CASE UNCHANGED pollerVars
  BY <1>6 DEF pollerVars, BusyKeepEvents, NoTrackMissed, Candidate
<1> QED
  BY <1>1, <1>2, <1>3, <1>4, <1>5, <1>6 DEF PollerNext, Poll

\* poll() takes the first track in rotation order that held an event when it was
\* called, whatever the producers push meanwhile.
THEOREM NoBusyTrackMissed == PollerSpec => []NoTrackMissed
BY PollerInvariance, BusyInit, BusyStep, PTL DEF PollerSpec

----------------------------------------------------------------------------
\* As long as no handler has rejected the event, the dispatch that is running owns
\* it alone, and base types are visited only then.  Two owners meet only while a
\* view has come back null, and then ev is one of them.
OneOwner ==
    /\ at \in {"bases", "call"} => proceed
    /\ at \notin {"out", "null_view"} /\ proceed => owners = {"ev"}
    /\ at # "null_view" => \A x, y \in owners : x = y
    /\ at = "null_view" => \A x, y \in owners \ {"ev"} : x = y

\* Passing the cell on from one of its owners leaves it with one owner.
LEMMA PassKeepsOne ==
    ASSUME NEW x \in owners, NEW y, Pass(x, y), \A u, v \in owners : u = v
    PROVE  owners' = {y}
BY DEF Pass

\* The result of on() is true only if dispatch has kept the event to itself, and a
\* view that comes back null means at most one new owner besides ev.
LEMMA CallOnOneOwner ==
    ASSUME OneOwner, NEW e \in Effect, NEW accept \in BOOLEAN, CallOn(e, accept)
    PROVE  OneOwner'
<1>1. owners = {"ev"}
  BY DEF CallOn, OneOwner
<1>2. CASE Top.type = Event
  <2>1. CallOwn(e, accept)
    BY <1>2 DEF CallOn
  <2>2. owners' \in {{"ev"}, {"pool"}, {"away"}}
    BY <1>1, <2>1 DEF CallOwn, Pass, Effect
  <2>3. at' = "return" /\ (proceed' => owners' = {"ev"})
    BY <2>1, <2>2 DEF CallOwn
  <2> QED
    BY <2>2, <2>3 DEF OneOwner
<1>3. CASE Top.type # Event
  <2>1. CallBase(e, accept)
    BY <1>3 DEF CallOn
  <2>2. CASE e = "keep"
    BY <1>1, <2>1, <2>2 DEF CallBase, OneOwner
  <2>3. CASE e # "keep"
    BY <1>1, <2>1, <2>3 DEF CallBase, OneOwner
  <2> QED
    BY <2>2, <2>3
<1> QED
  BY <1>2, <1>3

\* What follows a call tests its result before it goes on; dispatch gives up ev
\* whenever someone else may own the cell; and a new owner frees what only it, or
\* it and an ev that is about to be released, can reach.
LEMMA OneOwnerStep ==
    OneOwner /\ [PipelineNext]_pipelineVars => OneOwner'
<1> SUFFICES ASSUME OneOwner, [PipelineNext]_pipelineVars PROVE OneOwner'
  OBVIOUS
<1>1. CASE Make
  <2>1. owners' = {"ev"}
    BY <1>1, PassKeepsOne DEF Make, OneOwner
  <2> QED
    BY <1>1, <2>1 DEF Make, control, OneOwner
<1>2. ASSUME NEW m \in Mode \ {"none"}, Dispatch(m) PROVE OneOwner'
  BY <1>2 DEF Dispatch, OneOwner
<1>3. CASE EnterHandler \/ EnterBase \/ LeaveBases \/ CallNone
  BY <1>3 DEF EnterHandler, EnterBase, LeaveBases, CallNone, OneOwner
<1>4. ASSUME NEW e \in Effect, NEW accept \in BOOLEAN, CallOn(e, accept) PROVE OneOwner'
  BY <1>4, CallOnOneOwner
<1>5. CASE ReleaseEvent
  BY <1>5 DEF ReleaseEvent, OneOwner
<1>6. CASE ReturnToBase \/ ReturnToHandler
  BY <1>6, SMTT(20) DEF ReturnToBase, ReturnToHandler, OneOwner
<1>7. CASE Return
  <2>1. owners' = owners \/ owners' = {"pool"}
    BY <1>7, PassKeepsOne DEF Return, OneOwner
  <2> QED
    BY <1>7, <2>1 DEF Return, OneOwner
<1>8. CASE FreedElsewhere
  <2>1. owners' = (owners \ {"away"}) \cup {"pool"}
    BY <1>8 DEF FreedElsewhere, Pass
  <2>2. "away" \in owners /\ owners # {"ev"} /\ UNCHANGED <<at, proceed>>
    BY <1>8, SMTT(20) DEF FreedElsewhere, control
  <2> QED
    BY <2>1, <2>2 DEF OneOwner
<1>9. CASE UNCHANGED pipelineVars
  BY <1>9 DEF pipelineVars, control, OneOwner
<1> QED
  BY <1>1, <1>2, <1>3, <1>4, <1>5, <1>6, <1>7, <1>8, <1>9 DEF PipelineNext, Step

\* Whatever the handlers accept, reject, keep, take or reset, at whatever depth of
\* the traversal, and whenever a new owner frees what it has taken: once dispatch
\* has gone past a call, the event's cell has at most one owner, so nothing frees
\* it twice, and every on() is called with an event that dispatch alone owns.
THEOREM EventOwnedOnce == PipelineSpec => []SoleOwner
<1>1. OneOwner => SoleOwner
  BY DEF OneOwner, SoleOwner
<1>2. PipelineInit => OneOwner
  BY DEF PipelineInit, OneOwner
<1> QED
  BY <1>1, <1>2, OneOwnerStep, PTL DEF PipelineSpec
=============================================================================

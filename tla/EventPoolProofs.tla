--------------------------- MODULE EventPoolProofs ---------------------------
(***************************************************************************)
(* The free list of cre::pool is sound for any number of threads, cells    *)
(* and tags, provided no thread is overtaken by a whole lap of the tag.    *)
(***************************************************************************)
EXTENDS EventPool, TLAPS

\* Time for the provers; a leaf that names another prover goes to that one.
USE ZenonT(3), SMTT(20)

IInv ==
    /\ TypeOK
    /\ FreeListIntact
    /\ NoCellShared
    /\ NoCellLost
    /\ TagCountsUpdates
    /\ SnapshotSound

\* The special values of a cell's bytes are no cells, and differ.
LEMMA SpecialValues ==
    /\ NIL \notin Cells /\ DATA \notin Cells /\ WILD \notin Cells
    /\ NIL # DATA /\ NIL # WILD /\ DATA # WILD
BY CapacityAssumption DEF NIL, DATA, WILD, Cells

\* Incrementing the tag half of the head word wraps to zero after the last tag.
LEMMA NextTagWraps ==
    ASSUME NEW tag \in 0 .. TagMod - 1
    PROVE  /\ NextTag(tag) \in 0 .. TagMod - 1
           /\ NextTag(tag) = IF tag = TagMod - 1 THEN 0 ELSE tag + 1
BY TagModAssumption DEF NextTag

\* One more update moves the tag one further ahead of a snapshot s that had
\* missed a updates, and not onto it.
LEMMA OneMoreUpdate ==
    ASSUME NEW s \in 0 .. TagMod - 1, NEW a \in 0 .. TagMod - 1, NEW h, NEW g,
           a < TagMod - 1,
           h = TagAfter(s, a),
           g = IF h = TagMod - 1 THEN 0 ELSE h + 1
    PROVE  /\ g = TagAfter(s, a + 1)
           /\ g # s
BY TagModAssumption DEF TagAfter

\* The cells below the top of a non-empty free list are those of the list.
LEMMA FrontProperties ==
    ASSUME NEW s \in Seq(Cells), s # <<>>
    PROVE  /\ Len(s) \in Nat \ {0}
           /\ Front(s) \in Seq(Cells)
           /\ Len(Front(s)) = Len(s) - 1
           /\ \A i \in 1 .. Len(s) - 1 : Front(s)[i] = s[i]
<1> DEFINE n == Len(s) - 1
<1>1. Len(s) \in Nat \ {0} /\ n \in Nat
  OBVIOUS
<1>2. \A i \in 1 .. n : s[i] \in Cells
  BY <1>1
<1>3. Front(s) = SubSeq(s, 1, n)
  BY DEF Front
<1> HIDE DEF n
<1>4. /\ SubSeq(s, 1, n) \in Seq(Cells)
      /\ Len(SubSeq(s, 1, n)) = n
      /\ \A i \in 1 .. n : SubSeq(s, 1, n)[i] = s[i]
  BY <1>1, <1>2
<1> QED
  BY <1>1, <1>3, <1>4 DEF n

\* The free list the constructor builds holds every cell once.
LEMMA InitialStack ==
    ASSUME stack = [i \in 1 .. Capacity |-> Capacity - i]
    PROVE  stack \in Seq(Cells) /\ Len(stack) = Capacity /\ stack # <<>>
<1>1. stack \in [1 .. Capacity -> Cells]
  BY CapacityAssumption DEF Cells
<1>2. stack \in Seq(Cells)
  BY <1>1, CapacityAssumption
<1>3. Len(stack) = Capacity
  BY <1>1, <1>2, CapacityAssumption
<1> QED
  BY <1>2, <1>3, CapacityAssumption

\* The state the constructor leaves satisfies the inductive invariant.
LEMMA InitInv == Init => IInv
<1> SUFFICES ASSUME Init PROVE IInv
  OBVIOUS
<1> USE CapacityAssumption, TagModAssumption DEF Init
<1>1. stack \in Seq(Cells) /\ Len(stack) = Capacity /\ stack # <<>>
  BY InitialStack
<1>2. TypeOK
  BY <1>1 DEF TypeOK, Word, Index, Cells, MakePC, FreePC, InitialNext, NIL
<1>3. FreeListIntact
  <2>1. head.idx = stack[Len(stack)]
    BY <1>1
  <2>2. ASSUME NEW i \in 1 .. Len(stack)
        PROVE  mem[stack[i]] = IF i = 1 THEN NIL ELSE stack[i - 1]
    <3>1. i \in 1 .. Capacity /\ stack[i] = Capacity - i /\ Capacity - i \in Cells
      BY <1>1 DEF Cells
    <3>2. mem[stack[i]] = InitialNext(Capacity - i)
      BY <3>1
    <3>3. CASE i = 1
      BY <3>1, <3>2, <3>3 DEF InitialNext
    <3>4. CASE i # 1
      <4>1. i - 1 \in 1 .. Capacity /\ Capacity - i < Capacity - 1
        BY <3>1, <3>4
      <4>2. stack[i - 1] = Capacity - i + 1
        BY <4>1
      <4> QED
        BY <3>2, <3>4, <4>1, <4>2 DEF InitialNext
    <3> QED
      BY <3>3, <3>4
  <2> QED
    BY <1>1, <2>1, <2>2 DEF FreeListIntact
<1>4. NoCellShared
  BY <1>1, SMTT(20) DEF NoCellShared, Freeing, FreePC
<1>5. NoCellLost
  <2> SUFFICES ASSUME NEW c \in Cells
               PROVE  \E i \in 1 .. Len(stack) : stack[i] = c
    BY DEF NoCellLost
  <2>1. Capacity - c \in 1 .. Capacity /\ Capacity - (Capacity - c) = c
    BY DEF Cells
  <2> QED
    BY <1>1, <2>1
<1>6. TagCountsUpdates /\ SnapshotSound
  BY DEF TagCountsUpdates, SnapshotSound
<1> QED
  BY <1>2, <1>3, <1>4, <1>5, <1>6 DEF IInv

\* A step that leaves the head, the free list and the cells on it alone keeps
\* the list intact.
LEMMA ListUntouched ==
    ASSUME TypeOK, FreeListIntact,
           UNCHANGED <<head, stack>>,
           \A i \in 1 .. Len(stack) : mem'[stack[i]] = mem[stack[i]]
    PROVE  FreeListIntact'
BY DEF FreeListIntact

\* The cell at the head holds a link, never payload bytes.
LEMMA TopOfList ==
    ASSUME TypeOK, FreeListIntact, head.idx \in Cells
    PROVE  /\ stack # <<>>
           /\ head.idx = stack[Len(stack)]
           /\ mem[head.idx] = IF Len(stack) = 1 THEN NIL ELSE stack[Len(stack) - 1]
           /\ mem[head.idx] \in Index
<1> DEFINE n == Len(stack)
<1>1. stack # <<>> /\ head.idx = stack[n]
  BY SpecialValues DEF FreeListIntact
<1>2. n \in Nat \ {0}
  BY <1>1, SMTT(20) DEF TypeOK
<1>3. \A i \in 1 .. n : stack[i] \in Cells
  BY SMTT(20) DEF TypeOK
<1>4. \A i \in 1 .. n : mem[stack[i]] = IF i = 1 THEN NIL ELSE stack[i - 1]
  BY DEF FreeListIntact
<1> HIDE DEF n
<1>5. mem[stack[n]] = IF n = 1 THEN NIL ELSE stack[n - 1]
  BY <1>2, <1>4, SMTT(20)
<1>6. n # 1 => stack[n - 1] \in Cells
  BY <1>2, <1>3
<1> QED
  BY <1>1, <1>5, <1>6 DEF n, Index

\* A thread's own load makes its snapshot current; the others keep theirs.
LEMMA LoadKeepsTagCount ==
    ASSUME TypeOK, TagCountsUpdates, NEW t \in Thread,
           LoadHead(t), head' = head,
           \A u \in Thread \ {t} : pc'[u] = pc[u]
    PROVE  TagCountsUpdates'
<1> SUFFICES ASSUME NEW u \in Thread, pc'[u] # "idle"
             PROVE  /\ head'.tag = TagAfter(snap'[u].tag, age'[u])
                    /\ age'[u] = 0 => head' = snap'[u]
  BY DEF TagCountsUpdates
<1> USE TagModAssumption DEF TypeOK, Word, LoadHead
<1>1. CASE u = t
  BY <1>1, SMTT(20) DEF TagAfter
<1>2. CASE u # t
  BY <1>2 DEF TagCountsUpdates
<1> QED
  BY <1>1, <1>2

\* When t installs a new head word, every other thread inside a call has
\* missed one more update, and still fewer than TagMod.
LEMMA UpdateKeepsTagCount ==
    ASSUME TypeOK, TagCountsUpdates, NEW t \in Thread, NEW i,
           HeadMatches(t),
           SetHead(t, [tag |-> NextTag(snap[t].tag), idx |-> i]),
           pc' = [pc EXCEPT ![t] = "idle"],
           snap' = snap
    PROVE  /\ TagCountsUpdates'
           /\ age' \in [Thread -> 0 .. TagMod - 1]
           /\ \A u \in Thread : pc'[u] # "idle" => head' # snap'[u]
<1>1. /\ head.tag \in 0 .. TagMod - 1
      /\ head'.tag = IF head.tag = TagMod - 1 THEN 0 ELSE head.tag + 1
  BY NextTagWraps DEF TypeOK, Word, HeadMatches, SetHead
<1>2. ASSUME NEW u \in Thread
      PROVE  age'[u] \in 0 .. TagMod - 1
  BY <1>2, TagModAssumption, SMTT(20) DEF TypeOK, SetHead, NoTagLap
<1>3. ASSUME NEW u \in Thread, pc'[u] # "idle"
      PROVE  /\ snap'[u] = snap[u]
             /\ age'[u] = age[u] + 1
             /\ age[u] < TagMod - 1
             /\ snap[u].tag \in 0 .. TagMod - 1
             /\ age[u] \in 0 .. TagMod - 1
             /\ head.tag = TagAfter(snap[u].tag, age[u])
  <2>1. u # t /\ pc[u] # "idle" /\ snap'[u] = snap[u]
    BY <1>3 DEF TypeOK
  <2>2. age'[u] = age[u] + 1 /\ age[u] < TagMod - 1
    BY <2>1 DEF SetHead, NoTagLap
  <2>3. snap[u].tag \in 0 .. TagMod - 1 /\ age[u] \in 0 .. TagMod - 1
    BY DEF TypeOK, Word
  <2> QED
    BY <2>1, <2>2, <2>3 DEF TagCountsUpdates
<1>4. ASSUME NEW u \in Thread, pc'[u] # "idle"
      PROVE  /\ head'.tag = TagAfter(snap'[u].tag, age'[u])
             /\ age'[u] # 0
             /\ head'.tag # snap'[u].tag
  <2>1. /\ snap'[u] = snap[u]
        /\ age'[u] = age[u] + 1
        /\ age[u] \in 0 .. TagMod - 1
    BY <1>3, <1>4
  <2>2. /\ head'.tag = TagAfter(snap[u].tag, age[u] + 1)
        /\ head'.tag # snap[u].tag
    BY <1>1, <1>3, <1>4, OneMoreUpdate, SMTT(20)
  <2>3. age[u] + 1 # 0
    BY <2>1, TagModAssumption
  <2> QED
    BY <2>1, <2>2, <2>3
<1>5. TagCountsUpdates'
  BY <1>4 DEF TagCountsUpdates
<1>6. age' \in [Thread -> 0 .. TagMod - 1]
  BY <1>2 DEF SetHead
<1>7. \A u \in Thread : pc'[u] # "idle" => head' # snap'[u]
  BY <1>4
<1> QED
  BY <1>5, <1>6, <1>7

\* A step that neither moves a cell nor begins or ends a free keeps every
\* cell where it is.
LEMMA PlacesUntouched ==
    ASSUME NoCellShared, NoCellLost, UNCHANGED <<live, cell, stack>>,
           \A u \in Thread : pc'[u] \in FreePC <=> pc[u] \in FreePC
    PROVE  NoCellShared' /\ NoCellLost'
<1>1. NoCellShared'
  BY SMTT(20) DEF NoCellShared, Freeing
<1>2. NoCellLost'
  BY DEF NoCellLost, Freeing
<1> QED
  BY <1>1, <1>2

\* Every step of every thread preserves the inductive invariant.
LEMMA StepInv == IInv /\ [Next]_vars => IInv'
<1> SUFFICES ASSUME IInv, [Next]_vars PROVE IInv'
  OBVIOUS
<1> USE SpecialValues
<1> USE DEF IInv
<1>1. ASSUME NEW t \in Thread, MakeLoad(t) PROVE IInv'
  <2> USE <1>1 DEF MakeLoad
  <2>1. TypeOK'
    BY TagModAssumption, SMTT(20) DEF TypeOK, LoadHead, Word, MakePC
  <2>2. FreeListIntact'
    BY ListUntouched
  <2>3. NoCellShared' /\ NoCellLost'
    BY PlacesUntouched DEF FreePC, TypeOK
  <2>4. TagCountsUpdates'
    BY LoadKeepsTagCount DEF TypeOK
  <2>5. SnapshotSound'
    BY DEF SnapshotSound, LoadHead, TypeOK
  <2> QED
    BY <2>1, <2>2, <2>3, <2>4, <2>5
<1>2. ASSUME NEW t \in Thread, MakeNull(t) PROVE IInv'
  <2> USE <1>2 DEF MakeNull
  <2>1. TypeOK'
    BY TagModAssumption, SMTT(20) DEF TypeOK
  <2>2. FreeListIntact'
    BY ListUntouched
  <2>3. NoCellShared' /\ NoCellLost'
    BY PlacesUntouched DEF FreePC, TypeOK
  <2>4. TagCountsUpdates' /\ SnapshotSound'
    BY SMTT(20) DEF TagCountsUpdates, SnapshotSound, TypeOK
  <2> QED
    BY <2>1, <2>2, <2>3, <2>4
<1>3. ASSUME NEW t \in Thread, MakeRead(t) PROVE IInv'
  <2> USE <1>3 DEF MakeRead
  <2>0. snap[t].idx \in Cells
    BY DEF TypeOK, Word, Index
  <2>1. TypeOK'
    BY <2>0, SMTT(20) DEF TypeOK, NextBytes, Index, MakePC
  <2>2. FreeListIntact'
    BY ListUntouched
  <2>3. NoCellShared' /\ NoCellLost'
    BY PlacesUntouched DEF FreePC, TypeOK
  <2>4. TagCountsUpdates'
    BY DEF TagCountsUpdates, TypeOK
  <2>5. SnapshotSound'
    <3>1. head = snap[t] => mem[snap[t].idx] # DATA
      BY <2>0, TopOfList DEF TypeOK, Index
    <3>2. head = snap[t] => nxt'[t] = mem[snap[t].idx]
      BY <3>1 DEF NextBytes, TypeOK
    <3> QED
      BY <2>0, <3>2, SMTT(20) DEF SnapshotSound, TypeOK
  <2> QED
    BY <2>1, <2>2, <2>3, <2>4, <2>5
<1>4. ASSUME NEW t \in Thread, MakeTake(t) PROVE IInv'
  <2> DEFINE c == snap[t].idx
             n == Len(stack)
  <2>0. /\ c = head.idx /\ c \in Cells /\ nxt[t] = mem[c]
        /\ head = snap[t]
    BY <1>4 DEF MakeTake, HeadMatches, SnapshotSound, TypeOK, Word, Index
  <2>1. /\ stack # <<>> /\ c = stack[n] /\ nxt[t] \in Index
        /\ nxt[t] = IF n = 1 THEN NIL ELSE stack[n - 1]
    BY <2>0, TopOfList
  <2>2. /\ n \in Nat \ {0}
        /\ stack' \in Seq(Cells)
        /\ Len(stack') = n - 1
        /\ \A i \in 1 .. n - 1 : stack'[i] = stack[i]
        /\ stack' = <<>> <=> n = 1
    <3>1. stack' = Front(stack) /\ stack \in Seq(Cells)
      BY <1>4 DEF MakeTake, TypeOK
    <3>2. /\ n \in Nat \ {0}
          /\ stack' \in Seq(Cells)
          /\ Len(stack') = n - 1
          /\ \A i \in 1 .. n - 1 : stack'[i] = stack[i]
      BY <2>1, <3>1, FrontProperties
    <3>3. stack' = <<>> <=> Len(stack') = 0
      BY <3>2
    <3> QED
      BY <3>2, <3>3
  <2>3. \A i \in 1 .. n : stack[i] \in Cells
    BY SMTT(20) DEF TypeOK
  <2>4. /\ TagCountsUpdates'
        /\ age' \in [Thread -> 0 .. TagMod - 1]
        /\ \A u \in Thread : pc'[u] # "idle" => head' # snap'[u]
    BY <1>4, UpdateKeepsTagCount DEF MakeTake
  <2>5. head' \in Word
    BY <1>4, <2>1, NextTagWraps DEF MakeTake, SetHead, TypeOK, Word
  <2>6. /\ mem' = [mem EXCEPT ![c] = DATA]
        /\ live' = live \cup {c}
        /\ pc' = [pc EXCEPT ![t] = "idle"]
        /\ head'.idx = nxt[t]
        /\ UNCHANGED <<snap, nxt, cell>>
    BY <1>4 DEF MakeTake, SetHead
  <2> HIDE DEF c, n
  <2>7. TypeOK'
    BY <2>0, <2>2, <2>4, <2>5, <2>6 DEF TypeOK
  <2>8. ASSUME NEW i \in 1 .. n - 1
        PROVE  /\ i \in 1 .. n
               /\ stack[i] # c
    BY <2>1, <2>2, SMTT(20) DEF NoCellShared, n
  <2>9. FreeListIntact'
    <3>1. head'.idx = IF stack' = <<>> THEN NIL ELSE stack'[Len(stack')]
      <4>1. CASE n = 1
        BY <2>1, <2>2, <2>6, <4>1
      <4>2. CASE n # 1
        <5>1. n - 1 \in 1 .. n - 1
          BY <2>2, <4>2
        <5> QED
          BY <2>1, <2>2, <2>6, <4>2, <5>1
      <4> QED
        BY <4>1, <4>2
    <3>2. ASSUME NEW i \in 1 .. Len(stack')
          PROVE  mem'[stack'[i]] = IF i = 1 THEN NIL ELSE stack'[i - 1]
      <4>1. i \in 1 .. n - 1 /\ i \in 1 .. n /\ stack[i] # c /\ stack'[i] = stack[i]
        BY <2>2, <2>8
      <4>2. mem'[stack'[i]] = mem[stack[i]]
        BY <2>3, <2>6, <4>1 DEF TypeOK
      <4>3. mem[stack[i]] = IF i = 1 THEN NIL ELSE stack[i - 1]
        BY <4>1 DEF FreeListIntact, n
      <4>4. i # 1 => stack'[i - 1] = stack[i - 1]
        <5> SUFFICES ASSUME i # 1 PROVE i - 1 \in 1 .. n - 1
          BY <2>2
        <5> QED
          BY <2>2, <4>1, SMTT(20)
      <4> QED
        BY <4>2, <4>3, <4>4
    <3> QED
      BY <3>1, <3>2 DEF FreeListIntact
  <2>10. \A u \in Thread : pc'[u] \in FreePC <=> pc[u] \in FreePC
    BY <1>4, <2>6 DEF MakeTake, FreePC, TypeOK
  <2>11. NoCellShared'
    <3>0. ASSUME NEW i \in 1 .. Len(stack')
          PROVE  i \in 1 .. Len(stack) /\ stack'[i] = stack[i] /\ stack[i] # c
      BY <2>2, <2>8 DEF n
    <3>1. ASSUME NEW i \in 1 .. Len(stack'), NEW j \in 1 .. Len(stack'), stack'[i] = stack'[j]
          PROVE  i = j
      BY <3>0, <3>1 DEF NoCellShared
    <3>2. ASSUME NEW i \in 1 .. Len(stack')
          PROVE  stack'[i] \notin live'
      BY <2>6, <3>0 DEF NoCellShared
    <3>3. ASSUME NEW u \in Thread, Freeing(u)'
          PROVE  /\ cell'[u] \notin live'
                 /\ \A i \in 1 .. Len(stack') : stack'[i] # cell'[u]
                 /\ \A v \in Thread \ {u} : Freeing(v)' => cell'[v] # cell'[u]
      <4>1. Freeing(u) /\ cell'[u] = cell[u]
        BY <2>6, <2>10, <3>3 DEF Freeing
      <4>2. n \in 1 .. n
        BY <2>2
      <4>3. cell[u] # c
        BY <2>1, <4>1, <4>2 DEF NoCellShared, n
      <4>4. \A i \in 1 .. Len(stack') : stack'[i] # cell'[u]
        BY <3>0, <4>1 DEF NoCellShared
      <4>5. \A v \in Thread \ {u} : Freeing(v)' => cell'[v] # cell'[u]
        BY <2>6, <2>10, <4>1 DEF NoCellShared, Freeing
      <4> QED
        BY <2>6, <4>1, <4>3, <4>4, <4>5 DEF NoCellShared
    <3> QED
      BY <3>1, <3>2, <3>3 DEF NoCellShared
  <2>12. NoCellLost'
    <3> SUFFICES ASSUME NEW d \in Cells
                 PROVE  \/ d \in live'
                        \/ \E i \in 1 .. Len(stack') : stack'[i] = d
                        \/ \E u \in Thread : Freeing(u)' /\ cell'[u] = d
      BY DEF NoCellLost
    <3>1. CASE d \in live \/ d = c
      BY <2>6, <3>1
    <3>2. CASE d # c /\ \E i \in 1 .. n : stack[i] = d
      <4>1. PICK i \in 1 .. n : stack[i] = d
        BY <3>2
      <4>2. i # n
        BY <2>1, <3>2, <4>1
      <4>3. i \in 1 .. n - 1
        BY <2>2, <4>2
      <4> QED
        BY <2>2, <4>1, <4>3
    <3>3. CASE \E u \in Thread : Freeing(u) /\ cell[u] = d
      BY <2>6, <2>10, <3>3 DEF Freeing
    <3> QED
      BY <3>1, <3>2, <3>3 DEF NoCellLost, n
  <2>13. SnapshotSound'
    <3> SUFFICES ASSUME NEW u \in Thread, pc'[u] # "idle"
                 PROVE  /\ pc'[u] = "make_cas" => snap'[u].idx # NIL
                        /\ pc'[u] = "free_cas" => mem'[cell'[u]] = snap'[u].idx
      BY <2>4 DEF SnapshotSound
    <3>1. u # t /\ pc'[u] = pc[u]
      BY <2>6 DEF TypeOK
    <3>2. pc[u] = "free_cas" => cell[u] # c
      <4>1. n \in 1 .. n
        BY <2>2
      <4> QED
        BY <2>1, <4>1 DEF NoCellShared, Freeing, FreePC, n
    <3> QED
      BY <2>6, <3>1, <3>2 DEF SnapshotSound, TypeOK
  <2> QED
    BY <2>4, <2>7, <2>9, <2>11, <2>12, <2>13
<1>5. ASSUME NEW t \in Thread, MakeRetry(t) PROVE IInv'
  <2> USE <1>5 DEF MakeRetry
  <2>1. TypeOK'
    BY TagModAssumption, SMTT(20) DEF TypeOK, LoadHead, Word, MakePC
  <2>2. FreeListIntact'
    BY ListUntouched
  <2>3. NoCellShared' /\ NoCellLost'
    BY PlacesUntouched DEF FreePC, TypeOK
  <2>4. TagCountsUpdates'
    BY LoadKeepsTagCount DEF TypeOK
  <2>5. SnapshotSound'
    BY DEF SnapshotSound, LoadHead, TypeOK
  <2> QED
    BY <2>1, <2>2, <2>3, <2>4, <2>5
<1>6. ASSUME NEW t \in Thread, NEW c \in Cells, FreeLoad(t, c) PROVE IInv'
  <2> USE <1>6 DEF FreeLoad
  <2>1. TypeOK'
    BY TagModAssumption, SMTT(20) DEF TypeOK, LoadHead, Word, FreePC
  <2>2. FreeListIntact'
    BY ListUntouched
  <2>3. /\ \A u \in Thread \ {t} : (pc'[u] \in FreePC <=> pc[u] \in FreePC) /\ cell'[u] = cell[u]
        /\ cell'[t] = c /\ pc'[t] \in FreePC /\ pc[t] \notin FreePC
    BY DEF FreePC, TypeOK
  <2>4. NoCellShared'
    BY <2>3, SMTT(20) DEF NoCellShared, Freeing
  <2>5. NoCellLost'
    BY <2>3, SMTT(20) DEF NoCellLost, Freeing
  <2>6. TagCountsUpdates'
    BY LoadKeepsTagCount DEF TypeOK
  <2>7. SnapshotSound'
    BY DEF SnapshotSound, LoadHead, TypeOK
  <2> QED
    BY <2>1, <2>2, <2>4, <2>5, <2>6, <2>7
<1>7. ASSUME NEW t \in Thread, FreeLink(t) PROVE IInv'
  <2> USE <1>7 DEF FreeLink
  <2>0. /\ Freeing(t) /\ cell[t] \in Cells /\ snap[t].idx \in Index
        /\ mem' = [mem EXCEPT ![cell[t]] = snap[t].idx]
    BY DEF Freeing, FreePC, TypeOK, Word
  <2>1. TypeOK'
    BY <2>0, SMTT(20) DEF TypeOK, FreePC
  <2>2. FreeListIntact'
    <3>1. \A i \in 1 .. Len(stack) : stack[i] \in Cells /\ stack[i] # cell[t]
      BY <2>0, SMTT(20) DEF NoCellShared, TypeOK
    <3> QED
      BY <2>0, <3>1, ListUntouched, SMTT(20) DEF TypeOK
  <2>3. NoCellShared' /\ NoCellLost'
    BY PlacesUntouched DEF FreePC, TypeOK
  <2>4. TagCountsUpdates'
    BY DEF TagCountsUpdates, TypeOK
  <2>5. SnapshotSound'
    <3> SUFFICES ASSUME NEW u \in Thread
                 PROVE  /\ pc'[u] = "make_cas" /\ head = snap[u] => nxt[u] = mem'[snap[u].idx]
                        /\ pc'[u] = "free_cas" => mem'[cell[u]] = snap[u].idx
      BY SMTT(20) DEF SnapshotSound, TypeOK
    <3>1. ASSUME pc'[u] = "make_cas", head = snap[u]
          PROVE  nxt[u] = mem'[snap[u].idx]
      <4>1. pc[u] = "make_cas" /\ snap[u].idx \in Cells
        BY <3>1 DEF TypeOK, SnapshotSound, Word, Index
      <4>2. stack # <<>> /\ head.idx = stack[Len(stack)]
        BY <3>1, <4>1, TopOfList
      <4>3. Len(stack) \in 1 .. Len(stack)
        BY <4>2, SMTT(20) DEF TypeOK
      <4>4. snap[u].idx # cell[t]
        BY <2>0, <3>1, <4>2, <4>3 DEF NoCellShared
      <4> QED
        BY <2>0, <3>1, <4>1, <4>4 DEF SnapshotSound, TypeOK
    <3>2. ASSUME pc'[u] = "free_cas"
          PROVE  mem'[cell[u]] = snap[u].idx
      <4>1. CASE u = t
        BY <2>0, <4>1 DEF TypeOK
      <4>2. CASE u # t
        BY <2>0, <3>2, <4>2, SMTT(20) DEF NoCellShared, Freeing, FreePC, SnapshotSound, TypeOK
      <4> QED
        BY <4>1, <4>2
    <3> QED
      BY <3>1, <3>2
  <2> QED
    BY <2>1, <2>2, <2>3, <2>4, <2>5
<1>8. ASSUME NEW t \in Thread, FreePut(t) PROVE IInv'
  <2> DEFINE c == cell[t]
             n == Len(stack)
  <2>0. /\ c \in Cells /\ Freeing(t) /\ head = snap[t] /\ mem[c] = head.idx
        /\ c \notin live
        /\ \A i \in 1 .. n : stack[i] # c
    BY <1>8 DEF FreePut, HeadMatches, SnapshotSound, NoCellShared, Freeing, FreePC, TypeOK
  <2>1. /\ n \in Nat
        /\ stack' \in Seq(Cells)
        /\ stack' # <<>>
        /\ Len(stack') = n + 1
        /\ \A i \in 1 .. n : stack'[i] = stack[i]
        /\ stack'[n + 1] = c
    <3>1. stack \in Seq(Cells) /\ stack' = Append(stack, c)
      BY <1>8 DEF FreePut, TypeOK
    <3> HIDE DEF c
    <3> QED
      BY <2>0, <3>1
  <2>2. \A i \in 1 .. n : stack[i] \in Cells
    BY DEF TypeOK
  <2>3. /\ TagCountsUpdates'
        /\ age' \in [Thread -> 0 .. TagMod - 1]
        /\ \A u \in Thread : pc'[u] # "idle" => head' # snap'[u]
    BY <1>8, UpdateKeepsTagCount DEF FreePut
  <2>4. head' \in Word
    BY <1>8, <2>0, NextTagWraps DEF FreePut, SetHead, TypeOK, Word, Index
  <2>5. /\ pc' = [pc EXCEPT ![t] = "idle"]
        /\ head'.idx = c
        /\ UNCHANGED <<mem, live, snap, nxt, cell>>
    BY <1>8 DEF FreePut, SetHead
  <2>6. n = 0 <=> stack = <<>>
    BY SMTT(20) DEF TypeOK
  <2> HIDE DEF c, n
  <2>7. TypeOK'
    BY <2>1, <2>3, <2>4, <2>5 DEF TypeOK
  <2>8. FreeListIntact'
    <3>1. head'.idx = stack'[Len(stack')]
      BY <2>1, <2>5
    <3>2. ASSUME NEW i \in 1 .. Len(stack')
          PROVE  mem'[stack'[i]] = IF i = 1 THEN NIL ELSE stack'[i - 1]
      <4>1. CASE i \in 1 .. n
        <5>1. mem[stack[i]] = IF i = 1 THEN NIL ELSE stack[i - 1]
          BY <4>1 DEF FreeListIntact, n
        <5>2. i # 1 => i - 1 \in 1 .. n
          BY <2>1, <4>1
        <5> QED
          BY <2>1, <2>5, <4>1, <5>1, <5>2
      <4>2. CASE i = n + 1
        <5>1. mem'[stack'[i]] = head.idx
          BY <2>0, <2>1, <2>5, <4>2
        <5>2. head.idx = IF n = 0 THEN NIL ELSE stack[n]
          BY <2>6 DEF FreeListIntact, n
        <5>3. n # 0 => n \in 1 .. n /\ i - 1 = n /\ i # 1
          BY <2>1, <4>2
        <5>4. n = 0 => i = 1
          BY <4>2
        <5> QED
          BY <2>1, <5>1, <5>2, <5>3, <5>4
      <4> QED
        BY <2>1, <4>1, <4>2, SMTT(20)
    <3> QED
      BY <2>1, <3>1, <3>2 DEF FreeListIntact
  <2>9. \A u \in Thread : pc'[u] \in FreePC => u # t /\ pc[u] \in FreePC
    BY <2>5 DEF FreePC, TypeOK
  <2>10. \A u \in Thread \ {t} : pc'[u] = pc[u]
    BY <2>5 DEF TypeOK
  <2>11. NoCellShared'
    <3>0. \A i \in 1 .. Len(stack') : i \in 1 .. n \/ i = n + 1
      BY <2>1
    <3>1. \A i, j \in 1 .. Len(stack') : stack'[i] = stack'[j] => i = j
      <4>1. /\ \A i, j \in 1 .. n : stack[i] = stack[j] => i = j
            /\ \A i \in 1 .. n : stack[i] # c
        BY <2>0 DEF NoCellShared, n
      <4> QED
        BY <2>1, <3>0, <4>1
    <3>2. \A i \in 1 .. Len(stack') : stack'[i] \notin live'
      BY <2>0, <2>1, <2>5, <3>0 DEF NoCellShared, n
    <3>3. ASSUME NEW u \in Thread, Freeing(u)'
          PROVE  /\ cell'[u] \notin live'
                 /\ \A i \in 1 .. Len(stack') : stack'[i] # cell'[u]
                 /\ \A v \in Thread \ {u} : Freeing(v)' => cell'[v] # cell'[u]
      <4>1. u # t /\ Freeing(u) /\ cell'[u] = cell[u]
        BY <2>5, <2>9, <3>3 DEF Freeing
      <4>2. cell[u] # c
        BY <2>0, <4>1 DEF NoCellShared, c
      <4>3. \A i \in 1 .. Len(stack') : stack'[i] # cell'[u]
        BY <2>1, <3>0, <4>1, <4>2 DEF NoCellShared, n
      <4>4. \A v \in Thread \ {u} : Freeing(v)' => cell'[v] # cell'[u]
        BY <2>5, <2>9, <4>1 DEF NoCellShared, Freeing
      <4> QED
        BY <2>5, <4>1, <4>3, <4>4 DEF NoCellShared
    <3> QED
      BY <3>1, <3>2, <3>3 DEF NoCellShared
  <2>12. NoCellLost'
    <3> SUFFICES ASSUME NEW d \in Cells
                 PROVE  \/ d \in live'
                        \/ \E i \in 1 .. Len(stack') : stack'[i] = d
                        \/ \E u \in Thread : Freeing(u)' /\ cell'[u] = d
      BY DEF NoCellLost
    <3>1. CASE d \in live
      BY <2>5, <3>1
    <3>2. CASE \E i \in 1 .. n : stack[i] = d
      <4>1. PICK i \in 1 .. n : stack[i] = d
        BY <3>2
      <4>2. i \in 1 .. Len(stack') /\ stack'[i] = d
        BY <2>1, <4>1
      <4> QED
        BY <4>2
    <3>3. CASE d = c
      <4>1. n + 1 \in 1 .. Len(stack')
        BY <2>1
      <4> QED
        BY <2>1, <3>3, <4>1
    <3>4. CASE d # c /\ \E u \in Thread : Freeing(u) /\ cell[u] = d
      BY <2>5, <2>10, <3>4 DEF Freeing, c
    <3> QED
      BY <3>1, <3>2, <3>3, <3>4 DEF NoCellLost, n
  <2>13. SnapshotSound'
    BY <2>3, <2>5, <2>10 DEF SnapshotSound, TypeOK
  <2> QED
    BY <2>3, <2>7, <2>8, <2>11, <2>12, <2>13
<1>9. ASSUME NEW t \in Thread, FreeRetry(t) PROVE IInv'
  <2> USE <1>9 DEF FreeRetry
  <2>1. TypeOK'
    BY TagModAssumption, SMTT(20) DEF TypeOK, LoadHead, Word, FreePC
  <2>2. FreeListIntact'
    BY ListUntouched
  <2>3. NoCellShared' /\ NoCellLost'
    BY PlacesUntouched DEF FreePC, TypeOK
  <2>4. TagCountsUpdates'
    BY LoadKeepsTagCount DEF TypeOK
  <2>5. SnapshotSound'
    BY DEF SnapshotSound, LoadHead, TypeOK
  <2> QED
    BY <2>1, <2>2, <2>3, <2>4, <2>5
<1>10. CASE UNCHANGED vars
  <2>1. TypeOK'
    BY <1>10 DEF vars, TypeOK
  <2>2. FreeListIntact'
    BY <1>10, ListUntouched DEF vars
  <2>3. NoCellShared' /\ NoCellLost'
    BY <1>10, PlacesUntouched DEF vars
  <2>4. TagCountsUpdates' /\ SnapshotSound'
    BY <1>10 DEF vars, TagCountsUpdates, SnapshotSound
  <2> QED
    BY <2>1, <2>2, <2>3, <2>4
<1> QED
  BY <1>1, <1>2, <1>3, <1>4, <1>5, <1>6, <1>7, <1>8, <1>9, <1>10 DEF Next, Step

\* The inductive invariant holds in every reachable state of the pool.
THEOREM Invariance == Spec => []IInv
BY InitInv, StepInv, PTL DEF Spec

\* The variables of the pool keep their types; the head always names a cell
\* or the end of the list.
THEOREM TypeCorrect == Spec => []TypeOK
<1>1. IInv => TypeOK
  BY DEF IInv
<1> QED
  BY <1>1, Invariance, PTL

\* The free list chains exactly the free cells, in LIFO order, for every
\* interleaving of make() and free(): the tag excludes ABA.
THEOREM FreeListSound == Spec => []FreeListIntact
<1>1. IInv => FreeListIntact
  BY DEF IInv
<1> QED
  BY <1>1, Invariance, PTL

\* A cell has at most one holder: make() never hands one out twice.
THEOREM ExclusiveOwnership == Spec => []NoCellShared
<1>1. IInv => NoCellShared
  BY DEF IInv
<1> QED
  BY <1>1, Invariance, PTL

\* A cell always has a holder: make() and free() lose none.
THEOREM Conservation == Spec => []NoCellLost
<1>1. IInv => NoCellLost
  BY DEF IInv
<1> QED
  BY <1>1, Invariance, PTL

\* A compare-and-swap that succeeds acts on facts that still hold.
THEOREM SwapsAreCurrent == Spec => []SnapshotSound
<1>1. IInv => SnapshotSound
  BY DEF IInv
<1> QED
  BY <1>1, Invariance, PTL
=============================================================================

--------------------------- MODULE DurableProofs ---------------------------
(***************************************************************************)
(* event_ptr keeps one owner per cell, for any number of event_ptr objects *)
(* and cells; and the replay of the durable log, which moves records       *)
(* through cells held by event_ptrs and a conduit, hands the saga the      *)
(* records of the file in order, for any number of events, cells and       *)
(* workflows and any bound of the conduit.                                 *)
(***************************************************************************)
EXTENDS Durable, TLAPS

\* Time for the provers; a leaf that names another prover goes to that one.
USE ZenonT(3), SMTT(20)

\* The inductive invariant: a null event_ptr owns nothing, so what an event_ptr
\* frees is what it owns, and that is in no other place.
IInv == TypeOK /\ AtMostOneOwner /\ NoCellLost

\* Sequences of one length with the same elements are the same.
LEMMA SeqEqual ==
    ASSUME NEW S, NEW s \in Seq(S), NEW r \in Seq(S), Len(s) = Len(r),
           \A k \in 1 .. Len(s) : s[k] = r[k]
    PROVE  s = r
OBVIOUS

\* At the start every cell is in the pool.
LEMMA InitInv == Init => IInv
BY NullAssumption DEF Init, IInv, TypeOK, AtMostOneOwner, NoCellLost, Owns

\* Every operation on event_ptr objects preserves the invariant.
LEMMA StepInv == IInv /\ [Next]_vars => IInv'
<1> SUFFICES ASSUME IInv, [Next]_vars PROVE IInv'
  OBVIOUS
<1> USE NullAssumption DEF IInv, TypeOK, AtMostOneOwner, NoCellLost, Owns, Resets
<1>1. ASSUME NEW x \in Var, NEW c \in Cell \cup {NULL}, Make(x, c) PROVE IInv'
  <2>1. TypeOK'
    BY <1>1, SMTT(20) DEF Make
  <2>2. AtMostOneOwner'
    BY <1>1, SMTT(20) DEF Make
  <2>3. NoCellLost'
    <3>1. /\ ptr'[x] = c /\ deleter'[x] = (c # NULL)
          /\ \A y \in Var \ {x} : ptr'[y] = ptr[y] /\ deleter'[y] = deleter[y]
      BY <1>1, SMTT(20) DEF Make
    <3>2. \A y \in Var : ptr'[y] = NULL => ~deleter'[y]
      BY <3>1
    <3>3. ASSUME NEW d \in Cell
          PROVE  d \in free' \cup bare' \/ \E y \in Var : Owns(y, d)'
      <4>1. CASE d = c
        BY <3>1, <4>1
      <4>2. CASE d # c /\ d \in free \cup bare
        BY <1>1, <4>2 DEF Make
      <4>3. CASE Owns(x, d)
        BY <1>1, <4>3 DEF Make
      <4>4. CASE \E y \in Var \ {x} : Owns(y, d)
        BY <3>1, <4>4
      <4> QED
        BY <4>1, <4>2, <4>3, <4>4
    <3> QED
      BY <3>2, <3>3
  <2> QED
    BY <2>1, <2>2, <2>3
<1>2. ASSUME NEW x \in Var, NEW y \in Var, Move(x, y) PROVE IInv'
  BY <1>2, SMTT(20) DEF Move
<1>3. ASSUME NEW x \in Var, NEW y \in Var, View(x, y) PROVE IInv'
  BY <1>3, SMTT(20) DEF View
<1>4. ASSUME NEW x \in Var, Reset(x) PROVE IInv'
  BY <1>4, SMTT(20) DEF Reset
<1>5. ASSUME NEW x \in Var, Release(x) PROVE IInv'
  BY <1>5, SMTT(20) DEF Release
<1>6. ASSUME NEW x \in Var, NEW c \in Cell, Adopt(x, c) PROVE IInv'
  BY <1>6, SMTT(20) DEF Adopt
<1>7. CASE UNCHANGED vars
  BY <1>7 DEF vars
<1> QED
  BY <1>1, <1>2, <1>3, <1>4, <1>5, <1>6, <1>7 DEF Next

\* Every reachable state satisfies the invariant.
THEOREM Invariance == Spec => []IInv
BY InitInv, StepInv, PTL DEF Spec

\* No two event_ptr objects ever free one cell.
THEOREM SingleOwner == Spec => []AtMostOneOwner
<1>1. IInv => AtMostOneOwner
  BY DEF IInv
<1> QED
  BY <1>1, Invariance, PTL

\* No operation of event_ptr loses a cell.
THEOREM Conservation == Spec => []NoCellLost
<1>1. IInv => NoCellLost
  BY DEF IInv
<1> QED
  BY <1>1, Invariance, PTL

----------------------------------------------------------------------------
\* The n-th record of a file.
Byte == [event : Nat, byte : 1 .. sizeofEvent]
RecordOf(f, n) == SubSeq(f, (n - 1) * sizeofEvent + 1, n * sizeofEvent)

\* The records that the worker has taken, those that left the source, and whether the
\* source holds one more.
Taken == Len(handled) + (IF ptr[worker] = NULL THEN 0 ELSE 1)
Queued == Taken + Len(queue)
Loaded == IF ptr[source] # NULL /\ content[ptr[source]] # <<>> THEN 1 ELSE 0

\* Every variable that the replay depends on has its type.
DurableType ==
    /\ phase \in {"log", "replay", "done"}
    /\ is_running \in BOOLEAN /\ interrupted \in BOOLEAN
    /\ offset \in Nat /\ last \in Nat
    /\ file \in Seq(Byte)
    /\ content \in [Cell -> Seq(Byte)]
    /\ queue \in Seq(Cell)
    /\ handled \in Seq(Seq(Byte))

\* The source and the worker own their cells, and the conduit holds bare pointers to
\* different ones.
Holders ==
    /\ ptr[source] # NULL => deleter[source]
    /\ ptr[worker] # NULL => deleter[worker]
    /\ \A i \in 1 .. Len(queue) : queue[i] \in bare
    /\ \A i, j \in 1 .. Len(queue) : i # j => queue[i] # queue[j]

\* What each phase of the program says of the file position and the cells.
Phases ==
    /\ phase = "log" =>
          /\ handled = <<>> /\ queue = <<>> /\ offset = 0
          /\ ptr[source] = NULL /\ ptr[worker] = NULL /\ \A c \in Cell : content[c] = <<>>
    /\ phase = "replay" =>
          /\ is_running \/ interrupted
          /\ \A c \in free : content[c] = <<>>
          /\ offset = (Queued + Loaded) * sizeofEvent
    /\ phase = "done" => ptr[source] = NULL /\ (interrupted \/ Queued = Len(file) \div sizeofEvent)
    /\ Queued * sizeofEvent <= offset /\ offset <= Len(file)

\* The records are, in the order of the file, with the saga, the worker, the conduit and
\* the source.
InTurn ==
    /\ \A n \in 1 .. Len(handled) : handled[n] = RecordOf(file, n)
    /\ ptr[worker] # NULL => content[ptr[worker]] = RecordOf(file, Taken)
    /\ \A i \in 1 .. Len(queue) : content[queue[i]] = RecordOf(file, Taken + i)
    /\ Loaded = 1 => content[ptr[source]] = RecordOf(file, Queued + 1)

\* The inductive invariant of the replay, together with IInv.
DInv == DurableType /\ Holders /\ Phases /\ InTurn

----------------------------------------------------------------------------
\* What the source and the worker do with their event_ptrs is what EventPtr allows.
LEMMA HandlesLawful == IInv /\ [DurableNext]_allVars => [Next]_vars
<1> SUFFICES ASSUME IInv, [DurableNext]_allVars PROVE [Next]_vars
  OBVIOUS
<1>1. CASE MakeUninitialized
  BY <1>1, ThreadsAssumption DEF MakeUninitialized, Next
<1>2. CASE EndReplay
  BY <1>2, ThreadsAssumption DEF EndReplay, Next
<1>3. CASE Push
  BY <1>3, ThreadsAssumption DEF Push, Next
<1>4. CASE Handle
  BY <1>4, ThreadsAssumption DEF Handle, Next
<1>5. CASE Pop
  <2>1. Head(queue) \in Cell /\ Adopt(worker, Head(queue))
    BY <1>5 DEF Pop, Adopt, IInv, TypeOK
  <2> QED
    BY <2>1, ThreadsAssumption DEF Next
<1>6. CASE Log \/ Crash \/ StartReplay \/ ReadRecord \/ StopReplay \/ UNCHANGED allVars
  BY <1>6 DEF Log, Crash, StartReplay, ReadRecord, StopReplay, allVars, handles, vars
<1> QED
  BY <1>1, <1>2, <1>3, <1>4, <1>5, <1>6 DEF DurableNext, Source, Worker

\* So they are owned as event_ptrs are, on the replay's threads too.
THEOREM ReplayInvariance == DurableSpec => []IInv
<1>1. DurableInit => IInv
  BY InitInv DEF DurableInit
<1>2. IInv /\ [DurableNext]_allVars => IInv'
  BY HandlesLawful, StepInv
<1> QED
  BY <1>1, <1>2, PTL DEF DurableSpec

\* The replay implements the life of event_ptrs: each of its steps is one of theirs or
\* leaves them alone.
THEOREM ReplayUsesHandles == DurableSpec => Spec
<1>1. DurableInit => Init
  BY DEF DurableInit
<1> QED
  BY <1>1, HandlesLawful, ReplayInvariance, PTL DEF DurableSpec, Spec

\* No cell of the replay has two owners.
THEOREM ReplaySingleOwner == DurableSpec => []AtMostOneOwner
BY ReplayUsesHandles, SingleOwner, PTL

----------------------------------------------------------------------------
\* A record within the file is no empty one.
LEMMA RecordTypes ==
    ASSUME NEW f \in Seq(Byte), NEW n \in Nat, n >= 1, n * sizeofEvent <= Len(f)
    PROVE  RecordOf(f, n) \in Seq(Byte) /\ RecordOf(f, n) # <<>>
<1>1. PICK p \in Int, q \in Int : p = (n - 1) * sizeofEvent + 1 /\ q = n * sizeofEvent
  BY DEF sizeofEvent
<1>2. Len(f) \in Nat /\ p >= 1 /\ q <= Len(f) /\ q - p + 1 = 2 /\ p <= q
  BY <1>1 DEF sizeofEvent
<1>3. \A i \in p .. q : f[i] \in Byte
  BY <1>2
<1>4. SubSeq(f, p, q) \in Seq(Byte) /\ Len(SubSeq(f, p, q)) = IF p <= q THEN q - p + 1 ELSE 0
  BY <1>3
<1>5. Len(SubSeq(f, p, q)) = 2 /\ Len(<<>>) = 0
  BY <1>2, <1>4
<1>6. RecordOf(f, n) = SubSeq(f, p, q)
  BY <1>1 DEF RecordOf
<1>7. Len(RecordOf(f, n)) # Len(<<>>)
  BY <1>5, <1>6
<1> QED
  BY <1>4, <1>6, <1>7, Zenon

\* The counts are natural numbers.
LEMMA Counts ==
    ASSUME DurableType
    PROVE  /\ Len(handled) \in Nat /\ Len(queue) \in Nat /\ Len(file) \in Nat
           /\ Taken \in Nat /\ Queued \in Nat /\ Loaded \in {0, 1}
           /\ Queued = Taken + Len(queue)
<1>1. Len(handled) \in Nat /\ Len(queue) \in Nat /\ Len(file) \in Nat
  BY DEF DurableType
<1>2. Taken \in Nat
  BY <1>1 DEF Taken
<1> QED
  BY <1>1, <1>2 DEF Queued, Loaded

\* Nothing has been read at the start.
LEMMA DInvInit == DurableInit => DInv
<1> SUFFICES ASSUME DurableInit PROVE DInv
  OBVIOUS
<1>1. /\ <<>> \in Seq(Byte) /\ <<>> \in Seq(Cell) /\ <<>> \in Seq(Seq(Byte)) /\ Len(<<>>) = 0
      /\ \A c \in Cell : content[c] = <<>>
  BY DEF DurableInit
<1>2. ptr[source] = NULL /\ ptr[worker] = NULL
  BY ThreadsAssumption DEF DurableInit, Init
<1>3. DurableType
  <2>1. content \in [Cell -> Seq(Byte)]
    BY <1>1 DEF DurableInit
  <2>2. is_running \in BOOLEAN /\ interrupted \in BOOLEAN
    BY DEF DurableInit
  <2> QED
    BY <1>1, <2>1, <2>2 DEF DurableInit, DurableType
<1>4. Taken = 0 /\ Queued = 0 /\ Loaded = 0
  BY <1>1, <1>2 DEF DurableInit, Taken, Queued, Loaded
<1>5. Holders /\ InTurn
  BY <1>1, <1>2, <1>4, SMTT(20) DEF DurableInit, Holders, InTurn
<1>6. Phases
  BY <1>1, <1>2, <1>4 DEF DurableInit, Phases, sizeofEvent
<1> QED
  BY <1>3, <1>5, <1>6 DEF DInv

\* While events are logged, and when that ends, nothing is in a cell.
LEMMA LogKeeps ==
    ASSUME IInv, DInv, Log \/ Crash \/ StartReplay
    PROVE  DInv'
<1>1. /\ phase = "log" /\ UNCHANGED handles /\ offset' = offset /\ content' = content
      /\ queue' = queue /\ handled' = handled
  BY DEF Log, Crash, StartReplay
<1>2. /\ handled = <<>> /\ queue = <<>> /\ offset = 0 /\ ptr[source] = NULL
      /\ ptr[worker] = NULL /\ \A c \in Cell : content[c] = <<>>
  BY <1>1 DEF DInv, Phases
<1>3. file' \in Seq(Byte) /\ last' \in Nat
  <2>1. CASE Log
    <3>1. PICK l \in Nat : l = last' /\ l = last + 1
      BY <2>1 DEF Log, DInv, DurableType
    <3>2. PICK w \in 0 .. sizeofEvent : file' = file \o SubSeq(Bytes(l), 1, w)
      BY <2>1, <3>1 DEF Log
    <3>3. \A i \in 1 .. w : Bytes(l)[i] \in Byte
      BY DEF Bytes, Byte, sizeofEvent
    <3>4. w \in Int
      BY DEF sizeofEvent
    <3>5. SubSeq(Bytes(l), 1, w) \in Seq(Byte)
      BY <3>3, <3>4
    <3> QED
      BY <3>1, <3>2, <3>5, SMTT(20) DEF DInv, DurableType
  <2>2. CASE Crash
    <3>1. PICK k \in 0 .. Len(file) : file' = SubSeq(file, 1, k)
      BY <2>2 DEF Crash
    <3>2. k \in Nat /\ \A i \in 1 .. k : file[i] \in Byte
      BY Counts, SMTT(20) DEF DInv, DurableType
    <3>3. SubSeq(file, 1, k) \in Seq(Byte)
      BY <3>2
    <3> QED
      BY <2>2, <3>1, <3>3 DEF Crash, DInv, DurableType
  <2>3. CASE StartReplay
    BY <2>3 DEF StartReplay, log, DInv, DurableType
  <2> QED
    BY <2>1, <2>2, <2>3
<1>4. /\ phase' \in {"log", "replay", "done"} /\ (phase' = "replay" => is_running')
      /\ (phase' = "done" => interrupted')
  BY <1>1 DEF Log, Crash, StartReplay
<1>5. is_running' \in BOOLEAN /\ interrupted' \in BOOLEAN
  BY DEF Log, Crash, StartReplay, DInv, DurableType
<1>6. DurableType'
  BY <1>1, <1>3, <1>4, <1>5 DEF DInv, DurableType
<1>7. Len(<<>>) = 0 /\ Len(file') \in Nat
  BY <1>3
<1>8. /\ ptr' = ptr /\ deleter' = deleter /\ free' = free /\ bare' = bare
  BY <1>1 DEF handles
<1>9. Taken' = 0 /\ Queued' = 0 /\ Loaded' = 0
  BY <1>1, <1>2, <1>7, <1>8 DEF Taken, Queued, Loaded
<1>10. Holders' /\ InTurn'
  BY <1>1, <1>2, <1>7, <1>8, <1>9, SMTT(20) DEF Holders, InTurn
<1>11. Phases'
  <2>1. \A c \in free' : content'[c] = <<>>
    BY <1>1, <1>2, <1>8 DEF IInv, TypeOK
  <2> QED
    BY <1>1, <1>2, <1>4, <1>7, <1>8, <1>9, <2>1 DEF Phases, sizeofEvent
<1> QED
  BY <1>6, <1>10, <1>11 DEF DInv

\* The cells of the source, of the worker, of the conduit and of the pool differ.
LEMMA Apart ==
    ASSUME IInv, DInv
    PROVE  /\ source # worker
           /\ ptr[source] \in Cell \cup {NULL} /\ ptr[worker] \in Cell \cup {NULL}
           /\ ptr[source] # NULL =>
                 /\ ptr[source] \in Cell /\ ptr[source] \notin free /\ ptr[source] \notin bare
                 /\ ptr[source] # ptr[worker] /\ Resets(source) = {ptr[source]}
           /\ ptr[source] = NULL => Resets(source) = {}
           /\ ptr[worker] # NULL =>
                 /\ ptr[worker] \in Cell /\ ptr[worker] \notin free /\ ptr[worker] \notin bare
                 /\ Resets(worker) = {ptr[worker]}
           /\ \A i \in 1 .. Len(queue) : queue[i] \in Cell /\ queue[i] # ptr[source] /\ queue[i] # ptr[worker]
<1>1. source # worker
  BY DEF source, worker
<1>2. ptr[source] \in Cell \cup {NULL} /\ ptr[worker] \in Cell \cup {NULL}
  BY ThreadsAssumption DEF IInv, TypeOK
<1>3. ptr[source] # NULL => Owns(source, ptr[source]) /\ Resets(source) = {ptr[source]}
  BY DEF DInv, Holders, Owns, Resets
<1>4. ptr[worker] # NULL => Owns(worker, ptr[worker]) /\ Resets(worker) = {ptr[worker]}
  BY DEF DInv, Holders, Owns, Resets
<1>5. ptr[source] = NULL => Resets(source) = {}
  BY DEF Resets
<1>6. ptr[source] # NULL => ptr[source] \notin free /\ ptr[source] \notin bare /\ ptr[source] # ptr[worker]
  BY <1>1, <1>2, <1>3, <1>4, ThreadsAssumption DEF IInv, AtMostOneOwner
<1>7. ptr[worker] # NULL => ptr[worker] \notin free /\ ptr[worker] \notin bare
  BY <1>2, <1>4, ThreadsAssumption DEF IInv, AtMostOneOwner
<1>8. \A i \in 1 .. Len(queue) : queue[i] \in bare /\ queue[i] \in Cell /\ queue[i] # NULL
  BY NullAssumption DEF DInv, Holders, IInv, TypeOK
<1> QED
  BY <1>1, <1>2, <1>3, <1>4, <1>5, <1>6, <1>7, <1>8

\* A cell is taken for the next record.
LEMMA MakeKeeps ==
    ASSUME IInv, DInv, MakeUninitialized
    PROVE  DInv'
<1>1. /\ phase = "replay" /\ ptr[source] = NULL /\ UNCHANGED log /\ phase' = phase
      /\ is_running' = is_running /\ offset' = offset /\ content' = content /\ queue' = queue
      /\ handled' = handled /\ interrupted' = interrupted
  BY DEF MakeUninitialized
<1>2. PICK c \in Cell : Make(source, c)
  BY DEF MakeUninitialized
<1>3. c \in free /\ c # NULL
  BY <1>2, NullAssumption DEF Make
<1>4. /\ ptr' = [ptr EXCEPT ![source] = c] /\ deleter' = [deleter EXCEPT ![source] = TRUE]
      /\ free' = free \ {c} /\ bare' = bare
  BY <1>1, <1>2, <1>3, Apart DEF Make
<1>5. /\ ptr'[source] = c /\ deleter'[source] /\ ptr'[worker] = ptr[worker]
      /\ deleter'[worker] = deleter[worker]
  BY <1>4, Apart, ThreadsAssumption DEF IInv, TypeOK
<1>6. file' = file /\ last' = last
  BY <1>1 DEF log
<1>7. content[c] = <<>>
  BY <1>1, <1>3 DEF DInv, Phases
<1>8. Taken' = Taken /\ Queued' = Queued
  BY <1>1, <1>5 DEF Taken, Queued
<1>9. Loaded' = 0 /\ Loaded = 0
  BY <1>1, <1>5, <1>7 DEF Loaded
<1>10. DurableType'
  BY <1>1, <1>6 DEF DInv, DurableType
<1>11. Holders'
  BY <1>1, <1>4, <1>5 DEF DInv, Holders
<1>12. Phases'
  BY <1>1, <1>4, <1>6, <1>8, <1>9 DEF DInv, Phases
<1>13. InTurn'
  BY <1>1, <1>5, <1>6, <1>8, <1>9, SMTT(20) DEF DInv, InTurn
<1> QED
  BY <1>10, <1>11, <1>12, <1>13 DEF DInv

\* A record is read into it.
LEMMA ReadKeeps ==
    ASSUME IInv, DInv, ReadRecord
    PROVE  DInv'
<1>1. /\ phase = "replay" /\ ptr[source] # NULL /\ content[ptr[source]] = <<>> /\ UNCHANGED handles
      /\ UNCHANGED log /\ phase' = phase /\ is_running' = is_running /\ queue' = queue
      /\ handled' = handled /\ interrupted' = interrupted
      /\ offset' = offset + sizeofEvent /\ offset + sizeofEvent <= Len(file)
      /\ content' = [content EXCEPT ![ptr[source]] = SubSeq(file, offset + 1, offset + sizeofEvent)]
  BY DEF ReadRecord, Reading, RecordLeft
<1>2. ptr' = ptr /\ deleter' = deleter /\ free' = free /\ bare' = bare /\ file' = file /\ last' = last
  BY <1>1 DEF handles, log
<1>3. Taken' = Taken /\ Queued' = Queued /\ Loaded = 0
  BY <1>1, <1>2 DEF Taken, Queued, Loaded
<1>4. PICK q \in Nat : q = Queued
  BY Counts DEF DInv
<1>5. offset = q * sizeofEvent /\ offset' = (q + 1) * sizeofEvent /\ (q + 1) * sizeofEvent <= Len(file)
  BY <1>1, <1>3, <1>4 DEF DInv, Phases, sizeofEvent
<1>6. SubSeq(file, offset + 1, offset + sizeofEvent) = RecordOf(file, q + 1)
  <2>1. offset + 1 = ((q + 1) - 1) * sizeofEvent + 1 /\ offset + sizeofEvent = (q + 1) * sizeofEvent
    BY <1>5 DEF sizeofEvent
  <2> QED
    BY <2>1 DEF RecordOf
<1>7. RecordOf(file, q + 1) \in Seq(Byte) /\ RecordOf(file, q + 1) # <<>>
  <2>1. q + 1 \in Nat /\ q + 1 >= 1
    OBVIOUS
  <2> QED
    BY <1>5, <2>1, RecordTypes DEF DInv, DurableType
<1>8. /\ content' \in [Cell -> Seq(Byte)]
      /\ content'[ptr[source]] = RecordOf(file, q + 1)
      /\ \A c \in Cell : c # ptr[source] => content'[c] = content[c]
  BY <1>1, <1>6, <1>7, Apart DEF DInv, DurableType
<1>9. Loaded' = 1
  BY <1>1, <1>2, <1>7, <1>8 DEF Loaded
<1>10. DurableType'
  <2>1. offset' \in Nat
    BY <1>5 DEF sizeofEvent
  <2> QED
    BY <1>1, <1>2, <1>8, <2>1 DEF DInv, DurableType
<1>11. Holders'
  BY <1>1, <1>2 DEF DInv, Holders
<1>12. Phases'
  <2>1. \A c \in free : content'[c] = <<>>
    BY <1>1, <1>8, Apart DEF DInv, Phases, IInv, TypeOK
  <2>2. q * sizeofEvent <= (q + 1) * sizeofEvent
    BY DEF sizeofEvent
  <2> QED
    BY <1>1, <1>2, <1>3, <1>4, <1>5, <1>9, <2>1, <2>2 DEF DInv, Phases
<1>13. InTurn'
  <2>1. ptr[worker] # NULL => content'[ptr[worker]] = content[ptr[worker]]
    BY <1>8, Apart
  <2>2. \A i \in 1 .. Len(queue) : content'[queue[i]] = content[queue[i]]
    BY <1>8, Apart
  <2> QED
    BY <1>1, <1>2, <1>3, <1>4, <1>8, <2>1, <2>2 DEF DInv, InTurn
<1> QED
  BY <1>10, <1>11, <1>12, <1>13 DEF DInv

\* The loop ends.
LEMMA EndKeeps ==
    ASSUME IInv, DInv, EndReplay
    PROVE  DInv'
<1>1. /\ phase = "replay" /\ phase' = "done" /\ Reset(source) /\ UNCHANGED log
      /\ is_running' = FALSE /\ offset' = offset /\ content' = content /\ queue' = queue
      /\ handled' = handled /\ interrupted' = (interrupted \/ (Reading /\ RecordLeft))
      /\ (Reading \/ ~is_running)
  BY DEF EndReplay
<1>2. /\ ptr' = [ptr EXCEPT ![source] = NULL] /\ deleter' = [deleter EXCEPT ![source] = FALSE]
      /\ bare' = bare /\ file' = file /\ last' = last
  BY <1>1 DEF Reset, log
<1>3. ptr'[source] = NULL /\ ptr'[worker] = ptr[worker] /\ deleter'[worker] = deleter[worker]
  BY <1>2, Apart, ThreadsAssumption DEF IInv, TypeOK
<1>4. Taken' = Taken /\ Queued' = Queued /\ Loaded' = 0
  BY <1>1, <1>3 DEF Taken, Queued, Loaded
<1>5. interrupted' \/ Queued = Len(file) \div sizeofEvent
  <2> SUFFICES ASSUME ~interrupted' PROVE Queued = Len(file) \div sizeofEvent
    OBVIOUS
  <2>1. Reading /\ ~RecordLeft
    BY <1>1 DEF DInv, Phases
  <2>2. Loaded = 0
    BY <2>1 DEF Reading, Loaded
  <2>3. PICK q \in Nat, l \in Nat : q = Queued /\ l = Len(file)
    BY Counts DEF DInv
  <2>4. ~(q * 2 + 2 <= l) /\ q * 2 <= l
    BY <1>1, <2>1, <2>2, <2>3 DEF RecordLeft, DInv, Phases, sizeofEvent
  <2> QED
    BY <2>3, <2>4 DEF sizeofEvent
<1>6. DurableType'
  <2>1. interrupted' \in BOOLEAN /\ is_running' \in BOOLEAN
    BY <1>1 DEF DInv, DurableType, Reading, RecordLeft
  <2> QED
    BY <1>1, <1>2, <2>1 DEF DInv, DurableType
<1>7. Holders'
  BY <1>1, <1>2, <1>3 DEF DInv, Holders
<1>8. Phases'
  BY <1>1, <1>2, <1>3, <1>4, <1>5 DEF DInv, Phases
<1>9. InTurn'
  BY <1>1, <1>2, <1>3, <1>4, SMTT(20) DEF DInv, InTurn
<1> QED
  BY <1>6, <1>7, <1>8, <1>9 DEF DInv

\* The record goes to the conduit with its cell.
LEMMA PushKeeps ==
    ASSUME IInv, DInv, Push
    PROVE  DInv'
<1>1. /\ phase = "replay" /\ ptr[source] # NULL /\ content[ptr[source]] # <<>> /\ Release(source)
      /\ UNCHANGED log /\ phase' = phase /\ is_running' = is_running /\ offset' = offset
      /\ content' = content /\ queue' = Append(queue, ptr[source]) /\ handled' = handled
      /\ interrupted' = interrupted
  BY DEF Push, Pushing
<1>2. /\ ptr' = [ptr EXCEPT ![source] = NULL] /\ deleter' = [deleter EXCEPT ![source] = FALSE]
      /\ free' = free /\ bare' = bare \cup {ptr[source]} /\ file' = file /\ last' = last
  BY <1>1, Apart DEF Release, log
<1>3. ptr'[source] = NULL /\ ptr'[worker] = ptr[worker] /\ deleter'[worker] = deleter[worker]
  BY <1>2, Apart, ThreadsAssumption DEF IInv, TypeOK
<1>4. PICK p \in Cell, l \in Nat, t \in Nat : p = ptr[source] /\ l = Len(queue) /\ t = Taken
  BY <1>1, Apart, Counts DEF DInv
<1>5. /\ queue' \in Seq(Cell) /\ Len(queue') = l + 1 /\ queue'[l + 1] = p
      /\ \A i \in 1 .. l : queue'[i] = queue[i]
  BY <1>1, <1>4 DEF DInv, DurableType
<1>6. \A i \in 1 .. l + 1 : i \in 1 .. l \/ i = l + 1
  OBVIOUS
<1>7. Taken' = t /\ Queued = t + l /\ Queued' = t + (l + 1) /\ Loaded' = 0 /\ Loaded = 1
  BY <1>1, <1>3, <1>4, <1>5 DEF Taken, Queued, Loaded
<1>8. DurableType'
  BY <1>1, <1>2, <1>5 DEF DInv, DurableType
<1>9. Holders'
  <2>1. \A i \in 1 .. l : queue[i] \in bare /\ queue[i] # p
    BY <1>4, Apart DEF DInv, Holders
  <2>2. \A i, j \in 1 .. l + 1 : i # j => queue'[i] # queue'[j]
    BY <1>4, <1>5, <1>6, <2>1, SMTT(20) DEF DInv, Holders
  <2>3. \A i \in 1 .. l + 1 : queue'[i] \in bare'
    BY <1>2, <1>4, <1>5, <1>6, <2>1
  <2> QED
    BY <1>3, <1>5, <2>2, <2>3 DEF DInv, Holders
<1>10. Phases'
  <2>1. offset = ((t + l) + 1) * 2 /\ offset <= Len(file)
    BY <1>1, <1>7 DEF DInv, Phases, sizeofEvent
  <2>2. offset = ((t + (l + 1)) + 0) * 2 /\ (t + (l + 1)) * 2 <= offset
    BY <2>1
  <2> QED
    BY <1>1, <1>2, <1>7, <2>1, <2>2 DEF DInv, Phases, sizeofEvent
<1>11. InTurn'
  <2>1. content[p] = RecordOf(file, (t + l) + 1) /\ (t + l) + 1 = t + (l + 1)
    BY <1>4, <1>7, SMTT(20) DEF DInv, InTurn
  <2>2. ASSUME NEW i \in 1 .. l + 1 PROVE content'[queue'[i]] = RecordOf(file, t + i)
    <3>1. CASE i \in 1 .. l
      BY <1>1, <1>4, <1>5, <3>1 DEF DInv, InTurn
    <3>2. CASE i = l + 1
      BY <1>1, <1>5, <2>1, <3>2
    <3> QED
      BY <1>6, <3>1, <3>2
  <2>3. \A n \in 1 .. Len(handled') : handled'[n] = RecordOf(file', n)
    BY <1>1, <1>2 DEF DInv, InTurn
  <2>4. ptr'[worker] # NULL => content'[ptr'[worker]] = RecordOf(file', Taken')
    BY <1>1, <1>2, <1>3, <1>4, <1>7 DEF DInv, InTurn
  <2>5. \A i \in 1 .. Len(queue') : content'[queue'[i]] = RecordOf(file', Taken' + i)
    BY <1>2, <1>5, <1>7, <2>2
  <2>6. ~(Loaded' = 1)
    BY <1>7
  <2> QED
    BY <2>3, <2>4, <2>5, <2>6 DEF InTurn
<1> QED
  BY <1>8, <1>9, <1>10, <1>11 DEF DInv

\* stop() and steps that change nothing.
LEMMA StopKeeps ==
    ASSUME IInv, DInv, StopReplay \/ UNCHANGED allVars
    PROVE  DInv'
<1>1. /\ UNCHANGED handles /\ UNCHANGED log /\ phase' = phase /\ offset' = offset
      /\ content' = content /\ queue' = queue /\ handled' = handled
      /\ (is_running' = is_running /\ interrupted' = interrupted) \/
         (is_running' = FALSE /\ interrupted' = TRUE /\ phase = "replay")
  BY DEF StopReplay, allVars
<1>2. ptr' = ptr /\ deleter' = deleter /\ free' = free /\ bare' = bare /\ file' = file /\ last' = last
  BY <1>1 DEF handles, log
<1>3. Taken' = Taken /\ Queued' = Queued /\ Loaded' = Loaded
  BY <1>1, <1>2 DEF Taken, Queued, Loaded
<1>4. DurableType'
  <2>1. is_running' \in BOOLEAN /\ interrupted' \in BOOLEAN
    BY <1>1 DEF DInv, DurableType
  <2> QED
    BY <1>1, <1>2, <2>1 DEF DInv, DurableType
<1>5. Holders' /\ InTurn'
  BY <1>1, <1>2, <1>3 DEF DInv, Holders, InTurn
<1>6. Phases'
  BY <1>1, <1>2, <1>3 DEF DInv, Phases
<1> QED
  BY <1>4, <1>5, <1>6 DEF DInv

\* The worker takes the first cell of the conduit.
LEMMA PopKeeps ==
    ASSUME IInv, DInv, Pop
    PROVE  DInv'
<1>1. /\ queue # <<>> /\ Adopt(worker, Head(queue)) /\ queue' = Tail(queue)
      /\ UNCHANGED log /\ phase' = phase /\ is_running' = is_running /\ offset' = offset
      /\ content' = content /\ handled' = handled /\ interrupted' = interrupted
  BY DEF Pop
<1>2. /\ queue' \in Seq(Cell) /\ Len(queue') = Len(queue) - 1 /\ Head(queue) = queue[1]
      /\ \A i \in 1 .. Len(queue) - 1 : queue'[i] = queue[i + 1]
  BY <1>1 DEF DInv, DurableType
<1>3. PICK h \in Cell, l \in Nat, t \in Nat : h = queue[1] /\ l + 1 = Len(queue) /\ t = Taken
  <2>1. Len(queue) \in Nat /\ Len(queue) # 0
    BY <1>1 DEF DInv, DurableType
  <2>2. Len(queue) - 1 \in Nat /\ (Len(queue) - 1) + 1 = Len(queue) /\ 1 \in 1 .. Len(queue)
    BY <2>1
  <2> QED
    BY <2>2, Apart, Counts DEF DInv
<1>4. Len(queue') = l /\ \A i \in 1 .. l : queue'[i] = queue[i + 1] /\ i + 1 \in 1 .. Len(queue) /\ i + 1 # 1
  BY <1>2, <1>3
<1>5. /\ ptr[worker] = NULL /\ ptr' = [ptr EXCEPT ![worker] = h] /\ h # NULL
      /\ deleter' = [deleter EXCEPT ![worker] = TRUE] /\ free' = free /\ bare' = bare \ {h}
      /\ file' = file /\ last' = last
  BY <1>1, <1>2, <1>3, NullAssumption DEF Adopt, log
<1>6. /\ ptr'[worker] = h /\ deleter'[worker] /\ ptr'[source] = ptr[source]
      /\ deleter'[source] = deleter[source]
  BY <1>5, Apart, ThreadsAssumption DEF IInv, TypeOK
<1>7. Taken' = t + 1 /\ Queued = t + (l + 1) /\ Queued' = (t + 1) + l /\ Loaded' = Loaded
  <2>1. Taken = Len(handled) /\ Taken' = Len(handled) + 1
    BY <1>1, <1>5, <1>6, Counts DEF Taken, DInv
  <2> QED
    BY <1>1, <1>3, <1>4, <1>6, <2>1 DEF Queued, Loaded
<1>8. Queued' = Queued /\ 1 \in 1 .. Len(queue)
  BY <1>3, <1>7
<1>9. DurableType'
  BY <1>1, <1>2, <1>5 DEF DInv, DurableType
<1>10. Holders'
  <2>1. \A i \in 1 .. l : queue[i + 1] \in bare /\ queue[i + 1] # h
    BY <1>3, <1>4, <1>8 DEF DInv, Holders
  <2>2. ASSUME NEW i \in 1 .. l, NEW j \in 1 .. l, i # j PROVE queue'[i] # queue'[j]
    <3>1. i + 1 # j + 1
      BY <2>2
    <3>2. i + 1 \in 1 .. Len(queue) /\ j + 1 \in 1 .. Len(queue)
      BY <1>4
    <3>3. queue[i + 1] # queue[j + 1]
      BY <3>1, <3>2 DEF DInv, Holders
    <3> QED
      BY <1>4, <3>3
  <2>3. \A i \in 1 .. l : queue'[i] \in bare'
    BY <1>4, <1>5, <2>1
  <2> QED
    BY <1>4, <1>6, <2>2, <2>3 DEF DInv, Holders
<1>11. Phases'
  <2>1. phase # "log"
    BY <1>1 DEF DInv, Phases
  <2> QED
    BY <1>1, <1>5, <1>6, <1>7, <1>8, <2>1 DEF DInv, Phases
<1>12. InTurn'
  <2>1. content[h] = RecordOf(file, t + 1)
    BY <1>3, <1>8 DEF DInv, InTurn
  <2>2. ASSUME NEW i \in 1 .. l PROVE content'[queue'[i]] = RecordOf(file, (t + 1) + i)
    <3>1. (t + 1) + i = t + (i + 1)
      OBVIOUS
    <3> QED
      BY <1>1, <1>3, <1>4, <3>1 DEF DInv, InTurn
  <2> QED
    BY <1>1, <1>4, <1>5, <1>6, <1>7, <1>8, <2>1, <2>2 DEF DInv, InTurn
<1> QED
  BY <1>9, <1>10, <1>11, <1>12 DEF DInv

\* The saga is handed the worker's record, and the cell returns to the pool.
LEMMA HandleKeeps ==
    ASSUME IInv, DInv, Handle
    PROVE  DInv'
<1>1. /\ ptr[worker] # NULL /\ Reset(worker) /\ content' = [content EXCEPT ![ptr[worker]] = <<>>]
      /\ handled' = Append(handled, content[ptr[worker]])
      /\ UNCHANGED log /\ phase' = phase /\ is_running' = is_running /\ offset' = offset
      /\ queue' = queue /\ interrupted' = interrupted
  BY DEF Handle
<1>2. PICK w \in Cell, h \in Nat : w = ptr[worker] /\ h = Len(handled)
  BY <1>1, Apart, Counts DEF DInv
<1>3. /\ ptr' = [ptr EXCEPT ![worker] = NULL] /\ deleter' = [deleter EXCEPT ![worker] = FALSE]
      /\ free' = free \cup {w} /\ bare' = bare /\ file' = file /\ last' = last
  BY <1>1, <1>2, Apart DEF Reset, log
<1>4. /\ ptr'[worker] = NULL /\ ptr'[source] = ptr[source] /\ deleter'[source] = deleter[source]
  BY <1>3, Apart, ThreadsAssumption DEF IInv, TypeOK
<1>5. /\ content' \in [Cell -> Seq(Byte)] /\ content'[w] = <<>>
      /\ \A c \in Cell : c # w => content'[c] = content[c]
  BY <1>1, <1>2, SMTT(20) DEF DInv, DurableType
<1>6. /\ handled' \in Seq(Seq(Byte)) /\ Len(handled') = h + 1 /\ handled'[h + 1] = content[w]
      /\ \A n \in 1 .. h : handled'[n] = handled[n]
  BY <1>1, <1>2 DEF DInv, DurableType
<1>7. Taken = h + 1 /\ Taken' = h + 1 /\ Queued' = Queued
  BY <1>1, <1>2, <1>4, <1>6, SMTT(20) DEF Taken, Queued
<1>8. ptr[source] # NULL => content'[ptr[source]] = content[ptr[source]]
  BY <1>2, <1>5, Apart
<1>9. Loaded' = Loaded
  BY <1>4, <1>8 DEF Loaded
<1>10. DurableType'
  BY <1>1, <1>3, <1>5, <1>6 DEF DInv, DurableType
<1>11. Holders'
  BY <1>1, <1>3, <1>4 DEF DInv, Holders
<1>12. Phases'
  <2>1. phase # "log"
    BY <1>1 DEF DInv, Phases
  <2>2. phase = "replay" => \A c \in free' : content'[c] = <<>>
    BY <1>3, <1>5 DEF DInv, Phases, IInv, TypeOK
  <2> QED
    BY <1>1, <1>3, <1>4, <1>7, <1>9, <2>1, <2>2 DEF DInv, Phases
<1>13. InTurn'
  <2>1. \A i \in 1 .. Len(queue) : content'[queue[i]] = content[queue[i]]
    BY <1>2, <1>5, Apart
  <2>2. content[w] = RecordOf(file, h + 1)
    BY <1>1, <1>2, <1>7 DEF DInv, InTurn
  <2>3. ASSUME NEW n \in 1 .. h + 1 PROVE handled'[n] = RecordOf(file, n)
    <3>1. n \in 1 .. h \/ n = h + 1
      OBVIOUS
    <3> QED
      BY <1>2, <1>6, <2>2, <3>1 DEF DInv, InTurn
  <2>4. Loaded = 1 => content'[ptr[source]] = RecordOf(file, Queued + 1)
    BY <1>8, SMTT(20) DEF DInv, InTurn, Loaded
  <2> QED
    BY <1>1, <1>3, <1>4, <1>6, <1>7, <1>9, <2>1, <2>3, <2>4 DEF DInv, InTurn
<1> QED
  BY <1>10, <1>11, <1>12, <1>13 DEF DInv

\* Every step keeps the invariant.
LEMMA DInvStep == IInv /\ DInv /\ [DurableNext]_allVars => DInv'
BY LogKeeps, MakeKeeps, ReadKeeps, EndKeeps, PushKeeps, StopKeeps, PopKeeps, HandleKeeps
   DEF DurableNext, Source, Worker

\* For any number of events, cells and workflows and any bound of the conduit, the saga
\* is handed the records of the file in order, and all of them unless the replay is
\* stopped, or open() or a read() fails.
THEOREM ReplayIsFaithful == DurableSpec => []ReplayFaithful
<1>1. DInv => ReplayFaithful
  <2> SUFFICES ASSUME DInv PROVE ReplayFaithful
    OBVIOUS
  <2>1. PICK h \in Nat, N \in Nat : h = Len(handled) /\ N = Len(file) \div sizeofEvent
    BY Counts DEF DInv, sizeofEvent
  <2>2. Len(file) \in Nat /\ N * 2 <= Len(file) /\ h <= N
    <3>1. Len(file) \in Nat /\ h <= Queued /\ Queued \in Nat /\ Queued * 2 <= Len(file)
      <4>1. Queued = Taken + Len(queue) /\ Len(queue) \in Nat /\ Taken >= h /\ Taken \in Nat
        BY <2>1, Counts DEF DInv, Taken
      <4>2. Queued * 2 <= offset /\ offset <= Len(file) /\ offset \in Nat /\ Len(file) \in Nat
        BY Counts DEF DInv, DurableType, Phases, sizeofEvent
      <4> QED
        BY <4>1, <4>2
    <3> QED
      BY <2>1, <3>1 DEF sizeofEvent
  <2>3. \A n \in 1 .. N : RecordOf(file, n) \in Seq(Byte)
    <3> SUFFICES ASSUME NEW n \in 1 .. N PROVE RecordOf(file, n) \in Seq(Byte)
      OBVIOUS
    <3>1. n \in Nat /\ n >= 1 /\ n * sizeofEvent <= Len(file)
      BY <2>2 DEF sizeofEvent
    <3> QED
      BY <3>1, RecordTypes DEF DInv, DurableType
  <2>4. Records = [n \in 1 .. N |-> RecordOf(file, n)]
    BY <2>1 DEF Records, RecordOf
  <2>5. Records \in Seq(Seq(Byte)) /\ Len(Records) = N /\ \A n \in 1 .. N : Records[n] = RecordOf(file, n)
    <3>1. Records \in [1 .. N -> Seq(Byte)]
      BY <2>3, <2>4
    <3>2. Records \in Seq(Seq(Byte))
      BY <3>1
    <3>3. DOMAIN Records = 1 .. N
      BY <2>4
    <3>4. Len(Records) = N
      BY <3>2, <3>3
    <3> QED
      BY <2>4, <3>2, <3>4
  <2>6. handled \in Seq(Seq(Byte)) /\ \A n \in 1 .. h : handled[n] = RecordOf(file, n)
    BY <2>1 DEF DInv, DurableType, InTurn
  <2>7. Len(handled) <= Len(Records) /\ \A n \in 1 .. Len(handled) : handled[n] = Records[n]
    BY <2>1, <2>2, <2>5, <2>6
  <2>8. Drained /\ ~interrupted => handled = Records
    <3> SUFFICES ASSUME Drained, ~interrupted PROVE handled = Records
      OBVIOUS
    <3>1. Queued = h /\ Queued = N
      BY <2>1 DEF Drained, Queued, Taken, DInv, Phases
    <3> QED
      BY <2>1, <2>5, <2>6, <3>1, SeqEqual
  <2> QED
    BY <2>7, <2>8 DEF ReplayFaithful
<1> QED
  BY <1>1, DInvInit, DInvStep, ReplayInvariance, PTL DEF DurableSpec

----------------------------------------------------------------------------
\* A bare pointer to a cell is in the conduit.
BareQueued == \A c \in bare : \E n \in 1 .. Len(queue) : queue[n] = c

\* push() releases what it has put at the end; pop() adopts what it takes from the front.
LEMMA BareQueuedStep == IInv /\ DInv /\ BareQueued /\ [DurableNext]_allVars => BareQueued'
<1> SUFFICES ASSUME IInv, DInv, BareQueued, [DurableNext]_allVars PROVE BareQueued'
  OBVIOUS
<1>0. queue \in Seq(Cell) /\ Len(queue) \in Nat
  BY DEF DInv, DurableType
<1>1. CASE Push
  <2>1. bare' = bare \cup {ptr[source]} \/ bare' = bare
    BY <1>1 DEF Push, Release, Resets
  <2>2. queue' = Append(queue, ptr[source]) /\ ptr[source] \in Cell
    BY <1>1, Apart DEF Push, Pushing
  <2>3. /\ Len(queue') = Len(queue) + 1 /\ queue'[Len(queue) + 1] = ptr[source]
        /\ \A n \in 1 .. Len(queue) : n \in 1 .. Len(queue') /\ queue'[n] = queue[n]
        /\ Len(queue) + 1 \in 1 .. Len(queue')
    BY <1>0, <2>2, SMTT(20)
  <2> QED
    BY <2>1, <2>3 DEF BareQueued
<1>2. CASE Pop
  <2>1. queue # <<>> /\ bare' = bare \ {Head(queue)} /\ queue' = Tail(queue)
    BY <1>2 DEF Pop, Adopt
  <2>2. /\ Len(queue') = Len(queue) - 1 /\ Head(queue) = queue[1]
        /\ \A n \in 1 .. Len(queue) - 1 : queue'[n] = queue[n + 1]
    BY <1>0, <2>1
  <2> SUFFICES ASSUME NEW c \in bare' PROVE \E n \in 1 .. Len(queue') : queue'[n] = c
    BY DEF BareQueued
  <2>3. PICK n \in 1 .. Len(queue) : queue[n] = c
    BY <2>1 DEF BareQueued
  <2>4. n # 1
    BY <2>1, <2>2, <2>3
  <2>5. n - 1 \in 1 .. Len(queue) - 1 /\ (n - 1) + 1 = n
    BY <1>0, <2>3, <2>4, SMTT(20)
  <2>6. queue'[n - 1] = c
    BY <2>2, <2>3, <2>5
  <2> QED
    BY <2>2, <2>5, <2>6
<1>3. CASE MakeUninitialized \/ EndReplay \/ Handle
  BY <1>3 DEF MakeUninitialized, EndReplay, Handle, Make, Reset, BareQueued
<1>4. CASE Log \/ Crash \/ StartReplay \/ ReadRecord \/ StopReplay \/ UNCHANGED allVars
  BY <1>4 DEF Log, Crash, StartReplay, ReadRecord, StopReplay, allVars, handles, BareQueued
<1> QED
  BY <1>1, <1>2, <1>3, <1>4 DEF DurableNext, Source, Worker

\* For any pool, conduit and log, the replay strands no cell outside the pool, whatever
\* push() refuses and wherever the replay is stopped.
THEOREM ReplayConservation == DurableSpec => []NoCellStranded
<1>1. DurableInit => BareQueued
  BY DEF DurableInit, Init, BareQueued
<1>2. IInv /\ BareQueued => NoCellStranded
  BY DEF IInv, NoCellLost, BareQueued, NoCellStranded
<1> QED
  BY <1>1, <1>2, BareQueuedStep, DInvInit, DInvStep, ReplayInvariance, PTL DEF DurableSpec
=============================================================================

--------------------------- MODULE ShardingProofs ---------------------------
(***************************************************************************)
(* round_robin_switch in the program of 03_sharding.cpp, for every number  *)
(* of tracks, ring size and pool.                                          *)
(***************************************************************************)
EXTENDS Sharding, TLAPS

\* Time for the provers; a leaf that names another prover goes to that one.
USE ZenonT(3), SMTT(20)

\* What the steps of on() and of the workers keep: a track that had room when on()
\* was called has room until on() pushes, since meanwhile workers only pop.
IInv ==
    /\ free \subseteq Cell
    /\ outputs \subseteq Track
    /\ track \in [Track -> Seq(Cell)]
    /\ ev \in Cell \cup {NULL}
    /\ job \in [Track -> Cell \cup {NULL}]
    /\ stops \in [Shards -> Cell \cup {NULL}]
    /\ i \in Nat /\ sent \in Nat
    /\ pc = "on" => /\ ev \in Cell
                    /\ roomy \subseteq outputs
                    /\ \A k \in roomy : HasRoom(k)
    /\ NearestTrackTaken

\* The invariant holds when the program starts.
LEMMA InitInv == ShardInit => IInv
BY SMTT(20) DEF ShardInit, Init, IInv, NearestTrackTaken

\* A pop makes room.
LEMMA PopMakesRoom ==
    ASSUME NEW k \in Track, IInv, Pop(k)
    PROVE  /\ track' \in [Track -> Seq(Cell)]
           /\ \A l \in Track : HasRoom(l) => HasRoom(l)'
<1>1. track[k] \in Seq(Cell) /\ track[k] # <<>>
  BY DEF IInv, Pop
<1>2. Tail(track[k]) \in Seq(Cell) /\ Len(Tail(track[k])) = Len(track[k]) - 1
  BY <1>1
<1>3. track' = [track EXCEPT ![k] = Tail(track[k])]
  BY DEF Pop
<1>4. Len(track[k]) \in Nat
  BY <1>1
<1> QED
  BY <1>2, <1>3, <1>4, ConduitSizeAssumption, SMTT(20) DEF IInv, HasRoom

\* Every step preserves the inductive invariant.
LEMMA StepInv == IInv /\ [ShardNext]_allVars => IInv'
<1> SUFFICES ASSUME IInv, [ShardNext]_allVars PROVE IInv'
  OBVIOUS
<1> USE NullAssumption, NumOutputsAssumption, TasksAssumption
<1>1. CASE SendTask
  BY <1>1, SMTT(20) DEF SendTask, Make, IInv, NearestTrackTaken, HasRoom, vars, producer
<1>2. CASE MakeStops
  <2>1. PICK cells \in [Shards -> free \cup {NULL}] :
           /\ stops' = cells
           /\ free' = free \ {cells[n] : n \in Shards}
    BY <1>2 DEF MakeStops
  <2>2. stops' \in [Shards -> Cell \cup {NULL}]
    BY <2>1 DEF IInv
  <2> QED
    BY <1>2, <2>1, <2>2, SMTT(20) DEF MakeStops, IInv, NearestTrackTaken, producer
<1>3. CASE SendStop
  BY <1>3, SMTT(20) DEF SendStop, IInv, NearestTrackTaken, HasRoom, Shards
<1>4. CASE TrySkip /\ UNCHANGED <<stops, sent>>
  BY <1>4, SMTT(20) DEF TrySkip, IInv, NearestTrackTaken, HasRoom, Candidate
<1>5. CASE TryPush /\ UNCHANGED <<stops, sent>>
  BY <1>5, SMTT(20) DEF TryPush, IInv, NearestTrackTaken, Candidate
<1>6. CASE (Release \/ GiveUp \/ Leave) /\ UNCHANGED <<stops, sent>>
  BY <1>6, SMTT(20) DEF Release, GiveUp, Leave, IInv, NearestTrackTaken
<1>7. CASE Return /\ UNCHANGED sent
  BY <1>6, <1>7 DEF Return, IInv, NearestTrackTaken, Shards
<1>8. CASE Join
  BY <1>8 DEF Join, IInv, NearestTrackTaken, HasRoom, Candidate, producer, Shards
<1>9. CASE Bind
  BY <1>9 DEF Bind, BindTrack, IInv, NearestTrackTaken, producer, shards
<1>10. ASSUME NEW k \in Track, ShardWorker(k)
       PROVE  IInv'
  <2>1. CASE Pop(k)
    <3>1. Head(track[k]) \in Cell
      BY <2>1, SMTT(20) DEF Pop, IInv
    <3>2. job' \in [Track -> Cell \cup {NULL}]
      BY <2>1, <3>1 DEF Pop, IInv
    <3> QED
      BY <1>10, <2>1, <3>2, PopMakesRoom
      DEF ShardWorker, Pop, IInv, NearestTrackTaken, Candidate, producer
  <2>2. CASE Done(k)
    BY <1>10, <2>2 DEF ShardWorker, Done, IInv, NearestTrackTaken, HasRoom, Candidate, producer
  <2> QED
    BY <1>10, <2>1, <2>2 DEF ShardWorker, Work
<1>11. CASE UNCHANGED allVars
  BY <1>11 DEF allVars, vars, producer, shards, IInv, NearestTrackTaken, HasRoom, Candidate
<1> QED
  BY <1>1, <1>2, <1>3, <1>4, <1>5, <1>6, <1>7, <1>8, <1>9, <1>10, <1>11
  DEF ShardNext, MainStep, Route

\* The inductive invariant always holds.
THEOREM Invariance == ShardSpec => []IInv
BY InitInv, StepInv, PTL DEF ShardSpec

\* For every number of tracks on() takes the first track in rotation order that
\* has room, and drops an event only if it had found every bound track full.
THEOREM FirstRoomyTrack == ShardSpec => []NearestTrackTaken
<1>1. IInv => NearestTrackTaken
  BY DEF IInv
<1> QED
  BY <1>1, Invariance, PTL

----------------------------------------------------------------------------
(***************************************************************************)
(* Every cell has one holder.  The invariant says so place by place, and   *)
(* what main's position implies for its event_ptr and its pills.           *)
(***************************************************************************)
In(l, p, c) == l \in Track /\ p \in 1 .. Len(track[l]) /\ track[l][p] = c
Queued(c) == \E l, p : In(l, p, c)

Held(c) ==
    \/ c \in free \/ Owns(c) \/ Queued(c)
    \/ \E k \in Track : job[k] = c
    \/ \E n \in Shards : stops[n] = c

Exclusive(c) ==
    /\ c \in free => /\ ~Owns(c) /\ ~Queued(c)
                     /\ \A k \in Track : job[k] # c
                     /\ \A n \in Shards : stops[n] # c
    /\ Owns(c) => /\ ~Queued(c)
                  /\ \A k \in Track : job[k] # c
                  /\ \A n \in Shards : stops[n] # c
    /\ Queued(c) => /\ \A k \in Track : job[k] # c
                    /\ \A n \in Shards : stops[n] # c
    /\ \A k \in Track : job[k] = c => /\ \A l \in Track : job[l] = c => l = k
                                      /\ \A n \in Shards : stops[n] # c
    /\ \A m, n \in Shards : stops[m] = c /\ stops[n] = c => m = n
    /\ \A k, l, p, q : In(k, p, c) /\ In(l, q, c) => k = l /\ p = q

Position ==
    /\ pc \in {"idle", "on", "release", "leave"}
    /\ pc = "idle" => ev = NULL
    /\ sent <= Tasks => \A n \in Shards : stops[n] = NULL
    /\ pc # "idle" /\ sent > Tasks =>
          sent - Tasks - 1 \in Shards /\ stops[sent - Tasks - 1] = NULL

HInv ==
    /\ IInv /\ Position
    /\ \A k \in Track : Len(track[k]) <= ConduitSize - 1
    /\ \A c \in Cell : Held(c) /\ Exclusive(c)

\* At first every cell is in the pool, and nowhere else.
LEMMA HInit == ShardInit => HInv
<1> SUFFICES ASSUME ShardInit PROVE HInv
  OBVIOUS
<1>1. \A k \in Track : track[k] = <<>> /\ Len(track[k]) = 0
  BY DEF ShardInit, Init
<1>2. \A c : ~Queued(c) /\ \A l, p : ~In(l, p, c)
  BY <1>1 DEF Queued, In
<1>3. \A c \in Cell : Held(c) /\ Exclusive(c)
  BY <1>2, NullAssumption DEF ShardInit, Init, Held, Exclusive, Owns
<1>4. Position
  BY TasksAssumption DEF ShardInit, Init, Position
<1> QED
  BY <1>1, <1>3, <1>4, InitInv, ConduitSizeAssumption DEF HInv

\* What a pop does to the places in the tracks.
LEMMA PopPlaces ==
    ASSUME NEW k \in Track, HInv, Pop(k), NEW c \in Cell
    PROVE  /\ Len(track[k]) > 0
           /\ In(k, 1, Head(track[k]))
           /\ \A l, p : In(l, p, c)' => In(l, IF l = k THEN p + 1 ELSE p, c)
           /\ Queued(c) /\ c # Head(track[k]) => Queued(c)'
           /\ c = Head(track[k]) => ~Queued(c)'
           /\ Queued(c)' => Queued(c)
<1> DEFINE h == Head(track[k])
<1>1. track[k] \in Seq(Cell) /\ track[k] # <<>> /\ DOMAIN track = Track
  BY DEF HInv, IInv, Pop
<1>2. /\ Len(track[k]) \in Nat /\ Len(track[k]) > 0 /\ track[k][1] = h
      /\ Len(Tail(track[k])) = Len(track[k]) - 1
      /\ \A p \in 1 .. Len(track[k]) - 1 : Tail(track[k])[p] = track[k][p + 1]
  BY <1>1
<1>3. /\ track'[k] = Tail(track[k])
      /\ \A l \in Track : l # k => track'[l] = track[l]
  BY <1>1 DEF Pop
<1>4. In(k, 1, h)
  BY <1>2 DEF In
<1>5. \A l, p : In(l, p, c)' => In(l, IF l = k THEN p + 1 ELSE p, c)
  <2> SUFFICES ASSUME NEW l, NEW p, In(l, p, c)'
               PROVE  In(l, IF l = k THEN p + 1 ELSE p, c)
    OBVIOUS
  <2>1. CASE l = k
    <3>1. p \in 1 .. Len(track[k]) - 1 /\ Tail(track[k])[p] = c
      BY <1>2, <1>3, <2>1 DEF In
    <3>2. p + 1 \in 1 .. Len(track[k]) /\ track[k][p + 1] = c
      BY <1>2, <3>1
    <3> QED
      BY <2>1, <3>2 DEF In
  <2>2. CASE l # k
    BY <1>3, <2>2 DEF In
  <2> QED
    BY <2>1, <2>2
<1>6. ASSUME Queued(c), c # h PROVE Queued(c)'
  <2>1. PICK l, p : In(l, p, c)
    BY <1>6 DEF Queued
  <2>2. CASE l = k
    <3>1. p # 1
      BY <1>2, <1>6, <2>1, <2>2 DEF In
    <3>2. In(k, p - 1, c)'
      BY <1>2, <1>3, <2>1, <2>2, <3>1, SMTT(20) DEF In
    <3> QED
      BY <3>2 DEF Queued
  <2>3. CASE l # k
    <3>1. In(l, p, c)'
      BY <1>3, <2>1, <2>3 DEF In
    <3> QED
      BY <3>1 DEF Queued
  <2> QED
    BY <2>2, <2>3
<1>7. ASSUME c = h, Queued(c)' PROVE FALSE
  <2>1. PICK l, p : In(l, p, c)'
    BY <1>7 DEF Queued
  <2>2. In(l, IF l = k THEN p + 1 ELSE p, c)
    BY <1>5, <2>1
  <2>3. k = l /\ 1 = IF l = k THEN p + 1 ELSE p
    BY <1>4, <1>7, <2>2 DEF HInv, Exclusive
  <2>4. p \in Int /\ p >= 1
    BY <1>2, <1>3, <2>1, <2>3 DEF In
  <2> QED
    BY <2>3, <2>4
<1>8. ASSUME Queued(c)' PROVE Queued(c)
  BY <1>5, <1>8 DEF Queued
<1> QED
  BY <1>2, <1>4, <1>5, <1>6, <1>7, <1>8

\* A pop hands the first cell of the track to the worker.
LEMMA PopKeepsHolders ==
    ASSUME NEW k \in Track, HInv, Pop(k), UNCHANGED stops, NEW c \in Cell
    PROVE  Held(c)' /\ Exclusive(c)'
<1> DEFINE h == Head(track[k])
<1>1. /\ In(k, 1, h)
      /\ \A l, p : In(l, p, c)' => In(l, IF l = k THEN p + 1 ELSE p, c)
      /\ Queued(c) /\ c # h => Queued(c)'
      /\ c = h => ~Queued(c)'
      /\ Queued(c)' => Queued(c)
  BY PopPlaces
<1>2. /\ job' = [job EXCEPT ![k] = h] /\ job[k] = NULL
      /\ UNCHANGED <<free, ev, pc, stops>>
      /\ job \in [Track -> Cell \cup {NULL}]
  BY DEF Pop, HInv, IInv, producer
<1>3. Held(c) /\ Exclusive(c) /\ (Owns(c)' <=> Owns(c))
  BY <1>2 DEF HInv, Owns
<1>4. c = h => Queued(c)
  BY <1>1 DEF Queued
<1>5. Held(c)'
  BY <1>1, <1>2, <1>3, NullAssumption DEF Held
<1>6. \A m, l, p, q : In(m, p, c)' /\ In(l, q, c)' => m = l /\ p = q
  <2> SUFFICES ASSUME NEW m, NEW l, NEW p, NEW q, In(m, p, c)', In(l, q, c)'
               PROVE  m = l /\ p = q
    OBVIOUS
  <2>1. p \in Int /\ q \in Int
    BY DEF In
  <2>2. m = l /\ (IF m = k THEN p + 1 ELSE p) = (IF l = k THEN q + 1 ELSE q)
    BY <1>1, <1>3, SMTT(20) DEF Exclusive
  <2> QED
    BY <2>1, <2>2
<1>7. /\ c \in free' => ~Owns(c)' /\ ~Queued(c)'
      /\ Owns(c)' => ~Queued(c)'
      /\ \A m, n \in Shards : stops'[m] = c /\ stops'[n] = c => m = n
  BY <1>1, <1>2, <1>3 DEF Exclusive
<1>8. \A l \in Track : job'[l] = c <=> (IF l = k THEN c = h ELSE job[l] = c)
  BY <1>2
<1>9. /\ c \in free' => /\ \A l \in Track : job'[l] # c
                        /\ \A n \in Shards : stops'[n] # c
      /\ Owns(c)' => /\ \A l \in Track : job'[l] # c
                     /\ \A n \in Shards : stops'[n] # c
      /\ Queued(c)' => /\ \A l \in Track : job'[l] # c
                       /\ \A n \in Shards : stops'[n] # c
  BY <1>1, <1>2, <1>3, <1>4, <1>8 DEF Exclusive
<1>10. \A l \in Track : job'[l] = c => /\ \A m \in Track : job'[m] = c => m = l
                                       /\ \A n \in Shards : stops'[n] # c
  BY <1>2, <1>3, <1>4, <1>8 DEF Exclusive
<1>11. Exclusive(c)'
  BY <1>6, <1>7, <1>9, <1>10 DEF Exclusive
<1> QED
  BY <1>5, <1>11

\* A push puts main's cell at the end of the track, and main no longer owns it.
LEMMA PushKeepsHolders ==
    ASSUME HInv, TryPush, UNCHANGED stops, NEW c \in Cell
    PROVE  Held(c)' /\ Exclusive(c)'
<1>0. PICK k \in Track, e \in Cell, n \in Nat :
         /\ k = Candidate(i) /\ e = ev /\ n = Len(track[k])
         /\ track[k] \in Seq(Cell)
  <2>1. Candidate(i) \in Track /\ ev \in Cell /\ track[Candidate(i)] \in Seq(Cell)
    BY DEF HInv, IInv, TryPush
  <2> QED
    BY <2>1
<1>2. /\ Len(Append(track[k], e)) = n + 1
      /\ \A p \in 1 .. n : Append(track[k], e)[p] = track[k][p]
      /\ Append(track[k], e)[n + 1] = e
  BY <1>0
<1>3. /\ track'[k] = Append(track[k], e)
      /\ \A l \in Track : l # k => track'[l] = track[l]
      /\ UNCHANGED <<free, ev, job, stops>> /\ pc = "on" /\ pc' = "release"
  BY <1>0 DEF TryPush, HInv, IInv
<1>4. /\ Held(c) /\ Exclusive(c)
      /\ ~Owns(c)' /\ (Owns(c) <=> c = e)
  BY <1>0, <1>3 DEF HInv, Owns
<1>5. ASSUME NEW l, NEW p
      PROVE  In(l, p, c)' <=> (In(l, p, c) \/ (l = k /\ p = n + 1 /\ c = e))
  <2>1. CASE l = k
    <3>1. p \in 1 .. n + 1 <=> p \in 1 .. n \/ p = n + 1
      BY <1>0
    <3>2. In(l, p, c)' <=> p \in 1 .. n + 1 /\ Append(track[k], e)[p] = c
      BY <1>2, <1>3, <2>1 DEF In
    <3>3. In(l, p, c) <=> p \in 1 .. n /\ track[k][p] = c
      BY <1>0, <2>1 DEF In
    <3>4. ~(n + 1 \in 1 .. n)
      BY <1>0
    <3> QED
      BY <1>2, <2>1, <3>1, <3>2, <3>3, <3>4
  <2>2. CASE l # k
    BY <1>3, <2>2 DEF In
  <2> QED
    BY <2>1, <2>2
<1>6. Queued(c)' <=> (Queued(c) \/ c = e)
  BY <1>5 DEF Queued
<1>7. Held(c)'
  BY <1>3, <1>4, <1>6 DEF Held
<1>8. \A m, l, p, q : In(m, p, c)' /\ In(l, q, c)' => m = l /\ p = q
  <2>1. c = e => \A l, p : ~In(l, p, c)
    BY <1>4 DEF Exclusive, Queued
  <2>2. \A m, l, p, q : In(m, p, c) /\ In(l, q, c) => m = l /\ p = q
    BY <1>4 DEF Exclusive
  <2> SUFFICES ASSUME NEW m, NEW l, NEW p, NEW q, In(m, p, c)', In(l, q, c)'
               PROVE  m = l /\ p = q
    OBVIOUS
  <2>3. /\ In(m, p, c) \/ (m = k /\ p = n + 1 /\ c = e)
        /\ In(l, q, c) \/ (l = k /\ q = n + 1 /\ c = e)
    BY <1>5
  <2> QED
    BY <2>1, <2>2, <2>3
<1>9. Exclusive(c)'
  BY <1>3, <1>4, <1>6, <1>8 DEF Exclusive
<1> QED
  BY <1>7, <1>9

\* A step that leaves the tracks alone leaves every cell in them where it is.
LEMMA TracksUntouched ==
    ASSUME UNCHANGED track, NEW c
    PROVE  /\ Queued(c)' <=> Queued(c)
           /\ \A l, p : In(l, p, c)' <=> In(l, p, c)
BY DEF Queued, In

\* A cell whose place does not change keeps its one holder.
LEMMA OthersUntouched ==
    ASSUME NEW c \in Cell, Held(c), Exclusive(c),
           Queued(c)' <=> Queued(c), \A l, p : In(l, p, c)' <=> In(l, p, c),
           c \in free' <=> c \in free,
           Owns(c)' <=> Owns(c),
           \A k \in Track : job'[k] = c <=> job[k] = c,
           \A n \in Shards : stops'[n] = c <=> stops[n] = c
    PROVE  Held(c)' /\ Exclusive(c)'
<1>1. Held(c)'
  BY DEF Held
<1>2. Exclusive(c)'
  BY DEF Exclusive
<1> QED
  BY <1>1, <1>2

\* What the steps of main and the workers do to the places of one cell.
LEMMA HoldersStep ==
    ASSUME HInv, [ShardNext]_allVars, NEW c \in Cell
    PROVE  Held(c)' /\ Exclusive(c)'
<1> USE NullAssumption
<1>0. /\ Held(c) /\ Exclusive(c) /\ Position
      /\ stops \in [Shards -> Cell \cup {NULL}] /\ job \in [Track -> Cell \cup {NULL}]
  BY DEF HInv, IInv
<1>1. CASE SendTask
  <2>1. CASE Make
    <3>1. UNCHANGED <<track, job, stops>> /\ pc = "idle" /\ pc' = "on" /\ ev = NULL
      BY <1>0, <1>1, <2>1 DEF SendTask, Make, Position
    <3>2. PICK e \in free : ev' = e /\ free' = free \ {e}
      BY <2>1 DEF Make
    <3>3. /\ Queued(c)' <=> Queued(c)
          /\ \A l, p : In(l, p, c)' <=> In(l, p, c)
      BY <3>1, TracksUntouched
    <3>4. /\ c \in free' <=> c \in free /\ c # e
          /\ Owns(c)' <=> c = e
          /\ ~Owns(c)
      BY <3>1, <3>2 DEF Owns
    <3>5. CASE c = e
      BY <1>0, <3>1, <3>2, <3>3, <3>4, <3>5 DEF Held, Exclusive
    <3>6. CASE c # e
      BY <1>0, <3>1, <3>3, <3>4, <3>6, OthersUntouched
    <3> QED
      BY <3>5, <3>6
  <2>2. CASE UNCHANGED vars
    BY <1>0, <1>1, <2>2, TracksUntouched, OthersUntouched DEF SendTask, vars, producer, Owns
  <2> QED
    BY <1>1, <2>1, <2>2 DEF SendTask
<1>2. CASE MakeStops
  <2>1. /\ UNCHANGED <<track, job, ev, pc>>
        /\ \A n \in Shards : stops[n] = NULL
    BY <1>0, <1>2, TasksAssumption, SMTT(20) DEF MakeStops, Position, producer
  <2>2. PICK cells \in [Shards -> free \cup {NULL}] :
           /\ \A m, n \in Shards : cells[m] = cells[n] /\ m # n => cells[m] = NULL
           /\ stops' = cells
           /\ free' = free \ {cells[n] : n \in Shards}
    BY <1>2 DEF MakeStops
  <2>3. /\ Queued(c)' <=> Queued(c)
        /\ \A l, p : In(l, p, c)' <=> In(l, p, c)
        /\ Owns(c)' <=> Owns(c)
    BY <2>1, TracksUntouched DEF Owns
  <2>4. CASE \E n \in Shards : cells[n] = c
    <3>1. c \in free /\ c \notin free'
      BY <2>2, <2>4
    <3>2. \A m, n \in Shards : stops'[m] = c /\ stops'[n] = c => m = n
      BY <2>2
    <3> QED
      BY <1>0, <2>1, <2>2, <2>3, <2>4, <3>1, <3>2 DEF Held, Exclusive
  <2>5. CASE ~\E n \in Shards : cells[n] = c
    <3>1. c \in free' <=> c \in free
      BY <2>2, <2>5
    <3>2. \A n \in Shards : stops'[n] = c <=> stops[n] = c
      BY <2>1, <2>2, <2>5
    <3> QED
      BY <1>0, <2>1, <2>3, <3>1, <3>2, OthersUntouched
  <2> QED
    BY <2>4, <2>5
<1>3. CASE SendStop
  <2>1. PICK n \in Shards, e \in Cell \cup {NULL} :
           /\ e = stops[n]
           /\ ev' = e /\ stops' = [stops EXCEPT ![n] = NULL]
           /\ pc' = IF e = NULL THEN "idle" ELSE "on"
    <3>1. sent - Tasks \in Shards
      BY <1>3, TasksAssumption, NumOutputsAssumption, SMTT(20) DEF SendStop, HInv, IInv, Shards
    <3> QED
      BY <1>0, <1>3, <3>1 DEF SendStop
  <2>2. UNCHANGED <<track, job, free>> /\ pc = "idle" /\ ev = NULL
    BY <1>0, <1>3 DEF SendStop, Position
  <2>3. /\ Queued(c)' <=> Queued(c)
        /\ \A l, p : In(l, p, c)' <=> In(l, p, c)
        /\ Owns(c)' <=> c = e
        /\ ~Owns(c)
    BY <2>1, <2>2, TracksUntouched DEF Owns
  <2>4. \A m \in Shards : stops'[m] = c <=> m # n /\ stops[m] = c
    BY <1>0, <2>1
  <2>5. CASE c = e
    BY <1>0, <2>1, <2>2, <2>3, <2>4, <2>5 DEF Held, Exclusive
  <2>6. CASE c # e
    BY <1>0, <2>1, <2>2, <2>3, <2>4, <2>6, OthersUntouched, SMTT(20)
  <2> QED
    BY <2>5, <2>6
<1>4. CASE (TrySkip \/ GiveUp) /\ UNCHANGED stops
  BY <1>0, <1>4, TracksUntouched, OthersUntouched DEF TrySkip, GiveUp, Owns
<1>5. CASE TryPush /\ UNCHANGED stops
  BY <1>5, PushKeepsHolders
<1>6. CASE Release /\ UNCHANGED stops
  BY <1>0, <1>6, TracksUntouched, OthersUntouched DEF Release, Owns
<1>7. CASE Leave /\ UNCHANGED stops
  <2>1. /\ UNCHANGED <<track, job, stops>>
        /\ c \in free' <=> c \in free \/ c = ev
        /\ Owns(c) <=> c = ev
        /\ ~Owns(c)'
    BY <1>7 DEF Leave, Owns
  <2>2. /\ Queued(c)' <=> Queued(c)
        /\ \A l, p : In(l, p, c)' <=> In(l, p, c)
    BY <2>1, TracksUntouched
  <2> QED
    BY <1>0, <2>1, <2>2 DEF Held, Exclusive
<1>8. CASE Return /\ sent > Tasks
  <2>1. PICK n \in Shards, e \in Cell \cup {NULL} :
           e = ev /\ stops[n] = NULL /\ stops' = [stops EXCEPT ![n] = e]
    BY <1>0, <1>8, TasksAssumption, SMTT(20) DEF Return, Position, HInv, IInv
  <2>2. /\ UNCHANGED <<track, job, free>>
        /\ Owns(c) <=> c = e
        /\ ~Owns(c)'
    BY <1>8, <2>1, TasksAssumption, SMTT(20) DEF Return, Owns, HInv, IInv
  <2>3. /\ Queued(c)' <=> Queued(c)
        /\ \A l, p : In(l, p, c)' <=> In(l, p, c)
    BY <2>2, TracksUntouched
  <2>4. \A m \in Shards : stops'[m] = c <=> IF m = n THEN c = e ELSE stops[m] = c
    BY <1>0, <2>1
  <2>5. CASE c = e
    <3>1. /\ c \notin free /\ ~Queued(c) /\ \A k \in Track : job[k] # c
          /\ \A m \in Shards : stops[m] # c
      BY <1>0, <2>2, <2>5 DEF Exclusive
    <3>2. \A m \in Shards : stops'[m] = c <=> m = n
      BY <2>4, <2>5, <3>1
    <3>3. c \notin free' /\ ~Queued(c)' /\ \A k \in Track : job'[k] # c
      BY <2>2, <2>3, <3>1
    <3>4. \A k, l, p, q : In(k, p, c)' /\ In(l, q, c)' => k = l /\ p = q
      BY <2>3, <3>1 DEF Queued
    <3>5. Held(c)'
      BY <2>1, <3>2 DEF Held
    <3>6. Exclusive(c)'
      BY <2>2, <3>2, <3>3, <3>4 DEF Exclusive
    <3> QED
      BY <3>5, <3>6
  <2>6. CASE c # e
    BY <1>0, <2>1, <2>2, <2>3, <2>4, <2>6, OthersUntouched
  <2> QED
    BY <2>5, <2>6
<1>9. CASE Join
  <2>1. /\ UNCHANGED <<track, job, ev, pc>>
        /\ c \in free' <=> c \in free \/ \E n \in Shards : stops[n] = c
        /\ \A n \in Shards : stops'[n] = NULL
    BY <1>9 DEF Join, producer
  <2>2. /\ Queued(c)' <=> Queued(c)
        /\ \A l, p : In(l, p, c)' <=> In(l, p, c)
        /\ Owns(c)' <=> Owns(c)
    BY <2>1, TracksUntouched DEF Owns
  <2> QED
    BY <1>0, <2>1, <2>2 DEF Held, Exclusive
<1>10. CASE Bind \/ UNCHANGED allVars
  BY <1>0, <1>10, TracksUntouched, OthersUntouched
  DEF Bind, BindTrack, allVars, vars, producer, shards, Owns
<1>11. ASSUME NEW k \in Track, ShardWorker(k)
       PROVE  Held(c)' /\ Exclusive(c)'
  <2>1. CASE Pop(k)
    BY <1>11, <2>1, PopKeepsHolders DEF ShardWorker
  <2>2. CASE Done(k)
    <3>1. /\ UNCHANGED <<track, stops, ev, pc>>
          /\ c \in free' <=> c \in free \/ c = job[k]
          /\ \A l \in Track : job'[l] = c <=> l # k /\ job[l] = c
      BY <1>0, <1>11, <2>2 DEF ShardWorker, Done, producer
    <3>2. /\ Queued(c)' <=> Queued(c)
          /\ \A l, p : In(l, p, c)' <=> In(l, p, c)
          /\ Owns(c)' <=> Owns(c)
      BY <3>1, TracksUntouched DEF Owns
    <3>3. CASE c = job[k]
      BY <1>0, <3>1, <3>2, <3>3, SMTT(20) DEF Held, Exclusive
    <3>4. CASE c # job[k]
      BY <1>0, <3>1, <3>2, <3>4, OthersUntouched
    <3> QED
      BY <3>3, <3>4
  <2> QED
    BY <1>11, <2>1, <2>2 DEF ShardWorker, Work
<1>12. CASE Route
  <2>1. CASE Return /\ ~(sent > Tasks)
    BY <1>7, <2>1, TasksAssumption, SMTT(20) DEF Return, HInv, IInv
  <2> QED
    BY <1>4, <1>5, <1>6, <1>8, <1>12, <2>1 DEF Route
<1> QED
  BY <1>1, <1>2, <1>3, <1>9, <1>10, <1>11, <1>12 DEF ShardNext, MainStep

\* The lengths of the tracks and main's position after a step.
LEMMA PositionStep ==
    ASSUME HInv, [ShardNext]_allVars
    PROVE  Position' /\ \A k \in Track : (Len(track[k]) <= ConduitSize - 1)'
<1> USE TasksAssumption
<1>0. /\ Position /\ IInv /\ sent \in Nat
      /\ stops \in [Shards -> Cell \cup {NULL}] /\ track \in [Track -> Seq(Cell)]
      /\ \A k \in Track : Len(track[k]) <= ConduitSize - 1
  BY DEF HInv, IInv
<1>1. ASSUME UNCHANGED track
      PROVE  \A k \in Track : (Len(track[k]) <= ConduitSize - 1)'
  BY <1>0, <1>1
<1>2. CASE SendTask
  <2>1. UNCHANGED <<track, stops>> /\ sent' = sent + 1 /\ sent < Tasks
    BY <1>2 DEF SendTask, Make, vars
  <2>2. pc = "idle" /\ pc' \in {"idle", "on"} /\ (pc' = "idle" => ev' = NULL)
    BY <1>0, <1>2 DEF SendTask, Make, vars, producer, Position
  <2> QED
    BY <1>0, <1>1, <2>1, <2>2, SMTT(20) DEF Position
<1>3. CASE MakeStops
  BY <1>0, <1>1, <1>3, SMTT(20) DEF MakeStops, Position, producer
<1>4. CASE SendStop
  <2>1. /\ UNCHANGED track /\ sent' = sent + 1 /\ sent - Tasks \in Shards /\ sent > Tasks
        /\ stops' = [stops EXCEPT ![sent - Tasks] = NULL]
        /\ pc' \in {"idle", "on"} /\ (pc' = "idle" => ev' = NULL)
    BY <1>0, <1>4, NumOutputsAssumption, SMTT(20) DEF SendStop, Shards
  <2>2. sent' - Tasks - 1 = sent - Tasks
    BY <1>0, <2>1
  <2>3. stops'[sent' - Tasks - 1] = NULL
    BY <1>0, <2>1, <2>2
  <2> QED
    BY <1>0, <1>1, <2>1, <2>2, <2>3 DEF Position
<1>5. CASE (TrySkip \/ Release \/ GiveUp) /\ UNCHANGED <<stops, sent>>
  BY <1>0, <1>1, <1>5 DEF TrySkip, Release, GiveUp, Position
<1>6. CASE TryPush /\ UNCHANGED <<stops, sent>>
  <2>1. PICK k \in Track :
           /\ track' = [track EXCEPT ![k] = Append(track[k], ev)]
           /\ Len(track[k]) < ConduitSize - 1
    BY <1>0, <1>6 DEF TryPush, HasRoom, IInv
  <2>2. Len(Append(track[k], ev)) = Len(track[k]) + 1 /\ Len(track[k]) \in Nat
    <3>1. ev \in Cell /\ track[k] \in Seq(Cell)
      BY <1>0, <1>6 DEF TryPush, IInv
    <3> QED
      BY <3>1
  <2>3. \A l \in Track : (Len(track[l]) <= ConduitSize - 1)'
    BY <1>0, <2>1, <2>2, ConduitSizeAssumption, SMTT(20)
  <2> QED
    BY <1>0, <1>6, <2>3 DEF TryPush, Position
<1>7. CASE Return /\ UNCHANGED sent
  BY <1>0, <1>1, <1>7 DEF Return, Leave, Position
<1>8. CASE Join
  BY <1>0, <1>1, <1>8 DEF Join, Position, producer
<1>9. CASE Bind \/ UNCHANGED allVars
  BY <1>0, <1>1, <1>9 DEF Bind, BindTrack, allVars, vars, producer, shards, Position
<1>10. ASSUME NEW k \in Track, ShardWorker(k)
       PROVE  Position' /\ \A l \in Track : (Len(track[l]) <= ConduitSize - 1)'
  <2>1. Position'
    BY <1>0, <1>10 DEF ShardWorker, Work, Pop, Done, producer, Position
  <2>2. CASE Pop(k)
    <3>1. track[k] \in Seq(Cell) /\ track[k] # <<>>
      BY <1>0, <2>2 DEF Pop
    <3>2. Len(Tail(track[k])) = Len(track[k]) - 1 /\ Len(track[k]) \in Nat
      BY <3>1
    <3> QED
      BY <1>0, <2>1, <2>2, <3>2, ConduitSizeAssumption, SMTT(20) DEF Pop
  <2>3. CASE Done(k)
    BY <1>1, <2>1, <2>3 DEF Done
  <2> QED
    BY <1>10, <2>2, <2>3 DEF ShardWorker, Work
<1> QED
  BY <1>2, <1>3, <1>4, <1>5, <1>6, <1>7, <1>8, <1>9, <1>10 DEF ShardNext, MainStep, Route

\* Every cell has a holder and only one, always.
LEMMA HoldersInvariant == ShardSpec => []HInv
<1>1. HInv /\ [ShardNext]_allVars => HInv'
  <2> SUFFICES ASSUME HInv, [ShardNext]_allVars PROVE HInv'
    OBVIOUS
  <2>1. IInv'
    BY StepInv DEF HInv
  <2>2. \A c \in Cell : Held(c)' /\ Exclusive(c)'
    BY HoldersStep
  <2> QED
    BY <2>1, <2>2, PositionStep DEF HInv
<1> QED
  BY <1>1, HInit, PTL DEF ShardSpec

\* The holders that OneHolderEach counts are the places of the cell.
LEMMA HoldersArePlaces ==
    ASSUME HInv, NEW c \in Cell, NEW h
    PROVE  h \in Holders(c) \cup {<<"main", n>> : n \in {m \in Shards : stops[m] = c}} <=>
             (\/ c \in free /\ h = <<"pool">>
              \/ Owns(c) /\ h = <<"producer">>
              \/ \E k \in Track : job[k] = c /\ h = <<"worker", k>>
              \/ \E l, p : In(l, p, c) /\ h = <<"track", l, p>>
              \/ \E n \in Shards : stops[n] = c /\ h = <<"main", n>>)
<1> DEFINE Q == {q \in Track \X (1 .. ConduitSize) :
                    q[2] <= Len(track[q[1]]) /\ track[q[1]][q[2]] = c}
<1>1. ASSUME NEW l, NEW p PROVE <<l, p>> \in Q <=> In(l, p, c)
  <2>1. \A k \in Track : Len(track[k]) \in Nat /\ Len(track[k]) <= ConduitSize - 1
    BY DEF HInv, IInv
  <2> QED
    BY <2>1, ConduitSizeAssumption DEF In
<1> DEFINE T == {<<"track", q[1], q[2]>> : q \in Q}
           W == {<<"worker", k>> : k \in {l \in Track : job[l] = c}}
           M == {<<"main", n>> : n \in {m \in Shards : stops[m] = c}}
<1>2. h \in T <=>
         \E l, p : In(l, p, c) /\ h = <<"track", l, p>>
  <2>1. ASSUME NEW q \in Q, h = <<"track", q[1], q[2]>>
        PROVE  \E l, p : In(l, p, c) /\ h = <<"track", l, p>>
    <3>1. q = <<q[1], q[2]>>
      OBVIOUS
    <3>2. In(q[1], q[2], c)
      BY <1>1, <3>1
    <3> QED
      BY <2>1, <3>2
  <2>2. ASSUME NEW l, NEW p, In(l, p, c), h = <<"track", l, p>>
        PROVE  h \in T
    <3>1. <<l, p>> \in Q /\ <<l, p>>[1] = l /\ <<l, p>>[2] = p
      BY <1>1, <2>2
    <3> HIDE DEF Q
    <3> QED
      BY <2>2, <3>1
  <2> QED
    BY <2>1, <2>2
<1>3. h \in W <=> \E k \in Track : job[k] = c /\ h = <<"worker", k>>
  OBVIOUS
<1>4. h \in M <=> \E n \in Shards : stops[n] = c /\ h = <<"main", n>>
  OBVIOUS
<1>5. Holders(c) = (IF c \in free THEN {<<"pool">>} ELSE {})
                   \cup (IF Owns(c) THEN {<<"producer">>} ELSE {}) \cup W \cup T
  BY DEF Holders
<1> HIDE DEF T, W, M
<1>6. h \in Holders(c) \cup M <=>
         (\/ c \in free /\ h = <<"pool">>
          \/ Owns(c) /\ h = <<"producer">>
          \/ h \in W \/ h \in T \/ h \in M)
  BY <1>5
<1>7. Holders(c) \cup M
        = Holders(c) \cup {<<"main", n>> : n \in {m \in Shards : stops[m] = c}}
  BY DEF M
<1> QED
  BY <1>2, <1>3, <1>4, <1>6, <1>7

\* Every cell has exactly one holder: the pool, an event_ptr of main, a track or a
\* worker, although its bare pointer travels through the tracks, for every number
\* of tracks, tasks and cells and every ring size.
THEOREM OneHolder == ShardSpec => []OneHolderEach
<1>1. ASSUME HInv PROVE OneHolderEach
  <2> SUFFICES ASSUME NEW c \in Cell
               PROVE  \E h \in Holders(c) \cup {<<"main", n>> : n \in {m \in Shards : stops[m] = c}} :
                         Holders(c) \cup {<<"main", n>> : n \in {m \in Shards : stops[m] = c}} = {h}
    BY DEF OneHolderEach
  <2> DEFINE S == Holders(c) \cup {<<"main", n>> : n \in {m \in Shards : stops[m] = c}}
             At(h) == \/ c \in free /\ h = <<"pool">>
                      \/ Owns(c) /\ h = <<"producer">>
                      \/ \E k \in Track : job[k] = c /\ h = <<"worker", k>>
                      \/ \E l, p : In(l, p, c) /\ h = <<"track", l, p>>
                      \/ \E n \in Shards : stops[n] = c /\ h = <<"main", n>>
  <2>1. \A h : h \in S <=> At(h)
    BY <1>1, HoldersArePlaces
  <2>2. Held(c) /\ Exclusive(c)
    BY <1>1 DEF HInv
  <2>3. \E h : At(h)
    BY <2>2 DEF Held, Queued
  <2>4. ASSUME NEW g, NEW h, At(g), At(h) PROVE g = h
    <3>1. \A k, l, p, q : In(k, p, c) /\ In(l, q, c) => k = l /\ p = q
      BY <2>2 DEF Exclusive
    <3>2. \A l, p : In(l, p, c) => Queued(c)
      BY DEF Queued
    <3>3. CASE c \in free \/ Owns(c)
      BY <2>2, <2>4, <3>2, <3>3 DEF Exclusive
    <3>4. CASE Queued(c)
      BY <2>2, <2>4, <3>1, <3>4 DEF Exclusive
    <3>5. CASE \E k \in Track : job[k] = c
      BY <2>2, <2>4, <3>2, <3>5 DEF Exclusive
    <3>6. CASE \E n \in Shards : stops[n] = c
      BY <2>2, <2>4, <3>2, <3>6 DEF Exclusive
    <3> QED
      BY <2>2, <3>3, <3>4, <3>5, <3>6 DEF Held
  <2> HIDE DEF S, At
  <2>5. \E h \in S : S = {h}
    BY <2>1, <2>3, <2>4
  <2> QED
    BY <2>5 DEF S
<1> QED
  BY <1>1, HoldersInvariant, PTL
=============================================================================

---------------------------- MODULE TimersProofs ----------------------------
(***************************************************************************)
(* The lists of timing_wheel stay intact whatever user code sets and       *)
(* cancels, in the handlers of expired timers too, for any number of       *)
(* timers, slots and delays; and clock_node never makes the core run ahead *)
(* of real time, whatever its resolution, the room in the conduit and the  *)
(* fractions it drops.                                                     *)
(***************************************************************************)
EXTENDS Timers, TLAPS

\* Time for the provers; a leaf that names another prover goes to that one.
USE ZenonT(3), SMTT(20)

\* Integer division rounds down.
LEMMA DivisionRoundsDown ==
    ASSUME NEW a \in Nat, NEW m \in Nat, m > 0
    PROVE  (a \div m) \in Nat /\ (a \div m) * m <= a
<1> DEFINE q == a \div m
           r == a % m
<1>1. q \in Int /\ r \in Int /\ a = m * q + r
  OBVIOUS
<1>2. 0 <= r /\ r < m
  OBVIOUS
<1> HIDE DEF q, r
<1>3. q >= 0
  <2>1. CASE q <= -1
    BY <1>1, <1>2, <2>1
  <2> QED
    BY <2>1, <1>1
<1>4. m * q <= a
  BY <1>1, <1>2
<1>5. q * m = m * q
  BY <1>1
<1> QED
  BY <1>1, <1>3, <1>4, <1>5 DEF q

\* Saturation keeps the order of the two measures only because both saturate at
\* one bound, so the bound is part of the invariant.
ClockInv ==
    /\ since \in 0 .. MaxTime /\ owed \in 0 .. MaxTime
    /\ since <= owed

\* The inductive invariant holds initially.
LEMMA ClockInvInit == ClockInit => ClockInv
BY ClockAssumption DEF ClockInit, ClockInv

\* Every step preserves the inductive invariant.
LEMMA ClockInvStep == ClockInv /\ [ClockStep \/ PopTick]_clockVars => ClockInv'
<1> SUFFICES ASSUME ClockInv, [ClockStep \/ PopTick]_clockVars PROVE ClockInv'
  OBVIOUS
<1> USE ClockAssumption
<1>1. CASE TimePasses
  BY <1>1 DEF TimePasses, Later, ClockInv
<1>2. CASE EmitTick
  <2>1. since' = 0
    BY <1>2 DEF EmitTick
  <2>2. CASE owed' = owed - Elapsed * Millisecond
    <3>1. Elapsed \in Nat /\ Elapsed * Millisecond <= since
      BY DivisionRoundsDown, SMTT(20) DEF Elapsed, ClockInv
    <3>2. Elapsed * Millisecond \in Nat
      BY <3>1
    <3> DEFINE told == Elapsed * Millisecond
    <3> HIDE DEF told
    <3>3. told \in Nat /\ told <= since /\ owed' = owed - told
      BY <2>2, <3>1, <3>2 DEF told
    <3> QED
      BY <2>1, <3>3 DEF ClockInv
  <2>3. CASE owed' = owed
    BY <2>1, <2>3 DEF ClockInv
  <2> QED
    BY <1>2, <2>2, <2>3 DEF EmitTick, Push
<1>3. CASE Run \/ Leave \/ StopClock \/ PopTick \/ UNCHANGED clockVars
  BY <1>3 DEF Run, Leave, StopClock, PopTick, clockVars, ClockInv
<1> QED
  BY <1>1, <1>2, <1>3 DEF ClockStep

\* The inductive invariant always holds.
THEOREM ClockInvariance == ClockSpec => []ClockInv
BY ClockInvInit, ClockInvStep, PTL DEF ClockSpec

\* For every resolution, conduit size and pattern of lost ticks, the time that
\* clock_node reports to the core stays within the time that has passed.
THEOREM NeverAhead == ClockSpec => []CoreNeverAhead
<1>1. ClockInv => CoreNeverAhead
  BY DEF ClockInv, CoreNeverAhead
<1> QED
  BY <1>1, ClockInvariance, PTL

----------------------------------------------------------------------------
\* Lists.  h begins a list, linked by next, of exactly the nodes of S.
IsList(next, h, S) ==
    /\ h \in S \cup {END_OF_LIST}
    /\ \A n \in S : next[n] \in S \cup {END_OF_LIST}
    /\ \A C \in SUBSET S :
          h \in C \cup {END_OF_LIST} /\ (\A k \in C : next[k] \in C \cup {END_OF_LIST})
            => C = S

\* Its nodes are the nodes that one meets from h on.
LEMMA ChainOfList ==
    ASSUME NEW h, NEW S \in SUBSET Node, IsList(timer_next, h, S)
    PROVE  Chain(h) = S
<1>1. ASSUME NEW m \in Chain(h) PROVE m \in S
  BY DEF Chain, IsList
<1>2. ASSUME NEW m \in S, NEW C \in SUBSET Node, h \in C \cup {END_OF_LIST},
             \A k \in C : timer_next[k] \in C \cup {END_OF_LIST}
      PROVE  m \in C
  <2> DEFINE D == C \cap S
  <2>1. D \in SUBSET S /\ h \in D \cup {END_OF_LIST}
    BY <1>2 DEF IsList
  <2>2. \A k \in D : timer_next[k] \in D \cup {END_OF_LIST}
    BY <1>2 DEF IsList
  <2>3. D = S
    BY <2>1, <2>2 DEF IsList
  <2> QED
    BY <2>3
<1> QED
  BY <1>1, <1>2 DEF Chain

\* A list that has a node has a first one.
LEMMA ListHead ==
    ASSUME NEW f, NEW h, NEW S, IsList(f, h, S), NEW n \in S
    PROVE  h \in S
<1> SUFFICES ASSUME h = END_OF_LIST PROVE FALSE
  BY DEF IsList
<1>1. {} \in SUBSET S /\ \A k \in {} : f[k] \in {} \cup {END_OF_LIST}
  OBVIOUS
<1>2. {} = S
  BY <1>1 DEF IsList
<1> QED
  BY <1>2

\* A list does not depend on the links of other nodes.
LEMMA ListElsewhere ==
    ASSUME NEW f, NEW g, NEW h, NEW S, IsList(f, h, S), \A n \in S : g[n] = f[n]
    PROVE  IsList(g, h, S)
<1>1. ASSUME NEW C \in SUBSET S, h \in C \cup {END_OF_LIST},
             \A k \in C : g[k] \in C \cup {END_OF_LIST}
      PROVE  C = S
  <2>1. \A k \in C : f[k] \in C \cup {END_OF_LIST}
    BY <1>1
  <2> QED
    BY <1>1, <2>1 DEF IsList
<1> QED
  BY <1>1 DEF IsList

\* schedule(): a node before the head.
LEMMA ListPush ==
    ASSUME NEW f, NEW g, NEW h, NEW S, IsList(f, h, S), NEW n, n \notin S,
           END_OF_LIST \notin S \cup {n}, g[n] = h, \A k \in S : g[k] = f[k]
    PROVE  IsList(g, n, S \cup {n})
<1> DEFINE T == S \cup {n}
<1>1. \A k \in T : g[k] \in T \cup {END_OF_LIST}
  BY DEF IsList
<1>2. ASSUME NEW C \in SUBSET T, n \in C \cup {END_OF_LIST},
             \A k \in C : g[k] \in C \cup {END_OF_LIST}
      PROVE  C = T
  <2> DEFINE D == C \cap S
  <2>1. n \in C
    BY <1>2
  <2>2. D \in SUBSET S /\ h \in D \cup {END_OF_LIST}
    BY <1>2, <2>1 DEF IsList
  <2>3. \A k \in D : f[k] \in D \cup {END_OF_LIST}
    BY <1>2 DEF IsList
  <2>4. D = S
    BY <2>2, <2>3 DEF IsList
  <2> QED
    BY <2>1, <2>4
<1> QED
  BY <1>1, <1>2 DEF IsList

\* The walk, and cancel() of a head: the list without its first node.
LEMMA ListPop ==
    ASSUME NEW f, NEW h, NEW S, IsList(f, h, S), h \in S, \A k \in S : f[k] # h
    PROVE  IsList(f, f[h], S \ {h})
<1> DEFINE T == S \ {h}
<1>1. f[h] \in T \cup {END_OF_LIST} /\ \A k \in T : f[k] \in T \cup {END_OF_LIST}
  BY DEF IsList
<1>2. ASSUME NEW C \in SUBSET T, f[h] \in C \cup {END_OF_LIST},
             \A k \in C : f[k] \in C \cup {END_OF_LIST}
      PROVE  C = T
  <2> DEFINE D == C \cup {h}
  <2>1. D \in SUBSET S /\ h \in D \cup {END_OF_LIST}
    BY <1>2
  <2>2. \A k \in D : f[k] \in D \cup {END_OF_LIST}
    BY <1>2
  <2>3. D = S
    BY <2>1, <2>2 DEF IsList
  <2> QED
    BY <2>3
<1> QED
  BY <1>1, <1>2 DEF IsList

\* cancel() of another node n, which follows p.
LEMMA ListCut ==
    ASSUME NEW f, NEW g, NEW h, NEW S, IsList(f, h, S), NEW n \in S, NEW p \in S,
           n # p, h \in S, h # n, f[p] = n, f[n] # n, \A k \in S : f[k] = n => k = p,
           END_OF_LIST \notin S,
           g[p] = f[n], \A k \in S : k # p => g[k] = f[k]
    PROVE  IsList(g, h, S \ {n})
<1> DEFINE T == S \ {n}
<1>1. h \in T /\ \A k \in T : g[k] \in T \cup {END_OF_LIST}
  BY SMTT(20) DEF IsList
<1>2. ASSUME NEW C \in SUBSET T, h \in C \cup {END_OF_LIST},
             \A k \in C : g[k] \in C \cup {END_OF_LIST}
      PROVE  C = T
  <2>1. h \in C
    BY <1>2
  <2>2. p \in C
    <3> SUFFICES ASSUME p \notin C PROVE FALSE
      OBVIOUS
    <3>1. \A k \in C : f[k] \in C \cup {END_OF_LIST}
      BY <1>2
    <3>2. C \in SUBSET S /\ C # S
      OBVIOUS
    <3> QED
      BY <2>1, <3>1, <3>2 DEF IsList
  <2> DEFINE D == C \cup {n}
  <2>3. D \in SUBSET S /\ h \in D \cup {END_OF_LIST}
    BY <1>2
  <2>4. \A k \in D : f[k] \in D \cup {END_OF_LIST}
    BY <1>2, <2>2
  <2>5. D = S
    BY <2>3, <2>4 DEF IsList
  <2> QED
    BY <2>5
<1> QED
  BY <1>1, <1>2 DEF IsList

----------------------------------------------------------------------------
\* Where a delay of 1 .. WheelSlots ticks leads.
SlotAfter(tick, l) == IF tick + l < WheelSlots THEN tick + l ELSE tick + l - WheelSlots

\* The code's modular arithmetic, case by case.
LEMMA SlotWraps ==
    ASSUME NEW tick \in Slot, NEW l \in 0 .. WheelSlots
    PROVE  (tick + l) % WheelSlots = SlotAfter(tick, l) /\ SlotAfter(tick, l) \in Slot
<1>1. CASE tick + l < WheelSlots
  BY <1>1, WheelAssumption DEF SlotAfter, Slot
<1>2. CASE tick + l >= WheelSlots
  BY <1>2, WheelAssumption DEF SlotAfter, Slot
<1> QED
  BY <1>1, <1>2, WheelAssumption DEF Slot

\* Every variable has its type.
WheelType ==
    /\ buckets \in [Slot -> Node \cup {END_OF_LIST}]
    /\ current_tick \in Slot
    /\ timer_next \in [Node -> Node \cup {END_OF_LIST}]
    /\ timer_prev \in [Node -> Node \cup {END_OF_LIST}]
    /\ wheel_bucket \in [Node -> Slot \cup {END_OF_LIST}]
    /\ timer \in [Node -> {"idle", "set", "expired", "fired"}]
    /\ left \in [Node -> 0 .. WheelSlots]
    /\ expired \in Node \cup {END_OF_LIST}

\* The back links of the nodes of S, listed from h on, are the inverse of their links.
BackLinks(h, S) ==
    \A n \in S :
        /\ n = h <=> timer_prev[n] = END_OF_LIST
        /\ timer_prev[n] # END_OF_LIST => timer_prev[n] \in S /\ timer_next[timer_prev[n]] = n
        /\ timer_next[n] # END_OF_LIST => timer_prev[timer_next[n]] = n

\* One bucket.
BucketOK(s) ==
    /\ IsList(timer_next, buckets[s], Due(s))
    /\ BackLinks(buckets[s], Due(s))
    /\ \A n \in Due(s) : wheel_bucket[n] = s

\* What the core walks.
WalkOK ==
    /\ IsList(timer_next, expired, Unhandled)
    /\ \A m, n \in Unhandled :
          /\ timer_next[m] # expired
          /\ timer_next[m] = timer_next[n] => m = n \/ timer_next[m] = END_OF_LIST

\* The inductive invariant.
WheelInv ==
    /\ WheelType
    /\ \A n \in Node :
          /\ timer[n] = "set" <=> left[n] # 0
          /\ timer[n] = "idle" => wheel_bucket[n] = END_OF_LIST
    /\ \A s \in Slot : BucketOK(s)
    /\ WalkOK

\* It implies what the runs check.
LEMMA WheelInvImplies == WheelInv => WheelIntact /\ WalkMeetsAllDue
<1> SUFFICES ASSUME WheelInv PROVE WheelIntact /\ WalkMeetsAllDue
  OBVIOUS
<1>1. ASSUME NEW s \in Slot PROVE Chain(buckets[s]) = Due(s)
  <2>1. Due(s) \in SUBSET Node
    BY DEF Due
  <2> QED
    BY <2>1, ChainOfList, SMTT(20) DEF WheelInv, BucketOK
<1>2. Chain(expired) = Unhandled
  <2>1. Unhandled \in SUBSET Node
    BY DEF Unhandled
  <2> QED
    BY <2>1, ChainOfList DEF WheelInv, WalkOK
<1>3. WheelIntact
  BY <1>1 DEF WheelInv, BucketOK, BackLinks, WheelIntact
<1>4. WalkMeetsAllDue
  BY <1>2 DEF WheelInv, WalkOK, WalkMeetsAllDue
<1> QED
  BY <1>3, <1>4

\* An empty wheel.
LEMMA WheelInvInit == Init => WheelInv
<1> SUFFICES ASSUME Init PROVE WheelInv
  OBVIOUS
<1>1. WheelType
  BY WheelAssumption, SMTT(20) DEF Init, WheelInit, WheelType, Slot
<1>2. Unhandled = {} /\ \A s \in Slot : Due(s) = {}
  BY DEF Init, Unhandled, Due
<1>3. IsList(timer_next, END_OF_LIST, {})
  BY DEF IsList
<1>4. WalkOK
  BY <1>2, <1>3 DEF Init, WalkOK
<1>5. \A s \in Slot : BucketOK(s)
  BY <1>2, <1>3 DEF Init, WheelInit, BucketOK, BackLinks
<1> QED
  BY <1>1, <1>4, <1>5 DEF Init, WheelInit, WheelInv

\* A timer is due at one slot.
LEMMA DueOnce ==
    ASSUME NEW s \in Slot, NEW t \in Slot, s # t
    PROVE  Due(s) \cap Due(t) = {}
BY DEF Due

\* A bucket whose nodes a step does not touch.
LEMMA BucketElsewhere ==
    ASSUME NEW s \in Slot, BucketOK(s), Due(s)' = Due(s), buckets'[s] = buckets[s],
           \A n \in Due(s) : /\ timer_next'[n] = timer_next[n]
                             /\ timer_prev'[n] = timer_prev[n]
                             /\ wheel_bucket'[n] = wheel_bucket[n]
    PROVE  BucketOK(s)'
<1>1. IsList(timer_next', buckets[s], Due(s))
  BY ListElsewhere, SMTT(20) DEF BucketOK
<1>2. \A n \in Due(s) : timer_next[n] \in Due(s) \cup {END_OF_LIST}
  BY DEF BucketOK, IsList
<1>3. BackLinks(buckets[s], Due(s))'
  BY <1>2, SMTT(20) DEF BucketOK, BackLinks
<1> QED
  BY <1>1, <1>3, SMTT(20) DEF BucketOK, IsList

\* A walk whose nodes a step does not touch.
LEMMA WalkElsewhere ==
    ASSUME WalkOK, Unhandled' = Unhandled, expired' = expired,
           \A n \in Unhandled : timer_next'[n] = timer_next[n]
    PROVE  WalkOK'
<1>1. IsList(timer_next', expired, Unhandled)
  BY ListElsewhere DEF WalkOK
<1> QED
  BY <1>1, SMTT(20) DEF WalkOK, IsList

\* schedule() puts a timer that is not set before the others of its slot.
LEMMA SetTimerPreserves == WheelInv /\ SetTimer => WheelInv'
<1> SUFFICES ASSUME WheelInv, SetTimer PROVE WheelInv'
  OBVIOUS
<1>1. PICK n \in Node, d \in Delay :
        /\ timer[n] \in {"idle", "fired"}
        /\ Schedule(n, d)
        /\ timer' = [timer EXCEPT ![n] = "set"]
        /\ left' = [left EXCEPT ![n] = DueIn(d)]
        /\ UNCHANGED <<clockVars, expired>>
  BY DEF SetTimer
<1>2. WheelType /\ WalkOK /\ (\A s \in Slot : BucketOK(s)) /\ left[n] = 0
  BY <1>1 DEF WheelInv
<1>3. d \in Nat /\ WheelSlots \in Nat \ {0} /\ END_OF_LIST \notin Node /\ END_OF_LIST \notin Slot
  BY UserAssumption, WheelAssumption DEF Slot
<1>4. Clamp(d) \in 0 .. WheelSlots - 1 /\ DueIn(d) \in 1 .. WheelSlots
  BY <1>3 DEF Clamp, DueIn
<1>5. PICK b \in Slot : /\ b = (current_tick + Clamp(d)) % WheelSlots
                        /\ b = (current_tick + DueIn(d)) % WheelSlots
  <2>1. (current_tick + Clamp(d)) % WheelSlots = SlotAfter(current_tick, Clamp(d))
    BY <1>2, <1>3, <1>4, SlotWraps, SMTT(20) DEF WheelType
  <2>2. /\ (current_tick + DueIn(d)) % WheelSlots = SlotAfter(current_tick, DueIn(d))
        /\ SlotAfter(current_tick, DueIn(d)) \in Slot
    BY <1>2, <1>3, <1>4, SlotWraps, SMTT(20) DEF WheelType
  <2>3. SlotAfter(current_tick, DueIn(d)) = SlotAfter(current_tick, Clamp(d))
    BY <1>2, <1>3, <1>4, SMTT(20) DEF WheelType, DueIn, SlotAfter, Slot
  <2> QED
    BY <2>1, <2>2, <2>3
<1> DEFINE h == buckets[b]
<1>6. /\ timer_next' = [timer_next EXCEPT ![n] = h]
      /\ timer_prev' = Set([timer_prev EXCEPT ![n] = END_OF_LIST], h, n)
      /\ wheel_bucket' = [wheel_bucket EXCEPT ![n] = b]
      /\ buckets' = [buckets EXCEPT ![b] = n]
      /\ current_tick' = current_tick
  BY <1>1, <1>5 DEF Schedule
<1>7. \A s \in Slot : n \notin Due(s)
  BY <1>2 DEF Due
<1>8. Due(b)' = Due(b) \cup {n} /\ \A s \in Slot : s # b => Due(s)' = Due(s)
  <2>1. \A m \in Node : left'[m] = IF m = n THEN DueIn(d) ELSE left[m]
    BY <1>1, <1>2 DEF WheelType
  <2>2. \A s, m : m \in Due(s)' <=> m \in Node /\ left'[m] # 0 /\ (current_tick + left'[m]) % WheelSlots = s
    BY <1>6 DEF Due
  <2>3. \A s, m : m # n => (m \in Due(s)' <=> m \in Due(s))
    BY <2>1, <2>2 DEF Due
  <2>4. \A s : n \in Due(s)' <=> s = b
    BY <1>4, <1>5, <2>1, <2>2, SMTT(20)
  <2>5. \A s : s # b => Due(s)' = Due(s)
    <3> SUFFICES ASSUME NEW s, s # b PROVE Due(s)' = Due(s)
      OBVIOUS
    <3>1. n \notin Due(s) /\ n \notin Due(s)'
      BY <1>2, <2>4 DEF Due
    <3> QED
      BY <2>3, <3>1
  <2>6. Due(b)' = Due(b) \cup {n}
    BY <2>3, <2>4
  <2> QED
    BY <2>5, <2>6
<1>9. h \in Due(b) \cup {END_OF_LIST} /\ h # n
  BY <1>2, <1>3, <1>5, <1>7, SMTT(20) DEF BucketOK, IsList
<1>10. WheelType'
  <2>1. timer_prev' \in [Node -> Node \cup {END_OF_LIST}]
    BY <1>2, <1>6 DEF WheelType, Set
  <2>2. timer' \in [Node -> {"idle", "set", "expired", "fired"}] /\ left' \in [Node -> 0 .. WheelSlots]
    BY <1>1, <1>2, <1>4, SMTT(20) DEF WheelType
  <2>3. buckets' \in [Slot -> Node \cup {END_OF_LIST}] /\ wheel_bucket' \in [Node -> Slot \cup {END_OF_LIST}]
    BY <1>2, <1>5, <1>6 DEF WheelType
  <2>4. timer_next' \in [Node -> Node \cup {END_OF_LIST}]
    BY <1>2, <1>5, <1>6 DEF WheelType
  <2> QED
    BY <1>1, <1>2, <1>6, <2>1, <2>2, <2>3, <2>4 DEF WheelType
<1>11. WalkOK'
  <2>1. Unhandled' = Unhandled /\ n \notin Unhandled
    BY <1>1, <1>2 DEF WheelType, Unhandled
  <2>2. \A m \in Unhandled : timer_next'[m] = timer_next[m]
    BY <1>2, <1>6, <2>1 DEF WheelType, Unhandled
  <2> QED
    BY <1>1, <1>2, <2>1, <2>2, WalkElsewhere
<1>12. \A m \in Node : timer_prev'[m] = IF m = n THEN END_OF_LIST
                                       ELSE IF m = h THEN n ELSE timer_prev[m]
  BY <1>2, <1>3, <1>6, <1>9 DEF WheelType, Set
<1>13. ASSUME NEW s \in Slot, s # b PROVE BucketOK(s)'
  <2>1. \A m \in Due(s) : m \in Node /\ m # n /\ m # h
    BY <1>3, <1>5, <1>7, <1>9, <1>13, DueOnce DEF Due
  <2>2. \A m \in Due(s) : /\ timer_next'[m] = timer_next[m]
                          /\ timer_prev'[m] = timer_prev[m]
                          /\ wheel_bucket'[m] = wheel_bucket[m]
    BY <1>2, <1>6, <1>12, <2>1 DEF WheelType
  <2>3. Due(s)' = Due(s) /\ buckets'[s] = buckets[s]
    BY <1>2, <1>5, <1>6, <1>8, <1>13 DEF WheelType
  <2> QED
    BY <1>2, <2>2, <2>3, BucketElsewhere
<1>14. BucketOK(b)'
  <2> DEFINE S == Due(b)
  <2>1. S \subseteq Node /\ n \notin S /\ END_OF_LIST \notin S \cup {n}
    BY <1>3, <1>5, <1>7 DEF Due
  <2>2. timer_next'[n] = h /\ \A m \in S : timer_next'[m] = timer_next[m]
    BY <1>2, <1>6, <2>1 DEF WheelType
  <2>3. /\ IsList(timer_next, h, S) /\ BackLinks(h, S)
        /\ \A m \in S : wheel_bucket[m] = b
    BY <1>2, <1>5 DEF BucketOK
  <2> HIDE DEF S, h
  <2>4. IsList(timer_next', n, S \cup {n})
    BY <2>1, <2>2, <2>3, ListPush
  <2>5. \A m \in S \cup {n} : wheel_bucket'[m] = b
    BY <1>2, <1>6, <2>1, <2>3, SMTT(20) DEF WheelType
  <2>6. \A m \in S : timer_next[m] \in S \cup {END_OF_LIST}
    BY <2>3 DEF IsList
  <2>7. timer_prev'[n] = END_OF_LIST
    BY <1>12
  <2>8. h \in S => timer_prev'[h] = n
    BY <1>9, <1>12, <2>1
  <2>9. \A m \in S : m # h => timer_prev'[m] = timer_prev[m]
    BY <1>12, <2>1
  <2>10. ASSUME NEW m \in S
         PROVE  /\ m = n <=> timer_prev'[m] = END_OF_LIST
                /\ timer_prev'[m] # END_OF_LIST
                     => timer_prev'[m] \in S \cup {n} /\ timer_next'[timer_prev'[m]] = m
                /\ timer_next'[m] # END_OF_LIST => timer_prev'[timer_next'[m]] = m
    <3>1. m # n /\ n # END_OF_LIST
      BY <1>3, <2>1
    <3>2. CASE m = h
      <4>1. timer_next[m] # END_OF_LIST => timer_next[m] # h
        BY <1>3, <2>1, <2>3, <2>6, <3>2 DEF BackLinks
      <4> QED
        BY <2>1, <2>2, <2>3, <2>6, <2>8, <2>9, <3>1, <3>2, <4>1, SMTT(20) DEF BackLinks
    <3>3. CASE m # h
      <4>1. timer_next[m] # END_OF_LIST => timer_next[m] # h
        BY <1>3, <2>1, <2>3, <2>6, <3>3, SMTT(20) DEF BackLinks
      <4>2. timer_prev[m] # END_OF_LIST /\ timer_prev[m] \in S /\ timer_next[timer_prev[m]] = m
        BY <2>3, <3>3 DEF BackLinks
      <4>3. timer_prev'[m] = timer_prev[m] /\ timer_next'[timer_prev[m]] = m
        BY <2>2, <2>9, <3>3, <4>2
      <4>4. timer_next'[m] # END_OF_LIST => timer_prev'[timer_next'[m]] = m
        BY <2>2, <2>3, <2>6, <2>9, <4>1, SMTT(20) DEF BackLinks
      <4> QED
        BY <3>1, <4>2, <4>3, <4>4
    <3> QED
      BY <3>2, <3>3
  <2>11. timer_next'[n] # END_OF_LIST => timer_prev'[timer_next'[n]] = n
    BY <1>9, <2>1, <2>2, <2>8 DEF S
  <2>12. buckets'[b] = n /\ Due(b)' = S \cup {n}
    BY <1>2, <1>5, <1>6, <1>8 DEF WheelType, S
  <2>13. BackLinks(buckets[b], Due(b))'
    BY <2>7, <2>10, <2>11, <2>12 DEF BackLinks
  <2> QED
    BY <2>4, <2>5, <2>12, <2>13 DEF BucketOK, IsList
<1>15. \A m \in Node : /\ timer'[m] = "set" <=> left'[m] # 0
                       /\ timer'[m] = "idle" => wheel_bucket'[m] = END_OF_LIST
  BY <1>1, <1>2, <1>4, <1>6, SMTT(20) DEF WheelInv, WheelType
<1>16. \A s \in Slot : BucketOK(s)'
  BY <1>13, <1>14
<1> QED
  BY <1>10, <1>11, <1>15, <1>16 DEF WheelInv, Slot

\* cancel() takes a timer that is set out of the list of its slot, and leaves one
\* that is idle alone.
LEMMA CancelTimerPreserves == WheelInv /\ CancelTimer => WheelInv'
<1> SUFFICES ASSUME WheelInv, CancelTimer PROVE WheelInv'
  OBVIOUS
<1>1. PICK n \in Node :
        /\ timer[n] \in {"idle", "set"}
        /\ Cancel(n)
        /\ timer' = [timer EXCEPT ![n] = "idle"]
        /\ left' = [left EXCEPT ![n] = 0]
        /\ UNCHANGED <<clockVars, expired>>
  BY UserAssumption DEF CancelTimer
<1>2. WheelType /\ WalkOK /\ (\A s \in Slot : BucketOK(s))
  BY DEF WheelInv
<1>3. END_OF_LIST \notin Node /\ END_OF_LIST \notin Slot
  BY WheelAssumption DEF Slot
<1>4. CASE timer[n] = "idle"
  <2>1. UNCHANGED wheel /\ timer' = timer /\ left' = left /\ expired' = expired
    BY <1>1, <1>2, <1>4 DEF WheelInv, WheelType, Cancel
  <2>2. WheelType' /\ WalkOK'
    <3>1. WheelType'
      BY <1>2, <2>1 DEF wheel, nodes, WheelType
    <3>2. Unhandled' = Unhandled /\ timer_next' = timer_next
      BY <2>1 DEF wheel, nodes, Unhandled
    <3>3. WalkOK'
      BY <1>2, <2>1, <3>2, SMTT(20) DEF WalkOK, IsList
    <3> QED
      BY <3>1, <3>3
  <2>3. \A s \in Slot : BucketOK(s)'
    BY <1>2, <2>1, SMTT(20) DEF wheel, nodes, BucketOK, BackLinks, IsList, Due
  <2> QED
    BY <2>1, <2>2, <2>3 DEF WheelInv, wheel, nodes
<1>5. CASE timer[n] = "set"
  <2>1. PICK b \in Slot : n \in Due(b)
    <3>1. left[n] # 0 /\ left[n] \in 0 .. WheelSlots
      BY <1>2, <1>5 DEF WheelInv, WheelType
    <3> QED
      BY <1>2, <3>1, SlotWraps DEF WheelType, Due
  <2> DEFINE S == Due(b)
             h == buckets[b]
             p == timer_prev[n]
             q == timer_next[n]
  <2>2. /\ IsList(timer_next, h, S) /\ BackLinks(h, S) /\ wheel_bucket[n] = b
        /\ S \subseteq Node /\ END_OF_LIST \notin S
        /\ \A m \in S : wheel_bucket[m] = b
    BY <1>2, <1>3, <2>1 DEF BucketOK, Due
  <2>3. /\ timer_next' = Set(timer_next, p, q)
        /\ buckets' = IF p # END_OF_LIST THEN buckets ELSE [buckets EXCEPT ![b] = q]
        /\ timer_prev' = Set(timer_prev, q, p)
        /\ wheel_bucket' = [wheel_bucket EXCEPT ![n] = END_OF_LIST]
        /\ current_tick' = current_tick
    BY <1>1, <1>3, <2>2 DEF Cancel
  <2>4. /\ p \in S \cup {END_OF_LIST} /\ q \in S \cup {END_OF_LIST}
        /\ p \in S => timer_next[p] = n
        /\ q \in S => timer_prev[q] = n
        /\ p = END_OF_LIST <=> n = h
    BY <2>1, <2>2, SMTT(20) DEF IsList, BackLinks
  <2>5. p # n /\ q # n
    <3>1. CASE p = n
      <4>1. q = n
        BY <2>1, <2>2, <2>4, <3>1
      <4>2. n # h /\ h \in S
        BY <1>3, <2>1, <2>2, <2>4, <3>1, ListHead
      <4> DEFINE C == S \ {n}
      <4>3. ASSUME NEW k \in C PROVE timer_next[k] \in C \cup {END_OF_LIST}
        <5>1. timer_next[k] \in S \cup {END_OF_LIST}
          BY <2>2 DEF IsList
        <5>2. timer_next[k] # n
          <6>1. timer_next[k] = n => timer_prev[n] = k
            BY <1>3, <2>1, <2>2, SMTT(20) DEF BackLinks
          <6> QED
            BY <3>1, <6>1
        <5> QED
          BY <5>1, <5>2
      <4>4. C \in SUBSET S /\ h \in C /\ C # S
        BY <2>1, <4>2
      <4> QED
        BY <2>2, <4>3, <4>4 DEF IsList
    <3>2. CASE q = n
      BY <2>1, <2>4, <3>1, <3>2
    <3> QED
      BY <3>1, <3>2
  <2>6. \A k \in S : timer_next[k] = n => k = p
    BY <1>3, <2>1, <2>2, SMTT(20) DEF BackLinks
  <2>7. \A m \in Node : timer_next'[m] = IF m = p THEN q ELSE timer_next[m]
    BY <1>2, <1>3, <2>2, <2>3, <2>4 DEF WheelType, Set
  <2>8. \A m \in Node : timer_prev'[m] = IF m = q THEN p ELSE timer_prev[m]
    BY <1>2, <1>3, <2>2, <2>3, <2>4 DEF WheelType, Set
  <2>9. Due(b)' = S \ {n} /\ \A s \in Slot : s # b => Due(s)' = Due(s)
    <3>1. \A m \in Node : left'[m] = IF m = n THEN 0 ELSE left[m]
      BY <1>1, <1>2 DEF WheelType
    <3>2. \A s, m : m \in Due(s)' <=> m # n /\ m \in Due(s)
      BY <2>3, <3>1 DEF Due
    <3>3. \A s \in Slot : s # b => n \notin Due(s)
      BY <2>1, DueOnce
    <3> QED
      BY <3>2, <3>3
  <2>10. WheelType'
    <3>1. timer' \in [Node -> {"idle", "set", "expired", "fired"}] /\ left' \in [Node -> 0 .. WheelSlots]
      BY <1>1, <1>2, WheelAssumption, SMTT(20) DEF WheelType
    <3>2. p \in Node \cup {END_OF_LIST} /\ q \in Node \cup {END_OF_LIST}
      BY <2>2, <2>4
    <3>3. buckets' \in [Slot -> Node \cup {END_OF_LIST}]
      BY <1>2, <2>3, <3>2 DEF WheelType
    <3>4. timer_next' \in [Node -> Node \cup {END_OF_LIST}] /\ timer_prev' \in [Node -> Node \cup {END_OF_LIST}]
      BY <1>2, <2>3, <3>2 DEF WheelType, Set
    <3> QED
      BY <1>1, <1>2, <2>3, <3>1, <3>3, <3>4 DEF WheelType
  <2>11. WalkOK'
    <3>1. Unhandled' = Unhandled
      BY <1>1, <1>2, <1>5 DEF WheelType, Unhandled
    <3>2. \A m \in S : left[m] # 0
      BY DEF Due
    <3>3. \A m \in S : m \notin Unhandled
      BY <2>2, <3>2 DEF WheelInv, Unhandled
    <3>4. \A m \in Unhandled : m \in Node /\ m # p
      BY <1>3, <2>4, <3>3 DEF Unhandled
    <3> QED
      BY <1>1, <1>2, <2>7, <3>1, <3>4, WalkElsewhere
  <2>12. ASSUME NEW s \in Slot, s # b PROVE BucketOK(s)'
    <3>1. \A m \in Due(s) : m \in Node /\ m # n /\ m # p /\ m # q
      BY <1>3, <2>1, <2>4, <2>12, DueOnce DEF Due
    <3>2. \A m \in Due(s) : /\ timer_next'[m] = timer_next[m]
                            /\ timer_prev'[m] = timer_prev[m]
                            /\ wheel_bucket'[m] = wheel_bucket[m]
      BY <1>2, <2>3, <2>7, <2>8, <3>1 DEF WheelType
    <3>3. Due(s)' = Due(s) /\ buckets'[s] = buckets[s]
      BY <1>2, <2>3, <2>9, <2>12 DEF WheelType
    <3> QED
      BY <1>2, <3>2, <3>3, BucketElsewhere
  <2>13. BucketOK(b)'
    <3> DEFINE T == S \ {n}
    <3>1. IsList(timer_next', buckets'[b], T)
      <4>1. CASE n = h
        <5>1. buckets'[b] = q /\ \A m \in T : timer_next'[m] = timer_next[m]
          BY <1>2, <1>3, <2>2, <2>3, <2>4, <2>7, <4>1, SMTT(20) DEF WheelType
        <5>2. IsList(timer_next, q, T)
          <6>1. \A k \in S : timer_next[k] # h
            BY <1>3, <2>2, <2>4, <2>6, <4>1
          <6> QED
            BY <2>1, <2>2, <4>1, <6>1, ListPop
        <5> HIDE DEF T, q
        <5> QED
          BY <5>1, <5>2, ListElsewhere
      <4>2. CASE n # h
        <5>1. p \in S /\ timer_next[p] = n /\ buckets'[b] = h
          BY <2>3, <2>4, <4>2
        <5>2. h \in S
          BY <2>1, <2>2, ListHead
        <5>3. timer_next'[p] = timer_next[n] /\ \A k \in S : k # p => timer_next'[k] = timer_next[k]
          BY <2>2, <2>7, <5>1
        <5> HIDE DEF S, h, p
        <5>4. IsList(timer_next', h, S \ {n})
          BY <2>1, <2>2, <2>5, <2>6, <4>2, <5>1, <5>2, <5>3, ListCut, SMTT(20) DEF S
        <5> QED
          BY <5>1, <5>4
      <4> QED
        BY <4>1, <4>2
    <3>2. \A m \in T : wheel_bucket'[m] = b
      BY <1>2, <2>2, <2>3 DEF WheelType
    <3>3. \A m \in T : timer_next[m] \in S \cup {END_OF_LIST}
      BY <2>2 DEF IsList
    <3>4. \A m \in T : m = buckets'[b] <=> timer_prev'[m] = END_OF_LIST
      <4> SUFFICES ASSUME NEW m \in T PROVE m = buckets'[b] <=> timer_prev'[m] = END_OF_LIST
        OBVIOUS
      <4>1. m = h <=> timer_prev[m] = END_OF_LIST
        BY <2>2 DEF BackLinks
      <4>2. timer_prev'[m] = IF m = q THEN p ELSE timer_prev[m]
        BY <2>2, <2>8
      <4>3. CASE p = END_OF_LIST
        <5>1. buckets'[b] = q /\ n = h
          BY <1>2, <2>3, <2>4, <4>3 DEF WheelType
        <5> HIDE DEF S, h, p, q
        <5> QED
          BY <4>1, <4>2, <4>3, <5>1
      <4>4. CASE p # END_OF_LIST
        <5>1. buckets'[b] = h
          BY <2>3, <4>4
        <5>2. m = q => m # h
          BY <2>1, <2>2, <2>4, <4>1, <1>3
        <5> HIDE DEF S, h, p, q
        <5> QED
          BY <4>1, <4>2, <4>4, <5>1, <5>2
      <4> QED
        BY <4>3, <4>4
    <3>5. ASSUME NEW m \in T, timer_prev'[m] # END_OF_LIST
          PROVE  timer_prev'[m] \in T /\ timer_next'[timer_prev'[m]] = m
      <4>1. timer_prev'[m] = IF m = q THEN p ELSE timer_prev[m]
        BY <2>2, <2>8
      <4>2. CASE m = q
        <5>1. p \in T
          BY <2>4, <2>5, <3>5, <4>1, <4>2
        <5> QED
          BY <2>2, <2>7, <4>1, <4>2, <5>1
      <4>3. CASE m # q
        <5>1. timer_prev[m] \in S /\ timer_next[timer_prev[m]] = m
          BY <2>2, <3>5, <4>1, <4>3 DEF BackLinks
        <5>2. timer_prev[m] # n
          BY <4>3, <5>1
        <5>3. timer_prev[m] # p
          BY <2>4, <5>1
        <5> HIDE DEF p, q
        <5> QED
          BY <2>2, <2>7, <4>1, <4>3, <5>1, <5>2, <5>3
      <4> QED
        BY <4>2, <4>3
    <3>6. ASSUME NEW m \in T, timer_next'[m] # END_OF_LIST
          PROVE  timer_prev'[timer_next'[m]] = m
      <4>1. timer_next'[m] = IF m = p THEN q ELSE timer_next[m]
        BY <2>2, <2>7
      <4>2. CASE m = p
        BY <2>2, <2>4, <2>8, <3>6, <4>1, <4>2
      <4>3. CASE m # p
        <5>1. timer_next[m] \in S /\ timer_prev[timer_next[m]] = m
          BY <2>2, <3>3, <3>6, <4>1, <4>3 DEF BackLinks
        <5>2. timer_next[m] # q
          BY <2>4, <5>1
        <5> HIDE DEF p, q
        <5> QED
          BY <2>2, <2>8, <4>1, <4>3, <5>1, <5>2
      <4> QED
        BY <4>2, <4>3
    <3>7. Due(b)' = T
      BY <2>9
    <3> HIDE DEF T
    <3>8. BackLinks(buckets[b], Due(b))'
      BY <3>4, <3>5, <3>6, <3>7 DEF BackLinks
    <3> QED
      BY <3>1, <3>2, <3>7, <3>8 DEF BucketOK, IsList
  <2>14. \A m \in Node : /\ timer'[m] = "set" <=> left'[m] # 0
                         /\ timer'[m] = "idle" => wheel_bucket'[m] = END_OF_LIST
    BY <1>1, <1>2, <2>3 DEF WheelInv, WheelType
  <2>15. \A s \in Slot : BucketOK(s)'
    BY <2>12, <2>13
  <2> QED
    BY <2>10, <2>11, <2>14, <2>15 DEF WheelInv, Slot
<1> QED
  BY <1>1, <1>4, <1>5

\* tick() hands the list of the slot it reaches to the core, and the other lists
\* stay where they are: no timer of that slot is due a whole turn later.
LEMMA CoreTickPreserves == WheelInv /\ CoreTick => WheelInv'
<1> SUFFICES ASSUME WheelInv, CoreTick PROVE WheelInv'
  OBVIOUS
<1>1. WheelType /\ WalkOK /\ (\A s \in Slot : BucketOK(s))
  BY DEF WheelInv
<1>2. PICK t \in Slot : t = (current_tick + 1) % WheelSlots /\ t = SlotAfter(current_tick, 1)
  <2>1. current_tick \in Slot
    BY <1>1 DEF WheelType
  <2>2. 1 \in 0 .. WheelSlots
    BY WheelAssumption
  <2>3. (current_tick + 1) % WheelSlots = SlotAfter(current_tick, 1) /\ SlotAfter(current_tick, 1) \in Slot
    BY <2>1, <2>2, SlotWraps
  <2> QED
    BY <2>3
<1>3. /\ current_tick' = t
      /\ buckets' = [buckets EXCEPT ![t] = END_OF_LIST]
      /\ timer_next' = timer_next /\ timer_prev' = timer_prev /\ wheel_bucket' = wheel_bucket
      /\ expired' = buckets[t]
      /\ timer' = [n \in Node |-> IF left[n] = 1 THEN "expired" ELSE timer[n]]
      /\ left' = [n \in Node |-> IF left[n] = 0 THEN 0 ELSE left[n] - 1]
  BY <1>2 DEF CoreTick, Tick, Expired, nodes
<1>4. Unhandled = {}
  <2>1. expired = END_OF_LIST
    BY DEF CoreTick
  <2>2. {} \in SUBSET Unhandled /\ \A k \in {} : timer_next[k] \in {} \cup {END_OF_LIST}
    OBVIOUS
  <2> QED
    BY <1>1, <2>1, <2>2 DEF WalkOK, IsList
<1>5. \A n \in Node : left[n] \in 0 .. WheelSlots
  BY <1>1 DEF WheelType
<1>6. ASSUME NEW n \in Node, left[n] # 0
      PROVE  /\ left[n] = 1 => (current_tick + left[n]) % WheelSlots = t
             /\ left[n] # 1 => (current_tick + left[n]) % WheelSlots # t
             /\ (t + (left[n] - 1)) % WheelSlots = (current_tick + left[n]) % WheelSlots
  <2>1. left[n] \in 1 .. WheelSlots /\ current_tick \in Slot /\ WheelSlots \in Nat \ {0}
    BY <1>1, <1>5, <1>6, WheelAssumption, SMTT(20) DEF WheelType
  <2>2. (current_tick + left[n]) % WheelSlots = SlotAfter(current_tick, left[n])
    BY <2>1, SlotWraps
  <2>3. (t + (left[n] - 1)) % WheelSlots = SlotAfter(t, left[n] - 1)
    BY <2>1, SlotWraps
  <2>4. left[n] # 1 => SlotAfter(current_tick, left[n]) # t
    BY <1>2, <2>1 DEF SlotAfter, Slot
  <2>5. SlotAfter(t, left[n] - 1) = SlotAfter(current_tick, left[n])
    BY <1>2, <2>1 DEF SlotAfter, Slot
  <2> QED
    BY <1>2, <2>2, <2>3, <2>4, <2>5
<1>7. Due(t) = {n \in Node : left[n] = 1}
  BY <1>5, <1>6, SMTT(20) DEF Due
<1>8. Due(t)' = {} /\ \A s \in Slot : s # t => Due(s)' = Due(s)
  <2>1. \A s, n : n \in Due(s)' <=> n \in Node /\ left'[n] # 0 /\ (t + left'[n]) % WheelSlots = s
    BY <1>3 DEF Due
  <2>2. \A s, n : n \in Due(s)' <=> n \in Due(s) /\ left[n] # 1
    BY <1>3, <1>5, <1>6, <2>1, SMTT(20) DEF Due
  <2>3. ASSUME NEW s \in Slot, s # t PROVE \A n \in Due(s) : left[n] # 1
    BY <1>6, <2>3 DEF Due
  <2> QED
    BY <1>7, <2>2, <2>3
<1>9. Unhandled' = Due(t)
  BY <1>3, <1>4, <1>7 DEF Unhandled
<1>10. WheelType'
  BY <1>1, <1>2, <1>3, <1>5, WheelAssumption, SMTT(20) DEF WheelType
<1>11. WalkOK'
  <2> DEFINE S == Due(t)
  <2>1. IsList(timer_next, buckets[t], S) /\ BackLinks(buckets[t], S)
    BY <1>1 DEF BucketOK
  <2>2. S \subseteq Node /\ END_OF_LIST \notin S
    BY WheelAssumption DEF Due
  <2> HIDE DEF S
  <2>3. \A n \in S : timer_next[n] \in S \cup {END_OF_LIST}
    BY <2>1 DEF IsList
  <2>4. ASSUME NEW m \in S, NEW n \in S
        PROVE  /\ timer_next[m] # buckets[t]
               /\ timer_next[m] = timer_next[n] => m = n \/ timer_next[m] = END_OF_LIST
    <3>1. buckets[t] \in S /\ timer_prev[buckets[t]] = END_OF_LIST
      BY <2>1, ListHead DEF BackLinks
    <3>2. timer_next[m] # END_OF_LIST => timer_prev[timer_next[m]] = m
      BY <2>1 DEF BackLinks
    <3>3. timer_next[n] # END_OF_LIST => timer_prev[timer_next[n]] = n
      BY <2>1 DEF BackLinks
    <3> QED
      BY <2>2, <3>1, <3>2, <3>3
  <2>5. Unhandled' = S /\ expired' = buckets[t] /\ timer_next' = timer_next
    BY <1>3, <1>9 DEF S
  <2> QED
    BY <2>1, <2>4, <2>5, SMTT(20) DEF WalkOK, IsList
<1>12. ASSUME NEW s \in Slot, s # t PROVE BucketOK(s)'
  <2>1. Due(s)' = Due(s) /\ buckets'[s] = buckets[s]
    BY <1>1, <1>3, <1>8, <1>12 DEF WheelType
  <2> QED
    BY <1>1, <1>3, <2>1, BucketElsewhere
<1>13. BucketOK(t)'
  <2>1. buckets'[t] = END_OF_LIST
    BY <1>1, <1>3 DEF WheelType
  <2> QED
    BY <1>8, <2>1 DEF BucketOK, BackLinks, IsList
<1>14. \A n \in Node : /\ timer'[n] = "set" <=> left'[n] # 0
                       /\ timer'[n] = "idle" => wheel_bucket'[n] = END_OF_LIST
  <2> SUFFICES ASSUME NEW n \in Node
               PROVE  /\ timer'[n] = "set" <=> left'[n] # 0
                      /\ timer'[n] = "idle" => wheel_bucket'[n] = END_OF_LIST
    OBVIOUS
  <2>1. /\ timer'[n] = IF left[n] = 1 THEN "expired" ELSE timer[n]
        /\ left'[n] = IF left[n] = 0 THEN 0 ELSE left[n] - 1
    BY <1>3
  <2>2. /\ timer[n] = "set" <=> left[n] # 0
        /\ timer[n] = "idle" => wheel_bucket[n] = END_OF_LIST
    BY DEF WheelInv
  <2> QED
    BY <1>3, <1>5, <2>1, <2>2
<1>15. \A s \in Slot : BucketOK(s)'
  BY <1>12, <1>13
<1> QED
  BY <1>10, <1>11, <1>14, <1>15 DEF WheelInv, Slot

\* The walk hands its first node to user code and goes on from the next.
LEMMA FirePreserves == WheelInv /\ Fire => WheelInv'
<1> SUFFICES ASSUME WheelInv, Fire PROVE WheelInv'
  OBVIOUS
<1>1. WheelType /\ WalkOK /\ (\A s \in Slot : BucketOK(s))
  BY DEF WheelInv
<1>2. PICK e \in Node : e = expired
  BY <1>1 DEF Fire, WheelType
<1>3. /\ expired' = timer_next[e] /\ timer' = [timer EXCEPT ![e] = "fired"]
      /\ buckets' = buckets /\ current_tick' = current_tick /\ left' = left
      /\ timer_next' = timer_next /\ timer_prev' = timer_prev /\ wheel_bucket' = wheel_bucket
  BY <1>2 DEF Fire, wheel, nodes
<1>4. e \in Unhandled /\ IsList(timer_next, e, Unhandled) /\ e # END_OF_LIST
  BY <1>1, <1>2, WheelAssumption DEF WalkOK, IsList
<1>5. Unhandled' = Unhandled \ {e}
  BY <1>1, <1>3 DEF WheelType, Unhandled
<1>6. \A m, n \in Unhandled :
        /\ timer_next[m] # e
        /\ timer_next[m] = timer_next[n] => m = n \/ timer_next[m] = END_OF_LIST
  BY <1>1, <1>2 DEF WalkOK
<1>7. WalkOK'
  <2> DEFINE T == Unhandled \ {e}
  <2>1. IsList(timer_next, timer_next[e], T)
    BY <1>4, <1>6, ListPop
  <2>2. ASSUME NEW m \in T PROVE timer_next[m] # timer_next[e]
    <3>1. timer_next[m] = timer_next[e] => timer_next[e] = END_OF_LIST
      BY <1>4, <1>6
    <3>2. CASE timer_next[e] = END_OF_LIST
      <4>1. {} \in SUBSET T /\ \A k \in {} : timer_next[k] \in {} \cup {END_OF_LIST}
        OBVIOUS
      <4>2. T = {}
        BY <2>1, <3>2, <4>1 DEF IsList
      <4> QED
        BY <4>2
    <3> QED
      BY <3>1, <3>2
  <2>3. Unhandled' = T
    BY <1>5
  <2>4. \A m, n \in T : timer_next[m] = timer_next[n] => m = n \/ timer_next[m] = END_OF_LIST
    BY <1>6
  <2> HIDE DEF T
  <2>5. IsList(timer_next, expired, Unhandled)'
    BY <1>3, <2>1, <2>3 DEF IsList
  <2>6. (\A m, n \in Unhandled :
           /\ timer_next[m] # expired
           /\ timer_next[m] = timer_next[n] => m = n \/ timer_next[m] = END_OF_LIST)'
    BY <1>3, <2>2, <2>3, <2>4
  <2> QED
    BY <2>5, <2>6 DEF WalkOK
<1>8. \A s \in Slot : BucketOK(s)'
  <2>1. \A s \in Slot : Due(s)' = Due(s)
    BY <1>3 DEF Due
  <2> QED
    BY <1>1, <1>3, <2>1, BucketElsewhere
<1>9. WheelType'
  BY <1>1, <1>3 DEF WheelType
<1>10. \A n \in Node : /\ timer'[n] = "set" <=> left'[n] # 0
                       /\ timer'[n] = "idle" => wheel_bucket'[n] = END_OF_LIST
  <2>1. timer[e] = "expired"
    BY <1>4 DEF Unhandled
  <2> QED
    BY <1>1, <1>3, <2>1 DEF WheelInv, WheelType
<1> QED
  BY <1>7, <1>8, <1>9, <1>10 DEF WheelInv, Slot

\* The clock, and a step of neither, leave the wheel alone.
LEMMA WheelInvUntouched == WheelInv /\ UNCHANGED <<wheel, user>> => WheelInv'
<1> SUFFICES ASSUME WheelInv, UNCHANGED <<wheel, user>> PROVE WheelInv'
  OBVIOUS
<1>1. /\ buckets' = buckets /\ current_tick' = current_tick /\ timer_next' = timer_next
      /\ timer_prev' = timer_prev /\ wheel_bucket' = wheel_bucket
      /\ timer' = timer /\ left' = left /\ expired' = expired
  BY DEF wheel, nodes, user
<1>2. WheelType'
  BY <1>1 DEF WheelInv, WheelType
<1>3. WalkOK'
  BY <1>1, WalkElsewhere DEF WheelInv, Unhandled
<1>4. \A s \in Slot : BucketOK(s)'
  <2>1. \A s \in Slot : Due(s)' = Due(s)
    BY <1>1 DEF Due
  <2> QED
    BY <1>1, <2>1, BucketElsewhere DEF WheelInv
<1> QED
  BY <1>1, <1>2, <1>3, <1>4 DEF WheelInv, Slot

\* Every step preserves the inductive invariant.
LEMMA WheelInvStep == WheelInv /\ [Next]_vars => WheelInv'
<1> SUFFICES ASSUME WheelInv, [Next]_vars PROVE WheelInv'
  OBVIOUS
<1>1. CASE Clock \/ UNCHANGED vars
  BY <1>1, WheelInvUntouched DEF Clock, vars
<1>2. CASE SetTimer
  BY <1>2, SetTimerPreserves
<1>3. CASE CancelTimer
  BY <1>3, CancelTimerPreserves
<1>4. CASE CoreTick
  BY <1>4, CoreTickPreserves
<1>5. CASE Fire
  BY <1>5, FirePreserves
<1> QED
  BY <1>1, <1>2, <1>3, <1>4, <1>5 DEF Next

\* Whatever user code sets and cancels, and whenever the ticks come, the list of
\* each bucket is intact and holds exactly the timers due when it is reached.
THEOREM WheelStaysIntact == Spec => []WheelIntact
BY WheelInvInit, WheelInvStep, WheelInvImplies, PTL DEF Spec

\* The core's walk meets every timer that is due, once, although the handlers on
\* its way set timers again and cancel others.
THEOREM WalkMeetsAll == Spec => []WalkMeetsAllDue
BY WheelInvInit, WheelInvStep, WheelInvImplies, PTL DEF Spec

\* Driving a wheel with the ticks does not make the core run ahead of real time.
THEOREM CoreOnTime == Spec => []CoreNeverAhead
<1>1. Init => ClockInv
  BY ClockInvInit DEF Init
<1>2. ClockInv /\ [Next]_vars => ClockInv'
  <2>1. [Next]_vars => [ClockStep \/ PopTick]_clockVars
    BY DEF Next, vars, Clock, SetTimer, CancelTimer, CoreTick, Fire
  <2> QED
    BY <2>1, ClockInvStep
<1>3. ClockInv => CoreNeverAhead
  BY DEF ClockInv, CoreNeverAhead
<1> QED
  BY <1>1, <1>2, <1>3, PTL DEF Spec
=============================================================================

------------------------------ MODULE EventPool ------------------------------
(***************************************************************************)
(* cre::pool<T> (include/conduit/core.hpp): a fixed array of cells whose   *)
(* free cells are chained into a lock-free LIFO (a Treiber stack).  The    *)
(* head is one 64-bit atomic word, a 32-bit tag above a 32-bit index.      *)
(*                                                                         *)
(* Any number of threads run make() and free() concurrently.  Every access *)
(* to shared memory (the load of the head, the plain read or write of a    *)
(* cell's next, the compare-and-swap) is one atomic step of its thread.    *)
(*                                                                         *)
(* The payload and the next index of a cell share their bytes (a union).   *)
(* make() reads next without synchronisation, so a slow thread may read it *)
(* from a cell that another thread meanwhile owns: it then gets arbitrary  *)
(* bytes, and only the failing compare-and-swap keeps them out of the head.*)
(***************************************************************************)
EXTENDS Integers, Sequences

CONSTANTS
    Thread,              \* the threads that call make() and free()
    Capacity,            \* number of cells
    TagMod,              \* number of tag values: 2^32 in the code
    SpuriousFailures     \* may compare_exchange_weak fail on an equal word?

ASSUME CapacityAssumption == Capacity \in Nat \ {0}
ASSUME TagModAssumption == TagMod \in Nat \ {0}
ASSUME SpuriousAssumption == SpuriousFailures \in BOOLEAN

Cells == 0 .. Capacity - 1
NIL == -1                \* 0xFFFFFFFF, the end of the free list
DATA == -2               \* the bytes of a cell hold a payload, not an index
WILD == -3               \* payload bytes that read as an index outside the array

Index == Cells \cup {NIL}

VARIABLES
    head,                \* free_head_: [tag, idx]
    mem,                 \* memory_: what each cell's bytes hold
    live,                \* the cells some owning event_ptr points to
    pc,                  \* where each thread is
    snap,                \* local head: the value loaded from free_head_
    nxt,                 \* local next of make()
    cell,                \* local idx of free()
    \* The two variables below are history: the code does not have them.
    stack,               \* the free cells, in the order they were freed
    age                  \* updates of free_head_ since the thread's last load

vars == <<head, mem, live, pc, snap, nxt, cell, stack, age>>

MakePC == {"make_read", "make_cas"}
FreePC == {"free_link", "free_cas"}

(***************************************************************************)
(* The constructor: cell i points to i + 1, the last one ends the list.    *)
(***************************************************************************)
InitialNext(i) == IF i < Capacity - 1 THEN i + 1 ELSE NIL

Init ==
    /\ head = [tag |-> 0, idx |-> 0]
    /\ mem = [i \in Cells |-> InitialNext(i)]
    /\ live = {}
    /\ pc = [t \in Thread |-> "idle"]
    /\ snap = [t \in Thread |-> [tag |-> 0, idx |-> 0]]
    /\ nxt = [t \in Thread |-> NIL]
    /\ cell = [t \in Thread |-> 0]
    /\ stack = [i \in 1 .. Capacity |-> Capacity - i]
    /\ age = [t \in Thread |-> 0]

\* The free cells below the top one.
Front(s) == SubSeq(s, 1, Len(s) - 1)

NextTagStuck(tag) == tag

\* ((head >> 32) + 1) << 32: the carry out of the tag is shifted away.
NextTag(tag) == (tag + 1) % TagMod

\* What a plain read of memory_[c].next may return.
NextBytes(c) == IF mem[c] = DATA THEN Index \cup {WILD} ELSE {mem[c]}

(***************************************************************************)
(* The head word is compared as a whole, tag and index.                    *)
(***************************************************************************)
HeadMatchesIndexOnly(t) == head.idx = snap[t].idx

HeadMatches(t) == head = snap[t]

(***************************************************************************)
(* ASSUMPTION on scheduling, not a line of the code: while one thread is   *)
(* between its load and its compare-and-swap, the others update the head   *)
(* fewer than TagMod times.  The tag cannot tell TagMod updates from none. *)
(***************************************************************************)
NoTagLap(t) == \A u \in Thread \ {t} : pc[u] # "idle" => age[u] < TagMod - 1

\* free_head_ := word, and every other thread's snapshot grows older.
SetHead(t, word) ==
    /\ NoTagLap(t)
    /\ head' = word
    /\ age' = [u \in Thread |-> IF u # t /\ pc[u] # "idle" THEN age[u] + 1 ELSE 0]

\* head := free_head_, by the first load or by a failed compare-and-swap.
LoadHead(t) ==
    /\ snap' = [snap EXCEPT ![t] = head]
    /\ age' = [age EXCEPT ![t] = 0]

CasFails(t) == SpuriousFailures \/ ~HeadMatches(t)

(***************************************************************************)
(* make()                                                                  *)
(***************************************************************************)
MakeLoad(t) ==
    /\ pc[t] = "idle"
    /\ LoadHead(t)
    /\ pc' = [pc EXCEPT ![t] = "make_read"]
    /\ UNCHANGED <<head, mem, live, nxt, cell, stack>>

MakeNull(t) ==
    /\ pc[t] = "make_read"
    /\ snap[t].idx = NIL
    /\ pc' = [pc EXCEPT ![t] = "idle"]
    /\ age' = [age EXCEPT ![t] = 0]
    /\ UNCHANGED <<head, mem, live, snap, nxt, cell, stack>>

MakeRead(t) ==
    /\ pc[t] = "make_read"
    /\ snap[t].idx # NIL
    /\ \E bytes \in NextBytes(snap[t].idx) : nxt' = [nxt EXCEPT ![t] = bytes]
    /\ pc' = [pc EXCEPT ![t] = "make_cas"]
    /\ UNCHANGED <<head, mem, live, snap, cell, stack, age>>

\* The winner constructs the payload in the cell.  The bytes change later
\* than the head does, but a reader of a payload may see any bytes at all.
MakeTake(t) ==
    /\ pc[t] = "make_cas"
    /\ HeadMatches(t)
    /\ SetHead(t, [tag |-> NextTag(snap[t].tag), idx |-> nxt[t]])
    /\ mem' = [mem EXCEPT ![snap[t].idx] = DATA]
    /\ live' = live \cup {snap[t].idx}
    /\ stack' = Front(stack)
    /\ pc' = [pc EXCEPT ![t] = "idle"]
    /\ UNCHANGED <<snap, nxt, cell>>

MakeRetryStaleHead(t) ==
    /\ pc[t] = "make_cas"
    /\ CasFails(t)
    /\ pc' = [pc EXCEPT ![t] = "make_read"]
    /\ UNCHANGED <<head, mem, live, snap, nxt, cell, stack, age>>

MakeRetry(t) ==
    /\ pc[t] = "make_cas"
    /\ CasFails(t)
    /\ LoadHead(t)
    /\ pc' = [pc EXCEPT ![t] = "make_read"]
    /\ UNCHANGED <<head, mem, live, nxt, cell, stack>>

(***************************************************************************)
(* free(), called by the deleter of the one event_ptr that owns cell c.    *)
(***************************************************************************)
FreeLoad(t, c) ==
    /\ pc[t] = "idle"
    /\ c \in live
    /\ live' = live \ {c}
    /\ cell' = [cell EXCEPT ![t] = c]
    /\ LoadHead(t)
    /\ pc' = [pc EXCEPT ![t] = "free_link"]
    /\ UNCHANGED <<head, mem, nxt, stack>>

FreeLink(t) ==
    /\ pc[t] = "free_link"
    /\ mem' = [mem EXCEPT ![cell[t]] = snap[t].idx]
    /\ pc' = [pc EXCEPT ![t] = "free_cas"]
    /\ UNCHANGED <<head, live, snap, nxt, cell, stack, age>>

FreePut(t) ==
    /\ pc[t] = "free_cas"
    /\ HeadMatches(t)
    /\ SetHead(t, [tag |-> NextTag(snap[t].tag), idx |-> cell[t]])
    /\ stack' = Append(stack, cell[t])
    /\ pc' = [pc EXCEPT ![t] = "idle"]
    /\ UNCHANGED <<mem, live, snap, nxt, cell>>

\* A failed swap links the cell again, to the head it has just learned of.
FreeRetryWithoutRelink(t) ==
    /\ pc[t] = "free_cas"
    /\ CasFails(t)
    /\ LoadHead(t)
    /\ UNCHANGED <<head, mem, live, pc, nxt, cell, stack>>

FreeRetry(t) ==
    /\ pc[t] = "free_cas"
    /\ CasFails(t)
    /\ LoadHead(t)
    /\ pc' = [pc EXCEPT ![t] = "free_link"]
    /\ UNCHANGED <<head, mem, live, nxt, cell, stack>>

----------------------------------------------------------------------------
\* The steps inside a call; when to start a call is the caller's choice.
Step(t) ==
    \/ MakeNull(t)
    \/ MakeRead(t)
    \/ MakeTake(t)
    \/ MakeRetry(t)
    \/ FreeLink(t)
    \/ FreePut(t)
    \/ FreeRetry(t)

Next ==
    \E t \in Thread :
        \/ MakeLoad(t)
        \/ \E c \in Cells : FreeLoad(t, c)
        \/ Step(t)

Spec == Init /\ [][Next]_vars

\* Every thread inside a call keeps running: the operating system's scheduler.
FairSpec == Spec /\ \A t \in Thread : WF_vars(Step(t))

----------------------------------------------------------------------------
Word == [tag : 0 .. TagMod - 1, idx : Index]

\* Every variable has its type.  In particular the head always names a cell
\* or the end of the list: bytes of a payload are never installed in it.
TypeOK ==
    /\ head \in Word
    /\ mem \in [Cells -> Index \cup {DATA}]
    /\ live \subseteq Cells
    /\ pc \in [Thread -> {"idle"} \cup MakePC \cup FreePC]
    /\ snap \in [Thread -> Word]
    /\ nxt \in [Thread -> Index \cup {WILD}]
    /\ cell \in [Thread -> Cells]
    /\ stack \in Seq(Cells)
    /\ age \in [Thread -> 0 .. TagMod - 1]

Freeing(t) == pc[t] \in FreePC

\* Following next from the head visits exactly the free cells, last freed
\* first, and ends: the chain is neither cut, nor crossed, nor circular,
\* whatever the threads in the middle of make() and free() have read.
FreeListIntact ==
    /\ head.idx = IF stack = <<>> THEN NIL ELSE stack[Len(stack)]
    /\ \A i \in 1 .. Len(stack) :
          mem[stack[i]] = IF i = 1 THEN NIL ELSE stack[i - 1]

\* No cell is in two places: on the free list (once), owned by an event_ptr,
\* or being returned by one thread.  make() never hands out a cell twice and
\* two frees never race on one.
NoCellShared ==
    /\ \A i, j \in 1 .. Len(stack) : stack[i] = stack[j] => i = j
    /\ \A i \in 1 .. Len(stack) : stack[i] \notin live
    /\ \A t \in Thread : Freeing(t) =>
          /\ cell[t] \notin live
          /\ \A i \in 1 .. Len(stack) : stack[i] # cell[t]
          /\ \A u \in Thread \ {t} : Freeing(u) => cell[u] # cell[t]

\* No cell is lost: each is free, owned, or on its way back.
NoCellLost ==
    \A c \in Cells :
        \/ c \in live
        \/ \E i \in 1 .. Len(stack) : stack[i] = c
        \/ \E t \in Thread : Freeing(t) /\ cell[t] = c

\* The tag that n < TagMod updates turn tag into.
TagAfter(tag, n) == IF tag + n < TagMod THEN tag + n ELSE tag + n - TagMod

\* The tag counts the updates of the head, modulo TagMod: it runs ahead of a
\* thread's snapshot by the number of updates the thread has missed, and if
\* it missed none the snapshot is the head itself, index included.
TagCountsUpdates ==
    \A t \in Thread : pc[t] # "idle" =>
        /\ head.tag = TagAfter(snap[t].tag, age[t])
        /\ age[t] = 0 => head = snap[t]

\* What a thread about to swap relies on.  If the head is still the word it
\* loaded, then nothing at all happened to the head since (the tag excludes
\* the return of an equal index), and what it read or wrote is still right.
SnapshotSound ==
    \A t \in Thread :
        /\ pc[t] # "idle" /\ head = snap[t] => age[t] = 0
        /\ pc[t] = "make_cas" => snap[t].idx # NIL
        /\ pc[t] = "make_cas" /\ head = snap[t] => nxt[t] = mem[snap[t].idx]
        /\ pc[t] = "free_cas" => mem[cell[t]] = snap[t].idx

\* A compare-and-swap fails although the word is the expected one.
FailsSpuriously(t) == HeadMatches(t) /\ (MakeRetry(t) \/ FreeRetry(t))

\* While someone is inside make() or free(), some call returns: a thread only
\* repeats its loop because another thread's compare-and-swap succeeded, or, for
\* ever, if the processor fails it spuriously for ever.
LockFree ==
    \/ <>[](\A t \in Thread : pc[t] = "idle")
    \/ []<><<\E t \in Thread : pc[t] # "idle" /\ pc'[t] = "idle">>_vars
    \/ []<><<\E t \in Thread : FailsSpuriously(t)>>_vars
=============================================================================

-------------------------- MODULE RoundRobinPoller --------------------------
(***************************************************************************)
(* Fan-in (include/conduit/core.hpp): several producers each push to a     *)
(* conduit of their own; one thread takes events from all of them through  *)
(* round_robin_poller::poll.  poll() looks at the tracks one after the     *)
(* other while the producers run, so a track it has just found empty may   *)
(* fill before poll() returns.                                             *)
(*                                                                         *)
(* Which event a conduit delivers is Conduit's concern; here a conduit is  *)
(* the number of events in it.                                             *)
(***************************************************************************)
EXTENDS Integers

CONSTANTS
    NumInputs,           \* number of tracks of the poller
    ConduitSize          \* ring size of each track

ASSUME NumInputsAssumption == NumInputs \in Nat \ {0}
ASSUME ConduitSizeAssumption == ConduitSize \in Nat \ {0}

Track == 0 .. NumInputs - 1

VARIABLES
    inputs,              \* inputs_: which tracks are bound
    load,                \* number of events in each conduit
    next,                \* next_
    pc, i,               \* where poll() is, and its loop counter
    \* History.
    bypass,              \* deliveries from other tracks while this one waited
    busy                 \* bound tracks that held events when poll() was called

pollerVars == <<inputs, load, next, pc, i, bypass, busy>>

PollerInit ==
    /\ inputs = {}
    /\ load = [k \in Track |-> 0]
    /\ next = 0
    /\ pc = "out"
    /\ i = 0
    /\ bypass = [k \in Track |-> 0]
    /\ busy = {}

\* bind_track(k, conduit), between polls.  Each track is bound once; its producer
\* may have pushed before.
BindTrack(k) ==
    /\ pc = "out"
    /\ k \notin inputs
    /\ inputs' = inputs \cup {k}
    /\ UNCHANGED <<load, next, pc, i, bypass, busy>>

\* The producer of track k pushes; a full conduit refuses.
Push(k) ==
    /\ load[k] < ConduitSize - 1
    /\ load' = [load EXCEPT ![k] = @ + 1]
    /\ UNCHANGED <<inputs, next, pc, i, bypass, busy>>

PollCall ==
    /\ pc = "out"
    /\ pc' = "poll"
    /\ i' = 0
    /\ busy' = {k \in inputs : load[k] > 0}
    /\ UNCHANGED <<inputs, load, next, bypass>>

Candidate(n) == (next + n) % NumInputs

\* The track is not bound, or its pop() finds it empty.
PollSkipsBusy ==
    /\ pc = "poll"
    /\ i < NumInputs
    /\ i' = i + 1
    /\ UNCHANGED <<inputs, load, next, pc, bypass, busy>>

PollSkip ==
    /\ pc = "poll"
    /\ i < NumInputs
    /\ Candidate(i) \in inputs => load[Candidate(i)] = 0
    /\ i' = i + 1
    /\ UNCHANGED <<inputs, load, next, pc, bypass, busy>>

AfterSame(k) == k

\* Where the next poll() starts.
After(k) == (k + 1) % NumInputs

\* One more bypass, counted up to the first one too many.
OneMore(n) == IF n < NumInputs THEN n + 1 ELSE n

\* pop() delivers an event, and every other waiting track is bypassed once.
PollTake ==
    /\ pc = "poll"
    /\ i < NumInputs
    /\ Candidate(i) \in inputs
    /\ load[Candidate(i)] > 0
    /\ load' = [load EXCEPT ![Candidate(i)] = @ - 1]
    /\ next' = After(Candidate(i))
    /\ pc' = "out"
    /\ bypass' = [k \in Track |-> IF k # Candidate(i) /\ k \in inputs /\ load[k] > 0
                                  THEN OneMore(bypass[k]) ELSE 0]
    /\ UNCHANGED <<inputs, i, busy>>

\* All tracks were found empty: poll() returns null.
PollNull ==
    /\ pc = "poll"
    /\ i = NumInputs
    /\ pc' = "out"
    /\ UNCHANGED <<inputs, load, next, i, bypass, busy>>

----------------------------------------------------------------------------
Poll == PollCall \/ PollSkip \/ PollTake \/ PollNull

PollerNext == Poll \/ \E k \in Track : Push(k) \/ BindTrack(k)

PollerSpec == PollerInit /\ [][PollerNext]_pollerVars

\* The polling thread runs its loop; the producers push when they like.
PollerFairSpec == PollerSpec /\ WF_pollerVars(Poll)

----------------------------------------------------------------------------
\* Every variable has its type.
PollerTypeOK ==
    /\ inputs \subseteq Track
    /\ load \in [Track -> Nat]
    /\ \A k \in Track : load[k] <= ConduitSize - 1
    /\ next \in Track
    /\ pc \in {"out", "poll"}
    /\ i \in 0 .. NumInputs
    /\ bypass \in [Track -> Nat]
    /\ busy \subseteq inputs

\* How many tracks poll() looks at before it comes to k.
Distance(k) == IF k >= next THEN k - next ELSE k - next + NumInputs

\* A track that holds events is served before every other track has been
\* served once: no producer, however fast, makes another one wait longer.
BoundedBypass == \A k \in Track : bypass[k] <= NumInputs - 1

\* The bypasses a waiting track has suffered and may still suffer.  A track the
\* current poll() has already passed cannot have been bypassed before.
BypassBudget ==
    \A k \in Track :
        /\ bypass[k] = 0 \/ bypass[k] + Distance(k) <= NumInputs - 1
        /\ pc = "poll" /\ Distance(k) < i => bypass[k] = 0
        /\ k \notin inputs \/ load[k] = 0 => bypass[k] = 0

\* poll() passes over no track that held an event when it was called: it takes
\* the first such track in rotation order, and returns null only without any.
NoTrackMissed == pc = "poll" => \A n \in 0 .. i - 1 : Candidate(n) \notin busy

\* A track that keeps holding events is served again and again, whatever the
\* other tracks do.
StarvationFree ==
    \A k \in Track :
        \/ []<>(k \notin inputs \/ load[k] = 0)
        \/ []<><<load'[k] < load[k]>>_pollerVars
=============================================================================

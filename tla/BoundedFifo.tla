----------------------------- MODULE BoundedFifo -----------------------------
(***************************************************************************)
(* What cre::conduit promises: a bounded first-in first-out queue between  *)
(* one producer and one consumer.  Each call takes effect at one instant   *)
(* between its start and its return.  A push is refused only when the      *)
(* queue is full at that instant, and a pop comes back empty-handed only   *)
(* when the queue is empty at that instant.                                *)
(***************************************************************************)
EXTENDS Integers, Sequences

CONSTANTS
    Value,               \* the pointers that may be pushed
    None,                \* no pointer
    Bound                \* how many pointers the queue can hold

VARIABLES
    queue,               \* accepted and not yet delivered, oldest first
    pushing,             \* argument of the push in progress, or None
    accepted,            \* result of the last push, until it is used
    popping,             \* is a pop in progress?
    out                  \* result of the last pop, until it is used

vars == <<queue, pushing, accepted, popping, out>>

Init ==
    /\ queue = <<>>
    /\ pushing = None
    /\ accepted = FALSE
    /\ popping = FALSE
    /\ out = None

StartPush(v) ==
    /\ pushing = None
    /\ pushing' = v
    /\ UNCHANGED <<queue, accepted, popping, out>>

Accept ==
    /\ pushing # None
    /\ Len(queue) < Bound
    /\ queue' = Append(queue, pushing)
    /\ pushing' = None
    /\ accepted' = TRUE
    /\ UNCHANGED <<popping, out>>

Refuse ==
    /\ pushing # None
    /\ Len(queue) = Bound
    /\ pushing' = None
    /\ accepted' = FALSE
    /\ UNCHANGED <<queue, popping, out>>

StartPop ==
    /\ ~popping
    /\ popping' = TRUE
    /\ UNCHANGED <<queue, pushing, accepted, out>>

Deliver ==
    /\ popping
    /\ queue # <<>>
    /\ out' = Head(queue)
    /\ queue' = Tail(queue)
    /\ popping' = FALSE
    /\ UNCHANGED <<pushing, accepted>>

ComeBackEmpty ==
    /\ popping
    /\ queue = <<>>
    /\ out' = None
    /\ popping' = FALSE
    /\ UNCHANGED <<queue, pushing, accepted>>

\* The caller has used what a call returned.
UseResult ==
    /\ \/ accepted' = FALSE /\ UNCHANGED out
       \/ out' = None /\ UNCHANGED accepted
    /\ UNCHANGED <<queue, pushing, popping>>

Next ==
    \/ \E v \in Value : StartPush(v)
    \/ Accept
    \/ Refuse
    \/ StartPop
    \/ Deliver
    \/ ComeBackEmpty
    \/ UseResult

Spec == Init /\ [][Next]_vars

\* Calls return, and the consumer keeps polling.
FairSpec ==
    /\ Spec
    /\ WF_vars(Accept \/ Refuse)
    /\ WF_vars(Deliver \/ ComeBackEmpty)
    /\ WF_vars(StartPop)
=============================================================================

------------------------------ MODULE Pipeline ------------------------------
(***************************************************************************)
(* cre::pipeline (include/conduit/core.hpp): dispatch() passes an event    *)
(* through the handlers in declaration order.  For each handler it walks   *)
(* the event's base types depth first and calls the handler's on() for     *)
(* every type it has one for, bases before derived.  A base's on() gets a  *)
(* view, an event_ptr that does not own; when it comes back null, dispatch *)
(* assumes that the handler has taken the event over and releases ev, a    *)
(* step after the new owner could first use or free it.                    *)
(*                                                                         *)
(* bound_sink::handle takes its event by value and is a "move" dispatch.   *)
(***************************************************************************)
EXTENDS DispatchPlan

VARIABLES
    on,                  \* which on() each handler has for each type
    owners,              \* who would give the event's cell back, or has it:
                         \* "ev", the dispatched event_ptr; "away", a new owner; "pool"
    mode,                \* how the running dispatch was called
    at, h, proceed,      \* where it is, its handler, the last result
    frames,              \* the active traverse_and_call: type, bases visited
    \* History.
    plan,                \* the calls this dispatch is to make
    calls                \* the calls it has made, and whether each let it go on

control == <<mode, at, h, proceed, frames>>
pipelineVars == <<on, owners, control, plan, calls>>

Top == frames[Len(frames)]
Callers == SubSeq(frames, 1, Len(frames) - 1)
\* A call of traverse_and_call that has visited no base yet.
Frame(T) == [type |-> T, done |-> 0]

PipelineInit ==
    /\ on \in [Handlers -> [Type -> Overload]]
    /\ owners = {"pool"}
    /\ mode = "none"
    /\ at = "out"
    /\ h = 1
    /\ proceed = TRUE
    /\ frames = <<>>
    /\ plan = <<>> /\ calls = <<>>

\* The cell passes from x to y.
Pass(x, y) == owners' = (owners \ {x}) \cup {y}

\* The caller obtains an event from the pool.
Make ==
    /\ at = "out"
    /\ "pool" \in owners
    /\ Pass("pool", "ev")
    /\ UNCHANGED <<on, control, plan, calls>>

\* dispatch(ev): a null event returns at once.
Dispatch(m) ==
    /\ at = "out"
    /\ "ev" \in owners
    /\ mode' = m
    /\ at' = "handler"
    /\ h' = 1
    /\ proceed' = TRUE
    /\ plan' = Plan(on)
    /\ UNCHANGED <<on, owners, frames, calls>>

\* The fold over the handlers: inner_dispatch(h, ev) && ...
EnterHandler ==
    /\ at = "handler"
    /\ proceed
    /\ h \in Handlers
    /\ frames' = <<Frame(Event)>>
    /\ at' = "bases"
    /\ UNCHANGED <<on, owners, mode, h, proceed, plan, calls>>

EnterBase ==
    /\ at = "bases"
    /\ Top.done < Len(Bases[Top.type])
    /\ frames' = Append(frames, Frame(Bases[Top.type][Top.done + 1]))
    /\ UNCHANGED <<on, owners, mode, at, h, proceed, plan, calls>>

LeaveBases ==
    /\ at = "bases"
    /\ Top.done = Len(Bases[Top.type])
    /\ at' = IF "ev" \in owners THEN "call" ELSE "return"
    /\ UNCHANGED <<on, owners, mode, h, proceed, frames, plan, calls>>

\* call_on_if_exists finds no on() for this type.
CallNone ==
    /\ at = "call"
    /\ on[h][Top.type] = "none"
    /\ at' = "return"
    /\ UNCHANGED <<on, owners, mode, h, proceed, frames, plan, calls>>

\* on() of the event's own type gets ev itself.
CallOwn(e, accept) ==
    /\ CASE e = "keep"  -> UNCHANGED owners
         [] e = "reset" -> Pass("ev", "pool")
         [] e = "take"  -> Pass("ev", "away")
    /\ proceed' = (accept /\ "ev" \in owners')
    /\ at' = "return"

\* on() of a base gets a view.  To reset() a view frees nothing, and who takes the
\* pointer from a view takes nothing from ev.
CallBase(e, accept) ==
    /\ e \in BaseEffect
    /\ owners' = IF e = "take" THEN owners \cup {"away"} ELSE owners
    /\ proceed' = accept
    /\ at' = IF e = "keep" THEN "return" ELSE "null_view"

CallOn(e, accept) ==
    /\ at = "call"
    /\ on[h][Top.type] # "none"
    /\ on[h][Top.type] = "void" => accept
    /\ IF Top.type = Event THEN CallOwn(e, accept) ELSE CallBase(e, accept)
    /\ calls' = Append(calls, [of |-> <<h, Top.type>>, go |-> accept /\ e = "keep"])
    /\ UNCHANGED <<on, mode, h, frames, plan>>

\* The view has come back null: ev.release().
KeepEvent ==
    /\ at = "null_view"
    /\ proceed' = FALSE
    /\ at' = "return"
    /\ UNCHANGED <<on, owners, mode, h, frames, plan, calls>>

ReleaseEvent ==
    /\ at = "null_view"
    /\ owners' = owners \ {"ev"}
    /\ proceed' = FALSE
    /\ at' = "return"
    /\ UNCHANGED <<on, mode, h, frames, plan, calls>>

\* traverse_and_call returns to the fold over its caller's bases, which stops at
\* the first false: then the caller skips its own on() and returns false too.
ReturnIgnoresReject ==
    /\ at = "return"
    /\ Len(frames) > 1
    /\ frames' = [Callers EXCEPT ![Len(Callers)].done = @ + 1]
    /\ at' = "bases"
    /\ UNCHANGED <<on, owners, mode, h, proceed, plan, calls>>

ReturnToBase ==
    /\ at = "return"
    /\ Len(frames) > 1
    /\ frames' = IF proceed THEN [Callers EXCEPT ![Len(Callers)].done = @ + 1]
                            ELSE Callers
    /\ at' = IF proceed THEN "bases" ELSE "return"
    /\ UNCHANGED <<on, owners, mode, h, proceed, plan, calls>>

ReturnToHandler ==
    /\ at = "return"
    /\ Len(frames) = 1
    /\ frames' = <<>>
    /\ h' = h + 1
    /\ at' = "handler"
    /\ UNCHANGED <<on, owners, mode, proceed, plan, calls>>

\* dispatch returns.  local_ev of dispatch(&&) and the parameter of handle() go
\* out of scope, and ~event_ptr frees what they still own.
Return ==
    /\ at = "handler"
    /\ ~proceed \/ h \notin Handlers
    /\ IF mode = "move" /\ "ev" \in owners THEN Pass("ev", "pool") ELSE UNCHANGED owners
    /\ mode' = "none"
    /\ at' = "out"
    /\ plan' = <<>> /\ calls' = <<>>
    /\ UNCHANGED <<on, h, proceed, frames>>

\* The new owner of an event is done with it.
FreedElsewhere ==
    /\ "away" \in owners
    /\ Pass("away", "pool")
    /\ UNCHANGED <<on, control, plan, calls>>

----------------------------------------------------------------------------
Step ==
    \/ EnterHandler
    \/ EnterBase
    \/ LeaveBases
    \/ CallNone
    \/ \E e \in Effect, accept \in BOOLEAN : CallOn(e, accept)
    \/ ReleaseEvent
    \/ ReturnToBase
    \/ ReturnToHandler
    \/ Return

PipelineNext ==
    \/ Make
    \/ \E m \in Mode \ {"none"} : Dispatch(m)
    \/ Step
    \/ FreedElsewhere

PipelineSpec == PipelineInit /\ [][PipelineNext]_pipelineVars

\* A dispatch that has begun is carried on: every on() returns.
PipelineFairSpec == PipelineSpec /\ WF_pipelineVars(Step)

----------------------------------------------------------------------------
\* Whatever the handlers do with an event and with the views of its bases, and
\* whenever a new owner frees it, no two would free the same cell, but for the
\* moment in which dispatch is about to release what a handler has taken; and no
\* on() is called with an event that anyone else owns or has freed.
SoleOwner ==
    /\ at # "null_view" => \A x, y \in owners : x = y
    /\ at = "call" => owners = {"ev"}

\* No event is lost: it is in the pool, or someone owns it.
NoLeak == owners # {}

\* Where the event is for its users, who do not see ev until dispatch returns.
Place ==
    CASE "away" \in owners -> "away"
      [] "pool" \in owners -> "pool"
      [] owners = {"ev"}   -> "ev"
      [] OTHER             -> "lost"

\* The calls of the running dispatch that are still to come.
Todo == IF \A k \in 1 .. Len(calls) : calls[k].go
        THEN SubSeq(plan, Len(calls) + 1, Len(plan)) ELSE <<>>

Made == [k \in 1 .. Len(calls) |-> calls[k].of]

Flat == INSTANCE FlatDispatch WITH place <- Place, todo <- Todo, made <- Made

\* The nested traversal makes exactly the calls of the flat list, in order: none
\* is skipped or repeated, none is made after a handler has rejected or consumed
\* the event, and only then does dispatch return early.  An event passed by value
\* does not outlive dispatch; and every dispatch returns, if its handlers do.
ImplementsFairFlat == Flat!FairSpec
=============================================================================

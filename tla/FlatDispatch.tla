---------------------------- MODULE FlatDispatch ----------------------------
(***************************************************************************)
(* What pipeline::dispatch promises its caller, without the recursion over *)
(* handlers and base types that implements it: the overloads of on() that  *)
(* match the event form one flat list, and dispatch calls them in order    *)
(* until one rejects the event or makes away with it.                      *)
(***************************************************************************)
EXTENDS DispatchPlan

VARIABLES
    on,                  \* which on() each handler has for each type
    place,               \* where the event is
    mode,                \* how the dispatch that is running was called
    todo, made           \* the calls it has still to make, and those it made

vars == <<on, place, mode, todo, made>>

Init ==
    /\ on \in [Handlers -> [Type -> Overload]]
    /\ place = "pool"
    /\ mode = "none"
    /\ todo = <<>> /\ made = <<>>

Make ==
    /\ mode = "none"
    /\ place = "pool"
    /\ place' = "ev"
    /\ UNCHANGED <<on, mode, todo, made>>

Start(m) ==
    /\ mode = "none"
    /\ place = "ev"
    /\ mode' = m
    /\ todo' = Plan(on)
    /\ UNCHANGED <<on, place, made>>

\* An overload is called with the event: only that of the event's own type can
\* destroy it.  An overload that returns nothing never rejects.
Call ==
    /\ todo # <<>>
    /\ place = "ev"
    /\ LET h == Head(todo)[1]
           T == Head(todo)[2]
       IN  \E accept \in BOOLEAN, e \in (IF T = Event THEN Effect ELSE BaseEffect) :
              /\ on[h][T] = "void" => accept
              /\ place' = CASE e = "keep"  -> "ev"
                            [] e = "reset" -> "pool"
                            [] e = "take"  -> "away"
              /\ todo' = IF accept /\ e = "keep" THEN Tail(todo) ELSE <<>>
    /\ made' = Append(made, Head(todo))
    /\ UNCHANGED <<on, mode>>

\* An event passed by value is gone when dispatch returns.
Return ==
    /\ mode # "none"
    /\ todo = <<>>
    /\ mode' = "none"
    /\ place' = IF mode = "move" /\ place = "ev" THEN "pool" ELSE place
    /\ made' = <<>>
    /\ UNCHANGED <<on, todo>>

\* The new owner is done with the event.
FreedElsewhere ==
    /\ place = "away"
    /\ place' = "pool"
    /\ UNCHANGED <<on, mode, todo, made>>

Next ==
    \/ Make
    \/ \E m \in Mode \ {"none"} : Start(m)
    \/ Call
    \/ Return
    \/ FreedElsewhere

Spec == Init /\ [][Next]_vars

FairSpec == Spec /\ WF_vars(Call \/ Return)
=============================================================================

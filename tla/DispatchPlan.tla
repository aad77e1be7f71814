---------------------------- MODULE DispatchPlan ----------------------------
(***************************************************************************)
(* The types, handlers and overloads that a pipeline (pipeline<Handlers...>*)
(* in include/conduit/core.hpp) is compiled for, and the list of on()      *)
(* calls they call for.                                                    *)
(***************************************************************************)
EXTENDS Integers, Sequences, Folds

CONSTANTS
    Type,                \* the event's type and its direct and indirect bases
    Event,               \* the type of the event that is dispatched
    Bases,               \* base_types of each type, in order
    NumHandlers,         \* number of handlers of the pipeline
    BaseEffect           \* what on() may do to the event_ptr of a base type

\* What on() may do to an event_ptr: leave it, reset() it (or let it go out of
\* scope elsewhere), or give the pointer to a new owner and release() it.
Effect == {"keep", "reset", "take"}

\* A handler has no on() for a type, one that returns nothing, or a bool.
Overload == {"none", "void", "bool"}

\* No dispatch, dispatch(event_ptr&), or one that is given the event for good.
Mode == {"none", "ref", "move"}

Handlers == 1 .. NumHandlers

ASSUME HandlersAssumption == NumHandlers \in Nat
ASSUME TypesAssumption == Event \in Type /\ Bases \in [Type -> Seq(Type)]
ASSUME EffectAssumption == BaseEffect \subseteq Effect

\* The sequences seqs[1], seqs[2], ... one after the other.
Concat(seqs) ==
    MapThenFoldSet(LAMBDA s, t : s \o t, <<>>, LAMBDA n : seqs[n],
                   LAMBDA S : CHOOSE n \in S : \A m \in S : n <= m, DOMAIN seqs)

\* The types of an event, every base before what it is a base of.
PostOrder[T \in Type] ==
    Concat([b \in 1 .. Len(Bases[T]) |-> PostOrder[Bases[T][b]]]) \o <<T>>

EventTypes == PostOrder[Event]

\* The calls on one handler, whose overloads are has.
CallsOf(h, has) ==
    LET types == SelectSeq(EventTypes, LAMBDA T : has[T] # "none")
    IN  [n \in 1 .. Len(types) |-> <<h, types[n]>>]

\* Handler by handler, and for each handler base types first.
Plan(on) == Concat([h \in Handlers |-> CallsOf(h, on[h])])
=============================================================================

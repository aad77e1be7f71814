------------------------------ MODULE EventPtr ------------------------------
(***************************************************************************)
(* cre::event_ptr<T> (include/conduit/core.hpp): a pointer to a cell of a  *)
(* pool that returns it to the pool when it is destroyed.  It owns what it *)
(* points to exactly if deleter_ is not null.  Three things besides moves  *)
(* bend the rule of one owner: release() gives up a bare pointer, the      *)
(* constructor adopts one (conduit::pop does), and a view of a base type   *)
(* points to the cell without owning it.                                   *)
(*                                                                         *)
(* Every operation runs on one thread; pool is used through what EventPool *)
(* establishes, as a set of free cells.                                    *)
(***************************************************************************)
CONSTANTS
    Var,                 \* the event_ptr objects of a program
    Cell,                \* the cells of the pool
    NULL                 \* the null pointer

ASSUME NullAssumption == NULL \notin Cell

VARIABLES
    ptr,                 \* ptr_ of each object
    deleter,             \* is deleter_ of each object set?
    free,                \* the cells in the pool
    bare                 \* the cells whose only pointer was release()d

vars == <<ptr, deleter, free, bare>>

Init ==
    /\ ptr = [x \in Var |-> NULL]
    /\ deleter = [x \in Var |-> FALSE]
    /\ free = Cell
    /\ bare = {}

\* What reset() of x hands to its deleter.
Resets(x) == IF deleter[x] THEN {ptr[x]} \ {NULL} ELSE {}

\* x = pool.make(): the cell is taken before the old one of x is returned.  An
\* exhausted pool makes a null event_ptr, and x is reset to it.
Make(x, c) ==
    /\ c \in free \/ (free = {} /\ c = NULL)
    /\ free' = (free \ {c}) \cup Resets(x)
    /\ ptr' = [ptr EXCEPT ![x] = c]
    /\ deleter' = [deleter EXCEPT ![x] = c # NULL]
    /\ UNCHANGED bare

\* x = std::move(y), or the construction of x from y if x is null.
Move(x, y) ==
    /\ x # y
    /\ free' = free \cup Resets(x)
    /\ ptr' = [ptr EXCEPT ![x] = ptr[y], ![y] = NULL]
    /\ deleter' = [deleter EXCEPT ![x] = deleter[y], ![y] = FALSE]
    /\ UNCHANGED bare

\* reset(), also by the destructor.
Reset(x) ==
    /\ free' = free \cup Resets(x)
    /\ ptr' = [ptr EXCEPT ![x] = NULL]
    /\ deleter' = [deleter EXCEPT ![x] = FALSE]
    /\ UNCHANGED bare

\* release() on an owner; on a view it only forgets the pointer.
ReleaseKeepsPointer(x) ==
    /\ bare' = bare \cup Resets(x)
    /\ UNCHANGED <<ptr, deleter, free>>

Release(x) ==
    /\ bare' = bare \cup Resets(x)
    /\ ptr' = [ptr EXCEPT ![x] = NULL]
    /\ deleter' = [deleter EXCEPT ![x] = FALSE]
    /\ UNCHANGED free

\* event_ptr(p, del, ctx) around a pointer that was released before.
Adopt(x, c) ==
    /\ ptr[x] = NULL
    /\ c \in bare
    /\ bare' = bare \ {c}
    /\ ptr' = [ptr EXCEPT ![x] = c]
    /\ deleter' = [deleter EXCEPT ![x] = TRUE]
    /\ UNCHANGED free

\* event_ptr(y, non_owning_tag{})
View(x, y) ==
    /\ ptr[x] = NULL
    /\ ptr' = [ptr EXCEPT ![x] = ptr[y]]
    /\ deleter' = [deleter EXCEPT ![x] = FALSE]
    /\ UNCHANGED <<free, bare>>

Next ==
    \/ \E x \in Var, c \in Cell \cup {NULL} : Make(x, c)
    \/ \E x \in Var, y \in Var : Move(x, y) \/ View(x, y)
    \/ \E x \in Var : Reset(x) \/ Release(x)
    \/ \E x \in Var, c \in Cell : Adopt(x, c)

Spec == Init /\ [][Next]_vars

----------------------------------------------------------------------------
\* Every variable has its type.
TypeOK ==
    /\ ptr \in [Var -> Cell \cup {NULL}]
    /\ deleter \in [Var -> BOOLEAN]
    /\ free \subseteq Cell
    /\ bare \subseteq Cell

Owns(x, c) == deleter[x] /\ ptr[x] = c

\* No cell has two of: an owner, another owner, a bare pointer, a place in the
\* pool.  So no sequence of moves, views, releases and adoptions makes two
\* destructors free one cell, or frees one that is in use.
AtMostOneOwner ==
    /\ free \cap bare = {}
    /\ \A x \in Var, c \in Cell : Owns(x, c) =>
          /\ c \notin free \cup bare
          /\ \A y \in Var \ {x} : ~Owns(y, c)

\* A null event_ptr has no deleter, and no cell is left without any owner.
NoCellLost ==
    /\ \A x \in Var : ptr[x] = NULL => ~deleter[x]
    /\ \A c \in Cell : c \in free \cup bare \/ \E x \in Var : Owns(x, c)
=============================================================================

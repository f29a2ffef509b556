--------------------------- MODULE MCLocateRoute ---------------------------
(* Small instances of LocateRoute for TLC. *)
EXTENDS LocateRoute, TLC

CONSTANTS x1, x2

\* Two commands, each for a drawer of its own.
OwnDrawers == {[cid |-> x1, drawer |-> 1], [cid |-> x2, drawer |-> 2]}

\* And a request that fails, by an item without a drawer, and one by an item that moved
\* to another drawer between two attempts.
SomeItems == OwnDrawers \cup {[cid |-> x1, drawer |-> 0], [cid |-> x1, drawer |-> 2]}

\* Requests differ in nothing but their names.
Symmetric == Permutations(Requests)
=============================================================================

--------------------------- MODULE MCControllerNode ---------------------------
(* How ids are cut, for the instances that TLC checks. *)
EXTENDS ControllerNode, TLC

CONSTANTS c1, c2, c3, c4, n1, n2, n3

\* Two of the ids share the characters a node reads.
FirstTwoAlike == (c1 :> n1) @@ (c2 :> n1) @@ (c3 :> n2) @@ (c4 :> n3)
==============================================================================

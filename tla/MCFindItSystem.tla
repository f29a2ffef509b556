---------------------------- MODULE MCFindItSystem ----------------------------
(* How ids are cut, and symmetry, for the instance that TLC checks. *)
EXTENDS FindItSystem, TLC

\* Short ids are known by themselves.
Whole == [cid \in CommandIds |-> cid]

\* No guard and no property here reads the histories seen and newer.
Relevant == <<backend, ids, next, link, work, pixels, acks, obeyed>>

Symmetric == Permutations(CommandIds)
==============================================================================

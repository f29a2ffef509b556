--------------------------- MODULE LocateLifecycle ---------------------------
(***************************************************************************)
(* What the locate service promises of each command id, with no mention of *)
(* retries, acknowledgements or messages: whether an LED was lit (acted)   *)
(* and what the operator is told about it (verdict).                       *)
(*                                                                         *)
(*  - "confirmed" is said only of a command whose LED was lit, and for     *)
(*    ever after;                                                          *)
(*  - "expired" is final too: a late answer does not take it back;         *)
(*  - a command "refused" because its controller is down never lights      *)
(*    anything;                                                            *)
(*  - "failed" is not final: publishing may have raised although the       *)
(*    message left, and the controller's confirmation then wins.           *)
(***************************************************************************)
CONSTANT CommandIds

VARIABLES verdict, acted

vars == <<verdict, acted>>

Verdicts == {"new", "open", "refused", "failed", "confirmed", "expired"}

Init == verdict = [cid \in CommandIds |-> "new"] /\ acted = {}

Open(cid) ==
    /\ verdict[cid] = "new"
    /\ verdict' = [verdict EXCEPT ![cid] = "open"]
    /\ UNCHANGED acted

Refuse(cid) ==
    /\ verdict[cid] = "new"
    /\ verdict' = [verdict EXCEPT ![cid] = "refused"]
    /\ UNCHANGED acted

Light(cid) ==
    /\ verdict[cid] \notin {"new", "refused"}
    /\ acted' = acted \cup {cid}
    /\ UNCHANGED verdict

Fail(cid) ==
    /\ verdict[cid] = "open"
    /\ verdict' = [verdict EXCEPT ![cid] = "failed"]
    /\ UNCHANGED acted

Confirm(cid) ==
    /\ verdict[cid] \in {"open", "failed"}
    /\ cid \in acted
    /\ verdict' = [verdict EXCEPT ![cid] = "confirmed"]
    /\ UNCHANGED acted

\* The timeout of several commands may be noticed at once.
Expire(cids) ==
    /\ \A cid \in cids : verdict[cid] = "open"
    /\ verdict' = [cid \in CommandIds |->
                     IF cid \in cids THEN "expired" ELSE verdict[cid]]
    /\ UNCHANGED acted

Next == \/ \E cid \in CommandIds : \/ Open(cid) \/ Refuse(cid) \/ Light(cid)
                                   \/ Fail(cid) \/ Confirm(cid)
        \/ \E cids \in SUBSET CommandIds : Expire(cids)

Spec == Init /\ [][Next]_vars
==============================================================================

----------------------------- MODULE MCRingSystem -----------------------------
(* Durations and foreign reports for the TLC instances. *)
EXTENDS RingSystem

CONSTANTS long, odd

\* The longest ring there is, and a duration no device accepts.
Durations == [e \in Starts |-> IF e = long THEN MaxRing ELSE 0]

\* Reports of no state the bridge knows, of a start nobody made, of another event and no
\* state, and of a short duration.
Strangers ==
    {[state |-> "unknown",  event |-> NoEvent, dur |-> Kept],
     [state |-> "starting", event |-> NoEvent, dur |-> Kept],
     [state |-> "absent",   event |-> odd,     dur |-> Kept],
     [state |-> "ringing",  event |-> NoEvent, dur |-> 1]}
==============================================================================

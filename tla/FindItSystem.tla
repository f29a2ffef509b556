----------------------------- MODULE FindItSystem -----------------------------
(***************************************************************************)
(* The command service and the controller nodes it commands, joined by a   *)
(* broker that loses, repeats, delays and reorders what it is given:       *)
(*                                                                         *)
(*   - a message in sent may be delivered to its node again and again,     *)
(*     while the node is connected, or never;                              *)
(*   - an ACK in acks may be delivered to the service again and again, or  *)
(*     never.                                                              *)
(*                                                                         *)
(* The service alone is specified against a device that acts or refuses    *)
(* (CommandService).  Here the firmware takes the device's place, with its *)
(* bounded memory, its resets and its early "received".                    *)
(***************************************************************************)
EXTENDS Routing

CONSTANTS CommandIds, NoId, MaxAttempts, AckTimeout,   \* see CommandService
          Names, Cut, NoName, Window                   \* see ControllerNode

ASSUME SystemAssumption ==
    /\ AckTimeout \in Nat \ {0}
    /\ Cut \in [CommandIds -> Names] /\ NoName \notin Names

VARIABLES rows, ctrl, events, call, tries, sent,
          ids, next, link, work, pixels, acks, obeyed, seen, newer

Service == INSTANCE CommandService WITH done <- obeyed, refused <- {}
Node    == INSTANCE ControllerNode

backend == <<rows, ctrl, events, call, tries, sent>>
nodes   == <<ids, next, link, work, pixels, acks, obeyed, seen, newer>>
vars    == <<backend, nodes>>

Init == /\ rows = [cid \in CommandIds |-> Service!NoRow]
        /\ ctrl = [c \in Controllers |-> "unknown"]
        /\ events = [cid \in CommandIds |-> {}]
        /\ call = Service!NoCall
        /\ tries = [cid \in CommandIds |-> 0]
        /\ sent = {}
        /\ Node!Init

-------------------------------------------------------------------------------
\* A status message reaches the service, or somebody reports a node missing.  The
\* firmware never publishes that it is offline, and a status is retained.
Reported == \E c \in Controllers : Service!HandleStatus(c, TRUE) \/ Service!MarkOffline(c)

\* An ACK reaches the service, which knows commands by their whole ids.
AckArrives ==
    \E a \in acks :
        /\ a.name \in CommandIds
        /\ Service!HandleAck([cid |-> a.name, controller |-> a.controller,
                              state |-> a.state])

ServiceStep ==
    /\ \/ Service!Issue \/ Service!Publish \/ AckArrives
       \/ Service!ExpireStaleCommands \/ Service!Tick \/ Reported
    /\ UNCHANGED nodes

\* The payload of a locate command as the service writes it passes every check.
Locate(m) == [cid |-> m.cid, led |-> m.led, verdict |-> "locate"]

NodeStep ==
    /\ \/ \E m \in sent : Node!OnCommand(m.controller, Locate(m))
       \/ \E c \in Controllers : Node!Own(c)
    /\ UNCHANGED backend

Next == ServiceStep \/ NodeStep

Spec == Init /\ [][Next]_vars

-------------------------------------------------------------------------------
(* Properties *)

\* The firmware is a device as the service assumes it: every behaviour of the two
\* together is one of CommandService, so that what is shown of the service holds
\* with real nodes.  In particular a command is confirmed only if its LED was lit,
\* although nodes forget, reset and acknowledge before they act.
RefinesService == Service!Spec

\* Noticing the timeout of one command leaves the others alone: whatever expires
\* has been published for longer than the timeout.
NeverExpiredEarly == Service!NeverExpiredEarly

\* No drawer is lit that nobody asked for: an LED that is on is the LED of a command
\* that was issued to this controller and not refused.
NoDrawerLitUnasked ==
    \A c \in Controllers : \A led \in pixels[c] :
        \E cid \in CommandIds : /\ rows[cid].controller = c /\ rows[cid].led = led
                                /\ rows[cid].status # "absent"
                                /\ rows[cid].error # "offline"
==============================================================================

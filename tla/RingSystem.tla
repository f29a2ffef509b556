------------------------------ MODULE RingSystem ------------------------------
(***************************************************************************)
(* Version 1 of FindIt: the bridge of legacy-v1/backend (mqtt_bridge.py),  *)
(* the endpoint in front of it (main.py), and one of its devices           *)
(* (findit_esp32.ino).  A start claims the device under the bridge's lock, *)
(* publishes without it, and takes the claim back under the lock when the  *)
(* publish failed; meanwhile the device reports, other starts arrive and   *)
(* the dashboard polls.  One action is what one holder of the lock does.   *)
(*                                                                         *)
(* Devices share nothing but the lock and the list of events, so one of    *)
(* them is enough.  Of the list the model keeps the "started" events, the  *)
(* only ones that are taken back, without the cap of 200.  An entry keeps  *)
(* of `updated_at` its age while it matters.                               *)
(***************************************************************************)
EXTENDS Integers, Sequences

CONSTANTS Starts,        \* the start requests, by the event id each one draws
          NoEvent,       \* no event id
          DurationOf,    \* how long each asks the device to ring
          Default,       \* the duration both sides fall back to (15)
          MaxRing,       \* the longest ring a device accepts (120)
          Grace,         \* STALE_GRACE_SEC (10)
          Lateness,      \* the longest the device's loop() blocks, with mqtt.connect in it
          MaxTold,       \* MAX_RING_DURATION (300): the longest duration a report may name
          Foreign,       \* what others than the device publish on its status topic
          MaxFaults      \* bound on lost links, resets, repeated commands, lost and foreign reports

ASSUME StartsAssumption ==
    /\ NoEvent \notin Starts
    /\ DurationOf \in [Starts -> Int]
ASSUME TimesAssumption ==
    /\ Default \in Nat \ {0} /\ MaxRing \in Nat /\ Default <= MaxRing
    /\ Grace \in Nat /\ Lateness \in Nat /\ MaxTold \in Nat /\ MaxFaults \in Nat

VARIABLES
    status,    \* the bridge's entry for the device
    started,   \* the starts that the list of events tells of
    call,      \* how far each start request has come
    snap,      \* the entry try_start will restore
    toDevice,  \* commands on their way to the device
    toBridge,  \* the device's reports, in order
    dev,       \* the device
    faults,    \* how many faults there were
    reported,  \* history: claims since which the device has reported
    missed,    \* history: whether the device's latest report was lost
    posed      \* history: whether a report, not a start, made the entry's claim what it is

bridge == <<status, started, call, snap, reported, posed>>
world  == <<toDevice, toBridge, dev, missed>>
vars   == <<bridge, world, faults>>

-------------------------------------------------------------------------------
(* Types *)

Events == Starts \cup {NoEvent}
Busy   == {"starting", "ringing"}

Unseen == [state |-> "absent", event |-> NoEvent, dur |-> 0, age |-> 0]
Entry  == {Unseen} \cup
    [state : Busy \cup {"unknown", "idle"}, event : Events, dur : Int, age : Nat]

\* A well-formed report.  "absent": it names no state; NoEvent and Kept: it names no
\* event and no duration (_ring_duration), and the entry keeps its own.
Kept   == -1
Report == [state : {"idle", "starting", "ringing", "unknown", "absent"}, event : Events,
           dur : {Kept} \cup 0..MaxTold]

ASSUME ForeignAssumption == Foreign \subseteq Report

Start(e) == [cmd |-> "start", event |-> e]
Stop     == [cmd |-> "stop", event |-> NoEvent]
Message  == {Start(e) : e \in Starts} \cup {Stop}

Device == [state : {"idle", "ringing"}, event : Events, left : Int, link : BOOLEAN]

InFlight == {"claimed", "failed"}
Answers  == {"accepted", "busy", "unavailable"}
Stages   == {"new", "refused", "withdrawn"} \cup InFlight \cup Answers

Init ==
    /\ status = Unseen /\ started = {}
    /\ call = [e \in Starts |-> "new"]
    /\ snap = [e \in Starts |-> Unseen]
    /\ toDevice = {} /\ toBridge = <<>>
    /\ dev = [state |-> "idle", event |-> NoEvent, left |-> 0, link |-> FALSE]
    /\ faults = 0 /\ reported = {} /\ missed = FALSE /\ posed = FALSE

Fault == faults < MaxFaults /\ faults' = faults + 1

-------------------------------------------------------------------------------
(* The busy check.  It also releases a claim that has gone stale.              *)

\* Mutant: no grace.
LimitWithoutGrace(s) == IF s.dur > 0 THEN s.dur ELSE Default

Limit(s) == (IF s.dur > 0 THEN s.dur ELSE Default) + Grace

Stale(s) == s.state \in Busy /\ s.age > Limit(s)
IsBusy(s) == s.state \in Busy /\ ~Stale(s)

Released(s) == [state |-> "idle", event |-> NoEvent, dur |-> 0, age |-> 0]
Checked(s)  == IF Stale(s) THEN Released(s) ELSE s

\* Mutant: reading does not clean up.
PollReadsOnly == Stale(status) /\ UNCHANGED vars

\* The dashboard polls the states of all devices.
Poll ==
    /\ status' = Checked(status)
    /\ UNCHANGED <<started, call, snap, reported, posed, world, faults>>

-------------------------------------------------------------------------------
(* try_start and the endpoint                                                  *)

StartRefused(e) ==
    /\ call[e] = "new" /\ IsBusy(status)
    /\ call' = [call EXCEPT ![e] = "refused"]
    /\ UNCHANGED <<status, started, snap, reported, posed, world, faults>>

StartClaims(e) ==
    /\ call[e] = "new" /\ ~IsBusy(status)
    /\ snap' = [snap EXCEPT ![e] = Checked(status)]
    /\ status' = [state |-> "starting", event |-> e, dur |-> DurationOf[e], age |-> 0]
    /\ started' = started \cup {e}
    /\ call' = [call EXCEPT ![e] = "claimed"]
    /\ posed' = FALSE
    /\ UNCHANGED <<reported, world, faults>>

PublishReturns(e) ==
    /\ call[e] = "claimed"
    /\ toDevice' = toDevice \cup {Start(e)}
    /\ call' = [call EXCEPT ![e] = "accepted"]
    /\ snap' = [snap EXCEPT ![e] = Unseen] /\ reported' = reported \ {e}
    /\ UNCHANGED <<status, started, posed, toBridge, dev, missed, faults>>

\* An error does not tell whether the message has left, nor whether the client, which
\* keeps messages of QoS 1 until they are confirmed, will send it later.
PublishFails(e) ==
    /\ call[e] = "claimed"
    /\ \E left \in SUBSET {Start(e)} : toDevice' = toDevice \cup left
    /\ call' = [call EXCEPT ![e] = "failed"]
    /\ UNCHANGED <<status, started, snap, reported, posed, toBridge, dev, missed, faults>>

\* Mutant: the claim stays.
SettleWithoutRollback(e) ==
    /\ call[e] = "failed"
    /\ started' = started \ {e}
    /\ call' = [call EXCEPT ![e] = "withdrawn"]
    /\ UNCHANGED <<status, snap, reported, posed, world, faults>>

\* Mutant: whatever the entry is by now, the snapshot is restored.
SettleBlindly(e) ==
    /\ call[e] = "failed"
    /\ status' = snap[e]
    /\ started' = started \ {e}
    /\ call' = [call EXCEPT ![e] = "withdrawn"]
    /\ snap' = [snap EXCEPT ![e] = Unseen] /\ reported' = reported \ {e}
    /\ UNCHANGED <<posed, world, faults>>

\* Mutant: the events since the claim go with it.
SettleForgettingOthers(e) ==
    /\ call[e] = "failed"
    /\ status' = IF status.event = e /\ status.state = "starting" THEN snap[e] ELSE status
    /\ started' = {f \in started : call[f] \notin InFlight}
    /\ call' = [call EXCEPT ![e] = "withdrawn"]
    /\ snap' = [snap EXCEPT ![e] = Unseen] /\ reported' = reported \ {e}
    /\ UNCHANGED <<posed, world, faults>>

\* After a failed publish: a confirmation by the device counts for more; otherwise the
\* start withdraws its claim, if it is still there, and its own event.
Settle(e) ==
    LET own == status.event = e IN
    /\ call[e] = "failed"
    /\ IF own /\ status.state = "ringing"
       THEN call' = [call EXCEPT ![e] = "accepted"] /\ UNCHANGED <<status, started>>
       ELSE /\ status' = IF own /\ status.state = "starting" THEN snap[e] ELSE status
            /\ started' = started \ {e}
            /\ call' = [call EXCEPT ![e] = "withdrawn"]
    /\ snap' = [snap EXCEPT ![e] = Unseen] /\ reported' = reported \ {e}
    /\ UNCHANGED <<posed, world, faults>>

\* The endpoint asks again whether the device is busy, to choose between 409 and 503.
Answer(e) ==
    /\ call[e] \in {"refused", "withdrawn"}
    /\ call' = [call EXCEPT ![e] = IF IsBusy(status) THEN "busy" ELSE "unavailable"]
    /\ status' = Checked(status)
    /\ UNCHANGED <<started, snap, reported, posed, world, faults>>

\* send_stop changes nothing but what is under way; a failed one not even that.
SendStop ==
    /\ toDevice' = toDevice \cup {Stop}
    /\ UNCHANGED <<bridge, toBridge, dev, missed, faults>>

-------------------------------------------------------------------------------
(* _handle_status_message, for a well-formed report; any other changes nothing. *)

Ignored(m) == m.state = "unknown" /\ status.state \in Busy

\* Mutant: a report without a state is taken at its word.
MergedAsIs(m) ==
    [state |-> m.state, event |-> IF m.event # NoEvent THEN m.event ELSE status.event,
     dur |-> IF m.dur = Kept THEN status.dur ELSE m.dur, age |-> 0]

\* The report laid over the entry.
Merged(m) ==
    LET known == IF status.state = "absent" THEN "unknown" ELSE status.state
        state == IF m.state = "absent" THEN known ELSE m.state
        event == IF m.event # NoEvent THEN m.event ELSE status.event
        dur   == IF m.dur = Kept THEN status.dur ELSE m.dur
        over  == state = "idle" /\ status.state \in Busy
    IN  [state |-> state, event |-> IF over THEN NoEvent ELSE event,
         dur |-> IF over THEN 0 ELSE dur, age |-> 0]

Take(m) ==
    /\ status' = IF Ignored(m) THEN status ELSE Merged(m)
    /\ reported' = IF m.state \in {"idle", "ringing"}
                   THEN reported \cup {e \in Starts : call[e] \in InFlight} ELSE reported
    /\ posed' = \/ m.state = "starting"
                \/ m.state = "absent" /\ m.event # NoEvent
                \/ posed /\ (m.state = "absent" \/ Ignored(m))
    /\ UNCHANGED <<started, call, snap, toDevice, dev>>

TakeReport ==
    /\ toBridge # <<>>
    /\ Take(Head(toBridge))
    /\ toBridge' = Tail(toBridge)
    /\ UNCHANGED <<missed, faults>>

\* Reports of other publishers on the device's topic.
TakeForeign ==
    /\ Fault
    /\ \E m \in Foreign : Take(m)
    /\ UNCHANGED <<toBridge, missed>>

-------------------------------------------------------------------------------
(* The device                                                                  *)

\* publishStatus, of device d.  Without a connection the report is lost.
PublishStatus(d) ==
    IF d.link
    THEN /\ toBridge' = Append(toBridge, [state |-> d.state, event |-> d.event, dur |-> Kept])
         /\ missed' = FALSE
    ELSE missed' = TRUE /\ UNCHANGED toBridge

RingTime(d) == IF d \in 1..MaxRing THEN d ELSE Default

StartRing(e) ==
    LET d == [dev EXCEPT !.state = "ringing", !.event = e, !.left = RingTime(DurationOf[e])]
    IN  dev' = d /\ PublishStatus(d)

\* The report still names the event; then it is forgotten.
StopRing ==
    /\ PublishStatus([dev EXCEPT !.state = "idle"])
    /\ dev' = [dev EXCEPT !.state = "idle", !.event = NoEvent, !.left = 0]

\* onMessage.  A message may come twice, and is lost without a connection.
OnMessage(m) ==
    /\ m \in toDevice
    /\ \/ toDevice' = toDevice \ {m} /\ UNCHANGED faults
       \/ dev.link /\ Fault /\ UNCHANGED toDevice
    /\ CASE dev.link /\ m.cmd = "start" /\ dev.state = "idle"    -> StartRing(m.event)
         [] dev.link /\ m.cmd = "stop"  /\ dev.state = "ringing" -> StopRing
         [] OTHER -> UNCHANGED <<dev, toBridge, missed>>
    /\ UNCHANGED bridge

Button ==
    /\ dev.state = "ringing" /\ StopRing
    /\ UNCHANGED <<bridge, toDevice, faults>>

Timeout ==
    /\ dev.state = "ringing" /\ dev.left <= 0 /\ StopRing
    /\ UNCHANGED <<bridge, toDevice, faults>>

\* serviceMqtt: a status follows every connection.
Connect ==
    LET d == [dev EXCEPT !.link = TRUE] IN
    /\ ~dev.link /\ dev' = d /\ PublishStatus(d)
    /\ UNCHANGED <<bridge, toDevice, faults>>

-------------------------------------------------------------------------------
(* The world                                                                   *)

LinkDrops ==
    /\ Fault /\ dev.link
    /\ dev' = [dev EXCEPT !.link = FALSE]
    /\ UNCHANGED <<bridge, toDevice, toBridge, missed>>

Reset ==
    /\ Fault
    /\ dev' = [state |-> "idle", event |-> NoEvent, left |-> 0, link |-> FALSE]
    /\ missed' = TRUE
    /\ UNCHANGED <<bridge, toDevice, toBridge>>

LoseReport ==
    /\ Fault /\ toBridge # <<>>
    /\ toBridge' = Tail(toBridge)
    /\ missed' = (missed \/ Len(toBridge) = 1)
    /\ UNCHANGED <<bridge, toDevice, dev>>

\* A ring ends late by no more than loop() blocks, which may be longer than the grace.
Tick ==
    /\ dev.state = "ringing" => dev.left > -Lateness
    /\ dev' = IF dev.state = "ringing" THEN [dev EXCEPT !.left = @ - 1] ELSE dev
    /\ status' = IF IsBusy(status) THEN [status EXCEPT !.age = @ + 1] ELSE status
    /\ UNCHANGED <<started, call, snap, reported, posed, toDevice, toBridge, missed, faults>>

-------------------------------------------------------------------------------
(* Specification *)

TryStart(e) == \/ StartRefused(e) \/ StartClaims(e) \/ PublishReturns(e)
               \/ PublishFails(e) \/ Settle(e) \/ Answer(e)

Bridge  == (\E e \in Starts : TryStart(e)) \/ SendStop \/ Poll \/ TakeReport \/ TakeForeign
TheDevice == (\E m \in Message : OnMessage(m)) \/ Button \/ Timeout \/ Connect
World   == LinkDrops \/ Reset \/ LoseReport \/ Tick

Next == Bridge \/ TheDevice \/ World

Spec == Init /\ [][Next]_vars

\* The dashboard keeps polling, the device's loop and the clock go on.
FairSpec == Spec /\ WF_vars(Poll) /\ WF_vars(Timeout) /\ WF_vars(Tick)

-------------------------------------------------------------------------------
(* Properties *)

\* Every variable has its type.
TypeOK ==
    /\ status \in Entry
    /\ started \subseteq Starts
    /\ call \in [Starts -> Stages]
    /\ snap \in [Starts -> Entry]
    /\ toDevice \subseteq Message
    /\ toBridge \in Seq(Report)
    /\ dev \in Device
    /\ faults \in 0..MaxFaults
    /\ reported \subseteq Starts /\ missed \in BOOLEAN /\ posed \in BOOLEAN

\* "Only this start's own claim is rolled back", and it always is: the device is
\* never left claimed by a start that was refused or has failed - unless a report says
\* "starting", or names another event, which the bridge takes at its word.
NoOrphanClaim ==
    status.state = "starting" /\ ~posed =>
        status.event \in Starts /\ call[status.event] \in InFlight \cup {"accepted"}

\* The log tells of a start exactly while it is under way or accepted: a failed one is
\* taken out, and takes no other with it.
StartedIsTrue ==
    \A e \in Starts :
        e \in started <=> call[e] \in InFlight \cup {"accepted"}

\* A rollback never undoes what the device has reported since the claim, nor the claim
\* of another start, although try_start decides without the lock that it must roll back.
RollbackUndoesNoReport ==
    [][\A e \in Starts :
           call[e] = "failed" /\ call'[e] # "failed" /\ status' # status /\ ~posed =>
           e \notin reported /\ status.event = e /\ status'.state \notin Busy]_vars

\* A device is given up too early only if it was silent: when its latest report has
\* arrived, and it rings, no claim is released before the ring has lasted for what the
\* entry allows and the grace.  So a device that is given up while it rings is late by
\* more than the grace, or the entry no longer knows its duration.
ReleasedInTime ==
    [][/\ Stale(status) /\ status'.state \notin Busy
       /\ toBridge = <<>> /\ ~missed /\ dev.state = "ringing"
       => RingTime(DurationOf[dev.event]) - dev.left
              > (IF status.dur > 0 THEN status.dur ELSE Default) + Grace]_vars

\* Whatever became of the device, its claim is released.
ClaimIsReleased == (status.state \in Busy) ~> (status.state \notin Busy)
==============================================================================

--------------------------- MODULE RingSystemProofs ---------------------------
(***************************************************************************)
(* Claims, rollbacks and releases of version 1: proved for every set of    *)
(* start requests, all durations and every number of faults.               *)
(***************************************************************************)
EXTENDS RingSystem, SequenceTheorems, TLAPS

\* What a rollback restores was not busy.
SnapFree == \A e \in Starts : snap[e].state \notin Busy

\* The history of reports speaks of starts under way.
ReportedInFlight == \A e \in reported : e \in Starts /\ call[e] \in InFlight

\* A report ends the claim: while the entry says "starting" of itself, the device was silent.
ClaimIsUnreported ==
    \A e \in Starts :
        status.state = "starting" /\ ~posed /\ status.event = e /\ call[e] \in InFlight =>
            e \notin reported

\* The bridge's side of the invariant.
ClaimInv ==
    TypeOK /\ SnapFree /\ ReportedInFlight /\ ClaimIsUnreported /\ NoOrphanClaim /\ StartedIsTrue

\* A ring belongs to a start, and has at most its whole time left.
RingIsBounded ==
    dev.state = "ringing" =>
        dev.event \in Starts /\ dev.left <= RingTime(DurationOf[dev.event])

\* If the device's latest report was not lost, the last one under way is true.
LastReportIsTrue ==
    toBridge # <<>> /\ ~missed => toBridge[Len(toBridge)].state = dev.state

\* When nothing is under way or lost, a busy entry is no older than the ring.
EntryFollowsRing ==
    toBridge = <<>> /\ ~missed /\ dev.state = "ringing" /\ status.state \in Busy =>
        status.age <= RingTime(DurationOf[dev.event]) - dev.left

RingInv == ClaimInv /\ RingIsBounded /\ LastReportIsTrue /\ EntryFollowsRing

-------------------------------------------------------------------------------
(* Data *)

LEMMA EntryFields ==
    ASSUME NEW s \in Entry
    PROVE  /\ s.state \in Busy \cup {"absent", "unknown", "idle"}
           /\ s.event \in Events /\ s.dur \in Int /\ s.age \in Nat
  BY DEF Entry, Unseen, Events

LEMMA MakesEntry ==
    ASSUME NEW st \in Busy \cup {"unknown", "idle"}, NEW e \in Events, NEW d \in Int, NEW a \in Nat
    PROVE  [state |-> st, event |-> e, dur |-> d, age |-> a] \in Entry
  BY DEF Entry

LEMMA UnseenIsEntry == Unseen \in Entry /\ Unseen.state \notin Busy
  BY DEF Entry, Unseen, Busy

\* The busy check leaves an entry as it is, or idle.
LEMMA CheckedEntry ==
    ASSUME NEW s \in Entry
    PROVE  /\ Checked(s) \in Entry
           /\ Checked(s) = s \/ (Checked(s).state = "idle" /\ Checked(s).event = NoEvent)
           /\ ~IsBusy(s) => Checked(s).state \notin Busy
  <1>1. Released(s) \in Entry
    BY MakesEntry DEF Released, Events
  <1>2. Released(s).state = "idle" /\ Released(s).event = NoEvent
    BY DEF Released
  <1>. QED
    BY <1>1, <1>2 DEF Checked, IsBusy, Busy

LEMMA ReportFields ==
    ASSUME NEW m \in Report
    PROVE  /\ m.state \in {"idle", "starting", "ringing", "unknown", "absent"}
           /\ m.event \in Events /\ m.dur \in Int
  BY TimesAssumption DEF Report, Events, Kept

\* What a report makes of the entry: "starting" only where it says so, or where the entry
\* was and the report is silent.
LEMMA MergedEntry ==
    ASSUME status \in Entry, NEW m \in Report, ~Ignored(m)
    PROVE  /\ Merged(m) \in Entry /\ Merged(m).age = 0
           /\ Merged(m).state = "starting" /\ m.state # "starting" =>
                  /\ m.state = "absent" /\ status.state = "starting"
                  /\ m.event = NoEvent => Merged(m).event = status.event
  <1>. DEFINE known == IF status.state = "absent" THEN "unknown" ELSE status.state
              state == IF m.state = "absent" THEN known ELSE m.state
              event == IF m.event # NoEvent THEN m.event ELSE status.event
              over  == state = "idle" /\ status.state \in Busy
              ev    == IF over THEN NoEvent ELSE event
              dur   == IF m.dur = Kept THEN status.dur ELSE m.dur
              du    == IF over THEN 0 ELSE dur
  <1>1. Merged(m) = [state |-> state, event |-> ev, dur |-> du, age |-> 0]
    BY DEF Merged
  <1>2. /\ m.state \in {"idle", "starting", "ringing", "unknown", "absent"}
        /\ m.event \in Events /\ m.dur \in Int
    BY ReportFields
  <1>3. /\ status.state \in Busy \cup {"absent", "unknown", "idle"}
        /\ status.event \in Events /\ status.dur \in Int
    BY EntryFields
  <1>4. state \in Busy \cup {"unknown", "idle"}
    BY <1>2, <1>3 DEF Busy
  <1>5. ev \in Events /\ du \in Int
    BY <1>2, <1>3 DEF Events
  <1>6. Merged(m) \in Entry
    BY <1>1, <1>4, <1>5, MakesEntry
  <1>. QED
    BY <1>1, <1>2, <1>3, <1>6 DEF Busy

\* A device never rings for longer than the bridge waits.
LEMMA RingTimeIsAwaited ==
    ASSUME NEW d \in Int
    PROVE  RingTime(d) \in Nat /\ RingTime(d) <= IF d > 0 THEN d ELSE Default
  BY TimesAssumption, SMT DEF RingTime
-------------------------------------------------------------------------------
(* Types *)

\* publishStatus adds one report, or none.
LEMMA PublishType ==
    ASSUME TypeOK, NEW d \in Device, PublishStatus(d)
    PROVE  toBridge' \in Seq(Report) /\ missed' \in BOOLEAN
  <1>1. [state |-> d.state, event |-> d.event, dur |-> Kept] \in Report
    BY DEF Device, Report
  <1>2. CASE /\ toBridge' = Append(toBridge, [state |-> d.state, event |-> d.event, dur |-> Kept])
             /\ missed' = FALSE
    <2>1. toBridge \in Seq(Report)
      BY DEF TypeOK
    <2>2. Append(toBridge, [state |-> d.state, event |-> d.event, dur |-> Kept]) \in Seq(Report)
      BY <1>1, <2>1, AppendProperties
    <2>. QED
      BY <1>2, <2>2
  <1>3. CASE missed' = TRUE /\ toBridge' = toBridge
    BY <1>3 DEF TypeOK
  <1>. QED
    BY <1>2, <1>3 DEF PublishStatus

LEMMA FaultType == ASSUME TypeOK, Fault PROVE faults' \in 0..MaxFaults
  BY TimesAssumption, SMT DEF TypeOK, Fault

LEMMA StopRingType ==
    ASSUME TypeOK, StopRing
    PROVE  dev' \in Device /\ toBridge' \in Seq(Report) /\ missed' \in BOOLEAN
  <1>1. [dev EXCEPT !.state = "idle"] \in Device
    BY DEF TypeOK, Device
  <1>2. dev' \in Device
    <2>1. dev \in Device
      BY DEF TypeOK
    <2>2. dev' = [state |-> "idle", event |-> NoEvent, left |-> 0, link |-> dev.link]
      BY <2>1 DEF StopRing, Device
    <2>3. dev.link \in BOOLEAN
      BY <2>1 DEF Device
    <2>. QED
      BY <2>2, <2>3 DEF Device, Events
  <1>. QED
    BY <1>1, <1>2, PublishType DEF StopRing

LEMMA StartRingType ==
    ASSUME TypeOK, NEW e \in Starts, StartRing(e)
    PROVE  dev' \in Device /\ toBridge' \in Seq(Report) /\ missed' \in BOOLEAN
  <1>1. RingTime(DurationOf[e]) \in Int
    BY StartsAssumption, RingTimeIsAwaited
  <1>2. [dev EXCEPT !.state = "ringing", !.event = e, !.left = RingTime(DurationOf[e])]
            \in Device
    BY <1>1 DEF TypeOK, Device, Events
  <1>. QED
    BY <1>2, PublishType DEF StartRing

LEMMA TakeType ==
    ASSUME TypeOK, NEW m \in Report, Take(m)
    PROVE  status' \in Entry /\ reported' \subseteq Starts /\ posed' \in BOOLEAN
  <1>1. status' \in Entry /\ reported' \subseteq Starts
    BY MergedEntry DEF Take, TypeOK
  <1>2. posed' \in BOOLEAN
    BY DEF Take, TypeOK
  <1>. QED
    BY <1>1, <1>2

LEMMA TypeStep == TypeOK /\ [Next]_vars => TypeOK'
  <1>. SUFFICES ASSUME TypeOK, [Next]_vars PROVE TypeOK'
    OBVIOUS
  <1>. USE DEF TypeOK
  <1>1. ASSUME NEW e \in Starts, StartRefused(e) PROVE TypeOK'
    BY <1>1 DEF StartRefused, world, Stages
  <1>2. ASSUME NEW e \in Starts, StartClaims(e) PROVE TypeOK'
    <2>1. Checked(status) \in Entry
      BY CheckedEntry
    <2>2. status' \in Entry
      BY <1>2, MakesEntry, StartsAssumption DEF StartClaims, Events, Busy
    <2>. QED
      BY <1>2, <2>1, <2>2 DEF StartClaims, world, Stages, InFlight
  <1>3. ASSUME NEW e \in Starts, PublishReturns(e) PROVE TypeOK'
    BY <1>3, UnseenIsEntry DEF PublishReturns, Stages, Answers, Message
  <1>4. ASSUME NEW e \in Starts, PublishFails(e) PROVE TypeOK'
    BY <1>4 DEF PublishFails, Stages, InFlight, Message
  <1>5. ASSUME NEW e \in Starts, Settle(e) PROVE TypeOK'
    <2>1. status' \in Entry /\ started' \subseteq Starts
      BY <1>5 DEF Settle
    <2>2. call' \in [Starts -> Stages]
      BY <1>5 DEF Settle, Stages, Answers
    <2>. QED
      BY <1>5, <2>1, <2>2, UnseenIsEntry DEF Settle, world
  <1>6. ASSUME NEW e \in Starts, Answer(e) PROVE TypeOK'
    <2>1. call' \in [Starts -> Stages]
      BY <1>6 DEF Answer, Stages, Answers
    <2>. QED
      BY <1>6, <2>1, CheckedEntry DEF Answer, world
  <1>7. CASE SendStop
    BY <1>7 DEF SendStop, bridge, Message
  <1>8. CASE Poll
    BY <1>8, CheckedEntry DEF Poll, world
  <1>9. CASE TakeReport
    <2>1. Head(toBridge) \in Report /\ Tail(toBridge) \in Seq(Report)
      BY <1>9 DEF TakeReport
    <2>. QED
      BY <1>9, <2>1, TakeType DEF TakeReport, Take
  <1>10. CASE TakeForeign
    <2>1. PICK m \in Foreign : Take(m)
      BY <1>10 DEF TakeForeign
    <2>2. m \in Report
      BY ForeignAssumption
    <2>. QED
      BY <1>10, <2>1, <2>2, TakeType, FaultType DEF TakeForeign, Take
  <1>11. ASSUME NEW m \in Message, OnMessage(m) PROVE TypeOK'
    <2>1. toDevice' \subseteq Message
      BY <1>11 DEF OnMessage
    <2>2. faults' \in 0..MaxFaults
      BY <1>11, FaultType DEF OnMessage
    <2>3. dev' \in Device /\ toBridge' \in Seq(Report) /\ missed' \in BOOLEAN
      <3>1. m.cmd = "start" => m.event \in Starts
        BY DEF Message, Start, Stop
      <3>. QED
        BY <1>11, <3>1, StartRingType, StopRingType DEF OnMessage
    <2>. QED
      BY <1>11, <2>1, <2>2, <2>3 DEF OnMessage, bridge
  <1>12. CASE Button
    BY <1>12, StopRingType DEF Button, bridge
  <1>13. CASE Timeout
    BY <1>13, StopRingType DEF Timeout, bridge
  <1>14. CASE Connect
    <2>1. [dev EXCEPT !.link = TRUE] \in Device
      BY DEF Device
    <2>. QED
      BY <1>14, <2>1, PublishType DEF Connect, bridge
  <1>15. CASE LinkDrops
    BY <1>15, FaultType DEF LinkDrops, bridge, Device
  <1>16. CASE Reset
    BY <1>16, FaultType DEF Reset, bridge, Device, Events
  <1>17. CASE LoseReport
    BY <1>17, FaultType DEF LoseReport, bridge
  <1>18. CASE Tick
    <2>1. dev' \in Device
      BY <1>18 DEF Tick, Device
    <2>2. status' \in Entry
      <3>1. CASE ~IsBusy(status)
        BY <1>18, <3>1 DEF Tick
      <3>2. CASE IsBusy(status)
        <4>1. status \in [state : Busy \cup {"unknown", "idle"}, event : Events, dur : Int, age : Nat]
          BY <3>2 DEF IsBusy, Entry, Unseen, Busy
        <4>2. status' = [status EXCEPT !.age = @ + 1]
          BY <1>18, <3>2 DEF Tick
        <4>. QED
          BY <4>1, <4>2 DEF Entry
      <3>. QED
        BY <3>1, <3>2
    <2>. QED
      BY <1>18, <2>1, <2>2 DEF Tick
  <1>19. CASE UNCHANGED vars
    BY <1>19 DEF vars, bridge, world
  <1>. QED
    BY <1>1, <1>2, <1>3, <1>4, <1>5, <1>6, <1>7, <1>8, <1>9, <1>10, <1>11, <1>12, <1>13, <1>14,
       <1>15, <1>16, <1>17, <1>18, <1>19 DEF Next, Bridge, TheDevice, World, TryStart
-------------------------------------------------------------------------------
(* Claims *)

\* What the steps of the bridge preserve besides the types.
Claims == SnapFree /\ ReportedInFlight /\ ClaimIsUnreported /\ NoOrphanClaim /\ StartedIsTrue

\* A busy check takes no claim away from a start, and gives none.
LEMMA CheckKeepsClaims ==
    ASSUME TypeOK, status' = Checked(status), status'.state = "starting"
    PROVE  status' = status
  BY CheckedEntry DEF TypeOK

\* The history of a start that ends.
LEMMA EndKeepsHistory ==
    ASSUME ClaimInv, NEW e \in Starts, NEW a \in Stages \ InFlight,
           snap' = [snap EXCEPT ![e] = Unseen], reported' = reported \ {e},
           call' = [call EXCEPT ![e] = a]
    PROVE  SnapFree' /\ ReportedInFlight'
  <1>1. SnapFree'
    BY UnseenIsEntry DEF ClaimInv, TypeOK, SnapFree
  <1>2. \A f \in Starts \ {e} : call'[f] = call[f]
    BY DEF ClaimInv, TypeOK
  <1>3. ReportedInFlight'
    BY <1>2 DEF ClaimInv, ReportedInFlight
  <1>. QED
    BY <1>1, <1>3

\* What a report does to the claims, whoever has sent it.
LEMMA TakeKeepsClaims ==
    ASSUME ClaimInv, NEW m \in Report, Take(m)
    PROVE  Claims'
  <1>1. status \in Entry /\ status' = IF Ignored(m) THEN status ELSE Merged(m)
    BY DEF ClaimInv, TypeOK, Take
  <1>2. status'.state = "starting" /\ ~posed' =>
            /\ status.state = "starting" /\ ~posed /\ status'.event = status.event
            /\ reported' = reported
    <2>. SUFFICES ASSUME status'.state = "starting", ~posed'
                  PROVE  /\ status.state = "starting" /\ ~posed /\ status'.event = status.event
                         /\ reported' = reported
      OBVIOUS
    <2>1. /\ m.state # "starting" /\ (m.state = "absent" => m.event = NoEvent)
          /\ m.state = "absent" \/ Ignored(m) => ~posed
      BY DEF Take
    <2>2. CASE Ignored(m)
      <3>1. m.state = "unknown" /\ status' = status
        BY <1>1, <2>2 DEF Ignored
      <3>. QED
        BY <2>1, <2>2, <3>1 DEF Take
    <2>3. CASE ~Ignored(m)
      <3>1. m.state = "absent" /\ status.state = "starting"
        BY <1>1, <2>1, <2>3, MergedEntry
      <3>. QED
        BY <1>1, <2>1, <2>3, <3>1, MergedEntry DEF Take
    <2>. QED
      BY <2>2, <2>3
  <1>3. ReportedInFlight'
    BY DEF ClaimInv, ReportedInFlight, Take
  <1>4. ClaimIsUnreported' /\ NoOrphanClaim'
    BY <1>2 DEF ClaimInv, ClaimIsUnreported, NoOrphanClaim, Take
  <1>5. SnapFree' /\ StartedIsTrue'
    BY DEF ClaimInv, SnapFree, StartedIsTrue, Take
  <1>. QED
    BY <1>3, <1>4, <1>5 DEF Claims

LEMMA ClaimStep == ClaimInv /\ [Next]_vars => ClaimInv'
  <1>. SUFFICES ASSUME ClaimInv, [Next]_vars PROVE ClaimInv'
    OBVIOUS
  <1>0. TypeOK'
    BY TypeStep DEF ClaimInv
  <1>. SUFFICES Claims'
    BY <1>0 DEF ClaimInv, Claims
  <1>. USE DEF Claims, ClaimInv
  <1>1. ASSUME NEW e \in Starts, StartRefused(e) PROVE Claims'
    <2>1. /\ status' = status /\ snap' = snap /\ reported' = reported /\ posed' = posed
          /\ started' = started
          /\ call[e] = "new" /\ call' = [call EXCEPT ![e] = "refused"]
      BY <1>1 DEF StartRefused
    <2>2. call[e] \notin InFlight \cup {"accepted"} /\ call'[e] \notin InFlight \cup {"accepted"}
      BY <2>1 DEF TypeOK, InFlight
    <2>3. \A f \in Starts \ {e} : call'[f] = call[f]
      BY <2>1 DEF TypeOK
    <2>4. ReportedInFlight' /\ ClaimIsUnreported' /\ NoOrphanClaim'
      BY <2>1, <2>2, <2>3 DEF ReportedInFlight, ClaimIsUnreported, NoOrphanClaim
    <2>5. SnapFree' /\ StartedIsTrue'
      BY <2>1, <2>2, <2>3 DEF SnapFree, StartedIsTrue
    <2>. QED
      BY <2>4, <2>5
  <1>2. ASSUME NEW e \in Starts, StartClaims(e) PROVE Claims'
    <2>1. /\ call[e] = "new" /\ call' = [call EXCEPT ![e] = "claimed"]
          /\ snap' = [snap EXCEPT ![e] = Checked(status)] /\ Checked(status).state \notin Busy
          /\ status'.state = "starting" /\ status'.event = e
          /\ started' = started \cup {e} /\ reported' = reported
      BY <1>2, CheckedEntry DEF StartClaims, TypeOK
    <2>2. e \notin reported /\ call'[e] \in InFlight
      BY <2>1 DEF TypeOK, ReportedInFlight, InFlight
    <2>3. \A f \in Starts \ {e} : call'[f] = call[f]
      BY <2>1 DEF TypeOK
    <2>4. ReportedInFlight' /\ ClaimIsUnreported' /\ NoOrphanClaim'
      BY <2>1, <2>2, <2>3 DEF ReportedInFlight, ClaimIsUnreported, NoOrphanClaim
    <2>5. SnapFree' /\ StartedIsTrue'
      BY <2>1, <2>2, <2>3 DEF SnapFree, StartedIsTrue, TypeOK
    <2>. QED
      BY <2>4, <2>5
  <1>3. ASSUME NEW e \in Starts, PublishReturns(e) PROVE Claims'
    <2>1. /\ call[e] = "claimed" /\ call' = [call EXCEPT ![e] = "accepted"]
          /\ snap' = [snap EXCEPT ![e] = Unseen] /\ reported' = reported \ {e} /\ posed' = posed
          /\ status' = status /\ started' = started
      BY <1>3 DEF PublishReturns
    <2>2. call[e] \in InFlight /\ call'[e] = "accepted"
      BY <2>1 DEF TypeOK, InFlight
    <2>3. \A f \in Starts \ {e} : call'[f] = call[f]
      BY <2>1 DEF TypeOK
    <2>4. SnapFree' /\ ReportedInFlight'
      BY <2>1, EndKeepsHistory DEF Stages, Answers, InFlight
    <2>5. ClaimIsUnreported' /\ NoOrphanClaim' /\ StartedIsTrue'
      BY <2>1, <2>2, <2>3 DEF ClaimIsUnreported, NoOrphanClaim, StartedIsTrue, InFlight
    <2>. QED
      BY <2>4, <2>5
  <1>4. ASSUME NEW e \in Starts, PublishFails(e) PROVE Claims'
    <2>1. /\ call[e] = "claimed" /\ call' = [call EXCEPT ![e] = "failed"]
          /\ snap' = snap /\ reported' = reported /\ posed' = posed
          /\ status' = status /\ started' = started
      BY <1>4 DEF PublishFails
    <2>2. call[e] \in InFlight /\ call'[e] \in InFlight
      BY <2>1 DEF TypeOK, InFlight
    <2>3. \A f \in Starts \ {e} : call'[f] = call[f]
      BY <2>1 DEF TypeOK
    <2>4. ReportedInFlight' /\ ClaimIsUnreported' /\ NoOrphanClaim'
      BY <2>1, <2>2, <2>3 DEF ReportedInFlight, ClaimIsUnreported, NoOrphanClaim, TypeOK
    <2>5. SnapFree' /\ StartedIsTrue'
      BY <2>1, <2>2, <2>3 DEF SnapFree, StartedIsTrue
    <2>. QED
      BY <2>4, <2>5
  <1>5. ASSUME NEW e \in Starts, Settle(e) PROVE Claims'
    <2>1. /\ call[e] = "failed" /\ call[e] \in InFlight /\ snap[e].state \notin Busy
          /\ snap' = [snap EXCEPT ![e] = Unseen] /\ reported' = reported \ {e} /\ posed' = posed
      BY <1>5 DEF Settle, InFlight, SnapFree
    <2>2. CASE status.event = e /\ status.state = "ringing"
      <3>1. call' = [call EXCEPT ![e] = "accepted"] /\ status' = status /\ started' = started
        BY <1>5, <2>2 DEF Settle
      <3>2. call'[e] = "accepted" /\ \A f \in Starts \ {e} : call'[f] = call[f]
        BY <3>1 DEF TypeOK
      <3>3. SnapFree' /\ ReportedInFlight'
        BY <2>1, <3>1, EndKeepsHistory DEF Stages, Answers, InFlight
      <3>4. ClaimIsUnreported' /\ NoOrphanClaim' /\ StartedIsTrue'
        BY <2>1, <3>1, <3>2 DEF ClaimIsUnreported, NoOrphanClaim, StartedIsTrue, InFlight
      <3>. QED
        BY <3>3, <3>4
    <2>3. CASE ~(status.event = e /\ status.state = "ringing")
      <3>1. /\ call' = [call EXCEPT ![e] = "withdrawn"] /\ started' = started \ {e}
            /\ status' = IF status.event = e /\ status.state = "starting" THEN snap[e] ELSE status
        BY <1>5, <2>3 DEF Settle
      <3>2. call'[e] = "withdrawn" /\ \A f \in Starts \ {e} : call'[f] = call[f]
        BY <3>1 DEF TypeOK
      <3>3. SnapFree' /\ ReportedInFlight'
        BY <2>1, <3>1, EndKeepsHistory DEF Stages, InFlight
      <3>4. status'.state = "starting" => status' = status /\ status.event # e
        BY <2>1, <3>1 DEF Busy
      <3>5. ClaimIsUnreported' /\ NoOrphanClaim'
        BY <2>1, <3>2, <3>4 DEF ClaimIsUnreported, NoOrphanClaim
      <3>6. StartedIsTrue'
        BY <3>1, <3>2 DEF StartedIsTrue, InFlight
      <3>. QED
        BY <3>3, <3>5, <3>6
    <2>. QED
      BY <2>2, <2>3
  <1>6. ASSUME NEW e \in Starts, Answer(e) PROVE Claims'
    <2>1. /\ call[e] \in {"refused", "withdrawn"} /\ status' = Checked(status)
          /\ snap' = snap /\ reported' = reported /\ posed' = posed
          /\ started' = started
      BY <1>6 DEF Answer
    <2>2. \E a \in {"busy", "unavailable"} : call' = [call EXCEPT ![e] = a]
      BY <1>6 DEF Answer
    <2>3. call[e] \notin InFlight \cup {"accepted"} /\ call'[e] \notin InFlight \cup {"accepted"}
      BY <2>1, <2>2 DEF TypeOK, InFlight
    <2>4. \A f \in Starts \ {e} : call'[f] = call[f]
      BY <2>2 DEF TypeOK
    <2>5. ReportedInFlight' /\ ClaimIsUnreported' /\ NoOrphanClaim'
      BY <2>1, <2>3, <2>4, CheckKeepsClaims
         DEF ReportedInFlight, ClaimIsUnreported, NoOrphanClaim
    <2>6. SnapFree' /\ StartedIsTrue'
      BY <2>1, <2>3, <2>4 DEF SnapFree, StartedIsTrue
    <2>. QED
      BY <2>5, <2>6
  <1>7. CASE Poll
    <2>1. /\ status' = Checked(status) /\ snap' = snap /\ reported' = reported /\ posed' = posed
          /\ started' = started /\ call' = call
      BY <1>7 DEF Poll
    <2>. QED
      BY <2>1, CheckKeepsClaims
         DEF SnapFree, ReportedInFlight, ClaimIsUnreported, NoOrphanClaim, StartedIsTrue
  <1>8. CASE TakeReport
    <2>1. Head(toBridge) \in Report /\ Take(Head(toBridge))
      BY <1>8 DEF TakeReport, TypeOK
    <2>. QED
      BY <2>1, TakeKeepsClaims
  <1>9. CASE TakeForeign
    BY <1>9, ForeignAssumption, TakeKeepsClaims DEF TakeForeign
  <1>10. CASE Tick
    <2>1. /\ status'.state = status.state /\ status'.event = status.event
          /\ snap' = snap /\ reported' = reported /\ posed' = posed
          /\ started' = started /\ call' = call
      <3>1. status' = status \/ status' = [status EXCEPT !.age = @ + 1]
        BY <1>10 DEF Tick
      <3>2. status \in Entry
        BY DEF TypeOK
      <3>. QED
        BY <1>10, <3>1, <3>2 DEF Tick, Entry, Unseen
    <2>. QED
      BY <2>1 DEF SnapFree, ReportedInFlight, ClaimIsUnreported, NoOrphanClaim, StartedIsTrue
  <1>11. CASE UNCHANGED bridge
    BY <1>11
       DEF bridge, SnapFree, ReportedInFlight, ClaimIsUnreported, NoOrphanClaim, StartedIsTrue
  <1>12. SendStop \/ TheDevice \/ LinkDrops \/ Reset \/ LoseReport \/ UNCHANGED vars
             => UNCHANGED bridge
    BY DEF SendStop, TheDevice, OnMessage, Button, Timeout, Connect, LinkDrops, Reset,
           LoseReport, vars
  <1>. QED
    BY <1>1, <1>2, <1>3, <1>4, <1>5, <1>6, <1>7, <1>8, <1>9, <1>10, <1>11, <1>12
       DEF Next, Bridge, World, TryStart
-------------------------------------------------------------------------------
(* Rings *)

\* What a step does to the device and to the reports, seen from the device.
Rings == RingIsBounded /\ LastReportIsTrue /\ EntryFollowsRing

\* A report that is published is the last one under way, and tells of d.
LEMMA PublishedIsLast ==
    ASSUME TypeOK, NEW d \in Device, PublishStatus(d), ~missed'
    PROVE  /\ toBridge' # <<>>
           /\ toBridge'[Len(toBridge')].state = d.state
  <1>. DEFINE r == [state |-> d.state, event |-> d.event, dur |-> Kept]
  <1>1. toBridge' = Append(toBridge, r)
    BY DEF PublishStatus
  <1>2. r \in Report /\ toBridge \in Seq(Report)
    BY DEF Device, Report, TypeOK
  <1>3. Len(toBridge) \in Nat
    BY <1>2
  <1>4. toBridge' # <<>> /\ Len(toBridge') = Len(toBridge) + 1
        /\ toBridge'[Len(toBridge) + 1] = r
    BY <1>1, <1>2, AppendProperties
  <1>. QED
    BY <1>3, <1>4

\* The ends of a queue of reports.
LEMMA Ends ==
    ASSUME NEW q \in Seq(Report), q # <<>>
    PROVE  /\ Head(q) = q[1] /\ Len(q) \in Nat \ {0}
           /\ Tail(q) = <<>> <=> Len(q) = 1
           /\ Tail(q) # <<>> => Tail(q)[Len(Tail(q))] = q[Len(q)]
  <1>1. Len(q) \in Nat \ {0} /\ Len(Tail(q)) = Len(q) - 1 /\ Tail(q) \in Seq(Report)
    BY EmptySeq
  <1>2. Tail(q) = <<>> <=> Len(Tail(q)) = 0
    BY <1>1, EmptySeq
  <1>. QED
    BY <1>1, <1>2

LEMMA StopRingKeepsRings ==
    ASSUME TypeOK, StopRing
    PROVE  Rings'
  <1>1. dev \in Device /\ [dev EXCEPT !.state = "idle"] \in Device
    BY DEF TypeOK, Device
  <1>2. dev'.state = "idle" /\ [dev EXCEPT !.state = "idle"].state = "idle"
    BY <1>1 DEF StopRing, Device
  <1>3. ~missed' => toBridge' # <<>> /\ toBridge'[Len(toBridge')].state = "idle"
    BY <1>1, <1>2, PublishedIsLast DEF StopRing
  <1>. QED
    BY <1>2, <1>3 DEF Rings, RingIsBounded, LastReportIsTrue, EntryFollowsRing

LEMMA StartRingKeepsRings ==
    ASSUME TypeOK, NEW e \in Starts, StartRing(e)
    PROVE  Rings'
  <1>. DEFINE t == RingTime(DurationOf[e])
              d == [dev EXCEPT !.state = "ringing", !.event = e, !.left = t]
  <1>1. t \in Nat
    BY StartsAssumption, RingTimeIsAwaited
  <1>2. dev \in Device
    BY DEF TypeOK
  <1>3. d \in Device /\ d.state = "ringing" /\ d.event = e /\ d.left = t
    <2>1. t \in Int
      BY <1>1
    <2>. HIDE DEF t
    <2>2. d \in Device
      BY <1>2, <2>1 DEF Device, Events
    <2>3. d.state = "ringing"
      BY <1>2 DEF Device
    <2>4. d.event = e
      BY <1>2 DEF Device
    <2>5. d.left = t
      BY <1>2 DEF Device
    <2>. QED
      BY <2>2, <2>3, <2>4, <2>5
  <1>4. dev' = d /\ PublishStatus(d)
    BY DEF StartRing
  <1>5. ~missed' => /\ toBridge' # <<>> /\ toBridge'[Len(toBridge')].state = "ringing"
    BY <1>3, <1>4, PublishedIsLast
  <1>6. t <= t
    BY <1>1, SMT
  <1>. QED
    BY <1>3, <1>4, <1>5, <1>6 DEF Rings, RingIsBounded, LastReportIsTrue, EntryFollowsRing

LEMMA RingStep == RingInv /\ [Next]_vars => RingInv'
  <1>. SUFFICES ASSUME RingInv, [Next]_vars PROVE RingInv'
    OBVIOUS
  <1>0. ClaimInv' /\ TypeOK /\ TypeOK'
    BY ClaimStep DEF RingInv, ClaimInv
  <1>. SUFFICES Rings'
    BY <1>0 DEF RingInv, Rings
  <1>. USE DEF RingInv, Rings
  \* An entry that is busy was so before, or is new.
  <1>1. ASSUME UNCHANGED <<dev, toBridge, missed>>,
               status'.state \in Busy =>
                   \/ status.state \in Busy /\ status'.age = status.age
                   \/ status'.age = 0
        PROVE  Rings'
    <2>1. RingIsBounded' /\ LastReportIsTrue'
      BY <1>1 DEF RingIsBounded, LastReportIsTrue
    <2>2. EntryFollowsRing'
      <3>1. SUFFICES ASSUME toBridge = <<>>, ~missed, dev.state = "ringing", status'.state \in Busy
                     PROVE  status'.age <= RingTime(DurationOf[dev.event]) - dev.left
        BY <1>1 DEF EntryFollowsRing
      <3>2. status.state \in Busy => status.age <= RingTime(DurationOf[dev.event]) - dev.left
        BY <3>1 DEF EntryFollowsRing
      <3>3. dev.left <= RingTime(DurationOf[dev.event]) /\ dev.event \in Starts
        BY <3>1 DEF RingIsBounded
      <3>4. RingTime(DurationOf[dev.event]) \in Int
        BY <3>3, StartsAssumption, RingTimeIsAwaited
      <3>5. dev.left \in Int
        BY <1>0 DEF TypeOK, Device
      <3>6. 0 <= RingTime(DurationOf[dev.event]) - dev.left
        BY <3>3, <3>4, <3>5, SMT
      <3>. QED
        BY <1>1, <3>1, <3>2, <3>6
    <2>. QED
      BY <2>1, <2>2
  <1>2. ASSUME NEW e \in Starts, TryStart(e) PROVE Rings'
    <2>1. UNCHANGED <<dev, toBridge, missed>>
      BY <1>2 DEF TryStart, StartRefused, StartClaims, PublishReturns, PublishFails, Settle,
                  Answer, world
    <2>2. CASE StartClaims(e)
      <3>1. status'.age = 0
        BY <2>2 DEF StartClaims
      <3>. QED
        BY <1>1, <2>1, <3>1
    <2>3. CASE Settle(e)
      <3>1. status' = status \/ status' = snap[e]
        BY <2>3 DEF Settle
      <3>2. snap[e].state \notin Busy
        BY DEF ClaimInv, SnapFree
      <3>. QED
        BY <1>1, <2>1, <3>1, <3>2
    <2>4. CASE Answer(e)
      <3>1. status' = Checked(status)
        BY <2>4 DEF Answer
      <3>2. status'.state \in Busy => status' = status
        BY <1>0, <3>1, CheckedEntry DEF TypeOK, Busy
      <3>. QED
        BY <1>1, <2>1, <3>2
    <2>5. CASE StartRefused(e) \/ PublishReturns(e) \/ PublishFails(e)
      <3>1. status' = status
        BY <2>5 DEF StartRefused, PublishReturns, PublishFails
      <3>. QED
        BY <1>1, <2>1, <3>1
    <2>. QED
      BY <1>2, <2>2, <2>3, <2>4, <2>5 DEF TryStart
  <1>3. CASE Poll
    <2>1. status' = Checked(status) /\ UNCHANGED <<dev, toBridge, missed>>
      BY <1>3 DEF Poll, world
    <2>2. status'.state \in Busy => status' = status
      BY <1>0, <2>1, CheckedEntry DEF TypeOK, Busy
    <2>. QED
      BY <1>1, <2>1, <2>2
  <1>4. CASE TakeForeign
    <2>1. PICK m \in Foreign : Take(m)
      BY <1>4 DEF TakeForeign
    <2>2. UNCHANGED <<dev, toBridge, missed>>
      BY <1>4, <2>1 DEF TakeForeign, Take
    <2>3. status' = status \/ (~Ignored(m) /\ status' = Merged(m))
      BY <2>1 DEF Take
    <2>4. ~Ignored(m) => Merged(m).age = 0
      BY <1>0, ForeignAssumption, MergedEntry DEF TypeOK
    <2>. QED
      BY <1>1, <2>2, <2>3, <2>4
  <1>5. CASE TakeReport
    <2>1. /\ toBridge \in Seq(Report) /\ toBridge # <<>> /\ Head(toBridge) \in Report
          /\ toBridge' = Tail(toBridge) /\ Take(Head(toBridge)) /\ dev' = dev /\ missed' = missed
      BY <1>0, <1>5 DEF TakeReport, Take, TypeOK
    <2>2. RingIsBounded'
      BY <2>1 DEF RingIsBounded
    <2>3. toBridge' # <<>> => toBridge'[Len(toBridge')] = toBridge[Len(toBridge)]
      BY <2>1, Ends
    <2>4. LastReportIsTrue'
      BY <2>1, <2>3 DEF LastReportIsTrue
    <2>5. toBridge' = <<>> => Head(toBridge) = toBridge[Len(toBridge)]
      BY <2>1, Ends
    <2>6. ASSUME toBridge' = <<>>, ~missed', dev.state = "ringing"
          PROVE  status'.age = 0
      <3>1. Head(toBridge).state = "ringing"
        BY <2>1, <2>5, <2>6 DEF LastReportIsTrue
      <3>2. ~Ignored(Head(toBridge)) /\ status' = Merged(Head(toBridge))
        BY <2>1, <3>1 DEF Ignored, Take
      <3>. QED
        BY <1>0, <2>1, <3>2, MergedEntry DEF TypeOK
    <2>7. ASSUME dev.state = "ringing" PROVE 0 <= RingTime(DurationOf[dev.event]) - dev.left
      <3>1. dev.event \in Starts /\ dev.left <= RingTime(DurationOf[dev.event])
        BY <2>7 DEF RingIsBounded
      <3>2. RingTime(DurationOf[dev.event]) \in Int /\ dev.left \in Int
        BY <1>0, <3>1, StartsAssumption, RingTimeIsAwaited DEF TypeOK, Device
      <3>. QED
        BY <3>1, <3>2, SMT
    <2>8. EntryFollowsRing'
      BY <2>1, <2>6, <2>7 DEF EntryFollowsRing
    <2>. QED
      BY <2>2, <2>4, <2>8
  <1>6. ASSUME NEW m \in Message, OnMessage(m) PROVE Rings'
    <2>1. CASE StopRing
      BY <1>0, <2>1, StopRingKeepsRings
    <2>2. ASSUME NEW e \in Starts, StartRing(e) PROVE Rings'
      BY <1>0, <2>2, StartRingKeepsRings
    <2>3. CASE UNCHANGED <<dev, toBridge, missed>>
      BY <1>1, <1>6, <2>3 DEF OnMessage, bridge
    <2>4. m.cmd = "start" => m.event \in Starts
      BY DEF Message, Start, Stop
    <2>. QED
      BY <1>6, <2>1, <2>2, <2>3, <2>4 DEF OnMessage
  <1>7. CASE Button \/ Timeout
    BY <1>0, <1>7, StopRingKeepsRings DEF Button, Timeout
  <1>8. CASE Connect
    <2>. DEFINE d == [dev EXCEPT !.link = TRUE]
    <2>1. dev' = d /\ PublishStatus(d) /\ status' = status
      BY <1>8 DEF Connect, bridge
    <2>2. d \in Device /\ d.state = dev.state /\ d.event = dev.event /\ d.left = dev.left
      BY <1>0 DEF TypeOK, Device
    <2>3. ~missed' => /\ toBridge' # <<>> /\ toBridge'[Len(toBridge')].state = d.state
      BY <1>0, <2>1, <2>2, PublishedIsLast
    <2>. QED
      BY <2>1, <2>2, <2>3 DEF RingIsBounded, LastReportIsTrue, EntryFollowsRing
  <1>9. CASE LinkDrops
    <2>1. /\ dev' = [dev EXCEPT !.link = FALSE]
          /\ status' = status /\ toBridge' = toBridge /\ missed' = missed
      BY <1>9 DEF LinkDrops, bridge
    <2>2. dev'.state = dev.state /\ dev'.event = dev.event /\ dev'.left = dev.left
      BY <1>0, <2>1 DEF TypeOK, Device
    <2>. QED
      BY <2>1, <2>2 DEF RingIsBounded, LastReportIsTrue, EntryFollowsRing
  <1>10. CASE Reset
    <2>1. dev'.state = "idle" /\ missed' = TRUE
      BY <1>10 DEF Reset
    <2>. QED
      BY <2>1 DEF RingIsBounded, LastReportIsTrue, EntryFollowsRing
  <1>11. CASE LoseReport
    <2>1. /\ toBridge \in Seq(Report) /\ toBridge # <<>> /\ toBridge' = Tail(toBridge)
          /\ missed' = (missed \/ Len(toBridge) = 1) /\ dev' = dev /\ status' = status
      BY <1>0, <1>11 DEF LoseReport, bridge, TypeOK
    <2>2. /\ toBridge' # <<>> => toBridge'[Len(toBridge')] = toBridge[Len(toBridge)]
          /\ toBridge' = <<>> => Len(toBridge) = 1
      BY <2>1, Ends
    <2>. QED
      BY <2>1, <2>2 DEF RingIsBounded, LastReportIsTrue, EntryFollowsRing
  <1>12. CASE Tick
    <2>1. /\ toBridge' = toBridge /\ missed' = missed
          /\ status' = IF IsBusy(status) THEN [status EXCEPT !.age = @ + 1] ELSE status
          /\ dev' = IF dev.state = "ringing" THEN [dev EXCEPT !.left = @ - 1] ELSE dev
      BY <1>12 DEF Tick
    <2>2. dev \in Device /\ status \in Entry /\ dev.left \in Int /\ status.age \in Nat
      BY <1>0, EntryFields DEF TypeOK, Device
    <2>3. CASE dev.state # "ringing"
      <3>1. dev' = dev
        BY <2>1, <2>3
      <3>. QED
        BY <2>1, <2>3, <3>1 DEF RingIsBounded, LastReportIsTrue, EntryFollowsRing
    <2>4. CASE dev.state = "ringing"
      <3>1. /\ dev'.state = "ringing" /\ dev'.event = dev.event /\ dev'.left = dev.left - 1
        BY <2>1, <2>2, <2>4 DEF Device
      <3>2. status'.state = status.state /\ status'.event = status.event
            /\ (status'.age = status.age \/ status'.age = status.age + 1)
        BY <2>1, <2>2 DEF Entry, Unseen
      <3>3. RingTime(DurationOf[dev.event]) \in Int
        BY <2>4, StartsAssumption, RingTimeIsAwaited DEF RingIsBounded
      <3>5. RingIsBounded'
        BY <2>2, <2>4, <3>1, <3>3 DEF RingIsBounded
      <3>6. LastReportIsTrue'
        BY <2>1, <2>4, <3>1 DEF LastReportIsTrue
      <3>7. EntryFollowsRing'
        BY <2>1, <2>2, <2>4, <3>1, <3>2, <3>3 DEF EntryFollowsRing
      <3>. QED
        BY <3>5, <3>6, <3>7
    <2>. QED
      BY <2>3, <2>4
  <1>13. CASE SendStop \/ UNCHANGED vars
    <2>1. UNCHANGED <<status, dev, toBridge, missed>>
      BY <1>13 DEF SendStop, vars, bridge, world
    <2>. QED
      BY <1>1, <2>1
  <1>. QED
    BY <1>2, <1>3, <1>4, <1>5, <1>6, <1>7, <1>8, <1>9, <1>10, <1>11, <1>12, <1>13
       DEF Next, Bridge, TheDevice, World

-------------------------------------------------------------------------------
(* Theorems *)

LEMMA InitInv == Init => RingInv
  <1>. SUFFICES ASSUME Init PROVE RingInv
    OBVIOUS
  <1>1. TypeOK
    <2>1. dev \in Device
      BY DEF Init, Device, Events
    <2>2. toBridge \in Seq(Report)
      BY EmptySeq DEF Init
    <2>3. call \in [Starts -> Stages] /\ snap \in [Starts -> Entry]
      BY UnseenIsEntry DEF Init, Stages
    <2>4. faults \in 0..MaxFaults
      BY TimesAssumption, SMT DEF Init
    <2>. QED
      BY <2>1, <2>2, <2>3, <2>4, UnseenIsEntry DEF Init, TypeOK
  <1>2. Claims
    BY UnseenIsEntry DEF Init, Claims, SnapFree, ReportedInFlight, ClaimIsUnreported,
       NoOrphanClaim, StartedIsTrue, Unseen, InFlight, Busy
  <1>3. Rings
    BY DEF Init, Rings, RingIsBounded, LastReportIsTrue, EntryFollowsRing
  <1>. QED
    BY <1>1, <1>2, <1>3 DEF RingInv, ClaimInv, Claims, Rings

\* The inductive invariant: what claims, snapshots and the log have to do with each other,
\* and what the entry has to do with the ring.
THEOREM Invariance == Spec => []RingInv
  BY InitInv, RingStep, PTL DEF Spec

\* Every variable keeps its type.
THEOREM TypeCorrect == Spec => []TypeOK
  <1>1. RingInv => TypeOK
    BY DEF RingInv, ClaimInv
  <1>. QED
    BY <1>1, Invariance, PTL

\* A start that was refused or has failed leaves no claim behind.
THEOREM NoClaimIsLeftBehind == Spec => []NoOrphanClaim
  <1>1. RingInv => NoOrphanClaim
    BY DEF RingInv, ClaimInv
  <1>. QED
    BY <1>1, Invariance, PTL

\* The log tells of exactly the starts that are under way or accepted.
THEOREM TheLogIsTrue == Spec => []StartedIsTrue
  <1>1. RingInv => StartedIsTrue
    BY DEF RingInv, ClaimInv
  <1>. QED
    BY <1>1, Invariance, PTL

\* A rollback undoes no report of the device and no claim of another start, unless a report
\* has posed as the claim.
THEOREM RollbackIsOwn == Spec => RollbackUndoesNoReport
  <1>. DEFINE Undoes(e) ==
                  call[e] = "failed" /\ call'[e] # "failed" /\ status' # status /\ ~posed
              Own(e) == e \notin reported /\ status.event = e /\ status'.state \notin Busy
  <1>1. RingInv /\ [Next]_vars => [\A e \in Starts : Undoes(e) => Own(e)]_vars
    <2>. SUFFICES ASSUME RingInv, Next, NEW e \in Starts, Undoes(e) PROVE Own(e)
      OBVIOUS
    <2>1. Settle(e)
      <3>1. ASSUME NEW f \in Starts, TryStart(f) PROVE Settle(e)
        <4>1. f = e
          BY <3>1 DEF TryStart, StartRefused, StartClaims, PublishReturns, PublishFails, Settle,
                      Answer, RingInv, ClaimInv, TypeOK
        <4>. QED
          BY <3>1, <4>1 DEF TryStart, StartRefused, StartClaims, PublishReturns, PublishFails,
                            Answer
      <3>2. ASSUME SendStop \/ Poll \/ TakeReport \/ TakeForeign \/ TheDevice \/ World
            PROVE  call' = call
        BY <3>2 DEF SendStop, Poll, TakeReport, TakeForeign, Take, TheDevice, OnMessage, Button,
                    Timeout, Connect, World, LinkDrops, Reset, LoseReport, Tick, bridge
      <3>. QED
        BY <3>1, <3>2 DEF Next, Bridge
    <2>2. status.event = e /\ status.state = "starting" /\ status' = snap[e]
      BY <2>1 DEF Settle
    <2>3. e \notin reported /\ snap[e].state \notin Busy
      BY <2>1, <2>2 DEF Settle, RingInv, ClaimInv, ClaimIsUnreported, SnapFree, InFlight
    <2>. QED
      BY <2>2, <2>3
  <1>. QED
    BY <1>1, Invariance, PTL DEF Spec, RollbackUndoesNoReport

\* A claim whose device rings, and was heard, is released no sooner than the ring has
\* lasted for what the entry allows and the grace.
THEOREM ReleaseIsInTime == Spec => ReleasedInTime
  <1>. DEFINE Release == /\ Stale(status) /\ status'.state \notin Busy
                         /\ toBridge = <<>> /\ ~missed /\ dev.state = "ringing"
              lasted  == RingTime(DurationOf[dev.event]) - dev.left
              allowed == (IF status.dur > 0 THEN status.dur ELSE Default) + Grace
  <1>1. RingInv => (Release => lasted > allowed)
    <2>. SUFFICES ASSUME RingInv, Release PROVE lasted > allowed
      OBVIOUS
    <2>1. status.age > allowed /\ status.state \in Busy
      BY DEF Stale, Limit
    <2>2. status.age <= lasted
      BY <2>1 DEF RingInv, EntryFollowsRing
    <2>3. status.age \in Int /\ dev.left \in Int /\ allowed \in Int
      BY EntryFields, TimesAssumption DEF RingInv, ClaimInv, TypeOK, Device
    <2>4. lasted \in Int
      <3>1. RingTime(DurationOf[dev.event]) \in Int
        BY StartsAssumption, RingTimeIsAwaited DEF RingInv, RingIsBounded
      <3>. QED
        BY <2>3, <3>1, SMT
    <2>. HIDE DEF lasted, allowed
    <2>. QED
      BY <2>1, <2>2, <2>3, <2>4, SMT
  <1>. QED
    BY <1>1, Invariance, PTL DEF ReleasedInTime
==============================================================================

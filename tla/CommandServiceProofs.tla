------------------------- MODULE CommandServiceProofs -------------------------
(***************************************************************************)
(* Proofs about CommandService, for every topology, set of command ids,    *)
(* retry policy and timeout.                                               *)
(*                                                                         *)
(* The invariant is built in layers, each proved inductive on top of the   *)
(* ones before it:                                                         *)
(*   TypeOK                types                                           *)
(*   CallOwnsPendingRow    the row being published is the only pending one *)
(*   TriesMatchCall        what makes BoundedPublishing inductive          *)
(*   RoutesAgree           OneLedPerCommand, and devices only ever act on  *)
(*                         what was sent to them, with one verdict         *)
(*   RefusedNeverSent, AckedOnlyIfDone                                     *)
(***************************************************************************)
EXTENDS CommandService, RoutingProofs

CallOwnsPendingRow ==
    \A cid \in CommandIds :
        /\ rows[cid].status = "pending" <=> cid = call.cid
        /\ rows[cid].status = "absent" => rows[cid] = NoRow /\ tries[cid] = 0

TriesMatchCall ==
    /\ BoundedPublishing
    /\ ~Idle => tries[call.cid] = call.attempt - 1

DevicesFollowMessages ==
    /\ \A c \in Controllers, cid \in CommandIds :
          <<c, cid>> \in done \cup refused =>
              \E m \in sent : m.cid = cid /\ m.controller = c
    /\ done \cap refused = {}

RoutesAgree == OneLedPerCommand /\ DevicesFollowMessages

IInv == /\ TypeOK
        /\ CallOwnsPendingRow
        /\ TriesMatchCall
        /\ RoutesAgree
        /\ RefusedNeverSent
        /\ AckedOnlyIfDone

-------------------------------------------------------------------------------

LEMMA RowTypes ==
    /\ NoRow \in Row
    /\ \A d \in Drawers : /\ NewRow(d) \in Row
                          /\ NewRow(d).status = "pending"
                          /\ NewRow(d).error = "none"
                          /\ NewRow(d).ackedAt = FALSE
                          /\ NewRow(d).controller = ControllerOf(d)
  <1>1. 1 \in Controllers /\ 0 \in Leds /\ NoTime \in Ages
    BY TopologyAssumption, SMT DEF Controllers, Leds, Ages, NoTime
  <1>2. NoRow \in Row
    BY <1>1 DEF NoRow, Row, Statuses, Errors
  <1>3. ASSUME NEW d \in Drawers
        PROVE  /\ NewRow(d) \in Row
               /\ NewRow(d).status = "pending"
               /\ NewRow(d).error = "none"
               /\ NewRow(d).ackedAt = FALSE
               /\ NewRow(d).controller = ControllerOf(d)
    BY <1>1, RouteInTopology DEF NewRow, NoRow, Row, Statuses, Errors
  <1>. QED
    BY <1>2, <1>3

\* q is a row for the same LED as r, with these values in its other fields.
IsRow(q, r, status, age, ackedAt, error) ==
    /\ q \in Row
    /\ q.status = status
    /\ q.controller = r.controller
    /\ q.led = r.led
    /\ q.age = age
    /\ q.ackedAt = ackedAt
    /\ q.error = error

\* What the updates of a row do to each of its fields.
LEMMA RowUpdates ==
    ASSUME NEW r \in Row
    PROVE  /\ IsRow(Failed(r, "offline"), r, "failed", r.age, r.ackedAt, "offline")
           /\ IsRow(Failed(r, "publish"), r, "failed", r.age, r.ackedAt, "publish")
           /\ IsRow(Failed(r, "rejected"), r, "failed", r.age, r.ackedAt, "rejected")
           /\ IsRow(Published(r), r, "published", 0, r.ackedAt, r.error)
           /\ IsRow(Confirmed(r), r, "acked", r.age, TRUE, r.error)
           /\ IsRow(Expired(r), r, "expired", r.age, r.ackedAt, "timeout")
           /\ IsRow(Aged(r), r, r.status, Older(r.age), r.ackedAt, r.error)
           /\ IsRow([r EXCEPT !.status = "published"], r,
                    "published", r.age, r.ackedAt, r.error)
  <1>1. /\ {"failed", "published", "acked", "expired"} \subseteq Statuses
        /\ {"timeout", "offline", "publish", "rejected"} \subseteq Errors
        /\ 0 \in Ages
    BY TimeoutAssumption, SMT DEF Statuses, Errors, Ages
  <1>2. Older(r.age) \in Ages
    BY TimeoutAssumption, SMT DEF Row, Older, Ages, NoTime
  <1>3. \A s \in Statuses, e \in Errors :
          IsRow([r EXCEPT !.status = s, !.error = e], r, s, r.age, r.ackedAt, e)
    BY DEF Row, IsRow
  <1>4. \A s \in Statuses, t \in Ages :
          IsRow([r EXCEPT !.status = s, !.age = t], r, s, t, r.ackedAt, r.error)
    BY DEF Row, IsRow
  <1>5. \A s \in Statuses :
          IsRow([r EXCEPT !.status = s, !.ackedAt = TRUE], r, s, r.age, TRUE, r.error)
    BY DEF Row, IsRow
  <1>6. \A t \in Ages :
          IsRow([r EXCEPT !.age = t], r, r.status, t, r.ackedAt, r.error)
    BY DEF Row, IsRow
  <1>7. \A s \in Statuses :
          IsRow([r EXCEPT !.status = s], r, s, r.age, r.ackedAt, r.error)
    BY DEF Row, IsRow
  <1>. QED
    BY <1>1, <1>2, <1>3, <1>4, <1>5, <1>6, <1>7
       DEF Failed, Published, Confirmed, Expired, Aged

\* What each accepted ACK makes of a row, if anything.
LEMMA AcknowledgedRow ==
    ASSUME NEW r \in Row, NEW s \in AckStates
    PROVE  \/ /\ s = "received" /\ r.status = "pending"
              /\ IsRow(Acknowledged(r, s), r, "published", r.age, r.ackedAt, r.error)
           \/ /\ s = "completed" /\ r.status # "acked"
              /\ IsRow(Acknowledged(r, s), r, "acked", r.age, TRUE, r.error)
           \/ /\ s = "rejected"
              /\ IsRow(Acknowledged(r, s), r, "failed", r.age, r.ackedAt, "rejected")
           \/ /\ s # "rejected" /\ (s = "completed" => r.status = "acked")
              /\ Acknowledged(r, s) = r
  <1>2. CASE s = "received" /\ r.status = "pending"
    BY <1>2, RowUpdates DEF Acknowledged
  <1>3. CASE s = "completed" /\ r.status # "acked"
    BY <1>3, RowUpdates DEF Acknowledged
  <1>4. CASE s = "rejected"
    BY <1>4, RowUpdates DEF Acknowledged
  <1>5. CASE \/ s = "received" /\ r.status # "pending"
             \/ s = "completed" /\ r.status = "acked"
    BY <1>5 DEF Acknowledged
  <1>. QED
    BY <1>2, <1>3, <1>4, <1>5 DEF AckStates

\* Whatever call is in progress, it is about a command id.
LEMMA CallTypes ==
    ASSUME TypeOK
    PROVE  /\ ~Idle => call.cid \in CommandIds /\ call.attempt \in 1..MaxAttempts
           /\ Idle => call.cid = NoId
  BY DEF TypeOK, Idle, NoCall

LEMMA RecordTypes ==
    ASSUME TypeOK, NEW cid \in CommandIds, NEW reason \in Reasons, Record(reason, cid)
    PROVE  events' \in [CommandIds -> SUBSET Reasons]
  <1>1. events[cid] \cup {reason} \in SUBSET Reasons
    BY DEF TypeOK
  <1>. QED
    BY <1>1 DEF TypeOK, Record

LEMMA InitIInv == Init => IInv
  <1>. SUFFICES ASSUME Init PROVE IInv
    OBVIOUS
  <1>1. TypeOK
    BY RowTypes DEF Init, TypeOK, Reasons
  <1>2. CallOwnsPendingRow
    BY NoIdAssumption DEF Init, CallOwnsPendingRow, NoRow, NoCall
  <1>3. TriesMatchCall
    BY AttemptsAssumption, SMT DEF Init, TriesMatchCall, BoundedPublishing, Idle
  <1>4. RoutesAgree /\ RefusedNeverSent /\ AckedOnlyIfDone
    BY DEF Init, RoutesAgree, OneLedPerCommand, DevicesFollowMessages, RefusedNeverSent,
           AckedOnlyIfDone, NoRow
  <1>. QED
    BY <1>1, <1>2, <1>3, <1>4 DEF IInv

-------------------------------------------------------------------------------
(* TypeOK is inductive. *)

LEMMA TypeStep == TypeOK /\ [Next]_vars => TypeOK'
  <1>. SUFFICES ASSUME TypeOK, [Next]_vars PROVE TypeOK'
    OBVIOUS
  <1>. USE DEF TypeOK
  <1>1. ASSUME NEW cid \in CommandIds, NEW d \in Drawers, LocateRefused(cid, d)
        PROVE  TypeOK'
    <2>1. Failed(NewRow(d), "offline") \in Row
      BY RowTypes, RowUpdates DEF IsRow
    <2>. QED
      BY <1>1, <2>1 DEF LocateRefused, Record, Reasons, outside
  <1>2. ASSUME NEW cid \in CommandIds, NEW d \in Drawers, LocateBegins(cid, d)
        PROVE  TypeOK'
    BY <1>2, RowTypes, AttemptsAssumption, SMT DEF LocateBegins, FirstAttempt, outside
  <1>3. CASE PublishReturns
    <2>1. call.cid \in CommandIds /\ MessageFor(call.cid) \in Message
      BY <1>3, CallTypes DEF PublishReturns, MessageFor, Message, Row
    <2>2. Published(rows[call.cid]) \in Row
      BY <2>1, RowUpdates DEF IsRow
    <2>. QED
      BY <1>3, <2>1, <2>2 DEF PublishReturns
  <1>4. CASE PublishRaises
    <2>1. call.cid \in CommandIds /\ MessageFor(call.cid) \in Message
      BY <1>4, CallTypes DEF PublishRaises, MessageFor, Message, Row
    <2>2. sent' \subseteq Message /\ tries' \in [CommandIds -> Nat]
      <3>1. sent' \subseteq Message
        BY <1>4, <2>1 DEF PublishRaises
      <3>2. tries[call.cid] + 1 \in Nat
        BY <2>1, SMT
      <3>. QED
        BY <1>4, <2>1, <3>1, <3>2 DEF PublishRaises
    <2>3. CASE MayRetry(call.attempt)
      <3>1. call \in [cid : CommandIds, attempt : 1..MaxAttempts]
        BY <1>4 DEF PublishRaises, Idle
      <3>2. call.attempt + 1 \in 1..MaxAttempts
        BY <3>1, <2>3, AttemptsAssumption, SMT DEF MayRetry
      <3>3. call' \in [cid : CommandIds, attempt : 1..MaxAttempts]
        BY <1>4, <2>3, <3>1, <3>2 DEF PublishRaises
      <3>. QED
        BY <1>4, <2>2, <2>3, <3>3 DEF PublishRaises
    <2>4. CASE ~MayRetry(call.attempt)
      <3>1. Failed(rows[call.cid], "publish") \in Row
        BY <2>1, RowUpdates DEF IsRow
      <3>2. events' \in [CommandIds -> SUBSET Reasons]
        BY <1>4, <2>1, <2>4, RecordTypes DEF PublishRaises, Reasons
      <3>. QED
        BY <1>4, <2>1, <2>2, <2>4, <3>1, <3>2 DEF PublishRaises
    <2>. QED
      BY <2>3, <2>4
  <1>5. ASSUME NEW a \in Ack, HandleAck(a)
        PROVE  TypeOK'
    <2>1. a.cid \in CommandIds /\ a.state \in AckStates
      BY DEF Ack
    <2>2. Acknowledged(rows[a.cid], a.state) \in Row
      <3>1. rows[a.cid] \in Row
        BY <2>1
      <3>. QED
        BY <2>1, <3>1, AcknowledgedRow DEF IsRow
    <2>3. events' \in [CommandIds -> SUBSET Reasons]
      BY <1>5, <2>1, RecordTypes DEF HandleAck, AckMismatch, AckStale, AckApplied, Reasons
    <2>4. rows' \in [CommandIds -> Row]
      BY <1>5, <2>1, <2>2 DEF HandleAck, AckMismatch, AckStale, AckApplied
    <2>. QED
      BY <1>5, <2>3, <2>4 DEF HandleAck, AckMismatch, AckStale, AckApplied, outside
  <1>6. CASE ExpireStaleCommands
    <2>1. \A cid \in CommandIds : Expired(rows[cid]) \in Row
      BY RowUpdates DEF IsRow
    <2>. QED
      BY <1>6, <2>1 DEF ExpireStaleCommands, Reasons, outside
  <1>7. CASE Monitor
    BY <1>7 DEF Monitor, MarkOffline, HandleStatus, outside
  <1>8. CASE Tick
    <2>1. \A cid \in CommandIds : Aged(rows[cid]) \in Row
      BY RowUpdates DEF IsRow
    <2>. QED
      BY <1>8, <2>1 DEF Tick, outside
  <1>9. CASE Devices
    BY <1>9 DEF Devices, DeviceActs, DeviceRejects, Message, service
  <1>10. CASE UNCHANGED vars
    BY <1>10 DEF vars
  <1>. QED
    BY <1>1, <1>2, <1>3, <1>4, <1>5, <1>6, <1>7, <1>8, <1>9, <1>10
       DEF Next, Issue, Publish, Receive

-------------------------------------------------------------------------------
(* The pending row belongs to the call; the history counts its attempts. *)

LEMMA CallStep ==
    TypeOK /\ CallOwnsPendingRow /\ [Next]_vars => CallOwnsPendingRow'
  <1>. SUFFICES ASSUME TypeOK, CallOwnsPendingRow, [Next]_vars, NEW x \in CommandIds
                PROVE  /\ rows'[x].status = "pending" <=> x = call'.cid
                       /\ rows'[x].status = "absent" => rows'[x] = NoRow /\ tries'[x] = 0
    BY DEF CallOwnsPendingRow
  <1>0. /\ rows[x] \in Row /\ x # NoId
        /\ Idle => call.cid = NoId
        /\ ~Idle => call.cid \in CommandIds
        /\ NoCall.cid = NoId
        /\ rows[x].status = "pending" <=> x = call.cid
        /\ rows[x].status = "absent" => rows[x] = NoRow /\ tries[x] = 0
    BY NoIdAssumption, CallTypes DEF TypeOK, NoCall, CallOwnsPendingRow
  <1>1. ASSUME NEW cid \in CommandIds, NEW d \in Drawers, LocateRefused(cid, d)
        PROVE  /\ rows'[x].status = "pending" <=> x = call'.cid
               /\ rows'[x].status = "absent" => rows'[x] = NoRow /\ tries'[x] = 0
    <2>1. Failed(NewRow(d), "offline").status = "failed"
      BY RowTypes, RowUpdates DEF IsRow
    <2>2. rows'[x] = IF x = cid THEN Failed(NewRow(d), "offline") ELSE rows[x]
      BY <1>1 DEF LocateRefused, TypeOK
    <2>. QED
      BY <1>0, <1>1, <2>1, <2>2 DEF LocateRefused, outside
  <1>2. ASSUME NEW cid \in CommandIds, NEW d \in Drawers, LocateBegins(cid, d)
        PROVE  /\ rows'[x].status = "pending" <=> x = call'.cid
               /\ rows'[x].status = "absent" => rows'[x] = NoRow /\ tries'[x] = 0
    <2>1. rows'[x] = IF x = cid THEN NewRow(d) ELSE rows[x]
      BY <1>2 DEF LocateBegins, TypeOK
    <2>. QED
      BY <1>0, <1>2, <2>1, RowTypes DEF LocateBegins, outside
  <1>3. CASE PublishReturns
    <2>1. call.cid \in CommandIds
      BY <1>0, <1>3 DEF PublishReturns
    <2>2. Published(rows[call.cid]).status = "published"
      BY <2>1, RowUpdates DEF TypeOK, IsRow
    <2>3. /\ rows'[x] = IF x = call.cid THEN Published(rows[x]) ELSE rows[x]
          /\ x # call.cid => tries'[x] = tries[x]
      BY <1>3 DEF PublishReturns, TypeOK
    <2>. QED
      BY <1>0, <1>3, <2>2, <2>3 DEF PublishReturns
  <1>4. CASE PublishRaises
    <2>1. call.cid \in CommandIds
      BY <1>0, <1>4 DEF PublishRaises
    <2>2. x # call.cid => tries'[x] = tries[x]
      BY <1>4 DEF PublishRaises, TypeOK
    <2>3. CASE MayRetry(call.attempt)
      <3>1. call'.cid = call.cid /\ rows' = rows
        BY <1>4, <2>3, CallTypes DEF PublishRaises, TypeOK, Idle
      <3>. QED
        BY <1>0, <2>2, <3>1
    <2>4. CASE ~MayRetry(call.attempt)
      <3>1. Failed(rows[call.cid], "publish").status = "failed"
        BY <2>1, RowUpdates DEF TypeOK, IsRow
      <3>2. rows'[x] = IF x = call.cid THEN Failed(rows[x], "publish") ELSE rows[x]
        BY <1>4, <2>4 DEF PublishRaises, TypeOK
      <3>. QED
        BY <1>0, <1>4, <2>2, <2>4, <3>1, <3>2 DEF PublishRaises
    <2>. QED
      BY <2>3, <2>4
  <1>5. ASSUME NEW a \in Ack, HandleAck(a)
        PROVE  /\ rows'[x].status = "pending" <=> x = call'.cid
               /\ rows'[x].status = "absent" => rows'[x] = NoRow /\ tries'[x] = 0
    <2>1. Idle /\ call' = call /\ tries' = tries
      BY <1>5 DEF HandleAck, AckMismatch, AckStale, AckApplied
    <2>2. CASE rows' = rows
      BY <1>0, <2>1, <2>2
    <2>3. CASE AckApplied(a)
      <3>1. a.cid \in CommandIds /\ a.state \in AckStates /\ rows[a.cid] \in Row
        BY DEF Ack, TypeOK
      <3>2. rows[a.cid].status \notin {"absent", "pending"}
        BY <2>1, <2>3, <3>1, CallTypes, NoIdAssumption
           DEF AckApplied, IsKnown, CallOwnsPendingRow
      <3>3. Acknowledged(rows[a.cid], a.state).status \notin {"absent", "pending"}
        BY <3>1, <3>2, AcknowledgedRow DEF IsRow
      <3>4. rows'[x] = IF x = a.cid THEN Acknowledged(rows[x], a.state) ELSE rows[x]
        BY <2>3 DEF AckApplied, TypeOK
      <3>. QED
        BY <1>0, <2>1, <3>2, <3>3, <3>4
    <2>. QED
      BY <1>5, <2>2, <2>3 DEF HandleAck, AckMismatch, AckStale
  <1>6. CASE ExpireStaleCommands
    <2>1. rows'[x] = IF Overdue(rows[x]) THEN Expired(rows[x]) ELSE rows[x]
      BY <1>6 DEF ExpireStaleCommands
    <2>2. Overdue(rows[x]) => /\ rows[x].status = "published"
                              /\ Expired(rows[x]).status = "expired"
      BY <1>0, RowUpdates DEF Overdue, IsRow
    <2>. QED
      BY <1>0, <1>6, <2>1, <2>2 DEF ExpireStaleCommands
  <1>7. CASE Monitor \/ Devices \/ UNCHANGED vars
    <2>1. UNCHANGED <<rows, call, tries>>
      BY <1>7 DEF Monitor, MarkOffline, HandleStatus, Devices, DeviceActs, DeviceRejects,
                  service, vars
    <2>. QED
      BY <1>0, <2>1
  <1>8. CASE Tick
    <2>1. rows'[x] = Aged(rows[x]) /\ UNCHANGED <<call, tries>>
      BY <1>8 DEF Tick
    <2>2. Aged(rows[x]).status = rows[x].status
      BY <1>0, RowUpdates DEF IsRow
    <2>3. rows[x] = NoRow => Aged(rows[x]) = NoRow
      BY TimeoutAssumption, SMT DEF Aged, NoRow, Older, NoTime
    <2>. QED
      BY <1>0, <2>1, <2>2, <2>3
  <1>. QED
    BY <1>1, <1>2, <1>3, <1>4, <1>5, <1>6, <1>7, <1>8 DEF Next, Issue, Publish, Receive

LEMMA TriesStep ==
    TypeOK /\ CallOwnsPendingRow /\ TriesMatchCall /\ [Next]_vars => TriesMatchCall'
  <1>. SUFFICES ASSUME TypeOK, CallOwnsPendingRow, TriesMatchCall, [Next]_vars
                PROVE  TriesMatchCall'
    OBVIOUS
  <1>. USE AttemptsAssumption
  <1>1. ASSUME NEW cid \in CommandIds, NEW d \in Drawers, LocateBegins(cid, d)
        PROVE  TriesMatchCall'
    <2>1. tries[cid] = 0
      BY <1>1 DEF LocateBegins, IsNew, CallOwnsPendingRow
    <2>. QED
      BY <1>1, <2>1, SMT DEF LocateBegins, TriesMatchCall, BoundedPublishing, FirstAttempt
  <1>2. CASE PublishReturns \/ PublishRaises
    <2>1. /\ call.cid \in CommandIds /\ call.attempt \in 1..MaxAttempts
          /\ tries[call.cid] = call.attempt - 1
          /\ tries' = [tries EXCEPT ![call.cid] = tries[call.cid] + 1]
      BY <1>2, CallTypes DEF PublishReturns, PublishRaises, TriesMatchCall
    <2>2. tries'[call.cid] = call.attempt
      BY <2>1, SMT DEF TypeOK
    <2>3. BoundedPublishing'
      BY <2>1, <2>2, SMT DEF TriesMatchCall, BoundedPublishing, TypeOK
    <2>4. call' = NoCall \/ (call'.cid = call.cid /\ call'.attempt = call.attempt + 1)
      BY <1>2 DEF PublishReturns, PublishRaises, TypeOK, NoCall, Idle
    <2>. QED
      BY <2>1, <2>2, <2>3, <2>4, SMT DEF TriesMatchCall, Idle
  <1>3. ASSUME UNCHANGED <<call, tries>>
        PROVE  TriesMatchCall'
    BY <1>3 DEF TriesMatchCall, BoundedPublishing, Idle
  <1>. QED
    BY <1>1, <1>2, <1>3
       DEF Next, Issue, LocateRefused, Publish, Receive, HandleAck, AckMismatch, AckStale,
           AckApplied, ExpireStaleCommands, Monitor, MarkOffline, HandleStatus, Tick,
           Devices, DeviceActs, DeviceRejects, service, vars

-------------------------------------------------------------------------------
(* Everything a step can do to one row, and to the world outside. *)

Created(x) ==
    /\ rows[x].status = "absent"
    /\ \E d \in Drawers : \/ rows'[x] = NewRow(d)
                         \/ rows'[x] = Failed(NewRow(d), "offline")
    /\ UNCHANGED outside

CallEnded(x) ==
    /\ rows[x].status = "pending"
    /\ rows'[x] = Published(rows[x]) \/ rows'[x] = Failed(rows[x], "publish")

GotAck(x) ==
    /\ rows[x].status \notin {"absent", "pending", "expired"}
    /\ \E a \in Ack : /\ a.cid = x /\ a.controller = rows[x].controller
                      /\ Arriving(a)
                      /\ rows'[x] = Acknowledged(rows[x], a.state)
    /\ UNCHANGED outside

TimedOut(x) == Overdue(rows[x]) /\ rows'[x] = Expired(rows[x])

LEMMA RowChange ==
    ASSUME TypeOK, CallOwnsPendingRow, [Next]_vars, NEW x \in CommandIds
    PROVE  \/ rows'[x] = rows[x]
           \/ rows'[x] = Aged(rows[x])
           \/ Created(x) \/ CallEnded(x) \/ GotAck(x) \/ TimedOut(x)
  <1>. DEFINE Goal == \/ rows'[x] = rows[x]
                      \/ rows'[x] = Aged(rows[x])
                      \/ Created(x) \/ CallEnded(x) \/ GotAck(x) \/ TimedOut(x)
  <1>1. ASSUME NEW cid \in CommandIds, NEW d \in Drawers, LocateRefused(cid, d)
        PROVE  Goal
    BY <1>1 DEF LocateRefused, IsNew, Created, TypeOK
  <1>2. ASSUME NEW cid \in CommandIds, NEW d \in Drawers, LocateBegins(cid, d)
        PROVE  Goal
    BY <1>2 DEF LocateBegins, IsNew, Created, TypeOK
  <1>3. CASE PublishReturns
    BY <1>3, CallTypes DEF PublishReturns, CallEnded, CallOwnsPendingRow, TypeOK
  <1>4. CASE PublishRaises
    BY <1>4, CallTypes DEF PublishRaises, CallEnded, CallOwnsPendingRow, TypeOK
  <1>5. ASSUME NEW a \in Ack, Arriving(a), HandleAck(a)
        PROVE  Goal
    <2>1. CASE AckApplied(a) /\ a.cid = x
      <3>1. rows[x].status \notin {"absent", "pending", "expired"}
        BY <2>1, CallTypes, NoIdAssumption
           DEF AckApplied, IsKnown, IsStale, CallOwnsPendingRow
      <3>. QED
        BY <1>5, <2>1, <3>1 DEF AckApplied, IsFromOwner, GotAck, TypeOK
    <2>2. CASE ~(AckApplied(a) /\ a.cid = x)
      BY <1>5, <2>2 DEF HandleAck, AckMismatch, AckStale, AckApplied, TypeOK
    <2>. QED
      BY <2>1, <2>2
  <1>6. CASE ExpireStaleCommands
    BY <1>6 DEF ExpireStaleCommands, TimedOut
  <1>7. CASE Monitor \/ Devices \/ UNCHANGED vars
    BY <1>7 DEF Monitor, MarkOffline, HandleStatus, Devices, DeviceActs, DeviceRejects,
                service, vars
  <1>8. CASE Tick
    BY <1>8 DEF Tick
  <1>. QED
    BY <1>1, <1>2, <1>3, <1>4, <1>5, <1>6, <1>7, <1>8 DEF Next, Issue, Publish, Receive

\* The same, field by field.
AckChanges(x, a) ==
    /\ a.cid = x /\ a.controller = rows[x].controller /\ Arriving(a)
    /\ rows[x].status \notin {"absent", "pending", "expired"}
    /\ \/ rows'[x] = rows[x]
       \/ /\ a.state = "completed"
          /\ IsRow(rows'[x], rows[x], "acked", rows[x].age, TRUE, rows[x].error)
       \/ /\ a.state = "rejected"
          /\ IsRow(rows'[x], rows[x], "failed", rows[x].age, rows[x].ackedAt, "rejected")

LEMMA RowFields ==
    ASSUME TypeOK, CallOwnsPendingRow, [Next]_vars, NEW x \in CommandIds
    PROVE  \/ rows'[x] = rows[x]
           \/ IsRow(rows'[x], rows[x], rows[x].status, Older(rows[x].age),
                    rows[x].ackedAt, rows[x].error)
           \/ /\ rows[x].status = "absent"
              /\ UNCHANGED outside
              /\ \E d \in Drawers :
                    \/ rows'[x] = NewRow(d)
                    \/ IsRow(rows'[x], NewRow(d), "failed", NewRow(d).age,
                             NewRow(d).ackedAt, "offline")
           \/ /\ rows[x].status = "pending"
              /\ \/ IsRow(rows'[x], rows[x], "published", 0, rows[x].ackedAt,
                          rows[x].error)
                 \/ IsRow(rows'[x], rows[x], "failed", rows[x].age, rows[x].ackedAt,
                          "publish")
           \/ UNCHANGED outside /\ \E a \in Ack : AckChanges(x, a)
           \/ /\ rows[x].status = "published" /\ rows[x].age > AckTimeout
              /\ IsRow(rows'[x], rows[x], "expired", rows[x].age, rows[x].ackedAt,
                       "timeout")
  <1>1. rows[x] \in Row
    BY DEF TypeOK
  <1>2. CASE rows'[x] = Aged(rows[x])
    BY <1>1, <1>2, RowUpdates
  <1>3. CASE Created(x)
    BY <1>3, RowTypes, RowUpdates DEF Created
  <1>4. CASE CallEnded(x)
    BY <1>1, <1>4, RowUpdates DEF CallEnded
  <1>5. CASE GotAck(x)
    <2>1. PICK a \in Ack : /\ a.cid = x /\ a.controller = rows[x].controller
                          /\ Arriving(a)
                          /\ rows'[x] = Acknowledged(rows[x], a.state)
      BY <1>5 DEF GotAck
    <2>2. /\ a.state \in AckStates /\ UNCHANGED outside
          /\ rows[x].status \notin {"absent", "pending", "expired"}
      BY <1>5 DEF Ack, GotAck
    <2>3. \/ rows'[x] = rows[x]
          \/ /\ a.state = "completed"
             /\ IsRow(rows'[x], rows[x], "acked", rows[x].age, TRUE, rows[x].error)
          \/ /\ a.state = "rejected"
             /\ IsRow(rows'[x], rows[x], "failed", rows[x].age, rows[x].ackedAt,
                      "rejected")
      BY <1>1, <2>1, <2>2, AcknowledgedRow
    <2>. QED
      BY <2>1, <2>2, <2>3 DEF AckChanges
  <1>6. CASE TimedOut(x)
    BY <1>1, <1>6, RowUpdates DEF TimedOut, Overdue
  <1>. QED
    BY <1>2, <1>3, <1>4, <1>5, <1>6, RowChange

LEMMA RouteKept ==
    ASSUME TypeOK, CallOwnsPendingRow, [Next]_vars, NEW x \in CommandIds,
           rows[x].status # "absent"
    PROVE  /\ rows'[x].status # "absent"
           /\ rows'[x].controller = rows[x].controller
           /\ rows'[x].led = rows[x].led
  BY RowFields DEF IsRow, AckChanges

LEMMA OutsideChange ==
    ASSUME TypeOK, CallOwnsPendingRow, [Next]_vars
    PROVE  /\ \A m \in sent' \ sent :
                 /\ m.cid \in CommandIds /\ rows[m.cid].status = "pending"
                 /\ m.controller = rows[m.cid].controller
                 /\ m.led = rows[m.cid].led
           /\ sent \subseteq sent'
           /\ done \subseteq done' /\ refused \subseteq refused'
           /\ \A c \in Controllers, cid \in CommandIds :
                 <<c, cid>> \in (done' \cup refused') \ (done \cup refused) =>
                    \E m \in sent : m.cid = cid /\ m.controller = c
           /\ done \cap refused = {} => done' \cap refused' = {}
  <1>. DEFINE Goal ==
           /\ \A m \in sent' \ sent :
                 /\ m.cid \in CommandIds /\ rows[m.cid].status = "pending"
                 /\ m.controller = rows[m.cid].controller
                 /\ m.led = rows[m.cid].led
           /\ sent \subseteq sent'
           /\ done \subseteq done' /\ refused \subseteq refused'
           /\ \A c \in Controllers, cid \in CommandIds :
                 <<c, cid>> \in (done' \cup refused') \ (done \cup refused) =>
                    \E m \in sent : m.cid = cid /\ m.controller = c
           /\ done \cap refused = {} => done' \cap refused' = {}
  <1>1. CASE UNCHANGED <<sent, done, refused>>
    BY <1>1
  <1>2. CASE PublishReturns \/ PublishRaises
    <2>1. call.cid \in CommandIds /\ rows[call.cid].status = "pending"
      BY <1>2, CallTypes DEF PublishReturns, PublishRaises, CallOwnsPendingRow
    <2>2. UNCHANGED <<done, refused>>
      BY <1>2 DEF PublishReturns, PublishRaises
    <2>3. sent' = sent \/ sent' = sent \cup {MessageFor(call.cid)}
      BY <1>2 DEF PublishReturns, PublishRaises
    <2>. QED
      BY <2>1, <2>2, <2>3 DEF MessageFor
  <1>3. ASSUME NEW m \in sent, DeviceActs(m)
        PROVE  Goal
    BY <1>3 DEF DeviceActs
  <1>4. ASSUME NEW m \in sent, DeviceRejects(m)
        PROVE  Goal
    BY <1>4 DEF DeviceRejects
  <1>. QED
    BY <1>1, <1>2, <1>3, <1>4
       DEF Next, Issue, LocateRefused, LocateBegins, Publish, Receive, HandleAck,
           AckMismatch, AckStale, AckApplied, ExpireStaleCommands, Monitor, MarkOffline,
           HandleStatus, Tick, Devices, outside, vars

-------------------------------------------------------------------------------
(* The layers about what was sent and what came of it. *)

LEMMA RoutesStep ==
    TypeOK /\ CallOwnsPendingRow /\ RoutesAgree /\ [Next]_vars => RoutesAgree'
  <1>. SUFFICES ASSUME TypeOK, CallOwnsPendingRow, RoutesAgree, [Next]_vars
                PROVE  RoutesAgree'
    OBVIOUS
  <1>1. OneLedPerCommand'
    <2>. SUFFICES ASSUME NEW m \in sent'
                  PROVE  /\ rows'[m.cid].status # "absent"
                         /\ m.controller = rows'[m.cid].controller
                         /\ m.led = rows'[m.cid].led
      BY DEF OneLedPerCommand
    <2>1. /\ m.cid \in CommandIds
          /\ rows[m.cid].status # "absent"
          /\ m.controller = rows[m.cid].controller
          /\ m.led = rows[m.cid].led
      BY OutsideChange DEF RoutesAgree, OneLedPerCommand, TypeOK, Message
    <2>. QED
      BY <2>1, RouteKept
  <1>2. DevicesFollowMessages'
    BY OutsideChange DEF RoutesAgree, DevicesFollowMessages
  <1>. QED
    BY <1>1, <1>2 DEF RoutesAgree

LEMMA RefusedStep ==
    TypeOK /\ CallOwnsPendingRow /\ RoutesAgree /\ RefusedNeverSent /\ [Next]_vars
        => RefusedNeverSent'
  <1>. SUFFICES ASSUME TypeOK, CallOwnsPendingRow, RoutesAgree, RefusedNeverSent,
                       [Next]_vars, NEW x \in CommandIds, rows'[x].error = "offline"
                PROVE  /\ rows'[x].status = "failed"
                       /\ \A m \in sent' : m.cid # x
                       /\ \A c \in Controllers : <<c, x>> \notin done'
    BY DEF RefusedNeverSent
  <1>1. CASE rows[x].error = "offline"
    <2>1. /\ rows[x].status = "failed"
          /\ \A m \in sent : m.cid # x
          /\ \A c \in Controllers : <<c, x>> \notin done
      BY <1>1 DEF RefusedNeverSent
    <2>2. \A m \in sent' : m.cid # x
      BY <2>1, OutsideChange
    <2>3. \A c \in Controllers : <<c, x>> \notin done' \cup refused'
      BY <2>1, OutsideChange DEF RoutesAgree, DevicesFollowMessages
    <2>4. ~\E a \in Ack : AckChanges(x, a)
      <3>1. ASSUME NEW a \in Ack, AckChanges(x, a) PROVE FALSE
        <4>1. a.cid = x /\ a.controller = rows[x].controller /\ a.controller \in Controllers
          BY <3>1 DEF AckChanges, Ack
        <4>2. ~\E m \in sent : m.cid = a.cid
          BY <2>1, <4>1
        <4>3. <<a.controller, x>> \in done \cup refused
          BY <3>1, <4>1, <4>2 DEF AckChanges, Arriving
        <4>. QED
          BY <2>3, <4>1, <4>3, OutsideChange
      <3>. QED
        BY <3>1
    <2>5. rows'[x].status = "failed"
      BY <2>1, <2>4, RowFields DEF IsRow
    <2>. QED
      BY <2>2, <2>3, <2>5
  <1>2. CASE rows[x].error # "offline"
    <2>1. /\ rows[x].status = "absent" /\ UNCHANGED outside
          /\ rows'[x].status = "failed"
      BY <1>2, RowFields, RowTypes DEF IsRow, AckChanges
    <2>2. \A m \in sent : m.cid # x
      BY <2>1 DEF RoutesAgree, OneLedPerCommand
    <2>. QED
      BY <2>1, <2>2 DEF RoutesAgree, DevicesFollowMessages, outside
  <1>. QED
    BY <1>1, <1>2

LEMMA AckedStep ==
    TypeOK /\ CallOwnsPendingRow /\ AckedOnlyIfDone /\ [Next]_vars => AckedOnlyIfDone'
  <1>. SUFFICES ASSUME TypeOK, CallOwnsPendingRow, AckedOnlyIfDone, [Next]_vars,
                       NEW x \in CommandIds, rows'[x].status = "acked" \/ rows'[x].ackedAt
                PROVE  <<rows'[x].controller, x>> \in done'
    BY DEF AckedOnlyIfDone
  <1>1. rows[x].status # "absent"
    <2>. SUFFICES ASSUME rows[x].status = "absent" PROVE FALSE
      OBVIOUS
    <2>1. rows[x].ackedAt = FALSE
      BY DEF CallOwnsPendingRow, NoRow
    <2>2. \/ rows'[x] = rows[x]
          \/ rows'[x].status = "absent" /\ rows'[x].ackedAt = rows[x].ackedAt
          \/ \E d \in Drawers : rows'[x] = NewRow(d)
          \/ \E d \in Drawers : rows'[x].status = "failed"
                                /\ rows'[x].ackedAt = NewRow(d).ackedAt
      BY RowFields DEF IsRow, AckChanges
    <2>3. rows'[x].status # "acked" /\ rows'[x].ackedAt = FALSE
      BY <2>1, <2>2, RowTypes
    <2>. QED
      BY <2>3
  <1>2. rows'[x].controller = rows[x].controller
    BY <1>1, RouteKept
  <1>3. done \subseteq done'
    BY OutsideChange
  <1>4. CASE rows[x].status = "acked" \/ rows[x].ackedAt
    BY <1>2, <1>3, <1>4 DEF AckedOnlyIfDone
  <1>5. CASE ~(rows[x].status = "acked" \/ rows[x].ackedAt)
    <2>1. PICK a \in Ack : AckChanges(x, a) /\ a.state = "completed"
      BY <1>1, <1>5, RowFields DEF IsRow, AckChanges
    <2>2. <<rows[x].controller, x>> \in done
      BY <2>1 DEF AckChanges, Arriving
    <2>. QED
      BY <1>2, <1>3, <2>2
  <1>. QED
    BY <1>4, <1>5

-------------------------------------------------------------------------------
(* What ended a command: its age, and the events recorded about it. *)

LEMMA EarlyStep ==
    TypeOK /\ CallOwnsPendingRow /\ NeverExpiredEarly /\ [Next]_vars => NeverExpiredEarly'
  <1>. SUFFICES ASSUME TypeOK, CallOwnsPendingRow, NeverExpiredEarly, [Next]_vars,
                       NEW x \in CommandIds, rows'[x].status = "expired"
                PROVE  rows'[x].age > AckTimeout
    BY DEF NeverExpiredEarly
  <1>1. rows[x].age \in Ages
    BY DEF TypeOK, Row
  <1>2. rows[x].age > AckTimeout => Older(rows[x].age) > AckTimeout
    BY <1>1, TimeoutAssumption, SMT DEF Ages, NoTime, Older
  <1>3. \A d \in Drawers : NewRow(d).status = "pending"
    BY RowTypes
  <1>4. \/ rows[x].status = "expired" /\ rows'[x].age = rows[x].age
        \/ rows[x].status = "expired" /\ rows'[x].age = Older(rows[x].age)
        \/ rows[x].age > AckTimeout /\ rows'[x].age = rows[x].age
    BY <1>3, RowFields DEF IsRow, AckChanges
  <1>. QED
    BY <1>2, <1>4 DEF NeverExpiredEarly

LEMMA StatusAfter ==
    ASSUME NEW r \in Row
    PROVE  /\ \A e \in {"offline", "publish", "rejected"} : Failed(r, e).status = "failed"
           /\ Published(r).status = "published" /\ Expired(r).status = "expired"
           /\ Aged(r).status = r.status
  <1>1. /\ Failed(r, "offline").status = "failed" /\ Failed(r, "publish").status = "failed"
        /\ Failed(r, "rejected").status = "failed"
    BY RowUpdates DEF IsRow
  <1>2. Published(r).status = "published" /\ Expired(r).status = "expired"
    BY RowUpdates DEF IsRow
  <1>3. Aged(r).status = r.status
    BY RowUpdates DEF IsRow
  <1>. QED
    BY <1>1, <1>2, <1>3

\* The events recorded about a command say why its row ended in its status.
Logged(row, recorded) ==
    /\ row.status = "acked" => "completed" \in recorded
    /\ row.status = "expired" => "ack timeout" \in recorded
    /\ row.status = "failed" =>
           recorded \cap {"controller offline", "publish failed", "rejected"} # {}

\* Nothing is ever taken out of the log.
LEMMA EventsGrow ==
    ASSUME TypeOK, [Next]_vars, NEW x \in CommandIds
    PROVE  events[x] \subseteq events'[x]
  <1>1. ASSUME NEW cid \in CommandIds, NEW reason, Record(reason, cid)
        PROVE  events[x] \subseteq events'[x]
    BY <1>1 DEF Record, TypeOK
  <1>2. \A a \in Ack : a.cid \in CommandIds
    BY DEF Ack
  <1>3. ~Idle => call.cid \in CommandIds
    BY CallTypes
  <1>4. CASE ExpireStaleCommands
    BY <1>4 DEF ExpireStaleCommands
  <1>5. CASE events' = events
    BY <1>5
  <1>. QED
    BY <1>1, <1>2, <1>3, <1>4, <1>5
       DEF Next, Issue, LocateRefused, LocateBegins, Publish, PublishReturns, PublishRaises,
           Receive, HandleAck, AckMismatch, AckStale, AckApplied, Monitor, MarkOffline,
           HandleStatus, Tick, Devices, DeviceActs, DeviceRejects, service, vars

LEMMA LoggedStep ==
    TypeOK /\ CallOwnsPendingRow /\ VerdictIsLogged /\ [Next]_vars => VerdictIsLogged'
  <1>. SUFFICES ASSUME TypeOK, CallOwnsPendingRow, VerdictIsLogged, [Next]_vars,
                       NEW x \in CommandIds
                PROVE  Logged(rows'[x], events'[x])
    BY DEF VerdictIsLogged, Logged
  <1>0. Logged(rows[x], events[x]) /\ events[x] \subseteq events'[x] /\ rows[x] \in Row
    BY EventsGrow DEF VerdictIsLogged, Logged, TypeOK
  <1>1. CASE rows'[x].status = rows[x].status
    BY <1>0, <1>1 DEF Logged
  <1>2. CASE rows'[x].status \in {"pending", "published"}
    BY <1>2 DEF Logged
  <1>3. ASSUME NEW cid \in CommandIds, NEW d \in Drawers, LocateRefused(cid, d)
        PROVE  Logged(rows'[x], events'[x])
    <2>1. CASE x = cid
      <3>1. rows'[x].status = "failed"
        <4>1. rows'[x] = Failed(NewRow(d), "offline")
          BY <1>3, <2>1 DEF LocateRefused, TypeOK
        <4>2. Failed(NewRow(d), "offline").status = "failed"
          BY RowTypes, StatusAfter
        <4>. QED
          BY <4>1, <4>2
      <3>2. "controller offline" \in events'[x]
        BY <1>3, <2>1 DEF LocateRefused, Record, TypeOK
      <3>. QED
        BY <3>1, <3>2 DEF Logged
    <2>2. CASE x # cid
      BY <1>1, <1>3, <2>2 DEF LocateRefused, TypeOK
    <2>. QED
      BY <2>1, <2>2
  <1>4. ASSUME NEW cid \in CommandIds, NEW d \in Drawers, LocateBegins(cid, d)
        PROVE  Logged(rows'[x], events'[x])
    BY <1>1, <1>2, <1>4, RowTypes DEF LocateBegins, TypeOK
  <1>5. CASE PublishReturns
    <2>1. rows'[x] = rows[x] \/ rows'[x] = Published(rows[x])
      BY <1>5 DEF PublishReturns, TypeOK
    <2>. QED
      BY <1>0, <1>1, <1>2, <2>1, StatusAfter
  <1>6. CASE PublishRaises
    <2>1. CASE rows'[x] = rows[x]
      BY <1>1, <2>1
    <2>2. CASE rows'[x] # rows[x]
      <3>1. /\ x = call.cid /\ rows'[x] = Failed(rows[x], "publish")
            /\ Record("publish failed", x)
        BY <1>6, <2>2 DEF PublishRaises, TypeOK
      <3>2. Failed(rows[x], "publish").status = "failed"
        BY <1>0, StatusAfter
      <3>3. "publish failed" \in events'[x]
        BY <3>1 DEF Record, TypeOK
      <3>. QED
        BY <3>1, <3>2, <3>3 DEF Logged
    <2>. QED
      BY <2>1, <2>2
  <1>7. ASSUME NEW a \in Ack, HandleAck(a)
        PROVE  Logged(rows'[x], events'[x])
    <2>1. CASE rows'[x] = rows[x]
      BY <1>1, <2>1
    <2>2. CASE rows'[x] # rows[x]
      <3>1. /\ x = a.cid /\ rows'[x] = Acknowledged(rows[x], a.state)
            /\ Record(a.state, x) /\ a.state \in AckStates
        BY <1>7, <2>2 DEF HandleAck, AckMismatch, AckStale, AckApplied, TypeOK, Ack
      <3>2. a.state \in events'[x]
        BY <3>1 DEF Record, TypeOK
      <3>3. \/ rows'[x].status = "published"
            \/ rows'[x].status = "acked" /\ a.state = "completed"
            \/ rows'[x].status = "failed" /\ a.state = "rejected"
        <4>. DEFINE s == a.state
                    q == Acknowledged(rows[x], s)
        <4>1. \/ s = "received" /\ q.status = "published"
              \/ s = "completed" /\ q.status = "acked"
              \/ s = "rejected" /\ q.status = "failed"
              \/ q = rows[x]
          BY <1>0, <3>1, AcknowledgedRow DEF IsRow
        <4>. QED
          BY <2>2, <3>1, <4>1
      <3>. QED
        BY <3>2, <3>3 DEF Logged
    <2>. QED
      BY <2>1, <2>2
  <1>8. CASE ExpireStaleCommands
    <2>1. CASE Overdue(rows[x])
      <3>1. rows'[x] = Expired(rows[x]) /\ "ack timeout" \in events'[x]
        BY <1>8, <2>1 DEF ExpireStaleCommands
      <3>2. Expired(rows[x]).status = "expired"
        BY <1>0, StatusAfter
      <3>. QED
        BY <3>1, <3>2 DEF Logged
    <2>2. CASE ~Overdue(rows[x])
      BY <1>1, <1>8, <2>2 DEF ExpireStaleCommands
    <2>. QED
      BY <2>1, <2>2
  <1>9. CASE Tick
    BY <1>0, <1>1, <1>9, StatusAfter DEF Tick
  <1>10. CASE rows' = rows
    BY <1>1, <1>10
  <1>. QED
    BY <1>3, <1>4, <1>5, <1>6, <1>7, <1>8, <1>9, <1>10
       DEF Next, Issue, Publish, Receive, Monitor, MarkOffline, HandleStatus, Devices,
           DeviceActs, DeviceRejects, service, vars

-------------------------------------------------------------------------------
(* The theorems. *)

\* The invariant holds: the basis of every theorem below.
THEOREM Invariance == Spec => []IInv
  <1>1. IInv /\ [Next]_vars => IInv'
    BY TypeStep, CallStep, TriesStep, RoutesStep, RefusedStep, AckedStep DEF IInv
  <1>. QED
    BY InitIInv, <1>1, PTL DEF Spec

\* Every variable keeps its type, and every call its bounded number of attempts.
THEOREM TypeCorrect == Spec => []TypeOK
  <1>1. IInv => TypeOK
    BY DEF IInv
  <1>. QED
    BY Invariance, <1>1, PTL

\* Nothing is reported as acknowledged that its own controller has not acted on.
THEOREM SuccessIsNeverInvented == Spec => []AckedOnlyIfDone
  <1>1. IInv => AckedOnlyIfDone
    BY DEF IInv
  <1>. QED
    BY Invariance, <1>1, PTL

\* No id is ever published more often than the retry policy allows.
THEOREM RetriesAreBounded == Spec => []BoundedPublishing
  <1>1. IInv => BoundedPublishing
    BY DEF IInv, TriesMatchCall
  <1>. QED
    BY Invariance, <1>1, PTL

\* A command id never reaches two LEDs.
THEOREM OneLed == Spec => []OneLedPerCommand
  <1>1. IInv => OneLedPerCommand
    BY DEF IInv, RoutesAgree
  <1>. QED
    BY Invariance, <1>1, PTL

\* What was refused because its controller is offline never leaves the backend.
THEOREM RefusalIsFinal == Spec => []RefusedNeverSent
  <1>1. IInv => RefusedNeverSent
    BY DEF IInv
  <1>. QED
    BY Invariance, <1>1, PTL

\* A command expires only when its own publication is older than the timeout.
THEOREM NothingExpiresEarly == Spec => []NeverExpiredEarly
  <1>1. Init => NeverExpiredEarly
    BY DEF Init, NoRow, NeverExpiredEarly
  <1>2. IInv /\ NeverExpiredEarly /\ [Next]_vars => NeverExpiredEarly'
    BY EarlyStep DEF IInv
  <1>. QED
    BY Invariance, <1>1, <1>2, PTL DEF Spec

\* However a command ends, the log says why, and goes on saying it.
THEOREM EveryEndIsExplained == Spec => []VerdictIsLogged
  <1>1. Init => VerdictIsLogged
    BY DEF Init, NoRow, VerdictIsLogged
  <1>2. IInv /\ VerdictIsLogged /\ [Next]_vars => VerdictIsLogged'
    BY LoggedStep DEF IInv
  <1>. QED
    BY Invariance, <1>1, <1>2, PTL DEF Spec

\* No step resurrects an expired command.
THEOREM ExpiryIsFinal == Spec => ExpiredIsFinal
  <1>1. IInv /\ [Next]_vars =>
          [\A cid \in CommandIds : rows[cid].status = "expired" =>
             rows'[cid] = [rows[cid] EXCEPT !.age = rows'[cid].age]]_vars
    <2>. SUFFICES ASSUME IInv, [Next]_vars, NEW x \in CommandIds,
                         rows[x].status = "expired"
                  PROVE  rows'[x] = [rows[x] EXCEPT !.age = rows'[x].age]
      OBVIOUS
    <2>1. TypeOK /\ CallOwnsPendingRow /\ rows[x] \in Row
      BY DEF IInv, TypeOK
    <2>2. rows'[x] = rows[x] \/ rows'[x] = Aged(rows[x])
      BY <2>1, RowChange DEF Created, CallEnded, GotAck, TimedOut, Overdue
    <2>3. \A r \in Row : /\ [r EXCEPT !.age = r.age] = r
                        /\ [r EXCEPT !.age = Aged(r).age] = Aged(r)
      BY DEF Row, Aged
    <2>. QED
      BY <2>1, <2>2, <2>3
  <1>. QED
    BY Invariance, <1>1, PTL DEF Spec, ExpiredIsFinal

\* No step takes a confirmation back.
THEOREM ConfirmationIsFinal == Spec => AckedIsFinal
  <1>1. IInv /\ [Next]_vars =>
          [\A cid \in CommandIds :
             rows[cid].status = "acked" => rows'[cid].status = "acked"]_vars
    <2>. SUFFICES ASSUME IInv, [Next]_vars, NEW x \in CommandIds,
                         rows[x].status = "acked"
                  PROVE  rows'[x].status = "acked"
      OBVIOUS
    <2>1. TypeOK /\ CallOwnsPendingRow
      BY DEF IInv
    <2>2. <<rows[x].controller, x>> \in done \ refused
      BY DEF IInv, AckedOnlyIfDone, RoutesAgree, DevicesFollowMessages
    <2>3. \A a \in Ack : AckChanges(x, a) => a.state # "rejected"
      BY <2>2 DEF AckChanges, Arriving
    <2>. QED
      BY <2>1, <2>3, RowFields DEF IsRow, AckChanges
  <1>. QED
    BY Invariance, <1>1, PTL DEF Spec, AckedIsFinal

-------------------------------------------------------------------------------
(* The service implements the abstract lifecycle. *)

\* As long as no device acts, the set of commands that lit an LED stays as it is:
\* a row keeps its controller, and nothing was done yet for a new one.
LEMMA ActedKept ==
    ASSUME IInv, [Next]_vars, done' = done
    PROVE  actedBar' = actedBar
  <1>. SUFFICES ASSUME NEW x \in CommandIds
                PROVE  <<rows'[x].controller, x>> \in done <=> <<rows[x].controller, x>> \in done
    BY DEF actedBar
  <1>. USE DEF IInv
  <1>1. CASE rows[x].status # "absent"
    BY <1>1, RouteKept
  <1>2. CASE rows[x].status = "absent"
    <2>1. \A m \in sent : m.cid # x
      BY <1>2 DEF RoutesAgree, OneLedPerCommand
    <2>2. \A c \in Controllers : <<c, x>> \notin done
      BY <2>1 DEF RoutesAgree, DevicesFollowMessages
    <2>. QED
      BY <2>2 DEF TypeOK
  <1>. QED
    BY <1>1, <1>2

\* The verdict on an updated row.
LEMMA Verdicts ==
    /\ \A d \in Drawers : VerdictOf(NewRow(d)) = "open"
    /\ \A d \in Drawers : VerdictOf(Failed(NewRow(d), "offline")) = "refused"
    /\ \A r \in Row : /\ VerdictOf(Published(r)) = "open"
                      /\ VerdictOf(Failed(r, "publish")) = "failed"
                      /\ VerdictOf(Failed(r, "rejected")) = "failed"
                      /\ VerdictOf(Confirmed(r)) = "confirmed"
                      /\ VerdictOf(Expired(r)) = "expired"
                      /\ VerdictOf(Aged(r)) = VerdictOf(r)
  <1>1. ASSUME NEW d \in Drawers
        PROVE  /\ VerdictOf(NewRow(d)) = "open"
               /\ VerdictOf(Failed(NewRow(d), "offline")) = "refused"
    <2>1. NewRow(d) \in Row /\ NewRow(d).status = "pending"
      BY RowTypes
    <2>2. /\ Failed(NewRow(d), "offline").status = "failed"
          /\ Failed(NewRow(d), "offline").error = "offline"
      BY <2>1, RowUpdates DEF IsRow
    <2>. QED
      BY <2>1, <2>2 DEF VerdictOf
  <1>2. ASSUME NEW r \in Row
        PROVE  /\ VerdictOf(Published(r)) = "open"
               /\ VerdictOf(Failed(r, "publish")) = "failed"
               /\ VerdictOf(Failed(r, "rejected")) = "failed"
               /\ VerdictOf(Confirmed(r)) = "confirmed"
               /\ VerdictOf(Expired(r)) = "expired"
    <2>1. /\ Published(r).status = "published" /\ Confirmed(r).status = "acked"
          /\ Expired(r).status = "expired"
      BY RowUpdates DEF IsRow
    <2>2. /\ Failed(r, "publish").status = "failed" /\ Failed(r, "publish").error = "publish"
          /\ Failed(r, "rejected").status = "failed" /\ Failed(r, "rejected").error = "rejected"
      BY RowUpdates DEF IsRow
    <2>. QED
      BY <2>1, <2>2 DEF VerdictOf
  <1>3. ASSUME NEW r \in Row
        PROVE  VerdictOf(Aged(r)) = VerdictOf(r)
    <2>1. Aged(r).status = r.status /\ Aged(r).error = r.error
      BY RowUpdates DEF IsRow
    <2>. QED
      BY <2>1 DEF VerdictOf
  <1>. QED
    BY <1>1, <1>2, <1>3

LEMMA LifecycleInit == Init => Lifecycle!Init
  BY DEF Init, Lifecycle!Init, verdictBar, actedBar, VerdictOf, NoRow

LEMMA LifecycleStep == IInv /\ [Next]_vars => [Lifecycle!Next]_(Lifecycle!vars)
  <1>. SUFFICES ASSUME IInv, [Next]_vars
                PROVE  Lifecycle!Next \/ UNCHANGED <<verdictBar, actedBar>>
    BY DEF Lifecycle!vars
  <1>. DEFINE Goal == Lifecycle!Next \/ UNCHANGED <<verdictBar, actedBar>>
  <1>0. /\ TypeOK /\ CallOwnsPendingRow /\ RoutesAgree /\ RefusedNeverSent
        /\ AckedOnlyIfDone
        /\ rows \in [CommandIds -> Row]
        /\ \A cid \in CommandIds : verdictBar[cid] = VerdictOf(rows[cid])
    BY DEF IInv, TypeOK, verdictBar
  <1>1. ASSUME NEW cid \in CommandIds, NEW d \in Drawers, LocateRefused(cid, d)
        PROVE  Goal
    <2>1. verdictBar[cid] = "new"
      BY <1>0, <1>1 DEF LocateRefused, IsNew, VerdictOf
    <2>2. verdictBar' = [verdictBar EXCEPT ![cid] = "refused"]
      BY <1>0, <1>1, Verdicts DEF LocateRefused, verdictBar
    <2>3. actedBar' = actedBar
      BY <1>1, ActedKept DEF LocateRefused, outside
    <2>. QED
      BY <2>1, <2>2, <2>3 DEF Lifecycle!Next, Lifecycle!Refuse
  <1>2. ASSUME NEW cid \in CommandIds, NEW d \in Drawers, LocateBegins(cid, d)
        PROVE  Goal
    <2>1. verdictBar[cid] = "new"
      BY <1>0, <1>2 DEF LocateBegins, IsNew, VerdictOf
    <2>2. verdictBar' = [verdictBar EXCEPT ![cid] = "open"]
      BY <1>0, <1>2, Verdicts DEF LocateBegins, verdictBar
    <2>3. actedBar' = actedBar
      BY <1>2, ActedKept DEF LocateBegins, outside
    <2>. QED
      BY <2>1, <2>2, <2>3 DEF Lifecycle!Next, Lifecycle!Open
  <1>3. CASE Publish
    <2>1. /\ call.cid \in CommandIds /\ rows[call.cid] \in Row
          /\ rows[call.cid].status = "pending" /\ done' = done
      BY <1>0, <1>3, CallTypes DEF Publish, PublishReturns, PublishRaises, CallOwnsPendingRow
    <2>2. verdictBar[call.cid] = "open"
      BY <1>0, <2>1 DEF VerdictOf
    <2>3. \/ rows' = rows
          \/ rows' = [rows EXCEPT ![call.cid] = Published(rows[call.cid])]
          \/ rows' = [rows EXCEPT ![call.cid] = Failed(rows[call.cid], "publish")]
      BY <1>3 DEF Publish, PublishReturns, PublishRaises
    <2>4. verdictBar' = verdictBar \/ verdictBar' = [verdictBar EXCEPT ![call.cid] = "failed"]
      BY <1>0, <2>1, <2>2, <2>3, Verdicts DEF verdictBar
    <2>. QED
      BY <2>1, <2>2, <2>4, ActedKept DEF Lifecycle!Next, Lifecycle!Fail
  <1>4. ASSUME NEW a \in Ack, Arriving(a), AckApplied(a)
        PROVE  Goal
    <2>. DEFINE x == a.cid
    <2>1. /\ x \in CommandIds /\ a.state \in AckStates /\ rows[x] \in Row
          /\ done' = done /\ rows[x].controller = a.controller
          /\ rows[x].status \notin {"absent", "expired"}
          /\ rows' = [rows EXCEPT ![x] = Acknowledged(rows[x], a.state)]
      BY <1>0, <1>4 DEF AckApplied, Ack, outside, IsFromOwner, IsKnown, IsStale
    <2>2. rows[x].status # "pending"
      BY <1>0, <1>4, CallTypes, NoIdAssumption DEF AckApplied, Ack, CallOwnsPendingRow
    <2>3. actedBar' = actedBar
      BY <2>1, ActedKept
    <2>4. verdictBar' = [verdictBar EXCEPT ![x] = VerdictOf(Acknowledged(rows[x], a.state))]
      BY <1>0, <2>1 DEF verdictBar
    <2>5. CASE a.state = "received"
      <3>1. Acknowledged(rows[x], a.state) = rows[x]
        BY <2>2, <2>5 DEF Acknowledged
      <3>. QED
        BY <1>0, <2>1, <2>3, <2>4, <3>1 DEF verdictBar
    <2>6. CASE a.state = "completed" /\ rows[x].status = "acked"
      <3>1. Acknowledged(rows[x], a.state) = rows[x]
        BY <2>6 DEF Acknowledged
      <3>. QED
        BY <1>0, <2>1, <2>3, <2>4, <3>1 DEF verdictBar
    <2>7. CASE a.state = "completed" /\ rows[x].status # "acked"
      <3>1. <<rows[x].controller, x>> \in done /\ rows[x].controller \in Controllers
        BY <1>4, <2>1, <2>7 DEF Arriving, Row
      <3>2. rows[x].error # "offline"
        BY <1>0, <2>1, <3>1 DEF RefusedNeverSent
      <3>3. verdictBar[x] \in {"open", "failed"}
        BY <1>0, <2>1, <2>2, <2>7, <3>2 DEF VerdictOf, Row, Statuses
      <3>4. verdictBar' = [verdictBar EXCEPT ![x] = "confirmed"]
        BY <2>1, <2>4, <2>7, Verdicts DEF Acknowledged
      <3>5. x \in actedBar
        BY <2>1, <3>1 DEF actedBar
      <3>. QED
        BY <2>1, <2>3, <3>3, <3>4, <3>5 DEF Lifecycle!Next, Lifecycle!Confirm
    <2>8. CASE a.state = "rejected"
      <3>1. <<rows[x].controller, x>> \in refused /\ rows[x].controller \in Controllers
        BY <1>4, <2>1, <2>8 DEF Arriving, Row
      <3>2. rows[x].error # "offline"
        BY <1>0, <2>1, <3>1 DEF RefusedNeverSent, RoutesAgree, DevicesFollowMessages
      <3>3. rows[x].status # "acked"
        BY <1>0, <2>1, <3>1 DEF AckedOnlyIfDone, RoutesAgree, DevicesFollowMessages
      <3>4. verdictBar[x] \in {"open", "failed"}
        BY <1>0, <2>1, <2>2, <3>2, <3>3 DEF VerdictOf, Row, Statuses
      <3>5. verdictBar' = [verdictBar EXCEPT ![x] = "failed"]
        BY <2>1, <2>4, <2>8, Verdicts DEF Acknowledged
      <3>6. CASE verdictBar[x] = "open"
        BY <2>1, <2>3, <3>5, <3>6 DEF Lifecycle!Next, Lifecycle!Fail
      <3>7. CASE verdictBar[x] = "failed"
        BY <2>1, <2>3, <3>5, <3>7 DEF verdictBar
      <3>. QED
        BY <3>4, <3>6, <3>7
    <2>. QED
      BY <2>1, <2>5, <2>6, <2>7, <2>8 DEF AckStates
  <1>5. ASSUME UNCHANGED <<rows, done>>
        PROVE  Goal
    BY <1>5 DEF verdictBar, actedBar
  <1>6. CASE ExpireStaleCommands
    <2>. DEFINE late == {x \in CommandIds : Overdue(rows[x])}
    <2>1. \A x \in late : verdictBar[x] = "open"
      BY <1>0 DEF Overdue, VerdictOf
    <2>2. verdictBar' = [x \in CommandIds |-> IF x \in late THEN "expired" ELSE verdictBar[x]]
      <3>1. \A x \in CommandIds : VerdictOf(rows'[x]) =
                IF x \in late THEN "expired" ELSE VerdictOf(rows[x])
        <4>. SUFFICES ASSUME NEW x \in CommandIds
                      PROVE  VerdictOf(rows'[x]) =
                                IF x \in late THEN "expired" ELSE VerdictOf(rows[x])
          OBVIOUS
        <4>1. rows'[x] = IF x \in late THEN Expired(rows[x]) ELSE rows[x]
          BY <1>6 DEF ExpireStaleCommands
        <4>2. VerdictOf(Expired(rows[x])) = "expired"
          BY <1>0, Verdicts
        <4>. QED
          BY <4>1, <4>2
      <3>. QED
        BY <3>1 DEF verdictBar
    <2>3. actedBar' = actedBar
      BY <1>6, ActedKept DEF ExpireStaleCommands, outside
    <2>. QED
      BY <2>1, <2>2, <2>3 DEF Lifecycle!Next, Lifecycle!Expire
  <1>7. CASE Tick
    <2>1. verdictBar' = verdictBar
      BY <1>0, <1>7, Verdicts DEF Tick, verdictBar
    <2>. QED
      BY <1>7, <2>1, ActedKept DEF Tick, outside
  <1>8. ASSUME NEW m \in sent, DeviceActs(m)
        PROVE  Goal
    <2>1. /\ m.cid \in CommandIds /\ m.controller = rows[m.cid].controller
          /\ rows[m.cid].status # "absent" /\ rows[m.cid].error # "offline"
      BY <1>0 DEF TypeOK, Message, RoutesAgree, OneLedPerCommand, RefusedNeverSent
    <2>2. verdictBar[m.cid] \notin {"new", "refused"}
      BY <1>0, <2>1 DEF VerdictOf, Row, Statuses
    <2>3. verdictBar' = verdictBar
      BY <1>8 DEF DeviceActs, service, verdictBar
    <2>4. actedBar' = actedBar \cup {m.cid}
      BY <1>8, <2>1 DEF DeviceActs, service, actedBar
    <2>. QED
      BY <2>1, <2>2, <2>3, <2>4 DEF Lifecycle!Next, Lifecycle!Light
  <1>. QED
    BY <1>1, <1>2, <1>3, <1>4, <1>5, <1>6, <1>7, <1>8
       DEF Next, Issue, Receive, HandleAck, AckMismatch, AckStale, Monitor, MarkOffline,
           HandleStatus, Devices, DeviceRejects, service, outside, vars

\* For every topology, id set, retry policy and timeout, the service keeps the
\* promises of LocateLifecycle.
THEOREM Refinement == Spec => RefinesLifecycle
  BY Invariance, LifecycleInit, LifecycleStep, PTL DEF Spec, RefinesLifecycle, Lifecycle!Spec
==============================================================================

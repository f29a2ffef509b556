-------------------------- MODULE FindItSystemProofs --------------------------
(***************************************************************************)
(* That the command service and real nodes together are what the service   *)
(* is specified against: proved for every topology, set of short ids,      *)
(* retry policy, timeout and window.                                       *)
(*                                                                         *)
(* A fact about an INSTANCE cannot be cited, so this module has its own    *)
(* invariant.  It is smaller than those of CommandServiceProofs and        *)
(* ControllerNodeProofs: of the service it needs only that a message       *)
(* carries the route of a row that was not refused, and of a node that it  *)
(* remembers, confirms and shows nothing but what was sent to it.          *)
(***************************************************************************)
EXTENDS FindItSystem, RoutingProofs

\* No id is cut.
ShortIds == \A cid \in CommandIds : Cut[cid] = cid

\* A row for an LED there is, without the bounds on ages.
PlainRow == [status : Service!Statuses, controller : Controllers, led : Leds,
             age : Int, ackedAt : BOOLEAN, error : Service!Errors]

BackendTypes ==
    /\ rows \in [CommandIds -> PlainRow]
    /\ call \in {Service!NoCall} \cup [cid : CommandIds, attempt : Int]
    /\ sent \subseteq Service!Message

NodeTypes ==
    /\ ids \in [Controllers -> [Node!Slots -> Names \cup {NoName}]]
    /\ work \in [Controllers ->
                   {Node!NoWork} \cup [stage : {"apply", "report"}, command : Node!Command]]
    /\ pixels \in [Controllers -> SUBSET Leds]
    /\ acks \subseteq Node!NodeAck

\* The row of a command that was issued and not refused.
Live(row) == row.status # "absent" /\ row.error # "offline"

\* Only such commands are published, with the routes of their rows.
OnlyLiveSent ==
    /\ ~Service!Idle => Live(rows[call.cid])
    /\ \A m \in sent : /\ Live(rows[m.cid])
                       /\ m.controller = rows[m.cid].controller
                       /\ m.led = rows[m.cid].led

\* A node works on what was sent to it, and has driven its LED before it reports.
WorkIsSent ==
    \A c \in Controllers : work[c] # Node!NoWork =>
        /\ \E m \in sent : m.controller = c /\ work[c].command = Locate(m)
        /\ work[c].stage = "report" => <<c, work[c].command.cid>> \in obeyed

Applying(c, cid) ==
    work[c] # Node!NoWork /\ work[c].stage = "apply" /\ work[c].command.cid = cid

\* What a node remembers it has obeyed, or is about to.
RememberedIsObeyed ==
    \A c \in Controllers, cid \in CommandIds :
        Node!Contains(c, cid) => <<c, cid>> \in obeyed \/ Applying(c, cid)

\* A node confirms reception of what was sent to it, and completion of what it obeyed.
Honest(a) ==
    /\ a.name \in CommandIds /\ a.controller \in Controllers
    /\ \/ a.state = "received" /\ \E m \in sent : m.cid = a.name /\ m.controller = a.controller
       \/ a.state = "completed" /\ <<a.controller, a.name>> \in obeyed

AcksAreHonest == \A a \in acks : Honest(a)

\* A node shows what was sent to it.
PixelsAreSent ==
    \A c \in Controllers : \A led \in pixels[c] : \E m \in sent : m.controller = c /\ m.led = led

IInv == /\ BackendTypes /\ NodeTypes
        /\ OnlyLiveSent
        /\ WorkIsSent
        /\ RememberedIsObeyed
        /\ AcksAreHonest
        /\ PixelsAreSent

-------------------------------------------------------------------------------
(* Service and nodes route alike. *)

LEMMA SameRouting ==
    /\ Service!Drawers = Drawers /\ Service!Controllers = Controllers /\ Service!Leds = Leds
    /\ Node!Controllers = Controllers /\ Node!Leds = Leds
    /\ \A d : Service!ControllerOf(d) = ControllerOf(d) /\ Service!LedOf(d) = LedOf(d)
  BY DEF Service!Drawers, Service!Controllers, Service!Leds, Service!ControllerOf,
         Service!LedOf, Node!Controllers, Node!Leds, Drawers, Controllers, Leds, ControllerOf,
         LedOf

-------------------------------------------------------------------------------
(* Rows *)

\* q is a row for the same LED as r.
SameLed(q, r) == q \in PlainRow /\ q.controller = r.controller /\ q.led = r.led

LEMMA NewRows ==
    /\ Service!NoRow \in PlainRow /\ Service!NoRow.status = "absent"
    /\ \A d \in Drawers : /\ Service!NewRow(d) \in PlainRow
                          /\ Service!NewRow(d).status = "pending"
                          /\ Service!NewRow(d).error = "none"
  <1>1. 1 \in Controllers /\ 0 \in Leds /\ Service!NoTime \in Int
    BY TopologyAssumption, SMT DEF Controllers, Leds, Service!NoTime
  <1>2. Service!NoRow \in PlainRow /\ Service!NoRow.status = "absent"
    BY <1>1 DEF Service!NoRow, PlainRow, Service!Statuses, Service!Errors
  <1>3. ASSUME NEW d \in Drawers
        PROVE  /\ Service!NewRow(d) \in PlainRow
               /\ Service!NewRow(d).status = "pending"
               /\ Service!NewRow(d).error = "none"
    <2>. DEFINE q == Service!NewRow(d)
    <2>2. Service!NoRow.error = "none"
      BY DEF Service!NoRow
    <2>3. ControllerOf(d) \in Controllers /\ LedOf(d) \in Leds
      BY RouteInTopology
    <2>4. Service!NewRow(d) = [Service!NoRow EXCEPT !.status = "pending",
                                                   !.controller = ControllerOf(d),
                                                   !.led = LedOf(d)]
      BY SameRouting DEF Service!NewRow
    <2>5. q.status = "pending" /\ q.error = "none"
      BY <1>2, <2>2, <2>4 DEF PlainRow
    <2>6. q \in PlainRow
      <3>1. "pending" \in Service!Statuses
        BY DEF Service!Statuses
      <3>. QED
        BY <1>2, <2>3, <2>4, <3>1 DEF PlainRow
    <2>. QED
      BY <2>5, <2>6
  <1>. QED
    BY <1>2, <1>3

LEMMA RowUpdates ==
    ASSUME NEW r \in PlainRow
    PROVE  /\ \A e \in Service!Errors : /\ SameLed(Service!Failed(r, e), r)
                                        /\ Service!Failed(r, e).status = "failed"
                                        /\ Service!Failed(r, e).error = e
           /\ /\ SameLed(Service!Published(r), r)
              /\ Service!Published(r).status = "published"
              /\ Service!Published(r).error = r.error
           /\ /\ SameLed(Service!Confirmed(r), r)
              /\ Service!Confirmed(r).status = "acked"
              /\ Service!Confirmed(r).error = r.error
           /\ /\ SameLed(Service!Expired(r), r)
              /\ Service!Expired(r).status = "expired"
              /\ Service!Expired(r).error = "timeout"
              /\ Service!Expired(r).age = r.age
           /\ /\ SameLed(Service!Aged(r), r)
              /\ Service!Aged(r).status = r.status
              /\ Service!Aged(r).error = r.error
              /\ Service!Aged(r).age = Service!Older(r.age)
           /\ /\ SameLed([r EXCEPT !.status = "published"], r)
              /\ [r EXCEPT !.status = "published"].status = "published"
              /\ [r EXCEPT !.status = "published"].error = r.error
  <1>1. {"failed", "published", "acked", "expired"} \subseteq Service!Statuses
    BY DEF Service!Statuses
  <1>2. ASSUME NEW e \in Service!Errors, NEW s \in Service!Statuses
        PROVE  LET q == [r EXCEPT !.status = s, !.error = e]
               IN  SameLed(q, r) /\ q.status = s /\ q.error = e /\ q.age = r.age
    BY DEF SameLed, PlainRow
  <1>3. ASSUME NEW s \in Service!Statuses, NEW t \in Int
        PROVE  LET q == [r EXCEPT !.status = s, !.age = t]
               IN  SameLed(q, r) /\ q.status = s /\ q.error = r.error
    BY DEF SameLed, PlainRow
  <1>4. ASSUME NEW s \in Service!Statuses
        PROVE  LET q == [r EXCEPT !.status = s, !.ackedAt = TRUE]
               IN  SameLed(q, r) /\ q.status = s /\ q.error = r.error
    BY DEF SameLed, PlainRow
  <1>5. ASSUME NEW t \in Int
        PROVE  LET q == [r EXCEPT !.age = t]
               IN  SameLed(q, r) /\ q.status = r.status /\ q.error = r.error /\ q.age = t
    BY DEF SameLed, PlainRow
  <1>6. ASSUME NEW s \in Service!Statuses
        PROVE  LET q == [r EXCEPT !.status = s]
               IN  SameLed(q, r) /\ q.status = s /\ q.error = r.error
    BY DEF SameLed, PlainRow
  <1>7. r.age \in Int
    BY DEF PlainRow
  <1>8. Service!Older(r.age) \in Int
    BY <1>7, SMT DEF Service!Older
  <1>9. \A e \in Service!Errors : /\ SameLed(Service!Failed(r, e), r)
                                  /\ Service!Failed(r, e).status = "failed"
                                  /\ Service!Failed(r, e).error = e
    BY <1>1, <1>2 DEF Service!Failed
  <1>10. /\ SameLed(Service!Published(r), r)
         /\ Service!Published(r).status = "published"
         /\ Service!Published(r).error = r.error
    <2>1. 0 \in Int
      BY SMT
    <2>. QED
      BY <1>1, <1>3, <2>1 DEF Service!Published
  <1>11. /\ SameLed(Service!Confirmed(r), r)
         /\ Service!Confirmed(r).status = "acked"
         /\ Service!Confirmed(r).error = r.error
    BY <1>1, <1>4 DEF Service!Confirmed
  <1>12. /\ SameLed(Service!Expired(r), r)
         /\ Service!Expired(r).status = "expired"
         /\ Service!Expired(r).error = "timeout"
         /\ Service!Expired(r).age = r.age
    <2>1. "timeout" \in Service!Errors
      BY DEF Service!Errors
    <2>. QED
      BY <1>1, <1>2, <2>1 DEF Service!Expired
  <1>13. /\ SameLed(Service!Aged(r), r)
         /\ Service!Aged(r).status = r.status
         /\ Service!Aged(r).error = r.error
         /\ Service!Aged(r).age = Service!Older(r.age)
    BY <1>5, <1>8 DEF Service!Aged
  <1>14. /\ SameLed([r EXCEPT !.status = "published"], r)
         /\ [r EXCEPT !.status = "published"].status = "published"
         /\ [r EXCEPT !.status = "published"].error = r.error
    BY <1>1, <1>6
  <1>. QED
    BY <1>9, <1>10, <1>11, <1>12, <1>13, <1>14

\* An accepted ACK leaves a row as it is, or gives it a status other than expired.
LEMMA AcknowledgedRow ==
    ASSUME NEW r \in PlainRow, NEW s \in Service!AckStates
    PROVE  LET q == Service!Acknowledged(r, s)
           IN  \/ q = r
               \/ /\ SameLed(q, r) /\ q.status \in {"published", "acked", "failed"}
                  /\ q.error \in {r.error, "rejected"}
  <1>1. "rejected" \in Service!Errors
    BY DEF Service!Errors
  <1>2. CASE s = "received" /\ r.status = "pending"
    BY <1>2, RowUpdates DEF Service!Acknowledged
  <1>3. CASE s = "completed" /\ r.status # "acked"
    BY <1>3, RowUpdates DEF Service!Acknowledged
  <1>4. CASE s = "rejected"
    BY <1>1, <1>4, RowUpdates DEF Service!Acknowledged
  <1>5. CASE \/ s = "received" /\ r.status # "pending"
             \/ s = "completed" /\ r.status = "acked"
    BY <1>5 DEF Service!Acknowledged
  <1>. QED
    BY <1>2, <1>3, <1>4, <1>5 DEF Service!AckStates

-------------------------------------------------------------------------------
(* What a step of the service does to one row, and to the messages sent. *)

Created(x) ==
    /\ rows[x].status = "absent"
    /\ \E d \in Drawers : \/ rows'[x] = Service!NewRow(d)
                         \/ rows'[x] = Service!Failed(Service!NewRow(d), "offline")

Updated(x) ==
    /\ SameLed(rows'[x], rows[x])
    /\ rows[x].status # "absent" => rows'[x].status # "absent"
    /\ rows'[x].error \in {rows[x].error, "publish", "rejected", "timeout"}
    /\ rows'[x].status = "expired" =>
          \/ rows[x].status = "expired" /\ rows'[x].age = Service!Older(rows[x].age)
          \/ rows[x].age > AckTimeout /\ rows'[x].age = rows[x].age

LEMMA CallTypes ==
    ASSUME BackendTypes, ~Service!Idle
    PROVE  call \in [cid : CommandIds, attempt : Int] /\ call.cid \in CommandIds
  BY DEF BackendTypes, Service!Idle

LEMMA RowsStay ==
    ASSUME BackendTypes, ServiceStep
    PROVE  rows' = [x \in CommandIds |-> rows'[x]]
  BY DEF BackendTypes, ServiceStep, Service!Issue, Service!LocateRefused, Service!LocateBegins,
         Service!Publish, Service!PublishReturns, Service!PublishRaises, AckArrives,
         Service!HandleAck, Service!AckMismatch, Service!AckStale, Service!AckApplied,
         Service!ExpireStaleCommands, Service!Tick, Reported, Service!HandleStatus,
         Service!MarkOffline

LEMMA RowChange ==
    ASSUME BackendTypes, NodeTypes, ServiceStep, NEW x \in CommandIds
    PROVE  rows'[x] = rows[x] \/ Created(x) \/ Updated(x)
  <1>. DEFINE Goal == rows'[x] = rows[x] \/ Created(x) \/ Updated(x)
  <1>0. rows \in [CommandIds -> PlainRow] /\ rows[x] \in PlainRow
    BY DEF BackendTypes
  <1>1. ASSUME NEW cid \in CommandIds, NEW d \in Drawers, Service!LocateRefused(cid, d)
        PROVE  Goal
    BY <1>0, <1>1 DEF Service!LocateRefused, Service!IsNew, Created
  <1>2. ASSUME NEW cid \in CommandIds, NEW d \in Drawers, Service!LocateBegins(cid, d)
        PROVE  Goal
    BY <1>0, <1>2 DEF Service!LocateBegins, Service!IsNew, Created
  <1>3. CASE Service!PublishReturns
    <2>1. rows' = [rows EXCEPT ![call.cid] = Service!Published(rows[call.cid])]
      BY <1>3 DEF Service!PublishReturns
    <2>2. rows'[x] = rows[x] \/ rows'[x] = Service!Published(rows[x])
      BY <1>0, <2>1
    <2>3. ASSUME rows'[x] = Service!Published(rows[x])
          PROVE  Updated(x)
      <3>1. /\ SameLed(Service!Published(rows[x]), rows[x])
            /\ Service!Published(rows[x]).status = "published"
            /\ Service!Published(rows[x]).error = rows[x].error
        BY <1>0, RowUpdates
      <3>. QED
        BY <2>3, <3>1 DEF Updated
    <2>. QED
      BY <2>2, <2>3
  <1>4. CASE Service!PublishRaises
    <2>1. \/ rows' = rows
          \/ rows' = [rows EXCEPT ![call.cid] = Service!Failed(rows[call.cid], "publish")]
      BY <1>4 DEF Service!PublishRaises
    <2>2. rows'[x] = rows[x] \/ rows'[x] = Service!Failed(rows[x], "publish")
      BY <1>0, <2>1
    <2>3. ASSUME rows'[x] = Service!Failed(rows[x], "publish")
          PROVE  Updated(x)
      <3>1. "publish" \in Service!Errors
        BY DEF Service!Errors
      <3>2. /\ SameLed(Service!Failed(rows[x], "publish"), rows[x])
            /\ Service!Failed(rows[x], "publish").status = "failed"
            /\ Service!Failed(rows[x], "publish").error = "publish"
        BY <1>0, <3>1, RowUpdates
      <3>. QED
        BY <2>3, <3>2 DEF Updated
    <2>. QED
      BY <2>2, <2>3
  <1>5. CASE AckArrives
    <2>1. PICK a \in acks :
             /\ a.name \in CommandIds
             /\ Service!HandleAck([cid |-> a.name, controller |-> a.controller,
                                   state |-> a.state])
      BY <1>5 DEF AckArrives
    <2>2. a.state \in Service!AckStates
      BY DEF NodeTypes, Node!NodeAck, Service!AckStates
    <2>3. \/ rows' = rows
          \/ /\ rows[a.name].status # "expired"
             /\ rows' = [rows EXCEPT ![a.name] = Service!Acknowledged(rows[a.name], a.state)]
      BY <2>1 DEF Service!HandleAck, Service!AckMismatch, Service!AckStale, Service!AckApplied,
                  Service!IsStale
    <2>4. rows'[x] = rows[x] \/ rows'[x] = Service!Acknowledged(rows[x], a.state)
      BY <1>0, <2>3
    <2>5. ASSUME rows'[x] = Service!Acknowledged(rows[x], a.state), rows'[x] # rows[x]
          PROVE  Updated(x)
      <3>1. /\ SameLed(rows'[x], rows[x])
            /\ rows'[x].status \in {"published", "acked", "failed"}
            /\ rows'[x].error \in {rows[x].error, "rejected"}
        BY <1>0, <2>2, <2>5, AcknowledgedRow
      <3>. QED
        BY <3>1 DEF Updated
    <2>. QED
      BY <2>4, <2>5
  <1>6. CASE Service!ExpireStaleCommands
    <2>1. rows' = [y \in CommandIds |-> IF Service!Overdue(rows[y])
                                        THEN Service!Expired(rows[y]) ELSE rows[y]]
      BY <1>6 DEF Service!ExpireStaleCommands
    <2>2. ASSUME Service!Overdue(rows[x])
          PROVE  Updated(x)
      <3>1. /\ rows'[x] = Service!Expired(rows[x]) /\ rows[x].age > AckTimeout
        BY <2>1, <2>2 DEF Service!Overdue
      <3>2. /\ SameLed(Service!Expired(rows[x]), rows[x])
            /\ Service!Expired(rows[x]).status = "expired"
            /\ Service!Expired(rows[x]).error = "timeout"
            /\ Service!Expired(rows[x]).age = rows[x].age
        BY <1>0, RowUpdates
      <3>. QED
        BY <3>1, <3>2 DEF Updated
    <2>. QED
      BY <2>1, <2>2
  <1>7. CASE Service!Tick
    <2>1. rows' = [y \in CommandIds |-> Service!Aged(rows[y])]
      BY <1>7 DEF Service!Tick
    <2>2. /\ SameLed(Service!Aged(rows[x]), rows[x])
          /\ Service!Aged(rows[x]).status = rows[x].status
          /\ Service!Aged(rows[x]).error = rows[x].error
          /\ Service!Aged(rows[x]).age = Service!Older(rows[x].age)
      BY <1>0, RowUpdates
    <2>. QED
      BY <2>1, <2>2 DEF Updated
  <1>8. CASE Reported
    BY <1>0, <1>8 DEF Reported, Service!HandleStatus, Service!MarkOffline
  <1>. QED
    BY <1>1, <1>2, <1>3, <1>4, <1>5, <1>6, <1>7, <1>8, SameRouting
       DEF ServiceStep, Service!Issue, Service!Publish

LEMMA SentChange ==
    ASSUME BackendTypes, ServiceStep
    PROVE  /\ sent \subseteq sent'
           /\ \A m \in sent' \ sent : ~Service!Idle /\ m = Service!MessageFor(call.cid)
           /\ \/ call' = Service!NoCall
              \/ ~Service!Idle /\ call' = call
              \/ /\ ~Service!Idle
                 /\ call' \in [cid : CommandIds, attempt : Int] /\ call'.cid = call.cid
              \/ \E cid \in CommandIds, d \in Drawers :
                    /\ call' = [cid |-> cid, attempt |-> 1]
                    /\ rows' = [rows EXCEPT ![cid] = Service!NewRow(d)]
  <1>. DEFINE Goal ==
           /\ sent \subseteq sent'
           /\ \A m \in sent' \ sent : ~Service!Idle /\ m = Service!MessageFor(call.cid)
           /\ \/ call' = Service!NoCall
              \/ ~Service!Idle /\ call' = call
              \/ /\ ~Service!Idle
                 /\ call' \in [cid : CommandIds, attempt : Int] /\ call'.cid = call.cid
              \/ \E cid \in CommandIds, d \in Drawers :
                    /\ call' = [cid |-> cid, attempt |-> 1]
                    /\ rows' = [rows EXCEPT ![cid] = Service!NewRow(d)]
  <1>1. ASSUME NEW cid \in CommandIds, NEW d \in Drawers, Service!LocateBegins(cid, d)
        PROVE  Goal
    BY <1>1 DEF Service!LocateBegins, Service!FirstAttempt, Service!outside
  <1>2. CASE Service!PublishReturns
    BY <1>2 DEF Service!PublishReturns
  <1>3. CASE Service!PublishRaises
    <2>1. call' = Service!NoCall \/ call' = [call EXCEPT !.attempt = @ + 1]
      BY <1>3 DEF Service!PublishRaises
    <2>2. ~Service!Idle /\ call \in [cid : CommandIds, attempt : Int]
      BY <1>3, CallTypes DEF Service!PublishRaises
    <2>3. call.attempt + 1 \in Int
      BY <2>2, SMT
    <2>4. \/ call' = Service!NoCall
          \/ call' \in [cid : CommandIds, attempt : Int] /\ call'.cid = call.cid
      BY <2>1, <2>2, <2>3
    <2>. QED
      BY <1>3, <2>2, <2>4 DEF Service!PublishRaises
  <1>4. ASSUME UNCHANGED <<call, sent>>
        PROVE  Goal
    BY <1>4 DEF Service!Idle
  <1>. QED
    BY <1>1, <1>2, <1>3, <1>4, SameRouting
       DEF ServiceStep, Service!Issue, Service!Publish, Service!LocateRefused, AckArrives,
           Service!HandleAck, Service!AckMismatch, Service!AckStale, Service!AckApplied,
           Service!ExpireStaleCommands, Service!Tick, Reported, Service!HandleStatus,
           Service!MarkOffline, Service!outside

-------------------------------------------------------------------------------
(* The backend's part of the invariant *)

LEMMA BackendChange ==
    ASSUME [Next]_vars
    PROVE  ServiceStep \/ UNCHANGED backend
  BY DEF Next, NodeStep, vars

LEMMA LiveKept ==
    ASSUME BackendTypes, NodeTypes, [Next]_vars, NEW x \in CommandIds, Live(rows[x])
    PROVE  /\ Live(rows'[x])
           /\ rows'[x].controller = rows[x].controller /\ rows'[x].led = rows[x].led
  <1>1. CASE UNCHANGED backend
    BY <1>1 DEF backend
  <1>2. CASE ServiceStep
    <2>1. rows'[x] = rows[x] \/ Updated(x)
      BY <1>2, RowChange DEF Created, Live
    <2>. QED
      BY <2>1 DEF Updated, SameLed, Live
  <1>. QED
    BY <1>1, <1>2, BackendChange

LEMMA BackendStep ==
    ASSUME BackendTypes, NodeTypes, OnlyLiveSent, [Next]_vars
    PROVE  BackendTypes' /\ OnlyLiveSent' /\ sent \subseteq sent'
  <1>1. CASE UNCHANGED backend
    BY <1>1 DEF backend, BackendTypes, OnlyLiveSent, Service!Idle
  <1>2. CASE ServiceStep
    <2>1. rows' \in [CommandIds -> PlainRow]
      <3>1. ASSUME NEW x \in CommandIds
            PROVE  rows'[x] \in PlainRow
        <4>1. \A d \in Drawers : Service!Failed(Service!NewRow(d), "offline") \in PlainRow
          <5>1. "offline" \in Service!Errors
            BY DEF Service!Errors
          <5>. QED
            BY <5>1, NewRows, RowUpdates DEF SameLed
        <4>. QED
          BY <1>2, <4>1, RowChange, NewRows DEF BackendTypes, Created, Updated, SameLed
      <3>. QED
        BY <1>2, <3>1, RowsStay
    <2>2. call' \in {Service!NoCall} \cup [cid : CommandIds, attempt : Int]
      <3>1. 1 \in Int
        BY SMT
      <3>. QED
        BY <1>2, <3>1, SentChange, CallTypes
    <2>3. ASSUME ~Service!Idle
          PROVE  LET m == Service!MessageFor(call.cid)
                 IN  /\ m \in Service!Message /\ m.cid = call.cid
                     /\ m.controller = rows[m.cid].controller /\ m.led = rows[m.cid].led
      <3>1. call.cid \in CommandIds /\ rows[call.cid] \in PlainRow
        BY <2>3, CallTypes DEF BackendTypes
      <3>2. rows[call.cid].controller \in Controllers /\ rows[call.cid].led \in Leds
        BY <3>1 DEF PlainRow
      <3>. QED
        BY <3>1, <3>2, SameRouting DEF Service!MessageFor, Service!Message
    <2>4. sent' \subseteq Service!Message
      BY <1>2, <2>3, SentChange DEF BackendTypes
    <2>5. ASSUME NEW m \in sent'
          PROVE  /\ m.cid \in CommandIds /\ Live(rows[m.cid])
                 /\ m.controller = rows[m.cid].controller /\ m.led = rows[m.cid].led
      <3>1. m.cid \in CommandIds
        BY <2>4 DEF Service!Message
      <3>. QED
        BY <1>2, <2>3, <3>1, SentChange DEF OnlyLiveSent
    <2>6. \A m \in sent' : /\ Live(rows'[m.cid])
                           /\ m.controller = rows'[m.cid].controller
                           /\ m.led = rows'[m.cid].led
      BY <2>5, LiveKept
    <2>7. ASSUME ~(Service!Idle')
          PROVE  Live(rows'[call'.cid])
      <3>1. CASE ~Service!Idle /\ call'.cid = call.cid
        BY <3>1, CallTypes, LiveKept DEF OnlyLiveSent
      <3>2. ASSUME NEW cid \in CommandIds, NEW d \in Drawers,
                   call' = [cid |-> cid, attempt |-> 1],
                   rows' = [rows EXCEPT ![cid] = Service!NewRow(d)]
            PROVE  Live(rows'[call'.cid])
        <4>1. rows'[cid] = Service!NewRow(d) /\ call'.cid = cid
          BY <3>2 DEF BackendTypes
        <4>. QED
          BY <4>1, NewRows DEF Live
      <3>3. call' # Service!NoCall
        BY <2>7 DEF Service!Idle
      <3>. QED
        BY <1>2, <3>1, <3>2, <3>3, SentChange
    <2>. QED
      BY <1>2, <2>1, <2>2, <2>4, <2>6, <2>7, SentChange DEF BackendTypes, OnlyLiveSent
  <1>. QED
    BY <1>1, <1>2, BackendChange

-------------------------------------------------------------------------------
(* The nodes' part *)

\* The payload of a message that the service sent, as a node reads it.
LEMMA LocateIs ==
    ASSUME BackendTypes, ShortIds, NEW m \in sent
    PROVE  /\ m.cid \in CommandIds /\ m.controller \in Controllers /\ m.led \in Leds
           /\ Locate(m) \in Node!Command /\ Locate(m).cid = m.cid /\ Cut[m.cid] = m.cid
           /\ m.cid \in Names /\ m.cid # NoName
           /\ Locate(m).verdict \notin Node!Refusals /\ Node!Shown(Locate(m)) = {m.led}
  <1>1. m.cid \in CommandIds /\ m.controller \in Controllers /\ m.led \in Leds
    BY SameRouting DEF BackendTypes, Service!Message
  <1>2. Cut[m.cid] = m.cid /\ m.cid \in Names /\ m.cid # NoName
    BY <1>1, SystemAssumption DEF ShortIds
  <1>3. Locate(m) \in Node!Command
    BY <1>1, SameRouting DEF Locate, Node!Command, Node!Verdicts, Node!Actions, Node!Refusals
  <1>4. Locate(m).cid = m.cid /\ Locate(m).verdict = "locate" /\ Locate(m).led = m.led
    BY DEF Locate
  <1>. QED
    BY <1>1, <1>2, <1>3, <1>4 DEF Node!Refusals, Node!Shown

LEMMA WorkOf ==
    ASSUME NEW s \in {"apply", "report"}, NEW k \in Node!Command
    PROVE  /\ [stage |-> s, command |-> k] \in [stage : {"apply", "report"}, command : Node!Command]
           /\ [stage |-> s, command |-> k] # Node!NoWork
           /\ [stage |-> s, command |-> k].stage = s /\ [stage |-> s, command |-> k].command = k
           /\ Node!NoWork.stage = "none"
  <1>1. Node!NoWork.stage = "none"
    BY DEF Node!NoWork
  <1>2. [stage |-> s, command |-> k].stage = s
    OBVIOUS
  <1>3. [stage |-> s, command |-> k] # Node!NoWork
    BY <1>1, <1>2
  <1>. QED
    BY <1>1, <1>2, <1>3

LEMMA WorkTypes ==
    ASSUME BackendTypes, NodeTypes, WorkIsSent, ShortIds, NEW c \in Controllers,
           work[c] # Node!NoWork
    PROVE  /\ work[c].stage \in {"apply", "report"} /\ work[c].command \in Node!Command
           /\ work[c].command.cid \in CommandIds
           /\ Cut[work[c].command.cid] = work[c].command.cid
           /\ work[c].command.cid \in Names
           /\ \E m \in sent : /\ m.controller = c /\ m.cid = work[c].command.cid
                              /\ work[c].command = Locate(m)
  <1>1. work[c].stage \in {"apply", "report"} /\ work[c].command \in Node!Command
    BY DEF NodeTypes
  <1>2. PICK m \in sent : m.controller = c /\ work[c].command = Locate(m)
    BY DEF WorkIsSent
  <1>. QED
    BY <1>1, <1>2, LocateIs

\* What a step of the nodes is, and what else may happen.
LEMMA NodeChange ==
    ASSUME BackendTypes, ShortIds, [Next]_vars
    PROVE  \/ UNCHANGED nodes
           \/ /\ UNCHANGED backend
              /\ \E m \in sent : Node!Repeat(m.controller, Locate(m))
           \/ /\ UNCHANGED backend
              /\ \E m \in sent : Node!Begin(m.controller, Locate(m))
           \/ UNCHANGED backend /\ \E c \in Controllers : Node!Own(c)
  BY LocateIs, SameRouting
     DEF Next, ServiceStep, NodeStep, Node!OnCommand, Node!Refuse, backend, nodes, vars

LEMMA AckChange ==
    ASSUME NodeTypes, NEW c \in Controllers, NEW n \in Names,
           NEW s \in {"received", "completed"}, Node!PublishAck(c, n, s)
    PROVE  /\ acks' \subseteq Node!NodeAck
           /\ \A a \in acks' : a \in acks \/ (a.name = n /\ a.controller = c /\ a.state = s)
  BY SameRouting DEF NodeTypes, Node!PublishAck, Node!NodeAck

LEMMA NodeTypesStep ==
    BackendTypes /\ NodeTypes /\ WorkIsSent /\ ShortIds /\ [Next]_vars => NodeTypes'
  <1>. SUFFICES ASSUME BackendTypes, NodeTypes, WorkIsSent, ShortIds, [Next]_vars
                PROVE  NodeTypes'
    OBVIOUS
  <1>. USE DEF NodeTypes
  <1>1. CASE UNCHANGED nodes
    BY <1>1 DEF nodes
  <1>2. ASSUME NEW m \in sent, Node!Repeat(m.controller, Locate(m))
        PROVE  NodeTypes'
    BY <1>2, LocateIs, AckChange DEF Node!Repeat
  <1>3. ASSUME NEW m \in sent, Node!Begin(m.controller, Locate(m))
        PROVE  NodeTypes'
    <2>1. acks' \subseteq Node!NodeAck
      BY <1>3, LocateIs, AckChange DEF Node!Begin
    <2>2. ids' \in [Controllers -> [Node!Slots -> Names \cup {NoName}]]
      BY <1>3, LocateIs DEF Node!Begin, Node!Remember
    <2>3. work' \in [Controllers ->
                       {Node!NoWork} \cup [stage : {"apply", "report"}, command : Node!Command]]
      BY <1>3, LocateIs, WorkOf DEF Node!Begin
    <2>. QED
      BY <1>3, <2>1, <2>2, <2>3 DEF Node!Begin
  <1>4. ASSUME NEW c \in Controllers, Node!Apply(c)
        PROVE  NodeTypes'
    <2>1. work[c] # Node!NoWork
      BY <1>4 DEF Node!Apply, Node!NoWork
    <2>2. PICK m \in sent : m.controller = c /\ work[c].command = Locate(m)
      BY <2>1 DEF WorkIsSent
    <2>3. Node!Shown(work[c].command) \in SUBSET Leds
      BY <2>2, LocateIs
    <2>4. pixels' \in [Controllers -> SUBSET Leds]
      BY <1>4, <2>3 DEF Node!Apply
    <2>5. work' \in [Controllers ->
                       {Node!NoWork} \cup [stage : {"apply", "report"}, command : Node!Command]]
      BY <1>4, <2>2, LocateIs, WorkOf DEF Node!Apply
    <2>. QED
      BY <1>4, <2>4, <2>5 DEF Node!Apply
  <1>5. ASSUME NEW c \in Controllers, Node!Report(c)
        PROVE  NodeTypes'
    <2>1. work[c] # Node!NoWork
      BY <1>5 DEF Node!Report, Node!NoWork
    <2>2. acks' \subseteq Node!NodeAck
      BY <1>5, <2>1, WorkTypes, AckChange DEF Node!Report
    <2>. QED
      BY <1>5, <2>2 DEF Node!Report
  <1>6. ASSUME NEW c \in Controllers,
               Node!LedsExpire(c) \/ Node!Reconnect(c) \/ Node!LinkDrops(c) \/ Node!Reset(c)
        PROVE  NodeTypes'
    <2>1. ids' \in [Controllers -> [Node!Slots -> Names \cup {NoName}]]
      BY <1>6 DEF Node!LedsExpire, Node!Reconnect, Node!LinkDrops, Node!Reset
    <2>2. work' \in [Controllers ->
                       {Node!NoWork} \cup [stage : {"apply", "report"}, command : Node!Command]]
      BY <1>6 DEF Node!LedsExpire, Node!Reconnect, Node!LinkDrops, Node!Reset
    <2>3. pixels' \in [Controllers -> SUBSET Leds] /\ acks' = acks
      BY <1>6 DEF Node!LedsExpire, Node!Reconnect, Node!LinkDrops, Node!Reset
    <2>. QED
      BY <2>1, <2>2, <2>3
  <1>. QED
    BY <1>1, <1>2, <1>3, <1>4, <1>5, <1>6, NodeChange DEF Node!Own

LEMMA WorkStep ==
    ASSUME BackendTypes, NodeTypes, WorkIsSent, ShortIds, [Next]_vars, sent \subseteq sent'
    PROVE  WorkIsSent'
  <1>. SUFFICES ASSUME NEW x \in Controllers, work'[x] # Node!NoWork
                PROVE  /\ \E m \in sent : m.controller = x /\ work'[x].command = Locate(m)
                       /\ work'[x].stage = "report" => <<x, work'[x].command.cid>> \in obeyed'
    BY DEF WorkIsSent
  <1>1. ASSUME work'[x] = work[x], obeyed \subseteq obeyed'
        PROVE  /\ \E m \in sent : m.controller = x /\ work'[x].command = Locate(m)
               /\ work'[x].stage = "report" => <<x, work'[x].command.cid>> \in obeyed'
    BY <1>1 DEF WorkIsSent
  <1>2. CASE UNCHANGED nodes
    BY <1>1, <1>2 DEF nodes
  <1>3. ASSUME NEW m \in sent, Node!Repeat(m.controller, Locate(m))
        PROVE  work'[x] = work[x] /\ obeyed \subseteq obeyed'
    BY <1>3 DEF Node!Repeat
  <1>4. ASSUME NEW m \in sent, Node!Begin(m.controller, Locate(m))
        PROVE  /\ \E k \in sent : k.controller = x /\ work'[x].command = Locate(k)
               /\ work'[x].stage = "report" => <<x, work'[x].command.cid>> \in obeyed'
    <2>1. CASE x = m.controller
      <3>1. work'[x] = [stage |-> "apply", command |-> Locate(m)]
        BY <1>4, <2>1 DEF Node!Begin, NodeTypes
      <3>. QED
        BY <2>1, <3>1
    <2>2. CASE x # m.controller
      BY <1>1, <1>4, <2>2 DEF Node!Begin, NodeTypes
    <2>. QED
      BY <2>1, <2>2
  <1>5. ASSUME NEW c \in Controllers, Node!Apply(c)
        PROVE  /\ \E k \in sent : k.controller = x /\ work'[x].command = Locate(k)
               /\ work'[x].stage = "report" => <<x, work'[x].command.cid>> \in obeyed'
    <2>1. CASE x = c
      <3>1. work[c] # Node!NoWork
        BY <1>5 DEF Node!Apply, Node!NoWork
      <3>2. work'[x] = [stage |-> "report", command |-> work[c].command]
        BY <1>5, <2>1 DEF Node!Apply, NodeTypes
      <3>3. <<c, work[c].command.cid>> \in obeyed'
        BY <1>5 DEF Node!Apply
      <3>. QED
        BY <2>1, <3>1, <3>2, <3>3 DEF WorkIsSent
    <2>2. CASE x # c
      BY <1>1, <1>5, <2>2 DEF Node!Apply, NodeTypes
    <2>. QED
      BY <2>1, <2>2
  <1>6. ASSUME NEW c \in Controllers, Node!Report(c) \/ Node!Reset(c)
        PROVE  work'[x] = work[x] /\ obeyed \subseteq obeyed'
    BY <1>6 DEF Node!Report, Node!Reset, NodeTypes
  <1>7. ASSUME NEW c \in Controllers,
               Node!LedsExpire(c) \/ Node!Reconnect(c) \/ Node!LinkDrops(c)
        PROVE  work'[x] = work[x] /\ obeyed \subseteq obeyed'
    BY <1>7 DEF Node!LedsExpire, Node!Reconnect, Node!LinkDrops
  <1>. QED
    BY <1>1, <1>2, <1>3, <1>4, <1>5, <1>6, <1>7, NodeChange DEF Node!Own

LEMMA RememberedStep ==
    ASSUME BackendTypes, NodeTypes, WorkIsSent, RememberedIsObeyed, ShortIds, [Next]_vars
    PROVE  RememberedIsObeyed'
  <1>. SUFFICES ASSUME NEW x \in Controllers, NEW cid \in CommandIds,
                       \E i \in Node!Slots : ids'[x][i] = cid
                PROVE  \/ <<x, cid>> \in obeyed'
                       \/ /\ work'[x] # Node!NoWork /\ work'[x].stage = "apply"
                          /\ work'[x].command.cid = cid
    BY DEF RememberedIsObeyed, Applying, Node!Contains
  <1>. DEFINE Goal == \/ <<x, cid>> \in obeyed'
                      \/ /\ work'[x] # Node!NoWork /\ work'[x].stage = "apply"
                         /\ work'[x].command.cid = cid
  <1>1. ASSUME ids'[x] = ids[x], work'[x] = work[x], obeyed \subseteq obeyed'
        PROVE  Goal
    BY <1>1 DEF RememberedIsObeyed, Applying, Node!Contains
  <1>2. CASE UNCHANGED nodes
    BY <1>1, <1>2 DEF nodes
  <1>3. ASSUME NEW m \in sent, Node!Repeat(m.controller, Locate(m))
        PROVE  Goal
    BY <1>1, <1>3 DEF Node!Repeat
  <1>4. ASSUME NEW m \in sent, Node!Begin(m.controller, Locate(m))
        PROVE  Goal
    <2>1. CASE x = m.controller /\ cid = m.cid
      <3>1. work'[x] = [stage |-> "apply", command |-> Locate(m)]
        BY <1>4, <2>1 DEF Node!Begin, NodeTypes
      <3>. QED
        BY <2>1, <3>1, LocateIs, WorkOf
    <2>2. CASE x = m.controller /\ cid # m.cid
      <3>1. \A i \in Node!Slots : ids'[x][i] \in {ids[x][i], m.cid}
        BY <1>4, <2>2, LocateIs DEF Node!Begin, Node!Remember, NodeTypes
      <3>2. Node!Contains(x, cid)
        BY <2>2, <3>1 DEF Node!Contains
      <3>3. work[x] = Node!NoWork /\ obeyed' = obeyed
        BY <1>4, <2>2 DEF Node!Begin, Node!MayReceive
      <3>. QED
        BY <3>2, <3>3 DEF RememberedIsObeyed, Applying
    <2>3. CASE x # m.controller
      BY <1>1, <1>4, <2>3 DEF Node!Begin, Node!Remember, NodeTypes
    <2>. QED
      BY <2>1, <2>2, <2>3
  <1>5. ASSUME NEW c \in Controllers, Node!Apply(c)
        PROVE  Goal
    <2>1. CASE x = c
      <3>1. obeyed' = obeyed \cup {<<c, work[c].command.cid>>} /\ ids' = ids
        BY <1>5 DEF Node!Apply
      <3>. QED
        BY <2>1, <3>1 DEF RememberedIsObeyed, Applying, Node!Contains
    <2>2. CASE x # c
      BY <1>1, <1>5, <2>2 DEF Node!Apply, NodeTypes
    <2>. QED
      BY <2>1, <2>2
  <1>6. ASSUME NEW c \in Controllers, Node!Report(c)
        PROVE  Goal
    <2>1. CASE x = c
      <3>1. work[x].stage = "report" /\ ids' = ids /\ obeyed' = obeyed
        BY <1>6, <2>1 DEF Node!Report
      <3>. QED
        BY <2>1, <3>1 DEF RememberedIsObeyed, Applying, Node!Contains
    <2>2. CASE x # c
      BY <1>1, <1>6, <2>2 DEF Node!Report, NodeTypes
    <2>. QED
      BY <2>1, <2>2
  <1>7. ASSUME NEW c \in Controllers, Node!Reset(c)
        PROVE  Goal
    <2>1. CASE x = c
      <3>1. \A i \in Node!Slots : ids'[x][i] = NoName
        BY <1>7, <2>1 DEF Node!Reset, NodeTypes
      <3>2. cid # NoName
        BY SystemAssumption DEF ShortIds
      <3>. QED
        BY <3>1, <3>2
    <2>2. CASE x # c
      BY <1>1, <1>7, <2>2 DEF Node!Reset, NodeTypes
    <2>. QED
      BY <2>1, <2>2
  <1>8. ASSUME NEW c \in Controllers,
               Node!LedsExpire(c) \/ Node!Reconnect(c) \/ Node!LinkDrops(c)
        PROVE  Goal
    BY <1>1, <1>8 DEF Node!LedsExpire, Node!Reconnect, Node!LinkDrops
  <1>. QED
    BY <1>2, <1>3, <1>4, <1>5, <1>6, <1>7, <1>8, NodeChange DEF Node!Own

LEMMA AcksStep ==
    ASSUME BackendTypes, NodeTypes, WorkIsSent, RememberedIsObeyed, AcksAreHonest, ShortIds,
           [Next]_vars, sent \subseteq sent'
    PROVE  AcksAreHonest'
  <1>0. obeyed \subseteq obeyed'
    BY NodeChange DEF nodes, Node!Repeat, Node!Begin, Node!Own, Node!Apply, Node!Report,
                      Node!LedsExpire, Node!Reconnect, Node!LinkDrops, Node!Reset
  <1>. DEFINE Fine(a) ==
           /\ a.name \in CommandIds /\ a.controller \in Controllers
           /\ \/ a.state = "received"
                 /\ \E m \in sent' : m.cid = a.name /\ m.controller = a.controller
              \/ a.state = "completed" /\ <<a.controller, a.name>> \in obeyed'
  <1>. SUFFICES ASSUME NEW a \in acks'
                PROVE  Fine(a)
    BY DEF AcksAreHonest, Honest
  <1>1. CASE a \in acks
    BY <1>0, <1>1 DEF AcksAreHonest, Honest
  <1>2. CASE acks' = acks
    BY <1>1, <1>2
  <1>3. ASSUME NEW m \in sent, Node!Repeat(m.controller, Locate(m))
        PROVE  Fine(a)
    <2>1. a \in acks \/ (a.name = m.cid /\ a.controller = m.controller /\ a.state = "completed")
      BY <1>3, LocateIs, AckChange DEF Node!Repeat
    <2>2. <<m.controller, m.cid>> \in obeyed
      BY <1>3, LocateIs DEF Node!Repeat, Node!MayReceive, RememberedIsObeyed, Applying
    <2>. QED
      BY <1>0, <1>1, <2>1, <2>2, LocateIs
  <1>4. ASSUME NEW m \in sent, Node!Begin(m.controller, Locate(m))
        PROVE  Fine(a)
    <2>1. a \in acks \/ (a.name = m.cid /\ a.controller = m.controller /\ a.state = "received")
      BY <1>4, LocateIs, AckChange DEF Node!Begin
    <2>. QED
      BY <1>1, <2>1, LocateIs
  <1>5. ASSUME NEW c \in Controllers, Node!Report(c)
        PROVE  Fine(a)
    <2>1. work[c] # Node!NoWork /\ work[c].stage = "report"
      BY <1>5 DEF Node!Report, Node!NoWork
    <2>2. /\ a \in acks \/ (/\ a.name = work[c].command.cid
                            /\ a.controller = c /\ a.state = "completed")
          /\ work[c].command.cid \in CommandIds
      BY <1>5, <2>1, WorkTypes, AckChange DEF Node!Report
    <2>3. <<c, work[c].command.cid>> \in obeyed
      BY <2>1 DEF WorkIsSent
    <2>. QED
      BY <1>0, <1>1, <2>2, <2>3
  <1>6. ASSUME NEW c \in Controllers,
               \/ Node!Apply(c) \/ Node!LedsExpire(c) \/ Node!Reconnect(c)
               \/ Node!LinkDrops(c) \/ Node!Reset(c)
        PROVE  Fine(a)
    BY <1>2, <1>6 DEF Node!Apply, Node!LedsExpire, Node!Reconnect, Node!LinkDrops, Node!Reset
  <1>. QED
    BY <1>2, <1>3, <1>4, <1>5, <1>6, NodeChange DEF Node!Own, nodes

LEMMA PixelsStep ==
    ASSUME BackendTypes, NodeTypes, WorkIsSent, PixelsAreSent, ShortIds, [Next]_vars,
           sent \subseteq sent'
    PROVE  PixelsAreSent'
  <1>. SUFFICES ASSUME NEW x \in Controllers, NEW led \in pixels'[x]
                PROVE  \E m \in sent : m.controller = x /\ m.led = led
    BY DEF PixelsAreSent
  <1>1. CASE pixels'[x] \subseteq pixels[x]
    BY <1>1 DEF PixelsAreSent
  <1>2. ASSUME NEW c \in Controllers, Node!Apply(c)
        PROVE  \E m \in sent : m.controller = x /\ m.led = led
    <2>1. CASE x = c
      <3>1. work[c] # Node!NoWork
        BY <1>2 DEF Node!Apply, Node!NoWork
      <3>2. PICK m \in sent : m.controller = c /\ work[c].command = Locate(m)
        BY <3>1 DEF WorkIsSent
      <3>3. pixels'[x] = Node!Shown(Locate(m))
        BY <1>2, <2>1, <3>2 DEF Node!Apply, NodeTypes
      <3>. QED
        BY <2>1, <3>2, <3>3, LocateIs
    <2>2. CASE x # c
      BY <1>1, <1>2, <2>2 DEF Node!Apply, NodeTypes
    <2>. QED
      BY <2>1, <2>2
  <1>3. ASSUME NEW c \in Controllers, Node!LedsExpire(c) \/ Node!Reset(c)
        PROVE  pixels'[x] \subseteq pixels[x]
    BY <1>3 DEF Node!LedsExpire, Node!Reset, NodeTypes
  <1>4. CASE pixels' = pixels
    BY <1>1, <1>4
  <1>. QED
    BY <1>1, <1>2, <1>3, <1>4, NodeChange
       DEF nodes, Node!Repeat, Node!Begin, Node!Own, Node!Report, Node!Reconnect, Node!LinkDrops

-------------------------------------------------------------------------------
(* The invariant *)

LEMMA InitIInv == ShortIds /\ Init => IInv
  <1>. SUFFICES ASSUME ShortIds, Init PROVE IInv
    OBVIOUS
  <1>1. BackendTypes /\ OnlyLiveSent
    BY NewRows DEF Init, BackendTypes, OnlyLiveSent, Service!Idle
  <1>2. NodeTypes
    BY SameRouting DEF Init, Node!Init, NodeTypes
  <1>3. WorkIsSent /\ AcksAreHonest /\ PixelsAreSent
    BY SameRouting DEF Init, Node!Init, WorkIsSent, AcksAreHonest, PixelsAreSent
  <1>4. RememberedIsObeyed
    <2>1. \A cid \in CommandIds : cid # NoName
      BY SystemAssumption DEF ShortIds
    <2>. QED
      BY <2>1, SameRouting DEF Init, Node!Init, RememberedIsObeyed, Node!Contains
  <1>. QED
    BY <1>1, <1>2, <1>3, <1>4 DEF IInv

LEMMA StepIInv == ShortIds /\ IInv /\ [Next]_vars => IInv'
  <1>. SUFFICES ASSUME ShortIds, IInv, [Next]_vars PROVE IInv'
    OBVIOUS
  <1>. USE DEF IInv
  <1>1. BackendTypes' /\ OnlyLiveSent' /\ sent \subseteq sent'
    BY BackendStep
  <1>2. NodeTypes'
    BY NodeTypesStep
  <1>3. WorkIsSent'
    BY <1>1, WorkStep
  <1>4. RememberedIsObeyed'
    BY RememberedStep
  <1>5. AcksAreHonest'
    BY <1>1, AcksStep
  <1>6. PixelsAreSent'
    BY <1>1, PixelsStep
  <1>. QED
    BY <1>1, <1>2, <1>3, <1>4, <1>5, <1>6

\* The invariant holds if no id is cut: the basis of the theorems below.
THEOREM Invariance == ShortIds => (Spec => []IInv)
  <1>. SUFFICES ASSUME ShortIds PROVE Spec => []IInv
    OBVIOUS
  <1>1. Init => IInv
    BY InitIInv
  <1>2. IInv /\ [Next]_vars => IInv'
    BY StepIInv
  <1>. QED
    BY <1>1, <1>2, PTL DEF Spec

-------------------------------------------------------------------------------
(* The two together are the service among the devices it expects. *)

LEMMA ServiceInit == Init => Service!Init
  BY SameRouting DEF Init, Node!Init, Service!Init

\* A step of a node is that of a device which acts on what was sent to it, or it is
\* nothing that the service can see.
LEMMA NodeIsDevice ==
    ASSUME ShortIds, IInv, [Next]_vars, UNCHANGED backend
    PROVE  [Service!Next]_(Service!vars)
  <1>. USE DEF IInv
  <1>1. CASE obeyed' = obeyed
    BY <1>1 DEF backend, Service!vars
  <1>2. ASSUME NEW c \in Controllers, Node!Apply(c)
        PROVE  Service!Next
    <2>1. work[c] # Node!NoWork
      BY <1>2 DEF Node!Apply, Node!NoWork
    <2>2. PICK m \in sent : m.controller = c /\ work[c].command = Locate(m)
      BY <2>1 DEF WorkIsSent
    <2>3. obeyed' = obeyed \cup {<<m.controller, m.cid>>}
      BY <1>2, <2>2, LocateIs DEF Node!Apply
    <2>4. Service!DeviceActs(m)
      BY <2>3 DEF Service!DeviceActs, Service!service, backend
    <2>. QED
      BY <2>4 DEF Service!Next, Service!Devices
  <1>. QED
    BY <1>1, <1>2, NodeChange
       DEF nodes, Node!Repeat, Node!Begin, Node!Own, Node!Report, Node!LedsExpire,
           Node!Reconnect, Node!LinkDrops, Node!Reset

LEMMA ServiceNext == ShortIds /\ IInv /\ [Next]_vars => [Service!Next]_(Service!vars)
  <1>. SUFFICES ASSUME ShortIds, IInv, [Next]_vars
                PROVE  [Service!Next]_(Service!vars)
    OBVIOUS
  <1>1. CASE UNCHANGED backend
    BY <1>1, NodeIsDevice
  <1>2. CASE ServiceStep
    <2>1. CASE AckArrives
      <3>1. PICK a \in acks :
               Service!HandleAck([cid |-> a.name, controller |-> a.controller,
                                  state |-> a.state])
        BY <2>1 DEF AckArrives
      <3>. DEFINE b == [cid |-> a.name, controller |-> a.controller, state |-> a.state]
      <3>2. Honest(a)
        BY DEF IInv, AcksAreHonest
      <3>3. b \in Service!Ack
        BY <3>2, SameRouting DEF Honest, Service!Ack, Service!AckStates
      <3>4. Service!Arriving(b)
        BY <3>2 DEF Honest, Service!Arriving
      <3>. QED
        BY <3>1, <3>3, <3>4 DEF Service!Next, Service!Receive
    <2>2. CASE Reported
      BY <2>2, SameRouting DEF Reported, Service!Next, Service!Monitor
    <2>3. CASE \/ Service!Issue \/ Service!Publish \/ Service!ExpireStaleCommands
               \/ Service!Tick
      BY <2>3 DEF Service!Next
    <2>. QED
      BY <1>2, <2>1, <2>2, <2>3 DEF ServiceStep
  <1>. QED
    BY <1>1, <1>2, BackendChange

-------------------------------------------------------------------------------
(* The theorems *)

\* Real nodes, which forget, reset and confirm before they act, are devices as the
\* service assumes them, whatever the broker loses, repeats or reorders.
THEOREM Implementation == ShortIds => (Spec => RefinesService)
  <1>. SUFFICES ASSUME ShortIds PROVE Spec => RefinesService
    OBVIOUS
  <1>1. IInv /\ [Next]_vars => [Service!Next]_(Service!vars)
    BY ServiceNext
  <1>2. Spec => []IInv
    BY Invariance
  <1>. QED
    BY ServiceInit, <1>1, <1>2, PTL DEF Spec, RefinesService, Service!Spec

\* An LED that is on is the LED of a command that was issued and not refused.
THEOREM OnlyAskedDrawersLit == ShortIds => (Spec => []NoDrawerLitUnasked)
  <1>. SUFFICES ASSUME ShortIds PROVE Spec => []NoDrawerLitUnasked
    OBVIOUS
  <1>1. IInv => NoDrawerLitUnasked
    <2>. SUFFICES ASSUME IInv, NEW c \in Controllers, NEW led \in pixels[c]
                  PROVE  \E cid \in CommandIds : /\ rows[cid].controller = c
                                                 /\ rows[cid].led = led
                                                 /\ rows[cid].status # "absent"
                                                 /\ rows[cid].error # "offline"
      BY DEF NoDrawerLitUnasked
    <2>1. PICK m \in sent : m.controller = c /\ m.led = led
      BY DEF IInv, PixelsAreSent
    <2>2. m.cid \in CommandIds
      BY DEF IInv, BackendTypes, Service!Message
    <2>. QED
      BY <2>1, <2>2 DEF IInv, OnlyLiveSent, Live
  <1>2. Spec => []IInv
    BY Invariance
  <1>. QED
    BY <1>1, <1>2, PTL

\* The timeout of one command expires no other.
THEOREM NothingExpiresEarly == ShortIds => (Spec => []NeverExpiredEarly)
  <1>. SUFFICES ASSUME ShortIds PROVE Spec => []NeverExpiredEarly
    OBVIOUS
  <1>1. Init => NeverExpiredEarly
    BY DEF Init, NeverExpiredEarly, Service!NeverExpiredEarly, Service!NoRow
  <1>2. IInv /\ NeverExpiredEarly /\ [Next]_vars => NeverExpiredEarly'
    <2>. SUFFICES ASSUME IInv, NeverExpiredEarly, [Next]_vars, NEW x \in CommandIds,
                         rows'[x].status = "expired"
                  PROVE  rows'[x].age > AckTimeout
      BY DEF NeverExpiredEarly, Service!NeverExpiredEarly
    <2>1. rows[x].age \in Int
      BY DEF IInv, BackendTypes, PlainRow
    <2>2. rows[x].age > AckTimeout => Service!Older(rows[x].age) > AckTimeout
      BY <2>1, SystemAssumption, SMT DEF Service!Older
    <2>3. CASE rows'[x] = rows[x]
      BY <2>3 DEF NeverExpiredEarly, Service!NeverExpiredEarly
    <2>4. CASE ServiceStep /\ Updated(x)
      BY <2>2, <2>4 DEF Updated, NeverExpiredEarly, Service!NeverExpiredEarly
    <2>5. CASE ServiceStep /\ Created(x)
      <3>1. "offline" \in Service!Errors
        BY DEF Service!Errors
      <3>2. PICK d \in Drawers : \/ rows'[x] = Service!NewRow(d)
                                \/ rows'[x] = Service!Failed(Service!NewRow(d), "offline")
        BY <2>5 DEF Created
      <3>3. Service!NewRow(d) \in PlainRow /\ Service!NewRow(d).status = "pending"
        BY NewRows
      <3>4. Service!Failed(Service!NewRow(d), "offline").status = "failed"
        BY <3>1, <3>3, RowUpdates
      <3>. QED
        BY <3>2, <3>3, <3>4
    <2>. QED
      BY <2>3, <2>4, <2>5, BackendChange, RowChange DEF IInv, backend
  <1>3. Spec => []IInv
    BY Invariance
  <1>. QED
    BY <1>1, <1>2, <1>3, PTL DEF Spec
==============================================================================

-------------------------- MODULE LocateRouteProofs --------------------------
(***************************************************************************)
(* Concurrent requests: proved for every number of requests, commands and  *)
(* drawers, every number of database failures and restarts; and what the   *)
(* repository says of the loop, but for the windows in which it fails.     *)
(***************************************************************************)
EXTENDS LocateRoute, RoutingProofs, SequenceTheorems, FiniteSetTheorems

Labels == {"idle", "expire", "lookup", "insert", "publish", "deliver", "light", "answer",
           "collect", "drain", "acks", "done"}
Notes  == {"none", "error", "deduplicated", "acknowledged", "waiting"}

\* What the variables of one request are.
IsSession(own) ==
    DOMAIN own \subseteq CommandIds /\ \A x \in DOMAIN own : own[x] \in Row

Sessions ==
    /\ pc \in [Requests -> Labels] /\ body \in [Requests -> Bodies]
    /\ mine = [r \in Requests |-> mine[r]] /\ \A r \in Requests : IsSession(mine[r])
    /\ dirty \in [Requests -> SUBSET CommandIds] /\ locks \in [Requests -> SUBSET CommandIds]
    /\ \A r \in Requests : dirty[r] \cup locks[r] \subseteq DOMAIN mine[r]
    /\ note \in [Requests -> Notes]
    /\ todo \in [Requests -> Seq(Ack)]
    /\ base \in [Requests -> Nat]

Shared ==
    /\ rows \in [CommandIds -> Row] /\ old \subseteq CommandIds
    /\ log \in Seq(Ack) /\ inbox \in Seq(Ack)
    /\ \A r \in Requests : base[r] <= Len(log)
    /\ seen \in [Controllers -> SUBSET CommandIds] /\ lit \in [Controllers -> SUBSET CommandIds]
    /\ leds \in [Controllers -> SUBSET Leds]
    /\ faults \in 0..MaxFaults

\* A request on its way to publish has a drawer.
Routed ==
    \A r \in Requests : Publishing(r) \/ pc[r] = "insert" => body[r].drawer \in Drawers

Types == Sessions /\ Shared /\ Routed

\* Until its id is committed, the lock on the inserted row is a request's claim to it.
Claims(r) ==
    LET x == body[r].cid IN
    /\ pc[r] \in {"idle", "done"} => DOMAIN mine[r] = {}
    /\ pc[r] \in {"idle", "expire", "lookup", "insert"} => note[r] = "none"
    /\ pc[r] = "insert" => dirty[r] = {} /\ x \notin DOMAIN mine[r]
    /\ Publishing(r) => /\ x \in locks[r] /\ mine[r][x].status = "pending" /\ dirty[r] = {}
                        /\ rows[x].status = "absent" /\ note[r] = "none"
    /\ pc[r] = "answer" => x \in lit[ControllerOf(body[r].drawer)]
    /\ pc[r] \in {"drain", "acks"} => \/ note[r] = "none" /\ x \in locks[r]
                                      \/ note[r] = "deduplicated" /\ rows[x].status # "absent"

\* A row of a session is the request's own or one that is committed, and what the
\* request writes of the latter is an end.
RowIsTrue(r, x) ==
    /\ mine[r][x].status # "absent"
    /\ mine[r][x].status = "pending" => Publishing(r) /\ x = body[r].cid
    /\ mine[r][x].ackedAt => x \in lit[mine[r][x].controller]
    /\ rows[x].status = "absent" => /\ x = body[r].cid /\ x \in locks[r]
                                    /\ Publishing(r) \/ pc[r] \in {"drain", "acks"}
    /\ rows[x].status # "absent" => mine[r][x].controller = rows[x].controller
    /\ x \in dirty[r] \/ (x \in locks[r] /\ rows[x].status # "absent") =>
           mine[r][x].status \in {"acked", "expired"}

\* AnswersAreTrue, of one request.
AnswerIsTrue(r) ==
    note[r] \in {"deduplicated", "acknowledged", "waiting"} /\ pc[r] = "done" =>
        LET x == body[r].cid IN
        /\ rows[x].status # "absent"
        /\ note[r] = "acknowledged" => rows[x].ackedAt /\ x \in lit[rows[x].controller]

Own(r) == Claims(r) /\ (\A x \in DOMAIN mine[r] : RowIsTrue(r, x)) /\ AnswerIsTrue(r)

LocksExclude == \A r, q \in Requests : r # q => locks[r] \cap locks[q] = {}

RowsAreTrue ==
    \A x \in CommandIds : /\ rows[x].status # "pending"
                          /\ rows[x].ackedAt => x \in lit[rows[x].controller]

\* Only commands whose LED was lit are acknowledged.
AllLit(acks) == \A k \in DOMAIN acks : acks[k].cid \in lit[acks[k].controller]
AcksAreLit   == AllLit(log) /\ AllLit(inbox) /\ \A r \in Requests : AllLit(todo[r])

\* An id a controller has seen was lit, or a request is about to light it.
Lighting(r, c, x) ==
    pc[r] = "light" /\ body[r].cid = x /\ ControllerOf(body[r].drawer) = c
SeenIsLit ==
    \A c \in Controllers : \A x \in seen[c] :
        x \in lit[c] \/ \E r \in Requests : Lighting(r, c, x)

IInv ==
    /\ Types /\ (\A r \in Requests : Own(r))
    /\ LocksExclude /\ RowsAreTrue /\ AcksAreLit /\ SeenIsLit

-------------------------------------------------------------------------------
LEMMA EmptySession == IsSession(<< >>) /\ DOMAIN << >> = {} /\ << >> \in Seq(Ack)
  BY EmptySeq DEF IsSession

LEMMA LoadedIs ==
    ASSUME Sessions, NEW r \in Requests, NEW new, IsSession(new), mine' = Loaded(r, new)
    PROVE  /\ mine' = [q \in Requests |-> mine'[q]] /\ IsSession(mine'[r])
           /\ DOMAIN mine'[r] = DOMAIN mine[r] \cup DOMAIN new
           /\ \A x \in DOMAIN new : mine'[r][x] = new[x]
           /\ \A x \in DOMAIN mine[r] \ DOMAIN new : mine'[r][x] = mine[r][x]
           /\ \A q \in Requests \ {r} : mine'[q] = mine[q]
  <1>1. mine'[r] = [x \in DOMAIN mine[r] \cup DOMAIN new |->
                       IF x \in DOMAIN new THEN new[x] ELSE mine[r][x]]
    BY DEF Sessions, Loaded
  <1>2. mine' = [q \in Requests |-> mine'[q]] /\ \A q \in Requests \ {r} : mine'[q] = mine[q]
    BY DEF Sessions, Loaded
  <1>3. IsSession(mine[r])
    BY DEF Sessions
  <1>. QED
    BY <1>1, <1>2, <1>3 DEF IsSession

LEMMA ClosedIs ==
    ASSUME Sessions, NEW r \in Requests, NEW answer \in Notes, Closed(r, answer)
    PROVE  /\ Sessions'
           /\ \A q \in Requests \ {r} : /\ pc'[q] = pc[q] /\ mine'[q] = mine[q]
                                        /\ dirty'[q] = dirty[q] /\ locks'[q] = locks[q]
                                        /\ base'[q] = base[q] /\ todo'[q] = todo[q]
                                        /\ note'[q] = note[q]
           /\ pc'[r] = "done" /\ note'[r] = answer /\ body' = body
           /\ DOMAIN mine'[r] = {} /\ dirty'[r] = {} /\ locks'[r] = {} /\ todo'[r] = << >>
           /\ base'[r] = 0
  <1>1. /\ mine' = [q \in Requests |-> mine'[q]] /\ mine'[r] = << >>
        /\ \A q \in Requests \ {r} : mine'[q] = mine[q]
    BY DEF Sessions, Closed
  <1>2. /\ pc' \in [Requests -> Labels] /\ pc'[r] = "done"
        /\ \A q \in Requests \ {r} : pc'[q] = pc[q]
    BY DEF Sessions, Closed, Labels
  <1>3. /\ note' \in [Requests -> Notes] /\ note'[r] = answer
        /\ \A q \in Requests \ {r} : note'[q] = note[q]
    BY DEF Sessions, Closed
  <1>4. /\ dirty' \in [Requests -> SUBSET CommandIds] /\ dirty'[r] = {}
        /\ \A q \in Requests \ {r} : dirty'[q] = dirty[q]
    BY DEF Sessions, Closed
  <1>5. /\ locks' \in [Requests -> SUBSET CommandIds] /\ locks'[r] = {}
        /\ \A q \in Requests \ {r} : locks'[q] = locks[q]
    BY DEF Sessions, Closed
  <1>6. /\ todo' \in [Requests -> Seq(Ack)] /\ todo'[r] = << >>
        /\ \A q \in Requests \ {r} : todo'[q] = todo[q]
    BY EmptySession DEF Sessions, Closed
  <1>7. /\ base' \in [Requests -> Nat] /\ base'[r] = 0
        /\ \A q \in Requests \ {r} : base'[q] = base[q]
    BY DEF Sessions, Closed
  <1>8. body' = body /\ body \in [Requests -> Bodies]
    BY DEF Sessions, Closed
  <1>9. \A q \in Requests : IsSession(mine'[q]) /\ dirty'[q] \cup locks'[q] \subseteq DOMAIN mine'[q]
    BY <1>1, <1>4, <1>5, EmptySession DEF Sessions
  <1>10. Sessions'
    BY <1>1, <1>2, <1>3, <1>4, <1>5, <1>6, <1>7, <1>8, <1>9 DEF Sessions
  <1>. QED
    BY <1>1, <1>2, <1>3, <1>4, <1>5, <1>6, <1>7, <1>8, <1>10, EmptySession

\* What a request says of itself: everything but the rows it loaded.
LEMMA LoadTypes ==
    ASSUME Types, NEW r \in Requests, NEW new, IsSession(new), mine' = Loaded(r, new),
           dirty' \in [Requests -> SUBSET CommandIds], locks' \in [Requests -> SUBSET CommandIds],
           \A q \in Requests \ {r} : dirty'[q] = dirty[q] /\ locks'[q] = locks[q],
           dirty'[r] \cup locks'[r] \subseteq DOMAIN mine[r] \cup DOMAIN new
    PROVE  /\ mine' = [q \in Requests |-> mine'[q]] /\ \A q \in Requests : IsSession(mine'[q])
           /\ \A q \in Requests : dirty'[q] \cup locks'[q] \subseteq DOMAIN mine'[q]
  <1>1. Sessions
    BY DEF Types
  <1>2. ASSUME NEW q \in Requests
        PROVE  IsSession(mine'[q]) /\ dirty'[q] \cup locks'[q] \subseteq DOMAIN mine'[q]
    <2>1. CASE q = r
      BY <1>1, <2>1, LoadedIs
    <2>2. CASE q # r
      <3>1. mine'[q] = mine[q] /\ dirty'[q] = dirty[q] /\ locks'[q] = locks[q]
        BY <1>1, <2>2, LoadedIs
      <3>. QED
        BY <1>1, <3>1 DEF Sessions
    <2>. QED
      BY <2>1, <2>2
  <1>. QED
    BY <1>1, <1>2, LoadedIs

LEMMA NewRow ==
    ASSUME NEW d \in Drawers
    PROVE  LET row == [NoRow EXCEPT !.status = "pending", !.controller = ControllerOf(d)]
           IN  /\ row \in Row /\ row.status = "pending" /\ row.controller = ControllerOf(d)
               /\ row.ackedAt = FALSE
  <1>1. 1 \in Controllers /\ ControllerOf(d) \in Controllers
    BY TopologyAssumption, RouteInTopology, SMT DEF Controllers
  <1>. QED
    BY <1>1 DEF NoRow, Row, Statuses

LEMMA RowUpdates ==
    ASSUME NEW row \in Row
    PROVE  /\ \A s \in Statuses : LET q == [row EXCEPT !.status = s]
                                  IN  /\ q \in Row /\ q.status = s
                                      /\ q.controller = row.controller
                                      /\ q.ackedAt = row.ackedAt
           /\ LET q == [row EXCEPT !.status = "acked", !.ackedAt = TRUE]
              IN  q \in Row /\ q.status = "acked" /\ q.controller = row.controller /\ q.ackedAt
  BY DEF Row, Statuses

LEMMA GetTypes ==
    ASSUME Types, NEW r \in Requests, NEW x \in CommandIds
    PROVE  Get(r, x) \in Row
  BY DEF Types, Sessions, Shared, Get, IsSession

LEMMA BodyTypes ==
    ASSUME Types, NEW r \in Requests
    PROVE  body[r] \in Bodies /\ body[r].cid \in CommandIds /\ body[r].drawer \in {0} \cup Drawers
  BY RouteAssumption DEF Types, Sessions

LEMMA TypesClosed ==
    ASSUME Types, NEW r \in Requests, NEW answer \in Notes, Closed(r, answer), Shared'
    PROVE  Types'
  <1>1. Sessions' /\ body' = body /\ pc'[r] = "done" /\ \A q \in Requests \ {r} : pc'[q] = pc[q]
    BY ClosedIs DEF Types
  <1>2. Routed'
    BY <1>1 DEF Types, Routed, Publishing
  <1>. QED
    BY <1>1, <1>2 DEF Types

LEMMA GotoIs ==
    ASSUME Sessions, NEW r \in Requests, NEW label \in Labels, Goto(r, label)
    PROVE  /\ pc' \in [Requests -> Labels] /\ pc'[r] = label
           /\ \A q \in Requests \ {r} : pc'[q] = pc[q]
  BY DEF Sessions, Goto

LEMMA ArriveTypes ==
    ASSUME Types, NEW r \in Requests, NEW b \in Bodies, Arrive(r, b) PROVE Types'
  <1>0. Sessions /\ Shared /\ Routed
    BY DEF Types
  <1>1. Sessions'
    BY <1>0 DEF Arrive, Goto, Sessions, Labels
  <1>2. Shared'
    BY <1>0 DEF Arrive, Shared, devices
  <1>3. Routed'
    BY <1>0 DEF Arrive, Goto, Sessions, Routed, Publishing
  <1>. QED
    BY <1>1, <1>2, <1>3 DEF Types

LEMMA ExpireSelectTypes ==
    ASSUME Types, NEW r \in Requests, ExpireSelect(r) PROVE Types'
  <1>0. Sessions /\ Shared /\ Routed
    BY DEF Types
  <1>. DEFINE stale == {x \in CommandIds : rows[x].status = "published" /\ x \in old}
              new == [x \in stale |-> [rows[x] EXCEPT !.status = "expired"]]
  <1>1. IsSession(new)
    BY <1>0, RowUpdates DEF IsSession, Shared, Statuses
  <1>2. /\ mine' = Loaded(r, new) /\ dirty' = [dirty EXCEPT ![r] = stale] /\ locks' = locks
        /\ pc[r] = "expire" /\ Goto(r, "lookup")
        /\ UNCHANGED <<rows, old, body, base, todo, note, devices, faults>>
    BY DEF ExpireSelect
  <1>3. DOMAIN new = stale
    OBVIOUS
  <1>. HIDE DEF new
  <1>4. /\ dirty' \in [Requests -> SUBSET CommandIds] /\ dirty'[r] = stale
        /\ \A q \in Requests \ {r} : dirty'[q] = dirty[q]
    BY <1>0, <1>2 DEF Sessions
  <1>. HIDE DEF stale
  <1>5. /\ pc' \in [Requests -> Labels] /\ pc'[r] = "lookup"
        /\ \A q \in Requests \ {r} : pc'[q] = pc[q]
    BY <1>0, <1>2, GotoIs DEF Labels
  <1>6. locks \in [Requests -> SUBSET CommandIds] /\ locks[r] \subseteq DOMAIN mine[r]
    BY <1>0 DEF Sessions
  <1>7. /\ mine' = [q \in Requests |-> mine'[q]] /\ \A q \in Requests : IsSession(mine'[q])
        /\ \A q \in Requests : dirty'[q] \cup locks'[q] \subseteq DOMAIN mine'[q]
    BY <1>1, <1>2, <1>3, <1>4, <1>6, LoadTypes
  <1>8. Sessions'
    BY <1>0, <1>2, <1>4, <1>5, <1>7 DEF Sessions
  <1>9. Shared' /\ Routed'
    BY <1>0, <1>2, <1>5 DEF Shared, Routed, Publishing, devices
  <1>. QED
    BY <1>8, <1>9 DEF Types

LEMMA FlushTypes ==
    ASSUME Types, NEW r \in Requests, Flush(r) PROVE Types'
  <1>0. Sessions /\ Shared /\ Routed
    BY DEF Types
  <1>1. Sessions'
    BY <1>0 DEF Flush, Sessions
  <1>2. Shared' /\ Routed'
    BY <1>0 DEF Flush, Sessions, Shared, Routed, Publishing, devices
  <1>. QED
    BY <1>1, <1>2 DEF Types

LEMMA FailTypes ==
    ASSUME Types, NEW r \in Requests,
           RejectItem(r) \/ InsertConflicts(r) \/ DatabaseFails(r) \/ BreakDeadlock(r)
    PROVE  Types'
  <1>0. Sessions /\ Shared /\ Routed
    BY DEF Types
  <1>1. Closed(r, "error")
    BY DEF RejectItem, InsertConflicts, DatabaseFails, BreakDeadlock
  <1>2. base'[r] = 0 /\ \A q \in Requests \ {r} : base'[q] = base[q]
    BY <1>0, <1>1 DEF Closed, Sessions
  <1>3. Len(log) \in Nat /\ log' = log
    BY <1>0 DEF RejectItem, InsertConflicts, DatabaseFails, BreakDeadlock, Shared, devices
  <1>4. \A q \in Requests : base'[q] <= Len(log)
    BY <1>0, <1>2, <1>3 DEF Shared
  <1>5. faults' \in 0..MaxFaults
    BY <1>0, RouteAssumption, SMT
       DEF Fault, RejectItem, InsertConflicts, DatabaseFails, BreakDeadlock, Shared
  <1>6. Shared'
    BY <1>0, <1>3, <1>4, <1>5
       DEF RejectItem, InsertConflicts, DatabaseFails, BreakDeadlock, Shared, devices
  <1>. QED
    BY <1>1, <1>6, TypesClosed DEF Notes

LEMMA LookUpTypes ==
    ASSUME Types, NEW r \in Requests, LookUp(r) PROVE Types'
  <1>0. Sessions /\ Shared /\ Routed
    BY DEF Types
  <1>1. Shared'
    BY <1>0 DEF LookUp, Shared, devices
  <1>2. pc' \in [Requests -> Labels] /\ note' \in [Requests -> Notes]
    BY <1>0 DEF LookUp, Goto, Sessions, Labels, Notes
  <1>3. Routed'
    BY <1>0, BodyTypes DEF LookUp, Goto, Sessions, Routed, Publishing
  <1>4. CASE mine' = mine
    BY <1>0, <1>1, <1>2, <1>3, <1>4 DEF LookUp, Sessions, Types
  <1>5. CASE mine' = Loaded(r, [y \in {body[r].cid} |-> Get(r, body[r].cid)])
    <2>. DEFINE new == [y \in {body[r].cid} |-> Get(r, body[r].cid)]
    <2>1. IsSession(new)
      BY BodyTypes, GetTypes DEF IsSession
    <2>. HIDE DEF new
    <2>2. Sessions'
      BY <1>0, <1>2, <1>5, <2>1, LoadTypes DEF LookUp, Sessions, new
    <2>. QED
      BY <1>1, <1>3, <2>2 DEF Types
  <1>. QED
    BY <1>4, <1>5 DEF LookUp

LEMMA InsertTypes ==
    ASSUME Types, NEW r \in Requests, Insert(r) PROVE Types'
  <1>0. Sessions /\ Shared /\ Routed
    BY DEF Types
  <1>. DEFINE x == body[r].cid
              row == [NoRow EXCEPT !.status = "pending",
                                   !.controller = ControllerOf(body[r].drawer)]
              new == [y \in {x} |-> row]
  <1>1. row \in Row /\ x \in CommandIds
    BY <1>0, BodyTypes, NewRow DEF Insert, Routed
  <1>. HIDE DEF row
  <1>2. IsSession(new) /\ DOMAIN new = {x}
    BY <1>1 DEF IsSession
  <1>3. /\ mine' = Loaded(r, new) /\ dirty' = dirty /\ locks' = [locks EXCEPT ![r] = @ \cup {x}]
        /\ pc[r] = "insert" /\ Goto(r, "publish")
        /\ UNCHANGED <<rows, old, body, base, todo, note, devices, faults>>
    BY DEF Insert, row
  <1>. HIDE DEF new, x
  <1>4. /\ locks' \in [Requests -> SUBSET CommandIds] /\ locks'[r] = locks[r] \cup {x}
        /\ \A q \in Requests \ {r} : locks'[q] = locks[q]
    BY <1>0, <1>1, <1>3 DEF Sessions
  <1>5. /\ pc' \in [Requests -> Labels] /\ pc'[r] = "publish"
        /\ \A q \in Requests \ {r} : pc'[q] = pc[q]
    BY <1>0, <1>3, GotoIs DEF Labels
  <1>6. /\ dirty \in [Requests -> SUBSET CommandIds] /\ dirty[r] \subseteq DOMAIN mine[r]
        /\ locks[r] \subseteq DOMAIN mine[r]
    BY <1>0 DEF Sessions
  <1>7. /\ mine' = [q \in Requests |-> mine'[q]] /\ \A q \in Requests : IsSession(mine'[q])
        /\ \A q \in Requests : dirty'[q] \cup locks'[q] \subseteq DOMAIN mine'[q]
    BY <1>2, <1>3, <1>4, <1>6, LoadTypes
  <1>8. Sessions'
    BY <1>0, <1>3, <1>4, <1>5, <1>7 DEF Sessions
  <1>9. Shared' /\ Routed'
    BY <1>0, <1>3, <1>5 DEF Shared, Routed, Publishing, devices
  <1>. QED
    BY <1>8, <1>9 DEF Types

LEMMA PublishBeginsTypes ==
    ASSUME Types, NEW r \in Requests, PublishBegins(r) PROVE Types'
  <1>0. Sessions /\ Shared /\ Routed
    BY DEF Types
  <1>1. Len(log) \in Nat
    BY <1>0 DEF Shared
  <1>2. Sessions'
    BY <1>0, <1>1 DEF PublishBegins, Goto, Sessions, Labels
  <1>3. Shared' /\ Routed'
    BY <1>0, <1>1
       DEF PublishBegins, Goto, Sessions, Shared, Routed, Publishing, devices
  <1>. QED
    BY <1>2, <1>3 DEF Types

LEMMA BusTypes ==
    ASSUME Types, NEW r \in Requests, Deliver(r) \/ Light(r) \/ AnswerCommand(r) PROVE Types'
  <1>. DEFINE c == ControllerOf(body[r].drawer)
  <1>0. Sessions /\ Shared /\ Routed
    BY DEF Types
  <1>1. /\ body[r].drawer \in Drawers /\ c \in Controllers /\ LedOf(body[r].drawer) \in Leds
        /\ body[r].cid \in CommandIds
    BY <1>0, BodyTypes, RouteInTopology DEF Deliver, Light, AnswerCommand, Routed, Publishing
  <1>2. Sessions'
    BY <1>0 DEF Deliver, Light, AnswerCommand, Goto, Sessions, Labels, session
  <1>3. Routed'
    BY <1>0, <1>1 DEF Deliver, Light, AnswerCommand, Goto, Sessions, Routed, Publishing, session
  <1>4. CASE Deliver(r)
    <2>1. seen' \in [Controllers -> SUBSET CommandIds]
      BY <1>0, <1>1, <1>4 DEF Deliver, Shared
    <2>2. leds' \in [Controllers -> SUBSET Leds]
      BY <1>0, <1>1, <1>4 DEF Deliver, Shared
    <2>3. Shared'
      BY <1>0, <1>4, <2>1, <2>2 DEF Deliver, Shared, session
    <2>. QED
      BY <1>2, <1>3, <2>3 DEF Types
  <1>5. CASE Light(r)
    <2>1. lit' \in [Controllers -> SUBSET CommandIds]
      BY <1>0, <1>1, <1>5 DEF Light, Shared
    <2>2. leds' \in [Controllers -> SUBSET Leds]
      BY <1>0, <1>1, <1>5 DEF Light, Shared
    <2>3. Shared'
      BY <1>0, <1>5, <2>1, <2>2 DEF Light, Shared, session
    <2>. QED
      BY <1>2, <1>3, <2>3 DEF Types
  <1>6. CASE AnswerCommand(r)
    <2>1. [cid |-> body[r].cid, controller |-> c] \in Ack
      BY <1>1 DEF Ack
    <2>2. log' \in Seq(Ack) /\ Len(log') = Len(log) + 1
      BY <1>0, <1>6, <2>1, AppendProperties DEF AnswerCommand, Shared
    <2>3. Len(log) \in Nat
      BY <1>0 DEF Shared
    <2>4. \A q \in Requests : base[q] <= Len(log')
      BY <1>0, <2>2, <2>3 DEF Shared, Sessions
    <2>. QED
      BY <1>0, <1>2, <1>3, <1>6, <2>2, <2>4 DEF AnswerCommand, Shared, session, Types
  <1>. QED
    BY <1>4, <1>5, <1>6

\* The ACKs since a publish began.
LEMMA NewAcks ==
    ASSUME Types, NEW r \in Requests
    PROVE  LET new == SubSeq(log, base[r] + 1, Len(log))
           IN  /\ new \in Seq(Ack) /\ inbox \o new \in Seq(Ack)
               /\ \A k \in DOMAIN new : \E j \in DOMAIN log : new[k] = log[j]
  <1>1. log \in Seq(Ack) /\ base[r] \in Nat /\ base[r] <= Len(log) /\ inbox \in Seq(Ack)
    BY DEF Types, Sessions, Shared
  <1>2. \A k \in (base[r] + 1)..Len(log) : log[k] \in Ack /\ k \in DOMAIN log
    BY <1>1
  <1>. DEFINE new == SubSeq(log, base[r] + 1, Len(log))
  <1>3. Len(log) \in Nat /\ base[r] + 1 \in 1..(Len(log) + 1)
    BY <1>1
  <1>4. /\ new \in Seq(Ack) /\ Len(new) = Len(log) - base[r]
        /\ \A k \in 1..(Len(log) - base[r]) : new[k] = log[base[r] + k]
    BY <1>1, <1>3, SubSeqProperties
  <1>. HIDE DEF new
  <1>5. inbox \o new \in Seq(Ack)
    BY <1>1, <1>4, ConcatProperties
  <1>6. DOMAIN new = 1..Len(new) /\ DOMAIN log = 1..Len(log)
    BY <1>1, <1>4
  <1>7. ASSUME NEW k \in DOMAIN new PROVE base[r] + k \in DOMAIN log /\ new[k] = log[base[r] + k]
    <2>1. k \in 1..(Len(log) - base[r])
      BY <1>4, <1>6
    <2>2. base[r] + k \in 1..Len(log)
      BY <1>1, <1>3, <2>1
    <2>. QED
      BY <1>4, <1>6, <2>1, <2>2
  <1>. QED
    BY <1>4, <1>5, <1>7 DEF new

LEMMA CollectTypes ==
    ASSUME Types, NEW r \in Requests, Collect(r), body[r].cid \in DOMAIN mine[r] PROVE Types'
  <1>0. Sessions /\ Shared /\ Routed
    BY DEF Types
  <1>. DEFINE x == body[r].cid
              row == [mine[r][x] EXCEPT !.status = "published"]
              new == [y \in {x} |-> row]
  <1>1. row \in Row /\ x \in CommandIds
    BY <1>0, BodyTypes, RowUpdates DEF Sessions, IsSession, Statuses
  <1>. HIDE DEF row
  <1>2. IsSession(new) /\ DOMAIN new = {x}
    BY <1>1 DEF IsSession
  <1>3. /\ mine' = Loaded(r, new) /\ dirty' = dirty /\ locks' = locks
        /\ pc[r] = "collect" /\ Goto(r, "drain")
        /\ UNCHANGED <<rows, old, body, base, todo, note, log, seen, leds, lit, faults>>
        /\ inbox' = inbox \o SubSeq(log, base[r] + 1, Len(log))
    BY DEF Collect, row
  <1>. HIDE DEF new, x
  <1>4. /\ pc' \in [Requests -> Labels] /\ pc'[r] = "drain"
        /\ \A q \in Requests \ {r} : pc'[q] = pc[q]
    BY <1>0, <1>3, GotoIs DEF Labels
  <1>5. /\ dirty \in [Requests -> SUBSET CommandIds] /\ dirty[r] \subseteq DOMAIN mine[r]
        /\ locks \in [Requests -> SUBSET CommandIds] /\ locks[r] \subseteq DOMAIN mine[r]
    BY <1>0 DEF Sessions
  <1>6. /\ mine' = [q \in Requests |-> mine'[q]] /\ \A q \in Requests : IsSession(mine'[q])
        /\ \A q \in Requests : dirty'[q] \cup locks'[q] \subseteq DOMAIN mine'[q]
    BY <1>2, <1>3, <1>5, LoadTypes
  <1>7. Sessions'
    BY <1>0, <1>3, <1>4, <1>6 DEF Sessions
  <1>8. inbox' \in Seq(Ack)
    BY <1>3, NewAcks
  <1>9. Shared' /\ Routed'
    BY <1>0, <1>3, <1>4, <1>8 DEF Shared, Routed, Publishing
  <1>. QED
    BY <1>7, <1>9 DEF Types

LEMMA DrainTypes ==
    ASSUME Types, NEW r \in Requests, Drain(r) PROVE Types'
  <1>0. Sessions /\ Shared /\ Routed
    BY DEF Types
  <1>1. Sessions'
    BY <1>0 DEF Drain, Goto, Sessions, Shared, Labels
  <1>2. Shared' /\ Routed'
    BY <1>0, EmptySession DEF Drain, Goto, Sessions, Shared, Routed, Publishing
  <1>. QED
    BY <1>1, <1>2 DEF Types

\* The ACK that is handled next.
LEMMA NextAck ==
    ASSUME Types, NEW r \in Requests, todo[r] # << >>
    PROVE  /\ Head(todo[r]) \in Ack /\ 1 \in DOMAIN todo[r] /\ Head(todo[r]) = todo[r][1]
           /\ Tail(todo[r]) \in Seq(Ack)
           /\ \A k \in DOMAIN Tail(todo[r]) : \E j \in DOMAIN todo[r] : Tail(todo[r])[k] = todo[r][j]
  <1>1. todo[r] \in Seq(Ack)
    BY DEF Types, Sessions
  <1>2. /\ Head(todo[r]) \in Ack /\ Tail(todo[r]) \in Seq(Ack)
        /\ Len(Tail(todo[r])) = Len(todo[r]) - 1
        /\ \A k \in 1..Len(Tail(todo[r])) : Tail(todo[r])[k] = todo[r][k + 1]
    BY <1>1, HeadTailProperties
  <1>3. Len(todo[r]) \in Nat \ {0} /\ DOMAIN todo[r] = 1..Len(todo[r]) /\ Head(todo[r]) = todo[r][1]
    BY <1>1, EmptySeq
  <1>4. DOMAIN Tail(todo[r]) = 1..Len(Tail(todo[r]))
    BY <1>2
  <1>5. \A k \in DOMAIN Tail(todo[r]) : k + 1 \in DOMAIN todo[r] /\ Tail(todo[r])[k] = todo[r][k + 1]
    BY <1>2, <1>3, <1>4
  <1>. QED
    BY <1>2, <1>3, <1>5

\* What handle_ack loads for the next ACK, if anything, and whether it has to write it.
Handled(row, a) ==
    IF Confirmable(row, a) /\ row.status # "acked"
    THEN [row EXCEPT !.status = "acked", !.ackedAt = TRUE] ELSE row

LEMMA HandleAckTypes ==
    ASSUME Types, NEW r \in Requests, HandleAck(r) PROVE Types'
  <1>. DEFINE a == Head(todo[r])
              x == a.cid
              row == Get(r, x)
              loaded == Handled(row, a)
              new == [y \in {x} |-> loaded]
  <1>0. Sessions /\ Shared /\ Routed
    BY DEF Types
  <1>1. /\ pc' = pc /\ body' = body /\ base' = base /\ note' = note /\ locks' = locks
        /\ todo' = [todo EXCEPT ![r] = Tail(@)] /\ todo[r] # << >> /\ dirty[r] = {}
        /\ UNCHANGED <<rows, old, devices, faults>>
    BY DEF HandleAck
  <1>2. a \in Ack /\ x \in CommandIds /\ Tail(todo[r]) \in Seq(Ack)
    BY <1>1, NextAck DEF Ack
  <1>3. todo' \in [Requests -> Seq(Ack)]
    BY <1>0, <1>1, <1>2 DEF Sessions
  <1>4. Shared' /\ Routed'
    BY <1>0, <1>1 DEF Shared, Routed, Publishing, devices
  <1>5. CASE mine' = mine /\ dirty' = dirty
    BY <1>0, <1>1, <1>3, <1>4, <1>5 DEF Sessions, Types
  <1>6. CASE mine' = Loaded(r, new) /\ (dirty' = dirty \/ dirty' = [dirty EXCEPT ![r] = {x}])
    <2>1. row \in Row
      BY <1>2, GetTypes
    <2>2. loaded \in Row
      BY <2>1, RowUpdates DEF Handled
    <2>3. IsSession(new) /\ DOMAIN new = {x}
      BY <1>2, <2>2 DEF IsSession
    <2>4. /\ dirty' \in [Requests -> SUBSET CommandIds] /\ dirty'[r] \subseteq DOMAIN mine[r] \cup {x}
          /\ \A q \in Requests \ {r} : dirty'[q] = dirty[q]
      <3>. HIDE DEF x
      <3>1. CASE dirty' = dirty
        BY <1>0, <1>1, <3>1 DEF Sessions
      <3>2. CASE dirty' = [dirty EXCEPT ![r] = {x}]
        BY <1>0, <1>2, <3>2 DEF Sessions
      <3>. QED
        BY <1>6, <3>1, <3>2
    <2>5. locks \in [Requests -> SUBSET CommandIds] /\ locks[r] \subseteq DOMAIN mine[r]
      BY <1>0 DEF Sessions
    <2>. HIDE DEF new
    <2>6. /\ mine' = [q \in Requests |-> mine'[q]] /\ \A q \in Requests : IsSession(mine'[q])
          /\ \A q \in Requests : dirty'[q] \cup locks'[q] \subseteq DOMAIN mine'[q]
      BY <1>1, <1>6, <2>3, <2>4, <2>5, LoadTypes
    <2>7. Sessions'
      BY <1>0, <1>1, <1>3, <2>4, <2>6 DEF Sessions
    <2>. QED
      BY <1>4, <2>7 DEF Types
  <1>. QED
    BY <1>5, <1>6 DEF HandleAck, Handled

LEMMA MergedIs ==
    ASSUME NEW row \in Row, NEW own \in Row
    PROVE  /\ Merged(row, own) \in Row /\ Merged(row, own).status = own.status
           /\ Merged(row, own).controller =
                  IF row.status = "absent" THEN own.controller ELSE row.controller
           /\ Merged(row, own).ackedAt =>
                  (row.status # "absent" /\ row.ackedAt) \/ own.ackedAt
           /\ row.status # "absent" /\ row.ackedAt => Merged(row, own).ackedAt
  BY DEF Merged, Row

\* What a commit makes of the table.
LEMMA CommitIs ==
    ASSUME Types, NEW r \in Requests, Commit(r)
    PROVE  /\ rows' \in [CommandIds -> Row]
           /\ \A x \in locks[r] : x \in DOMAIN mine[r] /\ rows[x] \in Row /\ mine[r][x] \in Row
                                  /\ rows'[x] = Merged(rows[x], mine[r][x])
           /\ \A x \in CommandIds \ locks[r] : rows'[x] = rows[x]
           /\ Answer(r, rows'[body[r].cid]) \in Notes \ {"none", "error"}
  <1>1. /\ rows \in [CommandIds -> Row] /\ IsSession(mine[r]) /\ locks[r] \subseteq CommandIds
        /\ locks[r] \subseteq DOMAIN mine[r]
    BY DEF Types, Sessions, Shared
  <1>2. \A x \in locks[r] : rows[x] \in Row /\ mine[r][x] \in Row /\ x \in DOMAIN mine[r]
    BY <1>1 DEF IsSession
  <1>3. \A x \in locks[r] : Merged(rows[x], mine[r][x]) \in Row
    BY <1>2, MergedIs
  <1>4. rows' = [x \in CommandIds |->
                    IF x \in locks[r] THEN Merged(rows[x], mine[r][x]) ELSE rows[x]]
    BY DEF Commit
  <1>5. Answer(r, rows'[body[r].cid]) \in Notes \ {"none", "error"}
    BY DEF Answer, Notes
  <1>. QED
    BY <1>1, <1>2, <1>3, <1>4, <1>5

LEMMA CommitTypes ==
    ASSUME Types, NEW r \in Requests, Commit(r) PROVE Types'
  <1>0. Sessions /\ Shared /\ Routed
    BY DEF Types
  <1>. DEFINE answer == Answer(r, rows'[body[r].cid])
  <1>1. Closed(r, answer) /\ UNCHANGED <<old, devices, faults>>
    BY DEF Commit
  <1>2. answer \in Notes /\ rows' \in [CommandIds -> Row]
    BY CommitIs
  <1>. HIDE DEF answer
  <1>3. base'[r] = 0 /\ \A q \in Requests \ {r} : base'[q] = base[q]
    BY <1>0, <1>1 DEF Closed, Sessions
  <1>4. Len(log) \in Nat /\ log' = log
    BY <1>0, <1>1 DEF Shared, devices
  <1>5. \A q \in Requests : base'[q] <= Len(log)
    BY <1>0, <1>3, <1>4 DEF Shared
  <1>6. Shared'
    BY <1>0, <1>1, <1>2, <1>4, <1>5 DEF Shared, devices
  <1>. QED
    BY <1>1, <1>2, <1>6, TypesClosed

LEMMA RestartTypes ==
    ASSUME Types, Restart PROVE Types'
  <1>0. Sessions /\ Shared /\ Routed
    BY DEF Types
  <1>1. /\ pc' \in [Requests -> Labels] /\ \A r \in Requests : pc'[r] \in {"idle", "done"}
    BY <1>0 DEF Restart, Active, Sessions, Labels
  <1>2. note' \in [Requests -> Notes]
    BY <1>0 DEF Restart, Sessions, Notes
  <1>3. \A r \in Requests : mine'[r] = << >> /\ dirty'[r] = {} /\ locks'[r] = {} /\ base'[r] = 0
    BY DEF Restart
  <1>4. /\ mine' = [r \in Requests |-> mine'[r]] /\ todo' \in [Requests -> Seq(Ack)]
        /\ dirty' \in [Requests -> SUBSET CommandIds] /\ locks' \in [Requests -> SUBSET CommandIds]
        /\ base' \in [Requests -> Nat] /\ body' = body
    BY EmptySession DEF Restart
  <1>5. Sessions'
    BY <1>0, <1>1, <1>2, <1>3, <1>4, EmptySession DEF Sessions
  <1>6. log' = << >> /\ log' \in Seq(Ack) /\ Len(log') = 0 /\ inbox' \in Seq(Ack)
    BY EmptySession, EmptySeq DEF Restart
  <1>7. faults' \in 0..MaxFaults
    BY <1>0, RouteAssumption, SMT DEF Restart, Fault, Shared
  <1>8. Shared'
    BY <1>0, <1>3, <1>6, <1>7 DEF Restart, Shared
  <1>9. Routed'
    BY <1>1 DEF Routed, Publishing
  <1>. QED
    BY <1>5, <1>8, <1>9 DEF Types

LEMMA ElapseTypes ==
    ASSUME Types, NEW x \in CommandIds, Elapse(x) PROVE Types'
  <1>0. Sessions /\ Shared /\ Routed
    BY DEF Types
  <1>. QED
    BY <1>0 DEF Elapse, Types, Sessions, Shared, Routed, Publishing, session, devices

-------------------------------------------------------------------------------
(* What a step of one request leaves of the others *)

\* The request's part of the state stays as it is.
SameRequest(q) ==
    /\ pc'[q] = pc[q] /\ body'[q] = body[q] /\ mine'[q] = mine[q] /\ dirty'[q] = dirty[q]
    /\ locks'[q] = locks[q] /\ todo'[q] = todo[q] /\ note'[q] = note[q]

\* A committed row stays, except that it may be acknowledged or end.
Advances(x) ==
    /\ rows'[x].status # "absent"
    /\ rows[x].status # "absent" => /\ rows'[x].controller = rows[x].controller
                                    /\ rows[x].ackedAt => rows'[x].ackedAt

LitGrows == \A c \in Controllers : lit[c] \subseteq lit'[c]

LEMMA OthersKeep ==
    ASSUME Types, NEW q \in Requests, Own(q), SameRequest(q), LitGrows,
           \A x \in CommandIds : rows'[x] = rows[x] \/ (x \notin locks[q] /\ Advances(x))
    PROVE  Own(q)'
  <1>1. /\ body[q].cid \in CommandIds /\ IsSession(mine[q]) /\ rows \in [CommandIds -> Row]
        /\ Publishing(q) \/ pc[q] = "insert" => body[q].drawer \in Drawers
    BY BodyTypes DEF Types, Sessions, Shared, Routed
  <1>2. Publishing(q)' <=> Publishing(q)
    BY DEF SameRequest, Publishing
  <1>3. pc[q] = "answer" => ControllerOf(body[q].drawer) \in Controllers
    BY <1>1, RouteInTopology DEF Publishing
  <1>4. Claims(q)'
    BY <1>1, <1>2, <1>3 DEF Own, Claims, SameRequest, LitGrows, Advances
  <1>5. ASSUME NEW x \in DOMAIN mine[q] PROVE RowIsTrue(q, x)'
    <2>1. /\ x \in CommandIds /\ mine[q][x].controller \in Controllers /\ RowIsTrue(q, x)
          /\ rows'[x] = rows[x] \/ (x \notin locks[q] /\ Advances(x))
      BY <1>1 DEF IsSession, Row, Own
    <2>. QED
      BY <1>2, <2>1 DEF RowIsTrue, SameRequest, LitGrows, Advances
  <1>6. AnswerIsTrue(q)'
    <2>1. rows[body[q].cid].controller \in Controllers
      BY <1>1 DEF Row
    <2>. QED
      BY <1>1, <2>1 DEF Own, AnswerIsTrue, SameRequest, LitGrows, Advances
  <1>7. DOMAIN mine'[q] = DOMAIN mine[q]
    BY DEF SameRequest
  <1>. QED
    BY <1>4, <1>5, <1>6, <1>7 DEF Own

\* A step of r keeps the invariant of every request if it keeps that of r.
LEMMA StepOf ==
    ASSUME IInv, NEW r \in Requests, \A q \in Requests \ {r} : SameRequest(q), LitGrows,
           \A x \in CommandIds : rows'[x] = rows[x] \/ (x \in locks[r] /\ Advances(x)),
           \A q \in Requests \ {r} : locks'[r] \cap locks[q] = {},
           Own(r)'
    PROVE  (\A q \in Requests : Own(q)') /\ LocksExclude'
  <1>1. ASSUME NEW q \in Requests, q # r PROVE Own(q)'
    <2>1. locks[r] \cap locks[q] = {} /\ Types /\ Own(q) /\ SameRequest(q)
      BY <1>1 DEF IInv, LocksExclude
    <2>2. \A x \in CommandIds : rows'[x] = rows[x] \/ (x \notin locks[q] /\ Advances(x))
      BY <2>1
    <2>. QED
      BY <2>1, <2>2, OthersKeep
  <1>2. LocksExclude'
    BY DEF IInv, LocksExclude, SameRequest
  <1>. QED
    BY <1>1, <1>2

\* What a step leaves true of the bus if it does not touch it.
LEMMA BusKeeps ==
    ASSUME IInv, NEW r \in Requests, \A q \in Requests \ {r} : SameRequest(q), pc[r] # "light",
           UNCHANGED <<log, inbox, seen, lit>>,
           \A k \in DOMAIN todo'[r] : \E j \in DOMAIN todo[r] : todo'[r][k] = todo[r][j]
    PROVE  AcksAreLit' /\ SeenIsLit'
  <1>1. AllLit(todo[r])'
    BY DEF IInv, AcksAreLit, AllLit
  <1>2. \A q \in Requests \ {r} : AllLit(todo[q])'
    BY DEF IInv, AcksAreLit, AllLit, SameRequest
  <1>3. AcksAreLit'
    BY <1>1, <1>2 DEF IInv, AcksAreLit, AllLit
  <1>4. SeenIsLit'
    BY DEF IInv, SeenIsLit, Lighting, SameRequest
  <1>. QED
    BY <1>3, <1>4

\* A step that changes nothing but r's part of the state.
LEMMA SessionStep ==
    ASSUME IInv, Types', NEW r \in Requests, \A q \in Requests \ {r} : SameRequest(q),
           pc[r] # "light", UNCHANGED <<rows, log, inbox, seen, lit>>,
           \A k \in DOMAIN todo'[r] : \E j \in DOMAIN todo[r] : todo'[r][k] = todo[r][j],
           \A q \in Requests \ {r} : locks'[r] \cap locks[q] = {},
           Own(r)'
    PROVE  IInv'
  <1>1. LitGrows
    BY DEF LitGrows
  <1>2. (\A q \in Requests : Own(q)') /\ LocksExclude'
    BY <1>1, StepOf
  <1>3. RowsAreTrue' /\ AcksAreLit' /\ SeenIsLit'
    BY BusKeeps DEF IInv, RowsAreTrue
  <1>. QED
    BY <1>2, <1>3 DEF IInv
-------------------------------------------------------------------------------
(* The steps *)

LEMMA ClosedOwn ==
    ASSUME Types, NEW r \in Requests, Closed(r, "error")
    PROVE  Own(r)' /\ \A q \in Requests \ {r} : SameRequest(q)
  <1>1. Sessions
    BY DEF Types
  <1>2. /\ pc'[r] = "done" /\ note'[r] = "error" /\ DOMAIN mine'[r] = {}
        /\ \A q \in Requests \ {r} : SameRequest(q)
    BY <1>1, ClosedIs DEF Notes, SameRequest
  <1>3. Own(r)'
    BY <1>2 DEF Own, Claims, AnswerIsTrue, Publishing
  <1>. QED
    BY <1>2, <1>3

\* A request that publishes waits for nobody, so that no deadlock can end it.
LEMMA NoDeadlockAtBus ==
    ASSUME IInv, NEW r \in Requests, Publishing(r) PROVE ~Deadlocked(r)
  <1>1. dirty[r] = {} /\ pc[r] # "insert"
    BY DEF IInv, Own, Claims, Publishing
  <1>2. Holders(r, Wants(r)) = {}
    BY <1>1 DEF Holders, Wants
  <1>. QED
    BY <1>2 DEF Deadlocked

LEMMA FailStep ==
    ASSUME IInv, NEW r \in Requests,
           RejectItem(r) \/ InsertConflicts(r) \/ DatabaseFails(r) \/ BreakDeadlock(r)
    PROVE  IInv'
  <1>0. Types /\ Sessions
    BY DEF IInv, Types
  <1>1. Closed(r, "error") /\ UNCHANGED <<rows, log, inbox, seen, lit>>
    BY DEF RejectItem, InsertConflicts, DatabaseFails, BreakDeadlock, devices
  <1>2. Own(r)' /\ \A q \in Requests \ {r} : SameRequest(q)
    BY <1>0, <1>1, ClosedOwn
  <1>3. locks'[r] = {} /\ todo'[r] = << >> /\ DOMAIN << >> = {}
    BY <1>0, <1>1, ClosedIs, EmptySession DEF Notes
  <1>4. pc[r] # "light"
    BY NoDeadlockAtBus
       DEF RejectItem, InsertConflicts, DatabaseFails, BreakDeadlock, Publishing
  <1>5. Types'
    BY <1>0, FailTypes
  <1>. QED
    BY <1>1, <1>2, <1>3, <1>4, <1>5, SessionStep

LEMMA ArriveStep ==
    ASSUME IInv, NEW r \in Requests, NEW b \in Bodies, Arrive(r, b) PROVE IInv'
  <1>0. Types /\ Sessions /\ Own(r) /\ LocksExclude
    BY DEF IInv, Types
  <1>1. /\ pc[r] = "idle" /\ pc'[r] = "expire" /\ UNCHANGED <<rows, log, inbox, seen, lit>>
        /\ mine' = mine /\ note' = note /\ locks' = locks /\ todo' = todo
        /\ \A q \in Requests \ {r} : SameRequest(q)
    BY <1>0 DEF Arrive, Goto, Sessions, SameRequest, devices
  <1>2. Own(r)'
    BY <1>0, <1>1 DEF Own, Claims, AnswerIsTrue, Publishing
  <1>3. Types'
    BY <1>0, ArriveTypes
  <1>. QED
    BY <1>0, <1>1, <1>2, <1>3, SessionStep DEF LocksExclude

LEMMA ExpireSelectStep ==
    ASSUME IInv, NEW r \in Requests, ExpireSelect(r) PROVE IInv'
  <1>0. Types /\ Sessions /\ Own(r) /\ LocksExclude /\ RowsAreTrue /\ rows \in [CommandIds -> Row]
    BY DEF IInv, Types, Shared
  <1>. DEFINE stale == {x \in CommandIds : rows[x].status = "published" /\ x \in old}
              new == [x \in stale |-> [rows[x] EXCEPT !.status = "expired"]]
  <1>1. IsSession(new) /\ DOMAIN new = stale
    BY <1>0, RowUpdates DEF IsSession, Statuses
  <1>2. \A x \in stale : /\ new[x].status = "expired" /\ new[x].controller = rows[x].controller
                         /\ new[x].ackedAt = rows[x].ackedAt /\ rows[x].status = "published"
                         /\ x \in CommandIds
    BY <1>0, RowUpdates DEF Statuses
  <1>3. /\ mine' = Loaded(r, new) /\ dirty' = [dirty EXCEPT ![r] = stale]
        /\ pc[r] = "expire" /\ Goto(r, "lookup")
        /\ UNCHANGED <<rows, old, body, locks, base, todo, note, devices, faults>>
    BY DEF ExpireSelect
  <1>. HIDE DEF new
  <1>4. dirty'[r] = stale /\ \A q \in Requests \ {r} : dirty'[q] = dirty[q]
    BY <1>0, <1>3 DEF Sessions
  <1>. HIDE DEF stale
  <1>5. pc'[r] = "lookup" /\ \A q \in Requests \ {r} : pc'[q] = pc[q]
    BY <1>0, <1>3, GotoIs DEF Labels
  <1>6. /\ DOMAIN mine'[r] = DOMAIN mine[r] \cup stale
        /\ \A x \in stale : mine'[r][x] = new[x]
        /\ \A x \in DOMAIN mine[r] \ stale : mine'[r][x] = mine[r][x]
        /\ \A q \in Requests \ {r} : mine'[q] = mine[q]
    BY <1>0, <1>1, <1>3, LoadedIs
  <1>7. /\ \A q \in Requests \ {r} : SameRequest(q)
        /\ UNCHANGED <<rows, log, inbox, seen, lit, locks, todo, body, note>>
    BY <1>3, <1>4, <1>5, <1>6 DEF SameRequest, devices
  <1>8. Claims(r)' /\ AnswerIsTrue(r)'
    BY <1>0, <1>3, <1>5, <1>7 DEF Own, Claims, AnswerIsTrue, Publishing
  <1>9. ASSUME NEW x \in DOMAIN mine'[r] PROVE RowIsTrue(r, x)'
    <2>1. CASE x \in stale
      BY <1>0, <1>2, <1>6, <1>7, <2>1 DEF RowIsTrue, RowsAreTrue
    <2>2. CASE x \notin stale
      <3>1. RowIsTrue(r, x) /\ mine'[r][x] = mine[r][x] /\ ~Publishing(r) /\ x \notin dirty'[r]
        BY <1>0, <1>3, <1>4, <1>6, <2>2 DEF Own, Publishing
      <3>. QED
        BY <1>3, <1>7, <3>1 DEF RowIsTrue
    <2>. QED
      BY <2>1, <2>2
  <1>10. Own(r)'
    BY <1>8, <1>9 DEF Own
  <1>11. Types'
    BY <1>0, ExpireSelectTypes
  <1>. QED
    BY <1>0, <1>3, <1>7, <1>10, <1>11, SessionStep DEF LocksExclude

LEMMA FlushStep ==
    ASSUME IInv, NEW r \in Requests, Flush(r) PROVE IInv'
  <1>0. Types /\ Sessions /\ Own(r) /\ LocksExclude
    BY DEF IInv, Types
  <1>1. /\ dirty[r] # {} /\ Active(r) /\ Holders(r, dirty[r]) = {}
        /\ locks'[r] = locks[r] \cup dirty[r] /\ dirty'[r] = {}
        /\ UNCHANGED <<rows, pc, body, mine, note, todo, log, inbox, seen, lit>>
        /\ \A q \in Requests \ {r} : SameRequest(q)
    BY <1>0 DEF Flush, Sessions, SameRequest, devices
  <1>2. pc[r] # "insert" /\ ~Publishing(r) /\ pc[r] # "done"
    BY <1>0, <1>1 DEF Own, Claims, Active
  <1>3. Claims(r)' /\ AnswerIsTrue(r)'
    BY <1>0, <1>1, <1>2 DEF Own, Claims, AnswerIsTrue, Publishing
  <1>4. ASSUME NEW x \in DOMAIN mine[r] PROVE RowIsTrue(r, x)'
    BY <1>0, <1>1, <1>2 DEF Own, RowIsTrue, Publishing
  <1>5. Own(r)'
    BY <1>1, <1>3, <1>4 DEF Own
  <1>6. \A q \in Requests \ {r} : locks'[r] \cap locks[q] = {}
    BY <1>0, <1>1 DEF LocksExclude, Holders
  <1>7. Types'
    BY <1>0, FlushTypes
  <1>. QED
    BY <1>1, <1>2, <1>5, <1>6, <1>7, SessionStep DEF Publishing

LEMMA LookUpStep ==
    ASSUME IInv, NEW r \in Requests, LookUp(r) PROVE IInv'
  <1>. DEFINE x == body[r].cid
              new == [y \in {x} |-> Get(r, x)]
  <1>0. /\ Types /\ Sessions /\ Own(r) /\ LocksExclude /\ RowsAreTrue /\ x \in CommandIds
        /\ Get(r, x) \in Row
    BY BodyTypes, GetTypes DEF IInv, Types
  <1>1. /\ pc[r] = "lookup" /\ dirty[r] = {} /\ body[r].drawer # 0
        /\ UNCHANGED <<rows, body, dirty, locks, todo, log, inbox, seen, lit>>
    BY DEF LookUp, devices
  <1>2. Types'
    BY <1>0, LookUpTypes
  <1>3. ASSUME Get(r, x).status = "absent", Goto(r, "insert"), UNCHANGED <<mine, note>>
        PROVE  Own(r)' /\ \A q \in Requests \ {r} : SameRequest(q)
    <2>1. x \notin DOMAIN mine[r]
      BY <1>0, <1>3 DEF Get, Own, RowIsTrue
    <2>2. pc'[r] = "insert" /\ \A q \in Requests \ {r} : pc'[q] = pc[q]
      BY <1>0, <1>3, GotoIs DEF Labels
    <2>3. Claims(r)' /\ AnswerIsTrue(r)'
      BY <1>0, <1>1, <1>3, <2>1, <2>2 DEF Own, Claims, AnswerIsTrue, Publishing
    <2>4. ASSUME NEW y \in DOMAIN mine[r] PROVE RowIsTrue(r, y)'
      BY <1>0, <1>1, <1>3, <2>2 DEF Own, RowIsTrue, Publishing
    <2>. QED
      BY <1>1, <1>3, <2>2, <2>3, <2>4 DEF Own, SameRequest
  <1>4. ASSUME Get(r, x).status # "absent", Goto(r, "drain"), mine' = Loaded(r, new),
               note' = [note EXCEPT ![r] = "deduplicated"]
        PROVE  Own(r)' /\ \A q \in Requests \ {r} : SameRequest(q)
    <2>1. IsSession(new) /\ DOMAIN new = {x} /\ new[x] = Get(r, x)
      BY <1>0 DEF IsSession
    <2>. HIDE DEF new
    <2>2. pc'[r] = "drain" /\ \A q \in Requests \ {r} : pc'[q] = pc[q]
      BY <1>0, <1>4, GotoIs DEF Labels
    <2>3. note'[r] = "deduplicated" /\ \A q \in Requests \ {r} : note'[q] = note[q]
      BY <1>0, <1>4 DEF Sessions
    <2>4. /\ DOMAIN mine'[r] = DOMAIN mine[r] \cup {x} /\ mine'[r][x] = Get(r, x)
          /\ \A y \in DOMAIN mine[r] \ {x} : mine'[r][y] = mine[r][y]
          /\ \A q \in Requests \ {r} : mine'[q] = mine[q]
      BY <1>0, <1>4, <2>1, LoadedIs
    <2>5. \A y \in DOMAIN mine[r] : mine'[r][y] = mine[r][y]
      BY <2>4 DEF Get
    <2>6. RowIsTrue(r, x)' /\ rows[x].status # "absent"
      <3>1. CASE x \in DOMAIN mine[r]
        BY <1>0, <1>1, <2>2, <2>4, <2>5, <3>1 DEF Own, RowIsTrue, Publishing
      <3>2. CASE x \notin DOMAIN mine[r]
        <4>1. mine'[r][x] = rows[x] /\ rows[x].status # "absent" /\ x \notin locks[r]
          BY <1>0, <1>4, <2>4, <3>2 DEF Get, Sessions
        <4>. QED
          BY <1>0, <1>1, <4>1 DEF RowsAreTrue, RowIsTrue
      <3>. QED
        BY <3>1, <3>2
    <2>7. ASSUME NEW y \in DOMAIN mine'[r] PROVE RowIsTrue(r, y)'
      BY <1>0, <1>1, <2>2, <2>4, <2>5, <2>6 DEF Own, RowIsTrue, Publishing
    <2>8. Claims(r)' /\ AnswerIsTrue(r)'
      BY <1>1, <2>2, <2>3, <2>6 DEF Claims, AnswerIsTrue, Publishing
    <2>. QED
      BY <1>1, <2>2, <2>3, <2>4, <2>7, <2>8 DEF Own, SameRequest
  <1>5. Own(r)' /\ \A q \in Requests \ {r} : SameRequest(q)
    BY <1>3, <1>4 DEF LookUp
  <1>. QED
    BY <1>0, <1>1, <1>2, <1>5, SessionStep DEF LocksExclude

LEMMA InsertStep ==
    ASSUME IInv, NEW r \in Requests, Insert(r) PROVE IInv'
  <1>. DEFINE x == body[r].cid
              row == [NoRow EXCEPT !.status = "pending",
                                   !.controller = ControllerOf(body[r].drawer)]
              new == [y \in {x} |-> row]
  <1>0. Types /\ Sessions /\ Own(r) /\ LocksExclude
    BY DEF IInv, Types
  <1>1. body[r].drawer \in Drawers /\ x \in CommandIds
    BY <1>0, BodyTypes DEF Insert, Types, Routed
  <1>2. row \in Row /\ row.status = "pending" /\ row.ackedAt = FALSE
    BY <1>1, NewRow
  <1>. HIDE DEF row
  <1>3. IsSession(new) /\ DOMAIN new = {x} /\ new[x] = row
    BY <1>1, <1>2 DEF IsSession
  <1>4. /\ mine' = Loaded(r, new) /\ locks' = [locks EXCEPT ![r] = @ \cup {x}]
        /\ pc[r] = "insert" /\ Goto(r, "publish") /\ rows[x].status = "absent"
        /\ Holders(r, {x}) = {}
        /\ UNCHANGED <<rows, old, body, dirty, base, todo, note, devices, faults>>
    BY DEF Insert, row
  <1>. HIDE DEF new
  <1>5. locks'[r] = locks[r] \cup {x} /\ \A q \in Requests \ {r} : locks'[q] = locks[q]
    BY <1>0, <1>4 DEF Sessions
  <1>6. pc'[r] = "publish" /\ \A q \in Requests \ {r} : pc'[q] = pc[q]
    BY <1>0, <1>4, GotoIs DEF Labels
  <1>7. /\ DOMAIN mine'[r] = DOMAIN mine[r] \cup {x} /\ mine'[r][x] = row
        /\ \A y \in DOMAIN mine[r] \ {x} : mine'[r][y] = mine[r][y]
        /\ \A q \in Requests \ {r} : mine'[q] = mine[q]
    BY <1>0, <1>3, <1>4, LoadedIs
  <1>8. x \notin DOMAIN mine[r] /\ dirty[r] = {} /\ note[r] = "none"
    BY <1>0, <1>4 DEF Own, Claims
  <1>9. Claims(r)' /\ AnswerIsTrue(r)'
    BY <1>2, <1>4, <1>5, <1>6, <1>7, <1>8 DEF Claims, AnswerIsTrue, Publishing
  <1>10. RowIsTrue(r, x)'
    BY <1>2, <1>4, <1>5, <1>6, <1>7, <1>8 DEF RowIsTrue, Publishing
  <1>11. ASSUME NEW y \in DOMAIN mine[r] PROVE RowIsTrue(r, y)'
    <2>1. y # x /\ mine'[r][y] = mine[r][y] /\ RowIsTrue(r, y)
      BY <1>0, <1>7, <1>8 DEF Own
    <2>. QED
      BY <1>4, <1>5, <1>6, <2>1 DEF RowIsTrue, Publishing, devices
  <1>12. Own(r)'
    <2>1. ASSUME NEW y \in DOMAIN mine'[r] PROVE RowIsTrue(r, y)'
      <3>1. CASE y = x
        BY <1>4, <1>10, <3>1 DEF RowIsTrue
      <3>2. CASE y # x
        BY <1>7, <1>11, <3>2
      <3>. QED
        BY <3>1, <3>2
    <2>. QED
      BY <1>9, <2>1 DEF Own
  <1>13. /\ \A q \in Requests \ {r} : SameRequest(q)
         /\ UNCHANGED <<rows, log, inbox, seen, lit, todo>>
    BY <1>4, <1>5, <1>6, <1>7 DEF SameRequest, devices
  <1>14. \A q \in Requests \ {r} : locks'[r] \cap locks[q] = {}
    BY <1>0, <1>4, <1>5 DEF LocksExclude, Holders
  <1>15. Types'
    BY <1>0, InsertTypes
  <1>. QED
    BY <1>4, <1>12, <1>13, <1>14, <1>15, SessionStep

LEMMA PublishBeginsStep ==
    ASSUME IInv, NEW r \in Requests, PublishBegins(r) PROVE IInv'
  <1>0. Types /\ Sessions /\ Own(r) /\ LocksExclude
    BY DEF IInv, Types
  <1>1. /\ pc[r] = "publish" /\ pc'[r] = "deliver"
        /\ UNCHANGED <<rows, body, mine, dirty, locks, note, todo, log, inbox, seen, lit>>
        /\ \A q \in Requests \ {r} : SameRequest(q)
    BY <1>0 DEF PublishBegins, Goto, Sessions, SameRequest, devices
  <1>2. Claims(r)' /\ AnswerIsTrue(r)'
    BY <1>0, <1>1 DEF Own, Claims, AnswerIsTrue, Publishing
  <1>3. ASSUME NEW x \in DOMAIN mine[r] PROVE RowIsTrue(r, x)'
    BY <1>0, <1>1 DEF Own, RowIsTrue, Publishing
  <1>4. Own(r)'
    BY <1>1, <1>2, <1>3 DEF Own
  <1>5. Types'
    BY <1>0, PublishBeginsTypes
  <1>. QED
    BY <1>0, <1>1, <1>4, <1>5, SessionStep DEF LocksExclude

\* A session while its command is on the bus: only its position and what is lit change.
LEMMA BusOwn ==
    ASSUME IInv, NEW r \in Requests, Publishing(r), LitGrows,
           pc'[r] \in {"light", "answer", "collect"}, \A q \in Requests \ {r} : pc'[q] = pc[q],
           pc'[r] = "answer" => body[r].cid \in lit'[ControllerOf(body[r].drawer)],
           UNCHANGED <<rows, body, mine, dirty, locks, note, todo>>
    PROVE  /\ \A q \in Requests : Own(q)'
           /\ LocksExclude' /\ \A q \in Requests \ {r} : SameRequest(q)
  <1>1. Own(r) /\ LocksExclude /\ Types /\ IsSession(mine[r])
    BY DEF IInv, Types, Sessions
  <1>2. Claims(r)' /\ AnswerIsTrue(r)'
    BY <1>1 DEF Own, Claims, AnswerIsTrue, Publishing
  <1>3. ASSUME NEW x \in DOMAIN mine[r] PROVE RowIsTrue(r, x)'
    <2>1. RowIsTrue(r, x) /\ mine[r][x].controller \in Controllers
      BY <1>1 DEF Own, IsSession, Row
    <2>. QED
      BY <2>1 DEF RowIsTrue, Publishing, LitGrows
  <1>4. Own(r)'
    BY <1>2, <1>3 DEF Own
  <1>5. \A q \in Requests \ {r} : SameRequest(q)
    BY DEF SameRequest
  <1>. QED
    BY <1>1, <1>4, <1>5, StepOf DEF LocksExclude

\* A controller repeats its answer only to an id that it lit: no second request is about
\* to light the id of the first.
LEMMA SeenByOne ==
    ASSUME IInv, NEW r \in Requests, pc[r] = "deliver",
           body[r].cid \in seen[ControllerOf(body[r].drawer)]
    PROVE  body[r].cid \in lit[ControllerOf(body[r].drawer)]
  <1>. DEFINE x == body[r].cid
              c == ControllerOf(body[r].drawer)
  <1>1. c \in Controllers
    BY RouteInTopology DEF IInv, Types, Routed, Publishing
  <1>2. ASSUME NEW q \in Requests, Lighting(q, c, x) PROVE FALSE
    <2>1. q # r
      BY <1>2 DEF Lighting
    <2>2. x \in locks[r] /\ x \in locks[q]
      BY <1>2 DEF IInv, Own, Claims, Publishing, Lighting
    <2>. QED
      BY <2>1, <2>2 DEF IInv, LocksExclude
  <1>. QED
    BY <1>1, <1>2 DEF IInv, SeenIsLit

LEMMA DeliverStep ==
    ASSUME IInv, NEW r \in Requests, Deliver(r) PROVE IInv'
  <1>. DEFINE x == body[r].cid
              c == ControllerOf(body[r].drawer)
  <1>0. Types /\ Sessions /\ Publishing(r) /\ c \in Controllers /\ seen \in [Controllers -> SUBSET CommandIds]
    BY RouteInTopology DEF IInv, Types, Shared, Routed, Deliver, Publishing
  <1>1. /\ pc[r] = "deliver" /\ seen' = [seen EXCEPT ![c] = @ \cup {x}]
        /\ UNCHANGED <<rows, body, mine, dirty, locks, note, todo, log, inbox, lit>>
        /\ IF x \in seen[c] THEN Goto(r, "answer") ELSE Goto(r, "light")
    BY DEF Deliver, session
  <1>2. /\ pc'[r] = IF x \in seen[c] THEN "answer" ELSE "light"
        /\ \A q \in Requests \ {r} : pc'[q] = pc[q]
    BY <1>0, <1>1, GotoIs DEF Labels
  <1>3. pc'[r] = "answer" => x \in lit'[c]
    BY <1>1, <1>2, SeenByOne
  <1>4. LitGrows
    BY <1>1 DEF LitGrows
  <1>5. (\A q \in Requests : Own(q)') /\ LocksExclude' /\ \A q \in Requests \ {r} : SameRequest(q)
    BY <1>0, <1>1, <1>2, <1>3, <1>4, BusOwn
  <1>6. RowsAreTrue' /\ AcksAreLit'
    BY <1>1 DEF IInv, RowsAreTrue, AcksAreLit, AllLit
  <1>7. ASSUME NEW d \in Controllers, NEW y \in seen'[d]
        PROVE  y \in lit'[d] \/ \E q \in Requests : Lighting(q, d, y)'
    <2>1. CASE y \in seen[d]
      <3>1. y \in lit[d] \/ \E q \in Requests : Lighting(q, d, y)
        BY <2>1 DEF IInv, SeenIsLit
      <3>2. \A q \in Requests : Lighting(q, d, y) => q # r /\ Lighting(q, d, y)'
        BY <1>1, <1>2 DEF Lighting
      <3>. QED
        BY <1>1, <3>1, <3>2
    <2>2. CASE y \notin seen[d]
      <3>1. d = c /\ y = x
        BY <1>0, <1>1, <2>2
      <3>. QED
        BY <1>1, <1>2, <2>2, <3>1 DEF Lighting
    <2>. QED
      BY <2>1, <2>2
  <1>8. Types'
    BY <1>0, BusTypes
  <1>. QED
    BY <1>5, <1>6, <1>7, <1>8 DEF IInv, SeenIsLit

LEMMA LitAcks ==
    ASSUME LitGrows, NEW acks \in Seq(Ack), AllLit(acks)
    PROVE  \A k \in DOMAIN acks : acks[k].cid \in lit'[acks[k].controller]
  <1>1. \A k \in DOMAIN acks : acks[k] \in Ack
    OBVIOUS
  <1>. QED
    BY <1>1 DEF AllLit, LitGrows, Ack

LEMMA LightStep ==
    ASSUME IInv, NEW r \in Requests, Light(r) PROVE IInv'
  <1>. DEFINE x == body[r].cid
              c == ControllerOf(body[r].drawer)
  <1>0. /\ Types /\ Sessions /\ Publishing(r) /\ c \in Controllers
        /\ lit \in [Controllers -> SUBSET CommandIds] /\ rows \in [CommandIds -> Row]
        /\ log \in Seq(Ack) /\ inbox \in Seq(Ack) /\ todo \in [Requests -> Seq(Ack)]
    BY RouteInTopology DEF IInv, Types, Sessions, Shared, Routed, Light, Publishing
  <1>1. /\ pc[r] = "light" /\ lit' = [lit EXCEPT ![c] = @ \cup {x}] /\ Goto(r, "answer")
        /\ UNCHANGED <<rows, body, mine, dirty, locks, note, todo, log, inbox, seen>>
    BY DEF Light, session
  <1>2. pc'[r] = "answer" /\ \A q \in Requests \ {r} : pc'[q] = pc[q]
    BY <1>0, <1>1, GotoIs DEF Labels
  <1>3. LitGrows /\ x \in lit'[c]
    BY <1>0, <1>1 DEF LitGrows
  <1>4. (\A q \in Requests : Own(q)') /\ LocksExclude' /\ \A q \in Requests \ {r} : SameRequest(q)
    BY <1>0, <1>1, <1>2, <1>3, BusOwn
  <1>5. RowsAreTrue'
    <2>1. \A y \in CommandIds : rows[y].controller \in Controllers
      BY <1>0 DEF Row
    <2>. QED
      BY <1>1, <1>3, <2>1 DEF IInv, RowsAreTrue, LitGrows
  <1>6. AllLit(log)' /\ AllLit(inbox)'
    BY <1>0, <1>1, <1>3, LitAcks DEF IInv, AcksAreLit, AllLit
  <1>7. ASSUME NEW q \in Requests PROVE AllLit(todo[q])'
    <2>1. todo[q] \in Seq(Ack) /\ AllLit(todo[q])
      BY <1>0 DEF IInv, AcksAreLit
    <2>. QED
      BY <1>1, <1>3, <2>1, LitAcks DEF AllLit
  <1>8. ASSUME NEW d \in Controllers, NEW y \in seen[d]
        PROVE  y \in lit'[d] \/ \E q \in Requests : Lighting(q, d, y)'
    <2>1. y \in lit[d] \/ \E q \in Requests : Lighting(q, d, y)
      BY DEF IInv, SeenIsLit
    <2>2. ASSUME NEW q \in Requests, Lighting(q, d, y)
          PROVE  Lighting(q, d, y)' \/ y \in lit'[d]
      <3>1. CASE q = r
        BY <1>3, <2>2, <3>1 DEF Lighting
      <3>2. CASE q # r
        BY <1>1, <1>2, <2>2, <3>2 DEF Lighting
      <3>. QED
        BY <3>1, <3>2
    <2>. QED
      BY <1>3, <2>1, <2>2 DEF LitGrows
  <1>9. Types'
    BY <1>0, BusTypes
  <1>. QED
    BY <1>1, <1>4, <1>5, <1>6, <1>7, <1>8, <1>9 DEF IInv, AcksAreLit, SeenIsLit

LEMMA AnswerStep ==
    ASSUME IInv, NEW r \in Requests, AnswerCommand(r) PROVE IInv'
  <1>. DEFINE x == body[r].cid
              c == ControllerOf(body[r].drawer)
              ack == [cid |-> x, controller |-> c]
  <1>0. Types /\ Sessions /\ Publishing(r) /\ c \in Controllers /\ log \in Seq(Ack) /\ ack \in Ack
    BY RouteInTopology, BodyTypes
       DEF IInv, Types, Sessions, Shared, Routed, AnswerCommand, Publishing, Ack
  <1>1. /\ pc[r] = "answer" /\ log' = Append(log, ack) /\ Goto(r, "collect")
        /\ UNCHANGED <<rows, body, mine, dirty, locks, note, todo, inbox, seen, lit>>
    BY DEF AnswerCommand, session
  <1>2. pc'[r] = "collect" /\ \A q \in Requests \ {r} : pc'[q] = pc[q]
    BY <1>0, <1>1, GotoIs DEF Labels
  <1>3. LitGrows /\ x \in lit[c]
    BY <1>1 DEF LitGrows, IInv, Own, Claims
  <1>4. (\A q \in Requests : Own(q)') /\ LocksExclude' /\ \A q \in Requests \ {r} : SameRequest(q)
    BY <1>0, <1>1, <1>2, <1>3, BusOwn
  <1>5. /\ log' \in Seq(Ack) /\ Len(log') = Len(log) + 1 /\ log'[Len(log) + 1] = ack
        /\ \A k \in 1..Len(log) : log'[k] = log[k]
    BY <1>0, <1>1, AppendProperties
  <1>6. ASSUME NEW k \in DOMAIN log' PROVE log'[k].cid \in lit[log'[k].controller]
    <2>1. k \in 1..(Len(log) + 1) /\ Len(log) \in Nat /\ DOMAIN log = 1..Len(log)
      BY <1>0, <1>5
    <2>2. CASE k = Len(log) + 1
      BY <1>3, <1>5, <2>2
    <2>3. CASE k \in 1..Len(log)
      BY <1>5, <2>1, <2>3 DEF IInv, AcksAreLit, AllLit
    <2>. QED
      BY <2>1, <2>2, <2>3
  <1>7. AcksAreLit' /\ RowsAreTrue'
    BY <1>1, <1>6 DEF IInv, AcksAreLit, AllLit, RowsAreTrue
  <1>8. SeenIsLit'
    BY <1>1, <1>2, <1>4 DEF IInv, SeenIsLit, Lighting, SameRequest
  <1>9. Types'
    BY <1>0, BusTypes
  <1>. QED
    BY <1>4, <1>7, <1>8, <1>9 DEF IInv

LEMMA CollectStep ==
    ASSUME IInv, NEW r \in Requests, Collect(r) PROVE IInv'
  <1>. DEFINE x == body[r].cid
              row == [mine[r][x] EXCEPT !.status = "published"]
              new == [y \in {x} |-> row]
  <1>0. /\ Types /\ Sessions /\ Own(r) /\ LocksExclude /\ x \in CommandIds /\ Publishing(r)
        /\ IsSession(mine[r]) /\ log \in Seq(Ack) /\ inbox \in Seq(Ack)
    BY BodyTypes DEF IInv, Types, Sessions, Shared, Collect, Publishing
  <1>1. /\ x \in locks[r] /\ mine[r][x].status = "pending" /\ dirty[r] = {}
        /\ rows[x].status = "absent" /\ note[r] = "none" /\ x \in DOMAIN mine[r]
    BY <1>0 DEF Own, Claims, Sessions
  <1>2. /\ row \in Row /\ row.status = "published" /\ row.controller = mine[r][x].controller
        /\ row.ackedAt = mine[r][x].ackedAt
    BY <1>0, <1>1, RowUpdates DEF IsSession, Statuses
  <1>. HIDE DEF row
  <1>3. IsSession(new) /\ DOMAIN new = {x} /\ new[x] = row
    BY <1>0, <1>2 DEF IsSession
  <1>4. /\ mine' = Loaded(r, new) /\ pc[r] = "collect" /\ Goto(r, "drain")
        /\ UNCHANGED <<rows, body, dirty, locks, todo, note, log, seen, lit>>
        /\ inbox' = inbox \o SubSeq(log, base[r] + 1, Len(log))
    BY DEF Collect, row
  <1>. HIDE DEF new
  <1>5. pc'[r] = "drain" /\ \A q \in Requests \ {r} : pc'[q] = pc[q]
    BY <1>0, <1>4, GotoIs DEF Labels
  <1>6. /\ DOMAIN mine'[r] = DOMAIN mine[r] /\ mine'[r][x] = row
        /\ \A y \in DOMAIN mine[r] \ {x} : mine'[r][y] = mine[r][y]
        /\ \A q \in Requests \ {r} : mine'[q] = mine[q]
    <2>1. /\ DOMAIN mine'[r] = DOMAIN mine[r] \cup DOMAIN new
          /\ \A y \in DOMAIN new : mine'[r][y] = new[y]
          /\ \A y \in DOMAIN mine[r] \ DOMAIN new : mine'[r][y] = mine[r][y]
          /\ \A q \in Requests \ {r} : mine'[q] = mine[q]
      BY <1>0, <1>3, <1>4, LoadedIs
    <2>2. DOMAIN mine[r] \cup {x} = DOMAIN mine[r]
      BY <1>1
    <2>. QED
      BY <1>3, <2>1, <2>2
  <1>7. Claims(r)' /\ AnswerIsTrue(r)'
    BY <1>1, <1>4, <1>5 DEF Claims, AnswerIsTrue, Publishing
  <1>8. ASSUME NEW y \in DOMAIN mine'[r] PROVE RowIsTrue(r, y)'
    <2>0. RowIsTrue(r, y) /\ RowIsTrue(r, x)
      BY <1>0, <1>1, <1>6 DEF Own
    <2>1. CASE y = x
      BY <1>1, <1>2, <1>4, <1>5, <1>6, <2>0, <2>1 DEF RowIsTrue, Publishing
    <2>2. CASE y # x
      BY <1>4, <1>5, <1>6, <2>0, <2>2 DEF RowIsTrue, Publishing
    <2>. QED
      BY <2>1, <2>2
  <1>9. Own(r)' /\ \A q \in Requests \ {r} : SameRequest(q)
    BY <1>4, <1>5, <1>6, <1>7, <1>8 DEF Own, SameRequest
  <1>10. LitGrows
    BY <1>4 DEF LitGrows
  <1>11. (\A q \in Requests : Own(q)') /\ LocksExclude'
    BY <1>0, <1>4, <1>9, <1>10, StepOf DEF LocksExclude
  <1>12. AllLit(inbox)'
    <2>. DEFINE acks == SubSeq(log, base[r] + 1, Len(log))
    <2>1. acks \in Seq(Ack) /\ \A k \in DOMAIN acks : \E j \in DOMAIN log : acks[k] = log[j]
      BY <1>0, NewAcks
    <2>. HIDE DEF acks
    <2>2. AllLit(acks) /\ AllLit(inbox)
      BY <2>1 DEF IInv, AcksAreLit, AllLit
    <2>3. \A k \in DOMAIN inbox' : \/ k \in DOMAIN inbox /\ inbox'[k] = inbox[k]
                                   \/ \E j \in DOMAIN acks : inbox'[k] = acks[j]
      <3>1. inbox' = inbox \o acks
        BY <1>4 DEF acks
      <3>2. /\ inbox' \in Seq(Ack) /\ Len(inbox') = Len(inbox) + Len(acks)
            /\ \A k \in 1..(Len(inbox) + Len(acks)) :
                  inbox'[k] = IF k <= Len(inbox) THEN inbox[k] ELSE acks[k - Len(inbox)]
        BY <1>0, <2>1, <3>1, ConcatProperties
      <3>3. /\ DOMAIN inbox = 1..Len(inbox) /\ DOMAIN acks = 1..Len(acks)
            /\ DOMAIN inbox' = 1..Len(inbox') /\ Len(inbox) \in Nat /\ Len(acks) \in Nat
        BY <1>0, <2>1, <3>2
      <3>4. ASSUME NEW k \in DOMAIN inbox', k > Len(inbox)
            PROVE  k - Len(inbox) \in DOMAIN acks /\ inbox'[k] = acks[k - Len(inbox)]
        BY <3>2, <3>3, <3>4
      <3>5. ASSUME NEW k \in DOMAIN inbox', k <= Len(inbox)
            PROVE  k \in DOMAIN inbox /\ inbox'[k] = inbox[k]
        BY <3>2, <3>3, <3>5
      <3>. QED
        BY <3>3, <3>4, <3>5
    <2>. QED
      BY <1>4, <2>2, <2>3 DEF AllLit
  <1>13. AcksAreLit' /\ RowsAreTrue'
    BY <1>4, <1>12 DEF IInv, AcksAreLit, AllLit, RowsAreTrue
  <1>14. SeenIsLit'
    <2>1. \A q \in Requests, d \in Controllers, y \in CommandIds :
              Lighting(q, d, y) => Lighting(q, d, y)'
      BY <1>4, <1>9 DEF Lighting, SameRequest
    <2>. QED
      BY <1>0, <1>4, <2>1 DEF IInv, SeenIsLit, Types, Shared
  <1>15. Types'
    BY <1>0, <1>1, CollectTypes
  <1>. QED
    BY <1>11, <1>13, <1>14, <1>15 DEF IInv

LEMMA DrainStep ==
    ASSUME IInv, NEW r \in Requests, Drain(r) PROVE IInv'
  <1>0. Types /\ Sessions /\ Own(r) /\ LocksExclude
    BY DEF IInv, Types
  <1>1. /\ pc[r] = "drain" /\ pc'[r] = "acks" /\ inbox' = << >>
        /\ UNCHANGED <<rows, body, mine, dirty, locks, note, log, seen, lit>>
        /\ todo'[r] = inbox /\ \A q \in Requests \ {r} : SameRequest(q)
    BY <1>0 DEF Drain, Goto, Sessions, SameRequest
  <1>2. Claims(r)' /\ AnswerIsTrue(r)'
    BY <1>0, <1>1 DEF Own, Claims, AnswerIsTrue, Publishing
  <1>3. ASSUME NEW x \in DOMAIN mine[r] PROVE RowIsTrue(r, x)'
    BY <1>0, <1>1 DEF Own, RowIsTrue, Publishing
  <1>4. Own(r)'
    BY <1>1, <1>2, <1>3 DEF Own
  <1>5. LitGrows
    BY <1>1 DEF LitGrows
  <1>6. (\A q \in Requests : Own(q)') /\ LocksExclude'
    BY <1>0, <1>1, <1>4, <1>5, StepOf DEF LocksExclude
  <1>7. AllLit(todo[r])'
    BY <1>1 DEF IInv, AcksAreLit, AllLit
  <1>8. \A q \in Requests \ {r} : AllLit(todo[q])'
    BY <1>1 DEF IInv, AcksAreLit, AllLit, SameRequest
  <1>9. AllLit(log)' /\ AllLit(inbox)'
    BY <1>1, EmptySession DEF IInv, AcksAreLit, AllLit
  <1>10. SeenIsLit' /\ RowsAreTrue'
    BY <1>1 DEF IInv, SeenIsLit, Lighting, SameRequest, RowsAreTrue
  <1>11. Types'
    BY <1>0, DrainTypes
  <1>. QED
    BY <1>6, <1>7, <1>8, <1>9, <1>10, <1>11 DEF IInv, AcksAreLit

LEMMA HandleAckStep ==
    ASSUME IInv, NEW r \in Requests, HandleAck(r) PROVE IInv'
  <1>. DEFINE a == Head(todo[r])
              x == a.cid
              row == Get(r, x)
              loaded == Handled(row, a)
              new == [y \in {x} |-> loaded]
  <1>0. Types /\ Sessions /\ Own(r) /\ LocksExclude /\ RowsAreTrue
    BY DEF IInv, Types
  <1>1. /\ pc' = pc /\ body' = body /\ note' = note /\ locks' = locks
        /\ todo' = [todo EXCEPT ![r] = Tail(@)] /\ todo[r] # << >> /\ dirty[r] = {}
        /\ pc[r] = "acks" /\ UNCHANGED <<rows, log, inbox, seen, lit>>
    BY DEF HandleAck, devices
  <1>2. a \in Ack /\ x \in CommandIds /\ a.controller \in Controllers /\ x \in lit[a.controller]
    BY <1>0, <1>1, NextAck DEF Ack, IInv, AcksAreLit, AllLit
  <1>3. /\ \A k \in DOMAIN todo'[r] : \E j \in DOMAIN todo[r] : todo'[r][k] = todo[r][j]
        /\ \A q \in Requests \ {r} : todo'[q] = todo[q]
    BY <1>0, <1>1, NextAck DEF Sessions
  <1>4. Types'
    BY <1>0, HandleAckTypes
  <1>6. CASE mine' = mine /\ dirty' = dirty
    <2>1. Own(r)'
      BY <1>0, <1>1, <1>6 DEF Own, Claims, RowIsTrue, AnswerIsTrue, Publishing
    <2>2. \A q \in Requests \ {r} : SameRequest(q)
      BY <1>1, <1>3, <1>6 DEF SameRequest
    <2>. QED
      BY <1>0, <1>1, <1>3, <1>4, <2>1, <2>2, SessionStep DEF LocksExclude
  <1>7. CASE /\ row.status # "absent" /\ mine' = Loaded(r, new)
             /\ IF Confirmable(row, a) /\ row.status # "acked"
                THEN dirty' = [dirty EXCEPT ![r] = {x}] ELSE dirty' = dirty
    <2>1. row \in Row
      BY <1>0, <1>2, GetTypes
    <2>. HIDE DEF row
    <2>2. /\ loaded \in Row /\ loaded.controller = row.controller /\ loaded.status # "absent"
          /\ loaded.status = row.status \/ loaded.status = "acked"
          /\ loaded = row \/ (loaded.status = "acked" /\ row.controller = a.controller)
      BY <1>7, <2>1, RowUpdates DEF Handled, Confirmable
    <2>3. dirty'[r] = {} \/ (dirty'[r] = {x} /\ loaded.status = "acked")
      BY <1>0, <1>1, <1>7, <2>1, RowUpdates DEF Handled, Sessions
    <2>4. \A q \in Requests \ {r} : dirty'[q] = dirty[q]
      BY <1>0, <1>7 DEF Sessions
    <2>. HIDE DEF loaded
    <2>5. IsSession(new) /\ DOMAIN new = {x} /\ new[x] = loaded
      BY <1>2, <2>2 DEF IsSession
    <2>. HIDE DEF new
    <2>6. /\ DOMAIN mine'[r] = DOMAIN mine[r] \cup {x} /\ mine'[r][x] = loaded
          /\ \A y \in DOMAIN mine[r] \ {x} : mine'[r][y] = mine[r][y]
          /\ \A q \in Requests \ {r} : mine'[q] = mine[q]
      BY <1>0, <1>7, <2>5, LoadedIs
    <2>7. Claims(r)' /\ AnswerIsTrue(r)'
      BY <1>0, <1>1 DEF Own, Claims, AnswerIsTrue, Publishing
    <2>8. /\ row.status # "pending" /\ (row.ackedAt => x \in lit[row.controller])
          /\ rows[x].status = "absent" => x = body[r].cid /\ x \in locks[r]
          /\ rows[x].status # "absent" => row.controller = rows[x].controller
          /\ x \in locks[r] /\ rows[x].status # "absent" => row.status \in {"acked", "expired"}
      <3>1. CASE x \in DOMAIN mine[r]
        BY <1>0, <1>1, <3>1 DEF Own, RowIsTrue, Publishing, Get, row
      <3>2. CASE x \notin DOMAIN mine[r]
        <4>1. row = rows[x] /\ x \notin locks[r]
          BY <1>0, <3>2 DEF Get, Sessions, row
        <4>. QED
          BY <1>0, <1>2, <1>7, <4>1 DEF RowsAreTrue
      <3>. QED
        BY <3>1, <3>2
    <2>. HIDE DEF x, a
    <2>9. ASSUME NEW y \in DOMAIN mine'[r] PROVE RowIsTrue(r, y)'
      <3>1. CASE y = x
        <4>1. loaded.ackedAt => x \in lit[loaded.controller]
          BY <1>2, <2>2, <2>8
        <4>. QED
          BY <1>1, <2>2, <2>3, <2>6, <2>8, <3>1, <4>1 DEF RowIsTrue, Publishing
      <3>2. CASE y # x
        <4>1. RowIsTrue(r, y) /\ mine'[r][y] = mine[r][y] /\ y \notin dirty'[r]
          BY <1>0, <2>3, <2>6, <3>2 DEF Own
        <4>. QED
          BY <1>1, <4>1 DEF RowIsTrue, Publishing
      <3>. QED
        BY <3>1, <3>2
    <2>10. Own(r)' /\ \A q \in Requests \ {r} : SameRequest(q)
      BY <1>1, <1>3, <2>4, <2>6, <2>7, <2>9 DEF Own, SameRequest
    <2>. QED
      BY <1>0, <1>1, <1>3, <1>4, <2>10, SessionStep DEF LocksExclude
  <1>8. \/ mine' = mine /\ dirty' = dirty
        \/ /\ row.status # "absent" /\ mine' = Loaded(r, new)
           /\ IF Confirmable(row, a) /\ row.status # "acked"
              THEN dirty' = [dirty EXCEPT ![r] = {x}] ELSE dirty' = dirty
    BY DEF HandleAck, Handled
  <1>. QED
    BY <1>6, <1>7, <1>8

\* What a commit does to the rows: it adds the request's own, and ends others.
LEMMA CommitAdvances ==
    ASSUME IInv, NEW r \in Requests, Commit(r)
    PROVE  /\ \A x \in locks[r] :
                 /\ Advances(x) /\ rows'[x].status # "pending"
                 /\ rows[x].status # "absent" => rows'[x].status \in {"acked", "expired"}
                 /\ rows'[x].ackedAt => x \in lit[rows'[x].controller]
           /\ \A x \in CommandIds \ locks[r] : rows'[x] = rows[x]
           /\ locks[r] \subseteq CommandIds
  <1>1. Types /\ Own(r) /\ RowsAreTrue /\ pc[r] = "acks" /\ locks[r] \subseteq CommandIds
    BY DEF IInv, Commit, Types, Sessions
  <1>2. ASSUME NEW x \in locks[r]
        PROVE  /\ Advances(x) /\ rows'[x].status # "pending"
               /\ rows[x].status # "absent" => rows'[x].status \in {"acked", "expired"}
               /\ rows'[x].ackedAt => x \in lit[rows'[x].controller]
    <2>1. /\ x \in DOMAIN mine[r] /\ rows[x] \in Row /\ mine[r][x] \in Row /\ x \in CommandIds
          /\ rows'[x] = Merged(rows[x], mine[r][x])
      BY <1>1, CommitIs
    <2>2. /\ rows'[x].status = mine[r][x].status
          /\ rows'[x].controller = IF rows[x].status = "absent" THEN mine[r][x].controller
                                   ELSE rows[x].controller
          /\ rows'[x].ackedAt => (rows[x].status # "absent" /\ rows[x].ackedAt) \/ mine[r][x].ackedAt
          /\ rows[x].status # "absent" /\ rows[x].ackedAt => rows'[x].ackedAt
      BY <2>1, MergedIs
    <2>3. RowIsTrue(r, x)
      BY <1>1, <2>1 DEF Own
    <2>. QED
      BY <1>1, <2>1, <2>2, <2>3 DEF RowIsTrue, Advances, Publishing, RowsAreTrue
  <1>. QED
    BY <1>1, <1>2, CommitIs

\* Nothing but a commit changes what is committed.
LEMMA OnlyCommits == [Next]_vars => (\E r \in Requests : Commit(r)) \/ UNCHANGED rows
  BY DEF Next, Arrive, Handler, ExpireSelect, Flush, RejectItem, LookUp, InsertConflicts,
     Insert, PublishBegins, Deliver, Light, AnswerCommand, Collect, Drain, HandleAck,
     DatabaseFails, BreakDeadlock, Restart, Elapse, vars

LEMMA CommitStep ==
    ASSUME IInv, NEW r \in Requests, Commit(r) PROVE IInv'
  <1>. DEFINE x == body[r].cid
              answer == Answer(r, rows'[body[r].cid])
  <1>0. Types /\ Sessions /\ Own(r) /\ LocksExclude /\ RowsAreTrue /\ x \in CommandIds
    BY BodyTypes DEF IInv, Types
  <1>1. /\ pc[r] = "acks" /\ Closed(r, answer) /\ UNCHANGED <<log, inbox, seen, lit>>
    BY DEF Commit, devices
  <1>2. answer \in Notes \ {"none", "error"}
    BY <1>0, CommitIs
  <1>3. /\ pc'[r] = "done" /\ note'[r] = answer /\ body' = body /\ DOMAIN mine'[r] = {}
        /\ locks'[r] = {} /\ todo'[r] = << >> /\ DOMAIN << >> = {}
        /\ \A q \in Requests \ {r} : SameRequest(q)
    BY <1>0, <1>1, <1>2, ClosedIs, EmptySession DEF SameRequest
  <1>4. /\ \A y \in CommandIds : rows'[y] = rows[y] \/ (y \in locks[r] /\ Advances(y))
        /\ RowsAreTrue'
    BY <1>0, <1>1, CommitAdvances DEF RowsAreTrue
  <1>5. rows'[x].status # "absent"
    BY <1>0, <1>1, CommitAdvances DEF Own, Claims, Advances
  <1>6. answer = "acknowledged" => rows'[x].ackedAt
    BY DEF Answer
  <1>7. AnswerIsTrue(r)'
    BY <1>0, <1>1, <1>3, <1>4, <1>5, <1>6 DEF AnswerIsTrue, RowsAreTrue
  <1>. HIDE DEF answer
  <1>8. Own(r)'
    BY <1>2, <1>3, <1>7 DEF Own, Claims, Publishing
  <1>9. LitGrows
    BY <1>1 DEF LitGrows
  <1>10. (\A q \in Requests : Own(q)') /\ LocksExclude'
    BY <1>3, <1>4, <1>8, <1>9, StepOf
  <1>11. AcksAreLit' /\ SeenIsLit'
    BY <1>1, <1>3, BusKeeps
  <1>12. Types'
    BY <1>0, CommitTypes
  <1>. QED
    BY <1>4, <1>10, <1>11, <1>12 DEF IInv

LEMMA RestartStep ==
    ASSUME IInv, Restart PROVE IInv'
  <1>0. Types /\ Sessions /\ RowsAreTrue
    BY DEF IInv, Types
  <1>1. Types'
    BY <1>0, RestartTypes
  <1>2. /\ \A r \in Requests : /\ mine'[r] = << >> /\ locks'[r] = {} /\ todo'[r] = << >>
                               /\ \/ pc'[r] = "done" /\ note'[r] = "error"
                                  \/ pc'[r] = pc[r] /\ note'[r] = note[r] /\ pc[r] \in {"idle", "done"}
        /\ log' = << >> /\ inbox' = << >> /\ \A c \in Controllers : seen'[c] = {}
        /\ UNCHANGED <<rows, body, lit>>
    BY DEF Restart, Active
  <1>3. ASSUME NEW r \in Requests PROVE Own(r)'
    <2>1. Own(r) /\ DOMAIN mine'[r] = {}
      BY <1>2, EmptySession DEF IInv
    <2>2. pc'[r] \in {"idle", "done"}
      BY <1>2
    <2>3. Claims(r)' /\ AnswerIsTrue(r)'
      BY <1>2, <2>1, <2>2 DEF Own, Claims, AnswerIsTrue, Publishing
    <2>. QED
      BY <2>1, <2>3 DEF Own
  <1>4. LocksExclude' /\ RowsAreTrue' /\ SeenIsLit'
    BY <1>0, <1>2 DEF LocksExclude, RowsAreTrue, SeenIsLit
  <1>5. AcksAreLit'
    BY <1>2, EmptySession DEF AcksAreLit, AllLit
  <1>. QED
    BY <1>1, <1>3, <1>4, <1>5 DEF IInv

LEMMA ElapseStep ==
    ASSUME IInv, NEW x \in CommandIds, Elapse(x) PROVE IInv'
  <1>1. Types'
    BY ElapseTypes DEF IInv
  <1>2. UNCHANGED <<rows, pc, session, note, devices>>
    BY DEF Elapse
  <1>. QED
    BY <1>1, <1>2 DEF IInv, Own, Claims, RowIsTrue, AnswerIsTrue, Publishing, LocksExclude,
       RowsAreTrue, AcksAreLit, AllLit, SeenIsLit, Lighting, session, devices

-------------------------------------------------------------------------------
(* The results *)

LEMMA InitIInv == Init => IInv
  <1>. SUFFICES ASSUME Init PROVE IInv
    OBVIOUS
  <1>1. NoRow \in Row /\ NoRow.status = "absent" /\ NoRow.ackedAt = FALSE
    <2>1. 1 \in Controllers
      BY TopologyAssumption, SMT DEF Controllers
    <2>. QED
      BY <2>1 DEF NoRow, Row, Statuses
  <1>2. body \in [Requests -> Bodies]
    BY RouteAssumption DEF Init
  <1>3. Sessions
    BY <1>2, EmptySession DEF Init, Sessions, Labels, Notes
  <1>4. Shared
    BY <1>1, EmptySession, EmptySeq, RouteAssumption DEF Init, Shared
  <1>5. \A r \in Requests : pc[r] = "idle" /\ note[r] = "none" /\ DOMAIN mine[r] = {}
    BY EmptySession DEF Init
  <1>6. Routed /\ \A r \in Requests : Own(r)
    BY <1>5 DEF Routed, Own, Claims, AnswerIsTrue, Publishing
  <1>7. LocksExclude /\ RowsAreTrue /\ AcksAreLit /\ SeenIsLit
    BY <1>1, EmptySession DEF Init, LocksExclude, RowsAreTrue, AcksAreLit, AllLit, SeenIsLit
  <1>. QED
    BY <1>3, <1>4, <1>6, <1>7 DEF IInv, Types

LEMMA StepIInv == IInv /\ [Next]_vars => IInv'
  <1>. SUFFICES ASSUME IInv, [Next]_vars PROVE IInv'
    OBVIOUS
  <1>1. CASE UNCHANGED vars
    BY <1>1 DEF vars, session, devices, IInv, Types, Sessions, Shared, Routed, Own, Claims,
       RowIsTrue, AnswerIsTrue, Publishing, LocksExclude, RowsAreTrue, AcksAreLit, AllLit,
       SeenIsLit, Lighting
  <1>2. ASSUME NEW r \in Requests, Handler(r) PROVE IInv'
    BY <1>2, ExpireSelectStep, FlushStep, FailStep, LookUpStep, InsertStep, PublishBeginsStep,
       DeliverStep, LightStep, AnswerStep, CollectStep, DrainStep, HandleAckStep, CommitStep
       DEF Handler
  <1>3. ASSUME NEW r \in Requests, DatabaseFails(r) \/ BreakDeadlock(r) PROVE IInv'
    BY <1>3, FailStep
  <1>4. ASSUME NEW r \in Requests, NEW b \in Bodies, Arrive(r, b) PROVE IInv'
    BY <1>4, ArriveStep
  <1>. QED
    BY <1>1, <1>2, <1>3, <1>4, RestartStep, ElapseStep DEF Next

\* IInv is an invariant, for every number of requests.
THEOREM Invariance == Spec => []IInv
  <1>. QED
    BY InitIInv, StepIInv, PTL DEF Spec

\* Every variable keeps its type, for every number of requests, failures and restarts.
THEOREM TypeCorrect == Spec => []TypeOK
  <1>1. IInv => TypeOK
    <2>. SUFFICES ASSUME IInv PROVE TypeOK
      OBVIOUS
    <2>0. Sessions /\ Shared
      BY DEF IInv, Types
    <2>1. \A r \in Requests : /\ DOMAIN mine[r] \subseteq CommandIds
                              /\ \A x \in DOMAIN mine[r] : mine[r][x] \in Row
                              /\ dirty[r] \cup locks[r] \subseteq DOMAIN mine[r]
      BY <2>0 DEF Sessions, IsSession
    <2>2. \A r \in Requests : base[r] \in 0..Len(log)
      BY <2>0 DEF Sessions, Shared
    <2>. QED
      BY <2>0, <2>1, <2>2 DEF TypeOK, Sessions, Shared, Labels, Notes
  <1>. QED
    BY Invariance, <1>1, PTL

\* However many requests overlap, an id that is committed is never published again, and no
\* two requests publish the same id: the lock on the inserted row is the claim.
THEOREM OnePublisher == Spec => []OnePublisherPerId
  <1>1. IInv => OnePublisherPerId
    <2>. SUFFICES ASSUME IInv, NEW r \in Requests, Publishing(r)
                  PROVE  /\ rows[body[r].cid].status = "absent"
                         /\ \A q \in Requests \ {r} : Publishing(q) => body[q].cid # body[r].cid
      BY DEF OnePublisherPerId
    <2>1. \A q \in Requests : Publishing(q) =>
              body[q].cid \in locks[q] /\ rows[body[q].cid].status = "absent"
      BY DEF IInv, Own, Claims
    <2>. QED
      BY <2>1 DEF IInv, LocksExclude
  <1>. QED
    BY Invariance, <1>1, PTL

\* A response without an error is true, and stays true: its command is committed, and what
\* it calls acknowledged was acknowledged by a controller that lit an LED for it.
THEOREM ResponsesAreTrue == Spec => []AnswersAreTrue
  <1>1. IInv => AnswersAreTrue
    BY DEF IInv, Own, AnswerIsTrue, AnswersAreTrue
  <1>. QED
    BY Invariance, <1>1, PTL

\* Whichever step of whichever request fails, no command is committed as pending.
THEOREM NothingIsLeftPending == Spec => []NeverLeftPending
  <1>1. IInv => NeverLeftPending
    BY DEF IInv, RowsAreTrue, NeverLeftPending
  <1>. QED
    BY Invariance, <1>1, PTL

\* However stale the rows of a session are, all its commit can do to a committed command is
\* to end it: none disappears, is published again or loses its acknowledgement.
THEOREM CommitsEndCommands == Spec => CommitsOnlyEnd
  <1>. DEFINE Ends(x) == /\ rows'[x].status \in {"acked", "expired"}
                         /\ rows'[x].controller = rows[x].controller
                         /\ rows[x].ackedAt => rows'[x].ackedAt
              OnlyEnd == \A x \in CommandIds :
                             rows[x].status # "absent" /\ rows'[x] # rows[x] => Ends(x)
  <1>1. IInv /\ [Next]_vars => [OnlyEnd]_vars
    <2>. SUFFICES ASSUME IInv, [Next]_vars, ~UNCHANGED vars PROVE OnlyEnd
      OBVIOUS
    <2>1. ASSUME NEW r \in Requests, Commit(r) PROVE OnlyEnd
      BY <2>1, CommitAdvances DEF Advances
    <2>2. CASE UNCHANGED rows
      BY <2>2
    <2>3. (\E r \in Requests : Commit(r)) \/ UNCHANGED rows
      BY OnlyCommits
    <2>. QED
      BY <2>1, <2>2, <2>3
  <1>. QED
    BY Invariance, <1>1, PTL DEF Spec, CommitsOnlyEnd

-------------------------------------------------------------------------------
(* What the repository says of the loop holds but for three windows: the   *)
(* time from clearing a chain to lighting it, from collecting ACKs to      *)
(* draining them, and from loading rows to the commit.                     *)

\* No two requests are between clearing and lighting the same chain.
LightsAlone ==
    \A q, r \in Requests :
        /\ pc[q] = "light" /\ pc[r] = "light"
        /\ ControllerOf(body[q].drawer) = ControllerOf(body[r].drawer)
        => q = r

\* A chain that is about to be lit is dark, and no chain shows more than one LED.
ChainsInOrder ==
    /\ \A r \in Requests : pc[r] = "light" => leds[ControllerOf(body[r].drawer)] = {}
    /\ \A c \in Controllers : leds[c] = {} \/ \E led \in Leds : leds[c] = {led}

LEMMA ChainsStep == IInv /\ ChainsInOrder /\ LightsAlone /\ [Next]_vars => ChainsInOrder'
  <1>. SUFFICES ASSUME IInv, ChainsInOrder, LightsAlone, [Next]_vars PROVE ChainsInOrder'
    OBVIOUS
  <1>0. /\ Sessions /\ leds \in [Controllers -> SUBSET Leds]
        /\ \A r \in Requests : Publishing(r) => /\ ControllerOf(body[r].drawer) \in Controllers
                                                /\ LedOf(body[r].drawer) \in Leds
    BY RouteInTopology DEF IInv, Types, Shared, Routed
  <1>1. ASSUME NEW r \in Requests, Deliver(r) PROVE ChainsInOrder'
    <2>. DEFINE c == ControllerOf(body[r].drawer)
    <2>1. /\ c \in Controllers /\ body' = body /\ \A q \in Requests \ {r} : pc'[q] = pc[q]
          /\ \/ pc'[r] = "answer" /\ leds' = leds
             \/ leds' = [leds EXCEPT ![c] = {}]
      BY <1>0, <1>1 DEF Deliver, Publishing, session, Goto, Sessions
    <2>. QED
      BY <1>0, <2>1 DEF ChainsInOrder, Publishing
  <1>2. ASSUME NEW r \in Requests, Light(r) PROVE ChainsInOrder'
    <2>. DEFINE c == ControllerOf(body[r].drawer)
    <2>1. /\ c \in Controllers /\ LedOf(body[r].drawer) \in Leds /\ body' = body
          /\ leds[c] = {} /\ leds' = [leds EXCEPT ![c] = @ \cup {LedOf(body[r].drawer)}]
          /\ pc[r] = "light" /\ pc'[r] = "answer" /\ \A q \in Requests \ {r} : pc'[q] = pc[q]
      BY <1>0, <1>2 DEF Light, Publishing, session, Goto, Sessions, ChainsInOrder
    <2>2. ASSUME NEW q \in Requests, pc'[q] = "light"
          PROVE  leds'[ControllerOf(body[q].drawer)] = {}
      <3>1. pc[q] = "light" /\ ControllerOf(body[q].drawer) # c
        BY <2>1, <2>2 DEF LightsAlone
      <3>. QED
        BY <1>0, <2>1, <3>1 DEF ChainsInOrder, Publishing
    <2>3. ASSUME NEW d \in Controllers
          PROVE  leds'[d] = {} \/ \E led \in Leds : leds'[d] = {led}
      BY <1>0, <2>1 DEF ChainsInOrder
    <2>. QED
      BY <2>1, <2>2, <2>3 DEF ChainsInOrder
  <1>3. CASE Restart
    BY <1>3, <1>0 DEF Restart, ChainsInOrder, Active, Sessions
  <1>4. CASE /\ leds' = leds
             /\ \A r \in Requests : pc'[r] = "light" => pc[r] = "light" /\ body'[r] = body[r]
    BY <1>4 DEF ChainsInOrder
  <1>5. \/ \E r \in Requests : Deliver(r) \/ Light(r)
        \/ Restart
        \/ /\ leds' = leds
           /\ \A r \in Requests : pc'[r] = "light" => pc[r] = "light" /\ body'[r] = body[r]
    <2>1. ASSUME NEW r \in Requests, NEW answer \in Notes, Closed(r, answer)
          PROVE  \A q \in Requests : pc'[q] = "light" => pc[q] = "light" /\ body'[q] = body[q]
      BY <1>0, <2>1, ClosedIs
    <2>2. ASSUME NEW r \in Requests, NEW b \in Bodies, Arrive(r, b)
          PROVE  /\ leds' = leds
                 /\ \A q \in Requests : pc'[q] = "light" => pc[q] = "light" /\ body'[q] = body[q]
      BY <1>0, <2>2 DEF Arrive, Goto, Sessions, devices
    <2>3. ASSUME NEW r \in Requests,
                 RejectItem(r) \/ InsertConflicts(r) \/ DatabaseFails(r) \/ BreakDeadlock(r)
          PROVE  /\ leds' = leds
                 /\ \A q \in Requests : pc'[q] = "light" => pc[q] = "light" /\ body'[q] = body[q]
      BY <2>1, <2>3 DEF RejectItem, InsertConflicts, DatabaseFails, BreakDeadlock, devices, Notes
    <2>4. ASSUME NEW r \in Requests, Commit(r)
          PROVE  /\ leds' = leds
                 /\ \A q \in Requests : pc'[q] = "light" => pc[q] = "light" /\ body'[q] = body[q]
      BY <2>1, <2>4, CommitIs DEF Commit, devices, IInv
    <2>5. ASSUME NEW r \in Requests,
                 \/ ExpireSelect(r) \/ Flush(r) \/ LookUp(r) \/ Insert(r) \/ PublishBegins(r)
                 \/ AnswerCommand(r) \/ Collect(r) \/ Drain(r) \/ HandleAck(r)
          PROVE  /\ leds' = leds
                 /\ \A q \in Requests : pc'[q] = "light" => pc[q] = "light" /\ body'[q] = body[q]
      BY <1>0, <2>5 DEF ExpireSelect, Flush, LookUp, Insert, PublishBegins, AnswerCommand, Collect,
         Drain, HandleAck, Goto, Sessions, devices, session
    <2>. QED
      BY <2>2, <2>3, <2>4, <2>5 DEF Next, Handler, Elapse, vars, session, devices
  <1>. QED
    BY <1>1, <1>2, <1>3, <1>4, <1>5

\* A controller shows one LED, unless two requests clear its chain before either lights it:
\* for every number of requests, commands, failures and restarts.
THEOREM OneLedAlone == Spec /\ []LightsAlone => []OneLedLit
  <1>1. Init => ChainsInOrder
    BY DEF Init, ChainsInOrder
  <1>2. IInv /\ ChainsInOrder => OneLedLit
    <2>. SUFFICES ASSUME ChainsInOrder, NEW c \in Controllers PROVE Cardinality(leds[c]) <= 1
      BY DEF OneLedLit
    <2>1. CASE leds[c] = {}
      BY <2>1, FS_EmptySet, SMT
    <2>2. ASSUME NEW led \in Leds, leds[c] = {led} PROVE Cardinality(leds[c]) <= 1
      BY <2>2, FS_Singleton, SMT
    <2>. QED
      BY <2>1, <2>2 DEF ChainsInOrder
  <1>. QED
    BY Invariance, <1>1, <1>2, ChainsStep, PTL DEF Spec

-------------------------------------------------------------------------------
\* No two requests are between collecting ACKs, or finding a repetition, and draining them.
DrainsAlone == \A q, r \in Requests : pc[q] = "drain" /\ pc[r] = "drain" => q = r

\* The ACK a request waits for, and the requests that wait for one.
OwnAck(r)      == [cid |-> body[r].cid, controller |-> ControllerOf(body[r].drawer)]
Holds(acks, r) == \E k \in DOMAIN acks : acks[k] = OwnAck(r)
Published(r)   == pc[r] \in {"drain", "acks"} /\ note[r] = "none"

\* The ACK of a request is on its way to it, or handled.
Closing(r) ==
    LET row == mine[r][body[r].cid]
    IN  /\ note[r] # "waiting"
        /\ Publishing(r) \/ Published(r) => row.controller = ControllerOf(body[r].drawer)
        /\ pc[r] = "collect" => \E k \in DOMAIN log : k > base[r] /\ log[k] = OwnAck(r)
        /\ Published(r) => \/ row.status = "published"
                           \/ row.status = "acked" /\ row.ackedAt
        /\ Published(r) /\ pc[r] = "drain" => Holds(inbox, r)
        /\ Published(r) /\ pc[r] = "acks" => row.status = "acked" \/ Holds(todo[r], r)

\* What Closing says of a request depends on nothing that the steps of others change,
\* unless they take the inbox.
Untouched(q) ==
    /\ pc'[q] = pc[q] /\ body'[q] = body[q] /\ mine'[q] = mine[q] /\ base'[q] = base[q]
    /\ todo'[q] = todo[q] /\ note'[q] = note[q]

Grows(acks, more) == \A k \in DOMAIN acks : k \in DOMAIN more /\ more[k] = acks[k]

LEMMA ClosingKept ==
    ASSUME NEW q \in Requests, Closing(q), Untouched(q), Grows(log, log'),
           Grows(inbox, inbox') \/ pc[q] # "drain"
    PROVE  Closing(q)'
  <1>1. /\ OwnAck(q)' = OwnAck(q) /\ (Publishing(q)' <=> Publishing(q))
        /\ (Published(q)' <=> Published(q))
    BY DEF Untouched, OwnAck, Publishing, Published
  <1>2. pc[q] = "collect" => \E k \in DOMAIN log' : k > base'[q] /\ log'[k] = OwnAck(q)'
    BY <1>1 DEF Closing, Untouched, Grows
  <1>3. Published(q) /\ pc[q] = "drain" => Holds(inbox, q)'
    BY <1>1 DEF Closing, Holds, Grows
  <1>4. Published(q) /\ pc[q] = "acks" => mine[q][body[q].cid].status = "acked" \/ Holds(todo[q], q)'
    BY <1>1 DEF Closing, Holds, Untouched
  <1>. QED
    BY <1>1, <1>2, <1>3, <1>4 DEF Closing, Untouched

\* The steps before a request publishes.
LEMMA ClosingBegins ==
    ASSUME IInv, NEW r \in Requests, Closing(r),
           \/ ExpireSelect(r) \/ LookUp(r) \/ Insert(r) \/ PublishBegins(r)
           \/ \E b \in Bodies : Arrive(r, b)
    PROVE  Closing(r)' /\ \A q \in Requests \ {r} : Untouched(q)
  <1>0. Types /\ Sessions /\ Own(r)
    BY DEF IInv, Types
  <1>1. ASSUME NEW b \in Bodies, Arrive(r, b)
        PROVE  Closing(r)' /\ \A q \in Requests \ {r} : Untouched(q)
    BY <1>0, <1>1 DEF Arrive, Goto, Sessions, Untouched, Closing, Publishing, Published
  <1>2. CASE ExpireSelect(r)
    <2>. DEFINE stale == {y \in CommandIds : rows[y].status = "published" /\ y \in old}
                new == [y \in stale |-> [rows[y] EXCEPT !.status = "expired"]]
    <2>1. /\ pc'[r] = "lookup" /\ note' = note /\ mine' = Loaded(r, new)
          /\ \A q \in Requests \ {r} : pc'[q] = pc[q]
          /\ UNCHANGED <<body, base, todo>>
      BY <1>0, <1>2 DEF ExpireSelect, Goto, Sessions
    <2>. HIDE DEF new
    <2>2. \A q \in Requests \ {r} : mine'[q] = mine[q]
      BY <1>0, <2>1 DEF Loaded, Sessions
    <2>. QED
      BY <2>1, <2>2 DEF Untouched, Closing, Publishing, Published
  <1>3. CASE LookUp(r)
    <2>1. /\ \/ pc'[r] = "insert" /\ note' = note
             \/ pc'[r] = "drain" /\ note'[r] = "deduplicated"
          /\ \A q \in Requests \ {r} : pc'[q] = pc[q] /\ note'[q] = note[q]
          /\ UNCHANGED <<body, base, todo>>
          /\ \A q \in Requests \ {r} : mine'[q] = mine[q]
      BY <1>0, <1>3 DEF LookUp, Goto, Sessions, Loaded
    <2>. QED
      BY <2>1 DEF Untouched, Closing, Publishing, Published
  <1>4. CASE Insert(r)
    <2>. DEFINE x == body[r].cid
                row == [NoRow EXCEPT !.status = "pending",
                                     !.controller = ControllerOf(body[r].drawer)]
                new == [y \in {x} |-> row]
    <2>1. row \in Row /\ row.controller = ControllerOf(body[r].drawer) /\ x \in CommandIds
      BY <1>0, <1>4, NewRow, BodyTypes DEF Insert, Types, Routed
    <2>2. /\ pc'[r] = "publish" /\ note' = note /\ mine' = Loaded(r, new)
          /\ \A q \in Requests \ {r} : pc'[q] = pc[q]
          /\ UNCHANGED <<body, base, todo>>
      BY <1>0, <1>4 DEF Insert, Goto, Sessions
    <2>. HIDE DEF row
    <2>3. IsSession(new) /\ DOMAIN new = {x} /\ new[x] = row
      BY <2>1 DEF IsSession
    <2>. HIDE DEF new
    <2>4. mine'[r][x] = row /\ \A q \in Requests \ {r} : mine'[q] = mine[q]
      BY <1>0, <2>2, <2>3, LoadedIs
    <2>. QED
      BY <2>1, <2>2, <2>4 DEF Untouched, Closing, Publishing, Published
  <1>5. CASE PublishBegins(r)
    <2>1. /\ pc[r] = "publish" /\ pc'[r] = "deliver" /\ UNCHANGED <<note, mine, body, todo>>
          /\ \A q \in Requests \ {r} : pc'[q] = pc[q] /\ base'[q] = base[q]
      BY <1>0, <1>5 DEF PublishBegins, Goto, Sessions
    <2>. QED
      BY <2>1 DEF Untouched, Closing, Publishing, Published
  <1>. QED
    BY <1>1, <1>2, <1>3, <1>4, <1>5

\* The device answers: the request's ACK is in the log, behind what was there before.
LEMMA ClosingAnswers ==
    ASSUME IInv, NEW r \in Requests, Closing(r), Deliver(r) \/ Light(r) \/ AnswerCommand(r)
    PROVE  Closing(r)' /\ (\A q \in Requests \ {r} : Untouched(q)) /\ Grows(log, log')
  <1>0. /\ Types /\ Sessions /\ Publishing(r) /\ log \in Seq(Ack) /\ base[r] \in Nat
        /\ base[r] <= Len(log) /\ OwnAck(r) \in Ack
    BY RouteInTopology, BodyTypes
       DEF IInv, Types, Sessions, Shared, Routed, Deliver, Light, AnswerCommand, Publishing, Ack, OwnAck
  <1>1. CASE Deliver(r) \/ Light(r)
    <2>1. /\ pc'[r] \in {"light", "answer"} /\ UNCHANGED <<note, mine, body, todo, base, log>>
          /\ \A q \in Requests \ {r} : pc'[q] = pc[q]
      BY <1>0, <1>1 DEF Deliver, Light, Goto, Sessions, session
    <2>. QED
      BY <1>0, <2>1 DEF Untouched, Closing, Publishing, Published, Grows
  <1>2. CASE AnswerCommand(r)
    <2>1. /\ pc'[r] = "collect" /\ UNCHANGED <<note, mine, body, todo, base>>
          /\ \A q \in Requests \ {r} : pc'[q] = pc[q]
          /\ log' = Append(log, OwnAck(r))
      BY <1>0, <1>2 DEF AnswerCommand, Goto, Sessions, session, OwnAck
    <2>2. /\ DOMAIN log = 1..Len(log) /\ DOMAIN log' = 1..(Len(log) + 1) /\ Len(log) \in Nat
          /\ \A k \in 1..Len(log) : log'[k] = log[k]
          /\ log'[Len(log) + 1] = OwnAck(r)
      BY <1>0, <2>1, AppendProperties
    <2>3. Len(log) + 1 \in DOMAIN log' /\ Len(log) + 1 > base[r]
      BY <1>0, <2>2, SMT
    <2>4. Grows(log, log')
      BY <2>2 DEF Grows
    <2>5. OwnAck(r)' = OwnAck(r)
      BY <2>1 DEF OwnAck
    <2>. QED
      BY <1>0, <2>1, <2>2, <2>3, <2>4, <2>5 DEF Untouched, Closing, Publishing, Published
  <1>. QED
    BY <1>1, <1>2

\* The bus puts the ACKs that are new in the inbox, the request's own among them.
LEMMA ClosingCollects ==
    ASSUME IInv, NEW r \in Requests, Closing(r), Collect(r)
    PROVE  Closing(r)' /\ (\A q \in Requests \ {r} : Untouched(q)) /\ Grows(inbox, inbox')
  <1>. DEFINE x == body[r].cid
              row == [mine[r][x] EXCEPT !.status = "published"]
              new == [y \in {x} |-> row]
              acks == SubSeq(log, base[r] + 1, Len(log))
  <1>0. /\ Types /\ Sessions /\ Publishing(r) /\ log \in Seq(Ack) /\ inbox \in Seq(Ack)
        /\ base[r] \in Nat /\ base[r] <= Len(log) /\ x \in CommandIds /\ IsSession(mine[r])
        /\ x \in DOMAIN mine[r]
    BY BodyTypes
       DEF IInv, Types, Sessions, Shared, Collect, Publishing, Own, Claims
  <1>1. row \in Row /\ row.status = "published" /\ row.controller = mine[r][x].controller
    BY <1>0, RowUpdates DEF IsSession, Statuses
  <1>2. /\ pc[r] = "collect" /\ pc'[r] = "drain" /\ UNCHANGED <<note, body, todo, base>>
        /\ \A q \in Requests \ {r} : pc'[q] = pc[q]
        /\ inbox' = inbox \o acks /\ mine' = Loaded(r, new)
    BY <1>0 DEF Collect, Goto, Sessions
  <1>. HIDE DEF row
  <1>3. IsSession(new) /\ DOMAIN new = {x} /\ new[x] = row
    BY <1>0, <1>1 DEF IsSession
  <1>. HIDE DEF new
  <1>4. mine'[r][x] = row /\ \A q \in Requests \ {r} : mine'[q] = mine[q]
    BY <1>0, <1>2, <1>3, LoadedIs
  <1>5. /\ acks \in Seq(Ack) /\ Len(acks) = Len(log) - base[r]
        /\ \A k \in 1..(Len(log) - base[r]) : acks[k] = log[base[r] + k]
    <2>1. \A k \in (base[r] + 1)..Len(log) : log[k] \in Ack
      BY <1>0
    <2>2. Len(log) \in Nat /\ base[r] + 1 \in 1..(Len(log) + 1)
      BY <1>0
    <2>. QED
      BY <1>0, <2>1, <2>2, SubSeqProperties
  <1>. HIDE DEF acks
  <1>6. /\ inbox' \in Seq(Ack) /\ Len(inbox') = Len(inbox) + Len(acks)
        /\ \A k \in 1..(Len(inbox) + Len(acks)) :
              inbox'[k] = IF k <= Len(inbox) THEN inbox[k] ELSE acks[k - Len(inbox)]
    BY <1>0, <1>2, <1>5, ConcatProperties
  <1>7. /\ DOMAIN inbox = 1..Len(inbox) /\ DOMAIN inbox' = 1..Len(inbox')
        /\ DOMAIN log = 1..Len(log)
        /\ Len(inbox) \in Nat /\ Len(acks) \in Nat /\ Len(log) \in Nat
    BY <1>0, <1>5, <1>6
  <1>8. Grows(inbox, inbox')
    BY <1>6, <1>7 DEF Grows
  <1>9. PICK k \in DOMAIN log : k > base[r] /\ log[k] = OwnAck(r)
    BY <1>2 DEF Closing
  <1>10. Holds(inbox, r)'
    <2>. DEFINE j == k - base[r]
                i == Len(inbox) + j
    <2>1. j \in 1..(Len(log) - base[r]) /\ base[r] + j = k
      BY <1>0, <1>7, <1>9
    <2>2. acks[j] = OwnAck(r) /\ j \in 1..Len(acks)
      BY <1>5, <1>9, <2>1
    <2>. HIDE DEF j
    <2>3. i \in 1..(Len(inbox) + Len(acks)) /\ ~(i <= Len(inbox)) /\ i - Len(inbox) = j
      BY <1>7, <2>2
    <2>4. inbox'[i] = OwnAck(r) /\ i \in DOMAIN inbox'
      BY <1>6, <1>7, <2>2, <2>3
    <2>. QED
      BY <1>2, <2>4 DEF Holds, OwnAck
  <1>. QED
    BY <1>0, <1>1, <1>2, <1>4, <1>8, <1>10 DEF Untouched, Closing, Publishing, Published

\* One ACK is handled: the request's own confirms its row, any other leaves it as it is.
LEMMA ClosingHandles ==
    ASSUME IInv, NEW r \in Requests, Closing(r), HandleAck(r)
    PROVE  Closing(r)' /\ \A q \in Requests \ {r} : Untouched(q)
  <1>. DEFINE x == body[r].cid
              a == Head(todo[r])
              row == Get(r, a.cid)
              loaded == Handled(row, a)
              new == [y \in {a.cid} |-> loaded]
  <1>0. /\ Types /\ Sessions /\ Own(r) /\ x \in CommandIds /\ todo[r] # << >>
        /\ todo[r] \in Seq(Ack)
    BY BodyTypes DEF IInv, Types, Sessions, HandleAck
  <1>1. /\ pc' = pc /\ pc[r] = "acks" /\ UNCHANGED <<note, body, base>>
        /\ todo'[r] = Tail(todo[r]) /\ \A q \in Requests \ {r} : todo'[q] = todo[q]
        /\ \/ mine' = mine /\ row.status = "absent"
           \/ mine' = Loaded(r, new) /\ row.status # "absent"
    BY <1>0 DEF HandleAck, Handled, Sessions
  <1>2. a \in Ack /\ a.cid \in CommandIds /\ row \in Row
    BY <1>0, NextAck, GetTypes DEF Ack
  <1>3. /\ loaded \in Row /\ loaded.controller = row.controller
        /\ loaded = row \/ (loaded.status = "acked" /\ loaded.ackedAt)
        /\ row.status = "published" /\ row.controller = a.controller =>
               loaded.status = "acked" /\ loaded.ackedAt
    BY <1>2, RowUpdates DEF Handled, Confirmable
  <1>4. \A q \in Requests \ {r} : mine'[q] = mine[q]
    BY <1>0, <1>1 DEF Loaded, Sessions
  <1>5. CASE ~Published(r)
    BY <1>1, <1>4, <1>5 DEF Untouched, Closing, Publishing, Published
  <1>6. CASE Published(r)
    <2>1. x \in DOMAIN mine[r] /\ (a.cid = x => row = mine[r][x])
      BY <1>0, <1>6 DEF Own, Claims, Published, Sessions, Get
    <2>. HIDE DEF row
    <2>2. /\ mine[r][x].controller = ControllerOf(body[r].drawer)
          /\ \/ mine[r][x].status = "published"
             \/ mine[r][x].status = "acked" /\ mine[r][x].ackedAt
          /\ mine[r][x].status = "acked" \/ Holds(todo[r], r)
      BY <1>1, <1>6 DEF Closing, Published
    <2>. HIDE DEF loaded, a
    <2>3. mine'[r][x] = IF a.cid = x THEN loaded ELSE mine[r][x]
      <3>1. CASE mine' = mine /\ row.status = "absent"
        <4>1. a.cid # x
          BY <2>1, <2>2, <3>1
        <4>. QED
          BY <3>1, <4>1
      <3>2. CASE mine' = Loaded(r, new)
        <4>1. IsSession(new) /\ DOMAIN new = {a.cid} /\ new[a.cid] = loaded
          BY <1>2, <1>3 DEF IsSession
        <4>. HIDE DEF new
        <4>. QED
          BY <1>0, <2>1, <3>2, <4>1, LoadedIs
      <3>. QED
        BY <1>1, <3>1, <3>2
    <2>4. /\ mine'[r][x].controller = ControllerOf(body[r].drawer)
          /\ \/ mine'[r][x].status = "published"
             \/ mine'[r][x].status = "acked" /\ mine'[r][x].ackedAt
      BY <1>3, <2>1, <2>2, <2>3
    <2>5. mine'[r][x].status = "acked" \/ Holds(todo[r], r)'
      <3>1. CASE mine[r][x].status = "acked"
        BY <1>3, <2>1, <2>3, <3>1
      <3>2. CASE mine[r][x].status # "acked"
        <4>1. PICK k \in DOMAIN todo[r] : todo[r][k] = OwnAck(r)
          BY <2>2, <3>2 DEF Holds
        <4>2. CASE k = 1
          <5>1. a = OwnAck(r)
            BY <1>0, <4>1, <4>2, NextAck DEF a
          <5>2. a.cid = x /\ a.controller = ControllerOf(body[r].drawer)
            BY <5>1 DEF OwnAck
          <5>. QED
            BY <1>3, <2>1, <2>2, <2>3, <3>2, <5>2
        <4>3. CASE k # 1
          <5>1. /\ Len(Tail(todo[r])) = Len(todo[r]) - 1 /\ Tail(todo[r]) \in Seq(Ack)
                /\ \A j \in 1..Len(Tail(todo[r])) : Tail(todo[r])[j] = todo[r][j + 1]
            BY <1>0, HeadTailProperties
          <5>2. DOMAIN todo[r] = 1..Len(todo[r]) /\ Len(todo[r]) \in Nat
            BY <1>0
          <5>3. k - 1 \in 1..Len(Tail(todo[r])) /\ (k - 1) + 1 = k
            BY <4>3, <5>1, <5>2
          <5>4. k - 1 \in DOMAIN Tail(todo[r]) /\ Tail(todo[r])[k - 1] = OwnAck(r)
            BY <4>1, <5>1, <5>3
          <5>. QED
            BY <1>1, <5>4 DEF Holds, OwnAck
        <4>. QED
          BY <4>2, <4>3
      <3>. QED
        BY <3>1, <3>2
    <2>. QED
      BY <1>1, <1>4, <1>6, <2>4, <2>5 DEF Untouched, Closing, Publishing, Published
  <1>. QED
    BY <1>5, <1>6

\* The answer of a request that published its command.
LEMMA ClosingCommits ==
    ASSUME IInv, NEW r \in Requests, Closing(r), Commit(r)
    PROVE  Closing(r)' /\ \A q \in Requests \ {r} : Untouched(q)
  <1>. DEFINE x == body[r].cid
              answer == Answer(r, rows'[body[r].cid])
  <1>0. /\ Types /\ Sessions /\ Own(r) /\ x \in CommandIds /\ pc[r] = "acks" /\ todo[r] = << >>
    BY BodyTypes DEF IInv, Types, Commit
  <1>1. answer \in Notes /\ Closed(r, answer)
    BY <1>0, CommitIs DEF Commit
  <1>2. answer # "waiting"
    <2>1. CASE note[r] = "deduplicated"
      BY <2>1 DEF Answer
    <2>2. CASE note[r] # "deduplicated"
      <3>1. note[r] = "none" /\ x \in locks[r]
        BY <1>0, <2>2 DEF Own, Claims
      <3>2. mine[r][x].ackedAt
        <4>1. ~Holds(todo[r], r)
          BY <1>0, EmptySession DEF Holds
        <4>. QED
          BY <1>0, <3>1, <4>1 DEF Closing, Published
      <3>3. rows'[x].ackedAt
        <4>1. rows'[x] = Merged(rows[x], mine[r][x]) /\ rows[x] \in Row /\ mine[r][x] \in Row
          BY <1>0, <3>1, CommitIs
        <4>. QED
          BY <3>2, <4>1 DEF Merged, Row
      <3>. QED
        BY <2>2, <3>3 DEF Answer
    <2>. QED
      BY <2>1, <2>2
  <1>. HIDE DEF answer
  <1>3. /\ pc'[r] = "done" /\ note'[r] = answer /\ body' = body
        /\ \A q \in Requests \ {r} : Untouched(q)
    BY <1>0, <1>1, ClosedIs DEF Untouched
  <1>. QED
    BY <1>2, <1>3 DEF Closing, Publishing, Published

LEMMA ClosingStep ==
    IInv /\ (\A r \in Requests : Closing(r)) /\ DrainsAlone /\ [Next]_vars
        => (\A r \in Requests : Closing(r))'
  <1>. SUFFICES ASSUME IInv, \A r \in Requests : Closing(r), DrainsAlone, [Next]_vars
                PROVE  \A r \in Requests : Closing(r)'
    OBVIOUS
  <1>0. Types /\ Sessions
    BY DEF IInv, Types
  <1>1. \A acks : Grows(acks, acks)
    BY DEF Grows
  <1>2. ASSUME NEW r \in Requests, Closing(r)', \A q \in Requests \ {r} : Untouched(q),
               Grows(log, log'), Grows(inbox, inbox')
        PROVE  \A q \in Requests : Closing(q)'
    BY <1>2, ClosingKept
  <1>3. CASE UNCHANGED <<pc, body, mine, base, todo, note, log, inbox>>
    BY <1>1, <1>3, ClosingKept DEF Untouched
  <1>4. ASSUME NEW r \in Requests,
               \/ ExpireSelect(r) \/ LookUp(r) \/ Insert(r) \/ PublishBegins(r)
               \/ HandleAck(r) \/ Commit(r) \/ \E b \in Bodies : Arrive(r, b)
        PROVE  \A q \in Requests : Closing(q)'
    <2>1. log' = log /\ inbox' = inbox
      BY <1>4 DEF ExpireSelect, LookUp, Insert, PublishBegins, HandleAck, Commit, Arrive, devices
    <2>2. Closing(r)' /\ \A q \in Requests \ {r} : Untouched(q)
      BY <1>4, ClosingBegins, ClosingHandles, ClosingCommits
    <2>. QED
      BY <1>1, <1>2, <2>1, <2>2
  <1>5. ASSUME NEW r \in Requests, Deliver(r) \/ Light(r) \/ AnswerCommand(r)
        PROVE  \A q \in Requests : Closing(q)'
    <2>1. inbox' = inbox
      BY <1>5 DEF Deliver, Light, AnswerCommand
    <2>. QED
      BY <1>1, <1>2, <1>5, <2>1, ClosingAnswers
  <1>6. ASSUME NEW r \in Requests, Collect(r) PROVE \A q \in Requests : Closing(q)'
    <2>1. log' = log
      BY <1>6 DEF Collect
    <2>. QED
      BY <1>1, <1>2, <1>6, <2>1, ClosingCollects
  <1>7. ASSUME NEW r \in Requests, Drain(r) PROVE \A q \in Requests : Closing(q)'
    <2>1. /\ pc[r] = "drain" /\ pc'[r] = "acks" /\ todo'[r] = inbox
          /\ UNCHANGED <<body, mine, base, note, log>>
          /\ \A q \in Requests \ {r} : pc'[q] = pc[q] /\ todo'[q] = todo[q]
      BY <1>0, <1>7 DEF Drain, Goto, Sessions
    <2>2. Closing(r)'
      <3>1. Holds(inbox, r) => Holds(todo[r], r)'
        BY <2>1 DEF Holds, OwnAck
      <3>. QED
        BY <2>1, <3>1 DEF Closing, Publishing, Published
    <2>3. ASSUME NEW q \in Requests \ {r} PROVE Closing(q)'
      <3>1. pc[q] # "drain"
        BY <2>1 DEF DrainsAlone
      <3>2. Untouched(q) /\ Grows(log, log')
        BY <1>1, <2>1 DEF Untouched
      <3>. QED
        BY <3>1, <3>2, ClosingKept
    <2>. QED
      BY <2>2, <2>3
  <1>8. ASSUME NEW r \in Requests, Closed(r, "error"), log' = log, inbox' = inbox
        PROVE  \A q \in Requests : Closing(q)'
    <2>1. /\ pc'[r] = "done" /\ note'[r] = "error" /\ body' = body
          /\ \A q \in Requests \ {r} : Untouched(q)
      BY <1>0, <1>8, ClosedIs DEF Untouched, Notes
    <2>2. Closing(r)'
      BY <2>1 DEF Closing, Publishing, Published
    <2>. QED
      BY <1>1, <1>2, <1>8, <2>1, <2>2
  <1>9. CASE Restart
    BY <1>9 DEF Restart, Active, Closing, Publishing, Published
  <1>10. \/ UNCHANGED <<pc, body, mine, base, todo, note, log, inbox>>
         \/ \E r \in Requests :
               \/ ExpireSelect(r) \/ LookUp(r) \/ Insert(r) \/ PublishBegins(r)
               \/ HandleAck(r) \/ Commit(r) \/ \E b \in Bodies : Arrive(r, b)
         \/ \E r \in Requests : \/ Deliver(r) \/ Light(r) \/ AnswerCommand(r) \/ Collect(r) \/ Drain(r)
                                \/ Closed(r, "error") /\ log' = log /\ inbox' = inbox
         \/ Restart
    BY DEF Next, Handler, Flush, RejectItem, InsertConflicts, DatabaseFails, BreakDeadlock, Elapse,
       vars, session, devices
  <1>. QED
    BY <1>3, <1>4, <1>5, <1>6, <1>7, <1>8, <1>9, <1>10

\* The loop is closed synchronously, as the endpoint says, unless one request drains the ACKs
\* while another has collected its own and not drained them: for every number of requests,
\* commands, failures and restarts.
THEOREM LoopClosesAlone == Spec /\ []DrainsAlone => []ClosesTheLoop
  <1>. DEFINE AllClosing == \A r \in Requests : Closing(r)
  <1>1. Init => AllClosing
    BY DEF Init, Closing, Publishing, Published
  <1>2. AllClosing => ClosesTheLoop
    BY DEF Closing, ClosesTheLoop
  <1>3. IInv /\ AllClosing /\ DrainsAlone /\ [Next]_vars => AllClosing'
    BY ClosingStep
  <1>. HIDE DEF AllClosing
  <1>. QED
    BY Invariance, <1>1, <1>2, <1>3, PTL DEF Spec

-------------------------------------------------------------------------------
\* While one request handles its ACKs and commits, no other has rows in its session.
CommitsAlone == \A q, r \in Requests : pc[q] = "acks" /\ DOMAIN mine[r] # {} => q = r

\* A row has its acked_at exactly while it is acked.
Tells(row) == row.ackedAt <=> row.status = "acked"

\* A row of a session is no older than an end that is committed.
Ended(row)  == row.status \in {"acked", "expired"}
Knows(x, row) == Tells(row) /\ (Ended(rows[x]) => row.status = rows[x].status)
Fresh(r, x) == Knows(x, mine[r][x])

RowsTell   == \A x \in CommandIds : Tells(rows[x])
AllFresh(r) == \A x \in DOMAIN mine[r] : Fresh(r, x)
AcksTell   == RowsTell /\ \A r \in Requests : AllFresh(r)

\* Whatever a session loads is fresh if what it loads is.
LEMMA LoadsFresh ==
    ASSUME Sessions, AcksTell, NEW r \in Requests, NEW new, IsSession(new),
           mine' = Loaded(r, new), rows' = rows,
           \A x \in DOMAIN new : Knows(x, new[x])
    PROVE  AcksTell'
  <1>1. /\ DOMAIN mine'[r] = DOMAIN mine[r] \cup DOMAIN new
        /\ \A x \in DOMAIN new : mine'[r][x] = new[x]
        /\ \A x \in DOMAIN mine[r] \ DOMAIN new : mine'[r][x] = mine[r][x]
        /\ \A q \in Requests \ {r} : mine'[q] = mine[q]
    BY LoadedIs
  <1>2. ASSUME NEW x \in DOMAIN mine'[r] PROVE Fresh(r, x)'
    BY <1>1 DEF AcksTell, AllFresh, Fresh, Knows
  <1>3. \A q \in Requests \ {r} : AllFresh(q)'
    BY <1>1 DEF AcksTell, AllFresh, Fresh, Knows
  <1>. QED
    BY <1>2, <1>3 DEF AcksTell, AllFresh, RowsTell

LEMMA GetFresh ==
    ASSUME AcksTell, NEW r \in Requests, NEW x \in CommandIds
    PROVE  Knows(x, Get(r, x))
  BY DEF AcksTell, RowsTell, AllFresh, Fresh, Knows, Get

LEMMA FreshLoads ==
    ASSUME IInv, AcksTell, NEW r \in Requests,
           ExpireSelect(r) \/ LookUp(r) \/ Insert(r) \/ Collect(r) \/ HandleAck(r)
    PROVE  AcksTell'
  <1>. DEFINE x == body[r].cid
  <1>0. /\ Types /\ Sessions /\ Own(r) /\ rows \in [CommandIds -> Row] /\ x \in CommandIds
        /\ IsSession(mine[r])
    BY BodyTypes DEF IInv, Types, Sessions, Shared
  <1>1. CASE ExpireSelect(r)
    <2>. DEFINE stale == {y \in CommandIds : rows[y].status = "published" /\ y \in old}
                new == [y \in stale |-> [rows[y] EXCEPT !.status = "expired"]]
    <2>1. \A y \in stale : /\ new[y] \in Row /\ new[y].status = "expired"
                           /\ ~new[y].ackedAt /\ rows[y].status = "published"
      <3>. SUFFICES ASSUME NEW y \in stale
                    PROVE  /\ new[y] \in Row /\ new[y].status = "expired"
                           /\ ~new[y].ackedAt /\ rows[y].status = "published"
        OBVIOUS
      <3>1. ~rows[y].ackedAt
        BY DEF AcksTell, RowsTell, Tells
      <3>2. /\ new[y] \in Row /\ new[y].status = "expired"
            /\ new[y].ackedAt = rows[y].ackedAt
        BY <1>0, RowUpdates DEF Statuses
      <3>. QED
        BY <3>1, <3>2
    <2>2. mine' = Loaded(r, new) /\ rows' = rows /\ DOMAIN new = stale
      BY <1>1 DEF ExpireSelect
    <2>3. stale \subseteq CommandIds
      OBVIOUS
    <2>. HIDE DEF new, stale
    <2>4. IsSession(new)
      BY <2>1, <2>2, <2>3 DEF IsSession
    <2>. QED
      BY <1>0, <2>1, <2>2, <2>4, LoadsFresh DEF Tells, Knows, Ended
  <1>2. CASE LookUp(r)
    <2>1. CASE mine' = mine /\ rows' = rows
      BY <2>1 DEF AcksTell, RowsTell, AllFresh, Fresh, Knows
    <2>2. CASE mine' = Loaded(r, [y \in {x} |-> Get(r, x)]) /\ rows' = rows
      <3>. DEFINE new == [y \in {x} |-> Get(r, x)]
      <3>1. IsSession(new) /\ DOMAIN new = {x} /\ new[x] = Get(r, x)
        BY <1>0, GetTypes DEF IsSession
      <3>2. mine' = Loaded(r, new) /\ rows' = rows
        BY <2>2
      <3>. HIDE DEF new
      <3>. QED
        BY <1>0, <3>1, <3>2, LoadsFresh, GetFresh
    <2>. QED
      BY <1>2, <2>1, <2>2 DEF LookUp
  <1>3. CASE Insert(r)
    <2>. DEFINE row == [NoRow EXCEPT !.status = "pending",
                                     !.controller = ControllerOf(body[r].drawer)]
                new == [y \in {x} |-> row]
    <2>1. row \in Row /\ row.status = "pending" /\ row.ackedAt = FALSE
      BY <1>0, <1>3, NewRow DEF Insert, Types, Routed
    <2>2. mine' = Loaded(r, new) /\ rows' = rows /\ rows[x].status = "absent"
      BY <1>3 DEF Insert
    <2>. HIDE DEF row
    <2>3. IsSession(new) /\ DOMAIN new = {x} /\ new[x] = row
      BY <1>0, <2>1 DEF IsSession
    <2>4. Knows(x, row)
      BY <2>1, <2>2 DEF Knows, Tells, Ended
    <2>. HIDE DEF new
    <2>. QED
      BY <1>0, <2>2, <2>3, <2>4, LoadsFresh
  <1>4. CASE Collect(r)
    <2>. DEFINE row == [mine[r][x] EXCEPT !.status = "published"]
                new == [y \in {x} |-> row]
    <2>0. /\ x \in DOMAIN mine[r] /\ mine[r][x].status = "pending" /\ rows[x].status = "absent"
          /\ mine[r][x] \in Row
      BY <1>0, <1>4 DEF Collect, Own, Claims, Publishing, Sessions, IsSession
    <2>1. row \in Row /\ row.status = "published" /\ row.ackedAt = mine[r][x].ackedAt
      BY <2>0, RowUpdates DEF Statuses
    <2>2. mine' = Loaded(r, new) /\ rows' = rows
      BY <1>4 DEF Collect
    <2>. HIDE DEF row
    <2>3. IsSession(new) /\ DOMAIN new = {x} /\ new[x] = row
      BY <1>0, <2>1 DEF IsSession
    <2>4. Knows(x, row)
      <3>1. ~mine[r][x].ackedAt
        BY <2>0 DEF AcksTell, AllFresh, Fresh, Knows, Tells
      <3>. QED
        BY <2>0, <2>1, <3>1 DEF Knows, Tells, Ended
    <2>. HIDE DEF new
    <2>. QED
      BY <1>0, <2>2, <2>3, <2>4, LoadsFresh
  <1>5. CASE HandleAck(r)
    <2>. DEFINE a == Head(todo[r])
                row == Get(r, a.cid)
                loaded == Handled(row, a)
                new == [y \in {a.cid} |-> loaded]
    <2>1. a.cid \in CommandIds /\ row \in Row
      BY <1>0, <1>5, NextAck, GetTypes DEF HandleAck, Ack
    <2>2. Knows(a.cid, row)
      BY <2>1, GetFresh
    <2>3. rows' = rows /\ (mine' = mine \/ mine' = Loaded(r, new))
      BY <1>5 DEF HandleAck, Handled
    <2>. HIDE DEF row
    <2>4. loaded \in Row /\ Knows(a.cid, loaded)
      BY <2>1, <2>2, RowUpdates DEF Handled, Confirmable, Knows, Tells, Ended
    <2>. HIDE DEF loaded, a
    <2>5. IsSession(new) /\ DOMAIN new = {a.cid} /\ new[a.cid] = loaded
      BY <2>1, <2>4 DEF IsSession
    <2>. HIDE DEF new
    <2>6. CASE mine' = mine
      BY <2>3, <2>6 DEF AcksTell, RowsTell, AllFresh, Fresh, Knows
    <2>7. CASE mine' = Loaded(r, new)
      BY <1>0, <2>3, <2>4, <2>5, <2>7, LoadsFresh
    <2>. QED
      BY <2>3, <2>6, <2>7
  <1>. QED
    BY <1>1, <1>2, <1>3, <1>4, <1>5

\* A commit leaves every row as its session has it, if the session is fresh.
LEMMA FreshCommit ==
    ASSUME IInv, AcksTell, CommitsAlone, NEW r \in Requests, Commit(r)
    PROVE  AcksTell'
  <1>0. Types /\ Sessions /\ pc[r] = "acks" /\ rows \in [CommandIds -> Row]
    BY DEF IInv, Types, Shared, Commit
  <1>1. ASSUME NEW x \in locks[r] PROVE Tells(rows'[x])
    <2>1. /\ x \in DOMAIN mine[r] /\ rows[x] \in Row /\ mine[r][x] \in Row
          /\ rows'[x] = Merged(rows[x], mine[r][x])
      BY <1>0, CommitIs
    <2>2. Tells(mine[r][x]) /\ (rows[x].ackedAt => mine[r][x].ackedAt)
      <3>1. x \in CommandIds
        BY <1>0 DEF Sessions
      <3>. QED
        BY <2>1, <3>1 DEF AcksTell, RowsTell, AllFresh, Fresh, Knows, Tells, Ended
    <2>3. rows'[x].status = mine[r][x].status /\ (rows'[x].ackedAt <=> mine[r][x].ackedAt)
      BY <2>1, <2>2 DEF Merged, Row
    <2>. QED
      BY <2>2, <2>3 DEF Tells
  <1>2. RowsTell'
    BY <1>0, <1>1, CommitIs DEF AcksTell, RowsTell, Tells
  <1>3. \A q \in Requests : DOMAIN mine'[q] = {}
    <2>1. Closed(r, Answer(r, rows'[body[r].cid])) /\ Answer(r, rows'[body[r].cid]) \in Notes
      BY <1>0, CommitIs DEF Commit
    <2>2. DOMAIN mine'[r] = {} /\ \A q \in Requests \ {r} : mine'[q] = mine[q]
      BY <1>0, <2>1, ClosedIs
    <2>. QED
      BY <1>0, <2>2 DEF CommitsAlone
  <1>. QED
    BY <1>2, <1>3 DEF AcksTell, AllFresh

LEMMA FreshStep == IInv /\ AcksTell /\ CommitsAlone /\ [Next]_vars => AcksTell'
  <1>. SUFFICES ASSUME IInv, AcksTell, CommitsAlone, [Next]_vars PROVE AcksTell'
    OBVIOUS
  <1>0. Sessions
    BY DEF IInv, Types
  <1>1. CASE mine' = mine /\ rows' = rows
    BY <1>1 DEF AcksTell, RowsTell, AllFresh, Fresh, Knows
  <1>2. ASSUME NEW r \in Requests, Closed(r, "error"), rows' = rows PROVE AcksTell'
    <2>1. DOMAIN mine'[r] = {} /\ \A q \in Requests \ {r} : mine'[q] = mine[q]
      BY <1>0, <1>2, ClosedIs DEF Notes
    <2>. QED
      BY <1>2, <2>1 DEF AcksTell, RowsTell, AllFresh, Fresh, Knows
  <1>3. CASE Restart
    <2>1. rows' = rows /\ \A r \in Requests : DOMAIN mine'[r] = {}
      BY <1>3, EmptySession DEF Restart
    <2>. QED
      BY <2>1 DEF AcksTell, RowsTell, AllFresh, Fresh, Knows
  <1>4. \/ mine' = mine /\ rows' = rows
        \/ \E r \in Requests :
              \/ ExpireSelect(r) \/ LookUp(r) \/ Insert(r) \/ Collect(r) \/ HandleAck(r)
              \/ Commit(r) \/ (Closed(r, "error") /\ rows' = rows)
        \/ Restart
    BY DEF Next, Handler, Arrive, Flush, RejectItem, InsertConflicts, PublishBegins, Deliver, Light,
       AnswerCommand, Drain, DatabaseFails, BreakDeadlock, Elapse, vars, session
  <1>. QED
    BY <1>1, <1>2, <1>3, <1>4, FreshLoads, FreshCommit

\* An expired command was never acknowledged, unless a request commits while another holds
\* rows it loaded before: for every number of requests, commands, failures and restarts.
THEOREM NoUpdateLostAlone == Spec /\ []CommitsAlone => []ExpiredNeverAcknowledged
  <1>1. Init => AcksTell
    BY EmptySession DEF Init, AcksTell, RowsTell, AllFresh, Tells, NoRow
  <1>2. AcksTell => ExpiredNeverAcknowledged
    BY DEF AcksTell, RowsTell, Tells, ExpiredNeverAcknowledged
  <1>. QED
    BY Invariance, <1>1, <1>2, FreshStep, PTL DEF Spec

\* A commit changes no end that its session knows.
LEMMA FreshCommitKeepsEnds ==
    ASSUME IInv, AcksTell, NEW r \in Requests, Commit(r), NEW x \in CommandIds, Ended(rows[x])
    PROVE  rows'[x] = rows[x]
  <1>0. Types /\ rows \in [CommandIds -> Row]
    BY DEF IInv, Types, Shared
  <1>1. CASE x \notin locks[r]
    BY <1>0, <1>1, CommitIs
  <1>2. CASE x \in locks[r]
    <2>1. /\ x \in DOMAIN mine[r] /\ rows[x] \in Row /\ mine[r][x] \in Row
          /\ rows'[x] = Merged(rows[x], mine[r][x])
      BY <1>0, <1>2, CommitIs
    <2>2. mine[r][x].status = rows[x].status /\ (mine[r][x].ackedAt <=> rows[x].ackedAt)
      BY <2>1 DEF AcksTell, RowsTell, AllFresh, Fresh, Knows, Tells
    <2>3. Merged(rows[x], mine[r][x]) = [rows[x] EXCEPT !.status = rows[x].status,
                                                        !.ackedAt = rows[x].ackedAt]
      BY <2>1, <2>2 DEF Merged, Ended, Row
    <2>. QED
      BY <2>1, <2>3 DEF Row
  <1>. QED
    BY <1>1, <1>2

\* "An ACK arrived for a command that already finished" is rejected (StaleAckError,
\* command_service.py:73), and only unacknowledged commands are expired: an end is final.
EndsAreFinal == [][\A x \in CommandIds : Ended(rows[x]) => rows'[x] = rows[x]]_vars

\* An acknowledged or expired command stays as it is, unless a request commits while another
\* holds rows it loaded before.
THEOREM EndsAreFinalAlone == Spec /\ []CommitsAlone => EndsAreFinal
  <1>. DEFINE Final == \A x \in CommandIds : Ended(rows[x]) => rows'[x] = rows[x]
  <1>1. Init => AcksTell
    BY EmptySession DEF Init, AcksTell, RowsTell, AllFresh, Tells, NoRow
  <1>2. IInv /\ AcksTell /\ [Next]_vars => [Final]_vars
    BY OnlyCommits, FreshCommitKeepsEnds
  <1>. QED
    BY Invariance, <1>1, <1>2, FreshStep, PTL DEF Spec, EndsAreFinal

-------------------------------------------------------------------------------
\* One request is handled at a time.
OneAtATime == \A q, r \in Requests : Active(q) /\ Active(r) => q = r

\* With one request at a time, whatever fails or restarts between and within them, all four
\* hold: the loop closes, a controller shows one LED, an expired command was never
\* acknowledged, and an end is final.
THEOREM OneAtATimeIsEnough ==
    Spec /\ []OneAtATime =>
        [](ClosesTheLoop /\ OneLedLit /\ ExpiredNeverAcknowledged) /\ EndsAreFinal
  <1>1. OneAtATime => LightsAlone /\ DrainsAlone
    BY DEF OneAtATime, LightsAlone, DrainsAlone, Active
  <1>2. IInv /\ OneAtATime => CommitsAlone
    <2>1. IInv => \A r \in Requests : DOMAIN mine[r] # {} => Active(r)
      BY DEF IInv, Own, Claims, Active
    <2>. QED
      BY <2>1 DEF OneAtATime, CommitsAlone, Active
  <1>. QED
    BY Invariance, OneLedAlone, LoopClosesAlone, NoUpdateLostAlone, EndsAreFinalAlone, <1>1, <1>2,
       PTL
==============================================================================

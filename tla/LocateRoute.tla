----------------------------- MODULE LocateRoute -----------------------------
(***************************************************************************)
(* POST /api/locate in simulator mode, the default: concurrent requests,   *)
(* each with a database session of its own, share one simulated device bus *)
(* (backend/app/routes_controllers.py, services/device_bus.py and          *)
(* simulator/five_node_simulator.py).                                      *)
(*                                                                         *)
(* The handler is a plain function, so FastAPI runs requests in a thread   *)
(* pool and their steps interleave.  What one request writes is invisible  *)
(* to the others until it commits (PostgreSQL, read committed), a flushed  *)
(* row stays locked until then, and a session hands out the row it loaded  *)
(* first, however old.  The bus knows no transactions: every request takes *)
(* whatever ACKs are in its inbox, its own or not.                         *)
(*                                                                         *)
(* Routes are always valid here and the controllers are announced online   *)
(* at startup, so the devices reject nothing and nothing is refused as     *)
(* offline; both are modelled in CommandService.                           *)
(***************************************************************************)
EXTENDS Routing, Sequences, FiniteSets

CONSTANTS CommandIds, Requests,
          Bodies,               \* what clients may ask for: a command id, a drawer
          MaxFaults             \* bound: failures of the database and restarts

\* A request by item has no drawer (0) when the item is unknown or unplaced.
ASSUME RouteAssumption ==
    /\ Bodies \subseteq [cid : CommandIds, drawer : {0} \cup Drawers] /\ Bodies # {}
    /\ MaxFaults \in Nat

VARIABLES
    rows,      \* locate_commands, as committed
    old,       \* ids whose published_at is further back than the ACK timeout
    pc,        \* where each request is in the handler
    body,      \* its body
    mine,      \* the rows in its session, by id
    dirty,     \* ids whose row it changed but has not flushed
    locks,     \* ids whose row it flushed in its open transaction
    base,      \* len(simulator.acks) when its publish began
    todo,      \* the ACKs it drained and has not handled
    note,      \* what its response says, once it has one
    log,       \* simulator.acks
    inbox,     \* the bus's ACKs that nobody drained
    seen,      \* seen_command_ids of each simulated controller
    leds,      \* the LEDs each of them shows
    lit,       \* the ids each controller ever lit an LED for (history)
    faults     \* failures of the database and restarts so far

session == <<body, mine, dirty, locks, base, todo>>
devices == <<log, inbox, seen, leds, lit>>
vars == <<rows, old, pc, session, note, devices, faults>>

-------------------------------------------------------------------------------

Statuses == {"absent", "pending", "published", "acked", "expired"}

Row == [status : Statuses, controller : Controllers, ackedAt : BOOLEAN]
Ack == [cid : CommandIds, controller : Controllers]

NoRow == [status |-> "absent", controller |-> 1, ackedAt |-> FALSE]

Active(r) == pc[r] \notin {"idle", "done"}

\* session.get: the identity map first, then what is committed.
Get(r, x) == IF x \in DOMAIN mine[r] THEN mine[r][x] ELSE rows[x]

Loaded(r, new) ==
    [mine EXCEPT ![r] = [x \in DOMAIN mine[r] \cup DOMAIN new |->
                            IF x \in DOMAIN new THEN new[x] ELSE mine[r][x]]]

\* The requests that hold a row r wants to write, or r's own id for an insert.
Holders(r, xs) == {q \in Requests \ {r} : locks[q] \cap xs # {}}

Wants(r) == IF pc[r] = "insert" /\ rows[body[r].cid].status = "absent"
            THEN {body[r].cid} ELSE dirty[r]

\* Mutant: the session is never closed, so its locks stay.
KeepsItsLocks(r, answer) ==
    /\ pc' = [pc EXCEPT ![r] = "done"]
    /\ note' = [note EXCEPT ![r] = answer]
    /\ mine' = [mine EXCEPT ![r] = << >>]
    /\ dirty' = [dirty EXCEPT ![r] = {}]
    /\ todo' = [todo EXCEPT ![r] = << >>]
    /\ base' = [base EXCEPT ![r] = 0]
    /\ UNCHANGED <<body, locks>>

\* A session closed without a commit leaves nothing behind.
Closed(r, answer) ==
    /\ pc' = [pc EXCEPT ![r] = "done"]
    /\ note' = [note EXCEPT ![r] = answer]
    /\ mine' = [mine EXCEPT ![r] = << >>]
    /\ dirty' = [dirty EXCEPT ![r] = {}]
    /\ locks' = [locks EXCEPT ![r] = {}]
    /\ todo' = [todo EXCEPT ![r] = << >>]
    /\ base' = [base EXCEPT ![r] = 0]
    /\ UNCHANGED body

Goto(r, label) == pc' = [pc EXCEPT ![r] = label]

Init ==
    /\ rows = [x \in CommandIds |-> NoRow]
    /\ old = {}
    /\ pc = [r \in Requests |-> "idle"]
    /\ body = [r \in Requests |-> CHOOSE b \in Bodies : TRUE]
    /\ mine = [r \in Requests |-> << >>]
    /\ dirty = [r \in Requests |-> {}]
    /\ locks = [r \in Requests |-> {}]
    /\ base = [r \in Requests |-> 0]
    /\ todo = [r \in Requests |-> << >>]
    /\ note = [r \in Requests |-> "none"]
    /\ log = << >> /\ inbox = << >>
    /\ seen = [c \in Controllers |-> {}]
    /\ lit = [c \in Controllers |-> {}]
    /\ leds = [c \in Controllers |-> {}]
    /\ faults = 0

-------------------------------------------------------------------------------
(* The handler, step by step *)

Arrive(r, b) ==
    /\ pc[r] = "idle"
    /\ Goto(r, "expire")
    /\ body' = [body EXCEPT ![r] = b]
    /\ UNCHANGED <<rows, old, mine, dirty, locks, base, todo, note, devices, faults>>

\* expire_stale_commands reads the overdue rows ...
ExpireSelect(r) ==
    LET stale == {x \in CommandIds : rows[x].status = "published" /\ x \in old}
    IN  /\ pc[r] = "expire"
        /\ mine' = Loaded(r, [x \in stale |-> [rows[x] EXCEPT !.status = "expired"]])
        /\ dirty' = [dirty EXCEPT ![r] = stale]
        /\ Goto(r, "lookup")
        /\ UNCHANGED <<rows, old, body, locks, base, todo, note, devices, faults>>

\* ... and an UPDATE writes them, or an acknowledged row, once no other
\* transaction holds them.
Flush(r) ==
    /\ Active(r) /\ dirty[r] # {}
    /\ Holders(r, dirty[r]) = {}
    /\ locks' = [locks EXCEPT ![r] = @ \cup dirty[r]]
    /\ dirty' = [dirty EXCEPT ![r] = {}]
    /\ UNCHANGED <<rows, old, pc, body, mine, base, todo, note, devices, faults>>

\* locate_item raises for an unknown or unplaced item: 404 or 409, no commit.
RejectItem(r) ==
    /\ pc[r] = "lookup" /\ dirty[r] = {}
    /\ body[r].drawer = 0
    /\ Closed(r, "error")
    /\ UNCHANGED <<rows, old, devices, faults>>

LookUp(r) ==
    LET x == body[r].cid IN
    /\ pc[r] = "lookup" /\ dirty[r] = {}
    /\ body[r].drawer # 0
    /\ IF Get(r, x).status = "absent"
       THEN Goto(r, "insert") /\ UNCHANGED <<mine, note>>
       ELSE /\ Goto(r, "drain")
            /\ mine' = Loaded(r, [y \in {x} |-> Get(r, x)])
            /\ note' = [note EXCEPT ![r] = "deduplicated"]
    /\ UNCHANGED <<rows, old, body, dirty, locks, base, todo, devices, faults>>

\* The INSERT waits for another transaction that inserted the same id, and
\* fails on the primary key if that one committed.
InsertConflicts(r) ==
    /\ pc[r] = "insert"
    /\ rows[body[r].cid].status # "absent"
    /\ Closed(r, "error")
    /\ UNCHANGED <<rows, old, devices, faults>>

\* Mutant: the new row is not flushed before the publish.
InsertUnflushed(r) ==
    LET x == body[r].cid IN
    /\ pc[r] = "insert"
    /\ rows[x].status = "absent"
    /\ mine' = Loaded(r, [y \in {x} |->
                  [NoRow EXCEPT !.status = "pending",
                                !.controller = ControllerOf(body[r].drawer)]])
    /\ dirty' = [dirty EXCEPT ![r] = {x}]
    /\ Goto(r, "publish")
    /\ UNCHANGED <<rows, old, body, locks, base, todo, note, devices, faults>>

Insert(r) ==
    LET x == body[r].cid IN
    /\ pc[r] = "insert"
    /\ rows[x].status = "absent"
    /\ Holders(r, {x}) = {}
    /\ mine' = Loaded(r, [y \in {x} |->
                  [NoRow EXCEPT !.status = "pending",
                                !.controller = ControllerOf(body[r].drawer)]])
    /\ locks' = [locks EXCEPT ![r] = @ \cup {x}]
    /\ Goto(r, "publish")
    /\ UNCHANGED <<rows, old, body, dirty, base, todo, note, devices, faults>>

\* Mutant: counts one ACK too many, and so misses its own.
CountsOneTooMany(r) ==
    /\ pc[r] = "publish"
    /\ base' = [base EXCEPT ![r] = Len(log) + 1]
    /\ Goto(r, "deliver")
    /\ UNCHANGED <<rows, old, body, mine, dirty, locks, todo, note, devices, faults>>

\* SimulatedDeviceBus.publish: remember how many ACKs there are, ...
PublishBegins(r) ==
    /\ pc[r] = "publish"
    /\ base' = [base EXCEPT ![r] = Len(log)]
    /\ Goto(r, "deliver")
    /\ UNCHANGED <<rows, old, body, mine, dirty, locks, todo, note, devices, faults>>

\* ... let the controller act on a new id, which darkens its chain ...
Deliver(r) ==
    LET x == body[r].cid
        c == ControllerOf(body[r].drawer)
    IN  /\ pc[r] = "deliver"
        /\ seen' = [seen EXCEPT ![c] = @ \cup {x}]
        /\ IF x \in seen[c] THEN Goto(r, "answer") /\ UNCHANGED leds
           ELSE Goto(r, "light") /\ leds' = [leds EXCEPT ![c] = {}]
        /\ UNCHANGED <<rows, old, session, log, inbox, note, lit, faults>>

\* ... and then lights one LED of it, ...
Light(r) ==
    LET c == ControllerOf(body[r].drawer) IN
    /\ pc[r] = "light"
    /\ leds' = [leds EXCEPT ![c] = @ \cup {LedOf(body[r].drawer)}]
    /\ lit' = [lit EXCEPT ![c] = @ \cup {body[r].cid}]
    /\ Goto(r, "answer")
    /\ UNCHANGED <<rows, old, session, log, inbox, seen, note, faults>>

\* ... acknowledge any id, ...
AnswerCommand(r) ==
    /\ pc[r] = "answer"
    /\ log' = Append(log, [cid |-> body[r].cid, controller |-> ControllerOf(body[r].drawer)])
    /\ Goto(r, "collect")
    /\ UNCHANGED <<rows, old, session, inbox, seen, leds, note, lit, faults>>

\* Mutant: the command is not marked published.
CollectUnmarked(r) ==
    /\ pc[r] = "collect"
    /\ inbox' = inbox \o SubSeq(log, base[r] + 1, Len(log))
    /\ Goto(r, "drain")
    /\ UNCHANGED <<rows, old, session, note, log, seen, leds, lit, faults>>

\* ... and put every ACK that is new since then in the inbox.  The command is
\* then published, and its timeout starts.
Collect(r) ==
    LET x == body[r].cid IN
    /\ pc[r] = "collect"
    /\ inbox' = inbox \o SubSeq(log, base[r] + 1, Len(log))
    /\ mine' = Loaded(r, [y \in {x} |-> [mine[r][x] EXCEPT !.status = "published"]])
    /\ Goto(r, "drain")
    /\ UNCHANGED <<rows, old, body, dirty, locks, base, todo, note, log, seen, leds, lit, faults>>

Drain(r) ==
    /\ pc[r] = "drain"
    /\ todo' = [todo EXCEPT ![r] = inbox]
    /\ inbox' = << >>
    /\ Goto(r, "acks")
    /\ UNCHANGED <<rows, old, body, mine, dirty, locks, base, note, log, seen, leds, lit, faults>>

\* handle_ack for the next ACK: unknown, mismatched and stale ones are recorded
\* and dropped, any other confirms its row in the session.
Confirmable(row, a) ==
    row.status \notin {"absent", "expired"} /\ row.controller = a.controller

HandleAck(r) ==
    LET a   == Head(todo[r])
        row == Get(r, a.cid)
    IN  /\ pc[r] = "acks" /\ dirty[r] = {} /\ todo[r] # << >>
        /\ todo' = [todo EXCEPT ![r] = Tail(@)]
        /\ IF row.status = "absent" THEN UNCHANGED <<mine, dirty>>
           ELSE IF Confirmable(row, a) /\ row.status # "acked"
           THEN /\ mine' = Loaded(r, [x \in {a.cid} |->
                              [row EXCEPT !.status = "acked", !.ackedAt = TRUE]])
                /\ dirty' = [dirty EXCEPT ![r] = {a.cid}]
           ELSE /\ mine' = Loaded(r, [x \in {a.cid} |-> row])
                /\ UNCHANGED dirty
        /\ UNCHANGED <<rows, old, pc, body, locks, base, note, devices, faults>>

\* COMMIT writes the columns this session changed and keeps the others.
Merged(row, own) ==
    IF row.status = "absent" THEN own
    ELSE [row EXCEPT !.status = own.status, !.ackedAt = @ \/ own.ackedAt]

\* Mutant: a publish is taken for an acknowledgement.
AnswerPublished(r, row) ==
    IF note[r] = "deduplicated" THEN "deduplicated" ELSE "acknowledged"

Answer(r, row) ==
    CASE note[r] = "deduplicated" -> "deduplicated"
      [] note[r] # "deduplicated" /\ row.ackedAt -> "acknowledged"
      [] OTHER -> "waiting"

\* Mutant: every row the session loaded is written back.
CommitsAllItLoaded(r) ==
    /\ pc[r] = "acks" /\ dirty[r] = {} /\ todo[r] = << >>
    /\ rows' = [x \in CommandIds |->
                  IF x \in DOMAIN mine[r] THEN Merged(rows[x], mine[r][x]) ELSE rows[x]]
    /\ Closed(r, Answer(r, rows'[body[r].cid]))
    /\ UNCHANGED <<old, devices, faults>>

Commit(r) ==
    /\ pc[r] = "acks" /\ dirty[r] = {} /\ todo[r] = << >>
    /\ rows' = [x \in CommandIds |->
                  IF x \in locks[r] THEN Merged(rows[x], mine[r][x]) ELSE rows[x]]
    /\ Closed(r, Answer(r, rows'[body[r].cid]))
    /\ UNCHANGED <<old, devices, faults>>

-------------------------------------------------------------------------------
(* Failures *)

Fault == faults < MaxFaults /\ faults' = faults + 1

\* The database fails a statement or the COMMIT: a 500, and a rollback.  The bus
\* executes none.
DatabaseFails(r) ==
    /\ Fault
    /\ Active(r) /\ pc[r] \notin {"deliver", "light", "answer", "collect"}
    /\ Closed(r, "error")
    /\ UNCHANGED <<rows, old, devices>>

\* PostgreSQL aborts one of the transactions that wait for each other.
Deadlocked(r) ==
    \E others \in SUBSET Requests :
        /\ r \in others
        /\ \A q \in others : Active(q) /\ Holders(q, Wants(q)) \cap others # {}

BreakDeadlock(r) ==
    /\ Deadlocked(r)
    /\ Closed(r, "error")
    /\ UNCHANGED <<rows, old, devices, faults>>

\* The process ends: its requests, its bus and its simulated devices with it.
Restart ==
    /\ Fault
    /\ pc' = [r \in Requests |-> IF Active(r) THEN "done" ELSE pc[r]]
    /\ note' = [r \in Requests |-> IF Active(r) THEN "error" ELSE note[r]]
    /\ mine' = [r \in Requests |-> << >>]
    /\ dirty' = [r \in Requests |-> {}]
    /\ locks' = [r \in Requests |-> {}]
    /\ base' = [r \in Requests |-> 0]
    /\ todo' = [r \in Requests |-> << >>]
    /\ log' = << >> /\ inbox' = << >>
    /\ seen' = [c \in Controllers |-> {}]
    /\ leds' = [c \in Controllers |-> {}]
    /\ UNCHANGED <<rows, old, body, lit>>

\* Time passes: a published command is not acknowledged within the timeout.
Elapse(x) ==
    /\ rows[x].status = "published" /\ x \notin old
    /\ old' = old \cup {x}
    /\ UNCHANGED <<rows, pc, session, note, devices, faults>>

-------------------------------------------------------------------------------

Handler(r) ==
    \/ ExpireSelect(r) \/ Flush(r) \/ RejectItem(r) \/ LookUp(r) \/ InsertConflicts(r)
    \/ Insert(r) \/ PublishBegins(r) \/ Deliver(r) \/ Light(r) \/ AnswerCommand(r)
    \/ Collect(r) \/ Drain(r)
    \/ HandleAck(r) \/ Commit(r)

Next ==
    \/ \E r \in Requests : \/ \E b \in Bodies : Arrive(r, b)
                           \/ Handler(r) \/ DatabaseFails(r) \/ BreakDeadlock(r)
    \/ Restart
    \/ \E x \in CommandIds : Elapse(x)

Spec == Init /\ [][Next]_vars

\* As long as some request can go on, some thread of the pool does, and PostgreSQL resolves
\* deadlocks; nothing makes clients send another request.
Fairness ==
    /\ WF_vars(\E r \in Requests : Handler(r))
    /\ WF_vars(\E r \in Requests : BreakDeadlock(r))

FairSpec == Spec /\ Fairness

-------------------------------------------------------------------------------
(* Properties *)

\* Every variable keeps its type.
TypeOK ==
    /\ rows \in [CommandIds -> Row]
    /\ old \subseteq CommandIds
    /\ pc \in [Requests -> {"idle", "expire", "lookup", "insert", "publish", "deliver",
                            "light", "answer", "collect", "drain", "acks", "done"}]
    /\ body \in [Requests -> Bodies]
    /\ \A r \in Requests :
          /\ DOMAIN mine[r] \subseteq CommandIds
          /\ \A x \in DOMAIN mine[r] : mine[r][x] \in Row
          /\ dirty[r] \cup locks[r] \subseteq DOMAIN mine[r]
          /\ base[r] \in 0..Len(log)
    /\ note \in [Requests -> {"none", "error", "deduplicated", "acknowledged", "waiting"}]
    /\ log \in Seq(Ack) /\ inbox \in Seq(Ack) /\ todo \in [Requests -> Seq(Ack)]
    /\ seen \in [Controllers -> SUBSET CommandIds]
    /\ leds \in [Controllers -> SUBSET Leds]
    /\ lit \in [Controllers -> SUBSET CommandIds]
    /\ faults \in 0..MaxFaults

Publishing(r) == pc[r] \in {"publish", "deliver", "light", "answer", "collect"}

\* However requests overlap, a command id that is committed is never published
\* again, and two requests never publish the same id at once: the flushed
\* INSERT claims the id before the publish.
OnePublisherPerId ==
    \A r \in Requests : Publishing(r) =>
        /\ rows[body[r].cid].status = "absent"
        /\ \A q \in Requests \ {r} : Publishing(q) => body[q].cid # body[r].cid

\* A response without an error survives whatever happens next: its command is in
\* the database; and "acknowledged by the controller" is said only of a command
\* whose ACK is in the database and whose controller lit an LED for it.
AnswersAreTrue ==
    \A r \in Requests : note[r] \in {"deduplicated", "acknowledged", "waiting"} /\ pc[r] = "done" =>
        LET x == body[r].cid IN
        /\ rows[x].status # "absent"
        /\ note[r] = "acknowledged" => rows[x].ackedAt /\ x \in lit[rows[x].controller]

\* However stale the row a session loaded, its commit does nothing to a committed command
\* but end it: no command disappears, changes its controller, is published again, or loses
\* its acknowledgement.  An end may still be written over the other end, both ways.
CommitsOnlyEnd ==
    [][\A x \in CommandIds :
          rows[x].status # "absent" /\ rows'[x] # rows[x] =>
              /\ rows'[x].status \in {"acked", "expired"}
              /\ rows'[x].controller = rows[x].controller
              /\ rows[x].ackedAt => rows'[x].ackedAt]_vars

\* A command nobody could expire is never committed: expire_stale_commands looks
\* at published ones only, so none may be left pending, whichever step fails.
NeverLeftPending == \A x \in CommandIds : rows[x].status # "pending"

\* Every request that arrives is answered: nobody waits for a row lock forever.  (Each
\* request runs once, so that each is answered if again and again none is left waiting.)
EveryRequestIsAnswered == []<>(\A r \in Requests : ~Active(r))

\* With the simulator the loop is closed synchronously: a request that
\* published its command, without an error, sees it acknowledged
\* (routes_controllers.py:149).
ClosesTheLoop == \A r \in Requests : note[r] # "waiting"

\* A controller shows exactly one LED for a command, never two
\* (command_service.py:139).
OneLedLit == \A c \in Controllers : Cardinality(leds[c]) <= 1

\* Only unacknowledged commands are expired (the docstring of
\* expire_stale_commands, command_service.py:410).
ExpiredNeverAcknowledged ==
    \A x \in CommandIds : ~(rows[x].status = "expired" /\ rows[x].ackedAt)
===============================================================================

---------------------------- MODULE CommandService ----------------------------
(***************************************************************************)
(* The locate lifecycle of backend/app/services/command_service.py, seen   *)
(* by the one session a CommandService is built on: its calls run one      *)
(* after another.  The concurrent sessions of the HTTP layer are the       *)
(* subject of LocateRoute.                                                  *)
(*                                                                         *)
(* Only locate_drawer takes several steps, because between two publish     *)
(* attempts the world outside moves: time passes, and a message whose      *)
(* publish raised may have left all the same and be acted upon.  A call in *)
(* progress holds the session, so no other method runs until it returns.   *)
(*                                                                         *)
(* Of the world outside the backend the model keeps what the service can   *)
(* tell apart: the messages handed to the broker, and what each controller *)
(* did with them.  A message that left, and an ACK that a controller has   *)
(* published, may be received any number of times, in any order, or never. *)
(*                                                                         *)
(* Of the event log it keeps what is said about the commands issued.  The  *)
(* ERROR events for ACKs with an unknown id, malformed ACKs and missed     *)
(* heartbeats, and the HEARTBEAT events, name no command and are left out. *)
(***************************************************************************)
EXTENDS Routing

CONSTANTS CommandIds,    \* the command ids callers use
          NoId,          \* not a command id
          MaxAttempts,   \* RetryPolicy.max_attempts
          AckTimeout     \* ack_timeout_s, in ticks

ASSUME AttemptsAssumption == MaxAttempts \in 1..10
ASSUME TimeoutAssumption  == AckTimeout \in Nat \ {0}
ASSUME NoIdAssumption     == NoId \notin CommandIds

VARIABLES
    rows,     \* locate_commands: one row for each command id
    ctrl,     \* controllers.status
    events,   \* device_events: what was recorded about each id
    call,     \* the locate_drawer call in its retry loop
    tries,    \* history: how often publish was called for each id
    sent,     \* messages that left for the broker
    done,     \* <<controller, id>> pairs the controller has acted on
    refused   \* <<controller, id>> pairs the controller has rejected

vars == <<rows, ctrl, events, call, tries, sent, done, refused>>
service == <<rows, ctrl, events, call, tries>>
outside == <<sent, done, refused>>

-------------------------------------------------------------------------------
(* Types *)

NoTime == -1                     \* published_at IS NULL
Ages   == {NoTime} \cup 0..(AckTimeout + 1)

\* How long ago a row was published is all that matters of published_at, and
\* only up to the first tick past the timeout.
Statuses == {"absent", "pending", "published", "acked", "failed", "expired"}
Errors   == {"none", "offline", "publish", "rejected", "timeout"}

Row == [status : Statuses, controller : Controllers, led : Leds,
        age : Ages, ackedAt : BOOLEAN, error : Errors]

AckStates == {"received", "completed", "rejected"}
Message   == [cid : CommandIds, controller : Controllers, led : Leds]
Ack       == [cid : CommandIds, controller : Controllers, state : AckStates]

\* the reasons of ERROR events about a command, and the states of ACK events
Reasons == {"controller offline", "publish failed", "controller mismatch",
            "stale ack", "ack timeout"} \cup AckStates

NoRow  == [status |-> "absent", controller |-> 1, led |-> 0, age |-> NoTime,
           ackedAt |-> FALSE, error |-> "none"]
NoCall == [cid |-> NoId, attempt |-> 0]

\* The row locate_drawer adds to the session before it publishes anything.
NewRow(d) == [NoRow EXCEPT !.status = "pending", !.controller = ControllerOf(d),
                           !.led = LedOf(d)]

Failed(row, why) == [row EXCEPT !.status = "failed", !.error = why]
Published(row)   == [row EXCEPT !.status = "published", !.age = 0]
Confirmed(row)   == [row EXCEPT !.status = "acked", !.ackedAt = TRUE]
Expired(row)     == [row EXCEPT !.status = "expired", !.error = "timeout"]

MessageFor(cid) == [cid |-> cid, controller |-> rows[cid].controller,
                    led |-> rows[cid].led]

\* Mutant: the ACK events are not recorded.
RecordsErrorsOnly(reason, cid) ==
    events' = IF reason \in AckStates THEN events
              ELSE [events EXCEPT ![cid] = @ \cup {reason}]

Record(reason, cid) == events' = [events EXCEPT ![cid] = @ \cup {reason}]

Idle == call = NoCall

Init ==
    /\ rows = [cid \in CommandIds |-> NoRow]
    /\ ctrl = [c \in Controllers |-> "unknown"]
    /\ events = [cid \in CommandIds |-> {}]
    /\ call = NoCall
    /\ tries = [cid \in CommandIds |-> 0]
    /\ sent = {} /\ done = {} /\ refused = {}

-------------------------------------------------------------------------------
(* The retry loop counts from one to max_attempts.                           *)

\* Mutant: the loop runs once more.
CountsFromZero == 0
FirstAttempt   == 1
MayRetry(n)    == n < MaxAttempts

(* Issuing.  A known id is returned as it is (locate_drawer's early return):  *)
(* it changes nothing, so it is the guard of the two actions that follow.     *)

\* Mutant: a command that failed is issued again under its id.
IsNewOrFailed(cid) == rows[cid].status \in {"absent", "failed"}

IsNew(cid) == rows[cid].status = "absent"

\* Mutant: the early return after the refusal is missing.
RefusedButPublished(cid, d) ==
    /\ Idle /\ IsNew(cid)
    /\ ctrl[ControllerOf(d)] = "offline"
    /\ rows' = [rows EXCEPT ![cid] = [NewRow(d) EXCEPT !.error = "offline"]]
    /\ Record("controller offline", cid)
    /\ call' = [cid |-> cid, attempt |-> FirstAttempt]
    /\ UNCHANGED <<ctrl, tries, outside>>

LocateRefused(cid, d) ==
    /\ Idle /\ IsNew(cid)
    /\ ctrl[ControllerOf(d)] = "offline"
    /\ rows' = [rows EXCEPT ![cid] = Failed(NewRow(d), "offline")]
    /\ Record("controller offline", cid)
    /\ UNCHANGED <<ctrl, call, tries, outside>>

LocateBegins(cid, d) ==
    /\ Idle /\ IsNew(cid)
    /\ ctrl[ControllerOf(d)] # "offline"
    /\ rows' = [rows EXCEPT ![cid] = NewRow(d)]
    /\ call' = [cid |-> cid, attempt |-> FirstAttempt]
    /\ UNCHANGED <<ctrl, events, tries, outside>>

\* Mutant: published_at is not set.
PublishReturnsUntimed ==
    /\ ~Idle
    /\ tries' = [tries EXCEPT ![call.cid] = @ + 1]
    /\ sent' = sent \cup {MessageFor(call.cid)}
    /\ rows' = [rows EXCEPT ![call.cid].status = "published"]
    /\ call' = NoCall
    /\ UNCHANGED <<ctrl, events, done, refused>>

\* publish returned: the message was handed over, which is not yet delivery.
PublishReturns ==
    /\ ~Idle
    /\ tries' = [tries EXCEPT ![call.cid] = @ + 1]
    /\ sent' = sent \cup {MessageFor(call.cid)}
    /\ rows' = [rows EXCEPT ![call.cid] = Published(@)]
    /\ call' = NoCall
    /\ UNCHANGED <<ctrl, events, done, refused>>

\* publish raised; the client may have queued or sent the message before it did.
PublishRaises ==
    /\ ~Idle
    /\ tries' = [tries EXCEPT ![call.cid] = @ + 1]
    /\ sent' \in {sent, sent \cup {MessageFor(call.cid)}}
    /\ \/ /\ MayRetry(call.attempt)
          /\ call' = [call EXCEPT !.attempt = @ + 1]
          /\ UNCHANGED <<rows, events>>
       \/ /\ ~MayRetry(call.attempt)
          /\ call' = NoCall
          /\ rows' = [rows EXCEPT ![call.cid] = Failed(@, "publish")]
          /\ Record("publish failed", call.cid)
    /\ UNCHANGED <<ctrl, done, refused>>

-------------------------------------------------------------------------------
(* Acknowledging.  An ACK for an unknown id raises and leaves no trace here. *)

IsKnown(a) == rows[a.cid].status # "absent"

\* Mutant: the controller is not compared.
FromAnyone(a)  == TRUE

IsFromOwner(a) == rows[a.cid].controller = a.controller

\* Mutant: late ACKs are not refused.
NeverStale(row) == FALSE

IsStale(row) == row.status = "expired"

AckMismatch(a) ==
    /\ Idle /\ IsKnown(a) /\ ~IsFromOwner(a)
    /\ Record("controller mismatch", a.cid)
    /\ UNCHANGED <<rows, ctrl, call, tries, outside>>

AckStale(a) ==
    /\ Idle /\ IsKnown(a) /\ IsFromOwner(a)
    /\ IsStale(rows[a.cid])
    /\ Record("stale ack", a.cid)
    /\ UNCHANGED <<rows, ctrl, call, tries, outside>>

\* Mutant: the state in the ACK is not read.
AnyAckConfirms(row, state) == Confirmed(row)

\* What an accepted ACK makes of a row.  "received" for a pending row leaves
\* published_at as it is.
Acknowledged(row, state) ==
    CASE state = "received" /\ row.status = "pending" ->
             [row EXCEPT !.status = "published"]
      [] state = "completed" /\ row.status # "acked" -> Confirmed(row)
      [] state = "rejected" -> Failed(row, "rejected")
      [] OTHER -> row

AckApplied(a) ==
    /\ Idle /\ IsKnown(a) /\ IsFromOwner(a)
    /\ ~IsStale(rows[a.cid])
    /\ rows' = [rows EXCEPT ![a.cid] = Acknowledged(@, a.state)]
    /\ Record(a.state, a.cid)
    /\ UNCHANGED <<ctrl, call, tries, outside>>

HandleAck(a) == AckMismatch(a) \/ AckStale(a) \/ AckApplied(a)

-------------------------------------------------------------------------------
(* Timeouts and device status *)

\* Mutant: the query forgets the status.
OverdueWhateverStatus(row) == row.age > AckTimeout

Overdue(row) == row.status = "published" /\ row.age > AckTimeout

\* Mutant: the loop runs over all published commands.
ExpireAllPublished ==
    /\ Idle
    /\ \E cid \in CommandIds : Overdue(rows[cid])
    /\ rows' = [cid \in CommandIds |->
                  IF rows[cid].status = "published" THEN Expired(rows[cid]) ELSE rows[cid]]
    /\ UNCHANGED <<ctrl, call, tries, events, outside>>

ExpireStaleCommands ==
    /\ Idle
    /\ \E cid \in CommandIds : Overdue(rows[cid])
    /\ rows' = [cid \in CommandIds |->
                  IF Overdue(rows[cid]) THEN Expired(rows[cid]) ELSE rows[cid]]
    /\ events' = [cid \in CommandIds |->
                    IF Overdue(rows[cid]) THEN events[cid] \cup {"ack timeout"}
                    ELSE events[cid]]
    /\ UNCHANGED <<ctrl, call, tries, outside>>

HandleStatus(c, online) ==
    /\ Idle
    /\ ctrl' = [ctrl EXCEPT ![c] = IF online THEN "online" ELSE "offline"]
    /\ UNCHANGED <<rows, events, call, tries, outside>>

MarkOffline(c) ==
    /\ Idle
    /\ ctrl' = [ctrl EXCEPT ![c] = "offline"]
    /\ UNCHANGED <<rows, events, call, tries, outside>>

-------------------------------------------------------------------------------
(* Outside the backend *)

\* A published_at is never cleared, and grows older as time passes.
Older(age) == IF age \in 0..AckTimeout THEN age + 1 ELSE age
Aged(row)  == [row EXCEPT !.age = Older(@)]

Tick ==
    /\ rows' = [cid \in CommandIds |-> Aged(rows[cid])]
    /\ UNCHANGED <<ctrl, events, call, tries, outside>>

\* A controller takes a message: it publishes "received", acts on it and publishes
\* "completed", or it publishes a "rejected".  The verdict depends on the message
\* alone, so a second copy of it gets the same answer.
DeviceActs(m) ==
    /\ <<m.controller, m.cid>> \notin refused
    /\ done' = done \cup {<<m.controller, m.cid>>}
    /\ UNCHANGED <<service, sent, refused>>

DeviceRejects(m) ==
    /\ <<m.controller, m.cid>> \notin done
    /\ refused' = refused \cup {<<m.controller, m.cid>>}
    /\ UNCHANGED <<service, sent, done>>

\* The ACKs that may arrive: those the controllers have published, and any that
\* claims to be from a controller the command was never addressed to.
Arriving(a) ==
    \/ a.state = "received" /\ \E m \in sent : m.cid = a.cid /\ m.controller = a.controller
    \/ a.state = "completed" /\ <<a.controller, a.cid>> \in done
    \/ a.state = "rejected" /\ <<a.controller, a.cid>> \in refused
    \/ rows[a.cid].controller # a.controller

-------------------------------------------------------------------------------
(* Specification *)

Issue    == \E cid \in CommandIds, d \in Drawers :
                LocateRefused(cid, d) \/ LocateBegins(cid, d)
Publish  == PublishReturns \/ PublishRaises
Receive  == \E a \in Ack : Arriving(a) /\ HandleAck(a)
Monitor  == \E c \in Controllers :
                MarkOffline(c) \/ \E online \in BOOLEAN : HandleStatus(c, online)
Devices  == \E m \in sent : DeviceActs(m) \/ DeviceRejects(m)

Next == \/ Issue \/ Publish \/ Receive \/ ExpireStaleCommands \/ Monitor
        \/ Tick \/ Devices

Spec == Init /\ [][Next]_vars

\* A call that was begun runs to its end, and the clock advances.  Nothing is
\* assumed of the devices or of the network, nor that expire_stale_commands is
\* called: nothing schedules it, only the next POST /locate calls it.
Fairness == WF_vars(Publish) /\ WF_vars(Tick)

FairSpec == Spec /\ Fairness

-------------------------------------------------------------------------------
(* Properties *)

\* Every variable has its type; a call in progress holds a pending row and is at
\* an attempt that RetryPolicy allows.
TypeOK ==
    /\ rows \in [CommandIds -> Row]
    /\ ctrl \in [Controllers -> {"unknown", "online", "offline"}]
    /\ events \in [CommandIds -> SUBSET Reasons]
    /\ call \in {NoCall} \cup [cid : CommandIds, attempt : 1..MaxAttempts]
    /\ tries \in [CommandIds -> Nat]
    /\ sent \subseteq Message
    /\ done \subseteq Controllers \X CommandIds
    /\ refused \subseteq Controllers \X CommandIds

\* "Nothing here ever marks success on its own": a command is acked, or was at
\* some time, only if the controller it belongs to has acted on it.  Neither a
\* publish that worked, nor an ACK from another controller, nor a "received"
\* is enough.
AckedOnlyIfDone ==
    \A cid \in CommandIds :
        rows[cid].status = "acked" \/ rows[cid].ackedAt =>
            <<rows[cid].controller, cid>> \in done

\* "Bounded retries": over its whole life, whoever asks for it again and
\* however its publishes ended, an id is published at most MaxAttempts times.
BoundedPublishing == \A cid \in CommandIds : tries[cid] <= MaxAttempts

\* A command id lights at most one LED on one controller: every message that ever
\* left for an id carries the route of its row.
OneLedPerCommand ==
    \A m \in sent : /\ rows[m.cid].status # "absent"
                    /\ m.controller = rows[m.cid].controller
                    /\ m.led = rows[m.cid].led

\* "Offline controller - refuse before publishing": a refused command stays
\* refused, nothing ever leaves for it and no LED is lit by it.
RefusedNeverSent ==
    \A cid \in CommandIds : rows[cid].error = "offline" =>
        /\ rows[cid].status = "failed"
        /\ \A m \in sent : m.cid # cid
        /\ \A c \in Controllers : <<c, cid>> \notin done

\* Noticing one timeout leaves the other commands alone: whatever expires has been
\* published for longer than the timeout.
NeverExpiredEarly ==
    \A cid \in CommandIds : rows[cid].status = "expired" => rows[cid].age > AckTimeout

\* Why a command ended as it did can be read in the event log.
VerdictIsLogged ==
    \A cid \in CommandIds :
        /\ rows[cid].status = "acked" => "completed" \in events[cid]
        /\ rows[cid].status = "expired" => "ack timeout" \in events[cid]
        /\ rows[cid].status = "failed" =>
               events[cid] \cap {"controller offline", "publish failed", "rejected"} # {}

\* "It cannot resurrect a command": once expired, a row never changes again but
\* for the age of its published_at.
ExpiredIsFinal ==
    [][\A cid \in CommandIds : rows[cid].status = "expired" =>
           rows'[cid] = [rows[cid] EXCEPT !.age = rows'[cid].age]]_vars

\* An acked command stays acked: no late, repeated or misdirected ACK, no timeout
\* and no second request with its id takes the confirmation back.
AckedIsFinal ==
    [][\A cid \in CommandIds :
           rows[cid].status = "acked" => rows'[cid].status = "acked"]_vars

\* "A command that is published and never acknowledged becomes expired": no
\* command stays pending or published for ever.
EveryCommandIsResolved ==
    \A cid \in CommandIds :
        rows[cid].status \in {"pending", "published"} ~>
            rows[cid].status \in {"acked", "failed", "expired"}

\* As long as new requests go on calling expire_stale_commands, no command stays
\* pending or published for ever, whatever the retries and the ACKs did before.
ResolvedIfRequestsGoOn == WF_vars(ExpireStaleCommands) => EveryCommandIsResolved

\* The service keeps the promises of LocateLifecycle.
VerdictOf(row) ==
    CASE row.status = "absent" -> "new"
      [] row.status \in {"pending", "published"} -> "open"
      [] row.status = "failed" /\ row.error = "offline" -> "refused"
      [] row.status = "failed" /\ row.error # "offline" -> "failed"
      [] row.status = "acked" -> "confirmed"
      [] row.status = "expired" -> "expired"

verdictBar == [cid \in CommandIds |-> VerdictOf(rows[cid])]
actedBar   == {cid \in CommandIds : <<rows[cid].controller, cid>> \in done}

Lifecycle == INSTANCE LocateLifecycle WITH verdict <- verdictBar, acted <- actedBar

\* Every behaviour of the service is one of the abstract lifecycle.
RefinesLifecycle == Lifecycle!Spec
==============================================================================

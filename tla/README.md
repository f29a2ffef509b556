# Verification of FindIt

FindIt answers "which drawer is it in?": a dashboard asks the backend to locate
an item, the backend routes the drawer to one of five controllers, publishes a
command over MQTT, and the controller lights one LED and acknowledges.  This
directory holds TLA+ models of that system, the TLC runs that check them, and
proofs about them that TLAPS checks.

* [The system](#the-system): components, state, interactions, hard behaviours
* [The modules](#the-modules): what each models and how it corresponds to the code
* [The runs](#the-runs): what is checked, bounds, fairness, disagreements found
* [The proofs](#the-proofs): what is proved, from what, and along which argument
* [What is not modelled](#what-is-not-modelled)
* [Plan](#plan)

## The system

| component | source | state it keeps | operations |
|---|---|---|---|
| Routing and topology | `backend/app/services/routing.py`, `seed.py`, `config.py` | none (fixed 5 x 10) | `drawer_to_route`, `expected_controllers` |
| Command service | `backend/app/services/command_service.py`, `models.py` | tables `locate_commands`, `controllers`, `device_events` | `locate_drawer`, `locate_item`, `handle_ack`, `expire_stale_commands`, `handle_status`, `mark_offline` |
| MQTT contract | `backend/app/services/mqtt_client.py` | connection flag of `PahoPublisher` | payload validation, topics, `publish` |
| Locate endpoint | `backend/app/routes_controllers.py`, `database.py` | one session per request | `POST /api/locate`; read-only GETs |
| Simulated bus and devices | `services/device_bus.py`, `simulator/five_node_simulator.py` | `_inbox`, `acks`, LEDs and seen ids of each controller | `publish`, `drain_acks`, `handle_command` |
| Search | `services/search.py`, `routes_search.py` | the table `items` | `search`, `find_items`, `resolve_item` |
| Controller firmware | `firmware/FindIt_Controller_Node/*` | window of seen ids, LED chain and deadline, connection timers, debounced inputs | `onCommand`, `loop`, `reconnect`, `Ws2812Service`, `Mcp23017Io` |
| Dashboard | `frontend/src/App.jsx`, `api.js` | React state | search, locate, refresh |
| Version 1 bridge | `legacy-v1/backend/app/mqtt_bridge.py`, `main.py` (two Java ports of it) | an entry per device, a list of events, both under one lock | `try_start`, `send_stop`, `is_busy`, polls, status messages |
| Version 1 device | `legacy-v1/esp32/findit_esp32.ino` (a lookup in `simulator/locate.py`) | ring state and deadline, connection | start, stop, button, timeout, status |

How they interact.  A request enters `locate()`, which opens a session, gives up
on overdue commands, calls the command service, applies the ACKs in the bus's
inbox, commits, and answers.  The command service inserts a row, publishes up to
three times, and marks the row; a later ACK confirms it.  In the default
*simulator* mode the publisher is a bus shared by all requests whose devices
answer within `publish`; in *broker* mode the backend would talk to the firmware
through MQTT, but at this commit `routes_controllers.py` installs a
`FakePublisher` there and nothing subscribes to ACKs.  Requests run in a thread
pool and share PostgreSQL (read committed) and the bus.

What is hard, and what each component must therefore guarantee:

* *Command service*: publishes that raise although the message left; lost,
  repeated, misdirected and late ACKs; retries; the same id asked for again.
  A verdict must be earned (acked only if the device acted), logged, and final;
  an id is published a bounded number of times and lights one LED; every command
  is resolved as long as requests come.
* *Locate endpoint*: interleaved requests, uncommitted rows that the bus already
  knows, row locks, stale rows in identity maps, crashes between the device's
  action and the commit.  No id may be published by two requests, no answer may
  promise what is not so, a commit may do nothing to a committed command but end
  it, nobody waits for ever.
* *Firmware*: bounded memory of ids, identifiers cut to 47 characters, a clock
  that wraps, reconnects, resets.
* *Search*: the database filters the rows before the service normalizes and ranks
  them, and a limit is applied before the matches are counted.  No item may be
  named that is not the only match, and nothing that matches may be missed.
* *Version 1*: a start claims a device under the lock, publishes without it and
  takes the claim back under it; meanwhile the device reports, other starts come
  and stale claims are released.  A claim may never be left behind, a rollback may
  undo nothing but its own claim, and a device that rings is given up no sooner
  than its claim allows.

`PROJECT.json` lists every such hazard at its line, with the properties that
cover it.

## The modules

* **`Routing`** - the topology as two constants and `drawer_to_route` as
  `ControllerOf` and `LedOf`; the ranges written by the seed.
* **`CommandService`** - the service as its one session sees it.  `rows`, `ctrl`
  and `events` are the three tables; `call` is the local state of a
  `locate_drawer` that is in its retry loop; `tries` is a history variable;
  `sent`, `done` and `refused` are the world outside: messages that left, and
  what the controllers did.  One action per method or per exit of a method:
  `LocateRefused` (offline), `LocateBegins` (insert), `PublishReturns` and
  `PublishRaises` (one iteration of the loop, the last one with the give-up),
  `AckMismatch`, `AckStale`, `AckApplied`, `ExpireStaleCommands`, `HandleStatus`,
  `MarkOffline`.  The early return for a known id changes nothing and is the
  guard `IsNew`.  `locate_item` is `locate_drawer` for an arbitrary drawer.
  `published_at` is modelled by its age in ticks, capped one past the timeout.
* **`LocateLifecycle`** - the abstract specification: for each id a verdict and
  whether the LED was lit, without retries, messages or ACKs.  `CommandService`
  implements it (`RefinesLifecycle`).
* **`LocateRoute`** - concurrent `POST /api/locate` in simulator mode.  `pc` walks
  through `locate()`, `expire_stale_commands`, `locate_drawer`,
  `SimulatedDeviceBus.publish`, `SimulatedController.handle_command`,
  `drain_acks`, `handle_ack` and the commit, one action for each access to
  something shared.  `rows` is what is committed; `mine`, `dirty` and `locks` are
  each session's identity map, unflushed changes and row locks; `base`, `log` and
  `inbox` are the positions and lists of the bus.  `DatabaseFails`,
  `BreakDeadlock` and `Restart` are the failures, `Elapse` the clock; `MaxFaults`
  bounds the first and the third of them together.
* **`Ws2812Service`** - the LED chain of a node under `loop()`: `LoopBegins` reads
  the clock into `now`, then MQTT hands over no command (`NoCommand`) or one
  (`Locate`, `TestAll`, `Cancel`), then `leds.tick(now)` turns the chain off
  (`GoDark`), toggles the blinking pixel (`Toggle`) or does nothing (`Hold`).
  `Pass` lets the clock advance between any two of these, modulo `Word`.  `strip`
  holds the members `active_`, `expiresAt_`, `lastBlink_`, `blinkOn_`, `blinking_`.
  `lag`, `asked`, `age`, `nowAge` and `phase` are histories: they measure true
  time, which the wrapping clock does not, and stop counting where nothing depends
  on them.  `phase` is the time since the pixel was really switched, by a command or
  by `Toggle`, while the code remembers the reading `now` of that pass.
* **`DeviceContract`** - the validation order of a command message, twice: as
  `parseCommand` of the firmware and as `handle_command` of the simulator, each a
  sequence of checks (the verdict) over the kinds of JSON values the two languages
  tell apart.  `readBy` says which of the two can read the payload as an object:
  `deserializeJson` stops at the end of the object and its payload has at most 511
  characters, `json.loads` refuses what follows.  `Misjudged` are the messages on
  which the two differ.
* **`ControllerNode`** - `onCommand` in three steps (remember the id and publish
  `received`; drive the LEDs; publish `completed`), `SeenCommands` as the ring
  `ids`/`next`, the connection and resets.  A node reads 47 characters of an id,
  which is the function `Cut` from ids to the names a node knows.  `seen` (what a
  node has received), `newer` (how many names it has remembered since each) and
  `obeyed` are histories.
* **`FindItSystem`** - composes `CommandService` and `ControllerNode`: a broker
  delivers any message in `sent` and any ACK in `acks` any number of times, in any
  order, or never.  The service's `done` is the nodes' `obeyed`.
* **`ItemSearch`** - the table of items, whose items are moved (`Move`), and the
  answer to the latest request: `Search` for `search`, `find_items` and the
  endpoint, `ResolveItem` for the route of an item found earlier.  A text is a
  sequence of characters; what the service (`Normal`), version 1 (`Fold`), the
  database (`Lower`) and JSON make of each is a constant.  `Passes` is the WHERE
  clause, `Matches` the second check, `Better` the rank; sorting by a rank is to put
  each item where the number of better ones says (`InOrder`).  `V1Find` is the
  lookup of version 1, for comparison: it looks at an item's id and its two names,
  `name` and `name_en`.  The first name is taken for the name of version 2 and the second
  for one of its aliases; the ids, which were texts such as `FINDIT-001`, have no
  counterpart in version 2, whose search does not look at ids (`V1Id`).
* **`RingSystem`** - the version 1 bridge with one device.  `status` is the entry of
  the device and `started` the list of events; `call` is how far each start has
  come and `snap` what its `try_start` would restore.  One action is what one
  holder of the lock does: `StartRefused`, `StartClaims`, the publish outside the
  lock (`PublishReturns`, `PublishFails`), `Settle` (confirmation or rollback), `Answer` of the
  endpoint, `Poll`, `SendStop`, `TakeReport`, `TakeForeign`.  The device has
  `OnMessage`, `Button`, `Timeout`, `Connect`; links drop, devices reset, reports
  are lost.  `TakeForeign` takes a message that is not from this device's program:
  any of the set `Foreign`, also one that says "starting", names another event, has an
  unknown state or carries a `_ring_duration` of its own, all of which the bridge takes at
  its word.  `reported`, `missed` and `posed` are histories; `posed` says that the claim
  in the entry is the work of such a message, not of a start.  Devices share only the lock
  and the list, so that one of them is enough.
* **`MCLocateRoute`**, **`MCControllerNode`**, **`MCFindItSystem`**,
  **`MCItemSearch`**, **`MCRingSystem`** - values of the constants for TLC: request
  bodies, how ids are cut, an alphabet and inventories, durations, symmetry.
* **`RoutingProofs`**, **`CommandServiceProofs`**, **`Ws2812ServiceProofs`**,
  **`ControllerNodeProofs`**, **`FindItSystemProofs`**, **`LocateRouteProofs`**,
  **`RingSystemProofs`**, **`ItemSearchProofs`** - the theorems.

Operators commented *Mutant* are deliberately wrong variants of the definition
that follows them.  No specification uses them; replacing the definition by its
mutant makes the property named in `PROJECT.json` fail, which shows that the
property does constrain the code.

Abstractions.  Command ids are model values; patterns, durations, messages and
time stamps other than `published_at` are left out, as are ERROR events that name
no issued command and HEARTBEAT events.  A device's verdict on a message is a
function of the message, so that a second copy gets the same verdict: this is
what `handle_command` does, and `AckedIsFinal` depends on it.  An early `received`
may arrive for any message that was sent.  A command to the chain reads `millis()`
up to three times, which is one read in `Ws2812Service`: a tick of the model is no
shorter than a command.  `ControllerNode` leaves the duration of an LED to
`Ws2812Service`: there `LedsExpire` may come at any time.  In `LocateRoute`
an INSERT and a batch of UPDATEs take their row locks in one step.  An ACK that
is appended to an inbox list just as another thread swaps it is lost in the code;
the model covers that outcome for the row by the drain of another request, which
drops it too.  `RingSystem` keeps of the events only the "started" ones, which are
the ones taken back, and without the cap of 200; of an entry's `updated_at` it
keeps the age while the device is busy.  `ItemSearch` leaves out how LIKE treats its wild
cards and the punctuation of JSON, both of which only let rows through that the second
check rejects; the backslash in a query, which LIKE takes for an escape, so that it can
drop rows as well (no query has one: `QueryAssumption`); and characters that NFKC or
casefold turn into several.  For the others
`UnicodeAssumption` states what the comparison with version 1 needs of Unicode:
normalizing twice, or after folding, is normalizing once, and what lower() and NFKC
with casefold agree on, casefold alone agrees with.

## The runs

| run | instance | what it shows |
|---|---|---|
| `service_one` | 1 id, 2 x 2 LEDs, 3 attempts, timeout 2 ticks, fair | the life of one command: all safety properties, finality, refinement; every issued command is resolved if requests go on |
| `service_stuck` | 1 id, 1 LED, 1 attempt, fair | *violation*: with no further request a published command stays so for ever |
| `route_safety` | 3 requests, 2 ids, one of them also for a moved item, 1 database failure or restart, fair | concurrent requests publish an id once, answer truthfully, do nothing to committed commands but end them, and are all answered |
| `route_loop_not_closed` | 2 requests | *violation*: an ACK is drained and dropped by another request |
| `route_two_leds` | 2 requests, one controller of two LEDs | *violation*: both requests clear, then both light |
| `route_lost_update` | 3 requests | *violation*: a command ends expired with an `acked_at` |
| `leds_wrap` | 2 LEDs, a clock of 12 values, passes of up to 2 ticks, fair | one drawer is lit, as long as asked, and dark in the first pass after; blinking keeps its pace over the wrap; in the end it is dark |
| `node_window` | 1 node, 4 ids, two of them alike to it, a window of 2, resets and lost links | repetitions within the window change nothing, `completed` is earned; where exactly the node answers otherwise than the simulated device |
| `system_refines` | 2 ids, 1 node of 2 LEDs, a window of 1 | service and firmware together behave as `CommandService` says, over a broker that loses, repeats and reorders; the timeouts of two commands do not touch each other |
| `search_outcomes` | 3 items, 256 inventories, 11 queries | an item is named only if it is the one match, candidates are the best and in order, what version 1 found by its name comes first |
| `search_misses` | as `search_outcomes` | *violation*: an item is not found by its own name |
| `ring_claims` | 1 device, late by up to 2 ticks, 2 starts, 4 strange messages, 1 fault, fair | version 1: every claim has its start, a rollback undoes only its own, no ringing device is released before its claim allows, every claim is released in the end |

Why the bounds are enough.  Commands interact in the service only through
`expire_stale_commands`: one id with three attempts shows every history of its own
(three attempts are the default policy), and two ids, in `system_refines`, every
interaction.  Two
controllers let an ACK come from the wrong one, two LEDs make a wrong route
visible.  Ages are capped at the first tick past the timeout because the code
compares with nothing else.  Three requests are the fewest that lose an update or
deadlock (one holds drained ACKs, one commits, one expires); runs with four, made
while the model was written, showed nothing new.  Every request runs once and
`MaxFaults` bounds the database failures and restarts together, which makes the state
space finite; `CHECK_DEADLOCK FALSE` in those runs because the system stops when all
requests are answered.

The clock of the chain has more values than the longest duration and the passes
around it, so that deadlines lie before, at and beyond the wrap; `MaxPass` = 2 lets
a pass begin before a command and end after its deadline, and `Blink` = 3 is longer than
a pass, so that a late toggle can be followed by a prompt one.  A window of two is the
smallest ring whose index wraps between two different slots, and three names
overflow it; the fourth id shares its name with another (`FirstTwoAlike`), so that a node
takes one command for the other, within the window and beyond it.  In `system_refines` a window of one makes the nodes forget at every
other command; its view leaves out two histories that nothing there reads.

Two starts are the fewest that compete for a device; one asks for the longest ring,
the other for a duration no device accepts, so that both sides fall back to the
default.  A grace of one tick separates "just over the duration" from "stale", and
one fault (`MaxFaults`) is enough for each way in which the bridge and the device
can disagree; the theorems hold for any number of starts and faults.  A ring may outlast
its time by `Lateness`, which is the longest that `loop()` of the device blocks, and is
larger than the grace (2 against 1): `mqtt.connect` (findit_esp32.ino:140) waits for the 15 s
of PubSubClient's default, the bridge only 10 s.  `MaxTold`, the longest duration that a
report may name, is that of a start.  Four strange messages stand for the ways in which the bridge takes a message at its word.
`ItemSearch` has three items because a limit of two must leave one out; its
characters are two letters, a capital, a full-width capital and its lower form, a
quotation mark with its backslash, and the space: one for each way in which the
service, the database and JSON treat a character differently.  One item is moved.  Two of
the ids of version 1 are found by a query, exactly or in part.

Fairness.  `CommandService` assumes that a call in progress continues (a thread) and
that the clock advances; not that anybody calls `expire_stale_commands`, which the code does
only at the start of a `/locate`.  Hence two statements: that every command is resolved
(`EveryCommandIsResolved`) is false, as `service_stuck` shows, and
`ResolvedIfRequestsGoOn` has the further requests as its hypothesis.  `LocateRoute`
assumes that some thread of the pool goes on as long as one can, and that PostgreSQL
breaks deadlocks; it assumes neither that clients send anything nor that time passes.
`Ws2812Service` assumes that `loop()` is called again and again, as the Arduino core
does, and that time passes.  `RingSystem` assumes that the dashboard keeps
polling (every 1.5 s), that the loop of the device goes on, and that time passes; it
does not assume that any message arrives.  Nothing is assumed of devices or
the network.

Disagreements with what the repository says, each shown by a run and quoted in
`PROJECT.json`: a published command stays published when no request follows; the loop
does not close synchronously when requests overlap; two LEDs can be lit on one
controller; an acknowledged command can be expired; an item is not found by a name that
the filter of the database sees differently.  And one that is shown by a run that passes:
the firmware does not validate as the simulator does.  `SimulatorAgreement` says exactly
where it does not: on a payload that only one can read, a numeric id, an action that is
`null`, empty or not a text, and on a command that a node has forgotten or takes for another.

Known from the models, without a run of their own:

* a late ACK makes a `failed` command `acked` (`handle_ack`, command_service.py:338
  and 361), where the docstring of `StaleAckError` (command_service.py:73) says that
  an ACK for a finished command is rejected; `CommandService` has the transition and
  no property forbids it;
* an expired command can become `acked` as well, in concurrent requests: one has read
  it as published and drained its ACK, another commits its expiry in between.  The
  docstrings (command_service.py:18-19 and 73) exclude it.  `CommitsOnlyEnd`
  does not: it allows one end to be written over the other, both ways, and theorem
  `EndsAreFinalAlone` names the window outside which that cannot happen;
* two ids that share their first 47 characters (CommandParser.cpp:55) are one to a
  node, which answers the second as a repetition (`Mistaken`, and the hypothesis
  `ShortIds` of the theorems about the composition);
* the comments of the version 1 device (findit_esp32.ino:120-121 and 168) say that keeping
  the connection never blocks, but `mqtt.connect` does, for up to 15 s: the ring and its
  button wait for it, and the bridge, whose grace is 10 s, gives up a device that is
  still ringing; so it does when an idle report has made the entry forget how long the
  ring was to last (mqtt_bridge.py:191).  `ReleasedInTime` bounds how early that may be;
* the version 1 bridge takes the state, the event and the `_ring_duration` of any message
  on the topic at their word (mqtt_bridge.py:98-163): one that says "starting", or names an
  event without a state, is a claim without a start (`posed`), until it goes stale;
* a backslash in a query is an escape to LIKE (search.py:80-84), which then drops rows that
  the second check would accept;
* a deadline of exactly zero counts as none, and one so close to the wrap that no
  pass falls between them is missed (Ws2812Service.cpp:85): the LED then stays on
  until the next command; `InSight` excludes both from `DarkAtLast`;
* after an idle report overtakes a claim, a second start can claim the device while
  the first is still publishing, although the docstring of `try_start`
  (mqtt_bridge.py:248) and the Java port say that two concurrent starts cannot both win;
* with a limit of one, an ambiguous query is answered as found (search.py:98);
  `NeverGuesses` speaks of larger limits.

And where the repository promises nothing:

* a deadline beyond the wrap of `millis()` is due at once, so that a drawer asked
  for in the last minutes of the 49.7 days blinks once (`InOnePeriod` excludes it
  from `LitUntilDue` and `DarkWhenDue`);
* the pass that brings a command can end the first phase of its blink pattern at once,
  when it began before the command (`nowAge # Never` excludes that pass from
  `BlinksNoFaster`, later ones not);
* the code measures a phase from the time read at the start of the pass that began it, so
  a phase can be shorter than the period by as much as that pass was late
  (Ws2812Service.cpp:89): `BlinksNoFaster` says by no more.

## The proofs

`RoutingProofs` shows for every topology that a route exists (`RouteInTopology`),
that no two drawers share an LED (`RouteIsInjective`), and that the seed's ranges
agree with the routing function (`SeedAgreesWithRoute`).  It uses only
`TopologyAssumption` and one lemma about integer division.

`CommandServiceProofs` shows for every topology, set of ids, retry policy and
timeout:

* `Invariance`: the inductive invariant `IInv`.  Its parts are `TypeOK`;
  `CallOwnsPendingRow` (the row of a call in its retry loop is pending and nobody
  else's is); `TriesMatchCall` (how often an id was published, by the state of
  its row and the attempt of its call), which is why the bound on publishes is
  inductive; `RoutesAgree` (messages carry the route of their row and devices act
  only on messages), which is why an ACK from the owner means that the owner
  acted; `RefusedNeverSent`; `AckedOnlyIfDone`.
* `TypeCorrect`, `SuccessIsNeverInvented`, `RetriesAreBounded`, `OneLed`,
  `RefusalIsFinal`: the invariants the runs check, from `IInv`.
* `NothingExpiresEarly` (`NeverExpiredEarly`) and `EveryEndIsExplained`
  (`VerdictIsLogged`): each is inductive together with `IInv`.
* `ExpiryIsFinal`, `ConfirmationIsFinal`: the action properties, from `IInv`, by
  cases on the actions.
* `Refinement`: `Spec => RefinesLifecycle`, each action of the service being a step
  of the lifecycle or a stutter.

`Ws2812ServiceProofs` shows for every clock width, duration and lateness of
`loop()`: `TypeCorrect`, `OneDrawer` (`OneDrawerLit`), `StaysLit` (`LitUntilDue`) and
`GoesDark` (`DarkWhenDue`), and the action property `BlinksSlowly` (`BlinksNoFaster`).
The inductive invariant has five parts.  `Shows` says
what the chain shows after the last command; it alone gives `OneDrawer`.  The timing
results compare the deadline with a time that was read earlier, before or after
the command: `Reading` relates that reading to the clock (it wrapped at most once
since) and to the age of the command, and `Timing` places the deadline: while the
chain is lit in one period of the clock, the pass that sees the deadline reached is
exactly one that began after it (lemma `DueMeansLate`).  `Phases` does the same for the
last toggle, which may lie up to two wraps back: the reading it was made with is earlier
than the toggle by no more than a pass (`BeganLate`), and it stays so as time passes (lemma
`PassKeepsPhase`).  The code takes the difference of two instants modulo `Word`, which
is never more than the time that has passed (lemma `SinceLeast`), so that a phase is
shorter than the period by no more than the pass that began it was late.

`ControllerNodeProofs` shows for every window, set of commands and way of cutting
ids: `TypeCorrect`, `WindowHolds` (`RemembersWindow`), `CompletedMeansDone`
(`CompletedIsEarned`) and `SimulatorIsReference` (`SimulatorAgreement`).  `RingInOrder`
and `RingIsCounted` make the window inductive: the ring holds the newest names in
order and nothing else, and the slot written next is not one of theirs.
`CountedIsSeen`: what is remembered was received, under that name.
`RememberedIsObeyed` and `WorkIsRemembered` say that a
remembered id was obeyed or is in `onCommand` now; since `onCommand` is not
interrupted by another message, a repetition finds only ids that were obeyed.
`SimulatorIsReference` needs no assumption on ids or messages.  One half is about a single
message: the first check that fails decides (`FirstFailing`, `JudgeLadder`), and where the two
ladders part is as `Misjudged` says (`JudgedApart`); the other is about memory: the ring holds
a name exactly if it was received and fewer than `Window` others since.

`FindItSystemProofs` shows for every topology, window, retry policy and timeout, and
provided that no id is cut (`ShortIds`): `Implementation` (`RefinesService`),
`OnlyAskedDrawersLit` (`NoDrawerLitUnasked`) and `NothingExpiresEarly`
(`NeverExpiredEarly`).  A fact about an INSTANCE cannot be cited, so the module has an
invariant of its own, smaller than those of the two parts: only rows that were not
refused are sent, with their routes (`OnlyLiveSent`); a node works on what was sent,
remembers only what it obeyed or is about to (`RememberedIsObeyed`), and its ACKs are
honest (`AcksAreHonest`).  An honest ACK is one that `CommandService` lets a device give,
which is the step of the refinement that could fail.  With `Refinement` of
`CommandServiceProofs` this closes the chain from nodes and broker to
`LocateLifecycle`.

`LocateRouteProofs` shows for every number of requests, commands, drawers and faults: `TypeCorrect`, `OnePublisher` (`OnePublisherPerId`),
`ResponsesAreTrue` (`AnswersAreTrue`), `NothingIsLeftPending` (`NeverLeftPending`) and
`CommitsEndCommands` (`CommitsOnlyEnd`).  The invariant says of each request
(`Own`) that, until its id is committed, the lock on the row it inserted is its claim to
the id (`Claims`), and that a row of its session is either that one or a committed one, of
which the request writes only an end (`RowIsTrue`).  Together with `LocksExclude` this
bounds what the commit of one request can do to the others: it never touches a row they
have inserted, and a committed row only `Advances` (lemmas `OthersKeep`, `StepOf`).  Of the bus it says
that only commands whose LED was lit are acknowledged (`AcksAreLit`), which needs
`SeenIsLit`: an id a controller has seen was lit, or a request is about to light it, and
then no other request has that id (`SeenByOne`).

Four more theorems are about what the repository says of the loop and what does not hold,
as three runs show: each names the window that the requests must not share, and under which the statement is
true for all those parameters.  `OneLedAlone` (`OneLedLit`): no two requests are between
clearing and lighting one chain (`LightsAlone`).  `LoopClosesAlone` (`ClosesTheLoop`): no
two have collected their ACKs, or found a repetition, and not drained the inbox (`DrainsAlone`).  `NoUpdateLostAlone`
(`ExpiredNeverAcknowledged`): no request handles ACKs and commits while another holds rows
it loaded (`CommitsAlone`).  `EndsAreFinalAlone` (`EndsAreFinal`): under the same condition an
acknowledged or expired command stays as it is.  Nothing in the code enforces any of these
conditions; `OneAtATimeIsEnough` says that handling one request at a time would, whatever
fails or restarts.  The invariants are those of one thing on its way: a chain about to be lit is
dark (`ChainsInOrder`); a request's ACK is in the log behind its mark, then in the inbox,
then in its list, then in its row (`Closing`); and a session's row knows every
acknowledgement that is committed (`AcksTell`).

`RingSystemProofs` shows for every set of starts, their durations, any grace, lateness and
number of faults, and any set of strange messages: `TypeCorrect`, `NoClaimIsLeftBehind`
(`NoOrphanClaim`), `TheLogIsTrue` (`StartedIsTrue`), `RollbackIsOwn`
(`RollbackUndoesNoReport`) and `ReleaseIsInTime` (`ReleasedInTime`).  The first part of the
invariant is about claims: a snapshot is never busy (`SnapFree`), and a claim on which the
device has not reported (`ReportedInFlight`, `ClaimIsUnreported`) is the only one a rollback
touches; both results leave out the claims that a message has `posed`.  The second is
about time: a ring never outlasts its duration by more than `Lateness` (`RingIsBounded`),
the last report tells the state of the device unless it was lost
(`LastReportIsTrue`), and the entry's age is no more than what the ring has used up
(`EntryFollowsRing`), so that an entry that has gone stale behind the last report means a ring
that has lasted for what the entry allows and the grace.  That the ring is then over does not
follow, and is not so.

`ItemSearchProofs` shows for every inventory, alphabet, set of queries and limit:
`TypeCorrect`, `ListsTheBest` (`BestFirst`), `NamesTheOneMatch` (`NeverGuesses`) and
`VersionsFindTheSame` (`VersionsAgree`).  The invariant says that the latest answer is
still what the search would find (`Answered`), since moving an item changes nothing that
a search reads (lemma `SameTexts`), and that its outcome fits the number of candidates
(`Counted`).  That sorting by counting the better ones is a list of all matches in order
takes a strict total order (`BeforeTransitive`, `BeforeTotal`, `BetterOrder`) and that
ranks in one are the numbers from zero without a gap (`Ranks`, `Listing`).  For version 1
the lemmas show that a plain text is already in its normal form, so that stripping and
folding it gives the same (`PlainText`, `PlainFolded`), and that the two versions look for
the same text if version 1 finds anything by its name (`SameNeedle`); a query that finds an
id is a part of one (`KeyBetween`, `KeyText`, `OccursInItself`), which `AsksForV1Id` excludes.  `NotFoundWhenPlain` is the
other side of the run `search_misses`: in a plain inventory, one that the database sees as
the service does (`Plain`), `NotFoundIsTrue` holds.

The assumptions are those named in the modules: at least one controller and one
LED, between one and ten attempts, a positive timeout, a value that is not a
command id; at least one request body; durations and passes shorter than the period of the clock; for the
composition also that ids have names (`SystemAssumption`), for version 1 that the default is a
duration the device accepts (`TimesAssumption`) and that strange messages have the form of a
report (`ForeignAssumption`), for the search finitely many numbered items,
a strict order of characters, the facts of `UnicodeAssumption` and queries without a
backslash (`QueryAssumption`).

Only model-checked: liveness, which is out of the prover's reach (`ResolvedIfRequestsGoOn`,
`EveryRequestIsAnswered`, `DarkAtLast`, `ClaimIsReleased`).  Every invariant and every
action property of a passing run is a theorem.

## What is not modelled

* The GPIO expander: it counts equal samples of inputs that nothing else in the
  program reads.
* The dashboard: state of a page that disables its buttons while a request runs.
* The Java ports of the version 1 bridge, which the Python bridge replaced.  They
  differ in the rollback (it sets the entry to idle even over the device's
  confirmation of the same event, leaves the "started" event in the list, and keeps
  the event id and the duration) and in `deviceState`, which does not release stale
  claims.
* The startup announcement: one status per controller before the first request, the
  initial state of `LocateRoute`.
* Of the firmware, the timers of reconnection, heartbeats and the retained status
  message; of version 1, the intervals between connection attempts, the catalogue,
  and events other than the started ones.
* Left out for good: logging, diagnostics, schemas and settings (no state);
  validation of payloads and topics (total functions of one message); the
  simulator's `cancel`, `test`, heartbeats and module-level API, which the backend
  never uses; hardware test sketches, scripts and broker configuration.

## Plan

In order of importance; all are done.

1. `Routing`, `CommandService`, `LocateLifecycle` and their proofs.
2. `LocateRoute`: the concurrent endpoint, and its proofs.
3. `Ws2812Service`: deadlines and blinking over a clock that wraps, as the firmware
   computes them, and its proofs.
4. `DeviceContract`, `ControllerNode`, and their composition with the service in
   `FindItSystem`, with proofs of both.
5. `RingSystem`: the version 1 bridge, in which `try_start` publishes outside the
   lock and rolls back, with the version 1 device, and its proofs.
6. `ItemSearch`: the search as a pure function against what its comments promise, and
   its proofs.
7. The statements that runs refute: the conditions under which they are theorems.

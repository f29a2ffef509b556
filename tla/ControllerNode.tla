---------------------------- MODULE ControllerNode ----------------------------
(***************************************************************************)
(* The controller firmware's side of the command contract: onCommand() of  *)
(* FindIt_Controller_Node.ino with the window of ids it has obeyed         *)
(* (SeenCommands), its connection to the broker, and resets.               *)
(*                                                                         *)
(* onCommand takes three steps, because what it publishes may arrive, and  *)
(* the power may fail, between them: it remembers the id and publishes     *)
(* "received"; it drives the LEDs; it publishes "completed".  Nothing else *)
(* of the node runs meanwhile.                                             *)
(*                                                                         *)
(* A node copies at most 47 characters of an id: it knows a command as     *)
(* Cut[cid], and so do its ACKs.  A message is what parseCommand makes of  *)
(* it: its verdict (see DeviceContract), its id and its LED.  The LEDs'    *)
(* own timing is the subject of Ws2812Service.                             *)
(***************************************************************************)
EXTENDS Routing, DeviceContract

CONSTANTS CommandIds,   \* the ids of commands
          Names,        \* the ids as nodes know them
          Cut,          \* the name a node knows a command by
          NoName,       \* an empty id
          Window        \* SEEN_COMMAND_WINDOW

ASSUME NamesAssumption  == Cut \in [CommandIds -> Names] /\ NoName \notin Names
ASSUME WindowAssumption == Window \in Nat \ {0}

VARIABLES
    ids,      \* SeenCommands.ids_, of each node
    next,     \* SeenCommands.next_
    link,     \* whether the MQTT client is connected
    work,     \* the command in onCommand, and how far it has come
    pixels,   \* the LEDs that are lit
    acks,     \* the ACKs published
    obeyed,   \* history: <<controller, id>> of the commands that drove the LEDs
    seen,     \* history: <<controller, id>> of those received, repetitions included
    newer     \* history: how many commands were obeyed after each name, if any was

vars == <<ids, next, link, work, pixels, acks, obeyed, seen, newer>>

-------------------------------------------------------------------------------
(* Types *)

Slots == 0..(Window - 1)

Command == [cid : CommandIds, led : Leds, verdict : Verdicts]

NoWork == [stage |-> "none"]
Work   == [stage : {"apply", "report"}, command : {m \in Command : m.verdict \in Actions}]

NodeAck == [name : Names \cup {NoName}, controller : Controllers,
            state : {"received", "completed", "rejected"}]

Init ==
    /\ ids = [c \in Controllers |-> [i \in Slots |-> NoName]]
    /\ next = [c \in Controllers |-> 0]
    /\ link = [c \in Controllers |-> FALSE]
    /\ work = [c \in Controllers |-> NoWork]
    /\ pixels = [c \in Controllers |-> {}]
    /\ acks = {} /\ obeyed = {} /\ seen = {}
    /\ newer = [c \in Controllers |-> [n \in Names |-> Window]]

-------------------------------------------------------------------------------
(* SeenCommands *)

Contains(c, name) == \E i \in Slots : ids[c][i] = name

\* Mutant: the index is not reduced.
RememberPastTheEnd(c, name) ==
    /\ ids' = [ids EXCEPT ![c][next[c]] = name]
    /\ next' = [next EXCEPT ![c] = @ + 1]

\* Mutant: the last slot is never used.
RememberInSmallerRing(c, name) ==
    /\ ids' = [ids EXCEPT ![c][next[c]] = name]
    /\ next' = [next EXCEPT ![c] = IF Window = 1 THEN 0 ELSE (@ + 1) % (Window - 1)]

Remember(c, name) ==
    /\ ids' = [ids EXCEPT ![c][next[c]] = name]
    /\ next' = [next EXCEPT ![c] = (@ + 1) % Window]

\* History: name is now the newest, and every other one has grown older.
Newest(c, name) ==
    newer' = [newer EXCEPT ![c] =
                [n \in Names |-> IF n = name THEN 0
                                 ELSE IF @[n] < Window THEN @[n] + 1 ELSE Window]]

-------------------------------------------------------------------------------
(* onCommand.  client.loop() hands over one message, while the link is up.  An *)
(* ACK is lost when the link is down.                                           *)

MayReceive(c) == link[c] /\ work[c] = NoWork

PublishAck(c, name, state) ==
    acks' = IF link[c] THEN acks \cup {[name |-> name, controller |-> c, state |-> state]}
            ELSE acks

\* The ACK names the command once its id has been read.
NameOf(m) == IF m.verdict \in {"topic", "unparsable", "no id"} THEN NoName ELSE Cut[m.cid]

Refuse(c, m) ==
    /\ MayReceive(c)
    /\ m.verdict \in Refusals
    /\ PublishAck(c, NameOf(m), "rejected")
    /\ UNCHANGED <<ids, next, link, work, pixels, obeyed, seen, newer>>

Repeat(c, m) ==
    /\ MayReceive(c)
    /\ m.verdict \in Actions
    /\ Contains(c, Cut[m.cid])
    /\ PublishAck(c, Cut[m.cid], "completed")
    /\ seen' = seen \cup {<<c, m.cid>>}
    /\ UNCHANGED <<ids, next, link, work, pixels, obeyed, newer>>

Begin(c, m) ==
    /\ MayReceive(c)
    /\ m.verdict \in Actions
    /\ ~Contains(c, Cut[m.cid])
    /\ Remember(c, Cut[m.cid])
    /\ Newest(c, Cut[m.cid])
    /\ PublishAck(c, Cut[m.cid], "received")
    /\ work' = [work EXCEPT ![c] = [stage |-> "apply", command |-> m]]
    /\ seen' = seen \cup {<<c, m.cid>>}
    /\ UNCHANGED <<link, pixels, obeyed>>

\* What a command makes of the chain.
Shown(m) ==
    CASE m.verdict = "locate" -> {m.led}
      [] m.verdict = "cancel" -> {}
      [] m.verdict = "test"   -> Leds

\* The index was checked, so no command fails here.
Apply(c) ==
    /\ work[c].stage = "apply"
    /\ pixels' = [pixels EXCEPT ![c] = Shown(work[c].command)]
    /\ obeyed' = obeyed \cup {<<c, work[c].command.cid>>}
    /\ work' = [work EXCEPT ![c] = [stage |-> "report", command |-> work[c].command]]
    /\ UNCHANGED <<ids, next, link, acks, seen, newer>>

Report(c) ==
    /\ work[c].stage = "report"
    /\ PublishAck(c, Cut[work[c].command.cid], "completed")
    /\ work' = [work EXCEPT ![c] = NoWork]
    /\ UNCHANGED <<ids, next, link, pixels, obeyed, seen, newer>>

-------------------------------------------------------------------------------
(* The rest of loop(), and the world *)

\* leds.tick: the duration expires.
LedsExpire(c) ==
    /\ work[c] = NoWork /\ pixels[c] # {}
    /\ pixels' = [pixels EXCEPT ![c] = {}]
    /\ UNCHANGED <<ids, next, link, work, acks, obeyed, seen, newer>>

\* reconnect() subscribes to the node's own command topic.
Reconnect(c) ==
    /\ ~link[c] /\ work[c] = NoWork
    /\ link' = [link EXCEPT ![c] = TRUE]
    /\ UNCHANGED <<ids, next, work, pixels, acks, obeyed, seen, newer>>

LinkDrops(c) ==
    /\ link[c]
    /\ link' = [link EXCEPT ![c] = FALSE]
    /\ UNCHANGED <<ids, next, work, pixels, acks, obeyed, seen, newer>>

\* Mutant: the window outlives a reset, as it would in flash memory.
ResetKeepingWindow(c) ==
    /\ link' = [link EXCEPT ![c] = FALSE]
    /\ work' = [work EXCEPT ![c] = NoWork]
    /\ pixels' = [pixels EXCEPT ![c] = {}]
    /\ UNCHANGED <<ids, next, newer, acks, obeyed, seen>>

\* A reset clears the RAM, and setup() the chain.
Reset(c) ==
    /\ ids' = [ids EXCEPT ![c] = [i \in Slots |-> NoName]]
    /\ next' = [next EXCEPT ![c] = 0]
    /\ link' = [link EXCEPT ![c] = FALSE]
    /\ work' = [work EXCEPT ![c] = NoWork]
    /\ pixels' = [pixels EXCEPT ![c] = {}]
    /\ newer' = [newer EXCEPT ![c] = [n \in Names |-> Window]]
    /\ UNCHANGED <<acks, obeyed, seen>>

-------------------------------------------------------------------------------
(* Specification *)

OnCommand(c, m) == Refuse(c, m) \/ Repeat(c, m) \/ Begin(c, m)

Own(c) == \/ Apply(c) \/ Report(c) \/ LedsExpire(c)
          \/ Reconnect(c) \/ LinkDrops(c) \/ Reset(c)

Next == \E c \in Controllers : Own(c) \/ \E m \in Command : OnCommand(c, m)

Spec == Init /\ [][Next]_vars

-------------------------------------------------------------------------------
(* Properties *)

\* Every variable has its type.
TypeOK ==
    /\ ids \in [Controllers -> [Slots -> Names \cup {NoName}]]
    /\ next \in [Controllers -> Slots]
    /\ link \in [Controllers -> BOOLEAN]
    /\ work \in [Controllers -> {NoWork} \cup Work]
    /\ pixels \in [Controllers -> SUBSET Leds]
    /\ acks \subseteq NodeAck
    /\ obeyed \subseteq Controllers \X CommandIds
    /\ seen \subseteq Controllers \X CommandIds
    /\ newer \in [Controllers -> [Names -> 0..Window]]

\* "It keeps the last N": a command is forgotten only after Window others, so that a
\* repetition that comes before then changes nothing.
RemembersWindow ==
    \A c \in Controllers, n \in Names : newer[c][n] < Window => Contains(c, n)

\* "completed" is published under a name only if the LEDs were driven for a
\* command of that name, also when it answers a repetition, and also when the
\* node was reset in the middle of the first one.
CompletedIsEarned ==
    \A a \in acks : a.state = "completed" =>
        \E cid \in CommandIds : Cut[cid] = a.name /\ <<a.controller, cid>> \in obeyed

\* A command the node has received and does not remember any more, because of a reset
\* or of Window others; the simulated device never forgets one.
Forgotten(c, cid) == <<c, cid>> \in seen /\ newer[c][Cut[cid]] = Window

\* A command the node has never received, but another that it knows by the same name.
Mistaken(c, cid) ==
    /\ <<c, cid>> \notin seen
    /\ newer[c][Cut[cid]] < Window
    /\ \E other \in CommandIds : Cut[other] = Cut[cid] /\ <<c, other>> \in seen

\* CommandParser.h says that the firmware validates as the simulator does, "including
\* the rejection messages", and that a repeated id changes nothing.  How far that goes:
\* sent the same commands, and then any message about one of them, however much is wrong
\* with it, the node and the simulated device answer differently exactly when the
\* message is one that they judge differently, or when the node has forgotten the
\* command or takes it for another.
SimulatorAgreement ==
    \A c \in Controllers, cid \in CommandIds, j \in Judgements :
        Answer(j.firmware, Contains(c, Cut[cid])) # Answer(j.simulator, <<c, cid>> \in seen)
            <=> \/ j.misjudged
                \/ j.firmware \in Actions /\ (Forgotten(c, cid) \/ Mistaken(c, cid))
==============================================================================

---------------------------- MODULE DeviceContract ----------------------------
(***************************************************************************)
(* How a controller judges a command message: parseCommand of the firmware *)
(* (CommandParser.cpp) and its executable reference, handle_command of     *)
(* simulator/five_node_simulator.py, as functions of one message.          *)
(*                                                                         *)
(* A message is the topic it came on, which of the two sides reads its     *)
(* payload as a JSON object, and for each field what kind of JSON value it *)
(* holds, as far as either side tells values apart.  The two readers are   *)
(* not alike: deserializeJson stops at the end of the object and sees no   *)
(* more than 511 characters, while json.loads refuses text that follows.   *)
(* Texts are taken to hold no NUL character.                               *)
(***************************************************************************)
EXTENDS Integers, Sequences

IdKinds         == {"absent", "null", "empty", "text", "zero", "number"}
ControllerKinds == {"absent", "number", "other", "own"}
IndexKinds      == {"absent", "text", "outside", "inside"}
ActionKinds     == {"absent", "null", "empty", "number", "other",
                    "locate", "cancel", "test"}

Readers == {"firmware", "simulator"}

CommandMessage ==
    [ownTopic : BOOLEAN, readBy : SUBSET Readers, id : IdKinds,
     controller : ControllerKinds, index : IndexKinds, action : ActionKinds]

Actions  == {"locate", "cancel", "test"}
Refusals == {"topic", "unparsable", "no id", "mismatch", "index", "action"}
Verdicts == Actions \cup Refusals

-------------------------------------------------------------------------------
\* A sequence of checks, each with the refusal that follows when it fails; a
\* message that passes them all is the command it names.
Check(refusal, passed) == [refusal |-> refusal, passed |-> passed]

Judge(checks, action) ==
    LET failing == {i \in DOMAIN checks : ~checks[i].passed}
    IN  IF failing = {} THEN action
        ELSE checks[CHOOSE i \in failing : \A j \in failing : i <= j].refusal

\* An action the firmware cannot read as text, and an empty one, mean "locate".
FirmwareAction(kind) ==
    IF kind \in {"absent", "null", "number", "empty"} THEN "locate" ELSE kind

\* Mutant: the action is checked before the LED index.
FirmwareChecksActionFirst(m) ==
    Judge(<<Check("topic", m.ownTopic),
            Check("unparsable", "firmware" \in m.readBy),
            Check("no id", m.id = "text"),
            Check("mismatch", m.controller = "own"),
            Check("action", FirmwareAction(m.action) \in Actions),
            Check("index", m.index = "inside")>>,
          FirmwareAction(m.action))

FirmwareVerdict(m) ==
    Judge(<<Check("topic", m.ownTopic),
            Check("unparsable", "firmware" \in m.readBy),
            Check("no id", m.id = "text"),
            Check("mismatch", m.controller = "own"),
            Check("index", m.index = "inside"),
            Check("action", FirmwareAction(m.action) \in Actions)>>,
          FirmwareAction(m.action))

\* Only a missing action means "locate"; an id that is a number is turned into text.
SimulatorAction(kind) == IF kind = "absent" THEN "locate" ELSE kind

SimulatorVerdict(m) ==
    Judge(<<Check("topic", m.ownTopic),
            Check("unparsable", "simulator" \in m.readBy),
            Check("no id", m.id \in {"text", "number"}),
            Check("mismatch", m.controller = "own"),
            Check("index", m.index = "inside"),
            Check("action", SimulatorAction(m.action) \in Actions)>>,
          SimulatorAction(m.action))

\* The messages on which the two sides differ: one of them alone can read it; or its
\* id is a number, which only the simulator takes for an id; or all else is in order
\* and its action is there but no name, which only the firmware takes for "locate".
Misjudged(m) ==
    /\ m.ownTopic
    /\ \/ m.readBy \in {{"firmware"}, {"simulator"}}
       \/ /\ m.readBy = Readers
          /\ \/ m.id = "number"
             \/ /\ m.id = "text" /\ m.controller = "own" /\ m.index = "inside"
                /\ m.action \in {"null", "empty", "number"}

\* What the two sides make of one and the same message.
Judgements ==
    {[firmware |-> FirmwareVerdict(m), simulator |-> SimulatorVerdict(m),
      misjudged |-> Misjudged(m)] : m \in CommandMessage}

\* The answer to a message: a command that was seen before is not obeyed again.
Answer(verdict, seen) == IF verdict \in Actions /\ seen THEN "repetition" ELSE verdict
==============================================================================

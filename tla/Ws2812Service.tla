---------------------------- MODULE Ws2812Service ----------------------------
(***************************************************************************)
(* The LED chain of a controller node, Ws2812Service.cpp, driven by loop() *)
(* of FindIt_Controller_Node.ino: read the clock, let MQTT hand over at    *)
(* most one command, then tick the LEDs with the time read at the start.   *)
(*                                                                         *)
(* millis() is a 32-bit count that starts again from zero after 49.7 days. *)
(* Here it has Word values, and time may pass between any two steps of the *)
(* loop.  A command reads millis() up to three times, which is one read    *)
(* here: a tick of the model is no shorter than a command.                 *)
(***************************************************************************)
EXTENDS Routing

CONSTANTS Word,              \* millis() counts modulo Word
          MaxDuration,       \* MAX_LOCATE_DURATION_MS
          DefaultDuration,   \* DEFAULT_LOCATE_DURATION_MS
          TestDuration,      \* how long testAll lights the chain
          Blink,             \* half a period of the blink pattern
          MaxPass            \* bound: the longest pass of loop(), in ticks

ASSUME ClockAssumption ==
    /\ Word \in Nat /\ MaxDuration \in Nat /\ MaxPass \in Nat
    /\ 0 < MaxPass /\ MaxPass < Word /\ MaxDuration < Word
ASSUME DurationAssumption ==
    /\ DefaultDuration \in 1..MaxDuration
    /\ TestDuration \in 1..MaxDuration
    /\ Blink \in 1..(Word - 1)

VARIABLES
    clock,    \* millis()
    now,      \* the local variable of loop()
    pc,       \* how far the pass has come
    strip,    \* active_, expiresAt_, lastBlink_, blinkOn_, blinking_
    pixels,   \* the LEDs that are lit
    lag,      \* history: the time since now was read
    asked,    \* history: the last command that was obeyed
    age,      \* history: the time since it was
    nowAge,   \* history: its age when now was read, if it was older
    phase     \* history: the time since the blinking pixel was last switched

vars == <<clock, now, pc, strip, pixels, lag, asked, age, nowAge, phase>>
ghosts == <<lag, asked, age, nowAge, phase>>

-------------------------------------------------------------------------------
(* Types *)

NoLed   == -1
Instant == 0..(Word - 1)
Never   == -1

\* The histories stop counting where nothing depends on them any more.
OldAge   == MaxDuration + 2 * MaxPass
OldPhase == Blink

Strip == [active : Leds \cup {NoLed}, expiresAt : Instant, lastBlink : Instant,
          blinkOn : BOOLEAN, blinking : BOOLEAN]
Asked == [what : {"nothing", "locate", "test"}, led : Leds \cup {NoLed},
          at : Instant, ms : 0..MaxDuration]

Nothing == [what |-> "nothing", led |-> NoLed, at |-> 0, ms |-> 0]

\* Mutant: the sum is kept in a wider type.
LaterUnwrapped(t, d) == t + d

Later(t, d) == (t + d) % Word
Since(t)    == (now - t) % Word

\* No drawer is active, and the chain is dark from t on.  The blink clock is left
\* as it is.
Inactive(s, t) == [active |-> NoLed, expiresAt |-> t, lastBlink |-> s.lastBlink,
                   blinkOn |-> s.blinkOn, blinking |-> FALSE]
Cleared(s) == Inactive(s, 0)

Init ==
    /\ clock = 0 /\ now = 0 /\ pc = "top"
    /\ strip = [active |-> NoLed, expiresAt |-> 0, lastBlink |-> 0,
                blinkOn |-> TRUE, blinking |-> FALSE]
    /\ pixels = {}
    /\ lag = 0 /\ asked = Nothing /\ age = 0 /\ nowAge = Never /\ phase = Never

-------------------------------------------------------------------------------
(* Time *)

Count(n, cap) == IF n < cap THEN n + 1 ELSE n

Pass ==
    /\ lag < MaxPass
    /\ clock' = Later(clock, 1)
    /\ lag' = lag + 1
    /\ age' = Count(age, OldAge)
    /\ phase' = IF phase = Never THEN Never ELSE Count(phase, OldPhase)
    /\ UNCHANGED <<now, pc, strip, pixels, asked, nowAge>>

LoopBegins ==
    /\ pc = "top"
    /\ now' = clock
    /\ lag' = 0
    /\ nowAge' = age
    /\ pc' = "mqtt"
    /\ UNCHANGED <<clock, strip, pixels, asked, age, phase>>

-------------------------------------------------------------------------------
(* mqtt.tick: no command, or one                                            *)

NoCommand ==
    /\ pc = "mqtt"
    /\ pc' = "leds"
    /\ UNCHANGED <<clock, now, strip, pixels, ghosts>>

Obey(request) ==
    /\ pc = "mqtt"
    /\ pc' = "leds"
    /\ asked' = request
    /\ age' = 0 /\ nowAge' = Never
    /\ phase' = IF request.what = "locate" THEN 0 ELSE Never
    /\ UNCHANGED <<clock, now, lag>>

\* A duration that is zero or too long is replaced by the default one.
Bounded(ms) == IF ms = 0 \/ ms > MaxDuration THEN DefaultDuration ELSE ms

\* Mutant: the chain is not cleared before the pixel is set.
LocateWithoutClearing(led, ms, blink) ==
    /\ Obey([what |-> "locate", led |-> led, at |-> clock, ms |-> Bounded(ms)])
    /\ strip' = [active |-> led, expiresAt |-> Later(clock, Bounded(ms)),
                 lastBlink |-> clock, blinkOn |-> TRUE, blinking |-> blink]
    /\ pixels' = pixels \cup {led}

Locate(led, ms, blink) ==
    /\ Obey([what |-> "locate", led |-> led, at |-> clock, ms |-> Bounded(ms)])
    /\ strip' = [active |-> led, expiresAt |-> Later(clock, Bounded(ms)),
                 lastBlink |-> clock, blinkOn |-> TRUE, blinking |-> blink]
    /\ pixels' = {led}

TestAll ==
    /\ Obey([what |-> "test", led |-> NoLed, at |-> clock, ms |-> TestDuration])
    /\ strip' = Inactive(strip, Later(clock, TestDuration))
    /\ pixels' = Leds

Cancel ==
    /\ Obey(Nothing)
    /\ strip' = Cleared(strip)
    /\ pixels' = {}

-------------------------------------------------------------------------------
(* leds.tick *)

\* Mutant: the deadline of a test is left to the next command.
DueIfActive ==
    strip.active # NoLed /\ strip.expiresAt # 0 /\ now >= strip.expiresAt

\* Mutant: the deadline is compared with less than the whole duration.
DueOneEarly == strip.expiresAt # 0 /\ now + 1 >= strip.expiresAt

\* Zero stands for no deadline.
Due == strip.expiresAt # 0 /\ now >= strip.expiresAt

\* Mutant: instants are compared instead of their distance.
BlinkDueByInstant ==
    /\ strip.blinking /\ strip.active # NoLed
    /\ now >= Later(strip.lastBlink, Blink)

BlinkDue ==
    /\ strip.blinking /\ strip.active # NoLed
    /\ Since(strip.lastBlink) >= Blink

GoDark ==
    /\ pc = "leds" /\ Due
    /\ strip' = Cleared(strip)
    /\ pixels' = {}
    /\ pc' = "top"
    /\ phase' = Never
    /\ UNCHANGED <<clock, now, lag, asked, age, nowAge>>

Toggle ==
    /\ pc = "leds" /\ ~Due /\ BlinkDue
    /\ strip' = [strip EXCEPT !.lastBlink = now, !.blinkOn = ~@]
    /\ pixels' = IF strip.blinkOn THEN {} ELSE {strip.active}
    /\ pc' = "top"
    /\ phase' = 0
    /\ UNCHANGED <<clock, now, lag, asked, age, nowAge>>

Hold ==
    /\ pc = "leds" /\ ~Due /\ ~BlinkDue
    /\ pc' = "top"
    /\ UNCHANGED <<clock, now, strip, pixels, ghosts>>

-------------------------------------------------------------------------------
(* Specification *)

Command ==
    \/ \E led \in Leds, ms \in 0..(MaxDuration + 1), blink \in BOOLEAN :
           Locate(led, ms, blink)
    \/ TestAll
    \/ Cancel

Loop == LoopBegins \/ NoCommand \/ Command \/ GoDark \/ Toggle \/ Hold

Next == Pass \/ Loop

Spec == Init /\ [][Next]_vars

\* loop() is called again and again, and time passes.
FairSpec == Spec /\ WF_vars(Loop) /\ WF_vars(Pass)

-------------------------------------------------------------------------------
(* Properties *)

\* Every variable has its type.
TypeOK ==
    /\ clock \in Instant /\ now \in Instant
    /\ pc \in {"top", "mqtt", "leds"}
    /\ strip \in Strip
    /\ pixels \subseteq Leds
    /\ lag \in 0..MaxPass
    /\ asked \in Asked
    /\ age \in 0..OldAge
    /\ nowAge \in {Never} \cup 0..OldAge
    /\ phase \in {Never} \cup 0..OldPhase

\* "One controller shows one drawer": unless the chain is tested, whatever came
\* before and however it blinks, no other LED than the last one asked for is lit.
OneDrawerLit == asked.what # "test" => pixels \subseteq {asked.led}

\* The deadline and the passes before and after it lie in one period of the clock.
InOnePeriod ==
    /\ MaxPass <= asked.at
    /\ asked.at + asked.ms + MaxPass < Word

\* An LED stays on for as long as it was asked to, unless another command takes its
\* place.
LitUntilDue ==
    asked.what = "locate" /\ InOnePeriod /\ age < asked.ms =>
        /\ strip.active = asked.led
        /\ ~strip.blinking => pixels = {asked.led}

\* "The LED turns itself off when its duration expires": the first pass that begins
\* after the deadline leaves no pixel on, for locate as for test.
DarkWhenDue ==
    asked.what # "nothing" /\ InOnePeriod /\ pc = "top" /\ nowAge >= asked.ms =>
        pixels = {} /\ strip.active = NoLed

\* A phase of the blink pattern is never shorter than Blink by more than the pass that
\* began it was late (tick dates a toggle back to the start of its pass), and the pass that
\* ends it adds its own lateness; also while the clock wraps around.  Only the pass that
\* brings the command may end the first phase at once.
BlinksNoFaster ==
    [][pc = "leds" /\ strip'.blinkOn # strip.blinkOn /\ nowAge # Never =>
           phase + MaxPass >= Blink + lag]_vars

\* A deadline that some pass is bound to see: not the value that stands for none, nor so
\* close to the end of the period that every pass may begin before it or after the wrap.
InSight(deadline) == deadline # 0 /\ deadline <= Word - MaxPass

\* Ws2812Service.h: "the LED turns itself off when its duration expires, so a lost
\* cancel command cannot leave a drawer lit forever": once no more commands come, the
\* chain goes dark for good, unless its deadline is out of sight.
DarkAtLast ==
    <>[][~Command]_vars =>
        <>[](pixels = {} \/ (asked # Nothing /\ ~InSight(Later(asked.at, asked.ms))))
==============================================================================

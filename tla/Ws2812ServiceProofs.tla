------------------------- MODULE Ws2812ServiceProofs -------------------------
(***************************************************************************)
(* One drawer at a time, lit as long as asked and no longer: proved for    *)
(* every chain, clock width, duration and lateness of loop().              *)
(*                                                                         *)
(* The two timing results need to know where the time read at the start of *)
(* a pass lies with respect to the command (Timing), and that needs how    *)
(* far the clock has moved on since (Reading).  How early a blink can come *)
(* needs the same for the instant of the last toggle (Phases).             *)
(***************************************************************************)
EXTENDS Ws2812Service, TLAPS

Lit == strip.active # NoLed \/ pixels # {}

\* Between the reading of the clock and this instant it wrapped at most once.
Reading ==
    /\ now + lag = clock \/ now + lag = clock + Word
    /\ nowAge = Never => age <= lag
    /\ nowAge # Never => \/ age < OldAge /\ age = nowAge + lag
                         \/ age = OldAge /\ nowAge + lag >= OldAge /\ nowAge <= age

\* What the chain shows, by the last command.
Shows ==
    /\ asked.what = "nothing" => ~Lit
    /\ asked.what = "locate" => /\ asked.led \in Leds /\ asked.ms >= 1
                                /\ strip.active \in {NoLed, asked.led}
                                /\ pixels \subseteq {strip.active}
                                /\ strip.active # NoLed /\ ~strip.blinking =>
                                       pixels = {strip.active}
    /\ asked.what = "test" => /\ asked.ms >= 1
                              /\ strip.active = NoLed /\ ~strip.blinking

\* In one period of the clock instants can be compared: as long as the chain is lit
\* the deadline is still ahead, or this pass will see that it is not.
Timing ==
    asked.what # "nothing" /\ InOnePeriod =>
        /\ asked.what = "locate" /\ age < asked.ms => strip.active = asked.led
        /\ Lit => /\ strip.expiresAt = asked.at + asked.ms
                  /\ nowAge < asked.ms + MaxPass
                  /\ pc = "top" => nowAge < asked.ms
                  /\ nowAge < asked.ms => clock = asked.at + age /\ age < OldAge
                  /\ nowAge = Never => now + lag = asked.at + age
                  /\ nowAge # Never => now = asked.at + nowAge

\* The phase began d after the instant that lastBlink_ names; two periods of the clock are
\* the most that it can have wrapped since.  A pass after the one of the command began no
\* earlier than that instant.
BeganLate(d) ==
    /\ strip.lastBlink + phase + d \in {clock, clock + Word, clock + 2 * Word}
    /\ nowAge # Never => lag <= phase + d

\* As long as phase counts, it falls short of the time since lastBlink_ by one pass at most.
Phases ==
    /\ strip.blinking => phase # Never
    /\ phase # Never /\ phase < OldPhase => \E d \in 0..MaxPass : BeganLate(d)

IInv == TypeOK /\ Reading /\ Shows /\ Timing /\ Phases

-------------------------------------------------------------------------------
(* Arithmetic *)

\* The clock advances by one, or starts again.
LEMMA Wrap ==
    ASSUME NEW n \in Instant
    PROVE  Later(n, 1) = IF n + 1 < Word THEN n + 1 ELSE 0
  BY ClockAssumption, SMT DEF Instant, Later

\* Later and Since name instants.
LEMMA LaterInstant ==
    ASSUME NEW n \in Int, NEW d \in Int
    PROVE  (n + d) % Word \in Instant
  BY ClockAssumption, SMT DEF Instant

\* A sum that stays below Word is the instant itself.
LEMMA LaterPlain ==
    ASSUME NEW n \in Nat, NEW d \in Nat, n + d < Word
    PROVE  Later(n, d) = n + d
  BY ClockAssumption, SMT DEF Later

LEMMA BoundedDuration ==
    ASSUME NEW ms \in 0..(MaxDuration + 1)
    PROVE  Bounded(ms) \in 1..MaxDuration
  BY ClockAssumption, DurationAssumption, SMT DEF Bounded

LEMMA Constants ==
    /\ Word \in Nat /\ MaxDuration \in Nat /\ MaxPass \in Nat
    /\ 0 < MaxPass /\ MaxPass < Word /\ MaxDuration < Word
    /\ TestDuration \in 1..MaxDuration /\ Blink \in 1..(Word - 1)
    /\ NoLed \notin Leds /\ OldAge \in Nat /\ OldPhase \in Nat
    /\ OldAge = MaxDuration + 2 * MaxPass
  BY ClockAssumption, DurationAssumption, TopologyAssumption, SMT
     DEF Leds, NoLed, OldAge, OldPhase

LEMMA InactiveStrip ==
    ASSUME NEW s \in Strip
    PROVE  /\ \A t \in Instant : Inactive(s, t) \in Strip
           /\ Cleared(s) \in Strip
  <1>1. 0 \in Instant
    BY Constants, SMT DEF Instant
  <1>2. \A t \in Instant : Inactive(s, t) \in Strip
    BY DEF Inactive, Strip
  <1>. QED
    BY <1>1, <1>2 DEF Cleared

LEMMA NothingAsked == Nothing \in Asked
  <1>1. 0 \in Instant /\ 0 \in 0..MaxDuration
    BY Constants, SMT DEF Instant
  <1>. QED
    BY <1>1 DEF Nothing, Asked

-------------------------------------------------------------------------------
(* The invariant, conjunct by conjunct *)

LEMMA TypeStep == TypeOK /\ [Next]_vars => TypeOK'
  <1>. SUFFICES ASSUME TypeOK, [Next]_vars PROVE TypeOK'
    OBVIOUS
  <1>. USE DEF TypeOK
  <1>1. CASE Pass
    <2>1. clock' \in Instant
      BY <1>1, LaterInstant, Constants DEF Pass, Later, Instant
    <2>2. lag' \in 0..MaxPass /\ age' \in 0..OldAge
      BY <1>1, Constants, SMT DEF Pass, Count
    <2>3. phase' \in {Never} \cup 0..OldPhase
      BY <1>1, Constants, SMT DEF Pass, Count, Never
    <2>. QED
      BY <1>1, <2>1, <2>2, <2>3 DEF Pass
  <1>2. CASE LoopBegins
    BY <1>2, Constants DEF LoopBegins
  <1>3. CASE NoCommand
    BY <1>3 DEF NoCommand, ghosts
  <1>4. ASSUME NEW led \in Leds, NEW ms \in 0..(MaxDuration + 1), NEW blink \in BOOLEAN,
               Locate(led, ms, blink)
        PROVE  TypeOK'
    <2>1. Bounded(ms) \in 0..MaxDuration /\ Bounded(ms) \in Int
      BY BoundedDuration, Constants
    <2>2. Later(clock, Bounded(ms)) \in Instant
      BY <2>1, LaterInstant DEF Later, Instant
    <2>3. strip' \in Strip /\ asked' \in Asked
      BY <1>4, <2>1, <2>2 DEF Locate, Obey, Strip, Asked
    <2>. QED
      BY <1>4, <2>3, Constants DEF Locate, Obey
  <1>5. CASE TestAll
    <2>1. Later(clock, TestDuration) \in Instant
      BY LaterInstant, Constants DEF Later, Instant
    <2>2. strip' \in Strip
      BY <1>5, <2>1, InactiveStrip DEF TestAll
    <2>3. asked' \in Asked
      <3>1. TestDuration \in 0..MaxDuration
        BY Constants, SMT
      <3>. QED
        BY <1>5, <3>1 DEF TestAll, Obey, Asked
    <2>. QED
      BY <1>5, <2>2, <2>3, Constants DEF TestAll, Obey
  <1>6. CASE Cancel
    BY <1>6, InactiveStrip, NothingAsked, Constants DEF Cancel, Obey
  <1>7. CASE GoDark
    BY <1>7, InactiveStrip DEF GoDark
  <1>8. CASE Toggle
    <2>1. strip' \in Strip /\ pixels' \subseteq Leds
      BY <1>8 DEF Toggle, BlinkDue, Strip
    <2>2. phase' \in 0..OldPhase
      BY <1>8, Constants, SMT DEF Toggle
    <2>. QED
      BY <1>8, <2>1, <2>2 DEF Toggle
  <1>9. CASE Hold
    BY <1>9 DEF Hold, ghosts
  <1>10. CASE UNCHANGED vars
    BY <1>10 DEF vars
  <1>. QED
    BY <1>1, <1>2, <1>3, <1>4, <1>5, <1>6, <1>7, <1>8, <1>9, <1>10 DEF Next, Loop, Command

\* A command: what it leaves behind, whichever it is.
LEMMA ObeyStep ==
    ASSUME TypeOK, Reading, NEW request, Obey(request)
    PROVE  Reading'
  BY Constants, SMT DEF TypeOK, Reading, Obey, Never, Instant

LEMMA ReadingStep == TypeOK /\ Reading /\ [Next]_vars => Reading'
  <1>. SUFFICES ASSUME TypeOK, Reading, [Next]_vars PROVE Reading'
    OBVIOUS
  <1>1. CASE Pass
    <2>1. clock' = (IF clock + 1 < Word THEN clock + 1 ELSE 0)
      BY <1>1, Wrap DEF Pass, TypeOK
    <2>. QED
      BY <1>1, <2>1, Constants, SMT DEF TypeOK, Reading, Pass, Count, Never, Instant
  <1>2. CASE LoopBegins
    BY <1>2, Constants, SMT DEF TypeOK, Reading, LoopBegins, Never, Instant
  <1>3. CASE NoCommand
    BY <1>3 DEF Reading, NoCommand, ghosts
  <1>4. CASE Command
    BY <1>4, ObeyStep DEF Command, Locate, TestAll, Cancel
  <1>5. CASE GoDark \/ Toggle \/ Hold
    BY <1>5 DEF Reading, GoDark, Toggle, Hold, ghosts
  <1>6. CASE UNCHANGED vars
    BY <1>6 DEF Reading, vars
  <1>. QED
    BY <1>1, <1>2, <1>3, <1>4, <1>5, <1>6 DEF Next, Loop

\* What is shown after each command.
LEMMA LocateShows ==
    ASSUME TypeOK, NEW led \in Leds, NEW ms \in 0..(MaxDuration + 1), NEW blink \in BOOLEAN,
           Locate(led, ms, blink)
    PROVE  /\ asked'.what = "locate" /\ asked'.led = led /\ asked'.at = clock
           /\ asked'.ms = Bounded(ms)
           /\ strip'.active = led /\ pixels' = {led}
           /\ strip'.expiresAt = Later(clock, Bounded(ms)) /\ Lit'
  BY Constants DEF Locate, Obey, Lit

LEMMA TestShows ==
    ASSUME TypeOK, TestAll
    PROVE  /\ asked'.what = "test" /\ asked'.at = clock /\ asked'.ms = TestDuration
           /\ strip'.active = NoLed /\ ~strip'.blinking
           /\ strip'.expiresAt = Later(clock, TestDuration)
  BY DEF TestAll, Obey, Inactive

LEMMA CancelShows ==
    ASSUME Cancel \/ GoDark
    PROVE  /\ strip'.active = NoLed /\ ~strip'.blinking /\ pixels' = {} /\ ~Lit'
           /\ Cancel => asked'.what = "nothing"
           /\ GoDark => asked' = asked
  BY DEF Cancel, GoDark, Obey, Nothing, Cleared, Inactive, Lit

LEMMA ToggleShows ==
    ASSUME TypeOK, Toggle
    PROVE  /\ strip.active # NoLed /\ strip.blinking
           /\ strip'.active = strip.active /\ strip'.blinking
           /\ strip'.expiresAt = strip.expiresAt
           /\ pixels' \subseteq {strip.active} /\ Lit /\ Lit'
           /\ asked' = asked
  BY DEF TypeOK, Strip, Toggle, BlinkDue, Lit

LEMMA ShowsStep == TypeOK /\ Shows /\ [Next]_vars => Shows'
  <1>. SUFFICES ASSUME TypeOK, Shows, [Next]_vars PROVE Shows'
    OBVIOUS
  <1>1. CASE Pass \/ LoopBegins \/ NoCommand \/ Hold \/ UNCHANGED vars
    BY <1>1 DEF Shows, Lit, Pass, LoopBegins, NoCommand, Hold, ghosts, vars
  <1>2. ASSUME NEW led \in Leds, NEW ms \in 0..(MaxDuration + 1), NEW blink \in BOOLEAN,
               Locate(led, ms, blink)
        PROVE  Shows'
    <2>1. Bounded(ms) >= 1
      BY BoundedDuration, Constants, SMT
    <2>. QED
      BY <1>2, <2>1, LocateShows DEF Shows
  <1>3. CASE TestAll
    <2>1. TestDuration >= 1
      BY Constants, SMT
    <2>. QED
      BY <1>3, <2>1, TestShows DEF Shows
  <1>4. CASE Cancel
    BY <1>4, CancelShows DEF Shows
  <1>5. CASE GoDark
    <2>1. asked.what \in {"nothing", "locate", "test"}
      BY DEF TypeOK, Asked
    <2>. QED
      BY <1>5, CancelShows DEF Shows
  <1>6. CASE Toggle
    BY <1>6, ToggleShows DEF Shows
  <1>. QED
    BY <1>1, <1>2, <1>3, <1>4, <1>5, <1>6 DEF Next, Loop, Command

\* In one period the pass that lit an LED began before it did.
LEMMA RequestTiming ==
    ASSUME TypeOK, Reading, Reading', NEW ms \in 1..MaxDuration, asked'.at = clock,
           asked'.ms = ms, NEW request, Obey(request), InOnePeriod',
           strip'.expiresAt = Later(clock, ms)
    PROVE  /\ strip'.expiresAt = asked'.at + asked'.ms
           /\ nowAge' < asked'.ms + MaxPass /\ pc' # "top"
           /\ clock' = asked'.at + age' /\ age' < OldAge
           /\ nowAge' = Never /\ now' + lag' = asked'.at + age'
  <1>1. MaxPass <= clock /\ clock + ms + MaxPass < Word /\ ms \in Nat /\ clock \in Nat
    BY Constants, SMT DEF TypeOK, Instant, InOnePeriod
  <1>2. Later(clock, ms) = clock + ms
    BY <1>1, LaterPlain, Constants, SMT
  <1>3. now + lag = clock
    BY <1>1, Constants, SMT DEF TypeOK, Instant, Reading
  <1>. QED
    BY <1>1, <1>2, <1>3, Constants, SMT DEF Obey, Never, TypeOK, Instant

LEMMA AskedTypes ==
    ASSUME TypeOK
    PROVE  /\ asked.at \in Nat /\ asked.ms \in Nat /\ asked.ms <= MaxDuration
           /\ asked.what \in {"nothing", "locate", "test"}
           /\ clock \in Nat /\ clock < Word /\ now \in Nat /\ now < Word
           /\ lag \in Nat /\ lag <= MaxPass /\ age \in Nat /\ age <= OldAge
           /\ nowAge \in Int /\ (nowAge = Never \/ nowAge >= 0) /\ Never = -1
           /\ strip.expiresAt \in Nat
  <1>1. /\ asked.at \in Instant /\ asked.ms \in 0..MaxDuration
        /\ asked.what \in {"nothing", "locate", "test"}
        /\ strip.expiresAt \in Instant
    BY DEF TypeOK, Asked, Strip
  <1>. QED
    BY <1>1, Constants, SMT DEF TypeOK, Instant, Never

\* While the chain is lit in one period, the pass that finds the deadline reached is
\* the one that began after it.
LEMMA DueMeansLate ==
    ASSUME TypeOK, Reading, Shows, Timing, asked.what # "nothing", InOnePeriod, Lit
    PROVE  Due <=> nowAge >= asked.ms
  <1>1. /\ strip.expiresAt = asked.at + asked.ms
        /\ nowAge = Never => now + lag = asked.at + age
        /\ nowAge # Never => now = asked.at + nowAge
    BY DEF Timing
  <1>2. nowAge = Never => age <= lag
    BY DEF Reading
  <1>3. asked.at >= MaxPass /\ MaxPass >= 1
    BY Constants, AskedTypes, SMT DEF InOnePeriod
  <1>4. asked.ms >= 1
    BY AskedTypes DEF Shows
  <1>5. CASE nowAge = Never
    <2>1. now <= asked.at
      BY <1>1, <1>2, <1>5, AskedTypes, SMT
    <2>2. ~(nowAge >= asked.ms)
      BY <1>4, <1>5, AskedTypes, SMT
    <2>3. ~(now >= strip.expiresAt)
      BY <1>1, <1>4, <2>1, AskedTypes, SMT
    <2>. QED
      BY <2>2, <2>3 DEF Due
  <1>6. CASE nowAge # Never
    <2>1. now >= strip.expiresAt <=> nowAge >= asked.ms
      BY <1>1, <1>6, AskedTypes, SMT
    <2>2. strip.expiresAt # 0
      BY <1>1, <1>4, AskedTypes, SMT
    <2>. QED
      BY <2>1, <2>2 DEF Due
  <1>. QED
    BY <1>5, <1>6

LEMMA TimingStep == TypeOK /\ Reading /\ Shows /\ Timing /\ [Next]_vars => Timing'
  <1>. SUFFICES ASSUME TypeOK, Reading, Shows, Timing, [Next]_vars PROVE Timing'
    OBVIOUS
  <1>1. TypeOK' /\ Reading' /\ Shows'
    BY TypeStep, ReadingStep, ShowsStep
  <1>2. CASE Pass
    <2>1. clock' = (IF clock + 1 < Word THEN clock + 1 ELSE 0)
      BY <1>2, Wrap DEF Pass, TypeOK
    <2>. SUFFICES ASSUME asked.what # "nothing", InOnePeriod
                  PROVE  Timing'
      BY <1>2 DEF Timing, Pass, InOnePeriod
    <2>2. asked.at + asked.ms + MaxPass < Word
      BY DEF InOnePeriod
    <2>3. age' >= age /\ (age < OldAge => age' = age + 1) /\ lag' = lag + 1
      BY <1>2, AskedTypes, Constants, SMT DEF Pass, Count
    <2>4. asked.what = "locate" /\ age' < asked.ms => strip.active = asked.led
      BY <2>3, AskedTypes, <1>1, SMT DEF Timing, TypeOK
    <2>5. ASSUME Lit
          PROVE  /\ nowAge < asked.ms => clock' = asked.at + age' /\ age' < OldAge
                 /\ nowAge = Never => now + lag' = asked.at + age'
      <3>1. /\ nowAge < asked.ms => clock = asked.at + age /\ age < OldAge
            /\ nowAge = Never => now + lag = asked.at + age
        BY <2>5 DEF Timing
      <3>2. nowAge < asked.ms => age <= asked.ms + MaxPass - 1
        BY <1>2, AskedTypes, Constants, SMT DEF Reading, Pass
      <3>3. nowAge = Never => nowAge < asked.ms
        BY AskedTypes, SMT
      <3>. QED
        BY <2>1, <2>2, <2>3, <3>1, <3>2, <3>3, AskedTypes, Constants, SMT
    <2>. QED
      BY <1>2, <2>4, <2>5 DEF Timing, Pass, Lit
  <1>3. CASE LoopBegins
    <2>1. now' = clock /\ lag' = 0 /\ nowAge' = age
      BY <1>3 DEF LoopBegins
    <2>2. UNCHANGED <<clock, strip, pixels, asked, age>> /\ pc = "top" /\ pc' # "top"
      BY <1>3 DEF LoopBegins
    <2>. SUFFICES ASSUME asked.what # "nothing", InOnePeriod
                  PROVE  Timing'
      BY <2>2 DEF Timing, InOnePeriod
    <2>3. ASSUME Lit
          PROVE  /\ nowAge' < asked.ms + MaxPass
                 /\ now' = asked.at + nowAge' /\ nowAge' # Never
                 /\ clock = asked.at + age /\ age < OldAge
      <3>1. nowAge < asked.ms
        BY <2>3, <2>2 DEF Timing
      <3>2. clock = asked.at + age /\ age < OldAge
        BY <2>3, <3>1 DEF Timing
      <3>3. asked.ms >= 1
        BY AskedTypes DEF Shows
      <3>4. age < asked.ms + MaxPass
        BY <3>1, <3>3, AskedTypes, Constants, SMT DEF Reading
      <3>. QED
        BY <2>1, <3>2, <3>4, AskedTypes, SMT
    <2>. QED
      BY <2>1, <2>2, <2>3 DEF Timing, Lit
  <1>4. CASE NoCommand
    BY <1>4 DEF Timing, InOnePeriod, Lit, NoCommand, ghosts
  <1>5. ASSUME NEW led \in Leds, NEW ms \in 0..(MaxDuration + 1), NEW blink \in BOOLEAN,
               Locate(led, ms, blink)
        PROVE  Timing'
    <2>1. PICK request : Obey(request)
      BY <1>5 DEF Locate
    <2>2. Bounded(ms) \in 1..MaxDuration
      BY BoundedDuration
    <2>. QED
      BY <1>1, <1>5, <2>1, <2>2, RequestTiming, LocateShows DEF Timing
  <1>6. CASE TestAll
    <2>1. PICK request : Obey(request)
      BY <1>6 DEF TestAll
    <2>. QED
      BY <1>1, <1>6, <2>1, Constants, RequestTiming, TestShows DEF Timing
  <1>7. CASE Cancel
    BY <1>7, CancelShows DEF Timing
  <1>8. CASE GoDark
    <2>1. UNCHANGED <<now, lag, asked, age, nowAge>> /\ Due
      BY <1>8 DEF GoDark
    <2>. SUFFICES ASSUME asked.what = "locate", InOnePeriod, age < asked.ms PROVE FALSE
      BY <1>8, <2>1, CancelShows DEF Timing, InOnePeriod
    <2>2. strip.active = asked.led
      BY DEF Timing
    <2>3. Lit
      BY <2>2, Constants DEF Lit, Shows
    <2>4. nowAge >= asked.ms
      BY <2>1, <2>3, DueMeansLate
    <2>. QED
      BY <2>4, AskedTypes, SMT DEF Reading
  <1>9. CASE Toggle \/ Hold
    <2>1. /\ UNCHANGED <<clock, now, lag, asked, age, nowAge>>
          /\ strip'.active = strip.active /\ strip'.expiresAt = strip.expiresAt
          /\ ~Due /\ (Lit' => Lit)
      BY <1>9, ToggleShows DEF Toggle, Hold, ghosts, Lit
    <2>. SUFFICES ASSUME asked.what # "nothing", InOnePeriod
                  PROVE  Timing'
      BY <2>1 DEF Timing, InOnePeriod
    <2>2. Lit => nowAge < asked.ms
      BY <2>1, DueMeansLate, AskedTypes, SMT
    <2>. QED
      BY <2>1, <2>2 DEF Timing
  <1>10. CASE UNCHANGED vars
    BY <1>10 DEF vars, Timing, InOnePeriod, Lit
  <1>. QED
    BY <1>2, <1>3, <1>4, <1>5, <1>6, <1>7, <1>8, <1>9, <1>10 DEF Next, Loop, Command

LEMMA PhaseTypes ==
    ASSUME TypeOK
    PROVE  /\ phase \in Int /\ (phase # Never => phase >= 0) /\ phase <= OldPhase
           /\ strip.lastBlink \in Nat /\ strip.lastBlink < Word
           /\ OldPhase = Blink /\ Blink \in Nat /\ 0 < Blink /\ Blink < Word
  <1>1. strip.lastBlink \in Instant
    BY DEF TypeOK, Strip
  <1>. QED
    BY <1>1, Constants, SMT DEF TypeOK, Instant, Never, OldPhase

\* The remainder of a difference of two numbers below w, by its sign.
LEMMA LeastResidue ==
    ASSUME NEW w \in Nat \ {0}, NEW a \in Nat, NEW b \in Nat, a < w, b < w
    PROVE  (a - b) % w \in {a - b, a - b + w}
  <1>1. CASE a >= b
    BY <1>1, SMT
  <1>2. CASE a < b
    BY <1>2, SMT
  <1>. QED
    BY <1>1, <1>2, SMT

\* The distance of two instants is the least number that leads from one to the other.
LEMMA SinceLeast ==
    ASSUME TypeOK
    PROVE  /\ Since(strip.lastBlink) \in {now - strip.lastBlink, now - strip.lastBlink + Word}
           /\ 0 <= Since(strip.lastBlink) /\ Since(strip.lastBlink) < Word
  <1>. DEFINE last == strip.lastBlink
  <1>1. /\ now \in Nat /\ last \in Nat /\ Word \in Nat \ {0}
        /\ now < Word /\ last < Word
    BY AskedTypes, PhaseTypes, Constants, SMT
  <1>. HIDE DEF last
  <1>2. (now - last) % Word \in {now - last, now - last + Word}
    BY <1>1, LeastResidue
  <1>3. 0 <= (now - last) % Word /\ (now - last) % Word < Word
    <2>1. now - last \in Int
      BY <1>1, SMT
    <2>. QED
      BY <1>1, <2>1, SMT
  <1>. QED
    BY <1>2, <1>3 DEF Since, last

\* A pass of time leaves the beginning of the phase where it was.
LEMMA PassKeepsPhase ==
    ASSUME TypeOK, Pass, phase # Never, phase' < OldPhase,
           NEW d \in 0..MaxPass, BeganLate(d)
    PROVE  BeganLate(d)'
  <1>1. clock' = (IF clock + 1 < Word THEN clock + 1 ELSE 0)
    BY Wrap DEF Pass, TypeOK
  <1>2. /\ strip' = strip /\ lag' = lag + 1 /\ phase' = phase + 1 /\ nowAge' = nowAge
    BY PhaseTypes, Constants, SMT DEF Pass, Count
  <1>3. /\ strip.lastBlink + phase + d \in {clock, clock + Word, clock + 2 * Word}
        /\ nowAge # Never => lag <= phase + d
    BY DEF BeganLate
  <1>4. strip'.lastBlink + phase' + d \in {clock', clock' + Word, clock' + 2 * Word}
    BY <1>1, <1>2, <1>3, AskedTypes, PhaseTypes, Constants, SMT
  <1>5. nowAge' # Never => lag' <= phase' + d
    BY <1>2, <1>3, AskedTypes, PhaseTypes, Constants, SMT
  <1>. QED
    BY <1>4, <1>5 DEF BeganLate

LEMMA PhasesStep == TypeOK /\ Reading /\ Phases /\ [Next]_vars => Phases'
  <1>. SUFFICES ASSUME TypeOK, Reading, Phases, [Next]_vars
                PROVE  Phases'
    OBVIOUS
  <1>1. CASE Pass
    <2>1. strip' = strip /\ (phase' = Never <=> phase = Never)
      BY <1>1, PhaseTypes, Constants, SMT DEF Pass, Count, Never
    <2>2. phase' < OldPhase /\ phase # Never => phase < OldPhase
      BY <1>1, PhaseTypes, Constants, SMT DEF Pass, Count
    <2>. QED
      BY <1>1, <2>1, <2>2, PassKeepsPhase DEF Phases
  <1>2. CASE LoopBegins
    <2>1. strip' = strip /\ phase' = phase /\ lag' = 0 /\ clock' = clock
      BY <1>2 DEF LoopBegins
    <2>2. ASSUME phase # Never, NEW d \in 0..MaxPass, BeganLate(d) PROVE BeganLate(d)'
      <3>1. lag' <= phase + d
        BY <2>1, <2>2, PhaseTypes, Constants, SMT
      <3>. QED
        BY <2>1, <2>2, <3>1 DEF BeganLate
    <2>. QED
      BY <2>1, <2>2 DEF Phases
  <1>3. CASE NoCommand \/ Hold \/ UNCHANGED vars
    BY <1>3 DEF NoCommand, Hold, vars, ghosts, Phases, BeganLate
  <1>4. ASSUME NEW led \in Leds, NEW ms \in 0..(MaxDuration + 1), NEW blink \in BOOLEAN,
               Locate(led, ms, blink)
        PROVE  Phases'
    <2>1. /\ strip'.lastBlink = clock /\ phase' = 0 /\ clock' = clock /\ nowAge' = Never
      BY <1>4 DEF Locate, Obey
    <2>2. strip'.lastBlink + phase' + 0 = clock' /\ 0 \in 0..MaxPass /\ phase' # Never
      BY <2>1, AskedTypes, Constants, SMT DEF Never
    <2>3. BeganLate(0)'
      BY <2>1, <2>2 DEF BeganLate
    <2>. QED
      BY <2>2, <2>3 DEF Phases
  <1>5. CASE TestAll \/ Cancel \/ GoDark
    BY <1>5 DEF TestAll, Cancel, Obey, Nothing, GoDark, Cleared, Inactive, Phases
  <1>6. CASE Toggle
    <2>1. /\ strip'.lastBlink = now /\ phase' = 0 /\ lag' = lag /\ clock' = clock
      BY <1>6 DEF Toggle, TypeOK, Strip
    <2>2. lag \in 0..MaxPass
      BY DEF TypeOK
    <2>3. strip'.lastBlink + phase' + lag \in {clock', clock' + Word, clock' + 2 * Word}
      BY <2>1, AskedTypes, Constants, SMT DEF Reading
    <2>4. lag' <= phase' + lag /\ phase' # Never
      BY <2>1, AskedTypes, Constants, SMT DEF Never
    <2>5. ASSUME NEW d \in 0..MaxPass, d = lag PROVE BeganLate(d)'
      BY <2>3, <2>4, <2>5 DEF BeganLate
    <2>6. \E d \in 0..MaxPass : BeganLate(d)'
      BY <2>2, <2>5
    <2>. QED
      BY <2>4, <2>6 DEF Phases
  <1>. QED
    BY <1>1, <1>2, <1>3, <1>4, <1>5, <1>6 DEF Next, Loop, Command

LEMMA InitIInv == Init => IInv
  <1>. SUFFICES ASSUME Init PROVE IInv
    OBVIOUS
  <1>1. 0 \in Instant
    BY Constants, SMT DEF Instant
  <1>2. TypeOK
    <2>1. strip \in Strip
      BY <1>1 DEF Init, Strip
    <2>2. lag \in 0..MaxPass /\ age \in 0..OldAge
      BY Constants, SMT DEF Init
    <2>. QED
      BY <1>1, <2>1, <2>2, NothingAsked DEF Init, TypeOK
  <1>3. Reading
    BY Constants, SMT DEF Init, Reading, Never
  <1>. QED
    BY <1>2, <1>3 DEF Init, IInv, Shows, Timing, Phases, Nothing, Lit

-------------------------------------------------------------------------------
(* Theorems *)

\* The inductive invariant: types, what the time read is worth, what the chain shows
\* and where the deadline lies.
THEOREM Invariance == Spec => []IInv
  <1>1. IInv /\ [Next]_vars => IInv'
    BY TypeStep, ReadingStep, ShowsStep, TimingStep, PhasesStep DEF IInv
  <1>. QED
    BY InitIInv, <1>1, PTL DEF Spec

\* Every variable of the LED service keeps its type, the instants in the range of the
\* clock included.
THEOREM TypeCorrect == Spec => []TypeOK
  <1>1. IInv => TypeOK
    BY DEF IInv
  <1>. QED
    BY Invariance, <1>1, PTL

\* No other LED than the one last asked for is lit, unless the chain is tested: what
\* Locate, Cancel and the deadline clear, no blink sets again.
THEOREM OneDrawer == Spec => []OneDrawerLit
  <1>1. IInv => OneDrawerLit
    <2>. SUFFICES ASSUME IInv, asked.what # "test" PROVE pixels \subseteq {asked.led}
      BY DEF OneDrawerLit
    <2>1. asked.what \in {"nothing", "locate"}
      BY AskedTypes DEF IInv
    <2>2. CASE asked.what = "nothing"
      BY <2>2 DEF IInv, Shows, Lit
    <2>3. CASE asked.what = "locate"
      <3>1. pixels \subseteq Leds /\ NoLed \notin Leds
        BY Constants DEF IInv, TypeOK
      <3>. QED
        BY <2>3, <3>1 DEF IInv, Shows
    <2>. QED
      BY <2>1, <2>2, <2>3
  <1>. QED
    BY Invariance, <1>1, PTL

\* An LED stays on for as long as asked, however the passes of loop() lie: no tick
\* takes a deadline for reached that is not.
THEOREM StaysLit == Spec => []LitUntilDue
  <1>1. IInv => LitUntilDue
    BY Constants DEF IInv, Timing, Shows, LitUntilDue
  <1>. QED
    BY Invariance, <1>1, PTL

\* The first pass that begins after the deadline turns the chain off.
THEOREM GoesDark == Spec => []DarkWhenDue
  <1>1. IInv => DarkWhenDue
    <2>. SUFFICES ASSUME IInv, asked.what # "nothing", InOnePeriod, pc = "top",
                         nowAge >= asked.ms
                  PROVE  ~Lit
      BY DEF DarkWhenDue, Lit
    <2>1. Lit => nowAge < asked.ms
      BY DEF IInv, Timing
    <2>. QED
      BY <2>1, AskedTypes, SMT DEF IInv
  <1>. QED
    BY Invariance, <1>1, PTL

\* A phase of the blink pattern is shorter than it should be by no more than the pass that
\* began it was late, however the clock wraps; the pass of the command excepted.
THEOREM BlinksSlowly == Spec => BlinksNoFaster
  <1>. DEFINE Toggles == pc = "leds" /\ strip'.blinkOn # strip.blinkOn /\ nowAge # Never
              Slowly  == phase + MaxPass >= Blink + lag
  <1>1. IInv /\ [Next]_vars => [Toggles => Slowly]_vars
    <2>. SUFFICES ASSUME IInv, [Next]_vars, Toggles PROVE Slowly
      OBVIOUS
    <2>1. CASE Toggle
      <3>1. Since(strip.lastBlink) >= Blink /\ strip.blinking
        BY <2>1 DEF Toggle, BlinkDue
      <3>2. TypeOK /\ (now + lag = clock \/ now + lag = clock + Word) /\ phase # Never
        BY <3>1 DEF IInv, Reading, Phases
      <3>3. CASE phase < OldPhase
        <4>1. PICK d \in 0..MaxPass : BeganLate(d)
          BY <3>2, <3>3 DEF IInv, Phases
        <4>2. /\ strip.lastBlink + phase + d \in {clock, clock + Word, clock + 2 * Word}
              /\ lag <= phase + d
          BY <4>1 DEF BeganLate
        <4>3. phase + d >= Blink + lag
          BY <3>1, <3>2, <4>2, SinceLeast, AskedTypes, PhaseTypes, Constants, SMT
        <4>. QED
          BY <3>2, <4>3, AskedTypes, PhaseTypes, Constants, SMT
      <3>4. CASE ~(phase < OldPhase)
        BY <3>2, <3>4, AskedTypes, PhaseTypes, Constants, SMT
      <3>. QED
        BY <3>3, <3>4
    <2>2. CASE GoDark
      BY <2>2 DEF GoDark, Cleared, Inactive
    <2>3. CASE Pass \/ LoopBegins \/ NoCommand \/ Hold \/ UNCHANGED vars
      BY <2>3 DEF Pass, LoopBegins, NoCommand, Hold, vars
    <2>4. ~Command
      BY DEF Command, Locate, TestAll, Cancel, Obey
    <2>. QED
      BY <2>1, <2>2, <2>3, <2>4 DEF Next, Loop
  <1>. QED
    BY Invariance, <1>1, PTL DEF Spec, BlinksNoFaster
==============================================================================

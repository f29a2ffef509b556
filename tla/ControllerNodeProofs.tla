------------------------- MODULE ControllerNodeProofs -------------------------
(***************************************************************************)
(* What a node remembers, confirms and answers: proved for every number of *)
(* nodes and LEDs, every window, every set of commands and every way of    *)
(* cutting their ids.                                                      *)
(***************************************************************************)
EXTENDS ControllerNode, TLAPS

\* The command that a node is about to obey.
Applying(c, cid) == work[c] # NoWork /\ work[c].stage = "apply" /\ work[c].command.cid = cid

\* The slot that holds the name after which k others were remembered, when p is the next to be
\* written.
SlotOf(p, k) == IF k < p THEN p - 1 - k ELSE p - 1 - k + Window

\* The ring holds the newest names in order, the last one just before next.
RingInOrder ==
    \A c \in Controllers, n \in Names :
        newer[c][n] < Window => ids[c][SlotOf(next[c], newer[c][n])] = n

\* The ring holds nothing else: what a slot holds is counted, and belongs there.
RingIsCounted ==
    \A c \in Controllers, i \in Slots : ids[c][i] # NoName =>
        /\ newer[c][ids[c][i]] < Window
        /\ SlotOf(next[c], newer[c][ids[c][i]]) = i

\* What is counted has been received.
CountedIsSeen ==
    \A c \in Controllers, n \in Names : newer[c][n] < Window =>
        \E cid \in CommandIds : Cut[cid] = n /\ <<c, cid>> \in seen

\* What a node remembers it has obeyed, or is about to.
RememberedIsObeyed ==
    \A c \in Controllers, i \in Slots : ids[c][i] # NoName =>
        \E cid \in CommandIds : Cut[cid] = ids[c][i] /\ (<<c, cid>> \in obeyed \/ Applying(c, cid))

\* A command in onCommand is remembered, and obeyed once its LEDs were driven.
WorkIsRemembered ==
    \A c \in Controllers : work[c] # NoWork =>
        /\ newer[c][Cut[work[c].command.cid]] < Window
        /\ work[c].stage = "report" => <<c, work[c].command.cid>> \in obeyed

IInv == /\ TypeOK /\ RingInOrder /\ RingIsCounted /\ CountedIsSeen
        /\ RememberedIsObeyed /\ WorkIsRemembered /\ CompletedIsEarned

-------------------------------------------------------------------------------
(* Data *)

\* The index of the ring: one further, or back at the start.
LEMMA NextSlot ==
    ASSUME NEW i \in Slots
    PROVE  /\ (i + 1) % Window = IF i + 1 < Window THEN i + 1 ELSE 0
           /\ (i + 1) % Window \in Slots
  BY WindowAssumption, SMT DEF Slots

\* As the ring turns, a name stays in its slot, which is not the one written.
LEMMA SlotStays ==
    ASSUME NEW p \in Slots, NEW q \in Slots, q = IF p + 1 < Window THEN p + 1 ELSE 0
    PROVE  /\ SlotOf(q, 0) = p
           /\ \A k \in Nat : k + 1 < Window =>
                  SlotOf(q, k + 1) = SlotOf(p, k) /\ SlotOf(p, k) \in Slots \ {p}
  BY WindowAssumption, SMT DEF Slots, SlotOf

LEMMA WorkTypes ==
    ASSUME TypeOK, NEW c \in Controllers, work[c] # NoWork
    PROVE  /\ work[c] \in Work /\ work[c].stage \in {"apply", "report"}
           /\ work[c].command \in Command /\ work[c].command.cid \in CommandIds
           /\ work[c].command.led \in Leds /\ work[c].command.verdict \in Actions
           /\ Cut[work[c].command.cid] \in Names
  <1>1. work[c] \in Work
    BY DEF TypeOK
  <1>2. /\ work[c].command \in Command /\ work[c].command.verdict \in Actions
        /\ work[c].stage \in {"apply", "report"}
    BY <1>1 DEF Work
  <1>3. work[c].command.cid \in CommandIds /\ work[c].command.led \in Leds
    BY <1>2 DEF Command
  <1>. QED
    BY <1>1, <1>2, <1>3, NamesAssumption

LEMMA StageOfNoWork == NoWork.stage = "none"
  BY DEF NoWork

LEMMA WorkOf ==
    ASSUME NEW s \in {"apply", "report"}, NEW m \in Command, m.verdict \in Actions
    PROVE  /\ [stage |-> s, command |-> m] \in Work
           /\ [stage |-> s, command |-> m] # NoWork
           /\ [stage |-> s, command |-> m].stage = s
           /\ [stage |-> s, command |-> m].command = m
  <1>1. [stage |-> s, command |-> m].stage # NoWork.stage
    BY DEF NoWork
  <1>. QED
    BY <1>1 DEF Work

LEMMA CutOf ==
    ASSUME NEW m \in Command
    PROVE  /\ m.cid \in CommandIds /\ Cut[m.cid] \in Names /\ Cut[m.cid] # NoName
           /\ NameOf(m) \in Names \cup {NoName}
  BY NamesAssumption DEF Command, NameOf

LEMMA AckTypes ==
    ASSUME TypeOK, NEW c \in Controllers, NEW n \in Names \cup {NoName},
           NEW s \in {"received", "completed", "rejected"}, PublishAck(c, n, s)
    PROVE  acks' \subseteq NodeAck
  BY DEF TypeOK, PublishAck, NodeAck

-------------------------------------------------------------------------------
(* Types *)

LEMMA TypeStep == TypeOK /\ [Next]_vars => TypeOK'
  <1>. SUFFICES ASSUME TypeOK, [Next]_vars PROVE TypeOK'
    OBVIOUS
  <1>. USE DEF TypeOK
  <1>1. ASSUME NEW c \in Controllers, NEW m \in Command, Refuse(c, m) PROVE TypeOK'
    BY <1>1, CutOf, AckTypes DEF Refuse
  <1>2. ASSUME NEW c \in Controllers, NEW m \in Command, Repeat(c, m) PROVE TypeOK'
    BY <1>2, CutOf, AckTypes DEF Repeat
  <1>3. ASSUME NEW c \in Controllers, NEW m \in Command, Begin(c, m) PROVE TypeOK'
    <2>1. acks' \subseteq NodeAck
      BY <1>3, CutOf, AckTypes DEF Begin
    <2>2. work' \in [Controllers -> {NoWork} \cup Work]
      BY <1>3, WorkOf DEF Begin
    <2>3. next' \in [Controllers -> Slots]
      BY <1>3, NextSlot DEF Begin, Remember
    <2>4. ids' \in [Controllers -> [Slots -> Names \cup {NoName}]]
      BY <1>3, CutOf DEF Begin, Remember
    <2>5. newer' \in [Controllers -> [Names -> 0..Window]]
      <3>1. \A n \in Names :
                newer[c][n] \in 0..Window /\ (newer[c][n] < Window => newer[c][n] + 1 \in 0..Window)
        BY WindowAssumption, SMT
      <3>2. 0 \in 0..Window /\ Window \in 0..Window
        BY WindowAssumption, SMT
      <3>3. [n \in Names |-> IF n = Cut[m.cid] THEN 0
                             ELSE IF newer[c][n] < Window THEN newer[c][n] + 1 ELSE Window]
                \in [Names -> 0..Window]
        BY <3>1, <3>2
      <3>. QED
        BY <1>3, <3>3 DEF Begin, Newest
    <2>6. seen' \subseteq Controllers \X CommandIds
      BY <1>3, CutOf DEF Begin
    <2>. QED
      BY <1>3, <2>1, <2>2, <2>3, <2>4, <2>5, <2>6 DEF Begin
  <1>4. ASSUME NEW c \in Controllers, Apply(c) PROVE TypeOK'
    <2>1. work[c] # NoWork
      BY <1>4, StageOfNoWork DEF Apply
    <2>2. work[c].command.verdict \in {"locate", "cancel", "test"} /\ work[c].command.led \in Leds
      BY <2>1, WorkTypes DEF Actions
    <2>3. Shown(work[c].command) \subseteq Leds
      BY <2>2 DEF Shown
    <2>4. work' \in [Controllers -> {NoWork} \cup Work]
      BY <1>4, <2>1, WorkOf, WorkTypes DEF Apply
    <2>5. <<c, work[c].command.cid>> \in Controllers \X CommandIds
      BY <2>1, WorkTypes
    <2>. QED
      BY <1>4, <2>3, <2>4, <2>5 DEF Apply
  <1>5. ASSUME NEW c \in Controllers, Report(c) PROVE TypeOK'
    <2>1. work[c] # NoWork
      BY <1>5, StageOfNoWork DEF Report
    <2>2. acks' \subseteq NodeAck
      BY <1>5, <2>1, WorkTypes, AckTypes DEF Report
    <2>. QED
      BY <1>5, <2>2 DEF Report
  <1>6. ASSUME NEW c \in Controllers, LedsExpire(c) \/ Reconnect(c) \/ LinkDrops(c) PROVE TypeOK'
    BY <1>6 DEF LedsExpire, Reconnect, LinkDrops
  <1>7. ASSUME NEW c \in Controllers, Reset(c) PROVE TypeOK'
    <2>1. 0 \in Slots /\ Window \in 0..Window
      BY WindowAssumption, SMT DEF Slots
    <2>. QED
      BY <1>7, <2>1 DEF Reset
  <1>8. CASE UNCHANGED vars
    BY <1>8 DEF vars
  <1>. QED
    BY <1>1, <1>2, <1>3, <1>4, <1>5, <1>6, <1>7, <1>8 DEF Next, Own, OnCommand

-------------------------------------------------------------------------------
(* The ring *)

\* A new name goes to the slot that is the last one from then on; every other name
\* still counted is in another slot, and the same one as before.
LEMMA RingStep == TypeOK /\ RingInOrder /\ [Next]_vars => RingInOrder'
  <1>. SUFFICES ASSUME TypeOK, RingInOrder, [Next]_vars PROVE RingInOrder'
    OBVIOUS
  <1>1. ASSUME NEW d \in Controllers, NEW name \in Names, Remember(d, name), Newest(d, name)
        PROVE  RingInOrder'
    <2>. SUFFICES ASSUME NEW c \in Controllers, NEW n \in Names, newer'[c][n] < Window
                  PROVE  ids'[c][SlotOf(next'[c], newer'[c][n])] = n
      BY DEF RingInOrder
    <2>1. CASE c # d
      BY <1>1, <2>1 DEF TypeOK, RingInOrder, Remember, Newest, SlotOf
    <2>2. CASE c = d
      <3>1. next[c] \in Slots /\ ids[c] \in [Slots -> Names \cup {NoName}]
        BY DEF TypeOK
      <3>2. next'[c] = (next[c] + 1) % Window
        BY <1>1, <2>2 DEF TypeOK, Remember
      <3>3. next'[c] = IF next[c] + 1 < Window THEN next[c] + 1 ELSE 0
        BY <3>1, <3>2, NextSlot
      <3>4. ids'[c] = [ids[c] EXCEPT ![next[c]] = name]
        BY <1>1, <2>2 DEF TypeOK, Remember
      <3>5. newer'[c][n] = IF n = name THEN 0
                           ELSE IF newer[c][n] < Window THEN newer[c][n] + 1 ELSE Window
        BY <1>1, <2>2 DEF TypeOK, Newest
      <3>6. CASE n = name
        <4>1. SlotOf(next'[c], newer'[c][n]) = next[c]
          BY <3>1, <3>3, <3>5, <3>6, NextSlot, SlotStays
        <4>. QED
          BY <3>1, <3>4, <3>6, <4>1
      <3>7. CASE n # name
        <4>1. newer[c][n] \in 0..Window
          BY DEF TypeOK
        <4>2. /\ newer[c][n] \in Nat /\ newer[c][n] < Window
              /\ newer'[c][n] = newer[c][n] + 1 /\ newer[c][n] + 1 < Window
          BY <3>5, <3>7, <4>1, WindowAssumption, SMT
        <4>3. /\ SlotOf(next'[c], newer'[c][n]) = SlotOf(next[c], newer[c][n])
              /\ SlotOf(next[c], newer[c][n]) # next[c]
              /\ SlotOf(next[c], newer[c][n]) \in Slots
          BY <3>1, <3>3, <4>2, NextSlot, SlotStays
        <4>4. ids[c][SlotOf(next[c], newer[c][n])] = n
          BY <4>2 DEF RingInOrder
        <4>. QED
          BY <3>1, <3>4, <4>3, <4>4
      <3>. QED
        BY <3>6, <3>7
    <2>. QED
      BY <2>1, <2>2
  <1>2. ASSUME NEW c \in Controllers, NEW m \in Command, OnCommand(c, m)
        PROVE  RingInOrder'
    BY <1>1, <1>2, CutOf DEF OnCommand, Refuse, Repeat, Begin, RingInOrder, SlotOf
  <1>3. ASSUME NEW d \in Controllers, Reset(d) PROVE RingInOrder'
    <2>. SUFFICES ASSUME NEW c \in Controllers, NEW n \in Names, newer'[c][n] < Window
                  PROVE  ids'[c][SlotOf(next'[c], newer'[c][n])] = n
      BY DEF RingInOrder
    <2>1. c # d
      BY <1>3, WindowAssumption, SMT DEF TypeOK, Reset
    <2>. QED
      BY <1>3, <2>1 DEF TypeOK, RingInOrder, Reset, SlotOf
  <1>4. ASSUME NEW c \in Controllers,
               Apply(c) \/ Report(c) \/ LedsExpire(c) \/ Reconnect(c) \/ LinkDrops(c)
        PROVE  RingInOrder'
    BY <1>4 DEF Apply, Report, LedsExpire, Reconnect, LinkDrops, RingInOrder, SlotOf
  <1>5. CASE UNCHANGED vars
    BY <1>5 DEF vars, RingInOrder, SlotOf
  <1>. QED
    BY <1>2, <1>3, <1>4, <1>5 DEF Next, Own

\* The name in the slot that is written next is the oldest one; every other grows older
\* and stays where it is.
LEMMA CountedStep == TypeOK /\ RingIsCounted /\ [Next]_vars => RingIsCounted'
  <1>. SUFFICES ASSUME TypeOK, RingIsCounted, [Next]_vars PROVE RingIsCounted'
    OBVIOUS
  <1>1. ASSUME NEW d \in Controllers, NEW name \in Names, name # NoName,
               ~Contains(d, name), Remember(d, name), Newest(d, name)
        PROVE  RingIsCounted'
    <2>. SUFFICES ASSUME NEW c \in Controllers, NEW i \in Slots, ids'[c][i] # NoName
                  PROVE  /\ newer'[c][ids'[c][i]] < Window
                         /\ SlotOf(next'[c], newer'[c][ids'[c][i]]) = i
      BY DEF RingIsCounted
    <2>1. CASE c # d
      BY <1>1, <2>1 DEF TypeOK, RingIsCounted, Remember, Newest, SlotOf
    <2>2. CASE c = d
      <3>1. next[c] \in Slots /\ ids[c] \in [Slots -> Names \cup {NoName}]
        BY DEF TypeOK
      <3>2. next'[c] = (next[c] + 1) % Window
        BY <1>1, <2>2 DEF TypeOK, Remember
      <3>3. next'[c] = IF next[c] + 1 < Window THEN next[c] + 1 ELSE 0
        BY <3>1, <3>2, NextSlot
      <3>4. ids'[c] = [ids[c] EXCEPT ![next[c]] = name]
        BY <1>1, <2>2 DEF TypeOK, Remember
      <3>5. \A n \in Names :
                newer'[c][n] = IF n = name THEN 0
                               ELSE IF newer[c][n] < Window THEN newer[c][n] + 1 ELSE Window
        BY <1>1, <2>2 DEF TypeOK, Newest
      <3>6. CASE i = next[c]
        <4>1. ids'[c][i] = name /\ newer'[c][name] = 0
          BY <3>1, <3>4, <3>5, <3>6
        <4>2. SlotOf(next'[c], 0) = next[c]
          BY <3>1, <3>3, NextSlot, SlotStays
        <4>. QED
          BY <3>6, <4>1, <4>2, WindowAssumption, SMT
      <3>7. CASE i # next[c]
        <4>. DEFINE n == ids[c][i]
        <4>1. ids'[c][i] = n
          BY <3>1, <3>4, <3>7
        <4>2. n \in Names /\ n # NoName /\ n # name
          BY <1>1, <2>2, <3>1, <4>1 DEF Contains
        <4>3. newer[c][n] < Window /\ SlotOf(next[c], newer[c][n]) = i
          BY <4>2 DEF RingIsCounted
        <4>4. newer[c][n] \in 0..Window
          BY <4>2 DEF TypeOK
        <4>5. newer'[c][n] = newer[c][n] + 1
          BY <3>5, <4>2, <4>3
        <4>. HIDE DEF n
        <4>6. newer[c][n] + 1 < Window /\ newer[c][n] \in Nat
          BY <3>1, <3>7, <4>3, <4>4, WindowAssumption, SMT DEF Slots, SlotOf
        <4>7. SlotOf(next'[c], newer[c][n] + 1) = SlotOf(next[c], newer[c][n])
          BY <3>1, <3>3, <4>6, NextSlot, SlotStays
        <4>. QED
          BY <4>1, <4>3, <4>5, <4>6, <4>7
      <3>. QED
        BY <3>6, <3>7
    <2>. QED
      BY <2>1, <2>2
  <1>2. ASSUME NEW c \in Controllers, NEW m \in Command, Begin(c, m)
        PROVE  RingIsCounted'
    BY <1>1, <1>2, CutOf DEF Begin
  <1>3. ASSUME NEW d \in Controllers, Reset(d) PROVE RingIsCounted'
    <2>. SUFFICES ASSUME NEW c \in Controllers, NEW i \in Slots, ids'[c][i] # NoName
                  PROVE  /\ newer'[c][ids'[c][i]] < Window
                         /\ SlotOf(next'[c], newer'[c][ids'[c][i]]) = i
      BY DEF RingIsCounted
    <2>1. c # d
      BY <1>3 DEF TypeOK, Reset
    <2>. QED
      BY <1>3, <2>1 DEF TypeOK, RingIsCounted, Reset, SlotOf
  <1>4. ASSUME NEW c \in Controllers, NEW m \in Command, Refuse(c, m) \/ Repeat(c, m)
        PROVE  RingIsCounted'
    BY <1>4 DEF Refuse, Repeat, RingIsCounted, SlotOf
  <1>5. ASSUME NEW c \in Controllers,
               Apply(c) \/ Report(c) \/ LedsExpire(c) \/ Reconnect(c) \/ LinkDrops(c)
        PROVE  RingIsCounted'
    BY <1>5 DEF Apply, Report, LedsExpire, Reconnect, LinkDrops, RingIsCounted, SlotOf
  <1>6. CASE UNCHANGED vars
    BY <1>6 DEF vars, RingIsCounted, SlotOf
  <1>. QED
    BY <1>2, <1>3, <1>4, <1>5, <1>6 DEF Next, Own, OnCommand

LEMMA SeenStep == TypeOK /\ CountedIsSeen /\ [Next]_vars => CountedIsSeen'
  <1>. SUFFICES ASSUME TypeOK, CountedIsSeen, [Next]_vars PROVE CountedIsSeen'
    OBVIOUS
  <1>1. ASSUME NEW d \in Controllers, NEW m \in Command, Begin(d, m)
        PROVE  CountedIsSeen'
    <2>. SUFFICES ASSUME NEW c \in Controllers, NEW n \in Names, newer'[c][n] < Window
                  PROVE  \E cid \in CommandIds : Cut[cid] = n /\ <<c, cid>> \in seen'
      BY DEF CountedIsSeen
    <2>1. <<d, m.cid>> \in seen' /\ seen \subseteq seen' /\ m.cid \in CommandIds
      BY <1>1, CutOf DEF Begin
    <2>2. CASE c = d /\ n = Cut[m.cid]
      BY <2>1, <2>2
    <2>3. CASE ~(c = d /\ n = Cut[m.cid])
      <3>1. newer[c][n] < Window
        BY <1>1, <2>3, WindowAssumption DEF TypeOK, Begin, Newest
      <3>. QED
        BY <2>1, <3>1 DEF CountedIsSeen
    <2>. QED
      BY <2>2, <2>3
  <1>2. ASSUME NEW d \in Controllers, Reset(d) PROVE CountedIsSeen'
    <2>. SUFFICES ASSUME NEW c \in Controllers, NEW n \in Names, newer'[c][n] < Window
                  PROVE  \E cid \in CommandIds : Cut[cid] = n /\ <<c, cid>> \in seen'
      BY DEF CountedIsSeen
    <2>1. c # d
      BY <1>2, WindowAssumption, SMT DEF TypeOK, Reset
    <2>. QED
      BY <1>2, <2>1 DEF TypeOK, CountedIsSeen, Reset
  <1>3. ASSUME NEW d \in Controllers, NEW m \in Command, Refuse(d, m) \/ Repeat(d, m)
        PROVE  CountedIsSeen'
    <2>1. newer' = newer /\ seen \subseteq seen'
      BY <1>3 DEF Refuse, Repeat
    <2>. QED
      BY <2>1 DEF CountedIsSeen
  <1>4. ASSUME NEW d \in Controllers,
               Apply(d) \/ Report(d) \/ LedsExpire(d) \/ Reconnect(d) \/ LinkDrops(d)
        PROVE  CountedIsSeen'
    BY <1>4 DEF Apply, Report, LedsExpire, Reconnect, LinkDrops, CountedIsSeen
  <1>5. CASE UNCHANGED vars
    BY <1>5 DEF vars, CountedIsSeen
  <1>. QED
    BY <1>1, <1>2, <1>3, <1>4, <1>5 DEF Next, Own, OnCommand

-------------------------------------------------------------------------------
(* What is remembered, at work and confirmed *)

\* A command that was taken for a repetition was obeyed under this name.
LEMMA RepetitionWasObeyed ==
    ASSUME RememberedIsObeyed, NEW c \in Controllers, NEW name \in Names,
           work[c] = NoWork, Contains(c, name)
    PROVE  \E cid \in CommandIds : Cut[cid] = name /\ <<c, cid>> \in obeyed
  <1>1. PICK i \in Slots : ids[c][i] = name
    BY DEF Contains
  <1>2. name # NoName
    BY NamesAssumption
  <1>. QED
    BY <1>1, <1>2 DEF RememberedIsObeyed, Applying

LEMMA RememberedStep ==
    TypeOK /\ RememberedIsObeyed /\ [Next]_vars => RememberedIsObeyed'
  <1>. SUFFICES ASSUME TypeOK, RememberedIsObeyed, [Next]_vars PROVE RememberedIsObeyed'
    OBVIOUS
  <1>1. ASSUME NEW d \in Controllers, NEW m \in Command, Begin(d, m)
        PROVE  RememberedIsObeyed'
    <2>. SUFFICES ASSUME NEW c \in Controllers, NEW i \in Slots, ids'[c][i] # NoName
                  PROVE  \E cid \in CommandIds : /\ Cut[cid] = ids'[c][i]
                                                 /\ <<c, cid>> \in obeyed' \/ Applying(c, cid)'
      BY DEF RememberedIsObeyed
    <2>1. work[d] = NoWork /\ m.verdict \in Actions
      BY <1>1 DEF Begin, MayReceive
    <2>2. Applying(d, m.cid)'
      BY <1>1, <2>1, WorkOf DEF Begin, TypeOK, Applying
    <2>3. \A cid : Applying(c, cid) => c # d /\ Applying(c, cid)'
      BY <1>1, <2>1 DEF Begin, TypeOK, Applying
    <2>4. CASE c = d /\ i = next[d]
      BY <1>1, <2>2, <2>4, CutOf DEF Begin, Remember, TypeOK
    <2>5. CASE ~(c = d /\ i = next[d])
      <3>1. ids'[c][i] = ids[c][i]
        BY <1>1, <2>5 DEF Begin, Remember, TypeOK
      <3>. QED
        BY <1>1, <2>3, <3>1 DEF Begin, RememberedIsObeyed
    <2>. QED
      BY <2>4, <2>5
  <1>2. ASSUME NEW d \in Controllers, Apply(d) PROVE RememberedIsObeyed'
    <2>1. \A c \in Controllers, cid \in CommandIds :
              Applying(c, cid) => <<c, cid>> \in obeyed' \/ Applying(c, cid)'
      BY <1>2 DEF Apply, TypeOK, Applying
    <2>2. obeyed \subseteq obeyed' /\ ids' = ids
      BY <1>2 DEF Apply
    <2>. QED
      BY <2>1, <2>2 DEF RememberedIsObeyed
  <1>3. ASSUME NEW d \in Controllers, Report(d) PROVE RememberedIsObeyed'
    <2>1. \A c \in Controllers, cid \in CommandIds : Applying(c, cid) => Applying(c, cid)'
      BY <1>3 DEF Report, TypeOK, Applying
    <2>. QED
      BY <1>3, <2>1 DEF Report, RememberedIsObeyed
  <1>4. ASSUME NEW d \in Controllers, Reset(d) PROVE RememberedIsObeyed'
    <2>. SUFFICES ASSUME NEW c \in Controllers, NEW i \in Slots, ids'[c][i] # NoName
                  PROVE  \E cid \in CommandIds : /\ Cut[cid] = ids'[c][i]
                                                 /\ <<c, cid>> \in obeyed' \/ Applying(c, cid)'
      BY DEF RememberedIsObeyed
    <2>1. c # d /\ ids'[c] = ids[c] /\ work'[c] = work[c] /\ obeyed' = obeyed
      BY <1>4 DEF Reset, TypeOK
    <2>. QED
      BY <2>1 DEF RememberedIsObeyed, Applying
  <1>5. ASSUME NEW d \in Controllers, NEW m \in Command,
               Refuse(d, m) \/ Repeat(d, m)
        PROVE  RememberedIsObeyed'
    BY <1>5 DEF Refuse, Repeat, RememberedIsObeyed, Applying
  <1>6. ASSUME NEW d \in Controllers, LedsExpire(d) \/ Reconnect(d) \/ LinkDrops(d)
        PROVE  RememberedIsObeyed'
    BY <1>6 DEF LedsExpire, Reconnect, LinkDrops, RememberedIsObeyed, Applying
  <1>7. CASE UNCHANGED vars
    BY <1>7 DEF vars, RememberedIsObeyed, Applying
  <1>. QED
    BY <1>1, <1>2, <1>3, <1>4, <1>5, <1>6, <1>7 DEF Next, Own, OnCommand

LEMMA WorkStep == TypeOK /\ WorkIsRemembered /\ [Next]_vars => WorkIsRemembered'
  <1>. SUFFICES ASSUME TypeOK, WorkIsRemembered, [Next]_vars PROVE WorkIsRemembered'
    OBVIOUS
  <1>1. ASSUME NEW d \in Controllers, NEW m \in Command, Begin(d, m)
        PROVE  WorkIsRemembered'
    <2>. SUFFICES ASSUME NEW c \in Controllers, work'[c] # NoWork
                  PROVE  /\ newer'[c][Cut[work'[c].command.cid]] < Window
                         /\ work'[c].stage = "report" =>
                                <<c, work'[c].command.cid>> \in obeyed'
      BY DEF WorkIsRemembered
    <2>1. CASE c = d
      <3>1. work'[c].stage = "apply" /\ work'[c].command = m
        BY <1>1, <2>1, WorkOf DEF Begin, TypeOK
      <3>2. newer'[c][Cut[m.cid]] = 0
        BY <1>1, <2>1, CutOf DEF Begin, Newest, TypeOK
      <3>. QED
        BY <3>1, <3>2, WindowAssumption, SMT
    <2>2. CASE c # d
      BY <1>1, <2>2 DEF Begin, Newest, TypeOK, WorkIsRemembered
    <2>. QED
      BY <2>1, <2>2
  <1>2. ASSUME NEW d \in Controllers, Apply(d) PROVE WorkIsRemembered'
    <2>1. work[d] # NoWork
      BY <1>2, StageOfNoWork DEF Apply
    <2>2. /\ work'[d].command = work[d].command
          /\ <<d, work[d].command.cid>> \in obeyed' /\ obeyed \subseteq obeyed'
          /\ \A c \in Controllers : c # d => work'[c] = work[c]
      BY <1>2 DEF Apply, TypeOK
    <2>. QED
      BY <1>2, <2>1, <2>2 DEF Apply, WorkIsRemembered
  <1>3. ASSUME NEW d \in Controllers, Report(d) PROVE WorkIsRemembered'
    BY <1>3 DEF Report, TypeOK, WorkIsRemembered
  <1>4. ASSUME NEW d \in Controllers, Reset(d) PROVE WorkIsRemembered'
    BY <1>4 DEF Reset, TypeOK, WorkIsRemembered
  <1>5. ASSUME NEW d \in Controllers, NEW m \in Command, Refuse(d, m) \/ Repeat(d, m)
        PROVE  WorkIsRemembered'
    BY <1>5 DEF Refuse, Repeat, WorkIsRemembered
  <1>6. ASSUME NEW d \in Controllers, LedsExpire(d) \/ Reconnect(d) \/ LinkDrops(d)
        PROVE  WorkIsRemembered'
    BY <1>6 DEF LedsExpire, Reconnect, LinkDrops, WorkIsRemembered
  <1>7. CASE UNCHANGED vars
    BY <1>7 DEF vars, WorkIsRemembered
  <1>. QED
    BY <1>1, <1>2, <1>3, <1>4, <1>5, <1>6, <1>7 DEF Next, Own, OnCommand

LEMMA EarnedStep ==
    TypeOK /\ RememberedIsObeyed /\ WorkIsRemembered /\ CompletedIsEarned /\ [Next]_vars =>
        CompletedIsEarned'
  <1>. SUFFICES ASSUME TypeOK, RememberedIsObeyed, WorkIsRemembered, CompletedIsEarned,
                       [Next]_vars
                PROVE  CompletedIsEarned'
    OBVIOUS
  <1>1. ASSUME NEW d \in Controllers, NEW m \in Command, Refuse(d, m) \/ Begin(d, m)
        PROVE  CompletedIsEarned'
    BY <1>1 DEF Refuse, Begin, PublishAck, CompletedIsEarned
  <1>2. ASSUME NEW d \in Controllers, NEW m \in Command, Repeat(d, m)
        PROVE  CompletedIsEarned'
    <2>1. \E cid \in CommandIds : Cut[cid] = Cut[m.cid] /\ <<d, cid>> \in obeyed
      BY <1>2, CutOf, RepetitionWasObeyed DEF Repeat, MayReceive
    <2>. QED
      BY <1>2, <2>1 DEF Repeat, PublishAck, CompletedIsEarned
  <1>3. ASSUME NEW d \in Controllers, Report(d) PROVE CompletedIsEarned'
    <2>1. work[d] # NoWork
      BY <1>3, StageOfNoWork DEF Report
    <2>2. <<d, work[d].command.cid>> \in obeyed /\ work[d].command.cid \in CommandIds
      BY <1>3, <2>1, WorkTypes DEF Report, WorkIsRemembered
    <2>. QED
      BY <1>3, <2>2 DEF Report, PublishAck, CompletedIsEarned
  <1>4. ASSUME NEW d \in Controllers, Apply(d) PROVE CompletedIsEarned'
    <2>1. obeyed \subseteq obeyed' /\ acks' = acks
      BY <1>4 DEF Apply
    <2>. QED
      BY <2>1 DEF CompletedIsEarned
  <1>5. ASSUME NEW d \in Controllers,
               LedsExpire(d) \/ Reconnect(d) \/ LinkDrops(d) \/ Reset(d)
        PROVE  CompletedIsEarned'
    BY <1>5 DEF LedsExpire, Reconnect, LinkDrops, Reset, CompletedIsEarned
  <1>6. CASE UNCHANGED vars
    BY <1>6 DEF vars, CompletedIsEarned
  <1>. QED
    BY <1>1, <1>2, <1>3, <1>4, <1>5, <1>6 DEF Next, Own, OnCommand

LEMMA InitIInv == Init => IInv
  <1>. SUFFICES ASSUME Init PROVE IInv
    OBVIOUS
  <1>1. 0 \in Slots /\ Window \in 0..Window /\ ~(Window < Window)
    BY WindowAssumption, SMT DEF Slots
  <1>2. TypeOK
    BY <1>1 DEF Init, TypeOK
  <1>3. RingInOrder /\ RingIsCounted /\ CountedIsSeen /\ RememberedIsObeyed /\ WorkIsRemembered
    BY <1>1 DEF Init, RingInOrder, RingIsCounted, CountedIsSeen, RememberedIsObeyed,
                WorkIsRemembered
  <1>. QED
    BY <1>2, <1>3 DEF Init, IInv, CompletedIsEarned

-------------------------------------------------------------------------------
(* Theorems *)

\* The inductive invariant: the ring in order and holding nothing else, what it holds
\* received, and obeyed or at work, and what was confirmed earned.
THEOREM Invariance == Spec => []IInv
  <1>1. IInv /\ [Next]_vars => IInv'
    BY TypeStep, RingStep, CountedStep, SeenStep, RememberedStep, WorkStep, EarnedStep DEF IInv
  <1>2. Init => IInv
    BY InitIInv
  <1>. QED
    BY <1>1, <1>2, PTL DEF Spec

\* The index of the ring stays within the window, and every other variable in its type.
THEOREM TypeCorrect == Spec => []TypeOK
  <1>1. IInv => TypeOK
    BY DEF IInv
  <1>. QED
    BY Invariance, <1>1, PTL

\* A command is forgotten only after Window others, whatever the node receives and
\* however often it is reset.
THEOREM WindowHolds == Spec => []RemembersWindow
  <1>1. IInv => RemembersWindow
    <2>. SUFFICES ASSUME IInv, NEW c \in Controllers, NEW n \in Names, newer[c][n] < Window
                  PROVE  Contains(c, n)
      BY DEF RemembersWindow
    <2>1. ids[c][SlotOf(next[c], newer[c][n])] = n
      BY DEF IInv, RingInOrder
    <2>2. next[c] \in Slots /\ newer[c][n] \in 0..Window
      BY DEF IInv, TypeOK
    <2>3. SlotOf(next[c], newer[c][n]) \in Slots
      BY <2>2, WindowAssumption, SMT DEF Slots, SlotOf
    <2>. QED
      BY <2>1, <2>3 DEF Contains
  <1>. QED
    BY Invariance, <1>1, PTL

\* "completed" is published only for a command that drove the LEDs, or for one that a
\* node cannot tell from it.
THEOREM CompletedMeansDone == Spec => []CompletedIsEarned
  <1>1. IInv => CompletedIsEarned
    BY DEF IInv
  <1>. QED
    BY Invariance, <1>1, PTL

\* A message is refused for the first check that fails.
LEMMA FirstFailing ==
    ASSUME NEW checks, DOMAIN checks = 1..6, NEW action, NEW i \in 1..6,
           ~checks[i].passed, \A j \in 1..6 : j < i => checks[j].passed
    PROVE  Judge(checks, action) = checks[i].refusal
  <1>. DEFINE failing == {j \in 1..6 : ~checks[j].passed}
              First(k) == k \in failing /\ \A j \in failing : k <= j
  <1>1. i \in failing
    OBVIOUS
  <1>2. \A j \in failing : i <= j
    OBVIOUS
  <1>3. \A k : First(k) => k = i
    <2>. SUFFICES ASSUME NEW k, First(k) PROVE k = i
      OBVIOUS
    <2>1. k \in 1..6 /\ k <= i /\ i <= k
      BY <1>1, <1>2
    <2>. QED
      BY <2>1
  <1>4. (CHOOSE k \in failing : \A j \in failing : k <= j) = i
    BY <1>1, <1>2, <1>3, Zenon
  <1>. QED
    BY <1>1, <1>4, Zenon DEF Judge

LEMMA NoneFailing ==
    ASSUME NEW checks, DOMAIN checks = 1..6, NEW action, \A j \in 1..6 : checks[j].passed
    PROVE  Judge(checks, action) = action
  BY DEF Judge

LEMMA JudgeLadder ==
    ASSUME NEW checks, DOMAIN checks = 1..6, NEW action
    PROVE  Judge(checks, action) =
               IF ~checks[1].passed THEN checks[1].refusal
               ELSE IF ~checks[2].passed THEN checks[2].refusal
               ELSE IF ~checks[3].passed THEN checks[3].refusal
               ELSE IF ~checks[4].passed THEN checks[4].refusal
               ELSE IF ~checks[5].passed THEN checks[5].refusal
               ELSE IF ~checks[6].passed THEN checks[6].refusal
               ELSE action
  <1>1. CASE \A j \in 1..6 : checks[j].passed
    BY <1>1, NoneFailing
  <1>2. CASE ~checks[1].passed
    BY <1>2, FirstFailing
  <1>3. CASE checks[1].passed /\ ~checks[2].passed
    <2>1. \A j \in 1..6 : j < 2 => j = 1
      OBVIOUS
    <2>2. Judge(checks, action) = checks[2].refusal
      BY <1>3, <2>1, FirstFailing
    <2>. QED
      BY <1>3, <2>2
  <1>4. CASE checks[1].passed /\ checks[2].passed /\ ~checks[3].passed
    <2>1. \A j \in 1..6 : j < 3 => j = 1 \/ j = 2
      OBVIOUS
    <2>2. Judge(checks, action) = checks[3].refusal
      BY <1>4, <2>1, FirstFailing
    <2>. QED
      BY <1>4, <2>2
  <1>5. CASE /\ checks[1].passed /\ checks[2].passed /\ checks[3].passed
             /\ ~checks[4].passed
    <2>1. \A j \in 1..6 : j < 4 => j = 1 \/ j = 2 \/ j = 3
      OBVIOUS
    <2>2. Judge(checks, action) = checks[4].refusal
      BY <1>5, <2>1, FirstFailing
    <2>. QED
      BY <1>5, <2>2
  <1>6. CASE /\ checks[1].passed /\ checks[2].passed /\ checks[3].passed
             /\ checks[4].passed /\ ~checks[5].passed
    <2>1. \A j \in 1..6 : j < 5 => j = 1 \/ j = 2 \/ j = 3 \/ j = 4
      OBVIOUS
    <2>2. Judge(checks, action) = checks[5].refusal
      BY <1>6, <2>1, FirstFailing
    <2>. QED
      BY <1>6, <2>2
  <1>7. CASE /\ checks[1].passed /\ checks[2].passed /\ checks[3].passed
             /\ checks[4].passed /\ checks[5].passed /\ ~checks[6].passed
    <2>1. \A j \in 1..6 : j < 6 => j = 1 \/ j = 2 \/ j = 3 \/ j = 4 \/ j = 5
      OBVIOUS
    <2>2. Judge(checks, action) = checks[6].refusal
      BY <1>7, <2>1, FirstFailing
    <2>. QED
      BY <1>7, <2>2
  <1>8. \A j \in 1..6 : j = 1 \/ j = 2 \/ j = 3 \/ j = 4 \/ j = 5 \/ j = 6
    OBVIOUS
  <1>. QED
    BY <1>1, <1>2, <1>3, <1>4, <1>5, <1>6, <1>7, <1>8

\* Where firmware and simulator differ on a message is as Misjudged says, and there at
\* most one of them obeys it.
LEMMA JudgedApart ==
    ASSUME NEW m \in CommandMessage
    PROVE  /\ FirmwareVerdict(m) \in Verdicts /\ SimulatorVerdict(m) \in Verdicts
           /\ Misjudged(m) <=> FirmwareVerdict(m) # SimulatorVerdict(m)
           /\ Misjudged(m) => ~(FirmwareVerdict(m) \in Actions /\ SimulatorVerdict(m) \in Actions)
  <1>1. FirmwareVerdict(m) =
            IF ~m.ownTopic THEN "topic"
            ELSE IF "firmware" \notin m.readBy THEN "unparsable"
            ELSE IF m.id # "text" THEN "no id"
            ELSE IF m.controller # "own" THEN "mismatch"
            ELSE IF m.index # "inside" THEN "index"
            ELSE IF FirmwareAction(m.action) \notin Actions THEN "action"
            ELSE FirmwareAction(m.action)
    <2>. DEFINE checks ==
             <<Check("topic", m.ownTopic), Check("unparsable", "firmware" \in m.readBy),
               Check("no id", m.id = "text"), Check("mismatch", m.controller = "own"),
               Check("index", m.index = "inside"),
               Check("action", FirmwareAction(m.action) \in Actions)>>
    <2>1. /\ checks[1].passed <=> m.ownTopic
          /\ checks[2].passed <=> "firmware" \in m.readBy
          /\ checks[3].passed <=> m.id = "text"
          /\ checks[4].passed <=> m.controller = "own"
          /\ checks[5].passed <=> m.index = "inside"
          /\ checks[6].passed <=> FirmwareAction(m.action) \in Actions
      BY DEF Check, CommandMessage
    <2>2. /\ checks[1].refusal = "topic" /\ checks[2].refusal = "unparsable"
          /\ checks[3].refusal = "no id" /\ checks[4].refusal = "mismatch"
          /\ checks[5].refusal = "index" /\ checks[6].refusal = "action"
      BY DEF Check
    <2>3. DOMAIN checks = 1..6
      OBVIOUS
    <2>4. FirmwareVerdict(m) = Judge(checks, FirmwareAction(m.action))
      BY DEF FirmwareVerdict
    <2>. HIDE DEF checks
    <2>. QED
      BY <2>1, <2>2, <2>3, <2>4, JudgeLadder
  <1>2. SimulatorVerdict(m) =
            IF ~m.ownTopic THEN "topic"
            ELSE IF "simulator" \notin m.readBy THEN "unparsable"
            ELSE IF m.id \notin {"text", "number"} THEN "no id"
            ELSE IF m.controller # "own" THEN "mismatch"
            ELSE IF m.index # "inside" THEN "index"
            ELSE IF SimulatorAction(m.action) \notin Actions THEN "action"
            ELSE SimulatorAction(m.action)
    <2>. DEFINE checks ==
             <<Check("topic", m.ownTopic), Check("unparsable", "simulator" \in m.readBy),
               Check("no id", m.id \in {"text", "number"}), Check("mismatch", m.controller = "own"),
               Check("index", m.index = "inside"),
               Check("action", SimulatorAction(m.action) \in Actions)>>
    <2>1. /\ checks[1].passed <=> m.ownTopic
          /\ checks[2].passed <=> "simulator" \in m.readBy
          /\ checks[3].passed <=> m.id \in {"text", "number"}
          /\ checks[4].passed <=> m.controller = "own"
          /\ checks[5].passed <=> m.index = "inside"
          /\ checks[6].passed <=> SimulatorAction(m.action) \in Actions
      BY DEF Check, CommandMessage
    <2>2. /\ checks[1].refusal = "topic" /\ checks[2].refusal = "unparsable"
          /\ checks[3].refusal = "no id" /\ checks[4].refusal = "mismatch"
          /\ checks[5].refusal = "index" /\ checks[6].refusal = "action"
      BY DEF Check
    <2>3. DOMAIN checks = 1..6
      OBVIOUS
    <2>4. SimulatorVerdict(m) = Judge(checks, SimulatorAction(m.action))
      BY DEF SimulatorVerdict
    <2>. HIDE DEF checks
    <2>. QED
      BY <2>1, <2>2, <2>3, <2>4, JudgeLadder
  <1>3. /\ m.readBy = Readers <=> "firmware" \in m.readBy /\ "simulator" \in m.readBy
        /\ m.readBy = {"firmware"} <=> "firmware" \in m.readBy /\ "simulator" \notin m.readBy
        /\ m.readBy = {"simulator"} <=> "firmware" \notin m.readBy /\ "simulator" \in m.readBy
    BY DEF CommandMessage, Readers
  <1>4. m.action \in ActionKinds /\ m.ownTopic \in BOOLEAN
    BY DEF CommandMessage
  <1>5. m.action \in {"null", "empty", "number"} =>
            FirmwareAction(m.action) = "locate" /\ SimulatorAction(m.action) = m.action
    BY DEF FirmwareAction, SimulatorAction
  <1>6. m.action \notin {"null", "empty", "number"} =>
            /\ FirmwareAction(m.action) = SimulatorAction(m.action)
            /\ SimulatorAction(m.action) \in Actions \cup {"other"}
    BY <1>4 DEF FirmwareAction, SimulatorAction, ActionKinds, Actions
  <1>7. "locate" \in Actions
    BY DEF Actions
  <1>8. /\ "null" \notin Actions /\ "empty" \notin Actions /\ "number" \notin Actions
        /\ Actions \cap Refusals = {} /\ Verdicts = Actions \cup Refusals
        /\ {"topic", "unparsable", "no id", "mismatch", "index", "action"} \subseteq Refusals
    BY DEF Actions, Refusals, Verdicts
  <1>9. FirmwareVerdict(m) \in Verdicts /\ SimulatorVerdict(m) \in Verdicts
    BY <1>1, <1>2, <1>8
  <1>10. CASE ~m.ownTopic
    BY <1>1, <1>2, <1>8, <1>9, <1>10 DEF Misjudged
  <1>11. CASE m.ownTopic /\ "firmware" \notin m.readBy /\ "simulator" \notin m.readBy
    <2>1. FirmwareVerdict(m) = "unparsable" /\ SimulatorVerdict(m) = "unparsable"
      BY <1>1, <1>2, <1>11
    <2>. QED
      BY <1>3, <1>8, <1>9, <1>11, <2>1 DEF Misjudged
  <1>12. CASE m.ownTopic /\ "firmware" \in m.readBy /\ "simulator" \notin m.readBy
    <2>1. SimulatorVerdict(m) = "unparsable" /\ FirmwareVerdict(m) # "unparsable"
      BY <1>1, <1>2, <1>12 DEF Actions
    <2>. QED
      BY <1>3, <1>8, <1>9, <1>12, <2>1 DEF Misjudged
  <1>13. CASE m.ownTopic /\ "firmware" \notin m.readBy /\ "simulator" \in m.readBy
    <2>1. FirmwareVerdict(m) = "unparsable" /\ SimulatorVerdict(m) # "unparsable"
      BY <1>1, <1>2, <1>13 DEF Actions
    <2>. QED
      BY <1>3, <1>8, <1>9, <1>13, <2>1 DEF Misjudged
  <1>14. CASE m.ownTopic /\ "firmware" \in m.readBy /\ "simulator" \in m.readBy
    <2>1. Misjudged(m) <=>
              \/ m.id = "number"
              \/ /\ m.id = "text" /\ m.controller = "own" /\ m.index = "inside"
                 /\ m.action \in {"null", "empty", "number"}
      BY <1>3, <1>14 DEF Misjudged
    <2>2. CASE m.id \notin {"text", "number"}
      <3>1. FirmwareVerdict(m) = "no id" /\ SimulatorVerdict(m) = "no id"
        BY <1>1, <1>2, <1>14, <2>2
      <3>. QED
        BY <1>8, <1>9, <2>1, <2>2, <3>1
    <2>3. CASE m.id = "number"
      <3>1. FirmwareVerdict(m) = "no id" /\ SimulatorVerdict(m) # "no id"
        BY <1>1, <1>2, <1>14, <2>3 DEF Actions
      <3>. QED
        BY <1>8, <1>9, <2>1, <2>3, <3>1
    <2>4. CASE m.id = "text" /\ ~(m.controller = "own" /\ m.index = "inside")
      <3>1. FirmwareVerdict(m) = SimulatorVerdict(m) /\ FirmwareVerdict(m) \in {"mismatch", "index"}
        BY <1>1, <1>2, <1>14, <2>4
      <3>. QED
        BY <1>8, <1>9, <2>1, <2>4, <3>1
    <2>5. CASE m.id = "text" /\ m.controller = "own" /\ m.index = "inside"
      <3>1. CASE m.action \in {"null", "empty", "number"}
        <4>1. FirmwareVerdict(m) = "locate" /\ SimulatorVerdict(m) = "action"
          BY <1>1, <1>2, <1>5, <1>7, <1>8, <1>14, <2>5, <3>1
        <4>. QED
          BY <1>8, <1>9, <2>1, <2>5, <3>1, <4>1
      <3>2. CASE m.action \notin {"null", "empty", "number"}
        <4>1. FirmwareVerdict(m) = SimulatorVerdict(m)
          BY <1>1, <1>2, <1>6, <1>14, <2>5, <3>2
        <4>. QED
          BY <1>9, <2>1, <2>5, <3>2, <4>1
      <3>. QED
        BY <3>1, <3>2
    <2>. QED
      BY <2>2, <2>3, <2>4, <2>5
  <1>. QED
    BY <1>10, <1>11, <1>12, <1>13, <1>14

\* The answers of the node and of the simulated device differ exactly on a message that
\* they judge differently, and on a command that the node has forgotten or mistakes.
THEOREM SimulatorIsReference == Spec => []SimulatorAgreement
  <1>1. IInv /\ RemembersWindow => SimulatorAgreement
    <2>. SUFFICES ASSUME IInv, RemembersWindow,
                         NEW c \in Controllers, NEW cid \in CommandIds, NEW j \in Judgements
                  PROVE  Answer(j.firmware, Contains(c, Cut[cid]))
                             # Answer(j.simulator, <<c, cid>> \in seen)
                         <=> \/ j.misjudged
                             \/ j.firmware \in Actions /\ (Forgotten(c, cid) \/ Mistaken(c, cid))
      BY DEF SimulatorAgreement
    <2>1. Cut[cid] \in Names /\ Cut[cid] # NoName
      BY NamesAssumption
    <2>2. Contains(c, Cut[cid]) <=> newer[c][Cut[cid]] < Window
      BY <2>1 DEF Contains, RemembersWindow, IInv, RingIsCounted
    <2>3. newer[c][Cut[cid]] = Window <=> ~(newer[c][Cut[cid]] < Window)
      <3>1. newer[c][Cut[cid]] \in 0..Window
        BY <2>1 DEF IInv, TypeOK
      <3>. QED
        BY <3>1, WindowAssumption, SMT
    <2>4. Contains(c, Cut[cid]) =>
              \E other \in CommandIds : Cut[other] = Cut[cid] /\ <<c, other>> \in seen
      BY <2>1, <2>2 DEF IInv, CountedIsSeen
    <2>5. ~(Contains(c, Cut[cid]) <=> <<c, cid>> \in seen)
              <=> Forgotten(c, cid) \/ Mistaken(c, cid)
      BY <2>2, <2>3, <2>4 DEF Forgotten, Mistaken
    <2>6. PICK m \in CommandMessage :
              j = [firmware |-> FirmwareVerdict(m), simulator |-> SimulatorVerdict(m),
                   misjudged |-> Misjudged(m)]
      BY DEF Judgements
    <2>7. /\ j.firmware \in Verdicts /\ j.simulator \in Verdicts
          /\ j.misjudged <=> j.firmware # j.simulator
          /\ j.misjudged => ~(j.firmware \in Actions /\ j.simulator \in Actions)
      BY <2>6, JudgedApart
    <2>8. "repetition" # j.firmware /\ "repetition" # j.simulator
      BY <2>7 DEF Verdicts, Actions, Refusals
    <2>. QED
      BY <2>5, <2>7, <2>8 DEF Answer
  <1>. QED
    BY Invariance, WindowHolds, <1>1, PTL
==============================================================================

---------------------------- MODULE RoutingProofs ----------------------------
(***************************************************************************)
(* The routing function is a bijection between drawers and the LEDs of the *)
(* controllers, for every topology.                                        *)
(***************************************************************************)
EXTENDS Routing, TLAPS

\* Quotient and remainder of Euclidean division, as the provers know them.
LEMMA Division ==
    ASSUME NEW a \in Nat, NEW b \in Nat \ {0}
    PROVE  /\ a \div b \in Nat
           /\ a % b \in 0..(b - 1)
           /\ a = b * (a \div b) + (a % b)
  BY SMT

\* A product grows with its factor.
LEMMA Monotone ==
    ASSUME NEW b \in Nat \ {0}, NEW x \in Nat, NEW y \in Nat, x < y
    PROVE  b * x + b <= b * y
  <1>1. PICK k \in Nat : y = x + 1 + k
    BY y = x + 1 + (y - x - 1), y - x - 1 \in Nat, SMT
  <1>2. b * y = b * x + b + b * k
    BY <1>1, SMT
  <1>3. b * k \in Nat
    BY SMT
  <1>. QED
    BY <1>2, <1>3, SMT

\* drawer_to_route never leaves the topology: its controller exists, and so does
\* the LED on it.
THEOREM RouteInTopology ==
    ASSUME NEW d \in Drawers
    PROVE  ControllerOf(d) \in Controllers /\ LedOf(d) \in Leds
  <1>. DEFINE q == (d - 1) \div LedsPerController
  <1>1. d - 1 \in Nat /\ d - 1 < LedsPerController * ControllerCount
    BY TopologyAssumption, SMT DEF Drawers
  <1>2. /\ q \in Nat
        /\ (d - 1) % LedsPerController \in 0..(LedsPerController - 1)
        /\ d - 1 = LedsPerController * q + ((d - 1) % LedsPerController)
    BY <1>1, Division, TopologyAssumption
  <1>3. q < ControllerCount
    <2>1. SUFFICES ASSUME ControllerCount <= q PROVE FALSE
      BY <1>2, TopologyAssumption, SMT
    <2>2. LedsPerController * ControllerCount <= LedsPerController * q
      <3>1. CASE ControllerCount = q
        BY <3>1, <1>2, TopologyAssumption, SMT
      <3>2. CASE ControllerCount < q
        <4>. HIDE DEF q
        <4>1. LedsPerController * ControllerCount + LedsPerController <= LedsPerController * q
          BY <3>2, <1>2, TopologyAssumption, Monotone
        <4>2. /\ LedsPerController * ControllerCount \in Int
              /\ LedsPerController * q \in Int
          BY <1>2, TopologyAssumption, SMT
        <4>. QED
          BY <4>1, <4>2, TopologyAssumption, SMT
      <3>. QED
        BY <3>1, <3>2, <2>1, <1>2, TopologyAssumption, SMT
    <2>. HIDE DEF q
    <2>3. LedsPerController * q \in Int /\ LedsPerController * ControllerCount \in Int
      BY <1>2, TopologyAssumption, SMT
    <2>. QED
      BY <1>1, <1>2, <2>2, <2>3, TopologyAssumption, SMT
  <1>. QED
    BY <1>2, <1>3, TopologyAssumption, SMT DEF ControllerOf, LedOf, Controllers, Leds

\* Two drawers never share an LED: a route determines its drawer.
THEOREM RouteIsInjective ==
    ASSUME NEW d \in Drawers, NEW e \in Drawers,
           ControllerOf(d) = ControllerOf(e), LedOf(d) = LedOf(e)
    PROVE  d = e
  <1>1. d - 1 \in Nat /\ e - 1 \in Nat
    BY TopologyAssumption, SMT DEF Drawers
  <1>2. /\ (d - 1) \div LedsPerController \in Nat
        /\ d - 1 = LedsPerController * ((d - 1) \div LedsPerController)
                     + ((d - 1) % LedsPerController)
    BY <1>1, Division, TopologyAssumption
  <1>3. /\ (e - 1) \div LedsPerController \in Nat
        /\ e - 1 = LedsPerController * ((e - 1) \div LedsPerController)
                     + ((e - 1) % LedsPerController)
    BY <1>1, Division, TopologyAssumption
  <1>4. (d - 1) \div LedsPerController = (e - 1) \div LedsPerController
    BY <1>2, <1>3, SMT DEF ControllerOf
  <1>5. d - 1 = e - 1
    BY <1>2, <1>3, <1>4 DEF LedOf
  <1>. QED
    BY <1>5, TopologyAssumption, SMT DEF Drawers

\* The seeded drawer range of a controller holds exactly the drawers routed to it:
\* backend/app/seed.py and backend/app/services/routing.py agree.
THEOREM SeedAgreesWithRoute ==
    ASSUME NEW d \in Drawers, NEW c \in Controllers
    PROVE  ControllerOf(d) = c <=> d \in DrawerStart(c)..DrawerEnd(c)
  <1>. DEFINE q == (d - 1) \div LedsPerController
              L == LedsPerController
  <1>1. d \in Int /\ d - 1 \in Nat /\ c \in Nat \ {0} /\ L \in Nat \ {0}
    BY TopologyAssumption, SMT DEF Drawers, Controllers
  <1>2. /\ q \in Nat
        /\ (d - 1) % L \in 0..(L - 1)
        /\ d - 1 = L * q + ((d - 1) % L)
    BY <1>1, Division
  <1>3. (c - 1) * L = L * (c - 1) /\ L * (c - 1) \in Int /\ L * q \in Int
    BY <1>1, <1>2, SMT
  <1>4. ASSUME ControllerOf(d) = c
        PROVE  d \in DrawerStart(c)..DrawerEnd(c)
    <2>1. q = c - 1
      BY <1>4, <1>1, <1>2, SMT DEF ControllerOf
    <2>. QED
      BY <2>1, <1>1, <1>2, <1>3, SMT DEF DrawerStart, DrawerEnd
  <1>5. ASSUME d \in DrawerStart(c)..DrawerEnd(c)
        PROVE  ControllerOf(d) = c
    <2>. HIDE DEF q, L
    <2>1. L * (c - 1) <= d - 1 /\ d - 1 < L * (c - 1) + L
      BY <1>5, <1>1, <1>3, SMT DEF DrawerStart, DrawerEnd, L
    <2>2. ~(q < c - 1)
      <3>1. ASSUME q < c - 1 PROVE L * q + L <= L * (c - 1)
        <4>1. c - 1 \in Nat
          BY <1>1, SMT
        <4>. QED
          BY <3>1, <4>1, <1>1, <1>2, Monotone
      <3>. QED
        BY <3>1, <2>1, <1>1, <1>2, <1>3, SMT
    <2>3. ~(c - 1 < q)
      <3>1. ASSUME c - 1 < q PROVE L * (c - 1) + L <= L * q
        <4>1. c - 1 \in Nat
          BY <1>1, SMT
        <4>. QED
          BY <3>1, <4>1, <1>1, <1>2, Monotone
      <3>. QED
        BY <3>1, <2>1, <1>1, <1>2, <1>3, SMT
    <2>4. q = c - 1
      BY <2>2, <2>3, <1>1, <1>2, SMT
    <2>. QED
      BY <2>4, <1>1, <1>2, SMT DEF ControllerOf, q
  <1>. QED
    BY <1>4, <1>5
==============================================================================

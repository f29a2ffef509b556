------------------------------- MODULE Routing -------------------------------
(***************************************************************************)
(* The fixed topology of FindIt and the pure routing function of           *)
(* backend/app/services/routing.py: a row of controllers, each driving the *)
(* same number of LEDs, one LED per drawer.  In the product there are five *)
(* controllers of ten LEDs; nothing here depends on those two numbers.     *)
(***************************************************************************)
EXTENDS Integers

CONSTANTS ControllerCount,     \* five in the product
          LedsPerController    \* ten in the product

ASSUME TopologyAssumption ==
    /\ ControllerCount \in Nat \ {0}
    /\ LedsPerController \in Nat \ {0}

Controllers == 1..ControllerCount
Leds        == 0..(LedsPerController - 1)
Drawers     == 1..(ControllerCount * LedsPerController)

\* drawer_to_route: the controller that owns a drawer, and the LED on it.
ControllerOf(d) == ((d - 1) \div LedsPerController) + 1
LedOf(d)        == (d - 1) % LedsPerController

\* expected_controllers: the range of drawers a controller is seeded with.
DrawerStart(c) == (c - 1) * LedsPerController + 1
DrawerEnd(c)   == DrawerStart(c) + LedsPerController - 1
==============================================================================

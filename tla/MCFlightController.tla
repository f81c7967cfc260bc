------------------------- MODULE MCFlightController -------------------------
(* Finite values for the constants of FlightController: a pilot who is off,   *)
(* arms, and flies on bad frames, and a ground station.                       *)
EXTENDS FlightController

Widths(throttle, aux4) == [c \in Channels |-> IF c = "THROTTLE" THEN throttle ELSE aux4]

MCRadio == {Widths(1000, 1000), Widths(1000, 1500), Widths(1700, 2000)}

\* One that arms and one that leaves AUX4 to the radio.
MCOverrides == {Widths(1000, 1500)}

\* The arm box on the middle of AUX4, as the remote sends it, and LoadDefaults'.
MCBoxes == {{"MID"}, {}}
=============================================================================

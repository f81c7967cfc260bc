----------------------------- MODULE MCSettings -----------------------------
(* Finite values for the constants of Settings: trims about zero, where both  *)
(* bytes change, and settings that differ from the defaults in one byte each  *)
(* and in two whose sum is the same.                                          *)
EXTENDS Settings

MCTrims == {-2, 0, 2}
MCDefaults == [box |-> 0, gain |-> 33, expo |-> 65]
MCOthers == {[box |-> 2, gain |-> 33, expo |-> 65], [box |-> 2, gain |-> 34, expo |-> 64]}
MCZeroes == {300}
=============================================================================

---------------------------- MODULE MCPpmReceiver ----------------------------
(* Finite values for the constants of PpmReceiver: eight widths that differ,  *)
(* and a frame with the throttle of a full trigger (2500), which is not one.  *)
EXTENDS PpmReceiver

MCSteady == [c \in Channels |-> 1100 + 100 * c]
MCFullTrigger == [c \in Channels |-> IF c = 2 THEN 2500 ELSE 1950 - 100 * c]
MCFrames == {MCSteady, MCFullTrigger}

\* What PpmEncoder leaves of 20 ms.
MCGaps == {12300}

\* In a width, and so late in a gap that the rest looks like a width.
MCGlitchTimes == {950, 11000}

\* With the gap this adds up to 65536 + 1500: a width, in 16 bits.
MCSilences == {65536 + 1500 - 12300}

\* micros counts in fours; the bytes of last are torn.
MCLates == {4}
MCTears == {200}
MCCarries == {256}
=============================================================================

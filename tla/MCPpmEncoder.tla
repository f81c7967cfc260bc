---------------------------- MODULE MCPpmEncoder ----------------------------
(* Finite values for the constants of PpmEncoder: ring, channels and frame as *)
(* main() passes them to init, four ids for a ring of three, a clock that     *)
(* moves 5 ms at a time and a second of five frames.                          *)
EXTENDS PpmEncoder, TLC

\* The sticks centred after an arm, in the order of update_channels, and eight different
\* widths that add up to the same frame.
MCNeutral == [c \in 0 .. 7 |-> IF c \in {0, 1, 3} THEN 1500 ELSE 1000]
MCSticks == [c \in 0 .. 7 |-> CASE c = 0 -> 2000 [] c = 1 -> 1600 [] c = 2 -> 1900
                                [] c = 3 -> 1200 [] c = 4 -> 1800 [] c = 5 -> 1150
                                [] c = 6 -> 1700 [] c = 7 -> 1050]
MCWidths == {MCNeutral, MCSticks}

\* Zeroes, as in memory that was never used (a frame of 25 ms), and words that make
\* up for the channels that are skipped (one of 20 ms).
MCHeapWords == {[i \in 8 .. 15 |-> 0], [i \in 8 .. 15 |-> 1250]}

MCSymmetry == Permutations(WaveIds)
=============================================================================

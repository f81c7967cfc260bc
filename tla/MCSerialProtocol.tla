-------------------------- MODULE MCSerialProtocol --------------------------
(* Finite values for the constants of SerialProtocol: a question and a command *)
(* with data.                                                                  *)
EXTENDS SerialProtocol

Ask(cmd) == [cmd |-> cmd, data |-> <<>>]
MCAnalog == Ask(110)

\* MSP_SET_HEAD, with its two bytes.
MCHead == [cmd |-> 211, data |-> <<90, 0>>]
MCRequests == {MCAnalog, MCHead}

\* A size in and one out of range, the three letters of a header, and other bytes.
MCNoise == {2, 36, 60, 64, 65, 77, 211}
=============================================================================

--------------------------- MODULE MCDroneServer ---------------------------
(* Finite values for the constants of DroneServer: one client, which may     *)
(* connect again while the threads of its last connection are being joined,  *)
(* and one channel.  No property looks at more than one at a time, and the   *)
(* theorems have any number of both.                                         *)
EXTENDS DroneServer

MCChannels == {"THROTTLE"}
MCOrder == <<"THROTTLE">>
MCInitValue == [ch \in MCChannels |-> 1000]
MCPackets == {[ch \in MCChannels |-> 2000]}
=============================================================================

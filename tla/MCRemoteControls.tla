-------------------------- MODULE MCRemoteControls --------------------------
(* Finite values for the constants of RemoteControls: one control moved at a  *)
(* time, and a coarse throttle and gain.                                      *)
EXTENDS RemoteControls

AtRest == [gas |-> 0, x |-> 0, y |-> 0, z |-> 0, rz |-> 0, hatX |-> 0, hatY |-> 0]

MCEvents ==
    {[AtRest EXCEPT !.gas = 1000, !.x = -1000, !.y = 999, !.z = 1],
     [AtRest EXCEPT !.rz = 1000], [AtRest EXCEPT !.rz = -1000],
     [AtRest EXCEPT !.hatX = 1], [AtRest EXCEPT !.hatX = -1],
     [AtRest EXCEPT !.hatY = 1], [AtRest EXCEPT !.hatY = -1]}

MCSettings == {<<"flightMode", "ACRO">>, <<"barometer", TRUE>>}
=============================================================================

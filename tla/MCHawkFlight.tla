---------------------------- MODULE MCHawkFlight ----------------------------
(* Finite values for the constants of HawkFlight: a throttle that is down or  *)
(* up, and the two gestures; and a bound on what the pilot does.              *)
EXTENDS HawkFlight

Event(rz, hatY) == [gas |-> 0, x |-> 0, y |-> 0, z |-> 0, rz |-> rz, hatX |-> 0, hatY |-> hatY]

MCEvents == {Event(1000, 1), Event(-1000, 1), Event(0, -1)}

\* A bound on the state space.  The gesture's button stays down, once it is (RemoteControls'
\* own run lets it go).  A pilot who has neither armed nor lifted, or only one of the two, does
\* anything; one who has done both only descends and disarms, and leaves the client he has.
\* Neither invariant says anything of that one, and StopsMotors is about his descent.
\* The client is never closed: a closed one only stops sending, as Send may without it, and
\* the next has a packet after the next move.  A client that has lost the port sees no moves:
\* they reach no packet that is sent, and only a crash, which resets the controls, comes after.
PilotBound ==
    /\ held \subseteq held'
    /\ client' # "closed"
    /\ client' = "lost" => UNCHANGED <<throttlePlatform, pilotArmingStatus>>
    /\ asked = {"arm", "lift"} =>
         throttlePlatform' <= throttlePlatform /\ pilotArmingStatus' <= pilotArmingStatus
    /\ asked' = {"arm", "lift"} => client' = "bound"
=============================================================================

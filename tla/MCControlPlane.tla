--------------------------- MODULE MCControlPlane ---------------------------
(* One source, two events of two lanes, one of them without a handler;  *)
(* one worker, one relay.                                              *)
EXTENDS ControlPlane
CONSTANTS w1, r1, agenda, minutes, toa, b1, b2
MCOwners == {w1}
MCRelays == {r1}
MCScopes == {agenda, minutes}
MCHandled == {agenda}
MCScopeOf == [j \in JobIds |-> IF j = 1 THEN agenda ELSE minutes]
MCSources == {toa}
MCBodies == {b1, b2}
=============================================================================

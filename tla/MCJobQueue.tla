----------------------------- MODULE MCJobQueue -----------------------------
(* Two jobs in one lane/area, two lease owners, two attempts each. *)
EXTENDS JobQueue
CONSTANTS o1, o2, agenda, minutes
MCOwners == {o1, o2}
MCScopes == {agenda, minutes}
MCScopeOf == [j \in JobIds |-> IF j = 1 THEN agenda ELSE minutes]
MCHandled == {agenda}
=============================================================================

--------------------------- MODULE MCOutboxRelay ---------------------------
(* Three rows under two umbrellas; one relay, or two that overlap. *)
EXTENDS OutboxRelay
CONSTANTS k1, k2, k3, monday, tuesday, r1, r2
MCKeys == {k1, k2, k3}
MCUmbrellas == {monday, tuesday}
MCUmbrellaOf == [k \in Keys |-> IF k = k3 THEN tuesday ELSE monday]
OneRelay == {r1}
TwoRelays == {r1, r2}
=============================================================================

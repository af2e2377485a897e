---------------------------- MODULE MCEmailOutbox ----------------------------
(* Two mails of one user; one sender, or two. *)
EXTENDS EmailOutbox

CONSTANTS s1, s2, ann

OneSender == {s1}
TwoSenders == {s1, s2}
MCRecipients == {ann}
MCUserOf == [m \in Mails |-> ann]
=============================================================================

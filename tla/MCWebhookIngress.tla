-------------------------- MODULE MCWebhookIngress --------------------------
(* A registered source and an unknown one, two good bodies, one malformed. *)
EXTENDS WebhookIngress
CONSTANTS toa, stranger, b1, b2, junk
MCSources == {toa, stranger}
MCRegistered == {toa}
MCBodies == {b1, b2, junk}
MCMalformed == {junk}
=============================================================================

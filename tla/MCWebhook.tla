------------------------------- MODULE MCWebhook -------------------------------
(* Webhook with two clients, for TLC. *)
EXTENDS Webhook

CONSTANTS c1, c2, own, t1, t2

\* Events without a name, for which there is a handler, from clients with the key and
\* without; and events with a name, for which there is none.
ClientKinds == {k \in Kind : k.handled = (k.name = NoID) /\ (k.keyed \/ k.handled)}
===============================================================================

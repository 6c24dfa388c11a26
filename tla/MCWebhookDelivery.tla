------------------------- MODULE MCWebhookDelivery -------------------------
(* Finite instances of WebhookDelivery for TLC. *)
EXTENDS WebhookDelivery, TLC

CONSTANTS e1, e2, w1, w2

\* The processes are interchangeable.
WorkerSymmetry == Permutations(Workers)
=============================================================================

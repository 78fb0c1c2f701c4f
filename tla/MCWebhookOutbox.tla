--------------------------- MODULE MCWebhookOutbox ---------------------------
(* The webhook outbox with interchangeable deliveries and ticks, for TLC.  *)
EXTENDS WebhookOutbox, TLC

Symmetry == Permutations(Rows) \cup Permutations(Ticks)
=============================================================================

--------------------------- MODULE MCWebhookInbox ---------------------------
(* A few deliveries of one key, by routes of two users. *)
EXTENDS WebhookInbox, TLC

Symmetry == Permutations(Deliveries) \cup Permutations(Users)
=============================================================================

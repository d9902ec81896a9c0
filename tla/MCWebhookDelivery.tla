-------------------------- MODULE MCWebhookDelivery --------------------------
(* Two threads, for TLC.                                                    *)
EXTENDS WebhookDelivery, TLC

CONSTANTS t1, t2, h1

\* Nothing orders threads or tells them apart.
Symmetry == Permutations(Thread)
=============================================================================

-------------------------- MODULE MCDeliveryOutbox --------------------------
(* Small instances of DeliveryOutbox for TLC.                              *)
EXTENDS DeliveryOutbox, TLC

CONSTANTS e1, e2, w1, w2

\* cli.py passes the same worker_id in every process.
SharedIds == [w \in Workers |-> "rss-zen-delivery"]

EditionSymmetry == Permutations(Editions)
=============================================================================

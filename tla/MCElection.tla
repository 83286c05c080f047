----------------------------- MODULE MCElection -----------------------------
(* Elections over a small group, with a hash that is neither the identity   *)
(* nor constant and meets the unreadable scalar 0 once.                    *)
EXTENDS Election

MCHash == [p \in 0 .. q - 1 |-> (2 * p + 1) % q]
=============================================================================

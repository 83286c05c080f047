---------------------------- MODULE MCContracts -----------------------------
(* Two accounts and a contract, or two for the relays, around one instance;  *)
(* two ids, but a single kind of the tokens that come in amounts.            *)
EXTENDS Deployed

CONSTANTS a1, a2, c1, c2, t1, t2
=============================================================================

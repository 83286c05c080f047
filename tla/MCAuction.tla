----------------------------- MODULE MCAuction ------------------------------
(* Three accounts, one of them the owner; the cfg bounds the bids to eight. *)
EXTENDS Auction

CONSTANTS alice, bob, carol
=============================================================================

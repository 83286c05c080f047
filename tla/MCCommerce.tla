----------------------------- MODULE MCCommerce -----------------------------
(* A vendor and a buyer; item 0 costs 3 in every run, the listings differ   *)
(* in whether another item costs something else.                            *)
EXTENDS Commerce

CONSTANTS seller, customer

OnePrice  == [i \in Item |-> 3]
TwoPrices == [i \in Item |-> IF i = 0 THEN 3 ELSE 1]
=============================================================================

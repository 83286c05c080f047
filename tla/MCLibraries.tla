---------------------------- MODULE MCLibraries ----------------------------
(* Two of everything that has a name; keys of two bits.                     *)
EXTENDS Libraries

CONSTANTS h1, h2, r1, r2, k1, k2, x, y

\* Texts are not empty and begin with a 1.
MCLegible == {<<1>>} \cup UNION {{<<1>> \o s : s \in [1 .. n -> {0, 1, 2}]} : n \in 1 .. 4}
=============================================================================

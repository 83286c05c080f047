------------------------------ MODULE MCVoting ------------------------------
(* Small elections: model values for accounts and points; a hash and two   *)
(* verifiers that tell the values apart.                                   *)
EXTENDS VotingRefinement

CONSTANTS p0, p1, junk, empty, v1, v2, v3, v4, outsider

MCSha256(point) == <<"sha256", point>>
MCDigest == {MCSha256(p) : p \in Point}
MCverify_schnorr_zkp(key, zkp) == zkp = "valid"
MCverify_one_in_two_zkp(zkp, g_y) == zkp = "valid"

\* A tally that depends on every ballot.
MCbrute_force_tally(ballots) == Cardinality({a \in DOMAIN ballots : ballots[a] = p1})
=============================================================================

--------------------------- MODULE OpenVoteCrypto ---------------------------
(***************************************************************************)
(* The protocol's arithmetic, off-chain (proofs, keys, commitments) and    *)
(* on-chain (their verification and the tally).                            *)
(*                                                                         *)
(* The group has prime order q.  A point g^n is written as its exponent n, *)
(* so adding points is adding exponents, multiplying by a scalar is        *)
(* multiplying, GENERATOR is 1 and the identity is 0.  Neither the         *)
(* identity nor the scalar 0 survives a trip through bytes: from_sec1_bytes*)
(* and from_be_bytes reject them and the reader traps.                     *)
(***************************************************************************)
EXTENDS Integers, Sequences, FiniteSets, FiniteSetsExt, Functions

CONSTANTS q, Hash

ASSUME GroupAssumption ==
    /\ q \in Nat /\ q > 2
    /\ \A d \in 2 .. q - 1 : q % d # 0
    /\ Hash \in [0 .. q - 1 -> 0 .. q - 1]

Zq == 0 .. q - 1
GENERATOR == 1

Parses(bytes) == bytes # 0          \* convert_vec_to_point, convert_vec_to_scalar
hash_to_scalar(point) == Hash[point]

-----------------------------------------------------------------------------
(* Knowledge of the secret x of a voting key g^x.                          *)

schnorr_challenge(g_w, g_x) == hash_to_scalar((GENERATOR + g_w + g_x) % q)

create_schnorr_zkp(g_x, x, w) ==
    [g_w |-> w, r |-> (w - x * schnorr_challenge(w, g_x)) % q]

verify_schnorr_zkp(g_x, zkp) ==
    LET z == schnorr_challenge(zkp.g_w, g_x)
    IN  /\ Parses(zkp.g_w) /\ Parses(zkp.r) /\ Parses(z)
        /\ (zkp.r + g_x * z) % q = zkp.g_w

-----------------------------------------------------------------------------
(* A ballot y = g^(xy) g^v has v = 0 or v = 1.                             *)

one_in_two_challenge(p) == hash_to_scalar((p.x + p.y + p.a1 + p.b1 + p.a2 + p.b2) % q)

\* Both provers simulate the branch they cannot prove and answer the other.
create_one_in_two_zkp_yes(g_x, g_y, x, w, r1, d1) ==
    LET y == (g_y * x + GENERATOR) % q
        points == [x |-> g_x, y |-> y,
                   a1 |-> (r1 + g_x * d1) % q, b1 |-> (g_y * r1 + y * d1) % q,
                   a2 |-> w, b2 |-> (g_y * w) % q]
        d2 == (one_in_two_challenge(points) - d1) % q
    IN  [points |-> points, r1 |-> r1, d1 |-> d1, d2 |-> d2, r2 |-> (w - x * d2) % q]

create_one_in_two_zkp_no_sameBranch(g_x, g_y, x, w, r2, d2) ==
    LET y == (g_y * x) % q
        points == [x |-> g_x, y |-> y, a1 |-> w, b1 |-> (g_y * w) % q,
                   a2 |-> (r2 + g_x * d2) % q, b2 |-> (g_y * r2 + y * d2) % q]
        d1 == (one_in_two_challenge(points) - d2) % q
    IN  [points |-> points, r2 |-> r2, d2 |-> d2, d1 |-> d1, r1 |-> (w - x * d1) % q]

create_one_in_two_zkp_no(g_x, g_y, x, w, r2, d2) ==
    LET y == (g_y * x) % q
        points == [x |-> g_x, y |-> y, a1 |-> w, b1 |-> (g_y * w) % q,
                   a2 |-> (r2 + g_x * d2) % q,
                   b2 |-> (g_y * r2 + (y - GENERATOR) * d2) % q]
        d1 == (one_in_two_challenge(points) - d2) % q
    IN  [points |-> points, r2 |-> r2, d2 |-> d2, d1 |-> d1, r1 |-> (w - x * d1) % q]

\* What extract_scalars and extract_points can read.
Readable(zkp) ==
    /\ Parses(zkp.r1) /\ Parses(zkp.r2) /\ Parses(zkp.d1) /\ Parses(zkp.d2)
    /\ \A field \in DOMAIN zkp.points : Parses(zkp.points[field])

verify_one_in_two_zkp(zkp, g_y) ==
    LET p == zkp.points
        c == one_in_two_challenge(p)
    IN  /\ Readable(zkp) /\ Parses(c)
        /\ c = (zkp.d1 + zkp.d2) % q
        /\ p.a1 = (zkp.r1 + p.x * zkp.d1) % q
        /\ p.b1 = (g_y * zkp.r1 + p.y * zkp.d1) % q
        /\ p.a2 = (zkp.r2 + p.x * zkp.d2) % q
        /\ p.b2 = (g_y * zkp.r2 + (p.y - GENERATOR) * zkp.d2) % q

-----------------------------------------------------------------------------
\* The sum of keys[i] over the positions i of S.
SumAt(keys, S) == SumFunctionOnSet(keys, S)

FirstPosition(keys, g_x) == Min({i \in DOMAIN keys : keys[i] = g_x})

compute_reconstructed_key_twice(keys, g_x) ==
    LET n == Len(keys)
        position == FirstPosition(keys, g_x)
    IN  IF position = 1 THEN (-SumAt(keys, 2 .. n)) % q
        ELSE (SumAt(keys, 1 .. position) - SumAt(keys, position + 1 .. n)) % q

\* The loops run over the inner positions: the first key starts the sum of
\* those before, the last key the sum of those after, whoever asks.
compute_reconstructed_key(keys, g_x) ==
    LET n == Len(keys)
        position == FirstPosition(keys, g_x)
        inner == 2 .. n - 1
        before_points == keys[1] + SumAt(keys, {j \in inner : j < position})
        after_points == keys[n] + SumAt(keys, {j \in inner : j > position})
    IN  CASE position = 1 -> (-after_points) % q
          [] position # 1 /\ position = n -> before_points % q
          [] OTHER -> (before_points - after_points) % q

\* g^(xy) g^v, which commit_to_vote hashes and make_vote_msg sends.
ballot(x, g_y, v) == (g_y * x + v) % q

Sha256(point) == <<"sha256", point>>     \* collision-free

\* Adds the generator until it meets the sum of the ballots.
brute_force_tally_fromOne(votes) ==
    1 + ((SumFunction(votes) + q - 1) % q)
brute_force_tally(votes) == SumFunction(votes) % q
=============================================================================

------------------------------- MODULE Merkle -------------------------------
(***************************************************************************)
(* The Merkle tree: leaves are inserted, a commit hashes them into the     *)
(* working tree as a partial tree, a rollback replays the other commits,    *)
(* and a proof is checked by rebuilding the path to the root.  The hash of *)
(* two nodes is the pair of them.  A layer is a sequence of pairs of an    *)
(* index and a hash.                                                       *)
(***************************************************************************)
EXTENDS Lists, FiniteSets

CONSTANTS
  Leaves,     \* leaf hashes
  MaxLeaves,  \* bound on the leaves of a tree
  MaxCommits  \* bound on the commits of a tree

Two[d \in Nat] == IF d = 0 THEN 1 ELSE 2 * Two[d - 1]

\* tree_depth looks for the depth up to 32.
MerkleAssumption ==
  /\ MaxLeaves \in Nat /\ MaxCommits \in Nat
  /\ \E d \in 1 .. 32 : MaxLeaves <= Two[d]

VARIABLES
  current_working_tree,  \* its layers, the leaves first
  history,               \* the partial tree of every commit
  uncommitted_leaves,
  committed              \* the leaves after every commit not rolled back, a record

vars == <<current_working_tree, history, uncommitted_leaves, committed>>

Init ==
  /\ current_working_tree = <<>> /\ history = <<>>
  /\ uncommitted_leaves = <<>> /\ committed = <<>>

-----------------------------------------------------------------------------
\* The numbers of a finite set in ascending order, and the elements of a
\* sequence at some positions: what dedup and the filters of the code keep.
Ascending(S) ==
  LET place == [i \in S |-> Cardinality({j \in S : j <= i})]
  IN  [k \in 1 .. Cardinality(S) |-> CHOOSE i \in S : place[i] = k]
Picked(s, P) == LET at == Ascending(P) IN [k \in DOMAIN at |-> s[at[k]]]

\* Indices.
get_sibling_index(i) == IF i % 2 = 0 THEN i + 1 ELSE i - 1
parent_index(i) == i \div 2

\* Vec::dedup removes an element that equals the one before it.
dedup(s) == Picked(s, {i \in DOMAIN s : i = 1 \/ s[i] # s[i - 1]})

sibling_indices(s) == [i \in DOMAIN s |-> get_sibling_index(s[i])]
parent_indices(s) == dedup([i \in DOMAIN s |-> parent_index(s[i])])
difference(s, t) == Picked(s, {i \in DOMAIN s : s[i] \notin ToSet(t)})

\* The indices above those of some leaves, from layer 0.
LayerIndices(leaf_indices, depth) ==
  LET current[d \in 0 .. depth] ==
        IF d = 0 THEN leaf_indices ELSE parent_indices(current[d - 1])
  IN  current

tree_depth(leaves_count) ==
  CHOOSE d \in 1 .. 32 : leaves_count <= Two[d] /\ (d = 1 \/ leaves_count > Two[d - 1])

Halved(leaves_count) == (leaves_count \div 2) + (leaves_count % 2)

\* uneven_layers, from layer 0: the number of nodes of each layer.
LayerSizes(leaves_count) ==
  LET Size[d \in 0 .. tree_depth(leaves_count)] ==
        IF d = 0 THEN leaves_count ELSE Halved(Size[d - 1])
  IN  Size

-----------------------------------------------------------------------------
\* Partial trees.  A layer in the order of its indices, and of its positions
\* where these are equal.
Sorted(layer) ==
  LET Before(i) == {j \in DOMAIN layer :
                      layer[j][1] < layer[i][1] \/ (layer[j][1] = layer[i][1] /\ j <= i)}
      place == [i \in DOMAIN layer |-> Cardinality(Before(i))]
  IN  [k \in DOMAIN layer |-> layer[CHOOSE i \in DOMAIN layer : place[i] = k]]

Indices(layer) == [i \in DOMAIN layer |-> layer[i][1]]

concat_and_hash_twice(layer, i) ==
  IF i < Len(layer) THEN <<layer[i][2], layer[i + 1][2]>> ELSE <<layer[i][2], layer[i][2]>>
concat_and_hash(layer, i) ==
  IF i < Len(layer) THEN <<layer[i][2], layer[i + 1][2]>> ELSE layer[i][2]

\* The parents of a layer's nodes, in pairs of neighbours.
Parents(layer) ==
  LET indices == parent_indices(Indices(layer))
  IN  [i \in DOMAIN indices |-> <<indices[i], concat_and_hash(layer, 2 * i - 1)>>]

NotEnoughHelperNodes == <<>>

\* build_tree: each layer and its helper nodes give the next one.  A parent
\* without a child is an error.
build_tree(partial_layers, depth) ==
  LET Given(d) == IF d + 1 \in DOMAIN partial_layers THEN partial_layers[d + 1] ELSE <<>>
      Missing(layer) == 2 * Len(parent_indices(Indices(layer))) - 1 > Len(layer)
      tree[d \in 0 .. depth] ==
        IF d = 0 THEN Sorted(Given(0))
        ELSE LET children == tree[d - 1]
                 current == IF Missing(children) THEN <<>> ELSE Parents(children)
             IN  IF d = depth THEN current ELSE Sorted(current \o Given(d))
  IN  IF \E d \in 0 .. depth - 1 : Missing(tree[d]) THEN NotEnoughHelperNodes
      ELSE [d \in 1 .. depth + 1 |-> tree[d - 1]]

root(layers) == Last(layers)[1][2]

\* Nodes of `other` replace those of `layers`; no hash is computed.
merge_unverified_keeping(layers, other) ==
  [d \in DOMAIN other |->
     Sorted((IF d \in DOMAIN layers THEN layers[d] ELSE <<>>) \o other[d])]
merge_unverified(layers, other) ==
  LET Of(t, d) == IF d \in DOMAIN t THEN t[d] ELSE <<>>
      Kept(d) == Picked(Of(layers, d), {i \in DOMAIN Of(layers, d) :
                   Of(layers, d)[i][1] \notin ToSet(Indices(Of(other, d)))})
  IN  [d \in DOMAIN other |-> Sorted(Kept(d) \o other[d])]

\* The tree of some commits.
Replayed(diffs) ==
  LET tree[i \in 0 .. Len(diffs)] ==
        IF i = 0 THEN <<>> ELSE merge_unverified(tree[i - 1], diffs[i])
  IN  tree[Len(diffs)]

-----------------------------------------------------------------------------
\* The tree.
Committed == IF committed = <<>> THEN <<>> ELSE Last(committed)
leaves_len == IF current_working_tree = <<>> THEN 0 ELSE Len(current_working_tree[1])

\* For each layer the siblings that are in the tree and not computed.
helper_node_tuples(leaf_indices) ==
  LET current == LayerIndices(leaf_indices, Len(current_working_tree))
      Helpers(layer, nodes) ==
        LET siblings == difference(sibling_indices(nodes), nodes)
            helper_indices == Picked(siblings, {i \in DOMAIN siblings : siblings[i] < Len(layer)})
        IN  [j \in DOMAIN helper_indices |-> layer[helper_indices[j] + 1]]
  IN  [d \in DOMAIN current_working_tree |-> Helpers(current_working_tree[d], current[d - 1])]

uncommitted_diff ==
  LET n == leaves_len
      shadow_indices == [i \in DOMAIN uncommitted_leaves |-> n + i - 1]
      shadow == Zip(shadow_indices, uncommitted_leaves)
      helpers == helper_node_tuples(shadow_indices)
  IN  build_tree(IF helpers = <<>> THEN <<shadow>>
                 ELSE [helpers EXCEPT ![1] = Sorted(@ \o shadow)],
                 tree_depth(n + Len(uncommitted_leaves)))

append(leaves) ==
  /\ leaves_len + Len(uncommitted_leaves) + Len(leaves) <= MaxLeaves
  /\ uncommitted_leaves' = uncommitted_leaves \o leaves
  /\ UNCHANGED <<current_working_tree, history, committed>>

insert(leaf) == append(<<leaf>>)

\* Nothing happens without leaves, or when the partial tree cannot be built.
commit ==
  /\ uncommitted_leaves # <<>> /\ uncommitted_diff # NotEnoughHelperNodes
  /\ Len(history) < MaxCommits
  /\ history' = Append(history, uncommitted_diff)
  /\ current_working_tree' = merge_unverified(current_working_tree, uncommitted_diff)
  /\ committed' = Append(committed, Committed \o uncommitted_leaves)
  /\ uncommitted_leaves' = <<>>

rollback ==
  /\ history # <<>>
  /\ history' = Front(history)
  /\ current_working_tree' = Replayed(Front(history))
  /\ committed' = Front(committed)
  /\ UNCHANGED uncommitted_leaves

abort_uncommitted ==
  /\ uncommitted_leaves # <<>>
  /\ uncommitted_leaves' = <<>>
  /\ UNCHANGED <<current_working_tree, history, committed>>

Next ==
  \/ \E leaf \in Leaves : insert(leaf)
  \/ \E leaf, next \in Leaves : append(<<leaf, next>>)
  \/ commit \/ rollback \/ abort_uncommitted

-----------------------------------------------------------------------------
\* Proofs.  `proof` lists the helper hashes layer by layer.
proof(leaf_indices) ==
  LET helpers == helper_node_tuples(leaf_indices)
      hashes[d \in 0 .. Len(helpers)] ==
        IF d = 0 THEN <<>>
        ELSE hashes[d - 1] \o [i \in DOMAIN helpers[d] |-> helpers[d][i][2]]
  IN  hashes[Len(helpers)]

\* The siblings a verifier has to be given, layer by layer: a last node
\* without a right neighbour needs none.
proof_indices_by_layers(leaf_indices, leaves_count) ==
  LET sizes == LayerSizes(leaves_count)
      current == LayerIndices(leaf_indices, tree_depth(leaves_count))
      Siblings(nodes, size) ==
        IF size % 2 = 1 /\ Last(nodes) = size - 1 THEN Front(sibling_indices(nodes))
        ELSE sibling_indices(nodes)
  IN  [d \in 1 .. tree_depth(leaves_count) |->
         difference(Siblings(current[d - 1], sizes[d - 1]), current[d - 1])]

Panic == <<"panic">>

\* The root a proof leads to: the hashes are dealt out to the layers, where
\* taking more than are left is a panic, and the partial tree is built.
ProofRoot(hashes, leaf_indices, leaf_hashes, leaves_count) ==
  LET indices == proof_indices_by_layers(leaf_indices, leaves_count)
      taken[d \in 0 .. Len(indices)] ==
        IF d = 0 THEN 0 ELSE taken[d - 1] + Len(indices[d])
      Dealt(d) == Zip(indices[d], SubSeq(hashes, taken[d - 1] + 1, taken[d]))
      layers == [d \in DOMAIN indices |->
                  IF d = 1 THEN Sorted(Dealt(1) \o Zip(leaf_indices, leaf_hashes)) ELSE Dealt(d)]
      tree == build_tree(layers, tree_depth(leaves_count))
  IN  IF taken[Len(indices)] > Len(hashes) THEN Panic
      ELSE IF tree = NotEnoughHelperNodes THEN tree
      ELSE root(tree)

-----------------------------------------------------------------------------
\* The reference: the root of a sequence of leaves.
MerkleRoot[s \in Seq(Leaves) \ {<<>>}] ==
  IF Len(s) = 1 THEN s[1]
  ELSE LET half == Two[CHOOSE d \in 0 .. Len(s) : Two[d] < Len(s) /\ Len(s) <= Two[d + 1]]
       IN  <<MerkleRoot[SubSeq(s, 1, half)], MerkleRoot[SubSeq(s, half + 1, Len(s))]>>

TypeOK ==
  /\ leaves_len + Len(uncommitted_leaves) <= MaxLeaves
  /\ \A d \in DOMAIN current_working_tree : \A i \in DOMAIN current_working_tree[d] :
       current_working_tree[d][i][1] = i - 1
  /\ Len(history) = Len(committed) /\ Len(history) <= MaxCommits
  /\ committed \in Seq(Seq(Leaves))
  /\ uncommitted_leaves \in Seq(Leaves)

\* However the leaves were batched, and whatever was rolled back in between:
\* the tree holds the leaves of the remaining commits and their root, and the
\* uncommitted root is the one a commit would give.
RootsAgree ==
  /\ leaves_len = Len(Committed)
  /\ Committed # <<>> => root(current_working_tree) = MerkleRoot[Committed]
  /\ uncommitted_leaves # <<>>
       => root(uncommitted_diff) = MerkleRoot[Committed \o uncommitted_leaves]

Verifies(leaf_indices, hashes) ==
  ProofRoot(proof(leaf_indices), leaf_indices, hashes, leaves_len) = root(current_working_tree)

\* For every set of leaves the tree's proof convinces the verifier of these
\* leaves, and of no other leaf in the place of one of them.
ProofsHold ==
  uncommitted_leaves = <<>> => \A I \in (SUBSET (0 .. leaves_len - 1)) \ {{}} :
    LET leaf_indices == Ascending(I)
        hashes == [i \in DOMAIN leaf_indices |-> Committed[leaf_indices[i] + 1]]
    IN  /\ Verifies(leaf_indices, hashes)
        /\ \A i \in DOMAIN hashes, other \in Leaves :
             other # hashes[i] => ~Verifies(leaf_indices, [hashes EXCEPT ![i] = other])

\* What a user of the tree relies on: its root and its proofs.
TreeHolds == RootsAgree /\ ProofsHold
=============================================================================

------------------------------- MODULE LcaTree -------------------------------
(***************************************************************************)
(* The tree a route keeps over its leaves, so that the composition of any  *)
(* run of leaves costs one call of Then.  Leaf i lies between boundaries i *)
(* and i + 1; a balanced binary search tree is laid over the boundaries,   *)
(* and its node h stores the composition between h and every boundary d    *)
(* below it.  Leaves and boundaries count from 0.                          *)
(***************************************************************************)
EXTENDS Integers, FiniteSetsExt

CONSTANT Then(_, _)   \* Then(later, earlier)

\* build_range: the key ranges of the subtrees, one depth after the other
Mid(r) == r.lo + (r.hi - r.lo) \div 2

Halves(r) ==
  {x \in {[lo |-> r.lo, hi |-> Mid(r) - 1, parent |-> Mid(r), depth |-> r.depth + 1],
          [lo |-> Mid(r) + 1, hi |-> r.hi, parent |-> Mid(r), depth |-> r.depth + 1]} :
     x.lo <= x.hi}

BuildRange(m) ==
  LET level[k \in 0 .. m] ==
        IF k = 0 THEN {[lo |-> 0, hi |-> m, parent |-> -1, depth |-> 0]}
        ELSE UNION {Halves(r) : r \in level[k - 1]}
      ranges == UNION {level[k] : k \in 0 .. m}
  IN  [h \in 0 .. m |-> CHOOSE r \in ranges : Mid(r) = h]

\* What node h stores for d: one Then a boundary, from h outwards
Link(leaves, stored, h, d) ==
  CASE d = h - 1 -> leaves[d]
    [] d < h - 1 -> Then(stored[d + 1], leaves[d])
    [] d = h + 1 -> leaves[d - 1]
    [] d > h + 1 -> Then(leaves[d - 1], stored[d - 1])

Below(node, h) == (node.lo .. node.hi) \ {h}

FillNode(leaves, node, h) ==
  LET stored[d \in Below(node, h)] == Link(leaves, stored, h, d) IN stored

Build(leaves) ==
  LET last  == Max(DOMAIN leaves) + 1
      nodes == BuildRange(last)
  IN  [leaves |-> leaves, nodes |-> nodes,
       stored |-> [h \in 0 .. last |-> FillNode(leaves, nodes[h], h)]]

\* the node k parents above h
Above(nodes, h, k) ==
  LET up[i \in 0 .. k] == IF i = 0 THEN h ELSE nodes[up[i - 1]].parent IN up[k]

\* h and the nodes above it
Upwards(nodes, h) == {Above(nodes, h, k) : k \in 0 .. nodes[h].depth}

\* the deeper of a and b climbs, then both, until they meet
Lca(nodes, a, b) ==
  LET climb(p) == CASE p[1] = p[2] -> p
                    [] nodes[p[1]].depth > nodes[p[2]].depth -> <<nodes[p[1]].parent, p[2]>>
                    [] nodes[p[1]].depth < nodes[p[2]].depth -> <<p[1], nodes[p[2]].parent>>
                    [] OTHER -> <<nodes[p[1]].parent, nodes[p[2]].parent>>
      n == nodes[a].depth + nodes[b].depth
      pair[i \in 0 .. n] == IF i = 0 THEN <<a, b>> ELSE climb(pair[i - 1])
  IN  pair[n][1]

\* refill_node_around: only what straddles the leaf
Straddles(h, d, leaf) == (d <= leaf /\ leaf < h) \/ (h <= leaf /\ leaf < d)

RefillNodeAround(leaves, node, h, old, leaf) ==
  LET stored[d \in Below(node, h)] ==
        IF Straddles(h, d, leaf) THEN Link(leaves, stored, h, d) ELSE old[d]
  IN  stored

UpdateLeaf_LcaOnly(tree, leaf, fn) ==   \* mutant: the nodes above keep what they stored
  LET leaves == [tree.leaves EXCEPT ![leaf] = fn]
      top    == Lca(tree.nodes, leaf, leaf + 1)
  IN  [tree EXCEPT !.leaves = leaves,
                   !.stored[top] = RefillNodeAround(leaves, tree.nodes[top], top, @, leaf)]

UpdateLeaf(tree, leaf, fn) ==
  LET leaves == [tree.leaves EXCEPT ![leaf] = fn]
      stale  == Upwards(tree.nodes, Lca(tree.nodes, leaf, leaf + 1))
  IN  [tree EXCEPT !.leaves = leaves,
                   !.stored = [h \in DOMAIN @ |->
                     IF h \in stale
                     THEN RefillNodeAround(leaves, tree.nodes[h], h, @[h], leaf)
                     ELSE @[h]]]

\* the composition of leaves lo .. hi
Query(tree, lo, hi) ==
  LET h == Lca(tree.nodes, lo, hi + 1)
  IN  CASE h = lo     -> tree.stored[lo][hi + 1]
        [] h = hi + 1 -> tree.stored[hi + 1][lo]
        [] OTHER      -> Then(tree.stored[h][hi + 1], tree.stored[h][lo])
=============================================================================

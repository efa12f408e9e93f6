----------------------------- MODULE RouteProofs -----------------------------
(***************************************************************************)
(* Theorems about RouteEval, for every instance, any clients and routes;   *)
(* and, in the last part, about FleetDescent, for every set of clients and *)
(* routes, any disagreement between trees and fold, and any budgets: its   *)
(* types, that no client is lost on the way, and that a phase is all or    *)
(* nothing.  The two share the clients and the surgery on routes, and no   *)
(* variable.                                                               *)
(***************************************************************************)
EXTENDS RouteEval, FleetDescent, CommonLemmas, FiniteSetTheorems

-----------------------------------------------------------------------------
(* The nodes of a tree.  Ranges at one depth are disjoint, those at the next lie
   within them, and each boundary is the middle of exactly one. *)
Ranges(m) == {r \in [lo : 0 .. m, hi : 0 .. m, parent : -1 .. m, depth : Nat] : r.lo <= r.hi}
Over(r)   == r.lo .. r.hi
Whole(m)  == [lo |-> 0, hi |-> m, parent |-> -1, depth |-> 0]

Leveled(level, m) ==
  /\ level \in [0 .. m -> SUBSET Ranges(m)] /\ level[0] = {Whole(m)}
  /\ \A k \in 1 .. m : level[k] = UNION {Tree!Halves(r) : r \in level[k - 1]}

Ranged(nodes, level, m) ==
  nodes = [h \in 0 .. m |-> CHOOSE r \in UNION {level[k] : k \in 0 .. m} : Tree!Mid(r) = h]

LEMMA MidIs ==
  ASSUME NEW m \in Nat, NEW r \in Ranges(m)
  PROVE  Tree!Mid(r) \in Over(r) /\ Tree!Mid(r) \in 0 .. m
<1>1. r.lo \in Int /\ r.hi \in Int /\ r.lo <= r.hi /\ 0 <= r.lo /\ r.hi <= m  BY DEF Ranges
<1> DEFINE a == r.lo
           b == r.hi
           c == (b - a) \div 2
<1>2. c \in Int /\ 0 <= c /\ c <= b - a
  <2>1. a \in Int /\ b \in Int /\ a <= b  BY <1>1
  <2> HIDE DEF a, b
  <2> QED BY <2>1
<1>3. Tree!Mid(r) = a + c  BY DEF Tree!Mid
<1> HIDE DEF c
<1> QED BY <1>1, <1>2, <1>3 DEF Over

LEMMA HalvesIs ==
  ASSUME NEW m \in Nat, NEW r \in Ranges(m), NEW x \in Tree!Halves(r)
  PROVE  /\ x \in Ranges(m) /\ x.depth = r.depth + 1 /\ x.parent = Tree!Mid(r)
         /\ Over(x) \subseteq Over(r) /\ Tree!Mid(r) \notin Over(x)
         /\ x.hi - x.lo < r.hi - r.lo
         /\ \/ x.lo = r.lo /\ x.hi = Tree!Mid(r) - 1
            \/ x.lo = Tree!Mid(r) + 1 /\ x.hi = r.hi
<1> DEFINE h == Tree!Mid(r)
<1>1. h \in Int /\ r.lo <= h /\ h <= r.hi /\ h \in 0 .. m  BY MidIs DEF Over, Ranges
<1>2. r.lo \in Int /\ r.hi \in Int /\ 0 <= r.lo /\ r.hi <= m /\ r.depth \in Nat  BY DEF Ranges
<1>3. x.lo <= x.hi
      /\ (x = [lo |-> r.lo, hi |-> h - 1, parent |-> h, depth |-> r.depth + 1]
          \/ x = [lo |-> h + 1, hi |-> r.hi, parent |-> h, depth |-> r.depth + 1])
  BY DEF Tree!Halves
<1> HIDE DEF h
<1>4. x \in Ranges(m)  BY <1>1, <1>2, <1>3 DEF Ranges
<1>5. Over(x) \subseteq Over(r) /\ h \notin Over(x)  BY <1>1, <1>2, <1>3 DEF Over
<1> QED BY <1>1, <1>2, <1>3, <1>4, <1>5 DEF h

LEMMA HalvesCover ==
  ASSUME NEW m \in Nat, NEW r \in Ranges(m), NEW a \in Over(r), NEW b \in Over(r),
         (a < Tree!Mid(r) /\ b < Tree!Mid(r)) \/ (a > Tree!Mid(r) /\ b > Tree!Mid(r))
  PROVE  \E x \in Tree!Halves(r) : a \in Over(x) /\ b \in Over(x)
<1> DEFINE h == Tree!Mid(r)
           x1 == [lo |-> r.lo, hi |-> h - 1, parent |-> h, depth |-> r.depth + 1]
           x2 == [lo |-> h + 1, hi |-> r.hi, parent |-> h, depth |-> r.depth + 1]
<1>1. h \in Int /\ r.lo \in Int /\ r.hi \in Int  BY MidIs DEF Over, Ranges
<1>2. Tree!Halves(r) = {x \in {x1, x2} : x.lo <= x.hi}  BY DEF Tree!Halves
<1>3. CASE a < h /\ b < h
  <2>1. a \in Over(x1) /\ b \in Over(x1) /\ x1.lo <= x1.hi  BY <1>1, <1>3 DEF Over
  <2> QED BY <1>2, <2>1
<1>4. CASE a > h /\ b > h
  <2>1. a \in Over(x2) /\ b \in Over(x2) /\ x2.lo <= x2.hi  BY <1>1, <1>4 DEF Over
  <2> QED BY <1>2, <2>1
<1> QED BY <1>3, <1>4

LEMMA LevelsExist ==
  ASSUME NEW m \in Nat
  PROVE  \E level : Leveled(level, m) /\ Ranged(Tree!BuildRange(m), level, m)
<1> DEFINE F(f) == f = [k \in 0 .. m |-> IF k = 0 THEN {Whole(m)}
                                         ELSE UNION {Tree!Halves(r) : r \in f[k - 1]}]
           X == SUBSET Ranges(m)
           G == [y \in (1 .. m) \X X |-> UNION {Tree!Halves(r) : r \in y[2]}]
<1>1. Recursive(0, m, X, {Whole(m)}, G)
  <2>1. Whole(m) \in Ranges(m)  BY DEF Whole, Ranges
  <2>2. \A y \in (1 .. m) \X X : UNION {Tree!Halves(r) : r \in y[2]} \in X
    BY HalvesIs
  <2> QED BY <2>1, <2>2 DEF Recursive
<1>2. PICK f : Unrolled(f, 0, m, X, {Whole(m)}, G)
  <2> HIDE DEF G, X
  <2> QED BY <1>1, Recursion
<1>3. f \in [0 .. m -> X] /\ f[0] = {Whole(m)}
      /\ \A k \in 1 .. m : f[k] = UNION {Tree!Halves(r) : r \in f[k - 1]}
  <2>1. f \in [0 .. m -> X] /\ f[0] = {Whole(m)} /\ \A k \in 1 .. m : f[k] = G[<<k, f[k - 1]>>]
    <3> HIDE DEF G, X
    <3>1. 0 + 1 .. m = 1 .. m  OBVIOUS
    <3> QED BY <1>2, <3>1 DEF Unrolled
  <2>2. \A k \in 1 .. m : k - 1 \in 0 .. m  OBVIOUS
  <2>3. \A k \in 1 .. m : <<k, f[k - 1]>> \in (1 .. m) \X X  BY <2>1, <2>2
  <2> QED BY <2>1, <2>3
<1>4. F(f)
  <2>1. \A k \in 0 .. m : k = 0 \/ k \in 1 .. m  OBVIOUS
  <2> QED BY <1>3, <2>1
<1> DEFINE level == CHOOSE g : F(g)
<1>5. F(level)
  <2> HIDE DEF F
  <2> QED BY <1>4
<1>6. level = f
  <2> DEFINE S == {k \in 0 .. m : level[k] = f[k]}
  <2> HIDE DEF level
  <2>1. 0 \in S  BY <1>3, <1>5
  <2>2. ASSUME NEW k \in 0 .. m - 1, k \in S PROVE k + 1 \in S
    <3>1. k + 1 \in 0 .. m /\ k + 1 # 0 /\ (k + 1) - 1 = k /\ k + 1 \in 1 .. m  OBVIOUS
    <3>2. level[k + 1] = UNION {Tree!Halves(r) : r \in level[k]}  BY <1>5, <3>1
    <3>3. f[k + 1] = UNION {Tree!Halves(r) : r \in f[k]}  BY <1>3, <3>1
    <3> QED BY <2>2, <3>1, <3>2, <3>3
  <2>3. 0 .. m \subseteq S
    <3> HIDE DEF S
    <3> QED BY <2>1, <2>2, Induction
  <2>4. \A k \in 0 .. m : level[k] = f[k]  BY <2>3
  <2>5. level = [k \in 0 .. m |-> level[k]]
    <3> DEFINE E(k) == IF k = 0 THEN {Whole(m)} ELSE UNION {Tree!Halves(r) : r \in level[k - 1]}
    <3>1. level = [k \in 0 .. m |-> E(k)]  BY <1>5
    <3> HIDE DEF E
    <3> QED BY <3>1
  <2> QED BY <1>3, <2>4, <2>5
<1>7. Leveled(level, m)
  <2> HIDE DEF level
  <2> QED BY <1>3, <1>6 DEF Leveled
<1>8. Ranged(Tree!BuildRange(m), level, m)
  BY DEF Tree!BuildRange, Whole, Ranged
<1> HIDE DEF level
<1> QED BY <1>7, <1>8

LEMMA LevelIs ==
  ASSUME NEW m \in Nat, NEW level, Leveled(level, m), NEW k \in 0 .. m, NEW r \in level[k]
  PROVE  /\ r \in Ranges(m) /\ r.depth = k /\ r.hi - r.lo <= m - k
         /\ k = 0 => r = Whole(m)
         /\ k > 0 => \E p \in level[k - 1] : r \in Tree!Halves(p)
         /\ k < m => Tree!Halves(r) \subseteq level[k + 1]
<1>1. level \in [0 .. m -> SUBSET Ranges(m)] /\ level[0] = {Whole(m)}
      /\ \A i \in 1 .. m : level[i] = UNION {Tree!Halves(x) : x \in level[i - 1]}
  BY DEF Leveled
<1> DEFINE S == {i \in 0 .. m : \A x \in level[i] : x.depth = i /\ x.hi - x.lo <= m - i}
<1>2. 0 \in S
  <2>1. Whole(m).depth = 0 /\ Whole(m).hi - Whole(m).lo <= m - 0  BY DEF Whole
  <2> QED BY <1>1, <2>1
<1>3. ASSUME NEW i \in 0 .. m - 1, i \in S PROVE i + 1 \in S
  <2>1. i + 1 \in 0 .. m /\ i + 1 \in 1 .. m /\ (i + 1) - 1 = i /\ i \in 0 .. m  OBVIOUS
  <2>2. ASSUME NEW x \in level[i + 1]
        PROVE  x.depth = i + 1 /\ x.hi - x.lo <= m - (i + 1)
    <3>1. PICK p \in level[i] : x \in Tree!Halves(p)  BY <1>1, <2>1
    <3>2. p \in Ranges(m) /\ p.depth = i /\ p.hi - p.lo <= m - i  BY <1>1, <1>3, <2>1
    <3>3. x.depth = i + 1 /\ x.hi - x.lo < p.hi - p.lo /\ x \in Ranges(m)  BY <3>1, <3>2, HalvesIs
    <3>4. p.hi \in Int /\ p.lo \in Int /\ x.hi \in Int /\ x.lo \in Int  BY <3>2, <3>3 DEF Ranges
    <3> QED BY <3>2, <3>3, <3>4
  <2> QED BY <2>1, <2>2
<1>4. 0 .. m \subseteq S
  <2> HIDE DEF S
  <2> QED BY <1>2, <1>3, Induction
<1>5. r \in Ranges(m) /\ r.depth = k /\ r.hi - r.lo <= m - k  BY <1>1, <1>4
<1>6. k > 0 => \E p \in level[k - 1] : r \in Tree!Halves(p)
  <2>1. k > 0 => k \in 1 .. m  OBVIOUS
  <2> QED BY <1>1, <2>1
<1>7. k < m => Tree!Halves(r) \subseteq level[k + 1]
  <2>1. k < m => k + 1 \in 1 .. m /\ (k + 1) - 1 = k  OBVIOUS
  <2> QED BY <1>1, <2>1
<1> QED BY <1>1, <1>5, <1>6, <1>7

(* Above a range there is one at each lesser depth, whose middle it does not hold. *)
LEMMA LevelAbove ==
  ASSUME NEW m \in Nat, NEW level, Leveled(level, m), NEW j \in 0 .. m, NEW k \in j .. m, NEW r \in level[k]
  PROVE  \E p \in level[j] : Over(r) \subseteq Over(p) /\ (j < k => Tree!Mid(p) \notin Over(r))
<1> DEFINE P(x, i) == \E p \in level[j] : Over(x) \subseteq Over(p) /\ (j < i => Tree!Mid(p) \notin Over(x))
           S == {i \in j .. m : \A x \in level[i] : P(x, i)}
<1>1. j \in S  OBVIOUS
<1>2. ASSUME NEW i \in j .. m - 1, i \in S PROVE i + 1 \in S
  <2>1. i + 1 \in j .. m /\ i + 1 \in 0 .. m /\ i + 1 > 0 /\ (i + 1) - 1 = i /\ i \in 0 .. m /\ i \in j .. m
    OBVIOUS
  <2>2. ASSUME NEW x \in level[i + 1] PROVE P(x, i + 1)
    <3>1. PICK y \in level[i] : x \in Tree!Halves(y)  BY <2>1, LevelIs
    <3>2. y \in Ranges(m)  BY <2>1, LevelIs
    <3>3. Over(x) \subseteq Over(y) /\ Tree!Mid(y) \notin Over(x)  BY <3>1, <3>2, HalvesIs
    <3>4. CASE i = j
      <4>1. y \in level[j] /\ Over(x) \subseteq Over(y) /\ Tree!Mid(y) \notin Over(x)  BY <3>1, <3>3, <3>4
      <4> QED BY <4>1
    <3>5. CASE i # j
      <4>1. PICK p \in level[j] : Over(y) \subseteq Over(p) /\ (j < i => Tree!Mid(p) \notin Over(y))
        BY <1>2
      <4>2. Over(x) \subseteq Over(p) /\ Tree!Mid(p) \notin Over(x)  BY <3>3, <3>5, <4>1
      <4> QED BY <4>2
    <3> QED BY <3>4, <3>5
  <2> QED BY <2>1, <2>2
<1>3. j .. m \subseteq S
  <2> HIDE DEF S
  <2> QED BY <1>1, <1>2, Induction
<1> QED BY <1>3

LEMMA LevelUnique ==
  ASSUME NEW m \in Nat, NEW level, Leveled(level, m), NEW k \in 0 .. m,
         NEW r \in level[k], NEW s \in level[k], NEW x \in Int, x \in Over(r), x \in Over(s)
  PROVE  r = s
<1> DEFINE P(i) == \A a, b \in level[i] : x \in Over(a) /\ x \in Over(b) => a = b
           S == {i \in 0 .. m : P(i)}
<1>1. 0 \in S
  <2>1. \A a \in level[0] : a = Whole(m)  BY DEF Leveled
  <2> QED BY <2>1
<1>2. ASSUME NEW i \in 0 .. m - 1, i \in S PROVE i + 1 \in S
  <2>1. i + 1 \in 0 .. m /\ i + 1 > 0 /\ (i + 1) - 1 = i /\ i \in 0 .. m  OBVIOUS
  <2>2. ASSUME NEW a \in level[i + 1], NEW b \in level[i + 1], x \in Over(a), x \in Over(b)
        PROVE  a = b
    <3>1. PICK p \in level[i] : a \in Tree!Halves(p)  BY <2>1, LevelIs
    <3>2. PICK q \in level[i] : b \in Tree!Halves(q)  BY <2>1, LevelIs
    <3>3. p \in Ranges(m) /\ q \in Ranges(m)  BY <2>1, LevelIs
    <3>4. Over(a) \subseteq Over(p) /\ Over(b) \subseteq Over(q)  BY <3>1, <3>2, <3>3, HalvesIs
    <3>5. p = q  BY <1>2, <2>2, <3>4
    <3> DEFINE h == Tree!Mid(p)
               y1 == [lo |-> p.lo, hi |-> h - 1, parent |-> h, depth |-> p.depth + 1]
               y2 == [lo |-> h + 1, hi |-> p.hi, parent |-> h, depth |-> p.depth + 1]
    <3>6. a \in {y1, y2} /\ b \in {y1, y2}  BY <3>1, <3>2, <3>5 DEF Tree!Halves
    <3>7. h \in Int /\ p.lo \in Int /\ p.hi \in Int  BY <3>3, MidIs DEF Over, Ranges
    <3>8. ~(x \in Over(y1) /\ x \in Over(y2))  BY <3>7 DEF Over
    <3> HIDE DEF y1, y2
    <3> QED BY <2>2, <3>6, <3>8
  <2> QED BY <2>1, <2>2
<1>3. 0 .. m \subseteq S
  <2> HIDE DEF S
  <2> QED BY <1>1, <1>2, Induction
<1> QED BY <1>3

(* Each boundary is the middle of one range. *)
LEMMA MiddleExists ==
  ASSUME NEW m \in Nat, NEW level, Leveled(level, m), NEW h \in 0 .. m
  PROVE  \E k \in 0 .. m : \E r \in level[k] : Tree!Mid(r) = h
<1> DEFINE T == {n \in Nat : \E k \in 0 .. m : \E r \in level[k] : h \in Over(r) /\ r.hi - r.lo = n}
<1>1. T # {}
  <2>1. Whole(m) \in level[0] /\ h \in Over(Whole(m)) /\ Whole(m).hi - Whole(m).lo = m /\ 0 \in 0 .. m
    BY DEF Leveled, Whole, Over
  <2>2. m \in T  BY <2>1
  <2> QED BY <2>2
<1>2. PICK n \in T : \A x \in T : n <= x
  <2> HIDE DEF T
  <2>1. T \subseteq Nat  BY DEF T
  <2> QED BY <1>1, <2>1, LeastNat
<1>3a. PICK k \in 0 .. m : \E r \in level[k] : h \in Over(r) /\ r.hi - r.lo = n  OBVIOUS
<1>3. PICK r \in level[k] : h \in Over(r) /\ r.hi - r.lo = n  BY <1>3a
<1>4. r \in Ranges(m) /\ r.hi - r.lo <= m - k  BY LevelIs
<1>5. ASSUME Tree!Mid(r) # h PROVE FALSE
  <2>1. Tree!Mid(r) \in Int /\ (h < Tree!Mid(r) \/ h > Tree!Mid(r))  BY <1>4, <1>5, MidIs
  <2>2. PICK x \in Tree!Halves(r) : h \in Over(x)  BY <1>3, <1>4, <2>1, HalvesCover
  <2>3. x \in Ranges(m) /\ x.hi - x.lo < n  BY <1>3, <1>4, HalvesIs
  <2>4. x.hi - x.lo \in Nat /\ n \in Nat  BY <2>3 DEF Ranges
  <2>5. k < m  BY <1>3, <1>4, <2>3, <2>4
  <2>6. x \in level[k + 1] /\ k + 1 \in 0 .. m  BY <2>2, <2>5, LevelIs
  <2>7. x.hi - x.lo \in T  BY <2>2, <2>4, <2>6
  <2> QED BY <1>2, <2>3, <2>4, <2>7
<1> QED BY <1>5

LEMMA MiddleUnique ==
  ASSUME NEW m \in Nat, NEW level, Leveled(level, m), NEW j \in 0 .. m, NEW k \in j .. m,
         NEW r \in level[j], NEW s \in level[k], Tree!Mid(r) \in Over(s)
  PROVE  r = s
<1>1. k \in 0 .. m /\ r \in Ranges(m) /\ s \in Ranges(m)
  <2>1. k \in 0 .. m  OBVIOUS
  <2> QED BY <2>1, LevelIs
<1>2. PICK p \in level[j] : Over(s) \subseteq Over(p) /\ (j < k => Tree!Mid(p) \notin Over(s))
  BY LevelAbove
<1>3. Tree!Mid(r) \in Over(r) /\ Tree!Mid(r) \in Int  BY <1>1, MidIs
<1>4. p = r  BY <1>2, <1>3, LevelUnique
<1>5. j = k  BY <1>2, <1>4
<1> QED BY <1>3, <1>5, LevelUnique

(* What the proofs use of the nodes: every range holds its own boundary, the ranges
   are nested by depth, and a stretch on one side of a boundary lies in a range one
   deeper. *)
Nested(nodes, m) ==
  \A g, h \in 0 .. m : nodes[g].depth <= nodes[h].depth =>
    \A x \in Over(nodes[g]) : x \in Over(nodes[h]) => Over(nodes[h]) \subseteq Over(nodes[g])

Deeper(nodes, m) ==
  \A g, h \in 0 .. m : g # h /\ h \in Over(nodes[g]) => nodes[g].depth < nodes[h].depth

Parented(nodes, m) ==
  \A h \in 0 .. m : nodes[h].depth > 0 =>
    /\ nodes[h].parent \in 0 .. m
    /\ nodes[nodes[h].parent].depth = nodes[h].depth - 1
    /\ Over(nodes[h]) \subseteq Over(nodes[nodes[h].parent])

Branching(nodes, m) ==
  \A g \in 0 .. m : \A a, b \in Over(nodes[g]) : (a < g /\ b < g) \/ (a > g /\ b > g) =>
    \E h \in 0 .. m : a \in Over(nodes[h]) /\ b \in Over(nodes[h]) /\ nodes[g].depth < nodes[h].depth

Noded(nodes, m) ==
  /\ nodes \in [0 .. m -> Ranges(m)] /\ \A h \in 0 .. m : h \in Over(nodes[h])
  /\ \A h \in 0 .. m : nodes[h].depth = 0 => Over(nodes[h]) = 0 .. m
  /\ Nested(nodes, m) /\ Deeper(nodes, m) /\ Parented(nodes, m) /\ Branching(nodes, m)

LEMMA NodesAre ==
  ASSUME NEW m \in Nat
  PROVE  Noded(Tree!BuildRange(m), m)
<1> DEFINE nodes == Tree!BuildRange(m)
<1>1. PICK level : Leveled(level, m) /\ Ranged(nodes, level, m)  BY LevelsExist
<1> HIDE DEF nodes
<1> DEFINE U == UNION {level[k] : k \in 0 .. m}
<1>2. ASSUME NEW h \in 0 .. m
      PROVE  nodes[h] \in U /\ Tree!Mid(nodes[h]) = h
  <2>1. PICK k \in 0 .. m : \E r \in level[k] : Tree!Mid(r) = h  BY <1>1, MiddleExists
  <2>2. \E r \in U : Tree!Mid(r) = h  BY <2>1
  <2>3. nodes[h] = CHOOSE r \in U : Tree!Mid(r) = h  BY <1>1 DEF Ranged
  <2> HIDE DEF U
  <2> QED BY <2>2, <2>3
<1>3. ASSUME NEW k \in 0 .. m, NEW r \in level[k]
      PROVE  Tree!Mid(r) \in 0 .. m /\ nodes[Tree!Mid(r)] = r
  <2>1. r \in Ranges(m) /\ Tree!Mid(r) \in 0 .. m  BY <1>1, LevelIs, MidIs
  <2> DEFINE s == nodes[Tree!Mid(r)]
  <2>2. s \in U /\ Tree!Mid(s) = Tree!Mid(r)  BY <1>2, <2>1
  <2>3. PICK j \in 0 .. m : s \in level[j]  BY <2>2
  <2> HIDE DEF s
  <2>4. s \in Ranges(m)  BY <1>1, <2>3, LevelIs
  <2>5. Tree!Mid(r) \in Over(s) /\ Tree!Mid(s) \in Over(r)  BY <2>1, <2>2, <2>4, MidIs
  <2>6. j \in k .. m \/ k \in j .. m  OBVIOUS
  <2>7. s = r  BY <1>1, <2>3, <2>5, <2>6, MiddleUnique
  <2> QED BY <2>1, <2>7 DEF s
<1>4. ASSUME NEW h \in 0 .. m
      PROVE  nodes[h].depth \in 0 .. m /\ nodes[h] \in level[nodes[h].depth] /\ nodes[h] \in Ranges(m)
             /\ h \in Over(nodes[h])
  <2>1. PICK k \in 0 .. m : nodes[h] \in level[k]  BY <1>2
  <2>2. nodes[h] \in Ranges(m) /\ nodes[h].depth = k  BY <1>1, <2>1, LevelIs
  <2>3. h \in Over(nodes[h])  BY <1>2, <2>2, MidIs
  <2> QED BY <2>1, <2>2, <2>3
<1>5. nodes \in [0 .. m -> Ranges(m)]
  <2>1. nodes = [h \in 0 .. m |-> nodes[h]]
    <3> DEFINE E(h) == CHOOSE r \in U : Tree!Mid(r) = h
    <3>1. nodes = [h \in 0 .. m |-> E(h)]  BY <1>1 DEF Ranged
    <3> HIDE DEF E
    <3> QED BY <3>1
  <2> QED BY <2>1, <1>4
<1>6. ASSUME NEW h \in 0 .. m, nodes[h].depth = 0 PROVE Over(nodes[h]) = 0 .. m
  <2>1. nodes[h] = Whole(m)  BY <1>1, <1>4, <1>6, LevelIs
  <2> QED BY <2>1 DEF Whole, Over
<1>7. Nested(nodes, m)
  <2> SUFFICES ASSUME NEW g \in 0 .. m, NEW h \in 0 .. m, nodes[g].depth <= nodes[h].depth,
                      NEW x \in Over(nodes[g]), x \in Over(nodes[h])
               PROVE  Over(nodes[h]) \subseteq Over(nodes[g])
    BY DEF Nested
  <2> DEFINE j == nodes[g].depth
             k == nodes[h].depth
  <2>1. j \in 0 .. m /\ k \in j .. m /\ nodes[g] \in level[j] /\ nodes[h] \in level[k] /\ x \in Int
    BY <1>4 DEF Over
  <2> DEFINE r == nodes[h]
  <2> HIDE DEF j, k, r
  <2>2. r \in level[k] /\ m \in Nat /\ Leveled(level, m)  BY <1>1, <2>1 DEF r
  <2>3. \E p \in level[j] : Over(r) \subseteq Over(p) /\ (j < k => Tree!Mid(p) \notin Over(r))
    BY ONLY <2>1, <2>2, LevelAbove
  <2>4. PICK p \in level[j] : Over(nodes[h]) \subseteq Over(p)  BY <2>3 DEF r
  <2>5. p = nodes[g]  BY <1>1, <2>1, <2>4, LevelUnique
  <2> QED BY <2>4, <2>5
<1>8. Deeper(nodes, m)
  <2> SUFFICES ASSUME NEW g \in 0 .. m, NEW h \in 0 .. m, g # h, h \in Over(nodes[g]),
                      ~(nodes[g].depth < nodes[h].depth)
               PROVE  FALSE
    BY DEF Deeper
  <2> DEFINE j == nodes[h].depth
             k == nodes[g].depth
  <2>1. j \in 0 .. m /\ k \in j .. m /\ nodes[h] \in level[j] /\ nodes[g] \in level[k]
    BY <1>4
  <2> HIDE DEF j, k
  <2>2. Tree!Mid(nodes[h]) = h /\ Tree!Mid(nodes[g]) = g  BY <1>2
  <2>3. nodes[h] = nodes[g]  BY <1>1, <2>1, <2>2, MiddleUnique
  <2> QED BY <2>2, <2>3
<1>9. Parented(nodes, m)
  <2> SUFFICES ASSUME NEW h \in 0 .. m, nodes[h].depth > 0
               PROVE  /\ nodes[h].parent \in 0 .. m
                      /\ nodes[nodes[h].parent].depth = nodes[h].depth - 1
                      /\ Over(nodes[h]) \subseteq Over(nodes[nodes[h].parent])
    BY DEF Parented
  <2> DEFINE k == nodes[h].depth
  <2>1. k \in 0 .. m /\ k > 0 /\ k - 1 \in 0 .. m /\ nodes[h] \in level[k]  BY <1>4
  <2>2. PICK p \in level[k - 1] : nodes[h] \in Tree!Halves(p)
    <3> HIDE DEF k
    <3> QED BY <1>1, <2>1, LevelIs
  <2>3. p \in Ranges(m) /\ p.depth = k - 1
    <3> HIDE DEF k
    <3> QED BY <1>1, <2>1, LevelIs
  <2>4. Tree!Mid(p) \in 0 .. m /\ nodes[Tree!Mid(p)] = p
    <3> HIDE DEF k
    <3> QED BY <1>3, <2>1
  <2>5. nodes[h].parent = Tree!Mid(p) /\ Over(nodes[h]) \subseteq Over(p)  BY <2>2, <2>3, HalvesIs
  <2> QED BY <2>3, <2>4, <2>5
<1>10. Branching(nodes, m)
  <2> SUFFICES ASSUME NEW g \in 0 .. m, NEW a \in Over(nodes[g]), NEW b \in Over(nodes[g]),
                      (a < g /\ b < g) \/ (a > g /\ b > g)
               PROVE  \E h \in 0 .. m : a \in Over(nodes[h]) /\ b \in Over(nodes[h])
                                        /\ nodes[g].depth < nodes[h].depth
    BY DEF Branching
  <2> DEFINE k == nodes[g].depth
  <2>1. k \in 0 .. m /\ nodes[g] \in level[k] /\ nodes[g] \in Ranges(m) /\ Tree!Mid(nodes[g]) = g
        /\ g \in Over(nodes[g])
    BY <1>2, <1>4
  <2>2. PICK x \in Tree!Halves(nodes[g]) : a \in Over(x) /\ b \in Over(x)  BY <2>1, HalvesCover
  <2>3. x.depth = k + 1  BY <2>1, <2>2, HalvesIs
  <2>4. k < m
    <3>1. nodes[g].hi - nodes[g].lo <= m - k  BY <1>1, <2>1, LevelIs
    <3>2. nodes[g].hi \in Int /\ nodes[g].lo \in Int  BY <2>1 DEF Ranges
    <3>3. nodes[g].lo < nodes[g].hi  BY <2>1, <3>2 DEF Over
    <3> HIDE DEF k
    <3> QED BY <2>1, <3>1, <3>2, <3>3
  <2>5. k + 1 \in 0 .. m /\ x \in level[k + 1]
    <3> HIDE DEF k
    <3> QED BY <1>1, <2>1, <2>2, <2>4, LevelIs
  <2>6. Tree!Mid(x) \in 0 .. m /\ nodes[Tree!Mid(x)] = x  BY <1>3, <2>5
  <2> QED BY <2>1, <2>2, <2>3, <2>6
<1> QED BY <1>4, <1>5, <1>6, <1>7, <1>8, <1>9, <1>10 DEF Noded, nodes

-----------------------------------------------------------------------------
(* Climbing: the parents above a node, and where two climbs meet. *)
LEMMA AboveIs ==
  ASSUME NEW m \in Nat, NEW nodes, Noded(nodes, m), NEW h \in 0 .. m, NEW k \in 0 .. nodes[h].depth
  PROVE  /\ Tree!Above(nodes, h, k) \in 0 .. m
         /\ nodes[Tree!Above(nodes, h, k)].depth = nodes[h].depth - k
         /\ Over(nodes[h]) \subseteq Over(nodes[Tree!Above(nodes, h, k)])
<1> DEFINE F(f) == f = [i \in 0 .. k |-> IF i = 0 THEN h ELSE nodes[f[i - 1]].parent]
           X == -1 .. m
           G == [y \in (1 .. k) \X X |-> IF y[2] \in 0 .. m THEN nodes[y[2]].parent ELSE -1]
           N == nodes[h].depth
<1>0. nodes \in [0 .. m -> Ranges(m)] /\ Parented(nodes, m)  BY DEF Noded
<1>1. N \in Nat /\ k \in 0 .. N  BY <1>0 DEF Ranges
<1> HIDE DEF N
<1>2. Recursive(0, k, X, h, G)
  <2>1. \A y \in 0 .. m : nodes[y].parent \in X  BY <1>0 DEF Ranges
  <2>2. 0 + 1 .. k = 1 .. k /\ h \in X /\ -1 \in X /\ k \in Int /\ 0 <= k  BY <1>1
  <2>3. \A y \in (1 .. k) \X X : G[y] \in X  BY <2>1, <2>2
  <2>4. G \in [(1 .. k) \X X -> X]  BY <2>3
  <2> HIDE DEF G, X
  <2> QED BY <2>2, <2>4 DEF Recursive
<1>3. PICK f : Unrolled(f, 0, k, X, h, G)
  <2> HIDE DEF G, X
  <2> QED BY <1>2, Recursion
<1>4. f \in [0 .. k -> X] /\ f[0] = h /\ \A i \in 1 .. k : f[i] = G[<<i, f[i - 1]>>]
  <2> HIDE DEF G, X
  <2>1. 0 + 1 .. k = 1 .. k  OBVIOUS
  <2> QED BY <1>3, <2>1 DEF Unrolled
<1> DEFINE S(g) == {i \in 0 .. k : g[i] \in 0 .. m /\ nodes[g[i]].depth = N - i
                                   /\ Over(nodes[h]) \subseteq Over(nodes[g[i]])}
           Climbs(g) == g[0] = h /\ \A i \in 1 .. k : g[i - 1] \in 0 .. m => g[i] = nodes[g[i - 1]].parent
<1>5. ASSUME NEW g, Climbs(g) PROVE 0 .. k \subseteq S(g)
  <2>1. 0 \in S(g)
    <3>1. g[0] = h /\ nodes[h].depth = N - 0 /\ h \in 0 .. m /\ 0 \in 0 .. k  BY <1>1, <1>5 DEF N
    <3> QED BY <3>1
  <2>2. ASSUME NEW i \in 0 .. k - 1, i \in S(g) PROVE i + 1 \in S(g)
    <3>1. i + 1 \in 1 .. k /\ i + 1 \in 0 .. k /\ (i + 1) - 1 = i  BY <1>1
    <3>2. g[i] \in 0 .. m /\ nodes[g[i]].depth = N - i /\ Over(nodes[h]) \subseteq Over(nodes[g[i]])
      BY <2>2
    <3>3. g[i + 1] = nodes[g[i]].parent  BY <1>5, <3>1, <3>2
    <3>4. N - i > 0 /\ N - i - 1 = N - (i + 1)  BY <1>1
    <3>5. nodes[g[i]].parent \in 0 .. m /\ nodes[nodes[g[i]].parent].depth = nodes[g[i]].depth - 1
          /\ Over(nodes[g[i]]) \subseteq Over(nodes[nodes[g[i]].parent])
      BY <1>0, <3>2, <3>4 DEF Parented
    <3> QED BY <3>1, <3>2, <3>3, <3>4, <3>5
  <2> DEFINE T == S(g)
  <2>3. 0 \in T /\ \A i \in 0 .. k - 1 : i \in T => i + 1 \in T  BY <2>1, <2>2
  <2> HIDE DEF T
  <2>4. 0 .. k \subseteq T  BY <2>3, Induction
  <2> QED BY <2>4 DEF T
<1>6. Climbs(f)
  <2>1. ASSUME NEW i \in 1 .. k, f[i - 1] \in 0 .. m PROVE f[i] = nodes[f[i - 1]].parent
    <3>1. i - 1 \in 0 .. k /\ <<i, f[i - 1]>> \in (1 .. k) \X X  BY <1>4
    <3> QED BY <1>4, <2>1, <3>1
  <2> QED BY <1>4, <2>1
<1>7. F(f)
  <2>1. 0 .. k \subseteq S(f)  BY <1>5, <1>6
  <2>2. ASSUME NEW i \in 0 .. k PROVE f[i] = IF i = 0 THEN h ELSE nodes[f[i - 1]].parent
    <3>1. i = 0 \/ (i \in 1 .. k /\ i - 1 \in 0 .. k)  OBVIOUS
    <3>2. i - 1 \in 0 .. k => f[i - 1] \in 0 .. m  BY <2>1
    <3> QED BY <1>6, <3>1, <3>2
  <2> HIDE DEF X
  <2> QED BY <1>4, <2>2
<1> DEFINE up == CHOOSE g : F(g)
<1>8. F(up)
  <2> HIDE DEF F
  <2> QED BY <1>7
<1>9. Tree!Above(nodes, h, k) = up[k]  BY DEF Tree!Above
<1> HIDE DEF up
<1>10. Climbs(up)
  <2>1. \A i \in 1 .. k : i \in 0 .. k /\ i # 0  OBVIOUS
  <2>2. 0 \in 0 .. k  BY <1>1
  <2> QED BY <1>8, <2>1, <2>2
<1>11. k \in S(up)
  <2>1. k \in 0 .. k  BY <1>1
  <2> HIDE DEF Climbs, S
  <2> QED BY <1>5, <1>10, <2>1
<1> QED BY <1>9, <1>11 DEF N

(* A node whose range holds h is above h. *)
LEMMA UpwardsHold ==
  ASSUME NEW m \in Nat, NEW nodes, Noded(nodes, m), NEW h \in 0 .. m, NEW g \in 0 .. m, h \in Over(nodes[g])
  PROVE  g \in Tree!Upwards(nodes, h)
<1>1. nodes[g].depth \in Nat /\ nodes[h].depth \in Nat /\ Deeper(nodes, m) /\ Nested(nodes, m)
  BY DEF Noded, Ranges
<1>2. nodes[g].depth <= nodes[h].depth  BY <1>1 DEF Deeper
<1> DEFINE k == nodes[h].depth - nodes[g].depth
           a == Tree!Above(nodes, h, k)
<1>3. k \in 0 .. nodes[h].depth /\ nodes[h].depth - k = nodes[g].depth  BY <1>1, <1>2
<1>4. a \in 0 .. m /\ nodes[a].depth = nodes[g].depth /\ Over(nodes[h]) \subseteq Over(nodes[a])
  <2> HIDE DEF k
  <2> QED BY <1>3, AboveIs
<1>5. h \in Over(nodes[a])  BY <1>4 DEF Noded
<1> HIDE DEF a
<1>6. Over(nodes[a]) \subseteq Over(nodes[g])  BY <1>1, <1>4, <1>5 DEF Nested
<1>7. a \in Over(nodes[g])  BY <1>4, <1>6 DEF Noded
<1>8. a = g  BY <1>1, <1>4, <1>7 DEF Deeper
<1> QED BY <1>3, <1>8 DEF Tree!Upwards, a

(* Two climbs at p and q that came from a and b. *)
Climbing(nodes, m, a, b, p, q) ==
  /\ p \in 0 .. m /\ q \in 0 .. m /\ a \in Over(nodes[p]) /\ b \in Over(nodes[q])
  /\ \A g \in 0 .. m : a \in Over(nodes[g]) /\ b \in Over(nodes[g]) =>
                         p \in Over(nodes[g]) /\ q \in Over(nodes[g])

LEMMA ClimbStep ==
  ASSUME NEW m \in Nat, NEW nodes, Noded(nodes, m), NEW a, NEW b, NEW p, NEW q,
         Climbing(nodes, m, a, b, p, q), p # q, nodes[p].depth >= nodes[q].depth
  PROVE  /\ nodes[p].depth > 0 /\ nodes[p].parent \in 0 .. m
         /\ nodes[nodes[p].parent].depth = nodes[p].depth - 1
         /\ a \in Over(nodes[nodes[p].parent])
         /\ \A g \in 0 .. m : a \in Over(nodes[g]) /\ b \in Over(nodes[g]) => nodes[p].parent \in Over(nodes[g])
<1>1. p \in 0 .. m /\ q \in 0 .. m /\ a \in Over(nodes[p]) /\ b \in Over(nodes[q])
  BY DEF Climbing
<1>2. nodes[p].depth \in Nat /\ nodes[q].depth \in Nat /\ Deeper(nodes, m) /\ Nested(nodes, m) /\ Parented(nodes, m)
      /\ p \in Over(nodes[p])
  BY <1>1 DEF Noded, Ranges
<1>3. nodes[p].depth > 0
  <2> SUFFICES ASSUME nodes[p].depth = 0 PROVE FALSE  BY <1>2
  <2>1. q \in Over(nodes[p])  BY <1>1 DEF Noded
  <2> QED BY <1>1, <1>2, <2>1 DEF Deeper
<1>4. nodes[p].parent \in 0 .. m /\ nodes[nodes[p].parent].depth = nodes[p].depth - 1
      /\ Over(nodes[p]) \subseteq Over(nodes[nodes[p].parent])
  BY <1>1, <1>2, <1>3 DEF Parented
<1>5. ASSUME NEW g \in 0 .. m, a \in Over(nodes[g]), b \in Over(nodes[g])
      PROVE  nodes[p].parent \in Over(nodes[g])
  <2>1. p \in Over(nodes[g]) /\ q \in Over(nodes[g])  BY <1>5 DEF Climbing
  <2>2. g # p  BY <1>1, <1>2, <2>1 DEF Deeper
  <2>3. nodes[g].depth < nodes[p].depth /\ nodes[g].depth \in Nat
    BY <1>1, <1>2, <2>1, <2>2 DEF Deeper, Noded, Ranges
  <2>4. nodes[g].depth <= nodes[nodes[p].parent].depth  BY <1>2, <1>4, <2>3
  <2>5. p \in Over(nodes[nodes[p].parent])  BY <1>2, <1>4
  <2>6. Over(nodes[nodes[p].parent]) \subseteq Over(nodes[g])  BY <1>2, <1>4, <2>1, <2>4, <2>5 DEF Nested
  <2>7. nodes[p].parent \in Over(nodes[nodes[p].parent])  BY <1>4 DEF Noded
  <2> QED BY <2>6, <2>7
<1> QED BY <1>1, <1>3, <1>4, <1>5

ClimbOf(nodes, p) ==
  CASE p[1] = p[2] -> p
    [] nodes[p[1]].depth > nodes[p[2]].depth -> <<nodes[p[1]].parent, p[2]>>
    [] nodes[p[1]].depth < nodes[p[2]].depth -> <<p[1], nodes[p[2]].parent>>
    [] OTHER -> <<nodes[p[1]].parent, nodes[p[2]].parent>>

Depths(nodes, p) == nodes[p[1]].depth + nodes[p[2]].depth

LEMMA ClimbOfIs ==
  ASSUME NEW m \in Nat, NEW nodes, Noded(nodes, m), NEW a, NEW b, NEW x \in (0 .. m) \X (0 .. m),
         Climbing(nodes, m, a, b, x[1], x[2])
  PROVE  LET y == ClimbOf(nodes, x)
         IN  /\ y \in (0 .. m) \X (0 .. m) /\ Climbing(nodes, m, a, b, y[1], y[2])
             /\ IF x[1] = x[2] THEN y = x ELSE Depths(nodes, y) < Depths(nodes, x)
<1> DEFINE p == x[1]
           q == x[2]
           y == ClimbOf(nodes, x)
<1>0. p \in 0 .. m /\ q \in 0 .. m /\ Climbing(nodes, m, a, b, p, q) /\ x = <<p, q>>  OBVIOUS
<1>1. \A g \in 0 .. m : nodes[g].depth \in Nat  BY DEF Noded, Ranges
<1>2. Climbing(nodes, m, b, a, q, p)  BY <1>0 DEF Climbing
<1>3. CASE p = q
  <2>0. ~(nodes[p].depth > nodes[q].depth) /\ ~(nodes[p].depth < nodes[q].depth)  BY <1>0, <1>1, <1>3
  <2>1. y = x  BY <1>3, <2>0 DEF ClimbOf
  <2> QED BY <1>0, <1>3, <2>1
<1>4. CASE p # q /\ nodes[p].depth > nodes[q].depth
  <2>0. ~(nodes[p].depth < nodes[q].depth)  BY <1>0, <1>1, <1>4
  <2>1. y = <<nodes[p].parent, q>>  BY <1>4, <2>0 DEF ClimbOf
  <2>2. /\ nodes[p].parent \in 0 .. m
        /\ nodes[nodes[p].parent].depth = nodes[p].depth - 1
        /\ a \in Over(nodes[nodes[p].parent])
        /\ \A g \in 0 .. m : a \in Over(nodes[g]) /\ b \in Over(nodes[g]) => nodes[p].parent \in Over(nodes[g])
    BY <1>0, <1>1, <1>4, ClimbStep
  <2>3. Climbing(nodes, m, a, b, nodes[p].parent, q)  BY <1>0, <2>2 DEF Climbing
  <2>4. nodes[nodes[p].parent].depth + nodes[q].depth < nodes[p].depth + nodes[q].depth
    BY <1>0, <1>1, <2>2
  <2> QED BY <1>0, <1>4, <2>1, <2>2, <2>3, <2>4 DEF Depths
<1>5. CASE p # q /\ nodes[p].depth < nodes[q].depth
  <2>1. y = <<p, nodes[q].parent>>
    <3>1. ~(nodes[p].depth > nodes[q].depth)  BY <1>0, <1>1, <1>5
    <3> QED BY <1>5, <3>1 DEF ClimbOf
  <2>2. /\ nodes[q].parent \in 0 .. m
        /\ nodes[nodes[q].parent].depth = nodes[q].depth - 1
        /\ b \in Over(nodes[nodes[q].parent])
        /\ \A g \in 0 .. m : b \in Over(nodes[g]) /\ a \in Over(nodes[g]) => nodes[q].parent \in Over(nodes[g])
    BY <1>0, <1>1, <1>2, <1>5, ClimbStep
  <2>3. Climbing(nodes, m, a, b, p, nodes[q].parent)  BY <1>0, <2>2 DEF Climbing
  <2>4. nodes[p].depth + nodes[nodes[q].parent].depth < nodes[p].depth + nodes[q].depth
    BY <1>0, <1>1, <2>2
  <2> QED BY <1>0, <1>5, <2>1, <2>2, <2>3, <2>4 DEF Depths
<1>6. CASE p # q /\ nodes[p].depth = nodes[q].depth
  <2>1. y = <<nodes[p].parent, nodes[q].parent>>
    <3>1. ~(nodes[p].depth > nodes[q].depth) /\ ~(nodes[p].depth < nodes[q].depth)  BY <1>0, <1>1, <1>6
    <3> QED BY <1>6, <3>1 DEF ClimbOf
  <2>2. /\ nodes[q].parent \in 0 .. m
        /\ nodes[nodes[q].parent].depth = nodes[q].depth - 1
        /\ b \in Over(nodes[nodes[q].parent])
        /\ \A g \in 0 .. m : b \in Over(nodes[g]) /\ a \in Over(nodes[g]) => nodes[q].parent \in Over(nodes[g])
    BY <1>0, <1>1, <1>2, <1>6, ClimbStep
  <2>3. /\ nodes[p].parent \in 0 .. m
        /\ nodes[nodes[p].parent].depth = nodes[p].depth - 1
        /\ a \in Over(nodes[nodes[p].parent])
        /\ \A g \in 0 .. m : a \in Over(nodes[g]) /\ b \in Over(nodes[g]) => nodes[p].parent \in Over(nodes[g])
    BY <1>0, <1>1, <1>6, ClimbStep
  <2>4. Climbing(nodes, m, a, b, nodes[p].parent, nodes[q].parent)  BY <2>2, <2>3 DEF Climbing
  <2>5. nodes[nodes[p].parent].depth + nodes[nodes[q].parent].depth < nodes[p].depth + nodes[q].depth
    BY <1>0, <1>1, <2>2, <2>3
  <2> QED BY <1>0, <1>6, <2>1, <2>2, <2>3, <2>4, <2>5 DEF Depths
<1>7. nodes[p].depth \in Nat /\ nodes[q].depth \in Nat  BY <1>0, <1>1
<1> QED BY <1>3, <1>4, <1>5, <1>6, <1>7

(* The meeting point: the lowest node whose range holds both. *)
LEMMA LcaIs ==
  ASSUME NEW m \in Nat, NEW nodes, Noded(nodes, m), NEW a \in 0 .. m, NEW b \in 0 .. m
  PROVE  LET h == Tree!Lca(nodes, a, b)
         IN  /\ h \in 0 .. m /\ a \in Over(nodes[h]) /\ b \in Over(nodes[h])
             /\ \A g \in 0 .. m : a \in Over(nodes[g]) /\ b \in Over(nodes[g]) => h \in Over(nodes[g])
<1> DEFINE n == Depths(nodes, <<a, b>>)
           X == (0 .. m) \X (0 .. m)
           F(f) == f = [i \in 0 .. n |-> IF i = 0 THEN <<a, b>> ELSE ClimbOf(nodes, f[i - 1])]
           G == [y \in (1 .. n) \X X |-> ClimbOf(nodes, y[2])]
<1>0. /\ \A g \in 0 .. m : nodes[g].depth \in Nat /\ g \in Over(nodes[g])
      /\ n \in Nat /\ <<a, b>> \in X
  <2>1. \A g \in 0 .. m : nodes[g].depth \in Nat /\ g \in Over(nodes[g])  BY DEF Noded, Ranges
  <2>2. n = nodes[a].depth + nodes[b].depth  BY DEF Depths
  <2> QED BY <2>1, <2>2
<1>1. \A x \in X : ClimbOf(nodes, x) \in X
  <2> SUFFICES ASSUME NEW x \in X PROVE ClimbOf(nodes, x) \in X  OBVIOUS
  <2>1. Climbing(nodes, m, x[1], x[2], x[1], x[2])  BY <1>0 DEF Climbing
  <2> QED BY <2>1, ClimbOfIs
<1>2. Recursive(0, n, X, <<a, b>>, G)
  <2>1. \A y \in (1 .. n) \X X : G[y] \in X  BY <1>1
  <2>2. G \in [(1 .. n) \X X -> X]  BY <2>1
  <2> HIDE DEF G, X, n
  <2>3. 0 + 1 .. n = 1 .. n /\ n \in Int /\ 0 <= n  BY <1>0
  <2> QED BY <1>0, <2>2, <2>3 DEF Recursive
<1>3. PICK f : Unrolled(f, 0, n, X, <<a, b>>, G)
  <2> HIDE DEF G, X, n
  <2> QED BY <1>2, Recursion
<1>4. f \in [0 .. n -> X] /\ f[0] = <<a, b>> /\ \A i \in 1 .. n : f[i] = ClimbOf(nodes, f[i - 1])
  <2>1. f \in [0 .. n -> X] /\ f[0] = <<a, b>> /\ \A i \in 1 .. n : f[i] = G[<<i, f[i - 1]>>]
    <3> HIDE DEF G, X, n
    <3>1. 0 + 1 .. n = 1 .. n  BY <1>0
    <3> QED BY <1>3, <3>1 DEF Unrolled
  <2>2. ASSUME NEW i \in 1 .. n PROVE f[i] = ClimbOf(nodes, f[i - 1])
    <3>1. i - 1 \in 0 .. n  BY <1>0
    <3>2. <<i, f[i - 1]>> \in (1 .. n) \X X  BY <2>1, <3>1
    <3> HIDE DEF X, n
    <3> QED BY <2>1, <3>2
  <2> QED BY <2>1, <2>2
<1> HIDE DEF n
<1>5. F(f)
  <2>1. \A i \in 0 .. n : i = 0 \/ i \in 1 .. n  BY <1>0
  <2> QED BY <1>4, <2>1
<1> DEFINE pair == CHOOSE g : F(g)
<1>6. F(pair)
  <2> HIDE DEF F
  <2> QED BY <1>5
<1>7. Tree!Lca(nodes, a, b) = pair[n][1]
  BY DEF Tree!Lca, ClimbOf, Depths, n
<1> HIDE DEF pair
<1> DEFINE S == {i \in 0 .. n : /\ pair[i] \in X /\ Climbing(nodes, m, a, b, pair[i][1], pair[i][2])
                                /\ \/ pair[i][1] = pair[i][2]
                                   \/ Depths(nodes, pair[i]) <= n - i}
<1>8. 0 \in S
  <2>1. 0 \in 0 .. n /\ pair[0] = <<a, b>>  BY <1>0, <1>6
  <2>2. Climbing(nodes, m, a, b, a, b)  BY <1>0 DEF Climbing
  <2>3. Depths(nodes, <<a, b>>) <= n - 0  BY <1>0 DEF n
  <2> QED BY <1>0, <2>1, <2>2, <2>3
<1>9. ASSUME NEW i \in 0 .. n - 1, i \in S PROVE i + 1 \in S
  <2>1. i + 1 \in 0 .. n /\ i + 1 # 0 /\ (i + 1) - 1 = i  BY <1>0
  <2>2. pair[i + 1] = ClimbOf(nodes, pair[i])  BY <1>6, <2>1
  <2>3. pair[i] \in X /\ Climbing(nodes, m, a, b, pair[i][1], pair[i][2])  BY <1>9
  <2>4. /\ pair[i + 1] \in X /\ Climbing(nodes, m, a, b, pair[i + 1][1], pair[i + 1][2])
        /\ IF pair[i][1] = pair[i][2] THEN pair[i + 1] = pair[i]
           ELSE Depths(nodes, pair[i + 1]) < Depths(nodes, pair[i])
    BY <2>2, <2>3, ClimbOfIs
  <2>5. pair[i][1] # pair[i][2] => Depths(nodes, pair[i + 1]) <= n - (i + 1)
    <3>1. Depths(nodes, pair[i + 1]) \in Int /\ Depths(nodes, pair[i]) \in Int
      BY <1>0, <2>3, <2>4 DEF Depths
    <3>2. pair[i][1] # pair[i][2] => Depths(nodes, pair[i]) <= n - i  BY <1>9
    <3> QED BY <1>0, <2>4, <3>1, <3>2
  <2> QED BY <2>1, <2>4, <2>5
<1>10. n \in S
  <2> HIDE DEF S
  <2>1. 0 .. n \subseteq S  BY <1>0, <1>8, <1>9, Induction
  <2> QED BY <1>0, <2>1
<1>11. pair[n][1] = pair[n][2]
  <2> SUFFICES ASSUME pair[n][1] # pair[n][2] PROVE FALSE  OBVIOUS
  <2> DEFINE p == pair[n][1]
             q == pair[n][2]
  <2>1. p \in 0 .. m /\ q \in 0 .. m /\ nodes[p].depth + nodes[q].depth <= 0
    BY <1>0, <1>10 DEF Depths
  <2> HIDE DEF p, q
  <2>2. nodes[p].depth = 0 /\ nodes[q].depth = 0  BY <1>0, <2>1
  <2>3. q \in Over(nodes[p]) /\ p # q  BY <2>1, <2>2 DEF Noded, p, q
  <2> QED BY <2>1, <2>2, <2>3 DEF Noded, Deeper
<1> QED BY <1>7, <1>10, <1>11 DEF Climbing

LEMMA LcaBetween ==
  ASSUME NEW m \in Nat, NEW nodes, Noded(nodes, m), NEW a \in 0 .. m, NEW b \in 0 .. m, a <= b
  PROVE  Tree!Lca(nodes, a, b) \in a .. b
<1> DEFINE h == Tree!Lca(nodes, a, b)
<1>1. /\ h \in 0 .. m /\ a \in Over(nodes[h]) /\ b \in Over(nodes[h])
      /\ \A g \in 0 .. m : a \in Over(nodes[g]) /\ b \in Over(nodes[g]) => h \in Over(nodes[g])
  BY LcaIs
<1> HIDE DEF h
<1>2. ~((a < h /\ b < h) \/ (a > h /\ b > h))
  <2> SUFFICES ASSUME (a < h /\ b < h) \/ (a > h /\ b > h) PROVE FALSE  OBVIOUS
  <2>1. PICK g \in 0 .. m : a \in Over(nodes[g]) /\ b \in Over(nodes[g]) /\ nodes[h].depth < nodes[g].depth
    BY <1>1 DEF Noded, Branching
  <2>2. h \in Over(nodes[g])  BY <1>1, <2>1
  <2>3. nodes[h].depth \in Nat /\ nodes[g].depth \in Nat  BY <1>1, <2>1 DEF Noded, Ranges
  <2>4. g = h \/ nodes[g].depth < nodes[h].depth  BY <1>1, <2>1, <2>2 DEF Noded, Deeper
  <2> QED BY <2>1, <2>3, <2>4
<1>3. h \in a .. b  BY <1>1, <1>2
<1> QED BY <1>3 DEF h

-----------------------------------------------------------------------------
(* What a node stores.  The plain tree and the one with lateness are the same but
   for how two runs are joined: w says which. *)
Merge(w, later, earlier) == IF w THEN WarpConcat(later, earlier) ELSE Compose(later, earlier)

LinkOf(w, leaves, stored, h, d) ==
  CASE d = h - 1 -> leaves[d]
    [] d < h - 1 -> Merge(w, stored[d + 1], leaves[d])
    [] d = h + 1 -> leaves[d - 1]
    [] d > h + 1 -> Merge(w, leaves[d - 1], stored[d - 1])

Filled(w, f, leaves, r, h) ==
  /\ f = [d \in Tree!Below(r, h) |-> f[d]]
  /\ \A d \in Tree!Below(r, h) : f[d] = LinkOf(w, leaves, f, h, d)

Refilled(w, f, leaves, r, h, old, leaf) ==
  /\ f = [d \in Tree!Below(r, h) |-> f[d]]
  /\ \A d \in Tree!Below(r, h) :
       f[d] = IF Tree!Straddles(h, d, leaf) THEN LinkOf(w, leaves, f, h, d) ELSE old[d]

Inward(h, d, S) == (d < h - 1 => d + 1 \in S) /\ (d > h + 1 => d - 1 \in S)

(* From h outwards. *)
LEMMA Outward ==
  ASSUME NEW m \in Nat, NEW r \in Ranges(m), NEW h \in Over(r), NEW S,
         \A d \in Tree!Below(r, h) : Inward(h, d, S) => d \in S
  PROVE  Tree!Below(r, h) \subseteq S
<1> DEFINE lo == r.lo
           hi == r.hi
<1>1. lo \in Int /\ hi \in Int /\ h \in Int /\ lo <= h /\ h <= hi /\ Tree!Below(r, h) = (lo .. hi) \ {h}
  BY DEF Ranges, Over, Tree!Below
<1> HIDE DEF lo, hi
<1>2. h + 1 .. hi \subseteq S
  <2>1. h + 1 <= hi => h + 1 \in S
    <3>1. h + 1 <= hi => h + 1 \in Tree!Below(r, h) /\ Inward(h, h + 1, S)  BY <1>1 DEF Inward
    <3> QED BY <3>1
  <2>2. ASSUME NEW i \in h + 1 .. hi - 1, i \in S PROVE i + 1 \in S
    <3>1. i + 1 \in Tree!Below(r, h) /\ Inward(h, i + 1, S)  BY <1>1, <2>2 DEF Inward
    <3> QED BY <3>1
  <2>3. h + 1 \in Int  BY <1>1
  <2> QED BY <1>1, <2>1, <2>2, <2>3, Induction
<1>3. lo .. h - 1 \subseteq S
  <2> DEFINE T == {k \in 1 .. h - lo : h - k \in S}
  <2>1. 1 <= h - lo => 1 \in T
    <3>1. 1 <= h - lo => h - 1 \in Tree!Below(r, h) /\ Inward(h, h - 1, S)  BY <1>1 DEF Inward
    <3> QED BY <1>1, <3>1
  <2>2. ASSUME NEW k \in 1 .. h - lo - 1, k \in T PROVE k + 1 \in T
    <3>1. h - (k + 1) \in Tree!Below(r, h) /\ h - (k + 1) + 1 = h - k  BY <1>1
    <3>2. Inward(h, h - (k + 1), S)  BY <1>1, <2>2, <3>1 DEF Inward
    <3>3. k + 1 \in 1 .. h - lo  BY <1>1
    <3> QED BY <3>1, <3>2, <3>3
  <2>3. 1 .. h - lo \subseteq T
    <3>1. 1 \in Int /\ h - lo \in Int  BY <1>1
    <3> HIDE DEF T
    <3> QED BY <2>1, <2>2, <3>1, Induction
  <2>4. ASSUME NEW d \in lo .. h - 1 PROVE d \in S
    <3>1. h - d \in 1 .. h - lo /\ h - (h - d) = d  BY <1>1
    <3>2. h - d \in T  BY <2>3, <3>1
    <3> QED BY <3>1, <3>2
  <2> QED BY <2>4
<1> QED BY <1>1, <1>2, <1>3

LEMMA LinkLocal ==
  ASSUME NEW w, NEW K, NEW L, NEW f, NEW g, NEW h \in Int, NEW d \in Int, d # h,
         d < h => K[d] = L[d], d > h => K[d - 1] = L[d - 1],
         d < h - 1 => f[d + 1] = g[d + 1], d > h + 1 => f[d - 1] = g[d - 1]
  PROVE  LinkOf(w, K, f, h, d) = LinkOf(w, L, g, h, d)
<1>1. CASE d = h - 1
  <2>1. ~(d < h - 1) /\ d # h + 1 /\ ~(d > h + 1) /\ d < h  BY <1>1
  <2> QED BY <1>1, <2>1 DEF LinkOf
<1>2. CASE d < h - 1
  <2>1. d # h - 1 /\ d # h + 1 /\ ~(d > h + 1) /\ d < h  BY <1>2
  <2> QED BY <1>2, <2>1 DEF LinkOf
<1>3. CASE d = h + 1
  <2>1. d # h - 1 /\ ~(d < h - 1) /\ ~(d > h + 1) /\ d > h  BY <1>3
  <2> QED BY <1>3, <2>1 DEF LinkOf
<1>4. CASE d > h + 1
  <2>1. d # h - 1 /\ ~(d < h - 1) /\ d # h + 1 /\ d > h  BY <1>4
  <2> QED BY <1>4, <2>1 DEF LinkOf
<1> QED BY <1>1, <1>2, <1>3, <1>4

(* Two fillings agree wherever no changed leaf lies between. *)
Agree(f, g, r, h, leaf) ==
  \A d \in Tree!Below(r, h) : ~Tree!Straddles(h, d, leaf) => f[d] = g[d]

LEMMA FillAgrees ==
  ASSUME NEW w, NEW m \in Nat, NEW r \in Ranges(m), NEW h \in Over(r), NEW leaf \in Int,
         NEW K, NEW L, NEW f, NEW g, Filled(w, f, K, r, h), Filled(w, g, L, r, h),
         \A i \in r.lo .. r.hi - 1 : i # leaf => K[i] = L[i]
  PROVE  Agree(f, g, r, h, leaf)
<1> DEFINE S == {d \in Tree!Below(r, h) : ~Tree!Straddles(h, d, leaf) => f[d] = g[d]}
<1>1. r.lo \in Int /\ r.hi \in Int /\ h \in Int /\ r.lo <= h /\ h <= r.hi
      /\ Tree!Below(r, h) = (r.lo .. r.hi) \ {h}
  BY DEF Ranges, Over, Tree!Below
<1>2. ASSUME NEW d \in Tree!Below(r, h), Inward(h, d, S), ~Tree!Straddles(h, d, leaf)
      PROVE  f[d] = g[d]
  <2>1. d \in Int /\ d # h  BY <1>1
  <2>2. d < h => K[d] = L[d]
    <3>1. d < h => d \in r.lo .. r.hi - 1 /\ d # leaf  BY <1>1, <1>2 DEF Tree!Straddles
    <3> QED BY <3>1
  <2>3. d > h => K[d - 1] = L[d - 1]
    <3>1. d > h => d - 1 \in r.lo .. r.hi - 1 /\ d - 1 # leaf  BY <1>1, <1>2 DEF Tree!Straddles
    <3> QED BY <3>1
  <2>4. d < h - 1 => f[d + 1] = g[d + 1]
    <3>1. d < h - 1 => ~Tree!Straddles(h, d + 1, leaf)  BY <1>1, <1>2, <2>1 DEF Tree!Straddles
    <3> QED BY <1>2, <3>1 DEF Inward
  <2>5. d > h + 1 => f[d - 1] = g[d - 1]
    <3>1. d > h + 1 => ~Tree!Straddles(h, d - 1, leaf)  BY <1>1, <1>2, <2>1 DEF Tree!Straddles
    <3> QED BY <1>2, <3>1 DEF Inward
  <2>6. LinkOf(w, K, f, h, d) = LinkOf(w, L, g, h, d)
    BY <1>1, <2>1, <2>2, <2>3, <2>4, <2>5, LinkLocal
  <2> QED BY <2>6 DEF Filled
<1>3. Tree!Below(r, h) \subseteq S
  <2>1. \A d \in Tree!Below(r, h) : Inward(h, d, S) => d \in S  BY <1>2
  <2> HIDE DEF S
  <2> QED BY <2>1, Outward
<1> QED BY <1>3 DEF Agree

LEMMA FillUnique ==
  ASSUME NEW w, NEW m \in Nat, NEW r \in Ranges(m), NEW h \in Over(r),
         NEW L, NEW f, NEW g, Filled(w, f, L, r, h), Filled(w, g, L, r, h)
  PROVE  f = g
<1> DEFINE leaf == r.lo - 1
<1>1. r.lo \in Int /\ leaf \in Int /\ h \in Int /\ r.lo <= h  BY DEF Ranges, Over
<1>2. \A d \in Tree!Below(r, h) : ~Tree!Straddles(h, d, leaf)
  BY <1>1 DEF Tree!Below, Tree!Straddles
<1> HIDE DEF leaf
<1>3. Agree(f, g, r, h, leaf)  BY <1>1, FillAgrees
<1> QED BY <1>2, <1>3 DEF Filled, Agree

LEMMA FillExists ==
  ASSUME NEW w, NEW m \in Nat, NEW r \in Ranges(m), NEW h \in Over(r), NEW L
  PROVE  \E f : Filled(w, f, L, r, h)
<1> DEFINE B == Tree!Below(r, h)
           N == r.hi - r.lo
           D(n) == {d \in B : h - n <= d /\ d <= h + n}
           Partly(f, n) == /\ f = [d \in D(n) |-> f[d]]
                           /\ \A d \in D(n) : f[d] = LinkOf(w, L, f, h, d)
           S == {n \in 0 .. N : \E f : Partly(f, n)}
<1>1. r.lo \in Int /\ r.hi \in Int /\ h \in Int /\ r.lo <= h /\ h <= r.hi /\ B = (r.lo .. r.hi) \ {h} /\ N \in Nat
  BY DEF Ranges, Over, Tree!Below
<1>2. 0 \in S
  <2>1. D(0) = {} /\ 0 \in 0 .. N  BY <1>1
  <2> DEFINE f == [d \in {} |-> 0]
  <2>2. f = [d \in D(0) |-> f[d]]  BY <2>1
  <2>3. Partly(f, 0)  BY <2>1, <2>2
  <2> HIDE DEF f, Partly
  <2> QED BY <2>1, <2>3
<1>3. ASSUME NEW n \in 0 .. N - 1, n \in S PROVE n + 1 \in S
  <2>1. PICK f : Partly(f, n)  BY <1>3
  <2> DEFINE g == [d \in D(n + 1) |-> IF d \in D(n) THEN f[d] ELSE LinkOf(w, L, f, h, d)]
  <2>2. \A d \in D(n) : d \in D(n + 1) /\ g[d] = f[d]  BY <1>1
  <2>3. ASSUME NEW d \in D(n + 1) PROVE g[d] = LinkOf(w, L, g, h, d)
    <3>1. g[d] = LinkOf(w, L, f, h, d)  BY <2>1
    <3>2. d \in Int /\ d # h  BY <1>1
    <3>3. d < h - 1 => d + 1 \in D(n)  BY <1>1, <3>2
    <3>4. d > h + 1 => d - 1 \in D(n)  BY <1>1, <3>2
    <3>5. (d < h - 1 => f[d + 1] = g[d + 1]) /\ (d > h + 1 => f[d - 1] = g[d - 1])
      BY <2>2, <3>3, <3>4
    <3> HIDE DEF g
    <3>6. LinkOf(w, L, f, h, d) = LinkOf(w, L, g, h, d)  BY <1>1, <3>2, <3>5, LinkLocal
    <3> QED BY <3>1, <3>6
  <2>4. g = [d \in D(n + 1) |-> g[d]]  OBVIOUS
  <2>5. Partly(g, n + 1)
    <3> HIDE DEF g
    <3> QED BY <2>3, <2>4
  <2>6. n + 1 \in 0 .. N  BY <1>1
  <2> HIDE DEF g, Partly
  <2> QED BY <2>5, <2>6
<1>4. N \in S
  <2> HIDE DEF S, N
  <2>1. 0 .. N \subseteq S  BY <1>1, <1>2, <1>3, Induction
  <2> QED BY <1>1, <2>1
<1>5. PICK f : Partly(f, N)  BY <1>4
<1>6. D(N) = B  BY <1>1
<1> HIDE DEF D
<1>7. Filled(w, f, L, r, h)  BY <1>5, <1>6 DEF Filled
<1> QED BY <1>7

(* Refilling what straddles a changed leaf fills the node anew. *)
LEMMA RefillUnique ==
  ASSUME NEW w, NEW m \in Nat, NEW r \in Ranges(m), NEW h \in Over(r), NEW leaf \in Int, NEW old,
         NEW L, NEW f, NEW g, Refilled(w, f, L, r, h, old, leaf), Refilled(w, g, L, r, h, old, leaf)
  PROVE  f = g
<1> DEFINE S == {d \in Tree!Below(r, h) : f[d] = g[d]}
<1>1. h \in Int /\ \A d \in Tree!Below(r, h) : d \in Int /\ d # h
  BY DEF Ranges, Over, Tree!Below
<1>2. ASSUME NEW d \in Tree!Below(r, h), Inward(h, d, S) PROVE f[d] = g[d]
  <2>1. (d < h - 1 => f[d + 1] = g[d + 1]) /\ (d > h + 1 => f[d - 1] = g[d - 1])  BY <1>2 DEF Inward
  <2>2. LinkOf(w, L, f, h, d) = LinkOf(w, L, g, h, d)  BY <1>1, <2>1, LinkLocal
  <2> QED BY <2>2 DEF Refilled
<1>3. Tree!Below(r, h) \subseteq S
  <2>1. \A d \in Tree!Below(r, h) : Inward(h, d, S) => d \in S  BY <1>2
  <2> HIDE DEF S
  <2> QED BY <2>1, Outward
<1> QED BY <1>3 DEF Refilled

LEMMA RefillIsFill ==
  ASSUME NEW w, NEW m \in Nat, NEW r \in Ranges(m), NEW h \in Over(r), NEW leaf \in Int,
         NEW K, NEW L, NEW old, NEW f, Filled(w, old, K, r, h), Filled(w, f, L, r, h),
         \A i \in r.lo .. r.hi - 1 : i # leaf => K[i] = L[i]
  PROVE  Refilled(w, f, L, r, h, old, leaf)
<1>1. Agree(old, f, r, h, leaf)  BY FillAgrees
<1> QED BY <1>1 DEF Filled, Refilled, Agree

LEMMA PlainFill ==
  ASSUME NEW m \in Nat, NEW r \in Ranges(m), NEW h \in Over(r), NEW L
  PROVE  Filled(FALSE, Tree!FillNode(L, r, h), L, r, h)
<1> DEFINE B == Tree!Below(r, h)
           F(f) == f = [d \in B |-> Tree!Link(L, f, h, d)]
           stored == CHOOSE f : F(f)
<1>0. B = Tree!Below(r, h)  BY DEF Tree!Below
<1>1. ASSUME NEW f, NEW d PROVE Tree!Link(L, f, h, d) = LinkOf(FALSE, L, f, h, d)
  BY DEF Tree!Link, LinkOf, Merge
<1>2. PICK f : Filled(FALSE, f, L, r, h)  BY FillExists
<1>3. F(f)
  <2>1. f = [d \in B |-> f[d]] /\ \A d \in B : f[d] = Tree!Link(L, f, h, d)
    BY <1>0, <1>1, <1>2 DEF Filled
  <2> HIDE DEF B
  <2> QED BY <2>1
<1>4. F(stored)
  <2> HIDE DEF F
  <2> QED BY <1>3
<1>5. Tree!FillNode(L, r, h) = stored  BY DEF Tree!FillNode
<1> HIDE DEF stored, B
<1>6. stored = [d \in B |-> stored[d]] /\ \A d \in B : stored[d] = LinkOf(FALSE, L, stored, h, d)
  BY <1>1, <1>4
<1> QED BY <1>0, <1>5, <1>6 DEF Filled

LEMMA PlainRefill ==
  ASSUME NEW m \in Nat, NEW r \in Ranges(m), NEW h \in Over(r), NEW leaf \in Int,
         NEW K, NEW L, NEW old, NEW f, Filled(FALSE, old, K, r, h), Filled(FALSE, f, L, r, h),
         \A i \in r.lo .. r.hi - 1 : i # leaf => K[i] = L[i]
  PROVE  Tree!RefillNodeAround(L, r, h, old, leaf) = f
<1> DEFINE B == Tree!Below(r, h)
           F(g) == g = [d \in B |-> IF Tree!Straddles(h, d, leaf) THEN Tree!Link(L, g, h, d) ELSE old[d]]
           stored == CHOOSE g : F(g)
<1>0. B = Tree!Below(r, h)  BY DEF Tree!Below
<1>1. ASSUME NEW g, NEW d
      PROVE  Tree!Link(L, g, h, d) = LinkOf(FALSE, L, g, h, d)
             /\ Tree!Straddles(h, d, leaf) = Tree!Straddles(h, d, leaf)
  BY DEF Tree!Link, LinkOf, Merge, Tree!Straddles
<1>2. Refilled(FALSE, f, L, r, h, old, leaf)  BY RefillIsFill
<1>3. F(f)
  <2>1. f = [d \in B |-> f[d]]
        /\ \A d \in B : f[d] = IF Tree!Straddles(h, d, leaf) THEN Tree!Link(L, f, h, d) ELSE old[d]
    BY <1>0, <1>1, <1>2 DEF Refilled
  <2> HIDE DEF B
  <2> QED BY <2>1
<1>4. F(stored)
  <2> HIDE DEF F
  <2> QED BY <1>3
<1>5. Tree!RefillNodeAround(L, r, h, old, leaf) = stored  BY DEF Tree!RefillNodeAround
<1> HIDE DEF stored, B
<1>6. /\ stored = [d \in B |-> stored[d]]
      /\ \A d \in B : stored[d] = IF Tree!Straddles(h, d, leaf) THEN LinkOf(FALSE, L, stored, h, d) ELSE old[d]
  BY <1>1, <1>4
<1>7. Refilled(FALSE, stored, L, r, h, old, leaf)  BY <1>0, <1>6 DEF Refilled
<1> QED BY <1>2, <1>5, <1>7, RefillUnique

LEMMA WarpFill ==
  ASSUME NEW m \in Nat, NEW r \in Ranges(m), NEW h \in Over(r), NEW L
  PROVE  Filled(TRUE, WarpTree!FillNode(L, r, h), L, r, h)
<1> DEFINE B == WarpTree!Below(r, h)
           F(f) == f = [d \in B |-> WarpTree!Link(L, f, h, d)]
           stored == CHOOSE f : F(f)
<1>0. B = Tree!Below(r, h)  BY DEF WarpTree!Below, Tree!Below
<1>1. ASSUME NEW f, NEW d PROVE WarpTree!Link(L, f, h, d) = LinkOf(TRUE, L, f, h, d)
  BY DEF WarpTree!Link, LinkOf, Merge
<1>2. PICK f : Filled(TRUE, f, L, r, h)  BY FillExists
<1>3. F(f)
  <2>1. f = [d \in B |-> f[d]] /\ \A d \in B : f[d] = WarpTree!Link(L, f, h, d)
    BY <1>0, <1>1, <1>2 DEF Filled
  <2> HIDE DEF B
  <2> QED BY <2>1
<1>4. F(stored)
  <2> HIDE DEF F
  <2> QED BY <1>3
<1>5. WarpTree!FillNode(L, r, h) = stored  BY DEF WarpTree!FillNode
<1> HIDE DEF stored, B
<1>6. stored = [d \in B |-> stored[d]] /\ \A d \in B : stored[d] = LinkOf(TRUE, L, stored, h, d)
  BY <1>1, <1>4
<1> QED BY <1>0, <1>5, <1>6 DEF Filled

LEMMA WarpRefill ==
  ASSUME NEW m \in Nat, NEW r \in Ranges(m), NEW h \in Over(r), NEW leaf \in Int,
         NEW K, NEW L, NEW old, NEW f, Filled(TRUE, old, K, r, h), Filled(TRUE, f, L, r, h),
         \A i \in r.lo .. r.hi - 1 : i # leaf => K[i] = L[i]
  PROVE  WarpTree!RefillNodeAround(L, r, h, old, leaf) = f
<1> DEFINE B == WarpTree!Below(r, h)
           F(g) == g = [d \in B |-> IF WarpTree!Straddles(h, d, leaf) THEN WarpTree!Link(L, g, h, d) ELSE old[d]]
           stored == CHOOSE g : F(g)
<1>0. B = Tree!Below(r, h)  BY DEF WarpTree!Below, Tree!Below
<1>1. ASSUME NEW g, NEW d
      PROVE  WarpTree!Link(L, g, h, d) = LinkOf(TRUE, L, g, h, d)
             /\ WarpTree!Straddles(h, d, leaf) = Tree!Straddles(h, d, leaf)
  BY DEF WarpTree!Link, LinkOf, Merge, WarpTree!Straddles, Tree!Straddles
<1>2. Refilled(TRUE, f, L, r, h, old, leaf)  BY RefillIsFill
<1>3. F(f)
  <2>1. f = [d \in B |-> f[d]]
        /\ \A d \in B : f[d] = IF WarpTree!Straddles(h, d, leaf) THEN WarpTree!Link(L, f, h, d) ELSE old[d]
    BY <1>0, <1>1, <1>2 DEF Refilled
  <2> HIDE DEF B
  <2> QED BY <2>1
<1>4. F(stored)
  <2> HIDE DEF F
  <2> QED BY <1>3
<1>5. WarpTree!RefillNodeAround(L, r, h, old, leaf) = stored  BY DEF WarpTree!RefillNodeAround
<1> HIDE DEF stored, B
<1>6. /\ stored = [d \in B |-> stored[d]]
      /\ \A d \in B : stored[d] = IF Tree!Straddles(h, d, leaf) THEN LinkOf(TRUE, L, stored, h, d) ELSE old[d]
  BY <1>1, <1>4
<1>7. Refilled(TRUE, stored, L, r, h, old, leaf)  BY <1>0, <1>6 DEF Refilled
<1> QED BY <1>2, <1>5, <1>7, RefillUnique

-----------------------------------------------------------------------------
(* Changing a leaf leaves the tree that the changed leaves would be built into. *)
Leaved(L, n) == n \in Nat /\ L = [i \in 0 .. n |-> L[i]]

LEMMA PlainBuild ==
  ASSUME NEW L, NEW n, Leaved(L, n)
  PROVE  Tree!Build(L) =
           [leaves |-> L, nodes |-> Tree!BuildRange(n + 1),
            stored |-> [h \in 0 .. n + 1 |-> Tree!FillNode(L, Tree!BuildRange(n + 1)[h], h)]]
<1>1. DOMAIN L = 0 .. n /\ n \in Nat  BY DEF Leaved
<1>2. Tree!Max(0 .. n) = n
  <2>1. n \in 0 .. n /\ \A y \in 0 .. n : n >= y  BY <1>1
  <2>2. \A x \in 0 .. n : (\A y \in 0 .. n : x >= y) => x = n  BY <1>1
  <2> QED BY <2>1, <2>2 DEF Tree!Max
<1>3. Tree!BuildRange(n + 1) = Tree!BuildRange(n + 1)
  OBVIOUS
<1> DEFINE last == Tree!Max(DOMAIN L) + 1
<1>4. Tree!Build(L) =
        [leaves |-> L, nodes |-> Tree!BuildRange(last),
         stored |-> [h \in 0 .. last |-> Tree!FillNode(L, Tree!BuildRange(last)[h], h)]]
  BY DEF Tree!Build
<1>5. last = n + 1  BY <1>1, <1>2
<1> HIDE DEF last
<1> QED BY <1>3, <1>4, <1>5

LEMMA PlainUpdate ==
  ASSUME NEW L, NEW n, Leaved(L, n), NEW leaf \in 0 .. n, NEW fn
  PROVE  /\ Tree!UpdateLeaf(Tree!Build(L), leaf, fn) = Tree!Build([L EXCEPT ![leaf] = fn])
         /\ Leaved([L EXCEPT ![leaf] = fn], n)
<1> DEFINE K == [L EXCEPT ![leaf] = fn]
           N == Tree!BuildRange(n + 1)
           top == Tree!Lca(N, leaf, leaf + 1)
           stale == Tree!Upwards(N, top)
           old == [h \in 0 .. n + 1 |-> Tree!FillNode(L, N[h], h)]
           new == [h \in 0 .. n + 1 |-> Tree!FillNode(K, N[h], h)]
           upd == [h \in 0 .. n + 1 |-> IF h \in stale THEN Tree!RefillNodeAround(K, N[h], h, old[h], leaf)
                                        ELSE old[h]]
<1>1. n \in Nat /\ leaf \in Int /\ L = [i \in 0 .. n |-> L[i]]  BY DEF Leaved
<1>2. Leaved(K, n)  BY <1>1 DEF Leaved
<1>3. \A i \in 0 .. n : i # leaf => L[i] = K[i]  BY <1>1
<1>4. Noded(N, n + 1)  BY <1>1, NodesAre
<1> HIDE DEF N
<1>5. ASSUME NEW h \in 0 .. n + 1 PROVE upd[h] = new[h]
  <2>1. N[h] \in Ranges(n + 1) /\ h \in Over(N[h]) /\ n + 1 \in Nat  BY <1>1, <1>4 DEF Noded
  <2>2. \A i \in N[h].lo .. N[h].hi - 1 : i # leaf => L[i] = K[i]
    <3>1. \A i \in N[h].lo .. N[h].hi - 1 : i \in 0 .. n  BY <1>1, <2>1 DEF Ranges
    <3> QED BY <1>3, <3>1
  <2> HIDE DEF K
  <2>3. Filled(FALSE, old[h], L, N[h], h) /\ Filled(FALSE, new[h], K, N[h], h)  BY <2>1, PlainFill
  <2> HIDE DEF old, new
  <2>4. CASE h \in stale
    <3>1. Tree!RefillNodeAround(K, N[h], h, old[h], leaf) = new[h]  BY <1>1, <2>1, <2>2, <2>3, PlainRefill
    <3> QED BY <2>4, <3>1
  <2>5. CASE h \notin stale
    <3>1. ASSUME NEW d \in Tree!Below(N[h], h), Tree!Straddles(h, d, leaf) PROVE FALSE
      <4>1. leaf \in Over(N[h]) /\ leaf + 1 \in Over(N[h])
        BY <1>1, <2>1, <3>1 DEF Tree!Below, Tree!Straddles, Over, Ranges
      <4>2. leaf \in 0 .. n + 1 /\ leaf + 1 \in 0 .. n + 1  BY <1>1
      <4>3. top \in 0 .. n + 1 /\ top \in Over(N[h])  BY <1>4, <2>1, <4>1, <4>2, LcaIs
      <4> HIDE DEF top
      <4>4. h \in stale  BY <1>4, <2>1, <4>3, UpwardsHold
      <4> QED BY <2>5, <4>4
    <3> DEFINE f == old[h]
               g == new[h]
               r == N[h]
    <3>2. r \in Ranges(n + 1) /\ h \in Over(r) /\ Filled(FALSE, f, L, r, h) /\ Filled(FALSE, g, K, r, h)
          /\ \A i \in r.lo .. r.hi - 1 : i # leaf => L[i] = K[i]
      BY <2>1, <2>2, <2>3
    <3>3. \A d \in Tree!Below(r, h) : ~Tree!Straddles(h, d, leaf)  BY <3>1
    <3> HIDE DEF f, g, r
    <3>4. Agree(f, g, r, h, leaf)  BY <1>1, <2>1, <3>2, FillAgrees
    <3>5. f = g  BY <3>2, <3>3, <3>4 DEF Filled, Agree
    <3> QED BY <2>5, <3>5 DEF f, g
  <2> QED BY <2>4, <2>5
<1>6. upd = new
  <2>1. upd = [h \in 0 .. n + 1 |-> upd[h]] /\ new = [h \in 0 .. n + 1 |-> new[h]]  OBVIOUS
  <2> HIDE DEF upd, new
  <2> QED BY <1>5, <2>1
<1>7. Tree!Build(L) = [leaves |-> L, nodes |-> N, stored |-> old]  BY PlainBuild DEF N
<1>8. Tree!Build(K) = [leaves |-> K, nodes |-> N, stored |-> new]
  <2> HIDE DEF K
  <2> QED BY <1>2, PlainBuild DEF N
<1>9. Tree!Upwards(N, Tree!Lca(N, leaf, leaf + 1)) = stale
  OBVIOUS
<1>10. Tree!UpdateLeaf([leaves |-> L, nodes |-> N, stored |-> old], leaf, fn)
       = [leaves |-> K, nodes |-> N, stored |-> upd]
  <2> DEFINE tree == [leaves |-> L, nodes |-> N, stored |-> old]
  <2>1. tree.leaves = L /\ tree.nodes = N /\ tree.stored = old /\ DOMAIN old = 0 .. n + 1  OBVIOUS
  <2>2. Tree!UpdateLeaf(tree, leaf, fn)
        = [tree EXCEPT !.leaves = K,
                       !.stored = [h \in DOMAIN tree.stored |->
                          IF h \in stale THEN Tree!RefillNodeAround(K, N[h], h, tree.stored[h], leaf)
                          ELSE tree.stored[h]]]
    <3> HIDE DEF stale, old
    <3> QED BY <1>9 DEF Tree!UpdateLeaf
  <2> HIDE DEF stale, K
  <2>3. [h \in DOMAIN tree.stored |->
           IF h \in stale THEN Tree!RefillNodeAround(K, N[h], h, tree.stored[h], leaf) ELSE tree.stored[h]]
        = upd
    BY <2>1
  <2> HIDE DEF upd, old
  <2> QED BY <2>2, <2>3
<1> QED BY <1>2, <1>6, <1>7, <1>8, <1>10 DEF K

LEMMA WarpBuild ==
  ASSUME NEW L, NEW n, Leaved(L, n)
  PROVE  WarpTree!Build(L) =
           [leaves |-> L, nodes |-> Tree!BuildRange(n + 1),
            stored |-> [h \in 0 .. n + 1 |-> WarpTree!FillNode(L, Tree!BuildRange(n + 1)[h], h)]]
<1>1. DOMAIN L = 0 .. n /\ n \in Nat  BY DEF Leaved
<1>2. WarpTree!Max(0 .. n) = n
  <2>1. n \in 0 .. n /\ \A y \in 0 .. n : n >= y  BY <1>1
  <2>2. \A x \in 0 .. n : (\A y \in 0 .. n : x >= y) => x = n  BY <1>1
  <2> QED BY <2>1, <2>2 DEF WarpTree!Max
<1>3. WarpTree!BuildRange(n + 1) = Tree!BuildRange(n + 1)
  BY DEF WarpTree!BuildRange, Tree!BuildRange, WarpTree!Halves, Tree!Halves, WarpTree!Mid, Tree!Mid
<1> DEFINE last == WarpTree!Max(DOMAIN L) + 1
<1>4. WarpTree!Build(L) =
        [leaves |-> L, nodes |-> WarpTree!BuildRange(last),
         stored |-> [h \in 0 .. last |-> WarpTree!FillNode(L, WarpTree!BuildRange(last)[h], h)]]
  BY DEF WarpTree!Build
<1>5. last = n + 1  BY <1>1, <1>2
<1> HIDE DEF last
<1> QED BY <1>3, <1>4, <1>5

LEMMA WarpUpdate ==
  ASSUME NEW L, NEW n, Leaved(L, n), NEW leaf \in 0 .. n, NEW fn
  PROVE  /\ WarpTree!UpdateLeaf(WarpTree!Build(L), leaf, fn) = WarpTree!Build([L EXCEPT ![leaf] = fn])
         /\ Leaved([L EXCEPT ![leaf] = fn], n)
<1> DEFINE K == [L EXCEPT ![leaf] = fn]
           N == Tree!BuildRange(n + 1)
           top == Tree!Lca(N, leaf, leaf + 1)
           stale == Tree!Upwards(N, top)
           old == [h \in 0 .. n + 1 |-> WarpTree!FillNode(L, N[h], h)]
           new == [h \in 0 .. n + 1 |-> WarpTree!FillNode(K, N[h], h)]
           upd == [h \in 0 .. n + 1 |-> IF h \in stale THEN WarpTree!RefillNodeAround(K, N[h], h, old[h], leaf)
                                        ELSE old[h]]
<1>1. n \in Nat /\ leaf \in Int /\ L = [i \in 0 .. n |-> L[i]]  BY DEF Leaved
<1>2. Leaved(K, n)  BY <1>1 DEF Leaved
<1>3. \A i \in 0 .. n : i # leaf => L[i] = K[i]  BY <1>1
<1>4. Noded(N, n + 1)  BY <1>1, NodesAre
<1> HIDE DEF N
<1>5. ASSUME NEW h \in 0 .. n + 1 PROVE upd[h] = new[h]
  <2>1. N[h] \in Ranges(n + 1) /\ h \in Over(N[h]) /\ n + 1 \in Nat  BY <1>1, <1>4 DEF Noded
  <2>2. \A i \in N[h].lo .. N[h].hi - 1 : i # leaf => L[i] = K[i]
    <3>1. \A i \in N[h].lo .. N[h].hi - 1 : i \in 0 .. n  BY <1>1, <2>1 DEF Ranges
    <3> QED BY <1>3, <3>1
  <2> HIDE DEF K
  <2>3. Filled(TRUE, old[h], L, N[h], h) /\ Filled(TRUE, new[h], K, N[h], h)  BY <2>1, WarpFill
  <2> HIDE DEF old, new
  <2>4. CASE h \in stale
    <3>1. WarpTree!RefillNodeAround(K, N[h], h, old[h], leaf) = new[h]  BY <1>1, <2>1, <2>2, <2>3, WarpRefill
    <3> QED BY <2>4, <3>1
  <2>5. CASE h \notin stale
    <3>1. ASSUME NEW d \in Tree!Below(N[h], h), Tree!Straddles(h, d, leaf) PROVE FALSE
      <4>1. leaf \in Over(N[h]) /\ leaf + 1 \in Over(N[h])
        BY <1>1, <2>1, <3>1 DEF Tree!Below, Tree!Straddles, Over, Ranges
      <4>2. leaf \in 0 .. n + 1 /\ leaf + 1 \in 0 .. n + 1  BY <1>1
      <4>3. top \in 0 .. n + 1 /\ top \in Over(N[h])  BY <1>4, <2>1, <4>1, <4>2, LcaIs
      <4> HIDE DEF top
      <4>4. h \in stale  BY <1>4, <2>1, <4>3, UpwardsHold
      <4> QED BY <2>5, <4>4
    <3> DEFINE f == old[h]
               g == new[h]
               r == N[h]
    <3>2. r \in Ranges(n + 1) /\ h \in Over(r) /\ Filled(TRUE, f, L, r, h) /\ Filled(TRUE, g, K, r, h)
          /\ \A i \in r.lo .. r.hi - 1 : i # leaf => L[i] = K[i]
      BY <2>1, <2>2, <2>3
    <3>3. \A d \in Tree!Below(r, h) : ~Tree!Straddles(h, d, leaf)  BY <3>1
    <3> HIDE DEF f, g, r
    <3>4. Agree(f, g, r, h, leaf)  BY <1>1, <2>1, <3>2, FillAgrees
    <3>5. f = g  BY <3>2, <3>3, <3>4 DEF Filled, Agree
    <3> QED BY <2>5, <3>5 DEF f, g
  <2> QED BY <2>4, <2>5
<1>6. upd = new
  <2>1. upd = [h \in 0 .. n + 1 |-> upd[h]] /\ new = [h \in 0 .. n + 1 |-> new[h]]  OBVIOUS
  <2> HIDE DEF upd, new
  <2> QED BY <1>5, <2>1
<1>7. WarpTree!Build(L) = [leaves |-> L, nodes |-> N, stored |-> old]  BY WarpBuild DEF N
<1>8. WarpTree!Build(K) = [leaves |-> K, nodes |-> N, stored |-> new]
  <2> HIDE DEF K
  <2> QED BY <1>2, WarpBuild DEF N
<1>9. WarpTree!Upwards(N, WarpTree!Lca(N, leaf, leaf + 1)) = stale
  BY DEF WarpTree!Upwards, Tree!Upwards, WarpTree!Above, Tree!Above, WarpTree!Lca, Tree!Lca
<1>10. WarpTree!UpdateLeaf([leaves |-> L, nodes |-> N, stored |-> old], leaf, fn)
       = [leaves |-> K, nodes |-> N, stored |-> upd]
  <2> DEFINE tree == [leaves |-> L, nodes |-> N, stored |-> old]
  <2>1. tree.leaves = L /\ tree.nodes = N /\ tree.stored = old /\ DOMAIN old = 0 .. n + 1  OBVIOUS
  <2>2. WarpTree!UpdateLeaf(tree, leaf, fn)
        = [tree EXCEPT !.leaves = K,
                       !.stored = [h \in DOMAIN tree.stored |->
                          IF h \in stale THEN WarpTree!RefillNodeAround(K, N[h], h, tree.stored[h], leaf)
                          ELSE tree.stored[h]]]
    <3> HIDE DEF stale, old
    <3> QED BY <1>9 DEF WarpTree!UpdateLeaf
  <2> HIDE DEF stale, K
  <2>3. [h \in DOMAIN tree.stored |->
           IF h \in stale THEN WarpTree!RefillNodeAround(K, N[h], h, tree.stored[h], leaf) ELSE tree.stored[h]]
        = upd
    BY <2>1
  <2> HIDE DEF upd, old
  <2> QED BY <2>2, <2>3
<1> QED BY <1>2, <1>6, <1>7, <1>8, <1>10 DEF K

LEMMA TwoChanged ==
  ASSUME NEW n, NEW L, NEW K, Leaved(L, n), Leaved(K, n), NEW a \in 0 .. n, NEW b \in 0 .. n,
         \A k \in 0 .. n : k # a /\ k # b => L[k] = K[k]
  PROVE  [[L EXCEPT ![a] = K[a]] EXCEPT ![b] = K[b]] = K
<1> DEFINE M == [[L EXCEPT ![a] = K[a]] EXCEPT ![b] = K[b]]
<1>1. L = [k \in 0 .. n |-> L[k]] /\ K = [k \in 0 .. n |-> K[k]]  BY DEF Leaved
<1>2. M = [k \in 0 .. n |-> M[k]] /\ \A k \in 0 .. n : M[k] = K[k]  BY <1>1
<1> HIDE DEF M
<1>3. M = K  BY <1>1, <1>2
<1> QED BY <1>3 DEF M

LEMMA LeavesExchanged ==
  ASSUME NEW q \in Seq(Client), NEW i \in DOMAIN q, NEW c \in Client
  PROVE  LET s == Exchange(q, i, c)
         IN  /\ Leaved(RouteLeaves(q), Len(q)) /\ Leaved(RouteLeaves(s), Len(q))
             /\ Leaved(WarpRouteLeaves(q), Len(q)) /\ Leaved(WarpRouteLeaves(s), Len(q))
             /\ i - 1 \in 0 .. Len(q) /\ i \in 0 .. Len(q)
             /\ \A k \in 0 .. Len(q) : k # i - 1 /\ k # i =>
                  RouteLeaves(q)[k] = RouteLeaves(s)[k] /\ WarpRouteLeaves(q)[k] = WarpRouteLeaves(s)[k]
<1> DEFINE s == Exchange(q, i, c)
           n == Len(q)
<1>1. n \in Nat /\ i \in 1 .. n /\ q \in [1 .. n -> Client]  BY LenProperties
<1>2. s \in Seq(Client) /\ Len(s) = n /\ \A k \in 1 .. n : k # i => s[k] = q[k]
  BY <1>1, ExceptSeq DEF Exchange
<1> HIDE DEF s
<1>3. Leaved(RouteLeaves(q), n) /\ Leaved(WarpRouteLeaves(q), n)
  BY <1>1 DEF Leaved, RouteLeaves, WarpRouteLeaves
<1>4. Leaved(RouteLeaves(s), n) /\ Leaved(WarpRouteLeaves(s), n)
  BY <1>1, <1>2 DEF Leaved, RouteLeaves, WarpRouteLeaves
<1>5. ASSUME NEW k \in 0 .. n, k # i - 1, k # i
      PROVE  RouteLeaves(q)[k] = RouteLeaves(s)[k] /\ WarpRouteLeaves(q)[k] = WarpRouteLeaves(s)[k]
  <2>1. CASE k = 0
    <3>1. 1 \in 1 .. n /\ 1 # i  BY <1>1, <1>5, <2>1
    <3>2. s[1] = q[1]  BY <1>2, <3>1
    <3>3. k # n  BY <1>1, <2>1, <3>1
    <3> QED BY <1>2, <2>1, <3>2, <3>3 DEF RouteLeaves, WarpRouteLeaves
  <2>2. CASE k = n
    <3>1. k # 0 /\ k \in 1 .. n  BY <1>1, <2>2
    <3>2. s[k] = q[k]  BY <1>2, <1>5, <3>1
    <3> QED BY <1>2, <2>2, <3>1, <3>2 DEF RouteLeaves, WarpRouteLeaves
  <2>3. CASE k # 0 /\ k # n
    <3>1. k \in 1 .. n /\ k + 1 \in 1 .. n /\ k + 1 # i
      <4>1. n \in Nat /\ i \in Int  BY <1>1
      <4> HIDE DEF n
      <4> QED BY <4>1, <1>5, <2>3
    <3>2. s[k] = q[k] /\ s[k + 1] = q[k + 1]  BY <1>2, <1>5, <3>1
    <3> QED BY <1>2, <2>3, <3>2 DEF RouteLeaves, WarpRouteLeaves
  <2> QED BY <2>1, <2>2, <2>3
<1>6. i - 1 \in 0 .. n /\ i \in 0 .. n  BY <1>1
<1> QED BY <1>3, <1>4, <1>5, <1>6 DEF s

-----------------------------------------------------------------------------
(* The states of a search: in each slot none, or the one built for a route; the
   instance and its horizon stay. *)
Plainly(st) == \E q \in Seq(Client) : q # <<>> /\ st = BuildRouteState(q)
Lately(st)  == \E q \in Seq(Client) : q # <<>> /\ st = BuildWarpRouteState(q)

Standing ==
  /\ inst \in Instances /\ tEnd = WarpHorizon
  /\ plain = [k \in Slots |-> plain[k]] /\ \A k \in Slots : plain[k] = NoState \/ Plainly(plain[k])
  /\ warped = [k \in Slots |-> warped[k]] /\ \A k \in Slots : warped[k] = NoState \/ Lately(warped[k])

(* The fold with lateness, its steps named. *)
PlaceAt(q, i) == IF i = 0 THEN Depot ELSE q[i]

Book(acc, leg) ==
  [rho |-> leg.rho, omega |-> IF inst.windows THEN Add(acc.omega, leg.omega) ELSE acc.omega]

Booked(q) ==
  CHOOSE fold : fold =
    [i \in 0 .. Len(q) |->
       IF i = 0 THEN OnTimeAlways(Departures)
       ELSE Book(fold[i - 1], ServeLate(q[i], Compose(Arc(PlaceAt(q, i - 1), q[i]), fold[i - 1].rho)))]

Back(q) ==
  Book(Booked(q)[Len(q)], HomeLate(Compose(Arc(PlaceAt(q, Len(q)), Depot), Booked(q)[Len(q)].rho)))

LEMMA WarpFoldIs ==
  ASSUME NEW q
  PROVE  WarpFold(q) =
           IF Void(Back(q).rho) THEN NoSegment
           ELSE [Back(q) EXCEPT !.omega = Add(@, ZeroOn(Start(Back(q).rho), End(Back(q).rho)))]
BY DEF WarpFold, Booked, Book, PlaceAt, Back

(* What is built for a route depends on the instance and its horizon alone. *)
LEMMA PlainSame ==
  ASSUME NEW q, inst' = inst
  PROVE  BuildRouteState(q)' = BuildRouteState(q)
BY DEF BuildRouteState, EvaluateRoute, ReadyTime, RouteLeaves, BridgeLeaf, ReturnLeaf, Home, Departures,
       Serve, Theta, Arc, MakeTheta, Smooth, Identity

LEMMA WarpSame ==
  ASSUME NEW q, inst' = inst, tEnd' = tEnd
  PROVE  BuildWarpRouteState(q)' = BuildWarpRouteState(q)
<1>1. Booked(q)' = Booked(q)
  BY DEF Booked, Book, PlaceAt, ServeLate, OnTimeAlways, Departures, Arc, Smooth, Identity, ZeroOn,
         Serve, Theta, MakeTheta, ThetaWarp, Excess
<1>2. \A f : HomeLate(f)' = HomeLate(f)
  BY DEF HomeLate, OnTimeAlways, Smooth, Clamp, Excess, ZeroOn
<1>3. Back(q)' = Back(q)  BY <1>1, <1>2 DEF Back, Book, Arc, PlaceAt
<1>4. WarpFold(q)' = WarpFold(q)
  <2>1. WarpFold(q)' =
          (IF Void(Back(q).rho) THEN NoSegment
           ELSE [Back(q) EXCEPT !.omega = Add(@, ZeroOn(Start(Back(q).rho), End(Back(q).rho)))])'
    BY DEF WarpFold, Booked, Book, PlaceAt, Back
  <2> QED BY <1>3, <2>1, WarpFoldIs
<1>5. WarpRouteLeaves(q)' = WarpRouteLeaves(q)
  <2>1. \A a, b : WarpBridgeLeaf(a, b)' = WarpBridgeLeaf(a, b)
    BY DEF WarpBridgeLeaf, ServeLate, OnTimeAlways, Arc, Smooth, ZeroOn, Serve, Theta, MakeTheta,
           ThetaWarp, Excess
  <2>2. \A a : WarpReturnLeaf(a)' = WarpReturnLeaf(a)
    BY <1>2 DEF WarpReturnLeaf, Arc
  <2>3. \A v : ServeLate(v, Compose(Arc(Depot, v), Departures))'
               = ServeLate(v, Compose(Arc(Depot, v), Departures))
    BY DEF Departures, Arc, ServeLate, OnTimeAlways, Smooth, ZeroOn, Serve, Theta, MakeTheta,
           ThetaWarp, Excess, Identity
  <2> QED BY <2>1, <2>2, <2>3 DEF WarpRouteLeaves
<1> QED BY <1>4, <1>5 DEF BuildWarpRouteState

LEMMA HorizonSame ==
  ASSUME inst' = inst
  PROVE  WarpHorizon' = WarpHorizon
BY DEF WarpHorizon

LEMMA PlainState ==
  ASSUME NEW q \in Seq(Client), BuildRouteState(q) # NoState
  PROVE  /\ BuildRouteState(q).vertices = q /\ BuildRouteState(q).tree = Tree!Build(RouteLeaves(q))
         /\ BuildRouteState(q).duration = EvaluateRoute(q).duration /\ EvaluateRoute(q).feasible
BY DEF BuildRouteState

LEMMA WarpState ==
  ASSUME NEW q \in Seq(Client), BuildWarpRouteState(q) # NoState
  PROVE  LET st == BuildWarpRouteState(q)
             fold == WarpFold(q)
         IN  /\ st.vertices = q /\ st.tree = WarpTree!Build(WarpRouteLeaves(q))
             /\ st.minWarp = Low(fold.omega, Start(fold.omega))
             /\ st.duration = MinZeroWarp(fold.rho, fold.omega).value
             /\ ~Void(fold.rho)
BY DEF BuildWarpRouteState

LEMMA VerticesAre ==
  ASSUME NEW st, st = NoState \/ Plainly(st) \/ Lately(st)
  PROVE  st.vertices \in Seq(Client)
<1>1. CASE st = NoState  BY <1>1 DEF NoState
<1>2. CASE Plainly(st)  BY <1>1, <1>2, PlainState DEF Plainly, NoState
<1>3. CASE Lately(st)  BY <1>1, <1>3, WarpState DEF Lately, NoState
<1> QED BY <1>1, <1>2, <1>3

LEMMA WantedIs ==
  ASSUME NEW states, NEW k, states[k].vertices \in Seq(Client), NEW q \in Wanted(states, k)
  PROVE  q \in Seq(Client) /\ q # <<>>
<1> DEFINE s == states[k].vertices
<1>1. s \in Seq(Client) /\ Len(s) \in Nat  BY LenProperties
<1> HIDE DEF s
<1>2. CASE \E p \in 0 .. Len(s), c \in Client : q = Insert(s, p, c)
  <2>1. PICK p \in 0 .. Len(s), c \in Client : q = Insert(s, p, c)  BY <1>2
  <2>2. q = Put(s, p, p, c)  BY <2>1 DEF Put, Insert
  <2>3. IsPut(Put(s, p, p, c), Client, s, p, p, c)
    <3>1. p \in p .. Len(s)  BY <1>1
    <3> QED BY <1>1, <2>1, <3>1, PutParts
  <2>4. q \in Seq(Client) /\ Len(q) = Len(s) + 1  BY <1>1, <2>2, <2>3 DEF IsPut
  <2> QED BY <1>1, <2>4
<1>3. CASE Len(s) > 1 /\ \E i \in DOMAIN s : q = Without(s, i)
  <2>1. PICK i \in DOMAIN s : q = Without(s, i)  BY <1>3
  <2>2. q \in Seq(Client) /\ Len(q) = Len(s) - 1  BY <1>1, <2>1, WithoutParts
  <2> QED BY <1>1, <1>3, <2>2
<1> DEFINE free == Client \ Served({states[l].vertices : l \in Slots})
<1>4. Wanted(states, k) = {Insert(s, p, c) : p \in 0 .. Len(s), c \in free}
                          \cup IF Len(s) > 1 THEN {Without(s, i) : i \in DOMAIN s} ELSE {}
  BY DEF Wanted, s
<1>5. free \subseteq Client  OBVIOUS
<1> HIDE DEF free
<1>6. q \in {Insert(s, p, c) : p \in 0 .. Len(s), c \in free} =>
        \E p \in 0 .. Len(s), c \in Client : q = Insert(s, p, c)
  BY <1>5
<1>7. q \in (IF Len(s) > 1 THEN {Without(s, i) : i \in DOMAIN s} ELSE {}) =>
        Len(s) > 1 /\ \E i \in DOMAIN s : q = Without(s, i)
  OBVIOUS
<1> QED BY <1>2, <1>3, <1>4, <1>6, <1>7

LEMMA BuiltVertices ==
  ASSUME NEW st, st # NoState, Plainly(st) \/ Lately(st)
  PROVE  st.vertices \in Seq(Client) /\ st.vertices # <<>>
<1>1. CASE Plainly(st)  BY <1>1, PlainState DEF Plainly
<1>2. CASE Lately(st)  BY <1>2, WarpState DEF Lately
<1> QED BY <1>1, <1>2

LEMMA StandingInit == Init => Standing
BY DEF Init, Standing

LEMMA StandingNext == Standing /\ [Next]_vars => Standing'
<1> SUFFICES ASSUME Standing, [Next]_vars PROVE Standing'  OBVIOUS
<1>0. inst' = inst /\ tEnd' = tEnd
  BY DEF Next, Rebuild, RebuildWarped, StartSqueeze, EndSqueeze, vars
<1>1. inst' \in Instances /\ tEnd' = WarpHorizon'  BY <1>0, HorizonSame DEF Standing
<1>2. ASSUME NEW st PROVE Plainly(st) = (\E q \in Seq(Client) : q # <<>> /\ st = BuildRouteState(q)')
  BY <1>0, PlainSame DEF Plainly
<1>3. ASSUME NEW st PROVE Lately(st) = (\E q \in Seq(Client) : q # <<>> /\ st = BuildWarpRouteState(q)')
  BY <1>0, WarpSame DEF Lately
<1>4. SUFFICES /\ plain' = [k \in Slots |-> plain'[k]]
               /\ \A k \in Slots : plain'[k] = NoState \/ Plainly(plain'[k])
               /\ warped' = [k \in Slots |-> warped'[k]]
               /\ \A k \in Slots : warped'[k] = NoState \/ Lately(warped'[k])
  <2>1. \A k \in Slots : Plainly(plain[k])' = Plainly(plain'[k])
    <3>1. \A k \in Slots : Plainly(plain[k])' = (\E q \in Seq(Client) : q # <<>> /\ plain'[k] = BuildRouteState(q)')
      BY DEF Plainly
    <3> QED BY <1>2, <3>1
  <2>2. \A k \in Slots : Lately(warped[k])' = Lately(warped'[k])
    <3>1. \A k \in Slots : Lately(warped[k])' = (\E q \in Seq(Client) : q # <<>> /\ warped'[k] = BuildWarpRouteState(q)')
      BY DEF Lately
    <3> QED BY <1>3, <3>1
  <2> QED BY <1>1, <2>1, <2>2 DEF Standing
<1>5. /\ plain = [k \in Slots |-> plain[k]] /\ \A k \in Slots : plain[k] = NoState \/ Plainly(plain[k])
      /\ warped = [k \in Slots |-> warped[k]] /\ \A k \in Slots : warped[k] = NoState \/ Lately(warped[k])
  BY DEF Standing
<1>6. ASSUME NEW k \in Slots, Rebuild(k)
      PROVE  /\ plain' = [l \in Slots |-> plain'[l]] /\ warped' = warped
             /\ \A l \in Slots : plain'[l] = NoState \/ Plainly(plain'[l])
  <2>1. PICK q \in Wanted(plain, k) : plain' = [plain EXCEPT ![k] = BuildRouteState(q)]
    BY <1>6 DEF Rebuild
  <2>2. plain[k].vertices \in Seq(Client)  BY <1>5, VerticesAre
  <2>3. q \in Seq(Client) /\ q # <<>>  BY <2>2, WantedIs
  <2>4. Plainly(BuildRouteState(q))  BY <2>3 DEF Plainly
  <2>5. warped' = warped  BY <1>6 DEF Rebuild
  <2> DEFINE st == BuildRouteState(q)
  <2> HIDE DEF st
  <2>6. plain' = [plain EXCEPT ![k] = st] /\ Plainly(st)  BY <2>1, <2>4 DEF st
  <2> QED BY <1>5, <2>5, <2>6
<1>7. ASSUME NEW k \in Slots, RebuildWarped(k)
      PROVE  /\ warped' = [l \in Slots |-> warped'[l]] /\ plain' = plain
             /\ \A l \in Slots : warped'[l] = NoState \/ Lately(warped'[l])
  <2>1. PICK q \in Wanted(warped, k) : warped' = [warped EXCEPT ![k] = BuildWarpRouteState(q)]
    BY <1>7 DEF RebuildWarped
  <2>2. warped[k].vertices \in Seq(Client)  BY <1>5, VerticesAre
  <2>3. q \in Seq(Client) /\ q # <<>>  BY <2>2, WantedIs
  <2>4. Lately(BuildWarpRouteState(q))  BY <2>3 DEF Lately
  <2>5. plain' = plain  BY <1>7 DEF RebuildWarped
  <2> DEFINE st == BuildWarpRouteState(q)
  <2> HIDE DEF st
  <2>6. warped' = [warped EXCEPT ![k] = st] /\ Lately(st)  BY <2>1, <2>4 DEF st
  <2> QED BY <1>5, <2>5, <2>6
<1>8. ASSUME StartSqueeze
      PROVE  /\ warped' = [l \in Slots |-> warped'[l]] /\ plain' = [l \in Slots |-> NoState]
             /\ \A l \in Slots : warped'[l] = NoState \/ Lately(warped'[l])
  <2>1. /\ warped' = [k \in Slots |-> IF k \in Built(plain) THEN BuildWarpRouteState(plain[k].vertices)
                                      ELSE NoState]
        /\ plain' = [l \in Slots |-> NoState]
    BY <1>8 DEF StartSqueeze
  <2>2. ASSUME NEW k \in Slots PROVE warped'[k] = NoState \/ Lately(warped'[k])
    <3>1. CASE k \in Built(plain)
      <4>1. plain[k].vertices \in Seq(Client) /\ plain[k].vertices # <<>>
        BY <1>5, <3>1, BuiltVertices DEF Built
      <4>2. warped'[k] = BuildWarpRouteState(plain[k].vertices)  BY <2>1, <3>1
      <4> QED BY <4>1, <4>2 DEF Lately
    <3> QED BY <2>1, <3>1
  <2>3. warped' = [l \in Slots |-> warped'[l]]
    <3> DEFINE E(k) == IF k \in Built(plain) THEN BuildWarpRouteState(plain[k].vertices) ELSE NoState
    <3>1. warped' = [k \in Slots |-> E(k)]  BY <2>1
    <3> HIDE DEF E
    <3> QED BY <3>1
  <2> QED BY <2>1, <2>2, <2>3
<1>9. ASSUME EndSqueeze
      PROVE  /\ plain' = [l \in Slots |-> plain'[l]] /\ warped' = [l \in Slots |-> NoState]
             /\ \A l \in Slots : plain'[l] = NoState \/ Plainly(plain'[l])
  <2>1. /\ plain' = [k \in Slots |-> IF k \in Built(warped) THEN BuildRouteState(warped[k].vertices)
                                     ELSE NoState]
        /\ warped' = [l \in Slots |-> NoState]
    BY <1>9 DEF EndSqueeze
  <2>2. ASSUME NEW k \in Slots PROVE plain'[k] = NoState \/ Plainly(plain'[k])
    <3>1. CASE k \in Built(warped)
      <4>1. warped[k].vertices \in Seq(Client) /\ warped[k].vertices # <<>>
        BY <1>5, <3>1, BuiltVertices DEF Built
      <4>2. plain'[k] = BuildRouteState(warped[k].vertices)  BY <2>1, <3>1
      <4> QED BY <4>1, <4>2 DEF Plainly
    <3> QED BY <2>1, <3>1
  <2>3. plain' = [l \in Slots |-> plain'[l]]
    <3> DEFINE E(k) == IF k \in Built(warped) THEN BuildRouteState(warped[k].vertices) ELSE NoState
    <3>1. plain' = [k \in Slots |-> E(k)]  BY <2>1
    <3> HIDE DEF E
    <3> QED BY <3>1
  <2> QED BY <2>1, <2>2, <2>3
<1>10. CASE UNCHANGED vars  BY <1>5, <1>10 DEF vars
<1> QED BY <1>5, <1>6, <1>7, <1>8, <1>9, <1>10 DEF Next

(* Every state of a search is one built for a route, on the instance it began with. *)
THEOREM StatesStand == Spec => []Standing
<1>1. Init => Standing  BY StandingInit
<1>2. Standing /\ [Next]_vars => Standing'  BY StandingNext
<1> QED BY <1>1, <1>2, PTL DEF Spec

-----------------------------------------------------------------------------
(* Two leaf updates for an exchanged client leave the tree a rebuild makes, plain or
   with lateness, for every route, client and place. *)
LEMMA ExchangePlain ==
  ASSUME NEW q \in Seq(Client), NEW i \in DOMAIN q, NEW c \in Client
  PROVE  LET fresh == RouteLeaves(Exchange(q, i, c))
         IN  Tree!UpdateLeaf(Tree!UpdateLeaf(Tree!Build(RouteLeaves(q)), i - 1, fresh[i - 1]), i, fresh[i])
               = Tree!Build(fresh)
<1> DEFINE L == RouteLeaves(q)
           K == RouteLeaves(Exchange(q, i, c))
           n == Len(q)
           M == [L EXCEPT ![i - 1] = K[i - 1]]
<1>1. Leaved(L, n) /\ Leaved(K, n) /\ i - 1 \in 0 .. n /\ i \in 0 .. n
      /\ \A k \in 0 .. n : k # i - 1 /\ k # i => L[k] = K[k]
  BY LeavesExchanged
<1> HIDE DEF L, K, n
<1>2. Tree!UpdateLeaf(Tree!Build(L), i - 1, K[i - 1]) = Tree!Build(M) /\ Leaved(M, n)
  BY <1>1, PlainUpdate
<1>3. [M EXCEPT ![i] = K[i]] = K  BY <1>1, TwoChanged
<1> HIDE DEF M
<1>4. Tree!UpdateLeaf(Tree!Build(M), i, K[i]) = Tree!Build([M EXCEPT ![i] = K[i]])
  BY <1>1, <1>2, PlainUpdate
<1> QED BY <1>2, <1>3, <1>4 DEF L, K

LEMMA ExchangeWarp ==
  ASSUME NEW q \in Seq(Client), NEW i \in DOMAIN q, NEW c \in Client
  PROVE  LET fresh == WarpRouteLeaves(Exchange(q, i, c))
         IN  WarpTree!UpdateLeaf(WarpTree!UpdateLeaf(WarpTree!Build(WarpRouteLeaves(q)), i - 1, fresh[i - 1]),
                                 i, fresh[i])
               = WarpTree!Build(fresh)
<1> DEFINE L == WarpRouteLeaves(q)
           K == WarpRouteLeaves(Exchange(q, i, c))
           n == Len(q)
           M == [L EXCEPT ![i - 1] = K[i - 1]]
<1>1. Leaved(L, n) /\ Leaved(K, n) /\ i - 1 \in 0 .. n /\ i \in 0 .. n
      /\ \A k \in 0 .. n : k # i - 1 /\ k # i => L[k] = K[k]
  BY LeavesExchanged
<1> HIDE DEF L, K, n
<1>2. WarpTree!UpdateLeaf(WarpTree!Build(L), i - 1, K[i - 1]) = WarpTree!Build(M) /\ Leaved(M, n)
  BY <1>1, WarpUpdate
<1>3. [M EXCEPT ![i] = K[i]] = K  BY <1>1, TwoChanged
<1> HIDE DEF M
<1>4. WarpTree!UpdateLeaf(WarpTree!Build(M), i, K[i]) = WarpTree!Build([M EXCEPT ![i] = K[i]])
  BY <1>1, <1>2, WarpUpdate
<1> QED BY <1>2, <1>3, <1>4 DEF L, K

LEMMA StandingUpdate == Standing => UpdateIsRebuild
<1> SUFFICES ASSUME Standing PROVE UpdateIsRebuild  OBVIOUS
<1>1. ASSUME NEW k \in Built(plain), NEW i \in DOMAIN plain[k].vertices,
             NEW c \in Client \ Members(plain[k].vertices)
      PROVE  LET fresh == RouteLeaves(Exchange(plain[k].vertices, i, c))
             IN  Tree!UpdateLeaf(Tree!UpdateLeaf(plain[k].tree, i - 1, fresh[i - 1]), i, fresh[i])
                   = Tree!Build(fresh)
  <2>1. PICK q \in Seq(Client) : plain[k] = BuildRouteState(q)  BY DEF Standing, Built, Plainly
  <2>2. plain[k].vertices = q /\ plain[k].tree = Tree!Build(RouteLeaves(q))
    BY <2>1, PlainState DEF Built
  <2>3. i \in DOMAIN q /\ c \in Client  BY <2>2
  <2> QED BY <2>2, <2>3, ExchangePlain
<1>2. ASSUME NEW k \in Built(warped), NEW i \in DOMAIN warped[k].vertices,
             NEW c \in Client \ Members(warped[k].vertices)
      PROVE  LET fresh == WarpRouteLeaves(Exchange(warped[k].vertices, i, c))
             IN  WarpTree!UpdateLeaf(WarpTree!UpdateLeaf(warped[k].tree, i - 1, fresh[i - 1]), i, fresh[i])
                   = WarpTree!Build(fresh)
  <2>1. PICK q \in Seq(Client) : warped[k] = BuildWarpRouteState(q)  BY DEF Standing, Built, Lately
  <2>2. warped[k].vertices = q /\ warped[k].tree = WarpTree!Build(WarpRouteLeaves(q))
    BY <2>1, WarpState DEF Built
  <2>3. i \in DOMAIN q /\ c \in Client  BY <2>2
  <2> QED BY <2>2, <2>3, ExchangeWarp
<1> QED BY <1>1, <1>2 DEF UpdateIsRebuild

(* A tree whose leaves were changed in place is the tree of a rebuilt route. *)
THEOREM UpdateRebuilds == Spec => []UpdateIsRebuild
<1>1. Standing => UpdateIsRebuild  BY StandingUpdate
<1> QED BY <1>1, StatesStand, PTL

-----------------------------------------------------------------------------
(* What an evaluation reads of a function of time: the low value and the lateness
   booked with it.  Read so, joining is composition that adds up lateness, and
   composition may be grouped in any way. *)
Lows(w, x) ==
  IF w THEN [t \in DOMAIN x.rho |-> <<Low(x.rho, t), Low(x.omega, t)>>]
  ELSE [t \in DOMAIN x |-> <<Low(x, t), 0>>]

Paired(F) == F = [t \in DOMAIN F |-> <<F[t][1], F[t][2]>>] /\ \A t \in DOMAIN F : F[t][1] \in Int /\ F[t][2] \in Int

After(F, G) ==
  [t \in {y \in DOMAIN G : G[y][1] \in DOMAIN F} |-> <<F[G[t][1]][1], G[t][2] + F[G[t][1]][2]>>]

LEMMA AfterPaired ==
  ASSUME NEW F, NEW G, Paired(F), Paired(G)
  PROVE  Paired(After(F, G))
<1> DEFINE H == After(F, G)
<1>1. /\ DOMAIN H = {y \in DOMAIN G : G[y][1] \in DOMAIN F}
      /\ \A t \in DOMAIN H : H[t] = <<F[G[t][1]][1], G[t][2] + F[G[t][1]][2]>>
      /\ H = [t \in DOMAIN H |-> H[t]]
  BY DEF After
<1> HIDE DEF H
<1>2. ASSUME NEW t \in DOMAIN H PROVE H[t] = <<H[t][1], H[t][2]>> /\ H[t][1] \in Int /\ H[t][2] \in Int
  BY <1>1 DEF Paired
<1> QED BY <1>1, <1>2 DEF Paired, H

LEMMA AfterGroups ==
  ASSUME NEW F, NEW G, NEW H, Paired(F), Paired(G), Paired(H)
  PROVE  After(After(F, G), H) = After(F, After(G, H))
<1> DEFINE A == After(F, G)
           B == After(G, H)
           L == After(A, H)
           R == After(F, B)
<1>1. /\ DOMAIN A = {y \in DOMAIN G : G[y][1] \in DOMAIN F}
      /\ \A t \in DOMAIN A : A[t] = <<F[G[t][1]][1], G[t][2] + F[G[t][1]][2]>>
  BY DEF After
<1>2. /\ DOMAIN B = {y \in DOMAIN H : H[y][1] \in DOMAIN G}
      /\ \A t \in DOMAIN B : B[t] = <<G[H[t][1]][1], H[t][2] + G[H[t][1]][2]>>
  BY DEF After
<1> HIDE DEF A, B
<1>3. /\ DOMAIN L = {y \in DOMAIN H : H[y][1] \in DOMAIN A}
      /\ \A t \in DOMAIN L : L[t] = <<A[H[t][1]][1], H[t][2] + A[H[t][1]][2]>>
      /\ L = [t \in DOMAIN L |-> L[t]]
  BY DEF After
<1>4. /\ DOMAIN R = {y \in DOMAIN B : B[y][1] \in DOMAIN F}
      /\ \A t \in DOMAIN R : R[t] = <<F[B[t][1]][1], B[t][2] + F[B[t][1]][2]>>
      /\ R = [t \in DOMAIN R |-> R[t]]
  BY DEF After
<1> HIDE DEF L, R
<1>5. DOMAIN L = DOMAIN R  BY <1>1, <1>2, <1>3, <1>4
<1>6. ASSUME NEW t \in DOMAIN L PROVE L[t] = R[t]
  <2> DEFINE y == H[t][1]
             z == G[y][1]
  <2>1. t \in DOMAIN H /\ t \in DOMAIN B /\ y \in DOMAIN A /\ y \in DOMAIN G /\ z \in DOMAIN F
    BY <1>1, <1>2, <1>3, <1>4, <1>5
  <2>2. A[y] = <<F[z][1], G[y][2] + F[z][2]>> /\ B[t] = <<z, H[t][2] + G[y][2]>>
    BY <1>1, <1>2, <2>1
  <2>3. H[t][2] \in Int /\ G[y][2] \in Int /\ F[z][2] \in Int
    BY <2>1 DEF Paired
  <2>4. L[t] = <<A[y][1], H[t][2] + A[y][2]>> /\ R[t] = <<F[B[t][1]][1], B[t][2] + F[B[t][1]][2]>>
    BY <1>3, <1>4, <1>5
  <2> HIDE DEF y, z
  <2>5. L[t] = <<F[z][1], H[t][2] + (G[y][2] + F[z][2])>>  BY <2>2, <2>4
  <2>6. R[t] = <<F[z][1], (H[t][2] + G[y][2]) + F[z][2]>>  BY <2>2, <2>4
  <2> QED BY <2>3, <2>5, <2>6
<1>7. L = R  BY <1>3, <1>4, <1>5, <1>6
<1> QED BY <1>7 DEF L, R, A, B

(* A function of time on an interval that begins at a, and never decreases. *)
Begins(D, a) == D = {} \/ \E e \in Int : a <= e /\ D = a .. e

Steady(f, a) ==
  /\ f \in [DOMAIN f -> Int \X Int]
  /\ Begins(DOMAIN f, a)
  /\ \A x \in DOMAIN f : Low(f, x) <= High(f, x)
  /\ \A x, y \in DOMAIN f : x <= y => Low(f, x) <= Low(f, y)

Onward(f, s) == \A x \in DOMAIN f : x >= s => Low(f, x) >= s

LEMMA Interval ==
  ASSUME NEW a \in Int, NEW e \in Int, a <= e
  PROVE  Min(a .. e) = a /\ Max(a .. e) = e
<1>1. a \in a .. e /\ \A y \in a .. e : a <= y  OBVIOUS
<1>2. e \in a .. e /\ \A y \in a .. e : e >= y  OBVIOUS
<1>3. \A x \in a .. e : (\A y \in a .. e : x <= y) => x = a  BY <1>1
<1>4. \A x \in a .. e : (\A y \in a .. e : x >= y) => x = e  BY <1>2
<1> QED BY <1>1, <1>2, <1>3, <1>4 DEF Min, Max

(* The part of an interval below a time is one again. *)
LEMMA Initial ==
  ASSUME NEW a \in Int, NEW e \in Int, NEW K, K \subseteq a .. e,
         \A x \in K : \A y \in a .. x : y \in K
  PROVE  Begins(K, a)
<1> SUFFICES ASSUME K # {} PROVE \E d \in Int : a <= d /\ K = a .. d  BY DEF Begins
<1>1. PICK d \in K : \A y \in K : d >= y
  <2>1. K \subseteq Int /\ \A x \in K : x <= e  OBVIOUS
  <2> QED BY <2>1, GreatestInt
<1>2. d \in Int /\ a <= d  OBVIOUS
<1>3. K = a .. d
  <2>1. \A y \in a .. d : y \in K  OBVIOUS
  <2>2. \A y \in K : y \in a .. d  BY <1>1
  <2> QED BY <2>1, <2>2
<1> QED BY <1>2, <1>3

(* Composition over a function that does not fall before the other one's domain. *)
Reads(h, f, g) ==
  /\ DOMAIN h = {y \in DOMAIN g : Low(g, y) \in DOMAIN f}
  /\ \A t \in DOMAIN h : Low(h, t) = Low(f, Low(g, t))

LEMMA ComposeSteady ==
  ASSUME NEW a \in Int, NEW b \in Int, NEW f, NEW g, Steady(f, a), Steady(g, b),
         \A y \in DOMAIN g : Low(g, y) >= a
  PROVE  Reads(Compose(f, g), f, g) /\ Steady(Compose(f, g), b)
<1> DEFINE h == Compose(f, g)
<1>1. CASE Void(f) \/ Void(g)
  <2>1. h = None  BY <1>1 DEF Compose
  <2>2. DOMAIN None = {} /\ None \in [{} -> Int \X Int]  BY DEF None
  <2> QED BY <1>1, <2>1, <2>2 DEF Reads, Steady, Void, Begins
<1>2. CASE ~Void(f) /\ ~Void(g)
  <2>1. PICK e \in Int : a <= e /\ DOMAIN f = a .. e  BY <1>2 DEF Steady, Void, Begins
  <2>2. PICK d \in Int : b <= d /\ DOMAIN g = b .. d  BY <1>2 DEF Steady, Void, Begins
  <2>3. Start(f) = a /\ End(f) = e  BY <2>1, Interval DEF Start, End
  <2> DEFINE K == {y \in DOMAIN g : High(g, y) >= a /\ Low(g, y) <= e}
             c(x) == Less(High(g, x), e)
             last(x) == x + 1 \notin DOMAIN g \/ Low(g, x + 1) > c(x)
  <2>4. h = [x \in K |-> <<Low(f, More(Low(g, x), a)), f[c(x)][IF last(x) THEN 2 ELSE 1]>>]
    BY <1>2, <2>3 DEF Compose
  <2>5. ASSUME NEW x \in DOMAIN g
        PROVE  Low(g, x) \in Int /\ High(g, x) \in Int /\ a <= Low(g, x) /\ Low(g, x) <= High(g, x)
    BY DEF Steady, Low, High
  <2>6. ASSUME NEW x \in DOMAIN f
        PROVE  Low(f, x) \in Int /\ High(f, x) \in Int /\ Low(f, x) <= High(f, x) /\ f[x] = <<Low(f, x), High(f, x)>>
    BY DEF Steady, Low, High
  <2>7. K = {y \in DOMAIN g : Low(g, y) \in DOMAIN f}
    <3>1. \A y \in DOMAIN g : Low(g, y) \in a .. e <=> Low(g, y) <= e  BY <2>5
    <3>2. \A y \in DOMAIN g : High(g, y) >= a  BY <2>5
    <3> QED BY <2>1, <3>1, <3>2
  <2>8. ASSUME NEW x \in K
        PROVE  /\ More(Low(g, x), a) = Low(g, x) /\ Low(g, x) \in DOMAIN f
               /\ c(x) \in DOMAIN f /\ Low(g, x) <= c(x)
    <3>1. x \in DOMAIN g /\ Low(g, x) <= e /\ Low(g, x) \in DOMAIN f  BY <2>7
    <3>2. Low(g, x) \in Int /\ High(g, x) \in Int /\ a <= Low(g, x) /\ Low(g, x) <= High(g, x)  BY <2>5, <3>1
    <3>3. c(x) \in Int /\ Low(g, x) <= c(x) /\ c(x) <= e  BY <3>1, <3>2 DEF Less
    <3>4. More(Low(g, x), a) = Low(g, x)  BY <3>2 DEF More
    <3> QED BY <2>1, <3>1, <3>2, <3>3, <3>4
  <2> HIDE DEF c, last
  <2>9. ASSUME NEW x \in K
        PROVE  /\ h[x] \in Int \X Int /\ Low(h, x) = Low(f, Low(g, x))
               /\ Low(h, x) <= High(h, x)
    <3>1. h[x] = <<Low(f, Low(g, x)), f[c(x)][IF last(x) THEN 2 ELSE 1]>>  BY <2>4, <2>8
    <3>2. Low(f, Low(g, x)) <= Low(f, c(x))  BY <2>8 DEF Steady
    <3>3. f[c(x)][IF last(x) THEN 2 ELSE 1] \in {Low(f, c(x)), High(f, c(x))}  BY DEF Low, High
    <3>4. Low(f, c(x)) \in Int /\ High(f, c(x)) \in Int /\ Low(f, c(x)) <= High(f, c(x))
          /\ Low(f, Low(g, x)) \in Int
      BY <2>6, <2>8
    <3> DEFINE u == f[c(x)][IF last(x) THEN 2 ELSE 1]
    <3>5. h[x] = <<Low(f, Low(g, x)), u>>  BY <3>1
    <3>6. u \in Int /\ Low(f, Low(g, x)) <= u
      <4> HIDE DEF u
      <4> QED BY <3>2, <3>3, <3>4 DEF u
    <3> HIDE DEF u, h
    <3>7. Low(h, x) = Low(f, Low(g, x)) /\ High(h, x) = u  BY <3>5 DEF Low, High
    <3> QED BY <3>4, <3>5, <3>6, <3>7
  <2>10. DOMAIN h = K /\ h = [x \in K |-> h[x]]  BY <2>4
  <2> HIDE DEF h
  <2>11. Begins(K, b)
    <3>1. K \subseteq b .. d  BY <2>2
    <3>2. ASSUME NEW x \in K, NEW y \in b .. x PROVE y \in K
      <4>1. x \in DOMAIN g /\ y \in DOMAIN g /\ y <= x /\ Low(g, x) <= e  BY <2>2
      <4>2. Low(g, y) <= Low(g, x)  BY <4>1 DEF Steady
      <4>3. Low(g, y) <= e /\ High(g, y) >= a
        <5>1. Low(g, x) \in Int /\ Low(g, y) \in Int /\ High(g, y) \in Int /\ a <= Low(g, y) /\ Low(g, y) <= High(g, y)
          BY <2>5, <4>1
        <5> QED BY <4>1, <4>2, <5>1
      <4> QED BY <4>1, <4>3
    <3> HIDE DEF K
    <3> QED BY <3>1, <3>2, <2>2, Initial
  <2>12. ASSUME NEW x \in K, NEW y \in K, x <= y PROVE Low(h, x) <= Low(h, y)
    <3>1. x \in DOMAIN g /\ y \in DOMAIN g  OBVIOUS
    <3>2. Low(g, x) <= Low(g, y) /\ Low(g, x) \in DOMAIN f /\ Low(g, y) \in DOMAIN f
      BY <2>8, <2>12, <3>1 DEF Steady
    <3>3. Low(f, Low(g, x)) <= Low(f, Low(g, y))  BY <3>2 DEF Steady
    <3> QED BY <2>9, <3>3
  <2>13. Reads(h, f, g)  BY <2>7, <2>9, <2>10 DEF Reads
  <2> HIDE DEF K
  <2>14. Steady(h, b)  BY <2>9, <2>10, <2>11, <2>12 DEF Steady
  <2> QED BY <2>13, <2>14 DEF h
<1> QED BY <1>1, <1>2

Sums(h, f, g) ==
  /\ DOMAIN h = DOMAIN f \cap DOMAIN g
  /\ \A t \in DOMAIN h : Low(h, t) = Low(f, t) + Low(g, t)

LEMMA AddSteady ==
  ASSUME NEW b \in Int, NEW f, NEW g, Steady(f, b), Steady(g, b)
  PROVE  Sums(Add(f, g), f, g) /\ Steady(Add(f, g), b)
<1> DEFINE h == Add(f, g)
           K == DOMAIN f \cap DOMAIN g
<1>1. h = [x \in K |-> <<Low(f, x) + Low(g, x), High(f, x) + High(g, x)>>]  BY DEF Add
<1>2. ASSUME NEW x \in K
      PROVE  /\ Low(f, x) \in Int /\ High(f, x) \in Int /\ Low(f, x) <= High(f, x)
             /\ Low(g, x) \in Int /\ High(g, x) \in Int /\ Low(g, x) <= High(g, x)
  BY DEF Steady, Low, High
<1>3. DOMAIN h = K /\ h = [x \in K |-> h[x]]  BY <1>1
<1>4. ASSUME NEW x \in K
      PROVE  h[x] \in Int \X Int /\ Low(h, x) = Low(f, x) + Low(g, x) /\ Low(h, x) <= High(h, x)
  <2>1. h[x] = <<Low(f, x) + Low(g, x), High(f, x) + High(g, x)>>  BY <1>1
  <2> HIDE DEF h
  <2>2. Low(h, x) = Low(f, x) + Low(g, x) /\ High(h, x) = High(f, x) + High(g, x)  BY <2>1 DEF Low, High
  <2> QED BY <1>2, <2>1, <2>2
<1> HIDE DEF h
<1>5. Begins(K, b)
  <2>1. CASE K = {}  BY <2>1 DEF Begins
  <2>2. CASE K # {}
    <3>1. PICK d \in Int : b <= d /\ DOMAIN f = b .. d  BY <2>2 DEF Steady, Begins
    <3>2. PICK e \in Int : b <= e /\ DOMAIN g = b .. e  BY <2>2 DEF Steady, Begins
    <3>3. CASE d <= e
      <4>1. K = b .. d  BY <3>1, <3>2, <3>3
      <4> QED BY <3>1, <4>1 DEF Begins
    <3>4. CASE e <= d
      <4>1. K = b .. e  BY <3>1, <3>2, <3>4
      <4> QED BY <3>2, <4>1 DEF Begins
    <3> QED BY <3>3, <3>4
  <2> QED BY <2>1, <2>2
<1>6. ASSUME NEW x \in K, NEW y \in K, x <= y PROVE Low(h, x) <= Low(h, y)
  <2>1. Low(f, x) <= Low(f, y) /\ Low(g, x) <= Low(g, y)  BY <1>6 DEF Steady
  <2> QED BY <1>2, <1>4, <2>1
<1> HIDE DEF K
<1>7. Steady(h, b)  BY <1>3, <1>4, <1>5, <1>6 DEF Steady
<1>8. Sums(h, f, g)  BY <1>3, <1>4 DEF Sums, K
<1> QED BY <1>7, <1>8 DEF h

(* A ready-time function, with lateness or without, from the time b on; s is where the
   horizon of the instance begins. *)
Sound(w, x, b, s) ==
  IF w THEN /\ Steady(x.rho, b) /\ Onward(x.rho, s)
            /\ Steady(x.omega, b) /\ DOMAIN x.omega = DOMAIN x.rho
            /\ \A t \in DOMAIN x.rho : Low(x.omega, t) >= 0
  ELSE Steady(x, b) /\ Onward(x, s)

LEMMA SteadyLow ==
  ASSUME NEW f, NEW a, Steady(f, a), NEW t \in DOMAIN f
  PROVE  Low(f, t) \in Int /\ High(f, t) \in Int /\ f[t] = <<Low(f, t), High(f, t)>>
BY DEF Steady, Low, High

LEMMA OnwardLow ==
  ASSUME NEW f, NEW b \in Int, NEW s \in Int, s <= b, Steady(f, b), Onward(f, s), NEW t \in DOMAIN f
  PROVE  Low(f, t) >= s
<1>1. t \in Int /\ t >= b  BY DEF Steady, Begins
<1> QED BY <1>1 DEF Onward

LEMMA OnwardCompose ==
  ASSUME NEW h, NEW f, NEW g, NEW s, Reads(h, f, g), Onward(f, s), \A t \in DOMAIN g : Low(g, t) >= s
  PROVE  Onward(h, s)
BY DEF Onward, Reads

LEMMA LowsPaired ==
  ASSUME NEW w \in BOOLEAN, NEW x, NEW b, NEW s, Sound(w, x, b, s)
  PROVE  Paired(Lows(w, x))
<1>1. CASE w
  <2> DEFINE F == Lows(w, x)
  <2>1. F = [t \in DOMAIN x.rho |-> <<Low(x.rho, t), Low(x.omega, t)>>]  BY <1>1 DEF Lows
  <2>2. \A t \in DOMAIN x.rho : Low(x.rho, t) \in Int /\ Low(x.omega, t) \in Int
    BY <1>1, SteadyLow DEF Sound
  <2>3. DOMAIN F = DOMAIN x.rho /\ \A t \in DOMAIN F : F[t] = <<Low(x.rho, t), Low(x.omega, t)>>  BY <2>1
  <2>4. F = [t \in DOMAIN F |-> F[t]]  BY <2>1
  <2> HIDE DEF F
  <2>5. Paired(F)  BY <2>2, <2>3, <2>4 DEF Paired
  <2> QED BY <2>5 DEF F
<1>2. CASE ~w
  <2> DEFINE F == Lows(w, x)
  <2>1. F = [t \in DOMAIN x |-> <<Low(x, t), 0>>]  BY <1>2 DEF Lows
  <2>2. \A t \in DOMAIN x : Low(x, t) \in Int  BY <1>2, SteadyLow DEF Sound
  <2>3. DOMAIN F = DOMAIN x /\ \A t \in DOMAIN F : F[t] = <<Low(x, t), 0>>  BY <2>1
  <2>4. F = [t \in DOMAIN F |-> F[t]]  BY <2>1
  <2> HIDE DEF F
  <2>5. Paired(F)  BY <2>2, <2>3, <2>4 DEF Paired
  <2> QED BY <2>5 DEF F
<1> QED BY <1>1, <1>2

(* Joining reads as composition. *)
Joins(w, z, x, y) == Lows(w, z) = After(Lows(w, x), Lows(w, y))

LEMMA PlainMergeAt ==
  ASSUME NEW s \in Int, NEW a \in Int, NEW b \in Int, s <= b, NEW x, NEW y, Sound(FALSE, x, a, s), Sound(FALSE, y, b, s),
         \A t \in DOMAIN y : Low(y, t) >= a
  PROVE  /\ Sound(FALSE, Compose(x, y), b, s)
         /\ Joins(FALSE, Compose(x, y), x, y)
<1> DEFINE h == Compose(x, y)
<1>1. Steady(x, a) /\ Onward(x, s) /\ Steady(y, b) /\ Onward(y, s)  BY DEF Sound
<1>2. \A t \in DOMAIN y : Low(y, t) >= s  BY <1>1, OnwardLow
<1>3. Reads(h, x, y) /\ Steady(h, b)  BY <1>1, ComposeSteady
<1> HIDE DEF h
<1>4. Onward(h, s)  BY <1>1, <1>2, <1>3, OnwardCompose
<1>5. Lows(FALSE, h) = After(Lows(FALSE, x), Lows(FALSE, y))
  <2> DEFINE F == Lows(FALSE, x)
             G == Lows(FALSE, y)
             H == Lows(FALSE, h)
             R == After(F, G)
  <2>1. DOMAIN F = DOMAIN x /\ \A t \in DOMAIN x : F[t] = <<Low(x, t), 0>>  BY DEF Lows
  <2>2. DOMAIN G = DOMAIN y /\ \A t \in DOMAIN y : G[t] = <<Low(y, t), 0>>  BY DEF Lows
  <2>3. H = [t \in DOMAIN h |-> <<Low(h, t), 0>>]  BY DEF Lows
  <2> HIDE DEF F, G
  <2>4. DOMAIN R = {t \in DOMAIN y : Low(y, t) \in DOMAIN x}
    <3>1. DOMAIN R = {t \in DOMAIN G : G[t][1] \in DOMAIN F}  BY DEF After
    <3> QED BY <2>1, <2>2, <3>1
  <2>5. R = [t \in DOMAIN R |-> R[t]] /\ \A t \in DOMAIN R : R[t] = <<F[G[t][1]][1], G[t][2] + F[G[t][1]][2]>>
    BY DEF After
  <2> HIDE DEF R
  <2>6. ASSUME NEW t \in DOMAIN R PROVE R[t] = <<Low(h, t), 0>>
    <3>1. R[t] = <<Low(x, Low(y, t)), 0 + 0>>  BY <2>1, <2>2, <2>4, <2>5
    <3>2. Low(h, t) = Low(x, Low(y, t))  BY <1>3, <2>4 DEF Reads
    <3> QED BY <3>1, <3>2
  <2>7. DOMAIN h = DOMAIN R  BY <1>3, <2>4 DEF Reads
  <2>8. H = R  BY <2>3, <2>5, <2>6, <2>7
  <2> QED BY <2>8 DEF H, R, F, G
<1> QED BY <1>3, <1>4, <1>5 DEF Sound, Joins, h

LEMMA PlainMerge ==
  ASSUME NEW s \in Int, NEW b \in Int, s <= b, NEW x, NEW y, Sound(FALSE, x, s, s), Sound(FALSE, y, b, s)
  PROVE  /\ Sound(FALSE, Compose(x, y), b, s)
         /\ Joins(FALSE, Compose(x, y), x, y)
<1>1. Steady(y, b) /\ Onward(y, s)  BY DEF Sound
<1>2. \A t \in DOMAIN y : Low(y, t) >= s  BY <1>1, OnwardLow
<1> QED BY <1>2, PlainMergeAt

LEMMA NoSegmentIs ==
  ASSUME NEW b, NEW s
  PROVE  Sound(TRUE, NoSegment, b, s)
<1>1. DOMAIN None = {} /\ None \in [{} -> Int \X Int]  BY DEF None
<1> QED BY <1>1 DEF Sound, NoSegment, Steady, Onward, Begins

LEMMA WarpMerge ==
  ASSUME NEW s \in Int, NEW b \in Int, s <= b, NEW x, NEW y, Sound(TRUE, x, s, s), Sound(TRUE, y, b, s)
  PROVE  /\ Sound(TRUE, WarpConcat(x, y), b, s)
         /\ Joins(TRUE, WarpConcat(x, y), x, y)
<1> DEFINE z == WarpConcat(x, y)
           h == Compose(x.rho, y.rho)
           o == Compose(x.omega, y.rho)
           u == Add(y.omega, o)
<1>1. /\ Steady(x.rho, s) /\ Onward(x.rho, s) /\ Steady(x.omega, s) /\ DOMAIN x.omega = DOMAIN x.rho
      /\ \A t \in DOMAIN x.rho : Low(x.omega, t) >= 0
  BY DEF Sound
<1>2. /\ Steady(y.rho, b) /\ Onward(y.rho, s) /\ Steady(y.omega, b) /\ DOMAIN y.omega = DOMAIN y.rho
      /\ \A t \in DOMAIN y.rho : Low(y.omega, t) >= 0
  BY DEF Sound
<1>3. \A t \in DOMAIN y.rho : Low(y.rho, t) >= s  BY <1>2, OnwardLow
<1>4. Reads(h, x.rho, y.rho) /\ Steady(h, b)  BY <1>1, <1>2, <1>3, ComposeSteady
<1>5. Reads(o, x.omega, y.rho) /\ Steady(o, b)  BY <1>1, <1>2, <1>3, ComposeSteady
<1>6. z = IF Void(h) \/ Void(x.rho) \/ Void(y.rho) THEN NoSegment ELSE [rho |-> h, omega |-> u]
  BY DEF WarpConcat
<1> HIDE DEF h, o
<1>7. Onward(h, s)  BY <1>1, <1>2, <1>3, <1>4, OnwardCompose
<1>8. Sums(u, y.omega, o) /\ Steady(u, b)
  BY <1>2, <1>5, AddSteady
<1> HIDE DEF u
<1>9. DOMAIN u = DOMAIN h
      /\ \A t \in DOMAIN h : /\ Low(h, t) = Low(x.rho, Low(y.rho, t)) /\ Low(y.rho, t) \in DOMAIN x.rho
                             /\ Low(u, t) = Low(y.omega, t) + Low(x.omega, Low(y.rho, t))
                             /\ t \in DOMAIN y.rho
  BY <1>1, <1>2, <1>4, <1>5, <1>8 DEF Reads, Sums
<1> HIDE DEF z
<1>10. DOMAIN z.rho = DOMAIN h /\ (DOMAIN h # {} => z = [rho |-> h, omega |-> u]) /\ (DOMAIN h = {} => z = NoSegment)
  <2>1. Void(x.rho) \/ Void(y.rho) => DOMAIN h = {}  BY <1>4 DEF Reads, Void
  <2>2. DOMAIN NoSegment.rho = {}  BY DEF NoSegment, None
  <2>3. CASE DOMAIN h = {}
    <3>1. z = NoSegment  BY <1>6, <2>3 DEF Void
    <3> QED BY <2>2, <2>3, <3>1
  <2>4. CASE DOMAIN h # {}
    <3>1. z = [rho |-> h, omega |-> u]  BY <1>6, <2>1, <2>4 DEF Void
    <3>2. z.rho = h  BY <3>1
    <3> QED BY <2>4, <3>1, <3>2
  <2> QED BY <2>3, <2>4
<1>11. Sound(TRUE, z, b, s)
  <2>1. CASE DOMAIN h = {}  BY <1>10, <2>1, NoSegmentIs
  <2>2. CASE DOMAIN h # {}
    <3>1. z.rho = h /\ z.omega = u  BY <1>10, <2>2
    <3>2. ASSUME NEW t \in DOMAIN h PROVE Low(u, t) >= 0
      <4>1. Low(y.omega, t) \in Int /\ Low(x.omega, Low(y.rho, t)) \in Int
        BY <1>1, <1>2, <1>9, SteadyLow
      <4>2. Low(y.omega, t) >= 0 /\ Low(x.omega, Low(y.rho, t)) >= 0  BY <1>1, <1>2, <1>9
      <4> QED BY <1>9, <4>1, <4>2
    <3> QED BY <1>4, <1>7, <1>8, <1>9, <3>1, <3>2 DEF Sound
  <2> QED BY <2>1, <2>2
<1>12. Lows(TRUE, z) = After(Lows(TRUE, x), Lows(TRUE, y))
  <2> DEFINE F == Lows(TRUE, x)
             G == Lows(TRUE, y)
             H == Lows(TRUE, z)
             R == After(F, G)
  <2>1. DOMAIN F = DOMAIN x.rho /\ \A t \in DOMAIN x.rho : F[t] = <<Low(x.rho, t), Low(x.omega, t)>>
    BY DEF Lows
  <2>2. DOMAIN G = DOMAIN y.rho /\ \A t \in DOMAIN y.rho : G[t] = <<Low(y.rho, t), Low(y.omega, t)>>
    BY DEF Lows
  <2>3. H = [t \in DOMAIN z.rho |-> <<Low(z.rho, t), Low(z.omega, t)>>]  BY DEF Lows
  <2> HIDE DEF F, G
  <2>4. DOMAIN R = {t \in DOMAIN y.rho : Low(y.rho, t) \in DOMAIN x.rho}
    <3>1. DOMAIN R = {t \in DOMAIN G : G[t][1] \in DOMAIN F}  BY DEF After
    <3> QED BY <2>1, <2>2, <3>1
  <2>5. R = [t \in DOMAIN R |-> R[t]] /\ \A t \in DOMAIN R : R[t] = <<F[G[t][1]][1], G[t][2] + F[G[t][1]][2]>>
    BY DEF After
  <2> HIDE DEF R
  <2>7. DOMAIN z.rho = DOMAIN R  BY <1>4, <1>10, <2>4 DEF Reads
  <2>6. ASSUME NEW t \in DOMAIN R PROVE R[t] = <<Low(z.rho, t), Low(z.omega, t)>>
    <3>1. R[t] = <<Low(x.rho, Low(y.rho, t)), Low(y.omega, t) + Low(x.omega, Low(y.rho, t))>>
      BY <2>1, <2>2, <2>4, <2>5
    <3>2. t \in DOMAIN h /\ z = [rho |-> h, omega |-> u]  BY <1>10, <2>7
    <3>3. z.rho = h /\ z.omega = u  BY <3>2
    <3> QED BY <1>9, <3>1, <3>2, <3>3
  <2>8. H = R  BY <2>3, <2>5, <2>6, <2>7
  <2> QED BY <2>8 DEF H, R, F, G
<1> QED BY <1>11, <1>12 DEF Joins, z

LEMMA MergeIs ==
  ASSUME NEW w \in BOOLEAN, NEW s \in Int, NEW b \in Int, s <= b, NEW x, NEW y,
         Sound(w, x, s, s), Sound(w, y, b, s)
  PROVE  Sound(w, Merge(w, x, y), b, s) /\ Joins(w, Merge(w, x, y), x, y)
<1>1. CASE w = TRUE
  <2>1. Sound(TRUE, x, s, s) /\ Sound(TRUE, y, b, s)  BY <1>1
  <2>2. Sound(TRUE, WarpConcat(x, y), b, s)
        /\ Joins(TRUE, WarpConcat(x, y), x, y)
    BY <2>1, WarpMerge
  <2>3. Merge(TRUE, x, y) = WarpConcat(x, y)  BY DEF Merge
  <2> QED BY <1>1, <2>2, <2>3
<1>2. CASE w = FALSE
  <2>1. Sound(FALSE, x, s, s) /\ Sound(FALSE, y, b, s)  BY <1>2
  <2>2. Sound(FALSE, Compose(x, y), b, s)
        /\ Joins(FALSE, Compose(x, y), x, y)
    BY <2>1, PlainMerge
  <2>3. Merge(FALSE, x, y) = Compose(x, y)  BY DEF Merge
  <2> QED BY <1>2, <2>2, <2>3
<1> QED BY <1>1, <1>2

-----------------------------------------------------------------------------
(* A run of a way: one leg after the other, from a to b. *)
Chain(c, W, a, b) == c[a] = W[a] /\ \A k \in a + 1 .. b : c[k] = After(W[k], c[k - 1])
Runs(F, W, a, b)  == \E c : Chain(c, W, a, b) /\ F = c[b]
Legged(W, a, b)   == \A k \in a .. b : Paired(W[k])

LEMMA RunsOne ==
  ASSUME NEW W, NEW a \in Int, NEW F, F = W[a]
  PROVE  Runs(F, W, a, a)
<1> DEFINE c == [k \in {a} |-> W[a]]
<1>1. Chain(c, W, a, a) /\ F = c[a]
  <2>1. a + 1 .. a = {}  OBVIOUS
  <2> QED BY <2>1 DEF Chain
<1> HIDE DEF c
<1> QED BY <1>1 DEF Runs

LEMMA RunsStep ==
  ASSUME NEW W, NEW a \in Int, NEW b \in Int, a <= b, NEW F, Runs(F, W, a, b)
  PROVE  Runs(After(W[b + 1], F), W, a, b + 1)
<1>1. PICK c : Chain(c, W, a, b) /\ F = c[b]  BY DEF Runs
<1> DEFINE d == [k \in a .. b + 1 |-> IF k = b + 1 THEN After(W[b + 1], F) ELSE c[k]]
<1>2. \A k \in a .. b : d[k] = c[k]
  <2>1. \A k \in a .. b : k \in a .. b + 1 /\ k # b + 1  OBVIOUS
  <2> QED BY <2>1
<1>3. d[b + 1] = After(W[b + 1], F)
  <2>1. b + 1 \in a .. b + 1  OBVIOUS
  <2> QED BY <2>1
<1> HIDE DEF d
<1>4. d[a] = W[a]
  <2>1. a \in a .. b  OBVIOUS
  <2> QED BY <1>1, <1>2, <2>1 DEF Chain
<1>5. ASSUME NEW k \in a + 1 .. b + 1 PROVE d[k] = After(W[k], d[k - 1])
  <2>1. CASE k = b + 1
    <3>1. k - 1 = b /\ b \in a .. b  BY <2>1
    <3> QED BY <1>1, <1>2, <1>3, <2>1, <3>1
  <2>2. CASE k # b + 1
    <3>1. k \in a + 1 .. b /\ k \in a .. b /\ k - 1 \in a .. b  BY <2>2
    <3> QED BY <1>1, <1>2, <3>1 DEF Chain
  <2> QED BY <2>1, <2>2
<1>6. Chain(d, W, a, b + 1)  BY <1>4, <1>5 DEF Chain
<1> QED BY <1>3, <1>6 DEF Runs

LEMMA RunsUnique ==
  ASSUME NEW W, NEW a \in Int, NEW b \in Int, a <= b, NEW F, NEW G, Runs(F, W, a, b), Runs(G, W, a, b)
  PROVE  F = G
<1>1. PICK c : Chain(c, W, a, b) /\ F = c[b]  BY DEF Runs
<1>2. PICK d : Chain(d, W, a, b) /\ G = d[b]  BY DEF Runs
<1> DEFINE S == {k \in a .. b : c[k] = d[k]}
<1>3. a \in S  BY <1>1, <1>2 DEF Chain
<1>4. ASSUME NEW k \in a .. b - 1, k \in S PROVE k + 1 \in S
  <2>1. k + 1 \in a + 1 .. b /\ k + 1 \in a .. b /\ (k + 1) - 1 = k  OBVIOUS
  <2>2. c[k + 1] = After(W[k + 1], c[k]) /\ d[k + 1] = After(W[k + 1], d[k])  BY <1>1, <1>2, <2>1 DEF Chain
  <2> QED BY <1>4, <2>1, <2>2
<1>5. b \in S
  <2> HIDE DEF S
  <2>1. a .. b \subseteq S  BY <1>3, <1>4, Induction
  <2> QED BY <2>1
<1> QED BY <1>1, <1>2, <1>5

LEMMA RunsPaired ==
  ASSUME NEW W, NEW a \in Int, NEW b \in Int, a <= b, NEW F, Runs(F, W, a, b), Legged(W, a, b)
  PROVE  Paired(F)
<1>1. PICK c : Chain(c, W, a, b) /\ F = c[b]  BY DEF Runs
<1> DEFINE S == {k \in a .. b : Paired(c[k])}
<1>2. a \in S
  <2>1. a \in a .. b  OBVIOUS
  <2> QED BY <1>1, <2>1 DEF Chain, Legged
<1>3. ASSUME NEW k \in a .. b - 1, k \in S PROVE k + 1 \in S
  <2>1. k + 1 \in a + 1 .. b /\ k + 1 \in a .. b /\ (k + 1) - 1 = k  OBVIOUS
  <2>2. c[k + 1] = After(W[k + 1], c[k]) /\ Paired(W[k + 1])  BY <1>1, <2>1 DEF Chain, Legged
  <2> QED BY <1>3, <2>1, <2>2, AfterPaired
<1>4. b \in S
  <2> HIDE DEF S
  <2>1. a .. b \subseteq S  BY <1>2, <1>3, Induction
  <2> QED BY <2>1
<1> QED BY <1>1, <1>4

(* Two runs in a row are one. *)
LEMMA RunsJoin ==
  ASSUME NEW W, NEW a \in Int, NEW b \in Int, NEW e \in Int, a <= b, b < e, Legged(W, a, e),
         NEW F, NEW G, Runs(F, W, a, b), Runs(G, W, b + 1, e)
  PROVE  Runs(After(G, F), W, a, e)
<1>1. PICK c : Chain(c, W, b + 1, e) /\ G = c[e]  BY DEF Runs
<1>2. Legged(W, a, b) /\ Paired(F)
  <2>1. Legged(W, a, b)
    <3>1. \A k \in a .. b : k \in a .. e  OBVIOUS
    <3> QED BY <3>1 DEF Legged
  <2> QED BY <2>1, RunsPaired
<1> DEFINE S == {k \in b + 1 .. e : Runs(After(c[k], F), W, a, k) /\ Paired(c[k])}
<1>3. b + 1 \in S
  <2>1. b + 1 \in b + 1 .. e /\ b + 1 \in a .. e  OBVIOUS
  <2>2. Runs(After(W[b + 1], F), W, a, b + 1)  BY RunsStep
  <2>3. c[b + 1] = W[b + 1] /\ Paired(W[b + 1])  BY <1>1, <2>1 DEF Chain, Legged
  <2> QED BY <2>1, <2>2, <2>3
<1>4. ASSUME NEW k \in b + 1 .. e - 1, k \in S PROVE k + 1 \in S
  <2>1. k + 1 \in b + 1 .. e /\ k + 1 \in (b + 1) + 1 .. e /\ k + 1 \in a .. e /\ (k + 1) - 1 = k /\ a <= k /\ k \in Int
    OBVIOUS
  <2>2. c[k + 1] = After(W[k + 1], c[k]) /\ Paired(W[k + 1])  BY <1>1, <2>1 DEF Chain, Legged
  <2>3. Runs(After(c[k], F), W, a, k) /\ Paired(c[k])  BY <1>4
  <2>4. Runs(After(W[k + 1], After(c[k], F)), W, a, k + 1)  BY <2>1, <2>3, RunsStep
  <2>5. After(W[k + 1], After(c[k], F)) = After(After(W[k + 1], c[k]), F)
    BY <1>2, <2>2, <2>3, AfterGroups
  <2>6. Paired(After(W[k + 1], c[k]))  BY <2>2, <2>3, AfterPaired
  <2> QED BY <2>1, <2>2, <2>4, <2>5, <2>6
<1>5. e \in S
  <2> HIDE DEF S
  <2>1. b + 1 \in Int  OBVIOUS
  <2>2. b + 1 .. e \subseteq S  BY <1>3, <1>4, <2>1, Induction
  <2> QED BY <2>2
<1> QED BY <1>1, <1>5

(* The same legs elsewhere on another way. *)
Alike(V, W, a, b, n) == \A k \in a .. b : V[k + n] = W[k]

LEMMA RunsAlike ==
  ASSUME NEW W, NEW V, NEW a \in Int, NEW b \in Int, a <= b, NEW n \in Int,
         Alike(V, W, a, b, n), NEW F, Runs(F, W, a, b)
  PROVE  Runs(F, V, a + n, b + n)
<1>1. PICK c : Chain(c, W, a, b) /\ F = c[b]  BY DEF Runs
<1> DEFINE d == [k \in a + n .. b + n |-> c[k - n]]
<1>2. \A k \in a .. b : d[k + n] = c[k]
  <2>1. \A k \in a .. b : k + n \in a + n .. b + n /\ (k + n) - n = k  OBVIOUS
  <2> QED BY <2>1
<1> HIDE DEF d
<1>3. d[a + n] = V[a + n] /\ F = d[b + n]
  <2>1. a \in a .. b /\ b \in a .. b  OBVIOUS
  <2> QED BY <1>1, <1>2, <2>1 DEF Chain, Alike
<1>4. ASSUME NEW k \in (a + n) + 1 .. b + n PROVE d[k] = After(V[k], d[k - 1])
  <2> DEFINE j == k - n
  <2>1. j \in a + 1 .. b /\ j \in a .. b /\ j - 1 \in a .. b /\ j + n = k /\ (j - 1) + n = k - 1  OBVIOUS
  <2> HIDE DEF j
  <2>2. c[j] = After(W[j], c[j - 1])  BY <1>1, <2>1 DEF Chain
  <2>3. d[k] = c[j] /\ d[k - 1] = c[j - 1] /\ V[k] = W[j]  BY <1>2, <2>1 DEF Alike
  <2> QED BY <2>2, <2>3
<1>5. Chain(d, V, a + n, b + n)  BY <1>3, <1>4 DEF Chain
<1> QED BY <1>3, <1>5 DEF Runs

-----------------------------------------------------------------------------
(* A function spans a stretch of a way: it is sound and reads as its run.  What begins
   the way begins with the departures, at d; all else with the horizon, at s. *)
Spans(w, x, W, a, b, d, s) ==
  /\ a \in Nat /\ b \in Nat /\ a <= b
  /\ Sound(w, x, IF a = 0 THEN d ELSE s, s)
  /\ Runs(Lows(w, x), W, a, b)

LEMMA SpansJoin ==
  ASSUME NEW w \in BOOLEAN, NEW d \in Int, NEW s \in Int, s <= d, NEW W, NEW a, NEW b, NEW e,
         Legged(W, a, e), NEW x, NEW y, Spans(w, y, W, a, b, d, s), Spans(w, x, W, b + 1, e, d, s)
  PROVE  Spans(w, Merge(w, x, y), W, a, e, d, s)
<1>1. a \in Nat /\ b \in Nat /\ e \in Nat /\ a <= b /\ b < e  BY DEF Spans
<1> DEFINE from == IF a = 0 THEN d ELSE s
<1>2. from \in Int /\ s <= from  OBVIOUS
<1>3. Sound(w, y, from, s)  BY DEF Spans
<1>4. Sound(w, x, s, s)  BY <1>1 DEF Spans
<1> HIDE DEF from
<1>5. Sound(w, Merge(w, x, y), from, s) /\ Joins(w, Merge(w, x, y), x, y)
  BY <1>2, <1>3, <1>4, MergeIs
<1> DEFINE F == Lows(w, y)
           G == Lows(w, x)
<1>6. Runs(F, W, a, b) /\ Runs(G, W, b + 1, e)  BY DEF Spans
<1> HIDE DEF F, G
<1>7. Runs(After(G, F), W, a, e)  BY <1>1, <1>6, RunsJoin
<1>8. Runs(Lows(w, Merge(w, x, y)), W, a, e)  BY <1>5, <1>7 DEF Joins, F, G
<1> QED BY <1>1, <1>5, <1>8 DEF Spans, from

(* Leaf i is leg i + 1 of the way; leaf 0 begins with the departures. *)
First(i) == IF i = 0 THEN 0 ELSE i + 1

Fits(w, L, n, W, d, s) ==
  /\ w \in BOOLEAN /\ d \in Int /\ s \in Int /\ s <= d
  /\ Leaved(L, n) /\ Legged(W, 0, n + 1)
  /\ \A i \in 0 .. n : Spans(w, L[i], W, First(i), i + 1, d, s)

\* what is stored at h for e
Held(w, x, W, h, e, d, s) ==
  IF e < h THEN Spans(w, x, W, First(e), h, d, s) ELSE Spans(w, x, W, First(h), e, d, s)

LEMMA LeggedPart ==
  ASSUME NEW W, NEW a \in Int, NEW b \in Int, NEW c \in Int, NEW e \in Int, a <= c, e <= b, Legged(W, a, b)
  PROVE  Legged(W, c, e)
<1>1. \A k \in c .. e : k \in a .. b  OBVIOUS
<1> QED BY <1>1 DEF Legged

LEMMA FilledHolds ==
  ASSUME NEW w, NEW L, NEW n, NEW W, NEW d, NEW s, Fits(w, L, n, W, d, s),
         NEW r \in Ranges(n + 1), NEW h \in Over(r), NEW f, Filled(w, f, L, r, h),
         NEW g \in Tree!Below(r, h)
  PROVE  Held(w, f[g], W, h, g, d, s)
<1> DEFINE S == {e \in Tree!Below(r, h) : Held(w, f[e], W, h, e, d, s)}
<1>1. /\ w \in BOOLEAN /\ d \in Int /\ s \in Int /\ s <= d /\ n \in Nat /\ Legged(W, 0, n + 1)
      /\ \A i \in 0 .. n : Spans(w, L[i], W, First(i), i + 1, d, s)
  BY DEF Fits, Leaved
<1>2. h \in 0 .. n + 1 /\ \A e \in Tree!Below(r, h) : e \in 0 .. n + 1 /\ e # h
  BY <1>1 DEF Ranges, Over, Tree!Below
<1>3. ASSUME NEW e \in Tree!Below(r, h), Inward(h, e, S)
      PROVE  Held(w, f[e], W, h, e, d, s)
  <2>1. e \in 0 .. n + 1 /\ e # h /\ f[e] = LinkOf(w, L, f, h, e)  BY <1>2 DEF Filled
  <2>2. CASE e = h - 1
    <3>1. ~(e < h - 1) /\ e # h + 1 /\ ~(e > h + 1) /\ e < h /\ e \in 0 .. n /\ e + 1 = h  BY <1>1, <1>2, <2>2
    <3>2. f[e] = L[e]  BY <2>1, <2>2, <3>1 DEF LinkOf
    <3>3. Spans(w, L[e], W, First(e), h, d, s)  BY <1>1, <3>1
    <3> QED BY <3>1, <3>2, <3>3 DEF Held
  <2>3. CASE e < h - 1
    <3>1. e # h - 1 /\ e # h + 1 /\ ~(e > h + 1) /\ e < h /\ e \in 0 .. n /\ e + 1 < h
          /\ First(e + 1) = (e + 1) + 1 /\ First(e) \in Nat
      BY <1>1, <1>2, <2>1, <2>3 DEF First
    <3>2. f[e] = Merge(w, f[e + 1], L[e])  BY <2>1, <2>3, <3>1 DEF LinkOf
    <3>3. Spans(w, L[e], W, First(e), e + 1, d, s)  BY <1>1, <3>1
    <3>4. Spans(w, f[e + 1], W, (e + 1) + 1, h, d, s)  BY <1>3, <2>3, <3>1 DEF Inward, Held
    <3>5. Legged(W, First(e), h)  BY <1>1, <1>2, <3>1, LeggedPart
    <3>6. Spans(w, Merge(w, f[e + 1], L[e]), W, First(e), h, d, s)
      BY <1>1, <3>3, <3>4, <3>5, SpansJoin
    <3> QED BY <3>1, <3>2, <3>6 DEF Held
  <2>4. CASE e = h + 1
    <3>1. e # h - 1 /\ ~(e < h - 1) /\ ~(e > h + 1) /\ ~(e < h) /\ h \in 0 .. n /\ e - 1 = h  BY <1>1, <1>2, <2>1, <2>4
    <3>2. f[e] = L[h]  BY <2>1, <2>4, <3>1 DEF LinkOf
    <3>3. Spans(w, L[h], W, First(h), e, d, s)  BY <1>1, <2>4, <3>1
    <3> QED BY <3>1, <3>2, <3>3 DEF Held
  <2>5. CASE e > h + 1
    <3>1. e # h - 1 /\ ~(e < h - 1) /\ e # h + 1 /\ ~(e < h) /\ e - 1 \in 0 .. n /\ ~(e - 1 < h)
          /\ First(e - 1) = (e - 1) + 1 /\ First(h) \in Nat /\ (e - 1) + 1 = e
      BY <1>1, <1>2, <2>1, <2>5 DEF First
    <3>2. f[e] = Merge(w, L[e - 1], f[e - 1])  BY <2>1, <2>5, <3>1 DEF LinkOf
    <3>3. Spans(w, L[e - 1], W, First(e - 1), (e - 1) + 1, d, s)  BY <1>1, <3>1
    <3>4. Spans(w, L[e - 1], W, (e - 1) + 1, e, d, s)
      <4> DEFINE z == e - 1
      <4>1. Spans(w, L[z], W, First(z), z + 1, d, s) /\ First(z) = z + 1 /\ z + 1 = e  BY <3>1, <3>3
      <4> HIDE DEF z
      <4>2. Spans(w, L[z], W, z + 1, e, d, s)  BY <4>1
      <4> QED BY <4>2 DEF z
    <3>5. Spans(w, f[e - 1], W, First(h), e - 1, d, s)  BY <1>3, <2>5, <3>1 DEF Inward, Held
    <3>6. Legged(W, First(h), e)
      <4>1. e \in Int /\ e <= n + 1 /\ 0 <= First(h)  BY <1>1, <2>1, <3>1
      <4> QED BY <1>1, <3>1, <4>1, LeggedPart
    <3>7. Spans(w, Merge(w, L[e - 1], f[e - 1]), W, First(h), e, d, s)
      BY <1>1, <3>4, <3>5, <3>6, SpansJoin
    <3> QED BY <3>1, <3>2, <3>7 DEF Held
  <2> QED BY <1>2, <2>1, <2>2, <2>3, <2>4, <2>5
<1>4. Tree!Below(r, h) \subseteq S
  <2>1. \A e \in Tree!Below(r, h) : Inward(h, e, S) => e \in S  BY <1>3
  <2>2. n + 1 \in Nat  BY <1>1
  <2> HIDE DEF S
  <2> QED BY <2>1, <2>2, Outward
<1> QED BY <1>4

LEMMA PlainQuery ==
  ASSUME NEW L, NEW n, NEW W, NEW d, NEW s, Fits(FALSE, L, n, W, d, s),
         NEW lo \in 0 .. n, NEW hi \in lo .. n
  PROVE  Spans(FALSE, Tree!Query(Tree!Build(L), lo, hi), W, First(lo), hi + 1, d, s)
<1> DEFINE N == Tree!BuildRange(n + 1)
           stored == [h \in 0 .. n + 1 |-> Tree!FillNode(L, N[h], h)]
           tree == [leaves |-> L, nodes |-> N, stored |-> stored]
           h == Tree!Lca(N, lo, hi + 1)
           x == Tree!Query(tree, lo, hi)
<1>1. n \in Nat /\ lo \in 0 .. n + 1 /\ hi + 1 \in 0 .. n + 1 /\ lo < hi + 1 /\ lo \in Int /\ hi \in Int
      /\ d \in Int /\ s \in Int /\ s <= d /\ Leaved(L, n) /\ Legged(W, 0, n + 1)
  BY DEF Fits, Leaved
<1>2. Tree!Build(L) = tree  BY <1>1, PlainBuild
<1>3. Noded(N, n + 1)  BY <1>1, NodesAre
<1>4. Tree!Lca(N, lo, hi + 1) = h
  OBVIOUS
<1> HIDE DEF N
<1>5. h \in 0 .. n + 1 /\ lo \in Over(N[h]) /\ hi + 1 \in Over(N[h])
  BY <1>1, <1>3, LcaIs
<1>6. h \in lo .. hi + 1
  <2>1. lo <= hi + 1 /\ n + 1 \in Nat  BY <1>1
  <2> QED BY <1>1, <1>3, <2>1, LcaBetween
<1>7. x = CASE h = lo     -> stored[lo][hi + 1]
            [] h = hi + 1 -> stored[hi + 1][lo]
            [] OTHER      -> Merge(FALSE, stored[h][hi + 1], stored[h][lo])
  <2> HIDE DEF stored, h
  <2> QED BY <1>4 DEF Tree!Query, Merge
<1> HIDE DEF h, x
<1>8. ASSUME NEW e \in Tree!Below(N[h], h) PROVE Held(FALSE, stored[h][e], W, h, e, d, s)
  <2>1. N[h] \in Ranges(n + 1) /\ h \in Over(N[h]) /\ n + 1 \in Nat  BY <1>1, <1>3, <1>5 DEF Noded
  <2>2. Filled(FALSE, stored[h], L, N[h], h)  BY <1>5, <2>1, PlainFill
  <2> HIDE DEF stored
  <2> QED BY <2>1, <2>2, FilledHolds
<1> HIDE DEF stored
<1>9. \A e \in {lo, hi + 1} : e # h => e \in Tree!Below(N[h], h)  BY <1>5 DEF Over, Tree!Below
<1>10. CASE h = lo
  <2> hi + 1 # h /\ h # hi + 1 /\ ~(hi + 1 < h)  BY <1>1, <1>10
  <2>1. x = stored[h][hi + 1] /\ hi + 1 # h /\ ~(hi + 1 < h)  BY <1>7, <1>10
  <2>2. Held(FALSE, stored[h][hi + 1], W, h, hi + 1, d, s)  BY <1>8, <1>9, <2>1
  <2>3. Spans(FALSE, x, W, First(lo), hi + 1, d, s)  BY <1>10, <2>1, <2>2 DEF Held
  <2> QED BY <1>2, <2>3 DEF x
<1>11. CASE h = hi + 1
  <2>1. x = stored[h][lo] /\ lo # h /\ lo < h  BY <1>1, <1>7, <1>11
  <2>2. Held(FALSE, stored[h][lo], W, h, lo, d, s)  BY <1>8, <1>9, <2>1
  <2>3. Spans(FALSE, x, W, First(lo), hi + 1, d, s)  BY <1>11, <2>1, <2>2 DEF Held
  <2> QED BY <1>2, <2>3 DEF x
<1>12. CASE h # lo /\ h # hi + 1
  <2>1. x = Merge(FALSE, stored[h][hi + 1], stored[h][lo]) /\ lo < h /\ ~(hi + 1 < h) /\ First(h) = h + 1
    BY <1>1, <1>6, <1>7, <1>12 DEF First
  <2>2. Held(FALSE, stored[h][lo], W, h, lo, d, s) /\ Held(FALSE, stored[h][hi + 1], W, h, hi + 1, d, s)
    BY <1>8, <1>9, <1>12
  <2>3. Spans(FALSE, stored[h][lo], W, First(lo), h, d, s)
        /\ Spans(FALSE, stored[h][hi + 1], W, h + 1, hi + 1, d, s)
    BY <2>1, <2>2 DEF Held
  <2>4. Legged(W, First(lo), hi + 1)
    <3>1. First(lo) \in Int /\ 0 <= First(lo) /\ hi + 1 \in Int /\ hi + 1 <= n + 1 /\ n + 1 \in Int
      BY <1>1 DEF First
    <3> QED BY <1>1, <3>1, LeggedPart
  <2>5. Spans(FALSE, x, W, First(lo), hi + 1, d, s)  BY <1>1, <2>1, <2>3, <2>4, SpansJoin
  <2> QED BY <1>2, <2>5 DEF x
<1> QED BY <1>10, <1>11, <1>12

LEMMA WarpQuery ==
  ASSUME NEW L, NEW n, NEW W, NEW d, NEW s, Fits(TRUE, L, n, W, d, s),
         NEW lo \in 0 .. n, NEW hi \in lo .. n
  PROVE  Spans(TRUE, WarpTree!Query(WarpTree!Build(L), lo, hi), W, First(lo), hi + 1, d, s)
<1> DEFINE N == Tree!BuildRange(n + 1)
           stored == [h \in 0 .. n + 1 |-> WarpTree!FillNode(L, N[h], h)]
           tree == [leaves |-> L, nodes |-> N, stored |-> stored]
           h == Tree!Lca(N, lo, hi + 1)
           x == WarpTree!Query(tree, lo, hi)
<1>1. n \in Nat /\ lo \in 0 .. n + 1 /\ hi + 1 \in 0 .. n + 1 /\ lo < hi + 1 /\ lo \in Int /\ hi \in Int
      /\ d \in Int /\ s \in Int /\ s <= d /\ Leaved(L, n) /\ Legged(W, 0, n + 1)
  BY DEF Fits, Leaved
<1>2. WarpTree!Build(L) = tree  BY <1>1, WarpBuild
<1>3. Noded(N, n + 1)  BY <1>1, NodesAre
<1>4. WarpTree!Lca(N, lo, hi + 1) = h
  BY DEF WarpTree!Lca, Tree!Lca
<1> HIDE DEF N
<1>5. h \in 0 .. n + 1 /\ lo \in Over(N[h]) /\ hi + 1 \in Over(N[h])
  BY <1>1, <1>3, LcaIs
<1>6. h \in lo .. hi + 1
  <2>1. lo <= hi + 1 /\ n + 1 \in Nat  BY <1>1
  <2> QED BY <1>1, <1>3, <2>1, LcaBetween
<1>7. x = CASE h = lo     -> stored[lo][hi + 1]
            [] h = hi + 1 -> stored[hi + 1][lo]
            [] OTHER      -> Merge(TRUE, stored[h][hi + 1], stored[h][lo])
  <2> HIDE DEF stored, h
  <2> QED BY <1>4 DEF WarpTree!Query, Merge
<1> HIDE DEF h, x
<1>8. ASSUME NEW e \in Tree!Below(N[h], h) PROVE Held(TRUE, stored[h][e], W, h, e, d, s)
  <2>1. N[h] \in Ranges(n + 1) /\ h \in Over(N[h]) /\ n + 1 \in Nat  BY <1>1, <1>3, <1>5 DEF Noded
  <2>2. Filled(TRUE, stored[h], L, N[h], h)  BY <1>5, <2>1, WarpFill
  <2> HIDE DEF stored
  <2> QED BY <2>1, <2>2, FilledHolds
<1> HIDE DEF stored
<1>9. \A e \in {lo, hi + 1} : e # h => e \in Tree!Below(N[h], h)  BY <1>5 DEF Over, Tree!Below
<1>10. CASE h = lo
  <2> hi + 1 # h /\ h # hi + 1 /\ ~(hi + 1 < h)  BY <1>1, <1>10
  <2>1. x = stored[h][hi + 1] /\ hi + 1 # h /\ ~(hi + 1 < h)  BY <1>7, <1>10
  <2>2. Held(TRUE, stored[h][hi + 1], W, h, hi + 1, d, s)  BY <1>8, <1>9, <2>1
  <2>3. Spans(TRUE, x, W, First(lo), hi + 1, d, s)  BY <1>10, <2>1, <2>2 DEF Held
  <2> QED BY <1>2, <2>3 DEF x
<1>11. CASE h = hi + 1
  <2>1. x = stored[h][lo] /\ lo # h /\ lo < h  BY <1>1, <1>7, <1>11
  <2>2. Held(TRUE, stored[h][lo], W, h, lo, d, s)  BY <1>8, <1>9, <2>1
  <2>3. Spans(TRUE, x, W, First(lo), hi + 1, d, s)  BY <1>11, <2>1, <2>2 DEF Held
  <2> QED BY <1>2, <2>3 DEF x
<1>12. CASE h # lo /\ h # hi + 1
  <2>1. x = Merge(TRUE, stored[h][hi + 1], stored[h][lo]) /\ lo < h /\ ~(hi + 1 < h) /\ First(h) = h + 1
    BY <1>1, <1>6, <1>7, <1>12 DEF First
  <2>2. Held(TRUE, stored[h][lo], W, h, lo, d, s) /\ Held(TRUE, stored[h][hi + 1], W, h, hi + 1, d, s)
    BY <1>8, <1>9, <1>12
  <2>3. Spans(TRUE, stored[h][lo], W, First(lo), h, d, s)
        /\ Spans(TRUE, stored[h][hi + 1], W, h + 1, hi + 1, d, s)
    BY <2>1, <2>2 DEF Held
  <2>4. Legged(W, First(lo), hi + 1)
    <3>1. First(lo) \in Int /\ 0 <= First(lo) /\ hi + 1 \in Int /\ hi + 1 <= n + 1 /\ n + 1 \in Int
      BY <1>1 DEF First
    <3> QED BY <1>1, <3>1, LeggedPart
  <2>5. Spans(TRUE, x, W, First(lo), hi + 1, d, s)  BY <1>1, <2>1, <2>3, <2>4, SpansJoin
  <2> QED BY <1>2, <2>5 DEF x
<1> QED BY <1>10, <1>11, <1>12

-----------------------------------------------------------------------------
(* A stop on the way.  What is made of an arrival there, on the low values: with
   closed windows or with lateness, and at the depot without waiting and service. *)
Dawn == IF inst.windows THEN More(inst.start, inst.earliest[Depot]) ELSE inst.start

Visit(w, v) ==
  IF ~inst.windows THEN [t \in Nat |-> <<IF v = Depot THEN t ELSE t + inst.service[v], 0>>]
  ELSE IF w THEN [t \in 0 .. tEnd |->
                    <<IF v = Depot THEN Less(t, inst.latest[v])
                      ELSE More(inst.earliest[v], Less(t, inst.latest[v])) + inst.service[v],
                      More(0, t - inst.latest[v])>>]
  ELSE [t \in 0 .. inst.latest[v] |->
          <<IF v = Depot THEN t ELSE More(t, inst.earliest[v]) + inst.service[v], 0>>]

Attended(w, v, x) ==
  IF v = Depot THEN (IF w THEN HomeLate(x) ELSE Home(x)) ELSE (IF w THEN ServeLate(v, x) ELSE Serve(v, x))

Attends(w, z, v, x) == Lows(w, z) = After(Visit(w, v), Lows(FALSE, x))

Ready == inst \in Instances /\ tEnd \in Int

LEMMA ReadyIs ==
  ASSUME Ready, NEW v \in Stop
  PROVE  /\ inst.start \in Nat /\ inst.windows \in BOOLEAN /\ tEnd \in Int
         /\ inst.earliest[v] \in Nat /\ inst.latest[v] \in Nat /\ inst.service[v] \in Nat
         /\ inst.windows => inst.start <= inst.latest[v]
BY RouteEvalAssumption DEF Ready, IsInstance

LEMMA StartIs ==
  ASSUME Ready
  PROVE  inst.start \in Nat /\ tEnd \in Int
BY RouteEvalAssumption DEF Ready, IsInstance

LEMMA ArcSound ==
  ASSUME Ready, NEW a \in Stop, NEW b \in Stop
  PROVE  Sound(FALSE, Arc(a, b), inst.start, inst.start)
<1> DEFINE f == Arc(a, b)
           s == inst.start
<1>1. s \in Nat /\ IsArrival(f, s)
  <2>1. <<a, b>> \in Stop \X Stop  OBVIOUS
  <2> QED BY <2>1, RouteEvalAssumption DEF Ready, IsInstance, Arc
<1> HIDE DEF f, s
<1>2. f \in [DOMAIN f -> Int \X Int]  BY <1>1 DEF IsArrival
<1>3. Begins(DOMAIN f, s)
  <2>1. CASE Void(f)  BY <2>1 DEF Void, Begins
  <2>2. CASE ~Void(f)
    <3>1. End(f) \in Nat /\ DOMAIN f = s .. End(f)  BY <1>1, <2>2 DEF IsArrival
    <3>2. s <= End(f)  BY <1>1, <2>2, <3>1 DEF Void
    <3> QED BY <3>1, <3>2 DEF Begins
  <2> QED BY <2>1, <2>2
<1>4. \A x \in DOMAIN f : x \in Int /\ Low(f, x) \in Int /\ High(f, x) \in Int /\ x <= Low(f, x) /\ Low(f, x) <= High(f, x)
  BY <1>1, <1>2, <1>3 DEF IsArrival, Low, High, Begins
<1>5. ASSUME NEW x \in DOMAIN f, NEW y \in DOMAIN f, x <= y PROVE Low(f, x) <= Low(f, y)
  <2>1. CASE x = y  BY <1>4, <2>1
  <2>2. CASE x < y
    <3>1. High(f, x) <= Low(f, y)  BY <1>1, <2>2 DEF IsArrival
    <3> QED BY <1>4, <3>1
  <2> QED BY <1>4, <1>5, <2>1, <2>2
<1>6. Steady(f, s)  BY <1>2, <1>3, <1>4, <1>5 DEF Steady
<1>7. Onward(f, s)  BY <1>1, <1>4 DEF Onward
<1> QED BY <1>6, <1>7 DEF Sound, f, s

(* A function without steps, given by its values on an interval. *)
LEMMA LevelSteady ==
  ASSUME NEW M, NEW a \in Int, NEW e \in Int, DOMAIN M = a .. e, M = [t \in DOMAIN M |-> M[t]],
         \A t \in a .. e : Low(M, t) \in Int /\ M[t] = <<Low(M, t), Low(M, t)>>,
         \A t, u \in a .. e : t <= u => Low(M, t) <= Low(M, u)
  PROVE  Steady(M, a)
<1>1. M \in [DOMAIN M -> Int \X Int]
  <2>1. ASSUME NEW t \in DOMAIN M PROVE M[t] \in Int \X Int
    <3>1. Low(M, t) \in Int /\ M[t] = <<Low(M, t), Low(M, t)>>  OBVIOUS
    <3> QED BY <3>1
  <2> QED BY <2>1
<1>2. Begins(DOMAIN M, a)
  <2>1. CASE a <= e  BY <2>1 DEF Begins
  <2>2. CASE ~(a <= e)
    <3>1. DOMAIN M = {}  BY <2>2
    <3> QED BY <3>1 DEF Begins
  <2> QED BY <2>1, <2>2
<1>3. \A t \in DOMAIN M : Low(M, t) <= High(M, t)
  <2> SUFFICES ASSUME NEW t \in DOMAIN M PROVE Low(M, t) <= High(M, t)  OBVIOUS
  <2>1. Low(M, t) \in Int /\ High(M, t) = Low(M, t)  BY DEF High
  <2> QED BY <2>1
<1> QED BY <1>1, <1>2, <1>3 DEF Steady

LEMMA DeparturesSound ==
  ASSUME Ready
  PROVE  /\ Dawn \in Int /\ inst.start <= Dawn
         /\ Sound(FALSE, Departures, Dawn, inst.start)
         /\ \A t \in DOMAIN Departures : Low(Departures, t) = t
<1>0. Depot \in Stop  BY DEF Stop
<1>1. /\ inst.start \in Nat /\ inst.end \in Nat /\ inst.windows \in BOOLEAN
      /\ inst.earliest[Depot] \in Nat /\ inst.latest[Depot] \in Nat
  BY <1>0, RouteEvalAssumption DEF Ready, IsInstance
<1> DEFINE f == Departures
           e == IF inst.windows THEN Less(inst.end, inst.latest[Depot]) ELSE inst.end
           d == Dawn
           s == inst.start
<1>2. d \in Int /\ e \in Int /\ s \in Int /\ s <= d  BY <1>1 DEF Dawn, More, Less
<1>3. f = [t \in d .. e |-> <<t, t>>]  BY <1>1 DEF Departures, Identity, Smooth, Dawn
<1> HIDE DEF f, e, d, s
<1>4. DOMAIN f = d .. e /\ f = [t \in DOMAIN f |-> f[t]]  BY <1>3
<1>5. \A t \in d .. e : Low(f, t) = t /\ f[t] = <<t, t>>  BY <1>3 DEF Low
<1>6. Steady(f, d)
  <2>1. \A t \in d .. e : Low(f, t) \in Int /\ f[t] = <<Low(f, t), Low(f, t)>>  BY <1>5
  <2>2. \A t, u \in d .. e : t <= u => Low(f, t) <= Low(f, u)  BY <1>5
  <2> QED BY <1>2, <1>4, <2>1, <2>2, LevelSteady
<1>7. Onward(f, s)  BY <1>4, <1>5 DEF Onward
<1>8. Sound(FALSE, f, d, s)  BY <1>6, <1>7 DEF Sound
<1> QED BY <1>2, <1>4, <1>5, <1>8 DEF f, d, s

LEMMA VisitPaired ==
  ASSUME Ready, NEW w \in BOOLEAN, NEW v \in Stop
  PROVE  Paired(Visit(w, v))
<1> DEFINE F == Visit(w, v)
           e == inst.earliest[v]
           l == inst.latest[v]
           c == inst.service[v]
<1>1. inst.windows \in BOOLEAN /\ tEnd \in Int /\ e \in Int /\ l \in Int /\ c \in Int  BY ReadyIs
<1> HIDE DEF e, l, c
<1>2. CASE ~inst.windows
  <2>1. F = [t \in Nat |-> <<IF v = Depot THEN t ELSE t + c, 0>>]  BY <1>2 DEF Visit, c
  <2> HIDE DEF F
  <2>2. Paired(F)  BY <1>1, <2>1 DEF Paired
  <2> QED BY <2>2 DEF F
<1>3. CASE inst.windows /\ w
  <2>1. F = [t \in 0 .. tEnd |-> <<IF v = Depot THEN Less(t, l) ELSE More(e, Less(t, l)) + c, More(0, t - l)>>]
    BY <1>3 DEF Visit, c, l, e
  <2> HIDE DEF F
  <2>2. DOMAIN F = 0 .. tEnd /\ F = [t \in DOMAIN F |-> F[t]]  BY <2>1
  <2>3. ASSUME NEW t \in DOMAIN F PROVE F[t] = <<F[t][1], F[t][2]>> /\ F[t][1] \in Int /\ F[t][2] \in Int
    <3> DEFINE g == IF v = Depot THEN Less(t, l) ELSE More(e, Less(t, l)) + c
               o == More(0, t - l)
    <3>1. F[t] = <<g, o>>  BY <2>1, <2>2
    <3>2. t \in Int  BY <2>2
    <3>3. g \in Int /\ o \in Int  BY <1>1, <3>2 DEF More, Less
    <3> HIDE DEF g, o
    <3> QED BY <3>1, <3>3
  <2>4. Paired(F)  BY <2>2, <2>3 DEF Paired
  <2> QED BY <2>4 DEF F
<1>4. CASE inst.windows /\ ~w
  <2>1. F = [t \in 0 .. l |-> <<IF v = Depot THEN t ELSE More(t, e) + c, 0>>]
    BY <1>4 DEF Visit, c, l, e
  <2> HIDE DEF F
  <2>2. Paired(F)  BY <1>1, <2>1 DEF Paired, More, Less
  <2> QED BY <2>2 DEF F
<1> QED BY <1>1, <1>2, <1>3, <1>4

LEMMA AttendsPlain ==
  ASSUME NEW z, NEW v, NEW x, DOMAIN z = {t \in DOMAIN x : Low(x, t) \in DOMAIN Visit(FALSE, v)},
         \A t \in DOMAIN z : Visit(FALSE, v)[Low(x, t)] = <<Low(z, t), 0>>
  PROVE  Attends(FALSE, z, v, x)
<1> DEFINE F == Visit(FALSE, v)
           G == Lows(FALSE, x)
           H == Lows(FALSE, z)
           R == After(F, G)
<1>0. DOMAIN z = {t \in DOMAIN x : Low(x, t) \in DOMAIN F}  OBVIOUS
<1>1. DOMAIN G = DOMAIN x /\ \A t \in DOMAIN x : G[t] = <<Low(x, t), 0>>  BY DEF Lows
<1>2. H = [t \in DOMAIN z |-> <<Low(z, t), 0>>]  BY DEF Lows
<1> HIDE DEF F, G
<1>3. /\ DOMAIN R = {t \in DOMAIN G : G[t][1] \in DOMAIN F} /\ R = [t \in DOMAIN R |-> R[t]]
      /\ \A t \in DOMAIN R : R[t] = <<F[G[t][1]][1], G[t][2] + F[G[t][1]][2]>>
  BY DEF After
<1> HIDE DEF R
<1>4. DOMAIN R = DOMAIN z
  <2>1. DOMAIN R = {t \in DOMAIN G : G[t][1] \in DOMAIN F}  BY <1>3
  <2>2. \A t \in DOMAIN G : G[t][1] = Low(x, t)  BY <1>1
  <2> QED BY <1>0, <1>1, <2>1, <2>2
<1>5. ASSUME NEW t \in DOMAIN z PROVE R[t] = <<Low(z, t), 0>>
  <2>1. t \in DOMAIN x /\ F[Low(x, t)] = <<Low(z, t), 0>>  BY DEF F
  <2>2. R[t] = <<F[Low(x, t)][1], 0 + F[Low(x, t)][2]>>
    <3>1. G[t] = <<Low(x, t), 0>>  BY <1>1, <2>1
    <3>2. G[t][1] = Low(x, t) /\ G[t][2] = 0  BY <3>1
    <3>3. R[t] = <<F[G[t][1]][1], G[t][2] + F[G[t][1]][2]>>  BY <1>3, <1>4
    <3> QED BY <3>2, <3>3
  <2>3. R[t] = <<Low(z, t), 0 + 0>>  BY <2>1, <2>2
  <2> QED BY <2>3
<1>6. H = R  BY <1>2, <1>3, <1>4, <1>5
<1> QED BY <1>6 DEF Attends, H, R, F, G

LEMMA AttendsLate ==
  ASSUME NEW z, NEW v, NEW x, DOMAIN z.rho = {t \in DOMAIN x : Low(x, t) \in DOMAIN Visit(TRUE, v)},
         \A t \in DOMAIN z.rho : Low(z.omega, t) \in Int
                                 /\ Visit(TRUE, v)[Low(x, t)] = <<Low(z.rho, t), Low(z.omega, t)>>
  PROVE  Attends(TRUE, z, v, x)
<1> DEFINE F == Visit(TRUE, v)
           G == Lows(FALSE, x)
           H == Lows(TRUE, z)
           R == After(F, G)
<1>0. DOMAIN z.rho = {t \in DOMAIN x : Low(x, t) \in DOMAIN F}  OBVIOUS
<1>1. DOMAIN G = DOMAIN x /\ \A t \in DOMAIN x : G[t] = <<Low(x, t), 0>>  BY DEF Lows
<1>2. H = [t \in DOMAIN z.rho |-> <<Low(z.rho, t), Low(z.omega, t)>>]  BY DEF Lows
<1> HIDE DEF F, G
<1>3. /\ DOMAIN R = {t \in DOMAIN G : G[t][1] \in DOMAIN F} /\ R = [t \in DOMAIN R |-> R[t]]
      /\ \A t \in DOMAIN R : R[t] = <<F[G[t][1]][1], G[t][2] + F[G[t][1]][2]>>
  BY DEF After
<1> HIDE DEF R
<1>4. DOMAIN R = DOMAIN z.rho
  <2>1. DOMAIN R = {t \in DOMAIN G : G[t][1] \in DOMAIN F}  BY <1>3
  <2>2. \A t \in DOMAIN G : G[t][1] = Low(x, t)  BY <1>1
  <2> QED BY <1>0, <1>1, <2>1, <2>2
<1>5. ASSUME NEW t \in DOMAIN z.rho PROVE R[t] = <<Low(z.rho, t), Low(z.omega, t)>>
  <2> DEFINE r == Low(z.rho, t)
             o == Low(z.omega, t)
  <2>1. t \in DOMAIN x /\ F[Low(x, t)] = <<r, o>> /\ o \in Int  BY DEF F
  <2> HIDE DEF r, o
  <2>2. R[t] = <<F[Low(x, t)][1], 0 + F[Low(x, t)][2]>>
    <3>1. G[t] = <<Low(x, t), 0>>  BY <1>1, <2>1
    <3>2. G[t][1] = Low(x, t) /\ G[t][2] = 0  BY <3>1
    <3>3. R[t] = <<F[G[t][1]][1], G[t][2] + F[G[t][1]][2]>>  BY <1>3, <1>4
    <3> QED BY <3>2, <3>3
  <2>3. R[t] = <<r, 0 + o>>  BY <2>1, <2>2
  <2>4. 0 + o = o  BY <2>1
  <2> QED BY <2>3, <2>4 DEF r, o
<1>6. H = R  BY <1>2, <1>3, <1>4, <1>5
<1> QED BY <1>6 DEF Attends, H, R, F, G

(* Composing a function that begins no later than the horizon after one that runs from it. *)
LEMMA Follows ==
  ASSUME NEW a \in Int, NEW s \in Int, NEW b \in Int, a <= s, s <= b, NEW M, NEW x, Steady(M, a), Sound(FALSE, x, b, s)
  PROVE  Reads(Compose(M, x), M, x) /\ Steady(Compose(M, x), b)
<1>1. Steady(x, b) /\ Onward(x, s)  BY DEF Sound
<1>2. ASSUME NEW t \in DOMAIN x PROVE Low(x, t) >= a
  <2>1. Low(x, t) >= s /\ Low(x, t) \in Int  BY <1>1, OnwardLow, SteadyLow
  <2> QED BY <2>1
<1> QED BY <1>1, <1>2, ComposeSteady

LEMMA OnwardAfter ==
  ASSUME NEW M, NEW x, NEW s \in Int, NEW b \in Int, s <= b, Sound(FALSE, x, b, s), Onward(M, s), NEW h, Reads(h, M, x)
  PROVE  Onward(h, s)
<1>1. Steady(x, b) /\ Onward(x, s)  BY DEF Sound
<1>2. \A t \in DOMAIN x : Low(x, t) >= s  BY <1>1, OnwardLow
<1> QED BY <1>2, OnwardCompose

LEMMA ThroughPlain ==
  ASSUME NEW s \in Int, NEW b \in Int, 0 <= s, s <= b, NEW M, NEW x, NEW v, Steady(M, 0), Onward(M, s),
         Sound(FALSE, x, b, s),
         \A t \in DOMAIN x : Low(x, t) \in DOMAIN M <=> Low(x, t) \in DOMAIN Visit(FALSE, v),
         \A u \in DOMAIN M : Visit(FALSE, v)[u] = <<Low(M, u), 0>>
  PROVE  Sound(FALSE, Compose(M, x), b, s) /\ Attends(FALSE, Compose(M, x), v, x)
<1> DEFINE z == Compose(M, x)
           V == Visit(FALSE, v)
<1>1. Reads(z, M, x) /\ Steady(z, b)
  <2>1. 0 \in Int  OBVIOUS
  <2> HIDE DEF V
  <2> QED BY <2>1, Follows
<1>2. \A t \in DOMAIN x : Low(x, t) \in DOMAIN M <=> Low(x, t) \in DOMAIN V  OBVIOUS
<1>3. \A u \in DOMAIN M : V[u] = <<Low(M, u), 0>>  OBVIOUS
<1> HIDE DEF z, V
<1>4. Sound(FALSE, z, b, s)  BY <1>1, OnwardAfter DEF Sound
<1>5. DOMAIN z = {t \in DOMAIN x : Low(x, t) \in DOMAIN V}  BY <1>1, <1>2 DEF Reads
<1>6. \A t \in DOMAIN z : V[Low(x, t)] = <<Low(z, t), 0>>  BY <1>1, <1>3 DEF Reads
<1>7. Attends(FALSE, z, v, x)  BY <1>5, <1>6, AttendsPlain DEF V
<1> QED BY <1>4, <1>7 DEF z

LEMMA ThroughLate ==
  ASSUME NEW s \in Int, NEW b \in Int, 0 <= s, s <= b, NEW M, NEW E, NEW x, NEW v,
         Steady(M, 0), Onward(M, s), Steady(E, 0), DOMAIN E = DOMAIN M, Sound(FALSE, x, b, s),
         DOMAIN M = DOMAIN Visit(TRUE, v),
         \A u \in DOMAIN M : Low(E, u) >= 0 /\ Visit(TRUE, v)[u] = <<Low(M, u), Low(E, u)>>,
         NEW z, z = [rho |-> Compose(M, x), omega |-> Compose(E, x)]
  PROVE  Sound(TRUE, z, b, s) /\ Attends(TRUE, z, v, x)
<1> DEFINE V == Visit(TRUE, v)
           r == Compose(M, x)
           o == Compose(E, x)
<1>1. Reads(r, M, x) /\ Steady(r, b)
  <2>1. 0 \in Int  OBVIOUS
  <2> HIDE DEF V
  <2> QED BY <2>1, Follows
<1>2. Reads(o, E, x) /\ Steady(o, b)
  <2>1. 0 \in Int  OBVIOUS
  <2> HIDE DEF V
  <2> QED BY <2>1, Follows
<1>3. DOMAIN M = DOMAIN V /\ \A u \in DOMAIN M : Low(E, u) >= 0 /\ V[u] = <<Low(M, u), Low(E, u)>>  OBVIOUS
<1>4. z.rho = r /\ z.omega = o  OBVIOUS
<1> HIDE DEF r, o, V
<1>5. DOMAIN r = {t \in DOMAIN x : Low(x, t) \in DOMAIN V} /\ DOMAIN o = DOMAIN r
  BY <1>1, <1>2, <1>3 DEF Reads
<1>6. \A t \in DOMAIN r : /\ Low(o, t) >= 0 /\ Low(o, t) \in Int
                          /\ V[Low(x, t)] = <<Low(r, t), Low(o, t)>>
  <2> SUFFICES ASSUME NEW t \in DOMAIN r
               PROVE  Low(o, t) >= 0 /\ Low(o, t) \in Int /\ V[Low(x, t)] = <<Low(r, t), Low(o, t)>>
    OBVIOUS
  <2>1. Low(x, t) \in DOMAIN M /\ Low(r, t) = Low(M, Low(x, t)) /\ Low(o, t) = Low(E, Low(x, t))
    BY <1>1, <1>2, <1>5 DEF Reads
  <2>2. Low(o, t) \in Int  BY <1>2, <1>5, SteadyLow
  <2> QED BY <1>3, <2>1, <2>2
<1>7. Onward(r, s)  BY <1>1, OnwardAfter
<1>8. Sound(TRUE, z, b, s)  BY <1>1, <1>2, <1>4, <1>5, <1>6, <1>7 DEF Sound
<1>9. DOMAIN z.rho = {t \in DOMAIN x : Low(x, t) \in DOMAIN V}  BY <1>4, <1>5
<1>10. \A t \in DOMAIN z.rho : Low(z.omega, t) \in Int /\ V[Low(x, t)] = <<Low(z.rho, t), Low(z.omega, t)>>
  BY <1>4, <1>6
<1>11. Attends(TRUE, z, v, x)  BY <1>9, <1>10, AttendsLate DEF V
<1> QED BY <1>8, <1>11

LEMMA OnTimeAlwaysIs ==
  ASSUME NEW s \in Int, NEW b \in Int, NEW r, Sound(FALSE, r, b, s)
  PROVE  LET z == OnTimeAlways(r)
         IN  /\ Sound(TRUE, z, b, s) /\ z.rho = r
             /\ DOMAIN z.omega = DOMAIN r /\ \A t \in DOMAIN r : Low(z.omega, t) = 0
             /\ Lows(TRUE, z) = Lows(FALSE, r)
<1> DEFINE z == OnTimeAlways(r)
           o == z.omega
<1>1. Steady(r, b) /\ Onward(r, s)  BY DEF Sound
<1>2. z.rho = r  BY DEF OnTimeAlways
<1>3. DOMAIN o = DOMAIN r /\ o = [t \in DOMAIN o |-> o[t]] /\ \A t \in DOMAIN o : o[t] = <<0, 0>>
  <2>1. CASE Void(r)
    <3>1. o = None  BY <2>1 DEF OnTimeAlways
    <3> QED BY <2>1, <3>1 DEF None, Void
  <2>2. CASE ~Void(r)
    <3>1. PICK e \in Int : b <= e /\ DOMAIN r = b .. e  BY <1>1, <2>2 DEF Steady, Void, Begins
    <3>2. Start(r) = b /\ End(r) = e  BY <3>1, Interval DEF Start, End
    <3>3. o = ZeroOn(b, e)  BY <2>2, <3>2 DEF OnTimeAlways
    <3>4. o = [t \in b .. e |-> <<0, 0>>]  BY <3>3 DEF ZeroOn, Smooth
    <3> QED BY <3>1, <3>4
  <2> QED BY <2>1, <2>2
<1> HIDE DEF z
<1>4. \A t \in DOMAIN r : Low(o, t) = 0 /\ High(o, t) = 0  BY <1>3 DEF Low, High
<1>5. Steady(o, b)
  <2>1. o \in [DOMAIN o -> Int \X Int]  BY <1>3
  <2>2. Begins(DOMAIN o, b)  BY <1>1, <1>3 DEF Steady
  <2> QED BY <1>3, <1>4, <2>1, <2>2 DEF Steady
<1>6. Sound(TRUE, z, b, s)  BY <1>1, <1>2, <1>3, <1>4, <1>5 DEF Sound
<1>7. Lows(TRUE, z) = Lows(FALSE, r)
  <2>1. Lows(TRUE, z) = [t \in DOMAIN r |-> <<Low(r, t), Low(o, t)>>]  BY <1>2 DEF Lows
  <2>2. Lows(FALSE, r) = [t \in DOMAIN r |-> <<Low(r, t), 0>>]  BY DEF Lows
  <2> QED BY <1>4, <2>1, <2>2
<1> QED BY <1>2, <1>3, <1>4, <1>6, <1>7 DEF z

LEMMA VisitedPlain ==
  ASSUME Ready, NEW v \in Stop, NEW b \in Int, inst.start <= b, NEW x, Sound(FALSE, x, b, inst.start)
  PROVE  Sound(FALSE, Attended(FALSE, v, x), b, inst.start) /\ Attends(FALSE, Attended(FALSE, v, x), v, x)
<1> DEFINE s == inst.start
           e == inst.earliest[v]
           l == inst.latest[v]
           c == inst.service[v]
           z == Attended(FALSE, v, x)
           V == Visit(FALSE, v)
<1>1. /\ inst.windows \in BOOLEAN /\ s \in Int /\ 0 <= s /\ s <= b
      /\ e \in Int /\ 0 <= e /\ l \in Int /\ 0 <= l /\ c \in Int /\ 0 <= c
  BY ReadyIs
<1>2. Steady(x, b) /\ Onward(x, s)  BY DEF Sound
<1>3. \A t \in DOMAIN x : Low(x, t) \in Int /\ Low(x, t) >= s  BY <1>1, <1>2, OnwardLow, SteadyLow
<1>4. Void(x) => \A M : Compose(M, x) = None  BY DEF Compose
<1>5. CASE inst.windows
  <2> DEFINE M == IF v = Depot THEN Identity(0, l) ELSE MakeTheta(e, l, c)
             g(t) == IF v = Depot THEN t ELSE More(t, e) + c
  <2>1. z = Compose(M, x)
    BY <1>4, <1>5 DEF Attended, Home, Serve, Theta, Stop
  <2>2. M = [t \in 0 .. l |-> <<g(t), g(t)>>]  BY DEF Identity, MakeTheta, Smooth
  <2>3. V = [t \in 0 .. l |-> <<g(t), 0>>]  BY <1>5 DEF Visit
  <2>4. \A t \in 0 .. l : g(t) \in Int /\ t <= g(t)
    <3> SUFFICES ASSUME NEW t \in 0 .. l PROVE g(t) \in Int /\ t <= g(t)  OBVIOUS
    <3>1. t \in Int  OBVIOUS
    <3> HIDE DEF e, l, c
    <3> QED BY <1>1, <3>1 DEF More
  <2>5. \A t, u \in 0 .. l : t <= u => g(t) <= g(u)
    <3> SUFFICES ASSUME NEW t \in 0 .. l, NEW u \in 0 .. l, t <= u PROVE g(t) <= g(u)  OBVIOUS
    <3>1. t \in Int /\ u \in Int  OBVIOUS
    <3> HIDE DEF e, l, c
    <3> QED BY <1>1, <3>1 DEF More
  <2> HIDE DEF M, V, g, z, e, l, c
  <2>6. /\ DOMAIN M = 0 .. l /\ M = [t \in DOMAIN M |-> M[t]] /\ DOMAIN V = 0 .. l
        /\ \A t \in 0 .. l : M[t] = <<g(t), g(t)>> /\ Low(M, t) = g(t) /\ V[t] = <<Low(M, t), 0>>
    BY <2>2, <2>3 DEF Low
  <2>7. Steady(M, 0)
    <3>1. \A t \in 0 .. l : Low(M, t) \in Int /\ M[t] = <<Low(M, t), Low(M, t)>>  BY <2>4, <2>6
    <3>2. \A t, u \in 0 .. l : t <= u => Low(M, t) <= Low(M, u)  BY <2>5, <2>6
    <3>3. 0 \in Int  OBVIOUS
    <3> QED BY <1>1, <2>6, <3>1, <3>2, <3>3, LevelSteady
  <2>8. Onward(M, s)
    <3> SUFFICES ASSUME NEW t \in 0 .. l, t >= s PROVE Low(M, t) >= s  BY <2>6 DEF Onward
    <3>1. Low(M, t) = g(t) /\ g(t) \in Int /\ t <= g(t)  BY <2>4, <2>6
    <3> QED BY <1>1, <3>1
  <2>9. Sound(FALSE, Compose(M, x), b, s) /\ Attends(FALSE, Compose(M, x), v, x)
    <3>1. \A t \in DOMAIN x : Low(x, t) \in DOMAIN M <=> Low(x, t) \in DOMAIN Visit(FALSE, v)  BY <2>6 DEF V
    <3>2. \A u \in DOMAIN M : Visit(FALSE, v)[u] = <<Low(M, u), 0>>  BY <2>6 DEF V
    <3>3. Sound(FALSE, x, b, s)  OBVIOUS
    <3> HIDE DEF s
    <3> QED BY <1>1, <2>7, <2>8, <3>1, <3>2, <3>3, ThroughPlain
  <2> QED BY <2>1, <2>9 DEF z
<1>6. CASE ~inst.windows /\ v = Depot
  <2>1. z = x  BY <1>6 DEF Attended, Home
  <2>2. V = [t \in Nat |-> <<t, 0>>]  BY <1>6 DEF Visit
  <2>3. \A t \in DOMAIN x : Low(x, t) \in Nat  BY <1>1, <1>3
  <2> HIDE DEF V, z
  <2>4. DOMAIN x = {t \in DOMAIN x : Low(x, t) \in DOMAIN V}  BY <2>2, <2>3
  <2>5. \A t \in DOMAIN x : V[Low(x, t)] = <<Low(x, t), 0>>  BY <2>2, <2>3
  <2>6. Attends(FALSE, x, v, x)  BY <2>4, <2>5, AttendsPlain DEF V
  <2> QED BY <2>1, <2>6 DEF z
<1>7. CASE ~inst.windows /\ v # Depot
  <2> DEFINE T == Top(x)
             M == Theta(v, T)
  <2>1. z = Compose(M, x)  BY <1>4, <1>7 DEF Attended, Serve
  <2>2. V = [t \in Nat |-> <<t + c, 0>>]  BY <1>7 DEF Visit
  <2>3. CASE Void(x)
    <3>1. z = None  BY <1>4, <2>1, <2>3
    <3>2. DOMAIN None = {} /\ None \in [{} -> Int \X Int]  BY DEF None
    <3>3. Sound(FALSE, None, b, s)  BY <3>2 DEF Sound, Steady, Onward, Begins
    <3>4. Attends(FALSE, None, v, x)
      <4>1. DOMAIN None = {t \in DOMAIN x : Low(x, t) \in DOMAIN Visit(FALSE, v)}  BY <2>3, <3>2 DEF Void
      <4> QED BY <3>2, <4>1, AttendsPlain
    <3> QED BY <3>1, <3>3, <3>4
  <2>4. CASE ~Void(x)
    <3>1. T \in Int /\ \A t \in DOMAIN x : Low(x, t) <= T
      <4>1. PICK h \in Int : b <= h /\ DOMAIN x = b .. h  BY <1>2, <2>4 DEF Steady, Void, Begins
      <4>2. End(x) = h /\ h \in DOMAIN x  BY <4>1, Interval DEF End
      <4>3. T = High(x, h)  BY <4>2 DEF Top
      <4>4. T \in Int /\ Low(x, h) <= T /\ Low(x, h) \in Int  BY <1>2, <4>2, <4>3, SteadyLow DEF Steady
      <4> HIDE DEF T
      <4>5. ASSUME NEW t \in DOMAIN x PROVE Low(x, t) <= T
        <5>1. t <= h  BY <4>1
        <5>2. Low(x, t) <= Low(x, h) /\ Low(x, t) \in Int  BY <1>2, <4>2, <5>1, SteadyLow DEF Steady
        <5> QED BY <4>4, <5>2
      <4> QED BY <4>4, <4>5
    <3>2. M = [t \in 0 .. T |-> <<t + c, t + c>>]  BY <1>7 DEF Theta, Smooth
    <3> HIDE DEF M, T, V, z, c
    <3>3. /\ DOMAIN M = 0 .. T /\ M = [t \in DOMAIN M |-> M[t]] /\ DOMAIN V = Nat
          /\ \A t \in 0 .. T : M[t] = <<t + c, t + c>> /\ Low(M, t) = t + c
      BY <2>2, <3>2 DEF Low
    <3>4. Steady(M, 0)
      <4>1. \A t \in 0 .. T : Low(M, t) \in Int /\ M[t] = <<Low(M, t), Low(M, t)>>  BY <1>1, <3>3
      <4>2. \A t, u \in 0 .. T : t <= u => Low(M, t) <= Low(M, u)  BY <1>1, <3>3
      <4>3. 0 \in Int  OBVIOUS
      <4> QED BY <3>1, <3>3, <4>1, <4>2, <4>3, LevelSteady
    <3>5. Onward(M, s)
      <4> SUFFICES ASSUME NEW t \in 0 .. T, t >= s PROVE Low(M, t) >= s  BY <3>3 DEF Onward
      <4>1. Low(M, t) = t + c  BY <3>3
      <4> HIDE DEF s
      <4> QED BY <1>1, <3>1, <4>1
    <3>6. Sound(FALSE, Compose(M, x), b, s) /\ Attends(FALSE, Compose(M, x), v, x)
      <4>1. \A t \in DOMAIN x : Low(x, t) \in DOMAIN M <=> Low(x, t) \in DOMAIN Visit(FALSE, v)
        <5>1. ASSUME NEW t \in DOMAIN x PROVE Low(x, t) \in 0 .. T /\ Low(x, t) \in Nat
          <6>1. Low(x, t) \in Int /\ Low(x, t) >= s /\ Low(x, t) <= T  BY <1>3, <3>1
          <6> HIDE DEF s
          <6> QED BY <1>1, <3>1, <6>1
        <5>2. DOMAIN M = 0 .. T /\ DOMAIN Visit(FALSE, v) = Nat  BY <3>3 DEF V
        <5> QED BY <5>1, <5>2
      <4>2. \A u \in DOMAIN M : Visit(FALSE, v)[u] = <<Low(M, u), 0>>
        <5> SUFFICES ASSUME NEW u \in 0 .. T PROVE V[u] = <<u + c, 0>>  BY <3>3 DEF V
        <5>1. u \in Nat  BY <3>1
        <5> QED BY <2>2, <5>1
      <4>3. Sound(FALSE, x, b, s)  OBVIOUS
      <4> HIDE DEF s
      <4> QED BY <1>1, <3>4, <3>5, <4>1, <4>2, <4>3, ThroughPlain
    <3> QED BY <2>1, <3>6 DEF z, M
  <2> QED BY <2>3, <2>4
<1> QED BY <1>1, <1>5, <1>6, <1>7

LEMMA VisitedLate ==
  ASSUME Ready, NEW v \in Stop, NEW b \in Int, inst.start <= b, NEW x, Sound(FALSE, x, b, inst.start)
  PROVE  Sound(TRUE, Attended(TRUE, v, x), b, inst.start) /\ Attends(TRUE, Attended(TRUE, v, x), v, x)
<1> DEFINE s == inst.start
           e == inst.earliest[v]
           l == inst.latest[v]
           c == inst.service[v]
           z == Attended(TRUE, v, x)
           V == Visit(TRUE, v)
<1>1. /\ inst.windows \in BOOLEAN /\ s \in Int /\ 0 <= s /\ s <= b /\ tEnd \in Int
      /\ e \in Int /\ 0 <= e /\ l \in Int /\ 0 <= l /\ c \in Int /\ 0 <= c
      /\ inst.windows => s <= l
  BY ReadyIs
<1>4. Void(x) => \A M : Compose(M, x) = None  BY DEF Compose
<1>5. CASE inst.windows
  <2> DEFINE M == IF v = Depot THEN Clamp(l, tEnd) ELSE ThetaWarp(e, l, c, tEnd)
             E == Excess(l, tEnd)
             g(t) == IF v = Depot THEN Less(t, l) ELSE More(e, Less(t, l)) + c
             o(t) == More(0, t - l)
  <2>1. z = [rho |-> Compose(M, x), omega |-> Compose(E, x)]
    <3>1. CASE v = Depot  BY <1>5, <3>1 DEF Attended, HomeLate
    <3>2. CASE v # Depot /\ Void(x)
      <4>1. z = NoSegment /\ Compose(M, x) = None /\ Compose(E, x) = None
        BY <1>4, <3>2 DEF Attended, ServeLate
      <4> QED BY <4>1 DEF NoSegment
    <3>3. CASE v # Depot /\ ~Void(x)  BY <1>5, <3>3 DEF Attended, ServeLate
    <3> QED BY <3>1, <3>2, <3>3
  <2>2. M = [t \in 0 .. tEnd |-> <<g(t), g(t)>>]  BY DEF Clamp, ThetaWarp, Smooth
  <2>3. E = [t \in 0 .. tEnd |-> <<o(t), o(t)>>]  BY DEF Excess, Smooth
  <2>4. V = [t \in 0 .. tEnd |-> <<g(t), o(t)>>]  BY <1>5 DEF Visit
  <2>5. \A t \in 0 .. tEnd : g(t) \in Int /\ o(t) \in Int /\ o(t) >= 0 /\ (t >= s => g(t) >= s)
    <3> SUFFICES ASSUME NEW t \in 0 .. tEnd PROVE g(t) \in Int /\ o(t) \in Int /\ o(t) >= 0 /\ (t >= s => g(t) >= s)
      OBVIOUS
    <3>1. t \in Int  BY <1>1
    <3>2. s <= l  BY <1>1, <1>5
    <3> HIDE DEF e, l, c, s
    <3> QED BY <1>1, <3>1, <3>2 DEF More, Less
  <2>6. \A t, u \in 0 .. tEnd : t <= u => g(t) <= g(u) /\ o(t) <= o(u)
    <3> SUFFICES ASSUME NEW t \in 0 .. tEnd, NEW u \in 0 .. tEnd, t <= u PROVE g(t) <= g(u) /\ o(t) <= o(u)
      OBVIOUS
    <3>1. t \in Int /\ u \in Int  BY <1>1
    <3> HIDE DEF e, l, c
    <3> QED BY <1>1, <3>1 DEF More, Less
  <2> HIDE DEF M, E, V, g, o, z, e, l, c
  <2>7. /\ DOMAIN M = 0 .. tEnd /\ M = [t \in DOMAIN M |-> M[t]] /\ DOMAIN V = 0 .. tEnd
        /\ DOMAIN E = 0 .. tEnd /\ E = [t \in DOMAIN E |-> E[t]]
        /\ \A t \in 0 .. tEnd : /\ M[t] = <<g(t), g(t)>> /\ Low(M, t) = g(t)
                                /\ E[t] = <<o(t), o(t)>> /\ Low(E, t) = o(t) /\ V[t] = <<g(t), o(t)>>
    BY <2>2, <2>3, <2>4 DEF Low
  <2>8. 0 \in Int  OBVIOUS
  <2>9. Steady(M, 0)
    <3>1. \A t \in 0 .. tEnd : Low(M, t) \in Int /\ M[t] = <<Low(M, t), Low(M, t)>>  BY <2>5, <2>7
    <3>2. \A t, u \in 0 .. tEnd : t <= u => Low(M, t) <= Low(M, u)  BY <2>6, <2>7
    <3> QED BY <1>1, <2>7, <2>8, <3>1, <3>2, LevelSteady
  <2>10. Steady(E, 0)
    <3>1. \A t \in 0 .. tEnd : Low(E, t) \in Int /\ E[t] = <<Low(E, t), Low(E, t)>>  BY <2>5, <2>7
    <3>2. \A t, u \in 0 .. tEnd : t <= u => Low(E, t) <= Low(E, u)  BY <2>6, <2>7
    <3> QED BY <1>1, <2>7, <2>8, <3>1, <3>2, LevelSteady
  <2>11. Onward(M, s)
    <3> SUFFICES ASSUME NEW t \in 0 .. tEnd, t >= s PROVE Low(M, t) >= s  BY <2>7 DEF Onward
    <3> QED BY <2>5, <2>7
  <2>12. Sound(TRUE, z, b, s) /\ Attends(TRUE, z, v, x)
    <3>1. DOMAIN M = DOMAIN Visit(TRUE, v) /\ DOMAIN E = DOMAIN M  BY <2>7 DEF V
    <3>2. \A u \in DOMAIN M : Low(E, u) >= 0 /\ Visit(TRUE, v)[u] = <<Low(M, u), Low(E, u)>>
      BY <2>5, <2>7 DEF V
    <3>3. Sound(FALSE, x, b, s)  OBVIOUS
    <3> HIDE DEF s
    <3> QED BY <1>1, <2>1, <2>9, <2>10, <2>11, <3>1, <3>2, <3>3, ThroughLate
  <2> QED BY <2>12 DEF z
<1>6. CASE ~inst.windows
  <2> DEFINE r == Attended(FALSE, v, x)
  <2>1. Sound(FALSE, r, b, s) /\ Attends(FALSE, r, v, x)  BY VisitedPlain
  <2>2. z = OnTimeAlways(r)
    <3>1. CASE v = Depot  BY <1>6, <3>1 DEF Attended, HomeLate, Home
    <3>2. CASE v # Depot /\ Void(x)
      <4>1. z = NoSegment /\ r = None  BY <3>2 DEF Attended, ServeLate, Serve
      <4>2. Void(None)  BY DEF None, Void
      <4> QED BY <4>1, <4>2 DEF NoSegment, OnTimeAlways
    <3>3. CASE v # Depot /\ ~Void(x)  BY <1>6, <3>3 DEF Attended, ServeLate
    <3> QED BY <3>1, <3>2, <3>3
  <2> HIDE DEF r, z
  <2>3. Sound(TRUE, z, b, s) /\ Lows(TRUE, z) = Lows(FALSE, r)  BY <1>1, <2>1, <2>2, OnTimeAlwaysIs
  <2>4. Visit(TRUE, v) = Visit(FALSE, v)  BY <1>6 DEF Visit
  <2> QED BY <2>1, <2>3, <2>4 DEF Attends, z
<1> QED BY <1>1, <1>5, <1>6

LEMMA Visited ==
  ASSUME Ready, NEW w \in BOOLEAN, NEW v \in Stop, NEW b \in Int, inst.start <= b, NEW x,
         Sound(FALSE, x, b, inst.start)
  PROVE  Sound(w, Attended(w, v, x), b, inst.start) /\ Attends(w, Attended(w, v, x), v, x)
<1>1. CASE w = TRUE  BY <1>1, VisitedLate
<1>2. CASE w = FALSE  BY <1>2, VisitedPlain
<1> QED BY <1>1, <1>2

(* The way of a route: the departures, then one leg to each stop and one home. *)
Leaf(w, a, b) == Attended(w, b, Arc(a, b))
Leg(w, a, b)  == After(Visit(w, b), Lows(FALSE, Arc(a, b)))
Place(q, k)   == IF k \in 1 .. Len(q) THEN q[k] ELSE Depot
Way(w, q) ==
  [k \in 0 .. Len(q) + 1 |-> IF k = 0 THEN Lows(FALSE, Departures) ELSE Leg(w, Place(q, k - 1), Place(q, k))]

LEMMA PlaceIs ==
  ASSUME NEW q \in Seq(Client), NEW k
  PROVE  /\ Place(q, k) \in Stop /\ (k \in 1 .. Len(q) => Place(q, k) = q[k] /\ q[k] \in Client)
         /\ (k \notin 1 .. Len(q) => Place(q, k) = Depot)
<1>1. k \in 1 .. Len(q) => q[k] \in Client  BY ElementOfSeq
<1> QED BY <1>1 DEF Place, Stop

LEMMA LegIs ==
  ASSUME Ready, NEW w \in BOOLEAN, NEW a \in Stop, NEW b \in Stop
  PROVE  Sound(w, Leaf(w, a, b), inst.start, inst.start) /\ Lows(w, Leaf(w, a, b)) = Leg(w, a, b)
         /\ Paired(Leg(w, a, b))
<1> DEFINE s == inst.start
           x == Arc(a, b)
<1>1. s \in Int  BY ReadyIs
<1>2. Sound(FALSE, x, s, s)  BY ArcSound
<1>3. s <= s  BY <1>1
<1> HIDE DEF x
<1>4. Sound(w, Attended(w, b, x), s, s) /\ Attends(w, Attended(w, b, x), b, x)
  BY <1>1, <1>2, <1>3, Visited
<1>5. Paired(Visit(w, b)) /\ Paired(Lows(FALSE, x))
  <2>1. FALSE \in BOOLEAN  OBVIOUS
  <2> QED BY <1>2, <2>1, VisitPaired, LowsPaired
<1>6. Paired(After(Visit(w, b), Lows(FALSE, x)))  BY <1>5, AfterPaired
<1> QED BY <1>4, <1>6 DEF Attends, Leaf, Leg, x

LEMMA WayIs ==
  ASSUME Ready, NEW w \in BOOLEAN, NEW q \in Seq(Client)
  PROVE  /\ Legged(Way(w, q), 0, Len(q) + 1) /\ Way(w, q)[0] = Lows(FALSE, Departures)
         /\ \A k \in 1 .. Len(q) + 1 : Way(w, q)[k] = Leg(w, Place(q, k - 1), Place(q, k))
<1>1. Len(q) \in Nat  BY LenProperties
<1>2. Way(w, q)[0] = Lows(FALSE, Departures)
      /\ \A k \in 1 .. Len(q) + 1 : Way(w, q)[k] = Leg(w, Place(q, k - 1), Place(q, k))
  <2>1. 0 \in 0 .. Len(q) + 1 /\ \A k \in 1 .. Len(q) + 1 : k \in 0 .. Len(q) + 1 /\ k # 0  BY <1>1
  <2> QED BY <2>1 DEF Way
<1>3. Paired(Lows(FALSE, Departures))
  <2>1. FALSE \in BOOLEAN  OBVIOUS
  <2> QED BY <2>1, DeparturesSound, LowsPaired
<1>4. ASSUME NEW k \in 1 .. Len(q) + 1 PROVE Paired(Way(w, q)[k])
  BY <1>2, PlaceIs, LegIs
<1>5. \A k \in 0 .. Len(q) + 1 : k = 0 \/ k \in 1 .. Len(q) + 1  BY <1>1
<1> QED BY <1>2, <1>3, <1>4, <1>5 DEF Legged

LEMMA LeafNames ==
  ASSUME Ready, NEW a \in Stop
  PROVE  /\ \A v \in Client : BridgeLeaf(a, v) = Leaf(FALSE, a, v) /\ WarpBridgeLeaf(a, v) = Leaf(TRUE, a, v)
         /\ ReturnLeaf(a) = Leaf(FALSE, a, Depot) /\ WarpReturnLeaf(a) = Leaf(TRUE, a, Depot)
<1>1. \A v \in Client : v # Depot  BY RouteEvalAssumption
<1>2. \A v \in Client : BridgeLeaf(a, v) = Leaf(FALSE, a, v) /\ WarpBridgeLeaf(a, v) = Leaf(TRUE, a, v)
  BY <1>1 DEF BridgeLeaf, WarpBridgeLeaf, Leaf, Attended
<1>3. ReturnLeaf(a) = Leaf(FALSE, a, Depot)  BY DEF ReturnLeaf, Leaf, Attended
<1>4. WarpReturnLeaf(a) = Leaf(TRUE, a, Depot)
  <2> DEFINE f == Arc(a, Depot)
  <2>1. WarpReturnLeaf(a) = (IF Void(f) THEN NoSegment ELSE HomeLate(f)) /\ Leaf(TRUE, a, Depot) = HomeLate(f)
    BY DEF WarpReturnLeaf, Leaf, Attended
  <2>2. f = [t \in DOMAIN f |-> f[t]]
    <3>1. Depot \in Stop  BY DEF Stop
    <3>2. Steady(f, inst.start)  BY <3>1, ArcSound DEF Sound
    <3> QED BY <3>2 DEF Steady
  <2> HIDE DEF f
  <2>3. Void(f) => HomeLate(f) = NoSegment
    <3> SUFFICES ASSUME Void(f) PROVE HomeLate(f) = NoSegment  OBVIOUS
    <3>1. f = None  BY <2>2 DEF Void, None
    <3>2. \A M : Compose(M, f) = None  BY DEF Compose
    <3> QED BY <3>1, <3>2 DEF HomeLate, NoSegment, OnTimeAlways
  <2> QED BY <2>1, <2>3
<1> QED BY <1>2, <1>3, <1>4

LeavesOf(w, q) == IF w THEN WarpRouteLeaves(q) ELSE RouteLeaves(q)

LEMMA LeavesAre ==
  ASSUME Ready, NEW w \in BOOLEAN, NEW q \in Seq(Client), q # <<>>
  PROVE  /\ Len(q) \in Nat /\ Len(q) >= 1 /\ Leaved(LeavesOf(w, q), Len(q))
         /\ LeavesOf(w, q)[0] = Attended(w, Place(q, 1), Compose(Arc(Depot, Place(q, 1)), Departures))
         /\ \A i \in 1 .. Len(q) : LeavesOf(w, q)[i] = Leaf(w, Place(q, i), Place(q, i + 1))
<1> DEFINE n == Len(q)
           L == LeavesOf(w, q)
<1>1. n \in Nat /\ n >= 1  BY LenProperties, EmptySeq
<1>2. L = [i \in 0 .. n |-> L[i]]
  <2>1. WarpRouteLeaves(q) = [i \in 0 .. n |-> WarpRouteLeaves(q)[i]]  BY DEF WarpRouteLeaves
  <2>2. RouteLeaves(q) = [i \in 0 .. n |-> RouteLeaves(q)[i]]  BY DEF RouteLeaves
  <2> QED BY <2>1, <2>2 DEF LeavesOf
<1>3. L[0] = Attended(w, Place(q, 1), Compose(Arc(Depot, Place(q, 1)), Departures))
  <2>1. 0 \in 0 .. n /\ 1 \in 1 .. n  BY <1>1
  <2>2. Place(q, 1) = q[1] /\ q[1] \in Client  BY <2>1, PlaceIs
  <2>3. q[1] # Depot  BY <2>2, RouteEvalAssumption
  <2>4. CASE w = TRUE  BY <2>1, <2>2, <2>3, <2>4 DEF LeavesOf, WarpRouteLeaves, Attended
  <2>5. CASE w = FALSE  BY <2>1, <2>2, <2>3, <2>5 DEF LeavesOf, RouteLeaves, Attended
  <2> QED BY <2>4, <2>5
<1>4. ASSUME NEW i \in 1 .. n PROVE L[i] = Leaf(w, Place(q, i), Place(q, i + 1))
  <2>1. i \in 0 .. n /\ i # 0 /\ Place(q, i) = q[i] /\ q[i] \in Stop  BY <1>1, PlaceIs DEF Stop
  <2>2. CASE i = n
    <3>1. i + 1 \notin 1 .. n  BY <1>1, <2>2
    <3>2. Place(q, i + 1) = Depot  BY <3>1, PlaceIs
    <3>3. L[i] = IF w THEN WarpReturnLeaf(q[i]) ELSE ReturnLeaf(q[i])
      BY <2>1, <2>2 DEF LeavesOf, RouteLeaves, WarpRouteLeaves
    <3> QED BY <2>1, <3>2, <3>3, LeafNames
  <2>3. CASE i # n
    <3>1. i + 1 \in 1 .. n  BY <1>1, <2>3
    <3>2. Place(q, i + 1) = q[i + 1] /\ q[i + 1] \in Client  BY <3>1, PlaceIs
    <3>3. L[i] = IF w THEN WarpBridgeLeaf(q[i], q[i + 1]) ELSE BridgeLeaf(q[i], q[i + 1])
      BY <2>1, <2>3 DEF LeavesOf, RouteLeaves, WarpRouteLeaves
    <3> QED BY <2>1, <3>2, <3>3, LeafNames
  <2> QED BY <2>2, <2>3
<1> QED BY <1>1, <1>2, <1>3, <1>4 DEF Leaved

(* One more stop on what is known so far: the run grows by a leg. *)
Steps(w, z, a, v, x) == Lows(w, z) = After(Leg(w, a, v), Lows(FALSE, x))

LEMMA Onwards ==
  ASSUME Ready, NEW w \in BOOLEAN, NEW a \in Stop, NEW v \in Stop, NEW b \in Int, inst.start <= b, NEW x,
         Sound(FALSE, x, b, inst.start)
  PROVE  /\ Sound(FALSE, Compose(Arc(a, v), x), b, inst.start)
         /\ Sound(w, Attended(w, v, Compose(Arc(a, v), x)), b, inst.start)
         /\ Steps(w, Attended(w, v, Compose(Arc(a, v), x)), a, v, x)
<1> DEFINE s == inst.start
           f == Arc(a, v)
           y == Compose(f, x)
           z == Attended(w, v, y)
           V == Visit(w, v)
           A == Lows(FALSE, f)
           G == Lows(FALSE, x)
<1>1. s \in Int  BY ReadyIs
<1>2. Sound(FALSE, f, s, s)  BY ArcSound
<1> HIDE DEF f
<1>3. Sound(FALSE, y, b, s) /\ Joins(FALSE, y, f, x)  BY <1>1, <1>2, PlainMerge
<1> HIDE DEF y
<1>4. Sound(w, z, b, s) /\ Attends(w, z, v, y)  BY <1>3, Visited
<1> HIDE DEF z
<1>5. Paired(V) /\ Paired(A) /\ Paired(G)
  <2>1. FALSE \in BOOLEAN  OBVIOUS
  <2>2. Sound(FALSE, x, b, s)  OBVIOUS
  <2> QED BY <1>2, <2>1, <2>2, VisitPaired, LowsPaired
<1>6. Lows(w, z) = After(V, After(A, G))  BY <1>3, <1>4 DEF Joins, Attends
<1>7. After(V, After(A, G)) = After(After(V, A), G)
  <2> HIDE DEF V, A, G
  <2> QED BY <1>5, AfterGroups
<1>8. Leg(w, a, v) = After(V, A)  BY DEF Leg, f
<1> HIDE DEF V, A, G
<1>9. Lows(w, z) = After(Leg(w, a, v), G)  BY <1>6, <1>7, <1>8
<1> QED BY <1>3, <1>4, <1>9 DEF Steps, y, z, f, G

LEMMA LeavesFit ==
  ASSUME Ready, NEW w \in BOOLEAN, NEW q \in Seq(Client), q # <<>>
  PROVE  Fits(w, LeavesOf(w, q), Len(q), Way(w, q), Dawn, inst.start)
<1> DEFINE n == Len(q)
           L == LeavesOf(w, q)
           W == Way(w, q)
           d == Dawn
           s == inst.start
<1>1. n \in Nat /\ n >= 1 /\ Leaved(L, n)
      /\ L[0] = Attended(w, Place(q, 1), Compose(Arc(Depot, Place(q, 1)), Departures))
      /\ \A i \in 1 .. n : L[i] = Leaf(w, Place(q, i), Place(q, i + 1))
  BY LeavesAre
<1>2. d \in Int /\ s \in Int /\ s <= d /\ Sound(FALSE, Departures, d, s)
  <2>1. s \in Nat  BY StartIs
  <2>2. d \in Int /\ s <= d /\ Sound(FALSE, Departures, d, s)  BY DeparturesSound
  <2> HIDE DEF s, d
  <2>3. s \in Int  BY <2>1
  <2>4. s <= d  BY <2>2
  <2>5. Sound(FALSE, Departures, d, s)  BY <2>2
  <2>6. d \in Int  BY <2>2
  <2> QED BY <2>3, <2>4, <2>5, <2>6
<1>3. Legged(W, 0, n + 1) /\ W[0] = Lows(FALSE, Departures)
      /\ \A k \in 1 .. n + 1 : W[k] = Leg(w, Place(q, k - 1), Place(q, k))
  BY WayIs
<1>4. \A k : Place(q, k) \in Stop  BY PlaceIs
<1>5. Spans(w, L[0], W, 0, 1, d, s)
  <2>1. Place(q, 0) = Depot /\ Depot \in Stop
    <3>1. 0 \notin 1 .. n  BY <1>1
    <3> QED BY <3>1, PlaceIs DEF Stop
  <2>2. 1 \in 1 .. n + 1  BY <1>1
  <2>3. W[1] = Leg(w, Depot, Place(q, 1))
    <3>1. W[1] = Leg(w, Place(q, 1 - 1), Place(q, 1))  BY <1>3, <2>2
    <3> QED BY <2>1, <3>1
  <2> DEFINE z == L[0]
  <2>4. Sound(w, z, d, s) /\ Lows(w, z) = After(W[1], W[0])
    <3> DEFINE v == Place(q, 1)
    <3>1. v \in Stop  BY <1>4
    <3> HIDE DEF v, d
    <3>2. Sound(w, Attended(w, v, Compose(Arc(Depot, v), Departures)), d, s)
          /\ Steps(w, Attended(w, v, Compose(Arc(Depot, v), Departures)), Depot, v, Departures)
      BY <1>2, <2>1, <3>1, Onwards
    <3> QED BY <1>1, <1>3, <2>3, <3>2 DEF v, Steps
  <2>5. Runs(W[0], W, 0, 0)
    <3>1. 0 \in Int  OBVIOUS
    <3> HIDE DEF W
    <3> QED BY <3>1, RunsOne
  <2>6. Runs(After(W[0 + 1], W[0]), W, 0, 0 + 1)
    <3>1. 0 \in Int /\ 0 <= 0  OBVIOUS
    <3> HIDE DEF W
    <3> QED BY <2>5, <3>1, RunsStep
  <2> HIDE DEF W, z, d, s
  <2>7. Runs(Lows(w, z), W, 0, 1)  BY <2>4, <2>6
  <2> QED BY <2>4, <2>7 DEF Spans, z
<1>6. ASSUME NEW i \in 1 .. n PROVE Spans(w, L[i], W, i + 1, i + 1, d, s)
  <2>1. i + 1 \in 1 .. n + 1 /\ (i + 1) - 1 = i /\ i + 1 \in Nat /\ i + 1 # 0 /\ i + 1 <= i + 1 /\ i + 1 \in Int  BY <1>1
  <2>2. W[i + 1] = Leg(w, Place(q, i), Place(q, i + 1))  BY <1>3, <2>1
  <2> DEFINE z == L[i]
             j == i + 1
  <2>3. Sound(w, z, s, s) /\ Lows(w, z) = W[j]  BY <1>1, <1>4, <2>2, LegIs
  <2> HIDE DEF W, z, d, s, j
  <2>4. Runs(Lows(w, z), W, j, j)  BY <2>1, <2>3, RunsOne DEF j
  <2> QED BY <2>1, <2>3, <2>4 DEF Spans, z, j
<1>7. ASSUME NEW i \in 0 .. n PROVE Spans(w, L[i], W, First(i), i + 1, d, s)
  <2>1. CASE i = 0
    <3>1. First(i) = 0 /\ i + 1 = 1  BY <2>1 DEF First
    <3> QED BY <1>5, <2>1, <3>1
  <2>2. CASE i # 0
    <3>1. First(i) = i + 1 /\ i \in 1 .. n  BY <1>1, <2>2 DEF First
    <3> QED BY <1>6, <3>1
  <2> QED BY <2>1, <2>2
<1> HIDE DEF L, W, n, d, s
<1>8. Fits(w, L, n, W, d, s)  BY <1>1, <1>2, <1>3, <1>7 DEF Fits
<1> QED BY <1>8 DEF L, W, n, d, s

-----------------------------------------------------------------------------
(* The folds: over the pieces of a changed route, over a route from the depot on, and
   over the leaves before a place. *)
StepOf(kind, x, i, acc) ==
  CASE kind = "along"      -> Compose(Piece(x[i]), acc)
    [] kind = "warp along" -> WarpConcat(WarpPiece(x[i]), acc)
    [] kind = "ready"      -> Serve(x[i], Compose(Arc(PlaceAt(x, i - 1), x[i]), acc))
    [] kind = "booked"     -> Book(acc, ServeLate(x[i], Compose(Arc(PlaceAt(x, i - 1), x[i]), acc.rho)))
    [] kind = "prefix"     -> Compose(x[i - 1], acc)

Folded(kind, x, m, n, b, h) ==
  h = [i \in m .. n |-> h[i]] /\ h[m] = b /\ \A i \in m + 1 .. n : h[i] = StepOf(kind, x, i, h[i - 1])

LEMMA FoldExists ==
  ASSUME NEW kind, NEW x, NEW m \in Int, NEW n \in Int, m <= n, NEW b
  PROVE  \E h : Folded(kind, x, m, n, b, h)
<1> DEFINE S == {k \in m .. n : \E h : Folded(kind, x, m, k, b, h)}
<1>1. m \in S
  <2> DEFINE h == [i \in m .. m |-> b]
  <2>1. h = [i \in m .. m |-> h[i]] /\ h[m] = b /\ m + 1 .. m = {}  OBVIOUS
  <2> HIDE DEF h
  <2>2. Folded(kind, x, m, m, b, h)  BY <2>1 DEF Folded
  <2> QED BY <2>2
<1>2. ASSUME NEW k \in m .. n - 1, k \in S PROVE k + 1 \in S
  <2>1. PICK h : Folded(kind, x, m, k, b, h)  BY <1>2
  <2> DEFINE g == [i \in m .. k + 1 |-> IF i = k + 1 THEN StepOf(kind, x, k + 1, h[k]) ELSE h[i]]
  <2>2. g = [i \in m .. k + 1 |-> g[i]]  OBVIOUS
  <2>3. \A i \in m .. k : g[i] = h[i]
    <3>1. \A i \in m .. k : i \in m .. k + 1 /\ i # k + 1  OBVIOUS
    <3> QED BY <3>1
  <2>4. g[k + 1] = StepOf(kind, x, k + 1, h[k])
    <3>1. k + 1 \in m .. k + 1  OBVIOUS
    <3> QED BY <3>1
  <2> HIDE DEF g
  <2>5. ASSUME NEW i \in m + 1 .. k + 1 PROVE g[i] = StepOf(kind, x, i, g[i - 1])
    <3>1. CASE i = k + 1
      <4>1. i - 1 = k /\ k \in m .. k  BY <3>1
      <4> QED BY <2>3, <2>4, <3>1, <4>1
    <3>2. CASE i # k + 1
      <4>1. i \in m + 1 .. k /\ i \in m .. k /\ i - 1 \in m .. k  BY <3>2
      <4> QED BY <2>1, <2>3, <4>1 DEF Folded
    <3> QED BY <3>1, <3>2
  <2>6. g[m] = b
    <3>1. m \in m .. k  OBVIOUS
    <3> QED BY <2>1, <2>3, <3>1 DEF Folded
  <2>7. Folded(kind, x, m, k + 1, b, g)  BY <2>2, <2>5, <2>6 DEF Folded
  <2>8. k + 1 \in m .. n  OBVIOUS
  <2> QED BY <2>7, <2>8
<1>3. n \in S
  <2> HIDE DEF S
  <2>1. m .. n \subseteq S  BY <1>1, <1>2, Induction
  <2> QED BY <2>1
<1> QED BY <1>3

SamePieces(kind, x, y, m, n) ==
  kind \in {"along", "warp along"} /\ \A i \in m .. n : x[i] = y[i]

LEMMA FoldUnique ==
  ASSUME NEW kind, NEW x, NEW y, NEW m \in Int, NEW n \in Int, m <= n, NEW b, NEW g, NEW h, NEW k \in Int, n <= k,
         Folded(kind, x, m, n, b, g), Folded(kind, y, m, k, b, h),
         SamePieces(kind, x, y, m, n)
  PROVE  g[n] = h[n]
<1> DEFINE S == {i \in m .. n : g[i] = h[i]}
<1>1. m \in S  BY DEF Folded
<1>2. ASSUME NEW i \in m .. n - 1, i \in S PROVE i + 1 \in S
  <2> DEFINE j == i + 1
  <2>1. j \in m + 1 .. n /\ j \in m + 1 .. k /\ j \in m .. n /\ j - 1 = i  OBVIOUS
  <2> HIDE DEF j
  <2>2. g[j] = StepOf(kind, x, j, g[i]) /\ h[j] = StepOf(kind, y, j, h[i]) /\ x[j] = y[j] /\ g[i] = h[i]
    BY <1>2, <2>1 DEF Folded, SamePieces
  <2>3. StepOf(kind, x, j, g[i]) = StepOf(kind, y, j, h[i])  BY <2>2 DEF StepOf, SamePieces
  <2> QED BY <2>1, <2>2, <2>3 DEF j
<1>3. n \in S
  <2> HIDE DEF S
  <2>1. m .. n \subseteq S  BY <1>1, <1>2, Induction
  <2> QED BY <2>1
<1> QED BY <1>3

PieceOf(w, x) == IF w THEN WarpPiece(x) ELSE Piece(x)
AlongOf(w, p) == IF w THEN WarpAlong(p) ELSE Along(p)
AlongKind(w)  == IF w THEN "warp along" ELSE "along"

LEMMA PlainAlong ==
  ASSUME NEW p, Len(p) \in Nat, Len(p) >= 1
  PROVE  \E h : Folded("along", p, 1, Len(p), Piece(p[1]), h) /\ Along(p) = h[Len(p)]
<1> DEFINE n == Len(p)
           F(h) == h = [i \in 1 .. n |-> IF i = 1 THEN Piece(p[1]) ELSE Compose(Piece(p[i]), h[i - 1])]
           along == CHOOSE h : F(h)
<1>1. PICK h : Folded("along", p, 1, n, Piece(p[1]), h)
  <2>1. 1 \in Int /\ n \in Int /\ 1 <= n  OBVIOUS
  <2> HIDE DEF n
  <2> QED BY <2>1, FoldExists
<1>2. ASSUME NEW g, NEW i PROVE StepOf("along", p, i, g[i - 1]) = Compose(Piece(p[i]), g[i - 1])
  BY DEF StepOf
<1>3. F(h)
  <2>1. \A i \in 1 .. n : i = 1 \/ i \in 1 + 1 .. n  OBVIOUS
  <2>2. h = [i \in 1 .. n |-> h[i]]
        /\ \A i \in 1 .. n : h[i] = IF i = 1 THEN Piece(p[1]) ELSE Compose(Piece(p[i]), h[i - 1])
    BY <1>1, <1>2, <2>1 DEF Folded
  <2> HIDE DEF n
  <2> QED BY <2>2
<1>4. F(along)
  <2> HIDE DEF F
  <2> QED BY <1>3
<1>5. Along(p) = along[n]  BY DEF Along
<1> HIDE DEF along
<1>6. Folded("along", p, 1, n, Piece(p[1]), along)
  <2>1. 1 \in 1 .. n /\ \A i \in 1 + 1 .. n : i \in 1 .. n /\ i # 1  OBVIOUS
  <2> HIDE DEF n
  <2> QED BY <1>2, <1>4, <2>1 DEF Folded
<1> QED BY <1>5, <1>6

LEMMA LateAlong ==
  ASSUME NEW p, Len(p) \in Nat, Len(p) >= 1
  PROVE  \E h : Folded("warp along", p, 1, Len(p), WarpPiece(p[1]), h) /\ WarpAlong(p) = h[Len(p)]
<1> DEFINE n == Len(p)
           F(h) == h = [i \in 1 .. n |-> IF i = 1 THEN WarpPiece(p[1]) ELSE WarpConcat(WarpPiece(p[i]), h[i - 1])]
           along == CHOOSE h : F(h)
<1>1. PICK h : Folded("warp along", p, 1, n, WarpPiece(p[1]), h)
  <2>1. 1 \in Int /\ n \in Int /\ 1 <= n  OBVIOUS
  <2> HIDE DEF n
  <2> QED BY <2>1, FoldExists
<1>2. ASSUME NEW g, NEW i PROVE StepOf("warp along", p, i, g[i - 1]) = WarpConcat(WarpPiece(p[i]), g[i - 1])
  BY DEF StepOf
<1>3. F(h)
  <2>1. \A i \in 1 .. n : i = 1 \/ i \in 1 + 1 .. n  OBVIOUS
  <2>2. h = [i \in 1 .. n |-> h[i]]
        /\ \A i \in 1 .. n : h[i] = IF i = 1 THEN WarpPiece(p[1]) ELSE WarpConcat(WarpPiece(p[i]), h[i - 1])
    BY <1>1, <1>2, <2>1 DEF Folded
  <2> HIDE DEF n
  <2> QED BY <2>2
<1>4. F(along)
  <2> HIDE DEF F
  <2> QED BY <1>3
<1>5. WarpAlong(p) = along[n]  BY DEF WarpAlong
<1> HIDE DEF along
<1>6. Folded("warp along", p, 1, n, WarpPiece(p[1]), along)
  <2>1. 1 \in 1 .. n /\ \A i \in 1 + 1 .. n : i \in 1 .. n /\ i # 1  OBVIOUS
  <2> HIDE DEF n
  <2> QED BY <1>2, <1>4, <2>1 DEF Folded
<1> QED BY <1>5, <1>6

LEMMA AlongIs ==
  ASSUME NEW w \in BOOLEAN, NEW p, Len(p) \in Nat, Len(p) >= 1
  PROVE  \E h : Folded(AlongKind(w), p, 1, Len(p), PieceOf(w, p[1]), h) /\ AlongOf(w, p) = h[Len(p)]
<1>1. CASE w = TRUE
  <2>1. AlongKind(w) = "warp along" /\ PieceOf(w, p[1]) = WarpPiece(p[1]) /\ AlongOf(w, p) = WarpAlong(p)
    BY <1>1 DEF AlongKind, PieceOf, AlongOf
  <2>2. PICK h : Folded("warp along", p, 1, Len(p), WarpPiece(p[1]), h) /\ WarpAlong(p) = h[Len(p)]
    BY LateAlong
  <2> QED BY <2>1, <2>2
<1>2. CASE w = FALSE
  <2>1. AlongKind(w) = "along" /\ PieceOf(w, p[1]) = Piece(p[1]) /\ AlongOf(w, p) = Along(p)
    BY <1>2 DEF AlongKind, PieceOf, AlongOf
  <2>2. PICK h : Folded("along", p, 1, Len(p), Piece(p[1]), h) /\ Along(p) = h[Len(p)]
    BY PlainAlong
  <2> QED BY <2>1, <2>2
<1> QED BY <1>1, <1>2

Listed(p) == p # <<>> /\ \E S : p \in Seq(S)

LEMMA AlongOne ==
  ASSUME NEW w \in BOOLEAN, NEW x
  PROVE  Listed(<<x>>) /\ AlongOf(w, <<x>>) = PieceOf(w, x)
<1> DEFINE p == <<x>>
<1>1. Len(p) = 1 /\ p[1] = x /\ p \in Seq({x}) /\ p # <<>>  OBVIOUS
<1>2. Len(p) \in Nat /\ Len(p) >= 1  BY <1>1
<1> HIDE DEF p
<1>3. PICK h : Folded(AlongKind(w), p, 1, Len(p), PieceOf(w, p[1]), h) /\ AlongOf(w, p) = h[Len(p)]
  BY <1>2, AlongIs
<1>4. AlongOf(w, p) = PieceOf(w, x)  BY <1>1, <1>3 DEF Folded
<1>5. Listed(p)  BY <1>1 DEF Listed
<1> QED BY <1>4, <1>5 DEF p

LEMMA AlongMore ==
  ASSUME NEW w \in BOOLEAN, NEW p, Listed(p), NEW x
  PROVE  Listed(p \o <<x>>) /\ AlongOf(w, p \o <<x>>) = Merge(w, PieceOf(w, x), AlongOf(w, p))
<1> DEFINE r == p \o <<x>>
           n == Len(p)
           kind == AlongKind(w)
<1>1. PICK S : p \in Seq(S)  BY DEF Listed
<1>2. p \in Seq(S \cup {x}) /\ <<x>> \in Seq(S \cup {x}) /\ Len(<<x>>) = 1 /\ <<x>>[1] = x
  <2>1. <<x>> \in Seq(S \cup {x}) /\ Len(<<x>>) = 1 /\ <<x>>[1] = x  OBVIOUS
  <2>2. p \in Seq(S \cup {x})  BY <1>1
  <2> QED BY <2>1, <2>2
<1>3. n \in Nat /\ n >= 1  BY <1>1, LenProperties, EmptySeq DEF Listed
<1>4. r \in Seq(S \cup {x}) /\ Len(r) = n + 1 /\ (\A i \in 1 .. n : r[i] = p[i]) /\ r[n + 1] = x
  <2>1. r \in Seq(S \cup {x}) /\ Len(r) = n + 1  BY <1>2, ConcatProperties
  <2>2. \A i \in 1 .. n + 1 : r[i] = IF i <= n THEN p[i] ELSE <<x>>[i - n]  BY <1>2, ConcatProperties
  <2>3. n + 1 \in 1 .. n + 1 /\ ~(n + 1 <= n) /\ (n + 1) - n = 1 /\ \A i \in 1 .. n : i \in 1 .. n + 1 /\ i <= n
    BY <1>3
  <2> HIDE DEF r, n
  <2> QED BY <1>2, <2>1, <2>2, <2>3
<1> HIDE DEF r, n
<1>5. Len(r) \in Nat /\ Len(r) >= 1 /\ r # <<>>  BY <1>3, <1>4
<1>6. PICK g : Folded(kind, p, 1, n, PieceOf(w, p[1]), g) /\ AlongOf(w, p) = g[n]  BY <1>3, AlongIs DEF n
<1>7. PICK h : Folded(kind, r, 1, n + 1, PieceOf(w, r[1]), h) /\ AlongOf(w, r) = h[n + 1]  BY <1>4, <1>5, AlongIs
<1>8. r[1] = p[1] /\ SamePieces(kind, p, r, 1, n)
  <2>1. 1 \in 1 .. n  BY <1>3
  <2>2. kind \in {"along", "warp along"}  BY DEF AlongKind
  <2> QED BY <1>4, <2>1, <2>2 DEF SamePieces
<1>9. g[n] = h[n]
  <2>1. 1 \in Int /\ n \in Int /\ n + 1 \in Int /\ 1 <= n /\ n <= n + 1  BY <1>3
  <2>2. Folded(kind, r, 1, n + 1, PieceOf(w, p[1]), h)  BY <1>7, <1>8
  <2> HIDE DEF kind
  <2> QED BY <1>6, <1>8, <2>1, <2>2, FoldUnique
<1>10. h[n + 1] = StepOf(kind, r, n + 1, h[n])
  <2>1. n + 1 \in 1 + 1 .. n + 1 /\ (n + 1) - 1 = n  BY <1>3
  <2> HIDE DEF kind
  <2> QED BY <1>7, <2>1 DEF Folded
<1>11. StepOf(kind, r, n + 1, h[n]) = Merge(w, PieceOf(w, x), h[n])
  <2>1. CASE w = TRUE  BY <1>4, <2>1 DEF StepOf, AlongKind, Merge, PieceOf
  <2>2. CASE w = FALSE  BY <1>4, <2>2 DEF StepOf, AlongKind, Merge, PieceOf
  <2> QED BY <2>1, <2>2
<1>12. Listed(r)  BY <1>4, <1>5 DEF Listed
<1> QED BY <1>6, <1>7, <1>9, <1>10, <1>11, <1>12 DEF r

(* The pieces laid so far reach up to leg e of a way. *)
Reaches(w, p, W, e, d, s) == Listed(p) /\ Spans(w, AlongOf(w, p), W, 0, e, d, s)

LEMMA ReachesMore ==
  ASSUME NEW w \in BOOLEAN, NEW W, NEW d \in Int, NEW s \in Int, s <= d, NEW p, NEW x, NEW e, NEW f,
         Legged(W, 0, f), Reaches(w, p, W, e, d, s), Spans(w, PieceOf(w, x), W, e + 1, f, d, s)
  PROVE  Reaches(w, p \o <<x>>, W, f, d, s)
<1> DEFINE y == AlongOf(w, p)
           z == PieceOf(w, x)
<1>1. Listed(p) /\ Spans(w, y, W, 0, e, d, s)  BY DEF Reaches
<1>2. Listed(p \o <<x>>) /\ AlongOf(w, p \o <<x>>) = Merge(w, z, y)  BY <1>1, AlongMore
<1>3. Spans(w, z, W, e + 1, f, d, s)  OBVIOUS
<1> HIDE DEF y, z
<1>4. Spans(w, Merge(w, z, y), W, 0, f, d, s)  BY <1>1, <1>3, SpansJoin
<1> QED BY <1>2, <1>4 DEF Reaches

(* A live route of a search, and a route q1 that shows, n places further on, what q has
   at a .. b. *)
Lives(w, r, q) ==
  /\ q \in Seq(Client) /\ q # <<>> /\ r.vertices = q
  /\ r.tree = IF w THEN WarpTree!Build(WarpRouteLeaves(q)) ELSE Tree!Build(RouteLeaves(q))

Shown(q1, q, a, b, n) == \A k \in a .. b : Place(q1, k + n) = Place(q, k)

LEMMA WayAlike ==
  ASSUME Ready, NEW w \in BOOLEAN, NEW q1 \in Seq(Client), NEW q \in Seq(Client), NEW a \in Int, NEW b \in Int, NEW n \in Int,
         0 <= a, 0 <= a + n, b <= Len(q) + 1, b + n <= Len(q1) + 1, a = 0 \/ a + n = 0 => a = 0 /\ n = 0,
         Shown(q1, q, IF a = 0 THEN 0 ELSE a - 1, b, n)
  PROVE  Alike(Way(w, q1), Way(w, q), a, b, n)
<1>1. Len(q) \in Nat /\ Len(q1) \in Nat  BY LenProperties
<1>2. Way(w, q)[0] = Lows(FALSE, Departures)
      /\ \A k \in 1 .. Len(q) + 1 : Way(w, q)[k] = Leg(w, Place(q, k - 1), Place(q, k))
  BY WayIs
<1>3. Way(w, q1)[0] = Lows(FALSE, Departures)
      /\ \A k \in 1 .. Len(q1) + 1 : Way(w, q1)[k] = Leg(w, Place(q1, k - 1), Place(q1, k))
  BY WayIs
<1> SUFFICES ASSUME NEW k \in a .. b PROVE Way(w, q1)[k + n] = Way(w, q)[k]  BY DEF Alike
<1>4. CASE k = 0
  <2>1. k + n = 0  BY <1>4
  <2> QED BY <1>2, <1>3, <1>4, <2>1
<1>5. CASE k # 0
  <2>1. k \in 1 .. Len(q) + 1 /\ k + n \in 1 .. Len(q1) + 1 /\ (k + n) - 1 = (k - 1) + n
    BY <1>1, <1>5
  <2>2. Place(q1, k + n) = Place(q, k)
    <3>1. k \in (IF a = 0 THEN 0 ELSE a - 1) .. b  BY <1>5
    <3> QED BY <3>1 DEF Shown
  <2>3. Place(q1, (k - 1) + n) = Place(q, k - 1)
    <3>1. k - 1 \in (IF a = 0 THEN 0 ELSE a - 1) .. b  BY <1>5
    <3> QED BY <3>1 DEF Shown
  <2>4. Way(w, q1)[k + n] = Leg(w, Place(q1, (k - 1) + n), Place(q1, k + n))
    <3> DEFINE j == k + n
    <3>1. Way(w, q1)[j] = Leg(w, Place(q1, j - 1), Place(q1, j))  BY <1>3, <2>1
    <3> QED BY <2>1, <3>1
  <2> QED BY <1>2, <2>1, <2>2, <2>3, <2>4
<1> QED BY <1>4, <1>5

LEMMA SpansAlike ==
  ASSUME NEW w \in BOOLEAN, NEW d, NEW s, NEW x, NEW V, NEW W, NEW a, NEW b, NEW n \in Int,
         Spans(w, x, W, a, b, d, s), Alike(V, W, a, b, n), 0 <= a + n, a = 0 \/ a + n = 0 => n = 0
  PROVE  Spans(w, x, V, a + n, b + n, d, s)
<1>1. a \in Nat /\ b \in Nat /\ a <= b  BY DEF Spans
<1>2. a + n \in Nat /\ b + n \in Nat /\ a + n <= b + n /\ (a = 0 <=> a + n = 0) /\ a \in Int /\ b \in Int  BY <1>1
<1> DEFINE F == Lows(w, x)
<1>3. Runs(F, W, a, b)  BY DEF Spans
<1> HIDE DEF F
<1>4. Runs(F, V, a + n, b + n)  BY <1>1, <1>2, <1>3, RunsAlike
<1>5. Sound(w, x, IF a = 0 THEN d ELSE s, s)  BY DEF Spans
<1>6. Sound(w, x, IF a + n = 0 THEN d ELSE s, s)  BY <1>2, <1>5
<1> QED BY <1>2, <1>4, <1>6 DEF Spans, F

LEMMA QueryPiece ==
  ASSUME Ready, NEW w \in BOOLEAN, NEW r, NEW q, Lives(w, r, q), NEW lo \in 0 .. Len(q), NEW hi \in lo .. Len(q)
  PROVE  Spans(w, PieceOf(w, Run(r, lo, hi)), Way(w, q), First(lo), hi + 1, Dawn, inst.start)
<1> DEFINE L == LeavesOf(w, q)
           n == Len(q)
           W == Way(w, q)
           d == Dawn
           s == inst.start
<1>1. Fits(w, L, n, W, d, s)  BY LeavesFit DEF Lives
<1>2. Piece(Run(r, lo, hi)) = Tree!Query(r.tree, lo, hi)  BY DEF Piece, Run
<1>3. WarpPiece(Run(r, lo, hi)) = WarpTree!Query(r.tree, lo, hi)  BY DEF WarpPiece, Run
<1>4. CASE w = TRUE
  <2>1. PieceOf(w, Run(r, lo, hi)) = WarpTree!Query(WarpTree!Build(L), lo, hi)
    BY <1>3, <1>4 DEF PieceOf, Lives, LeavesOf
  <2>2. Fits(TRUE, L, n, W, d, s)  BY <1>1, <1>4
  <2> HIDE DEF L, n, W, d, s
  <2>3. Spans(TRUE, WarpTree!Query(WarpTree!Build(L), lo, hi), W, First(lo), hi + 1, d, s)
    <3>1. lo \in 0 .. n /\ hi \in lo .. n  BY DEF n
    <3> QED BY <2>2, <3>1, WarpQuery
  <2> QED BY <1>4, <2>1, <2>3 DEF W, d, s
<1>5. CASE w = FALSE
  <2>1. PieceOf(w, Run(r, lo, hi)) = Tree!Query(Tree!Build(L), lo, hi)
    BY <1>2, <1>5 DEF PieceOf, Lives, LeavesOf
  <2>2. Fits(FALSE, L, n, W, d, s)  BY <1>1, <1>5
  <2> HIDE DEF L, n, W, d, s
  <2>3. Spans(FALSE, Tree!Query(Tree!Build(L), lo, hi), W, First(lo), hi + 1, d, s)
    <3>1. lo \in 0 .. n /\ hi \in lo .. n  BY DEF n
    <3> QED BY <2>2, <3>1, PlainQuery
  <2> QED BY <1>5, <2>1, <2>3 DEF W, d, s
<1> QED BY <1>4, <1>5

(* The pieces of a changed route on its way. *)
LEMMA SetoffSpans ==
  ASSUME Ready, NEW w \in BOOLEAN, NEW q1 \in Seq(Client)
  PROVE  Spans(w, PieceOf(w, Setoff), Way(w, q1), 0, 0, Dawn, inst.start)
<1> DEFINE x == PieceOf(w, Setoff)
           W == Way(w, q1)
           d == Dawn
           s == inst.start
<1>1. s \in Nat  BY StartIs
<1>2. d \in Int /\ Sound(FALSE, Departures, d, s)  BY DeparturesSound
<1>3. W[0] = Lows(FALSE, Departures)  BY WayIs
<1>4. Sound(w, x, d, s) /\ Lows(w, x) = Lows(FALSE, Departures)
  <2>1. CASE w = TRUE
    <3>1. x = OnTimeAlways(Departures)  BY <2>1 DEF PieceOf, WarpPiece, Setoff
    <3>2. s \in Int  BY <1>1
    <3> HIDE DEF x, d, s
    <3> QED BY <1>2, <2>1, <3>1, <3>2, OnTimeAlwaysIs
  <2>2. CASE w = FALSE
    <3>1. x = Departures  BY <2>2 DEF PieceOf, Piece, Setoff
    <3> QED BY <1>2, <2>2, <3>1
  <2> QED BY <2>1, <2>2
<1> HIDE DEF W, x, d, s
<1>5. Runs(Lows(w, x), W, 0, 0)
  <2>1. 0 \in Int  OBVIOUS
  <2> QED BY <1>3, <1>4, <2>1, RunsOne
<1>6. Spans(w, x, W, 0, 0, d, s)
  <2>1. 0 \in Nat /\ 0 <= 0  OBVIOUS
  <2>2. Sound(w, x, IF 0 = 0 THEN d ELSE s, s)  BY <1>4
  <2> QED BY <1>5, <2>1, <2>2 DEF Spans
<1> QED BY <1>6 DEF W, x, d, s

LEMMA LegSpans ==
  ASSUME Ready, NEW w \in BOOLEAN, NEW q1 \in Seq(Client), NEW e \in 0 .. Len(q1)
  PROVE  LET x == IF e < Len(q1) THEN Bridge(Place(q1, e), Place(q1, e + 1)) ELSE Return(Place(q1, e))
         IN  Spans(w, PieceOf(w, x), Way(w, q1), e + 1, e + 1, Dawn, inst.start)
<1> DEFINE x == IF e < Len(q1) THEN Bridge(Place(q1, e), Place(q1, e + 1)) ELSE Return(Place(q1, e))
           a == Place(q1, e)
           v == Place(q1, e + 1)
           W == Way(w, q1)
           d == Dawn
           s == inst.start
           k == e + 1
           z == PieceOf(w, x)
<1>1. Len(q1) \in Nat /\ k \in 1 .. Len(q1) + 1 /\ k - 1 = e /\ k \in Nat /\ k <= k /\ k # 0 /\ k \in Int
  BY LenProperties
<1>2. a \in Stop /\ v \in Stop  BY PlaceIs
<1>3. W[k] = Leg(w, a, v)
  <2>1. W[k] = Leg(w, Place(q1, k - 1), Place(q1, k))  BY <1>1, WayIs
  <2> QED BY <1>1, <2>1
<1>4. z = Leaf(w, a, v)
  <2>1. CASE e < Len(q1)
    <3>1. k \in 1 .. Len(q1)  BY <1>1, <2>1
    <3>2. v \in Client  BY <3>1, PlaceIs
    <3>3. x = Bridge(a, v)  BY <2>1
    <3> HIDE DEF x, a, v
    <3>4. Piece(x) = BridgeLeaf(a, v) /\ WarpPiece(x) = WarpBridgeLeaf(a, v)
      BY <3>3 DEF Piece, WarpPiece, Bridge
    <3> QED BY <1>2, <3>2, <3>4, LeafNames DEF PieceOf
  <2>2. CASE ~(e < Len(q1))
    <3>1. k \notin 1 .. Len(q1)  BY <1>1, <2>2
    <3>2. v = Depot  BY <3>1, PlaceIs
    <3>3. x = Return(a)  BY <2>2
    <3> HIDE DEF x, a, v
    <3>4. Piece(x) = ReturnLeaf(a) /\ WarpPiece(x) = WarpReturnLeaf(a)
      BY <3>3 DEF Piece, WarpPiece, Return
    <3> QED BY <1>2, <3>2, <3>4, LeafNames DEF PieceOf
  <2> QED BY <2>1, <2>2
<1> HIDE DEF z, x, W, a, v
<1>5. Sound(w, z, s, s) /\ Lows(w, z) = W[k]  BY <1>2, <1>3, <1>4, LegIs
<1> HIDE DEF k, d, s
<1>6. Runs(Lows(w, z), W, k, k)  BY <1>1, <1>5, RunsOne
<1>7. Spans(w, z, W, k, k, d, s)  BY <1>1, <1>5, <1>6 DEF Spans
<1> QED BY <1>7 DEF z, x, W, k, d, s, a, v

LEMMA RunSpans ==
  ASSUME Ready, NEW w \in BOOLEAN, NEW r, NEW q, Lives(w, r, q), NEW q1 \in Seq(Client), NEW n \in Int,
         NEW lo \in 1 .. Len(q), NEW hi \in lo .. Len(q), 0 <= lo + n, hi + n <= Len(q1), Shown(q1, q, lo, hi + 1, n)
  PROVE  Spans(w, PieceOf(w, Run(r, lo, hi)), Way(w, q1), lo + n + 1, hi + n + 1, Dawn, inst.start)
<1> DEFINE x == PieceOf(w, Run(r, lo, hi))
           W == Way(w, q)
           V == Way(w, q1)
           a == lo + 1
           b == hi + 1
           d == Dawn
           s == inst.start
<1>1. q \in Seq(Client) /\ Len(q) \in Nat  BY LenProperties DEF Lives
<1>2. lo \in 0 .. Len(q) /\ lo \in Int /\ First(lo) = lo + 1  BY <1>1 DEF First
<1>3. Spans(w, x, W, a, b, d, s)  BY <1>2, QueryPiece
<1>4. a \in Int /\ b \in Int /\ 0 <= a /\ 0 <= a + n /\ b <= Len(q) + 1 /\ b + n <= Len(q1) + 1 /\ a # 0 /\ a + n # 0
      /\ a + n = lo + n + 1 /\ b + n = hi + n + 1
  BY <1>1, LenProperties
<1>5. Shown(q1, q, IF a = 0 THEN 0 ELSE a - 1, b, n)
  <2>1. a # 0 /\ a - 1 = lo  BY <1>1
  <2> QED BY <2>1
<1> HIDE DEF x, d, s, a, b
<1>6. Alike(V, W, a, b, n)  BY <1>1, <1>4, <1>5, WayAlike
<1> HIDE DEF V, W
<1>7. Spans(w, x, V, a + n, b + n, d, s)  BY <1>3, <1>4, <1>6, SpansAlike
<1> QED BY <1>4, <1>7 DEF x, V, d, s

(* On the way of q1, the pieces laid so far reach up to its stop e. *)
Laid(w, p, q1, e) == Reaches(w, p, Way(w, q1), e, Dawn, inst.start)

LEMMA LaidMore ==
  ASSUME Ready, NEW w \in BOOLEAN, NEW q1 \in Seq(Client), NEW p, NEW x, NEW e, NEW f \in Int, f <= Len(q1) + 1,
         Laid(w, p, q1, e), Spans(w, PieceOf(w, x), Way(w, q1), e + 1, f, Dawn, inst.start)
  PROVE  Laid(w, p \o <<x>>, q1, f)
<1> DEFINE W == Way(w, q1)
           d == Dawn
           s == inst.start
<1>1. s \in Nat  BY StartIs
<1>2. d \in Int /\ s <= d  BY DeparturesSound
<1>3. Len(q1) \in Nat  BY LenProperties
<1>4. Legged(W, 0, f)
  <2>1. Legged(W, 0, Len(q1) + 1)  BY WayIs
  <2>2. 0 \in Int /\ Len(q1) + 1 \in Int /\ 0 <= 0  BY <1>3
  <2> HIDE DEF W
  <2> QED BY <2>1, <2>2, LeggedPart
<1>5. s \in Int  BY <1>1
<1>6. Reaches(w, p, W, e, d, s) /\ Spans(w, PieceOf(w, x), W, e + 1, f, d, s)  BY DEF Laid
<1> HIDE DEF W, d, s
<1>7. Reaches(w, p \o <<x>>, W, f, d, s)  BY <1>2, <1>4, <1>5, <1>6, ReachesMore
<1> QED BY <1>7 DEF Laid, W, d, s

LEMMA LaidStart ==
  ASSUME Ready, NEW w \in BOOLEAN, NEW r, NEW q, Lives(w, r, q), NEW q1 \in Seq(Client),
         NEW i \in 0 .. Len(q), i <= Len(q1), Shown(q1, q, 0, i, 0)
  PROVE  Laid(w, UpTo(r, i), q1, i) /\ Before(r, i) = Place(q1, i)
<1> DEFINE W == Way(w, q)
           V == Way(w, q1)
           d == Dawn
           s == inst.start
<1>1. q \in Seq(Client) /\ Len(q) \in Nat /\ Len(q1) \in Nat /\ r.vertices = q  BY LenProperties DEF Lives
<1>2. CASE i = 0
  <2>1. UpTo(r, i) = <<Setoff>> /\ Before(r, i) = Depot  BY <1>2 DEF UpTo, Before
  <2>2. Listed(<<Setoff>>) /\ AlongOf(w, <<Setoff>>) = PieceOf(w, Setoff)  BY AlongOne
  <2>3. Spans(w, PieceOf(w, Setoff), V, 0, 0, d, s)  BY SetoffSpans
  <2>4. Place(q1, 0) = Depot
    <3>1. 0 \notin 1 .. Len(q1)  BY <1>1
    <3> QED BY <3>1, PlaceIs
  <2> QED BY <1>2, <2>1, <2>2, <2>3, <2>4 DEF Laid, Reaches
<1>3. CASE i # 0
  <2> DEFINE x == Run(r, 0, i - 1)
             z == PieceOf(w, x)
  <2>1. UpTo(r, i) = <<x>> /\ Before(r, i) = q[i]
    <3>1. i > 0 /\ (i - 1) + 1 = i  BY <1>1, <1>3
    <3> QED BY <1>1, <3>1 DEF UpTo, Before, At
  <2>2. Listed(<<x>>) /\ AlongOf(w, <<x>>) = z  BY AlongOne
  <2>3. Spans(w, z, W, 0, i, d, s)
    <3>1. 0 \in 0 .. Len(q) /\ i - 1 \in 0 .. Len(q) /\ First(0) = 0 /\ (i - 1) + 1 = i  BY <1>1, <1>3 DEF First
    <3> DEFINE h == i - 1
    <3> HIDE DEF h
    <3>2. 0 \in 0 .. Len(q) /\ h \in 0 .. Len(q) /\ First(0) = 0 /\ h + 1 = i  BY <3>1 DEF h
    <3>3. Spans(w, PieceOf(w, Run(r, 0, h)), Way(w, q), First(0), h + 1, Dawn, inst.start)  BY <3>2, QueryPiece
    <3> QED BY <3>2, <3>3 DEF h
  <2>4. Alike(V, W, 0, i, 0)
    <3>1. 0 \in Int /\ i \in Int /\ 0 <= 0 /\ 0 <= 0 + 0 /\ i <= Len(q) + 1 /\ i + 0 <= Len(q1) + 1  BY <1>1
    <3>2. Shown(q1, q, IF 0 = 0 THEN 0 ELSE 0 - 1, i, 0)  OBVIOUS
    <3> QED BY <1>1, <3>1, <3>2, WayAlike
  <2> HIDE DEF x, z, V, W, d, s
  <2>5. Spans(w, z, V, 0, i, d, s)
    <3>1. 0 \in Int /\ 0 <= 0 + 0 /\ 0 + 0 = 0 /\ i + 0 = i  BY <1>1
    <3>2. Spans(w, z, V, 0 + 0, i + 0, d, s)  BY <2>3, <2>4, <3>1, SpansAlike
    <3> QED BY <3>1, <3>2
  <2>6. Place(q1, i) = q[i]
    <3>1. i \in 0 .. i /\ i \in 1 .. Len(q) /\ i + 0 = i  BY <1>1, <1>3
    <3>2. Place(q1, i + 0) = Place(q, i)  BY <3>1 DEF Shown
    <3> QED BY <1>1, <3>1, <3>2, PlaceIs
  <2> QED BY <2>1, <2>2, <2>5, <2>6 DEF Laid, Reaches, V, d, s
<1> QED BY <1>2, <1>3

LEMMA LaidLeg ==
  ASSUME Ready, NEW w \in BOOLEAN, NEW q1 \in Seq(Client), NEW p, NEW e \in 0 .. Len(q1), Laid(w, p, q1, e)
  PROVE  /\ \A a, v : e < Len(q1) /\ a = Place(q1, e) /\ v = Place(q1, e + 1) => Laid(w, p \o <<Bridge(a, v)>>, q1, e + 1)
         /\ \A a : e = Len(q1) /\ a = Place(q1, e) => Laid(w, p \o <<Return(a)>>, q1, e + 1)
<1>1. Len(q1) \in Nat /\ e + 1 \in Int /\ e + 1 <= Len(q1) + 1  BY LenProperties
<1>2. ASSUME e < Len(q1) PROVE Laid(w, p \o <<Bridge(Place(q1, e), Place(q1, e + 1))>>, q1, e + 1)
  <2>1. Spans(w, PieceOf(w, Bridge(Place(q1, e), Place(q1, e + 1))), Way(w, q1), e + 1, e + 1, Dawn, inst.start)
    BY <1>2, LegSpans
  <2> QED BY <1>1, <2>1, LaidMore
<1>3. ASSUME e = Len(q1) PROVE Laid(w, p \o <<Return(Place(q1, e))>>, q1, e + 1)
  <2>1. ~(e < Len(q1))  BY <1>1, <1>3
  <2>2. Spans(w, PieceOf(w, Return(Place(q1, e))), Way(w, q1), e + 1, e + 1, Dawn, inst.start)
    BY <2>1, LegSpans
  <2> QED BY <1>1, <2>2, LaidMore
<1> QED BY <1>2, <1>3

LEMMA LaidRun ==
  ASSUME Ready, NEW w \in BOOLEAN, NEW r, NEW q, Lives(w, r, q), NEW q1 \in Seq(Client), NEW p, NEW e, Laid(w, p, q1, e),
         NEW n \in Int, NEW lo \in 1 .. Len(q), NEW hi \in lo .. Len(q), e = lo + n, 0 <= e, hi + n <= Len(q1),
         Shown(q1, q, lo, hi + 1, n)
  PROVE  Laid(w, p \o <<Run(r, lo, hi)>>, q1, hi + n + 1)
<1>1. Len(q) \in Nat /\ Len(q1) \in Nat  BY LenProperties DEF Lives
<1>2. lo \in Int /\ hi \in Int /\ hi + n + 1 \in Int /\ hi + n + 1 <= Len(q1) + 1 /\ e + 1 = lo + n + 1 /\ 0 <= lo + n
  BY <1>1
<1>3. Spans(w, PieceOf(w, Run(r, lo, hi)), Way(w, q1), lo + n + 1, hi + n + 1, Dawn, inst.start)
  BY <1>2, RunSpans
<1> DEFINE f == hi + n + 1
<1>4. f \in Int /\ f <= Len(q1) + 1  BY <1>2
<1>5. Spans(w, PieceOf(w, Run(r, lo, hi)), Way(w, q1), e + 1, f, Dawn, inst.start)  BY <1>2, <1>3
<1> HIDE DEF f
<1>6. Laid(w, p \o <<Run(r, lo, hi)>>, q1, f)  BY <1>4, <1>5, LaidMore
<1> QED BY <1>6 DEF f

(* Sequences of pieces as the evaluators write them. *)
LEMMA PiecesJoin ==
  ASSUME NEW p, Listed(p)
  PROVE  p \o <<>> = p /\ \A x, y : p \o <<x, y>> = (p \o <<x>>) \o <<y>>
<1>1. PICK S : p \in Seq(S)  BY DEF Listed
<1>2. p \o <<>> = p  BY <1>1, ConcatEmptySeq
<1>3. ASSUME NEW x, NEW y PROVE p \o <<x, y>> = (p \o <<x>>) \o <<y>>
  <2>1. p \in Seq(S \cup {x, y})  BY <1>1
  <2> DEFINE T == S \cup {x, y}
             a == <<x>>
             b == <<y>>
             c == <<x, y>>
  <2>2. a \in Seq(T) /\ b \in Seq(T) /\ Len(a) = 1 /\ Len(b) = 1 /\ a[1] = x /\ b[1] = y  OBVIOUS
  <2>3. c \in Seq(T) /\ Len(c) = 2 /\ c[1] = x /\ c[2] = y  OBVIOUS
  <2> HIDE DEF a, b, c, T
  <2>4. a \o b = c
    <3>1. a \o b \in Seq(T) /\ Len(a \o b) = 1 + 1
          /\ \A i \in 1 .. 1 + 1 : (a \o b)[i] = IF i <= 1 THEN a[i] ELSE b[i - 1]
      BY <2>2, ConcatProperties
    <3>2. \A i \in 1 .. 2 : (a \o b)[i] = c[i]
      <4>1. \A i \in 1 .. 2 : i = 1 \/ i = 2  OBVIOUS
      <4>2. (a \o b)[1] = x  BY <2>2, <3>1
      <4>3. (a \o b)[2] = y
        <5>1. 2 \in 1 .. 1 + 1 /\ ~(2 <= 1) /\ 2 - 1 = 1  OBVIOUS
        <5> QED BY <2>2, <3>1, <5>1
      <4> QED BY <2>3, <4>1, <4>2, <4>3
    <3> QED BY <2>3, <3>1, <3>2, SeqEqual
  <2>5. (p \o a) \o b = p \o (a \o b)  BY <2>1, <2>2, ConcatAssociative DEF T
  <2> QED BY <2>4, <2>5 DEF a, b, c
<1> QED BY <1>2, <1>3

LEMMA ShownBy ==
  ASSUME NEW q1 \in Seq(Client), NEW q \in Seq(Client), NEW a, NEW b, NEW n,
         \A k \in a .. b : \/ k \in 1 .. Len(q) /\ k + n \in 1 .. Len(q1) /\ q1[k + n] = q[k]
                           \/ k \notin 1 .. Len(q) /\ k + n \notin 1 .. Len(q1)
  PROVE  Shown(q1, q, a, b, n)
<1> SUFFICES ASSUME NEW k \in a .. b PROVE Place(q1, k + n) = Place(q, k)  BY DEF Shown
<1> QED BY PlaceIs

(* The route a splice makes, and where it shows the routes it is made of. *)
Spliceable(q, o, i1, j1, i2, j2) ==
  /\ q \in Seq(Client) /\ o \in Seq(Client) /\ o # <<>>
  /\ i1 \in 0 .. Len(q) /\ j1 \in -1 .. Len(q) - 1 /\ i1 <= j1 + 1
  /\ \/ i2 = 1 /\ j2 = 0
     \/ i2 \in 0 .. Len(o) /\ j2 \in -1 .. Len(o) - 1 /\ i2 <= j2

SpliceShown(q, o, i1, j1, i2, j2, q1) ==
  /\ q1 \in Seq(Client) /\ Len(q1) = i1 + (j2 - i2 + 1) + (Len(q) - j1 - 1)
  /\ Shown(q1, q, 0, i1, 0)
  /\ i2 <= j2 => Shown(q1, o, i2 + 1, j2 + 1, i1 - i2)
  /\ Shown(q1, q, j1 + 2, Len(q) + 1, Len(q1) - Len(q))

LEMMA SplicedShows ==
  ASSUME NEW q, NEW o, NEW i1, NEW j1, NEW i2, NEW j2, Spliceable(q, o, i1, j1, i2, j2),
         NEW q1, q1 = SubSeq(q, 1, i1) \o SubSeq(o, i2 + 1, j2 + 1) \o SubSeq(q, j1 + 2, Len(q))
  PROVE  SpliceShown(q, o, i1, j1, i2, j2, q1)
<1> DEFINE m == Len(q)
           A == SubSeq(q, 1, i1)
           B == SubSeq(o, i2 + 1, j2 + 1)
           C == SubSeq(q, j1 + 2, m)
           l == j2 - i2 + 1
<1>1. /\ q \in Seq(Client) /\ o \in Seq(Client) /\ m \in Nat /\ Len(o) \in Nat /\ Len(o) >= 1
      /\ i1 \in Int /\ j1 \in Int /\ i2 \in Int /\ j2 \in Int
      /\ 0 <= i1 /\ i1 <= m /\ -1 <= j1 /\ j1 <= m - 1 /\ i1 <= j1 + 1
      /\ 0 <= i2 /\ i2 <= j2 + 1 /\ i2 <= Len(o) /\ j2 <= Len(o) - 1 /\ -1 <= j2
      /\ (i2 <= j2 \/ j2 = i2 - 1)
  <2>1. q \in Seq(Client) /\ o \in Seq(Client) /\ m \in Nat /\ Len(o) \in Nat /\ Len(o) >= 1
    BY LenProperties, EmptySeq DEF Spliceable
  <2> QED BY <2>1 DEF Spliceable
<1> HIDE DEF m
<1>2. A \in Seq(Client) /\ Len(A) = i1 /\ \A k \in 1 .. i1 : A[k] = q[k]
  <2>1. 1 \in 1 .. Len(q) + 1 /\ i1 \in 0 .. Len(q)  BY <1>1 DEF m
  <2>2. /\ A \in Seq(Client) /\ Len(A) = (IF 1 <= i1 THEN i1 - 1 + 1 ELSE 0)
        /\ \A k \in 1 .. i1 - 1 + 1 : A[k] = q[1 + k - 1]
    BY <1>1, <2>1, Stretch
  <2> HIDE DEF A
  <2>3. i1 - 1 + 1 = i1 /\ \A k \in 1 .. i1 : 1 + k - 1 = k  BY <1>1
  <2> QED BY <1>1, <2>2, <2>3
<1>3. B \in Seq(Client) /\ Len(B) = l /\ \A k \in 1 .. l : B[k] = o[i2 + k]
  <2>1. i2 + 1 \in 1 .. Len(o) + 1 /\ j2 + 1 \in 0 .. Len(o)  BY <1>1
  <2>2. /\ B \in Seq(Client) /\ Len(B) = (IF i2 + 1 <= j2 + 1 THEN (j2 + 1) - (i2 + 1) + 1 ELSE 0)
        /\ \A k \in 1 .. (j2 + 1) - (i2 + 1) + 1 : B[k] = o[i2 + 1 + k - 1]
    BY <1>1, <2>1, Stretch
  <2> HIDE DEF B
  <2>3. (j2 + 1) - (i2 + 1) + 1 = l /\ \A k \in 1 .. l : i2 + 1 + k - 1 = i2 + k  BY <1>1
  <2> QED BY <1>1, <2>2, <2>3
<1>4. C \in Seq(Client) /\ Len(C) = m - j1 - 1 /\ \A k \in 1 .. m - j1 - 1 : C[k] = q[j1 + 1 + k]
  <2>1. j1 + 2 \in 1 .. Len(q) + 1 /\ m \in 0 .. Len(q)  BY <1>1 DEF m
  <2>2. /\ C \in Seq(Client) /\ Len(C) = (IF j1 + 2 <= m THEN m - (j1 + 2) + 1 ELSE 0)
        /\ \A k \in 1 .. m - (j1 + 2) + 1 : C[k] = q[j1 + 2 + k - 1]
    BY <1>1, <2>1, Stretch
  <2> HIDE DEF C
  <2>3. m - (j1 + 2) + 1 = m - j1 - 1 /\ \A k \in 1 .. m - j1 - 1 : j1 + 2 + k - 1 = j1 + 1 + k  BY <1>1
  <2> QED BY <1>1, <2>2, <2>3
<1>5. q1 = (A \o B) \o C  BY DEF m
<1> HIDE DEF A, B, C
<1>6. /\ A \o B \in Seq(Client) /\ Len(A \o B) = i1 + l
      /\ \A k \in 1 .. i1 + l : (A \o B)[k] = IF k <= i1 THEN A[k] ELSE B[k - i1]
  <2>1. /\ A \o B \in Seq(Client) /\ Len(A \o B) = Len(A) + Len(B)
        /\ \A k \in 1 .. Len(A) + Len(B) : (A \o B)[k] = IF k <= Len(A) THEN A[k] ELSE B[k - Len(A)]
    BY <1>2, <1>3, ConcatProperties
  <2>2. Len(A) = i1 /\ Len(B) = l  BY <1>2, <1>3
  <2> QED BY <2>1, <2>2
<1>7. /\ q1 \in Seq(Client) /\ Len(q1) = (i1 + l) + (m - j1 - 1)
      /\ \A k \in 1 .. (i1 + l) + (m - j1 - 1) : q1[k] = IF k <= i1 + l THEN (A \o B)[k] ELSE C[k - (i1 + l)]
  <2> DEFINE D == A \o B
  <2> HIDE DEF D
  <2>1. D \in Seq(Client) /\ Len(D) = i1 + l /\ Len(C) = m - j1 - 1 /\ C \in Seq(Client)  BY <1>4, <1>6 DEF D
  <2>2. /\ D \o C \in Seq(Client) /\ Len(D \o C) = Len(D) + Len(C)
        /\ \A k \in 1 .. Len(D) + Len(C) : (D \o C)[k] = IF k <= Len(D) THEN D[k] ELSE C[k - Len(D)]
    BY <2>1, ConcatProperties
  <2> QED BY <1>5, <2>1, <2>2 DEF D
<1>8. l \in Int /\ 0 <= l  BY <1>1
<1> HIDE DEF l
<1> DEFINE N == Len(q1)
<1>17. N \in Int /\ N = (i1 + l) + (m - j1 - 1)
  <2>1. N = (i1 + l) + (m - j1 - 1)  BY <1>7
  <2> HIDE DEF N
  <2> QED BY <1>1, <1>8, <2>1
<1> HIDE DEF N
<1>9. \A k \in 1 .. i1 : q1[k] = q[k]
  <2> SUFFICES ASSUME NEW k \in 1 .. i1 PROVE q1[k] = q[k]  OBVIOUS
  <2>1. k \in 1 .. i1 + l /\ k <= i1 + l /\ k <= i1 /\ k \in 1 .. (i1 + l) + (m - j1 - 1)  BY <1>1, <1>8
  <2> QED BY <1>2, <1>6, <1>7, <2>1
<1>10. \A k \in 1 .. l : q1[i1 + k] = o[i2 + k]
  <2> SUFFICES ASSUME NEW k \in 1 .. l PROVE q1[i1 + k] = o[i2 + k]  OBVIOUS
  <2>1. i1 + k \in 1 .. i1 + l /\ i1 + k <= i1 + l /\ ~(i1 + k <= i1) /\ i1 + k \in 1 .. (i1 + l) + (m - j1 - 1)
        /\ (i1 + k) - i1 = k
    BY <1>1, <1>8
  <2> DEFINE j == i1 + k
  <2>2. q1[j] = (A \o B)[j]  BY <1>7, <2>1
  <2>3. (A \o B)[j] = B[j - i1]  BY <1>6, <2>1
  <2> QED BY <1>3, <2>1, <2>2, <2>3
<1>11. \A k \in 1 .. m - j1 - 1 : q1[i1 + l + k] = q[j1 + 1 + k]
  <2> SUFFICES ASSUME NEW k \in 1 .. m - j1 - 1 PROVE q1[i1 + l + k] = q[j1 + 1 + k]  OBVIOUS
  <2>1. i1 + l + k \in 1 .. (i1 + l) + (m - j1 - 1) /\ ~(i1 + l + k <= i1 + l) /\ (i1 + l + k) - (i1 + l) = k
    BY <1>1, <1>8
  <2> DEFINE j == i1 + l + k
  <2>2. q1[j] = C[j - (i1 + l)]  BY <1>7, <2>1
  <2> QED BY <1>4, <2>1, <2>2
<1>12. Len(q1) = i1 + (j2 - i2 + 1) + (Len(q) - j1 - 1)  BY <1>7 DEF l, m
<1>13. Shown(q1, q, 0, i1, 0)
  <2>1. ASSUME NEW k \in 0 .. i1
        PROVE  \/ k \in 1 .. Len(q) /\ k + 0 \in 1 .. Len(q1) /\ q1[k + 0] = q[k]
               \/ k \notin 1 .. Len(q) /\ k + 0 \notin 1 .. Len(q1)
    <3>1. CASE k = 0
      <4>1. k \notin 1 .. Len(q) /\ k + 0 \notin 1 .. Len(q1)  BY <3>1
      <4> QED BY <4>1
    <3>2. CASE k # 0
      <4>1. k + 0 = k /\ k \in 1 .. i1 /\ k \in 1 .. Len(q)  BY <1>1, <3>2 DEF m
      <4>2. k \in 1 .. N  BY <1>1, <1>8, <1>17, <4>1
      <4> QED BY <1>9, <4>1, <4>2 DEF N
    <3> QED BY <3>1, <3>2
  <2> QED BY <1>1, <1>7, <2>1, ShownBy
<1>14. i2 <= j2 => Shown(q1, o, i2 + 1, j2 + 1, i1 - i2)
  <2> SUFFICES ASSUME i2 <= j2 PROVE Shown(q1, o, i2 + 1, j2 + 1, i1 - i2)  OBVIOUS
  <2>1. ASSUME NEW k \in i2 + 1 .. j2 + 1
        PROVE  k \in 1 .. Len(o) /\ k + (i1 - i2) \in 1 .. Len(q1) /\ q1[k + (i1 - i2)] = o[k]
    <3> DEFINE h == k - i2
    <3>1. h \in 1 .. l /\ i1 + h = k + (i1 - i2) /\ i2 + h = k  BY <1>1 DEF l
    <3>2. k \in 1 .. Len(o)  BY <1>1
    <3> HIDE DEF h
    <3>3. i1 + h \in 1 .. N  BY <1>1, <1>8, <1>17, <3>1
    <3>4. q1[i1 + h] = o[i2 + h]  BY <1>10, <3>1
    <3> QED BY <3>1, <3>2, <3>3, <3>4 DEF N
  <2> QED BY <1>1, <1>7, <2>1, ShownBy
<1>15. Shown(q1, q, j1 + 2, Len(q) + 1, Len(q1) - Len(q))
  <2> DEFINE n == Len(q1) - Len(q)
  <2>1. n = i1 + l - (j1 + 1)
    <3>1. n = N - m  BY DEF N, m
    <3> HIDE DEF n
    <3> QED BY <1>1, <1>8, <1>17, <3>1
  <2>2. n \in Int  BY <1>1, <1>8, <2>1
  <2>3. ASSUME NEW k \in j1 + 2 .. Len(q) + 1
        PROVE  \/ k \in 1 .. Len(q) /\ k + n \in 1 .. Len(q1) /\ q1[k + n] = q[k]
               \/ k \notin 1 .. Len(q) /\ k + n \notin 1 .. Len(q1)
    <3>1. CASE k = Len(q) + 1
      <4>1. n = N - m /\ k = m + 1  BY <3>1 DEF N, m
      <4> HIDE DEF n
      <4>2. k \notin 1 .. m /\ k + n \notin 1 .. N  BY <1>1, <1>17, <4>1
      <4> QED BY <4>2 DEF m, N
    <3>2. CASE k # Len(q) + 1
      <4> HIDE DEF n
      <4> DEFINE h == k - (j1 + 1)
      <4>0. /\ i1 \in Int /\ j1 \in Int /\ j1 + 2 >= 1 /\ l \in Int /\ m \in Int /\ m = Len(q) /\ k \in Int
            /\ n = i1 + l - (j1 + 1) /\ j1 + 2 <= k /\ k <= m + 1 /\ k # m + 1
        BY <1>1, <1>8, <2>1, <3>2 DEF m
      <4>1. h \in 1 .. m - j1 - 1 /\ i1 + l + h = k + n /\ j1 + 1 + h = k /\ k \in 1 .. Len(q)
        <5> HIDE DEF l, m
        <5> QED BY ONLY <4>0
      <4> HIDE DEF h
      <4>2. i1 + l + h \in 1 .. N  BY <1>1, <1>8, <1>17, <4>1
      <4>3. q1[i1 + l + h] = q[j1 + 1 + h]  BY <1>11, <4>1
      <4> QED BY <4>1, <4>2, <4>3 DEF N
    <3> QED BY <3>1, <3>2
  <2> HIDE DEF n
  <2>4. Shown(q1, q, j1 + 2, Len(q) + 1, n)  BY <1>1, <1>7, <2>3, ShownBy
  <2> QED BY <2>4 DEF n
<1> QED BY <1>7, <1>12, <1>13, <1>14, <1>15 DEF SpliceShown

(* A run of leaves, if there is one. *)
LEMMA LaidWhen ==
  ASSUME Ready, NEW w \in BOOLEAN, NEW r, NEW q, Lives(w, r, q), NEW q1 \in Seq(Client), NEW p, NEW e, Laid(w, p, q1, e),
         NEW n \in Int, NEW lo \in Nat, NEW hi \in Int, 1 <= lo, hi <= Len(q), e = lo + n, 0 <= e, hi + n <= Len(q1), lo <= hi + 1,
         Shown(q1, q, lo, hi + 1, n)
  PROVE  Laid(w, p \o When(lo <= hi, <<Run(r, lo, hi)>>), q1, hi + n + 1)
<1> DEFINE N == Len(q)
<1>1. N \in Nat  BY LenProperties DEF Lives
<1>2. CASE lo <= hi
  <2>1. lo \in 1 .. N /\ hi \in lo .. N
    <3>1. hi <= N  OBVIOUS
    <3> HIDE DEF N
    <3> QED BY <1>1, <1>2, <3>1
  <2> QED BY <1>2, <2>1, LaidRun DEF When
<1>3. CASE ~(lo <= hi)
  <2>1. hi + n + 1 = e  BY <1>3
  <2>2. Listed(p)  BY DEF Laid, Reaches
  <2> QED BY <1>3, <2>1, <2>2, PiecesJoin DEF When
<1> QED BY <1>2, <1>3

(* The end of the way: from the stop before the client at b on, as q goes from there. *)
Remainder(r, a, b) ==
  IF b < Len(r.vertices) THEN <<Bridge(a, At(r.vertices, b)), Run(r, b + 1, Len(r.vertices))>> ELSE <<Return(a)>>

LEMMA LaidRest ==
  ASSUME Ready, NEW w \in BOOLEAN, NEW r, NEW q, Lives(w, r, q), NEW q1 \in Seq(Client), NEW p, NEW e, Laid(w, p, q1, e),
         NEW b \in 0 .. Len(q), e = b + (Len(q1) - Len(q)), 0 <= e, NEW a, a = Place(q1, e),
         Shown(q1, q, b + 1, Len(q) + 1, Len(q1) - Len(q))
  PROVE  Laid(w, p \o Remainder(r, a, b), q1, Len(q1) + 1)
<1> DEFINE m == Len(q)
           N == Len(q1)
           n == N - m
           f == e + 1
           lo == b + 1
           v == At(q, b)
<1>1. r.vertices = q /\ q \in Seq(Client) /\ m \in Nat /\ N \in Nat  BY LenProperties DEF Lives
<1>2. b \in 0 .. m /\ e = b + n  OBVIOUS
<1> HIDE DEF m, N
<1>3. n \in Int /\ e \in 0 .. N /\ f = lo + n /\ m + n = N /\ m + n + 1 = N + 1 /\ 0 <= f /\ b \in Int  BY <1>1, <1>2
<1>4. CASE b < m
  <2>1. e < N /\ lo \in 1 .. m /\ m \in lo .. m /\ lo \in lo .. m + 1  BY <1>1, <1>2, <1>3, <1>4
  <2>2. Place(q1, f) = v
    <3>1. Place(q, lo) = q[lo]  BY <1>1, <2>1, PlaceIs DEF m
    <3>2. v = q[lo]  BY DEF At
    <3> HIDE DEF v, f, n, lo
    <3>3. Shown(q1, q, lo, m + 1, n)  BY DEF lo, n, m, N
    <3>4. Place(q1, lo + n) = Place(q, lo)  BY <2>1, <3>3 DEF Shown
    <3> QED BY <1>3, <3>1, <3>2, <3>4
  <2>3. Laid(w, p \o <<Bridge(a, v)>>, q1, f)
    <3>1. e \in 0 .. Len(q1) /\ e < Len(q1)  BY <1>3, <2>1 DEF N
    <3> HIDE DEF v
    <3> QED BY <1>1, <2>2, <3>1, LaidLeg
  <2> DEFINE x == Bridge(a, v)
             y == Run(r, lo, m)
             p1 == p \o <<x>>
  <2>4. p \o Remainder(r, a, b) = p \o <<x, y>>
    <3>1. Remainder(r, a, b) = <<x, y>>  BY <1>1, <1>4 DEF Remainder, m
    <3> HIDE DEF x, y
    <3> QED BY <3>1
  <2>5. Listed(p)  BY DEF Laid, Reaches
  <2>6. Laid(w, p1, q1, f)  BY <2>3
  <2> HIDE DEF x, y
  <2>7. p \o <<x, y>> = p1 \o <<y>>  BY <2>5, PiecesJoin
  <2> HIDE DEF p1, f, n, lo
  <2>8. Laid(w, p1 \o <<Run(r, lo, m)>>, q1, m + n + 1)
    <3>1. lo \in 1 .. Len(q) /\ m \in lo .. Len(q) /\ m + n <= Len(q1)  BY <1>1, <1>3, <2>1 DEF m, N
    <3>2. Shown(q1, q, lo, m + 1, n)  BY DEF lo, n, m, N
    <3> QED BY <1>3, <2>6, <3>1, <3>2, LaidRun
  <2> QED BY <1>3, <2>4, <2>7, <2>8 DEF y, N
<1>5. CASE ~(b < m)
  <2>1. e = N /\ e \in 0 .. N  BY <1>1, <1>2, <1>3, <1>5
  <2>2. p \o Remainder(r, a, b) = p \o <<Return(a)>>
    <3>1. Remainder(r, a, b) = <<Return(a)>>  BY <1>1, <1>5 DEF Remainder, m
    <3> QED BY <3>1
  <2>3. e \in 0 .. Len(q1) /\ e = Len(q1)  BY <2>1 DEF N
  <2>4. Laid(w, p \o <<Return(a)>>, q1, e + 1)  BY <2>3, LaidLeg
  <2> QED BY <2>2, <2>3, <2>4
<1> QED BY <1>4, <1>5

(* The pieces of a splice go the whole way of the route it makes. *)
LEMMA SpliceReaches ==
  ASSUME Ready, NEW w \in BOOLEAN, NEW r1, NEW r2, NEW q, NEW o, Lives(w, r1, q), Lives(w, r2, o),
         NEW i1, NEW j1, NEW i2, NEW j2, Spliceable(q, o, i1, j1, i2, j2),
         NEW q1, q1 = SubSeq(q, 1, i1) \o SubSeq(o, i2 + 1, j2 + 1) \o SubSeq(q, j1 + 2, Len(q))
  PROVE  Laid(w, SplicePieces(r1, i1, j1, r2, i2, j2), q1, Len(q1) + 1)
<1> DEFINE m == Len(q)
           N == Len(q1)
           k == Len(o)
           last == IF i2 <= j2 THEN At(r2.vertices, j2) ELSE Before(r1, i1)
           p1 == UpTo(r1, i1)
           p2 == p1 \o When(i2 <= j2, <<Bridge(Before(r1, i1), At(r2.vertices, i2))>>)
           p3 == p2 \o When(i2 < j2, <<Run(r2, i2 + 1, j2)>>)
           p4 == p3 \o IF j1 + 1 < m
                       THEN <<Bridge(last, At(r1.vertices, j1 + 1)), Run(r1, j1 + 2, m)>>
                       ELSE <<Return(last)>>
           e == i1 + (j2 - i2 + 1)
<1>0. SpliceShown(q, o, i1, j1, i2, j2, q1)  BY SplicedShows
<1>1. /\ q1 \in Seq(Client) /\ N = i1 + (j2 - i2 + 1) + (m - j1 - 1)
      /\ Shown(q1, q, 0, i1, 0)
      /\ i2 <= j2 => Shown(q1, o, i2 + 1, j2 + 1, i1 - i2)
      /\ Shown(q1, q, j1 + 2, m + 1, N - m)
  BY <1>0 DEF SpliceShown
<1>2. /\ r1.vertices = q /\ r2.vertices = o /\ q \in Seq(Client) /\ o \in Seq(Client)
      /\ m \in Nat /\ k \in Nat /\ N \in Nat /\ k >= 1
  <2>1. r1.vertices = q /\ r2.vertices = o /\ q \in Seq(Client) /\ o \in Seq(Client) /\ o # <<>>  BY DEF Lives
  <2>2. m \in Nat /\ k \in Nat /\ k # 0  BY <2>1, LenProperties, EmptySeq
  <2>3. N \in Nat  BY <1>1, LenProperties
  <2> HIDE DEF m, k, N
  <2>4. k >= 1  BY <2>2
  <2> QED BY <2>1, <2>2, <2>3, <2>4
<1>3. SplicePieces(r1, i1, j1, r2, i2, j2) = p4  BY <1>2 DEF SplicePieces
<1>4. /\ i1 \in Int /\ j1 \in Int /\ i2 \in Int /\ j2 \in Int
      /\ 0 <= i1 /\ i1 <= m /\ -1 <= j1 /\ j1 <= m - 1 /\ i1 <= j1 + 1
      /\ 0 <= i2 /\ i2 <= j2 + 1 /\ j2 <= k - 1 /\ -1 <= j2
      /\ (i2 <= j2 \/ j2 = i2 - 1)
  BY <1>2 DEF Spliceable
<1> HIDE DEF m, N, k, p1, p2, p3, p4, last
<1>5. i1 <= N /\ e \in Int /\ e <= N /\ i1 \in 0 .. N  BY <1>1, <1>2, <1>4
<1>6. Laid(w, p1, q1, i1) /\ Before(r1, i1) = Place(q1, i1)
  <2>1. i1 \in 0 .. m /\ i1 <= N  BY <1>2, <1>4, <1>5
  <2>2. i1 \in 0 .. Len(q) /\ i1 <= Len(q1)  BY <2>1 DEF m, N
  <2> QED BY <1>1, <2>2, LaidStart DEF p1
<1>8. ASSUME last = Place(q1, e), Laid(w, p3, q1, e)
      PROVE  Laid(w, SplicePieces(r1, i1, j1, r2, i2, j2), q1, Len(q1) + 1)
  <2> DEFINE b == j1 + 1
  <2>1. b \in 0 .. m /\ e = b + (N - m) /\ 0 <= e /\ b + 1 = j1 + 2  BY <1>1, <1>2, <1>4
  <2>2. b \in 0 .. Len(q) /\ e = b + (Len(q1) - Len(q))  BY <2>1 DEF m, N
  <2>3. Shown(q1, q, b + 1, Len(q) + 1, Len(q1) - Len(q))  BY <1>1, <2>1 DEF m, N
  <2>4. p4 = p3 \o Remainder(r1, last, b)  BY <1>2, <2>1 DEF p4, Remainder, m
  <2> HIDE DEF b, e
  <2>5. Laid(w, p3 \o Remainder(r1, last, b), q1, Len(q1) + 1)  BY <1>1, <1>8, <2>1, <2>2, <2>3, LaidRest
  <2> QED BY <1>3, <2>4, <2>5
<1>7. CASE i2 <= j2
  <2>1. i1 < N /\ i1 + 1 <= e /\ i1 + 1 \in 0 .. N  BY <1>1, <1>2, <1>4, <1>7
  <2>2. At(r2.vertices, i2) = Place(q1, i1 + 1)
    <3>1. i2 + 1 \in 1 .. k /\ i2 + 1 \in i2 + 1 .. j2 + 1 /\ (i2 + 1) + (i1 - i2) = i1 + 1  BY <1>2, <1>4, <1>7
    <3>2. Place(o, i2 + 1) = o[i2 + 1]  BY <1>2, <3>1, PlaceIs DEF k
    <3> DEFINE h == i2 + 1
    <3>3. h \in i2 + 1 .. j2 + 1 /\ h + (i1 - i2) = i1 + 1 /\ Place(o, h) = o[h]  BY <3>1, <3>2
    <3> HIDE DEF h
    <3>4. Place(q1, h + (i1 - i2)) = Place(o, h)  BY <1>1, <1>7, <3>3 DEF Shown
    <3> QED BY <1>2, <3>3, <3>4 DEF At, h
  <2>3. Laid(w, p2, q1, i1 + 1)
    <3>1. p2 = p1 \o <<Bridge(Before(r1, i1), At(r2.vertices, i2))>>  BY <1>7 DEF p2, When
    <3>2. i1 \in 0 .. Len(q1) /\ i1 < Len(q1)  BY <1>5, <2>1 DEF N
    <3> QED BY <1>1, <1>6, <2>2, <3>1, <3>2, LaidLeg
  <2>4. last = Place(q1, e)
    <3> DEFINE h == j2 + 1
    <3>1. h \in 1 .. k /\ h \in i2 + 1 .. j2 + 1 /\ h + (i1 - i2) = e  BY <1>2, <1>4, <1>7
    <3>2. last = o[h]  BY <1>2, <1>7 DEF last, At
    <3> HIDE DEF h, e
    <3>3. Place(o, h) = o[h]  BY <1>2, <3>1, PlaceIs DEF k
    <3>4. Place(q1, h + (i1 - i2)) = Place(o, h)  BY <1>1, <1>7, <3>1 DEF Shown
    <3> QED BY <3>1, <3>2, <3>3, <3>4
  <2>5. Laid(w, p3, q1, e)
    <3> DEFINE lo == i2 + 1
               n == i1 - i2
               f == i1 + 1
    <3>1. n \in Int /\ lo \in Nat /\ 1 <= lo /\ j2 <= k /\ f = lo + n /\ 0 <= f /\ j2 + n <= N /\ lo <= j2 + 1
          /\ j2 + n + 1 = e /\ (lo <= j2 <=> i2 < j2)
      BY <1>2, <1>4, <1>5, <1>7
    <3>2. p3 = p2 \o When(lo <= j2, <<Run(r2, lo, j2)>>)  BY <3>1 DEF p3, When
    <3>3. j2 <= Len(o) /\ j2 + n <= Len(q1)  BY <3>1 DEF k, N
    <3>4. Shown(q1, o, lo, j2 + 1, n) /\ Laid(w, p2, q1, f)  BY <1>1, <1>7, <2>3
    <3> HIDE DEF lo, n, e, f
    <3>5. Laid(w, p2 \o When(lo <= j2, <<Run(r2, lo, j2)>>), q1, j2 + n + 1)
      BY <1>1, <1>4, <3>1, <3>3, <3>4, LaidWhen
    <3> QED BY <3>1, <3>2, <3>5
  <2> QED BY <2>4, <2>5, <1>8
<1>9. CASE ~(i2 <= j2)
  <2>1. e = i1  BY <1>4, <1>9
  <2>2. last = Place(q1, e)  BY <1>6, <1>9, <2>1 DEF last
  <2>3. p3 = p1
    <3>1. Listed(p1)  BY <1>6 DEF Laid, Reaches
    <3>2. ~(i2 < j2)  BY <1>4, <1>9
    <3>3. p2 = p1 \o <<>> /\ p3 = p2 \o <<>>  BY <1>9, <3>2 DEF p2, p3, When
    <3> QED BY <3>1, <3>3, PiecesJoin
  <2> QED BY <1>6, <1>8, <2>1, <2>2, <2>3
<1> QED BY <1>7, <1>9

(* The route an intra relocation makes, client by client. *)
Moved(q, i, p, q1) ==
  /\ q1 \in Seq(Client) /\ Len(q1) = Len(q)
  /\ \A k \in 1 .. Len(q) :
       q1[k] = IF p < i THEN (CASE k <= p -> q[k] [] k = p + 1 -> q[i + 1] [] p + 1 < k /\ k <= i + 1 -> q[k - 1] [] OTHER -> q[k])
               ELSE (CASE k <= i -> q[k] [] i < k /\ k < p -> q[k + 1] [] k = p -> q[i + 1] [] OTHER -> q[k])

LEMMA RelocatedMoves ==
  ASSUME NEW q \in Seq(Client), NEW i \in 0 .. Len(q) - 1, NEW p \in (0 .. Len(q)) \ {i, i + 1}
  PROVE  Moved(q, i, p, Relocated(q, i, p))
<1> DEFINE m == Len(q)
           u == Without(q, i + 1)
           c == q[i + 1]
           t == IF p < i THEN p ELSE p - 1
           q1 == Put(u, t, t, c)
<1>1. m \in Nat  BY LenProperties
<1>2. i \in 0 .. m - 1 /\ p \in (0 .. m) \ {i, i + 1}  OBVIOUS
<1>3. u \in Seq(Client) /\ Len(u) = m - 1 /\ c \in Client
      /\ \A k \in 1 .. m - 1 : u[k] = IF k < i + 1 THEN q[k] ELSE q[k + 1]
  <2>1. i + 1 \in 1 .. m /\ DOMAIN q = 1 .. m  BY <1>1, <1>2, LenProperties
  <2>2. c \in Client  BY <2>1, ElementOfSeq
  <2> HIDE DEF c
  <2> QED BY <2>1, <2>2, WithoutParts
<1>4. Relocated(q, i, p) = q1  BY DEF Relocated, Insert, Put
<1>5. t \in 0 .. m - 1 /\ t \in t .. m - 1 /\ t \in Int
  <2> HIDE DEF m
  <2> QED BY <1>1, <1>2
<1> HIDE DEF m, u, c, t
<1>6. IsPut(q1, Client, u, t, t, c)  BY <1>3, <1>5, PutParts
<1>7. q1 \in Seq(Client) /\ Len(q1) = m
      /\ \A k \in 1 .. m : q1[k] = IF k <= t THEN u[k] ELSE IF k = t + 1 THEN c ELSE u[k - 1]
  <2> HIDE DEF q1
  <2>1. Len(u) - (t - t) + 1 = m  BY <1>1, <1>3, <1>5
  <2>2. \A k : k + (t - t) - 1 = k + 0 - 1  BY <1>5
  <2>3. \A k \in 1 .. m : k + (t - t) - 1 = k - 1  BY <1>1, <1>5
  <2> QED BY <1>6, <2>1, <2>3 DEF IsPut
<1> HIDE DEF q1
<1>8. ASSUME NEW k \in 1 .. m
      PROVE  q1[k] = IF p < i THEN (CASE k <= p -> q[k] [] k = p + 1 -> q[i + 1] [] p + 1 < k /\ k <= i + 1 -> q[k - 1] [] OTHER -> q[k])
                     ELSE (CASE k <= i -> q[k] [] i < k /\ k < p -> q[k + 1] [] k = p -> q[i + 1] [] OTHER -> q[k])
  <2>1. q1[k] = IF k <= t THEN u[k] ELSE IF k = t + 1 THEN c ELSE u[k - 1]  BY <1>7
  <2>2. k \in Int /\ i \in Int /\ p \in Int /\ 1 <= k /\ k <= m /\ p # i /\ p # i + 1 /\ c = q[i + 1]  BY <1>1, <1>2 DEF c
  <2>3. CASE k <= t
    <3>1. u[k] = IF k < i + 1 THEN q[k] ELSE q[k + 1]  BY <1>1, <1>3, <1>5, <2>2, <2>3
    <3> QED BY <1>1, <1>2, <2>1, <2>2, <2>3, <3>1 DEF t
  <2>4. CASE k = t + 1  BY <1>1, <1>2, <2>1, <2>2, <2>4, <1>5 DEF t
  <2>5. CASE k > t + 1
    <3> DEFINE j == k - 1
    <3>1. j \in 1 .. m - 1 /\ j + 1 = k  BY <1>1, <1>5, <2>2, <2>5
    <3>2. u[j] = IF j < i + 1 THEN q[j] ELSE q[j + 1]  BY <1>3, <3>1
    <3>3. q1[k] = u[j]  BY <2>1, <2>5, <1>5, <2>2
    <3> QED BY <1>1, <1>2, <2>2, <2>5, <3>1, <3>2, <3>3 DEF t
  <2> QED BY <1>5, <2>2, <2>3, <2>4, <2>5
<1> QED BY <1>4, <1>7, <1>8 DEF Moved, m

(* Backwards: the client at i goes to an earlier place. *)
LEMMA EarlierReaches ==
  ASSUME Ready, NEW r, NEW q, Lives(FALSE, r, q), NEW i \in 0 .. Len(q) - 1, NEW p \in 0 .. Len(q), p < i,
         NEW q1, Moved(q, i, p, q1)
  PROVE  Laid(FALSE, RelocatePieces(r, i, p), q1, Len(q1) + 1)
<1> DEFINE m == Len(q)
           v(j) == At(q, j)
           p1 == UpTo(r, p)
           x == Bridge(Before(r, p), v(i))
           y == Bridge(v(i), v(p))
           p2 == p1 \o <<x>>
           p3 == p2 \o <<y>>
           p4 == p3 \o When(p + 1 <= i - 1, <<Run(r, p + 1, i - 1)>>)
<1>1. r.vertices = q /\ q \in Seq(Client) /\ m \in Nat  BY LenProperties DEF Lives
<1>2. i \in Int /\ p \in Int /\ 0 <= p /\ p < i /\ i < m /\ i \in 0 .. m - 1 /\ p \in 0 .. m  BY <1>1
<1>3. RelocatePieces(r, i, p) = (p1 \o <<x, y>> \o When(p + 1 <= i - 1, <<Run(r, p + 1, i - 1)>>)) \o Remainder(r, v(i - 1), i + 1)
  BY <1>1, <1>2 DEF RelocatePieces, Remainder, At
<1>4. q1 \in Seq(Client) /\ Len(q1) = m  BY DEF Moved
<1>5. \A k \in 1 .. m : q1[k] = CASE k <= p -> q[k] [] k = p + 1 -> q[i + 1] [] p + 1 < k /\ k <= i + 1 -> q[k - 1] [] OTHER -> q[k]
  BY <1>2 DEF Moved
<1> HIDE DEF m
<1>6. FALSE \in BOOLEAN  OBVIOUS
<1>7. Shown(q1, q, 0, p, 0)
  <2>1. ASSUME NEW k \in 0 .. p
        PROVE  \/ k \in 1 .. Len(q) /\ k + 0 \in 1 .. Len(q1) /\ q1[k + 0] = q[k]
               \/ k \notin 1 .. Len(q) /\ k + 0 \notin 1 .. Len(q1)
    <3>1. k + 0 = k /\ (k = 0 \/ k \in 1 .. m)  BY <1>1, <1>2
    <3>2. k \in 1 .. m => q1[k] = q[k]  BY <1>2, <1>5
    <3>3. k = 0 => k \notin 1 .. m  OBVIOUS
    <3> QED BY <1>4, <3>1, <3>2, <3>3 DEF m
  <2> QED BY <1>1, <1>4, <2>1, ShownBy
<1>8. Shown(q1, q, p + 1, i, 1)
  <2>1. ASSUME NEW k \in p + 1 .. i
        PROVE  k \in 1 .. Len(q) /\ k + 1 \in 1 .. Len(q1) /\ q1[k + 1] = q[k]
    <3> DEFINE j == k + 1
    <3>1. k \in 1 .. m /\ j \in 1 .. m /\ ~(j <= p) /\ j # p + 1 /\ p + 1 < j /\ j <= i + 1 /\ j - 1 = k  BY <1>1, <1>2
    <3> HIDE DEF j
    <3>2. q1[j] = q[j - 1]  BY <1>5, <3>1
    <3> QED BY <1>4, <3>1, <3>2 DEF m, j
  <2> QED BY <1>1, <1>4, <2>1, ShownBy
<1>9. Shown(q1, q, i + 2, m + 1, 0)
  <2>1. ASSUME NEW k \in i + 2 .. m + 1
        PROVE  \/ k \in 1 .. Len(q) /\ k + 0 \in 1 .. Len(q1) /\ q1[k + 0] = q[k]
               \/ k \notin 1 .. Len(q) /\ k + 0 \notin 1 .. Len(q1)
    <3>1. k + 0 = k /\ (k = m + 1 \/ k \in 1 .. m) /\ ~(k <= p) /\ k # p + 1 /\ ~(k <= i + 1)  BY <1>1, <1>2
    <3>2. k \in 1 .. m => q1[k] = q[k]  BY <3>1, <1>5
    <3>3. k = m + 1 => k \notin 1 .. m  BY <1>1
    <3> QED BY <1>4, <3>1, <3>2, <3>3 DEF m
  <2> QED BY <1>1, <1>4, <2>1, ShownBy
<1>10. Place(q1, p + 1) = v(i) /\ Place(q1, p + 2) = v(p) /\ Place(q1, i + 1) = v(i - 1)
  <2>1. p + 1 \in 1 .. m /\ p + 2 \in 1 .. m /\ i + 1 \in 1 .. m /\ (i - 1) + 1 = i  BY <1>1, <1>2
  <2>2. q1[p + 1] = q[i + 1]  BY <1>2, <1>5, <2>1
  <2>3. q1[p + 2] = q[p + 1]
    <3> DEFINE j == p + 2
    <3>1. j \in 1 .. m /\ ~(j <= p) /\ j # p + 1 /\ p + 1 < j /\ j <= i + 1 /\ j - 1 = p + 1  BY <1>2, <2>1
    <3> HIDE DEF j
    <3>2. q1[j] = q[j - 1]  BY <1>5, <3>1
    <3> QED BY <3>1, <3>2 DEF j
  <2>4. q1[i + 1] = q[i]
    <3> DEFINE j == i + 1
    <3>1. j \in 1 .. m /\ ~(j <= p) /\ j # p + 1 /\ p + 1 < j /\ j <= i + 1 /\ j - 1 = i  BY <1>2, <2>1
    <3> HIDE DEF j
    <3>2. q1[j] = q[j - 1]  BY <1>5, <3>1
    <3> QED BY <3>1, <3>2 DEF j
  <2> QED BY <1>4, <2>1, <2>2, <2>3, <2>4, PlaceIs DEF At
<1>11. Laid(FALSE, p1, q1, p) /\ Before(r, p) = Place(q1, p)
  <2>1. p \in 0 .. Len(q) /\ p <= Len(q1)  BY <1>2, <1>4 DEF m
  <2> QED BY <1>4, <1>6, <1>7, <2>1, LaidStart
<1> HIDE DEF v, p1
<1>12. Laid(FALSE, p2, q1, p + 1)
  <2>1. p \in 0 .. Len(q1) /\ p < Len(q1)  BY <1>2, <1>4
  <2> QED BY <1>4, <1>6, <1>10, <1>11, <2>1, LaidLeg
<1>13. Laid(FALSE, p3, q1, p + 2)
  <2> DEFINE e == p + 1
  <2>1. e \in 0 .. Len(q1) /\ e < Len(q1) /\ e + 1 = p + 2  BY <1>1, <1>2, <1>4
  <2>2. Laid(FALSE, p2, q1, e) /\ v(i) = Place(q1, e) /\ v(p) = Place(q1, e + 1)  BY <1>10, <1>12, <2>1
  <2> HIDE DEF p2, e
  <2> QED BY <1>4, <1>6, <2>1, <2>2, LaidLeg
<1>14. p1 \o <<x, y>> = p3
  <2>1. Listed(p1)  BY <1>11 DEF Laid, Reaches
  <2> HIDE DEF x, y
  <2> QED BY <2>1, PiecesJoin
<1>15. Laid(FALSE, p4, q1, i + 1)
  <2> DEFINE lo == p + 1
             hi == i - 1
             e == p + 2
  <2>1. lo \in Nat /\ hi \in Int /\ 1 <= lo /\ hi <= Len(q) /\ e = lo + 1 /\ 0 <= e /\ hi + 1 <= Len(q1) /\ lo <= hi + 1
        /\ hi + 1 = i /\ hi + 1 + 1 = i + 1 /\ 1 \in Int
    <3>1. Len(q) = m /\ Len(q1) = m  BY <1>4 DEF m
    <3>2. lo \in Nat /\ hi \in Int /\ 1 <= lo /\ hi <= m /\ e = lo + 1 /\ 0 <= e /\ hi + 1 <= m /\ lo <= hi + 1
        /\ hi + 1 = i /\ hi + 1 + 1 = i + 1 /\ 1 \in Int  BY <1>1, <1>2
    <3> QED BY <3>1, <3>2
  <2>2. Shown(q1, q, lo, hi + 1, 1)  BY <1>8, <2>1
  <2>3. Laid(FALSE, p3, q1, e)  BY <1>13
  <2> HIDE DEF lo, hi, e, p3
  <2>4. Laid(FALSE, p3 \o When(lo <= hi, <<Run(r, lo, hi)>>), q1, hi + 1 + 1)
    BY <1>4, <1>6, <2>1, <2>2, <2>3, LaidWhen
  <2> QED BY <2>1, <2>4 DEF lo, hi
<1>16. Laid(FALSE, p4 \o Remainder(r, v(i - 1), i + 1), q1, Len(q1) + 1)
  <2> DEFINE b == i + 1
             a == v(i - 1)
  <2>1. b \in 0 .. Len(q) /\ b = b + (Len(q1) - Len(q)) /\ 0 <= b /\ Len(q1) - Len(q) = 0 /\ b + 1 = i + 2
    <3>1. Len(q) = m /\ Len(q1) = m  BY <1>4 DEF m
    <3>2. b \in 0 .. m /\ b = b + (m - m) /\ 0 <= b /\ m - m = 0 /\ b + 1 = i + 2  BY <1>1, <1>2
    <3> QED BY <3>1, <3>2
  <2>2. Shown(q1, q, b + 1, Len(q) + 1, Len(q1) - Len(q))  BY <1>9, <2>1 DEF m
  <2>3. a = Place(q1, b) /\ Laid(FALSE, p4, q1, b)  BY <1>10, <1>15
  <2> HIDE DEF a, b, p4
  <2>4. Laid(FALSE, p4 \o Remainder(r, a, b), q1, Len(q1) + 1)  BY <1>4, <1>6, <2>1, <2>2, <2>3, LaidRest
  <2> QED BY <2>4 DEF a, b
<1> QED BY <1>3, <1>14, <1>16

(* Forwards: the client at i goes to a later place. *)
LEMMA LaterReaches ==
  ASSUME Ready, NEW r, NEW q, Lives(FALSE, r, q), NEW i \in 0 .. Len(q) - 1, NEW p \in 0 .. Len(q), i + 1 < p,
         NEW q1, Moved(q, i, p, q1)
  PROVE  Laid(FALSE, RelocatePieces(r, i, p), q1, Len(q1) + 1)
<1> DEFINE m == Len(q)
           v(j) == At(q, j)
           p1 == UpTo(r, i)
           x == Bridge(Before(r, i), v(i + 1))
           y == Bridge(v(p - 1), v(i))
           p2 == p1 \o <<x>>
           p3 == p2 \o When(i + 2 <= p - 1, <<Run(r, i + 2, p - 1)>>)
           p4 == p3 \o <<y>>
<1>1. r.vertices = q /\ q \in Seq(Client) /\ m \in Nat  BY LenProperties DEF Lives
<1>2. i \in Int /\ p \in Int /\ 0 <= i /\ i + 1 < p /\ p <= m /\ ~(p < i)  BY <1>1
<1>3. RelocatePieces(r, i, p) = p4 \o Remainder(r, v(i), p)
  BY <1>1, <1>2 DEF RelocatePieces, Remainder, At
<1>4. q1 \in Seq(Client) /\ Len(q1) = m  BY DEF Moved
<1>5. \A k \in 1 .. m : q1[k] = CASE k <= i -> q[k] [] i < k /\ k < p -> q[k + 1] [] k = p -> q[i + 1] [] OTHER -> q[k]
  BY <1>2 DEF Moved
<1> HIDE DEF m
<1>6. FALSE \in BOOLEAN  OBVIOUS
<1>7. Shown(q1, q, 0, i, 0)
  <2>1. ASSUME NEW k \in 0 .. i
        PROVE  \/ k \in 1 .. Len(q) /\ k + 0 \in 1 .. Len(q1) /\ q1[k + 0] = q[k]
               \/ k \notin 1 .. Len(q) /\ k + 0 \notin 1 .. Len(q1)
    <3>1. k + 0 = k /\ (k = 0 \/ k \in 1 .. m)  BY <1>1, <1>2
    <3>2. k \in 1 .. m => q1[k] = q[k]  BY <1>2, <1>5
    <3>3. k = 0 => k \notin 1 .. m  OBVIOUS
    <3> QED BY <1>4, <3>1, <3>2, <3>3 DEF m
  <2> QED BY <1>1, <1>4, <2>1, ShownBy
<1>8. Shown(q1, q, i + 2, p, -1)
  <2>1. ASSUME NEW k \in i + 2 .. p
        PROVE  k \in 1 .. Len(q) /\ k + (-1) \in 1 .. Len(q1) /\ q1[k + (-1)] = q[k]
    <3> DEFINE j == k + (-1)
    <3>1. k \in 1 .. m /\ j \in 1 .. m /\ ~(j <= i) /\ i < j /\ j < p /\ j + 1 = k  BY <1>1, <1>2
    <3> HIDE DEF j
    <3>2. q1[j] = q[j + 1]  BY <1>5, <3>1
    <3> QED BY <1>4, <3>1, <3>2 DEF m, j
  <2> QED BY <1>1, <1>4, <2>1, ShownBy
<1>9. Shown(q1, q, p + 1, m + 1, 0)
  <2>1. ASSUME NEW k \in p + 1 .. m + 1
        PROVE  \/ k \in 1 .. Len(q) /\ k + 0 \in 1 .. Len(q1) /\ q1[k + 0] = q[k]
               \/ k \notin 1 .. Len(q) /\ k + 0 \notin 1 .. Len(q1)
    <3>1. k + 0 = k /\ (k = m + 1 \/ k \in 1 .. m) /\ ~(k <= i) /\ ~(k < p) /\ k # p  BY <1>1, <1>2
    <3>2. k \in 1 .. m => q1[k] = q[k]  BY <3>1, <1>5
    <3>3. k = m + 1 => k \notin 1 .. m  BY <1>1
    <3> QED BY <1>4, <3>1, <3>2, <3>3 DEF m
  <2> QED BY <1>1, <1>4, <2>1, ShownBy
<1>10. Place(q1, i + 1) = v(i + 1) /\ Place(q1, p - 1) = v(p - 1) /\ Place(q1, p) = v(i)
  <2>1. p \in 1 .. m /\ p - 1 \in 1 .. m /\ i + 1 \in 1 .. m /\ (p - 1) + 1 = p  BY <1>1, <1>2
  <2>2. q1[p] = q[i + 1]  BY <1>2, <1>5, <2>1
  <2>3. q1[p - 1] = q[p]
    <3> DEFINE j == p - 1
    <3>1. j \in 1 .. m /\ ~(j <= i) /\ i < j /\ j < p /\ j + 1 = p  BY <1>2, <2>1
    <3> HIDE DEF j
    <3>2. q1[j] = q[j + 1]  BY <1>5, <3>1
    <3> QED BY <3>1, <3>2 DEF j
  <2>4. q1[i + 1] = q[(i + 1) + 1]
    <3> DEFINE j == i + 1
    <3>1. j \in 1 .. m /\ ~(j <= i) /\ i < j /\ j < p  BY <1>2, <2>1
    <3> HIDE DEF j
    <3>2. q1[j] = q[j + 1]  BY <1>5, <3>1
    <3> QED BY <3>1, <3>2 DEF j
  <2> QED BY <1>4, <2>1, <2>2, <2>3, <2>4, PlaceIs DEF At
<1>11. Laid(FALSE, p1, q1, i) /\ Before(r, i) = Place(q1, i)
  <2>1. i \in 0 .. Len(q) /\ i <= Len(q1)
    <3>1. i \in 0 .. m /\ i <= m  BY <1>1, <1>2
    <3> QED BY <1>4, <3>1 DEF m
  <2> QED BY <1>4, <1>6, <1>7, <2>1, LaidStart
<1> HIDE DEF v, p1
<1>12. Laid(FALSE, p2, q1, i + 1)
  <2>1. i \in 0 .. Len(q1) /\ i < Len(q1)  BY <1>1, <1>2, <1>4
  <2> QED BY <1>4, <1>6, <1>10, <1>11, <2>1, LaidLeg
<1>13. Laid(FALSE, p3, q1, p - 1)
  <2> DEFINE lo == i + 2
             hi == p - 1
             e == i + 1
             n == -1
  <2>1. lo \in Nat /\ hi \in Int /\ 1 <= lo /\ hi <= Len(q) /\ e = lo + n /\ 0 <= e /\ hi + n <= Len(q1) /\ lo <= hi + 1
        /\ hi + 1 = p /\ hi + n + 1 = p - 1 /\ n \in Int
    <3>1. Len(q) = m /\ Len(q1) = m  BY <1>4 DEF m
    <3>2. lo \in Nat /\ hi \in Int /\ 1 <= lo /\ hi <= m /\ e = lo + n /\ 0 <= e /\ hi + n <= m /\ lo <= hi + 1
        /\ hi + 1 = p /\ hi + n + 1 = p - 1 /\ n \in Int  BY <1>1, <1>2
    <3> QED BY <3>1, <3>2
  <2>2. Shown(q1, q, lo, hi + 1, n)  BY <1>8, <2>1
  <2>3. Laid(FALSE, p2, q1, e)  BY <1>12
  <2> HIDE DEF lo, hi, e, n, p2
  <2>4. Laid(FALSE, p2 \o When(lo <= hi, <<Run(r, lo, hi)>>), q1, hi + n + 1)
    BY <1>4, <1>6, <2>1, <2>2, <2>3, LaidWhen
  <2> QED BY <2>1, <2>4 DEF lo, hi
<1>14. Laid(FALSE, p4, q1, p)
  <2> DEFINE e == p - 1
  <2>1. e \in 0 .. Len(q1) /\ e < Len(q1) /\ e + 1 = p  BY <1>1, <1>2, <1>4
  <2>2. Laid(FALSE, p3, q1, e) /\ v(p - 1) = Place(q1, e) /\ v(i) = Place(q1, e + 1)  BY <1>10, <1>13, <2>1
  <2> HIDE DEF p3, e
  <2> QED BY <1>4, <1>6, <2>1, <2>2, LaidLeg
<1>15. Laid(FALSE, p4 \o Remainder(r, v(i), p), q1, Len(q1) + 1)
  <2> DEFINE a == v(i)
  <2>1. p \in 0 .. Len(q) /\ p = p + (Len(q1) - Len(q)) /\ 0 <= p /\ Len(q1) - Len(q) = 0
    <3>1. Len(q) = m /\ Len(q1) = m  BY <1>4 DEF m
    <3>2. p \in 0 .. m /\ p = p + (m - m) /\ 0 <= p /\ m - m = 0  BY <1>1, <1>2
    <3> QED BY <3>1, <3>2
  <2>2. Shown(q1, q, p + 1, Len(q) + 1, Len(q1) - Len(q))  BY <1>9, <2>1 DEF m
  <2>3. a = Place(q1, p) /\ Laid(FALSE, p4, q1, p)  BY <1>10, <1>14
  <2> HIDE DEF a, p4
  <2>4. Laid(FALSE, p4 \o Remainder(r, a, p), q1, Len(q1) + 1)  BY <1>4, <1>6, <2>1, <2>2, <2>3, LaidRest
  <2> QED BY <2>4 DEF a
<1> QED BY <1>3, <1>15

(* The fold of the leaves before a place. *)
LEMMA PrefixFold ==
  ASSUME NEW r, NEW p \in Nat
  PROVE  \E h : Folded("prefix", r.tree.leaves, 0, p, Departures, h) /\ Prefix(r, p) = h[p]
<1> DEFINE L == r.tree.leaves
           F(h) == h = [i \in 0 .. p |-> IF i = 0 THEN Departures ELSE Compose(L[i - 1], h[i - 1])]
           upto == CHOOSE h : F(h)
<1>1. PICK h : Folded("prefix", L, 0, p, Departures, h)
  <2>1. 0 \in Int /\ p \in Int /\ 0 <= p  OBVIOUS
  <2> HIDE DEF L
  <2> QED BY <2>1, FoldExists
<1>2. ASSUME NEW g, NEW i PROVE StepOf("prefix", L, i, g[i - 1]) = Compose(L[i - 1], g[i - 1])
  BY DEF StepOf
<1>3. F(h)
  <2>1. \A i \in 0 .. p : i = 0 \/ i \in 0 + 1 .. p  OBVIOUS
  <2>2. h = [i \in 0 .. p |-> h[i]]
        /\ \A i \in 0 .. p : h[i] = IF i = 0 THEN Departures ELSE Compose(L[i - 1], h[i - 1])
    BY <1>1, <1>2, <2>1 DEF Folded
  <2> HIDE DEF L
  <2> QED BY <2>2
<1>4. F(upto)
  <2> HIDE DEF F
  <2> QED BY <1>3
<1>5. Prefix(r, p) = upto[p]  BY DEF Prefix
<1> HIDE DEF upto
<1>6. Folded("prefix", L, 0, p, Departures, upto)
  <2>1. 0 \in 0 .. p /\ \A i \in 0 + 1 .. p : i \in 0 .. p /\ i # 0  OBVIOUS
  <2> HIDE DEF L
  <2> QED BY <1>2, <1>4, <2>1 DEF Folded
<1> QED BY <1>5, <1>6

(* Leaf 0 begins with the departures already; to begin with them twice changes nothing. *)
LEMMA TwiceSetOff ==
  ASSUME Ready, NEW q \in Seq(Client), NEW x, Spans(FALSE, x, Way(FALSE, q), 0, 1, Dawn, inst.start)
  PROVE  Spans(FALSE, Compose(x, Departures), Way(FALSE, q), 0, 1, Dawn, inst.start)
<1> DEFINE W == Way(FALSE, q)
           d == Dawn
           s == inst.start
           z == Compose(x, Departures)
           G == Lows(FALSE, Departures)
           F == Lows(FALSE, x)
<1>0. s \in Nat  BY StartIs
<1>1. s \in Int  BY <1>0
<1>13. d \in Int /\ s <= d /\ Sound(FALSE, Departures, d, s)  BY DeparturesSound
<1>12. \A t \in DOMAIN Departures : Low(Departures, t) = t  BY DeparturesSound
<1>2. \A t \in DOMAIN Departures : t >= d  BY <1>1, <1>12, <1>13 DEF Sound, Steady, Begins
<1>3. FALSE \in BOOLEAN /\ 0 \in Int /\ 1 \in Int /\ Len(q) \in Nat /\ 0 + 1 = 1 /\ 0 <= 0 /\ 0 <= 1  BY LenProperties
<1>4. W[0] = G /\ Legged(W, 0, Len(q) + 1)  BY <1>3, WayIs
<1>5. Paired(W[0]) /\ Paired(W[1])
  <2>1. 0 \in 0 .. Len(q) + 1 /\ 1 \in 0 .. Len(q) + 1  BY <1>3
  <2> HIDE DEF W
  <2> QED BY <1>4, <2>1 DEF Legged
<1>6. Sound(FALSE, x, d, s) /\ Runs(F, W, 0, 1)
  <2>1. Sound(FALSE, x, IF 0 = 0 THEN d ELSE s, s) /\ Runs(F, W, 0, 1)  BY DEF Spans
  <2> QED BY <2>1
<1>7. Sound(FALSE, z, d, s) /\ Joins(FALSE, z, x, Departures)
  <2>1. \A t \in DOMAIN Departures : Low(Departures, t) >= d  BY <1>1, <1>12, <1>13, <1>2
  <2> HIDE DEF d, s
  <2> QED BY <1>1, <1>12, <1>13, <1>6, <2>1, PlainMergeAt
<1>8. After(G, G) = G
  <2>1. DOMAIN G = DOMAIN Departures /\ \A t \in DOMAIN G : G[t] = <<t, 0>>  BY <1>1, <1>12, <1>13 DEF Lows
  <2>2. G = [t \in DOMAIN G |-> G[t]]  BY DEF Lows
  <2> DEFINE H == After(G, G)
  <2> HIDE DEF G
  <2>3. /\ DOMAIN H = {t \in DOMAIN G : G[t][1] \in DOMAIN G}
        /\ \A t \in DOMAIN H : H[t] = <<G[G[t][1]][1], G[t][2] + G[G[t][1]][2]>>
        /\ H = [t \in DOMAIN H |-> H[t]]
    BY DEF After
  <2> HIDE DEF H
  <2>4. DOMAIN H = DOMAIN G
    <3>1. \A t \in DOMAIN G : G[t][1] = t  BY <2>1
    <3> QED BY <2>3, <3>1
  <2>5. \A t \in DOMAIN G : H[t] = G[t]
    <3> SUFFICES ASSUME NEW t \in DOMAIN G PROVE H[t] = G[t]  OBVIOUS
    <3>1. G[t][1] = t /\ G[t][2] = 0  BY <2>1
    <3>2. H[t] = <<t, 0 + 0>>  BY <2>3, <2>4, <3>1
    <3> QED BY <2>1, <3>2
  <2> QED BY <2>2, <2>3, <2>4, <2>5 DEF H
<1> HIDE DEF W, G, F, z, d, s
<1>9. F = After(W[1], W[0])
  <2>1. Runs(W[0], W, 0, 0)  BY <1>3, RunsOne
  <2>2. Runs(After(W[0 + 1], W[0]), W, 0, 0 + 1)  BY <1>3, <2>1, RunsStep
  <2>3. Runs(After(W[1], W[0]), W, 0, 1)  BY <1>3, <2>2
  <2> QED BY <1>3, <1>6, <2>3, RunsUnique
<1>10. Lows(FALSE, z) = F
  <2>1. Lows(FALSE, z) = After(F, G)  BY <1>7 DEF Joins, F, G
  <2>2. After(After(W[1], W[0]), W[0]) = After(W[1], After(W[0], W[0]))  BY <1>5, AfterGroups
  <2> QED BY <1>4, <1>8, <1>9, <2>1, <2>2
<1>11. Spans(FALSE, z, W, 0, 1, d, s)
  <2>1. 0 \in Nat /\ 1 \in Nat /\ 0 <= 1  OBVIOUS
  <2>2. Sound(FALSE, z, IF 0 = 0 THEN d ELSE s, s)  BY <1>7
  <2> QED BY <1>6, <1>10, <2>1, <2>2 DEF Spans
<1> QED BY <1>11 DEF z, W, d, s

LEMMA PrefixSpans ==
  ASSUME Ready, NEW r, NEW q, Lives(FALSE, r, q), NEW p \in 0 .. Len(q)
  PROVE  Spans(FALSE, Prefix(r, p), Way(FALSE, q), 0, p, Dawn, inst.start)
<1> DEFINE n == Len(q)
           L == LeavesOf(FALSE, q)
           W == Way(FALSE, q)
           d == Dawn
           s == inst.start
<1>1. q \in Seq(Client) /\ q # <<>> /\ n \in Nat /\ FALSE \in BOOLEAN  BY LenProperties DEF Lives
<1>2. r.tree.leaves = L  BY DEF Lives, Tree!Build, LeavesOf
<1>3. Fits(FALSE, L, n, W, d, s)  BY <1>1, LeavesFit
<1>4. p \in Nat /\ p <= n  BY <1>1
<1>5. PICK h : Folded("prefix", L, 0, p, Departures, h) /\ Prefix(r, p) = h[p]  BY <1>2, <1>4, PrefixFold
<1>6. Spans(FALSE, Departures, W, 0, 0, d, s)
  <2>1. PieceOf(FALSE, Setoff) = Departures  BY DEF PieceOf, Piece, Setoff
  <2> QED BY <1>1, <2>1, SetoffSpans
<1>7. ASSUME NEW x, Spans(FALSE, x, W, 0, 1, d, s) PROVE Spans(FALSE, Compose(x, Departures), W, 0, 1, d, s)
  BY <1>1, <1>7, TwiceSetOff
<1> HIDE DEF n, L, W, d, s
<1>8. d \in Int /\ s \in Int /\ s <= d /\ Legged(W, 0, n + 1) /\ \A i \in 0 .. n : Spans(FALSE, L[i], W, First(i), i + 1, d, s)
  BY <1>3 DEF Fits
<1> DEFINE S == {i \in 0 .. p : Spans(FALSE, h[i], W, 0, i, d, s)}
<1>9. 0 \in S
  <2>1. h[0] = Departures /\ 0 \in 0 .. p  BY <1>4, <1>5 DEF Folded
  <2> QED BY <1>6, <2>1
<1>10. ASSUME NEW i \in 0 .. p - 1, i \in S PROVE i + 1 \in S
  <2>1. i + 1 \in 0 + 1 .. p /\ i + 1 \in 0 .. p /\ (i + 1) - 1 = i /\ i \in 0 .. n /\ i + 1 \in Int  BY <1>1, <1>4
  <2>2. h[i + 1] = Compose(L[i], h[i])
    <3> DEFINE j == i + 1
    <3>1. h[j] = StepOf("prefix", L, j, h[j - 1])  BY <1>5, <2>1 DEF Folded
    <3>2. StepOf("prefix", L, j, h[j - 1]) = Compose(L[j - 1], h[j - 1])  BY DEF StepOf
    <3> QED BY <2>1, <3>1, <3>2
  <2>3. Spans(FALSE, h[i], W, 0, i, d, s)  BY <1>10
  <2>4. Spans(FALSE, L[i], W, First(i), i + 1, d, s)  BY <1>8, <2>1
  <2>5. Spans(FALSE, Compose(L[i], h[i]), W, 0, i + 1, d, s)
    <3>1. CASE i = 0
      <4>1. h[i] = Departures  BY <1>5, <3>1 DEF Folded
      <4>2. First(i) = 0 /\ i + 1 = 1  BY <3>1 DEF First
      <4>3. Spans(FALSE, L[i], W, 0, 1, d, s)  BY <2>4, <4>2
      <4> QED BY <1>7, <4>1, <4>2, <4>3
    <3>2. CASE i # 0
      <4>1. First(i) = i + 1  BY <3>2 DEF First
      <4>2. Spans(FALSE, L[i], W, i + 1, i + 1, d, s)  BY <2>4, <4>1
      <4>3. Legged(W, 0, i + 1)
        <5>1. 0 \in Int /\ n + 1 \in Int /\ 0 <= 0 /\ i + 1 <= n + 1  BY <1>1, <2>1
        <5> QED BY <1>8, <2>1, <5>1, LeggedPart
      <4> DEFINE x == L[i]
                 y == h[i]
                 e == i + 1
      <4> HIDE DEF x, y, e
      <4>4. Spans(FALSE, Merge(FALSE, x, y), W, 0, e, d, s)
        <5>1. Spans(FALSE, x, W, i + 1, e, d, s) /\ Spans(FALSE, y, W, 0, i, d, s) /\ Legged(W, 0, e)  BY <2>3, <4>2, <4>3 DEF x, y, e
        <5> QED BY <1>1, <1>8, <5>1, SpansJoin
      <4>5. Merge(FALSE, x, y) = Compose(x, y)  BY DEF Merge
      <4> QED BY <4>4, <4>5 DEF x, y, e
    <3> QED BY <3>1, <3>2
  <2> QED BY <2>1, <2>2, <2>5
<1>11. p \in S
  <2> HIDE DEF S
  <2>1. 0 .. p \subseteq S  BY <1>4, <1>9, <1>10, Induction
  <2> QED BY <1>4, <2>1
<1> QED BY <1>5, <1>11 DEF W, d, s

(* What an insertion is composed of goes the whole way of the route it makes. *)
Inserted(r, p, c) ==
  LET into == Compose(BridgeLeaf(Before(r, p), c), Prefix(r, p))
  IN  IF p < Len(r.vertices)
      THEN Compose(Tree!Query(r.tree, p + 1, Len(r.vertices)), Compose(BridgeLeaf(c, At(r.vertices, p)), into))
      ELSE Compose(ReturnLeaf(c), into)

On(x, q1, e) == Spans(FALSE, x, Way(FALSE, q1), 0, e, Dawn, inst.start)

LEMMA OnMore ==
  ASSUME Ready, NEW q1 \in Seq(Client), NEW x, NEW z, NEW e, NEW f \in Int, f <= Len(q1) + 1,
         On(x, q1, e), Spans(FALSE, z, Way(FALSE, q1), e + 1, f, Dawn, inst.start)
  PROVE  On(Compose(z, x), q1, f)
<1> DEFINE W == Way(FALSE, q1)
           d == Dawn
           s == inst.start
<1>1. s \in Nat  BY StartIs
<1>2. d \in Int /\ s <= d  BY DeparturesSound
<1>3. Len(q1) \in Nat /\ FALSE \in BOOLEAN  BY LenProperties
<1>4. Legged(W, 0, f)
  <2>1. Legged(W, 0, Len(q1) + 1)  BY <1>3, WayIs
  <2>2. 0 \in Int /\ Len(q1) + 1 \in Int /\ 0 <= 0  BY <1>3
  <2> HIDE DEF W
  <2> QED BY <2>1, <2>2, LeggedPart
<1>5. s \in Int  BY <1>1
<1>6. Spans(FALSE, x, W, 0, e, d, s) /\ Spans(FALSE, z, W, e + 1, f, d, s)  BY DEF On
<1> HIDE DEF W, d, s
<1>7. Spans(FALSE, Merge(FALSE, z, x), W, 0, f, d, s)  BY <1>2, <1>3, <1>4, <1>5, <1>6, SpansJoin
<1>8. Merge(FALSE, z, x) = Compose(z, x)  BY DEF Merge
<1> QED BY <1>7, <1>8 DEF On, W, d, s

LEMMA OnLeg ==
  ASSUME Ready, NEW q1 \in Seq(Client), NEW x, NEW e \in 0 .. Len(q1), On(x, q1, e)
  PROVE  /\ e < Len(q1) => On(Compose(BridgeLeaf(Place(q1, e), Place(q1, e + 1)), x), q1, e + 1)
         /\ e = Len(q1) => On(Compose(ReturnLeaf(Place(q1, e)), x), q1, e + 1)
<1>1. Len(q1) \in Nat /\ e + 1 \in Int /\ e + 1 <= Len(q1) + 1 /\ FALSE \in BOOLEAN  BY LenProperties
<1>2. ASSUME e < Len(q1) PROVE On(Compose(BridgeLeaf(Place(q1, e), Place(q1, e + 1)), x), q1, e + 1)
  <2>1. Spans(FALSE, PieceOf(FALSE, Bridge(Place(q1, e), Place(q1, e + 1))), Way(FALSE, q1), e + 1, e + 1, Dawn, inst.start)
    BY <1>1, <1>2, LegSpans
  <2>2. PieceOf(FALSE, Bridge(Place(q1, e), Place(q1, e + 1))) = BridgeLeaf(Place(q1, e), Place(q1, e + 1))
    BY DEF PieceOf, Piece, Bridge
  <2> QED BY <1>1, <2>1, <2>2, OnMore
<1>3. ASSUME e = Len(q1) PROVE On(Compose(ReturnLeaf(Place(q1, e)), x), q1, e + 1)
  <2>1. ~(e < Len(q1))  BY <1>1, <1>3
  <2>2. Spans(FALSE, PieceOf(FALSE, Return(Place(q1, e))), Way(FALSE, q1), e + 1, e + 1, Dawn, inst.start)
    BY <1>1, <2>1, LegSpans
  <2>3. PieceOf(FALSE, Return(Place(q1, e))) = ReturnLeaf(Place(q1, e))  BY DEF PieceOf, Piece, Return
  <2> QED BY <1>1, <2>2, <2>3, OnMore
<1> QED BY <1>2, <1>3

LEMMA InsertReaches ==
  ASSUME Ready, NEW r, NEW q, Lives(FALSE, r, q), NEW p \in 0 .. Len(q), NEW c \in Client, NEW q1, q1 = Insert(q, p, c)
  PROVE  q1 \in Seq(Client) /\ On(Inserted(r, p, c), q1, Len(q1) + 1)
<1> DEFINE m == Len(q)
           N == Len(q1)
           x0 == Prefix(r, p)
           x1 == Compose(BridgeLeaf(Before(r, p), c), x0)
<1>1. r.vertices = q /\ q \in Seq(Client) /\ m \in Nat /\ FALSE \in BOOLEAN  BY LenProperties DEF Lives
<1>2. p \in Int /\ 0 <= p /\ p <= m  BY <1>1
<1>3. /\ q1 \in Seq(Client) /\ N = m + 1
      /\ \A k \in 1 .. m + 1 : q1[k] = IF k <= p THEN q[k] ELSE IF k = p + 1 THEN c ELSE q[k - 1]
  <2>1. p \in 0 .. Len(q) /\ p \in p .. Len(q)  BY <1>1, <1>2
  <2>2. IsPut(Put(q, p, p, c), Client, q, p, p, c)  BY <1>1, <2>1, PutParts
  <2>3. q1 = Put(q, p, p, c)  BY DEF Insert, Put
  <2>4. m - (p - p) + 1 = m + 1 /\ \A k \in 1 .. m + 1 : k + (p - p) - 1 = k - 1  BY <1>1, <1>2
  <2> QED BY <2>2, <2>3, <2>4 DEF IsPut
<1> HIDE DEF m, N
<1>4. Shown(q1, q, 0, p, 0)
  <2>1. ASSUME NEW k \in 0 .. p
        PROVE  \/ k \in 1 .. Len(q) /\ k + 0 \in 1 .. Len(q1) /\ q1[k + 0] = q[k]
               \/ k \notin 1 .. Len(q) /\ k + 0 \notin 1 .. Len(q1)
    <3>1. k + 0 = k /\ (k = 0 \/ (k \in 1 .. m /\ k \in 1 .. m + 1))  BY <1>1, <1>2
    <3>2. k \in 1 .. m + 1 => q1[k] = q[k]  BY <1>2, <1>3
    <3>3. k = 0 => k \notin 1 .. m /\ k \notin 1 .. m + 1  OBVIOUS
    <3> QED BY <1>3, <3>1, <3>2, <3>3 DEF m, N
  <2> QED BY <1>1, <1>3, <2>1, ShownBy
<1>5. Shown(q1, q, p + 1, m + 1, 1)
  <2>1. ASSUME NEW k \in p + 1 .. m + 1
        PROVE  \/ k \in 1 .. Len(q) /\ k + 1 \in 1 .. Len(q1) /\ q1[k + 1] = q[k]
               \/ k \notin 1 .. Len(q) /\ k + 1 \notin 1 .. Len(q1)
    <3> DEFINE j == k + 1
    <3>1. j - 1 = k /\ ~(j <= p) /\ j # p + 1
          /\ ((k = m + 1 /\ k \notin 1 .. m /\ j \notin 1 .. m + 1) \/ (k \in 1 .. m /\ j \in 1 .. m + 1))
      BY <1>1, <1>2
    <3> HIDE DEF j
    <3>2. j \in 1 .. m + 1 => q1[j] = q[k]  BY <1>3, <3>1
    <3> QED BY <1>3, <3>1, <3>2 DEF m, N, j
  <2> QED BY <1>1, <1>3, <2>1, ShownBy
<1>6. On(x0, q1, p)
  <2> DEFINE V == Way(FALSE, q)
             W == Way(FALSE, q1)
             d == Dawn
             s == inst.start
  <2>1. Spans(FALSE, x0, V, 0, p, d, s)  BY PrefixSpans
  <2>2. Alike(W, V, 0, p, 0)
    <3>1. 0 \in Int /\ p \in Int /\ 0 <= 0 /\ 0 <= 0 + 0 /\ p <= m + 1 /\ p + 0 <= N + 1  BY <1>1, <1>2, <1>3
    <3>2. Shown(q1, q, IF 0 = 0 THEN 0 ELSE 0 - 1, p, 0)  BY <1>4
    <3> QED BY <1>1, <1>3, <3>1, <3>2, WayAlike DEF m, N
  <2> HIDE DEF V, W, d, s, x0
  <2>3. Spans(FALSE, x0, W, 0, p, d, s)
    <3>1. 0 \in Int /\ 0 <= 0 + 0 /\ 0 + 0 = 0 /\ p + 0 = p  BY <1>2
    <3>2. Spans(FALSE, x0, W, 0 + 0, p + 0, d, s)  BY <1>1, <2>1, <2>2, <3>1, SpansAlike
    <3> QED BY <3>1, <3>2
  <2> QED BY <2>3 DEF On, W, d, s
<1>7. Before(r, p) = Place(q1, p) /\ Place(q1, p + 1) = c
  <2>1. p + 1 \in 1 .. m + 1 /\ ~(p + 1 <= p)  BY <1>1, <1>2
  <2>2. Place(q1, p + 1) = c  BY <1>3, <2>1, PlaceIs DEF N
  <2>3. CASE p = 0
    <3>1. p \notin 1 .. N  BY <2>3
    <3> QED BY <1>3, <2>2, <2>3, <3>1, PlaceIs DEF Before, N
  <2>4. CASE p # 0
    <3>1. p > 0 /\ (p - 1) + 1 = p /\ p \in 1 .. m + 1  BY <1>1, <1>2, <2>4
    <3>2. Before(r, p) = q[p]  BY <1>1, <3>1 DEF Before, At
    <3>3. Place(q1, p) = q1[p] /\ q1[p] = q[p]  BY <1>2, <1>3, <3>1, PlaceIs DEF N
    <3> QED BY <2>2, <3>2, <3>3
  <2> QED BY <2>3, <2>4
<1>8. On(x1, q1, p + 1)
  <2>1. p \in 0 .. Len(q1) /\ p < Len(q1)  BY <1>1, <1>2, <1>3 DEF N
  <2> HIDE DEF x0
  <2> QED BY <1>3, <1>6, <1>7, <2>1, OnLeg
<1>9. CASE p < m
  <2> DEFINE x2 == Compose(BridgeLeaf(c, At(q, p)), x1)
             e == p + 1
             z == Tree!Query(r.tree, p + 1, m)
  <2>1. e \in 0 .. Len(q1) /\ e < Len(q1) /\ e + 1 = p + 2  BY <1>1, <1>2, <1>3, <1>9 DEF N
  <2>2. Place(q1, e + 1) = At(q, p)
    <3> DEFINE j == p + 2
    <3>1. j \in 1 .. m + 1 /\ ~(j <= p) /\ j # p + 1 /\ j - 1 = p + 1  BY <1>1, <1>2, <1>9
    <3> HIDE DEF j
    <3>2. q1[j] = q[p + 1]  BY <1>3, <3>1
    <3>3. Place(q1, j) = q1[j]  BY <1>3, <3>1, PlaceIs DEF N
    <3> QED BY <2>1, <3>2, <3>3 DEF At, j
  <2>3. On(x1, q1, e) /\ c = Place(q1, e)  BY <1>7, <1>8
  <2> HIDE DEF x1, e
  <2>4. On(x2, q1, e + 1)  BY <1>3, <2>1, <2>2, <2>3, OnLeg
  <2>5. Spans(FALSE, z, Way(FALSE, q1), p + 3, m + 2, Dawn, inst.start)
    <3> DEFINE lo == p + 1
    <3>1. lo \in 1 .. m /\ m \in lo .. m /\ 0 <= lo + 1 /\ m + 1 <= N /\ 1 \in Int /\ lo + 1 + 1 = p + 3 /\ m + 1 + 1 = m + 2
      BY <1>1, <1>2, <1>3, <1>9
    <3>2. Shown(q1, q, lo, m + 1, 1)  BY <1>5
    <3>3. z = PieceOf(FALSE, Run(r, lo, m))  BY DEF PieceOf, Piece, Run
    <3> HIDE DEF z, lo
    <3>4. Spans(FALSE, PieceOf(FALSE, Run(r, lo, m)), Way(FALSE, q1), lo + 1 + 1, m + 1 + 1, Dawn, inst.start)
      BY <1>1, <1>3, <3>1, <3>2, RunSpans DEF m, N
    <3> QED BY <3>1, <3>3, <3>4
  <2>6. On(Compose(z, x2), q1, m + 2)
    <3> HIDE DEF z, x2
    <3>1. (e + 1) + 1 = p + 3 /\ m + 2 \in Int /\ m + 2 <= Len(q1) + 1  BY <1>1, <1>2, <1>3, <2>1 DEF N
    <3>2. Spans(FALSE, z, Way(FALSE, q1), (e + 1) + 1, m + 2, Dawn, inst.start)  BY <2>5, <3>1
    <3> QED BY <1>3, <2>4, <3>1, <3>2, OnMore
  <2>7. Inserted(r, p, c) = Compose(z, x2)  BY <1>1, <1>9 DEF Inserted, m, x1
  <2>8. m + 2 = Len(q1) + 1  BY <1>1, <1>3 DEF N
  <2> QED BY <1>3, <2>6, <2>7, <2>8
<1>10. CASE ~(p < m)
  <2> DEFINE e == p + 1
  <2>1. e \in 0 .. Len(q1) /\ e = Len(q1)  BY <1>1, <1>2, <1>3, <1>10 DEF N
  <2>2. On(x1, q1, e) /\ c = Place(q1, e)  BY <1>7, <1>8
  <2> HIDE DEF x1, e
  <2>3. On(Compose(ReturnLeaf(c), x1), q1, e + 1)  BY <1>3, <2>1, <2>2, OnLeg
  <2>4. Inserted(r, p, c) = Compose(ReturnLeaf(c), x1)  BY <1>1, <1>10 DEF Inserted, m, x1
  <2> QED BY <1>3, <2>1, <2>3, <2>4
<1> QED BY <1>9, <1>10

(* The fold goes the way of its route, leg by leg. *)
LEMMA ReadyFold ==
  ASSUME NEW q, Len(q) \in Nat
  PROVE  \E h : /\ Folded("ready", q, 0, Len(q), Departures, h)
                /\ ReadyTime(q) = Home(Compose(Arc(PlaceAt(q, Len(q)), Depot), h[Len(q)]))
<1> DEFINE n == Len(q)
           F(h) == h = [i \in 0 .. n |-> IF i = 0 THEN Departures
                                         ELSE Serve(q[i], Compose(Arc(PlaceAt(q, i - 1), q[i]), h[i - 1]))]
           ready == CHOOSE h : F(h)
<1>1. PICK h : Folded("ready", q, 0, n, Departures, h)
  <2>1. 0 \in Int /\ n \in Int /\ 0 <= n  OBVIOUS
  <2> HIDE DEF n
  <2> QED BY <2>1, FoldExists
<1>2. ASSUME NEW g, NEW i
      PROVE  StepOf("ready", q, i, g[i - 1]) = Serve(q[i], Compose(Arc(PlaceAt(q, i - 1), q[i]), g[i - 1]))
  BY DEF StepOf
<1>3. F(h)
  <2>1. \A i \in 0 .. n : i = 0 \/ i \in 0 + 1 .. n  OBVIOUS
  <2>2. h = [i \in 0 .. n |-> h[i]]
        /\ \A i \in 0 .. n : h[i] = IF i = 0 THEN Departures
                                    ELSE Serve(q[i], Compose(Arc(PlaceAt(q, i - 1), q[i]), h[i - 1]))
    BY <1>1, <1>2, <2>1 DEF Folded
  <2> HIDE DEF n
  <2> QED BY <2>2
<1>4. F(ready)
  <2> HIDE DEF F
  <2> QED BY <1>3
<1>5. ReadyTime(q) = Home(Compose(Arc(PlaceAt(q, n), Depot), ready[n]))  BY DEF ReadyTime, PlaceAt
<1> HIDE DEF ready
<1>6. Folded("ready", q, 0, n, Departures, ready)
  <2>1. 0 \in 0 .. n /\ \A i \in 0 + 1 .. n : i \in 0 .. n /\ i # 0  OBVIOUS
  <2> HIDE DEF n
  <2> QED BY <1>2, <1>4, <2>1 DEF Folded
<1> QED BY <1>5, <1>6

LEMMA PlaceAtIs ==
  ASSUME NEW q \in Seq(Client), NEW i \in 0 .. Len(q)
  PROVE  PlaceAt(q, i) = Place(q, i)
<1>1. Len(q) \in Nat  BY LenProperties
<1>2. i \notin 1 .. Len(q) => i = 0  BY <1>1
<1>3. i = 0 => i \notin 1 .. Len(q)  OBVIOUS
<1> QED BY <1>2, <1>3 DEF PlaceAt, Place

(* One leg further: what a fold knows at a stop, and at the next. *)
Further(w, z, x, F, W, k, b) ==
  /\ Sound(w, z, b, inst.start) /\ Lows(w, z) = After(W[k + 1], Lows(FALSE, x))
  /\ Runs(After(W[k + 1], F), W, 0, k + 1)

LEMMA LegFurther ==
  ASSUME Ready, NEW q \in Seq(Client), NEW k \in 0 .. Len(q), NEW b \in Int, inst.start <= b, NEW x,
         Sound(FALSE, x, b, inst.start), NEW w \in BOOLEAN, NEW F, Runs(F, Way(w, q), 0, k),
         NEW z, z = Attended(w, Place(q, k + 1), Compose(Arc(PlaceAt(q, k), Place(q, k + 1)), x))
  PROVE  Further(w, z, x, F, Way(w, q), k, b)
<1> DEFINE W == Way(w, q)
           a == Place(q, k)
           v == Place(q, k + 1)
<1>1. Len(q) \in Nat  BY LenProperties
<1>2. k + 1 \in 1 .. Len(q) + 1 /\ (k + 1) - 1 = k /\ k \in Int /\ 0 \in Int /\ 0 <= k  BY <1>1
<1>3. W[k + 1] = Leg(w, a, v)
  <2>1. W[k + 1] = Leg(w, Place(q, (k + 1) - 1), Place(q, k + 1))  BY <1>2, WayIs
  <2> QED BY <1>2, <2>1
<1>4. a \in Stop /\ v \in Stop /\ PlaceAt(q, k) = a  BY PlaceIs, PlaceAtIs
<1> HIDE DEF W, a, v
<1>5. Sound(w, z, b, inst.start) /\ Lows(w, z) = After(Leg(w, a, v), Lows(FALSE, x))
  <2>1. z = Attended(w, v, Compose(Arc(a, v), x))  BY <1>4 DEF v
  <2>2. Sound(w, Attended(w, v, Compose(Arc(a, v), x)), b, inst.start)
        /\ Steps(w, Attended(w, v, Compose(Arc(a, v), x)), a, v, x)
    BY <1>4, Onwards
  <2> QED BY <2>1, <2>2 DEF Steps
<1>6. Runs(After(W[k + 1], F), W, 0, k + 1)
  <2>1. Runs(F, W, 0, k)  BY DEF W
  <2> QED BY <1>2, <2>1, RunsStep
<1> QED BY <1>3, <1>5, <1>6 DEF Further, W, a, v

(* A running fold: at every stop, sound and on the way. *)
Going(w, x, q, k) == Sound(w, x, Dawn, inst.start) /\ Runs(Lows(w, x), Way(w, q), 0, k)

LEMMA GoingOn ==
  ASSUME NEW w, NEW x, NEW q, NEW k \in Nat
  PROVE  Going(w, x, q, k) <=> Spans(w, x, Way(w, q), 0, k, Dawn, inst.start)
<1>1. 0 \in Nat /\ 0 <= k  OBVIOUS
<1> DEFINE d == Dawn
           s == inst.start
           W == Way(w, q)
<1> HIDE DEF d, s, W
<1>2. (Sound(w, x, d, s) /\ Runs(Lows(w, x), W, 0, k)) <=> Spans(w, x, W, 0, k, d, s)  BY <1>1 DEF Spans
<1> QED BY <1>2 DEF Going, d, s, W

LEMMA GoingFirst ==
  ASSUME Ready, NEW w \in BOOLEAN, NEW q \in Seq(Client)
  PROVE  Going(w, IF w THEN OnTimeAlways(Departures) ELSE Departures, q, 0)
<1>1. Spans(w, PieceOf(w, Setoff), Way(w, q), 0, 0, Dawn, inst.start)  BY SetoffSpans
<1>2. PieceOf(w, Setoff) = IF w THEN OnTimeAlways(Departures) ELSE Departures  BY DEF PieceOf, Piece, WarpPiece, Setoff
<1>3. 0 \in Nat  OBVIOUS
<1> QED BY <1>1, <1>2, <1>3, GoingOn

LEMMA GoingPlain ==
  ASSUME Ready, NEW q \in Seq(Client), NEW k \in 0 .. Len(q), NEW x, Going(FALSE, x, q, k),
         NEW z, z = Attended(FALSE, Place(q, k + 1), Compose(Arc(PlaceAt(q, k), Place(q, k + 1)), x))
  PROVE  Going(FALSE, z, q, k + 1)
<1> DEFINE d == Dawn
           s == inst.start
           W == Way(FALSE, q)
           F == Lows(FALSE, x)
<1>1. d \in Int /\ s <= d /\ FALSE \in BOOLEAN  BY DeparturesSound
<1>2. Sound(FALSE, x, d, s) /\ Runs(F, W, 0, k)  BY DEF Going
<1> HIDE DEF d, F
<1>3. Further(FALSE, z, x, F, W, k, d)
  BY <1>1, <1>2, LegFurther
<1> HIDE DEF W
<1>4. Sound(FALSE, z, d, s) /\ Runs(Lows(FALSE, z), W, 0, k + 1)  BY <1>3 DEF F, Further
<1> QED BY <1>4 DEF Going, d, s, W

LEMMA ReadySpans ==
  ASSUME Ready, NEW q \in Seq(Client)
  PROVE  On(ReadyTime(q), q, Len(q) + 1)
<1> DEFINE n == Len(q)
<1>1. n \in Nat  BY LenProperties
<1>2. PICK h : /\ Folded("ready", q, 0, n, Departures, h)
               /\ ReadyTime(q) = Home(Compose(Arc(PlaceAt(q, n), Depot), h[n]))
  BY <1>1, ReadyFold
<1> DEFINE S == {i \in 0 .. n : Going(FALSE, h[i], q, i)}
<1>3. 0 \in S
  <2>1. h[0] = Departures /\ 0 \in 0 .. n /\ FALSE \in BOOLEAN  BY <1>1, <1>2 DEF Folded
  <2>2. Going(FALSE, IF FALSE THEN OnTimeAlways(Departures) ELSE Departures, q, 0)  BY <2>1, GoingFirst
  <2> QED BY <2>1, <2>2
<1>4. ASSUME NEW i \in 0 .. n - 1, i \in S PROVE i + 1 \in S
  <2>1. i + 1 \in 0 + 1 .. n /\ i + 1 \in 1 .. n /\ i + 1 \in 0 .. n /\ (i + 1) - 1 = i /\ i \in 0 .. n  BY <1>1
  <2>2. Place(q, i + 1) = q[i + 1] /\ q[i + 1] \in Client /\ q[i + 1] # Depot
    <3>1. Place(q, i + 1) = q[i + 1] /\ q[i + 1] \in Client  BY <2>1, PlaceIs
    <3> QED BY <3>1, RouteEvalAssumption
  <2>3. h[i + 1] = Serve(q[i + 1], Compose(Arc(PlaceAt(q, i), q[i + 1]), h[i]))
    <3> DEFINE j == i + 1
    <3>1. h[j] = StepOf("ready", q, j, h[j - 1])  BY <1>2, <2>1 DEF Folded
    <3>2. StepOf("ready", q, j, h[j - 1]) = Serve(q[j], Compose(Arc(PlaceAt(q, j - 1), q[j]), h[j - 1]))  BY DEF StepOf
    <3> QED BY <2>1, <3>1, <3>2
  <2>4. h[i + 1] = Attended(FALSE, Place(q, i + 1), Compose(Arc(PlaceAt(q, i), Place(q, i + 1)), h[i]))
    BY <2>2, <2>3 DEF Attended
  <2>5. Going(FALSE, h[i], q, i)  BY <1>4
  <2>6. Going(FALSE, h[i + 1], q, i + 1)  BY <2>1, <2>4, <2>5, GoingPlain
  <2> QED BY <2>1, <2>6
<1>5. n \in S
  <2> HIDE DEF S, n
  <2>0. 0 \in Int /\ n \in Int  BY <1>1
  <2>1. 0 .. n \subseteq S  BY <2>0, <1>3, <1>4, Induction
  <2> QED BY <1>1, <2>1
<1>6. Going(FALSE, ReadyTime(q), q, n + 1)
  <2>1. Place(q, n + 1) = Depot /\ n \in 0 .. n
    <3>1. n + 1 \notin 1 .. n  BY <1>1
    <3> QED BY <1>1, <3>1, PlaceIs
  <2>2. ReadyTime(q) = Attended(FALSE, Place(q, n + 1), Compose(Arc(PlaceAt(q, n), Place(q, n + 1)), h[n]))
    BY <1>2, <2>1 DEF Attended
  <2>3. Going(FALSE, h[n], q, n)  BY <1>5
  <2> QED BY <2>1, <2>2, <2>3, GoingPlain
<1>7. n + 1 \in Nat  BY <1>1
<1> QED BY <1>6, <1>7, GoingOn DEF On

(* The fold with lateness goes the way too.  Lateness is added up over the departures
   that were left a stop before: it is known for at least as many as the ready time. *)
LEMMA BookedFold ==
  ASSUME NEW q, Len(q) \in Nat
  PROVE  Folded("booked", q, 0, Len(q), OnTimeAlways(Departures), Booked(q))
<1> DEFINE n == Len(q)
           B == OnTimeAlways(Departures)
           F(h) == h = [i \in 0 .. n |-> IF i = 0 THEN B
                                         ELSE Book(h[i - 1], ServeLate(q[i], Compose(Arc(PlaceAt(q, i - 1), q[i]), h[i - 1].rho)))]
           fold == CHOOSE h : F(h)
<1>1. PICK h : Folded("booked", q, 0, n, B, h)
  <2>1. 0 \in Int /\ n \in Int /\ 0 <= n  OBVIOUS
  <2> HIDE DEF n, B
  <2> QED BY <2>1, FoldExists
<1>2. ASSUME NEW g, NEW i
      PROVE  StepOf("booked", q, i, g[i - 1])
               = Book(g[i - 1], ServeLate(q[i], Compose(Arc(PlaceAt(q, i - 1), q[i]), g[i - 1].rho)))
  BY DEF StepOf
<1>3. F(h)
  <2>1. \A i \in 0 .. n : i = 0 \/ i \in 0 + 1 .. n  OBVIOUS
  <2> HIDE DEF B
  <2>2. h = [i \in 0 .. n |-> h[i]]
        /\ \A i \in 0 .. n : h[i] = IF i = 0 THEN B
                                    ELSE Book(h[i - 1], ServeLate(q[i], Compose(Arc(PlaceAt(q, i - 1), q[i]), h[i - 1].rho)))
    BY <1>1, <1>2, <2>1 DEF Folded
  <2> HIDE DEF n
  <2> QED BY <2>2
<1>4. F(fold)
  <2> HIDE DEF F
  <2> QED BY <1>3
<1>5. Booked(q) = fold  BY DEF Booked
<1> HIDE DEF fold, B
<1>6. Folded("booked", q, 0, n, B, fold)
  <2>1. 0 \in 0 .. n /\ \A i \in 0 + 1 .. n : i \in 0 .. n /\ i # 0  OBVIOUS
  <2> HIDE DEF n
  <2> QED BY <1>2, <1>4, <2>1 DEF Folded
<1> QED BY <1>5, <1>6 DEF B

Booking(F, b, s) ==
  /\ Steady(F.rho, b) /\ Onward(F.rho, s) /\ Steady(F.omega, b)
  /\ DOMAIN F.rho \subseteq DOMAIN F.omega
  /\ \A t \in DOMAIN F.rho : Low(F.omega, t) >= 0

Reckons(H, L, F) == Lows(TRUE, H) = After(L, Lows(TRUE, F))

LEMMA BookStep ==
  ASSUME NEW s, NEW b \in Int, NEW F, Booking(F, b, s), NEW z, Sound(TRUE, z, b, s),
         NEW L, Paired(L), Lows(TRUE, z) = After(L, Lows(FALSE, F.rho)),
         ~inst.windows => \A t \in DOMAIN z.omega : Low(z.omega, t) = 0
  PROVE  Booking(Book(F, z), b, s) /\ Reckons(Book(F, z), L, F)
<1> DEFINE H == Book(F, z)
           r == F.rho
           o == F.omega
           u == z.rho
           p == z.omega
           v == H.omega
           K == Lows(FALSE, r)
           G == Lows(TRUE, F)
<1>1. /\ Steady(r, b) /\ Steady(o, b) /\ DOMAIN r \subseteq DOMAIN o
      /\ \A t \in DOMAIN r : Low(o, t) >= 0
  BY DEF Booking
<1>2. Steady(u, b) /\ Onward(u, s) /\ Steady(p, b) /\ DOMAIN p = DOMAIN u /\ \A t \in DOMAIN u : Low(p, t) >= 0
  BY DEF Sound
<1>3. H.rho = u /\ v = IF inst.windows THEN Add(o, p) ELSE o  BY DEF Book
<1>4. Lows(TRUE, z) = [t \in DOMAIN u |-> <<Low(u, t), Low(p, t)>>]  BY DEF Lows
<1>5. K = [t \in DOMAIN r |-> <<Low(r, t), 0>>] /\ G = [t \in DOMAIN r |-> <<Low(r, t), Low(o, t)>>]  BY DEF Lows
<1>6. Lows(TRUE, H) = [t \in DOMAIN u |-> <<Low(u, t), Low(v, t)>>]  BY <1>3 DEF Lows
<1> DEFINE A == After(L, K)
           R == After(L, G)
<1>7. A = [t \in {y \in DOMAIN K : K[y][1] \in DOMAIN L} |-> <<L[K[t][1]][1], K[t][2] + L[K[t][1]][2]>>]
      /\ R = [t \in {y \in DOMAIN G : G[y][1] \in DOMAIN L} |-> <<L[G[t][1]][1], G[t][2] + L[G[t][1]][2]>>]
  BY DEF After
<1>8. Lows(TRUE, z) = A  OBVIOUS
<1> HIDE DEF H, r, o, u, p, v, K, G, A, R
<1>9. DOMAIN u = {y \in DOMAIN r : Low(r, y) \in DOMAIN L}
  <2>1. DOMAIN A = {y \in DOMAIN K : K[y][1] \in DOMAIN L}  BY <1>7
  <2>2. DOMAIN K = DOMAIN r /\ \A y \in DOMAIN r : K[y][1] = Low(r, y)  BY <1>5
  <2>3. DOMAIN A = DOMAIN u  BY <1>4, <1>8
  <2> QED BY <2>1, <2>2, <2>3
<1>10. DOMAIN R = DOMAIN u
  <2>1. DOMAIN R = {y \in DOMAIN G : G[y][1] \in DOMAIN L}  BY <1>7
  <2>2. DOMAIN G = DOMAIN r /\ \A y \in DOMAIN r : G[y][1] = Low(r, y)  BY <1>5
  <2> QED BY <1>9, <2>1, <2>2
<1>11. ASSUME NEW t \in DOMAIN u
       PROVE  /\ t \in DOMAIN r /\ Low(u, t) = L[Low(r, t)][1] /\ Low(p, t) = L[Low(r, t)][2]
              /\ R[t] = <<L[Low(r, t)][1], Low(o, t) + L[Low(r, t)][2]>>
              /\ L[Low(r, t)][2] \in Int
  <2>1. t \in DOMAIN r /\ Low(r, t) \in DOMAIN L  BY <1>9
  <2>2. K[t] = <<Low(r, t), 0>> /\ G[t] = <<Low(r, t), Low(o, t)>>  BY <1>5, <2>1
  <2>3. L[Low(r, t)][2] \in Int  BY <2>1 DEF Paired
  <2>4. A[t] = <<L[Low(r, t)][1], 0 + L[Low(r, t)][2]>>
    <3>1. t \in DOMAIN K /\ K[t][1] \in DOMAIN L  BY <1>5, <2>1, <2>2
    <3> QED BY <1>7, <2>2, <3>1
  <2>5. A[t] = <<Low(u, t), Low(p, t)>>  BY <1>4, <1>8
  <2>6. R[t] = <<L[Low(r, t)][1], Low(o, t) + L[Low(r, t)][2]>>
    <3>1. t \in DOMAIN G /\ G[t][1] \in DOMAIN L  BY <1>5, <2>1, <2>2
    <3> QED BY <1>7, <2>2, <3>1
  <2> QED BY <2>1, <2>3, <2>4, <2>5, <2>6
<1>12. Steady(v, b) /\ DOMAIN u \subseteq DOMAIN v /\ \A t \in DOMAIN u : Low(v, t) = Low(o, t) + Low(p, t)
  <2>1. CASE inst.windows
    <3>1. v = Add(o, p)  BY <1>3, <2>1
    <3>2. Sums(Add(o, p), o, p) /\ Steady(Add(o, p), b)  BY <1>1, <1>2, AddSteady
    <3> QED BY <1>1, <1>2, <1>9, <3>1, <3>2 DEF Sums
  <2>2. CASE ~inst.windows
    <3>1. v = o  BY <1>3, <2>2
    <3>2. \A t \in DOMAIN u : Low(p, t) = 0  BY <1>2, <2>2 DEF p
    <3>3. \A t \in DOMAIN u : Low(o, t) \in Int  BY <1>1, <1>9, SteadyLow
    <3> QED BY <1>1, <1>9, <3>1, <3>2, <3>3
  <2> QED BY <2>1, <2>2
<1>13. Booking(H, b, s)
  <2>1. ASSUME NEW t \in DOMAIN u PROVE Low(v, t) >= 0
    <3>1. Low(o, t) >= 0 /\ Low(p, t) >= 0 /\ Low(o, t) \in Int /\ Low(p, t) \in Int
      BY <1>1, <1>2, <1>11, SteadyLow
    <3> QED BY <1>12, <3>1
  <2> QED BY <1>2, <1>3, <1>12, <2>1 DEF Booking, v
<1>14. Lows(TRUE, H) = R
  <2>1. R = [t \in DOMAIN u |-> R[t]]  BY <1>7, <1>10
  <2>2. \A t \in DOMAIN u : R[t] = <<Low(u, t), Low(v, t)>>  BY <1>11, <1>12
  <2> QED BY <1>6, <2>1, <2>2
<1> QED BY <1>13, <1>14 DEF Reckons, H, R, G

(* Without windows nothing is ever booked. *)
LEMMA NothingBooked ==
  ASSUME NEW v, NEW x, ~inst.windows, NEW z, z = Attended(TRUE, v, x)
  PROVE  \A t \in DOMAIN z.omega : Low(z.omega, t) = 0
<1>1. \A r : \A t \in DOMAIN OnTimeAlways(r).omega : Low(OnTimeAlways(r).omega, t) = 0
  BY DEF OnTimeAlways, None, ZeroOn, Smooth, Low
<1>2. \A t \in DOMAIN NoSegment.omega : Low(NoSegment.omega, t) = 0  BY DEF NoSegment, None
<1>3. z = NoSegment \/ \E r : z = OnTimeAlways(r)  BY DEF Attended, HomeLate, ServeLate
<1> QED BY <1>1, <1>2, <1>3

(* A running fold with lateness. *)
Late(F, q, k) == Booking(F, Dawn, inst.start) /\ Runs(Lows(TRUE, F), Way(TRUE, q), 0, k)

LEMMA SoundBooks ==
  ASSUME NEW F, NEW b, NEW s, Sound(TRUE, F, b, s)
  PROVE  Booking(F, b, s)
BY DEF Booking, Sound

LEMMA LateStep ==
  ASSUME Ready, NEW q \in Seq(Client), NEW k \in 0 .. Len(q), NEW F, Late(F, q, k),
         NEW z, z = Attended(TRUE, Place(q, k + 1), Compose(Arc(PlaceAt(q, k), Place(q, k + 1)), F.rho))
  PROVE  Late(Book(F, z), q, k + 1)
<1> DEFINE d == Dawn
           s == inst.start
           W == Way(TRUE, q)
           G == Lows(TRUE, F)
           L == W[k + 1]
<1>1. d \in Int /\ s <= d /\ TRUE \in BOOLEAN  BY DeparturesSound
<1>2. Booking(F, d, s) /\ Runs(G, W, 0, k)  BY DEF Late
<1>3. Sound(FALSE, F.rho, d, s)  BY <1>2 DEF Booking, Sound
<1> HIDE DEF d, G
<1>4. Further(TRUE, z, F.rho, G, W, k, d)  BY <1>1, <1>2, <1>3, LegFurther
<1>5. Paired(L)
  <2>1. Len(q) \in Nat  BY LenProperties
  <2>2. k + 1 \in 0 .. Len(q) + 1  BY <2>1
  <2>3. Legged(W, 0, Len(q) + 1)  BY <1>1, WayIs
  <2> HIDE DEF W
  <2> QED BY <2>2, <2>3 DEF Legged
<1>6. ~inst.windows => \A t \in DOMAIN z.omega : Low(z.omega, t) = 0
  <2>1. ASSUME ~inst.windows PROVE \A t \in DOMAIN z.omega : Low(z.omega, t) = 0  BY <2>1, NothingBooked
  <2> QED BY <2>1
<1> HIDE DEF W
<1>7. Sound(TRUE, z, d, s) /\ Lows(TRUE, z) = After(L, Lows(FALSE, F.rho)) /\ Runs(After(L, G), W, 0, k + 1)
  BY <1>4 DEF Further
<1> HIDE DEF s, L
<1>8. Booking(Book(F, z), d, s) /\ Reckons(Book(F, z), L, F)  BY <1>1, <1>2, <1>5, <1>6, <1>7, BookStep
<1>9. Runs(Lows(TRUE, Book(F, z)), W, 0, k + 1)  BY <1>7, <1>8 DEF Reckons, G
<1> QED BY <1>8, <1>9 DEF Late, d, s, W

LEMMA LateFold ==
  ASSUME Ready, NEW q \in Seq(Client)
  PROVE  Late(Back(q), q, Len(q) + 1)
<1> DEFINE n == Len(q)
           h == Booked(q)
<1>1. n \in Nat  BY LenProperties
<1>2. Folded("booked", q, 0, n, OnTimeAlways(Departures), h)  BY <1>1, BookedFold
<1> HIDE DEF h
<1> DEFINE S == {i \in 0 .. n : Late(h[i], q, i)}
<1>3. 0 \in S
  <2>1. h[0] = OnTimeAlways(Departures) /\ 0 \in 0 .. n /\ TRUE \in BOOLEAN  BY <1>1, <1>2 DEF Folded
  <2>2. Going(TRUE, IF TRUE THEN OnTimeAlways(Departures) ELSE Departures, q, 0)  BY <2>1, GoingFirst
  <2>3. Late(h[0], q, 0)  BY <2>1, <2>2, SoundBooks DEF Going, Late
  <2> QED BY <2>1, <2>3
<1>4. ASSUME NEW i \in 0 .. n - 1, i \in S PROVE i + 1 \in S
  <2>1. i + 1 \in 0 + 1 .. n /\ i + 1 \in 1 .. n /\ i + 1 \in 0 .. n /\ (i + 1) - 1 = i /\ i \in 0 .. n  BY <1>1
  <2>2. Place(q, i + 1) = q[i + 1] /\ q[i + 1] \in Client /\ q[i + 1] # Depot
    <3>1. Place(q, i + 1) = q[i + 1] /\ q[i + 1] \in Client  BY <2>1, PlaceIs
    <3> QED BY <3>1, RouteEvalAssumption
  <2>3. h[i + 1] = Book(h[i], ServeLate(q[i + 1], Compose(Arc(PlaceAt(q, i), q[i + 1]), h[i].rho)))
    <3> DEFINE j == i + 1
    <3>1. h[j] = StepOf("booked", q, j, h[j - 1])  BY <1>2, <2>1 DEF Folded
    <3>2. StepOf("booked", q, j, h[j - 1])
            = Book(h[j - 1], ServeLate(q[j], Compose(Arc(PlaceAt(q, j - 1), q[j]), h[j - 1].rho)))
      BY DEF StepOf
    <3> QED BY <2>1, <3>1, <3>2
  <2> DEFINE z == Attended(TRUE, Place(q, i + 1), Compose(Arc(PlaceAt(q, i), Place(q, i + 1)), h[i].rho))
  <2>4. h[i + 1] = Book(h[i], z)  BY <2>2, <2>3 DEF Attended
  <2>5. Late(h[i], q, i)  BY <1>4
  <2>6. Late(Book(h[i], z), q, i + 1)  BY <2>1, <2>5, LateStep
  <2> QED BY <2>1, <2>4, <2>6
<1>5. n \in S
  <2> HIDE DEF S, n
  <2>0. 0 \in Int /\ n \in Int  BY <1>1
  <2>1. 0 .. n \subseteq S  BY <2>0, <1>3, <1>4, Induction
  <2> QED BY <1>1, <2>1
<1>6. Late(Back(q), q, n + 1)
  <2>1. Place(q, n + 1) = Depot /\ n \in 0 .. n
    <3>1. n + 1 \notin 1 .. n  BY <1>1
    <3> QED BY <1>1, <3>1, PlaceIs
  <2> DEFINE z == Attended(TRUE, Place(q, n + 1), Compose(Arc(PlaceAt(q, n), Place(q, n + 1)), h[n].rho))
  <2>2. Back(q) = Book(h[n], z)  BY <2>1 DEF Attended, Back, h
  <2>3. Late(h[n], q, n)  BY <1>5
  <2>4. Late(Book(h[n], z), q, n + 1)  BY <2>1, <2>3, LateStep
  <2> QED BY <2>2, <2>4
<1> QED BY <1>6

(* Cut down to the departures that are left. *)
LEMMA WarpSpans ==
  ASSUME Ready, NEW q \in Seq(Client)
  PROVE  Spans(TRUE, WarpFold(q), Way(TRUE, q), 0, Len(q) + 1, Dawn, inst.start)
<1> DEFINE d == Dawn
           s == inst.start
           W == Way(TRUE, q)
           F == Back(q)
           r == F.rho
           o == F.omega
           E == ZeroOn(Start(r), End(r))
           u == Add(o, E)
           x == WarpFold(q)
           n == Len(q) + 1
<1>1. d \in Int /\ s <= d  BY DeparturesSound
<1>2. Late(F, q, n)  BY LateFold
<1>3. n \in Nat
  <2>1. Len(q) \in Nat  BY LenProperties
  <2> QED BY <2>1
<1>4. x = IF Void(r) THEN NoSegment ELSE [F EXCEPT !.omega = u]  BY WarpFoldIs
<1>5. F = [rho |-> r, omega |-> o]  BY DEF Back, Book
<1>6. /\ Steady(r, d) /\ Onward(r, s) /\ Steady(o, d) /\ DOMAIN r \subseteq DOMAIN o
      /\ \A t \in DOMAIN r : Low(o, t) >= 0
      /\ Runs(Lows(TRUE, F), W, 0, n)
  <2> HIDE DEF F, d, s, W, n
  <2>1. Booking(F, d, s) /\ Runs(Lows(TRUE, F), W, 0, n)  BY <1>2 DEF Late, d, s, W
  <2> QED BY <2>1 DEF Booking
<1>7. Lows(TRUE, F) = [t \in DOMAIN r |-> <<Low(r, t), Low(o, t)>>]  BY DEF Lows
<1> HIDE DEF F, d, s, W, n, x
<1>8. ASSUME Void(r) PROVE Sound(TRUE, x, d, s) /\ Runs(Lows(TRUE, x), W, 0, n)
  <2>1. x = NoSegment /\ Sound(TRUE, x, d, s)  BY <1>4, <1>8, NoSegmentIs
  <2>2. Lows(TRUE, x) = [t \in {} |-> <<Low(None, t), Low(None, t)>>]  BY <2>1 DEF Lows, NoSegment, None
  <2>3. Lows(TRUE, x) = Lows(TRUE, F)
    <3>1. DOMAIN r = {}  BY <1>8 DEF Void
    <3> QED BY <1>7, <2>2, <3>1
  <2> QED BY <1>6, <2>1, <2>3
<1>9. ASSUME ~Void(r) PROVE Sound(TRUE, x, d, s) /\ Runs(Lows(TRUE, x), W, 0, n)
  <2>1. PICK e \in Int : d <= e /\ DOMAIN r = d .. e  BY <1>6, <1>9 DEF Steady, Void, Begins
  <2>2. Start(r) = d /\ End(r) = e  BY <1>1, <2>1, Interval DEF Start, End
  <2>3. E = [t \in d .. e |-> <<0, 0>>]  BY <2>2 DEF ZeroOn, Smooth
  <2>4. x.rho = r /\ x.omega = u
    <3>1. x = [F EXCEPT !.omega = u]  BY <1>4, <1>9
    <3> HIDE DEF u
    <3>2. x = [[rho |-> r, omega |-> o] EXCEPT !.omega = u]  BY <3>1, <1>5
    <3> QED BY <3>2
  <2> HIDE DEF E
  <2>5. Steady(E, d)
    <3>1. \A t \in d .. e : Low(E, t) \in Int /\ E[t] = <<Low(E, t), Low(E, t)>>  BY <2>3 DEF Low
    <3>2. \A t, y \in d .. e : t <= y => Low(E, t) <= Low(E, y)  BY <2>3 DEF Low
    <3>3. DOMAIN E = d .. e /\ E = [t \in DOMAIN E |-> E[t]]  BY <2>3
    <3> QED BY <1>1, <3>1, <3>2, <3>3, LevelSteady
  <2>6. Sums(Add(o, E), o, E) /\ Steady(Add(o, E), d)
    <3> HIDE DEF r, o
    <3> QED BY <1>1, <1>6, <2>5, AddSteady
  <2>7. DOMAIN E = DOMAIN r /\ \A t \in DOMAIN r : Low(E, t) = 0  BY <2>1, <2>3 DEF Low
  <2>8. DOMAIN u = DOMAIN r /\ \A t \in DOMAIN r : Low(u, t) = Low(o, t)
    <3> HIDE DEF r, o
    <3>1. DOMAIN u = DOMAIN r /\ \A t \in DOMAIN r : Low(u, t) = Low(o, t) + 0  BY <1>6, <2>6, <2>7 DEF Sums
    <3>2. \A t \in DOMAIN r : Low(o, t) \in Int  BY <1>6, SteadyLow
    <3> QED BY <3>1, <3>2
  <2> HIDE DEF r, o, u
  <2>9. Sound(TRUE, x, d, s)  BY <1>6, <2>4, <2>6, <2>8 DEF Sound, u
  <2>10. Lows(TRUE, x) = Lows(TRUE, F)
    <3>1. Lows(TRUE, x) = [t \in DOMAIN r |-> <<Low(r, t), Low(u, t)>>]  BY <2>4 DEF Lows
    <3> QED BY <1>7, <2>8, <3>1
  <2> QED BY <1>6, <2>9, <2>10
<1>10. Sound(TRUE, x, d, s) /\ Runs(Lows(TRUE, x), W, 0, n)  BY <1>8, <1>9
<1>11. Going(TRUE, x, q, n)  BY <1>10 DEF Going, d, s, W
<1>12. Spans(TRUE, x, Way(TRUE, q), 0, n, Dawn, inst.start)  BY <1>3, <1>11, GoingOn
<1> QED BY <1>12 DEF x, n

(* An evaluation depends on what it reads alone. *)
LEMMA MinShiftSame ==
  ASSUME NEW x, NEW y, NEW D, \A t \in D : Low(x, t) = Low(y, t)
  PROVE  MinShift(x, D) = MinShift(y, D)
<1>1. {Low(x, t) - t : t \in D} = {Low(y, t) - t : t \in D}  OBVIOUS
<1>2. \A k : {t \in D : Low(x, t) - t = k} = {t \in D : Low(y, t) - t = k}  OBVIOUS
<1> QED BY <1>1, <1>2 DEF MinShift

LEMMA EvaluationReads ==
  ASSUME NEW x, NEW y, Lows(FALSE, x) = Lows(FALSE, y)
  PROVE  Evaluation(x) = Evaluation(y)
<1>1. DOMAIN x = DOMAIN y /\ \A t \in DOMAIN x : Low(x, t) = Low(y, t)
  <2>1. Lows(FALSE, x) = [t \in DOMAIN x |-> <<Low(x, t), 0>>] /\ Lows(FALSE, y) = [t \in DOMAIN y |-> <<Low(y, t), 0>>]
    BY DEF Lows
  <2> DEFINE F == [t \in DOMAIN x |-> <<Low(x, t), 0>>]
             G == [t \in DOMAIN y |-> <<Low(y, t), 0>>]
  <2>2. F = G  BY <2>1
  <2>3. DOMAIN F = DOMAIN x /\ DOMAIN G = DOMAIN y
        /\ \A t \in DOMAIN x : F[t] = <<Low(x, t), 0>> /\ \A u \in DOMAIN y : G[u] = <<Low(y, u), 0>>
    OBVIOUS
  <2> HIDE DEF F, G
  <2>4. DOMAIN x = DOMAIN y  BY <2>2, <2>3
  <2>5. ASSUME NEW t \in DOMAIN x PROVE Low(x, t) = Low(y, t)
    <3>1. F[t] = <<Low(x, t), 0>> /\ G[t] = <<Low(y, t), 0>>  BY <2>3, <2>4
    <3> QED BY <2>2, <3>1
  <2> QED BY <2>4, <2>5
<1>2. MinShift(x, DOMAIN x) = MinShift(y, DOMAIN x)  BY <1>1, MinShiftSame
<1> QED BY <1>1, <1>2 DEF Evaluation, Void

LEMMA LowsSame ==
  ASSUME NEW x, NEW y, Lows(TRUE, x) = Lows(TRUE, y)
  PROVE  /\ DOMAIN x.rho = DOMAIN y.rho
         /\ \A t \in DOMAIN x.rho : Low(x.rho, t) = Low(y.rho, t) /\ Low(x.omega, t) = Low(y.omega, t)
<1> DEFINE F == [t \in DOMAIN x.rho |-> <<Low(x.rho, t), Low(x.omega, t)>>]
           G == [t \in DOMAIN y.rho |-> <<Low(y.rho, t), Low(y.omega, t)>>]
<1>1. F = G  BY DEF Lows
<1>2. DOMAIN F = DOMAIN x.rho /\ DOMAIN G = DOMAIN y.rho  OBVIOUS
<1>3. \A t \in DOMAIN x.rho : F[t] = <<Low(x.rho, t), Low(x.omega, t)>>  OBVIOUS
<1>4. \A t \in DOMAIN y.rho : G[t] = <<Low(y.rho, t), Low(y.omega, t)>>  OBVIOUS
<1> HIDE DEF F, G
<1>5. DOMAIN x.rho = DOMAIN y.rho  BY <1>1, <1>2
<1>6. ASSUME NEW t \in DOMAIN x.rho PROVE Low(x.rho, t) = Low(y.rho, t) /\ Low(x.omega, t) = Low(y.omega, t)
  <2>1. F[t] = <<Low(x.rho, t), Low(x.omega, t)>> /\ G[t] = <<Low(y.rho, t), Low(y.omega, t)>>  BY <1>3, <1>4, <1>5
  <2> QED BY <1>1, <2>1
<1> QED BY <1>5, <1>6

LEMMA WarpEvaluationReads ==
  ASSUME NEW x, NEW y, NEW b \in Int, NEW s, Sound(TRUE, x, b, s), Sound(TRUE, y, b, s), Lows(TRUE, x) = Lows(TRUE, y), NEW penalty
  PROVE  WarpEvaluation(x, penalty) = WarpEvaluation(y, penalty)
<1> DEFINE r == x.rho
           o == x.omega
           u == y.rho
           p == y.omega
<1>1. DOMAIN r = DOMAIN u /\ \A t \in DOMAIN r : Low(r, t) = Low(u, t) /\ Low(o, t) = Low(p, t)  BY LowsSame
<1>2. DOMAIN o = DOMAIN r /\ DOMAIN p = DOMAIN u
  <2>1. DOMAIN o = DOMAIN r  BY DEF Sound
  <2>2. DOMAIN p = DOMAIN u  BY DEF Sound
  <2> QED BY <2>1, <2>2
<1>3. Steady(r, b)  BY DEF Sound
<1> HIDE DEF r, o, u, p
<1>4. OnTime(o) = OnTime(p)  BY <1>1, <1>2 DEF OnTime
<1>5. MinZeroWarp(r, o) = MinZeroWarp(u, p)
  <2> DEFINE D == {t \in DOMAIN r : \E y1 \in OnTime(o) : t <= y1}
             E == {t \in DOMAIN u : \E y1 \in OnTime(p) : t <= y1}
  <2>1. D = E  BY <1>1, <1>4
  <2>2. MinShift(r, D) = MinShift(u, D)  BY <1>1, MinShiftSame
  <2>3. MinZeroWarp(r, o) = IF D = {} THEN [feasible |-> FALSE, value |-> 0] ELSE [feasible |-> TRUE, value |-> MinShift(r, D).value]
    BY DEF MinZeroWarp
  <2>4. MinZeroWarp(u, p) = IF E = {} THEN [feasible |-> FALSE, value |-> 0] ELSE [feasible |-> TRUE, value |-> MinShift(u, E).value]
    BY DEF MinZeroWarp
  <2> HIDE DEF D, E
  <2> QED BY <2>1, <2>2, <2>3, <2>4
<1>6. MinPenalised(r, o, penalty) = MinPenalised(u, p, penalty)
  <2>1. DOMAIN r \cap DOMAIN o = DOMAIN r /\ DOMAIN u \cap DOMAIN p = DOMAIN r  BY <1>1, <1>2
  <2>2. {Low(r, t) - t + penalty * Low(o, t) : t \in DOMAIN r} = {Low(u, t) - t + penalty * Low(p, t) : t \in DOMAIN r}
    BY <1>1
  <2> QED BY <2>1, <2>2 DEF MinPenalised
<1>7. Start(o) = Start(p)  BY <1>1, <1>2 DEF Start
<1>8. ~Void(r) => Low(o, Start(o)) = Low(p, Start(p))
  <2> SUFFICES ASSUME ~Void(r) PROVE Low(o, Start(o)) = Low(p, Start(p))  OBVIOUS
  <2>1. Start(o) \in DOMAIN r
    <3>1. PICK e \in Int : b <= e /\ DOMAIN r = b .. e  BY <1>3 DEF Steady, Void, Begins
    <3>2. \E t \in DOMAIN r : \A v \in DOMAIN r : t <= v
      <4>1. b \in b .. e  BY <3>1
      <4>2. \A v \in b .. e : b <= v  OBVIOUS
      <4> QED BY <3>1, <4>1, <4>2
    <3>3. Start(o) = Min(DOMAIN r)  BY <1>2 DEF Start
    <3> QED BY <3>2, <3>3 DEF Min
  <2> QED BY <1>1, <1>7, <2>1
<1>9. Void(r) <=> Void(u)  BY <1>1 DEF Void
<1>10. WarpEvaluation(x, penalty) =
         IF Void(r) THEN NotTotal
         ELSE [total |-> TRUE, feasible |-> MinZeroWarp(r, o).feasible, duration |-> MinZeroWarp(r, o).value,
               minWarp |-> Low(o, Start(o)), penalised |-> MinPenalised(r, o, penalty)]
  BY DEF WarpEvaluation, r, o
<1>11. WarpEvaluation(y, penalty) =
         IF Void(u) THEN NotTotal
         ELSE [total |-> TRUE, feasible |-> MinZeroWarp(u, p).feasible, duration |-> MinZeroWarp(u, p).value,
               minWarp |-> Low(p, Start(p)), penalised |-> MinPenalised(u, p, penalty)]
  BY DEF WarpEvaluation, u, p
<1>12. CASE Void(r)  BY <1>9, <1>10, <1>11, <1>12
<1>13. CASE ~Void(r)
  <2> DEFINE A == MinZeroWarp(r, o)
             B == MinPenalised(r, o, penalty)
             C == Low(o, Start(o))
  <2>1. A = MinZeroWarp(u, p) /\ B = MinPenalised(u, p, penalty) /\ C = Low(p, Start(p))  BY <1>5, <1>6, <1>8, <1>13
  <2>2. WarpEvaluation(x, penalty) = [total |-> TRUE, feasible |-> A.feasible, duration |-> A.value, minWarp |-> C, penalised |-> B]
    BY <1>10, <1>13
  <2> HIDE DEF A, B, C
  <2>3. WarpEvaluation(y, penalty) = [total |-> TRUE, feasible |-> A.feasible, duration |-> A.value, minWarp |-> C, penalised |-> B]
    BY <1>9, <1>11, <1>13, <2>1
  <2> QED BY <2>2, <2>3
<1> QED BY <1>12, <1>13

(* Two that span the same stretch evaluate alike. *)
ReadAlike(w, x, y) == Lows(w, x) = Lows(w, y)

LEMMA SpansSame ==
  ASSUME NEW w \in BOOLEAN, NEW x, NEW y, NEW W, NEW e, NEW d, NEW s, Spans(w, x, W, 0, e, d, s), Spans(w, y, W, 0, e, d, s)
  PROVE  Sound(w, x, d, s) /\ Sound(w, y, d, s) /\ ReadAlike(w, x, y)
<1>1. 0 \in Int /\ e \in Int /\ 0 <= e  BY DEF Spans
<1>2. Sound(w, x, d, s) /\ Sound(w, y, d, s)  BY DEF Spans
<1>3. Runs(Lows(w, x), W, 0, e) /\ Runs(Lows(w, y), W, 0, e)  BY DEF Spans
<1> DEFINE F == Lows(w, x)
           G == Lows(w, y)
<1> HIDE DEF F, G
<1>4. Runs(F, W, 0, e) /\ Runs(G, W, 0, e)  BY <1>3 DEF F, G
<1>5. F = G  BY <1>1, <1>4, RunsUnique
<1> QED BY <1>2, <1>5 DEF F, G, ReadAlike

LEMMA SpansPrice ==
  ASSUME NEW x, NEW y, NEW W, NEW e, NEW d \in Int, NEW s
  PROVE  /\ Spans(FALSE, x, W, 0, e, d, s) /\ Spans(FALSE, y, W, 0, e, d, s) => Evaluation(x) = Evaluation(y)
         /\ Spans(TRUE, x, W, 0, e, d, s) /\ Spans(TRUE, y, W, 0, e, d, s) =>
              \A penalty : WarpEvaluation(x, penalty) = WarpEvaluation(y, penalty)
<1>1. ASSUME Spans(FALSE, x, W, 0, e, d, s), Spans(FALSE, y, W, 0, e, d, s) PROVE Evaluation(x) = Evaluation(y)
  <2>1. FALSE \in BOOLEAN  OBVIOUS
  <2>2. ReadAlike(FALSE, x, y)  BY <1>1, <2>1, SpansSame
  <2> QED BY <2>2, EvaluationReads DEF ReadAlike
<1>2. ASSUME Spans(TRUE, x, W, 0, e, d, s), Spans(TRUE, y, W, 0, e, d, s), NEW penalty
      PROVE  WarpEvaluation(x, penalty) = WarpEvaluation(y, penalty)
  <2>1. TRUE \in BOOLEAN  OBVIOUS
  <2>2. Sound(TRUE, x, d, s) /\ Sound(TRUE, y, d, s) /\ ReadAlike(TRUE, x, y)  BY <1>2, <2>1, SpansSame
  <2>3. Lows(TRUE, x) = Lows(TRUE, y)  BY <2>2 DEF ReadAlike
  <2> QED BY <2>2, <2>3, WarpEvaluationReads
<1> QED BY <1>1, <1>2

(* The horizon of the clamps is the greatest of finitely many times. *)
LEMMA FiniteBound ==
  ASSUME NEW S, IsFiniteSet(S), NEW g, \A x \in S : g[x] \in Int
  PROVE  \E b \in Int : \A x \in S : g[x] <= b
<1>1. PICK n \in Nat : ExistsSurjection(1 .. n, S)  BY FS_NatSurjection
<1>2. PICK f \in Surjection(1 .. n, S) : TRUE  BY <1>1 DEF ExistsSurjection
<1>3. f \in [1 .. n -> S] /\ \A x \in S : \E i \in 1 .. n : f[i] = x  BY <1>2 DEF Surjection
<1> DEFINE T == {k \in 0 .. n : \E b \in Int : \A i \in 1 .. k : g[f[i]] <= b}
<1>4. 0 \in T
  <2>1. \A i \in 1 .. 0 : g[f[i]] <= 0  OBVIOUS
  <2> QED BY <2>1
<1>5. ASSUME NEW k \in 0 .. n - 1, k \in T PROVE k + 1 \in T
  <2>1. k + 1 \in 0 .. n /\ k + 1 \in 1 .. n  OBVIOUS
  <2>2. PICK b \in Int : \A i \in 1 .. k : g[f[i]] <= b  BY <1>5
  <2>3. g[f[k + 1]] \in Int  BY <1>3, <2>1
  <2> DEFINE c == IF g[f[k + 1]] > b THEN g[f[k + 1]] ELSE b
  <2>4. c \in Int /\ b <= c /\ g[f[k + 1]] <= c  BY <2>3
  <2>5. ASSUME NEW i \in 1 .. k + 1 PROVE g[f[i]] <= c
    <3>1. CASE i = k + 1
      <4> HIDE DEF c
      <4> QED BY <2>4, <3>1
    <3>2. CASE i # k + 1
      <4>1. i \in 1 .. k /\ i \in 1 .. n  BY <3>2
      <4>2. g[f[i]] <= b /\ g[f[i]] \in Int  BY <1>3, <2>2, <4>1
      <4> HIDE DEF c
      <4> QED BY <2>4, <4>2
    <3> QED BY <3>1, <3>2
  <2> HIDE DEF c
  <2> QED BY <2>1, <2>4, <2>5
<1>6. n \in T
  <2> HIDE DEF T
  <2>1. 0 \in Int /\ n \in Int  OBVIOUS
  <2>2. 0 .. n \subseteq T  BY <2>1, <1>4, <1>5, Induction
  <2> QED BY <2>2
<1>7. PICK b \in Int : \A i \in 1 .. n : g[f[i]] <= b  BY <1>6
<1> QED BY <1>3, <1>7

LEMMA HorizonIs ==
  ASSUME Standing
  PROVE  /\ tEnd \in Int
         /\ inst.windows => \A v \in Stop : inst.latest[v] + inst.service[v] <= tEnd
<1> DEFINE A == {a \in DOMAIN inst.arc : ~Void(inst.arc[a])}
           B == {Top(inst.arc[a]) : a \in A}
           C == IF inst.windows THEN {inst.latest[v] + inst.service[v] : v \in Stop} ELSE {}
           X == {inst.end} \cup B \cup C
<1>1. /\ IsInstance(inst) /\ IsFiniteSet(Client) /\ Depot \notin Client
  BY RouteEvalAssumption DEF Standing
<1>2. /\ inst.end \in Nat /\ DOMAIN inst.arc = Stop \X Stop /\ inst.start \in Nat
      /\ \A v \in Stop : inst.latest[v] \in Nat /\ inst.service[v] \in Nat
      /\ \A a \in Stop \X Stop : IsArrival(inst.arc[a], inst.start)
  BY <1>1 DEF IsInstance
<1>3. IsFiniteSet(Stop) /\ IsFiniteSet(Stop \X Stop)
  <2>1. IsFiniteSet({Depot})  BY FS_Singleton
  <2>2. IsFiniteSet(Stop)  BY <1>1, <2>1, FS_Union DEF Stop
  <2> QED BY <2>2, FS_Product
<1>4. ASSUME NEW a \in A PROVE Top(inst.arc[a]) \in Int
  <2> DEFINE f == inst.arc[a]
  <2>1. IsArrival(f, inst.start) /\ ~Void(f)  BY <1>2
  <2> HIDE DEF f
  <2>2. f \in [DOMAIN f -> Nat \X Nat] /\ End(f) \in Nat /\ DOMAIN f = inst.start .. End(f) /\ DOMAIN f # {}
    BY <2>1 DEF IsArrival, Void
  <2>3. End(f) \in DOMAIN f  BY <1>2, <2>2
  <2>4. f[End(f)] \in Nat \X Nat  BY <2>2, <2>3
  <2>5. Top(f) = f[End(f)][2]  BY DEF Top, High
  <2>6. Top(f) \in Nat  BY <2>4, <2>5
  <2> QED BY <2>6 DEF f
<1>5. X \subseteq Int /\ inst.end \in X
  <2>1. C \subseteq Int  BY <1>2
  <2> QED BY <1>2, <1>4, <2>1
<1>6. \E b \in Int : \A x \in X : x <= b
  <2> DEFINE g == [a \in Stop \X Stop |-> IF Void(inst.arc[a]) THEN 0 ELSE Top(inst.arc[a])]
             h == [v \in Stop |-> inst.latest[v] + inst.service[v]]
  <2>1. \A a \in Stop \X Stop : g[a] \in Int  BY <1>2, <1>4
  <2>2. \A v \in Stop : h[v] \in Int  BY <1>2
  <2>3. PICK b \in Int : \A a \in Stop \X Stop : g[a] <= b
    <3> HIDE DEF g
    <3> QED BY <1>3, <2>1, FiniteBound
  <2>4. PICK c \in Int : \A v \in Stop : h[v] <= c
    <3> HIDE DEF h
    <3> QED BY <1>3, <2>2, FiniteBound
  <2>5. \A a \in A : Top(inst.arc[a]) <= b  BY <1>2, <2>3
  <2>6. \A v \in Stop : inst.latest[v] + inst.service[v] <= c  BY <2>4
  <2> DEFINE m == More(inst.end, More(b, c))
  <2>7. m \in Int /\ inst.end <= m /\ b <= m /\ c <= m  BY <1>2 DEF More
  <2> HIDE DEF m
  <2>8. ASSUME NEW x \in X PROVE x <= m
    <3>1. CASE x = inst.end  BY <2>7, <3>1
    <3>2. CASE x \in B
      <4>1. x \in Int /\ x <= b  BY <1>4, <2>5, <3>2
      <4> QED BY <2>7, <4>1
    <3>3. CASE x \in C
      <4>1. x \in Int /\ x <= c  BY <1>2, <2>6, <3>3
      <4> QED BY <2>7, <4>1
    <3> QED BY <3>1, <3>2, <3>3
  <2> QED BY <2>7, <2>8
<1>7. tEnd = Max(X)  BY DEF Standing, WarpHorizon
<1>8. inst.windows => \A v \in Stop : inst.latest[v] + inst.service[v] \in X  OBVIOUS
<1> HIDE DEF X
<1>9. PICK b \in Int : \A x \in X : x <= b  BY <1>6
<1>10. X # {}  BY <1>5
<1>11. PICK t \in X : \A x \in X : t >= x  BY <1>5, <1>9, <1>10, GreatestInt
<1>12. tEnd \in X /\ \A x \in X : tEnd >= x  BY <1>7, <1>11 DEF Max
<1> QED BY <1>2, <1>5, <1>8, <1>12

LEMMA StandingReady ==
  ASSUME Standing
  PROVE  Ready
BY HorizonIs DEF Standing, Ready

(* The states of a search are live routes. *)
LEMMA LivePlain ==
  ASSUME Standing, NEW k \in Built(plain)
  PROVE  Lives(FALSE, plain[k], plain[k].vertices)
<1>1. k \in Slots /\ plain[k] # NoState /\ Plainly(plain[k])  BY DEF Built, Standing
<1>2. PICK q \in Seq(Client) : q # <<>> /\ plain[k] = BuildRouteState(q)  BY <1>1 DEF Plainly
<1>3. plain[k].vertices = q /\ plain[k].tree = Tree!Build(RouteLeaves(q))  BY <1>1, <1>2, PlainState
<1> QED BY <1>2, <1>3 DEF Lives

LEMMA LiveLate ==
  ASSUME Standing, NEW k \in Built(warped)
  PROVE  Lives(TRUE, warped[k], warped[k].vertices)
<1>1. k \in Slots /\ warped[k] # NoState /\ Lately(warped[k])  BY DEF Built, Standing
<1>2. PICK q \in Seq(Client) : q # <<>> /\ warped[k] = BuildWarpRouteState(q)  BY <1>1 DEF Lately
<1>3. warped[k].vertices = q /\ warped[k].tree = WarpTree!Build(WarpRouteLeaves(q))  BY <1>1, <1>2, WarpState
<1> QED BY <1>2, <1>3 DEF Lives

(* What a splice is asked for. *)
Asked(w, r1, i1, j1, r2, i2, j2) ==
  /\ Lives(w, r1, r1.vertices) /\ Lives(w, r2, r2.vertices)
  /\ Spliceable(r1.vertices, r2.vertices, i1, j1, i2, j2)

LEMMA SpliceAsked ==
  ASSUME NEW w, NEW states, \A k \in Built(states) : Lives(w, states[k], states[k].vertices), NEW s \in Splices(states)
  PROVE  Asked(w, s[1], s[2][1], s[2][2], s[3], s[4][1], s[4][2])
<1>1. PICK x \in Built(states) \X Built(states) : s \in SplicesOf(states[x[1]], states[x[2]])  BY DEF Splices
<1> DEFINE r1 == states[x[1]]
           r2 == states[x[2]]
           q == r1.vertices
           o == r2.vertices
           Vs == IF r1 = r2 THEN {<<1, 0>>} ELSE {y \in Windows(Len(o)) : y[1] <= y[2]}
<1>2. PICK y \in Windows(Len(q)), v \in Vs : s = <<r1, y, r2, v>>  BY <1>1 DEF SplicesOf
<1>3. Lives(w, r1, q) /\ Lives(w, r2, o)
  <2>1. x[1] \in Built(states) /\ x[2] \in Built(states)  OBVIOUS
  <2> QED BY <2>1
<1> HIDE DEF r1, r2, Vs, q, o
<1>4. s[1] = r1 /\ s[2] = y /\ s[3] = r2 /\ s[4] = v  BY <1>2
<1>5. q \in Seq(Client) /\ o \in Seq(Client) /\ o # <<>> /\ Len(q) \in Nat /\ Len(o) \in Nat
  BY <1>3, LenProperties DEF Lives
<1>6. y[1] \in 0 .. Len(q) /\ y[2] \in -1 .. Len(q) - 1 /\ y[1] <= y[2] + 1
  <2> DEFINE m == Len(q)
  <2>1. y \in {u \in (0 .. m) \X (-1 .. m - 1) : u[1] <= u[2] + 1}  BY DEF Windows
  <2> HIDE DEF m
  <2>2. y \in (0 .. m) \X (-1 .. m - 1) /\ y[1] <= y[2] + 1  BY <2>1
  <2>3. y[1] \in 0 .. m /\ y[2] \in -1 .. m - 1  BY <2>2
  <2> QED BY <2>2, <2>3 DEF m
<1>7. \/ v[1] = 1 /\ v[2] = 0
      \/ v[1] \in 0 .. Len(o) /\ v[2] \in -1 .. Len(o) - 1 /\ v[1] <= v[2]
  <2>1. CASE r1 = r2
    <3>1. v = <<1, 0>>  BY <2>1 DEF Vs
    <3> QED BY <3>1
  <2>2. CASE r1 # r2
    <3> DEFINE m == Len(o)
    <3>1. v \in Windows(m) /\ v[1] <= v[2]  BY <2>2 DEF Vs
    <3>2. v \in {u \in (0 .. m) \X (-1 .. m - 1) : u[1] <= u[2] + 1}  BY <3>1 DEF Windows
    <3> HIDE DEF m
    <3>3. v \in (0 .. m) \X (-1 .. m - 1)  BY <3>2
    <3>4. v[1] \in 0 .. m /\ v[2] \in -1 .. m - 1  BY <3>3
    <3> QED BY <3>1, <3>4 DEF m
  <2> QED BY <2>1, <2>2
<1>8. Spliceable(q, o, y[1], y[2], v[1], v[2])  BY <1>5, <1>6, <1>7 DEF Spliceable
<1> QED BY <1>3, <1>4, <1>8 DEF Asked, q, o

(* A splice takes everything out exactly if its route is empty. *)
LEMMA SplicedEmpty ==
  ASSUME NEW q, NEW o, NEW i1, NEW j1, NEW i2, NEW j2, Spliceable(q, o, i1, j1, i2, j2),
         NEW q1, SpliceShown(q, o, i1, j1, i2, j2, q1)
  PROVE  q1 = <<>> <=> (i1 = 0 /\ i2 > j2 /\ j1 + 1 = Len(q))
<1> DEFINE m == Len(q)
           n == Len(o)
           N == Len(q1)
<1>1. m \in Nat /\ n \in Nat /\ q1 \in Seq(Client)  BY LenProperties DEF Spliceable, SpliceShown
<1>2. N \in Nat /\ (q1 = <<>> <=> N = 0)  BY <1>1, EmptySeq, LenProperties
<1>3. N = i1 + (j2 - i2 + 1) + (m - j1 - 1)  BY DEF SpliceShown
<1>4. /\ i1 \in 0 .. m /\ j1 \in -1 .. m - 1
      /\ \/ i2 = 1 /\ j2 = 0
         \/ i2 \in 0 .. n /\ j2 \in -1 .. n - 1 /\ i2 <= j2
  BY DEF Spliceable
<1> HIDE DEF m, n, N
<1>5. N = 0 <=> (i1 = 0 /\ i2 > j2 /\ j1 + 1 = m)
  <2>1. i1 \in Int /\ 0 <= i1 /\ j1 \in Int /\ j1 <= m - 1 /\ m \in Int  BY <1>1, <1>4
  <2>2. i2 \in Int /\ j2 \in Int /\ i2 <= j2 + 1  BY <1>1, <1>4
  <2> QED BY <1>3, <2>1, <2>2
<1> QED BY <1>2, <1>5 DEF m

Makes(q1, r1, i1, j1, r2, i2, j2) ==
  q1 = SubSeq(r1.vertices, 1, i1) \o SubSeq(r2.vertices, i2 + 1, j2 + 1)
       \o SubSeq(r1.vertices, j1 + 2, Len(r1.vertices))

Goes(w, x, q1) == q1 \in Seq(Client) /\ Spans(w, x, Way(w, q1), 0, Len(q1) + 1, Dawn, inst.start)

LEMMA SpliceSpans ==
  ASSUME Ready, NEW w \in BOOLEAN, NEW r1, NEW i1, NEW j1, NEW r2, NEW i2, NEW j2,
         Asked(w, r1, i1, j1, r2, i2, j2), NEW q1, Makes(q1, r1, i1, j1, r2, i2, j2)
  PROVE  /\ Goes(w, AlongOf(w, SplicePieces(r1, i1, j1, r2, i2, j2)), q1)
         /\ q1 = <<>> <=> (i1 = 0 /\ i2 > j2 /\ j1 + 1 = Len(r1.vertices))
<1> DEFINE q == r1.vertices
           o == r2.vertices
<1>1. Lives(w, r1, q) /\ Lives(w, r2, o) /\ Spliceable(q, o, i1, j1, i2, j2)  BY DEF Asked
<1>2. q1 = SubSeq(q, 1, i1) \o SubSeq(o, i2 + 1, j2 + 1) \o SubSeq(q, j1 + 2, Len(q))  BY DEF Makes
<1> HIDE DEF q, o
<1>3. SpliceShown(q, o, i1, j1, i2, j2, q1)  BY <1>1, <1>2, SplicedShows
<1>4. Laid(w, SplicePieces(r1, i1, j1, r2, i2, j2), q1, Len(q1) + 1)  BY <1>1, <1>2, SpliceReaches
<1>5. q1 \in Seq(Client)  BY <1>3 DEF SpliceShown
<1>6. q1 = <<>> <=> (i1 = 0 /\ i2 > j2 /\ j1 + 1 = Len(q))  BY <1>1, <1>3, SplicedEmpty
<1>7. Goes(w, AlongOf(w, SplicePieces(r1, i1, j1, r2, i2, j2)), q1)  BY <1>4, <1>5 DEF Laid, Reaches, Goes
<1> QED BY <1>6, <1>7 DEF q

(* What goes the whole way of a route is priced at what its fold charges. *)
LEMMA GoesPrice ==
  ASSUME Ready, NEW q1, NEW x
  PROVE  /\ Goes(FALSE, x, q1) => Evaluation(x) = EvaluateRoute(q1)
         /\ Goes(TRUE, x, q1) => \A penalty : WarpEvaluation(x, penalty) = EvaluateRouteWarp(q1, penalty)
<1> DEFINE d == Dawn
           s == inst.start
           e == Len(q1) + 1
<1>1. d \in Int  BY DeparturesSound
<1>2. ASSUME Goes(FALSE, x, q1) PROVE Evaluation(x) = EvaluateRoute(q1)
  <2> DEFINE W == Way(FALSE, q1)
             y == ReadyTime(q1)
  <2>1. q1 \in Seq(Client) /\ Spans(FALSE, x, W, 0, e, d, s)  BY <1>2 DEF Goes
  <2>2. Spans(FALSE, y, W, 0, e, d, s)  BY <2>1, ReadySpans DEF On
  <2> HIDE DEF W, y, d, s, e
  <2>3. Evaluation(x) = Evaluation(y)  BY <1>1, <2>1, <2>2, SpansPrice
  <2> QED BY <2>3 DEF EvaluateRoute, y
<1>3. ASSUME Goes(TRUE, x, q1), NEW penalty PROVE WarpEvaluation(x, penalty) = EvaluateRouteWarp(q1, penalty)
  <2> DEFINE W == Way(TRUE, q1)
             y == WarpFold(q1)
  <2>1. q1 \in Seq(Client) /\ Spans(TRUE, x, W, 0, e, d, s)  BY <1>3 DEF Goes
  <2>2. Spans(TRUE, y, W, 0, e, d, s)  BY <2>1, WarpSpans
  <2> HIDE DEF W, y, d, s, e
  <2>3. WarpEvaluation(x, penalty) = WarpEvaluation(y, penalty)  BY <1>1, <2>1, <2>2, SpansPrice
  <2> QED BY <2>3 DEF EvaluateRouteWarp, y
<1> QED BY <1>2, <1>3

LEMMA SplicePrice ==
  ASSUME Ready, NEW r1, NEW i1, NEW j1, NEW r2, NEW i2, NEW j2, NEW q1, Makes(q1, r1, i1, j1, r2, i2, j2),
         Asked(FALSE, r1, i1, j1, r2, i2, j2)
  PROVE  EvaluateSplice(r1, i1, j1, r2, i2, j2) = IF q1 = <<>> THEN Infeasible ELSE EvaluateRoute(q1)
<1> DEFINE p == SplicePieces(r1, i1, j1, r2, i2, j2)
           out == i1 = 0 /\ i2 > j2 /\ j1 + 1 = Len(r1.vertices)
<1>1. FALSE \in BOOLEAN  OBVIOUS
<1>2. Goes(FALSE, AlongOf(FALSE, p), q1) /\ (q1 = <<>> <=> out)  BY <1>1, SpliceSpans
<1>3. AlongOf(FALSE, p) = Along(p)  BY DEF AlongOf
<1>4. EvaluateSplice(r1, i1, j1, r2, i2, j2) = IF out THEN Infeasible ELSE Evaluation(Along(p))  BY DEF EvaluateSplice
<1> HIDE DEF p, out
<1>5. Evaluation(Along(p)) = EvaluateRoute(q1)  BY <1>2, <1>3, GoesPrice
<1> QED BY <1>2, <1>4, <1>5

LatePriced(q1, r1, i1, j1, r2, i2, j2, penalty) ==
  EvaluateSpliceWarp(r1, i1, j1, r2, i2, j2, penalty) = IF q1 = <<>> THEN NotTotal ELSE EvaluateRouteWarp(q1, penalty)

LEMMA LateSplicePrice ==
  ASSUME Ready, NEW r1, NEW i1, NEW j1, NEW r2, NEW i2, NEW j2, NEW q1, Makes(q1, r1, i1, j1, r2, i2, j2),
         Asked(TRUE, r1, i1, j1, r2, i2, j2), NEW penalty
  PROVE  LatePriced(q1, r1, i1, j1, r2, i2, j2, penalty)
<1> DEFINE p == SplicePieces(r1, i1, j1, r2, i2, j2)
           out == i1 = 0 /\ i2 > j2 /\ j1 + 1 = Len(r1.vertices)
<1>1. TRUE \in BOOLEAN  OBVIOUS
<1>2. Goes(TRUE, AlongOf(TRUE, p), q1) /\ (q1 = <<>> <=> out)  BY <1>1, SpliceSpans
<1>3. AlongOf(TRUE, p) = WarpAlong(p)  BY DEF AlongOf
<1>4. EvaluateSpliceWarp(r1, i1, j1, r2, i2, j2, penalty)
        = IF out THEN NotTotal ELSE WarpEvaluation(WarpAlong(p), penalty)
  BY DEF EvaluateSpliceWarp
<1> HIDE DEF p, out
<1>5. WarpEvaluation(WarpAlong(p), penalty) = EvaluateRouteWarp(q1, penalty)  BY <1>2, <1>3, GoesPrice
<1> QED BY <1>2, <1>4, <1>5 DEF LatePriced

LEMMA RelocatePrice ==
  ASSUME Ready, NEW r, NEW q, Lives(FALSE, r, q), NEW i \in 0 .. Len(q) - 1, NEW p \in (0 .. Len(q)) \ {i, i + 1}
  PROVE  EvaluateIntraRelocate(r, i, p) = EvaluateRoute(Relocated(q, i, p))
<1> DEFINE q1 == Relocated(q, i, p)
           x == RelocatePieces(r, i, p)
<1>1. q \in Seq(Client) /\ Len(q) \in Nat  BY LenProperties DEF Lives
<1>2. Moved(q, i, p, q1)  BY <1>1, RelocatedMoves
<1>3. p \in 0 .. Len(q) /\ (p < i \/ i + 1 < p)  BY <1>1
<1>4. EvaluateIntraRelocate(r, i, p) = Evaluation(Along(x))  BY DEF EvaluateIntraRelocate
<1> HIDE DEF q1
<1>5. Laid(FALSE, x, q1, Len(q1) + 1)
  <2>1. CASE p < i  BY <1>2, <1>3, <2>1, EarlierReaches
  <2>2. CASE i + 1 < p  BY <1>2, <1>3, <2>2, LaterReaches
  <2> QED BY <1>3, <2>1, <2>2
<1> HIDE DEF x
<1>6. AlongOf(FALSE, x) = Along(x)  BY DEF AlongOf
<1>7. q1 \in Seq(Client)  BY <1>2 DEF Moved
<1>8. Goes(FALSE, Along(x), q1)  BY <1>5, <1>6, <1>7 DEF Laid, Reaches, Goes
<1>9. Evaluation(Along(x)) = EvaluateRoute(q1)  BY <1>8, GoesPrice
<1> QED BY <1>4, <1>9 DEF q1

LEMMA InsertPrice ==
  ASSUME Ready, NEW r, NEW q, Lives(FALSE, r, q), NEW p \in 0 .. Len(q), NEW c \in Client
  PROVE  EvaluateInsertion(r, p, c) = EvaluateRoute(Insert(q, p, c))
<1> DEFINE q1 == Insert(q, p, c)
           x == Inserted(r, p, c)
<1>1. q1 \in Seq(Client) /\ On(x, q1, Len(q1) + 1)  BY InsertReaches
<1>2. EvaluateInsertion(r, p, c) = Evaluation(x)  BY DEF EvaluateInsertion, Inserted
<1> HIDE DEF q1, x
<1>3. Goes(FALSE, x, q1)  BY <1>1 DEF On, Goes
<1>4. Evaluation(x) = EvaluateRoute(q1)  BY <1>3, GoesPrice
<1> QED BY <1>2, <1>4 DEF q1

LEMMA StandingRank == Standing => RankIsPrice
<1> SUFFICES ASSUME Standing PROVE RankIsPrice  OBVIOUS
<1>1. Ready  BY StandingReady
<1>2. ASSUME NEW s \in Splices(plain)
      PROVE  LET q == Spliced(s[1], s[2], s[3], s[4])
             IN  EvaluateSplice(s[1], s[2][1], s[2][2], s[3], s[4][1], s[4][2])
                   = IF q = <<>> THEN Infeasible ELSE EvaluateRoute(q)
  <2> DEFINE q1 == Spliced(s[1], s[2], s[3], s[4])
  <2>1. Makes(q1, s[1], s[2][1], s[2][2], s[3], s[4][1], s[4][2])  BY DEF Makes, Spliced
  <2>2. \A k \in Built(plain) : Lives(FALSE, plain[k], plain[k].vertices)  BY LivePlain
  <2>3. Asked(FALSE, s[1], s[2][1], s[2][2], s[3], s[4][1], s[4][2])  BY <2>2, SpliceAsked
  <2> HIDE DEF q1
  <2>4. EvaluateSplice(s[1], s[2][1], s[2][2], s[3], s[4][1], s[4][2])
          = IF q1 = <<>> THEN Infeasible ELSE EvaluateRoute(q1)
    BY <1>1, <2>1, <2>3, SplicePrice
  <2> QED BY <2>4 DEF q1
<1>3. ASSUME NEW s \in Splices(warped), NEW penalty \in Penalties
      PROVE  LET q == Spliced(s[1], s[2], s[3], s[4])
             IN  EvaluateSpliceWarp(s[1], s[2][1], s[2][2], s[3], s[4][1], s[4][2], penalty)
                   = IF q = <<>> THEN NotTotal ELSE EvaluateRouteWarp(q, penalty)
  <2> DEFINE q1 == Spliced(s[1], s[2], s[3], s[4])
  <2>1. Makes(q1, s[1], s[2][1], s[2][2], s[3], s[4][1], s[4][2])  BY DEF Makes, Spliced
  <2>2. \A k \in Built(warped) : Lives(TRUE, warped[k], warped[k].vertices)  BY LiveLate
  <2>3. Asked(TRUE, s[1], s[2][1], s[2][2], s[3], s[4][1], s[4][2])  BY <2>2, SpliceAsked
  <2> HIDE DEF q1
  <2>4. LatePriced(q1, s[1], s[2][1], s[2][2], s[3], s[4][1], s[4][2], penalty)
    BY <1>1, <2>1, <2>3, LateSplicePrice
  <2> QED BY <2>4 DEF q1, LatePriced
<1>4. ASSUME NEW k \in Built(plain)
      PROVE  /\ \A i \in 0 .. Len(plain[k].vertices) - 1 : \A p \in (0 .. Len(plain[k].vertices)) \ {i, i + 1} :
                  EvaluateIntraRelocate(plain[k], i, p) = EvaluateRoute(Relocated(plain[k].vertices, i, p))
             /\ \A p \in 0 .. Len(plain[k].vertices), c \in Client \ Members(plain[k].vertices) :
                  EvaluateInsertion(plain[k], p, c) = EvaluateRoute(Insert(plain[k].vertices, p, c))
  <2>1. Lives(FALSE, plain[k], plain[k].vertices)  BY LivePlain
  <2> QED BY <1>1, <2>1, RelocatePrice, InsertPrice
<1> QED BY <1>2, <1>3, <1>4 DEF RankIsPrice

(* Every changed route is ranked at the price its fold charges, for any instance, any
   routes and every weight of lateness. *)
THEOREM RankPrices == Spec => []RankIsPrice
<1>1. Spec => []Standing  BY StatesStand
<1>2. Standing => RankIsPrice  BY StandingRank
<1> QED BY <1>1, <1>2, PTL

(* What is on time of a function with lateness. *)
Zero(F) == [t \in {y \in DOMAIN F : F[y][2] = 0} |-> <<F[t][1], 0>>]
Waiting(F) == Paired(F) /\ \A t \in DOMAIN F : F[t][2] >= 0
Timely(F, G) == Zero(F) = G

LEMMA ZeroAfter ==
  ASSUME NEW F, NEW G, Waiting(F), Waiting(G)
  PROVE  Waiting(After(F, G)) /\ Timely(After(F, G), After(Zero(F), Zero(G)))
<1> DEFINE H == After(F, G)
           P == Zero(F)
           Q == Zero(G)
           R == After(P, Q)
           Z == Zero(H)
<1>1. \A t \in DOMAIN F : F[t][1] \in Int /\ F[t][2] \in Int /\ F[t][2] >= 0  BY DEF Waiting, Paired
<1>2. \A t \in DOMAIN G : G[t][1] \in Int /\ G[t][2] \in Int /\ G[t][2] >= 0  BY DEF Waiting, Paired
<1>3. DOMAIN H = {y \in DOMAIN G : G[y][1] \in DOMAIN F}
      /\ \A t \in DOMAIN H : H[t] = <<F[G[t][1]][1], G[t][2] + F[G[t][1]][2]>>
  BY DEF After
<1>4. DOMAIN P = {y \in DOMAIN F : F[y][2] = 0} /\ \A t \in DOMAIN P : P[t] = <<F[t][1], 0>>  BY DEF Zero
<1>5. DOMAIN Q = {y \in DOMAIN G : G[y][2] = 0} /\ \A t \in DOMAIN Q : Q[t] = <<G[t][1], 0>>  BY DEF Zero
<1>6. /\ DOMAIN R = {y \in DOMAIN Q : Q[y][1] \in DOMAIN P} /\ R = [t \in DOMAIN R |-> R[t]]
      /\ \A t \in DOMAIN R : R[t] = <<P[Q[t][1]][1], Q[t][2] + P[Q[t][1]][2]>>
  BY DEF After
<1>7. /\ DOMAIN Z = {y \in DOMAIN H : H[y][2] = 0} /\ Z = [t \in DOMAIN Z |-> Z[t]]
      /\ \A t \in DOMAIN Z : Z[t] = <<H[t][1], 0>>
  BY DEF Zero
<1>8. Paired(H)  BY AfterPaired DEF Waiting
<1> HIDE DEF H, P, Q, R, Z
<1>9. ASSUME NEW t \in DOMAIN H
      PROVE  /\ t \in DOMAIN G /\ G[t][1] \in DOMAIN F /\ H[t][1] = F[G[t][1]][1]
             /\ H[t][2] \in Int /\ H[t][2] >= 0
             /\ H[t][2] = 0 <=> (G[t][2] = 0 /\ F[G[t][1]][2] = 0)
  <2>1. t \in DOMAIN G /\ G[t][1] \in DOMAIN F  BY <1>3
  <2> DEFINE a == G[t][2]
             b == F[G[t][1]][2]
  <2>2. a \in Int /\ b \in Int /\ a >= 0 /\ b >= 0  BY <1>1, <1>2, <2>1
  <2>3. H[t] = <<F[G[t][1]][1], a + b>>  BY <1>3
  <2> HIDE DEF a, b
  <2>4. H[t][1] = F[G[t][1]][1] /\ H[t][2] = a + b  BY <2>3
  <2>5. a + b \in Int /\ a + b >= 0 /\ (a + b = 0 <=> (a = 0 /\ b = 0))  BY <2>2
  <2> QED BY <2>1, <2>4, <2>5 DEF a, b
<1>10. DOMAIN Z = DOMAIN R
  <2>1. ASSUME NEW t \in DOMAIN Z PROVE t \in DOMAIN R
    <3>1. t \in DOMAIN H /\ H[t][2] = 0  BY <1>7
    <3>2. t \in DOMAIN G /\ G[t][1] \in DOMAIN F /\ G[t][2] = 0 /\ F[G[t][1]][2] = 0  BY <1>9, <3>1
    <3>3. t \in DOMAIN Q /\ Q[t][1] = G[t][1]  BY <1>5, <3>2
    <3>4. Q[t][1] \in DOMAIN P  BY <1>4, <3>2, <3>3
    <3> QED BY <1>6, <3>3, <3>4
  <2>2. ASSUME NEW t \in DOMAIN R PROVE t \in DOMAIN Z
    <3>1. t \in DOMAIN Q /\ Q[t][1] \in DOMAIN P  BY <1>6
    <3>2. t \in DOMAIN G /\ G[t][2] = 0 /\ Q[t][1] = G[t][1]  BY <1>5, <3>1
    <3>3. G[t][1] \in DOMAIN F /\ F[G[t][1]][2] = 0  BY <1>4, <3>1, <3>2
    <3>4. t \in DOMAIN H  BY <1>3, <3>2, <3>3
    <3> QED BY <1>7, <1>9, <3>2, <3>3, <3>4
  <2> QED BY <2>1, <2>2
<1>11. ASSUME NEW t \in DOMAIN R PROVE Z[t] = R[t]
  <2>1. t \in DOMAIN Z /\ t \in DOMAIN H  BY <1>7, <1>10
  <2>2. Z[t] = <<F[G[t][1]][1], 0>>  BY <1>7, <1>9, <2>1
  <2>3. t \in DOMAIN Q /\ Q[t][1] \in DOMAIN P  BY <1>6
  <2>4. Q[t] = <<G[t][1], 0>>  BY <1>5, <2>3
  <2>5. Q[t][1] = G[t][1] /\ Q[t][2] = 0  BY <2>4
  <2>6. P[G[t][1]] = <<F[G[t][1]][1], 0>>  BY <1>4, <2>3, <2>5
  <2>7. R[t] = <<F[G[t][1]][1], 0 + 0>>  BY <1>6, <2>5, <2>6
  <2> QED BY <2>2, <2>7
<1>12. Z = R  BY <1>6, <1>7, <1>10, <1>11
<1>13. Waiting(H)  BY <1>8, <1>9 DEF Waiting
<1> QED BY <1>12, <1>13 DEF Timely, H, Z, R, P, Q

LEMMA ZeroPlain ==
  ASSUME NEW x, NEW b, NEW s, Sound(FALSE, x, b, s)
  PROVE  Waiting(Lows(FALSE, x)) /\ Timely(Lows(FALSE, x), Lows(FALSE, x))
<1> DEFINE F == Lows(FALSE, x)
<1>1. FALSE \in BOOLEAN  OBVIOUS
<1>2. Paired(F)  BY <1>1, LowsPaired
<1>3. F = [t \in DOMAIN x |-> <<Low(x, t), 0>>]  BY DEF Lows
<1> HIDE DEF F
<1>4. \A t \in DOMAIN F : F[t][2] = 0 /\ F[t] = <<F[t][1], 0>>  BY <1>3
<1>5. F = [t \in DOMAIN F |-> <<F[t][1], 0>>]  BY <1>3, <1>4
<1>6. {y \in DOMAIN F : F[y][2] = 0} = DOMAIN F  BY <1>4
<1>7. Zero(F) = F  BY <1>5, <1>6 DEF Zero
<1>8. \A t \in DOMAIN F : F[t][2] >= 0  BY <1>4
<1>9. Waiting(F) /\ Timely(F, F)  BY <1>2, <1>7, <1>8 DEF Waiting, Timely
<1> QED BY <1>9 DEF F

LEMMA ZeroVisit ==
  ASSUME Ready, NEW v \in Stop, inst.windows => inst.latest[v] + inst.service[v] <= tEnd
  PROVE  Waiting(Visit(TRUE, v)) /\ Timely(Visit(TRUE, v), Visit(FALSE, v))
<1> DEFINE F == Visit(TRUE, v)
           G == Visit(FALSE, v)
           a == inst.earliest[v]
           l == inst.latest[v]
           c == inst.service[v]
<1>1. a \in Nat /\ l \in Nat /\ c \in Nat /\ tEnd \in Int  BY ReadyIs
<1>2. Paired(F)
  <2>1. TRUE \in BOOLEAN  OBVIOUS
  <2> QED BY <2>1, VisitPaired
<1>3. CASE ~inst.windows
  <2>1. F = [t \in Nat |-> <<IF v = Depot THEN t ELSE t + c, 0>>] /\ G = F  BY <1>3 DEF Visit
  <2> HIDE DEF F, G, c
  <2>2. \A t \in DOMAIN F : F[t][2] = 0 /\ F[t] = <<F[t][1], 0>>  BY <2>1
  <2>3. F = [t \in DOMAIN F |-> <<F[t][1], 0>>]  BY <2>1, <2>2
  <2>4. {y \in DOMAIN F : F[y][2] = 0} = DOMAIN F  BY <2>2
  <2>5. Zero(F) = F  BY <2>3, <2>4 DEF Zero
  <2>6. Waiting(F)  BY <1>2, <2>2 DEF Waiting
  <2> QED BY <2>1, <2>5, <2>6 DEF Timely, F, G
<1>4. CASE inst.windows
  <2>1. F = [t \in 0 .. tEnd |-> <<IF v = Depot THEN Less(t, l) ELSE More(a, Less(t, l)) + c, More(0, t - l)>>]
    BY <1>4 DEF Visit
  <2>2. G = [t \in 0 .. l |-> <<IF v = Depot THEN t ELSE More(t, a) + c, 0>>]
    BY <1>4 DEF Visit
  <2>3. l + c <= tEnd  BY <1>4
  <2> HIDE DEF F, G, c, l, a
  <2>4. \A t \in 0 .. tEnd : More(0, t - l) >= 0 /\ (More(0, t - l) = 0 <=> t \in 0 .. l)  BY <1>1 DEF More
  <2>5. {y \in DOMAIN F : F[y][2] = 0} = 0 .. l
    <3>1. \A t \in 0 .. l : t \in 0 .. tEnd  BY <1>1, <2>3
    <3>2. DOMAIN F = 0 .. tEnd /\ \A t \in 0 .. tEnd : F[t][2] = More(0, t - l)  BY <2>1
    <3> QED BY <2>4, <3>1, <3>2
  <2>6. ASSUME NEW t \in 0 .. l PROVE <<F[t][1], 0>> = G[t]
    <3>1. t \in 0 .. tEnd  BY <1>1, <2>3
    <3>2. F[t][1] = IF v = Depot THEN Less(t, l) ELSE More(a, Less(t, l)) + c  BY <2>1, <3>1
    <3>3. Less(t, l) = t /\ More(a, t) = More(t, a)  BY <1>1 DEF Less, More
    <3>4. G[t] = <<IF v = Depot THEN t ELSE More(t, a) + c, 0>>  BY <2>2
    <3> QED BY <3>2, <3>3, <3>4
  <2>7. Zero(F) = [t \in 0 .. l |-> <<F[t][1], 0>>]  BY <2>5 DEF Zero
  <2>8. G = [t \in 0 .. l |-> G[t]]  BY <2>2
  <2>9. Zero(F) = G  BY <2>6, <2>7, <2>8
  <2>10. Waiting(F)
    <3>1. DOMAIN F = 0 .. tEnd /\ \A t \in 0 .. tEnd : F[t][2] = More(0, t - l)  BY <2>1
    <3> QED BY <1>2, <2>4, <3>1 DEF Waiting
  <2> QED BY <2>9, <2>10 DEF Timely, F, G
<1> QED BY <1>3, <1>4

Roomy == inst.windows => \A v \in Stop : inst.latest[v] + inst.service[v] <= tEnd

LEMMA ZeroWay ==
  ASSUME Ready, Roomy, NEW q \in Seq(Client), NEW k \in 0 .. Len(q) + 1
  PROVE  Waiting(Way(TRUE, q)[k]) /\ Timely(Way(TRUE, q)[k], Way(FALSE, q)[k])
<1> DEFINE V == Way(TRUE, q)
           W == Way(FALSE, q)
<1>0. Len(q) \in Nat  BY LenProperties
<1>1. V[0] = Lows(FALSE, Departures) /\ \A j \in 1 .. Len(q) + 1 : V[j] = Leg(TRUE, Place(q, j - 1), Place(q, j))
  <2>1. TRUE \in BOOLEAN  OBVIOUS
  <2> QED BY <2>1, WayIs
<1>2. W[0] = Lows(FALSE, Departures) /\ \A j \in 1 .. Len(q) + 1 : W[j] = Leg(FALSE, Place(q, j - 1), Place(q, j))
  <2>1. FALSE \in BOOLEAN  OBVIOUS
  <2> QED BY <2>1, WayIs
<1> HIDE DEF V, W
<1>3. CASE k = 0
  <2>1. Sound(FALSE, Departures, Dawn, inst.start)  BY DeparturesSound
  <2>2. Waiting(Lows(FALSE, Departures)) /\ Timely(Lows(FALSE, Departures), Lows(FALSE, Departures))  BY <2>1, ZeroPlain
  <2> QED BY <1>1, <1>2, <1>3, <2>2 DEF V, W
<1>4. CASE k # 0
  <2> DEFINE a == Place(q, k - 1)
             v == Place(q, k)
             X == Visit(TRUE, v)
             Y == Visit(FALSE, v)
             A == Lows(FALSE, Arc(a, v))
  <2>1. k \in 1 .. Len(q) + 1  BY <1>0, <1>4
  <2>2. a \in Stop /\ v \in Stop  BY PlaceIs
  <2> HIDE DEF a, v
  <2>3. Waiting(X) /\ Timely(X, Y)
    <3>1. inst.windows => inst.latest[v] + inst.service[v] <= tEnd  BY <2>2 DEF Roomy
    <3> QED BY <2>2, <3>1, ZeroVisit
  <2>4. Waiting(A) /\ Timely(A, A)
    <3>1. Sound(FALSE, Arc(a, v), inst.start, inst.start)  BY <2>2, ArcSound
    <3> QED BY <3>1, ZeroPlain
  <2>5. Leg(TRUE, a, v) = After(X, A) /\ Leg(FALSE, a, v) = After(Y, A)  BY DEF Leg
  <2> HIDE DEF X, Y, A
  <2>6. Waiting(After(X, A)) /\ Timely(After(X, A), After(Zero(X), Zero(A)))  BY <2>3, <2>4, ZeroAfter
  <2>7. Timely(After(X, A), After(Y, A))  BY <2>3, <2>4, <2>6 DEF Timely
  <2>8. V[k] = After(X, A) /\ W[k] = After(Y, A)  BY <1>1, <1>2, <2>1, <2>5 DEF a, v
  <2> QED BY <2>6, <2>7, <2>8 DEF V, W
<1> QED BY <1>3, <1>4

(* What is on time along a way with lateness goes the way without. *)
LEMMA ZeroRuns ==
  ASSUME NEW V, NEW W, NEW e \in Nat, \A k \in 0 .. e : Waiting(V[k]) /\ Timely(V[k], W[k]), NEW F, Runs(F, V, 0, e)
  PROVE  Runs(Zero(F), W, 0, e)
<1>1. PICK c : Chain(c, V, 0, e) /\ F = c[e]  BY DEF Runs
<1>2. c[0] = V[0] /\ \A k \in 1 .. e : c[k] = After(V[k], c[k - 1])
  <2>1. 0 + 1 = 1  OBVIOUS
  <2> QED BY <1>1, <2>1 DEF Chain
<1> DEFINE T == {k \in 0 .. e : Waiting(c[k])}
           z == [k \in 0 .. e |-> Zero(c[k])]
<1>3. 0 \in T
  <2>1. 0 \in 0 .. e  OBVIOUS
  <2> QED BY <1>2, <2>1
<1>4. ASSUME NEW k \in 0 .. e - 1, k \in T PROVE k + 1 \in T
  <2>1. k + 1 \in 1 .. e /\ k + 1 \in 0 .. e /\ (k + 1) - 1 = k  OBVIOUS
  <2>2. c[k + 1] = After(V[k + 1], c[k])
    <3> DEFINE j == k + 1
    <3>1. c[j] = After(V[j], c[j - 1])  BY <1>2, <2>1
    <3> QED BY <2>1, <3>1
  <2>3. Waiting(V[k + 1]) /\ Waiting(c[k])  BY <1>4, <2>1
  <2>4. Waiting(c[k + 1])  BY <2>2, <2>3, ZeroAfter
  <2> QED BY <2>1, <2>4
<1>5. 0 .. e \subseteq T
  <2> HIDE DEF T
  <2>1. 0 \in Int /\ e \in Int  OBVIOUS
  <2> QED BY <2>1, <1>3, <1>4, Induction
<1>6. z[0] = W[0]
  <2>1. 0 \in 0 .. e  OBVIOUS
  <2>2. Zero(V[0]) = W[0]  BY <2>1 DEF Timely
  <2> QED BY <1>2, <2>1, <2>2
<1>7. ASSUME NEW k \in 1 .. e PROVE z[k] = After(W[k], z[k - 1])
  <2>1. k \in 0 .. e /\ k - 1 \in 0 .. e  OBVIOUS
  <2>2. Waiting(V[k]) /\ Waiting(c[k - 1]) /\ Zero(V[k]) = W[k]  BY <1>5, <2>1 DEF Timely
  <2>3. Zero(After(V[k], c[k - 1])) = After(Zero(V[k]), Zero(c[k - 1]))  BY <2>2, ZeroAfter DEF Timely
  <2>4. z[k] = Zero(c[k]) /\ z[k - 1] = Zero(c[k - 1])  BY <2>1
  <2> QED BY <1>2, <2>2, <2>3, <2>4
<1>8. Zero(F) = z[e]
  <2>1. e \in 0 .. e  OBVIOUS
  <2> QED BY <1>1, <2>1
<1> HIDE DEF z
<1>9. Chain(z, W, 0, e)
  <2>1. 0 + 1 = 1  OBVIOUS
  <2> QED BY <1>6, <1>7, <2>1 DEF Chain
<1> QED BY <1>8, <1>9 DEF Runs

(* The fold without lateness is what is on time of the fold with lateness. *)
LEMMA FoldsMeet ==
  ASSUME Ready, Roomy, NEW q \in Seq(Client)
  PROVE  Timely(Lows(TRUE, WarpFold(q)), Lows(FALSE, ReadyTime(q)))
<1> DEFINE V == Way(TRUE, q)
           W == Way(FALSE, q)
           e == Len(q) + 1
           F == Lows(TRUE, WarpFold(q))
           G == Lows(FALSE, ReadyTime(q))
<1>1. e \in Nat /\ e \in Int /\ 0 \in Int /\ 0 <= e
  <2>1. Len(q) \in Nat  BY LenProperties
  <2> QED BY <2>1
<1>2. Runs(F, V, 0, e)  BY WarpSpans DEF Spans
<1>3. Runs(G, W, 0, e)  BY ReadySpans DEF On, Spans
<1>4. \A k \in 0 .. e : Waiting(V[k]) /\ Timely(V[k], W[k])  BY ZeroWay
<1> HIDE DEF V, W, e, F, G
<1>5. Runs(Zero(F), W, 0, e)  BY <1>1, <1>2, <1>4, ZeroRuns
<1>6. Zero(F) = G  BY <1>1, <1>3, <1>5, RunsUnique
<1> QED BY <1>6 DEF Timely, F, G

(* So they agree on what is on time, and on what that costs. *)
Agreed(q) ==
  LET fold == WarpFold(q)
      eval == EvaluateRoute(q)
  IN  /\ eval.feasible \in BOOLEAN
      /\ eval.feasible => ~Void(fold.rho)
      /\ ~Void(fold.rho) => (Low(fold.omega, Start(fold.omega)) = 0 <=> eval.feasible)
      /\ eval.feasible => MinZeroWarp(fold.rho, fold.omega).value = eval.duration

LEMMA FoldsAgree ==
  ASSUME Ready, Roomy, NEW q \in Seq(Client)
  PROVE  Agreed(q)
<1> DEFINE x == WarpFold(q)
           r == x.rho
           o == x.omega
           y == ReadyTime(q)
           b == Dawn
           s == inst.start
           F == Lows(TRUE, x)
           G == Lows(FALSE, y)
<1>1. b \in Int  BY DeparturesSound
<1>2. Sound(TRUE, x, b, s)
  <2>1. Spans(TRUE, x, Way(TRUE, q), 0, Len(q) + 1, b, s)  BY WarpSpans
  <2> HIDE DEF x, b, s
  <2> QED BY <2>1 DEF Spans
<1>3. Zero(F) = G  BY FoldsMeet DEF Timely
<1>4. F = [t \in DOMAIN r |-> <<Low(r, t), Low(o, t)>>] /\ G = [t \in DOMAIN y |-> <<Low(y, t), 0>>]  BY DEF Lows
<1>5. EvaluateRoute(q) = Evaluation(y)  BY DEF EvaluateRoute
<1>6. Steady(r, b) /\ Steady(o, b) /\ DOMAIN o = DOMAIN r /\ \A t \in DOMAIN r : Low(o, t) >= 0
  <2> HIDE DEF x, b, s
  <2> QED BY <1>2 DEF Sound
<1> HIDE DEF r, o, y, b, s, F, G
<1> DEFINE D == OnTime(o)
<1>7. D = {t \in DOMAIN r : Low(o, t) = 0}  BY <1>6 DEF OnTime
<1> HIDE DEF D
<1>8. DOMAIN y = D /\ \A t \in D : Low(y, t) = Low(r, t)
  <2>1. DOMAIN Zero(F) = {t \in DOMAIN F : F[t][2] = 0} /\ \A t \in DOMAIN Zero(F) : Zero(F)[t] = <<F[t][1], 0>>  BY DEF Zero
  <2>2. DOMAIN F = DOMAIN r /\ \A t \in DOMAIN r : F[t] = <<Low(r, t), Low(o, t)>>  BY <1>4
  <2>3. DOMAIN G = DOMAIN y /\ \A t \in DOMAIN y : G[t] = <<Low(y, t), 0>>  BY <1>4
  <2>4. \A t \in DOMAIN r : F[t][1] = Low(r, t) /\ F[t][2] = Low(o, t)  BY <2>2
  <2>5. DOMAIN Zero(F) = D  BY <1>7, <2>1, <2>2, <2>4
  <2>6. DOMAIN y = D  BY <1>3, <2>3, <2>5
  <2>7. ASSUME NEW t \in D PROVE Low(y, t) = Low(r, t)
    <3>1. Zero(F)[t] = <<F[t][1], 0>> /\ G[t] = <<Low(y, t), 0>>  BY <2>1, <2>3, <2>5, <2>6
    <3>2. <<F[t][1], 0>> = <<Low(y, t), 0>>  BY <1>3, <3>1
    <3>3. F[t][1] = Low(y, t)  BY <3>2
    <3>4. t \in DOMAIN r  BY <1>7
    <3> QED BY <2>4, <3>3, <3>4
  <2> QED BY <2>6, <2>7
<1>9. EvaluateRoute(q).feasible = (D # {})
      /\ (D # {} => EvaluateRoute(q).duration = MinShift(y, D).value)
  <2>1. Evaluation(y) = IF D = {} THEN Infeasible
                        ELSE [feasible |-> TRUE, duration |-> MinShift(y, D).value, departure |-> MinShift(y, D).at]
    BY <1>8 DEF Evaluation, Void
  <2>2. Infeasible.feasible = FALSE  BY DEF Infeasible
  <2>3. CASE D = {}  BY <1>5, <2>1, <2>2, <2>3
  <2>4. CASE D # {}
    <3> DEFINE u == MinShift(y, D).value
               t == MinShift(y, D).at
    <3> HIDE DEF u, t
    <3>1. EvaluateRoute(q) = [feasible |-> TRUE, duration |-> u, departure |-> t]  BY <1>5, <2>1, <2>4 DEF u, t
    <3>2. EvaluateRoute(q).feasible = TRUE /\ EvaluateRoute(q).duration = u  BY <3>1
    <3> QED BY <2>4, <3>2 DEF u
  <2> QED BY <2>3, <2>4
<1>10. MinShift(y, D) = MinShift(r, D)  BY <1>8, MinShiftSame
<1>11. ASSUME NEW t \in DOMAIN r, NEW u \in DOMAIN r, t <= u, u \in D PROVE t \in D
  <2>1. Low(o, t) <= Low(o, u) /\ Low(o, t) >= 0 /\ Low(o, u) = 0  BY <1>6, <1>7, <1>11 DEF Steady
  <2>2. Low(o, t) \in Int  BY <1>6, SteadyLow
  <2>3. Low(o, t) = 0  BY <2>1, <2>2
  <2> QED BY <1>7, <2>3
<1>12. {t \in DOMAIN r : \E u \in D : t <= u} = D
  <2>1. D \subseteq DOMAIN r  BY <1>7
  <2>2. \A t \in D : t \in Int
    <3>1. DOMAIN r = {} \/ \E e \in Int : DOMAIN r = b .. e  BY <1>6 DEF Steady, Begins
    <3> QED BY <2>1, <3>1
  <2>3. \A t \in D : t <= t  BY <2>2
  <2> QED BY <1>11, <2>1, <2>3
<1>13. D # {} => MinZeroWarp(r, o).value = MinShift(r, D).value
  <2>1. MinZeroWarp(r, o) = IF D = {} THEN [feasible |-> FALSE, value |-> 0] ELSE [feasible |-> TRUE, value |-> MinShift(r, D).value]
    BY <1>12 DEF MinZeroWarp, D
  <2> QED BY <2>1
<1>14. D # {} => ~Void(r)  BY <1>7 DEF Void
<1>15. ASSUME ~Void(r) PROVE Low(o, Start(o)) = 0 <=> D # {}
  <2>1. PICK e \in Int : b <= e /\ DOMAIN r = b .. e  BY <1>6, <1>15 DEF Steady, Void, Begins
  <2>2. Start(o) = b /\ b \in DOMAIN r
    <3>1. b \in b .. e  BY <1>1, <2>1
    <3> QED BY <1>1, <1>6, <2>1, <3>1, Interval DEF Start
  <2>3. b \in D <=> Low(o, b) = 0  BY <1>7, <2>2
  <2>4. ASSUME D # {} PROVE b \in D
    <3>1. PICK u \in D : TRUE  BY <2>4
    <3>2. u \in DOMAIN r /\ b <= u  BY <1>7, <2>1
    <3> QED BY <1>11, <2>2, <3>2
  <2> QED BY <2>2, <2>3, <2>4
<1>16. /\ EvaluateRoute(q).feasible \in BOOLEAN
       /\ EvaluateRoute(q).feasible => ~Void(r)
       /\ ~Void(r) => (Low(o, Start(o)) = 0 <=> EvaluateRoute(q).feasible)
       /\ EvaluateRoute(q).feasible => MinZeroWarp(r, o).value = EvaluateRoute(q).duration
  <2>1. D # {} <=> EvaluateRoute(q).feasible  BY <1>9
  <2>2. EvaluateRoute(q).feasible \in BOOLEAN  BY <1>9
  <2>3. ~Void(r) => (Low(o, Start(o)) = 0 <=> EvaluateRoute(q).feasible)  BY <1>15, <2>1
  <2>4. EvaluateRoute(q).feasible => MinZeroWarp(r, o).value = EvaluateRoute(q).duration  BY <1>9, <1>10, <1>13, <2>1
  <2> QED BY <1>14, <2>1, <2>2, <2>3, <2>4
<1> QED BY <1>16 DEF Agreed, r, o

LEMMA StandingPlain == Standing => WarpIsPlain
<1> SUFFICES ASSUME Standing PROVE WarpIsPlain  OBVIOUS
<1>1. Ready /\ Roomy  BY StandingReady, HorizonIs DEF Roomy
<1>2. ASSUME NEW k \in Built(warped)
      PROVE  LET eval == EvaluateRoute(warped[k].vertices)
             IN  /\ (warped[k].minWarp = 0) = eval.feasible
                 /\ eval.feasible => warped[k].duration = eval.duration
  <2>1. k \in Slots /\ warped[k] # NoState /\ Lately(warped[k])  BY DEF Built, Standing
  <2>2. PICK q \in Seq(Client) : q # <<>> /\ warped[k] = BuildWarpRouteState(q)  BY <2>1 DEF Lately
  <2> DEFINE fold == WarpFold(q)
             eval == EvaluateRoute(q)
  <2>3. /\ warped[k].vertices = q /\ warped[k].minWarp = Low(fold.omega, Start(fold.omega))
        /\ warped[k].duration = MinZeroWarp(fold.rho, fold.omega).value /\ ~Void(fold.rho)
    BY <2>1, <2>2, WarpState
  <2>4. Agreed(q)  BY <1>1, FoldsAgree
  <2>5. /\ eval.feasible \in BOOLEAN
        /\ ~Void(fold.rho) => (Low(fold.omega, Start(fold.omega)) = 0 <=> eval.feasible)
        /\ eval.feasible => MinZeroWarp(fold.rho, fold.omega).value = eval.duration
    BY <2>4 DEF Agreed
  <2> HIDE DEF fold, eval
  <2>6. (warped[k].minWarp = 0) = eval.feasible  BY <2>3, <2>5
  <2>7. eval.feasible => warped[k].duration = eval.duration  BY <2>3, <2>5
  <2> QED BY <2>3, <2>6, <2>7 DEF eval
<1>3. ASSUME NEW k \in Built(plain)
      PROVE  LET state == BuildWarpRouteState(plain[k].vertices)
             IN  state # NoState /\ state.minWarp = 0 /\ state.duration = plain[k].duration
  <2>1. k \in Slots /\ plain[k] # NoState /\ Plainly(plain[k])  BY DEF Built, Standing
  <2>2. PICK q \in Seq(Client) : q # <<>> /\ plain[k] = BuildRouteState(q)  BY <2>1 DEF Plainly
  <2> DEFINE fold == WarpFold(q)
             eval == EvaluateRoute(q)
             state == BuildWarpRouteState(q)
  <2>3. plain[k].vertices = q /\ plain[k].duration = eval.duration /\ eval.feasible  BY <2>1, <2>2, PlainState
  <2>4. Agreed(q)  BY <1>1, FoldsAgree
  <2>5. /\ ~Void(fold.rho) /\ (Low(fold.omega, Start(fold.omega)) = 0 <=> eval.feasible)
        /\ MinZeroWarp(fold.rho, fold.omega).value = eval.duration
    BY <2>3, <2>4 DEF Agreed
  <2>6. state.vertices = q  BY <2>5 DEF BuildWarpRouteState
  <2>7. state # NoState  BY <2>2, <2>6 DEF NoState
  <2>8. state.minWarp = Low(fold.omega, Start(fold.omega)) /\ state.duration = MinZeroWarp(fold.rho, fold.omega).value
    BY <2>7, WarpState
  <2> HIDE DEF fold, eval, state
  <2>9. state.minWarp = 0 /\ state.duration = plain[k].duration  BY <2>3, <2>5, <2>8
  <2> QED BY <2>3, <2>7, <2>9 DEF state
<1> QED BY <1>2, <1>3 DEF WarpIsPlain

(* What the squeeze takes for on time is what the fold without lateness can build, at
   the same duration, for any instance, clients and route. *)
THEOREM WarpAgrees == Spec => []WarpIsPlain
<1>1. Spec => []Standing  BY StatesStand
<1>2. Standing => WarpIsPlain  BY StandingPlain
<1> QED BY <1>1, <1>2, PTL

-----------------------------------------------------------------------------
(* The fleet descent: types *)

LEMMA RouteFacts ==
  ASSUME NEW q \in Route
  PROVE  /\ q \in Seq(Client) /\ q # <<>>
         /\ DOMAIN q = 1 .. Len(q) /\ Len(q) \in Nat \ {0}
<1>1. q \in Seq(Client) /\ q # <<>> BY FleetAssumption
<1> QED BY <1>1, EmptySeq, LenProperties

LEMMA PlaceParts ==
  ASSUME NEW c, NEW x \in Places(c)
  PROVE  /\ x[1] \in routes /\ x[2] \in 0 .. Len(x[1])
         /\ Insert(x[1], x[2], c) \in Route
BY DEF Places

LEMMA WindowParts ==
  ASSUME NEW c, NEW w \in Least(c)
  PROVE  w[1] \in routes /\ w[2] \in DOMAIN w[1] /\ w[3] \in DOMAIN w[1] /\ w[2] <= w[3]
<1>1. w \in Ejectable(c) BY DEF Least
<1> QED BY <1>1 DEF Ejectable

LEMMA TypeInit == FleetInit => TypeOK
<1> SUFFICES ASSUME FleetInit PROVE TypeOK OBVIOUS
<1>1. Complete(routes) BY FleetAssumption DEF FleetInit
<1>2. routes \subseteq Route BY <1>1 DEF Complete
<1>3. 0 \in 0 .. EpBudget /\ 0 \in 0 .. FdAttempts /\ 0 \in 0 .. MaxPhases BY FleetAssumption
<1> QED BY <1>2, <1>3, EmptySeq DEF FleetInit, TypeOK

LEMMA PopTypes ==
  ASSUME TypeOK, NEW i \in DOMAIN pool, Pop(i)
  PROVE  /\ UNCHANGED <<cfg, snap, expired, attempt, phases>>
         /\ left' \in 0 .. EpBudget /\ spent' \in BOOLEAN
         /\ pool[i] \in Client /\ Rest(i) \in Seq(Client)
<1>1. left \in 0 .. EpBudget /\ EpBudget \in Nat /\ left > 0 /\ left' = left - 1
  BY FleetAssumption DEF TypeOK, Pop, Popping
<1>2. pool \in Seq(Client) BY DEF TypeOK
<1>3. pool[i] \in Client BY <1>2, ElementOfSeq, LenProperties
<1>4. Rest(i) \in Seq(Client) BY <1>2, WithoutParts DEF Rest
<1>5. left' \in 0 .. EpBudget BY <1>1
<1>6. UNCHANGED <<cfg, snap, expired, attempt, phases>> /\ spent' \in BOOLEAN BY DEF Pop
<1> QED BY <1>3, <1>4, <1>5, <1>6

LEMMA TypeStep == TypeOK /\ [FleetNext]_fleetVars => TypeOK'
<1> SUFFICES ASSUME TypeOK, [FleetNext]_fleetVars PROVE TypeOK' OBVIOUS
<1> USE DEF attemptVars, clocks
<1>0. EpBudget \in Nat /\ FdAttempts \in Nat /\ MaxPhases \in Nat
  BY FleetAssumption
<1>1. CASE Trigger
  <2>1. routes' \subseteq Route
    <3>1. Complete(routes') BY <1>1, FleetAssumption DEF Trigger
    <3> QED BY <3>1 DEF Complete
  <2>2. phases' \in 0 .. MaxPhases /\ attempt' \in 0 .. FdAttempts BY <1>0, <1>1 DEF Trigger, TypeOK
  <2> QED BY <1>1, <2>1, <2>2 DEF Trigger, TypeOK
<1>2. CASE Tick BY <1>2 DEF Tick, TypeOK
<1>3. CASE GiveUp BY <1>3 DEF GiveUp, TypeOK
<1>4. CASE TooFew BY <1>0, <1>4 DEF TooFew, MayTry, TypeOK
<1>5. CASE Dissolve
  <2>1. PICK victim \in routes : pool' = victim /\ routes' = routes \ {victim}
    BY <1>5 DEF Dissolve, Victims
  <2>2. pool' \in Seq(Client) /\ routes' \subseteq Route
    <3>1. victim \in Route BY DEF TypeOK
    <3> QED BY <2>1, <3>1, RouteFacts DEF TypeOK
  <2>3. left' \in 0 .. EpBudget /\ attempt' \in 0 .. FdAttempts
    BY <1>0, <1>5 DEF Dissolve, MayTry, TypeOK
  <2> QED BY <1>5, <2>2, <2>3 DEF Dissolve, TypeOK
<1>6. CASE Abort BY <1>6, EmptySeq DEF Abort, RollBack, TypeOK
<1>7. ASSUME NEW i \in DOMAIN pool, PlacePopped(i) PROVE TypeOK'
  <2>1. Pop(i) /\ UNCHANGED <<pc, pcount>> /\ pool' = Rest(i) BY <1>7 DEF PlacePopped
  <2>2. routes' \subseteq Route BY <1>7, PlaceParts DEF PlacePopped, TypeOK
  <2> QED BY <2>1, <2>2, PopTypes DEF TypeOK
<1>8. ASSUME NEW i \in DOMAIN pool, Rescue(i) PROVE TypeOK'
  <2>1. Pop(i) /\ UNCHANGED <<pc, pcount>> /\ pool' = Rest(i) /\ routes' \in Rescued BY <1>8 DEF Rescue
  <2>2. routes' \subseteq Route BY <2>1, FleetAssumption
  <2> QED BY <2>1, <2>2, PopTypes DEF TypeOK
<1>9. ASSUME NEW i \in DOMAIN pool, Eject(i) PROVE TypeOK'
  <2>1. Pop(i) /\ CountFailure(pool[i]) /\ UNCHANGED pc BY <1>9 DEF Eject
  <2>2. PICK w \in Least(pool[i]) :
          /\ Replace(w[1], w[2], w[3], pool[i]) \in Route
          /\ routes' = (routes \ {w[1]}) \cup {Replace(w[1], w[2], w[3], pool[i])}
          /\ pool' = Rest(i) \o SubSeq(w[1], w[2], w[3])
    BY <1>9 DEF Eject
  <2>3. w[1] \in Route /\ w[2] \in DOMAIN w[1] /\ w[3] \in DOMAIN w[1]
    BY WindowParts DEF TypeOK
  <2>4. SubSeq(w[1], w[2], w[3]) \in Seq(Client)
    BY <2>3, RouteFacts, Stretch
  <2>5. pool' \in Seq(Client) BY <2>1, <2>2, <2>4, PopTypes, ConcatProperties
  <2>6. pcount' \in [Client -> Nat] BY <2>1, PopTypes DEF CountFailure, TypeOK
  <2>7. routes' \subseteq Route BY <2>2 DEF TypeOK
  <2> QED BY <2>1, <2>5, <2>6, <2>7, PopTypes DEF TypeOK
<1>10. ASSUME NEW i \in DOMAIN pool, DeadEnd(i) PROVE TypeOK'
  <2>1. Pop(i) /\ CountFailure(pool[i]) /\ RollBack BY <1>10 DEF DeadEnd
  <2>2. pcount' \in [Client -> Nat] BY <2>1, PopTypes DEF CountFailure, TypeOK
  <2> QED BY <2>1, <2>2, PopTypes, EmptySeq DEF RollBack, TypeOK
<1>11. CASE Success BY <1>11 DEF Success, TypeOK
<1>12. CASE UNCHANGED fleetVars BY <1>12 DEF fleetVars, TypeOK
<1> QED BY <1>1, <1>2, <1>3, <1>4, <1>5, <1>6, <1>7, <1>8, <1>9, <1>10, <1>11, <1>12
        DEF FleetNext, Step

(* A phase keeps its state in its types; the pop budget is never overdrawn. *)
THEOREM Typing == FleetSpec => []TypeOK
BY TypeInit, TypeStep, PTL DEF FleetSpec
-----------------------------------------------------------------------------
(* The fleet descent: clients *)

(* Between attempts the solution is complete and the pool empty; within one the
   snapshot is complete and has more routes. *)
AllOrNothing ==
  IF pc = "Drain"
  THEN Complete(snap) /\ IsFiniteSet(routes) /\ Cardinality(routes) < Cardinality(snap)
  ELSE Complete(routes) /\ pool = <<>>

Unbroken == TypeOK /\ NothingLost /\ AllOrNothing

LEMMA CompleteLosesNothing ==
  ASSUME NEW S, Complete(S)
  PROVE  /\ Packed(S) /\ Served(S) \cup Members(<<>>) = Client
         /\ Served(S) \cap Members(<<>>) = {} /\ Simple(<<>>)
<1>1. Members(<<>>) = {} BY DEF Members
<1>2. Simple(<<>>) BY DEF Simple
<1> QED BY <1>1, <1>2 DEF Complete

LEMMA SoundInit == FleetInit => Unbroken
<1> SUFFICES ASSUME FleetInit PROVE Unbroken OBVIOUS
<1>1. Complete(routes) /\ pool = <<>> /\ pc = "Out" BY FleetAssumption DEF FleetInit
<1>2. NothingLost BY <1>1, CompleteLosesNothing DEF NothingLost
<1> QED BY <1>1, <1>2, TypeInit DEF Unbroken, AllOrNothing

LEMMA RollBackSound ==
  ASSUME Unbroken, pc = "Drain", RollBack
  PROVE  NothingLost' /\ AllOrNothing'
<1>1. Complete(routes') /\ pool' = <<>> /\ pc' = "Trying" BY DEF Unbroken, AllOrNothing, RollBack
<1>2. NothingLost' BY <1>1, CompleteLosesNothing DEF NothingLost
<1> QED BY <1>1, <1>2 DEF AllOrNothing

(* A route is replaced by one, and the routes do not grow in number. *)
LEMMA OneForOne ==
  ASSUME NEW S, IsFiniteSet(S), NEW q \in S, NEW s
  PROVE  IsFiniteSet((S \ {q}) \cup {s}) /\ Cardinality((S \ {q}) \cup {s}) <= Cardinality(S)
<1>1. IsFiniteSet(S \ {q}) /\ Cardinality(S \ {q}) = Cardinality(S) - 1
  BY FS_RemoveElement
<1>2. /\ IsFiniteSet((S \ {q}) \cup {s})
      /\ Cardinality((S \ {q}) \cup {s})
           = IF s \in S \ {q} THEN Cardinality(S \ {q}) ELSE Cardinality(S \ {q}) + 1
  BY <1>1, FS_AddElement
<1>3. Cardinality(S) \in Nat BY FS_CardinalityType
<1> QED BY <1>1, <1>2, <1>3

LEMMA FewerStill ==
  ASSUME Unbroken, pc = "Drain", UNCHANGED <<pc, snap>>,
         IsFiniteSet(routes'), Cardinality(routes') <= Cardinality(routes)
  PROVE  AllOrNothing'
<1>1. /\ Complete(snap) /\ IsFiniteSet(routes) /\ IsFiniteSet(snap)
      /\ Cardinality(routes) < Cardinality(snap)
  BY DEF Unbroken, AllOrNothing, Complete
<1>2. /\ Cardinality(routes) \in Nat /\ Cardinality(routes') \in Nat /\ Cardinality(snap) \in Nat
  BY <1>1, FS_CardinalityType
<1>3. Cardinality(routes') < Cardinality(snap) BY <1>1, <1>2
<1> QED BY <1>1, <1>3 DEF AllOrNothing

LEMMA PoppedFacts ==
  ASSUME Unbroken, NEW i \in DOMAIN pool
  PROVE  /\ pool[i] \in Client /\ pool[i] \in Members(pool) /\ pool[i] \notin Served(routes)
         /\ Rest(i) \in Seq(Client) /\ Simple(Rest(i))
         /\ Members(Rest(i)) = Members(pool) \ {pool[i]}
<1>1. pool \in Seq(Client) /\ Simple(pool) BY DEF Unbroken, TypeOK, NothingLost
<1>2. pool[i] \in Client /\ pool[i] \in Members(pool) BY <1>1, ElementOfSeq, LenProperties DEF Members
<1>3. /\ Rest(i) \in Seq(Client) /\ Simple(Rest(i))
      /\ Members(Rest(i)) = Members(pool) \ {pool[i]}
  BY <1>1, WithoutVisits DEF Rest
<1> QED BY <1>2, <1>3 DEF Unbroken, NothingLost

(* The popped client enters route q, and the clients D leave it for the pool. *)
LEMMA RouteChanges ==
  ASSUME Unbroken, NEW i \in DOMAIN pool, NEW q \in routes, NEW s, NEW D \in SUBSET Members(q),
         Simple(s), Members(s) = (Members(q) \ D) \cup {pool[i]},
         routes' = (routes \ {q}) \cup {s},
         Simple(pool'), Members(pool') = Members(Rest(i)) \cup D
  PROVE  NothingLost'
<1>1. Packed(routes) BY DEF Unbroken, NothingLost
<1>2. Served({q}) = Members(q) /\ Served({s}) = Members(s) /\ Packed({s})
  BY DEF Served, Packed
<1>3. Served(routes \ {q}) = Served(routes) \ Members(q)
  <2>1. {q} \in SUBSET routes OBVIOUS
  <2>2. Served(routes \ {q}) = Served(routes) \ Served({q}) BY <1>1, <2>1, ServedRest
  <2> QED BY <1>2, <2>2
<1>4. pool[i] \notin Served(routes) /\ Members(Rest(i)) = Members(pool) \ {pool[i]}
      /\ pool[i] \in Members(pool)
  BY PoppedFacts
<1>5. Members(q) \subseteq Served(routes) BY DEF Served
<1>6. Packed(routes')
  <2>1. {q} \in SUBSET routes OBVIOUS
  <2>2. Served({s}) \cap Served(routes \ {q}) = {} BY <1>2, <1>3, <1>4
  <2>3. Packed((routes \ {q}) \cup {s}) BY <1>1, <1>2, <2>1, <2>2, Repacked
  <2> QED BY <2>3
<1>7. Served(routes') = (Served(routes) \ D) \cup {pool[i]}
  <2>1. Served(routes') = Served(routes \ {q}) \cup Members(s) BY DEF Served
  <2> QED BY <2>1, <1>3, <1>5
<1>8. Served(routes) \cap Members(pool) = {} /\ Served(routes) \cup Members(pool) = Client
  BY DEF Unbroken, NothingLost
<1>9. Served(routes') \cap Members(pool') = {}
  BY <1>4, <1>5, <1>7, <1>8
<1>10. Served(routes') \cup Members(pool') = Client
  BY <1>4, <1>5, <1>7, <1>8
<1> QED BY <1>6, <1>9, <1>10 DEF NothingLost

LEMMA DissolveSound == ASSUME Unbroken, Dissolve PROVE NothingLost' /\ AllOrNothing'
<1>1. PICK victim \in routes : pool' = victim /\ routes' = routes \ {victim}
  BY DEF Dissolve, Victims
<1>2. snap' = routes /\ pc' = "Drain" /\ pc = "Trying" BY DEF Dissolve
<1>3. Complete(routes) BY <1>2 DEF Unbroken, AllOrNothing
<1>4. Packed(routes) /\ IsFiniteSet(routes) /\ Served(routes) = Client BY <1>3 DEF Complete
<1>5. Served({victim}) = Members(victim) /\ Simple(victim) BY <1>4 DEF Served, Packed
<1>6. Served(routes') = Client \ Members(victim) BY <1>1, <1>4, <1>5, ServedRest
<1>7. Members(victim) \subseteq Client BY <1>4 DEF Served
<1>8. Packed(routes') BY <1>1, <1>4 DEF Packed
<1>9. NothingLost' BY <1>1, <1>5, <1>6, <1>7, <1>8 DEF NothingLost
<1>10. IsFiniteSet(routes') /\ Cardinality(routes') < Cardinality(routes)
  <2>1. IsFiniteSet(routes \ {victim}) /\ Cardinality(routes \ {victim}) = Cardinality(routes) - 1
    BY <1>4, FS_RemoveElement
  <2>2. Cardinality(routes) \in Nat BY <1>4, FS_CardinalityType
  <2> QED BY <1>1, <2>1, <2>2
<1>11. Complete(snap') /\ Cardinality(routes') < Cardinality(snap') BY <1>2, <1>3, <1>10
<1> QED BY <1>2, <1>9, <1>10, <1>11 DEF AllOrNothing

LEMMA PlaceSound == ASSUME Unbroken, NEW i \in DOMAIN pool, PlacePopped(i) PROVE NothingLost' /\ AllOrNothing'
<1>1. PICK x \in Places(pool[i]) : routes' = (routes \ {x[1]}) \cup {Insert(x[1], x[2], pool[i])}
  BY DEF PlacePopped
<1>2. pool' = Rest(i) /\ UNCHANGED <<pc, snap>> /\ pc = "Drain" BY DEF PlacePopped, Pop, Popping
<1>3. PICK q \in routes, p \in 0 .. Len(x[1]) : q = x[1] /\ p = x[2] BY PlaceParts
<1>4. /\ q \in Seq(Client) /\ Simple(q) /\ pool[i] \in Client /\ pool[i] \notin Members(q)
  <2>1. q \in Route /\ Simple(q) BY DEF Unbroken, TypeOK, NothingLost, Packed
  <2>2. Members(q) \subseteq Served(routes) BY DEF Served
  <2> QED BY <2>1, <2>2, RouteFacts, PoppedFacts
<1>5. /\ Simple(Insert(q, p, pool[i]))
      /\ Members(Insert(q, p, pool[i])) = (Members(q) \ {}) \cup {pool[i]}
  <2>1. p \in 0 .. Len(q) BY <1>3
  <2> QED BY <1>4, <2>1, InsertVisits
<1>6. routes' = (routes \ {q}) \cup {Insert(q, p, pool[i])} BY <1>1, <1>3
<1>7. Simple(pool') /\ Members(pool') = Members(Rest(i)) \cup {} BY <1>2, PoppedFacts
<1>8. NothingLost'
  <2>1. {} \in SUBSET Members(q) OBVIOUS
  <2> QED BY <1>5, <1>6, <1>7, <2>1, RouteChanges
<1>9. IsFiniteSet(routes) BY <1>2 DEF Unbroken, AllOrNothing
<1>10. IsFiniteSet(routes') /\ Cardinality(routes') <= Cardinality(routes) BY <1>6, <1>9, OneForOne
<1> QED BY <1>2, <1>8, <1>10, FewerStill

LEMMA RescueSound == ASSUME Unbroken, NEW i \in DOMAIN pool, Rescue(i) PROVE NothingLost' /\ AllOrNothing'
<1>1. /\ pool' = Rest(i) /\ UNCHANGED <<pc, snap>> /\ pc = "Drain" /\ routes' \in Rescued
      /\ Served(routes') = Served(routes) \cup {pool[i]}
      /\ Cardinality(routes') <= Cardinality(routes)
  BY DEF Rescue, Pop, Popping
<1>2. Packed(routes') /\ IsFiniteSet(routes') BY <1>1, FleetAssumption
<1>3. /\ Simple(Rest(i)) /\ Members(Rest(i)) = Members(pool) \ {pool[i]}
      /\ pool[i] \in Members(pool) /\ pool[i] \in Client
  BY PoppedFacts
<1>4. NothingLost' BY <1>1, <1>2, <1>3 DEF Unbroken, NothingLost
<1> QED BY <1>1, <1>2, <1>4, FewerStill

LEMMA EjectSound == ASSUME Unbroken, NEW i \in DOMAIN pool, Eject(i) PROVE NothingLost' /\ AllOrNothing'
<1>1. PICK w \in Least(pool[i]) :
        /\ routes' = (routes \ {w[1]}) \cup {Replace(w[1], w[2], w[3], pool[i])}
        /\ pool' = Rest(i) \o SubSeq(w[1], w[2], w[3])
  BY DEF Eject
<1>2. UNCHANGED <<pc, snap>> /\ pc = "Drain" BY DEF Eject, Pop, Popping
<1>3. PICK q \in routes : q = w[1] BY WindowParts
<1>4. PICK a \in DOMAIN q, b \in DOMAIN q : a = w[2] /\ b = w[3] /\ a <= b BY <1>3, WindowParts
<1>5. /\ q \in Seq(Client) /\ Simple(q) /\ pool[i] \in Client /\ pool[i] \notin Members(q)
      /\ Members(q) \subseteq Served(routes)
  <2>1. q \in Route /\ Simple(q) BY DEF Unbroken, TypeOK, NothingLost, Packed
  <2>2. Members(q) \subseteq Served(routes) BY DEF Served
  <2> QED BY <2>1, <2>2, RouteFacts, PoppedFacts
<1> DEFINE s == Replace(q, a, b, pool[i])
           out == SubSeq(q, a, b)
           D == {q[k] : k \in a .. b}
<1>6. Simple(s) /\ Members(s) = (Members(q) \ D) \cup {pool[i]}
  BY <1>4, <1>5, ReplaceVisits
<1>7. out \in Seq(Client) /\ Simple(out) /\ Members(out) = D
  BY <1>5, StretchVisits
<1>8. D \subseteq Members(q)
  <2>1. DOMAIN q = 1 .. Len(q) /\ Len(q) \in Nat BY <1>5, LenProperties
  <2>2. a .. b \subseteq DOMAIN q BY <2>1
  <2> QED BY <2>2 DEF Members
<1>9. /\ Rest(i) \in Seq(Client) /\ Simple(Rest(i)) /\ Members(Rest(i)) \cap D = {}
  <2>1. Served(routes) \cap Members(pool) = {} BY DEF Unbroken, NothingLost
  <2>2. Members(Rest(i)) \subseteq Members(pool) BY PoppedFacts
  <2>3. D \subseteq Served(routes) BY <1>5, <1>8
  <2> HIDE DEF D
  <2> QED BY <2>1, <2>2, <2>3, PoppedFacts
<1>10. pool' = Rest(i) \o out BY <1>1, <1>3, <1>4
<1>11. Simple(pool') /\ Members(pool') = Members(Rest(i)) \cup D
  <2> HIDE DEF out, D
  <2>1. Simple(Rest(i) \o out) /\ Members(Rest(i) \o out) = Members(Rest(i)) \cup Members(out)
    BY <1>7, <1>9, JoinVisits
  <2> QED BY <1>7, <1>10, <2>1
<1>12. routes' = (routes \ {q}) \cup {s} BY <1>1, <1>3, <1>4
<1>13. NothingLost'
  <2> HIDE DEF s, out, D
  <2>1. D \in SUBSET Members(q) BY <1>8
  <2> QED BY <1>6, <1>11, <1>12, <2>1, RouteChanges
<1>14. IsFiniteSet(routes) BY <1>2 DEF Unbroken, AllOrNothing
<1>15. IsFiniteSet(routes') /\ Cardinality(routes') <= Cardinality(routes) BY <1>12, <1>14, OneForOne
<1> QED BY <1>2, <1>13, <1>15, FewerStill

LEMMA SoundStep == Unbroken /\ [FleetNext]_fleetVars => Unbroken'
<1> SUFFICES ASSUME Unbroken, [FleetNext]_fleetVars PROVE Unbroken' OBVIOUS
<1> USE DEF attemptVars, clocks
<1>0. TypeOK' BY TypeStep DEF Unbroken
<1>1. CASE Trigger
  <2>1. Complete(routes') /\ pool' = <<>> /\ pc' = "Trying"
    BY <1>1, FleetAssumption DEF Trigger, Unbroken, AllOrNothing
  <2>2. NothingLost' BY <2>1, CompleteLosesNothing DEF NothingLost
  <2> QED BY <1>0, <2>1, <2>2 DEF Unbroken, AllOrNothing
<1>2. CASE Dissolve BY <1>0, <1>2, DissolveSound DEF Unbroken
<1>3. CASE Abort BY <1>0, <1>3, RollBackSound DEF Abort, Unbroken
<1>4. ASSUME NEW i \in DOMAIN pool, PlacePopped(i) PROVE Unbroken' BY <1>0, <1>4, PlaceSound DEF Unbroken
<1>5. ASSUME NEW i \in DOMAIN pool, Rescue(i) PROVE Unbroken' BY <1>0, <1>5, RescueSound DEF Unbroken
<1>6. ASSUME NEW i \in DOMAIN pool, Eject(i) PROVE Unbroken' BY <1>0, <1>6, EjectSound DEF Unbroken
<1>7. ASSUME NEW i \in DOMAIN pool, DeadEnd(i) PROVE Unbroken'
  BY <1>0, <1>7, RollBackSound DEF DeadEnd, Pop, Popping, Unbroken
<1>8. CASE Success
  <2>1. pc' = "Out" /\ pool = <<>> /\ UNCHANGED <<routes, pool>> /\ pc = "Drain" BY <1>8 DEF Success
  <2>2. NothingLost' BY <2>1 DEF Unbroken, NothingLost
  <2>3. Complete(routes')
    <3>1. Members(<<>>) = {} BY DEF Members
    <3>2. Served(routes) = Client BY <2>1, <3>1 DEF Unbroken, NothingLost
    <3> QED BY <2>1, <3>2 DEF Unbroken, TypeOK, NothingLost, AllOrNothing, Complete
  <2> QED BY <1>0, <2>1, <2>2, <2>3 DEF Unbroken, AllOrNothing
<1>9. CASE Tick \/ GiveUp \/ TooFew \/ UNCHANGED fleetVars
  <2>1. UNCHANGED <<routes, pool, snap>> /\ (pc' = "Drain" <=> pc = "Drain")
    BY <1>9 DEF Tick, GiveUp, TooFew, fleetVars
  <2> QED BY <1>0, <2>1 DEF Unbroken, NothingLost, AllOrNothing
<1> QED BY <1>1, <1>2, <1>3, <1>4, <1>5, <1>6, <1>7, <1>8, <1>9 DEF FleetNext, Step

(* No insertion, rescue, ejection or roll-back loses or doubles a client. *)
THEOREM NothingLostHolds == FleetSpec => []NothingLost
<1>1. Unbroken => NothingLost BY DEF Unbroken
<1> QED BY <1>1, SoundInit, SoundStep, PTL DEF FleetSpec

-----------------------------------------------------------------------------
(* A phase is all or nothing: it hands back the solution it was given, or a
   complete one with fewer routes. *)
THEOREM FleetDescentDrops == FleetSpec => DropContract
<1> DEFINE sol == IF pc = "Drain" THEN snap ELSE routes
           running == pc # "Out"
<1>1. FleetInit => Drop!Init
  <2> SUFFICES ASSUME FleetInit PROVE Drop!Init OBVIOUS
  <2> QED BY FleetAssumption DEF FleetInit, Drop!Init
<1>2. Unbroken /\ Unbroken' /\ [FleetNext]_fleetVars => [Drop!Begin \/ Drop!End]_<<sol, running>>
  <2> SUFFICES ASSUME Unbroken, Unbroken', [FleetNext]_fleetVars
               PROVE  Drop!Begin \/ Drop!End \/ UNCHANGED <<sol, running>>
    OBVIOUS
  <2> USE DEF attemptVars, clocks
  <2>1. CASE Trigger
    BY <2>1, FleetAssumption DEF Trigger, Drop!Begin
  <2>2. CASE Success
    <3>1. pc = "Drain" /\ pc' = "Out" /\ UNCHANGED routes BY <2>2 DEF Success
    <3>2. Complete(routes') /\ Cardinality(routes') < Cardinality(snap)
      BY <3>1 DEF Unbroken, AllOrNothing
    <3>3. \A S : Drop!Cardinality(S) = Cardinality(S) BY DEF Drop!Cardinality, Cardinality
    <3> QED BY <3>1, <3>2, <3>3 DEF Drop!End
  <2>3. CASE GiveUp
    BY <2>3 DEF GiveUp, Drop!End
  <2>4. CASE Dissolve BY <2>4 DEF Dissolve
  <2>5. CASE Abort BY <2>5 DEF Abort, RollBack
  <2>6. ASSUME NEW i \in DOMAIN pool, PlacePopped(i) \/ Rescue(i) \/ Eject(i)
        PROVE  UNCHANGED <<sol, running>>
    BY <2>6 DEF PlacePopped, Rescue, Eject, Pop, Popping
  <2>7. ASSUME NEW i \in DOMAIN pool, DeadEnd(i) PROVE UNCHANGED <<sol, running>>
    BY <2>7 DEF DeadEnd, RollBack, Pop, Popping
  <2>8. CASE Tick \/ TooFew \/ UNCHANGED fleetVars
    BY <2>8 DEF Tick, TooFew, fleetVars
  <2> QED BY <2>1, <2>2, <2>3, <2>4, <2>5, <2>6, <2>7, <2>8 DEF FleetNext, Step
<1> QED BY <1>1, <1>2, SoundInit, SoundStep, PTL DEF FleetSpec, DropContract, Drop!Spec
=============================================================================

--------------------------- MODULE LabelingProofs ----------------------------
(***************************************************************************)
(* What the labeling leaves in its pool is real, for every instance, every *)
(* problem and every order of its steps.  And no path is processed twice,  *)
(* and a route that is a course from either of its ends is chased by both  *)
(* searches until it is merged (LabelingBestProofs says which are).        *)
(***************************************************************************)
EXTENDS Labeling, CommonLemmas, FiniteSetTheorems

-----------------------------------------------------------------------------
(* Least and greatest members. *)
LEMMA MinIs ==
  ASSUME NEW S, S \subseteq Int, S # {}, NEW a \in Int, \A x \in S : a <= x
  PROVE  Min(S) \in S /\ \A y \in S : Min(S) <= y
<1>1. \E x \in S : \A y \in S : x <= y
  BY LeastInt
<1> QED BY <1>1 DEF Min

LEMMA MaxIs ==
  ASSUME NEW S, S \subseteq Int, S # {}, NEW b \in Int, \A x \in S : x <= b
  PROVE  Max(S) \in S /\ \A y \in S : y <= Max(S)
<1>1. \E x \in S : \A y \in S : x >= y
  BY GreatestInt
<1>2. Max(S) \in S /\ \A y \in S : Max(S) >= y
  BY <1>1 DEF Max
<1> QED BY <1>2

LEMMA MaxOfTwo ==
  ASSUME NEW a \in Int, NEW b \in Int
  PROVE  Max({a, b}) = IF a >= b THEN a ELSE b
<1> DEFINE c == IF a >= b THEN a ELSE b
<1>1. c \in Int /\ \A x \in {a, b} : x <= c
  OBVIOUS
<1>2. {a, b} \subseteq Int /\ {a, b} # {}
  OBVIOUS
<1>3. Max({a, b}) \in {a, b} /\ \A y \in {a, b} : y <= Max({a, b})
  BY <1>1, <1>2, MaxIs
<1> QED BY <1>3

LEMMA MinOfTwo ==
  ASSUME NEW a \in Int, NEW b \in Int
  PROVE  Min({a, b}) = IF a <= b THEN a ELSE b
<1> DEFINE c == IF a <= b THEN a ELSE b
<1>1. c \in Int /\ \A x \in {a, b} : c <= x
  OBVIOUS
<1>2. {a, b} \subseteq Int /\ {a, b} # {}
  OBVIOUS
<1>3. Min({a, b}) \in {a, b} /\ \A y \in {a, b} : Min({a, b}) <= y
  BY <1>1, <1>2, MinIs
<1> QED BY <1>3

-----------------------------------------------------------------------------
(* The instance.  x is a time at which one may have been served at v. *)
Sane(raw) == N \in Nat \ {0} /\ T \in Nat /\ Never \in Nat /\ Proper(raw)

Fits(raw, v, x) ==
  x \in Int /\ raw.lo[v] <= x - raw.service[v] /\ x - raw.service[v] <= raw.hi[v]

(* An arrival function: nobody is late for its window or overtakes, and whoever leaves
   earlier may drive, too. *)
Drivable(raw, a, f) ==
  /\ DOMAIN f \subseteq 0..T
  /\ \A t \in DOMAIN f : /\ Fits(raw, a[1], t) /\ Fits(raw, a[2], f[t])
                         /\ f[t] \in Int /\ t <= f[t] /\ f[t] < Never
  /\ \A t \in DOMAIN f, x \in Int :
       Fits(raw, a[1], x) /\ x <= t => x \in DOMAIN f /\ f[x] <= f[t]

LEMMA RawSane ==
  ASSUME NEW k \in DOMAIN Raw
  PROVE  Sane(Raw[k])
BY LabelingAssumption DEF Sane

LEMMA Vertices ==
  ASSUME N \in Nat \ {0}
  PROVE  /\ Start \in Vertex /\ End \in Vertex /\ Customer \subseteq Vertex
         /\ Start \notin Customer /\ End \notin Customer /\ Start # End
         /\ Vertex = Customer \cup {Start, End}
         /\ \A a \in Arc : a = <<a[1], a[2]>> /\ a[1] \in Vertex /\ a[2] \in Vertex
         /\ Vertex \subseteq Int
BY DEF Start, End, Vertex, Customer, Arc

(* What folding makes of an arrival function. *)
LEMMA FoldedIs ==
  ASSUME NEW raw, Sane(raw), NEW a \in Arc
  PROVE  /\ \A t : t \in DOMAIN Folded(raw)[a] <=>
                   /\ t \in 0..T /\ Fits(raw, a[1], t) /\ raw.drive[a][t] <= raw.hi[a[2]]
         /\ \A t \in DOMAIN Folded(raw)[a] :
              Folded(raw)[a][t] =
                (IF raw.lo[a[2]] >= raw.drive[a][t] THEN raw.lo[a[2]] ELSE raw.drive[a][t])
                   + raw.service[a[2]]
<1>0. a[1] \in Vertex /\ a[2] \in Vertex
  BY Vertices DEF Sane, Proper
<1> DEFINE end(t) == Max({raw.lo[a[2]], raw.drive[a][t]}) + raw.service[a[2]]
           late(t) == IF raw.lo[a[2]] >= raw.drive[a][t] THEN raw.lo[a[2]] ELSE raw.drive[a][t]
           D == {x \in DOMAIN raw.drive[a] :
                  /\ x - raw.service[a[1]] \in raw.lo[a[1]]..raw.hi[a[1]]
                  /\ end(x) - raw.service[a[2]] <= raw.hi[a[2]]}
<1>1. Folded(raw)[a] = [t \in D |-> end(t)]
  BY DEF Folded
<1>2. /\ DOMAIN raw.drive[a] = 0..T
      /\ raw.lo[a[1]] \in Nat /\ raw.hi[a[1]] \in Nat /\ raw.service[a[1]] \in Nat
      /\ raw.lo[a[2]] \in Nat /\ raw.hi[a[2]] \in Nat /\ raw.service[a[2]] \in Nat
      /\ raw.lo[a[2]] <= raw.hi[a[2]] /\ T \in Nat
      /\ \A t \in 0..T : raw.drive[a][t] \in Nat
  BY <1>0 DEF Sane, Proper
<1>3. ASSUME NEW t \in 0..T PROVE end(t) = late(t) + raw.service[a[2]] /\ late(t) \in Nat
  <2>1. raw.drive[a][t] \in Int /\ raw.lo[a[2]] \in Int  BY <1>2
  <2>2. Max({raw.lo[a[2]], raw.drive[a][t]}) = late(t)  BY <2>1, MaxOfTwo
  <2> QED BY <2>1, <2>2, <1>2
<1>4. ASSUME NEW t
      PROVE  t \in D <=> t \in 0..T /\ Fits(raw, a[1], t) /\ raw.drive[a][t] <= raw.hi[a[2]]
  <2>1. CASE t \notin 0..T  BY <2>1, <1>2
  <2>2. CASE t \in 0..T
    <3>1. end(t) = late(t) + raw.service[a[2]] /\ late(t) \in Nat  BY <2>2, <1>3
    <3>2. t \in Int /\ raw.drive[a][t] \in Nat  BY <2>2, <1>2
    <3> HIDE DEF end
    <3>3. end(t) - raw.service[a[2]] <= raw.hi[a[2]] <=> raw.drive[a][t] <= raw.hi[a[2]]
      BY <3>1, <3>2, <1>2
    <3>4. t - raw.service[a[1]] \in raw.lo[a[1]]..raw.hi[a[1]] <=> Fits(raw, a[1], t)
      BY <3>2, <1>2 DEF Fits
    <3> QED BY <3>3, <3>4, <2>2, <1>2
  <2> QED BY <2>1, <2>2
<1>5. \A t \in D : end(t) = late(t) + raw.service[a[2]]
  BY <1>3, <1>4
<1> HIDE DEF D, end
<1>6. DOMAIN Folded(raw)[a] = D /\ \A t \in D : Folded(raw)[a][t] = end(t)
  BY <1>1
<1> QED BY <1>4, <1>5, <1>6

LEMMA FoldedDrivable ==
  ASSUME NEW raw, Sane(raw), NEW a \in Arc
  PROVE  Drivable(raw, a, Folded(raw)[a])
<1> DEFINE f == Folded(raw)[a]
           late(t) == IF raw.lo[a[2]] >= raw.drive[a][t] THEN raw.lo[a[2]] ELSE raw.drive[a][t]
<1>0. a[1] \in Vertex /\ a[2] \in Vertex
  BY Vertices DEF Sane, Proper
<1>1. /\ \A t : t \in DOMAIN f <=>
                t \in 0..T /\ Fits(raw, a[1], t) /\ raw.drive[a][t] <= raw.hi[a[2]]
      /\ \A t \in DOMAIN f : f[t] = late(t) + raw.service[a[2]]
  BY FoldedIs
<1> HIDE DEF f
<1>2. /\ raw.lo[a[1]] \in Nat /\ raw.hi[a[1]] \in Nat /\ raw.service[a[1]] \in Nat
      /\ raw.lo[a[2]] \in Nat /\ raw.hi[a[2]] \in Nat /\ raw.service[a[2]] \in Nat
      /\ raw.lo[a[2]] <= raw.hi[a[2]] /\ raw.hi[a[2]] <= T /\ T \in Nat /\ Never \in Nat
      /\ T + raw.service[a[2]] < Never
      /\ \A t \in 0..T : raw.drive[a][t] \in Nat /\ t <= raw.drive[a][t]
      /\ \A t, s \in 0..T : t <= s => raw.drive[a][t] <= raw.drive[a][s]
  BY <1>0 DEF Sane, Proper
<1>3. ASSUME NEW t \in DOMAIN f
      PROVE  /\ Fits(raw, a[1], t) /\ Fits(raw, a[2], f[t])
             /\ f[t] \in Int /\ t <= f[t] /\ f[t] < Never
  <2>1. t \in 0..T /\ Fits(raw, a[1], t) /\ raw.drive[a][t] <= raw.hi[a[2]]
        /\ f[t] = late(t) + raw.service[a[2]]
    BY <1>1
  <2>2. raw.drive[a][t] \in Nat /\ t <= raw.drive[a][t]  BY <2>1, <1>2
  <2> QED BY <2>1, <2>2, <1>2 DEF Fits
<1>4. ASSUME NEW t \in DOMAIN f, NEW x \in Int, Fits(raw, a[1], x), x <= t
      PROVE  x \in DOMAIN f /\ f[x] <= f[t]
  <2>1. t \in 0..T /\ raw.drive[a][t] <= raw.hi[a[2]] /\ f[t] = late(t) + raw.service[a[2]]
    BY <1>1
  <2>2. x \in 0..T  BY <1>4, <2>1, <1>2 DEF Fits
  <2>3. raw.drive[a][x] <= raw.drive[a][t] /\ raw.drive[a][x] \in Nat /\ raw.drive[a][t] \in Nat
    BY <1>2, <1>4, <2>1, <2>2
  <2>4. x \in DOMAIN f  BY <1>1, <1>2, <1>4, <2>1, <2>2, <2>3
  <2>5. f[x] = late(x) + raw.service[a[2]]  BY <1>1, <2>4
  <2> QED BY <2>1, <2>3, <2>4, <2>5, <1>2
<1>5. DOMAIN f \subseteq 0..T
  BY <1>1
<1> QED BY <1>3, <1>4, <1>5 DEF Drivable, f

-----------------------------------------------------------------------------
(* The windows tightened: one step of each rule, then the loop. *)
Earlier(arcs, f, lo, h, k) ==
  [v \in Vertex |-> IF v # k THEN h[v] ELSE
     Min({h[k], Max({lo[k]} \cup {LatestArrival(f, lo, h, a) : a \in {x \in arcs : x[2] = k}})})]

Later(arcs, f, h, l, k) ==
  [v \in Vertex |-> IF v # k THEN l[v] ELSE
     Max({l[k], Min({h[k]} \cup {EarliestDeparture(f, l, h, a) : a \in {x \in arcs : x[1] = k}})})]

Closings(hi) == {h \in [Vertex -> Int] : \A v \in Vertex : h[v] <= hi[v] /\ (v \notin Customer => h[v] = hi[v])}
Openings(lo) == {l \in [Vertex -> Int] : \A v \in Vertex : lo[v] <= l[v] /\ (v \notin Customer => l[v] = lo[v])}

Outcome(arcs, f, l, h) ==
  [arcs |-> {a \in arcs : l[a[1]] + TravelTime(f[a], l[a[1]]) <= h[a[2]]},
   arr |-> f, lo |-> l, hi |-> h]

Staged(arcs, f, lo, hi, l, h) ==
  \E hs \in [0..N -> Closings(hi)], ls \in [0..N -> Openings(lo)] :
    /\ hs[0] = hi /\ hs[N] = h /\ \A k \in 1..N : hs[k] = Earlier(arcs, f, lo, hs[k - 1], k)
    /\ ls[0] = lo /\ ls[N] = l /\ \A k \in 1..N : ls[k] = Later(arcs, f, h, ls[k - 1], k)

LEMMA DepartingIs ==
  ASSUME NEW g, \A t \in DOMAIN g : g[t] \in Int, DOMAIN g \subseteq 0..T, T \in Nat, NEW tf \in Int
  PROVE  DepartingTime(g, tf) = Never \/ DepartingTime(g, tf) \in DOMAIN g
<1> DEFINE S == {t \in DOMAIN g : g[t] <= tf}
<1>1. CASE S = {}
  <2>1. \A t \in DOMAIN g : tf < g[t]  BY <1>1
  <2> QED BY <2>1 DEF DepartingTime
<1>2. CASE S # {}
  <2>1. ~(DOMAIN g = {} \/ \A t \in DOMAIN g : tf < g[t])
    <3>1. PICK t \in S : TRUE  BY <1>2
    <3>2. t \in DOMAIN g /\ g[t] <= tf /\ g[t] \in Int  BY <3>1
    <3>3. ~(tf < g[t])  BY <3>2
    <3> QED BY <3>2, <3>3
  <2>2. DepartingTime(g, tf) = Max(S)  BY <2>1 DEF DepartingTime
  <2>3. S \subseteq Int /\ \A t \in S : t <= T  OBVIOUS
  <2>4. Max(S) \in S  BY <1>2, <2>3, MaxIs
  <2> QED BY <2>2, <2>4
<1> QED BY <1>1, <1>2

LEMMA LatestIs ==
  ASSUME NEW raw, Sane(raw), NEW f, NEW lo, NEW h, NEW a \in Arc, Drivable(raw, a, f[a]),
         h[a[1]] \in Int, h[a[1]] < Never, h[a[2]] \in Int, h[a[2]] < Never
  PROVE  LatestArrival(f, lo, h, a) \in Int /\ LatestArrival(f, lo, h, a) <= Never + Never
<1>1. Never \in Nat /\ T \in Nat  BY DEF Sane
<1>2. \A t \in DOMAIN f[a] : t \in 0..T /\ f[a][t] \in Int /\ f[a][t] < Never
  BY DEF Drivable
<1>3. TravelTime(f[a], h[a[1]]) \in Int /\ TravelTime(f[a], h[a[1]]) <= Never
  <2>1. CASE h[a[1]] \in DOMAIN f[a]
    <3>1. TravelTime(f[a], h[a[1]]) = f[a][h[a[1]]] - h[a[1]]  BY <2>1 DEF TravelTime
    <3>2. h[a[1]] \in 0..T /\ f[a][h[a[1]]] \in Int /\ f[a][h[a[1]]] < Never  BY <1>2, <2>1
    <3> QED BY <3>1, <3>2, <1>1
  <2>2. CASE h[a[1]] \notin DOMAIN f[a]
    <3>1. TravelTime(f[a], h[a[1]]) = Never  BY <2>2 DEF TravelTime
    <3> QED BY <3>1, <1>1
  <2> QED BY <2>1, <2>2
<1>4. \/ LatestArrival(f, lo, h, a) = h[a[2]]
      \/ LatestArrival(f, lo, h, a) = h[a[1]] + TravelTime(f[a], h[a[1]])
  BY DEF LatestArrival
<1> QED BY <1>1, <1>3, <1>4

LEMMA EarlierIs ==
  ASSUME NEW raw, Sane(raw), NEW arcs, arcs \subseteq Arc, NEW f, \A a \in arcs : Drivable(raw, a, f[a]),
         NEW lo \in [Vertex -> Nat], NEW hi \in [Vertex -> Nat], \A v \in Vertex : hi[v] < Never,
         NEW h \in Closings(hi), NEW k \in Customer
  PROVE  Earlier(arcs, f, lo, h, k) \in Closings(hi)
<1> DEFINE S == {lo[k]} \cup {LatestArrival(f, lo, h, a) : a \in {x \in arcs : x[2] = k}}
<1>1. Never \in Nat /\ T \in Nat /\ k \in Vertex /\ h \in [Vertex -> Int]
      /\ (\A v \in Vertex : h[v] <= hi[v] /\ h[v] \in Int /\ h[v] < Never /\ hi[v] \in Nat)
      /\ \A v \in Vertex : v \notin Customer => h[v] = hi[v]
  <2>1. h \in [Vertex -> Int] /\ \A v \in Vertex : h[v] <= hi[v] /\ (v \notin Customer => h[v] = hi[v])
    BY DEF Closings
  <2>2. \A v \in Vertex : h[v] \in Int /\ hi[v] \in Nat /\ hi[v] < Never  BY <2>1
  <2>3. Never \in Nat /\ T \in Nat /\ k \in Vertex  BY Vertices DEF Sane, Proper
  <2>4. \A v \in Vertex : h[v] < Never  BY <2>1, <2>2, <2>3
  <2> QED BY <2>1, <2>2, <2>3, <2>4
<1>2. \A a \in arcs : LatestArrival(f, lo, h, a) \in Int /\ LatestArrival(f, lo, h, a) <= Never + Never
  <2>1. SUFFICES ASSUME NEW a \in arcs
                 PROVE  LatestArrival(f, lo, h, a) \in Int /\ LatestArrival(f, lo, h, a) <= Never + Never
    OBVIOUS
  <2>2. a \in Arc /\ a[1] \in Vertex /\ a[2] \in Vertex  BY Vertices DEF Sane, Proper
  <2>3. h[a[1]] \in Int /\ h[a[1]] < Never /\ h[a[2]] \in Int /\ h[a[2]] < Never  BY <1>1, <2>2
  <2> QED BY <2>2, <2>3, LatestIs
<1>3. Max(S) \in Int
  <2>1. lo[k] \in Nat  BY <1>1
  <2> DEFINE b == Never + Never + lo[k]
  <2>2. b \in Int /\ S \subseteq Int /\ S # {} /\ \A x \in S : x <= b
    BY <1>1, <1>2, <2>1
  <2> HIDE DEF S, b
  <2> QED BY <2>2, MaxIs
<1> HIDE DEF S
<1>4. Min({h[k], Max(S)}) \in Int /\ Min({h[k], Max(S)}) <= h[k]
  <2>1. h[k] \in Int  BY <1>1
  <2> QED BY <2>1, <1>3, MinOfTwo
<1>5. Earlier(arcs, f, lo, h, k) = [v \in Vertex |-> IF v # k THEN h[v] ELSE Min({h[k], Max(S)})]
  BY DEF Earlier, S
<1> QED BY <1>1, <1>4, <1>5 DEF Closings

LEMMA EarliestIs ==
  ASSUME NEW raw, Sane(raw), NEW f, NEW h, NEW l, NEW a \in Arc, Drivable(raw, a, f[a]),
         l[a[1]] \in Int, 0 <= l[a[1]], l[a[2]] \in Int
  PROVE  EarliestDeparture(f, l, h, a) \in Int /\ 0 <= EarliestDeparture(f, l, h, a)
<1>1. Never \in Nat /\ T \in Nat  BY DEF Sane
<1>2. DOMAIN f[a] \subseteq 0..T /\ \A t \in DOMAIN f[a] : f[a][t] \in Int
  BY DEF Drivable
<1>3. DepartingTime(f[a], l[a[2]]) = Never \/ DepartingTime(f[a], l[a[2]]) \in 0..T
  BY <1>1, <1>2, DepartingIs
<1>4. \/ EarliestDeparture(f, l, h, a) \in 0..T
      \/ EarliestDeparture(f, l, h, a) = l[a[1]]
  BY <1>3 DEF EarliestDeparture
<1> QED BY <1>1, <1>4

LEMMA LaterIs ==
  ASSUME NEW raw, Sane(raw), NEW arcs, arcs \subseteq Arc, NEW f, \A a \in arcs : Drivable(raw, a, f[a]),
         NEW lo \in [Vertex -> Nat], NEW h \in [Vertex -> Int],
         NEW l \in Openings(lo), NEW k \in Customer
  PROVE  Later(arcs, f, h, l, k) \in Openings(lo)
<1> DEFINE S == {h[k]} \cup {EarliestDeparture(f, l, h, a) : a \in {x \in arcs : x[1] = k}}
<1>1. Never \in Nat /\ T \in Nat /\ k \in Vertex /\ l \in [Vertex -> Int]
      /\ (\A v \in Vertex : lo[v] <= l[v] /\ l[v] \in Int /\ 0 <= l[v] /\ lo[v] \in Nat)
      /\ \A v \in Vertex : v \notin Customer => l[v] = lo[v]
  <2>1. \A v \in Vertex : lo[v] <= l[v] /\ l[v] \in Int /\ lo[v] \in Nat  BY DEF Openings
  <2>2. \A v \in Vertex : 0 <= l[v]  BY <2>1
  <2> QED BY <2>1, <2>2, Vertices DEF Sane, Proper, Openings
<1>2. \A a \in arcs : EarliestDeparture(f, l, h, a) \in Int /\ 0 <= EarliestDeparture(f, l, h, a)
  <2>1. SUFFICES ASSUME NEW a \in arcs
                 PROVE  EarliestDeparture(f, l, h, a) \in Int /\ 0 <= EarliestDeparture(f, l, h, a)
    OBVIOUS
  <2>2. a \in Arc /\ a[1] \in Vertex /\ a[2] \in Vertex  BY Vertices DEF Sane, Proper
  <2>3. l[a[1]] \in Int /\ 0 <= l[a[1]] /\ l[a[2]] \in Int  BY <1>1, <2>2
  <2> QED BY <2>2, <2>3, EarliestIs
<1>3. Min(S) \in Int
  <2>1. h[k] \in Int  BY <1>1
  <2> DEFINE b == IF h[k] <= 0 THEN h[k] ELSE 0
  <2>2. b \in Int /\ S \subseteq Int /\ S # {} /\ \A x \in S : b <= x
    BY <1>1, <1>2, <2>1
  <2> HIDE DEF S, b
  <2> QED BY <2>2, MinIs
<1> HIDE DEF S
<1>4. Max({l[k], Min(S)}) \in Int /\ l[k] <= Max({l[k], Min(S)})
  <2>1. l[k] \in Int  BY <1>1
  <2> QED BY <2>1, <1>3, MaxOfTwo
<1>5. Later(arcs, f, h, l, k) = [v \in Vertex |-> IF v # k THEN l[v] ELSE Max({l[k], Min(S)})]
  BY DEF Later, S
<1>6. \A v \in Vertex : lo[v] <= Later(arcs, f, h, l, k)[v]
                        /\ (v \notin Customer => Later(arcs, f, h, l, k)[v] = lo[v])
  BY <1>1, <1>4, <1>5
<1> QED BY <1>1, <1>4, <1>5, <1>6 DEF Openings

LEMMA TightenedIs ==
  ASSUME NEW raw, Sane(raw), NEW arcs, arcs \subseteq Arc, NEW f, \A a \in arcs : Drivable(raw, a, f[a]),
         NEW lo \in [Vertex -> Nat], NEW hi \in [Vertex -> Nat], \A v \in Vertex : hi[v] < Never
  PROVE  \E l \in Openings(lo), h \in Closings(hi) :
           Tightened(arcs, f, lo, hi) = Outcome(arcs, f, l, h) /\ Staged(arcs, f, lo, hi, l, h)
<1>0. N \in Nat /\ 0 \in Int /\ N \in Int /\ 0 <= N /\ 0 + 1 .. N = Customer /\ N \in 0..N
  BY DEF Sane, Proper, Customer
<1>h. PICK hs : /\ hs \in [0..N -> Closings(hi)] /\ hs[0] = hi
                /\ \A k \in 1..N : hs[k] = Earlier(arcs, f, lo, hs[k - 1], k)
  <2> DEFINE X == Closings(hi)
             G == [y \in Customer \X X |-> Earlier(arcs, f, lo, y[2], y[1])]
  <2>1. G \in [(0 + 1 .. N) \X X -> X]
    <3>1. \A y \in Customer \X X : Earlier(arcs, f, lo, y[2], y[1]) \in X  BY EarlierIs
    <3>2. G \in [Customer \X X -> X]  BY <3>1
    <3> QED BY <3>2, <1>0
  <2>2. hi \in X  BY DEF Closings
  <2>3. \A k \in Customer, h \in X : G[<<k, h>>] = Earlier(arcs, f, lo, h, k)
    OBVIOUS
  <2> HIDE DEF G, X
  <2>4. PICK hs : Unrolled(hs, 0, N, X, hi, G)
    <3>1. Recursive(0, N, X, hi, G)  BY <1>0, <2>1, <2>2 DEF Recursive
    <3> QED BY <3>1, Recursion
  <2>5. hs \in [0..N -> X] /\ hs[0] = hi /\ \A k \in 0 + 1 .. N : hs[k] = G[<<k, hs[k - 1]>>]
    BY <2>4 DEF Unrolled
  <2>6. ASSUME NEW k \in 1..N PROVE hs[k] = Earlier(arcs, f, lo, hs[k - 1], k)
    <3>1. k \in Customer /\ k - 1 \in 0..N  BY <1>0 DEF Customer
    <3>2. hs[k - 1] \in X  BY <3>1, <2>5
    <3> QED BY <2>3, <2>5, <3>1, <3>2, <1>0
  <2> QED BY <2>5, <2>6 DEF X
<1> DEFINE hiTo[k \in 0..N] == IF k = 0 THEN hi ELSE Earlier(arcs, f, lo, hiTo[k - 1], k)
           Fhi(g) == g = [k \in 0..N |-> IF k = 0 THEN hi ELSE Earlier(arcs, f, lo, g[k - 1], k)]
           h2 == hiTo[N]
<1>1. hiTo = CHOOSE g : Fhi(g)
  BY DEF hiTo, Fhi
<1>2. Fhi(hs)
  <2>1. ASSUME NEW k \in 0..N PROVE hs[k] = IF k = 0 THEN hi ELSE Earlier(arcs, f, lo, hs[k - 1], k)
    <3>1. k = 0 \/ k \in 1..N  BY <1>0
    <3> QED BY <1>h, <3>1
  <2> QED BY <1>h, <2>1
<1>u. Tightened(arcs, f, lo, hi) =
        LET loTo[k \in 0..N] == IF k = 0 THEN lo ELSE Later(arcs, f, h2, loTo[k - 1], k)
            l2 == loTo[N]
        IN [arcs |-> {a \in arcs : l2[a[1]] + TravelTime(f[a], l2[a[1]]) <= h2[a[2]]},
            arr |-> f, lo |-> l2, hi |-> h2]
  BY DEF Tightened, Earlier, Later, h2, hiTo
<1> HIDE DEF hiTo
<1>3. Fhi(hiTo)
  BY <1>1, <1>2
<1>3a. hiTo[0] = hi /\ \A k \in 1..N : hiTo[k] = Earlier(arcs, f, lo, hiTo[k - 1], k)
  <2>1. \A k \in 0..N : hiTo[k] = IF k = 0 THEN hi ELSE Earlier(arcs, f, lo, hiTo[k - 1], k)
    BY <1>3
  <2>2. 0 \in 0..N /\ \A k \in 1..N : k \in 0..N /\ k # 0  BY <1>0
  <2> QED BY <2>1, <2>2
<1>4a. hiTo \in [0..N -> Closings(hi)]
  <2> DEFINE S == {k \in 0..N : hiTo[k] \in Closings(hi)}
  <2>0. \A k \in 0..N : hiTo[k] = IF k = 0 THEN hi ELSE Earlier(arcs, f, lo, hiTo[k - 1], k)
    BY <1>3
  <2>1. 0 \in S
    <3>1. 0 \in 0..N /\ hi \in Closings(hi)  BY <1>0 DEF Closings
    <3> QED BY <2>0, <3>1
  <2>2. ASSUME NEW i \in 0..N - 1, i \in S PROVE i + 1 \in S
    <3> DEFINE k == i + 1
    <3>1. k \in 0..N /\ k # 0 /\ k - 1 = i /\ k \in Customer  BY <1>0 DEF Customer
    <3> HIDE DEF k
    <3>2. hiTo[k] = Earlier(arcs, f, lo, hiTo[i], k)  BY <2>0, <3>1
    <3>3. hiTo[i] \in Closings(hi)  BY <2>2
    <3>4. hiTo[k] \in Closings(hi)  BY <3>1, <3>2, <3>3, EarlierIs
    <3> QED BY <3>1, <3>4 DEF k
  <2>3. \A i \in 0..N - 1 : i \in S => i + 1 \in S  BY <2>2
  <2> HIDE DEF S
  <2>4. 0..N \subseteq S  BY <1>0, <2>1, <2>3, Induction
  <2>5. \A k \in 0..N : hiTo[k] \in Closings(hi)  BY <2>4 DEF S
  <2> QED BY <1>3, <2>5
<1>4. h2 \in Closings(hi)
  BY <1>0, <1>4a
<1>h2. h2 = hiTo[N]
  OBVIOUS
<1> HIDE DEF h2
<1>5. h2 \in [Vertex -> Int]
  BY <1>4 DEF Closings
<1>l. PICK ls : /\ ls \in [0..N -> Openings(lo)] /\ ls[0] = lo
                /\ \A k \in 1..N : ls[k] = Later(arcs, f, h2, ls[k - 1], k)
  <2> DEFINE X == Openings(lo)
             G == [y \in Customer \X X |-> Later(arcs, f, h2, y[2], y[1])]
  <2>1. G \in [(0 + 1 .. N) \X X -> X]
    <3>1. \A y \in Customer \X X : Later(arcs, f, h2, y[2], y[1]) \in X  BY <1>5, LaterIs
    <3>2. G \in [Customer \X X -> X]  BY <3>1
    <3> QED BY <3>2, <1>0
  <2>2. lo \in X  BY DEF Openings
  <2>3. \A k \in Customer, h \in X : G[<<k, h>>] = Later(arcs, f, h2, h, k)
    OBVIOUS
  <2> HIDE DEF G, X
  <2>4. PICK ls : Unrolled(ls, 0, N, X, lo, G)
    <3>1. Recursive(0, N, X, lo, G)  BY <1>0, <2>1, <2>2 DEF Recursive
    <3> QED BY <3>1, Recursion
  <2>5. ls \in [0..N -> X] /\ ls[0] = lo /\ \A k \in 0 + 1 .. N : ls[k] = G[<<k, ls[k - 1]>>]
    BY <2>4 DEF Unrolled
  <2>6. ASSUME NEW k \in 1..N PROVE ls[k] = Later(arcs, f, h2, ls[k - 1], k)
    <3>1. k \in Customer /\ k - 1 \in 0..N  BY <1>0 DEF Customer
    <3>2. ls[k - 1] \in X  BY <3>1, <2>5
    <3> QED BY <2>3, <2>5, <3>1, <3>2, <1>0
  <2> QED BY <2>5, <2>6 DEF X
<1> DEFINE loTo[k \in 0..N] == IF k = 0 THEN lo ELSE Later(arcs, f, h2, loTo[k - 1], k)
           Flo(g) == g = [k \in 0..N |-> IF k = 0 THEN lo ELSE Later(arcs, f, h2, g[k - 1], k)]
           l2 == loTo[N]
<1>6. loTo = CHOOSE g : Flo(g)
  BY DEF loTo, Flo
<1>7. Flo(ls)
  <2>1. ASSUME NEW k \in 0..N PROVE ls[k] = IF k = 0 THEN lo ELSE Later(arcs, f, h2, ls[k - 1], k)
    <3>1. k = 0 \/ k \in 1..N  BY <1>0
    <3> QED BY <1>l, <3>1
  <2> QED BY <1>l, <2>1
<1>8. Tightened(arcs, f, lo, hi) = Outcome(arcs, f, l2, h2)
  BY <1>u DEF l2, loTo, Outcome
<1> HIDE DEF loTo
<1>9. Flo(loTo)
  BY <1>6, <1>7
<1>9a. loTo[0] = lo /\ \A k \in 1..N : loTo[k] = Later(arcs, f, h2, loTo[k - 1], k)
  <2>1. \A k \in 0..N : loTo[k] = IF k = 0 THEN lo ELSE Later(arcs, f, h2, loTo[k - 1], k)
    BY <1>9
  <2>2. 0 \in 0..N /\ \A k \in 1..N : k \in 0..N /\ k # 0  BY <1>0
  <2> QED BY <2>1, <2>2
<1>10a. loTo \in [0..N -> Openings(lo)]
  <2> DEFINE S == {k \in 0..N : loTo[k] \in Openings(lo)}
  <2>0. \A k \in 0..N : loTo[k] = IF k = 0 THEN lo ELSE Later(arcs, f, h2, loTo[k - 1], k)
    BY <1>9
  <2>1. 0 \in S
    <3>1. 0 \in 0..N /\ lo \in Openings(lo)  BY <1>0 DEF Openings
    <3> QED BY <2>0, <3>1
  <2>2. ASSUME NEW i \in 0..N - 1, i \in S PROVE i + 1 \in S
    <3> DEFINE k == i + 1
    <3>1. k \in 0..N /\ k # 0 /\ k - 1 = i /\ k \in Customer  BY <1>0 DEF Customer
    <3> HIDE DEF k
    <3>2. loTo[k] = Later(arcs, f, h2, loTo[i], k)  BY <2>0, <3>1
    <3>3. loTo[i] \in Openings(lo)  BY <2>2
    <3>4. loTo[k] \in Openings(lo)  BY <3>1, <3>2, <3>3, <1>5, LaterIs
    <3> QED BY <3>1, <3>4 DEF k
  <2>3. \A i \in 0..N - 1 : i \in S => i + 1 \in S  BY <2>2
  <2> HIDE DEF S
  <2>4. 0..N \subseteq S  BY <1>0, <2>1, <2>3, Induction
  <2>5. \A k \in 0..N : loTo[k] \in Openings(lo)  BY <2>4 DEF S
  <2> QED BY <1>9, <2>5
<1>10. l2 \in Openings(lo)
  BY <1>0, <1>10a
<1>l2. l2 = loTo[N]
  OBVIOUS
<1> HIDE DEF l2
<1>11. Staged(arcs, f, lo, hi, l2, h2)
  BY <1>3a, <1>4a, <1>h2, <1>9a, <1>10a, <1>l2 DEF Staged
<1> QED BY <1>4, <1>8, <1>10, <1>11

-----------------------------------------------------------------------------
(* The prepared instance w: arcs one can drive, with the folded arrival functions, and
   the depots' windows as they were. *)
Ready(raw, w) ==
  /\ w.arcs \subseteq Arc
  /\ \A a \in w.arcs : w.arr[a] = Folded(raw)[a] /\ DOMAIN w.arr[a] # {}
  /\ \A v \in {Start, End} : w.lo[v] = raw.lo[v] /\ w.hi[v] = raw.hi[v]

(* How it came about: which arcs the windows and the detours left. *)
Carried(raw) == [a \in Arc |-> IF a \in Loadable(raw) THEN Folded(raw)[a] ELSE <<>>]

Passable(raw, l, h) ==
  {a \in Loadable(raw) : l[a[1]] + TravelTime(Carried(raw)[a], l[a[1]]) <= h[a[2]]}
Spread(raw, A) == [a \in Arc |-> IF a \in A THEN Carried(raw)[a] ELSE <<>>]
Straight(p) ==
  {a \in p.arcs : ~(a[1] # Start /\ a[2] # End /\ ViaDepot(p, a) <= p.lo[a[2]] - p.hi[a[1]])}

Refining(raw, w, l, h, p) ==
  /\ l \in Openings(Shifted(raw, raw.lo)) /\ h \in Closings(Shifted(raw, raw.hi))
  /\ Staged(Loadable(raw), Carried(raw), Shifted(raw, raw.lo), Shifted(raw, raw.hi), l, h)
  /\ p.arcs = Passable(raw, l, h) /\ p.arr = Spread(raw, p.arcs)
  /\ p.lo = l /\ p.hi = h /\ w.lo = l /\ w.hi = h /\ w.arcs = Straight(p)
Refined(raw, w) == \E l, h, p : Refining(raw, w, l, h, p)

LEMMA PrepareIs ==
  ASSUME NEW raw, Sane(raw)
  PROVE  Ready(raw, Prepare(raw)) /\ Refined(raw, Prepare(raw))
<1> DEFINE arcs == Loadable(raw)
           kept == [a \in Arc |-> IF a \in arcs THEN Folded(raw)[a] ELSE <<>>]
           lo == Shifted(raw, raw.lo)
           hi == Shifted(raw, raw.hi)
           p  == Tightened(arcs, kept, lo, hi)
           p1 == AfterRemoval(p)
           p2 == Detoured(p1)
           p3 == AfterRemoval(p2)
<1>1. arcs \subseteq Arc /\ \A a \in arcs : kept[a] = Folded(raw)[a] /\ Drivable(raw, a, kept[a])
  <2>1. arcs \subseteq Arc /\ \A a \in arcs : kept[a] = Folded(raw)[a]  BY DEF Loadable
  <2> QED BY <2>1, FoldedDrivable
<1>2. /\ lo \in [Vertex -> Nat] /\ hi \in [Vertex -> Nat] /\ \A v \in Vertex : hi[v] < Never
      /\ \A v \in {Start, End} : lo[v] = raw.lo[v] /\ hi[v] = raw.hi[v] /\ v \notin Customer
  <2>1. \A v \in Vertex : /\ raw.lo[v] \in Nat /\ raw.hi[v] \in Nat /\ raw.service[v] \in Nat
                          /\ raw.hi[v] <= T /\ T + raw.service[v] < Never
                          /\ v \notin Customer => raw.service[v] = 0
    BY DEF Sane, Proper
  <2>2. T \in Nat /\ Never \in Nat /\ Start \in Vertex /\ End \in Vertex
        /\ Start \notin Customer /\ End \notin Customer
    BY Vertices DEF Sane, Proper
  <2>3. \A v \in Vertex : lo[v] = raw.lo[v] + raw.service[v] /\ hi[v] = raw.hi[v] + raw.service[v]
    BY DEF Shifted
  <2>4. lo = [v \in Vertex |-> raw.lo[v] + raw.service[v]] /\ hi = [v \in Vertex |-> raw.hi[v] + raw.service[v]]
    BY DEF Shifted
  <2> HIDE DEF lo, hi
  <2>5. lo \in [Vertex -> Nat] /\ hi \in [Vertex -> Nat]  BY <2>1, <2>4
  <2>6. \A v \in Vertex : hi[v] < Never  BY <2>1, <2>2, <2>3
  <2>7. \A v \in {Start, End} : lo[v] = raw.lo[v] /\ hi[v] = raw.hi[v]  BY <2>1, <2>2, <2>3
  <2> QED BY <2>2, <2>5, <2>6, <2>7
<1> HIDE DEF lo, hi, arcs, kept
<1>o. PICK l \in Openings(lo), h \in Closings(hi) :
        p = Outcome(arcs, kept, l, h) /\ Staged(arcs, kept, lo, hi, l, h)
  BY <1>1, <1>2, TightenedIs
<1> HIDE DEF p
<1>3. /\ p.arcs = {a \in arcs : l[a[1]] + TravelTime(kept[a], l[a[1]]) <= h[a[2]]}
      /\ p = [arcs |-> p.arcs, arr |-> kept, lo |-> l, hi |-> h]
  <2> DEFINE S == {a \in arcs : l[a[1]] + TravelTime(kept[a], l[a[1]]) <= h[a[2]]}
  <2>1. p = [arcs |-> S, arr |-> kept, lo |-> l, hi |-> h]  BY <1>o DEF Outcome
  <2> HIDE DEF S
  <2>2. p.arcs = S  BY <2>1
  <2> QED BY <2>1, <2>2 DEF S
<1>4. ASSUME NEW a \in p.arcs PROVE a \in arcs /\ DOMAIN kept[a] # {}
  <2>1. a \in arcs /\ l[a[1]] + TravelTime(kept[a], l[a[1]]) <= h[a[2]]  BY <1>3
  <2>2. a[1] \in Vertex /\ a[2] \in Vertex  BY <2>1, <1>1, Vertices DEF Sane, Proper
  <2>3. l[a[1]] \in Int /\ lo[a[1]] <= l[a[1]] /\ h[a[2]] \in Int /\ h[a[2]] <= hi[a[2]]
        /\ Never \in Nat
    BY <2>2 DEF Openings, Closings, Sane, Proper
  <2>4. lo[a[1]] \in Nat /\ hi[a[2]] \in Nat /\ hi[a[2]] < Never  BY <1>2, <2>2
  <2>5. TravelTime(kept[a], l[a[1]]) # Never  BY <2>1, <2>3, <2>4
  <2>6. l[a[1]] \in DOMAIN kept[a]  BY <2>5 DEF TravelTime
  <2> QED BY <2>1, <2>6
<1>5. /\ p1.arcs = p.arcs /\ p1.lo = l /\ p1.hi = h
      /\ p1.arr = [a \in Arc |-> IF a \in p.arcs THEN kept[a] ELSE <<>>]
      /\ p1 = [arcs |-> p1.arcs, arr |-> p1.arr, lo |-> p1.lo, hi |-> p1.hi]
  <2> DEFINE arr == [a \in Arc |-> IF a \in p.arcs THEN p.arr[a] ELSE <<>>]
  <2>1. p1 = [p EXCEPT !.arr = arr]  BY DEF AfterRemoval
  <2>2. p = [arcs |-> p.arcs, arr |-> kept, lo |-> l, hi |-> h]  BY <1>3
  <2>3. p.arr = kept /\ p.lo = l /\ p.hi = h  BY <2>2
  <2>4. arr = [a \in Arc |-> IF a \in p.arcs THEN kept[a] ELSE <<>>]  BY <2>3
  <2> HIDE DEF arr, p1
  <2>5. p1 = [arcs |-> p.arcs, arr |-> arr, lo |-> l, hi |-> h]  BY <2>1, <2>2
  <2> QED BY <2>4, <2>5
<1> HIDE DEF p1
<1>6. /\ p2.arcs \subseteq p1.arcs /\ p2 = [arcs |-> p2.arcs, arr |-> p1.arr, lo |-> l, hi |-> h]
      /\ p2.arcs = {a \in p1.arcs :
               ~(a[1] # Start /\ a[2] # End /\ ViaDepot(p1, a) <= p1.lo[a[2]] - p1.hi[a[1]])}
  <2> DEFINE S == {a \in p1.arcs :
               ~(a[1] # Start /\ a[2] # End /\ ViaDepot(p1, a) <= p1.lo[a[2]] - p1.hi[a[1]])}
  <2>1. p2 = [p1 EXCEPT !.arcs = S]  BY DEF Detoured
  <2>2. S \subseteq p1.arcs  OBVIOUS
  <2> HIDE DEF S, p2
  <2>3. p2 = [arcs |-> S, arr |-> p1.arr, lo |-> l, hi |-> h]  BY <1>5, <2>1
  <2>4. p2.arcs = S  BY <2>3
  <2> QED BY <2>2, <2>3, <2>4 DEF S
<1> HIDE DEF p2
<1>7. p3 = [arcs |-> p2.arcs, arr |-> [a \in Arc |-> IF a \in p2.arcs THEN p1.arr[a] ELSE <<>>],
            lo |-> l, hi |-> h]
  <2>1. p2 = [arcs |-> p2.arcs, arr |-> p1.arr, lo |-> l, hi |-> h]  BY <1>6
  <2> QED BY <2>1 DEF AfterRemoval
<1>8. Prepare(raw) = p3
  BY DEF Prepare, p3, p2, p1, p, lo, hi, kept, arcs
<1> HIDE DEF p3
<1>9. p3.arcs = p2.arcs /\ p3.lo = l /\ p3.hi = h /\ p3.arcs \subseteq p.arcs
  BY <1>5, <1>6, <1>7
<1>10. ASSUME NEW a \in p3.arcs PROVE a \in Arc /\ p3.arr[a] = Folded(raw)[a] /\ DOMAIN p3.arr[a] # {}
  <2>1. a \in p.arcs /\ a \in p2.arcs /\ a \in arcs /\ a \in Arc  BY <1>1, <1>4, <1>9
  <2>2. p3.arr[a] = p1.arr[a] /\ p1.arr[a] = kept[a]  BY <2>1, <1>5, <1>7
  <2> QED BY <2>1, <2>2, <1>1, <1>4
<1>11. \A v \in {Start, End} : p3.lo[v] = raw.lo[v] /\ p3.hi[v] = raw.hi[v]
  <2>1. Start \in Vertex /\ End \in Vertex  BY Vertices DEF Sane, Proper
  <2>2. \A v \in {Start, End} : l[v] = lo[v] /\ h[v] = hi[v]  BY <1>2, <2>1 DEF Openings, Closings
  <2> QED BY <1>2, <1>9, <2>2
<1>12. Refined(raw, p3)
  <2>1. kept = Carried(raw)  BY DEF kept, arcs, Carried
  <2>2. lo = Shifted(raw, raw.lo) /\ hi = Shifted(raw, raw.hi) /\ arcs = Loadable(raw)  BY DEF lo, hi, arcs
  <2>3. p1.arcs = Passable(raw, l, h)
    <3>1. p1.arcs = {a \in arcs : l[a[1]] + TravelTime(kept[a], l[a[1]]) <= h[a[2]]}  BY <1>3, <1>5
    <3> QED BY <2>1, <2>2, <3>1 DEF Passable
  <2>4. p1.arr = Spread(raw, p1.arcs)
    <3>1. p1.arr = [a \in Arc |-> IF a \in p1.arcs THEN kept[a] ELSE <<>>]  BY <1>5
    <3> QED BY <2>1, <3>1 DEF Spread
  <2>5. p1.lo = l /\ p1.hi = h /\ p3.lo = l /\ p3.hi = h  BY <1>5, <1>9
  <2>6. p3.arcs = Straight(p1)  BY <1>6, <1>9 DEF Straight
  <2>7. Staged(Loadable(raw), Carried(raw), Shifted(raw, raw.lo), Shifted(raw, raw.hi), l, h)
    BY <1>o, <2>1, <2>2
  <2>8. l \in Openings(Shifted(raw, raw.lo)) /\ h \in Closings(Shifted(raw, raw.hi))  BY <2>2
  <2>9. Refining(raw, p3, l, h, p1)  BY ONLY <2>3, <2>4, <2>5, <2>6, <2>7, <2>8 DEF Refining
  <2> QED BY ONLY <2>9 DEF Refined
<1> QED BY <1>8, <1>10, <1>11, <1>12 DEF Ready

(* One drive. *)
Linked(w, a, x, y) == a \in w.arcs /\ x \in DOMAIN w.arr[a] /\ y = w.arr[a][x]

(* The legs forward are the arrival function; a leg backward starts no earlier, in the
   time that runs backwards, than the arrival it mirrors. *)
LEMMA ForwardLeg ==
  ASSUME NEW p, NEW u \in Vertex, NEW v \in Vertex, NEW e \in LegTable(p)[0][u][v]
  PROVE  e = <<e[1], e[2]>> /\ Linked(p, <<u, v>>, e[1], e[2])
<1>1. LegTable(p)[0][u][v] =
        IF <<u, v>> \in p.arcs
        THEN {<<t, p.arr[<<u, v>>][t]>> : t \in DOMAIN p.arr[<<u, v>>]} ELSE {}
  BY DEF LegTable, Dir
<1>2. <<u, v>> \in p.arcs /\ \E t \in DOMAIN p.arr[<<u, v>>] : e = <<t, p.arr[<<u, v>>][t]>>
  BY <1>1
<1>3. PICK t \in DOMAIN p.arr[<<u, v>>] : e = <<t, p.arr[<<u, v>>][t]>>
  BY <1>2
<1> QED BY <1>2, <1>3 DEF Linked

LEMMA BackwardLeg ==
  ASSUME NEW raw, Sane(raw), NEW p, Ready(raw, p), NEW u \in Vertex, NEW v \in Vertex,
         NEW e \in LegTable(p)[1][u][v]
  PROVE  /\ <<v, u>> \in p.arcs
         /\ \E t \in DOMAIN p.arr[<<v, u>>] :
              e = <<e[1], T - t>> /\ e[1] \in Int /\ e[1] <= T - p.arr[<<v, u>>][t]
<1>2. LegTable(p)[1][u][v] = IF <<v, u>> \in p.arcs THEN Mirror(p, <<u, v>>) ELSE {}
  BY DEF LegTable, Dir
<1> DEFINE f == p.arr[<<v, u>>]
<1>3. ASSUME <<v, u>> \in p.arcs, e \in Mirror(p, <<u, v>>)
      PROVE  \E t \in DOMAIN f : e = <<e[1], T - t>> /\ e[1] \in Int /\ e[1] <= T - f[t]
  <2>1. Mirror(p, <<u, v>>) =
          {<<T - f[t], T - t>> : t \in DOMAIN f}
            \cup {<<s, T - Max(DOMAIN f)>> : s \in Open(p, 1, u)..(T - Max(Image(f)) - 1)}
    BY DEF Mirror, Turned
  <2>2. Drivable(raw, <<v, u>>, f) /\ DOMAIN f # {} /\ T \in Nat /\ Never \in Nat
    BY <1>3, FoldedDrivable DEF Ready, Sane, Proper
  <2> HIDE DEF f
  <2>3. /\ DOMAIN f \subseteq 0..T
        /\ \A t \in DOMAIN f : f[t] \in Int /\ f[t] < Never
    BY <2>2 DEF Drivable
  <2>4. CASE \E t \in DOMAIN f : e = <<T - f[t], T - t>>
    <3>1. PICK t \in DOMAIN f : e = <<T - f[t], T - t>>  BY <2>4
    <3>2. f[t] \in Int  BY <2>3
    <3> QED BY <3>1, <3>2, <2>2
  <2>5. CASE \E s \in Open(p, 1, u)..(T - Max(Image(f)) - 1) : e = <<s, T - Max(DOMAIN f)>>
    <3>1. Max(DOMAIN f) \in DOMAIN f
      <4>1. DOMAIN f \subseteq Int /\ T \in Int /\ \A t \in DOMAIN f : t <= T  BY <2>2, <2>3
      <4> QED BY <4>1, <2>2, MaxIs
    <3>2. Max(Image(f)) \in Int /\ \A t \in DOMAIN f : f[t] <= Max(Image(f))
      <4>1. Image(f) \subseteq Int /\ Image(f) # {} /\ Never \in Int /\ \A x \in Image(f) : x <= Never
        BY <2>2, <2>3 DEF Image
      <4>2. Max(Image(f)) \in Image(f) /\ \A x \in Image(f) : x <= Max(Image(f))  BY <4>1, MaxIs
      <4> QED BY <4>1, <4>2 DEF Image
    <3>3. PICK s \in Open(p, 1, u)..(T - Max(Image(f)) - 1) : e = <<s, T - Max(DOMAIN f)>>  BY <2>5
    <3> DEFINE t == Max(DOMAIN f)
               m == Max(Image(f))
    <3>4. t \in DOMAIN f /\ f[t] \in Int /\ f[t] <= m /\ m \in Int  BY <3>1, <3>2, <2>3
    <3>5. s \in Int /\ s <= T - m - 1  BY <3>3
    <3>6. e = <<s, T - t>>  BY <3>3
    <3> HIDE DEF t, m
    <3>7. s <= T - f[t]  BY <3>4, <3>5, <2>2
    <3> QED BY <3>4, <3>5, <3>6, <3>7
  <2> QED BY <1>3, <2>1, <2>4, <2>5
<1> QED BY <1>2, <1>3

-----------------------------------------------------------------------------
(* Sums along a path. *)
IsSum(z, f, path) ==
  /\ z \in [0..Len(path) -> Int] /\ z[0] = 0
  /\ \A i \in 1..Len(path) : z[i] = z[i - 1] + f[path[i]]

LEMMA SumIs ==
  ASSUME NEW f \in [Vertex -> Int], NEW path \in Seq(Vertex)
  PROVE  \E z : IsSum(z, f, path) /\ Along(f, path) = z[Len(path)]
<1> DEFINE n == Len(path)
           G == [y \in (1..n) \X Int |-> y[2] + f[path[y[1]]]]
<1>1. n \in Nat /\ \A i \in 1..n : path[i] \in Vertex /\ f[path[i]] \in Int
  BY ElementOfSeq
<1>2. PICK h : IsSum(h, f, path)
  <2>1. \A i \in 1..n, x \in Int : G[<<i, x>>] = x + f[path[i]]  OBVIOUS
  <2>2. G \in [(0 + 1..n) \X Int -> Int]
    <3>1. \A y \in (1..n) \X Int : y[2] + f[path[y[1]]] \in Int  BY <1>1
    <3>2. 0 + 1..n = 1..n  OBVIOUS
    <3> QED BY <3>1, <3>2
  <2> HIDE DEF G, n
  <2>3. Recursive(0, n, Int, 0, G)  BY <1>1, <2>2 DEF Recursive
  <2>4. PICK h : Unrolled(h, 0, n, Int, 0, G)  BY <2>3, Recursion
  <2>5. h \in [0..n -> Int] /\ h[0] = 0 /\ \A i \in 1..n : h[i] = G[<<i, h[i - 1]>>]
    BY <2>4, <1>1 DEF Unrolled
  <2>6. \A i \in 1..n : h[i] = h[i - 1] + f[path[i]]
    <3>1. ASSUME NEW i \in 1..n PROVE h[i] = h[i - 1] + f[path[i]]
      <4>1. i - 1 \in 0..n  BY <1>1
      <4>2. h[i - 1] \in Int  BY <2>5, <4>1
      <4> QED BY <2>1, <2>5, <4>2
    <3> QED BY <3>1
  <2> QED BY <2>5, <2>6 DEF IsSum, n
<1> DEFINE sum[i \in 0..Len(path)] == IF i = 0 THEN 0 ELSE sum[i - 1] + f[path[i]]
           F(z) == z = [i \in 0..Len(path) |-> IF i = 0 THEN 0 ELSE z[i - 1] + f[path[i]]]
<1>3. sum = CHOOSE z : F(z)
  BY DEF sum, F
<1>4. Along(f, path) = sum[n]
  BY DEF Along
<1> HIDE DEF sum
<1>5. F(h)
  <2>1. ASSUME NEW i \in 0..n PROVE h[i] = IF i = 0 THEN 0 ELSE h[i - 1] + f[path[i]]
    <3>1. i = 0 \/ i \in 1..n  BY <1>1
    <3> QED BY <1>2, <3>1 DEF IsSum
  <2> QED BY <1>2, <2>1 DEF IsSum
<1>6. F(sum)
  BY <1>3, <1>5
<1>7. IsSum(sum, f, path)
  <2>0. \A i \in 0..n : sum[i] = IF i = 0 THEN 0 ELSE sum[i - 1] + f[path[i]]
    BY <1>6
  <2>d. sum = [i \in 0..n |-> sum[i]]  BY <1>6
  <2> DEFINE S == {i \in 0..n : sum[i] \in Int}
  <2>1. 0 \in S  BY <1>1, <2>0
  <2>2. ASSUME NEW i \in 0..n - 1, i \in S PROVE i + 1 \in S
    <3> DEFINE k == i + 1
    <3>1. k \in 0..n /\ k # 0 /\ k - 1 = i /\ k \in 1..n  BY <1>1
    <3> HIDE DEF k
    <3>2. sum[k] = sum[i] + f[path[k]]  BY <2>0, <3>1
    <3>3. sum[k] \in Int  BY <1>1, <2>2, <3>1, <3>2
    <3> QED BY <3>1, <3>3 DEF k
  <2>3. \A i \in 0..n - 1 : i \in S => i + 1 \in S  BY <2>2
  <2>4. 0 \in Int /\ n \in Int  BY <1>1
  <2> HIDE DEF S, n
  <2>5. 0..n \subseteq S  BY <2>1, <2>3, <2>4, Induction
  <2>6. sum \in [0..n -> Int]  BY <2>5, <2>d DEF S
  <2>7. \A i \in 1..n : i \in 0..n /\ i # 0  BY <1>1
  <2>8. 0 \in 0..n  BY <1>1
  <2> QED BY <2>0, <2>6, <2>7, <2>8 DEF IsSum, n
<1> QED BY <1>4, <1>7

LEMMA SumUnique ==
  ASSUME NEW f \in [Vertex -> Int], NEW path \in Seq(Vertex), NEW z, IsSum(z, f, path)
  PROVE  Along(f, path) = z[Len(path)] /\ Along(f, path) \in Int
<1> DEFINE n == Len(path)
<1>1. n \in Nat  OBVIOUS
<1>2. PICK y : IsSum(y, f, path) /\ Along(f, path) = y[n]
  BY SumIs
<1> DEFINE S == {i \in 0..n : y[i] = z[i]}
<1>3. 0 \in S
  BY <1>1, <1>2 DEF IsSum
<1>4. ASSUME NEW i \in 0..n - 1, i \in S PROVE i + 1 \in S
  <2> DEFINE k == i + 1
  <2>1. k \in 0..n /\ k - 1 = i /\ k \in 1..n  BY <1>1
  <2> HIDE DEF k
  <2>2. y[k] = y[i] + f[path[k]] /\ z[k] = z[i] + f[path[k]]  BY <1>2, <2>1 DEF IsSum
  <2>3. y[k] = z[k]  BY <1>4, <2>2
  <2> QED BY <2>1, <2>3 DEF k
<1>5. \A i \in 0..n - 1 : i \in S => i + 1 \in S
  BY <1>4
<1>6. 0 \in Int /\ n \in Int /\ n \in 0..n
  BY <1>1
<1> HIDE DEF S
<1>7. n \in S
  BY <1>3, <1>5, <1>6, Induction
<1> QED BY <1>2, <1>6, <1>7 DEF S, IsSum

LEMMA SumInt ==
  ASSUME NEW f \in [Vertex -> Int], NEW path \in Seq(Vertex)
  PROVE  Along(f, path) \in Int
BY SumIs, SumUnique

LEMMA SumRoot ==
  ASSUME NEW f \in [Vertex -> Int], NEW v \in Vertex
  PROVE  Along(f, <<v>>) = f[v]
<1> DEFINE path == <<v>>
           z == [i \in 0..1 |-> IF i = 0 THEN 0 ELSE f[v]]
<1>1. path \in Seq(Vertex) /\ Len(path) = 1 /\ path[1] = v
  OBVIOUS
<1>2. f[v] \in Int
  OBVIOUS
<1>3. z \in [0..1 -> Int] /\ z[0] = 0 /\ z[1] = f[v]
  BY <1>2
<1> HIDE DEF path, z
<1>4. \A i \in 1..1 : z[i] = z[i - 1] + f[path[i]]
  <2>1. \A i \in 1..1 : i = 1 /\ i - 1 = 0  OBVIOUS
  <2>2. f[v] = 0 + f[v]  BY <1>2
  <2> QED BY <1>1, <1>3, <2>1, <2>2
<1>5. IsSum(z, f, path)
  BY <1>1, <1>3, <1>4 DEF IsSum
<1>6. Along(f, path) = f[v]
  BY <1>1, <1>3, <1>5, SumUnique
<1> QED BY <1>6 DEF path

LEMMA SumAppend ==
  ASSUME NEW f \in [Vertex -> Int], NEW path \in Seq(Vertex), NEW v \in Vertex
  PROVE  Along(f, Append(path, v)) = Along(f, path) + f[v]
<1> DEFINE n == Len(path)
           q2 == Append(path, v)
<1>1. n \in Nat /\ q2 \in Seq(Vertex) /\ Len(q2) = n + 1 /\ q2[n + 1] = v /\ \A i \in 1..n : q2[i] = path[i]
  OBVIOUS
<1>2. PICK y : IsSum(y, f, path) /\ Along(f, path) = y[n]
  BY SumIs
<1>3. y \in [0..n -> Int] /\ \A i \in 1..n : y[i] = y[i - 1] + f[path[i]]
  BY <1>2 DEF IsSum
<1> DEFINE z == [i \in 0..n + 1 |-> IF i = n + 1 THEN y[n] + f[v] ELSE y[i]]
           m == n + 1
<1>4. m \in Nat /\ m - 1 = n /\ m \in 0..m /\ n \in 0..m /\ n # m /\ n \in 0..n /\ 0 \in 0..n
      /\ (\A i \in 0..n : i \in 0..m /\ i # m)
      /\ (\A i \in 0..m : i = m \/ i \in 0..n)
      /\ (\A i \in 1..m : i = m \/ i \in 1..n)
      /\ \A i \in 1..n : i - 1 \in 0..n /\ i \in 0..n
  BY <1>1
<1>5. z = [i \in 0..m |-> IF i = m THEN y[n] + f[v] ELSE y[i]] /\ Len(q2) = m /\ q2[m] = v
  BY <1>1
<1>6. y[n] \in Int /\ f[v] \in Int /\ y[0] = 0
  BY <1>2, <1>3, <1>4 DEF IsSum
<1> HIDE DEF z, m, q2, n
<1>7. z \in [0..m -> Int] /\ z[m] = y[n] + f[v] /\ \A i \in 0..n : z[i] = y[i]
  BY <1>3, <1>4, <1>5, <1>6
<1>8. ASSUME NEW i \in 1..m PROVE z[i] = z[i - 1] + f[q2[i]]
  <2>1. CASE i = m
    BY <1>4, <1>5, <1>7, <2>1
  <2>2. CASE i \in 1..n
    BY <1>1, <1>3, <1>4, <1>7, <2>2
  <2> QED BY <1>4, <2>1, <2>2
<1>9. IsSum(z, f, q2)
  BY <1>4, <1>5, <1>6, <1>7, <1>8 DEF IsSum
<1>10. Along(f, q2) = z[m]
  BY <1>1, <1>5, <1>9, SumUnique
<1> QED BY <1>2, <1>7, <1>10 DEF q2

(* Where the vertices of a merged path come from. *)
LEMMA JoinedParts ==
  ASSUME NEW a \in Seq(Vertex), NEW b \in Seq(Vertex), Len(b) >= 1
  PROVE  /\ a \o Reverse(Front(b)) \in Seq(Vertex)
         /\ Len(a \o Reverse(Front(b))) = Len(a) + Len(b) - 1
         /\ \A i \in 1..Len(a) + Len(b) - 1 :
              (a \o Reverse(Front(b)))[i] = IF i <= Len(a) THEN a[i] ELSE b[Len(a) + Len(b) - i]
<1> DEFINE c == Front(b)
           r == Reverse(c)
           k == Len(b) - 1
<1>1. Len(a) \in Nat /\ Len(b) \in Nat /\ k \in Nat /\ Len(b) = k + 1
  OBVIOUS
<1>2. c \in Seq(Vertex) /\ Len(c) = k /\ \A i \in 1..k : c[i] = b[i]
  <2>1. 1 \in 1..Len(b) + 1 /\ k \in 0..Len(b)  BY <1>1
  <2>2. c = SubSeq(b, 1, k)  BY DEF Front
  <2> HIDE DEF k, c
  <2>3. c \in Seq(Vertex) /\ Len(c) = (IF 1 <= k THEN k - 1 + 1 ELSE 0)
        /\ \A i \in 1..k - 1 + 1 : c[i] = b[1 + i - 1]
    BY <2>1, <2>2, Stretch
  <2>4. k - 1 + 1 = k /\ (1 <= k \/ k = 0) /\ \A i \in 1..k : 1 + i - 1 = i  BY <1>1
  <2> QED BY <2>3, <2>4
<1>3. r = [i \in 1..Len(c) |-> c[(Len(c) - i) + 1]]
  BY DEF Reverse
<1> HIDE DEF c, k, r
<1>4. r \in Seq(Vertex) /\ Len(r) = k /\ \A i \in 1..k : r[i] = b[k - i + 1]
  <2>1. r = [i \in 1..k |-> c[(k - i) + 1]]  BY <1>2, <1>3
  <2>2. \A i \in 1..k : (k - i) + 1 \in 1..k /\ (k - i) + 1 = k - i + 1  BY <1>1
  <2>3. \A i \in 1..k : c[(k - i) + 1] \in Vertex  BY <1>2, <2>2, ElementOfSeq
  <2>4. r \in [1..k -> Vertex]  BY <2>1, <2>3
  <2>5. r \in Seq(Vertex)  BY <1>1, <2>4, IsASeq
  <2>6. Len(r) = k  BY <1>1, <2>1, <2>4, <2>5, LenProperties
  <2>7. \A i \in 1..k : r[i] = c[(k - i) + 1]  BY <2>1
  <2> QED BY <1>2, <2>2, <2>5, <2>6, <2>7
<1>5. /\ a \o r \in Seq(Vertex) /\ Len(a \o r) = Len(a) + Len(r)
      /\ \A i \in 1..Len(a) + Len(r) : (a \o r)[i] = IF i <= Len(a) THEN a[i] ELSE r[i - Len(a)]
  BY <1>4, ConcatProperties
<1>6. ASSUME NEW i \in 1..Len(a) + k, ~(i <= Len(a)) PROVE r[i - Len(a)] = b[Len(a) + Len(b) - i]
  <2>1. i - Len(a) \in 1..k /\ k - (i - Len(a)) + 1 = Len(a) + Len(b) - i  BY <1>1, <1>6
  <2> QED BY <1>4, <2>1
<1>7. Len(a) + Len(r) = Len(a) + Len(b) - 1 /\ Len(a) + Len(r) = Len(a) + k
  BY <1>1, <1>4
<1> QED BY <1>5, <1>6, <1>7 DEF r, c

LEMMA SumJoined ==
  ASSUME NEW f \in [Vertex -> Int], NEW a \in Seq(Vertex), NEW b \in Seq(Vertex),
         Len(a) >= 1, Len(b) >= 1, NEW v, a[Len(a)] = v, b[Len(b)] = v
  PROVE  Along(f, a \o Reverse(Front(b))) = Along(f, a) + Along(f, b) - f[v]
<1> DEFINE j == a \o Reverse(Front(b))
           m == Len(a)
           k == Len(b)
           n == m + k - 1
<1>1. m \in Nat /\ k \in Nat /\ m >= 1 /\ k >= 1 /\ n \in Nat
  OBVIOUS
<1>2. j \in Seq(Vertex) /\ Len(j) = n
      /\ \A i \in 1..n : j[i] = IF i <= m THEN a[i] ELSE b[m + k - i]
  BY JoinedParts
<1>3. PICK y : IsSum(y, f, a) /\ Along(f, a) = y[m]
  BY SumIs
<1>4. PICK x : IsSum(x, f, b) /\ Along(f, b) = x[k]
  BY SumIs
<1> DEFINE z == [i \in 0..n |-> IF i <= m THEN y[i] ELSE y[m] + x[k - 1] - x[m + k - 1 - i]]
<1>5. /\ y \in [0..m -> Int] /\ y[0] = 0 /\ \A i \in 1..m : y[i] = y[i - 1] + f[a[i]]
      /\ x \in [0..k -> Int] /\ x[0] = 0 /\ \A i \in 1..k : x[i] = x[i - 1] + f[b[i]]
  BY <1>3, <1>4 DEF IsSum
<1> HIDE DEF j
<1>6. z \in [0..n -> Int]
  <2>1. ASSUME NEW i \in 0..n
        PROVE (IF i <= m THEN y[i] ELSE y[m] + x[k - 1] - x[m + k - 1 - i]) \in Int
    <3>1. CASE i <= m
      <4>1. i \in 0..m  BY <1>1, <3>1
      <4> QED BY <1>5, <3>1, <4>1
    <3>2. CASE ~(i <= m)
      <4>1. m \in 0..m /\ k - 1 \in 0..k /\ m + k - 1 - i \in 0..k  BY <1>1, <3>2
      <4>2. y[m] \in Int /\ x[k - 1] \in Int /\ x[m + k - 1 - i] \in Int  BY <1>5, <4>1
      <4> HIDE DEF m, k
      <4>3. y[m] + x[k - 1] - x[m + k - 1 - i] \in Int  BY <4>2
      <4> QED BY <3>2, <4>3
    <3> QED BY <3>1, <3>2
  <2> QED BY <2>1
<1>7. \A i \in 0..n : z[i] = IF i <= m THEN y[i] ELSE y[m] + x[k - 1] - x[m + k - 1 - i]
  OBVIOUS
<1> HIDE DEF z, n, m, k
<1>8. ASSUME NEW i \in 1..n PROVE z[i] = z[i - 1] + f[j[i]]
  <2>0. i \in 0..n /\ i - 1 \in 0..n /\ n = m + k - 1  BY <1>1 DEF n
  <2>1. CASE i <= m
    <3>1. i \in 1..m /\ i - 1 <= m  BY <1>1, <2>0, <2>1
    <3>2. z[i] = y[i] /\ z[i - 1] = y[i - 1] /\ j[i] = a[i]  BY <1>2, <1>7, <2>0, <2>1, <3>1
    <3> QED BY <1>5, <3>1, <3>2
  <2>2. CASE ~(i <= m)
    <3> DEFINE e == m + k - i
    <3>1. e \in 1..k /\ e - 1 = m + k - 1 - i /\ m + k - 1 - (i - 1) = e /\ e \in 0..k /\ e - 1 \in 0..k
      BY <1>1, <2>0, <2>2
    <3> HIDE DEF e
    <3>2. z[i] = y[m] + x[k - 1] - x[e - 1]  BY <1>7, <2>0, <2>2, <3>1
    <3>3. z[i - 1] = y[m] + x[k - 1] - x[e]
      <4>1. CASE i - 1 <= m
        <5>1. i - 1 = m /\ e = k - 1  BY <1>1, <2>0, <2>2, <4>1 DEF e
        <5>2. y[m] \in Int /\ x[k - 1] \in Int
          <6>1. m \in 0..m /\ k - 1 \in 0..k  BY <1>1
          <6> QED BY <1>5, <6>1
        <5>3. z[i - 1] = y[m]  BY <1>7, <2>0, <4>1, <5>1
        <5> QED BY <5>1, <5>2, <5>3
      <4>2. CASE ~(i - 1 <= m)
        BY <1>7, <2>0, <4>2, <3>1
      <4> QED BY <4>1, <4>2
    <3>4. x[e] = x[e - 1] + f[b[e]] /\ j[i] = b[e]  BY <1>2, <1>5, <2>2, <3>1 DEF e
    <3>5. y[m] \in Int /\ x[k - 1] \in Int /\ x[e] \in Int /\ x[e - 1] \in Int /\ f[b[e]] \in Int
      <4>1. m \in 0..m /\ k - 1 \in 0..k  BY <1>1
      <4>2. b[e] \in Vertex  BY <3>1, ElementOfSeq DEF k
      <4> QED BY <1>5, <3>1, <4>1, <4>2
    <3>6. f[j[i]] = f[b[e]]  BY <3>4
    <3>7. y[m] + x[k - 1] - x[e - 1] = y[m] + x[k - 1] - x[e] + f[b[e]]
      <4> DEFINE c0 == y[m]  c1 == x[k - 1]  c2 == x[e]  c3 == x[e - 1]  c4 == f[b[e]]
      <4>1. c0 \in Int /\ c1 \in Int /\ c2 \in Int /\ c3 \in Int /\ c4 \in Int /\ c2 = c3 + c4
        BY <3>4, <3>5
      <4> HIDE DEF c0, c1, c2, c3, c4
      <4>2. c0 + c1 - c3 = c0 + c1 - c2 + c4  BY <4>1
      <4> QED BY <4>2 DEF c0, c1, c2, c3, c4
    <3> QED BY <3>2, <3>3, <3>6, <3>7
  <2> QED BY <2>1, <2>2
<1>9. IsSum(z, f, j)
  <2>1. 0 \in 0..n /\ 0 <= m  BY <1>1
  <2>2. z[0] = 0  BY <1>5, <1>7, <2>1
  <2> QED BY <1>2, <1>6, <1>8, <2>2 DEF IsSum
<1>10. Along(f, j) = z[n]
  BY <1>2, <1>9, SumUnique
<1>11. z[n] = y[m] + x[k] - f[v]
  <2>1. n \in 0..n /\ n = m + k - 1 /\ m + k - 1 - n = 0  BY <1>1 DEF n
  <2>2. k \in 1..k /\ k - 1 \in 0..k /\ m \in 0..m /\ k \in 0..k  BY <1>1
  <2>3. x[k] = x[k - 1] + f[v] /\ x[k - 1] \in Int /\ y[m] \in Int /\ x[k] \in Int
    BY <1>5, <2>2 DEF k
  <2>4. f[v] \in Int
    <3>1. b[k] \in Vertex  BY <2>2, ElementOfSeq DEF k
    <3> QED BY <3>1 DEF k
  <2>5. CASE n <= m
    <3>1. n = m /\ k - 1 = 0  BY <1>1, <2>1, <2>5
    <3>2. z[n] = y[m] /\ x[k - 1] = 0  BY <1>5, <1>7, <2>1, <3>1
    <3> QED BY <2>3, <2>4, <3>2
  <2>6. CASE ~(n <= m)
    <3>1. z[n] = y[m] + x[k - 1] - x[0]  BY <1>7, <2>1, <2>6
    <3> QED BY <1>5, <2>3, <2>4, <3>1
  <2> QED BY <2>5, <2>6
<1> QED BY <1>3, <1>4, <1>10, <1>11 DEF j, m, k

-----------------------------------------------------------------------------
(* Trips: times at the vertices of a path, one drive after the other.  In direction 1
   the path is written from its end. *)
Way(d, u, v) == IF d = 0 THEN <<u, v>> ELSE <<v, u>>
Hop(w, d, u, v, x, y) ==
  IF d = 0 THEN Linked(w, <<u, v>>, x, y) ELSE Linked(w, <<v, u>>, y, x)

Roads(w, A, d, path) ==
  \A i \in 1..Len(path) - 1 : Way(d, path[i], path[i + 1]) \in w.arcs \ A

IsTrip(w, d, path, z) ==
  /\ z \in [1..Len(path) -> Int]
  /\ \A i \in 1..Len(path) - 1 : Hop(w, d, path[i], path[i + 1], z[i], z[i + 1])

LEMMA TripRoot ==
  ASSUME NEW w, NEW d \in Dir, NEW v \in Vertex, NEW x \in Int
  PROVE  IsTrip(w, d, <<v>>, <<x>>)
<1> DEFINE path == <<v>>
           z == <<x>>
<1>1. Len(path) = 1 /\ 1..1 - 1 = {} /\ z \in [1..1 -> Int]
  OBVIOUS
<1> HIDE DEF path, z
<1>2. IsTrip(w, d, path, z)
  BY <1>1 DEF IsTrip
<1> QED BY <1>2 DEF path, z

LEMMA RoadsRoot ==
  ASSUME NEW w, NEW A, NEW d, NEW v \in Vertex
  PROVE  Roads(w, A, d, <<v>>)
<1>1. Len(<<v>>) = 1 /\ 1..1 - 1 = {}
  OBVIOUS
<1> QED BY <1>1 DEF Roads

LEMMA TripAppend ==
  ASSUME NEW w, NEW d \in Dir, NEW path \in Seq(Vertex), Len(path) >= 1, NEW z, IsTrip(w, d, path, z),
         NEW v \in Vertex, NEW x \in Int, Hop(w, d, path[Len(path)], v, z[Len(path)], x)
  PROVE  \E y : IsTrip(w, d, Append(path, v), y) /\ y[1] = z[1] /\ y[Len(path) + 1] = x
<1> DEFINE n == Len(path)
           m == n + 1
           p2 == Append(path, v)
           y == [i \in 1..m |-> IF i = m THEN x ELSE z[i]]
<1>1. n \in Nat /\ n >= 1 /\ p2 \in Seq(Vertex) /\ Len(p2) = m /\ p2[m] = v /\ \A i \in 1..n : p2[i] = path[i]
  OBVIOUS
<1>2. /\ m - 1 = n /\ 1 \in 1..n /\ 1 # m /\ m \in 1..m
      /\ \A i \in 1..n : i \in 1..m /\ i # m
      /\ \A i \in 1..m : i = m \/ i \in 1..n
      /\ \A i \in 1..n : i = n \/ (i \in 1..n - 1 /\ i + 1 \in 1..n)
      /\ n + 1 = m
  BY <1>1
<1>3. z \in [1..n -> Int] /\ \A i \in 1..n - 1 : Hop(w, d, path[i], path[i + 1], z[i], z[i + 1])
  BY DEF IsTrip
<1>4. Hop(w, d, path[n], v, z[n], x)
  OBVIOUS
<1> HIDE DEF n, m, p2
<1>5. y \in [1..m -> Int] /\ y[m] = x /\ \A i \in 1..n : y[i] = z[i]
  BY <1>2, <1>3
<1> HIDE DEF y
<1>6. ASSUME NEW i \in 1..m - 1 PROVE Hop(w, d, p2[i], p2[i + 1], y[i], y[i + 1])
  <2>0. i \in 1..n  BY <1>2
  <2>1. CASE i = n
    BY <1>1, <1>2, <1>4, <1>5, <2>0, <2>1
  <2>2. CASE i # n
    <3>1. i \in 1..n - 1 /\ i + 1 \in 1..n  BY <1>2, <2>0, <2>2
    <3>2. p2[i] = path[i] /\ p2[i + 1] = path[i + 1] /\ y[i] = z[i] /\ y[i + 1] = z[i + 1]
      BY <1>1, <1>5, <2>0, <3>1
    <3> QED BY <1>3, <3>1, <3>2
  <2> QED BY <2>1, <2>2
<1>7. IsTrip(w, d, p2, y)
  BY <1>1, <1>5, <1>6 DEF IsTrip
<1>8. y[1] = z[1] /\ y[n + 1] = x
  BY <1>2, <1>5
<1> QED BY <1>7, <1>8 DEF p2, n

LEMMA RoadsAppend ==
  ASSUME NEW w, NEW A, NEW d \in Dir, NEW path \in Seq(Vertex), Len(path) >= 1, Roads(w, A, d, path),
         NEW v \in Vertex, Way(d, path[Len(path)], v) \in w.arcs \ A
  PROVE  Roads(w, A, d, Append(path, v))
<1> DEFINE n == Len(path)
           p2 == Append(path, v)
<1>1. n \in Nat /\ n >= 1 /\ Len(p2) = n + 1 /\ p2[n + 1] = v /\ \A i \in 1..n : p2[i] = path[i]
  OBVIOUS
<1>2. Way(d, path[n], v) \in w.arcs \ A /\ n + 1 - 1 = n /\ n \in 1..n
  BY <1>1
<1> HIDE DEF n, p2
<1>3. ASSUME NEW i \in 1..n PROVE Way(d, p2[i], p2[i + 1]) \in w.arcs \ A
  <2>1. CASE i = n
    BY <1>1, <1>2, <2>1
  <2>2. CASE i # n
    <3>1. i \in 1..n - 1 /\ i + 1 \in 1..n  BY <1>1, <2>2
    <3>2. p2[i] = path[i] /\ p2[i + 1] = path[i + 1]  BY <1>1, <3>1
    <3>3. Way(d, path[i], path[i + 1]) \in w.arcs \ A  BY <3>1 DEF Roads, n
    <3> QED BY <3>2, <3>3
  <2> QED BY <2>1, <2>2
<1> QED BY <1>1, <1>2, <1>3 DEF Roads, p2

(* The backward path, turned round, follows the forward one. *)
Joinable(w, a, b, j) ==
  \A x, y : IsTrip(w, 0, a, x) /\ IsTrip(w, 1, b, y) /\ x[Len(a)] = y[Len(b)] =>
    \E z : IsTrip(w, 0, j, z) /\ z[1] = x[1] /\ z[Len(a) + Len(b) - 1] = y[1]

LEMMA TripJoined ==
  ASSUME NEW w, NEW A, NEW a \in Seq(Vertex), NEW b \in Seq(Vertex), Len(a) >= 1, Len(b) >= 1,
         a[Len(a)] = b[Len(b)]
  PROVE  /\ Roads(w, A, 0, a) /\ Roads(w, A, 1, b) => Roads(w, A, 0, a \o Reverse(Front(b)))
         /\ Joinable(w, a, b, a \o Reverse(Front(b)))
<1> DEFINE m == Len(a)
           k == Len(b)
           n == m + k - 1
           j == a \o Reverse(Front(b))
<1>1. m \in Nat /\ k \in Nat /\ m >= 1 /\ k >= 1 /\ n = m + k - 1 /\ n \in Nat /\ n >= m
  OBVIOUS
<1>2. j \in Seq(Vertex) /\ Len(j) = n /\ \A i \in 1..n : j[i] = IF i <= m THEN a[i] ELSE b[m + k - i]
  BY JoinedParts
<1>3. a[m] = b[k]
  OBVIOUS
<1> HIDE DEF m, k, n, j
<1>4. ASSUME NEW i \in 1..n - 1
      PROVE  \/ i \in 1..m - 1 /\ j[i] = a[i] /\ j[i + 1] = a[i + 1]
             \/ \E e \in 1..k - 1 : /\ i >= m /\ e = m + k - i - 1
                                    /\ j[i] = b[e + 1] /\ j[i + 1] = b[e]
  <2>0. i \in 1..n /\ i + 1 \in 1..n  BY <1>1
  <2>1. CASE i < m
    <3>1. i \in 1..m - 1 /\ i <= m /\ i + 1 <= m  BY <1>1, <2>1
    <3> QED BY <1>2, <2>0, <3>1
  <2>2. CASE ~(i < m)
    <3> DEFINE e == m + k - i - 1
    <3>1. e \in 1..k - 1 /\ i >= m /\ ~(i + 1 <= m) /\ m + k - (i + 1) = e /\ m + k - i = e + 1
      BY <1>1, <2>2
    <3>2. j[i + 1] = b[e]  BY <1>2, <2>0, <3>1
    <3>3. j[i] = b[e + 1]
      <4>1. CASE i = m
        <5>1. e + 1 = k /\ i <= m  BY <1>1, <4>1
        <5> QED BY <1>2, <1>3, <2>0, <4>1, <5>1
      <4>2. CASE i # m
        <5>1. ~(i <= m)  BY <1>1, <3>1, <4>2
        <5> QED BY <1>2, <2>0, <3>1, <5>1
      <4> QED BY <4>1, <4>2
    <3> QED BY <3>1, <3>2, <3>3
  <2> QED BY <2>1, <2>2
<1>5. ASSUME Roads(w, A, 0, a), Roads(w, A, 1, b) PROVE Roads(w, A, 0, j)
  <2>1. \A i \in 1..m - 1 : <<a[i], a[i + 1]>> \in w.arcs \ A  BY <1>5 DEF Roads, Way, m
  <2>2. \A i \in 1..k - 1 : <<b[i + 1], b[i]>> \in w.arcs \ A  BY <1>5 DEF Roads, Way, k
  <2>3. \A i \in 1..n - 1 : <<j[i], j[i + 1]>> \in w.arcs \ A  BY <1>4, <2>1, <2>2
  <2> QED BY <1>2, <2>3 DEF Roads, Way
<1>6. ASSUME NEW x, NEW y, IsTrip(w, 0, a, x), IsTrip(w, 1, b, y), x[m] = y[k]
      PROVE  \E z : IsTrip(w, 0, j, z) /\ z[1] = x[1] /\ z[n] = y[1]
  <2> DEFINE z == [i \in 1..n |-> IF i <= m THEN x[i] ELSE y[m + k - i]]
  <2>1. x \in [1..m -> Int] /\ \A i \in 1..m - 1 : Linked(w, <<a[i], a[i + 1]>>, x[i], x[i + 1])
    BY <1>6 DEF IsTrip, Hop, m
  <2>2. y \in [1..k -> Int] /\ \A i \in 1..k - 1 : Linked(w, <<b[i + 1], b[i]>>, y[i + 1], y[i])
    BY <1>6 DEF IsTrip, Hop, k
  <2>3. \A i \in 1..n : z[i] = IF i <= m THEN x[i] ELSE y[m + k - i]  OBVIOUS
  <2>4. z \in [1..n -> Int]
    <3>1. ASSUME NEW i \in 1..n PROVE (IF i <= m THEN x[i] ELSE y[m + k - i]) \in Int
      <4>1. i <= m => i \in 1..m  BY <1>1
      <4>2. ~(i <= m) => m + k - i \in 1..k  BY <1>1
      <4> QED BY <2>1, <2>2, <4>1, <4>2
    <3> QED BY <3>1
  <2> HIDE DEF z
  <2>5. ASSUME NEW i \in 1..n - 1 PROVE Linked(w, <<j[i], j[i + 1]>>, z[i], z[i + 1])
    <3>0. i \in 1..n /\ i + 1 \in 1..n  BY <1>1
    <3>1. CASE i \in 1..m - 1 /\ j[i] = a[i] /\ j[i + 1] = a[i + 1]
      <4>1. i <= m /\ i + 1 <= m  BY <1>1, <3>1
      <4>2. z[i] = x[i] /\ z[i + 1] = x[i + 1]  BY <2>3, <3>0, <4>1
      <4> QED BY <2>1, <3>1, <4>2
    <3>2. ASSUME NEW e \in 1..k - 1, i >= m, e = m + k - i - 1, j[i] = b[e + 1], j[i + 1] = b[e]
          PROVE  Linked(w, <<j[i], j[i + 1]>>, z[i], z[i + 1])
      <4>0. i \in Int /\ e \in Int  BY <1>1
      <4>1. ~(i + 1 <= m) /\ m + k - (i + 1) = e /\ m + k - i = e + 1  BY <1>1, <3>2, <4>0
      <4>2. z[i + 1] = y[e]  BY <2>3, <3>0, <4>1
      <4>3. z[i] = y[e + 1]
        <5>1. CASE i = m
          <6>1. e + 1 = k /\ i <= m  BY <1>1, <3>2, <5>1
          <6> QED BY <1>6, <2>3, <3>0, <5>1, <6>1
        <5>2. CASE i # m
          <6>1. ~(i <= m)  BY <1>1, <3>2, <5>2
          <6> QED BY <2>3, <3>0, <4>1, <6>1
        <5> QED BY <5>1, <5>2
      <4> QED BY <2>2, <3>2, <4>2, <4>3
    <3> QED BY <1>4, <3>1, <3>2
  <2>6. IsTrip(w, 0, j, z)
    BY <1>2, <2>4, <2>5 DEF IsTrip, Hop
  <2>7. z[1] = x[1] /\ z[n] = y[1]
    <3>1. 1 \in 1..n /\ 1 <= m /\ n \in 1..n  BY <1>1
    <3>2. z[1] = x[1]  BY <2>3, <3>1
    <3>3. CASE n = m
      <4>1. k = 1 /\ n <= m  BY <1>1, <3>3
      <4> QED BY <1>6, <2>3, <3>1, <3>2, <3>3, <4>1
    <3>4. CASE n # m
      <4>1. ~(n <= m)  BY <1>1, <3>4
      <4>2. m + k - n = 1  BY <1>1
      <4>3. z[n] = y[m + k - n]  BY <2>3, <3>1, <4>1
      <4> QED BY <3>2, <4>2, <4>3
    <3> QED BY <3>3, <3>4
  <2> QED BY <2>6, <2>7
<1>7. Joinable(w, a, b, j)
  BY <1>6 DEF Joinable, m, k, n
<1> QED BY <1>5, <1>7 DEF j

-----------------------------------------------------------------------------
(* What is true of every label: it is an elementary path over drivable arcs, its sums are
   those of the path, and its times can be kept.  A forward label's duration at t is that
   of a trip that is at the end of the path at t; a backward one bounds, whenever one is
   there by then, when one is home. *)
Label ==
  [path : Seq(Vertex), dur : UNION {[S -> Nat] : S \in SUBSET (0..T)}, U : SUBSET Vertex,
   q : Int, p : Int, n : Int]

Loads(p)   == [v \in Vertex |-> Raw[p.net].load[v]]
Profits(p) == [v \in Vertex |-> IF v \in Customer THEN p.P[v] ELSE 0]
Counts(p)  == [v \in Vertex |-> IF v \in p.cut THEN 1 ELSE 0]

Forth(raw, w, path, t, c) ==
  /\ Fits(raw, path[Len(path)], t)
  /\ \E z : IsTrip(w, 0, path, z) /\ z[1] \in w.lo[Start]..w.hi[Start] /\ z[Len(path)] = t /\ t - z[1] = c

Back(raw, w, path, t, c) ==
  \A x \in Int : Fits(raw, path[Len(path)], x) /\ x <= T - t =>
    \E z : IsTrip(w, 1, path, z) /\ z[Len(path)] = x /\ z[1] <= T - t + c

Shaped(p, w, d, l) ==
  /\ l \in Label /\ Len(l.path) >= 1 /\ l.path[1] = From(d) /\ IsInjective(l.path)
  /\ Roads(w, p.A, d, l.path) /\ Range(l.path) \subseteq l.U /\ DOMAIN l.dur # {}
  /\ l.q = Along(Loads(p), l.path) /\ l.p = Along(Profits(p), l.path)
  /\ l.n = Along(Counts(p), l.path) /\ l.q <= Raw[p.net].room

Timed(p, w, d, l) ==
  \A t \in DOMAIN l.dur :
    IF d = 0 THEN Forth(Raw[p.net], w, l.path, t, l.dur[t])
             ELSE Back(Raw[p.net], w, l.path, t, l.dur[t])

Good(p, w, d, l) == Shaped(p, w, d, l) /\ Timed(p, w, d, l)

Setting == prob \in Problem /\ vrp = Prepared[prob.net]

LEMMA SettingIs ==
  ASSUME Setting
  PROVE  /\ Sane(Raw[prob.net]) /\ Posed(prob) /\ Ready(Raw[prob.net], vrp) /\ Refined(Raw[prob.net], vrp)
         /\ \A a \in vrp.arcs : a \in Arc /\ Drivable(Raw[prob.net], a, vrp.arr[a])
         /\ \A u, v \in Vertex : \A e \in Legs(0, <<u, v>>) :
              e = <<e[1], e[2]>> /\ Linked(vrp, <<u, v>>, e[1], e[2])
         /\ \A u, v \in Vertex : \A e \in Legs(1, <<u, v>>) :
              /\ <<v, u>> \in vrp.arcs
              /\ \E t \in DOMAIN vrp.arr[<<v, u>>] :
                   e = <<e[1], T - t>> /\ e[1] \in Int /\ e[1] <= T - vrp.arr[<<v, u>>][t]
<1> DEFINE k == prob.net
           raw == Raw[k]
           w == Prepare(raw)
<1>1. Posed(prob) /\ k \in DOMAIN Raw /\ Sane(raw)
  BY LabelingAssumption, RawSane DEF Setting, Posed
<1>2. Ready(raw, w) /\ Refined(raw, w)
  BY <1>1, PrepareIs
<1>3. vrp.arcs = w.arcs /\ vrp.arr = w.arr /\ vrp.lo = w.lo /\ vrp.hi = w.hi /\ vrp.legs = LegTable(w)
  BY <1>1 DEF Setting, Prepared
<1> HIDE DEF w, raw
<1>4. Ready(raw, vrp)
  BY <1>2, <1>3 DEF Ready
<1>4a. Refined(raw, vrp)
  <2>1. PICK l, h, p : Refining(raw, w, l, h, p)  BY <1>2 DEF Refined
  <2>2. Refining(raw, vrp, l, h, p)  BY <1>3, <2>1 DEF Refining
  <2> QED BY <2>2 DEF Refined
<1>5. \A a \in vrp.arcs : a \in Arc /\ Drivable(raw, a, vrp.arr[a])
  BY <1>1, <1>4, FoldedDrivable DEF Ready
<1>6. \A u, v \in Vertex : Legs(0, <<u, v>>) = LegTable(w)[0][u][v] /\ Legs(1, <<u, v>>) = LegTable(w)[1][u][v]
  BY <1>3 DEF Legs
<1>7. ASSUME NEW u \in Vertex, NEW v \in Vertex, NEW e \in Legs(0, <<u, v>>)
      PROVE  e = <<e[1], e[2]>> /\ Linked(vrp, <<u, v>>, e[1], e[2])
  <2>1. e \in LegTable(w)[0][u][v]  BY <1>6
  <2>2. e = <<e[1], e[2]>> /\ Linked(w, <<u, v>>, e[1], e[2])
    BY <2>1, ForwardLeg
  <2> QED BY <1>3, <2>2 DEF Linked
<1>8. ASSUME NEW u \in Vertex, NEW v \in Vertex, NEW e \in Legs(1, <<u, v>>)
      PROVE  /\ <<v, u>> \in vrp.arcs
             /\ \E t \in DOMAIN vrp.arr[<<v, u>>] :
                  e = <<e[1], T - t>> /\ e[1] \in Int /\ e[1] <= T - vrp.arr[<<v, u>>][t]
  <2>1. e \in LegTable(w)[1][u][v]  BY <1>6
  <2>2. /\ <<v, u>> \in w.arcs
        /\ \E t \in DOMAIN w.arr[<<v, u>>] :
             e = <<e[1], T - t>> /\ e[1] \in Int /\ e[1] <= T - w.arr[<<v, u>>][t]
    BY <1>1, <1>2, <2>1, BackwardLeg
  <2> QED BY <1>3, <2>2
<1> QED BY <1>1, <1>4, <1>4a, <1>5, <1>7, <1>8 DEF raw

LEMMA SumFunctions ==
  ASSUME NEW p \in Problem
  PROVE  /\ Loads(p) \in [Vertex -> Int] /\ Profits(p) \in [Vertex -> Int] /\ Counts(p) \in [Vertex -> Int]
         /\ \A v \in {Start, End} : Loads(p)[v] = 0 /\ Profits(p)[v] = 0 /\ Counts(p)[v] = 0
<1>1. Posed(p) /\ Sane(Raw[p.net])
  BY LabelingAssumption, RawSane DEF Posed
<1>2. \A v \in {Start, End} : v \in Vertex /\ v \notin Customer
  BY <1>1, Vertices DEF Sane
<1>3. Loads(p) \in [Vertex -> Int] /\ \A v \in {Start, End} : Loads(p)[v] = 0
  <2>1. Raw[p.net].load \in [Vertex -> Nat]
        /\ \A v \in Vertex : v \notin Customer => Raw[p.net].load[v] = 0
    BY <1>1 DEF Sane, Proper
  <2> QED BY <1>2, <2>1 DEF Loads
<1>4. Profits(p) \in [Vertex -> Int] /\ \A v \in {Start, End} : Profits(p)[v] = 0
  BY <1>1, <1>2 DEF Posed, Profits
<1>5. Counts(p) \in [Vertex -> Int] /\ \A v \in {Start, End} : Counts(p)[v] = 0
  BY <1>1, <1>2 DEF Posed, Counts
<1> QED BY <1>3, <1>4, <1>5

(* The label a search starts with. *)
LEMMA RootGood ==
  ASSUME Setting, tm[0] \in 0..T, NEW d \in Dir, NEW l \in Rooted(d)
  PROVE  Good(prob, vrp, d, l)
<1> DEFINE raw == Raw[prob.net]
           times == {t \in OpenAt(d, From(d))..CloseAt(d, From(d)) : d = 0 => t <= tm[0]}
           v == From(d)
<1>1. Sane(raw) /\ Posed(prob) /\ Ready(raw, vrp)
  BY SettingIs
<1>2. v \in Vertex /\ v \in {Start, End} /\ (d = 0 => v = Start) /\ (d = 1 => v = End) /\ d \in {0, 1}
      /\ v \notin Customer /\ T \in Nat /\ Start \in Vertex
  BY <1>1, Vertices DEF From, Dir, Sane
<1>3. /\ vrp.lo[v] \in Nat /\ vrp.hi[v] \in Nat /\ vrp.hi[v] <= T
      /\ raw.lo[v] = vrp.lo[v] /\ raw.hi[v] = vrp.hi[v] /\ raw.service[v] = 0
  BY <1>1, <1>2 DEF Ready, Sane, Proper
<1>4. times # {} /\ l = [path |-> <<v>>, dur |-> [t \in times |-> 0],
                         U |-> {v} \cup Unreachable(d, v, Min(times)), q |-> 0, p |-> 0, n |-> 0]
  BY DEF Rooted
<1>5. /\ times \subseteq 0..T
      /\ \A t \in times : IF d = 0 THEN t \in vrp.lo[v]..vrp.hi[v] ELSE T - t \in vrp.lo[v]..vrp.hi[v]
  BY <1>2, <1>3 DEF OpenAt, CloseAt, Open, Close
<1> HIDE DEF times, v, raw
<1> DEFINE path == <<v>>
<1>6. path \in Seq(Vertex) /\ Len(path) = 1 /\ path[1] = v /\ IsInjective(path) /\ Range(path) = {v}
  <2>1. path \in Seq(Vertex) /\ Len(path) = 1 /\ path[1] = v /\ DOMAIN path = {1}  BY <1>2
  <2> HIDE DEF path
  <2> QED BY <2>1 DEF IsInjective, Range
<1>7. /\ l.path = path /\ l.dur = [t \in times |-> 0] /\ l.q = 0 /\ l.p = 0 /\ l.n = 0
      /\ l.U = {v} \cup Unreachable(d, v, Min(times))
  BY <1>4
<1>8. l \in Label
  <2>1. [t \in times |-> 0] \in [times -> Nat] /\ times \in SUBSET (0..T)  BY <1>5
  <2>2. [t \in times |-> 0] \in UNION {[S -> Nat] : S \in SUBSET (0..T)}  BY <2>1
  <2>3. {v} \cup Unreachable(d, v, Min(times)) \in SUBSET Vertex  BY <1>2 DEF Unreachable
  <2> QED BY <1>4, <1>6, <2>2, <2>3 DEF Label
<1>9. Shaped(prob, vrp, d, l)
  <2>1. Roads(vrp, prob.A, d, path)  BY <1>2, RoadsRoot
  <2>2. /\ Along(Loads(prob), path) = 0 /\ Along(Profits(prob), path) = 0 /\ Along(Counts(prob), path) = 0
    BY <1>2, SumFunctions, SumRoot DEF Setting
  <2>3. 0 <= Raw[prob.net].room  BY <1>1 DEF Sane, Proper, raw
  <2>4. DOMAIN l.dur # {}  BY <1>4, <1>7
  <2>5. v = From(d)  BY DEF v
  <2> HIDE DEF path
  <2>6. Range(l.path) \subseteq l.U  BY <1>6, <1>7
  <2>7. l.path = path /\ l.q = 0 /\ l.p = 0 /\ l.n = 0  BY <1>7
  <2>8. /\ Len(l.path) >= 1 /\ l.path[1] = From(d) /\ IsInjective(l.path)
        /\ Roads(vrp, prob.A, d, l.path)
    <3>1. l.path = path  BY <2>7
    <3>2. Roads(vrp, prob.A, d, l.path)  BY <2>1, <3>1
    <3>3. IsInjective(l.path)  BY <1>6, <3>1
    <3>4. Len(l.path) = 1 /\ l.path[1] = v  BY <1>6, <3>1
    <3> QED BY <2>5, <3>2, <3>3, <3>4
  <2>9. /\ l.q = Along(Loads(prob), l.path) /\ l.p = Along(Profits(prob), l.path)
        /\ l.n = Along(Counts(prob), l.path) /\ l.q <= Raw[prob.net].room
    BY <2>2, <2>3, <2>7
  <2> QED BY <1>8, <2>4, <2>6, <2>8, <2>9 DEF Shaped
<1>10. ASSUME NEW t \in times
       PROVE  IF d = 0 THEN Forth(raw, vrp, path, t, 0) ELSE Back(raw, vrp, path, t, 0)
  <2>0. t \in Int  BY <1>5
  <2>1. CASE d = 0
    <3>1. t \in vrp.lo[Start]..vrp.hi[Start] /\ v = Start  BY <1>2, <1>5, <2>1
    <3>2. Fits(raw, v, t)  BY <1>3, <2>0, <3>1 DEF Fits
    <3> DEFINE z == <<t>>
    <3>3. IsTrip(vrp, 0, path, z) /\ z[1] = t /\ t - t = 0
      BY <1>2, <2>0, TripRoot DEF Dir
    <3> HIDE DEF path, z
    <3> QED BY <1>6, <2>1, <3>1, <3>2, <3>3 DEF Forth
  <2>2. CASE d = 1
    <3>1. ASSUME NEW x \in Int, x <= T - t
          PROVE  \E z : IsTrip(vrp, 1, path, z) /\ z[1] = x /\ z[1] <= T - t + 0
      <4> DEFINE z == <<x>>
      <4>1. IsTrip(vrp, 1, path, z) /\ z[1] = x  BY <1>2, TripRoot DEF Dir
      <4>2. x <= T - t + 0  BY <1>2, <2>0, <3>1
      <4> QED BY <4>1, <4>2
    <3> HIDE DEF path
    <3> QED BY <1>6, <2>2, <3>1 DEF Back
  <2> QED BY <1>2, <2>1, <2>2
<1> HIDE DEF path
<1>11. Timed(prob, vrp, d, l)
  BY <1>7, <1>10 DEF Timed, raw
<1> QED BY <1>9, <1>11 DEF Good

(* A leg, in either direction, is a drive within the label's times; for a given time at
   its end the best of them gives the duration. *)
LEMMA LegsOf ==
  ASSUME Setting, tm[0] \in 0..T, NEW d \in Dir, NEW l, Good(prob, vrp, d, l), NEW v \in Vertex,
         NEW e \in Legs(d, <<At(l), v>>), e[1] \in Rw(l), d = 0 => e[2] <= tm[0]
  PROVE  /\ e[1] \in 0..T /\ e[2] \in 0..T /\ e[1] <= e[2] /\ l.dur[e[1]] \in Nat
         /\ Way(d, At(l), v) \in vrp.arcs
<1> DEFINE u == At(l)
           raw == Raw[prob.net]
<1>1. l.path \in Seq(Vertex) /\ Len(l.path) >= 1 /\ Rw(l) \subseteq 0..T /\ l.dur \in [Rw(l) -> Nat]
  <2>1. l \in Label /\ Len(l.path) >= 1  BY DEF Good, Shaped
  <2>2. l.path \in Seq(Vertex) /\ l.dur \in UNION {[S -> Nat] : S \in SUBSET (0..T)}  BY <2>1 DEF Label
  <2>3. PICK S \in SUBSET (0..T) : l.dur \in [S -> Nat]  BY <2>2
  <2> QED BY <2>1, <2>2, <2>3 DEF Rw
<1>2. u \in Vertex /\ T \in Nat
  <2>1. Len(l.path) \in 1..Len(l.path)  BY <1>1
  <2>2. l.path[Len(l.path)] \in Vertex  BY <1>1, <2>1, ElementOfSeq
  <2> QED BY <2>2, SettingIs DEF At, Last, Sane
<1>3. e[1] \in 0..T /\ l.dur[e[1]] \in Nat
  BY <1>1
<1>4. CASE d = 0
  <2>1. Linked(vrp, <<u, v>>, e[1], e[2])  BY <1>2, <1>4, SettingIs
  <2>2. <<u, v>> \in vrp.arcs /\ e[1] \in DOMAIN vrp.arr[<<u, v>>] /\ e[2] = vrp.arr[<<u, v>>][e[1]]
    BY <2>1 DEF Linked
  <2>3. Drivable(raw, <<u, v>>, vrp.arr[<<u, v>>])  BY <2>2, SettingIs
  <2>4. e[2] \in Int /\ e[1] <= e[2]  BY <2>2, <2>3 DEF Drivable
  <2>5. Way(d, u, v) \in vrp.arcs  BY <2>2, <1>4 DEF Way
  <2>6. e[2] <= tm[0] /\ tm[0] \in 0..T  BY <1>4
  <2> HIDE DEF u
  <2>7. e[2] \in 0..T  BY <1>2, <1>3, <2>4, <2>6
  <2> QED BY <1>3, <2>4, <2>5, <2>7 DEF u
<1>5. CASE d = 1
  <2>1. /\ <<v, u>> \in vrp.arcs
        /\ \E t \in DOMAIN vrp.arr[<<v, u>>] :
             e = <<e[1], T - t>> /\ e[1] \in Int /\ e[1] <= T - vrp.arr[<<v, u>>][t]
    BY <1>2, <1>5, SettingIs
  <2>2. PICK t \in DOMAIN vrp.arr[<<v, u>>] :
             e = <<e[1], T - t>> /\ e[1] \in Int /\ e[1] <= T - vrp.arr[<<v, u>>][t]
    BY <2>1
  <2>3. Drivable(raw, <<v, u>>, vrp.arr[<<v, u>>])  BY <2>1, SettingIs
  <2>4. t \in 0..T /\ vrp.arr[<<v, u>>][t] \in Int /\ t <= vrp.arr[<<v, u>>][t]  BY <2>2, <2>3 DEF Drivable
  <2>5. Way(d, u, v) \in vrp.arcs  BY <2>1, <1>5 DEF Way
  <2>6. e[2] = T - t  BY <2>2
  <2> HIDE DEF u
  <2>7. e[2] \in 0..T /\ e[1] <= e[2]  BY <1>2, <2>2, <2>4, <2>6
  <2> QED BY <1>3, <2>5, <2>7 DEF u
<1> QED BY <1>4, <1>5 DEF Dir

LEMMA LabelTypes ==
  ASSUME NEW p, NEW w, NEW d, NEW l, Good(p, w, d, l)
  PROVE  /\ l \in Label /\ l.path \in Seq(Vertex) /\ Len(l.path) >= 1 /\ Len(l.path) \in 1..Len(l.path)
         /\ At(l) = l.path[Len(l.path)] /\ At(l) \in Vertex
         /\ Rw(l) = DOMAIN l.dur /\ Rw(l) \subseteq 0..T /\ Rw(l) # {} /\ l.dur \in [Rw(l) -> Nat]
         /\ l.q \in Int /\ l.p \in Int /\ l.n \in Int /\ l.U \subseteq Vertex
<1>1. l \in Label /\ Len(l.path) >= 1 /\ DOMAIN l.dur # {}
  BY DEF Good, Shaped
<1>2. /\ l.path \in Seq(Vertex) /\ l.dur \in UNION {[S -> Nat] : S \in SUBSET (0..T)}
      /\ l.q \in Int /\ l.p \in Int /\ l.n \in Int /\ l.U \subseteq Vertex
  BY <1>1 DEF Label
<1>3. PICK S \in SUBSET (0..T) : l.dur \in [S -> Nat]
  BY <1>2
<1>4. Len(l.path) \in 1..Len(l.path)
  BY <1>1, <1>2
<1>5. l.path[Len(l.path)] \in Vertex
  BY <1>2, <1>4, ElementOfSeq
<1> QED BY <1>1, <1>2, <1>3, <1>4, <1>5 DEF At, Last, Rw

LEMMA ExtendedGood ==
  ASSUME Setting, tm[0] \in 0..T, NEW d \in Dir, NEW l, Good(prob, vrp, d, l), NEW v \in Vertex,
         v \notin l.U, Way(d, At(l), v) \notin prob.A, l.q + Demand(v) <= Raw[prob.net].room,
         NEW x \in Extended(d, l, v)
  PROVE  Good(prob, vrp, d, x)
<1> DEFINE raw == Raw[prob.net]
           u == At(l)
           legs == {e \in Legs(d, <<u, v>>) : e[1] \in Rw(l) /\ (d = 0 => e[2] <= tm[0])}
           path == Append(l.path, v)
           of(t) == {l.dur[e[1]] + t - e[1] : e \in {y \in legs : y[2] = t}}
           dur == [t \in Arrivals(legs) |-> Min(of(t))]
           n == Len(l.path)
<1>1. legs # {} /\ x = [path |-> path, dur |-> dur,
                        U |-> Range(path) \cup Unreachable(d, v, Min(Arrivals(legs))),
                        q |-> l.q + Demand(v), p |-> l.p + Profit(v), n |-> l.n + Hits(v)]
  BY DEF Extended
<1>2. /\ l \in Label /\ l.path \in Seq(Vertex) /\ n \in Nat /\ n >= 1 /\ u = l.path[n] /\ u \in Vertex
      /\ Rw(l) = DOMAIN l.dur /\ l.q \in Int /\ l.p \in Int /\ l.n \in Int
  BY LabelTypes
<1>3. /\ Sane(raw) /\ Posed(prob) /\ T \in Nat
      /\ \A a \in vrp.arcs : Drivable(raw, a, vrp.arr[a])
  BY SettingIs DEF Sane
<1>4. \A e \in legs : /\ e[1] \in 0..T /\ e[2] \in 0..T /\ e[1] <= e[2] /\ l.dur[e[1]] \in Nat
                      /\ e \in Legs(d, <<u, v>>) /\ e[1] \in Rw(l)
                      /\ Way(d, u, v) \in vrp.arcs
  BY LegsOf
<1> HIDE DEF legs
<1>5. ASSUME NEW t \in Arrivals(legs)
      PROVE  /\ t \in 0..T /\ dur[t] \in Nat
             /\ \E e \in legs : e[2] = t /\ dur[t] = l.dur[e[1]] + t - e[1]
  <2>1. PICK e \in legs : e[2] = t  BY DEF Arrivals
  <2>2. t \in 0..T  BY <1>4, <2>1
  <2>3. \A z \in of(t) : z \in Int /\ 0 <= z
    <3>1. ASSUME NEW e1 \in legs, e1[2] = t
          PROVE  l.dur[e1[1]] + t - e1[1] \in Int /\ 0 <= l.dur[e1[1]] + t - e1[1]
      <4>1. e1[1] \in 0..T /\ l.dur[e1[1]] \in Nat /\ e1[1] <= t  BY <1>4, <3>1
      <4> QED BY <2>2, <4>1, <1>3
    <3> QED BY <3>1
  <2>4. of(t) # {}
    <3>1. l.dur[e[1]] + t - e[1] \in of(t)  BY <2>1
    <3> QED BY <3>1
  <2>5. Min(of(t)) \in of(t)
    <3>1. of(t) \subseteq Int /\ 0 \in Int /\ \A z \in of(t) : 0 <= z  BY <2>3
    <3> HIDE DEF of
    <3> QED BY <2>4, <3>1, MinIs
  <2>6. PICK e2 \in {y \in legs : y[2] = t} : Min(of(t)) = l.dur[e2[1]] + t - e2[1]
    BY <2>5
  <2>7. Min(of(t)) \in Nat  BY <2>3, <2>5
  <2>8. dur[t] = Min(of(t))  OBVIOUS
  <2> QED BY <2>2, <2>6, <2>7, <2>8
<1>6. Arrivals(legs) # {}
  BY <1>1 DEF Arrivals
<1>7. DOMAIN dur = Arrivals(legs) /\ dur \in UNION {[S -> Nat] : S \in SUBSET (0..T)}
  <2>1. dur = [t \in Arrivals(legs) |-> dur[t]]  OBVIOUS
  <2>2. Arrivals(legs) \in SUBSET (0..T) /\ \A t \in Arrivals(legs) : dur[t] \in Nat  BY <1>5
  <2> HIDE DEF dur
  <2>3. dur \in [Arrivals(legs) -> Nat]  BY <2>1, <2>2
  <2> QED BY <2>1, <2>2, <2>3
<1> HIDE DEF dur
<1>8. path \in Seq(Vertex) /\ Len(path) = n + 1 /\ path[n + 1] = v /\ path[1] = l.path[1]
      /\ \A i \in 1..n : path[i] = l.path[i]
  BY <1>2
<1>9. Way(d, u, v) \in vrp.arcs /\ Way(d, u, v) \in vrp.arcs \ prob.A
  BY <1>1, <1>4
<1>10. IsInjective(path) /\ Range(path) \subseteq Vertex
  <2>1. DOMAIN l.path = 1..n /\ DOMAIN path = 1..n + 1  BY <1>2, <1>8
  <2>2. \A i \in 1..n : l.path[i] # v
    <3>1. Range(l.path) \subseteq l.U  BY DEF Good, Shaped
    <3> QED BY <2>1, <3>1 DEF Range
  <2>3. \A i, j \in 1..n : l.path[i] = l.path[j] => i = j
    BY <2>1 DEF Good, Shaped, IsInjective
  <2> DEFINE m == n + 1
  <2>4. \A i \in 1..m : i = m \/ i \in 1..n  BY <1>2
  <2>5. path[m] = v /\ DOMAIN path = 1..m  BY <1>8, <2>1
  <2>7. \A i \in 1..m : path[i] \in Vertex  BY <1>8, ElementOfSeq
  <2> HIDE DEF m, path, n
  <2>6. \A i, j \in 1..m : path[i] = path[j] => i = j
    BY <1>8, <2>2, <2>3, <2>4, <2>5
  <2> QED BY <2>5, <2>6, <2>7 DEF IsInjective, Range
<1>11. /\ l.q + Demand(v) = Along(Loads(prob), path) /\ l.q + Demand(v) \in Int
       /\ l.p + Profit(v) = Along(Profits(prob), path) /\ l.p + Profit(v) \in Int
       /\ l.n + Hits(v) = Along(Counts(prob), path) /\ l.n + Hits(v) \in Int
  <2>1. Demand(v) = Loads(prob)[v] /\ Profit(v) = Profits(prob)[v] /\ Hits(v) = Counts(prob)[v]
    BY DEF Demand, Profit, Hits, Loads, Profits, Counts
  <2>2. Loads(prob) \in [Vertex -> Int] /\ Profits(prob) \in [Vertex -> Int] /\ Counts(prob) \in [Vertex -> Int]
    BY SumFunctions DEF Setting
  <2>3. l.q = Along(Loads(prob), l.path) /\ l.p = Along(Profits(prob), l.path) /\ l.n = Along(Counts(prob), l.path)
    BY DEF Good, Shaped
  <2>4. /\ Along(Loads(prob), path) = Along(Loads(prob), l.path) + Loads(prob)[v]
        /\ Along(Profits(prob), path) = Along(Profits(prob), l.path) + Profits(prob)[v]
        /\ Along(Counts(prob), path) = Along(Counts(prob), l.path) + Counts(prob)[v]
    BY <1>2, <2>2, SumAppend
  <2>5. Loads(prob)[v] \in Int /\ Profits(prob)[v] \in Int /\ Counts(prob)[v] \in Int  BY <2>2
  <2> HIDE DEF path
  <2> QED BY <1>2, <2>1, <2>3, <2>4, <2>5
<1>12. Roads(vrp, prob.A, d, path)
  <2>1. Roads(vrp, prob.A, d, l.path)  BY DEF Good, Shaped
  <2> QED BY <1>2, <1>9, <2>1, RoadsAppend
<1>13. /\ x.path = path /\ x.dur = dur /\ x.q = l.q + Demand(v) /\ x.p = l.p + Profit(v) /\ x.n = l.n + Hits(v)
       /\ x.U = Range(path) \cup Unreachable(d, v, Min(Arrivals(legs)))
  BY <1>1
<1>14. Shaped(prob, vrp, d, x)
  <2>1. x.U \subseteq Vertex  BY <1>10, <1>13 DEF Unreachable
  <2> DEFINE b == Range(path) \cup Unreachable(d, v, Min(Arrivals(legs)))
  <2>2. b \in SUBSET Vertex  BY <1>13, <2>1
  <2>b. x.U = b /\ Range(path) \subseteq b  BY <1>13
  <2>3. x = [path |-> path, dur |-> dur, U |-> b, q |-> l.q + Demand(v), p |-> l.p + Profit(v),
             n |-> l.n + Hits(v)]
    BY <1>1
  <2> HIDE DEF b, path
  <2>4. x \in Label  BY <1>7, <1>8, <1>11, <2>2, <2>3 DEF Label
  <2>5. l.path[1] = From(d)  BY DEF Good, Shaped
  <2>6. Len(x.path) >= 1 /\ x.path[1] = From(d)  BY <1>2, <1>8, <1>13, <2>5
  <2>7. IsInjective(x.path) /\ Roads(vrp, prob.A, d, x.path)  BY <1>10, <1>12, <1>13
  <2>8. Range(x.path) \subseteq x.U /\ DOMAIN x.dur # {}  BY <1>6, <1>7, <1>13, <2>b
  <2>9. /\ x.q = Along(Loads(prob), x.path) /\ x.p = Along(Profits(prob), x.path)
        /\ x.n = Along(Counts(prob), x.path) /\ x.q <= Raw[prob.net].room
    BY <1>11, <1>13
  <2> QED BY <2>4, <2>6, <2>7, <2>8, <2>9 DEF Shaped
<1>15. ASSUME NEW t \in Arrivals(legs), d = 0 PROVE Forth(raw, vrp, path, t, dur[t])
  <2>1. PICK e \in legs : e[2] = t /\ dur[t] = l.dur[e[1]] + t - e[1]  BY <1>5
  <2>2. e[1] \in 0..T /\ e[1] <= t /\ l.dur[e[1]] \in Nat /\ e \in Legs(0, <<u, v>>) /\ e[1] \in Rw(l) /\ t \in 0..T
    BY <1>4, <1>15, <2>1
  <2>3. Linked(vrp, <<u, v>>, e[1], t)  BY <1>2, <2>1, <2>2, SettingIs
  <2>4. Fits(raw, v, t)
    <3>1. Drivable(raw, <<u, v>>, vrp.arr[<<u, v>>]) /\ e[1] \in DOMAIN vrp.arr[<<u, v>>]
          /\ t = vrp.arr[<<u, v>>][e[1]]
      BY <1>3, <2>3 DEF Linked
    <3> QED BY <3>1 DEF Drivable
  <2>5. Forth(raw, vrp, l.path, e[1], l.dur[e[1]])
    BY <1>2, <1>15, <2>2 DEF Good, Timed
  <2>6. PICK z : /\ IsTrip(vrp, 0, l.path, z) /\ z[1] \in vrp.lo[Start]..vrp.hi[Start]
                 /\ z[n] = e[1] /\ e[1] - z[1] = l.dur[e[1]]
    BY <2>5 DEF Forth
  <2>7. Hop(vrp, 0, l.path[n], v, z[n], t)  BY <1>2, <2>3, <2>6 DEF Hop
  <2>8. PICK y : IsTrip(vrp, 0, path, y) /\ y[1] = z[1] /\ y[n + 1] = t
    <3>1. 0 \in Dir /\ t \in Int  BY <2>2 DEF Dir
    <3>2. Hop(vrp, 0, l.path[Len(l.path)], v, z[Len(l.path)], t)  BY <2>7
    <3>3. \E y : IsTrip(vrp, 0, Append(l.path, v), y) /\ y[1] = z[1] /\ y[Len(l.path) + 1] = t
      BY <1>2, <2>6, <3>1, <3>2, TripAppend
    <3> QED BY <3>3
  <2>9. t - y[1] = dur[t]
    <3>1. z[1] \in Int  BY <2>6
    <3> QED BY <2>1, <2>2, <2>6, <2>8, <3>1
  <2> HIDE DEF path
  <2> QED BY <1>8, <2>4, <2>6, <2>8, <2>9 DEF Forth
<1>16. ASSUME NEW t \in Arrivals(legs), d = 1 PROVE Back(raw, vrp, path, t, dur[t])
  <2>1. PICK e \in legs : e[2] = t /\ dur[t] = l.dur[e[1]] + t - e[1]  BY <1>5
  <2>2. e[1] \in 0..T /\ e[1] <= t /\ l.dur[e[1]] \in Nat /\ e \in Legs(1, <<u, v>>) /\ e[1] \in Rw(l) /\ t \in 0..T
    BY <1>4, <1>16, <2>1
  <2> DEFINE f == vrp.arr[<<v, u>>]
  <2>3. /\ <<v, u>> \in vrp.arcs
        /\ \E s \in DOMAIN f : e = <<e[1], T - s>> /\ e[1] \in Int /\ e[1] <= T - f[s]
    BY <1>2, <2>2, SettingIs
  <2>4. PICK s \in DOMAIN f : e = <<e[1], T - s>> /\ e[1] \in Int /\ e[1] <= T - f[s]  BY <2>3
  <2>5. t = T - s  BY <2>1, <2>4
  <2>6. Drivable(raw, <<v, u>>, f)  BY <1>3, <2>3
  <2> HIDE DEF f
  <2>7. s \in 0..T /\ f[s] \in Int  BY <2>4, <2>6 DEF Drivable
  <2>8. Back(raw, vrp, l.path, e[1], l.dur[e[1]])
    BY <1>2, <1>16, <2>2 DEF Good, Timed
  <2>9. ASSUME NEW c \in Int, Fits(raw, v, c), c <= T - t
        PROVE  \E y : IsTrip(vrp, 1, path, y) /\ y[n + 1] = c /\ y[1] <= T - t + dur[t]
    <3>1. c <= s  BY <1>3, <2>5, <2>7, <2>9
    <3>2. c \in DOMAIN f /\ f[c] <= f[s]  BY <2>4, <2>6, <2>9, <3>1 DEF Drivable
    <3>3. f[c] \in Int /\ Fits(raw, u, f[c])  BY <2>6, <3>2 DEF Drivable
    <3>4. f[c] <= T - e[1]  BY <1>3, <2>4, <2>7, <3>2, <3>3
    <3>5. PICK z : IsTrip(vrp, 1, l.path, z) /\ z[n] = f[c] /\ z[1] <= T - e[1] + l.dur[e[1]]
      BY <1>2, <2>8, <3>3, <3>4 DEF Back
    <3>6. Hop(vrp, 1, l.path[n], v, z[n], c)  BY <1>2, <2>3, <3>2, <3>5 DEF Hop, Linked, f
    <3>7. PICK y : IsTrip(vrp, 1, path, y) /\ y[1] = z[1] /\ y[n + 1] = c
      <4>1. 1 \in Dir  BY DEF Dir
      <4>2. Hop(vrp, 1, l.path[Len(l.path)], v, z[Len(l.path)], c)  BY <3>6
      <4>3. \E y : IsTrip(vrp, 1, Append(l.path, v), y) /\ y[1] = z[1] /\ y[Len(l.path) + 1] = c
        BY <1>2, <2>9, <3>5, <4>1, <4>2, TripAppend
      <4> QED BY <4>3
    <3>8. z[1] \in Int
      <4>1. z \in [1..n -> Int] /\ 1 \in 1..n  BY <1>2, <3>5 DEF IsTrip
      <4> QED BY <4>1
    <3>9. y[1] <= T - t + dur[t]  BY <1>3, <2>1, <2>2, <3>5, <3>7, <3>8
    <3> QED BY <3>7, <3>9
  <2> HIDE DEF path
  <2> QED BY <1>8, <2>9 DEF Back
<1>17. Timed(prob, vrp, d, x)
  BY <1>7, <1>13, <1>15, <1>16 DEF Timed, raw, Dir
<1> QED BY <1>14, <1>17 DEF Good

-----------------------------------------------------------------------------
(* Dominance only takes times away. *)
LEMMA ShorterGood ==
  ASSUME NEW p, NEW w, NEW d, NEW l, Good(p, w, d, l), NEW S, S \subseteq Rw(l), S # {}
  PROVE  Good(p, w, d, [l EXCEPT !.dur = [t \in S |-> l.dur[t]]])
<1> DEFINE g == [t \in S |-> l.dur[t]]
           x == [l EXCEPT !.dur = g]
<1>1. l \in Label /\ Rw(l) = DOMAIN l.dur /\ Rw(l) \subseteq 0..T /\ l.dur \in [Rw(l) -> Nat]
  BY LabelTypes
<1>2. g \in [S -> Nat] /\ DOMAIN g = S /\ \A t \in S : g[t] = l.dur[t]
  <2>1. \A t \in S : l.dur[t] \in Nat  BY <1>1
  <2> QED BY <2>1
<1>3. S \in SUBSET (0..T) /\ g \in UNION {[R -> Nat] : R \in SUBSET (0..T)}
  BY <1>1, <1>2
<1> HIDE DEF g
<1>4. x \in Label /\ x.path = l.path /\ x.dur = g /\ x.U = l.U /\ x.q = l.q /\ x.p = l.p /\ x.n = l.n
  BY <1>1, <1>3 DEF Label
<1> HIDE DEF x
<1>5. Shaped(p, w, d, x)
  BY <1>2, <1>4 DEF Good, Shaped
<1>6. Timed(p, w, d, x)
  <2>1. ASSUME NEW t \in S
        PROVE  IF d = 0 THEN Forth(Raw[p.net], w, l.path, t, g[t]) ELSE Back(Raw[p.net], w, l.path, t, g[t])
    BY <1>1, <1>2 DEF Good, Timed
  <2> QED BY <1>2, <1>4, <2>1 DEF Timed
<1> QED BY <1>5, <1>6 DEF Good, x, g

LEMMA LeftIs ==
  ASSUME NEW d, NEW l, l \in Label, IsFiniteSet(U[d])
  PROVE  Left(d, l) \subseteq Rw(l)
<1> DEFINE R == Rivals(d, l)
           c == Cardinality(R)
           X == [left : SUBSET Rw(l), rest : SUBSET R]
           first(S) == CHOOSE m \in S : \A o \in S : ~Before(o, m)
           trim(s, m) == [left |-> IF s.left = {} \/ prob.level = "Cost" THEN {}
                                   ELSE Survivors([l EXCEPT !.dur = [t \in s.left |-> l.dur[t]]], m),
                          rest |-> s.rest \ {m}]
           G == [y \in (1..c) \X (SUBSET X) |-> {trim(s, first(s.rest)) : s \in y[2]}]
           b == {[left |-> Rw(l), rest |-> R]}
           after[i \in 0..Cardinality(R)] ==
             IF i = 0 THEN {[left |-> Rw(l), rest |-> R]}
             ELSE {trim(s, first(s.rest)) : s \in after[i - 1]}
           F(h) == h = [i \in 0..c |-> IF i = 0 THEN b ELSE {trim(s, first(s.rest)) : s \in h[i - 1]}]
<1>1. c \in Nat
  <2>1. R \subseteq U[d]  BY DEF Rivals
  <2> HIDE DEF R
  <2>2. IsFiniteSet(R)  BY <2>1, FS_Subset
  <2> QED BY <2>2, FS_CardinalityType
<1>2. ASSUME NEW s \in X, NEW m PROVE trim(s, m) \in X
  <2>1. s.left \subseteq Rw(l) /\ s.rest \subseteq R  OBVIOUS
  <2> DEFINE k == [l EXCEPT !.dur = [t \in s.left |-> l.dur[t]]]
  <2>2. Rw(k) = s.left  BY DEF Rw, Label
  <2> HIDE DEF k
  <2>3. Survivors(k, m) \subseteq Rw(k)  BY DEF Survivors
  <2>4. trim(s, m).left \subseteq Rw(l)  BY <2>1, <2>2, <2>3 DEF k
  <2>5. s.rest \ {m} \subseteq R  BY <2>1
  <2> QED BY <2>4, <2>5
<1>3. Left(d, l) = UNION {s.left : s \in after[c]}
  BY DEF Left
<1>4. after = CHOOSE h : F(h)
  BY DEF after, F
<1> HIDE DEF after
<1>5. b \in SUBSET X
  OBVIOUS
<1>6. ASSUME NEW S \in SUBSET X PROVE {trim(s, first(s.rest)) : s \in S} \in SUBSET X
  <2>1. \A s \in S : trim(s, first(s.rest)) \in X  BY <1>2
  <2> HIDE DEF trim, first, X
  <2> QED BY <2>1
<1>7. /\ G \in [(1..c) \X (SUBSET X) -> SUBSET X]
      /\ \A i \in 1..c, S \in SUBSET X : G[<<i, S>>] = {trim(s, first(s.rest)) : s \in S}
  <2> HIDE DEF trim, first, X, c
  <2>1. \A y \in (1..c) \X (SUBSET X) : {trim(s, first(s.rest)) : s \in y[2]} \in SUBSET X
    BY <1>6
  <2> QED BY <2>1
<1> HIDE DEF trim, first, X, b, G
<1>8. PICK h : Unrolled(h, 0, c, SUBSET X, b, G)
  <2> HIDE DEF c
  <2>1. 0 + 1..c = 1..c  OBVIOUS
  <2>2. Recursive(0, c, SUBSET X, b, G)  BY <1>1, <1>5, <1>7, <2>1 DEF Recursive
  <2> QED BY <2>2, Recursion
<1>9. h \in [0..c -> SUBSET X] /\ h[0] = b /\ \A i \in 1..c : h[i] = G[<<i, h[i - 1]>>]
  <2> HIDE DEF c
  <2> QED BY <1>8 DEF Unrolled
<1>10. F(h)
  <2> HIDE DEF c
  <2>1. ASSUME NEW i \in 0..c, i # 0 PROVE h[i] = {trim(s, first(s.rest)) : s \in h[i - 1]}
    <3>1. i \in 1..c /\ i - 1 \in 0..c  BY <1>1, <2>1
    <3>2. h[i - 1] \in SUBSET X  BY <1>9, <3>1
    <3> QED BY <1>7, <1>9, <3>1, <3>2
  <2>2. h = [i \in 0..c |-> h[i]]  BY <1>9
  <2>3. \A i \in 0..c : h[i] = IF i = 0 THEN b ELSE {trim(s, first(s.rest)) : s \in h[i - 1]}
    BY <1>9, <2>1
  <2> QED BY <2>2, <2>3
<1>11. F(after)
  BY <1>4, <1>10
<1> HIDE DEF c
<1>12. \A i \in 0..c : after[i] = IF i = 0 THEN b ELSE {trim(s, first(s.rest)) : s \in after[i - 1]}
  BY <1>11
<1> DEFINE Q == {i \in 0..c : after[i] \in SUBSET X}
<1>13. 0 \in Q
  <2>1. 0 \in 0..c  BY <1>1
  <2>2. after[0] = b  BY <1>12, <2>1
  <2>3. after[0] \in SUBSET X  BY <1>5, <2>2
  <2> QED BY <2>1, <2>3
<1>14. ASSUME NEW i \in 0..c - 1, i \in Q PROVE i + 1 \in Q
  <2> DEFINE k == i + 1
  <2>1. k \in 0..c /\ k # 0 /\ k - 1 = i  BY <1>1
  <2> HIDE DEF k
  <2>2. after[k] = {trim(s, first(s.rest)) : s \in after[i]}  BY <1>12, <2>1
  <2>3. after[k] \in SUBSET X  BY <1>6, <1>14, <2>2
  <2> QED BY <2>1, <2>3 DEF k
<1>15. \A i \in 0..c - 1 : i \in Q => i + 1 \in Q
  BY <1>14
<1>16. 0 \in Int /\ c \in Int /\ c \in 0..c
  BY <1>1
<1> HIDE DEF Q
<1>17. c \in Q
  BY <1>13, <1>15, <1>16, Induction
<1>18. \A s \in after[c] : s.left \subseteq Rw(l)
  <2>1. after[c] \in SUBSET X  BY <1>17 DEF Q
  <2> QED BY <2>1 DEF X
<1> QED BY <1>3, <1>18

LEMMA UndominatedGood ==
  ASSUME NEW d, IsFiniteSet(U[d]), NEW l, Good(prob, vrp, d, l)
  PROVE  /\ \A x \in Undominated(d, l) :
              Good(prob, vrp, d, x) /\ x.path = l.path /\ x.q = l.q /\ Rw(x) \subseteq Rw(l)
         /\ IsFiniteSet(Undominated(d, l))
<1>1. l \in Label /\ Rw(l) = DOMAIN l.dur
  BY LabelTypes
<1>2. Left(d, l) \subseteq Rw(l)
  BY <1>1, LeftIs
<1> DEFINE S == Left(d, l)
           x == [l EXCEPT !.dur = [t \in S |-> l.dur[t]]]
<1>3. CASE At(l) = To(d)
  <2>1. Undominated(d, l) \subseteq {l}  BY <1>3 DEF Undominated
  <2> QED BY <2>1, FS_Singleton, FS_Subset
<1>4. CASE At(l) # To(d)
  <2>1. Undominated(d, l) = IF S = {} THEN {} ELSE {x}
    BY <1>4 DEF Undominated
  <2> HIDE DEF S
  <2>2. ASSUME S # {} PROVE Good(prob, vrp, d, x) /\ x.path = l.path /\ x.q = l.q /\ Rw(x) \subseteq Rw(l)
    <3>1. Good(prob, vrp, d, x)  BY <1>2, <2>2, ShorterGood DEF S
    <3>2. x.path = l.path /\ x.q = l.q /\ x.dur = [t \in S |-> l.dur[t]]  BY <1>1 DEF Label
    <3> HIDE DEF x
    <3>3. Rw(x) = S  BY <3>2 DEF Rw
    <3> QED BY <1>2, <3>1, <3>2, <3>3 DEF S
  <2> HIDE DEF x
  <2>3. IsFiniteSet({}) /\ IsFiniteSet({x})  BY FS_EmptySet, FS_Singleton
  <2> QED BY <2>1, <2>2, <2>3
<1> QED BY <1>3, <1>4

-----------------------------------------------------------------------------
(* The search.  A lazy label names a label that was processed and a client it has not
   been to. *)
Waiting(p, S, d, e) ==
  /\ e.makespan \in Nat
  /\ \/ e.parent = <<>>
     \/ \E l \in S, v \in Vertex :
          /\ e.parent = <<l>> /\ e.v = v /\ v \notin l.U
          /\ Way(d, At(l), v) \notin p.A /\ l.q + Raw[p.net].load[v] <= Raw[p.net].room

Searched(p, w, S, Q, d) ==
  /\ IsFiniteSet(S) /\ \A l \in S : Good(p, w, d, l)
  /\ \A e \in Q : Waiting(p, S, d, e)

Searching ==
  /\ Setting
  /\ DOMAIN U = Dir /\ DOMAIN M = Dir /\ DOMAIN q = Dir
  /\ \A d \in Dir : Searched(prob, vrp, U[d], q[d], d) /\ M[d] \subseteq U[d]
  /\ turn \subseteq U[dir] /\ (pc # "mono" => turn = {})
  /\ tm \in [Dir -> 0..T] /\ dir \in Dir /\ processed \in BOOLEAN /\ count \in Nat
  /\ status \in {"DidNotStart", "Finished", "TimeLimitReached", "MemoryLimitReached",
                 "SolutionLimitReached"}
  /\ hit \subseteq prob.limits \cup {"Solutions"}
  /\ pc \in {"head", "mono", "last", "crossing", "end", "done"}

(* What an entry of the queue is completed to. *)
LEMMA NewGood ==
  ASSUME Setting, tm \in [Dir -> 0..T], NEW d \in Dir, IsFiniteSet(U[d]),
         \A l \in U[d] : Good(prob, vrp, d, l), NEW e, Waiting(prob, U[d], d, e),
         NEW new, new = UNION {Undominated(d, l) : l \in Completed(d, e)}
  PROVE  IsFiniteSet(new) /\ \A x \in new : Good(prob, vrp, d, x)
<1>1. tm[0] \in 0..T
  BY DEF Dir
<1>2. \A x \in Completed(d, e) : Good(prob, vrp, d, x)
  <2>1. CASE e.parent = <<>>
    BY <1>1, <2>1, RootGood DEF Completed
  <2>2. CASE e.parent # <<>>
    <3>1. PICK l \in U[d], v \in Vertex :
            /\ e.parent = <<l>> /\ e.v = v /\ v \notin l.U
            /\ Way(d, At(l), v) \notin prob.A
            /\ l.q + Raw[prob.net].load[v] <= Raw[prob.net].room
      BY <2>2 DEF Waiting
    <3>2. Completed(d, e) = Extended(d, l, v)  BY <2>2, <3>1 DEF Completed
    <3>3. Good(prob, vrp, d, l) /\ l.q + Demand(v) <= Raw[prob.net].room
      BY <3>1 DEF Demand
    <3> QED BY <1>1, <3>1, <3>2, <3>3, ExtendedGood
  <2> QED BY <2>1, <2>2
<1>3. PICK y : Completed(d, e) \subseteq {y}
  <2>1. \E y : Rooted(d) \subseteq {y}  BY DEF Rooted
  <2>2. ASSUME NEW l, NEW v PROVE \E y : Extended(d, l, v) \subseteq {y}  BY DEF Extended
  <2> QED BY <2>1, <2>2 DEF Completed
<1>4. CASE Completed(d, e) = {}
  BY <1>4, FS_EmptySet
<1>5. CASE Completed(d, e) = {y}
  <2>1. new = Undominated(d, y) /\ Good(prob, vrp, d, y)  BY <1>2, <1>5
  <2>2. IsFiniteSet(Undominated(d, y)) /\ \A x \in Undominated(d, y) : Good(prob, vrp, d, x)
    BY <2>1, UndominatedGood
  <2> QED BY <2>1, <2>2
<1> QED BY <1>3, <1>4, <1>5

(* What it is extended to. *)
LEMMA ExtensionsGood ==
  ASSUME Setting, NEW d \in Dir, NEW l, Good(prob, vrp, d, l), NEW S, l \in S,
         NEW e \in Extensions(d, l)
  PROVE  Waiting(prob, S, d, e)
<1>1. PICK a \in Allowed(d) : Onward(d, l, a) /\ a[2] \notin l.U /\ e = Lazy(d, l, a)
  BY DEF Extensions
<1> DEFINE v == a[2]
           u == At(l)
           t == Min(Rw(l))
           L == Legs(d, a)
<1>2. a = <<u, v>> /\ v \in Vertex /\ u \in Vertex /\ L # {} /\ Way(d, u, v) \notin prob.A
  <2>1. a \in Vertex \X Vertex /\ L # {} /\ (IF d = 0 THEN a ELSE Turned(a)) \notin prob.A
    BY DEF Allowed
  <2>2. a[1] = u /\ a = <<a[1], a[2]>>  BY <1>1, <2>1 DEF Onward
  <2> QED BY <2>1, <2>2 DEF Way, Turned
<1>3. l.q + Raw[prob.net].load[v] <= Raw[prob.net].room /\ t <= Max(Departures(L))
  BY <1>1 DEF Onward, Demand
<1>4. t \in 0..T /\ T \in Nat
  <2>1. Rw(l) \subseteq 0..T /\ Rw(l) # {} /\ T \in Nat  BY LabelTypes, SettingIs DEF Sane
  <2>2. Rw(l) \subseteq Int /\ 0 \in Int /\ \A x \in Rw(l) : 0 <= x  BY <2>1
  <2>3. t \in Rw(l)  BY <2>1, <2>2, MinIs
  <2> QED BY <2>1, <2>3
<1>5. e.parent = <<l>> /\ e.v = v
      /\ e.makespan = IF d = 1 THEN t ELSE TimeFrom(L, t) + t
  BY <1>1 DEF Lazy
<1>6. e.makespan \in Nat
  <2>1. CASE d = 1
    BY <1>4, <1>5, <2>1
  <2>2. CASE d = 0
    <3> DEFINE on == {y[2] : y \in {x \in L : x[1] >= t}}
    <3>1. \A x \in L : x[1] \in 0..T /\ x[2] \in Int /\ x[1] <= x[2]
      <4>1. ASSUME NEW x \in L PROVE x[1] \in 0..T /\ x[2] \in Int /\ x[1] <= x[2]
        <5>1. Linked(vrp, <<u, v>>, x[1], x[2])  BY <1>2, <2>2, <4>1, SettingIs
        <5>2. /\ <<u, v>> \in vrp.arcs /\ x[1] \in DOMAIN vrp.arr[<<u, v>>]
              /\ x[2] = vrp.arr[<<u, v>>][x[1]]
          BY <5>1 DEF Linked
        <5>3. Drivable(Raw[prob.net], <<u, v>>, vrp.arr[<<u, v>>])  BY <5>2, SettingIs
        <5> QED BY <5>2, <5>3 DEF Drivable
      <4> QED BY <4>1
    <3> HIDE DEF L, t
    <3>2. Max(Departures(L)) \in Departures(L)
      <4>1. Departures(L) \subseteq Int /\ Departures(L) # {} /\ T \in Int
            /\ \A x \in Departures(L) : x <= T
        BY <1>2, <1>4, <3>1 DEF Departures
      <4> QED BY <4>1, MaxIs
    <3>3. PICK x \in L : x[1] = Max(Departures(L))  BY <3>2 DEF Departures
    <3>4. x[1] \in Int /\ t \in Int /\ x[1] >= t  BY <1>3, <1>4, <3>1, <3>3
    <3>5. on # {} /\ on \subseteq Nat
      BY <3>1, <3>4, <1>4
    <3> HIDE DEF on
    <3>6. Min(on) \in Nat
      <4>1. on \subseteq Int /\ 0 \in Int /\ \A y \in on : 0 <= y  BY <3>5
      <4> QED BY <3>5, <4>1, MinIs
    <3>7. ~(t > Max(Departures(L)))  BY <3>3, <3>4
    <3>8. TimeFrom(L, t) = Min(on) - t  BY <3>7 DEF TimeFrom, on
    <3>9. Min(on) - t + t = Min(on)  BY <3>4, <3>6
    <3> QED BY <1>5, <2>2, <3>6, <3>8, <3>9
  <2> QED BY <2>1, <2>2 DEF Dir
<1> QED BY <1>1, <1>2, <1>3, <1>5, <1>6 DEF Waiting

(* The middle stays within the horizon. *)
LEMMA MiddleIs ==
  ASSUME T \in Nat, tm \in [Dir -> 0..T], dir \in Dir, \A e \in q[dir] : e.makespan \in Nat
  PROVE  Middle \in [Dir -> 0..T]
<1>1. dir \in Dir /\ 1 - dir \in Dir /\ tm[dir] \in 0..T /\ tm[1 - dir] \in 0..T
  BY DEF Dir
<1>2. CASE q[dir] = {}
  <2>1. T - tm[1 - dir] \in 0..T  BY <1>1
  <2>2. Middle = [tm EXCEPT ![dir] = T - tm[1 - dir]]  BY <1>2 DEF Middle
  <2> QED BY <1>1, <2>1, <2>2
<1>3. CASE q[dir] # {}
  <2> DEFINE spans == {e.makespan : e \in q[dir]}
             top == Min(spans)
             far == Max({T - tm[dir], T - top})
             mid == Min({tm[1 - dir], far})
  <2>1. top \in Nat
    <3>1. spans \subseteq Int /\ 0 \in Int /\ \A x \in spans : 0 <= x  OBVIOUS
    <3>2. spans \subseteq Nat /\ spans # {}  BY <1>3
    <3>3. top \in spans  BY <3>1, <3>2, MinIs
    <3> QED BY <3>2, <3>3
  <2>2. Middle = [tm EXCEPT ![1 - dir] = mid]  BY <1>3 DEF Middle
  <2> HIDE DEF top
  <2>3. T - tm[dir] \in Int /\ T - top \in Int  BY <1>1, <2>1
  <2>4. far = IF T - tm[dir] >= T - top THEN T - tm[dir] ELSE T - top
    BY <2>3, MaxOfTwo
  <2>5. far \in Int /\ 0 <= far  BY <1>1, <2>1, <2>4
  <2> HIDE DEF far
  <2>6. mid = IF tm[1 - dir] <= far THEN tm[1 - dir] ELSE far
    BY <1>1, <2>5, MinOfTwo
  <2>7. mid \in 0..T  BY <1>1, <2>5, <2>6
  <2> HIDE DEF mid
  <2> QED BY <1>1, <2>2, <2>7
<1> QED BY <1>2, <1>3

(* The searches stay so: what is processed is a good label, what waits is an extension of one. *)
LEMMA WaitingMore ==
  ASSUME NEW p, NEW S, NEW R, S \subseteq R, NEW d, NEW e, Waiting(p, S, d, e)
  PROVE  Waiting(p, R, d, e)
BY DEF Waiting

LEMMA SearchingInit ==
  ASSUME Init
  PROVE  Searching
<1> USE DEF Init
<1>1. Setting
  BY DEF Setting
<1>2. T \in Nat /\ 0 \in Nat /\ tm \in [Dir -> 0..T] /\ dir \in Dir
  BY LabelingAssumption DEF Dir
<1>3. ASSUME NEW d \in Dir, NEW e \in q[d] PROVE Waiting(prob, U[d], d, e)
  <2>1. e = [parent |-> <<>>, v |-> From(d), makespan |-> OpenAt(d, From(d))]
    BY <1>3
  <2>2. e.parent = <<>> /\ e.makespan = OpenAt(d, From(d))
    BY <2>1
  <2>3. OpenAt(d, From(d)) \in Nat
    <3>1. /\ Ready(Raw[prob.net], vrp) /\ Sane(Raw[prob.net])
      BY <1>1, SettingIs
    <3>2. From(d) \in {Start, End} /\ From(d) \in Vertex
      BY <3>1, Vertices DEF From, Sane
    <3>3. /\ vrp.lo[From(d)] \in Nat /\ vrp.hi[From(d)] \in Nat /\ vrp.hi[From(d)] <= T
      BY <3>1, <3>2 DEF Ready, Sane, Proper
    <3> QED BY <3>3, <1>2 DEF OpenAt, Open
  <2> QED BY <2>2, <2>3 DEF Waiting
<1>4. ASSUME NEW d \in Dir
      PROVE  Searched(prob, vrp, U[d], q[d], d) /\ M[d] \subseteq U[d]
  <2>1. U[d] = {} /\ M[d] = {}  OBVIOUS
  <2>2. IsFiniteSet(U[d])  BY <2>1, FS_EmptySet
  <2> QED BY <1>3, <2>1, <2>2 DEF Searched
<1> QED BY <1>1, <1>2, <1>4 DEF Searching

LEMMA SearchingPop ==
  ASSUME Searching, Pop
  PROVE  Searching'
<1> USE DEF Searching
<1>1. PICK e \in Tops(q[dir]) :
        \E new \in {UNION {Undominated(dir, l) : l \in Completed(dir, e)}} :
         /\ q' = [q EXCEPT ![dir] = (@ \ {e}) \cup
                     UNION {Extensions(dir, l) : l \in {x \in new : Min(Rw(x)) <= tm[dir]}}]
         /\ U' = [U EXCEPT ![dir] = @ \cup new]
         /\ turn' = turn \cup new
         /\ count' = IF dir = 0 THEN count + Cardinality(new) ELSE count
  BY DEF Pop
<1> DEFINE new == UNION {Undominated(dir, l) : l \in Completed(dir, e)}
           more == UNION {Extensions(dir, l) : l \in {x \in new : Min(Rw(x)) <= tm[dir]}}
<1>2. /\ q' = [q EXCEPT ![dir] = (@ \ {e}) \cup more]
      /\ U' = [U EXCEPT ![dir] = @ \cup new]
      /\ turn' = turn \cup new
      /\ count' = IF dir = 0 THEN count + Cardinality(new) ELSE count
  BY <1>1
<1>3. /\ prob' = prob /\ vrp' = vrp /\ M' = M /\ tm' = tm /\ dir' = dir /\ processed' = processed
      /\ status' = status /\ hit' = hit /\ pc' = pc /\ pc = "mono"
  BY DEF Pop
<1>4. e \in q[dir] /\ Setting /\ dir \in Dir /\ IsFiniteSet(U[dir])
      /\ (\A l \in U[dir] : Good(prob, vrp, dir, l)) /\ Waiting(prob, U[dir], dir, e)
  BY <1>1 DEF Tops, Searched
<1>5. IsFiniteSet(new) /\ \A x \in new : Good(prob, vrp, dir, x)
  <2>1. new = UNION {Undominated(dir, l) : l \in Completed(dir, e)}  OBVIOUS
  <2> HIDE DEF new
  <2> QED BY <1>4, <2>1, NewGood
<1>6. \A y \in more : Waiting(prob, U[dir] \cup new, dir, y)
  <2> HIDE DEF new
  <2>1. ASSUME NEW l \in new, NEW y \in Extensions(dir, l)
        PROVE  Waiting(prob, U[dir] \cup new, dir, y)
    BY <1>4, <1>5, ExtensionsGood
  <2> QED BY <2>1
<1> HIDE DEF new, more
<1>7. /\ U'[dir] = U[dir] \cup new /\ q'[dir] = (q[dir] \ {e}) \cup more
      /\ \A d \in Dir : d # dir => U'[d] = U[d] /\ q'[d] = q[d]
      /\ DOMAIN U' = Dir /\ DOMAIN q' = Dir
  BY <1>2, <1>4
<1>8. Searched(prob, vrp, U[dir] \cup new, q'[dir], dir)
  <2>1. IsFiniteSet(U[dir] \cup new)  BY <1>4, <1>5, FS_Union
  <2>2. \A y \in q[dir] : Waiting(prob, U[dir], dir, y)  BY <1>4 DEF Searched
  <2>3. \A y \in q[dir] : Waiting(prob, U[dir] \cup new, dir, y)
    <3>1. U[dir] \subseteq U[dir] \cup new  OBVIOUS
    <3> QED BY <2>2, <3>1, WaitingMore
  <2> QED BY <1>4, <1>5, <1>6, <1>7, <2>1, <2>3 DEF Searched
<1>9. \A d \in Dir : Searched(prob', vrp', U'[d], q'[d], d) /\ M'[d] \subseteq U'[d]
  <2>1. ASSUME NEW d \in Dir PROVE Searched(prob', vrp', U'[d], q'[d], d) /\ M'[d] \subseteq U'[d]
    <3>1. CASE d = dir
      BY <1>3, <1>7, <1>8, <3>1
    <3>2. CASE d # dir
      BY <1>3, <1>7, <3>2
    <3> QED BY <3>1, <3>2
  <2> QED BY <2>1
<1>10. turn' \subseteq U'[dir'] /\ count' \in Nat
  <2>1. Cardinality(new) \in Nat  BY <1>5, FS_CardinalityType
  <2> QED BY <1>2, <1>3, <1>7, <2>1
<1>11. Setting'
  BY <1>3, <1>4 DEF Setting
<1> QED BY <1>3, <1>7, <1>9, <1>10, <1>11

LEMMA SearchingNext ==
  ASSUME Searching, [Next]_vars
  PROVE  Searching'
<1> USE DEF Searching
<1>1. T \in Nat /\ \A e \in q[dir] : e.makespan \in Nat
  BY LabelingAssumption DEF Searched, Waiting
<1> DEFINE Kept == /\ prob' = prob /\ vrp' = vrp /\ U' = U /\ q' = q
<1>2. ASSUME Kept PROVE Setting' /\ DOMAIN U' = Dir /\ DOMAIN q' = Dir
  BY <1>2 DEF Setting
<1>3. ASSUME Kept, M' = M
      PROVE  \A d \in Dir : Searched(prob', vrp', U'[d], q'[d], d) /\ M'[d] \subseteq U'[d]
  BY <1>3
<1>4. ASSUME NEW moved \in BOOLEAN, AfterTurn(moved)
      PROVE  dir' \in Dir /\ processed' \in BOOLEAN /\ pc' \in {"head", "last"}
  BY <1>4 DEF AfterTurn, Dir
<1>5. CASE Skip
  <2>1. /\ Kept /\ M' = M /\ turn' = turn /\ tm' = tm /\ count' = count /\ status' = status
        /\ hit' = hit /\ pc = "head" /\ AfterTurn(processed)
    BY <1>5 DEF Skip
  <2> QED BY <1>2, <1>3, <1>4, <2>1
<1>6. CASE Stop
  <2>1. /\ Kept /\ M' = M /\ turn' = turn /\ tm' = tm /\ count' = count
        /\ hit' = hit /\ pc = "head" /\ dir' = 0 /\ processed' = FALSE /\ pc' \in {"head", "last"}
        /\ status' \in {"TimeLimitReached", "SolutionLimitReached", "MemoryLimitReached"}
    BY <1>6 DEF Stop
  <2> QED BY <1>2, <1>3, <2>1 DEF Dir
<1>7. CASE Enter
  <2>1. /\ Kept /\ M' = M /\ turn' = {} /\ tm' = tm /\ count' = count /\ status' = status
        /\ hit' = hit /\ pc' = "mono" /\ dir' = dir /\ processed' = processed
    BY <1>7 DEF Enter
  <2> QED BY <1>2, <1>3, <2>1
<1>8. CASE Pop
  BY <1>8, SearchingPop
<1>9. CASE EndTurn
  <2>1. /\ Kept /\ turn' = {} /\ count' = count /\ status' = status
        /\ AfterTurn(processed \/ turn # {}) /\ tm' = Middle
        /\ M' = IF prob.closing THEN M ELSE [M EXCEPT ![dir] = @ \cup turn]
        /\ hit' \subseteq hit \cup {"Solutions"}
    BY <1>9 DEF EndTurn, Filled
  <2>2. DOMAIN M' = Dir /\ \A d \in Dir : M'[d] \subseteq U[d]
    BY <2>1
  <2>3. tm' \in [Dir -> 0..T]
    BY <1>1, <2>1, MiddleIs
  <2>4. (processed \/ turn # {}) \in BOOLEAN  OBVIOUS
  <2>5. dir' \in Dir /\ processed' \in BOOLEAN /\ pc' \in {"head", "last"}
    BY <1>4, <2>1, <2>4
  <2>6. \A d \in Dir : Searched(prob', vrp', U'[d], q'[d], d) /\ M'[d] \subseteq U'[d]
    BY <2>1, <2>2
  <2> QED BY <1>2, <2>1, <2>2, <2>3, <2>5, <2>6
<1>10. CASE LastArc
  <2>1. /\ Kept /\ M' = M /\ turn' = turn /\ tm' = tm /\ count' = count /\ status' = status
        /\ hit' = hit /\ pc = "last" /\ dir' = dir /\ processed' = processed
        /\ pc' \in {"end", "crossing"}
    BY <1>10 DEF LastArc
  <2> QED BY <1>2, <1>3, <2>1
<1>11. CASE Cross
  <2>1. /\ Kept /\ M' = M /\ turn' = turn /\ tm' = tm /\ count' = count
        /\ hit' \subseteq hit \cup {"Solutions"}
        /\ pc = "crossing" /\ dir' = dir /\ processed' = processed
        /\ pc' = "end" /\ (status' = status \/ status' = "TimeLimitReached")
    BY <1>11 DEF Cross, Filled
  <2> QED BY <1>2, <1>3, <2>1
<1>12. CASE Return
  <2>1. /\ Kept /\ M' = M /\ turn' = turn /\ tm' = tm /\ count' = count
        /\ hit' = hit /\ pc = "end" /\ dir' = dir /\ processed' = processed
        /\ pc' = "done" /\ status' \in {status, "SolutionLimitReached", "Finished"}
    BY <1>12 DEF Return
  <2> QED BY <1>2, <1>3, <2>1
<1>13. CASE Expire
  <2>1. /\ Kept /\ M' = M /\ turn' = turn /\ tm' = tm /\ count' = count /\ status' = status
        /\ pc' = pc /\ dir' = dir /\ processed' = processed
        /\ \E x \in prob.limits : hit' = hit \cup {x}
    BY <1>13 DEF Expire
  <2>2. hit' \subseteq prob'.limits \cup {"Solutions"}  BY <2>1
  <2> QED BY <1>2, <1>3, <2>1, <2>2
<1>14. CASE Done \/ UNCHANGED vars
  <2>1. /\ Kept /\ M' = M /\ turn' = turn /\ tm' = tm /\ count' = count /\ status' = status
        /\ hit' = hit /\ pc' = pc /\ dir' = dir /\ processed' = processed
    BY <1>14 DEF Done, vars
  <2> QED BY <1>2, <1>3, <2>1
<1> QED BY <1>5, <1>6, <1>7, <1>8, <1>9, <1>10, <1>11, <1>12, <1>13, <1>14 DEF Next, Step

LEMMA TypesHold ==
  ASSUME Searching
  PROVE  TypeOK
<1> USE DEF Searching
<1>1. prob \in Problem /\ vrp = Prepared[prob.net]
  BY DEF Setting
<1>2. ASSUME NEW d \in Dir
      PROVE  /\ \A l \in U[d] : LabelOK(d, l)
             /\ \A e \in q[d] : e.parent # <<>> => e.parent[1] \in U[d]
  <2>1. ASSUME NEW l \in U[d] PROVE LabelOK(d, l)
    <3>1. Good(prob, vrp, d, l)  BY DEF Searched
    <3>2. Rw(l) # {} /\ Rw(l) \subseteq 0..T /\ l.path \in Seq(Vertex) /\ l.U \subseteq Vertex
      BY <3>1, LabelTypes
    <3>3. l.path[1] = From(d) /\ IsInjective(l.path) /\ Range(l.path) \subseteq l.U
      BY <3>1 DEF Good, Shaped
    <3> QED BY <3>2, <3>3 DEF LabelOK
  <2>2. \A e \in q[d] : e.parent # <<>> => e.parent[1] \in U[d]
    BY DEF Searched, Waiting
  <2> QED BY <2>1, <2>2
<1> QED BY <1>1, <1>2 DEF TypeOK

THEOREM SearchingAlways == Spec => []Searching
<1>1. Init => Searching
  BY SearchingInit
<1>2. Searching /\ [Next]_vars => Searching'
  BY SearchingNext
<1> QED BY <1>1, <1>2, PTL DEF Spec

(* A label is an elementary path out of its depot whose times lie within the horizon, and
   the searches, their turns and their queues know none but the labels processed
   (label.h, monodirectional_labeling.h). *)
THEOREM LabelingTypes == Spec => []TypeOK
<1>1. Searching => TypeOK
  BY TypesHold
<1> QED BY <1>1, SearchingAlways, PTL

-----------------------------------------------------------------------------
(* Routes.  A path the checker knows, over drivable arcs that no branch forbids, within
   the vehicle; the durations of the trips along it that start in the depot's window. *)
LEMMA PathIs ==
  ASSUME N \in Nat \ {0}, NEW path \in Seq(Vertex), Len(path) >= 1, path[1] = Start,
         path[Len(path)] = End, IsInjective(path),
         \A i \in 1..Len(path) - 1 : <<path[i], path[i + 1]>> \in Arc
  PROVE  path \in Path
<1> DEFINE n == Len(path)
           k == n - 2
           p == [i \in 1..k |-> path[i + 1]]
<1>1. n \in Nat /\ (\A i \in 1..n : path[i] \in Vertex) /\ DOMAIN path = 1..n
  BY ElementOfSeq
<1>2. n # 1 /\ n # 2
  <2>1. n # 1  BY Vertices
  <2>2. n # 2
    <3>1. SUFFICES ASSUME n = 2 PROVE FALSE  OBVIOUS
    <3>2. <<path[1], path[1 + 1]>> \in Arc  BY <3>1
    <3>3. <<Start, End>> \in Arc  BY <3>1, <3>2
    <3> QED BY <3>3 DEF Arc
  <2> QED BY <2>1, <2>2
<1>3. k \in Nat /\ k >= 1 /\ n = k + 2
  BY <1>1, <1>2
<1>4. \A i, j \in 1..n : path[i] = path[j] => i = j
  BY <1>1 DEF IsInjective
<1>6. path[1] = Start /\ path[n] = End /\ 1 \in 1..n /\ n \in 1..n
  BY <1>1
<1> HIDE DEF k, n
<1>5. \A i \in 1..k : i + 1 \in 1..n /\ i + 1 # 1 /\ i + 1 # n
  BY <1>1, <1>3
<1>7. p \in [1..k -> Customer]
  <2>1. ASSUME NEW i \in 1..k PROVE path[i + 1] \in Customer
    <3>1. path[i + 1] # path[1] /\ path[i + 1] # path[n]  BY <1>4, <1>5, <1>6
    <3>2. path[i + 1] \in Vertex  BY <1>1, <1>5
    <3> QED BY <1>6, <3>1, <3>2, Vertices
  <2> QED BY <2>1
<1>8. \A i, j \in 1..k : p[i] = p[j] => i = j
  <2>1. ASSUME NEW i \in 1..k, NEW j \in 1..k, p[i] = p[j] PROVE i = j
    <3>1. path[i + 1] = path[j + 1]  BY <2>1
    <3>2. i + 1 = j + 1  BY <1>4, <1>5, <3>1
    <3> QED BY <3>2
  <2> QED BY <2>1
<1>9. \A i \in 1..k : p[i] = path[i + 1]
  OBVIOUS
<1> HIDE DEF p
<1>10. k <= N
  <2>1. SUFFICES ASSUME N < k PROVE FALSE  BY <1>3
  <2>2. IsFiniteSet(1..k) /\ Cardinality(1..k) = k
    <3>1. 1 \in Int /\ k \in Int /\ ~(1 > k) /\ k - 1 + 1 = k  BY <1>3
    <3> QED BY <3>1, FS_Interval
  <2>3. IsFiniteSet(Customer) /\ Cardinality(Customer) = N
    <3>1. 1 \in Int /\ N \in Int /\ ~(1 > N) /\ N - 1 + 1 = N  OBVIOUS
    <3> QED BY <3>1, FS_Interval DEF Customer
  <2>4. \E x, y \in 1..k : x # y /\ p[x] = p[y]
    <3> DEFINE K == 1..k
    <3>1. IsFiniteSet(K) /\ IsFiniteSet(Customer) /\ Cardinality(Customer) < Cardinality(K)
          /\ p \in [K -> Customer]
      BY <1>7, <2>1, <2>2, <2>3
    <3> HIDE DEF K
    <3>2. \E x, y \in K : x # y /\ p[x] = p[y]  BY <3>1, FS_PigeonHole
    <3> QED BY <3>2 DEF K
  <2> QED BY <1>8, <2>4
<1>11. IsInjective(p)
  BY <1>7, <1>8 DEF IsInjective
<1>12. p \in {x \in UNION {[1..i -> Customer] : i \in 1..N} : IsInjective(x)}
  <2>1. k \in 1..N  BY <1>3, <1>10
  <2> QED BY <1>7, <1>11, <2>1
<1>13. path = <<Start>> \o p \o <<End>>
  <2> DEFINE a == <<Start>>
             b == <<End>>
             c == a \o p
  <2>1. /\ a \in Seq(Vertex) /\ Len(a) = 1 /\ a[1] = Start
        /\ b \in Seq(Vertex) /\ Len(b) = 1 /\ b[1] = End
    BY Vertices
  <2>2. p \in Seq(Vertex) /\ Len(p) = k
    <3>1. p \in [1..k -> Vertex]  BY <1>7, Vertices
    <3> QED BY <1>3, <3>1
  <2> HIDE DEF a, b
  <2>3. /\ c \in Seq(Vertex) /\ Len(c) = Len(a) + Len(p)
        /\ \A i \in 1..Len(a) + Len(p) : c[i] = IF i <= Len(a) THEN a[i] ELSE p[i - Len(a)]
    BY <2>1, <2>2, ConcatProperties
  <2> HIDE DEF c
  <2>4. /\ c \o b \in Seq(Vertex) /\ Len(c \o b) = Len(c) + Len(b)
        /\ \A i \in 1..Len(c) + Len(b) : (c \o b)[i] = IF i <= Len(c) THEN c[i] ELSE b[i - Len(c)]
    <3>1. c \in Seq(Vertex) /\ b \in Seq(Vertex)  BY <2>1, <2>3
    <3> QED BY ONLY <3>1, ConcatProperties
  <2>5. Len(c) = k + 1 /\ Len(c \o b) = n
    BY <1>3, <2>1, <2>2, <2>3, <2>4
  <2>6. ASSUME NEW i \in 1..n PROVE path[i] = (c \o b)[i]
    <3>0. (c \o b)[i] = IF i <= k + 1 THEN c[i] ELSE b[i - (k + 1)]
      BY <2>4, <2>5
    <3>1. CASE i = 1
      <4>1. 1 <= k + 1 /\ 1 \in 1..1 + k /\ 1 <= 1  BY <1>3
      <4>2. c[1] = a[1]  BY <2>1, <2>2, <2>3, <4>1
      <4> QED BY <1>6, <2>1, <3>0, <3>1, <4>1, <4>2
    <3>2. CASE i \in 2..k + 1
      <4>1. i <= k + 1 /\ i \in 1..1 + k /\ ~(i <= 1) /\ i - 1 \in 1..k /\ i - 1 + 1 = i
        BY <1>3, <3>2
      <4>2. c[i] = p[i - 1]  BY <2>1, <2>2, <2>3, <4>1
      <4>3. p[i - 1] = path[i - 1 + 1]  BY <1>9, <4>1
      <4> QED BY <3>0, <4>1, <4>2, <4>3
    <3>3. CASE i = n
      <4>1. ~(n <= k + 1) /\ n - (k + 1) = 1  BY <1>3
      <4> QED BY <1>6, <2>1, <3>0, <3>3, <4>1
    <3>4. i = 1 \/ i \in 2..k + 1 \/ i = n  BY <1>3
    <3> QED BY <3>1, <3>2, <3>3, <3>4
  <2>7. path \in Seq(Vertex) /\ Len(path) = n  BY DEF n
  <2>8. \A i \in 1..Len(path) : path[i] = (c \o b)[i]  BY <2>6, <2>7
  <2>9. path = c \o b  BY <2>4, <2>5, <2>7, <2>8, SeqEqual
  <2> QED BY <2>9 DEF a, b, c
<1> QED BY <1>12, <1>13 DEF Path

Durations(w, path) ==
  {c \in Nat : \E z : /\ IsTrip(w, 0, path, z) /\ z[1] \in w.lo[Start]..w.hi[Start]
                      /\ z[Len(path)] - z[1] = c}

Route(p, w, path) ==
  path \in Path /\ Roads(w, p.A, 0, path) /\ Along(Loads(p), path) <= Raw[p.net].room

Priced(p, path, c) ==
  c - Along(Profits(p), path) - (IF Along(Counts(p), path) >= 2 THEN p.sigma ELSE 0) < 0

(* What a merge or a complete label promises can be kept. *)
Promised(p, w, r) ==
  /\ r = [path |-> r.path, dur |-> r.dur] /\ r.dur \in Nat /\ Route(p, w, r.path)
  /\ Priced(p, r.path, r.dur) /\ \E c \in Durations(w, r.path) : c <= r.dur

(* Nobody arrives before leaving. *)
LEMMA TripForward ==
  ASSUME Setting, NEW path \in Seq(Vertex), Len(path) >= 1, NEW z, IsTrip(vrp, 0, path, z)
  PROVE  z[1] \in Int /\ z[Len(path)] \in Int /\ z[1] <= z[Len(path)]
<1> DEFINE n == Len(path)
<1>1. n \in Nat /\ n >= 1 /\ 1 \in Int /\ n \in Int /\ 1 \in 1..n /\ n \in 1..n
  OBVIOUS
<1>2. z \in [1..n -> Int] /\ \A i \in 1..n - 1 : Hop(vrp, 0, path[i], path[i + 1], z[i], z[i + 1])
  BY DEF IsTrip
<1>3. ASSUME NEW i \in 1..n - 1 PROVE z[i] <= z[i + 1]
  <2>1. Linked(vrp, <<path[i], path[i + 1]>>, z[i], z[i + 1])
    BY <1>2 DEF Hop
  <2> DEFINE a == <<path[i], path[i + 1]>>
  <2>2. a \in vrp.arcs /\ z[i] \in DOMAIN vrp.arr[a] /\ z[i + 1] = vrp.arr[a][z[i]]
    BY <2>1 DEF Linked
  <2> HIDE DEF a
  <2>3. Drivable(Raw[prob.net], a, vrp.arr[a])  BY <2>2, SettingIs
  <2> QED BY <2>2, <2>3 DEF Drivable
<1> DEFINE S == {i \in 1..n : z[1] <= z[i]}
<1> HIDE DEF n
<1>4. 1 \in S
  BY <1>1, <1>2
<1>5. ASSUME NEW i \in 1..n - 1, i \in S PROVE i + 1 \in S
  <2>1. i \in 1..n /\ i + 1 \in 1..n  BY <1>1
  <2>2. z[1] \in Int /\ z[i] \in Int /\ z[i + 1] \in Int /\ z[1] <= z[i] /\ z[i] <= z[i + 1]
    BY <1>1, <1>2, <1>3, <1>5, <2>1
  <2>3. z[1] <= z[i + 1]  BY <2>2
  <2> QED BY <2>1, <2>3
<1>6. \A i \in 1..n - 1 : i \in S => i + 1 \in S
  BY <1>5
<1> HIDE DEF S
<1>7. 1..n \subseteq S
  BY <1>1, <1>4, <1>6, Induction
<1>8. z[1] <= z[n] /\ z[1] \in Int /\ z[n] \in Int
  BY <1>1, <1>2, <1>7 DEF S
<1> QED BY <1>8 DEF n

LEMMA RouteIs ==
  ASSUME Setting, NEW path \in Seq(Vertex), Len(path) >= 1, path[1] = Start,
         path[Len(path)] = End, IsInjective(path), Roads(vrp, prob.A, 0, path),
         Along(Loads(prob), path) <= Raw[prob.net].room
  PROVE  Route(prob, vrp, path)
<1>1. N \in Nat \ {0} /\ vrp.arcs \subseteq Arc
  BY SettingIs DEF Sane, Ready
<1>2. \A i \in 1..Len(path) - 1 : <<path[i], path[i + 1]>> \in Arc
  BY <1>1 DEF Roads, Way
<1>3. path \in Path
  BY <1>1, <1>2, PathIs
<1> QED BY <1>3 DEF Route

(* What a meeting costs is what a trip over both paths may take. *)
LEMMA MeetingIs ==
  ASSUME Setting, NEW a, Good(prob, vrp, 0, a), NEW b, Good(prob, vrp, 1, b), At(a) = At(b),
         NEW c \in Meeting(a, b)
  PROVE  \E x, y : /\ IsTrip(vrp, 0, a.path, x) /\ IsTrip(vrp, 1, b.path, y)
                   /\ x[Len(a.path)] = y[Len(b.path)] /\ x[1] \in vrp.lo[Start]..vrp.hi[Start]
                   /\ y[1] - x[1] <= c
<1> DEFINE raw == Raw[prob.net]
           v == At(a)
           la == Len(a.path)
           lb == Len(b.path)
<1>1. /\ a.path[la] = v /\ Rw(a) \subseteq 0..T /\ Rw(a) # {} /\ a.dur \in [Rw(a) -> Nat]
      /\ la >= 1 /\ a.path \in Seq(Vertex) /\ Rw(a) = DOMAIN a.dur /\ 1 \in 1..la /\ la \in 1..la
  BY LabelTypes
<1>2. /\ b.path[lb] = v /\ Rw(b) \subseteq 0..T /\ Rw(b) # {} /\ b.dur \in [Rw(b) -> Nat]
      /\ lb >= 1 /\ b.path \in Seq(Vertex) /\ Rw(b) = DOMAIN b.dur /\ 1 \in 1..lb /\ lb \in 1..lb
  BY LabelTypes
<1>3. T \in Nat
  BY SettingIs DEF Sane
<1>4. /\ \A t \in Rw(a) : Forth(raw, vrp, a.path, t, a.dur[t])
      /\ \A t \in Rw(b) : Back(raw, vrp, b.path, t, b.dur[t])
  BY <1>1, <1>2 DEF Good, Timed
<1>5. ASSUME NEW t \in Rw(a), NEW s \in Rw(b), t <= T - s,
             c = a.dur[t] + b.dur[s] + (T - s) - t
      PROVE  \E x, y : /\ IsTrip(vrp, 0, a.path, x) /\ IsTrip(vrp, 1, b.path, y)
                       /\ x[la] = y[lb] /\ x[1] \in vrp.lo[Start]..vrp.hi[Start]
                       /\ y[1] - x[1] <= c
  <2>1. t \in Int /\ s \in Int /\ a.dur[t] \in Nat /\ b.dur[s] \in Nat
    BY <1>1, <1>2
  <2>2. Fits(raw, a.path[la], t)
        /\ \E x : /\ IsTrip(vrp, 0, a.path, x) /\ x[1] \in vrp.lo[Start]..vrp.hi[Start]
                  /\ x[la] = t /\ t - x[1] = a.dur[t]
    BY <1>4 DEF Forth
  <2>3. PICK x : /\ IsTrip(vrp, 0, a.path, x) /\ x[1] \in vrp.lo[Start]..vrp.hi[Start]
                 /\ x[la] = t /\ t - x[1] = a.dur[t]
    BY <2>2
  <2>4. Fits(raw, b.path[lb], t)  BY <1>1, <1>2, <2>2
  <2>5. \E y : IsTrip(vrp, 1, b.path, y) /\ y[lb] = t /\ y[1] <= T - s + b.dur[s]
    BY <1>4, <1>5, <2>1, <2>4 DEF Back
  <2>6. PICK y : IsTrip(vrp, 1, b.path, y) /\ y[lb] = t /\ y[1] <= T - s + b.dur[s]
    BY <2>5
  <2>7. x[1] \in Int /\ y[1] \in Int
    <3>1. x \in [1..la -> Int] /\ y \in [1..lb -> Int]  BY <2>3, <2>6 DEF IsTrip
    <3> QED BY <1>1, <1>2, <3>1
  <2>8. y[1] - x[1] <= c
    <3> DEFINE x1 == x[1]
               y1 == y[1]
               da == a.dur[t]
               db == b.dur[s]
    <3>1. /\ x1 \in Int /\ y1 \in Int /\ da \in Int /\ db \in Int
          /\ t - x1 = da /\ y1 <= T - s + db /\ c = da + db + (T - s) - t
      BY <1>5, <2>1, <2>3, <2>6, <2>7
    <3> HIDE DEF x1, y1, da, db
    <3>2. y1 - x1 <= c  BY <1>3, <2>1, <3>1
    <3> QED BY <3>2 DEF x1, y1
  <2> QED BY <2>3, <2>6, <2>8
<1> DEFINE mt == {T - t : t \in Rw(b)}
           ta == Max(Rw(a))
           s == Max(Rw(b))
<1>6. ta \in Rw(a) /\ ta \in Int
  <2>1. Rw(a) \subseteq Int /\ T \in Int /\ \A t \in Rw(a) : t <= T  BY <1>1, <1>3
  <2> QED BY <1>1, <2>1, MaxIs
<1>7. s \in Rw(b) /\ \A t \in Rw(b) : t <= s
  <2>1. Rw(b) \subseteq Int /\ T \in Int /\ \A t \in Rw(b) : t <= T  BY <1>2, <1>3
  <2> QED BY <1>2, <2>1, MaxIs
<1>8. Min(mt) = T - s
  <2>1. mt \subseteq Int /\ mt # {} /\ 0 \in Int /\ \A x \in mt : 0 <= x  BY <1>2, <1>3
  <2>2. Min(mt) \in mt /\ \A x \in mt : Min(mt) <= x  BY <2>1, MinIs
  <2>3. PICK t \in Rw(b) : Min(mt) = T - t  BY <2>2
  <2>4. Min(mt) <= T - s  BY <1>7, <2>2
  <2>5. t \in Int /\ s \in Int /\ t <= s  BY <1>2, <1>7
  <2> HIDE DEF mt, s
  <2> QED BY <1>3, <2>3, <2>4, <2>5
<1>9. CASE Min(mt) >= ta
  <2>1. c = a.dur[ta] + b.dur[s] + Min(mt) - ta  BY <1>9 DEF Meeting
  <2>2. s \in Int /\ a.dur[ta] \in Int /\ b.dur[s] \in Int  BY <1>1, <1>2, <1>6, <1>7
  <2> HIDE DEF mt, ta, s
  <2>3. ta <= T - s  BY <1>3, <1>6, <1>8, <1>9, <2>2
  <2>4. c = a.dur[ta] + b.dur[s] + (T - s) - ta  BY <1>8, <2>1
  <2> QED BY <1>5, <1>6, <1>7, <2>3, <2>4
<1>10. CASE ~(Min(mt) >= ta)
  <2>1. c \in {a.dur[t] + b.dur[T - t] : t \in Rw(a) \cap mt}  BY <1>10 DEF Meeting
  <2>2. PICK t \in Rw(a) \cap mt : c = a.dur[t] + b.dur[T - t]  BY <2>1
  <2>3. PICK r \in Rw(b) : t = T - r  BY <2>2
  <2>4. r \in Int /\ t \in Int /\ a.dur[t] \in Int /\ b.dur[r] \in Int /\ t \in Rw(a)
    BY <1>1, <1>2, <2>2
  <2>5. T - t = r  BY <1>3, <2>3, <2>4
  <2>6. c = a.dur[t] + b.dur[r]  BY <2>2, <2>5
  <2>7. t <= T - r  BY <2>3, <2>4
  <2> DEFINE da == a.dur[t]
             db == b.dur[r]
  <2>8. da \in Int /\ db \in Int /\ c = da + db  BY <2>4, <2>6
  <2> HIDE DEF da, db
  <2>9. c = da + db + (T - r) - t  BY <1>3, <2>3, <2>4, <2>8
  <2> HIDE DEF mt
  <2> QED BY <1>5, <2>4, <2>7, <2>9 DEF da, db
<1> QED BY <1>9, <1>10

(* Two elementary paths that share but the vertex they meet at make one. *)
LEMMA JoinedInjective ==
  ASSUME NEW a \in Seq(Vertex), NEW b \in Seq(Vertex), Len(a) >= 1, Len(b) >= 1,
         IsInjective(a), IsInjective(b), a[Len(a)] = b[Len(b)], Range(a) \cap Range(b) = {b[Len(b)]}
  PROVE  /\ IsInjective(a \o Reverse(Front(b)))
         /\ (a \o Reverse(Front(b)))[1] = a[1]
         /\ (a \o Reverse(Front(b)))[Len(a) + Len(b) - 1] = b[1]
<1> DEFINE j == a \o Reverse(Front(b))
           m == Len(a)
           n == Len(b)
           k == m + n - 1
<1>1. /\ j \in Seq(Vertex) /\ Len(j) = k
      /\ \A i \in 1..k : j[i] = IF i <= m THEN a[i] ELSE b[m + n - i]
  BY JoinedParts
<1>2. m \in Nat /\ n \in Nat /\ m >= 1 /\ n >= 1 /\ DOMAIN a = 1..m /\ DOMAIN b = 1..n
  OBVIOUS
<1> HIDE DEF j
<1>3. DOMAIN j = 1..k
  BY <1>1
<1>4. /\ \A x, y \in 1..m : a[x] = a[y] => x = y
      /\ \A x, y \in 1..n : b[x] = b[y] => x = y
      /\ \A x \in 1..m, y \in 1..n : a[x] = b[y] => b[y] = b[n]
  <2>1. \A x, y \in 1..m : a[x] = a[y] => x = y  BY <1>2 DEF IsInjective
  <2>2. \A x, y \in 1..n : b[x] = b[y] => x = y  BY <1>2 DEF IsInjective
  <2>3. ASSUME NEW x \in 1..m, NEW y \in 1..n, a[x] = b[y] PROVE b[y] = b[n]
    <3>1. a[x] \in Range(a) /\ b[y] \in Range(b)  BY <1>2 DEF Range
    <3> QED BY <2>3, <3>1
  <2> QED BY <2>1, <2>2, <2>3
<1>5. a[m] = b[n]
  OBVIOUS
<1>6. k \in Int /\ k = m + n - 1
  BY <1>2
<1> HIDE DEF m, n, k
<1>7. ASSUME NEW x \in 1..k, NEW y \in 1..k, j[x] = j[y] PROVE x = y
  <2>1. CASE x <= m /\ y <= m
    <3>1. x \in 1..m /\ y \in 1..m /\ j[x] = a[x] /\ j[y] = a[y]  BY <1>1, <1>2, <2>1
    <3> QED BY <1>4, <1>7, <3>1
  <2>2. CASE x <= m /\ ~(y <= m)
    <3>1. x \in 1..m /\ m + n - y \in 1..n /\ m + n - y # n /\ n \in 1..n
      BY <1>2, <1>6, <2>2
    <3>2. j[x] = a[x] /\ j[y] = b[m + n - y]  BY <1>1, <2>2
    <3> DEFINE z == m + n - y
    <3>3. z \in 1..n /\ z # n /\ a[x] = b[z]  BY <1>7, <3>1, <3>2
    <3> HIDE DEF z
    <3>4. b[z] = b[n]  BY <1>4, <3>1, <3>3
    <3> QED BY <1>4, <3>1, <3>3, <3>4
  <2>3. CASE ~(x <= m) /\ y <= m
    <3>1. y \in 1..m /\ m + n - x \in 1..n /\ m + n - x # n /\ n \in 1..n
      BY <1>2, <1>6, <2>3
    <3>2. j[y] = a[y] /\ j[x] = b[m + n - x]  BY <1>1, <2>3
    <3> DEFINE z == m + n - x
    <3>3. z \in 1..n /\ z # n /\ a[y] = b[z]  BY <1>7, <3>1, <3>2
    <3> HIDE DEF z
    <3>4. b[z] = b[n]  BY <1>4, <3>1, <3>3
    <3> QED BY <1>4, <3>1, <3>3, <3>4
  <2>4. CASE ~(x <= m) /\ ~(y <= m)
    <3>1. m + n - x \in 1..n /\ m + n - y \in 1..n  BY <1>2, <1>6, <2>4
    <3>2. j[x] = b[m + n - x] /\ j[y] = b[m + n - y]  BY <1>1, <2>4
    <3> DEFINE z == m + n - x
               u == m + n - y
    <3>3. z \in 1..n /\ u \in 1..n /\ b[z] = b[u]  BY <1>7, <3>1, <3>2
    <3> HIDE DEF z, u
    <3>4. z = u  BY <1>4, <3>3
    <3>5. m + n - x = m + n - y  BY <3>4 DEF z, u
    <3> QED BY <1>2, <3>5
  <2> QED BY <2>1, <2>2, <2>3, <2>4
<1>8. IsInjective(j)
  BY <1>3, <1>7 DEF IsInjective
<1>9. j[1] = a[1]
  <2>1. 1 \in 1..k /\ 1 <= m  BY <1>2, <1>6
  <2> QED BY <1>1, <2>1
<1>10. j[k] = b[1]
  <2>1. k \in 1..k /\ m + n - k = 1  BY <1>2, <1>6
  <2>2. CASE k <= m
    <3>1. n = 1 /\ k = m  BY <1>2, <1>6, <2>2
    <3> QED BY <1>1, <1>5, <2>1, <2>2, <3>1
  <2>3. CASE ~(k <= m)
    BY <1>1, <2>1, <2>3
  <2> QED BY <2>2, <2>3
<1> QED BY <1>8, <1>9, <1>10 DEF j, k, m, n

(* What a merge adds. *)
LEMMA MeetingNat ==
  ASSUME Setting, NEW a, Good(prob, vrp, 0, a), NEW b, Good(prob, vrp, 1, b), NEW e \in Meeting(a, b)
  PROVE  e \in Nat
<1>0. Good(prob, vrp, 0, a) /\ Good(prob, vrp, 1, b)
  OBVIOUS
<1> DEFINE mt == {T - t : t \in Rw(b)}
<1>1. /\ Rw(a) \subseteq 0..T /\ a.dur \in [Rw(a) -> Nat] /\ Rw(a) # {}
  BY <1>0, LabelTypes
<1>2. /\ Rw(b) \subseteq 0..T /\ b.dur \in [Rw(b) -> Nat] /\ Rw(b) # {} /\ T \in Nat
  BY <1>0, LabelTypes, SettingIs DEF Sane
<1>3. Max(Rw(a)) \in Rw(a) /\ Max(Rw(b)) \in Rw(b)
  <2>1. /\ Rw(a) \subseteq Int /\ T \in Int /\ \A t \in Rw(a) : t <= T
        /\ Rw(b) \subseteq Int /\ \A t \in Rw(b) : t <= T
    BY <1>1, <1>2
  <2> QED BY <1>1, <1>2, <2>1, MaxIs
<1>4. Min(mt) \in Int
  <2>1. mt \subseteq Int /\ mt # {} /\ 0 \in Int /\ \A x \in mt : 0 <= x  BY <1>2
  <2> HIDE DEF mt
  <2>2. Min(mt) \in mt  BY <2>1, MinIs
  <2> QED BY <2>1, <2>2
<1>5. a.dur[Max(Rw(a))] \in Nat /\ b.dur[Max(Rw(b))] \in Nat /\ Max(Rw(a)) \in Int
  BY <1>1, <1>2, <1>3
<1>6. CASE Min(mt) >= Max(Rw(a))
  <2>1. e = a.dur[Max(Rw(a))] + b.dur[Max(Rw(b))] + Min(mt) - Max(Rw(a))
    BY <1>6 DEF Meeting
  <2> HIDE DEF mt
  <2> QED BY <1>4, <1>5, <1>6, <2>1
<1>7. CASE ~(Min(mt) >= Max(Rw(a)))
  <2>1. e \in {a.dur[t] + b.dur[T - t] : t \in Rw(a) \cap mt}  BY <1>7 DEF Meeting
  <2>2. PICK t \in Rw(a) \cap mt : e = a.dur[t] + b.dur[T - t]  BY <2>1
  <2>3. PICK s \in Rw(b) : t = T - s  BY <2>2
  <2>4. T - t = s  BY <1>2, <2>3
  <2>5. a.dur[t] \in Nat /\ b.dur[T - t] \in Nat  BY <1>1, <1>2, <2>2, <2>4
  <2> QED BY <2>2, <2>5
<1> QED BY <1>6, <1>7

LEMMA JoinedPromise ==
  ASSUME Setting, NEW a, Good(prob, vrp, 0, a), NEW b, Good(prob, vrp, 1, b), At(a) = At(b),
         a.q + b.q - Demand(At(a)) <= Raw[prob.net].room,
         Range(a.path) \cap Range(b.path) = {At(a)}, Meeting(a, b) # {},
         NEW c, c = Min(Meeting(a, b)),
         c - a.p - b.p + Profit(At(a)) - CutCost(a.n - Hits(At(a)) + b.n) < 0
  PROVE  Promised(prob, vrp, [path |-> Joined(a, b), dur |-> c])
<1> DEFINE v == At(a)
           pa == a.path
           pb == b.path
           la == Len(pa)
           lb == Len(pb)
           path == Joined(a, b)
           r == [path |-> path, dur |-> c]
<1>0. Setting /\ Good(prob, vrp, 0, a) /\ Good(prob, vrp, 1, b) /\ prob \in Problem /\ Posed(prob)
  BY SettingIs DEF Setting
<1>1. /\ pa[la] = v /\ la >= 1 /\ pa \in Seq(Vertex) /\ v \in Vertex /\ a.n \in Int /\ a.p \in Int
      /\ a.q \in Int
  BY <1>0, LabelTypes
<1>2. /\ pb[lb] = v /\ lb >= 1 /\ pb \in Seq(Vertex) /\ b.n \in Int /\ b.p \in Int /\ b.q \in Int
  BY <1>0, LabelTypes
<1>3. /\ pa[1] = Start /\ IsInjective(pa) /\ Roads(vrp, prob.A, 0, pa)
      /\ a.q = Along(Loads(prob), pa) /\ a.p = Along(Profits(prob), pa)
      /\ a.n = Along(Counts(prob), pa)
  BY <1>0 DEF Good, Shaped, From
<1>4. /\ pb[1] = End /\ IsInjective(pb) /\ Roads(vrp, prob.A, 1, pb)
      /\ b.q = Along(Loads(prob), pb) /\ b.p = Along(Profits(prob), pb)
      /\ b.n = Along(Counts(prob), pb)
  BY <1>0 DEF Good, Shaped, From
<1>5. path = pa \o Reverse(Front(pb))
  BY DEF Joined, Parent
<1>6. Range(pa) \cap Range(pb) = {v}
  OBVIOUS
<1>7. \A e \in Meeting(a, b) :
         /\ e \in Nat
         /\ \E x, y : /\ IsTrip(vrp, 0, pa, x) /\ IsTrip(vrp, 1, pb, y)
                      /\ x[la] = y[lb] /\ x[1] \in vrp.lo[Start]..vrp.hi[Start] /\ y[1] - x[1] <= e
  BY <1>0, MeetingIs, MeetingNat
<1>8. a.q + b.q - Demand(v) <= Raw[prob.net].room /\ Meeting(a, b) # {}
      /\ c - a.p - b.p + Profit(v) - CutCost(a.n - Hits(v) + b.n) < 0
  OBVIOUS
<1>9. r.path = path /\ r.dur = c /\ r = [path |-> r.path, dur |-> r.dur]
  OBVIOUS
<1> HIDE DEF v, pa, pb, path, r
<1>10. path \in Seq(Vertex) /\ Len(path) = la + lb - 1 /\ Len(path) >= 1
  <2>1. path \in Seq(Vertex) /\ Len(path) = la + lb - 1
    BY <1>1, <1>2, <1>5, JoinedParts
  <2>2. la \in Nat /\ lb \in Nat  BY <1>1, <1>2
  <2> HIDE DEF la, lb
  <2> QED BY <1>1, <1>2, <2>1, <2>2
<1>11. IsInjective(path) /\ path[1] = Start /\ path[Len(path)] = End
  <2>1. /\ IsInjective(path) /\ path[1] = pa[1] /\ path[la + lb - 1] = pb[1]
    BY <1>1, <1>2, <1>3, <1>4, <1>5, <1>6, JoinedInjective
  <2> QED BY <1>3, <1>4, <1>10, <2>1
<1>12. /\ Along(Loads(prob), path) = a.q + b.q - Demand(v)
      /\ Along(Profits(prob), path) = a.p + b.p - Profit(v)
      /\ Along(Counts(prob), path) = a.n + b.n - Hits(v)
  <2>1. \A f \in [Vertex -> Int] : Along(f, path) = Along(f, pa) + Along(f, pb) - f[v]
    BY <1>1, <1>2, <1>5, SumJoined
  <2>2. Loads(prob) \in [Vertex -> Int] /\ Profits(prob) \in [Vertex -> Int] /\ Counts(prob) \in [Vertex -> Int]
    BY <1>0, SumFunctions
  <2>3. Loads(prob)[v] = Demand(v) /\ Profits(prob)[v] = Profit(v) /\ Counts(prob)[v] = Hits(v)
    BY <1>1 DEF Loads, Profits, Counts, Demand, Profit, Hits
  <2> QED BY <1>3, <1>4, <2>1, <2>2, <2>3
<1>13. Roads(vrp, prob.A, 0, path)
  BY <1>1, <1>2, <1>3, <1>4, <1>5, TripJoined
<1>14. Route(prob, vrp, path)
  <2>1. Along(Loads(prob), path) <= Raw[prob.net].room  BY <1>8, <1>12
  <2> QED BY <1>0, <1>10, <1>11, <1>13, <2>1, RouteIs
<1>15. Durations(vrp, path) \subseteq Nat
  BY DEF Durations
<1>16. ASSUME NEW e \in Meeting(a, b) PROVE \E d \in Durations(vrp, path) : d <= e
  <2>1. PICK x, y : /\ IsTrip(vrp, 0, pa, x) /\ IsTrip(vrp, 1, pb, y)
                    /\ x[la] = y[lb] /\ x[1] \in vrp.lo[Start]..vrp.hi[Start] /\ y[1] - x[1] <= e
    BY <1>7
  <2>2. \E z : /\ IsTrip(vrp, 0, path, z) /\ z[1] = x[1] /\ z[la + lb - 1] = y[1]
    <3>1. Joinable(vrp, pa, pb, path)  BY <1>1, <1>2, <1>3, <1>5, TripJoined
    <3> HIDE DEF la, lb
    <3> QED BY <2>1, <3>1 DEF Joinable, la, lb
  <2>3. PICK z : IsTrip(vrp, 0, path, z) /\ z[1] = x[1] /\ z[Len(path)] = y[1]
    BY <1>10, <2>2
  <2>4. z[1] \in Int /\ z[Len(path)] \in Int /\ z[1] <= z[Len(path)]
    BY <1>0, <1>10, <2>3, TripForward
  <2> DEFINE d == z[Len(path)] - z[1]
  <2>5. d \in Nat /\ d = y[1] - x[1]  BY <2>3, <2>4
  <2>6. d \in Durations(vrp, path)  BY <2>1, <2>3, <2>5 DEF Durations
  <2> QED BY <2>1, <2>5, <2>6
<1>17. c \in Meeting(a, b)
  <2> DEFINE S == Meeting(a, b)
  <2>1. \A e \in S : \E d \in Durations(vrp, path) : d <= e  BY <1>16
  <2>2. c = Min(S) /\ S # {} /\ \A e \in S : e \in Int  BY <1>7
  <2> HIDE DEF S
  <2>3. S \subseteq Int /\ 0 \in Int /\ \A e \in S : 0 <= e  BY <1>15, <2>1, <2>2
  <2>4. c \in S  BY <2>2, <2>3, MinIs
  <2> QED BY <2>4 DEF S
<1>18. c \in Nat /\ \E d \in Durations(vrp, path) : d <= c
  <2>1. \E d \in Durations(vrp, path) : d <= c  BY <1>16, <1>17
  <2>2. c \in Int  BY <1>7, <1>17
  <2> QED BY <1>15, <2>1, <2>2
<1>19. Priced(prob, path, c)
  <2> DEFINE pv == Profit(v)
             hv == Hits(v)
             al == Along(Profits(prob), path)
             cn == Along(Counts(prob), path)
             cc == CutCost(cn)
             ap == a.p
             bp == b.p
             an == a.n
             bn == b.n
  <2>1. pv \in Int /\ hv \in Int
    BY <1>0 DEF Profit, Hits, Posed
  <2>2. al = ap + bp - pv /\ cn = an + bn - hv  BY <1>12
  <2>3. c - ap - bp + pv - CutCost(an - hv + bn) < 0  BY <1>8
  <2>4. cc \in Int
    BY <1>0 DEF CutCost, Posed
  <2>5. ap \in Int /\ bp \in Int /\ an \in Int /\ bn \in Int  BY <1>1, <1>2
  <2> HIDE DEF pv, hv, al, cn, ap, bp, an, bn
  <2>6. cn = an - hv + bn  BY <2>1, <2>2, <2>5
  <2>7. c - ap - bp + pv - cc < 0  BY <2>3, <2>6
  <2>8. cc = IF cn >= 2 THEN prob.sigma ELSE 0  BY DEF CutCost
  <2> HIDE DEF cc
  <2>9. c - al - cc < 0  BY <1>18, <2>1, <2>2, <2>4, <2>5, <2>7
  <2> QED BY <2>8, <2>9 DEF Priced, al, cn
<1>20. Promised(prob, vrp, r)
  BY <1>9, <1>14, <1>18, <1>19 DEF Promised
<1> QED BY <1>20 DEF r, path

LEMMA MergedGood ==
  ASSUME Setting, NEW d \in Dir, NEW x, Good(prob, vrp, d, x), NEW y, Good(prob, vrp, 1 - d, y),
         At(x) = At(y), NEW r \in Merged(x, y)
  PROVE  Promised(prob, vrp, r)
<1> DEFINE fw == IF x.path[1] = Start THEN x ELSE y
           bw == IF x.path[1] = Start THEN y ELSE x
           c == Min(Meeting(fw, bw))
<1>1. /\ x.q + y.q - Demand(At(x)) <= Raw[prob.net].room
      /\ Range(x.path) \cap Range(y.path) = {At(x)} /\ Meeting(fw, bw) # {}
      /\ c - x.p - y.p + Profit(At(x)) - CutCost(x.n - Hits(At(x)) + y.n) < 0
      /\ r = [path |-> Joined(fw, bw), dur |-> c]
  BY DEF Merged, Promising
<1>2. /\ x.path[1] = From(d) /\ Start # End
  <2>1. N \in Nat \ {0}  BY SettingIs DEF Sane
  <2> QED BY <2>1, Vertices DEF Good, Shaped
<1>3. CASE d = 0
  <2>1. fw = x /\ bw = y  BY <1>2, <1>3 DEF From
  <2>2. Good(prob, vrp, 0, x) /\ Good(prob, vrp, 1, y)  BY <1>3
  <2> QED BY <1>1, <2>1, <2>2, JoinedPromise
<1>4. CASE d = 1
  <2>1. fw = y /\ bw = x  BY <1>2, <1>4 DEF From
  <2>2. Good(prob, vrp, 0, y) /\ Good(prob, vrp, 1, x)  BY <1>4
  <2> DEFINE v == At(x)
             dv == Demand(v)
             pv == Profit(v)
             hv == Hits(v)
             S == Meeting(y, x)
             xq == x.q
             yq == y.q
             xp == x.p
             yp == y.p
             xn == x.n
             yn == y.n
  <2>3. /\ xq \in Int /\ xp \in Int /\ xn \in Int /\ yq \in Int /\ yp \in Int /\ yn \in Int
    BY <2>2, LabelTypes
  <2>4. pv \in Int /\ hv \in Int /\ dv \in Int /\ v = At(y)
    <3>1. Posed(prob) /\ Sane(Raw[prob.net])  BY SettingIs
    <3>2. v \in Vertex  BY <2>2, LabelTypes
    <3> QED BY <3>1, <3>2 DEF Profit, Hits, Posed, Demand, Sane, Proper
  <2>5. S # {} /\ c = Min(S) /\ \A e \in S : e \in Nat
    <3>1. S # {} /\ c = Min(S)  BY <1>1, <2>1
    <3>2. ASSUME NEW e \in S PROVE e \in Nat
      <4> QED BY <2>2, MeetingNat
    <3> QED BY <3>1, <3>2
  <2>6. c \in Int
    <3> HIDE DEF S
    <3>1. S \subseteq Int /\ 0 \in Int /\ \A e \in S : 0 <= e  BY <2>5
    <3>2. c \in S  BY <2>5, <3>1, MinIs
    <3> QED BY <2>5, <3>2
  <2>7. /\ xq + yq - dv <= Raw[prob.net].room
        /\ c - xp - yp + pv - CutCost(xn - hv + yn) < 0
    BY <1>1
  <2>8. Posed(prob)  BY SettingIs
  <2>9. \A n : CutCost(n) \in Int  BY <2>8 DEF CutCost, Posed
  <2> HIDE DEF c, dv, pv, hv, xq, yq, xp, yp, xn, yn
  <2>10. xn - hv + yn = yn - hv + xn /\ xq + yq = yq + xq  BY <2>3, <2>4
  <2> DEFINE cc == CutCost(yn - hv + xn)
  <2>11. c - xp - yp + pv - cc < 0 /\ cc \in Int  BY <2>7, <2>9, <2>10
  <2> HIDE DEF cc
  <2>12. c - yp - xp + pv - cc < 0  BY <2>3, <2>4, <2>6, <2>11
  <2>13. yq + xq - dv <= Raw[prob.net].room
    <3>1. xq + yq - dv = yq + xq - dv  BY <2>3, <2>4, <2>10
    <3> QED BY <2>7, <3>1
  <2> USE DEF dv, pv, hv, xq, yq, xp, yp, xn, yn, cc
  <2>14. c - y.p - x.p + Profit(At(y)) - CutCost(y.n - Hits(At(y)) + x.n) < 0  BY <2>4, <2>12
  <2>15. y.q + x.q - Demand(At(y)) <= Raw[prob.net].room  BY <2>4, <2>13
  <2>16. Range(y.path) \cap Range(x.path) = {At(y)}  BY <1>1, <2>4
  <2> HIDE DEF dv, pv, hv, xq, yq, xp, yp, xn, yn, cc
  <2>17. Promised(prob, vrp, [path |-> Joined(y, x), dur |-> c])
    BY <2>2, <2>4, <2>5, <2>14, <2>15, <2>16, JoinedPromise
  <2> QED BY <1>1, <2>1, <2>17 DEF c
<1> QED BY <1>3, <1>4 DEF Dir

(* A complete forward label is a trip. *)
LEMMA CompleteGood ==
  ASSUME Setting, NEW l, Good(prob, vrp, 0, l), At(l) = End, MinCost(l) < 0
  PROVE  Promised(prob, vrp, [path |-> l.path, dur |-> Min(Image(l.dur))])
<1> DEFINE path == l.path
           c == Min(Image(l.dur))
           r == [path |-> path, dur |-> c]
<1>0. Setting /\ Good(prob, vrp, 0, l) /\ Posed(prob)
  BY SettingIs
<1>1. /\ path \in Seq(Vertex) /\ Len(path) >= 1 /\ path[Len(path)] = End
      /\ Rw(l) = DOMAIN l.dur /\ Rw(l) # {} /\ Rw(l) \subseteq 0..T /\ l.dur \in [Rw(l) -> Nat]
  BY <1>0, LabelTypes
<1>2. /\ path[1] = Start /\ IsInjective(path) /\ Roads(vrp, prob.A, 0, path)
      /\ l.q = Along(Loads(prob), path) /\ l.p = Along(Profits(prob), path)
      /\ l.n = Along(Counts(prob), path) /\ l.q <= Raw[prob.net].room
  BY <1>0 DEF Good, Shaped, From
<1>3. r.path = path /\ r.dur = c /\ r = [path |-> r.path, dur |-> r.dur]
  OBVIOUS
<1>4. \E t \in Rw(l) : c = l.dur[t]
  <2> DEFINE f == l.dur
  <2>1. f \in [Rw(l) -> Nat] /\ Rw(l) # {} /\ DOMAIN f = Rw(l) /\ c = Min(Image(f))  BY <1>1
  <2> HIDE DEF f, c
  <2>2. Image(f) = {f[t] : t \in Rw(l)}  BY <2>1 DEF Image
  <2>3. Image(f) \subseteq Int /\ Image(f) # {} /\ 0 \in Int /\ \A x \in Image(f) : 0 <= x
    BY <2>1, <2>2
  <2>4. c \in Image(f)  BY <2>1, <2>3, MinIs
  <2> QED BY <2>2, <2>4 DEF f
<1>5. PICK t \in Rw(l) : c = l.dur[t]
  BY <1>4
<1>6. Forth(Raw[prob.net], vrp, path, t, c)
  BY <1>0, <1>1, <1>5 DEF Good, Timed
<1>7. c - l.p - CutCost(l.n) < 0
  BY DEF MinCost
<1>8. c \in Nat
  BY <1>1, <1>5
<1> HIDE DEF path, c, r
<1>9. PICK z : /\ IsTrip(vrp, 0, path, z) /\ z[1] \in vrp.lo[Start]..vrp.hi[Start]
               /\ z[Len(path)] = t /\ t - z[1] = c
  BY <1>6 DEF Forth
<1>10. c \in Durations(vrp, path)
  BY <1>8, <1>9 DEF Durations
<1>11. Route(prob, vrp, path)
  <2>1. Along(Loads(prob), path) <= Raw[prob.net].room  BY <1>2
  <2> QED BY <1>0, <1>1, <1>2, <2>1, RouteIs
<1>12. Priced(prob, path, c)
  BY <1>2, <1>7 DEF Priced, CutCost
<1>13. c <= c
  BY <1>8
<1>14. Promised(prob, vrp, r)
  BY <1>3, <1>8, <1>10, <1>11, <1>12, <1>13 DEF Promised
<1> QED BY <1>14 DEF r, path, c

(* The pool keeps what it is given. *)
LEMMA AddedIs ==
  ASSUME NEW P, NEW C, \A r \in P \cup C : r.dur \in Nat
  PROVE  Added(P, C) \subseteq P \cup C
<1> DEFINE of(V) == {c \in C \cup P : Inner(c.path) = V}
           best(V) == CHOOSE c \in of(V) : \A o \in of(V) : c.dur <= o.dur
<1>1. ASSUME NEW r \in C \cup P PROVE best(Inner(r.path)) \in C \cup P
  <2> DEFINE V == Inner(r.path)
             D == {c.dur : c \in of(V)}
  <2>1. r \in of(V)  OBVIOUS
  <2>2. D \subseteq Nat /\ D # {}  BY <2>1
  <2>3. PICK x \in D : \A y \in D : x <= y  BY <2>2, LeastNat
  <2>4. PICK c \in of(V) : x = c.dur  BY <2>3
  <2>5. \A o \in of(V) : c.dur <= o.dur  BY <2>3, <2>4
  <2>6. best(V) \in of(V)  BY <2>4, <2>5
  <2> QED BY <2>6
<1>2. Added(P, C) = {best(Inner(c.path)) : c \in C \cup P}
  BY DEF Added
<1> HIDE DEF best
<1> QED BY <1>1, <1>2

-----------------------------------------------------------------------------
(* The checker.  On a path over prepared arcs it drives as BestDurationRoute does, and
   what either finds are the trips. *)
Kept(x, raw, v) == x = Never \/ Fits(raw, v, x)

LEMMA ServeIs ==
  ASSUME Setting, NEW v \in Vertex, NEW t \in Int
  PROVE  /\ Serve(v, t) \in Int
         /\ Serve(v, t) =
              IF t > Raw[prob.net].hi[v] THEN Never
              ELSE (IF Raw[prob.net].lo[v] >= t THEN Raw[prob.net].lo[v] ELSE t)
                      + Raw[prob.net].service[v]
<1> DEFINE raw == Raw[prob.net]
<1>1. raw.lo[v] \in Nat /\ raw.hi[v] \in Nat /\ raw.service[v] \in Nat /\ Never \in Nat
  BY SettingIs DEF Sane, Proper
<1>2. Max({raw.lo[v], t}) = IF raw.lo[v] >= t THEN raw.lo[v] ELSE t
  BY <1>1, MaxOfTwo
<1> QED BY <1>1, <1>2 DEF Serve

LEMMA DriveStep ==
  ASSUME Setting, NEW a \in Arc, NEW x \in Int, Kept(x, Raw[prob.net], a[1])
  PROVE  /\ Arrive(Folded(Raw[prob.net])[a], x) = Serve(a[2], Arrive(Raw[prob.net].drive[a], x))
         /\ Arrive(Folded(Raw[prob.net])[a], x) \in Int /\ Kept(Arrive(Folded(Raw[prob.net])[a], x), Raw[prob.net], a[2])
<1> DEFINE raw == Raw[prob.net]
           f == Folded(raw)[a]
           g == raw.drive[a]
<1>1. /\ Sane(raw) /\ a \in Arc /\ Drivable(raw, a, f)
  BY SettingIs, FoldedDrivable
<1>2. /\ a[1] \in Vertex /\ a[2] \in Vertex /\ T \in Nat /\ Never \in Nat
      /\ raw.lo[a[2]] \in Nat /\ raw.hi[a[2]] \in Nat /\ raw.service[a[2]] \in Nat
      /\ raw.hi[a[2]] <= T /\ T + raw.service[a[2]] < Never /\ g \in [0..T -> Nat]
  BY <1>1, Vertices DEF Sane, Proper
<1>4. /\ \A t : t \in DOMAIN f <=> t \in 0..T /\ Fits(raw, a[1], t) /\ g[t] <= raw.hi[a[2]]
      /\ \A t \in DOMAIN f :
           f[t] = (IF raw.lo[a[2]] >= g[t] THEN raw.lo[a[2]] ELSE g[t]) + raw.service[a[2]]
  BY <1>1, FoldedIs
<1>5. \A t \in DOMAIN f : Fits(raw, a[2], f[t]) /\ f[t] \in Int /\ f[t] < Never
  BY <1>1 DEF Drivable
<1>6. Arrive(g, x) = IF x \in 0..T THEN g[x] ELSE Never
  BY <1>2 DEF Arrive
<1>7. Arrive(f, x) = IF x \in DOMAIN f THEN f[x] ELSE Never
  BY DEF Arrive
<1>8. Never > raw.hi[a[2]] /\ Never \notin 0..T
  <2> DEFINE h == raw.hi[a[2]]
             s == raw.service[a[2]]
  <2>1. h \in Nat /\ s \in Nat /\ h <= T /\ T + s < Never /\ T \in Nat /\ Never \in Nat  BY <1>2
  <2> HIDE DEF h, s
  <2>2. Never > h /\ Never > T  BY <2>1
  <2> QED BY <2>1, <2>2 DEF h
<1>9. \A t \in Int : Serve(a[2], t) =
         IF t > raw.hi[a[2]] THEN Never
         ELSE (IF raw.lo[a[2]] >= t THEN raw.lo[a[2]] ELSE t) + raw.service[a[2]]
  BY <1>2, ServeIs
<1> HIDE DEF f, g
<1>10. Arrive(f, x) = Serve(a[2], Arrive(g, x))
  <2>1. CASE x \in DOMAIN f
    <3>1. x \in 0..T /\ g[x] <= raw.hi[a[2]] /\ g[x] \in Int  BY <1>2, <1>4, <2>1
    <3>2. ~(g[x] > raw.hi[a[2]])  BY <1>2, <3>1
    <3>3. Serve(a[2], g[x]) = f[x]  BY <1>4, <1>9, <2>1, <3>1, <3>2
    <3> QED BY <1>6, <1>7, <2>1, <3>1, <3>3
  <2>2. CASE x \notin DOMAIN f /\ x \in 0..T
    <3>1. Fits(raw, a[1], x)  BY <1>8, <2>2 DEF Kept
    <3>2. g[x] \in Int /\ raw.hi[a[2]] \in Int /\ ~(g[x] <= raw.hi[a[2]])
      <4>1. g[x] \in Int /\ raw.hi[a[2]] \in Int  BY <1>2, <2>2
      <4>2. ~(g[x] <= raw.hi[a[2]])  BY <1>4, <2>2, <3>1
      <4> QED BY <4>1, <4>2
    <3>3. Serve(a[2], g[x]) = Never
      <4>1. g[x] > raw.hi[a[2]]  BY <3>2
      <4> QED BY <1>9, <3>2, <4>1
    <3> QED BY <1>6, <1>7, <2>2, <3>3
  <2>3. CASE x \notin 0..T
    <3>1. x \notin DOMAIN f  BY <1>4, <2>3
    <3>2. Serve(a[2], Never) = Never  BY <1>2, <1>8, <1>9
    <3> QED BY <1>6, <1>7, <2>3, <3>1, <3>2
  <2> QED BY <2>1, <2>2, <2>3
<1>11. Arrive(f, x) \in Int /\ Kept(Arrive(f, x), raw, a[2])
  BY <1>2, <1>5, <1>7 DEF Kept
<1> QED BY <1>10, <1>11 DEF f, g

LEMMA StepSame ==
  ASSUME Setting, NEW a \in vrp.arcs, NEW x \in Int, Kept(x, Raw[prob.net], a[1])
  PROVE  /\ Arrive(vrp.arr[a], x) = Serve(a[2], Arrive(Raw[prob.net].drive[a], x))
         /\ Arrive(vrp.arr[a], x) \in Int /\ Kept(Arrive(vrp.arr[a], x), Raw[prob.net], a[2])
         /\ Arrive(vrp.arr[a], x) # Never => Linked(vrp, a, x, Arrive(vrp.arr[a], x))
         /\ \A y : Linked(vrp, a, x, y) => y = Arrive(vrp.arr[a], x) /\ y # Never
<1> DEFINE raw == Raw[prob.net]
           f == vrp.arr[a]
<1>1. /\ a \in Arc /\ f = Folded(raw)[a] /\ Drivable(raw, a, f) /\ Never \in Nat
  BY SettingIs DEF Ready, Sane
<1>2. /\ Arrive(f, x) = Serve(a[2], Arrive(raw.drive[a], x))
      /\ Arrive(f, x) \in Int /\ Kept(Arrive(f, x), raw, a[2])
  <2>1. Kept(x, Raw[prob.net], a[1]) /\ x \in Int  OBVIOUS
  <2> QED BY <1>1, <2>1, DriveStep
<1>3. Arrive(f, x) = IF x \in DOMAIN f THEN f[x] ELSE Never
  BY DEF Arrive
<1>4. \A t \in DOMAIN f : f[t] \in Int /\ f[t] < Never
  BY <1>1 DEF Drivable
<1>5. Arrive(f, x) # Never => Linked(vrp, a, x, Arrive(f, x))
  BY <1>3 DEF Linked
<1>6. ASSUME NEW y, Linked(vrp, a, x, y) PROVE y = Arrive(f, x) /\ y # Never
  <2>1. x \in DOMAIN f /\ y = f[x]  BY <1>6 DEF Linked
  <2> HIDE DEF f
  <2>2. y \in Int /\ y < Never  BY <1>4, <2>1
  <2> QED BY <1>1, <1>3, <2>1, <2>2
<1> QED BY <1>2, <1>5, <1>6

LEMMA WalkUnfolds ==
  ASSUME Setting, NEW path \in Seq(Vertex), Len(path) >= 1, Roads(vrp, {}, 0, path), NEW t0 \in Int
  PROVE  \E z \in [1..Len(path) -> Int] :
           /\ z[1] = t0 /\ Walk(path, t0) = z[Len(path)]
           /\ \A i \in 2..Len(path) : z[i] = Arrive(vrp.arr[<<path[i - 1], path[i]>>], z[i - 1])
<1> DEFINE n == Len(path)
           step(i, x) == Arrive(vrp.arr[<<path[i - 1], path[i]>>], x)
           at[i \in 1..Len(path)] ==
             IF i = 1 THEN t0 ELSE Arrive(vrp.arr[<<path[i - 1], path[i]>>], at[i - 1])
           F(z) == z = [i \in 1..Len(path) |->
             IF i = 1 THEN t0 ELSE Arrive(vrp.arr[<<path[i - 1], path[i]>>], z[i - 1])]
           G == [y \in (2..n) \X Int |-> step(y[1], y[2])]
<1>1. n \in Nat /\ n >= 1
  OBVIOUS
<1>2. ASSUME NEW i \in 2..n PROVE <<path[i - 1], path[i]>> \in vrp.arcs
  <2> DEFINE k == i - 1
  <2>1. k \in 1..n - 1 /\ k + 1 = i  BY <1>1
  <2> HIDE DEF k
  <2>2. Way(0, path[k], path[k + 1]) \in vrp.arcs  BY <2>1 DEF Roads
  <2> QED BY <2>1, <2>2 DEF Way, k
<1>3. ASSUME NEW i \in 2..n, NEW x \in Int PROVE step(i, x) \in Int
  <2> DEFINE a == <<path[i - 1], path[i]>>
  <2>1. a \in vrp.arcs  BY <1>2
  <2> HIDE DEF a
  <2>2. Drivable(Raw[prob.net], a, vrp.arr[a]) /\ Never \in Int  BY <2>1, SettingIs DEF Sane
  <2>3. Arrive(vrp.arr[a], x) \in Int  BY <2>2 DEF Arrive, Drivable
  <2> QED BY <2>3 DEF a
<1>4. at = CHOOSE z : F(z)
  BY DEF at, F
<1>5. Walk(path, t0) = at[n]
  BY DEF Walk
<1> HIDE DEF at
<1>6. G \in [(2..n) \X Int -> Int] /\ \A i \in 2..n, x \in Int : G[<<i, x>>] = step(i, x)
  <2> HIDE DEF step, n
  <2>1. \A y \in (2..n) \X Int : step(y[1], y[2]) \in Int  BY <1>3
  <2> QED BY <2>1
<1> HIDE DEF G
<1>7. PICK h : h \in [1..n -> Int] /\ h[1] = t0 /\ \A i \in 2..n : h[i] = G[<<i, h[i - 1]>>]
  <2>1. 1 + 1..n = 2..n  OBVIOUS
  <2> HIDE DEF n
  <2>2. Recursive(1, n, Int, t0, G)  BY <1>1, <1>6, <2>1 DEF Recursive
  <2>3. PICK h : Unrolled(h, 1, n, Int, t0, G)  BY <2>2, Recursion
  <2> QED BY <2>1, <2>3 DEF Unrolled
<1>8. \A i \in 2..n : h[i] = step(i, h[i - 1])
  <2>1. ASSUME NEW i \in 2..n PROVE h[i] = step(i, h[i - 1])
    <3>1. i - 1 \in 1..n  BY <1>1
    <3> HIDE DEF step, n
    <3>2. h[i - 1] \in Int  BY <1>7, <3>1
    <3> QED BY <1>6, <1>7, <3>2
  <2> QED BY <2>1
<1>9. F(h)
  <2>1. \A i \in 1..n : h[i] = IF i = 1 THEN t0 ELSE step(i, h[i - 1])
    <3>1. \A i \in 1..n : i = 1 \/ i \in 2..n  OBVIOUS
    <3> HIDE DEF step, n
    <3> QED BY <1>7, <1>8, <3>1
  <2> QED BY <1>7, <2>1
<1>10. F(at)
  BY <1>4, <1>9
<1>11. at = h
  <2>0. at = [i \in 1..n |-> at[i]] /\ \A i \in 1..n : at[i] = IF i = 1 THEN t0 ELSE step(i, at[i - 1])
    BY <1>10
  <2> HIDE DEF n, step, F
  <2> DEFINE S == {i \in 1..n : at[i] = h[i]}
  <2>1. 1 \in S
    <3>1. 1 \in 1..n  BY <1>1
    <3>2. at[1] = t0  BY <2>0, <3>1
    <3> QED BY <1>7, <3>1, <3>2
  <2>2. ASSUME NEW i \in 1..n - 1, i \in S PROVE i + 1 \in S
    <3> DEFINE k == i + 1
    <3>1. k \in 1..n /\ k # 1 /\ k - 1 = i /\ k \in 2..n  BY <1>1
    <3> HIDE DEF k
    <3>2. at[k] = step(k, at[i]) /\ h[k] = step(k, h[i])  BY <1>8, <2>0, <3>1
    <3>3. at[i] = h[i]  BY <2>2
    <3>4. at[k] = h[k]  BY <3>2, <3>3
    <3> QED BY <3>1, <3>4 DEF k
  <2>3. 1 \in Int /\ n \in Int /\ \A i \in 1..n - 1 : i \in S => i + 1 \in S  BY <1>1, <2>2
  <2> HIDE DEF S
  <2>4. 1..n \subseteq S  BY <2>1, <2>3, Induction
  <2> QED BY <1>7, <2>0, <2>4 DEF S
<1> QED BY <1>5, <1>7, <1>8, <1>11

LEMMA DriveIs ==
  ASSUME NEW raw, Sane(raw), NEW a \in Arc
  PROVE  raw.drive[a] \in [0..T -> Nat] /\ Never \in Int
BY DEF Sane, Proper

LEMMA DrivenParts ==
  ASSUME Setting, NEW path \in Seq(Vertex), Len(path) >= 1, \A i \in 1..Len(path) - 1 : <<path[i], path[i + 1]>> \in Arc, NEW t0 \in Int
  PROVE  \E z \in [1..Len(path) -> Int] :
           /\ z[1] = t0 /\ Driven(path, t0) = z[Len(path)]
           /\ \A i \in 2..Len(path) :
                z[i] = Serve(path[i], Arrive(Raw[prob.net].drive[<<path[i - 1], path[i]>>], z[i - 1]))
<1> DEFINE n == Len(path)
           step(i, x) == Serve(path[i], Arrive(Raw[prob.net].drive[<<path[i - 1], path[i]>>], x))
           at[i \in 1..Len(path)] ==
             IF i = 1 THEN t0 ELSE Serve(path[i], Arrive(Raw[prob.net].drive[<<path[i - 1], path[i]>>], at[i - 1]))
           F(z) == z = [i \in 1..Len(path) |->
             IF i = 1 THEN t0 ELSE Serve(path[i], Arrive(Raw[prob.net].drive[<<path[i - 1], path[i]>>], z[i - 1]))]
           G == [y \in (2..n) \X Int |-> step(y[1], y[2])]
<1>1. n \in Nat /\ n >= 1
  OBVIOUS
<1>2. ASSUME NEW i \in 2..n PROVE <<path[i - 1], path[i]>> \in Arc
  <2> DEFINE k == i - 1
  <2>1. k \in 1..n - 1 /\ k + 1 = i  BY <1>1
  <2> HIDE DEF k
  <2>2. <<path[k], path[k + 1]>> \in Arc  BY <2>1
  <2> QED BY <2>1, <2>2 DEF k
<1>3. ASSUME NEW i \in 2..n, NEW x \in Int PROVE step(i, x) \in Int
  <2> DEFINE a == <<path[i - 1], path[i]>>
             t == Arrive(Raw[prob.net].drive[a], x)
  <2>1. a \in Arc  BY <1>2
  <2>2. path[i] \in Vertex  BY ElementOfSeq
  <2> HIDE DEF a
  <2> DEFINE g == Raw[prob.net].drive[a]
  <2>3. g \in [0..T -> Nat] /\ Never \in Int
    <3>1. a \in Arc /\ Sane(Raw[prob.net])  BY <2>1, SettingIs
    <3> QED BY <3>1, DriveIs
  <2>4. t \in Int
    <3>1. t = Arrive(g, x)  OBVIOUS
    <3> HIDE DEF g, t
    <3> QED BY <2>3, <3>1 DEF Arrive
  <2> HIDE DEF t
  <2>5. Serve(path[i], t) \in Int  BY <2>2, <2>4, ServeIs
  <2> QED BY <2>5 DEF a, t
<1>4. at = CHOOSE z : F(z)
  BY DEF at, F
<1>5. Driven(path, t0) = at[n]
  BY DEF Driven
<1> HIDE DEF at
<1>6. G \in [(2..n) \X Int -> Int] /\ \A i \in 2..n, x \in Int : G[<<i, x>>] = step(i, x)
  <2> HIDE DEF step, n
  <2>1. \A y \in (2..n) \X Int : step(y[1], y[2]) \in Int  BY <1>3
  <2> QED BY <2>1
<1> HIDE DEF G
<1>7. PICK h : h \in [1..n -> Int] /\ h[1] = t0 /\ \A i \in 2..n : h[i] = G[<<i, h[i - 1]>>]
  <2>1. 1 + 1..n = 2..n  OBVIOUS
  <2> HIDE DEF n
  <2>2. Recursive(1, n, Int, t0, G)  BY <1>1, <1>6, <2>1 DEF Recursive
  <2>3. PICK h : Unrolled(h, 1, n, Int, t0, G)  BY <2>2, Recursion
  <2> QED BY <2>1, <2>3 DEF Unrolled
<1>8. \A i \in 2..n : h[i] = step(i, h[i - 1])
  <2>1. ASSUME NEW i \in 2..n PROVE h[i] = step(i, h[i - 1])
    <3>1. i - 1 \in 1..n  BY <1>1
    <3> HIDE DEF step, n
    <3>2. h[i - 1] \in Int  BY <1>7, <3>1
    <3> QED BY <1>6, <1>7, <3>2
  <2> QED BY <2>1
<1>9. F(h)
  <2>1. \A i \in 1..n : h[i] = IF i = 1 THEN t0 ELSE step(i, h[i - 1])
    <3>1. \A i \in 1..n : i = 1 \/ i \in 2..n  OBVIOUS
    <3> HIDE DEF step, n
    <3> QED BY <1>7, <1>8, <3>1
  <2> QED BY <1>7, <2>1
<1>10. F(at)
  BY <1>4, <1>9
<1>11. at = h
  <2>0. at = [i \in 1..n |-> at[i]] /\ \A i \in 1..n : at[i] = IF i = 1 THEN t0 ELSE step(i, at[i - 1])
    BY <1>10
  <2> HIDE DEF n, step, F
  <2> DEFINE S == {i \in 1..n : at[i] = h[i]}
  <2>1. 1 \in S
    <3>1. 1 \in 1..n  BY <1>1
    <3>2. at[1] = t0  BY <2>0, <3>1
    <3> QED BY <1>7, <3>1, <3>2
  <2>2. ASSUME NEW i \in 1..n - 1, i \in S PROVE i + 1 \in S
    <3> DEFINE k == i + 1
    <3>1. k \in 1..n /\ k # 1 /\ k - 1 = i /\ k \in 2..n  BY <1>1
    <3> HIDE DEF k
    <3>2. at[k] = step(k, at[i]) /\ h[k] = step(k, h[i])  BY <1>8, <2>0, <3>1
    <3>3. at[i] = h[i]  BY <2>2
    <3>4. at[k] = h[k]  BY <3>2, <3>3
    <3> QED BY <3>1, <3>4 DEF k
  <2>3. 1 \in Int /\ n \in Int /\ \A i \in 1..n - 1 : i \in S => i + 1 \in S  BY <1>1, <2>2
  <2> HIDE DEF S
  <2>4. 1..n \subseteq S  BY <2>1, <2>3, Induction
  <2> QED BY <1>7, <2>0, <2>4 DEF S
<1> QED BY <1>5, <1>7, <1>8, <1>11

LEMMA DrivenUnfolds ==
  ASSUME Setting, NEW path \in Seq(Vertex), Len(path) >= 1, Roads(vrp, {}, 0, path), NEW t0 \in Int
  PROVE  \E z \in [1..Len(path) -> Int] :
           /\ z[1] = t0 /\ Driven(path, t0) = z[Len(path)]
           /\ \A i \in 2..Len(path) :
                z[i] = Serve(path[i], Arrive(Raw[prob.net].drive[<<path[i - 1], path[i]>>], z[i - 1]))
<1>1. ASSUME NEW i \in 1..Len(path) - 1 PROVE <<path[i], path[i + 1]>> \in Arc
  <2>1. <<path[i], path[i + 1]>> \in vrp.arcs  BY DEF Roads, Way
  <2> QED BY <2>1, SettingIs
<1> QED BY <1>1, DrivenParts

(* A walk that is not stopped is a trip, and each trip is a walk. *)
LEMMA WalkIs ==
  ASSUME Setting, NEW path \in Seq(Vertex), Len(path) >= 1, Roads(vrp, {}, 0, path), path[1] = Start,
         NEW t0 \in vrp.lo[Start]..vrp.hi[Start]
  PROVE  /\ Walk(path, t0) \in Int /\ Driven(path, t0) = Walk(path, t0)
         /\ Walk(path, t0) # Never =>
              \E z : IsTrip(vrp, 0, path, z) /\ z[1] = t0 /\ z[Len(path)] = Walk(path, t0)
         /\ \A z : IsTrip(vrp, 0, path, z) /\ z[1] = t0 =>
              z[Len(path)] = Walk(path, t0) /\ Walk(path, t0) # Never
<1> DEFINE n == Len(path)
           raw == Raw[prob.net]
           arc(i) == <<path[i], path[i + 1]>>
<1>1. n \in Nat /\ n >= 1 /\ 1 \in 1..n /\ n \in 1..n /\ 1 \in Int /\ n \in Int
  OBVIOUS
<1>2. /\ Sane(raw) /\ Ready(raw, vrp)
  BY SettingIs
<1>3. t0 \in Int /\ Fits(raw, Start, t0) /\ t0 < Never
  <2>1. Start \in Vertex /\ Start \notin Customer  BY <1>2, Vertices DEF Sane
  <2>2. /\ vrp.lo[Start] = raw.lo[Start] /\ vrp.hi[Start] = raw.hi[Start] /\ raw.service[Start] = 0
        /\ raw.lo[Start] \in Nat /\ raw.hi[Start] \in Nat /\ raw.hi[Start] <= T
        /\ T + 0 < Never /\ T \in Nat /\ Never \in Nat
    BY <1>2, <2>1 DEF Sane, Ready, Proper
  <2> HIDE DEF raw
  <2> QED BY <2>2 DEF Fits
<1>4. \A i \in 1..n - 1 : arc(i) \in vrp.arcs
  BY DEF Roads, Way
<1>5. PICK h \in [1..n -> Int] :
        /\ h[1] = t0 /\ Walk(path, t0) = h[n]
        /\ \A i \in 2..n : h[i] = Arrive(vrp.arr[<<path[i - 1], path[i]>>], h[i - 1])
  BY WalkUnfolds
<1>6. PICK g \in [1..n -> Int] :
        /\ g[1] = t0 /\ Driven(path, t0) = g[n]
        /\ \A i \in 2..n : g[i] = Serve(path[i], Arrive(raw.drive[<<path[i - 1], path[i]>>], g[i - 1]))
  <2>1. \E z \in [1..Len(path) -> Int] :
          /\ z[1] = t0 /\ Driven(path, t0) = z[Len(path)]
          /\ \A i \in 2..Len(path) :
               z[i] = Serve(path[i], Arrive(Raw[prob.net].drive[<<path[i - 1], path[i]>>], z[i - 1]))
    BY <1>3, DrivenUnfolds
  <2> QED BY <2>1
<1>7. ASSUME NEW i \in 1..n - 1
      PROVE  /\ h[i + 1] = Arrive(vrp.arr[arc(i)], h[i])
             /\ g[i + 1] = Serve(path[i + 1], Arrive(raw.drive[arc(i)], g[i]))
             /\ i \in 1..n /\ i + 1 \in 1..n
  <2> DEFINE k == i + 1
  <2>1. k \in 2..n /\ k - 1 = i  BY <1>1
  <2> HIDE DEF k, n
  <2>2. /\ h[k] = Arrive(vrp.arr[<<path[i], path[k]>>], h[i])
        /\ g[k] = Serve(path[k], Arrive(raw.drive[<<path[i], path[k]>>], g[i]))
    BY <1>5, <1>6, <2>1
  <2>3. i \in 1..n /\ k \in 1..n  BY <1>1, <2>1
  <2> QED BY <2>2, <2>3 DEF k
<1>8. ASSUME NEW i \in 1..n - 1, Kept(h[i], raw, path[i])
      PROVE  /\ h[i + 1] = Serve(path[i + 1], Arrive(raw.drive[arc(i)], h[i]))
             /\ Kept(h[i + 1], raw, path[i + 1])
             /\ h[i + 1] # Never => Linked(vrp, arc(i), h[i], h[i + 1])
             /\ \A y : Linked(vrp, arc(i), h[i], y) => y = h[i + 1] /\ y # Never
  <2> DEFINE a == arc(i)
             x == h[i]
  <2>1. a \in vrp.arcs /\ a[1] = path[i] /\ a[2] = path[i + 1]  BY <1>4
  <2>2. x \in Int /\ h[i + 1] = Arrive(vrp.arr[a], x) /\ Kept(x, raw, path[i])  BY <1>7, <1>8
  <2> HIDE DEF a, x
  <2>3. Kept(x, Raw[prob.net], a[1])  BY <2>1, <2>2
  <2>4. /\ Arrive(vrp.arr[a], x) = Serve(a[2], Arrive(Raw[prob.net].drive[a], x))
        /\ Kept(Arrive(vrp.arr[a], x), Raw[prob.net], a[2])
        /\ Arrive(vrp.arr[a], x) # Never => Linked(vrp, a, x, Arrive(vrp.arr[a], x))
        /\ \A y : Linked(vrp, a, x, y) => y = Arrive(vrp.arr[a], x) /\ y # Never
    BY <2>1, <2>2, <2>3, StepSame
  <2>5. /\ h[i + 1] = Serve(path[i + 1], Arrive(raw.drive[a], x))
        /\ Kept(h[i + 1], raw, path[i + 1])
        /\ h[i + 1] # Never => Linked(vrp, a, x, h[i + 1])
        /\ \A y : Linked(vrp, a, x, y) => y = h[i + 1] /\ y # Never
    BY <2>1, <2>2, <2>4
  <2> QED BY <2>5 DEF a, x
<1> HIDE DEF n, arc, raw
<1> DEFINE P(i) == /\ g[i] = h[i] /\ Kept(h[i], raw, path[i])
                   /\ h[i] # Never => \A j \in 1..i - 1 : Linked(vrp, arc(j), h[j], h[j + 1])
           S == {i \in 1..n : P(i)}
<1>9. 1..n \subseteq S
  <2>1. 1 \in S
    <3>1. 1..1 - 1 = {}  OBVIOUS
    <3>2. Kept(h[1], raw, path[1])  BY <1>3, <1>5 DEF Kept
    <3>3. P(1)  BY <1>5, <1>6, <3>1, <3>2
    <3> HIDE DEF P
    <3> QED BY <1>1, <3>3
  <2>2. ASSUME NEW i \in 1..n - 1, i \in S PROVE i + 1 \in S
    <3>0. P(i)
      <4> HIDE DEF P
      <4> QED BY <2>2
    <3>1. g[i] = h[i] /\ Kept(h[i], raw, path[i])  BY <3>0
    <3>2. g[i + 1] = h[i + 1] /\ Kept(h[i + 1], raw, path[i + 1]) /\ i + 1 \in 1..n
      BY <1>7, <1>8, <3>1
    <3>3. ASSUME h[i + 1] # Never, NEW j \in 1..i + 1 - 1 PROVE Linked(vrp, arc(j), h[j], h[j + 1])
      <4>1. Linked(vrp, arc(i), h[i], h[i + 1])  BY <1>8, <3>1, <3>3
      <4>2. CASE j = i
        BY <4>1, <4>2
      <4>3. CASE j # i
        <5>1. h[i] # Never
          <6>1. arc(i) \in vrp.arcs /\ h[i] \in DOMAIN vrp.arr[arc(i)]  BY <4>1 DEF Linked
          <6>2. Drivable(Raw[prob.net], arc(i), vrp.arr[arc(i)])  BY <6>1, SettingIs
          <6>3. h[i] \in 0..T  BY <6>1, <6>2 DEF Drivable
          <6>4. T < Never /\ T \in Nat /\ Never \in Nat
            <7>1. Start \in Vertex  BY <1>2, Vertices DEF Sane
            <7>2. T + raw.service[Start] < Never /\ raw.service[Start] \in Nat /\ T \in Nat /\ Never \in Nat
              BY <1>2, <7>1 DEF Sane, Proper
            <7> QED BY <7>2
          <6> QED BY <6>3, <6>4
        <5>2. j \in 1..i - 1  BY <1>1, <4>3
        <5> QED BY <3>0, <5>1, <5>2
      <4> QED BY <4>2, <4>3
    <3>4. P(i + 1)  BY <3>2, <3>3
    <3> HIDE DEF P
    <3> QED BY <3>2, <3>4
  <2>3. \A i \in 1..n - 1 : i \in S => i + 1 \in S  BY <2>2
  <2> HIDE DEF S
  <2> QED BY <1>1, <2>1, <2>3, Induction
<1> HIDE DEF P
<1>p. \A i \in 1..n : P(i)
  BY <1>9
<1>q. \A i \in 1..n : g[i] = h[i] /\ Kept(h[i], raw, path[i])
  BY <1>p DEF P
<1>10. g[n] = h[n]
  BY <1>1, <1>q
<1>11. ASSUME h[n] # Never PROVE IsTrip(vrp, 0, path, h)
  <2>1. \A j \in 1..n - 1 : Linked(vrp, arc(j), h[j], h[j + 1])
    <3>1. P(n)  BY <1>1, <1>p
    <3> QED BY <1>11, <3>1 DEF P
  <2>2. \A j \in 1..n - 1 : Hop(vrp, 0, path[j], path[j + 1], h[j], h[j + 1])
    BY <2>1 DEF Hop, arc
  <2> QED BY <2>2 DEF IsTrip, n
<1>12. ASSUME NEW z, IsTrip(vrp, 0, path, z), z[1] = t0 PROVE z[n] = h[n] /\ h[n] # Never
  <2>1. \A j \in 1..n - 1 : Linked(vrp, arc(j), z[j], z[j + 1])
    BY <1>12 DEF IsTrip, Hop, arc, n
  <2> DEFINE R == {i \in 1..n : z[i] = h[i] /\ h[i] # Never}
  <2>2. 1 \in R  BY <1>1, <1>2, <1>3, <1>5, <1>12 DEF Sane
  <2>3. ASSUME NEW i \in 1..n - 1, i \in R PROVE i + 1 \in R
    <3>1. z[i] = h[i] /\ i \in 1..n /\ i + 1 \in 1..n  BY <1>7, <2>3
    <3>2. Linked(vrp, arc(i), h[i], z[i + 1])  BY <2>1, <3>1
    <3>3. Kept(h[i], raw, path[i])  BY <1>q, <3>1
    <3>4. z[i + 1] = h[i + 1] /\ z[i + 1] # Never  BY <1>8, <3>2, <3>3
    <3> QED BY <3>1, <3>4
  <2>4. \A i \in 1..n - 1 : i \in R => i + 1 \in R  BY <2>3
  <2> HIDE DEF R
  <2>5. 1..n \subseteq R  BY <1>1, <2>2, <2>4, Induction
  <2> QED BY <1>1, <2>5 DEF R
<1>13. h[n] \in Int
  BY <1>1
<1> QED BY <1>5, <1>6, <1>10, <1>11, <1>12, <1>13 DEF n

LEMMA PathParts ==
  ASSUME N \in Nat \ {0}, NEW path \in Path
  PROVE  path \in Seq(Vertex) /\ Len(path) >= 3 /\ path[1] = Start
<1>1. PICK p \in UNION {[1..n -> Customer] : n \in 1..N} : path = <<Start>> \o p \o <<End>>
  BY DEF Path
<1>2. PICK n \in 1..N : p \in [1..n -> Customer]
  BY <1>1
<1> DEFINE a == <<Start>>
           b == <<End>>
           c == a \o p
<1>3. /\ a \in Seq(Vertex) /\ Len(a) = 1 /\ a[1] = Start /\ b \in Seq(Vertex) /\ Len(b) = 1
  BY Vertices
<1>4. p \in Seq(Vertex) /\ Len(p) = n /\ n \in Nat /\ n >= 1
  <2>1. p \in [1..n -> Vertex] /\ n \in Nat /\ n >= 1  BY <1>2, Vertices
  <2> QED BY <2>1
<1>5. path = c \o b
  BY <1>1
<1> HIDE DEF a, b
<1>6. /\ c \in Seq(Vertex) /\ Len(c) = Len(a) + Len(p)
      /\ \A i \in 1..Len(a) + Len(p) : c[i] = IF i <= Len(a) THEN a[i] ELSE p[i - Len(a)]
  BY ONLY <1>3, <1>4, ConcatProperties
<1> HIDE DEF c
<1>7. c \in Seq(Vertex) /\ Len(c) = n + 1 /\ c[1] = Start
  <2>1. 1 \in 1..1 + n /\ 1 <= 1  BY <1>4
  <2> QED BY <1>3, <1>4, <1>6, <2>1
<1>8. /\ c \o b \in Seq(Vertex) /\ Len(c \o b) = Len(c) + Len(b)
      /\ \A i \in 1..Len(c) + Len(b) : (c \o b)[i] = IF i <= Len(c) THEN c[i] ELSE b[i - Len(c)]
  BY ONLY <1>3, <1>7, ConcatProperties
<1>9. (c \o b)[1] = Start
  <2>1. 1 \in 1..n + 1 + 1 /\ 1 <= n + 1  BY <1>4
  <2> QED BY <1>3, <1>7, <1>8, <2>1
<1> QED BY <1>3, <1>4, <1>5, <1>7, <1>8, <1>9

(* Both the code's last pass and the checker find the shortest trip of a route that has one. *)
LEMMA CheckedIs ==
  ASSUME Setting, NEW path, Route(prob, vrp, path), Durations(vrp, path) # {}
  PROVE  /\ BestDuration(path) = Checked(path)
         /\ Checked(path) \in Durations(vrp, path) /\ \A c \in Durations(vrp, path) : Checked(path) <= c
         /\ Checked(path) # Never
<1> DEFINE raw == Raw[prob.net]
           n == Len(path)
           window == vrp.lo[Start]..vrp.hi[Start]
           D == Durations(vrp, path)
           W == {Walk(path, t) - t : t \in {x \in window : Walk(path, x) # Never}}
           V == {Driven(path, t) - t : t \in {x \in raw.lo[Start]..raw.hi[Start] : Driven(path, x) # Never}}
<1>1. /\ Sane(raw) /\ Ready(raw, vrp) /\ prob \in Problem
  BY SettingIs DEF Setting
<1>2. /\ path \in Path /\ path \in Seq(Vertex) /\ n >= 3 /\ path[1] = Start
      /\ Roads(vrp, prob.A, 0, path)
  BY <1>1, PathParts DEF Route, Sane
<1>3. Roads(vrp, {}, 0, path) /\ n \in Nat /\ n >= 1
  <2>1. Roads(vrp, {}, 0, path)  BY <1>2 DEF Roads
  <2> QED BY <1>2, <2>1
<1>4. window \subseteq Nat /\ window = raw.lo[Start]..raw.hi[Start] /\ Never \in Nat
  <2>1. Start \in Vertex  BY <1>1, Vertices DEF Sane
  <2> QED BY <1>1, <2>1 DEF Sane, Ready, Proper
<1>5. \A t \in window :
        /\ Walk(path, t) \in Int /\ Driven(path, t) = Walk(path, t)
        /\ Walk(path, t) # Never =>
             \E z : IsTrip(vrp, 0, path, z) /\ z[1] = t /\ z[n] = Walk(path, t)
        /\ \A z : IsTrip(vrp, 0, path, z) /\ z[1] = t => z[n] = Walk(path, t) /\ Walk(path, t) # Never
  BY <1>2, <1>3, WalkIs
<1>6. \A z : IsTrip(vrp, 0, path, z) => z[1] \in Int /\ z[n] \in Int /\ z[1] <= z[n]
  BY <1>2, <1>3, TripForward
<1>7. V = W
  <2> HIDE DEF raw, window
  <2>1. \A t \in window : Driven(path, t) = Walk(path, t)  BY <1>5
  <2> QED BY <1>4, <2>1
<1>8. Checked(path) = Min({Never} \cup V)
  <2>1. Load(path) = Along(Loads(prob), path)  BY DEF Load, Loads, Demand
  <2>2. Along(Loads(prob), path) \in Int  BY <1>1, <1>2, SumFunctions, SumInt
  <2>3. Along(Loads(prob), path) <= raw.room /\ raw.room \in Nat
    BY <1>1 DEF Route, Sane, Proper
  <2>4. ~(Load(path) > raw.room)  BY <2>1, <2>2, <2>3
  <2> QED BY <2>4 DEF Checked
<1>9. BestDuration(path) = Min({Never} \cup W)
  BY DEF BestDuration
<1>10. D \subseteq Nat /\ D # {}
  BY DEF Durations
<1>11. \A c : c \in D <=> c \in Nat /\ \E z : IsTrip(vrp, 0, path, z) /\ z[1] \in window /\ z[n] - z[1] = c
  BY DEF Durations
<1> HIDE DEF D, V, n, window, raw
<1>12. W = D
  <2>1. ASSUME NEW t \in window, Walk(path, t) # Never PROVE Walk(path, t) - t \in D
    <3>1. PICK z : IsTrip(vrp, 0, path, z) /\ z[1] = t /\ z[n] = Walk(path, t)  BY <1>5, <2>1
    <3>2. z[1] \in Int /\ z[n] \in Int /\ z[1] <= z[n]  BY <1>6, <3>1
    <3>3. Walk(path, t) - t = z[n] - z[1] /\ z[n] - z[1] \in Nat  BY <3>1, <3>2
    <3> QED BY <1>11, <3>1, <3>3
  <2>2. ASSUME NEW c \in D PROVE c \in W
    <3>1. PICK z : IsTrip(vrp, 0, path, z) /\ z[1] \in window /\ z[n] - z[1] = c  BY <1>11
    <3> DEFINE t == z[1]
    <3>2. t \in window /\ z[n] = Walk(path, t) /\ Walk(path, t) # Never  BY <1>5, <3>1
    <3>3. c = Walk(path, t) - t  BY <3>1, <3>2
    <3> HIDE DEF t
    <3> QED BY <3>2, <3>3
  <2> QED BY <2>1, <2>2
<1> HIDE DEF W
<1>13. \A c \in D : c < Never
  <2>1. SUFFICES ASSUME NEW c \in D PROVE c < Never  OBVIOUS
  <2>2. PICK z : IsTrip(vrp, 0, path, z) /\ z[1] \in window /\ z[n] - z[1] = c  BY <1>11
  <2> DEFINE i == n - 1
             a == <<path[i], path[i + 1]>>
  <2>3. i \in 1..n - 1 /\ i + 1 = n  BY <1>2, <1>3 DEF n
  <2> HIDE DEF i
  <2>4. Linked(vrp, a, z[i], z[n])
    <3>1. Hop(vrp, 0, path[i], path[i + 1], z[i], z[i + 1])  BY <2>2, <2>3 DEF IsTrip, n
    <3> QED BY <2>3, <3>1 DEF Hop
  <2> HIDE DEF a
  <2>5. a \in vrp.arcs /\ z[i] \in DOMAIN vrp.arr[a] /\ z[n] = vrp.arr[a][z[i]]  BY <2>4 DEF Linked
  <2>6. Drivable(Raw[prob.net], a, vrp.arr[a])  BY <2>5, SettingIs
  <2>7. z[n] \in Int /\ z[n] < Never  BY <2>5, <2>6 DEF Drivable
  <2>8. z[1] \in Nat  BY <1>4, <2>2
  <2> DEFINE x == z[1]
             y == z[n]
  <2>9. x \in Nat /\ y \in Int /\ y < Never /\ y - x = c  BY <2>2, <2>7, <2>8
  <2> HIDE DEF x, y
  <2> QED BY <1>4, <2>9
<1> DEFINE m == Min({Never} \cup D)
<1>14. m \in {Never} \cup D /\ \A c \in {Never} \cup D : m <= c
  <2>1. /\ {Never} \cup D \subseteq Int /\ {Never} \cup D # {} /\ 0 \in Int
        /\ \A c \in {Never} \cup D : 0 <= c
    BY <1>4, <1>10
  <2> QED BY <2>1, MinIs
<1> HIDE DEF m
<1>15. m \in D /\ m # Never
  <2>1. PICK c \in D : TRUE  BY <1>10
  <2>2. m <= c /\ c < Never /\ c \in Nat  BY <1>10, <1>13, <1>14
  <2>3. m \in Int  BY <1>4, <1>10, <1>14
  <2>4. m # Never  BY <1>4, <2>2, <2>3
  <2> QED BY <1>14, <2>4
<1>16. Checked(path) = m /\ BestDuration(path) = m
  BY <1>7, <1>8, <1>9, <1>12 DEF m
<1> QED BY <1>14, <1>15, <1>16 DEF D

-----------------------------------------------------------------------------
(* The pool.  It never holds more than promises, and in the end each has been kept. *)
Pooled ==
  \A r \in pool : Promised(prob, vrp, r) /\ (pc = "done" => r.dur = Checked(r.path))

LEMMA AddedPromised ==
  ASSUME NEW P, NEW C, \A r \in P \cup C : Promised(prob, vrp, r)
  PROVE  \A r \in Added(P, C) : Promised(prob, vrp, r)
<1>1. \A r \in P \cup C : r.dur \in Nat
  BY DEF Promised
<1> QED BY <1>1, AddedIs

LEMMA TriedIs == ASSUME NEW C, NEW F \in Tried(C) PROVE F \subseteq C
  BY DEF Tried

LEMMA TurnPromised ==
  ASSUME Searching, NEW C \in SUBSET Met, NEW r \in C \cup Complete
  PROVE  Promised(prob, vrp, r)
<1>1. /\ Setting /\ dir \in Dir /\ 1 - dir \in Dir
      /\ \A l \in turn : Good(prob, vrp, dir, l)
      /\ \A l \in M[1 - dir] : Good(prob, vrp, 1 - dir, l)
  BY DEF Searching, Searched, Dir
<1>2. CASE r \in C
  <2>1. r \in Met  BY <1>2
  <2>2. \E y \in turn \X M[1 - dir] : At(y[1]) = At(y[2]) /\ r \in Merged(y[1], y[2])
    BY <2>1 DEF Met
  <2>3. PICK l \in turn, m \in M[1 - dir] : At(l) = At(m) /\ r \in Merged(l, m)
    BY <2>2
  <2>4. Good(prob, vrp, dir, l) /\ Good(prob, vrp, 1 - dir, m)  BY <1>1
  <2> QED BY <1>1, <2>3, <2>4, MergedGood
<1>3. CASE r \in Complete
  <2>1. PICK l \in turn : /\ dir = 0 /\ At(l) = End /\ MinCost(l) < 0
                          /\ r = [path |-> l.path, dur |-> Min(Image(l.dur))]
    BY <1>3 DEF Complete
  <2>2. Good(prob, vrp, 0, l)  BY <1>1, <2>1
  <2> QED BY <1>1, <2>1, <2>2, CompleteGood
<1> QED BY <1>2, <1>3

LEMMA CrossingPromised ==
  ASSUME Searching, NEW C \in SUBSET Crossing, NEW r \in C
  PROVE  Promised(prob, vrp, r)
<1>1. /\ Setting /\ 0 \in Dir /\ 1 \in Dir
      /\ \A d \in Dir : \A l \in U[d] : Good(prob, vrp, d, l)
      /\ \A e \in q[0] : e.parent # <<>> => e.parent[1] \in U[0]
  BY DEF Searching, Searched, Waiting, Dir
<1>2. r \in Crossing  OBVIOUS
<1>3. PICK e \in q[0], m \in U[1] :
        e.parent # <<>> /\ At(m) = At(e.parent[1]) /\ r \in Merged(e.parent[1], m)
  BY <1>2 DEF Crossing
<1> DEFINE l == e.parent[1]
<1>4. Good(prob, vrp, 0, l) /\ Good(prob, vrp, 1 - 0, m) /\ At(l) = At(m) /\ r \in Merged(l, m)
  BY <1>1, <1>3
<1> HIDE DEF l
<1> QED BY <1>1, <1>4, MergedGood

LEMMA RepricedIs ==
  ASSUME Setting, NEW r, Promised(prob, vrp, r)
  PROVE  /\ Promised(prob, vrp, [r EXCEPT !.dur = BestDuration(r.path)])
         /\ [r EXCEPT !.dur = BestDuration(r.path)].dur = Checked(r.path)
         /\ [r EXCEPT !.dur = BestDuration(r.path)].path = r.path
<1> DEFINE path == r.path
           c == r.dur
           m == Checked(path)
           s == [r EXCEPT !.dur = BestDuration(path)]
<1>1. /\ r = [path |-> path, dur |-> c] /\ c \in Nat /\ Route(prob, vrp, path)
      /\ Priced(prob, path, c) /\ \E e \in Durations(vrp, path) : e <= c
  BY DEF Promised
<1>2. /\ BestDuration(path) = m /\ m \in Durations(vrp, path)
      /\ \A e \in Durations(vrp, path) : m <= e
  BY <1>1, CheckedIs
<1>3. m \in Nat /\ m <= c
  <2>1. Durations(vrp, path) \subseteq Nat  BY DEF Durations
  <2>2. PICK e \in Durations(vrp, path) : e <= c  BY <1>1
  <2>3. m \in Nat /\ e \in Nat /\ m <= e  BY <1>2, <2>1
  <2> QED BY <1>1, <2>2, <2>3
<1>4. s.path = path /\ s.dur = m /\ s = [path |-> s.path, dur |-> s.dur]
  BY <1>1, <1>2
<1> HIDE DEF path, c, m, s
<1>5. Priced(prob, path, m)
  <2> DEFINE al == Along(Profits(prob), path)
             cc == IF Along(Counts(prob), path) >= 2 THEN prob.sigma ELSE 0
  <2>1. Posed(prob) /\ prob \in Problem /\ N \in Nat \ {0}  BY SettingIs DEF Setting, Sane
  <2>2. al \in Int
    <3>1. path \in Seq(Vertex)  BY <1>1, <2>1, PathParts DEF Route
    <3> QED BY <2>1, <3>1, SumFunctions, SumInt
  <2>3. cc \in Int  BY <2>1 DEF Posed
  <2>4. c - al - cc < 0  BY <1>1 DEF Priced
  <2> HIDE DEF al, cc
  <2>5. m - al - cc < 0  BY <1>1, <1>3, <2>2, <2>3, <2>4
  <2> QED BY <2>5 DEF Priced, al, cc
<1>6. m <= m  BY <1>3
<1>7. Promised(prob, vrp, s)
  BY <1>1, <1>2, <1>3, <1>4, <1>5, <1>6 DEF Promised
<1> QED BY <1>4, <1>7 DEF s, path, m

LEMMA PooledNext ==
  ASSUME Searching, Pooled, [Next]_vars
  PROVE  Pooled'
<1>0. Setting
  BY DEF Searching
<1> DEFINE Same == prob' = prob /\ vrp' = vrp
<1>1. ASSUME Same, pool' = pool, pc' # "done" PROVE Pooled'
  BY <1>1 DEF Pooled
<1>2. ASSUME Same, pc' # "done", \A r \in pool' : Promised(prob, vrp, r) PROVE Pooled'
  BY <1>2 DEF Pooled
<1>3. CASE Skip
  BY <1>1, <1>3 DEF Skip, AfterTurn
<1>4. CASE Stop
  BY <1>1, <1>4 DEF Stop
<1>5. CASE Enter
  BY <1>1, <1>5 DEF Enter
<1>6. CASE Pop
  BY <1>1, <1>6 DEF Pop
<1>7. CASE EndTurn
  <2>1. Same /\ pc' # "done"  BY <1>7 DEF EndTurn, AfterTurn
  <2>2. PICK C \in SUBSET Met : pool' = Added(pool, C \cup Complete)  BY <1>7, TriedIs DEF EndTurn
  <2>3. \A r \in pool \cup (C \cup Complete) : Promised(prob, vrp, r)
    BY TurnPromised DEF Pooled
  <2>4. \A r \in pool' : Promised(prob, vrp, r)
    BY <2>2, <2>3, AddedPromised
  <2> QED BY <1>2, <2>1, <2>4
<1>8. CASE LastArc
  BY <1>1, <1>8 DEF LastArc
<1>9. CASE Cross
  <2>1. Same /\ pc' # "done"  BY <1>9 DEF Cross
  <2>2. PICK C \in SUBSET Crossing : pool' = Added(pool, C)  BY <1>9, TriedIs DEF Cross
  <2>3. \A r \in pool \cup C : Promised(prob, vrp, r)
    BY CrossingPromised DEF Pooled
  <2>4. \A r \in pool' : Promised(prob, vrp, r)
    BY <2>2, <2>3, AddedPromised
  <2> QED BY <1>2, <2>1, <2>4
<1>10. CASE Return
  <2>1. Same /\ pc' = "done"  BY <1>10 DEF Return
  <2>2. pool' \subseteq Repriced  BY <1>10 DEF Return
  <2>3. \A r \in pool : Promised(prob, vrp, r)  BY DEF Pooled
  <2>4. ASSUME NEW s \in Repriced PROVE Promised(prob, vrp, s) /\ s.dur = Checked(s.path)
    <3>1. PICK r \in pool : s = [r EXCEPT !.dur = BestDuration(r.path)]  BY DEF Repriced
    <3>2. Promised(prob, vrp, r)  BY <2>3
    <3> QED BY <1>0, <3>1, <3>2, RepricedIs
  <2>5. \A path : Checked(path)' = Checked(path)
    BY <2>1 DEF Checked, Load, Demand, Driven, Serve
  <2> QED BY <2>1, <2>2, <2>4, <2>5 DEF Pooled
<1>11. CASE Expire
  BY <1>1, <1>11 DEF Expire
<1>12. CASE Done \/ UNCHANGED vars
  <2>1. Same /\ pool' = pool /\ pc' = pc  BY <1>12 DEF Done, vars
  <2>2. \A path : Checked(path)' = Checked(path)
    BY <2>1 DEF Checked, Load, Demand, Driven, Serve
  <2> QED BY <2>1, <2>2 DEF Pooled
<1> QED BY <1>3, <1>4, <1>5, <1>6, <1>7, <1>8, <1>9, <1>10, <1>11, <1>12 DEF Next, Step

LEMMA PoolHolds ==
  ASSUME Searching, Pooled
  PROVE  PoolSound
<1>0. Setting /\ prob \in Problem
  BY DEF Searching, Setting
<1> SUFFICES ASSUME NEW r \in pool
             PROVE  LET real == Checked(r.path) IN
                    /\ r.path \in Path /\ real # Never
                    /\ r.path \notin Using(prob.A)
                    /\ IF pc = "done" THEN r.dur = real ELSE r.dur >= real
                    /\ r.dur - Duals(r.path) - CutCost(InCut(r.path)) < 0
  BY DEF PoolSound
<1> DEFINE path == r.path
           c == r.dur
           m == Checked(path)
<1>1. /\ c \in Nat /\ Route(prob, vrp, path) /\ Priced(prob, path, c)
      /\ \E e \in Durations(vrp, path) : e <= c
      /\ pc = "done" => c = m
  BY DEF Pooled, Promised
<1> HIDE DEF path, c
<1>2. /\ m \in Durations(vrp, path) /\ m # Never /\ \A e \in Durations(vrp, path) : m <= e
  BY <1>0, <1>1, CheckedIs
<1> HIDE DEF m
<1>3. c >= m
  <2>1. Durations(vrp, path) \subseteq Nat  BY DEF Durations
  <2>2. PICK e \in Durations(vrp, path) : e <= c  BY <1>1
  <2>3. m \in Nat /\ e \in Nat /\ m <= e  BY <1>2, <2>1
  <2> QED BY <1>1, <2>2, <2>3
<1>4. path \in Path /\ path \notin Using(prob.A)
  <2>1. path \in Path /\ Roads(vrp, prob.A, 0, path)  BY <1>1 DEF Route
  <2> QED BY <2>1 DEF Roads, Way, Using
<1>5. c - Duals(path) - CutCost(InCut(path)) < 0
  <2>1. Duals(path) = Along(Profits(prob), path)  BY DEF Duals, Profits, Profit
  <2>2. InCut(path) = Along(Counts(prob), path)  BY DEF InCut, Counts, Hits
  <2> QED BY <1>1, <2>1, <2>2 DEF Priced, CutCost
<1> QED BY <1>1, <1>2, <1>3, <1>4, <1>5 DEF path, c, m

(* Whatever the labeling has in its pool, in every state, for every instance and problem,
   is a route over arcs no branch forbids that the checker accepts, and no promise is less
   than the checker's cost or not negative; what it returns is stated at exactly that cost
   (bidirectional_labeling.cpp, Merge and AddSolution). *)
THEOREM PoolIsSound == Spec => []PoolSound
<1>1. Init => Pooled
  BY DEF Init, Pooled
<1>2. Searching /\ Pooled /\ [Next]_vars => Pooled'
  BY PooledNext
<1>3. Searching /\ Pooled => PoolSound
  BY PoolHolds
<1> QED BY <1>1, <1>2, <1>3, SearchingAlways, PTL DEF Spec

-----------------------------------------------------------------------------
(* Dominance, one rival at a time. *)
Trim(l, s) ==
  LET m == CHOOSE m \in s.rest : \A o \in s.rest : ~Before(o, m)
  IN [left |-> IF s.left = {} \/ prob.level = "Cost" THEN {}
               ELSE Survivors([l EXCEPT !.dur = [t \in s.left |-> l.dur[t]]], m),
      rest |-> s.rest \ {m}]

Trims(d, l, g) ==
  LET c == Cardinality(Rivals(d, l)) IN
  /\ g \in [0..c -> [left : SUBSET Rw(l), rest : SUBSET Rivals(d, l)]]
  /\ g[0] = [left |-> Rw(l), rest |-> Rivals(d, l)]
  /\ \A i \in 1..c : g[i] = Trim(l, g[i - 1])
  /\ Left(d, l) = g[c].left

LEMMA RivalsFinite ==
  ASSUME NEW d, NEW l, IsFiniteSet(U[d])
  PROVE  /\ Rivals(d, l) \subseteq U[d] /\ IsFiniteSet(Rivals(d, l))
         /\ Cardinality(Rivals(d, l)) \in Nat
<1>1. Rivals(d, l) \subseteq U[d]  BY DEF Rivals
<1>2. IsFiniteSet(Rivals(d, l))  BY <1>1, FS_Subset
<1> QED BY <1>1, <1>2, FS_CardinalityType

LEMMA LeftUnfolds ==
  ASSUME NEW d, NEW l, l \in Label, IsFiniteSet(U[d])
  PROVE  \E g : Trims(d, l, g)
<1> DEFINE R == Rivals(d, l)
           c == Cardinality(R)
           X == [left : SUBSET Rw(l), rest : SUBSET R]
           first(S) == CHOOSE m \in S : \A o \in S : ~Before(o, m)
           trim(s, m) == [left |-> IF s.left = {} \/ prob.level = "Cost" THEN {}
                                   ELSE Survivors([l EXCEPT !.dur = [t \in s.left |-> l.dur[t]]], m),
                          rest |-> s.rest \ {m}]
           G == [y \in (1..c) \X X |-> Trim(l, y[2])]
           b == [left |-> Rw(l), rest |-> R]
           after[i \in 0..Cardinality(R)] ==
             IF i = 0 THEN {[left |-> Rw(l), rest |-> R]}
             ELSE {trim(s, first(s.rest)) : s \in after[i - 1]}
           F(h) == h = [i \in 0..c |-> IF i = 0 THEN {b} ELSE {trim(s, first(s.rest)) : s \in h[i - 1]}]
<1>0. \A s : Trim(l, s) = trim(s, first(s.rest))
  BY DEF Trim
<1>1. c \in Nat
  BY RivalsFinite
<1>2. ASSUME NEW s \in X PROVE Trim(l, s) \in X
  <2>1. s.left \subseteq Rw(l) /\ s.rest \subseteq R  OBVIOUS
  <2> DEFINE k == [l EXCEPT !.dur = [t \in s.left |-> l.dur[t]]]
             m == first(s.rest)
  <2>2. Rw(k) = s.left  BY DEF Rw, Label
  <2> HIDE DEF k, m
  <2>3. Survivors(k, m) \subseteq Rw(k)  BY DEF Survivors
  <2>4. (IF s.left = {} \/ prob.level = "Cost" THEN {} ELSE Survivors(k, m)) \subseteq Rw(l)
    BY <2>1, <2>2, <2>3
  <2>5. s.rest \ {m} \subseteq R  BY <2>1
  <2>6. Trim(l, s) = [left |-> IF s.left = {} \/ prob.level = "Cost" THEN {} ELSE Survivors(k, m),
                      rest |-> s.rest \ {m}]
    BY DEF Trim, k, m
  <2> QED BY <2>4, <2>5, <2>6
<1>3. Left(d, l) = UNION {s.left : s \in after[c]}
  BY DEF Left
<1>4. after = CHOOSE h : F(h)
  BY DEF after, F
<1> HIDE DEF after, trim, first
<1>5. b \in X
  OBVIOUS
<1>7. /\ G \in [(1..c) \X X -> X] /\ \A i \in 1..c, s \in X : G[<<i, s>>] = Trim(l, s)
  <2> HIDE DEF X, c
  <2>1. \A y \in (1..c) \X X : Trim(l, y[2]) \in X  BY <1>2
  <2> QED BY <2>1
<1> HIDE DEF X, b, G
<1>8. PICK g : Unrolled(g, 0, c, X, b, G)
  <2> HIDE DEF c
  <2>1. 0 + 1..c = 1..c  OBVIOUS
  <2>2. Recursive(0, c, X, b, G)  BY <1>1, <1>5, <1>7, <2>1 DEF Recursive
  <2> QED BY <2>2, Recursion
<1>9. g \in [0..c -> X] /\ g[0] = b /\ \A i \in 1..c : g[i] = G[<<i, g[i - 1]>>]
  <2> HIDE DEF c
  <2> QED BY <1>8 DEF Unrolled
<1>s. \A i \in 1..c : g[i] = Trim(l, g[i - 1])
  <2> HIDE DEF c
  <2> SUFFICES ASSUME NEW i \in 1..c PROVE g[i] = Trim(l, g[i - 1])  OBVIOUS
  <2>1. i - 1 \in 0..c  BY <1>1
  <2> QED BY <1>7, <1>9, <2>1
<1> DEFINE h == [i \in 0..c |-> {g[i]}]
<1>10. F(h)
  <2> HIDE DEF c
  <2>1. ASSUME NEW i \in 0..c, i # 0 PROVE h[i] = {trim(s, first(s.rest)) : s \in h[i - 1]}
    <3>1. i \in 1..c /\ i - 1 \in 0..c  BY <1>1, <2>1
    <3>2. h[i - 1] = {g[i - 1]} /\ h[i] = {g[i]}  BY <3>1
    <3>3. h[i] = {Trim(l, s) : s \in h[i - 1]}  BY <1>s, <3>1, <3>2
    <3> QED BY <1>0, <3>3
  <2>2. 0 \in 0..c  BY <1>1
  <2>4. h[0] = {b}  BY <1>9, <2>2
  <2>5. h = [i \in 0..c |-> h[i]]  OBVIOUS
  <2> HIDE DEF h
  <2>3. \A i \in 0..c : h[i] = IF i = 0 THEN {b} ELSE {trim(s, first(s.rest)) : s \in h[i - 1]}
    BY <2>1, <2>4
  <2> QED BY <2>5, <2>3
<1>11. F(after)
  BY <1>4, <1>10
<1> HIDE DEF c
<1>12. \A i \in 0..c : after[i] = IF i = 0 THEN {b} ELSE {Trim(l, s) : s \in after[i - 1]}
  <2>1. \A i \in 0..c : after[i] = IF i = 0 THEN {b} ELSE {trim(s, first(s.rest)) : s \in after[i - 1]}
    BY <1>11
  <2> HIDE DEF F
  <2>2. \A A : {trim(s, first(s.rest)) : s \in A} = {Trim(l, s) : s \in A}
    BY <1>0
  <2> QED BY <2>1, <2>2
<1> DEFINE Q == {i \in 0..c : after[i] = {g[i]}}
<1>13. 0 \in Q
  <2>1. 0 \in 0..c  BY <1>1
  <2> QED BY <1>9, <1>12, <2>1
<1>14. ASSUME NEW i \in 0..c - 1, i \in Q PROVE i + 1 \in Q
  <2> DEFINE k == i + 1
  <2>1. k \in 0..c /\ k \in 1..c /\ k # 0 /\ k - 1 = i  BY <1>1
  <2> HIDE DEF k
  <2>2. after[k] = {Trim(l, s) : s \in after[i]}  BY <1>12, <2>1
  <2>3. after[i] = {g[i]} /\ g[k] = Trim(l, g[i])  BY <1>14, <1>s, <2>1
  <2> QED BY <2>1, <2>2, <2>3 DEF k
<1>15. \A i \in 0..c - 1 : i \in Q => i + 1 \in Q
  BY <1>14
<1>16. 0 \in Int /\ c \in Int /\ c \in 0..c
  BY <1>1
<1> HIDE DEF Q
<1>17. c \in Q
  BY <1>13, <1>15, <1>16, Induction
<1>18. Left(d, l) = g[c].left
  BY <1>3, <1>17 DEF Q
<1> HIDE DEF R
<1> QED BY <1>9, <1>s, <1>18 DEF Trims, X, b, c, R

(* Of finitely many, one has the least value. *)
LEMMA FiniteLeast ==
  ASSUME NEW S, IsFiniteSet(S), S # {}, NEW f \in [S -> Int]
  PROVE  \E m \in S : \A o \in S : f[m] <= f[o]
<1> DEFINE c == Cardinality(S)
           Least(R) == \E m \in R : \A o \in R : f[m] <= f[o]
           Q == {k \in 0..c : \A R \in SUBSET S : Cardinality(R) = k /\ R # {} => Least(R)}
<1>1. c \in Nat
  BY FS_CardinalityType
<1>2. 0 \in Q
  <2>1. ASSUME NEW R \in SUBSET S, Cardinality(R) = 0 PROVE R = {}
    BY <2>1, FS_Subset, FS_EmptySet
  <2> QED BY <1>1, <2>1
<1>3. ASSUME NEW i \in 0..c - 1, i \in Q PROVE i + 1 \in Q
  <2>1. ASSUME NEW R \in SUBSET S, Cardinality(R) = i + 1, R # {} PROVE Least(R)
    <3>1. PICK x : x \in R  BY <2>1
    <3> DEFINE B == R \ {x}
    <3>2. IsFiniteSet(R)  BY FS_Subset
    <3>3. Cardinality(B) = i
      <4>1. Cardinality(B) = Cardinality(R) - 1  BY <3>1, <3>2, FS_RemoveElement
      <4>2. i \in Int  BY <1>1
      <4> HIDE DEF B
      <4> QED BY <2>1, <4>1, <4>2
    <3>4. CASE B = {}
      <4>1. R = {x} /\ f[x] \in Int  BY <3>1, <3>4
      <4> QED BY <4>1
    <3>5. CASE B # {}
      <4>1. PICK m \in B : \A o \in B : f[m] <= f[o]
        <5>1. B \in SUBSET S  OBVIOUS
        <5> HIDE DEF B
        <5> QED BY <1>3, <3>3, <3>5, <5>1
      <4>2. f[m] \in Int /\ f[x] \in Int /\ \A o \in R : f[o] \in Int /\ (o \in B \/ o = x)
        BY <3>1, <4>1
      <4>3. CASE f[m] <= f[x]  BY <4>1, <4>2, <4>3
      <4>4. CASE f[x] < f[m]  BY <3>1, <4>1, <4>2, <4>4
      <4> QED BY <4>2, <4>3, <4>4
    <3> QED BY <3>4, <3>5
  <2> HIDE DEF Least
  <2>2. i + 1 \in 0..c  BY <1>1
  <2> QED BY <2>1, <2>2
<1>4. \A i \in 0..c - 1 : i \in Q => i + 1 \in Q
  BY <1>3
<1>5. 0 \in Int /\ c \in Int /\ c \in 0..c
  BY <1>1
<1>6. c \in Q
  <2> HIDE DEF Q, c
  <2> QED BY <1>2, <1>4, <1>5, Induction
<1> QED BY <1>6

(* What no rival outdoes is left. *)
LEMMA LeftKeeps ==
  ASSUME NEW d, NEW l, l \in Label, IsFiniteSet(U[d]), prob.level = "Exact",
         \A m \in Rivals(d, l) : m.q \in Int /\ MinCost(m) \in Int,
         NEW t, t \in Rw(l), t \in Int, \A m \in Rivals(d, l) : ~Worse(l, m, t)
  PROVE  t \in Left(d, l)
<1> DEFINE R == Rivals(d, l)
           c == Cardinality(R)
<1>1. R \subseteq U[d] /\ IsFiniteSet(R) /\ c \in Nat
  BY RivalsFinite
<1>2. PICK g : Trims(d, l, g)
  BY LeftUnfolds
<1>3. /\ g \in [0..c -> [left : SUBSET Rw(l), rest : SUBSET R]]
      /\ g[0] = [left |-> Rw(l), rest |-> R]
      /\ \A i \in 1..c : g[i] = Trim(l, g[i - 1])
      /\ Left(d, l) = g[c].left
  BY <1>2 DEF Trims
<1> HIDE DEF R, c
<1>4. ASSUME NEW S, S \subseteq R, S # {} PROVE \E m \in S : \A o \in S : ~Before(o, m)
  <2> DEFINE f == [m \in S |-> m.q]
  <2>0. IsFiniteSet(S) /\ \A m \in S : m.q \in Int /\ MinCost(m) \in Int
    BY <1>1, <1>4, FS_Subset DEF R
  <2>1. f \in [S -> Int] /\ \A m \in S : f[m] = m.q
    BY <2>0
  <2> HIDE DEF f
  <2>2. PICK a \in S : \A o \in S : f[a] <= f[o]
    BY <2>0, <2>1, <1>4, FiniteLeast
  <2> DEFINE K == {m \in S : m.q = a.q}
             g1 == [m \in K |-> MinCost(m)]
  <2>3. K \subseteq S /\ K # {} /\ IsFiniteSet(K)
    BY <2>0, FS_Subset
  <2>4. g1 \in [K -> Int] /\ \A m \in K : g1[m] = MinCost(m)
    BY <2>0
  <2>5. PICK m \in K : \A o \in K : g1[m] <= g1[o]
    <3> HIDE DEF K, g1
    <3> QED BY <2>3, <2>4, FiniteLeast
  <2> HIDE DEF g1
  <2>7. ASSUME NEW o \in S PROVE ~Before(o, m)
    <3>1. a.q <= o.q /\ a.q \in Int /\ o.q \in Int /\ m.q = a.q /\ MinCost(m) \in Int /\ MinCost(o) \in Int
      BY <2>0, <2>1, <2>2
    <3>2. o.q = a.q => MinCost(m) <= MinCost(o)
      BY <2>4, <2>5
    <3> QED BY <3>1, <3>2 DEF Before
  <2> QED BY <2>7
<1> DEFINE Q == {i \in 0..c : t \in g[i].left /\ IsFiniteSet(g[i].rest) /\ Cardinality(g[i].rest) = c - i}
<1>5. 0 \in Q
  <2>1. 0 \in 0..c /\ c - 0 = c  BY <1>1
  <2>2. g[0].left = Rw(l) /\ g[0].rest = R  BY <1>3
  <2> QED BY <1>1, <2>1, <2>2 DEF c
<1>6. ASSUME NEW i \in 0..c - 1, i \in Q PROVE i + 1 \in Q
  <2> DEFINE k == i + 1
             s == g[i]
             m == CHOOSE m \in s.rest : \A o \in s.rest : ~Before(o, m)
             y == [l EXCEPT !.dur = [u \in s.left |-> l.dur[u]]]
  <2>1. k \in 0..c /\ k \in 1..c /\ k - 1 = i /\ i \in 0..c /\ c - i # 0 /\ c - k = (c - i) - 1
    BY <1>1
  <2>2. /\ s.left \subseteq Rw(l) /\ s.rest \subseteq R /\ t \in s.left
        /\ IsFiniteSet(s.rest) /\ Cardinality(s.rest) = c - i
    BY <1>3, <1>6, <2>1
  <2>3. s.rest # {}
    BY <2>1, <2>2, FS_EmptySet
  <2>4. m \in s.rest
    BY <1>4, <2>2, <2>3
  <2>5. g[k] = Trim(l, s)
    BY <1>3, <2>1
  <2>6. Trim(l, s) = [left |-> IF s.left = {} \/ prob.level = "Cost" THEN {} ELSE Survivors(y, m),
                      rest |-> s.rest \ {m}]
    BY DEF Trim
  <2> HIDE DEF k, m
  <2>7. y.dur = [u \in s.left |-> l.dur[u]] /\ y.p = l.p /\ y.n = l.n
    BY DEF Label
  <2> HIDE DEF y, s
  <2>8. Rw(y) = s.left /\ y.dur[t] = l.dur[t] /\ Theta(y, m) = Theta(l, m)
    BY <2>2, <2>7 DEF Rw, Theta
  <2>9. t \in Survivors(y, m)
    <3>1. m \in R  BY <2>2, <2>4
    <3>2. ~Worse(y, m, t)
      <4>1. ~Worse(l, m, t)  BY <3>1 DEF R
      <4> QED BY <4>1, <2>8 DEF Worse
    <3> QED BY <2>2, <2>8, <3>2 DEF Survivors
  <2>10. g[k].left = Survivors(y, m) /\ g[k].rest = s.rest \ {m}
    BY <2>2, <2>5, <2>6
  <2>11. IsFiniteSet(s.rest \ {m}) /\ Cardinality(s.rest \ {m}) = (c - i) - 1
    BY <2>2, <2>4, FS_RemoveElement
  <2>12. k \in Q
    BY <2>1, <2>9, <2>10, <2>11
  <2> QED BY <2>12 DEF k
<1>7. \A i \in 0..c - 1 : i \in Q => i + 1 \in Q
  BY <1>6
<1>8. 0 \in Int /\ c \in Int /\ c \in 0..c
  BY <1>1
<1> HIDE DEF Q
<1>9. c \in Q
  BY <1>5, <1>7, <1>8, Induction
<1> QED BY <1>3, <1>9 DEF Q

-----------------------------------------------------------------------------
(* A course: a route seen from one of its ends, with the times at which one may be at each
   vertex so as to arrive, or to have left, in time. *)
Ideal(C, k) ==
  LET a == SubSeq(C.path, 1, k) IN
  [path |-> a, dur |-> [t \in C.at[k] |-> t - C.from], U |-> Range(a),
   q |-> Along(Loads(prob), a), p |-> Along(Profits(prob), a), n |-> Along(Counts(prob), a)]

(* A label that has come as far along it, no later, and may go on. *)
Covers(C, k, l) ==
  /\ l.path = SubSeq(C.path, 1, k)
  /\ \A t \in C.at[k] : t \in Rw(l) /\ l.dur[t] <= t - C.from
  /\ \A j \in k + 1..Len(C.path) : C.path[j] \notin l.U

Leading(C, k) ==
  /\ Way(C.d, C.path[k], C.path[k + 1]) \notin prob.A
  /\ \A t \in C.at[k + 1] : \E u \in C.at[k] : <<u, t>> \in Legs(C.d, <<C.path[k], C.path[k + 1]>>)
  /\ Along(Loads(prob), SubSeq(C.path, 1, k + 1)) <= Raw[prob.net].room
  /\ C.gate[k] \in Int /\ (\E u \in C.at[k] : u <= C.gate[k])
  /\ C.d = 0 => \A t \in C.at[k + 1] : t <= C.gate[k]

Reached(C, k) ==
  \A j \in k + 1..Len(C.path) :
    /\ vrp.ldt[C.d][C.path[j]][C.path[k]] \in Int
    /\ \E u \in C.at[k] : u <= vrp.ldt[C.d][C.path[j]][C.path[k]]

Unrivalled(C, k) ==
  \A m : /\ Good(prob, vrp, C.d, m) /\ At(m) = C.path[k] /\ m.path # SubSeq(C.path, 1, k)
         /\ m.q <= Ideal(C, k).q /\ \A j \in k + 1..Len(C.path) : C.path[j] \notin m.U
         => \A t \in C.at[k] : ~Worse(Ideal(C, k), m, t)

Undetoured(C, k) ==
  \A l : Good(prob, vrp, C.d, l) /\ Covers(C, k, l) => ~DepotTriangle(C.d, l, C.path[k + 1])

Course(C) ==
  /\ C.d \in Dir /\ C.path \in Seq(Vertex) /\ Len(C.path) >= 3 /\ IsInjective(C.path)
  /\ C.path[1] = From(C.d) /\ C.path[Len(C.path)] = To(C.d)
  /\ C.from \in Int /\ C.at[1] = {C.from} /\ C.from \in OpenAt(C.d, From(C.d))..CloseAt(C.d, From(C.d))
  /\ \A k \in 1..Len(C.path) : C.at[k] # {} /\ C.at[k] \subseteq 0..T /\ Reached(C, k)
  /\ \A k \in 1..Len(C.path) - 1 : Leading(C, k) /\ Unrivalled(C, k) /\ Undetoured(C, k)
  /\ \E t \in C.at[Len(C.path)] :
       t - C.from - Along(Profits(prob), C.path) - CutCost(Along(Counts(prob), C.path)) < 0

LEMMA CutCostInt ==
  ASSUME Setting, NEW n
  PROVE  CutCost(n) \in Int /\ CutCost(n) <= 0
<1>1. prob.sigma \in Int /\ prob.sigma <= 0  BY SettingIs DEF Posed
<1> QED BY <1>1 DEF CutCost

LEMMA MinCostIs ==
  ASSUME Setting, NEW d, NEW l, Good(prob, vrp, d, l)
  PROVE  /\ MinCost(l) \in Int
         /\ \A t \in Rw(l) : MinCost(l) <= l.dur[t] - l.p - CutCost(l.n)
<1>1. Rw(l) = DOMAIN l.dur /\ Rw(l) # {} /\ l.dur \in [Rw(l) -> Nat] /\ l.p \in Int /\ l.n \in Int
  BY LabelTypes
<1> DEFINE S == Image(l.dur)
<1>2. S \subseteq Int /\ S # {} /\ (\A x \in S : 0 <= x) /\ \A t \in Rw(l) : l.dur[t] \in S
  BY <1>1 DEF Image
<1>3. Min(S) \in S /\ \A y \in S : Min(S) <= y
  <2> HIDE DEF S
  <2>1. S \subseteq Int /\ S # {} /\ 0 \in Int /\ \A x \in S : 0 <= x  BY <1>2
  <2> QED BY <2>1, MinIs
<1>4. CutCost(l.n) \in Int
  BY CutCostInt
<1>5. Min(S) \in Int /\ \A t \in Rw(l) : Min(S) <= l.dur[t] /\ l.dur[t] \in Int
  BY <1>2, <1>3
<1> HIDE DEF S
<1>6. MinCost(l) = Min(S) - l.p - CutCost(l.n)
  BY DEF MinCost, S
<1> QED BY <1>1, <1>4, <1>5, <1>6

LEMMA CourseParts ==
  ASSUME Setting, NEW C, Course(C), NEW k \in 1..Len(C.path)
  PROVE  /\ SubSeq(C.path, 1, k) \in Seq(Vertex) /\ Len(SubSeq(C.path, 1, k)) = k
         /\ \A i \in 1..k : SubSeq(C.path, 1, k)[i] = C.path[i]
         /\ C.path[k] \in Vertex /\ C.at[k] \subseteq 0..T /\ C.at[k] # {} /\ T \in Nat
         /\ (k # Len(C.path) => C.path[k] # To(C.d))
         /\ (k # Len(C.path) => /\ k + 1 \in 1..Len(C.path) /\ C.path[k + 1] \in Vertex
                                /\ SubSeq(C.path, 1, k + 1) = Append(SubSeq(C.path, 1, k), C.path[k + 1]))
<1>1. C.path \in Seq(Vertex) /\ Len(C.path) \in Nat /\ k \in 0..Len(C.path) /\ 1 \in 1..Len(C.path) + 1
      /\ C.path[Len(C.path)] = To(C.d) /\ IsInjective(C.path) /\ k \in Int
  BY DEF Course
<1>2. ASSUME NEW j \in 1..Len(C.path)
      PROVE  /\ SubSeq(C.path, 1, j) \in Seq(Vertex) /\ Len(SubSeq(C.path, 1, j)) = j
             /\ \A i \in 1..j : SubSeq(C.path, 1, j)[i] = C.path[i]
  <2>1. j \in 0..Len(C.path) /\ 1 <= j /\ j - 1 + 1 = j  BY <1>1
  <2>2. /\ SubSeq(C.path, 1, j) \in Seq(Vertex)
        /\ Len(SubSeq(C.path, 1, j)) = IF 1 <= j THEN j - 1 + 1 ELSE 0
        /\ \A i \in 1..j - 1 + 1 : SubSeq(C.path, 1, j)[i] = C.path[1 + i - 1]
    BY ONLY <1>1, <2>1, Stretch
  <2>3. \A i \in 1..j : 1 + i - 1 = i  BY <2>1
  <2> QED BY <2>1, <2>2, <2>3
<1>3. C.path[k] \in Vertex /\ C.at[k] \subseteq 0..T /\ C.at[k] # {} /\ T \in Nat
  BY <1>1, ElementOfSeq, SettingIs DEF Course, Sane
<1>4. k # Len(C.path) => C.path[k] # To(C.d)
  <2>1. DOMAIN C.path = 1..Len(C.path) /\ Len(C.path) \in 1..Len(C.path)  BY <1>1
  <2> QED BY <1>1, <2>1 DEF IsInjective
<1>5. ASSUME k # Len(C.path)
      PROVE  /\ k + 1 \in 1..Len(C.path) /\ C.path[k + 1] \in Vertex
             /\ SubSeq(C.path, 1, k + 1) = Append(SubSeq(C.path, 1, k), C.path[k + 1])
  <2>1. k + 1 \in 1..Len(C.path)  BY <1>1, <1>5
  <2>2. C.path[k + 1] \in Vertex  BY <1>1, <2>1, ElementOfSeq
  <2> DEFINE a == SubSeq(C.path, 1, k)
             b == SubSeq(C.path, 1, k + 1)
             v == C.path[k + 1]
  <2>3. /\ a \in Seq(Vertex) /\ Len(a) = k /\ \A i \in 1..k : a[i] = C.path[i]  BY <1>2
  <2>4. /\ b \in Seq(Vertex) /\ Len(b) = k + 1 /\ \A i \in 1..k + 1 : b[i] = C.path[i]  BY <1>2, <2>1
  <2> HIDE DEF a, b
  <2>5. /\ Append(a, v) \in Seq(Vertex) /\ Len(Append(a, v)) = k + 1
        /\ \A i \in 1..k + 1 : Append(a, v)[i] = IF i <= k THEN a[i] ELSE v
    BY <2>2, <2>3, <1>1
  <2>6. \A i \in 1..k + 1 : Append(a, v)[i] = b[i]
    <3> SUFFICES ASSUME NEW i \in 1..k + 1 PROVE Append(a, v)[i] = b[i]  OBVIOUS
    <3>1. i \in 1..k \/ i = k + 1  BY <1>1
    <3>2. i \in 1..k => i <= k  BY <1>1
    <3>3. ~(k + 1 <= k)  BY <1>1
    <3> QED BY <2>3, <2>4, <2>5, <3>1, <3>2, <3>3
  <2>7. Append(a, v) = b
    BY <2>4, <2>5, <2>6, SeqEqual
  <2> QED BY <2>1, <2>2, <2>7 DEF a, b
<1> QED BY <1>2, <1>3, <1>4, <1>5

(* The reachable set of a completed label. *)
LEMMA StillReached ==
  ASSUME Setting, NEW C, Course(C), NEW k \in 1..Len(C.path), NEW S, S \subseteq 0..T,
         C.at[k] \subseteq S, NEW j \in k + 1..Len(C.path)
  PROVE  C.path[j] \notin Range(SubSeq(C.path, 1, k)) \cup Unreachable(C.d, C.path[k], Min(S))
<1>1. PICK u \in C.at[k] : vrp.ldt[C.d][C.path[j]][C.path[k]] \in Int /\ u <= vrp.ldt[C.d][C.path[j]][C.path[k]]
  BY DEF Course, Reached
<1>2. u \in S /\ S \subseteq Int /\ 0 \in Int /\ (\A x \in S : 0 <= x) /\ T \in Nat
  BY <1>1, CourseParts
<1>3. Min(S) \in S /\ Min(S) <= u
  BY <1>2, MinIs
<1>4. C.path[j] \notin Unreachable(C.d, C.path[k], Min(S))
  <2>1. Min(S) \in Int /\ u \in Int  BY <1>2, <1>3
  <2>2. ~(Min(S) > vrp.ldt[C.d][C.path[j]][C.path[k]])  BY <1>1, <1>3, <2>1
  <2> QED BY <2>2 DEF Unreachable
<1>5. C.path[j] \notin Range(SubSeq(C.path, 1, k))
  <2> DEFINE a == SubSeq(C.path, 1, k)
  <2>1. a \in Seq(Vertex) /\ Len(a) = k /\ \A i \in 1..k : a[i] = C.path[i]  BY CourseParts
  <2>2. DOMAIN C.path = 1..Len(C.path) /\ IsInjective(C.path) /\ Len(C.path) \in Nat  BY DEF Course
  <2> HIDE DEF a
  <2>3. DOMAIN a = 1..k  BY <2>1
  <2>4. \A i \in 1..k : C.path[i] # C.path[j]
    <3>1. j \in 1..Len(C.path) /\ \A i \in 1..k : i \in 1..Len(C.path) /\ i # j  BY <2>2
    <3> QED BY <2>2, <3>1 DEF IsInjective
  <2>5. C.path[j] \notin Range(a)  BY <2>1, <2>3, <2>4 DEF Range
  <2> QED BY <2>5 DEF a
<1> QED BY <1>4, <1>5

LEMMA CoverRooted ==
  ASSUME Setting, tm[0] \in 0..T, NEW C, Course(C), C.d = 0 => C.from <= tm[0]
  PROVE  \E x : Rooted(C.d) = {x} /\ Covers(C, 1, x)
<1> DEFINE d == C.d
           v == From(d)
           times == {t \in OpenAt(d, v)..CloseAt(d, v) : d = 0 => t <= tm[0]}
           x == [path |-> <<v>>, dur |-> [t \in times |-> 0],
                 U |-> {v} \cup Unreachable(d, v, Min(times)), q |-> 0, p |-> 0, n |-> 0]
<1>1. d \in Dir /\ C.path \in Seq(Vertex) /\ 1 \in 1..Len(C.path) /\ C.path[1] = v
      /\ C.from \in Int /\ C.at[1] = {C.from} /\ C.from \in OpenAt(d, v)..CloseAt(d, v)
  BY DEF Course
<1>2. C.from \in times
  BY <1>1
<1>3. Rooted(d) = {x}
  BY <1>2 DEF Rooted
<1>4. Good(prob, vrp, d, x)
  <2> HIDE DEF x
  <2> QED BY <1>1, <1>3, RootGood
<1>5. x.path = <<v>> /\ x.dur = [t \in times |-> 0] /\ x.U = {v} \cup Unreachable(d, v, Min(times))
  OBVIOUS
<1> HIDE DEF x
<1>6. SubSeq(C.path, 1, 1) = <<v>> /\ Range(SubSeq(C.path, 1, 1)) = {v}
  <2> DEFINE a == SubSeq(C.path, 1, 1)
  <2>1. a \in Seq(Vertex) /\ Len(a) = 1 /\ a[1] = v
    <3>1. 1 \in 1..1  OBVIOUS
    <3> QED BY <1>1, <3>1, CourseParts
  <2> HIDE DEF a
  <2>2. a = <<v>> /\ DOMAIN a = {1}  BY <2>1
  <2> QED BY <2>1, <2>2 DEF Range, a
<1>7. Rw(x) = times /\ times \subseteq 0..T
  BY <1>4, <1>5, LabelTypes
<1>8. \A t \in C.at[1] : t \in Rw(x) /\ x.dur[t] <= t - C.from
  <2>1. \A t \in C.at[1] : t = C.from  BY <1>1
  <2>2. x.dur[C.from] = 0 /\ 0 <= C.from - C.from  BY <1>1, <1>2, <1>5
  <2> QED BY <1>2, <1>7, <2>1, <2>2
<1>9. \A j \in 1 + 1..Len(C.path) : C.path[j] \notin x.U
  <2> SUFFICES ASSUME NEW j \in 1 + 1..Len(C.path) PROVE C.path[j] \notin x.U  OBVIOUS
  <2>1. C.at[1] \subseteq times  BY <1>1, <1>2
  <2> HIDE DEF times
  <2>2. C.path[j] \notin Range(SubSeq(C.path, 1, 1)) \cup Unreachable(C.d, C.path[1], Min(times))
    BY <1>1, <1>7, <2>1, StillReached
  <2> QED BY <1>1, <1>5, <1>6, <2>2
<1> QED BY <1>3, <1>5, <1>6, <1>8, <1>9 DEF Covers

(* The next stop: the label that is completed is one that covers it. *)
LEMMA CoverExtended ==
  ASSUME Setting, tm[0] \in 0..T, NEW C, Course(C), NEW k \in 1..Len(C.path) - 1,
         NEW l, Good(prob, vrp, C.d, l), Covers(C, k, l), C.d = 0 => C.gate[k] <= tm[0]
  PROVE  \E x : Extended(C.d, l, C.path[k + 1]) = {x} /\ Good(prob, vrp, C.d, x) /\ Covers(C, k + 1, x)
<1> DEFINE d == C.d
           v == C.path[k + 1]
           u == At(l)
           legs == {e \in Legs(d, <<u, v>>) : e[1] \in Rw(l) /\ (d = 0 => e[2] <= tm[0])}
           path == Append(l.path, v)
           of(t) == {l.dur[e[1]] + t - e[1] : e \in {y \in legs : y[2] = t}}
           dur == [t \in Arrivals(legs) |-> Min(of(t))]
           x == [path |-> path, dur |-> dur,
                 U |-> Range(path) \cup Unreachable(d, v, Min(Arrivals(legs))),
                 q |-> l.q + Demand(v), p |-> l.p + Profit(v), n |-> l.n + Hits(v)]
<1>0. Len(C.path) \in Nat /\ k \in 1..Len(C.path) /\ k # Len(C.path) /\ k + 1 \in 1..Len(C.path)
      /\ d \in Dir /\ C.from \in Int
  BY DEF Course
<1>1. /\ v \in Vertex /\ T \in Nat /\ SubSeq(C.path, 1, k + 1) = Append(SubSeq(C.path, 1, k), v)
      /\ C.at[k + 1] \subseteq 0..T /\ C.at[k + 1] # {} /\ C.at[k] \subseteq 0..T
  BY <1>0, CourseParts
<1>2. u = C.path[k] /\ l.path = SubSeq(C.path, 1, k)
  <2>1. l.path = SubSeq(C.path, 1, k)  BY DEF Covers
  <2>2. Len(l.path) = k /\ l.path[k] = C.path[k]  BY <1>0, <2>1, CourseParts
  <2>3. u = l.path[Len(l.path)]  BY LabelTypes
  <2> QED BY <2>1, <2>2, <2>3
<1>3. Leading(C, k) /\ Undetoured(C, k)
  BY DEF Course
<1>4. ~DepotTriangle(d, l, v)
  BY <1>3 DEF Undetoured
<1>5. \A e \in legs : /\ e[1] \in 0..T /\ e[2] \in 0..T /\ e[1] <= e[2] /\ l.dur[e[1]] \in Nat
  BY <1>0, <1>1, LegsOf
<1>6. ASSUME NEW t \in C.at[k + 1]
      PROVE  \E e \in legs : e[2] = t /\ l.dur[e[1]] + t - e[1] <= t - C.from
  <2>1. PICK w \in C.at[k] : <<w, t>> \in Legs(d, <<C.path[k], v>>)
    BY <1>3 DEF Leading
  <2> DEFINE e == <<w, t>>
  <2>2. w \in Rw(l) /\ l.dur[w] <= w - C.from  BY DEF Covers
  <2>3. e \in Legs(d, <<u, v>>) /\ e[1] = w /\ e[2] = t  BY <1>2, <2>1
  <2>4. ASSUME d = 0 PROVE t <= tm[0]
    <3>1. t <= C.gate[k] /\ C.gate[k] \in Int /\ C.gate[k] <= tm[0]  BY <1>3, <2>4 DEF Leading
    <3>2. t \in Int /\ tm[0] \in Int  BY <1>1
    <3> QED BY <3>1, <3>2
  <2>5. e \in legs  BY <2>2, <2>3, <2>4
  <2>6. l.dur[w] \in Nat /\ w \in Int /\ t \in Int  BY <1>1, <1>5, <2>3, <2>5
  <2>7. l.dur[w] + t - w <= t - C.from  BY <1>0, <2>2, <2>6
  <2> HIDE DEF legs
  <2> QED BY <2>3, <2>5, <2>7
<1>7. legs # {} /\ C.at[k + 1] \subseteq Arrivals(legs)
  <2> HIDE DEF legs
  <2>1. \A t \in C.at[k + 1] : \E e \in legs : e[2] = t  BY <1>6
  <2> QED BY <1>1, <2>1 DEF Arrivals
<1>8. Extended(d, l, v) = {x}
  BY <1>4, <1>7 DEF Extended
<1>9. Good(prob, vrp, d, x)
  <2>1. v \notin l.U
    <3>1. k + 1 \in k + 1..Len(C.path)  BY <1>0
    <3> QED BY <3>1 DEF Covers
  <2>2. Way(d, u, v) \notin prob.A  BY <1>2, <1>3 DEF Leading
  <2>3. l.q + Demand(v) <= Raw[prob.net].room
    <3>1. Along(Loads(prob), Append(l.path, v)) <= Raw[prob.net].room
      BY <1>1, <1>2, <1>3 DEF Leading
    <3>2. Loads(prob) \in [Vertex -> Int] /\ Loads(prob)[v] = Demand(v)
      BY <1>1, SumFunctions DEF Setting, Loads, Demand
    <3>3. l.path \in Seq(Vertex)  BY LabelTypes
    <3>4. Along(Loads(prob), Append(l.path, v)) = Along(Loads(prob), l.path) + Loads(prob)[v]
      BY <1>1, <3>2, <3>3, SumAppend
    <3>5. l.q = Along(Loads(prob), l.path)  BY DEF Good, Shaped
    <3> QED BY <3>1, <3>2, <3>4, <3>5
  <2>4. x \in Extended(d, l, v)  BY <1>8
  <2> HIDE DEF x
  <2> QED BY <1>0, <1>1, <2>1, <2>2, <2>3, <2>4, ExtendedGood
<1> HIDE DEF legs
<1>10. x.path = path /\ x.dur = dur /\ x.U = Range(path) \cup Unreachable(d, v, Min(Arrivals(legs)))
  OBVIOUS
<1>11. \A t \in C.at[k + 1] : t \in Arrivals(legs) /\ Min(of(t)) <= t - C.from
  <2> SUFFICES ASSUME NEW t \in C.at[k + 1] PROVE t \in Arrivals(legs) /\ Min(of(t)) <= t - C.from
    OBVIOUS
  <2>1. PICK e \in legs : e[2] = t /\ l.dur[e[1]] + t - e[1] <= t - C.from  BY <1>6
  <2>2. l.dur[e[1]] + t - e[1] \in of(t)  BY <2>1
  <2>3. \A z \in of(t) : z \in Int /\ 0 <= z
    <3>1. ASSUME NEW e1 \in legs, e1[2] = t
          PROVE  l.dur[e1[1]] + t - e1[1] \in Int /\ 0 <= l.dur[e1[1]] + t - e1[1]
      <4>1. e1[1] \in 0..T /\ t \in 0..T /\ l.dur[e1[1]] \in Nat /\ e1[1] <= t  BY <1>5, <3>1
      <4> QED BY <4>1, <1>1
    <3> QED BY <3>1
  <2>4. of(t) \subseteq Int /\ of(t) # {} /\ 0 \in Int /\ \A z \in of(t) : 0 <= z  BY <2>2, <2>3
  <2> DEFINE a == l.dur[e[1]] + t - e[1]
  <2>5. a \in of(t) /\ a <= t - C.from  BY <2>1, <2>2
  <2> HIDE DEF of, a
  <2>6. Min(of(t)) \in of(t) /\ Min(of(t)) <= a  BY <2>4, <2>5, MinIs
  <2>7. Min(of(t)) \in Int /\ a \in Int /\ t \in Int /\ t - C.from \in Int
    BY <1>0, <1>1, <2>4, <2>5, <2>6
  <2>8. Min(of(t)) <= t - C.from  BY <2>5, <2>6, <2>7
  <2> QED BY <1>7, <2>8
<1>12. Rw(x) = Arrivals(legs) /\ \A t \in Arrivals(legs) : x.dur[t] = Min(of(t))
  <2>1. DOMAIN dur = Arrivals(legs) /\ \A t \in Arrivals(legs) : dur[t] = Min(of(t))  OBVIOUS
  <2> HIDE DEF dur, x, of
  <2> QED BY <1>10, <2>1 DEF Rw
<1>13. \A j \in (k + 1) + 1..Len(C.path) : C.path[j] \notin x.U
  <2> SUFFICES ASSUME NEW j \in (k + 1) + 1..Len(C.path) PROVE C.path[j] \notin x.U  OBVIOUS
  <2>1. Arrivals(legs) \subseteq 0..T  BY <1>5 DEF Arrivals
  <2>2. C.path[j] \notin Range(SubSeq(C.path, 1, k + 1)) \cup Unreachable(C.d, C.path[k + 1], Min(Arrivals(legs)))
    BY <1>0, <1>7, <2>1, StillReached
  <2> HIDE DEF x
  <2> QED BY <1>1, <1>2, <1>10, <2>2
<1> HIDE DEF x, of
<1>14. x.path = SubSeq(C.path, 1, k + 1)
  BY <1>1, <1>2, <1>10
<1>15. Covers(C, k + 1, x)
  BY <1>11, <1>12, <1>13, <1>14 DEF Covers
<1> QED BY <1>8, <1>9, <1>15

(* The cost of a label that covers a course falls with its duration only. *)
LEMMA CoverSums ==
  ASSUME NEW C, NEW k, NEW l, Good(prob, vrp, C.d, l), Covers(C, k, l)
  PROVE  l.path = Ideal(C, k).path /\ l.q = Ideal(C, k).q /\ l.p = Ideal(C, k).p /\ l.n = Ideal(C, k).n
BY DEF Good, Shaped, Covers, Ideal

(* What a rival does to a label that covers a course it would do to the ideal one. *)
LEMMA CoverWorse ==
  ASSUME Setting, NEW C, Course(C), NEW k \in 1..Len(C.path), NEW l, Good(prob, vrp, C.d, l),
         Covers(C, k, l), NEW m, Good(prob, vrp, C.d, m), NEW t \in C.at[k], Worse(l, m, t)
  PROVE  Worse(Ideal(C, k), m, t)
<1> DEFINE i == Ideal(C, k)
           end == Max(Rw(m))
<1>1. i.p = l.p /\ i.n = l.n /\ i.dur = [s \in C.at[k] |-> s - C.from]
  BY CoverSums DEF Ideal
<1>2. i.dur[t] = t - C.from
  BY <1>1
<1>3. l.dur[t] <= t - C.from /\ t \in Rw(l)
  BY DEF Covers
<1>4. /\ l.dur[t] \in Int /\ l.p \in Int /\ m.p \in Int
      /\ Rw(m) \subseteq 0..T /\ Rw(m) # {} /\ m.dur \in [Rw(m) -> Nat]
  BY <1>3, LabelTypes
<1>5. T \in Nat /\ t \in Int /\ C.from \in Int
  <2>1. C.from \in Int  BY DEF Course
  <2>2. C.at[k] \subseteq 0..T /\ T \in Nat  BY CourseParts
  <2> QED BY <2>1, <2>2
<1>6. Theta(i, m) = Theta(l, m)
  BY <1>1 DEF Theta
<1>7. Theta(l, m) \in Int
  <2>1. CutCost(l.n) \in Int /\ CutCost(m.n) \in Int /\ prob.sigma \in Int
    BY CutCostInt, SettingIs DEF Posed
  <2> DEFINE e == IF m.n = 1 /\ l.n # 1 THEN prob.sigma ELSE 0
  <2>2. e \in Int  BY <2>1
  <2>3. Theta(l, m) = l.p + CutCost(l.n) - m.p - CutCost(m.n) - e  BY DEF Theta
  <2> HIDE DEF e
  <2> QED BY <1>4, <2>1, <2>2, <2>3
<1>8. end \in Rw(m) /\ end \in Int /\ m.dur[end] \in Int
  <2>1. Rw(m) \subseteq Int /\ Rw(m) # {} /\ T \in Int /\ \A x \in Rw(m) : x <= T  BY <1>4, <1>5
  <2>2. end \in Rw(m)  BY <2>1, MaxIs
  <2> QED BY <1>4, <2>1, <2>2
<1> HIDE DEF i, end
<1> DEFINE a == l.dur[t]
           c == i.dur[t]
           h == Theta(l, m)
           s == t - C.from
<1>t. a \in Int /\ c = s /\ s \in Int /\ a <= s /\ h \in Int /\ Theta(i, m) = h
  BY <1>2, <1>3, <1>4, <1>5, <1>6, <1>7
<1> HIDE DEF a, c, h, s
<1>9. CASE t \in Rw(m) /\ l.dur[t] >= m.dur[t] + Theta(l, m)
  <2>1. m.dur[t] \in Int  BY <1>4, <1>9
  <2> DEFINE b == m.dur[t]
  <2>3. a >= b + h /\ b \in Int  BY <1>9, <2>1 DEF a, h
  <2>4. c >= b + h
    <3> HIDE DEF b
    <3> QED BY <1>t, <2>3
  <2>2. i.dur[t] >= m.dur[t] + Theta(i, m)  BY <1>t, <2>4 DEF c
  <2> QED BY <1>9, <2>2 DEF Worse, i
<1>10. CASE t > end /\ l.dur[t] >= m.dur[end] + (t - end) + Theta(l, m)
  <2> DEFINE b == m.dur[end] + (t - end)
  <2>3. b \in Int
    <3> DEFINE b1 == m.dur[end]
    <3>1. b1 \in Int /\ b = b1 + (t - end)  BY <1>8
    <3> HIDE DEF b1, b
    <3> QED BY <1>5, <1>8, <3>1
  <2>4. a >= b + h  BY <1>10 DEF a, h
  <2>5. c >= b + h
    <3> HIDE DEF b
    <3> QED BY <1>t, <2>3, <2>4
  <2>1. i.dur[t] >= m.dur[end] + (t - end) + Theta(i, m)
    BY <1>t, <2>5 DEF c
  <2> QED BY <1>10, <2>1 DEF Worse, i, end
<1> QED BY <1>9, <1>10 DEF Worse, end

LEMMA CoverKept ==
  ASSUME Setting, NEW C, Course(C), NEW k \in 1..Len(C.path), NEW x, Good(prob, vrp, C.d, x),
         Covers(C, k, x), IsFiniteSet(U[C.d]), prob.level = "Exact",
         \A m \in U[C.d] : Good(prob, vrp, C.d, m) /\ m.path # x.path
  PROVE  \E z \in Undominated(C.d, x) : Covers(C, k, z)
<1> DEFINE d == C.d
           S == Left(d, x)
           z == [x EXCEPT !.dur = [t \in S |-> x.dur[t]]]
<1>0. C.at[k] \subseteq 0..T /\ C.at[k] # {} /\ T \in Nat /\ x.path = SubSeq(C.path, 1, k)
      /\ Len(SubSeq(C.path, 1, k)) = k /\ SubSeq(C.path, 1, k)[k] = C.path[k]
      /\ Len(C.path) \in Nat /\ C.path[Len(C.path)] = To(d) /\ C.from \in Int
  <2>1. Len(C.path) \in Nat /\ C.path[Len(C.path)] = To(d) /\ C.from \in Int  BY DEF Course
  <2>2. x.path = SubSeq(C.path, 1, k)  BY DEF Covers
  <2>3. k \in 1..k  BY <2>1
  <2>4. C.at[k] \subseteq 0..T /\ C.at[k] # {} /\ T \in Nat /\ Len(SubSeq(C.path, 1, k)) = k
        /\ \A j \in 1..k : SubSeq(C.path, 1, k)[j] = C.path[j]
    BY CourseParts
  <2> QED BY <2>1, <2>2, <2>3, <2>4
<1>1. x \in Label /\ Rw(x) = DOMAIN x.dur /\ At(x) = C.path[k] /\ x.p \in Int /\ x.dur \in [Rw(x) -> Nat]
  BY <1>0, LabelTypes
<1>2. CASE k = Len(C.path)
  <2>1. At(x) = To(d)  BY <1>0, <1>1, <1>2
  <2>2. PICK t \in C.at[k] :
          t - C.from - Along(Profits(prob), C.path) - CutCost(Along(Counts(prob), C.path)) < 0
    BY <1>2 DEF Course
  <2>3. SubSeq(C.path, 1, k) = C.path
    <3>1. C.path \in Seq(Vertex)  BY DEF Course
    <3>2. /\ SubSeq(C.path, 1, k) \in Seq(Vertex) /\ Len(SubSeq(C.path, 1, k)) = k
          /\ \A i \in 1..k : SubSeq(C.path, 1, k)[i] = C.path[i]
      BY CourseParts
    <3> QED BY <1>2, <3>1, <3>2, SeqEqual
  <2>4. x.p = Along(Profits(prob), C.path) /\ x.n = Along(Counts(prob), C.path)
    BY <2>3, <1>0 DEF Good, Shaped
  <2>5. MinCost(x) <= x.dur[t] - x.p - CutCost(x.n) /\ MinCost(x) \in Int
        /\ x.dur[t] <= t - C.from /\ x.dur[t] \in Int /\ t \in Int
    BY <1>0, <1>1, MinCostIs DEF Covers
  <2>6. CutCost(x.n) \in Int  BY CutCostInt
  <2>7. MinCost(x) < 0
    BY <1>0, <1>1, <2>2, <2>4, <2>5, <2>6
  <2>8. x \in Undominated(d, x)  BY <2>1, <2>7 DEF Undominated
  <2> QED BY <2>8
<1>3. CASE k # Len(C.path)
  <2>1. At(x) # To(d)  BY <1>1, <1>3, CourseParts
  <2>2. ASSUME NEW t \in C.at[k] PROVE t \in S
    <3>1. t \in Rw(x) /\ t \in Int  BY <1>0 DEF Covers
    <3>2. \A m \in Rivals(d, x) : m.q \in Int /\ MinCost(m) \in Int
      <4>1. \A m \in Rivals(d, x) : Good(prob, vrp, d, m)  BY DEF Rivals
      <4> QED BY <4>1, LabelTypes, MinCostIs
    <3>3. ASSUME NEW m \in Rivals(d, x) PROVE ~Worse(x, m, t)
      <4>1. /\ m \in U[d] /\ At(m) = At(x) /\ m.q <= x.q /\ m.U \subseteq x.U
        BY DEF Rivals
      <4>2. Good(prob, vrp, d, m) /\ m.path # x.path  BY <4>1
      <4>3. k \in 1..Len(C.path) - 1  BY <1>0, <1>3
      <4>4. Unrivalled(C, k)  BY <4>3 DEF Course
      <4>5. m.q <= Ideal(C, k).q /\ At(m) = C.path[k] /\ m.path # SubSeq(C.path, 1, k)
        BY <1>0, <1>1, <4>1, <4>2, CoverSums
      <4>6. \A j \in k + 1..Len(C.path) : C.path[j] \notin m.U  BY <4>1 DEF Covers
      <4>7. ~Worse(Ideal(C, k), m, t)  BY <4>2, <4>4, <4>5, <4>6 DEF Unrivalled
      <4> QED BY <4>2, <4>7, CoverWorse
    <3> QED BY <1>1, <3>1, <3>2, <3>3, LeftKeeps
  <2>3. S # {}  BY <1>0, <2>2
  <2>4. Undominated(d, x) = {z}  BY <2>1, <2>3 DEF Undominated
  <2> HIDE DEF S
  <2>5. z.path = x.path /\ z.U = x.U /\ z.dur = [t \in S |-> x.dur[t]]  BY <1>1 DEF Label
  <2> HIDE DEF z
  <2>6. Rw(z) = S /\ \A t \in S : z.dur[t] = x.dur[t]  BY <2>5 DEF Rw
  <2>7. Covers(C, k, z)  BY <2>2, <2>5, <2>6 DEF Covers
  <2> QED BY <2>4, <2>7
<1> QED BY <1>2, <1>3

(* A label that covers a course waits to go on along it, no longer than the course does. *)
LEMMA CoverQueued ==
  ASSUME Setting, NEW C, Course(C), NEW k \in 1..Len(C.path) - 1, NEW l, Good(prob, vrp, C.d, l),
         Covers(C, k, l)
  PROVE  /\ Lazy(C.d, l, <<C.path[k], C.path[k + 1]>>) \in Extensions(C.d, l)
         /\ Min(Rw(l)) <= C.gate[k]
         /\ C.d = 0 => Lazy(C.d, l, <<C.path[k], C.path[k + 1]>>).makespan <= C.gate[k]
         /\ Lazy(C.d, l, <<C.path[k], C.path[k + 1]>>).parent = <<l>>
         /\ Lazy(C.d, l, <<C.path[k], C.path[k + 1]>>).v = C.path[k + 1]
<1> DEFINE d == C.d
           u == C.path[k]
           v == C.path[k + 1]
           a == <<u, v>>
           L == Legs(d, a)
           t == Min(Rw(l))
<1>0. Len(C.path) \in Nat /\ k \in 1..Len(C.path) /\ k # Len(C.path) /\ k + 1 \in 1..Len(C.path)
      /\ d \in Dir /\ Leading(C, k)
  BY DEF Course
<1>1. /\ u \in Vertex /\ v \in Vertex /\ T \in Nat /\ C.path[k] # To(d)
      /\ SubSeq(C.path, 1, k + 1) = Append(SubSeq(C.path, 1, k), v)
      /\ C.at[k + 1] \subseteq 0..T /\ C.at[k + 1] # {} /\ C.at[k] \subseteq 0..T
  BY <1>0, CourseParts
<1>2. At(l) = u /\ l.path = SubSeq(C.path, 1, k)
  <2>1. l.path = SubSeq(C.path, 1, k)  BY DEF Covers
  <2>0. k \in 1..k  BY <1>0
  <2>2. Len(l.path) = k /\ l.path[k] = C.path[k]  BY <1>0, <2>0, <2>1, CourseParts
  <2>3. At(l) = l.path[Len(l.path)]  BY LabelTypes
  <2> QED BY <2>1, <2>2, <2>3
<1>3. Rw(l) \subseteq 0..T /\ Rw(l) # {} /\ l.path \in Seq(Vertex)
  BY LabelTypes
<1>4. t \in Rw(l) /\ t \in Int /\ \A x \in C.at[k] : t <= x
  <2>1. Rw(l) \subseteq Int /\ 0 \in Int /\ \A x \in Rw(l) : 0 <= x  BY <1>1, <1>3
  <2>2. t \in Rw(l) /\ \A x \in Rw(l) : t <= x  BY <1>3, <2>1, MinIs
  <2>3. C.at[k] \subseteq Rw(l)  BY DEF Covers
  <2> QED BY <2>1, <2>2, <2>3
<1>5. PICK x \in C.at[k] : x <= C.gate[k]
  BY <1>0 DEF Leading
<1>6. t <= C.gate[k]
  <2>1. C.gate[k] \in Int /\ x \in Int /\ t <= x  BY <1>0, <1>1, <1>4, <1>5 DEF Leading
  <2> HIDE DEF t
  <2> QED BY <1>4, <1>5, <2>1
<1>7. PICK s \in C.at[k + 1], w \in C.at[k] : <<w, s>> \in L
  BY <1>0, <1>1 DEF Leading
<1>8. \A e \in L : e[1] \in Int /\ e[2] \in Int /\ e[1] <= T
  <2> SUFFICES ASSUME NEW e \in L PROVE e[1] \in Int /\ e[2] \in Int /\ e[1] <= T  OBVIOUS
  <2>1. CASE d = 0
    <3>1. Linked(vrp, <<u, v>>, e[1], e[2])  BY <1>1, <2>1, SettingIs
    <3>2. Drivable(Raw[prob.net], <<u, v>>, vrp.arr[<<u, v>>])  BY <3>1, SettingIs DEF Linked
    <3>3. e[1] \in DOMAIN vrp.arr[<<u, v>>] /\ e[2] = vrp.arr[<<u, v>>][e[1]]  BY <3>1 DEF Linked
    <3>4. e[1] \in 0..T /\ e[2] \in Int  BY <3>2, <3>3 DEF Drivable
    <3> QED BY <1>1, <3>4
  <2>2. CASE d = 1
    <3>1. /\ <<v, u>> \in vrp.arcs
          /\ \E y \in DOMAIN vrp.arr[<<v, u>>] :
               e = <<e[1], T - y>> /\ e[1] \in Int /\ e[1] <= T - vrp.arr[<<v, u>>][y]
      BY <1>1, <2>2, SettingIs
    <3>2. PICK y \in DOMAIN vrp.arr[<<v, u>>] :
               e = <<e[1], T - y>> /\ e[1] \in Int /\ e[1] <= T - vrp.arr[<<v, u>>][y]
      BY <3>1
    <3>3. Drivable(Raw[prob.net], <<v, u>>, vrp.arr[<<v, u>>])  BY <3>1, SettingIs
    <3> DEFINE z == vrp.arr[<<v, u>>][y]
    <3>4. y \in 0..T /\ z \in Int /\ y <= z  BY <3>2, <3>3 DEF Drivable
    <3>5. e[2] = T - y /\ e[1] \in Int /\ e[1] <= T - z  BY <3>2
    <3> HIDE DEF z
    <3> QED BY <1>1, <3>4, <3>5
  <2> QED BY <1>0, <2>1, <2>2 DEF Dir
<1>9. t <= Max(Departures(L))
  <2> DEFINE D == Departures(L)
  <2>1. D \subseteq Int /\ D # {} /\ T \in Int /\ (\A y \in D : y <= T) /\ w \in D
    <3>1. <<w, s>>[1] = w  OBVIOUS
    <3> HIDE DEF L
    <3>2. w \in D  BY <1>7, <3>1 DEF Departures
    <3>3. \A y \in D : y \in Int /\ y <= T  BY <1>8 DEF Departures
    <3> HIDE DEF D
    <3> QED BY <1>1, <3>2, <3>3
  <2> HIDE DEF D
  <2>2. Max(D) \in D /\ w <= Max(D)
    <3>1. D \subseteq Int /\ D # {} /\ T \in Int /\ \A y \in D : y <= T  BY <2>1
    <3>2. Max(D) \in D /\ \A y \in D : y <= Max(D)  BY <3>1, MaxIs
    <3> QED BY <2>1, <3>2
  <2>3. t <= w /\ w \in Int /\ Max(D) \in Int  BY <1>4, <1>7, <2>1, <2>2
  <2> HIDE DEF t
  <2> QED BY <1>4, <2>2, <2>3 DEF D
<1>10. l.q + Demand(v) <= Raw[prob.net].room
  <2>1. Along(Loads(prob), Append(l.path, v)) <= Raw[prob.net].room
    BY <1>0, <1>1, <1>2 DEF Leading
  <2>2. Loads(prob) \in [Vertex -> Int] /\ Loads(prob)[v] = Demand(v)
    BY <1>1, SumFunctions DEF Setting, Loads, Demand
  <2>4. Along(Loads(prob), Append(l.path, v)) = Along(Loads(prob), l.path) + Loads(prob)[v]
    BY <1>1, <1>3, <2>2, SumAppend
  <2>5. l.q = Along(Loads(prob), l.path)  BY DEF Good, Shaped
  <2> QED BY <2>1, <2>2, <2>4, <2>5
<1>11. a \in Allowed(d) /\ a[1] = u /\ a[2] = v
  <2>1. (IF d = 0 THEN a ELSE Turned(a)) = Way(d, u, v)  BY DEF Way, Turned
  <2>2. Way(d, u, v) \notin prob.A  BY <1>0 DEF Leading
  <2> HIDE DEF L
  <2>3. L # {}  BY <1>7
  <2> QED BY <1>1, <2>1, <2>2, <2>3 DEF Allowed, L
<1>12. Onward(d, l, a)
  BY <1>1, <1>2, <1>9, <1>10, <1>11 DEF Onward
<1>13. v \notin l.U
  <2>1. k + 1 \in k + 1..Len(C.path)  BY <1>0
  <2> QED BY <2>1 DEF Covers
<1>14. Lazy(d, l, a) \in Extensions(d, l)
  BY <1>11, <1>12, <1>13 DEF Extensions
<1>15. ASSUME d = 0 PROVE Lazy(d, l, a).makespan <= C.gate[k]
  <2> DEFINE on == {y[2] : y \in {z \in L : z[1] >= t}}
  <2>1. s \in on
    <3>1. <<w, s>>[1] = w /\ <<w, s>>[2] = s /\ w >= t  BY <1>4, <1>7
    <3> HIDE DEF L, t
    <3> QED BY <1>7, <3>1
  <2>2. \A y \in on : y \in Int /\ t <= y
    <3>1. ASSUME NEW e \in L, e[1] >= t PROVE e[2] \in Int /\ t <= e[2]
      <4>1. Linked(vrp, <<u, v>>, e[1], e[2])  BY <1>1, <1>15, SettingIs
      <4>2. Drivable(Raw[prob.net], <<u, v>>, vrp.arr[<<u, v>>])  BY <4>1, SettingIs DEF Linked
      <4>3. e[1] \in Int /\ e[2] \in Int /\ e[1] <= e[2]  BY <1>8, <4>1, <4>2 DEF Linked, Drivable
      <4> HIDE DEF t
      <4> QED BY <1>4, <3>1, <4>3
    <3> HIDE DEF L, t
    <3> QED BY <3>1
  <2>3. Min(on) \in Int /\ Min(on) <= s
    <3>1. on \subseteq Int /\ on # {} /\ t \in Int /\ \A y \in on : t <= y  BY <1>4, <2>1, <2>2
    <3> HIDE DEF on, t
    <3>2. Min(on) \in on /\ \A y \in on : Min(on) <= y  BY <3>1, MinIs
    <3> QED BY <2>1, <3>1, <3>2
  <2>4. ~(t > Max(Departures(L)))
    <3>1. Max(Departures(L)) \in Int
      <4> DEFINE D == Departures(L)
      <4>1. D \subseteq Int /\ D # {} /\ T \in Int /\ \A y \in D : y <= T
        <5> HIDE DEF L
        <5>1. \A y \in D : y \in Int /\ y <= T  BY <1>8 DEF Departures
        <5>2. D # {}  BY <1>7 DEF Departures
        <5> HIDE DEF D
        <5> QED BY <1>1, <5>1, <5>2
      <4> HIDE DEF D
      <4>2. Max(D) \in D  BY <4>1, MaxIs
      <4> QED BY <4>1, <4>2 DEF D
    <3> HIDE DEF t, L
    <3> QED BY <1>4, <1>9, <3>1
  <2>5. TimeFrom(L, t) = Min(on) - t  BY <2>4 DEF TimeFrom
  <2> HIDE DEF on, t, L
  <2>6. Lazy(d, l, a).makespan = TimeFrom(L, t) + t
    <3>1. Lazy(d, l, a).makespan = IF d = 1 THEN t ELSE TimeFrom(L, t) + t  BY DEF Lazy, t, L
    <3> QED BY <1>15, <3>1
  <2>7. TimeFrom(L, t) + t = Min(on)  BY <1>4, <2>3, <2>5
  <2>8. s <= C.gate[k] /\ C.gate[k] \in Int /\ s \in Int  BY <1>0, <1>1, <1>7, <1>15 DEF Leading
  <2> QED BY <2>3, <2>6, <2>7, <2>8
<1>16. Lazy(d, l, a).parent = <<l>> /\ Lazy(d, l, a).v = v
  BY <1>11 DEF Lazy
<1> QED BY <1>6, <1>14, <1>15, <1>16

-----------------------------------------------------------------------------
(* What changes in a step: an entry of the queue is taken and what it is completed to,
   at most one label, is processed. *)
New(d, e) == UNION {Undominated(d, l) : l \in Completed(d, e)}
More(d, new) == UNION {Extensions(d, l) : l \in {x \in new : Min(Rw(x)) <= tm[d]}}

Popped(e) ==
  /\ e \in q[dir] /\ pc = "mono" /\ ~TurnOver
  /\ U'[dir] = U[dir] \cup New(dir, e)
  /\ q'[dir] = (q[dir] \ {e}) \cup More(dir, New(dir, e))
  /\ \A d \in Dir : d # dir => U'[d] = U[d] /\ q'[d] = q[d]
  /\ turn' = turn \cup New(dir, e)
  /\ count' = IF dir = 0 THEN count + Cardinality(New(dir, e)) ELSE count
  /\ prob' = prob /\ vrp' = vrp /\ M' = M /\ tm' = tm /\ dir' = dir /\ processed' = processed
  /\ pool' = pool /\ status' = status /\ hit' = hit /\ pc' = pc

LEMMA PopIs ==
  ASSUME Searching, Pop
  PROVE  \E e : Popped(e)
<1>0. DOMAIN U = Dir /\ DOMAIN q = Dir /\ dir \in Dir
  BY DEF Searching
<1>1. PICK e \in Tops(q[dir]) :
        \E new \in {UNION {Undominated(dir, l) : l \in Completed(dir, e)}} :
         /\ q' = [q EXCEPT ![dir] = (@ \ {e}) \cup
                     UNION {Extensions(dir, l) : l \in {x \in new : Min(Rw(x)) <= tm[dir]}}]
         /\ U' = [U EXCEPT ![dir] = @ \cup new]
         /\ turn' = turn \cup new
         /\ count' = IF dir = 0 THEN count + Cardinality(new) ELSE count
  BY DEF Pop
<1> DEFINE new == New(dir, e)
<1>2. /\ q' = [q EXCEPT ![dir] = (@ \ {e}) \cup More(dir, new)]
      /\ U' = [U EXCEPT ![dir] = @ \cup new]
      /\ turn' = turn \cup new
      /\ count' = IF dir = 0 THEN count + Cardinality(new) ELSE count
  BY <1>1 DEF New, More
<1>3. /\ prob' = prob /\ vrp' = vrp /\ M' = M /\ tm' = tm /\ dir' = dir /\ processed' = processed
      /\ pool' = pool /\ status' = status /\ hit' = hit /\ pc' = pc /\ pc = "mono" /\ ~TurnOver
  BY DEF Pop
<1>4. e \in q[dir]
  BY <1>1 DEF Tops
<1> HIDE DEF new
<1>5. /\ U'[dir] = U[dir] \cup new /\ q'[dir] = (q[dir] \ {e}) \cup More(dir, new)
      /\ \A d \in Dir : d # dir => U'[d] = U[d] /\ q'[d] = q[d]
  BY <1>0, <1>2
<1> QED BY <1>2, <1>3, <1>4, <1>5 DEF Popped, new

LEMMA Constants ==
  ASSUME [Next]_vars
  PROVE  prob' = prob /\ vrp' = vrp /\ (~Pop => U' = U /\ q' = q)
BY DEF Next, Step, Skip, Stop, Enter, Pop, EndTurn, LastArc, Cross, Return, Expire, Done, vars

(* The path an entry of the queue stands for. *)
PathOf(d, e) == IF e.parent = <<>> THEN <<From(d)>> ELSE Append(e.parent[1].path, e.v)

LEMMA CompletedIs ==
  ASSUME Setting, tm \in [Dir -> 0..T], NEW d \in Dir, IsFiniteSet(U[d]),
         \A l \in U[d] : Good(prob, vrp, d, l), NEW e, Waiting(prob, U[d], d, e)
  PROVE  /\ \E y : Completed(d, e) \subseteq {y}
         /\ \A x \in Completed(d, e) : Good(prob, vrp, d, x) /\ x.path = PathOf(d, e)
<1>1. tm[0] \in 0..T
  BY DEF Dir
<1>2. \E y : Completed(d, e) \subseteq {y}
  <2>1. \E y : Rooted(d) \subseteq {y}  BY DEF Rooted
  <2>2. ASSUME NEW l, NEW v PROVE \E y : Extended(d, l, v) \subseteq {y}  BY DEF Extended
  <2> QED BY <2>1, <2>2 DEF Completed
<1>3. CASE e.parent = <<>>
  <2>1. Completed(d, e) = Rooted(d) /\ PathOf(d, e) = <<From(d)>>  BY <1>3 DEF Completed, PathOf
  <2>2. \A x \in Rooted(d) : x.path = <<From(d)>>  BY DEF Rooted
  <2> QED BY <1>1, <1>2, <2>1, <2>2, RootGood
<1>4. CASE e.parent # <<>>
  <2>1. PICK l \in U[d], v \in Vertex :
          /\ e.parent = <<l>> /\ e.v = v /\ v \notin l.U
          /\ Way(d, At(l), v) \notin prob.A
          /\ l.q + Raw[prob.net].load[v] <= Raw[prob.net].room
    BY <1>4 DEF Waiting
  <2>2. Completed(d, e) = Extended(d, l, v) /\ PathOf(d, e) = Append(l.path, v)
    BY <1>4, <2>1 DEF Completed, PathOf
  <2>3. Good(prob, vrp, d, l) /\ l.q + Demand(v) <= Raw[prob.net].room
    BY <2>1 DEF Demand
  <2>4. \A x \in Extended(d, l, v) : x.path = Append(l.path, v)  BY DEF Extended
  <2>5. \A x \in Extended(d, l, v) : Good(prob, vrp, d, x)
    BY <1>1, <2>1, <2>3, ExtendedGood
  <2> QED BY <1>2, <2>2, <2>4, <2>5
<1> QED BY <1>3, <1>4

LEMMA NewIs ==
  ASSUME Setting, tm \in [Dir -> 0..T], NEW d \in Dir, IsFiniteSet(U[d]),
         \A l \in U[d] : Good(prob, vrp, d, l), NEW e, Waiting(prob, U[d], d, e)
  PROVE  /\ \E y : New(d, e) \subseteq {y}
         /\ \A x \in New(d, e) : Good(prob, vrp, d, x) /\ x.path = PathOf(d, e)
<1>1. PICK y : Completed(d, e) \subseteq {y}
  BY CompletedIs
<1>2. \A x \in Completed(d, e) : Good(prob, vrp, d, x) /\ x.path = PathOf(d, e)
  BY CompletedIs
<1>3. ASSUME NEW l PROVE \E z : Undominated(d, l) \subseteq {z}
  <2>1. \E z : {x \in {l} : MinCost(l) < 0} \subseteq {z}  OBVIOUS
  <2>2. \E z : {[l EXCEPT !.dur = [t \in S |-> l.dur[t]]] : S \in {Left(d, l)} \ {{}}} \subseteq {z}
    OBVIOUS
  <2> QED BY <2>1, <2>2 DEF Undominated
<1>4. \E z : New(d, e) \subseteq {z}
  <2>1. New(d, e) \subseteq Undominated(d, y)  BY <1>1 DEF New
  <2> QED BY <1>3, <2>1
<1>5. \A x \in New(d, e) : Good(prob, vrp, d, x) /\ x.path = PathOf(d, e)
  <2> SUFFICES ASSUME NEW x \in New(d, e) PROVE Good(prob, vrp, d, x) /\ x.path = PathOf(d, e)
    OBVIOUS
  <2>1. PICK l \in Completed(d, e) : x \in Undominated(d, l)  BY DEF New
  <2>2. Good(prob, vrp, d, l) /\ l.path = PathOf(d, e)  BY <1>2
  <2> QED BY <2>1, <2>2, UndominatedGood
<1> QED BY <1>4, <1>5

(* No path is extended twice: the labels processed and the entries of the queue stand for
   different paths. *)
Apart(d, S, Q) ==
  /\ \A l, m \in S : l.path = m.path => l = m
  /\ \A e, f \in Q : PathOf(d, e) = PathOf(d, f) => e = f
  /\ \A e \in Q, l \in S : l.path # PathOf(d, e)
  /\ \A l \in S : l.path = <<From(d)>> \/ \E m \in S, v \in Vertex : l.path = Append(m.path, v)
  /\ \A e \in Q : e.parent # <<>> => e.parent = <<e.parent[1]>> /\ e.parent[1] \in S

Unique == \A d \in Dir : Apart(d, U[d], q[d])

LEMMA UniqueInit ==
  ASSUME Init
  PROVE  Unique
<1>1. ASSUME NEW d \in Dir PROVE Apart(d, U[d], q[d])
  <2> DEFINE r == [parent |-> <<>>, v |-> From(d), makespan |-> OpenAt(d, From(d))]
  <2>1. U[d] = {} /\ q[d] = {r} /\ r.parent = <<>>  BY DEF Init
  <2> HIDE DEF r
  <2> QED BY <2>1 DEF Apart
<1> QED BY <1>1 DEF Unique

LEMMA UniquePop ==
  ASSUME Searching, Unique, NEW e, Popped(e)
  PROVE  Apart(dir, U'[dir], q'[dir])
<1> DEFINE d == dir
           S == U[d]
           Q == q[d]
           new == New(d, e)
           more == More(d, new)
<1>1. /\ e \in Q /\ U'[d] = S \cup new /\ q'[d] = (Q \ {e}) \cup more
  BY DEF Popped
<1>2. /\ d \in Dir /\ Setting /\ tm \in [Dir -> 0..T] /\ IsFiniteSet(S) /\ tm[0] \in 0..T
      /\ (\A l \in S : Good(prob, vrp, d, l)) /\ (\A f \in Q : Waiting(prob, S, d, f))
      /\ Apart(d, S, Q)
  BY DEF Searching, Searched, Unique, Dir
<1>3. /\ \E y : new \subseteq {y}
      /\ \A x \in new : Good(prob, vrp, d, x) /\ x.path = PathOf(d, e)
  BY <1>1, <1>2, NewIs
<1>4. \A l \in S \cup new : l.path \in Seq(Vertex) /\ Len(l.path) >= 1
  BY <1>2, <1>3, LabelTypes
<1>5. \A f \in Q : f.parent # <<>> => f.v \in Vertex
  BY <1>2 DEF Waiting
<1>6. \A f \in more : \E l \in new, v \in Vertex :
        f = Lazy(d, l, <<At(l), v>>) /\ f.parent = <<l>> /\ f.v = v
  <2> HIDE DEF new
  <2>1. ASSUME NEW l \in new, NEW f \in Extensions(d, l)
        PROVE  \E v \in Vertex : f = Lazy(d, l, <<At(l), v>>) /\ f.parent = <<l>> /\ f.v = v
    <3>1. PICK a \in Allowed(d) : f = Lazy(d, l, a) /\ a[1] = At(l)
      BY DEF Extensions, Onward
    <3>2. a = <<At(l), a[2]>> /\ a[2] \in Vertex  BY <3>1 DEF Allowed
    <3>3. Lazy(d, l, a).parent = <<l>> /\ Lazy(d, l, a).v = a[2]  BY DEF Lazy
    <3> QED BY <3>1, <3>2, <3>3
  <2> QED BY <2>1 DEF More
<1> HIDE DEF S, Q, new, more
<1>7. From(d) \in Vertex
  BY <1>2, SettingIs, Vertices DEF From, Dir, Sane
<1>8. \A l \in new : \A m \in S : m.path # l.path
  BY <1>1, <1>2, <1>3 DEF Apart
<1>9. \A f \in more, l \in new : PathOf(d, f) = Append(l.path, f.v) /\ f.v \in Vertex
  <2> SUFFICES ASSUME NEW f \in more, NEW l \in new
               PROVE  PathOf(d, f) = Append(l.path, f.v) /\ f.v \in Vertex
    OBVIOUS
  <2>1. PICK k \in new, v \in Vertex : f.parent = <<k>> /\ f.v = v  BY <1>6
  <2>2. k = l  BY <1>3
  <2> QED BY <2>1, <2>2 DEF PathOf
<1>10. \A a, b \in Seq(Vertex) : \A v, w \in Vertex : Append(a, v) = Append(b, w) => a = b /\ v = w
  <2> SUFFICES ASSUME NEW a \in Seq(Vertex), NEW b \in Seq(Vertex), NEW v \in Vertex, NEW w \in Vertex,
                      Append(a, v) = Append(b, w)
               PROVE  a = b /\ v = w
    OBVIOUS
  <2> QED BY AppendInjective
<1>11. \A a \in Seq(Vertex), v \in Vertex : Len(a) >= 1 => Append(a, v) # <<From(d)>>
  <2> SUFFICES ASSUME NEW a \in Seq(Vertex), NEW v \in Vertex, Len(a) >= 1 PROVE Append(a, v) # <<From(d)>>
    OBVIOUS
  <2>1. Len(Append(a, v)) = Len(a) + 1 /\ Len(a) \in Nat  OBVIOUS
  <2>2. Len(<<From(d)>>) = 1  OBVIOUS
  <2> QED BY <2>1, <2>2
(* No label and no entry but the new ones continues the new path. *)
<1>12. \A l \in new, v \in Vertex : \A m \in S \cup new : m.path # Append(l.path, v)
  <2> SUFFICES ASSUME NEW l \in new, NEW v \in Vertex, NEW m \in S \cup new, m.path = Append(l.path, v)
               PROVE  FALSE
    OBVIOUS
  <2>1. l.path \in Seq(Vertex) /\ Len(l.path) >= 1  BY <1>4
  <2>2. CASE m \in new
    <3>1. m.path = l.path  BY <1>3, <2>2
    <3>2. Len(Append(l.path, v)) = Len(l.path) + 1 /\ Len(l.path) \in Nat  BY <2>1
    <3> QED BY <3>1, <3>2
  <2>3. CASE m \in S
    <3>1. m.path # <<From(d)>>  BY <1>11, <2>1
    <3>2. PICK p \in S, w \in Vertex : m.path = Append(p.path, w)  BY <1>2, <2>3, <3>1 DEF Apart
    <3>3. p.path = l.path  BY <1>4, <1>10, <2>1, <3>2
    <3> QED BY <1>8, <3>2, <3>3
  <2> QED BY <2>2, <2>3
<1>13. \A l \in new, v \in Vertex : \A f \in Q : PathOf(d, f) # Append(l.path, v)
  <2> SUFFICES ASSUME NEW l \in new, NEW v \in Vertex, NEW f \in Q, PathOf(d, f) = Append(l.path, v)
               PROVE  FALSE
    OBVIOUS
  <2>1. l.path \in Seq(Vertex) /\ Len(l.path) >= 1  BY <1>4
  <2>2. CASE f.parent = <<>>
    BY <1>11, <2>1, <2>2 DEF PathOf
  <2>3. CASE f.parent # <<>>
    <3>1. f.parent[1] \in S /\ PathOf(d, f) = Append(f.parent[1].path, f.v)
      BY <1>2, <2>3 DEF Apart, PathOf
    <3>2. f.v \in Vertex /\ f.parent[1].path \in Seq(Vertex)  BY <1>4, <1>5, <2>3, <3>1
    <3>3. f.parent[1].path = l.path  BY <1>10, <2>1, <3>1, <3>2
    <3> QED BY <1>8, <3>1, <3>3
  <2> QED BY <2>2, <2>3
<1>14. \A f \in more : \E l \in new : TRUE
  BY <1>6
<1>a. \A l, m \in S \cup new : l.path = m.path => l = m
  <2>1. \A l, m \in S : l.path = m.path => l = m  BY <1>2 DEF Apart
  <2>2. \A l, m \in new : l = m  BY <1>3
  <2> QED BY <1>8, <2>1, <2>2
<1>b. \A f, g \in (Q \ {e}) \cup more : PathOf(d, f) = PathOf(d, g) => f = g
  <2>1. \A f, g \in Q : PathOf(d, f) = PathOf(d, g) => f = g  BY <1>2 DEF Apart
  <2>2. \A f \in more, g \in Q : PathOf(d, f) # PathOf(d, g)  BY <1>9, <1>13, <1>14
  <2>3. ASSUME NEW f \in more, NEW g \in more, PathOf(d, f) = PathOf(d, g) PROVE f = g
    <3>1. PICK l \in new, v \in Vertex : f = Lazy(d, l, <<At(l), v>>) /\ f.v = v  BY <1>6
    <3>2. PICK m \in new, w \in Vertex : g = Lazy(d, m, <<At(m), w>>) /\ g.v = w  BY <1>6
    <3>3. l = m  BY <1>3
    <3>4. l.path \in Seq(Vertex)  BY <1>4
    <3>5. v = w  BY <1>9, <1>10, <2>3, <3>1, <3>2, <3>4
    <3> QED BY <3>1, <3>2, <3>3, <3>5
  <2> QED BY <2>1, <2>2, <2>3
<1>c. \A f \in (Q \ {e}) \cup more, l \in S \cup new : l.path # PathOf(d, f)
  <2>1. \A f \in Q, l \in S : l.path # PathOf(d, f)  BY <1>2 DEF Apart
  <2>2. \A f \in Q \ {e}, l \in new : l.path # PathOf(d, f)  BY <1>1, <1>2, <1>3 DEF Apart
  <2>3. \A f \in more, l \in S \cup new : l.path # PathOf(d, f)  BY <1>9, <1>12, <1>14
  <2> QED BY <2>1, <2>2, <2>3
<1>d. \A l \in S \cup new :
        l.path = <<From(d)>> \/ \E m \in S \cup new, v \in Vertex : l.path = Append(m.path, v)
  <2>1. ASSUME NEW l \in S
        PROVE  l.path = <<From(d)>> \/ \E m \in S \cup new, v \in Vertex : l.path = Append(m.path, v)
    BY <1>2 DEF Apart
  <2>2. ASSUME NEW l \in new
        PROVE  l.path = <<From(d)>> \/ \E m \in S \cup new, v \in Vertex : l.path = Append(m.path, v)
    <3>1. l.path = PathOf(d, e)  BY <1>3
    <3>2. CASE e.parent = <<>>  BY <3>1, <3>2 DEF PathOf
    <3>3. CASE e.parent # <<>>
      <4>1. e.parent[1] \in S /\ e.v \in Vertex  BY <1>1, <1>2, <1>5, <3>3 DEF Apart
      <4> QED BY <3>1, <3>3, <4>1 DEF PathOf
    <3> QED BY <3>2, <3>3
  <2> QED BY <2>1, <2>2
<1>e. \A f \in (Q \ {e}) \cup more : f.parent # <<>> => f.parent = <<f.parent[1]>> /\ f.parent[1] \in S \cup new
  <2>1. \A f \in Q : f.parent # <<>> => f.parent = <<f.parent[1]>> /\ f.parent[1] \in S  BY <1>2 DEF Apart
  <2>2. ASSUME NEW f \in more PROVE f.parent = <<f.parent[1]>> /\ f.parent[1] \in new
    <3>1. PICK l \in new : f.parent = <<l>>  BY <1>6
    <3> QED BY <3>1
  <2> QED BY <2>1, <2>2
<1> QED BY <1>1, <1>a, <1>b, <1>c, <1>d, <1>e DEF Apart

LEMMA UniqueNext ==
  ASSUME Searching, Unique, [Next]_vars
  PROVE  Unique'
<1>1. CASE Pop
  <2>1. PICK e : Popped(e)  BY <1>1, PopIs
  <2>2. Apart(dir, U'[dir], q'[dir])  BY <2>1, UniquePop
  <2>3. ASSUME NEW d \in Dir, d # dir PROVE Apart(d, U'[d], q'[d])
    <3>1. U'[d] = U[d] /\ q'[d] = q[d]  BY <2>1, <2>3 DEF Popped
    <3> QED BY <3>1 DEF Unique
  <2>4. \A d \in Dir : Apart(d, U'[d], q'[d])  BY <2>2, <2>3
  <2> QED BY <2>4 DEF Unique, Apart, PathOf
<1>2. CASE ~Pop
  <2>1. U' = U /\ q' = q  BY <1>2, Constants
  <2> QED BY <2>1 DEF Unique, Apart, PathOf
<1> QED BY <1>1, <1>2

-----------------------------------------------------------------------------
(* An entry of the queue that takes a course on from its k-th vertex. *)
Pending(C, k, e) ==
  /\ e.parent # <<>> /\ Covers(C, k, e.parent[1]) /\ e.v = C.path[k + 1]
  /\ C.d = 0 => e.makespan <= C.gate[k]

(* As far as the middle allows, what has been covered of a course is carried on or waits
   in the queue. *)
Pursued(C, S, Q, mid) ==
  /\ (C.d = 0 => C.from <= mid) => (\E l \in S : Covers(C, 1, l)) \/ \E e \in Q : e.parent = <<>>
  /\ \A k \in 1..Len(C.path) - 1 :
       C.gate[k] <= mid /\ (\E l \in S : Covers(C, k, l)) =>
         (\E l \in S : Covers(C, k + 1, l)) \/ \E e \in Q : Pending(C, k, e)

LEMMA PursuedPop ==
  ASSUME Searching, Unique, NEW e, Popped(e), prob.level = "Exact", NEW C, Course(C), C.d = dir,
         Pursued(C, U[dir], q[dir], tm[dir])
  PROVE  Pursued(C, U'[dir], q'[dir], tm[dir])
<1> DEFINE d == dir
           S == U[d]
           Q == q[d]
           new == New(d, e)
           more == More(d, new)
           n == Len(C.path)
<1>1. /\ e \in Q /\ U'[d] = S \cup new /\ q'[d] = (Q \ {e}) \cup more
  BY DEF Popped
<1>2. /\ d \in Dir /\ Setting /\ tm \in [Dir -> 0..T] /\ IsFiniteSet(S) /\ tm[0] \in 0..T
      /\ (\A l \in S : Good(prob, vrp, d, l)) /\ (\A f \in Q : Waiting(prob, S, d, f))
      /\ Apart(d, S, Q) /\ C.d = d
  BY DEF Searching, Searched, Unique, Dir
<1>3. /\ \A x \in new : Good(prob, vrp, d, x) /\ x.path = PathOf(d, e)
      /\ \A x \in Completed(d, e) : Good(prob, vrp, d, x) /\ x.path = PathOf(d, e)
  BY <1>1, <1>2, NewIs, CompletedIs
<1>4. \A m \in S : m.path # PathOf(d, e)
  BY <1>1, <1>2 DEF Apart
<1>n. n \in Nat /\ n >= 3
  BY DEF Course
<1>5. ASSUME NEW k \in 1..n, NEW x \in Completed(d, e), Covers(C, k, x)
      PROVE  \E z \in new : Covers(C, k, z)
  <2>1. Good(prob, vrp, C.d, x) /\ \A m \in U[C.d] : Good(prob, vrp, C.d, m) /\ m.path # x.path
    BY <1>2, <1>3, <1>4
  <2>2. IsFiniteSet(U[C.d])  BY <1>2
  <2>3. \E z \in Undominated(C.d, x) : Covers(C, k, z)
    BY <1>2, <1>5, <2>1, <2>2, CoverKept
  <2> QED BY <1>2, <2>3 DEF New
<1>6. ASSUME NEW k \in 1..n - 1, C.gate[k] <= tm[d], NEW x \in new, Covers(C, k, x)
      PROVE  \E f \in more : Pending(C, k, f)
  <2> DEFINE f == Lazy(d, x, <<C.path[k], C.path[k + 1]>>)
  <2>1. Good(prob, vrp, C.d, x)  BY <1>2, <1>3
  <2>2. /\ Lazy(C.d, x, <<C.path[k], C.path[k + 1]>>) \in Extensions(C.d, x)
        /\ Min(Rw(x)) <= C.gate[k]
        /\ C.d = 0 => Lazy(C.d, x, <<C.path[k], C.path[k + 1]>>).makespan <= C.gate[k]
        /\ Lazy(C.d, x, <<C.path[k], C.path[k + 1]>>).parent = <<x>>
        /\ Lazy(C.d, x, <<C.path[k], C.path[k + 1]>>).v = C.path[k + 1]
    BY <1>2, <1>6, <2>1, CoverQueued
  <2>3. f \in Extensions(d, x) /\ (C.d = 0 => f.makespan <= C.gate[k]) /\ f.parent = <<x>>
        /\ f.v = C.path[k + 1]
    BY <1>2, <2>2
  <2> HIDE DEF f
  <2>4. Min(Rw(x)) <= tm[d]
    <3>1. Rw(x) # {} /\ Rw(x) \subseteq Int /\ 0 \in Int /\ (\A y \in Rw(x) : 0 <= y) /\ T \in Nat
      BY <1>2, <2>1, LabelTypes, SettingIs DEF Sane
    <3>2. Min(Rw(x)) \in Int  BY <3>1, MinIs
    <3>3. C.gate[k] \in Int
      <4>1. Leading(C, k)  BY <1>6 DEF Course
      <4> QED BY <4>1 DEF Leading
    <3>4. tm[d] \in Int  BY <1>2
    <3> QED BY <1>6, <2>2, <3>2, <3>3, <3>4
  <2>5. f \in more  BY <1>6, <2>3, <2>4 DEF More
  <2>6. Pending(C, k, f)  BY <1>6, <2>3 DEF Pending
  <2> QED BY <2>5, <2>6
<1> HIDE DEF new, more
<1>7. ASSUME C.d = 0 => C.from <= tm[d]
      PROVE  (\E l \in S \cup new : Covers(C, 1, l)) \/ \E f \in (Q \ {e}) \cup more : f.parent = <<>>
  <2>1. CASE \E l \in S : Covers(C, 1, l)
    BY <2>1
  <2>2. CASE \E f \in Q : f.parent = <<>>
    <3>1. PICK f \in Q : f.parent = <<>>  BY <2>2
    <3>2. CASE f # e  BY <3>1, <3>2
    <3>3. CASE f = e
      <4>1. Completed(d, e) = Rooted(C.d)  BY <1>2, <3>1, <3>3 DEF Completed
      <4>2. C.d = 0 => C.from <= tm[0]  BY <1>2, <1>7
      <4>3. \E x : Rooted(C.d) = {x} /\ Covers(C, 1, x)  BY <1>2, <4>2, CoverRooted
      <4>4. 1 \in 1..n  BY <1>n
      <4> QED BY <1>5, <4>1, <4>3, <4>4
    <3> QED BY <3>2, <3>3
  <2> QED BY <1>7, <2>1, <2>2 DEF Pursued
<1>8. ASSUME NEW k \in 1..n - 1, C.gate[k] <= tm[d], NEW l \in S \cup new, Covers(C, k, l)
      PROVE  (\E m \in S \cup new : Covers(C, k + 1, m)) \/ \E f \in (Q \ {e}) \cup more : Pending(C, k, f)
  <2>1. CASE l \in new
    BY <1>6, <1>8, <2>1
  <2>2. CASE l \in S
    <3>1. (\E m \in S : Covers(C, k + 1, m)) \/ \E f \in Q : Pending(C, k, f)
      BY <1>8, <2>2 DEF Pursued
    <3>2. CASE \E f \in Q : Pending(C, k, f)
      <4>1. PICK f \in Q : Pending(C, k, f)  BY <3>2
      <4>2. CASE f # e  BY <4>1, <4>2
      <4>3. CASE f = e
        <5>1. e.parent # <<>> /\ Covers(C, k, e.parent[1]) /\ e.v = C.path[k + 1]
          BY <4>1, <4>3 DEF Pending
        <5>2. e.parent[1] \in S  BY <1>1, <1>2, <5>1 DEF Apart
        <5>3. Completed(d, e) = Extended(C.d, e.parent[1], C.path[k + 1])
          BY <1>2, <5>1 DEF Completed
        <5>4. C.d = 0 => C.gate[k] <= tm[0]  BY <1>2, <1>8
        <5>5. Good(prob, vrp, C.d, e.parent[1])  BY <1>2, <5>2
        <5>6. \E x : Extended(C.d, e.parent[1], C.path[k + 1]) = {x} /\ Good(prob, vrp, C.d, x)
                     /\ Covers(C, k + 1, x)
          BY <1>2, <5>1, <5>4, <5>5, CoverExtended
        <5>7. k + 1 \in 1..n  BY <1>n
        <5> QED BY <1>5, <5>3, <5>6, <5>7
      <4> QED BY <4>2, <4>3
    <3> QED BY <3>1, <3>2
  <2> QED BY <2>1, <2>2
<1>9. Pursued(C, S \cup new, (Q \ {e}) \cup more, tm[d])
  <2> HIDE DEF S, Q
  <2> QED BY <1>7, <1>8 DEF Pursued
<1> QED BY <1>1, <1>9

LEMMA PursuedLess ==
  ASSUME Setting, NEW C, Course(C), NEW S, NEW Q, NEW mid \in Int, NEW less \in Int, less <= mid,
         Pursued(C, S, Q, mid)
  PROVE  Pursued(C, S, Q, less)
<1>1. C.from \in Int /\ \A k \in 1..Len(C.path) - 1 : C.gate[k] \in Int
  BY DEF Course, Leading
<1>2. (C.d = 0 => C.from <= less) => (C.d = 0 => C.from <= mid)
  BY <1>1
<1>3. \A k \in 1..Len(C.path) - 1 : C.gate[k] <= less => C.gate[k] <= mid
  BY <1>1
<1> QED BY <1>2, <1>3 DEF Pursued

-----------------------------------------------------------------------------
(* What a path visits of the cut: nothing twice, so no more than the cut has. *)
LEMMA CountsIs ==
  ASSUME Setting, NEW path \in Seq(Vertex), IsInjective(path), Len(path) >= 1
  PROVE  /\ Along(Counts(prob), path) \in 0..3
         /\ Counts(prob)[path[Len(path)]] <= Along(Counts(prob), path)
<1> DEFINE n == Len(path)
           cut == prob.cut
           f == Counts(prob)
           G(i) == {path[j] : j \in {k \in 1..i : path[k] \in cut}}

<1>1. n \in Nat /\ n >= 1 /\ DOMAIN path = 1..n /\ \A j \in 1..n : path[j] \in Vertex
  BY ElementOfSeq
<1>2. cut \subseteq Customer /\ IsFiniteSet(cut) /\ Cardinality(cut) <= 3 /\ Cardinality(cut) \in Nat
  <2>1. Posed(prob) /\ N \in Nat  BY SettingIs DEF Sane
  <2>2. IsFiniteSet(Customer)  BY <2>1, FS_Interval DEF Customer
  <2>3. cut \subseteq Customer /\ (cut = {} \/ Cardinality(cut) = 3)  BY <2>1 DEF Posed
  <2>4. IsFiniteSet(cut)  BY <2>2, <2>3, FS_Subset
  <2> QED BY <2>3, <2>4, FS_EmptySet
<1>3. f \in [Vertex -> Int] /\ \A v \in Vertex : f[v] = IF v \in cut THEN 1 ELSE 0
  BY SumFunctions DEF Setting, Counts
<1>4. PICK z : IsSum(z, f, path) /\ Along(f, path) = z[n]
  BY <1>3, SumIs
<1>5. z \in [0..n -> Int] /\ z[0] = 0 /\ \A i \in 1..n : z[i] = z[i - 1] + f[path[i]]
  BY <1>4 DEF IsSum
<1> DEFINE R == {i \in 0..n : IsFiniteSet(G(i)) /\ Cardinality(G(i)) = z[i]}
<1>6. 0 \in R
  <2>1. G(0) = {}  OBVIOUS
  <2>2. IsFiniteSet({}) /\ Cardinality({}) = 0  BY FS_EmptySet
  <2>3. 0 \in 0..n  BY <1>1
  <2> HIDE DEF G
  <2> QED BY <1>5, <2>1, <2>2, <2>3
<1>7. \A i \in 0..n - 1 : i \in R => i + 1 \in R
  <2> SUFFICES ASSUME NEW i \in 0..n - 1, i \in R PROVE i + 1 \in R  OBVIOUS
  <2>1. i + 1 \in 1..n /\ i \in 0..n /\ i + 1 - 1 = i /\ 1..i + 1 = 1..i \cup {i + 1}  BY <1>1
  <2>2. z[i + 1] = z[i] + f[path[i + 1]] /\ path[i + 1] \in Vertex  BY <1>1, <1>5, <2>1
  <2>3. CASE path[i + 1] \in cut
    <3>1. G(i + 1) = G(i) \cup {path[i + 1]}  BY <2>1, <2>3
    <3>2. path[i + 1] \notin G(i)
      <4>1. \A k \in 1..i : path[k] # path[i + 1]
        <5>1. \A k \in 1..i : k \in 1..n /\ k # i + 1  BY <1>1, <2>1
        <5> QED BY <1>1, <2>1, <5>1 DEF IsInjective
      <4> QED BY <4>1
    <3>3. IsFiniteSet(G(i)) /\ Cardinality(G(i)) = z[i]  OBVIOUS
    <3>4. f[path[i + 1]] = 1  BY <1>3, <2>2, <2>3
    <3> HIDE DEF G
    <3>5. IsFiniteSet(G(i + 1)) /\ Cardinality(G(i + 1)) = Cardinality(G(i)) + 1
      BY <3>1, <3>2, <3>3, FS_AddElement
    <3> QED BY <2>1, <2>2, <3>3, <3>4, <3>5
  <2>4. CASE path[i + 1] \notin cut
    <3>1. G(i + 1) = G(i)  BY <2>1, <2>4
    <3>2. f[path[i + 1]] = 0 /\ z[i] \in Int  BY <1>3, <1>5, <2>1, <2>2, <2>4
    <3> HIDE DEF G
    <3> QED BY <2>1, <2>2, <3>1, <3>2
  <2> QED BY <2>3, <2>4
<1>8. n \in R
  <2> HIDE DEF R
  <2>1. 0..n \subseteq R
    <3>1. 0 \in Int /\ n \in Int /\ (0 <= n => 0 \in R)  BY <1>1, <1>6
    <3>2. \A i \in 0..n - 1 : i \in R => i + 1 \in R  BY <1>7
    <3> QED BY <3>1, <3>2, Induction
  <2> QED BY <1>1, <2>1
<1>9. IsFiniteSet(G(n)) /\ Cardinality(G(n)) = Along(f, path) /\ G(n) \subseteq cut
  BY <1>4, <1>8
<1>10. path[n] \in cut => path[n] \in G(n)
  BY <1>1
<1>11. path[n] \in Vertex /\ (f[path[n]] = IF path[n] \in cut THEN 1 ELSE 0)
  BY <1>1, <1>3
<1> HIDE DEF G, f, cut
<1>12. Cardinality(G(n)) <= Cardinality(cut) /\ Cardinality(G(n)) \in Nat
  BY <1>2, <1>9, FS_Subset, FS_CardinalityType
<1>13. path[n] \in cut => Cardinality(G(n)) >= 1
  <2> SUFFICES ASSUME path[n] \in cut PROVE Cardinality(G(n)) >= 1  OBVIOUS
  <2>1. G(n) # {}  BY <1>10
  <2>2. Cardinality(G(n)) # 0  BY <1>9, <2>1, FS_EmptySet
  <2> QED BY <1>12, <2>2
<1>14. Along(f, path) \in 0..3  BY <1>2, <1>9, <1>12
<1>15. f[path[n]] <= Along(f, path)  BY <1>9, <1>11, <1>12, <1>13
<1> QED BY <1>14, <1>15 DEF f

(* Of the orders of a set of customers the pool keeps one that is no longer. *)
LEMMA AddedHas ==
  ASSUME NEW P, NEW C, \A s \in P \cup C : s.dur \in Nat, NEW r \in P \cup C
  PROVE  \E s \in Added(P, C) : Inner(s.path) = Inner(r.path) /\ s.dur <= r.dur
<1> DEFINE of(V) == {c \in C \cup P : Inner(c.path) = V}
           best(V) == CHOOSE c \in of(V) : \A o \in of(V) : c.dur <= o.dur
           V0 == Inner(r.path)
           D == {c.dur : c \in of(V0)}
<1>1. r \in of(V0)  OBVIOUS
<1>2. D \subseteq Nat /\ D # {}  BY <1>1
<1>3. PICK x \in D : \A y \in D : x <= y  BY <1>2, LeastNat
<1>4. PICK c \in of(V0) : x = c.dur  BY <1>3
<1>5. \A o \in of(V0) : c.dur <= o.dur  BY <1>3, <1>4
<1>6. best(V0) \in of(V0) /\ \A o \in of(V0) : best(V0).dur <= o.dur  BY <1>4, <1>5
<1>7. Added(P, C) = {best(Inner(s.path)) : s \in C \cup P}
  BY DEF Added
<1>8. Inner(best(V0).path) = V0 /\ best(V0).dur <= r.dur  BY <1>1, <1>6
<1>9. best(V0) \in Added(P, C)
  <2> HIDE DEF best
  <2> QED BY <1>7
<1> QED BY <1>8, <1>9

-----------------------------------------------------------------------------
(* A route with the times it is at its stops, as a course from either end. *)
Twin(o, x, F, B) ==
  /\ Course(F) /\ F.d = 0 /\ F.path = o /\ F.from = x[1]
  /\ Course(B) /\ B.d = 1 /\ B.path = Reverse(o) /\ B.from = T - x[Len(o)]
  /\ x \in [1..Len(o) -> 0..T]
  /\ \A i \in 1..Len(o) : F.at[i] = {x[i]} /\ T - x[i] \in B.at[Len(o) + 1 - i]
  /\ \A i \in 1..Len(o) - 1 : x[i] <= x[i + 1] /\ F.gate[i] = x[i + 1]
  /\ \A i \in 2..Len(o) : B.gate[Len(o) + 1 - i] = T - x[i]

(* A forward and a backward label of a route meet at their stop in the time it takes. *)
Fast(l, m, t, c) ==
  /\ t \in Rw(l) /\ T - t \in Rw(m) /\ l.dur[t] + m.dur[T - t] <= c

LEMMA MeetingFound ==
  ASSUME Setting, NEW l, Good(prob, vrp, 0, l), NEW m, Good(prob, vrp, 1, m), NEW t, NEW c \in Int,
         Fast(l, m, t, c)
  PROVE  Meeting(l, m) # {} /\ Min(Meeting(l, m)) \in Int /\ Min(Meeting(l, m)) <= c
<1> DEFINE mt == {T - s : s \in Rw(m)}
<1>0. T \in Nat /\ Good(prob, vrp, 0, l) /\ Good(prob, vrp, 1, m)  BY SettingIs DEF Sane
<1>1. Rw(l) \subseteq 0..T /\ Rw(l) # {} /\ l.dur \in [Rw(l) -> Nat]  BY <1>0, LabelTypes
<1>2. Rw(m) \subseteq 0..T /\ Rw(m) # {} /\ m.dur \in [Rw(m) -> Nat]  BY <1>0, LabelTypes
<1>3. t \in Rw(l) /\ T - t \in Rw(m) /\ l.dur[t] + m.dur[T - t] <= c /\ t \in 0..T
  BY <1>1 DEF Fast
<1>4. t \in mt /\ mt \subseteq 0..T
  <2>1. t = T - (T - t)  BY <1>0, <1>3
  <2> QED BY <1>0, <1>2, <1>3, <2>1
<1>5. Min(mt) \in mt /\ Min(mt) <= t /\ \A y \in mt : Min(mt) <= y
  <2>1. mt \subseteq Int /\ mt # {} /\ 0 \in Int /\ \A s \in mt : 0 <= s  BY <1>0, <1>4
  <2> HIDE DEF mt
  <2> QED BY <1>4, <2>1, MinIs
<1>6. Max(Rw(l)) \in Rw(l) /\ t <= Max(Rw(l)) /\ Max(Rw(m)) \in Rw(m) /\ \A s \in Rw(m) : s <= Max(Rw(m))
  <2>1. /\ Rw(l) \subseteq Int /\ T \in Int /\ \A s \in Rw(l) : s <= T
        /\ Rw(m) \subseteq Int /\ \A s \in Rw(m) : s <= T
    BY <1>0, <1>1, <1>2
  <2> QED BY <1>1, <1>2, <1>3, <2>1, MaxIs
<1>7. l.dur[t] + m.dur[T - t] \in Meeting(l, m)
  <2>1. CASE Min(mt) >= Max(Rw(l))
    <3>1. Min(mt) = t /\ Max(Rw(l)) = t
      <4> HIDE DEF mt
      <4>a. Min(mt) \in 0..T /\ Max(Rw(l)) \in 0..T  BY <1>1, <1>4, <1>5, <1>6
      <4>1. Min(mt) \in Int /\ Max(Rw(l)) \in Int /\ t \in Int  BY <1>0, <1>3, <4>a
      <4> QED BY <1>5, <1>6, <2>1, <4>1
    <3>2. Max(Rw(m)) = T - t
      <4>1. Max(Rw(m)) \in 0..T /\ T - t <= Max(Rw(m))  BY <1>2, <1>3, <1>6
      <4>2. T - Max(Rw(m)) \in mt  BY <1>6
      <4>3. t <= T - Max(Rw(m))  BY <1>5, <3>1, <4>2
      <4> QED BY <1>0, <1>3, <4>1, <4>3
    <3>3. Meeting(l, m) = {l.dur[Max(Rw(l))] + m.dur[Max(Rw(m))] + Min(mt) - Max(Rw(l))}
      BY <2>1 DEF Meeting
    <3>4. l.dur[t] \in Int /\ m.dur[T - t] \in Int  BY <1>1, <1>2, <1>3
    <3>5. l.dur[t] + m.dur[T - t] = l.dur[t] + m.dur[T - t] + t - t  BY <1>3, <3>4
    <3> HIDE DEF mt
    <3> QED BY <3>1, <3>2, <3>3, <3>5
  <2>2. CASE ~(Min(mt) >= Max(Rw(l)))
    <3>1. Meeting(l, m) = {l.dur[s] + m.dur[T - s] : s \in Rw(l) \cap mt}  BY <2>2 DEF Meeting
    <3> QED BY <1>3, <1>4, <3>1
  <2> QED BY <2>1, <2>2
<1>8. \A e \in Meeting(l, m) : e \in Nat
  BY <1>0, MeetingNat
<1>9. Min(Meeting(l, m)) \in Meeting(l, m) /\ Min(Meeting(l, m)) <= l.dur[t] + m.dur[T - t]
  <2>1. Meeting(l, m) \subseteq Int /\ Meeting(l, m) # {} /\ 0 \in Int /\ \A e \in Meeting(l, m) : 0 <= e
    BY <1>7, <1>8
  <2> QED BY <1>7, <2>1, MinIs
<1>10. l.dur[t] + m.dur[T - t] \in Nat /\ Min(Meeting(l, m)) \in Nat  BY <1>7, <1>8, <1>9
<1> QED BY <1>3, <1>7, <1>9, <1>10

LEMMA CutCostSum ==
  ASSUME Setting, NEW a \in Nat, NEW b \in Nat, a + b <= 3
  PROVE  CutCost(a + b) <= CutCost(a) + CutCost(b)
<1>1. prob.sigma \in Int /\ prob.sigma <= 0
  BY SettingIs DEF Posed
<1> DEFINE s == prob.sigma
<1>2. s \in Int /\ s <= 0  BY <1>1
<1>3. CutCost(a + b) = (IF a + b >= 2 THEN s ELSE 0) /\ CutCost(a) = (IF a >= 2 THEN s ELSE 0)
      /\ CutCost(b) = (IF b >= 2 THEN s ELSE 0)
  BY DEF CutCost
<1> HIDE DEF s
<1> QED BY <1>2, <1>3

(* The two halves of a route, at its i-th stop. *)
Halves(o, i, a, b) ==
  /\ o \in Seq(Vertex) /\ Len(o) >= 3 /\ IsInjective(o) /\ o[i] \in Vertex
  /\ Len(o) + 1 - i \in 1..Len(o)
  /\ a \in Seq(Vertex) /\ Len(a) = i /\ a[i] = o[i]
  /\ b \in Seq(Vertex) /\ Len(b) = Len(o) + 1 - i /\ b[Len(b)] = o[i]
  /\ a \o Reverse(Front(b)) = o
  /\ Range(a) \cap Range(b) = {o[i]}

LEMMA TwinParts ==
  ASSUME Setting, NEW o, NEW x, NEW F, NEW B, Twin(o, x, F, B), NEW i \in 1..Len(o),
         NEW a, NEW b, a = SubSeq(F.path, 1, i), b = SubSeq(B.path, 1, Len(o) + 1 - i)
  PROVE  Halves(o, i, a, b) /\ Len(B.path) = Len(o)
<1> DEFINE n == Len(o)
           r == Reverse(o)
           k == n + 1 - i
<1>1. o \in Seq(Vertex) /\ n >= 3 /\ n \in Nat /\ IsInjective(o) /\ F.path = o /\ B.path = r
      /\ Course(F) /\ Course(B)
  <2>1. F.path = o /\ B.path = r /\ Course(F) /\ Course(B)  BY DEF Twin
  <2>2. F.path \in Seq(Vertex) /\ Len(F.path) >= 3 /\ IsInjective(F.path)
    <3> HIDE DEF r
    <3> QED BY <2>1 DEF Course
  <2> HIDE DEF r
  <2> QED BY <2>1, <2>2
<1>2. r \in Seq(Vertex) /\ Len(r) = n /\ \A j \in 1..n : r[j] = o[n + 1 - j]
  <2>1. r = [j \in 1..n |-> o[(n - j) + 1]]  BY DEF Reverse
  <2>2. \A j \in 1..n : (n - j) + 1 \in 1..n /\ (n - j) + 1 = n + 1 - j  BY <1>1
  <2>3. \A j \in 1..n : o[n + 1 - j] \in Vertex  BY <1>1, <2>2, ElementOfSeq
  <2>4. r = [j \in 1..n |-> o[n + 1 - j]]  BY <2>1, <2>2
  <2> HIDE DEF r
  <2>5. r \in [1..n -> Vertex]  BY <2>3, <2>4
  <2> QED BY <1>1, <2>4, <2>5
<1>3. k \in 1..n /\ i \in 1..n /\ n + 1 - k = i
  BY <1>1
<1> HIDE DEF r, k
<1>4. a \in Seq(Vertex) /\ Len(a) = i /\ \A j \in 1..i : a[j] = o[j]
  BY <1>1, <1>3, CourseParts
<1>5. b \in Seq(Vertex) /\ Len(b) = k /\ \A j \in 1..k : b[j] = o[n + 1 - j]
  <2>1. b = SubSeq(B.path, 1, k) /\ k \in 1..Len(B.path)  BY <1>1, <1>2, <1>3 DEF k
  <2>2. b \in Seq(Vertex) /\ Len(b) = k /\ \A j \in 1..k : b[j] = B.path[j]
    BY <1>1, <2>1, CourseParts
  <2>3. \A j \in 1..k : j \in 1..n  BY <1>1, <1>3
  <2> QED BY <1>1, <1>2, <2>2, <2>3
<1>6. a[i] = o[i] /\ b[k] = o[i] /\ o[i] \in Vertex
  <2>1. i \in 1..i /\ k \in 1..k  BY <1>1, <1>3
  <2> QED BY <1>1, <1>3, <1>4, <1>5, <2>1, ElementOfSeq
<1>7. a \o Reverse(Front(b)) = o
  <2> DEFINE c == a \o Reverse(Front(b))
  <2>1. /\ c \in Seq(Vertex) /\ Len(c) = Len(a) + Len(b) - 1
        /\ \A j \in 1..Len(a) + Len(b) - 1 : c[j] = IF j <= Len(a) THEN a[j] ELSE b[Len(a) + Len(b) - j]
    <3>1. Len(b) >= 1  BY <1>3, <1>5
    <3> QED BY <1>4, <1>5, <3>1, JoinedParts
  <2>2. Len(a) + Len(b) - 1 = n  BY <1>1, <1>3, <1>4, <1>5 DEF k
  <2> HIDE DEF c
  <2>3. \A j \in 1..n : c[j] = o[j]
    <3> SUFFICES ASSUME NEW j \in 1..n PROVE c[j] = o[j]  OBVIOUS
    <3>1. CASE j <= i
      <4>1. j \in 1..i  BY <3>1
      <4> QED BY <1>4, <2>1, <2>2, <3>1, <4>1
    <3>2. CASE ~(j <= i)
      <4>1. i + k - j \in 1..k /\ n + 1 - (i + k - j) = j  BY <1>1, <1>3, <3>2 DEF k
      <4> QED BY <1>4, <1>5, <2>1, <2>2, <3>2, <4>1
    <3> QED BY <3>1, <3>2
  <2>4. c = o  BY <1>1, <2>1, <2>2, <2>3, SeqEqual
  <2> QED BY <2>4 DEF c
<1>8. Range(a) \cap Range(b) = {o[i]}
  <2>1. DOMAIN a = 1..i /\ DOMAIN b = 1..k /\ DOMAIN o = 1..n  BY <1>1, <1>4, <1>5
  <2>2. o[i] \in Range(a) /\ o[i] \in Range(b)
    <3>1. i \in DOMAIN a /\ k \in DOMAIN b  BY <1>3, <2>1
    <3> QED BY <1>6, <3>1 DEF Range
  <2>3. ASSUME NEW v \in Range(a), v \in Range(b) PROVE v = o[i]
    <3>1. PICK j \in 1..i : v = o[j]  BY <1>4, <2>1, <2>3 DEF Range
    <3>2. PICK h \in 1..k : v = o[n + 1 - h]  BY <1>5, <2>1, <2>3 DEF Range
    <3>3. j \in 1..n /\ n + 1 - h \in 1..n /\ n + 1 - h >= i  BY <1>1, <1>3 DEF k
    <3>4. j = n + 1 - h
      <4>1. o[j] = o[n + 1 - h]  BY <3>1, <3>2
      <4> QED BY <1>1, <2>1, <3>3, <4>1 DEF IsInjective
    <3>5. j = i  BY <1>1, <1>3, <3>1, <3>3, <3>4
    <3> QED BY <3>1, <3>5
  <2> QED BY <2>2, <2>3
<1>9. Len(B.path) = n /\ n + 1 - i \in 1..n /\ Len(b) = n + 1 - i /\ b[Len(b)] = o[i]
  BY <1>1, <1>2, <1>3, <1>5, <1>6 DEF k
<1> QED BY <1>1, <1>4, <1>5, <1>6, <1>7, <1>8, <1>9 DEF Halves

LEMMA TwinWorth ==
  ASSUME Setting, NEW o, NEW x, NEW F, NEW B, Twin(o, x, F, B)
  PROVE  /\ Along(Loads(prob), o) <= Raw[prob.net].room
         /\ x[Len(o)] - x[1] - Along(Profits(prob), o) - CutCost(Along(Counts(prob), o)) < 0
         /\ x[1] \in Int /\ x[Len(o)] \in Int
<1> DEFINE n == Len(o)
<1>1. Course(F) /\ F.path = o /\ F.from = x[1] /\ x \in [1..n -> 0..T] /\ \A i \in 1..n : F.at[i] = {x[i]}
  BY DEF Twin
<1>2. o \in Seq(Vertex) /\ n >= 3 /\ n \in Nat
  <2>1. F.path \in Seq(Vertex) /\ Len(F.path) >= 3  BY <1>1 DEF Course
  <2> QED BY <1>1, <2>1
<1>3. 1 \in 1..n /\ n \in 1..n /\ n - 1 \in 1..n - 1 /\ n - 1 + 1 = n
  BY <1>2
<1>4. Along(Loads(prob), o) <= Raw[prob.net].room
  <2>1. Leading(F, n - 1)
    <3>1. n - 1 \in 1..Len(F.path) - 1  BY <1>1, <1>3
    <3> QED BY <1>1, <3>1 DEF Course
  <2>2. Along(Loads(prob), SubSeq(F.path, 1, n - 1 + 1)) <= Raw[prob.net].room
    BY <2>1 DEF Leading
  <2>3. SubSeq(o, 1, n) = o
    <3>1. /\ SubSeq(F.path, 1, n) \in Seq(Vertex) /\ Len(SubSeq(F.path, 1, n)) = n
          /\ \A j \in 1..n : SubSeq(F.path, 1, n)[j] = F.path[j]
      <4>1. n \in 1..Len(F.path)  BY <1>1, <1>3
      <4> QED BY <1>1, <4>1, CourseParts
    <3>2. SubSeq(o, 1, n) \in Seq(Vertex) /\ Len(SubSeq(o, 1, n)) = n
          /\ \A j \in 1..n : SubSeq(o, 1, n)[j] = o[j]
      BY <1>1, <3>1
    <3> DEFINE c == SubSeq(o, 1, n)
    <3>3. c \in Seq(Vertex) /\ Len(c) = Len(o) /\ \A j \in 1..Len(o) : c[j] = o[j]  BY <3>2
    <3> HIDE DEF c
    <3>4. c = o  BY <1>2, <3>3, SeqEqual
    <3> QED BY <3>4 DEF c
  <2> QED BY <1>1, <1>3, <2>2, <2>3
<1>5. \E t \in F.at[n] : t - x[1] - Along(Profits(prob), o) - CutCost(Along(Counts(prob), o)) < 0
  <2>1. \E t \in F.at[Len(F.path)] :
          t - F.from - Along(Profits(prob), F.path) - CutCost(Along(Counts(prob), F.path)) < 0
    BY <1>1 DEF Course
  <2> QED BY <1>1, <2>1
<1>6. x[1] \in 0..T /\ x[n] \in 0..T /\ T \in Nat  BY <1>1, <1>3, SettingIs DEF Sane
<1> QED BY <1>1, <1>3, <1>4, <1>5, <1>6

(* The meeting of two labels that cover a route from its ends to a stop of it. *)
LEMMA TwinMerged ==
  ASSUME Setting, NEW o, NEW x, NEW F, NEW B, Twin(o, x, F, B), NEW i \in 1..Len(o),
         NEW l, Good(prob, vrp, 0, l), Covers(F, i, l),
         NEW m, Good(prob, vrp, 1, m), Covers(B, Len(o) + 1 - i, m)
  PROVE  /\ At(l) = At(m)
         /\ \E r \in Merged(l, m) : r.path = o /\ r.dur <= x[Len(o)] - x[1]
         /\ \E r \in Merged(m, l) : r.path = o /\ r.dur <= x[Len(o)] - x[1]
<1> DEFINE n == Len(o)
           a == l.path
           b == m.path
           v == o[i]
           c == x[n] - x[1]
           P == Along(Profits(prob), o)
           K == Along(Counts(prob), o)
           room == Raw[prob.net].room
           h == Hits(v)
           pv == Profit(v)
           meet == Meeting(l, m)
           k == n + 1 - i
           D == Demand(v)
           A == Along(Loads(prob), o)
           dl == l.dur[x[i]]
           dm == m.dur[T - x[i]]
           lq == l.q
           lp == l.p
           ln == l.n
           mq == m.q
           mp == m.p
           mn == m.n
<1>1. /\ Course(F) /\ F.d = 0 /\ F.from = x[1] /\ Course(B) /\ B.d = 1 /\ B.from = T - x[n]
      /\ x \in [1..n -> 0..T] /\ F.at[i] = {x[i]} /\ T - x[i] \in B.at[k]
  BY DEF Twin
<1>2. a = SubSeq(F.path, 1, i) /\ b = SubSeq(B.path, 1, k)
      /\ x[i] \in Rw(l) /\ l.dur[x[i]] <= x[i] - x[1]
      /\ T - x[i] \in Rw(m) /\ m.dur[T - x[i]] <= (T - x[i]) - (T - x[n])
  <2>1. /\ l.path = SubSeq(F.path, 1, i) /\ \A t \in F.at[i] : t \in Rw(l) /\ l.dur[t] <= t - F.from
    BY DEF Covers
  <2>2. /\ m.path = SubSeq(B.path, 1, k) /\ \A t \in B.at[k] : t \in Rw(m) /\ m.dur[t] <= t - B.from
    BY DEF Covers
  <2> HIDE DEF k
  <2> QED BY <1>1, <2>1, <2>2
<1>3. /\ o \in Seq(Vertex) /\ n >= 3 /\ IsInjective(o) /\ v \in Vertex
      /\ k \in 1..n
      /\ a \in Seq(Vertex) /\ Len(a) = i /\ a[i] = v
      /\ b \in Seq(Vertex) /\ Len(b) = k /\ b[Len(b)] = v
      /\ a \o Reverse(Front(b)) = o
      /\ Range(a) \cap Range(b) = {v}
  <2>1. a = SubSeq(F.path, 1, i) /\ b = SubSeq(B.path, 1, Len(o) + 1 - i)  BY <1>2
  <2> HIDE DEF a, b
  <2>2. Halves(o, i, a, b)
    BY <2>1, TwinParts
  <2> QED BY <2>2 DEF Halves
<1>4. /\ Along(Loads(prob), o) <= room /\ c - P - CutCost(K) < 0 /\ c \in Int
      /\ x[1] \in Int /\ x[n] \in Int
  <2>1. /\ Along(Loads(prob), o) <= Raw[prob.net].room
        /\ x[Len(o)] - x[1] - Along(Profits(prob), o) - CutCost(Along(Counts(prob), o)) < 0
        /\ x[1] \in Int /\ x[Len(o)] \in Int
    BY TwinWorth
  <2>2. c \in Int  BY <2>1
  <2>3. c - P - CutCost(K) < 0
    <3> HIDE DEF P, K
    <3> QED BY <2>1 DEF P, K
  <2> QED BY <2>1, <2>2, <2>3
<1>5. T \in Nat /\ x[i] \in Int
  BY <1>1, SettingIs DEF Sane
<1>6. l.q = Along(Loads(prob), a) /\ l.p = Along(Profits(prob), a) /\ l.n = Along(Counts(prob), a)
      /\ m.q = Along(Loads(prob), b) /\ m.p = Along(Profits(prob), b) /\ m.n = Along(Counts(prob), b)
      /\ IsInjective(a) /\ IsInjective(b) /\ a[1] = Start /\ b[1] = End
  <2>1. Shaped(prob, vrp, 0, l) /\ Shaped(prob, vrp, 1, m)  BY DEF Good
  <2> QED BY <2>1 DEF Shaped, From
<1>7. Loads(prob)[v] = Demand(v) /\ Profits(prob)[v] = pv /\ Counts(prob)[v] = h
  BY <1>3 DEF Loads, Profits, Counts, Demand, Profit, Hits
<1>8. At(l) = v /\ At(m) = v
  <2>1. At(l) = l.path[Len(l.path)] /\ At(m) = m.path[Len(m.path)]  BY LabelTypes
  <2> QED BY <1>3, <2>1
<1>9. /\ lq \in Int /\ lp \in Int /\ ln \in Int /\ mq \in Int /\ mp \in Int /\ mn \in Int
      /\ dl \in Nat /\ dm \in Nat /\ D \in Int /\ pv \in Int /\ h \in {0, 1}
      /\ dl <= x[i] - x[1] /\ dm <= (T - x[i]) - (T - x[n])
  <2>1. l.q \in Int /\ l.p \in Int /\ l.n \in Int /\ l.dur \in [Rw(l) -> Nat]  BY LabelTypes
  <2>2. m.q \in Int /\ m.p \in Int /\ m.n \in Int /\ m.dur \in [Rw(m) -> Nat]  BY LabelTypes
  <2>3. Demand(v) \in Int /\ pv \in Int /\ h \in {0, 1}
    <3>1. Loads(prob)[v] \in Int /\ Profits(prob)[v] \in Int
      BY <1>3, SumFunctions DEF Setting
    <3>2. h \in {0, 1}  BY DEF Hits
    <3> HIDE DEF h, pv, v
    <3> QED BY <1>7, <3>1, <3>2
  <2> QED BY <1>2, <2>1, <2>2, <2>3
<1>11. A = lq + mq - D /\ P = lp + mp - pv /\ K = ln + mn - h
  <2>1. ASSUME NEW f \in [Vertex -> Int] PROVE Along(f, o) = Along(f, a) + Along(f, b) - f[v]
    <3>1. /\ Len(a) >= 1 /\ Len(b) >= 1 /\ a[Len(a)] = v /\ b[Len(b)] = v
          /\ a \in Seq(Vertex) /\ b \in Seq(Vertex) /\ f \in [Vertex -> Int]
      BY <1>3, <2>1
    <3> HIDE DEF a, b, v
    <3>2. Along(f, a \o Reverse(Front(b))) = Along(f, a) + Along(f, b) - f[v]
      BY ONLY <3>1, SumJoined
    <3> QED BY <1>3, <3>2
  <2>2. Loads(prob) \in [Vertex -> Int] /\ Profits(prob) \in [Vertex -> Int] /\ Counts(prob) \in [Vertex -> Int]
    BY SumFunctions DEF Setting
  <2>3. /\ A = Along(Loads(prob), a) + Along(Loads(prob), b) - Loads(prob)[v]
        /\ P = Along(Profits(prob), a) + Along(Profits(prob), b) - Profits(prob)[v]
        /\ K = Along(Counts(prob), a) + Along(Counts(prob), b) - Counts(prob)[v]
    BY <2>1, <2>2
  <2> QED BY <1>6, <1>7, <2>3
<1>12. K \in 0..3 /\ ln \in Nat /\ mn \in Nat /\ h <= ln /\ h <= mn
  <2>1. K \in 0..3  BY <1>3, CountsIs
  <2>2. Along(Counts(prob), a) \in 0..3 /\ Counts(prob)[a[Len(a)]] <= Along(Counts(prob), a)
    <3>1. Len(a) >= 1  BY <1>3
    <3> QED BY <1>3, <1>6, <3>1, CountsIs
  <2>3. Along(Counts(prob), b) \in 0..3 /\ Counts(prob)[b[Len(b)]] <= Along(Counts(prob), b)
    <3>1. Len(b) >= 1  BY <1>3
    <3> QED BY <1>3, <1>6, <3>1, CountsIs
  <2>4. Counts(prob)[a[Len(a)]] = h /\ Counts(prob)[b[Len(b)]] = h  BY <1>3, <1>7
  <2>5. ln \in 0..3 /\ mn \in 0..3 /\ h <= ln /\ h <= mn  BY <1>6, <2>2, <2>3, <2>4
  <2> HIDE DEF ln, mn, K, h
  <2> QED BY <2>1, <2>5
<1>c. \A j : CutCost(j) \in Int
  BY CutCostInt
<1>15. /\ MinCost(l) \in Int /\ MinCost(m) \in Int
       /\ MinCost(l) <= dl - lp - CutCost(ln) /\ MinCost(m) <= dm - mp - CutCost(mn)
  BY <1>2, MinCostIs
<1>d. dl + dm <= c
  <2> DEFINE xi == x[i]
             x1 == x[1]
             xn == x[n]
  <2>1. dl <= xi - x1 /\ dm <= (T - xi) - (T - xn) /\ xi \in Int /\ x1 \in Int /\ xn \in Int
    BY <1>4, <1>5, <1>9
  <2>2. dl + dm <= xn - x1
    <3> HIDE DEF dl, dm, xi, x1, xn
    <3> QED BY <1>5, <1>9, <2>1
  <2> QED BY <2>2
<1>13. Fast(l, m, x[i], c)
  BY <1>2, <1>d DEF Fast
<1>14. meet # {} /\ Min(meet) \in Int /\ Min(meet) <= c
  BY <1>4, <1>13, MeetingFound
<1>w. A <= room /\ c - P - CutCost(K) < 0 /\ c \in Int
  BY <1>4
<1> HIDE DEF ln, mn, lp, mp, lq, mq, dl, dm, D, A, P, K, h, pv, c, room
<1>17. CutCost(K) <= CutCost(ln - h) + CutCost(mn) /\ CutCost(K) <= CutCost(mn - h) + CutCost(ln)
       /\ ln - h + mn = K /\ mn - h + ln = K
  <2>1. ln - h \in Nat /\ mn - h \in Nat /\ ln - h + mn = K /\ mn - h + ln = K /\ K <= 3
    BY <1>9, <1>11, <1>12
  <2>2. CutCost(ln - h + mn) <= CutCost(ln - h) + CutCost(mn)  BY <1>12, <2>1, CutCostSum
  <2>3. CutCost(mn - h + ln) <= CutCost(mn - h) + CutCost(ln)  BY <1>12, <2>1, CutCostSum
  <2> QED BY <2>1, <2>2, <2>3
<1>18. Promising(l, m) /\ Promising(m, l)
  <2>2. lq + mq - D <= room /\ mq + lq - D <= room  BY <1>9, <1>11, <1>w
  <2>3. /\ MinCost(m) + MinCost(l) + pv + CutCost(ln) - CutCost(ln - h) < 0
        /\ MinCost(l) + MinCost(m) + pv + CutCost(mn) - CutCost(mn - h) < 0
    <3> DEFINE cl == CutCost(ln)
               cm == CutCost(mn)
               cK == CutCost(K)
               clh == CutCost(ln - h)
               cmh == CutCost(mn - h)
               ml == MinCost(l)
               mm == MinCost(m)
    <3>1. /\ ml <= dl - lp - cl /\ mm <= dm - mp - cm /\ cK <= clh + cm /\ cK <= cmh + cl
          /\ c - P - cK < 0 /\ cl \in Int /\ cm \in Int /\ cK \in Int /\ clh \in Int
          /\ cmh \in Int /\ ml \in Int /\ mm \in Int
      BY <1>c, <1>15, <1>17, <1>w
    <3> HIDE DEF cl, cm, cK, clh, cmh, ml, mm
    <3>2. mm + ml + pv + cl - clh < 0 /\ ml + mm + pv + cm - cmh < 0
      BY <1>9, <1>11, <1>d, <1>w, <3>1
    <3> QED BY <3>2 DEF cl, cm, clh, cmh, ml, mm
  <2> QED BY <1>8, <2>2, <2>3 DEF Promising, D, lq, mq, ln, mn, h, v, room, pv
<1>19. Min(Rw(l)) <= T - Min(Rw(m)) /\ Min(Rw(m)) <= T - Min(Rw(l))
  <2>1. Rw(l) \subseteq 0..T /\ Rw(m) \subseteq 0..T  BY LabelTypes
  <2>2. Min(Rw(l)) \in Rw(l) /\ Min(Rw(l)) <= x[i]
    <3>1. Rw(l) \subseteq Int /\ Rw(l) # {} /\ 0 \in Int /\ \A s \in Rw(l) : 0 <= s  BY <1>2, <1>5, <2>1
    <3> QED BY <1>2, <3>1, MinIs
  <2>3. Min(Rw(m)) \in Rw(m) /\ Min(Rw(m)) <= T - x[i]
    <3>1. Rw(m) \subseteq Int /\ Rw(m) # {} /\ 0 \in Int /\ \A s \in Rw(m) : 0 <= s  BY <1>2, <1>5, <2>1
    <3> QED BY <1>2, <3>1, MinIs
  <2>4. Min(Rw(l)) \in Int /\ Min(Rw(m)) \in Int  BY <1>5, <2>1, <2>2, <2>3
  <2> QED BY <1>5, <2>2, <2>3, <2>4
<1>20. /\ Min(meet) - lp - mp + pv - CutCost(ln - h + mn) < 0
       /\ Min(meet) - mp - lp + pv - CutCost(mn - h + ln) < 0
  <2> DEFINE cK == CutCost(K)
             e == Min(meet)
  <2>1. e <= c /\ c - P - cK < 0 /\ e \in Int /\ cK \in Int
    BY <1>c, <1>14, <1>w
  <2>2. e - lp - mp + pv - cK < 0 /\ e - mp - lp + pv - cK < 0
    <3> HIDE DEF e, cK
    <3> QED BY <1>9, <1>11, <1>w, <2>1
  <2> QED BY <1>17, <2>2
<1>21. Start # End
  BY SettingIs, Vertices DEF Sane
<1>22. Joined(l, m) = o
  BY <1>3 DEF Joined, Parent
<1> DEFINE r == [path |-> Joined(l, m), dur |-> Min(meet)]
<1>23. r.path = o /\ r.dur <= c
  BY <1>14, <1>22 DEF c
<1>24. r \in Merged(l, m)
  <2>1. l.path[1] = Start /\ Range(l.path) \cap Range(m.path) = {At(l)}  BY <1>3, <1>6, <1>8
  <2> QED BY <1>8, <1>14, <1>18, <1>19, <1>20, <2>1 DEF Merged, ln, mn, lp, mp, h, pv, v
<1>25. r \in Merged(m, l)
  <2>1. m.path[1] # Start /\ Range(m.path) \cap Range(l.path) = {At(m)}  BY <1>3, <1>6, <1>8, <1>21
  <2> QED BY <1>8, <1>14, <1>18, <1>19, <1>20, <2>1 DEF Merged, ln, mn, lp, mp, h, pv, v
<1> HIDE DEF r
<1> QED BY <1>8, <1>23, <1>24, <1>25 DEF c

-----------------------------------------------------------------------------
(* Both searches and the merges. *)
LEMMA MiddleLess ==
  ASSUME T \in Nat, tm \in [Dir -> 0..T], dir \in Dir, \A e \in q[dir] : e.makespan \in Nat,
         tm[0] + tm[1] >= T
  PROVE  Middle[0] <= tm[0] /\ Middle[1] <= tm[1] /\ Middle[0] + Middle[1] >= T
<1>1. dir \in Dir /\ 1 - dir \in Dir /\ tm[dir] \in 0..T /\ tm[1 - dir] \in 0..T
      /\ tm[dir] + tm[1 - dir] >= T
      /\ ((dir = 0 /\ 1 - dir = 1) \/ (dir = 1 /\ 1 - dir = 0))
  BY DEF Dir
<1>2. CASE q[dir] = {}
  <2>1. T - tm[1 - dir] <= tm[dir] /\ T - tm[1 - dir] \in 0..T  BY <1>1
  <2>2. Middle = [tm EXCEPT ![dir] = T - tm[1 - dir]]  BY <1>2 DEF Middle
  <2>3. Middle[dir] = T - tm[1 - dir] /\ Middle[1 - dir] = tm[1 - dir]
    BY <1>1, <2>2
  <2> DEFINE u == tm[dir]
             v == tm[1 - dir]
             mu == Middle[dir]
             mv == Middle[1 - dir]
  <2>4. mu <= u /\ mv <= v /\ mu + mv >= T
    <3>1. mu = T - v /\ mv = v /\ u \in 0..T /\ v \in 0..T /\ u + v >= T  BY <1>1, <2>3
    <3> HIDE DEF u, v, mu, mv
    <3> QED BY <3>1
  <2>5. mu \in Int /\ mv \in Int /\ mu + mv = mv + mu
    <3>1. mu = T - v /\ mv = v /\ v \in 0..T  BY <1>1, <2>3
    <3> HIDE DEF u, v, mu, mv
    <3> QED BY <3>1
  <2> QED BY <1>1, <2>4, <2>5
<1>3. CASE q[dir] # {}
  <2> DEFINE spans == {e.makespan : e \in q[dir]}
             top == Min(spans)
             far == Max({T - tm[dir], T - top})
             mid == Min({tm[1 - dir], far})
  <2>1. top \in Nat
    <3>1. spans \subseteq Int /\ 0 \in Int /\ \A x \in spans : 0 <= x  OBVIOUS
    <3>2. spans \subseteq Nat /\ spans # {}  BY <1>3
    <3>3. top \in spans  BY <3>1, <3>2, MinIs
    <3> QED BY <3>2, <3>3
  <2>2. Middle = [tm EXCEPT ![1 - dir] = mid]  BY <1>3 DEF Middle
  <2> HIDE DEF top
  <2>3. T - tm[dir] \in Int /\ T - top \in Int  BY <1>1, <2>1
  <2>4. far = IF T - tm[dir] >= T - top THEN T - tm[dir] ELSE T - top
    BY <2>3, MaxOfTwo
  <2>5. far \in Int /\ T - tm[dir] <= far  BY <1>1, <2>3, <2>4
  <2> HIDE DEF far
  <2>6. mid = IF tm[1 - dir] <= far THEN tm[1 - dir] ELSE far
    BY <1>1, <2>5, MinOfTwo
  <2>7. mid \in Int /\ mid <= tm[1 - dir] /\ mid + tm[dir] >= T
    <3> DEFINE u == tm[dir]
               v == tm[1 - dir]
    <3>1. u \in 0..T /\ v \in 0..T /\ u + v >= T /\ far \in Int /\ T - u <= far
          /\ mid = IF v <= far THEN v ELSE far
      BY <1>1, <2>5, <2>6
    <3>2. mid \in Int /\ mid <= v /\ mid + u >= T
      <4> HIDE DEF u, v, mid
      <4> QED BY <3>1
    <3> QED BY <3>2
  <2> HIDE DEF mid
  <2>8. Middle[dir] = tm[dir] /\ Middle[1 - dir] = mid
    BY <1>1, <2>2
  <2> DEFINE u == tm[dir]
             mu == Middle[dir]
             mv == Middle[1 - dir]
  <2>9. mu <= u /\ mv <= tm[1 - dir] /\ mu + mv >= T /\ mv + mu >= T
    <3>1. mu = u /\ mv = mid /\ u \in 0..T /\ mid \in Int /\ mid <= tm[1 - dir] /\ mid + u >= T
      BY <1>1, <2>7, <2>8
    <3> HIDE DEF u, mu, mv
    <3> QED BY <3>1
  <2> QED BY <1>1, <2>9
<1> QED BY <1>2, <1>3

(* A route of the customers of o in no more time than c is in the pool. *)
Have(o, c) == \E r \in pool : Inner(r.path) = Inner(o) /\ r.dur <= c

LEMMA HaveAdded ==
  ASSUME NEW P, NEW C, \A r \in P \cup C : Promised(prob, vrp, r), NEW o, NEW c \in Int,
         \E r \in P \cup C : Inner(r.path) = Inner(o) /\ r.dur <= c
  PROVE  \E s \in Added(P, C) : Inner(s.path) = Inner(o) /\ s.dur <= c
<1>1. \A r \in P \cup C : r.dur \in Nat  BY DEF Promised
<1>2. PICK r \in P \cup C : Inner(r.path) = Inner(o) /\ r.dur <= c  OBVIOUS
<1>3. PICK s \in Added(P, C) : Inner(s.path) = Inner(r.path) /\ s.dur <= r.dur
  BY <1>1, <1>2, AddedHas
<1>4. s.dur \in Nat /\ r.dur \in Nat
  <2>1. Added(P, C) \subseteq P \cup C  BY <1>1, AddedIs
  <2> QED BY <1>1, <1>3, <2>1
<1> QED BY <1>2, <1>3, <1>4

LEMMA HaveNext ==
  ASSUME Searching, Pooled, [Next]_vars, hit' = {}, NEW o, NEW c \in Int, Have(o, c)
  PROVE  Have(o, c)'
<1>0. \A r \in pool : Promised(prob, vrp, r)  BY DEF Pooled
<1>h. (EndTurn \/ Cross \/ Return) => hit = {}  BY DEF EndTurn, Cross, Return
<1>1. CASE EndTurn
  <2>1. PICK C \in SUBSET Met : pool' = Added(pool, C \cup Complete)  BY <1>1, TriedIs DEF EndTurn
  <2>2. \A r \in pool \cup (C \cup Complete) : Promised(prob, vrp, r)  BY <1>0, TurnPromised
  <2> QED BY <2>1, <2>2, HaveAdded DEF Have
<1>2. CASE Cross
  <2>1. PICK C \in SUBSET Crossing : pool' = Added(pool, C)  BY <1>2, TriedIs DEF Cross
  <2>2. \A r \in pool \cup C : Promised(prob, vrp, r)  BY <1>0, CrossingPromised
  <2> QED BY <2>1, <2>2, HaveAdded DEF Have
<1>3. CASE Return
  <2>1. pool' = Repriced  BY <1>3, <1>h DEF Return
  <2>2. PICK r \in pool : Inner(r.path) = Inner(o) /\ r.dur <= c  BY DEF Have
  <2> DEFINE s == [r EXCEPT !.dur = BestDuration(r.path)]
  <2>3. s \in pool'  BY <2>1, <2>2 DEF Repriced
  <2>4. Promised(prob, vrp, r)  BY <1>0, <2>2
  <2>5. Setting  BY DEF Searching
  <2>6. s.dur = Checked(r.path) /\ s.path = r.path  BY <2>4, <2>5, RepricedIs
  <2>7. Checked(r.path) <= r.dur /\ Checked(r.path) \in Int /\ r.dur \in Int
    <3>1. Route(prob, vrp, r.path) /\ r.dur \in Nat /\ \E k \in Durations(vrp, r.path) : k <= r.dur
      BY <2>4 DEF Promised
    <3>2. PICK k \in Durations(vrp, r.path) : k <= r.dur  BY <3>1
    <3>3. Checked(r.path) \in Durations(vrp, r.path) /\ Checked(r.path) <= k
      BY <2>5, <3>1, <3>2, CheckedIs
    <3>4. Checked(r.path) \in Nat /\ k \in Nat  BY <3>2, <3>3 DEF Durations
    <3> QED BY <3>1, <3>2, <3>3, <3>4
  <2>8. s.dur <= c  BY <2>2, <2>6, <2>7
  <2> HIDE DEF s
  <2> QED BY <2>2, <2>3, <2>6, <2>8 DEF Have
<1>4. CASE ~(EndTurn \/ Cross \/ Return)
  <2>1. pool' = pool
    BY <1>4 DEF Next, Step, Skip, Stop, Enter, Pop, LastArc, Expire, Done, vars
  <2> QED BY <2>1 DEF Have
<1> QED BY <1>1, <1>2, <1>3, <1>4

LEMMA Rising ==
  ASSUME NEW n \in Nat, NEW x \in [1..n -> Int], \A i \in 1..n - 1 : x[i] <= x[i + 1],
         NEW i \in 1..n, NEW j \in i..n
  PROVE  x[i] <= x[j]
<1> DEFINE S == {k \in i..n : x[i] <= x[k]}
<1>1. i..n \subseteq S
  <2>1. i \in Int /\ n \in Int /\ (i <= n => i \in S)  OBVIOUS
  <2>2. \A k \in i..n - 1 : k \in S => k + 1 \in S
    <3> SUFFICES ASSUME NEW k \in i..n - 1, k \in S PROVE k + 1 \in S  OBVIOUS
    <3>1. k \in 1..n - 1 /\ k \in 1..n /\ k + 1 \in 1..n /\ k + 1 \in i..n  OBVIOUS
    <3>2. x[i] <= x[k] /\ x[k] <= x[k + 1] /\ x[i] \in Int /\ x[k] \in Int /\ x[k + 1] \in Int
      BY <3>1
    <3> QED BY <3>1, <3>2
  <2> HIDE DEF S
  <2> QED BY <2>1, <2>2, Induction
<1> QED BY <1>1

Quiet == \A e \in q[0] : e.makespan > tm[0]

(* When nothing that arrives before the middle waits, the forward search has covered what
   arrives by then. *)
LEMMA Ahead ==
  ASSUME Searching, NEW o, NEW x, NEW F, NEW B, Twin(o, x, F, B),
         \E l \in U[0] : Covers(F, 1, l), Pursued(F, U[0], q[0], tm[0]), Quiet,
         NEW i \in 1..Len(o), \A j \in 1..i : x[j] <= tm[0]
  PROVE  \E l \in U[0] : Covers(F, i, l)
<1> DEFINE n == Len(o)
           S == {k \in 1..i : \E l \in U[0] : Covers(F, k, l)}
<1>1. F.path = o /\ F.d = 0 /\ x \in [1..n -> 0..T] /\ (\A k \in 1..n - 1 : F.gate[k] = x[k + 1])
  BY DEF Twin
<1>2. i \in Int /\ n \in Nat /\ i <= n /\ 1 <= i
  <2>1. F.path \in Seq(Vertex)  BY DEF Twin, Course
  <2> QED BY <1>1, <2>1
<1>3. \A k \in 1..i - 1 : k \in S => k + 1 \in S
  <2> SUFFICES ASSUME NEW k \in 1..i - 1, k \in S PROVE k + 1 \in S  OBVIOUS
  <2>1. k \in 1..Len(F.path) - 1 /\ k \in 1..n - 1 /\ k + 1 \in 1..i  BY <1>1, <1>2
  <2>2. F.gate[k] = x[k + 1] /\ x[k + 1] <= tm[0] /\ x[k + 1] \in Int
    <3>1. k + 1 \in 1..n  BY <1>2, <2>1
    <3> QED BY <1>1, <2>1, <3>1, SettingIs DEF Sane, Searching
  <2>3. (\E l \in U[0] : Covers(F, k + 1, l)) \/ \E e \in q[0] : Pending(F, k, e)
    BY <2>1, <2>2 DEF Pursued
  <2>4. ASSUME NEW e \in q[0], Pending(F, k, e) PROVE FALSE
    <3>1. e.makespan <= x[k + 1]  BY <1>1, <2>2, <2>4 DEF Pending
    <3>2. e.makespan > tm[0]  BY <2>4 DEF Quiet
    <3>3. e.makespan \in Int /\ tm[0] \in Int  BY <2>4 DEF Searching, Searched, Waiting, Dir
    <3> QED BY <2>2, <3>1, <3>2, <3>3
  <2> QED BY <2>1, <2>3, <2>4
<1>4. 1..i \subseteq S
  <2>1. 1 \in Int /\ (1 <= i => 1 \in S)  BY <1>2
  <2> HIDE DEF S
  <2> QED BY <1>2, <1>3, <2>1, Induction
<1>5. i \in S  BY <1>2, <1>4
<1> QED BY <1>5

(* When its queue is empty, the backward search has covered what leaves after the middle. *)
LEMMA Behind ==
  ASSUME Searching, NEW o, NEW x, NEW F, NEW B, Twin(o, x, F, B),
         Pursued(B, U[1], q[1], tm[1]), q[1] = {},
         NEW i \in 1..Len(o), \A j \in i + 1..Len(o) : T - x[j] <= tm[1]
  PROVE  \E m \in U[1] : Covers(B, Len(o) + 1 - i, m)
<1> DEFINE n == Len(o)
           k0 == n + 1 - i
           S == {k \in 1..k0 : \E m \in U[1] : Covers(B, k, m)}
<1>1. Len(B.path) = n /\ B.d = 1 /\ (\A j \in 2..n : B.gate[n + 1 - j] = T - x[j]) /\ n \in Nat
  <2>1. F.path \in Seq(Vertex) /\ F.path = o /\ B.path = Reverse(o)  BY DEF Twin, Course
  <2>2. Len(Reverse(o)) = n  BY <2>1 DEF Reverse
  <2> QED BY <2>1, <2>2 DEF Twin
<1>2. k0 \in Int /\ 1 <= k0 /\ k0 <= n
  BY <1>1
<1>3. \A k \in 1..k0 - 1 : k \in S => k + 1 \in S
  <2> SUFFICES ASSUME NEW k \in 1..k0 - 1, k \in S PROVE k + 1 \in S  OBVIOUS
  <2> DEFINE j == n + 1 - k
  <2>1. k \in 1..Len(B.path) - 1 /\ j \in 2..n /\ j \in i + 1..n /\ n + 1 - j = k /\ k + 1 \in 1..k0
    BY <1>1, <1>2
  <2> HIDE DEF j
  <2>2. B.gate[k] <= tm[1]  BY <1>1, <2>1
  <2> QED BY <2>1, <2>2 DEF Pursued
<1>4. 1 \in S
  <2>1. \E m \in U[1] : Covers(B, 1, m)  BY <1>1 DEF Pursued
  <2> QED BY <1>2, <2>1
<1>5. 1..k0 \subseteq S
  <2>1. 1 \in Int /\ (1 <= k0 => 1 \in S)  BY <1>4
  <2> HIDE DEF S, k0
  <2> QED BY <1>2, <1>3, <2>1, Induction
<1>6. k0 \in S
  <2> HIDE DEF k0, S
  <2> QED BY <1>2, <1>5
<1> QED BY <1>6

-----------------------------------------------------------------------------
(* The turns of the two directions, as long as no limit is reached.  The first forward turn
   begins with the root alone and sees all of the horizon. *)
Sure == prob.level = "Exact" /\ hit = {} /\ ~prob.closing /\ prob.start <= ProcessLimit

Rootless == \A e \in q[0] : e.parent # <<>>
Opening ==
  /\ dir = 0 /\ tm[0] = T /\ \A d \in Dir : M[d] = {}
  /\ pc = "mono" \/ (pc = "head" /\ ~Rootless)

Rounds ==
  /\ tm[0] + tm[1] >= T
  /\ \A d \in Dir : U[d] \subseteq M[d] \cup (IF d = dir THEN turn ELSE {})
  /\ dir = 0 => ~processed /\ Cardinality(turn) <= count
  /\ dir = 1 /\ ~processed => Quiet
  /\ \A e \in q[0] : e.parent = <<>> => q[0] = {e} /\ e.makespan <= T /\ turn = {} /\ Opening

LEMMA SureNext ==
  ASSUME Searching, [Next]_vars, Sure'
  PROVE  Sure
<1>1. prob' = prob /\ hit \subseteq hit'
  BY DEF Next, Step, Skip, Stop, Enter, Pop, EndTurn, LastArc, Cross, Return, Expire, Done, vars
<1> QED BY <1>1 DEF Sure

LEMMA RoundsInit ==
  ASSUME Init, Searching
  PROVE  Rounds
<1>1. /\ U = [d \in Dir |-> {}] /\ M = [d \in Dir |-> {}] /\ turn = {} /\ tm = [d \in Dir |-> T]
      /\ dir = 0 /\ processed = FALSE /\ count = 0 /\ pc = "head"
      /\ q = [d \in Dir |-> {[parent |-> <<>>, v |-> From(d), makespan |-> OpenAt(d, From(d))]}]
  BY DEF Init
<1>2. T \in Nat /\ OpenAt(0, From(0)) <= T
  <2>1. Sane(Raw[prob.net]) /\ Ready(Raw[prob.net], vrp)  BY SettingIs DEF Searching
  <2>2. vrp.lo[Start] = Raw[prob.net].lo[Start]  BY <2>1 DEF Ready
  <2>3. T \in Nat /\ Start \in Vertex  BY <2>1, Vertices DEF Sane
  <2>4. Proper(Raw[prob.net])  BY <2>1 DEF Sane
  <2> DEFINE lo == Raw[prob.net].lo
             hi == Raw[prob.net].hi
  <2>5. lo \in [Vertex -> Nat] /\ hi \in [Vertex -> Nat] /\ lo[Start] <= hi[Start] /\ hi[Start] <= T
    BY <2>3, <2>4 DEF Proper
  <2>6. lo[Start] <= T
    <3> HIDE DEF lo, hi
    <3> QED BY <2>3, <2>5
  <2> QED BY <2>2, <2>3, <2>6 DEF OpenAt, Open, From
<1> DEFINE r == [parent |-> <<>>, v |-> From(0), makespan |-> OpenAt(0, From(0))]
<1>3. q[0] = {r} /\ r.parent = <<>> /\ r.makespan <= T
  BY <1>1, <1>2 DEF Dir
<1> HIDE DEF r
<1>4. Opening
  BY <1>1, <1>3 DEF Opening, Rootless, Dir
<1>5. tm[0] + tm[1] >= T  BY <1>1, <1>2 DEF Dir
<1>6. \A d \in Dir : U[d] = {}  BY <1>1
<1>7. Cardinality(turn) <= count  BY <1>1, FS_EmptySet
<1>8. \A e \in q[0] : q[0] = {e} /\ e.makespan <= T
  BY <1>3
<1>9. dir = 0 /\ ~processed /\ turn = {}  BY <1>1
<1> HIDE <1>1, <1>3
<1> QED BY <1>4, <1>5, <1>6, <1>7, <1>8, <1>9 DEF Rounds

LEMMA RoundsTurn ==
  ASSUME Searching, Rounds, Sure, EndTurn
  PROVE  /\ Rounds' /\ Rootless /\ tm'[0] <= tm[0] /\ tm'[1] <= tm[1] /\ tm' \in [Dir -> 0..T]
         /\ (pc' = "last" => Quiet /\ q[1] = {} /\ turn = {} /\ dir = 1)
<1>1. /\ TurnOver /\ hit = {} /\ tm' = Middle /\ turn' = {} /\ M' = [M EXCEPT ![dir] = @ \cup turn]
      /\ U' = U /\ q' = q /\ count' = count /\ AfterTurn(processed \/ turn # {})
      /\ pc = "mono"
  BY DEF EndTurn, Sure
<1>2. /\ tm \in [Dir -> 0..T] /\ T \in Nat /\ dir \in Dir /\ DOMAIN M = Dir /\ 0 \in Dir /\ 1 \in Dir
      /\ (\A d \in Dir : \A e \in q[d] : e.makespan \in Nat) /\ tm[0] \in 0..T /\ tm[1] \in 0..T
      /\ count \in Nat /\ ProcessLimit \in Nat \ {0}
  BY SettingIs, LabelingAssumption DEF Searching, Searched, Waiting, Sane, Dir
<1>3. Middle[0] <= tm[0] /\ Middle[1] <= tm[1] /\ Middle[0] + Middle[1] >= T
  BY <1>2, MiddleLess DEF Rounds
<1>4. Middle \in [Dir -> 0..T]
  BY <1>2, MiddleIs
<1>5. q[dir] = {} \/ Cardinality(turn) >= ProcessLimit \/ (dir = 0 /\ \A e \in q[0] : e.makespan > tm[0])
  BY <1>1 DEF TurnOver
<1>6. turn = {} => ~(Cardinality(turn) >= ProcessLimit)
  <2>1. Cardinality({}) = 0  BY FS_EmptySet
  <2> QED BY <1>2, <2>1
<1>7. Rootless
  <2> SUFFICES ASSUME NEW e \in q[0], e.parent = <<>> PROVE FALSE
    BY DEF Rootless
  <2>1. q[0] = {e} /\ e.makespan <= T /\ turn = {} /\ dir = 0 /\ tm[0] = T
    BY DEF Rounds, Opening
  <2>2. e.makespan \in Nat  BY <1>2
  <2> QED BY <1>2, <1>5, <1>6, <2>1, <2>2
<1>8. /\ dir' = 0 => ~processed'
      /\ dir' = 1 => dir = 0 /\ processed' = (processed \/ turn # {})
      /\ pc' = "last" => dir = 1 /\ ~processed /\ turn = {}
  BY <1>1, <1>2 DEF AfterTurn, Dir
<1>9. dir = 0 /\ turn = {} => Quiet
  BY <1>5, <1>6 DEF Quiet
<1>10. Quiet => Quiet'
  <2> SUFFICES ASSUME Quiet, NEW e \in q[0] PROVE e.makespan > tm'[0]
    BY <1>1 DEF Quiet
  <2>1. e.makespan > tm[0]  BY DEF Quiet
  <2>2. e.makespan \in Nat /\ Middle[0] \in Int  BY <1>2, <1>4
  <2> QED BY <1>1, <1>2, <1>3, <2>1, <2>2
<1>11. dir' \in Dir  BY <1>1, <1>2 DEF AfterTurn, Dir
<1>12. Rounds'
  <2>1. tm'[0] + tm'[1] >= T  BY <1>1, <1>3
  <2>2. \A d \in Dir : U'[d] \subseteq M'[d] \cup (IF d = dir' THEN turn' ELSE {})
    <3> SUFFICES ASSUME NEW d \in Dir PROVE U[d] \subseteq M'[d]  BY <1>1
    <3>1. U[d] \subseteq M[d] \cup (IF d = dir THEN turn ELSE {})  BY DEF Rounds
    <3>2. M'[d] = IF d = dir THEN M[d] \cup turn ELSE M[d]  BY <1>1, <1>2
    <3> QED BY <3>1, <3>2
  <2>3. dir' = 0 => ~processed' /\ Cardinality(turn') <= count'
    <3>1. Cardinality({}) = 0  BY FS_EmptySet
    <3> QED BY <1>1, <1>2, <1>8, <3>1
  <2>4. dir' = 1 /\ ~processed' => Quiet'
    BY <1>8, <1>9, <1>10
  <2>5. \A e \in q'[0] : e.parent # <<>>  BY <1>1, <1>7 DEF Rootless
  <2> HIDE <1>1
  <2> QED BY <2>1, <2>2, <2>3, <2>4, <2>5 DEF Rounds
<1>13. pc' = "last" => Quiet /\ q[1] = {}
  <2> SUFFICES ASSUME pc' = "last" PROVE Quiet /\ q[1] = {}  OBVIOUS
  <2>1. dir = 1 /\ ~processed /\ turn = {}  BY <1>8
  <2> QED BY <1>5, <1>6, <2>1 DEF Rounds
<1> QED BY <1>1, <1>3, <1>4, <1>7, <1>8, <1>12, <1>13

LEMMA RoundsPop ==
  ASSUME Searching, Rounds, NEW e, Popped(e)
  PROVE  /\ Rounds' /\ count' >= count /\ (Opening => Opening')
         /\ (~Rootless => dir = 0 /\ tm[0] = T)
<1> DEFINE new == New(dir, e)
           more == More(dir, new)
<1>1. /\ e \in q[dir] /\ pc = "mono" /\ ~TurnOver /\ dir' = dir /\ tm' = tm /\ M' = M /\ pc' = pc
      /\ processed' = processed /\ turn' = turn \cup new
      /\ U'[dir] = U[dir] \cup new /\ q'[dir] = (q[dir] \ {e}) \cup more
      /\ (\A d \in Dir : d # dir => U'[d] = U[d] /\ q'[d] = q[d])
      /\ count' = IF dir = 0 THEN count + Cardinality(new) ELSE count
  BY DEF Popped
<1>2. /\ dir \in Dir /\ Setting /\ tm \in [Dir -> 0..T] /\ (\A d \in Dir : IsFiniteSet(U[d]))
      /\ (\A d \in Dir : \A l \in U[d] : Good(prob, vrp, d, l))
      /\ (\A d \in Dir : \A f \in q[d] : Waiting(prob, U[d], d, f))
      /\ count \in Nat /\ turn \subseteq U[dir] /\ 0 \in Dir
  BY DEF Searching, Searched, Dir
<1>3. \E y : new \subseteq {y}
  BY <1>1, <1>2, NewIs
<1>4. IsFiniteSet(new) /\ Cardinality(new) \in Nat /\ IsFiniteSet(turn)
  <2>1. PICK y : new \subseteq {y}  BY <1>3
  <2>2. IsFiniteSet({y})  BY FS_Singleton
  <2> HIDE DEF new
  <2>3. IsFiniteSet(new)  BY <2>1, <2>2, FS_Subset
  <2> QED BY <1>2, <2>3, FS_CardinalityType, FS_Subset
<1>5. \A f \in more : f.parent # <<>>
  <2> HIDE DEF new
  <2> SUFFICES ASSUME NEW f \in more PROVE f.parent # <<>>  OBVIOUS
  <2>1. PICK l : f \in Extensions(dir, l)  BY DEF More
  <2>2. f.parent = <<l>>  BY <2>1 DEF Extensions, Lazy
  <2> QED BY <2>2
<1> HIDE DEF new, more
<1>6. count' >= count
  BY <1>1, <1>2, <1>4
<1>7. Opening => Opening'
  BY <1>1 DEF Opening
<1>8. ASSUME NEW f \in q'[0], f.parent = <<>> PROVE FALSE
  <2>1. CASE dir = 0
    <3>1. f \in q[0] \ {e}  BY <1>1, <1>5, <1>8, <2>1
    <3>2. q[0] = {f}  BY <1>8, <3>1 DEF Rounds
    <3> QED BY <1>1, <2>1, <3>1, <3>2
  <2>2. CASE dir # 0
    <3>1. f \in q[0]  BY <1>1, <1>2, <1>8, <2>2
    <3> QED BY <1>8, <2>2, <3>1 DEF Rounds, Opening
  <2> QED BY <2>1, <2>2
<1>9. dir' = 0 => ~processed' /\ Cardinality(turn') <= count'
  <2> SUFFICES ASSUME dir = 0 PROVE ~processed /\ Cardinality(turn \cup new) <= count + Cardinality(new)
    BY <1>1
  <2>1. Cardinality(turn) <= count /\ ~processed  BY DEF Rounds
  <2>2. /\ IsFiniteSet(turn \cup new)
        /\ Cardinality(turn \cup new) = Cardinality(turn) + Cardinality(new) - Cardinality(turn \cap new)
    BY <1>4, FS_Union
  <2>3. Cardinality(turn) \in Nat /\ Cardinality(turn \cap new) \in Nat
    <3>1. IsFiniteSet(turn \cap new)  BY <1>4, FS_Intersection
    <3> QED BY <1>4, <3>1, FS_CardinalityType
  <2> QED BY <1>2, <1>4, <2>1, <2>2, <2>3
<1>10. dir' = 1 /\ ~processed' => Quiet'
  <2> SUFFICES ASSUME dir = 1, ~processed PROVE Quiet'  BY <1>1
  <2>1. Quiet /\ q'[0] = q[0]  BY <1>1, <1>2 DEF Rounds
  <2> QED BY <1>1, <2>1 DEF Quiet
<1>11. \A d \in Dir : U'[d] \subseteq M'[d] \cup (IF d = dir' THEN turn' ELSE {})
  <2> SUFFICES ASSUME NEW d \in Dir PROVE U'[d] \subseteq M[d] \cup (IF d = dir THEN turn \cup new ELSE {})
    BY <1>1
  <2>1. U[d] \subseteq M[d] \cup (IF d = dir THEN turn ELSE {})  BY DEF Rounds
  <2>2. CASE d = dir  BY <1>1, <2>1, <2>2
  <2>3. CASE d # dir  BY <1>1, <2>1, <2>3
  <2> QED BY <2>2, <2>3
<1>12. tm'[0] + tm'[1] >= T  BY <1>1 DEF Rounds
<1>13. Rounds'
  <2> HIDE <1>1
  <2> QED BY <1>8, <1>9, <1>10, <1>11, <1>12 DEF Rounds
<1>14. ~Rootless => dir = 0 /\ tm[0] = T
  BY DEF Rootless, Rounds, Opening
<1> QED BY <1>6, <1>7, <1>13, <1>14

LEMMA RoundsSkip ==
  ASSUME Searching, Rounds, Sure, Skip
  PROVE  /\ Rounds' /\ Rootless /\ ~Opening
         /\ (pc' = "last" => Quiet /\ q[1] = {} /\ turn = {} /\ dir = 1)
<1>1. /\ pc = "head" /\ q[dir] = {} /\ AfterTurn(processed)
      /\ prob' = prob /\ q' = q /\ U' = U /\ M' = M /\ turn' = turn /\ tm' = tm /\ count' = count
  BY DEF Skip
<1>2. turn = {} /\ dir \in Dir /\ count \in Nat  BY <1>1 DEF Searching
<1>3. Rootless /\ ~Opening
  <2>1. dir # 0 \/ q[0] = {}  BY <1>1
  <2>2. dir # 0 => Rootless  BY DEF Rootless, Rounds, Opening
  <2>3. q[0] = {} => Rootless  BY DEF Rootless
  <2> QED BY <1>1, <2>1, <2>2, <2>3 DEF Opening
<1>4. dir = 0 => Quiet  BY <1>1 DEF Quiet
<1>5. /\ dir' = 0 => ~processed'
      /\ dir' = 1 => dir = 0
      /\ pc' = "last" => dir = 1 /\ ~processed
  BY <1>1, <1>2 DEF AfterTurn, Dir
<1>6. Quiet' = Quiet  BY <1>1 DEF Quiet
<1>7. Rounds'
  <2>1. \A d \in Dir : U'[d] \subseteq M'[d]
    <3>1. \A d \in Dir : U[d] \subseteq M[d]  BY <1>2 DEF Rounds
    <3> QED BY <1>1, <3>1
  <2>2. dir' = 0 => ~processed' /\ Cardinality(turn') <= count'
    <3>1. Cardinality({}) = 0  BY FS_EmptySet
    <3> QED BY <1>1, <1>2, <1>5, <3>1
  <2>3. dir' = 1 /\ ~processed' => Quiet'  BY <1>4, <1>5, <1>6
  <2>4. \A e \in q'[0] : e.parent # <<>>  BY <1>1, <1>3 DEF Rootless
  <2>5. tm'[0] + tm'[1] >= T  BY <1>1 DEF Rounds
  <2> HIDE <1>1
  <2> QED BY <2>1, <2>2, <2>3, <2>4, <2>5 DEF Rounds
<1>8. pc' = "last" => Quiet /\ q[1] = {} /\ dir = 1
  BY <1>1, <1>5 DEF Rounds
<1> QED BY <1>2, <1>3, <1>7, <1>8

LEMMA RoundsNext ==
  ASSUME Searching, Rounds, [Next]_vars, Sure'
  PROVE  Rounds'
<1>1. Sure  BY SureNext
<1>2. CASE Skip  BY <1>1, <1>2, RoundsSkip
<1>3. CASE Stop  BY <1>1, <1>3 DEF Stop, Sure
<1>4. CASE Enter
  <2>1. /\ pc = "head" /\ pc' = "mono" /\ turn' = {} /\ q' = q /\ U' = U /\ M' = M /\ tm' = tm
        /\ dir' = dir /\ processed' = processed /\ count' = count
    BY <1>4 DEF Enter
  <2>2. turn = {} /\ turn' = turn  BY <2>1 DEF Searching
  <2>3. Opening => Opening'  BY <2>1 DEF Opening
  <2>4. Quiet' = Quiet  BY <2>1 DEF Quiet
  <2>5. \A e \in q'[0] : e.parent = <<>> => q'[0] = {e} /\ e.makespan <= T /\ turn' = {} /\ Opening'
    BY <2>1, <2>2, <2>3 DEF Rounds
  <2> QED BY <2>1, <2>2, <2>4, <2>5 DEF Rounds
<1>5. CASE Pop
  <2>1. PICK e : Popped(e)  BY <1>5, PopIs
  <2> QED BY <2>1, RoundsPop
<1>6. CASE EndTurn  BY <1>1, <1>6, RoundsTurn
<1>7. CASE LastArc \/ Cross \/ Return \/ Done \/ UNCHANGED vars
  <2>1. /\ q' = q /\ U' = U /\ M' = M /\ tm' = tm /\ turn' = turn
        /\ dir' = dir /\ processed' = processed /\ count' = count
    BY <1>7 DEF LastArc, Cross, Return, Done, vars
  <2>2. Quiet' = Quiet  BY <2>1 DEF Quiet
  <2>3. Opening => Opening'
    <3>1. CASE LastArc \/ Cross \/ Return
      BY <3>1 DEF LastArc, Cross, Return, Opening
    <3>2. CASE Done \/ UNCHANGED vars
      BY <3>2 DEF Done, vars, Opening, Rootless
    <3> QED BY <1>7, <3>1, <3>2
  <2>4. \A e \in q'[0] : e.parent = <<>> => q'[0] = {e} /\ e.makespan <= T /\ turn' = {} /\ Opening'
    BY <2>1, <2>3 DEF Rounds
  <2> QED BY <2>1, <2>2, <2>4 DEF Rounds
<1>8. CASE Expire
  <2>1. hit' # {}  BY <1>8 DEF Expire
  <2> QED BY <2>1 DEF Sure
<1> QED BY <1>2, <1>3, <1>4, <1>5, <1>6, <1>7, <1>8 DEF Next, Step

-----------------------------------------------------------------------------
(* A route that is a course from either end is chased from both until it is found. *)
Far(o, x) == x[Len(o)] - x[1]

Chased(o, x, F, B) ==
  /\ Pursued(F, U[0], q[0], tm[0]) /\ Pursued(B, U[1], q[1], tm[1])
  /\ (\E l \in U[0] : Covers(F, 1, l)) \/ ~Rootless
  /\ (\E l \in M[0] : Covers(F, Len(o), l)) => Have(o, Far(o, x))
  /\ (\E i \in 1..Len(o) : \E l \in M[0], m \in M[1] : Covers(F, i, l) /\ Covers(B, Len(o) + 1 - i, m))
       => Have(o, Far(o, x))
  /\ count >= prob.start \/ Opening \/ Have(o, Far(o, x))
  /\ pc \in {"last", "crossing", "end", "done"} => Have(o, Far(o, x))

LEMMA TwinTimes ==
  ASSUME Setting, NEW o, NEW x, NEW F, NEW B, Twin(o, x, F, B)
  PROVE  /\ Len(o) \in Nat /\ Len(o) >= 3 /\ x \in [1..Len(o) -> 0..T] /\ x \in [1..Len(o) -> Int]
         /\ Far(o, x) \in Int /\ T \in Nat
         /\ \A i \in 1..Len(o) - 1 : x[i] <= x[i + 1]
         /\ F.path = o /\ F.d = 0 /\ B.d = 1 /\ Course(F) /\ Course(B)
<1>1. /\ F.path = o /\ F.d = 0 /\ B.d = 1 /\ Course(F) /\ Course(B) /\ x \in [1..Len(o) -> 0..T]
      /\ \A i \in 1..Len(o) - 1 : x[i] <= x[i + 1]
  BY DEF Twin
<1>2. F.path \in Seq(Vertex) /\ Len(F.path) >= 3  BY <1>1 DEF Course
<1>3. Len(o) \in Nat /\ Len(o) >= 3  BY <1>1, <1>2
<1>4. T \in Nat  BY SettingIs DEF Sane
<1>5. x \in [1..Len(o) -> Int]  BY <1>1
<1>6. Far(o, x) \in Int
  <2>1. 1 \in 1..Len(o) /\ Len(o) \in 1..Len(o)  BY <1>3
  <2> QED BY <1>5, <2>1 DEF Far
<1> QED BY <1>1, <1>3, <1>4, <1>5, <1>6

LEMMA Crossed ==
  ASSUME Searching, Rounds, turn = {}, NEW o, NEW x, NEW F, NEW B, Twin(o, x, F, B),
         Chased(o, x, F, B), Rootless, Quiet, q[1] = {}
  PROVE  Have(o, Far(o, x))
<1> DEFINE n == Len(o)
           I == {i \in 1..n : \A j \in i + 1..n : x[j] > tm[0]}
<1>0. Setting /\ tm[0] \in 0..T /\ tm[1] \in 0..T /\ tm[0] + tm[1] >= T
  BY DEF Searching, Rounds, Dir
<1>1. /\ n \in Nat /\ n >= 3 /\ x \in [1..n -> 0..T] /\ x \in [1..n -> Int] /\ T \in Nat
      /\ \A i \in 1..n - 1 : x[i] <= x[i + 1]
  BY <1>0, TwinTimes
<1>2. n \in I /\ I \subseteq Nat
  <2>1. n + 1..n = {} /\ n \in 1..n  BY <1>1
  <2> QED BY <2>1
<1>3. PICK i \in I : \A k \in I : i <= k
  <2> HIDE DEF I
  <2> QED BY <1>2, LeastNat
<1>4. i \in 1..n /\ \A j \in i + 1..n : x[j] > tm[0]
  OBVIOUS
<1>5. \E m \in U[1] : Covers(B, n + 1 - i, m)
  <2>1. ASSUME NEW j \in i + 1..n PROVE T - x[j] <= tm[1]
    <3>1. j \in 1..n /\ x[j] > tm[0]  BY <1>1, <1>4, <2>1
    <3>2. x[j] \in Int  BY <1>1, <3>1
    <3> QED BY <1>0, <1>1, <3>1, <3>2
  <2>2. Pursued(B, U[1], q[1], tm[1])  BY DEF Chased
  <2> HIDE DEF I
  <2> QED BY <1>4, <2>1, <2>2, Behind
<1>6. \E l \in U[0] : Covers(F, i, l)
  <2>1. \E l \in U[0] : Covers(F, 1, l)  BY DEF Chased
  <2>2. CASE i = 1  BY <2>1, <2>2
  <2>3. CASE i # 1
    <3>1. i - 1 \in 1..n /\ i - 1 \notin I
      <4>1. i - 1 \in 1..n /\ i \in Int  BY <1>1, <1>4, <2>3
      <4>2. \A k \in I : i <= k  BY <1>3
      <4> HIDE DEF I
      <4>3. ~(i <= i - 1)  BY <4>1
      <4> QED BY <4>1, <4>2, <4>3
    <3>2. PICK j \in i - 1 + 1..n : ~(x[j] > tm[0])  BY <3>1
    <3>3. j = i  BY <1>1, <1>4, <3>2
    <3>4. x[i] <= tm[0] /\ x[i] \in Int  BY <1>0, <1>1, <1>4, <3>2, <3>3
    <3>5. ASSUME NEW k \in 1..i PROVE x[k] <= tm[0]
      <4>1. k \in 1..n /\ i \in k..n  BY <1>1, <1>4, <3>5
      <4>2. x[k] <= x[i] /\ x[k] \in Int  BY <1>1, <4>1, Rising
      <4> QED BY <1>0, <3>4, <4>2
    <3>6. Pursued(F, U[0], q[0], tm[0])  BY DEF Chased
    <3> HIDE DEF I
    <3> QED BY <1>4, <2>1, <3>5, <3>6, Ahead
  <2> QED BY <2>2, <2>3
<1>7. U[0] \subseteq M[0] /\ U[1] \subseteq M[1]
  BY DEF Rounds, Dir
<1> HIDE DEF I
<1> QED BY <1>4, <1>5, <1>6, <1>7 DEF Chased

(* A complete label of the turn. *)
LEMMA TwinComplete ==
  ASSUME Searching, NEW o, NEW x, NEW F, NEW B, Twin(o, x, F, B), dir = 0, NEW l \in turn,
         Covers(F, Len(o), l)
  PROVE  \E r \in Complete : r.path = o /\ r.dur <= Far(o, x)
<1> DEFINE n == Len(o)
           c == Far(o, x)
           P == Along(Profits(prob), o)
           cK == CutCost(Along(Counts(prob), o))
<1>0. Setting /\ Good(prob, vrp, 0, l)
  BY DEF Searching, Searched, Dir
<1>1. /\ n \in Nat /\ n >= 3 /\ c \in Int /\ F.path = o /\ F.d = 0 /\ Course(F) /\ n \in 1..n
      /\ F.from = x[1] /\ F.at[n] = {x[n]}
  <2>1. /\ n \in Nat /\ n >= 3 /\ c \in Int /\ F.path = o /\ F.d = 0 /\ Course(F)
    BY <1>0, TwinTimes
  <2>2. n \in 1..n  BY <2>1
  <2> QED BY <2>1, <2>2 DEF Twin
<1>2. /\ l.path = SubSeq(o, 1, n) /\ x[n] \in Rw(l) /\ l.dur[x[n]] <= c
  BY <1>1 DEF Covers, Far
<1>3. l.path = o
  <2>1. o \in Seq(Vertex)  BY <1>1 DEF Course
  <2>2. /\ SubSeq(F.path, 1, n) \in Seq(Vertex) /\ Len(SubSeq(F.path, 1, n)) = n
        /\ \A j \in 1..n : SubSeq(F.path, 1, n)[j] = F.path[j]
    <3> n \in 1..Len(F.path)  BY <1>1
    <3> HIDE DEF n, c, P, cK
    <3> QED BY <1>0, <1>1, CourseParts
  <2>3. l.path \in Seq(Vertex) /\ Len(l.path) = Len(o) /\ \A j \in 1..Len(o) : l.path[j] = o[j]
    BY <1>1, <1>2, <2>2
  <2> QED BY <2>1, <2>3, SeqEqual
<1>4. At(l) = End
  <2>1. At(l) = l.path[Len(l.path)]  BY <1>0, LabelTypes
  <2>2. F.path[Len(F.path)] = To(0)  BY <1>1 DEF Course
  <2> QED BY <1>1, <1>3, <2>1, <2>2 DEF To
<1>5. l.p = P /\ CutCost(l.n) = cK
  <2>1. Shaped(prob, vrp, 0, l)  BY <1>0 DEF Good
  <2> QED BY <1>3, <2>1 DEF Shaped
<1>6. c - P - cK < 0
  BY <1>0, TwinWorth DEF Far
<1>7. MinCost(l) \in Int /\ MinCost(l) <= l.dur[x[n]] - l.p - CutCost(l.n)
  BY <1>0, <1>2, MinCostIs
<1>8. l.dur \in [Rw(l) -> Nat] /\ l.p \in Int /\ cK \in Int
  BY <1>0, LabelTypes, CutCostInt
<1>9. MinCost(l) < 0
  <2> DEFINE d == l.dur[x[n]]
             mc == MinCost(l)
             p == l.p
  <2>1. d \in Int /\ d <= c /\ mc \in Int /\ mc <= d - p - cK /\ p = P /\ c - P - cK < 0 /\ p \in Int
    BY <1>2, <1>5, <1>6, <1>7, <1>8
  <2>2. mc < 0
    <3> HIDE DEF d, mc, p, P, cK, c
    <3> QED BY <1>1, <1>8, <2>1
  <2> QED BY <2>2
<1>10. Min(Image(l.dur)) <= c
  <2> DEFINE S == Image(l.dur)
  <2>1. S \subseteq Nat /\ l.dur[x[n]] \in S  BY <1>2, <1>8 DEF Image
  <2>2. S \subseteq Int /\ S # {} /\ 0 \in Int /\ \A y \in S : 0 <= y  BY <2>1
  <2> HIDE DEF S
  <2>3. Min(S) \in S /\ Min(S) <= l.dur[x[n]]  BY <2>1, <2>2, MinIs
  <2>4. Min(S) \in Int /\ l.dur[x[n]] \in Int  BY <2>1, <2>3
  <2>5. Min(S) <= c  BY <1>1, <1>2, <2>3, <2>4
  <2> QED BY <2>5 DEF S
<1> DEFINE r == [path |-> l.path, dur |-> Min(Image(l.dur))]
<1>11. r \in Complete  BY <1>4, <1>9 DEF Complete
<1>12. r.path = o /\ r.dur <= c  BY <1>3, <1>10
<1> HIDE DEF r
<1> QED BY <1>11, <1>12

(* A turn after which the pool is not full has tried all that met. *)
LEMMA TurnUncut ==
  ASSUME Searching, EndTurn, hit' = {}
  PROVE  pool' = Added(pool, Met \cup Complete)
<1>1. PICK C \in Tried(Met) : /\ pool' = Added(pool, C \cup Complete)
                              /\ hit' = hit \cup Filled(pool \cup C \cup Complete)
  BY DEF EndTurn
<1>2. prob.most \in Nat  BY SettingIs DEF Searching, Posed
<1> DEFINE sets(R) == {Inner(r.path) : r \in R}
           some == sets(pool \cup C)
           all  == sets(pool \cup C \cup Complete)
<1>3. IsFiniteSet(all) /\ some \subseteq all
  <2>1. IsFiniteSet(Customer)  BY LabelingAssumption, FS_Interval DEF Customer
  <2>2. IsFiniteSet(SUBSET Customer)  BY <2>1, FS_SUBSET
  <2>3. all \subseteq SUBSET Customer  BY DEF Inner
  <2>4. IsFiniteSet(all)  BY <2>2, <2>3, FS_Subset
  <2>5. some \subseteq all  OBVIOUS
  <2> QED BY <2>4, <2>5
<1>4. /\ Cardinality(some) \in Nat /\ Cardinality(all) \in Nat
      /\ Cardinality(some) <= Cardinality(all)
  BY <1>3, FS_Subset, FS_CardinalityType
<1>5. Size(pool \cup C) = Cardinality(some) /\ Size(pool \cup C \cup Complete) = Cardinality(all)
  BY DEF Size
<1>6. ~(Size(pool \cup C \cup Complete) >= prob.most) /\ hit = {}
  BY <1>1 DEF Filled
<1>7. Size(pool \cup C) # prob.most
  BY <1>2, <1>4, <1>5, <1>6
<1>8. C = Met
  BY <1>6, <1>7 DEF Tried
<1> QED BY <1>1, <1>8

LEMMA ChasedTurn ==
  ASSUME Searching, Pooled, Unique, Rounds, Sure, EndTurn, hit' = {}, NEW o, NEW x, NEW F, NEW B,
         Twin(o, x, F, B), Chased(o, x, F, B)
  PROVE  Chased(o, x, F, B)'
<1> DEFINE n == Len(o)
           c == Far(o, x)
           H == Have(o, c)
           found == Met \cup Complete
<1>0. Setting /\ Twin(o, x, F, B)  BY DEF Searching
<1>1. /\ TurnOver /\ hit = {} /\ turn' = {} /\ M' = [M EXCEPT ![dir] = @ \cup turn]
      /\ U' = U /\ q' = q /\ count' = count /\ prob' = prob /\ pc = "mono" /\ hit' = {}
      /\ pool' = Added(pool, found)
  BY TurnUncut DEF EndTurn, Sure
<1>2. /\ n \in Nat /\ n >= 3 /\ x \in [1..n -> 0..T] /\ c \in Int /\ T \in Nat /\ F.path = o /\ F.d = 0 /\ B.d = 1
      /\ Course(F) /\ Course(B)
  BY <1>0, TwinTimes
<1>3. /\ Rootless /\ tm'[0] <= tm[0] /\ tm'[1] <= tm[1] /\ tm' \in [Dir -> 0..T]
      /\ (pc' = "last" => Quiet /\ q[1] = {} /\ turn = {} /\ dir = 1)
  BY RoundsTurn
<1>4. /\ dir \in Dir /\ 0 \in Dir /\ 1 \in Dir /\ DOMAIN M = Dir /\ tm[0] \in 0..T /\ tm[1] \in 0..T
      /\ (\A d \in Dir : \A l \in U[d] : Good(prob, vrp, d, l)) /\ turn \subseteq U[dir]
      /\ (\A d \in Dir : M[d] \subseteq U[d]) /\ count \in Nat
  BY DEF Searching, Searched, Dir
<1>5. \A r \in pool \cup found : Promised(prob, vrp, r)
  <2>1. \A r \in found : Promised(prob, vrp, r)  BY TurnPromised
  <2> QED BY <2>1 DEF Pooled
<1>6. ASSUME NEW r \in pool \cup found, Inner(r.path) = Inner(o), r.dur <= c PROVE H'
  <2>1. \E s \in Added(pool, found) : Inner(s.path) = Inner(o) /\ s.dur <= c
    BY <1>2, <1>5, <1>6, HaveAdded
  <2> QED BY <1>1, <2>1 DEF Have
<1>7. H => H'
  BY <1>6 DEF Have
<1>8. ASSUME dir = 0, NEW l \in turn, Covers(F, n, l) PROVE H'
  <2>1. PICK r \in Complete : r.path = o /\ r.dur <= c  BY <1>0, <1>8, TwinComplete
  <2> QED BY <1>6, <2>1
<1>9. ~(count < prob.start) \/ H'
  <2> SUFFICES ASSUME count < prob.start PROVE H'  OBVIOUS
  <2>1. prob.start \in Nat /\ ProcessLimit \in Nat  BY <1>0, SettingIs, LabelingAssumption DEF Posed
  <2>2. CASE Have(o, c)  BY <1>7, <2>2
  <2>3. CASE ~Have(o, c)
    <3>1. Opening
      <4>1. ~(count >= prob.start)  BY <1>4, <2>1
      <4> QED BY <2>3, <4>1 DEF Chased
    <3>2. dir = 0 /\ tm[0] = T /\ M[0] = {}  BY <3>1, <1>4 DEF Opening
    <3>3. Quiet
      <4>1. Cardinality(turn) <= count /\ Cardinality(turn) \in Nat
        <5>1. Cardinality(turn) <= count  BY <3>2 DEF Rounds
        <5>2. IsFiniteSet(turn)
          <6>1. IsFiniteSet(U[0])  BY <1>4 DEF Searching, Searched
          <6> QED BY <1>4, <3>2, <6>1, FS_Subset
        <5> QED BY <5>1, <5>2, FS_CardinalityType
      <4>2. ~(Cardinality(turn) >= ProcessLimit)
        <5>1. prob.start <= ProcessLimit  BY DEF Sure
        <5> QED BY <1>4, <2>1, <4>1, <5>1
      <4>3. q[0] = {} \/ \A e \in q[0] : e.makespan > tm[0]
        BY <1>1, <3>2, <4>2 DEF TurnOver
      <4> QED BY <4>3 DEF Quiet
    <3>4. \E l \in U[0] : Covers(F, n, l)
      <4>1. n \in 1..n /\ \A j \in 1..n : x[j] <= tm[0]  BY <1>2, <3>2
      <4>2. \E l \in U[0] : Covers(F, 1, l)  BY <1>3 DEF Chased
      <4>3. Pursued(F, U[0], q[0], tm[0])  BY DEF Chased
      <4> QED BY <3>3, <4>1, <4>2, <4>3, Ahead
    <3>5. U[0] \subseteq turn
      <4>1. U[0] \subseteq M[0] \cup turn  BY <1>4, <3>2 DEF Rounds
      <4> QED BY <3>2, <4>1
    <3> QED BY <1>8, <3>2, <3>4, <3>5
  <2> QED BY <2>2, <2>3
<1>10. M'[0] = (IF dir = 0 THEN M[0] \cup turn ELSE M[0]) /\ M'[1] = (IF dir = 1 THEN M[1] \cup turn ELSE M[1])
  BY <1>1, <1>4
<1>11. (\E l \in M'[0] : Covers(F, n, l)) => H'
  <2> SUFFICES ASSUME NEW l \in M'[0], Covers(F, n, l) PROVE H'  OBVIOUS
  <2>1. CASE l \in M[0]  BY <1>7, <2>1 DEF Chased
  <2>2. CASE l \notin M[0]
    <3>1. dir = 0 /\ l \in turn  BY <1>10, <2>2
    <3> QED BY <1>8, <3>1
  <2> QED BY <2>1, <2>2
<1>12. ASSUME NEW i \in 1..n, NEW l \in M'[0], NEW m \in M'[1], Covers(F, i, l), Covers(B, n + 1 - i, m)
       PROVE  H'
  <2>1. CASE l \in M[0] /\ m \in M[1]
    <3>1. Have(o, c)  BY <1>12, <2>1 DEF Chased
    <3> QED BY <1>7, <3>1
  <2>2. CASE ~(l \in M[0] /\ m \in M[1])
    <3>1. (dir = 0 /\ l \in turn /\ m \in M[1]) \/ (dir = 1 /\ m \in turn /\ l \in M[0])
      BY <1>4, <1>10, <1>12, <2>2 DEF Dir
    <3>2. Good(prob, vrp, 0, l) /\ Good(prob, vrp, 1, m)
      BY <1>4, <3>1
    <3>3. /\ At(l) = At(m)
          /\ \E r \in Merged(l, m) : r.path = o /\ r.dur <= x[Len(o)] - x[1]
          /\ \E r \in Merged(m, l) : r.path = o /\ r.dur <= x[Len(o)] - x[1]
      BY <1>0, <1>12, <3>2, TwinMerged
    <3>4. CASE count < prob.start  BY <1>9, <3>4
    <3>5. CASE ~(count < prob.start)
      <4>1. Met = UNION {Merged(y[1], y[2]) : y \in {z \in turn \X M[1 - dir] : At(z[1]) = At(z[2])}}
        BY <3>5 DEF Met, Sure
      <4>2. \E r \in Met : r.path = o /\ r.dur <= c
        <5>1. CASE dir = 0 /\ l \in turn /\ m \in M[1]
          <6>1. <<l, m>> \in turn \X M[1 - dir] /\ 1 - dir = 1  BY <5>1
          <6>2. PICK r \in Merged(l, m) : r.path = o /\ r.dur <= c  BY <3>3 DEF Far
          <6>3. r \in Met  BY <3>3, <4>1, <6>1, <6>2
          <6> QED BY <6>2, <6>3
        <5>2. CASE dir = 1 /\ m \in turn /\ l \in M[0]
          <6>1. <<m, l>> \in turn \X M[1 - dir] /\ 1 - dir = 0  BY <5>2
          <6>2. PICK r \in Merged(m, l) : r.path = o /\ r.dur <= c  BY <3>3 DEF Far
          <6>3. r \in Met  BY <3>3, <4>1, <6>1, <6>2
          <6> QED BY <6>2, <6>3
        <5> QED BY <3>1, <5>1, <5>2
      <4>3. PICK r \in Met : r.path = o /\ r.dur <= c  BY <4>2
      <4> QED BY <1>6, <4>3
    <3> QED BY <3>4, <3>5
  <2> QED BY <2>1, <2>2
<1>13. pc' \in {"last", "crossing", "end", "done"} => H'
  <2>1. pc' \in {"head", "last"}  BY DEF EndTurn, AfterTurn
  <2> SUFFICES ASSUME pc' = "last" PROVE H'  BY <2>1
  <2>2. Quiet /\ q[1] = {} /\ turn = {}  BY <1>3
  <2>3. Have(o, c)  BY <1>3, <2>2, Crossed
  <2> QED BY <1>7, <2>3
<1>14. Pursued(F, U'[0], q'[0], tm'[0]) /\ Pursued(B, U'[1], q'[1], tm'[1])
  <2>1. Pursued(F, U[0], q[0], tm[0]) /\ Pursued(B, U[1], q[1], tm[1])  BY DEF Chased
  <2>2. tm'[0] \in Int /\ tm'[1] \in Int /\ tm[0] \in Int /\ tm[1] \in Int
    BY <1>3, <1>4
  <2>3. Pursued(F, U[0], q[0], tm'[0])  BY <1>0, <1>2, <1>3, <2>1, <2>2, PursuedLess
  <2>4. Pursued(B, U[1], q[1], tm'[1])  BY <1>0, <1>2, <1>3, <2>1, <2>2, PursuedLess
  <2> QED BY <1>1, <2>3, <2>4
<1>15. \E l \in U'[0] : Covers(F, 1, l)
  BY <1>1, <1>3 DEF Chased
<1>16. count' >= prob'.start \/ H'
  <2>1. prob.start \in Nat  BY <1>0, SettingIs DEF Posed
  <2> QED BY <1>1, <1>4, <1>9, <2>1
<1> HIDE <1>1
<1> QED BY <1>11, <1>12, <1>13, <1>14, <1>15, <1>16 DEF Chased

LEMMA ChasedPop ==
  ASSUME Searching, Unique, Rounds, prob.level = "Exact", NEW e, Popped(e),
         NEW o, NEW x, NEW F, NEW B, Twin(o, x, F, B), Chased(o, x, F, B)
  PROVE  Chased(o, x, F, B)'
<1>0. Setting  BY DEF Searching
<1>1. /\ dir' = dir /\ tm' = tm /\ M' = M /\ pc' = pc /\ prob' = prob /\ pool' = pool
      /\ pc = "mono" /\ e \in q[dir]
      /\ U'[dir] = U[dir] \cup New(dir, e)
      /\ (\A d \in Dir : d # dir => U'[d] = U[d] /\ q'[d] = q[d])
  BY DEF Popped
<1>2. /\ F.path = o /\ F.d = 0 /\ B.d = 1 /\ Course(F) /\ Course(B) /\ Len(o) >= 3 /\ Len(o) \in Nat
      /\ x \in [1..Len(o) -> 0..T] /\ T \in Nat
  BY <1>0, TwinTimes
<1>3. dir \in Dir /\ 0 \in Dir /\ 1 \in Dir /\ Dir = {0, 1}  BY DEF Searching, Dir
<1>4. Pursued(F, U[0], q[0], tm[0]) /\ Pursued(B, U[1], q[1], tm[1])  BY DEF Chased
<1>5. Pursued(F, U'[0], q'[0], tm[0])
  <2>1. CASE dir = 0
    <3>1. F.d = dir /\ Pursued(F, U[dir], q[dir], tm[dir])  BY <1>2, <1>4, <2>1
    <3>2. Pursued(F, U'[dir], q'[dir], tm[dir])  BY <1>2, <3>1, PursuedPop
    <3> QED BY <2>1, <3>2
  <2>2. CASE dir # 0
    <3>1. U'[0] = U[0] /\ q'[0] = q[0]  BY <1>1, <1>3, <2>2
    <3> QED BY <1>4, <3>1
  <2> QED BY <2>1, <2>2
<1>6. Pursued(B, U'[1], q'[1], tm[1])
  <2>1. CASE dir = 1
    <3>1. B.d = dir /\ Pursued(B, U[dir], q[dir], tm[dir])  BY <1>2, <1>4, <2>1
    <3>2. Pursued(B, U'[dir], q'[dir], tm[dir])  BY <1>2, <3>1, PursuedPop
    <3> QED BY <2>1, <3>2
  <2>2. CASE dir # 1
    <3>1. U'[1] = U[1] /\ q'[1] = q[1]  BY <1>1, <1>3, <2>2
    <3> QED BY <1>4, <3>1
  <2> QED BY <2>1, <2>2
<1>7. Rounds' /\ count' >= count /\ (Opening => Opening') /\ (~Rootless => dir = 0 /\ tm[0] = T)
  BY RoundsPop
<1>8. (\E l \in U'[0] : Covers(F, 1, l)) \/ \E f \in q'[0] : f.parent = <<>>
  <2>1. CASE \E l \in U[0] : Covers(F, 1, l)
    <3>1. U[0] \subseteq U'[0]  BY <1>1, <1>3
    <3> QED BY <2>1, <3>1
  <2>2. CASE ~Rootless
    <3>1. F.from = x[1] /\ x[1] \in 0..T
      <4>1. 1 \in 1..Len(o)  BY <1>2
      <4> QED BY <1>2, <4>1 DEF Twin
    <3>2. F.from <= tm[0]  BY <1>2, <1>7, <2>2, <3>1
    <3> QED BY <1>5, <3>2 DEF Pursued
  <2> QED BY <2>1, <2>2 DEF Chased
<1>9. count >= prob.start => count' >= prob.start
  <2>1. prob.start \in Nat /\ count \in Nat  BY <1>0, SettingIs DEF Posed, Searching
  <2>2. count' \in Int
    <3>1. \E y : New(dir, e) \subseteq {y}
      BY <1>0, <1>1, <1>3, NewIs DEF Searching, Searched
    <3>2. PICK y : New(dir, e) \subseteq {y}  BY <3>1
    <3>3. IsFiniteSet({y})  BY FS_Singleton
    <3>4. Cardinality(New(dir, e)) \in Nat  BY <3>2, <3>3, FS_Subset, FS_CardinalityType
    <3> QED BY <2>1, <3>4 DEF Popped
  <2> QED BY <1>7, <2>1, <2>2
<1>10. Have(o, Far(o, x))' <=> Have(o, Far(o, x))
  BY <1>1 DEF Have, Far
<1>11. ~(pc \in {"last", "crossing", "end", "done"})  BY <1>1
<1>12. ~Rootless' <=> \E f \in q'[0] : f.parent = <<>>
  BY DEF Rootless
<1>13. /\ (\E l \in M[0] : Covers(F, Len(o), l)) => Have(o, Far(o, x))
       /\ (\E i \in 1..Len(o) : \E l \in M[0], m \in M[1] : Covers(F, i, l) /\ Covers(B, Len(o) + 1 - i, m))
            => Have(o, Far(o, x))
       /\ count >= prob.start \/ Opening \/ Have(o, Far(o, x))
  BY DEF Chased
<1> QED BY <1>1, <1>5, <1>6, <1>7, <1>8, <1>9, <1>10, <1>11, <1>12, <1>13 DEF Chased

LEMMA ChasedNext ==
  ASSUME Searching, Pooled, Unique, Rounds, [Next]_vars, Sure', NEW o, NEW x, NEW F, NEW B,
         Twin(o, x, F, B), Chased(o, x, F, B)
  PROVE  Chased(o, x, F, B)'
<1> DEFINE c == Far(o, x)
<1>0. Setting /\ Sure /\ hit' = {}  BY SureNext DEF Searching, Sure
<1>1. c \in Int  BY <1>0, TwinTimes
<1>2. Have(o, c) => Have(o, c)'
  BY <1>0, <1>1, HaveNext
<1> HIDE DEF c
<1>3. ASSUME U' = U, q' = q, M' = M, tm' = tm, count' = count, prob' = prob,
             Opening => Opening' \/ Have(o, c),
             pc' \in {"last", "crossing", "end", "done"} => Have(o, c)
      PROVE  Chased(o, x, F, B)'
  <2>1. Rootless' = Rootless  BY <1>3 DEF Rootless
  <2> QED BY <1>2, <1>3, <2>1 DEF Chased, c
<1>4. CASE Skip
  <2>1. ~Opening /\ Rootless /\ (pc' = "last" => Quiet /\ q[1] = {} /\ turn = {} /\ dir = 1)
    BY <1>0, <1>4, RoundsSkip
  <2>2. U' = U /\ q' = q /\ M' = M /\ tm' = tm /\ count' = count /\ prob' = prob /\ pc' \in {"head", "last"}
    BY <1>4 DEF Skip, AfterTurn
  <2>3. pc' \in {"last", "crossing", "end", "done"} => Have(o, c)
    <3> SUFFICES ASSUME pc' = "last" PROVE Have(o, c)  BY <2>2
    <3> QED BY <2>1, Crossed DEF c
  <2> QED BY <1>3, <2>1, <2>2, <2>3
<1>5. CASE Stop  BY <1>0, <1>5 DEF Stop, Sure
<1>6. CASE Enter
  <2>1. /\ U' = U /\ q' = q /\ M' = M /\ tm' = tm /\ count' = count /\ prob' = prob /\ pc' = "mono" /\ dir' = dir
    BY <1>6 DEF Enter
  <2>2. Opening => Opening'  BY <2>1 DEF Opening
  <2> QED BY <1>3, <2>1, <2>2
<1>7. CASE Pop
  <2>1. PICK e : Popped(e)  BY <1>7, PopIs
  <2>2. prob.level = "Exact"  BY <1>0 DEF Sure
  <2> QED BY <2>1, <2>2, ChasedPop
<1>8. CASE EndTurn
  BY <1>0, <1>8, ChasedTurn
<1>9. CASE LastArc \/ Cross \/ Return
  <2>1. U' = U /\ q' = q /\ M' = M /\ tm' = tm /\ count' = count /\ prob' = prob
        /\ pc \in {"last", "crossing", "end"}
    BY <1>9 DEF LastArc, Cross, Return
  <2>2. Have(o, c)  BY <2>1 DEF Chased, c
  <2> QED BY <1>3, <2>1, <2>2
<1>10. CASE Done \/ UNCHANGED vars
  <2>1. /\ U' = U /\ q' = q /\ M' = M /\ tm' = tm /\ count' = count /\ prob' = prob /\ pc' = pc /\ dir' = dir
    BY <1>10 DEF Done, vars
  <2>2. Opening => Opening'  BY <2>1 DEF Opening, Rootless
  <2>3. pc' \in {"last", "crossing", "end", "done"} => Have(o, c)  BY <2>1 DEF Chased, c
  <2> QED BY <1>3, <2>1, <2>2, <2>3
<1>11. CASE Expire
  <2>1. hit' # {}  BY <1>11 DEF Expire
  <2> QED BY <1>0, <2>1
<1> QED BY <1>4, <1>5, <1>6, <1>7, <1>8, <1>9, <1>10, <1>11 DEF Next, Step

LEMMA ChasedInit ==
  ASSUME Init, NEW o, NEW x, NEW F, NEW B, Twin(o, x, F, B)
  PROVE  Chased(o, x, F, B)
<1>1. /\ U[0] = {} /\ U[1] = {} /\ M[0] = {} /\ M[1] = {} /\ pc = "head" /\ dir = 0 /\ tm[0] = T
      /\ (\A d \in Dir : M[d] = {})
      /\ (\E e \in q[0] : e.parent = <<>>) /\ (\E e \in q[1] : e.parent = <<>>)
  <2> DEFINE r(d) == [parent |-> <<>>, v |-> From(d), makespan |-> OpenAt(d, From(d))]
  <2>1. q[0] = {r(0)} /\ q[1] = {r(1)}  BY DEF Init, Dir
  <2>2. \A d : r(d).parent = <<>>  OBVIOUS
  <2> HIDE DEF r
  <2>3. (\E e \in q[0] : e.parent = <<>>) /\ (\E e \in q[1] : e.parent = <<>>)  BY <2>1, <2>2
  <2>4. /\ U[0] = {} /\ U[1] = {} /\ M[0] = {} /\ M[1] = {} /\ pc = "head" /\ dir = 0 /\ tm[0] = T
        /\ (\A d \in Dir : M[d] = {})
    BY DEF Init, Dir
  <2> QED BY <2>3, <2>4
<1>2. Opening /\ ~Rootless  BY <1>1 DEF Opening, Rootless
<1>3. Pursued(F, U[0], q[0], tm[0]) /\ Pursued(B, U[1], q[1], tm[1])
  BY <1>1 DEF Pursued
<1> QED BY <1>1, <1>2, <1>3 DEF Chased

LEMMA TwinSame ==
  ASSUME prob' = prob, vrp' = vrp, NEW o, NEW x, NEW F, NEW B, Twin(o, x, F, B)'
  PROVE  Twin(o, x, F, B)
<1>1. ASSUME NEW C PROVE Course(C)' <=> Course(C)
  <2>1. \A k : Reached(C, k)' <=> Reached(C, k)
    BY DEF Reached
  <2>2. \A d, a : Legs(d, a)' = Legs(d, a)  BY DEF Legs
  <2>3. \A n : CutCost(n)' = CutCost(n)  BY DEF CutCost
  <2>4. \A k : Leading(C, k)' <=> Leading(C, k)
    BY <2>2 DEF Leading
  <2>5. \A k : Ideal(C, k)' = Ideal(C, k)  BY DEF Ideal
  <2>6. \A l, m : Theta(l, m)' = Theta(l, m)  BY DEF Theta, CutCost
  <2>7. \A l, m, t : Worse(l, m, t)' <=> Worse(l, m, t)  BY <2>6 DEF Worse
  <2>8. \A m : Good(prob, vrp, C.d, m)' <=> Good(prob, vrp, C.d, m)
    OBVIOUS
  <2>9. \A k : Unrivalled(C, k)' <=> Unrivalled(C, k)
    <3>1. \A k, m, t : Worse(Ideal(C, k), m, t)' <=> Worse(Ideal(C, k), m, t)
      BY DEF Worse, Theta, CutCost, Ideal
    <3>2. \A k : Ideal(C, k).q' = Ideal(C, k).q  BY DEF Ideal
    <3> QED BY <2>8, <3>1, <3>2 DEF Unrivalled, Ideal
  <2>10. \A d, v : OpenAt(d, v)' = OpenAt(d, v) /\ CloseAt(d, v)' = CloseAt(d, v)  BY DEF OpenAt, CloseAt
  <2>11. \A d : Allowed(d)' = Allowed(d)  BY DEF Allowed, Legs
  <2>12. \A l, v : DepotTriangle(C.d, l, v)' <=> DepotTriangle(C.d, l, v)
    BY <2>2, <2>10, <2>11 DEF DepotTriangle, Legs, OpenAt, Allowed
  <2>13. \A k : Undetoured(C, k)' <=> Undetoured(C, k)
    BY <2>8, <2>12 DEF Undetoured, DepotTriangle
  <2> QED BY <2>1, <2>3, <2>4, <2>9, <2>10, <2>13 DEF Course
<1> QED BY <1>1 DEF Twin

-----------------------------------------------------------------------------
(* No path is processed twice, nor is a path that waits in a queue one that has been
   processed: a label's path says which label it is (monodirectional_labeling.cpp). *)
THEOREM UniqueAlways == Spec => []Unique
<1>1. Init => Unique
  BY UniqueInit
<1>2. Searching /\ Unique /\ [Next]_vars => Unique'
  BY UniqueNext
<1> QED BY <1>1, <1>2, SearchingAlways, PTL DEF Spec

Hunted == Sure => Rounds /\ \A o, x, F, B : Twin(o, x, F, B) => Chased(o, x, F, B)

LEMMA HuntedNext ==
  ASSUME Searching, Pooled, Unique, Hunted, [Next]_vars
  PROVE  Hunted'
<1> SUFFICES ASSUME Sure' PROVE Rounds' /\ (\A o, x, F, B : Twin(o, x, F, B) => Chased(o, x, F, B))'
  BY DEF Hunted
<1>1. Sure  BY SureNext
<1>2. Rounds /\ \A o, x, F, B : Twin(o, x, F, B) => Chased(o, x, F, B)  BY <1>1 DEF Hunted
<1>3. prob' = prob /\ vrp' = vrp  BY Constants
<1>4. ASSUME NEW o, NEW x, NEW F, NEW B, Twin(o, x, F, B)'
      PROVE  Chased(o, x, F, B)'
  <2>1. Twin(o, x, F, B)  BY <1>3, <1>4, TwinSame
  <2>2. Chased(o, x, F, B)  BY <1>2, <2>1
  <2> QED BY <1>2, <2>1, <2>2, ChasedNext
<1> QED BY <1>1, <1>2, <1>4, RoundsNext

(* At the end of an Exact run in its opening state that no limit disturbed, every route
   that can be built from both of its ends, and at no vertex of it is dominated, has been
   found, with an order of its customers no longer than it. *)
Paired ==
  pc = "done" /\ Sure => \A o, x, F, B : Twin(o, x, F, B) => Have(o, Far(o, x))

(* Every route that can be built from both of its ends undominated is found: no merge
   misses it, wherever the middle ended up and however the turns were cut
   (bidirectional_labeling.cpp, Run and Merge). *)
THEOREM TwinsFound == Spec => []Paired
<1>1. Init /\ Searching => Hunted
  BY ChasedInit, RoundsInit DEF Hunted
<1>2. Searching /\ Pooled /\ Unique /\ Hunted /\ [Next]_vars => Hunted'
  BY HuntedNext
<1>3. Hunted => Paired
  BY DEF Hunted, Paired, Chased
<1>4. Init => Pooled
  BY DEF Init, Pooled
<1>5. Searching /\ Pooled /\ [Next]_vars => Pooled'
  BY PooledNext
<1> QED BY <1>1, <1>2, <1>3, <1>4, <1>5, UniqueAlways, SearchingAlways, PTL DEF Spec
=============================================================================

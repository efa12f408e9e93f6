---------------------------- MODULE CommonLemmas -----------------------------
(***************************************************************************)
(* Lemmas that several proofs share: induction over the naturals in a form *)
(* a set can be given to, functions defined by recursion on an interval,   *)
(* which clients the surgery on a route leaves on it, and which clients a  *)
(* set of routes serves when some of its routes are replaced.              *)
(***************************************************************************)
EXTENDS RouteSurgery, Integers, SequenceTheorems, WellFoundedInduction, TLAPS

LEMMA LeastNat ==
  ASSUME NEW T, T \subseteq Nat, T # {}
  PROVE  \E x \in T : \A y \in T : x <= y
<1> DEFINE R == OpToRel(<, Nat)
<1>1. IsWellFoundedOn(R, Nat)
  BY NatLessThanWellFounded
<1>2. \A x, y \in Nat : <<y, x>> \in R <=> y < x
  BY DEF OpToRel
<1> HIDE DEF R
<1>3. PICK x \in T : \A y \in T : ~(<<y, x>> \in R)
  BY <1>1, WFMin
<1>4. ASSUME NEW y \in T PROVE x <= y
  <2>1. ~(y < x)  BY <1>2, <1>3
  <2> QED BY <2>1
<1> QED BY <1>4

LEMMA LeastInt ==
  ASSUME NEW T, T \subseteq Int, T # {}, NEW a \in Int, \A x \in T : a <= x
  PROVE  \E x \in T : \A y \in T : x <= y
<1> DEFINE D == {x - a : x \in T}
<1>1. D \subseteq Nat /\ D # {}
  <2>1. \A x \in T : x - a \in Nat  OBVIOUS
  <2>2. PICK x \in T : TRUE  OBVIOUS
  <2>3. x - a \in D  OBVIOUS
  <2> QED BY <2>1, <2>3
<1>2. PICK m \in D : \A y \in D : m <= y
  BY <1>1, LeastNat
<1>3. PICK x \in T : m = x - a  OBVIOUS
<1>4. ASSUME NEW y \in T PROVE x <= y
  <2>1. m <= y - a  BY <1>2
  <2> QED BY <1>3, <2>1
<1> QED BY <1>4

LEMMA GreatestInt ==
  ASSUME NEW T, T \subseteq Int, T # {}, NEW b \in Int, \A x \in T : x <= b
  PROVE  \E x \in T : \A y \in T : x >= y
<1> DEFINE D == {-x : x \in T}
<1>1. D \subseteq Int /\ D # {} /\ -b \in Int /\ \A z \in D : -b <= z
  <2>1. \A x \in T : -x \in Int /\ -b <= -x  OBVIOUS
  <2>2. PICK x \in T : TRUE  OBVIOUS
  <2>3. -x \in D  OBVIOUS
  <2> QED BY <2>1, <2>3
<1> HIDE DEF D
<1>2. PICK m \in D : \A y \in D : m <= y
  BY <1>1, LeastInt
<1>3. PICK x \in T : m = -x  BY DEF D
<1>4. ASSUME NEW y \in T PROVE x >= y
  <2>1. m <= -y  BY <1>2 DEF D
  <2> QED BY <1>3, <2>1
<1> QED BY <1>4

(* Induction over m .. n, the statement given as the set it is true on. *)
LEMMA Induction ==
  ASSUME NEW m \in Int, NEW n \in Int, NEW S,
         m <= n => m \in S,
         \A i \in m .. n - 1 : i \in S => i + 1 \in S
  PROVE  m .. n \subseteq S
<1> SUFFICES ASSUME (m .. n) \ S # {} PROVE FALSE  OBVIOUS
<1>1. PICK x \in (m .. n) \ S : \A y \in (m .. n) \ S : x <= y
  <2>1. (m .. n) \ S \subseteq Int /\ \A x \in (m .. n) \ S : m <= x  OBVIOUS
  <2> QED BY <2>1, LeastInt
<1>2. x # m  BY <1>1
<1>3. x - 1 \in m .. n - 1 /\ x - 1 \in S  BY <1>1, <1>2
<1>4. x - 1 + 1 = x  OBVIOUS
<1> QED BY <1>1, <1>3, <1>4

(* A function h by recursion on m .. n, its step given as a function G on X. *)
Recursive(m, n, X, b, G) ==
  m \in Int /\ n \in Int /\ m <= n /\ b \in X /\ G \in [(m + 1 .. n) \X X -> X]

Unrolled(h, m, n, X, b, G) ==
  /\ h \in [m .. n -> X] /\ h[m] = b
  /\ \A i \in m + 1 .. n : h[i] = G[<<i, h[i - 1]>>]

LEMMA Recursion ==
  ASSUME NEW m, NEW n, NEW X, NEW b, NEW G, Recursive(m, n, X, b, G)
  PROVE  \E h : Unrolled(h, m, n, X, b, G)
<1> USE DEF Recursive
<1> DEFINE P(h, k) == /\ h \in [m .. k -> X] /\ h[m] = b
                      /\ \A i \in m + 1 .. k : h[i] = G[<<i, h[i - 1]>>]
           S == {k \in m .. n : \E h : P(h, k)}
<1>1. m \in S
  <2> DEFINE h == [i \in m .. m |-> b]
  <2>1. h \in [m .. m -> X] /\ h[m] = b /\ m + 1 .. m = {}  OBVIOUS
  <2>2. P(h, m)  BY <2>1
  <2> HIDE DEF h, P
  <2> QED BY <2>2
<1>2. ASSUME NEW k \in m .. n - 1, k \in S PROVE k + 1 \in S
  <2>1. PICK h : P(h, k)  BY <1>2
  <2> DEFINE g == [i \in m .. k + 1 |-> IF i = k + 1 THEN G[<<k + 1, h[k]>>] ELSE h[i]]
  <2>2. G[<<k + 1, h[k]>>] \in X
    <3>1. h[k] \in X /\ k + 1 \in m + 1 .. n  BY <2>1
    <3> QED BY <3>1
  <2>3. g \in [m .. k + 1 -> X] /\ g[m] = b  BY <2>1, <2>2
  <2>4. ASSUME NEW i \in m + 1 .. k + 1 PROVE g[i] = G[<<i, g[i - 1]>>]
    <3>1. CASE i = k + 1
      <4>1. g[k + 1] = G[<<k + 1, h[k]>>] /\ g[k] = h[k]  OBVIOUS
      <4>2. i - 1 = k  BY <3>1
      <4> HIDE DEF g
      <4> QED BY <3>1, <4>1, <4>2
    <3>2. CASE i \in m + 1 .. k
      <4>1. h[i] = G[<<i, h[i - 1]>>] /\ i # k + 1 /\ i - 1 # k + 1
            /\ i \in m .. k + 1 /\ i - 1 \in m .. k + 1
        BY <2>1, <3>2
      <4> QED BY <4>1
    <3> QED BY <3>1, <3>2
  <2>5. P(g, k + 1)  BY <2>3, <2>4
  <2>6. k + 1 \in m .. n  OBVIOUS
  <2> HIDE DEF P, g
  <2> QED BY <2>5, <2>6
<1>3. n \in S
  <2> HIDE DEF S
  <2>1. \A k \in m .. n - 1 : k \in S => k + 1 \in S  BY <1>2
  <2>2. m .. n \subseteq S  BY <1>1, <2>1, Induction
  <2>3. n \in m .. n  OBVIOUS
  <2> QED BY <2>2, <2>3
<1>4. PICK h : P(h, n)  BY <1>3
<1> QED BY <1>4 DEF Unrolled

-----------------------------------------------------------------------------
(* A stretch of a route. *)
LEMMA Stretch ==
  ASSUME NEW S, NEW q \in Seq(S), NEW i \in 1 .. Len(q) + 1, NEW j \in 0 .. Len(q)
  PROVE  /\ SubSeq(q, i, j) \in Seq(S)
         /\ Len(SubSeq(q, i, j)) = IF i <= j THEN j - i + 1 ELSE 0
         /\ \A k \in 1 .. j - i + 1 : SubSeq(q, i, j)[k] = q[i + k - 1]
<1>1. i \in Int /\ j \in Int /\ \A k \in i .. j : q[k] \in S
  BY ElementOfSeq, LenProperties
<1> QED BY <1>1, SubSeqProperties

(* Position by position. *)
LEMMA WithoutParts ==
  ASSUME NEW S, NEW q \in Seq(S), NEW i \in DOMAIN q
  PROVE  /\ Without(q, i) \in Seq(S)
         /\ Len(Without(q, i)) = Len(q) - 1
         /\ \A k \in 1 .. Len(q) - 1 : Without(q, i)[k] = IF k < i THEN q[k] ELSE q[k + 1]
<1> DEFINE a == SubSeq(q, 1, i - 1)
           b == SubSeq(q, i + 1, Len(q))
<1>1. i \in 1 .. Len(q) /\ Len(q) \in Nat
  BY LenProperties
<1>2. a \in Seq(S) /\ Len(a) = i - 1 /\ \A k \in 1 .. i - 1 : a[k] = q[k]
  BY <1>1, Stretch
<1>3. b \in Seq(S) /\ Len(b) = Len(q) - i /\ \A k \in 1 .. Len(q) - i : b[k] = q[i + k]
  BY <1>1, Stretch
<1> HIDE DEF a, b
<1>4. /\ a \o b \in Seq(S) /\ Len(a \o b) = Len(a) + Len(b)
      /\ \A k \in 1 .. Len(a) + Len(b) : (a \o b)[k] = IF k <= Len(a) THEN a[k] ELSE b[k - Len(a)]
  BY <1>2, <1>3, ConcatProperties
<1>5. Without(q, i) = a \o b
  BY DEF Without, a, b
<1>6. ASSUME NEW k \in 1 .. Len(q) - 1
      PROVE  Without(q, i)[k] = IF k < i THEN q[k] ELSE q[k + 1]
  <2>0. k \in Nat /\ k \in 1 .. Len(a) + Len(b)
    BY <1>1, <1>2, <1>3
  <2>1. Without(q, i)[k] = IF k <= i - 1 THEN a[k] ELSE b[k - (i - 1)]
    BY <2>0, <1>2, <1>4, <1>5
  <2>2. CASE k < i
    <3>1. k <= i - 1 /\ k \in 1 .. i - 1 BY <2>0, <2>2, <1>1
    <3> QED BY <2>1, <2>2, <3>1, <1>2
  <2>3. CASE ~(k < i)
    <3>1. k - (i - 1) \in 1 .. Len(q) - i /\ ~(k <= i - 1) BY <2>0, <2>3, <1>1
    <3>2. b[k - (i - 1)] = q[i + (k - (i - 1))] BY <3>1, <1>3
    <3>3. i + (k - (i - 1)) = k + 1 BY <2>0, <1>1
    <3> QED BY <2>1, <2>3, <3>1, <3>2, <3>3
  <2> QED BY <2>2, <2>3
<1>7. Len(a) + Len(b) = Len(q) - 1 BY <1>1, <1>2, <1>3
<1> QED BY <1>4, <1>5, <1>6, <1>7

(* c in the place of the clients behind p, up to r: insertion if there are none. *)
Put(q, p, r, c) == SubSeq(q, 1, p) \o <<c>> \o SubSeq(q, r + 1, Len(q))

IsPut(s, S, q, p, r, c) ==
  /\ s \in Seq(S)
  /\ Len(s) = Len(q) - (r - p) + 1
  /\ \A k \in 1 .. Len(q) - (r - p) + 1 :
       s[k] = IF k <= p THEN q[k] ELSE IF k = p + 1 THEN c ELSE q[k + (r - p) - 1]

LEMMA PutParts ==
  ASSUME NEW S, NEW q \in Seq(S), NEW c \in S,
         NEW p \in 0 .. Len(q), NEW r \in p .. Len(q)
  PROVE  IsPut(Put(q, p, r, c), S, q, p, r, c)
<1> DEFINE a == SubSeq(q, 1, p)
           b == SubSeq(q, r + 1, Len(q))
           o == <<c>>
<1>1. p \in Nat /\ r \in Nat /\ p <= r /\ r <= Len(q) /\ Len(q) \in Nat
  BY LenProperties
<1>2. a \in Seq(S) /\ Len(a) = p /\ \A k \in 1 .. p : a[k] = q[k]
  BY <1>1, Stretch
<1>3. b \in Seq(S) /\ Len(b) = Len(q) - r /\ \A k \in 1 .. Len(q) - r : b[k] = q[r + k]
  BY <1>1, Stretch
<1>4. o \in Seq(S) /\ Len(o) = 1 /\ o[1] = c
  OBVIOUS
<1> HIDE DEF a, b, o
<1>5. /\ a \o o \in Seq(S) /\ Len(a \o o) = p + 1
      /\ \A k \in 1 .. p + 1 : (a \o o)[k] = IF k <= p THEN q[k] ELSE c
  <2>1. /\ a \o o \in Seq(S) /\ Len(a \o o) = Len(a) + Len(o)
        /\ \A k \in 1 .. Len(a) + Len(o) : (a \o o)[k] = IF k <= Len(a) THEN a[k] ELSE o[k - Len(a)]
    BY <1>2, <1>4, ConcatProperties
  <2>2. ASSUME NEW k \in 1 .. p + 1 PROVE (a \o o)[k] = IF k <= p THEN q[k] ELSE c
    <3>0. k \in Nat /\ k \in 1 .. Len(a) + Len(o) BY <1>1, <1>2, <1>4
    <3>1. (a \o o)[k] = IF k <= p THEN a[k] ELSE o[k - p] BY <3>0, <2>1, <1>2
    <3>2. CASE k <= p
      <4>1. k \in 1 .. p BY <3>0, <3>2, <1>1
      <4> QED BY <4>1, <3>1, <3>2, <1>2
    <3>3. CASE ~(k <= p)
      <4>1. k - p = 1 BY <3>0, <3>3, <1>1
      <4> QED BY <4>1, <3>1, <3>3, <1>4
    <3> QED BY <3>2, <3>3
  <2> QED BY <2>1, <2>2, <1>2, <1>4
<1> DEFINE u == a \o o
           s == u \o b
<1> HIDE DEF u
<1>6. /\ s \in Seq(S) /\ Len(s) = Len(u) + Len(b)
      /\ \A k \in 1 .. Len(u) + Len(b) : s[k] = IF k <= Len(u) THEN u[k] ELSE b[k - Len(u)]
  BY <1>3, <1>5, ConcatProperties DEF u
<1>7. ASSUME NEW k \in 1 .. Len(q) - (r - p) + 1
      PROVE  s[k] = IF k <= p THEN q[k] ELSE IF k = p + 1 THEN c ELSE q[k + (r - p) - 1]
  <2>0. k \in Nat /\ k \in 1 .. Len(u) + Len(b)
    BY <1>1, <1>3, <1>5 DEF u
  <2>1. s[k] = IF k <= p + 1 THEN u[k] ELSE b[k - (p + 1)]
    BY <2>0, <1>5, <1>6 DEF u
  <2>2. CASE k <= p + 1
    <3>1. k \in 1 .. p + 1 BY <2>0, <2>2, <1>1
    <3>2. u[k] = IF k <= p THEN q[k] ELSE c BY <3>1, <1>5 DEF u
    <3>3. k <= p \/ k = p + 1 BY <2>0, <2>2, <1>1
    <3> QED BY <2>1, <2>2, <3>2, <3>3
  <2>3. CASE ~(k <= p + 1)
    <3>1. k - (p + 1) \in 1 .. Len(q) - r /\ ~(k <= p) /\ k # p + 1 BY <2>0, <2>3, <1>1
    <3>2. b[k - (p + 1)] = q[r + (k - (p + 1))] BY <3>1, <1>3
    <3>3. r + (k - (p + 1)) = k + (r - p) - 1 BY <2>0, <1>1
    <3> QED BY <2>1, <2>3, <3>1, <3>2, <3>3
  <2> QED BY <2>2, <2>3
<1>8. s = Put(q, p, r, c)
  BY DEF u, a, b, o, Put
<1>9. Len(s) = Len(q) - (r - p) + 1
  BY <1>1, <1>3, <1>5, <1>6 DEF u
<1> HIDE DEF s
<1> QED BY <1>6, <1>7, <1>8, <1>9 DEF IsPut

(* Whom the routes visit afterwards, and that nobody is visited twice. *)
LEMMA WithoutVisits ==
  ASSUME NEW S, NEW q \in Seq(S), Simple(q), NEW i \in DOMAIN q
  PROVE  /\ Without(q, i) \in Seq(S)
         /\ Simple(Without(q, i))
         /\ Members(Without(q, i)) = Members(q) \ {q[i]}
<1> DEFINE s == Without(q, i)
<1>1. /\ s \in Seq(S) /\ Len(s) = Len(q) - 1
      /\ \A k \in 1 .. Len(q) - 1 : s[k] = IF k < i THEN q[k] ELSE q[k + 1]
  BY WithoutParts
<1> HIDE DEF s
<1>2. /\ DOMAIN q = 1 .. Len(q) /\ DOMAIN s = 1 .. Len(q) - 1 /\ Len(q) \in Nat
      /\ i \in 1 .. Len(q)
  BY <1>1, LenProperties
<1>3. Simple(s)
  <2>1. ASSUME NEW k \in DOMAIN s, NEW l \in DOMAIN s, s[k] = s[l] PROVE k = l
    <3>1. s[k] = (IF k < i THEN q[k] ELSE q[k + 1]) /\ s[l] = (IF l < i THEN q[l] ELSE q[l + 1])
      BY <1>1, <1>2
    <3>2. k \in DOMAIN q /\ k + 1 \in DOMAIN q /\ l \in DOMAIN q /\ l + 1 \in DOMAIN q
      BY <1>2
    <3>3. (IF k < i THEN k ELSE k + 1) = (IF l < i THEN l ELSE l + 1)
      BY <2>1, <3>1, <3>2 DEF Simple
    <3> QED BY <3>3, <1>2
  <2> QED BY <2>1 DEF Simple
<1>4. ASSUME NEW k \in DOMAIN s PROVE s[k] \in Members(q) \ {q[i]}
  <2>1. s[k] = (IF k < i THEN q[k] ELSE q[k + 1]) /\ k \in DOMAIN q /\ k + 1 \in DOMAIN q
    BY <1>1, <1>2
  <2>2. (k # i /\ (k < i \/ k + 1 # i)) \/ k = i
    BY <1>2
  <2>3. CASE k < i
    BY <2>1, <2>3, <1>2 DEF Members, Simple
  <2>4. CASE ~(k < i)
    <3>1. k + 1 # i BY <2>4, <1>2
    <3> QED BY <2>1, <2>4, <3>1 DEF Members, Simple
  <2> QED BY <2>3, <2>4
<1>5. ASSUME NEW k \in DOMAIN q, q[k] # q[i] PROVE \E l \in DOMAIN s : s[l] = q[k]
  <2>1. k # i BY <1>5
  <2>2. CASE k < i
    <3>1. k \in DOMAIN s BY <2>2, <1>2
    <3> QED BY <2>2, <3>1, <1>1, <1>2
  <2>3. CASE ~(k < i)
    <3>1. k - 1 \in DOMAIN s /\ ~(k - 1 < i) /\ (k - 1) + 1 = k BY <2>1, <2>3, <1>2
    <3>2. s[k - 1] = q[(k - 1) + 1] BY <3>1, <1>1, <1>2
    <3> QED BY <3>1, <3>2
  <2> QED BY <2>2, <2>3
<1>6. Members(s) = Members(q) \ {q[i]}
  BY <1>4, <1>5 DEF Members
<1> QED BY <1>1, <1>3, <1>6 DEF s

LEMMA PutVisits ==
  ASSUME NEW S, NEW q \in Seq(S), Simple(q), NEW c \in S,
         NEW p \in 0 .. Len(q), NEW r \in p .. Len(q), c \notin Members(q)
  PROVE  /\ Put(q, p, r, c) \in Seq(S)
         /\ Simple(Put(q, p, r, c))
         /\ Members(Put(q, p, r, c)) = (Members(q) \ {q[k] : k \in p + 1 .. r}) \cup {c}
<1>0. IsPut(Put(q, p, r, c), S, q, p, r, c)
  BY PutParts
<1> DEFINE s == Put(q, p, r, c)
<1>1. /\ s \in Seq(S) /\ Len(s) = Len(q) - (r - p) + 1
      /\ \A k \in 1 .. Len(q) - (r - p) + 1 :
           s[k] = IF k <= p THEN q[k] ELSE IF k = p + 1 THEN c ELSE q[k + (r - p) - 1]
  BY <1>0 DEF IsPut
<1> HIDE DEF s
<1> DEFINE At(k) == IF k <= p THEN k ELSE k + (r - p) - 1
<1>2. /\ DOMAIN q = 1 .. Len(q) /\ DOMAIN s = 1 .. Len(q) - (r - p) + 1 /\ Len(q) \in Nat
      /\ p \in Nat /\ r \in Nat /\ p <= r /\ r <= Len(q)
  BY <1>1, LenProperties
<1>3. ASSUME NEW k \in DOMAIN s
      PROVE  \/ k = p + 1 /\ s[k] = c
             \/ k # p + 1 /\ At(k) \in DOMAIN q \ (p + 1 .. r) /\ s[k] = q[At(k)]
  <2>1. s[k] = IF k <= p THEN q[k] ELSE IF k = p + 1 THEN c ELSE q[k + (r - p) - 1]
    BY <1>1, <1>2
  <2>2. k # p + 1 => At(k) \in DOMAIN q \ (p + 1 .. r)
    BY <1>2
  <2>3. k = p + 1 => ~(k <= p) BY <1>2
  <2> QED BY <2>1, <2>2, <2>3
<1>4. ASSUME NEW k \in DOMAIN q \ (p + 1 .. r) PROVE \E l \in DOMAIN s : s[l] = q[k]
  <2>1. CASE k <= p
    <3>1. k \in DOMAIN s BY <2>1, <1>2
    <3> QED BY <2>1, <3>1, <1>1, <1>2
  <2>2. CASE ~(k <= p)
    <3> DEFINE l == k - (r - p) + 1
    <3>1. l \in DOMAIN s /\ ~(l <= p) /\ l # p + 1 /\ l + (r - p) - 1 = k BY <2>2, <1>2
    <3> HIDE DEF l
    <3>2. s[l] = q[l + (r - p) - 1] BY <3>1, <1>1, <1>2
    <3> QED BY <3>1, <3>2
  <2> QED BY <2>1, <2>2
<1>5. p + 1 \in DOMAIN s /\ s[p + 1] = c
  <2>1. p + 1 \in DOMAIN s BY <1>2
  <2> QED BY <2>1, <1>3
<1>6. ASSUME NEW k \in DOMAIN q \ (p + 1 .. r) PROVE q[k] \in Members(q) \ {q[l] : l \in p + 1 .. r}
  <2>1. \A l \in p + 1 .. r : l \in DOMAIN q /\ l # k BY <1>2
  <2> QED BY <2>1 DEF Members, Simple
<1>7. Members(s) = (Members(q) \ {q[k] : k \in p + 1 .. r}) \cup {c}
  <2>1. ASSUME NEW k \in DOMAIN s PROVE s[k] \in (Members(q) \ {q[l] : l \in p + 1 .. r}) \cup {c}
    BY <1>3, <1>6
  <2>2. ASSUME NEW x \in Members(q) \ {q[l] : l \in p + 1 .. r} PROVE \E l \in DOMAIN s : s[l] = x
    <3>1. PICK k \in DOMAIN q : x = q[k] BY DEF Members
    <3>2. k \notin p + 1 .. r BY <3>1
    <3> QED BY <3>1, <3>2, <1>4
  <2> QED BY <2>1, <2>2, <1>5 DEF Members
<1>8. Simple(s)
  <2>1. ASSUME NEW k \in DOMAIN s, NEW l \in DOMAIN s, s[k] = s[l] PROVE k = l
    <3>1. CASE k # p + 1 /\ l # p + 1
      <4>1. At(k) \in DOMAIN q /\ At(l) \in DOMAIN q /\ q[At(k)] = q[At(l)]
        BY <2>1, <3>1, <1>3
      <4>2. At(k) = At(l) BY <4>1 DEF Simple
      <4> QED BY <3>1, <4>2, <1>2
    <3>2. CASE k = p + 1 \/ l = p + 1
      BY <2>1, <3>2, <1>3 DEF Members
    <3> QED BY <3>1, <3>2
  <2> QED BY <2>1 DEF Simple
<1> QED BY <1>1, <1>7, <1>8 DEF s

LEMMA InsertVisits ==
  ASSUME NEW S, NEW q \in Seq(S), Simple(q), NEW p \in 0 .. Len(q), NEW c \in S, c \notin Members(q)
  PROVE  /\ Insert(q, p, c) \in Seq(S)
         /\ Simple(Insert(q, p, c))
         /\ Members(Insert(q, p, c)) = Members(q) \cup {c}
<1>1. Insert(q, p, c) = Put(q, p, p, c) BY DEF Insert, Put
<1>2. p \in Nat /\ p \in p .. Len(q) /\ p + 1 .. p = {} BY LenProperties
<1> QED BY <1>1, <1>2, PutVisits

LEMMA ReplaceVisits ==
  ASSUME NEW S, NEW q \in Seq(S), Simple(q), NEW c \in S, c \notin Members(q),
         NEW i \in DOMAIN q, NEW j \in DOMAIN q, i <= j
  PROVE  /\ Replace(q, i, j, c) \in Seq(S)
         /\ Simple(Replace(q, i, j, c))
         /\ Members(Replace(q, i, j, c)) = (Members(q) \ {q[k] : k \in i .. j}) \cup {c}
<1>1. i \in 1 .. Len(q) /\ j \in 1 .. Len(q) /\ Len(q) \in Nat BY LenProperties
<1>2. i - 1 \in 0 .. Len(q) /\ j \in i - 1 .. Len(q) /\ (i - 1) + 1 = i BY <1>1
<1>3. Replace(q, i, j, c) = Put(q, i - 1, j, c) BY DEF Replace, Put
<1> QED BY <1>2, <1>3, PutVisits

LEMMA ExchangeVisits ==
  ASSUME NEW S, NEW q \in Seq(S), Simple(q), NEW i \in DOMAIN q, NEW c \in S, c \notin Members(q)
  PROVE  /\ Exchange(q, i, c) \in Seq(S)
         /\ Simple(Exchange(q, i, c))
         /\ Members(Exchange(q, i, c)) = (Members(q) \ {q[i]}) \cup {c}
<1> DEFINE s == Exchange(q, i, c)
<1>1. /\ s \in Seq(S) /\ DOMAIN s = DOMAIN q
      /\ \A j \in DOMAIN q : s[j] = IF j = i THEN c ELSE q[j]
  BY ExceptSeq, LenProperties DEF Exchange
<1> HIDE DEF s
<1>2. Simple(s) /\ Members(s) = (Members(q) \ {q[i]}) \cup {c}
  BY <1>1 DEF Simple, Members
<1> QED BY <1>1, <1>2 DEF s

LEMMA StretchVisits ==
  ASSUME NEW S, NEW q \in Seq(S), Simple(q), NEW i \in 1 .. Len(q) + 1, NEW j \in 0 .. Len(q)
  PROVE  /\ SubSeq(q, i, j) \in Seq(S)
         /\ Simple(SubSeq(q, i, j))
         /\ Members(SubSeq(q, i, j)) = {q[k] : k \in i .. j}
<1> DEFINE s == SubSeq(q, i, j)
<1>1. DOMAIN q = 1 .. Len(q) /\ Len(q) \in Nat /\ i \in 1 .. Len(q) + 1 /\ j \in 0 .. Len(q)
  BY LenProperties
<1>2. /\ s \in Seq(S) /\ DOMAIN s = 1 .. j - i + 1
      /\ \A k \in 1 .. j - i + 1 : s[k] = q[i + k - 1]
  <2>1. /\ s \in Seq(S) /\ Len(s) = IF i <= j THEN j - i + 1 ELSE 0
        /\ \A k \in 1 .. j - i + 1 : s[k] = q[i + k - 1]
    BY <1>1, Stretch
  <2>2. DOMAIN s = 1 .. Len(s) BY <2>1, LenProperties
  <2>3. 1 .. (IF i <= j THEN j - i + 1 ELSE 0) = 1 .. j - i + 1 BY <1>1
  <2> QED BY <2>1, <2>2, <2>3
<1> HIDE DEF s
<1>3. \A k \in 1 .. j - i + 1 : i + k - 1 \in i .. j /\ i + k - 1 \in DOMAIN q
  BY <1>1
<1>4. \A k \in i .. j : k - i + 1 \in 1 .. j - i + 1 /\ i + (k - i + 1) - 1 = k
  BY <1>1
<1>5. Simple(s)
  <2>1. ASSUME NEW k \in 1 .. j - i + 1, NEW l \in 1 .. j - i + 1, s[k] = s[l] PROVE k = l
    <3>1. i + k - 1 = i + l - 1 BY <2>1, <1>2, <1>3 DEF Simple
    <3> QED BY <3>1, <1>1
  <2> QED BY <2>1, <1>2 DEF Simple
<1>6. Members(s) = {q[k] : k \in i .. j}
  <2>1. Members(s) = {q[i + k - 1] : k \in 1 .. j - i + 1}  BY <1>2 DEF Members
  <2>2. \A k \in 1 .. j - i + 1 : q[i + k - 1] \in {q[l] : l \in i .. j}  BY <1>3
  <2>3. \A k \in i .. j : q[k] \in {q[i + l - 1] : l \in 1 .. j - i + 1}  BY <1>4
  <2> QED BY <2>1, <2>2, <2>3
<1> QED BY <1>2, <1>5, <1>6 DEF s

LEMMA JoinVisits ==
  ASSUME NEW S, NEW q \in Seq(S), NEW s \in Seq(S), Simple(q), Simple(s),
         Members(q) \cap Members(s) = {}
  PROVE  /\ q \o s \in Seq(S)
         /\ Simple(q \o s)
         /\ Members(q \o s) = Members(q) \cup Members(s)
<1> DEFINE t == q \o s
<1>1. DOMAIN q = 1 .. Len(q) /\ DOMAIN s = 1 .. Len(s) /\ Len(q) \in Nat /\ Len(s) \in Nat
  BY LenProperties
<1>2. /\ t \in Seq(S) /\ DOMAIN t = 1 .. Len(q) + Len(s)
      /\ \A k \in 1 .. Len(q) + Len(s) : t[k] = IF k <= Len(q) THEN q[k] ELSE s[k - Len(q)]
  BY ConcatProperties, LenProperties
<1> HIDE DEF t
<1>3. ASSUME NEW k \in DOMAIN t
      PROVE  \/ k \in DOMAIN q /\ t[k] = q[k]
             \/ k \notin DOMAIN q /\ k - Len(q) \in DOMAIN s /\ t[k] = s[k - Len(q)]
  BY <1>1, <1>2
<1>4. \A k \in DOMAIN q : k \in DOMAIN t /\ t[k] = q[k]
  BY <1>1, <1>2
<1>5. ASSUME NEW k \in DOMAIN s PROVE \E l \in DOMAIN t : t[l] = s[k]
  <2>1. k + Len(q) \in DOMAIN t /\ ~(k + Len(q) <= Len(q)) /\ (k + Len(q)) - Len(q) = k BY <1>1, <1>2
  <2>2. t[k + Len(q)] = s[(k + Len(q)) - Len(q)] BY <2>1, <1>2
  <2> QED BY <2>1, <2>2
<1>6. Members(t) = Members(q) \cup Members(s)
  BY <1>3, <1>4, <1>5 DEF Members
<1>7. Simple(t)
  <2>1. ASSUME NEW k \in DOMAIN t, NEW l \in DOMAIN t, t[k] = t[l] PROVE k = l
    <3>1. CASE k \in DOMAIN q /\ l \in DOMAIN q BY <2>1, <3>1, <1>4 DEF Simple
    <3>2. CASE k \notin DOMAIN q /\ l \notin DOMAIN q
      <4>1. k - Len(q) = l - Len(q) BY <2>1, <3>2, <1>3 DEF Simple
      <4> QED BY <4>1, <1>1, <1>2
    <3>3. CASE k \in DOMAIN q /\ l \notin DOMAIN q BY <2>1, <3>3, <1>3 DEF Members
    <3>4. CASE k \notin DOMAIN q /\ l \in DOMAIN q BY <2>1, <3>4, <1>3 DEF Members
    <3> QED BY <3>1, <3>2, <3>3, <3>4
  <2> QED BY <2>1 DEF Simple
<1> QED BY <1>2, <1>6, <1>7 DEF t

(* Some routes of a set give way to others that visit nobody of the rest. *)
LEMMA Repacked ==
  ASSUME NEW T, Packed(T), NEW A \in SUBSET T, NEW B, Packed(B),
         Served(B) \cap Served(T \ A) = {}
  PROVE  Packed((T \ A) \cup B)
<1>1. ASSUME NEW q \in T \ A, NEW s \in B PROVE Members(q) \cap Members(s) = {}
  BY DEF Served
<1> QED BY <1>1 DEF Packed

LEMMA ServedRest ==
  ASSUME NEW T, Packed(T), NEW A \in SUBSET T
  PROVE  Served(T \ A) = Served(T) \ Served(A)
BY DEF Served, Packed
=============================================================================

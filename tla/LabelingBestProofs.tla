------------------------ MODULE LabelingBestProofs -------------------------
(***************************************************************************)
(* That an exact search that no limit stopped has the cheapest routes.     *)
(* LabelingProofs shows that a route which is a course from either of its  *)
(* ends is merged into the pool.  Here the best of all routes, driven as   *)
(* fast as it can be, is shown to be such a course: a label that beat it   *)
(* at one of its stops would make a route no dearer with the rest of it,   *)
(* and one dropped on its way would let it stop at the depot.              *)
(***************************************************************************)
EXTENDS LabelingProofs

-----------------------------------------------------------------------------
(* The routes the checker knows. *)
LEMMA PathShape ==
  ASSUME N \in Nat \ {0}, NEW path \in Path
  PROVE  /\ path \in Seq(Vertex) /\ Len(path) \in Nat /\ Len(path) >= 3 /\ Len(path) <= N + 2
         /\ path[1] = Start /\ path[Len(path)] = End
         /\ \A i \in 2..Len(path) - 1 : path[i] \in Customer
         /\ IsInjective(path)
         /\ \A i \in 1..Len(path) - 1 : <<path[i], path[i + 1]>> \in Arc
<1>1. PICK p \in {x \in UNION {[1..n -> Customer] : n \in 1..N} : IsInjective(x)} :
        path = <<Start>> \o p \o <<End>>
  BY DEF Path
<1>2. PICK n \in 1..N : p \in [1..n -> Customer]
  BY <1>1
<1> DEFINE a == <<Start>>
           b == <<End>>
           c == a \o p
<1>3. /\ a \in Seq(Vertex) /\ Len(a) = 1 /\ a[1] = Start /\ b \in Seq(Vertex) /\ Len(b) = 1 /\ b[1] = End
      /\ Customer \subseteq Vertex /\ Start \notin Customer /\ End \notin Customer /\ Start # End
  BY Vertices
<1>4. p \in Seq(Vertex) /\ Len(p) = n /\ n \in Nat /\ n >= 1 /\ n <= N /\ DOMAIN p = 1..n
      /\ (\A i \in 1..n : p[i] \in Customer) /\ \A i, j \in 1..n : p[i] = p[j] => i = j
  <2>1. p \in [1..n -> Vertex] /\ n \in Nat /\ n >= 1 /\ n <= N  BY <1>2, <1>3
  <2>2. DOMAIN p = 1..n  BY <1>2
  <2>3. \A i, j \in 1..n : p[i] = p[j] => i = j  BY <1>1, <2>2 DEF IsInjective
  <2>4. p \in Seq(Vertex) /\ Len(p) = n  BY <2>1
  <2> QED BY <1>2, <2>1, <2>2, <2>3, <2>4
<1>5. path = c \o b
  BY <1>1
<1> HIDE DEF a, b
<1>6. /\ c \in Seq(Vertex) /\ Len(c) = Len(a) + Len(p)
      /\ \A i \in 1..Len(a) + Len(p) : c[i] = IF i <= Len(a) THEN a[i] ELSE p[i - Len(a)]
  <2>1. a \in Seq(Vertex) /\ p \in Seq(Vertex)  BY <1>3, <1>4
  <2> QED BY ONLY <2>1, ConcatProperties
<1> HIDE DEF c
<1>7. c \in Seq(Vertex) /\ Len(c) = n + 1 /\ c[1] = Start /\ \A i \in 2..n + 1 : c[i] = p[i - 1]
  <2>1. 1 \in 1..1 + n /\ 1 <= 1 /\ \A i \in 2..n + 1 : i \in 1..1 + n /\ ~(i <= 1)  BY <1>4
  <2> QED BY <1>3, <1>4, <1>6, <2>1
<1>8. /\ c \o b \in Seq(Vertex) /\ Len(c \o b) = Len(c) + Len(b)
      /\ \A i \in 1..Len(c) + Len(b) : (c \o b)[i] = IF i <= Len(c) THEN c[i] ELSE b[i - Len(c)]
  <2>1. c \in Seq(Vertex) /\ b \in Seq(Vertex)  BY <1>3, <1>7
  <2> QED BY ONLY <2>1, ConcatProperties
<1>9. Len(path) = n + 2 /\ path[1] = Start /\ path[n + 2] = End /\ \A i \in 2..n + 1 : path[i] = p[i - 1]
  <2>1. 1 \in 1..n + 1 + 1 /\ 1 <= n + 1 /\ n + 2 \in 1..n + 1 + 1 /\ ~(n + 2 <= n + 1)
        /\ n + 2 - (n + 1) = 1 /\ \A i \in 2..n + 1 : i \in 1..n + 1 + 1 /\ i <= n + 1
    BY <1>4
  <2> QED BY <1>3, <1>4, <1>5, <1>7, <1>8, <2>1
<1>10. \A i \in 2..n + 1 : path[i] \in Customer
  <2>1. \A i \in 2..n + 1 : i - 1 \in 1..n  BY <1>4
  <2> QED BY <1>4, <1>9, <2>1
<1>11. path \in Seq(Vertex) /\ DOMAIN path = 1..n + 2
  <2>1. path \in Seq(Vertex)  BY <1>5, <1>8
  <2> QED BY <1>9, <2>1
<1>12. \A i, j \in 1..n + 2 : path[i] = path[j] => i = j
  <2>1. SUFFICES ASSUME NEW i \in 1..n + 2, NEW j \in 1..n + 2, path[i] = path[j] PROVE i = j  OBVIOUS
  <2>2. \A k \in 1..n + 2 : k = 1 \/ k = n + 2 \/ k \in 2..n + 1  BY <1>4
  <2>3. CASE i \in 2..n + 1 /\ j \in 2..n + 1
    <3>1. p[i - 1] = p[j - 1] /\ i - 1 \in 1..n /\ j - 1 \in 1..n  BY <1>4, <1>9, <2>1, <2>3
    <3>2. i - 1 = j - 1  BY <1>4, <3>1
    <3> QED BY <2>3, <3>2
  <2>4. CASE i \notin 2..n + 1 \/ j \notin 2..n + 1
    BY <1>3, <1>9, <1>10, <2>1, <2>2, <2>4
  <2> QED BY <2>3, <2>4
<1>13. ASSUME NEW i \in 1..n + 1 PROVE <<path[i], path[i + 1]>> \in Arc
  <2> DEFINE k == i + 1
  <2>1. i \in 1..n + 2 /\ k \in 1..n + 2 /\ i # k /\ i # n + 2 /\ k # 1 /\ (i = 1 => k # n + 2)
        /\ 1 \in 1..n + 2 /\ n + 2 \in 1..n + 2
    BY <1>4
  <2> HIDE DEF k
  <2>2. path[i] \in Vertex /\ path[k] \in Vertex  BY <1>9, <1>11, <2>1, ElementOfSeq
  <2>3. path[i] # path[k] /\ path[i] # End /\ path[k] # Start  BY <1>9, <1>12, <2>1
  <2>4. ~(path[i] = Start /\ path[k] = End)  BY <1>9, <1>12, <2>1
  <2>5. <<path[i], path[k]>> # <<Start, End>>  BY <2>4
  <2>6. <<path[i], path[k]>> \in Arc  BY <2>2, <2>3, <2>5 DEF Arc
  <2> QED BY <2>6 DEF k
<1>14. Len(path) \in Nat /\ Len(path) >= 3 /\ Len(path) <= N + 2 /\ Len(path) - 1 = n + 1
  BY <1>4, <1>9
<1> QED BY <1>9, <1>10, <1>11, <1>12, <1>13, <1>14 DEF IsInjective

(* One drive on the raw instance, the wait and the service at its end included. *)
Drives(a, x, y) ==
  a \in Arc /\ x \in DOMAIN Folded(Raw[prob.net])[a] /\ y = Folded(Raw[prob.net])[a][x]

LEMMA DrivesIs ==
  ASSUME Setting, NEW a, NEW x, NEW y, Drives(a, x, y)
  PROVE  /\ a \in Arc /\ a[1] \in Vertex /\ a[2] \in Vertex /\ x \in 0..T /\ x \in Int /\ y \in Int
         /\ x <= y /\ y < Never /\ x # Never /\ y # Never
         /\ Fits(Raw[prob.net], a[1], x) /\ Fits(Raw[prob.net], a[2], y)
         /\ \A z : Drives(a, x, z) => z = y
         /\ \A u : Fits(Raw[prob.net], a[1], u) /\ u <= x => \E v : Drives(a, u, v) /\ v <= y
<1> DEFINE raw == Raw[prob.net]
           f == Folded(raw)[a]
<1>1. Sane(raw) /\ a \in Arc /\ Drivable(raw, a, f) /\ x \in DOMAIN f /\ y = f[x] /\ Never \in Nat /\ T \in Nat
  BY SettingIs, FoldedDrivable DEF Drives, Sane
<1>2. a[1] \in Vertex /\ a[2] \in Vertex  BY <1>1, Vertices DEF Sane
<1>3. /\ x \in 0..T /\ Fits(raw, a[1], x) /\ Fits(raw, a[2], y) /\ y \in Int /\ x <= y /\ y < Never
      /\ \A u \in Int : Fits(raw, a[1], u) /\ u <= x => u \in DOMAIN f /\ f[u] <= f[x]
  BY <1>1 DEF Drivable
<1>4. ASSUME NEW u, Fits(raw, a[1], u), u <= x PROVE \E v : Drives(a, u, v) /\ v <= y
  <2>1. u \in Int  BY <1>4 DEF Fits
  <2>2. u \in DOMAIN f /\ f[u] <= f[x]  BY <1>3, <1>4, <2>1
  <2> QED BY <1>1, <2>2 DEF Drives
<1>5. \A z : Drives(a, x, z) => z = y  BY <1>1 DEF Drives
<1>6. x \in Int /\ x # Never /\ y # Never  BY <1>1, <1>3
<1> QED BY <1>1, <1>2, <1>3, <1>4, <1>5, <1>6

LEMMA DrivesLinked ==
  ASSUME Setting, NEW a \in vrp.arcs
  PROVE  \A x, y : Drives(a, x, y) <=> Linked(vrp, a, x, y)
BY SettingIs DEF Ready, Drives, Linked

(* A ride: the times at which one has been served along a path. *)
Ride(path, z) ==
  /\ z \in [1..Len(path) -> Int]
  /\ \A i \in 1..Len(path) - 1 : Drives(<<path[i], path[i + 1]>>, z[i], z[i + 1])

LEMMA DrivenIs ==
  ASSUME Setting, NEW path \in Path, NEW t0 \in Raw[prob.net].lo[Start]..Raw[prob.net].hi[Start]
  PROVE  /\ Driven(path, t0) \in Int
         /\ Driven(path, t0) # Never => \E z : Ride(path, z) /\ z[1] = t0 /\ z[Len(path)] = Driven(path, t0)
         /\ \A z : Ride(path, z) /\ z[1] = t0 => z[Len(path)] = Driven(path, t0) /\ Driven(path, t0) # Never
<1> DEFINE n == Len(path)
           raw == Raw[prob.net]
           f(i) == Folded(raw)[<<path[i], path[i + 1]>>]
<1>0. Sane(raw) /\ N \in Nat \ {0} /\ Never \in Nat
  BY SettingIs DEF Sane
<1>1. /\ path \in Seq(Vertex) /\ n \in Nat /\ n >= 3 /\ path[1] = Start
      /\ \A i \in 1..n - 1 : <<path[i], path[i + 1]>> \in Arc
  BY <1>0, PathShape
<1>2. n >= 1 /\ 1 \in 1..n /\ n \in 1..n /\ 1 \in Int /\ n \in Int
  BY <1>1
<1>3. t0 \in Int /\ Fits(raw, Start, t0)
  <2>1. Start \in Vertex /\ Start \notin Customer  BY <1>0, Vertices
  <2>2. raw.service[Start] = 0 /\ raw.lo[Start] \in Nat /\ raw.hi[Start] \in Nat
    BY <1>0, <2>1 DEF Sane, Proper
  <2>3. t0 \in raw.lo[Start]..raw.hi[Start]  OBVIOUS
  <2> HIDE DEF raw
  <2> QED BY <2>2, <2>3 DEF Fits
<1>6. PICK g \in [1..n -> Int] :
        /\ g[1] = t0 /\ Driven(path, t0) = g[n]
        /\ \A i \in 2..n : g[i] = Serve(path[i], Arrive(raw.drive[<<path[i - 1], path[i]>>], g[i - 1]))
  <2>1. \E z \in [1..Len(path) -> Int] :
          /\ z[1] = t0 /\ Driven(path, t0) = z[Len(path)]
          /\ \A i \in 2..Len(path) :
               z[i] = Serve(path[i], Arrive(Raw[prob.net].drive[<<path[i - 1], path[i]>>], z[i - 1]))
    BY <1>1, <1>2, <1>3, DrivenParts
  <2> QED BY <2>1
<1>7. ASSUME NEW i \in 1..n - 1, Kept(g[i], raw, path[i])
      PROVE  /\ i \in 1..n /\ i + 1 \in 1..n
             /\ Kept(g[i + 1], raw, path[i + 1])
             /\ g[i + 1] # Never => Drives(<<path[i], path[i + 1]>>, g[i], g[i + 1])
             /\ \A y : Drives(<<path[i], path[i + 1]>>, g[i], y) => y = g[i + 1] /\ y # Never
  <2> DEFINE k == i + 1
             a == <<path[i], path[k]>>
             x == g[i]
  <2>1. k \in 2..n /\ k - 1 = i /\ i \in 1..n /\ k \in 1..n  BY <1>1
  <2>2. a \in Arc /\ a[1] = path[i] /\ a[2] = path[k]  BY <1>1
  <2> HIDE DEF k, n
  <2>3. g[k] = Serve(path[k], Arrive(raw.drive[<<path[i], path[k]>>], g[i])) /\ x \in Int
    BY <1>6, <2>1
  <2> HIDE DEF a, x
  <2>4. g[k] = Serve(a[2], Arrive(Raw[prob.net].drive[a], x)) /\ Kept(x, Raw[prob.net], a[1])
    <3>1. g[k] = Serve(path[k], Arrive(raw.drive[a], x))  BY <2>3 DEF a, x
    <3> QED BY <1>7, <2>2, <3>1 DEF x
  <2>5. /\ Arrive(Folded(Raw[prob.net])[a], x) = Serve(a[2], Arrive(Raw[prob.net].drive[a], x))
        /\ Kept(Arrive(Folded(Raw[prob.net])[a], x), Raw[prob.net], a[2])
    BY <2>2, <2>3, <2>4, DriveStep
  <2>6. g[k] = Arrive(Folded(raw)[a], x) /\ Kept(g[k], raw, path[k])  BY <2>2, <2>4, <2>5
  <2>7. g[k] # Never => Drives(a, x, g[k])  BY <2>2, <2>6 DEF Arrive, Drives
  <2>8. ASSUME NEW y, Drives(a, x, y) PROVE y = g[k] /\ y # Never
    <3>1. y # Never  BY <2>8, DrivesIs
    <3>2. y = g[k]  BY <2>6, <2>8 DEF Arrive, Drives
    <3> QED BY <3>1, <3>2
  <2> QED BY <2>1, <2>6, <2>7, <2>8 DEF a, x, k
<1> HIDE DEF n, raw, f
<1> DEFINE P(i) == /\ Kept(g[i], raw, path[i])
                   /\ g[i] # Never => \A j \in 1..i - 1 : Drives(<<path[j], path[j + 1]>>, g[j], g[j + 1])
           S == {i \in 1..n : P(i)}
<1>9. 1..n \subseteq S
  <2>1. 1 \in S
    <3>1. 1..1 - 1 = {}  OBVIOUS
    <3>2. Kept(g[1], raw, path[1])  BY <1>1, <1>3, <1>6 DEF Kept
    <3>3. P(1)  BY <3>1, <3>2
    <3> HIDE DEF P
    <3> QED BY <1>2, <3>3
  <2>2. ASSUME NEW i \in 1..n - 1, i \in S PROVE i + 1 \in S
    <3>0. P(i)
      <4> HIDE DEF P
      <4> QED BY <2>2
    <3>1. Kept(g[i], raw, path[i])  BY <3>0
    <3>2. Kept(g[i + 1], raw, path[i + 1]) /\ i + 1 \in 1..n
      BY <1>7, <3>1
    <3>3. ASSUME g[i + 1] # Never, NEW j \in 1..i + 1 - 1
          PROVE Drives(<<path[j], path[j + 1]>>, g[j], g[j + 1])
      <4>1. Drives(<<path[i], path[i + 1]>>, g[i], g[i + 1])  BY <1>7, <3>1, <3>3
      <4>2. CASE j = i
        BY <4>1, <4>2
      <4>3. CASE j # i
        <5>1. g[i] # Never  BY <4>1, DrivesIs
        <5>2. j \in 1..i - 1  BY <1>1, <4>3
        <5> QED BY <3>0, <5>1, <5>2
      <4> QED BY <4>2, <4>3
    <3>4. P(i + 1)  BY <3>2, <3>3
    <3> HIDE DEF P
    <3> QED BY <3>2, <3>4
  <2>3. \A i \in 1..n - 1 : i \in S => i + 1 \in S  BY <2>2
  <2> HIDE DEF S
  <2> QED BY <1>2, <2>1, <2>3, Induction
<1> HIDE DEF P
<1>p. \A i \in 1..n : P(i)
  BY <1>9
<1>q. \A i \in 1..n : Kept(g[i], raw, path[i])
  BY <1>p DEF P
<1>11. ASSUME g[n] # Never PROVE Ride(path, g)
  <2>1. P(n)  BY <1>2, <1>p
  <2>2. \A j \in 1..n - 1 : Drives(<<path[j], path[j + 1]>>, g[j], g[j + 1])
    BY <1>11, <2>1 DEF P
  <2> QED BY <2>2 DEF Ride, n
<1>12. ASSUME NEW z, Ride(path, z), z[1] = t0 PROVE z[n] = g[n] /\ g[n] # Never
  <2>1. \A j \in 1..n - 1 : Drives(<<path[j], path[j + 1]>>, z[j], z[j + 1])
    BY <1>12 DEF Ride, n
  <2> DEFINE R == {i \in 1..n : z[i] = g[i] /\ g[i] # Never}
  <2>2. 1 \in R
    <3>1. 1 \in 1..n - 1  BY <1>1
    <3>2. Drives(<<path[1], path[1 + 1]>>, z[1], z[1 + 1])  BY <2>1, <3>1
    <3>3. z[1] # Never  BY <3>2, DrivesIs
    <3> QED BY <1>2, <1>6, <1>12, <3>3
  <2>3. ASSUME NEW i \in 1..n - 1, i \in R PROVE i + 1 \in R
    <3>1. z[i] = g[i] /\ i \in 1..n  BY <2>3
    <3>2. Kept(g[i], raw, path[i])  BY <1>q, <3>1
    <3>3. Drives(<<path[i], path[i + 1]>>, g[i], z[i + 1])  BY <2>1, <3>1
    <3>4. z[i + 1] = g[i + 1] /\ z[i + 1] # Never /\ i + 1 \in 1..n  BY <1>7, <3>2, <3>3
    <3> QED BY <3>1, <3>4
  <2>4. \A i \in 1..n - 1 : i \in R => i + 1 \in R  BY <2>3
  <2> HIDE DEF R
  <2>5. 1..n \subseteq R  BY <1>2, <2>2, <2>4, Induction
  <2> QED BY <1>2, <2>5 DEF R
<1>13. g[n] \in Int
  BY <1>2
<1> QED BY <1>6, <1>11, <1>12, <1>13 DEF n

LEMMA RideIs ==
  ASSUME Setting, NEW path \in Path, NEW z, Ride(path, z)
  PROVE  /\ z \in [1..Len(path) -> Int] /\ z \in [1..Len(path) -> 0..T]
         /\ \A i \in 1..Len(path) : Fits(Raw[prob.net], path[i], z[i])
         /\ \A i \in 1..Len(path) - 1 : /\ z[i] <= z[i + 1]
                                        /\ Drives(<<path[i], path[i + 1]>>, z[i], z[i + 1])
         /\ z[1] \in 0..T /\ z[Len(path)] \in 0..T /\ z[1] <= z[Len(path)] /\ z[Len(path)] < Never
         /\ z[Len(path)] \in Int /\ z[1] \in Int /\ T \in Nat /\ Never \in Nat
<1> DEFINE n == Len(path)
           raw == Raw[prob.net]
<1>0. Sane(raw) /\ N \in Nat \ {0} /\ T \in Nat /\ Never \in Nat
  BY SettingIs DEF Sane
<1>1. /\ n \in Nat /\ n >= 3 /\ path[n] = End
  BY <1>0, PathShape
<1>2. z \in [1..n -> Int] /\ \A i \in 1..n - 1 : Drives(<<path[i], path[i + 1]>>, z[i], z[i + 1])
  BY DEF Ride
<1>3. ASSUME NEW i \in 1..n - 1
      PROVE  /\ z[i] \in 0..T /\ z[i] <= z[i + 1] /\ z[i + 1] < Never
             /\ Fits(raw, path[i], z[i]) /\ Fits(raw, path[i + 1], z[i + 1])
  <2>1. Drives(<<path[i], path[i + 1]>>, z[i], z[i + 1])  BY <1>2
  <2> QED BY <2>1, DrivesIs
<1> HIDE DEF n, raw
<1>4. Fits(raw, End, z[n]) /\ z[n] < Never
  <2> DEFINE k == n - 1
  <2>1. k \in 1..n - 1 /\ k + 1 = n  BY <1>1
  <2> HIDE DEF k
  <2>2. Fits(raw, path[k + 1], z[k + 1]) /\ z[k + 1] < Never  BY <1>3, <2>1
  <2> QED BY <1>1, <2>1, <2>2
<1>5. z[n] \in Int /\ 1 \in 1..n /\ n \in 1..n /\ n \in Int /\ 1 \in 1..n - 1  BY <1>1, <1>2
<1>6. z[1] <= z[n] /\ z[1] \in Int
  <2>1. z[1] \in Int /\ 1 \in 1..n /\ n \in 1..n  BY <1>2, <1>5
  <2>2. \A i \in 1..n - 1 : z[i] <= z[i + 1]  BY <1>3
  <2>3. n \in 1..n  BY <1>5
  <2> QED BY <1>1, <1>2, <2>1, <2>2, Rising
<1>7. z[n] <= T /\ 0 <= z[n]
  <2> DEFINE s == raw.service[End]
             h == raw.hi[End]
             e == z[n]
  <2>1. End \in Vertex /\ End \notin Customer  BY <1>0, Vertices
  <2>2. s = 0 /\ h \in Nat /\ h <= T  BY <1>0, <2>1 DEF Sane, Proper
  <2>3. e - s <= h  BY <1>4 DEF Fits
  <2>4. z[1] \in 0..T  BY <1>3, <1>5
  <2>5. e \in Int /\ z[1] <= e  BY <1>5, <1>6
  <2> HIDE DEF s, h, e
  <2>6. e <= T  BY <1>0, <2>2, <2>3, <2>5
  <2>7. 0 <= e  BY <1>0, <2>4, <2>5
  <2> QED BY <2>6, <2>7 DEF e
<1>8. ASSUME NEW i \in 1..n PROVE z[i] \in 0..T /\ Fits(raw, path[i], z[i])
  <2>1. CASE i = n  BY <1>0, <1>1, <1>4, <1>5, <1>7, <2>1
  <2>2. CASE i # n
    <3>1. i \in 1..n - 1  BY <1>1, <2>2
    <3> QED BY <1>3, <3>1
  <2> QED BY <2>1, <2>2
<1>9. z \in [1..n -> 0..T]  BY <1>2, <1>8
<1> QED BY <1>0, <1>2, <1>3, <1>4, <1>5, <1>6, <1>8, <1>9 DEF n, raw

(* The checker finds the shortest ride of a path that has one and is not overloaded. *)
Window == Raw[prob.net].lo[Start]..Raw[prob.net].hi[Start]

LEMMA CheckedRide ==
  ASSUME Setting, NEW path \in Path
  PROVE  /\ Checked(path) \in Nat
         /\ Checked(path) # Never =>
              /\ Along(Loads(prob), path) <= Raw[prob.net].room
              /\ \E z : Ride(path, z) /\ z[1] \in Window /\ z[Len(path)] - z[1] = Checked(path)
         /\ Along(Loads(prob), path) <= Raw[prob.net].room =>
              \A z : Ride(path, z) /\ z[1] \in Window =>
                Checked(path) # Never /\ Checked(path) <= z[Len(path)] - z[1]
<1> DEFINE raw == Raw[prob.net]
           n == Len(path)
           V == {Driven(path, t) - t : t \in {x \in Window : Driven(path, x) # Never}}
           load == Along(Loads(prob), path)
<1>0. Sane(raw) /\ N \in Nat \ {0} /\ Never \in Nat /\ prob \in Problem /\ Start \in Vertex
  BY SettingIs, Vertices DEF Sane, Setting
<1>1. path \in Seq(Vertex) /\ n \in Nat /\ n >= 3
  BY <1>0, PathShape
<1>2. Load(path) = load
  BY DEF Load, Loads, Demand
<1>3. load \in Int /\ raw.room \in Int
  <2>1. Loads(prob) \in [Vertex -> Int]  BY <1>0, SumFunctions
  <2>2. load \in Int  BY <1>1, <2>1, SumInt
  <2>3. raw.room \in Int
    <3>1. Proper(raw)  BY <1>0 DEF Sane
    <3> HIDE DEF raw
    <3>2. raw.room \in Nat  BY <3>1 DEF Proper
    <3> QED BY <3>2
  <2> QED BY <2>2, <2>3
<1>4. Checked(path) = IF load > raw.room THEN Never ELSE Min({Never} \cup V)
  BY <1>2 DEF Checked, Window
<1>5. \A t \in Window :
         /\ Driven(path, t) \in Int
         /\ Driven(path, t) # Never => \E z : Ride(path, z) /\ z[1] = t /\ z[n] = Driven(path, t)
         /\ \A z : Ride(path, z) /\ z[1] = t => z[n] = Driven(path, t) /\ Driven(path, t) # Never
  BY DrivenIs DEF Window
<1>6. \A z : Ride(path, z) => z[1] \in 0..T /\ z[n] \in Int /\ z[1] <= z[n] /\ z[n] < Never
  BY RideIs
<1> HIDE DEF n, raw, load
<1>7. ASSUME NEW z, Ride(path, z), z[1] \in Window
      PROVE  z[n] - z[1] \in V /\ z[n] - z[1] \in Nat /\ z[n] - z[1] < Never
  <2> DEFINE t == z[1]
  <2>1. z[n] = Driven(path, t) /\ Driven(path, t) # Never  BY <1>5, <1>7
  <2>2. z[n] - z[1] \in V  BY <1>7, <2>1
  <2>3. z[1] \in 0..T /\ z[n] \in Int /\ z[1] <= z[n] /\ z[n] < Never  BY <1>6, <1>7
  <2> HIDE DEF V, t
  <2>4. z[n] - z[1] \in Nat /\ z[n] - z[1] < Never
    <3> DEFINE a == z[1]
               b == z[n]
    <3>1. a \in Int /\ 0 <= a /\ b \in Int /\ a <= b /\ b < Never  BY <2>3
    <3> HIDE DEF a, b
    <3>2. b - a \in Nat /\ b - a < Never  BY <1>0, <3>1
    <3> QED BY <3>2 DEF a, b
  <2> QED BY <2>2, <2>4
<1>8. ASSUME NEW c \in V
      PROVE  c \in Nat /\ \E z : Ride(path, z) /\ z[1] \in Window /\ z[n] - z[1] = c
  <2>1. PICK t \in Window : Driven(path, t) # Never /\ c = Driven(path, t) - t  OBVIOUS
  <2>2. PICK z : Ride(path, z) /\ z[1] = t /\ z[n] = Driven(path, t)  BY <1>5, <2>1
  <2>3. z[n] - z[1] = c  BY <2>1, <2>2
  <2>4. z[n] - z[1] \in Nat  BY <1>7, <2>1, <2>2
  <2> QED BY <2>1, <2>2, <2>3, <2>4
<1> HIDE DEF V
<1> DEFINE m == Min({Never} \cup V)
<1>9. m \in {Never} \cup V /\ \A c \in {Never} \cup V : m <= c
  <2>1. /\ {Never} \cup V \subseteq Int /\ {Never} \cup V # {} /\ 0 \in Int
        /\ \A c \in {Never} \cup V : 0 <= c
    BY <1>0, <1>8
  <2> QED BY <2>1, MinIs
<1> HIDE DEF m
<1>10. Checked(path) = IF load > raw.room THEN Never ELSE m
  BY <1>4 DEF m
<1>11. m \in Nat  BY <1>0, <1>8, <1>9
<1>12. Checked(path) \in Nat  BY <1>0, <1>10, <1>11
<1>13. ASSUME Checked(path) # Never
       PROVE  load <= raw.room /\ \E z : Ride(path, z) /\ z[1] \in Window /\ z[n] - z[1] = Checked(path)
  <2>1. ~(load > raw.room) /\ Checked(path) = m  BY <1>10, <1>13
  <2>2. m \in V  BY <1>9, <1>13, <2>1
  <2> QED BY <1>3, <1>8, <2>1, <2>2
<1>14. ASSUME load <= raw.room, NEW z, Ride(path, z), z[1] \in Window
       PROVE  Checked(path) # Never /\ Checked(path) <= z[n] - z[1]
  <2>1. Checked(path) = m  BY <1>3, <1>10, <1>14
  <2>2. z[n] - z[1] \in V /\ z[n] - z[1] \in Nat /\ z[n] - z[1] < Never  BY <1>7, <1>14
  <2>3. m <= z[n] - z[1]  BY <1>9, <2>2
  <2> DEFINE c == z[n] - z[1]
  <2>4. c \in Nat /\ c < Never /\ m <= c  BY <2>2, <2>3
  <2> HIDE DEF c
  <2>5. m # Never  BY <1>0, <1>11, <2>4
  <2> QED BY <2>1, <2>3, <2>5
<1> QED BY <1>12, <1>13, <1>14 DEF load, raw, n

-----------------------------------------------------------------------------
(* A sum along an elementary path does not depend on the order. *)
LEMMA SumLess ==
  ASSUME NEW f \in [Vertex -> Int], NEW g \in [Vertex -> Int], \A v \in Vertex : f[v] <= g[v],
         NEW path \in Seq(Vertex)
  PROVE  Along(f, path) <= Along(g, path)
<1> DEFINE n == Len(path)
<1>1. n \in Nat /\ n \in Int /\ 0 \in Int /\ \A i \in 1..n : path[i] \in Vertex
  BY ElementOfSeq
<1>2. PICK y : IsSum(y, f, path) /\ Along(f, path) = y[n]
  BY SumIs
<1>3. PICK z : IsSum(z, g, path) /\ Along(g, path) = z[n]
  BY SumIs
<1> HIDE DEF n
<1>4. /\ y \in [0..n -> Int] /\ y[0] = 0 /\ z \in [0..n -> Int] /\ z[0] = 0
      /\ \A i \in 1..n : y[i] = y[i - 1] + f[path[i]] /\ z[i] = z[i - 1] + g[path[i]]
  BY <1>2, <1>3 DEF IsSum, n
<1> DEFINE S == {i \in 0..n : y[i] <= z[i]}
<1>5. 0 \in S  BY <1>1, <1>4
<1>6. ASSUME NEW i \in 0..n - 1, i \in S PROVE i + 1 \in S
  <2> DEFINE k == i + 1
             a == f[path[k]]
             b == g[path[k]]
  <2>1. k \in 1..n /\ k \in 0..n /\ k - 1 = i /\ i \in 0..n  BY <1>1
  <2>2. a \in Int /\ b \in Int /\ a <= b
    <3> DEFINE v == path[k]
    <3>1. v \in Vertex  BY <1>1, <2>1
    <3> HIDE DEF v
    <3>2. f[v] \in Int /\ g[v] \in Int /\ f[v] <= g[v]  BY <3>1
    <3> QED BY <3>2 DEF v
  <2>3. y[k] = y[i] + a /\ z[k] = z[i] + b  BY <1>4, <2>1
  <2>4. y[i] \in Int /\ z[i] \in Int /\ y[i] <= z[i]  BY <1>4, <1>6, <2>1
  <2> HIDE DEF k, a, b
  <2>5. y[k] <= z[k]  BY <2>2, <2>3, <2>4
  <2> QED BY <2>1, <2>5 DEF k
<1>7. \A i \in 0..n - 1 : i \in S => i + 1 \in S  BY <1>6
<1> HIDE DEF S
<1>8. 0..n \subseteq S  BY <1>1, <1>5, <1>7, Induction
<1>9. n \in 0..n  BY <1>1
<1> QED BY <1>2, <1>3, <1>8, <1>9 DEF S

Everyone == [i \in 1..N + 2 |-> i - 1]
Part(f, W) == [v \in Vertex |-> IF v \in W THEN f[v] ELSE 0]
Tot(f, W) == Along(Part(f, W), Everyone)

LEMMA EveryoneIs ==
  ASSUME N \in Nat \ {0}
  PROVE  /\ Everyone \in Seq(Vertex) /\ Len(Everyone) = N + 2 /\ N + 2 \in Nat
         /\ \A i \in 1..N + 2 : Everyone[i] = i - 1
<1>1. N + 2 \in Nat  OBVIOUS
<1>2. \A i \in 1..N + 2 : i - 1 \in Vertex  BY DEF Vertex, Start, End
<1>3. Everyone \in [1..N + 2 -> Vertex]  BY <1>2 DEF Everyone
<1>4. \A i \in 1..N + 2 : Everyone[i] = i - 1  BY DEF Everyone
<1> HIDE DEF Everyone
<1> QED BY <1>1, <1>3, <1>4

LEMMA PartIs ==
  ASSUME NEW f \in [Vertex -> Int], NEW W
  PROVE  Part(f, W) \in [Vertex -> Int] /\ \A v \in Vertex : Part(f, W)[v] = IF v \in W THEN f[v] ELSE 0
BY DEF Part

LEMMA TotAdd ==
  ASSUME N \in Nat \ {0}, NEW f \in [Vertex -> Int], NEW W, NEW v \in Vertex, v \notin W
  PROVE  Tot(f, W \cup {v}) = Tot(f, W) + f[v] /\ Tot(f, W) \in Int
<1> DEFINE n == N + 2
           g == Part(f, W)
           h == Part(f, W \cup {v})
           e == Everyone
           c == f[v]
<1>1. e \in Seq(Vertex) /\ Len(e) = n /\ n \in Nat /\ \A i \in 1..n : e[i] = i - 1
  BY EveryoneIs
<1>2. g \in [Vertex -> Int] /\ \A u \in Vertex : g[u] = IF u \in W THEN f[u] ELSE 0
  BY PartIs
<1>3. h \in [Vertex -> Int] /\ \A u \in Vertex : h[u] = IF u \in W \cup {v} THEN f[u] ELSE 0
  BY PartIs
<1>4. v \in Int /\ c \in Int /\ 0 <= v /\ v <= N + 1  BY DEF Vertex, Start, End
<1> HIDE DEF g, h, e, c
<1>5. PICK z : IsSum(z, g, e) /\ Along(g, e) = z[n]
  BY <1>1, <1>2, SumIs
<1>6. /\ z \in [0..n -> Int] /\ z[0] = 0
      /\ \A i \in 1..n : z[i] = z[i - 1] + g[e[i]]
  BY <1>1, <1>5 DEF IsSum
<1> DEFINE y == [i \in 0..n |-> z[i] + IF v + 1 <= i THEN c ELSE 0]
<1>7. y \in [0..n -> Int] /\ y[0] = 0
  <2>1. 0 \in 0..n /\ ~(v + 1 <= 0)  BY <1>1, <1>4
  <2> QED BY <1>4, <1>6, <2>1
<1>8. ASSUME NEW i \in 1..n PROVE y[i] = y[i - 1] + h[e[i]]
  <2> DEFINE u == e[i]
  <2>1. i \in 0..n /\ i - 1 \in 0..n /\ i \in Int  BY <1>1
  <2>2. u = i - 1 /\ u \in Vertex  BY <1>1, ElementOfSeq
  <2>3. z[i] = z[i - 1] + g[u] /\ z[i - 1] \in Int /\ z[i] \in Int  BY <1>6, <2>1
  <2>4. y[i] = z[i] + (IF v + 1 <= i THEN c ELSE 0)
        /\ y[i - 1] = z[i - 1] + (IF v + 1 <= i - 1 THEN c ELSE 0)
    BY <2>1
  <2>5. g[u] \in Int /\ h[u] \in Int  BY <1>2, <1>3, <2>2
  <2> HIDE DEF u, y
  <2>6. CASE u = v
    <3>1. g[u] = 0 /\ h[u] = c  BY <1>2, <1>3, <2>2, <2>6 DEF c
    <3>2. v + 1 <= i /\ ~(v + 1 <= i - 1)  BY <1>4, <2>1, <2>2, <2>6
    <3> QED BY <1>4, <2>3, <2>4, <3>1, <3>2 DEF u
  <2>7. CASE u # v
    <3>1. g[u] = h[u]  BY <1>2, <1>3, <2>2, <2>7
    <3>2. v + 1 <= i <=> v + 1 <= i - 1  BY <1>4, <2>1, <2>2, <2>7
    <3>3. CASE v + 1 <= i  BY <1>4, <2>3, <2>4, <2>5, <3>1, <3>2, <3>3 DEF u
    <3>4. CASE ~(v + 1 <= i)  BY <1>4, <2>3, <2>4, <2>5, <3>1, <3>2, <3>4 DEF u
    <3> QED BY <3>3, <3>4
  <2> QED BY <2>6, <2>7
<1>9. n \in 0..n /\ v + 1 <= n  BY <1>1, <1>4
<1>10. y[n] = z[n] + c  BY <1>9
<1>11. IsSum(y, h, e)
  <2> HIDE DEF y
  <2> QED BY <1>1, <1>7, <1>8 DEF IsSum
<1> HIDE DEF y
<1>12. Along(h, e) = y[n]
  <2>1. e \in Seq(Vertex)  BY <1>1
  <2>2. Along(h, e) = y[Len(e)]  BY <2>1, <1>3, <1>11, SumUnique
  <2> QED BY <1>1, <2>2
<1>13. Along(g, e) \in Int  BY <1>1, <1>2, SumInt
<1> QED BY <1>5, <1>10, <1>12, <1>13 DEF Tot, g, h, e, c

LEMMA TotNone ==
  ASSUME N \in Nat \ {0}, NEW f \in [Vertex -> Int]
  PROVE  Tot(f, {}) = 0
<1> DEFINE n == N + 2
           g == Part(f, {})
           e == Everyone
           y == [i \in 0..n |-> 0]
<1>1. e \in Seq(Vertex) /\ Len(e) = n /\ n \in Nat
  BY EveryoneIs
<1>2. g \in [Vertex -> Int] /\ \A u \in Vertex : g[u] = 0
  BY PartIs
<1> HIDE DEF g, e
<1>3. IsSum(y, g, e)
  <2>1. y \in [0..n -> Int] /\ y[0] = 0  BY <1>1
  <2>2. ASSUME NEW i \in 1..n PROVE y[i] = y[i - 1] + g[e[i]]
    <3>1. e[i] \in Vertex /\ i \in 0..n /\ i - 1 \in 0..n  BY <1>1, ElementOfSeq
    <3>2. g[e[i]] = 0  BY <1>2, <3>1
    <3> QED BY <3>1, <3>2
  <2> HIDE DEF y
  <2> QED BY <1>1, <2>1, <2>2 DEF IsSum
<1>4. y[n] = 0  BY <1>1
<1> HIDE DEF y
<1> QED BY <1>1, <1>2, <1>3, <1>4, SumUnique DEF Tot, g, e

LEMMA AlongTot ==
  ASSUME N \in Nat \ {0}, NEW f \in [Vertex -> Int], NEW path \in Seq(Vertex), IsInjective(path)
  PROVE  Along(f, path) = Tot(f, Range(path))
<1> DEFINE n == Len(path)
           W(i) == {path[j] : j \in 1..i}
<1>1. n \in Nat /\ n \in Int /\ 0 \in Int /\ (\A i \in 1..n : path[i] \in Vertex) /\ DOMAIN path = 1..n
  BY ElementOfSeq
<1>2. PICK z : IsSum(z, f, path) /\ Along(f, path) = z[n]
  BY SumIs
<1>3. W(n) = Range(path)
  BY <1>1 DEF Range
<1>4. \A i, j \in 1..n : path[i] = path[j] => i = j
  BY <1>1 DEF IsInjective
<1> HIDE DEF n
<1>5. /\ z \in [0..n -> Int] /\ z[0] = 0
      /\ \A i \in 1..n : z[i] = z[i - 1] + f[path[i]]
  BY <1>2 DEF IsSum, n
<1> DEFINE S == {i \in 0..n : z[i] = Tot(f, W(i))}
<1>6. 0 \in S
  <2>1. W(0) = {}  OBVIOUS
  <2>2. z[0] = Tot(f, W(0))  BY <1>5, <2>1, TotNone
  <2> QED BY <1>1, <2>2
<1>7. ASSUME NEW i \in 0..n - 1, i \in S PROVE i + 1 \in S
  <2> DEFINE k == i + 1
  <2>1. k \in 1..n /\ k \in 0..n /\ k - 1 = i /\ i \in 0..n /\ k \notin 1..i /\ 1..i \subseteq 1..n
        /\ 1..k = (1..i) \cup {k}
    BY <1>1
  <2> HIDE DEF k
  <2>2. path[k] \in Vertex /\ path[k] \notin W(i)  BY <1>1, <1>4, <2>1
  <2>3. W(k) = W(i) \cup {path[k]}  BY <2>1
  <2>4. Tot(f, W(k)) = Tot(f, W(i)) + f[path[k]]
    <3> HIDE DEF W
    <3> QED BY <2>2, <2>3, TotAdd
  <2>5. z[k] = z[i] + f[path[k]] /\ z[i] = Tot(f, W(i))  BY <1>5, <1>7, <2>1
  <2>6. z[k] = Tot(f, W(k))  BY <2>4, <2>5
  <2> QED BY <2>1, <2>6 DEF k
<1>8. \A i \in 0..n - 1 : i \in S => i + 1 \in S  BY <1>7
<1> HIDE DEF S
<1>9. 0..n \subseteq S  BY <1>1, <1>6, <1>8, Induction
<1>10. n \in 0..n  BY <1>1
<1> QED BY <1>2, <1>3, <1>9, <1>10 DEF S

LEMMA SumSame ==
  ASSUME N \in Nat \ {0}, NEW f \in [Vertex -> Int], NEW p \in Seq(Vertex), IsInjective(p),
         NEW o \in Seq(Vertex), IsInjective(o), Range(p) = Range(o)
  PROVE  Along(f, p) = Along(f, o)
BY AlongTot

(* Who is not negative adds up to no less for more vertices. *)
LEMMA SumSubset ==
  ASSUME N \in Nat \ {0}, NEW f \in [Vertex -> Int], \A v \in Vertex : 0 <= f[v],
         NEW p \in Seq(Vertex), IsInjective(p), NEW o \in Seq(Vertex), IsInjective(o), Range(p) \subseteq Range(o)
  PROVE  Along(f, p) <= Along(f, o)
<1> DEFINE g == Part(f, Range(p))
           h == Part(f, Range(o))
<1>1. g \in [Vertex -> Int] /\ h \in [Vertex -> Int] /\ \A v \in Vertex : g[v] <= h[v]
  <2>0. f \in [Vertex -> Int]  OBVIOUS
  <2>1. g \in [Vertex -> Int] /\ \A v \in Vertex : g[v] = IF v \in Range(p) THEN f[v] ELSE 0
    BY ONLY <2>0, PartIs
  <2>2. h \in [Vertex -> Int] /\ \A v \in Vertex : h[v] = IF v \in Range(o) THEN f[v] ELSE 0
    BY ONLY <2>0, PartIs
  <2> HIDE DEF g, h
  <2>3. \A v \in Vertex : f[v] \in Int  OBVIOUS
  <2>4. ASSUME NEW v \in Vertex PROVE g[v] <= h[v]
    <3>1. g[v] = 0 \/ g[v] = h[v]  BY <2>1, <2>2
    <3>2. h[v] = 0 \/ h[v] = f[v]  BY <2>2
    <3>3. 0 <= f[v] /\ f[v] \in Int  BY <2>3
    <3> QED BY <3>1, <3>2, <3>3
  <2> QED BY <2>1, <2>2, <2>4
<1>2. Everyone \in Seq(Vertex)  BY EveryoneIs
<1> HIDE DEF g, h
<1>3. Along(g, Everyone) <= Along(h, Everyone)  BY <1>1, <1>2, SumLess
<1> QED BY <1>3, AlongTot DEF Tot, g, h

LEMMA SumBounded ==
  ASSUME N \in Nat \ {0}, NEW f \in [Vertex -> Int]
  PROVE  \E b \in Int : \A p \in Seq(Vertex) : IsInjective(p) => Along(f, p) <= b
<1> DEFINE g == [v \in Vertex |-> IF f[v] >= 0 THEN f[v] ELSE 0]
           b == Along(g, Everyone)
<1>1. g \in [Vertex -> Int] /\ \A v \in Vertex : f[v] <= g[v] /\ 0 <= g[v]
  OBVIOUS
<1>2. Everyone \in Seq(Vertex)  BY EveryoneIs
<1> HIDE DEF g
<1>3. b \in Int  BY <1>1, <1>2, SumInt
<1>4. ASSUME NEW p \in Seq(Vertex), IsInjective(p) PROVE Along(f, p) <= b
  <2> DEFINE h == Part(f, Range(p))
  <2>0. h \in [Vertex -> Int] /\ \A v \in Vertex : h[v] = IF v \in Range(p) THEN f[v] ELSE 0  BY PartIs
  <2>1. h \in [Vertex -> Int] /\ \A v \in Vertex : h[v] <= g[v]
    <3> HIDE DEF h
    <3>1. ASSUME NEW v \in Vertex PROVE h[v] <= g[v]
      <4>1. h[v] = 0 \/ h[v] = f[v]  BY <2>0
      <4> QED BY <1>1, <4>1
    <3> QED BY <2>0, <3>1
  <2> HIDE DEF h
  <2>2. Along(h, Everyone) <= b  BY <1>1, <1>2, <2>1, SumLess
  <2> QED BY <1>4, <2>2, AlongTot DEF Tot, h
<1> QED BY <1>3, <1>4

LEMMA InnerSame ==
  ASSUME N \in Nat \ {0}, NEW p \in Path, NEW o \in Path, Inner(p) = Inner(o)
  PROVE  Range(p) = Range(o)
<1>1. ASSUME NEW r \in Path PROVE Range(r) = Inner(r) \cup {Start, End}
  <2>1. /\ r \in Seq(Vertex) /\ Len(r) \in Nat /\ Len(r) >= 3 /\ r[1] = Start /\ r[Len(r)] = End
    BY PathShape
  <2>2. DOMAIN r = 1..Len(r) /\ \A i \in 1..Len(r) : r[i] \in Vertex  BY <2>1, ElementOfSeq
  <2>3. 1 \in 1..Len(r) /\ Len(r) \in 1..Len(r)  BY <2>1
  <2>4. {Start, End} \subseteq Range(r)  BY <2>1, <2>2, <2>3 DEF Range
  <2>5. Range(r) \subseteq Vertex  BY <2>2 DEF Range
  <2>6. Vertex = Customer \cup {Start, End}  BY Vertices
  <2> QED BY <2>4, <2>5, <2>6 DEF Inner
<1> QED BY <1>1

-----------------------------------------------------------------------------
(* Until when one may be at each stop of a ride and still be home no later. *)
Slack(o, x, y) ==
  /\ y \in [1..Len(o) -> Int] /\ y[Len(o)] = x[Len(o)]
  /\ \A i \in 1..Len(o) : x[i] <= y[i]
  /\ \A i \in 1..Len(o) - 1 : \E w \in Int : Drives(<<o[i], o[i + 1]>>, y[i], w) /\ w <= y[i + 1]

(* The rest of a ride from the k-th stop on, begun at u. *)
Rest(o, x, k, u, z) ==
  /\ z \in [k..Len(o) -> Int] /\ z[k] = u /\ z[Len(o)] <= x[Len(o)]
  /\ \A j \in k..Len(o) - 1 : Drives(<<o[j], o[j + 1]>>, z[j], z[j + 1])

LEMMA RestIs ==
  ASSUME Setting, NEW o \in Path, NEW x, Ride(o, x), NEW y, Slack(o, x, y)
  PROVE  \A k \in 1..Len(o) : \A u : Fits(Raw[prob.net], o[k], u) /\ u <= y[k] => \E z : Rest(o, x, k, u, z)
<1> DEFINE n == Len(o)
           raw == Raw[prob.net]
<1>0. N \in Nat \ {0}  BY SettingIs DEF Sane
<1>1. n \in Nat /\ n >= 3 /\ n \in Int /\ 0 \in Int /\ n - 1 \in Int  BY <1>0, PathShape
<1>2. /\ y \in [1..n -> Int] /\ y[n] = x[n]
      /\ \A i \in 1..n - 1 : \E w \in Int : Drives(<<o[i], o[i + 1]>>, y[i], w) /\ w <= y[i + 1]
  BY DEF Slack
<1> DEFINE S == {i \in 0..n - 1 : \A u : Fits(raw, o[n - i], u) /\ u <= y[n - i] => \E z : Rest(o, x, n - i, u, z)}
<1>3. 0 \in S
  <2>1. ASSUME NEW u, Fits(raw, o[n], u), u <= y[n] PROVE Rest(o, x, n, u, [j \in n..n |-> u])
    <3>1. u \in Int  BY <2>1 DEF Fits
    <3> DEFINE z == [j \in n..n |-> u]
    <3>2. z \in [n..n -> Int] /\ z[n] = u /\ n..n - 1 = {}  BY <1>1, <3>1
    <3>3. z[n] <= x[n]  BY <1>2, <2>1, <3>2
    <3> HIDE DEF z
    <3>4. Rest(o, x, n, u, z)  BY <3>2, <3>3 DEF Rest
    <3> QED BY <3>4 DEF z
  <2>2. n - 0 = n /\ 0 \in 0..n - 1  BY <1>1
  <2>3. \A u : Fits(raw, o[n], u) /\ u <= y[n] => \E z : Rest(o, x, n, u, z)  BY <2>1
  <2> HIDE DEF n
  <2> QED BY <2>2, <2>3
<1>4. ASSUME NEW i \in 0..n - 1 - 1, i \in S PROVE i + 1 \in S
  <2> DEFINE k == n - (i + 1)
  <2>1. k + 1 = n - i /\ k \in 1..n - 1 /\ k \in Int /\ i + 1 \in 0..n - 1 /\ k + 1 \in 1..n /\ k \in 1..n
    BY <1>1
  <2>2. \A u : Fits(raw, o[n - i], u) /\ u <= y[n - i] => \E z : Rest(o, x, n - i, u, z)
    BY <1>4
  <2> HIDE DEF k, n, S, raw
  <2>3. ASSUME NEW u, Fits(raw, o[k], u), u <= y[k] PROVE \E z : Rest(o, x, k, u, z)
    <3>1. PICK w \in Int : Drives(<<o[k], o[k + 1]>>, y[k], w) /\ w <= y[k + 1]  BY <1>2, <2>1
    <3>2. PICK v : Drives(<<o[k], o[k + 1]>>, u, v) /\ v <= w
      <4> DEFINE a == <<o[k], o[k + 1]>>
                 b == y[k]
      <4>1. Drives(a, b, w)  BY <3>1
      <4>2. a[1] = o[k] /\ u <= b  BY <2>3
      <4> HIDE DEF a, b
      <4>3. Fits(Raw[prob.net], a[1], u)  BY <2>3, <4>2 DEF raw
      <4>4. \E v : Drives(a, u, v) /\ v <= w  BY <4>1, <4>2, <4>3, DrivesIs
      <4> QED BY <4>4 DEF a
    <3>3. Fits(raw, o[k + 1], v) /\ v \in Int /\ u \in Int
      <4> DEFINE a == <<o[k], o[k + 1]>>
      <4>1. Drives(a, u, v) /\ a[2] = o[k + 1]  BY <3>2
      <4> HIDE DEF a
      <4> QED BY <4>1, DrivesIs DEF raw
    <3>4. v <= y[n - i]
      <4>1. y[k + 1] \in Int  BY <1>2, <2>1
      <4> QED BY <2>1, <3>1, <3>2, <3>3, <4>1
    <3>5. PICK z : Rest(o, x, k + 1, v, z)  BY <2>1, <2>2, <3>3, <3>4
    <3>6. /\ z \in [k + 1..n -> Int] /\ z[k + 1] = v /\ z[n] <= x[n]
          /\ \A j \in k + 1..n - 1 : Drives(<<o[j], o[j + 1]>>, z[j], z[j + 1])
      BY <3>5 DEF Rest, n
    <3> DEFINE t == [j \in k..n |-> IF j = k THEN u ELSE z[j]]
    <3>7. t \in [k..n -> Int] /\ t[k] = u /\ (\A j \in k + 1..n : t[j] = z[j]) /\ n \in k + 1..n
      <4>1. \A j \in k..n : j = k \/ j \in k + 1..n  BY <2>1
      <4>2. \A j \in k + 1..n : j \in k..n /\ j # k  BY <2>1
      <4>3. k \in k..n /\ n \in k + 1..n  BY <1>1, <2>1
      <4> QED BY <3>3, <3>6, <4>1, <4>2, <4>3
    <3> HIDE DEF t
    <3>8. ASSUME NEW j \in k..n - 1 PROVE Drives(<<o[j], o[j + 1]>>, t[j], t[j + 1])
      <4>1. CASE j = k
        <5>1. k + 1 \in k + 1..n  BY <1>1, <2>1
        <5> QED BY <3>2, <3>6, <3>7, <4>1, <5>1
      <4>2. CASE j # k
        <5>1. j \in k + 1..n - 1 /\ j \in k + 1..n /\ j + 1 \in k + 1..n  BY <1>1, <2>1, <4>2
        <5> QED BY <3>6, <3>7, <5>1
      <4> QED BY <4>1, <4>2
    <3>9. Rest(o, x, k, u, t)  BY <3>6, <3>7, <3>8 DEF Rest, n
    <3> QED BY <3>9
  <2> QED BY <2>1, <2>3 DEF S, k
<1>5. \A i \in 0..n - 1 - 1 : i \in S => i + 1 \in S  BY <1>4
<1> HIDE DEF S
<1>6. 0..n - 1 \subseteq S  BY <1>1, <1>3, <1>5, Induction
<1>7. ASSUME NEW k \in 1..n, NEW u, Fits(raw, o[k], u), u <= y[k] PROVE \E z : Rest(o, x, k, u, z)
  <2> DEFINE i == n - k
  <2>1. i \in 0..n - 1 /\ n - i = k  BY <1>1
  <2> HIDE DEF i, n, raw
  <2>2. \A v : Fits(raw, o[n - i], v) /\ v <= y[n - i] => \E z : Rest(o, x, n - i, v, z)
    <3>1. i \in S  BY <1>6, <2>1
    <3> QED BY <3>1 DEF S
  <2> QED BY <1>7, <2>1, <2>2
<1> QED BY <1>7 DEF n, raw

(* A path with a stop at the depot put after its i-th vertex: the path before, the path after. *)
StopOf(o, i, g, h) ==
  /\ g \in Path /\ Len(g) = i + 1 /\ (\A j \in 1..i : g[j] = o[j]) /\ g[i + 1] = End
  /\ h \in Path /\ Len(h) = Len(o) - i + 1 /\ h[1] = Start
  /\ \A j \in 2..Len(o) - i + 1 : h[j] = o[i + j - 1]
  /\ Range(g) \subseteq Range(o) /\ Range(h) \subseteq Range(o)

LEMMA StopIs ==
  ASSUME N \in Nat \ {0}, NEW o \in Path, NEW i \in 2..Len(o) - 2,
         NEW g, g = Append(SubSeq(o, 1, i), End), NEW h, h = <<Start>> \o SubSeq(o, i + 1, Len(o))
  PROVE  StopOf(o, i, g, h)
<1> DEFINE n == Len(o)
<1>1. /\ o \in Seq(Vertex) /\ n \in Nat /\ n >= 3 /\ o[1] = Start /\ o[n] = End
      /\ (\A k \in 2..n - 1 : o[k] \in Customer) /\ IsInjective(o)
      /\ \A k \in 1..n - 1 : <<o[k], o[k + 1]>> \in Arc
  BY PathShape
<1>2. /\ DOMAIN o = 1..n /\ (\A k, j \in 1..n : o[k] = o[j] => k = j) /\ \A k \in 1..n : o[k] \in Vertex
  <2>1. DOMAIN o = 1..n  BY <1>1
  <2> QED BY <1>1, <2>1, ElementOfSeq DEF IsInjective
<1>3. /\ Start \in Vertex /\ End \in Vertex /\ Start \notin Customer /\ End \notin Customer /\ Start # End
      /\ Customer \subseteq Vertex
  BY Vertices
<1>4. i \in Nat /\ i >= 2 /\ i <= n - 2 /\ i \in 0..n /\ 1 \in 1..n + 1 /\ i + 1 \in 1..n + 1 /\ n \in 0..n
  BY <1>1
<1> DEFINE a == SubSeq(o, 1, i)
           b == SubSeq(o, i + 1, n)
<1>5. a \in Seq(Vertex) /\ Len(a) = i /\ \A j \in 1..i : a[j] = o[j]
  <2>1. /\ SubSeq(o, 1, i) \in Seq(Vertex)
        /\ Len(SubSeq(o, 1, i)) = IF 1 <= i THEN i - 1 + 1 ELSE 0
        /\ \A k \in 1..i - 1 + 1 : SubSeq(o, 1, i)[k] = o[1 + k - 1]
    BY ONLY <1>1, <1>4, Stretch
  <2>2. i - 1 + 1 = i /\ 1 <= i /\ \A j \in 1..i : 1 + j - 1 = j  BY <1>4
  <2> QED BY <2>1, <2>2
<1>6. b \in Seq(Vertex) /\ Len(b) = n - i /\ \A j \in 1..n - i : b[j] = o[i + j]
  <2>1. /\ SubSeq(o, i + 1, n) \in Seq(Vertex)
        /\ Len(SubSeq(o, i + 1, n)) = IF i + 1 <= n THEN n - (i + 1) + 1 ELSE 0
        /\ \A k \in 1..n - (i + 1) + 1 : SubSeq(o, i + 1, n)[k] = o[i + 1 + k - 1]
    BY ONLY <1>1, <1>4, Stretch
  <2>2. n - (i + 1) + 1 = n - i /\ i + 1 <= n /\ \A j \in 1..n - i : i + 1 + j - 1 = i + j  BY <1>1, <1>4
  <2> QED BY <2>1, <2>2
<1> HIDE DEF n, a, b
<1>7. /\ g \in Seq(Vertex) /\ Len(g) = i + 1 /\ (\A j \in 1..i : g[j] = o[j]) /\ g[i + 1] = End
  <2>1. g = Append(a, End)  BY DEF a
  <2>2. /\ Append(a, End) \in Seq(Vertex) /\ Len(Append(a, End)) = i + 1
        /\ \A j \in 1..i + 1 : Append(a, End)[j] = IF j <= i THEN a[j] ELSE End
    BY <1>3, <1>4, <1>5
  <2>3. /\ i + 1 \in 1..i + 1 /\ ~(i + 1 <= i) /\ \A j \in 1..i : j \in 1..i + 1 /\ j <= i  BY <1>4
  <2> QED BY <1>5, <2>1, <2>2, <2>3
<1>8. /\ h \in Seq(Vertex) /\ Len(h) = n - i + 1 /\ h[1] = Start
      /\ \A j \in 2..n - i + 1 : h[j] = o[i + j - 1]
  <2> DEFINE c == <<Start>>
  <2>1. c \in Seq(Vertex) /\ Len(c) = 1 /\ c[1] = Start  BY <1>3
  <2>2. h = c \o b  BY DEF b, n
  <2> HIDE DEF c
  <2>3. b \in Seq(Vertex)  BY <1>6
  <2>4. /\ c \o b \in Seq(Vertex) /\ Len(c \o b) = Len(c) + Len(b)
        /\ \A j \in 1..Len(c) + Len(b) : (c \o b)[j] = IF j <= Len(c) THEN c[j] ELSE b[j - Len(c)]
    BY ONLY <2>1, <2>3, ConcatProperties
  <2>5. n - i \in Nat /\ 1 + (n - i) = n - i + 1  BY <1>1, <1>4
  <2>6. \A j \in 1..n - i + 1 : h[j] = IF j <= 1 THEN c[j] ELSE b[j - 1]
    BY <1>6, <2>1, <2>2, <2>4, <2>5
  <2>7. ASSUME NEW j \in 2..n - i + 1 PROVE h[j] = o[i + j - 1]
    <3>1. j \in 1..n - i + 1 /\ ~(j <= 1) /\ j - 1 \in 1..n - i /\ i + (j - 1) = i + j - 1  BY <1>1, <1>4
    <3> QED BY <1>6, <2>6, <3>1
  <2>8. 1 \in 1..n - i + 1  BY <1>1, <1>4
  <2>9. h \in Seq(Vertex)  BY <2>2, <2>4
  <2>10. Len(h) = n - i + 1  BY <1>6, <2>1, <2>2, <2>4, <2>5
  <2>11. h[1] = Start  BY <2>1, <2>6, <2>8
  <2> QED BY <2>7, <2>9, <2>10, <2>11
<1>9. o[i] \in Customer /\ o[i + 1] \in Customer
  <2>1. i \in 2..n - 1 /\ i + 1 \in 2..n - 1  BY <1>1, <1>4
  <2> QED BY <1>1, <2>1
<1>10. /\ \A j \in 1..i : j \in 1..n /\ j # n
       /\ \A j \in 2..n - i + 1 : i + j - 1 \in 1..n /\ i + j - 1 # 1
       /\ 1 \in 1..n /\ n \in 1..n
  BY <1>1, <1>4
<1>11. Range(g) \subseteq Range(o)
  <2>1. DOMAIN g = 1..i + 1  BY <1>7
  <2>2. \A j \in 1..i + 1 : j = i + 1 \/ j \in 1..i  BY <1>4
  <2>3. ASSUME NEW j \in 1..i + 1 PROVE g[j] \in Range(o)
    <3>1. \A k \in 1..n : o[k] \in Range(o)  BY <1>2 DEF Range
    <3>2. CASE j \in 1..i
      <4>1. g[j] = o[j] /\ j \in 1..n  BY <1>7, <1>10, <3>2
      <4> QED BY <3>1, <4>1
    <3>3. CASE j = i + 1
      <4>1. g[j] = o[n] /\ n \in 1..n  BY <1>1, <1>7, <1>10, <3>3
      <4> QED BY <3>1, <4>1
    <3> QED BY <2>2, <3>2, <3>3
  <2> QED BY <2>1, <2>3 DEF Range
<1>12. Range(h) \subseteq Range(o)
  <2>1. DOMAIN h = 1..n - i + 1  BY <1>8
  <2>2. \A j \in 1..n - i + 1 : j = 1 \/ j \in 2..n - i + 1  BY <1>1, <1>4
  <2> QED BY <1>1, <1>2, <1>8, <1>10, <2>1, <2>2 DEF Range
<1>13. g \in Path
  <2>1. ASSUME NEW j \in 1..i + 1, NEW k \in 1..i + 1, g[j] = g[k] PROVE j = k
    <3>1. \A m \in 1..i + 1 : m = i + 1 \/ m \in 1..i  BY <1>4
    <3>2. \A m \in 1..i : g[m] # End
      <4>1. SUFFICES ASSUME NEW m \in 1..i, g[m] = End PROVE FALSE  OBVIOUS
      <4>2. o[m] = o[n] /\ m \in 1..n /\ n \in 1..n /\ m # n  BY <1>1, <1>7, <1>10, <4>1
      <4> QED BY <1>2, <4>2
    <3>3. CASE j \in 1..i /\ k \in 1..i
      <4>1. o[j] = o[k] /\ j \in 1..n /\ k \in 1..n  BY <1>7, <1>10, <2>1, <3>3
      <4> QED BY <1>2, <4>1
    <3> QED BY <1>7, <2>1, <3>1, <3>2, <3>3
  <2>2. ASSUME NEW j \in 1..i + 1 - 1 PROVE <<g[j], g[j + 1]>> \in Arc
    <3>1. j \in 1..i /\ j \in 1..n - 1  BY <1>1, <1>4
    <3>2. CASE j = i
      <4>1. g[j] = o[i] /\ g[j + 1] = End  BY <1>7, <3>1, <3>2
      <4>2. <<o[i], End>> \in Arc  BY <1>3, <1>9 DEF Arc
      <4> QED BY <4>1, <4>2
    <3>3. CASE j # i
      <4>1. j + 1 \in 1..i  BY <1>4, <3>1, <3>3
      <4>2. g[j] = o[j] /\ g[j + 1] = o[j + 1]  BY <1>7, <3>1, <4>1
      <4> QED BY <1>1, <3>1, <4>2
    <3> QED BY <3>2, <3>3
  <2>3. DOMAIN g = 1..i + 1 /\ Len(g) >= 1 /\ 1 \in 1..i  BY <1>4, <1>7
  <2>4. IsInjective(g)  BY <2>1, <2>3 DEF IsInjective
  <2>5. g[1] = Start /\ g[Len(g)] = End  BY <1>1, <1>7, <2>3
  <2>6. \A j \in 1..Len(g) - 1 : <<g[j], g[j + 1]>> \in Arc
    <3>1. Len(g) = i + 1  BY <1>7
    <3> QED BY <2>2, <3>1
  <2> QED BY <1>7, <2>3, <2>4, <2>5, <2>6, PathIs
<1>14. h \in Path
  <2> DEFINE m == n - i + 1
  <2>0. m \in Nat /\ m >= 3 /\ i + m - 1 = n  BY <1>1, <1>4
  <2> HIDE DEF m
  <2>1. ASSUME NEW j \in 1..m, NEW k \in 1..m, h[j] = h[k] PROVE j = k
    <3>1. \A e \in 1..m : e = 1 \/ e \in 2..m  BY <2>0
    <3>2. \A e \in 2..m : h[e] # Start
      <4>1. SUFFICES ASSUME NEW e \in 2..m, h[e] = Start PROVE FALSE  OBVIOUS
      <4>2. e \in 2..n - i + 1  BY DEF m
      <4>3. o[i + e - 1] = o[1] /\ i + e - 1 \in 1..n /\ 1 \in 1..n /\ i + e - 1 # 1
        BY <1>1, <1>8, <1>10, <4>1, <4>2
      <4> QED BY <1>2, <4>3
    <3>3. CASE j \in 2..m /\ k \in 2..m
      <4>0. j \in 2..n - i + 1 /\ k \in 2..n - i + 1  BY <3>3 DEF m
      <4>1. o[i + j - 1] = o[i + k - 1] /\ i + j - 1 \in 1..n /\ i + k - 1 \in 1..n
        BY <1>8, <1>10, <2>1, <4>0
      <4>2. i + j - 1 = i + k - 1  BY <1>2, <4>1
      <4> QED BY <1>4, <3>3, <4>2
    <3> QED BY <1>8, <2>1, <3>1, <3>2, <3>3
  <2>2. ASSUME NEW j \in 1..m - 1 PROVE <<h[j], h[j + 1]>> \in Arc
    <3>1. j + 1 \in 2..n - i + 1 /\ i + (j + 1) - 1 = i + j /\ i + j \in 1..n  BY <1>1, <1>4, <2>0 DEF m
    <3>2. h[j + 1] = o[i + j]  BY <1>8, <3>1
    <3>3. CASE j = 1
      <4>1. h[j] = Start /\ h[j + 1] = o[i + 1]  BY <1>8, <3>2, <3>3
      <4>2. <<Start, o[i + 1]>> \in Arc  BY <1>3, <1>9 DEF Arc
      <4> QED BY <4>1, <4>2
    <3>4. CASE j # 1
      <4>1. j \in 2..n - i + 1 /\ i + j - 1 \in 1..n - 1 /\ i + j - 1 + 1 = i + j  BY <1>1, <1>4, <2>0, <3>4 DEF m
      <4>2. h[j] = o[i + j - 1]  BY <1>8, <4>1
      <4>3. <<o[i + j - 1], o[i + j - 1 + 1]>> \in Arc  BY <1>1, <4>1
      <4> QED BY <3>2, <4>1, <4>2, <4>3
    <3> QED BY <3>3, <3>4
  <2>3. Len(h) = m /\ DOMAIN h = 1..m /\ Len(h) >= 1 /\ m \in 2..n - i + 1  BY <1>8, <2>0 DEF m
  <2>4. IsInjective(h)  BY <2>1, <2>3 DEF IsInjective
  <2>5. h[1] = Start /\ h[Len(h)] = End  BY <1>1, <1>8, <2>0, <2>3
  <2>6. \A j \in 1..Len(h) - 1 : <<h[j], h[j + 1]>> \in Arc  BY <2>2, <2>3
  <2> QED BY <1>8, <2>3, <2>4, <2>5, <2>6, PathIs
<1> QED BY <1>7, <1>8, <1>11, <1>12, <1>13, <1>14 DEF n, StopOf

LEMMA LoadsLess ==
  ASSUME Setting, NEW p \in Path, NEW o \in Path, Range(p) \subseteq Range(o)
  PROVE  Along(Loads(prob), p) <= Along(Loads(prob), o)
<1>1. N \in Nat \ {0} /\ prob \in Problem /\ Sane(Raw[prob.net])  BY SettingIs DEF Sane, Setting
<1>2. /\ p \in Seq(Vertex) /\ IsInjective(p) /\ o \in Seq(Vertex) /\ IsInjective(o)  BY <1>1, PathShape
<1>3. Loads(prob) \in [Vertex -> Int] /\ \A v \in Vertex : 0 <= Loads(prob)[v]
  <2>1. Loads(prob) \in [Vertex -> Int]  BY <1>1, SumFunctions
  <2>2. Raw[prob.net].load \in [Vertex -> Nat]  BY <1>1 DEF Sane, Proper
  <2>3. \A v \in Vertex : Loads(prob)[v] = Raw[prob.net].load[v]  BY DEF Loads
  <2>4. \A v \in Vertex : Raw[prob.net].load[v] \in Nat  BY <2>2
  <2> QED BY <2>1, <2>3, <2>4
<1> QED BY <1>1, <1>2, <1>3, SumSubset

LEMMA WindowFits ==
  ASSUME Setting
  PROVE  \A s : s \in Window <=> Fits(Raw[prob.net], Start, s)
<1> DEFINE raw == Raw[prob.net]
<1>1. Sane(raw) /\ Start \in Vertex /\ Start \notin Customer  BY SettingIs, Vertices DEF Sane
<1>2. raw.service[Start] = 0 /\ raw.lo[Start] \in Nat /\ raw.hi[Start] \in Nat
  BY <1>1 DEF Sane, Proper
<1> QED BY <1>2 DEF Fits, Window

(* A route that can come home after its i-th stop before it must set out for the next. *)
LEMMA StopsOver ==
  ASSUME Setting, NEW o \in Path, Along(Loads(prob), o) <= Raw[prob.net].room,
         NEW x, Ride(o, x), x[1] \in Window, x[Len(o)] - x[1] = Checked(o),
         NEW y, Slack(o, x, y), NEW i \in 2..Len(o) - 2,
         NEW e, Drives(<<o[i], End>>, x[i], e), NEW s \in Int, e <= s,
         NEW w, Drives(<<Start, o[i + 1]>>, s, w), w <= y[i + 1]
  PROVE  Stopover(o)
<1> DEFINE n == Len(o)
           g == Append(SubSeq(o, 1, i), End)
           h == <<Start>> \o SubSeq(o, i + 1, n)
           raw == Raw[prob.net]
<1>0. N \in Nat \ {0} /\ Never \in Nat /\ T \in Nat /\ prob \in Problem  BY SettingIs DEF Sane, Setting
<1>1. n \in Nat /\ n >= 3 /\ i \in Nat /\ i >= 2 /\ i <= n - 2 /\ o[1] = Start /\ o \in Seq(Vertex)
  BY <1>0, PathShape
<1>2. /\ x \in [1..n -> Int] /\ \A j \in 1..n - 1 : Drives(<<o[j], o[j + 1]>>, x[j], x[j + 1])
  BY DEF Ride
<1>3. /\ g \in Path /\ Len(g) = i + 1 /\ (\A j \in 1..i : g[j] = o[j]) /\ g[i + 1] = End
      /\ h \in Path /\ Len(h) = n - i + 1 /\ h[1] = Start
      /\ \A j \in 2..n - i + 1 : h[j] = o[i + j - 1]
      /\ Range(g) \subseteq Range(o) /\ Range(h) \subseteq Range(o)
  <2>1. i \in 2..Len(o) - 2 /\ g = Append(SubSeq(o, 1, i), End) /\ h = <<Start>> \o SubSeq(o, i + 1, Len(o))
    OBVIOUS
  <2>2. N \in Nat \ {0} /\ o \in Path  BY <1>0
  <2> HIDE DEF g, h
  <2>3. StopOf(o, i, g, h)  BY ONLY <2>1, <2>2, StopIs
  <2> QED BY <2>3 DEF StopOf
<1>4. <<g, h>> \in Stops(o)
  BY DEF Stops
<1> HIDE DEF g, h, n
<1>5. e \in Int /\ e <= s
  BY DrivesIs
<1>6. w \in Int /\ Fits(raw, o[i + 1], w) /\ Fits(raw, Start, s)
  <2> DEFINE a == <<Start, o[i + 1]>>
  <2>1. Drives(a, s, w) /\ a[1] = Start /\ a[2] = o[i + 1]  OBVIOUS
  <2> HIDE DEF a
  <2> QED BY <2>1, DrivesIs
<1>7. s \in Window  BY <1>6, WindowFits
<1>8. \A p \in Path : Range(p) \subseteq Range(o) => Along(Loads(prob), p) <= raw.room
  <2>1. SUFFICES ASSUME NEW p \in Path, Range(p) \subseteq Range(o)
                 PROVE Along(Loads(prob), p) <= raw.room
    OBVIOUS
  <2>2. Along(Loads(prob), p) <= Along(Loads(prob), o)  BY <2>1, LoadsLess
  <2>3. Loads(prob) \in [Vertex -> Int]  BY <1>0, SumFunctions
  <2>4. p \in Seq(Vertex)  BY <1>0, PathShape
  <2>5. Along(Loads(prob), p) \in Int /\ Along(Loads(prob), o) \in Int  BY <1>1, <2>3, <2>4, SumInt
  <2>6. raw.room \in Int
    <3>1. Proper(raw)  BY SettingIs DEF Sane
    <3> HIDE DEF raw
    <3>2. raw.room \in Nat  BY <3>1 DEF Proper
    <3> QED BY <3>2
  <2> QED BY <2>2, <2>5, <2>6
<1> HIDE DEF raw
<1>9. Checked(g) # Never /\ Checked(g) <= e - x[1]
  <2> DEFINE z == [j \in 1..i + 1 |-> IF j <= i THEN x[j] ELSE e]
  <2>1. /\ z \in [1..i + 1 -> Int] /\ (\A j \in 1..i : z[j] = x[j]) /\ z[i + 1] = e /\ z[1] = x[1]
    <3>1. \A j \in 1..i + 1 : j <= i => j \in 1..n  BY <1>1
    <3>2. \A j \in 1..i : j \in 1..i + 1 /\ j <= i  BY <1>1
    <3>3. i + 1 \in 1..i + 1 /\ ~(i + 1 <= i) /\ 1 \in 1..i  BY <1>1
    <3> QED BY <1>2, <1>5, <3>1, <3>2, <3>3
  <2> HIDE DEF z
  <2>2. ASSUME NEW j \in 1..i + 1 - 1 PROVE Drives(<<g[j], g[j + 1]>>, z[j], z[j + 1])
    <3>1. j \in 1..i /\ i + 1 - 1 = i  BY <1>1
    <3>2. CASE j = i
      <4>1. g[j] = o[i] /\ g[j + 1] = End /\ z[j] = x[i] /\ z[j + 1] = e  BY <1>3, <2>1, <3>1, <3>2
      <4> QED BY <4>1
    <3>3. CASE j # i
      <4>1. j + 1 \in 1..i /\ j \in 1..n - 1  BY <1>1, <3>1, <3>3
      <4>2. g[j] = o[j] /\ g[j + 1] = o[j + 1] /\ z[j] = x[j] /\ z[j + 1] = x[j + 1]
        BY <1>3, <2>1, <3>1, <4>1
      <4> QED BY <1>2, <4>1, <4>2
    <3> QED BY <3>2, <3>3
  <2>3. Ride(g, z)  BY <1>3, <2>1, <2>2 DEF Ride
  <2>4. Along(Loads(prob), g) <= Raw[prob.net].room  BY <1>3, <1>8 DEF raw
  <2>5. Checked(g) # Never /\ Checked(g) <= z[Len(g)] - z[1]
    <3>1. z[1] \in Window  BY <2>1
    <3> QED BY <1>3, <2>3, <2>4, <3>1, CheckedRide
  <2> QED BY <1>3, <2>1, <2>5
<1>10. Checked(h) # Never /\ Checked(h) <= x[n] - s
  <2> DEFINE m == n - i + 1
             k == i + 1
  <2>1. k \in 1..n /\ m \in Nat /\ m >= 3 /\ i + m - 1 = n  BY <1>1
  <2>2. PICK t : Rest(o, x, k, w, t)
    <3>1. k \in 1..Len(o)  BY <2>1 DEF n
    <3>2. Fits(Raw[prob.net], o[k], w) /\ w <= y[k]  BY <1>6 DEF raw
    <3> HIDE DEF k
    <3> QED BY <3>1, <3>2, RestIs
  <2>3. /\ t \in [k..n -> Int] /\ t[k] = w /\ t[n] <= x[n]
        /\ \A j \in k..n - 1 : Drives(<<o[j], o[j + 1]>>, t[j], t[j + 1])
    BY <2>2 DEF Rest, n
  <2> DEFINE z == [j \in 1..m |-> IF j = 1 THEN s ELSE t[i + j - 1]]
  <2> HIDE DEF m, k
  <2>4. /\ z \in [1..m -> Int] /\ z[1] = s /\ (\A j \in 2..m : z[j] = t[i + j - 1]) /\ z[m] = t[n]
    <3>1. \A j \in 1..m : j = 1 \/ i + j - 1 \in k..n  BY <1>1, <2>1 DEF k
    <3>2. \A j \in 2..m : j \in 1..m /\ j # 1  BY <2>1
    <3>3. 1 \in 1..m /\ m \in 2..m  BY <2>1
    <3> QED BY <2>1, <2>3, <3>1, <3>2, <3>3
  <2> HIDE DEF z
  <2>5. ASSUME NEW j \in 1..m - 1 PROVE Drives(<<h[j], h[j + 1]>>, z[j], z[j + 1])
    <3>1. j + 1 \in 2..m /\ i + (j + 1) - 1 = i + j
      <4>1. m \in Nat /\ i \in Nat /\ j \in Int  BY <1>1, <2>1
      <4> QED BY <4>1
    <3>2. h[j + 1] = o[i + j] /\ z[j + 1] = t[i + j]  BY <1>3, <2>4, <3>1 DEF m
    <3>3. CASE j = 1
      <4>1. h[j] = Start /\ z[j] = s /\ h[j + 1] = o[k] /\ z[j + 1] = w  BY <1>3, <2>3, <2>4, <3>2, <3>3 DEF k
      <4> QED BY <4>1 DEF k
    <3>4. CASE j # 1
      <4>1. j \in 2..m /\ i + j - 1 \in k..n - 1 /\ i + j - 1 + 1 = i + j  BY <1>1, <2>1, <3>4 DEF k
      <4>2. h[j] = o[i + j - 1] /\ z[j] = t[i + j - 1]  BY <1>3, <2>4, <4>1 DEF m
      <4>3. Drives(<<o[i + j - 1], o[i + j - 1 + 1]>>, t[i + j - 1], t[i + j - 1 + 1])  BY <2>3, <4>1
      <4> QED BY <3>2, <4>1, <4>2, <4>3
    <3> QED BY <3>3, <3>4
  <2>6. Len(h) = m  BY <1>3 DEF m
  <2>7. Ride(h, z)  BY <2>4, <2>5, <2>6 DEF Ride
  <2>8. Along(Loads(prob), h) <= Raw[prob.net].room  BY <1>3, <1>8 DEF raw
  <2>9. Checked(h) # Never /\ Checked(h) <= z[Len(h)] - z[1]
    <3>1. z[1] \in Window  BY <1>7, <2>4
    <3> QED BY <1>3, <2>7, <2>8, <3>1, CheckedRide
  <2>10. Checked(h) <= t[n] - s  BY <2>4, <2>6, <2>9
  <2>11. t[n] \in Int /\ x[n] \in Int
    <3>1. n \in k..n /\ n \in 1..n  BY <1>1, <2>1
    <3> QED BY <1>2, <2>3, <3>1
  <2>12. Checked(h) \in Int  BY <1>3, CheckedRide
  <2> QED BY <2>3, <2>9, <2>10, <2>11, <2>12
<1>11. Checked(g) + Checked(h) <= Checked(o)
  <2> DEFINE a == Checked(g)
             b == Checked(h)
             c == Checked(o)
             u == x[1]
             v == x[n]
  <2>1. a \in Int /\ b \in Int  BY <1>3, CheckedRide
  <2>2. u \in Int /\ v \in Int
    <3>1. 1 \in 1..n /\ n \in 1..n  BY <1>1
    <3> QED BY <1>2, <3>1
  <2>3. v - u = c  BY DEF n
  <2>4. a <= e - u /\ b <= v - s  BY <1>9, <1>10
  <2> HIDE DEF a, b, c, u, v
  <2>5. a + b <= c  BY <1>5, <2>1, <2>2, <2>3, <2>4
  <2> QED BY <2>5 DEF a, b, c
<1> QED BY <1>4, <1>11 DEF Stopover

-----------------------------------------------------------------------------
(* The instance before it is tightened: f may be driven from lo and to hi. *)
Frame(raw, arcs, f, lo, hi) ==
  /\ Sane(raw) /\ arcs \subseteq Arc /\ \A a \in arcs : Drivable(raw, a, f[a])
  /\ lo \in [Vertex -> Nat] /\ hi \in [Vertex -> Nat]
  /\ \A v \in Vertex : /\ hi[v] < Never /\ lo[v] <= hi[v]
                       /\ \A x : Fits(raw, v, x) <=> x \in Int /\ lo[v] <= x /\ x <= hi[v]

(* A window is changed once only. *)
LEMMA Untouched ==
  ASSUME N \in Nat, NEW g, \A k \in 1..N : \A v \in Vertex : v # k => g[k][v] = g[k - 1][v]
  PROVE  \A v \in Vertex : /\ \A k \in 0..N : (k < v \/ v < 1) => g[k][v] = g[0][v]
                           /\ \A k \in 0..N : 1 <= v /\ v <= k => g[k][v] = g[v][v]
<1>1. SUFFICES ASSUME NEW v \in Vertex
               PROVE /\ \A k \in 0..N : (k < v \/ v < 1) => g[k][v] = g[0][v]
                     /\ \A k \in 0..N : 1 <= v /\ v <= k => g[k][v] = g[v][v]
  OBVIOUS
<1>2. v \in Int  BY DEF Vertex, Start, End
<1> DEFINE S == {k \in 0..N : /\ (k < v \/ v < 1) => g[k][v] = g[0][v]
                              /\ 1 <= v /\ v <= k => g[k][v] = g[v][v]}
<1>3. 0 \in S /\ 0 \in Int /\ N \in Int /\ 0 <= N  BY <1>2
<1>4. ASSUME NEW i \in 0..N - 1, i \in S PROVE i + 1 \in S
  <2> DEFINE k == i + 1
  <2>1. k \in 0..N /\ k \in 1..N /\ k - 1 = i /\ k \in Int /\ i \in Int /\ i = k - 1  OBVIOUS
  <2>2. /\ (i < v \/ v < 1) => g[i][v] = g[0][v]
        /\ 1 <= v /\ v <= i => g[i][v] = g[v][v]
    BY <1>4
  <2> HIDE DEF k
  <2>3. v # k => g[k][v] = g[i][v]  BY <2>1
  <2>4. (k < v \/ v < 1) => g[k][v] = g[0][v]
    <3>1. SUFFICES ASSUME k < v \/ v < 1 PROVE g[k][v] = g[0][v]  OBVIOUS
    <3>2. v # k /\ (i < v \/ v < 1)  BY <1>2, <2>1, <3>1
    <3> QED BY <2>2, <2>3, <3>2
  <2>5. 1 <= v /\ v <= k => g[k][v] = g[v][v]
    <3>1. SUFFICES ASSUME 1 <= v, v <= k, v # k PROVE g[k][v] = g[v][v]  OBVIOUS
    <3>2. v <= i  BY <1>2, <2>1, <3>1
    <3> QED BY <2>2, <2>3, <3>1, <3>2
  <2>6. k \in S  BY <2>1, <2>4, <2>5
  <2> QED BY <2>6 DEF k
<1>5. \A i \in 0..N - 1 : i \in S => i + 1 \in S  BY <1>4
<1> HIDE DEF S
<1>6. 0..N \subseteq S  BY <1>3, <1>5, Induction
<1> QED BY <1>6 DEF S

(* The step that gives k its window, and the windows it reads. *)
Arrived(arcs, f, lo, g, k)  == {LatestArrival(f, lo, g, a) : a \in {x \in arcs : x[2] = k}}
Departed(arcs, f, g, h, k) == {EarliestDeparture(f, g, h, a) : a \in {x \in arcs : x[1] = k}}

Closed(arcs, f, lo, hi, h, k) ==
  \E g \in Closings(hi) : g[k] = hi[k] /\ h[k] = Min({hi[k], Max({lo[k]} \cup Arrived(arcs, f, lo, g, k))})
Opened(arcs, f, lo, l, h, k) ==
  \E g \in Openings(lo) :
    /\ g[k] = lo[k] /\ \A v \in Vertex : g[v] <= l[v]
    /\ l[k] = Max({lo[k], Min({h[k]} \cup Departed(arcs, f, g, h, k))})

LEMMA StagedIs ==
  ASSUME NEW raw, NEW arcs, NEW f, NEW lo, NEW hi, Frame(raw, arcs, f, lo, hi),
         NEW l, NEW h, Staged(arcs, f, lo, hi, l, h), NEW k \in Customer
  PROVE  Closed(arcs, f, lo, hi, h, k) /\ Opened(arcs, f, lo, l, h, k)
<1>0. N \in Nat /\ k \in Vertex /\ k \in 1..N /\ k - 1 \in 0..N /\ k \in 0..N /\ N \in 0..N /\ 0 \in 0..N
      /\ k - 1 < k /\ 1 <= k /\ k <= N
  <2>1. N \in Nat \ {0} /\ k \in Vertex  BY Vertices DEF Frame, Sane
  <2> QED BY <2>1 DEF Customer
<1>1. PICK hs \in [0..N -> Closings(hi)], ls \in [0..N -> Openings(lo)] :
        /\ hs[0] = hi /\ hs[N] = h /\ \A j \in 1..N : hs[j] = Earlier(arcs, f, lo, hs[j - 1], j)
        /\ ls[0] = lo /\ ls[N] = l /\ \A j \in 1..N : ls[j] = Later(arcs, f, h, ls[j - 1], j)
  BY DEF Staged
<1>2. \A j \in 1..N : \A v \in Vertex : v # j => hs[j][v] = hs[j - 1][v]
  BY <1>1 DEF Earlier
<1>3. \A j \in 1..N : \A v \in Vertex : v # j => ls[j][v] = ls[j - 1][v]
  BY <1>1 DEF Later
<1>4. hs[k - 1][k] = hi[k] /\ h[k] = hs[k][k]
  <2>1. \A v \in Vertex : /\ \A j \in 0..N : (j < v \/ v < 1) => hs[j][v] = hs[0][v]
                          /\ \A j \in 0..N : 1 <= v /\ v <= j => hs[j][v] = hs[v][v]
    BY <1>0, <1>2, Untouched
  <2> QED BY <1>0, <1>1, <2>1
<1>5. ls[k - 1][k] = lo[k] /\ l[k] = ls[k][k] /\ \A v \in Vertex : ls[k - 1][v] <= l[v]
  <2>1. \A v \in Vertex : /\ \A j \in 0..N : (j < v \/ v < 1) => ls[j][v] = ls[0][v]
                          /\ \A j \in 0..N : 1 <= v /\ v <= j => ls[j][v] = ls[v][v]
    BY <1>0, <1>3, Untouched
  <2>2. ls[k - 1][k] = lo[k] /\ l[k] = ls[k][k]  BY <1>0, <1>1, <2>1
  <2>3. ASSUME NEW v \in Vertex PROVE ls[k - 1][v] <= l[v]
    <3>1. v \in Int  BY DEF Vertex, Start, End
    <3>2. l \in Openings(lo)  BY <1>0, <1>1
    <3>3. lo[v] <= l[v] /\ l[v] \in Int  BY <3>2 DEF Openings
    <3>4. CASE k - 1 < v \/ v < 1
      <4>1. ls[k - 1][v] = lo[v]  BY <1>0, <1>1, <2>1, <3>4
      <4> QED BY <3>3, <4>1
    <3>5. CASE ~(k - 1 < v \/ v < 1)
      <4>1. 1 <= v /\ v <= k - 1 /\ v <= N  BY <1>0, <3>1, <3>5
      <4>2. ls[k - 1][v] = ls[v][v] /\ ls[N][v] = ls[v][v]  BY <1>0, <2>1, <4>1
      <4> QED BY <1>1, <3>3, <4>2
    <3> QED BY <3>4, <3>5
  <2> QED BY <2>2, <2>3
<1>6. h[k] = Min({hi[k], Max({lo[k]} \cup Arrived(arcs, f, lo, hs[k - 1], k))})
  BY <1>0, <1>1, <1>4 DEF Earlier, Arrived
<1>7. l[k] = Max({lo[k], Min({h[k]} \cup Departed(arcs, f, ls[k - 1], h, k))})
  BY <1>0, <1>1, <1>5 DEF Later, Departed
<1>8. hs[k - 1] \in Closings(hi) /\ ls[k - 1] \in Openings(lo)  BY <1>0, <1>1
<1>9. Closed(arcs, f, lo, hi, h, k)  BY <1>4, <1>6, <1>8 DEF Closed
<1>10. Opened(arcs, f, lo, l, h, k)  BY <1>5, <1>7, <1>8 DEF Opened
<1> QED BY <1>9, <1>10

LEMMA StagedBounds ==
  ASSUME NEW raw, NEW arcs, NEW f, NEW lo, NEW hi, Frame(raw, arcs, f, lo, hi),
         NEW l, NEW h, Staged(arcs, f, lo, hi, l, h)
  PROVE  /\ l \in Openings(lo) /\ h \in Closings(hi)
         /\ \A v \in Vertex : /\ l[v] \in Int /\ lo[v] <= l[v] /\ l[v] <= hi[v]
                              /\ h[v] \in Int /\ lo[v] <= h[v] /\ h[v] <= hi[v]
<1>0. N \in Nat \ {0} /\ N \in 0..N /\ Never \in Nat /\ T \in Nat /\ Sane(raw)
  BY DEF Frame, Sane
<1>1. l \in Openings(lo) /\ h \in Closings(hi)
  BY <1>0 DEF Staged
<1>2. \A v \in Vertex : /\ lo[v] \in Nat /\ hi[v] \in Nat /\ hi[v] < Never /\ lo[v] <= hi[v]
  BY DEF Frame
<1>3. \A v \in Vertex : /\ l[v] \in Int /\ lo[v] <= l[v] /\ h[v] \in Int /\ h[v] <= hi[v]
                        /\ v \notin Customer => l[v] = lo[v] /\ h[v] = hi[v]
  BY <1>1 DEF Openings, Closings
<1>4. ASSUME NEW k \in Customer PROVE lo[k] <= h[k] /\ l[k] <= hi[k]
  <2>0. k \in Vertex  BY <1>0, Vertices
  <2>c. Closed(arcs, f, lo, hi, h, k)  BY StagedIs
  <2>o. Opened(arcs, f, lo, l, h, k)  BY StagedIs
  <2>1. PICK g \in Closings(hi) :
          /\ g[k] = hi[k]
          /\ h[k] = Min({hi[k], Max({lo[k]} \cup Arrived(arcs, f, lo, g, k))})
    BY <2>c DEF Closed
  <2>2. PICK e \in Openings(lo) :
          /\ e[k] = lo[k] /\ \A v \in Vertex : e[v] <= l[v]
          /\ l[k] = Max({lo[k], Min({h[k]} \cup Departed(arcs, f, e, h, k))})
    BY <2>o DEF Opened
  <2> DEFINE A == {lo[k]} \cup {LatestArrival(f, lo, g, a) : a \in {x \in arcs : x[2] = k}}
             B == {h[k]} \cup {EarliestDeparture(f, e, h, a) : a \in {x \in arcs : x[1] = k}}
  <2>3. \A v \in Vertex : g[v] \in Int /\ g[v] < Never /\ e[v] \in Int /\ 0 <= e[v]
    <3>1. \A v \in Vertex : g[v] \in Int /\ g[v] <= hi[v] /\ e[v] \in Int /\ lo[v] <= e[v]
      BY DEF Openings, Closings
    <3> QED BY <1>0, <1>2, <3>1
  <2>4. \A a \in arcs : /\ LatestArrival(f, lo, g, a) \in Int /\ LatestArrival(f, lo, g, a) <= Never + Never
                        /\ EarliestDeparture(f, e, h, a) \in Int /\ 0 <= EarliestDeparture(f, e, h, a)
    <3>1. SUFFICES ASSUME NEW a \in arcs
                   PROVE /\ LatestArrival(f, lo, g, a) \in Int /\ LatestArrival(f, lo, g, a) <= Never + Never
                         /\ EarliestDeparture(f, e, h, a) \in Int /\ 0 <= EarliestDeparture(f, e, h, a)
      OBVIOUS
    <3>2. a \in Arc /\ Drivable(raw, a, f[a]) /\ a[1] \in Vertex /\ a[2] \in Vertex
      BY <1>0, Vertices DEF Frame
    <3> QED BY <1>0, <2>3, <3>2, LatestIs, EarliestIs
  <2>5. Max(A) \in Int /\ lo[k] <= Max(A)
    <3> DEFINE b == Never + Never + lo[k]
    <3>1. b \in Int /\ A \subseteq Int /\ A # {} /\ (\A x \in A : x <= b) /\ lo[k] \in A
      BY <1>0, <1>2, <2>0, <2>4
    <3> HIDE DEF A, b
    <3>2. Max(A) \in A /\ \A y \in A : y <= Max(A)  BY <3>1, MaxIs
    <3> QED BY <3>1, <3>2
  <2>6. Min(B) \in Int /\ Min(B) <= h[k]
    <3> DEFINE b == IF h[k] <= 0 THEN h[k] ELSE 0
    <3>0. h[k] \in Int  BY <1>3, <2>0
    <3>1. b \in Int /\ B \subseteq Int /\ B # {} /\ (\A x \in B : b <= x) /\ h[k] \in B
      BY <2>4, <3>0
    <3> HIDE DEF B, b
    <3>2. Min(B) \in B /\ \A y \in B : Min(B) <= y  BY <3>1, MinIs
    <3> QED BY <3>1, <3>2
  <2> HIDE DEF A, B
  <2>7. h[k] = Min({hi[k], Max(A)}) /\ l[k] = Max({lo[k], Min(B)})  BY <2>1, <2>2 DEF A, B, Arrived, Departed
  <2>8. lo[k] \in Int /\ hi[k] \in Int /\ lo[k] <= hi[k] /\ h[k] \in Int /\ h[k] <= hi[k]  BY <1>2, <1>3, <2>0
  <2>9. lo[k] <= h[k]
    <3>1. Min({hi[k], Max(A)}) = IF hi[k] <= Max(A) THEN hi[k] ELSE Max(A)  BY <2>5, <2>8, MinOfTwo
    <3> QED BY <2>5, <2>7, <2>8, <3>1
  <2>10. l[k] <= hi[k]
    <3>1. Max({lo[k], Min(B)}) = IF lo[k] >= Min(B) THEN lo[k] ELSE Min(B)  BY <2>6, <2>8, MaxOfTwo
    <3> QED BY <2>6, <2>7, <2>8, <3>1
  <2> QED BY <2>9, <2>10
<1> QED BY <1>1, <1>2, <1>3, <1>4

(* An arc one can drive at all: its end's window is not cut short, and whoever would
   leave before its start's opens may as well wait for that. *)
LEMMA StagedDrive ==
  ASSUME NEW raw, NEW arcs, NEW f, NEW lo, NEW hi, Frame(raw, arcs, f, lo, hi),
         NEW l, NEW h, Staged(arcs, f, lo, hi, l, h), NEW a \in arcs, DOMAIN f[a] # {}
  PROVE  /\ h[a[2]] = hi[a[2]]
         /\ l[a[1]] \in DOMAIN f[a]
         /\ \A t \in DOMAIN f[a] : t < l[a[1]] => f[a][l[a[1]]] <= l[a[2]]
<1>0. /\ Sane(raw) /\ N \in Nat \ {0} /\ Never \in Nat /\ T \in Nat /\ a \in Arc /\ T < Never
      /\ a[1] \in Vertex /\ a[2] \in Vertex /\ a[1] # End /\ a[2] # Start
  <2>1. Sane(raw) /\ N \in Nat \ {0} /\ a \in Arc /\ Never \in Nat /\ T \in Nat  BY DEF Frame, Sane
  <2>2. raw.service[Start] = 0 /\ T + raw.service[Start] < Never  BY <2>1, Vertices DEF Sane, Proper
  <2>3. T < Never  BY <2>1, <2>2
  <2> QED BY <2>1, <2>3, Vertices DEF Arc
<1> DEFINE k == a[2]
           i == a[1]
           fa == f[a]
<1>1. \A v \in Vertex : /\ l[v] \in Int /\ lo[v] <= l[v] /\ l[v] <= hi[v]
                        /\ h[v] \in Int /\ lo[v] <= h[v] /\ h[v] <= hi[v]
                        /\ lo[v] \in Nat /\ hi[v] \in Nat /\ hi[v] < Never
                        /\ v \notin Customer => l[v] = lo[v] /\ h[v] = hi[v]
                        /\ \A x : Fits(raw, v, x) <=> x \in Int /\ lo[v] <= x /\ x <= hi[v]
  <2>1. \A v \in Vertex : /\ l[v] \in Int /\ lo[v] <= l[v] /\ l[v] <= hi[v]
                          /\ h[v] \in Int /\ lo[v] <= h[v] /\ h[v] <= hi[v]
    BY StagedBounds
  <2>2. l \in Openings(lo) /\ h \in Closings(hi)  BY StagedBounds
  <2>3. \A v \in Vertex : v \notin Customer => l[v] = lo[v] /\ h[v] = hi[v]  BY <2>2 DEF Openings, Closings
  <2>4. \A v \in Vertex : lo[v] \in Nat /\ hi[v] \in Nat /\ hi[v] < Never  BY DEF Frame
  <2>5. \A v \in Vertex : \A x : Fits(raw, v, x) <=> x \in Int /\ lo[v] <= x /\ x <= hi[v]  BY DEF Frame
  <2> QED BY <2>1, <2>3, <2>4, <2>5
<1>2. /\ DOMAIN fa \subseteq 0..T
      /\ \A t \in DOMAIN fa : /\ Fits(raw, i, t) /\ Fits(raw, k, fa[t])
                              /\ fa[t] \in Int /\ t <= fa[t] /\ fa[t] < Never
      /\ \A t \in DOMAIN fa, x \in Int : Fits(raw, i, x) /\ x <= t => x \in DOMAIN fa /\ fa[x] <= fa[t]
  BY DEF Frame, Drivable
<1> HIDE DEF k, i, fa
<1>3. \A v \in Vertex : v \in Customer \/ v = Start \/ v = End
  BY <1>0, Vertices
<1>d. i \in Vertex /\ k \in Vertex  BY <1>0 DEF i, k
<1>4. PICK t0 \in DOMAIN fa : TRUE
  BY DEF fa
<1>5. h[k] = hi[k]
  <2>1. CASE k \notin Customer  BY <1>1, <1>d, <2>1
  <2>2. CASE k \in Customer
    <3>c. Closed(arcs, f, lo, hi, h, k)  BY <2>2, StagedIs
    <3>1. PICK g \in Closings(hi) :
            /\ g[k] = hi[k]
            /\ h[k] = Min({hi[k], Max({lo[k]} \cup Arrived(arcs, f, lo, g, k))})
      BY <3>c DEF Closed
    <3> DEFINE A == {lo[k]} \cup {LatestArrival(f, lo, g, b) : b \in {x \in arcs : x[2] = k}}
    <3>2. \A v \in Vertex : g[v] \in Int /\ g[v] < Never
      <4>1. \A v \in Vertex : g[v] \in Int /\ g[v] <= hi[v]  BY DEF Closings
      <4> QED BY <1>0, <1>1, <4>1
    <3>3. \A b \in arcs : LatestArrival(f, lo, g, b) \in Int /\ LatestArrival(f, lo, g, b) <= Never + Never
      <4>1. SUFFICES ASSUME NEW b \in arcs
                     PROVE LatestArrival(f, lo, g, b) \in Int /\ LatestArrival(f, lo, g, b) <= Never + Never
        OBVIOUS
      <4>2. b \in Arc /\ Drivable(raw, b, f[b]) /\ b[1] \in Vertex /\ b[2] \in Vertex
        BY <1>0, Vertices DEF Frame
      <4> QED BY <1>0, <3>2, <4>2, LatestIs
    <3>4. LatestArrival(f, lo, g, a) = hi[k]
      <4>1. fa[t0] <= hi[k] /\ fa[t0] \in Int  BY <1>1, <1>2, <1>4, <1>d
      <4>2. hi[k] \in Int  BY <1>1, <1>d
      <4> DEFINE S == {t \in DOMAIN fa : fa[t] <= hi[k]}
      <4>3. DepartingTime(fa, hi[k]) = Max(S)
        <5>1. ~(DOMAIN fa = {} \/ \A t \in DOMAIN fa : hi[k] < fa[t])  BY <1>4, <4>1, <4>2
        <5> QED BY <5>1 DEF DepartingTime
      <4>4. Max(S) \in S
        <5>1. S \subseteq Int /\ S # {} /\ T \in Int /\ \A x \in S : x <= T  BY <1>0, <1>2, <1>4, <4>1
        <5> HIDE DEF S
        <5> QED BY <5>1, MaxIs
      <4>5. Max(S) \in 0..T  BY <1>2, <4>4
      <4> HIDE DEF S
      <4>6. DepartingTime(fa, hi[k]) # Never  BY <1>0, <4>3, <4>5
      <4>7. DepartingTime(f[a], g[a[2]]) # Never  BY <3>1, <4>6 DEF fa, k
      <4> QED BY <3>1, <4>7 DEF LatestArrival, k
    <3>5. hi[k] \in A  BY <3>4 DEF k
    <3>6. Max(A) \in Int /\ hi[k] <= Max(A)
      <4> DEFINE b == Never + Never + lo[k]
      <4>1. lo[k] \in Nat  BY <1>1, <1>d
      <4>2. b \in Int /\ A \subseteq Int /\ A # {} /\ \A x \in A : x <= b
        BY <1>0, <3>3, <4>1
      <4> HIDE DEF A, b
      <4>3. Max(A) \in A /\ \A y \in A : y <= Max(A)  BY <4>2, MaxIs
      <4> QED BY <3>5, <4>2, <4>3
    <3> HIDE DEF A
    <3>7. h[k] = Min({hi[k], Max(A)})  BY <3>1 DEF A, Arrived
    <3>8. Min({hi[k], Max(A)}) = IF hi[k] <= Max(A) THEN hi[k] ELSE Max(A)
      <4>1. hi[k] \in Int  BY <1>1, <1>d
      <4> QED BY <3>6, <4>1, MinOfTwo
    <3> QED BY <3>6, <3>7, <3>8
  <2> QED BY <2>1, <2>2
<1>6. ASSUME NEW t \in DOMAIN fa, t < l[i]
      PROVE  l[i] \in DOMAIN fa /\ fa[l[i]] <= l[k]
  <2>0. t \in Int /\ lo[i] <= t /\ t <= hi[i] /\ l[i] \in Int /\ lo[i] \in Int  BY <1>1, <1>2, <1>d
  <2>1. i \in Customer
    <3>1. l[i] # lo[i]  BY <1>6, <2>0
    <3> QED BY <1>1, <1>d, <3>1
  <2>o. Opened(arcs, f, lo, l, h, i)  BY <2>1, StagedIs
  <2>2. PICK e \in Openings(lo) :
          /\ e[i] = lo[i] /\ \A v \in Vertex : e[v] <= l[v]
          /\ l[i] = Max({lo[i], Min({h[i]} \cup Departed(arcs, f, e, h, i))})
    BY <2>o DEF Opened
  <2> DEFINE B == {h[i]} \cup {EarliestDeparture(f, e, h, b) : b \in {x \in arcs : x[1] = i}}
             d == EarliestDeparture(f, e, h, a)
  <2>3. \A v \in Vertex : e[v] \in Int /\ 0 <= e[v]
    <3>1. \A v \in Vertex : e[v] \in Int /\ lo[v] <= e[v]  BY DEF Openings
    <3> QED BY <1>1, <3>1
  <2>4. \A b \in arcs : EarliestDeparture(f, e, h, b) \in Int /\ 0 <= EarliestDeparture(f, e, h, b)
    <3>1. SUFFICES ASSUME NEW b \in arcs
                   PROVE EarliestDeparture(f, e, h, b) \in Int /\ 0 <= EarliestDeparture(f, e, h, b)
      OBVIOUS
    <3>2. b \in Arc /\ Drivable(raw, b, f[b]) /\ b[1] \in Vertex /\ b[2] \in Vertex
      BY <1>0, Vertices DEF Frame
    <3> QED BY <1>0, <2>3, <3>2, EarliestIs
  <2>5. Min(B) \in Int /\ Min(B) <= d
    <3> DEFINE b == IF h[i] <= 0 THEN h[i] ELSE 0
    <3>0. h[i] \in Int  BY <1>1, <1>d
    <3>1. b \in Int /\ B \subseteq Int /\ B # {} /\ (\A x \in B : b <= x) /\ d \in B
      BY <2>4, <3>0 DEF i
    <3> HIDE DEF B, b, d
    <3>2. Min(B) \in B /\ \A y \in B : Min(B) <= y  BY <3>1, MinIs
    <3> QED BY <3>1, <3>2
  <2>6. d \in Int  BY <2>4
  <2> HIDE DEF B
  <2>7. l[i] <= d
    <3>1. l[i] = Max({lo[i], Min(B)})  BY <2>2 DEF B, Departed
    <3>2. Max({lo[i], Min(B)}) = IF lo[i] >= Min(B) THEN lo[i] ELSE Min(B)  BY <2>0, <2>5, MaxOfTwo
    <3> HIDE DEF d
    <3> QED BY <1>6, <2>0, <2>5, <2>6, <3>1, <3>2
  <2>8. DepartingTime(fa, e[k]) # Never /\ d = DepartingTime(fa, e[k])
    <3>1. d = IF DepartingTime(fa, e[k]) # Never THEN DepartingTime(fa, e[k]) ELSE e[i]
      BY DEF EarliestDeparture, fa, k, i
    <3>2. d # e[i]
      <4> HIDE DEF d
      <4> QED BY <1>6, <2>0, <2>2, <2>6, <2>7
    <3> QED BY <3>1, <3>2
  <2> DEFINE S == {s \in DOMAIN fa : fa[s] <= e[k]}
  <2> HIDE DEF d
  <2>9. DepartingTime(fa, e[k]) = Max(S) /\ S # {}
    <3>1. ~(DOMAIN fa = {} \/ \A s \in DOMAIN fa : e[k] < fa[s])  BY <2>8 DEF DepartingTime
    <3>2. e[k] \in Int  BY <1>d, <2>3
    <3>3. PICK s \in DOMAIN fa : ~(e[k] < fa[s])  BY <3>1
    <3>4. fa[s] \in Int  BY <1>2
    <3>5. s \in S  BY <3>2, <3>3, <3>4
    <3> QED BY <3>1, <3>5 DEF DepartingTime
  <2>10. d \in DOMAIN fa /\ fa[d] <= e[k]
    <3>1. S \subseteq Int /\ T \in Int /\ \A x \in S : x <= T  BY <1>0, <1>2
    <3>2. Max(S) \in S
      <4> HIDE DEF S
      <4> QED BY <2>9, <3>1, MaxIs
    <3>3. d \in S  BY <2>8, <2>9, <3>2
    <3> QED BY <3>3
  <2>11. Fits(raw, i, l[i])  BY <1>1, <1>d
  <2>12. l[i] \in DOMAIN fa /\ fa[l[i]] <= fa[d]  BY <1>2, <2>0, <2>7, <2>10, <2>11
  <2>13. e[k] <= l[k] /\ e[k] \in Int /\ l[k] \in Int /\ fa[d] \in Int /\ fa[l[i]] \in Int
    BY <1>1, <1>2, <1>d, <2>2, <2>3, <2>10, <2>12
  <2> QED BY <2>10, <2>12, <2>13
<1>7. l[i] \in DOMAIN fa
  <2>1. CASE t0 < l[i]  BY <1>4, <1>6, <2>1
  <2>2. CASE ~(t0 < l[i])
    <3>1. t0 \in Int /\ l[i] \in Int /\ Fits(raw, i, l[i])  BY <1>1, <1>2, <1>4, <1>d
    <3>2. l[i] <= t0  BY <2>2, <3>1
    <3> QED BY <1>2, <1>4, <3>1, <3>2
  <2> QED BY <2>1, <2>2
<1> QED BY <1>5, <1>6, <1>7 DEF k, i, fa

LEMMA FrameIs ==
  ASSUME NEW raw, Sane(raw)
  PROVE  Frame(raw, Loadable(raw), Carried(raw), Shifted(raw, raw.lo), Shifted(raw, raw.hi))
<1> DEFINE lo == Shifted(raw, raw.lo)
           hi == Shifted(raw, raw.hi)
<1>1. \A v \in Vertex : /\ raw.lo[v] \in Nat /\ raw.hi[v] \in Nat /\ raw.service[v] \in Nat
                        /\ raw.lo[v] <= raw.hi[v] /\ raw.hi[v] <= T /\ T + raw.service[v] < Never
  BY DEF Sane, Proper
<1>2. T \in Nat /\ Never \in Nat  BY DEF Sane
<1>3. /\ lo = [v \in Vertex |-> raw.lo[v] + raw.service[v]] /\ hi = [v \in Vertex |-> raw.hi[v] + raw.service[v]]
  BY DEF Shifted
<1> HIDE DEF lo, hi
<1>4. lo \in [Vertex -> Nat] /\ hi \in [Vertex -> Nat]  BY <1>1, <1>3
<1>5. ASSUME NEW v \in Vertex
      PROVE  /\ hi[v] < Never /\ lo[v] <= hi[v]
             /\ \A x : Fits(raw, v, x) <=> x \in Int /\ lo[v] <= x /\ x <= hi[v]
  <2>1. lo[v] = raw.lo[v] + raw.service[v] /\ hi[v] = raw.hi[v] + raw.service[v]  BY <1>3
  <2>2. raw.lo[v] \in Nat /\ raw.hi[v] \in Nat /\ raw.service[v] \in Nat
        /\ raw.lo[v] <= raw.hi[v] /\ raw.hi[v] <= T /\ T + raw.service[v] < Never
    BY <1>1
  <2> QED BY <1>2, <2>1, <2>2 DEF Fits
<1>6. Loadable(raw) \subseteq Arc /\ \A a \in Loadable(raw) : Drivable(raw, a, Carried(raw)[a])
  <2>1. Loadable(raw) \subseteq Arc  BY DEF Loadable
  <2>2. \A a \in Loadable(raw) : Carried(raw)[a] = Folded(raw)[a]  BY <2>1 DEF Carried
  <2> QED BY <2>1, <2>2, FoldedDrivable
<1> QED BY <1>4, <1>5, <1>6 DEF Frame, lo, hi

(* An arc that was removed because of the depot: one may return there and set out anew. *)
Bypassed(raw, l, h, a) ==
  /\ a[1] # Start /\ a[2] # End
  /\ h[a[1]] \in DOMAIN Folded(raw)[<<a[1], End>>]
  /\ \E s \in DOMAIN Folded(raw)[<<Start, a[2]>>] :
       /\ Folded(raw)[<<a[1], End>>][h[a[1]]] <= s
       /\ Folded(raw)[<<Start, a[2]>>][s] <= l[a[2]]

LEMMA DetourIs ==
  ASSUME NEW raw, Sane(raw), NEW w, NEW l, NEW h, NEW p, Refining(raw, w, l, h, p),
         NEW a \in Loadable(raw), DOMAIN Folded(raw)[a] # {}, a \notin w.arcs
  PROVE  Bypassed(raw, l, h, a)
<1> DEFINE lo == Shifted(raw, raw.lo)
           hi == Shifted(raw, raw.hi)
           F == Folded(raw)
           i == a[1]
           j == a[2]
<1>0. /\ N \in Nat \ {0} /\ Never \in Nat /\ T \in Nat /\ a \in Arc /\ i \in Vertex /\ j \in Vertex
      /\ i # End /\ j # Start /\ T < Never /\ a = <<i, j>>
  <2>1. N \in Nat \ {0} /\ a \in Arc /\ Never \in Nat /\ T \in Nat  BY DEF Sane, Loadable
  <2>2. raw.service[Start] = 0 /\ T + raw.service[Start] < Never  BY <2>1, Vertices DEF Sane, Proper
  <2>3. T < Never  BY <2>1, <2>2
  <2> QED BY <2>1, <2>3, Vertices DEF Arc
<1>1. Frame(raw, Loadable(raw), Carried(raw), lo, hi)  BY FrameIs
<1>2. /\ Staged(Loadable(raw), Carried(raw), lo, hi, l, h)
      /\ p.arcs = Passable(raw, l, h) /\ p.arr = Spread(raw, p.arcs)
      /\ p.lo = l /\ p.hi = h /\ w.arcs = Straight(p)
  BY DEF Refining
<1>3. Carried(raw)[a] = F[a]  BY <1>0 DEF Carried
<1>f. \A b \in Arc : /\ DOMAIN F[b] \subseteq 0..T
                     /\ \A t \in DOMAIN F[b] : /\ Fits(raw, b[1], t) /\ Fits(raw, b[2], F[b][t])
                                               /\ F[b][t] \in Int /\ t <= F[b][t] /\ F[b][t] < Never
                     /\ \A t \in DOMAIN F[b], x \in Int :
                          Fits(raw, b[1], x) /\ x <= t => x \in DOMAIN F[b] /\ F[b][x] <= F[b][t]
  BY FoldedDrivable DEF Drivable
<1> HIDE DEF F
<1>4. h[j] = hi[j] /\ l[i] \in DOMAIN F[a]
  <2>1. DOMAIN Carried(raw)[a] # {}  BY <1>3 DEF F
  <2> HIDE DEF lo, hi
  <2>2. /\ h[a[2]] = hi[a[2]] /\ l[a[1]] \in DOMAIN Carried(raw)[a]
    BY <1>1, <1>2, <2>1, StagedDrive
  <2> QED BY <1>3, <2>2
<1>5. \A v \in Vertex : /\ l[v] \in Int /\ lo[v] <= l[v] /\ l[v] <= hi[v]
                        /\ h[v] \in Int /\ lo[v] <= h[v] /\ h[v] <= hi[v]
  <2> HIDE DEF lo, hi
  <2> QED BY <1>1, <1>2, StagedBounds
<1>6. \A v \in Vertex : /\ lo[v] \in Nat /\ hi[v] \in Nat /\ hi[v] < Never
                        /\ \A x : Fits(raw, v, x) <=> x \in Int /\ lo[v] <= x /\ x <= hi[v]
  <2> HIDE DEF lo, hi
  <2> QED BY <1>1 DEF Frame
<1> HIDE DEF lo, hi
<1>7. a \in p.arcs
  <2>1. TravelTime(F[a], l[i]) = F[a][l[i]] - l[i]  BY <1>4 DEF TravelTime
  <2>2. F[a][l[i]] \in Int /\ l[i] \in Int /\ F[a][l[i]] <= hi[j]
    <3>1. Fits(raw, a[2], F[a][l[i]]) /\ F[a][l[i]] \in Int  BY <1>0, <1>4, <1>f
    <3>2. F[a][l[i]] <= hi[j]  BY <1>0, <1>6, <3>1
    <3> QED BY <1>0, <1>5, <3>1, <3>2
  <2>3. l[i] + TravelTime(F[a], l[i]) <= h[j]
    <3> DEFINE y == F[a][l[i]]
               x == l[i]
               b == h[j]
               c == hi[j]
    <3>1. TravelTime(F[a], x) = y - x /\ y \in Int /\ x \in Int /\ y <= c /\ b = c  BY <1>4, <2>1, <2>2
    <3> HIDE DEF y, x, b, c
    <3>2. x + TravelTime(F[a], x) <= b  BY <3>1
    <3> QED BY <3>2 DEF x, b
  <2> QED BY <1>2, <1>3, <2>3 DEF Passable
<1>8. i # Start /\ j # End /\ ViaDepot(p, a) <= l[j] - h[i]
  BY <1>2, <1>7 DEF Straight
<1>9. <<i, End>> \in Arc /\ <<Start, j>> \in Arc
  <2>1. i \in Customer /\ j \in Customer  BY <1>0, <1>8, Vertices
  <2> QED BY <1>0, <2>1, Vertices DEF Arc
<1>10. \A b \in Arc : DOMAIN p.arr[b] # {} => p.arr[b] = F[b]
  <2>1. \A b \in Arc : p.arr[b] = IF b \in p.arcs THEN Carried(raw)[b] ELSE <<>>  BY <1>2 DEF Spread
  <2>2. \A b \in Arc : Carried(raw)[b] = IF b \in Loadable(raw) THEN F[b] ELSE <<>>  BY DEF Carried, F
  <2>3. DOMAIN <<>> = {}  OBVIOUS
  <2> QED BY <2>1, <2>2, <2>3
<1> DEFINE home == TravelTime(p.arr[<<i, End>>], h[i])
           out  == p.arr[<<Start, j>>]
           t    == h[i] + home
           m    == Max({t, Min(DOMAIN out)})
           again == IF DOMAIN out = {} \/ t > Max(DOMAIN out) THEN Never ELSE out[m] - t
<1>11. ViaDepot(p, a) = home + again
  BY <1>2 DEF ViaDepot
<1> HIDE DEF i, j
<1>12. /\ l[j] \in Int /\ l[j] < Never /\ h[i] \in Int /\ 0 <= h[i]
  <2>1. i \in Vertex /\ j \in Vertex  BY <1>0
  <2>2. lo[i] \in Nat /\ lo[i] <= h[i] /\ h[i] \in Int /\ l[j] \in Int /\ l[j] <= hi[j] /\ hi[j] \in Nat /\ hi[j] < Never
    BY <1>5, <1>6, <2>1
  <2> QED BY <1>0, <2>2
<1>13. home = Never \/ (h[i] \in DOMAIN F[<<i, End>>] /\ home = F[<<i, End>>][h[i]] - h[i])
  <2>1. CASE h[i] \in DOMAIN p.arr[<<i, End>>]
    <3>1. p.arr[<<i, End>>] = F[<<i, End>>]  BY <1>9, <1>10, <2>1
    <3> QED BY <2>1, <3>1 DEF TravelTime
  <2>2. CASE h[i] \notin DOMAIN p.arr[<<i, End>>]
    BY <2>2 DEF TravelTime
  <2> QED BY <2>1, <2>2
<1>14. home \in Int /\ 0 <= home
  <2>1. CASE home = Never  BY <1>0, <2>1
  <2>2. CASE h[i] \in DOMAIN F[<<i, End>>] /\ home = F[<<i, End>>][h[i]] - h[i]
    <3>1. F[<<i, End>>][h[i]] \in Int /\ h[i] <= F[<<i, End>>][h[i]]  BY <1>9, <1>f, <2>2
    <3> QED BY <1>12, <2>2, <3>1
  <2> QED BY <1>13, <2>1, <2>2
<1> HIDE DEF home
<1>15. t \in Int /\ t >= h[i]  BY <1>12, <1>14
<1> HIDE DEF t
<1>o. DOMAIN out # {} => out = F[<<Start, j>>]
  BY <1>9, <1>10
<1> HIDE DEF out
<1>16. \/ again = Never
       \/ /\ out = F[<<Start, j>>] /\ m \in DOMAIN out /\ t <= m /\ out[m] \in Int /\ m <= out[m]
          /\ again = out[m] - t
  <2>1. CASE DOMAIN out = {} \/ t > Max(DOMAIN out)  BY <2>1
  <2>2. CASE ~(DOMAIN out = {} \/ t > Max(DOMAIN out))
    <3>1. out = F[<<Start, j>>]  BY <1>o, <2>2
    <3> DEFINE D == DOMAIN out
               b == <<Start, j>>
    <3>2. b \in Arc /\ b[1] = Start /\ out = F[b]  BY <1>9, <3>1
    <3> HIDE DEF b
    <3>3. /\ D \subseteq 0..T
          /\ \A x \in D : Fits(raw, Start, x) /\ out[x] \in Int /\ x <= out[x]
          /\ \A y \in D, x \in Int : Fits(raw, Start, x) /\ x <= y => x \in D
      BY <1>f, <3>2
    <3>4. D # {} /\ ~(t > Max(D))  BY <2>2
    <3> HIDE DEF D
    <3>5. D \subseteq Int /\ (\A x \in D : x <= T) /\ (\A x \in D : 0 <= x) /\ T \in Int /\ 0 \in Int  BY <1>0, <3>3
    <3>6. Max(D) \in D /\ \A x \in D : x <= Max(D)  BY <3>4, <3>5, MaxIs
    <3>7. Min(D) \in D /\ \A x \in D : Min(D) <= x  BY <3>4, <3>5, MinIs
    <3>8. Max({t, Min(D)}) = IF t >= Min(D) THEN t ELSE Min(D)
      <4>1. Min(D) \in Int  BY <3>5, <3>7
      <4> QED BY <1>15, <4>1, MaxOfTwo
    <3>9. m = IF t >= Min(D) THEN t ELSE Min(D)  BY <3>8 DEF D
    <3> HIDE DEF m
    <3>10. m \in D /\ t <= m
      <4>1. CASE t >= Min(D)
        <5>1. Min(D) \in Int /\ Max(D) \in Int /\ t <= Max(D)  BY <1>15, <3>4, <3>5, <3>6, <3>7
        <5>2. Fits(raw, Start, t)
          <6>1. Start \in Vertex  BY <1>0, Vertices
          <6>2. Fits(raw, Start, Min(D)) /\ Fits(raw, Start, Max(D))  BY <3>3, <3>6, <3>7
          <6>3. lo[Start] <= Min(D) /\ Max(D) <= hi[Start] /\ lo[Start] \in Int /\ hi[Start] \in Int
            BY <1>6, <6>1, <6>2
          <6>4. lo[Start] <= t /\ t <= hi[Start]  BY <1>15, <4>1, <5>1, <6>3
          <6> QED BY <1>6, <1>15, <6>1, <6>4
        <5> QED BY <1>15, <3>3, <3>6, <3>9, <4>1, <5>1, <5>2
      <4>2. CASE ~(t >= Min(D))
        <5>1. Min(D) \in Int  BY <3>5, <3>7
        <5> QED BY <1>15, <3>7, <3>9, <4>2, <5>1
      <4> QED BY <4>1, <4>2
    <3>11. again = out[m] - t  BY <2>2 DEF again
    <3> QED BY <3>1, <3>3, <3>10, <3>11 DEF D
  <2> QED BY <2>1, <2>2
<1> HIDE DEF m
<1>17. again \in Int /\ 0 <= again
  <2>1. CASE again = Never  BY <1>0, <2>1
  <2>2. CASE m \in DOMAIN out /\ t <= m /\ out[m] \in Int /\ m <= out[m] /\ again = out[m] - t
    <3>1. m \in Int
      <4>1. DOMAIN out \subseteq 0..T \/ again = Never  BY <1>9, <1>f, <1>16
      <4>2. CASE again = Never
        <5> HIDE DEF again
        <5> QED BY <1>9, <1>f, <1>o, <2>2
      <4> QED BY <2>2, <4>1, <4>2
    <3> HIDE DEF again
    <3> QED BY <1>15, <2>2, <3>1
  <2> QED BY <1>16, <2>1, <2>2
<1> HIDE DEF again
<1>18. home + again <= l[j] - h[i]
  BY <1>8, <1>11 DEF i, j
<1>19. home # Never /\ again # Never
  BY <1>0, <1>12, <1>14, <1>17, <1>18
<1>20. /\ h[i] \in DOMAIN F[<<i, End>>] /\ home = F[<<i, End>>][h[i]] - h[i]
       /\ out = F[<<Start, j>>] /\ m \in DOMAIN out /\ t <= m /\ out[m] \in Int /\ again = out[m] - t
  BY <1>13, <1>16, <1>19
<1>21. F[<<i, End>>][h[i]] = t /\ out[m] <= l[j]
  <2>1. F[<<i, End>>][h[i]] \in Int  BY <1>9, <1>f, <1>20
  <2>2. t = h[i] + home  BY DEF t
  <2> DEFINE e == F[<<i, End>>][h[i]]
             o == out[m]
             x == h[i]
             y == l[j]
  <2>3. e \in Int /\ o \in Int /\ x \in Int /\ y \in Int /\ home = e - x /\ again = o - t
        /\ home + again <= y - x /\ t = x + home /\ home \in Int /\ again \in Int
    BY <1>12, <1>14, <1>17, <1>18, <1>20, <2>1, <2>2
  <2> HIDE DEF e, o, x, y
  <2>4. e = t /\ o <= y  BY <2>3
  <2> QED BY <2>4 DEF e, o, y
<1>22. \E s \in DOMAIN F[<<Start, j>>] : F[<<i, End>>][h[i]] <= s /\ F[<<Start, j>>][s] <= l[j]
  BY <1>20, <1>21
<1> QED BY <1>8, <1>20, <1>22 DEF Bypassed, F, i, j

-----------------------------------------------------------------------------
(* What the prepared windows leave of an arc one can drive at all.  t0 is when its start's
   window opens: whoever would leave earlier may as well wait for that. *)
Bypass(a) ==
  /\ a[1] # Start /\ a[2] # End
  /\ \E e, s, w \in Int : /\ Drives(<<a[1], End>>, vrp.hi[a[1]], e) /\ e <= s
                          /\ Drives(<<Start, a[2]>>, s, w) /\ w <= vrp.lo[a[2]]

Tight(a) ==
  /\ \A x : Fits(Raw[prob.net], a[2], x) => x <= vrp.hi[a[2]]
  /\ \E w \in Int : Drives(a, vrp.lo[a[1]], w)
  /\ \A t, y : Drives(a, t, y) /\ t < vrp.lo[a[1]] =>
       \A w : Drives(a, vrp.lo[a[1]], w) => w <= vrp.lo[a[2]]
  /\ a \notin vrp.arcs => Bypass(a)

LEMMA FittingIs ==
  ASSUME Setting
  PROVE  /\ \A v \in Vertex : /\ vrp.lo[v] \in Int /\ vrp.hi[v] \in Int
                              /\ Fits(Raw[prob.net], v, vrp.lo[v]) /\ Fits(Raw[prob.net], v, vrp.hi[v])
         /\ \A a \in Loadable(Raw[prob.net]) : \A t, y : Drives(a, t, y) => Tight(a)
<1> DEFINE raw == Raw[prob.net]
           lo == Shifted(raw, raw.lo)
           hi == Shifted(raw, raw.hi)
           F == Folded(raw)
<1>1. Sane(raw) /\ Refined(raw, vrp) /\ N \in Nat \ {0}  BY SettingIs DEF Sane
<1> HIDE DEF raw
<1>2. PICK l, h, p : Refining(raw, vrp, l, h, p)  BY <1>1 DEF Refined
<1>3. Frame(raw, Loadable(raw), Carried(raw), lo, hi)  BY <1>1, FrameIs
<1>4. Staged(Loadable(raw), Carried(raw), lo, hi, l, h) /\ vrp.lo = l /\ vrp.hi = h
  BY <1>2 DEF Refining
<1> HIDE DEF lo, hi
<1>5. \A v \in Vertex : /\ l[v] \in Int /\ lo[v] <= l[v] /\ l[v] <= hi[v]
                        /\ h[v] \in Int /\ lo[v] <= h[v] /\ h[v] <= hi[v]
  BY <1>3, <1>4, StagedBounds
<1>6. \A v \in Vertex : \A x : Fits(raw, v, x) <=> x \in Int /\ lo[v] <= x /\ x <= hi[v]
  BY <1>3 DEF Frame
<1>7. \A v \in Vertex : /\ vrp.lo[v] \in Int /\ vrp.hi[v] \in Int
                        /\ Fits(raw, v, vrp.lo[v]) /\ Fits(raw, v, vrp.hi[v])
  BY <1>4, <1>5, <1>6
<1>8. ASSUME NEW a \in Loadable(raw), NEW t, NEW y, Drives(a, t, y)
      PROVE  Tight(a)
  <2>1. a \in Arc /\ a[1] \in Vertex /\ a[2] \in Vertex /\ a = <<a[1], a[2]>> /\ \A u, z : Drives(a, u, z) <=> u \in DOMAIN F[a] /\ z = F[a][u]
    <3>1. a \in Arc  BY <1>8 DEF Drives
    <3>2. \A u, z : Drives(a, u, z) <=> u \in DOMAIN F[a] /\ z = F[a][u]  BY <3>1 DEF Drives, F, raw
    <3> QED BY <1>1, <3>1, <3>2, Vertices
  <2>2. DOMAIN F[a] # {}  BY <1>8, <2>1
  <2>3. Carried(raw)[a] = F[a]  BY <2>1 DEF Carried
  <2>4. DOMAIN Carried(raw)[a] # {}  BY <2>2, <2>3
  <2>5. /\ h[a[2]] = hi[a[2]] /\ l[a[1]] \in DOMAIN Carried(raw)[a]
        /\ \A u \in DOMAIN Carried(raw)[a] : u < l[a[1]] => Carried(raw)[a][l[a[1]]] <= l[a[2]]
    BY <1>3, <1>4, <2>4, StagedDrive
  <2> HIDE DEF F
  <2>6. \A x : Fits(raw, a[2], x) => x <= vrp.hi[a[2]]  BY <1>4, <1>6, <2>1, <2>5
  <2>7. \E w \in Int : Drives(a, vrp.lo[a[1]], w)
    <3>1. Drives(a, vrp.lo[a[1]], F[a][l[a[1]]])  BY <1>4, <2>1, <2>3, <2>5
    <3>2. F[a][l[a[1]]] \in Int  BY <3>1, DrivesIs
    <3> QED BY <3>1, <3>2
  <2>8. \A u, z : Drives(a, u, z) /\ u < vrp.lo[a[1]] =>
          \A w : Drives(a, vrp.lo[a[1]], w) => w <= vrp.lo[a[2]]
    BY <1>4, <2>1, <2>3, <2>5
  <2>9. ASSUME a \notin vrp.arcs PROVE Bypass(a)
    <3>1. Bypassed(raw, l, h, a)
      <4>1. DOMAIN Folded(raw)[a] # {}  BY <2>2 DEF F
      <4> QED BY <1>1, <1>2, <2>9, <4>1, DetourIs
    <3> DEFINE i == a[1]
               j == a[2]
    <3>2. /\ i # Start /\ j # End /\ h[i] \in DOMAIN F[<<i, End>>]
          /\ \E s \in DOMAIN F[<<Start, j>>] : F[<<i, End>>][h[i]] <= s /\ F[<<Start, j>>][s] <= l[j]
      BY <3>1 DEF Bypassed, F
    <3>3. PICK s \in DOMAIN F[<<Start, j>>] : F[<<i, End>>][h[i]] <= s /\ F[<<Start, j>>][s] <= l[j]
      BY <3>2
    <3>4. <<i, End>> \in Arc /\ <<Start, j>> \in Arc
      <4>1. i # End /\ j # Start  BY <2>1 DEF Arc
      <4>2. i \in Customer /\ j \in Customer  BY <1>1, <2>1, <3>2, <4>1, Vertices
      <4> QED BY <1>1, <4>2, Vertices DEF Arc
    <3>5. Drives(<<i, End>>, vrp.hi[i], F[<<i, End>>][h[i]]) /\ Drives(<<Start, j>>, s, F[<<Start, j>>][s])
      BY <1>4, <3>2, <3>4 DEF Drives, F, raw
    <3>6. F[<<i, End>>][h[i]] \in Int /\ s \in Int /\ F[<<Start, j>>][s] \in Int
      <4>1. F[<<i, End>>][h[i]] \in Int  BY <3>5, DrivesIs
      <4>2. s \in Int /\ F[<<Start, j>>][s] \in Int  BY <3>5, DrivesIs
      <4> QED BY <4>1, <4>2
    <3> QED BY <1>4, <3>2, <3>3, <3>5, <3>6 DEF Bypass
  <2> QED BY <2>6, <2>7, <2>8, <2>9 DEF Tight, raw
<1> QED BY <1>7, <1>8 DEF raw

-----------------------------------------------------------------------------
(* The shortest ride x of a route, and until when one may be at each stop: until its
   window opens, if one is there before. *)
Waited(o, x) == [i \in 1..Len(o) |-> IF x[i] >= vrp.lo[o[i]] THEN x[i] ELSE vrp.lo[o[i]]]

Sketch(o, x, y) ==
  /\ o \in Path /\ Along(Loads(prob), o) <= Raw[prob.net].room
  /\ Ride(o, x) /\ x[1] \in Window /\ x[Len(o)] - x[1] = Checked(o)
  /\ y = Waited(o, x) /\ Slack(o, x, y)
  /\ \A i \in 1..Len(o) : y[i] <= vrp.hi[o[i]]
  /\ Roads(vrp, prob.A, 0, o)

LEMMA PairLoadable ==
  ASSUME Setting, NEW o \in Path, Along(Loads(prob), o) <= Raw[prob.net].room, NEW i \in 1..Len(o) - 1
  PROVE  <<o[i], o[i + 1]>> \in Loadable(Raw[prob.net])
<1> DEFINE raw == Raw[prob.net]
           f == Loads(prob)
           u == o[i]
           v == o[i + 1]
<1>0. N \in Nat \ {0} /\ Sane(raw) /\ raw.room \in Nat /\ prob \in Problem
  BY SettingIs DEF Sane, Setting, Proper
<1>1. /\ o \in Seq(Vertex) /\ Len(o) \in Nat /\ IsInjective(o) /\ <<u, v>> \in Arc
      /\ i \in 1..Len(o) /\ i + 1 \in 1..Len(o) /\ i # i + 1
  BY <1>0, PathShape
<1>2. u \in Vertex /\ v \in Vertex /\ u # v
  <2>1. u \in Vertex /\ v \in Vertex  BY <1>1, ElementOfSeq
  <2> QED BY <1>1, <2>1 DEF Arc
<1>3. f \in [Vertex -> Int] /\ \A w \in Vertex : f[w] = raw.load[w] /\ 0 <= f[w]
  <2>1. f \in [Vertex -> Int] /\ \A w \in Vertex : f[w] = raw.load[w]  BY <1>0, SumFunctions DEF Loads
  <2>2. \A w \in Vertex : raw.load[w] \in Nat  BY <1>0 DEF Sane, Proper
  <2> QED BY <2>1, <2>2
<1>4. u \in Range(o) /\ v \in Range(o)
  <2>1. DOMAIN o = 1..Len(o)  BY <1>1
  <2> QED BY <1>1, <2>1 DEF Range
<1> HIDE DEF u, v, raw, f
<1> DEFINE p == <<u, v>>
<1>5. p \in Seq(Vertex) /\ IsInjective(p) /\ Range(p) \subseteq Range(o)
  <2>1. p \in Seq(Vertex) /\ DOMAIN p = {1, 2} /\ p[1] = u /\ p[2] = v  BY <1>2
  <2> QED BY <1>2, <1>4, <2>1 DEF IsInjective, Range
<1>6. Along(f, p) = f[u] + f[v]
  <2>1. p = Append(<<u>>, v) /\ <<u>> \in Seq(Vertex)  BY <1>2
  <2>2. Along(f, <<u>>) = f[u]  BY <1>2, <1>3, SumRoot
  <2>3. Along(f, Append(<<u>>, v)) = Along(f, <<u>>) + f[v]  BY <1>2, <1>3, <2>1, SumAppend
  <2> QED BY <2>1, <2>2, <2>3
<1>7. Along(f, p) <= Along(f, o)
  BY <1>0, <1>1, <1>3, <1>5, SumSubset
<1>8. Along(f, o) \in Int /\ Along(f, o) <= raw.room  BY <1>1, <1>3, SumInt DEF raw, f
<1>9. raw.load[u] + raw.load[v] <= raw.room
  BY <1>0, <1>2, <1>3, <1>6, <1>7, <1>8
<1> QED BY <1>1, <1>9 DEF Loadable, u, v, raw

LEMMA SketchIs ==
  ASSUME Setting, NEW o \in Path, Checked(o) # Never, ~Stopover(o),
         \A i \in 1..Len(o) - 1 : /\ <<o[i], o[i + 1]>> \notin prob.A
                                  /\ prob.A # {} => <<o[i], o[i + 1]>> \in vrp.arcs
  PROVE  \E x, y : Sketch(o, x, y)
<1> DEFINE raw == Raw[prob.net]
           n == Len(o)
<1>0. N \in Nat \ {0} /\ Sane(raw)  BY SettingIs DEF Sane
<1>1. /\ o \in Seq(Vertex) /\ n \in Nat /\ n >= 3 /\ o[1] = Start /\ o[n] = End
      /\ \A i \in 1..n - 1 : <<o[i], o[i + 1]>> \in Arc
  BY <1>0, PathShape
<1>2. /\ Along(Loads(prob), o) <= raw.room
      /\ \E z : Ride(o, z) /\ z[1] \in Window /\ z[n] - z[1] = Checked(o)
  BY CheckedRide
<1>3. PICK x : Ride(o, x) /\ x[1] \in Window /\ x[n] - x[1] = Checked(o)
  BY <1>2
<1> DEFINE y == Waited(o, x)
<1>4. /\ \A i \in 1..n : Fits(raw, o[i], x[i]) /\ x[i] \in Int
      /\ \A i \in 1..n - 1 : Drives(<<o[i], o[i + 1]>>, x[i], x[i + 1])
  <2>1. /\ x \in [1..n -> Int] /\ \A i \in 1..n : Fits(raw, o[i], x[i])
        /\ \A i \in 1..n - 1 : Drives(<<o[i], o[i + 1]>>, x[i], x[i + 1])
    BY <1>3, RideIs
  <2> QED BY <2>1
<1>5. \A i \in 1..n : o[i] \in Vertex  BY <1>1, ElementOfSeq
<1>6. \A v \in Vertex : /\ vrp.lo[v] \in Int /\ vrp.hi[v] \in Int
                        /\ Fits(raw, v, vrp.lo[v]) /\ Fits(raw, v, vrp.hi[v])
  BY FittingIs
<1>7. /\ vrp.lo[End] = raw.lo[End] /\ vrp.lo[Start] = raw.lo[Start] /\ vrp.hi[Start] = raw.hi[Start]
      /\ raw.service[Start] = 0 /\ raw.service[End] = 0
      /\ raw.lo[End] \in Int /\ raw.lo[Start] \in Int /\ raw.hi[Start] \in Int
  <2>1. vrp.lo[End] = raw.lo[End] /\ vrp.lo[Start] = raw.lo[Start] /\ vrp.hi[Start] = raw.hi[Start]
    BY SettingIs DEF Ready
  <2>2. Start \in Vertex /\ End \in Vertex /\ Start \notin Customer /\ End \notin Customer  BY <1>0, Vertices
  <2> QED BY <1>0, <2>1, <2>2 DEF Sane, Proper
<1> HIDE DEF raw, n
<1>8. /\ DOMAIN y = 1..n
      /\ \A i \in 1..n : y[i] = IF x[i] >= vrp.lo[o[i]] THEN x[i] ELSE vrp.lo[o[i]]
  BY DEF Waited, n
<1> HIDE DEF y
<1>t. \A i \in 1..n - 1 : Tight(<<o[i], o[i + 1]>>) /\ i \in 1..n /\ i + 1 \in 1..n
  <2> SUFFICES ASSUME NEW i \in 1..n - 1 PROVE Tight(<<o[i], o[i + 1]>>) /\ i \in 1..n /\ i + 1 \in 1..n
    OBVIOUS
  <2>1. <<o[i], o[i + 1]>> \in Loadable(raw)  BY <1>2, PairLoadable DEF n, raw
  <2>2. Drives(<<o[i], o[i + 1]>>, x[i], x[i + 1])  BY <1>4
  <2>3. Tight(<<o[i], o[i + 1]>>)  BY <2>1, <2>2, FittingIs DEF raw
  <2> QED BY <1>1, <2>3
<1>9. \A i \in 1..n : /\ x[i] <= y[i] /\ y[i] \in Int /\ vrp.lo[o[i]] <= y[i]
                      /\ Fits(raw, o[i], y[i])
  BY <1>4, <1>5, <1>6, <1>8
<1>10. \A i \in 1..n : y[i] <= vrp.hi[o[i]]
  <2> SUFFICES ASSUME NEW i \in 1..n PROVE y[i] <= vrp.hi[o[i]]
    OBVIOUS
  <2>1. CASE i = 1
    <3>1. Fits(raw, Start, y[1]) /\ o[i] = Start  BY <1>1, <1>9, <2>1
    <3> QED BY <1>7, <2>1, <3>1 DEF Fits
  <2>2. CASE i # 1
    <3>1. i - 1 \in 1..n - 1 /\ i - 1 + 1 = i  BY <1>1, <2>2
    <3> DEFINE a == <<o[i - 1], o[i]>>
    <3>2. Tight(a) /\ a[2] = o[i]  BY <1>t, <3>1
    <3>3. \A z : Fits(raw, o[i], z) => z <= vrp.hi[o[i]]  BY <3>2 DEF Tight, raw
    <3> QED BY <1>9, <3>3
  <2> QED BY <2>1, <2>2
<1>11. y[n] = x[n]
  <2>1. n \in 1..n /\ Fits(raw, End, x[n])  BY <1>1, <1>4
  <2>2. x[n] >= vrp.lo[End] /\ x[n] \in Int  BY <1>4, <1>7, <2>1 DEF Fits
  <2> QED BY <1>1, <1>8, <2>1, <2>2
<1>12. ASSUME NEW i \in 1..n - 1
       PROVE  \E w \in Int : Drives(<<o[i], o[i + 1]>>, y[i], w) /\ w <= y[i + 1]
  <2>0. i \in 1..n /\ i + 1 \in 1..n  BY <1>t
  <2>1. Drives(<<o[i], o[i + 1]>>, x[i], x[i + 1])  BY <1>4
  <2>2. CASE x[i] >= vrp.lo[o[i]]
    <3>1. y[i] = x[i] /\ x[i + 1] <= y[i + 1] /\ x[i + 1] \in Int  BY <1>4, <1>8, <1>9, <2>0, <2>2
    <3> QED BY <2>1, <3>1
  <2>3. CASE ~(x[i] >= vrp.lo[o[i]])
    <3> DEFINE a == <<o[i], o[i + 1]>>
    <3>1. y[i] = vrp.lo[o[i]] /\ x[i] \in Int /\ vrp.lo[o[i]] \in Int  BY <1>4, <1>5, <1>6, <1>8, <2>0, <2>3
    <3>2. x[i] < vrp.lo[o[i]]  BY <2>3, <3>1
    <3>3. Tight(a) /\ a[1] = o[i] /\ a[2] = o[i + 1]  BY <1>t
    <3>4. Drives(a, x[i], x[i + 1])  BY <2>1
    <3> HIDE DEF a
    <3>5. PICK w \in Int : Drives(a, vrp.lo[o[i]], w)  BY <3>3 DEF Tight
    <3>6. w <= vrp.lo[o[i + 1]]  BY <3>2, <3>3, <3>4, <3>5 DEF Tight
    <3>7. vrp.lo[o[i + 1]] <= y[i + 1] /\ y[i + 1] \in Int /\ vrp.lo[o[i + 1]] \in Int  BY <1>5, <1>6, <1>9, <2>0
    <3>8. w <= y[i + 1]  BY <3>5, <3>6, <3>7
    <3> QED BY <3>1, <3>5, <3>8 DEF a
  <2> QED BY <2>2, <2>3
<1>13. Slack(o, x, y)
  <2>1. y \in [1..n -> Int]
    <3>1. y = [i \in 1..n |-> IF x[i] >= vrp.lo[o[i]] THEN x[i] ELSE vrp.lo[o[i]]]  BY DEF y, Waited, n
    <3> QED BY <1>4, <1>5, <1>6, <3>1
  <2>2. \A i \in 1..n : x[i] <= y[i]  BY <1>9
  <2>3. \A i \in 1..n - 1 : \E w \in Int : Drives(<<o[i], o[i + 1]>>, y[i], w) /\ w <= y[i + 1]  BY <1>12
  <2> QED BY <1>11, <2>1, <2>2, <2>3 DEF Slack, n
<1>14. ASSUME NEW i \in 1..n - 1 PROVE <<o[i], o[i + 1]>> \in vrp.arcs \ prob.A
  <2> DEFINE a == <<o[i], o[i + 1]>>
  <2>0. i \in 1..n /\ i + 1 \in 1..n  BY <1>t
  <2>1. SUFFICES ASSUME a \notin vrp.arcs PROVE FALSE
    BY DEF n
  <2>2. Tight(a) /\ a[1] = o[i] /\ a[2] = o[i + 1]  BY <1>t
  <2>3. Bypass(a)  BY <2>1, <2>2 DEF Tight
  <2> HIDE DEF a
  <2>4. o[i] # Start /\ o[i + 1] # End  BY <2>2, <2>3 DEF Bypass
  <2>5. PICK e, s, w \in Int : /\ Drives(<<o[i], End>>, vrp.hi[o[i]], e) /\ e <= s
                               /\ Drives(<<Start, o[i + 1]>>, s, w) /\ w <= vrp.lo[o[i + 1]]
    BY <2>2, <2>3 DEF Bypass
  <2>6. i \in 2..n - 2
    <3>1. i # 1 /\ i + 1 # n  BY <1>1, <2>4
    <3> QED BY <1>1, <3>1
  <2> DEFINE b == <<o[i], End>>
  <2>7. \E g : Drives(b, x[i], g) /\ g <= e
    <3>1. Drives(b, vrp.hi[o[i]], e) /\ b[1] = o[i]  BY <2>5
    <3> HIDE DEF b
    <3>2. \A u : Fits(raw, o[i], u) /\ u <= vrp.hi[o[i]] => \E g : Drives(b, u, g) /\ g <= e
      BY <3>1, DrivesIs DEF raw
    <3>3. x[i] <= y[i] /\ y[i] <= vrp.hi[o[i]] /\ x[i] \in Int /\ y[i] \in Int /\ vrp.hi[o[i]] \in Int
      BY <1>4, <1>5, <1>6, <1>9, <1>10, <2>0
    <3>4. x[i] <= vrp.hi[o[i]]  BY <3>3
    <3> QED BY <1>4, <2>0, <3>2, <3>4
  <2>8. PICK g : Drives(b, x[i], g) /\ g <= e  BY <2>7
  <2>9. g \in Int /\ g <= s
    <3>1. g \in Int  BY <2>8, DrivesIs
    <3> QED BY <2>5, <2>8, <3>1
  <2>10. w <= y[i + 1]
    <3>1. vrp.lo[o[i + 1]] <= y[i + 1] /\ y[i + 1] \in Int /\ vrp.lo[o[i + 1]] \in Int  BY <1>5, <1>6, <1>9, <2>0
    <3> QED BY <2>5, <3>1
  <2>11. Stopover(o)
    <3>1. Drives(<<o[i], End>>, x[i], g)  BY <2>8
    <3>2. Along(Loads(prob), o) <= Raw[prob.net].room /\ x[Len(o)] - x[1] = Checked(o) /\ i \in 2..Len(o) - 2
      BY <1>2, <1>3, <2>6 DEF raw, n
    <3> QED BY ONLY Setting, o \in Path, <1>3, <1>13, <2>5, <2>9, <2>10, <3>1, <3>2, StopsOver
  <2> QED BY <2>11
<1>15. Roads(vrp, prob.A, 0, o)
  BY <1>14 DEF Roads, Way, n
<1>16. Sketch(o, x, y)
  BY <1>2, <1>3, <1>10, <1>13, <1>15 DEF Sketch, y, n, raw
<1> QED BY <1>16

-----------------------------------------------------------------------------
(* Each drive is a leg in either direction. *)
LEMMA LinkedLegs ==
  ASSUME Setting, NEW u \in Vertex, NEW v \in Vertex, NEW x, NEW y, Linked(vrp, <<u, v>>, x, y)
  PROVE  <<x, y>> \in Legs(0, <<u, v>>) /\ <<T - y, T - x>> \in Legs(1, <<v, u>>)
<1> DEFINE k == prob.net
           w == Prepare(Raw[k])
           a == <<u, v>>
           f == w.arr[a]
<1>1. k \in DOMAIN Raw
  BY LabelingAssumption DEF Setting, Posed
<1>2. vrp.arcs = w.arcs /\ vrp.arr = w.arr /\ vrp.legs = LegTable(w)
  BY <1>1 DEF Setting, Prepared
<1> HIDE DEF w
<1>3. a \in w.arcs /\ x \in DOMAIN f /\ y = f[x]
  BY <1>2 DEF Linked
<1>4. LegTable(w)[0][u][v] = {<<t, w.arr[<<u, v>>][t]>> : t \in DOMAIN w.arr[<<u, v>>]}
  BY <1>3 DEF LegTable, Dir
<1>5. LegTable(w)[1][v][u] = Mirror(w, <<v, u>>)
  BY <1>3 DEF LegTable, Dir
<1>6. <<T - f[x], T - x>> \in Mirror(w, <<v, u>>)
  BY <1>3 DEF Mirror, Turned
<1>7. <<x, y>> \in LegTable(w)[0][u][v]
  BY <1>3, <1>4
<1>8. <<T - y, T - x>> \in LegTable(w)[1][v][u]
  BY <1>3, <1>5, <1>6
<1>9. Legs(0, <<u, v>>) = LegTable(w)[0][u][v] /\ Legs(1, <<v, u>>) = LegTable(w)[1][v][u]
  BY <1>2 DEF Legs
<1> QED BY <1>7, <1>8, <1>9

(* Legs are departures and arrivals within the horizon. *)
LEMMA LegTimes ==
  ASSUME Setting, NEW d \in Dir, NEW u \in Vertex, NEW v \in Vertex, NEW e \in Legs(d, <<u, v>>)
  PROVE  e = <<e[1], e[2]>> /\ e[1] \in Int /\ e[2] \in Int /\ e[1] <= T /\ Way(d, u, v) \in vrp.arcs
<1>0. T \in Nat  BY SettingIs DEF Sane
<1>1. CASE d = 0
  <2>1. e = <<e[1], e[2]>> /\ Linked(vrp, <<u, v>>, e[1], e[2])  BY <1>1, SettingIs
  <2>2. Drivable(Raw[prob.net], <<u, v>>, vrp.arr[<<u, v>>])  BY <2>1, SettingIs DEF Linked
  <2>3. e[1] \in 0..T /\ e[2] \in Int  BY <2>1, <2>2 DEF Drivable, Linked
  <2> QED BY <1>0, <1>1, <2>1, <2>3 DEF Linked, Way
<1>2. CASE d = 1
  <2> DEFINE a == <<v, u>>
             f == vrp.arr[a]
  <2>1. a \in vrp.arcs /\ \E t \in DOMAIN f : e = <<e[1], T - t>> /\ e[1] \in Int /\ e[1] <= T - f[t]
    BY <1>2, SettingIs
  <2>2. PICK t \in DOMAIN f : e = <<e[1], T - t>> /\ e[1] \in Int /\ e[1] <= T - f[t]  BY <2>1
  <2>3. Drivable(Raw[prob.net], a, f)  BY <2>1, SettingIs
  <2> HIDE DEF f, a
  <2>4. t \in 0..T /\ f[t] \in Int /\ t <= f[t]  BY <2>3 DEF Drivable
  <2>5. e[2] = T - t  BY <2>2
  <2>6. e[1] <= T /\ e[2] \in Int  BY <1>0, <2>2, <2>4, <2>5
  <2> QED BY <1>2, <2>1, <2>2, <2>6 DEF Way, a
<1> QED BY <1>1, <1>2 DEF Dir

(* The latest departures: what compute_latest_departure_time has traced back. *)
Into(d, s) ==
  UNION {{<<u, x[1]>> : x \in {y \in vrp.legs[d][u][s[1]] : y[2] <= s[2]}} : u \in Vertex}
Below(b) == {t \in Int : t <= b}

Traced(R, d, w, b) ==
  /\ R \in [0..N + 1 -> SUBSET (Vertex \X Below(b))]
  /\ R[0] = {<<w, CloseAt(d, w)>>}
  /\ \A i \in 1..N + 1 : R[i] = UNION {{s} \cup Into(d, s) : s \in R[i - 1]}
  /\ \A v \in Vertex :
       vrp.ldt[d][w][v] = Max({-Never} \cup {s[2] : s \in {x \in R[N + 1] : x[1] = v}})

LEMMA CloseIs ==
  ASSUME Setting, NEW d, NEW w \in Vertex
  PROVE  CloseAt(d, w) \in Int
<1>1. vrp.lo[w] \in Int /\ vrp.hi[w] \in Int  BY FittingIs
<1>2. T \in Nat  BY SettingIs DEF Sane
<1> QED BY <1>1, <1>2 DEF CloseAt, Close

LEMMA TraceIs ==
  ASSUME Setting, NEW d \in Dir, NEW w \in Vertex
  PROVE  \E R, b : Traced(R, d, w, b) /\ b \in Int /\ -Never <= b
<1> DEFINE k == prob.net
           p == Prepare(Raw[k])
           legs == LegTable(p)
           X == Vertex
<1>1. k \in DOMAIN Raw
  BY LabelingAssumption DEF Setting, Posed
<1>2. vrp.lo = p.lo /\ vrp.hi = p.hi /\ vrp.legs = legs /\ vrp.ldt = LDTTable(p, legs)
  BY <1>1 DEF Setting, Prepared
<1>3. Close(p, d, w) = CloseAt(d, w)
  BY <1>2 DEF Close, CloseAt
<1> HIDE DEF p, legs
<1> DEFINE step(R) == UNION {{s} \cup Into(d, s) : s \in R}
           of(d1, w1) ==
             LET into(s) == UNION {{<<u, x[1]>> : x \in {y \in legs[d1][u][s[1]] : y[2] <= s[2]}} :
                              u \in Vertex}
                 reach[i \in 0..N + 1] == IF i = 0 THEN {<<w1, Close(p, d1, w1)>>}
                                  ELSE UNION {{s} \cup into(s) : s \in reach[i - 1]}
                 all == reach[N + 1]
             IN [v \in Vertex |-> Max({-Never} \cup {s[2] : s \in {x \in all : x[1] = v}})]
<1>4. LDTTable(p, legs) = [d1 \in Dir |-> [w1 \in Vertex |-> of(d1, w1)]]
  BY DEF LDTTable
<1> HIDE DEF of
<1>5. vrp.ldt[d][w] = of(d, w)
  BY <1>2, <1>4
<1> DEFINE reach[i \in 0..N + 1] == IF i = 0 THEN {<<w, Close(p, d, w)>>}
             ELSE UNION {{s} \cup UNION {{<<u, x[1]>> : x \in {y \in legs[d][u][s[1]] : y[2] <= s[2]}} :
                              u \in Vertex} : s \in reach[i - 1]}
           F(z) == z = [i \in 0..N + 1 |-> IF i = 0 THEN {<<w, Close(p, d, w)>>}
             ELSE UNION {{s} \cup UNION {{<<u, x[1]>> : x \in {y \in legs[d][u][s[1]] : y[2] <= s[2]}} :
                              u \in Vertex} : s \in z[i - 1]}]
<1>6. of(d, w) = [v \in Vertex |-> Max({-Never} \cup {s[2] : s \in {x \in reach[N + 1] : x[1] = v}})]
  BY DEF of
<1>7. reach = CHOOSE z : F(z)
  BY DEF reach, F
<1> HIDE DEF reach
<1>8. \A z : F(z) <=> z = [i \in 0..N + 1 |-> IF i = 0 THEN {<<w, CloseAt(d, w)>>} ELSE step(z[i - 1])]
  BY <1>2, <1>3 DEF Into
<1> HIDE DEF F
<1> DEFINE c == CloseAt(d, w)
           b == IF c >= T THEN c ELSE T
           Y == SUBSET (Vertex \X Below(b))
<1>9. /\ T \in Nat /\ c \in Int /\ b \in Int /\ -Never <= b /\ c <= b /\ T <= b /\ N \in Nat
      /\ 0..N + 1 = 0..N + 1
  <2>1. T \in Nat /\ Never \in Nat /\ N \in Nat  BY SettingIs DEF Sane
  <2>2. c \in Int  BY CloseIs
  <2> QED BY <2>1, <2>2
<1>10. \A s : s \in Vertex \X Int => Into(d, s) \subseteq Vertex \X Below(b)
  <2> SUFFICES ASSUME NEW s \in Vertex \X Int, NEW u \in Vertex, NEW e \in vrp.legs[d][u][s[1]]
               PROVE <<u, e[1]>> \in Vertex \X Below(b)
    BY DEF Into
  <2>1. s[1] \in Vertex  OBVIOUS
  <2> DEFINE v == s[1]
  <2>2. e \in Legs(d, <<u, v>>) /\ v \in Vertex  BY <2>1 DEF Legs
  <2> HIDE DEF v, b
  <2>3. e[1] \in Int /\ e[1] <= T  BY <2>2, LegTimes
  <2>4. e[1] \in Below(b)  BY <1>9, <2>3 DEF Below
  <2> QED BY <2>4
<1> HIDE DEF c, b
<1> DEFINE base == {<<w, c>>}
           G == [y \in (0 + 1..N + 1) \X Y |-> step(y[2])]
<1>11. base \in Y
  BY <1>9 DEF Below
<1>12. \A R \in Y : step(R) \in Y
  <2> SUFFICES ASSUME NEW R \in Y, NEW s \in R PROVE {s} \cup Into(d, s) \subseteq Vertex \X Below(b)
    OBVIOUS
  <2>1. s \in Vertex \X Below(b) /\ s \in Vertex \X Int  BY DEF Below
  <2> QED BY <1>10, <2>1
<1> HIDE DEF step, Y, base
<1>13. G \in [(0 + 1..N + 1) \X Y -> Y] /\ \A i \in 0 + 1..N + 1, R \in Y : G[<<i, R>>] = step(R)
  BY <1>12
<1> HIDE DEF G
<1>14. Recursive(0, N + 1, Y, base, G)
  BY <1>9, <1>11, <1>13 DEF Recursive
<1>15. PICK h : Unrolled(h, 0, N + 1, Y, base, G)
  BY <1>14, Recursion
<1>16. h \in [0..N + 1 -> Y] /\ h[0] = base /\ \A i \in 0 + 1..N + 1 : h[i] = G[<<i, h[i - 1]>>]
  BY <1>15 DEF Unrolled
<1>17. \A i \in 1..N + 1 : h[i] = step(h[i - 1])
  <2> SUFFICES ASSUME NEW i \in 1..N + 1 PROVE h[i] = step(h[i - 1])
    OBVIOUS
  <2>1. i \in 0 + 1..N + 1 /\ i - 1 \in 0..N + 1  BY <1>9
  <2>2. h[i - 1] \in Y  BY <1>16, <2>1
  <2> QED BY <1>13, <1>16, <2>1, <2>2
<1>18. F(h)
  <2>1. \A i \in 0..N + 1 : h[i] = IF i = 0 THEN base ELSE step(h[i - 1])
    <3>1. \A i \in 0..N + 1 : i = 0 \/ i \in 1..N + 1  BY <1>9
    <3> QED BY <1>16, <1>17, <3>1
  <2>2. h = [i \in 0..N + 1 |-> IF i = 0 THEN base ELSE step(h[i - 1])]  BY <1>16, <2>1
  <2> QED BY <1>8, <2>2 DEF base, c
<1>19. F(reach)
  BY <1>7, <1>18
<1>20. reach = h
  <2>0. reach = [i \in 0..N + 1 |-> IF i = 0 THEN base ELSE step(reach[i - 1])]
    BY <1>8, <1>19 DEF base, c
  <2>1. \A i \in 0..N + 1 : reach[i] = IF i = 0 THEN base ELSE step(reach[i - 1])
    <3> DEFINE g == [i \in 0..N + 1 |-> IF i = 0 THEN base ELSE step(reach[i - 1])]
    <3>1. \A i \in 0..N + 1 : g[i] = IF i = 0 THEN base ELSE step(reach[i - 1])  OBVIOUS
    <3>2. reach = g  BY <2>0
    <3> HIDE DEF g
    <3> QED BY <3>1, <3>2
  <2>2. DOMAIN reach = 0..N + 1 /\ reach = [i \in 0..N + 1 |-> reach[i]]
    <3> DEFINE g == [i \in 0..N + 1 |-> IF i = 0 THEN base ELSE step(reach[i - 1])]
    <3>1. DOMAIN g = 0..N + 1 /\ g = [i \in 0..N + 1 |-> g[i]]  OBVIOUS
    <3>2. reach = g  BY <2>0
    <3> HIDE DEF g
    <3> QED BY <3>1, <3>2
  <2> DEFINE S == {i \in 0..N + 1 : reach[i] = h[i]}
  <2>3. 0 \in S
    <3>1. 0 \in 0..N + 1  BY <1>9
    <3>2. reach[0] = base  BY <2>1, <3>1
    <3> QED BY <1>16, <3>1, <3>2
  <2>4. ASSUME NEW i \in 0..(N + 1) - 1, i \in S PROVE i + 1 \in S
    <3> DEFINE j == i + 1
    <3>1. j \in 0..N + 1 /\ j # 0 /\ j - 1 = i /\ j \in 1..N + 1  BY <1>9
    <3> HIDE DEF j
    <3>2. reach[j] = step(reach[i]) /\ h[j] = step(h[i])  BY <1>17, <2>1, <3>1
    <3>3. reach[i] = h[i]  BY <2>4
    <3>4. reach[j] = h[j]  BY <3>2, <3>3
    <3> QED BY <3>1, <3>4 DEF j
  <2>5. 0 \in Int /\ N + 1 \in Int /\ 0 <= N + 1 /\ \A i \in 0..(N + 1) - 1 : i \in S => i + 1 \in S  BY <1>9, <2>4
  <2> HIDE DEF S
  <2>6. 0..N + 1 \subseteq S  BY <2>3, <2>5, Induction
  <2> QED BY <1>16, <2>2, <2>6 DEF S
<1>21. \A v \in Vertex : vrp.ldt[d][w][v] = Max({-Never} \cup {s[2] : s \in {x \in h[N + 1] : x[1] = v}})
  BY <1>5, <1>6, <1>20
<1>22. Traced(h, d, w, b)
  BY <1>16, <1>17, <1>21 DEF Traced, Y, base, c, step
<1> QED BY <1>9, <1>22

LEMMA TraceGrows ==
  ASSUME Setting, NEW R, NEW d, NEW w, NEW b, Traced(R, d, w, b), NEW m \in 0..N + 1
  PROVE  R[m] \subseteq R[N + 1]
<1>0. N \in Nat  BY SettingIs DEF Sane
<1> DEFINE n == N + 1
           S == {i \in m..n : R[m] \subseteq R[i]}
<1>1. m \in Int /\ n \in Int /\ m <= n /\ m \in S  BY <1>0
<1>2. ASSUME NEW i \in m..n - 1, i \in S PROVE i + 1 \in S
  <2> DEFINE j == i + 1
  <2>1. j \in 1..n /\ j \in m..n /\ j - 1 = i  BY <1>0
  <2> HIDE DEF j
  <2>2. R[j] = UNION {{s} \cup Into(d, s) : s \in R[i]}  BY <2>1 DEF Traced
  <2>3. R[i] \subseteq R[j]  BY <2>2
  <2>4. j \in S  BY <1>2, <2>1, <2>3
  <2> QED BY <2>4 DEF j
<1>3. \A i \in m..n - 1 : i \in S => i + 1 \in S  BY <1>2
<1> HIDE DEF S, n
<1>4. m..n \subseteq S  BY <1>1, <1>3, Induction
<1> QED BY <1>1, <1>4 DEF S, n

(* Along legs one can take in time, the latest departure is not missed. *)
LEMMA LdtReaches ==
  ASSUME Setting, NEW d \in Dir, NEW path \in Seq(Vertex), NEW at,
         \A i \in 1..Len(path) : at[i] \subseteq Int,
         \A i \in 1..Len(path) - 1 : \A t \in at[i + 1] :
            \E u \in at[i] : <<u, t>> \in Legs(d, <<path[i], path[i + 1]>>),
         NEW j \in 1..Len(path), NEW k \in 1..j, j - k <= N + 1,
         \E u \in at[j] : u <= CloseAt(d, path[j])
  PROVE  /\ vrp.ldt[d][path[j]][path[k]] \in Int
         /\ \E u \in at[k] : u <= vrp.ldt[d][path[j]][path[k]]
<1> DEFINE w == path[j]
<1>0. N \in Nat /\ Never \in Nat /\ Len(path) \in Nat /\ \A i \in 1..Len(path) : path[i] \in Vertex
  BY SettingIs, ElementOfSeq DEF Sane
<1>1. w \in Vertex  BY <1>0
<1> HIDE DEF w
<1>2. PICK R, b : Traced(R, d, w, b) /\ b \in Int /\ -Never <= b
  BY <1>1, TraceIs
<1> DEFINE z == j - k
           S == {m \in 0..z : \E u \in at[j - m] : \E t \in Int : <<path[j - m], t>> \in R[m] /\ u <= t}
<1>3. z \in Int /\ 0 <= z /\ z <= N + 1 /\ 0 \in Int
  BY <1>0
<1>4. 0 \in S
  <2>1. PICK u \in at[j] : u <= CloseAt(d, path[j])  OBVIOUS
  <2>2. CloseAt(d, w) \in Int  BY <1>1, CloseIs
  <2>3. <<w, CloseAt(d, w)>> \in R[0]  BY <1>2 DEF Traced
  <2>4. j - 0 = j /\ 0 \in 0..z  BY <1>0, <1>3
  <2> HIDE DEF z
  <2>5. \E u1 \in at[j] : \E t \in Int : <<path[j], t>> \in R[0] /\ u1 <= t
    BY <2>1, <2>2, <2>3 DEF w
  <2> QED BY <2>4, <2>5
<1>5. ASSUME NEW m \in 0..z - 1, m \in S PROVE m + 1 \in S
  <2> DEFINE m1 == m + 1
             g == j - m
             h == j - m1
  <2>1. /\ m1 \in 1..N + 1 /\ m1 \in 0..z /\ m1 - 1 = m /\ g \in 1..Len(path) /\ h \in 1..Len(path) - 1
        /\ h + 1 = g /\ h \in 1..Len(path)
    BY <1>0, <1>3
  <2>2. PICK u \in at[g], t \in Int : <<path[g], t>> \in R[m] /\ u <= t
    BY <1>5
  <2> HIDE DEF m1, g, h, z
  <2>3. PICK u1 \in at[h] : <<u1, u>> \in Legs(d, <<path[h], path[g]>>)
    BY <2>1, <2>2
  <2> DEFINE s == <<path[g], t>>
             v == path[h]
             e == <<u1, u>>
  <2>4. e \in vrp.legs[d][v][s[1]] /\ e[2] <= s[2] /\ e[1] = u1 /\ v \in Vertex
    BY <1>0, <2>1, <2>2, <2>3 DEF Legs
  <2>5. <<v, e[1]>> \in Into(d, s)
    <3> HIDE DEF s, v, e
    <3> QED BY <2>4 DEF Into
  <2>6. R[m1] = UNION {{r} \cup Into(d, r) : r \in R[m]}  BY <1>2, <2>1 DEF Traced
  <2>7. <<v, u1>> \in R[m1]
    <3>1. s \in R[m]  BY <2>2
    <3> HIDE DEF s, v, e
    <3>2. <<v, e[1]>> \in R[m1]  BY <2>5, <2>6, <3>1
    <3> QED BY <2>4, <3>2
  <2>8. u1 \in Int /\ u1 <= u1  BY <2>1, <2>3
  <2>9. m1 \in S  BY <2>1, <2>3, <2>7, <2>8 DEF h
  <2> QED BY <2>9 DEF m1
<1>6. \A m \in 0..z - 1 : m \in S => m + 1 \in S  BY <1>5
<1> HIDE DEF S
<1>7. z \in S
  <2> HIDE DEF z
  <2>1. 0..z \subseteq S  BY <1>3, <1>4, <1>6, Induction
  <2> QED BY <1>3, <2>1
<1>8. PICK u \in at[j - z], t \in Int : <<path[j - z], t>> \in R[z] /\ u <= t
  BY <1>7 DEF S
<1>9. j - z = k  BY <1>0
<1> HIDE DEF z
<1> DEFINE v == path[k]
           Z == {-Never} \cup {s[2] : s \in {x \in R[N + 1] : x[1] = v}}
<1>10. <<v, t>> \in R[N + 1]
  <2>1. z \in 0..N + 1  BY <1>0, <1>3
  <2>2. R[z] \subseteq R[N + 1]  BY <1>2, <2>1, TraceGrows
  <2> QED BY <1>8, <1>9, <2>2
<1>11. t \in Z
  <2>1. <<v, t>>[1] = v /\ <<v, t>>[2] = t  OBVIOUS
  <2> QED BY <1>10, <2>1
<1>12. Z \subseteq Int /\ Z # {} /\ \A x \in Z : x <= b
  <2>1. R[N + 1] \subseteq Vertex \X Below(b)
    <3>1. N + 1 \in 0..N + 1  BY <1>0
    <3> QED BY <1>2, <3>1 DEF Traced
  <2> QED BY <1>0, <1>2, <1>11, <2>1 DEF Below
<1>13. vrp.ldt[d][w][v] = Max(Z)
  <2>1. v \in Vertex
    <3>1. k \in 1..Len(path)  BY <1>0
    <3> QED BY <1>0, <3>1
  <2> QED BY <1>2, <2>1 DEF Traced
<1> HIDE DEF Z
<1>14. Max(Z) \in Z /\ t <= Max(Z)
  BY <1>2, <1>11, <1>12, MaxIs
<1>15. u \in Int /\ Max(Z) \in Int /\ u <= Max(Z)
  <2>1. k \in 1..Len(path)  BY <1>0
  <2>2. u \in Int  BY <1>8, <1>9, <2>1
  <2> DEFINE g == Max(Z)
  <2>3. g \in Int /\ t <= g  BY <1>12, <1>14
  <2>4. u <= t  BY <1>8
  <2> HIDE DEF g
  <2>5. u <= g  BY <2>2, <2>3, <2>4
  <2> QED BY <2>2, <2>3, <2>5 DEF g
<1> QED BY <1>8, <1>9, <1>13, <1>15 DEF w

-----------------------------------------------------------------------------
(* A path the other way round, and its first part. *)
LEMMA ReverseIs ==
  ASSUME NEW o \in Seq(Vertex), NEW r, r = Reverse(o)
  PROVE  /\ r \in Seq(Vertex) /\ Len(r) = Len(o) /\ Range(r) = Range(o)
         /\ \A j \in 1..Len(o) : r[j] = o[Len(o) + 1 - j]
         /\ IsInjective(o) => IsInjective(r)
<1> DEFINE n == Len(o)
<1>1. n \in Nat /\ DOMAIN o = 1..n  OBVIOUS
<1>2. r = [j \in 1..n |-> o[(n - j) + 1]]  BY DEF Reverse
<1>3. \A j \in 1..n : (n - j) + 1 \in 1..n /\ (n - j) + 1 = n + 1 - j  BY <1>1
<1>4. \A j \in 1..n : o[n + 1 - j] \in Vertex  BY <1>1, <1>3, ElementOfSeq
<1>5. r = [j \in 1..n |-> o[n + 1 - j]]  BY <1>2, <1>3
<1> HIDE DEF n
<1>6. r \in [1..n -> Vertex] /\ \A j \in 1..n : r[j] = o[n + 1 - j]  BY <1>4, <1>5
<1>7. r \in Seq(Vertex) /\ Len(r) = n /\ DOMAIN r = 1..n  BY <1>1, <1>6
<1>8. Range(r) = Range(o)
  <2>1. \A j \in 1..n : n + 1 - j \in 1..n /\ n + 1 - (n + 1 - j) = j  BY <1>1
  <2>2. Range(r) = {r[j] : j \in 1..n} /\ Range(o) = {o[j] : j \in 1..n}
    BY <1>1, <1>7 DEF Range, n
  <2>3. \A j \in 1..n : r[j] \in Range(o)  BY <1>6, <2>1, <2>2
  <2>4. \A j \in 1..n : o[j] \in Range(r)
    <3> SUFFICES ASSUME NEW j \in 1..n PROVE o[j] \in Range(r)  OBVIOUS
    <3> DEFINE m == n + 1 - j
    <3>1. m \in 1..n /\ n + 1 - m = j  BY <2>1
    <3> HIDE DEF m
    <3>2. r[m] = o[j]  BY <1>6, <3>1
    <3> QED BY <2>2, <3>1, <3>2
  <2> QED BY <2>2, <2>3, <2>4
<1>9. IsInjective(o) => IsInjective(r)
  <2>1. \A i, j \in 1..n : n + 1 - i \in 1..n /\ n + 1 - j \in 1..n /\ (n + 1 - i = n + 1 - j => i = j)  BY <1>1
  <2>2. SUFFICES ASSUME IsInjective(o), NEW i \in 1..n, NEW j \in 1..n, r[i] = r[j] PROVE i = j
    BY <1>7 DEF IsInjective
  <2>3. o[n + 1 - i] = o[n + 1 - j]  BY <1>6, <2>2
  <2>4. n + 1 - i = n + 1 - j  BY <1>1, <2>1, <2>2, <2>3 DEF IsInjective
  <2> QED BY <2>1, <2>4
<1> QED BY <1>6, <1>7, <1>8, <1>9 DEF n

LEMMA PrefixIs ==
  ASSUME NEW path \in Seq(Vertex), NEW k \in 0..Len(path), NEW a, a = SubSeq(path, 1, k)
  PROVE  /\ a \in Seq(Vertex) /\ Len(a) = k /\ \A i \in 1..k : a[i] = path[i]
         /\ Range(a) \subseteq Range(path)
         /\ IsInjective(path) => IsInjective(a)
<1>1. Len(path) \in Nat /\ 1 \in 1..Len(path) + 1 /\ DOMAIN path = 1..Len(path)  OBVIOUS
<1>2. /\ SubSeq(path, 1, k) \in Seq(Vertex)
      /\ Len(SubSeq(path, 1, k)) = IF 1 <= k THEN k - 1 + 1 ELSE 0
      /\ \A i \in 1..k - 1 + 1 : SubSeq(path, 1, k)[i] = path[1 + i - 1]
  BY ONLY path \in Seq(Vertex), k \in 0..Len(path), <1>1, Stretch
<1>3. /\ (IF 1 <= k THEN k - 1 + 1 ELSE 0) = k /\ k - 1 + 1 = k
      /\ \A i \in 1..k : 1 + i - 1 = i /\ i \in 1..Len(path)
  BY <1>1
<1>4. a \in Seq(Vertex) /\ Len(a) = k /\ \A i \in 1..k : a[i] = path[i]
  BY <1>2, <1>3
<1>5. DOMAIN a = 1..k  BY <1>4
<1>6. Range(a) \subseteq Range(path)  BY <1>1, <1>3, <1>4, <1>5 DEF Range
<1>7. IsInjective(path) => IsInjective(a)  BY <1>1, <1>3, <1>4, <1>5 DEF IsInjective
<1> QED BY <1>4, <1>6, <1>7

LEMMA PartLoad ==
  ASSUME Setting, NEW path \in Seq(Vertex), IsInjective(path), NEW a \in Seq(Vertex), IsInjective(a),
         Range(a) \subseteq Range(path), Along(Loads(prob), path) <= Raw[prob.net].room
  PROVE  Along(Loads(prob), a) <= Raw[prob.net].room
<1> DEFINE f == Loads(prob)
           raw == Raw[prob.net]
<1>0. N \in Nat \ {0} /\ Sane(raw) /\ raw.room \in Nat /\ prob \in Problem
  BY SettingIs DEF Sane, Setting, Proper
<1>1. f \in [Vertex -> Int] /\ \A w \in Vertex : 0 <= f[w]
  <2>1. f \in [Vertex -> Int] /\ \A w \in Vertex : f[w] = raw.load[w]  BY <1>0, SumFunctions DEF Loads
  <2>2. \A w \in Vertex : raw.load[w] \in Nat  BY <1>0 DEF Sane, Proper
  <2> QED BY <2>1, <2>2
<1> HIDE DEF f, raw
<1>2. Along(f, a) <= Along(f, path)
  BY ONLY <1>0, <1>1, path \in Seq(Vertex), IsInjective(path), a \in Seq(Vertex), IsInjective(a),
          Range(a) \subseteq Range(path), SumSubset
<1>3. Along(f, a) \in Int /\ Along(f, path) \in Int  BY <1>1, SumInt
<1>4. Along(f, path) <= raw.room  BY DEF f, raw
<1> QED BY <1>0, <1>2, <1>3, <1>4 DEF f, raw

(* A course but for dominance and the detours over the depot. *)
Outline(C) ==
  /\ C.d \in Dir /\ C.path \in Seq(Vertex) /\ Len(C.path) >= 3 /\ IsInjective(C.path)
  /\ C.path[1] = From(C.d) /\ C.path[Len(C.path)] = To(C.d)
  /\ C.from \in Int /\ C.at[1] = {C.from} /\ C.from \in OpenAt(C.d, From(C.d))..CloseAt(C.d, From(C.d))
  /\ \A k \in 1..Len(C.path) : C.at[k] # {} /\ C.at[k] \subseteq 0..T /\ Reached(C, k)
  /\ \A k \in 1..Len(C.path) - 1 : Leading(C, k)
  /\ \E t \in C.at[Len(C.path)] :
       t - C.from - Along(Profits(prob), C.path) - CutCost(Along(Counts(prob), C.path)) < 0

(* In either direction, what is left to show. *)
Legged(C) ==
  /\ C.d \in Dir /\ C.path \in Seq(Vertex) /\ Len(C.path) <= N + 2
  /\ \A k \in 1..Len(C.path) : C.at[k] \subseteq 0..T /\ \E u \in C.at[k] : u <= CloseAt(C.d, C.path[k])
  /\ \A k \in 1..Len(C.path) - 1 : \A t \in C.at[k + 1] :
       \E u \in C.at[k] : <<u, t>> \in Legs(C.d, <<C.path[k], C.path[k + 1]>>)

LEMMA LeggedReached ==
  ASSUME Setting, NEW C, Legged(C), NEW k \in 1..Len(C.path)
  PROVE  Reached(C, k)
<1>0. N \in Nat /\ T \in Nat /\ Len(C.path) \in Nat /\ Len(C.path) <= N + 2
  BY SettingIs DEF Sane, Legged
<1>1. SUFFICES ASSUME NEW j \in k + 1..Len(C.path)
               PROVE  /\ vrp.ldt[C.d][C.path[j]][C.path[k]] \in Int
                      /\ \E u \in C.at[k] : u <= vrp.ldt[C.d][C.path[j]][C.path[k]]
  BY DEF Reached
<1>2. j \in 1..Len(C.path) /\ k \in 1..j /\ j - k <= N + 1
  BY <1>0
<1> DEFINE d == C.d
           path == C.path
           at == C.at
<1>3. /\ d \in Dir /\ path \in Seq(Vertex) /\ \A i \in 1..Len(path) : at[i] \subseteq Int
      /\ \A i \in 1..Len(path) - 1 : \A t \in at[i + 1] :
            \E u \in at[i] : <<u, t>> \in Legs(d, <<path[i], path[i + 1]>>)
      /\ j \in 1..Len(path) /\ k \in 1..j /\ j - k <= N + 1
      /\ \E u \in at[j] : u <= CloseAt(d, path[j])
  <2>1. d \in Dir /\ path \in Seq(Vertex)  BY DEF Legged
  <2>2. \A i \in 1..Len(path) : at[i] \subseteq Int
    <3>1. \A i \in 1..Len(path) : at[i] \subseteq 0..T  BY DEF Legged
    <3> QED BY <1>0, <3>1
  <2>3. \A i \in 1..Len(path) - 1 : \A t \in at[i + 1] :
            \E u \in at[i] : <<u, t>> \in Legs(d, <<path[i], path[i + 1]>>)
    BY DEF Legged
  <2>4. \E u \in at[j] : u <= CloseAt(d, path[j])  BY <1>2 DEF Legged
  <2> QED BY <1>2, <2>1, <2>2, <2>3, <2>4
<1> HIDE DEF d, path, at
<1>4. /\ vrp.ldt[d][path[j]][path[k]] \in Int
      /\ \E u \in at[k] : u <= vrp.ldt[d][path[j]][path[k]]
  BY ONLY Setting, <1>3, LdtReaches
<1> QED BY <1>4 DEF d, path, at

-----------------------------------------------------------------------------
(* What a sketch says, stop by stop. *)
Halt(o, x, y, i) ==
  /\ o[i] \in Vertex /\ x[i] \in 0..T /\ y[i] \in 0..T /\ x[i] \in Int /\ y[i] \in Int
  /\ x[i] <= y[i] /\ vrp.lo[o[i]] <= y[i] /\ y[i] <= vrp.hi[o[i]]
  /\ vrp.lo[o[i]] \in Int /\ vrp.hi[o[i]] \in Int
  /\ Fits(Raw[prob.net], o[i], x[i]) /\ Fits(Raw[prob.net], o[i], y[i])

Lap(o, x, y, i) ==
  /\ i \in 1..Len(o) /\ i + 1 \in 1..Len(o) /\ x[i] <= x[i + 1]
  /\ <<o[i], o[i + 1]>> \in vrp.arcs /\ <<o[i], o[i + 1]>> \notin prob.A
  /\ Linked(vrp, <<o[i], o[i + 1]>>, x[i], x[i + 1])
  /\ Drives(<<o[i], o[i + 1]>>, x[i], x[i + 1])
  /\ \A t \in x[i]..y[i] : \E w \in x[i + 1]..y[i + 1] : Linked(vrp, <<o[i], o[i + 1]>>, t, w)

Outset(o, x, y) ==
  /\ o \in Path /\ o \in Seq(Vertex) /\ Len(o) \in Nat /\ Len(o) >= 3 /\ Len(o) <= N + 2 /\ IsInjective(o)
  /\ o[1] = Start /\ o[Len(o)] = End /\ Along(Loads(prob), o) <= Raw[prob.net].room
  /\ x[1] \in vrp.lo[Start]..vrp.hi[Start] /\ x[Len(o)] \in vrp.lo[End]..vrp.hi[End]
  /\ y[Len(o)] = x[Len(o)] /\ x[Len(o)] - x[1] = Checked(o)
  /\ x \in [1..Len(o) -> 0..T] /\ y \in [1..Len(o) -> 0..T] /\ T \in Nat

LEMMA SketchParts ==
  ASSUME Setting, NEW o, NEW x, NEW y, Sketch(o, x, y)
  PROVE  /\ Outset(o, x, y)
         /\ \A i \in 1..Len(o) : Halt(o, x, y, i)
         /\ \A i \in 1..Len(o) - 1 : Lap(o, x, y, i)
<1> DEFINE n == Len(o)
           raw == Raw[prob.net]
<1>0. N \in Nat \ {0} /\ T \in Nat /\ Sane(raw)  BY SettingIs DEF Sane
<1>s. /\ o \in Path /\ Along(Loads(prob), o) <= raw.room
      /\ Ride(o, x) /\ x[1] \in Window /\ x[n] - x[1] = Checked(o)
      /\ y = Waited(o, x) /\ Slack(o, x, y)
      /\ \A i \in 1..n : y[i] <= vrp.hi[o[i]]
      /\ Roads(vrp, prob.A, 0, o)
  BY DEF Sketch
<1>1. /\ o \in Seq(Vertex) /\ n \in Nat /\ n >= 3 /\ n <= N + 2 /\ IsInjective(o)
      /\ o[1] = Start /\ o[n] = End
  BY <1>0, <1>s, PathShape
<1>2. /\ x \in [1..n -> 0..T] /\ \A i \in 1..n : Fits(raw, o[i], x[i])
      /\ \A i \in 1..n - 1 : x[i] <= x[i + 1] /\ Drives(<<o[i], o[i + 1]>>, x[i], x[i + 1])
  BY <1>s, RideIs
<1>3. /\ y \in [1..n -> Int] /\ y[n] = x[n] /\ \A i \in 1..n : x[i] <= y[i]
      /\ \A i \in 1..n - 1 : \E w \in Int : Drives(<<o[i], o[i + 1]>>, y[i], w) /\ w <= y[i + 1]
  BY <1>s DEF Slack
<1>4. \A v \in Vertex : /\ vrp.lo[v] \in Int /\ vrp.hi[v] \in Int /\ Fits(raw, v, vrp.lo[v])
                        /\ Fits(raw, v, vrp.hi[v])
  BY FittingIs
<1>5. \A i \in 1..n : o[i] \in Vertex  BY <1>1, ElementOfSeq
<1>6. \A i \in 1..n : y[i] = IF x[i] >= vrp.lo[o[i]] THEN x[i] ELSE vrp.lo[o[i]]
  BY <1>s DEF Waited
<1>7. \A i \in 1..n - 1 : i \in 1..n /\ i + 1 \in 1..n  BY <1>1
<1>8. \A i \in 1..n - 1 : <<o[i], o[i + 1]>> \in vrp.arcs /\ <<o[i], o[i + 1]>> \notin prob.A
  BY <1>s DEF Roads, Way
<1> HIDE DEF n, raw
<1>9. \A i \in 1..n : y[i] \in 0..T
  <2> SUFFICES ASSUME NEW i \in 1..n PROVE y[i] \in 0..T  OBVIOUS
  <2>1. CASE i = n  BY <1>1, <1>2, <1>3, <2>1
  <2>2. CASE i # n
    <3>1. i \in 1..n - 1  BY <1>1, <2>2
    <3>2. PICK w \in Int : Drives(<<o[i], o[i + 1]>>, y[i], w)  BY <1>3, <3>1
    <3> QED BY <3>2, DrivesIs
  <2> QED BY <2>1, <2>2
<1>10. ASSUME NEW i \in 1..n PROVE Halt(o, x, y, i)
  <2>1. o[i] \in Vertex /\ x[i] \in 0..T /\ y[i] \in 0..T /\ x[i] \in Int /\ y[i] \in Int
    BY <1>0, <1>2, <1>5, <1>9
  <2>2. vrp.lo[o[i]] \in Int /\ vrp.hi[o[i]] \in Int  BY <1>4, <2>1
  <2>3. x[i] <= y[i] /\ y[i] <= vrp.hi[o[i]]  BY <1>3, <1>s DEF n
  <2>4. vrp.lo[o[i]] <= y[i]  BY <1>6, <2>1, <2>2
  <2>5. Fits(raw, o[i], x[i]) /\ Fits(raw, o[i], y[i])  BY <1>2, <1>4, <1>6, <2>1
  <2> QED BY <2>1, <2>2, <2>3, <2>4, <2>5 DEF Halt, raw
<1>11. ASSUME NEW i \in 1..n - 1 PROVE Lap(o, x, y, i)
  <2> DEFINE a == <<o[i], o[i + 1]>>
             j == i + 1
  <2>1. i \in 1..n /\ j \in 1..n /\ a \in vrp.arcs /\ a \notin prob.A /\ x[i] <= x[j] /\ a[1] = o[i] /\ a[2] = o[j]
        /\ Drives(a, x[i], x[j])
    BY <1>2, <1>7, <1>8
  <2>2. PICK w0 \in Int : Drives(a, y[i], w0) /\ w0 <= y[j]  BY <1>3
  <2> HIDE DEF a, j
  <2>3. \A u, z : Drives(a, u, z) <=> Linked(vrp, a, u, z)  BY <2>1, DrivesLinked
  <2>4. Halt(o, x, y, i) /\ Halt(o, x, y, j)  BY <1>10, <2>1
  <2>5. /\ x[i] \in Int /\ y[i] \in Int /\ x[j] \in Int /\ y[j] \in Int
        /\ Fits(raw, o[i], x[i]) /\ Fits(raw, o[i], y[i])
    BY <2>4 DEF Halt, raw
  <2>6. \A t \in x[i]..y[i] : \E w \in x[j]..y[j] : Linked(vrp, a, t, w)
    <3> SUFFICES ASSUME NEW t \in x[i]..y[i] PROVE \E w \in x[j]..y[j] : Linked(vrp, a, t, w)
      OBVIOUS
    <3>1. t \in Int /\ x[i] <= t /\ t <= y[i]  BY <2>5
    <3>2. Fits(raw, a[1], t)
      <4>1. Frame(raw, Loadable(raw), Carried(raw), Shifted(raw, raw.lo), Shifted(raw, raw.hi))
        BY <1>0, FrameIs
      <4>2. o[i] \in Vertex  BY <1>5, <2>1
      <4> DEFINE lo == Shifted(raw, raw.lo)[o[i]]
                 hi == Shifted(raw, raw.hi)[o[i]]
      <4>3. lo \in Int /\ hi \in Int /\ \A z : Fits(raw, o[i], z) <=> z \in Int /\ lo <= z /\ z <= hi
        BY <4>1, <4>2 DEF Frame
      <4> HIDE DEF lo, hi
      <4>4. lo <= x[i] /\ y[i] <= hi  BY <2>5, <4>3
      <4>5. lo <= t /\ t <= hi  BY <2>5, <3>1, <4>3, <4>4
      <4> QED BY <2>1, <3>1, <4>3, <4>5
    <3>3. PICK w : Drives(a, t, w) /\ w <= w0
      <4>1. \A u : Fits(raw, a[1], u) /\ u <= y[i] => \E v : Drives(a, u, v) /\ v <= w0
        BY <2>2, DrivesIs DEF raw
      <4> QED BY <3>1, <3>2, <4>1
    <3>4. w \in Int  BY <3>3, DrivesIs
    <3>5. x[j] <= w
      <4>1. \A u : Fits(raw, a[1], u) /\ u <= t => \E v : Drives(a, u, v) /\ v <= w
        BY <3>3, DrivesIs DEF raw
      <4>2. PICK v : Drives(a, x[i], v) /\ v <= w  BY <2>1, <2>5, <3>1, <4>1
      <4>3. v = x[j]
        <5>1. \A z : Drives(a, x[i], z) => z = x[j]  BY <2>1, DrivesIs
        <5> QED BY <4>2, <5>1
      <4> QED BY <4>2, <4>3
    <3>6. w <= y[j]  BY <2>2, <2>5, <3>3, <3>4
    <3>7. w \in x[j]..y[j]  BY <2>5, <3>4, <3>5, <3>6
    <3> QED BY <2>3, <3>3, <3>7
  <2>7. Linked(vrp, a, x[i], x[j])  BY <2>1, <2>3
  <2> QED BY <2>1, <2>6, <2>7 DEF Lap, a, j, n
<1>12. Outset(o, x, y)
  <2>1. x[1] \in vrp.lo[Start]..vrp.hi[Start]
    <3>1. vrp.lo[Start] = raw.lo[Start] /\ vrp.hi[Start] = raw.hi[Start]  BY SettingIs DEF Ready, raw
    <3> QED BY <1>s, <3>1 DEF Window, raw
  <2>2. x[n] \in vrp.lo[End]..vrp.hi[End]
    <3>1. n \in 1..n /\ o[n] = End  BY <1>1
    <3>2. Halt(o, x, y, n)  BY <1>10, <3>1
    <3> QED BY <1>3, <3>1, <3>2 DEF Halt
  <2>3. y \in [1..n -> 0..T]
    <3>1. y = [i \in 1..n |-> y[i]]  BY <1>3
    <3> QED BY <1>9, <3>1
  <2> QED BY <1>0, <1>1, <1>2, <1>3, <1>s, <2>1, <2>2, <2>3 DEF Outset, n, raw
<1> QED BY <1>10, <1>11, <1>12 DEF n

-----------------------------------------------------------------------------
(* The route forward, at the times of its ride; and backward, at any time until which one
   may wait. *)
Fore(o, x) ==
  [d |-> 0, path |-> o, at |-> [i \in 1..Len(o) |-> {x[i]}], from |-> x[1],
   gate |-> [i \in 1..Len(o) - 1 |-> x[i + 1]]]

Aft(o, x, y) ==
  [d |-> 1, path |-> Reverse(o),
   at |-> [k \in 1..Len(o) |-> {T - t : t \in x[Len(o) + 1 - k]..y[Len(o) + 1 - k]}],
   from |-> T - x[Len(o)],
   gate |-> [k \in 1..Len(o) - 1 |-> T - x[Len(o) + 1 - k]]]

LEMMA ForeOutline ==
  ASSUME Setting, NEW o, NEW x, NEW y, Sketch(o, x, y), ReducedCost(o) < 0
  PROVE  Outline(Fore(o, x))
<1> DEFINE n == Len(o)
           C == Fore(o, x)
<1>1. Outset(o, x, y) /\ \A i \in 1..n : Halt(o, x, y, i)  BY SketchParts
<1>l. \A i \in 1..n - 1 : Lap(o, x, y, i)  BY SketchParts
<1>2. /\ C.d = 0 /\ C.path = o /\ C.from = x[1] /\ Len(C.path) = n
      /\ C.at = [i \in 1..n |-> {x[i]}] /\ C.gate = [i \in 1..n - 1 |-> x[i + 1]]
  BY DEF Fore
<1> HIDE DEF C
<1>3. /\ n \in Nat /\ n >= 3 /\ n <= N + 2 /\ o \in Seq(Vertex) /\ IsInjective(o) /\ o[1] = Start /\ o[n] = End
      /\ x \in [1..n -> 0..T] /\ T \in Nat /\ Along(Loads(prob), o) <= Raw[prob.net].room
  BY <1>1 DEF Outset
<1> HIDE DEF n
<1>4. \A i \in 1..n : C.at[i] = {x[i]} /\ x[i] \in 0..T /\ x[i] \in Int
  <2>1. \A i \in 1..n : C.at[i] = {x[i]}  BY <1>2
  <2>2. \A i \in 1..n : x[i] \in 0..T  BY <1>3
  <2>3. \A t \in 0..T : t \in Int  BY <1>3
  <2> QED BY <2>1, <2>2, <2>3
<1>5. \A i \in 1..n - 1 : C.gate[i] = x[i + 1] /\ i \in 1..n /\ i + 1 \in 1..n  BY <1>2, <1>3
<1>6. \A i \in 1..n - 1 : \A t \in C.at[i + 1] :
        \E u \in C.at[i] : <<u, t>> \in Legs(C.d, <<C.path[i], C.path[i + 1]>>)
  <2> SUFFICES ASSUME NEW i \in 1..n - 1, NEW t \in C.at[i + 1]
               PROVE \E u \in C.at[i] : <<u, t>> \in Legs(C.d, <<C.path[i], C.path[i + 1]>>)
    OBVIOUS
  <2>0. i \in 1..n /\ i + 1 \in 1..n  BY <1>5
  <2>1. Linked(vrp, <<o[i], o[i + 1]>>, x[i], x[i + 1])  BY <1>l DEF Lap
  <2>2. o[i] \in Vertex /\ o[i + 1] \in Vertex  BY <1>3, <2>0, ElementOfSeq DEF n
  <2>3. <<x[i], x[i + 1]>> \in Legs(0, <<o[i], o[i + 1]>>)  BY <2>1, <2>2, LinkedLegs
  <2>4. C.at[i] = {x[i]} /\ C.at[i + 1] = {x[i + 1]}  BY <1>4, <2>0
  <2>5. t = x[i + 1] /\ x[i] \in C.at[i]  BY <2>4
  <2> QED BY <1>2, <2>3, <2>5
<1>7. Legged(C)
  <2>1. 0 \in Dir  BY DEF Dir
  <2>2. \A i \in 1..n : \E u \in C.at[i] : u <= CloseAt(C.d, C.path[i])
    <3> SUFFICES ASSUME NEW i \in 1..n PROVE x[i] <= CloseAt(0, o[i])  BY <1>2, <1>4
    <3>1. Halt(o, x, y, i)  BY <1>1
    <3>2. x[i] <= vrp.hi[o[i]]  BY <3>1 DEF Halt
    <3> QED BY <3>2 DEF CloseAt, Close
  <2>3. \A i \in 1..n : C.at[i] \subseteq 0..T  BY <1>4
  <2> QED BY <1>2, <1>3, <1>6, <2>1, <2>2, <2>3 DEF Legged
<1>8. \A k \in 1..n : Reached(C, k)  BY <1>2, <1>7, LeggedReached
<1>9. ASSUME NEW k \in 1..n - 1 PROVE Leading(C, k)
  <2>1. Way(C.d, C.path[k], C.path[k + 1]) \notin prob.A
    <3>1. Lap(o, x, y, k)  BY <1>l
    <3> QED BY <1>2, <3>1 DEF Way, Lap
  <2>2. Along(Loads(prob), SubSeq(C.path, 1, k + 1)) <= Raw[prob.net].room
    <3> DEFINE m == k + 1
               a == SubSeq(o, 1, m)
    <3>1. m \in 0..Len(o) /\ o \in Seq(Vertex) /\ IsInjective(o)  BY <1>3 DEF n
    <3> HIDE DEF a, m
    <3>a. a = SubSeq(o, 1, m)  BY DEF a
    <3>2. a \in Seq(Vertex) /\ Range(a) \subseteq Range(o) /\ IsInjective(a)  BY ONLY <3>1, <3>a, PrefixIs
    <3> HIDE DEF a
    <3>3. Along(Loads(prob), a) <= Raw[prob.net].room  BY <1>3, <3>2, PartLoad
    <3> QED BY <1>2, <3>3 DEF a, m
  <2>3. C.gate[k] \in Int /\ \E u \in C.at[k] : u <= C.gate[k]
    <3>1. Lap(o, x, y, k)  BY <1>l
    <3>2. x[k] <= x[k + 1]  BY <3>1 DEF Lap
    <3> QED BY <1>4, <1>5, <3>2
  <2>4. \A t \in C.at[k + 1] : t <= C.gate[k]
    <3>1. x[k + 1] \in Int /\ x[k + 1] <= x[k + 1]  BY <1>4, <1>5
    <3> QED BY <1>4, <1>5, <3>1
  <2>5. \A t \in C.at[k + 1] : \E u \in C.at[k] : <<u, t>> \in Legs(C.d, <<C.path[k], C.path[k + 1]>>)
    BY <1>6
  <2> QED BY <2>1, <2>2, <2>3, <2>4, <2>5 DEF Leading
<1>10. C.from \in OpenAt(C.d, From(C.d))..CloseAt(C.d, From(C.d))
  <2>1. x[1] \in vrp.lo[Start]..vrp.hi[Start]  BY <1>1 DEF Outset
  <2> QED BY <1>2, <2>1 DEF OpenAt, Open, CloseAt, Close, From
<1>11. \E t \in C.at[Len(C.path)] :
       t - C.from - Along(Profits(prob), C.path) - CutCost(Along(Counts(prob), C.path)) < 0
  <2>1. x[n] - x[1] = Checked(o)  BY <1>1 DEF Outset, n
  <2>2. Duals(o) = Along(Profits(prob), o)  BY DEF Duals, Profits, Profit
  <2>3. InCut(o) = Along(Counts(prob), o)  BY DEF InCut, Counts, Hits
  <2>4. Checked(o) - Along(Profits(prob), o) - CutCost(Along(Counts(prob), o)) < 0
    BY <2>2, <2>3 DEF ReducedCost
  <2>5. n \in 1..n  BY <1>3
  <2>6. x[n] - x[1] - Along(Profits(prob), o) - CutCost(Along(Counts(prob), o)) < 0  BY <2>1, <2>4
  <2> QED BY <1>2, <1>4, <2>5, <2>6
<1>12. C.from \in Int /\ C.at[1] = {C.from} /\ C.path[1] = From(C.d) /\ C.path[Len(C.path)] = To(C.d)
  <2>1. 1 \in 1..n  BY <1>3
  <2> QED BY <1>2, <1>3, <1>4, <2>1 DEF From, To
<1>13. \A k \in 1..n : C.at[k] # {} /\ C.at[k] \subseteq 0..T  BY <1>4
<1>14. C.d \in Dir  BY <1>2 DEF Dir
<1> QED BY <1>2, <1>3, <1>8, <1>9, <1>10, <1>11, <1>12, <1>13, <1>14 DEF Outline, C, n

Astern(o, x, y, C, k, i) ==
  /\ i \in 1..Len(o) /\ C.path[k] = o[i]
  /\ C.at[k] = {T - t : t \in x[i]..y[i]} /\ C.at[k] \subseteq 0..T
  /\ \A t \in x[i]..y[i] : T - t \in C.at[k]
  /\ T - x[i] \in C.at[k] /\ T - y[i] \in C.at[k]

LEMMA AftAt ==
  ASSUME Setting, NEW o, NEW x, NEW y, Sketch(o, x, y), NEW k \in 1..Len(o), NEW i, i = Len(o) + 1 - k,
         NEW C, C = Aft(o, x, y)
  PROVE  Astern(o, x, y, C, k, i)
<1> DEFINE n == Len(o)
<1>1. Outset(o, x, y) /\ \A j \in 1..n : Halt(o, x, y, j)  BY SketchParts
<1>2. n \in Nat /\ o \in Seq(Vertex) /\ T \in Nat  BY <1>1 DEF Outset
<1> HIDE DEF n
<1>3. i \in 1..n /\ n + 1 - k = i /\ k \in 1..n  BY <1>2 DEF n
<1>4. C.path = Reverse(o) /\ C.at = [j \in 1..n |-> {T - t : t \in x[n + 1 - j]..y[n + 1 - j]}]
  BY DEF Aft, n
<1>5. C.path[k] = o[i]
  <2>1. \A j \in 1..Len(o) : C.path[j] = o[Len(o) + 1 - j]  BY ONLY <1>2, <1>4, ReverseIs
  <2> QED BY <1>3, <2>1 DEF n
<1>6. C.at[k] = {T - t : t \in x[i]..y[i]}  BY <1>3, <1>4
<1>7. Halt(o, x, y, i)  BY <1>1, <1>3
<1> DEFINE xi == x[i]
           yi == y[i]
<1>8. xi \in 0..T /\ yi \in 0..T /\ xi <= yi  BY <1>7 DEF Halt
<1>9. C.at[k] = {T - t : t \in xi..yi}  BY <1>6
<1> HIDE DEF xi, yi
<1>10. C.at[k] \subseteq 0..T /\ (\A t \in xi..yi : T - t \in C.at[k]) /\ xi \in xi..yi /\ yi \in xi..yi
  BY <1>2, <1>8, <1>9
<1> QED BY <1>3, <1>5, <1>6, <1>10 DEF xi, yi, n, Astern

LEMMA AftOutline ==
  ASSUME Setting, NEW o, NEW x, NEW y, Sketch(o, x, y), ReducedCost(o) < 0, NEW C, C = Aft(o, x, y)
  PROVE  Outline(C)
<1> DEFINE n == Len(o)
<1>1. Outset(o, x, y) /\ \A i \in 1..n : Halt(o, x, y, i)  BY SketchParts
<1>l. \A i \in 1..n - 1 : Lap(o, x, y, i)  BY SketchParts
<1>3. /\ n \in Nat /\ n >= 3 /\ n <= N + 2 /\ o \in Seq(Vertex) /\ IsInjective(o) /\ o[1] = Start /\ o[n] = End
      /\ x \in [1..n -> 0..T] /\ T \in Nat /\ Along(Loads(prob), o) <= Raw[prob.net].room
      /\ y[n] = x[n] /\ N \in Nat \ {0} /\ prob \in Problem
  BY <1>1, SettingIs DEF Outset, Sane, Setting
<1>2. /\ C.d = 1 /\ C.path = Reverse(o) /\ C.from = T - x[n]
      /\ C.gate = [k \in 1..n - 1 |-> T - x[n + 1 - k]]
  BY DEF Aft
<1>r. /\ C.path \in Seq(Vertex) /\ Len(C.path) = n /\ Range(C.path) = Range(o)
      /\ IsInjective(C.path)
  <2>1. o \in Seq(Vertex) /\ IsInjective(o)  BY <1>3
  <2> QED BY ONLY <2>1, <1>2, ReverseIs
<1> HIDE DEF n
<1>4. \A k \in 1..n : /\ n + 1 - k \in 1..n /\ C.path[k] = o[n + 1 - k]
                      /\ C.at[k] = {T - t : t \in x[n + 1 - k]..y[n + 1 - k]} /\ C.at[k] \subseteq 0..T
                      /\ (\A t \in x[n + 1 - k]..y[n + 1 - k] : T - t \in C.at[k])
                      /\ T - x[n + 1 - k] \in C.at[k] /\ T - y[n + 1 - k] \in C.at[k]
  <2>1. \A k \in 1..n : Astern(o, x, y, C, k, n + 1 - k)  BY AftAt DEF n
  <2> QED BY <2>1 DEF Astern, n
<1>n. n \in Nat /\ n >= 3  BY <1>3
<1>5. \A i \in 1..n : x[i] \in Int /\ x[i] \in 0..T
  <2>1. \A i \in 1..n : x[i] \in 0..T  BY <1>3
  <2>2. \A t \in 0..T : t \in Int  BY <1>3
  <2> QED BY <2>1, <2>2
<1>6. ASSUME NEW k \in 1..n - 1, NEW i, i = n - k
      PROVE  /\ i \in 1..n - 1 /\ k \in 1..n /\ k + 1 \in 1..n /\ n + 1 - k = i + 1 /\ n + 1 - (k + 1) = i
             /\ C.path[k] = o[i + 1] /\ C.path[k + 1] = o[i] /\ Lap(o, x, y, i) /\ C.gate[k] = T - x[i + 1]
             /\ o[i] \in Vertex /\ o[i + 1] \in Vertex /\ Halt(o, x, y, i) /\ Halt(o, x, y, i + 1)
  <2>1. i \in 1..n - 1 /\ k \in 1..n /\ k + 1 \in 1..n /\ n + 1 - k = i + 1 /\ n + 1 - (k + 1) = i
        /\ i \in 1..n /\ i + 1 \in 1..n
    BY ONLY <1>n, k \in 1..n - 1, i = n - k
  <2>2. C.path[k] = o[i + 1]
    <3>1. C.path[k] = o[n + 1 - k]  BY <1>4, <2>1
    <3> QED BY <2>1, <3>1
  <2>3. C.path[k + 1] = o[i]
    <3>1. C.path[k + 1] = o[n + 1 - (k + 1)]  BY <1>4, <2>1
    <3> QED BY <2>1, <3>1
  <2>4. Lap(o, x, y, i)  BY <1>l, <2>1 DEF n
  <2>5. C.gate[k] = T - x[i + 1]
    <3>1. C.gate[k] = T - x[n + 1 - k]  BY <1>2
    <3> QED BY <2>1, <3>1
  <2>6. Halt(o, x, y, i) /\ Halt(o, x, y, i + 1)  BY <1>1, <2>1 DEF n
  <2> QED BY <2>1, <2>2, <2>3, <2>4, <2>5, <2>6 DEF Halt
<1>7. ASSUME NEW k \in 1..n - 1, NEW t \in C.at[k + 1]
      PROVE  \E u \in C.at[k] : <<u, t>> \in Legs(C.d, <<C.path[k], C.path[k + 1]>>)
  <2> DEFINE i == n - k
             j == i + 1
  <2>1. /\ i \in 1..n - 1 /\ k \in 1..n /\ k + 1 \in 1..n /\ n + 1 - k = j /\ n + 1 - (k + 1) = i
        /\ C.path[k] = o[j] /\ C.path[k + 1] = o[i] /\ Lap(o, x, y, i)
        /\ o[i] \in Vertex /\ o[j] \in Vertex
    BY <1>6
  <2>2. \A s \in x[i]..y[i] : \E w \in x[j]..y[j] : Linked(vrp, <<o[i], o[j]>>, s, w)  BY <2>1 DEF Lap
  <2> HIDE DEF i, j
  <2>3. C.at[k + 1] = {T - s : s \in x[i]..y[i]} /\ \A w \in x[j]..y[j] : T - w \in C.at[k]
    <3>1. C.at[k + 1] = {T - s : s \in x[n + 1 - (k + 1)]..y[n + 1 - (k + 1)]}  BY <1>4, <2>1
    <3>2. \A w \in x[n + 1 - k]..y[n + 1 - k] : T - w \in C.at[k]  BY <1>4, <2>1
    <3> QED BY <2>1, <3>1, <3>2
  <2>4. PICK s \in x[i]..y[i] : t = T - s  BY <1>7, <2>3
  <2>5. PICK w \in x[j]..y[j] : Linked(vrp, <<o[i], o[j]>>, s, w)  BY <2>2
  <2>6. <<T - w, T - s>> \in Legs(1, <<o[j], o[i]>>)  BY <2>1, <2>5, LinkedLegs
  <2> QED BY <1>2, <2>1, <2>3, <2>4, <2>6
<1>8. Legged(C)
  <2>1. C.d \in Dir  BY <1>2 DEF Dir
  <2>2. ASSUME NEW k \in 1..n PROVE \E u \in C.at[k] : u <= CloseAt(C.d, C.path[k])
    <3> DEFINE i == n + 1 - k
    <3>1. i \in 1..n /\ C.path[k] = o[i] /\ T - y[i] \in C.at[k]  BY <1>4
    <3> HIDE DEF i
    <3>2. Halt(o, x, y, i)  BY <1>1, <3>1 DEF n
    <3>3. vrp.lo[o[i]] <= y[i] /\ vrp.lo[o[i]] \in Int /\ y[i] \in Int  BY <3>2 DEF Halt
    <3>4. T - y[i] <= T - vrp.lo[o[i]]  BY <1>3, <3>3
    <3>5. CloseAt(C.d, C.path[k]) = T - vrp.lo[o[i]]  BY <1>2, <3>1 DEF CloseAt, Close
    <3> QED BY <3>1, <3>4, <3>5
  <2>3. \A k \in 1..n : C.at[k] \subseteq 0..T  BY <1>4
  <2> QED BY <1>3, <1>7, <1>r, <2>1, <2>2, <2>3 DEF Legged
<1>9. \A k \in 1..n : Reached(C, k)  BY <1>8, <1>r, LeggedReached
<1>10. ASSUME NEW k \in 1..n - 1 PROVE Leading(C, k)
  <2> DEFINE i == n - k
  <2>0. /\ i \in 1..n - 1 /\ k \in 1..n /\ k + 1 \in 1..n /\ n + 1 - k = i + 1
        /\ C.path[k] = o[i + 1] /\ C.path[k + 1] = o[i] /\ Lap(o, x, y, i) /\ C.gate[k] = T - x[i + 1]
        /\ Halt(o, x, y, i + 1)
    BY <1>6
  <2> HIDE DEF i
  <2>1. Way(C.d, C.path[k], C.path[k + 1]) \notin prob.A
    <3>1. <<o[i], o[i + 1]>> \notin prob.A  BY <2>0 DEF Lap
    <3> QED BY <1>2, <2>0, <3>1 DEF Way
  <2>2. Along(Loads(prob), SubSeq(C.path, 1, k + 1)) <= Raw[prob.net].room
    <3> DEFINE m == k + 1
               path == C.path
               a == SubSeq(path, 1, m)
    <3>1. m \in 0..Len(path) /\ path \in Seq(Vertex) /\ IsInjective(path) /\ Range(path) = Range(o)
      BY <1>3, <1>r, <2>0
    <3> HIDE DEF a, m, path
    <3>a. a = SubSeq(path, 1, m)  BY DEF a
    <3>2. a \in Seq(Vertex) /\ Range(a) \subseteq Range(path) /\ IsInjective(a)  BY ONLY <3>1, <3>a, PrefixIs
    <3>3. Along(Loads(prob), a) <= Raw[prob.net].room  BY <1>3, <3>1, <3>2, PartLoad
    <3> QED BY <3>3 DEF a, m, path
  <2>3. C.gate[k] \in Int /\ \E u \in C.at[k] : u <= C.gate[k]
    <3>1. x[i + 1] \in Int  BY <2>0 DEF Halt
    <3>2. T - x[i + 1] \in C.at[k]
      <4>1. T - x[n + 1 - k] \in C.at[k]  BY <1>4, <2>0
      <4> QED BY <2>0, <4>1
    <3>3. T - x[i + 1] \in Int /\ T - x[i + 1] <= T - x[i + 1]  BY <1>3, <3>1
    <3> QED BY <2>0, <3>2, <3>3
  <2>4. C.d # 0  BY <1>2
  <2>5. \A t \in C.at[k + 1] : \E u \in C.at[k] : <<u, t>> \in Legs(C.d, <<C.path[k], C.path[k + 1]>>)
    BY <1>7
  <2> QED BY <2>1, <2>2, <2>3, <2>4, <2>5 DEF Leading
<1>11. /\ C.from \in Int /\ C.at[1] = {C.from} /\ C.path[1] = From(C.d) /\ C.path[n] = To(C.d)
       /\ C.from \in OpenAt(C.d, From(C.d))..CloseAt(C.d, From(C.d))
  <2>1. 1 \in 1..n /\ n \in 1..n /\ n + 1 - 1 = n /\ n + 1 - n = 1  BY ONLY <1>n
  <2>2. C.path[1] = o[n] /\ C.path[n] = o[1]
    <3>1. C.path[1] = o[n + 1 - 1] /\ C.path[n] = o[n + 1 - n]  BY <1>4, <2>1
    <3> QED BY <2>1, <3>1
  <2>3. C.at[1] = {T - x[n]}
    <3>1. C.at[1] = {T - t : t \in x[n + 1 - 1]..y[n + 1 - 1]}  BY <1>4, <2>1
    <3>2. C.at[1] = {T - t : t \in x[n]..x[n]}  BY <1>3, <2>1, <3>1
    <3>3. x[n] \in Int  BY <1>5, <2>1
    <3>4. x[n]..x[n] = {x[n]}  BY <3>3
    <3> QED BY <3>2, <3>4
  <2>4. x[n] \in vrp.lo[End]..vrp.hi[End] /\ x[n] \in Int  BY <1>1, <1>5, <2>1 DEF Outset, n
  <2>5. Halt(o, x, y, n)  BY <1>1, <2>1 DEF n
  <2>6. vrp.lo[End] \in Int /\ vrp.hi[End] \in Int  BY <1>3, <2>5 DEF Halt
  <2>7. T - x[n] \in T - vrp.hi[End]..T - vrp.lo[End] /\ T - x[n] \in Int
    BY <1>3, <2>4, <2>6
  <2> QED BY <1>2, <1>3, <2>2, <2>3, <2>7 DEF OpenAt, Open, CloseAt, Close, From, To
<1>12. \E t \in C.at[n] :
       t - C.from - Along(Profits(prob), C.path) - CutCost(Along(Counts(prob), C.path)) < 0
  <2>1. x[n] - x[1] = Checked(o)  BY <1>1 DEF Outset, n
  <2>2. Duals(o) = Along(Profits(prob), o)  BY DEF Duals, Profits, Profit
  <2>3. InCut(o) = Along(Counts(prob), o)  BY DEF InCut, Counts, Hits
  <2>4. Checked(o) - Along(Profits(prob), o) - CutCost(Along(Counts(prob), o)) < 0
    BY <2>2, <2>3 DEF ReducedCost
  <2>5. n \in 1..n /\ 1 \in 1..n /\ n + 1 - n = 1  BY ONLY <1>n
  <2>6. T - x[1] \in C.at[n]
    <3>1. T - x[n + 1 - n] \in C.at[n]  BY <1>4, <2>5
    <3> QED BY <2>5, <3>1
  <2>7. (T - x[1]) - C.from = Checked(o)
    <3>1. x[1] \in Int /\ x[n] \in Int  BY <1>5, <2>5
    <3> QED BY <1>2, <1>3, <2>1, <3>1
  <2>8. Along(Profits(prob), C.path) = Along(Profits(prob), o) /\ Along(Counts(prob), C.path) = Along(Counts(prob), o)
    <3>1. Profits(prob) \in [Vertex -> Int] /\ Counts(prob) \in [Vertex -> Int]  BY <1>3, SumFunctions
    <3> QED BY <1>3, <1>r, <3>1, SumSame
  <2> QED BY <2>4, <2>6, <2>7, <2>8
<1>13. \A k \in 1..n : C.at[k] # {} /\ C.at[k] \subseteq 0..T  BY <1>4
<1>14. C.d \in Dir  BY <1>2 DEF Dir
<1>15. Len(C.path) = n /\ n >= 3  BY <1>3, <1>r
<1> QED BY <1>r, <1>9, <1>10, <1>11, <1>12, <1>13, <1>14, <1>15 DEF Outline

-----------------------------------------------------------------------------
(* What a detour over the depot is made of: a leg there and a later one from there, which
   leave no earlier and arrive in time. *)
LEMMA LegOrder ==
  ASSUME Setting, NEW d \in Dir, NEW u \in Vertex, NEW v \in Vertex, NEW e \in Legs(d, <<u, v>>)
  PROVE  /\ e[1] \in Int /\ e[2] \in Int /\ e[1] <= T /\ 0 <= e[2] /\ e[1] <= e[2]
<1>0. T \in Nat  BY SettingIs DEF Sane
<1>1. CASE d = 0
  <2>1. e = <<e[1], e[2]>> /\ Linked(vrp, <<u, v>>, e[1], e[2])  BY <1>1, SettingIs
  <2>2. Drivable(Raw[prob.net], <<u, v>>, vrp.arr[<<u, v>>])  BY <2>1, SettingIs DEF Linked
  <2>3. e[1] \in 0..T /\ e[2] \in Int /\ e[1] <= e[2]  BY <2>1, <2>2 DEF Drivable, Linked
  <2> QED BY <1>0, <2>3
<1>2. CASE d = 1
  <2> DEFINE a == <<v, u>>
             f == vrp.arr[a]
  <2>1. a \in vrp.arcs /\ \E t \in DOMAIN f : e = <<e[1], T - t>> /\ e[1] \in Int /\ e[1] <= T - f[t]
    BY <1>2, SettingIs
  <2>2. PICK t \in DOMAIN f : e = <<e[1], T - t>> /\ e[1] \in Int /\ e[1] <= T - f[t]  BY <2>1
  <2>3. Drivable(Raw[prob.net], a, f)  BY <2>1, SettingIs
  <2> HIDE DEF f, a
  <2>4. t \in 0..T /\ f[t] \in Int /\ t <= f[t]  BY <2>3 DEF Drivable
  <2>5. e[2] = T - t  BY <2>2
  <2> QED BY <1>0, <2>2, <2>4, <2>5
<1> QED BY <1>1, <1>2 DEF Dir

LEMMA TimeFromIs ==
  ASSUME NEW L, L # {}, NEW b \in Int, NEW t \in Int, Never \in Int,
         \A e \in L : e[1] \in Int /\ e[2] \in Int /\ e[1] <= b /\ 0 <= e[2] /\ e[1] <= e[2]
  PROVE  /\ TimeFrom(L, t) \in Int
         /\ \/ TimeFrom(L, t) = Never
            \/ \E e \in L : t <= e[1] /\ TimeFrom(L, t) = e[2] - t
<1> DEFINE D == Departures(L)
           S == {e[2] : e \in {x \in L : x[1] >= t}}
<1>1. D \subseteq Int /\ D # {} /\ b \in Int /\ \A x \in D : x <= b  BY DEF Departures
<1>2. Max(D) \in D
  <2> HIDE DEF D
  <2> QED BY <1>1, MaxIs
<1>3. CASE t > Max(D)  BY <1>3 DEF TimeFrom
<1>4. CASE ~(t > Max(D))
  <2>1. PICK e0 \in L : Max(D) = e0[1]
    <3>1. D = {e[1] : e \in L}  BY DEF Departures
    <3> QED BY <1>2, <3>1
  <2>2. e0[1] >= t  BY <1>4, <2>1
  <2>3. S \subseteq Int /\ S # {} /\ 0 \in Int /\ \A x \in S : 0 <= x  BY <2>2
  <2>4. Min(S) \in S
    <3> HIDE DEF S
    <3> QED BY <2>3, MinIs
  <2>5. PICK e \in L : e[1] >= t /\ Min(S) = e[2]  BY <2>4
  <2>6. TimeFrom(L, t) = Min(S) - t  BY <1>4 DEF TimeFrom
  <2> HIDE DEF S
  <2>7. e[1] \in Int /\ e[2] \in Int /\ TimeFrom(L, t) = e[2] - t /\ t <= e[1]  BY <2>5, <2>6
  <2> QED BY <2>7
<1> QED BY <1>3, <1>4

LEMMA TimeToIs ==
  ASSUME NEW L, L # {}, NEW b \in Int, NEW t \in Int, Never \in Int,
         \A e \in L : e[1] \in Int /\ e[2] \in Int /\ e[1] <= b /\ 0 <= e[2] /\ e[1] <= e[2]
  PROVE  /\ TimeTo(L, t) \in Int
         /\ \/ TimeTo(L, t) = Never
            \/ \E e \in L : e[2] <= t /\ TimeTo(L, t) = t - e[1]
<1> DEFINE D == Arrivals(L)
           S == {e[1] : e \in {x \in L : x[2] <= t}}
<1>1. D \subseteq Int /\ D # {} /\ 0 \in Int /\ \A x \in D : 0 <= x  BY DEF Arrivals
<1>2. Min(D) \in D
  <2> HIDE DEF D
  <2> QED BY <1>1, MinIs
<1>3. CASE t < Min(D)  BY <1>3 DEF TimeTo
<1>4. CASE ~(t < Min(D))
  <2>1. PICK e0 \in L : Min(D) = e0[2]
    <3>1. D = {e[2] : e \in L}  BY DEF Arrivals
    <3> QED BY <1>2, <3>1
  <2>2. e0[2] <= t  BY <1>4, <2>1
  <2>3. S \subseteq Int /\ S # {} /\ b \in Int /\ \A x \in S : x <= b  BY <2>2
  <2>4. Max(S) \in S
    <3> HIDE DEF S
    <3> QED BY <2>3, MaxIs
  <2>5. PICK e \in L : e[2] <= t /\ Max(S) = e[1]  BY <2>4
  <2>6. TimeTo(L, t) = t - Max(S)  BY <1>4 DEF TimeTo
  <2> HIDE DEF S
  <2>7. e[1] \in Int /\ e[2] \in Int /\ TimeTo(L, t) = t - e[1] /\ e[2] <= t  BY <2>5, <2>6
  <2> QED BY <2>7
<1> QED BY <1>3, <1>4

LEMMA DetourLegs ==
  ASSUME Setting, NEW d \in Dir, NEW u \in Vertex, NEW v \in Vertex, NEW l, At(l) = u,
         Rw(l) # {}, Rw(l) \subseteq 0..T, OpenAt(d, v) \in Int, OpenAt(d, v) < Never,
         DepotTriangle(d, l, v)
  PROVE  \E e \in Legs(d, <<u, To(d)>>), f \in Legs(d, <<From(d), v>>) :
           (\A t \in Rw(l) : t <= e[1]) /\ e[2] < f[1] /\ f[2] <= OpenAt(d, v)
<1> DEFINE L == Legs(d, <<u, To(d)>>)
           K == Legs(d, <<From(d), v>>)
           R == Rw(l)
           t == Max(R)
           s == OpenAt(d, v)
<1>0. T \in Nat /\ Never \in Nat /\ To(d) \in Vertex /\ From(d) \in Vertex
  BY SettingIs, Vertices DEF Sane, To, From
<1>1. t \in R /\ t \in Int /\ 0 <= t /\ \A x \in R : x <= t
  <2>1. R \subseteq Int /\ R # {} /\ T \in Int /\ \A x \in R : x <= T /\ 0 <= x  BY <1>0
  <2> HIDE DEF R
  <2>2. Max(R) \in R /\ \A x \in R : x <= Max(R)  BY <2>1, MaxIs
  <2> QED BY <2>1, <2>2
<1>2. L # {} /\ K # {} /\ TimeFrom(L, t) + TimeTo(K, s) < s - t
  <2>1. {<<u, To(d)>>, <<From(d), v>>} \subseteq Allowed(d)  BY DEF DepotTriangle
  <2>2. L # {} /\ K # {}  BY <2>1 DEF Allowed
  <2> QED BY <2>2 DEF DepotTriangle
<1>3. \A e \in L : e[1] \in Int /\ e[2] \in Int /\ e[1] <= T /\ 0 <= e[2] /\ e[1] <= e[2]
  BY <1>0, LegOrder
<1>4. \A e \in K : e[1] \in Int /\ e[2] \in Int /\ e[1] <= T /\ 0 <= e[2] /\ e[1] <= e[2]
  BY <1>0, LegOrder
<1> HIDE DEF L, K, t, s, R
<1>5. /\ TimeFrom(L, t) \in Int
      /\ \/ TimeFrom(L, t) = Never
         \/ \E e \in L : t <= e[1] /\ TimeFrom(L, t) = e[2] - t
  <2>1. T \in Int /\ Never \in Int  BY <1>0
  <2> QED BY ONLY <2>1, <1>1, <1>2, <1>3, TimeFromIs
<1>6. /\ TimeTo(K, s) \in Int
      /\ \/ TimeTo(K, s) = Never
         \/ \E e \in K : e[2] <= s /\ TimeTo(K, s) = s - e[1]
  <2>1. T \in Int /\ Never \in Int /\ s \in Int  BY <1>0 DEF s
  <2> QED BY ONLY <2>1, <1>2, <1>4, TimeToIs
<1>7. s < Never /\ s \in Int  BY DEF s
<1>8. TimeFrom(L, t) >= 0 /\ TimeTo(K, s) >= 0
  BY <1>0, <1>1, <1>3, <1>4, <1>5, <1>6, <1>7
<1>9. TimeFrom(L, t) # Never /\ TimeTo(K, s) # Never
  BY <1>0, <1>1, <1>2, <1>5, <1>6, <1>7, <1>8
<1>10. PICK e \in L : t <= e[1] /\ TimeFrom(L, t) = e[2] - t  BY <1>5, <1>9
<1>11. PICK f \in K : f[2] <= s /\ TimeTo(K, s) = s - f[1]  BY <1>6, <1>9
<1>12. e[1] \in Int /\ e[2] \in Int /\ f[1] \in Int /\ f[2] \in Int  BY <1>3, <1>4
<1>13. e[2] < f[1]  BY <1>1, <1>2, <1>7, <1>10, <1>11, <1>12
<1>14. \A x \in R : x <= e[1]
  <2>1. \A x \in R : x \in Int  BY <1>0 DEF R
  <2> QED BY <1>1, <1>10, <1>12, <2>1
<1> QED BY <1>10, <1>11, <1>13, <1>14 DEF L, K, s, R

(* A route with such a detour stops over. *)
LEMMA DetourStops ==
  ASSUME Setting, NEW o, NEW x, NEW y, Sketch(o, x, y), NEW i \in 1..Len(o) - 1,
         NEW t, NEW e, Drives(<<o[i], End>>, t, e), x[i] <= t,
         NEW s, NEW w, Drives(<<Start, o[i + 1]>>, s, w), e <= s, w <= y[i + 1]
  PROVE  Stopover(o)
<1> DEFINE n == Len(o)
<1>1. Outset(o, x, y) /\ Halt(o, x, y, i)
  <2>1. Outset(o, x, y) /\ \A j \in 1..n : Halt(o, x, y, j)  BY SketchParts
  <2>2. n \in Nat  BY <2>1 DEF Outset
  <2>3. i \in 1..n  BY <2>2
  <2> QED BY <2>1, <2>3
<1>2. n \in Nat /\ n >= 3 /\ o[1] = Start /\ o[n] = End  BY <1>1 DEF Outset
<1>3. i # 1 /\ i + 1 # n
  <2>1. <<o[i], End>> \in Arc /\ <<Start, o[i + 1]>> \in Arc  BY DEF Drives
  <2>2. <<Start, End>> \notin Arc  BY DEF Arc
  <2> QED BY <1>2, <2>1, <2>2
<1>4. i \in 2..n - 2  BY <1>2, <1>3
<1>5. \E z : Drives(<<o[i], End>>, x[i], z) /\ z <= e /\ z \in Int
  <2> DEFINE a == <<o[i], End>>
  <2>1. Drives(a, t, e) /\ a[1] = o[i]  OBVIOUS
  <2> HIDE DEF a
  <2>2. \A u : Fits(Raw[prob.net], a[1], u) /\ u <= t => \E v : Drives(a, u, v) /\ v <= e  BY <2>1, DrivesIs
  <2>3. Fits(Raw[prob.net], o[i], x[i])  BY <1>1 DEF Halt
  <2>4. PICK z : Drives(a, x[i], z) /\ z <= e  BY <2>1, <2>2, <2>3
  <2>5. z \in Int  BY <2>4, DrivesIs
  <2> QED BY <2>4, <2>5 DEF a
<1>6. PICK z : Drives(<<o[i], End>>, x[i], z) /\ z <= e /\ z \in Int  BY <1>5
<1>7. s \in Int /\ e \in Int  BY DrivesIs
<1>8. z <= s  BY <1>6, <1>7
<1>9. /\ o \in Path /\ Along(Loads(prob), o) <= Raw[prob.net].room
      /\ Ride(o, x) /\ x[1] \in Window /\ x[n] - x[1] = Checked(o) /\ Slack(o, x, y)
  BY DEF Sketch
<1> QED BY <1>4, <1>6, <1>7, <1>8, <1>9, StopsOver

LEMMA OpenIs ==
  ASSUME Setting, NEW d \in Dir, NEW v \in Vertex
  PROVE  OpenAt(d, v) \in Int /\ OpenAt(d, v) < Never
<1> DEFINE raw == Raw[prob.net]
<1>1. /\ T \in Nat /\ Never \in Nat /\ raw.service[v] \in Nat /\ T + raw.service[v] < Never
      /\ raw.lo[v] \in Nat /\ raw.hi[v] \in Nat /\ raw.hi[v] <= T
  BY SettingIs DEF Sane, Proper
<1>2. vrp.lo[v] \in Int /\ vrp.hi[v] \in Int /\ Fits(raw, v, vrp.lo[v]) /\ Fits(raw, v, vrp.hi[v])
  BY FittingIs
<1> HIDE DEF raw
<1>3. /\ vrp.lo[v] - raw.service[v] <= raw.hi[v] /\ raw.lo[v] <= vrp.hi[v] - raw.service[v]
  BY <1>2 DEF Fits
<1> QED BY <1>1, <1>2, <1>3 DEF OpenAt, Open, Dir

LEMMA ForeUndetoured ==
  ASSUME Setting, NEW o, NEW x, NEW y, Sketch(o, x, y), ~Stopover(o), NEW C, C = Fore(o, x),
         NEW k \in 1..Len(o) - 1
  PROVE  Undetoured(C, k)
<1> DEFINE n == Len(o)
<1>1. Outset(o, x, y) /\ Lap(o, x, y, k) /\ \A j \in 1..n : Halt(o, x, y, j)  BY SketchParts
<1>2. /\ n \in Nat /\ n >= 3 /\ o \in Seq(Vertex) /\ k \in 1..n /\ k + 1 \in 1..n
      /\ Halt(o, x, y, k) /\ Halt(o, x, y, k + 1)
  BY <1>1 DEF Outset, Lap
<1>3. C.d = 0 /\ C.path = o /\ C.at[k] = {x[k]}
  BY <1>2 DEF Fore
<1>4. SUFFICES ASSUME NEW l, Good(prob, vrp, C.d, l), Covers(C, k, l), DepotTriangle(C.d, l, C.path[k + 1])
               PROVE FALSE
  BY DEF Undetoured
<1> DEFINE u == o[k]
           v == o[k + 1]
<1>5. At(l) = u /\ u \in Vertex /\ v \in Vertex /\ x[k] \in Rw(l) /\ Rw(l) # {} /\ Rw(l) \subseteq 0..T
  <2>1. l.path = SubSeq(o, 1, k) /\ x[k] \in Rw(l)  BY <1>3, <1>4 DEF Covers
  <2>2. u \in Vertex /\ v \in Vertex  BY <1>2 DEF Halt
  <2>3. At(l) = l.path[Len(l.path)] /\ Rw(l) # {} /\ Rw(l) \subseteq 0..T  BY <1>4, LabelTypes
  <2>4. l.path[Len(l.path)] = u
    <3> DEFINE a == SubSeq(o, 1, k)
    <3>1. k \in 0..Len(o) /\ o \in Seq(Vertex)  BY <1>2
    <3> HIDE DEF a
    <3>2. a = SubSeq(o, 1, k)  BY DEF a
    <3>3. Len(a) = k /\ \A i \in 1..k : a[i] = o[i]  BY ONLY <3>1, <3>2, PrefixIs
    <3>4. k \in 1..k  BY <1>2
    <3> QED BY <2>1, <3>3, <3>4 DEF a
  <2> QED BY <2>1, <2>2, <2>3, <2>4
<1>6. OpenAt(0, v) \in Int /\ OpenAt(0, v) < Never /\ OpenAt(0, v) = vrp.lo[v]
  <2>1. 0 \in Dir  BY DEF Dir
  <2> QED BY <1>5, <2>1, OpenIs DEF OpenAt, Open
<1> HIDE DEF n, u, v
<1>7. PICK e \in Legs(0, <<u, To(0)>>), f \in Legs(0, <<From(0), v>>) :
           (\A t \in Rw(l) : t <= e[1]) /\ e[2] < f[1] /\ f[2] <= OpenAt(0, v)
  <2>1. 0 \in Dir /\ DepotTriangle(0, l, v)  BY <1>3, <1>4 DEF Dir, v
  <2> QED BY <1>5, <1>6, <2>1, DetourLegs
<1>8. Start \in Vertex /\ End \in Vertex /\ To(0) = End /\ From(0) = Start  BY SettingIs, Vertices DEF Sane, To, From
<1>9. Linked(vrp, <<u, End>>, e[1], e[2]) /\ Linked(vrp, <<Start, v>>, f[1], f[2])
  BY <1>5, <1>7, <1>8, SettingIs
<1>10. Drives(<<u, End>>, e[1], e[2]) /\ Drives(<<Start, v>>, f[1], f[2])
  <2>1. <<u, End>> \in vrp.arcs /\ <<Start, v>> \in vrp.arcs  BY <1>9 DEF Linked
  <2> QED BY <1>9, <2>1, DrivesLinked
<1>11. e[1] \in Int /\ e[2] \in Int /\ f[1] \in Int /\ f[2] \in Int  BY <1>10, DrivesIs
<1>12. x[k] <= e[1] /\ e[2] <= f[1] /\ f[2] <= y[k + 1]
  <2>1. vrp.lo[v] <= y[k + 1] /\ y[k + 1] \in Int /\ vrp.lo[v] \in Int  BY <1>2 DEF Halt, v
  <2>2. x[k] <= e[1]  BY <1>5, <1>7
  <2> DEFINE e2 == e[2]
             f1 == f[1]
             f2 == f[2]
             h == vrp.lo[v]
             y1 == y[k + 1]
  <2>3. /\ e2 \in Int /\ f1 \in Int /\ f2 \in Int /\ h \in Int /\ y1 \in Int /\ h <= y1 /\ e2 < f1 /\ f2 <= h
    BY <1>6, <1>7, <1>11, <2>1
  <2> HIDE DEF e2, f1, f2, h, y1
  <2>4. e2 <= f1 /\ f2 <= y1  BY ONLY <2>3
  <2> QED BY <2>2, <2>4 DEF e2, f1, f2, y1
<1>13. Stopover(o)  BY <1>10, <1>12, DetourStops DEF u, v
<1> QED BY <1>13

LEMMA AftUndetoured ==
  ASSUME Setting, NEW o, NEW x, NEW y, Sketch(o, x, y), ~Stopover(o), NEW C, C = Aft(o, x, y),
         NEW k \in 1..Len(o) - 1
  PROVE  Undetoured(C, k)
<1> DEFINE n == Len(o)
           i == n - k
           m == k + 1
           u == o[i + 1]
           v == o[i]
<1>1. Outset(o, x, y) /\ \A j \in 1..n : Halt(o, x, y, j)  BY SketchParts
<1>2. /\ n \in Nat /\ n >= 3 /\ o \in Seq(Vertex) /\ T \in Nat  BY <1>1 DEF Outset
<1>n. n \in Nat /\ n >= 3 /\ k \in 1..n - 1  BY <1>2
<1>3. i \in 1..n - 1 /\ i \in 1..n /\ i + 1 \in 1..n /\ k \in 1..n /\ m \in 1..n /\ i + 1 = n + 1 - k /\ i = n + 1 - m
  BY ONLY <1>n
<1>4. Halt(o, x, y, i) /\ Halt(o, x, y, i + 1)  BY <1>1, <1>3
<1> HIDE DEF n, i, m
<1>5. C.d = 1 /\ C.path = Reverse(o) /\ C.path[k] = u /\ C.path[m] = v /\ T - x[i + 1] \in C.at[k]
  <2>1. Astern(o, x, y, C, k, i + 1) /\ Astern(o, x, y, C, m, i)  BY <1>3, AftAt DEF n
  <2>2. C.d = 1 /\ C.path = Reverse(o)  BY DEF Aft
  <2> QED BY <2>1, <2>2 DEF Astern
<1>6. SUFFICES ASSUME NEW l, Good(prob, vrp, C.d, l), Covers(C, k, l), DepotTriangle(C.d, l, C.path[m])
               PROVE FALSE
  BY DEF Undetoured, m
<1>7. /\ At(l) = u /\ u \in Vertex /\ v \in Vertex /\ T - x[i + 1] \in Rw(l) /\ Rw(l) # {} /\ Rw(l) \subseteq 0..T
  <2>1. l.path = SubSeq(C.path, 1, k) /\ T - x[i + 1] \in Rw(l)  BY <1>5, <1>6 DEF Covers
  <2>2. u \in Vertex /\ v \in Vertex  BY <1>4 DEF Halt
  <2>3. At(l) = l.path[Len(l.path)] /\ Rw(l) # {} /\ Rw(l) \subseteq 0..T  BY <1>6, LabelTypes
  <2>4. l.path[Len(l.path)] = u
    <3> DEFINE r == C.path
               a == SubSeq(r, 1, k)
    <3>1. k \in 0..Len(r) /\ r \in Seq(Vertex)
      <4>1. r \in Seq(Vertex) /\ Len(r) = Len(o)
        <5>1. o \in Seq(Vertex) /\ C.path = Reverse(o)  BY <1>2, <1>5
        <5> QED BY ONLY <5>1, ReverseIs
      <4> QED BY <1>2, <1>3, <4>1 DEF n
    <3> HIDE DEF a, r
    <3>2. a = SubSeq(r, 1, k)  BY DEF a
    <3>3. Len(a) = k /\ \A j \in 1..k : a[j] = r[j]  BY ONLY <3>1, <3>2, PrefixIs
    <3>4. k \in 1..k  BY <1>n
    <3> QED BY <1>5, <2>1, <3>3, <3>4 DEF a, r
  <2> QED BY <2>1, <2>2, <2>3, <2>4
<1>8. OpenAt(1, v) \in Int /\ OpenAt(1, v) < Never /\ OpenAt(1, v) = T - vrp.hi[v]
  <2>1. 1 \in Dir  BY DEF Dir
  <2> QED BY <1>7, <2>1, OpenIs DEF OpenAt, Open
<1>h. /\ u = o[i + 1] /\ v = o[i]  OBVIOUS
<1> HIDE DEF u, v
<1>9. PICK e \in Legs(1, <<u, To(1)>>), f \in Legs(1, <<From(1), v>>) :
           (\A t \in Rw(l) : t <= e[1]) /\ e[2] < f[1] /\ f[2] <= OpenAt(1, v)
  <2>1. 1 \in Dir /\ DepotTriangle(1, l, v)  BY <1>5, <1>6 DEF Dir
  <2> QED BY <1>7, <1>8, <2>1, DetourLegs
<1>10. Start \in Vertex /\ End \in Vertex /\ To(1) = Start /\ From(1) = End  BY SettingIs, Vertices DEF Sane, To, From
<1>11. PICK s : /\ <<Start, u>> \in vrp.arcs /\ s \in DOMAIN vrp.arr[<<Start, u>>]
                /\ e = <<e[1], T - s>> /\ e[1] \in Int /\ e[1] <= T - vrp.arr[<<Start, u>>][s]
  BY <1>7, <1>9, <1>10, SettingIs
<1>12. PICK t : /\ <<v, End>> \in vrp.arcs /\ t \in DOMAIN vrp.arr[<<v, End>>]
                /\ f = <<f[1], T - t>> /\ f[1] \in Int /\ f[1] <= T - vrp.arr[<<v, End>>][t]
  BY <1>7, <1>9, <1>10, SettingIs
<1> DEFINE w == vrp.arr[<<Start, u>>][s]
           z == vrp.arr[<<v, End>>][t]
<1>13. Drives(<<Start, u>>, s, w) /\ Drives(<<v, End>>, t, z)
  <2>1. Linked(vrp, <<Start, u>>, s, w) /\ Linked(vrp, <<v, End>>, t, z)  BY <1>11, <1>12 DEF Linked
  <2> QED BY <1>11, <1>12, <2>1, DrivesLinked
<1>14. s \in Int /\ w \in Int /\ t \in Int /\ z \in Int  BY <1>13, DrivesIs
<1>15. /\ e[1] \in Int /\ e[2] = T - s /\ e[1] <= T - w /\ f[1] \in Int /\ f[2] = T - t /\ f[1] <= T - z
       /\ T - x[i + 1] <= e[1] /\ e[2] < f[1] /\ f[2] <= T - vrp.hi[v]
  <2>1. e[2] = T - s  BY <1>11
  <2>2. f[2] = T - t  BY <1>12
  <2> QED BY <1>7, <1>8, <1>9, <1>11, <1>12, <2>1, <2>2
<1> HIDE DEF w, z
<1>16. /\ x[i + 1] \in Int /\ y[i + 1] \in Int /\ x[i + 1] <= y[i + 1] /\ x[i] \in Int /\ y[i] \in Int /\ x[i] <= y[i]
       /\ y[i] <= vrp.hi[v] /\ vrp.hi[v] \in Int
  BY <1>4, <1>h DEF Halt
<1>17. w <= y[i + 1] /\ x[i] <= t /\ z <= s
  <2> DEFINE x1 == x[i + 1]
             y1 == y[i + 1]
             x0 == x[i]
             y0 == y[i]
             h == vrp.hi[v]
             e1 == e[1]
             e2 == e[2]
             f1 == f[1]
             f2 == f[2]
  <2>1. /\ x1 \in Int /\ y1 \in Int /\ x1 <= y1 /\ x0 \in Int /\ y0 \in Int /\ x0 <= y0 /\ y0 <= h /\ h \in Int
        /\ e1 \in Int /\ e2 = T - s /\ e1 <= T - w /\ f1 \in Int /\ f2 = T - t /\ f1 <= T - z
        /\ T - x1 <= e1 /\ e2 < f1 /\ f2 <= T - h
    BY <1>15, <1>16
  <2> HIDE DEF x1, y1, x0, y0, h, e1, e2, f1, f2
  <2>2. w <= y1 /\ x0 <= t /\ z <= s
    BY ONLY <2>1, <1>14, <1>2
  <2> QED BY <2>2 DEF y1, x0
<1>18. Stopover(o)  BY <1>3, <1>13, <1>17, <1>h, DetourStops DEF n
<1> QED BY <1>18

-----------------------------------------------------------------------------
(* The label a course makes for itself is one that the search could have. *)
LEMMA IdealShaped ==
  ASSUME Setting, NEW C, Outline(C), Roads(vrp, prob.A, C.d, C.path),
         Along(Loads(prob), C.path) <= Raw[prob.net].room, NEW k \in 1..Len(C.path),
         \A t \in C.at[k] : C.from <= t
  PROVE  /\ Shaped(prob, vrp, C.d, Ideal(C, k))
         /\ Ideal(C, k).path = SubSeq(C.path, 1, k) /\ Rw(Ideal(C, k)) = C.at[k]
         /\ \A t \in C.at[k] : Ideal(C, k).dur[t] = t - C.from
<1> DEFINE path == C.path
           a == SubSeq(path, 1, k)
           l == Ideal(C, k)
           S == C.at[k]
           g == [t \in S |-> t - C.from]
           b == C.from
<1>0. T \in Nat /\ prob \in Problem  BY SettingIs DEF Sane, Setting
<1>1. /\ path \in Seq(Vertex) /\ Len(path) \in Nat /\ IsInjective(path) /\ path[1] = From(C.d)
      /\ b \in Int /\ S # {} /\ S \subseteq 0..T /\ \A t \in S : b <= t
  BY DEF Outline
<1>2. k \in 0..Len(path) /\ k \in 1..Len(path) /\ k \in Nat /\ k >= 1  BY <1>1
<1> HIDE DEF path, S, b
<1>3. /\ a \in Seq(Vertex) /\ Len(a) = k /\ Range(a) \subseteq Range(path) /\ IsInjective(a)
      /\ \A i \in 1..k : a[i] = path[i]
  <2> HIDE DEF a
  <2>1. a = SubSeq(path, 1, k)  BY DEF a
  <2> QED BY ONLY <2>1, <1>1, <1>2, PrefixIs
<1>4. /\ l.path = a /\ l.dur = g /\ l.U = Range(a) /\ l.q = Along(Loads(prob), a)
      /\ l.p = Along(Profits(prob), a) /\ l.n = Along(Counts(prob), a)
      /\ l = [path |-> a, dur |-> g, U |-> Range(a), q |-> l.q, p |-> l.p, n |-> l.n]
  BY DEF Ideal, path, S
<1>5. g \in [S -> Nat] /\ DOMAIN g = S /\ \A t \in S : g[t] = t - b
  <2>1. \A t \in S : t - b \in Nat
    <3> SUFFICES ASSUME NEW t \in S PROVE t - b \in Nat  OBVIOUS
    <3>1. t \in 0..T /\ b \in Int /\ b <= t  BY <1>1
    <3> QED BY ONLY <3>1, <1>0
  <2>2. g = [t \in S |-> t - b]  BY DEF b
  <2> HIDE DEF g
  <2> QED BY <2>1, <2>2
<1> HIDE DEF a, l, g
<1>6. l.q \in Int /\ l.p \in Int /\ l.n \in Int
  <2>1. Loads(prob) \in [Vertex -> Int] /\ Profits(prob) \in [Vertex -> Int] /\ Counts(prob) \in [Vertex -> Int]
    BY <1>0, SumFunctions
  <2> QED BY <1>3, <1>4, <2>1, SumInt
<1>7. Range(a) \subseteq Vertex
  <2>1. DOMAIN a = 1..k /\ \A i \in 1..k : a[i] \in Vertex  BY <1>3, ElementOfSeq
  <2> QED BY <2>1 DEF Range
<1>8. l \in Label
  <2>1. g \in UNION {[R -> Nat] : R \in SUBSET (0..T)}  BY <1>1, <1>5
  <2> QED BY <1>3, <1>4, <1>6, <1>7, <2>1 DEF Label
<1>9. Roads(vrp, prob.A, C.d, a)
  <2> SUFFICES ASSUME NEW i \in 1..k - 1 PROVE Way(C.d, a[i], a[i + 1]) \in vrp.arcs \ prob.A
    BY <1>3 DEF Roads
  <2>1. i \in 1..k /\ i + 1 \in 1..k /\ i \in 1..Len(path) - 1  BY <1>1, <1>2
  <2>2. Way(C.d, path[i], path[i + 1]) \in vrp.arcs \ prob.A  BY <2>1 DEF Roads, path
  <2>3. a[i] = path[i] /\ a[i + 1] = path[i + 1]  BY <1>3, <2>1
  <2> QED BY <2>2, <2>3
<1>10. l.q <= Raw[prob.net].room
  <2>1. Along(Loads(prob), path) <= Raw[prob.net].room  BY DEF path
  <2> QED BY <1>1, <1>3, <1>4, <2>1, PartLoad
<1>11. a[1] = From(C.d)  BY <1>1, <1>2, <1>3
<1>12. Shaped(prob, vrp, C.d, l)
  BY <1>1, <1>2, <1>3, <1>4, <1>5, <1>8, <1>9, <1>10, <1>11 DEF Shaped
<1> QED BY <1>4, <1>5, <1>12 DEF l, a, path, S, b, Rw

LEMMA SketchRoads ==
  ASSUME Setting, NEW o, NEW x, NEW y, Sketch(o, x, y)
  PROVE  /\ \A i \in 1..Len(o) - 1 : \A t, w : Drives(<<o[i], o[i + 1]>>, t, w) => Linked(vrp, <<o[i], o[i + 1]>>, t, w)
         /\ \A i \in 1..Len(o) : x[1] <= x[i] /\ x[i] <= x[Len(o)]
<1> DEFINE n == Len(o)
<1>1. Outset(o, x, y) /\ \A i \in 1..n - 1 : Lap(o, x, y, i)  BY SketchParts
<1>2. n \in Nat /\ n >= 3 /\ x \in [1..n -> 0..T] /\ T \in Nat  BY <1>1 DEF Outset
<1>3. ASSUME NEW i \in 1..n - 1, NEW t, NEW w, Drives(<<o[i], o[i + 1]>>, t, w)
      PROVE  Linked(vrp, <<o[i], o[i + 1]>>, t, w)
  <2> DEFINE a == <<o[i], o[i + 1]>>
  <2>1. Lap(o, x, y, i)  BY <1>1
  <2>2. a \in vrp.arcs /\ Drives(a, t, w)  BY <1>3, <2>1 DEF Lap
  <2> HIDE DEF a
  <2>3. \A u, z : Drives(a, u, z) <=> Linked(vrp, a, u, z)  BY <2>2, DrivesLinked
  <2> QED BY <2>2, <2>3 DEF a
<1>4. \A i \in 1..n - 1 : x[i] <= x[i + 1]  BY <1>1 DEF Lap
<1> HIDE DEF n
<1>5. x \in [1..n -> Int]
  <2>1. \A t \in 0..T : t \in Int  BY <1>2
  <2> QED BY <1>2, <2>1
<1>6. \A i \in 1..n : x[1] <= x[i]
  <2> SUFFICES ASSUME NEW i \in 1..n PROVE x[1] <= x[i]  OBVIOUS
  <2>1. 1 \in 1..n /\ i \in 1..n  BY <1>2
  <2>2. n \in Nat  BY <1>2
  <2> QED BY ONLY <2>1, <2>2, <1>4, <1>5, Rising
<1>7. \A i \in 1..n : x[i] <= x[n]
  <2> SUFFICES ASSUME NEW i \in 1..n PROVE x[i] <= x[n]  OBVIOUS
  <2>1. n \in i..n /\ i \in 1..n /\ n \in Nat  BY <1>2
  <2> QED BY ONLY <2>1, <1>4, <1>5, Rising
<1> QED BY <1>3, <1>6, <1>7 DEF n

(* The label of the course forward, at the k-th stop. *)
ForeLabel(o, x, k, l) ==
  /\ Good(prob, vrp, 0, l) /\ l.path = SubSeq(o, 1, k)
  /\ Rw(l) = {x[k]} /\ l.dur[x[k]] = x[k] - x[1]

LEMMA ForeGood ==
  ASSUME Setting, NEW o, NEW x, NEW y, Sketch(o, x, y), ReducedCost(o) < 0, NEW C, C = Fore(o, x),
         NEW k \in 1..Len(o)
  PROVE  ForeLabel(o, x, k, Ideal(C, k))
<1> DEFINE n == Len(o)
           l == Ideal(C, k)
           a == SubSeq(o, 1, k)
           raw == Raw[prob.net]
<1>1. Outset(o, x, y) /\ Halt(o, x, y, k) /\ \A i \in 1..n - 1 : Lap(o, x, y, i)  BY SketchParts
<1>2. /\ n \in Nat /\ n >= 3 /\ o \in Seq(Vertex) /\ x \in [1..n -> 0..T] /\ T \in Nat /\ k \in 0..Len(o)
      /\ Along(Loads(prob), o) <= raw.room /\ x[1] \in vrp.lo[Start]..vrp.hi[Start]
  BY <1>1 DEF Outset
<1>3. Outline(C)  BY ForeOutline
<1>4. C.d = 0 /\ C.path = o /\ C.from = x[1] /\ C.at[k] = {x[k]}
  BY <1>2 DEF Fore
<1>5. Roads(vrp, prob.A, C.d, C.path)  BY <1>4 DEF Sketch
<1>6. \A i \in 1..n : x[1] <= x[i] /\ x[i] <= x[n]  BY SketchRoads
<1>7. /\ Shaped(prob, vrp, 0, l) /\ l.path = a /\ DOMAIN l.dur = {x[k]} /\ l.dur[x[k]] = x[k] - x[1]
  <2>1. k \in 1..Len(C.path) /\ \A t \in C.at[k] : C.from <= t  BY <1>4, <1>6
  <2>2. Along(Loads(prob), C.path) <= Raw[prob.net].room  BY <1>2, <1>4
  <2>3. /\ Shaped(prob, vrp, C.d, Ideal(C, k))
         /\ Ideal(C, k).path = SubSeq(C.path, 1, k) /\ Rw(Ideal(C, k)) = C.at[k]
         /\ \A t \in C.at[k] : Ideal(C, k).dur[t] = t - C.from
    BY ONLY Setting, <1>3, <1>5, <2>1, <2>2, IdealShaped
  <2> QED BY <1>4, <2>3 DEF Rw
<1>8. Len(a) = k /\ \A i \in 1..k : a[i] = o[i]
  <2> HIDE DEF a
  <2>1. a = SubSeq(o, 1, k)  BY DEF a
  <2> QED BY ONLY <2>1, <1>2, PrefixIs
<1> HIDE DEF a, l, raw
<1>9. Forth(raw, vrp, a, x[k], x[k] - x[1])
  <2> DEFINE z == [i \in 1..k |-> x[i]]
  <2>1. Fits(raw, a[k], x[k])
    <3>1. Fits(raw, o[k], x[k]) /\ k \in 1..k  BY <1>1, <1>2 DEF Halt, raw
    <3> QED BY <1>8, <3>1
  <2>2. k \in 1..k /\ 1 \in 1..k /\ \A i \in 1..k - 1 : i \in 1..k /\ i + 1 \in 1..k /\ i \in 1..n - 1
    BY <1>2
  <2>3. z \in [1..k -> Int] /\ \A i \in 1..k : z[i] = x[i]
    <3>1. \A i \in 1..k : i \in 1..n  BY <1>2
    <3>2. \A t \in 0..T : t \in Int  BY <1>2
    <3> QED BY <1>2, <3>1, <3>2
  <2> HIDE DEF z
  <2>4. \A i \in 1..k - 1 : Linked(vrp, <<a[i], a[i + 1]>>, z[i], z[i + 1])
    <3> SUFFICES ASSUME NEW i \in 1..k - 1 PROVE Linked(vrp, <<a[i], a[i + 1]>>, z[i], z[i + 1])  OBVIOUS
    <3>1. Lap(o, x, y, i)  BY <1>1, <2>2
    <3>2. Linked(vrp, <<o[i], o[i + 1]>>, x[i], x[i + 1])  BY <3>1 DEF Lap
    <3> QED BY <1>8, <2>2, <2>3, <3>2
  <2>5. IsTrip(vrp, 0, a, z)  BY <1>8, <2>3, <2>4 DEF IsTrip, Hop
  <2>6. z[1] = x[1] /\ z[k] = x[k]  BY <2>2, <2>3
  <2> QED BY <1>2, <1>8, <2>1, <2>5, <2>6 DEF Forth
<1>10. Timed(prob, vrp, 0, l)  BY <1>7, <1>9 DEF Timed, raw
<1> QED BY <1>7, <1>10 DEF ForeLabel, Good, l, a, Rw

HomeBy(a, u, b) == \E z : IsTrip(vrp, 1, a, z) /\ z[Len(a)] = u /\ z[1] <= b

LEMMA RestBack ==
  ASSUME Setting, NEW o, NEW x, NEW y, Sketch(o, x, y), NEW k \in 1..Len(o), NEW i, i = Len(o) + 1 - k,
         NEW a \in Seq(Vertex), Len(a) = k, \A j \in 1..k : a[j] = o[Len(o) + 1 - j],
         NEW u, Fits(Raw[prob.net], o[i], u), u <= y[i]
  PROVE  HomeBy(a, u, x[Len(o)])
<1> DEFINE n == Len(o)
<1>1. Outset(o, x, y)  BY SketchParts
<1>2. n \in Nat /\ n >= 3 /\ x \in [1..n -> 0..T] /\ T \in Nat  BY <1>1 DEF Outset
<1>k. k \in 1..n /\ i = n + 1 - k  OBVIOUS
<1>3. i \in 1..n  BY ONLY <1>2, <1>k
<1>4. PICK w : Rest(o, x, i, u, w)
  <2>1. o \in Path /\ Ride(o, x) /\ Slack(o, x, y)  BY DEF Sketch
  <2>2. \A m \in 1..Len(o) : \A t : Fits(Raw[prob.net], o[m], t) /\ t <= y[m] => \E z : Rest(o, x, m, t, z)
    BY ONLY Setting, <2>1, RestIs
  <2> QED BY <1>3, <2>2
<1>5. /\ w \in [i..n -> Int] /\ w[i] = u /\ w[n] <= x[n]
      /\ \A m \in i..n - 1 : Drives(<<o[m], o[m + 1]>>, w[m], w[m + 1])
  BY <1>4 DEF Rest
<1>6. \A m \in 1..n - 1 : \A t, v : Drives(<<o[m], o[m + 1]>>, t, v) => Linked(vrp, <<o[m], o[m + 1]>>, t, v)
  BY SketchRoads
<1>7. Len(a) = k /\ \A j \in 1..k : a[j] = o[n + 1 - j]  OBVIOUS
<1> DEFINE z == [j \in 1..k |-> w[n + 1 - j]]
<1> HIDE DEF n
<1>8. z \in [1..k -> Int] /\ \A j \in 1..k : z[j] = w[n + 1 - j]
  <2>1. \A j \in 1..k : n + 1 - j \in i..n  BY ONLY <1>2, <1>k
  <2> QED BY <1>5, <2>1
<1> HIDE DEF z
<1>9. ASSUME NEW j \in 1..k - 1 PROVE Linked(vrp, <<a[j + 1], a[j]>>, z[j + 1], z[j])
  <2> DEFINE m == n - j
  <2>1. /\ m \in i..n - 1 /\ m \in 1..n - 1 /\ j \in 1..k /\ j + 1 \in 1..k /\ n + 1 - j = m + 1
        /\ n + 1 - (j + 1) = m
    BY ONLY <1>2, <1>k, <1>9
  <2> HIDE DEF m
  <2>2. Linked(vrp, <<o[m], o[m + 1]>>, w[m], w[m + 1])  BY <1>5, <1>6, <2>1
  <2>3. a[j] = o[m + 1] /\ z[j] = w[m + 1]
    <3>1. a[j] = o[n + 1 - j] /\ z[j] = w[n + 1 - j]  BY <1>7, <1>8, <2>1
    <3> QED BY <2>1, <3>1
  <2>4. a[j + 1] = o[m] /\ z[j + 1] = w[m]
    <3>1. a[j + 1] = o[n + 1 - (j + 1)] /\ z[j + 1] = w[n + 1 - (j + 1)]  BY <1>7, <1>8, <2>1
    <3> QED BY <2>1, <3>1
  <2> QED BY <2>2, <2>3, <2>4
<1>10. IsTrip(vrp, 1, a, z)
  <2>1. \A j \in 1..k - 1 : Hop(vrp, 1, a[j], a[j + 1], z[j], z[j + 1])  BY <1>9 DEF Hop
  <2>2. z \in [1..Len(a) -> Int]  BY <1>7, <1>8
  <2>3. \A j \in 1..Len(a) - 1 : Hop(vrp, 1, a[j], a[j + 1], z[j], z[j + 1])  BY <1>7, <2>1
  <2> QED BY ONLY <2>2, <2>3 DEF IsTrip
<1>11. z[k] = u /\ z[1] = w[n]
  <2>1. k \in 1..k /\ 1 \in 1..k /\ n + 1 - k = i /\ n + 1 - 1 = n  BY ONLY <1>2, <1>k
  <2>2. z[k] = w[n + 1 - k] /\ z[1] = w[n + 1 - 1]  BY <1>8, <2>1
  <2> QED BY <1>5, <2>1, <2>2
<1>12. IsTrip(vrp, 1, a, z) /\ z[Len(a)] = u /\ z[1] <= x[n]  BY <1>5, <1>7, <1>10, <1>11
<1> QED BY ONLY <1>12 DEF HomeBy, n

(* The label of the course backward, where it comes to the i-th stop of the route. *)
AftLabel(o, x, i, k, l) ==
  /\ Good(prob, vrp, 1, l) /\ l.path = SubSeq(Reverse(o), 1, k)
  /\ T - x[i] \in Rw(l) /\ l.dur[T - x[i]] = x[Len(o)] - x[i]
  /\ \A s \in Rw(l) : s \in Int /\ x[i] <= T - s /\ l.dur[s] = s - (T - x[Len(o)])

LEMMA AftGood ==
  ASSUME Setting, NEW o, NEW x, NEW y, Sketch(o, x, y), ReducedCost(o) < 0, NEW C, C = Aft(o, x, y),
         NEW k \in 1..Len(o), NEW i, i = Len(o) + 1 - k
  PROVE  AftLabel(o, x, i, k, Ideal(C, k))
<1> DEFINE n == Len(o)
           l == Ideal(C, k)
           path == C.path
           a == SubSeq(path, 1, k)
           raw == Raw[prob.net]
<1>1. Outset(o, x, y) /\ \A j \in 1..n : Halt(o, x, y, j)  BY SketchParts
<1>2. /\ n \in Nat /\ n >= 3 /\ o \in Seq(Vertex) /\ x \in [1..n -> 0..T] /\ T \in Nat /\ k \in 0..n /\ k \in 1..n
      /\ Along(Loads(prob), o) <= raw.room /\ IsInjective(o) /\ N \in Nat \ {0} /\ prob \in Problem
  <2>1. N \in Nat \ {0} /\ prob \in Problem  BY SettingIs DEF Sane, Setting
  <2>2. /\ n \in Nat /\ n >= 3 /\ o \in Seq(Vertex) /\ x \in [1..n -> 0..T] /\ T \in Nat
        /\ Along(Loads(prob), o) <= raw.room /\ IsInjective(o)
    BY <1>1 DEF Outset
  <2>3. k \in 0..n /\ k \in 1..n  BY <2>2
  <2> QED BY <2>1, <2>2, <2>3
<1>k. k \in 1..n /\ i = n + 1 - k /\ n \in Nat  BY <1>2
<1>3. Outline(C)  BY AftOutline
<1>4. C.d = 1 /\ path = Reverse(o) /\ C.from = T - x[n]
  BY DEF Aft
<1>r. /\ path \in Seq(Vertex) /\ Len(path) = n /\ Range(path) = Range(o) /\ IsInjective(path)
      /\ \A j \in 1..n : path[j] = o[n + 1 - j]
  <2>1. o \in Seq(Vertex) /\ IsInjective(o)  BY <1>2
  <2> HIDE DEF path
  <2> QED BY ONLY <2>1, <1>4, ReverseIs
<1>5. Astern(o, x, y, C, k, i)  BY <1>k, AftAt
<1>6. i \in 1..n /\ Halt(o, x, y, i)
  <2>1. i \in 1..n  BY ONLY <1>k
  <2> QED BY <1>1, <2>1
<1>7. \A t \in x[i]..y[i] : t <= x[n]
  <2>1. Slack(o, x, y) /\ y[n] = x[n]  BY <1>1 DEF Sketch, Outset
  <2>2. \A j \in 1..n - 1 : y[j] <= y[j + 1]
    <3> SUFFICES ASSUME NEW j \in 1..n - 1 PROVE y[j] <= y[j + 1]  OBVIOUS
    <3>1. PICK w \in Int : Drives(<<o[j], o[j + 1]>>, y[j], w) /\ w <= y[j + 1]  BY <2>1 DEF Slack
    <3>2. y[j] <= w /\ y[j] \in Int  BY <3>1, DrivesIs
    <3>3. j + 1 \in 1..n  BY <1>2
    <3>4. Halt(o, x, y, j + 1)  BY <1>1, <3>3
    <3>5. y[j + 1] \in Int  BY <3>4 DEF Halt
    <3> QED BY <3>1, <3>2, <3>5
  <2>3. y \in [1..n -> Int]  BY <2>1 DEF Slack
  <2>4. n \in i..n /\ n \in Nat /\ i \in 1..n  BY <1>2, <1>6
  <2> HIDE DEF n
  <2>5. y[i] <= y[n]  BY ONLY <2>2, <2>3, <2>4, Rising
  <2>6. y[i] \in Int /\ y[n] \in Int /\ x[i] \in Int  BY <1>6, <2>3, <2>4 DEF Halt
  <2> QED BY <2>1, <2>5, <2>6
<1> HIDE DEF path, n
<1>8. Roads(vrp, prob.A, C.d, path)
  <2> SUFFICES ASSUME NEW j \in 1..n - 1 PROVE Way(1, path[j], path[j + 1]) \in vrp.arcs \ prob.A
    BY <1>4, <1>r DEF Roads
  <2> DEFINE m == n - j
  <2>1. m \in 1..n - 1 /\ j \in 1..n /\ j + 1 \in 1..n /\ n + 1 - j = m + 1 /\ n + 1 - (j + 1) = m
    BY ONLY <1>k, j \in 1..n - 1
  <2> HIDE DEF m
  <2>2. path[j] = o[m + 1]
    <3>1. path[j] = o[n + 1 - j]  BY <1>r, <2>1
    <3> QED BY <2>1, <3>1
  <2>3. path[j + 1] = o[m]
    <3>1. path[j + 1] = o[n + 1 - (j + 1)]  BY <1>r, <2>1
    <3> QED BY <2>1, <3>1
  <2>4. <<o[m], o[m + 1]>> \in vrp.arcs \ prob.A
    <3>1. Roads(vrp, prob.A, 0, o)  BY DEF Sketch
    <3> QED BY <2>1, <3>1 DEF Roads, Way, n
  <2> QED BY <2>2, <2>3, <2>4 DEF Way
<1>9. Along(Loads(prob), path) <= raw.room
  <2>1. Loads(prob) \in [Vertex -> Int]  BY <1>2, SumFunctions
  <2>2. Along(Loads(prob), path) = Along(Loads(prob), o)  BY <1>2, <1>r, <2>1, SumSame
  <2> QED BY <1>2, <2>2
<1>x. /\ x[i] \in Int /\ y[i] \in Int /\ x[n] \in Int /\ x[i] <= y[i]
  <2>1. n \in 1..n  BY <1>2
  <2>2. Halt(o, x, y, n)  BY <1>1, <2>1
  <2> QED BY <1>6, <2>2 DEF Halt
<1>10. C.at[k] = {T - t : t \in x[i]..y[i]} /\ T - x[i] \in C.at[k]  BY <1>5 DEF Astern
<1>11. \A t \in x[i]..y[i] : t \in Int /\ T - x[n] <= T - t /\ (T - t) - (T - x[n]) = x[n] - t
  BY <1>2, <1>7, <1>x
<1>12. \A s \in C.at[k] : C.from <= s  BY <1>4, <1>10, <1>11
<1>13. /\ Shaped(prob, vrp, 1, l) /\ l.path = a /\ DOMAIN l.dur = C.at[k]
       /\ \A s \in C.at[k] : l.dur[s] = s - C.from
  <2>1. k \in 1..Len(C.path)  BY <1>2, <1>r DEF path
  <2>2. Along(Loads(prob), C.path) <= Raw[prob.net].room  BY <1>9 DEF path
  <2>3. Roads(vrp, prob.A, C.d, C.path)  BY <1>8 DEF path
  <2>4. /\ Shaped(prob, vrp, C.d, Ideal(C, k))
         /\ Ideal(C, k).path = SubSeq(C.path, 1, k) /\ Rw(Ideal(C, k)) = C.at[k]
         /\ \A t \in C.at[k] : Ideal(C, k).dur[t] = t - C.from
    BY ONLY Setting, <1>3, <1>12, <2>1, <2>2, <2>3, IdealShaped
  <2> QED BY <1>4, <2>4 DEF Rw, path
<1>14. a \in Seq(Vertex) /\ Len(a) = k /\ \A j \in 1..k : a[j] = o[n + 1 - j]
  <2> HIDE DEF a
  <2>1. a = SubSeq(path, 1, k) /\ path \in Seq(Vertex) /\ k \in 0..Len(path)  BY <1>2, <1>r DEF a
  <2>2. a \in Seq(Vertex) /\ Len(a) = k /\ \A j \in 1..k : a[j] = path[j]  BY ONLY <2>1, PrefixIs
  <2>3. \A j \in 1..k : j \in 1..n  BY <1>2
  <2> QED BY <1>r, <2>2, <2>3
<1> HIDE DEF a, l, raw
<1>15. ASSUME NEW s \in C.at[k] PROVE Back(raw, vrp, a, s, l.dur[s])
  <2>1. PICK t \in x[i]..y[i] : s = T - t  BY <1>10
  <2>2. l.dur[s] = x[n] - t /\ T - s = t /\ t <= y[i] /\ t \in Int
    <3>1. l.dur[s] = s - C.from  BY <1>13
    <3>2. t \in Int /\ t <= y[i]  BY <1>11, <1>x, <2>1
    <3>3. T - s = t  BY <1>2, <2>1, <3>2
    <3> QED BY <1>4, <1>11, <2>1, <3>1, <3>2, <3>3
  <2>3. T - s + l.dur[s] = x[n]  BY <1>x, <2>2
  <2> SUFFICES ASSUME NEW u \in Int, Fits(raw, a[Len(a)], u), u <= T - s
               PROVE \E z : IsTrip(vrp, 1, a, z) /\ z[Len(a)] = u /\ z[1] <= T - s + l.dur[s]
    BY DEF Back
  <2>4. Fits(raw, o[i], u)
    <3>1. k \in 1..k  BY <1>2
    <3>2. a[k] = o[n + 1 - k]  BY <1>14, <3>1
    <3> QED BY <1>14, <1>k, <3>2
  <2>5. u <= y[i]  BY <1>x, <2>2
  <2>6. \E z : IsTrip(vrp, 1, a, z) /\ z[k] = u /\ z[1] <= x[n]
    <3>1. a \in Seq(Vertex) /\ Len(a) = k /\ \A j \in 1..k : a[j] = o[Len(o) + 1 - j]  BY <1>14 DEF n
    <3>2. Fits(Raw[prob.net], o[i], u)  BY <2>4 DEF raw
    <3>3. HomeBy(a, u, x[Len(o)])
      BY ONLY Setting, Sketch(o, x, y), k \in 1..Len(o), i = Len(o) + 1 - k, <2>5, <3>1, <3>2, RestBack
    <3>4. HomeBy(a, u, x[n])  BY <3>3 DEF n
    <3> QED BY <1>14, <3>4 DEF HomeBy
  <2> QED BY <1>14, <2>3, <2>6
<1>16. Timed(prob, vrp, 1, l)  BY <1>13, <1>15 DEF Timed, raw
<1>17. l.dur[T - x[i]] = x[n] - x[i]
  <2>1. l.dur[T - x[i]] = (T - x[i]) - (T - x[n])  BY <1>4, <1>10, <1>13
  <2> QED BY <1>2, <1>x, <2>1
<1>18. \A s \in C.at[k] : s \in Int /\ x[i] <= T - s /\ l.dur[s] = s - (T - x[n])
  <2> SUFFICES ASSUME NEW s \in C.at[k] PROVE s \in Int /\ x[i] <= T - s /\ l.dur[s] = s - (T - x[n])
    OBVIOUS
  <2>1. PICK t \in x[i]..y[i] : s = T - t  BY <1>10
  <2>2. t \in Int /\ x[i] <= t  BY <1>11, <1>x, <2>1
  <2>3. s \in Int /\ T - s = t  BY <1>2, <2>1, <2>2
  <2>4. l.dur[s] = s - (T - x[n])  BY <1>4, <1>13
  <2> QED BY <2>2, <2>3, <2>4
<1> QED
  <2>1. Rw(l) = C.at[k] /\ Good(prob, vrp, 1, l)  BY <1>13, <1>16 DEF Good, Rw
  <2>2. l.path = SubSeq(Reverse(o), 1, k)  BY <1>4, <1>13 DEF a
  <2>3. AftLabel(o, x, i, k, l)  BY <1>10, <1>17, <1>18, <2>1, <2>2 DEF AftLabel, n
  <2> QED BY <2>3 DEF l

-----------------------------------------------------------------------------
(* Two labels that meet make a route, which is no longer than what they promise. *)
Meets(a, b, r, c) ==
  /\ Route(prob, vrp, r) /\ Checked(r) # Never /\ Checked(r) \in Int /\ Checked(r) <= c
  /\ Duals(r) = a.p + b.p - Profit(At(a)) /\ InCut(r) = a.n + b.n - Hits(At(a))

LEMMA MeetsIs ==
  ASSUME Setting, NEW a, Good(prob, vrp, 0, a), NEW b, Good(prob, vrp, 1, b), At(a) = At(b),
         a.q + b.q - Demand(At(a)) <= Raw[prob.net].room,
         Range(a.path) \cap Range(b.path) = {At(a)},
         NEW s \in Rw(a), NEW t \in Rw(b), s <= T - t
  PROVE  Meets(a, b, Joined(a, b), (a.dur[s] - s) + (T + b.dur[t] - t))
<1> DEFINE v == At(a)
           pa == a.path
           pb == b.path
           la == Len(pa)
           lb == Len(pb)
           path == Joined(a, b)
           raw == Raw[prob.net]
           c == (a.dur[s] - s) + (T + b.dur[t] - t)
<1>0. Setting /\ Good(prob, vrp, 0, a) /\ Good(prob, vrp, 1, b) /\ prob \in Problem /\ Posed(prob) /\ T \in Nat
  BY SettingIs DEF Setting, Sane
<1>1. /\ pa[la] = v /\ la >= 1 /\ pa \in Seq(Vertex) /\ v \in Vertex /\ s \in Int /\ a.dur[s] \in Int
      /\ la \in Nat /\ 1 \in 1..la /\ la \in 1..la /\ s \in DOMAIN a.dur
  <2>1. /\ pa[la] = v /\ la >= 1 /\ pa \in Seq(Vertex) /\ v \in Vertex /\ Rw(a) \subseteq 0..T /\ a.dur \in [Rw(a) -> Nat]
    BY <1>0, LabelTypes
  <2> QED BY <1>0, <2>1
<1>2. /\ pb[lb] = v /\ lb >= 1 /\ pb \in Seq(Vertex) /\ t \in Int /\ b.dur[t] \in Int
      /\ lb \in Nat /\ 1 \in 1..lb /\ lb \in 1..lb /\ t \in DOMAIN b.dur
  <2>1. /\ pb[lb] = v /\ lb >= 1 /\ pb \in Seq(Vertex) /\ Rw(b) \subseteq 0..T /\ b.dur \in [Rw(b) -> Nat]
    BY <1>0, LabelTypes
  <2> QED BY <1>0, <2>1
<1>3. /\ pa[1] = Start /\ IsInjective(pa) /\ Roads(vrp, prob.A, 0, pa)
      /\ a.q = Along(Loads(prob), pa) /\ a.p = Along(Profits(prob), pa)
      /\ a.n = Along(Counts(prob), pa)
  BY <1>0 DEF Good, Shaped, From
<1>4. /\ pb[1] = End /\ IsInjective(pb) /\ Roads(vrp, prob.A, 1, pb)
      /\ b.q = Along(Loads(prob), pb) /\ b.p = Along(Profits(prob), pb)
      /\ b.n = Along(Counts(prob), pb)
  BY <1>0 DEF Good, Shaped, From
<1>5. path = pa \o Reverse(Front(pb))
  BY DEF Joined, Parent
<1>6. Range(pa) \cap Range(pb) = {v} /\ a.q + b.q - Demand(v) <= raw.room
  OBVIOUS
<1>7. Forth(raw, vrp, pa, s, a.dur[s]) /\ Back(raw, vrp, pb, t, b.dur[t])
  BY <1>0, <1>1, <1>2 DEF Good, Timed
<1> HIDE DEF v, pa, pb, path, raw
<1>10. path \in Seq(Vertex) /\ Len(path) = la + lb - 1 /\ Len(path) >= 1
  <2>1. path \in Seq(Vertex) /\ Len(path) = la + lb - 1
    BY <1>1, <1>2, <1>5, JoinedParts
  <2>2. la \in Nat /\ lb \in Nat  BY <1>1, <1>2
  <2> HIDE DEF la, lb
  <2> QED BY <1>1, <1>2, <2>1, <2>2
<1>11. IsInjective(path) /\ path[1] = Start /\ path[Len(path)] = End
  <2>1. /\ IsInjective(path) /\ path[1] = pa[1] /\ path[la + lb - 1] = pb[1]
    BY <1>1, <1>2, <1>3, <1>4, <1>5, <1>6, JoinedInjective
  <2> QED BY <1>3, <1>4, <1>10, <2>1
<1>12. /\ Along(Loads(prob), path) = a.q + b.q - Demand(v)
       /\ Along(Profits(prob), path) = a.p + b.p - Profit(v)
       /\ Along(Counts(prob), path) = a.n + b.n - Hits(v)
  <2>1. \A f \in [Vertex -> Int] : Along(f, path) = Along(f, pa) + Along(f, pb) - f[v]
    BY <1>1, <1>2, <1>5, SumJoined
  <2>2. Loads(prob) \in [Vertex -> Int] /\ Profits(prob) \in [Vertex -> Int] /\ Counts(prob) \in [Vertex -> Int]
    BY <1>0, SumFunctions
  <2>3. Loads(prob)[v] = Demand(v) /\ Profits(prob)[v] = Profit(v) /\ Counts(prob)[v] = Hits(v)
    BY <1>1 DEF Loads, Profits, Counts, Demand, Profit, Hits
  <2> QED BY <1>3, <1>4, <2>1, <2>2, <2>3
<1>13. Roads(vrp, prob.A, 0, path)
  BY <1>1, <1>2, <1>3, <1>4, <1>5, TripJoined
<1>14. Route(prob, vrp, path)
  <2>1. Along(Loads(prob), path) <= Raw[prob.net].room  BY <1>6, <1>12 DEF raw
  <2> QED BY <1>0, <1>10, <1>11, <1>13, <2>1, RouteIs
<1>15. Durations(vrp, path) \subseteq Nat
  BY DEF Durations
<1>16. \E x : /\ IsTrip(vrp, 0, pa, x) /\ x[1] \in vrp.lo[Start]..vrp.hi[Start]
              /\ x[la] = s /\ s - x[1] = a.dur[s]
  BY <1>7 DEF Forth
<1>17. PICK x : /\ IsTrip(vrp, 0, pa, x) /\ x[1] \in vrp.lo[Start]..vrp.hi[Start]
                /\ x[la] = s /\ s - x[1] = a.dur[s]
  BY <1>16
<1>18. PICK y : IsTrip(vrp, 1, pb, y) /\ y[lb] = s /\ y[1] <= T - t + b.dur[t]
  <2>1. Fits(raw, pb[lb], s)  BY <1>1, <1>2, <1>7 DEF Forth
  <2> QED BY <1>1, <1>7, <2>1 DEF Back
<1>19. x[1] \in Int /\ y[1] \in Int
  <2>1. x \in [1..la -> Int] /\ y \in [1..lb -> Int]  BY <1>17, <1>18 DEF IsTrip
  <2> QED BY <1>1, <1>2, <2>1
<1>20. y[1] - x[1] <= c
  <2> DEFINE x1 == x[1]
             y1 == y[1]
             da == a.dur[s]
             db == b.dur[t]
  <2>1. /\ x1 \in Int /\ y1 \in Int /\ da \in Int /\ db \in Int
        /\ s - x1 = da /\ y1 <= T - t + db /\ c = (da - s) + (T + db - t)
    BY <1>1, <1>2, <1>17, <1>18, <1>19
  <2> HIDE DEF x1, y1, da, db, c
  <2>2. y1 - x1 <= c  BY <1>0, <1>1, <1>2, <2>1
  <2> QED BY <2>2 DEF x1, y1
<1>21. PICK z : IsTrip(vrp, 0, path, z) /\ z[1] = x[1] /\ z[Len(path)] = y[1]
  <2>1. Joinable(vrp, pa, pb, path)  BY <1>1, <1>2, <1>3, <1>5, TripJoined
  <2>2. x[Len(pa)] = y[Len(pb)]  BY <1>17, <1>18
  <2>3. \E z : IsTrip(vrp, 0, path, z) /\ z[1] = x[1] /\ z[Len(pa) + Len(pb) - 1] = y[1]
    BY <1>17, <1>18, <2>1, <2>2 DEF Joinable
  <2> QED BY <1>10, <2>3
<1>22. z[1] \in Int /\ z[Len(path)] \in Int /\ z[1] <= z[Len(path)]
  BY <1>0, <1>10, <1>21, TripForward
<1> DEFINE d == z[Len(path)] - z[1]
<1>23. d \in Nat /\ d = y[1] - x[1] /\ d \in Durations(vrp, path)
  <2>1. d \in Nat /\ d = y[1] - x[1]  BY <1>21, <1>22
  <2> QED BY <1>17, <1>21, <2>1 DEF Durations
<1>24. Checked(path) # Never /\ Checked(path) \in Nat /\ Checked(path) <= d
  <2>1. /\ Checked(path) \in Durations(vrp, path) /\ \A e \in Durations(vrp, path) : Checked(path) <= e
         /\ Checked(path) # Never
    BY <1>0, <1>14, <1>23, CheckedIs
  <2> QED BY <1>15, <1>23, <2>1
<1>25. Checked(path) <= c
  <2> DEFINE ch == Checked(path)
             e == y[1] - x[1]
  <2>1. ch \in Int /\ e \in Int /\ ch <= e /\ e <= c /\ c \in Int
    <3>1. c \in Int  BY <1>0, <1>1, <1>2
    <3> QED BY <1>19, <1>20, <1>23, <1>24, <3>1
  <2> HIDE DEF ch, e, c
  <2>2. ch <= c  BY <2>1
  <2> QED BY <2>2 DEF ch
<1>26. Duals(path) = Along(Profits(prob), path) /\ InCut(path) = Along(Counts(prob), path)
  BY DEF Duals, Profits, Profit, InCut, Counts, Hits
<1>27. Checked(path) \in Int  BY <1>24
<1> QED BY <1>12, <1>14, <1>24, <1>25, <1>26, <1>27 DEF Meets, path, c, v

(* A route, cut in two at a stop. *)
HalfAt(o, i, a, b) ==
  /\ Halves(o, i, a, b)
  /\ \A j \in 1..i : a[j] = o[j]
  /\ \A j \in 1..Len(o) + 1 - i : b[j] = o[Len(o) + 1 - j]

LEMMA HalvesIs ==
  ASSUME NEW o \in Seq(Vertex), Len(o) >= 3, IsInjective(o), NEW i \in 1..Len(o),
         NEW a, NEW b, a = SubSeq(o, 1, i), b = SubSeq(Reverse(o), 1, Len(o) + 1 - i)
  PROVE  HalfAt(o, i, a, b)
<1> DEFINE n == Len(o)
           r == Reverse(o)
           k == n + 1 - i
<1>1. o \in Seq(Vertex) /\ n >= 3 /\ n \in Nat /\ IsInjective(o)
  OBVIOUS
<1>2. r \in Seq(Vertex) /\ Len(r) = n /\ \A j \in 1..n : r[j] = o[n + 1 - j]
  <2> HIDE DEF r
  <2>1. r = Reverse(o)  BY DEF r
  <2> QED BY ONLY <1>1, <2>1, ReverseIs
<1>3. k \in 1..n /\ i \in 1..n /\ n + 1 - k = i
  BY <1>1
<1>3a. a = SubSeq(o, 1, i) /\ b = SubSeq(r, 1, k)
  OBVIOUS
<1> HIDE DEF r, k, n
<1>4. a \in Seq(Vertex) /\ Len(a) = i /\ \A j \in 1..i : a[j] = o[j]
  <2>1. i \in 0..Len(o)  BY <1>1, <1>3 DEF n
  <2> QED BY ONLY <1>1, <1>3a, <2>1, PrefixIs
<1>5. b \in Seq(Vertex) /\ Len(b) = k /\ \A j \in 1..k : b[j] = o[n + 1 - j]
  <2>1. k \in 0..Len(r) /\ r \in Seq(Vertex)  BY <1>1, <1>2, <1>3
  <2>2. b \in Seq(Vertex) /\ Len(b) = k /\ \A j \in 1..k : b[j] = r[j]
    BY ONLY <1>3a, <2>1, PrefixIs
  <2>3. \A j \in 1..k : j \in 1..n  BY <1>1, <1>3
  <2> QED BY <1>1, <1>2, <2>2, <2>3
<1>6. a[i] = o[i] /\ b[k] = o[i] /\ o[i] \in Vertex
  <2>1. i \in 1..i /\ k \in 1..k  BY <1>1, <1>3
  <2>2. b[k] = o[n + 1 - k]  BY <1>5, <2>1
  <2>3. o[i] \in Vertex  BY <1>1, <1>3, ElementOfSeq DEF n
  <2> QED BY <1>3, <1>4, <2>1, <2>2, <2>3
<1>7. a \o Reverse(Front(b)) = o
  <2> DEFINE c == a \o Reverse(Front(b))
  <2>1. /\ c \in Seq(Vertex) /\ Len(c) = Len(a) + Len(b) - 1
        /\ \A j \in 1..Len(a) + Len(b) - 1 : c[j] = IF j <= Len(a) THEN a[j] ELSE b[Len(a) + Len(b) - j]
    <3>1. Len(b) >= 1  BY <1>3, <1>5
    <3> QED BY <1>4, <1>5, <3>1, JoinedParts
  <2>2. Len(a) + Len(b) - 1 = n  BY <1>1, <1>3, <1>4, <1>5 DEF k
  <2> HIDE DEF c
  <2>3. \A j \in 1..n : c[j] = o[j]
    <3> SUFFICES ASSUME NEW j \in 1..n PROVE c[j] = o[j]  OBVIOUS
    <3>1. CASE j <= i
      <4>1. j \in 1..i  BY <3>1
      <4> QED BY <1>4, <2>1, <2>2, <3>1, <4>1
    <3>2. CASE ~(j <= i)
      <4> DEFINE h == i + k - j
      <4>1. h \in 1..k /\ n + 1 - h = j  BY <1>1, <1>3, <3>2 DEF k
      <4>2. c[j] = b[h]  BY <1>4, <1>5, <2>1, <2>2, <3>2
      <4> HIDE DEF h
      <4>3. b[h] = o[n + 1 - h]  BY <1>5, <4>1
      <4> QED BY <4>1, <4>2, <4>3
    <3> QED BY <3>1, <3>2
  <2>4. Len(c) = Len(o) /\ \A j \in 1..Len(o) : c[j] = o[j]  BY <2>1, <2>2, <2>3 DEF n
  <2>5. c = o  BY <1>1, <2>1, <2>4, SeqEqual
  <2> QED BY <2>5 DEF c
<1>8. Range(a) \cap Range(b) = {o[i]}
  <2>1. DOMAIN a = 1..i /\ DOMAIN b = 1..k /\ DOMAIN o = 1..n  BY <1>1, <1>4, <1>5 DEF n
  <2>2. o[i] \in Range(a) /\ o[i] \in Range(b)
    <3>1. i \in DOMAIN a /\ k \in DOMAIN b  BY <1>3, <2>1
    <3> QED BY <1>6, <3>1 DEF Range
  <2>3. ASSUME NEW v \in Range(a), v \in Range(b) PROVE v = o[i]
    <3>1. PICK j \in 1..i : v = o[j]  BY <1>4, <2>1, <2>3 DEF Range
    <3>2. PICK h \in 1..k : v = o[n + 1 - h]  BY <1>5, <2>1, <2>3 DEF Range
    <3>3. j \in 1..n /\ n + 1 - h \in 1..n /\ n + 1 - h >= i  BY <1>1, <1>3 DEF k
    <3>4. j = n + 1 - h
      <4>1. o[j] = o[n + 1 - h]  BY <3>1, <3>2
      <4> QED BY <1>1, <2>1, <3>3, <4>1 DEF IsInjective
    <3>5. j = i  BY <1>1, <1>3, <3>1, <3>3, <3>4
    <3> QED BY <3>1, <3>5
  <2> QED BY <2>2, <2>3
<1>9. n + 1 - i \in 1..n /\ Len(b) = n + 1 - i /\ b[Len(b)] = o[i]
  BY <1>1, <1>3, <1>5, <1>6 DEF k
<1> QED BY <1>1, <1>4, <1>5, <1>6, <1>7, <1>8, <1>9 DEF HalfAt, Halves, k, n

-----------------------------------------------------------------------------
(* What a label gains and loses by the visits to the cut, whatever is yet to come. *)
LEMMA CutTrade ==
  ASSUME Setting, NEW ln \in Nat, NEW mn \in Nat, NEW e \in Nat, ln + e <= 3, mn + e <= 3
  PROVE  CutCost(mn) + (IF mn = 1 /\ ln # 1 THEN prob.sigma ELSE 0) + CutCost(ln + e) <= CutCost(ln) + CutCost(mn + e)
<1> DEFINE s == prob.sigma
<1>1. s \in Int /\ s <= 0  BY SettingIs DEF Posed
<1>2. /\ CutCost(mn) = (IF mn >= 2 THEN s ELSE 0) /\ CutCost(ln) = (IF ln >= 2 THEN s ELSE 0)
      /\ CutCost(ln + e) = (IF ln + e >= 2 THEN s ELSE 0) /\ CutCost(mn + e) = (IF mn + e >= 2 THEN s ELSE 0)
  BY DEF CutCost
<1> HIDE DEF s
<1>3. (IF mn >= 2 THEN s ELSE 0) + (IF mn = 1 /\ ln # 1 THEN s ELSE 0) + (IF ln + e >= 2 THEN s ELSE 0)
        <= (IF ln >= 2 THEN s ELSE 0) + (IF mn + e >= 2 THEN s ELSE 0)
  BY <1>1
<1> QED BY <1>2, <1>3 DEF s

(* A label whose time is due is, at a time of its own, no later than t and all of the
   difference h ahead of one that set out at b. *)
Overtakes(m, h, t, b) ==
  \E u \in Rw(m) : u \in Int /\ u <= t /\ m.dur[u] \in Int /\ m.dur[u] - u + h <= -b

(* A dominated time: the rival is there no later, and the whole difference is made up. *)
LEMMA WorseIs ==
  ASSUME Setting, NEW d, NEW m, Good(prob, vrp, d, m), NEW l, l.p \in Int, l.n \in Int, NEW b \in Int, NEW t \in Int,
         l.dur[t] = t - b, Worse(l, m, t)
  PROVE  Theta(l, m) \in Int /\ Overtakes(m, Theta(l, m), t, b)
<1>1. Rw(m) \subseteq 0..T /\ Rw(m) # {} /\ m.dur \in [Rw(m) -> Nat] /\ m.p \in Int /\ m.n \in Int
  BY LabelTypes
<1>2. T \in Nat /\ prob.sigma \in Int  BY SettingIs DEF Sane, Posed
<1> DEFINE R == Rw(m)
           end == Max(R)
           h == Theta(l, m)
<1>3. h \in Int
  <2>1. CutCost(l.n) \in Int /\ CutCost(m.n) \in Int  BY CutCostInt
  <2> DEFINE x == l.p
             y == m.p
             cl == CutCost(l.n)
             cm == CutCost(m.n)
             s == IF m.n = 1 /\ l.n # 1 THEN prob.sigma ELSE 0
  <2>2. x \in Int /\ y \in Int /\ cl \in Int /\ cm \in Int /\ s \in Int /\ h = x + cl - y - cm - s
    BY <1>1, <1>2, <2>1 DEF Theta
  <2> HIDE DEF x, y, cl, cm, s, h
  <2> QED BY <2>2
<1>4. end \in R
  <2>1. R \subseteq Int /\ R # {} /\ T \in Int /\ \A x \in R : x <= T  BY <1>1, <1>2
  <2> HIDE DEF R
  <2> QED BY <2>1, MaxIs
<1>5. \A u \in R : u \in Int /\ m.dur[u] \in Int  BY <1>1, <1>2
<1> HIDE DEF h
<1>6. \/ t \in R /\ l.dur[t] >= m.dur[t] + h
      \/ t > end /\ l.dur[t] >= m.dur[end] + (t - end) + h
  BY DEF Worse, h
<1>s. SUFFICES \E u \in R : u \in Int /\ u <= t /\ m.dur[u] \in Int /\ m.dur[u] - u + h <= -b
  BY <1>3 DEF Overtakes, h
<1> HIDE DEF end, R
<1>7. CASE t \in R /\ l.dur[t] >= m.dur[t] + h
  <2> DEFINE g == m.dur[t]
  <2>1. g \in Int /\ t - b >= g + h  BY <1>5, <1>7
  <2> HIDE DEF g
  <2>2. g - t + h <= -b  BY <1>3, <2>1
  <2>3. t <= t  OBVIOUS
  <2> QED BY <1>3, <1>5, <1>7, <2>2, <2>3 DEF g
<1>8. CASE t > end /\ l.dur[t] >= m.dur[end] + (t - end) + h
  <2> DEFINE g == m.dur[end]
  <2>1. g \in Int /\ end \in Int /\ end < t /\ t - b >= g + (t - end) + h  BY <1>4, <1>5, <1>8
  <2> HIDE DEF g
  <2>2. g - end + h <= -b /\ end <= t  BY <1>3, <2>1
  <2> QED BY <1>3, <1>4, <1>5, <2>1, <2>2 DEF g
<1> QED BY <1>6, <1>7, <1>8

Champion(o) == o \in Target /\ \A p \in Target : ReducedCost(o) <= ReducedCost(p)

LEMMA CostInt ==
  ASSUME Setting, NEW r \in Path, Checked(r) \in Int
  PROVE  /\ Duals(r) \in Int /\ InCut(r) \in 0..3 /\ ReducedCost(r) \in Int
         /\ Duals(r) = Along(Profits(prob), r) /\ InCut(r) = Along(Counts(prob), r)
<1>1. N \in Nat \ {0} /\ prob \in Problem  BY SettingIs DEF Sane, Setting
<1>2. r \in Seq(Vertex) /\ IsInjective(r) /\ Len(r) >= 1  BY <1>1, PathShape
<1>3. Duals(r) = Along(Profits(prob), r) /\ InCut(r) = Along(Counts(prob), r)
  BY DEF Duals, Profits, Profit, InCut, Counts, Hits
<1>4. Along(Profits(prob), r) \in Int
  <2>1. Profits(prob) \in [Vertex -> Int]  BY <1>1, SumFunctions
  <2> QED BY <1>2, <2>1, SumInt
<1>5. Along(Counts(prob), r) \in 0..3  BY <1>2, CountsIs
<1>6. CutCost(InCut(r)) \in Int  BY CutCostInt
<1>7. ReducedCost(r) = Checked(r) - Duals(r) - CutCost(InCut(r))  BY DEF ReducedCost
<1> QED BY <1>3, <1>4, <1>5, <1>6, <1>7

(* Nobody who is alike undercuts a champion that ties with no one. *)
LEMMA Unbeaten ==
  ASSUME Setting, NEW o, Champion(o), Checked(o) \in Int, ~Tied(o), NEW r, Route(prob, vrp, r),
         Checked(r) # Never, Checked(r) \in Int, ReducedCost(r) <= ReducedCost(o), Alike(r, o)
  PROVE  r = o
<1>1. o \in Path /\ ReducedCost(o) < 0  BY DEF Champion, Target, Negative
<1>2. r \in Path /\ Roads(vrp, prob.A, 0, r)  BY DEF Route
<1>3. ReducedCost(o) \in Int /\ ReducedCost(r) \in Int  BY <1>1, <1>2, CostInt
<1>4. r \in Negative  BY <1>1, <1>2, <1>3 DEF Negative
<1>5. r \in Target
  <2>1. r \notin Using(prob.A \cup (Arc \ vrp.arcs))
    <3>1. \A i \in 1..Len(r) - 1 : <<r[i], r[i + 1]>> \in vrp.arcs \ prob.A  BY <1>2 DEF Roads, Way
    <3> QED BY <3>1 DEF Using
  <2> QED BY <1>4, <2>1 DEF Target
<1>6. ReducedCost(r) = ReducedCost(o)  BY <1>3, <1>5 DEF Champion
<1> QED BY <1>5, <1>6 DEF Tied

(* The rival in the place of the part of the route it dominates. *)
LEMMA NoDearer ==
  ASSUME Setting, NEW o \in Path, Checked(o) \in Int, NEW r \in Path, Checked(r) \in Int,
         NEW l, l.p \in Int, l.n \in Nat, NEW m, m.p \in Int, m.n \in Nat, NEW c, c.p \in Int, c.n \in Nat,
         NEW v \in Vertex, Hits(v) <= c.n, Theta(l, m) \in Int,
         Duals(o) = l.p + c.p - Profit(v), InCut(o) = l.n + c.n - Hits(v),
         Duals(r) = m.p + c.p - Profit(v), InCut(r) = m.n + c.n - Hits(v),
         Checked(r) <= Checked(o) - Theta(l, m)
  PROVE  ReducedCost(r) <= ReducedCost(o)
<1> DEFINE e == c.n - Hits(v)
           s == IF m.n = 1 /\ l.n # 1 THEN prob.sigma ELSE 0
           lp == l.p
           mp == m.p
           cp == c.p
           ln == l.n
           mn == m.n
           P == Profit(v)
           cl == CutCost(ln)
           cm == CutCost(mn)
           cle == CutCost(ln + e)
           cme == CutCost(mn + e)
           ro == ReducedCost(o)
           rr == ReducedCost(r)
           h == Theta(l, m)
           co == Checked(o)
           cr == Checked(r)
<1>0. prob.sigma \in Int /\ P \in Int /\ Hits(v) \in 0..1  BY SettingIs DEF Posed, Profit, Hits
<1>1. e \in Nat /\ ln \in Nat /\ mn \in Nat  BY <1>0
<1>2. InCut(o) = ln + e /\ InCut(r) = mn + e
  <2> DEFINE cn == c.n
             hv == Hits(v)
  <2>1. cn \in Int /\ hv \in Int /\ e = cn - hv /\ InCut(o) = ln + cn - hv /\ InCut(r) = mn + cn - hv  BY <1>0
  <2> HIDE DEF cn, hv, e, ln, mn
  <2> QED BY <1>1, <2>1
<1>3. ln + e <= 3 /\ mn + e <= 3
  <2>1. InCut(o) \in 0..3 /\ InCut(r) \in 0..3  BY CostInt
  <2> DEFINE io == InCut(o)
             ir == InCut(r)
  <2>2. io = ln + e /\ ir = mn + e /\ io \in 0..3 /\ ir \in 0..3  BY <1>2, <2>1
  <2> HIDE DEF e, ln, mn, io, ir
  <2>3. ln + e \in 0..3 /\ mn + e \in 0..3  BY ONLY <2>2
  <2> QED BY ONLY <1>1, <2>3
<1>4. cm + s + cle <= cl + cme
  <2> HIDE DEF e
  <2>1. CutCost(mn) + (IF mn = 1 /\ ln # 1 THEN prob.sigma ELSE 0) + CutCost(ln + e) <= CutCost(ln) + CutCost(mn + e)
    BY <1>1, <1>3, CutTrade
  <2> QED BY <2>1
<1>5. cl \in Int /\ cm \in Int /\ cle \in Int /\ cme \in Int  BY CutCostInt
<1>6. h = lp + cl - mp - cm - s  BY DEF Theta
<1>7. ro = co - (lp + cp - P) - cle /\ rr = cr - (mp + cp - P) - cme
  <2> HIDE DEF e, ln, mn
  <2>1. ro = co - Duals(o) - CutCost(InCut(o)) /\ rr = cr - Duals(r) - CutCost(InCut(r))  BY DEF ReducedCost
  <2> QED BY <1>2, <2>1
<1>8. lp \in Int /\ mp \in Int /\ cp \in Int /\ co \in Int /\ cr \in Int /\ s \in Int /\ cr <= co - h /\ h \in Int
  BY <1>0
<1> HIDE DEF e, s, lp, mp, cp, P, cl, cm, cle, cme, ro, rr, h, co, cr, ln, mn
<1>9. rr <= ro  BY ONLY <1>0, <1>4, <1>5, <1>6, <1>7, <1>8
<1> QED BY <1>9 DEF rr, ro

LEMMA LabelCount ==
  ASSUME Setting, NEW d, NEW m, Good(prob, vrp, d, m)
  PROVE  /\ m.n \in Nat /\ Hits(At(m)) <= m.n /\ m.p \in Int /\ m.q \in Int /\ At(m) \in Vertex
         /\ Hits(At(m)) \in 0..1 /\ Demand(At(m)) \in Int
         /\ m.path \in Seq(Vertex) /\ Len(m.path) >= 1 /\ At(m) = m.path[Len(m.path)] /\ IsInjective(m.path)
         /\ m.path[1] = From(d) /\ m.q = Along(Loads(prob), m.path) /\ m.p = Along(Profits(prob), m.path)
         /\ m.n = Along(Counts(prob), m.path) /\ Range(m.path) \subseteq m.U
<1>1. /\ m.path \in Seq(Vertex) /\ Len(m.path) >= 1 /\ At(m) = m.path[Len(m.path)] /\ At(m) \in Vertex
      /\ m.q \in Int /\ m.p \in Int
  BY LabelTypes
<1>2. /\ m.path[1] = From(d) /\ m.q = Along(Loads(prob), m.path) /\ m.p = Along(Profits(prob), m.path)
      /\ m.n = Along(Counts(prob), m.path) /\ IsInjective(m.path) /\ Range(m.path) \subseteq m.U
  BY DEF Good, Shaped
<1>3. /\ Along(Counts(prob), m.path) \in 0..3
      /\ Counts(prob)[m.path[Len(m.path)]] <= Along(Counts(prob), m.path)
  BY <1>1, <1>2, CountsIs
<1>4. Counts(prob)[At(m)] = Hits(At(m)) /\ Hits(At(m)) \in 0..1  BY <1>1 DEF Counts, Hits
<1>5. m.n \in Nat /\ Hits(At(m)) <= m.n  BY <1>1, <1>2, <1>3, <1>4
<1>6. Demand(At(m)) \in Int
  <2>1. Raw[prob.net].load \in [Vertex -> Nat]  BY SettingIs DEF Sane, Proper
  <2> QED BY <1>1, <2>1 DEF Demand
<1> QED BY <1>1, <1>2, <1>4, <1>5, <1>6

(* The labels of the two courses of a route, at a stop. *)
Fitted(o, x, i, a, b) ==
  /\ Good(prob, vrp, 0, a) /\ Good(prob, vrp, 1, b) /\ HalfAt(o, i, a.path, b.path)
  /\ At(a) = o[i] /\ At(b) = o[i]
  /\ a.q + b.q - Demand(o[i]) = Along(Loads(prob), o)
  /\ Duals(o) = a.p + b.p - Profit(o[i]) /\ InCut(o) = a.n + b.n - Hits(o[i])
  /\ ForeLabel(o, x, i, a) /\ AftLabel(o, x, i, Len(o) + 1 - i, b)

LEMMA FittedIs ==
  ASSUME Setting, NEW o, NEW x, NEW y, Sketch(o, x, y), ReducedCost(o) < 0, NEW i \in 1..Len(o),
         NEW a, a = Ideal(Fore(o, x), i), NEW b, b = Ideal(Aft(o, x, y), Len(o) + 1 - i)
  PROVE  Fitted(o, x, i, a, b)
<1> DEFINE n == Len(o)
           k == n + 1 - i
           v == o[i]
<1>1. Outset(o, x, y)  BY SketchParts
<1>2. n \in Nat /\ n >= 3 /\ o \in Seq(Vertex) /\ IsInjective(o) /\ prob \in Problem
  BY <1>1, SettingIs DEF Outset, Setting
<1>3. k \in 1..n /\ i = n + 1 - k  BY <1>2
<1>4. ForeLabel(o, x, i, a)
  <2> DEFINE C == Fore(o, x)
  <2>1. C = Fore(o, x)  OBVIOUS
  <2> HIDE DEF C
  <2>2. ForeLabel(o, x, i, Ideal(C, i))
    BY ONLY Setting, Sketch(o, x, y), ReducedCost(o) < 0, <2>1, i \in 1..Len(o), ForeGood
  <2> QED BY <2>1, <2>2
<1>5. AftLabel(o, x, i, k, b)
  <2> DEFINE C == Aft(o, x, y)
  <2> HIDE DEF k
  <2>1. C = Aft(o, x, y) /\ i = Len(o) + 1 - k /\ k \in 1..Len(o)  BY <1>3
  <2> HIDE DEF C
  <2>2. AftLabel(o, x, i, k, Ideal(C, k))
    BY ONLY Setting, Sketch(o, x, y), ReducedCost(o) < 0, <2>1, AftGood
  <2>3. b = Ideal(C, k)  BY <2>1 DEF k
  <2> QED BY <2>2, <2>3
<1>g. Good(prob, vrp, 0, a) /\ Good(prob, vrp, 1, b)  BY <1>4, <1>5 DEF ForeLabel, AftLabel
<1> DEFINE pa == a.path
           pb == b.path
<1>6. HalfAt(o, i, pa, pb)
  <2>1. pa = SubSeq(o, 1, i) /\ pb = SubSeq(Reverse(o), 1, Len(o) + 1 - i)
    BY <1>4, <1>5 DEF ForeLabel, AftLabel
  <2>2. o \in Seq(Vertex) /\ Len(o) >= 3 /\ IsInjective(o)  BY <1>2
  <2> HIDE DEF pa, pb
  <2> QED BY ONLY <2>1, <2>2, i \in 1..Len(o), HalvesIs
<1>7. /\ pa \in Seq(Vertex) /\ pb \in Seq(Vertex) /\ Len(pa) >= 1 /\ Len(pb) >= 1
      /\ At(a) = pa[Len(pa)] /\ At(b) = pb[Len(pb)]
      /\ a.q = Along(Loads(prob), pa) /\ a.p = Along(Profits(prob), pa) /\ a.n = Along(Counts(prob), pa)
      /\ b.q = Along(Loads(prob), pb) /\ b.p = Along(Profits(prob), pb) /\ b.n = Along(Counts(prob), pb)
  BY <1>g, LabelCount
<1>8. pa[Len(pa)] = v /\ pb[Len(pb)] = v /\ pa \o Reverse(Front(pb)) = o
  BY <1>6 DEF HalfAt, Halves
<1>9. ASSUME NEW f \in [Vertex -> Int] PROVE Along(f, o) = Along(f, pa) + Along(f, pb) - f[v]
  <2> HIDE DEF pa, pb, v
  <2>1. Along(f, pa \o Reverse(Front(pb))) = Along(f, pa) + Along(f, pb) - f[v]  BY <1>7, <1>8, SumJoined
  <2> QED BY <1>8, <2>1
<1> HIDE DEF pa, pb
<1>10. /\ a.q + b.q - Demand(v) = Along(Loads(prob), o)
       /\ Duals(o) = a.p + b.p - Profit(v) /\ InCut(o) = a.n + b.n - Hits(v)
  <2>1. Loads(prob) \in [Vertex -> Int] /\ Profits(prob) \in [Vertex -> Int] /\ Counts(prob) \in [Vertex -> Int]
    BY <1>2, SumFunctions
  <2>2. v \in Vertex  BY <1>2, ElementOfSeq
  <2>3. Loads(prob)[v] = Demand(v) /\ Profits(prob)[v] = Profit(v) /\ Counts(prob)[v] = Hits(v)
    BY <2>2 DEF Loads, Profits, Counts, Demand, Profit, Hits
  <2>4. Duals(o) = Along(Profits(prob), o) /\ InCut(o) = Along(Counts(prob), o)
    BY DEF Duals, Profits, Profit, InCut, Counts, Hits
  <2> HIDE DEF v
  <2>5. Along(Loads(prob), o) = Along(Loads(prob), pa) + Along(Loads(prob), pb) - Demand(v)  BY <1>9, <2>1, <2>3
  <2>6. Along(Profits(prob), o) = Along(Profits(prob), pa) + Along(Profits(prob), pb) - Profit(v)  BY <1>9, <2>1, <2>3
  <2>7. Along(Counts(prob), o) = Along(Counts(prob), pa) + Along(Counts(prob), pb) - Hits(v)  BY <1>9, <2>1, <2>3
  <2> QED BY <1>7, <2>4, <2>5, <2>6, <2>7
<1>11. HalfAt(o, i, a.path, b.path) /\ At(a) = v /\ At(b) = v  BY <1>6, <1>7, <1>8 DEF pa, pb
<1> QED BY <1>4, <1>5, <1>g, <1>10, <1>11 DEF Fitted

-----------------------------------------------------------------------------
(* The halves of a route are its own. *)
LEMMA FrontFound ==
  ASSUME NEW o \in Seq(Vertex), NEW a \in Seq(Vertex), NEW b \in Seq(Vertex), NEW k \in 1..Len(o),
         Len(b) = Len(o) + 1 - k, a \o Reverse(Front(b)) = o
  PROVE  a = SubSeq(o, 1, k)
<1> DEFINE n == Len(o)
           s == SubSeq(o, 1, k)
           la == Len(a)
<1>1. n \in Nat /\ k \in 0..n /\ Len(b) >= 1 /\ la \in Nat  OBVIOUS
<1>2. /\ n = la + Len(b) - 1
      /\ \A j \in 1..la + Len(b) - 1 : o[j] = IF j <= la THEN a[j] ELSE b[la + Len(b) - j]
  BY <1>1, JoinedParts
<1>3. s \in Seq(Vertex) /\ Len(s) = k /\ \A j \in 1..k : s[j] = o[j]
  <2> HIDE DEF s
  <2>1. s = SubSeq(o, 1, k) /\ k \in 0..Len(o) /\ o \in Seq(Vertex)  BY <1>1 DEF s
  <2> QED BY ONLY <2>1, PrefixIs
<1>4. la = k
  <2>1. Len(b) = n + 1 - k  OBVIOUS
  <2> HIDE DEF la, n
  <2> QED BY ONLY <1>1, <1>2, <2>1, k \in Nat
<1>5. \A j \in 1..k : a[j] = o[j]
  <2>1. \A j \in 1..k : j <= la /\ j \in 1..n  BY <1>1, <1>4
  <2> HIDE DEF la, n
  <2> QED BY <1>2, <2>1
<1> HIDE DEF s
<1>6. a = s  BY <1>3, <1>4, <1>5, SeqEqual
<1> QED BY <1>6 DEF s

LEMMA BackFound ==
  ASSUME NEW o \in Seq(Vertex), NEW a \in Seq(Vertex), NEW b \in Seq(Vertex), NEW i \in 1..Len(o), Len(b) >= 1,
         Len(a) = i, b[Len(b)] = a[i], a \o Reverse(Front(b)) = o
  PROVE  b = SubSeq(Reverse(o), 1, Len(o) + 1 - i)
<1> DEFINE n == Len(o)
           r == Reverse(o)
           k == n + 1 - i
           s == SubSeq(r, 1, k)
           lb == Len(b)
<1>1. n \in Nat /\ k \in 1..n /\ k \in 0..n /\ lb \in Nat /\ lb >= 1 /\ i \in 1..n  OBVIOUS
<1>2. /\ n = i + lb - 1
      /\ \A j \in 1..i + lb - 1 : o[j] = IF j <= i THEN a[j] ELSE b[i + lb - j]
  BY JoinedParts
<1>r. r \in Seq(Vertex) /\ Len(r) = n /\ \A j \in 1..n : r[j] = o[n + 1 - j]
  <2> HIDE DEF r
  <2>1. r = Reverse(o) /\ o \in Seq(Vertex)  BY DEF r
  <2> QED BY ONLY <2>1, ReverseIs
<1> HIDE DEF r
<1>3. s \in Seq(Vertex) /\ Len(s) = k /\ \A j \in 1..k : s[j] = r[j]
  <2> HIDE DEF s, k
  <2>1. s = SubSeq(r, 1, k) /\ k \in 0..Len(r) /\ r \in Seq(Vertex)  BY <1>1, <1>r DEF s
  <2> QED BY ONLY <2>1, PrefixIs
<1> HIDE DEF n, lb, s
<1>4. lb = k  BY ONLY <1>1, <1>2 DEF k
<1>5. ASSUME NEW j \in 1..k PROVE b[j] = r[j]
  <2> DEFINE h == n + 1 - j
  <2>1. h \in 1..n /\ h \in 1..i + lb - 1 /\ i + lb - h = j /\ (j < k => ~(h <= i)) /\ (j = k => h <= i /\ h = i) /\ j \in 1..n
    BY ONLY <1>1, <1>2, <1>4, j \in 1..k DEF k
  <2>2. r[j] = o[h]  BY <1>r, <2>1
  <2> HIDE DEF h, k
  <2>3. o[h] = IF h <= i THEN a[h] ELSE b[i + lb - h]  BY <1>2, <2>1
  <2>4. CASE j = k
    <3>1. o[h] = a[i]  BY <2>1, <2>3, <2>4
    <3>2. b[j] = a[i]  BY <1>4, <2>4 DEF lb
    <3> QED BY <2>2, <3>1, <3>2
  <2>5. CASE j < k
    <3>1. o[h] = b[j]  BY <2>1, <2>3, <2>5
    <3> QED BY <2>2, <3>1
  <2>6. j <= k  BY <1>1 DEF k
  <2>7. j = k \/ j < k  BY ONLY <2>6, <1>1, j \in 1..k DEF k
  <2> QED BY <2>4, <2>5, <2>7
<1>6. \A j \in 1..k : b[j] = s[j]  BY <1>3, <1>5
<1> HIDE DEF k
<1>7. Len(b) = Len(s) /\ \A j \in 1..Len(b) : b[j] = s[j]  BY <1>3, <1>4, <1>6 DEF lb
<1>8. b = s  BY <1>3, <1>7, SeqEqual
<1> QED BY <1>8 DEF s, k, r, n

-----------------------------------------------------------------------------
(* A label that dominates the champion's at its stop, and could finish as the champion
   does, is the champion's. *)
LEMMA ForeBeaten ==
  ASSUME Setting, NEW o, NEW x, NEW y, Outset(o, x, y), Champion(o), ~Tied(o), NEW k \in 1..Len(o) - 1,
         NEW l, NEW c, Fitted(o, x, k, l, c), NEW m, Good(prob, vrp, 0, m), At(m) = o[k], m.q <= l.q,
         \A j \in k + 1..Len(o) : o[j] \notin m.U, Worse(l, m, x[k])
  PROVE  m.path = SubSeq(o, 1, k)
<1> DEFINE n == Len(o)
           v == o[k]
           pm == m.path
           pb == c.path
           r == Joined(m, c)
           la == Len(pm)
           lb == Len(pb)
<1>1. /\ n \in Nat /\ n >= 3 /\ o \in Seq(Vertex) /\ IsInjective(o) /\ o \in Path /\ T \in Nat
      /\ x \in [1..n -> 0..T] /\ x[n] - x[1] = Checked(o) /\ Along(Loads(prob), o) <= Raw[prob.net].room
  BY DEF Outset
<1>2. k \in 1..n /\ n \in 1..n /\ 1 \in 1..n /\ n + 1 - k \in 1..n /\ n + 1 - k >= 2  BY <1>1
<1>3. x[1] \in Int /\ x[k] \in Int /\ x[n] \in Int /\ Checked(o) \in Int
  <2>1. \A t \in 0..T : t \in Int  BY <1>1
  <2>2. x[1] \in Int /\ x[k] \in Int /\ x[n] \in Int  BY <1>1, <1>2, <2>1
  <2> QED BY <1>1, <2>2
<1>4. /\ Good(prob, vrp, 0, l) /\ Good(prob, vrp, 1, c) /\ At(l) = v /\ At(c) = v
      /\ l.q + c.q - Demand(v) = Along(Loads(prob), o)
      /\ Duals(o) = l.p + c.p - Profit(v) /\ InCut(o) = l.n + c.n - Hits(v)
      /\ HalfAt(o, k, l.path, pb)
  BY DEF Fitted
<1>5. /\ l.dur[x[k]] = x[k] - x[1]
      /\ T - x[k] \in Rw(c) /\ c.dur[T - x[k]] = x[n] - x[k]
  BY DEF Fitted, ForeLabel, AftLabel
<1>6. pb \in Seq(Vertex) /\ lb = n + 1 - k /\ \A j \in 1..n + 1 - k : pb[j] = o[n + 1 - j]
  <2>1. pb \in Seq(Vertex) /\ lb = n + 1 - k  BY <1>4 DEF HalfAt, Halves
  <2>2. \A j \in 1..n + 1 - k : pb[j] = o[n + 1 - j]  BY <1>4 DEF HalfAt
  <2> QED BY <2>1, <2>2
<1>7. /\ l.p \in Int /\ l.n \in Nat /\ l.q \in Int /\ c.p \in Int /\ c.n \in Nat /\ c.q \in Int /\ Hits(v) <= c.n
      /\ v \in Vertex /\ Demand(v) \in Int
  BY <1>4, LabelCount
<1>8. /\ m.p \in Int /\ m.n \in Nat /\ m.q \in Int /\ pm \in Seq(Vertex) /\ la >= 1 /\ la \in Nat /\ pm[la] = v
      /\ Range(pm) \subseteq m.U
  BY LabelCount
<1> HIDE DEF pm, pb, n, la, lb
<1>9. Range(pm) \cap Range(pb) = {v}
  <2>1. DOMAIN pm = 1..la /\ DOMAIN pb = 1..lb  BY <1>6, <1>8 DEF la, lb
  <2>2. v \in Range(pm)
    <3>1. la \in 1..la  BY <1>8
    <3> QED BY <1>8, <2>1, <3>1 DEF Range
  <2>3. v \in Range(pb)
    <3>1. n + 1 - k \in 1..n + 1 - k /\ n + 1 - (n + 1 - k) = k  BY <1>1, <1>2
    <3>2. pb[n + 1 - k] = o[n + 1 - (n + 1 - k)]  BY <1>6, <3>1
    <3>3. pb[n + 1 - k] = v  BY <3>1, <3>2
    <3> QED BY <1>6, <2>1, <3>1, <3>3 DEF Range
  <2>4. ASSUME NEW w \in Range(pm), w \in Range(pb) PROVE w = v
    <3>1. PICK j \in 1..lb : w = pb[j]  BY <2>1, <2>4 DEF Range
    <3>2. w = o[n + 1 - j] /\ n + 1 - j \in k..n
      <4>1. j \in 1..n + 1 - k  BY <1>6
      <4>2. n + 1 - j \in k..n  BY ONLY <1>1, <1>2, <4>1
      <4> QED BY <1>6, <3>1, <4>1, <4>2
    <3>3. n + 1 - j \notin k + 1..n
      <4>1. w \in m.U  BY <1>8
      <4>2. \A h \in k + 1..n : o[h] \notin m.U  BY DEF n
      <4> QED BY <3>2, <4>1, <4>2
    <3>4. n + 1 - j = k  BY ONLY <3>2, <3>3, <1>1, <1>2
    <3> QED BY <3>2, <3>4
  <2> QED BY <2>2, <2>3, <2>4
<1>10. Theta(l, m) \in Int /\ Overtakes(m, Theta(l, m), x[k], x[1])
  <2> DEFINE xk == x[k]
             x1 == x[1]
  <2>1. /\ l.dur[xk] = xk - x1 /\ xk \in Int /\ x1 \in Int /\ l.p \in Int /\ l.n \in Int /\ Worse(l, m, xk)
        /\ Good(prob, vrp, 0, m)
    BY <1>3, <1>5, <1>7
  <2> HIDE DEF xk, x1
  <2>2. Theta(l, m) \in Int /\ Overtakes(m, Theta(l, m), xk, x1)  BY ONLY Setting, <2>1, WorseIs
  <2> QED BY <2>2 DEF xk, x1
<1>11. PICK u \in Rw(m) : u \in Int /\ u <= x[k] /\ m.dur[u] \in Int /\ m.dur[u] - u + Theta(l, m) <= -x[1]
  BY <1>10 DEF Overtakes
<1> DEFINE t == T - x[k]
           g == (m.dur[u] - u) + (T + c.dur[t] - t)
<1>12. Meets(m, c, r, g)
  <2>1. At(m) = At(c) /\ At(m) = v  BY <1>4
  <2>2. m.q + c.q - Demand(At(m)) <= Raw[prob.net].room
    <3> DEFINE D == Demand(v)
               room == Raw[prob.net].room
               mq == m.q
               lq == l.q
               cq == c.q
    <3>1. room \in Nat  BY SettingIs DEF Sane, Proper
    <3>2. lq + cq - D <= room /\ mq <= lq /\ mq \in Int /\ lq \in Int /\ cq \in Int /\ D \in Int
      BY <1>1, <1>4, <1>7, <1>8
    <3> HIDE DEF D, room, mq, lq, cq
    <3>3. mq + cq - D <= room  BY <3>1, <3>2
    <3> QED BY <2>1, <3>3 DEF D, room, mq, cq
  <2>3. Range(m.path) \cap Range(c.path) = {At(m)}  BY <1>9, <2>1 DEF pm, pb
  <2>4. t \in Rw(c) /\ u \in Rw(m) /\ u <= T - t
    <3>1. T - t = x[k]  BY <1>1, <1>3
    <3> QED BY <1>5, <1>11, <3>1
  <2> HIDE DEF t
  <2> QED BY <1>4, <2>1, <2>2, <2>3, <2>4, MeetsIs
<1>13. g \in Int /\ g <= Checked(o) - Theta(l, m)
  <2> DEFINE mu == m.dur[u]
             h == Theta(l, m)
             xk == x[k]
             x1 == x[1]
             xn == x[n]
  <2>1. /\ g = (mu - u) + (T + (xn - xk) - (T - xk)) /\ mu \in Int /\ u \in Int /\ h \in Int /\ mu - u + h <= -x1
        /\ xk \in Int /\ x1 \in Int /\ xn \in Int /\ Checked(o) = xn - x1 /\ T \in Int
    BY <1>1, <1>3, <1>5, <1>10, <1>11
  <2> HIDE DEF mu, h, xk, x1, xn, g
  <2>2. g \in Int /\ g <= Checked(o) - h  BY ONLY <2>1
  <2> QED BY <2>2 DEF h
<1> HIDE DEF g, t
<1>14. /\ Route(prob, vrp, r) /\ Checked(r) # Never /\ Checked(r) \in Int /\ Checked(r) <= g
       /\ Duals(r) = m.p + c.p - Profit(v) /\ InCut(r) = m.n + c.n - Hits(v)
  <2>1. At(m) = v  OBVIOUS
  <2> HIDE DEF r, v
  <2> QED BY <1>12, <2>1 DEF Meets
<1>15. Checked(r) <= Checked(o) - Theta(l, m)
  <2> DEFINE cr == Checked(r)
             h == Theta(l, m)
             co == Checked(o)
  <2>1. cr \in Int /\ h \in Int /\ co \in Int /\ g \in Int /\ cr <= g /\ g <= co - h
    BY <1>3, <1>10, <1>13, <1>14
  <2> HIDE DEF cr, h, co
  <2>2. cr <= co - h  BY ONLY <2>1
  <2> QED BY <2>2 DEF cr, h, co
<1>16. r \in Path /\ r = pm \o Reverse(Front(pb))
  BY <1>14 DEF Route, Joined, Parent, pm, pb
<1> HIDE DEF r
<1>17. ReducedCost(r) <= ReducedCost(o)
  <2>1. Duals(o) = l.p + c.p - Profit(v) /\ InCut(o) = l.n + c.n - Hits(v)  BY <1>4
  <2> HIDE DEF v
  <2> QED BY <1>1, <1>3, <1>7, <1>8, <1>10, <1>14, <1>15, <1>16, <2>1, NoDearer
<1>18. Alike(r, o)
  <2>1. Len(pb) >= 1 /\ pm \in Seq(Vertex) /\ pb \in Seq(Vertex)  BY <1>2, <1>6, <1>8 DEF lb
  <2>2. /\ Len(r) = Len(pm) + Len(pb) - 1
        /\ \A h \in 1..Len(pm) + Len(pb) - 1 : r[h] = IF h <= Len(pm) THEN pm[h] ELSE pb[Len(pm) + Len(pb) - h]
    <3>1. /\ Len(pm \o Reverse(Front(pb))) = Len(pm) + Len(pb) - 1
          /\ \A i \in 1..Len(pm) + Len(pb) - 1 :
               (pm \o Reverse(Front(pb)))[i] = IF i <= Len(pm) THEN pm[i] ELSE pb[Len(pm) + Len(pb) - i]
      BY ONLY <2>1, JoinedParts
    <3> QED BY <1>16, <3>1
  <2> DEFINE j == Len(r) - 1
  <2>3. /\ j \in 1..la + lb - 1 /\ (lb = 2 => j = la) /\ (lb # 2 => ~(j <= la)) /\ la + lb - j = 2 /\ lb \in Nat
    <3>1. j = la + lb - 2  BY <1>1, <1>2, <1>6, <1>8, <2>2 DEF la, lb
    <3>2. lb >= 2 /\ lb \in Nat  BY <1>1, <1>2, <1>6
    <3> HIDE DEF j
    <3> QED BY ONLY <3>1, <3>2, <1>8
  <2> HIDE DEF j
  <2>4. r[j] = IF j <= la THEN pm[j] ELSE pb[la + lb - j]  BY <2>2, <2>3 DEF la, lb
  <2>5. CASE lb = 2
    <3>1. k = n - 1  BY ONLY <1>1, <1>2, <1>6, <2>5
    <3>2. j <= la /\ j = la  BY <1>8, <2>3, <2>5
    <3>3. r[j] = o[n - 1]  BY <1>8, <2>4, <3>1, <3>2
    <3> QED BY <3>3 DEF Alike, j, n
  <2>6. CASE lb # 2
    <3>1. r[j] = pb[2]  BY <2>3, <2>4, <2>6
    <3>2. 2 \in 1..n + 1 - k /\ n + 1 - 2 = n - 1  BY ONLY <1>1, <1>2
    <3>3. pb[2] = o[n + 1 - 2]  BY <1>6, <3>2
    <3>4. r[j] = o[n - 1]  BY <3>1, <3>2, <3>3
    <3> QED BY <3>4 DEF Alike, j, n
  <2> QED BY <2>5, <2>6
<1>19. r = o
  BY <1>3, <1>14, <1>17, <1>18, Unbeaten
<1>20. pm = SubSeq(o, 1, k)
  <2>1. pm \o Reverse(Front(pb)) = o  BY <1>16, <1>19
  <2>2. Len(pb) = Len(o) + 1 - k /\ k \in 1..Len(o)  BY <1>2, <1>6 DEF lb, n
  <2> QED BY <1>1, <1>6, <1>8, <2>1, <2>2, FrontFound
<1> QED BY <1>20 DEF pm

LEMMA AftBeaten ==
  ASSUME Setting, NEW o, NEW x, NEW y, Outset(o, x, y), Champion(o), ~Tied(o), NEW i \in 2..Len(o),
         NEW a, NEW l, Fitted(o, x, i, a, l), NEW m, Good(prob, vrp, 1, m), At(m) = o[i], m.q <= l.q,
         \A j \in 1..i - 1 : o[j] \notin m.U, NEW t \in Rw(l), Worse(l, m, t)
  PROVE  m.path = SubSeq(Reverse(o), 1, Len(o) + 1 - i)
<1> DEFINE n == Len(o)
           v == o[i]
           pa == a.path
           pm == m.path
           r == Joined(a, m)
           la == Len(pa)
           lb == Len(pm)
<1>1. /\ n \in Nat /\ n >= 3 /\ o \in Seq(Vertex) /\ IsInjective(o) /\ o \in Path /\ T \in Nat
      /\ x \in [1..n -> 0..T] /\ x[n] - x[1] = Checked(o) /\ Along(Loads(prob), o) <= Raw[prob.net].room
  BY DEF Outset
<1>2. i \in 1..n /\ n \in 1..n /\ 1 \in 1..n /\ i >= 2  BY <1>1
<1>3. x[1] \in Int /\ x[i] \in Int /\ x[n] \in Int /\ Checked(o) \in Int
  <2>1. \A s \in 0..T : s \in Int  BY <1>1
  <2>2. x[1] \in Int /\ x[i] \in Int /\ x[n] \in Int  BY <1>1, <1>2, <2>1
  <2> QED BY <1>1, <2>2
<1>4. /\ Good(prob, vrp, 0, a) /\ Good(prob, vrp, 1, l) /\ At(a) = v /\ At(l) = v
      /\ a.q + l.q - Demand(v) = Along(Loads(prob), o)
      /\ Duals(o) = a.p + l.p - Profit(v) /\ InCut(o) = a.n + l.n - Hits(v)
      /\ HalfAt(o, i, pa, l.path)
  BY DEF Fitted
<1>5. /\ x[i] \in Rw(a) /\ a.dur[x[i]] = x[i] - x[1]
      /\ t \in Int /\ x[i] <= T - t /\ l.dur[t] = t - (T - x[n])
  BY DEF Fitted, ForeLabel, AftLabel
<1>6. pa \in Seq(Vertex) /\ la = i /\ \A j \in 1..i : pa[j] = o[j]
  <2>1. pa \in Seq(Vertex) /\ la = i  BY <1>4 DEF HalfAt, Halves
  <2>2. \A j \in 1..i : pa[j] = o[j]  BY <1>4 DEF HalfAt
  <2> QED BY <2>1, <2>2
<1>7. /\ l.p \in Int /\ l.n \in Nat /\ l.q \in Int /\ a.p \in Int /\ a.n \in Nat /\ a.q \in Int /\ Hits(v) <= a.n
      /\ v \in Vertex /\ Demand(v) \in Int /\ Profit(v) \in Int /\ Hits(v) \in Int
  <2>1. /\ l.p \in Int /\ l.n \in Nat /\ l.q \in Int /\ a.p \in Int /\ a.n \in Nat /\ a.q \in Int /\ Hits(v) <= a.n
        /\ v \in Vertex /\ Demand(v) \in Int
    BY <1>4, LabelCount
  <2>2. Profit(v) \in Int /\ Hits(v) \in Int
    <3>1. prob \in Problem  BY SettingIs DEF Setting
    <3>2. Profits(prob) \in [Vertex -> Int]  BY <3>1, SumFunctions
    <3>3. Profits(prob)[v] = Profit(v)  BY <2>1 DEF Profits, Profit
    <3>4. Hits(v) \in Int  BY DEF Hits
    <3> QED BY <2>1, <3>2, <3>3, <3>4
  <2> QED BY <2>1, <2>2
<1>8. /\ m.p \in Int /\ m.n \in Nat /\ m.q \in Int /\ pm \in Seq(Vertex) /\ lb >= 1 /\ lb \in Nat /\ pm[lb] = v
      /\ Range(pm) \subseteq m.U
  BY LabelCount
<1> HIDE DEF pm, pa, n, la, lb
<1>9. Range(pa) \cap Range(pm) = {v}
  <2>1. DOMAIN pm = 1..lb /\ DOMAIN pa = 1..la  BY <1>6, <1>8 DEF la, lb
  <2>2. v \in Range(pm)
    <3>1. lb \in 1..lb  BY <1>8
    <3> QED BY <1>8, <2>1, <3>1 DEF Range
  <2>3. v \in Range(pa)
    <3>1. i \in 1..i  BY <1>2
    <3>2. pa[i] = v  BY <1>6, <3>1
    <3> QED BY <1>6, <2>1, <3>1, <3>2 DEF Range
  <2>4. ASSUME NEW w \in Range(pa), w \in Range(pm) PROVE w = v
    <3>1. PICK j \in 1..la : w = pa[j]  BY <2>1, <2>4 DEF Range
    <3>2. w = o[j] /\ j \in 1..i  BY <1>6, <3>1
    <3>3. j \notin 1..i - 1
      <4>1. w \in m.U  BY <1>8, <2>4
      <4> QED BY <3>2, <4>1
    <3>4. j = i  BY ONLY <3>2, <3>3, <1>1, <1>2
    <3> QED BY <3>2, <3>4
  <2> QED BY <2>2, <2>3, <2>4
<1> DEFINE b == T - x[n]
           h == Theta(l, m)
<1>10. h \in Int /\ Overtakes(m, h, t, b)
  <2>1. b \in Int /\ l.dur[t] = t - b /\ t \in Int  BY <1>1, <1>3, <1>5
  <2> HIDE DEF b
  <2>2. Theta(l, m) \in Int /\ Overtakes(m, Theta(l, m), t, b)
    <3>1. Good(prob, vrp, 1, m) /\ l.p \in Int /\ l.n \in Int /\ Worse(l, m, t)  BY <1>7
    <3> QED BY ONLY Setting, <2>1, <3>1, WorseIs
  <2> QED BY <2>2
<1> HIDE DEF h
<1>11. PICK u \in Rw(m) : u \in Int /\ u <= t /\ m.dur[u] \in Int /\ m.dur[u] - u + h <= -b
  BY <1>10 DEF Overtakes
<1> DEFINE s == x[i]
           g == (a.dur[s] - s) + (T + m.dur[u] - u)
<1>12. Meets(a, m, r, g)
  <2>1. At(a) = At(m) /\ At(a) = v  BY <1>4
  <2>2. a.q + m.q - Demand(At(a)) <= Raw[prob.net].room
    <3> DEFINE D == Demand(v)
               room == Raw[prob.net].room
               mq == m.q
               lq == l.q
               aq == a.q
    <3>1. room \in Nat  BY SettingIs DEF Sane, Proper
    <3>2. aq + lq - D <= room /\ mq <= lq /\ mq \in Int /\ lq \in Int /\ aq \in Int /\ D \in Int
      BY <1>1, <1>4, <1>7, <1>8
    <3> HIDE DEF D, room, mq, lq, aq
    <3>3. aq + mq - D <= room  BY <3>1, <3>2
    <3> QED BY <2>1, <3>3 DEF D, room, mq, aq
  <2>3. Range(a.path) \cap Range(m.path) = {At(a)}  BY <1>9, <2>1 DEF pm, pa
  <2>4. s \in Rw(a) /\ u \in Rw(m) /\ s <= T - u
    <3>1. s <= T - u
      <4>1. s <= T - t /\ u <= t /\ s \in Int /\ t \in Int /\ u \in Int /\ T \in Nat  BY <1>1, <1>3, <1>5, <1>11
      <4> HIDE DEF s
      <4> QED BY ONLY <4>1
    <3> QED BY <1>5, <3>1
  <2> HIDE DEF s
  <2> QED BY <1>4, <2>1, <2>2, <2>3, <2>4, MeetsIs
<1>13. g \in Int /\ g <= Checked(o) - h
  <2> DEFINE mu == m.dur[u]
             x1 == x[1]
             xn == x[n]
             xi == x[i]
  <2>1. /\ g = (xi - x1 - xi) + (T + mu - u) /\ mu \in Int /\ u \in Int /\ h \in Int /\ mu - u + h <= -(T - xn)
        /\ xi \in Int /\ x1 \in Int /\ xn \in Int /\ Checked(o) = xn - x1 /\ T \in Int
    BY <1>1, <1>3, <1>5, <1>10, <1>11
  <2> HIDE DEF mu, xi, x1, xn, g
  <2>2. g \in Int /\ g <= Checked(o) - h  BY ONLY <2>1
  <2> QED BY <2>2
<1> HIDE DEF g, s
<1>14. /\ Route(prob, vrp, r) /\ Checked(r) # Never /\ Checked(r) \in Int /\ Checked(r) <= g
       /\ Duals(r) = a.p + m.p - Profit(v) /\ InCut(r) = a.n + m.n - Hits(v)
  <2>1. At(a) = v  BY <1>4
  <2> HIDE DEF r, v
  <2> QED BY <1>12, <2>1 DEF Meets
<1>15. Checked(r) <= Checked(o) - Theta(l, m)
  <2> DEFINE cr == Checked(r)
             co == Checked(o)
  <2>1. cr \in Int /\ h \in Int /\ co \in Int /\ g \in Int /\ cr <= g /\ g <= co - h
    BY <1>3, <1>10, <1>13, <1>14
  <2> HIDE DEF cr, co
  <2>2. cr <= co - h  BY ONLY <2>1
  <2> QED BY <2>2 DEF cr, h, co
<1>16. r \in Path /\ r = pa \o Reverse(Front(pm))
  BY <1>14 DEF Route, Joined, Parent, pm, pa
<1> HIDE DEF r
<1>17. ReducedCost(r) <= ReducedCost(o)
  <2> DEFINE ap == a.p
             an == a.n
             lp == l.p
             ln == l.n
             mp == m.p
             mn == m.n
             P == Profit(v)
             H == Hits(v)
  <2>1. /\ ap \in Int /\ an \in Int /\ lp \in Int /\ ln \in Int /\ mp \in Int /\ mn \in Int /\ P \in Int /\ H \in Int
        /\ Duals(o) = ap + lp - P /\ InCut(o) = an + ln - H /\ Duals(r) = ap + mp - P /\ InCut(r) = an + mn - H
    <3>1. ap \in Int /\ an \in Int /\ lp \in Int /\ ln \in Int /\ mp \in Int /\ mn \in Int
      <4>1. ap \in Int /\ an \in Nat /\ lp \in Int /\ ln \in Nat  BY ONLY <1>7
      <4>2. mp \in Int /\ mn \in Nat  BY ONLY <1>8
      <4> HIDE DEF ap, an, lp, ln, mp, mn
      <4> QED BY ONLY <4>1, <4>2
    <3>2. P \in Int /\ H \in Int  BY <1>7
    <3>3. Duals(o) = ap + lp - P /\ InCut(o) = an + ln - H  BY <1>4
    <3>4. Duals(r) = ap + mp - P /\ InCut(r) = an + mn - H  BY <1>14
    <3> QED BY ONLY <3>1, <3>2, <3>3, <3>4
  <2> HIDE DEF ap, an, lp, ln, mp, mn, P, H
  <2>2. Duals(o) = lp + ap - P /\ InCut(o) = ln + an - H /\ Duals(r) = mp + ap - P /\ InCut(r) = mn + an - H
    BY ONLY <2>1
  <2>3. /\ Duals(o) = l.p + a.p - Profit(v) /\ InCut(o) = l.n + a.n - Hits(v)
        /\ Duals(r) = m.p + a.p - Profit(v) /\ InCut(r) = m.n + a.n - Hits(v)
    BY <2>2 DEF ap, an, lp, ln, mp, mn, P, H
  <2>4. Theta(l, m) \in Int  BY <1>10 DEF h
  <2> HIDE DEF v
  <2> QED BY <1>1, <1>3, <1>7, <1>8, <1>14, <1>15, <1>16, <2>3, <2>4, NoDearer
<1>18. Alike(r, o)
  <2>1. lb >= 1 /\ pm \in Seq(Vertex) /\ pa \in Seq(Vertex) /\ Len(pm) >= 1  BY <1>6, <1>8 DEF lb
  <2>2. \A j \in 1..Len(pa) + Len(pm) - 1 : r[j] = IF j <= Len(pa) THEN pa[j] ELSE pm[Len(pa) + Len(pm) - j]
    <3>1. \A j \in 1..Len(pa) + Len(pm) - 1 :
               (pa \o Reverse(Front(pm)))[j] = IF j <= Len(pa) THEN pa[j] ELSE pm[Len(pa) + Len(pm) - j]
      BY ONLY <2>1, JoinedParts
    <3> QED BY <1>16, <3>1
  <2>3. 2 \in 1..la + lb - 1 /\ 2 <= la /\ 2 \in 1..i  BY <1>2, <1>6, <1>8
  <2>4. r[2] = pa[2]  BY <2>2, <2>3 DEF la, lb
  <2>5. pa[2] = o[2]  BY <1>6, <2>3
  <2> QED BY <2>4, <2>5 DEF Alike
<1>19. r = o
  BY <1>3, <1>14, <1>17, <1>18, Unbeaten
<1>20. pm = SubSeq(Reverse(o), 1, n + 1 - i)
  <2>1. pa \o Reverse(Front(pm)) = o  BY <1>16, <1>19
  <2>2. Len(pa) = i /\ i \in 1..Len(o) /\ Len(pm) >= 1  BY <1>2, <1>6, <1>8 DEF la, lb, n
  <2>3. pm[Len(pm)] = pa[i]
    <3>1. i \in 1..i  BY <1>2
    <3> QED BY <1>6, <1>8, <3>1 DEF lb
  <2>4. o \in Seq(Vertex) /\ pa \in Seq(Vertex) /\ pm \in Seq(Vertex)  BY <1>1, <1>6, <1>8
  <2>5. pm = SubSeq(Reverse(o), 1, Len(o) + 1 - i)
    BY ONLY <2>1, <2>2, <2>3, <2>4, BackFound
  <2> QED BY <2>5 DEF n
<1> QED BY <1>20 DEF pm, n

LEMMA ForeUnrivalled ==
  ASSUME Setting, NEW o, NEW x, NEW y, Sketch(o, x, y), Champion(o), ~Tied(o), NEW C, C = Fore(o, x),
         NEW k \in 1..Len(o) - 1
  PROVE  Unrivalled(C, k)
<1> DEFINE l == Ideal(C, k)
           n == Len(o)
<1>1. Outset(o, x, y)  BY SketchParts
<1>2. n \in Nat /\ n >= 3 /\ k \in 1..n  BY <1>1 DEF Outset
<1>3. C.d = 0 /\ C.path = o /\ C.at[k] = {x[k]} /\ Len(C.path) = n  BY <1>2 DEF Fore
<1>4. ReducedCost(o) < 0  BY DEF Champion, Target, Negative
<1> DEFINE c == Ideal(Aft(o, x, y), Len(o) + 1 - k)
<1>5. Fitted(o, x, k, l, c)
  <2>1. l = Ideal(Fore(o, x), k) /\ c = Ideal(Aft(o, x, y), Len(o) + 1 - k) /\ k \in 1..Len(o)  BY <1>2
  <2> HIDE DEF l, c
  <2> QED BY ONLY Setting, Sketch(o, x, y), <1>4, <2>1, FittedIs
<1> HIDE DEF l, c, n
<1>6. SUFFICES ASSUME NEW m, Good(prob, vrp, C.d, m), At(m) = C.path[k], m.path # SubSeq(C.path, 1, k),
                      m.q <= l.q, \A j \in k + 1..Len(C.path) : C.path[j] \notin m.U,
                      NEW t \in C.at[k], Worse(l, m, t)
               PROVE  FALSE
  BY DEF Unrivalled, l
<1>7. Good(prob, vrp, 0, m) /\ At(m) = o[k] /\ \A j \in k + 1..Len(o) : o[j] \notin m.U
  BY <1>3, <1>6
<1>8. Worse(l, m, x[k])  BY <1>3, <1>6
<1>9. m.q <= l.q  BY <1>6
<1>10. m.path = SubSeq(o, 1, k)
  BY ONLY Setting, <1>1, Champion(o), ~Tied(o), k \in 1..Len(o) - 1, <1>5, <1>7, <1>8, <1>9, ForeBeaten
<1> QED BY <1>3, <1>6, <1>10

LEMMA AftUnrivalled ==
  ASSUME Setting, NEW o, NEW x, NEW y, Sketch(o, x, y), Champion(o), ~Tied(o), NEW C, C = Aft(o, x, y),
         NEW k \in 1..Len(o) - 1
  PROVE  Unrivalled(C, k)
<1> DEFINE l == Ideal(C, k)
           n == Len(o)
           i == n + 1 - k
           a == Ideal(Fore(o, x), i)
<1>1. Outset(o, x, y)  BY SketchParts
<1>2. n \in Nat /\ n >= 3 /\ k \in 1..n /\ i \in 2..n /\ i \in 1..n /\ n + 1 - i = k /\ o \in Seq(Vertex)
  BY <1>1 DEF Outset
<1>3. C.d = 1 /\ C.path = Reverse(o)
  BY DEF Aft
<1>r. Len(C.path) = n /\ \A j \in 1..n : C.path[j] = o[n + 1 - j]
  <2> DEFINE r == C.path
  <2>1. r = Reverse(o)  BY <1>3
  <2> HIDE DEF r
  <2>2. Len(r) = Len(o) /\ \A j \in 1..Len(o) : r[j] = o[Len(o) + 1 - j]
    BY ONLY <1>2, <2>1, ReverseIs
  <2> QED BY <2>2 DEF r
<1>4. ReducedCost(o) < 0  BY DEF Champion, Target, Negative
<1>5. Fitted(o, x, i, a, l)
  <2>1. a = Ideal(Fore(o, x), i) /\ i \in 1..Len(o)  BY <1>2
  <2>2. l = Ideal(Aft(o, x, y), Len(o) + 1 - i)  BY <1>2
  <2> HIDE DEF l, a, i
  <2> QED BY ONLY Setting, Sketch(o, x, y), <1>4, <2>1, <2>2, FittedIs
<1>6. Rw(l) = C.at[k]  BY DEF Ideal, Rw
<1> HIDE DEF l, a
<1>7. SUFFICES ASSUME NEW m, Good(prob, vrp, C.d, m), At(m) = C.path[k], m.path # SubSeq(C.path, 1, k),
                      m.q <= l.q, \A j \in k + 1..Len(C.path) : C.path[j] \notin m.U,
                      NEW t \in C.at[k], Worse(l, m, t)
               PROVE  FALSE
  BY DEF Unrivalled, l
<1>8. Good(prob, vrp, 1, m) /\ At(m) = o[i]
  BY <1>2, <1>3, <1>r, <1>7
<1>9. ASSUME NEW j \in 1..i - 1 PROVE o[j] \notin m.U
  <2> DEFINE h == n + 1 - j
  <2>1. h \in k + 1..n /\ h \in 1..n /\ n + 1 - h = j  BY ONLY <1>2, j \in 1..i - 1
  <2> HIDE DEF h
  <2>2. C.path[h] \notin m.U  BY <1>r, <1>7, <2>1
  <2> QED BY <1>r, <2>1, <2>2
<1>10. m.q <= l.q /\ t \in Rw(l) /\ Worse(l, m, t)  BY <1>6, <1>7
<1> HIDE DEF i
<1>11. m.path = SubSeq(Reverse(o), 1, Len(o) + 1 - i)
  <2>1. i \in 2..Len(o) /\ \A j \in 1..i - 1 : o[j] \notin m.U  BY <1>2, <1>9
  <2> QED BY ONLY Setting, <1>1, Champion(o), ~Tied(o), <2>1, <1>5, <1>8, <1>10, AftBeaten
<1>12. Len(o) + 1 - i = k  BY <1>2
<1> QED BY <1>3, <1>7, <1>11, <1>12

LEMMA TwinIs ==
  ASSUME Setting, NEW o, NEW x, NEW y, Sketch(o, x, y), Champion(o), ~Tied(o), ~Stopover(o),
         NEW F, F = Fore(o, x), NEW B, B = Aft(o, x, y)
  PROVE  Twin(o, x, F, B)
<1> DEFINE n == Len(o)
<1>1. Outset(o, x, y) /\ \A i \in 1..n - 1 : Lap(o, x, y, i)  BY SketchParts
<1>2. n \in Nat /\ n >= 3 /\ o \in Seq(Vertex) /\ x \in [1..n -> 0..T]  BY <1>1 DEF Outset
<1>3. ReducedCost(o) < 0  BY DEF Champion, Target, Negative
<1>4. /\ F.d = 0 /\ F.path = o /\ F.from = x[1] /\ \A i \in 1..n : F.at[i] = {x[i]}
      /\ \A i \in 1..n - 1 : F.gate[i] = x[i + 1]
  BY DEF Fore
<1>5. /\ B.d = 1 /\ B.path = Reverse(o) /\ B.from = T - x[n]
      /\ \A k \in 1..n - 1 : B.gate[k] = T - x[n + 1 - k]
  BY DEF Aft
<1>r. Len(B.path) = n
  <2> DEFINE r == B.path
  <2>1. r = Reverse(o) /\ o \in Seq(Vertex)  BY <1>2, <1>5
  <2> HIDE DEF r
  <2>2. Len(r) = Len(o)  BY ONLY <2>1, ReverseIs
  <2> QED BY <2>2 DEF r
<1>6. Course(F)
  <2>1. Outline(F)  BY <1>3, ForeOutline
  <2>2. \A k \in 1..Len(o) - 1 : Unrivalled(F, k) /\ Undetoured(F, k)  BY ForeUnrivalled, ForeUndetoured
  <2>3. Len(F.path) = Len(o)  BY <1>4
  <2> QED BY <2>1, <2>2, <2>3 DEF Course, Outline
<1>7. Course(B)
  <2>1. Outline(B)  BY <1>3, AftOutline
  <2>2. \A k \in 1..Len(o) - 1 : Unrivalled(B, k) /\ Undetoured(B, k)  BY AftUnrivalled, AftUndetoured
  <2>3. Len(B.path) = Len(o)  BY <1>r
  <2> QED BY <2>1, <2>2, <2>3 DEF Course, Outline
<1>8. ASSUME NEW i \in 1..n PROVE T - x[i] \in B.at[n + 1 - i]
  <2> DEFINE k == n + 1 - i
  <2>1. k \in 1..n /\ i = n + 1 - k  BY <1>2
  <2> HIDE DEF k
  <2>2. Astern(o, x, y, B, k, i)  BY <2>1, AftAt
  <2> QED BY <2>2 DEF Astern, k
<1>9. ASSUME NEW i \in 2..n PROVE B.gate[n + 1 - i] = T - x[i]
  <2>1. n + 1 - i \in 1..n - 1 /\ n + 1 - (n + 1 - i) = i  BY <1>2
  <2>2. B.gate[n + 1 - i] = T - x[n + 1 - (n + 1 - i)]  BY <1>5, <2>1
  <2> QED BY <2>1, <2>2
<1>10. \A i \in 1..n - 1 : x[i] <= x[i + 1]  BY <1>1 DEF Lap
<1> QED BY <1>2, <1>4, <1>5, <1>6, <1>7, <1>8, <1>9, <1>10 DEF Twin

(* There is a cheapest route to price, if there is any. *)
LEMMA ChampionIs ==
  ASSUME Setting, Target # {}
  PROVE  \E o : Champion(o)
<1>0. N \in Nat \ {0} /\ prob \in Problem  BY SettingIs DEF Sane, Setting
<1>1. Profits(prob) \in [Vertex -> Int]  BY <1>0, SumFunctions
<1>2. PICK b \in Int : \A p \in Seq(Vertex) : IsInjective(p) => Along(Profits(prob), p) <= b
  BY <1>0, <1>1, SumBounded
<1> DEFINE S == {ReducedCost(p) : p \in Target}
<1>3. ASSUME NEW p \in Target PROVE ReducedCost(p) \in Int /\ -b <= ReducedCost(p)
  <2>1. p \in Path  BY DEF Target, Negative
  <2>2. Checked(p) \in Nat  BY <2>1, CheckedRide
  <2>3. p \in Seq(Vertex) /\ IsInjective(p)  BY <1>0, <2>1, PathShape
  <2>4. /\ Duals(p) \in Int /\ ReducedCost(p) \in Int /\ Duals(p) = Along(Profits(prob), p)
    BY <2>1, <2>2, CostInt
  <2>5. Duals(p) <= b  BY <1>2, <2>3, <2>4
  <2>6. CutCost(InCut(p)) \in Int /\ CutCost(InCut(p)) <= 0  BY CutCostInt
  <2> DEFINE rc == ReducedCost(p)
             ch == Checked(p)
             du == Duals(p)
             cc == CutCost(InCut(p))
  <2>7. rc = ch - du - cc  BY DEF ReducedCost
  <2>8. ch \in Nat /\ du \in Int /\ du <= b /\ cc \in Int /\ cc <= 0 /\ rc \in Int  BY <2>2, <2>4, <2>5, <2>6
  <2> HIDE DEF rc, ch, du, cc
  <2>9. rc \in Int /\ -b <= rc  BY ONLY <2>7, <2>8, b \in Int
  <2> QED BY <2>9 DEF rc
<1>4. S \subseteq Int /\ S # {} /\ -b \in Int /\ \A c \in S : -b <= c  BY <1>3
<1> HIDE DEF S
<1>5. PICK c \in S : \A e \in S : c <= e  BY <1>4, LeastInt
<1>6. PICK o \in Target : c = ReducedCost(o)  BY <1>5 DEF S
<1>7. \A p \in Target : ReducedCost(o) <= ReducedCost(p)  BY <1>5, <1>6 DEF S
<1> QED BY <1>6, <1>7 DEF Champion

LEMMA TargetSketch ==
  ASSUME Setting, NEW o \in Target, ~Stopover(o)
  PROVE  \E x, y : Sketch(o, x, y)
<1>0. N \in Nat \ {0}  BY SettingIs DEF Sane
<1>1. o \in Path /\ Checked(o) # Never  BY DEF Target, Negative
<1>2. \A i \in 1..Len(o) - 1 : <<o[i], o[i + 1]>> \in Arc  BY <1>0, <1>1, PathShape
<1>3. \A i \in 1..Len(o) - 1 : /\ <<o[i], o[i + 1]>> \notin prob.A
                               /\ prob.A # {} => <<o[i], o[i + 1]>> \in vrp.arcs
  <2>1. CASE prob.A = {}  BY <2>1
  <2>2. CASE prob.A # {}
    <3>1. o \notin Using(prob.A \cup (Arc \ vrp.arcs))  BY <2>2 DEF Target
    <3> QED BY <1>1, <1>2, <3>1 DEF Using
  <2> QED BY <2>1, <2>2
<1> QED BY <1>1, <1>3, SketchIs

(* A route of the pool that serves whom the champion serves in no more time is no dearer. *)
LEMMA NoDearerSame ==
  ASSUME Setting, NEW o \in Path, NEW r \in Path, Inner(r) = Inner(o), Checked(r) <= Checked(o)
  PROVE  ReducedCost(r) <= ReducedCost(o)
<1>0. N \in Nat \ {0} /\ prob \in Problem  BY SettingIs DEF Sane, Setting
<1>1. Range(r) = Range(o)  BY <1>0, InnerSame
<1>2. /\ o \in Seq(Vertex) /\ IsInjective(o) /\ r \in Seq(Vertex) /\ IsInjective(r)
  BY <1>0, PathShape
<1>3. Profits(prob) \in [Vertex -> Int] /\ Counts(prob) \in [Vertex -> Int]  BY <1>0, SumFunctions
<1>4. Along(Profits(prob), r) = Along(Profits(prob), o) /\ Along(Counts(prob), r) = Along(Counts(prob), o)
  BY <1>0, <1>1, <1>2, <1>3, SumSame
<1>5. Checked(r) \in Nat /\ Checked(o) \in Nat  BY CheckedRide
<1>6. Duals(r) = Duals(o) /\ InCut(r) = InCut(o) /\ Duals(o) \in Int /\ CutCost(InCut(o)) \in Int
  <2>1. Duals(r) = Along(Profits(prob), r) /\ InCut(r) = Along(Counts(prob), r)  BY <1>5, CostInt
  <2>2. Duals(o) = Along(Profits(prob), o) /\ InCut(o) = Along(Counts(prob), o) /\ Duals(o) \in Int  BY <1>5, CostInt
  <2> QED BY <1>4, <2>1, <2>2, CutCostInt
<1>7. /\ ReducedCost(r) = Checked(r) - Duals(o) - CutCost(InCut(o))
      /\ ReducedCost(o) = Checked(o) - Duals(o) - CutCost(InCut(o))
  BY <1>6 DEF ReducedCost
<1> QED BY <1>5, <1>6, <1>7

LEMMA CheapestHolds ==
  ASSUME Searching, Pooled, Paired
  PROVE  Cheapest
<1>1. SUFFICES ASSUME pc = "done", Sure, NEW p \in Target,
                      ~\E o \in Target : ReducedCost(o) <= ReducedCost(p) /\ (Stopover(o) \/ Tied(o))
               PROVE  \E r \in pool : ReducedCost(r.path) <= ReducedCost(p)
  BY DEF Cheapest, Sure
<1>2. Setting  BY DEF Searching
<1>3. PICK o : Champion(o)  BY <1>1, <1>2, ChampionIs
<1>4. o \in Target /\ ReducedCost(o) <= ReducedCost(p)  BY <1>3 DEF Champion
<1>5. ~Stopover(o) /\ ~Tied(o)  BY <1>1, <1>4
<1>6. PICK x, y : Sketch(o, x, y)  BY <1>2, <1>4, <1>5, TargetSketch
<1>7. \E F, B : Twin(o, x, F, B)
  <2> DEFINE F == Fore(o, x)
             B == Aft(o, x, y)
  <2>1. F = Fore(o, x) /\ B = Aft(o, x, y)  OBVIOUS
  <2> HIDE DEF F, B
  <2>2. Twin(o, x, F, B)  BY ONLY <1>2, <1>3, <1>5, <1>6, <2>1, TwinIs
  <2> QED BY <2>2
<1>8. Have(o, Far(o, x))  BY <1>1, <1>7 DEF Paired
<1>9. Far(o, x) = Checked(o)  BY <1>6 DEF Sketch, Far
<1>10. PICK r \in pool : Inner(r.path) = Inner(o) /\ r.dur <= Checked(o)  BY <1>8, <1>9 DEF Have
<1>11. r.dur = Checked(r.path) /\ r.path \in Path  BY <1>1 DEF Pooled, Promised, Route
<1>12. o \in Path  BY <1>4 DEF Target, Negative
<1> DEFINE w == r.path
<1>13. w \in Path /\ Inner(w) = Inner(o) /\ Checked(w) <= Checked(o)  BY <1>10, <1>11
<1> HIDE DEF w
<1>14. ReducedCost(w) <= ReducedCost(o)  BY <1>2, <1>12, <1>13, NoDearerSame
<1>15. ReducedCost(w) \in Int /\ ReducedCost(o) \in Int /\ ReducedCost(p) \in Int
  <2>1. p \in Path  BY DEF Target, Negative
  <2>2. \A s \in Path : Checked(s) \in Int
    <3>1. \A s \in Path : Checked(s) \in Nat  BY <1>2, CheckedRide
    <3> QED BY <3>1
  <2> QED BY <1>2, <1>12, <1>13, <2>1, <2>2, CostInt
<1>16. ReducedCost(w) <= ReducedCost(p)  BY <1>4, <1>14, <1>15
<1> QED BY <1>16 DEF w

(* An Exact run in the opening state that merges from its first turn on and finishes
   undisturbed by a limit has in its pool a route no dearer than any it is to price,
   whatever was dominated, bounded, left in a queue, replaced or trimmed: but for routes that
   cost no less than one that may as well stop at the depot or ties with a route alike
   (bidirectional_labeling.cpp, Run; pwl_domination_function.cpp). *)
THEOREM CheapestFound == Spec => []Cheapest
<1>1. Searching /\ Pooled /\ Paired => Cheapest
  BY CheapestHolds
<1>2. Init => Pooled
  BY DEF Init, Pooled
<1>3. Searching /\ Pooled /\ [Next]_vars => Pooled'
  BY PooledNext
<1> QED BY <1>1, <1>2, <1>3, TwinsFound, SearchingAlways, PTL DEF Spec
=============================================================================

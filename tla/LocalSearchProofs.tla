-------------------------- MODULE LocalSearchProofs --------------------------
(***************************************************************************)
(* Why the staleness stamps never hide an improving move, for every set of *)
(* clients, routes, prices and neighbour lists.  The inductive part is     *)
(* Covered: whatever improves and is justified has a client due for a      *)
(* retest.  A change touches every client of every route it changes        *)
(* (ChangeCovers); a clean pass stamps only where nothing was left         *)
(* (CleanLeavesNone).  Then why no move loses or doubles a client: the two *)
(* sides of a move share out the clients of the two routes (MoveVisits).   *)
(***************************************************************************)
EXTENDS LocalSearch, CommonLemmas

Vector(r) == r \in [Slot -> Route \cup {<<>>}]

\* compute_retest on any state
Due(t, l, res, op) ==
  {c \in Client :
     \/ t[c] > l[op][c]
     \/ op # "Intra" /\ \E v \in Client : (res => <<c, v>> \in Near) /\ t[v] > l[op][c]}

\* No justified move of op improves.
NoneLeft(r, res, op) ==
  \A a, b \in Slot : \A m \in Moves(op, r, a, b) :
    Justified(res, op, m) => ~Improves(op, r, a, b, m)

CoveredFor(r, t, l, res, op) ==
  \A a, b \in Slot : \A m \in Moves(op, r, a, b) :
    Justified(res, op, m) /\ Improves(op, r, a, b, m) =>
      \E k \in m.keys : k \in Due(t, l, res, op)

Covered(r, t, l, res) == \A op \in Passes : CoveredFor(r, t, l, res, op)

-----------------------------------------------------------------------------
(* What a move of any operator is made of: a client of the first route is a key,
   and the seam that justifies it joins a key to a client of the second. *)
LEMMA RouteMembers ==
  ASSUME NEW r, Vector(r), NEW a \in Slot
  PROVE  /\ r[a] \in Seq(Client)
         /\ Members(r[a]) \subseteq Client
         /\ \A i \in DOMAIN r[a] : r[a][i] \in Members(r[a])
         /\ \A i \in Nat : At(r[a], i) \in Members(r[a]) \/ At(r[a], i) = Depot
<1>1. r[a] \in Route \cup {<<>>}  BY DEF Vector
<1>2. r[a] \in Seq(Client)
  <2>1. Route \subseteq Seq(Client)  BY RouteAssumption
  <2>2. <<>> \in Seq(Client)  OBVIOUS
  <2> QED BY <1>1, <2>1, <2>2
<1>3. \A i \in DOMAIN r[a] : r[a][i] \in Client  BY <1>2
<1> QED BY <1>2, <1>3 DEF Members, At

LEMMA MoveParts ==
  ASSUME NEW r, Vector(r), NEW op \in Passes, NEW a \in Slot, NEW b \in Slot,
         NEW m \in Moves(op, r, a, b)
  PROVE  /\ r[a] # <<>> /\ r[b] # <<>>
         /\ op = "Intra" => a = b
         /\ \E k \in m.keys : k \in Members(r[a])
         /\ op # "Intra" /\ m.seams \cap Near # {} =>
              \E k \in m.keys, v \in Members(r[b]) : k \in Members(r[a]) /\ <<k, v>> \in Near
<1>1. r[a] # <<>> /\ r[b] # <<>>
  <2>1. r[a] = <<>> \/ r[b] = <<>> => Moves(op, r, a, b) = {}  BY DEF Moves
  <2> QED BY <2>1
<1>2. Near \subseteq Client \X Client /\ Depot \notin Client
  BY NearAssumption, RouteAssumption
<1> DEFINE q == r[a]
           s == r[b]
<1>3. /\ q \in Seq(Client) /\ s \in Seq(Client)
      /\ Members(q) \subseteq Client /\ Members(s) \subseteq Client
      /\ \A i \in DOMAIN q : q[i] \in Members(q)
      /\ \A i \in DOMAIN s : s[i] \in Members(s)
      /\ \A i \in Nat : At(q, i) \in Members(q) \/ At(q, i) = Depot
      /\ \A i \in Nat : At(s, i) \in Members(s) \/ At(s, i) = Depot
  BY RouteMembers
<1>4. \A x, y : <<x, y>> \in Near => x # Depot /\ y # Depot /\ <<y, x>> \in Near
  BY <1>2, NearAssumption
<1> HIDE DEF q, s
<1>5. CASE op = "Relocate"
  <2>1. m \in Relocations(q, s)  BY <1>5, <1>1 DEF Moves, q, s
  <2>2. PICK i \in DOMAIN q, p \in 0 .. Len(s) :
          m.keys = {q[i]} /\ m.seams = {<<q[i], At(s, p)>>, <<q[i], At(s, p + 1)>>}
    BY <2>1 DEF Relocations
  <2>3. q[i] \in m.keys /\ q[i] \in Members(q)  BY <2>2, <1>3
  <2>4. p \in Nat /\ p + 1 \in Nat  BY <2>2, <1>3
  <2>5. ASSUME m.seams \cap Near # {}
        PROVE  \E v \in Members(s) : <<q[i], v>> \in Near
    <3>1. <<q[i], At(s, p)>> \in Near \/ <<q[i], At(s, p + 1)>> \in Near  BY <2>2, <2>5
    <3>2. At(s, p) \in Members(s) \/ At(s, p) = Depot  BY <1>3, <2>4
    <3>3. At(s, p + 1) \in Members(s) \/ At(s, p + 1) = Depot  BY <1>3, <2>4
    <3> QED BY <3>1, <3>2, <3>3, <1>4
  <2> QED BY <1>1, <1>5, <2>3, <2>5 DEF q, s
<1>6. CASE op = "Intra"
  <2>1. a = b /\ m \in IntraRelocations(q)  BY <1>6, <1>1 DEF Moves, q, s
  <2>2. PICK i \in DOMAIN q : m.keys = {q[i]}  BY <2>1 DEF IntraRelocations
  <2> QED BY <1>1, <1>3, <1>6, <2>1, <2>2 DEF q, s
<1>7. CASE op = "Swap"
  <2>1. m \in Swaps(q, s)  BY <1>7, <1>1 DEF Moves, q, s
  <2>2. PICK i \in DOMAIN q, j \in DOMAIN s : m.keys = {q[i]} /\ m.seams = {<<q[i], s[j]>>}
    BY <2>1 DEF Swaps
  <2>3. q[i] \in m.keys /\ q[i] \in Members(q) /\ s[j] \in Members(s)  BY <2>2, <1>3
  <2>4. m.seams \cap Near # {} => <<q[i], s[j]>> \in Near  BY <2>2
  <2> QED BY <1>1, <1>7, <2>3, <2>4 DEF q, s
<1>8. CASE op = "TwoOptStar"
  <2>1. m \in TailSwaps(q, s)  BY <1>8, <1>1 DEF Moves, q, s
  <2>2. PICK i \in DOMAIN q, j \in DOMAIN s :
          /\ m.keys = {q[i], At(q, i + 1)}
          /\ m.seams = {<<q[i], At(s, j + 1)>>, <<s[j], At(q, i + 1)>>}
    <3>1. PICK i \in DOMAIN q, j \in DOMAIN s : m = TailSwap(q, s, i, j)
      BY <2>1 DEF TailSwaps
    <3>2. /\ m.keys = {q[i], At(q, i + 1)}
          /\ m.seams = {<<q[i], At(s, j + 1)>>, <<s[j], At(q, i + 1)>>}
      BY <3>1 DEF TailSwap
    <3> QED BY <3>2
  <2>3. q[i] \in m.keys /\ q[i] \in Members(q) /\ s[j] \in Members(s)  BY <2>2, <1>3
  <2>4. i + 1 \in Nat /\ j + 1 \in Nat  BY <2>2, <1>3
  <2>5. At(q, i + 1) \in Members(q) \/ At(q, i + 1) = Depot  BY <1>3, <2>4
  <2>6. At(s, j + 1) \in Members(s) \/ At(s, j + 1) = Depot  BY <1>3, <2>4
  <2>7. ASSUME m.seams \cap Near # {}
        PROVE  \E k \in m.keys, v \in Members(s) : k \in Members(q) /\ <<k, v>> \in Near
    <3>1. <<q[i], At(s, j + 1)>> \in Near \/ <<s[j], At(q, i + 1)>> \in Near  BY <2>2, <2>7
    <3>2. CASE <<q[i], At(s, j + 1)>> \in Near
      <4>1. At(s, j + 1) # Depot  BY <3>2, <1>4
      <4>2. At(s, j + 1) \in Members(s)  BY <4>1, <2>6
      <4> QED BY <4>2, <3>2, <2>3, Zenon
    <3>3. CASE <<s[j], At(q, i + 1)>> \in Near
      <4>1. At(q, i + 1) \in Members(q) /\ <<At(q, i + 1), s[j]>> \in Near
        <5>1. At(q, i + 1) # Depot /\ <<At(q, i + 1), s[j]>> \in Near  BY <3>3, <1>4
        <5> QED BY <5>1, <2>5
      <4>2. At(q, i + 1) \in m.keys  BY <2>2
      <4> QED BY <4>1, <4>2, <2>3, Zenon
    <3> QED BY <3>1, <3>2, <3>3
  <2> QED BY <1>1, <1>8, <2>3, <2>7 DEF q, s
<1> QED BY <1>5, <1>6, <1>7, <1>8 DEF Passes

-----------------------------------------------------------------------------
(* Stamps. *)
LEMMA TouchTypes ==
  ASSUME NEW t, NEW l, NEW e, Epochs(t, l, e), NEW C
  PROVE  Epochs([c \in Client |-> IF c \in C THEN e + 1 ELSE t[c]], l, e + 1)
<1>1. 0 .. e \subseteq 0 .. e + 1 /\ e + 1 \in 0 .. e + 1 /\ e + 1 \in Nat
  BY DEF Epochs
<1>2. \A c \in Client : t[c] \in 0 .. e + 1  BY <1>1 DEF Epochs
<1>3. l \in [Passes -> [Client -> 0 .. e + 1]]
  <2>1. l \in [Passes -> [Client -> 0 .. e]]  BY DEF Epochs
  <2>2. \A op \in Passes : l[op] \in [Client -> 0 .. e]  BY <2>1
  <2>3. \A op \in Passes : l[op] \in [Client -> 0 .. e + 1]  BY <2>2, <1>1
  <2> QED BY <2>1, <2>3
<1>4. [c \in Client |-> IF c \in C THEN e + 1 ELSE t[c]] \in [Client -> 0 .. e + 1]
  BY <1>1, <1>2
<1> QED BY <1>1, <1>3, <1>4 DEF Epochs

LEMMA FreshTypes ==
  Epochs([c \in Client |-> 1], [op \in Passes |-> [c \in Client |-> 0]], 1)
<1>1. 1 \in 0 .. 1 /\ 0 \in 0 .. 1 /\ 1 \in Nat  OBVIOUS
<1>2. [c \in Client |-> 1] \in [Client -> 0 .. 1]  BY <1>1
<1>3. [c \in Client |-> 0] \in [Client -> 0 .. 1]  BY <1>1
<1>4. [op \in Passes |-> [c \in Client |-> 0]] \in [Passes -> [Client -> 0 .. 1]]  BY <1>3
<1> QED BY <1>1, <1>2, <1>4 DEF Epochs

LEMMA MarkTypes ==
  ASSUME Epochs(touched, tested, epoch), MarkAllTouched
  PROVE  Epochs(touched', tested', epoch')
<1>1. epoch + 1 \in 0 .. epoch + 1 /\ 0 .. epoch \subseteq 0 .. epoch + 1 /\ epoch + 1 \in Nat
  BY DEF Epochs
<1>2. [c \in Client |-> epoch + 1] \in [Client -> 0 .. epoch + 1]  BY <1>1
<1>3. Epochs([c \in Client |-> IF c \in Client THEN epoch + 1 ELSE touched[c]], tested, epoch + 1)
  BY TouchTypes
<1> QED BY <1>1, <1>2, <1>3 DEF MarkAllTouched, Epochs

(* The state's types are preserved by every step of a descent and of its callers. *)
THEOREM Typing == Spec => []TypeOK
<1>1. Init => TypeOK
  <2> SUFFICES ASSUME Init PROVE TypeOK  OBVIOUS
  <2>1. routes \in [Slot -> Route \cup {<<>>}]  BY RouteAssumption DEF Init
  <2>2. Epochs(touched, tested, epoch)  BY FreshTypes DEF Init
  <2> QED BY <2>1, <2>2 DEF Init, TypeOK, Passes
<1>2. TypeOK /\ [Next]_vars => TypeOK'
  <2> SUFFICES ASSUME TypeOK, [Next]_vars PROVE TypeOK'  OBVIOUS
  <2>0. /\ restricted \in BOOLEAN /\ wide \in BOOLEAN /\ expired \in BOOLEAN
        /\ pc \in Passes \cup {"Ended", "Ready"}
        /\ routes \in [Slot -> Route \cup {<<>>}]
        /\ Epochs(touched, tested, epoch)
        /\ calls \in Nat
        /\ snap # NoSnap => /\ snap.routes \in [Slot -> Route \cup {<<>>}]
                            /\ Epochs(snap.touched, snap.tested, snap.epoch)
    BY DEF TypeOK
  <2>t. Solution \subseteq [Slot -> Route \cup {<<>>}] /\ Start \subseteq Solution
    BY RouteAssumption
  <2>1. ASSUME NEW op \in Passes, Pass(op) PROVE TypeOK'
    <3>1. /\ restricted' = restricted /\ wide' = wide /\ snap' = snap
          /\ expired' = expired /\ calls' = calls
      BY <2>1 DEF Pass
    <3>2. ASSUME NEW a \in Slot, NEW b \in Slot,
                 NEW m \in Enumerated(op, Retest(Granular, op), a, b), Commit(a, b, m)
          PROVE  TypeOK'
      <4>1. m.left \in Route \cup {<<>>} /\ m.right \in Route \cup {<<>>}
        BY <3>2 DEF Enumerated, Improves
      <4>2. routes' \in [Slot -> Route \cup {<<>>}]  BY <2>0, <3>2, <4>1 DEF Commit
      <4>3. Epochs(touched', tested', epoch')
        BY <2>0, <3>2, TouchTypes DEF Commit, Touch
      <4>4. pc' \in Passes  BY <3>2 DEF Commit, Passes
      <4> QED BY <2>0, <3>1, <4>2, <4>3, <4>4 DEF TypeOK
    <3>3. ASSUME Stamp(op, Retest(Granular, op)) PROVE TypeOK'
      <4>1. Epochs(touched', tested', epoch')
        <5>1. touched' = touched /\ epoch' = epoch  BY <3>3 DEF Stamp
        <5>2. CASE tested' = tested  BY <2>0, <5>1, <5>2
        <5>3. CASE tested' = [tested EXCEPT ![op] = [c \in Client |->
                                IF c \in Retest(Granular, op) THEN epoch ELSE tested[op][c]]]
          <6> DEFINE R == Retest(Granular, op)
          <6> DEFINE g == [c \in Client |-> IF c \in R THEN epoch ELSE tested[op][c]]
          <6>1. tested' = [tested EXCEPT ![op] = g]  BY <5>3
          <6> HIDE DEF R
          <6>2. g \in [Client -> 0 .. epoch]
            <7>1. epoch \in 0 .. epoch  BY <2>0 DEF Epochs
            <7>2. \A c \in Client : tested[op][c] \in 0 .. epoch  BY <2>0 DEF Epochs
            <7> QED BY <7>1, <7>2
          <6> HIDE DEF g
          <6> QED BY <2>0, <5>1, <6>1, <6>2 DEF Epochs
        <5> QED BY <3>3, <5>2, <5>3 DEF Stamp
      <4>2. pc' \in Passes \cup {"Ended"}  BY <3>3 DEF Stamp, Passes, After
      <4> QED BY <2>0, <3>1, <3>3, <4>1, <4>2 DEF TypeOK, Stamp
    <3> QED BY <2>1, <3>2, <3>3 DEF Pass
  <2>2. CASE Expire  BY <2>0, <2>2 DEF Expire, TypeOK, state
  <2>3. CASE Tick  BY <2>0, <2>3 DEF Tick, TypeOK, state
  <2>4. CASE Kick
    <3>1. /\ restricted' = restricted /\ expired' = expired /\ calls' = calls + 1
          /\ pc' \in Passes /\ wide' = FALSE
      BY <2>4 DEF Kick, Call, Passes
    <3>2. snap'.routes = routes /\ snap'.touched = touched /\ snap'.tested = tested
          /\ snap'.epoch = epoch
      BY <2>4 DEF Kick, Snapshot
    <3>3. routes' \in [Slot -> Route \cup {<<>>}]  BY <2>0, <2>4, <2>t DEF Kick, state
    <3>4. Epochs(touched', tested', epoch')
      <4>1. CASE UNCHANGED state  BY <2>0, <4>1 DEF state
      <4>2. ASSUME NEW D, Stamped(D), epoch' = epoch + 1, tested' = tested
            PROVE  Epochs(touched', tested', epoch')
        <5>1. PICK C : touched' = [c \in Client |-> IF c \in C THEN epoch + 1 ELSE touched[c]]
          BY <4>2 DEF Stamped, Touch
        <5> QED BY <2>0, <4>2, <5>1, TouchTypes
      <4> QED BY <2>4, <4>1, <4>2 DEF Kick
    <3>5. Epochs(snap'.touched, snap'.tested, snap'.epoch)  BY <3>2, <2>0
    <3>6. snap'.routes \in [Slot -> Route \cup {<<>>}]  BY <3>2, <2>0
    <3>7. calls' \in Nat  BY <3>1, <2>0
    <3> QED BY <2>0, <3>1, <3>3, <3>4, <3>5, <3>6, <3>7 DEF TypeOK
  <2>5. CASE FleetDrop
    <3>1. Epochs(touched', tested', epoch')  BY <2>0, <2>5, MarkTypes DEF FleetDrop
    <3>2. routes' \in [Slot -> Route \cup {<<>>}]  BY <2>5, <2>t DEF FleetDrop
    <3>3. /\ restricted' = restricted /\ expired' = expired /\ calls' = calls + 1
          /\ pc' \in Passes /\ wide' = FALSE /\ snap' = NoSnap
      BY <2>5 DEF FleetDrop, Call, Passes
    <3>4. calls' \in Nat  BY <3>3, <2>0
    <3> QED BY <2>0, <3>1, <3>2, <3>3, <3>4 DEF TypeOK
  <2>6. CASE Restart
    <3>1. Epochs(touched', tested', epoch')  BY <2>6, FreshTypes DEF Restart, Fresh
    <3>2. routes' \in [Slot -> Route \cup {<<>>}]  BY <2>6, <2>t DEF Restart
    <3> QED BY <2>0, <2>6, <3>1, <3>2 DEF Restart, Call, TypeOK
  <2>7. CASE Polish
    <3>1. Epochs(touched', tested', epoch')  BY <2>0, <2>7, MarkTypes DEF Polish
    <3> QED BY <2>0, <2>7, <3>1 DEF Polish, TypeOK, Passes
  <2>8. CASE Keep  BY <2>0, <2>8 DEF Keep, TypeOK, state
  <2>9. CASE Reject  BY <2>0, <2>9 DEF Reject, Restored, TypeOK
  <2>10. CASE UNCHANGED vars  BY <2>0, <2>10 DEF vars, state, TypeOK
  <2> QED BY <2>1, <2>2, <2>3, <2>4, <2>5, <2>6, <2>7, <2>8, <2>9, <2>10 DEF Next, Descend
<1> QED BY <1>1, <1>2, PTL DEF Spec

-----------------------------------------------------------------------------
(* Covered holds of a fresh state, and after every client was touched. *)
LEMMA AllDue ==
  ASSUME NEW r, Vector(r), NEW t, NEW l, NEW res,
         \A op \in Passes : \A c \in Client : t[c] > l[op][c]
  PROVE  Covered(r, t, l, res)
<1> SUFFICES ASSUME NEW op \in Passes, NEW a \in Slot, NEW b \in Slot, NEW m \in Moves(op, r, a, b)
             PROVE  \E k \in m.keys : k \in Due(t, l, res, op)
  BY DEF Covered, CoveredFor
<1>1. PICK k \in m.keys : k \in Members(r[a])  BY MoveParts
<1>2. k \in Client  BY <1>1, RouteMembers
<1> QED BY <1>1, <1>2 DEF Due

(* Touching the clients of every route that changed keeps Covered: a move on two
   old routes is an old move, and any other has a seam into a touched route. *)
LEMMA ChangeCovers ==
  ASSUME NEW r, Vector(r), NEW r2, Vector(r2), NEW t, NEW l, NEW e, Epochs(t, l, e),
         NEW t2, NEW C, t2 = [c \in Client |-> IF c \in C THEN e + 1 ELSE t[c]],
         \A x \in Slot : r2[x] = r[x] \/ Members(r2[x]) \subseteq C,
         NEW res, Covered(r, t, l, res)
  PROVE  Covered(r2, t2, l, res)
<1> SUFFICES ASSUME NEW op \in Passes, NEW a \in Slot, NEW b \in Slot, NEW m \in Moves(op, r2, a, b),
                    Justified(res, op, m), Improves(op, r2, a, b, m)
             PROVE  \E k \in m.keys : k \in Due(t2, l, res, op)
  BY DEF Covered, CoveredFor
<1>1. /\ \A c \in Client : t[c] \in 0 .. e /\ l[op][c] \in 0 .. e
      /\ e \in Nat
  BY DEF Epochs
<1>2. \A c \in Client \cap C : t2[c] > l[op][c]
  <2> SUFFICES ASSUME NEW c \in Client \cap C PROVE t2[c] > l[op][c]  OBVIOUS
  <2>1. t2[c] = e + 1  OBVIOUS
  <2> QED BY <1>1, <2>1
<1>3. \A c, v \in Client : t[v] > l[op][c] => t2[v] > l[op][c]
  <2> SUFFICES ASSUME NEW c \in Client, NEW v \in Client, t[v] > l[op][c] PROVE t2[v] > l[op][c]
    OBVIOUS
  <2>1. CASE v \in C
    <3>1. t2[v] = e + 1  BY <2>1
    <3> QED BY <3>1, <1>1
  <2>2. CASE v \notin C  BY <2>2
  <2> QED BY <2>1, <2>2
<1>4. Due(t, l, res, op) \subseteq Due(t2, l, res, op)  BY <1>3 DEF Due
<1>5. /\ Members(r2[a]) \subseteq Client /\ Members(r2[b]) \subseteq Client
  BY RouteMembers
<1>6. CASE r2[a] = r[a] /\ r2[b] = r[b]
  <2>1. Moves(op, r2, a, b) = Moves(op, r, a, b)  BY <1>6 DEF Moves
  <2>2. Improves(op, r, a, b, m)  BY <1>6 DEF Improves
  <2>3. \E k \in m.keys : k \in Due(t, l, res, op)
    BY <2>1, <2>2 DEF Covered, CoveredFor
  <2> QED BY <2>3, <1>4
<1>7. CASE r2[a] # r[a]
  <2>1. PICK k \in m.keys : k \in Members(r2[a])  BY MoveParts
  <2>2. k \in Client \cap C  BY <2>1, <1>5, <1>7
  <2> QED BY <2>1, <2>2, <1>2 DEF Due
<1>8. CASE r2[a] = r[a] /\ r2[b] # r[b]
  <2>1. op # "Intra"  BY <1>8, MoveParts
  <2>2. Members(r2[b]) \subseteq Client \cap C  BY <1>5, <1>8
  <2>3. CASE res
    <3>1. m.seams \cap Near # {}  BY <2>1, <2>3 DEF Justified
    <3>2. PICK k \in m.keys, v \in Members(r2[b]) : k \in Members(r2[a]) /\ <<k, v>> \in Near
      BY <2>1, <3>1, MoveParts
    <3>3. t2[v] > l[op][v] /\ v \in Client /\ k \in Client  BY <3>2, <2>2, <1>2, <1>5
    <3>4. t2[v] > l[op][k]
      <4>1. t2[v] = e + 1  BY <3>2, <2>2
      <4> QED BY <4>1, <3>3, <1>1
    <3> QED BY <2>1, <3>2, <3>3, <3>4 DEF Due
  <2>4. CASE ~res
    <3>1. PICK k \in m.keys : k \in Members(r2[a])  BY MoveParts
    <3>2. r2[b] # <<>> /\ r2[b] \in Seq(Client)  BY MoveParts, RouteMembers
    <3>3. r2[b][1] \in Members(r2[b])  BY <3>2 DEF Members
    <3>4. t2[r2[b][1]] = e + 1 /\ r2[b][1] \in Client /\ k \in Client
      BY <3>1, <3>3, <2>2, <1>5
    <3>5. t2[r2[b][1]] > l[op][k]  BY <3>4, <1>1
    <3> QED BY <2>1, <2>4, <3>1, <3>4, <3>5 DEF Due
  <2> QED BY <2>3, <2>4
<1> QED BY <1>6, <1>7, <1>8

(* A pass that found nothing among the clients it retested left nothing at all,
   so its stamps keep Covered, on the lists it ran on and on the granular ones. *)
LEMMA CleanLeavesNone ==
  ASSUME NEW op \in Passes, Covered(routes, touched, tested, Granular),
         \A a, b \in Slot : Enumerated(op, Retest(Granular, op), a, b) = {}
  PROVE  NoneLeft(routes, Granular, op)
<1> SUFFICES ASSUME NEW a \in Slot, NEW b \in Slot, NEW m \in Moves(op, routes, a, b),
                    Justified(Granular, op, m), Improves(op, routes, a, b, m)
             PROVE  FALSE
  BY DEF NoneLeft
<1>1. Retest(Granular, op) = Due(touched, tested, Granular, op)  BY DEF Retest, Due
<1>2. PICK k \in m.keys : k \in Retest(Granular, op)
  BY <1>1 DEF Covered, CoveredFor
<1>3. m \in Enumerated(op, Retest(Granular, op), a, b)  BY <1>2 DEF Enumerated
<1> QED BY <1>3

LEMMA GranularToo ==
  ASSUME NEW op, NEW r, NoneLeft(r, Granular, op)
  PROVE  NoneLeft(r, restricted, op)
BY DEF NoneLeft, Granular, Justified

LEMMA NothingToCover ==
  ASSUME NEW r, NEW t, NEW l, NEW res, NEW op \in Passes, NoneLeft(r, res, op),
         NEW l2, Covered(r, t, l, res), \A o \in Passes \ {op} : l2[o] = l[o]
  PROVE  Covered(r, t, l2, res)
<1> SUFFICES ASSUME NEW o \in Passes PROVE CoveredFor(r, t, l2, res, o)  BY DEF Covered
<1>1. CASE o = op  BY <1>1 DEF NoneLeft, CoveredFor
<1>2. CASE o # op
  <2>1. CoveredFor(r, t, l, res, o)  BY DEF Covered
  <2>2. Due(t, l2, res, o) = Due(t, l, res, o)  BY <1>2 DEF Due
  <2> QED BY <2>1, <2>2 DEF CoveredFor
<1> QED BY <1>1, <1>2

-----------------------------------------------------------------------------
\* the passes that found nothing since the last change
Swept(p) ==
  CASE p = "Intra"      -> {"Relocate"}
    [] p = "Swap"       -> {"Relocate", "Intra"}
    [] p = "TwoOptStar" -> {"Relocate", "Intra", "Swap"}
    [] p = "Ended"      -> Passes
    [] OTHER            -> {}

(* The inductive invariant.  The granular lists are covered at all times, also
   while the exhaustive ones are in use, for the descent that follows. *)
Inv ==
  /\ Covered(routes, touched, tested, restricted)
  /\ Covered(routes, touched, tested, Granular)
  /\ snap # NoSnap => Covered(snap.routes, snap.touched, snap.tested, restricted)
  /\ ~expired => \A op \in Swept(pc) : NoneLeft(routes, Granular, op)

LEMMA InitInv == Init => Inv
<1> SUFFICES ASSUME Init PROVE Inv  OBVIOUS
<1>1. Vector(routes)  BY RouteAssumption DEF Init, Vector
<1>2. \A op \in Passes : \A c \in Client : touched[c] > tested[op][c]  BY DEF Init
<1>3. Covered(routes, touched, tested, restricted) /\ Covered(routes, touched, tested, Granular)
  BY <1>1, <1>2, AllDue
<1>4. pc = "Relocate" /\ snap = NoSnap  BY DEF Init
<1> QED BY <1>3, <1>4 DEF Inv, Swept

(* A commit: only the two routes it replaced changed, and both were touched. *)
LEMMA CommitInv ==
  ASSUME TypeOK, TypeOK', Inv, NEW op \in Passes, NEW a \in Slot, NEW b \in Slot,
         NEW m \in Enumerated(op, Retest(Granular, op), a, b), Commit(a, b, m),
         restricted' = restricted, wide' = wide, snap' = snap
  PROVE  Inv'
<1> DEFINE C == Members(m.left) \cup Members(m.right)
<1>1. Vector(routes) /\ Vector(routes') /\ Epochs(touched, tested, epoch)
  BY DEF TypeOK, Vector
<1>2. touched' = [c \in Client |-> IF c \in C THEN epoch + 1 ELSE touched[c]] /\ tested' = tested
  BY DEF Commit, Touch
<1>3. \A x \in Slot : routes'[x] = routes[x] \/ Members(routes'[x]) \subseteq C
  BY <1>1 DEF Commit, Vector
<1> HIDE DEF C
<1>4. Covered(routes', touched', tested', restricted)
  BY <1>1, <1>2, <1>3, ChangeCovers DEF Inv
<1>5. Covered(routes', touched', tested', Granular)
  BY <1>1, <1>2, <1>3, ChangeCovers DEF Inv
<1>6. Granular' = Granular  BY DEF Granular
<1>7. Swept(pc') = {}  BY DEF Commit, Swept
<1> QED BY <1>4, <1>5, <1>6, <1>7 DEF Inv

LEMMA StampInv ==
  ASSUME TypeOK, Inv, NEW op \in Passes, pc = op,
         \A a, b \in Slot : Enumerated(op, Retest(Granular, op), a, b) = {},
         Stamp(op, Retest(Granular, op)),
         restricted' = restricted, wide' = wide, snap' = snap, expired' = expired
  PROVE  Inv'
<1>1. NoneLeft(routes, Granular, op)  BY CleanLeavesNone DEF Inv
<1>2. NoneLeft(routes, restricted, op)  BY <1>1, GranularToo
<1>3. routes' = routes /\ touched' = touched /\ pc' = After[op] /\ Granular' = Granular
  BY DEF Stamp, Granular
<1>4. \A o \in Passes \ {op} : tested'[o] = tested[o]
  <2>1. tested \in [Passes -> [Client -> 0 .. epoch]]  BY DEF TypeOK, Epochs
  <2> QED BY <2>1 DEF Stamp
<1>5. Covered(routes, touched, tested', restricted)
  BY <1>2, <1>4, NothingToCover DEF Inv
<1>6. Covered(routes, touched, tested', Granular)
  BY <1>1, <1>4, NothingToCover DEF Inv
<1>7. \A o \in Swept(pc') : o = op \/ o \in Swept(pc)
  BY <1>3 DEF Swept, After, Passes
<1> QED BY <1>1, <1>3, <1>5, <1>6, <1>7 DEF Inv

(* A kick: a route without any client of D, before and after, is the old one;
   the clients of every other were touched, those left behind by D included. *)
LEMMA KickInv ==
  ASSUME TypeOK, TypeOK', Inv, Kick
  PROVE  Inv'
<1>1. Vector(routes) /\ Vector(routes') /\ Epochs(touched, tested, epoch)
  BY DEF TypeOK, Vector
<1>2. restricted' = restricted /\ wide' = FALSE /\ Granular' = restricted'
  BY DEF Kick, Call, Granular, TypeOK
<1>3. Covered(routes', touched', tested', restricted)
  <2>1. CASE UNCHANGED state  BY <2>1 DEF state, Inv
  <2>2. ASSUME NEW D \in SUBSET Client, Ruined(routes, routes', D), Stamped(D), UNCHANGED tested
        PROVE  Covered(routes', touched', tested', restricted)
    <3> DEFINE C == D \cup Hit(routes, D) \cup Hit(routes', D)
    <3>1. touched' = [c \in Client |-> IF c \in C THEN epoch + 1 ELSE touched[c]]
      BY <2>2 DEF Stamped, Touch
    <3>2. ASSUME NEW x \in Slot
          PROVE  routes'[x] = routes[x] \/ Members(routes'[x]) \subseteq C
      <4>1. CASE Members(routes'[x]) \cap D # {}  BY <4>1 DEF Hit
      <4>2. CASE Members(routes'[x]) \cap D = {} /\ Members(routes[x]) \cap D # {}
        <5>1. Members(routes'[x]) \subseteq Members(routes[x])
          <6> SUFFICES ASSUME NEW c \in Members(routes'[x]) PROVE c \in Members(routes[x])
            OBVIOUS
          <6>1. routes'[x] \in Seq(Client)  BY <1>1, RouteMembers
          <6>2. PICK i \in DOMAIN routes'[x] : c = routes'[x][i]  BY DEF Members
          <6>3. c \notin D /\ i <= i  BY <4>2, <6>1, <6>2
          <6>4. <<c, c>> \in Kept(routes'[x], D)  BY <6>2, <6>3 DEF Kept
          <6>5. <<c, c>> \in Kept(routes[x], D)  BY <2>2, <6>4 DEF Ruined
          <6> QED BY <6>5 DEF Kept
        <5> QED BY <4>2, <5>1 DEF Hit
      <4>3. CASE (Members(routes[x]) \cup Members(routes'[x])) \cap D = {}
        BY <4>3, <2>2 DEF Ruined
      <4> QED BY <4>1, <4>2, <4>3
    <3> HIDE DEF C
    <3> QED BY <1>1, <2>2, <3>1, <3>2, ChangeCovers DEF Inv
  <2> QED BY <2>1, <2>2 DEF Kick
<1>4. /\ snap'.routes = routes /\ snap'.touched = touched /\ snap'.tested = tested
  BY DEF Kick, Snapshot
<1>5. Covered(snap'.routes, snap'.touched, snap'.tested, restricted)  BY <1>4 DEF Inv
<1>6. Swept(pc') = {}  BY DEF Kick, Swept
<1> QED BY <1>2, <1>3, <1>5, <1>6 DEF Inv

LEMMA MarkInv ==
  ASSUME TypeOK, TypeOK', MarkAllTouched
  PROVE  \A res \in BOOLEAN : Covered(routes', touched', tested', res)
<1>1. Vector(routes')  BY DEF TypeOK, Vector
<1>2. \A op \in Passes : \A c \in Client : tested[op][c] \in 0 .. epoch
  BY DEF TypeOK, Epochs
<1>3. epoch \in Nat /\ tested' = tested /\ \A c \in Client : touched'[c] = epoch + 1
  BY DEF TypeOK, Epochs, MarkAllTouched
<1>4. \A op \in Passes : \A c \in Client : touched'[c] > tested'[op][c]
  BY <1>2, <1>3
<1> QED BY <1>1, <1>4, AllDue

(* A descent that was not cut by the deadline ends where nothing its lists justify
   improves, whatever the stamps skipped. *)
THEOREM DescentsAreOptimal == Spec => []LocalOptimum
<1>1. TypeOK /\ TypeOK' /\ Inv /\ [Next]_vars => Inv'
  <2> SUFFICES ASSUME TypeOK, TypeOK', Inv, [Next]_vars PROVE Inv'  OBVIOUS
  <2>1. ASSUME NEW op \in Passes, Pass(op) PROVE Inv'
    <3>1. /\ restricted' = restricted /\ wide' = wide /\ snap' = snap
          /\ expired' = expired /\ pc = op
      BY <2>1 DEF Pass
    <3> QED BY <2>1, <3>1, CommitInv, StampInv DEF Pass
  <2>2. CASE Expire
    <3>1. expired' /\ UNCHANGED <<restricted, wide, routes, touched, tested, snap>>
      BY <2>2 DEF Expire, state
    <3> QED BY <3>1 DEF Inv, Granular
  <2>3. CASE Tick
    <3>1. expired' /\ UNCHANGED <<restricted, wide, routes, touched, tested, snap>>
      BY <2>3 DEF Tick, state
    <3> QED BY <3>1 DEF Inv, Granular
  <2>4. CASE Kick  BY <2>4, KickInv
  <2>5. CASE FleetDrop
    <3>1. restricted' = restricted /\ snap' = NoSnap /\ pc' = "Relocate"
          /\ MarkAllTouched
      BY <2>5 DEF FleetDrop, Call
    <3>2. restricted' \in BOOLEAN /\ Granular' \in BOOLEAN  BY DEF TypeOK, Granular
    <3> QED BY <3>1, <3>2, MarkInv DEF Inv, Swept
  <2>6. CASE Restart
    <3>1. snap' = NoSnap /\ pc' = "Ready" /\ Fresh
      BY <2>6 DEF Restart, Call
    <3>2. Vector(routes')  BY DEF TypeOK, Vector
    <3>3. \A op \in Passes : \A c \in Client : touched'[c] > tested'[op][c]  BY <3>1 DEF Fresh
    <3>4. \A res : Covered(routes', touched', tested', res)  BY <3>2, <3>3, AllDue
    <3> QED BY <3>1, <3>4 DEF Inv, Swept
  <2>7. CASE Polish
    <3>1. pc' = "Relocate" /\ MarkAllTouched /\ snap' = snap /\ restricted' = restricted
      BY <2>7 DEF Polish
    <3>2. restricted' \in BOOLEAN /\ Granular' \in BOOLEAN  BY DEF TypeOK, Granular
    <3> QED BY <3>1, <3>2, MarkInv DEF Inv, Swept
  <2>8. CASE Keep
    <3>1. pc' = "Ready" /\ snap' = NoSnap /\ ~wide'
          /\ UNCHANGED <<restricted, routes, touched, tested>>
      BY <2>8 DEF Keep, state
    <3>2. Granular' = restricted  BY <3>1 DEF Granular, TypeOK
    <3> QED BY <3>1, <3>2 DEF Inv, Swept
  <2>9. CASE Reject
    <3>1. /\ pc' = "Ready" /\ snap' = NoSnap /\ ~wide' /\ restricted' = restricted
          /\ snap # NoSnap
          /\ routes' = snap.routes /\ touched' = snap.touched /\ tested' = snap.tested
      BY <2>9 DEF Reject, Restored
    <3>2. Granular' = restricted  BY <3>1 DEF Granular, TypeOK
    <3> QED BY <3>1, <3>2 DEF Inv, Swept
  <2>10. CASE UNCHANGED vars  BY <2>10 DEF vars, state, Inv, Granular
  <2> QED BY <2>1, <2>2, <2>3, <2>4, <2>5, <2>6, <2>7, <2>8, <2>9, <2>10 DEF Next, Descend
<1>2. Inv => LocalOptimum
  BY DEF Inv, LocalOptimum, Swept, NoneLeft
<1>3. Spec => []TypeOK  BY Typing
<1> QED BY <1>1, <1>2, <1>3, InitInv, PTL DEF Spec

-----------------------------------------------------------------------------
(* Serving everybody once, route by route. *)
Tidy(r) ==
  /\ \A a \in Slot : Simple(r[a])
  /\ \A a, b \in Slot : a # b => Members(r[a]) \cap Members(r[b]) = {}
  /\ \A c \in Client : \E a \in Slot : c \in Members(r[a])

LEMMA ServesTidy ==
  ASSUME NEW r, Vector(r)
  PROVE  ServesOnce(r) <=> Tidy(r)
<1>1. \A a \in Slot : \A i \in DOMAIN r[a] : r[a][i] \in Client
  BY RouteMembers
<1>2. ASSUME ServesOnce(r), NEW a \in Slot, NEW b \in Slot,
             NEW i \in DOMAIN r[a], NEW j \in DOMAIN r[b], r[a][i] = r[b][j]
      PROVE  a = b /\ i = j
  <2>1. PICK d \in Slot : \E k \in DOMAIN r[d] :
          \A e \in Slot : \A l \in DOMAIN r[e] : r[e][l] = r[a][i] => e = d /\ l = k
    BY <1>1, <1>2 DEF ServesOnce
  <2> QED BY <1>2, <2>1
<1>3. ASSUME ServesOnce(r) PROVE Tidy(r)
  <2>1. \A a \in Slot : Simple(r[a])  BY <1>2, <1>3 DEF Simple
  <2>2. \A a, b \in Slot : a # b => Members(r[a]) \cap Members(r[b]) = {}
    BY <1>2, <1>3 DEF Members
  <2>3. \A c \in Client : \E a \in Slot : c \in Members(r[a])
    BY <1>3 DEF ServesOnce, Members
  <2> QED BY <2>1, <2>2, <2>3 DEF Tidy
<1>4. ASSUME Tidy(r) PROVE ServesOnce(r)
  <2> SUFFICES ASSUME NEW c \in Client
               PROVE  \E a \in Slot : \E i \in DOMAIN r[a] :
                        /\ r[a][i] = c
                        /\ \A b \in Slot : \A j \in DOMAIN r[b] : r[b][j] = c => b = a /\ j = i
    BY DEF ServesOnce
  <2>0. PICK a \in Slot : c \in Members(r[a])  BY <1>4 DEF Tidy
  <2>1. PICK i \in DOMAIN r[a] : r[a][i] = c  BY <2>0 DEF Members
  <2>2. ASSUME NEW b \in Slot, NEW j \in DOMAIN r[b], r[b][j] = c
        PROVE  b = a /\ j = i
    <3>1. c \in Members(r[a]) /\ c \in Members(r[b])  BY <2>1, <2>2 DEF Members
    <3>2. b = a  BY <1>4, <3>1 DEF Tidy
    <3>3. Simple(r[a])  BY <1>4 DEF Tidy
    <3> QED BY <2>1, <2>2, <3>2, <3>3 DEF Simple
  <2> QED BY <2>1, <2>2
<1> QED BY <1>3, <1>4

\* The two sides of a move share out the clients of q and s.
Shares(m, q, s) ==
  /\ m.left \in Seq(Client) /\ m.right \in Seq(Client)
  /\ Simple(m.left) /\ Simple(m.right)
  /\ Members(m.left) \cap Members(m.right) = {}
  /\ Members(m.left) \cup Members(m.right) = Members(q) \cup Members(s)

LEMMA RelocationShares ==
  ASSUME NEW q \in Seq(Client), NEW s \in Seq(Client), Simple(q), Simple(s),
         Members(q) \cap Members(s) = {}, NEW m \in Relocations(q, s)
  PROVE  Shares(m, q, s)
<1>1. PICK i \in DOMAIN q, p \in 0 .. Len(s) :
        m.left = Without(q, i) /\ m.right = Insert(s, p, q[i])
  BY DEF Relocations
<1>2. q[i] \in Members(q) /\ q[i] \in Client  BY DEF Members
<1>3. m.left \in Seq(Client) /\ Simple(m.left) /\ Members(m.left) = Members(q) \ {q[i]}
  BY <1>1, WithoutVisits
<1>4. m.right \in Seq(Client) /\ Simple(m.right) /\ Members(m.right) = Members(s) \cup {q[i]}
  BY <1>1, <1>2, InsertVisits
<1> QED BY <1>2, <1>3, <1>4 DEF Shares

LEMMA IntraKeeps ==
  ASSUME NEW q \in Seq(Client), Simple(q), NEW m \in IntraRelocations(q)
  PROVE  m.left = m.right /\ Simple(m.right) /\ Members(m.right) = Members(q)
<1>1. PICK i \in DOMAIN q, p \in 0 .. Len(q) : m.left = Moved(q, i, p) /\ m.right = Moved(q, i, p)
  BY DEF IntraRelocations
<1> DEFINE w == Without(q, i)
           x == IF p < i THEN p ELSE p - 1
<1>2. w \in Seq(Client) /\ Simple(w) /\ Members(w) = Members(q) \ {q[i]}
  BY WithoutVisits
<1>3. Len(w) = Len(q) - 1  BY WithoutParts
<1>4. i \in 1 .. Len(q) /\ Len(q) \in Nat  BY LenProperties
<1>5. x \in 0 .. Len(w)  BY <1>3, <1>4
<1>6. q[i] \in Members(q) /\ q[i] \in Client  BY DEF Members
<1> HIDE DEF w, x
<1>7. Simple(Insert(w, x, q[i])) /\ Members(Insert(w, x, q[i])) = Members(w) \cup {q[i]}
  BY <1>2, <1>5, <1>6, InsertVisits
<1>8. Moved(q, i, p) = Insert(w, x, q[i])  BY DEF Moved, w, x
<1> QED BY <1>1, <1>2, <1>6, <1>7, <1>8

LEMMA SwapShares ==
  ASSUME NEW q \in Seq(Client), NEW s \in Seq(Client), Simple(q), Simple(s),
         Members(q) \cap Members(s) = {}, NEW m \in Swaps(q, s)
  PROVE  Shares(m, q, s)
<1> DEFINE Swap(i, j) ==
             [left |-> [q EXCEPT ![i] = s[j]], right |-> [s EXCEPT ![j] = q[i]], keys |-> {q[i]},
              seams |-> {<<q[i], s[j]>>}]
<1>1. Swaps(q, s) = {Swap(i, j) : i \in DOMAIN q, j \in DOMAIN s}  BY DEF Swaps
<1>2. \A i \in DOMAIN q, j \in DOMAIN s :
        Swap(i, j).left = Exchange(q, i, s[j]) /\ Swap(i, j).right = Exchange(s, j, q[i])
  BY DEF Exchange
<1> HIDE DEF Swap
<1>3. PICK i \in DOMAIN q, j \in DOMAIN s : m = Swap(i, j)  BY <1>1
<1>4. m.left = Exchange(q, i, s[j]) /\ m.right = Exchange(s, j, q[i])  BY <1>3, <1>2
<1>5. q[i] \in Members(q) /\ q[i] \in Client /\ s[j] \in Members(s) /\ s[j] \in Client
  BY DEF Members
<1>6. q[i] \notin Members(s) /\ s[j] \notin Members(q)  BY <1>5
<1>7. /\ m.left \in Seq(Client) /\ Simple(m.left)
      /\ Members(m.left) = (Members(q) \ {q[i]}) \cup {s[j]}
  BY <1>4, <1>5, <1>6, ExchangeVisits
<1>8. /\ m.right \in Seq(Client) /\ Simple(m.right)
      /\ Members(m.right) = (Members(s) \ {s[j]}) \cup {q[i]}
  BY <1>4, <1>5, <1>6, ExchangeVisits
<1> QED BY <1>5, <1>6, <1>7, <1>8 DEF Shares

(* A cut behind position i parts the clients of a route. *)
LEMMA CutVisits ==
  ASSUME NEW q \in Seq(Client), Simple(q), NEW i \in DOMAIN q
  PROVE  /\ SubSeq(q, 1, i) \in Seq(Client) /\ SubSeq(q, i + 1, Len(q)) \in Seq(Client)
         /\ Simple(SubSeq(q, 1, i)) /\ Simple(SubSeq(q, i + 1, Len(q)))
         /\ Members(SubSeq(q, 1, i)) \cap Members(SubSeq(q, i + 1, Len(q))) = {}
         /\ Members(SubSeq(q, 1, i)) \cup Members(SubSeq(q, i + 1, Len(q))) = Members(q)
<1>1. DOMAIN q = 1 .. Len(q) /\ i \in 1 .. Len(q) /\ Len(q) \in Nat  BY LenProperties
<1>2. /\ 1 \in 1 .. Len(q) + 1 /\ i \in 0 .. Len(q)
      /\ i + 1 \in 1 .. Len(q) + 1 /\ Len(q) \in 0 .. Len(q)
  BY <1>1
<1>3. /\ SubSeq(q, 1, i) \in Seq(Client) /\ Simple(SubSeq(q, 1, i))
      /\ Members(SubSeq(q, 1, i)) = {q[k] : k \in 1 .. i}
  BY <1>2, StretchVisits
<1>4. /\ SubSeq(q, i + 1, Len(q)) \in Seq(Client) /\ Simple(SubSeq(q, i + 1, Len(q)))
      /\ Members(SubSeq(q, i + 1, Len(q))) = {q[k] : k \in i + 1 .. Len(q)}
  BY <1>2, StretchVisits
<1>5. /\ 1 .. i \subseteq DOMAIN q /\ i + 1 .. Len(q) \subseteq DOMAIN q
      /\ (1 .. i) \cup (i + 1 .. Len(q)) = DOMAIN q
      /\ \A k \in 1 .. i : \A l \in i + 1 .. Len(q) : k # l
  BY <1>1
<1>6. {q[k] : k \in 1 .. i} \cap {q[k] : k \in i + 1 .. Len(q)} = {}  BY <1>5 DEF Simple
<1>7. {q[k] : k \in 1 .. i} \cup {q[k] : k \in i + 1 .. Len(q)} = Members(q)
  BY <1>5 DEF Members
<1> QED BY <1>3, <1>4, <1>6, <1>7

LEMMA TailSwapShares ==
  ASSUME NEW q \in Seq(Client), NEW s \in Seq(Client), Simple(q), Simple(s),
         Members(q) \cap Members(s) = {}, NEW m \in TailSwaps(q, s)
  PROVE  Shares(m, q, s)
<1>1. PICK i \in DOMAIN q, j \in DOMAIN s : m = TailSwap(q, s, i, j)  BY DEF TailSwaps
<1> DEFINE u == SubSeq(q, 1, i)
           v == SubSeq(q, i + 1, Len(q))
           x == SubSeq(s, 1, j)
           y == SubSeq(s, j + 1, Len(s))
<1>2. m.left = u \o y /\ m.right = x \o v  BY <1>1 DEF TailSwap
<1>3. /\ u \in Seq(Client) /\ v \in Seq(Client) /\ Simple(u) /\ Simple(v)
      /\ Members(u) \cap Members(v) = {} /\ Members(u) \cup Members(v) = Members(q)
  BY CutVisits
<1>4. /\ x \in Seq(Client) /\ y \in Seq(Client) /\ Simple(x) /\ Simple(y)
      /\ Members(x) \cap Members(y) = {} /\ Members(x) \cup Members(y) = Members(s)
  BY CutVisits
<1> HIDE DEF u, v, x, y
<1>5. Members(u) \cap Members(y) = {} /\ Members(x) \cap Members(v) = {}  BY <1>3, <1>4
<1>6. u \o y \in Seq(Client) /\ Simple(u \o y) /\ Members(u \o y) = Members(u) \cup Members(y)
  BY <1>3, <1>4, <1>5, JoinVisits
<1>7. x \o v \in Seq(Client) /\ Simple(x \o v) /\ Members(x \o v) = Members(x) \cup Members(v)
  BY <1>3, <1>4, <1>5, JoinVisits
<1>8. /\ Members(m.left) \cap Members(m.right) = {}
      /\ Members(m.left) \cup Members(m.right) = Members(q) \cup Members(s)
  BY <1>2, <1>3, <1>4, <1>6, <1>7
<1> QED BY <1>2, <1>6, <1>7, <1>8 DEF Shares

(* A move of any operator, applied to its two slots, keeps the vector tidy. *)
LEMMA MoveVisits ==
  ASSUME NEW r, Vector(r), Tidy(r), NEW op \in Passes, NEW a \in Slot, NEW b \in Slot,
         NEW m \in Moves(op, r, a, b)
  PROVE  Tidy([r EXCEPT ![a] = m.left, ![b] = m.right])
<1> DEFINE t == [r EXCEPT ![a] = m.left, ![b] = m.right]
           q == r[a]
           s == r[b]
<1>1. q \in Seq(Client) /\ s \in Seq(Client)  BY RouteMembers
<1>2. Simple(q) /\ Simple(s) /\ (a # b => Members(q) \cap Members(s) = {})  BY DEF Tidy
<1>3. DOMAIN r = Slot  BY DEF Vector
<1>4. q # <<>> /\ s # <<>>  BY MoveParts
<1>5. t[b] = m.right /\ (a # b => t[a] = m.left) /\ \A x \in Slot \ {a, b} : t[x] = r[x]
  BY <1>3
<1>6. a < b => a # b
  <2>1. a \in Nat  BY RouteAssumption
  <2> QED BY <2>1
<1>7. CASE op = "Intra"
  <2>1. a = b /\ m \in IntraRelocations(q)  BY <1>4, <1>7 DEF Moves
  <2>2. Simple(m.right) /\ Members(m.right) = Members(q)  BY <1>1, <1>2, <2>1, IntraKeeps
  <2>3. \A x \in Slot : Simple(t[x]) /\ Members(t[x]) = Members(r[x])
    <3> SUFFICES ASSUME NEW x \in Slot PROVE Simple(t[x]) /\ Members(t[x]) = Members(r[x])
      OBVIOUS
    <3>1. CASE x = b  BY <1>5, <2>1, <2>2, <3>1
    <3>2. CASE x # b  BY <1>5, <2>1, <3>2 DEF Tidy
    <3> QED BY <3>1, <3>2
  <2> HIDE DEF t
  <2>4. Tidy(t)  BY <2>3 DEF Tidy
  <2> QED BY <2>4 DEF t
<1>8. CASE op # "Intra"
  <2>1. a # b /\ Shares(m, q, s)
    <3>1. CASE op = "Relocate"
      <4>1. a # b /\ m \in Relocations(q, s)  BY <1>4, <3>1 DEF Moves
      <4> QED BY <1>1, <1>2, <4>1, RelocationShares
    <3>2. CASE op = "Swap"
      <4>1. a # b /\ m \in Swaps(q, s)  BY <1>4, <1>6, <3>2 DEF Moves
      <4> QED BY <1>1, <1>2, <4>1, SwapShares
    <3>3. CASE op = "TwoOptStar"
      <4>1. a # b /\ m \in TailSwaps(q, s)  BY <1>4, <1>6, <3>3 DEF Moves
      <4> QED BY <1>1, <1>2, <4>1, TailSwapShares
    <3> QED BY <1>8, <3>1, <3>2, <3>3 DEF Passes
  <2>2. t[a] = m.left /\ t[b] = m.right  BY <1>5, <2>1
  <2>3. /\ Simple(t[a]) /\ Simple(t[b]) /\ Members(t[a]) \cap Members(t[b]) = {}
        /\ Members(t[a]) \cup Members(t[b]) = Members(r[a]) \cup Members(r[b])
    BY <2>1, <2>2 DEF Shares
  <2>4. \A x \in Slot \ {a, b} : t[x] = r[x]  BY <1>5
  <2> HIDE DEF t, q, s
  <2>5. \A x \in Slot : Simple(t[x])  BY <2>3, <2>4 DEF Tidy
  <2>6. \A x \in Slot \ {a, b} : Members(t[x]) \cap (Members(t[a]) \cup Members(t[b])) = {}
    BY <2>3, <2>4 DEF Tidy
  <2>7. \A x, y \in Slot : x # y => Members(t[x]) \cap Members(t[y]) = {}
    <3> SUFFICES ASSUME NEW x \in Slot, NEW y \in Slot, x # y
                 PROVE  Members(t[x]) \cap Members(t[y]) = {}
      OBVIOUS
    <3>1. CASE x \in {a, b} /\ y \in {a, b}  BY <2>3, <3>1
    <3>2. CASE x \notin {a, b} /\ y \in {a, b}  BY <2>6, <3>2
    <3>3. CASE x \in {a, b} /\ y \notin {a, b}  BY <2>6, <3>3
    <3>4. CASE x \notin {a, b} /\ y \notin {a, b}  BY <2>4, <3>4 DEF Tidy
    <3> QED BY <3>1, <3>2, <3>3, <3>4
  <2>8. \A c \in Client : \E x \in Slot : c \in Members(t[x])
    <3> SUFFICES ASSUME NEW c \in Client PROVE \E x \in Slot : c \in Members(t[x])  OBVIOUS
    <3>1. PICK x \in Slot : c \in Members(r[x])  BY DEF Tidy
    <3>2. CASE x \in {a, b}  BY <2>3, <3>1, <3>2
    <3>3. CASE x \notin {a, b}  BY <2>4, <3>1, <3>3
    <3> QED BY <3>2, <3>3
  <2>9. Tidy(t)  BY <2>5, <2>7, <2>8 DEF Tidy
  <2> QED BY <2>9 DEF t
<1> QED BY <1>7, <1>8

\* What is served once, live and in the snapshot a rejection brings back.
Kempt == Tidy(routes) /\ (snap # NoSnap => Tidy(snap.routes))

(* No descent, kick, rejection, drop or restart loses or doubles a client: the
   surgery of the four operators shares clients out, and what a caller hands in
   serves everybody once. *)
THEOREM EverybodyServedOnce == Spec => []ServedOnce
<1>1. \A r \in Solution : Vector(r) /\ Tidy(r)
  BY RouteAssumption, ServesTidy DEF Vector
<1>2. Start \subseteq Solution  BY RouteAssumption
<1>3. Init => Kempt  BY <1>1, <1>2 DEF Init, Kempt
<1>4. TypeOK /\ Kempt /\ [Next]_vars => Kempt'
  <2> SUFFICES ASSUME TypeOK, Kempt, [Next]_vars PROVE Kempt'  OBVIOUS
  <2>1. ASSUME NEW op \in Passes, Pass(op) PROVE Kempt'
    <3>1. snap' = snap  BY <2>1 DEF Pass
    <3>2. ASSUME NEW a \in Slot, NEW b \in Slot,
                 NEW m \in Enumerated(op, Retest(Granular, op), a, b), Commit(a, b, m)
          PROVE  Tidy(routes')
      <4>1. Vector(routes) /\ Tidy(routes)  BY DEF TypeOK, Kempt, Vector
      <4>2. m \in Moves(op, routes, a, b)  BY DEF Enumerated
      <4>3. routes' = [routes EXCEPT ![a] = m.left, ![b] = m.right]  BY <3>2 DEF Commit
      <4> QED BY <4>1, <4>2, <4>3, MoveVisits
    <3>3. ASSUME Stamp(op, Retest(Granular, op)) PROVE Tidy(routes')
      BY <3>3 DEF Stamp, Kempt
    <3>4. Tidy(routes')  BY <2>1, <3>2, <3>3 DEF Pass
    <3> QED BY <3>1, <3>4 DEF Kempt
  <2>2. CASE Expire  BY <2>2 DEF Expire, state, Kempt
  <2>3. CASE Tick  BY <2>3 DEF Tick, state, Kempt
  <2>4. CASE Kick
    <3>1. snap'.routes = routes  BY <2>4 DEF Kick, Snapshot
    <3>2. routes' = routes \/ routes' \in Solution  BY <2>4 DEF Kick, state
    <3> QED BY <1>1, <3>1, <3>2 DEF Kempt
  <2>5. CASE FleetDrop  BY <1>1, <2>5 DEF FleetDrop, Kempt
  <2>6. CASE Restart  BY <1>1, <1>2, <2>6 DEF Restart, Kempt
  <2>7. CASE Polish  BY <2>7 DEF Polish, Kempt
  <2>8. CASE Keep  BY <2>8 DEF Keep, state, Kempt
  <2>9. CASE Reject  BY <2>9 DEF Reject, Restored, Kempt
  <2>10. CASE UNCHANGED vars  BY <2>10 DEF vars, state, Kempt
  <2> QED BY <2>1, <2>2, <2>3, <2>4, <2>5, <2>6, <2>7, <2>8, <2>9, <2>10 DEF Next, Descend
<1>5. TypeOK /\ Kempt => ServedOnce
  BY ServesTidy DEF TypeOK, Kempt, ServedOnce, Vector
<1>6. Spec => []TypeOK  BY Typing
<1> QED BY <1>3, <1>4, <1>5, <1>6, PTL DEF Spec

=============================================================================

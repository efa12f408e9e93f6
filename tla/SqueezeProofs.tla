--------------------------- MODULE SqueezeProofs ---------------------------
(***************************************************************************)
(* Theorems about Squeeze, for every set of routes and prices, every       *)
(* neighbour relation, and any budget and deadline: its types, what it     *)
(* does to the clients, what a caller gets, and that the stamps of the     *)
(* explore leg hide no move.                                               *)
(***************************************************************************)
EXTENDS Squeeze, CommonLemmas, FiniteSetTheorems

USE DEF Legs, NoGuest

-----------------------------------------------------------------------------
(* Moves *)

LEMMA RouteFacts ==
  ASSUME NEW q \in Route
  PROVE  /\ q \in Seq(Client) /\ q # <<>>
         /\ DOMAIN q = 1 .. Len(q) /\ Len(q) \in Nat \ {0}
         /\ Members(q) \subseteq Client
<1>1. q \in Seq(Client) /\ q # <<>> BY SqueezeAssumption
<1>2. DOMAIN q = 1 .. Len(q) /\ Len(q) \in Nat \ {0} BY <1>1, EmptySeq, LenProperties
<1>3. \A k \in DOMAIN q : q[k] \in Client BY <1>1, <1>2, ElementOfSeq
<1> QED BY <1>1, <1>2, <1>3 DEF Members

(* A move takes c from its route q to a neighbour's route s. *)
LEMMA MoveParts ==
  ASSUME NEW c \in Client, NEW q \in Route, NEW s \in Route, NEW m \in Moves(c, q, s)
  PROVE  /\ m.donor = q /\ m.host = s
         /\ c \in Members(q)
         /\ \E v \in Members(s) : v \in Neighbours(c)
<1>1. CASE m \in Relocations(c, q, s)
  BY <1>1 DEF Relocations, Members
<1>2. CASE m \in Swaps(c, q, s)
  BY <1>2 DEF Swaps, Members
<1> QED BY <1>1, <1>2 DEF Moves

(* It rearranges the clients of the two routes, and leaves a route at s. *)
LEMMA MoveConserves ==
  ASSUME NEW c \in Client, NEW q \in Route, NEW s \in Route, NEW m \in Moves(c, q, s),
         Simple(q), Simple(s), Members(q) \cap Members(s) = {}
  PROVE  /\ m.left \in Seq(Client) /\ m.right \in Seq(Client)
         /\ Simple(m.left) /\ Simple(m.right)
         /\ Members(m.left) \cap Members(m.right) = {}
         /\ Members(m.left) \cup Members(m.right) = Members(q) \cup Members(s)
<1>1. /\ q \in Seq(Client) /\ s \in Seq(Client)
      /\ DOMAIN q = 1 .. Len(q) /\ DOMAIN s = 1 .. Len(s)
  BY RouteFacts
<1>2. CASE m \in Relocations(c, q, s)
  <2>1. PICK i \in DOMAIN q, p \in 0 .. Len(s) :
          q[i] = c /\ m.left = Without(q, i) /\ m.right = Insert(s, p, c)
    BY <1>2 DEF Relocations
  <2>2. c \in Members(q) /\ c \notin Members(s)
    BY <2>1 DEF Members
  <2>3. /\ m.left \in Seq(Client) /\ Simple(m.left)
        /\ Members(m.left) = Members(q) \ {c}
    BY <1>1, <2>1, WithoutVisits
  <2>4. /\ m.right \in Seq(Client) /\ Simple(m.right)
        /\ Members(m.right) = Members(s) \cup {c}
    BY <1>1, <2>1, <2>2, InsertVisits
  <2> QED BY <2>2, <2>3, <2>4
<1>3. CASE m \in Swaps(c, q, s)
  <2>1. PICK i \in DOMAIN q, j \in DOMAIN s :
          q[i] = c /\ m.left = Exchange(q, i, s[j]) /\ m.right = Exchange(s, j, c)
    <3>1. PICK i \in DOMAIN q, j \in DOMAIN s :
            /\ q[i] = c
            /\ m = [donor |-> q, host |-> s, left |-> Exchange(q, i, s[j]), right |-> Exchange(s, j, c)]
      BY <1>3 DEF Swaps
    <3> QED BY <3>1
  <2>2. c \in Members(q) /\ s[j] \in Members(s) /\ s[j] \in Client /\ c # s[j]
    BY <2>1, RouteFacts DEF Members
  <2>5. c \notin Members(s) /\ s[j] \notin Members(q)
    BY <2>2
  <2>3. /\ m.left \in Seq(Client) /\ Simple(m.left)
        /\ Members(m.left) = (Members(q) \ {c}) \cup {s[j]}
    BY <1>1, <2>1, <2>2, <2>5, ExchangeVisits
  <2>4. /\ m.right \in Seq(Client) /\ Simple(m.right)
        /\ Members(m.right) = (Members(s) \ {s[j]}) \cup {c}
    BY <1>1, <2>1, <2>2, <2>5, ExchangeVisits
  <2> QED BY <2>2, <2>3, <2>4, <2>5
<1> QED BY <1>2, <1>3 DEF Moves

LEMMA GainParts ==
  ASSUME NEW leg, NEW T \in SUBSET Route, NEW c \in Client, NEW m \in Gains(leg, T, c)
  PROVE  /\ m.donor \in T /\ m.host \in T /\ m.donor # m.host
         /\ m \in Moves(c, m.donor, m.host)
         /\ Improves(leg, m)
<1>1. PICK q \in T, s \in T : q # s /\ m \in Moves(c, q, s) /\ Improves(leg, m)
  BY DEF Gains
<1>2. m.donor = q /\ m.host = s
  BY <1>1, MoveParts
<1> QED BY <1>1, <1>2

-----------------------------------------------------------------------------
(* Sets of routes *)

Moved(T, m) == (T \ {m.donor, m.host}) \cup ({m.left, m.right} \ {<<>>})

LEMMA NoRouteEmpty == ASSUME NEW q \in Seq(Client) PROVE q = <<>> <=> Members(q) = {}
<1>1. q = <<>> => Members(q) = {} BY DEF Members
<1>2. q # <<>> => 1 \in DOMAIN q BY EmptySeq, LenProperties
<1> QED BY <1>1, <1>2 DEF Members

LEMMA Two ==
  \A x, y : /\ IsFiniteSet({x, y})
            /\ Cardinality({x, y}) = IF x = y THEN 1 ELSE 2
<1> TAKE x, y
<1>1. IsFiniteSet({x}) /\ Cardinality({x}) = 1 BY FS_Singleton
<1>2. /\ IsFiniteSet({x} \cup {y})
      /\ Cardinality({x} \cup {y}) = IF y \in {x} THEN Cardinality({x}) ELSE Cardinality({x}) + 1
  BY <1>1, FS_AddElement
<1>3. {x} \cup {y} = {x, y} OBVIOUS
<1> QED BY <1>1, <1>2, <1>3

LEMMA MovedKeeps ==
  ASSUME NEW T \in SUBSET Route, Packed(T), IsFiniteSet(T),
         NEW leg, NEW c \in Client, NEW m \in Gains(leg, T, c)
  PROVE  /\ Moved(T, m) \subseteq Route
         /\ Packed(Moved(T, m))
         /\ Served(Moved(T, m)) = Served(T)
         /\ IsFiniteSet(Moved(T, m))
         /\ Cardinality(Moved(T, m)) <= Cardinality(T)
<1>1. PICK q \in T, s \in T :
        /\ m.donor = q /\ m.host = s /\ q # s
        /\ m \in Moves(c, q, s) /\ Improves(leg, m)
  BY GainParts
<1> DEFINE A == {q, s}
           B == {m.left, m.right} \ {<<>>}
<1>2. B \subseteq Route
  BY <1>1 DEF Improves
<1>3. Simple(q) /\ Simple(s) /\ Members(q) \cap Members(s) = {}
  BY <1>1 DEF Packed
<1>4. /\ m.left \in Seq(Client) /\ m.right \in Seq(Client)
      /\ Simple(m.left) /\ Simple(m.right)
      /\ Members(m.left) \cap Members(m.right) = {}
      /\ Members(m.left) \cup Members(m.right) = Members(q) \cup Members(s)
  <2>1. q \in Route /\ s \in Route BY <1>1
  <2>2. m \in Moves(c, q, s) BY <1>1
  <2>3. Simple(q) /\ Simple(s) /\ Members(q) \cap Members(s) = {} BY <1>3
  <2> QED BY <2>1, <2>2, <2>3, MoveConserves
<1>5. Packed(B)
  BY <1>4 DEF Packed
<1>6. Served(B) = Members(q) \cup Members(s)
  BY <1>4, NoRouteEmpty DEF Served
<1>7. Served(A) = Members(q) \cup Members(s)
  BY DEF Served
<1>8. Served(T \ A) = Served(T) \ Served(A)
  BY <1>1, ServedRest
<1>9. Packed((T \ A) \cup B)
  <2>1. A \in SUBSET T BY <1>1
  <2>2. Served(B) \cap Served(T \ A) = {} BY <1>6, <1>7, <1>8
  <2> HIDE DEF A, B
  <2> QED BY <2>1, <2>2, <1>5, Repacked
<1>10. Served((T \ A) \cup B) = Served(T \ A) \cup Served(B)
  BY DEF Served
<1>11. Served(A) \subseteq Served(T)
  BY <1>1 DEF Served
<1>12. IsFiniteSet(A) /\ Cardinality(A) = 2
  BY <1>1, Two
<1>13. IsFiniteSet(B) /\ Cardinality(B) <= 2
  <2>1. IsFiniteSet({m.left, m.right}) /\ Cardinality({m.left, m.right}) \in {1, 2}
    BY Two
  <2>2. B \subseteq {m.left, m.right} OBVIOUS
  <2>3. Cardinality(B) <= Cardinality({m.left, m.right}) /\ IsFiniteSet(B) BY <2>1, <2>2, FS_Subset
  <2> QED BY <2>1, <2>3, FS_CardinalityType
<1>14. IsFiniteSet(T \ A) /\ Cardinality(T \ A) = Cardinality(T) - 2
  <2>1. T \cap A = A BY <1>1
  <2>2. IsFiniteSet(T \ A) /\ Cardinality(T \ A) = Cardinality(T) - Cardinality(T \cap A)
    BY FS_Difference
  <2> QED BY <2>1, <2>2, <1>12
<1>15. /\ IsFiniteSet((T \ A) \cup B)
       /\ Cardinality((T \ A) \cup B) <= Cardinality(T)
  <2>1. /\ IsFiniteSet((T \ A) \cup B)
        /\ Cardinality((T \ A) \cup B)
             = Cardinality(T \ A) + Cardinality(B) - Cardinality((T \ A) \cap B)
    BY <1>13, <1>14, FS_Union
  <2>2. IsFiniteSet((T \ A) \cap B) BY <1>13, FS_Intersection
  <2>3. /\ Cardinality((T \ A) \cap B) \in Nat /\ Cardinality(B) \in Nat
        /\ Cardinality(T \ A) \in Nat /\ Cardinality(T) \in Nat
    BY <1>13, <1>14, <2>2, FS_CardinalityType
  <2> QED BY <1>13, <1>14, <2>1, <2>3
<1>16. Moved(T, m) = (T \ A) \cup B
  BY <1>1 DEF Moved
<1> QED BY <1>1, <1>2, <1>6, <1>7, <1>8, <1>9, <1>10, <1>11, <1>15, <1>16

LEMMA CommitParts ==
  ASSUME NEW m, Commit(m)
  PROVE  /\ Now' = Moved(Now, m)
         /\ epoch' = epoch + 1
         /\ \A q \in Now' : ws'[q] = IF q \in {m.left, m.right} THEN epoch + 1 ELSE ws[q]
         /\ ws' = [q \in Now' |-> ws'[q]]
BY DEF Commit, Moved, Now

(* The forced insertion replaces the host's route. *)
LEMMA PlaceParts ==
  ASSUME NEW x \in Cheapest(Places)
  PROVE  /\ x.host \in Now /\ x.right \in Route
         /\ \E p \in 0 .. Len(x.host) : x.right = Insert(x.host, p, guest)
<1>1. x \in Places BY DEF Cheapest
<1>2. PICK s \in Now : x \in {[host |-> s, right |-> Insert(s, p, guest)] : p \in Spots(s)} /\ x.right \in Route
  BY <1>1 DEF Places
<1>3. PICK p \in Spots(s) : x = [host |-> s, right |-> Insert(s, p, guest)]
  BY <1>2
<1>4. p \in 0 .. Len(s) BY DEF Spots
<1> QED BY <1>2, <1>3, <1>4

-----------------------------------------------------------------------------
(* Types *)

Entered ==
  /\ entry \subseteq Timely /\ Packed(entry) /\ IsFiniteSet(entry)
  /\ guest \in (Client \ Served(entry)) \cup {NoGuest}

Base ==
  /\ TypeOK
  /\ Entered
  /\ pc \in Legs \cup {"Finish"} => guest = NoGuest
  /\ pc \in {"Force", "Mend"} => guest \in Client
  /\ pc = "Force" => Now = entry

LEMMA CommitTypes ==
  ASSUME TypeOK, NEW leg, NEW m, Improves(leg, m), Commit(m)
  PROVE  /\ Now' \subseteq Route
         /\ ws' \in [Now' -> 0 .. epoch']
         /\ epoch' \in Nat
<1>1. /\ Now' = Moved(Now, m) /\ epoch' = epoch + 1
      /\ \A q \in Now' : ws'[q] = IF q \in {m.left, m.right} THEN epoch + 1 ELSE ws[q]
      /\ ws' = [q \in Now' |-> ws'[q]]
  BY CommitParts
<1>2. Now' \subseteq Route BY <1>1 DEF Moved, Improves, TypeOK
<1>3. ASSUME NEW q \in Now' PROVE ws'[q] \in 0 .. epoch + 1
  <2>1. q \in {m.left, m.right} \/ q \in Now BY <1>1 DEF Moved
  <2> QED BY <1>1, <2>1 DEF TypeOK
<1> QED BY <1>1, <1>2, <1>3 DEF TypeOK

LEMMA BaseInit == Init => Base
<1> SUFFICES ASSUME Init PROVE Base OBVIOUS
<1>1. PICK x \in Calls : entry = x[1] /\ guest = x[2] BY DEF Init
<1>2. Entered BY <1>1, CallAssumption DEF Entered
<1>3. Now = entry BY DEF Init, Now
<1>4. entry \subseteq Route BY <1>2, SqueezeAssumption DEF Entered
<1>5. ws \in [Now -> 0 .. epoch] /\ epoch \in Nat BY <1>3 DEF Init
<1>6. NumClients \in Nat BY SqueezeAssumption
<1>7. TypeOK
  <2>1. stamp \in [Client -> 0 .. epoch] /\ at \in 1 .. NumClients + 1 BY <1>5, <1>6 DEF Init
  <2>2. budget \in 0 .. 2 /\ bank \subseteq Route BY DEF Init
  <2>3. pc \in Legs \cup {"Force", "Mend", "Finish", "Done"} BY DEF Init
  <2>4. restricted \in BOOLEAN /\ improved \in BOOLEAN /\ expired \in BOOLEAN /\ won \in BOOLEAN BY DEF Init
  <2> QED BY <1>3, <1>4, <1>5, <2>1, <2>2, <2>3, <2>4 DEF TypeOK
<1>8. guest # NoGuest => guest \in Client BY <1>2 DEF Entered
<1> QED BY <1>2, <1>3, <1>7, <1>8 DEF Init, Base

LEMMA LegEnds ==
  ASSUME Base, NEW leg \in Legs, pc = leg, EndLeg(leg),
         UNCHANGED <<restricted, entry, guest, budget, expired, routes, won>>
  PROVE  Base'
<1>1. NumClients \in Nat /\ Timely \subseteq Route BY SqueezeAssumption
<1>2. bank' \subseteq Route
  <2>1. Banked(Now) \subseteq Route BY <1>1 DEF Base, TypeOK, Banked
  <2> QED BY <2>1 DEF Base, TypeOK, EndLeg
<1>3. pc' \in {"Repair", "Finish"} /\ at' = 1 /\ improved' = FALSE BY DEF EndLeg
<1>4. ws' = ws /\ epoch' = epoch /\ stamp' = stamp /\ Now' = Now BY DEF EndLeg, search, Now
<1>5. guest = NoGuest BY DEF Base
<1>6. at' \in 1 .. NumClients + 1 /\ pc' \in Legs \cup {"Force", "Mend", "Finish", "Done"}
  BY <1>1, <1>3
<1>7. /\ Now' \subseteq Route /\ ws' \in [Now' -> 0 .. epoch'] /\ epoch' \in Nat
      /\ stamp' \in [Client -> 0 .. epoch']
  BY <1>4 DEF Base, TypeOK
<1>8. TypeOK' BY <1>2, <1>3, <1>6, <1>7 DEF Base, TypeOK
<1> QED BY <1>3, <1>4, <1>5, <1>8 DEF Base, Entered

LEMMA BaseStep == Base /\ [Next]_vars => Base'
<1> SUFFICES ASSUME Base, [Next]_vars PROVE Base' OBVIOUS
<1> USE DEF Base, Entered, call, search, loop, result
<1>0. NumClients \in Nat /\ Client = 1 .. NumClients /\ Timely \subseteq Route /\ entry \subseteq Route
  BY SqueezeAssumption DEF Client
<1>1. ASSUME NEW leg \in Legs, CutShort(leg) PROVE Base'
  <2>1. EndLeg(leg) /\ UNCHANGED <<restricted, entry, guest, budget, expired, routes, won>> /\ pc = leg
    BY <1>1 DEF CutShort
  <2> QED BY <1>0, <2>1, LegEnds
<1>2. ASSUME NEW leg \in Legs, Skip(leg) PROVE Base'
  BY <1>0, <1>2 DEF Skip, TypeOK, Now
<1>3. ASSUME NEW leg \in Legs, Move(leg) PROVE Base'
  <2>1. PICK m \in Gains(leg, Now, at) : Commit(m) BY <1>3 DEF Move
  <2>2. Now' \subseteq Route /\ ws' \in [Now' -> 0 .. epoch'] /\ epoch' \in Nat
    <3>1. Improves(leg, m) BY DEF Gains
    <3> QED BY <2>1, <3>1, CommitTypes
  <2>3. stamp' \in [Client -> 0 .. epoch']
    BY <1>3, <2>1, CommitParts DEF Move, TypeOK
  <2>4. bank' \subseteq Route
    BY <1>0, <1>3 DEF Move, Banked, TypeOK
  <2> QED BY <1>0, <1>3, <2>2, <2>3, <2>4 DEF Move, TypeOK, Charge
<1>4. ASSUME NEW leg \in Legs, NoMove(leg) PROVE Base'
  BY <1>0, <1>4 DEF NoMove, Stamp, Charge, TypeOK, Now
<1>5. ASSUME NEW leg \in Legs, RoundEnds(leg) PROVE Base'
  <2>1. CASE improved
    <3>1. /\ at' = 1 /\ improved' = FALSE
          /\ UNCHANGED <<restricted, entry, guest, pc, ws, epoch, stamp, bank, budget, expired, routes, won>>
      BY <1>5, <2>1 DEF RoundEnds
    <3>2. at' \in 1 .. NumClients + 1 BY <1>0, <3>1
    <3> QED BY <3>1, <3>2 DEF TypeOK, Now
  <2>2. CASE ~improved
    <3>1. EndLeg(leg) /\ UNCHANGED <<restricted, entry, guest, budget, expired, routes, won>> /\ pc = leg
      BY <1>5, <2>2 DEF RoundEnds
    <3> QED BY <3>1, LegEnds
  <2> QED BY <2>1, <2>2
<1>6. CASE Finish
  BY <1>0, <1>6 DEF Finish, Return, TypeOK, Now
<1>7. CASE ForceGuest
  <2>1. CASE <<guest>> \in Route /\ Places # {}
    <3>1. PICK x \in Cheapest(Places) :
            /\ ws' = [q \in (Now \ {x.host}) \cup {x.right} |->
                        IF q = x.right THEN epoch + 1 ELSE ws[q]]
            /\ epoch' = epoch + 1
            /\ pc' = "Mend"
      BY <1>7, <2>1, Zenon DEF ForceGuest
    <3>2. x.right \in Route BY PlaceParts
    <3>3. Now' \subseteq Route /\ ws' \in [Now' -> 0 .. epoch'] BY <3>1, <3>2 DEF TypeOK, Now
    <3>4. budget' \in 0 .. budget /\ UNCHANGED <<restricted, entry, guest, stamp, at, improved, expired, bank>>
      BY <1>7 DEF ForceGuest, Charge
    <3>5. UNCHANGED won BY <1>7, <2>1 DEF ForceGuest
    <3>6. stamp' \in [Client -> 0 .. epoch'] BY <3>1, <3>4 DEF TypeOK
    <3>7. budget' \in 0 .. 2 BY <3>4 DEF TypeOK
    <3>8. epoch' \in Nat BY <3>1 DEF TypeOK
    <3>9. pc = "Force" BY <1>7 DEF ForceGuest
    <3>10. TypeOK' BY <3>1, <3>3, <3>4, <3>5, <3>6, <3>7, <3>8 DEF TypeOK
    <3> QED BY <3>1, <3>4, <3>9, <3>10
  <2>2. CASE ~(<<guest>> \in Route /\ Places # {})
    <3>1. /\ budget' \in 0 .. budget /\ pc' = "Done" /\ won' = FALSE
          /\ UNCHANGED <<restricted, entry, guest, ws, epoch, stamp, at, improved, expired, bank>>
      BY <1>7, <2>2 DEF ForceGuest, Charge, Return
    <3>2. budget' \in 0 .. 2 BY <3>1 DEF TypeOK
    <3> QED BY <3>1, <3>2 DEF TypeOK, Now
  <2> QED BY <2>1, <2>2
<1>8. CASE Mended
  BY <1>0, <1>8 DEF Mended, Return, TypeOK, Now
<1>9. CASE Mend
  <2>0. PICK q \in Now : \E m \in Out(q) : Commit(m) BY <1>9 DEF Mend, Best
  <2>1. PICK m \in Out(q) : Commit(m) BY <2>0
  <2>2. PICK c \in Members(q) : m \in Gains("Explore", Now, c) BY DEF Out
  <2>3. Now' \subseteq Route /\ ws' \in [Now' -> 0 .. epoch'] /\ epoch' \in Nat
    <3>1. Improves("Explore", m) BY <2>2 DEF Gains
    <3> QED BY <2>1, <3>1, CommitTypes
  <2>4. stamp' \in [Client -> 0 .. epoch']
    BY <1>9, <2>1, CommitParts DEF Mend, TypeOK
  <2> QED BY <1>0, <1>9, <2>3, <2>4 DEF Mend, TypeOK, Charge
<1>10. CASE Stuck
  <2>1. /\ pc' = "Done" /\ won' = FALSE
        /\ UNCHANGED <<restricted, entry, guest, ws, epoch, stamp, at, improved, expired, bank>>
    BY <1>10 DEF Stuck, Return
  <2>2. budget' = budget \/ budget' \in 0 .. budget BY <1>10 DEF Stuck, Charge
  <2>3. budget' \in 0 .. 2 BY <2>2 DEF TypeOK
  <2> QED BY <2>1, <2>3 DEF TypeOK, Now
<1>11. CASE Tick
  BY <1>0, <1>11 DEF Tick, TypeOK, Now
<1>12. CASE UNCHANGED vars
  BY <1>12 DEF vars, TypeOK, Now
<1> QED BY <1>1, <1>2, <1>3, <1>4, <1>5, <1>6, <1>7, <1>8, <1>9, <1>10, <1>11, <1>12
        DEF Next, Step, Descend

(* A call keeps its state in its types; no stamp runs ahead of the epoch. *)
THEOREM Typing == Spec => []TypeOK
<1>1. Base => TypeOK BY DEF Base
<1> QED BY <1>1, BaseInit, BaseStep, PTL DEF Spec
-----------------------------------------------------------------------------
(* Clients *)

Held ==
  /\ Packed(Now) /\ IsFiniteSet(Now) /\ Cardinality(Now) <= Cardinality(entry)
  /\ pc # "Done" => Served(Now) = Served(entry) \cup (IF pc = "Mend" THEN {guest} ELSE {})

LEMMA HeldInit == Init => Held
<1> SUFFICES ASSUME Init PROVE Held OBVIOUS
<1>1. Base BY BaseInit
<1>2. Now = entry BY DEF Init, Now
<1>3. Cardinality(entry) \in Nat BY <1>1, FS_CardinalityType DEF Base, Entered
<1> QED BY <1>1, <1>2, <1>3 DEF Init, Held, Base, Entered

(* The routes stay: the call may go from a leg to the next one, or return. *)
LEMMA HeldStill ==
  ASSUME Held, UNCHANGED <<entry, guest, ws>>,
         pc' \in {"Done", pc} \/ {pc, pc'} \subseteq Legs \cup {"Finish"}
  PROVE  Held'
BY DEF Held, Now

LEMMA HeldCommit ==
  ASSUME Base, Held, UNCHANGED <<entry, guest>>,
         pc' = pc \/ {pc, pc'} \subseteq Legs \cup {"Finish"}, pc # "Done",
         NEW leg, NEW c \in Client, NEW m \in Gains(leg, Now, c), Commit(m)
  PROVE  Held'
<1>1. Now' = Moved(Now, m) BY CommitParts
<1>2. Now \in SUBSET Route /\ IsFiniteSet(Now) /\ Packed(Now) BY DEF Base, TypeOK, Held
<1>3. /\ Packed(Now') /\ IsFiniteSet(Now') /\ Served(Now') = Served(Now)
      /\ Cardinality(Now') <= Cardinality(Now)
  <2>1. /\ Packed(Moved(Now, m)) /\ IsFiniteSet(Moved(Now, m))
        /\ Served(Moved(Now, m)) = Served(Now)
        /\ Cardinality(Moved(Now, m)) <= Cardinality(Now)
    BY <1>2, MovedKeeps
  <2> QED BY <1>1, <2>1
<1>4. /\ Cardinality(Now) \in Nat /\ Cardinality(Now') \in Nat /\ Cardinality(entry) \in Nat
      /\ Cardinality(Now) <= Cardinality(entry)
  BY <1>2, <1>3, FS_CardinalityType DEF Base, Entered, Held
<1>5. Cardinality(Now') <= Cardinality(entry)
  BY <1>3, <1>4
<1>6. pc # "Done" => Served(Now') = Served(entry) \cup (IF pc = "Mend" THEN {guest} ELSE {})
  BY <1>3 DEF Held
<1> QED BY <1>3, <1>5, <1>6 DEF Held

(* A guest who is not served is forced into the route host. *)
LEMMA HeldForce ==
  ASSUME Base, Held, pc = "Force", UNCHANGED <<entry, guest>>, pc' = "Mend",
         NEW x \in Cheapest(Places), Now' = (Now \ {x.host}) \cup {x.right}
  PROVE  Held'
<1>1. /\ Now \in SUBSET Route /\ IsFiniteSet(Now) /\ Packed(Now) /\ Now = entry
      /\ Cardinality(Now) <= Cardinality(entry)
      /\ guest \in Client /\ guest \notin Served(Now)
  <2>1. guest \in Client /\ guest \notin {0} BY SqueezeAssumption DEF Base, Client
  <2>2. Now = entry /\ guest \in (Client \ Served(entry)) \cup {NoGuest} BY DEF Base, Entered
  <2>3. guest \notin Served(entry) BY <2>1, <2>2
  <2> QED BY <2>1, <2>2, <2>3 DEF Base, TypeOK, Held
<1>2. /\ x.host \in Now /\ x.right \in Route
      /\ \E p \in 0 .. Len(x.host) : x.right = Insert(x.host, p, guest)
  BY PlaceParts
<1>3. Simple(x.host) /\ guest \notin Members(x.host) /\ x.host \in Seq(Client)
  BY <1>1, <1>2, RouteFacts DEF Packed, Served
<1>4. Simple(x.right) /\ Members(x.right) = Members(x.host) \cup {guest}
  BY <1>1, <1>2, <1>3, InsertVisits
<1>5. Packed({x.right}) /\ Served({x.right}) = Members(x.right) /\ Served({x.host}) = Members(x.host)
  BY <1>4 DEF Packed, Served
<1>6. Served(Now \ {x.host}) = Served(Now) \ Members(x.host)
  BY <1>1, <1>2, <1>5, ServedRest
<1>7. Packed(Now')
  <2>1. {x.host} \in SUBSET Now BY <1>2
  <2>2. Served({x.right}) \cap Served(Now \ {x.host}) = {} BY <1>1, <1>4, <1>5, <1>6
  <2>3. Packed((Now \ {x.host}) \cup {x.right}) BY <1>1, <1>5, <2>1, <2>2, Repacked
  <2> QED BY <2>3
<1>8. Served(Now') = Served(Now) \cup {guest}
  <2>1. Served(Now') = Served(Now \ {x.host}) \cup Members(x.right) BY DEF Served
  <2>2. Members(x.host) \subseteq Served(Now) BY <1>2 DEF Served
  <2> QED BY <2>1, <2>2, <1>4, <1>6
<1>9. IsFiniteSet(Now') /\ Cardinality(Now') <= Cardinality(Now)
  <2>1. IsFiniteSet(Now \ {x.host}) /\ Cardinality(Now \ {x.host}) = Cardinality(Now) - 1
    BY <1>1, <1>2, FS_RemoveElement
  <2>2. /\ IsFiniteSet((Now \ {x.host}) \cup {x.right})
        /\ Cardinality((Now \ {x.host}) \cup {x.right})
             = IF x.right \in Now \ {x.host} THEN Cardinality(Now \ {x.host})
               ELSE Cardinality(Now \ {x.host}) + 1
    BY <2>1, FS_AddElement
  <2>3. Cardinality(Now) \in Nat BY <1>1, FS_CardinalityType
  <2> QED BY <2>1, <2>2, <2>3
<1>10. Cardinality(Now') <= Cardinality(entry) BY <1>1, <1>9
<1> QED BY <1>1, <1>7, <1>8, <1>9, <1>10 DEF Held

LEMMA HeldStep == Base /\ Held /\ [Next]_vars => Held'
<1> SUFFICES ASSUME Base, Held, [Next]_vars PROVE Held' OBVIOUS
<1> USE DEF call, search, loop, result
<1>1. ASSUME NEW leg \in Legs, CutShort(leg) PROVE Held'
  BY <1>1, HeldStill DEF CutShort, EndLeg
<1>2. ASSUME NEW leg \in Legs, Skip(leg) PROVE Held'
  BY <1>2, HeldStill DEF Skip
<1>3. ASSUME NEW leg \in Legs, Move(leg) PROVE Held'
  <2>1. PICK m \in Gains(leg, Now, at) : Commit(m) BY <1>3 DEF Move
  <2>2. at \in Client /\ pc \in Legs /\ pc' \in Legs \cup {"Finish"} /\ UNCHANGED <<entry, guest>>
    BY <1>3 DEF Move
  <2> QED BY <2>1, <2>2, HeldCommit
<1>4. ASSUME NEW leg \in Legs, NoMove(leg) PROVE Held'
  BY <1>4, HeldStill DEF NoMove
<1>5. ASSUME NEW leg \in Legs, RoundEnds(leg) PROVE Held'
  BY <1>5, HeldStill DEF RoundEnds, EndLeg
<1>6. CASE Finish
  BY <1>6, HeldStill DEF Finish, Return
<1>7. CASE ForceGuest
  <2>1. CASE <<guest>> \in Route /\ Places # {}
    <3>1. PICK x \in Cheapest(Places) :
            /\ ws' = [q \in (Now \ {x.host}) \cup {x.right} |->
                        IF q = x.right THEN epoch + 1 ELSE ws[q]]
            /\ pc' = "Mend"
      BY <1>7, <2>1 DEF ForceGuest
    <3>2. Now' = (Now \ {x.host}) \cup {x.right} BY <3>1 DEF Now
    <3>3. pc = "Force" /\ UNCHANGED <<entry, guest>> BY <1>7 DEF ForceGuest
    <3> QED BY <3>1, <3>2, <3>3, HeldForce
  <2>2. CASE ~(<<guest>> \in Route /\ Places # {})
    BY <1>7, <2>2, HeldStill DEF ForceGuest, Return
  <2> QED BY <2>1, <2>2
<1>8. CASE Mended
  BY <1>8, HeldStill DEF Mended, Return
<1>9. CASE Mend
  <2>0. PICK q \in Now : \E m \in Out(q) : Commit(m) BY <1>9 DEF Mend, Best
  <2>1. PICK m \in Out(q) : Commit(m) BY <2>0
  <2>2. PICK c \in Members(q) : m \in Gains("Explore", Now, c) BY DEF Out
  <2>3. c \in Client
    <3>1. q \in Route BY DEF Base, TypeOK
    <3> QED BY <3>1, RouteFacts
  <2>4. pc = "Mend" /\ pc' = pc /\ UNCHANGED <<entry, guest>> BY <1>9 DEF Mend
  <2> QED BY <2>1, <2>2, <2>3, <2>4, HeldCommit
<1>10. CASE Stuck
  BY <1>10, HeldStill DEF Stuck, Return
<1>11. CASE Tick
  BY <1>11, HeldStill DEF Tick
<1>12. CASE UNCHANGED vars
  BY <1>12, HeldStill DEF vars
<1> QED BY <1>1, <1>2, <1>3, <1>4, <1>5, <1>6, <1>7, <1>8, <1>9, <1>10, <1>11, <1>12
        DEF Next, Step, Descend

(* A search visits the clients of its call, each once. *)
THEOREM NothingLostHolds == Spec => []NothingLost
<1>1. Held => NothingLost BY DEF Held, NothingLost
<1> QED BY <1>1, BaseInit, BaseStep, HeldInit, HeldStep, PTL DEF Spec

-----------------------------------------------------------------------------
(* What a caller gets.  The objective is a number. *)

Priced == \A S \in SUBSET Timely : Objective(S) \in Int

Good(S) ==
  /\ S \subseteq Timely /\ Packed(S)
  /\ Cardinality(S) <= Cardinality(entry)
  /\ Served(S) = Served(entry)
  /\ Objective(S) < Objective(entry)

Kept == bank # {} => Good(bank)

LEMMA BankedGood ==
  ASSUME Priced, Base, Kept, NEW S,
         Packed(S), Cardinality(S) <= Cardinality(entry), Served(S) = Served(entry),
         Banked(S) # {}
  PROVE  Good(Banked(S))
<1>1. CASE Banked(S) = bank BY <1>1 DEF Kept
<1>2. CASE Banked(S) # bank
  <2>1. /\ S \subseteq Timely /\ Banked(S) = S
        /\ Objective(S) < Objective(IF bank = {} THEN entry ELSE bank)
    BY <1>2 DEF Banked
  <2>2. Objective(S) \in Int /\ Objective(entry) \in Int BY <2>1 DEF Priced, Base, Entered
  <2>3. CASE bank = {} BY <2>1, <2>3 DEF Good
  <2>4. CASE bank # {}
    <3>1. /\ Objective(bank) \in Int /\ Objective(bank) < Objective(entry)
          /\ Objective(S) < Objective(bank)
      BY <2>1, <2>4 DEF Kept, Good, Priced
    <3>2. Objective(S) < Objective(entry) BY <2>2, <3>1
    <3> QED BY <2>1, <3>2 DEF Good
  <2> QED BY <2>3, <2>4
<1> QED BY <1>1, <1>2

LEMMA KeptStep ==
  ASSUME Priced, Base, Held, Held', Kept, [Next]_vars
  PROVE  Kept'
<1> USE DEF call, search, loop, result
<1>1. UNCHANGED entry
  BY DEF Next, Step, Descend, CutShort, Skip, Move, NoMove, RoundEnds, Finish, ForceGuest,
         Mended, Mend, Stuck, Tick, vars
<1>2. CASE bank' = bank
  BY <1>1, <1>2 DEF Kept, Good
<1>3. ASSUME NEW leg \in Legs, pc = leg, EndLeg(leg) PROVE Kept'
  <2>1. bank' = bank \/ bank' = Banked(Now) BY <1>3 DEF EndLeg
  <2>2. Packed(Now) /\ Cardinality(Now) <= Cardinality(entry) /\ Served(Now) = Served(entry)
    BY <1>3 DEF Held
  <2>3. Banked(Now) # {} => Good(Banked(Now)) BY <2>2, BankedGood
  <2> QED BY <1>1, <1>2, <2>1, <2>3 DEF Kept, Good
<1>4. ASSUME NEW leg \in Legs, Move(leg) PROVE Kept'
  <2>1. bank' = Banked(DOMAIN ws') /\ pc' \in Legs \cup {"Finish"} BY <1>4 DEF Move
  <2>2. /\ Packed(DOMAIN ws') /\ Cardinality(DOMAIN ws') <= Cardinality(entry)
        /\ Served(DOMAIN ws') = Served(entry)
    BY <1>1, <2>1 DEF Held, Now
  <2>3. Banked(DOMAIN ws') # {} => Good(Banked(DOMAIN ws')) BY <2>2, BankedGood
  <2> QED BY <1>1, <2>1, <2>3 DEF Kept, Good
<1>5. bank' = bank \/ \E leg \in Legs : (pc = leg /\ EndLeg(leg)) \/ Move(leg)
  BY DEF Next, Step, Descend, CutShort, Skip, NoMove, RoundEnds, Finish, ForceGuest,
         Mended, Mend, Stuck, Tick, vars
<1> QED BY <1>2, <1>3, <1>4, <1>5
LEMMA OutcomeStep ==
  ASSUME Priced, Base, Held, Kept, Outcome, [Next]_vars
  PROVE  Outcome'
<1> USE DEF call, search, loop, result
<1>1. CASE Finish
  <2>1. pc = "Finish" /\ guest = NoGuest BY <1>1 DEF Finish, Base
  <2>2. UNCHANGED <<entry, guest>> BY <1>1 DEF Finish
  <2>3. CASE bank = {} BY <1>1, <2>2, <2>3 DEF Finish, Return, Outcome
  <2>4. CASE bank # {}
    <3>1. routes' = bank /\ won' = TRUE BY <1>1, <2>4 DEF Finish, Return
    <3>2. Good(bank) BY <2>4 DEF Kept
    <3> QED BY <2>1, <2>2, <3>1, <3>2 DEF Outcome, Good
  <2> QED BY <2>3, <2>4
<1>2. CASE Mended
  <2>1. /\ pc = "Mend" /\ Now \subseteq Timely /\ routes' = Now /\ won' = TRUE
        /\ UNCHANGED <<entry, guest>>
    BY <1>2 DEF Mended, Return
  <2>2. guest # NoGuest BY <2>1, SqueezeAssumption DEF Base, Client
  <2>3. /\ Packed(Now) /\ Cardinality(Now) <= Cardinality(entry)
        /\ Served(Now) = Served(entry) \cup {guest}
    BY <2>1 DEF Held
  <2> QED BY <2>1, <2>2, <2>3 DEF Outcome
<1>3. CASE ForceGuest
  <2>1. UNCHANGED entry BY <1>3 DEF ForceGuest
  <2>2. CASE pc' = "Done"
    <3>1. routes' = entry /\ won' = FALSE BY <1>3, <2>2 DEF ForceGuest, Return
    <3> QED BY <2>1, <3>1 DEF Outcome
  <2> QED BY <2>2 DEF Outcome
<1>4. CASE Stuck
  BY <1>4 DEF Stuck, Return, Outcome
<1>5. CASE pc' # "Done"
  BY <1>5 DEF Outcome
<1>6. CASE UNCHANGED <<pc, entry, guest, routes, won>>
  BY <1>6 DEF Outcome
<1>7. Finish \/ Mended \/ ForceGuest \/ Stuck \/ pc' # "Done" \/ UNCHANGED <<pc, entry, guest, routes, won>>
  BY DEF Next, Step, Descend, CutShort, EndLeg, Skip, Move, NoMove, RoundEnds, Mend, Tick, vars
<1> QED BY <1>1, <1>2, <1>3, <1>4, <1>5, <1>6, <1>7

(* A call that succeeds returns routes without lateness that visit the same
   clients and the guest, no more of them, and from a phase cheaper ones; a call
   that fails returns the routes it was given. *)
THEOREM OutcomeHolds == ASSUME Priced PROVE Spec => []Outcome
<1>1. Init => Kept /\ Outcome BY DEF Init, Kept, Outcome
<1>2. Base /\ Held /\ Held' /\ Kept /\ Outcome /\ [Next]_vars => Kept' /\ Outcome'
  BY KeptStep, OutcomeStep
<1> QED BY <1>1, <1>2, BaseInit, BaseStep, HeldInit, HeldStep, PTL DEF Spec

-----------------------------------------------------------------------------
(* Stamps *)

(* No move of c improves between two routes that c's stamp covers. *)
Stamped ==
  pc = "Explore" =>
    \A c \in Client : \A q, s \in Now :
      q # s /\ ws[q] <= stamp[c] /\ ws[s] <= stamp[c] =>
        \A m \in Moves(c, q, s) : ~Improves("Explore", m)

(* A round that committed nothing leaves no client due behind it. *)
Quiet ==
  pc = "Explore" /\ ~improved => \A c \in Client : c < at => ~Due(c)

LEMMA MovesStay ==
  ASSUME UNCHANGED restricted
  PROVE  /\ \A c, q, s : Moves(c, q, s)' = Moves(c, q, s)
         /\ \A leg, m : Improves(leg, m)' = Improves(leg, m)
<1>1. \A c, q, s : Moves(c, q, s)' = Moves(c, q, s)
  BY DEF Moves, Relocations, Swaps, Neighbours
<1>2. \A leg, m : Improves(leg, m)' = Improves(leg, m)
  BY DEF Improves, Before, After, Price
<1> QED BY <1>1, <1>2

LEMMA StampedStill ==
  ASSUME Stamped, Quiet, UNCHANGED <<restricted, ws, stamp>>, pc' = "Explore" => pc = "Explore",
         pc' = "Explore" /\ ~improved' => (~improved /\ at' = at) \/ at' = 1,
         at' \in Int
  PROVE  Stamped' /\ Quiet'
<1>1. Client \subseteq {c \in Nat : c >= 1} BY SqueezeAssumption DEF Client
<1>2. Now' = Now BY DEF Now
<1>3. Stamped'
  BY <1>2, MovesStay DEF Stamped
<1>4. Quiet'
  BY <1>1, <1>2 DEF Quiet, Due, Neighbours
<1> QED BY <1>3, <1>4

LEMMA StampedMove ==
  ASSUME Base, Stamped, NEW leg \in Legs, Move(leg)
  PROVE  Stamped' /\ Quiet'
<1> USE DEF call, search, loop, result
<1>1. PICK m \in Gains(leg, Now, at) : Commit(m) BY DEF Move
<1>2. /\ Now' = Moved(Now, m)
      /\ \A q \in Now' : ws'[q] = IF q \in {m.left, m.right} THEN epoch + 1 ELSE ws[q]
  BY <1>1, CommitParts
<1>3. UNCHANGED <<restricted, stamp>> /\ improved' = TRUE /\ (pc' = "Explore" => pc = "Explore")
  BY DEF Move
<1>4. Quiet' BY <1>3 DEF Quiet
<1>5. ASSUME pc' = "Explore", NEW c \in Client, NEW q \in Now', ws'[q] <= stamp[c]
      PROVE  q \in Now /\ ws[q] = ws'[q]
  <2>1. stamp[c] \in 0 .. epoch /\ epoch \in Nat BY DEF Base, TypeOK
  <2>2. q \notin {m.left, m.right} BY <1>2, <1>5, <2>1
  <2> QED BY <1>2, <2>2 DEF Moved
<1>6. Stamped'
  <2> SUFFICES ASSUME pc' = "Explore", NEW c \in Client, NEW q \in Now', NEW s \in Now',
                      q # s, ws'[q] <= stamp'[c], ws'[s] <= stamp'[c],
                      NEW n \in Moves(c, q, s)'
               PROVE  ~Improves("Explore", n)'
    BY DEF Stamped
  <2>1. q \in Now /\ s \in Now /\ ws[q] <= stamp[c] /\ ws[s] <= stamp[c]
    BY <1>3, <1>5
  <2>2. n \in Moves(c, q, s) BY <1>3 DEF Moves, Relocations, Swaps, Neighbours
  <2>3. ~Improves("Explore", n) BY <1>3, <2>1, <2>2 DEF Stamped
  <2> QED BY <2>3 DEF Improves, Before, After, Price
<1> QED BY <1>4, <1>6

LEMMA StampedNoMove ==
  ASSUME Base, Stamped, Quiet, NEW leg \in Legs, NoMove(leg)
  PROVE  Stamped' /\ Quiet'
<1> USE DEF call, search, loop, result
<1>1. /\ UNCHANGED <<restricted, pc, ws, improved>> /\ pc = leg /\ at \in Client
      /\ stamp' = [stamp EXCEPT ![at] = epoch] /\ at' = at + 1
      /\ Gains(leg, Now, at) = {}
  BY DEF NoMove, Stamp
<1>2. Now' = Now /\ Client \subseteq Nat BY <1>1 DEF Now, Client
<1>3. \A c \in Client : stamp'[c] = IF c = at THEN epoch ELSE stamp[c]
  BY <1>1 DEF Base, TypeOK
<1>4. Stamped'
  <2> SUFFICES ASSUME pc = "Explore", NEW c \in Client, NEW q \in Now, NEW s \in Now,
                      q # s, ws[q] <= stamp'[c], ws[s] <= stamp'[c],
                      NEW n \in Moves(c, q, s)
               PROVE  ~Improves("Explore", n)
    BY <1>1, <1>2, MovesStay DEF Stamped
  <2>1. CASE c = at
    BY <1>1, <2>1 DEF Gains
  <2>2. CASE c # at
    BY <1>3, <2>2 DEF Stamped
  <2> QED BY <2>1, <2>2
<1>5. Quiet'
  <2> SUFFICES ASSUME pc = "Explore", ~improved, NEW c \in Client, c < at + 1,
                      NEW q \in Now, ({c} \cup Neighbours(c)) \cap Members(q) # {}
               PROVE  ~(ws[q] > stamp'[c])
    BY <1>1, <1>2 DEF Quiet, Due, Neighbours
  <2>1. ws[q] \in 0 .. epoch /\ epoch \in Nat BY DEF Base, TypeOK
  <2>2. CASE c = at
    BY <1>3, <2>1, <2>2
  <2>3. CASE c # at
    <3>1. c < at BY <1>1, <1>2, <2>3
    <3> QED BY <1>3, <2>3, <3>1 DEF Quiet, Due
  <2> QED BY <2>2, <2>3
<1> QED BY <1>4, <1>5

LEMMA StampedSkip ==
  ASSUME Base, Stamped, Quiet, NEW leg \in Legs, Skip(leg)
  PROVE  Stamped' /\ Quiet'
<1> USE DEF call, search, loop, result
<1>1. /\ UNCHANGED <<restricted, pc, ws, stamp, improved>> /\ at \in Client
      /\ at' = at + 1 /\ ~Due(at)
  BY DEF Skip
<1>2. Now' = Now /\ Client \subseteq Nat BY <1>1 DEF Now, Client
<1>3. Stamped'
  BY <1>1, <1>2, MovesStay DEF Stamped
<1>4. \A c \in Client : Due(c)' = Due(c)
  BY <1>1, <1>2 DEF Due, Neighbours
<1>5. \A c \in Client : c < at + 1 => c < at \/ c = at
  BY <1>1, <1>2
<1>6. Quiet'
  BY <1>1, <1>4, <1>5 DEF Quiet
<1> QED BY <1>3, <1>6

LEMMA StampedStep == Base /\ Stamped /\ Quiet /\ [Next]_vars => Stamped' /\ Quiet'
<1> SUFFICES ASSUME Base, Stamped, Quiet, [Next]_vars PROVE Stamped' /\ Quiet' OBVIOUS
<1> USE DEF call, search, loop, result
<1>0. at \in Int BY DEF Base, TypeOK
<1>1. ASSUME pc' # "Explore" PROVE Stamped' /\ Quiet'
  BY <1>1 DEF Stamped, Quiet
<1>2. ASSUME NEW leg \in Legs, Descend(leg) PROVE Stamped' /\ Quiet'
  <2>1. CASE CutShort(leg) BY <1>1, <2>1 DEF CutShort, EndLeg
  <2>2. CASE Skip(leg) BY <2>2, StampedSkip
  <2>3. CASE Move(leg) BY <2>3, StampedMove
  <2>4. CASE NoMove(leg) BY <2>4, StampedNoMove
  <2>5. CASE RoundEnds(leg)
    <3>1. CASE improved BY <2>5, <3>1, StampedStill DEF RoundEnds
    <3>2. CASE ~improved BY <1>1, <2>5, <3>2 DEF RoundEnds, EndLeg
    <3> QED BY <3>1, <3>2
  <2> QED BY <1>2, <2>1, <2>2, <2>3, <2>4, <2>5 DEF Descend
<1>3. CASE Finish BY <1>1, <1>3 DEF Finish, Return
<1>4. CASE ForceGuest BY <1>1, <1>4 DEF ForceGuest, Return
<1>5. CASE Mended BY <1>1, <1>5 DEF Mended, Return
<1>6. CASE Mend BY <1>1, <1>6 DEF Mend
<1>7. CASE Stuck BY <1>1, <1>7 DEF Stuck, Return
<1>8. CASE Tick BY <1>0, <1>8, StampedStill DEF Tick
<1>9. CASE UNCHANGED vars BY <1>0, <1>9, StampedStill DEF vars
<1> QED BY <1>2, <1>3, <1>4, <1>5, <1>6, <1>7, <1>8, <1>9 DEF Next, Step

(* An explore leg whose last round committed nothing has no improving move left,
   though it skipped every client whose routes and neighbours' routes are older
   than its stamp. *)
THEOREM ExploreIsOptimal == Spec => []ExploreOptimal
<1>1. Init => Stamped /\ Quiet
  <2> SUFFICES ASSUME Init PROVE Stamped /\ Quiet OBVIOUS
  <2>1. \A q \in Now : ws[q] = 1 BY DEF Init, Now
  <2>2. \A c \in Client : stamp[c] = 0 BY DEF Init
  <2>3. at = 1 /\ \A c \in Client : ~(c < 1) BY SqueezeAssumption DEF Init, Client
  <2> QED BY <2>1, <2>2, <2>3 DEF Stamped, Quiet
<1>2. Base /\ Stamped /\ Quiet => ExploreOptimal
  <2> SUFFICES ASSUME Base, Stamped, Quiet, pc = "Explore", at = NumClients + 1, ~improved,
                      NEW c \in Client, NEW m \in Gains("Explore", Now, c)
               PROVE  FALSE
    BY DEF ExploreOptimal, LegOptimal
  <2>1. ~Due(c)
    <3>1. c < at BY SqueezeAssumption DEF Client
    <3> QED BY <3>1 DEF Quiet
  <2>2. /\ m.donor \in Now /\ m.host \in Now /\ m.donor # m.host
        /\ m \in Moves(c, m.donor, m.host) /\ Improves("Explore", m)
    <3>1. Now \in SUBSET Route BY DEF Base, TypeOK
    <3> QED BY <3>1, GainParts
  <2>3. m.donor \in Route /\ m.host \in Route BY <2>2 DEF Base, TypeOK
  <2>4. c \in Members(m.donor) /\ \E v \in Members(m.host) : v \in Neighbours(c)
    BY <2>2, <2>3, MoveParts
  <2>5. ~(ws[m.donor] > stamp[c]) /\ ~(ws[m.host] > stamp[c])
    BY <2>1, <2>2, <2>4 DEF Due
  <2>6. /\ ws[m.donor] \in 0 .. epoch /\ ws[m.host] \in 0 .. epoch
        /\ stamp[c] \in 0 .. epoch /\ epoch \in Nat
    BY <2>2 DEF Base, TypeOK
  <2>7. ws[m.donor] <= stamp[c] /\ ws[m.host] <= stamp[c] BY <2>5, <2>6
  <2> QED BY <2>2, <2>7 DEF Stamped
<1> QED BY <1>1, <1>2, BaseInit, BaseStep, StampedStep, PTL DEF Spec
=============================================================================

---------------------------- MODULE PricingProofs -----------------------------
(***************************************************************************)
(* The branch-cut-and-price for every set of columns, every pricing, every *)
(* cut pool and every pattern of limits: types, the state of the master,   *)
(* the lower bound and the certificate.  Then its pricing ladder, which    *)
(* implements the pricing step of the search: a pass without news has      *)
(* solved the linear program, met a limit, or left a mark.                 *)
(***************************************************************************)
EXTENDS Pricing, TLAPS

Arcs  == SUBSET (Vertex \X Vertex)
CgPcs == {"Solve", "Price", "Cut", "Settle"}

(* No column of w uses an arc of A. *)
Allowed(A, w) == \A c \in Support[w] : ArcsOf[c] \cap A = {}

(* Open nodes carry the fractional optimum of their relaxation. *)
Open == {n \in NodeShape : n.opt \in Point \ Partition /\ n.bound = Price[n.opt]}

LEMMA PriceTypes ==
  ASSUME NEW w \in Point
  PROVE  Price[w] \in Nat /\ w # NoPoint
<1>1. Price[w] \in Nat  BY PointAssumption
<1> QED BY <1>1, BcpAssumption

LEMMA PartitionPoint == Partition \subseteq Point
  BY PointAssumption

LEMMA ArcTypes ==
  ASSUME cfg \in Configs, NEW A \in Arcs, NEW e \in Customer \X Customer
  PROVE  Left(A, e) \in Arcs /\ Right(A, e) \in Arcs
<1>1. e \in Vertex \X Vertex  BY DEF Vertex
<1>2. cfg.graph \in Arcs  BY BcpAssumption DEF ConfigShape, Arcs
<1>3. Competing(cfg.graph, e) \in Arcs  BY <1>2 DEF Competing, Arcs
<1> QED BY <1>1, <1>3 DEF Left, Right, Arcs

LEMMA CfgTypes ==
  ASSUME cfg \in Configs
  PROVE  /\ cfg.limits \subseteq {"Time", "Memory"}
         /\ cfg.warm \in Partition \cup {NoPoint} /\ cfg.given \subseteq Column
         /\ cfg.cutLimit \in Nat /\ cfg.nodeLimit \in Nat
  BY BcpAssumption DEF ConfigShape

(* Forcing an arc keeps every partition that uses it, forbidding it every
   other one: branching loses nothing. *)
LEMMA BranchCovers ==
  ASSUME NEW w \in Partition, NEW A, NEW e \in Customer \X Customer, Allowed(A, w)
  PROVE  Allowed(Left(A, e), w) \/ Allowed(Right(A, e), w)
<1>w. w \in Point /\ Support[w] \in SUBSET Column  BY PartitionPoint, PointAssumption
<1>1. CASE \A c \in Support[w] : e \notin ArcsOf[c]
  BY <1>1 DEF Allowed, Left
<1>2. CASE \E c \in Support[w] : e \in ArcsOf[c]
  <2>1. PICK c \in Support[w] : e \in ArcsOf[c]  BY <1>2
  <2>2. SUFFICES ASSUME NEW d \in Support[w], NEW f \in ArcsOf[d] \cap Competing(cfg.graph, e) PROVE FALSE
    BY DEF Allowed, Right
  <2>3. c \in Column /\ d \in Column  BY <1>w
  <2>4. \/ f[1] = e[1] /\ f # e
        \/ f[2] = e[2] /\ f # e
    BY DEF Competing
  <2>5. e[1] \in Customer /\ e[2] \in Customer  OBVIOUS
  <2>6. {e[1], e[2]} \cap Customer \subseteq Visits[c]  BY <2>1, <2>3, ColumnAssumption
  <2>7. {f[1], f[2]} \cap Customer \subseteq Visits[d]  BY <2>3, ColumnAssumption
  <2>8. Visits[c] \cap Visits[d] # {}  BY <2>4, <2>5, <2>6, <2>7
  <2>9. c = d  BY <2>8, <2>1, PointAssumption
  <2> QED BY <2>1, <2>3, <2>4, <2>9, ColumnAssumption
<1> QED BY <1>1, <1>2

(* The complete master of a node holds every partition the node allows. *)
LEMMA FullHolds ==
  ASSUME NEW w \in Partition, NEW A, Allowed(A, w), cuts \subseteq Row
  PROVE  w \in Full(A)
<1>1. w \in Point /\ Support[w] \in SUBSET Column  BY PartitionPoint, PointAssumption
<1>2. Support[w] \subseteq Column \ Using(A, Column)  BY <1>1 DEF Allowed, Using
<1>3. \A k \in cuts : w \notin CutOff[k]  BY PointAssumption
<1> QED BY <1>1, <1>2, <1>3 DEF Full, Restricted

-----------------------------------------------------------------------------
(* The state of the formulation: what SetForbiddenArcs leaves behind, and what
   the column generation knows at each of its steps. *)
Spf == fixed = Using(forbidden, cols)

Ready ==
  /\ Spf
  /\ pc \in CgPcs => forbidden = cur.A
  /\ pc \in {"Price", "Cut"} \/ (pc = "Settle" /\ cgStatus = "Optimum") => lp \in Point
  /\ pc = "Branch" => branched \in Open
  /\ queue \subseteq Open

LEMMA SetForbiddenTypes ==
  ASSUME NEW A \in Arcs, Spf, cols' = cols, SetForbidden(A)
  PROVE  forbidden' = A /\ fixed' = Using(A, cols) /\ Spf'
  BY DEF SetForbidden, Spf, Using

LEMMA EnterTypes ==
  ASSUME NEW A \in Arcs, NEW r \in BOOLEAN, Spf, cols' = cols, cols \subseteq Column, Enter(A, r)
  PROVE  /\ forbidden' = A /\ Spf' /\ fixed' \subseteq cols' /\ forbidden' \subseteq Vertex \X Vertex
         /\ cur'.A = A /\ cur'.root = r /\ cur'.A \subseteq Vertex \X Vertex /\ cur'.root \in BOOLEAN
         /\ cgStatus' = "Optimum" /\ lp' = NoPoint /\ newCuts' = FALSE
<1>1. SetForbidden(A)  BY DEF Enter
<1>2. forbidden' = A /\ fixed' = Using(A, cols) /\ Spf'  BY <1>1, SetForbiddenTypes
<1>3. fixed' \subseteq cols'  BY <1>2 DEF Using
<1> QED BY <1>2, <1>3 DEF Enter, Arcs

LEMMA IncumbentTypes ==
  ASSUME NEW w \in Partition, TypeOK, NewIncumbent(w)
  PROVE  /\ zlb' \in Nat /\ zub' \in Nat /\ ub' \in Partition \cup {NoPoint}
         /\ incumbents' \in Seq(Partition)
<1>1. Price[w] \in Nat  BY PriceTypes, PartitionPoint
<1> QED BY <1>1 DEF NewIncumbent, TypeOK

Base == TypeOK /\ Ready

LEMMA BaseInit == Init => Base
<1> SUFFICES ASSUME Init PROVE Base  OBVIOUS
<1>1. cfg \in Configs /\ cfg.warm \in Partition \cup {NoPoint}  BY CfgTypes DEF Init
<1>2. cols \subseteq Column  BY CfgTypes, ColumnAssumption DEF Init
<1>3. zub \in Nat
  BY <1>1, PartitionPoint, PriceTypes, PointAssumption DEF Init
<1>4. branched \in NodeShape /\ cur.A = {} /\ cur.root \in BOOLEAN
  BY DEF Init, NoNode, Node, NodeShape
<1>s. children \in Seq(SUBSET (Vertex \X Vertex)) /\ incumbents \in Seq(Partition)
  BY DEF Init
<1>b. starved \in BOOLEAN /\ poisoned \in BOOLEAN /\ newCuts \in BOOLEAN  BY DEF Init
<1>5. TypeOK  BY <1>1, <1>2, <1>3, <1>4, <1>s, <1>b DEF Init, TypeOK
<1>6. Ready  BY DEF Init, Ready, Spf, Using, CgPcs
<1> QED BY <1>5, <1>6 DEF Base

LEMMA BaseStep == Base /\ [Next]_vars => Base'
<1> SUFFICES ASSUME Base, [Next]_vars PROVE Base'  OBVIOUS
<1>t. TypeOK /\ Ready /\ Spf  BY DEF Base, Ready
<1>c. cfg.limits \subseteq {"Time", "Memory"} /\ cfg.cutLimit \in Nat /\ cfg.nodeLimit \in Nat
  BY <1>t, CfgTypes DEF TypeOK
<1> USE DEF Goto, spf, cg, bounds, flags, CgPcs
<1>0. CASE UNCHANGED vars
  BY <1>0, <1>t DEF vars, Base, TypeOK, Ready, Spf
<1>1. CASE Tick
  <2>1. hit' \subseteq {"Time", "Memory"}  BY <1>1, <1>t, <1>c DEF Tick, TypeOK
  <2> QED BY <1>1, <1>t, <2>1 DEF Tick, Base, TypeOK, Ready, Spf
<1>2. CASE Root
  <2>1. {} \in Arcs /\ TRUE \in BOOLEAN  BY DEF Arcs
  <2>2. cols \subseteq Column /\ cols' = cols /\ Enter({}, TRUE)  BY <1>2, <1>t DEF Root, TypeOK
  <2>3. /\ forbidden' = {} /\ Spf' /\ fixed' \subseteq cols' /\ forbidden' \subseteq Vertex \X Vertex
        /\ cur'.A = {} /\ cur'.A \subseteq Vertex \X Vertex /\ cur'.root \in BOOLEAN
        /\ cgStatus' = "Optimum" /\ lp' = NoPoint /\ newCuts' = FALSE
    BY <2>1, <2>2, <1>t, EnterTypes
  <2> QED BY <1>2, <1>t, <2>3 DEF Root, Base, TypeOK, Ready
<1>3. CASE SolveAborted
  BY <1>3, <1>t DEF SolveAborted, Base, TypeOK, Ready, Spf
<1>4. CASE Solve
  <2>1. lp' \in Point \cup {NoPoint} /\ (pc' = "Price" => lp' \in Point)
    BY <1>4, <1>t DEF Solve, TypeOK, Rmp, Restricted, Optima
  <2> QED BY <1>4, <1>t, <2>1 DEF Solve, Base, TypeOK, Ready, Spf
<1>5. CASE PriceOut
  <2>1. PICK N \in SUBSET Fresh(cols) : AddColumns(N)  BY <1>5 DEF PriceOut
  <2>2. N \subseteq Column /\ Using(forbidden, N) = {}  BY <2>1 DEF Fresh, Using
  <2>3. cols' = cols \cup N /\ cols' \subseteq Column  BY <2>1, <2>2, <1>t DEF AddColumns, TypeOK
  <2>4. Using(forbidden, cols \cup N) = Using(forbidden, cols)  BY <2>2 DEF Using
  <2>5. forbidden' = forbidden /\ fixed' = fixed  BY <1>5 DEF PriceOut
  <2>6. Spf' /\ fixed' \subseteq cols'  BY <2>3, <2>4, <2>5, <1>t DEF Spf, TypeOK
  <2>7. cgStatus' \in {"Optimum", "Infeasible", "Time", "Memory"}
    BY <2>1, <1>t DEF AddColumns, AbortStatus, TypeOK
  <2>8. pc = "Price" /\ pc' \in {"Solve", "Cut", "Settle"} /\ poisoned' \in BOOLEAN
    BY <1>5, <1>t DEF PriceOut, TypeOK
  <2> QED BY <1>5, <1>t, <2>3, <2>5, <2>6, <2>7, <2>8 DEF PriceOut, Base, TypeOK, Ready
<1>6. CASE Cut
  <2>1. cuts' \subseteq Row  BY <1>6, <1>t DEF Cut, Separable, TypeOK
  <2> QED BY <1>6, <1>t, <2>1 DEF Cut, Base, TypeOK, Ready, Spf
<1>7. CASE CutEnd
  BY <1>7, <1>t DEF CutEnd, Base, TypeOK, Ready, Spf
<1>8. CASE Settle
  <2>1. pc = "Settle" /\ pc' \in {"Children", "Finish", "Freeze"}  BY <1>8 DEF Settle
  <2>2. /\ zlb' \in Nat /\ zub' \in Nat /\ ub' \in Partition \cup {NoPoint}
        /\ incumbents' \in Seq(Partition)
    BY <1>8, <1>t, IncumbentTypes DEF Settle, TypeOK, IsInteger
  <2>3. closed' \in Nat /\ starved' \in BOOLEAN
        /\ status' \in {"DidNotStart", "Time", "Memory", "Node", "Optimum"}
    <3>1. closed' = closed + 1 \/ closed' = closed  BY <1>8 DEF Settle, Close
    <3>2. starved' = starved \/ starved' = (starved \/ Short(cur.A))  BY <1>8 DEF Settle
    <3>b. starved \in BOOLEAN  BY <1>t DEF TypeOK
    <3>3. starved' \in BOOLEAN  BY <3>2, <3>b, Zenon
    <3>4. status' = status \/ (status' = cgStatus /\ cgStatus \in {"Time", "Memory"})
      BY <1>8 DEF Settle
    <3> QED BY <3>1, <3>3, <3>4, <1>t DEF TypeOK
  <2>4. queue' \subseteq NodeShape /\ queue' \subseteq Open
    <3>1. CASE cgStatus = "Optimum" /\ ~IsInteger(lp) /\ queue' = queue \cup {Node(cur.A, Price[lp], lp)}
      <4>1. lp \in Point \ Partition /\ Price[lp] \in Nat
        BY <3>1, <2>1, <1>t, PriceTypes DEF Ready, IsInteger
      <4>2. Node(cur.A, Price[lp], lp) \in Open
        BY <4>1, <1>t DEF Node, Open, NodeShape, TypeOK
      <4> QED BY <3>1, <4>2, <1>t DEF Ready, Open
    <3>2. CASE queue' = queue  BY <3>2, <1>t DEF TypeOK, Ready
    <3> QED BY <1>8, <3>1, <3>2 DEF Settle
  <2> QED BY <1>8, <1>t, <2>1, <2>2, <2>3, <2>4 DEF Settle, Base, TypeOK, Ready, Spf
<1>9. CASE Freeze
  <2>1. /\ zlb' \in Nat /\ zub' \in Nat /\ ub' \in Partition \cup {NoPoint}
        /\ incumbents' \in Seq(Partition)
    BY <1>9, <1>t, IncumbentTypes DEF Freeze, Optima, TypeOK
  <2> QED BY <1>9, <1>t, <2>1 DEF Freeze, Base, TypeOK, Ready, Spf
<1>10. CASE Stop
  <2>1. status' \in {"DidNotStart", "Time", "Memory", "Node", "Optimum"}
    BY <1>10, <1>t DEF Stop, TypeOK
  <2> QED BY <1>10, <1>t, <2>1 DEF Stop, Base, TypeOK, Ready, Spf
<1>11. CASE Take
  <2>1. PICK n \in queue :
          /\ queue' = queue \ {n}
          /\ IF zub > n.bound
             THEN zlb' = n.bound /\ branched' = n /\ pc' = "Branch"
             ELSE UNCHANGED <<zlb, branched, pc>>
    BY <1>11 DEF Take, Pop
  <2>2. n \in Open /\ n \in NodeShape /\ n.bound \in Nat  BY <1>t DEF Ready, Open, NodeShape
  <2>3. zlb' \in Nat /\ branched' \in NodeShape /\ pc' \in {"Head", "Branch"}
        /\ (pc' = "Branch" => branched' \in Open)
    BY <1>11, <2>1, <2>2, <1>t DEF Take, TypeOK
  <2>4. queue' \subseteq NodeShape /\ queue' \subseteq Open  BY <2>1, <1>t DEF TypeOK, Ready
  <2>5. closed' \in Nat  BY <1>11, <1>t DEF Take, Close, TypeOK
  <2> QED BY <1>11, <1>t, <2>3, <2>4, <2>5 DEF Take, Base, TypeOK, Ready, Spf
<1>12. CASE Branch
  <2>a. branched.A \in Arcs  BY <1>12, <1>t DEF Branch, TypeOK, NodeShape, Arcs
  <2>n. NoNode \in NodeShape  BY DEF NoNode, Node, NodeShape
  <2>s. forbidden' \subseteq Vertex \X Vertex /\ fixed' \subseteq cols' /\ Spf'
    <3>1. CASE UNCHANGED <<forbidden, fixed>>
      BY <3>1, <1>12, <1>t DEF Branch, TypeOK, Spf
    <3>2. CASE \E F \in Tried(branched.opt) : \E last \in F : SetForbidden(Right(branched.A, last))
      <4>1. PICK last \in Customer \X Customer : SetForbidden(Right(branched.A, last))
        BY <3>2 DEF Tried, Fractional
      <4>2. Right(branched.A, last) \in Arcs  BY <2>a, <1>t, ArcTypes DEF TypeOK
      <4> QED BY <1>12, <1>t, <4>1, <4>2, SetForbiddenTypes DEF Branch, Arcs, Using
    <3> QED BY <1>12, <3>1, <3>2 DEF Branch
  <2>k. children' \in Seq(Arcs) /\ starved' \in BOOLEAN
    <3>1. CASE children' = <<>> /\ starved' = TRUE  BY <3>1
    <3>2. CASE \E F \in Tried(branched.opt) : \E p \in Best(Probes(branched.A, F)) :
                 /\ children' = Kept(p.left, Left(branched.A, p.arc))
                                  \o Kept(p.right, Right(branched.A, p.arc))
                 /\ starved' = (starved \/ Lost(p.left, Left(branched.A, p.arc))
                                        \/ Lost(p.right, Right(branched.A, p.arc)))
      <4>f. PICK F \in Tried(branched.opt) : \E p \in Best(Probes(branched.A, F)) :
                 /\ children' = Kept(p.left, Left(branched.A, p.arc))
                                  \o Kept(p.right, Right(branched.A, p.arc))
                 /\ starved' \in BOOLEAN
        BY <3>2
      <4>1. PICK p \in Best(Probes(branched.A, F)) :
                 /\ children' = Kept(p.left, Left(branched.A, p.arc))
                                  \o Kept(p.right, Right(branched.A, p.arc))
                 /\ starved' \in BOOLEAN
        BY <4>f
      <4>2. p.arc \in Customer \X Customer  BY DEF Best, Probes, Tried, Fractional
      <4>3. Left(branched.A, p.arc) \in Arcs /\ Right(branched.A, p.arc) \in Arcs
        BY <4>2, <2>a, <1>t, ArcTypes DEF TypeOK
      <4>4. /\ Kept(p.left, Left(branched.A, p.arc)) \in Seq(Arcs)
            /\ Kept(p.right, Right(branched.A, p.arc)) \in Seq(Arcs)
        BY <4>3 DEF Kept
      <4> QED BY <4>1, <4>4
    <3> QED BY <1>12, <3>1, <3>2 DEF Branch
  <2>p. pc' = "Children" /\ branched' = NoNode  BY <1>12 DEF Branch
  <2> QED BY <1>12, <1>t, <2>n, <2>s, <2>k, <2>p DEF Branch, Base, TypeOK, Ready, Arcs
<1>13. CASE BranchAborted
  <2>a. branched.A \in Arcs  BY <1>13, <1>t DEF TypeOK, NodeShape, Arcs
  <2>n. NoNode \in NodeShape  BY DEF NoNode, Node, NodeShape
  <2>s. forbidden' \subseteq Vertex \X Vertex /\ fixed' \subseteq cols' /\ Spf'
    <3>1. CASE UNCHANGED <<forbidden, fixed>>
      BY <3>1, <1>13, <1>t DEF BranchAborted, TypeOK, Spf
    <3>2. CASE \E e \in Fractional(branched.opt) \cap cfg.graph :
                 \E B \in {Left(branched.A, e), Right(branched.A, e)} : SetForbidden(B)
      <4>1. PICK e \in Customer \X Customer :
              \E B \in {Left(branched.A, e), Right(branched.A, e)} : SetForbidden(B)
        BY <3>2 DEF Fractional
      <4>2. PICK B \in {Left(branched.A, e), Right(branched.A, e)} : SetForbidden(B)  BY <4>1
      <4>3. B \in Arcs  BY <2>a, <4>2, <1>t, ArcTypes DEF TypeOK
      <4> QED BY <1>13, <1>t, <4>2, <4>3, SetForbiddenTypes DEF BranchAborted, Arcs, Using
    <3> QED BY <1>13, <3>1, <3>2 DEF BranchAborted
  <2>p. pc' = "Children" /\ branched' = NoNode /\ children' = <<>> /\ status' = "Time"
    BY <1>13 DEF BranchAborted
  <2> QED BY <1>13, <1>t, <2>n, <2>s, <2>p DEF BranchAborted, Base, TypeOK, Ready
<1>14. CASE NextChild
  <2>1. children \in Seq(Arcs) /\ children # <<>>  BY <1>14, <1>t DEF NextChild, TypeOK, Arcs
  <2>2. Head(children) \in Arcs /\ Tail(children) \in Seq(Arcs) /\ FALSE \in BOOLEAN  BY <2>1
  <2>3. cols \subseteq Column /\ cols' = cols /\ Enter(Head(children), FALSE)
    BY <1>14, <1>t DEF NextChild, TypeOK
  <2>4. /\ forbidden' = Head(children) /\ Spf' /\ fixed' \subseteq cols'
        /\ forbidden' \subseteq Vertex \X Vertex
        /\ cur'.A = Head(children) /\ cur'.A \subseteq Vertex \X Vertex /\ cur'.root \in BOOLEAN
        /\ cgStatus' = "Optimum" /\ lp' = NoPoint /\ newCuts' = FALSE
    BY <2>2, <2>3, <1>t, EnterTypes
  <2>5. children' = Tail(children)  BY <1>14 DEF NextChild
  <2> QED BY <1>14, <1>t, <2>2, <2>4, <2>5 DEF NextChild, Base, TypeOK, Ready, Arcs
<1>15. CASE ChildrenDone
  BY <1>15, <1>t DEF ChildrenDone, Base, TypeOK, Ready, Spf
<1>16. CASE Finish
  <2>1. zlb' \in Nat
    <3>1. CASE zlb' = zub \/ zlb' = zlb  BY <3>1, <1>t DEF TypeOK
    <3>2. CASE \E n \in queue : zlb' = n.bound  BY <3>2, <1>t DEF Ready, Open, NodeShape
    <3> QED BY <1>16, <3>1, <3>2 DEF Finish, Pop
  <2>2. status' \in {"DidNotStart", "Time", "Memory", "Node", "Optimum"} /\ queue' = {}
    BY <1>16, <1>t DEF Finish, TypeOK
  <2> QED BY <1>16, <1>t, <2>1, <2>2 DEF Finish, Base, TypeOK, Ready, Spf
<1>17. CASE Rearm
  BY <1>17, <1>t DEF Rearm, Base, TypeOK, Ready, Spf
<1> QED
  BY <1>0, <1>1, <1>2, <1>3, <1>4, <1>5, <1>6, <1>7, <1>8, <1>9, <1>10, <1>11, <1>12, <1>13,
     <1>14, <1>15, <1>16, <1>17 DEF Next, Step

LEMMA BaseAlways == Spec => []Base
  BY BaseInit, BaseStep, PTL DEF Spec

(* Type correctness. *)
THEOREM Typing == Spec => []TypeOK
<1>1. Base => TypeOK  BY DEF Base
<1> QED BY <1>1, BaseAlways, PTL

(* Whatever the order of nodes, probes and priced columns, ProcessNode works on
   the master of its own node. *)
THEOREM NodeMaster == Spec => []MasterMatchesNode
<1>1. Base => MasterMatchesNode  BY DEF Base, Ready, Spf, MasterMatchesNode, CgPcs
<1> QED BY <1>1, BaseAlways, PTL

-----------------------------------------------------------------------------
(* Why the certificate holds: a partition cheaper than z_ub is always allowed
   by a node that is still open, in hand, or waiting to be processed. *)
Clean == ~starved /\ ~poisoned

Somewhere(w) ==
  \/ pc = "Root"
  \/ pc \in CgPcs /\ Allowed(cur.A, w)
  \/ pc = "Branch" /\ Allowed(branched.A, w)
  \/ \E n \in queue : Allowed(n.A, w)
  \/ \E i \in DOMAIN children : Allowed(children[i], w)

NothingLost ==
  pc # "Done" /\ Clean /\ ~Aborted
     => \A w \in Partition : zub <= Price[w] \/ Somewhere(w)

(* The bound of a node is below every partition the node allows; a relaxation
   cut short is not taken for a solved one. *)
SoundBounds ==
  ~poisoned =>
    /\ \A n \in queue : \A w \in Partition : Allowed(n.A, w) => n.bound <= Price[w]
    /\ pc \in {"Cut", "Settle"} /\ cgStatus = "Optimum"
         => \A w \in Partition : Allowed(cur.A, w) => Price[lp] <= Price[w]

(* Where the search may stop, and with what left to do. *)
Endings ==
  /\ pc \notin {"Finish", "Done"} => status \in {"DidNotStart", "Time", "Memory"}
  /\ pc \in CgPcs /\ cur.root => children = <<>>
  /\ pc \in {"Root", "Freeze", "Head", "Branch", "Finish"} => children = <<>>
  /\ pc = "Finish" => status # "Optimum" /\ (status = "DidNotStart" => queue = {})

Sound == SoundBounds /\ NothingLost /\ LowerBound /\ Endings /\ CertifiedOptimum

LEMMA SoundInit == Init => Sound
<1> SUFFICES ASSUME Init PROVE Sound  OBVIOUS
<1>1. \A w \in Partition : zlb <= Price[w]
  BY PriceTypes, PartitionPoint DEF Init
<1> QED BY <1>1 DEF Init, Sound, SoundBounds, NothingLost, Somewhere, LowerBound, Endings,
                    CertifiedOptimum, CgPcs

(* An incumbent only lowers z_ub. *)
LEMMA IncumbentLowers ==
  ASSUME NEW w \in Partition, TypeOK, Improves(w), NewIncumbent(w)
  PROVE  zub' < zub /\ zub' = Price[w] /\ zlb' = zlb /\ zub' \in Nat /\ zub \in Nat
<1>1. Price[w] \in Nat  BY PriceTypes, PartitionPoint
<1> QED BY <1>1 DEF NewIncumbent, TypeOK, Improves

(* Steps that lose no node keep what is said of z_lb and z_ub. *)
LEMMA Carried ==
  ASSUME Base, Base', Sound, zub' <= zub, pc # "Done", pc' # "Done",
         zlb' = zlb,
         status' = status \/ Aborted',
         starved => starved', poisoned => poisoned',
         \A w \in Partition : zub' <= Price[w] \/ Somewhere(w) => zub' <= Price[w] \/ Somewhere(w)'
  PROVE  NothingLost' /\ LowerBound'
<1>1. zub \in Nat /\ zub' \in Nat  BY DEF Base, TypeOK
<1>2. \A w \in Partition : Price[w] \in Nat  BY PriceTypes, PartitionPoint
<1>3. NothingLost'
  <2> SUFFICES ASSUME Clean', ~Aborted', NEW w \in Partition PROVE zub' <= Price[w] \/ Somewhere(w)'
    BY DEF NothingLost
  <2>1. Clean /\ ~Aborted  BY DEF Clean, Aborted
  <2>2. zub <= Price[w] \/ Somewhere(w)  BY <2>1 DEF Sound, NothingLost
  <2>3. zub' <= Price[w] \/ Somewhere(w)  BY <2>2, <1>1, <1>2
  <2> QED BY <2>3
<1>4. LowerBound'
  BY DEF Sound, LowerBound
<1> QED BY <1>3, <1>4

LEMMA SoundStep == Base /\ Base' /\ Sound /\ [Next]_vars => Sound'
<1> SUFFICES ASSUME Base, Base', Sound, [Next]_vars PROVE Sound'  OBVIOUS
<1>t. TypeOK /\ Ready /\ TypeOK' /\ Ready'  BY DEF Base
<1>p. \A w \in Partition : Price[w] \in Nat /\ w \in Point  BY PriceTypes, PartitionPoint
<1>s. SoundBounds /\ NothingLost /\ LowerBound /\ Endings /\ CertifiedOptimum  BY DEF Sound
<1>z. zub \in Nat /\ zlb \in Nat /\ zub <= zub  BY <1>t DEF TypeOK
<1>n. \A n \in queue : n.bound \in Nat /\ n.opt \in Point  BY <1>t DEF Ready, Open, NodeShape
<1> USE DEF Goto, spf, cg, bounds, flags, CgPcs
<1>0. CASE UNCHANGED vars
  BY <1>0, <1>s DEF vars, Sound, SoundBounds, NothingLost, Somewhere, LowerBound, Endings,
                    CertifiedOptimum, Clean, Aborted
<1>1. CASE Tick
  BY <1>1, <1>s DEF Tick, Sound, SoundBounds, NothingLost, Somewhere, LowerBound, Endings,
                    CertifiedOptimum, Clean, Aborted
<1>2. CASE Root
  <2>1. cur'.A = {} /\ cur'.root = TRUE /\ pc = "Root" /\ pc' = "Solve"  BY <1>2 DEF Root, Enter
  <2>2. \A w \in Partition : Somewhere(w)'  BY <2>1 DEF Somewhere, Allowed
  <2>3. SoundBounds'  BY <1>2, <1>s DEF Root, SoundBounds
  <2>4. NothingLost' /\ LowerBound'  BY <1>2, <1>s, <1>z, <2>1, <2>2, Carried DEF Root
  <2>5. Endings' /\ CertifiedOptimum'  BY <1>2, <1>s DEF Root, Endings, CertifiedOptimum
  <2> QED BY <2>3, <2>4, <2>5 DEF Sound
<1>3. CASE SolveAborted
  <2>1. SoundBounds'  BY <1>3, <1>s DEF SolveAborted, SoundBounds
  <2>2. \A w \in Partition : Somewhere(w) => Somewhere(w)'  BY <1>3 DEF SolveAborted, Somewhere
  <2>3. NothingLost' /\ LowerBound'  BY <1>3, <1>s, <1>z, <2>2, Carried DEF SolveAborted
  <2>4. Endings' /\ CertifiedOptimum'  BY <1>3, <1>s DEF SolveAborted, Endings, CertifiedOptimum
  <2> QED BY <2>1, <2>3, <2>4 DEF Sound
<1>4. CASE Solve
  <2>1. SoundBounds'  BY <1>4, <1>s DEF Solve, SoundBounds
  <2>2. \A w \in Partition : Somewhere(w) => Somewhere(w)'  BY <1>4 DEF Solve, Somewhere
  <2>3. NothingLost' /\ LowerBound'  BY <1>4, <1>s, <1>z, <2>2, Carried DEF Solve
  <2>4. Endings' /\ CertifiedOptimum'  BY <1>4, <1>s DEF Solve, Endings, CertifiedOptimum
  <2> QED BY <2>1, <2>3, <2>4 DEF Sound
<1>5. CASE PriceOut
  <2>p. pc = "Price" /\ pc' \in {"Solve", "Cut", "Settle"} /\ (~cur.root => pc' # "Cut")
        /\ (poisoned => poisoned')
    BY <1>5 DEF PriceOut
  <2>1. SoundBounds'
    <3> SUFFICES ASSUME ~poisoned', pc' \in {"Cut", "Settle"}, cgStatus' = "Optimum",
                        NEW w \in Partition, Allowed(cur.A, w)
                 PROVE  Price[lp] <= Price[w]
      BY <1>5, <1>s, <2>p DEF PriceOut, SoundBounds
    <3>1. hit = {}  BY <1>5 DEF PriceOut, AddColumns, AbortStatus
    <3>2. Priced  BY <1>5, <3>1 DEF PriceOut
    <3>3. forbidden = cur.A  BY <2>p, <1>t DEF Ready
    <3>4. w \in Full(cur.A)  BY <1>t, FullHolds DEF TypeOK
    <3> QED BY <3>2, <3>3, <3>4 DEF Priced
  <2>2. \A w \in Partition : Somewhere(w) => Somewhere(w)'  BY <1>5, <2>p DEF PriceOut, Somewhere
  <2>3. NothingLost' /\ LowerBound'  BY <1>5, <1>s, <1>z, <2>p, <2>2, Carried DEF PriceOut
  <2>4. Endings' /\ CertifiedOptimum'
    BY <1>5, <1>s, <2>p DEF PriceOut, Endings, CertifiedOptimum
  <2> QED BY <2>1, <2>3, <2>4 DEF Sound
<1>6. CASE Cut
  <2>1. SoundBounds'  BY <1>6, <1>s DEF Cut, SoundBounds
  <2>2. \A w \in Partition : Somewhere(w) => Somewhere(w)'  BY <1>6 DEF Cut, Somewhere
  <2>3. NothingLost' /\ LowerBound'  BY <1>6, <1>s, <1>z, <2>2, Carried DEF Cut
  <2>4. Endings' /\ CertifiedOptimum'  BY <1>6, <1>s DEF Cut, Endings, CertifiedOptimum
  <2> QED BY <2>1, <2>3, <2>4 DEF Sound
<1>7. CASE CutEnd
  <2>1. SoundBounds'  BY <1>7, <1>s DEF CutEnd, SoundBounds
  <2>2. \A w \in Partition : Somewhere(w) => Somewhere(w)'  BY <1>7 DEF CutEnd, Somewhere
  <2>3. NothingLost' /\ LowerBound'  BY <1>7, <1>s, <1>z, <2>2, Carried DEF CutEnd
  <2>4. Endings' /\ CertifiedOptimum'  BY <1>7, <1>s DEF CutEnd, Endings, CertifiedOptimum
  <2> QED BY <2>1, <2>3, <2>4 DEF Sound
<1>8. CASE Settle
  <2>p. pc = "Settle" /\ pc' \in {"Children", "Finish", "Freeze"} /\ children' = children
        /\ cur' = cur /\ poisoned' = poisoned /\ zlb' = zlb
        /\ (cur.root => pc' = IF queue' = {} THEN "Finish" ELSE "Freeze")
        /\ (~cur.root => pc' = "Children")
    BY <1>8 DEF Settle, NewIncumbent
  <2>q. queue \subseteq queue' /\ (starved => starved') /\ (status' = status \/ Aborted')
    <3>1. queue \subseteq queue'  BY <1>8 DEF Settle
    <3>2. starved' = starved \/ starved' = (starved \/ Short(cur.A))  BY <1>8 DEF Settle
    <3>3. starved => starved'  BY <3>2, Zenon
    <3>4. status' = status \/ (status' = cgStatus /\ cgStatus \in {"Time", "Memory"})
      BY <1>8 DEF Settle
    <3> QED BY <3>1, <3>3, <3>4 DEF Aborted
  <2>z. zub' \in Nat /\ zub' <= zub
    BY <1>8, <1>t, <1>z, IncumbentLowers DEF Settle, IsInteger, TypeOK
  \* a partition only the settled node allowed is priced out, or was none
  <2>f. ASSUME NEW w \in Partition, Allowed(cur.A, w), Clean', ~Aborted'
        PROVE  zub' <= Price[w] \/ \E n \in queue' : Allowed(n.A, w)
    <3>1. ~poisoned  BY <2>f, <2>p DEF Clean
    <3>2. cgStatus = "Optimum" => lp \in Point /\ Price[lp] <= Price[w] /\ Price[lp] \in Nat
      BY <3>1, <2>p, <2>f, <1>s, <1>t, PriceTypes DEF SoundBounds, Ready
    <3>3. CASE cgStatus = "Infeasible"
      <4>1. ~Short(cur.A)  BY <1>8, <3>3, <2>f DEF Settle, Clean
      <4>2. w \in Full(cur.A)  BY <2>f, <1>t, FullHolds DEF TypeOK
      <4> QED BY <4>1, <4>2 DEF Short
    <3>4. CASE cgStatus = "Optimum" /\ IsInteger(lp)
      <4>1. zub' <= Price[lp]
        BY <1>8, <3>4, <3>2, <1>t, <1>z, IncumbentLowers DEF Settle, IsInteger, Improves
      <4> QED BY <4>1, <3>2, <3>4, <2>z, <1>p
    <3>5. CASE cgStatus = "Optimum" /\ ~IsInteger(lp) /\ Price[lp] > zub
      BY <3>5, <3>2, <2>z, <1>z, <1>p
    <3>6. CASE cgStatus = "Optimum" /\ ~IsInteger(lp) /\ Price[lp] <= zub
      <4>1. Node(cur.A, Price[lp], lp) \in queue'
        BY <1>8, <3>6, <3>2, <1>z DEF Settle
      <4> QED BY <4>1, <2>f DEF Node
    <3>7. CASE cgStatus \in {"Time", "Memory"}
      BY <1>8, <3>7, <2>f DEF Settle, Aborted
    <3> QED BY <1>t, <3>2, <3>3, <3>4, <3>5, <3>6, <3>7, <1>z DEF TypeOK
  <2>1. NothingLost'
    <3> SUFFICES ASSUME Clean', ~Aborted', NEW w \in Partition PROVE zub' <= Price[w] \/ Somewhere(w)'
      BY DEF NothingLost
    <3>1. Clean /\ ~Aborted  BY <2>p, <2>q DEF Clean, Aborted
    <3>2. zub <= Price[w] \/ Somewhere(w)  BY <3>1, <2>p, <1>s DEF NothingLost
    <3>3. CASE zub <= Price[w]  BY <3>3, <2>z, <1>z, <1>p
    <3>4. CASE Allowed(cur.A, w)
      <4>1. zub' <= Price[w] \/ \E n \in queue' : Allowed(n.A, w)  BY <3>4, <2>f
      <4> QED BY <4>1 DEF Somewhere
    <3>5. CASE \E n \in queue : Allowed(n.A, w)  BY <3>5, <2>q DEF Somewhere
    <3>6. CASE \E i \in DOMAIN children : Allowed(children[i], w)
      BY <3>6, <2>p DEF Somewhere
    <3> QED BY <3>2, <3>3, <3>4, <3>5, <3>6, <2>p DEF Somewhere
  <2>2. LowerBound'  BY <2>p, <2>q, <1>s DEF LowerBound
  <2>3. SoundBounds'
    <3> SUFFICES ASSUME ~poisoned', NEW n \in queue', NEW w \in Partition, Allowed(n.A, w)
                 PROVE  n.bound <= Price[w]
      BY <2>p DEF SoundBounds
    <3>1. CASE n \in queue  BY <3>1, <2>p, <1>s DEF SoundBounds
    <3>2. CASE n \notin queue
      <4>1. cgStatus = "Optimum" /\ n = Node(cur.A, Price[lp], lp)  BY <1>8, <3>2 DEF Settle
      <4> QED BY <4>1, <2>p, <1>s DEF SoundBounds, Node
    <3> QED BY <3>1, <3>2
  <2>4. Endings' /\ CertifiedOptimum'
    <3>1. status \in {"DidNotStart", "Time", "Memory"} /\ (cur.root => children = <<>>)
      BY <2>p, <1>s DEF Endings
    <3>2. status' \in {"DidNotStart", "Time", "Memory"}  BY <1>8, <3>1 DEF Settle
    <3> QED BY <2>p, <3>1, <3>2, <1>t DEF Endings, CertifiedOptimum, TypeOK
  <2> QED BY <2>1, <2>2, <2>3, <2>4 DEF Sound
<1>9. CASE Freeze
  <2>1. zub' <= zub /\ zlb' = zlb
    BY <1>9, <1>t, <1>z, IncumbentLowers DEF Freeze, Optima
  <2>2. SoundBounds'  BY <1>9, <1>s DEF Freeze, SoundBounds
  <2>3. \A w \in Partition : Somewhere(w) => Somewhere(w)'  BY <1>9 DEF Freeze, Somewhere
  <2>4. NothingLost' /\ LowerBound'  BY <1>9, <2>1, <2>3, Carried DEF Freeze
  <2>5. Endings' /\ CertifiedOptimum'  BY <1>9, <1>s DEF Freeze, Endings, CertifiedOptimum
  <2> QED BY <2>2, <2>4, <2>5 DEF Sound
<1>10. CASE Stop
  <2>1. SoundBounds'  BY <1>10, <1>s DEF Stop, SoundBounds
  <2>2. \A w \in Partition : Somewhere(w) => Somewhere(w)'  BY <1>10 DEF Stop, Somewhere
  <2>3. status \in {"DidNotStart", "Time", "Memory"} /\ children = <<>>
    BY <1>10, <1>s DEF Stop, Endings
  <2>4. status' \in {"DidNotStart", "Time", "Memory", "Node"} /\ (status' = "DidNotStart" => queue = {})
    BY <1>10, <2>3 DEF Stop, Aborted
  <2>5. NothingLost' /\ LowerBound'
    <3>1. NothingLost'
      <4> SUFFICES ASSUME Clean', ~Aborted', NEW w \in Partition PROVE zub' <= Price[w] \/ Somewhere(w)'
        BY DEF NothingLost
      <4>1. pc = "Head" /\ zub' = zub /\ starved' = starved /\ poisoned' = poisoned  BY <1>10 DEF Stop
      <4>2. Clean  BY <4>1 DEF Clean
      <4>3. ~Aborted
        <5>1. Aborted => status' = status  BY <1>10 DEF Stop
        <5> QED BY <5>1 DEF Aborted
      <4>4. zub <= Price[w] \/ Somewhere(w)  BY <4>1, <4>2, <4>3, <1>s DEF NothingLost
      <4> QED BY <4>1, <4>4, <2>2
    <3>2. LowerBound'  BY <1>10, <1>s DEF Stop, LowerBound
    <3> QED BY <3>1, <3>2
  <2>6. Endings' /\ CertifiedOptimum'
    BY <1>10, <2>3, <2>4 DEF Stop, Endings, CertifiedOptimum
  <2> QED BY <2>1, <2>5, <2>6 DEF Sound
<1>11. CASE Take
  <2>1. PICK n \in queue :
          /\ \A m \in queue : n.bound <= m.bound
          /\ queue' = queue \ {n}
          /\ IF zub > n.bound
             THEN zlb' = n.bound /\ branched' = n /\ pc' = "Branch"
             ELSE UNCHANGED <<zlb, branched, pc>>
    BY <1>11 DEF Take, Pop
  <2>u. pc = "Head" /\ ~Aborted /\ UNCHANGED <<cur, children, status, starved, poisoned, zub, cgStatus, lp>>
    BY <1>11 DEF Take
  <2>c. children = <<>> /\ status \in {"DidNotStart", "Time", "Memory"}  BY <2>u, <1>s DEF Endings
  \* every partition costs at least the least bound
  <2>b. ASSUME Clean, NEW w \in Partition, zub > n.bound PROVE n.bound <= Price[w]
    <3>1. zub <= Price[w] \/ \E m \in queue : Allowed(m.A, w)
      BY <2>b, <2>u, <2>c, <1>s DEF NothingLost, Somewhere
    <3>2. CASE zub <= Price[w]  BY <3>2, <2>b, <1>z, <1>p, <1>n
    <3>3. CASE \E m \in queue : Allowed(m.A, w)
      <4>1. PICK m \in queue : Allowed(m.A, w)  BY <3>3
      <4>2. m.bound <= Price[w]  BY <4>1, <2>b, <1>s DEF SoundBounds, Clean
      <4> QED BY <4>2, <2>1, <1>n, <1>p
    <3> QED BY <3>1, <3>2, <3>3
  <2>2. SoundBounds'  BY <2>1, <2>u, <1>s DEF SoundBounds
  <2>3. NothingLost'
    <3> SUFFICES ASSUME Clean', ~Aborted', NEW w \in Partition PROVE zub' <= Price[w] \/ Somewhere(w)'
      BY DEF NothingLost
    <3>1. Clean /\ ~poisoned  BY <2>u DEF Clean
    <3>2. zub <= Price[w] \/ \E m \in queue : Allowed(m.A, w)
      BY <3>1, <2>u, <2>c, <1>s DEF NothingLost, Somewhere
    <3>3. CASE zub <= Price[w]  BY <3>3, <2>u
    <3>4. CASE \E m \in queue \ {n} : Allowed(m.A, w)  BY <3>4, <2>1 DEF Somewhere
    <3>5. CASE Allowed(n.A, w)
      <4>1. n.bound <= Price[w]  BY <3>5, <3>1, <1>s DEF SoundBounds
      <4>2. CASE zub > n.bound  BY <4>2, <2>1, <3>5 DEF Somewhere
      <4>3. CASE ~(zub > n.bound)  BY <4>1, <4>3, <2>u, <1>z, <1>p, <1>n
      <4> QED BY <4>2, <4>3
    <3> QED BY <3>2, <3>3, <3>4, <3>5
  <2>4. LowerBound'
    <3> SUFFICES ASSUME Clean', NEW w \in Partition PROVE zlb' <= Price[w]
      BY DEF LowerBound, Clean
    <3>1. Clean  BY <2>u DEF Clean
    <3>2. CASE zub > n.bound  BY <3>1, <3>2, <2>1, <2>b
    <3>3. CASE ~(zub > n.bound)  BY <3>1, <3>3, <2>1, <2>u, <1>s DEF LowerBound, Clean
    <3> QED BY <3>2, <3>3
  <2>5. Endings' /\ CertifiedOptimum'
    BY <2>1, <2>u, <2>c DEF Endings, CertifiedOptimum
  <2> QED BY <2>2, <2>3, <2>4, <2>5 DEF Sound
<1>12. CASE Branch
  <2>u. /\ pc = "Branch" /\ pc' = "Children"
        /\ UNCHANGED <<cur, queue, status, poisoned, zub, zlb, cgStatus, lp>>
    BY <1>12 DEF Branch
  <2>o. branched \in Open  BY <2>u, <1>t DEF Ready
  <2>3. starved => starved'  BY <1>12 DEF Branch
  \* unless the node is starved one arc is branched on, and a child that is not short
  \* of columns is kept whenever it allows a partition
  <2>k. ASSUME ~starved'
        PROVE  \E e \in Customer \X Customer : \A w \in Partition :
                 Allowed(Left(branched.A, e), w) \/ Allowed(Right(branched.A, e), w)
                   => \E i \in DOMAIN children' : Allowed(children'[i], w)
    <3>1. PICK F \in Tried(branched.opt) : \E p \in Best(Probes(branched.A, F)) :
            /\ children' = Kept(p.left, Left(branched.A, p.arc))
                             \o Kept(p.right, Right(branched.A, p.arc))
            /\ starved' = (starved \/ Lost(p.left, Left(branched.A, p.arc))
                                   \/ Lost(p.right, Right(branched.A, p.arc)))
      BY <1>12, <2>k DEF Branch
    <3>2. PICK p \in Best(Probes(branched.A, F)) :
            /\ children' = Kept(p.left, Left(branched.A, p.arc))
                             \o Kept(p.right, Right(branched.A, p.arc))
            /\ ~Lost(p.left, Left(branched.A, p.arc)) /\ ~Lost(p.right, Right(branched.A, p.arc))
      BY <3>1, <2>k
    <3>a. p.arc \in Customer \X Customer  BY DEF Best, Probes, Tried, Fractional
    <3>3. SUFFICES ASSUME NEW w \in Partition,
                          Allowed(Left(branched.A, p.arc), w) \/ Allowed(Right(branched.A, p.arc), w)
                   PROVE  \E i \in DOMAIN children' : Allowed(children'[i], w)
      BY <3>a
    <3> QED
      <4> DEFINE l == Left(branched.A, p.arc)
                 r == Right(branched.A, p.arc)
      <4>1. ~Lost(p.left, l) /\ ~Lost(p.right, r)  BY <3>2, <3>3
      <4>2. CASE Allowed(l, w)
        <5>1. w \in Full(l)  BY <4>2, <1>t, FullHolds DEF TypeOK
        <5>2. Kept(p.left, l) = <<l>>  BY <4>1, <5>1 DEF Lost, Short, Kept
        <5>3. children' = <<l>> \o Kept(p.right, r)  BY <3>2, <5>2
        <5>4. Kept(p.right, r) = <<>> \/ Kept(p.right, r) = <<r>>  BY DEF Kept
        <5>5. 1 \in DOMAIN children' /\ children'[1] = l  BY <5>3, <5>4
        <5> QED BY <4>2, <5>5
      <4>3. CASE Allowed(r, w)
        <5>1. w \in Full(r)  BY <4>3, <1>t, FullHolds DEF TypeOK
        <5>2. Kept(p.right, r) = <<r>>  BY <4>1, <5>1 DEF Lost, Short, Kept
        <5>3. children' = Kept(p.left, l) \o <<r>>  BY <3>2, <5>2
        <5>4. Kept(p.left, l) = <<>> \/ Kept(p.left, l) = <<l>>  BY DEF Kept
        <5>5. \E i \in DOMAIN children' : children'[i] = r
          <6>1. CASE Kept(p.left, l) = <<>>
            <7>1. 1 \in DOMAIN children' /\ children'[1] = r  BY <5>3, <6>1
            <7> QED BY <7>1
          <6>2. CASE Kept(p.left, l) = <<l>>
            <7>1. 2 \in DOMAIN children' /\ children'[2] = r  BY <5>3, <6>2
            <7> QED BY <7>1
          <6> QED BY <5>4, <6>1, <6>2
        <5> QED BY <4>3, <5>5
      <4> QED BY <3>3, <4>2, <4>3
  <2>4. NothingLost'
    <3> SUFFICES ASSUME Clean', ~Aborted', NEW w \in Partition PROVE zub' <= Price[w] \/ Somewhere(w)'
      BY DEF NothingLost
    <3>1. Clean /\ ~Aborted  BY <2>u, <2>3 DEF Clean, Aborted
    <3>2. children = <<>>  BY <2>u, <1>s DEF Endings
    <3>3. \/ zub <= Price[w] \/ \E n \in queue : Allowed(n.A, w)
          \/ Allowed(branched.A, w)
      BY <3>1, <3>2, <2>u, <1>s DEF NothingLost, Somewhere
    <3>4. CASE zub <= Price[w] \/ \E n \in queue : Allowed(n.A, w)
      BY <3>4, <2>u DEF Somewhere
    <3>5. CASE Allowed(branched.A, w)
      <4>0. PICK e \in Customer \X Customer :
              Allowed(Left(branched.A, e), w) \/ Allowed(Right(branched.A, e), w)
                => \E i \in DOMAIN children' : Allowed(children'[i], w)
        BY <2>k DEF Clean
      <4>1. Allowed(Left(branched.A, e), w) \/ Allowed(Right(branched.A, e), w)
        BY <3>5, BranchCovers
      <4>2. \E i \in DOMAIN children' : Allowed(children'[i], w)  BY <4>0, <4>1
      <4> QED BY <4>2 DEF Somewhere
    <3> QED BY <3>3, <3>4, <3>5
  <2>5. LowerBound'  BY <2>u, <2>3, <1>s DEF LowerBound
  <2>6. SoundBounds'  BY <2>u, <1>s DEF SoundBounds
  <2>7. Endings' /\ CertifiedOptimum'  BY <2>u, <1>s DEF Endings, CertifiedOptimum
  <2> QED BY <2>4, <2>5, <2>6, <2>7 DEF Sound
<1>13. CASE BranchAborted
  <2>1. SoundBounds'  BY <1>13, <1>s DEF BranchAborted, SoundBounds
  <2>2. NothingLost'  BY <1>13 DEF BranchAborted, NothingLost, Aborted
  <2>3. LowerBound'  BY <1>13, <1>s DEF BranchAborted, LowerBound
  <2>4. Endings' /\ CertifiedOptimum'  BY <1>13, <1>s DEF BranchAborted, Endings, CertifiedOptimum
  <2> QED BY <2>1, <2>2, <2>3, <2>4 DEF Sound
<1>14. CASE NextChild
  <2>u. /\ pc = "Children" /\ pc' = "Solve" /\ children # <<>>
        /\ UNCHANGED <<queue, status, starved, poisoned, zub, zlb>>
        /\ children' = Tail(children)
        /\ cur'.A = Head(children) /\ cur'.root = FALSE
    BY <1>14 DEF NextChild, Enter
  <2>1. SoundBounds'  BY <2>u, <1>s DEF SoundBounds
  <2>2. \A w \in Partition : Somewhere(w) => Somewhere(w)'
    <3> SUFFICES ASSUME NEW w \in Partition, Somewhere(w) PROVE Somewhere(w)'  OBVIOUS
    <3>1. children \in Seq(SUBSET (Vertex \X Vertex))  BY <1>t DEF TypeOK
    <3>2. CASE \E i \in DOMAIN children : Allowed(children[i], w)
      <4>1. PICK i \in DOMAIN children : Allowed(children[i], w)  BY <3>2
      <4>2. CASE i = 1  BY <4>1, <4>2, <3>1, <2>u DEF Somewhere
      <4>3. CASE i # 1
        <5>1. i - 1 \in DOMAIN children' /\ children'[i - 1] = children[i]
          BY <4>1, <4>3, <3>1, <2>u
        <5> QED BY <4>1, <5>1 DEF Somewhere
      <4> QED BY <4>2, <4>3
    <3>3. CASE \E n \in queue : Allowed(n.A, w)  BY <3>3, <2>u DEF Somewhere
    <3> QED BY <3>2, <3>3, <2>u DEF Somewhere
  <2>3. NothingLost' /\ LowerBound'  BY <2>u, <2>2, <1>z, Carried
  <2>4. Endings' /\ CertifiedOptimum'  BY <2>u, <1>s DEF Endings, CertifiedOptimum
  <2> QED BY <2>1, <2>3, <2>4 DEF Sound
<1>15. CASE ChildrenDone
  <2>1. SoundBounds'  BY <1>15, <1>s DEF ChildrenDone, SoundBounds
  <2>2. NothingLost'
    BY <1>15, <1>s DEF ChildrenDone, NothingLost, Somewhere, Clean, Aborted
  <2>3. LowerBound'  BY <1>15, <1>s DEF ChildrenDone, LowerBound
  <2>4. Endings' /\ CertifiedOptimum'  BY <1>15, <1>s DEF ChildrenDone, Endings, CertifiedOptimum
  <2> QED BY <2>1, <2>2, <2>3, <2>4 DEF Sound
<1>16. CASE Finish
  <2>u. pc = "Finish" /\ pc' = "Done" /\ queue' = {} /\ UNCHANGED <<zub, starved, poisoned>>
    BY <1>16 DEF Finish
  <2>1. CertifiedOptimum'
    <3> SUFFICES ASSUME status' = "Optimum", Clean, NEW w \in Partition PROVE zub' <= Price[w]
      BY <2>u DEF CertifiedOptimum, Clean
    <3>1. status = "DidNotStart"  BY <1>16, <2>u, <1>s DEF Finish, Endings
    <3>2. queue = {} /\ children = <<>> /\ ~Aborted  BY <3>1, <2>u, <1>s DEF Endings, Aborted
    <3>3. zub <= Price[w] \/ Somewhere(w)  BY <3>2, <2>u, <1>s DEF NothingLost
    <3>4. ~Somewhere(w)  BY <3>2, <2>u DEF Somewhere
    <3> QED BY <3>3, <3>4, <2>u
  <2>2. SoundBounds' /\ NothingLost' /\ LowerBound' /\ Endings'
    BY <2>u DEF SoundBounds, NothingLost, LowerBound, Endings
  <2> QED BY <2>1, <2>2 DEF Sound
<1>17. CASE Rearm
  BY <1>17, <1>s DEF Rearm, Sound, SoundBounds, NothingLost, Somewhere, LowerBound, Endings,
                     CertifiedOptimum, Clean, Aborted
<1> QED
  BY <1>0, <1>1, <1>2, <1>3, <1>4, <1>5, <1>6, <1>7, <1>8, <1>9, <1>10, <1>11, <1>12, <1>13,
     <1>14, <1>15, <1>16, <1>17 DEF Next, Step

LEMMA SoundAlways == Spec => []Sound
  BY BaseAlways, SoundInit, SoundStep, PTL DEF Spec

(* z_lb never exceeds the price of a partition while the search runs. *)
THEOREM BoundIsLower == Spec => []LowerBound
<1>1. Sound => LowerBound  BY DEF Sound
<1> QED BY <1>1, SoundAlways, PTL

(* "Optimum" is optimal unless a node starved or a priced route was dropped. *)
THEOREM OptimumCertified == Spec => []CertifiedOptimum
<1>1. Sound => CertifiedOptimum  BY DEF Sound
<1> QED BY <1>1, SoundAlways, PTL
-----------------------------------------------------------------------------
(* The best solution and the incumbent stream move together. *)
Linked ==
  /\ incumbents = <<>> <=> ub = NoPoint
  /\ incumbents # <<>> => ub = incumbents[Len(incumbents)] /\ zub = Price[ub]

Fixed == incumbents' = incumbents /\ ub' = ub /\ zub' = zub

(* The only step that ends the run is Finish, and only Settle and Freeze
   announce a solution. *)
LEMMA StreamMoves ==
  ASSUME Base, [Next]_vars
  PROVE  \/ Fixed /\ (pc' = "Done" <=> pc = "Done")
         \/ Fixed /\ pc = "Finish" /\ pc' = "Done"
         \/ /\ pc # "Done" /\ pc' # "Done"
            /\ \E w \in Partition : Improves(w) /\ NewIncumbent(w)
<1> USE DEF Fixed, bounds, Goto
<1>1. CASE Settle
  <2>1. CASE IsInteger(lp) /\ Improves(lp) /\ NewIncumbent(lp)
    BY <1>1, <2>1 DEF Settle, IsInteger
  <2>2. CASE UNCHANGED bounds  BY <1>1, <2>2 DEF Settle
  <2> QED BY <1>1, <2>1, <2>2 DEF Settle
<1>2. CASE Freeze
  <2>1. CASE UNCHANGED bounds  BY <1>2, <2>1 DEF Freeze
  <2>2. CASE \E w \in Partition : Improves(w) /\ NewIncumbent(w)
    BY <1>2, <2>2 DEF Freeze
  <2> QED BY <1>2, <2>1, <2>2 DEF Freeze, Optima
<1>3. CASE Finish  BY <1>3 DEF Finish
<1>4. CASE Tick \/ Rearm \/ UNCHANGED vars  BY <1>4 DEF Tick, Rearm, vars
<1>5. CASE Root \/ SolveAborted \/ Solve \/ NextChild
  BY <1>5 DEF Root, SolveAborted, Solve, NextChild
<1>6. CASE PriceOut \/ Cut \/ CutEnd  BY <1>6 DEF PriceOut, Cut, CutEnd
<1>7. CASE Stop \/ Take \/ ChildrenDone  BY <1>7 DEF Stop, Take, ChildrenDone
<1>8. CASE Branch \/ BranchAborted  BY <1>8 DEF Branch, BranchAborted
<1> QED BY <1>1, <1>2, <1>3, <1>4, <1>5, <1>6, <1>7, <1>8 DEF Next, Step

LEMMA LinkedStep ==
  ASSUME Base, Linked, [Next]_vars
  PROVE  Linked'
<1>1. CASE Fixed  BY <1>1 DEF Linked, Fixed
<1>2. CASE \E w \in Partition : Improves(w) /\ NewIncumbent(w)
  <2>1. PICK w \in Partition : NewIncumbent(w)  BY <1>2
  <2>2. w # NoPoint  BY PriceTypes, PartitionPoint
  <2>3. incumbents \in Seq(Partition)  BY DEF Base, TypeOK
  <2>4. incumbents' = Append(incumbents, w) /\ ub' = w /\ zub' = Price[w]
    BY <2>1 DEF NewIncumbent
  <2>5. incumbents' # <<>> /\ incumbents'[Len(incumbents')] = w  BY <2>3, <2>4
  <2> QED BY <2>2, <2>4, <2>5 DEF Linked
<1> QED BY <1>1, <1>2, StreamMoves

LEMMA LinkedAlways == Spec => [](Base /\ Linked)
<1>1. Init => Linked  BY DEF Init, Linked
<1> QED BY <1>1, LinkedStep, BaseAlways, PTL DEF Spec

LEMMA AnytimeStep ==
  ASSUME Base, Linked, [Next]_vars
  PROVE  [Anytime!StreamNext]_(Anytime!streamVars)
<1>1. CASE Fixed /\ (pc' = "Done" <=> pc = "Done")
  BY <1>1 DEF Fixed, Anytime!streamVars
<1>2. CASE Fixed /\ pc = "Finish" /\ pc' = "Done"
  <2>1. ub \in Partition \cup {NoPoint}  BY DEF Base, TypeOK
  <2>2. Anytime!Return(ub)
    BY <1>2, <2>1 DEF Anytime!Return, Anytime!Within, Fixed, Linked
  <2> QED BY <2>1, <2>2 DEF Anytime!StreamNext
<1>3. CASE /\ pc # "Done" /\ pc' # "Done"
           /\ \E w \in Partition : Improves(w) /\ NewIncumbent(w)
  <2>1. PICK w \in Partition : Improves(w) /\ NewIncumbent(w)  BY <1>3
  <2>2. incumbents' = Append(incumbents, w)  BY <2>1 DEF NewIncumbent
  <2>3. Price[w] \in Nat /\ zub \in Nat  BY PriceTypes, PartitionPoint DEF Base, TypeOK
  <2>4. incumbents = <<>> \/ Price[w] < Price[incumbents[Len(incumbents)]]
    BY <2>1, <2>3 DEF Improves, Linked
  <2>5. Anytime!Announce(w)
    BY <1>3, <2>2, <2>4 DEF Anytime!Announce, Anytime!Within
  <2> QED BY <2>1, <2>5 DEF Anytime!StreamNext
<1> QED BY <1>1, <1>2, <1>3, StreamMoves

(* The incumbents improve strictly and the solution returned is the last. *)
THEOREM BcpImplementsStream == Spec => AnytimeContract
<1>1. Init => Anytime!StreamInit  BY DEF Init, Anytime!StreamInit
<1>2. (Base /\ Linked) /\ [Next]_vars => [Anytime!StreamNext]_(Anytime!streamVars)
  BY AnytimeStep
<1> QED BY <1>1, <1>2, LinkedAlways, PTL DEF Spec, AnytimeContract, Anytime!StreamSpec

-----------------------------------------------------------------------------
(* The pricing ladder. *)

(* Columns wait in `fresh` only between the ladder and the end of the pass. *)
Staged ==
  /\ pc # "Price" => at = "Idle"
  /\ at # "Landed" => fresh = {}
  /\ fresh \cap (cols \cup Using(forbidden, Column)) = {}

(* What was thrown away is on record, and so is every pass that proved nothing. *)
Recorded ==
  /\ keys \cap Phantom # {} => rejected
  /\ poisoned => rejected \/ lost \/ doubtful

Unmarked == ~cut /\ ~rejected /\ ~lost /\ ~doubtful

(* A ladder that ends without news and without a mark, at the true duals, has
   solved the linear program. *)
Exhausted == at = "Landed" /\ fresh = {} /\ kind = "true" /\ Unmarked => Priced

PInv == Base /\ LadderTypeOK /\ Fingerprints /\ Staged /\ Recorded /\ Exhausted

LEMMA PInvInit == PInit => PInv
<1> SUFFICES ASSUME PInit PROVE PInv  OBVIOUS
<1>1. Base  BY BaseInit DEF PInit
<1>2. cols \subseteq Column /\ poisoned = FALSE /\ pc = "Root"  BY <1>1 DEF Base, TypeOK, PInit, Init
<1>3. keys \cap Phantom = {} /\ keys = cols /\ fresh = {}
  BY <1>2, PricingAssumption DEF PInit
<1>4. /\ level = 1 /\ merge = "first" /\ center = FALSE /\ at = "Idle" /\ kind = "true"
      /\ cut = FALSE /\ rejected = FALSE /\ lost = FALSE /\ doubtful = FALSE
  BY DEF PInit
<1>b. /\ center \in BOOLEAN /\ cut \in BOOLEAN /\ rejected \in BOOLEAN
      /\ lost \in BOOLEAN /\ doubtful \in BOOLEAN
  BY <1>4
<1>e. level \in 1 .. Exact /\ fresh \subseteq Column  BY <1>3, <1>4 DEF Exact
<1>5. LadderTypeOK  BY <1>2, <1>3, <1>4, <1>b, <1>e DEF LadderTypeOK
<1>6. Fingerprints /\ Staged /\ Recorded /\ Exhausted
  BY <1>2, <1>3, <1>4 DEF Fingerprints, Staged, Recorded, Exhausted
<1> QED BY <1>1, <1>5, <1>6 DEF PInv

-----------------------------------------------------------------------------
(* Outside a pass nothing the ladder knows of changes. *)
LEMMA ElsewhereKeeps ==
  ASSUME Elsewhere
  PROVE  UNCHANGED <<cols, cfg, poisoned, hit>>
<1> USE DEF Goto, flags
<1>1. CASE Root \/ SolveAborted \/ Solve \/ NextChild
  BY <1>1 DEF Root, SolveAborted, Solve, NextChild
<1>2. CASE PriceOut  BY <1>2 DEF PriceOut, Elsewhere
<1>3. CASE Cut \/ CutEnd \/ Settle \/ Freeze  BY <1>3 DEF Cut, CutEnd, Settle, Freeze
<1>4. CASE Stop \/ Take \/ ChildrenDone \/ Finish
  BY <1>4 DEF Stop, Take, ChildrenDone, Finish
<1>5. CASE Branch \/ BranchAborted  BY <1>5 DEF Branch, BranchAborted
<1> QED BY <1>1, <1>2, <1>3, <1>4, <1>5 DEF Elsewhere, Step

(* A level at work: what it leaves in `fresh` is new, what it throws away is a
   phantom, and an Exact level without news or mark has priced everything. *)
LEMMA LevelWorks ==
  ASSUME PInv, Level
  PROVE  /\ fresh' \subseteq Column
         /\ fresh' \cap (cols \cup Using(forbidden, Column)) = {}
         /\ cols \cup fresh' \subseteq keys' /\ keys' \cap Column \subseteq cols \cup fresh'
         /\ keys' \subseteq Column \cup Phantom
         /\ keys' \cap Phantom # {} => rejected'
         /\ rejected' \in BOOLEAN /\ lost' \in BOOLEAN
         /\ (rejected => rejected') /\ (lost => lost')
         /\ cut' \in BOOLEAN /\ doubtful' \in BOOLEAN /\ (doubtful => doubtful')
         /\ fresh' = {} /\ level = Exact /\ kind = "true" /\ Unmarked' => Priced
<1>1. PICK R \in SUBSET Priceable :
        /\ Plausible(R) /\ Insert(R)
        /\ \/ level < Exact /\ UNCHANGED doubtful
           \/ Sure(R) /\ (Telling(R) \/ cut') /\ UNCHANGED doubtful
           \/ level = Exact /\ doubtful' = (doubtful \/ (kind = "true" /\ fresh' = {}))
  BY DEF Level
<1> DEFINE news == R \ (keys \cup Vague)
<1>i. /\ keys' = keys \cup news /\ fresh' = news \cap Column
      /\ rejected' = (rejected \/ news \cap Phantom # {})
      /\ lost' = (lost \/ R \cap Vague # {})
  BY <1>1 DEF Insert
<1>t. /\ cols \subseteq Column /\ keys \subseteq Column \cup Phantom
      /\ rejected \in BOOLEAN /\ lost \in BOOLEAN /\ cut \in BOOLEAN /\ doubtful \in BOOLEAN
  BY DEF PInv, Base, TypeOK, LadderTypeOK
<1>k. /\ fresh = {} /\ cols \subseteq keys /\ keys \cap Column \subseteq cols
      /\ (keys \cap Phantom # {} => rejected)
  BY DEF PInv, Staged, Fingerprints, Recorded, Level
<1>p. R \subseteq Column \cup Phantom /\ R \cap Column \cap Using(forbidden, Column) = {}
  BY <1>1, PricingAssumption DEF Priceable
<1>v. Vague \subseteq Phantom /\ Phantom \cap Column = {}
  BY PricingAssumption
<1>2. /\ fresh' \subseteq Column /\ fresh' \cap (cols \cup Using(forbidden, Column)) = {}
      /\ cols \cup fresh' \subseteq keys' /\ keys' \cap Column \subseteq cols \cup fresh'
      /\ keys' \subseteq Column \cup Phantom
  BY <1>i, <1>k, <1>p, <1>t
<1>3. keys' \cap Phantom # {} => rejected'
  <2>1. keys' \cap Phantom = (keys \cap Phantom) \cup (news \cap Phantom)  BY <1>i
  <2> QED BY <2>1, <1>i, <1>k
<1>4. rejected' \in BOOLEAN /\ lost' \in BOOLEAN /\ (rejected => rejected') /\ (lost => lost')
  BY <1>i
<1>5. doubtful' \in BOOLEAN /\ (doubtful => doubtful')
  <2>1. CASE doubtful' = doubtful  BY <2>1, <1>t
  <2>2. CASE doubtful' = (doubtful \/ (kind = "true" /\ fresh' = {}))  BY <2>2
  <2> QED BY <1>1, <2>1, <2>2
<1>6. cut' \in BOOLEAN  BY DEF Level
<1>7. ASSUME fresh' = {}, level = Exact, kind = "true", Unmarked'
      PROVE  Priced
  <2>1. ~cut' /\ ~rejected' /\ ~lost' /\ ~doubtful'  BY <1>7 DEF Unmarked
  <2>2. R \subseteq cols
    <3> SUFFICES ASSUME NEW r \in R, r \notin cols PROVE FALSE  OBVIOUS
    <3>1. CASE r \in Column
      <4>1. r \notin keys /\ r \notin Vague  BY <3>1, <1>k, <1>v
      <4> QED BY <4>1, <3>1, <1>i, <1>7
    <3>2. CASE r \in Phantom
      <4>1. r \notin Vague  BY <1>i, <2>1
      <4>2. r \notin keys  BY <3>2, <1>k, <1>4, <2>1
      <4> QED BY <4>1, <4>2, <3>2, <1>i, <2>1
    <3> QED BY <3>1, <3>2, <1>p
  <2>3. ~(doubtful' = (doubtful \/ (kind = "true" /\ fresh' = {})))  BY <1>7, <2>1
  <2>4. ~(level < Exact)  BY <1>7 DEF Exact
  <2>5. Telling(R)  BY <1>1, <2>1, <2>3, <2>4
  <2> QED BY <2>2, <2>5, <1>7 DEF Telling
<1>8. fresh' = {} /\ level = Exact /\ kind = "true" /\ Unmarked' => Priced
  BY <1>7
<1> HIDE DEF news
<1> QED BY <1>2, <1>3, <1>4, <1>5, <1>6, <1>8

-----------------------------------------------------------------------------
(* The end of a pass is the step PriceOut of the search, with `fresh` for its
   new columns. *)
LEMMA EndPassPrices == PInv /\ EndPass => PriceOut
<1> SUFFICES ASSUME PInv, EndPass PROVE PriceOut  OBVIOUS
<1>1. pc = "Price" /\ at = "Landed" /\ ~Mispriced /\ AddColumns(fresh)
      /\ pc' = (IF fresh # {} THEN "Solve" ELSE IF cur.root THEN "Cut" ELSE "Settle")
      /\ lost' = (lost \/ (cut /\ hit = {} /\ fresh = {}))
      /\ poisoned' = (rejected \/ lost' \/ doubtful)
  BY DEF EndPass, Move
<1>2. fresh \in SUBSET Fresh(cols)
  BY DEF PInv, Staged, LadderTypeOK, Fresh
<1>t. /\ rejected \in BOOLEAN /\ lost \in BOOLEAN /\ cut \in BOOLEAN /\ doubtful \in BOOLEAN
      /\ poisoned \in BOOLEAN /\ kind \in {"true", "smooth"}
  BY DEF PInv, Base, TypeOK, LadderTypeOK
<1>r. poisoned => rejected \/ lost \/ doubtful  BY DEF PInv, Recorded
<1>3. \/ (fresh # {} \/ Priced \/ hit # {} \/ poisoned) /\ UNCHANGED poisoned
      \/ poisoned' = TRUE
  <2>1. CASE rejected \/ lost' \/ doubtful  BY <2>1, <1>1, <1>t
  <2>2. CASE ~(rejected \/ lost' \/ doubtful)
    <3>1. poisoned' = poisoned  BY <2>2, <1>1, <1>r, <1>t
    <3>2. CASE hit = {} /\ fresh = {}
      <4>1. Unmarked /\ kind = "true"  BY <2>2, <3>2, <1>1, <1>t DEF Mispriced, Unmarked
      <4>2. Priced  BY <4>1, <3>2, <1>1 DEF PInv, Exhausted
      <4> QED BY <3>1, <4>2
    <3> QED BY <3>1, <3>2
  <2> QED BY <2>1, <2>2
<1>4. UNCHANGED <<cfg, hit, cuts, spf, cur, lp, newCuts, queue, branched, children, bounds,
                  closed, status, starved>>
  BY DEF EndPass
<1>5. \/ fresh # {} /\ pc' = "Solve"
      \/ fresh = {} /\ pc' = (IF cur.root THEN "Cut" ELSE "Settle")
  BY <1>1
<1> HIDE DEF AddColumns, Fresh, Priced
<1> QED BY <1>1, <1>2, <1>3, <1>4, <1>5 DEF PriceOut

(* Every step of the opened search is a step of the search, or none. *)
LEMMA PassSteps == PInv /\ [PNext]_pvars => [Next]_vars
<1> SUFFICES ASSUME PInv, [PNext]_pvars PROVE [Next]_vars  OBVIOUS
<1>1. CASE EndPass  BY <1>1, EndPassPrices DEF Next, Step
<1>2. CASE Elsewhere  BY <1>2 DEF Elsewhere, Next
<1>3. CASE Begin \/ LadderStop \/ RunLevel \/ Level \/ Misprice
  BY <1>3 DEF Begin, LadderStop, RunLevel, Level, Misprice
<1>4. CASE Tick \/ Forget  BY <1>4 DEF Next, Forget
<1>5. CASE UNCHANGED pvars  BY <1>5 DEF pvars
<1> QED BY <1>1, <1>2, <1>3, <1>4, <1>5 DEF PNext, PStep, Pass

LEMMA PInvStep == PInv /\ [PNext]_pvars => PInv'
<1> SUFFICES ASSUME PInv, [PNext]_pvars PROVE PInv'  OBVIOUS
<1>b. Base'
  <2>1. Base /\ [Next]_vars  BY PassSteps DEF PInv
  <2> QED BY <2>1, BaseStep
<1>i. LadderTypeOK /\ Fingerprints /\ Staged /\ Recorded /\ Exhausted  BY DEF PInv
<1> USE DEF Move
<1>1. CASE Elsewhere
  <2>1. UNCHANGED <<cols, cfg, poisoned, hit>> /\ UNCHANGED ladder /\ pc # "Price"
    BY <1>1, ElsewhereKeeps DEF Elsewhere
  <2>2. at = "Idle" /\ fresh = {}  BY <2>1, <1>i DEF Staged
  <2>3. LadderTypeOK' /\ Fingerprints'  BY <2>1, <1>i DEF ladder, LadderTypeOK, Fingerprints
  <2>4. Staged' /\ Recorded' /\ Exhausted'
    BY <2>1, <2>2, <1>i DEF ladder, Staged, Recorded, Exhausted
  <2> QED BY <1>b, <2>3, <2>4 DEF PInv
<1>2. CASE EndPass
  <2>1. /\ at' = "Idle" /\ fresh' = {} /\ cols' = cols \cup fresh /\ keys' = keys
        /\ kind' = "true" /\ cut' = FALSE /\ center' = TRUE /\ level' = level
        /\ merge' = merge /\ rejected' = rejected /\ doubtful' = doubtful
        /\ lost' = (lost \/ (cut /\ hit = {} /\ fresh = {}))
        /\ poisoned' = (rejected \/ lost' \/ doubtful)
    BY <1>2 DEF EndPass, AddColumns
  <2>2. LadderTypeOK' /\ Fingerprints'  BY <2>1, <1>i DEF LadderTypeOK, Fingerprints
  <2>3. Recorded'  BY <2>1, <1>i DEF Recorded, LadderTypeOK
  <2>4. Staged' /\ Exhausted'  BY <2>1 DEF Staged, Exhausted
  <2> QED BY <1>b, <2>2, <2>3, <2>4 DEF PInv
<1>3. CASE Level
  <2>1. UNCHANGED vars /\ UNCHANGED <<center, kind>> /\ pc = "Price"
        /\ \E finished \in BOOLEAN : Climb(finished)
    BY <1>3 DEF Level
  <2>2. UNCHANGED <<pc, cols, forbidden, cfg, hit, poisoned, Priced>>
    BY <2>1 DEF vars, spf, cg, flags, Priced, Full, Restricted
  <2>3. fresh' \subseteq Column /\ fresh' \cap (cols \cup Using(forbidden, Column)) = {}
        /\ cols \cup fresh' \subseteq keys' /\ keys' \cap Column \subseteq cols \cup fresh'
        /\ keys' \subseteq Column \cup Phantom
    BY <1>3, LevelWorks
  <2>4. /\ keys' \cap Phantom # {} => rejected'
        /\ rejected' \in BOOLEAN /\ lost' \in BOOLEAN
        /\ (rejected => rejected') /\ (lost => lost')
        /\ cut' \in BOOLEAN /\ doubtful' \in BOOLEAN /\ (doubtful => doubtful')
    BY <1>3, LevelWorks
  <2>5. /\ at' \in {"Landed", "Ladder"} /\ level' \in 1 .. Exact
        /\ merge' \in {"first", "late", "last"}
        /\ at' # "Landed" => fresh' = {}
        /\ at' = "Landed" /\ fresh' = {} => level = Exact
    BY <2>1, <1>i DEF Climb, LadderTypeOK, Exact
  <2>6. LadderTypeOK' /\ Fingerprints'
    BY <2>1, <2>2, <2>3, <2>4, <2>5, <1>i DEF LadderTypeOK, Fingerprints
  <2>7. Staged'
    <3>1. Using(forbidden', Column) = Using(forbidden, Column)  BY <2>2
    <3> QED BY <2>1, <2>2, <2>3, <2>5, <3>1 DEF Staged
  <2>8. Recorded'  BY <2>2, <2>4, <1>i DEF Recorded
  <2>9. Exhausted'
    <3> SUFFICES ASSUME at' = "Landed", fresh' = {}, kind' = "true", Unmarked'
                 PROVE  Priced'
      BY DEF Exhausted
    <3>1. level = Exact /\ kind = "true"  BY <2>1, <2>5
    <3>2. Priced  BY <3>1, <1>3, LevelWorks
    <3> QED BY <3>2, <2>2
  <2> QED BY <1>b, <2>6, <2>7, <2>8, <2>9 DEF PInv
<1>4. CASE Begin \/ LadderStop \/ RunLevel \/ Misprice
  <2>1. UNCHANGED vars /\ pc = "Price"
        /\ UNCHANGED <<level, merge, center, keys, fresh, rejected, lost, doubtful>>
    BY <1>4 DEF Begin, LadderStop, RunLevel, Misprice
  <2>2. UNCHANGED <<pc, cols, forbidden, cfg, hit, poisoned, Priced>>
    BY <2>1 DEF vars, spf, cg, flags, Priced, Full, Restricted
  <2>3. /\ at' \in {"Ladder", "Labeling", "Landed"} /\ kind' \in {"true", "smooth"}
        /\ cut' \in BOOLEAN /\ fresh = {} /\ (at' = "Landed" => cut')
    <3>1. CASE Begin  BY <3>1, <1>i DEF Begin, LadderTypeOK, Staged
    <3>2. CASE LadderStop  BY <3>2, <1>i DEF LadderStop, LadderTypeOK, Staged
    <3>3. CASE RunLevel  BY <3>3, <1>i DEF RunLevel, LadderTypeOK, Staged
    <3>4. CASE Misprice  BY <3>4, <1>i DEF Misprice, Mispriced, LadderTypeOK, Staged
    <3> QED BY <1>4, <3>1, <3>2, <3>3, <3>4
  <2>4. LadderTypeOK' /\ Fingerprints'
    BY <2>1, <2>2, <2>3, <1>i DEF LadderTypeOK, Fingerprints
  <2>5. Staged' /\ Exhausted'  BY <2>1, <2>2, <2>3 DEF Staged, Exhausted, Unmarked
  <2>6. Recorded'  BY <2>1, <2>2, <2>3, <1>i DEF Recorded
  <2> QED BY <1>b, <2>4, <2>5, <2>6 DEF PInv
<1>5. CASE (Tick /\ UNCHANGED ladder) \/ Forget
  <2>1. UNCHANGED <<pc, cols, forbidden, poisoned, Priced>>
    BY <1>5 DEF Forget, Tick, Rearm, spf, cg, flags, Priced, Full, Restricted
  <2>2. UNCHANGED <<level, merge, center, at, kind, keys, fresh, rejected, lost, doubtful>>
        /\ (cut' = cut \/ cut' = (cut \/ at = "Labeling"))
    BY <1>5 DEF Forget, ladder
  <2>3. cut' \in BOOLEAN /\ (cut => cut')  BY <2>2, <1>i DEF LadderTypeOK
  <2>4. LadderTypeOK' /\ Fingerprints' /\ Staged'
    BY <2>1, <2>2, <2>3, <1>i DEF LadderTypeOK, Fingerprints, Staged
  <2>5. Recorded' /\ Exhausted'
    BY <2>1, <2>2, <2>3, <1>i DEF Recorded, Exhausted, Unmarked
  <2> QED BY <1>b, <2>4, <2>5 DEF PInv
<1>6. CASE UNCHANGED pvars
  <2>1. UNCHANGED vars /\ UNCHANGED ladder  BY <1>6 DEF pvars
  <2>2. UNCHANGED <<pc, cols, forbidden, cfg, hit, poisoned, Priced>>
    BY <2>1 DEF vars, spf, cg, flags, Priced, Full, Restricted
  <2> QED BY <1>b, <1>i, <2>1, <2>2
          DEF ladder, PInv, LadderTypeOK, Fingerprints, Staged, Recorded, Exhausted, Unmarked
<1> QED BY <1>1, <1>2, <1>3, <1>4, <1>5, <1>6 DEF PNext, PStep, Pass

LEMMA PInvAlways == PSpec => []PInv
  BY PInvInit, PInvStep, PTL DEF PSpec

(* Type correctness of the ladder. *)
THEOREM LadderTyping == PSpec => []LadderTypeOK
<1>1. PInv => LadderTypeOK  BY DEF PInv
<1> QED BY <1>1, PInvAlways, PTL

(* A pricing pass is one pricing step of the search.  If it ends without news it has
   met a limit or solved the linear program of its node, or it is marked: the checker
   rejected a route, one vanished in the pool, another solve moved the watermark, or
   its last run was an Exact one that was closing, merged late, filled its pool or
   had to break a tie.  Smoothed duals, the lower levels, the fingerprints and limits
   that come and go need no mark.  So whatever holds of every behaviour of Spec holds
   with the ladder opened up. *)
THEOREM PassImplementsSearch == PSpec => Spec
<1>1. PInit => Init  BY DEF PInit
<1> QED BY <1>1, PassSteps, PInvAlways, PTL DEF PSpec, Spec

(* No column enters the formulation twice. *)
THEOREM ColumnsOnce == PSpec => []Fingerprints
<1>1. PInv => Fingerprints  BY DEF PInv
<1> QED BY <1>1, PInvAlways, PTL

(* A solve that ends "Optimum" has its optimum if no node starved, the checker rejected
   no column, nothing was lost and no pass was doubtful.  The last premise is strong: a
   pass that certifies after an Exact run with columns closes and is doubtful, so of
   most solves the theorem says nothing. *)
THEOREM UnmarkedCertifies == PSpec => []Certificate
<1>1. PInv /\ CertifiedOptimum => Certificate
  BY DEF PInv, Recorded, CertifiedOptimum, Certificate
<1> QED BY <1>1, PInvAlways, PassImplementsSearch, OptimumCertified, PTL
=============================================================================

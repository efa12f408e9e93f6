-------------------------------- MODULE Master --------------------------------
(***************************************************************************)
(* The set-partitioning formulation the branch-cut-and-price works on.     *)
(* A column is a route: the customers it visits and the arcs it uses.  The *)
(* linear programs are kept as their candidate solutions: a point weights  *)
(* the columns so that every customer is covered exactly once; its support *)
(* is the columns of positive weight, and it is a partition of the         *)
(* customers when every weight is 0 or 1.  A restricted master is the set  *)
(* of points that live on its columns and satisfy its cuts; the LP solver  *)
(* returns any cheapest one.                                               *)
(***************************************************************************)
EXTENDS Naturals, FiniteSets

CONSTANTS Customer, O, D,     \* customers, start depot, end depot
          Column, Seed,       \* routes priced or given; the single-customer ones
          Visits, ArcsOf,     \* customers and arcs of a column
          Point, Support, Partition, Price,
          Infty,              \* INFTY, the cost of an artificial column: a point that
                              \* takes one whole costs no less
          Row, CutOff,        \* subset-row cuts and the points each removes
          Violated            \* those it cuts off by more than the threshold

Vertex == Customer \cup {O, D}

(* Arcs between customers that point w uses with a weight strictly between 0
   and 1: some route takes the arc, some route leaves its tail otherwise. *)
Fractional(w) ==
  {e \in Customer \X Customer :
     /\ \E c \in Support[w] : e \in ArcsOf[c]
     /\ \E c \in Support[w] : e[1] \in Visits[c] /\ e \notin ArcsOf[c]}

ASSUME ColumnAssumption ==
  /\ Seed \subseteq Column
  /\ Visits \in [Column -> SUBSET Customer]
  /\ ArcsOf \in [Column -> SUBSET (Vertex \X Vertex)]
  \* elementary: at most one arc out of and one arc into a vertex of the route
  /\ \A c \in Column : \A e, f \in ArcsOf[c] : e[1] = f[1] \/ e[2] = f[2] => e = f
  /\ \A c \in Column : \A e \in ArcsOf[c] : {e[1], e[2]} \cap Customer \subseteq Visits[c]

ASSUME PointAssumption ==
  /\ Support \in [Point -> SUBSET Column]
  /\ Infty \in Nat /\ Price \in [Point -> Nat \ {0}]
  /\ Partition \subseteq Point
  /\ \A w \in Partition : \A b, c \in Support[w] : Visits[b] \cap Visits[c] # {} => b = c
  \* routes with equal flow on every arc are equal
  /\ \A w \in Point \ Partition : Fractional(w) # {}
  /\ CutOff \in [Row -> SUBSET (Point \ Partition)]
  /\ \A k \in Row : Violated[k] \subseteq CutOff[k]

(* The columns of C that use an arc of A. *)
Using(A, C) == {c \in C : ArcsOf[c] \cap A # {}}

(* The master restricted to columns C under cuts R, and its cheapest points. *)
Restricted(C, R) == {w \in Point : Support[w] \subseteq C /\ \A k \in R : w \notin CutOff[k]}
Optima(P)        == {w \in P : \A v \in P : Price[w] <= Price[v]}

(* No point of P is cheaper than all of Q: min P >= min Q, INFTY when empty. *)
NotBelow(P, Q) == \A w \in P : \E v \in Q : Price[v] <= Price[w]

(* x_e = 1: every other arc of the graph G out of the tail and into the head is
   forbidden. *)
Competing_Itself(G, e) ==   \* mutant: the arc itself is not spared
  {f \in G : f[1] = e[1] \/ f[2] = e[2]}

Competing(G, e) == {f \in G \ {e} : f[1] = e[1] \/ f[2] = e[2]}
===============================================================================

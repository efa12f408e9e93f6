-------------------------------- MODULE BcpMC --------------------------------
(* Instances of Bcp: a table of routes (stops and cost) determines the columns,
   the half-integral exact covers of the customers and the cuts. *)
EXTENDS Bcp, TLC

CONSTANT Routes   \* name -> [path, cost]

(* Four customers; the root relaxation is fractional and two levels of
   branching are needed. *)
Four ==
  [s1 |-> [path |-> <<1>>, cost |-> 12], s2 |-> [path |-> <<2>>, cost |-> 12],
   s3 |-> [path |-> <<3>>, cost |-> 12], s4 |-> [path |-> <<4>>, cost |-> 12],
   r123 |-> [path |-> <<1, 2, 3>>, cost |-> 22], r34  |-> [path |-> <<3, 4>>, cost |-> 16],
   r412 |-> [path |-> <<4, 1, 2>>, cost |-> 21], r421 |-> [path |-> <<4, 2, 1>>, cost |-> 20],
   r12  |-> [path |-> <<1, 2>>, cost |-> 14]]

(* Four customers; one branch of the root holds the optimum, the other stays
   fractional above it.  s2 is artificial. *)
Split ==
  [s1 |-> [path |-> <<1>>, cost |-> 10], s2 |-> [path |-> <<2>>, cost |-> 500],
   s3 |-> [path |-> <<3>>, cost |-> 10], s4 |-> [path |-> <<4>>, cost |-> 11],
   r132 |-> [path |-> <<1, 3, 2>>, cost |-> 19], r23  |-> [path |-> <<2, 3>>, cost |-> 13],
   r134 |-> [path |-> <<1, 3, 4>>, cost |-> 20], r412 |-> [path |-> <<4, 1, 2>>, cost |-> 24],
   r43  |-> [path |-> <<4, 3>>, cost |-> 15]]

(* Three customers and a route for each pair: half of each pair is the
   relaxation's optimum, and one subset-row cut removes it. *)
Three ==
  [s1 |-> [path |-> <<1>>, cost |-> 8], s2 |-> [path |-> <<2>>, cost |-> 8],
   s3 |-> [path |-> <<3>>, cost |-> 8],
   r12 |-> [path |-> <<1, 2>>, cost |-> 10], r23 |-> [path |-> <<2, 3>>, cost |-> 10],
   r31 |-> [path |-> <<3, 1>>, cost |-> 10]]

MCColumn   == DOMAIN Routes
MCCustomer == UNION {{Routes[c].path[i] : i \in DOMAIN Routes[c].path} : c \in MCColumn}
MCSeed     == {c \in MCColumn : Len(Routes[c].path) = 1}
MCDepot    == Cardinality(MCCustomer) + 1

\* f @@ <<>> makes TLC tabulate f
Stops(c) == <<0>> \o Routes[c].path \o <<MCDepot>>
MCVisits == [c \in MCColumn |-> {Routes[c].path[i] : i \in DOMAIN Routes[c].path}] @@ <<>>
MCArcsOf == [c \in MCColumn |->
               {<<Stops(c)[i], Stops(c)[i + 1]>> : i \in 1 .. Len(Stops(c)) - 1}] @@ <<>>

RECURSIVE Total(_, _), Listing(_)
Total(f, C) == IF C = {} THEN 0 ELSE LET c == CHOOSE c \in C : TRUE IN f[c] + Total(f, C \ {c})
Listing(S)  == IF S = {} THEN <<>> ELSE LET w == CHOOSE w \in S : TRUE IN <<w>> \o Listing(S \ {w})

(* The half-integral exact covers: w[c] is twice the weight of column c, the
   single-customer columns take what the longer ones leave. *)
Long         == MCColumn \ MCSeed
Weight(w, C) == Cardinality({c \in C : w[c] = 1}) + 2 * Cardinality({c \in C : w[c] = 2})
Load(w, i)   == Weight(w, {c \in Long : i \in MCVisits[c]})
Cover ==
  {[c \in MCColumn |-> IF c \in Long THEN w[c] ELSE 2 - Load(w, Routes[c].path[1])] :
     w \in {w \in [Long -> 0 .. 2] : \A i \in MCCustomer : Load(w, i) <= 2}}

MCRow == {k \in SUBSET MCCustomer : Cardinality(k) = 3}

Tables ==
  LET cover == Listing(Cover)
      P == 1 .. Len(cover) IN
  [point     |-> P,
   support   |-> [p \in P |-> {c \in MCColumn : cover[p][c] > 0}] @@ <<>>,
   partition |-> {p \in P : \A c \in MCColumn : cover[p][c] # 1},
   price     |-> [p \in P |-> Total([c \in MCColumn |-> cover[p][c] * Routes[c].cost], MCColumn)] @@ <<>>,
   cutOff    |-> [k \in MCRow |->
     {p \in P : Weight(cover[p], {c \in MCColumn : Cardinality(MCVisits[c] \cap k) >= 2}) > 2}] @@ <<>>]

MCPoint     == Tables.point
MCSupport   == Tables.support
MCPartition == Tables.partition
MCPrice     == Tables.price
MCCutOff    == Tables.cutOff

-----------------------------------------------------------------------------
\* a partition one better one beats
RunnerUp ==
  CHOOSE p \in MCPartition :
    /\ \E q \in MCPartition : MCPrice[q] < MCPrice[p]
    /\ \A q, r \in MCPartition : MCPrice[q] < MCPrice[p] /\ MCPrice[r] < MCPrice[p]
                                    => MCPrice[q] = MCPrice[r]

AllArcs == {a \in (0 .. MCDepot - 1) \X (1 .. MCDepot) : a[1] # a[2]}

Plain == [limits |-> {}, warm |-> NoPoint, graph |-> AllArcs, given |-> {},
          cutLimit |-> 0, nodeLimit |-> 99, phantoms |-> FALSE, smooth |-> FALSE, rival |-> FALSE]
Both  == [Plain EXCEPT !.limits = {"Time", "Memory"}]
Cuts  == [Plain EXCEPT !.cutLimit = 1, !.limits = {"Time"}]
Warm  == [Plain EXCEPT !.warm = RunnerUp, !.given = MCSupport[RunnerUp]]

\* a graph that has lost arcs A; the routes over them are given
Without(A) == [Plain EXCEPT !.graph = @ \ A, !.given = {c \in MCColumn : MCArcsOf[c] \cap A # {}}]
OneLost    == Without({<<4, 1>>})
AllLost    == Without({<<2, 3>>, <<1, 3>>, <<3, 4>>, <<4, 1>>, <<1, 2>>})

Nodes == [Plain EXCEPT !.nodeLimit = 3]
Rival == [Plain EXCEPT !.limits = {"Memory"}, !.rival = TRUE]

MainConfigs == {Both, Cuts, Warm, Nodes, Rival, OneLost, AllLost}

BoundConfigs   == {[Plain EXCEPT !.limits = {"Time"}]}
OptimumConfigs == {Plain}
=============================================================================

------------------------------ MODULE SqueezeMC ------------------------------
(* Four clients with time windows and constant travel times.  What a route
   costs is computed from them: the best departure for its length plus weighted
   lateness, where a late arrival is moved back to the window's end as in the
   warp fold. *)
EXTENDS Squeeze, FiniteSetsExt, TLC

\* row: from, column: to; the depot comes first
Arcs == << <<0, 4, 1, 1, 5>>,
          <<4, 0, 4, 3, 3>>,
          <<1, 4, 0, 1, 5>>,
          <<1, 3, 1, 0, 4>>,
          <<5, 3, 5, 4, 0>> >>
Open == <<7, 5, 5, 9>>   \* windows
Shut == <<7, 5, 6, 11>>
Seats == 3
FixedCost == 2
Departures == 0 .. 6

Stops == {q \in UNION {[1 .. n -> Client] : n \in 1 .. Seats} : Simple(q)}

Dist(a, b) == Arcs[a + 1][b + 1]
Later(a, b) == IF a > b THEN a ELSE b

RECURSIVE Ride(_, _, _)   \* from v at time t: time of return, lateness on the way
Ride(v, t, q) ==
  IF q = <<>> THEN [time |-> t + Dist(v, 0), late |-> 0]
  ELSE LET arrival == Later(t + Dist(v, q[1]), Open[q[1]])
           excess  == Later(arrival, Shut[q[1]]) - Shut[q[1]]
       IN  [Ride(q[1], arrival - excess, Tail(q)) EXCEPT !.late = @ + excess]

Rides(q) == {[length |-> Ride(0, t, q).time - t, late |-> Ride(0, t, q).late] : t \in Departures}

\* f @@ <<>> makes TLC tabulate f
PriceAt(weight) == [q \in Stops |-> Min({r.length + weight * r.late : r \in Rides(q)})] @@ <<>>
Prices   == [Explore |-> PriceAt(1), Repair |-> PriceAt(100)]
OnTime   == {q \in Stops : \E r \in Rides(q) : r.late = 0}
Duration == [q \in OnTime |-> Min({r.length : r \in {r \in Rides(q) : r.late = 0}})] @@ <<>>

RECURSIVE Covers(_)   \* the ways to serve exactly the clients of C
Covers(C) ==
  IF C = {} THEN {{}}
  ELSE UNION {{S \cup {q} : S \in Covers(C \ Members(q))} :
                q \in {q \in OnTime : Min(C) \in Members(q) /\ Members(q) \subseteq C}}

EveryCall ==
  {<<S, NoGuest>> : S \in Covers(Client)}
  \cup UNION {{<<S, c>> : S \in Covers(C), c \in Client \ C} : C \in SUBSET Client \ {{}}}

\* an alias of a constant TLC has tabulated
MCRoute     == Stops
MCTimely    == OnTime
MCPenalised == Prices
MCCalls     == EveryCall
MCNear      == {<<1, 3>>, <<1, 4>>, <<2, 3>>, <<2, 4>>, <<3, 1>>, <<3, 2>>, <<4, 1>>, <<4, 2>>}

MCObjective(S) == FixedCost * Cardinality(S) + MapThenSumSet(LAMBDA q : Duration[q], S)
=============================================================================

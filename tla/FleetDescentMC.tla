--------------------------- MODULE FleetDescentMC ---------------------------
(* Five clients, at most `Seats` of them in a route, routes along the arcs that
   are in time.  The trees and the fold disagree on one route each way. *)
EXTENDS FleetDescent, TLC

Seats  == 5
Usable == {<<1, 5>>, <<2, 5>>, <<3, 1>>, <<3, 2>>, <<3, 5>>, <<4, 2>>, <<5, 3>>}
Outward == Client \ {3}   \* the other is not in time from the depot

Stops == {q \in UNION {[1 .. n -> Client] : n \in 1 .. Seats} :
            Simple(q) /\ q[1] \in Outward /\ \A i \in 2 .. Len(q) : <<q[i - 1], q[i]>> \in Usable}

MCRanked == Stops \ {<<2, 5>>}
Folded   == Stops \ {<<4, 2>>}

RECURSIVE Covers(_)
Covers(C) ==
  IF C = {} THEN {{}}
  ELSE UNION {{S \cup {q} : S \in Covers(C \ Members(q))} :
                q \in {q \in Folded : Min(C) \in Members(q) /\ Members(q) \subseteq C}}

Solutions == {S \in Covers(Client) : Cardinality(S) <= 3}
Parts     == UNION {Covers(C) : C \in SUBSET Client}

MCRoute   == Folded
MCStart   == Solutions
MCRescued == Parts
MCNear    == {<<1, 2>>, <<1, 5>>, <<2, 1>>, <<2, 3>>, <<2, 5>>, <<3, 2>>, <<3, 4>>, <<3, 5>>, <<4, 3>>, <<5, 1>>, <<5, 2>>, <<5, 3>>}

Plain == [smallest |-> FALSE, difficult |-> FALSE, ladder |-> FALSE, capped |-> FALSE, restricted |-> FALSE]
MCConfigs ==
  {Plain,
   [Plain EXCEPT !.smallest = TRUE, !.difficult = TRUE],
   [Plain EXCEPT !.difficult = TRUE, !.restricted = TRUE, !.capped = TRUE],
   [Plain EXCEPT !.ladder = TRUE, !.capped = TRUE]}
=============================================================================

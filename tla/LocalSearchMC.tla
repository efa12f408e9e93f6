---------------------------- MODULE LocalSearchMC ----------------------------
(* Four customers, asymmetric arcs, at most `Seats` of them in a route. *)
EXTENDS LocalSearch, TLC

CONSTANTS Seats, Fleet, Usable   \* customers a route holds, routes, arcs in time

MCUsable == {<<1, 3>>, <<2, 4>>, <<3, 1>>, <<3, 2>>, <<4, 2>>}

MCSlot == 1 .. Fleet

Distinct(q) == \A i, j \in DOMAIN q : q[i] = q[j] => i = j
InTime(q)   == \A i \in 2 .. Len(q) : <<q[i - 1], q[i]>> \in Usable
Stops == {q \in UNION {[1 .. n -> Client] : n \in 1 .. Seats} : Distinct(q) /\ InTime(q)}

\* row: from, column: to; the depot comes first
Arc == << <<0, 3, 6, 2, 4>>,
          <<7, 0, 3, 7, 6>>,
          <<2, 3, 0, 6, 6>>,
          <<7, 6, 4, 0, 6>>,
          <<2, 6, 8, 8, 0>> >>

RECURSIVE Length(_, _)
Length(from, q) ==
  IF q = <<>> THEN Arc[from + 1][1] ELSE Arc[from + 1][q[1] + 1] + Length(q[1], Tail(q))

FixedCost == 1
Prices == [q \in Stops |-> FixedCost + Length(0, q)] @@ <<>>

MCNear == {<<2, 4>>, <<3, 4>>, <<4, 2>>, <<4, 3>>}

\* solutions that serve the customers of C from the slots 1 .. n
RECURSIVE Fill(_, _)
Fill(n, C) ==
  IF n = 0 THEN IF C = {} THEN {<<>>} ELSE {}
  ELSE UNION {{Append(f, q) : f \in Fill(n - 1, C \ Members(q))} :
                q \in {q \in Stops \cup {<<>>} : Members(q) \subseteq C}}

Solutions == Fill(Fleet, Client)
MCStart == {<< <<2, 4>>, <<1>>, <<3>> >>}

\* an alias of a constant TLC has tabulated
MCRoute    == Stops
MCCost     == Prices
MCSolution == Solutions
=============================================================================

----------------------------- MODULE RouteEvalMC -----------------------------
(* Four clients.  An arc has a constant travel time, a jam that all who leave in it
   come out of together, or a travel time that steps up. *)
EXTENDS RouteEval

Constant(t) == <<t + 1, t + 1>>
Jam(t)      == LET out == More(t, 3) + 1 IN <<out, out>>
StepUp(t)   == CASE t < 4 -> <<t + 1, t + 1>> [] t = 4 -> <<5, 7>> [] OTHER -> <<t + 3, t + 3>>

ArcOf(i, j, end) ==
  IF i = j THEN None
  ELSE [t \in 0 .. end |->
          CASE (i + 2 * j) % 3 = 0 -> Constant(t)
            [] (i + 2 * j) % 3 = 1 -> Jam(t)
            [] OTHER -> StepUp(t)]

ArcsTo(end) == [a \in Stop \X Stop |-> ArcOf(a[1], a[2], end)]
With(depot, clients) == [v \in Stop |-> IF v = Depot THEN depot ELSE clients[v]]

Case(end, windows, earliest, latest, service) ==
  [arc |-> ArcsTo(end), start |-> 0, end |-> end, windows |-> windows,
   earliest |-> earliest, latest |-> latest, service |-> service]

NoWindows == Case(9, FALSE, With(0, <<0, 0, 0, 0>>), With(0, <<0, 0, 0, 0>>), With(0, <<0, 1, 0, 1>>))
\* 1 closes inside the jam on the way to 3, and the arc from 3 to 4 steps where the jam ends
Tight == Case(9, TRUE, With(0, <<0, 3, 2, 5>>), With(8, <<2, 4, 6, 9>>), With(0, <<0, 1, 0, 0>>))
\* the horizon ends before the windows do
Short == Case(6, TRUE, With(1, <<2, 0, 0, 5>>), With(9, <<8, 3, 9, 8>>), With(0, <<1, 0, 0, 0>>))

MCInstances == {NoWindows, Tight, Short}
=============================================================================

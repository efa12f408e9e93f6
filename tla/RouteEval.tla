------------------------------ MODULE RouteEval ------------------------------
(***************************************************************************)
(* What a route costs, twice over.  The fold composes the arrival and      *)
(* ready-time functions of a route from the depot on and is the            *)
(* accountant; a tree over the same functions ranks the changes a search   *)
(* may make to a route without pricing the changed route.  Both exist in   *)
(* a plain form, where a closed window is a wall, and in the squeeze's     *)
(* form, where lateness is booked in a second function.                    *)
(*                                                                         *)
(* The state is that of a search over Slots routes: the plain states in    *)
(* the local search and its kicks, the warp states inside a squeeze.  Which *)
(* routes a search asks for is the callers' business (LocalSearch, Squeeze, *)
(* FleetDescent): any client sequence may come.                            *)
(***************************************************************************)
EXTENDS Clients, Pwlf, Sequences, SequencesExt, RouteSurgery

CONSTANTS Slots, Instances, Penalties

Depot == 0
Stop  == Client \cup {Depot}

(* Arrival times are given over the horizon, nobody arrives before leaving or
   overtakes (instance.h: "FIFO by monotonicity"), and no window closes before the
   horizon begins. *)
IsArrival(f, start) ==
  /\ f \in [DOMAIN f -> Nat \X Nat]
  /\ Void(f) \/ (End(f) \in Nat /\ DOMAIN f = start .. End(f))
  /\ \A t \in DOMAIN f :
       /\ t <= Low(f, t) /\ Low(f, t) <= High(f, t)
       /\ \A s \in DOMAIN f : s < t => High(f, s) <= Low(f, t)

IsInstance(net) ==
  /\ net.start \in Nat /\ net.end \in Nat /\ net.windows \in BOOLEAN
  /\ {net.earliest, net.latest, net.service} \subseteq [Stop -> Nat]
  /\ net.windows => \A v \in Stop : net.start <= net.latest[v]
  /\ DOMAIN net.arc = Stop \X Stop
  /\ \A a \in Stop \X Stop : IsArrival(net.arc[a], net.start)

ASSUME RouteEvalAssumption ==
  /\ IsFiniteSet(Client) /\ Depot \notin Client
  /\ Penalties \subseteq Nat
  /\ \A net \in Instances : IsInstance(net)

VARIABLES
  inst,    \* the instance: arcs, windows, service times, horizon
  tEnd,    \* warp_horizon of it, computed once
  plain,   \* slot -> RouteState, or NoState
  warped   \* slot -> WarpRouteState, or NoState

vars == <<inst, tEnd, plain, warped>>

NoState == [vertices |-> <<>>]
Built(states) == {k \in Slots : states[k] # NoState}

At(q, i) == q[i + 1]   \* positions count from 0
Arc(i, j) == inst.arc[<<i, j>>]

-----------------------------------------------------------------------------
(* The fold. *)

\* departure_identity
Departures ==
  IF ~inst.windows THEN Identity(inst.start, inst.end)
  ELSE Identity(More(inst.start, inst.earliest[Depot]), Less(inst.end, inst.latest[Depot]))

\* theta_for: without windows a shift by the service time over what is reached
Theta(v, reached) ==
  IF inst.windows THEN MakeTheta(inst.earliest[v], inst.latest[v], inst.service[v])
  ELSE Smooth(0 .. reached, LAMBDA t : t + inst.service[v])

Serve(v, arrival) == IF Void(arrival) THEN None ELSE Compose(Theta(v, Top(arrival)), arrival)

\* the depot's due date, without waiting
Home(arrival) ==
  IF inst.windows THEN Compose(Identity(0, inst.latest[Depot]), arrival) ELSE arrival

\* route_ready_time_function
ReadyTime(q) ==
  LET stop(i) == IF i = 0 THEN Depot ELSE q[i]
      ready[i \in 0 .. Len(q)] ==
        IF i = 0 THEN Departures
        ELSE Serve(q[i], Compose(Arc(stop(i - 1), q[i]), ready[i - 1]))
  IN  Home(Compose(Arc(stop(Len(q)), Depot), ready[Len(q)]))

Infeasible == [feasible |-> FALSE, duration |-> 0, departure |-> 0]

Evaluation(delta) ==
  IF Void(delta) THEN Infeasible
  ELSE LET best == MinShift(delta, DOMAIN delta)
       IN  [feasible |-> TRUE, duration |-> best.value, departure |-> best.at]

EvaluateRoute(q) == Evaluation(ReadyTime(q))

-----------------------------------------------------------------------------
(* Leaves and tree. *)
Tree == INSTANCE LcaTree WITH Then <- Compose

BridgeLeaf(from, to) == Serve(to, Arc(from, to))
ReturnLeaf(from) == Home(Arc(from, Depot))

\* route_leaves: the first one starts at the depot's departures
RouteLeaves(q) ==
  [i \in 0 .. Len(q) |->
     CASE i = 0      -> Serve(q[1], Compose(Arc(Depot, q[1]), Departures))
       [] i = Len(q) -> ReturnLeaf(q[i])
       [] OTHER      -> BridgeLeaf(q[i], q[i + 1])]

BuildRouteState(q) ==
  LET eval == EvaluateRoute(q)
  IN  IF ~eval.feasible THEN NoState
      ELSE [vertices |-> q, tree |-> Tree!Build(RouteLeaves(q)),
            duration |-> eval.duration, departure |-> eval.departure]

-----------------------------------------------------------------------------
(* Changed routes, as the pieces they are composed of: the start, runs of  *)
(* leaves of a live tree, and arcs no tree has.                            *)
Setoff       == [kind |-> "setoff"]
Run(r, a, b) == [kind |-> "run", route |-> r, lo |-> a, hi |-> b]
Bridge(a, b) == [kind |-> "bridge", from |-> a, to |-> b]
Return(a)    == [kind |-> "return", from |-> a]

When(test, pieces) == IF test THEN pieces ELSE <<>>

\* the first i clients of r, and the one that comes last
UpTo(r, i) == IF i > 0 THEN <<Run(r, 0, i - 1)>> ELSE <<Setoff>>
Before(r, i) == IF i > 0 THEN At(r.vertices, i - 1) ELSE Depot

SplicePieces_TailFromSeam(r1, i1, j1, r2, i2, j2) ==   \* mutant: the seam's arc counted twice
  LET m1   == Len(r1.vertices)
      last == IF i2 <= j2 THEN At(r2.vertices, j2) ELSE Before(r1, i1)
  IN  UpTo(r1, i1)
      \o When(i2 <= j2, <<Bridge(Before(r1, i1), At(r2.vertices, i2))>>)
      \o When(i2 < j2, <<Run(r2, i2 + 1, j2)>>)
      \o IF j1 + 1 < m1
         THEN <<Bridge(last, At(r1.vertices, j1 + 1)), Run(r1, j1 + 1, m1)>>
         ELSE <<Return(last)>>

(* r1[0 .. i1 - 1], r2[i2 .. j2], r1[j1 + 1 ..]; nothing comes in if i2 > j2. *)
SplicePieces(r1, i1, j1, r2, i2, j2) ==
  LET m1   == Len(r1.vertices)
      last == IF i2 <= j2 THEN At(r2.vertices, j2) ELSE Before(r1, i1)
  IN  UpTo(r1, i1)
      \o When(i2 <= j2, <<Bridge(Before(r1, i1), At(r2.vertices, i2))>>)
      \o When(i2 < j2, <<Run(r2, i2 + 1, j2)>>)
      \o IF j1 + 1 < m1
         THEN <<Bridge(last, At(r1.vertices, j1 + 1)), Run(r1, j1 + 2, m1)>>
         ELSE <<Return(last)>>

(* The client at i of r goes before position p. *)
RelocatePieces(r, i, p) ==
  LET m == Len(r.vertices)
      v(j) == At(r.vertices, j)
      \* from v(a) on to the one at b and what follows it
      rest(a, b) == IF b < m THEN <<Bridge(a, v(b)), Run(r, b + 1, m)>> ELSE <<Return(a)>>
  IN  IF p < i
      THEN UpTo(r, p)
           \o <<Bridge(Before(r, p), v(i)), Bridge(v(i), v(p))>>
           \o When(p + 1 <= i - 1, <<Run(r, p + 1, i - 1)>>)
           \o rest(v(i - 1), i + 1)
      ELSE UpTo(r, i)
           \o <<Bridge(Before(r, i), v(i + 1))>>
           \o When(i + 2 <= p - 1, <<Run(r, i + 2, p - 1)>>)
           \o <<Bridge(v(p - 1), v(i))>>
           \o rest(v(i), p)

Piece(x) ==
  CASE x.kind = "setoff" -> Departures
    [] x.kind = "run"    -> Tree!Query(x.route.tree, x.lo, x.hi)
    [] x.kind = "bridge" -> BridgeLeaf(x.from, x.to)
    [] x.kind = "return" -> ReturnLeaf(x.from)

Along(pieces) ==
  LET along[i \in 1 .. Len(pieces)] ==
        IF i = 1 THEN Piece(pieces[1]) ELSE Compose(Piece(pieces[i]), along[i - 1])
  IN  along[Len(pieces)]

EvaluateSplice(r1, i1, j1, r2, i2, j2) ==
  IF i1 = 0 /\ i2 > j2 /\ j1 + 1 = Len(r1.vertices) THEN Infeasible   \* nothing left
  ELSE Evaluation(Along(SplicePieces(r1, i1, j1, r2, i2, j2)))

EvaluateIntraRelocate(r, i, p) == Evaluation(Along(RelocatePieces(r, i, p)))

\* the insertion scans carry the fold of the leaves before p instead of a query
Prefix(r, p) ==
  LET upto[i \in 0 .. p] ==
        IF i = 0 THEN Departures ELSE Compose(r.tree.leaves[i - 1], upto[i - 1])
  IN  upto[p]

EvaluateInsertion(r, p, c) ==
  LET m == Len(r.vertices)
      into == Compose(BridgeLeaf(Before(r, p), c), Prefix(r, p))
  IN  Evaluation(
        IF p < m
        THEN Compose(Tree!Query(r.tree, p + 1, m), Compose(BridgeLeaf(c, At(r.vertices, p)), into))
        ELSE Compose(ReturnLeaf(c), into))

-----------------------------------------------------------------------------
(* The warp forms.  A segment is a ready-time function and the lateness    *)
(* booked so far, both of the time at its start; only the horizon empties  *)
(* one.                                                                    *)
WarpHorizon ==
  Max({inst.end} \cup {Top(inst.arc[a]) : a \in {a \in DOMAIN inst.arc : ~Void(inst.arc[a])}}
      \cup IF inst.windows THEN {inst.latest[v] + inst.service[v] : v \in Stop} ELSE {})

NoSegment == [rho |-> None, omega |-> None]

WarpConcat(later, earlier) ==
  IF Void(later.rho) \/ Void(earlier.rho) THEN NoSegment
  ELSE LET rho == Compose(later.rho, earlier.rho)
       IN  IF Void(rho) THEN NoSegment
           ELSE [rho |-> rho, omega |-> Add(earlier.omega, Compose(later.omega, earlier.rho))]

OnTimeAlways(rho) ==
  [rho |-> rho, omega |-> IF Void(rho) THEN None ELSE ZeroOn(Start(rho), End(rho))]

ServeLate(v, arrival) ==
  IF Void(arrival) THEN NoSegment
  ELSE IF ~inst.windows THEN OnTimeAlways(Serve(v, arrival))
  ELSE [rho   |-> Compose(ThetaWarp(inst.earliest[v], inst.latest[v], inst.service[v], tEnd), arrival),
        omega |-> Compose(Excess(inst.latest[v], tEnd), arrival)]

HomeLate(arrival) ==
  IF ~inst.windows THEN OnTimeAlways(arrival)
  ELSE [rho   |-> Compose(Clamp(inst.latest[Depot], tEnd), arrival),
        omega |-> Compose(Excess(inst.latest[Depot], tEnd), arrival)]

(* warp_route_functions: one stop after the other; lateness is added up, and cut
   down to the departures that are left. *)
WarpFold(q) ==
  LET stop(i) == IF i = 0 THEN Depot ELSE q[i]
      Book(acc, leg) ==
        [rho |-> leg.rho, omega |-> IF inst.windows THEN Add(acc.omega, leg.omega) ELSE acc.omega]
      fold[i \in 0 .. Len(q)] ==
        IF i = 0 THEN OnTimeAlways(Departures)
        ELSE Book(fold[i - 1], ServeLate(q[i], Compose(Arc(stop(i - 1), q[i]), fold[i - 1].rho)))
      back == Book(fold[Len(q)], HomeLate(Compose(Arc(stop(Len(q)), Depot), fold[Len(q)].rho)))
  IN  IF Void(back.rho) THEN NoSegment
      ELSE [back EXCEPT !.omega = Add(@, ZeroOn(Start(back.rho), End(back.rho)))]

NotTotal == [total |-> FALSE, feasible |-> FALSE, duration |-> 0, minWarp |-> 0, penalised |-> 0]

WarpEvaluation(seg, penalty) ==
  IF Void(seg.rho) THEN NotTotal
  ELSE LET zero == MinZeroWarp(seg.rho, seg.omega)
       IN  [total |-> TRUE, feasible |-> zero.feasible, duration |-> zero.value,
            minWarp   |-> Low(seg.omega, Start(seg.omega)),
            penalised |-> MinPenalised(seg.rho, seg.omega, penalty)]

EvaluateRouteWarp(q, penalty) == WarpEvaluation(WarpFold(q), penalty)

WarpTree == INSTANCE LcaTree WITH Then <- WarpConcat

WarpBridgeLeaf(from, to) == ServeLate(to, Arc(from, to))
WarpReturnLeaf(from) == IF Void(Arc(from, Depot)) THEN NoSegment ELSE HomeLate(Arc(from, Depot))

WarpRouteLeaves(q) ==
  [i \in 0 .. Len(q) |->
     CASE i = 0      -> ServeLate(q[1], Compose(Arc(Depot, q[1]), Departures))
       [] i = Len(q) -> WarpReturnLeaf(q[i])
       [] OTHER      -> WarpBridgeLeaf(q[i], q[i + 1])]

\* the duration of a late route, its price at some weight, is never read
BuildWarpRouteState(q) ==
  LET fold == WarpFold(q)
  IN  IF Void(fold.rho) THEN NoState
      ELSE [vertices |-> q, tree |-> WarpTree!Build(WarpRouteLeaves(q)),
            minWarp  |-> Low(fold.omega, Start(fold.omega)),
            duration |-> MinZeroWarp(fold.rho, fold.omega).value]

WarpPiece(x) ==
  CASE x.kind = "setoff" -> OnTimeAlways(Departures)
    [] x.kind = "run"    -> WarpTree!Query(x.route.tree, x.lo, x.hi)
    [] x.kind = "bridge" -> WarpBridgeLeaf(x.from, x.to)
    [] x.kind = "return" -> WarpReturnLeaf(x.from)

WarpAlong(pieces) ==
  LET along[i \in 1 .. Len(pieces)] ==
        IF i = 1 THEN WarpPiece(pieces[1]) ELSE WarpConcat(WarpPiece(pieces[i]), along[i - 1])
  IN  along[Len(pieces)]

EvaluateSpliceWarp(r1, i1, j1, r2, i2, j2, penalty) ==
  IF i1 = 0 /\ i2 > j2 /\ j1 + 1 = Len(r1.vertices) THEN NotTotal
  ELSE WarpEvaluation(WarpAlong(SplicePieces(r1, i1, j1, r2, i2, j2)), penalty)

-----------------------------------------------------------------------------
(* The searches' calls. *)
Init ==
  /\ inst \in Instances
  /\ tEnd = WarpHorizon
  /\ plain  = [k \in Slots |-> NoState]
  /\ warped = [k \in Slots |-> NoState]

\* routes come and go one client at a time: what moves of several make is reached too
Wanted(states, k) ==
  LET q    == states[k].vertices
      free == Client \ Served({states[l].vertices : l \in Slots})
  IN  {Insert(q, p, c) : p \in 0 .. Len(q), c \in free}
      \cup IF Len(q) > 1 THEN {Without(q, i) : i \in DOMAIN q} ELSE {}

\* a move, an insertion, a restored route; an infeasible one changes nothing
Rebuild(k) ==
  /\ Built(warped) = {}
  /\ \E q \in Wanted(plain, k) :
       LET state == BuildRouteState(q)
       IN  /\ state # NoState
           /\ plain' = [plain EXCEPT ![k] = state]
  /\ UNCHANGED <<inst, tEnd, warped>>

\* init_warp_search; the local search builds its states again after the phase
StartSqueeze ==
  /\ Built(warped) = {} /\ Built(plain) # {}
  /\ LET states == [k \in Slots |-> IF k \in Built(plain)
                                    THEN BuildWarpRouteState(plain[k].vertices)
                                    ELSE NoState]
     IN  /\ Built(states) = Built(plain)
         /\ warped' = states
  /\ plain' = [k \in Slots |-> NoState]
  /\ UNCHANGED <<inst, tEnd>>

\* set_route: only a hard wall turns it down
RebuildWarped(k) ==
  /\ Built(warped) # {}
  /\ \E q \in Wanted(warped, k) :
       LET state == BuildWarpRouteState(q)
       IN  /\ state # NoState
           /\ warped' = [warped EXCEPT ![k] = state]
  /\ UNCHANGED <<inst, tEnd, plain>>

\* a solution without lateness goes back to the local search
EndSqueeze ==
  /\ Built(warped) # {}
  /\ \A k \in Built(warped) : warped[k].minWarp = 0
  /\ plain'  = [k \in Slots |-> IF k \in Built(warped) THEN BuildRouteState(warped[k].vertices)
                                ELSE NoState]
  /\ warped' = [k \in Slots |-> NoState]
  /\ UNCHANGED <<inst, tEnd>>

Next ==
  \/ \E k \in Slots : Rebuild(k) \/ RebuildWarped(k)
  \/ StartSqueeze
  \/ EndSqueeze

Spec == Init /\ [][Next]_vars

-----------------------------------------------------------------------------
\* all that a splice may be asked for: r1[i1 .. j1] out, r2[i2 .. j2] in
Windows(m) == {w \in (0 .. m) \X (-1 .. m - 1) : w[1] <= w[2] + 1}
SplicesOf(r1, r2) ==
  {<<r1, w, r2, v>> :
     w \in Windows(Len(r1.vertices)),
     v \in IF r1 = r2 THEN {<<1, 0>>} ELSE {x \in Windows(Len(r2.vertices)) : x[1] <= x[2]}}
Splices(states) ==
  UNION {SplicesOf(states[x[1]], states[x[2]]) : x \in Built(states) \X Built(states)}

\* the route a splice makes
Spliced(r1, w, r2, v) ==
  SubSeq(r1.vertices, 1, w[1]) \o SubSeq(r2.vertices, v[1] + 1, v[2] + 1)
  \o SubSeq(r1.vertices, w[2] + 2, Len(r1.vertices))

\* the route an intra relocation makes
Relocated(q, i, p) ==
  LET without == Without(q, i + 1)
  IN  Insert(without, IF p < i THEN p ELSE p - 1, q[i + 1])

(* A changed route is ranked, from the live trees, at what the fold will charge
   for it once it is built: by a splice, a relocation inside the route and an
   insertion, and by a splice with lateness at every weight.  The compositions
   are grouped differently, and with arcs that step the composed functions
   differ too; feasibility, duration and departure do not. *)
RankIsPrice ==
  /\ \A s \in Splices(plain) :
       LET q == Spliced(s[1], s[2], s[3], s[4])
       IN  EvaluateSplice(s[1], s[2][1], s[2][2], s[3], s[4][1], s[4][2])
             = IF q = <<>> THEN Infeasible ELSE EvaluateRoute(q)
  /\ \A k \in Built(plain) :
       LET r == plain[k]
           m == Len(r.vertices)
       IN  /\ \A i \in 0 .. m - 1 : \A p \in (0 .. m) \ {i, i + 1} :
                EvaluateIntraRelocate(r, i, p) = EvaluateRoute(Relocated(r.vertices, i, p))
           /\ \A p \in 0 .. m, c \in Client \ Members(r.vertices) :
                EvaluateInsertion(r, p, c) = EvaluateRoute(Insert(r.vertices, p, c))
  /\ \A s \in Splices(warped), penalty \in Penalties :
       LET q == Spliced(s[1], s[2], s[3], s[4])
       IN  EvaluateSpliceWarp(s[1], s[2][1], s[2][2], s[3], s[4][1], s[4][2], penalty)
             = IF q = <<>> THEN NotTotal ELSE EvaluateRouteWarp(q, penalty)

(* The squeeze and the local search agree on what is on time and what that
   costs: a route has no lateness exactly if it can be built, at the same
   duration, so a squeeze can start from every live solution and every
   solution it hands back can be taken. *)
WarpIsPlain ==
  /\ \A k \in Built(warped) :
       LET eval == EvaluateRoute(warped[k].vertices)
       IN  /\ (warped[k].minWarp = 0) = eval.feasible
           /\ eval.feasible => warped[k].duration = eval.duration
  /\ \A k \in Built(plain) :
       LET state == BuildWarpRouteState(plain[k].vertices)
       IN  /\ state # NoState
           /\ state.minWarp = 0
           /\ state.duration = plain[k].duration

(* Exchanging one client of a route by two leaf updates leaves the tree a
   rebuild makes, at every node, plain or with lateness. *)
UpdateIsRebuild ==
  /\ \A k \in Built(plain) : \A i \in DOMAIN plain[k].vertices :
       \A c \in Client \ Members(plain[k].vertices) :
         LET fresh == RouteLeaves(Exchange(plain[k].vertices, i, c))
         IN  Tree!UpdateLeaf(Tree!UpdateLeaf(plain[k].tree, i - 1, fresh[i - 1]), i, fresh[i])
               = Tree!Build(fresh)
  /\ \A k \in Built(warped) : \A i \in DOMAIN warped[k].vertices :
       \A c \in Client \ Members(warped[k].vertices) :
         LET fresh == WarpRouteLeaves(Exchange(warped[k].vertices, i, c))
         IN  WarpTree!UpdateLeaf(WarpTree!UpdateLeaf(warped[k].tree, i - 1, fresh[i - 1]), i, fresh[i])
               = WarpTree!Build(fresh)
=============================================================================

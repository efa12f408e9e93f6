----------------------------- MODULE Preprocess ------------------------------
(***************************************************************************)
(* What the bridge does to an instance before the exact solver sees it:    *)
(* capacity, service and waiting folded into the travel times, windows     *)
(* tightened, arcs removed.  Times are integers; an arrival function has   *)
(* its breakpoints there.  Vertex 0 is the start depot, N+1 its copy.      *)
(***************************************************************************)
EXTENDS Integers, FiniteSets, SequencesExt, FiniteSetsExt

CONSTANTS
  N,        \* customers
  Never     \* INFTY

Customer == 1..N
Start    == 0
End      == N + 1
Vertex   == Start..End
Arc      == {a \in Vertex \X Vertex : a[1] # a[2] /\ a[1] # End /\ a[2] # Start /\ a # <<Start, End>>}

(* A raw instance is [drive, lo, hi, service, load, room]: `drive` gives each arc
   its arrival-time function, the rest are as in the payload.  A prepared one is
   [arcs, arr, lo, hi]. *)

-----------------------------------------------------------------------------
(* preprocess_capacity *)
Loadable(raw) == {a \in Arc : raw.load[a[1]] + raw.load[a[2]] <= raw.room}

(* preprocess_service_waiting: an arrival includes the wait for the window and
   the service, a departure lies in the shifted window. *)
Folded(raw) ==
  [a \in Arc |->
     LET end(t) == Max({raw.lo[a[2]], raw.drive[a][t]}) + raw.service[a[2]]
     IN [t \in {x \in DOMAIN raw.drive[a] :
                  /\ x - raw.service[a[1]] \in raw.lo[a[1]]..raw.hi[a[1]]
                  /\ end(x) - raw.service[a[2]] <= raw.hi[a[2]]} |-> end(t)]]

Shifted(raw, w) == [v \in Vertex |-> w[v] + raw.service[v]]

-----------------------------------------------------------------------------
Image(f) == {f[t] : t \in DOMAIN f}

(* departing_time, travel_time: the latest departure that arrives at tf. *)
DepartingTime(f, tf) ==
  IF DOMAIN f = {} \/ \A t \in DOMAIN f : tf < f[t] THEN Never
  ELSE Max({t \in DOMAIN f : f[t] <= tf})

TravelTime(f, t) == IF t \in DOMAIN f THEN f[t] - t ELSE Never

LatestArrival(f, lo, hi, a) ==
  IF DepartingTime(f[a], hi[a[2]]) # Never THEN hi[a[2]]
  ELSE hi[a[1]] + TravelTime(f[a], hi[a[1]])

EarliestDeparture(f, lo, hi, a) ==
  LET dep == DepartingTime(f[a], lo[a[2]]) IN IF dep # Never THEN dep ELSE lo[a[1]]

(* preprocess_time_windows: both rules go through the customers in order and read
   the windows as they stand; then the arcs nothing can drive are removed. *)
Tightened(arcs, f, lo, hi) ==
  LET into(k) == {a \in arcs : a[2] = k}
      from(k) == {a \in arcs : a[1] = k}
      upper(h, k) == [v \in Vertex |-> IF v # k THEN h[v] ELSE
        Min({h[k], Max({lo[k]} \cup {LatestArrival(f, lo, h, a) : a \in into(k)})})]
      hiTo[k \in 0..N] == IF k = 0 THEN hi ELSE upper(hiTo[k - 1], k)
      hi2 == hiTo[N]
      lower(l, k) == [v \in Vertex |-> IF v # k THEN l[v] ELSE
        Max({l[k], Min({hi2[k]} \cup {EarliestDeparture(f, l, hi2, a) : a \in from(k)})})]
      loTo[k \in 0..N] == IF k = 0 THEN lo ELSE lower(loTo[k - 1], k)
      lo2 == loTo[N]
  IN [arcs |-> {a \in arcs : lo2[a[1]] + TravelTime(f[a], lo2[a[1]]) <= hi2[a[2]]},
      arr |-> f, lo |-> lo2, hi |-> hi2]

(* preprocess_triangle_depot: an arc on which one waits so long that a return to
   the depot costs no time is removed. *)
AfterRemoval(p) == [p EXCEPT !.arr = [a \in Arc |-> IF a \in p.arcs THEN p.arr[a] ELSE <<>>]]

ViaDepot(p, a) ==
  LET i == a[1]  j == a[2]
      home == TravelTime(p.arr[<<i, End>>], p.hi[i])
      out  == p.arr[<<Start, j>>]
      t    == p.hi[i] + home
      \* VRPInstance::TravelTime waits for the domain to open
      again == IF DOMAIN out = {} \/ t > Max(DOMAIN out) THEN Never
               ELSE LET x == Max({t, Min(DOMAIN out)}) IN out[x] - t
  IN home + again

Detoured(p) ==
  LET far(a) == a[1] # Start /\ a[2] # End /\ ViaDepot(p, a) <= p.lo[a[2]] - p.hi[a[1]]
  IN [p EXCEPT !.arcs = {a \in p.arcs : ~far(a)}]

Prepare(raw) ==
  LET arcs == Loadable(raw)
      kept == [a \in Arc |-> IF a \in arcs THEN Folded(raw)[a] ELSE <<>>]
      p    == Tightened(arcs, kept, Shifted(raw, raw.lo), Shifted(raw, raw.hi))
  IN AfterRemoval(Detoured(AfterRemoval(p)))
=============================================================================

------------------------------ MODULE Labeling -------------------------------
(***************************************************************************)
(* Bidirectional labeling, one run: two searches extend partial routes     *)
(* from either depot, prune them by dominance, meet in the middle and      *)
(* leave a pool of negative routes.  A label's duration is a function on a *)
(* set of times; where the code keeps pieces, the model keeps the integer  *)
(* times they join.  Direction 0 is forward, 1 backward.  MC instances     *)
(* keep the slopes of all functions in 0..1, so that pieces cross there.   *)
(***************************************************************************)
EXTENDS Preprocess

CONSTANTS
  Raw,            \* instances by name
  T,              \* the horizon
  Problem,        \* pricing problems
  ProcessLimit    \* process_limit: labels per turn of a direction

(* A problem names an instance, the duals P and sigma, the set `cut` of one
   subset-row cut, the forbidden arcs A, the level, closing_state, merge_start,
   solution_limit (`most`), and what else may stop the run. *)
Posed(p) ==
  /\ p.net \in DOMAIN Raw /\ p.P \in [Customer -> Int] /\ p.sigma \in Int /\ p.sigma <= 0
  /\ p.cut \subseteq Customer /\ (p.cut = {} \/ Cardinality(p.cut) = 3)
  /\ p.start \in Nat /\ p.most \in Nat \ {0} /\ p.limits \subseteq {"Time", "Memory"}

(* The payload: windows within the horizon, nothing to load or serve at a depot
   (kayros/lera/__init__.py, to_lera_payload), and arrival functions under which nobody
   arrives before leaving or overtakes (construct.h: "non-decreasing (FIFO)"). *)
Proper(raw) ==
  /\ raw.room \in Nat
  /\ {raw.lo, raw.hi, raw.service, raw.load} \subseteq [Vertex -> Nat]
  /\ \A v \in Vertex : /\ raw.lo[v] <= raw.hi[v] /\ raw.hi[v] <= T
                       /\ T + raw.service[v] < Never
                       /\ v \notin Customer => raw.service[v] = 0 /\ raw.load[v] = 0
  /\ raw.drive \in [Arc -> [0..T -> Nat]]
  /\ \A a \in Arc : \A t, s \in 0..T :
       /\ t <= raw.drive[a][t]
       /\ t <= s => raw.drive[a][t] <= raw.drive[a][s]

ASSUME LabelingAssumption ==
  /\ N \in Nat \ {0} /\ T \in Nat /\ ProcessLimit \in Nat \ {0} /\ Never \in Nat
  /\ \A p \in Problem : Posed(p)
  /\ \A k \in DOMAIN Raw : Proper(Raw[k])

VARIABLES
  prob,      \* the problem
  vrp,       \* vrp_: its instance, prepared, with legs and latest departures by direction
  q,         \* q: by direction, lazy labels
  U,         \* U: by direction, the labels processed
  M,         \* M: by direction, those of the turns that have ended
  turn,      \* P: labels of the current turn
  tm,        \* t_m
  dir,       \* direction whose turn it is
  processed, \* this round processed a label
  count,     \* forward_log->processed_count
  pool,      \* S: set of customers to the best known order and its duration
  status,
  hit,       \* limits reached
  pc
vars == <<prob, vrp, q, U, M, turn, tm, dir, processed, count, pool, status, hit, pc>>

Dir == {0, 1}

-----------------------------------------------------------------------------
(* reverse_instance *)
From(d) == IF d = 0 THEN Start ELSE End
To(d)   == IF d = 0 THEN End ELSE Start
Turned(a) == <<a[2], a[1]>>

Open(p, d, v)  == IF d = 0 THEN p.lo[v] ELSE T - p.hi[v]
Close(p, d, v) == IF d = 0 THEN p.hi[v] ELSE T - p.lo[v]

Mirror(p, a) ==
  LET f == p.arr[Turned(a)]
  IN {<<T - f[t], T - t>> : t \in DOMAIN f}
       \cup {<<s, T - Max(DOMAIN f)>> : s \in Open(p, 1, a[1])..(T - Max(Image(f)) - 1)}

(* The legs from u to v: departure and arrival, several arrivals where one waits. *)
LegTable(p) ==
  [d \in Dir |-> [u \in Vertex |-> [v \in Vertex |->
     IF d = 0
     THEN IF <<u, v>> \in p.arcs THEN {<<t, p.arr[<<u, v>>][t]>> : t \in DOMAIN p.arr[<<u, v>>]} ELSE {}
     ELSE IF <<v, u>> \in p.arcs THEN Mirror(p, <<u, v>>) ELSE {}]]]

(* compute_latest_departure_time: the latest departure from v that still reaches w by
   the end of its window. *)
LDTTable(p, legs) ==
  [d \in Dir |-> [w \in Vertex |->
     LET into(s) == UNION {{<<u, x[1]>> : x \in {y \in legs[d][u][s[1]] : y[2] <= s[2]}} :
                              u \in Vertex}
         \* departures <<v, t>> that reach w in time, over at most i arcs
         reach[i \in 0..N + 1] == IF i = 0 THEN {<<w, Close(p, d, w)>>}
                                  ELSE UNION {{s} \cup into(s) : s \in reach[i - 1]}
         all == reach[N + 1]
     IN [v \in Vertex |-> Max({-Never} \cup {s[2] : s \in {x \in all : x[1] = v}})]]]

Prepared ==
  [k \in DOMAIN Raw |->
     LET p == Prepare(Raw[k])  legs == LegTable(p)
     IN [arcs |-> p.arcs, arr |-> p.arr, lo |-> p.lo, hi |-> p.hi,
         legs |-> legs, ldt |-> LDTTable(p, legs)]]

OpenAt(d, v)  == Open(vrp, d, v)
CloseAt(d, v) == Close(vrp, d, v)
Legs(d, a)    == vrp.legs[d][a[1]][a[2]]
Allowed(d) == {a \in Vertex \X Vertex :
                 Legs(d, a) # {} /\ (IF d = 0 THEN a ELSE Turned(a)) \notin prob.A}
Unreachable(d, v, t) == {w \in Vertex : t > vrp.ldt[d][w][v]}

Departures(L) == {e[1] : e \in L}
Arrivals(L)   == {e[2] : e \in L}

(* VRPInstance::TravelTime, PreTravelTime, ArrivalTime *)
TimeFrom(L, t) ==
  IF t > Max(Departures(L)) THEN Never
  ELSE Min({e[2] : e \in {x \in L : x[1] >= t}}) - t
TimeTo(L, t) ==
  IF t < Min(Arrivals(L)) THEN Never ELSE t - Max({e[1] : e \in {x \in L : x[2] <= t}})

-----------------------------------------------------------------------------
Inner(path) == Range(path) \cap Customer
CutCost(n)  == IF n >= 2 THEN prob.sigma ELSE 0
Demand(v)   == Raw[prob.net].load[v]
Profit(v)   == IF v \in Customer THEN prob.P[v] ELSE 0
Hits(v)     == IF v \in prob.cut THEN 1 ELSE 0

(* A label: path, duration by time, unreachable vertices U, demand q, profit p and
   visits n to the cut. *)
At(l)      == Last(l.path)
Parent(l)  == Front(l.path)
Rw(l)      == DOMAIN l.dur
MinCost(l) == Min(Image(l.dur)) - l.p - CutCost(l.n)

(* ExtensionStep.  It may yield nothing. *)
DepotTriangle(d, l, v) ==
  LET u == At(l)  t == Max(Rw(l)) IN
  /\ t < OpenAt(d, v)
  /\ {<<u, To(d)>>, <<From(d), v>>} \subseteq Allowed(d)
  /\ TimeFrom(Legs(d, <<u, To(d)>>), t) + TimeTo(Legs(d, <<From(d), v>>), OpenAt(d, v))
       < OpenAt(d, v) - t

Extended(d, l, v) ==
  LET legs == {e \in Legs(d, <<At(l), v>>) : e[1] \in Rw(l) /\ (d = 0 => e[2] <= tm[0])}
      path == Append(l.path, v)
      dur  == [t \in Arrivals(legs) |->
                 Min({l.dur[e[1]] + t - e[1] : e \in {x \in legs : x[2] = t}})]
  IN IF legs = {} \/ DepotTriangle(d, l, v) THEN {}
     ELSE {[path |-> path, dur |-> dur,
            U |-> Range(path) \cup Unreachable(d, v, Min(Arrivals(legs))),
            q |-> l.q + Demand(v), p |-> l.p + Profit(v), n |-> l.n + Hits(v)]}

Rooted(d) ==
  LET times == {t \in OpenAt(d, From(d))..CloseAt(d, From(d)) :
                  d = 0 => t <= tm[0]}
  IN IF times = {} THEN {}
     ELSE {[path |-> <<From(d)>>, dur |-> [t \in times |-> 0],
            U |-> {From(d)} \cup Unreachable(d, From(d), Min(times)),
            q |-> 0, p |-> 0, n |-> 0]}

Completed(d, e) == IF e.parent = <<>> THEN Rooted(d) ELSE Extended(d, e.parent[1], e.v)

-----------------------------------------------------------------------------
(* theta of DominationStep: m's lead, less the cuts m has half paid. *)
Theta(l, m) ==
  l.p + CutCost(l.n) - m.p - CutCost(m.n) - (IF m.n = 1 /\ l.n # 1 THEN prob.sigma ELSE 0)

(* DominatePieces: past m's last time, m waits.  What is left of l is closed: a
   time stays if a unit of time next to it does. *)
Worse(l, m, t) ==
  LET end == Max(Rw(m)) IN
  \/ t \in Rw(m) /\ l.dur[t] >= m.dur[t] + Theta(l, m)
  \/ t > end /\ l.dur[t] >= m.dur[end] + (t - end) + Theta(l, m)

Survivors(l, m) ==
  IF Cardinality(Rw(m)) = 1 /\ Cardinality(Rw(l)) > 1 THEN Rw(l)
  ELSE {t \in Rw(l) : \E s \in {t - 1, t, t + 1} \cap Rw(l) : ~Worse(l, m, s)}

(* The dominators in the order of the bounds: by demand, then by minimum cost. *)
Rivals(d, l) ==
  LET beta == Max(Image(l.dur)) - l.p - CutCost(l.n) IN
  {m \in U[d] : /\ At(m) = At(l) /\ m.q <= l.q /\ MinCost(m) <= beta
                /\ prob.level = "Elementarity" \/ m.U \subseteq l.U}

Before(m1, m2) ==
  \/ m1.q < m2.q
  \/ m1.q = m2.q /\ MinCost(m1) < MinCost(m2)

Left(d, l) ==
  LET R == Rivals(d, l)
      first(S) == CHOOSE m \in S : \A o \in S : ~Before(o, m)
      trim(s, m) == [left |-> IF s.left = {} \/ prob.level = "Cost" THEN {}
                              ELSE Survivors([l EXCEPT !.dur = [t \in s.left |-> l.dur[t]]], m),
                     rest |-> s.rest \ {m}]
      after[i \in 0..Cardinality(R)] ==
        IF i = 0 THEN {[left |-> Rw(l), rest |-> R]} ELSE {trim(s, first(s.rest)) : s \in after[i - 1]}
  IN UNION {s.left : s \in after[Cardinality(R)]}

Undominated(d, l) ==
  IF At(l) = To(d) THEN {x \in {l} : MinCost(l) < 0}
  ELSE {[l EXCEPT !.dur = [t \in S |-> l.dur[t]]] : S \in {Left(d, l)} \ {{}}}

(* EnumerationStep *)
Onward(d, l, a) ==
  /\ At(l) # To(d) /\ a[1] = At(l)
  /\ l.q + Demand(a[2]) <= Raw[prob.net].room
  /\ Min(Rw(l)) <= Max(Departures(Legs(d, a)))
Lazy(d, l, a) ==
  [parent |-> <<l>>, v |-> a[2],
   makespan |-> IF d = 1 THEN Min(Rw(l)) ELSE TimeFrom(Legs(d, a), Min(Rw(l))) + Min(Rw(l))]

Extensions_Cyclic(d, l) ==   \* mutant: what has been visited is visited again
  {Lazy(d, l, a) : a \in {x \in Allowed(d) : Onward(d, l, x)}}

Extensions(d, l) ==
  {Lazy(d, l, a) : a \in {x \in Allowed(d) : Onward(d, l, x) /\ x[2] \notin l.U}}

(* LabelExtensionComparator; equal entries come in any order. *)
Rank(e) ==
  <<e.makespan, IF e.parent = <<>> THEN 0 ELSE Len(e.parent[1].path),
    IF e.parent = <<>> THEN 0 ELSE e.parent[1].q>>
Precedes(a, b) ==
  \/ a[1] < b[1]
  \/ a[1] = b[1] /\ (a[2] < b[2] \/ (a[2] = b[2] /\ a[3] < b[3]))
Tops(Q) == {e \in Q : \A o \in Q : ~Precedes(Rank(o), Rank(e))}

-----------------------------------------------------------------------------
(* Merge: the cheapest meeting of a forward and a backward label at their common
   vertex, if they meet at all. *)
Meeting(l, m) ==
  LET mt == {T - t : t \in Rw(m)} IN
  IF Min(mt) >= Max(Rw(l))
  THEN {l.dur[Max(Rw(l))] + m.dur[Max(Rw(m))] + Min(mt) - Max(Rw(l))}
  ELSE {l.dur[t] + m.dur[T - t] : t \in Rw(l) \cap mt}

(* The bound both merges test before they try. *)
Promising_AnyLoad(l, m) ==   \* mutant: the two loads are not added up
  MinCost(m) + MinCost(l) + Profit(At(l)) + CutCost(l.n) - CutCost(l.n - Hits(At(l))) < 0

Promising(l, m) ==
  /\ l.q + m.q - Demand(At(l)) <= Raw[prob.net].room
  /\ MinCost(m) + MinCost(l) + Profit(At(l)) + CutCost(l.n) - CutCost(l.n - Hits(At(l))) < 0

Joined(l, m) == l.path \o Reverse(Parent(m))

(* The routes the merge of a pair adds; x is one of the labels the code calls l,
   y the other (in the iterative merge of a backward turn l is the backward one). *)
Merged(x, y) ==
  LET fw == IF x.path[1] = Start THEN x ELSE y
      bw == IF x.path[1] = Start THEN y ELSE x
      cost(dur) == dur - x.p - y.p + Profit(At(x)) - CutCost(x.n - Hits(At(x)) + y.n)
      meet == Meeting(fw, bw)
  IN IF /\ Promising(x, y)
        /\ Min(Rw(x)) <= T - Min(Rw(y))
        /\ Range(x.path) \cap Range(y.path) = {At(x)}
        /\ meet # {} /\ cost(Min(meet)) < 0
     THEN {[path |-> Joined(fw, bw), dur |-> Min(meet)]}
     ELSE {}

(* AddSolution: of a set of customers the pool keeps the shortest order; a tie goes
   to whichever comes first. *)
Added_First(P, C) ==   \* mutant: the first order of a set is never replaced
  P \cup {c \in C : \A o \in P : Inner(o.path) # Inner(c.path)}

Added(P, C) ==
  LET of(V) == {c \in C \cup P : Inner(c.path) = V}
      best(V) == CHOOSE c \in of(V) : \A o \in of(V) : c.dur <= o.dur
  IN {best(Inner(c.path)) : c \in C \cup P}

(* pool_size: the pool that R makes has one route per set of customers. *)
Size(R)   == Cardinality({Inner(r.path) : r \in R})
Filled(R) == IF Size(R) >= prob.most THEN {"Solutions"} ELSE {}

(* What the merges of C come to: the deadline stops them anywhere, a full pool when
   it is full. *)
Tried(C) ==
  IF "Time" \in hit THEN {F \in SUBSET C : Size(pool \cup F) <= prob.most}
  ELSE IF Size(pool \cup C) < prob.most THEN {C}
  ELSE {F \in SUBSET C : Size(pool \cup F) = prob.most}

-----------------------------------------------------------------------------
Init ==
  /\ prob \in Problem /\ vrp = Prepared[prob.net]
  /\ q = [d \in Dir |-> {[parent |-> <<>>, v |-> From(d), makespan |-> OpenAt(d, From(d))]}]
  /\ U = [d \in Dir |-> {}] /\ M = [d \in Dir |-> {}] /\ turn = {}
  /\ tm = [d \in Dir |-> T]
  /\ dir = 0 /\ processed = FALSE /\ count = 0
  /\ pool = {} /\ status = "DidNotStart" /\ hit = {}
  /\ pc = "head"

(* The loop over the two directions, and the loop around it. *)
AfterTurn_Endless(moved) ==   \* mutant: the loop does not ask whether a label was processed
  IF dir = 0 THEN dir' = 1 /\ processed' = moved /\ pc' = "head"
  ELSE dir' = 0 /\ processed' = FALSE /\ pc' = "head"

AfterTurn(moved) ==
  IF dir = 0 THEN dir' = 1 /\ processed' = moved /\ pc' = "head"
  ELSE dir' = 0 /\ processed' = FALSE /\ pc' = IF moved THEN "head" ELSE "last"

Skip ==
  /\ pc = "head" /\ q[dir] = {}
  /\ AfterTurn(processed)
  /\ UNCHANGED <<prob, vrp, q, U, M, turn, tm, count, pool, status, hit>>

Stop ==
  /\ pc = "head" /\ q[dir] # {} /\ hit # {}
  /\ status' = IF "Time" \in hit THEN "TimeLimitReached"
               ELSE IF "Solutions" \in hit THEN "SolutionLimitReached" ELSE "MemoryLimitReached"
  /\ dir' = 0 /\ processed' = FALSE
  /\ pc' = IF processed THEN "head" ELSE "last"
  /\ UNCHANGED <<prob, vrp, q, U, M, turn, tm, count, pool, hit>>

Enter ==
  /\ pc = "head" /\ q[dir] # {} /\ hit = {}
  /\ turn' = {} /\ pc' = "mono"
  /\ UNCHANGED <<prob, vrp, q, U, M, tm, dir, processed, count, pool, status, hit>>

(* MonodirectionalLabeling::Run: a turn ends at an empty queue, after ProcessLimit
   labels, at a limit, or (forward) at the first arrival past the middle. *)
TurnOver ==
  \/ q[dir] = {}
  \/ Cardinality(turn) >= ProcessLimit
  \/ hit # {}
  \/ dir = 0 /\ \A e \in q[0] : e.makespan > tm[0]

(* One lazy label.  The code would put a forward label back that starts past the
   middle, but ExtensionStep has left nothing of such a label. *)
Pop ==
  /\ pc = "mono" /\ ~TurnOver
  /\ \E e \in Tops(q[dir]) :
       \E new \in {UNION {Undominated(dir, l) : l \in Completed(dir, e)}} :
         /\ q' = [q EXCEPT ![dir] = (@ \ {e}) \cup
                     UNION {Extensions(dir, l) : l \in {x \in new : Min(Rw(x)) <= tm[dir]}}]
         /\ U' = [U EXCEPT ![dir] = @ \cup new]
         /\ turn' = turn \cup new
         /\ count' = IF dir = 0 THEN count + Cardinality(new) ELSE count
  /\ UNCHANGED <<prob, vrp, M, tm, dir, processed, pool, status, hit, pc>>


(* The turn's labels meet those of the other side (IterativeMerge), complete
   forward routes enter the pool, and the middle moves. *)
Met == IF prob.closing \/ count < prob.start THEN {}
       ELSE UNION {Merged(x[1], x[2]) :
              x \in {y \in turn \X M[1 - dir] : At(y[1]) = At(y[2])}}

Complete == {[path |-> l.path, dur |-> Min(Image(l.dur))] :
               l \in {x \in turn : dir = 0 /\ At(x) = End /\ MinCost(x) < 0}}

Middle ==
  IF q[dir] = {} THEN [tm EXCEPT ![dir] = T - tm[1 - dir]]
  ELSE LET top == Min({e.makespan : e \in q[dir]})
       IN [tm EXCEPT ![1 - dir] = Min({@, Max({T - tm[dir], T - top})})]

EndTurn ==
  /\ pc = "mono" /\ TurnOver
  /\ M' = IF prob.closing THEN M ELSE [M EXCEPT ![dir] = @ \cup turn]
  /\ \E C \in Tried(Met) : /\ pool' = Added(pool, C \cup Complete)
                           /\ hit' = hit \cup Filled(pool \cup C \cup Complete)
  /\ tm' = Middle
  /\ turn' = {}
  /\ AfterTurn(processed \/ turn # {})
  /\ UNCHANGED <<prob, vrp, q, U, count, status>>

(* LastArcMerge: what the forward queue still holds meets the backward labels that
   came over the same arc. *)
Crossing ==
  UNION {Merged(x[1].parent[1], x[2]) : x \in
    {y \in q[0] \X U[1] : /\ y[1].parent # <<>> /\ Len(y[2].path) > 1
                          /\ At(y[2]) = At(y[1].parent[1])
                          /\ Last(Parent(y[2])) = y[1].v}}

LastArc ==
  /\ pc = "last"
  /\ pc' = IF hit \cap {"Time", "Solutions"} # {} \/ status = "MemoryLimitReached"
           THEN "end" ELSE "crossing"
  /\ UNCHANGED <<prob, vrp, q, U, M, turn, tm, dir, processed, count, pool, status, hit>>

Cross ==
  /\ pc = "crossing" /\ pc' = "end"
  /\ \E C \in Tried(Crossing) : pool' = Added(pool, C) /\ hit' = hit \cup Filled(pool \cup C)
  /\ status' = IF "Time" \in hit THEN "TimeLimitReached" ELSE status
  /\ UNCHANGED <<prob, vrp, q, U, M, turn, tm, dir, processed, count>>

(* BestDurationRoute on the prepared instance. *)
Arrive(f, t) == IF t \in DOMAIN f THEN f[t] ELSE Never
Walk(path, t0) ==
  LET at[i \in 1..Len(path)] ==
        IF i = 1 THEN t0 ELSE Arrive(vrp.arr[<<path[i - 1], path[i]>>], at[i - 1])
  IN at[Len(path)]

BestDuration(path) ==
  Min({Never} \cup {Walk(path, t) - t : t \in
         {x \in vrp.lo[Start]..vrp.hi[Start] : Walk(path, x) # Never}})

(* The pool, repriced, is what the run returns; the deadline cuts that short, too. *)
Repriced == {[r EXCEPT !.dur = BestDuration(r.path)] : r \in pool}

Return ==
  /\ pc = "end" /\ pc' = "done"
  /\ status' = IF status = "MemoryLimitReached" THEN status
               ELSE IF "Solutions" \in hit THEN "SolutionLimitReached"
               ELSE IF status = "DidNotStart" THEN "Finished" ELSE status
  /\ pool' \in IF "Time" \in hit THEN SUBSET Repriced ELSE {Repriced}
  /\ UNCHANGED <<prob, vrp, q, U, M, turn, tm, dir, processed, count, hit>>

(* The deadline passes, the watermark trips. *)
Expire ==
  /\ pc # "done"
  /\ \E x \in prob.limits \ hit : hit' = hit \cup {x}
  /\ UNCHANGED <<prob, vrp, q, U, M, turn, tm, dir, processed, count, pool, status, pc>>

Done == pc = "done" /\ UNCHANGED vars

Step == Skip \/ Stop \/ Enter \/ Pop \/ EndTurn \/ LastArc \/ Cross \/ Return
Next == Step \/ Expire \/ Done
Spec == Init /\ [][Next]_vars

(* The weak fairness of Step, spelled out: until it is done the run has a next step. *)
FairSpec == Spec /\ ([]<><<Step>>_vars \/ []<>(pc = "done"))

-----------------------------------------------------------------------------
Path == {<<Start>> \o p \o <<End>> : p \in
           {x \in UNION {[1..n -> Customer] : n \in 1..N} : IsInjective(x)}}
Using(A) == {p \in Path : \E i \in 1..Len(p) - 1 : <<p[i], p[i + 1]>> \in A}

(* What a path costs the checker, on the raw instance. *)
Serve(v, t) ==
  LET raw == Raw[prob.net]
  IN IF t > raw.hi[v] THEN Never ELSE Max({raw.lo[v], t}) + raw.service[v]
Driven(path, t0) ==
  LET at[i \in 1..Len(path)] ==
        IF i = 1 THEN t0
        ELSE Serve(path[i], Arrive(Raw[prob.net].drive[<<path[i - 1], path[i]>>], at[i - 1]))
  IN at[Len(path)]

(* What a route loads, earns and has of the cut: sums along it. *)
Along(f, path) ==
  LET sum[i \in 0..Len(path)] == IF i = 0 THEN 0 ELSE sum[i - 1] + f[path[i]]
  IN sum[Len(path)]

Load(path)  == Along([v \in Vertex |-> Demand(v)], path)
Duals(path) == Along([v \in Vertex |-> Profit(v)], path)
InCut(path) == Along([v \in Vertex |-> Hits(v)], path)

Checked(path) ==
  IF Load(path) > Raw[prob.net].room THEN Never
  ELSE Min({Never} \cup {Driven(path, t) - t : t \in
             {x \in Raw[prob.net].lo[Start]..Raw[prob.net].hi[Start] : Driven(path, x) # Never}})

ReducedCost(path) == Checked(path) - Duals(path) - CutCost(InCut(path))
Negative == {p \in Path : Checked(p) # Never /\ ReducedCost(p) < 0}

(* Types.  A label's path is elementary and its times lie within the horizon
   (label.h, monodirectional_labeling.h). *)
LabelOK(d, l) ==
  /\ l.path[1] = From(d) /\ IsInjective(l.path) /\ Range(l.path) \subseteq Vertex
  /\ Rw(l) # {} /\ Rw(l) \subseteq 0..T
  /\ Range(l.path) \subseteq l.U /\ l.U \subseteq Vertex

TypeOK ==
  /\ prob \in Problem /\ vrp = Prepared[prob.net]
  /\ \A d \in Dir : /\ \A l \in U[d] : LabelOK(d, l)
                    /\ M[d] \subseteq U[d]
                    /\ \A e \in q[d] : e.parent # <<>> => e.parent[1] \in U[d]
  /\ turn \subseteq U[dir]
  /\ tm \in [Dir -> 0..T] /\ dir \in Dir /\ processed \in BOOLEAN /\ count \in Nat
  /\ status \in {"DidNotStart", "Finished", "TimeLimitReached", "MemoryLimitReached",
                 "SolutionLimitReached"}
  /\ hit \subseteq prob.limits \cup {"Solutions"}
  /\ pc \in {"head", "mono", "last", "crossing", "end", "done"}

(* Whatever the labeling returns, in either state, at any level and after any limit, is
   a route the checker accepts at the cost stated, negative, over no forbidden arc; and
   while it searches, no merge has promised less than the route can deliver
   (bidirectional_labeling.cpp, Merge and AddSolution). *)
PoolSound ==
  \A r \in pool : LET real == Checked(r.path) IN
     /\ r.path \in Path /\ real # Never
     /\ r.path \notin Using(prob.A)
     /\ IF pc = "done" THEN r.dur = real ELSE r.dur >= real
     /\ r.dur - Duals(r.path) - CutCost(InCut(r.path)) < 0

(* Under a branch the routes to price are those of the prepared arcs. *)
Target == IF prob.A = {} THEN Negative
          ELSE Negative \ Using(prob.A \cup (Arc \ vrp.arcs))

(* A route that may as well stop at the depot on its way: at some point two routes do
   what it does in no more time together. *)
Stops(p) == {<<Append(SubSeq(p, 1, i), End), <<Start>> \o SubSeq(p, i + 1, Len(p))>> : i \in 2..Len(p) - 2}
Stopover(p) == \E h \in Stops(p) : Checked(h[1]) + Checked(h[2]) <= Checked(p)

(* Two routes of the same reduced cost that begin, or end, with the same customer. *)
Alike(p, o) == p[2] = o[2] \/ p[Len(p) - 1] = o[Len(o) - 1]
Tied(o) == \E p \in Target \ {o} : Alike(p, o) /\ ReducedCost(p) = ReducedCost(o)

(* An Exact run in the opening state that merges from its first turn on and finishes
   undisturbed by a limit has the most negative route, as the ladder takes it
   (lera_bridge.cpp, run_ladder_and_add): whatever was dominated, left in a queue,
   replaced in the pool or removed with its arcs.  Two routes are exceptions, and any
   that are dearer: one that may as well stop at the depot, for then its halves are
   enough; and one that ties with a route alike, for dominance is not strict and may
   trim the labels of each by the other's. *)
Cheapest ==
  pc = "done" /\ status = "Finished" /\ prob.level = "Exact" /\ hit = {}
  /\ ~prob.closing /\ prob.start <= ProcessLimit =>
     \A p \in Target :
       \/ \E r \in pool : ReducedCost(r.path) <= ReducedCost(p)
       \/ \E o \in Target : ReducedCost(o) <= ReducedCost(p) /\ (Stopover(o) \/ Tied(o))

(* The same of every run, as the comment at bidirectional_labeling.cpp:370 has it:
   "'Finished' is the caller's proof that pricing was exhaustive". *)
FinishedIsProof ==
  pc = "done" /\ status = "Finished" /\ prob.level = "Exact" /\ pool = {} => Target = {}

(* The two searches and their merges come to an end. *)
Terminates == <>(pc = "done")
=============================================================================

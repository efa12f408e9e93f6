---------------------------- MODULE FleetDescent ----------------------------
(***************************************************************************)
(* fleet_descent and the loop of attempts around it.  An attempt dissolves *)
(* a route into a pool and drains the pool: a client popped is inserted    *)
(* where it fits; failing that the squeeze may make room; failing that it  *)
(* takes the place of a window of consecutive clients, the ones that were  *)
(* least often hard to place, and these go to the pool.  A dead end, a     *)
(* spent budget or the deadline undoes the attempt.                        *)
(*                                                                         *)
(* The vector of routes is the set of its elements.  The trees rank (an    *)
(* evaluation Ranked), the fold decides (Route); prices are left out, so   *)
(* any of several candidates may be the cheapest.                          *)
(***************************************************************************)
EXTENDS Clients, RouteSurgery, FiniteSetsExt

CONSTANTS Route,       \* routes the checker fold accepts
          Ranked,      \* routes within capacity the trees accept
          Near,        \* is_neighbour in the granular lists
          Entered,     \* solutions a phase is entered with
          Rescued,     \* sets of routes squeeze_insert may come back with
          KMax, EpBudget, FdAttempts,   \* k_max, ep_budget, fd_attempts
          MaxPhases,   \* bounds the model
          Configs

ConfigShape ==
  [smallest  : BOOLEAN,    \* route_choice = 1
   difficult : BOOLEAN,    \* pop_order = 1
   ladder    : BOOLEAN,    \* sq_ladder
   capped    : BOOLEAN,    \* fd_work_cap > 0
   restricted : BOOLEAN]   \* num_neighbours > 0

Complete(S) ==
  /\ S \subseteq Route /\ IsFiniteSet(S)
  /\ Packed(S)
  /\ Served(S) = Client

ASSUME FleetAssumption ==
  /\ Route \subseteq Seq(Client) \ {<<>>}
  /\ Near \subseteq Client \X Client
  /\ Entered # {} /\ \A S \in Entered : Complete(S)
  /\ \A S \in Rescued : S \subseteq Route /\ IsFiniteSet(S) /\ Packed(S)
  /\ KMax \in Nat /\ EpBudget \in Nat /\ FdAttempts \in Nat /\ MaxPhases \in Nat
  /\ Configs \subseteq ConfigShape

VARIABLES
  cfg,              \* parameters, fixed at the start
  pc,
  routes, pool,     \* ss.states, the ejection pool
  snap,             \* vertices snapshot of the attempt
  pcount,           \* difficulty counters, kept over attempts and phases
  left,             \* pops left to the attempt (budget)
  spent, expired,   \* the work budget of the phase, the deadline
  attempt, phases

attemptVars == <<routes, pool, snap, left>>
clocks      == <<spent, expired>>
fleetVars   == <<cfg, pc, attemptVars, pcount, clocks, attempt, phases>>

-----------------------------------------------------------------------------
FleetInit ==
  /\ cfg \in Configs
  /\ pc = "Out"
  /\ routes \in Entered
  /\ pool = <<>> /\ snap = {} /\ left = 0
  /\ pcount = [c \in Client |-> 0]
  /\ spent = FALSE /\ expired = FALSE
  /\ attempt = 0 /\ phases = 0

Tick ==
  /\ pc # "Out" /\ ~expired
  /\ expired' = TRUE
  /\ UNCHANGED <<cfg, pc, attemptVars, pcount, spent, attempt, phases>>

(* run_fleet_descent, on whatever solution the search has come to. *)
Trigger ==
  /\ pc = "Out" /\ ~expired /\ phases < MaxPhases
  /\ pc' = "Trying"
  /\ routes' \in Entered
  /\ spent' = FALSE /\ attempt' = 0
  /\ phases' = phases + 1
  /\ UNCHANGED <<cfg, pool, snap, left, pcount, expired>>

MayTry == attempt < FdAttempts /\ ~spent /\ ~expired

GiveUp ==
  /\ pc = "Trying" /\ ~MayTry
  /\ pc' = "Out"
  /\ UNCHANGED <<cfg, attemptVars, pcount, clocks, attempt, phases>>

TooFew_Uncounted ==   \* mutant: tried again and again
  /\ pc = "Trying" /\ MayTry /\ Cardinality(routes) < 2
  /\ UNCHANGED fleetVars

TooFew ==
  /\ pc = "Trying" /\ MayTry /\ Cardinality(routes) < 2
  /\ attempt' = attempt + 1
  /\ UNCHANGED <<cfg, pc, attemptVars, pcount, clocks, phases>>

Victims == {q \in routes : cfg.smallest => \A s \in routes : Len(q) <= Len(s)}

Dissolve ==
  /\ pc = "Trying" /\ MayTry /\ Cardinality(routes) >= 2
  /\ \E victim \in Victims : pool' = victim /\ routes' = routes \ {victim}
  /\ snap' = routes
  /\ left' = EpBudget
  /\ pc' = "Drain"
  /\ attempt' = attempt + 1
  /\ UNCHANGED <<cfg, pcount, clocks, phases>>

-----------------------------------------------------------------------------
RollBack_Incomplete ==   \* mutant: the routes drained so far stay as they are
  /\ pool' = <<>>
  /\ pc' = "Trying"
  /\ UNCHANGED routes

(* restore_states: the attempt returns false. *)
RollBack ==
  /\ routes' = snap
  /\ pool' = <<>>
  /\ pc' = "Trying"

Abort ==
  /\ pc = "Drain" /\ pool # <<>>
  /\ spent \/ expired \/ left = 0
  /\ RollBack
  /\ UNCHANGED <<cfg, snap, pcount, left, clocks, attempt, phases>>

(* The last client of the pool; difficult-first prefers the first of those with
   the most failures, if it has more than the last. *)
Hardest == {i \in DOMAIN pool : \A j \in DOMAIN pool : pcount[pool[j]] <= pcount[pool[i]]}
Picked(i) ==
  IF cfg.difficult /\ Len(pool) \notin Hardest
  THEN i \in Hardest /\ \A j \in Hardest : i <= j
  ELSE i = Len(pool)

Popping_Unbounded == pc = "Drain" /\ pool # <<>> /\ ~spent /\ ~expired   \* mutant: budget forgotten
Popping == pc = "Drain" /\ pool # <<>> /\ ~spent /\ ~expired /\ left > 0

(* Pricings are charged to the work budget, if there is one. *)
Pop(i) ==
  /\ Popping
  /\ Picked(i)
  /\ left' = left - 1
  /\ spent' \in IF cfg.capped THEN BOOLEAN ELSE {FALSE}
  /\ UNCHANGED <<cfg, snap, expired, attempt, phases>>

Rest(i) == Without(pool, i)

(* insertion_candidates: the best that the fold accepts, if any. *)
Places(c) == {x \in UNION {{q} \X (0 .. Len(q)) : q \in routes} :
                Insert(x[1], x[2], c) \in Ranked \cap Route}

PlacePopped(i) ==
  /\ Pop(i)
  /\ \E x \in Places(pool[i]) :
       routes' = (routes \ {x[1]}) \cup {Insert(x[1], x[2], pool[i])}
  /\ pool' = Rest(i)
  /\ UNCHANGED <<pc, pcount>>

(* squeeze_insert: the routes rearranged around the client, none opened. *)
Rescue(i) ==
  /\ Pop(i)
  /\ cfg.ladder /\ Places(pool[i]) = {}
  /\ routes' \in {S \in Rescued : /\ Served(S) = Served(routes) \cup {pool[i]}
                                  /\ Cardinality(S) <= Cardinality(routes)}
  /\ pool' = Rest(i)
  /\ UNCHANGED <<pc, pcount>>

(* The windows of at most k_max clients that c may replace, on routes its lists
   reach; the least troublesome of them. *)
Reached(c, q) == cfg.restricted => \E v \in Members(q) : <<c, v>> \in Near
Ejectable(c) ==
  {w \in UNION {{q} \X (DOMAIN q) \X (DOMAIN q) : q \in {q \in routes : Reached(c, q)}} :
     /\ w[2] <= w[3] /\ w[3] - w[2] < KMax
     /\ Replace(w[1], w[2], w[3], c) \in Ranked}

Trouble(w) == MapThenSumSet(LAMBDA i : pcount[w[1][i]], w[2] .. w[3])
Least(c) == {w \in Ejectable(c) : \A x \in Ejectable(c) : Trouble(w) <= Trouble(x)}

CountFailure(c) == pcount' = [pcount EXCEPT ![c] = @ + 1]

Eject(i) ==
  /\ Pop(i)
  /\ Places(pool[i]) = {} /\ <<pool[i]>> \in Route
  /\ CountFailure(pool[i])
  /\ \E w \in Least(pool[i]) :
       LET next == Replace(w[1], w[2], w[3], pool[i]) IN
       /\ next \in Route
       /\ routes' = (routes \ {w[1]}) \cup {next}
       /\ pool' = Rest(i) \o SubSeq(w[1], w[2], w[3])
  /\ UNCHANGED pc

(* No window, or the fold rejects the one chosen. *)
DeadEnd(i) ==
  /\ Pop(i)
  /\ Places(pool[i]) = {}
  /\ CountFailure(pool[i])
  /\ \/ <<pool[i]>> \notin Route
     \/ Ejectable(pool[i]) = {}
     \/ \E w \in Least(pool[i]) : Replace(w[1], w[2], w[3], pool[i]) \notin Route
  /\ RollBack

Success ==
  /\ pc = "Drain" /\ pool = <<>>
  /\ pc' = "Out"
  /\ UNCHANGED <<cfg, attemptVars, pcount, clocks, attempt, phases>>

Step ==
  \/ GiveUp \/ TooFew \/ Dissolve
  \/ \E i \in DOMAIN pool : PlacePopped(i) \/ Rescue(i) \/ Eject(i) \/ DeadEnd(i)
  \/ Abort \/ Success

FleetNext == Trigger \/ Tick \/ Step
FleetSpec == FleetInit /\ [][FleetNext]_fleetVars /\ WF_fleetVars(Step)

-----------------------------------------------------------------------------
(* Types; the pop budget is never overdrawn. *)
TypeOK ==
  /\ cfg \in Configs
  /\ pc \in {"Out", "Trying", "Drain"}
  /\ routes \subseteq Route /\ snap \subseteq Route
  /\ pool \in Seq(Client)
  /\ pcount \in [Client -> Nat]
  /\ left \in 0 .. EpBudget
  /\ spent \in BOOLEAN /\ expired \in BOOLEAN
  /\ attempt \in 0 .. FdAttempts /\ phases \in 0 .. MaxPhases

(* Every client is on one route at one position or once in the pool, through
   every insertion, rescue, ejection and roll-back. *)
NothingLost ==
  /\ Packed(routes)
  /\ Simple(pool)
  /\ Served(routes) \cap Members(pool) = {}
  /\ Served(routes) \cup Members(pool) = Client

(* A phase is all or nothing: it gives back the solution it got, or a complete one
   with fewer routes. *)
Drop == INSTANCE RouteDrop
  WITH Complete <- Complete, sol <- IF pc = "Drain" THEN snap ELSE routes, running <- pc # "Out"

DropContract == Drop!Spec

(* Every phase ends: clients are not ejected round and round. *)
PhaseEnds == pc = "Trying" ~> pc = "Out"
=============================================================================

# KAYROS, specified

KAYROS solves time-dependent vehicle routing problems: a fleet leaves one depot,
every customer is served once, and the travel time of an arc depends on the
moment of departure. It has two engines behind one Python package. The heuristic
engine (`cpp/core`, `cpp/ls`, `cpp/heuristics`) is an iterated local search with
an ant colony beside it; the exact engine (`cpp/lera`) is a branch-cut-and-price.
Both are single-threaded searches that publish a stream of improving solutions
through a callback and stop at a deadline.

This directory holds TLA+ models of the control of both engines, the TLC
configurations that check them on small instances, and TLAPS proofs of their main
properties for every instance.

| module | what it is |
|---|---|
| `AnytimeStream` | what a caller may rely on: incumbents strictly improve, respect the cap, and the result agrees with the stream |
| `LocalSearch` | `ls_descend` on a live state: four operators on routes, staleness epochs, and what the driver does to that state |
| `LocalSearchMC`, `LocalSearch.cfg` | an instance of `LocalSearch` |
| `LocalSearchProofs` | theorems about `LocalSearch` |
| `Clients` | the clients to serve, a constant that `FleetDescent` and `RouteEval` share |
| `RouteSurgery` | routes as sequences and the vector surgery the searches share |
| `CommonLemmas` | lemmas: least members, induction and recursion on intervals, which clients each piece of surgery leaves on a route |
| `Squeeze` | `squeeze_phase` and `squeeze_insert`: the penalised search, its bank, its stamps |
| `SqueezeMC`, `Squeeze.cfg` | an instance of `Squeeze` |
| `SqueezeProofs` | theorems about `Squeeze` |
| `RouteDrop` | what a fleet-descent phase promises: all or nothing |
| `FleetDescent` | ejection pool, ladder of insertions, budgets, roll-back |
| `FleetDescentMC`, `FleetDescent.cfg` | an instance of `FleetDescent` |
| `Ils` | `solve_ils`: seeds, descents, fleet-descent phases, restart, kick, acceptance, cap, deadline |
| `IlsMC`, `Ils.cfg` | instances of `Ils` |
| `Master` | the data of the set-partitioning master: columns, cuts, linear programs as sets of points, branching on arcs |
| `Bcp` | `BCP::Run` and all it calls: nodes, column generation, pricing, cuts, strong branching, primal heuristic, limits |
| `BcpMC`, `Bcp*.cfg` | instances of `Bcp` |
| `Pricing` | `Bcp` with its pricing pass opened up: the ladder of labeling levels, fingerprints, smoothing, limits |
| `PricingMC`, `Pricing.cfg` | an instance of `Pricing` |
| `PricingProofs` | theorems about `Bcp` and `Pricing` |
| `Preprocess` | what the bridge does to an instance before the exact solver sees it |
| `Labeling` | one bidirectional labeling run on a prepared instance |
| `LabelingMC`, `Labeling*.cfg` | instances of `Labeling` |
| `LabelingProofs` | theorems about `Labeling`: labels, pool, and which routes are never missed |
| `LabelingBestProofs` | the last of them, that the cheapest route is such a route |
| `Pwlf` | piecewise-linear functions of time: composition, minima, the lateness channel |
| `LcaTree` | the tree of partial compositions over the leaves of a route |
| `RouteEval` | what a route costs and what a changed route would: folds, leaves, splices, with and without lateness |
| `RouteEvalMC`, `RouteEval.cfg` | instances of `RouteEval` |
| `RouteProofs` | theorems about `RouteEval` and `FleetDescent` |
| `Colony` | `solve_aco` |
| `Solve` | `kayros.solve`: the strategies, `Colony` and `Ils` composed, the merged stream |
| `SolveMC`, `Solve.cfg` | an instance of `Solve` |
| `SolveProofs` | theorems about `Ils` and `Solve` |

Two specifications are abstract. `Ils`, `Bcp` and `Solve` implement `AnytimeStream`,
`FleetDescent` implements `RouteDrop`. Two modules refine or compose others: a pass of
`Pricing` implements the pricing step of `Bcp`, and `Solve` runs `Colony` and `Ils` one after the other.
TLC checks each of these, and TLAPS proves them.

## 1. The system

### 1.1 Components

**Core** (`cpp/core`). Instances, piecewise-linear arrival functions, and the
evaluation of a route: compose the arcs' arrival functions, then minimise arrival
minus departure. A route state keeps a tree of partial compositions so that
a splice costs a few compositions whatever the length. No state outlives a call except that tree
and a cached table of deletion values. The squeeze has a second form of all this, in which a late
arrival is moved back to the deadline and the excess booked in a function beside. Hard: four
evaluations of the same route (fold and tree, plain and with lateness) that the searches
take for one. Correct when they agree on what is feasible, at what duration and from which departure.

**Local search** (`cpp/ls/local_search.cpp`, `ls.h`). State: the routes, and the
staleness arrays `touched[client]`, `last_tested[operator][client]`, `epoch`.
Operations: four passes (relocate, intra, swap, 2-opt*), each commits the first
improving move or stamps what it enumerated; `ls_descend` cycles through them until
a whole cycle finds nothing or the deadline passes; `mark_all_touched` forces
everything to be enumerated again. Hard: a stamp that outlives the solution it was
made for hides moves. Correct when every skipped move has been found
unprofitable in the state at hand.

**Kick** (`cpp/ls/perturb.cpp`). Removes a few clients, reinserts each at its best
place, sometimes dissolves a whole route; undoes a draw that fails, and tries again.

**Fleet descent** (`cpp/ls/fleet_descent.cpp`). Ejection chains that empty a victim
route; a failed attempt restores a snapshot. **Squeeze** (`cpp/ls/squeeze.cpp`): a
descent through time-window violations that keeps the best feasible states passed.

**ILS driver** (`cpp/heuristics/ils.cpp`, `construct.cpp`). State: the live search
state, the best routes, three prices (`curr`, `best`, `published`), the
late-acceptance ring, iteration and work counters, the snapshot taken before the
kick. Calls all of the above. Hard: five places change the live solution and each
must keep prices, stamps, best, stream and counters in step by hand, with the
deadline between any two of them.

**Ant colony** (`cpp/heuristics/aco.cpp`). Pheromone matrix, ants built one after
another, the local search on the best; publication like the ILS; the clock is read
once per iteration.

**Python API** (`src/kayros/solve.py`). Chooses a strategy, composes colony and ILS
in `aco+ils` with two time slices and one merged stream, has the result priced again
by the reference checker.

**BCP driver** (`cpp/lera/main/src/bcp/bcp.cpp`). State: the queue of open nodes,
bounds, best integer solution, execution log. Processes the root, then takes the node
of least bound, branches on an arc by strong branching, processes both children.

**SPF** (`bcp/spf.cpp`, `bcp.cpp` cut code). The restricted master: columns, subset-row
cuts, and the forbidden arcs of the node at hand kept as upper bounds 0 of the columns
that use them, updated incrementally.

**Column generation** (`goc/src/linear_programming/colgen/colgen.cpp`). Solve the
master, price, repeat; the status and the last value go into a log the caller reads.

**Bridge** (`cpp/lera/bridge/lera_bridge.cpp`). Seeds the master with a route per
customer and the warm start; prices with a ladder of relaxations, heuristic levels
first; smooths the duals; filters repeated columns and routes the checker rejects;
turns the monitor's deadline and watermark into statuses.

**Labeling** (`cpp/lera/main/src/labeling`). Mono- and bidirectional dynamic programming
that returns routes of negative reduced cost: the pool keeps one per customer set.

**Python exact mode** (`src/kayros/lera/__init__.py`). Converts the log, stamps the
certificate on the status, prices the result with the checker.

**Deadline and memory watermark** (`goc/base/memory_monitor.h`, `past()` lambdas).
Conditions polled by everybody. They rise once and for good, except that the watermark is global to
the process: another solve that starts resets it.

**Preprocessing** (`cpp/lera/main/src/preprocess`). One pass over the instance before the exact solve:
capacity, service and waiting folded into arrival times, windows tightened, arcs removed. Correct when no
solution is lost and no price changes.

**Vendored and thin code**: HiGHS and CPLEX wrappers, JSON, logging, bindings. No control of
their own, except statuses.

### 1.2 Interactions

One thread runs a solve from the binding to its return; the interpreter lock is
released meanwhile. Everything is a synchronous call. What makes the order of events
uncertain is the clock (read in more than twenty places), memory, the random generator,
and, in the exact engine, which columns a pricing pass happens to find and which of
several optimal bases the LP solver happens to return. The models take all five
as arbitrary.

### 1.3 What makes each component correct

* Driver, either engine: the stream contract of `AnytimeStream`; termination.
* ILS: prices describe the solutions they stand for; stamps certify the live solution;
  the cap, once reached, is never lost; late acceptance does not drift; a new best is
  polished.
* BCP: the master is the node's at each LP; the lower bound is one; "Optimum" is an
  optimum; limits are never read as exhaustion.
* Local search: skipped moves are unprofitable. Fleet descent and kick: a failed attempt
  changes nothing. Squeeze: only a better feasible state is adopted.
* Pricing: a pass that adds nothing has shown that there is nothing to add, or says that it was cut short.
* Route evaluation: a candidate is ranked at what it will be charged; no lateness means feasible.
* Labeling: what it returns is what the checker would price; a run that finishes has found the most negative route.
* API: the merged stream is a stream, its last element is the result, and the second phase keeps to the time limit.

The hazards behind these properties are in `PROJECT.json`, each at its line.

## 2. `Ils`

### State and actions

A solution is an element of `Sol` with a route count `K` and a price `Cost`. What a
step of the driver can tell about a solution is exactly these two numbers, so a descent,
a kick or an ejection phase is a step to another solution constrained by what the
component guarantees:

* a descent goes to a solution that is cheaper and has no more routes, or stays
  (`Downhill`; all four operators preserve or reduce the number of routes, and
  `commit_two` demands a strictly smaller fold);
* a kick goes anywhere, or undoes itself;
* the fleet descent's attempts lower the route count or leave the state as it was;
* a squeeze is adopted only if strictly better.

The staleness arrays are kept as what they stand for: `stamps` is `NoStamps` when some client
must be retested, else the solution and neighbourhood (granular or exhaustive)
whose last cycle found nothing. A descent entered with stamps is idle, as in the code,
where `compute_retest` gives empty masks.

`pc` names the points of the function between which the clock may pass the deadline:
one action per phase. `run_fleet_descent` is called from three places; `ret` is its
return address.

| action | code (`cpp/heuristics/ils.cpp` unless said) |
|---|---|
| `GreedySeed`, `WarmSeed`, `SeedFails` | the seed: greedy construction or `initial_routes` |
| `Split` | `split_to_k` |
| `SeedDescend`, `SeedPolish` | first descent and its exhaustive polish, first `best` |
| `FdDrain`, `FdDescend`, `FdPolish`, `FdSqueeze`, `FdJudge` | `run_fleet_descent` |
| `Drain`, `DrainBack` | the seed drain toward the cap |
| `Stop`, `Continue`, `Restart`, `RestartFd`, `RestartReset` | loop head and restart-to-best |
| `Period`, `PeriodWork` | the two periodic fleet-descent triggers |
| `Kick`, `KickDescend`, `Judge`, `NewBest`, `Accept` | one iteration |
| `Finish` | the capped return contract and the final status |
| `Tick` | the deadline passes |

`max_iterations` bounds the model and is a parameter of the code. Work counters
(`work_units`) are kept as two conditions, "the window has elapsed", which only a
descent that prices candidates can raise.

### Runs

| run | configuration | shows |
|---|---|---|
| `ils` | solutions of up to 3 routes and 3 prices; four parameter records: plain duration with split seed and ring of two; fleet search with squeeze and both work windows; capped with deadline; warm-started and capped with a periodic phase | type, prices, cap, stamps, drift, polish, stream contract, termination |

Bounds. Three prices and three route counts are enough to have a candidate better than
best, between best and the live solution, and worse, each with more, equal or fewer
routes, on either side of a cap of 1 or 2. Three iterations with a ring of two let a slot be
written, read and rewritten, and let a restart fall between. The proofs remove these bounds
for every safety property.

### Fairness

`WF_vars(Step)`: one thread runs the search and takes a step whenever one is
enabled. Nothing is assumed of the clock: `Tick` is not fair, and termination holds when the deadline
never comes, from `max_iterations` and from the no-progress break of the seed drain.

### Proofs (first part of `SolveProofs`)

From `SolAssumption` (routes and prices are naturals), `StampAssumption`, `EmptyAssumption`
(the tags differ from real values) and `ConfigAssumption` (any set of parameter records):

| theorem | property |
|---|---|
| `Typing` | `TypeOK` |
| `PricesInStep` | `CurrPricesState` |
| `CapHolds`, `CapIsMonotone` | `CappedForever`, `CapMonotone` |
| `StampsSound`, `BestIsPolished` | `StampsCertifyLive`, `PolishedBest` |
| `DriftIsBounded` | `DriftBounded` |
| `IlsImplementsStream` | `AnytimeContract` |

The properties speak of loop points; none is inductive. The invariant is built in layers,
each proved over the ones below: `Shape` (types, and which variables are set at which
control point), `Prices` (which of `curr`, `best` price what *inside* a phase:
after a drop and before the judgement `curr` is stale, and only `FdJudge` mends it),
`Link` (the last incumbent, `best` and `routes`: equal where the stream is exact, and
otherwise ordered), `Stamped` (stamps and the snapshot's stamps certify their own
solutions), `Bounded` (what the snapshot's price and route count say of the cap
and of the ring). `DescentDown`, `PublishTypes`, `AdoptLinks` summarise the shared
operators; refinement goes step by step through `StreamStep`: only a publication moves
the stream, only `Finish` or `SeedFails` moves the outcome.

`Terminates` is only model-checked: liveness under fairness is outside the prover.

## 3. `LocalSearch`

`Ils` takes a descent as one step and its stamps as a certificate. This module opens that
step and says why the certificate can be trusted.

### State and actions

Routes are sequences of clients, held in slots: a slot with `<<>>` is a route the vector
does not have. Erasing an emptied route keeps the order of the others, which is all the
passes depend on. Which sequences are feasible (`Route`) and what they cost (`Cost`, a
duration with its fixed cost) are constants, so are the granular lists (`Near`, symmetric as
`build_neighbour_lists` makes them). The staleness arrays are as in the code: `touched` per
client, `tested` per operator and client, one `epoch`.

| definition | code (`cpp/ls/local_search.cpp` unless said) |
|---|---|
| `Relocations`, `IntraRelocations`, `Swaps`, `TailSwaps` | the moves each pass enumerates, with the clients that must be due (`keys`) and the pairs the lists must join (`seams`) |
| `Retest` | `compute_retest` |
| `Improves` | the checks before `commit_two` and its strict comparison of repriced routes |
| `Commit`, `Stamp` | `commit_two`, `stamp_clean_pass` |
| `Pass`, `Expire` | the four passes and the clock between them (`ls_descend`) |
| `MarkAllTouched`, `Fresh` | `mark_all_touched`, `init_search_state` |
| `Kick` | `perturb` and the snapshot before it (`perturb.cpp`, `ils.cpp`) |
| `FleetDrop`, `Restart`, `Polish` | what `ils.cpp` does around a drained route, a restart and a new best |
| `Keep`, `Reject` | acceptance, `restore_snapshot` |

A pass may commit any improving move it enumerates, so the result does not depend on the
order of enumeration. `kScreenEps` and the second pricing by the left fold are left out: prices
are naturals and one arithmetic. A squeeze that is adopted is a `Restart` followed by the steps of
`FleetDrop`. The ranking of insertion positions and the draws of a kick are arbitrary.

### Properties and run

| property | meaning |
|---|---|
| `TypeOK` | types; no stamp is ahead of the epoch, in the live state and the snapshot |
| `ServedOnce` | every client is on exactly one route at one position |
| `LocalOptimum` | a descent the deadline did not cut ends where no move of any operator improves, as far as its lists justify the move |
| `DescentEnds` | every descent ends |

The run `local_search` has four customers, routes of up to three of them limited by which arcs are
in time, three slots, a list relation that leaves one customer without neighbours, and
granular and exhaustive lists both. `MaxCalls = 2` allows a kick after a rejected kick, a drop
after a kick, a restart before either; `MaxRemovals = 1` is enough for ruined routes to keep
clients behind. The table of arcs was chosen so that there are local optima with three routes,
that kicks are rejected and kept, and that forgetting to stamp the clients of a ruined route
loses an improving move.

Fairness is `WF_vars(Descend)`: a descent is a loop of one thread. Callers are not assumed to
act.

### Proofs (`LocalSearchProofs`)

`Typing` and `DescentsAreOptimal` (`LocalOptimum`), from `RouteAssumption` and `NearAssumption`, for every
set of clients, routes and prices, any number of calls and any size of kick. The inductive part is
`Covered`: every justified improving move has a key that is due for a retest. It has to hold for
the granular lists at all times, also while exhaustive ones are in use (their stamps
serve the next granular descent), and in the snapshot. Two facts carry it:

* `ChangeCovers`: if every client of every changed route is touched, `Covered` is kept. A move between unchanged
  routes was there before; any other has a seam with one end in a touched route, and the other
  end, by symmetry of the lists, is a key (`MoveParts`). Commits, kicks and
  `mark_all_touched` are instances. For a kick the routes before *and* after must be touched.
* `CleanLeavesNone`: a pass that found nothing among the due clients left no improving move at all, so
  its stamps hide nothing.

`EverybodyServedOnce` (`ServedOnce`) says client by client what surgery on sequences does, with the lemmas of
`CommonLemmas`. `Tidy` is `ServedOnce` seen from the routes: none holds a client twice, no two share one, and
together they hold all. For each operator, the two new sides of a move share out the clients of the two old ones
(`Shares`; `RelocationShares`, `SwapShares`, `TailSwapShares`), or one route keeps its own (`IntraKeeps`); the other
routes are not touched, so `Tidy` is kept (`MoveVisits`). Kicks, ruins and restarts bring in routes of
`RouteAssumption`; a rejected kick brings back the snapshot, and `Kempt` says that it is tidy as well.

`DescentEnds` (liveness) is only model-checked.

## 4. `FleetDescent`

`Ils` takes the attempts of a fleet-descent phase as one step that leaves the solution or
gives one with fewer routes. This module is that step from the inside.

### State and actions

`RouteSurgery` has routes as sequences of clients, with the surgery on vectors that
`fleet_descent.cpp` and `squeeze.cpp` share: `Without`, `Insert`, `Replace`, `Exchange`. The vector of routes is the
set of its elements: no decision depends on its order except which of several equal
candidates comes first, and that is left open. State: `routes`, the `pool`, the `snap`shot of the attempt, the difficulty
counters `pcount` (kept over attempts and phases), the pop budget `left`, the flags "the work
budget is spent" and "the deadline is past", and the number of the attempt.

The code ranks candidates with splice trees and commits through a left fold; the two may disagree. So
there are two sets of routes: `Ranked`, which the trees accept, and `Route`, which the fold accepts. An insertion
falls back to the next candidate when the fold refuses, an ejection rolls the attempt back.
Prices of candidates are left out: any candidate may be the cheapest.

| action | code (`cpp/ls/fleet_descent.cpp` unless said) |
|---|---|
| `Trigger`, `GiveUp` | the attempt loop of `run_fleet_descent` (`ils.cpp`) |
| `TooFew`, `Dissolve` | no second route; victim, snapshot, pool |
| `Abort` | loop head: spent work, deadline, spent pops |
| `PlacePopped` | rung 1: insertion (`insertion.cpp`) |
| `Rescue` | rung 2: `squeeze_insert`, adopted if every route rebuilds |
| `Eject` | rung 3: the least troublesome window gives way |
| `DeadEnd` | no window, or the fold refuses the one chosen |
| `Success` | the pool is empty |
| `RollBack` | `restore_states` |

`Pop` and `Picked` are the parts every pop shares: the last client of the pool, or the first of the hardest ones.
`Rescued` are the sets of routes a squeeze may come back with. What `Rescue` asks of one (same
clients and the popped one, no more routes) is what `Squeeze` proves of `squeeze_insert` (`Outcome`).

### Properties and run

| property | meaning |
|---|---|
| `TypeOK` | types; the pop budget is not overdrawn |
| `NothingLost` | each client is on one route at one position, or once in the pool |
| `DropContract` | `RouteDrop`: a phase hands back its input or a complete solution with fewer routes |
| `PhaseEnds` | every phase ends |

`RouteDrop` says "fewer", where `fleet_descent.h:75` says "by exactly one": mending a route in a rescue
can empty another one when the triangle inequality fails, and then the attempt drops two.

The run `fleet_descent` has five clients, every complete solution of at most three routes as input, four
parameter records that between them have each switch on, windows of up to two clients, four pops, two attempts,
two phases. The arcs are not transitive, so a dissolved route may fit nowhere without ejecting,
a subsequence of a route need not be a route, and clients eject each other in a circle until the pops
run out. Tree and fold disagree on one route each way.

Fairness is `WF_vars(Step)`: one thread. `Trigger` is the caller's and not fair.

### Proofs (`RouteProofs`, last part)

From `FleetAssumption`, for any clients, routes, budgets and any disagreement of tree and fold: `Typing`, `NothingLostHolds`
(`NothingLost`) and `FleetDescentDrops` (`DropContract`). The invariant `Unbroken` is `TypeOK`, `NothingLost` and
`AllOrNothing`: outside an attempt the solution is complete and the pool empty; inside, the snapshot is complete
and has more routes than are left. `NothingLost` alone is not inductive: a roll-back needs the snapshot, a success needs
the count. `RouteChanges` is the one argument behind insertion and ejection: one route is
exchanged for another, the popped client enters, the set `D` leaves for the pool.
`PhaseEnds` is only model-checked. These proofs stand in one module with those of `RouteEval`, with which
`FleetDescent` shares its clients and no variable; hence the names `FleetInit`, `FleetNext` and `FleetSpec`.

`CommonLemmas` proves, index by index, which clients each operation leaves and that none is doubled
(`WithoutVisits`, `InsertVisits`, `ReplaceVisits`, `ExchangeVisits`, `StretchVisits`, `JoinVisits`), and
two facts on sets of routes without common clients (`Repacked`, `ServedRest`). Insertion and replacement are both
instances of `Put`, so the index arithmetic is done once.

## 5. `Squeeze`

### State and actions

A behaviour is one call, of either function. Routes within capacity and horizon (`Route`) have a penalised
price for each leg (`Penalised`); those without lateness are `Timely`. The warp arithmetic is behind
these constants: that the tree ranks at the fold's price, and that `Timely` is what the local search can take over,
are `RankIsPrice` and `WarpIsPlain` of section 9. `ws` maps the routes under
search to their epochs (`route_epoch`), `stamp` are the client stamps. The work budget has three values: above
the reserve that the explore leg leaves to the repair leg, within it, spent; every pricing may lower it.

| action | code (`cpp/ls/squeeze.cpp`) |
|---|---|
| `CutShort`, `RoundEnds` | ends of `descend`, and what `squeeze_phase` does then (`EndLeg`) |
| `Skip`, `Move`, `NoMove` | one client of a round: not due; a move committed; stamped |
| `Finish` | the bank, or failure |
| `ForceGuest` | `squeeze_insert`: the guest enters at the place of least rise |
| `Mend` | the best improving move out of a late route |
| `Mended`, `Stuck` | no lateness left; no budget or no move left |
| `Tick` | the deadline passes (legs read it at every `PollEvery`-th client) |

The order in which a client's moves are looked at is arbitrary, so `Move` commits any improving one. Ties of
`Cheapest` and `Best` are open. A scan in `Mend` that the budget ends part-way keeps the best of what it has seen, which may
be any improving move. `squeeze_insert` is given no deadline by its caller and reads none.

### Properties and run

| property | meaning |
|---|---|
| `TypeOK` | types; no route or client is stamped ahead of the epoch (proved, in no run) |
| `NothingLost` | the routes under search visit the clients of the call, each once |
| `Outcome` | success: timely routes, the same clients and the guest, no more routes, and from a phase cheaper; failure: the input |
| `ExploreOptimal` | an explore leg whose last round committed nothing has no improving move left |
| `RepairOptimal` | the same of the repair leg: **does not hold** and is in no run, see section 11 |
| `Returns` | a call returns, whatever the budget and the deadline |

Run `squeeze`: four clients, routes of up to three with time windows that make many of them late, every call on
complete solutions and every insertion of one missing client, granular lists and full ones, any cut. `PollEvery = 2` (64 in the code) puts
a poll both inside and outside a round of four.

Fairness is `WF_vars(Step)`. `Returns` does not rest on budget or deadline: penalised prices fall with each commit.

### Proofs (`SqueezeProofs`)

From `SqueezeAssumption` and `CallAssumption`, for any routes, prices, lists and calls:

| theorem | property | carried by |
|---|---|---|
| `Typing` | `TypeOK` | `Base`: types, and what a call is |
| `NothingLostHolds` | `NothingLost` | `Held`: and the routes do not grow in number (`MovedKeeps`, `HeldForce`) |
| `OutcomeHolds` | `Outcome` | `Kept`: whatever is banked is good; asks that the objective be an integer (`Priced`) |
| `ExploreIsOptimal` | `ExploreOptimal` | `Stamped`: between two routes a client's stamp covers no move of it improves; `Quiet`: a round without commits leaves no client due behind it |

`Stamped` holds because a commit gives both changed routes a new epoch, above every stamp: moves between routes that
are still covered are old moves. It speaks of the explore weight, and that is why it says nothing for the repair leg.
`Returns` is only model-checked.

## 6. `Master` and `Bcp`

### State and actions

A column is a route: the customers it visits and its arcs. Prices and feasibility of routes
are data. The linear programs are kept as their candidate solutions: `Point` is a set of
fractional covers, each with the columns of its support and a price; the points with weights 0 and 1
are `Partition`. A restricted master over columns `C` and cuts `R` is the set of points
living on `C` that no cut removes; the solver returns *any* cheapest one. That keeps what
the search depends on (monotonicity in columns, cuts, forbidden arcs; ties; infeasibility)
and no arithmetic. `PointAssumption` states the one fact about fractional points the code
relies on: a point that is not a partition has an arc between customers of fractional flow.

A node is its set of forbidden arcs. `fixed` is kept next to `forbidden` because the code
updates column bounds incrementally, and `MasterMatchesNode` is about just that.

| action | code |
|---|---|
| `Root`, `NextChild` | `ProcessNode` entered (`bcp.cpp`), `SetForbiddenArcs` (`spf.cpp`) |
| `Solve`, `SolveAborted` | an iteration of `SolveCG` and its deadline check (`colgen.cpp`) |
| `PriceOut` | the pricing lambda and ladder (`lera_bridge.cpp`), as one pass; `Pricing` opens it |
| `Cut`, `CutEnd` | root cuts after pricing |
| `Settle` | `ProcessNode` after column generation: abort, infeasible, integer, fathomed, open |
| `Freeze` | `FreezeHeuristic`: the integer program over the columns at hand |
| `Stop`, `Take` | the loop of `Run`: limits, best-bound pop, pruning |
| `Branch`, `BranchAborted`, `ChildrenDone` | `BranchNode` with strong branching on the `STRONG_BRANCH_SIZE` arcs it tries (`Tried`; any, where the code takes those nearest to 1/2) |
| `Finish` | the end of `Run`: status, final bound |
| `Tick` | a time or memory limit is reached, and stays so (the limit on solutions is a guard of `Stop`, read off the pool by `Filled`) |
| `Rearm` | another solve in the process clears the watermark (`memory_monitor.h:34-39`, through `lera_bridge.cpp:142`) |

A pricing pass may add any set of columns that are not in the master and are allowed at the
node: the heuristic levels return some, the exact level stops at a solution
limit. It may end empty only when the exact level is exhausted (`Priced`: no cheaper point of the
complete master at this node), when a limit cut it short, or without either; then `poisoned` is set. What can bring that
about is in section 7: `checker_infeasible_columns > 0` is one cause. A smoothed pass prices at other duals and may add a column that is not negative.

`starved` is a history variable: some node was dropped without a proof. Either its *restricted* master was
infeasible while its complete one was not, or its fractional arcs are none of `D.Arcs()` and there is nothing to branch on.

A configuration has the arcs `graph` that preprocessing left and the columns `given` by the caller. Columns the caller gives may use
arcs outside the graph, for they are priced and checked on the raw instance, and they count as a bound only if they are a partition. A
seed column the checker rejects stays in the master at an artificial price of `Infty` or more. Cuts are violated by a margin
(`Violated`), not by any amount (`CutOff`): the loop over cuts may end although one is violated by less.

### Runs

| run | configuration | shows |
|---|---|---|
| `bcp` | four customers, nine routes (`Split`): one child holds the optimum, the other stays fractional above; seven parameter records: both limits, a cut with a deadline, a warm start, a node limit, a shared watermark, and graphs that have lost one arc or all arcs between customers, with columns given over them; one seed column is artificial, and strong branching takes one arc of two | type, master of the node, lower bound, certificate, stream contract |
| `bcp_bound` | `Split`, deadline | the reported bound after a time limit need not be one (finding) |
| `bcp_optimum` | `Four`, no limits | "Optimum" need not be optimal (finding) |

Bounds. `Point` is all half-integral exact covers of the routes given, which includes the odd-cycle
fractional optima that branching and subset-row cuts exist for. The tables were
chosen so that the root is fractional for some orders of columns and integral for others, that both
children survive or one, and that depth two is reached. One cut is enough for a cut to
be added before and after columns arrive.

### Fairness

The runs of `Bcp` check safety and use `Spec`. That the search ends is checked in the run `pricing`, where a pass
takes as many steps as it does in the code, under `FairPSpec = PSpec /\ WF_pvars(PStep)`, for the same reason as above;
limits are never assumed to be reached.

### Proofs (first part of `PricingProofs`)

From `ColumnAssumption` (routes are elementary; arcs lie on the visited customers),
`PointAssumption` and `BcpAssumption`, for every set of columns and parameters:

| theorem | property |
|---|---|
| `Typing` | `TypeOK` |
| `NodeMaster` | `MasterMatchesNode` |
| `BoundIsLower` | `LowerBound` |
| `OptimumCertified` | `CertifiedOptimum` |
| `BcpImplementsStream` | `AnytimeContract` |

`Base` is `TypeOK` with the state each control point expects (`Ready`). `Sound` is the argument of
branch and bound: `NothingLost` says that every partition cheaper than `zub`
is still allowed at some place (the node in hand, the node being branched, a child to come, an open
node), unless the run is aborted, starved or poisoned; `SoundBounds` that the
bound of each open node is below everything its complete master holds; `LowerBound`,
`Endings` and `CertifiedOptimum` follow them. The lemmas that carry
it: `BranchCovers` (a partition avoids the arc or avoids every competing arc, so one child
keeps it: elementarity and disjoint routes are used here), `FullHolds` (a partition
survives cuts and lives in the complete master of a node that allows it), `Carried` (a
step that only moves nodes between places loses nothing).

That the search ends is only model-checked (`Terminates`, in the run `pricing`).

## 7. `Pricing`

### State and actions

`Bcp` takes a pricing pass as one step and says what it guarantees. This module is that pass from the inside; every
other step is `Bcp`'s (`Elsewhere`). What a run of the labeling returns is still arbitrary within what `Labeling` is about:
`Plausible` (one route per set of customers, over allowed arcs, and at the true duals no column the master holds,
except `Dust`). No more is known of most runs. Of one that is `Sure`, an Exact run that is opening and merges from its first turn on and whose
pool is not full, `LabelingBestProofs` shows that it has the most negative route unless that ties with one alike (`CheapestFound`):
at the true duals it is `Telling`, some route is news if the linear program is not solved.

`merge` is what `closing_state` and `merge_start` make of the next run. An Exact run that finishes with columns makes the
later ones merge over their last arcs only; every run moves `merge_start` half-way to the number of labels it processed, so that later runs merge late unless they
are short; an Exact level without news resets both. `FinishedIsProof` (section 8) shows that a closing or late run can finish empty-handed with a
negative route left. A pass that ends without news on an Exact run that is not sure, or had to break a tie, is therefore `doubtful`: a history variable, of
which the program keeps no record.

| action | code (`cpp/lera/bridge/lera_bridge.cpp`) |
|---|---|
| `Begin` | the pricing lambda: smoothed duals once there is a centre |
| `LadderStop`, `RunLevel` | the head of the ladder's loop, its two polls |
| `Level`, with `Insert`, `Climb` | `run_one_level`, `add_columns` and the escalation |
| `Misprice` | a smoothed pass without news is repeated at the true duals |
| `EndPass` | abort statuses written into the CG log, the columns handed over |
| `Forget` | another solve clears the watermark (`Rearm`); the run under way may have seen it tripped |

A `Phantom` is a path the labeling prices though no vehicle can drive it: those of `Vague` are dropped by the
pool's own repricing without a trace, the others are rejected by the checker and counted. `rejected` is the count
(`checker_infeasible_columns > 0`). `lost` is a history variable for what no caller can see: a phantom
dropped without a trace, or a pass cut short by a watermark that another solve has since reset. That second case
is real: the interpreter lock is released (`lera_module.cpp:50`), the monitor is global to the process, and the
sticky flag is cleared by the next solve to start.

The rolling of the smoothing centre (`lera_bridge.cpp:301-324`, `339-352`) is an arbitrary choice of duals: a smoothed pass may
return anything. So the position-by-position matching of cut duals to a centre of another length cannot
harm a certificate, whatever it computes, as long as the misprice pass follows.

### Properties and run

| property | meaning |
|---|---|
| `LadderTypeOK` | types; the ladder never stands past Exact (proved, in no run) |
| `Spec` | a pass is a pass of `Bcp`, a step at the ladder is a stutter: a pass without news has priced everything, met a limit, or set `poisoned` for one of its reasons |
| `Certificate` | a run that ends "Optimum", counts no rejected column, has not starved or lost anything, and has no doubtful pass is optimal |
| `Terminates` | every run ends: the fingerprints allow finitely many columns |

What `Certificate` says and what it does not: smoothed duals, lower levels, pools full of known columns, rejected routes and limits that come
and go cannot turn an unfinished pricing into an "Optimum", if each node's last run is sure. It is no guarantee for the certificates of
whole solves. A pass that adds columns at the Exact level leaves the closing state on, so the run that then certifies is a closing one, and
after two heuristic levels `merge_start` is rarely within the first turn. Such passes are doubtful and `Certificate` says nothing of them.
Neither `~lost` nor `~doubtful` can be left out (section 11).

`Terminates` is checked on graphs that keep the arcs of every column. With columns over removed arcs the search may not end (section 11).

The run `pricing` has three customers and six routes; a pool of two is full (`solution_limit` is 3000 by default). `PassConfigs` are
three parameter records: time and memory limits with a cut and smoothing, a shared watermark, phantoms. `MCDust` are two
routes of two customers, so that an Exact level can return a full pool that the master already holds. Larger instances
multiply orders of arrival without new cases, because the pass only sees which of its routes are news.

### Proofs (`PricingProofs`)

| theorem | property |
|---|---|
| `LadderTyping` | `LadderTypeOK` |
| `PassImplementsSearch` | `Spec`: a pass is a pricing step of `Bcp`, whose passes end proved, cut short or poisoned; hence all that is proved of `Bcp` holds with the pass opened |
| `ColumnsOnce` | `Fingerprints`: a column is added once |
| `UnmarkedCertifies` | `Certificate`: from the refinement, `OptimumCertified` of section 6, and `poisoned => rejected \/ lost \/ doubtful` |

`PricingAssumption` only types the constants; what is taken from the labeling is `Sure(R) /\ Telling(R)` in `Level`, a disjunct beside which an Exact run may
return anything and be doubtful. The invariant `PInv` says what a pass has established at each of its points: at `Landed` without news
at the true duals, the linear program is solved, or the pass was cut short, or something was rejected or lost, or it is doubtful (`LevelWorks`).
`EndPassPrices` turns this into the guard of `Bcp`'s `PriceOut`.

## 8. `Preprocess` and `Labeling`

### State and actions

`Preprocess` has no state. Its operators take a raw instance (arrival functions, windows, service, loads) through the
passes the bridge runs, in their order (`Prepare`). Times are integers, so a function is a map on a set of times. The
window pass reads windows it has already changed, hence the folds over the customers.

`Labeling` is one `BidirectionalLabeling::Run` on such an instance, with both searches. A label is its path with the
duration by arrival time, the unreachable set, load, profit and visits to the cut; the code's trees of
pieces are what these functions are between integer times. The backward search runs on the mirrored legs
(`reverse_instance`), where waiting makes arrivals set-valued (`LegTable`).

| action | code (`main/src/labeling`, `bidirectional_labeling.cpp` unless said) |
|---|---|
| `Init` | the two initial queues, the middle at `T` |
| `Skip`, `Stop`, `Enter` | the head of a turn: empty queue, limits, `MonodirectionalLabeling::Run` entered |
| `Pop` | one lazy label: extended, dominated or trimmed, processed, its extensions queued (`monodirectional_labeling.cpp`) |
| `EndTurn` | iterative merge, complete forward routes, the new middle, the loops around |
| `LastArc`, `Cross` | the guard of `LastArcMerge` and the merge |
| `Return` | final status, repriced pool |
| `Expire` | the deadline passes or the watermark trips |

`Survivors` is what `DominatePieces` leaves of a label, `Undominated` the whole step at its level, `Merged` the
joining of a pair with its early exits, `Added` the pool.

### Properties and runs

| property | meaning |
|---|---|
| `TypeOK` | types; labels are elementary and inside the horizon |
| `PoolSound` | whatever is returned, after any limit and at any level, is a route the checker accepts at that price, negative and over no forbidden arc; before repricing no merge promised less than the route can do |
| `Cheapest` | an Exact run in the opening state that merges from its first turn on and meets no limit has the most negative route in its pool, unless one no dearer may as well stop at the depot on its way, or ties with another that begins or ends with the same customer |
| `FinishedIsProof` | the same of every run that says Finished with an empty pool: **violated** (section 11) |
| `Terminates` | every run ends |

`Cheapest` is stated on the raw instance and the path prices of the checker, so it covers the preprocessing, both searches,
dominance, the merges and the pool at once. Both exceptions are real. The first: where one waits so long that a drive home costs no time, preprocessing removes
the arc and `ExtensionStep` drops the label (`Detoured`, `DepotTriangle`). With high duals the route over the wait is then the most negative, and the pool has
its halves only (instance `split`, duals 4, 4, -1). For the linear program they are as good, and so for the bound: one
of the halves is negative. This needs that at most one half pays for the cut, which three customers ensure (`SeparateCuts`).
The second: dominance is not strict (`Worse`), and a label that waits dominates. When several orders of the last customers all wait for
the same late opening, they tie, and each may trim another at a different vertex; then no backward label is left at the time at
which the forward label of the route arrives, and none of the tied routes is merged. It takes ten customers to happen, so the run's instances
do not show it.

Run `labeling`: three customers, horizon 6, turns of two labels (`process_limit` is 10 in the code), an instance
where an arrival function has slope 0 and then 1, so that functions cross and dominance trims
in the middle; one where a customer closes before another opens, so that vehicles wait, windows are tightened and the arc between them is removed; one where a third can be
served in the meantime, so that the arc stays and labels are dropped instead; one
where two neighbours lie at the middle. The duals are all triples over {-1, 2, 3}, or {-1, 2, 4} where one waits, so empty pools, ties and orders of the same set
occur; a cut with a branched arc, the heuristic levels, merges that start late, pools that are full at one or two routes (`solution_limit`, 3000 by default), and the deadline and the watermark are in records of their own. Limits:
integer times and slopes 0 and 1 (a trimmed piece begins and ends at an integer), durations single-valued at a time, three customers.
Run `labeling_closing`: four customers, horizon 11, turns of one label.

Fairness. `FairSpec` asks for infinitely many steps or an end, which is weak fairness of `Step`, because `Step` is enabled
until the run is done; it is written out because TLC would evaluate the enabling of the dominance at each state.
Limits need not come.

### Proofs (`LabelingProofs`, `LabelingBestProofs`)

From `LabelingAssumption`, for every instance, any number of customers, any horizon, duals, cut and set of
forbidden arcs, every level, and every order in which labels and limits come:

| theorem | property |
|---|---|
| `LabelingTypes` | `TypeOK` |
| `PoolIsSound` | `PoolSound` |
| `CheapestFound` | `Cheapest` |
| `SearchingAlways` | `Searching`, the invariant all rest on |
| `UniqueAlways` | `Unique`: a label's path identifies it |
| `TwinsFound` | `Paired`: a route that is a course from either end is found |

`Proper` is the part of the assumption that speaks of the payload: windows inside the horizon and nothing to load or serve at a
depot (`to_lera_payload` in `kayros/lera/__init__.py`), arrival functions under which nobody arrives before leaving or overtakes
("canonical ATFs are non-decreasing (FIFO)", `construct.h:15`). `Never` is a constant, above every time a vehicle can arrive at. Nothing
is assumed of slopes: those are bounds of the runs. `Posed` says what a pricing problem is; that `sigma`, the dual of a `<=` cut, is not positive is
the one inequality used.

`TypeOK` and `PoolSound` are not inductive: what a merge promises depends on what its two labels promise. `Searching` says of every
label in either search that it is `Good`: `Shaped` (an elementary path over prepared, allowed arcs, with load, profit and visits the sums
along it) and `Timed`. The two directions promise different things, and that is the heart of it. A forward label that lists `t` at duration
`c` *has* a trip: it leaves the depot in its window, drives the prepared functions and arrives at `t`, `c` later (`Forth`).
A backward label promises for *all* earlier times: whoever is at its vertex by `T - t` gets home by `T - t + c` (`Back`), because on
the mirrored legs one waits. `ForwardLeg` and `BackwardLeg` carry each over an arc; `UndominatedGood` says that dominance and trimming only
take times away. A pair that meets then gives one trip of the joined path at no more than the promised duration (`MeetingIs`, `TripJoined`), the sums
add up but for the common vertex (`SumJoined`), the cut included (its cost is superadditive only because
`sigma <= 0`), and the path is elementary (`JoinedInjective`). `Pooled` says that of all the pool holds, and of a
repriced entry that it costs what the checker says.

The last link is the preprocessing: `WalkIs` says that a walk on the prepared instance and a drive on the raw one arrive at the same
time, shifted by the service (`PrepareIs`, `TightenedIs`, `FoldedIs`: tightening a window loses no departure that any arc could use, and
a removed arc is on no route that can be driven). So `Checked`, the price the pool is held to, is the checker's and not the labeling's own.

`Cheapest` is completeness: some label always stands for the best route, through all of dominance, trimming at a middle that moves,
queues left behind, merging and a pool that keeps one order of each set. The proof has two halves, one for each module.

*The search* (`LabelingProofs`). A `Course` is a route seen from one of its ends, with the times at which one may be at each
vertex, that nothing in the search can take away. At each stop it is `Unrivalled`: no label that could exist, in the search or not, is `Worse` for the label
the course makes for itself (`Ideal`). And it is `Undetoured`: the next arc meets no depot triangle. A label `Covers` a course up to a stop if it has its path,
is there no later and may visit the rest. Four invariants carry the argument.
* `Unique`: no path is processed twice, and what waits in a queue has not been processed. So the label that covers a stop is the only one with its path, and
  dominance and trimming, one rival after the other, leave it the times of the course.
* `Pursued`, of one direction: as far as the middle allows, where a course is covered it is covered one stop further, or the entry that will do it is in the queue (`PursuedPop`).
* `Rounds`, of the turns: the middles add up to at least `T`, the other side's labels are in the merge structure except for those of the running turn, and
  the backward side works only after the forward queue has nothing left below its middle.
* `Chased`, of a route that is a course from either end (`Twin`): both sides pursue it; and if it is covered to its end, or from both sides at one stop, then it is in the pool.
  The merge of a turn finds each pair that meets (`TwinMerged`), since its early exits pass over no negative one. When the queues are done, the two sides
  cover the stop at the middle (`Crossed`); if the search ended before the first merge, the forward side has finished alone.

`Paired` is what is left in the end: the pool has a route of the same customers that takes no longer.

*The best route* (`LabelingBestProofs`). The `Champion` is a cheapest route that neither stops over nor ties. It has a shortest ride x, and at each
stop a latest time y to which one may wait without coming home later (`Slack`, `Sketch`). It is shown to be a course forward at the times
of x (`Fore`), and backward at all times from x to y (`Aft`); a backward label lists the times one may leave at, and waiting makes them many.
* *No arc of it is missing.* Preprocessing drops an arc only if no window lets one drive it, or if one may as well return to the depot between its ends (`StagedDrive`, `DetourIs`). The
  second makes the route stop over (`StopsOver`), as does a detour that a label would be dropped for (`DetourStops`, `ForeUndetoured`, `AftUndetoured`).
* *It can be driven within the prepared windows and legs* (`FittingIs`, `LinkedLegs`), and never past a latest departure (`LdtReaches`): the traced departures are the
  greatest from which some legs lead to the target.
* *It has no rival.* A label that dominates the champion's at a stop and may visit all that is to come is joined with the rest of the champion (`HalvesIs`,
  `MeetsIs`): this is a route of `Target`, no longer than the two labels promise, with no more load, whose price is no more, whatever the
  cut still gains or loses (`CutTrade`). It begins or ends with the same customer as the champion, so it is the champion, which does not tie (`Unbeaten`, `ForeBeaten`, `AftBeaten`),
  and the label has the champion's path.

So `TwinsFound` applies. What the pool has for these customers takes no longer, has the same duals and the same visits to the cut, and so is no
dearer (`NoDearerSame`); a champion exists because prices are bounded (`ChampionIs`). Both exceptions of `Cheapest` are used exactly once each: `~Stopover` for
the arcs and the detours, `~Tied` for the rivals. Nothing is assumed of the number of customers, of slopes, or of the order of turns.

`Terminates` is only model-checked, and `FinishedIsProof` fails: the closing state has no iterative merge.

## 9. `Pwlf`, `LcaTree` and `RouteEval`

The searches of sections 2 to 5 have feasibility and price of a route as constants. These modules are where the program
gets them from.

### State and actions

`Pwlf` has the functions. Time is the integers, and a function maps an interval of times to pairs of a low and a high
value, which differ where it steps. That is exact, not an approximation: arcs grow by 0 or 1 between neighbouring times, or step at a
time, so compositions have their breakpoints at integers again, and what the code interpolates is the straight piece
between two of them. `Compose` is the result of the code's event merge, with its treatment of steps and plateaus. `LcaTree` is the tree,
over whatever composition it is given: `LcaTree` and `WarpLcaTree` of the code are the same algorithm twice, `Tree` and `WarpTree` two
instances. It computes node by node what the code computes, in the same order of composition.

`RouteEval` has an instance, and for each slot a `RouteState` or a `WarpRouteState`. Which routes are asked for is the callers' business,
so any client sequence may be built, one client more or less at a time.

| definition | code (`cpp/ls` unless said) |
|---|---|
| `EvaluateRoute`, `EvaluateRouteWarp` | the folds: `core/route_eval.cpp`, `core/warp_eval.cpp` |
| `RouteLeaves`, `WarpRouteLeaves`, `BuildRouteState`, `BuildWarpRouteState` | `leaves.cpp`, `warp_tree.cpp`, `warp_splice.cpp` |
| `SplicePieces`, `EvaluateSplice`, `EvaluateSpliceWarp` | `evaluate_splice` and its twin: both compose the same pieces |
| `RelocatePieces`, `EvaluateInsertion` | `evaluate_intra_relocate`, the scans of `insertion.cpp` and of the relocate pass |
| `Rebuild`, `RebuildWarped` | a route is exchanged in either search (`commit_two`, `set_route`) |
| `StartSqueeze`, `EndSqueeze` | the change between the searches (`init_warp_search`, `try_squeeze` in `ils.cpp`) |

### Properties and run

| property | meaning |
|---|---|
| `RankIsPrice` | splices, relocations and insertions rank a changed route at the feasibility, duration and departure that the fold will give it; splices with lateness also at its lateness and its price at every weight |
| `WarpIsPlain` | a route has no lateness exactly if it is feasible, with the same duration; so a squeeze can start from every live solution, and what it banks can be taken over |
| `UpdateIsRebuild` | two leaf updates make the tree that a rebuild makes, at every node |

`RankIsPrice` is not obvious, because composition with steps is not associative. A step that f takes at a level g holds for a while
comes at the last time of the plateau, and what is the last time depends on what has been composed before.
In the run's second instance fold and tree so differ as functions, by where a step sits. What a search reads of
them does not. `lca_tree.h:16-18` gives the splice property `G(b1, b3) = G(b2, b3) ∘ G(b1, b2)` without that exception; the tests ask
for feasibility only on instances with steps (`tests/test_warp_tree.py:11-12`), and the model finds that duration and departure agree there too.
The screening tolerance of the passes is for rounding, which is not modelled.

`WarpIsPlain` is the claim of `ils.cpp:280` (`Unreachable (exactly-zero warp == checker-feasible, gate-proven)`), on which
`restore_snapshot` and the adoption of a squeeze rest. `update_leaf` is called by a binding for tests only: the searches
rebuild a route they change.

Run `route_eval`: four clients, two slots, so routes of up to four clients (trees with six boundaries, three levels) and every splice between two.
Three instances: without windows; windows of which one closes inside a jam and one arc steps where a jam ends; a horizon that ends
before the windows do, so that walls and lateness meet. Every arc is constant, a jam (slope 0, then 1) or a step. Penalties 1 and 3. All
pairs of routes that can be built are reached, and of each pair every splice is tried. A fifth client would multiply the pairs; a splice
composes a head, a run and a tail with bridges between them, and four clients have each of these empty, single and longer.
There is no liveness to state: each call is a loop over a route.

### Proofs (`RouteProofs`)

All three invariants, for every instance, any clients and routes of any length, from `RouteEvalAssumption` alone (finitely many clients,
natural penalties, arcs as `IsInstance` describes them). The inductive invariant is small: `StatesStand` says that every live state is the one
built for a route on the instance of the run. The rest is about what the builders compute.

* `UpdateRebuilds` (`UpdateIsRebuild`): each boundary is the middle of exactly one node (`Ranges`, `Leveled`), a leaf update goes down
  to every node that holds the leaf, and all others compose what they did.
* `RankPrices` (`RankIsPrice`). Composition is not associative as functions, but an evaluation reads little of a function: `Lows`, the low
  value at each time and the lateness booked with it. Read so, `Compose` of two `Sound` functions is composition that adds up
  lateness (`After`), and that may be grouped in any way (`AfterGroups`); this is where steps, plateaus and walls are gone through once and for all. A route
  has a `Way`, its departures and a leg to each stop and home. Every tree query, bridge and fold `Spans` a stretch of a way, stretches
  join, and a way has one run from a to b (`RunsUnique`); so what is ranked and what is folded read alike, and feasibility, duration, departure, lateness
  and price depend on that reading only.
* `WarpAgrees` (`WarpIsPlain`). Of a way with lateness `Zero` keeps what is on time, and that is the way without (`ZeroAfter`,
  leg by leg). Here `tEnd` matters: it is no earlier than any window's end with its service (`HorizonIs`), so the wall behind
  the windows cuts off nothing that is on time.

## 10. `Colony` and `Solve`

### State and actions

`Colony` is `solve_aco`: the pheromone is left out, an ant builds any solution or none, and a turn is stagnant or not
by choice. `Solve` is `kayros.solve` and EXTENDS `Ils`; `Phase1` is `Colony` by INSTANCE. `stage` says
which of the two runs, the hook is `Tell`, the clock of the first phase is a counter because the second gets the difference.

| action | code (`aco.cpp`, `src/kayros/solve.py`) |
|---|---|
| `Sow`, `Ripen` | the greedy seed, published raw, and its descent |
| `Build`, `Descend`, `Deposit`, `Judge`, `Exhaust` | a turn: ants, local search on the best or on all, best and publication, convergence and the clock |
| `ColonyRuns`, `SearchRuns` | the calls of `solve_aco` and `solve_ils`, each incumbent passed to the hook |
| `HandOver` | between the phases: nothing found, or routes and the time left, at least 0.01 s |
| `Conclude` | the result and the merged incumbents |

### Properties and run

| property | meaning |
|---|---|
| `STypeOK` | types; a warm search has its seed (proved, in no run) |
| `OneStream` | under every strategy each incumbent told is cheaper than the one before, and the record is what was told |
| `SecondPhaseTimed` | a colony that overruns its slice and the whole limit does not leave the second phase unlimited (a limit of 0 is none) |
| `MergedContract` | the whole solve implements `AnytimeStream` |
| `Concludes` | every solve returns or raises |

`MergedContract` leaves out a capped `aco+ils` (`Mixed`): the colony knows no cap, so incumbents above the cap are told, and
the search may then return Infeasible, as CHANGELOG.md:24 and solve.py:139-145 imply. `OneStream` covers it.

Run `solve`: four solutions with three prices, one tie, and one route count that a cap of 1 excludes; one or two turns of two ants;
three search records with and without a limit; a clock that may pass the slice and the whole limit (`Horizon = 2`). Two ants are enough
for a tie and for one that fails. A tie between the phases decides whether the hook compares by `<`.

Fairness is `WF_svars(SStep)`; the clocks may stand still.

### Proofs (`SolveProofs`)

`SolveTyping` (`STypeOK`), `SecondPhaseLimited` (`SecondPhaseTimed`) and `SolveImplementsStream` (`MergedContract`), for any solutions,
prices, colonies and search parameters, from `OptionAssumption` and the assumptions of the two parts. The invariant `Sound` has the first part's
invariants of the search (`Searching`: they hold although `cfg.timed` is set at the hand-over), the same for the colony (what
it has told decreases and ends with its result), and the link: in the second phase what was told is the colony's stream
followed by those incumbents that beat it (`SecondKeeps`).

`StreamIsOne` (`OneStream`) is about the sequence itself. `Single` says that what was told falls in price at every step, and
`Handed` what it is in the second phase: the colony's stream, then those of the search's incumbents that beat all of it, ending either with the
colony's own result or with the newest incumbent. The end is what has to be known when the next incumbent comes. The hook's filter (`Those`) is a recursive function;
`ThoseAppend` and its companions say what one more incumbent makes of it, by induction over a prefix.
`Concludes` is only model-checked.

## 11. What the models say against the text

Checked by a run of its own:

| finding | run | kind | text | code |
|---|---|---|---|---|
| `BestBoundValid` | `bcp_bound` | bug | `lera/__init__.py:249-251` | the node in hand at the limit is not among those whose bound is reported |
| `OptimumIsOptimal` | `bcp_optimum` | bug | `lera/__init__.py:340-343`, `lera_bridge.cpp:112-114` | a child is dropped because its restricted master is infeasible; forcing an arc fixes the single-customer columns of its ends |
| `FinishedIsProof` | `labeling_closing` | bug | `bidirectional_labeling.cpp:370-371`, `lera_bridge.cpp:286-290` | in the closing state a forward label trimmed at the middle leaves arrivals that no merge looks at |

The last needs a label whose arrivals straddle the middle. The closing state begins after an Exact run has finished
(`lera_bridge.cpp:211-213`), so the run that certifies is a closing one. In the opening state the same can happen while fewer than `merge_start` forward labels have been
processed. Whether the two searches of a real instance leave such a gap depends on how their turns move the middle; the
model has an instance of four customers where they do, with turns of one label, and the smallest found with the code's
`process_limit` of 10 has six.

Met while modelling, and stated in the modules without a run of their own; each takes one more line in a .cfg and
gives a counterexample in seconds:

| property | to see it | text | code |
|---|---|---|---|
| `ResultIsLastPublished` | add it to the INVARIANTS of `Ils.cfg`, with `Configs <- DurationOnly` | `tests/test_ils.py:97-98` | the split seed replaces a greedy seed that was already published, cheaper or not, so the result can be dearer than the last incumbent |
| `ReachedCapIsReturned` | add it to the INVARIANTS of `Ils.cfg` | `heuristics.h:105-107` | best is chosen by price alone; if it is above the cap, a capped live solution is thrown away |
| `RestartAfterQuietWindow` | the same, with `Configs <- PeriodicOnly` | `heuristics.h:56-57` | a best found in a fleet-descent phase does not reset the count |
| `RepairOptimal` | add it to `Squeeze.cfg` | `squeeze.cpp:375-376`, `squeeze.h:18-19` | the repair leg inherits stamps made at another weight and skips the clients they belong to |
| `Certificate` without `~lost` | drop the conjunct in `Pricing.tla` | `lera_bridge.cpp:247-253` | a priced path that the pool's own repricing finds infeasible is dropped without a count; a second solve clears the watermark a pass was cut short by |
| `Certificate` without `~doubtful` | drop the conjunct in `Pricing.tla` | `lera_bridge.cpp:286-290` | an Exact run that is closing, merges late or fills its pool with known columns adds nothing, and pricing is taken for exhausted |

`AnytimeStream` has the parameter `exact` for `ResultIsLastPublished`: the result is the last incumbent
unless the seed was split. For the exact mode, `LowerBound`, `CertifiedOptimum` and `Certificate` state what is
left: they hold unless a node starved or a pass without news had no proof.

Two more things about columns a caller gives over arcs that preprocessing removed (`lera_bridge.cpp:154-165`). The right child of a branch is meant as "x_e = 1"
(`bcp.cpp:302`) but forbids the competing arcs of the preprocessed graph only, so such a column survives in it, the fractional point can come back, and
the same arc is branched on again and again. With the three arcs 4-1, 1-2, 2-3 removed, the run `bcp` has no end of nodes; only the time or
node limit stops the code. And a node whose fractional arcs are all removed ones has nothing to branch on: `BranchNode` returns and the
node is gone (`starved`; configuration `AllLost`).

## 12. What is proved and what is only checked

Every invariant of the passing runs, every action property and every refinement is proved for all constants. The type invariants of `Squeeze`, `Pricing` and `Solve` are proved and in no run. Liveness (`Terminates`, `DescentEnds`, `PhaseEnds`, `Returns`, `Concludes`)
is outside the prover and only model-checked, on the instances of the runs. Induction over data is done with sets: `CommonLemmas` derives `Induction` (a set that
holds the first number of an interval and with each number the next holds the interval) and `Recursion` (a recursive function on an interval exists)
from the well-foundedness of `<` on the naturals, and what a recursive definition computes is proved from the two. The proofs say nothing about the program beyond the models: solver answers,
prices and feasibility are constants with the named assumptions.

## 13. Not modelled, and why

* Rounding. `RouteEval` has the arithmetic of routes over integers, where it is exact. What the code promises beyond, equality to the last bit
  with the checker and tolerances where the order of additions differs, is about doubles. The removal of redundant breakpoints
  (`dedup_safe_runs`) changes no value and is left out, as are the piece classes of `goc` and `nyr`.
* In the labeling, options the bridge leaves off: ng-routes, correction, full instead of partial dominance, symmetric
  instances; and the path-keyed pool of stepwise instances, whose vertical pieces need set-valued durations.
* In the fleet descent the prices that rank candidates, in the colony the pheromone: data. `Squeeze` and `LocalSearch` take prices and
  feasibility as constants; `RouteEval` says where they come from, but is not composed with them.
* LP and MILP solvers: by what they return. A HiGHS status the wrapper does not know reads as the first of its map (`highs_solver.cpp:236`); what
  the program does then depends on the library.
* In the labeling, several cuts at a time (`pp.S` is a list; the model has one), and the bridges of 1e-3 that
  `continuize_value_jumps` puts in the place of vertical pieces: the mirrored legs are exact, with several arrivals at a time.
* The price of an artificial seed column: the bridge takes the labeling's own value, which is `Infty` where that finds the route infeasible, too.
* The check of the result after a search (`solve.py:540-553`, which raises `KayrosError`): prices are exact in the model, so it cannot fail.
* `update_leaf` is called from a test binding only; `UpdateIsRebuild` is about the function, not about a search.
* The client-to-route indices of the squeeze (`route_of`, `pos_of`): routes are a map by key.
* Construction of travel times from speed profiles (`preprocess_travel_times`, `load_igp`): the bridge does not call it.
* JSON, logging, bindings, `magic_enum`, CPLEX: no state that survives the call, or not built.
* The Python side of the exact mode beyond the certificate: conversion of the payload and the automatic memory limit.

The vendored and numeric files are well over half of the repository's lines, which bounds the share of it that models of
its control can stand for.

## 14. Where to go on

The plan the project was built by is done: streams and driver, local search, ejection and squeeze, master and search, the
pricing ladder, the labeling, the composed strategies, the evaluation of routes. What would add most next:
`LocalSearch` shown to implement the `Descent` of `Ils`; durations with vertical pieces in `Labeling`.

--------------------------------- MODULE Ils ---------------------------------
(***************************************************************************)
(* solve_ils: greedy or warm seed, descent, then the loop kick, descend,   *)
(* judge, accept (late acceptance), with restart-to-best, the fleet-descent*)
(* phase and the K-cap.  The deadline is a flag that may rise between any  *)
(* two steps; the code only ever reads it through past().                  *)
(*                                                                         *)
(* A solution is an element of Sol with a route count and a price.  The    *)
(* staleness arrays of the search state (touched, last_tested) are kept as *)
(* what they stand for: NoStamps when some client must be retested, else   *)
(* the solution and the neighbourhood whose last pass found nothing.       *)
(***************************************************************************)
EXTENDS Naturals, Sequences

CONSTANTS Sol, K, Cost, NoSol, NoStamps, Empty, Configs

ConfigShape ==
  [priced : BOOLEAN,        \* fixed_route_cost > 0
   kCap : Nat,              \* k_cap, 0 when off
   splitSeed : BOOLEAN,     \* seed_k_factor > 1
   warm : BOOLEAN,          \* initial_routes given
   timed : BOOLEAN,         \* time_limit_seconds > 0
   exhaustiveOnBest : BOOLEAN,
   historyLen : Nat \ {0},
   maxIter : Nat,           \* max_iterations (bounds the model)
   restartAfter : Nat,      \* restart_no_improvement
   workRestart : BOOLEAN,   \* restart_no_improvement_work > 0
   fdAttempts : Nat,
   fdPeriod : Nat,
   workFd : BOOLEAN,        \* fd_period_work > 0
   squeeze : BOOLEAN,       \* sq_work_cap > 0
   sqOnNodrop : BOOLEAN]

ASSUME SolAssumption == /\ K \in [Sol -> Nat \ {0}]
                        /\ Cost \in [Sol -> Nat]
                        /\ NoSol \notin Sol
ASSUME StampAssumption == NoStamps \notin [sol : Sol, mode : {"granular", "exhaustive"}]
ASSUME EmptyAssumption == Empty \notin Nat
ASSUME ConfigAssumption == Configs \subseteq ConfigShape

VARIABLES
  cfg,            \* the run's parameters, fixed at the start
  pc, ret,        \* control point; where run_fleet_descent returns to
  expired,        \* the deadline has passed
  ss, stamps,     \* live solution and its staleness bookkeeping
  snap,           \* IlsSnapshot: solution and stamps before the kick
  curr, best,     \* their doubles of the same name
  routes, status, \* result.routes, result.status
  incumbents,     \* result.incumbents, each with its routes
  iteration, noImprovement,
  stallDue, fdDue,      \* a work window (restart, fleet descent) has elapsed
  history, historyIdx, initCost,
  dropped, squeezed,    \* locals of run_fleet_descent
  kPre,                 \* k_pre of the seed drain
  improvedAt            \* history variable: iteration of the last new best

search == <<ss, stamps, expired>>
result == <<best, routes, incumbents, improvedAt>>
lahc   == <<history, historyIdx, initCost>>
work   == <<stallDue, fdDue>>
count  == <<iteration, noImprovement>>
fd     == <<ret, dropped, squeezed, kPre>>
vars   == <<cfg, pc, search, snap, curr, result, status, count, work, lahc, fd>>

Stamps == [sol : Sol, mode : {"granular", "exhaustive"}] \cup {NoStamps}

CapActive == cfg.priced /\ cfg.kCap > 0
FdArmed   == cfg.priced /\ cfg.fdAttempts > 0

-----------------------------------------------------------------------------
(* publish: the single publication point of the stream. *)
Publishable_Ties(s, stream) ==   \* mutant: <= where the code has <
  /\ CapActive => K[s] <= cfg.kCap
  /\ stream = <<>> \/ Cost[s] <= Cost[stream[Len(stream)]]

Publishable(s, stream) ==
  /\ CapActive => K[s] <= cfg.kCap
  /\ stream = <<>> \/ Cost[s] < Cost[stream[Len(stream)]]

Publish(s) ==
  incumbents' = IF Publishable(s, incumbents) THEN Append(incumbents, s)
                                              ELSE incumbents

(* A new global best (the caller has compared it): result and stream. *)
Adopt(s, at) ==
  /\ best' = Cost[s]
  /\ routes' = s
  /\ Publish(s)
  /\ improvedAt' = at

(* ls_descend entered with stamps st.  It is idle past the deadline or when
   no client needs a retest; otherwise it walks downhill, never opening a
   route, until its passes come back clean or the deadline cuts it short. *)
Idle(st) == expired \/ st # NoStamps

Downhill(s) == {t \in Sol : t = s \/ (Cost[t] < Cost[s] /\ K[t] <= K[s])}

Descent(mode, st) ==
  \/ /\ Idle(st)
     /\ stamps' = st
     /\ UNCHANGED <<ss, expired>>
  \/ /\ ~Idle(st)
     /\ ss' \in Downhill(ss)
     /\ \/ stamps' = [sol |-> ss', mode |-> mode] /\ UNCHANGED expired
        \/ cfg.timed /\ stamps' = NoStamps /\ expired' = TRUE

(* The candidate pricings of a descent may carry a work window to its end. *)
Elapses(flag, armed) == {b \in BOOLEAN : (flag => b) /\ (b => flag \/ armed)}

Work(st) ==
  \/ Idle(st) /\ UNCHANGED work
  \/ /\ ~Idle(st)
     /\ stallDue' \in Elapses(stallDue, cfg.workRestart)
     /\ fdDue' \in Elapses(fdDue, cfg.workFd)

(* The exhaustive polish: mark_all_touched, then a descent of mode exhaustive. *)
Polish_Unmarked ==   \* mutant: mark_all_touched forgotten
  IF cfg.exhaustiveOnBest /\ ~expired THEN Descent("exhaustive", stamps) ELSE UNCHANGED search

Polish ==
  IF cfg.exhaustiveOnBest /\ ~expired
  THEN Descent("exhaustive", NoStamps)
  ELSE UNCHANGED search

PolishWork ==
  IF cfg.exhaustiveOnBest /\ ~expired THEN Work(NoStamps) ELSE UNCHANGED work

Goto(from, to) == pc = from /\ pc' = to

-----------------------------------------------------------------------------
Init ==
  /\ cfg \in Configs
  /\ pc = "Seed" /\ ret = "Kick" /\ status = "Running"
  /\ expired = FALSE
  /\ ss = NoSol /\ stamps = NoStamps
  /\ snap = [sol |-> NoSol, stamps |-> NoStamps]
  /\ curr = 0 /\ best = 0 /\ routes = NoSol /\ incumbents = <<>>
  /\ iteration = 0 /\ noImprovement = 0 /\ improvedAt = 0
  /\ stallDue = FALSE /\ fdDue = FALSE
  /\ history = [i \in 0 .. cfg.historyLen - 1 |-> Empty]
  /\ historyIdx = 0 /\ initCost = 0
  /\ dropped = FALSE /\ squeezed = FALSE /\ kPre = 0

(* The clock: once timed, the deadline passes at some moment. *)
Tick ==
  /\ cfg.timed /\ ~expired /\ pc # "Done"
  /\ expired' = TRUE
  /\ UNCHANGED <<cfg, pc, ss, stamps, snap, curr, result, status, count, work, lahc, fd>>

(* No seed: the construction is stuck, or the seed does not evaluate. *)
SeedFails ==
  /\ Goto("Seed", "Done")
  /\ status' = "Infeasible"
  /\ UNCHANGED <<cfg, search, snap, curr, result, count, work, lahc, fd>>

GreedySeed ==
  /\ ~cfg.warm
  /\ Goto("Seed", "Split")
  /\ \E g \in Sol : ss' = g /\ Publish(g)
  /\ UNCHANGED <<cfg, stamps, expired, snap, curr, best, routes, improvedAt, status,
                 count, work, lahc, fd>>

WarmSeed ==
  /\ cfg.warm
  /\ Goto("Seed", "SeedDescend")
  /\ ss' \in Sol
  /\ UNCHANGED <<cfg, stamps, expired, snap, curr, result, status, count, work, lahc, fd>>

(* K-diverse seeding: the split seed replaces the greedy one, better or not. *)
Split ==
  /\ Goto("Split", "SeedDescend")
  /\ \/ UNCHANGED <<ss, incumbents>>
     \/ /\ ~cfg.priced /\ cfg.splitSeed
        /\ \E t \in Sol : K[t] > K[ss] /\ ss' = t /\ Publish(t)
  /\ UNCHANGED <<cfg, stamps, expired, snap, curr, best, routes, improvedAt, status,
                 count, work, lahc, fd>>

SeedDescend ==
  /\ Goto("SeedDescend", "SeedPolish")
  /\ Descent("granular", NoStamps)
  /\ curr' = Cost[ss']
  /\ Adopt(ss', 0)
  /\ UNCHANGED <<cfg, snap, status, count, work, lahc, fd>>

SeedPolish ==
  /\ Goto("SeedPolish", IF FdArmed /\ CapActive THEN "Drain" ELSE "Head")
  /\ Polish
  /\ curr' = Cost[ss']
  /\ initCost' = Cost[ss']
  /\ IF Cost[ss'] < best THEN Adopt(ss', 0) ELSE UNCHANGED result
  /\ stallDue' = FALSE /\ fdDue' = FALSE
  /\ UNCHANGED <<cfg, snap, status, count, history, historyIdx, fd>>

-----------------------------------------------------------------------------
(* At control point `from`: run_fleet_descent when `armed`, and on to `to`. *)
FleetPhaseOrSkip(from, armed, to) ==
  /\ Goto(from, IF armed THEN "FdDrain" ELSE to)
  /\ ret' = IF armed THEN to ELSE ret
  /\ UNCHANGED <<cfg, search, snap, curr, result, status, count, work, lahc,
                 dropped, squeezed, kPre>>

(* The attempt loop: an attempt that sticks drops its victim route (the squeeze
   of the ladder may empty another), a failed one leaves the state as it was; a
   spent budget or the deadline ends it. *)
FdDrain ==
  /\ pc = "FdDrain"
  /\ squeezed' = FALSE
  /\ \/ /\ ~expired
        /\ ss' \in {t \in Sol : K[t] < K[ss]}
        /\ dropped' = TRUE
        /\ pc' = "FdDescend"
     \/ /\ dropped' = FALSE
        /\ pc' = "FdSqueeze"
        /\ UNCHANGED ss
  /\ UNCHANGED <<cfg, stamps, expired, snap, curr, result, status, count, work, lahc, ret, kPre>>

FdDescend ==
  /\ Goto("FdDescend", "FdPolish")
  /\ Descent("granular", NoStamps)
  /\ Work(NoStamps)
  /\ UNCHANGED <<cfg, snap, curr, result, status, count, lahc, fd>>

FdPolish ==
  /\ Goto("FdPolish", IF squeezed THEN "FdJudge" ELSE "FdSqueeze")
  /\ Polish
  /\ PolishWork
  /\ UNCHANGED <<cfg, snap, curr, result, status, count, lahc, fd>>

(* try_squeeze: adopted only when strictly better; then the basin treatment again. *)
FdSqueeze ==
  /\ pc = "FdSqueeze"
  /\ \/ /\ cfg.squeeze /\ (dropped \/ cfg.sqOnNodrop) /\ ~expired
        /\ ss' \in Downhill(ss) \ {ss}
        /\ stamps' = NoStamps
        /\ squeezed' = TRUE
        /\ pc' = "FdDescend"
     \/ /\ pc' = "FdJudge"
        /\ UNCHANGED <<ss, stamps, squeezed>>
  /\ UNCHANGED <<cfg, expired, snap, curr, result, status, count, work, lahc, ret, dropped, kPre>>

(* A phase that neither dropped nor squeezed returns NaN: curr stays. *)
FdJudge_DropsPrice ==   \* mutant: the caller ignores the returned price
  /\ Goto("FdJudge", ret)
  /\ fdDue' = FALSE
  /\ IF (dropped \/ squeezed) /\ Cost[ss] < best
     THEN Adopt(ss, iteration) ELSE UNCHANGED result
  /\ UNCHANGED <<cfg, search, snap, curr, status, count, stallDue, lahc, fd>>

FdJudge ==
  /\ Goto("FdJudge", ret)
  /\ fdDue' = FALSE
  /\ IF dropped \/ squeezed
     THEN /\ curr' = Cost[ss]
          /\ IF Cost[ss] < best THEN Adopt(ss, iteration) ELSE UNCHANGED result
     ELSE UNCHANGED <<curr, result>>
  /\ UNCHANGED <<cfg, search, snap, status, count, stallDue, lahc, fd>>

-----------------------------------------------------------------------------
(* Seed drain: back-to-back phases while above the cap and making progress. *)
Drain ==
  LET go == K[ss] > cfg.kCap /\ ~expired
  IN  /\ pc = "Drain"
      /\ pc' = IF go THEN "FdDrain" ELSE "Head"
      /\ ret' = IF go THEN "DrainBack" ELSE ret
      /\ kPre' = IF go THEN K[ss] ELSE kPre
      /\ stallDue' = (go /\ stallDue)
      /\ UNCHANGED <<cfg, search, snap, curr, result, status, count, fdDue, lahc,
                     dropped, squeezed>>

DrainBack_NoBreak ==   \* mutant: the no-progress break is missing
  /\ Goto("DrainBack", "Drain")
  /\ UNCHANGED <<cfg, search, snap, curr, result, status, count, work, lahc, fd>>

DrainBack ==
  LET progress == K[ss] < kPre
  IN  /\ Goto("DrainBack", IF progress THEN "Drain" ELSE "Head")
      /\ stallDue' = (progress /\ stallDue)
      /\ UNCHANGED <<cfg, search, snap, curr, result, status, count, fdDue, lahc, fd>>

RestartDue == noImprovement = cfg.restartAfter \/ stallDue

Stop ==
  /\ Goto("Head", "Finish")
  /\ \/ iteration = cfg.maxIter /\ status' = "Finished"
     \/ iteration < cfg.maxIter /\ expired /\ status' = "TimeLimit"
  /\ UNCHANGED <<cfg, search, snap, curr, result, count, work, lahc, fd>>

Continue ==
  /\ Goto("Head", "Period")
  /\ iteration < cfg.maxIter /\ ~expired /\ ~RestartDue
  /\ UNCHANGED <<cfg, search, snap, curr, result, status, count, work, lahc, fd>>

(* Restart-to-best, with a fleet descent on the incumbent before the fresh
   window opens. *)
Restart ==
  /\ Goto("Head", "RestartFd")
  /\ iteration < cfg.maxIter /\ ~expired /\ RestartDue
  /\ ss' = routes /\ stamps' = NoStamps
  /\ curr' = best
  /\ UNCHANGED <<cfg, expired, snap, result, status, count, work, lahc, fd>>

RestartFd == FleetPhaseOrSkip("RestartFd", FdArmed /\ ~expired, "RestartReset")

RestartReset ==
  /\ Goto("RestartReset", "Period")
  /\ history' = [i \in 0 .. cfg.historyLen - 1 |-> Empty]
  /\ historyIdx' = 0
  /\ noImprovement' = 0
  /\ stallDue' = FALSE
  /\ UNCHANGED <<cfg, search, snap, curr, result, status, iteration, fdDue, initCost, fd>>

Period ==
  LET due == cfg.fdPeriod > 0 /\ iteration > 0 /\ iteration % cfg.fdPeriod = 0
  IN  FleetPhaseOrSkip("Period", FdArmed /\ due /\ ~expired, "PeriodWork")

PeriodWork == FleetPhaseOrSkip("PeriodWork", FdArmed /\ fdDue /\ ~expired, "Kick")

-----------------------------------------------------------------------------
(* take_snapshot, then perturb: applied (any solution, its clients touched) or
   every redraw undone. *)
Kick ==
  /\ Goto("Kick", "KickDescend")
  /\ snap' = [sol |-> ss, stamps |-> stamps]
  /\ \/ ss' \in Sol /\ stamps' = NoStamps
     \/ UNCHANGED <<ss, stamps>>
  /\ UNCHANGED <<cfg, expired, curr, result, status, count, work, lahc, fd>>

KickDescend ==
  /\ Goto("KickDescend", "Judge")
  /\ Descent("granular", stamps)
  /\ Work(stamps)
  /\ UNCHANGED <<cfg, snap, curr, result, status, count, lahc, fd>>

(* The cap guard: above the cap K may fall or hold, below it stays below. *)
CapReject_OnlyAbove ==   \* mutant: the max with k_cap is lost
  CapActive /\ K[snap.sol] > cfg.kCap /\ K[ss] > K[snap.sol]

CapReject == CapActive /\ K[ss] > cfg.kCap /\ K[ss] > K[snap.sol]

Judge ==
  LET newBest == ~CapReject /\ Cost[ss] < best
  IN  /\ Goto("Judge", IF newBest THEN "NewBest" ELSE "Accept")
      /\ noImprovement' = IF newBest THEN 0 ELSE noImprovement + 1
      /\ stallDue' = (~newBest /\ stallDue)
      /\ UNCHANGED <<cfg, search, snap, curr, result, status, iteration, fdDue, lahc, fd>>

NewBest ==
  /\ Goto("NewBest", "Accept")
  /\ Polish
  /\ PolishWork
  /\ Adopt(ss', iteration + 1)
  /\ UNCHANGED <<cfg, snap, curr, status, count, lahc, fd>>

(* Late acceptance, or the rejection restore; then the slot update. *)
Late == IF history[historyIdx] = Empty THEN initCost ELSE history[historyIdx]

Restore_SolutionOnly == ss' = snap.sol /\ UNCHANGED stamps   \* mutant: stamps left behind

Restore == ss' = snap.sol /\ stamps' = snap.stamps

Admits == Cost[ss] < Late \/ Cost[ss] < curr
NextSlot == (historyIdx + 1) % cfg.historyLen

AcceptWith(admitted, slotValue, nextIdx) ==
  /\ Goto("Accept", "Head")
  /\ IF admitted
     THEN curr' = Cost[ss] /\ UNCHANGED <<ss, stamps>>
     ELSE UNCHANGED curr /\ Restore
  /\ history' = IF slotValue < Late \/ history[historyIdx] = Empty
                THEN [history EXCEPT ![historyIdx] = slotValue] ELSE history
  /\ historyIdx' = nextIdx
  /\ iteration' = iteration + 1
  /\ UNCHANGED <<cfg, expired, snap, result, status, noImprovement, work, initCost, fd>>

Accept_NoCap ==   \* mutant: the cap guard does not reach the acceptance test
  AcceptWith(Admits, curr', NextSlot)
Accept_SlotFromCandidate ==   \* mutant: the slot takes the candidate's price
  AcceptWith(~CapReject /\ Admits, Cost[ss], NextSlot)
Accept_NoWrap ==   \* mutant: the ring index does not wrap
  AcceptWith(~CapReject /\ Admits, curr', historyIdx + 1)

Accept == AcceptWith(~CapReject /\ Admits, curr', NextSlot)

(* The capped return contract and the final status. *)
Finish ==
  /\ Goto("Finish", "Done")
  /\ IF CapActive /\ K[routes] > cfg.kCap
     THEN routes' = NoSol /\ status' = "Infeasible"
     ELSE UNCHANGED <<routes, status>>
  /\ UNCHANGED <<cfg, search, snap, curr, best, incumbents, improvedAt, count, work, lahc, fd>>

Seeding == SeedFails \/ GreedySeed \/ WarmSeed \/ Split \/ SeedDescend \/ SeedPolish
FleetDescent == FdDrain \/ FdDescend \/ FdPolish \/ FdSqueeze \/ FdJudge
LoopTop == Stop \/ Continue \/ Restart \/ RestartFd \/ RestartReset \/ Period \/ PeriodWork
Iteration == Kick \/ KickDescend \/ Judge \/ NewBest \/ Accept

Step == Seeding \/ FleetDescent \/ Drain \/ DrainBack \/ LoopTop \/ Iteration \/ Finish
Next == Step \/ Tick

(* The program keeps running; the clock is assumed to do nothing. *)
Spec == Init /\ [][Next]_vars /\ WF_vars(Step)

-----------------------------------------------------------------------------
PcStates ==
  {"Seed", "Split", "SeedDescend", "SeedPolish", "Drain", "DrainBack", "Head",
   "RestartFd", "RestartReset", "Period", "PeriodWork", "Kick", "KickDescend",
   "Judge", "NewBest", "Accept", "FdDrain", "FdDescend", "FdPolish",
   "FdSqueeze", "FdJudge", "Finish", "Done"}

(* Types of the driver's locals and of the SolveResult it fills. *)
TypeOK ==
  /\ cfg \in Configs
  /\ pc \in PcStates
  /\ ret \in {"DrainBack", "RestartReset", "PeriodWork", "Kick"}
  /\ expired \in BOOLEAN
  /\ ss \in Sol \cup {NoSol} /\ stamps \in Stamps
  /\ snap \in [sol : Sol \cup {NoSol}, stamps : Stamps]
  /\ curr \in Nat /\ best \in Nat
  /\ routes \in Sol \cup {NoSol}
  /\ status \in {"Running", "Finished", "TimeLimit", "Infeasible"}
  /\ incumbents \in Seq(Sol)
  /\ iteration \in Nat /\ noImprovement \in Nat /\ improvedAt \in Nat
  /\ stallDue \in BOOLEAN /\ fdDue \in BOOLEAN
  /\ history \in [0 .. cfg.historyLen - 1 -> Nat \cup {Empty}]
  /\ historyIdx \in 0 .. cfg.historyLen - 1 /\ initCost \in Nat
  /\ dropped \in BOOLEAN /\ squeezed \in BOOLEAN
  /\ kPre \in Nat

(* Between two phases of the loop, `curr` is the price of the live solution
   and no solution the search holds is cheaper than `best`, the price of
   result.routes.  The code keeps the three doubles and the two route sets in
   step by hand across restarts, fleet descents and rejections. *)
LoopTopPcs == {"Head", "RestartReset", "Period", "PeriodWork", "Kick", "Drain"}

CurrPricesState ==
  /\ pc \in LoopTopPcs => curr = Cost[ss] /\ best <= curr
  /\ pc \in LoopTopPcs => routes \in Sol /\ best = Cost[routes]

(* Once an incumbent is published under the cap, the live solution is within
   it at every later loop head and so is the restart target: the guard of the
   kicked candidate, the restart and the publication guard agree. *)
CappedForever ==
  CapActive /\ incumbents # <<>> =>
    /\ routes \in Sol => K[routes] <= cfg.kCap
    /\ pc \in LoopTopPcs => K[ss] <= cfg.kCap

(* Across one iteration the route count of the live solution never rises
   above the cap nor, above the cap, over what it was before the kick. *)
CapMonotone ==
  pc = "Head" /\ CapActive /\ snap.sol # NoSol =>
    K[ss] <= cfg.kCap \/ K[ss] <= K[snap.sol]

(* Staleness stamps certify the live solution and no other, except between a
   fleet-descent drop and the mark_all_touched that follows it: a stamp that
   survived from a rejected candidate would hide improving moves. *)
StampsCertifyLive ==
  stamps # NoStamps /\ ~(pc = "FdDescend" /\ dropped) => stamps.sol = ss

(* With exhaustive_on_best, every best adopted before the deadline in the loop
   is a local optimum of the exhaustive neighbourhood, whichever of the kick
   or the fleet-descent phase found it. *)
PolishedBest ==
  [][best' < best /\ cfg.exhaustiveOnBest /\ ~expired'
       => stamps' = [sol |-> routes', mode |-> "exhaustive"]]_vars

(* Late acceptance drifts upwards but never past where it began: without the
   fleet-descent phase the live price and every filled slot stay at or below
   the initial cost, through rejections, slot rewrites and restarts. *)
DriftBounded ==
  ~FdArmed /\ pc = "Head" =>
    /\ curr <= initCost
    /\ \A i \in DOMAIN history : history[i] # Empty => history[i] <= initCost

(* Every solve ends: the seed drain stops when it makes no progress, and no
   cycle of the loop is without an iteration. *)
Terminates == <>(pc = "Done")

(* The incumbent stream and the returned result, as a caller sees them. *)
Stream == INSTANCE AnytimeStream
            WITH limit <- IF CapActive THEN cfg.kCap ELSE 0,
                 exact <- cfg.priced \/ cfg.warm \/ ~cfg.splitSeed,
                 stream <- incumbents,
                 outcome <- [done |-> pc = "Done", sol |-> IF pc = "Done" THEN routes ELSE NoSol]

AnytimeContract == Stream!StreamSpec

-----------------------------------------------------------------------------
(* What the repository says and the code does not do. *)

(* tests/test_ils.py and tests/test_strategy.py: the returned result is the
   last published incumbent, under core-default parameters. *)
ResultIsLastPublished ==
  pc = "Done" /\ incumbents # <<>> => routes = incumbents[Len(incumbents)]

(* heuristics.h and tests/test_k_cap.py: only a run that never reaches the cap
   returns Infeasible. *)
ReachedCapIsReturned ==
  pc = "Done" /\ CapActive /\ ss # NoSol /\ K[ss] <= cfg.kCap => routes # NoSol

(* heuristics.h: restart-to-best comes after restart_no_improvement iterations
   without a global-best improvement. *)
RestartAfterQuietWindow ==
  pc = "RestartFd" /\ ~stallDue => iteration - improvedAt >= cfg.restartAfter
=============================================================================

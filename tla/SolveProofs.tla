----------------------------- MODULE SolveProofs ------------------------------
(***************************************************************************)
(* Theorems about Solve, for every set of solutions, ants and parameters.  *)
(* First the driver alone (Spec of Ils): its invariants and the refinement *)
(* of AnytimeStream.  Then, with the colony and the hand-over around it    *)
(* (SSpec): types, the limit of the second phase, and the contract of the  *)
(* merged stream; what the driver does there is known from the first part, *)
(* lemma by lemma.                                                         *)
(***************************************************************************)
EXTENDS Solve, CommonLemmas

(* What the steps do with the parameters, the solutions and the stamps. *)
LEMMA CfgTypes ==
  ASSUME cfg \in Configs
  PROVE  /\ cfg.kCap \in Nat /\ cfg.historyLen \in Nat /\ cfg.historyLen > 0
         /\ cfg.maxIter \in Nat /\ cfg.restartAfter \in Nat
         /\ cfg.fdAttempts \in Nat /\ cfg.fdPeriod \in Nat
         /\ cfg.priced \in BOOLEAN /\ cfg.splitSeed \in BOOLEAN /\ cfg.warm \in BOOLEAN
         /\ cfg.timed \in BOOLEAN /\ cfg.exhaustiveOnBest \in BOOLEAN
         /\ cfg.workRestart \in BOOLEAN /\ cfg.workFd \in BOOLEAN
         /\ cfg.squeeze \in BOOLEAN /\ cfg.sqOnNodrop \in BOOLEAN
  BY ConfigAssumption DEF ConfigShape

LEMMA SolTypes ==
  ASSUME NEW s \in Sol
  PROVE  Cost[s] \in Nat /\ K[s] \in Nat /\ K[s] > 0 /\ s # NoSol
<1>1. Cost[s] \in Nat /\ s # NoSol  BY SolAssumption
<1>2. K[s] \in Nat \ {0}  BY SolAssumption
<1> QED BY <1>1, <1>2

(* A descent keeps a solution a solution, never dearer, never with more routes. *)
LEMMA DescentDown ==
  ASSUME NEW mode \in {"granular", "exhaustive"}, NEW st \in Stamps,
         ss \in Sol, expired \in BOOLEAN, Descent(mode, st)
  PROVE  /\ ss' \in Sol /\ Cost[ss'] <= Cost[ss] /\ K[ss'] <= K[ss]
         /\ ss' = ss \/ Cost[ss'] < Cost[ss]
         /\ stamps' \in Stamps /\ expired' \in BOOLEAN
<1>1. Cost[ss] \in Nat /\ K[ss] \in Nat  BY SolTypes
<1>2. CASE Idle(st)
  <2>1. ss' = ss /\ stamps' = st /\ expired' = expired  BY <1>2 DEF Descent
  <2> QED BY <2>1, <1>1
<1>3. CASE ~Idle(st)
  <2>1. ss' \in Downhill(ss)  BY <1>3 DEF Descent
  <2>2. ss' \in Sol /\ (ss' = ss \/ (Cost[ss'] < Cost[ss] /\ K[ss'] <= K[ss]))
    BY <2>1 DEF Downhill
  <2>3. Cost[ss'] \in Nat /\ K[ss'] \in Nat  BY <2>2, SolTypes
  <2>4. \/ stamps' = [sol |-> ss', mode |-> mode] /\ expired' = expired
        \/ stamps' = NoStamps /\ expired' = TRUE
    BY <1>3 DEF Descent
  <2>5. [sol |-> ss', mode |-> mode] \in Stamps /\ NoStamps \in Stamps  BY <2>2 DEF Stamps
  <2>6. stamps' \in Stamps /\ expired' \in BOOLEAN  BY <2>4, <2>5
  <2> QED BY <1>1, <2>2, <2>3, <2>6
<1> QED BY <1>2, <1>3

LEMMA PolishDown ==
  ASSUME ss \in Sol, expired \in BOOLEAN, stamps \in Stamps, Polish
  PROVE  /\ ss' \in Sol /\ Cost[ss'] <= Cost[ss] /\ K[ss'] <= K[ss]
         /\ ss' = ss \/ Cost[ss'] < Cost[ss]
         /\ stamps' \in Stamps /\ expired' \in BOOLEAN
<1>1. CASE cfg.exhaustiveOnBest /\ ~expired
  BY <1>1, DescentDown DEF Polish, Stamps
<1>2. CASE ~(cfg.exhaustiveOnBest /\ ~expired)
  BY <1>2, SolTypes DEF Polish, search
<1> QED BY <1>1, <1>2

LEMMA WorkTypes ==
  ASSUME NEW st \in Stamps, stallDue \in BOOLEAN, fdDue \in BOOLEAN, Work(st) \/ PolishWork
  PROVE  stallDue' \in BOOLEAN /\ fdDue' \in BOOLEAN
  BY DEF Work, PolishWork, Elapses, work

LEMMA PublishTypes ==
  ASSUME NEW s \in Sol, incumbents \in Seq(Sol), Publish(s)
  PROVE  incumbents' \in Seq(Sol)
  BY DEF Publish

-----------------------------------------------------------------------------
(* The control points at which the live solution, the result and the snapshot
   are there to be used. *)
SeedPcs == {"Seed", "Split", "SeedDescend"}
FdPcs   == {"FdDrain", "FdDescend", "FdPolish", "FdSqueeze", "FdJudge"}
KickPcs == {"KickDescend", "Judge", "NewBest", "Accept"}

Ready ==
  /\ pc \notin {"Seed", "Done"} => ss \in Sol
  /\ pc \notin SeedPcs \cup {"Done"} => routes \in Sol
  /\ pc \in SeedPcs => routes = NoSol
  /\ pc \in KickPcs => snap.sol \in Sol

Shape == TypeOK /\ Ready

LEMMA ShapeInit == Init => Shape
<1> SUFFICES ASSUME Init PROVE Shape  OBVIOUS
<1>1. cfg \in Configs  BY DEF Init
<1>2. 0 \in 0 .. cfg.historyLen - 1  BY <1>1, CfgTypes
<1>3. TypeOK
  <2>1. snap \in [sol : Sol \cup {NoSol}, stamps : Stamps]  BY DEF Init, Stamps
  <2>2. history \in [0 .. cfg.historyLen - 1 -> Nat \cup {Empty}]  BY DEF Init
  <2>3. incumbents \in Seq(Sol)  BY DEF Init
  <2> QED BY <1>1, <1>2, <2>1, <2>2, <2>3 DEF Init, TypeOK, PcStates, Stamps
<1>4. Ready  BY DEF Init, Ready, SeedPcs, KickPcs
<1> QED BY <1>3, <1>4 DEF Shape

LEMMA ShapeStep == Shape /\ [Next]_vars => Shape'
<1> SUFFICES ASSUME Shape, [Next]_vars PROVE Shape'  OBVIOUS
<1> USE DEF Shape
<1>t. TypeOK /\ Ready /\ cfg \in Configs  BY DEF TypeOK
<1> USE DEF search, result, lahc, work, count, fd
<1>1. CASE Tick
  BY <1>1, <1>t DEF Tick, TypeOK, Ready, Stamps
<1>2. CASE SeedFails
  BY <1>2, <1>t DEF SeedFails, Goto, TypeOK, Ready, PcStates, SeedPcs, KickPcs
<1>3. CASE GreedySeed
  <2>1. PICK g \in Sol : ss' = g /\ Publish(g)  BY <1>3 DEF GreedySeed
  <2>2. incumbents' \in Seq(Sol)  BY <2>1, <1>t, PublishTypes DEF TypeOK
  <2> QED BY <1>3, <1>t, <2>1, <2>2 DEF GreedySeed, Goto, TypeOK, Ready, PcStates, SeedPcs, KickPcs
<1>4. CASE WarmSeed
  BY <1>4, <1>t DEF WarmSeed, Goto, TypeOK, Ready, PcStates, SeedPcs, KickPcs
<1>5. CASE Split
  <2>1. ss \in Sol  BY <1>5, <1>t DEF Split, Goto, Ready
  <2>2. ss' \in Sol /\ incumbents' \in Seq(Sol)
    BY <1>5, <1>t, <2>1, PublishTypes DEF Split, TypeOK
  <2> QED BY <1>5, <1>t, <2>2 DEF Split, Goto, TypeOK, Ready, PcStates, SeedPcs, KickPcs
<1>6. CASE SeedDescend
  <2>1. ss \in Sol  BY <1>6, <1>t DEF SeedDescend, Goto, Ready
  <2>2. ss' \in Sol /\ stamps' \in Stamps /\ expired' \in BOOLEAN
    BY <1>6, <1>t, <2>1, DescentDown DEF SeedDescend, TypeOK, Stamps
  <2>3. incumbents' \in Seq(Sol)  BY <1>6, <1>t, <2>2, PublishTypes DEF SeedDescend, Adopt, TypeOK
  <2>4. Cost[ss'] \in Nat  BY <2>2, SolTypes
  <2> QED BY <1>6, <1>t, <2>2, <2>3, <2>4
          DEF SeedDescend, Adopt, Goto, TypeOK, Ready, PcStates, SeedPcs, KickPcs
<1>7. CASE SeedPolish
  <2>1. ss \in Sol  BY <1>7, <1>t DEF SeedPolish, Goto, Ready
  <2>2. ss' \in Sol /\ stamps' \in Stamps /\ expired' \in BOOLEAN
    BY <1>7, <1>t, <2>1, PolishDown DEF SeedPolish, TypeOK
  <2>3. incumbents' \in Seq(Sol)  BY <1>7, <1>t, <2>2, PublishTypes DEF SeedPolish, Adopt, TypeOK
  <2>4. Cost[ss'] \in Nat  BY <2>2, SolTypes
  <2>5. best' \in Nat /\ routes' \in Sol /\ improvedAt' \in Nat
    BY <1>7, <1>t, <2>2, <2>4 DEF SeedPolish, Adopt, Goto, TypeOK, Ready, SeedPcs
  <2> QED BY <1>7, <1>t, <2>2, <2>3, <2>4, <2>5
          DEF SeedPolish, Goto, TypeOK, Ready, PcStates, SeedPcs, KickPcs
<1>8. CASE FdDrain
  BY <1>8, <1>t DEF FdDrain, Goto, TypeOK, Ready, PcStates, SeedPcs, KickPcs
<1>9. CASE FdDescend
  <2>1. ss \in Sol  BY <1>9, <1>t DEF FdDescend, Goto, Ready
  <2>2. ss' \in Sol /\ stamps' \in Stamps /\ expired' \in BOOLEAN
    BY <1>9, <1>t, <2>1, DescentDown DEF FdDescend, TypeOK, Stamps
  <2>3. stallDue' \in BOOLEAN /\ fdDue' \in BOOLEAN
    BY <1>9, <1>t, WorkTypes DEF FdDescend, TypeOK, Stamps
  <2> QED BY <1>9, <1>t, <2>2, <2>3 DEF FdDescend, Goto, TypeOK, Ready, PcStates, SeedPcs, KickPcs
<1>10. CASE FdPolish
  <2>1. ss \in Sol  BY <1>10, <1>t DEF FdPolish, Goto, Ready
  <2>2. ss' \in Sol /\ stamps' \in Stamps /\ expired' \in BOOLEAN
    BY <1>10, <1>t, <2>1, PolishDown DEF FdPolish, TypeOK
  <2>3. stallDue' \in BOOLEAN /\ fdDue' \in BOOLEAN
    BY <1>10, <1>t, WorkTypes DEF FdPolish, TypeOK, Stamps
  <2> QED BY <1>10, <1>t, <2>2, <2>3 DEF FdPolish, Goto, TypeOK, Ready, PcStates, SeedPcs, KickPcs
<1>11. CASE FdSqueeze
  <2>1. ss' \in Sol /\ stamps' \in Stamps
    BY <1>11, <1>t DEF FdSqueeze, Downhill, TypeOK, Ready, Stamps
  <2>2. pc' \in {"FdDescend", "FdJudge"} /\ squeezed' \in BOOLEAN
    BY <1>11, <1>t DEF FdSqueeze, TypeOK
  <2> QED BY <1>11, <1>t, <2>1, <2>2 DEF FdSqueeze, TypeOK, Ready, PcStates, SeedPcs, KickPcs
<1>12. CASE FdJudge
  <2>1. ss \in Sol /\ routes \in Sol  BY <1>12, <1>t DEF FdJudge, Goto, Ready, SeedPcs
  <2>2. Cost[ss] \in Nat  BY <2>1, SolTypes
  <2>3. incumbents' \in Seq(Sol)
    BY <1>12, <1>t, <2>1, PublishTypes DEF FdJudge, Adopt, TypeOK
  <2>4. curr' \in Nat /\ best' \in Nat /\ routes' \in Sol /\ improvedAt' \in Nat
    BY <1>12, <1>t, <2>1, <2>2 DEF FdJudge, Adopt, TypeOK
  <2> QED BY <1>12, <1>t, <2>1, <2>3, <2>4
          DEF FdJudge, Goto, TypeOK, Ready, PcStates, SeedPcs, KickPcs
<1>13. CASE Drain
  <2>1. K[ss] \in Nat  BY <1>13, <1>t, SolTypes DEF Drain, Ready
  <2> QED BY <1>13, <1>t, <2>1 DEF Drain, TypeOK, Ready, PcStates, SeedPcs, KickPcs
<1>14. CASE DrainBack
  BY <1>14, <1>t DEF DrainBack, Goto, TypeOK, Ready, PcStates, SeedPcs, KickPcs
<1>15. CASE Stop
  BY <1>15, <1>t DEF Stop, Goto, TypeOK, Ready, PcStates, SeedPcs, KickPcs
<1>16. CASE Continue
  BY <1>16, <1>t DEF Continue, Goto, TypeOK, Ready, PcStates, SeedPcs, KickPcs
<1>17. CASE Restart
  BY <1>17, <1>t DEF Restart, Goto, TypeOK, Ready, PcStates, SeedPcs, KickPcs, Stamps
<1>18. CASE RestartFd
  BY <1>18, <1>t DEF RestartFd, FleetPhaseOrSkip, Goto, TypeOK, Ready, PcStates, SeedPcs, KickPcs
<1>19. CASE RestartReset
  <2>1. 0 \in 0 .. cfg.historyLen - 1  BY <1>t, CfgTypes
  <2> QED BY <1>19, <1>t, <2>1 DEF RestartReset, Goto, TypeOK, Ready, PcStates, SeedPcs, KickPcs
<1>20. CASE Period
  BY <1>20, <1>t DEF Period, FleetPhaseOrSkip, Goto, TypeOK, Ready, PcStates, SeedPcs, KickPcs
<1>21. CASE PeriodWork
  BY <1>21, <1>t DEF PeriodWork, FleetPhaseOrSkip, Goto, TypeOK, Ready, PcStates, SeedPcs, KickPcs
<1>22. CASE Kick
  <2>1. ss \in Sol  BY <1>22, <1>t DEF Kick, Goto, Ready
  <2>2. snap' = [sol |-> ss, stamps |-> stamps] /\ ss' \in Sol /\ stamps' \in Stamps
    BY <1>22, <1>t, <2>1 DEF Kick, TypeOK, Stamps
  <2>3. snap' \in [sol : Sol \cup {NoSol}, stamps : Stamps] /\ snap'.sol \in Sol
    BY <2>1, <2>2, <1>t DEF TypeOK
  <2> QED BY <1>22, <1>t, <2>2, <2>3 DEF Kick, Goto, TypeOK, Ready, PcStates, SeedPcs, KickPcs
<1>23. CASE KickDescend
  <2>1. ss \in Sol  BY <1>23, <1>t DEF KickDescend, Goto, Ready
  <2>2. ss' \in Sol /\ stamps' \in Stamps /\ expired' \in BOOLEAN
    BY <1>23, <1>t, <2>1, DescentDown DEF KickDescend, TypeOK
  <2>3. stallDue' \in BOOLEAN /\ fdDue' \in BOOLEAN
    BY <1>23, <1>t, WorkTypes DEF KickDescend, TypeOK
  <2> QED BY <1>23, <1>t, <2>2, <2>3
          DEF KickDescend, Goto, TypeOK, Ready, PcStates, SeedPcs, KickPcs
<1>24. CASE Judge
  BY <1>24, <1>t DEF Judge, Goto, TypeOK, Ready, PcStates, SeedPcs, KickPcs
<1>25. CASE NewBest
  <2>1. ss \in Sol  BY <1>25, <1>t DEF NewBest, Goto, Ready
  <2>2. ss' \in Sol /\ stamps' \in Stamps /\ expired' \in BOOLEAN
    BY <1>25, <1>t, <2>1, PolishDown DEF NewBest, TypeOK
  <2>3. stallDue' \in BOOLEAN /\ fdDue' \in BOOLEAN
    BY <1>25, <1>t, WorkTypes DEF NewBest, TypeOK, Stamps
  <2>4. incumbents' \in Seq(Sol)  BY <1>25, <1>t, <2>2, PublishTypes DEF NewBest, Adopt, TypeOK
  <2>5. Cost[ss'] \in Nat  BY <2>2, SolTypes
  <2> QED BY <1>25, <1>t, <2>2, <2>3, <2>4, <2>5
          DEF NewBest, Adopt, Goto, TypeOK, Ready, PcStates, SeedPcs, KickPcs
<1>26. CASE Accept
  <2>1. ss \in Sol /\ snap.sol \in Sol /\ snap.stamps \in Stamps
    BY <1>26, <1>t DEF Accept, AcceptWith, Goto, Ready, KickPcs, TypeOK
  <2>2. Cost[ss] \in Nat  BY <2>1, SolTypes
  <2>3. ss' \in Sol /\ stamps' \in Stamps /\ curr' \in Nat
    BY <1>26, <1>t, <2>1, <2>2 DEF Accept, AcceptWith, Restore, TypeOK
  <2>4. history' \in [0 .. cfg.historyLen - 1 -> Nat \cup {Empty}]
    BY <1>26, <1>t, <2>3 DEF Accept, AcceptWith, TypeOK
  <2>5. historyIdx' \in 0 .. cfg.historyLen - 1
    BY <1>26, <1>t, CfgTypes DEF Accept, AcceptWith, NextSlot, TypeOK
  <2>6. iteration' \in Nat  BY <1>26, <1>t DEF Accept, AcceptWith, TypeOK
  <2> QED BY <1>26, <1>t, <2>3, <2>4, <2>5, <2>6
          DEF Accept, AcceptWith, Goto, TypeOK, Ready, PcStates, SeedPcs, KickPcs
<1>27. CASE Finish
  BY <1>27, <1>t DEF Finish, Goto, TypeOK, Ready, PcStates, SeedPcs, KickPcs
<1>28. CASE UNCHANGED vars
  BY <1>28, <1>t DEF vars, TypeOK, Ready, Stamps
<1> QED
  BY <1>1, <1>2, <1>3, <1>4, <1>5, <1>6, <1>7, <1>8, <1>9, <1>10, <1>11, <1>12, <1>13, <1>14,
     <1>15, <1>16, <1>17, <1>18, <1>19, <1>20, <1>21, <1>22, <1>23, <1>24, <1>25, <1>26, <1>27,
     <1>28 DEF Next, Step, Seeding, FleetDescent, LoopTop, Iteration

LEMMA ShapeAlways == Spec => []Shape
<1>1. Init => Shape  BY ShapeInit
<1>2. Shape /\ [Next]_vars => Shape'  BY ShapeStep
<1> QED BY <1>1, <1>2, PTL DEF Spec

(* Every local of solve_ils and every field of its result keeps its type:
   the history ring is indexed inside its bounds, the live solution and the
   incumbents are feasible solutions. *)
THEOREM Typing == Spec => []TypeOK
<1>1. Shape => TypeOK  BY DEF Shape
<1> QED BY <1>1, ShapeAlways, PTL

-----------------------------------------------------------------------------
(* The prices the driver carries by hand.  Inside an iteration `curr` prices
   the snapshot; inside a fleet-descent phase that has changed the state it
   prices nothing until FdJudge. *)
QuietPcs == LoopTopPcs \cup {"SeedPolish", "DrainBack", "RestartFd", "FdDrain"}

Prices ==
  /\ pc \notin SeedPcs \cup {"Done"} => best = Cost[routes]
  /\ pc \in QuietPcs => curr = Cost[ss] /\ best <= curr
  /\ pc \in {"FdSqueeze", "FdJudge"} /\ ~dropped /\ ~squeezed => curr = Cost[ss] /\ best <= curr
  /\ pc \in {"FdDescend", "FdPolish"} => dropped \/ squeezed
  /\ pc \in KickPcs => curr = Cost[snap.sol] /\ best <= curr
  /\ pc = "NewBest" => Cost[ss] < best
  /\ pc = "Accept" => CapReject \/ best <= Cost[ss]

LEMMA PricesStep == Shape /\ Shape' /\ Prices /\ [Next]_vars => Prices'
<1> SUFFICES ASSUME Shape, Shape', Prices, [Next]_vars PROVE Prices'  OBVIOUS
<1>t. /\ TypeOK /\ Ready /\ cfg \in Configs
      /\ TypeOK' /\ Ready'
  BY DEF Shape, TypeOK
<1>n. \A s \in Sol : Cost[s] \in Nat /\ K[s] \in Nat  BY SolTypes
<1> USE DEF search, result, lahc, work, count, fd, Prices, QuietPcs, LoopTopPcs, SeedPcs, KickPcs,
            Goto, CapReject, CapActive
<1>1. CASE Tick  BY <1>1 DEF Tick
<1>2. CASE Seeding
  <2>1. CASE SeedFails \/ GreedySeed \/ WarmSeed \/ Split
    BY <2>1 DEF SeedFails, GreedySeed, WarmSeed, Split
  <2>2. CASE SeedDescend
    <3>1. ss' \in Sol  BY <2>2, <1>t DEF SeedDescend, Ready
    <3> QED BY <2>2, <3>1, <1>n DEF SeedDescend, Adopt
  <2>3. CASE SeedPolish
    <3>1. ss \in Sol /\ ss' \in Sol /\ routes \in Sol /\ best \in Nat
      BY <2>3, <1>t DEF SeedPolish, Ready, TypeOK
    <3>2. Cost[ss'] <= Cost[ss]  BY <2>3, <1>t, <3>1, PolishDown DEF SeedPolish, TypeOK
    <3>3. best' = Cost[routes'] /\ best' <= Cost[ss']
      BY <2>3, <3>1, <1>n DEF SeedPolish, Adopt
    <3> QED BY <2>3, <3>3 DEF SeedPolish
  <2> QED BY <1>2, <2>1, <2>2, <2>3 DEF Seeding
<1>3. CASE FleetDescent
  <2>1. CASE FdDrain \/ FdDescend \/ FdPolish \/ FdSqueeze
    BY <2>1, <1>t DEF FdDrain, FdDescend, FdPolish, FdSqueeze, TypeOK
  <2>2. CASE FdJudge
    <3>1. ss \in Sol /\ routes \in Sol /\ best \in Nat /\ pc' = ret
      BY <2>2, <1>t DEF FdJudge, Ready, TypeOK
    <3>2. curr' = Cost[ss'] /\ best' <= curr' /\ best' = Cost[routes']
      BY <2>2, <3>1, <1>n DEF FdJudge, Adopt
    <3> QED BY <2>2, <3>1, <3>2, <1>t DEF FdJudge, TypeOK
  <2> QED BY <1>3, <2>1, <2>2 DEF FleetDescent
<1>4. CASE Drain \/ DrainBack  BY <1>4 DEF Drain, DrainBack
<1>5. CASE LoopTop
  <2>1. CASE Restart
    <3>1. best \in Nat /\ ss' = routes /\ curr' = best  BY <2>1, <1>t DEF Restart, TypeOK
    <3> QED BY <2>1, <3>1 DEF Restart
  <2>2. CASE Stop \/ Continue \/ RestartReset  BY <2>2 DEF Stop, Continue, RestartReset
  <2>3. CASE RestartFd \/ Period \/ PeriodWork
    BY <2>3 DEF RestartFd, Period, PeriodWork, FleetPhaseOrSkip
  <2> QED BY <1>5, <2>1, <2>2, <2>3 DEF LoopTop
<1>6. CASE Iteration
  <2>1. CASE Kick
    <3>1. snap'.sol = ss  BY <2>1 DEF Kick
    <3> QED BY <2>1, <3>1 DEF Kick
  <2>2. CASE KickDescend  BY <2>2 DEF KickDescend
  <2>3. CASE Judge
    <3>1. ss \in Sol /\ best \in Nat  BY <2>3, <1>t DEF Judge, Ready, TypeOK
    <3> QED BY <2>3, <3>1, <1>n DEF Judge
  <2>4. CASE NewBest
    <3>1. ss \in Sol /\ ss' \in Sol /\ best \in Nat /\ curr \in Nat
      BY <2>4, <1>t DEF NewBest, Ready, TypeOK
    <3>2. Cost[ss'] <= Cost[ss]  BY <2>4, <1>t, <3>1, PolishDown DEF NewBest, TypeOK
    <3>3. best' = Cost[ss'] /\ routes' = ss' /\ best' <= curr
      BY <2>4, <3>1, <3>2, <1>n DEF NewBest, Adopt
    <3> QED BY <2>4, <3>1, <3>3, <1>n DEF NewBest
  <2>5. CASE Accept
    <3>1. ss \in Sol /\ snap.sol \in Sol /\ best \in Nat  BY <2>5, <1>t DEF Accept, AcceptWith, Ready, TypeOK
    <3>2. curr' = Cost[ss'] /\ best <= curr'
      BY <2>5, <3>1 DEF Accept, AcceptWith, Restore
    <3> QED BY <2>5, <3>2 DEF Accept, AcceptWith
  <2> QED BY <1>6, <2>1, <2>2, <2>3, <2>4, <2>5 DEF Iteration
<1>7. CASE Finish  BY <1>7 DEF Finish
<1>8. CASE UNCHANGED vars  BY <1>8 DEF vars
<1> QED BY <1>1, <1>2, <1>3, <1>4, <1>5, <1>6, <1>7, <1>8 DEF Next, Step

LEMMA PricesAlways == Spec => []Prices
<1>1. Init => Prices
  BY DEF Init, Prices, QuietPcs, LoopTopPcs, SeedPcs, KickPcs
<1>2. Shape /\ Shape' /\ Prices /\ [Next]_vars => Prices'  BY PricesStep
<1> QED BY <1>1, <1>2, ShapeAlways, PTL DEF Spec

(* At every loop head, restart, trigger and kick, curr is the price of the
   live solution, and best is the price of result.routes and its lower bound. *)
THEOREM PricesInStep == Spec => []CurrPricesState
<1>1. Shape /\ Prices => CurrPricesState
  BY DEF Shape, Ready, Prices, CurrPricesState, QuietPcs, LoopTopPcs, SeedPcs
<1> QED BY <1>1, ShapeAlways, PricesAlways, PTL

-----------------------------------------------------------------------------
(* The stream, the result and the cap.  `Fits` is the publication guard on the
   route count, `Exact` the runs whose seed is never replaced after it was
   published.  A result that fits has been published; in an exact run nothing
   else was published after it, so an above-cap result means an empty stream. *)
Fits(s) == CapActive => K[s] <= cfg.kCap
Exact == cfg.priced \/ cfg.warm \/ ~cfg.splitSeed
Newest == incumbents[Len(incumbents)]

NewestFits == incumbents # <<>> => Fits(Newest)

ResultLinked ==
  /\ Fits(routes) => incumbents # <<>>
  /\ incumbents # <<>> /\ Exact => Newest = routes

SeedLinked ==
  /\ incumbents # <<>> /\ Exact => Newest = ss
  /\ ~Exact => incumbents # <<>>

Link ==
  /\ NewestFits
  /\ pc = "Seed" => incumbents = <<>>
  /\ pc = "Split" => ~cfg.warm
  /\ pc \in {"Split", "SeedDescend"} => SeedLinked
  /\ pc \notin SeedPcs \cup {"Done"} => ResultLinked
  /\ pc = "Done" /\ routes \in Sol => Fits(routes)
  /\ pc \notin SeedPcs \cup KickPcs \cup {"Done"} /\ incumbents # <<>> => Fits(ss)
  /\ pc \in KickPcs \ {"Accept"} /\ incumbents # <<>> => Fits(snap.sol)
  /\ pc = "NewBest" => ~CapReject
  /\ pc = "Accept" /\ incumbents # <<>> =>
       Fits(snap.sol) \/ (Fits(ss) /\ ~CapReject /\ Cost[ss] < curr)

LEMMA PublishCases ==
  ASSUME NEW s \in Sol, incumbents \in Seq(Sol), Publish(s)
  PROVE  \/ Publishable(s, incumbents) /\ incumbents' # <<>> /\ Newest' = s
         \/ ~Publishable(s, incumbents) /\ incumbents' = incumbents /\ Newest' = Newest
  BY DEF Publish, Newest

LEMMA AdoptLinks ==
  ASSUME NEW s \in Sol, NEW when, cfg \in Configs, cfg' = cfg,
         incumbents \in Seq(Sol), routes \in Sol, best = Cost[routes],
         NewestFits, ResultLinked, Cost[s] < best, incumbents # <<>> => Fits(s), Adopt(s, when)
  PROVE  /\ NewestFits' /\ ResultLinked'
         /\ incumbents' # <<>> => Fits(s)
<1> USE DEF Fits, CapActive
<1>1. Publish(s) /\ routes' = s  BY DEF Adopt
<1>2. CASE Publishable(s, incumbents)
  <2>1. incumbents' # <<>> /\ Newest' = s /\ Fits(s)  BY <1>1, <1>2, PublishCases DEF Publishable
  <2> QED BY <1>1, <2>1 DEF NewestFits, ResultLinked, Exact
<1>3. CASE ~Publishable(s, incumbents)
  <2>1. incumbents' = incumbents /\ Newest' = Newest  BY <1>1, <1>3, PublishCases
  <2>2. CASE incumbents = <<>>
    <3>1. ~Fits(s)  BY <1>3, <2>2 DEF Publishable
    <3> QED BY <1>1, <2>1, <2>2, <3>1 DEF NewestFits, ResultLinked
  <2>3. CASE incumbents # <<>>
    <3>1. ~(Cost[s] < Cost[Newest])  BY <1>3, <2>3 DEF Publishable, Newest
    <3>2. ~Exact  BY <3>1, <2>3 DEF ResultLinked
    <3> QED BY <1>1, <2>1, <2>3, <3>2 DEF NewestFits, ResultLinked, Exact
  <2> QED BY <2>2, <2>3
<1> QED BY <1>2, <1>3

LEMMA LinkStep == Shape /\ Shape' /\ Prices /\ Link /\ [Next]_vars => Link'
<1> SUFFICES ASSUME Shape, Shape', Prices, Link, [Next]_vars PROVE Link'  OBVIOUS
<1>t. /\ TypeOK /\ Ready /\ cfg \in Configs
      /\ TypeOK' /\ Ready'
  BY DEF Shape, TypeOK
<1>n. \A s \in Sol : Cost[s] \in Nat /\ K[s] \in Nat  BY SolTypes
<1>k. cfg.kCap \in Nat /\ incumbents \in Seq(Sol)  BY <1>t, CfgTypes DEF TypeOK
<1> DEFINE Kept == UNCHANGED <<cfg, ss, snap, curr, routes, incumbents>>
<1> USE DEF search, result, lahc, work, count, fd
<1>x. ASSUME Kept
      PROVE  /\ NewestFits <=> NewestFits'
             /\ ResultLinked <=> ResultLinked'
             /\ SeedLinked <=> SeedLinked'
             /\ Fits(ss) <=> Fits(ss)'
             /\ Fits(snap.sol) <=> Fits(snap.sol)'
             /\ Fits(routes) <=> Fits(routes)'
             /\ CapReject <=> CapReject'
  BY <1>x DEF NewestFits, ResultLinked, SeedLinked, Fits, Newest, Exact, CapActive, CapReject
<1>1. CASE Tick \/ UNCHANGED vars
  <2>1. Kept /\ pc' = pc  BY <1>1 DEF Tick, vars
  <2> QED BY <2>1, <1>x DEF Link
<1>2. CASE Seeding
  <2>1. CASE SeedFails
    BY <2>1, <1>t, SolAssumption DEF SeedFails, Goto, Link, NewestFits, SeedPcs, KickPcs, Ready
  <2>2. CASE GreedySeed
    <3>0. ~cfg.warm  BY <2>2 DEF GreedySeed
    <3>1. PICK g \in Sol : ss' = g /\ Publish(g)  BY <2>2 DEF GreedySeed
    <3>2. incumbents = <<>> /\ cfg' = cfg /\ pc' = "Split"  BY <2>2 DEF GreedySeed, Goto, Link
    <3>3. CASE Publishable(g, incumbents)
      <4>1. incumbents' # <<>> /\ Newest' = g /\ Fits(g)
        BY <3>1, <3>3, <1>k, PublishCases DEF Publishable, Fits
      <4> QED BY <3>0, <3>1, <3>2, <4>1 DEF Link, NewestFits, SeedLinked, Fits, CapActive, SeedPcs, KickPcs
    <3>4. CASE ~Publishable(g, incumbents)
      <4>1. incumbents' = <<>> /\ cfg.priced
        BY <3>1, <3>2, <3>4, <1>k, PublishCases DEF Publishable, CapActive
      <4> QED BY <3>0, <3>2, <4>1 DEF Link, NewestFits, SeedLinked, Exact, SeedPcs, KickPcs
    <3> QED BY <3>3, <3>4
  <2>3. CASE WarmSeed
    BY <2>3 DEF WarmSeed, Goto, Link, NewestFits, SeedLinked, Exact, SeedPcs, KickPcs
  <2>4. CASE Split
    <3>1. cfg' = cfg /\ pc' = "SeedDescend" /\ pc = "Split" /\ SeedLinked /\ NewestFits
      BY <2>4 DEF Split, Goto, Link
    <3>2. CASE UNCHANGED <<ss, incumbents>>
      BY <3>1, <3>2 DEF Link, NewestFits, SeedLinked, Fits, Newest, Exact, CapActive, SeedPcs, KickPcs
    <3>3. CASE ~UNCHANGED <<ss, incumbents>>
      <4>1. PICK t \in Sol : ss' = t /\ Publish(t) /\ ~cfg.priced /\ cfg.splitSeed
        BY <2>4, <3>3 DEF Split
      <4>2. incumbents # <<>> => incumbents' # <<>>  BY <4>1, <1>k, PublishCases
      <4>3. ~CapActive /\ ~CapActive'  BY <4>1, <3>1 DEF CapActive
      <4>4. ~cfg.warm  BY <3>1 DEF Link
      <4> QED BY <3>1, <4>1, <4>2, <4>3, <4>4
              DEF Link, NewestFits, SeedLinked, Fits, Exact, SeedPcs, KickPcs
    <3> QED BY <3>2, <3>3
  <2>5. CASE SeedDescend
    <3>1. /\ pc = "SeedDescend" /\ pc' = "SeedPolish" /\ cfg' = cfg /\ SeedLinked /\ NewestFits
          /\ ss \in Sol /\ ss' \in Sol /\ Publish(ss') /\ routes' = ss'
      BY <2>5, <1>t DEF SeedDescend, Goto, Link, Ready, Adopt
    <3>2. K[ss'] <= K[ss] /\ (ss' = ss \/ Cost[ss'] < Cost[ss])
      BY <2>5, <3>1, <1>t, DescentDown DEF SeedDescend, TypeOK, Stamps
    <3>3. CASE Publishable(ss', incumbents)
      <4>1. incumbents' # <<>> /\ Newest' = ss' /\ Fits(ss')
        BY <3>1, <3>3, <1>k, PublishCases DEF Publishable, Fits
      <4> QED BY <3>1, <4>1 DEF Link, NewestFits, ResultLinked, Fits, CapActive, SeedPcs, KickPcs
    <3>4. CASE ~Publishable(ss', incumbents)
      <4>1. incumbents' = incumbents /\ Newest' = Newest  BY <3>1, <3>4, <1>k, PublishCases
      <4>2. CASE incumbents = <<>>
        <5>1. ~Fits(ss')  BY <3>4, <4>2 DEF Publishable, Fits
        <5> QED BY <3>1, <4>1, <4>2, <5>1
                DEF Link, NewestFits, ResultLinked, Fits, CapActive, SeedPcs, KickPcs
      <4>3. CASE incumbents # <<>> /\ Exact
        <5>1. Newest = ss /\ Fits(ss)  BY <3>1, <4>3 DEF SeedLinked, NewestFits
        <5>2. Fits(ss')  BY <3>1, <3>2, <5>1, <1>n, <1>k DEF Fits
        <5>3. ss' = ss  BY <3>2, <3>4, <4>3, <5>1, <5>2 DEF Publishable, Fits, Newest
        <5> QED BY <3>1, <4>1, <4>3, <5>1, <5>3
                DEF Link, NewestFits, ResultLinked, Fits, CapActive, SeedPcs, KickPcs
      <4>4. CASE incumbents # <<>> /\ ~Exact
        BY <3>1, <4>1, <4>4
           DEF Link, NewestFits, ResultLinked, Fits, CapActive, Exact, SeedPcs, KickPcs
      <4> QED BY <4>2, <4>3, <4>4
    <3> QED BY <3>3, <3>4
  <2>6. CASE SeedPolish
    <3>1. /\ pc = "SeedPolish" /\ pc' \in {"Drain", "Head"} /\ cfg' = cfg
          /\ ResultLinked /\ NewestFits /\ (incumbents # <<>> => Fits(ss))
          /\ ss \in Sol /\ ss' \in Sol /\ routes \in Sol /\ best = Cost[routes]
      BY <2>6, <1>t DEF SeedPolish, Goto, Link, Prices, Ready, SeedPcs, KickPcs
    <3>2. K[ss'] <= K[ss]  BY <2>6, <3>1, <1>t, PolishDown DEF SeedPolish, TypeOK
    <3>3. incumbents # <<>> => Fits(ss')  BY <3>1, <3>2, <1>n, <1>k DEF Fits
    <3>4. NewestFits' /\ ResultLinked' /\ (incumbents' # <<>> => Fits(ss'))
      <4>1. CASE Cost[ss'] < best
        BY <2>6, <4>1, <3>1, <3>3, <1>t, <1>k, AdoptLinks DEF SeedPolish
      <4>2. CASE ~(Cost[ss'] < best)
        BY <2>6, <4>2, <3>1, <3>3
           DEF SeedPolish, NewestFits, ResultLinked, Newest, Fits, CapActive, Exact
      <4> QED BY <4>1, <4>2
    <3> QED BY <3>1, <3>4 DEF Link, Fits, CapActive, SeedPcs, KickPcs
  <2> QED BY <1>2, <2>1, <2>2, <2>3, <2>4, <2>5, <2>6 DEF Seeding
<1>3. CASE FleetDescent
  <2>1. /\ pc \in FdPcs /\ cfg' = cfg /\ snap' = snap /\ ResultLinked /\ NewestFits
        /\ (incumbents # <<>> => Fits(ss)) /\ ss \in Sol /\ ss' \in Sol
    BY <1>3, <1>t DEF FleetDescent, FdDrain, FdDescend, FdPolish, FdSqueeze, FdJudge, Goto, Link,
       Ready, SeedPcs, KickPcs, FdPcs
  <2>2. CASE FdDrain \/ FdDescend \/ FdPolish \/ FdSqueeze
    <3>1. K[ss'] <= K[ss]
      <4>1. CASE FdDrain  BY <4>1, <2>1, <1>n DEF FdDrain
      <4>2. CASE FdDescend  BY <4>2, <2>1, <1>t, DescentDown DEF FdDescend, TypeOK, Stamps
      <4>3. CASE FdPolish  BY <4>3, <2>1, <1>t, PolishDown DEF FdPolish, TypeOK
      <4>4. CASE FdSqueeze  BY <4>4, <2>1, <1>n DEF FdSqueeze, Downhill
      <4> QED BY <2>2, <4>1, <4>2, <4>3, <4>4
    <3>2. incumbents # <<>> => Fits(ss')  BY <2>1, <3>1, <1>n, <1>k DEF Fits
    <3>3. pc' \in FdPcs /\ incumbents' = incumbents /\ routes' = routes
      BY <2>2 DEF FdDrain, FdDescend, FdPolish, FdSqueeze, Goto, FdPcs
    <3> QED BY <2>1, <3>2, <3>3 DEF Link, NewestFits, ResultLinked, Newest, Fits, CapActive, Exact,
            SeedPcs, KickPcs, FdPcs
  <2>3. CASE FdJudge
    <3>1. /\ pc = "FdJudge" /\ pc' = ret /\ ss' = ss /\ routes \in Sol /\ best = Cost[routes]
          /\ ret \in {"DrainBack", "RestartReset", "PeriodWork", "Kick"}
      BY <2>3, <1>t DEF FdJudge, Goto, Ready, Prices, SeedPcs, TypeOK
    <3>2. NewestFits' /\ ResultLinked' /\ (incumbents' # <<>> => Fits(ss))
      <4>1. CASE (dropped \/ squeezed) /\ Cost[ss] < best
        BY <2>3, <4>1, <2>1, <3>1, <1>t, <1>k, AdoptLinks DEF FdJudge
      <4>2. CASE ~((dropped \/ squeezed) /\ Cost[ss] < best)
        BY <2>3, <4>2, <2>1, <3>1
           DEF FdJudge, NewestFits, ResultLinked, Newest, Fits, CapActive, Exact
      <4> QED BY <4>1, <4>2
    <3> QED BY <2>1, <3>1, <3>2 DEF Link, Fits, CapActive, SeedPcs, KickPcs
  <2> QED BY <1>3, <2>2, <2>3 DEF FleetDescent
<1>4. CASE Drain \/ DrainBack
  <2>1. Kept /\ pc \in {"Drain", "DrainBack"} /\ pc' \in {"Drain", "Head", "FdDrain"}
    BY <1>4 DEF Drain, DrainBack, Goto
  <2> QED BY <2>1, <1>x DEF Link, SeedPcs, KickPcs
<1>5. CASE LoopTop
  <2>1. CASE Restart
    <3>1. /\ pc = "Head" /\ pc' = "RestartFd" /\ ss' = routes
          /\ UNCHANGED <<cfg, routes, incumbents>> /\ ResultLinked /\ NewestFits
      BY <2>1 DEF Restart, Goto, Link, SeedPcs, KickPcs
    <3>2. incumbents # <<>> => Fits(routes)
      BY <3>1 DEF NewestFits, ResultLinked, Fits, Exact, CapActive
    <3> QED BY <3>1, <3>2 DEF Link, NewestFits, ResultLinked, Newest, Fits, CapActive, Exact,
            SeedPcs, KickPcs
  <2>2. CASE ~Restart
    <3>1. /\ Kept /\ pc \in {"Head", "RestartFd", "RestartReset", "Period", "PeriodWork"}
          /\ pc' \in {"Finish", "Period", "RestartReset", "FdDrain", "PeriodWork", "Kick"}
      BY <1>5, <2>2 DEF LoopTop, Stop, Continue, RestartFd, RestartReset, Period, PeriodWork,
         FleetPhaseOrSkip, Goto
    <3> QED BY <3>1, <1>x DEF Link, SeedPcs, KickPcs
  <2> QED BY <2>1, <2>2
<1>6. CASE Iteration
  <2>1. CASE Kick
    <3>1. snap'.sol = ss /\ pc = "Kick" /\ pc' = "KickDescend"
          /\ UNCHANGED <<cfg, routes, incumbents>>
      BY <2>1 DEF Kick, Goto
    <3> QED BY <3>1 DEF Link, NewestFits, ResultLinked, Newest, Fits, CapActive, Exact,
            SeedPcs, KickPcs
  <2>2. CASE KickDescend
    BY <2>2 DEF KickDescend, Goto, Link, NewestFits, ResultLinked, Newest, Fits, CapActive, Exact,
       SeedPcs, KickPcs
  <2>3. CASE Judge
    <3>1. Kept /\ pc = "Judge" /\ pc' \in {"NewBest", "Accept"} /\ (pc' = "NewBest" => ~CapReject)
      BY <2>3 DEF Judge, Goto
    <3> QED BY <3>1, <1>x DEF Link, SeedPcs, KickPcs
  <2>4. CASE NewBest
    <3>1. /\ pc = "NewBest" /\ pc' = "Accept" /\ cfg' = cfg /\ snap' = snap /\ curr' = curr
          /\ ss \in Sol /\ ss' \in Sol /\ routes \in Sol /\ snap.sol \in Sol
          /\ best = Cost[routes] /\ Cost[ss] < best /\ best <= curr /\ ~CapReject
          /\ ResultLinked /\ NewestFits /\ (incumbents # <<>> => Fits(snap.sol))
          /\ best \in Nat /\ curr \in Nat /\ Adopt(ss', iteration + 1)
      BY <2>4, <1>t DEF NewBest, Goto, Link, Prices, Ready, TypeOK, SeedPcs, KickPcs
    <3>2. Cost[ss'] <= Cost[ss] /\ K[ss'] <= K[ss]
      BY <2>4, <3>1, <1>t, PolishDown DEF NewBest, TypeOK
    <3>3. Cost[ss'] < best /\ Cost[ss'] < curr  BY <3>1, <3>2, <1>n
    <3>4. ~CapReject'  BY <3>1, <3>2, <1>n, <1>k DEF CapReject, CapActive
    <3>5. incumbents # <<>> => Fits(ss')
      BY <3>1, <3>2, <1>n, <1>k DEF Fits, CapReject
    <3>6. NewestFits' /\ ResultLinked' /\ (incumbents' # <<>> => Fits(ss'))
      BY <3>1, <3>3, <3>5, <1>t, <1>k, AdoptLinks
    <3> QED BY <3>1, <3>3, <3>4, <3>6 DEF Link, Fits, CapActive, SeedPcs, KickPcs
  <2>5. CASE Accept
    <3>1. /\ pc = "Accept" /\ pc' = "Head" /\ UNCHANGED <<cfg, routes, incumbents>>
          /\ ss \in Sol /\ snap.sol \in Sol
      BY <2>5, <1>t DEF Accept, AcceptWith, Goto, Ready, KickPcs
    <3>2. \/ ss' = ss /\ ~CapReject
          \/ ss' = snap.sol /\ (CapReject \/ ~(Cost[ss] < curr))
      BY <2>5 DEF Accept, AcceptWith, Admits, Restore
    <3>3. incumbents # <<>> => Fits(ss')
      BY <3>1, <3>2, <1>n, <1>k DEF Link, Fits, CapReject, KickPcs
    <3> QED BY <3>1, <3>3 DEF Link, NewestFits, ResultLinked, Newest, Fits, CapActive, Exact,
            SeedPcs, KickPcs
  <2> QED BY <1>6, <2>1, <2>2, <2>3, <2>4, <2>5 DEF Iteration
<1>7. CASE Finish
  <2>1. pc = "Finish" /\ pc' = "Done" /\ UNCHANGED <<cfg, incumbents>> /\ routes \in Sol
    BY <1>7, <1>t DEF Finish, Goto, Ready, SeedPcs
  <2>2. routes' \in Sol => Fits(routes')
    BY <1>7, <2>1, <1>n, <1>k, SolAssumption DEF Finish, Fits
  <2> QED BY <2>1, <2>2 DEF Link, NewestFits, Newest, Fits, CapActive, SeedPcs, KickPcs
<1> QED BY <1>1, <1>2, <1>3, <1>4, <1>5, <1>6, <1>7 DEF Next, Step

LEMMA LinkAlways == Spec => []Link
<1>1. Init => Link
  BY DEF Init, Link, NewestFits, SeedPcs, KickPcs
<1>2. Shape /\ Shape' /\ Prices /\ Link /\ [Next]_vars => Link'  BY LinkStep
<1> QED BY <1>1, <1>2, ShapeAlways, PricesAlways, PTL DEF Spec

(* Once something was published under the cap, the live solution at every loop
   head and the restart target have at most k_cap routes. *)
THEOREM CapHolds == Spec => []CappedForever
<1>1. Shape /\ Link => CappedForever
  <2> SUFFICES ASSUME Shape, Link, CapActive, incumbents # <<>>
               PROVE  /\ routes \in Sol => K[routes] <= cfg.kCap
                      /\ pc \in LoopTopPcs => K[ss] <= cfg.kCap
    BY DEF CappedForever
  <2>1. pc \in LoopTopPcs => K[ss] <= cfg.kCap
    BY DEF Link, Fits, LoopTopPcs, SeedPcs, KickPcs
  <2>2. CASE pc \in SeedPcs
    BY <2>2, SolAssumption, <2>1 DEF Shape, Ready
  <2>3. CASE pc \notin SeedPcs \cup {"Done"}
    BY <2>3, <2>1 DEF Link, NewestFits, ResultLinked, Fits, Exact, CapActive
  <2>4. CASE pc = "Done"
    BY <2>1, <2>4 DEF Link, Fits
  <2> QED BY <2>1, <2>2, <2>3, <2>4
<1> QED BY <1>1, ShapeAlways, LinkAlways, PTL

-----------------------------------------------------------------------------
(* The driver implements AnytimeStream: every step publishes one admissible
   incumbent, returns, or leaves the stream alone. *)
LEMMA OnlyPublish ==
  ASSUME Shape, Shape', Next, pc' # "Done"
  PROVE  /\ cfg' = cfg /\ pc # "Done"
         /\ incumbents' = incumbents \/ \E s \in Sol : Publish(s)
<1> USE DEF search, result, lahc, work, count, fd, Goto
<1>1. CASE Tick  BY <1>1 DEF Tick
<1>2. CASE Seeding
  BY <1>2 DEF Seeding, SeedFails, GreedySeed, WarmSeed, Split, SeedDescend, SeedPolish, Adopt,
     Shape, Ready
<1>3. CASE FleetDescent
  BY <1>3 DEF FleetDescent, FdDrain, FdDescend, FdPolish, FdSqueeze, FdJudge, Adopt, Shape, Ready
<1>4. CASE Drain \/ DrainBack \/ LoopTop
  BY <1>4 DEF Drain, DrainBack, LoopTop, Stop, Continue, Restart, RestartFd, RestartReset, Period,
     PeriodWork, FleetPhaseOrSkip
<1>5. CASE Iteration
  BY <1>5 DEF Iteration, Kick, KickDescend, Judge, NewBest, Accept, AcceptWith, Adopt, Shape, Ready
<1>6. CASE Finish  BY <1>6 DEF Finish
<1> QED BY <1>1, <1>2, <1>3, <1>4, <1>5, <1>6 DEF Next, Step

LEMMA StreamStep ==
  Shape /\ Shape' /\ Link /\ [Next]_vars => [Stream!StreamNext]_(Stream!streamVars)
<1> SUFFICES ASSUME Shape, Shape', Link, [Next]_vars
             PROVE  Stream!StreamNext \/ UNCHANGED Stream!streamVars
  OBVIOUS
<1>t. cfg.kCap \in Nat /\ incumbents \in Seq(Sol)  BY CfgTypes DEF Shape, TypeOK
<1>f. ASSUME NEW s  PROVE Fits(s) => Stream!Within(s)
  BY DEF Fits, Stream!Within
<1>1. CASE UNCHANGED vars
  BY <1>1 DEF vars, result, Stream!streamVars, CapActive
<1>2. CASE Next /\ pc' # "Done"
  <2>1. cfg' = cfg /\ pc # "Done"  BY <1>2, OnlyPublish
  <2>2. CASE incumbents' = incumbents
    BY <1>2, <2>1, <2>2 DEF Stream!streamVars, CapActive
  <2>3. CASE incumbents' # incumbents
    <3>1. PICK s \in Sol : Publish(s)  BY <1>2, <2>3, OnlyPublish
    <3>2. Publishable(s, incumbents) /\ incumbents' = Append(incumbents, s)
      BY <2>3, <3>1 DEF Publish
    <3>3. Stream!Within(s)  BY <3>2, <1>f DEF Publishable, Fits
    <3>4. Stream!Announce(s)
      BY <1>2, <2>1, <3>2, <3>3 DEF Publishable, Stream!Announce, CapActive
    <3> QED BY <3>4 DEF Stream!StreamNext
  <2> QED BY <2>2, <2>3
<1>3. CASE Next /\ pc' = "Done"
  <2>1. CASE SeedFails
    <3>1. /\ pc = "Seed" /\ incumbents = <<>> /\ routes = NoSol
          /\ UNCHANGED <<cfg, incumbents, routes>>
      BY <2>1 DEF SeedFails, Goto, Link, Shape, Ready, SeedPcs, result
    <3>2. Stream!Return(NoSol)  BY <1>3, <3>1 DEF Stream!Return, CapActive
    <3> QED BY <3>2 DEF Stream!StreamNext
  <2>2. CASE Finish
    <3>1. /\ pc = "Finish" /\ UNCHANGED <<cfg, incumbents>> /\ routes \in Sol
          /\ ResultLinked /\ NewestFits
          /\ routes' = IF Fits(routes) THEN routes ELSE NoSol
      <4>1. pc = "Finish" /\ UNCHANGED <<cfg, incumbents>>  BY <2>2 DEF Finish, Goto
      <4>2. routes \in Sol /\ ResultLinked /\ NewestFits
        BY <4>1 DEF Link, Shape, Ready, SeedPcs, KickPcs
      <4>3. K[routes] \in Nat  BY <4>2, SolTypes
      <4>4. CASE CapActive /\ K[routes] > cfg.kCap
        BY <2>2, <4>1, <4>2, <4>3, <4>4, <1>t DEF Finish, Fits
      <4>5. CASE ~(CapActive /\ K[routes] > cfg.kCap)
        BY <2>2, <4>1, <4>2, <4>3, <4>5, <1>t DEF Finish, Fits
      <4> QED BY <4>4, <4>5
    <3>2. routes # NoSol  BY <3>1, SolTypes
    <3>3. (incumbents = <<>>) = (routes' = NoSol)
      <4>1. CASE Fits(routes)  BY <3>1, <3>2, <4>1 DEF ResultLinked
      <4>2. CASE ~Fits(routes)
        <5>1. incumbents = <<>>
          BY <3>1, <4>2 DEF ResultLinked, NewestFits, Fits, CapActive, Exact
        <5> QED BY <3>1, <4>2, <5>1
      <4> QED BY <4>1, <4>2
    <3>4. routes' # NoSol => Stream!Within(routes') /\ routes' \in Sol  BY <3>1, <1>f
    <3>5. routes' # NoSol /\ Exact => routes' = Newest  BY <3>1, <3>3 DEF ResultLinked
    <3>6. Stream!Return(routes')
      BY <1>3, <3>1, <3>3, <3>4, <3>5 DEF Stream!Return, CapActive, Exact, Newest
    <3> QED BY <3>1, <3>6 DEF Stream!StreamNext
  <2>3. SeedFails \/ Finish
    BY <1>3 DEF Next, Step, Tick, Seeding, GreedySeed, WarmSeed, Split, SeedDescend, SeedPolish,
       FleetDescent, FdDrain, FdDescend, FdPolish, FdSqueeze, FdJudge, Drain, DrainBack, LoopTop,
       Stop, Continue, Restart, RestartFd, RestartReset, Period, PeriodWork, FleetPhaseOrSkip,
       Iteration, Kick, KickDescend, Judge, NewBest, Accept, AcceptWith, Goto, Shape, TypeOK
  <2> QED BY <2>1, <2>2, <2>3
<1> QED BY <1>1, <1>2, <1>3

(* The incumbent stream of solve_ils is append-only, strictly decreasing and
   within the cap, and the result agrees with it: nothing iff nothing was
   published, and the last incumbent whenever the seed was not replaced. *)
THEOREM IlsImplementsStream == Spec => AnytimeContract
<1>1. Init => Stream!StreamInit
  <2> SUFFICES ASSUME Init PROVE Stream!StreamInit  OBVIOUS
  <2>1. cfg \in Configs  BY DEF Init
  <2>2. cfg.kCap \in Nat  BY <2>1, CfgTypes
  <2>3. (IF CapActive THEN cfg.kCap ELSE 0) \in Nat  BY <2>2
  <2>4. (cfg.priced \/ cfg.warm \/ ~cfg.splitSeed) \in BOOLEAN  OBVIOUS
  <2>5. pc # "Done" /\ incumbents = <<>>  BY DEF Init
  <2> QED BY <2>3, <2>4, <2>5 DEF Stream!StreamInit
<1>2. Shape /\ Shape' /\ Link /\ [Next]_vars => [Stream!StreamNext]_(Stream!streamVars)
  BY StreamStep
<1> QED BY <1>1, <1>2, ShapeAlways, LinkAlways, PTL
        DEF Spec, AnytimeContract, Stream!StreamSpec

-----------------------------------------------------------------------------
(* Stamps travel with the solution they certify. *)
Exhausted == stamps = [sol |-> ss, mode |-> "exhaustive"]

Stamped ==
  /\ pc \in SeedPcs => stamps = NoStamps /\ best = 0
  /\ StampsCertifyLive
  /\ pc \in KickPcs /\ snap.stamps # NoStamps => snap.stamps.sol = snap.sol
  /\ pc = "FdSqueeze" => ~squeezed
  /\ pc \in {"FdSqueeze", "FdJudge"} /\ (dropped \/ squeezed) /\ cfg.exhaustiveOnBest /\ ~expired
       => Exhausted

LEMMA DescentStamps ==
  ASSUME NEW mode, NEW st, Descent(mode, st)
  PROVE  \/ stamps' = st /\ ss' = ss
         \/ stamps' = [sol |-> ss', mode |-> mode]
         \/ stamps' = NoStamps
  BY DEF Descent

LEMMA PolishStamps ==
  ASSUME Polish
  PROVE  /\ \/ stamps' = stamps /\ ss' = ss
            \/ stamps' = NoStamps
            \/ stamps' = [sol |-> ss', mode |-> "exhaustive"]
         /\ cfg.exhaustiveOnBest /\ ~expired' => Exhausted'
  BY DEF Polish, search, Descent, Idle, Exhausted

LEMMA StampedStep == Shape /\ Shape' /\ Stamped /\ [Next]_vars => Stamped'
<1> SUFFICES ASSUME Shape, Shape', Stamped, [Next]_vars PROVE Stamped'  OBVIOUS
<1>t. TypeOK /\ Ready /\ TypeOK' /\ Ready'  BY DEF Shape
<1> USE DEF search, result, lahc, work, count, fd, Goto, Stamped, StampsCertifyLive, Exhausted,
            SeedPcs, KickPcs
<1>1. CASE Tick \/ UNCHANGED vars  BY <1>1 DEF Tick, vars
<1>2. CASE Seeding
  <2>1. CASE SeedFails \/ GreedySeed \/ WarmSeed \/ Split
    BY <2>1 DEF SeedFails, GreedySeed, WarmSeed, Split
  <2>2. CASE SeedDescend  BY <2>2, DescentStamps DEF SeedDescend
  <2>3. CASE SeedPolish  BY <2>3, PolishStamps DEF SeedPolish
  <2> QED BY <1>2, <2>1, <2>2, <2>3 DEF Seeding
<1>3. CASE FleetDescent
  <2>1. CASE FdDrain  BY <2>1 DEF FdDrain
  <2>2. CASE FdDescend  BY <2>2, DescentStamps DEF FdDescend
  <2>3. CASE FdPolish  BY <2>3, PolishStamps DEF FdPolish
  <2>4. CASE FdSqueeze  BY <2>4 DEF FdSqueeze
  <2>5. CASE FdJudge  BY <2>5, <1>t DEF FdJudge, TypeOK
  <2> QED BY <1>3, <2>1, <2>2, <2>3, <2>4, <2>5 DEF FleetDescent
<1>4. CASE Drain \/ DrainBack  BY <1>4 DEF Drain, DrainBack
<1>5. CASE LoopTop
  BY <1>5 DEF LoopTop, Stop, Continue, Restart, RestartFd, RestartReset, Period, PeriodWork,
     FleetPhaseOrSkip
<1>6. CASE Iteration
  <2>1. CASE Kick
    <3>1. snap'.sol = ss /\ snap'.stamps = stamps  BY <2>1 DEF Kick
    <3> QED BY <2>1, <3>1 DEF Kick
  <2>2. CASE KickDescend  BY <2>2, DescentStamps DEF KickDescend
  <2>3. CASE Judge  BY <2>3 DEF Judge
  <2>4. CASE NewBest  BY <2>4, PolishStamps DEF NewBest
  <2>5. CASE Accept  BY <2>5 DEF Accept, AcceptWith, Restore
  <2> QED BY <1>6, <2>1, <2>2, <2>3, <2>4, <2>5 DEF Iteration
<1>7. CASE Finish  BY <1>7 DEF Finish
<1> QED BY <1>1, <1>2, <1>3, <1>4, <1>5, <1>6, <1>7 DEF Next, Step

LEMMA StampedAlways == Spec => []Stamped
<1>1. Init => Stamped
  BY DEF Init, Stamped, StampsCertifyLive, SeedPcs, KickPcs
<1>2. Shape /\ Shape' /\ Stamped /\ [Next]_vars => Stamped'  BY StampedStep
<1> QED BY <1>1, <1>2, ShapeAlways, PTL DEF Spec

(* No rejection, restart, squeeze or kick leaves stamps of another solution on
   the live one. *)
THEOREM StampsSound == Spec => []StampsCertifyLive
<1>1. Stamped => StampsCertifyLive  BY DEF Stamped
<1> QED BY <1>1, StampedAlways, PTL

(* A best adopted before the deadline is an exhaustive local optimum. *)
THEOREM BestIsPolished == Spec => PolishedBest
<1>1. Shape /\ Shape' /\ Stamped /\ [Next]_vars
        => [best' < best /\ cfg.exhaustiveOnBest /\ ~expired'
              => stamps' = [sol |-> routes', mode |-> "exhaustive"]]_vars
  <2> SUFFICES ASSUME Shape, Shape', Stamped, Next, best' < best, cfg.exhaustiveOnBest, ~expired'
               PROVE  stamps' = [sol |-> routes', mode |-> "exhaustive"]
    OBVIOUS
  <2>t. best \in Nat /\ best' \in Nat /\ best' # best  BY DEF Shape, TypeOK
  <2> USE DEF search, result, lahc, work, count, fd, Goto
  <2>1. CASE SeedDescend  BY <2>1, <2>t DEF SeedDescend, Stamped, SeedPcs
  <2>2. CASE SeedPolish
    BY <2>2, <2>t, PolishStamps DEF SeedPolish, Adopt, Exhausted
  <2>3. CASE FdJudge  BY <2>3, <2>t DEF FdJudge, Adopt, Stamped, Exhausted
  <2>4. CASE NewBest  BY <2>4, PolishStamps DEF NewBest, Adopt, Exhausted
  <2>5. SeedDescend \/ SeedPolish \/ FdJudge \/ NewBest
    BY <2>t DEF Next, Step, Tick, Seeding, SeedFails, GreedySeed, WarmSeed, Split, FleetDescent,
       FdDrain, FdDescend, FdPolish, FdSqueeze, Drain, DrainBack, LoopTop, Stop, Continue, Restart,
       RestartFd, RestartReset, Period, PeriodWork, FleetPhaseOrSkip, Iteration, Kick, KickDescend,
       Judge, Accept, AcceptWith, Finish
  <2> QED BY <2>1, <2>2, <2>3, <2>4, <2>5
<1> QED BY <1>1, ShapeAlways, StampedAlways, PTL DEF Spec, PolishedBest

-----------------------------------------------------------------------------
(* The route count across an iteration, and the drift of late acceptance. *)
Bounded ==
  /\ pc \in SeedPcs \cup {"SeedPolish", "Drain", "DrainBack"} => snap.sol = NoSol
  /\ pc \in FdPcs /\ ret = "DrainBack" => snap.sol = NoSol
  /\ pc \in FdPcs \cup {"Drain", "DrainBack"} => FdArmed
  /\ CapMonotone
  /\ pc \in SeedPcs \cup {"SeedPolish"} => \A i \in DOMAIN history : history[i] = Empty
  /\ ~FdArmed /\ pc \notin SeedPcs \cup {"SeedPolish", "Done"} =>
       /\ curr <= initCost /\ best <= initCost
       /\ \A i \in DOMAIN history : history[i] # Empty => history[i] <= initCost

LEMMA BoundedStep == Shape /\ Shape' /\ Prices /\ Prices' /\ Bounded /\ [Next]_vars => Bounded'
<1> SUFFICES ASSUME Shape, Shape', Prices, Prices', Bounded, [Next]_vars PROVE Bounded'  OBVIOUS
<1>t. TypeOK /\ Ready /\ TypeOK' /\ Ready' /\ cfg \in Configs  BY DEF Shape, TypeOK
<1>n. \A s \in Sol : Cost[s] \in Nat /\ K[s] \in Nat  BY SolTypes
<1>k. cfg.kCap \in Nat /\ curr \in Nat /\ best \in Nat /\ initCost \in Nat
  BY <1>t, CfgTypes DEF TypeOK
<1> USE DEF search, result, lahc, work, count, fd, Goto, Bounded, CapMonotone, CapActive, FdArmed,
            SeedPcs, FdPcs
<1>1. CASE Tick \/ UNCHANGED vars  BY <1>1 DEF Tick, vars
<1>2. CASE Seeding
  <2>1. CASE SeedFails \/ GreedySeed \/ WarmSeed \/ Split \/ SeedDescend
    BY <2>1 DEF SeedFails, GreedySeed, WarmSeed, Split, SeedDescend
  <2>2. CASE SeedPolish
    <3>1. curr' = initCost' /\ best' <= curr' /\ curr' \in Nat
      BY <2>2, <1>t DEF SeedPolish, TypeOK, Prices, QuietPcs, LoopTopPcs
    <3> QED BY <2>2, <3>1 DEF SeedPolish
  <2> QED BY <1>2, <2>1, <2>2 DEF Seeding
<1>3. CASE FleetDescent
  BY <1>3, <1>t DEF FleetDescent, FdDrain, FdDescend, FdPolish, FdSqueeze, FdJudge, TypeOK
<1>4. CASE Drain \/ DrainBack  BY <1>4 DEF Drain, DrainBack
<1>5. CASE LoopTop
  <2>1. CASE Restart  BY <2>1 DEF Restart
  <2>2. CASE Stop \/ Continue  BY <2>2 DEF Stop, Continue
  <2>3. CASE RestartFd \/ Period \/ PeriodWork
    BY <2>3 DEF RestartFd, Period, PeriodWork, FleetPhaseOrSkip
  <2>4. CASE RestartReset  BY <2>4 DEF RestartReset
  <2> QED BY <1>5, <2>1, <2>2, <2>3, <2>4 DEF LoopTop
<1>6. CASE Iteration
  <2>1. CASE Kick \/ KickDescend \/ Judge  BY <2>1 DEF Kick, KickDescend, Judge
  <2>2. CASE NewBest
    <3>1. best' <= curr' /\ curr' = curr
      BY <2>2 DEF NewBest, Prices, KickPcs
    <3> QED BY <2>2, <3>1, <1>k, <1>t DEF NewBest, TypeOK
  <2>3. CASE Accept
    <3>1. pc = "Accept" /\ pc' = "Head" /\ UNCHANGED <<cfg, snap, best, initCost>>
      BY <2>3 DEF Accept, AcceptWith
    <3>2. ss \in Sol /\ snap.sol \in Sol  BY <3>1, <1>t DEF Ready, KickPcs
    <3>3. CapMonotone'
      BY <2>3, <3>1, <3>2, <1>n, <1>k DEF Accept, AcceptWith, Restore, CapReject
    <3>4. ASSUME ~FdArmed
          PROVE  /\ curr' <= initCost
                 /\ \A i \in DOMAIN history' : history'[i] # Empty => history'[i] <= initCost
      <4>1. /\ curr <= initCost
            /\ \A i \in DOMAIN history : history[i] # Empty => history[i] <= initCost
        BY <3>1, <3>4
      <4>2. historyIdx \in DOMAIN history /\ DOMAIN history' = DOMAIN history
        BY <2>3, <1>t DEF Accept, AcceptWith, TypeOK
      <4>3. Late \in Nat /\ Late <= initCost
        <5>1. history[historyIdx] \in Nat \cup {Empty}  BY <4>2, <1>t DEF TypeOK
        <5>2. history[historyIdx] # Empty => history[historyIdx] <= initCost  BY <4>1, <4>2
        <5> QED BY <4>1, <5>1, <5>2, <1>k DEF Late
      <4>4. curr' <= initCost
        BY <2>3, <4>1, <4>3, <3>2, <1>n, <1>k DEF Accept, AcceptWith, Admits
      <4>5. history' = history \/ history' = [history EXCEPT ![historyIdx] = curr']
        BY <2>3 DEF Accept, AcceptWith
      <4> QED BY <4>1, <4>2, <4>4, <4>5
    <3> QED BY <3>1, <3>3, <3>4
  <2> QED BY <1>6, <2>1, <2>2, <2>3 DEF Iteration
<1>7. CASE Finish  BY <1>7 DEF Finish
<1> QED BY <1>1, <1>2, <1>3, <1>4, <1>5, <1>6, <1>7 DEF Next, Step

LEMMA BoundedAlways == Spec => []Bounded
<1>1. Init => Bounded
  BY DEF Init, Bounded, CapMonotone, SeedPcs, FdPcs
<1>2. Shape /\ Shape' /\ Prices /\ Prices' /\ Bounded /\ [Next]_vars => Bounded'  BY BoundedStep
<1> QED BY <1>1, <1>2, ShapeAlways, PricesAlways, PTL DEF Spec

(* One iteration never raises the live route count above max(k_cap, K before). *)
THEOREM CapIsMonotone == Spec => []CapMonotone
<1>1. Bounded => CapMonotone  BY DEF Bounded
<1> QED BY <1>1, BoundedAlways, PTL

(* Without fleet descent, late acceptance never drifts past the initial cost. *)
THEOREM DriftIsBounded == Spec => []DriftBounded
<1>1. Bounded => DriftBounded  BY DEF Bounded, DriftBounded, SeedPcs
<1> QED BY <1>1, BoundedAlways, PTL

-----------------------------------------------------------------------------
(* The whole of solve: options, colony, hand-over, search. *)
LEMMA OptionTypes ==
  ASSUME opts \in Options
  PROVE  /\ opts.strategy \in {"aco", "ils", "aco+ils"}
         /\ opts.limit \in Nat /\ opts.share \in Nat
         /\ opts.limit <= Horizon /\ opts.share <= Horizon
         /\ Split2 => opts.limit > 0
<1>1. opts \in [strategy : {"aco", "ils", "aco+ils"}, limit : 0 .. Horizon, share : 0 .. Horizon]
      /\ Horizon \in Nat
  BY OptionAssumption
<1>2. opts.strategy = "aco+ils" => opts.limit > 0  BY OptionAssumption
<1> QED BY <1>1, <1>2 DEF Split2

-----------------------------------------------------------------------------
(* The colony: once it has a result, that is its last incumbent. *)
Told(s, last) == s # <<>> /\ s[Len(s)] = last

Colonised ==
  /\ Phase1!ColonyTypeOK
  /\ at = "Seed" => stream = <<>> /\ found = NoSol
  /\ at = "SeedDescend" => seed \in Sol /\ Told(stream, seed)
  /\ at \notin {"Seed", "SeedDescend"} =>
       IF found = NoSol THEN stream = <<>> ELSE Told(stream, found)

LEMMA ColonyTypes ==
  ASSUME Phase1!ColonyTypeOK
  PROVE  /\ stream \in Seq(Sol) /\ found \in Sol \cup {NoSol} /\ seed \in Sol \cup {NoSol}
         /\ crew \in [1 .. Ants -> Sol \cup {NoSol}]
         /\ par \in Colonies /\ slice \in Nat /\ spent \in Nat /\ turn \in Nat /\ quiet \in Nat
  BY DEF Phase1!ColonyTypeOK

(* A report of the last incumbent, or of anything cheaper, is the last one. *)
LEMMA Reported ==
  ASSUME NEW s \in Sol, stream \in Seq(Sol), Phase1!Report(s),
         stream = <<>> \/ s = stream[Len(stream)] \/ Cost[s] < Cost[stream[Len(stream)]]
  PROVE  /\ stream' \in Seq(Sol) /\ Told(stream', s)
         /\ stream' # stream => /\ stream' = Append(stream, s)
                                /\ stream = <<>> \/ Cost[s] < Cost[stream[Len(stream)]]
<1>1. CASE stream = <<>> \/ Cost[s] < Cost[stream[Len(stream)]]
  <2>1. stream' = Append(stream, s)  BY <1>1 DEF Phase1!Report
  <2> QED BY <1>1, <2>1 DEF Told
<1>2. CASE ~(stream = <<>> \/ Cost[s] < Cost[stream[Len(stream)]])
  <2>1. stream' = stream  BY <1>2 DEF Phase1!Report
  <2> QED BY <1>2, <2>1 DEF Told
<1> QED BY <1>1, <1>2

ColonyTold ==
  stream' # stream => \E s \in Sol : /\ stream' = Append(stream, s)
                                     /\ stream = <<>> \/ Cost[s] < Cost[stream[Len(stream)]]

LEMMA ColonyMoves ==
  ASSUME Colonised, Phase1!ColonyStep
  PROVE  Colonised' /\ ColonyTold /\ slice' = slice /\ ~Phase1!Over
<1>t. /\ stream \in Seq(Sol) /\ found \in Sol \cup {NoSol} /\ seed \in Sol \cup {NoSol}
      /\ crew \in [1 .. Ants -> Sol \cup {NoSol}]
      /\ par \in Colonies /\ slice \in Nat /\ spent \in Nat /\ turn \in Nat /\ quiet \in Nat
      /\ ending \in {"Running", "Finished", "Converged", "TimeLimit", "Infeasible"}
  BY ColonyTypes DEF Colonised, Phase1!ColonyTypeOK
<1>n. NoSol \notin Sol  BY SolAssumption
<1>1. CASE Phase1!Sow
  <2>1. CASE at' = "Build" /\ UNCHANGED <<seed, stream>>
    BY <1>1, <2>1, <1>t DEF Phase1!Sow, Colonised, Phase1!ColonyTypeOK, Phase1!Points, ColonyTold,
       Phase1!Over
  <2>2. CASE at' = "SeedDescend" /\ \E g \in Sol : seed' = g /\ Phase1!Report(g)
    <3>1. PICK g \in Sol : seed' = g /\ Phase1!Report(g)  BY <2>2
    <3>2. stream = <<>>  BY <1>1 DEF Phase1!Sow, Colonised
    <3>3. stream' \in Seq(Sol) /\ Told(stream', g) /\ ColonyTold
      BY <3>1, <3>2, <1>t, Reported DEF ColonyTold
    <3> QED BY <1>1, <2>2, <3>1, <3>3, <1>t DEF Phase1!Sow, Colonised, Phase1!ColonyTypeOK,
            Phase1!Points, Phase1!Over
  <2> QED BY <1>1, <2>1, <2>2 DEF Phase1!Sow
<1>2. CASE Phase1!Ripen
  <2>1. seed \in Sol /\ Told(stream, seed)  BY <1>2 DEF Phase1!Ripen, Colonised
  <2>2. found' \in Sol /\ (found' = seed \/ Cost[found'] < Cost[seed])
    BY <1>2, <2>1 DEF Phase1!Ripen, Phase1!Improved
  <2>3. stream' \in Seq(Sol) /\ Told(stream', found') /\ ColonyTold
    BY <1>2, <2>1, <2>2, <1>t, Reported DEF Phase1!Ripen, Told, ColonyTold
  <2> QED BY <1>2, <2>2, <2>3, <1>t, <1>n DEF Phase1!Ripen, Colonised, Phase1!ColonyTypeOK,
          Phase1!Points, Phase1!Over
<1>3. CASE Phase1!Build \/ Phase1!Exhaust \/ Phase1!Descend
  BY <1>3, <1>t DEF Phase1!Build, Phase1!Exhaust, Phase1!Descend, Colonised, Phase1!ColonyTypeOK,
     Phase1!Points, ColonyTold, Phase1!Over
<1>4. CASE Phase1!Deposit
  <2>1. IF found = NoSol THEN stream = <<>> ELSE Told(stream, found)
    BY <1>4 DEF Phase1!Deposit, Colonised
  <2>2. CASE Phase1!Beating = {}
    BY <1>4, <2>1, <2>2, <1>t DEF Phase1!Deposit, Colonised, Phase1!ColonyTypeOK, Phase1!Points,
       ColonyTold, Phase1!Over
  <2>3. CASE Phase1!Beating # {}
    <3>1. PICK a \in Phase1!Beating : found' = crew[a] /\ Phase1!Report(crew[a])
      BY <1>4, <2>3 DEF Phase1!Deposit
    <3>2. crew[a] \in Sol /\ (found = NoSol \/ Cost[crew[a]] < Cost[found])
      BY <1>t DEF Phase1!Beating, Phase1!Foremost, Phase1!Feasible
    <3>3. stream' \in Seq(Sol) /\ Told(stream', found') /\ ColonyTold
      BY <2>1, <3>1, <3>2, <1>t, Reported DEF Told, ColonyTold
    <3> QED BY <1>4, <3>1, <3>2, <3>3, <1>t, <1>n DEF Phase1!Deposit, Colonised,
            Phase1!ColonyTypeOK, Phase1!Points, Phase1!Over
  <2> QED BY <2>2, <2>3
<1>5. CASE Phase1!Judge
  <2>1. quiet' \in Nat /\ turn' \in Nat  BY <1>5, <1>t DEF Phase1!Judge
  <2> QED BY <1>5, <2>1, <1>t DEF Phase1!Judge, Colonised, Phase1!ColonyTypeOK, Phase1!Points,
          ColonyTold, Phase1!Over
<1> QED BY <1>1, <1>2, <1>3, <1>4, <1>5 DEF Phase1!ColonyStep

-----------------------------------------------------------------------------
(* What IlsProofs says of solve_ils, as one inductive state predicate.  A search
   that has returned agrees with its stream. *)
Returned ==
  pc = "Done" =>
    /\ (incumbents = <<>>) = (routes = NoSol)
    /\ routes # NoSol => Fits(routes) /\ (Exact => routes = Newest)

Searching == Shape /\ Prices /\ Link /\ Returned

LEMMA SearchInit == Init => Searching
<1> SUFFICES ASSUME Init PROVE Searching  OBVIOUS
<1>1. Shape  BY ShapeInit
<1>2. Prices  BY DEF Init, Prices, QuietPcs, LoopTopPcs, SeedPcs, KickPcs
<1>3. Link  BY DEF Init, Link, NewestFits, SeedPcs, KickPcs
<1>4. Returned  BY DEF Init, Returned
<1> QED BY <1>1, <1>2, <1>3, <1>4 DEF Searching

LEMMA DoneStays == ASSUME Next PROVE pc # "Done"
<1> USE DEF Goto
<1>1. CASE Seeding \/ Tick
  BY <1>1 DEF Seeding, SeedFails, GreedySeed, WarmSeed, Split, SeedDescend, SeedPolish, Tick
<1>2. CASE FleetDescent \/ Drain \/ DrainBack
  BY <1>2 DEF FleetDescent, FdDrain, FdDescend, FdPolish, FdSqueeze, FdJudge, Drain, DrainBack,
     FleetPhaseOrSkip
<1>3. CASE LoopTop \/ Finish
  BY <1>3 DEF LoopTop, Stop, Continue, Restart, RestartFd, RestartReset, Period, PeriodWork,
     FleetPhaseOrSkip, Finish
<1>4. CASE Iteration
  BY <1>4 DEF Iteration, Kick, KickDescend, Judge, NewBest, Accept, AcceptWith
<1> QED BY <1>1, <1>2, <1>3, <1>4 DEF Next, Step

(* The parameters are never written. *)
LEMMA CfgStays == ASSUME Next PROVE cfg' = cfg
<1>1. CASE Seeding \/ Tick
  BY <1>1 DEF Seeding, SeedFails, GreedySeed, WarmSeed, Split, SeedDescend, SeedPolish, Tick
<1>2. CASE FleetDescent \/ Drain \/ DrainBack
  BY <1>2 DEF FleetDescent, FdDrain, FdDescend, FdPolish, FdSqueeze, FdJudge, Drain, DrainBack,
     FleetPhaseOrSkip
<1>3. CASE LoopTop \/ Finish
  BY <1>3 DEF LoopTop, Stop, Continue, Restart, RestartFd, RestartReset, Period, PeriodWork,
     FleetPhaseOrSkip, Finish
<1>4. CASE Iteration
  BY <1>4 DEF Iteration, Kick, KickDescend, Judge, NewBest, Accept, AcceptWith
<1> QED BY <1>1, <1>2, <1>3, <1>4 DEF Next, Step

LEMMA SearchStep == Searching /\ [Next]_vars => Searching'
<1> SUFFICES ASSUME Searching, [Next]_vars PROVE Searching'  OBVIOUS
<1>1. Shape'  BY ShapeStep DEF Searching
<1>2. Prices'  BY <1>1, PricesStep DEF Searching
<1>3. Link'  BY <1>1, LinkStep DEF Searching
<1>4. Returned'
  <2>1. CASE UNCHANGED vars
    BY <2>1 DEF Searching, Returned, vars, result, Fits, CapActive, Exact, Newest
  <2>2. CASE Next /\ pc' = "Done"
    <3>1. pc # "Done"  BY <2>2, DoneStays
    <3>2. [Stream!StreamNext]_(Stream!streamVars)  BY <1>1, StreamStep DEF Searching
    <3>3. PICK r \in Sol \cup {NoSol} : Stream!Return(r)
      BY <2>2, <3>1, <3>2 DEF Stream!StreamNext, Stream!streamVars, Stream!Announce
    <3>4. r = routes' /\ incumbents' = incumbents  BY <2>2, <3>3 DEF Stream!Return
    <3>6. cfg' = cfg  BY <2>2, CfgStays
    <3>7. r # NoSol => Fits(r) /\ (Exact => r = Newest)
      BY <3>3 DEF Stream!Return, Stream!Within, Fits, Exact, Newest, CapActive
    <3>5. (incumbents = <<>>) = (r = NoSol)  BY <3>3 DEF Stream!Return
    <3> QED BY <3>4, <3>5, <3>6, <3>7 DEF Returned, Fits, Exact, Newest, CapActive
  <2>3. CASE pc' # "Done"  BY <2>3 DEF Returned
  <2> QED BY <2>1, <2>2, <2>3
<1> QED BY <1>1, <1>2, <1>3, <1>4 DEF Searching

-----------------------------------------------------------------------------
(* The invariant of the whole solve.  Before the search the stream told is the
   colony's; a search of its own is told as it is; in the split the caller has
   heard the colony's result or the search's last incumbent, the cheaper. *)
Second ==
  /\ found \in Sol /\ cfg.timed /\ pc # "Split"
  /\ pc \in {"Seed", "SeedDescend"} => incumbents = <<>>
  /\ pc = "SeedDescend" => ss = found
  /\ ~CapActive =>
       IF incumbents = <<>> THEN Told(told, found) /\ pc \in {"Seed", "SeedDescend"}
       ELSE Told(told, Newest) /\ Cost[Newest] <= Cost[found]

Heard ==
  /\ stage = "aco" => Init /\ told = stream /\ opts.strategy # "ils"
  /\ stage = "ils" => IF Split2 THEN Second ELSE told = incumbents /\ opts.strategy = "ils"

Kinds ==
  /\ opts \in Options
  /\ stage \in {"aco", "ils", "returned", "raised"}
  /\ told \in Seq(Sol) /\ answer \in Sol \cup {NoSol}
  /\ cfg.warm = Split2
  /\ stage \in {"aco", "ils"} => answer = NoSol

Sound == Kinds /\ Searching /\ Colonised /\ Heard

LEMMA SoundInit == SInit => Sound
<1> SUFFICES ASSUME SInit PROVE Sound  OBVIOUS
<1>i. Init /\ Phase1!ColonyInit  BY DEF SInit
<1>o. opts \in Options  BY DEF SInit
<1>1. Searching  BY <1>i, SearchInit
<1>2. Colonised
  <2>1. slice \in Nat  BY <1>o, OptionTypes DEF SInit
  <2> QED BY <1>i, <2>1 DEF Phase1!ColonyInit, Colonised, Phase1!ColonyTypeOK, Phase1!Points
<1>3. Kinds  BY DEF SInit, Kinds
<1>4. Heard
  BY <1>i, <1>o, OptionTypes DEF SInit, Heard, Init, Phase1!ColonyInit, Split2
<1> QED BY <1>1, <1>2, <1>3, <1>4 DEF Sound

(* What the hook is told of one new incumbent. *)
LEMMA TellOne ==
  ASSUME NEW old \in Seq(Sol), NEW s \in Sol, told \in Seq(Sol), Tell(old, Append(old, s))
  PROVE  told' = IF Passes(s) THEN Append(told, s) ELSE told
<1>1. Append(old, s) # old /\ Append(old, s)[Len(Append(old, s))] = s  OBVIOUS
<1> QED BY <1>1 DEF Tell

LEMMA ColonyKeeps == Sound /\ ColonyRuns => Sound'
<1> SUFFICES ASSUME Sound, ColonyRuns PROVE Sound'  OBVIOUS
<1>1. Colonised' /\ ColonyTold  BY ColonyMoves DEF Sound, ColonyRuns
<1>2. UNCHANGED vars /\ UNCHANGED driver /\ stage = "aco" /\ Tell(stream, stream')
  BY DEF ColonyRuns
<1>3. Searching'
  BY <1>2, SearchStep DEF Sound
<1>4. Init'
  BY <1>2 DEF Sound, Heard, Init, vars, search, result, count, work, lahc, fd
<1>5. told' = stream' /\ told' \in Seq(Sol)
  <2>1. told = stream /\ stream \in Seq(Sol)  BY <1>2, ColonyTypes DEF Sound, Heard, Colonised
  <2>2. CASE stream' = stream  BY <2>1, <2>2, <1>2 DEF Tell
  <2>3. CASE stream' # stream
    <3>1. PICK s \in Sol : stream' = Append(stream, s)  BY <1>1, <2>3 DEF ColonyTold
    <3>2. Passes(s)  BY <1>2 DEF Passes
    <3>3. told' = Append(told, s)  BY <1>2, <2>1, <3>1, <3>2, TellOne
    <3> QED BY <2>1, <3>1, <3>3
  <2> QED BY <2>2, <2>3
<1>6. Kinds'  BY <1>2, <1>5 DEF Sound, Kinds, driver, vars, Split2
<1>7. Heard'  BY <1>2, <1>4, <1>5 DEF Sound, Heard, driver
<1> QED BY <1>1, <1>3, <1>6, <1>7 DEF Sound

LEMMA HandOverKeeps == Sound /\ HandOver => Sound'
<1> SUFFICES ASSUME Sound, HandOver PROVE Sound'  OBVIOUS
<1>1. /\ UNCHANGED <<pc, search, snap, curr, result, status, count, work, lahc, fd>>
      /\ UNCHANGED <<colony, told, opts, answer, record>>
      /\ stage = "aco" /\ at = "Done" /\ Split2
  BY DEF HandOver, Phase1!Over
<1>2. Init /\ told = stream  BY <1>1 DEF Sound, Heard
<1>r. Remaining > 0  BY OptionTypes, ColonyTypes DEF Remaining, Sound, Kinds, Colonised
<1>c. cfg \in Configs  BY <1>2 DEF Init
<1>3. cfg' \in Configs /\ cfg'.historyLen = cfg.historyLen /\ cfg'.warm = cfg.warm
  <2>1. cfg' = cfg \/ cfg' = [cfg EXCEPT !.timed = TRUE]  BY <1>r DEF HandOver
  <2>2. [cfg EXCEPT !.timed = TRUE] \in Configs  BY <1>c, OptionAssumption
  <2>3. cfg \in ConfigShape  BY <1>c, ConfigAssumption
  <2> QED BY <1>c, <2>1, <2>2, <2>3 DEF ConfigShape
<1>4. Init'
  BY <1>1, <1>2, <1>3 DEF Init, search, result, count, work, lahc, fd
<1>5. Searching'
  <2>1. Init' => Searching'  BY SearchInit, PTL
  <2> QED BY <1>4, <2>1
<1>6. Colonised'
  BY <1>1 DEF Sound, colony, Colonised, Phase1!ColonyTypeOK
<1>7. Kinds'
  BY <1>1, <1>3 DEF HandOver, Sound, Kinds, Split2
<1>8. Heard'
  <2>1. CASE found = NoSol  BY <1>1, <2>1 DEF HandOver, Heard
  <2>2. CASE found # NoSol
    <3>1. found \in Sol /\ Told(stream, found)
      BY <1>1, <2>2, ColonyTypes DEF Sound, Colonised
    <3>2. cfg'.timed
      <4>1. cfg' = [cfg EXCEPT !.timed = TRUE]  BY <1>r, <2>2 DEF HandOver
      <4>2. cfg \in ConfigShape  BY <1>c, ConfigAssumption
      <4> QED BY <4>1, <4>2 DEF ConfigShape
    <3>3. stage' = "ils" /\ found' = found /\ told' = told /\ Split2'
      BY <1>1, <2>2 DEF HandOver, colony, Split2
    <3>4. pc' = "Seed" /\ incumbents' = <<>>  BY <1>4 DEF Init
    <3> QED BY <1>2, <3>1, <3>2, <3>3, <3>4 DEF Heard, Second, Told
  <2> QED BY <2>1, <2>2
<1> QED BY <1>5, <1>6, <1>7, <1>8 DEF Sound

(* One step of the search publishes one admissible incumbent or none. *)
LEMMA SearchTold ==
  ASSUME Searching, Next
  PROVE  \/ incumbents' = incumbents
         \/ \E s \in Sol : incumbents' = Append(incumbents, s) /\ Publishable(s, incumbents)
<1>1. Shape /\ Shape' /\ Link  BY ShapeStep DEF Searching
<1>2. CASE pc' # "Done"
  BY <1>1, <1>2, OnlyPublish DEF Publish
<1>3. CASE pc' = "Done"
  <2>1. pc # "Done"  BY DoneStays
  <2>2. [Stream!StreamNext]_(Stream!streamVars)  BY <1>1, StreamStep
  <2>3. PICK r \in Sol \cup {NoSol} : Stream!Return(r)
    BY <1>3, <2>1, <2>2 DEF Stream!StreamNext, Stream!streamVars, Stream!Announce
  <2> QED BY <2>3 DEF Stream!Return
<1> QED BY <1>2, <1>3

(* Where the search starts from, and that it never comes back there. *)
LEMMA SeedSteps ==
  ASSUME Shape, Step
  PROVE  /\ pc = "Seed" => SeedFails \/ GreedySeed \/ WarmSeed
         /\ pc = "SeedDescend" => SeedDescend
         /\ pc' \in {"Seed", "SeedDescend"} => WarmSeed \/ Split
<1> USE DEF Goto
<1>1. CASE Seeding
  BY <1>1 DEF Seeding, SeedFails, GreedySeed, WarmSeed, Split, SeedDescend, SeedPolish
<1>2. CASE FleetDescent \/ Drain \/ DrainBack
  <2>1. ret \in {"DrainBack", "RestartReset", "PeriodWork", "Kick"}  BY DEF Shape, TypeOK
  <2> QED BY <1>2, <2>1 DEF FleetDescent, FdDrain, FdDescend, FdPolish, FdSqueeze, FdJudge, Drain,
          DrainBack, FleetPhaseOrSkip
<1>3. CASE LoopTop \/ Finish
  BY <1>3 DEF LoopTop, Stop, Continue, Restart, RestartFd, RestartReset, Period, PeriodWork,
     FleetPhaseOrSkip, Finish
<1>4. CASE Iteration
  BY <1>4 DEF Iteration, Kick, KickDescend, Judge, NewBest, Accept, AcceptWith
<1> QED BY <1>1, <1>2, <1>3, <1>4 DEF Step

(* The hook is given one cheaper incumbent at a time. *)
Cheaper ==
  told' # told => \E s \in Sol : /\ told' = Append(told, s)
                                 /\ told = <<>> \/ Cost[s] < Cost[told[Len(told)]]

(* The split: the search takes over where the colony's stream ends. *)
LEMMA SecondKeeps ==
  ASSUME Sound, SearchRuns, Split2
  PROVE  Second' /\ told' \in Seq(Sol) /\ (~CapActive => Cheaper)
<1>1. /\ Step /\ Next /\ Starts /\ stage = "ils" /\ found' = found
      /\ Second /\ Shape /\ Searching /\ Searching' /\ cfg.warm
      /\ told \in Seq(Sol) /\ incumbents \in Seq(Sol)
      /\ Tell(incumbents, incumbents')
  <2>1. Step /\ Next /\ [Next]_vars /\ found' = found /\ stage = "ils"
    BY DEF SearchRuns, Next, colony
  <2>2. Searching'  BY <2>1, SearchStep DEF Sound
  <2> QED BY <2>1, <2>2 DEF SearchRuns, Sound, Searching, Shape, TypeOK, Heard, Kinds
<1>c. cfg' = cfg  BY <1>1, CfgStays
<1>2. pc' # "Split"  BY <1>1, <1>c DEF Searching, Link
<1>f. found \in Sol /\ Cost[found] \in Nat /\ cfg.timed  BY <1>1, SolTypes DEF Second
<1>p. \A s \in Sol : Passes(s) <=> Cost[s] < Cost[found]  BY <1>1 DEF Passes
<1>n. Newest' = incumbents'[Len(incumbents')]  BY DEF Newest
<1>k. CapActive' <=> CapActive  BY <1>c DEF CapActive
<1>3. CASE pc = "Seed"
  <2>1. WarmSeed /\ ss' = found /\ incumbents = <<>>
    BY <1>1, <1>3, SeedSteps DEF SeedFails, GreedySeed, Goto, Starts, Second
  <2>2. incumbents' = incumbents /\ pc' = "SeedDescend" /\ told' = told
    BY <2>1, <1>1 DEF WarmSeed, Goto, result, Tell
  <2> QED BY <1>1, <1>2, <1>c, <1>f, <2>1, <2>2, <1>3 DEF Second, CapActive, Told, Cheaper
<1>4. CASE pc = "SeedDescend"
  <2>1. SeedDescend /\ incumbents = <<>> /\ ss = found
    BY <1>1, <1>4, SeedSteps DEF Second
  <2>2. pc' = "SeedPolish" /\ Publish(ss')  BY <2>1 DEF SeedDescend, Goto, Adopt
  <2>3. ss' \in Sol /\ (ss' = found \/ Cost[ss'] < Cost[found]) /\ Cost[ss'] \in Nat
    <3>1. Descent("granular", NoStamps) /\ NoStamps \in Stamps  BY <2>1 DEF SeedDescend, Stamps
    <3>2. expired \in BOOLEAN /\ ss \in Sol  BY <1>1, <1>f, <2>1 DEF Shape, TypeOK
    <3> QED BY <2>1, <3>1, <3>2, DescentDown, SolTypes
  <2>4. told' = told \/ told' = Append(told, ss')
    BY <2>1, <2>2, <2>3, <1>1, TellOne DEF Publish, Tell
  <2>5. ASSUME ~CapActive
        PROVE  /\ incumbents' # <<>> /\ incumbents'[Len(incumbents')] = ss'
               /\ Cost[ss'] <= Cost[found] /\ Told(told', ss') /\ Cheaper
    <3>1. Told(told, found)  BY <1>1, <2>1, <2>5 DEF Second
    <3>2. incumbents' = Append(incumbents, ss')  BY <2>1, <2>2, <2>5 DEF Publish, Publishable
    <3>3. told' = IF Cost[ss'] < Cost[found] THEN Append(told, ss') ELSE told
      BY <1>1, <1>p, <2>3, <3>2, TellOne
    <3>4. Told(told', ss')  BY <1>1, <1>f, <2>3, <3>1, <3>3 DEF Told
    <3>5. Cheaper  BY <2>3, <3>1, <3>3 DEF Cheaper, Told
    <3> QED BY <1>f, <2>1, <2>3, <3>2, <3>4, <3>5
  <2>6. told' \in Seq(Sol)  BY <1>1, <2>3, <2>4
  <2>7. ~CapActive' => /\ incumbents' # <<>>
                       /\ Told(told', Newest') /\ Cost[Newest'] <= Cost[found]
    BY <1>n, <1>k, <2>5
  <2> QED BY <1>1, <1>2, <1>c, <1>f, <2>2, <2>5, <2>6, <2>7 DEF Second, Told
<1>5. CASE pc \notin {"Seed", "SeedDescend"}
  <2>1. pc' \notin {"Seed", "SeedDescend"}
    BY <1>1, <1>5, SeedSteps DEF WarmSeed, Split, Goto, Second
  <2>2. CASE incumbents' = incumbents
    <3>1. told' = told  BY <1>1, <2>2 DEF Tell
    <3> QED BY <1>1, <1>2, <1>c, <1>f, <1>5, <2>1, <2>2, <3>1 DEF Second, CapActive, Newest, Told,
            Cheaper
  <2>3. CASE incumbents' # incumbents
    <3>1. PICK s \in Sol : incumbents' = Append(incumbents, s) /\ Publishable(s, incumbents)
      BY <1>1, <2>3, SearchTold
    <3>2. told' = IF Cost[s] < Cost[found] THEN Append(told, s) ELSE told
      BY <1>1, <1>p, <3>1, TellOne
    <3>3. told' \in Seq(Sol)  BY <1>1, <3>1, <3>2
    <3>4. incumbents' # <<>> /\ incumbents'[Len(incumbents')] = s  BY <1>1, <3>1
    <3>5. ASSUME ~CapActive PROVE Cost[s] <= Cost[found] /\ Told(told', s) /\ Cheaper
      <4>1. incumbents # <<>> /\ Cost[Newest] <= Cost[found]  BY <1>1, <1>5, <3>5 DEF Second
      <4>2. Cost[s] < Cost[Newest]  BY <3>1, <4>1 DEF Publishable, Newest
      <4>3. Newest \in Sol /\ Cost[Newest] \in Nat /\ Cost[s] \in Nat
        BY <1>1, <4>1, SolTypes DEF Newest
      <4>4. Told(told, Newest)  BY <1>1, <3>5, <4>1 DEF Second
      <4> QED BY <1>1, <1>f, <3>2, <4>1, <4>2, <4>3, <4>4 DEF Told, Cheaper
    <3>6. ~CapActive' => Told(told', Newest') /\ Cost[Newest'] <= Cost[found]
      BY <1>n, <1>k, <3>4, <3>5
    <3> QED BY <1>1, <1>2, <1>c, <1>f, <2>1, <3>3, <3>4, <3>5, <3>6 DEF Second, Told
  <2> QED BY <2>2, <2>3
<1> QED BY <1>3, <1>4, <1>5

LEMMA SearchKeeps == Sound /\ SearchRuns => Sound'
<1> SUFFICES ASSUME Sound, SearchRuns PROVE Sound'  OBVIOUS
<1>1. Next /\ stage = "ils" /\ UNCHANGED colony /\ UNCHANGED driver
      /\ Tell(incumbents, incumbents')
  BY DEF SearchRuns, Next
<1>2. Searching'  BY <1>1, SearchStep DEF Sound
<1>3. Colonised'  BY <1>1 DEF Sound, colony, Colonised, Phase1!ColonyTypeOK
<1>c. cfg' = cfg  BY <1>1, CfgStays
<1>4. told' \in Seq(Sol) /\ (IF Split2 THEN Second' ELSE told' = incumbents')
  <2>1. CASE Split2  BY <2>1, SecondKeeps
  <2>2. CASE ~Split2
    <3>1. told = incumbents /\ told \in Seq(Sol)  BY <1>1, <2>2 DEF Sound, Heard, Kinds
    <3>2. CASE incumbents' = incumbents  BY <1>1, <2>2, <3>1, <3>2 DEF Tell
    <3>3. CASE incumbents' # incumbents
      <4>1. PICK s \in Sol : incumbents' = Append(incumbents, s)
        BY <1>1, <3>3, SearchTold DEF Sound
      <4>2. Passes(s)  BY <2>2 DEF Passes
      <4>3. told' = Append(told, s)  BY <1>1, <3>1, <4>1, <4>2, TellOne
      <4> QED BY <2>2, <3>1, <4>1, <4>3
    <3> QED BY <3>2, <3>3
  <2> QED BY <2>1, <2>2
<1>5. Split2' = Split2 /\ stage' = stage /\ opts' = opts /\ answer' = answer
  BY <1>1 DEF driver, Split2
<1>6. Kinds'  BY <1>c, <1>4, <1>5 DEF Sound, Kinds
<1>7. Heard'  BY <1>1, <1>4, <1>5 DEF Sound, Heard
<1> QED BY <1>2, <1>3, <1>6, <1>7 DEF Sound

LEMMA ConcludeKeeps == Sound /\ Conclude => Sound'
<1> SUFFICES ASSUME Sound, Conclude PROVE Sound'  OBVIOUS
<1>1. UNCHANGED <<vars, colony, told, opts>> /\ stage' \in {"raised", "returned"}
  BY DEF Conclude
<1>2. Searching'  BY <1>1, SearchStep DEF Sound
<1>3. Colonised'  BY <1>1 DEF Sound, colony, Colonised, Phase1!ColonyTypeOK
<1>4. answer' \in Sol \cup {NoSol}
  <2>1. found \in Sol \cup {NoSol} /\ routes \in Sol \cup {NoSol}
    BY ColonyTypes DEF Sound, Colonised, Searching, Shape, TypeOK
  <2> QED BY <2>1 DEF Conclude
<1>5. Kinds'  BY <1>1, <1>4 DEF Sound, Kinds, vars, Split2
<1>6. Heard'  BY <1>1 DEF Heard
<1> QED BY <1>2, <1>3, <1>5, <1>6 DEF Sound

LEMMA ClocksKeep == Sound /\ Clocks => Sound'
<1> SUFFICES ASSUME Sound, Clocks PROVE Sound'  OBVIOUS
<1>1. CASE stage = "aco" /\ Phase1!Clock /\ UNCHANGED <<vars, told, driver>>
  <2>1. Searching'  BY <1>1, SearchStep DEF Sound
  <2>2. Colonised' /\ stream' = stream
    BY <1>1, ColonyTypes DEF Phase1!Clock, Sound, Colonised, Phase1!ColonyTypeOK
  <2>3. Init'
    BY <1>1 DEF Sound, Heard, Init, vars, search, result, count, work, lahc, fd
  <2>4. Kinds'  BY <1>1 DEF Sound, Kinds, vars, driver, Split2
  <2>5. Heard'  BY <1>1, <2>2, <2>3 DEF Sound, Heard, driver
  <2> QED BY <2>1, <2>2, <2>4, <2>5 DEF Sound
<1>2. CASE stage = "ils" /\ Tick /\ UNCHANGED <<colony, told, driver>>
  <2>1. Searching'  BY <1>2, SearchStep DEF Sound, Next
  <2>2. Colonised'  BY <1>2 DEF Sound, colony, Colonised, Phase1!ColonyTypeOK
  <2>3. UNCHANGED <<cfg, pc, ss, incumbents, opts, stage, told, answer, found>>
    BY <1>2 DEF Tick, driver, colony, result
  <2>4. Kinds'  BY <2>3 DEF Sound, Kinds, Split2
  <2>5. Heard'
    BY <1>2, <2>3 DEF Sound, Heard, Split2, Second, CapActive, Newest, Told
  <2> QED BY <2>1, <2>2, <2>4, <2>5 DEF Sound
<1> QED BY <1>1, <1>2 DEF Clocks

LEMMA SoundStep == Sound /\ [SNext]_svars => Sound'
<1> SUFFICES ASSUME Sound, [SNext]_svars PROVE Sound'  OBVIOUS
<1>1. CASE UNCHANGED svars
  <2>1. UNCHANGED <<vars, colony, told, driver>>  BY <1>1 DEF svars
  <2>2. Searching'  BY <2>1, SearchStep DEF Sound
  <2>3. Colonised' /\ stream' = stream
    BY <2>1 DEF Sound, colony, Colonised, Phase1!ColonyTypeOK
  <2>4. Init => Init'
    BY <2>1 DEF Init, vars, search, result, count, work, lahc, fd
  <2>5. Kinds'  BY <2>1 DEF Sound, Kinds, vars, driver, Split2
  <2>6. UNCHANGED <<cfg, pc, ss, incumbents, opts, stage, told, found>>
    BY <2>1 DEF vars, search, result, driver, colony
  <2>7. Heard'
    BY <2>3, <2>4, <2>6 DEF Sound, Heard, Split2, Second, CapActive, Newest, Told
  <2> QED BY <2>2, <2>3, <2>5, <2>7 DEF Sound
<1> QED BY <1>1, ColonyKeeps, HandOverKeeps, SearchKeeps, ConcludeKeeps, ClocksKeep DEF SNext, SStep

LEMMA SoundAlways == SSpec => []Sound
<1> QED BY SoundInit, SoundStep, PTL DEF SSpec

(* Types of the composition: a search that is to start from the colony's
   result gets one, under every strategy and however the colony ends. *)
THEOREM SolveTyping == SSpec => []STypeOK
<1>1. Sound => STypeOK
  <2> SUFFICES ASSUME Sound PROVE STypeOK  OBVIOUS
  <2>1. TypeOK /\ Phase1!ColonyTypeOK  BY DEF Sound, Searching, Shape, Colonised
  <2> QED BY <2>1 DEF Sound, Kinds, Heard, Second, STypeOK
<1> QED BY <1>1, SoundAlways, PTL

(* However far the colony overruns its share, the search it hands over to has a
   time limit (solve.py: max(tl - offset, 0.01); solve_ils takes 0 for none). *)
THEOREM SecondPhaseLimited == SSpec => []SecondPhaseTimed
<1>1. Sound => SecondPhaseTimed  BY DEF Sound, Heard, Second, SecondPhaseTimed
<1> QED BY <1>1, SoundAlways, PTL

-----------------------------------------------------------------------------
(* Merged, its parts named. *)
Limit     == IF opts.strategy = "ils" /\ CapActive THEN cfg.kCap ELSE 0
LastOnly  == opts.strategy # "ils" \/ cfg.priced \/ ~cfg.splitSeed
Given     == IF Mixed THEN <<>> ELSE told
Over      == ~Mixed /\ stage \in {"returned", "raised"}
Verdict   == IF Mixed THEN NoSol ELSE answer

(* The parameters that the contract speaks of do not change. *)
LEMMA ParametersStay ==
  ASSUME Sound, SNext
  PROVE  opts' = opts /\ CapActive' = CapActive /\ Limit' = Limit /\ LastOnly' = LastOnly
         /\ Mixed' = Mixed /\ Split2' = Split2
<1>0. opts' = opts
  BY DEF SNext, SStep, ColonyRuns, HandOver, SearchRuns, Conclude, Clocks, driver
<1>1. CASE cfg' = cfg
  BY <1>0, <1>1 DEF Limit, LastOnly, Mixed, Split2, CapActive
<1>2. CASE HandOver /\ found # NoSol
  <2>1. cfg \in ConfigShape  BY ConfigAssumption DEF Sound, Searching, Shape, TypeOK
  <2>2. cfg' = [cfg EXCEPT !.timed = Remaining > 0] /\ Split2  BY <1>2 DEF HandOver
  <2>3. cfg'.priced = cfg.priced /\ cfg'.kCap = cfg.kCap /\ cfg'.splitSeed = cfg.splitSeed
    BY <2>1, <2>2 DEF ConfigShape
  <2> QED BY <1>0, <2>2, <2>3 DEF Limit, LastOnly, Mixed, Split2, CapActive
<1>3. cfg' = cfg \/ (HandOver /\ found # NoSol)
  BY CfgStays DEF SNext, SStep, ColonyRuns, HandOver, SearchRuns, Conclude, Clocks, vars, Next
<1> QED BY <1>1, <1>2, <1>3

(* A step that tells a cheaper incumbent announces it; one that tells nothing
   and does not end the solve is no step of the contract. *)
LEMMA Announces ==
  ASSUME Sound, SNext, ~Mixed, stage \in {"aco", "ils"}, stage' = stage, answer' = answer,
         Cheaper,
         told' # told /\ opts.strategy = "ils" /\ CapActive => K[told'[Len(told')]] <= cfg.kCap
  PROVE  [Merged!StreamNext]_(Merged!streamVars)
<1>1. /\ Limit' = Limit /\ LastOnly' = LastOnly /\ ~Mixed'
  BY ParametersStay
<1>2. CASE told' = told
  BY <1>1, <1>2 DEF Merged!streamVars, Limit, LastOnly
<1>3. CASE told' # told
  <2>1. PICK s \in Sol : /\ told' = Append(told, s)
                         /\ told = <<>> \/ Cost[s] < Cost[told[Len(told)]]
    BY <1>3 DEF Cheaper
  <2>2. told'[Len(told')] = s  BY <2>1 DEF Sound, Kinds
  <2>3. Merged!Within(s)  BY <1>3, <2>2 DEF Merged!Within
  <2>4. Merged!Announce(s)
    BY <1>1, <2>1, <2>3 DEF Merged!Announce, Limit, LastOnly
  <2> QED BY <2>4 DEF Merged!StreamNext
<1> QED BY <1>2, <1>3

(* A step that ends the solve with what the stream asks for returns. *)
LEMMA Returns ==
  ASSUME Sound, SNext, ~Mixed, stage \in {"aco", "ils"}, stage' \in {"returned", "raised"},
         told' = told, answer' \in Sol \cup {NoSol},
         (told = <<>>) = (answer' = NoSol),
         answer' # NoSol => (opts.strategy = "ils" /\ CapActive => K[answer'] <= cfg.kCap),
         answer' # NoSol /\ LastOnly => answer' = told[Len(told)]
  PROVE  Merged!StreamNext
<1>1. Limit' = Limit /\ LastOnly' = LastOnly /\ ~Mixed'  BY ParametersStay
<1>2. answer' # NoSol => Merged!Within(answer')  BY DEF Merged!Within
<1>3. Merged!Return(answer')
  BY <1>1, <1>2 DEF Merged!Return, Limit, LastOnly
<1> QED BY <1>3 DEF Merged!StreamNext

LEMMA MergedStep ==
  Sound /\ Sound' /\ [SNext]_svars => [Merged!StreamNext]_(Merged!streamVars)
<1> SUFFICES ASSUME Sound, Sound', [SNext]_svars
             PROVE  [Merged!StreamNext]_(Merged!streamVars)
  OBVIOUS
<1>1. CASE UNCHANGED svars
  BY <1>1 DEF svars, vars, driver, Merged!streamVars, Mixed, CapActive, Split2
<1>2. CASE SNext /\ Mixed
  <2>1. Limit' = Limit /\ LastOnly' = LastOnly /\ Mixed'  BY <1>2, ParametersStay
  <2> QED BY <1>2, <2>1 DEF Merged!streamVars, Limit, LastOnly
<1>3. CASE SNext /\ ~Mixed
  <2>1. CASE ColonyRuns
    <3>1. /\ stage = "aco" /\ stage' = stage /\ answer' = answer
          /\ told = stream /\ told' = stream' /\ opts.strategy # "ils"
      BY <2>1 DEF ColonyRuns, driver, Sound, Heard
    <3>2. Cheaper  BY <2>1, <3>1, ColonyMoves DEF ColonyRuns, Sound, ColonyTold, Cheaper
    <3> QED BY <1>3, <3>1, <3>2, Announces
  <2>2. CASE HandOver
    <3>1. stage = "aco" /\ told' = told /\ answer' = answer /\ answer = NoSol /\ at = "Done"
          /\ told = stream
      BY <2>2 DEF HandOver, Phase1!Over, Sound, Heard, Kinds
    <3>2. CASE found = NoSol
      <4>1. told = <<>> /\ stage' = "raised"
        BY <2>2, <3>1, <3>2 DEF HandOver, Sound, Colonised
      <4> QED BY <1>3, <3>1, <4>1, Returns
    <3>3. CASE found # NoSol
      <4>1. stage' = "ils"  BY <2>2, <3>3 DEF HandOver
      <4>2. Limit' = Limit /\ LastOnly' = LastOnly /\ ~Mixed'  BY <1>3, ParametersStay
      <4> QED BY <1>3, <3>1, <4>1, <4>2 DEF Merged!streamVars, Limit, LastOnly
    <3> QED BY <3>2, <3>3
  <2>3. CASE SearchRuns
    <3>1. stage = "ils" /\ stage' = stage /\ answer' = answer /\ Next
          /\ Tell(incumbents, incumbents')
      BY <2>3 DEF SearchRuns, driver, Next
    <3>2. CASE Split2
      <4>1. ~CapActive /\ opts.strategy # "ils"  BY <1>3, <3>2 DEF Mixed, Split2
      <4>2. Cheaper  BY <2>3, <3>2, <4>1, SecondKeeps
      <4> QED BY <1>3, <3>1, <4>1, <4>2, Announces
    <3>3. CASE ~Split2
      <4>1. told = incumbents /\ told' = incumbents' /\ opts' = opts /\ told \in Seq(Sol)
        BY <2>3, <3>1, <3>3 DEF SearchRuns, driver, Sound, Heard, Kinds, Split2
      <4>2. \/ told' = told
            \/ \E s \in Sol : told' = Append(told, s) /\ Publishable(s, told)
        BY <3>1, <4>1, SearchTold DEF Sound
      <4>3. Cheaper  BY <4>2 DEF Cheaper, Publishable
      <4>4. told' # told /\ CapActive => K[told'[Len(told')]] <= cfg.kCap
        <5> SUFFICES ASSUME told' # told, CapActive PROVE K[told'[Len(told')]] <= cfg.kCap
          OBVIOUS
        <5>1. PICK s \in Sol : told' = Append(told, s) /\ Publishable(s, told)  BY <4>2
        <5>2. told'[Len(told')] = s  BY <4>1, <5>1
        <5> QED BY <5>1, <5>2 DEF Publishable
      <4> QED BY <1>3, <3>1, <4>3, <4>4, Announces
    <3> QED BY <3>2, <3>3
  <2>4. CASE Conclude
    <3>1. /\ told' = told /\ stage' \in {"returned", "raised"}
          /\ answer' = IF stage = "aco" THEN found ELSE routes
          /\ answer' \in Sol \cup {NoSol}
      BY <2>4 DEF Conclude, Sound, Kinds
    <3>2. CASE stage = "aco"
      <4>1. at = "Done" /\ told = stream /\ opts.strategy # "ils" /\ answer' = found
        BY <2>4, <3>1, <3>2 DEF Conclude, Phase1!Over, Sound, Heard
      <4>2. IF found = NoSol THEN told = <<>> ELSE Told(told, found)
        BY <4>1 DEF Sound, Colonised
      <4> QED BY <1>3, <3>1, <3>2, <4>1, <4>2, Returns DEF Told
    <3>3. CASE stage = "ils"
      <4>1. pc = "Done" /\ answer' = routes  BY <2>4, <3>1, <3>3 DEF Conclude
      <4>2. /\ (incumbents = <<>>) = (routes = NoSol)
            /\ routes # NoSol => Fits(routes) /\ (Exact => routes = Newest)
        BY <4>1 DEF Sound, Searching, Returned
      <4>3. CASE Split2
        <5>1. ~CapActive /\ opts.strategy # "ils" /\ cfg.warm
          BY <1>3, <4>3 DEF Mixed, Split2, Sound, Kinds
        <5>2. incumbents # <<>> /\ Told(told, Newest)
          BY <3>3, <4>1, <4>3, <5>1 DEF Sound, Heard, Second
        <5>3. routes # NoSol /\ routes = Newest  BY <4>2, <5>1, <5>2 DEF Exact
        <5> QED BY <1>3, <3>1, <3>3, <4>1, <5>1, <5>2, <5>3, Returns DEF Told
      <4>4. CASE ~Split2
        <5>1. told = incumbents /\ ~cfg.warm /\ opts.strategy = "ils"
          BY <3>3, <4>4 DEF Sound, Heard, Kinds
        <5>2. routes # NoSol => (CapActive => K[routes] <= cfg.kCap)  BY <4>2 DEF Fits
        <5>3. routes # NoSol /\ LastOnly => routes = told[Len(told)]
          BY <4>2, <5>1 DEF LastOnly, Exact, Newest
        <5> QED BY <1>3, <3>1, <3>3, <4>1, <4>2, <5>1, <5>2, <5>3, Returns
      <4> QED BY <4>3, <4>4
    <3> QED BY <2>4, <3>2, <3>3 DEF Conclude
  <2>5. CASE Clocks
    <3>1. UNCHANGED <<told, stage, answer>>  BY <2>5 DEF Clocks, driver
    <3>2. Limit' = Limit /\ LastOnly' = LastOnly /\ ~Mixed'  BY <1>3, ParametersStay
    <3> QED BY <1>3, <3>1, <3>2 DEF Merged!streamVars, Limit, LastOnly
  <2> QED BY <1>3, <2>1, <2>2, <2>3, <2>4, <2>5 DEF SNext, SStep
<1> QED BY <1>1, <1>2, <1>3

(* Whatever the strategy, the incumbents a caller is given form one strictly
   improving stream, and the Solution agrees with it: nothing iff solve raises,
   and the last incumbent unless a seed was split.  A capped split is left out. *)
THEOREM SolveImplementsStream == SSpec => MergedContract
<1>1. SInit => Merged!StreamInit
  <2> SUFFICES ASSUME SInit PROVE Merged!StreamInit  OBVIOUS
  <2>1. cfg \in Configs  BY DEF SInit, Init
  <2>2. cfg.kCap \in Nat  BY <2>1, CfgTypes
  <2>3. (IF opts.strategy = "ils" /\ CapActive THEN cfg.kCap ELSE 0) \in Nat  BY <2>2
  <2>4. (opts.strategy # "ils" \/ cfg.priced \/ ~cfg.splitSeed) \in BOOLEAN  OBVIOUS
  <2>5. told = <<>> /\ answer = NoSol /\ stage \in {"aco", "ils"}  BY DEF SInit
  <2> QED BY <2>3, <2>4, <2>5 DEF Merged!StreamInit
<1>2. Sound /\ Sound' /\ [SNext]_svars => [Merged!StreamNext]_(Merged!streamVars)
  BY MergedStep
<1> QED BY <1>1, <1>2, SoundAlways, PTL DEF SSpec, MergedContract, Merged!StreamSpec

-----------------------------------------------------------------------------
(* Those: what it makes of a longer sequence, and when it drops nothing. *)
ThoseFcn(s, S, kept) ==
  kept = [i \in 0 .. Len(s) |-> IF i = 0 THEN <<>>
            ELSE IF s[i] \in S THEN Append(kept[i - 1], s[i]) ELSE kept[i - 1]]

LEMMA ThoseDefined ==
  ASSUME NEW X, NEW s \in Seq(X), NEW S
  PROVE  \E kept \in [0 .. Len(s) -> Seq(X)] :
            ThoseFcn(s, S, kept) /\ Those(s, S) = kept[Len(s)]
<1> DEFINE n == Len(s)
           G == [y \in (1 .. n) \X Seq(X) |->
                   IF s[y[1]] \in S THEN Append(y[2], s[y[1]]) ELSE y[2]]
<1>1. n \in Nat  OBVIOUS
<1>2. G \in [(1 .. n) \X Seq(X) -> Seq(X)]
  <2>1. ASSUME NEW y \in (1 .. n) \X Seq(X)
        PROVE  (IF s[y[1]] \in S THEN Append(y[2], s[y[1]]) ELSE y[2]) \in Seq(X)
    <3>1. y[2] \in Seq(X) /\ s[y[1]] \in X  BY ElementOfSeq
    <3> QED BY <3>1
  <2> QED BY <2>1
<1>3. \A i \in 1 .. n, q \in Seq(X) :
        G[<<i, q>>] = IF s[i] \in S THEN Append(q, s[i]) ELSE q
  OBVIOUS
<1>4. <<>> \in Seq(X)  OBVIOUS
<1>5. PICK h : Unrolled(h, 0, n, Seq(X), <<>>, G)
  <2>1. Recursive(0, n, Seq(X), <<>>, G)
    <3>1. 0 + 1 .. n = 1 .. n  OBVIOUS
    <3> HIDE DEF G, n
    <3> QED BY <1>1, <1>2, <1>4, <3>1 DEF Recursive
  <2> QED BY <2>1, Recursion
<1>u. /\ h \in [0 .. n -> Seq(X)] /\ h[0] = <<>>
      /\ \A i \in 1 .. n : h[i] = G[<<i, h[i - 1]>>]
  <2> HIDE DEF G, n
  <2> QED BY <1>1, <1>5 DEF Unrolled
<1> HIDE DEF G
<1>6. ThoseFcn(s, S, h)
  <2>1. ASSUME NEW i \in 0 .. n, i # 0
        PROVE  h[i] = IF s[i] \in S THEN Append(h[i - 1], s[i]) ELSE h[i - 1]
    <3>0. i \in 1 .. n /\ i - 1 \in 0 .. n  BY <1>1, <2>1
    <3>1. i \in 1 .. n /\ h[i - 1] \in Seq(X)  BY <1>u, <3>0
    <3> QED BY <1>3, <1>u, <3>1
  <2> QED BY <1>u, <2>1 DEF ThoseFcn
<1> DEFINE kept[i \in 0 .. Len(s)] ==
             IF i = 0 THEN <<>>
             ELSE IF s[i] \in S THEN Append(kept[i - 1], s[i]) ELSE kept[i - 1]
<1>7. kept = CHOOSE f : ThoseFcn(s, S, f)  BY DEF kept, ThoseFcn
<1>8. Those(s, S) = kept[Len(s)]  BY DEF Those
<1> HIDE DEF kept
<1>9. ThoseFcn(s, S, kept)  BY <1>6, <1>7
<1>10. kept \in [0 .. n -> Seq(X)]
  <2> DEFINE T == {i \in 0 .. n : kept[i] \in Seq(X)}
  <2>1. 0 \in T  BY <1>1, <1>4, <1>9 DEF ThoseFcn
  <2>2. ASSUME NEW i \in 0 .. n - 1, i \in T PROVE i + 1 \in T
    <3>1. i + 1 \in 0 .. n /\ i + 1 # 0 /\ i + 1 - 1 = i /\ s[i + 1] \in X  BY <1>1, ElementOfSeq
    <3>0. \A j \in 0 .. n : kept[j] = IF j = 0 THEN <<>>
            ELSE IF s[j] \in S THEN Append(kept[j - 1], s[j]) ELSE kept[j - 1]
      BY <1>9 DEF ThoseFcn
    <3>2. kept[i + 1] = IF s[i + 1] \in S THEN Append(kept[i + 1 - 1], s[i + 1])
                                          ELSE kept[i + 1 - 1]
      BY <3>0, <3>1
    <3>3. kept[i + 1 - 1] \in Seq(X)  BY <2>2, <3>1
    <3>4. Append(kept[i + 1 - 1], s[i + 1]) \in Seq(X)  BY <3>1, <3>3
    <3>5. kept[i + 1] \in Seq(X)  BY <3>2, <3>3, <3>4
    <3> QED BY <3>1, <3>5
  <2>3. 0 .. n \subseteq T
    <3>1. \A i \in 0 .. n - 1 : i \in T => i + 1 \in T  BY <2>2
    <3>2. 0 \in Int /\ n \in Int  BY <1>1
    <3> HIDE DEF T, n
    <3> QED BY <2>1, <3>1, <3>2, Induction
  <2>4. kept = [i \in 0 .. n |-> kept[i]]  BY <1>9 DEF ThoseFcn
  <2> QED BY <2>3, <2>4
<1> QED BY <1>8, <1>9, <1>10

LEMMA ThoseEqs ==
  ASSUME NEW X, NEW s \in Seq(X), NEW S, NEW kept, ThoseFcn(s, S, kept)
  PROVE  /\ kept[0] = <<>>
         /\ \A i \in 1 .. Len(s) : kept[i] = IF s[i] \in S THEN Append(kept[i - 1], s[i])
                                                              ELSE kept[i - 1]
<1>1. Len(s) \in Nat  OBVIOUS
<1>2. \A i \in 0 .. Len(s) : kept[i] = IF i = 0 THEN <<>>
         ELSE IF s[i] \in S THEN Append(kept[i - 1], s[i]) ELSE kept[i - 1]
  BY DEF ThoseFcn
<1> QED BY <1>1, <1>2

LEMMA ThoseAppend ==
  ASSUME NEW X, NEW s \in Seq(X), NEW e \in X, NEW S
  PROVE  /\ Those(s, S) \in Seq(X)
         /\ Those(Append(s, e), S) = IF e \in S THEN Append(Those(s, S), e) ELSE Those(s, S)
<1> DEFINE n == Len(s)
           t == Append(s, e)
<1>1. t \in Seq(X) /\ Len(t) = n + 1 /\ n \in Nat /\ t[n + 1] = e /\ \A i \in 1 .. n : t[i] = s[i]
  OBVIOUS
<1>2. PICK f \in [0 .. n -> Seq(X)] : ThoseFcn(s, S, f) /\ Those(s, S) = f[n]
  BY ThoseDefined
<1> HIDE DEF t
<1>g. PICK g \in [0 .. Len(t) -> Seq(X)] : ThoseFcn(t, S, g) /\ Those(t, S) = g[Len(t)]
  BY <1>1, ThoseDefined
<1>3. g \in [0 .. n + 1 -> Seq(X)] /\ ThoseFcn(t, S, g) /\ Those(t, S) = g[n + 1]
  BY <1>1, <1>g
<1>4. f[0] = <<>> /\ \A i \in 1 .. n : f[i] = IF s[i] \in S THEN Append(f[i - 1], s[i]) ELSE f[i - 1]
  BY <1>2, ThoseEqs
<1>5. g[0] = <<>> /\ \A i \in 1 .. n + 1 : g[i] = IF t[i] \in S THEN Append(g[i - 1], t[i]) ELSE g[i - 1]
  BY <1>1, <1>3, ThoseEqs
<1> HIDE DEF n
<1>6. g[n] = f[n]
  <2> DEFINE T == {i \in 0 .. n : g[i] = f[i]}
  <2>1. 0 \in T  BY <1>1, <1>4, <1>5
  <2>2. ASSUME NEW i \in 0 .. n - 1, i \in T PROVE i + 1 \in T
    <3>1. i + 1 \in 1 .. n /\ i + 1 \in 1 .. n + 1 /\ i + 1 - 1 = i  BY <1>1
    <3>2. f[i + 1] = IF s[i + 1] \in S THEN Append(f[i + 1 - 1], s[i + 1]) ELSE f[i + 1 - 1]
      BY <1>4, <3>1
    <3>3. g[i + 1] = IF t[i + 1] \in S THEN Append(g[i + 1 - 1], t[i + 1]) ELSE g[i + 1 - 1]
      BY <1>5, <3>1
    <3>4. t[i + 1] = s[i + 1] /\ g[i + 1 - 1] = f[i + 1 - 1]  BY <1>1, <2>2, <3>1
    <3>5. g[i + 1] = f[i + 1]  BY <3>2, <3>3, <3>4
    <3> QED BY <3>1, <3>5
  <2>3. \A i \in 0 .. n - 1 : i \in T => i + 1 \in T  BY <2>2
  <2>4. 0 \in Int /\ n \in Int /\ n \in 0 .. n  BY <1>1
  <2> HIDE DEF T
  <2>5. n \in T  BY <2>1, <2>3, <2>4, Induction
  <2> QED BY <2>5 DEF T
<1>7. g[n + 1] = IF e \in S THEN Append(f[n], e) ELSE f[n]
  <2> DEFINE m == n + 1
  <2>1. m \in 1 .. n + 1 /\ m - 1 = n  BY <1>1
  <2> HIDE DEF m
  <2>2. g[m] = IF t[m] \in S THEN Append(g[m - 1], t[m]) ELSE g[m - 1]
    BY <1>5, <2>1
  <2>3. t[m] = e  BY <1>1 DEF m
  <2>4. g[m] = IF e \in S THEN Append(f[n], e) ELSE f[n]
    BY <1>6, <2>1, <2>2, <2>3
  <2> QED BY <2>4 DEF m
<1>8. f[n] \in Seq(X)  BY <1>1
<1>9. Those(t, S) = IF e \in S THEN Append(f[n], e) ELSE f[n]
  BY <1>3, <1>7
<1> QED BY <1>2, <1>8, <1>9 DEF t

LEMMA ThoseEmpty == \A S : Those(<<>>, S) = <<>>
<1> TAKE S
<1>1. <<>> \in Seq({}) /\ Len(<<>>) = 0  OBVIOUS
<1> DEFINE s == <<>>  X == {}
<1>2. s \in Seq(X) /\ Len(s) = 0  BY <1>1
<1> HIDE DEF s, X
<1>3. PICK f : ThoseFcn(s, S, f) /\ Those(s, S) = f[Len(s)]
  BY <1>2, ThoseDefined
<1>4. f[0] = <<>>  BY <1>2, <1>3 DEF ThoseFcn
<1> QED BY <1>2, <1>3, <1>4 DEF s

LEMMA ThoseAll ==
  ASSUME NEW X, NEW s \in Seq(X)
  PROVE  Those(s, X) = s
<1> DEFINE n == Len(s)
<1>1. n \in Nat /\ \A i \in 1 .. n : s[i] \in X  BY ElementOfSeq
<1>2. PICK f \in [0 .. n -> Seq(X)] : ThoseFcn(s, X, f) /\ Those(s, X) = f[n]
  BY ThoseDefined
<1>3. f[0] = <<>> /\ \A i \in 1 .. n : f[i] = IF s[i] \in X THEN Append(f[i - 1], s[i]) ELSE f[i - 1]
  BY <1>2, ThoseEqs
<1> HIDE DEF n
<1> DEFINE T == {i \in 0 .. n : Len(f[i]) = i /\ \A j \in 1 .. i : f[i][j] = s[j]}
<1>4. 0 \in T  BY <1>1, <1>3
<1>5. ASSUME NEW i \in 0 .. n - 1, i \in T PROVE i + 1 \in T
  <2>1. i + 1 \in 1 .. n /\ i + 1 - 1 = i /\ i + 1 \in 0 .. n /\ i \in 0 .. n  BY <1>1
  <2>0. f[i + 1] = IF s[i + 1] \in X THEN Append(f[i + 1 - 1], s[i + 1]) ELSE f[i + 1 - 1]
    BY <1>3, <2>1
  <2>2. f[i + 1] = Append(f[i + 1 - 1], s[i + 1])  BY <1>1, <2>0, <2>1
  <2>3. f[i + 1] = Append(f[i], s[i + 1]) /\ f[i] \in Seq(X) /\ s[i + 1] \in X
    BY <1>1, <2>1, <2>2
  <2>4. Len(f[i + 1]) = i + 1 /\ \A j \in 1 .. i + 1 : f[i + 1][j] = s[j]  BY <1>5, <2>3
  <2> QED BY <2>1, <2>4
<1>6. n \in T
  <2>1. \A i \in 0 .. n - 1 : i \in T => i + 1 \in T  BY <1>5
  <2>2. 0 \in Int /\ n \in Int /\ n \in 0 .. n  BY <1>1
  <2> HIDE DEF T
  <2> QED BY <1>4, <2>1, <2>2, Induction
<1>7. f[n] \in Seq(X) /\ Len(f[n]) = Len(s) /\ \A j \in 1 .. Len(s) : f[n][j] = s[j]
  BY <1>1, <1>6 DEF n
<1>8. f[n] = s  BY <1>7, SeqEqual
<1> QED BY <1>2, <1>8

-----------------------------------------------------------------------------
(* One stream.  What a strictly falling sequence may be prolonged by. *)
Falling(s) == \A i, j \in DOMAIN s : i < j => Cost[s[j]] < Cost[s[i]]

LEMMA FallingAppend ==
  ASSUME NEW s \in Seq(Sol), NEW e \in Sol, Falling(s), s = <<>> \/ Cost[e] < Cost[s[Len(s)]]
  PROVE  Falling(Append(s, e))
<1> DEFINE t == Append(s, e)
           n == Len(s)
<1>1. n \in Nat /\ DOMAIN t = 1 .. n + 1 /\ DOMAIN s = 1 .. n /\ t[n + 1] = e
      /\ \A i \in 1 .. n : t[i] = s[i]
  OBVIOUS
<1>2. \A i \in 1 .. n : Cost[s[i]] \in Nat  BY <1>1, SolTypes, ElementOfSeq
<1>3. Cost[e] \in Nat  BY SolTypes
<1>4. n > 0 => Cost[e] < Cost[s[n]]  OBVIOUS
<1> HIDE DEF t, n
<1>5. ASSUME NEW i \in 1 .. n PROVE Cost[e] < Cost[s[i]]
  <2>1. n \in 1 .. n /\ n > 0  BY <1>1
  <2>2. i = n \/ Cost[s[n]] < Cost[s[i]]  BY <1>1, <2>1 DEF Falling
  <2> QED BY <1>2, <1>3, <1>4, <2>1, <2>2
<1>6. ASSUME NEW i \in 1 .. n + 1, NEW j \in 1 .. n + 1, i < j
      PROVE  Cost[t[j]] < Cost[t[i]]
  <2>1. i \in 1 .. n  BY <1>1, <1>6
  <2>2. CASE j = n + 1  BY <1>1, <1>5, <2>1, <2>2
  <2>3. CASE j # n + 1
    <3>1. j \in 1 .. n  BY <1>1, <2>3
    <3> QED BY <1>1, <1>6, <2>1, <3>1 DEF Falling
  <2> QED BY <2>2, <2>3
<1>7. Falling(t)  BY <1>1, <1>6 DEF Falling
<1> QED BY <1>7 DEF t

(* In the split the hook has heard the colony's stream and the fresh part of the
   search's; the last of it is the result of the colony, or the last incumbent of
   the search and cheaper. *)
Handed ==
  /\ Told(stream, found)
  /\ told = stream \o Those(incumbents, Fresh)
  /\ told # <<>>
  /\ \/ told[Len(told)] = found
     \/ incumbents # <<>> /\ told[Len(told)] = Newest /\ Cost[Newest] < Cost[found]

Single ==
  /\ Falling(told) /\ Falling(stream)
  /\ opts.strategy = "ils" => stream = <<>>
  /\ stage = "ils" /\ Split2 => Handed
  /\ stage = "returned" => record = told

LEMMA SingleInit == SInit => Single
<1> SUFFICES ASSUME SInit PROVE Single  OBVIOUS
<1>1. told = <<>> /\ stream = <<>>  BY DEF SInit, Phase1!ColonyInit
<1>2. Falling(told) /\ Falling(stream)  BY <1>1 DEF Falling
<1>3. ~(stage = "ils" /\ Split2) /\ stage # "returned"  BY DEF SInit, Split2
<1> QED BY <1>1, <1>2, <1>3 DEF Single

LEMMA NoneFresh == stream = <<>> => Fresh = Sol
  BY DEF Fresh

(* What beats the last incumbent of the colony beats all of them. *)
LEMMA FreshBeats ==
  ASSUME stream \in Seq(Sol), Falling(stream), found \in Sol, Told(stream, found), NEW s \in Sol
  PROVE  s \in Fresh <=> Cost[s] < Cost[found]
<1> DEFINE n == Len(stream)
<1>1. n \in Nat /\ n \in DOMAIN stream /\ DOMAIN stream = 1 .. n /\ stream[n] = found
  BY DEF Told
<1>2. Cost[s] \in Nat /\ \A i \in 1 .. n : Cost[stream[i]] \in Nat
  BY <1>1, SolTypes, ElementOfSeq
<1> HIDE DEF n
<1>3. ASSUME NEW i \in 1 .. n, i # n PROVE Cost[found] < Cost[stream[i]]
  <2>1. i < n  BY <1>1, <1>3
  <2> QED BY <1>1, <2>1 DEF Falling
<1>4. ASSUME Cost[s] < Cost[found] PROVE s \in Fresh
  <2>1. \A i \in 1 .. n : Cost[s] < Cost[stream[i]]  BY <1>1, <1>2, <1>3, <1>4
  <2> QED BY <1>1, <2>1 DEF Fresh
<1>5. s \in Fresh => Cost[s] < Cost[found]  BY <1>1 DEF Fresh
<1> QED BY <1>4, <1>5

LEMMA SingleColony == Sound /\ Single /\ ColonyRuns => Single'
<1> SUFFICES ASSUME Sound, Single, ColonyRuns PROVE Single'  OBVIOUS
<1>1. stage = "aco" /\ UNCHANGED driver /\ told = stream /\ opts.strategy # "ils"
  BY DEF ColonyRuns, Sound, Heard
<1>2. Sound'  BY ColonyKeeps
<1>3. told' = stream'  BY <1>1, <1>2 DEF Sound, Heard, driver
<1>4. Falling(stream')
  <2>1. stream \in Seq(Sol)  BY ColonyTypes DEF Sound, Colonised
  <2>2. ColonyTold  BY ColonyMoves DEF Sound, ColonyRuns
  <2>3. CASE stream' = stream  BY <2>3 DEF Single, Falling
  <2>4. CASE stream' # stream
    <3>1. PICK s \in Sol : stream' = Append(stream, s)
                           /\ (stream = <<>> \/ Cost[s] < Cost[stream[Len(stream)]])
      BY <2>2, <2>4 DEF ColonyTold
    <3> QED BY <2>1, <3>1, FallingAppend DEF Single
  <2> QED BY <2>3, <2>4
<1> QED BY <1>1, <1>3, <1>4 DEF Single, driver, Falling

LEMMA SingleHandOver == Sound /\ Single /\ HandOver => Single'
<1> SUFFICES ASSUME Sound, Single, HandOver PROVE Single'  OBVIOUS
<1>1. /\ UNCHANGED <<colony, told, opts, answer, record>> /\ UNCHANGED <<incumbents, stream, found>>
      /\ stage = "aco" /\ stage' \in {"raised", "ils"} /\ at = "Done" /\ told = stream
      /\ incumbents = <<>>
  BY DEF HandOver, Phase1!Over, Sound, Heard, Init, result, colony
<1>2. stage' = "ils" => Handed'
  <2> SUFFICES ASSUME stage' = "ils" PROVE Handed'  OBVIOUS
  <2>1. found # NoSol  BY DEF HandOver
  <2>2. Told(stream, found)  BY <1>1, <2>1 DEF Sound, Colonised
  <2>3. stream \in Seq(Sol)  BY ColonyTypes DEF Sound, Colonised
  <2>4. Those(incumbents', Fresh') = <<>>  BY <1>1, ThoseEmpty
  <2>5. stream \o <<>> = stream  BY <2>3
  <2> QED BY <1>1, <2>2, <2>4, <2>5 DEF Handed, Told
<1> QED BY <1>1, <1>2 DEF Single, Falling

LEMMA SingleSearch == Sound /\ Single /\ SearchRuns => Single'
<1> SUFFICES ASSUME Sound, Single, SearchRuns PROVE Single'  OBVIOUS
<1>1. /\ Next /\ stage = "ils" /\ UNCHANGED driver /\ Tell(incumbents, incumbents')
      /\ UNCHANGED <<stream, found, opts, stage, record>>
  BY DEF SearchRuns, Next, driver, colony
<1>2. told \in Seq(Sol) /\ stream \in Seq(Sol) /\ incumbents \in Seq(Sol)
  BY ColonyTypes DEF Sound, Kinds, Colonised, Searching, Shape, TypeOK
<1>3. Fresh' = Fresh  BY <1>1 DEF Fresh
<1>4. CASE incumbents' = incumbents
  <2>1. told' = told  BY <1>1, <1>4 DEF Tell
  <2> QED BY <1>1, <1>3, <1>4, <2>1 DEF Single, Handed, Falling, Told, Split2, Newest
<1>5. CASE incumbents' # incumbents
  <2>1. PICK s \in Sol : incumbents' = Append(incumbents, s) /\ Publishable(s, incumbents)
    BY <1>1, <1>5, SearchTold DEF Sound
  <2>2. incumbents = <<>> \/ Cost[s] < Cost[Newest]  BY <2>1 DEF Publishable, Newest
  <2>n. incumbents' # <<>> /\ Newest' = s
    <3>1. Append(incumbents, s) # <<>> /\ Append(incumbents, s)[Len(Append(incumbents, s))] = s
      BY <1>2
    <3> QED BY <2>1, <3>1 DEF Newest
  <2>3. CASE ~Split2
    <3>1. told = incumbents  BY <1>1, <2>3 DEF Sound, Heard
    <3>2. told' = Append(told, s)  BY <1>1, <1>2, <2>1, <2>3, <3>1, TellOne DEF Passes
    <3>3. Falling(told')  BY <1>2, <2>2, <3>1, <3>2, FallingAppend DEF Single, Newest
    <3> QED BY <1>1, <2>3, <3>3 DEF Single, Falling, Split2
  <2>4. CASE Split2
    <3>1. Handed /\ found \in Sol  BY <1>1, <2>4 DEF Single, Sound, Heard, Second
    <3>2. s \in Fresh <=> Cost[s] < Cost[found]  BY <1>2, <3>1, FreshBeats DEF Handed, Single
    <3>3. Passes(s) <=> Cost[s] < Cost[found]  BY <1>1, <2>4 DEF Passes
    <3>4. /\ Those(incumbents, Fresh) \in Seq(Sol)
          /\ Those(incumbents', Fresh) = IF s \in Fresh THEN Append(Those(incumbents, Fresh), s)
                                         ELSE Those(incumbents, Fresh)
      <4>1. /\ Those(incumbents, Fresh) \in Seq(Sol)
            /\ Those(Append(incumbents, s), Fresh)
                 = IF s \in Fresh THEN Append(Those(incumbents, Fresh), s)
                   ELSE Those(incumbents, Fresh)
        BY <1>2, ThoseAppend
      <4> QED BY <2>1, <4>1
    <3>5. told' = IF Passes(s) THEN Append(told, s) ELSE told
      BY <1>1, <1>2, <2>1, TellOne
    <3>6. told' = stream \o Those(incumbents', Fresh)
      <4> DEFINE q == Those(incumbents, Fresh)
      <4>1. q \in Seq(Sol) /\ told = stream \o q  BY <3>1, <3>4 DEF Handed
      <4>2. Append(stream \o q, s) = stream \o Append(q, s)
        <5> HIDE DEF q
        <5> QED BY <1>2, <4>1
      <4> QED BY <3>2, <3>3, <3>4, <3>5, <4>1, <4>2
    <3>7. told # <<>> /\ told' # <<>> /\ Falling(told)
      <4>1. told # <<>> /\ Falling(told) /\ Append(told, s) # <<>>
        BY <1>2, <3>1 DEF Handed, Single
      <4> QED BY <3>5, <4>1
    <3>8. \/ told[Len(told)] = found
          \/ incumbents # <<>> /\ told[Len(told)] = Newest /\ Cost[Newest] < Cost[found]
      BY <3>1 DEF Handed
    <3>t. Cost[s] \in Nat /\ Cost[found] \in Nat /\ (incumbents # <<>> => Cost[Newest] \in Nat)
      BY <1>2, <3>1, SolTypes DEF Newest
    <3>9. CASE Cost[s] < Cost[found]
      <4>1. told' = Append(told, s)  BY <3>3, <3>5, <3>9
      <4>2. Cost[s] < Cost[told[Len(told)]]  BY <2>2, <3>8, <3>9
      <4>3. Falling(told')  BY <1>2, <3>7, <4>1, <4>2, FallingAppend
      <4>4. told'[Len(told')] = s  BY <1>2, <4>1
      <4>5. Handed'  BY <1>1, <1>3, <2>n, <3>1, <3>6, <3>7, <3>9, <4>4 DEF Handed, Told
      <4> QED BY <1>1, <4>3, <4>5 DEF Single, Falling, Split2
    <3>10. CASE ~(Cost[s] < Cost[found])
      <4>1. told' = told  BY <3>3, <3>5, <3>10
      <4>2. told[Len(told)] = found  BY <2>2, <3>8, <3>10, <3>t
      <4>3. Handed'  BY <1>1, <1>3, <3>1, <3>6, <3>7, <4>1, <4>2 DEF Handed, Told
      <4> QED BY <1>1, <3>7, <4>1, <4>3 DEF Single, Falling, Split2
    <3> QED BY <3>9, <3>10
  <2> QED BY <2>3, <2>4
<1> QED BY <1>4, <1>5

LEMMA SingleConclude == Sound /\ Single /\ Conclude => Single'
<1> SUFFICES ASSUME Sound, Single, Conclude PROVE Single'  OBVIOUS
<1>1. /\ UNCHANGED <<told, stream, opts>> /\ stage' \in {"raised", "returned"}
      /\ stage' = "returned" => record' = stream \o Those(incumbents, Fresh)
      /\ stage \in {"aco", "ils"}
  BY DEF Conclude, colony
<1>2. told \in Seq(Sol) /\ stream \in Seq(Sol) /\ incumbents \in Seq(Sol)
  BY ColonyTypes DEF Sound, Kinds, Colonised, Searching, Shape, TypeOK
<1>3. stream \o Those(incumbents, Fresh) = told
  <2>1. CASE stage = "aco"
    <3>1. incumbents = <<>> /\ told = stream  BY <2>1 DEF Sound, Heard, Init
    <3>2. Those(incumbents, Fresh) = <<>>  BY <3>1, ThoseEmpty
    <3> QED BY <1>2, <3>1, <3>2
  <2>2. CASE stage = "ils" /\ Split2  BY <2>2 DEF Single, Handed
  <2>3. CASE stage = "ils" /\ ~Split2
    <3>1. told = incumbents /\ opts.strategy = "ils"  BY <2>3 DEF Sound, Heard
    <3>2. stream = <<>> /\ Fresh = Sol  BY <3>1, NoneFresh DEF Single
    <3>3. Those(incumbents, Fresh) = incumbents  BY <1>2, <3>2, ThoseAll
    <3> QED BY <1>2, <3>1, <3>2, <3>3
  <2> QED BY <1>1, <2>1, <2>2, <2>3
<1> QED BY <1>1, <1>3 DEF Single, Falling

LEMMA SingleClocks == Sound /\ Single /\ Clocks => Single'
<1> SUFFICES ASSUME Sound, Single, Clocks PROVE Single'  OBVIOUS
<1>1. UNCHANGED <<told, stream, found, opts, stage, record, incumbents>>
  BY DEF Clocks, Phase1!Clock, Tick, vars, result, driver, colony
<1> QED BY <1>1 DEF Single, Handed, Falling, Told, Split2, Newest, Fresh

LEMMA SingleStep == Sound /\ Single /\ [SNext]_svars => Single'
<1> SUFFICES ASSUME Sound, Single, [SNext]_svars PROVE Single'  OBVIOUS
<1>1. CASE UNCHANGED svars
  <2>1. UNCHANGED <<told, stream, found, opts, stage, record, incumbents>>
    BY <1>1 DEF svars, vars, result, driver, colony
  <2> QED BY <2>1 DEF Single, Handed, Falling, Told, Split2, Newest, Fresh
<1> QED BY <1>1, SingleColony, SingleHandOver, SingleSearch, SingleConclude, SingleClocks
        DEF SNext, SStep

(* Under every strategy, capped or not, each incumbent the hook is given is cheaper
   than the one before, and the Solution records what the hook was given: the filter
   of the second phase's hook and the merge of the two records agree (solve.py). *)
THEOREM StreamIsOne == SSpec => []OneStream
<1>1. SInit => Sound /\ Single  BY SoundInit, SingleInit
<1>2. Sound /\ Single /\ [SNext]_svars => (Sound /\ Single)'
  BY SoundStep, SingleStep
<1>3. Single => OneStream  BY DEF Single, Falling, OneStream
<1> QED BY <1>1, <1>2, <1>3, PTL DEF SSpec
===============================================================================

-------------------------------- MODULE IlsMC --------------------------------
(* Small instances of Ils: solutions are (route count, price) pairs, and each
   run fixes a handful of parameter records. *)
EXTENDS Ils

CONSTANTS MaxK, MaxCost

MCSol  == [k : 1 .. MaxK, c : 1 .. MaxCost]
MCK    == [s \in MCSol |-> s.k]
MCCost == [s \in MCSol |-> s.c]

Plain == [priced |-> FALSE, kCap |-> 0, splitSeed |-> FALSE, warm |-> FALSE, timed |-> FALSE,
          exhaustiveOnBest |-> TRUE, historyLen |-> 1, maxIter |-> 2, restartAfter |-> 1,
          workRestart |-> FALSE, fdAttempts |-> 3, fdPeriod |-> 0, workFd |-> FALSE,
          squeeze |-> FALSE, sqOnNodrop |-> TRUE]

Duration == [Plain EXCEPT !.splitSeed = TRUE, !.timed = TRUE, !.historyLen = 2,
                          !.maxIter = 3, !.restartAfter = 2]
Fleet    == [Plain EXCEPT !.priced = TRUE, !.workRestart = TRUE, !.workFd = TRUE,
                          !.squeeze = TRUE, !.restartAfter = 5]
Capped   == [Plain EXCEPT !.priced = TRUE, !.kCap = 1, !.timed = TRUE, !.maxIter = 3]
WarmCap  == [Plain EXCEPT !.priced = TRUE, !.kCap = 2, !.warm = TRUE, !.fdPeriod = 1,
                          !.exhaustiveOnBest = FALSE, !.restartAfter = 5]

Periodic == [Plain EXCEPT !.priced = TRUE, !.fdPeriod = 1, !.restartAfter = 2, !.maxIter = 3]

MainConfigs == {Duration, Fleet, Capped, WarmCap}
DurationOnly == {Duration}
PeriodicOnly == {Periodic}
=============================================================================

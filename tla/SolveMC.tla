------------------------------- MODULE SolveMC --------------------------------
(* Instances of Solve: three prices with a tie, one turn or two of two ants; a
   cap of one route leaves the cheapest solution out. *)
EXTENDS Solve

MCSol  == {[k |-> 2, c |-> 1], [k |-> 1, c |-> 2], [k |-> 2, c |-> 2], [k |-> 1, c |-> 3]}
MCK    == [s \in MCSol |-> s.k]
MCCost == [s \in MCSol |-> s.c]

Plain == [priced |-> FALSE, kCap |-> 0, splitSeed |-> FALSE, warm |-> FALSE, timed |-> FALSE,
          exhaustiveOnBest |-> FALSE, historyLen |-> 1, maxIter |-> 1, restartAfter |-> 5,
          workRestart |-> FALSE, fdAttempts |-> 0, fdPeriod |-> 0, workFd |-> FALSE,
          squeeze |-> FALSE, sqOnNodrop |-> FALSE]
Warm   == [Plain EXCEPT !.warm = TRUE]
Capped == [Warm EXCEPT !.priced = TRUE, !.kCap = 1, !.fdAttempts = 1]
Cold   == [Plain EXCEPT !.splitSeed = TRUE]

EitherTimed(c) == {[c EXCEPT !.timed = b] : b \in BOOLEAN}
MCConfigs == UNION {EitherTimed(c) : c \in {Warm, Capped, Cold}}

MCColonies == {[local |-> TRUE, all |-> FALSE, maxTurns |-> 2, maxQuiet |-> 2],
               [local |-> FALSE, all |-> FALSE, maxTurns |-> 1, maxQuiet |-> 1],
               [local |-> TRUE, all |-> TRUE, maxTurns |-> 1, maxQuiet |-> 2]}

MCOptions == {[strategy |-> "aco", limit |-> 1, share |-> 0],
              [strategy |-> "ils", limit |-> 0, share |-> 0],
              [strategy |-> "ils", limit |-> 1, share |-> 0],
              [strategy |-> "aco+ils", limit |-> 2, share |-> 1]}
===============================================================================

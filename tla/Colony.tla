-------------------------------- MODULE Colony --------------------------------
(***************************************************************************)
(* solve_aco: a greedy seed, then turns of ants that build, descend and    *)
(* deposit, until the pheromone has been quiet often enough, the turns are *)
(* spent or the clock is past the slice.  The clock runs all the time and  *)
(* is read once per turn, at its end.  What the pheromone makes of the     *)
(* next ants is arbitrary.                                                 *)
(***************************************************************************)
EXTENDS Naturals, Sequences

CONSTANTS Sol, K, Cost, NoSol,
          Ants,          \* nb_ants
          Colonies,      \* parameter records
          Horizon        \* bound of the clock

ColonyShape ==
  [local : BOOLEAN,      \* use_local_search
   all : BOOLEAN,        \* ls_all_ants
   maxTurns : Nat,       \* max_iterations (bounds the model)
   maxQuiet : Nat]       \* max_no_improvement

VARIABLES
  par,        \* the parameters
  slice,      \* time_limit_seconds, 0 for none
  spent,      \* seconds since the start
  at,         \* control point
  seed,       \* greedy_routes, until they are the result
  crew,       \* ants: the solution of each, NoSol when it got stuck
  found,      \* result.routes
  stream,     \* result.incumbents
  turn, quiet,
  ending      \* result.status

colonyVars == <<par, slice, spent, at, seed, crew, found, stream, turn, quiet, ending>>

Over == at = "Done"

Improved(s) == {t \in Sol : t = s \/ (Cost[t] < Cost[s] /\ K[t] <= K[s])}

ColonyInit ==
  /\ par \in Colonies
  /\ slice \in 0 .. Horizon /\ spent = 0
  /\ at = "Seed" /\ seed = NoSol /\ crew = [a \in 1 .. Ants |-> NoSol]
  /\ found = NoSol /\ stream = <<>>
  /\ turn = 0 /\ quiet = 0 /\ ending = "Running"

(* publish: strictly decreasing. *)
Report(s) ==
  stream' = IF stream = <<>> \/ Cost[s] < Cost[stream[Len(stream)]]
            THEN Append(stream, s) ELSE stream

(* The raw greedy seed goes out before its descent.  A construction that gets
   stuck leaves the ants without an incumbent to beat. *)
Sow ==
  /\ at = "Seed"
  /\ \/ at' = "Build" /\ UNCHANGED <<seed, stream>>
     \/ at' = "SeedDescend" /\ \E g \in Sol : seed' = g /\ Report(g)
  /\ UNCHANGED <<par, slice, spent, crew, found, turn, quiet, ending>>

Ripen ==
  /\ at = "SeedDescend" /\ at' = "Build"
  /\ found' \in (IF par.local THEN Improved(seed) ELSE {seed})
  /\ seed' = NoSol
  /\ Report(found')
  /\ UNCHANGED <<par, slice, spent, crew, turn, quiet, ending>>

Build ==
  /\ at = "Build" /\ turn < par.maxTurns
  /\ at' = "Descend"
  /\ crew' \in [1 .. Ants -> Sol \cup {NoSol}]
  /\ UNCHANGED <<par, slice, spent, seed, found, stream, turn, quiet, ending>>

Exhaust ==
  /\ at = "Build" /\ turn = par.maxTurns
  /\ at' = "Done"
  /\ ending' = IF found = NoSol THEN "Infeasible" ELSE "Finished"
  /\ UNCHANGED <<par, slice, spent, seed, crew, found, stream, turn, quiet>>

Feasible(c) == {a \in 1 .. Ants : c[a] # NoSol}

\* The first of the cheapest ants, as a set.
Foremost(c) ==
  {a \in Feasible(c) : \A b \in Feasible(c) :
     Cost[c[a]] < Cost[c[b]] \/ (Cost[c[a]] = Cost[c[b]] /\ a <= b)}

(* The local search takes the best ant or all of them, and no deadline. *)
Treated == IF ~par.local THEN {} ELSE IF par.all THEN Feasible(crew) ELSE Foremost(crew)

Descend ==
  /\ at = "Descend" /\ at' = "Deposit"
  /\ crew' \in [1 .. Ants -> Sol \cup {NoSol}]
  /\ \A a \in 1 .. Ants : IF a \in Treated THEN crew'[a] \in Improved(crew[a])
                                           ELSE crew'[a] = crew[a]
  /\ UNCHANGED <<par, slice, spent, seed, found, stream, turn, quiet, ending>>

(* Every feasible ant deposits; the cheapest one becomes the result if it beats
   the best of the turns before. *)
Beating == {a \in Foremost(crew) : found = NoSol \/ Cost[crew[a]] < Cost[found]}

Deposit ==
  /\ at = "Deposit" /\ at' = "Judge"
  /\ IF Beating = {} THEN UNCHANGED <<found, stream>>
     ELSE \E a \in Beating : found' = crew[a] /\ Report(crew[a])
  /\ UNCHANGED <<par, slice, spent, seed, crew, turn, quiet, ending>>

(* Convergence first, then the clock.  The count of quiet turns is never reset. *)
Late == slice > 0 /\ spent >= slice

Judge ==
  /\ at = "Judge"
  /\ quiet' \in {quiet, quiet + 1}
  /\ turn' = turn + 1
  /\ IF quiet' >= par.maxQuiet \/ Late
     THEN /\ at' = "Done"
          /\ ending' = IF found = NoSol THEN "Infeasible"
                       ELSE IF quiet' >= par.maxQuiet THEN "Converged" ELSE "TimeLimit"
     ELSE at' = "Build" /\ UNCHANGED ending
  /\ crew' = [a \in 1 .. Ants |-> NoSol]   \* the next turn builds them anew
  /\ UNCHANGED <<par, slice, spent, seed, found, stream>>

Clock ==
  /\ ~Over /\ spent < Horizon
  /\ spent' = spent + 1
  /\ UNCHANGED <<par, slice, at, seed, crew, found, stream, turn, quiet, ending>>

ColonyStep == Sow \/ Ripen \/ Build \/ Exhaust \/ Descend \/ Deposit \/ Judge

Points == {"Seed", "SeedDescend", "Build", "Descend", "Deposit", "Judge", "Done"}

ColonyTypeOK ==
  /\ par \in Colonies /\ slice \in Nat /\ spent \in Nat
  /\ at \in Points
  /\ seed \in Sol \cup {NoSol} /\ crew \in [1 .. Ants -> Sol \cup {NoSol}]
  /\ found \in Sol \cup {NoSol} /\ stream \in Seq(Sol)
  /\ turn \in Nat /\ quiet \in Nat
  /\ ending \in {"Running", "Finished", "Converged", "TimeLimit", "Infeasible"}
===============================================================================

-------------------------------- MODULE Solve ---------------------------------
(***************************************************************************)
(* kayros.solve: one strategy or the split "aco+ils", in which solve_ils   *)
(* starts from what solve_aco has found, in the time it has left.  Ils and *)
(* Colony run as they are; this module puts them in order, passes their    *)
(* incumbents on to the caller's hook and merges their records.            *)
(***************************************************************************)
EXTENDS Ils

CONSTANTS Ants, Colonies, Horizon,
          Options       \* [strategy, limit, share]

ASSUME OptionAssumption ==
  /\ Horizon \in Nat
  /\ Options \subseteq [strategy : {"aco", "ils", "aco+ils"},
                        limit : 0 .. Horizon,  \* time_limit, 0 for none
                        share : 0 .. Horizon]  \* limit * aco_budget_fraction
  \* the split without a limit is a ValueError
  /\ \A o \in Options : o.strategy = "aco+ils" => o.limit > 0
  /\ \A c \in Configs, b \in BOOLEAN : [c EXCEPT !.timed = b] \in Configs

VARIABLES
  opts, stage,
  par, slice, spent, at, seed, crew, found, stream, turn, quiet, ending,
  told,       \* what on_incumbent has been given
  answer,     \* routes of the Solution, NoSol when solve raises
  record      \* Solution.incumbents

Phase1 == INSTANCE Colony

ASSUME ColonyAssumption == Ants \in Nat /\ Colonies \subseteq Phase1!ColonyShape

colony == <<par, slice, spent, at, seed, crew, found, stream, turn, quiet, ending>>
driver == <<opts, stage, answer, record>>
svars  == <<vars, colony, told, driver>>

Split2 == opts.strategy = "aco+ils"

SInit ==
  /\ Init /\ Phase1!ColonyInit
  /\ opts \in Options
  /\ cfg.warm = Split2
  /\ cfg.timed = (opts.strategy = "ils" /\ opts.limit > 0)
  /\ slice = IF Split2 THEN opts.share ELSE opts.limit
  /\ stage = IF opts.strategy = "ils" THEN "ils" ELSE "aco"
  /\ told = <<>> /\ answer = NoSol /\ record = <<>>

(* The hook: during the second phase of the split it drops what is not cheaper
   than the result of the first. *)
Passes_All(s) == TRUE   \* mutant: the seed of the second phase is told again
Passes(s) == (stage = "ils" /\ Split2) => Cost[s] < Cost[found]

Tell(old, new) ==
  told' = IF new = old \/ ~Passes(new[Len(new)]) THEN told ELSE Append(told, new[Len(new)])

ColonyRuns ==
  /\ stage = "aco"
  /\ Phase1!ColonyStep
  /\ Tell(stream, stream')
  /\ UNCHANGED <<vars, driver>>

(* Between the phases: a colony without a result ends the solve, else the
   search gets its routes and the rest of the time, never less than a tick (a
   time limit of 0 is none). *)
Remaining_NoFloor == opts.limit - spent   \* mutant: without max(..., 0.01)
Remaining == IF opts.limit > spent THEN opts.limit - spent ELSE 1

HandOver ==
  /\ stage = "aco" /\ Phase1!Over /\ Split2
  /\ IF found = NoSol
     THEN stage' = "raised" /\ UNCHANGED cfg
     ELSE stage' = "ils" /\ cfg' = [cfg EXCEPT !.timed = Remaining > 0]
  /\ UNCHANGED <<pc, search, snap, curr, result, status, count, work, lahc, fd>>
  /\ UNCHANGED <<colony, told, opts, answer, record>>

(* A warm start is the colony's result, which evaluates. *)
Starts == pc = "Seed" /\ cfg.warm => (pc' # "Done" /\ ss' = found)

SearchRuns ==
  /\ stage = "ils"
  /\ Step /\ Starts
  /\ Tell(incumbents, incumbents')
  /\ UNCHANGED <<colony, driver>>

(* The merged records of the split: of the second phase those below the least
   of the first. *)
Fresh_Ties ==   \* mutant: <=
  {s \in Sol : \A i \in DOMAIN stream : Cost[s] <= Cost[stream[i]]}
Fresh == {s \in Sol : \A i \in DOMAIN stream : Cost[s] < Cost[stream[i]]}

\* The elements of s in S, in their order.
Those(s, S) ==
  LET kept[i \in 0 .. Len(s)] ==
        IF i = 0 THEN <<>>
        ELSE IF s[i] \in S THEN Append(kept[i - 1], s[i]) ELSE kept[i - 1]
  IN kept[Len(s)]

Conclude ==
  /\ \/ stage = "aco" /\ Phase1!Over /\ ~Split2
     \/ stage = "ils" /\ pc = "Done"
  /\ answer' = IF stage = "aco" THEN found ELSE routes
  /\ stage' = IF answer' = NoSol THEN "raised" ELSE "returned"
  /\ record' = IF answer' = NoSol THEN <<>> ELSE stream \o Those(incumbents, Fresh)
  /\ UNCHANGED <<vars, colony, told, opts>>

SStep == ColonyRuns \/ HandOver \/ SearchRuns \/ Conclude

Clocks ==
  \/ stage = "aco" /\ Phase1!Clock /\ UNCHANGED <<vars, told, driver>>
  \/ stage = "ils" /\ Tick /\ UNCHANGED <<colony, told, driver>>

SNext == SStep \/ Clocks

SSpec == SInit /\ [][SNext]_svars

(* One thread; the clocks are assumed to do nothing. *)
FairSSpec == SSpec /\ WF_svars(SStep)

-----------------------------------------------------------------------------
STypeOK ==
  /\ TypeOK /\ Phase1!ColonyTypeOK
  /\ opts \in Options
  /\ stage \in {"aco", "ils", "returned", "raised"}
  /\ stage = "ils" /\ Split2 => found \in Sol   \* a warm search has its seed
  /\ told \in Seq(Sol) /\ answer \in Sol \cup {NoSol}

(* Under a cap the colony, which knows none, may tell what the search may not
   return: the stream of a capped split is only a stream. *)
Mixed == Split2 /\ CapActive

(* The stream of the whole solve is an anytime stream, and the Solution agrees
   with it (tests/test_strategy.py 93-111), capped splits excepted. *)
Merged == INSTANCE AnytimeStream
  WITH limit   <- IF opts.strategy = "ils" /\ CapActive THEN cfg.kCap ELSE 0,
       exact   <- opts.strategy # "ils" \/ cfg.priced \/ ~cfg.splitSeed,
       stream  <- IF Mixed THEN <<>> ELSE told,
       outcome <- [done |-> ~Mixed /\ stage \in {"returned", "raised"},
                   sol |-> IF Mixed THEN NoSol ELSE answer]

MergedContract == Merged!StreamSpec

(* One stream under every strategy: each incumbent told is cheaper than the one
   before, and the Solution records what the hook was given. *)
OneStream ==
  /\ \A i, j \in DOMAIN told : i < j => Cost[told[j]] < Cost[told[i]]
  /\ stage = "returned" => record = told

(* A colony that overruns does not leave the second phase without a limit. *)
SecondPhaseTimed == stage = "ils" /\ Split2 => cfg.timed

(* Every solve returns or raises. *)
Concludes == <>(stage \in {"returned", "raised"})
===============================================================================

------------------------------- MODULE Pricing --------------------------------
(***************************************************************************)
(* The branch-cut-and-price with its pricing pass opened up: the bridge's  *)
(* ladder of labeling levels, the path fingerprints, the checker's veto,   *)
(* dual smoothing and the polls of deadline and watermark.  Every other    *)
(* step is Bcp's.  During a pass `cols` is the formulation as the pass     *)
(* found it and `fresh` what the pass has added since.                     *)
(***************************************************************************)
EXTENDS Bcp

CONSTANTS
  Phantom,        \* paths the labeling may price although no vehicle can drive them
  Vague,          \* those the pool's own repricing finds infeasible, too
  Crew,           \* customers of a column or a phantom: the pool's key
  Dust,           \* columns that labeling arithmetic may price a hair below 0
                  \* although the master holds them
  SolutionLimit   \* solution_limit

ASSUME PricingAssumption ==
  /\ Phantom \cap Column = {} /\ Vague \subseteq Phantom
  /\ Crew \in [Column \cup Phantom -> SUBSET Customer]
  /\ \A c \in Column : Crew[c] = Visits[c]
  /\ Dust \subseteq Column /\ SolutionLimit \in Nat

VARIABLES
  level,             \* heuristic_level (3 is Exact)
  merge,             \* closing_state, merge_start: the next run merges from its "first"
                     \* turn on, from a "late" one on, or over its "last" arcs only
  center,            \* center_set
  at, kind,          \* where the pass is; the duals it prices at
  keys, fresh,       \* column_keys; columns the pass added
  cut,               \* history: a limit may have cut the last run, or kept it from starting
  rejected,          \* checker_infeasible_count > 0
  lost,              \* history: a priced route or a cut went unnoticed
  doubtful           \* history: a pass ended on a run that need not find what there is

ladder == <<level, merge, center, at, kind, keys, fresh, cut, rejected, lost, doubtful>>
pvars  == <<vars, ladder>>

Exact == 3

PInit ==
  /\ Init
  /\ level = 1 /\ merge = "first" /\ center = FALSE
  /\ at = "Idle" /\ kind = "true"
  /\ keys = cols /\ fresh = {}
  /\ cut = FALSE /\ rejected = FALSE /\ lost = FALSE /\ doubtful = FALSE

Move(from, to) == pc = "Price" /\ at = from /\ at' = to

(* The column generation calls pricing_solver: the first pass of a solve has
   no center to smooth towards. *)
Begin ==
  /\ Move("Idle", "Ladder")
  /\ kind' = IF cfg.smooth /\ center THEN "smooth" ELSE "true"
  /\ UNCHANGED <<vars, level, merge, center, keys, fresh, cut, rejected, lost, doubtful>>

(* run_ladder_and_add: the polls at the head of its loop. *)
LadderStop ==
  /\ Move("Ladder", "Landed")
  /\ hit # {}
  /\ cut' = TRUE
  /\ UNCHANGED <<vars, level, merge, center, kind, keys, fresh, rejected, lost, doubtful>>

RunLevel ==
  /\ Move("Ladder", "Labeling")
  /\ hit = {}
  /\ cut' = FALSE
  /\ UNCHANGED <<vars, level, merge, center, kind, keys, fresh, rejected, lost, doubtful>>

-----------------------------------------------------------------------------
(* What a run of the labeling may hand back: one route per set of customers,
   none over a forbidden arc.  At the true duals a column of the master is not
   negative beyond dust. *)
Priceable == (Column \ Using(forbidden, Column)) \cup (IF cfg.phantoms THEN Phantom ELSE {})

Plausible(R) ==
  /\ \A a, b \in R : Crew[a] = Crew[b] => a = b
  /\ kind = "true" => R \cap cols \subseteq Dust

(* The runs of which LabelingBestProofs shows that they have the most negative route,
   unless it ties with one alike (theorem CheapestFound): Exact, opening and merging
   from the first turn on.  Nothing is known of any other, the closing ones included. *)
Filled(R) == Cardinality(R) >= SolutionLimit
Sure(R)   == level = Exact /\ merge = "first" /\ ~Filled(R)

(* The most negative route at the true duals is news, unless the linear program is
   solved: the columns of the master are negative by dust only, and dust does not turn
   the order of two routes. *)
Telling(R) == kind = "true" => ~(R \subseteq cols) \/ Priced

(* add_columns: a placeholder of the pool is no column, a known path is not
   added twice, what the checker rejects is counted. *)
Insert_NoKeys(R) ==   \* mutant: no fingerprints
  /\ keys' = keys \cup (R \ Vague)
  /\ fresh' = R \cap Column
  /\ rejected' = (rejected \/ R \cap (Phantom \ Vague) # {})
  /\ lost' = (lost \/ R \cap Vague # {})

Insert_Silent(R) ==   \* mutant: a rejected route is dropped without a count
  LET news == R \ (keys \cup Vague) IN
  /\ keys' = keys \cup news
  /\ fresh' = news \cap Column
  /\ lost' = (lost \/ R \cap Vague # {})
  /\ UNCHANGED rejected

Insert(R) ==
  LET news == R \ (keys \cup Vague) IN
  /\ keys' = keys \cup news
  /\ fresh' = news \cap Column
  /\ rejected' = (rejected \/ news \cap Phantom # {})
  /\ lost' = (lost \/ R \cap Vague # {})

(* Columns end the ladder, a level without news climbs, an Exact level without
   news ends it and resets what the next pass starts from.  Before that an Exact run
   that finished closes, and merge_start moves towards the number of labels. *)
Climb(finished) ==
  \/ /\ fresh' = {} /\ level = Exact
     /\ at' = "Landed" /\ level' = 1 /\ merge' = "first"
  \/ /\ merge' \in IF merge = "last" \/ (level = Exact /\ finished) THEN {"last"}
                    ELSE {"first", "late"}
     /\ \/ fresh' # {} /\ at' = "Landed" /\ UNCHANGED level
        \/ fresh' = {} /\ level < Exact /\ at' = "Ladder" /\ level' = level + 1

(* The level returns its pool and add_columns goes through it.  A full pool or a
   limit keeps the run from Finished; a limit that is reached anywhere on the way
   leaves an arbitrary part.  A pass that ends on a run that is not sure, or that had
   to break a tie, is doubtful. *)
Level ==
  /\ pc = "Price" /\ at = "Labeling"
  /\ cut' = (cut \/ hit # {})
  /\ \E R \in {S \in SUBSET Priceable : Plausible(S)}, finished \in BOOLEAN :
       /\ finished = ~Filled(R) \/ (cut' /\ ~finished)
       /\ Insert(R)
       /\ Climb(finished)
       /\ \/ level < Exact /\ UNCHANGED doubtful
          \/ Sure(R) /\ (Telling(R) \/ cut') /\ UNCHANGED doubtful
          \/ level = Exact /\ doubtful' = (doubtful \/ (kind = "true" /\ fresh' = {}))
  /\ UNCHANGED <<vars, center, kind>>

-----------------------------------------------------------------------------
(* A smoothed pass without news says nothing: price again at the true duals. *)
Mispriced_Never == FALSE   \* mutant: a smoothed pass without news is taken for exhaustion
Mispriced == kind = "smooth" /\ fresh = {} /\ "Time" \notin hit

Misprice ==
  /\ Move("Landed", "Ladder")
  /\ Mispriced
  /\ kind' = "true"
  /\ UNCHANGED <<vars, level, merge, center, keys, fresh, cut, rejected, lost, doubtful>>

(* The end of pricing_solver: a limit is written into the CG status.  The
   formulation now holds what the pass added. *)
EndPass ==
  /\ Move("Landed", "Idle")
  /\ ~Mispriced
  /\ AddColumns(fresh)
  /\ pc' = IF fresh # {} THEN "Solve" ELSE IF cur.root THEN "Cut" ELSE "Settle"
  /\ center' = TRUE /\ fresh' = {} /\ kind' = "true" /\ cut' = FALSE
  /\ lost' = (lost \/ (cut /\ hit = {} /\ fresh = {}))
  /\ poisoned' = (rejected \/ lost' \/ doubtful)
  /\ UNCHANGED <<cfg, hit, cuts, spf, cur, lp, newCuts, queue, branched, children, bounds,
                 closed, status, starved>>
  /\ UNCHANGED <<level, merge, keys, rejected, doubtful>>

Pass ==
  Begin \/ LadderStop \/ RunLevel \/ Level \/ Misprice \/ EndPass

Elsewhere == pc # "Price" /\ Step /\ UNCHANGED ladder

(* A run may have seen the limit that goes away. *)
Forget ==
  /\ Rearm
  /\ cut' = (cut \/ at = "Labeling")
  /\ UNCHANGED <<level, merge, center, at, kind, keys, fresh, rejected, lost, doubtful>>

PStep == Pass \/ Elsewhere
PNext == PStep \/ (Tick /\ UNCHANGED ladder) \/ Forget

PSpec == PInit /\ [][PNext]_pvars

(* One thread; nothing is assumed of the limits. *)
FairPSpec == PSpec /\ WF_pvars(PStep)

-----------------------------------------------------------------------------
LadderTypeOK ==
  /\ level \in 1 .. Exact /\ merge \in {"first", "late", "last"} /\ center \in BOOLEAN
  /\ at \in {"Idle", "Ladder", "Labeling", "Landed"}
  /\ kind \in {"true", "smooth"}
  /\ keys \subseteq Column \cup Phantom
  /\ fresh \subseteq Column
  /\ cut \in BOOLEAN /\ rejected \in BOOLEAN /\ lost \in BOOLEAN /\ doubtful \in BOOLEAN

(* A column is added once: the fingerprints hold every column of the
   formulation and, beyond them, only routes the checker rejected. *)
Fingerprints == cols \cup fresh \subseteq keys /\ keys \cap Column \subseteq cols \cup fresh

(* What a wrong "Optimum" can come from (lera_bridge.cpp 247-253 has the count of
   rejected columns for it): a rejected route, a starved node, a path that vanished in
   the pool's own repricing, another solve at the watermark, or a pass that ended on an
   Exact run that was closing, merged late, filled its pool or had to break a tie.  The
   fingerprints, the smoothed passes, the veto and the limits add nothing to that. *)
Certificate ==
  pc = "Done" /\ status = "Optimum" /\ ~starved /\ ~rejected /\ ~lost /\ ~doubtful
     => \A w \in Partition : zub <= Price[w]
===============================================================================

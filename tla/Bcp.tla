--------------------------------- MODULE Bcp ----------------------------------
(***************************************************************************)
(* BCP::Run: branch and bound over column generation.  A node is a set of  *)
(* forbidden arcs; its linear program is solved over the columns generated *)
(* so far, pricing adds columns until none improves, cuts are separated at *)
(* the root.  Time and memory limits are conditions that may appear        *)
(* between any two steps and never go away.                                *)
(***************************************************************************)
EXTENDS Master, Sequences

CONSTANTS NoPoint, Configs, STRONG_BRANCH_SIZE

Node(A, bound, opt) == [A |-> A, bound |-> bound, opt |-> opt]
NoNode == Node({}, 0, NoPoint)

ConfigShape ==
  [limits : SUBSET {"Time", "Memory"},  \* the limits that may be hit
   graph : SUBSET (Vertex \X Vertex),  \* D.Arcs(): the arcs preprocessing has left
   given : SUBSET Column,  \* routes of the warm start the checker accepts
   warm : Partition \cup {NoPoint},         \* the partition they are, if they are one
   cutLimit : Nat, nodeLimit : Nat,
   phantoms : BOOLEAN,  \* the labeling may price routes the checker rejects
   smooth : BOOLEAN,    \* pricing starts at smoothed duals (both read in Pricing)
   rival : BOOLEAN]     \* another solve of the process may re-arm the watermark

ASSUME BcpAssumption ==
  /\ NoPoint \notin Point /\ STRONG_BRANCH_SIZE \in Nat \ {0}
  /\ Configs \subseteq ConfigShape
  /\ \A f \in Configs : /\ f.warm # NoPoint => Support[f.warm] \subseteq f.given
                        \* what is not of the graph is never priced
                        /\ \A c \in Column \ f.given : ArcsOf[c] \subseteq f.graph

VARIABLES
  cfg, pc,
  hit,               \* limits reached so far
  cols, cuts,        \* columns and cuts of the formulation
  forbidden, fixed,  \* SPF: forbidden arcs, columns with upper bound 0
  cur, cgStatus, lp, newCuts,     \* the node in ProcessNode; its CG
  queue,             \* open nodes
  branched,          \* the node BranchNode works on
  children,          \* its children still to be processed
  zlb, zub, ub,      \* bounds (0 and Infty when unset), best solution
  closed, status,
  incumbents,
  starved,  \* history: a node was lost whose master only lacked columns, or arcs
  poisoned  \* history: a pass may have missed a route without a limit to show for it

spf    == <<forbidden, fixed>>
cg     == <<cur, cgStatus, lp, newCuts>>
bounds == <<zlb, zub, ub, incumbents>>
flags  == <<starved, poisoned>>
vars   == <<cfg, pc, hit, cols, cuts, spf, cg, queue, branched, children, bounds,
            closed, status, flags>>

Goto(from, to) == pc = from /\ pc' = to

(* SPF::SetForbiddenArcs: restore the columns of the old set, fix those of
   the new one. *)
SetForbidden_NoRestore(A) ==   \* mutant: old bounds are not restored
  /\ fixed' = fixed \cup Using(A, cols)
  /\ forbidden' = A

SetForbidden(A) ==
  /\ fixed' = (fixed \ Using(forbidden, cols)) \cup Using(A, cols)
  /\ forbidden' = A

(* The formulation as it stands, and the complete one of a node. *)
Rmp     == Restricted(cols \ fixed, cuts)
Full(A) == Restricted(Column \ Using(A, Column), cuts)

Init ==
  /\ cfg \in Configs
  /\ pc = "Root" /\ hit = {}
  /\ cols = Seed \cup cfg.given
  /\ cuts = {} /\ forbidden = {} /\ fixed = {}
  /\ cur = [A |-> {}, root |-> TRUE] /\ cgStatus = "Optimum" /\ lp = NoPoint /\ newCuts = FALSE
  /\ queue = {}
  /\ branched = NoNode /\ children = <<>>
  /\ zlb = 0 /\ ub = NoPoint
  /\ zub = IF cfg.warm = NoPoint THEN Infty ELSE Price[cfg.warm]
  /\ closed = 0 /\ status = "DidNotStart"
  /\ incumbents = <<>>
  /\ starved = FALSE /\ poisoned = FALSE

Tick ==
  /\ pc # "Done"
  /\ \E l \in cfg.limits \ hit : hit' = hit \cup {l}
  /\ UNCHANGED <<cfg, pc, cols, cuts, spf, cg, queue, branched, children, bounds, closed,
                 status, flags>>

(* The watermark belongs to the process: SetLimitBytes of another solve clears
   the sticky flag. *)
Rearm ==
  /\ pc # "Done" /\ cfg.rival /\ "Memory" \in hit
  /\ hit' = hit \ {"Memory"}
  /\ UNCHANGED <<cfg, pc, cols, cuts, spf, cg, queue, branched, children, bounds, closed,
                 status, flags>>

-----------------------------------------------------------------------------
(* ProcessNode: column generation on the node, then its fate. *)
Enter(A, isRoot) ==
  /\ SetForbidden(A)
  /\ cur' = [A |-> A, root |-> isRoot]
  /\ cgStatus' = "Optimum"
  /\ lp' = NoPoint
  /\ newCuts' = FALSE

Root ==
  /\ Goto("Root", "Solve")
  /\ Enter({}, TRUE)
  /\ UNCHANGED <<cfg, hit, cols, cuts, queue, branched, children, bounds, closed, status, flags>>

(* The deadline at the head of the CG loop, or inside the LP. *)
SolveAborted ==
  /\ Goto("Solve", "Settle")
  /\ "Time" \in hit
  /\ cgStatus' = "Time"
  /\ UNCHANGED <<cfg, hit, cols, cuts, spf, cur, lp, newCuts, queue, branched, children,
                 bounds, closed, status, flags>>

Solve ==
  /\ pc = "Solve" /\ "Time" \notin hit
  /\ IF Rmp = {}
     THEN cgStatus' = "Infeasible" /\ pc' = "Settle" /\ UNCHANGED lp
     ELSE lp' \in Optima(Rmp) /\ pc' = "Price" /\ UNCHANGED cgStatus
  /\ UNCHANGED <<cfg, hit, cols, cuts, spf, cur, newCuts, queue, branched, children, bounds,
                 closed, status, flags>>

(* The pricing ladder (opened up in Pricing).  Without a limit it adds columns
   or ends at the Exact level with nothing left to add; a limit cuts it short
   and is written into the CG status, so that it does not read as exhaustion.
   What is left is poisoned: a route that is thrown away, a limit that another
   solve took back before it was read, a run of the labeling that misses a route. *)
Priced == \A v \in Full(forbidden) : Price[lp] <= Price[v]

AbortStatus == IF "Memory" \in hit THEN "Memory" ELSE "Time"

AddColumns_Masquerade(N) ==   \* mutant: a truncated pass reads as exhaustion
  /\ cols' = cols \cup N
  /\ cgStatus' = cgStatus

AddColumns(N) ==
  /\ cols' = cols \cup N
  /\ cgStatus' = IF hit = {} THEN cgStatus ELSE AbortStatus

Fresh_Repeats(C) == Column \ Using(forbidden, Column)   \* mutant: no fingerprints
Fresh(C) == Column \ (C \cup Using(forbidden, Column))

PriceOut ==
  /\ pc = "Price"
  /\ \E N \in SUBSET Fresh(cols) :
       /\ AddColumns(N)
       /\ \/ N # {} /\ pc' = "Solve"
          \/ N = {} /\ pc' = IF cur.root THEN "Cut" ELSE "Settle"
       /\ \/ (N # {} \/ Priced \/ hit # {} \/ poisoned) /\ UNCHANGED poisoned
          \/ poisoned' = TRUE
  /\ UNCHANGED <<cfg, hit, cuts, spf, cur, lp, newCuts, queue, branched, children, bounds,
                 closed, status, starved>>

(* Root only: one cut per LP, violated by more than the threshold, until none or
   the limit. *)
Separable(w) == {k \in Row \ cuts : w \in Violated[k]}

Cut ==
  /\ pc = "Cut"
  /\ "Time" \notin hit /\ Cardinality(cuts) < cfg.cutLimit
  /\ \E w \in Optima(Rmp) : \E k \in Separable(w) : cuts' = cuts \cup {k}
  /\ newCuts' = TRUE
  /\ UNCHANGED <<cfg, pc, hit, cols, spf, cur, cgStatus, lp, queue, branched, children, bounds,
                 closed, status, flags>>

(* A CG loop that saw new rows solves again; otherwise it is over. *)
CutEnd ==
  /\ Goto("Cut", IF newCuts THEN "Solve" ELSE "Settle")
  /\ \/ "Time" \in hit \/ Cardinality(cuts) >= cfg.cutLimit \/ Rmp = {}
     \/ \E w \in Optima(Rmp) : Separable(w) = {}
  /\ newCuts' = FALSE
  /\ UNCHANGED <<cfg, hit, cols, cuts, spf, cur, cgStatus, lp, queue, branched, children, bounds,
                 closed, status, flags>>

(* A node whose master was only short of columns is closed like an infeasible
   one: nothing prices columns for it.  BranchNode already drops the children
   whose probe was infeasible, so ProcessNode does not meet one. *)
Close(n) == closed' = closed + n
Short(A) == Full(A) # {}

NewIncumbent(w) ==
  /\ zub' = Price[w]
  /\ ub' = w
  /\ incumbents' = Append(incumbents, w)
  /\ UNCHANGED zlb

Improves_Ties(w) == zub >= Price[w]   \* mutant: an equal solution is news
Improves(w) == zub > Price[w]

IsInteger_Close(w) == w \in Partition \/ Price[w] <= zub   \* mutant: too lenient
IsInteger(w) == w \in Partition

Settle ==
  /\ pc = "Settle"
  /\ \/ /\ cgStatus \in {"Time", "Memory"}
        /\ status' = cgStatus
        /\ UNCHANGED <<queue, bounds, closed, starved>>
     \/ /\ cgStatus = "Infeasible"
        /\ Close(1) /\ starved' = (starved \/ Short(cur.A))
        /\ UNCHANGED <<queue, bounds, status>>
     \/ /\ cgStatus = "Optimum" /\ IsInteger(lp)
        /\ IF Improves(lp) THEN NewIncumbent(lp) ELSE UNCHANGED bounds
        /\ Close(1) /\ UNCHANGED <<queue, status, starved>>
     \/ /\ cgStatus = "Optimum" /\ ~IsInteger(lp) /\ Price[lp] > zub
        /\ Close(1) /\ UNCHANGED <<queue, bounds, status, starved>>
     \/ /\ cgStatus = "Optimum" /\ ~IsInteger(lp) /\ Price[lp] <= zub
        /\ queue' = queue \cup {Node(cur.A, Price[lp], lp)}
        /\ UNCHANGED <<bounds, closed, status, starved>>
  /\ pc' = IF ~cur.root THEN "Children" ELSE IF queue' = {} THEN "Finish" ELSE "Freeze"
  /\ UNCHANGED <<cfg, hit, cols, cuts, spf, cg, branched, children, poisoned>>

(* FreezeHeuristic: the integer program over the columns at hand.  A time
   limit may leave it without a solution, or with any. *)
Freeze ==
  /\ Goto("Freeze", "Head")
  /\ LET I == Rmp \cap Partition IN
     \/ /\ "Time" \in hit \/ I = {} \/ \E w \in Optima(I) : ~Improves(w)
        /\ UNCHANGED bounds
     \/ /\ \E w \in IF "Time" \in hit THEN I ELSE Optima(I) : Improves(w) /\ NewIncumbent(w)
  /\ UNCHANGED <<cfg, hit, cols, cuts, spf, cg, queue, branched, children, closed, status, flags>>

-----------------------------------------------------------------------------
(* The best-bound-first loop of Run. *)
Aborted == status \in {"Time", "Memory"}

Stop ==
  /\ Goto("Head", "Finish")
  /\ queue = {} \/ Aborted \/ hit # {} \/ closed >= cfg.nodeLimit
  /\ status' = IF queue = {} \/ Aborted THEN status
               ELSE IF "Time" \in hit THEN "Time"
               ELSE IF "Memory" \in hit THEN "Memory" ELSE "Node"
  /\ UNCHANGED <<cfg, hit, cols, cuts, spf, cg, queue, branched, children, bounds, closed, flags>>

Pop(n) == n \in queue /\ \A m \in queue : n.bound <= m.bound

(* zlb is raised when a node is taken, a node that cannot improve is dropped. *)
Take ==
  /\ pc = "Head" /\ ~Aborted /\ hit = {} /\ closed < cfg.nodeLimit
  /\ \E n \in queue :
       /\ Pop(n)
       /\ queue' = queue \ {n}
       /\ IF zub > n.bound
          THEN zlb' = n.bound /\ branched' = n /\ pc' = "Branch"
          ELSE UNCHANGED <<zlb, branched, pc>>
  /\ Close(1)
  /\ UNCHANGED <<cfg, hit, cols, cuts, spf, cg, children, zub, ub, incumbents, status, flags>>

-----------------------------------------------------------------------------
(* BranchNode: an arc e of fractional flow is forbidden in the left child and
   forced in the right one.  Strong branching solves both restricted masters
   of every candidate, keeps the arc with the best worse child, and drops the
   children whose restricted master is infeasible. *)
Left(A, e)  == A \cup {e}
Right(A, e) == A \cup Competing(cfg.graph, e)

(* The arcs tried: of those of the graph with fractional flow some
   STRONG_BRANCH_SIZE (nearest to 1/2 first), or all. *)
Tried(w) ==
  LET E == Fractional(w) \cap cfg.graph IN
  {F \in SUBSET E : IF Cardinality(E) <= STRONG_BRANCH_SIZE THEN F = E
                    ELSE Cardinality(F) = STRONG_BRANCH_SIZE}

(* A probe: an arc and the points of its two children's restricted masters. *)
Probed(A)   == Restricted(cols \ Using(A, cols), cuts)
Probes(A,F) == {[arc |-> e, left |-> Probed(Left(A, e)), right |-> Probed(Right(A, e))] : e \in F}

Best(P) == {p \in P : \A q \in P : NotBelow(p.left \cup p.right, q.left \cup q.right)}

Kept(P, A) == IF P = {} THEN <<>> ELSE <<A>>
Lost(P, A) == P = {} /\ Short(A)

Branch ==
  /\ Goto("Branch", "Children")
  /\ "Time" \notin hit
  /\ \E F \in Tried(branched.opt) : LET A == branched.A IN
     \/ /\ F = {}
        /\ children' = <<>> /\ starved' = TRUE /\ UNCHANGED spf
     \/ /\ \E p \in Best(Probes(A, F)) :
             /\ children' = Kept(p.left, Left(A, p.arc)) \o Kept(p.right, Right(A, p.arc))
             /\ starved' = (starved \/ Lost(p.left, Left(A, p.arc)) \/ Lost(p.right, Right(A, p.arc)))
        /\ \E last \in F : SetForbidden(Right(A, last))
  /\ branched' = NoNode
  /\ UNCHANGED <<cfg, hit, cols, cuts, cg, queue, bounds, closed, status, poisoned>>

(* The deadline inside strong branching is written into the run's status, or
   losing the children would read as having solved them. *)
BranchAborted_Silent ==   \* mutant: the children are lost without a word
  /\ Goto("Branch", "Children")
  /\ "Time" \in hit
  /\ children' = <<>>
  /\ branched' = NoNode
  /\ UNCHANGED <<cfg, hit, cols, cuts, spf, cg, queue, bounds, closed, status, flags>>

BranchAborted ==
  /\ Goto("Branch", "Children")
  /\ "Time" \in hit
  /\ status' = "Time"
  /\ \/ UNCHANGED spf
     \/ \E e \in Fractional(branched.opt) \cap cfg.graph :
          \E B \in {Left(branched.A, e), Right(branched.A, e)} : SetForbidden(B)
  /\ children' = <<>>
  /\ branched' = NoNode
  /\ UNCHANGED <<cfg, hit, cols, cuts, cg, queue, bounds, closed, flags>>

NextChild ==
  /\ Goto("Children", "Solve")
  /\ children # <<>> /\ ~Aborted
  /\ Enter(Head(children), FALSE)
  /\ children' = Tail(children)
  /\ UNCHANGED <<cfg, hit, cols, cuts, queue, branched, bounds, closed, status, flags>>

ChildrenDone ==
  /\ Goto("Children", "Head")
  /\ children = <<>> \/ Aborted
  /\ children' = <<>>
  /\ UNCHANGED <<cfg, hit, cols, cuts, spf, cg, queue, branched, bounds, closed, status, flags>>

(* The end of Run: an untouched status means the tree is exhausted; otherwise
   the best open node is reported as the bound. *)
Finish ==
  /\ Goto("Finish", "Done")
  /\ IF status = "DidNotStart"
     THEN status' = "Optimum" /\ zlb' = zub
     ELSE /\ UNCHANGED status
          /\ IF queue = {} THEN UNCHANGED zlb
             ELSE \E n \in queue : Pop(n) /\ zlb' = IF n.bound > zlb THEN n.bound ELSE zlb
  /\ queue' = {}
  /\ UNCHANGED <<cfg, hit, cols, cuts, spf, cg, branched, children, zub, ub, incumbents,
                 closed, flags>>

Step ==
  \/ Root \/ SolveAborted \/ Solve \/ PriceOut \/ Cut \/ CutEnd \/ Settle
  \/ Freeze \/ Stop \/ Take \/ Branch \/ BranchAborted \/ NextChild \/ ChildrenDone
  \/ Finish

Next == Step \/ Tick \/ Rearm

Spec == Init /\ [][Next]_vars

(* One thread runs the search: it keeps taking steps while there is one. *)
FairSpec == Spec /\ WF_vars(Step)

-----------------------------------------------------------------------------
(* The shape of the state. *)
NodeShape == [A : SUBSET (Vertex \X Vertex), bound : Nat, opt : Point \cup {NoPoint}]

TypeOK ==
  /\ cfg \in Configs
  /\ pc \in {"Root", "Solve", "Price", "Cut", "Settle", "Freeze", "Head", "Branch",
              "Children", "Finish", "Done"}
  /\ hit \subseteq {"Time", "Memory"}
  /\ cols \subseteq Column /\ fixed \subseteq cols /\ cuts \subseteq Row
  /\ forbidden \subseteq Vertex \X Vertex
  /\ cur.A \subseteq Vertex \X Vertex /\ cur.root \in BOOLEAN
  /\ cgStatus \in {"Optimum", "Infeasible", "Time", "Memory"}
  /\ lp \in Point \cup {NoPoint} /\ newCuts \in BOOLEAN
  /\ queue \subseteq NodeShape /\ branched \in NodeShape
  /\ children \in Seq(SUBSET (Vertex \X Vertex))
  /\ zlb \in Nat /\ zub \in Nat /\ ub \in Partition \cup {NoPoint}
  /\ incumbents \in Seq(Partition)
  /\ closed \in Nat /\ status \in {"DidNotStart", "Time", "Memory", "Node", "Optimum"}
  /\ starved \in BOOLEAN /\ poisoned \in BOOLEAN

(* While a node is being solved, the formulation is that node's: the columns
   fixed at 0 are those that use one of its forbidden arcs, whatever nodes and
   strong-branching probes came before, and whatever columns were priced under
   other nodes.  SetForbiddenArcs restores and fixes incrementally. *)
MasterMatchesNode ==
  pc \in {"Solve", "Price", "Cut", "Settle"} => fixed = Using(cur.A, cols)

(* The certificate, as far as the code can give it: if no node was closed
   because its restricted master lacked columns, and no priced route was
   thrown away, "Optimum" means that no set of routes is cheaper than z_ub,
   whichever limits appeared when, and in whatever order columns came. *)
CertifiedOptimum ==
  pc = "Done" /\ status = "Optimum" /\ ~starved /\ ~poisoned
     => \A w \in Partition : zub <= Price[w]

(* Under the same conditions z_lb bounds every solution from below as long as
   the search runs: Run raises it to the bound of the node it takes, which is
   only right because the least node is taken and no node was lost. *)
LowerBound ==
  pc # "Done" /\ ~starved /\ ~poisoned => \A w \in Partition : zlb <= Price[w]

(* The stream on_incumbent sees improves strictly, and the solution returned is
   its last; a warm start that is never beaten returns no routes. *)
Anytime == INSTANCE AnytimeStream WITH
  Sol <- Partition, K <- [w \in Point |-> 1], Cost <- Price, NoSol <- NoPoint,
  limit <- 0, exact <- TRUE, stream <- incumbents,
  outcome <- [done |-> pc = "Done", sol |-> IF pc = "Done" THEN ub ELSE NoPoint]

AnytimeContract == Anytime!StreamSpec

(* Every run ends, limits or not: pricing runs out of columns, separation out
   of cuts, branching out of fractional arcs. *)
Terminates == <>(pc = "Done")

(* lera/__init__.py 249-251: after a time limit, best_bound is a valid lower
   bound whenever the root relaxation finished. *)
BestBoundValid ==
  pc = "Done" /\ status = "Time" /\ zlb # 0 /\ ~starved /\ ~poisoned
     => \A w \in Partition : zlb <= Price[w]

(* lera/__init__.py 335-343: a run that ends "Optimum" is stamped proven. *)
OptimumIsOptimal ==
  pc = "Done" /\ status = "Optimum" /\ ~poisoned => \A w \in Partition : zub <= Price[w]
===============================================================================

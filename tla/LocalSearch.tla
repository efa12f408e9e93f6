----------------------------- MODULE LocalSearch -----------------------------
(***************************************************************************)
(* ls_descend on a live SearchState: a first-improvement descent over four *)
(* operators that skips the clients nothing happened to.  Every commit     *)
(* gives the clients of the changed routes a new epoch; a pass that finds  *)
(* nothing stamps the clients it enumerated; a client is enumerated again  *)
(* when it, or a client it may be paired with, changed since its stamp.    *)
(* Around it, what the callers do to the same state: kick, snapshot and    *)
(* restore, fleet descent, restart, widening to the exhaustive lists.      *)
(*                                                                         *)
(* The vector of routes is a function on slots; a slot holding <<>> is one *)
(* the vector does not have.  Erasing keeps the order of the others; a new *)
(* route may take any free slot, the code appends it.                      *)
(***************************************************************************)
EXTENDS RouteSurgery, FiniteSets

CONSTANTS Client, Depot,
          Slot,       \* positions in the vector of routes
          Route,      \* feasible routes: time windows and capacity
          Cost,       \* duration of a route, with its fixed cost
          Near,       \* is_neighbour in the granular lists
          Solution,   \* feasible solutions
          Start,      \* those a search starts or restarts from
          MaxRemovals, MaxCalls   \* bounds of the model: clients a kick removes, calls

ServesOnce(r) ==
  \A c \in Client :
    \E a \in Slot : \E i \in DOMAIN r[a] :
      /\ r[a][i] = c
      /\ \A b \in Slot : \A j \in DOMAIN r[b] : r[b][j] = c => b = a /\ j = i

ASSUME RouteAssumption ==
  /\ Depot \notin Client
  /\ Slot \subseteq Nat
  /\ Route \subseteq Seq(Client) \ {<<>>}
  /\ Cost \in [Route -> Nat]
  /\ Solution \subseteq [Slot -> Route \cup {<<>>}]
  /\ \A r \in Solution : ServesOnce(r)
  /\ Start \subseteq Solution
  /\ MaxRemovals \in Nat /\ MaxCalls \in Nat

\* build_neighbour_lists: no depot, symmetric by union
ASSUME NearAssumption ==
  /\ Near \subseteq Client \X Client
  /\ \A c, v \in Client : <<c, v>> \in Near => <<v, c>> \in Near

VARIABLES
  restricted,  \* num_neighbours > 0, fixed at the start
  pc, wide,    \* the pass to come; whether the descent runs on exhaustive lists
  routes, touched, tested, epoch,   \* SearchState (tested is last_tested)
  snap,        \* IlsSnapshot, NoSnap when none may be restored
  expired,     \* the deadline has passed
  calls        \* calls made so far (bounds the model)

state == <<routes, touched, tested, epoch>>
vars  == <<restricted, pc, wide, state, snap, expired, calls>>

Passes == {"Relocate", "Intra", "Swap", "TwoOptStar"}

After_Endless ==   \* mutant: a full round of passes is taken for an improvement
  [Relocate |-> "Intra", Intra |-> "Swap", Swap |-> "TwoOptStar", TwoOptStar |-> "Relocate"]

After == [Relocate |-> "Intra", Intra |-> "Swap", Swap |-> "TwoOptStar", TwoOptStar |-> "Ended"]

NoSnap == [routes |-> <<>>]

-----------------------------------------------------------------------------
(* The moves of an operator between routes q and s: the routes they leave, the
   clients (keys) one of which must be due for a retest, and the pairs (seams)
   one of which the granular lists must join. *)
At(q, i) == IF i \in DOMAIN q THEN q[i] ELSE Depot

Relocations(q, s) ==
  {[left |-> Without(q, i), right |-> Insert(s, p, q[i]), keys |-> {q[i]},
    seams |-> {<<q[i], At(s, p)>>, <<q[i], At(s, p + 1)>>}] : i \in DOMAIN q, p \in 0 .. Len(s)}

\* within one route: both sides are the same
Moved(q, i, p) == Insert(Without(q, i), IF p < i THEN p ELSE p - 1, q[i])

IntraRelocations(q) ==
  {[left |-> Moved(q, i, p), right |-> Moved(q, i, p), keys |-> {q[i]}, seams |-> {}] :
     i \in DOMAIN q, p \in 0 .. Len(q)}

Swaps(q, s) ==
  {[left |-> [q EXCEPT ![i] = s[j]], right |-> [s EXCEPT ![j] = q[i]], keys |-> {q[i]},
    seams |-> {<<q[i], s[j]>>}] : i \in DOMAIN q, j \in DOMAIN s}

TailSwap_Lost(q, s, i, j) ==   \* mutant: an off-by-one drops the client after the cut
  [left |-> SubSeq(q, 1, i) \o SubSeq(s, j + 1, Len(s)), right |-> SubSeq(s, 1, j) \o SubSeq(q, i + 2, Len(q)),
   keys |-> {q[i], At(q, i + 1)},
   seams |-> {<<q[i], At(s, j + 1)>>, <<s[j], At(q, i + 1)>>}]

TailSwap(q, s, i, j) ==
  [left |-> SubSeq(q, 1, i) \o SubSeq(s, j + 1, Len(s)), right |-> SubSeq(s, 1, j) \o SubSeq(q, i + 1, Len(q)),
   keys |-> {q[i], At(q, i + 1)},
   seams |-> {<<q[i], At(s, j + 1)>>, <<s[j], At(q, i + 1)>>}]

TailSwaps(q, s) == {TailSwap(q, s, i, j) : i \in DOMAIN q, j \in DOMAIN s}

(* The pairs of routes a pass looks at, in the order of the vector. *)
Moves(op, r, a, b) ==
  IF r[a] = <<>> \/ r[b] = <<>> THEN {}
  ELSE CASE op = "Relocate" /\ a # b   -> Relocations(r[a], r[b])
         [] op = "Intra" /\ a = b      -> IntraRelocations(r[a])
         [] op = "Swap" /\ a < b       -> Swaps(r[a], r[b])
         [] op = "TwoOptStar" /\ a < b -> TailSwaps(r[a], r[b])
         [] OTHER                      -> {}

Price(q) == IF q = <<>> THEN 0 ELSE Cost[q]

(* The capacity and feasibility checks, the screen of relocate (the donor must
   gain) and the test of commit_two on the repriced routes. *)
Improves(op, r, a, b, m) ==
  /\ {m.left, m.right} \subseteq Route \cup {<<>>}
  /\ op = "Relocate" => Price(m.left) < Price(r[a])
  /\ Price(m.left) + Price(m.right) < Price(r[a]) + Price(r[b])

(* Whether the lists justify a move; res: they are the granular ones. *)
Justified(res, op, m) == res /\ op # "Intra" => m.seams \cap Near # {}

(* compute_retest *)
Retest(res, op) ==
  {c \in Client :
     \/ touched[c] > tested[op][c]
     \/ op # "Intra" /\ \E v \in Client : (res => <<c, v>> \in Near) /\ touched[v] > tested[op][c]}

Granular == restricted /\ ~wide

-----------------------------------------------------------------------------
(* init_search_state *)
Fresh ==
  /\ touched' = [c \in Client |-> 1]
  /\ tested' = [op \in Passes |-> [c \in Client |-> 0]]
  /\ epoch' = 1

MarkAllTouched ==
  /\ epoch' = epoch + 1
  /\ touched' = [c \in Client |-> epoch + 1]
  /\ UNCHANGED tested

Init ==
  /\ restricted \in BOOLEAN
  /\ routes \in Start
  /\ touched = [c \in Client |-> 1]
  /\ tested = [op \in Passes |-> [c \in Client |-> 0]]
  /\ epoch = 1
  /\ pc = "Relocate" /\ wide = FALSE
  /\ snap = NoSnap /\ expired = FALSE /\ calls = 0

Tick ==
  /\ pc \in Passes /\ ~expired
  /\ expired' = TRUE
  /\ UNCHANGED <<restricted, pc, wide, state, snap, calls>>

Touch(C) == touched' = [c \in Client |-> IF c \in C THEN epoch + 1 ELSE touched[c]]

(* commit_two: the changed routes replace the old ones, their clients get a new
   epoch, and the descent starts over. *)
Commit(a, b, m) ==
  /\ routes' = [routes EXCEPT ![a] = m.left, ![b] = m.right]
  /\ epoch' = epoch + 1
  /\ Touch(Members(m.left) \cup Members(m.right))
  /\ pc' = "Relocate"
  /\ UNCHANGED tested

(* A pass that found nothing; relocate needs two routes to stamp anything. *)
Alone == \A a, b \in Slot : routes[a] # <<>> /\ routes[b] # <<>> => a = b

Stamp(op, R) ==
  /\ tested' = IF op = "Relocate" /\ Alone THEN tested
               ELSE [tested EXCEPT ![op] = [c \in Client |-> IF c \in R THEN epoch ELSE tested[op][c]]]
  /\ pc' = After[op]
  /\ UNCHANGED <<routes, touched, epoch>>

(* One of the four passes.  Which improving move comes first is a matter of
   enumeration order: any is allowed. *)
Enumerated(op, R, a, b) ==
  {m \in Moves(op, routes, a, b) :
     m.keys \cap R # {} /\ Justified(Granular, op, m) /\ Improves(op, routes, a, b, m)}

Pass(op) ==
  LET R == Retest(Granular, op) IN
  /\ pc = op /\ ~expired
  /\ \/ \E a, b \in Slot : \E m \in Enumerated(op, R, a, b) : Commit(a, b, m)
     \/ (\A a, b \in Slot : Enumerated(op, R, a, b) = {}) /\ Stamp(op, R)
  /\ UNCHANGED <<restricted, wide, snap, expired, calls>>

(* The deadline, looked at between passes. *)
Expire ==
  /\ pc \in Passes /\ expired
  /\ pc' = "Ended"
  /\ UNCHANGED <<restricted, wide, state, snap, expired, calls>>

-----------------------------------------------------------------------------
(* The callers.  A call is a step that ends in a descent or a new state. *)
Call ==
  /\ pc = "Ready" /\ ~expired /\ calls < MaxCalls
  /\ calls' = calls + 1
  /\ UNCHANGED <<restricted, expired>>

Snapshot == [routes |-> routes, touched |-> touched, tested |-> tested, epoch |-> epoch]

\* the clients that stay, in their order
Kept(q, D) ==
  {e \in (Members(q) \ D) \X (Members(q) \ D) :
     \E i, j \in DOMAIN q : i <= j /\ e = <<q[i], q[j]>>}

(* perturb: the clients D are taken out and put back anywhere.  The clients of
   a route that held one of them, or holds one now, are touched. *)
Hit(r, D) == UNION {Members(r[a]) : a \in {a \in Slot : Members(r[a]) \cap D # {}}}

Stamped_AfterOnly(D) == Touch(D \cup Hit(routes', D))   \* mutant: old routes forgotten
Stamped(D) == Touch(D \cup Hit(routes, D) \cup Hit(routes', D))

Ruined(r, t, D) ==
  \A a \in Slot : /\ Kept(r[a], D) = Kept(t[a], D)
                  /\ (Members(r[a]) \cup Members(t[a])) \cap D = {} => t[a] = r[a]

Kick ==
  /\ Call
  /\ snap' = Snapshot
  /\ \/ \E D \in SUBSET Client :
          /\ D # {} /\ Cardinality(D) <= MaxRemovals
          /\ routes' \in {t \in Solution : Ruined(routes, t, D)}
          /\ epoch' = epoch + 1
          /\ Stamped(D)
          /\ UNCHANGED tested
     \/ UNCHANGED state     \* every redraw failed and was undone
  /\ pc' = "Relocate" /\ wide' = FALSE

(* fleet_descent that dropped a route: it stamps nothing, its caller touches
   every client. *)
Count(r) == Cardinality({a \in Slot : r[a] # <<>>})

FleetDrop ==
  /\ Call
  /\ routes' \in {t \in Solution : Count(t) < Count(routes)}
  /\ MarkAllTouched
  /\ snap' = NoSnap
  /\ pc' = "Relocate" /\ wide' = FALSE

(* Restart-to-best: a fresh state for other routes, no descent of its own. *)
Restart ==
  /\ Call
  /\ routes' \in Start
  /\ Fresh
  /\ snap' = NoSnap
  /\ UNCHANGED <<pc, wide>>

(* exhaustive_on_best: mark_all_touched, then a descent on exhaustive lists. *)
Polish ==
  /\ pc = "Ended" /\ ~wide /\ ~expired
  /\ MarkAllTouched
  /\ pc' = "Relocate" /\ wide' = TRUE
  /\ UNCHANGED <<restricted, routes, snap, expired, calls>>

Keep ==
  /\ pc = "Ended"
  /\ pc' = "Ready" /\ wide' = FALSE
  /\ snap' = NoSnap
  /\ UNCHANGED <<restricted, state, expired, calls>>

(* restore_snapshot *)
Restored_EpochFirst ==   \* mutant: the touched array is left behind
  /\ routes' = snap.routes /\ tested' = snap.tested /\ epoch' = snap.epoch
  /\ UNCHANGED touched

Restored ==
  /\ routes' = snap.routes /\ tested' = snap.tested /\ epoch' = snap.epoch
  /\ touched' = snap.touched

Reject ==
  /\ pc = "Ended" /\ snap # NoSnap
  /\ Restored
  /\ pc' = "Ready" /\ wide' = FALSE
  /\ snap' = NoSnap
  /\ UNCHANGED <<restricted, expired, calls>>

Descend == Expire \/ \E op \in Passes : Pass(op)
Next == Descend \/ Tick \/ Kick \/ FleetDrop \/ Restart \/ Polish \/ Keep \/ Reject

(* A descent keeps running; its callers are assumed to do nothing. *)
Spec == Init /\ [][Next]_vars /\ WF_vars(Descend)

-----------------------------------------------------------------------------
(* Types; no stamp is ahead of the epoch, or the next change would hide behind
   it, in the live state and in the snapshot alike. *)
Epochs(t, l, e) ==
  /\ e \in Nat
  /\ t \in [Client -> 0 .. e]
  /\ l \in [Passes -> [Client -> 0 .. e]]

TypeOK ==
  /\ restricted \in BOOLEAN /\ wide \in BOOLEAN /\ expired \in BOOLEAN
  /\ pc \in Passes \cup {"Ended", "Ready"}
  /\ routes \in [Slot -> Route \cup {<<>>}]
  /\ Epochs(touched, tested, epoch)
  /\ snap # NoSnap => /\ snap.routes \in [Slot -> Route \cup {<<>>}]
                      /\ Epochs(snap.touched, snap.tested, snap.epoch)
  /\ calls \in Nat

(* Every client is served exactly once, through all the surgery of the moves. *)
ServedOnce == ServesOnce(routes)

(* A descent that the deadline did not cut ends where no move of any operator
   improves, as far as its lists justify the move: what the staleness stamps
   skipped was not worth looking at, after any sequence of commits, kicks,
   rejections, drops and restarts. *)
LocalOptimum ==
  pc = "Ended" /\ ~expired =>
    \A op \in Passes : \A a, b \in Slot : \A m \in Moves(op, routes, a, b) :
      Justified(Granular, op, m) => ~Improves(op, routes, a, b, m)

(* Every descent ends: each commit lowers the price. *)
DescentEnds == pc \in Passes ~> pc \notin Passes
=============================================================================

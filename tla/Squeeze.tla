------------------------------- MODULE Squeeze -------------------------------
(***************************************************************************)
(* The penalised search of squeeze.cpp.  Routes may break time windows:    *)
(* their penalised price counts the lateness ("warp") at a weight.  Two    *)
(* callers use it.                                                         *)
(*   squeeze_phase: an explore leg at the weight P on a feasible solution, *)
(*     then, if it ended with lateness, a repair leg at a dominating one;  *)
(*     the best solution without lateness met on the way is banked.        *)
(*   squeeze_insert: the guest is forced into the cheapest place, then     *)
(*     late routes are mended one at a time, best move first.              *)
(* Both work on a copy: the caller's routes change only on success.        *)
(*                                                                         *)
(* A behaviour is one call.  The vector of routes is the set of its        *)
(* elements; ws gives each its route_epoch.  A budget of 2 is above the    *)
(* repair reserve, 1 within it, 0 spent.                                   *)
(***************************************************************************)
EXTENDS RouteSurgery, FiniteSets

CONSTANTS NumClients,
          Route,       \* routes within capacity and horizon
          Timely,      \* those that can be run with exactly zero warp
          Penalised,   \* warp_state_cost at the weight of each leg
          Objective(_),   \* fixed costs and durations of a set of timely routes
          Near,        \* is_neighbour in the granular lists
          Calls,       \* <<routes, guest>>: guest is NoGuest for squeeze_phase
          PollEvery    \* the clock is read at every PollEvery-th client (64)

Client  == 1 .. NumClients
NoGuest == 0
Legs    == {"Explore", "Repair"}

ASSUME SqueezeAssumption ==
  /\ NumClients \in Nat /\ PollEvery \in Nat \ {0}
  /\ Route \subseteq Seq(Client) \ {<<>>}
  /\ Timely \subseteq Route
  /\ Penalised \in [Legs -> [Route -> Nat]]
  /\ Near \subseteq Client \X Client

ASSUME CallAssumption ==
  \A x \in Calls :
    /\ x[1] \subseteq Timely /\ Packed(x[1]) /\ IsFiniteSet(x[1])
    /\ x[2] \in (Client \ Served(x[1])) \cup {NoGuest}

VARIABLES
  restricted,     \* num_neighbours > 0
  entry, guest,   \* the call
  pc,
  ws, epoch,      \* WarpSearch: routes with their epochs
  stamp,          \* client_stamp
  at, improved,   \* loop variables of descend
  budget, expired,
  bank,           \* bank.routes, {} when nothing was banked
  routes, won     \* the caller's routes, the value returned

call   == <<restricted, entry, guest>>
search == <<ws, epoch, stamp>>
loop   == <<at, improved>>
result == <<routes, won>>
vars   == <<call, pc, search, loop, budget, expired, bank, result>>

Now == DOMAIN ws

-----------------------------------------------------------------------------
(* Moves of client c: relocation next to a neighbour on another route, or a
   swap with one. *)
Neighbours(c) == {v \in Client : restricted => <<c, v>> \in Near}

Relocations(c, q, s) ==
  {[donor |-> q, host |-> s, left |-> Without(q, i), right |-> Insert(s, p, c)] :
     i \in {i \in DOMAIN q : q[i] = c},
     p \in {p \in 0 .. Len(s) : \E j \in {p, p + 1} \cap DOMAIN s : s[j] \in Neighbours(c)}}

Swaps(c, q, s) ==
  {[donor |-> q, host |-> s, left |-> Exchange(q, i, s[j]), right |-> Exchange(s, j, c)] :
     i \in {i \in DOMAIN q : q[i] = c}, j \in {j \in DOMAIN s : s[j] \in Neighbours(c)}}

Moves(c, q, s) == Relocations(c, q, s) \cup Swaps(c, q, s)

Price(leg, q) == IF q = <<>> THEN 0 ELSE Penalised[leg][q]   \* a singleton removed: no route
Before(leg, m) == Price(leg, m.donor) + Price(leg, m.host)
After(leg, m)  == Price(leg, m.left) + Price(leg, m.right)

Improves(leg, m) ==
  /\ {m.left, m.right} \subseteq Route \cup {<<>>}
  /\ After(leg, m) < Before(leg, m)

\* improving moves of c between two routes of the set S
Gains(leg, S, c) ==
  {m \in UNION {UNION {Moves(c, q, s) : s \in S \ {q}} : q \in S} : Improves(leg, m)}

(* The changed routes get a new epoch; an emptied one is erased. *)
Commit(m) ==
  /\ ws' = [q \in (Now \ {m.donor, m.host}) \cup ({m.left, m.right} \ {<<>>}) |->
              IF q \in {m.left, m.right} THEN epoch + 1 ELSE ws[q]]
  /\ epoch' = epoch + 1

Due_OwnRoute(c) == \E q \in Now : c \in Members(q) /\ ws[q] > stamp[c]   \* mutant

(* Route-level staleness: c's route or a neighbour's changed since c's stamp. *)
Due(c) == \E q \in Now : ({c} \cup Neighbours(c)) \cap Members(q) # {} /\ ws[q] > stamp[c]

(* maybe_bank, on the routes S *)
Banked_First(S) ==   \* mutant: the first state without lateness, cheaper than the entry or not
  IF S \subseteq Timely /\ (bank = {} \/ Objective(S) < Objective(bank)) THEN S ELSE bank

Banked(S) ==
  IF S \subseteq Timely /\ Objective(S) < Objective(IF bank = {} THEN entry ELSE bank)
  THEN S ELSE bank

Charge == budget' \in 0 .. budget

-----------------------------------------------------------------------------
Init ==
  /\ restricted \in BOOLEAN
  /\ \E x \in Calls : entry = x[1] /\ guest = x[2]
  /\ pc = IF guest = NoGuest THEN "Explore" ELSE "Force"
  /\ ws = [q \in entry |-> 1] /\ epoch = 1
  /\ stamp = [c \in Client |-> 0]
  /\ at = 1 /\ improved = FALSE
  /\ budget \in IF guest = NoGuest THEN {2} ELSE {0, 2}   \* a drain's budget may be spent
  /\ expired = FALSE
  /\ bank = {}
  /\ routes = entry /\ won = FALSE

Tick ==
  /\ pc \in Legs /\ ~expired
  /\ expired' = TRUE
  /\ UNCHANGED <<call, pc, search, loop, budget, bank, result>>

Cut(leg) ==
  \/ budget = 0
  \/ leg = "Explore" /\ budget = 1
  \/ expired /\ at % PollEvery = 0

(* The end of a leg: the repair leg follows an explore leg that ended late. *)
EndLeg(leg) ==
  /\ pc' = IF leg = "Explore" /\ ~(Now \subseteq Timely) THEN "Repair" ELSE "Finish"
  /\ at' = 1 /\ improved' = FALSE
  /\ bank' = IF leg = "Repair" THEN Banked(Now) ELSE bank
  /\ UNCHANGED search

CutShort(leg) ==
  /\ pc = leg /\ at \in Client /\ Cut(leg)
  /\ EndLeg(leg)
  /\ UNCHANGED <<call, budget, expired, result>>

Skip(leg) ==
  /\ pc = leg /\ at \in Client /\ ~Cut(leg) /\ ~Due(at)
  /\ at' = at + 1
  /\ UNCHANGED <<call, pc, search, improved, budget, expired, bank, result>>

Move_Stamped(leg) ==   \* mutant: the client is stamped whether or not it moved
  /\ pc = leg /\ at \in Client /\ ~Cut(leg) /\ Due(at)
  /\ Charge
  /\ \E m \in Gains(leg, Now, at) : Commit(m)
  /\ stamp' = [stamp EXCEPT ![at] = epoch']
  /\ bank' = Banked(DOMAIN ws')
  /\ pc' = IF leg = "Repair" /\ DOMAIN ws' \subseteq Timely THEN "Finish" ELSE leg
  /\ at' = at + 1 /\ improved' = TRUE
  /\ UNCHANGED <<call, expired, result>>

(* A client that is due: its first improving move, in whatever order, or a stamp. *)
Move(leg) ==
  /\ pc = leg /\ at \in Client /\ ~Cut(leg) /\ Due(at)
  /\ Charge
  /\ \E m \in Gains(leg, Now, at) : Commit(m)
  /\ bank' = Banked(DOMAIN ws')
  /\ pc' = IF leg = "Repair" /\ DOMAIN ws' \subseteq Timely THEN "Finish" ELSE leg
  /\ at' = at + 1 /\ improved' = TRUE
  /\ UNCHANGED <<call, stamp, expired, result>>

Stamp(c) == [stamp EXCEPT ![c] = epoch]

NoMove(leg) ==
  /\ pc = leg /\ at \in Client /\ ~Cut(leg) /\ Due(at)
  /\ Charge
  /\ Gains(leg, Now, at) = {}
  /\ stamp' = Stamp(at)
  /\ at' = at + 1
  /\ UNCHANGED <<call, pc, ws, epoch, improved, expired, bank, result>>

RoundEnds_Sticky(leg) ==   \* mutant: the flag of the round before stays up
  /\ pc = leg /\ at = NumClients + 1
  /\ IF improved
     THEN at' = 1 /\ UNCHANGED <<improved, pc, search, bank>>
     ELSE EndLeg(leg)
  /\ UNCHANGED <<call, budget, expired, result>>

RoundEnds(leg) ==
  /\ pc = leg /\ at = NumClients + 1
  /\ IF improved
     THEN at' = 1 /\ improved' = FALSE /\ UNCHANGED <<pc, search, bank>>
     ELSE EndLeg(leg)
  /\ UNCHANGED <<call, budget, expired, result>>

Descend(leg) == CutShort(leg) \/ Skip(leg) \/ Move(leg) \/ NoMove(leg) \/ RoundEnds(leg)

Return(S, value) ==
  /\ pc' = "Done"
  /\ routes' = S /\ won' = value

Finish ==
  /\ pc = "Finish"
  /\ IF bank = {} THEN Return(entry, FALSE) ELSE Return(bank, TRUE)
  /\ UNCHANGED <<call, search, loop, budget, expired, bank>>

-----------------------------------------------------------------------------
(* squeeze_insert: places for the guest. *)
Spots(s) == {p \in 0 .. Len(s) :
            \/ ~restricted \/ p \in {0, Len(s)}
            \/ \E j \in {p, p + 1} \cap DOMAIN s : s[j] \in Neighbours(guest)}

Places == {x \in UNION {{[host |-> s, right |-> Insert(s, p, guest)] : p \in Spots(s)} : s \in Now} :
             x.right \in Route}

Rise(x) == [new |-> Penalised["Explore"][x.right], old |-> Penalised["Explore"][x.host]]

Cheapest(P) == {x \in P : \A y \in P : Rise(x).new + Rise(y).old <= Rise(y).new + Rise(x).old}

ForceGuest ==
  /\ pc = "Force"
  /\ Charge
  /\ IF <<guest>> \in Route /\ Places # {}
     THEN \E x \in Cheapest(Places) :
            /\ ws' = [q \in (Now \ {x.host}) \cup {x.right} |->
                        IF q = x.right THEN epoch + 1 ELSE ws[q]]
            /\ epoch' = epoch + 1
            /\ pc' = "Mend"
            /\ UNCHANGED result
     ELSE Return(entry, FALSE) /\ UNCHANGED <<ws, epoch>>
  /\ UNCHANGED <<call, stamp, loop, expired, bank>>

Mended ==
  /\ pc = "Mend" /\ Now \subseteq Timely
  /\ Return(Now, TRUE)
  /\ UNCHANGED <<call, search, loop, budget, expired, bank>>

(* The best improving move out of a late route; a budget spent during the scan
   leaves the best of what was looked at. *)
Best(M) ==
  {m \in M : \A n \in M : After("Explore", m) + Before("Explore", n)
                            <= After("Explore", n) + Before("Explore", m)}

Out(q) == UNION {Gains("Explore", Now, u) : u \in Members(q)}

Mend ==
  /\ pc = "Mend" /\ ~(Now \subseteq Timely) /\ budget > 0
  /\ Charge
  /\ \E q \in Now \ Timely : \E m \in IF budget' > 0 THEN Best(Out(q)) ELSE Out(q) : Commit(m)
  /\ UNCHANGED <<call, pc, stamp, loop, expired, bank, result>>

Stuck ==
  /\ pc = "Mend" /\ ~(Now \subseteq Timely)
  /\ \/ budget = 0 /\ UNCHANGED budget
     \/ /\ budget > 0 /\ Charge
        /\ budget' = 0 \/ \E q \in Now \ Timely : Out(q) = {}
  /\ Return(entry, FALSE)
  /\ UNCHANGED <<call, search, loop, expired, bank>>

Step == (\E leg \in Legs : Descend(leg)) \/ Finish \/ ForceGuest \/ Mended \/ Mend \/ Stuck
Next == Step \/ Tick
Spec == Init /\ [][Next]_vars /\ WF_vars(Step)

-----------------------------------------------------------------------------
(* Types; neither a route's epoch nor a client's stamp is ahead of the epoch. *)
TypeOK ==
  /\ restricted \in BOOLEAN /\ improved \in BOOLEAN /\ expired \in BOOLEAN /\ won \in BOOLEAN
  /\ pc \in Legs \cup {"Force", "Mend", "Finish", "Done"}
  /\ epoch \in Nat
  /\ Now \subseteq Route /\ ws \in [Now -> 0 .. epoch]
  /\ stamp \in [Client -> 0 .. epoch]
  /\ at \in 1 .. NumClients + 1
  /\ budget \in 0 .. 2
  /\ bank \subseteq Route

(* The routes searched visit the clients of the call, each once, whatever was
   moved, swapped, erased or forced in. *)
NothingLost ==
  /\ Packed(Now)
  /\ pc # "Done" => Served(Now) = Served(entry) \cup (IF pc = "Mend" THEN {guest} ELSE {})

(* What a caller gets.  On success: routes without lateness that visit the
   clients of the call (with the guest), no more of them than before, and for a
   phase strictly cheaper.  On failure: the routes it passed. *)
Outcome ==
  pc = "Done" =>
    IF won
    THEN /\ routes \subseteq Timely /\ Packed(routes)
         /\ Served(routes) = Served(entry) \cup ({guest} \ {NoGuest})
         /\ Cardinality(routes) <= Cardinality(entry)
         /\ guest = NoGuest => Objective(routes) < Objective(entry)
    ELSE routes = entry

(* A leg whose last round committed nothing ended where no client has an
   improving move at the leg's weight: the stamps skipped nothing. *)
LegOptimal(leg) ==
  pc = leg /\ at = NumClients + 1 /\ ~improved => \A c \in Client : Gains(leg, Now, c) = {}

ExploreOptimal == LegOptimal("Explore")

(* The same of the repair leg, which starts with the stamps of the explore leg. *)
RepairOptimal == LegOptimal("Repair")

(* A call returns, even if its budget and the deadline never end it. *)
Returns == <>(pc = "Done")
=============================================================================

---------------------------- MODULE AnytimeStream ----------------------------
(***************************************************************************)
(* What a caller of a KAYROS search may rely on, whatever the search does: *)
(* the incumbents handed to on_incumbent form an append-only stream, each  *)
(* strictly cheaper than the one before, none with more routes than the    *)
(* cap; and the search ends at most once, with a result that agrees with   *)
(* the stream.  `exact` says whether the result is the last incumbent; a   *)
(* search that replaces its seed after publishing it promises less.        *)
(***************************************************************************)
EXTENDS Naturals, Sequences

CONSTANTS Sol,    \* feasible solutions
          K,      \* route count of a solution
          Cost,   \* objective value of a solution
          NoSol   \* "no routes"

VARIABLES limit,   \* largest publishable route count, 0 when there is none
          exact,   \* the result is the last incumbent
          stream,  \* incumbents published so far
          outcome  \* [done, sol]: has the search returned, and what

streamVars == <<limit, exact, stream, outcome>>

Within(s) == limit = 0 \/ K[s] <= limit

StreamInit ==
  /\ limit \in Nat
  /\ exact \in BOOLEAN
  /\ stream = <<>>
  /\ outcome = [done |-> FALSE, sol |-> NoSol]

Announce(s) ==
  /\ ~outcome.done
  /\ Within(s)
  /\ stream = <<>> \/ Cost[s] < Cost[stream[Len(stream)]]
  /\ stream' = Append(stream, s)
  /\ UNCHANGED <<limit, exact, outcome>>

\* An empty stream returns nothing, a non-empty one a solution within the cap.
Return(r) ==
  /\ ~outcome.done
  /\ (stream = <<>>) = (r = NoSol)
  /\ r # NoSol => r \in Sol /\ Within(r)
  /\ r # NoSol /\ exact => r = stream[Len(stream)]
  /\ outcome' = [done |-> TRUE, sol |-> r]
  /\ UNCHANGED <<limit, exact, stream>>

StreamNext ==
  \/ \E s \in Sol : Announce(s)
  \/ \E r \in Sol \cup {NoSol} : Return(r)

StreamSpec == StreamInit /\ [][StreamNext]_streamVars
=============================================================================

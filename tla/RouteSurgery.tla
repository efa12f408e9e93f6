---------------------------- MODULE RouteSurgery ----------------------------
(***************************************************************************)
(* Routes as sequences of clients, and the vector surgery the searches     *)
(* share: a client is taken out of a route, put into one, or put in the    *)
(* place of one or of a window of consecutive clients.                     *)
(***************************************************************************)
EXTENDS Naturals, Sequences

Members(q) == {q[i] : i \in DOMAIN q}

\* without_at
Without(q, i) == SubSeq(q, 1, i - 1) \o SubSeq(q, i + 1, Len(q))

Insert_Over(q, p, c) ==   \* mutant: the client behind the place is overwritten
  SubSeq(q, 1, p) \o <<c>> \o SubSeq(q, p + 2, Len(q))

\* with_inserted: c goes behind the first p clients
Insert(q, p, c) == SubSeq(q, 1, p) \o <<c>> \o SubSeq(q, p + 1, Len(q))

Replace_OneMore(q, i, j, c) ==   \* mutant: the window ends one client late
  SubSeq(q, 1, i - 1) \o <<c>> \o SubSeq(q, j + 2, Len(q))

\* the clients at i .. j give way to c
Replace(q, i, j, c) == SubSeq(q, 1, i - 1) \o <<c>> \o SubSeq(q, j + 1, Len(q))

Exchange(q, i, c) == [q EXCEPT ![i] = c]

(* A set of routes that visits no client twice, and the clients it visits. *)
Simple(q) == \A i, j \in DOMAIN q : q[i] = q[j] => i = j
Served(S) == UNION {Members(q) : q \in S}
Packed(S) ==
  /\ \A q \in S : Simple(q)
  /\ \A q, s \in S : q # s => Members(q) \cap Members(s) = {}
=============================================================================

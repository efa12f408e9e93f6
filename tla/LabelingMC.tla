----------------------------- MODULE LabelingMC ------------------------------
(* Instances of Labeling on a short horizon: time-dependent travel, service, *)
(* capacity, late windows, a forbidden arc, a cut, either state and limits,  *)
(* a small solution limit among them.                                        *)
EXTENDS Labeling, TLC

(* Travel of a fixed length; clearing: one unit longer until noon. *)
Fixed(len) == [t \in 0..T |-> t + len]
Clearing   == [t \in 0..T |-> IF t < T \div 2 THEN t + 1 ELSE Max({t, T \div 2 + 1})]

Instance(lo, hi, service, room, drive(_)) ==
  LET of(f, depot) == [v \in Vertex |-> IF v \in Customer THEN f[v] ELSE depot]
  IN [lo |-> of(lo, 0), hi |-> of(hi, T), service |-> [v \in Vertex |-> IF v \in Customer THEN service ELSE 0],
      load |-> [v \in Vertex |-> IF v \in Customer THEN 1 ELSE 0], room |-> room,
      drive |-> [a \in Arc |-> drive(a)]]

(* clear: the way to and from customer 1 clears at noon; split: customer 1 closes long
   before customer 2 opens; late: the same, but customer 3 can be served between them;
   near: 1 and 2 are neighbours. *)
MCRaw ==
  [clear |-> Instance(<<0, 2, 0>>, <<T, T, 3>>, 1, 2, LAMBDA a : IF 1 \in {a[1], a[2]} THEN Clearing ELSE Fixed(1)),
   split |-> Instance(<<0, T - 1, 0>>, <<2, T, T>>, 0, 3, LAMBDA a : Fixed(IF 3 \in {a[1], a[2]} THEN 2 ELSE 1)),
   late  |-> Instance(<<0, T - 1, 0>>, <<1, T, T>>, 0, 3, LAMBDA a : Fixed(1)),
   near  |-> Instance(<<0, 1, 0>>, <<T, T - 1, T>>, 0, 3, LAMBDA a : Fixed(IF a \in {<<0, 1>>, <<1, 2>>, <<2, 1>>, <<2, End>>} THEN 1 ELSE 2))]

Pricing(net, P, level, closing) ==
  [net |-> net, P |-> P, sigma |-> 0, cut |-> {}, A |-> {}, level |-> level, closing |-> closing,
   start |-> 0, most |-> Cardinality(SUBSET Customer), limits |-> {}]

MCProblem ==
  {Pricing("clear", P, "Exact", FALSE) : P \in [1..3 -> {-1, 2, 3}]}
  \cup {Pricing(net, P, "Exact", FALSE) : net \in {"split", "late"}, P \in [1..3 -> {-1, 2, 4}]}
  \cup {Pricing("near", P, "Exact", FALSE) : P \in {<<3, 3, -1>>, <<0, 3, 2>>, <<2, 2, 3>>}}
  \cup {[Pricing("clear", <<3, 2, 3>>, "Exact", c) EXCEPT !.sigma = -1, !.cut = Customer, !.A = {<<1, 2>>}] : c \in BOOLEAN}
  \cup {[Pricing("split", <<2, 3, 2>>, "Exact", FALSE) EXCEPT !.start = s] : s \in {2, 3}}
  \cup {Pricing("clear", <<2, 3, 2>>, level, FALSE) : level \in {"Cost", "Elementarity"}}
  \cup {[Pricing("split", <<2, 2, 0>>, "Exact", c) EXCEPT !.limits = {"Time", "Memory"}] : c \in BOOLEAN}
  \cup {[Pricing("clear", <<3, 2, 3>>, "Exact", c) EXCEPT !.most = m, !.limits = l] :
          c \in BOOLEAN, m \in {1, 2}, l \in {{}, {"Time", "Memory"}}}
  \cup {[Pricing("split", <<2, 3, 2>>, "Exact", TRUE) EXCEPT !.most = 1]}

(* The route 0-1-2-5 is the only negative one; 3 and 4 keep the forward search busy. *)
Short == {<<0, 3>>, <<0, 4>>, <<3, 4>>, <<4, 3>>, <<1, 2>>, <<2, End>>}
BusyRaw ==
  [busy |-> Instance(<<0, T - 1, 0, 0>>, <<T, T, T, T>>, 0, 3,
     LAMBDA a : Fixed(CASE a \in Short -> 1 [] a = <<0, 1>> -> 3 [] a = <<3, 1>> -> 5 [] OTHER -> 2 * T))]
BusyProblem ==
  {[Pricing("busy", P, "Exact", closing) EXCEPT !.start = s] :
     P \in {<<2, 3, 2, 2>>, <<3, 3, 2, 2>>}, closing \in BOOLEAN, s \in {0, 8}}
=============================================================================

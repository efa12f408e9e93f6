-------------------------------- MODULE Pwlf --------------------------------
(***************************************************************************)
(* The piecewise-linear functions of time that price a route: arrival      *)
(* times, ready times, and the lateness channel of the squeeze.            *)
(*                                                                         *)
(* Time is the integers.  A function maps an interval of times to pairs    *)
(* <<low, high>>: low is its value, and the two differ where the function  *)
(* steps (a vertical piece).  It never decreases, and the functions used   *)
(* as the inner one of a composition grow by 0 or 1 from the high of a     *)
(* time to the low of the next, so that what lies between two times is a   *)
(* straight piece whose composition has its breakpoints at integers again. *)
(* The program's breakpoint arrays also hold points inside straight        *)
(* pieces; those, and the removal of some, change no value and are         *)
(* left out.                                                               *)
(***************************************************************************)
EXTENDS Integers, FiniteSetsExt

Less(a, b) == IF a < b THEN a ELSE b
More(a, b) == IF a > b THEN a ELSE b

None == [x \in {} |-> <<0, 0>>]   \* no breakpoints
Void(f) == DOMAIN f = {}

Start(f) == Min(DOMAIN f)
End(f)   == Max(DOMAIN f)
Low(f, x)  == f[x][1]
High(f, x) == f[x][2]
Top(f) == High(f, End(f))   \* ys.back()

Smooth(D, F(_)) == [x \in D |-> <<F(x), F(x)>>]

Identity(lo, hi) == Smooth(lo .. hi, LAMBDA x : x)
ZeroOn(lo, hi)   == Smooth(lo .. hi, LAMBDA x : 0)

(* f after g where g meets the domain of f.  A step of g sweeps f; a step of
   f is taken at the last time g holds its level, and before it f counts with
   its low value. *)
Compose(f, g) ==
  IF Void(f) \/ Void(g) THEN None
  ELSE LET start == Start(f)
           end   == End(f)
           meets(x)   == High(g, x) >= start /\ Low(g, x) <= end
           ceiling(x) == Less(High(g, x), end)
           last(x)    == x + 1 \notin DOMAIN g \/ Low(g, x + 1) > ceiling(x)
       IN  [x \in {y \in DOMAIN g : meets(y)} |->
              <<Low(f, More(Low(g, x), start)),
                f[ceiling(x)][IF last(x) THEN 2 ELSE 1]>>]

Add(f, g) ==
  [x \in DOMAIN f \cap DOMAIN g |->
     <<Low(f, x) + Low(g, x), High(f, x) + High(g, x)>>]

\* min_shifted_image: the least f(x) - x over the times of D, and where it is first met
MinShift(f, D) ==
  LET least == Min({Low(f, x) - x : x \in D})
  IN  [value |-> least, at |-> Min({x \in D : Low(f, x) - x = least})]

\* make_theta: wait for the window to open, serve; nothing after it closes
MakeTheta(earliest, latest, service) ==
  Smooth(0 .. latest, LAMBDA t : More(t, earliest) + service)

-----------------------------------------------------------------------------
(* The warp builders: a late arrival is moved back to the deadline, and the
   excess is booked. *)
Clamp(due, tEnd)  == Smooth(0 .. tEnd, LAMBDA t : Less(t, due))
Excess(due, tEnd) == Smooth(0 .. tEnd, LAMBDA t : More(0, t - due))

ThetaWarp(earliest, latest, service, tEnd) ==
  Smooth(0 .. tEnd, LAMBDA t : More(earliest, Less(t, latest)) + service)

\* zero_prefix_end: the times up to the last one with no warp
OnTime(warp) == {x \in DOMAIN warp : Low(warp, x) = 0}

MinZeroWarp_AnyTime(rho, warp) ==   \* mutant: the minimum is not held to the times without warp
  IF Void(rho) \/ Void(warp) \/ Low(warp, Start(warp)) # 0
  THEN [feasible |-> FALSE, value |-> 0]
  ELSE [feasible |-> TRUE, value |-> MinShift(rho, DOMAIN rho).value]

\* min_zero_warp_duration
MinZeroWarp(rho, warp) ==
  LET D == {x \in DOMAIN rho : \E y \in OnTime(warp) : x <= y}
  IN  IF D = {} THEN [feasible |-> FALSE, value |-> 0]
      ELSE [feasible |-> TRUE, value |-> MinShift(rho, D).value]

MinPenalised(rho, warp, penalty) ==
  Min({Low(rho, x) - x + penalty * Low(warp, x) : x \in DOMAIN rho \cap DOMAIN warp})
=============================================================================

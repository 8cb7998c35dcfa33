----------------------------- MODULE Fractions -----------------------------
(***************************************************************************)
(* Exact fractions in lowest terms, so that equal numbers are equal        *)
(* records.  They stand for the f64 values the program computes with       *)
(* (means, deviations, percentages, chart coordinates), rounding left out. *)
(***************************************************************************)
EXTENDS Integers, FiniteSetsExt

Divisors(n, d) == {k \in 1..d : n % k = 0 /\ d % k = 0}
Abs(n) == IF n < 0 THEN -n ELSE n

Fraction == [num: Int, den: Nat \ {0}]

\* n / d, for d > 0.
Ratio(n, d) ==
  LET g == Max(Divisors(n, d)) IN [num |-> n \div g, den |-> d \div g]

Whole(n) == [num |-> n, den |-> 1]

Plus(p, q) == Ratio(p.num * q.den + q.num * p.den, p.den * q.den)
Minus(p, q) == Ratio(p.num * q.den - q.num * p.den, p.den * q.den)
Times(p, q) == Ratio(p.num * q.num, p.den * q.den)
Over(p, n) == Ratio(p.num, p.den * n)
Leq(p, q) == p.num * q.den <= q.num * p.den

=============================================================================

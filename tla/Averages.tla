------------------------------ MODULE Averages ------------------------------
(***************************************************************************)
(* The running mean and deviation of a hop's times, which record_probe in  *)
(* src/src/trace/state.rs updates from the old mean and deviation alone.   *)
(* The code stores the deviation and squares it again for the next update; *)
(* only its square, the variance, is kept here.  Mean and deviation are in *)
(* whole microseconds' terms, the other times to the nanosecond.           *)
(***************************************************************************)
EXTENDS Fractions

CONSTANT PerMicro    \* the ticks of the clock in a microsecond

ASSUME AveragesAssumption == PerMicro \in Nat \ {0}

\* as_micros drops what is left over.
AsMicros(rtt) == rtt \div PerMicro

Average == [received: Nat, avg: Fraction, var: Fraction]

NewAverage == [received |-> 0, avg |-> Whole(0), var |-> Whole(0)]

\* Mutant: both factors of the new square are taken from the old mean.
WelfordOldMean(a, us) ==
  LET n == a.received + 1
      off == Minus(Whole(us), a.avg)
      squares == Plus(Times(a.var, Whole(n - 1)), Times(off, off))
  IN  [received |-> n,
       avg |-> Plus(a.avg, Over(off, n)),
       var |-> Over(squares, n)]

\* Welford's step: squares is m2_new, which starts from zero at n = 1.
Welford(a, us) ==
  LET n == a.received + 1
      off == Minus(Whole(us), a.avg)
      avg == Plus(a.avg, Over(off, n))
      squares == Plus(Times(a.var, Whole(n - 1)),
                      Times(off, Minus(Whole(us), avg)))
  IN  [received |-> n, avg |-> avg, var |-> Over(squares, n)]

\* The average takes the time without the fraction of a microsecond, which the
\* last, the best and the worst time keep.
RecordTime(a, rtt) == Welford(a, AsMicros(rtt))

-----------------------------------------------------------------------------
(* The textbook definitions, from the sums over all the times.             *)

Sums == [count: Nat, sum: Nat, squares: Nat]

NoTimes == [count |-> 0, sum |-> 0, squares |-> 0]

AddMicros(h, us) ==
  [count |-> h.count + 1, sum |-> h.sum + us, squares |-> h.squares + us * us]
AddTime(h, rtt) == AddMicros(h, AsMicros(rtt))

Mean(h) == Ratio(h.sum, h.count)
Variance(h) == Minus(Ratio(h.squares, h.count), Times(Mean(h), Mean(h)))

\* What a hop that heard times with these sums since its last reset must show.
AverageOf(h) ==
  IF h.count = 0 THEN NewAverage
  ELSE [received |-> h.count, avg |-> Mean(h), var |-> Variance(h)]

=============================================================================

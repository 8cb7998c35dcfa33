---------------------------- MODULE ScreenProofs ----------------------------
(***************************************************************************)
(* Proofs about Screen, for every table, every number of rounds and keys   *)
(* and all thresholds: the state is well formed, what is on the screen is  *)
(* never older than the code means it to be, the incremental averages are  *)
(* exact and lie where they must, the reports agree, and the chart's line  *)
(* is the data in the right colours.                                       *)
(***************************************************************************)
EXTENDS Screen, SequenceTheorems, WellFoundedInduction, TLAPS

\* The average has counted the answers the statistics have counted.  A hop that
\* heard nothing since its last reset has no times to show; one that did has a
\* mean between its extremes, cut to whole microseconds like the times it is of.
TimesFit(stats, a) ==
  /\ a.received = stats.received
  /\ stats.received = 0 =>
       /\ stats.last_rtt = None /\ stats.min_rtt = None /\ stats.max_rtt = None
       /\ a.avg = Whole(0) /\ a.var = Whole(0)
  /\ stats.received > 0 =>
       /\ stats.min_rtt # None /\ stats.max_rtt # None
       /\ Leq(Whole(AsMicros(stats.min_rtt)), a.avg)
       /\ Leq(a.avg, Whole(AsMicros(stats.max_rtt)))
  /\ a.var.num \in Nat

\* An average is that of all the times whose sums are h.
SumsFit(a, h) ==
  /\ h \in Sums
  /\ h.count = 0 => h.sum = 0 /\ h.squares = 0
  /\ a = AverageOf(h)

RowsFit ==
  /\ DOMAIN averages = DOMAIN hops
  /\ DOMAIN heard = DOMAIN hops
  /\ \A i \in DOMAIN hops : TimesFit(hops[i].stats, averages[i]) /\ SumsFit(averages[i], heard[i])

\* A round that is still to be shown is newer than any number drawn.
NumbersFit ==
  /\ total \in 0..MaxTotal
  /\ round \in 0..total
  /\ lastRound \in 0..total
  /\ unpublished => round < total /\ lastRound < total

\* Unless the next frame will be drawn, or a number is still to be shown, the
\* terminal shows the present picture.
ScreenCurrent ==
  \/ needsRedraw
  \/ round # lastRound
  \/ unpublished
  \/ \E isTall \in BOOLEAN : drawn = Unnamed(Picture(isTall))

ScreenInv ==
  /\ ScreenTypeOK
  /\ hops \in Seq(HopState)
  /\ NumbersFit
  /\ RowsFit
  /\ ScreenCurrent

-----------------------------------------------------------------------------
(* Arithmetic of integers.                                                 *)

\* A set of numbers below a bound has a largest element.
LEMMA LargestExists ==
  ASSUME NEW d \in Nat, NEW S \in SUBSET (0..d), S # {}
  PROVE  \E x \in S : \A y \in S : y <= x
<1> DEFINE R == OpToRel(<, Nat)
           T == {k \in Nat : d - k \in S}
<1>1. \A k \in S : d - k \in T
  OBVIOUS
<1>2. T \subseteq Nat /\ T # {}
  BY <1>1
<1>3. \A x, y \in Nat : y < x => <<y, x>> \in R
  BY DEF OpToRel
<1> HIDE DEF T, R
<1>4. PICK x \in T : \A y \in T : <<y, x>> \notin R
  <2>1. IsWellFoundedOn(R, Nat)
    BY NatLessThanWellFounded DEF R
  <2>2. QED BY <1>2, <2>1, WFMin, Zenon
<1>5. \A y \in T : x <= y
  <2>1. \A y \in T : ~(y < x)
    BY <1>2, <1>3, <1>4
  <2>2. QED BY <1>2, <2>1
<1>6. x \in Nat /\ d - x \in S
  BY <1>2 DEF T
<1>7. \A k \in S : x <= d - k
  BY <1>1, <1>5
<1>8. \A k \in S : k <= d - x
  BY <1>6, <1>7
<1>9. QED BY <1>6, <1>8

\* Every number of a kind has a least one.
LEMMA LeastExists ==
  ASSUME NEW T \in SUBSET Nat, T # {}
  PROVE  \E x \in T : \A y \in T : x <= y
<1> DEFINE R == OpToRel(<, Nat)
<1>1. \A x, y \in Nat : y < x => <<y, x>> \in R
  BY DEF OpToRel
<1> HIDE DEF R
<1>2. PICK x \in T : \A y \in T : <<y, x>> \notin R
  <2>1. IsWellFoundedOn(R, Nat)
    BY NatLessThanWellFounded DEF R
  <2>2. QED BY <2>1, WFMin, Zenon
<1>3. \A y \in T : ~(y < x)
  BY <1>1, <1>2
<1>4. QED BY <1>2, <1>3

LEMMA Positive ==
  ASSUME NEW a \in Nat \ {0}, NEW b \in Nat \ {0}
  PROVE  a * b \in Nat \ {0}
OBVIOUS

LEMMA ProductSign ==
  ASSUME NEW a \in Nat, NEW b \in Nat
  PROVE  a * b \in Nat
OBVIOUS

LEMMA SquareSign ==
  ASSUME NEW a \in Int
  PROVE  a * a \in Nat
OBVIOUS

LEMMA CancelFactor ==
  ASSUME NEW a \in Int, NEW b \in Int, NEW k \in Nat \ {0}
  PROVE  /\ a * k <= b * k => a <= b
         /\ a * k = b * k => a = b
<1>1. ASSUME NEW c \in Int, NEW e \in Int, c * k <= e * k
      PROVE  c <= e
  BY <1>1
<1>2. a * k = b * k => a <= b /\ b <= a
  BY <1>1
<1>3. QED BY <1>1, <1>2

LEMMA Enlarge ==
  ASSUME NEW a \in Int, NEW b \in Int, NEW k \in Nat, a <= b
  PROVE  a * k <= b * k
OBVIOUS

LEMMA MultipleRemainder ==
  ASSUME NEW u \in Int, NEW e \in Nat \ {0}
  PROVE  (u * e) % e = 0
<1> DEFINE q == (u * e) \div e
           r == (u * e) % e
<1>1. q \in Int /\ r \in 0..(e - 1) /\ u * e = e * q + r
  OBVIOUS
<1> HIDE DEF q, r
<1>2. r = (u - q) * e
  BY <1>1
<1>3. ~(1 <= u - q)
  <2>1. 1 <= u - q => 1 * e <= (u - q) * e
    BY <1>1, Enlarge
  <2>2. QED BY <1>1, <1>2, <2>1
<1>4. ~(u - q <= -1)
  <2>1. u - q <= -1 => (u - q) * e <= (-1) * e
    BY <1>1, Enlarge
  <2>2. QED BY <1>1, <1>2, <2>1
<1>5. u - q = 0
  BY <1>1, <1>3, <1>4
<1>6. r = 0
  BY <1>2, <1>5
<1>7. QED BY <1>6 DEF r

-----------------------------------------------------------------------------
(* Fractions have the values of the quotients they were made of.           *)

LEMMA LargestDivisor ==
  ASSUME NEW n \in Int, NEW d \in Nat \ {0}
  PROVE  /\ Max(Divisors(n, d)) \in Divisors(n, d)
         /\ \A k \in Divisors(n, d) : k <= Max(Divisors(n, d))
<1>1. 1 \in Divisors(n, d) /\ Divisors(n, d) \in SUBSET (0..d)
  BY DEF Divisors
<1>2. PICK x \in Divisors(n, d) : \A y \in Divisors(n, d) : y <= x
  BY <1>1, LargestExists
<1>3. \A y \in Divisors(n, d) : x >= y
  BY <1>1, <1>2
<1>4. /\ Max(Divisors(n, d)) \in Divisors(n, d)
      /\ \A y \in Divisors(n, d) : Max(Divisors(n, d)) >= y
  BY <1>3 DEF Max
<1>5. QED BY <1>1, <1>4

LEMMA RatioValue ==
  ASSUME NEW n \in Int, NEW d \in Nat \ {0}
  PROVE  /\ Ratio(n, d) \in Fraction
         /\ \E g \in Nat \ {0} :
              /\ \A k \in Divisors(n, d) : k <= g
              /\ Ratio(n, d).num * g = n
              /\ Ratio(n, d).den * g = d
<1> DEFINE g == Max(Divisors(n, d))
<1>1. g \in Divisors(n, d) /\ \A k \in Divisors(n, d) : k <= g
  BY LargestDivisor
<1>2. g \in 1..d /\ n % g = 0 /\ d % g = 0
  BY <1>1 DEF Divisors
<1> HIDE DEF g
<1>3. n \div g \in Int /\ (n \div g) * g = n
  BY <1>2
<1>4. d \div g \in Nat \ {0} /\ (d \div g) * g = d
  BY <1>2
<1>5. Ratio(n, d) = [num |-> n \div g, den |-> d \div g]
  BY DEF Ratio, g
<1>6. QED BY <1>1, <1>2, <1>3, <1>4, <1>5 DEF Fraction

\* f has the value n / d.
Stands(f, n, d) ==
  /\ f \in Fraction
  /\ n \in Int
  /\ d \in Nat \ {0}
  /\ f.num * d = n * f.den

\* f is u / v, expanded by some factor.
Expands(f, u, v) == \E q \in Nat \ {0} : f.num = q * u /\ f.den = q * v

LEMMA StandsType ==
  ASSUME NEW f, NEW n, NEW d, Stands(f, n, d)
  PROVE  f \in Fraction
BY DEF Stands

LEMMA FractionParts ==
  ASSUME NEW f \in Fraction
  PROVE  f.num \in Int /\ f.den \in Nat \ {0} /\ Stands(f, f.num, f.den)
BY DEF Fraction, Stands

LEMMA RatioStands ==
  ASSUME NEW n \in Int, NEW d \in Nat \ {0}
  PROVE  Stands(Ratio(n, d), n, d)
<1> DEFINE f == Ratio(n, d)
<1>1. PICK g \in Nat \ {0} : f.num * g = n /\ f.den * g = d
  BY RatioValue
<1>2. f \in Fraction /\ f.num \in Int /\ f.den \in Nat \ {0}
  BY RatioValue, FractionParts
<1> HIDE DEF f
<1>3. f.num * (f.den * g) = (f.num * g) * f.den
  BY <1>1, <1>2
<1>4. QED BY <1>1, <1>2, <1>3 DEF Stands, f

LEMMA WholeStands ==
  ASSUME NEW n \in Int
  PROVE  Stands(Whole(n), n, 1)
BY DEF Whole, Fraction, Stands

\* What one has the value of, the other has.
LEMMA Rescale ==
  ASSUME NEW f, NEW n, NEW d, Stands(f, n, d),
         NEW m \in Int, NEW e \in Nat \ {0}, n * e = m * d
  PROVE  Stands(f, m, e)
<1>1. f.num \in Int /\ f.den \in Nat \ {0} /\ n \in Int /\ d \in Nat \ {0}
      /\ f.num * d = n * f.den /\ f \in Fraction
  BY FractionParts DEF Stands
<1>2. (f.num * e) * d = (f.num * d) * e
  BY <1>1
<1>3. (n * f.den) * e = (n * e) * f.den
  BY <1>1
<1>4. (m * d) * f.den = (m * f.den) * d
  BY <1>1
<1>5. (f.num * e) * d = (m * f.den) * d
  BY <1>1, <1>2, <1>3, <1>4
<1>6. f.num * e \in Int /\ m * f.den \in Int
  BY <1>1
<1>7. f.num * e = m * f.den
  BY <1>1, <1>5, <1>6, CancelFactor
<1>8. QED BY <1>1, <1>7 DEF Stands

LEMMA SumStands ==
  ASSUME NEW p, NEW a, NEW b, Stands(p, a, b), NEW q, NEW c, NEW d, Stands(q, c, d)
  PROVE  /\ Stands(Plus(p, q), a * d + c * b, b * d)
         /\ Stands(Minus(p, q), a * d - c * b, b * d)
         /\ Stands(Times(p, q), a * c, b * d)
<1>1. /\ p.num \in Int /\ p.den \in Nat \ {0} /\ a \in Int /\ b \in Nat \ {0}
      /\ q.num \in Int /\ q.den \in Nat \ {0} /\ c \in Int /\ d \in Nat \ {0}
      /\ p.num * b = a * p.den /\ q.num * d = c * q.den
  BY FractionParts DEF Stands
<1>2. p.den * q.den \in Nat \ {0} /\ b * d \in Nat \ {0}
  BY <1>1, Positive
<1> DEFINE u == p.num * q.den
           v == q.num * p.den
           w == p.den * q.den
<1>3. u \in Int /\ v \in Int /\ w \in Nat \ {0} /\ p.num * q.num \in Int
      /\ a * d \in Int /\ c * b \in Int /\ a * c \in Int
  BY <1>1, <1>2
<1>4. u * (b * d) = (a * d) * w
  <2>1. u * (b * d) = (p.num * b) * (q.den * d)
    BY <1>1
  <2>2. (a * p.den) * (q.den * d) = (a * d) * w
    BY <1>1
  <2>3. QED BY <1>1, <2>1, <2>2
<1>5. v * (b * d) = (c * b) * w
  <2>1. v * (b * d) = (q.num * d) * (p.den * b)
    BY <1>1
  <2>2. (c * q.den) * (p.den * b) = (c * b) * w
    BY <1>1
  <2>3. QED BY <1>1, <2>1, <2>2
<1>6. (p.num * q.num) * (b * d) = (a * c) * w
  <2>1. (p.num * q.num) * (b * d) = (p.num * b) * (q.num * d)
    BY <1>1
  <2>2. (a * p.den) * (c * q.den) = (a * c) * w
    BY <1>1
  <2>3. QED BY <1>1, <2>1, <2>2
<1>7. /\ Plus(p, q) = Ratio(u + v, w)
      /\ Minus(p, q) = Ratio(u - v, w)
      /\ Times(p, q) = Ratio(p.num * q.num, w)
  BY DEF Plus, Minus, Times
<1> HIDE DEF u, v, w
<1>8. /\ (u + v) * (b * d) = (a * d + c * b) * w
      /\ (u - v) * (b * d) = (a * d - c * b) * w
  <2> DEFINE k == b * d
             y == a * d
             z == c * b
  <2>1. k \in Int /\ y \in Int /\ z \in Int
    BY <1>2, <1>3
  <2>2. u * k = y * w /\ v * k = z * w
    BY <1>4, <1>5
  <2> HIDE DEF k, y, z
  <2>3. /\ (u + v) * k = (y + z) * w
        /\ (u - v) * k = (y - z) * w
    BY <1>3, <2>1, <2>2
  <2>4. QED BY <2>3 DEF k, y, z
<1>9. u + v \in Int /\ u - v \in Int /\ a * d + c * b \in Int /\ a * d - c * b \in Int
  BY <1>3
<1>10. /\ Stands(Plus(p, q), u + v, w)
       /\ Stands(Minus(p, q), u - v, w)
       /\ Stands(Times(p, q), p.num * q.num, w)
  BY <1>3, <1>7, <1>9, RatioStands
<1>11. Stands(Plus(p, q), a * d + c * b, b * d)
  BY <1>2, <1>8, <1>9, <1>10, Rescale
<1>12. Stands(Minus(p, q), a * d - c * b, b * d)
  BY <1>2, <1>8, <1>9, <1>10, Rescale
<1>13. Stands(Times(p, q), a * c, b * d)
  BY <1>2, <1>3, <1>6, <1>10, Rescale
<1>14. QED BY <1>11, <1>12, <1>13

LEMMA OverStands ==
  ASSUME NEW p, NEW a, NEW b, Stands(p, a, b), NEW n \in Nat \ {0}
  PROVE  Stands(Over(p, n), a, b * n)
<1>1. /\ p.num \in Int /\ p.den \in Nat \ {0} /\ a \in Int /\ b \in Nat \ {0}
      /\ p.num * b = a * p.den
  BY FractionParts DEF Stands
<1>2. p.den * n \in Nat \ {0} /\ b * n \in Nat \ {0}
  BY <1>1, Positive
<1>3. p.num * (b * n) = a * (p.den * n)
  <2>1. p.num * (b * n) = (p.num * b) * n /\ a * (p.den * n) = (a * p.den) * n
    BY <1>1
  <2>2. QED BY <1>1, <2>1
<1>4. Stands(Over(p, n), p.num, p.den * n)
  BY <1>1, <1>2, RatioStands DEF Over
<1>5. QED BY <1>1, <1>2, <1>3, <1>4, Rescale

\* A fraction in lowest terms is determined by its value: the least denominator
\* of that value divides every other one.
LEMMA LeastTerms ==
  ASSUME NEW n \in Int, NEW d \in Nat \ {0}
  PROVE  \E u \in Int, v \in Nat \ {0} :
           \A f : Stands(f, n, d) => Expands(f, u, v)
<1> DEFINE Dens == {e \in Nat \ {0} : \E m \in Int : m * d = n * e}
<1>1. d \in Dens /\ Dens \in SUBSET Nat
  OBVIOUS
<1>2. PICK v \in Dens : \A e \in Dens : v <= e
  <2> HIDE DEF Dens
  <2>1. QED BY <1>1, LeastExists
<1>3. PICK u \in Int : u * d = n * v
  BY <1>2
<1>4. v \in Nat \ {0}
  BY <1>2
<1>5. ASSUME NEW f, Stands(f, n, d)
      PROVE  Expands(f, u, v)
  <2> DEFINE e == f.den
             m == f.num
             q == e \div v
             r == e % v
  <2>1. m \in Int /\ e \in Nat \ {0} /\ m * d = n * e
    BY <1>5, FractionParts DEF Stands
  <2>2. q \in Nat /\ r \in 0..(v - 1) /\ e = v * q + r
    BY <1>4, <2>1
  <2> HIDE DEF e, m, q, r
  <2>3. (m - q * u) * d = n * r
    <3>1. (m - q * u) * d = m * d - q * (u * d)
      BY <1>3, <2>1, <2>2
    <3>2. n * e = n * r + q * (n * v)
      BY <1>4, <2>1, <2>2
    <3>3. n * e \in Int /\ q * (n * v) \in Int /\ n * r \in Int
      BY <1>4, <2>1, <2>2
    <3>4. QED BY <1>3, <2>1, <3>1, <3>2, <3>3
  <2>4. r = 0
    <3>1. r # 0 => r \in Nat \ {0} /\ m - q * u \in Int
      BY <1>3, <2>1, <2>2
    <3>2. r # 0 => r \in Dens
      BY <2>3, <3>1
    <3>3. QED BY <1>2, <1>4, <2>2, <3>2
  <2>5. e = q * v /\ q \in Nat \ {0}
    BY <1>4, <2>1, <2>2, <2>4
  <2>6. m * d = (q * u) * d
    <3>1. n * e = q * (n * v)
      BY <1>4, <2>5
    <3>2. (q * u) * d = q * (u * d)
      BY <1>3, <2>5
    <3>3. QED BY <1>3, <2>1, <3>1, <3>2
  <2>7. m = q * u
    BY <1>3, <2>1, <2>5, <2>6, CancelFactor
  <2>8. QED BY <2>5, <2>7 DEF m, e, Expands
<1>6. QED BY <1>3, <1>4, <1>5

\* Ratio divides by the greatest common divisor: no factor is left.
LEMMA RatioLowest ==
  ASSUME NEW n \in Int, NEW d \in Nat \ {0}, NEW u \in Int, NEW v \in Nat \ {0}
  PROVE  Expands(Ratio(n, d), u, v) => Ratio(n, d) = [num |-> u, den |-> v]
<1>1. PICK g \in Nat \ {0} :
        /\ \A k \in Divisors(n, d) : k <= g
        /\ Ratio(n, d).num * g = n
        /\ Ratio(n, d).den * g = d
  BY RatioValue, Zenon
<1> SUFFICES ASSUME NEW q \in Nat \ {0}, Ratio(n, d).num = q * u, Ratio(n, d).den = q * v
             PROVE  Ratio(n, d) = [num |-> u, den |-> v]
  BY DEF Expands
<1> DEFINE k == q * g
<1>2. k \in Nat \ {0}
  BY Positive
<1>3. n = u * k /\ d = v * k
  BY <1>1
<1> HIDE DEF k
<1>4. n % k = 0 /\ d % k = 0
  BY <1>2, <1>3, MultipleRemainder
<1>5. k <= d
  <2>1. 1 * k <= v * k
    BY <1>2, Enlarge
  <2>2. QED BY <1>2, <1>3, <2>1
<1>6. k \in Divisors(n, d)
  BY <1>2, <1>4, <1>5 DEF Divisors
<1>7. q * g <= 1 * g
  BY <1>1, <1>6 DEF k
<1>8. q = 1
  BY <1>7, CancelFactor
<1>9. Ratio(n, d) \in Fraction
  BY RatioValue
<1>10. QED BY <1>8, <1>9 DEF Fraction

\* f is in lowest terms, as every result of an operation is.
Lowest(f) == \E n \in Int, d \in Nat \ {0} : f = Ratio(n, d)

LEMMA OperationsLowest ==
  ASSUME NEW p \in Fraction, NEW q \in Fraction, NEW n \in Nat \ {0}
  PROVE  Lowest(Plus(p, q)) /\ Lowest(Minus(p, q)) /\ Lowest(Over(p, n))
<1>1. p.num \in Int /\ q.num \in Int /\ p.den \in Nat \ {0} /\ q.den \in Nat \ {0}
  BY FractionParts
<1>2. p.den * q.den \in Nat \ {0} /\ p.den * n \in Nat \ {0}
  BY <1>1, Positive
<1>3. /\ p.num * q.den + q.num * p.den \in Int
      /\ p.num * q.den - q.num * p.den \in Int
  BY <1>1
<1>4. QED BY <1>1, <1>2, <1>3 DEF Lowest, Plus, Minus, Over

\* So fractions in lowest terms of one value are equal.
LEMMA LowestUnique ==
  ASSUME NEW f, Lowest(f), NEW g, Lowest(g),
         NEW n, NEW d, Stands(f, n, d), Stands(g, n, d)
  PROVE  f = g
<1>1. n \in Int /\ d \in Nat \ {0}
  BY DEF Stands
<1>2. PICK u \in Int, v \in Nat \ {0} : \A e : Stands(e, n, d) => Expands(e, u, v)
  BY <1>1, LeastTerms
<1>3. ASSUME NEW a \in Int, NEW b \in Nat \ {0}, Expands(Ratio(a, b), u, v)
      PROVE  Ratio(a, b) = [num |-> u, den |-> v]
  BY <1>3, RatioLowest
<1>4. Expands(f, u, v) /\ Expands(g, u, v)
  BY <1>2
<1>5. f = [num |-> u, den |-> v] /\ g = [num |-> u, den |-> v]
  BY <1>3, <1>4 DEF Lowest
<1>6. QED BY <1>5

-----------------------------------------------------------------------------
(* The mean after one time more.                                           *)

\* Off is the distance of the new time from the old mean, rest that from the
\* new mean, and their product is what the sum of the squares grows by.
LEMMA NewMeanStands ==
  ASSUME NEW p, NEW s, NEW e, Stands(p, s, e), NEW n \in Nat \ {0}, NEW x \in Int,
         NEW off, off = Minus(Whole(x), p),
         NEW q, q = Plus(p, Over(off, n)),
         NEW rest, rest = Minus(Whole(x), q)
  PROVE  /\ off \in Fraction
         /\ Over(off, n) \in Fraction
         /\ Stands(q, s * (n - 1) + x * e, e * n)
         /\ Stands(Times(off, rest), ((x * e - s) * (x * e - s)) * (n - 1), e * (e * n))
<1> DEFINE w == x * e - s
           top == s * (n - 1) + x * e
<1>1. s \in Int /\ e \in Nat \ {0} /\ n - 1 \in Nat /\ e * n \in Nat \ {0}
  BY Positive DEF Stands
<1>2. w \in Int /\ top \in Int
  BY <1>1
<1>3. Stands(off, w, e)
  <2>1. Stands(off, x * e - s * 1, 1 * e)
    BY WholeStands, SumStands
  <2>2. 1 * e = e /\ x * e - s * 1 = w
    BY <1>1
  <2> HIDE DEF w
  <2>3. QED BY <2>1, <2>2
<1>4. top * e = s * (e * n) + w * e
  BY <1>1
<1>5. x * (e * n) - top = w * (n - 1)
  BY <1>1
<1> HIDE DEF w, top
<1>6. Stands(Over(off, n), w, e * n)
  BY <1>3, OverStands
<1>7. Stands(q, top, e * n)
  <2>1. Stands(q, s * (e * n) + w * e, e * (e * n))
    BY <1>6, SumStands
  <2>2. (s * (e * n) + w * e) * (e * n) = top * (e * (e * n))
    BY <1>1, <1>2, <1>4
  <2>3. QED BY <1>1, <1>2, <2>1, <2>2, Rescale
<1>8. Stands(rest, w * (n - 1), e * n)
  <2>1. Stands(rest, x * (e * n) - top * 1, 1 * (e * n))
    BY <1>7, WholeStands, SumStands
  <2>2. 1 * (e * n) = e * n /\ top * 1 = top
    BY <1>1, <1>2
  <2>3. QED BY <1>5, <2>1, <2>2
<1>9. Stands(Times(off, rest), w * (w * (n - 1)), e * (e * n))
  BY <1>3, <1>8, SumStands
<1>10. w * (w * (n - 1)) = (w * w) * (n - 1)
  BY <1>1, <1>2
<1>11. off \in Fraction /\ Over(off, n) \in Fraction
  BY <1>3, <1>6, StandsType
<1>12. QED BY <1>7, <1>9, <1>10, <1>11 DEF w, top

\* A whole number bounds a fraction if it bounds its value.
LEMMA ValueBounds ==
  ASSUME NEW q, NEW n, NEW d, Stands(q, n, d), NEW m \in Int
  PROVE  /\ m * d <= n => Leq(Whole(m), q)
         /\ n <= m * d => Leq(q, Whole(m))
         /\ n \in Nat => q.num \in Nat
<1>1. /\ q.num \in Int /\ q.den \in Nat \ {0} /\ n \in Int /\ d \in Nat \ {0}
      /\ q.num * d = n * q.den
  BY FractionParts DEF Stands
<1>2. /\ m * d \in Int /\ m * q.den \in Int
      /\ (m * d) * q.den = (m * q.den) * d
  BY <1>1
<1>3. Leq(Whole(m), q) <=> m * q.den <= q.num
  BY <1>1 DEF Leq, Whole
<1>4. Leq(q, Whole(m)) <=> q.num <= m * q.den
  BY <1>1 DEF Leq, Whole
<1>5. ASSUME m * d <= n
      PROVE  m * q.den <= q.num
  <2>1. (m * d) * q.den <= n * q.den
    BY <1>1, <1>2, <1>5, Enlarge
  <2>2. (m * q.den) * d <= q.num * d
    BY <1>1, <1>2, <2>1
  <2>3. QED BY <1>1, <1>2, <2>2, CancelFactor
<1>6. ASSUME n <= m * d
      PROVE  q.num <= m * q.den
  <2>1. n * q.den <= (m * d) * q.den
    BY <1>1, <1>2, <1>6, Enlarge
  <2>2. q.num * d <= (m * q.den) * d
    BY <1>1, <1>2, <2>1
  <2>3. QED BY <1>1, <1>2, <2>2, CancelFactor
<1>7. ASSUME n \in Nat
      PROVE  q.num \in Nat
  <2>1. 0 * d <= q.num * d
    BY <1>1, <1>7, ProductSign
  <2>2. 0 <= q.num
    BY <1>1, <2>1, CancelFactor
  <2>3. QED BY <1>1, <2>2
<1>8. QED BY <1>3, <1>4, <1>5, <1>6, <1>7

\* A bound of the old mean that bounds the new time bounds the new mean.
LEMMA NewMeanBounds ==
  ASSUME NEW p \in Fraction, NEW x \in Int, NEW n \in Nat \ {0},
         NEW q, q = Plus(p, Over(Minus(Whole(x), p), n)), NEW m \in Int
  PROVE  /\ m <= x /\ (n # 1 => Leq(Whole(m), p)) => Leq(Whole(m), q)
         /\ x <= m /\ (n # 1 => Leq(p, Whole(m))) => Leq(q, Whole(m))
<1> DEFINE top == p.num * (n - 1) + x * p.den
           least == (m * p.den) * (n - 1)
<1>1. p.num \in Int /\ p.den \in Nat \ {0} /\ n - 1 \in Nat /\ Stands(p, p.num, p.den)
  BY FractionParts
<1>2. Stands(q, top, p.den * n)
  BY <1>1, NewMeanStands
<1>3. m * (p.den * n) = least + m * p.den /\ least \in Int
  BY <1>1
<1>4. ASSUME m <= x, n # 1 => Leq(Whole(m), p)
      PROVE  Leq(Whole(m), q)
  <2>1. m * p.den <= x * p.den
    BY <1>1, <1>4, Enlarge
  <2>2. least <= p.num * (n - 1)
    <3>1. CASE n = 1
      BY <1>1, <3>1
    <3>2. CASE n # 1
      <4>1. m * p.den <= p.num
        BY <1>1, <1>4, <3>2 DEF Leq, Whole
      <4>2. QED BY <1>1, <4>1, Enlarge
    <3>3. QED BY <3>1, <3>2
  <2>3. m * (p.den * n) <= top
    BY <1>1, <1>3, <2>1, <2>2
  <2> HIDE DEF top
  <2>4. QED BY <1>2, <2>3, ValueBounds
<1>5. ASSUME x <= m, n # 1 => Leq(p, Whole(m))
      PROVE  Leq(q, Whole(m))
  <2>1. x * p.den <= m * p.den
    BY <1>1, <1>5, Enlarge
  <2>2. p.num * (n - 1) <= least
    <3>1. CASE n = 1
      BY <1>1, <3>1
    <3>2. CASE n # 1
      <4>1. p.num <= m * p.den
        BY <1>1, <1>5, <3>2 DEF Leq, Whole
      <4>2. QED BY <1>1, <4>1, Enlarge
    <3>3. QED BY <3>1, <3>2
  <2>3. top <= m * (p.den * n)
    BY <1>1, <1>3, <2>1, <2>2
  <2> HIDE DEF top
  <2>4. QED BY <1>2, <2>3, ValueBounds
<1>6. QED BY <1>4, <1>5

\* A looser bound is a bound.
LEMMA Loosen ==
  ASSUME NEW p \in Fraction, NEW m \in Int, NEW l \in Int
  PROVE  /\ l <= m /\ Leq(Whole(m), p) => Leq(Whole(l), p)
         /\ m <= l /\ Leq(p, Whole(m)) => Leq(p, Whole(l))
<1>1. p.num \in Int /\ p.den \in Nat
  BY DEF Fraction
<1>2. /\ l <= m => l * p.den <= m * p.den
      /\ m <= l => m * p.den <= l * p.den
  BY <1>1, Enlarge
<1>3. QED BY <1>1, <1>2 DEF Leq, Whole

LEMMA NewAverageType == NewAverage \in Average
<1>1. Whole(0) \in Fraction
  BY WholeStands, StandsType
<1>2. QED BY <1>1 DEF NewAverage, Average

\* A time more keeps an average well formed and counts one answer; a bound of
\* the mean that bounds the time stays one, and no variance becomes negative.
LEMMA WelfordType ==
  ASSUME NEW a \in Average, a.var.num \in Nat, NEW time \in Nat,
         NEW b, b = Welford(a, time)
  PROVE  /\ b \in Average
         /\ b.received = a.received + 1
         /\ b.var.num \in Nat
         /\ \A m \in Int :
              /\ m <= time /\ (a.received # 0 => Leq(Whole(m), a.avg)) => Leq(Whole(m), b.avg)
              /\ time <= m /\ (a.received # 0 => Leq(a.avg, Whole(m))) => Leq(b.avg, Whole(m))
<1> DEFINE n == a.received + 1
           off == Minus(Whole(time), a.avg)
           avg == Plus(a.avg, Over(off, n))
           rest == Minus(Whole(time), avg)
           old == Times(a.var, Whole(n - 1))
           new == Times(off, rest)
           var == Over(Plus(old, new), n)
           p == a.avg.num
           e == a.avg.den
           v == a.var.num
           w == a.var.den
           gap == time * e - p
           part == (gap * gap) * (n - 1)
<1>1. a.received \in Nat /\ a.avg \in Fraction /\ a.var \in Fraction
  BY DEF Average
<1>2. n \in Nat \ {0} /\ n - 1 \in Nat /\ time \in Int /\ (n # 1 <=> a.received # 0)
  BY <1>1
<1>3. /\ p \in Int /\ e \in Nat \ {0} /\ Stands(a.avg, p, e)
      /\ w \in Nat \ {0} /\ Stands(a.var, v, w)
  BY <1>1, FractionParts
<1>4. b = [received |-> n, avg |-> avg, var |-> var]
  BY DEF Welford
<1> HIDE DEF n, p, e, v, w
<1>5. Stands(avg, p * (n - 1) + time * e, e * n) /\ Stands(new, part, e * (e * n))
  <2>1. /\ off = Minus(Whole(time), a.avg) /\ avg = Plus(a.avg, Over(off, n))
        /\ rest = Minus(Whole(time), avg) /\ new = Times(off, rest)
    OBVIOUS
  <2> HIDE DEF off, avg, rest, new
  <2>2. QED BY <1>2, <1>3, <2>1, NewMeanStands
<1>6. ASSUME NEW m \in Int
      PROVE  /\ m <= time /\ (n # 1 => Leq(Whole(m), a.avg)) => Leq(Whole(m), avg)
             /\ time <= m /\ (n # 1 => Leq(a.avg, Whole(m))) => Leq(avg, Whole(m))
  BY <1>1, <1>2, NewMeanBounds
<1> HIDE DEF new
<1>7. part \in Nat /\ e * (e * n) \in Nat \ {0}
  <2>1. gap * gap \in Nat
    BY <1>2, <1>3, SquareSign
  <2>2. QED BY <1>2, <1>3, <2>1, ProductSign, Positive
<1> HIDE DEF gap, part
<1>8. Stands(old, v * (n - 1), w * 1) /\ v * (n - 1) \in Nat /\ w * 1 = w
  BY <1>2, <1>3, WholeStands, SumStands, ProductSign DEF v
<1> HIDE DEF old
<1> DEFINE top == (v * (n - 1)) * (e * (e * n)) + part * w
<1>9. Stands(var, top, (w * (e * (e * n))) * n)
  <2>1. Stands(Plus(old, new), top, w * (e * (e * n)))
    BY <1>5, <1>8, SumStands
  <2>2. QED BY <1>2, <2>1, OverStands
<1>10. top \in Nat
  <2>1. (v * (n - 1)) * (e * (e * n)) \in Nat /\ part * w \in Nat
    BY <1>3, <1>7, <1>8, ProductSign
  <2>2. QED BY <2>1
<1> HIDE DEF avg, var, top
<1>11. avg \in Fraction /\ var \in Fraction /\ var.num \in Nat
  BY <1>5, <1>9, <1>10, StandsType, ValueBounds
<1>12. b \in Average /\ b.received = a.received + 1 /\ b.avg = avg /\ b.var.num \in Nat
  BY <1>2, <1>4, <1>11 DEF Average, n
<1>13. QED BY <1>2, <1>6, <1>12

-----------------------------------------------------------------------------
(* Welford's update is exact.                                              *)

\* The identity it rests on.
LEMMA WelfordIdentity ==
  ASSUME NEW c \in Int, NEW s \in Int, NEW z \in Int, NEW x \in Int, NEW n \in Int, n = c + 1
  PROVE  /\ s * n + (x * c - s) = (s + x) * c
         /\ x * n - (s + x) = x * c - s
         /\ (c * z - s * s) * n + (x * c - s) * (x * c - s)
              = c * (n * (z + x * x) - (s + x) * (s + x))
OBVIOUS

LEMMA MomentsStand ==
  ASSUME NEW h \in Sums, h.count # 0
  PROVE  /\ Stands(Mean(h), h.sum, h.count)
         /\ Stands(Variance(h), h.count * h.squares - h.sum * h.sum, h.count * h.count)
<1> DEFINE c == h.count
           s == h.sum
           z == h.squares
<1>1. c \in Nat \ {0} /\ s \in Int /\ z \in Int
  BY DEF Sums
<1>2. Mean(h) = Ratio(s, c) /\ Variance(h) = Minus(Ratio(z, c), Times(Mean(h), Mean(h)))
  BY DEF Mean, Variance
<1> HIDE DEF c, s, z
<1>3. Stands(Mean(h), s, c) /\ Stands(Ratio(z, c), z, c)
  BY <1>1, <1>2, RatioStands
<1>4. Stands(Times(Mean(h), Mean(h)), s * s, c * c)
  BY <1>3, SumStands
<1>5. Stands(Variance(h), z * (c * c) - (s * s) * c, c * (c * c))
  BY <1>2, <1>3, <1>4, SumStands
<1>6. (z * (c * c) - (s * s) * c) * (c * c) = (c * z - s * s) * (c * (c * c))
  BY <1>1
<1>7. c * c \in Nat \ {0} /\ c * z - s * s \in Int
  BY <1>1, Positive
<1>8. Stands(Variance(h), c * z - s * s, c * c)
  BY <1>5, <1>6, <1>7, Rescale
<1>9. QED BY <1>3, <1>8 DEF c, s, z

LEMMA WelfordStep ==
  ASSUME NEW h \in Sums, h.count = 0 => h.sum = 0 /\ h.squares = 0, NEW x \in Nat,
         NEW k, k = AddMicros(h, x)
  PROVE  /\ k \in Sums /\ k.count # 0
         /\ Welford(AverageOf(h), x) = AverageOf(k)
<1> DEFINE c == h.count
           s == h.sum
           z == h.squares
           a == AverageOf(h)
           n == a.received + 1
           off == Minus(Whole(x), a.avg)
           avg == Plus(a.avg, Over(off, n))
           rest == Minus(Whole(x), avg)
           old == Times(a.var, Whole(n - 1))
           new == Times(off, rest)
           var == Over(Plus(old, new), n)
           e == IF c = 0 THEN 1 ELSE c
           v == c * z - s * s
<1>1. c \in Nat /\ s \in Nat /\ z \in Nat /\ e \in Nat \ {0} /\ v \in Int
  BY DEF Sums
<1>2. /\ k = [count |-> c + 1, sum |-> s + x, squares |-> z + x * x]
      /\ k \in Sums /\ k.count # 0
  BY <1>1, SquareSign DEF AddMicros, Sums
<1>3. a.received = c /\ n = c + 1
  BY DEF AverageOf, NewAverage
<1>4. Stands(a.avg, s, e) /\ Stands(a.var, v, e * e)
  <2>1. CASE c = 0
    <3>1. a.avg = Whole(0) /\ a.var = Whole(0) /\ s = 0 /\ z = 0
      BY <2>1 DEF AverageOf, NewAverage
    <3>2. v = 0 /\ e = 1 /\ e * e = 1
      BY <2>1, <3>1
    <3> HIDE DEF c, s, z, a, e, v
    <3>3. QED BY <3>1, <3>2, WholeStands
  <2>2. CASE c # 0
    <3>1. a.avg = Mean(h) /\ a.var = Variance(h)
      BY <2>2 DEF AverageOf
    <3>2. e = c
      BY <2>2
    <3> HIDE DEF a, e
    <3>3. QED BY <2>2, <3>1, <3>2, MomentsStand
  <2>3. QED BY <2>1, <2>2
<1>5. s * c = s * e /\ (c # 0 => e = c) /\ (c = 0 => e = 1 /\ s = 0 /\ z = 0)
  BY <1>1
<1>6. Welford(a, x) = [received |-> n, avg |-> avg, var |-> var]
  BY DEF Welford
<1>7. AverageOf(k) = [received |-> n, avg |-> Mean(k), var |-> Variance(k)]
  BY <1>2, <1>3 DEF AverageOf
<1> HIDE DEF c, s, z, a, n, e, v
<1> DEFINE w == x * e - s
<1>8. /\ off \in Fraction /\ Over(off, n) \in Fraction
      /\ Stands(avg, s + x, n)
      /\ Stands(new, (w * w) * c, e * (e * n))
  <2>1. /\ off = Minus(Whole(x), a.avg) /\ avg = Plus(a.avg, Over(off, n))
        /\ rest = Minus(Whole(x), avg) /\ new = Times(off, rest)
    OBVIOUS
  <2>2. n \in Nat \ {0} /\ x \in Int /\ n - 1 = c
    BY <1>1, <1>3
  <2> HIDE DEF off, avg, rest, new
  <2>3. /\ off \in Fraction /\ Over(off, n) \in Fraction
        /\ Stands(avg, s * (n - 1) + x * e, e * n)
        /\ Stands(Times(off, rest), (w * w) * (n - 1), e * (e * n))
    BY <1>4, <2>1, <2>2, NewMeanStands
  <2>4. (s * c + x * e) * n = (s + x) * (e * n)
    <3>1. s * c + x * e = (s + x) * e
      BY <1>1, <1>5
    <3>2. QED BY <1>1, <2>2, <3>1
  <2>5. Stands(avg, s + x, n)
    BY <1>1, <2>2, <2>3, <2>4, Rescale
  <2>6. QED BY <2>1, <2>2, <2>3, <2>5
<1> HIDE DEF w
<1>9. Stands(Mean(k), s + x, n) /\ Stands(Variance(k), n * (z + x * x) - (s + x) * (s + x), n * n)
  BY <1>2, <1>3, MomentsStand
<1>10. a.avg \in Fraction /\ a.var \in Fraction /\ n \in Nat \ {0} /\ Whole(x) \in Fraction
  BY <1>1, <1>3, <1>4, WholeStands DEF Stands
<1>11. Stands(old, v * c, e * e)
  <2>1. Stands(Whole(n - 1), c, 1)
    BY <1>1, <1>3, WholeStands
  <2>2. Stands(old, v * c, (e * e) * 1)
    BY <1>4, <2>1, SumStands
  <2>3. (e * e) * 1 = e * e
    BY <1>1
  <2>4. QED BY <2>2, <2>3
<1> DEFINE below == e * (e * n)
           top == (v * c) * below + ((w * w) * c) * (e * e)
<1>12. Stands(Plus(old, new), top, (e * e) * below) /\ Lowest(avg) /\ Lowest(var)
  <2>1. Stands(Plus(old, new), top, (e * e) * below)
    BY <1>8, <1>11, SumStands
  <2> HIDE DEF off, old, new, top, below
  <2>2. Plus(old, new) \in Fraction
    BY <2>1, StandsType
  <2>3. QED BY <1>8, <1>10, <2>1, <2>2, OperationsLowest
<1> HIDE DEF off, avg, old, new
<1>13. Stands(var, top, ((e * e) * below) * n)
  BY <1>10, <1>12, OverStands
<1>14. Lowest(Mean(k)) /\ Lowest(Variance(k))
  <2>1. Mean(k) = Ratio(s + x, n) /\ Variance(k) = Minus(Ratio(z + x * x, n), Times(Mean(k), Mean(k)))
    BY <1>2, <1>3 DEF Mean, Variance
  <2>2. s + x \in Int /\ z + x * x \in Int
    BY <1>1
  <2>3. Ratio(z + x * x, n) \in Fraction /\ Mean(k) \in Fraction
    BY <1>10, <2>1, <2>2, RatioValue
  <2>4. Times(Mean(k), Mean(k)) \in Fraction
    BY <1>9, SumStands, StandsType
  <2>5. Lowest(Mean(k))
    BY <1>10, <2>1, <2>2 DEF Lowest
  <2>6. Lowest(Variance(k))
    BY <1>10, <2>1, <2>3, <2>4, OperationsLowest
  <2>7. QED BY <2>5, <2>6
<1>15. avg = Mean(k)
  BY <1>8, <1>9, <1>12, <1>14, LowestUnique
<1>16. Stands(var, n * (z + x * x) - (s + x) * (s + x), n * n)
  <2> DEFINE goal == n * (z + x * x) - (s + x) * (s + x)
  <2>1. goal \in Int /\ n * n \in Nat \ {0}
    BY <1>1, <1>10, Positive
  <2>2. top * (n * n) = goal * (((e * e) * below) * n)
    <3>1. CASE c = 0
      <4>1. e = 1 /\ n = 1 /\ s = 0 /\ z = 0
        BY <1>3, <1>5, <3>1
      <4>2. goal = 0
        BY <4>1
      <4>3. w \in Int /\ below \in Int
        BY <1>1, <4>1 DEF w
      <4>4. top = 0
        <5> HIDE DEF below
        <5>1. QED BY <1>1, <3>1, <4>1, <4>3
      <4> HIDE DEF goal, top
      <4>5. QED BY <1>1, <4>1, <4>2, <4>3, <4>4
    <3>2. CASE c # 0
      <4>1. e = c /\ w \in Int
        BY <1>1, <1>5, <3>2 DEF w
      <4>2. v * n + w * w = c * goal
        BY <1>1, <1>3, <4>1, WelfordIdentity DEF v, w
      <4>3. top = (v * c) * (c * (c * n)) + ((w * w) * c) * (c * c)
        BY <4>1
      <4> HIDE DEF goal, top
      <4>4. top = (v * n + w * w) * (c * (c * c))
        BY <1>1, <1>10, <4>1, <4>3
      <4>5. top = (c * goal) * (c * (c * c))
        BY <4>2, <4>4
      <4>6. ((c * goal) * (c * (c * c))) * (n * n) = goal * (((c * c) * (c * (c * n))) * n)
        BY <1>1, <1>10, <2>1
      <4>7. QED BY <4>1, <4>5, <4>6
    <3>3. QED BY <3>1, <3>2
  <2> HIDE DEF goal, top, below
  <2>3. Stands(var, goal, n * n)
    BY <1>13, <2>1, <2>2, Rescale
  <2>4. QED BY <2>3 DEF goal
<1> HIDE DEF var
<1>17. var = Variance(k)
  BY <1>9, <1>12, <1>14, <1>16, LowestUnique
<1>18. QED BY <1>2, <1>6, <1>7, <1>15, <1>17 DEF a

-----------------------------------------------------------------------------
(* Rows.                                                                   *)

LEMMA NewHopType ==
  ASSUME NEW i \in Nat
  PROVE  NewHop(i) \in HopState /\ NewHop(i).stats = NewStats
<1>1. NewStats \in HopStats
  BY DEF NewStats, HopStats, OptRTT
<1>2. QED BY <1>1 DEF NewHop, HopState

LEMMA NewTimesFit == TimesFit(NewStats, NewAverage) /\ SumsFit(NewAverage, NoTimes)
<1>1. TimesFit(NewStats, NewAverage)
  BY DEF TimesFit, NewStats, NewAverage, Whole
<1>2. NoTimes \in Sums /\ NoTimes.count = 0 /\ NoTimes.sum = 0 /\ NoTimes.squares = 0
  BY DEF NoTimes, Sums
<1>3. AverageOf(NoTimes) = NewAverage
  BY <1>2 DEF AverageOf
<1>4. QED BY <1>1, <1>2, <1>3 DEF SumsFit

LEMMA PushSampleType ==
  ASSUME NEW q \in Seq(ProbeResult), NEW p \in ProbeResult
  PROVE  PushSample(q, p) \in Seq(ProbeResult)
<1> DEFINE all == Append(q, p)
           from == Len(all) - MaxSamples + 1
<1>1. all \in Seq(ProbeResult) /\ Len(all) \in Nat
  BY AppendProperties, LenProperties
<1>2. from \in Int /\ from + MaxSamples - 1 = Len(all)
  BY <1>1, StateAssumption
<1>3. CASE Len(all) > MaxSamples
  <2>1. \A i \in from..Len(all) : all[i] \in ProbeResult
    BY <1>1, <1>2, <1>3, StateAssumption, ElementOfSeq
  <2>2. PushSample(q, p) = SubSeq(all, from, Len(all))
    BY <1>3 DEF PushSample
  <2> HIDE DEF all, from
  <2>3. QED BY <1>1, <1>2, <2>1, <2>2, SubSeqProperties
<1>4. QED BY <1>1, <1>3 DEF PushSample

LEMMA RecordProbeType ==
  ASSUME NEW s \in HopStats, NEW p \in ProbeResult
  PROVE  RecordProbe(s, p) \in HopStats
<1>1. p.rtt # None => /\ Lower(s.min_rtt, p.rtt) \in OptRTT
                      /\ Higher(s.max_rtt, p.rtt) \in OptRTT
  BY DEF Lower, Higher, OptRTT, HopStats, ProbeResult
<1>2. Errors(p) \in Nat /\ Received(p) \in {0, 1}
  BY DEF Errors, Received
<1>3. QED BY <1>1, <1>2 DEF RecordProbe, HopStats, OptRTT, ProbeResult

LEMMA AddProbeType ==
  ASSUME NEW h \in HopState, NEW p \in ProbeResult
  PROVE  /\ AddProbe(h, p) \in HopState
         /\ AddProbe(h, p).stats = RecordProbe(h.stats, p)
<1>1. h.stats \in HopStats /\ h.samples \in Seq(ProbeResult)
  BY DEF HopState
<1>2. RecordProbe(h.stats, p) \in HopStats
  BY <1>1, RecordProbeType
<1>3. PushSample(h.samples, p) \in Seq(ProbeResult)
  BY <1>1, PushSampleType
<1>4. AddrChanges(h, p) => p.addr \in Addr
  BY DEF AddrChanges, ProbeResult
<1>5. QED BY <1>2, <1>3, <1>4 DEF AddProbe, HopState

\* Whole microseconds keep the order of the times.
LEMMA MicrosType ==
  ASSUME NEW x \in Nat
  PROVE  AsMicros(x) \in Nat
BY AveragesAssumption DEF AsMicros

LEMMA MicrosOrder ==
  ASSUME NEW x \in Nat, NEW y \in Nat, x <= y
  PROVE  AsMicros(x) <= AsMicros(y)
<1> DEFINE p == PerMicro
           i == AsMicros(x)
           j == AsMicros(y)
<1>1. p \in Nat \ {0} /\ i \in Nat /\ j \in Nat
  BY AveragesAssumption, MicrosType
<1>2. p * i <= x /\ y < p * (j + 1)
  <2>1. \A z \in Nat : z = p * (z \div p) + (z % p) /\ z % p \in 0..(p - 1)
    <3> HIDE DEF p
    <3>1. QED BY <1>1, SMT
  <2>2. x = p * i + (x % p) /\ y = p * j + (y % p)
    BY <2>1 DEF AsMicros
  <2>3. x % p \in 0..(p - 1) /\ y % p \in 0..(p - 1)
    BY <2>1
  <2>4. p * (j + 1) = p * j + p
    <3> HIDE DEF p, i, j
    <3>1. QED BY <1>1
  <2> DEFINE f == p * i
             g == p * j
             l == x % p
             m == y % p
  <2>5. f \in Int /\ g \in Int
    <3> HIDE DEF p, i, j
    <3>1. QED BY <1>1
  <2>6. x = f + l /\ y = g + m /\ p * (j + 1) = g + p /\ l \in 0..(p - 1) /\ m \in 0..(p - 1)
    BY <2>2, <2>3, <2>4
  <2> HIDE DEF p, f, g, l, m
  <2>7. f <= x /\ y < g + p
    BY <1>1, <2>5, <2>6
  <2>8. QED BY <2>6, <2>7 DEF f
<1> HIDE DEF p, i, j
<1>3. SUFFICES ASSUME j + 1 <= i PROVE FALSE
  BY <1>1 DEF i, j
<1>4. p * (j + 1) <= p * i
  BY <1>1, <1>3
<1>5. p * i \in Int /\ p * (j + 1) \in Int
  BY <1>1
<1>6. QED BY <1>2, <1>4, <1>5

\* record_probe moves the counters and the average on together: only a time
\* counts as an answer and only a time enters the average.
LEMMA ProbeFits ==
  ASSUME NEW s \in HopStats, NEW a \in Average, TimesFit(s, a), NEW p \in ProbeResult,
         NEW b, b = IF p.rtt # None THEN RecordTime(a, p.rtt) ELSE a
  PROVE  b \in Average /\ TimesFit(RecordProbe(s, p), b)
<1>1. s.received \in Nat /\ a.received = s.received
  BY DEF HopStats, TimesFit
<1>2. CASE p.rtt = None
  <2>1. /\ RecordProbe(s, p).received = s.received
        /\ RecordProbe(s, p).last_rtt = None
        /\ RecordProbe(s, p).min_rtt = s.min_rtt
        /\ RecordProbe(s, p).max_rtt = s.max_rtt
    BY <1>1, <1>2 DEF RecordProbe, Received
  <2>2. QED BY <1>2, <2>1 DEF TimesFit
<1>3. CASE p.rtt # None
  <2> DEFINE least == Lower(s.min_rtt, p.rtt)
             most == Higher(s.max_rtt, p.rtt)
  <2>1. p.rtt \in Nat
    BY <1>3, StateAssumption DEF ProbeResult
  <2> DEFINE us == AsMicros(p.rtt)
             low == AsMicros(least)
             high == AsMicros(most)
  <2>2. b = Welford(a, us) /\ a.var.num \in Nat /\ us \in Nat
    BY <1>3, <2>1, MicrosType DEF TimesFit, RecordTime
  <2>3. /\ b \in Average /\ b.received = a.received + 1 /\ b.var.num \in Nat
        /\ low \in Int /\ low <= us /\ (a.received # 0 => Leq(Whole(low), a.avg))
             => Leq(Whole(low), b.avg)
        /\ high \in Int /\ us <= high /\ (a.received # 0 => Leq(a.avg, Whole(high)))
             => Leq(b.avg, Whole(high))
    <3> HIDE DEF low, high, us
    <3>1. QED BY <2>2, WelfordType
  <2>4. /\ RecordProbe(s, p).received = s.received + 1
        /\ RecordProbe(s, p).min_rtt = least
        /\ RecordProbe(s, p).max_rtt = most
    BY <1>3 DEF RecordProbe, Received
  <2>5. /\ s.min_rtt # None => s.min_rtt \in Nat
        /\ s.max_rtt # None => s.max_rtt \in Nat
        /\ None \notin Nat
    BY StateAssumption DEF HopStats, OptRTT
  <2>6. /\ least \in Nat /\ least <= p.rtt
        /\ most \in Nat /\ p.rtt <= most
        /\ s.min_rtt # None => least <= s.min_rtt
        /\ s.max_rtt # None => s.max_rtt <= most
    BY <2>1, <2>5 DEF Lower, Higher
  <2> HIDE DEF least, most
  <2>7. /\ low \in Nat /\ low <= us
        /\ high \in Nat /\ us <= high
        /\ s.min_rtt # None => low <= AsMicros(s.min_rtt)
        /\ s.max_rtt # None => AsMicros(s.max_rtt) <= high
    BY <2>1, <2>5, <2>6, MicrosType, MicrosOrder
  <2> HIDE DEF us, low, high
  <2>8. a.received # 0 => Leq(Whole(low), a.avg) /\ Leq(a.avg, Whole(high))
    <3> SUFFICES ASSUME a.received # 0
                 PROVE  Leq(Whole(low), a.avg) /\ Leq(a.avg, Whole(high))
      OBVIOUS
    <3>1. /\ s.min_rtt \in Nat /\ Leq(Whole(AsMicros(s.min_rtt)), a.avg)
          /\ s.max_rtt \in Nat /\ Leq(a.avg, Whole(AsMicros(s.max_rtt)))
          /\ s.min_rtt # None /\ s.max_rtt # None
      BY <1>1, <2>5 DEF TimesFit
    <3>2. /\ a.avg \in Fraction /\ low \in Int /\ high \in Int
          /\ AsMicros(s.min_rtt) \in Int /\ AsMicros(s.max_rtt) \in Int
      BY <2>7, <3>1, MicrosType DEF Average
    <3>3. Leq(Whole(low), a.avg)
      BY <2>7, <3>1, <3>2, Loosen
    <3>4. Leq(a.avg, Whole(high))
      BY <2>7, <3>1, <3>2, Loosen
    <3>5. QED BY <3>3, <3>4
  <2>9. /\ RecordProbe(s, p).received # 0
        /\ RecordProbe(s, p).min_rtt # None /\ RecordProbe(s, p).max_rtt # None
        /\ RecordProbe(s, p).received = b.received
    BY <1>1, <2>3, <2>4, <2>5, <2>6
  <2>10. /\ Leq(Whole(AsMicros(RecordProbe(s, p).min_rtt)), b.avg)
         /\ Leq(b.avg, Whole(AsMicros(RecordProbe(s, p).max_rtt)))
    BY <2>3, <2>4, <2>7, <2>8 DEF low, high
  <2>11. QED BY <2>3, <2>9, <2>10 DEF TimesFit
<1>4. QED BY <1>2, <1>3

\* The average stays that of all the times.
LEMMA ProbeSums ==
  ASSUME NEW a, NEW h, SumsFit(a, h), NEW p \in ProbeResult
  PROVE  SumsFit(IF p.rtt # None THEN RecordTime(a, p.rtt) ELSE a,
                 IF p.rtt # None THEN AddTime(h, p.rtt) ELSE h)
<1>1. CASE p.rtt = None
  BY <1>1
<1>2. CASE p.rtt # None
  <2>1. p.rtt \in Nat
    BY <1>2, StateAssumption DEF ProbeResult
  <2>2. h \in Sums /\ (h.count = 0 => h.sum = 0 /\ h.squares = 0) /\ a = AverageOf(h)
    BY DEF SumsFit
  <2>3. /\ AddTime(h, p.rtt) \in Sums /\ AddTime(h, p.rtt).count # 0
        /\ RecordTime(a, p.rtt) = AverageOf(AddTime(h, p.rtt))
    BY <2>1, <2>2, MicrosType, WelfordStep DEF AddTime, RecordTime
  <2>4. SumsFit(RecordTime(a, p.rtt), AddTime(h, p.rtt))
    BY <2>3 DEF SumsFit
  <2>5. QED BY <1>2, <2>4
<1>3. QED BY <1>1, <1>2

LEMMA FunctionIsSeq ==
  ASSUME NEW S, NEW n \in Nat, NEW f \in [1..n -> S]
  PROVE  f \in Seq(S) /\ Len(f) = n /\ DOMAIN f = 1..n
<1>1. f \in Seq(S)
  BY SeqDef
<1>2. DOMAIN f = 1..n /\ DOMAIN f = 1..Len(f) /\ Len(f) \in Nat
  BY <1>1, LenProperties
<1>3. QED BY <1>1, <1>2

\* What a round leaves in the rows: one probe more where it reached, and new
\* rows up to there.
LEMMA RoundRows ==
  ASSUME NEW t \in Seq(HopState), NEW r \in Seq(Outcome)
  PROVE  /\ RecordRound(t, r) \in Seq(HopState)
         /\ DOMAIN t \subseteq DOMAIN RecordRound(t, r)
         /\ \A i \in DOMAIN RecordRound(t, r) : \E old \in HopStats :
              /\ old = IF i \in DOMAIN t THEN t[i].stats ELSE NewStats
              /\ RecordRound(t, r)[i].stats =
                   IF i <= Len(r) THEN RecordProbe(old, r[i]) ELSE old
<1> DEFINE n == IF Len(t) < Len(r) THEN Len(r) ELSE Len(t)
           g == EnsureHop(t, Len(r))
           f == RecordRound(t, r)
<1>1. /\ Len(t) \in Nat /\ DOMAIN t = 1..Len(t) /\ Len(r) \in Nat /\ n \in Nat
      /\ DOMAIN t \subseteq 1..n
  BY LenProperties
<1>2. g = [i \in 1..n |-> IF i <= Len(t) THEN t[i] ELSE NewHop(i)]
  BY DEF EnsureHop
<1>3. ASSUME NEW i \in 1..n
      PROVE  /\ g[i] \in HopState
             /\ g[i].stats = IF i \in DOMAIN t THEN t[i].stats ELSE NewStats
  <2>1. CASE i <= Len(t)
    <3>1. i \in 1..Len(t) /\ g[i] = t[i]
      BY <1>1, <1>2, <2>1
    <3>2. QED BY <1>1, <3>1, ElementOfSeq
  <2>2. CASE ~(i <= Len(t))
    BY <1>1, <1>2, <2>2, NewHopType
  <2>3. QED BY <2>1, <2>2
<1>4. f = [i \in 1..n |-> IF i <= Len(r) THEN AddProbe(g[i], r[i]) ELSE g[i]]
  BY <1>2 DEF RecordRound
<1>5. ASSUME NEW i \in 1..n
      PROVE  /\ f[i] \in HopState
             /\ f[i].stats = IF i <= Len(r) THEN RecordProbe(g[i].stats, r[i]) ELSE g[i].stats
  <2> HIDE DEF g
  <2>1. CASE i <= Len(r)
    <3>1. r[i] \in ProbeResult /\ f[i] = AddProbe(g[i], r[i])
      BY <1>1, <1>4, <2>1, ElementOfSeq DEF Outcome
    <3>2. QED BY <1>3, <2>1, <3>1, AddProbeType
  <2>2. CASE ~(i <= Len(r))
    BY <1>3, <1>4, <2>2
  <2>3. QED BY <2>1, <2>2
<1> HIDE DEF n, g, f
<1>6. f \in Seq(HopState) /\ DOMAIN f = 1..n
  <2>1. f \in [1..n -> HopState]
    BY <1>4, <1>5
  <2>2. QED BY <1>1, <2>1, FunctionIsSeq
<1>7. ASSUME NEW i \in 1..n
      PROVE  g[i].stats \in HopStats
  BY <1>3 DEF HopState
<1>8. QED BY <1>1, <1>3, <1>5, <1>6, <1>7 DEF f

-----------------------------------------------------------------------------
(* The rows and their averages stay in step.                               *)

LEMMA InitRows == ScreenInit => hops \in Seq(HopState) /\ averages \in Seq(Average) /\ RowsFit
BY EmptySeq DEF ScreenInit, Init, RowsFit

LEMMA RecordRows ==
  ASSUME ScreenInv, NEW r \in Rounds,
         hops' = RecordRound(hops, r), averages' = AverageRound(r), heard' = HeardRound(r)
  PROVE  hops' \in Seq(HopState) /\ averages' \in Seq(Average) /\ RowsFit'
<1>1. r \in Seq(Outcome) /\ Len(r) \in Nat
  <2>1. PICK n \in 0..MaxHops : r \in [1..n -> Outcome]
    BY DEF Rounds
  <2>2. n \in Nat
    BY StateAssumption
  <2>3. QED BY <2>1, <2>2, FunctionIsSeq
<1>2. /\ hops \in Seq(HopState) /\ averages \in Seq(Average)
      /\ DOMAIN averages = DOMAIN hops /\ DOMAIN heard = DOMAIN hops
      /\ \A i \in DOMAIN hops :
           TimesFit(hops[i].stats, averages[i]) /\ SumsFit(averages[i], heard[i])
  BY DEF ScreenInv, ScreenTypeOK, RowsFit
<1>3. /\ hops' \in Seq(HopState)
      /\ \A i \in DOMAIN hops' : \E old \in HopStats :
           /\ old = IF i \in DOMAIN hops THEN hops[i].stats ELSE NewStats
           /\ hops'[i].stats = IF i <= Len(r) THEN RecordProbe(old, r[i]) ELSE old
  BY <1>1, <1>2, RoundRows
<1>4. DOMAIN averages' = DOMAIN hops' /\ DOMAIN heard' = DOMAIN hops'
  BY DEF AverageRound, HeardRound
<1>5. ASSUME NEW i \in DOMAIN hops'
      PROVE  /\ averages'[i] \in Average
             /\ TimesFit(hops'[i].stats, averages'[i]) /\ SumsFit(averages'[i], heard'[i])
  <2>1. PICK old \in HopStats :
           /\ old = IF i \in DOMAIN hops THEN hops[i].stats ELSE NewStats
           /\ hops'[i].stats = IF i <= Len(r) THEN RecordProbe(old, r[i]) ELSE old
    BY <1>3
  <2> DEFINE a == IF i \in DOMAIN averages THEN averages[i] ELSE NewAverage
             h == IF i \in DOMAIN heard THEN heard[i] ELSE NoTimes
  <2>2. a \in Average /\ TimesFit(old, a) /\ SumsFit(a, h)
    <3>1. CASE i \in DOMAIN hops
      <4>1. averages[i] \in Average
        BY <1>2, <3>1, ElementOfSeq, LenProperties
      <4>2. QED BY <1>2, <2>1, <3>1, <4>1
    <3>2. CASE i \notin DOMAIN hops
      BY <1>2, <2>1, <3>2, NewAverageType, NewTimesFit
    <3>3. QED BY <3>1, <3>2
  <2>3. /\ averages'[i] = IF i <= Len(r) /\ r[i].rtt # None THEN RecordTime(a, r[i].rtt) ELSE a
        /\ heard'[i] = IF i <= Len(r) /\ r[i].rtt # None THEN AddTime(h, r[i].rtt) ELSE h
    BY DEF AverageRound, HeardRound
  <2> HIDE DEF a, h
  <2>4. i \in Nat \ {0}
    BY <1>3, LenProperties
  <2>5. CASE i <= Len(r)
    <3>1. r[i] \in ProbeResult
      BY <1>1, <2>4, <2>5, ElementOfSeq DEF Outcome
    <3>2. averages'[i] = IF r[i].rtt # None THEN RecordTime(a, r[i].rtt) ELSE a
      BY <2>3, <2>5
    <3>3. hops'[i].stats = RecordProbe(old, r[i])
      BY <2>1, <2>5
    <3>4. SumsFit(averages'[i], heard'[i])
      BY <2>2, <2>3, <2>5, <3>1, <3>2, ProbeSums
    <3>5. QED BY <2>2, <3>1, <3>2, <3>3, <3>4, ProbeFits
  <2>6. CASE ~(i <= Len(r))
    BY <2>1, <2>2, <2>3, <2>6
  <2>7. QED BY <2>5, <2>6
<1>6. averages' \in Seq(Average)
  <2>1. averages' \in [1..Len(hops') -> Average] /\ Len(hops') \in Nat
    <3>1. DOMAIN hops' = 1..Len(hops') /\ Len(hops') \in Nat
      BY <1>3, LenProperties
    <3>2. averages' = [i \in DOMAIN hops' |-> averages'[i]]
      BY DEF AverageRound
    <3>3. QED BY <1>5, <3>1, <3>2
  <2>2. QED BY <2>1, FunctionIsSeq
<1>7. QED BY <1>3, <1>4, <1>5, <1>6 DEF RowsFit

\* A reset leaves every row and every average as if new.
LEMMA ResetRows ==
  ASSUME ScreenInv, ResetStatistics
  PROVE  hops' \in Seq(HopState) /\ averages' \in Seq(Average) /\ RowsFit'
<1>1. hops \in Seq(HopState) /\ DOMAIN hops = 1..Len(hops) /\ Len(hops) \in Nat
  BY LenProperties DEF ScreenInv
<1>2. /\ hops' = [i \in 1..Len(hops) |-> ResetHop(hops[i])]
      /\ averages' = [i \in 1..Len(hops) |-> NewAverage]
      /\ heard' = [i \in 1..Len(hops) |-> NoTimes]
  BY <1>1 DEF ResetStatistics, Clear, ResetHops
<1>3. ASSUME NEW i \in 1..Len(hops)
      PROVE  ResetHop(hops[i]) \in HopState /\ ResetHop(hops[i]).stats = NewStats
  <2>1. hops[i] \in HopState
    BY <1>1, ElementOfSeq
  <2>2. <<>> \in Seq(ProbeResult) /\ NewStats \in HopStats
    BY EmptySeq DEF NewStats, HopStats, OptRTT
  <2>3. QED BY <2>1, <2>2 DEF ResetHop, HopState
<1>4. hops' \in [1..Len(hops) -> HopState]
  BY <1>2, <1>3
<1>5. averages' \in [1..Len(hops) -> Average]
  BY <1>2, NewAverageType
<1>6. hops' \in Seq(HopState) /\ averages' \in Seq(Average)
  BY <1>1, <1>4, <1>5, FunctionIsSeq
<1>7. QED BY <1>2, <1>3, <1>6, NewTimesFit DEF RowsFit

\* A name changes no number.
LEMMA NamedRows ==
  ASSUME ScreenInv, NameRow, UNCHANGED <<averages, heard>>
  PROVE  hops' \in Seq(HopState) /\ averages' \in Seq(Average) /\ RowsFit'
<1>1. hops \in Seq(HopState) /\ DOMAIN hops = 1..Len(hops) /\ Len(hops) \in Nat
  BY LenProperties DEF ScreenInv
<1>2. PICK i \in 1..Len(hops) : hops[i].addr # None /\ hops' = [hops EXCEPT ![i].hostname = hops[i].addr]
  BY <1>1 DEF NameRow
<1>3. hops[i] \in HopState
  BY <1>1, ElementOfSeq
<1>4. [hops[i] EXCEPT !.hostname = hops[i].addr] \in HopState
  BY <1>2, <1>3 DEF HopState
<1>5. \A j \in 1..Len(hops) : hops'[j].stats = hops[j].stats
  BY <1>1, <1>2, <1>3, ElementOfSeq DEF HopState
<1>6. hops' \in Seq(HopState) /\ DOMAIN hops' = DOMAIN hops
  <2>1. hops' \in [1..Len(hops) -> HopState]
    BY <1>1, <1>2, <1>4, ElementOfSeq
  <2>2. QED BY <1>1, <2>1, FunctionIsSeq
<1>7. QED BY <1>1, <1>5, <1>6 DEF ScreenInv, ScreenTypeOK, RowsFit

-----------------------------------------------------------------------------
(* Pictures.                                                               *)

\* A row of a table that differs from another one in its name alone.
SameButName(h, g) ==
  h.ttl = g.ttl /\ h.addr = g.addr /\ h.samples = g.samples /\ h.stats = g.stats

Columns == {"ttl", "host", "loss", "sent", "received", "errors", "last", "avg",
            "best", "worst", "stdev"}

\* The text row of a hop has no cell but its host that a name shows in.
LEMMA CellsUnnamed ==
  ASSUME NEW h, NEW g, SameButName(h, g), NEW a, NEW c \in Columns \ {"host"}
  PROVE  TextRow(h, a)[c] = TextRow(g, a)[c]
<1>1. h.stats = g.stats /\ h.ttl = g.ttl
  BY DEF SameButName
<1>2. CASE c \in {"ttl", "loss", "sent", "received"}
  BY <1>1, <1>2 DEF TextRow
<1>3. CASE c \in {"errors", "last", "avg"}
  BY <1>1, <1>3 DEF TextRow
<1>4. CASE c \in {"best", "worst", "stdev"}
  BY <1>1, <1>4 DEF TextRow
<1>5. QED BY <1>2, <1>3, <1>4 DEF Columns

LEMMA RowUnnamed ==
  ASSUME NEW h, NEW g, SameButName(h, g), NEW a, NEW isSelected
  PROVE  [HopTableRow(h, a, isSelected) EXCEPT !.cells.host = None]
           = [HopTableRow(g, a, isSelected) EXCEPT !.cells.host = None]
<1> DEFINE shown == Columns \ {"received"}
           cells(x) == [c \in shown |-> IF c = "host" THEN None ELSE TextRow(x, a)[c]]
<1>1. ASSUME NEW x
      PROVE  [HopTableRow(x, a, isSelected) EXCEPT !.cells.host = None]
               = [cells |-> cells(x),
                  lossColor |-> HealthFg[LossHealth(x.stats)],
                  rttColor |-> HealthFg[RttHealth(x.stats.last_rtt)],
                  selected |-> isSelected]
  <2>1. DOMAIN TextRow(x, a) = Columns
    BY DEF TextRow, Columns
  <2> DEFINE old == [c \in shown |-> TextRow(x, a)[c]]
  <2>2. HopTableRow(x, a, isSelected)
          = [cells |-> old,
             lossColor |-> HealthFg[LossHealth(x.stats)],
             rttColor |-> HealthFg[RttHealth(x.stats.last_rtt)],
             selected |-> isSelected]
    BY <2>1 DEF HopTableRow
  <2>3. [old EXCEPT !.host = None] = cells(x)
    OBVIOUS
  <2> HIDE DEF old, cells
  <2>4. QED BY <2>2, <2>3
<1>2. cells(h) = cells(g)
  BY CellsUnnamed
<1>3. h.stats = g.stats
  BY DEF SameButName
<1> HIDE DEF cells
<1>4. QED BY <1>1, <1>2, <1>3

LEMMA ChartUnnamed ==
  ASSUME NEW h, NEW g, SameButName(h, g), NEW x, NEW y
  PROVE  [Chart(h, x) EXCEPT !.host = None] = [Chart(g, y) EXCEPT !.host = None]
<1>1. LatencyData(h) = LatencyData(g) /\ LossData(h) = LossData(g)
  BY DEF LatencyData, LossData, SameButName
<1>2. ChartDatasets(h) = ChartDatasets(g)
  BY <1>1 DEF ChartDatasets
<1>3. h.ttl = g.ttl
  BY DEF SameButName
<1>4. QED BY <1>1, <1>2, <1>3 DEF Chart

\* The row that stands for the target is one of the table, if there is one.
LEMMA DestinationIsRow ==
  ASSUME NEW t \in Seq(HopState), DestinationRow(t) # 0
  PROVE  DestinationRow(t) \in DOMAIN t
<1> DEFINE known == {i \in DOMAIN t : t[i].stats.received > 0}
<1>1. Len(t) \in Nat /\ known \in SUBSET (0..Len(t))
  BY LenProperties
<1>2. known # {} /\ DestinationRow(t) = CHOOSE i \in known : \A j \in known : j <= i
  BY DEF DestinationRow
<1>3. \E i \in known : \A j \in known : j <= i
  <2> HIDE DEF known
  <2>1. QED BY <1>1, <1>2, LargestExists
<1>4. DestinationRow(t) \in known
  <2> HIDE DEF known
  <2>1. QED BY <1>2, <1>3
<1>5. QED BY <1>4

\* Tables that differ in names alone say the same of their target.
LEMMA DestinationUnnamed ==
  ASSUME NEW t \in Seq(HopState), NEW u \in Seq(HopState), DOMAIN t = DOMAIN u,
         \A i \in DOMAIN t : SameButName(t[i], u[i]), NEW avgs
  PROVE  /\ DestinationSummary(t, avgs) = DestinationSummary(u, avgs)
         /\ DestinationHealth(t) = DestinationHealth(u)
<1>1. \A i \in DOMAIN t : t[i].stats = u[i].stats
  BY DEF SameButName
<1>2. DestinationRow(t) = DestinationRow(u)
  <2> DEFINE known(x) == {i \in DOMAIN x : x[i].stats.received > 0}
             Farthest(S) == IF S = {} THEN 0 ELSE CHOOSE i \in S : \A j \in S : j <= i
  <2>1. known(t) = known(u)
    BY <1>1
  <2>2. ASSUME NEW x
        PROVE  DestinationRow(x) = Farthest(known(x))
    BY DEF DestinationRow
  <2> HIDE DEF known, Farthest
  <2>3. QED BY <2>1, <2>2
<1>3. CASE DestinationRow(t) = 0
  BY <1>2, <1>3 DEF DestinationSummary, DestinationHealth
<1>4. CASE DestinationRow(t) # 0
  <2>1. t[DestinationRow(t)].stats = u[DestinationRow(t)].stats
    BY <1>1, <1>4, DestinationIsRow
  <2>2. QED BY <1>2, <1>4, <2>1 DEF DestinationSummary, DestinationHealth
<1>5. QED BY <1>3, <1>4

\* What Unnamed makes of each part of a picture.
RowsUnnamed(t) == [i \in DOMAIN t |-> [t[i] EXCEPT !.cells.host = None]]
ChartsUnnamed(charts) == {[c EXCEPT !.host = None] : c \in charts}

LEMMA UnnamedParts ==
  ASSUME NEW r, NEW s, NEW c, NEW t, NEW charts, NEW p,
         p = [round |-> r, summary |-> s, color |-> c, table |-> t, chart |-> charts]
  PROVE  Unnamed(p) = [round |-> r, summary |-> s, color |-> c,
                       table |-> RowsUnnamed(t), chart |-> ChartsUnnamed(charts)]
<1>1. p.table = t /\ p.chart = charts
  OBVIOUS
<1>2. Unnamed(p) = [p EXCEPT !.table = RowsUnnamed(p.table), !.chart = ChartsUnnamed(p.chart)]
  BY Zenon DEF Unnamed, RowsUnnamed, ChartsUnnamed
<1>3. QED BY <1>1, <1>2

\* A lookup does not change the picture but for the names.
LEMMA PictureUnnamed ==
  ASSUME ScreenInv, NameRow, UNCHANGED <<averages, heard, showChart>>, NEW isTall \in BOOLEAN
  PROVE  Unnamed(Picture(isTall))' = Unnamed(Picture(isTall))
<1>1. hops \in Seq(HopState) /\ hops' \in Seq(HopState)
  BY NamedRows DEF ScreenInv
<1>2. PICK i \in DOMAIN hops : hops' = [hops EXCEPT ![i].hostname = hops[i].addr]
  BY DEF NameRow
<1>3. DOMAIN hops' = DOMAIN hops
  BY <1>2
<1>4. ASSUME NEW j \in DOMAIN hops
      PROVE  SameButName(hops[j], hops'[j])
  <2>1. hops[j] \in HopState
    BY <1>1, ElementOfSeq, LenProperties
  <2>2. QED BY <1>2, <2>1 DEF SameButName, HopState
<1>5. round' = round /\ averages' = averages /\ showChart' = showChart
  BY DEF NameRow
<1> DEFINE table == [j \in DOMAIN hops |-> HopTableRow(hops[j], averages[j], j = Selected)]
<1>6. Unnamed(Picture(isTall)) =
        [round |-> round,
         summary |-> DestinationSummary(hops, averages),
         color |-> HealthFg[DestinationHealth(hops)],
         table |-> RowsUnnamed(table),
         chart |-> ChartsUnnamed(ChartShown(isTall))]
  BY UnnamedParts DEF Picture
<1>7. Unnamed(Picture(isTall))' =
        [round |-> round',
         summary |-> DestinationSummary(hops', averages'),
         color |-> HealthFg[DestinationHealth(hops')],
         table |-> RowsUnnamed(table'),
         chart |-> ChartsUnnamed(ChartShown(isTall)')]
  <2>1. Unnamed(Picture(isTall))' = Unnamed(Picture(isTall)')
    BY DEF Unnamed
  <2>2. QED BY <2>1, UnnamedParts DEF Picture
<1>8. /\ DestinationSummary(hops', averages') = DestinationSummary(hops, averages)
      /\ DestinationHealth(hops') = DestinationHealth(hops)
  BY <1>1, <1>3, <1>4, <1>5, DestinationUnnamed
<1>9. RowsUnnamed(table') = RowsUnnamed(table)
  <2>1. DOMAIN table = DOMAIN hops /\ DOMAIN table' = DOMAIN hops
    BY <1>3
  <2>2. ASSUME NEW j \in DOMAIN hops
        PROVE  [table'[j] EXCEPT !.cells.host = None] = [table[j] EXCEPT !.cells.host = None]
    <3>1. /\ table[j] = HopTableRow(hops[j], averages[j], j = Selected)
          /\ table'[j] = HopTableRow(hops'[j], averages[j], j = Selected)
      BY <1>3, <1>5
    <3> HIDE DEF table
    <3>2. QED BY <1>4, <3>1, RowUnnamed
  <2> HIDE DEF table
  <2>3. QED BY <2>1, <2>2 DEF RowsUnnamed
<1>10. ChartsUnnamed(ChartShown(isTall)') = ChartsUnnamed(ChartShown(isTall))
  <2>1. CASE showChart /\ isTall /\ Selected \in DOMAIN hops
    <3>1. /\ ChartShown(isTall) = {Chart(hops[Selected], FormatHost(hops[Selected]))}
          /\ ChartShown(isTall)' = {Chart(hops'[Selected], FormatHost(hops'[Selected]))}
      BY <1>3, <1>5, <2>1 DEF ChartShown, Selected
    <3>2. [Chart(hops[Selected], FormatHost(hops[Selected])) EXCEPT !.host = None]
            = [Chart(hops'[Selected], FormatHost(hops'[Selected])) EXCEPT !.host = None]
      BY <1>4, <2>1, ChartUnnamed
    <3>3. QED BY <3>1, <3>2 DEF ChartsUnnamed
  <2>2. CASE ~(showChart /\ isTall /\ Selected \in DOMAIN hops)
    BY <1>3, <1>5, <2>2 DEF ChartShown, Selected
  <2>3. QED BY <2>1, <2>2
<1> HIDE DEF table
<1>11. QED BY <1>5, <1>6, <1>7, <1>8, <1>9, <1>10

\* Nor does anything that leaves the record and the switch alone.
LEMMA SamePicture ==
  ASSUME UNCHANGED <<recordVars, averages, showChart>>, NEW isTall \in BOOLEAN
  PROVE  Unnamed(Picture(isTall))' = Unnamed(Picture(isTall))
BY DEF Unnamed, Picture, ChartShown, recordVars

-----------------------------------------------------------------------------
(* The inductive invariant.                                                *)

LEMMA InitScreen == ScreenInit => ScreenInv
<1> SUFFICES ASSUME ScreenInit PROVE ScreenInv
  OBVIOUS
<1>1. hops \in Seq(HopState) /\ averages \in Seq(Average) /\ RowsFit
  BY InitRows
<1>2. \A i \in DOMAIN hops : hops[i] \in HopState
  BY DEF ScreenInit, Init
<1>3. NumbersFit
  BY ScreenAssumption DEF ScreenInit, Init, NumbersFit
<1>4. ScreenTypeOK
  <2>1. {needsRedraw, resetRequested, showChart, unpublished} \subseteq BOOLEAN
    BY DEF ScreenInit
  <2>2. lastRound \in 0..MaxTotal /\ keys \in 0..MaxKeys
    BY ScreenAssumption DEF ScreenInit
  <2>3. pc \in {"frame", "select", "serve"}
    BY DEF ScreenInit
  <2>4. QED BY <1>1, <1>2, <2>1, <2>2, <2>3 DEF ScreenTypeOK
<1>5. ScreenCurrent
  BY DEF ScreenInit, ScreenCurrent
<1>6. QED BY <1>1, <1>3, <1>4, <1>5 DEF ScreenInv

LEMMA ScreenStep == ScreenInv /\ [ScreenNext]_screenVars => ScreenInv'
<1> SUFFICES ASSUME ScreenInv, [ScreenNext]_screenVars PROVE ScreenInv'
  OBVIOUS
<1> USE DEF ScreenInv
<1>1. \A t \in Seq(HopState) : \A i \in DOMAIN t : t[i] \in HopState
  BY ElementOfSeq, LenProperties
<1>2. ASSUME hops' \in Seq(HopState), averages' \in Seq(Average), RowsFit', NumbersFit',
             pc' \in {"frame", "select", "serve"}, keys' \in 0..MaxKeys,
             {needsRedraw', resetRequested', showChart', unpublished'} \subseteq BOOLEAN,
             ScreenCurrent'
      PROVE  ScreenInv'
  <2>1. lastRound' \in 0..MaxTotal
    BY <1>2, ScreenAssumption DEF NumbersFit
  <2>2. QED BY <1>1, <1>2, <2>1 DEF ScreenTypeOK
<1>3. CASE RecordOneRound
  <2>1. PICK r \in Rounds :
          AddRoundOf(r) /\ averages' = AverageRound(r) /\ heard' = HeardRound(r)
    BY <1>3 DEF RecordOneRound
  <2>2. hops' \in Seq(HopState) /\ averages' \in Seq(Average) /\ RowsFit'
    BY <2>1, RecordRows DEF AddRoundOf
  <2>3. /\ UNCHANGED <<round, pc, appVars, drawVars>> /\ unpublished'
        /\ total < MaxTotal /\ total' = total + 1
    BY <1>3, <2>1 DEF RecordOneRound, AddRoundOf
  <2>4. NumbersFit'
    BY <2>3, ScreenAssumption DEF NumbersFit, drawVars
  <2>5. QED BY <1>2, <1>3, <2>2, <2>3, <2>4
            DEF ScreenTypeOK, ScreenCurrent, appVars, drawVars, RecordOneRound
<1>4. CASE PublishRound
  <2>1. /\ UNCHANGED <<hops, total, averages, heard, pc, appVars, drawVars>>
        /\ unpublished' = FALSE
        /\ round' = total /\ unpublished
    BY <1>4 DEF PublishRound, ShowRound
  <2>2. RowsFit'
    BY <2>1 DEF RowsFit
  <2>3. NumbersFit' /\ round' # lastRound'
    BY <2>1, ScreenAssumption DEF NumbersFit, drawVars
  <2>4. QED BY <1>2, <2>1, <2>2, <2>3 DEF ScreenTypeOK, ScreenCurrent, appVars, drawVars
<1>5. CASE NameOneRow
  <2>1. /\ NameRow /\ UNCHANGED <<round, total, averages, pc, appVars, drawVars, auxVars>>
    BY <1>5 DEF NameOneRow, NameRow
  <2>2. hops' \in Seq(HopState) /\ averages' \in Seq(Average) /\ RowsFit'
    BY <2>1, NamedRows DEF auxVars
  <2>3. NumbersFit'
    BY <2>1 DEF NumbersFit, drawVars, auxVars
  <2>4. \A isTall \in BOOLEAN : Unnamed(Picture(isTall))' = Unnamed(Picture(isTall))
    BY <2>1, PictureUnnamed DEF appVars, auxVars
  <2>5. ScreenCurrent'
    BY <2>1, <2>4 DEF ScreenCurrent, drawVars, auxVars
  <2>6. QED BY <1>2, <2>1, <2>2, <2>3, <2>5 DEF ScreenTypeOK, appVars, drawVars, auxVars
<1>6. ASSUME UNCHANGED <<recordVars, averages, heard, unpublished>>
      PROVE  /\ hops' \in Seq(HopState) /\ averages' \in Seq(Average) /\ RowsFit'
             /\ showChart' = showChart =>
                  \A isTall \in BOOLEAN : Unnamed(Picture(isTall))' = Unnamed(Picture(isTall))
  BY <1>6, SamePicture DEF recordVars, RowsFit, ScreenTypeOK
<1>7. CASE Frame
  <2>1. /\ UNCHANGED <<recordVars, averages, appVars, auxVars>> /\ pc' = "select"
        /\ Draw \/ UNCHANGED drawVars
    BY <1>7 DEF Frame
  <2>2. NumbersFit' /\ needsRedraw' \in BOOLEAN
    BY <2>1 DEF NumbersFit, recordVars, auxVars, drawVars, Draw, ScreenTypeOK
  <2>3. \A isTall \in BOOLEAN : Unnamed(Picture(isTall))' = Unnamed(Picture(isTall))
    BY <1>6, <2>1 DEF appVars, auxVars
  <2>4. ScreenCurrent'
    <3>1. CASE Draw
      BY <2>3, <3>1 DEF Draw, ScreenCurrent
    <3>2. CASE UNCHANGED drawVars
      BY <2>1, <2>3, <3>2 DEF ScreenCurrent, recordVars, auxVars, drawVars
    <3>3. QED BY <2>1, <3>1, <3>2
  <2>5. QED BY <1>2, <1>6, <2>1, <2>2, <2>4 DEF ScreenTypeOK, appVars, auxVars
<1>8. CASE KeyChart \/ KeyReset
  <2>1. /\ UNCHANGED <<recordVars, averages, pc, lastRound, auxVars>>
        /\ needsRedraw' = TRUE /\ keys < MaxKeys /\ keys' = keys + 1
        /\ showChart' \in BOOLEAN /\ resetRequested' \in BOOLEAN
    BY <1>8 DEF KeyChart, KeyReset, AnyKey, ScreenTypeOK
  <2>2. NumbersFit' /\ keys' \in 0..MaxKeys
    BY <2>1, ScreenAssumption DEF NumbersFit, recordVars, auxVars, ScreenTypeOK
  <2>3. QED BY <1>2, <1>6, <2>1, <2>2 DEF ScreenTypeOK, ScreenCurrent, auxVars
<1>9. CASE EndKeys
  <2>1. UNCHANGED <<recordVars, averages, appVars, drawVars, auxVars>> /\ pc' = "serve"
    BY <1>9 DEF EndKeys
  <2>2. NumbersFit'
    BY <2>1 DEF NumbersFit, recordVars, auxVars, drawVars
  <2>3. ScreenCurrent'
    BY <1>6, <2>1 DEF ScreenCurrent, recordVars, auxVars, drawVars, appVars
  <2>4. QED BY <1>2, <1>6, <2>1, <2>2, <2>3 DEF ScreenTypeOK, appVars, auxVars, drawVars
<1>10. CASE Serve
  <2>1. /\ UNCHANGED <<showChart, keys, drawn, unpublished>> /\ pc' = "frame"
        /\ resetRequested' = FALSE
    BY <1>10 DEF Serve
  <2>2. CASE resetRequested
    <3>1. ResetStatistics /\ lastRound' = 0 /\ needsRedraw' = TRUE
      BY <1>10, <2>2 DEF Serve
    <3>2. hops' \in Seq(HopState) /\ averages' \in Seq(Average) /\ RowsFit'
      BY <3>1, ResetRows
    <3>3. NumbersFit'
      BY <2>1, <3>1, ScreenAssumption DEF NumbersFit, ResetStatistics, Clear
    <3>4. QED BY <1>2, <2>1, <3>1, <3>2, <3>3 DEF ScreenTypeOK, ScreenCurrent
  <2>3. CASE ~resetRequested
    <3>1. UNCHANGED <<recordVars, averages, heard, lastRound, needsRedraw>>
      BY <1>10, <2>3 DEF Serve
    <3>2. NumbersFit'
      BY <2>1, <3>1 DEF NumbersFit, recordVars
    <3>3. ScreenCurrent'
      BY <1>6, <2>1, <3>1 DEF ScreenCurrent, recordVars
    <3>4. QED BY <1>2, <1>6, <2>1, <3>1, <3>2, <3>3 DEF ScreenTypeOK
  <2>4. QED BY <2>2, <2>3
<1>11. CASE UNCHANGED screenVars
  <2>1. UNCHANGED <<recordVars, averages, pc, appVars, drawVars, auxVars>>
    BY <1>11 DEF screenVars
  <2>2. NumbersFit'
    BY <2>1 DEF NumbersFit, recordVars, auxVars, drawVars
  <2>3. ScreenCurrent'
    BY <1>6, <2>1 DEF ScreenCurrent, recordVars, auxVars, drawVars, appVars
  <2>4. QED BY <1>2, <1>6, <2>1, <2>2, <2>3 DEF ScreenTypeOK, appVars, auxVars, drawVars
<1>12. QED BY <1>3, <1>4, <1>5, <1>7, <1>8, <1>9, <1>10, <1>11 DEF ScreenNext

-----------------------------------------------------------------------------
\* The rows and their averages stay in step, a round that is still to be shown
\* is newer than the frame, and the screen is current unless it will be drawn.
THEOREM ScreenInvariant == ScreenSpec => []ScreenInv
<1>1. QED BY InitScreen, ScreenStep, PTL DEF ScreenSpec

\* The state of the screen is well formed: the averages are fractions, whatever
\* times the rows heard.
THEOREM ScreenTypeCorrect == ScreenSpec => []ScreenTypeOK
<1>1. ScreenInv => ScreenTypeOK
  BY DEF ScreenInv
<1>2. QED BY <1>1, ScreenInvariant, PTL

\* A turn that draws nothing would have drawn what the terminal shows but for
\* names: the redraw test of run_event_loop misses no round, no reset and no
\* key.
THEOREM FramesAreFresh == ScreenSpec => FrameFresh
<1>1. ASSUME ScreenInv, Frame
      PROVE  unpublished \/ \E isTall \in BOOLEAN : drawn' = Unnamed(Picture(isTall))
  <2>1. CASE needsRedraw \/ round # lastRound
    BY <1>1, <2>1 DEF Frame, Draw
  <2>2. CASE ~(needsRedraw \/ round # lastRound)
    BY <1>1, <2>2 DEF Frame, drawVars, ScreenInv, ScreenCurrent
  <2>3. QED BY <2>1, <2>2
<1>2. ScreenInv /\ [ScreenNext]_screenVars =>
        [Frame => \/ unpublished
                  \/ \E isTall \in BOOLEAN : drawn' = Unnamed(Picture(isTall))]_screenVars
  BY <1>1
<1>3. QED BY <1>2, ScreenInvariant, PTL DEF ScreenSpec, FrameFresh

\* However a hop's answers and losses fall, its mean lies between its extremes,
\* cut to whole microseconds as record_probe cuts the times of the mean, and
\* the number whose root record_probe takes is not negative.
THEOREM MeansAreSound == ScreenSpec => []AveragesSound
<1>1. ScreenInv => AveragesSound
  <2> SUFFICES ASSUME ScreenInv, NEW i \in DOMAIN hops
               PROVE  /\ averages[i].received = hops[i].stats.received
                      /\ averages[i].var.num >= 0
                      /\ hops[i].stats.received > 0 =>
                           /\ Leq(Whole(AsMicros(hops[i].stats.min_rtt)), averages[i].avg)
                           /\ Leq(averages[i].avg, Whole(AsMicros(hops[i].stats.max_rtt)))
    BY DEF ScreenInv, RowsFit, AveragesSound
  <2>1. TimesFit(hops[i].stats, averages[i])
    BY DEF ScreenInv, RowsFit
  <2>2. QED BY <2>1 DEF TimesFit
<1>2. QED BY <1>1, ScreenInvariant, PTL

\* Updating the mean and the deviation one time after the other gives those of
\* all the times in whole microseconds, for every sequence of times and resets.
THEOREM AveragesAreExact == ScreenSpec => []AveragesExact
<1>1. ScreenInv => \A i \in DOMAIN hops : averages[i] = AverageOf(heard[i])
  BY DEF ScreenInv, RowsFit, SumsFit
<1>2. QED BY <1>1, MeansAreSound, ScreenInvariant, PTL DEF AveragesExact

\* What ReportsAgree says of one hop.
DashIf(value, zero) == IF value = zero THEN None ELSE value
RowsAgree(text, csv, json) ==
  /\ \A f \in DOMAIN csv \ {"host"} : csv[f] = json[f]
  /\ csv.host = IF json.host # None THEN [name |-> json.host]
                ELSE IF json.ip # None THEN [ip |-> json.ip] ELSE None
  /\ text = [csv EXCEPT !.errors = DashIf(@, 0),
                        !.avg = DashIf(@, Whole(0)),
                        !.stdev = DashIf(@, Whole(0))]

LEMMA HopReports ==
  ASSUME NEW h \in HopState, NEW a, TimesFit(h.stats, a)
  PROVE  RowsAgree(TextRow(h, a), CsvRow(h, a), JsonRow(h, a))
<1> DEFINE text == TextRow(h, a)
           csv == CsvRow(h, a)
           json == JsonRow(h, a)
<1>1. h.stats.errors \in Nat /\ h.stats.received \in Nat
  BY DEF HopState, HopStats
<1>2. csv.host = IF json.host # None THEN [name |-> json.host]
                 ELSE IF json.ip # None THEN [ip |-> json.ip] ELSE None
  BY DEF CsvRow, JsonRow, FormatHost
<1>3. \A f \in DOMAIN csv \ {"host"} : csv[f] = json[f]
  <2>1. /\ csv.ttl = json.ttl /\ csv.loss = json.loss /\ csv.sent = json.sent
        /\ csv.received = json.received /\ csv.errors = json.errors
    BY DEF CsvRow, JsonRow
  <2>2. /\ csv.last = json.last /\ csv.best = json.best /\ csv.worst = json.worst
        /\ csv.avg = json.avg /\ csv.stdev = json.stdev
    BY <1>1 DEF CsvRow, JsonRow, TimesFit
  <2>3. DOMAIN csv = Columns
    BY DEF CsvRow, Columns
  <2> HIDE DEF csv, json
  <2>4. QED BY <2>1, <2>2, <2>3 DEF Columns
<1>4. text = [csv EXCEPT !.errors = DashIf(@, 0),
                         !.avg = DashIf(@, Whole(0)),
                         !.stdev = DashIf(@, Whole(0))]
  <2>1. FormatErrors(h.stats.errors) = DashIf(csv.errors, 0)
    BY <1>1 DEF FormatErrors, DashIf, CsvRow
  <2>2. FormatUsToMs(a.avg) = DashIf(csv.avg, Whole(0))
    BY <1>1 DEF FormatUsToMs, DashIf, CsvRow, TimesFit
  <2>3. FormatUsToMs(a.var) = DashIf(csv.stdev, Whole(0))
    BY <1>1 DEF FormatUsToMs, DashIf, CsvRow, TimesFit
  <2> DEFINE e == DashIf(csv.errors, 0)
             m == DashIf(csv.avg, Whole(0))
             d == DashIf(csv.stdev, Whole(0))
  <2>4. text = [ttl |-> h.ttl, host |-> FormatHost(h), loss |-> LossPct(h.stats),
                sent |-> h.stats.sent, received |-> h.stats.received, errors |-> e,
                last |-> h.stats.last_rtt, avg |-> m,
                best |-> h.stats.min_rtt, worst |-> h.stats.max_rtt, stdev |-> d]
    BY <2>1, <2>2, <2>3 DEF TextRow
  <2> HIDE DEF e, m, d, text
  <2>5. text = [csv EXCEPT !.errors = e, !.avg = m, !.stdev = d]
    <3> DEFINE upd == [csv EXCEPT !.errors = e, !.avg = m, !.stdev = d]
    <3>1. DOMAIN text = Columns /\ text = [f \in Columns |-> text[f]]
      BY <2>4 DEF Columns
    <3>2. DOMAIN csv = Columns
      BY DEF CsvRow, Columns
    <3>3. upd = [f \in Columns |-> IF f = "stdev" THEN d ELSE IF f = "avg" THEN m
                                  ELSE IF f = "errors" THEN e ELSE csv[f]]
      BY <3>2
    <3>4. ASSUME NEW f \in Columns
          PROVE  text[f] = IF f = "stdev" THEN d ELSE IF f = "avg" THEN m
                           ELSE IF f = "errors" THEN e ELSE csv[f]
      <4>1. CASE f \in {"stdev", "avg", "errors"}
        BY <2>4, <4>1
      <4>2. CASE f \in {"ttl", "host", "loss", "sent"}
        BY <2>4, <4>2 DEF CsvRow
      <4>3. CASE f \in {"received", "last", "best", "worst"}
        BY <2>4, <4>3 DEF CsvRow
      <4>4. QED BY <4>1, <4>2, <4>3 DEF Columns
    <3> HIDE DEF upd, csv
    <3>5. text = upd
      BY <3>1, <3>3, <3>4
    <3>6. QED BY <3>5 DEF upd
  <2>6. QED BY <2>5, Zenon DEF e, m, d
<1>5. QED BY <1>2, <1>3, <1>4, Zenon DEF RowsAgree

\* The three reports agree about every hop of every record the tracing can
\* produce.
THEOREM ReportsSayTheSame == ScreenSpec => []ReportsAgree
<1>1. ScreenInv => ReportsAgree
  <2> SUFFICES ASSUME ScreenInv PROVE ReportsAgree
    OBVIOUS
  <2>1. ASSUME NEW i \in DOMAIN hops
        PROVE  RowsAgree(TextReport(hops, averages, round).rows[i],
                         CsvReport(hops, averages).rows[i],
                         JsonReport(hops, averages, round).rows[i])
    <3>1. hops[i] \in HopState /\ TimesFit(hops[i].stats, averages[i])
      BY DEF ScreenInv, ScreenTypeOK, RowsFit
    <3>2. /\ TextReport(hops, averages, round).rows[i] = TextRow(hops[i], averages[i])
          /\ CsvReport(hops, averages).rows[i] = CsvRow(hops[i], averages[i])
          /\ JsonReport(hops, averages, round).rows[i] = JsonRow(hops[i], averages[i])
      BY DEF TextReport, CsvReport, JsonReport
    <3>3. QED BY <3>1, <3>2, HopReports
  <2>2. QED BY <2>1, Zenon DEF ReportsAgree, RowsAgree, DashIf
<1>2. QED BY <1>1, ScreenInvariant, PTL

-----------------------------------------------------------------------------
(* The chart: recursion, and the marks of the samples.                     *)

\* A point of the chart.
Point == [x: Fraction, y: Nat]

\* What holds of the first number, and of each one after a number it holds of,
\* holds of all.
LEMMA Climb ==
  ASSUME NEW lo \in Nat, NEW hi \in Nat, NEW steps, steps = (lo + 1)..hi, NEW T, lo \in T,
         \A k \in steps : k - 1 \in T => k \in T
  PROVE  lo..hi \subseteq T
<1> DEFINE Rest == (lo..hi) \ T
<1>1. SUFFICES ASSUME Rest # {} PROVE FALSE
  OBVIOUS
<1>2. PICK n \in Rest : \A m \in Rest : n <= m
  <2>1. Rest \in SUBSET Nat
    OBVIOUS
  <2> HIDE DEF Rest
  <2>2. QED BY <1>1, <2>1, LeastExists
<1>3. n \in (lo + 1)..hi /\ n - 1 \in lo..hi /\ ~(n <= n - 1)
  BY <1>2
<1>4. n - 1 \in T
  BY <1>2, <1>3
<1>5. QED BY <1>2, <1>3, <1>4

\* f is the function that recursion over an interval defines.
Follows(f, lo, hi, S, base, step) ==
  /\ f \in [lo..hi -> S]
  /\ f[lo] = base
  /\ \A k \in (lo + 1)..hi : f[k] = step[k][f[k - 1]]

\* There is one, for every first value and every table of steps.
LEMMA Recursion ==
  ASSUME NEW lo \in Nat, NEW hi \in Nat, lo <= hi, NEW S, NEW base \in S,
         NEW steps, steps = (lo + 1)..hi, NEW step \in [steps -> [S -> S]]
  PROVE  \E f : Follows(f, lo, hi, S, base, step)
<1> DEFINE T == {n \in lo..hi : \E f : Follows(f, lo, n, S, base, step)}
<1>1. lo \in T
  <2>1. Follows([k \in lo..lo |-> base], lo, lo, S, base, step)
    BY DEF Follows
  <2>2. lo \in lo..hi
    OBVIOUS
  <2>3. QED BY <2>1, <2>2
<1>2. ASSUME NEW n \in (lo + 1)..hi, n - 1 \in T
      PROVE  n \in T
  <2>1. PICK f : Follows(f, lo, n - 1, S, base, step)
    BY <1>2
  <2> DEFINE g == [k \in lo..n |-> IF k = n THEN step[n][f[n - 1]] ELSE f[k]]
  <2>2. f[n - 1] \in S /\ step[n][f[n - 1]] \in S
    BY <2>1 DEF Follows
  <2>3. g \in [lo..n -> S]
    BY <2>1, <2>2 DEF Follows
  <2>4. g[lo] = base
    BY <2>1 DEF Follows
  <2>5. ASSUME NEW k \in (lo + 1)..n PROVE g[k] = step[k][g[k - 1]]
    <3>1. CASE k = n
      BY <3>1
    <3>2. CASE k # n
      BY <2>1, <3>2 DEF Follows
    <3>3. QED BY <3>1, <3>2
  <2>6. Follows(g, lo, n, S, base, step)
    BY <2>3, <2>4, <2>5 DEF Follows
  <2>7. n \in lo..hi
    OBVIOUS
  <2> HIDE DEF g
  <2>8. QED BY <2>6, <2>7
<1>3. hi \in T
  <2> HIDE DEF T
  <2>1. lo..hi \subseteq T
    BY <1>1, <1>2, Climb
  <2>2. QED BY <2>1
<1>4. QED BY <1>3

\* The sequences of marks up to each sample: those up to the one before, and
\* perhaps its own.
MarksUpTo(upTo, samples, answered) ==
  /\ upTo \in [0..Len(samples) -> Seq(Point)]
  /\ upTo[0] = <<>>
  /\ \A k \in 1..Len(samples) :
       upTo[k] = IF (samples[k].rtt # None) # answered THEN upTo[k - 1]
                 ELSE Append(upTo[k - 1], [x |-> Whole(k - 1),
                                           y |-> IF answered THEN samples[k].rtt ELSE 0])

\* Marked is the last of such sequences.
LEMMA MarkedEquation ==
  ASSUME NEW samples \in Seq(ProbeResult), NEW answered \in BOOLEAN
  PROVE  \E upTo : MarksUpTo(upTo, samples, answered) /\ Marked(samples, answered) = upTo[Len(samples)]
<1> DEFINE n == Len(samples)
           Body(f, k) ==
             IF k = 0 THEN <<>>
             ELSE IF (samples[k].rtt # None) # answered THEN f[k - 1]
             ELSE Append(f[k - 1], [x |-> Whole(k - 1),
                                    y |-> IF answered THEN samples[k].rtt ELSE 0])
           F == CHOOSE f : f = [k \in 0..n |-> Body(f, k)]
<1>1. Marked(samples, answered) = F[n]
  BY DEF Marked
<1> DEFINE Dot(k) == [x |-> Whole(k - 1), y |-> IF answered THEN samples[k].rtt ELSE 0]
           step == [k \in 1..n |-> [acc \in Seq(Point) |->
                      IF (samples[k].rtt # None) # answered THEN acc ELSE Append(acc, Dot(k))]]
<1>2. ASSUME NEW k \in 1..n, ~((samples[k].rtt # None) # answered)
      PROVE  Dot(k) \in Point
  <2>1. samples[k] \in ProbeResult
    BY <1>2
  <2>2. samples[k].rtt \in Nat \cup {None}
    BY <2>1, StateAssumption DEF ProbeResult
  <2>3. (IF answered THEN samples[k].rtt ELSE 0) \in Nat
    BY <1>2, <2>2
  <2>4. Whole(k - 1) \in Fraction
    BY DEF Whole, Fraction
  <2>5. QED BY <2>3, <2>4 DEF Point
<1>3. n \in Nat
  OBVIOUS
<1>4. step \in [1..n -> [Seq(Point) -> Seq(Point)]]
  <2> HIDE DEF Dot
  <2>1. QED BY <1>2, <1>3
<1>5. PICK f : Follows(f, 0, n, Seq(Point), <<>>, step)
  <2> HIDE DEF step, n
  <2>1. <<>> \in Seq(Point) /\ 0 \in Nat /\ 0 <= n /\ 1..n = (0 + 1)..n
    BY <1>3
  <2>2. QED BY <1>3, <1>4, <2>1, Recursion
<1>6. ASSUME NEW k \in 1..n
      PROVE  f[k] = IF (samples[k].rtt # None) # answered THEN f[k - 1]
                    ELSE Append(f[k - 1], Dot(k))
  <2>1. f[k - 1] \in Seq(Point) /\ k \in 1..n
    BY <1>3, <1>5 DEF Follows
  <2> HIDE DEF n, Dot
  <2>2. step[k] = [acc \in Seq(Point) |->
                     IF (samples[k].rtt # None) # answered THEN acc ELSE Append(acc, Dot(k))]
    BY <2>1
  <2>3. f[k] = step[k][f[k - 1]]
    <3> HIDE DEF step
    <3>1. QED BY <1>5, <2>1 DEF Follows
  <2>4. QED BY <2>1, <2>2, <2>3
<1>7. f = [k \in 0..n |-> Body(f, k)]
  <2>1. ASSUME NEW k \in 0..n PROVE f[k] = Body(f, k)
    <3>1. CASE k = 0
      BY <1>5, <3>1 DEF Follows
    <3>2. CASE k # 0
      <4>1. k \in 1..n
        BY <3>2
      <4> HIDE DEF n
      <4>2. QED BY <1>6, <3>2, <4>1
    <3>3. QED BY <3>1, <3>2
  <2> HIDE DEF Body, n
  <2>2. QED BY <1>5, <2>1 DEF Follows
<1>8. F = [k \in 0..n |-> Body(F, k)]
  <2> HIDE DEF Body, n
  <2>1. QED BY <1>7
<1>9. ASSUME NEW k \in 0..n PROVE F[k] = Body(F, k)
  <2> HIDE DEF Body, F, n
  <2>1. QED BY <1>8, Zenon
<1>10. F[0] = <<>>
  <2>1. 0 \in 0..n
    BY <1>3
  <2> HIDE DEF F, n
  <2>2. QED BY <1>9, <2>1
<1>11. ASSUME NEW k \in 1..n
       PROVE  F[k] = IF (samples[k].rtt # None) # answered THEN F[k - 1]
                     ELSE Append(F[k - 1], Dot(k))
  <2>1. k \in 0..n /\ k # 0
    BY <1>3
  <2>2. QED BY <1>9, <2>1
<1> DEFINE T == {k \in 0..n : F[k] \in Seq(Point)}
<1>12. 0..n \subseteq T
  <2> HIDE DEF F, n, Dot
  <2>1. 0 \in T /\ 0 \in Nat
    <3>1. 0 \in 0..n /\ <<>> \in Seq(Point)
      BY <1>3
    <3>2. QED BY <1>3, <1>10, <3>1
  <2>2. ASSUME NEW k \in 1..n, k - 1 \in T PROVE k \in T
    <3>1. k \in 1..n /\ F[k - 1] \in Seq(Point)
      BY <2>2, <1>3
    <3>2. F[k] \in Seq(Point)
      <4>1. CASE (samples[k].rtt # None) # answered
        BY <1>11, <3>1, <4>1
      <4>2. CASE ~((samples[k].rtt # None) # answered)
        <5>1. Dot(k) \in Point /\ F[k] = Append(F[k - 1], Dot(k))
          BY <1>2, <1>11, <3>1, <4>2
        <5>2. QED BY <3>1, <5>1
      <4>3. QED BY <4>1, <4>2
    <3>3. QED BY <3>1, <3>2
  <2> HIDE DEF T
  <2>3. 1..n = (0 + 1)..n
    BY <1>3
  <2>4. QED BY <1>3, <2>1, <2>2, <2>3, Climb
<1>13. F \in [0..n -> Seq(Point)]
  <2> HIDE DEF F, n, Body
  <2>1. QED BY <1>8, <1>12
<1>14. MarksUpTo(F, samples, answered)
  <2> HIDE DEF F, step, Body
  <2>1. QED BY <1>10, <1>11, <1>13 DEF MarksUpTo
<1>15. QED
  <2> HIDE DEF F
  <2>1. QED BY <1>1, <1>14

\* The mark of a sample, and whether it is among those wanted.
Mark(samples, answered, i) ==
  [x |-> Whole(i - 1), y |-> IF answered THEN samples[i].rtt ELSE 0]

Chosen(samples, answered, i) == (samples[i].rtt # None) = answered

\* The points are the marks of the chosen ones among the first k samples.
MarksOf(points, samples, answered, k) ==
  /\ \A j \in DOMAIN points : \E i \in 1..k :
       Chosen(samples, answered, i) /\ points[j] = Mark(samples, answered, i)
  /\ \A i \in 1..k : Chosen(samples, answered, i) =>
       \E j \in DOMAIN points : points[j] = Mark(samples, answered, i)
  /\ \A j \in 1..(Len(points) - 1) : points[j].x.num < points[j + 1].x.num

\* One more sample adds its mark, if it is wanted.
LEMMA MarksGrow ==
  ASSUME NEW samples, NEW answered \in BOOLEAN, NEW k \in Nat \ {0}, NEW points \in Seq(Point),
         MarksOf(points, samples, answered, k - 1)
  PROVE  IF Chosen(samples, answered, k)
         THEN MarksOf(Append(points, Mark(samples, answered, k)), samples, answered, k)
         ELSE MarksOf(points, samples, answered, k)
<1> DEFINE M(i) == Mark(samples, answered, i)
           P(i) == Chosen(samples, answered, i)
<1>1. \A i \in Int : M(i).x.num = i - 1
  BY DEF Mark, Whole
<1>2. /\ \A j \in DOMAIN points : \E i \in 1..(k - 1) : P(i) /\ points[j] = M(i)
      /\ \A i \in 1..(k - 1) : P(i) => \E j \in DOMAIN points : points[j] = M(i)
      /\ \A j \in 1..(Len(points) - 1) : points[j].x.num < points[j + 1].x.num
  BY DEF MarksOf
<1>3. CASE P(k)
  <2> DEFINE more == Append(points, M(k))
  <2> HIDE DEF M, P
  <2>1. /\ DOMAIN points = 1..Len(points) /\ Len(points) \in Nat
        /\ DOMAIN more = 1..(Len(points) + 1) /\ Len(more) = Len(points) + 1
        /\ \A j \in 1..Len(points) : more[j] = points[j]
        /\ more[Len(points) + 1] = M(k)
    OBVIOUS
  <2> HIDE DEF more
  <2>2. ASSUME NEW j \in DOMAIN more PROVE \E i \in 1..k : P(i) /\ more[j] = M(i)
    <3>1. CASE j \in 1..Len(points)
      <4>1. PICK i \in 1..(k - 1) : P(i) /\ points[j] = M(i)
        BY <1>2, <2>1, <3>1
      <4>2. i \in 1..k /\ more[j] = M(i)
        BY <2>1, <3>1, <4>1
      <4>3. QED BY <4>1, <4>2
    <3>2. CASE j = Len(points) + 1
      BY <1>3, <2>1, <3>2
    <3>3. QED BY <2>1, <3>1, <3>2
  <2>3. ASSUME NEW i \in 1..k, P(i) PROVE \E j \in DOMAIN more : more[j] = M(i)
    <3>1. CASE i = k
      <4>1. Len(points) + 1 \in DOMAIN more
        BY <2>1
      <4>2. QED BY <2>1, <3>1, <4>1
    <3>2. CASE i # k
      <4>1. PICK j \in DOMAIN points : points[j] = M(i)
        BY <1>2, <2>3, <3>2
      <4>2. j \in DOMAIN more /\ more[j] = M(i)
        BY <2>1, <4>1
      <4>3. QED BY <4>2
    <3>3. QED BY <3>1, <3>2
  <2>4. ASSUME NEW j \in 1..(Len(more) - 1) PROVE more[j].x.num < more[j + 1].x.num
    <3>1. CASE j = Len(points)
      <4>1. PICK i \in 1..(k - 1) : points[j] = M(i)
        BY <1>2, <2>1, <2>4, <3>1
      <4>2. more[j] = M(i) /\ more[j + 1] = M(k)
        BY <2>1, <2>4, <3>1, <4>1
      <4>3. QED BY <1>1, <4>1, <4>2
    <3>2. CASE j # Len(points)
      <4>1. Len(points) \in Nat /\ Len(more) - 1 = Len(points)
        BY <2>1
      <4>2. j \in 1..(Len(points) - 1) /\ j \in 1..Len(points) /\ j + 1 \in 1..Len(points)
        BY <3>2, <4>1
      <4>3. QED BY <1>2, <2>1, <4>2
    <3>3. QED BY <3>1, <3>2
  <2>5. MarksOf(more, samples, answered, k)
    BY <2>2, <2>3, <2>4 DEF MarksOf, M, P
  <2>6. QED BY <1>3, <2>5 DEF M, P, more
<1>4. CASE ~P(k)
  <2>1. \A j \in DOMAIN points : \E i \in 1..k : P(i) /\ points[j] = M(i)
    <3> HIDE DEF M, P
    <3>1. 1..(k - 1) \subseteq 1..k
      OBVIOUS
    <3>2. QED BY <1>2, <3>1
  <2>2. \A i \in 1..k : P(i) => \E j \in DOMAIN points : points[j] = M(i)
    <3> HIDE DEF M, P
    <3>1. \A i \in 1..k : P(i) => i \in 1..(k - 1)
      BY <1>4
    <3>2. QED BY <1>2, <3>1
  <2>3. MarksOf(points, samples, answered, k)
    BY <1>2, <2>1, <2>2 DEF MarksOf
  <2>4. QED BY <1>4, <2>3
<1>5. QED BY <1>3, <1>4

\* Each sequence has the marks of the samples so far.
LEMMA MarkedPoints ==
  ASSUME NEW samples \in Seq(ProbeResult), NEW answered \in BOOLEAN, NEW upTo,
         MarksUpTo(upTo, samples, answered)
  PROVE  \A k \in 0..Len(samples) : MarksOf(upTo[k], samples, answered, k)
<1> DEFINE n == Len(samples)
           T == {k \in 0..n : MarksOf(upTo[k], samples, answered, k)}
<1>1. n \in Nat /\ 0 \in Nat /\ 1..n = (0 + 1)..n
  OBVIOUS
<1>2. 0 \in T
  <2>1. MarksOf(<<>>, samples, answered, 0)
    BY DEF MarksOf
  <2>2. QED BY <1>1, <2>1 DEF MarksUpTo
<1>3. ASSUME NEW k \in 1..n, k - 1 \in T
      PROVE  k \in T
  <2>1. /\ k \in Nat \ {0}
        /\ k - 1 \in 0..n
        /\ upTo[k - 1] \in Seq(Point)
    BY <1>1 DEF MarksUpTo
  <2>2. upTo[k] = IF Chosen(samples, answered, k)
                  THEN Append(upTo[k - 1], Mark(samples, answered, k)) ELSE upTo[k - 1]
    BY <1>1 DEF MarksUpTo, Chosen, Mark
  <2>3. MarksOf(upTo[k - 1], samples, answered, k - 1)
    BY <1>3
  <2>4. MarksOf(upTo[k], samples, answered, k)
    BY <2>1, <2>2, <2>3, MarksGrow
  <2>5. QED BY <1>1, <2>4
<1>4. 0..n \subseteq T
  <2> HIDE DEF n, T
  <2>1. QED BY <1>1, <1>2, <1>3, Climb
<1>5. QED BY <1>4

\* Answered and lost samples together are all samples.
LEMMA MarkedCount ==
  ASSUME NEW samples \in Seq(ProbeResult), NEW d, NEW l,
         MarksUpTo(d, samples, TRUE), MarksUpTo(l, samples, FALSE)
  PROVE  \A k \in 0..Len(samples) : Len(d[k]) + Len(l[k]) = k
<1> DEFINE n == Len(samples)
           T == {k \in 0..n : Len(d[k]) + Len(l[k]) = k}
<1>1. n \in Nat /\ 0 \in Nat /\ 1..n = (0 + 1)..n
  OBVIOUS
<1>2. 0 \in T
  BY <1>1 DEF MarksUpTo
<1>3. ASSUME NEW k \in 1..n, k - 1 \in T
      PROVE  k \in T
  <2>1. /\ k - 1 \in 0..n
        /\ d[k - 1] \in Seq(Point) /\ l[k - 1] \in Seq(Point)
        /\ Len(d[k - 1]) + Len(l[k - 1]) = k - 1
    BY <1>1, <1>3 DEF MarksUpTo
  <2>2. CASE samples[k].rtt # None
    <3>1. l[k] = l[k - 1]
      BY <2>2 DEF MarksUpTo
    <3>2. \E p : d[k] = Append(d[k - 1], p)
      BY <2>2 DEF MarksUpTo
    <3>3. Len(d[k]) = Len(d[k - 1]) + 1
      BY <2>1, <3>2
    <3>4. k \in 0..n
      BY <1>1
    <3> HIDE DEF n
    <3>5. Len(d[k]) + Len(l[k]) = k
      <4> DEFINE a == Len(d[k - 1])
                 b == Len(l[k - 1])
      <4>1. a \in Nat /\ b \in Nat
        BY <2>1
      <4>2. a + b = k - 1
        BY <2>1
      <4>3. Len(d[k]) = a + 1 /\ Len(l[k]) = b
        BY <3>1, <3>3
      <4> HIDE DEF a, b
      <4>4. QED BY <1>1, <3>4, <4>1, <4>2, <4>3
    <3>6. QED BY <3>4, <3>5
  <2>3. CASE samples[k].rtt = None
    <3>1. d[k] = d[k - 1]
      BY <2>3 DEF MarksUpTo
    <3>2. \E p : l[k] = Append(l[k - 1], p)
      BY <2>3 DEF MarksUpTo
    <3>3. Len(l[k]) = Len(l[k - 1]) + 1
      BY <2>1, <3>2
    <3>4. k \in 0..n
      BY <1>1
    <3> HIDE DEF n
    <3>5. Len(d[k]) + Len(l[k]) = k
      <4> DEFINE a == Len(d[k - 1])
                 b == Len(l[k - 1])
      <4>1. a \in Nat /\ b \in Nat
        BY <2>1
      <4>2. a + b = k - 1
        BY <2>1
      <4>3. Len(l[k]) = b + 1 /\ Len(d[k]) = a
        BY <3>1, <3>3
      <4> HIDE DEF a, b
      <4>4. QED BY <1>1, <3>4, <4>1, <4>2, <4>3
    <3>6. QED BY <3>4, <3>5
  <2>4. QED BY <2>2, <2>3
<1>4. 0..n \subseteq T
  <2> HIDE DEF n, T
  <2>1. QED BY <1>1, <1>2, <1>3, Climb
<1>5. QED BY <1>4

\* What Marked makes of the samples.
LEMMA MarkedSound ==
  ASSUME NEW samples \in Seq(ProbeResult)
  PROVE  /\ \A answered \in BOOLEAN :
              /\ Marked(samples, answered) \in Seq(Point)
              /\ MarksOf(Marked(samples, answered), samples, answered, Len(samples))
         /\ Len(Marked(samples, TRUE)) + Len(Marked(samples, FALSE)) = Len(samples)
<1> DEFINE n == Len(samples)
<1>1. n \in Nat /\ n \in 0..n
  OBVIOUS
<1>2. ASSUME NEW answered \in BOOLEAN
      PROVE  /\ Marked(samples, answered) \in Seq(Point)
             /\ MarksOf(Marked(samples, answered), samples, answered, n)
  <2>1. PICK upTo : MarksUpTo(upTo, samples, answered) /\ Marked(samples, answered) = upTo[n]
    BY MarkedEquation
  <2>2. upTo[n] \in Seq(Point)
    BY <1>1, <2>1 DEF MarksUpTo
  <2>3. MarksOf(upTo[n], samples, answered, n)
    BY <1>1, <2>1, MarkedPoints
  <2>4. QED BY <2>1, <2>2, <2>3
<1>3. Len(Marked(samples, TRUE)) + Len(Marked(samples, FALSE)) = n
  <2>1. PICK d : MarksUpTo(d, samples, TRUE) /\ Marked(samples, TRUE) = d[n]
    BY MarkedEquation
  <2>2. PICK l : MarksUpTo(l, samples, FALSE) /\ Marked(samples, FALSE) = l[n]
    BY MarkedEquation
  <2>3. Len(d[n]) + Len(l[n]) = n
    BY <1>1, <2>1, <2>2, MarkedCount
  <2>4. QED BY <2>1, <2>2, <2>3
<1>4. QED BY <1>2, <1>3

\* A sample is on the line or marked as lost, and never both.
LEMMA SampleShown ==
  ASSUME NEW samples \in Seq(ProbeResult), NEW data \in Seq(Point), NEW loss \in Seq(Point),
         MarksOf(data, samples, TRUE, Len(samples)), MarksOf(loss, samples, FALSE, Len(samples)),
         NEW k \in DOMAIN samples
  PROVE  [x |-> Whole(k - 1), y |-> samples[k].rtt] \in ToSet(data)
           <=> [x |-> Whole(k - 1), y |-> 0] \notin ToSet(loss)
<1> DEFINE n == Len(samples)
<1>1. k \in 1..n /\ n \in Nat
  OBVIOUS
<1>2. \A i \in 1..n : Whole(i - 1) = Whole(k - 1) => i = k
  <2>1. \A i \in 1..n : Whole(i - 1).num = i - 1
    BY DEF Whole
  <2> HIDE DEF n
  <2>2. QED BY <1>1, <2>1
<1>3. CASE samples[k].rtt # None
  <2>1. Chosen(samples, TRUE, k) /\ Mark(samples, TRUE, k) = [x |-> Whole(k - 1), y |-> samples[k].rtt]
    BY <1>3 DEF Chosen, Mark
  <2>2. [x |-> Whole(k - 1), y |-> samples[k].rtt] \in ToSet(data)
    <3>1. PICK j \in DOMAIN data : data[j] = Mark(samples, TRUE, k)
      BY <1>1, <2>1 DEF MarksOf
    <3>2. QED BY <2>1, <3>1 DEF ToSet
  <2>3. ASSUME [x |-> Whole(k - 1), y |-> 0] \in ToSet(loss) PROVE FALSE
    <3>1. PICK j \in DOMAIN loss : loss[j] = [x |-> Whole(k - 1), y |-> 0]
      BY <2>3 DEF ToSet
    <3>2. PICK i \in 1..n : Chosen(samples, FALSE, i) /\ loss[j] = Mark(samples, FALSE, i)
      BY DEF MarksOf
    <3>3. Whole(i - 1) = Whole(k - 1)
      BY <3>1, <3>2 DEF Mark
    <3>4. i = k
      BY <1>2, <3>3
    <3>5. QED BY <1>3, <3>2, <3>4 DEF Chosen
  <2>4. QED BY <2>2, <2>3
<1>4. CASE samples[k].rtt = None
  <2>1. Chosen(samples, FALSE, k) /\ Mark(samples, FALSE, k) = [x |-> Whole(k - 1), y |-> 0]
    BY <1>4 DEF Chosen, Mark
  <2>2. [x |-> Whole(k - 1), y |-> 0] \in ToSet(loss)
    <3>1. PICK j \in DOMAIN loss : loss[j] = Mark(samples, FALSE, k)
      BY <1>1, <2>1 DEF MarksOf
    <3>2. QED BY <2>1, <3>1 DEF ToSet
  <2>3. ASSUME [x |-> Whole(k - 1), y |-> samples[k].rtt] \in ToSet(data) PROVE FALSE
    <3>1. PICK j \in DOMAIN data : data[j] = [x |-> Whole(k - 1), y |-> samples[k].rtt]
      BY <2>3 DEF ToSet
    <3>2. PICK i \in 1..n : Chosen(samples, TRUE, i) /\ data[j] = Mark(samples, TRUE, i)
      BY DEF MarksOf
    <3>3. Whole(i - 1) = Whole(k - 1)
      BY <3>1, <3>2 DEF Mark
    <3>4. i = k
      BY <1>2, <3>3
    <3>5. QED BY <1>4, <3>2, <3>4 DEF Chosen
  <2>4. QED BY <2>2, <2>3
<1>5. QED BY <1>3, <1>4

\* The points lie at whole places, each after the one before.
Ordered(data) ==
  /\ data \in Seq(Point)
  /\ \A j \in DOMAIN data : data[j].x.num \in Nat /\ data[j].x = Whole(data[j].x.num)
  /\ \A j \in 1..(Len(data) - 1) : data[j].x.num < data[j + 1].x.num

\* Marks of samples are ordered.
LEMMA MarksOrdered ==
  ASSUME NEW points \in Seq(Point), NEW samples, NEW answered, NEW n \in Nat,
         MarksOf(points, samples, answered, n)
  PROVE  Ordered(points)
<1>1. ASSUME NEW j \in DOMAIN points
      PROVE  points[j].x.num \in Nat /\ points[j].x = Whole(points[j].x.num)
  <2>1. PICK i \in 1..n : points[j] = Mark(samples, answered, i)
    BY DEF MarksOf
  <2>2. points[j].x = Whole(i - 1) /\ Whole(i - 1).num = i - 1
    BY <2>1 DEF Mark, Whole
  <2>3. QED BY <2>2
<1>2. QED BY <1>1 DEF Ordered, MarksOf

\* One of the first points is the highest of them.
LEMMA HighestExists ==
  ASSUME NEW data \in Seq(Point), data # <<>>
  PROVE  \E y \in Heights(data) : \A z \in Heights(data) : y >= z
<1> DEFINE n == Len(data)
           T == {k \in 1..n : \E j \in 1..k : \A i \in 1..k : data[i].y <= data[j].y}
<1>1. n \in Nat /\ 1 \in Nat /\ 1 \in 1..n /\ n \in 1..n /\ 2..n = (1 + 1)..n /\ DOMAIN data = 1..n
  OBVIOUS
<1>2. \A k \in 1..n : data[k].y \in Nat
  <2>1. \A k \in 1..n : data[k] \in Point
    OBVIOUS
  <2>2. QED BY <2>1 DEF Point
<1> HIDE DEF n
<1>3. 1 \in T
  BY <1>1, <1>2
<1>4. ASSUME NEW k \in 2..n, k - 1 \in T PROVE k \in T
  <2>1. PICK j \in 1..(k - 1) : \A i \in 1..(k - 1) : data[i].y <= data[j].y
    BY <1>4
  <2>2. k \in 1..n /\ j \in 1..n /\ 1..k \subseteq 1..n
    BY <1>1
  <2>3. CASE data[k].y <= data[j].y
    <3>1. \A i \in 1..k : data[i].y <= data[j].y
      BY <1>1, <2>1, <2>3
    <3>2. j \in 1..k
      BY <1>1
    <3>3. QED BY <2>2, <3>1, <3>2
  <2>4. CASE ~(data[k].y <= data[j].y)
    <3>1. \A i \in 1..k : data[i].y <= data[k].y
      <4>1. SUFFICES ASSUME NEW i \in 1..k PROVE data[i].y <= data[k].y
        OBVIOUS
      <4>2. data[i].y \in Nat /\ data[j].y \in Nat /\ data[k].y \in Nat
        BY <1>2, <2>2
      <4>3. CASE i = k
        BY <4>2, <4>3
      <4>4. CASE i # k
        <5>1. i \in 1..(k - 1)
          BY <1>1, <4>4
        <5>2. QED BY <2>1, <2>4, <4>2, <5>1
      <4>5. QED BY <4>3, <4>4
    <3>2. k \in 1..k
      BY <1>1
    <3>3. QED BY <2>2, <3>1, <3>2
  <2>5. QED BY <2>3, <2>4
<1>5. n \in T
  <2> HIDE DEF T
  <2>1. 1..n \subseteq T
    BY <1>1, <1>3, <1>4, Climb
  <2>2. QED BY <1>1, <2>1
<1>6. PICK j \in 1..n : \A i \in 1..n : data[i].y <= data[j].y
  BY <1>5
<1>7. \A i \in 1..n : data[j].y >= data[i].y
  BY <1>2, <1>6
<1>8. QED BY <1>1, <1>7 DEF Heights

\* The axis has a height and the points lie on it.
LEMMA BoundsHold ==
  ASSUME NEW data \in Seq(Point)
  PROVE  /\ YBounds(data).lo < YBounds(data).hi
         /\ \A y \in Heights(data) : YBounds(data).lo <= 10 * y /\ 10 * y <= YBounds(data).hi
<1>1. CASE data = <<>>
  BY <1>1 DEF YBounds, Heights
<1>2. CASE data # <<>>
  <2> DEFINE min == CHOOSE y \in Heights(data) : \A z \in Heights(data) : y <= z
             max == CHOOSE y \in Heights(data) : \A z \in Heights(data) : y >= z
             padding == IF max # min THEN max - min ELSE IF min > 1 THEN min ELSE 1
             lo == IF 10 * min > padding THEN 10 * min - padding ELSE 0
             hi == 10 * max + padding
  <2>1. Heights(data) \in SUBSET Nat /\ Heights(data) # {}
    <3>1. \A k \in DOMAIN data : data[k] \in Point
      OBVIOUS
    <3>2. 1 \in DOMAIN data
      BY <1>2
    <3>3. QED BY <3>1, <3>2 DEF Heights, Point
  <2>2. min \in Heights(data) /\ \A z \in Heights(data) : min <= z
    <3>1. \E y \in Heights(data) : \A z \in Heights(data) : y <= z
      BY <2>1, LeastExists
    <3>2. QED BY <3>1
  <2>3. max \in Heights(data) /\ \A z \in Heights(data) : max >= z
    <3>1. \E y \in Heights(data) : \A z \in Heights(data) : y >= z
      BY <1>2, HighestExists
    <3>2. QED BY <3>1
  <2>4. YBounds(data) = [lo |-> lo, hi |-> hi]
    BY <1>2 DEF YBounds
  <2> HIDE DEF min, max
  <2>5. min \in Nat /\ max \in Nat /\ min <= max
    BY <2>1, <2>2, <2>3
  <2>6. /\ padding \in Nat \ {0}
        /\ lo \in Nat /\ lo <= 10 * min
        /\ hi \in Nat /\ 10 * max < hi
    BY <2>5
  <2> HIDE DEF padding, lo, hi
  <2>7. lo < hi
    BY <2>5, <2>6
  <2>8. ASSUME NEW y \in Heights(data) PROVE lo <= 10 * y /\ 10 * y <= hi
    <3>1. y \in Nat /\ min <= y /\ y <= max
      BY <2>1, <2>2, <2>3, <2>5
    <3>2. QED BY <2>5, <2>6, <3>1
  <2>9. QED BY <2>4, <2>7, <2>8
<1>3. QED BY <1>1, <1>2

-----------------------------------------------------------------------------
(* The cuts of a segment.                                                  *)

\* Fractions are ordered as their values.
LEMMA ValueOrder ==
  ASSUME NEW f, NEW g, NEW n, NEW m, NEW d, Stands(f, n, d), Stands(g, m, d), n <= m
  PROVE  Leq(f, g)
<1>1. /\ f.num \in Int /\ f.den \in Nat \ {0} /\ n \in Int /\ d \in Nat \ {0}
      /\ g.num \in Int /\ g.den \in Nat \ {0} /\ m \in Int
      /\ f.num * d = n * f.den /\ g.num * d = m * g.den
  BY FractionParts DEF Stands
<1> DEFINE w == f.den * g.den
<1>2. w \in Nat
  BY <1>1, Positive
<1>3. (f.num * g.den) * d = n * w
  <2>1. (f.num * g.den) * d = (f.num * d) * g.den
    BY <1>1
  <2>2. (n * f.den) * g.den = n * w
    BY <1>1
  <2>3. QED BY <1>1, <2>1, <2>2
<1>4. (g.num * f.den) * d = m * w
  <2>1. (g.num * f.den) * d = (g.num * d) * f.den
    BY <1>1
  <2>2. (m * g.den) * f.den = m * w
    BY <1>1
  <2>3. QED BY <1>1, <2>1, <2>2
<1>5. n * w <= m * w
  <2> HIDE DEF w
  <2>1. QED BY <1>1, <1>2, Enlarge
<1>6. f.num * g.den \in Int /\ g.num * f.den \in Int
  BY <1>1
<1>7. (f.num * g.den) * d <= (g.num * f.den) * d
  BY <1>3, <1>4, <1>5
<1>8. f.num * g.den <= g.num * f.den
  BY <1>1, <1>6, <1>7, CancelFactor
<1>9. QED BY <1>8 DEF Leq

\* A product is in lowest terms.
LEMMA ProductLowest ==
  ASSUME NEW p \in Fraction, NEW q \in Fraction
  PROVE  Lowest(Times(p, q))
<1>1. p.num \in Int /\ q.num \in Int /\ p.den \in Nat \ {0} /\ q.den \in Nat \ {0}
  BY FractionParts
<1>2. p.den * q.den \in Nat \ {0} /\ p.num * q.num \in Int
  BY <1>1, Positive
<1>3. QED BY <1>2 DEF Lowest, Times

\* A segment from one place to a later one.
Segment(p, q, a, b) ==
  /\ p \in Point /\ q \in Point
  /\ a \in Nat /\ b \in Nat /\ a < b
  /\ p.x = Whole(a) /\ q.x = Whole(b)

\* How far up the segment a height is, and how far it goes.
Rise(limit, p) == Abs(limit - p.y)

\* The place of a cut, as a fraction of the height the segment goes.
LEMMA CutPlace ==
  ASSUME NEW p, NEW q, NEW a, NEW b, Segment(p, q, a, b), NEW limit \in Nat, StrictlyBetween(limit, p, q)
  PROVE  /\ Rise(limit, p) \in Nat \ {0} /\ Rise(q.y, p) \in Nat \ {0}
         /\ Rise(limit, p) <= Rise(q.y, p)
         /\ Stands(CrossingAt(limit, p, q).x,
                   a * Rise(q.y, p) + (b - a) * Rise(limit, p), Rise(q.y, p))
         /\ CrossingAt(limit, p, q).y = limit
<1> DEFINE N == Rise(limit, p)
           D == Rise(q.y, p)
           w == b - a
<1>1. p.y \in Nat /\ q.y \in Nat /\ a \in Nat /\ b \in Nat /\ a < b
  BY DEF Segment, Point
<1>2. N \in Nat \ {0} /\ D \in Nat \ {0} /\ N <= D
  BY <1>1 DEF StrictlyBetween, Rise, Abs
<1>3. w \in Nat
  BY <1>1
<1>4. CrossingAt(limit, p, q) =
        [x |-> Plus(Whole(a), Times(Minus(Whole(b), Whole(a)), Ratio(N, D))), y |-> limit]
  BY DEF CrossingAt, Segment, Rise
<1> HIDE DEF N, D
<1>5. Stands(Minus(Whole(b), Whole(a)), w, 1)
  <2>1. Stands(Whole(a), a, 1) /\ Stands(Whole(b), b, 1)
    BY <1>1, WholeStands
  <2>2. Stands(Minus(Whole(b), Whole(a)), b * 1 - a * 1, 1 * 1)
    BY <2>1, SumStands
  <2>3. b * 1 - a * 1 = w /\ 1 * 1 = 1
    BY <1>1
  <2>4. QED BY <2>2, <2>3
<1> HIDE DEF w
<1>6. Stands(Times(Minus(Whole(b), Whole(a)), Ratio(N, D)), w * N, D)
  <2>1. Stands(Ratio(N, D), N, D)
    BY <1>2, RatioStands
  <2>2. Stands(Times(Minus(Whole(b), Whole(a)), Ratio(N, D)), w * N, 1 * D)
    BY <1>5, <2>1, SumStands
  <2>3. 1 * D = D
    BY <1>2
  <2>4. QED BY <2>2, <2>3
<1>7. Stands(CrossingAt(limit, p, q).x, a * D + w * N, D)
  <2>1. Stands(Whole(a), a, 1)
    BY <1>1, WholeStands
  <2>2. Stands(CrossingAt(limit, p, q).x, a * D + (w * N) * 1, 1 * D)
    BY <1>4, <1>6, <2>1, SumStands
  <2>3. (w * N) * 1 = w * N /\ 1 * D = D
    BY <1>2, <1>3
  <2>4. QED BY <2>2, <2>3
<1>8. QED BY <1>2, <1>4, <1>7 DEF N, D, w

\* A cut lies between the ends of its segment, and on the straight line.
LEMMA CutOnChord ==
  ASSUME NEW p, NEW q, NEW a, NEW b, Segment(p, q, a, b), NEW limit \in Nat, StrictlyBetween(limit, p, q)
  PROVE  CrossingAt(limit, p, q) \in Point /\ OnChord(CrossingAt(limit, p, q), p, q)
<1> DEFINE N == Rise(limit, p)
           D == Rise(q.y, p)
           w == b - a
           c == CrossingAt(limit, p, q)
           top == a * D + w * N
<1>1. /\ N \in Nat \ {0} /\ D \in Nat \ {0} /\ N <= D
      /\ Stands(c.x, top, D) /\ c.y = limit
  BY CutPlace
<1>2. p.y \in Nat /\ q.y \in Nat /\ a \in Nat /\ b \in Nat /\ w \in Nat
  BY DEF Segment, Point
<1>3. c \in Point
  <2>1. c.x \in Fraction /\ c = [x |-> c.x, y |-> c.y]
    BY <1>1, StandsType DEF CrossingAt
  <2> HIDE DEF c
  <2>2. QED BY <1>1, <2>1 DEF Point
<1>4. N * (q.y - p.y) = (limit - p.y) * D
  BY <1>2 DEF StrictlyBetween, Rise, Abs
<1>5. b = a + w
  BY <1>2
<1> HIDE DEF N, D, w, c
<1>6. Leq(p.x, c.x)
  <2>1. a * D <= top
    BY <1>1, <1>2, ProductSign
  <2>2. p.x = Whole(a)
    BY DEF Segment
  <2> HIDE DEF top
  <2>3. QED BY <1>1, <1>2, <2>1, <2>2, ValueBounds
<1>7. Leq(c.x, q.x)
  <2>1. N * w <= D * w
    BY <1>1, <1>2, Enlarge
  <2>2. top <= (a + w) * D
    BY <1>1, <1>2, <2>1
  <2>3. q.x = Whole(b)
    BY DEF Segment
  <2> HIDE DEF top
  <2>4. QED BY <1>1, <1>2, <1>5, <2>2, <2>3, ValueBounds
<1>8. Stands(Minus(c.x, Whole(a)), w * N, D)
  <2>1. Stands(Whole(a), a, 1)
    BY <1>2, WholeStands
  <2>2. Stands(Minus(c.x, Whole(a)), top * 1 - a * D, D * 1)
    <3> HIDE DEF top
    <3>1. QED BY <1>1, <2>1, SumStands
  <2>3. top * 1 - a * D = w * N /\ D * 1 = D
    BY <1>1, <1>2
  <2>4. QED BY <2>2, <2>3
<1> DEFINE left == Times(Minus(c.x, Whole(a)), Whole(q.y - p.y))
           right == Times(Whole(limit - p.y), Minus(Whole(b), Whole(a)))
<1>9. q.y - p.y \in Int /\ limit - p.y \in Int
  BY <1>2
<1>10. Stands(left, (w * N) * (q.y - p.y), D)
  <2>1. Stands(Whole(q.y - p.y), q.y - p.y, 1)
    BY <1>9, WholeStands
  <2>2. Stands(left, (w * N) * (q.y - p.y), D * 1)
    BY <1>8, <2>1, SumStands
  <2>3. D * 1 = D
    BY <1>1
  <2>4. QED BY <2>2, <2>3
<1>11. Stands(right, (limit - p.y) * w, 1)
  <2>1. Stands(Whole(a), a, 1) /\ Stands(Whole(b), b, 1)
    BY <1>2, WholeStands
  <2>2. Stands(Minus(Whole(b), Whole(a)), b * 1 - a * 1, 1 * 1)
    BY <2>1, SumStands
  <2>3. b * 1 - a * 1 = w /\ 1 * 1 = 1
    BY <1>2, <1>5
  <2>4. Stands(Whole(limit - p.y), limit - p.y, 1)
    BY <1>9, WholeStands
  <2>5. Stands(right, (limit - p.y) * w, 1 * 1)
    BY <2>2, <2>3, <2>4, SumStands
  <2>6. QED BY <2>3, <2>5
<1>12. Stands(left, (limit - p.y) * w, 1)
  <2> DEFINE u == q.y - p.y
             v == limit - p.y
  <2>1. u \in Int /\ v \in Int /\ N * u = v * D
    BY <1>4, <1>9
  <2>2. Stands(left, (w * N) * u, D)
    BY <1>10
  <2> HIDE DEF u, v, left
  <2>3. ((w * N) * u) * 1 = (v * w) * D
    <3>1. ((w * N) * u) * 1 = w * (N * u) /\ (v * w) * D = w * (v * D)
      BY <1>1, <1>2, <2>1
    <3>2. QED BY <2>1, <3>1
  <2>4. v * w \in Int /\ 1 \in Nat \ {0}
    BY <1>2, <2>1
  <2>5. Stands(left, v * w, 1)
    BY <2>2, <2>3, <2>4, Rescale
  <2>6. QED BY <2>5 DEF v
<1>13. left = right
  <2>1. /\ Minus(c.x, Whole(a)) \in Fraction /\ Whole(q.y - p.y) \in Fraction
        /\ Whole(limit - p.y) \in Fraction
    BY <1>8, <1>9, StandsType DEF Whole, Fraction
  <2>2. Minus(Whole(b), Whole(a)) \in Fraction
    <3>1. Stands(Whole(a), a, 1) /\ Stands(Whole(b), b, 1)
      BY <1>2, WholeStands
    <3>2. QED BY <3>1, SumStands, StandsType
  <2>3. Lowest(left) /\ Lowest(right)
    BY <2>1, <2>2, ProductLowest
  <2> HIDE DEF left, right
  <2>4. QED BY <1>11, <1>12, <2>3, LowestUnique
<1>14. QED
  <2>1. p.x = Whole(a) /\ q.x = Whole(b)
    BY DEF Segment
  <2>2. OnChord(c, p, q)
    BY <1>1, <1>6, <1>7, <1>13, <2>1 DEF OnChord
  <2>3. QED BY <1>3, <2>2 DEF c

\* Of two cuts of a segment the one nearer to the start's height comes first.
LEMMA CutsInOrder ==
  ASSUME NEW p, NEW q, NEW a, NEW b, Segment(p, q, a, b),
         NEW l \in Nat, StrictlyBetween(l, p, q), NEW m \in Nat, StrictlyBetween(m, p, q),
         Rise(l, p) <= Rise(m, p)
  PROVE  Leq(CrossingAt(l, p, q).x, CrossingAt(m, p, q).x)
<1> DEFINE N == Rise(l, p)
           M == Rise(m, p)
           D == Rise(q.y, p)
           w == b - a
<1>1. /\ N \in Nat \ {0} /\ M \in Nat \ {0} /\ D \in Nat \ {0} /\ N <= M
      /\ Stands(CrossingAt(l, p, q).x, a * D + w * N, D)
      /\ Stands(CrossingAt(m, p, q).x, a * D + w * M, D)
  BY CutPlace
<1>2. a \in Nat /\ w \in Nat
  BY DEF Segment
<1> HIDE DEF N, M, D, w
<1>3. a * D + w * N <= a * D + w * M
  <2>1. N * w <= M * w
    BY <1>1, <1>2, Enlarge
  <2>2. QED BY <1>1, <1>2, <2>1
<1>4. QED BY <1>1, <1>3, ValueOrder

\* What StretchInZone says of a stretch but for its zone.
Stretch(p, q) ==
  /\ p \in Point /\ q \in Point
  /\ Leq(p.x, q.x)
  /\ p = q => RttWarn = RttCrit
  /\ \A limit \in {RttWarn, RttCrit} : ~StrictlyBetween(limit, p, q)

\* Neighbouring points bound stretches.
Stretches(s) == \A j \in 1..(Len(s) - 1) : Stretch(s[j], s[j + 1])

\* A cut of a segment at a threshold.
CutOf(c, p, q) == c \in Point /\ c.y \in {RttWarn, RttCrit} /\ OnChord(c, p, q)

\* The cuts of a segment, case by case.
LEMMA CutsForm ==
  ASSUME NEW p, NEW q
  PROVE  LET W == StrictlyBetween(RttWarn, p, q)
             C == StrictlyBetween(RttCrit, p, q)
             w == CrossingAt(RttWarn, p, q)
             c == CrossingAt(RttCrit, p, q)
         IN  CrossingPoints(p, q) = IF W THEN IF C THEN IF q.y < p.y THEN <<c, w>> ELSE <<w, c>>
                                                   ELSE <<w>>
                                         ELSE IF C THEN <<c>> ELSE <<>>
<1> DEFINE W == StrictlyBetween(RttWarn, p, q)
           C == StrictlyBetween(RttCrit, p, q)
           w == CrossingAt(RttWarn, p, q)
           c == CrossingAt(RttCrit, p, q)
           cuts == CutsAt(RttWarn, p, q) \o CutsAt(RttCrit, p, q)
<1>1. CrossingPoints(p, q) = IF q.y < p.y THEN Reverse(cuts) ELSE cuts
  BY DEF CrossingPoints
<1>2. /\ CutsAt(RttWarn, p, q) = IF W THEN <<w>> ELSE <<>>
      /\ CutsAt(RttCrit, p, q) = IF C THEN <<c>> ELSE <<>>
  BY DEF CutsAt
<1>3. /\ \A u, v : <<u>> \o <<v>> = <<u, v>> /\ <<u>> \o <<>> = <<u>> /\ <<>> \o <<v>> = <<v>>
      /\ <<>> \o <<>> = <<>>
  <2>1. ASSUME NEW u, NEW v
        PROVE  <<u>> \o <<v>> = <<u, v>> /\ <<u>> \o <<>> = <<u>> /\ <<>> \o <<v>> = <<v>>
    <3>1. <<u>> \in Seq({u, v}) /\ <<v>> \in Seq({u, v})
      OBVIOUS
    <3>2. <<u>> \o <<v>> = <<u, v>>
      <4>1. /\ <<u>> \o <<v>> \in Seq({u, v}) /\ Len(<<u>> \o <<v>>) = 2
            /\ (<<u>> \o <<v>>)[1] = u /\ (<<u>> \o <<v>>)[2] = v
        BY <3>1, ConcatProperties
      <4>2. /\ <<u, v>> \in Seq({u, v}) /\ Len(<<u, v>>) = 2
            /\ <<u, v>>[1] = u /\ <<u, v>>[2] = v
        OBVIOUS
      <4>3. \A i \in 1..2 : (<<u>> \o <<v>>)[i] = <<u, v>>[i]
        <5>1. \A i \in 1..2 : i = 1 \/ i = 2
          OBVIOUS
        <5>2. QED BY <4>1, <4>2, <5>1
      <4>4. QED BY <4>1, <4>2, <4>3, SeqEqual
    <3>3. <<u>> \o <<>> = <<u>> /\ <<>> \o <<v>> = <<v>>
      BY <3>1, ConcatEmptySeq
    <3>4. QED BY <3>2, <3>3
  <2>2. <<>> \o <<>> = <<>>
    <3>1. <<>> \in Seq({1})
      OBVIOUS
    <3>2. QED BY <3>1, ConcatEmptySeq
  <2>3. QED BY <2>1, <2>2
<1>4. /\ \A u, v : Reverse(<<u, v>>) = <<v, u>> /\ Reverse(<<u>>) = <<u>>
      /\ Reverse(<<>>) = <<>>
  BY DEF Reverse
<1> HIDE DEF W, C, w, c, cuts
<1>5. cuts = IF W THEN IF C THEN <<w, c>> ELSE <<w>> ELSE IF C THEN <<c>> ELSE <<>>
  BY <1>2, <1>3 DEF cuts
<1>6. QED BY <1>1, <1>4, <1>5 DEF W, C, w, c

\* What the segment from p to q adds to the path.
Onward(p, q) == Append(CrossingPoints(p, q), q)

\* With the thresholds in order, the cuts part a segment into stretches.
LEMMA SegmentCut ==
  ASSUME RttWarn <= RttCrit, NEW p, NEW q, NEW a, NEW b, Segment(p, q, a, b)
  PROVE  /\ Onward(p, q) \in Seq(Point)
         /\ Len(Onward(p, q)) > 0 /\ Onward(p, q)[Len(Onward(p, q))] = q
         /\ \A j \in 1..(Len(Onward(p, q)) - 1) : CutOf(Onward(p, q)[j], p, q)
         /\ Stretch(p, Onward(p, q)[1]) /\ Stretches(Onward(p, q))
<1> DEFINE W == StrictlyBetween(RttWarn, p, q)
           C == StrictlyBetween(RttCrit, p, q)
           w == CrossingAt(RttWarn, p, q)
           c == CrossingAt(RttCrit, p, q)
           on == Onward(p, q)
           Good(s) == /\ s \in Seq(Point) /\ Len(s) > 0 /\ s[Len(s)] = q
                      /\ \A j \in 1..(Len(s) - 1) : CutOf(s[j], p, q)
                      /\ Stretch(p, s[1]) /\ Stretches(s)
<1>1. /\ p \in Point /\ q \in Point /\ p.y \in Nat /\ q.y \in Nat
      /\ RttWarn \in Nat /\ RttCrit \in Nat
  BY ThresholdAssumption DEF Segment, Point
<1>2. W => CutOf(w, p, q) /\ w.y = RttWarn
  BY <1>1, CutOnChord, CutPlace DEF CutOf
<1>3. C => CutOf(c, p, q) /\ c.y = RttCrit
  BY <1>1, CutOnChord, CutPlace DEF CutOf
<1>4. on = IF W THEN IF C THEN IF q.y < p.y THEN <<c, w, q>> ELSE <<w, c, q>>
                          ELSE <<w, q>>
                ELSE IF C THEN <<c, q>> ELSE <<q>>
  <2>1. CrossingPoints(p, q) = IF W THEN IF C THEN IF q.y < p.y THEN <<c, w>> ELSE <<w, c>>
                                                   ELSE <<w>>
                                         ELSE IF C THEN <<c>> ELSE <<>>
    BY CutsForm
  <2>2. on = Append(CrossingPoints(p, q), q)
    BY DEF Onward
  <2>3. \A u, v : /\ Append(<<u, v>>, q) = <<u, v, q>> /\ Append(<<u>>, q) = <<u, q>>
                  /\ Append(<<>>, q) = <<q>>
    <3>1. ASSUME NEW u, NEW v PROVE Append(<<u, v>>, q) = <<u, v, q>>
      <4> DEFINE s == Append(<<u, v>>, q)
                 t == <<u, v, q>>
      <4>1. /\ s \in Seq({u, v, q}) /\ Len(s) = 3
            /\ s[1] = u /\ s[2] = v /\ s[3] = q
        OBVIOUS
      <4>2. /\ t \in Seq({u, v, q}) /\ Len(t) = 3
            /\ t[1] = u /\ t[2] = v /\ t[3] = q
        OBVIOUS
      <4> HIDE DEF s, t
      <4>3. \A i \in 1..3 : i = 1 \/ i = 2 \/ i = 3
        OBVIOUS
      <4>4. s = t
        BY <4>1, <4>2, <4>3, SeqEqual
      <4>5. QED BY <4>4 DEF s, t
    <3>2. ASSUME NEW u PROVE Append(<<u>>, q) = <<u, q>>
      <4> DEFINE s == Append(<<u>>, q)
                 t == <<u, q>>
      <4>1. s \in Seq({u, q}) /\ Len(s) = 2 /\ s[1] = u /\ s[2] = q
        OBVIOUS
      <4>2. t \in Seq({u, q}) /\ Len(t) = 2 /\ t[1] = u /\ t[2] = q
        OBVIOUS
      <4> HIDE DEF s, t
      <4>3. \A i \in 1..2 : i = 1 \/ i = 2
        OBVIOUS
      <4>4. s = t
        BY <4>1, <4>2, <4>3, SeqEqual
      <4>5. QED BY <4>4 DEF s, t
    <3>3. Append(<<>>, q) = <<q>>
      OBVIOUS
    <3>4. QED BY <3>1, <3>2, <3>3, Zenon
  <2> HIDE DEF W, C, w, c, on
  <2>4. CASE W /\ C
    BY <2>1, <2>2, <2>3, <2>4
  <2>5. CASE ~(W /\ C)
    BY <2>1, <2>2, <2>3, <2>5
  <2>6. QED BY <2>4, <2>5
<1>5. \A u : CutOf(u, p, q) => u \in Point /\ Leq(p.x, u.x) /\ Leq(u.x, q.x)
  BY DEF CutOf, OnChord
<1>6. CASE ~W /\ ~C
  <2>1. Stretch(p, q)
    <3>1. Leq(p.x, q.x)
      BY DEF Segment, Leq, Whole
    <3>2. p # q
      BY DEF Segment, Whole
    <3>3. QED BY <1>1, <1>6, <3>1, <3>2 DEF Stretch
  <2>2. on = <<q>>
    BY <1>4, <1>6
  <2> HIDE DEF on
  <2>3. Good(<<q>>)
    BY <1>1, <2>1 DEF Stretches
  <2>4. QED BY <2>2, <2>3 DEF on
<1>7. ASSUME NEW l, CutOf(l, p, q), StrictlyBetween(l.y, p, q),
             \A limit \in {RttWarn, RttCrit} : StrictlyBetween(limit, p, q) => limit = l.y
      PROVE  Good(<<l, q>>)
  <2>1. l \in Point /\ l.y \in Nat
    BY <1>5, <1>7 DEF Point
  <2>2. Stretch(p, l) /\ Stretch(l, q)
    BY <1>1, <1>5, <1>7, <2>1 DEF Stretch, StrictlyBetween
  <2>3. Stretches(<<l, q>>)
    BY <2>2 DEF Stretches
  <2>4. \A j \in 1..(Len(<<l, q>>) - 1) : CutOf(<<l, q>>[j], p, q)
    BY <1>7
  <2>5. QED BY <1>1, <2>1, <2>2, <2>3, <2>4
<1>8. ASSUME NEW l, CutOf(l, p, q), StrictlyBetween(l.y, p, q),
             NEW m, CutOf(m, p, q), StrictlyBetween(m.y, p, q),
             {l.y, m.y} = {RttWarn, RttCrit}, Leq(l.x, m.x),
             Rise(l.y, p) <= Rise(m.y, p)
      PROVE  Good(<<l, m, q>>)
  <2>1. l \in Point /\ l.y \in Nat /\ m \in Point /\ m.y \in Nat
    BY <1>5, <1>8 DEF Point
  <2>2. \A limit \in {RttWarn, RttCrit} : limit = l.y \/ limit = m.y
    BY <1>8
  <2>3. /\ ~StrictlyBetween(l.y, p, l) /\ ~StrictlyBetween(m.y, p, l)
        /\ ~StrictlyBetween(l.y, l, m) /\ ~StrictlyBetween(m.y, l, m)
        /\ ~StrictlyBetween(l.y, m, q) /\ ~StrictlyBetween(m.y, m, q)
    BY <1>1, <1>8, <2>1 DEF StrictlyBetween, Rise, Abs
  <2>4. p # l /\ m # q
    BY <1>1, <1>8, <2>1 DEF StrictlyBetween
  <2>5. l = m => RttWarn = RttCrit
    BY <1>8
  <2>6. Leq(p.x, l.x) /\ Leq(m.x, q.x)
    BY <1>5, <1>8
  <2>7. Stretch(p, l) /\ Stretch(l, m) /\ Stretch(m, q)
    BY <1>1, <1>8, <2>1, <2>2, <2>3, <2>4, <2>5, <2>6 DEF Stretch
  <2>8. Stretches(<<l, m, q>>)
    BY <2>7 DEF Stretches
  <2>9. \A j \in 1..(Len(<<l, m, q>>) - 1) : CutOf(<<l, m, q>>[j], p, q)
    BY <1>8
  <2>10. QED BY <1>1, <2>1, <2>7, <2>8, <2>9
<1>9. CASE W /\ ~C
  <2>1. Good(<<w, q>>)
    BY <1>2, <1>7, <1>9
  <2>2. QED BY <1>4, <1>9, <2>1
<1>10. CASE ~W /\ C
  <2>1. Good(<<c, q>>)
    BY <1>3, <1>7, <1>10
  <2>2. QED BY <1>4, <1>10, <2>1
<1>11. CASE W /\ C /\ q.y < p.y
  <2>1. Rise(RttCrit, p) <= Rise(RttWarn, p)
    BY <1>1, <1>11 DEF StrictlyBetween, Rise, Abs
  <2>2. Leq(c.x, w.x)
    BY <1>1, <1>11, <2>1, CutsInOrder
  <2>3. Good(<<c, w, q>>)
    BY <1>2, <1>3, <1>8, <1>11, <2>1, <2>2
  <2>4. QED BY <1>4, <1>11, <2>3
<1>12. CASE W /\ C /\ ~(q.y < p.y)
  <2>1. Rise(RttWarn, p) <= Rise(RttCrit, p)
    BY <1>1, <1>12 DEF StrictlyBetween, Rise, Abs
  <2>2. Leq(w.x, c.x)
    BY <1>1, <1>12, <2>1, CutsInOrder
  <2>3. Good(<<w, c, q>>)
    BY <1>2, <1>3, <1>8, <1>12, <2>1, <2>2
  <2>4. QED BY <1>4, <1>12, <2>3
<1>13. QED BY <1>6, <1>9, <1>10, <1>11, <1>12

-----------------------------------------------------------------------------
(* The path through the data.                                              *)

\* The paths up to each datum.
PathUpTo(upTo, data) ==
  /\ upTo \in [1..Len(data) -> Seq(Point)]
  /\ upTo[1] = <<data[1]>>
  /\ \A k \in 2..Len(data) : upTo[k] = upTo[k - 1] \o Onward(data[k - 1], data[k])

\* Neighbours in the data bound a segment of the line.
LEMMA OrderedSegment ==
  ASSUME NEW data, Ordered(data), NEW k \in 2..Len(data)
  PROVE  Segment(data[k - 1], data[k], data[k - 1].x.num, data[k].x.num)
<1>1. /\ data \in Seq(Point) /\ k - 1 \in DOMAIN data /\ k \in DOMAIN data
      /\ k - 1 \in 1..(Len(data) - 1) /\ (k - 1) + 1 = k
  BY DEF Ordered
<1>2. data[k - 1].x.num < data[k].x.num
  BY <1>1 DEF Ordered
<1>3. QED BY <1>1, <1>2 DEF Ordered, Segment

\* Path is the last of such paths.
LEMMA PathEquation ==
  ASSUME RttWarn <= RttCrit, NEW data, Ordered(data), data # <<>>
  PROVE  \E upTo : PathUpTo(upTo, data) /\ Path(data) = upTo[Len(data)]
<1> DEFINE n == Len(data)
           on(k) == Onward(data[k - 1], data[k])
           Body(f, k) == IF k = 1 THEN <<data[1]>>
                         ELSE f[k - 1] \o Append(CrossingPoints(data[k - 1], data[k]), data[k])
           F == CHOOSE f : f = [k \in 1..n |-> Body(f, k)]
           step == [k \in 2..n |-> [acc \in Seq(Point) |-> acc \o on(k)]]
<1>1. Path(data) = F[n]
  BY DEF Path
<1>2. /\ data \in Seq(Point) /\ n \in Nat /\ 1 \in Nat /\ 1 <= n /\ 2..n = (1 + 1)..n
      /\ 1 \in 1..n /\ <<data[1]>> \in Seq(Point)
  <2>1. data \in Seq(Point)
    BY DEF Ordered
  <2>2. QED BY <2>1
<1>3. \A k \in 2..n : on(k) \in Seq(Point)
  BY OrderedSegment, SegmentCut
<1>4. step \in [2..n -> [Seq(Point) -> Seq(Point)]]
  <2> HIDE DEF on, n
  <2>1. QED BY <1>3, ConcatProperties
<1>5. PICK f : Follows(f, 1, n, Seq(Point), <<data[1]>>, step)
  <2> HIDE DEF step, n
  <2>1. QED BY <1>2, <1>4, Recursion
<1>6. ASSUME NEW k \in 2..n
      PROVE  f[k] = f[k - 1] \o on(k)
  <2>1. f[k - 1] \in Seq(Point) /\ k \in (1 + 1)..n
    BY <1>2, <1>5 DEF Follows
  <2> HIDE DEF n, on
  <2>2. step[k] = [acc \in Seq(Point) |-> acc \o on(k)]
    BY <2>1
  <2>3. f[k] = step[k][f[k - 1]]
    <3> HIDE DEF step
    <3>1. QED BY <1>5, <2>1 DEF Follows
  <2>4. QED BY <2>1, <2>2, <2>3
<1>7. f = [k \in 1..n |-> Body(f, k)]
  <2>1. ASSUME NEW k \in 1..n PROVE f[k] = Body(f, k)
    <3>1. CASE k = 1
      BY <1>5, <3>1 DEF Follows
    <3>2. CASE k # 1
      <4>1. k \in 2..n
        BY <3>2
      <4> HIDE DEF n
      <4>2. QED BY <1>6, <3>2, <4>1 DEF Onward
    <3>3. QED BY <3>1, <3>2
  <2> HIDE DEF Body, n
  <2>2. QED BY <1>5, <2>1 DEF Follows
<1>8. F = [k \in 1..n |-> Body(F, k)]
  <2> HIDE DEF Body, n
  <2>1. QED BY <1>7
<1>9. ASSUME NEW k \in 1..n PROVE F[k] = Body(F, k)
  <2> HIDE DEF Body, F, n
  <2>1. QED BY <1>8, Zenon
<1>10. F[1] = <<data[1]>>
  <2> HIDE DEF F, n
  <2>1. QED BY <1>2, <1>9
<1>11. ASSUME NEW k \in 2..n
       PROVE  F[k] = F[k - 1] \o on(k)
  <2>1. k \in 1..n /\ k # 1
    BY <1>2
  <2> HIDE DEF F, n
  <2>2. QED BY <1>9, <2>1 DEF Onward
<1> DEFINE T == {k \in 1..n : F[k] \in Seq(Point)}
<1>12. 1..n \subseteq T
  <2> HIDE DEF F, n, on
  <2>1. 1 \in T
    BY <1>2, <1>10
  <2>2. ASSUME NEW k \in 2..n, k - 1 \in T PROVE k \in T
    <3>1. F[k - 1] \in Seq(Point) /\ k \in 1..n
      BY <2>2, <1>2
    <3>2. F[k] \in Seq(Point)
      BY <1>3, <1>11, <3>1, ConcatProperties
    <3>3. QED BY <3>1, <3>2
  <2> HIDE DEF T
  <2>3. QED BY <1>2, <2>1, <2>2, Climb
<1>13. F \in [1..n -> Seq(Point)]
  <2> HIDE DEF F, n, Body
  <2>1. QED BY <1>8, <1>12
<1>14. PathUpTo(F, data)
  <2> HIDE DEF F, step, Body
  <2>1. QED BY <1>10, <1>11, <1>13 DEF PathUpTo
<1>15. QED
  <2> HIDE DEF F
  <2>1. QED BY <1>1, <1>14

\* Stretches put end to end.
LEMMA JoinedStretches ==
  ASSUME NEW s \in Seq(Point), NEW t \in Seq(Point), Len(s) > 0, Len(t) > 0,
         Stretches(s), Stretches(t), Stretch(s[Len(s)], t[1])
  PROVE  Stretches(s \o t)
<1> DEFINE m == Len(s)
           n == Len(t)
           u == s \o t
<1>1. /\ m \in Nat /\ n \in Nat /\ m > 0 /\ n > 0
      /\ Len(u) = m + n
      /\ \A i \in 1..(m + n) : u[i] = IF i <= m THEN s[i] ELSE t[i - m]
  BY ConcatProperties
<1>2. /\ \A j \in 1..(m - 1) : Stretch(s[j], s[j + 1])
      /\ \A j \in 1..(n - 1) : Stretch(t[j], t[j + 1])
      /\ Stretch(s[m], t[1])
  BY DEF Stretches
<1> HIDE DEF m, n, u
<1>3. ASSUME NEW j \in 1..(m + n - 1) PROVE Stretch(u[j], u[j + 1])
  <2>1. j \in 1..(m + n) /\ j + 1 \in 1..(m + n)
    BY <1>1
  <2>2. CASE j < m
    <3>1. u[j] = s[j] /\ u[j + 1] = s[j + 1] /\ j \in 1..(m - 1)
      BY <1>1, <2>1, <2>2
    <3>2. QED BY <1>2, <3>1
  <2>3. CASE j = m
    <3>1. j <= m /\ ~(j + 1 <= m) /\ (j + 1) - m = 1
      BY <1>1, <2>3
    <3>2. u[j] = s[m] /\ u[j + 1] = t[1]
      BY <1>1, <2>1, <2>3, <3>1
    <3>3. QED BY <1>2, <3>2
  <2>4. CASE j > m
    <3>1. u[j] = t[j - m] /\ u[j + 1] = t[j + 1 - m]
      BY <1>1, <2>1, <2>4
    <3>2. j - m \in 1..(n - 1) /\ j + 1 - m = (j - m) + 1
      BY <1>1, <2>4
    <3>3. QED BY <1>2, <3>1, <3>2
  <2>5. QED BY <1>1, <2>2, <2>3, <2>4
<1>4. QED BY <1>1, <1>3 DEF Stretches, u

\* The path of the first k data.
PathOf(path, data, k) ==
  /\ path \in Seq(Point)
  /\ Len(path) > 0
  /\ path[Len(path)] = data[k]
  /\ \A i \in 1..k : \E j \in DOMAIN path : path[j] = data[i]
  /\ \A j \in DOMAIN path :
       \/ \E i \in 1..k : path[j] = data[i]
       \/ \E i \in 1..(k - 1) : CutOf(path[j], data[i], data[i + 1])
  /\ Stretches(path)

\* One more datum lengthens the path by its segment.
LEMMA PathGrows ==
  ASSUME RttWarn <= RttCrit, NEW data, Ordered(data), NEW k \in 2..Len(data),
         NEW path, PathOf(path, data, k - 1)
  PROVE  PathOf(path \o Onward(data[k - 1], data[k]), data, k)
<1> DEFINE p == data[k - 1]
           q == data[k]
           on == Onward(p, q)
           m == Len(path)
           n == Len(on)
           u == path \o on
<1>1. /\ on \in Seq(Point) /\ n > 0 /\ on[n] = q
      /\ \A j \in 1..(n - 1) : CutOf(on[j], p, q)
      /\ Stretch(p, on[1]) /\ Stretches(on)
  BY OrderedSegment, SegmentCut
<1>2. /\ path \in Seq(Point) /\ m > 0 /\ path[m] = p /\ Stretches(path)
      /\ \A i \in 1..(k - 1) : \E j \in DOMAIN path : path[j] = data[i]
      /\ \A j \in DOMAIN path :
           \/ \E i \in 1..(k - 1) : path[j] = data[i]
           \/ \E i \in 1..(k - 2) : CutOf(path[j], data[i], data[i + 1])
  <2>1. (k - 1) - 1 = k - 2
    BY DEF Ordered
  <2>2. QED BY <2>1 DEF PathOf
<1>3. k \in Nat /\ 2 <= k /\ 1..(k - 1) \subseteq 1..k /\ 1..(k - 2) \subseteq 1..(k - 1)
      /\ k \in 1..k /\ k - 1 \in 1..(k - 1) /\ (k - 1) + 1 = k
  BY DEF Ordered
<1> HIDE DEF on
<1>4. /\ m \in Nat /\ n \in Nat
      /\ u \in Seq(Point) /\ Len(u) = m + n
      /\ \A i \in 1..(m + n) : u[i] = IF i <= m THEN path[i] ELSE on[i - m]
      /\ DOMAIN path = 1..m /\ DOMAIN on = 1..n /\ DOMAIN u = 1..(m + n)
  BY <1>1, <1>2, ConcatProperties
<1>5. Stretches(u)
  BY <1>1, <1>2, JoinedStretches
<1> HIDE DEF m, n, u
<1>6. Len(u) > 0 /\ u[Len(u)] = q
  <2>1. /\ m + n \in 1..(m + n) /\ ~(m + n <= m) /\ (m + n) - m = n
    BY <1>1, <1>4
  <2>2. QED BY <1>1, <1>4, <2>1
<1>7. \A j \in 1..m : j \in DOMAIN u /\ u[j] = path[j]
  BY <1>4
<1>8. ASSUME NEW i \in 1..k PROVE \E j \in DOMAIN u : u[j] = data[i]
  <2>1. CASE i = k
    <3>1. Len(u) \in DOMAIN u
      BY <1>4, <1>6
    <3>2. QED BY <1>6, <2>1, <3>1
  <2>2. CASE i # k
    <3>1. i \in 1..(k - 1)
      BY <1>3, <2>2
    <3>2. PICK j \in 1..m : path[j] = data[i]
      BY <1>2, <1>4, <3>1
    <3>3. j \in DOMAIN u /\ u[j] = data[i]
      BY <1>7, <3>2
    <3>4. QED BY <3>3
  <2>3. QED BY <2>1, <2>2
<1>9. ASSUME NEW j \in DOMAIN u
      PROVE  \/ \E i \in 1..k : u[j] = data[i]
             \/ \E i \in 1..(k - 1) : CutOf(u[j], data[i], data[i + 1])
  <2>1. CASE j <= m
    <3>1. j \in DOMAIN path /\ u[j] = path[j]
      BY <1>4, <2>1
    <3>2. QED BY <1>2, <1>3, <3>1
  <2>2. CASE j = m + n
    BY <1>3, <1>4, <1>6, <2>2
  <2>3. CASE ~(j <= m) /\ j # m + n
    <3>1. j - m \in 1..(n - 1) /\ u[j] = on[j - m]
      BY <1>4, <2>3
    <3>2. CutOf(u[j], p, q)
      BY <1>1, <3>1
    <3>3. CutOf(u[j], data[k - 1], data[(k - 1) + 1])
      BY <1>3, <3>2
    <3>4. QED BY <1>3, <3>3
  <2>4. QED BY <2>1, <2>2, <2>3
<1>10. PathOf(u, data, k)
  BY <1>4, <1>5, <1>6, <1>8, <1>9 DEF PathOf
<1>11. QED BY <1>10 DEF u, on

\* What Path makes of ordered data.
LEMMA PathSound ==
  ASSUME RttWarn <= RttCrit, NEW data, Ordered(data), data # <<>>
  PROVE  PathOf(Path(data), data, Len(data))
<1> DEFINE n == Len(data)
<1>1. PICK upTo : PathUpTo(upTo, data) /\ Path(data) = upTo[n]
  BY PathEquation
<1> DEFINE T == {k \in 1..n : PathOf(upTo[k], data, k)}
<1>2. /\ data \in Seq(Point) /\ n \in Nat /\ 1 \in Nat /\ 2..n = (1 + 1)..n
      /\ 1 \in 1..n /\ n \in 1..n /\ data[1] \in Point
  <2>1. data \in Seq(Point)
    BY DEF Ordered
  <2>2. QED BY <2>1
<1>3. 1 \in T
  <2>1. PathOf(<<data[1]>>, data, 1)
    BY <1>2 DEF PathOf, Stretches
  <2>2. QED BY <1>1, <1>2, <2>1 DEF PathUpTo
<1>4. ASSUME NEW k \in 2..n, k - 1 \in T PROVE k \in T
  <2>1. PathOf(upTo[k - 1], data, k - 1)
    BY <1>4
  <2>2. PathOf(upTo[k], data, k)
    BY <1>1, <2>1, PathGrows DEF PathUpTo
  <2>3. k \in 1..n
    BY <1>2
  <2>4. QED BY <2>2, <2>3
<1>5. 1..n \subseteq T
  <2> HIDE DEF n, T
  <2>1. QED BY <1>2, <1>3, <1>4, Climb
<1>6. QED BY <1>1, <1>2, <1>5

-----------------------------------------------------------------------------
(* The coloured runs.                                                      *)

\* A coloured run, lists of runs, and where the line of a list ends.
Run == [zone: 0..2, points: Seq(Point)]

RunList == {runs \in Seq(Run) : Len(runs) > 0 /\ Len(runs[Len(runs)].points) > 0}

LastRun(runs) == runs[Len(runs)]
LineEnd(runs) == LastRun(runs).points[Len(LastRun(runs).points)]
NextZone(runs, end) == PointZone(LineEnd(runs).y + end.y)

\* The two ways to go on from the end of the line.
Longer(runs, end) ==
  [runs EXCEPT ![Len(runs)] = [zone |-> LastRun(runs).zone, points |-> Append(LastRun(runs).points, end)]]
Recoloured(runs, end) ==
  Append(runs, [zone |-> NextZone(runs, end), points |-> <<LineEnd(runs), end>>])

\* ExtendRuns goes on in one of these ways.
LEMMA ExtendForm ==
  ASSUME NEW runs \in RunList, NEW end \in Point
  PROVE  /\ ExtendRuns(runs, end) = IF NextZone(runs, end) = LastRun(runs).zone
                                    THEN Longer(runs, end) ELSE Recoloured(runs, end)
         /\ LastRun(runs) \in Run /\ LineEnd(runs) \in Point
         /\ NextZone(runs, end) \in 0..2
<1>1. /\ runs \in Seq(Run) /\ Len(runs) \in Nat \ {0} /\ Len(runs) \in DOMAIN runs
      /\ Len(LastRun(runs).points) > 0
  BY DEF RunList, LastRun
<1>2. LastRun(runs) \in Run
  BY <1>1 DEF LastRun
<1>3. LastRun(runs).points \in Seq(Point) /\ LineEnd(runs) \in Point
  BY <1>1, <1>2 DEF Run, LineEnd
<1>4. Last(runs) = LastRun(runs) /\ Last(LastRun(runs).points) = LineEnd(runs)
  BY DEF Last, LastRun, LineEnd
<1>5. [runs EXCEPT ![Len(runs)].points = Append(@, end)] = Longer(runs, end)
  <2> DEFINE old == runs[Len(runs)]
             new == [old EXCEPT !.points = Append(old.points, end)]
  <2>1. new = [zone |-> old.zone, points |-> Append(old.points, end)]
    <3>1. old \in Run
      BY <1>2 DEF LastRun
    <3> HIDE DEF old
    <3>2. DOMAIN new = {"zone", "points"} /\ new.zone = old.zone /\ new.points = Append(old.points, end)
      BY <3>1 DEF Run
    <3>3. QED BY <3>1 DEF Run
  <2>2. [runs EXCEPT ![Len(runs)].points = Append(@, end)] = [runs EXCEPT ![Len(runs)] = new]
    OBVIOUS
  <2>3. QED BY <2>1, <2>2 DEF Longer, LastRun
<1>6. NextZone(runs, end) \in 0..2
  BY DEF NextZone, PointZone
<1>7. ExtendRuns(runs, end) =
        IF PointZone(Last(Last(runs).points).y + end.y) = Last(runs).zone
        THEN [runs EXCEPT ![Len(runs)].points = Append(@, end)]
        ELSE Append(runs, [zone |-> PointZone(Last(Last(runs).points).y + end.y),
                           points |-> <<Last(Last(runs).points), end>>])
  BY DEF ExtendRuns
<1>8. ExtendRuns(runs, end) = IF NextZone(runs, end) = LastRun(runs).zone
                              THEN Longer(runs, end) ELSE Recoloured(runs, end)
  BY <1>4, <1>5, <1>7 DEF NextZone, Recoloured
<1>9. QED BY <1>2, <1>3, <1>6, <1>8

\* A run lies on the first k points of the path, in the zone of its colour.
RunFits(run, path, k) ==
  /\ run \in Run
  /\ Len(run.points) > 0
  /\ \A j \in DOMAIN run.points : \E i \in 1..k : run.points[j] = path[i]
  /\ \A j \in 1..(Len(run.points) - 1) :
       /\ Stretch(run.points[j], run.points[j + 1])
       /\ PointZone(run.points[j].y + run.points[j + 1].y) = run.zone

\* The runs are joined, end to start, and each changes the colour.
Joined(before, after) ==
  before.points[Len(before.points)] = after.points[1] /\ before.zone # after.zone

\* The runs of the first k points.
RunsFit(runs, path, k) ==
  /\ runs \in Seq(Run) /\ Len(runs) > 0
  /\ LineEnd(runs) = path[k]
  /\ \A r \in DOMAIN runs : RunFits(runs[r], path, k)
  /\ \A i \in 1..k : \E r \in DOMAIN runs : \E j \in DOMAIN runs[r].points : runs[r].points[j] = path[i]
  /\ \A r \in 1..(Len(runs) - 1) : Joined(runs[r], runs[r + 1])

\* Runs that fit a path are a list of runs.
LEMMA RunsFitType ==
  ASSUME NEW runs, NEW path, NEW k, RunsFit(runs, path, k)
  PROVE  runs \in RunList
<1>1. Len(runs) \in DOMAIN runs
  BY DEF RunsFit
<1>2. QED BY <1>1 DEF RunsFit, RunFits, RunList

\* A run on the first points is on the first and one more.
LEMMA RunStays ==
  ASSUME NEW run, NEW path, NEW k \in Nat, RunFits(run, path, k)
  PROVE  RunFits(run, path, k + 1)
<1>1. 1..k \subseteq 1..(k + 1)
  OBVIOUS
<1>2. QED BY <1>1 DEF RunFits

\* A run that goes on in its zone.
LEMMA RunGoesOn ==
  ASSUME NEW path, NEW k \in Nat, NEW run, RunFits(run, path, k), NEW end \in Point, end = path[k + 1],
         Stretch(run.points[Len(run.points)], end),
         PointZone(run.points[Len(run.points)].y + end.y) = run.zone
  PROVE  RunFits([zone |-> run.zone, points |-> Append(run.points, end)], path, k + 1)
<1> DEFINE s == run.points
           t == Append(s, end)
           n == Len(s)
<1>1. /\ s \in Seq(Point) /\ n \in Nat /\ n > 0 /\ run.zone \in 0..2
      /\ t \in Seq(Point) /\ Len(t) = n + 1 /\ DOMAIN t = 1..(n + 1) /\ DOMAIN s = 1..n
      /\ \A j \in 1..n : t[j] = s[j]
      /\ t[n + 1] = end
  BY DEF RunFits, Run
<1>2. /\ \A j \in 1..n : \E i \in 1..k : s[j] = path[i]
      /\ \A j \in 1..(n - 1) : Stretch(s[j], s[j + 1]) /\ PointZone(s[j].y + s[j + 1].y) = run.zone
  BY <1>1 DEF RunFits
<1>3. Stretch(s[n], end) /\ PointZone(s[n].y + end.y) = run.zone
  OBVIOUS
<1> HIDE DEF s, t, n
<1>4. ASSUME NEW j \in DOMAIN t PROVE \E i \in 1..(k + 1) : t[j] = path[i]
  <2>1. CASE j = n + 1
    <3>1. k + 1 \in 1..(k + 1)
      OBVIOUS
    <3>2. QED BY <1>1, <2>1, <3>1
  <2>2. CASE j # n + 1
    <3>1. j \in 1..n /\ 1..k \subseteq 1..(k + 1)
      BY <1>1, <2>2
    <3>2. QED BY <1>1, <1>2, <3>1
  <2>3. QED BY <2>1, <2>2
<1>5. ASSUME NEW j \in 1..(Len(t) - 1)
      PROVE  Stretch(t[j], t[j + 1]) /\ PointZone(t[j].y + t[j + 1].y) = run.zone
  <2>1. CASE j = n
    <3>1. t[j] = s[n] /\ t[j + 1] = end
      BY <1>1, <2>1
    <3>2. QED BY <1>3, <3>1
  <2>2. CASE j # n
    <3>1. j \in 1..(n - 1) /\ j \in 1..n /\ j + 1 \in 1..n
      BY <1>1, <2>2
    <3>2. t[j] = s[j] /\ t[j + 1] = s[j + 1]
      BY <1>1, <3>1
    <3>3. QED BY <1>2, <3>1, <3>2
  <2>3. QED BY <2>1, <2>2
<1> DEFINE new == [zone |-> run.zone, points |-> t]
<1>6. new.zone = run.zone /\ new.points = t /\ new \in Run
  BY <1>1 DEF Run
<1> HIDE DEF new
<1>7. RunFits(new, path, k + 1)
  BY <1>1, <1>4, <1>5, <1>6 DEF RunFits
<1>8. QED BY <1>7 DEF new, t, s

\* A run that starts at the end of the line.
LEMMA RunStarts ==
  ASSUME NEW path, NEW k \in Nat \ {0}, NEW start \in Point, start = path[k], NEW end \in Point, end = path[k + 1],
         Stretch(start, end)
  PROVE  RunFits([zone |-> PointZone(start.y + end.y), points |-> <<start, end>>], path, k + 1)
<1> DEFINE t == <<start, end>>
           z == PointZone(start.y + end.y)
<1>1. /\ z \in 0..2
      /\ t \in Seq(Point) /\ Len(t) = 2 /\ DOMAIN t = 1..2 /\ t[1] = start /\ t[2] = end
  BY DEF PointZone
<1>2. ASSUME NEW j \in 1..2 PROVE \E i \in 1..(k + 1) : t[j] = path[i]
  <2>1. k \in 1..(k + 1) /\ k + 1 \in 1..(k + 1) /\ (j = 1 \/ j = 2)
    OBVIOUS
  <2> HIDE DEF t
  <2>2. QED BY <1>1, <2>1
<1>3. ASSUME NEW j \in 1..(Len(t) - 1)
      PROVE  Stretch(t[j], t[j + 1]) /\ PointZone(t[j].y + t[j + 1].y) = z
  <2>1. j = 1 /\ j + 1 = 2
    OBVIOUS
  <2>2. QED BY <1>1, <2>1
<1> HIDE DEF t, z
<1> DEFINE new == [zone |-> z, points |-> t]
<1>4. new.zone = z /\ new.points = t /\ new \in Run
  BY <1>1 DEF Run
<1> HIDE DEF new
<1>5. RunFits(new, path, k + 1)
  <2>1. Len(new.points) > 0
    <3>1. Len(new.points) = 2
      BY <1>1, <1>4
    <3>2. QED BY <3>1
  <2>2. \A j \in DOMAIN new.points : \E i \in 1..(k + 1) : new.points[j] = path[i]
    BY <1>1, <1>2, <1>4
  <2>3. \A j \in 1..(Len(new.points) - 1) :
          /\ Stretch(new.points[j], new.points[j + 1])
          /\ PointZone(new.points[j].y + new.points[j + 1].y) = new.zone
    BY <1>3, <1>4
  <2>4. QED BY <1>4, <2>1, <2>2, <2>3 DEF RunFits
<1>6. QED BY <1>5 DEF new, t, z

\* The runs after a point in the zone of the last one.
LEMMA RunsGoOn ==
  ASSUME NEW path, NEW k \in Nat \ {0}, NEW runs, RunsFit(runs, path, k),
         NEW end \in Point, end = path[k + 1], Stretch(path[k], end),
         NextZone(runs, end) = LastRun(runs).zone
  PROVE  RunsFit(Longer(runs, end), path, k + 1)
<1> DEFINE L == Len(runs)
           old == LastRun(runs)
           n == Len(old.points)
           R == [zone |-> old.zone, points |-> Append(old.points, end)]
           new == Longer(runs, end)
<1>1. /\ runs \in Seq(Run) /\ L \in Nat /\ L > 0 /\ DOMAIN runs = 1..L /\ L \in 1..L /\ old = runs[L]
      /\ LineEnd(runs) = path[k] /\ LineEnd(runs) = old.points[n]
      /\ \A r \in 1..L : RunFits(runs[r], path, k)
      /\ \A i \in 1..k : \E r \in 1..L : \E j \in DOMAIN runs[r].points : runs[r].points[j] = path[i]
      /\ \A r \in 1..(L - 1) : Joined(runs[r], runs[r + 1])
  <2>1. /\ runs \in Seq(Run) /\ L > 0 /\ LineEnd(runs) = path[k]
        /\ \A r \in DOMAIN runs : RunFits(runs[r], path, k)
        /\ \A i \in 1..k : \E r \in DOMAIN runs : \E j \in DOMAIN runs[r].points : runs[r].points[j] = path[i]
        /\ \A r \in 1..(L - 1) : Joined(runs[r], runs[r + 1])
    BY DEF RunsFit
  <2>2. L \in Nat /\ DOMAIN runs = 1..L /\ L \in 1..L
    BY <2>1
  <2>3. old = runs[L] /\ LineEnd(runs) = old.points[Len(old.points)]
    BY DEF LastRun, LineEnd
  <2> HIDE DEF L, old
  <2>4. QED BY <2>1, <2>2, <2>3
<1>2. old \in Run /\ old.points \in Seq(Point) /\ n \in Nat /\ n > 0 /\ old.zone \in 0..2
  <2>1. old \in Run /\ n > 0
    BY <1>1 DEF RunFits
  <2> HIDE DEF old
  <2>2. QED BY <2>1 DEF Run
<1>3. /\ R.points \in Seq(Point) /\ Len(R.points) = n + 1 /\ DOMAIN R.points = 1..(n + 1)
      /\ \A j \in 1..n : R.points[j] = old.points[j]
      /\ R.points[n + 1] = end
      /\ R.zone = old.zone /\ R \in Run
      /\ DOMAIN old.points = 1..n
  BY <1>2 DEF Run
<1>4. RunFits(R, path, k + 1)
  <2>1. PointZone(old.points[n].y + end.y) = old.zone
    BY <1>1 DEF NextZone
  <2>2. RunFits(old, path, k) /\ Stretch(old.points[n], end)
    BY <1>1
  <2> HIDE DEF old
  <2>3. QED BY <2>1, <2>2, RunGoesOn
<1>5. new = [runs EXCEPT ![L] = R]
  BY DEF Longer
<1> HIDE DEF R, new, L, old, n
<1>6. /\ new \in Seq(Run) /\ Len(new) = L /\ DOMAIN new = 1..L
      /\ new[L] = R /\ \A r \in 1..L : r # L => new[r] = runs[r]
  BY <1>1, <1>3, <1>5
<1>7. LineEnd(new) = end
  BY <1>3, <1>6 DEF LineEnd, LastRun
<1>8. ASSUME NEW r \in 1..L PROVE RunFits(new[r], path, k + 1)
  BY <1>1, <1>4, <1>6, RunStays
<1>9. ASSUME NEW i \in 1..(k + 1)
      PROVE  \E r \in 1..L : \E j \in DOMAIN new[r].points : new[r].points[j] = path[i]
  <2>1. CASE i = k + 1
    <3>1. n + 1 \in DOMAIN R.points
      BY <1>2, <1>3
    <3>2. QED BY <1>1, <1>3, <1>6, <2>1, <3>1
  <2>2. CASE i # k + 1
    <3>1. i \in 1..k
      BY <2>2
    <3>2. PICK r \in 1..L : \E j \in DOMAIN runs[r].points : runs[r].points[j] = path[i]
      BY <1>1, <3>1
    <3>3. PICK j \in DOMAIN runs[r].points : runs[r].points[j] = path[i]
      BY <3>2
    <3>4. CASE r = L
      <4>1. j \in 1..n /\ j \in 1..(n + 1)
        BY <1>1, <1>2, <1>3, <3>3, <3>4
      <4>2. j \in DOMAIN R.points /\ R.points[j] = path[i]
        BY <1>1, <1>3, <3>3, <3>4, <4>1
      <4>3. QED BY <1>1, <1>6, <4>2
    <3>5. CASE r # L
      BY <1>6, <3>3, <3>5
    <3>6. QED BY <3>4, <3>5
  <2>3. QED BY <2>1, <2>2
<1>10. ASSUME NEW r \in 1..(L - 1) PROVE Joined(new[r], new[r + 1])
  <2>1. r \in 1..L /\ r + 1 \in 1..L /\ r # L
    BY <1>1
  <2>2. new[r] = runs[r] /\ Joined(runs[r], runs[r + 1])
    BY <1>1, <1>6, <2>1
  <2>3. CASE r + 1 = L
    <3>1. new[r + 1] = R /\ runs[r + 1] = old /\ R.zone = old.zone
      BY <1>1, <1>3, <1>6, <2>3
    <3>2. R.points[1] = old.points[1]
      BY <1>2, <1>3
    <3>3. QED BY <2>2, <3>1, <3>2 DEF Joined
  <2>4. CASE r + 1 # L
    BY <1>6, <2>1, <2>2, <2>4
  <2>5. QED BY <2>3, <2>4
<1>11. Len(new) > 0
  BY <1>1, <1>6
<1>12. RunsFit(new, path, k + 1)
  BY <1>6, <1>7, <1>8, <1>9, <1>10, <1>11 DEF RunsFit
<1>13. QED BY <1>12 DEF new

\* The runs after a point in another zone.
LEMMA RunsRecolour ==
  ASSUME NEW path, NEW k \in Nat \ {0}, NEW runs, RunsFit(runs, path, k),
         NEW end \in Point, end = path[k + 1], Stretch(path[k], end),
         NextZone(runs, end) # LastRun(runs).zone
  PROVE  RunsFit(Recoloured(runs, end), path, k + 1)
<1> DEFINE L == Len(runs)
           old == LastRun(runs)
           start == LineEnd(runs)
           R == [zone |-> NextZone(runs, end), points |-> <<start, end>>]
           new == Recoloured(runs, end)
<1>1. /\ runs \in Seq(Run) /\ L \in Nat /\ L > 0 /\ DOMAIN runs = 1..L /\ L \in 1..L /\ old = runs[L]
      /\ start = path[k] /\ start = old.points[Len(old.points)]
      /\ \A r \in 1..L : RunFits(runs[r], path, k)
      /\ \A i \in 1..k : \E r \in 1..L : \E j \in DOMAIN runs[r].points : runs[r].points[j] = path[i]
      /\ \A r \in 1..(L - 1) : Joined(runs[r], runs[r + 1])
  <2>1. /\ runs \in Seq(Run) /\ L > 0 /\ LineEnd(runs) = path[k]
        /\ \A r \in DOMAIN runs : RunFits(runs[r], path, k)
        /\ \A i \in 1..k : \E r \in DOMAIN runs : \E j \in DOMAIN runs[r].points : runs[r].points[j] = path[i]
        /\ \A r \in 1..(L - 1) : Joined(runs[r], runs[r + 1])
    BY DEF RunsFit
  <2>2. L \in Nat /\ DOMAIN runs = 1..L /\ L \in 1..L
    BY <2>1
  <2>3. old = runs[L] /\ LineEnd(runs) = old.points[Len(old.points)]
    BY DEF LastRun, LineEnd
  <2> HIDE DEF L, old
  <2>4. QED BY <2>1, <2>2, <2>3
<1>2. start \in Point
  BY <1>1 DEF Stretch
<1>3. RunFits(R, path, k + 1)
  <2> HIDE DEF start
  <2>1. NextZone(runs, end) = PointZone(start.y + end.y)
    BY DEF NextZone, start
  <2>2. QED BY <1>1, <1>2, <2>1, RunStarts
<1>4. /\ R \in Run /\ R.zone = NextZone(runs, end)
      /\ R.points[1] = start /\ R.points[2] = end /\ Len(R.points) = 2 /\ 2 \in DOMAIN R.points
  BY <1>3 DEF RunFits
<1>5. new = Append(runs, R)
  BY DEF Recoloured
<1> HIDE DEF R, new, L, old, start
<1>6. /\ new \in Seq(Run) /\ Len(new) = L + 1 /\ DOMAIN new = 1..(L + 1)
      /\ new[L + 1] = R /\ \A r \in 1..L : new[r] = runs[r]
  BY <1>1, <1>4, <1>5 DEF L
<1>7. LineEnd(new) = end
  BY <1>4, <1>6 DEF LineEnd, LastRun
<1>8. ASSUME NEW r \in 1..(L + 1) PROVE RunFits(new[r], path, k + 1)
  <2>1. CASE r = L + 1
    BY <1>3, <1>6, <2>1
  <2>2. CASE r # L + 1
    <3>1. r \in 1..L
      BY <1>1, <2>2
    <3>2. QED BY <1>1, <1>6, <3>1, RunStays
  <2>3. QED BY <2>1, <2>2
<1>9. ASSUME NEW i \in 1..(k + 1)
      PROVE  \E r \in 1..(L + 1) : \E j \in DOMAIN new[r].points : new[r].points[j] = path[i]
  <2>1. CASE i = k + 1
    <3>1. L + 1 \in 1..(L + 1)
      BY <1>1
    <3>2. QED BY <1>4, <1>6, <2>1, <3>1
  <2>2. CASE i # k + 1
    <3>1. i \in 1..k
      BY <2>2
    <3>2. PICK r \in 1..L : \E j \in DOMAIN runs[r].points : runs[r].points[j] = path[i]
      BY <1>1, <3>1
    <3>3. PICK j \in DOMAIN runs[r].points : runs[r].points[j] = path[i]
      BY <3>2
    <3>4. r \in 1..(L + 1) /\ new[r] = runs[r]
      BY <1>1, <1>6
    <3>5. QED BY <3>3, <3>4
  <2>3. QED BY <2>1, <2>2
<1>10. ASSUME NEW r \in 1..((L + 1) - 1) PROVE Joined(new[r], new[r + 1])
  <2>1. CASE r = L
    <3>1. new[r] = old /\ new[r + 1] = R
      BY <1>1, <1>6, <2>1
    <3>2. R.zone # old.zone
      BY <1>4 DEF old
    <3>3. QED BY <1>1, <1>4, <3>1, <3>2 DEF Joined
  <2>2. CASE r # L
    <3>1. r \in 1..L /\ r + 1 \in 1..L /\ r \in 1..(L - 1)
      BY <1>1, <2>2
    <3>2. QED BY <1>1, <1>6, <3>1
  <2>3. QED BY <2>1, <2>2
<1>11. Len(new) > 0
  BY <1>1, <1>6
<1>12. RunsFit(new, path, k + 1)
  BY <1>6, <1>7, <1>8, <1>9, <1>10, <1>11 DEF RunsFit
<1>13. QED BY <1>12 DEF new

\* The runs after one more point of the path.
LEMMA RunsGrow ==
  ASSUME NEW path, NEW k \in Nat \ {0}, NEW runs, RunsFit(runs, path, k),
         NEW end \in Point, end = path[k + 1], Stretch(path[k], end)
  PROVE  RunsFit(ExtendRuns(runs, end), path, k + 1)
<1>1. ExtendRuns(runs, end) = IF NextZone(runs, end) = LastRun(runs).zone
                              THEN Longer(runs, end) ELSE Recoloured(runs, end)
  BY RunsFitType, ExtendForm
<1>2. CASE NextZone(runs, end) = LastRun(runs).zone
  BY <1>1, <1>2, RunsGoOn
<1>3. CASE NextZone(runs, end) # LastRun(runs).zone
  BY <1>1, <1>3, RunsRecolour
<1>4. QED BY <1>2, <1>3

\* ExtendRuns makes lists of runs.
LEMMA ExtendType ==
  ASSUME NEW runs \in RunList, NEW end \in Point
  PROVE  ExtendRuns(runs, end) \in RunList
<1> DEFINE L == Len(runs)
<1>1. runs \in Seq(Run) /\ L \in Nat \ {0} /\ L \in DOMAIN runs
  BY DEF RunList
<1>2. LastRun(runs) \in Run /\ LineEnd(runs) \in Point /\ NextZone(runs, end) \in 0..2
  BY ExtendForm
<1>3. Longer(runs, end) \in RunList
  <2> DEFINE R == [zone |-> LastRun(runs).zone, points |-> Append(LastRun(runs).points, end)]
             new == [runs EXCEPT ![L] = R]
  <2>1. R \in Run /\ Len(R.points) > 0
    BY <1>2 DEF Run
  <2> HIDE DEF R
  <2>2. new \in Seq(Run) /\ Len(new) = L /\ new[L] = R
    BY <1>1, <2>1
  <2>3. new \in RunList
    BY <1>1, <2>1, <2>2 DEF RunList
  <2>4. QED BY <2>3 DEF Longer, R
<1>4. Recoloured(runs, end) \in RunList
  <2> DEFINE z == NextZone(runs, end)
             u == LineEnd(runs)
             R == [zone |-> z, points |-> <<u, end>>]
             new == Append(runs, R)
  <2>1. R \in Run /\ Len(R.points) > 0
    <3> HIDE DEF z, u
    <3>1. <<u, end>> \in Seq(Point) /\ Len(<<u, end>>) = 2
      BY <1>2 DEF u
    <3>2. z \in 0..2
      BY <1>2 DEF z
    <3>3. QED BY <3>1, <3>2 DEF Run
  <2> HIDE DEF R
  <2>2. new \in Seq(Run) /\ Len(new) = L + 1 /\ new[L + 1] = R
    BY <1>1, <2>1
  <2>3. new \in RunList
    <3>1. Len(new) > 0 /\ new[Len(new)] = R
      BY <1>1, <2>2
    <3> HIDE DEF new
    <3>2. QED BY <2>1, <2>2, <3>1 DEF RunList
  <2>4. QED BY <2>3 DEF Recoloured, R
<1>5. QED BY <1>3, <1>4, ExtendForm

\* The runs up to each point of the path.
RunsUpTo(upTo, path) ==
  /\ upTo \in [1..Len(path) -> RunList]
  /\ upTo[1] = <<[zone |-> PointZone(2 * path[1].y), points |-> <<path[1]>>]>>
  /\ \A k \in 2..Len(path) : upTo[k] = ExtendRuns(upTo[k - 1], path[k])

\* RunsOf is the last of such lists.
LEMMA RunsEquation ==
  ASSUME NEW path \in Seq(Point), Len(path) > 0
  PROVE  \E upTo : RunsUpTo(upTo, path) /\ RunsOf(path) = upTo[Len(path)]
<1> DEFINE n == Len(path)
           first == [zone |-> PointZone(2 * path[1].y), points |-> <<path[1]>>]
           Body(f, k) == IF k = 1 THEN <<first>> ELSE ExtendRuns(f[k - 1], path[k])
           F == CHOOSE f : f = [k \in 1..n |-> Body(f, k)]
           step == [k \in 2..n |-> [acc \in RunList |-> ExtendRuns(acc, path[k])]]
<1>1. RunsOf(path) = F[n]
  BY DEF RunsOf
<1>2. /\ n \in Nat /\ 1 \in Nat /\ 1 <= n /\ 2..n = (1 + 1)..n /\ 1 \in 1..n
      /\ \A k \in 1..n : path[k] \in Point
  OBVIOUS
<1>3. <<first>> \in RunList
  <2>1. <<path[1]>> \in Seq(Point) /\ PointZone(2 * path[1].y) \in 0..2 /\ Len(<<path[1]>>) = 1
    BY <1>2 DEF PointZone
  <2>2. first \in Run /\ Len(first.points) = 1
    BY <2>1 DEF Run
  <2> HIDE DEF first
  <2> DEFINE new == <<first>>
  <2>3. new \in Seq(Run) /\ Len(new) > 0 /\ new[Len(new)] = first
    BY <2>2
  <2>4. Len(first.points) > 0
    BY <2>2
  <2> HIDE DEF new
  <2>5. new \in RunList
    BY <2>3, <2>4 DEF RunList
  <2>6. QED BY <2>5 DEF new
<1> HIDE DEF first
<1>4. step \in [2..n -> [RunList -> RunList]]
  <2>1. \A k \in 2..n : \A acc \in RunList : ExtendRuns(acc, path[k]) \in RunList
    BY <1>2, ExtendType
  <2> HIDE DEF n
  <2>2. QED BY <2>1
<1>5. PICK f : Follows(f, 1, n, RunList, <<first>>, step)
  <2> HIDE DEF step, n
  <2>1. QED BY <1>2, <1>3, <1>4, Recursion
<1>6. ASSUME NEW k \in 2..n
      PROVE  f[k] = ExtendRuns(f[k - 1], path[k])
  <2>1. f[k - 1] \in RunList /\ k \in (1 + 1)..n
    BY <1>2, <1>5 DEF Follows
  <2> HIDE DEF n
  <2>2. step[k] = [acc \in RunList |-> ExtendRuns(acc, path[k])]
    BY <2>1
  <2>3. f[k] = step[k][f[k - 1]]
    <3> HIDE DEF step
    <3>1. QED BY <1>5, <2>1 DEF Follows
  <2>4. QED BY <2>1, <2>2, <2>3
<1>7. f = [k \in 1..n |-> Body(f, k)]
  <2>1. ASSUME NEW k \in 1..n PROVE f[k] = Body(f, k)
    <3>1. CASE k = 1
      BY <1>5, <3>1 DEF Follows
    <3>2. CASE k # 1
      <4>1. k \in 2..n
        BY <3>2
      <4> HIDE DEF n
      <4>2. QED BY <1>6, <3>2, <4>1
    <3>3. QED BY <3>1, <3>2
  <2> HIDE DEF Body, n
  <2>2. QED BY <1>5, <2>1 DEF Follows
<1>8. F = [k \in 1..n |-> Body(F, k)]
  <2> HIDE DEF Body, n
  <2>1. QED BY <1>7
<1>9. ASSUME NEW k \in 1..n PROVE F[k] = Body(F, k)
  <2> HIDE DEF Body, F, n
  <2>1. QED BY <1>8, Zenon
<1>10. F[1] = <<first>>
  <2> HIDE DEF F, n
  <2>1. QED BY <1>2, <1>9
<1>11. ASSUME NEW k \in 2..n
       PROVE  F[k] = ExtendRuns(F[k - 1], path[k])
  <2>1. k \in 1..n /\ k # 1
    BY <1>2
  <2> HIDE DEF F, n
  <2>2. QED BY <1>9, <2>1
<1> DEFINE T == {k \in 1..n : F[k] \in RunList}
<1>12. 1..n \subseteq T
  <2> HIDE DEF F, n
  <2>1. 1 \in T
    BY <1>2, <1>3, <1>10
  <2>2. ASSUME NEW k \in 2..n, k - 1 \in T PROVE k \in T
    <3>1. F[k - 1] \in RunList /\ k \in 1..n
      BY <2>2, <1>2
    <3>2. F[k] \in RunList
      BY <1>2, <1>11, <3>1, ExtendType
    <3>3. QED BY <3>1, <3>2
  <2> HIDE DEF T
  <2>3. QED BY <1>2, <2>1, <2>2, Climb
<1>13. F \in [1..n -> RunList]
  <2> HIDE DEF F, n, Body
  <2>1. QED BY <1>8, <1>12
<1>14. RunsUpTo(F, path)
  <2> HIDE DEF F, step, Body
  <2>1. QED BY <1>10, <1>11, <1>13 DEF RunsUpTo, first
<1>15. QED
  <2> HIDE DEF F
  <2>1. QED BY <1>1, <1>14

\* What RunsOf makes of a path of stretches.
LEMMA RunsSound ==
  ASSUME NEW path \in Seq(Point), Len(path) > 0, Stretches(path)
  PROVE  RunsFit(RunsOf(path), path, Len(path))
<1> DEFINE n == Len(path)
<1>1. PICK upTo : RunsUpTo(upTo, path) /\ RunsOf(path) = upTo[n]
  BY RunsEquation
<1> DEFINE T == {k \in 1..n : RunsFit(upTo[k], path, k)}
<1>2. /\ n \in Nat /\ 1 \in Nat /\ 2..n = (1 + 1)..n /\ 1 \in 1..n /\ n \in 1..n
      /\ \A k \in 1..n : path[k] \in Point
  OBVIOUS
<1>3. 1 \in T
  <2> DEFINE first == [zone |-> PointZone(2 * path[1].y), points |-> <<path[1]>>]
             runs == <<first>>
  <2>1. <<path[1]>> \in Seq(Point) /\ PointZone(2 * path[1].y) \in 0..2 /\ Len(<<path[1]>>) = 1
    BY <1>2 DEF PointZone
  <2>2. /\ first \in Run /\ Len(first.points) = 1 /\ DOMAIN first.points = {1}
        /\ first.points[1] = path[1]
    BY <2>1 DEF Run
  <2> HIDE DEF first
  <2>3. RunFits(first, path, 1)
    BY <2>2 DEF RunFits
  <2>4. runs \in Seq(Run) /\ Len(runs) = 1 /\ DOMAIN runs = {1} /\ runs[1] = first
    BY <2>2
  <2> HIDE DEF runs
  <2>5. LineEnd(runs) = path[1]
    BY <2>2, <2>4 DEF LineEnd, LastRun
  <2>6. \A i \in 1..1 : \E r \in DOMAIN runs : \E j \in DOMAIN runs[r].points : runs[r].points[j] = path[i]
    BY <2>2, <2>4
  <2>7. RunsFit(runs, path, 1)
    BY <2>3, <2>4, <2>5, <2>6 DEF RunsFit
  <2>8. upTo[1] = runs
    BY <1>1 DEF RunsUpTo, runs, first
  <2>9. QED BY <1>2, <2>7, <2>8
<1>4. ASSUME NEW k \in 2..n, k - 1 \in T PROVE k \in T
  <2>1. /\ k - 1 \in Nat \ {0} /\ (k - 1) + 1 = k /\ k \in 1..n /\ k - 1 \in 1..(n - 1)
    BY <1>2
  <2>2. RunsFit(upTo[k - 1], path, k - 1)
    BY <1>4
  <2>3. Stretch(path[k - 1], path[k]) /\ path[k] \in Point
    BY <1>2, <2>1 DEF Stretches
  <2>4. path[k] = path[(k - 1) + 1]
    BY <2>1
  <2>5. RunsFit(ExtendRuns(upTo[k - 1], path[k]), path, (k - 1) + 1)
    BY <2>1, <2>2, <2>3, <2>4, RunsGrow
  <2>6. RunsFit(upTo[k], path, k)
    BY <1>1, <2>1, <2>5 DEF RunsUpTo
  <2>7. QED BY <2>1, <2>6
<1>5. 1..n \subseteq T
  <2> HIDE DEF n, T
  <2>1. QED BY <1>2, <1>3, <1>4, Climb
<1>6. QED BY <1>1, <1>2, <1>5

-----------------------------------------------------------------------------
(* The chart is faithful.                                                  *)

\* What ChartFaithful says of the line of the data.
LineOf(data, runs) ==
  /\ LineThroughData(UNION {ToSet(runs[k].points) : k \in DOMAIN runs}, data)
  /\ \A k \in 1..(Len(runs) - 1) :
       /\ Last(runs[k].points) = Head(runs[k + 1].points)
       /\ runs[k].zone # runs[k + 1].zone
  /\ \A k \in DOMAIN runs : \A j \in 1..(Len(runs[k].points) - 1) :
       StretchInZone(runs[k].points[j], runs[k].points[j + 1], runs[k].zone)

\* The coloured line of ordered data is that line.
LEMMA LineFaithful ==
  ASSUME RttWarn <= RttCrit, NEW data, Ordered(data), NEW runs, runs = ColorRuns(data)
  PROVE  LineOf(data, runs)
<1>1. data \in Seq(Point)
  BY DEF Ordered
<1>2. CASE data = <<>>
  <2>1. runs = <<>>
    BY <1>2 DEF ColorRuns
  <2>2. ToSet(data) = {} /\ {ToSet(runs[k].points) : k \in DOMAIN runs} = {}
    BY <1>2, <2>1 DEF ToSet
  <2>3. LineThroughData(UNION {ToSet(runs[k].points) : k \in DOMAIN runs}, data)
    BY <2>2 DEF LineThroughData
  <2>4. QED BY <2>1, <2>3 DEF LineOf
<1>3. CASE data # <<>>
  <2> DEFINE path == Path(data)
             n == Len(data)
             m == Len(path)
             line == UNION {ToSet(runs[k].points) : k \in DOMAIN runs}
  <2>1. PathOf(path, data, n)
    BY <1>3, PathSound
  <2>2. /\ path \in Seq(Point) /\ m > 0 /\ Stretches(path) /\ DOMAIN path = 1..m
        /\ \A i \in 1..n : \E j \in 1..m : path[j] = data[i]
        /\ \A j \in 1..m :
             \/ \E i \in 1..n : path[j] = data[i]
             \/ \E i \in 1..(n - 1) : CutOf(path[j], data[i], data[i + 1])
    <3>1. path \in Seq(Point) /\ DOMAIN path = 1..m
      BY <2>1 DEF PathOf
    <3>2. QED BY <2>1, <3>1 DEF PathOf
  <2>3. runs = RunsOf(path)
    BY <1>3 DEF ColorRuns
  <2> HIDE DEF path
  <2>4. RunsFit(runs, path, m)
    BY <2>2, <2>3, RunsSound
  <2>5. /\ runs \in Seq(Run) /\ DOMAIN runs = 1..Len(runs) /\ Len(runs) \in Nat
        /\ \A r \in DOMAIN runs : RunFits(runs[r], path, m)
        /\ \A i \in 1..m : \E r \in DOMAIN runs : \E j \in DOMAIN runs[r].points : runs[r].points[j] = path[i]
        /\ \A r \in 1..(Len(runs) - 1) : Joined(runs[r], runs[r + 1])
    BY <2>4 DEF RunsFit
  <2>6. DOMAIN data = 1..n
    BY <1>1
  <2> HIDE DEF m, n
  <2>7. \A u : u \in line <=> \E r \in DOMAIN runs : \E j \in DOMAIN runs[r].points : u = runs[r].points[j]
    BY DEF ToSet
  <2>8. \A u : u \in ToSet(data) <=> \E i \in 1..n : u = data[i]
    BY <2>6 DEF ToSet
  <2> HIDE DEF line
  <2>9. ToSet(data) \subseteq line
    <3>1. SUFFICES ASSUME NEW u \in ToSet(data) PROVE u \in line
      OBVIOUS
    <3>2. PICK i \in 1..n : u = data[i]
      BY <2>8
    <3>3. PICK j \in 1..m : path[j] = data[i]
      BY <2>2
    <3>4. QED BY <2>5, <2>7, <3>2, <3>3
  <2>10. ASSUME NEW u \in line \ ToSet(data)
         PROVE  /\ u.y \in {RttWarn, RttCrit}
                /\ \E k \in 1..(n - 1) : OnChord(u, data[k], data[k + 1])
    <3>1. PICK r \in DOMAIN runs : \E j \in DOMAIN runs[r].points : u = runs[r].points[j]
      BY <2>7
    <3>2. PICK j \in 1..m : u = path[j]
      BY <2>5, <3>1 DEF RunFits
    <3>3. PICK i \in 1..(n - 1) : CutOf(u, data[i], data[i + 1])
      BY <2>2, <2>8, <3>2
    <3>4. QED BY <3>3 DEF CutOf
  <2>11. LineThroughData(line, data)
    BY <2>9, <2>10 DEF LineThroughData, n
  <2>12. ASSUME NEW k \in 1..(Len(runs) - 1)
         PROVE  /\ Last(runs[k].points) = Head(runs[k + 1].points)
                /\ runs[k].zone # runs[k + 1].zone
    <3>1. Joined(runs[k], runs[k + 1]) /\ k + 1 \in DOMAIN runs
      BY <2>5
    <3>2. runs[k + 1].points \in Seq(Point) /\ Len(runs[k + 1].points) > 0
      BY <2>5, <3>1 DEF RunFits, Run
    <3>3. Head(runs[k + 1].points) = runs[k + 1].points[1]
      BY <3>2
    <3>4. QED BY <3>1, <3>3 DEF Joined, Last
  <2>13. ASSUME NEW k \in DOMAIN runs, NEW j \in 1..(Len(runs[k].points) - 1)
         PROVE  StretchInZone(runs[k].points[j], runs[k].points[j + 1], runs[k].zone)
    <3>1. /\ Stretch(runs[k].points[j], runs[k].points[j + 1])
          /\ PointZone(runs[k].points[j].y + runs[k].points[j + 1].y) = runs[k].zone
      BY <2>5 DEF RunFits
    <3>2. QED BY <3>1 DEF Stretch, StretchInZone
  <2>14. QED BY <2>11, <2>12, <2>13 DEF LineOf, line
<1>4. QED BY <1>2, <1>3

\* The chart of a well-formed table is faithful.
LEMMA InvariantChart == ScreenInv => ChartFaithful
<1> SUFFICES ASSUME ScreenInv, RttWarn <= RttCrit, NEW i \in DOMAIN hops
             PROVE  LET samples == hops[i].samples
                        data == LatencyData(hops[i])
                        loss == LossData(hops[i])
                        runs == ColorRuns(data)
                        bounds == YBounds(data)
                    IN  /\ \A k \in DOMAIN samples :
                             [x |-> Whole(k - 1), y |-> samples[k].rtt] \in ToSet(data)
                               <=> [x |-> Whole(k - 1), y |-> 0] \notin ToSet(loss)
                        /\ Len(data) + Len(loss) = Len(samples)
                        /\ LineThroughData(UNION {ToSet(runs[k].points) : k \in DOMAIN runs}, data)
                        /\ \A k \in 1..(Len(runs) - 1) :
                             /\ Last(runs[k].points) = Head(runs[k + 1].points)
                             /\ runs[k].zone # runs[k + 1].zone
                        /\ \A k \in DOMAIN runs : \A j \in 1..(Len(runs[k].points) - 1) :
                             StretchInZone(runs[k].points[j], runs[k].points[j + 1], runs[k].zone)
                        /\ bounds.lo < bounds.hi
                        /\ \A y \in Heights(data) : bounds.lo <= 10 * y /\ 10 * y <= bounds.hi
  BY DEF ChartFaithful
<1> DEFINE samples == hops[i].samples
           data == LatencyData(hops[i])
           loss == LossData(hops[i])
           runs == ColorRuns(data)
           bounds == YBounds(data)
<1>1. samples \in Seq(ProbeResult) /\ Len(samples) \in Nat
  <2>1. hops[i] \in HopState
    BY DEF ScreenInv, ScreenTypeOK
  <2>2. QED BY <2>1 DEF HopState
<1>2. /\ data \in Seq(Point) /\ MarksOf(data, samples, TRUE, Len(samples))
      /\ loss \in Seq(Point) /\ MarksOf(loss, samples, FALSE, Len(samples))
      /\ Len(data) + Len(loss) = Len(samples)
  <2>1. data = Marked(samples, TRUE) /\ loss = Marked(samples, FALSE)
    BY DEF LatencyData, LossData
  <2> HIDE DEF samples, data, loss
  <2>2. QED BY <1>1, <2>1, MarkedSound
<1> HIDE DEF samples, data, loss
<1>3. \A k \in DOMAIN samples :
        [x |-> Whole(k - 1), y |-> samples[k].rtt] \in ToSet(data)
          <=> [x |-> Whole(k - 1), y |-> 0] \notin ToSet(loss)
  BY <1>1, <1>2, SampleShown
<1>4. Ordered(data)
  BY <1>1, <1>2, MarksOrdered
<1>5. LineOf(data, runs)
  <2>1. runs = ColorRuns(data)
    OBVIOUS
  <2> HIDE DEF runs
  <2>2. QED BY <1>4, <2>1, LineFaithful
<1>6. /\ bounds.lo < bounds.hi
      /\ \A y \in Heights(data) : bounds.lo <= 10 * y /\ 10 * y <= bounds.hi
  BY <1>2, BoundsHold
<1>7. QED BY <1>2, <1>3, <1>5, <1>6 DEF LineOf, samples, data, loss

\* With the thresholds in order, the chart of a hop shows each sample once, on the
\* line or as a loss; the line passes through every answer, bends only at a
\* threshold's height between two of them, has no gap and is everywhere in the
\* colour of its zone, within the axis (build_latency_data, build_loss_data,
\* build_color_runs, compute_y_bounds).
THEOREM ChartIsFaithful == ScreenSpec => []ChartFaithful
<1>1. QED BY ScreenInvariant, InvariantChart, PTL

=============================================================================

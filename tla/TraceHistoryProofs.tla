------------------------- MODULE TraceHistoryProofs -------------------------
(***************************************************************************)
(* Proofs about TraceHistory, for every set of addresses and times, every  *)
(* limit and ring size: the record is the function of the recorded rounds  *)
(* it should be.                                                           *)
(***************************************************************************)
EXTENDS TraceHistory, TraceEngineProofs, FiniteSetTheorems, WellFoundedInduction

-----------------------------------------------------------------------------
(* Columns.                                                                *)

\* A column: finitely many rounds, each with the result of one probe.
IsColumn(col) ==
  /\ DOMAIN col \subseteq Nat
  /\ IsFiniteSet(DOMAIN col)
  /\ \A k \in DOMAIN col : col[k] \in Outcome

\* A column that has the result p of round n on top of those of an older one.
Extends(more, col, n, p) ==
  /\ DOMAIN more = DOMAIN col \cup {n}
  /\ more[n] = p
  /\ \A k \in DOMAIN col : k < n /\ more[k] = col[k]

IsGreatest(m, S) == m \in S /\ \A k \in S : k <= m
IsLeast(m, S) == m \in S /\ \A k \in S : m <= k

\* A number that is the greatest of a set is the one Greatest chooses, and so
\* for the least.
LEMMA GreatestIs ==
  ASSUME NEW S \in SUBSET Nat, NEW m, IsGreatest(m, S)
  PROVE  Greatest(S) = m
<1>1. m \in S /\ \A j \in S : j <= m
  BY DEF IsGreatest
<1>2. Greatest(S) \in S /\ \A j \in S : j <= Greatest(S)
  BY <1>1 DEF Greatest
<1>3. Greatest(S) <= m /\ m <= Greatest(S)
  BY <1>1, <1>2
<1>4. Greatest(S) \in Nat /\ m \in Nat
  BY <1>1, <1>2
<1>5. QED BY <1>3, <1>4

LEMMA LeastIs ==
  ASSUME NEW S \in SUBSET Nat, NEW m, IsLeast(m, S)
  PROVE  Least(S) = m
<1>1. m \in S /\ \A j \in S : m <= j
  BY DEF IsLeast
<1>2. Least(S) \in S /\ \A j \in S : Least(S) <= j
  BY <1>1 DEF Least
<1>3. Least(S) <= m /\ m <= Least(S)
  BY <1>1, <1>2
<1>4. Least(S) \in Nat /\ m \in Nat
  BY <1>1, <1>2
<1>5. QED BY <1>3, <1>4

\* A set of numbers that has a bound has a greatest element.
LEMMA GreatestExists ==
  ASSUME NEW n \in Nat, NEW S \in SUBSET (0..n), S # {}
  PROVE  IsGreatest(Greatest(S), S)
<1> DEFINE T == {k \in Nat : n - k \in S}
<1>1. \A k \in S : n - k \in T
  OBVIOUS
<1>2. T \subseteq Nat /\ T # {}
  BY <1>1
<1> DEFINE R == OpToRel(<, Nat)
<1>3. \A x, y \in Nat : y < x => <<y, x>> \in R
  BY DEF OpToRel
<1> HIDE DEF T, R
<1>4. PICK x \in T : \A y \in T : x <= y
  <2>1. IsWellFoundedOn(R, Nat)
    BY NatLessThanWellFounded DEF R
  <2>2. PICK x \in T : \A y \in T : <<y, x>> \notin R
    BY <1>2, <2>1, WFMin, Zenon
  <2>3. \A y \in T : ~(y < x)
    BY <1>2, <1>3, <2>2
  <2>4. QED BY <1>2, <2>3
<1>5. IsGreatest(n - x, S)
  <2>1. n - x \in S
    BY DEF T
  <2>2. \A k \in S : x <= n - k
    BY <1>1, <1>4
  <2>3. x \in Nat
    BY <1>2
  <2>4. QED BY <2>1, <2>2, <2>3 DEF IsGreatest
<1>6. QED BY <1>5, GreatestIs

\* What a further round adds to the sets a column's statistics are made of.
LEMMA ExtendSets ==
  ASSUME NEW col, IsColumn(col), NEW p \in Outcome, NEW n \in Nat,
         NEW more, Extends(more, col, n, p)
  PROVE  /\ IsColumn(more)
         /\ n \notin DOMAIN col
         /\ Heard(more) = IF p.rtt # None THEN Heard(col) \cup {n} ELSE Heard(col)
         /\ Answered(more) = IF p.addr # None THEN Answered(col) \cup {n} ELSE Answered(col)
         /\ Failed(more) = IF p.error THEN Failed(col) \cup {n} ELSE Failed(col)
         /\ Rtts(more) = IF p.rtt # None THEN Rtts(col) \cup {p.rtt} ELSE Rtts(col)
<1>1. DOMAIN more = DOMAIN col \cup {n} /\ more[n] = p
  BY DEF Extends
<1>2. \A k \in DOMAIN col : k # n
  BY DEF IsColumn, Extends
<1>3. \A k \in DOMAIN col : more[k] = col[k]
  BY DEF Extends
<1>4. n \notin DOMAIN col
  BY <1>2
<1>5. IsColumn(more)
  <2>1. IsFiniteSet(DOMAIN col \cup {n})
    BY FS_AddElement DEF IsColumn
  <2>2. QED BY <1>1, <1>3, <2>1 DEF IsColumn
<1>6. Heard(more) = IF p.rtt # None THEN Heard(col) \cup {n} ELSE Heard(col)
  BY <1>1, <1>3 DEF Heard
<1>7. Answered(more) = IF p.addr # None THEN Answered(col) \cup {n} ELSE Answered(col)
  BY <1>1, <1>3 DEF Answered
<1>8. Failed(more) = IF p.error THEN Failed(col) \cup {n} ELSE Failed(col)
  BY <1>1, <1>3 DEF Failed
<1>9. Rtts(more) = IF p.rtt # None THEN Rtts(col) \cup {p.rtt} ELSE Rtts(col)
  <2>1. \A k \in Heard(col) : more[k].rtt = col[k].rtt
    BY <1>3 DEF Heard
  <2>2. CASE p.rtt # None
    <3>1. Heard(more) = Heard(col) \cup {n}
      BY <1>6, <2>2
    <3>2. QED BY <3>1, <2>1, <1>1, <2>2 DEF Rtts
  <2>3. CASE p.rtt = None
    <3>1. Heard(more) = Heard(col)
      BY <1>6, <2>3
    <3>2. QED BY <3>1, <2>1, <2>3 DEF Rtts
  <2>4. QED BY <2>2, <2>3
<1>10. QED BY <1>1, <1>2, <1>3, <1>4, <1>5, <1>6, <1>7, <1>8, <1>9

\* The sets a column's statistics count are finite.
LEMMA ColumnFinite ==
  ASSUME NEW col, IsColumn(col)
  PROVE  /\ IsFiniteSet(Heard(col))
         /\ IsFiniteSet(Failed(col))
         /\ Cardinality(DOMAIN col) \in Nat
         /\ Cardinality(Heard(col)) \in Nat
         /\ Cardinality(Failed(col)) \in Nat
         /\ Cardinality(Heard(col)) <= Cardinality(DOMAIN col)
         /\ Rtts(col) \subseteq RTT
         /\ \A k : /\ IsFiniteSet({j \in DOMAIN col : j > k})
                   /\ After(col, k) \in Nat
<1>1. Heard(col) \in SUBSET DOMAIN col /\ Failed(col) \in SUBSET DOMAIN col
  BY DEF Heard, Failed
<1>2. IsFiniteSet(DOMAIN col)
  BY DEF IsColumn
<1>3. /\ IsFiniteSet(Heard(col))
      /\ IsFiniteSet(Failed(col))
      /\ Cardinality(Heard(col)) <= Cardinality(DOMAIN col)
  BY <1>1, <1>2, FS_Subset
<1>4. \A k : IsFiniteSet({j \in DOMAIN col : j > k})
  <2> TAKE k
  <2>1. {j \in DOMAIN col : j > k} \in SUBSET DOMAIN col
    OBVIOUS
  <2>2. QED BY <1>2, <2>1, FS_Subset
<1>5. Rtts(col) \subseteq RTT
  BY DEF Rtts, Heard, IsColumn, Outcome, ProbeResult
<1>6. QED BY <1>2, <1>3, <1>4, <1>5, FS_CardinalityType DEF After

-----------------------------------------------------------------------------
(* Rows.                                                                   *)

\* Statistics and an address that say what a column says.  The extremes are
\* named by what they are, so that a further time can be compared with them.
StatsFit(s, col) ==
  /\ s.sent = Cardinality(DOMAIN col)
  /\ s.received = Cardinality(Heard(col))
  /\ s.lost = Cardinality(DOMAIN col) - Cardinality(Heard(col))
  /\ s.errors = Cardinality(Failed(col))
  /\ IF DOMAIN col = {} THEN s.last_rtt = None
     ELSE \E k \in DOMAIN col : IsGreatest(k, DOMAIN col) /\ s.last_rtt = col[k].rtt
  /\ IF Rtts(col) = {} THEN s.min_rtt = None ELSE IsLeast(s.min_rtt, Rtts(col))
  /\ IF Rtts(col) = {} THEN s.max_rtt = None ELSE IsGreatest(s.max_rtt, Rtts(col))

AddrFits(a, col) ==
  IF Answered(col) = {} THEN a = None
  ELSE \E k \in Answered(col) : IsGreatest(k, Answered(col)) /\ a = col[k].addr

RowFits(h, live, ever) ==
  /\ StatsFit(h.stats, live)
  /\ HoldsNewest(h.samples, live)
  /\ AddrFits(h.addr, ever)

\* A row that fits its columns shows what is computed from them.
LEMMA FitIsMatch ==
  ASSUME NEW h \in HopState, NEW live, NEW ever, IsColumn(live), IsColumn(ever),
         RowFits(h, live, ever)
  PROVE  /\ h.stats = StatsOf(live)
         /\ h.addr = AddrOf(ever)
<1> DEFINE s == h.stats
<1>1. /\ DOMAIN live \in SUBSET Nat /\ Rtts(live) \in SUBSET Nat
      /\ Answered(ever) \in SUBSET Nat
  BY ColumnFinite, StateAssumption DEF IsColumn, Answered
<1>2. s.last_rtt = IF DOMAIN live = {} THEN None ELSE live[Greatest(DOMAIN live)].rtt
  BY <1>1, GreatestIs DEF RowFits, StatsFit
<1>3. s.min_rtt = IF Rtts(live) = {} THEN None ELSE Least(Rtts(live))
  BY <1>1, LeastIs DEF RowFits, StatsFit
<1>4. s.max_rtt = IF Rtts(live) = {} THEN None ELSE Greatest(Rtts(live))
  BY <1>1, GreatestIs DEF RowFits, StatsFit
<1>5. s \in HopStats
  BY DEF HopState
<1>6. s = StatsOf(live)
  BY <1>2, <1>3, <1>4, <1>5 DEF RowFits, StatsFit, StatsOf, HopStats
<1>7. h.addr = AddrOf(ever)
  BY <1>1, GreatestIs DEF RowFits, AddrFits, AddrOf
<1>8. QED BY <1>6, <1>7

\* A row nobody probed since the reset.
LEMMA EmptyFits ==
  ASSUME NEW col, DOMAIN col = {}
  PROVE  StatsFit(NewStats, col) /\ HoldsNewest(<<>>, col)
<1>1. Heard(col) = {} /\ Failed(col) = {} /\ Rtts(col) = {}
  BY DEF Heard, Failed, Rtts
<1>2. Cardinality({}) = 0
  BY FS_EmptySet
<1>3. StatsFit(NewStats, col)
  BY <1>1, <1>2 DEF StatsFit, NewStats
<1>4. Len(<<>>) = 0
  BY EmptySeq
<1>5. HoldsNewest(<<>>, col)
  BY <1>2, <1>4, StateAssumption DEF HoldsNewest
<1>6. QED BY <1>3, <1>5

\* record_probe keeps the statistics in step with the column.
LEMMA RecordProbeFits ==
  ASSUME NEW s \in HopStats, NEW col, IsColumn(col), StatsFit(s, col),
         NEW p \in Outcome, NEW n \in Nat, NEW more, Extends(more, col, n, p)
  PROVE  StatsFit(RecordProbe(s, p), more)
<1> DEFINE new == RecordProbe(s, p)
<1>1. /\ IsColumn(more)
      /\ DOMAIN more = DOMAIN col \cup {n} /\ more[n] = p
      /\ n \notin DOMAIN col
      /\ Heard(more) = IF p.rtt # None THEN Heard(col) \cup {n} ELSE Heard(col)
      /\ Failed(more) = IF p.error THEN Failed(col) \cup {n} ELSE Failed(col)
      /\ Rtts(more) = IF p.rtt # None THEN Rtts(col) \cup {p.rtt} ELSE Rtts(col)
  <2>1. DOMAIN more = DOMAIN col \cup {n} /\ more[n] = p
        /\ \A k \in DOMAIN col : k < n /\ more[k] = col[k]
    BY DEF Extends
  <2>2. QED BY <2>1, ExtendSets
<1>2. /\ Cardinality(DOMAIN more) = Cardinality(DOMAIN col) + 1
      /\ Cardinality(Heard(more)) = Cardinality(Heard(col)) + Received(p)
      /\ Cardinality(Failed(more))
           = Cardinality(Failed(col)) + Errors(p)
      /\ Cardinality(DOMAIN col) \in Nat /\ Cardinality(Heard(col)) \in Nat
      /\ Cardinality(Failed(col)) \in Nat
      /\ Received(p) \in Nat
  <2>1. n \notin Heard(col) /\ n \notin Failed(col)
    BY <1>1 DEF Heard, Failed
  <2>2. /\ IsFiniteSet(DOMAIN col) /\ IsFiniteSet(Heard(col))
        /\ IsFiniteSet(Failed(col))
        /\ Cardinality(DOMAIN col) \in Nat /\ Cardinality(Heard(col)) \in Nat
        /\ Cardinality(Failed(col)) \in Nat
    BY ColumnFinite DEF IsColumn
  <2>3. Cardinality(DOMAIN more) = Cardinality(DOMAIN col) + 1
    BY <1>1, <2>2, FS_AddElement
  <2>4. Cardinality(Heard(col) \cup {n}) = Cardinality(Heard(col)) + 1
    BY <2>1, <2>2, FS_AddElement
  <2>5. Cardinality(Failed(col) \cup {n})
          = Cardinality(Failed(col)) + 1
    BY <2>1, <2>2, FS_AddElement
  <2>6. Cardinality(Heard(more)) = Cardinality(Heard(col)) + Received(p)
    BY <1>1, <2>2, <2>4 DEF Received
  <2>7. Cardinality(Failed(more))
          = Cardinality(Failed(col)) + Errors(p)
    BY <1>1, <2>2, <2>5 DEF Errors
  <2>8. QED BY <2>2, <2>3, <2>6, <2>7 DEF Received
<1>3. /\ new.sent = s.sent + 1 /\ new.received = s.received + Received(p)
      /\ new.lost = s.lost + 1 - Received(p) /\ new.errors = s.errors + Errors(p)
      /\ new.last_rtt = p.rtt
      /\ new.min_rtt = IF p.rtt = None THEN s.min_rtt ELSE Lower(s.min_rtt, p.rtt)
      /\ new.max_rtt = IF p.rtt = None THEN s.max_rtt ELSE Higher(s.max_rtt, p.rtt)
  BY DEF RecordProbe
<1> HIDE DEF new
<1>4. IsGreatest(n, DOMAIN more) /\ new.last_rtt = more[n].rtt
  BY <1>1, <1>3 DEF IsGreatest, IsColumn, Extends
<1>5. p.rtt \in RTT \cup {None} /\ Rtts(col) \subseteq RTT /\ RTT \subseteq Nat /\ None \notin Nat
  BY ColumnFinite, OutcomeType, StateAssumption DEF ProbeResult
<1>6. IF Rtts(more) = {} THEN new.min_rtt = None ELSE IsLeast(new.min_rtt, Rtts(more))
  <2>1. CASE p.rtt = None
    BY <1>1, <1>3, <2>1 DEF StatsFit
  <2>2. CASE p.rtt # None /\ Rtts(col) = {}
    <3>1. Rtts(more) = {p.rtt} /\ s.min_rtt = None
      BY <1>1, <2>2 DEF StatsFit
    <3>2. new.min_rtt = p.rtt /\ p.rtt \in Nat
      BY <1>3, <1>5, <2>2, <3>1 DEF Lower
    <3>3. QED BY <3>1, <3>2 DEF IsLeast
  <2>3. CASE p.rtt # None /\ Rtts(col) # {}
    <3>1. s.min_rtt \in Rtts(col) /\ \A q \in Rtts(col) : s.min_rtt <= q
      BY <2>3 DEF StatsFit, IsLeast
    <3>2. s.min_rtt \in Nat /\ p.rtt \in Nat /\ s.min_rtt # None
      BY <1>5, <2>3, <3>1
    <3>3. new.min_rtt = IF p.rtt < s.min_rtt THEN p.rtt ELSE s.min_rtt
      BY <1>3, <2>3, <3>2 DEF Lower
    <3>4. Rtts(more) = Rtts(col) \cup {p.rtt}
      BY <1>1, <2>3
    <3>5. \A q \in Rtts(col) : q \in Nat /\ s.min_rtt <= q
      BY <1>5, <3>1
    <3>6. IsLeast(new.min_rtt, Rtts(more))
      BY <3>1, <3>2, <3>3, <3>4, <3>5 DEF IsLeast
    <3>7. QED BY <3>4, <3>6
  <2>4. QED BY <2>1, <2>2, <2>3
<1>7. IF Rtts(more) = {} THEN new.max_rtt = None ELSE IsGreatest(new.max_rtt, Rtts(more))
  <2>1. CASE p.rtt = None
    BY <1>1, <1>3, <2>1 DEF StatsFit
  <2>2. CASE p.rtt # None /\ Rtts(col) = {}
    <3>1. Rtts(more) = {p.rtt} /\ s.max_rtt = None
      BY <1>1, <2>2 DEF StatsFit
    <3>2. new.max_rtt = p.rtt /\ p.rtt \in Nat
      BY <1>3, <1>5, <2>2, <3>1 DEF Higher
    <3>3. QED BY <3>1, <3>2 DEF IsGreatest
  <2>3. CASE p.rtt # None /\ Rtts(col) # {}
    <3>1. s.max_rtt \in Rtts(col) /\ \A q \in Rtts(col) : q <= s.max_rtt
      BY <2>3 DEF StatsFit, IsGreatest
    <3>2. s.max_rtt \in Nat /\ p.rtt \in Nat /\ s.max_rtt # None
      BY <1>5, <2>3, <3>1
    <3>3. new.max_rtt = IF p.rtt > s.max_rtt THEN p.rtt ELSE s.max_rtt
      BY <1>3, <2>3, <3>2 DEF Higher
    <3>4. Rtts(more) = Rtts(col) \cup {p.rtt}
      BY <1>1, <2>3
    <3>5. \A q \in Rtts(col) : q \in Nat /\ q <= s.max_rtt
      BY <1>5, <3>1
    <3>6. IsGreatest(new.max_rtt, Rtts(more))
      BY <3>1, <3>2, <3>3, <3>4, <3>5 DEF IsGreatest
    <3>7. QED BY <3>4, <3>6
  <2>4. QED BY <2>1, <2>2, <2>3
<1>8. /\ new.sent = Cardinality(DOMAIN more)
      /\ new.received = Cardinality(Heard(more))
      /\ new.lost = Cardinality(DOMAIN more) - Cardinality(Heard(more))
      /\ new.errors = Cardinality(Failed(more))
  BY <1>2, <1>3 DEF StatsFit
<1>9. DOMAIN more # {}
  BY <1>1
<1>10. StatsFit(new, more)
  <2>1. \E k \in DOMAIN more : IsGreatest(k, DOMAIN more) /\ new.last_rtt = more[k].rtt
    BY <1>1, <1>4
  <2>2. QED BY <1>6, <1>7, <1>8, <1>9, <2>1 DEF StatsFit
<1>11. QED BY <1>10 DEF new

\* The ring keeps the newest results of the column.
LEMMA PushSampleHoldsNewest ==
  ASSUME NEW q \in Seq(ProbeResult), NEW col, IsColumn(col), HoldsNewest(q, col),
         NEW p \in Outcome, NEW n \in Nat, NEW more, Extends(more, col, n, p)
  PROVE  HoldsNewest(PushSample(q, p), more)
<1>1. /\ IsColumn(more)
      /\ DOMAIN more = DOMAIN col \cup {n} /\ more[n] = p
      /\ n \notin DOMAIN col
      /\ \A k \in DOMAIN col : k < n /\ more[k] = col[k]
  <2>1. DOMAIN more = DOMAIN col \cup {n} /\ more[n] = p
        /\ \A k \in DOMAIN col : k < n /\ more[k] = col[k]
    BY DEF Extends
  <2>2. QED BY <2>1, ExtendSets
<1> DEFINE ring == PushSample(q, p)
           all == Append(q, p)
           len == Len(q)
<1>2. p \in ProbeResult
  BY OutcomeType
<1>3. /\ Len(all) = len + 1 /\ all[len + 1] = p /\ \A j \in 1..len : all[j] = q[j]
      /\ all \in Seq(ProbeResult) /\ len \in Nat
  BY <1>2, AppendProperties, LenProperties
<1>4. /\ Cardinality(DOMAIN more) = Cardinality(DOMAIN col) + 1
      /\ Cardinality(DOMAIN col) \in Nat
  BY <1>1, ColumnFinite, FS_AddElement DEF IsColumn
<1>5. len = IF Cardinality(DOMAIN col) < MaxSamples THEN Cardinality(DOMAIN col) ELSE MaxSamples
  BY DEF HoldsNewest
<1>6. Len(ring) = IF Cardinality(DOMAIN more) < MaxSamples
                  THEN Cardinality(DOMAIN more) ELSE MaxSamples
  <2>1. Len(ring) = IF len + 1 < MaxSamples THEN len + 1
                    ELSE IF len + 1 > MaxSamples THEN MaxSamples ELSE len + 1
    BY <1>2, PushSampleType
  <2> HIDE DEF ring, len
  <2>2. QED BY <1>4, <1>5, <2>1, StateAssumption
<1>7. \A j \in 1..Len(ring) : ring[j] = all[len + 1 - Len(ring) + j]
  <2>1. CASE Len(all) > MaxSamples
    <3> DEFINE first == Len(all) - MaxSamples + 1
    <3>1. ring = SubSeq(all, first, Len(all))
      BY <2>1 DEF PushSample
    <3>2. first \in Int /\ Len(all) \in Int /\ first >= 1
      BY <1>3, <2>1, StateAssumption
    <3>3. \A j \in first..Len(all) : all[j] \in ProbeResult
      <4> SUFFICES ASSUME NEW j \in first..Len(all) PROVE all[j] \in ProbeResult
        OBVIOUS
      <4>1. j \in 1..Len(all)
        BY <3>2
      <4>2. QED BY <1>3, <4>1, ElementOfSeq
    <3> HIDE DEF first, all, ring
    <3>4. /\ Len(ring) = IF first <= Len(all) THEN Len(all) - first + 1 ELSE 0
          /\ \A j \in 1..(Len(all) - first + 1) : ring[j] = all[first + j - 1]
      BY <3>1, <3>2, <3>3, SubSeqProperties
    <3>5. Len(all) - first + 1 = MaxSamples /\ MaxSamples \in Nat
      BY <1>3, StateAssumption DEF first
    <3>6. Len(ring) = MaxSamples
      BY <3>2, <3>4, <3>5
    <3>7. \A j \in 1..Len(ring) : first + j - 1 = len + 1 - Len(ring) + j
      BY <1>3, <3>5, <3>6 DEF first
    <3>8. QED BY <3>4, <3>5, <3>6, <3>7
  <2>2. CASE ~(Len(all) > MaxSamples)
    <3>1. ring = all
      BY <2>2 DEF PushSample
    <3> HIDE DEF ring, all, len
    <3>2. \A j \in 1..Len(ring) : len + 1 - Len(ring) + j = j
      BY <1>3, <3>1
    <3>3. QED BY <3>1, <3>2
  <2>3. QED BY <2>1, <2>2
<1>8. Len(ring) <= len + 1 /\ Len(ring) \in Nat /\ After(more, n) = 0
  <2>1. {j \in DOMAIN more : j > n} = {}
    BY <1>1 DEF IsColumn
  <2>2. After(more, n) = 0
    BY <2>1, FS_EmptySet DEF After
  <2> HIDE DEF ring, len
  <2>3. QED BY <1>3, <1>4, <1>5, <1>6, <2>2, StateAssumption
<1>9. \A k \in DOMAIN col : After(more, k) = After(col, k) + 1 /\ After(col, k) \in Nat
  <2> SUFFICES ASSUME NEW k \in DOMAIN col
               PROVE  After(more, k) = After(col, k) + 1 /\ After(col, k) \in Nat
    OBVIOUS
  <2>1. {j \in DOMAIN more : j > k} = {j \in DOMAIN col : j > k} \cup {n}
    BY <1>1 DEF IsColumn
  <2>2. IsFiniteSet({j \in DOMAIN col : j > k}) /\ After(col, k) \in Nat
    BY ColumnFinite
  <2>3. n \notin {j \in DOMAIN col : j > k}
    BY <1>1
  <2>4. QED BY <2>1, <2>2, <2>3, FS_AddElement DEF After
<1> HIDE DEF ring, all, len
<1>10. ASSUME NEW k \in DOMAIN more, After(more, k) < Len(ring)
       PROVE  ring[Len(ring) - After(more, k)] = more[k]
  <2>1. CASE k = n
    <3>1. Len(ring) - After(more, k) \in 1..Len(ring)
          /\ len + 1 - Len(ring) + (Len(ring) - After(more, k)) = len + 1
      BY <1>3, <1>8, <1>10, <2>1
    <3>2. QED BY <1>1, <1>3, <1>7, <2>1, <3>1
  <2>2. CASE k # n
    <3>1. k \in DOMAIN col
      BY <1>1, <2>2
    <3>2. After(more, k) = After(col, k) + 1 /\ After(col, k) \in Nat
      BY <1>9, <3>1
    <3>3. After(col, k) < len
      BY <1>3, <1>8, <1>10, <3>2
    <3>4. /\ Len(ring) - After(more, k) \in 1..Len(ring)
          /\ len + 1 - Len(ring) + (Len(ring) - After(more, k)) = len - After(col, k)
          /\ len - After(col, k) \in 1..len
      BY <1>3, <1>8, <1>10, <3>2, <3>3
    <3>5. ring[Len(ring) - After(more, k)] = q[len - After(col, k)]
      BY <1>3, <1>7, <3>4
    <3>6. q[len - After(col, k)] = col[k]
      BY <3>1, <3>3 DEF HoldsNewest, len
    <3>7. QED BY <1>1, <3>1, <3>5, <3>6
  <2>3. QED BY <2>1, <2>2
<1>11. HoldsNewest(ring, more)
  BY <1>6, <1>10 DEF HoldsNewest
<1>12. QED BY <1>11 DEF ring

\* The address of a row is that of the newest answer.
LEMMA AddrStaysFit ==
  ASSUME NEW h \in HopState, NEW ever, IsColumn(ever), AddrFits(h.addr, ever),
         NEW p \in Outcome, NEW n \in Nat, NEW more, Extends(more, ever, n, p)
  PROVE  AddrFits(AddProbe(h, p).addr, more)
<1>1. /\ Answered(more) = IF p.addr # None THEN Answered(ever) \cup {n} ELSE Answered(ever)
      /\ n \notin DOMAIN ever
  BY ExtendSets
<1>2. /\ more[n] = p /\ n \in Nat
      /\ \A k \in DOMAIN ever : k < n /\ more[k] = ever[k]
      /\ Answered(ever) \subseteq DOMAIN ever
      /\ DOMAIN ever \subseteq Nat
  BY DEF Extends, Answered, IsColumn
<1>3. AddProbe(h, p).addr = IF p.addr # None /\ h.addr # p.addr THEN p.addr ELSE h.addr
  BY DEF AddProbe, AddrChanges, HopState
<1>4. CASE p.addr # None
  <2>1. AddProbe(h, p).addr = more[n].addr
    BY <1>2, <1>3, <1>4
  <2>2. IsGreatest(n, Answered(more))
    BY <1>1, <1>2, <1>4 DEF IsGreatest
  <2>3. Answered(more) # {}
    BY <1>1, <1>4
  <2>4. \E k \in Answered(more) :
          IsGreatest(k, Answered(more)) /\ AddProbe(h, p).addr = more[k].addr
    BY <1>1, <1>4, <2>1, <2>2
  <2>5. QED BY <2>3, <2>4 DEF AddrFits
<1>5. CASE p.addr = None
  <2>1. Answered(more) = Answered(ever) /\ AddProbe(h, p).addr = h.addr
    BY <1>1, <1>3, <1>5
  <2>2. CASE Answered(ever) = {}
    BY <2>1, <2>2 DEF AddrFits
  <2>3. CASE Answered(ever) # {}
    <3>1. PICK k \in Answered(ever) : IsGreatest(k, Answered(ever)) /\ h.addr = ever[k].addr
      BY <2>3 DEF AddrFits
    <3>2. k \in DOMAIN ever
      BY <1>2, <3>1 DEF IsGreatest
    <3>3. more[k].addr = ever[k].addr
      BY <1>2, <3>2
    <3>4. \E j \in Answered(more) : IsGreatest(j, Answered(more)) /\ h.addr = more[j].addr
      BY <2>1, <3>1, <3>3
    <3>5. QED BY <2>1, <2>3, <3>4 DEF AddrFits
  <2>4. QED BY <2>2, <2>3
<1>6. QED BY <1>4, <1>5

\* add_probe keeps a row in step with both of its columns.
LEMMA AddProbeFits ==
  ASSUME NEW h \in HopState, NEW p \in Outcome, NEW n \in Nat,
         NEW live, NEW ever, IsColumn(live), IsColumn(ever), RowFits(h, live, ever),
         NEW liveMore, Extends(liveMore, live, n, p),
         NEW everMore, Extends(everMore, ever, n, p)
  PROVE  RowFits(AddProbe(h, p), liveMore, everMore)
<1>1. h.stats \in HopStats /\ h.samples \in Seq(ProbeResult)
  BY DEF HopState
<1>2. StatsFit(RecordProbe(h.stats, p), liveMore)
  BY <1>1, RecordProbeFits DEF RowFits
<1>3. HoldsNewest(PushSample(h.samples, p), liveMore)
  BY <1>1, PushSampleHoldsNewest DEF RowFits
<1>4. AddrFits(AddProbe(h, p).addr, everMore)
  BY AddrStaysFit DEF RowFits
<1>5. QED BY <1>2, <1>3, <1>4, AddProbeType DEF RowFits

-----------------------------------------------------------------------------
(* The archive.                                                            *)

\* A column of the archive is a column.
LEMMA ColumnType ==
  ASSUME NEW rounds \in Seq(Seq(Outcome)), NEW from \in Nat \ {0}, NEW i \in Nat \ {0}
  PROVE  /\ IsColumn(Column(rounds, from, i))
         /\ \A k \in DOMAIN Column(rounds, from, i) : k <= Len(rounds)
<1> DEFINE col == Column(rounds, from, i)
<1>1. DOMAIN col = {k \in from..Len(rounds) : Len(rounds[k]) >= i}
  BY DEF Column
<1>2. Len(rounds) \in Nat
  BY LenProperties
<1>3. DOMAIN col \subseteq Nat /\ \A k \in DOMAIN col : k <= Len(rounds)
  BY <1>1, <1>2
<1>4. IsFiniteSet(DOMAIN col)
  BY <1>2, <1>3, FS_BoundedSetOfNaturals
<1>5. ASSUME NEW k \in DOMAIN col PROVE col[k] \in Outcome
  <2>1. k \in 1..Len(rounds) /\ Len(rounds[k]) >= i /\ col[k] = rounds[k][i]
    BY <1>1, <1>2 DEF Column
  <2>2. rounds[k] \in Seq(Outcome)
    BY <2>1, ElementOfSeq
  <2>3. i \in 1..Len(rounds[k])
    BY <2>1, <2>2, LenProperties
  <2>4. QED BY <2>1, <2>2, <2>3, ElementOfSeq
<1>6. QED BY <1>3, <1>4, <1>5 DEF IsColumn

\* A further round adds to the columns of the ttls it probed and to no other.
LEMMA ColumnGrows ==
  ASSUME NEW rounds \in Seq(Seq(Outcome)), NEW r \in Seq(Outcome), NEW i \in Nat \ {0},
         NEW from \in 1..(Len(rounds) + 1),
         NEW more, more = Column(Append(rounds, r), from, i)
  PROVE  /\ i <= Len(r) => Extends(more, Column(rounds, from, i), Len(rounds) + 1, r[i])
         /\ ~(i <= Len(r)) => more = Column(rounds, from, i)
<1> DEFINE n == Len(rounds) + 1
           longer == Append(rounds, r)
           col == Column(rounds, from, i)
<1>1. /\ Len(longer) = n /\ longer[n] = r
      /\ \A k \in 1..Len(rounds) : longer[k] = rounds[k]
      /\ Len(rounds) \in Nat
  BY AppendProperties, LenProperties
<1>2. Len(r) \in Nat
  BY LenProperties
<1>3. /\ DOMAIN col = {k \in from..Len(rounds) : Len(rounds[k]) >= i}
      /\ \A k \in DOMAIN col : col[k] = rounds[k][i]
  BY DEF Column
<1>4. /\ DOMAIN more = {k \in from..Len(longer) : Len(longer[k]) >= i}
      /\ \A k \in DOMAIN more : more[k] = longer[k][i]
  BY DEF Column
<1>5. from..n = (from..Len(rounds)) \cup {n} /\ n \notin from..Len(rounds)
      /\ from..Len(rounds) \subseteq 1..Len(rounds)
  BY <1>1
<1> HIDE DEF longer, col, n
<1>6. \A k \in DOMAIN col : k \in 1..Len(rounds) /\ longer[k][i] = col[k]
  BY <1>1, <1>3, <1>5
<1>7. ASSUME i <= Len(r)
      PROVE  Extends(more, col, n, r[i])
  <2>1. DOMAIN more = DOMAIN col \cup {n}
    BY <1>1, <1>2, <1>3, <1>4, <1>5, <1>7
  <2>2. more[n] = r[i] /\ \A k \in DOMAIN col : more[k] = col[k]
    BY <1>1, <1>4, <1>6, <2>1
  <2>3. \A k \in DOMAIN col : k < n
    BY <1>1, <1>6 DEF n
  <2>4. QED BY <2>1, <2>2, <2>3 DEF Extends
<1>8. ASSUME ~(i <= Len(r))
      PROVE  more = col
  <2>1. DOMAIN more = DOMAIN col
    BY <1>1, <1>2, <1>3, <1>4, <1>5, <1>8
  <2>2. \A k \in DOMAIN col : more[k] = col[k]
    BY <1>4, <1>6, <2>1
  <2>3. /\ more = [k \in DOMAIN more |-> more[k]]
        /\ col = [k \in DOMAIN col |-> col[k]]
    BY DEF Column, col
  <2>4. QED BY <2>1, <2>2, <2>3
<1>9. QED BY <1>7, <1>8 DEF col, n

-----------------------------------------------------------------------------
(* The inductive invariant.                                                *)

MarksKept ==
  /\ archive \in Seq(Seq(Outcome))
  /\ resetMark \in 0..Len(archive)
  /\ pauseMark \in Nat
  /\ cancelMark \in Nat

RowsFit == \A i \in 1..Len(hops) : RowFits(hops[i], Live(i), Ever(i))

\* Where the task still has to pass the flag, or the token, before it records
\* another round, nothing was recorded since the flag, or the token, was set.
Quiescing ==
  /\ paused /\ pc = "probing" => Len(archive) <= pauseMark
  /\ paused => Len(archive) <= pauseMark + 1
  /\ cancelled /\ pc \in {"pausecheck", "pausewait", "probing"}
       => Len(archive) <= cancelMark
  /\ cancelled => Len(archive) <= cancelMark + 1

HistoryInv ==
  /\ EngineInv
  /\ MarksKept
  /\ TableMatchesRounds
  /\ RowsFit
  /\ Quiescing

LEMMA InitHistory == HistoryInit => HistoryInv
<1> SUFFICES ASSUME HistoryInit PROVE HistoryInv
  OBVIOUS
<1>1. EngineInv
  BY InitInv DEF HistoryInit
<1>2. archive = <<>> /\ hops = <<>> /\ resetMark = 0 /\ pauseMark = 0 /\ cancelMark = 0
      /\ paused = FALSE /\ cancelled = FALSE
  BY DEF HistoryInit, Init
<1>3. Len(archive) = 0 /\ DOMAIN archive = {} /\ Len(hops) = 0 /\ archive \in Seq(Seq(Outcome))
  BY <1>2, EmptySeq
<1>4. MarksKept /\ TableMatchesRounds /\ RowsFit /\ Quiescing
  BY <1>2, <1>3 DEF MarksKept, TableMatchesRounds, RowsFit, Quiescing
<1>5. QED BY <1>1, <1>4 DEF HistoryInv

\* Row i after a round was recorded.
LEMMA RecordRoundRow ==
  ASSUME NEW t \in Table, NEW r \in Seq(Outcome), NEW i \in 1..Len(RecordRound(t, r)),
         NEW g, g = IF i <= Len(t) THEN t[i] ELSE NewHop(i)
  PROVE  RecordRound(t, r)[i] = IF i <= Len(r) THEN AddProbe(g, r[i]) ELSE g
<1> DEFINE m == IF Len(t) < Len(r) THEN Len(r) ELSE Len(t)
<1>1. Len(RecordRound(t, r)) = m
  BY RecordRoundTable
<1>2. i \in 1..m
  BY <1>1
<1>3. EnsureHop(t, Len(r)) = [j \in 1..m |-> IF j <= Len(t) THEN t[j] ELSE NewHop(j)]
  BY DEF EnsureHop
<1> HIDE DEF m
<1>4. EnsureHop(t, Len(r))[i] = g /\ DOMAIN EnsureHop(t, Len(r)) = 1..m
  BY <1>2, <1>3
<1>5. QED BY <1>2, <1>4 DEF RecordRound

\* The columns of a ttl beyond the table are empty.
LEMMA BeyondTheTable ==
  ASSUME MarksKept, TableMatchesRounds, NEW i \in Nat, i > Len(hops), Len(hops) \in Nat
  PROVE  DOMAIN Live(i) = {} /\ DOMAIN Ever(i) = {}
<1>1. Len(archive) \in Nat /\ DOMAIN archive = 1..Len(archive)
  BY LenProperties DEF MarksKept
<1>2. \A k \in 1..Len(archive) : Len(archive[k]) \in Nat /\ Len(archive[k]) <= Len(hops)
  <2> SUFFICES ASSUME NEW k \in 1..Len(archive)
               PROVE  Len(archive[k]) \in Nat /\ Len(archive[k]) <= Len(hops)
    OBVIOUS
  <2>1. archive[k] \in Seq(Outcome)
    BY ElementOfSeq DEF MarksKept
  <2>2. QED BY <1>1, <2>1, LenProperties DEF TableMatchesRounds
<1>3. \A from \in Nat \ {0} : {k \in from..Len(archive) : Len(archive[k]) >= i} = {}
  BY <1>1, <1>2
<1>4. resetMark + 1 \in Nat \ {0}
  BY <1>1 DEF MarksKept
<1>5. QED BY <1>3, <1>4 DEF Live, Ever, Column

\* Recording a round keeps every row in step with its columns.
LEMMA CommitRows ==
  ASSUME HistoryInv, CommitRound, archive' = Append(archive, results), resetMark' = resetMark
  PROVE  RowsFit'
<1> DEFINE n == Len(archive) + 1
<1>1. /\ hops' = RecordRound(hops, results)
      /\ hops \in Table /\ Len(hops) \in Nat /\ results \in Seq(Outcome)
      /\ hops \in Seq(HopState)
  BY InvTable DEF HistoryInv, EngineInv, RoundUnderWay, CommitRound, Table
<1>2. archive \in Seq(Seq(Outcome)) /\ Len(archive) \in Nat /\ n \in Nat
      /\ resetMark \in 0..Len(archive)
  BY LenProperties DEF HistoryInv, MarksKept
<1>3. SUFFICES ASSUME NEW i \in 1..Len(hops')
               PROVE  RowFits(hops'[i], Live(i)', Ever(i)')
  BY DEF RowsFit
<1> DEFINE g == IF i <= Len(hops) THEN hops[i] ELSE NewHop(i)
<1>4. i \in Nat \ {0} /\ 1 \in Nat \ {0} /\ resetMark + 1 \in Nat \ {0}
  BY <1>2
<1>5. IsColumn(Live(i)) /\ IsColumn(Ever(i))
  BY <1>2, <1>4, ColumnType DEF Live, Ever
<1>6. g \in HopState /\ RowFits(g, Live(i), Ever(i))
  <2>1. CASE i <= Len(hops)
    <3>1. i \in 1..Len(hops)
      BY <1>1, <1>4, <2>1
    <3>2. QED BY <1>1, <2>1, <3>1, ElementOfSeq DEF HistoryInv, RowsFit
  <2>2. CASE ~(i <= Len(hops))
    <3>1. DOMAIN Live(i) = {} /\ DOMAIN Ever(i) = {}
      BY <1>1, <1>4, <2>2, BeyondTheTable DEF HistoryInv
    <3>2. StatsFit(NewStats, Live(i)) /\ HoldsNewest(<<>>, Live(i))
      BY <3>1, EmptyFits
    <3>3. AddrFits(None, Ever(i))
      BY <3>1 DEF AddrFits, Answered
    <3>4. g = NewHop(i) /\ NewHop(i) \in HopState
      BY <1>4, <2>2, NewHopType
    <3>5. RowFits(NewHop(i), Live(i), Ever(i))
      BY <3>2, <3>3 DEF RowFits, NewHop
    <3>6. QED BY <3>4, <3>5
  <2>3. QED BY <2>1, <2>2
<1>7. hops'[i] = IF i <= Len(results) THEN AddProbe(g, results[i]) ELSE g
  BY <1>1, RecordRoundRow
<1>8. Live(i)' = Column(Append(archive, results), resetMark + 1, i)
      /\ Ever(i)' = Column(Append(archive, results), 1, i)
  BY DEF Live, Ever
<1>9. resetMark + 1 \in 1..(Len(archive) + 1) /\ 1 \in 1..(Len(archive) + 1)
  BY <1>2
<1> HIDE DEF g
<1>10. CASE i <= Len(results)
  <2>1. results[i] \in Outcome
    BY <1>1, <1>4, <1>10, ElementOfSeq, LenProperties
  <2>2. Extends(Live(i)', Live(i), n, results[i])
    BY <1>1, <1>2, <1>4, <1>8, <1>9, <1>10, ColumnGrows DEF Live
  <2>3. Extends(Ever(i)', Ever(i), n, results[i])
    BY <1>1, <1>2, <1>4, <1>8, <1>9, <1>10, ColumnGrows DEF Ever
  <2> HIDE DEF n
  <2>4. RowFits(AddProbe(g, results[i]), Live(i)', Ever(i)')
    BY <1>2, <1>5, <1>6, <2>1, <2>2, <2>3, AddProbeFits
  <2>5. QED BY <1>7, <1>10, <2>4
<1>11. CASE ~(i <= Len(results))
  <2>1. Live(i)' = Live(i) /\ Ever(i)' = Ever(i)
    BY <1>1, <1>2, <1>4, <1>8, <1>9, <1>11, ColumnGrows DEF Live, Ever
  <2>2. QED BY <1>6, <1>7, <1>11, <2>1
<1>12. QED BY <1>10, <1>11

LEMMA CommitHistory ==
  ASSUME HistoryInv, CommitRound, archive' = Append(archive, results), UNCHANGED marks
  PROVE  HistoryInv'
<1>1. EngineInv' /\ RowsFit'
  BY CommitRoundInv, CommitRows DEF HistoryInv, marks
<1>2. /\ hops' = RecordRound(hops, results)
      /\ hops \in Table /\ Len(hops) \in Nat /\ results \in Seq(Outcome)
      /\ UNCHANGED <<paused, cancelled, resetMark, pauseMark, cancelMark>>
      /\ pc = "probing" /\ pc' = "bump"
  BY InvTable DEF HistoryInv, EngineInv, RoundUnderWay, CommitRound, marks
<1>3. /\ archive \in Seq(Seq(Outcome)) /\ Len(archive) \in Nat
      /\ resetMark \in 0..Len(archive) /\ pauseMark \in Nat /\ cancelMark \in Nat
      /\ DOMAIN archive = 1..Len(archive)
  BY LenProperties DEF HistoryInv, MarksKept
<1>4. /\ archive' \in Seq(Seq(Outcome)) /\ Len(archive') = Len(archive) + 1
      /\ \A k \in 1..Len(archive) : archive'[k] = archive[k]
      /\ archive'[Len(archive) + 1] = results
  BY <1>2, <1>3, AppendProperties
<1>5. MarksKept'
  BY <1>2, <1>3, <1>4 DEF MarksKept
<1>6. Quiescing'
  BY <1>2, <1>3, <1>4 DEF HistoryInv, Quiescing
<1>7. TableMatchesRounds'
  <2>1. DOMAIN archive' = 1..(Len(archive) + 1) /\ Len(results) \in Nat
    BY <1>2, <1>4, LenProperties
  <2>2. Len(hops') = IF Len(hops) < Len(results) THEN Len(results) ELSE Len(hops)
    BY <1>2, RecordRoundTable
  <2>3. \A k \in DOMAIN archive' : Len(archive'[k]) <= Len(hops')
    <3> SUFFICES ASSUME NEW k \in 1..(Len(archive) + 1) PROVE Len(archive'[k]) <= Len(hops')
      BY <2>1
    <3>1. CASE k = Len(archive) + 1
      BY <1>2, <1>4, <2>1, <2>2, <3>1
    <3>2. CASE k # Len(archive) + 1
      <4>1. k \in 1..Len(archive)
        BY <1>3, <3>2
      <4>2. archive[k] \in Seq(Outcome) /\ Len(archive[k]) <= Len(hops)
        BY <1>3, <4>1, ElementOfSeq DEF HistoryInv, TableMatchesRounds
      <4>3. Len(archive[k]) \in Nat
        BY <4>2, LenProperties
      <4>4. QED BY <1>2, <1>4, <2>1, <2>2, <4>1, <4>2, <4>3
    <3>3. QED BY <3>1, <3>2
  <2>4. ASSUME hops' # <<>>
        PROVE  \E k \in DOMAIN archive' : Len(archive'[k]) = Len(hops')
    <3>1. CASE Len(hops) <= Len(results)
      <4>1. Len(archive'[Len(archive) + 1]) = Len(hops')
        BY <1>2, <1>4, <2>1, <2>2, <3>1
      <4>2. QED BY <1>3, <2>1, <4>1
    <3>2. CASE ~(Len(hops) <= Len(results))
      <4>1. hops # <<>>
        BY <1>2, <2>1, <3>2, EmptySeq
      <4>2. PICK k \in DOMAIN archive : Len(archive[k]) = Len(hops)
        BY <4>1 DEF HistoryInv, TableMatchesRounds
      <4>3. k \in 1..Len(archive) /\ k \in DOMAIN archive'
        BY <1>3, <2>1
      <4>4. Len(hops') = Len(hops)
        BY <1>2, <2>1, <2>2, <3>2
      <4>5. QED BY <1>4, <4>2, <4>3, <4>4
    <3>3. QED BY <1>2, <2>1, <3>1, <3>2
  <2>5. QED BY <2>3, <2>4 DEF TableMatchesRounds
<1>8. QED BY <1>1, <1>5, <1>6, <1>7 DEF HistoryInv

\* A reset empties the columns of the live statistics and no others.
LEMMA ResetHistory ==
  ASSUME HistoryInv, Reset, resetMark' = Len(archive),
         UNCHANGED <<archive, pauseMark, cancelMark>>
  PROVE  HistoryInv'
<1>1. EngineInv'
  BY ResetInv DEF HistoryInv
<1>2. /\ hops' = ResetHops(hops) /\ UNCHANGED <<paused, cancelled, pc>>
      /\ hops \in Table /\ hops \in Seq(HopState)
      /\ Len(hops) \in Nat /\ DOMAIN hops = 1..Len(hops)
  BY InvTable DEF HistoryInv, Reset, local, Table
<1>3. Len(hops') = Len(hops) /\ hops' \in Seq(HopState)
  BY <1>2, ResetHopsTable DEF Table
<1>4. archive \in Seq(Seq(Outcome)) /\ Len(archive) \in Nat /\ DOMAIN archive = 1..Len(archive)
  BY LenProperties DEF HistoryInv, MarksKept
<1>5. MarksKept' /\ Quiescing'
  BY <1>2, <1>4 DEF HistoryInv, MarksKept, Quiescing
<1>6. TableMatchesRounds'
  <2>1. hops' # <<>> => hops # <<>>
    BY <1>2, <1>3, EmptySeq
  <2>2. QED BY <1>3, <2>1 DEF HistoryInv, TableMatchesRounds
<1>7. RowsFit'
  <2> SUFFICES ASSUME NEW i \in 1..Len(hops) PROVE RowFits(hops'[i], Live(i)', Ever(i)')
    BY <1>3 DEF RowsFit
  <2>1. hops[i] \in HopState /\ AddrFits(hops[i].addr, Ever(i)) /\ hops'[i] = ResetHop(hops[i])
    BY <1>2, ElementOfSeq DEF HistoryInv, RowsFit, RowFits, ResetHops
  <2>2. DOMAIN Live(i)' = {}
    BY <1>4 DEF Live, Column
  <2>3. StatsFit(NewStats, Live(i)') /\ HoldsNewest(<<>>, Live(i)')
    BY <2>2, EmptyFits
  <2>4. hops'[i].stats = NewStats /\ hops'[i].samples = <<>> /\ hops'[i].addr = hops[i].addr
    BY <2>1 DEF ResetHop, HopState
  <2>5. Ever(i)' = Ever(i)
    BY DEF Ever
  <2>6. QED BY <2>1, <2>3, <2>4, <2>5 DEF RowFits
<1>8. QED BY <1>1, <1>5, <1>6, <1>7 DEF HistoryInv

\* The steps that record nothing and reset nothing.
LEMMA QuietHistory ==
  ASSUME HistoryInv, EngineInv', UNCHANGED <<hops, archive, resetMark>>,
         pauseMark' \in Nat, cancelMark' \in Nat, Quiescing'
  PROVE  HistoryInv'
<1>1. MarksKept' /\ TableMatchesRounds'
  BY DEF HistoryInv, MarksKept, TableMatchesRounds
<1>2. RowsFit'
  BY DEF HistoryInv, RowsFit, Live, Ever
<1>3. QED BY <1>1, <1>2 DEF HistoryInv

LEMMA StepHistory == HistoryInv /\ [HistoryNext]_historyVars => HistoryInv'
<1> SUFFICES ASSUME HistoryInv, [HistoryNext]_historyVars PROVE HistoryInv'
  OBVIOUS
<1>1. EngineInv /\ MarksKept /\ Quiescing /\ Len(archive) \in Nat
  BY LenProperties DEF HistoryInv, MarksKept
<1>2. CASE UNCHANGED historyVars
  <2>1. UNCHANGED engineVars /\ UNCHANGED <<archive, marks>>
    BY <1>2 DEF historyVars
  <2>2. EngineInv'
    BY <1>1, <2>1, StepInv
  <2>3. QED BY <1>1, <2>1, <2>2, QuietHistory DEF engineVars, marks, MarksKept, Quiescing
<1>3. CASE CommitRound /\ archive' = Append(archive, results) /\ UNCHANGED marks
  BY <1>3, CommitHistory
<1>4. CASE EngineStep /\ ~CommitRound /\ UNCHANGED <<archive, marks>>
  <2>1. EngineInv'
    BY <1>1, <1>4, StepInv DEF EngineNext
  <2>2. UNCHANGED <<hops, paused, cancelled>>
    BY <1>4 DEF EngineStep, LoopTop, CheckPause, PauseTick, CancelInPause, SendProbe,
         BumpRound, IntervalElapsed, CancelInSleep, shared
  <2>3. /\ paused /\ pc' = "probing" => pc = "probing"
        /\ cancelled /\ pc' \in {"pausecheck", "pausewait", "probing"}
             => pc \in {"pausecheck", "pausewait", "probing"}
    BY <1>4 DEF EngineStep, LoopTop, CheckPause, PauseTick, CancelInPause, SendProbe,
         BumpRound, IntervalElapsed, CancelInSleep
  <2>4. Quiescing'
    BY <1>1, <1>4, <2>2, <2>3 DEF Quiescing, marks
  <2>5. QED BY <1>1, <1>4, <2>1, <2>2, <2>4, QuietHistory DEF marks, MarksKept
<1>5. CASE /\ TogglePause
           /\ pauseMark' = IF paused THEN 0 ELSE Len(archive)
           /\ UNCHANGED <<archive, resetMark, cancelMark>>
  <2>1. EngineInv'
    BY <1>1, <1>5, StepInv DEF EngineNext, UserStep
  <2>2. Quiescing'
    <3>1. CASE paused
      BY <1>1, <1>5, <3>1 DEF Quiescing, TogglePause, local
    <3>2. CASE ~paused
      BY <1>1, <1>5, <3>2 DEF Quiescing, TogglePause, local
    <3>3. QED BY <3>1, <3>2
  <2>3. QED BY <1>1, <1>5, <2>1, <2>2, QuietHistory DEF MarksKept, TogglePause, shared
<1>6. CASE /\ Cancel
           /\ cancelMark' = Len(archive)
           /\ UNCHANGED <<archive, resetMark, pauseMark>>
  <2>1. EngineInv'
    BY <1>1, <1>6, StepInv DEF EngineNext, UserStep
  <2>2. Quiescing'
    BY <1>1, <1>6 DEF Quiescing, Cancel, local
  <2>3. QED BY <1>1, <1>6, <2>1, <2>2, QuietHistory DEF MarksKept, Cancel, shared
<1>7. CASE /\ Reset
           /\ resetMark' = Len(archive)
           /\ UNCHANGED <<archive, pauseMark, cancelMark>>
  BY <1>7, ResetHistory
<1>8. QED BY <1>2, <1>3, <1>4, <1>5, <1>6, <1>7 DEF HistoryNext

-----------------------------------------------------------------------------
(* The theorems.                                                           *)

\* The invariant holds of every behaviour of an engine whose rounds, resets,
\* pauses and cancellation are remembered.
THEOREM HistoryInvariant == HistorySpec => []HistoryInv
BY InitHistory, StepHistory, PTL DEF HistorySpec

\* The engine keeps its types.
THEOREM HistoryTypeCorrect == HistorySpec => []TypeOK
<1>1. HistoryInv => TypeOK
  BY DEF HistoryInv, EngineInv
<1>2. QED BY <1>1, HistoryInvariant, PTL

\* Every row is what the recorded rounds make it.
LEMMA RowsMatch == HistoryInv => RecordMatchesRounds
<1> SUFFICES ASSUME HistoryInv, NEW i \in DOMAIN hops
             PROVE  /\ hops[i].stats = StatsOf(Live(i))
                    /\ HoldsNewest(hops[i].samples, Live(i))
                    /\ hops[i].addr = AddrOf(Ever(i))
  BY DEF RecordMatchesRounds
<1>1. /\ hops \in Seq(HopState) /\ i \in 1..Len(hops)
      /\ archive \in Seq(Seq(Outcome)) /\ Len(archive) \in Nat
      /\ i \in Nat \ {0} /\ 1 \in Nat \ {0} /\ resetMark + 1 \in Nat \ {0}
  BY InvTable, LenProperties DEF HistoryInv, MarksKept, Table
<1>2. IsColumn(Live(i)) /\ IsColumn(Ever(i))
  BY <1>1, ColumnType DEF Live, Ever
<1>3. hops[i] \in HopState /\ RowFits(hops[i], Live(i), Ever(i))
  BY <1>1, ElementOfSeq DEF HistoryInv, RowsFit
<1>4. hops[i].stats = StatsOf(Live(i)) /\ hops[i].addr = AddrOf(Ever(i))
  BY <1>2, <1>3, FitIsMatch
<1>5. QED BY <1>3, <1>4 DEF RowFits

\* The statistics, the samples and the address of every row are those computed
\* from the rounds that entered the record.
THEOREM RecordIsFaithful == HistorySpec => []RecordMatchesRounds
BY RowsMatch, HistoryInvariant, PTL

\* The table reaches as far as the longest path ever recorded.
THEOREM TableIsFaithful == HistorySpec => []TableMatchesRounds
<1>1. HistoryInv => TableMatchesRounds
  BY DEF HistoryInv
<1>2. QED BY <1>1, HistoryInvariant, PTL

\* At most the round under way is recorded after the flag was set.
THEOREM PauseHolds == HistorySpec => []PauseQuiesces
<1>1. HistoryInv => PauseQuiesces
  BY DEF HistoryInv, Quiescing, PauseQuiesces
<1>2. QED BY <1>1, HistoryInvariant, PTL

\* At most one more round is recorded after the token fired.
THEOREM CancelHolds == HistorySpec => []CancelQuiesces
<1>1. HistoryInv => CancelQuiesces
  BY DEF HistoryInv, Quiescing, CancelQuiesces
<1>2. QED BY <1>1, HistoryInvariant, PTL

\* What the health functions make of a row's numbers is what the table of
\* colours says of them.
LEMMA ColourOf ==
  ASSUME NEW s, NEW rtt, NEW sent, NEW heard \in Nat,
         s.last_rtt = rtt, s.sent = sent, s.received = heard, s.lost = sent - heard,
         heard > 0
  PROVE  LET Loses(pct) == 100 * (sent - heard) >= pct * sent
             Slow(limit) == rtt # None /\ rtt >= limit
         IN  HealthFg[CombinedHealth(RttHealth(s.last_rtt), LossHealth(s))] =
               IF Slow(RttCrit) \/ Loses(LossCrit) THEN "red"
               ELSE IF Slow(RttWarn) \/ Loses(LossWarn) THEN "yellow"
               ELSE IF rtt = None THEN "darkgray" ELSE "green"
<1> DEFINE Loses(pct) == 100 * (sent - heard) >= pct * sent
           Slow(limit) == rtt # None /\ rtt >= limit
           byRtt == RttHealth(rtt)
           byLoss == LossHealth(s)
<1>1. byRtt = IF rtt = None THEN "nodata"
              ELSE IF rtt >= RttCrit THEN "critical"
              ELSE IF rtt >= RttWarn THEN "warning" ELSE "good"
  BY DEF RttHealth
<1>2. byLoss = IF Loses(LossCrit) THEN "critical"
               ELSE IF Loses(LossWarn) THEN "warning" ELSE "good"
  <2>1. s.received # 0
    OBVIOUS
  <2>2. \A pct : LossAtLeast(s, pct) <=> Loses(pct)
    BY DEF LossAtLeast
  <2> HIDE DEF Loses
  <2>3. QED BY <2>1, <2>2 DEF LossHealth
<1>3. /\ HealthFg["critical"] = "red" /\ HealthFg["warning"] = "yellow"
      /\ HealthFg["nodata"] = "darkgray" /\ HealthFg["good"] = "green"
  BY DEF HealthFg
<1> HIDE DEF byRtt, byLoss, Loses
<1>4. HealthFg[CombinedHealth(byRtt, byLoss)] =
        IF Slow(RttCrit) \/ Loses(LossCrit) THEN "red"
        ELSE IF Slow(RttWarn) \/ Loses(LossWarn) THEN "yellow"
        ELSE IF rtt = None THEN "darkgray" ELSE "green"
  BY <1>1, <1>2, <1>3 DEF CombinedHealth
<1>5. QED BY <1>4 DEF byRtt, byLoss, Loses

\* The row that stands for the target is the farthest that heard anything
\* since the last reset, and its colour is earned by those rounds.
LEMMA ColourMatches == HistoryInv => RowColourEarned
<1> SUFFICES ASSUME HistoryInv PROVE RowColourEarned
  OBVIOUS
<1> DEFINE far == {i \in DOMAIN hops : Heard(Live(i)) # {}}
           heard == {i \in DOMAIN hops : hops[i].stats.received > 0}
<1>1. /\ hops \in Seq(HopState) /\ Len(hops) \in Nat /\ DOMAIN hops = 1..Len(hops)
      /\ archive \in Seq(Seq(Outcome)) /\ Len(archive) \in Nat
      /\ resetMark + 1 \in Nat \ {0}
  BY InvTable, LenProperties DEF HistoryInv, MarksKept, Table
<1>2. \A i \in 1..Len(hops) : IsColumn(Live(i)) /\ StatsFit(hops[i].stats, Live(i))
  BY <1>1, ColumnType DEF Live, HistoryInv, RowsFit, RowFits
<1>3. \A i \in 1..Len(hops) : hops[i].stats.received > 0 <=> Heard(Live(i)) # {}
  <2> SUFFICES ASSUME NEW i \in 1..Len(hops)
               PROVE  hops[i].stats.received > 0 <=> Heard(Live(i)) # {}
    OBVIOUS
  <2>1. IsFiniteSet(Heard(Live(i))) /\ Cardinality(Heard(Live(i))) \in Nat
    BY <1>2, ColumnFinite
  <2>2. hops[i].stats.received = Cardinality(Heard(Live(i)))
    BY <1>2 DEF StatsFit
  <2>3. QED BY <2>1, <2>2, FS_EmptySet
<1>4. heard = far
  BY <1>1, <1>3
<1>5. CASE far = {}
  <2>1. DestinationHealth(hops) = "nodata"
    BY <1>4, <1>5 DEF DestinationHealth, DestinationRow
  <2>2. HealthFg["nodata"] = "darkgray"
    BY DEF HealthFg
  <2>3. QED BY <1>5, <2>1, <2>2 DEF RowColourEarned
<1>6. CASE far # {}
  <2> DEFINE d == Greatest(far)
             col == Live(d)
             s == hops[d].stats
  <2>1. DestinationRow(hops) = d
    BY <1>4, <1>6 DEF DestinationRow, Greatest
  <2>2. d \in far /\ d \in 1..Len(hops)
    <3>1. far \in SUBSET (0..Len(hops))
      BY <1>1
    <3> HIDE DEF far
    <3>2. IsGreatest(Greatest(far), far)
      BY <1>1, <1>6, <3>1, GreatestExists
    <3>3. d \in far
      BY <3>2 DEF IsGreatest
    <3>4. QED BY <1>1, <3>3 DEF far
  <2> HIDE DEF d
  <2>3. IsColumn(col) /\ StatsFit(s, col) /\ Heard(col) # {}
    BY <1>2, <2>2
  <2>4. /\ Cardinality(DOMAIN col) \in Nat /\ Cardinality(Heard(col)) \in Nat
        /\ Cardinality(Heard(col)) > 0
    BY <2>3, ColumnFinite, FS_EmptySet
  <2>5. s.last_rtt = col[Greatest(DOMAIN col)].rtt
    <3>1. DOMAIN col # {} /\ DOMAIN col \in SUBSET Nat
      BY <2>3 DEF Heard, IsColumn
    <3>2. QED BY <2>3, <3>1, GreatestIs DEF StatsFit
  <2>6. /\ s.sent = Cardinality(DOMAIN col) /\ s.received = Cardinality(Heard(col))
        /\ s.lost = Cardinality(DOMAIN col) - Cardinality(Heard(col))
    BY <2>3 DEF StatsFit
  <2>7. DestinationHealth(hops) = CombinedHealth(RttHealth(s.last_rtt), LossHealth(s))
    BY <2>1, <2>2 DEF DestinationHealth
  <2> HIDE DEF s, col
  <2>8. LET sent == Cardinality(DOMAIN col)
            last == col[Greatest(DOMAIN col)].rtt
            Loses(pct) == 100 * (sent - Cardinality(Heard(col))) >= pct * sent
            Slow(limit) == last # None /\ last >= limit
        IN  HealthFg[DestinationHealth(hops)] =
              IF Slow(RttCrit) \/ Loses(LossCrit) THEN "red"
              ELSE IF Slow(RttWarn) \/ Loses(LossWarn) THEN "yellow"
              ELSE IF last = None THEN "darkgray" ELSE "green"
    BY <2>4, <2>5, <2>6, <2>7, ColourOf
  <2>9. QED BY <1>6, <2>8 DEF RowColourEarned, d, col
<1>7. QED BY <1>5, <1>6

\* A target's colour is the one its rounds have earned.
THEOREM ColourIsEarned == HistorySpec => []RowColourEarned
BY ColourMatches, HistoryInvariant, PTL

=============================================================================

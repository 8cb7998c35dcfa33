------------------------- MODULE TraceEngineProofs -------------------------
(***************************************************************************)
(* Proofs about TraceEngine, for every set of addresses, every limit and   *)
(* every number of rounds.                                                 *)
(***************************************************************************)
EXTENDS TraceEngine, SequenceTheorems, TLAPS

-----------------------------------------------------------------------------
(* Lemmas about the operators of TraceState.                               *)

\* Every outcome of a probe is a well-formed result that is a loss when it
\* has an error.
LEMMA OutcomeType ==
  ASSUME NEW p \in Outcome
  PROVE  p \in ProbeResult /\ (p.error => p.rtt = None)
BY DEF Outcome

\* A new hop is well formed and balanced, and so is a hop that was reset.
LEMMA NewHopType ==
  ASSUME NEW i \in Nat
  PROVE  /\ NewHop(i) \in HopState
         /\ HopBalanced(NewHop(i))
         /\ NewHop(i).stats.sent = 0
<1>1. NewStats \in HopStats
  BY DEF NewStats, HopStats, OptRTT
<1>2. NewHop(i) \in HopState
  BY <1>1 DEF NewHop, HopState
<1>3. HopBalanced(NewHop(i)) /\ NewHop(i).stats.sent = 0
  BY StateAssumption DEF HopBalanced, NewHop, NewStats
<1>4. QED BY <1>2, <1>3

LEMMA ResetHopType ==
  ASSUME NEW h \in HopState
  PROVE  /\ ResetHop(h) \in HopState
         /\ HopBalanced(ResetHop(h))
         /\ ResetHop(h).stats.sent = 0
<1>1. NewStats \in HopStats
  BY DEF NewStats, HopStats, OptRTT
<1>2. ResetHop(h) \in HopState
  <2>1. <<>> \in Seq(ProbeResult)
    BY EmptySeq
  <2>2. QED BY <1>1, <2>1 DEF ResetHop, HopState
<1>3. ResetHop(h).stats = NewStats /\ ResetHop(h).samples = <<>>
  BY DEF ResetHop, HopState
<1>4. HopBalanced(ResetHop(h)) /\ ResetHop(h).stats.sent = 0
  BY <1>3, StateAssumption DEF HopBalanced, NewStats
<1>5. QED BY <1>2, <1>4

\* record_probe keeps statistics well formed and charges one probe.
LEMMA RecordProbeType ==
  ASSUME NEW s \in HopStats, NEW p \in ProbeResult
  PROVE  /\ RecordProbe(s, p) \in HopStats
         /\ RecordProbe(s, p).sent = s.sent + 1
<1>1. p.rtt # None => /\ Lower(s.min_rtt, p.rtt) \in OptRTT
                      /\ Higher(s.max_rtt, p.rtt) \in OptRTT
  BY DEF Lower, Higher, OptRTT, HopStats, ProbeResult
<1>2. Errors(p) \in Nat /\ Received(p) \in {0, 1}
  BY DEF Errors, Received
<1>3. QED BY <1>1, <1>2 DEF RecordProbe, HopStats, OptRTT, ProbeResult

\* The ring takes the new sample and gives up the oldest ones.
LEMMA PushSampleType ==
  ASSUME NEW q \in Seq(ProbeResult), NEW p \in ProbeResult
  PROVE  /\ PushSample(q, p) \in Seq(ProbeResult)
         /\ Len(PushSample(q, p)) = IF Len(q) + 1 < MaxSamples THEN Len(q) + 1
                                    ELSE IF Len(q) + 1 > MaxSamples THEN MaxSamples
                                    ELSE Len(q) + 1
<1> DEFINE all == Append(q, p)
<1>1. all \in Seq(ProbeResult) /\ Len(all) = Len(q) + 1
  BY AppendProperties
<1>2. CASE Len(all) > MaxSamples
  <2>1. PushSample(q, p) = SubSeq(all, Len(all) - MaxSamples + 1, Len(all))
    BY <1>2 DEF PushSample
  <2>2. /\ Len(all) - MaxSamples + 1 \in 1..(Len(all) + 1)
        /\ Len(all) \in (Len(all) - MaxSamples + 1 - 1)..Len(all)
    BY <1>1, <1>2, StateAssumption
  <2>3. /\ PushSample(q, p) \in Seq(ProbeResult)
        /\ Len(PushSample(q, p)) = MaxSamples
    <3> DEFINE first == Len(all) - MaxSamples + 1
               last == Len(all)
    <3>1. first \in 1..(Len(all) + 1) /\ last \in (first - 1)..Len(all)
      BY <2>2
    <3>2. last - first + 1 = MaxSamples
      BY <1>1, StateAssumption
    <3>3. PushSample(q, p) = SubSeq(all, first, last)
      BY <2>1
    <3> HIDE DEF all, first, last
    <3>4. /\ SubSeq(all, first, last) \in Seq(ProbeResult)
          /\ Len(SubSeq(all, first, last)) = last - first + 1
      BY <1>1, <3>1, SubSeqProperties
    <3>5. QED BY <3>2, <3>3, <3>4
  <2>4. QED BY <2>3, <1>1, <1>2, StateAssumption
<1>3. CASE ~(Len(all) > MaxSamples)
  BY <1>1, <1>3, StateAssumption DEF PushSample
<1>4. QED BY <1>2, <1>3

\* add_probe charges the hop with one probe and keeps its counters in step.
LEMMA AddProbeType ==
  ASSUME NEW h \in HopState, NEW p \in Outcome
  PROVE  /\ AddProbe(h, p) \in HopState
         /\ AddProbe(h, p).stats = RecordProbe(h.stats, p)
         /\ AddProbe(h, p).samples = PushSample(h.samples, p)
         /\ AddProbe(h, p).stats.sent = h.stats.sent + 1
         /\ AddProbe(h, p).ttl = h.ttl
<1>1. p \in ProbeResult
  BY OutcomeType
<1>2. h.stats \in HopStats /\ h.samples \in Seq(ProbeResult)
  BY DEF HopState
<1>3. /\ RecordProbe(h.stats, p) \in HopStats
      /\ RecordProbe(h.stats, p).sent = h.stats.sent + 1
  BY <1>1, <1>2, RecordProbeType
<1>4. PushSample(h.samples, p) \in Seq(ProbeResult)
  BY <1>1, <1>2, PushSampleType
<1>5. AddrChanges(h, p) => p.addr \in Addr
  BY <1>1 DEF AddrChanges, ProbeResult
<1>6. QED BY <1>3, <1>4, <1>5 DEF AddProbe, HopState

LEMMA AddProbeBalanced ==
  ASSUME NEW h \in HopState, NEW p \in Outcome, HopBalanced(h)
  PROVE  HopBalanced(AddProbe(h, p))
<1> DEFINE s == h.stats
           n == RecordProbe(s, p)
<1>1. p \in ProbeResult /\ (p.error => p.rtt = None)
  BY OutcomeType
<1>2. s \in HopStats /\ h.samples \in Seq(ProbeResult) /\ Len(h.samples) \in Nat
  BY LenProperties DEF HopState
<1>3. AddProbe(h, p).stats = n /\ AddProbe(h, p).samples = PushSample(h.samples, p)
  BY AddProbeType
<1>4. n.sent = n.received + n.lost /\ n.errors <= n.lost
  <2>1. Received(p) \in {0, 1} /\ Errors(p) <= 1 - Received(p) /\ Errors(p) \in {0, 1}
    BY <1>1 DEF Received, Errors
  <2>2. QED BY <1>2, <2>1 DEF HopBalanced, RecordProbe, HopStats
<1>5. Len(PushSample(h.samples, p)) = IF n.sent < MaxSamples THEN n.sent ELSE MaxSamples
  <2> DEFINE k == Len(h.samples)
             m == Len(PushSample(h.samples, p))
  <2>1. m = IF k + 1 < MaxSamples THEN k + 1
            ELSE IF k + 1 > MaxSamples THEN MaxSamples ELSE k + 1
    BY <1>1, <1>2, PushSampleType
  <2>2. k = IF s.sent < MaxSamples THEN s.sent ELSE MaxSamples
    BY DEF HopBalanced
  <2>3. n.sent = s.sent + 1 /\ s.sent \in Nat /\ k \in Nat
    BY <1>1, <1>2, RecordProbeType DEF HopStats
  <2> HIDE DEF k, m, n, s
  <2>4. m = IF n.sent < MaxSamples THEN n.sent ELSE MaxSamples
    BY <2>1, <2>2, <2>3, StateAssumption
  <2>5. QED BY <2>4 DEF m
<1>6. /\ n.received = 0 <=> n.min_rtt = None
      /\ n.min_rtt = None <=> n.max_rtt = None
      /\ n.min_rtt # None => n.min_rtt <= n.max_rtt
      /\ n.last_rtt # None => /\ n.min_rtt # None
                              /\ n.min_rtt <= n.last_rtt
                              /\ n.last_rtt <= n.max_rtt
  <2>1. /\ s.received \in Nat
        /\ s.min_rtt # None => s.min_rtt \in Nat
        /\ s.max_rtt # None => s.max_rtt \in Nat
        /\ p.rtt # None => p.rtt \in Nat
        /\ None \notin Nat
    BY <1>1, <1>2, StateAssumption DEF HopStats, OptRTT, ProbeResult
  <2>2. /\ s.received = 0 <=> s.min_rtt = None
        /\ s.min_rtt = None <=> s.max_rtt = None
        /\ s.min_rtt # None => s.min_rtt <= s.max_rtt
    BY DEF HopBalanced
  <2>3. CASE p.rtt = None
    <3>1. /\ n.received = s.received
          /\ n.min_rtt = s.min_rtt /\ n.max_rtt = s.max_rtt /\ n.last_rtt = None
      BY <1>2, <2>3 DEF RecordProbe, Received, HopStats
    <3>2. QED BY <2>2, <3>1
  <2>4. CASE p.rtt # None
    <3>1. /\ n.received = s.received + 1
          /\ n.min_rtt = Lower(s.min_rtt, p.rtt)
          /\ n.max_rtt = Higher(s.max_rtt, p.rtt)
          /\ n.last_rtt = p.rtt
      BY <1>2, <2>4 DEF RecordProbe, Received, HopStats
    <3> HIDE DEF n, s
    <3>2. /\ n.min_rtt \in Nat /\ n.max_rtt \in Nat
          /\ n.min_rtt <= p.rtt /\ p.rtt <= n.max_rtt
      BY <2>1, <2>2, <2>4, <3>1 DEF Lower, Higher
    <3>3. QED BY <2>1, <2>4, <3>1, <3>2
  <2>5. QED BY <2>3, <2>4
<1>7. QED BY <1>3, <1>4, <1>5, <1>6 DEF HopBalanced

-----------------------------------------------------------------------------
(* Lemmas about the hop table.                                             *)

\* A table is a sequence of hops, all of them balanced.
Table == {t \in Seq(HopState) : \A i \in DOMAIN t : HopBalanced(t[i])}

\* A function on 1..n with values in S is a sequence over S of length n.
LEMMA FunctionIsSeq ==
  ASSUME NEW S, NEW n \in Nat, NEW f \in [1..n -> S]
  PROVE  f \in Seq(S) /\ Len(f) = n /\ DOMAIN f = 1..n
<1>1. f \in Seq(S)
  BY SeqDef
<1>2. DOMAIN f = 1..n /\ DOMAIN f = 1..Len(f) /\ Len(f) \in Nat
  BY <1>1, LenProperties
<1>3. QED BY <1>1, <1>2

\* The write section of probe_round: the rows the round reached are charged
\* with one probe each, starting from a new hop where there was none, and the
\* rows beyond it are left alone.
LEMMA RecordRoundTable ==
  ASSUME NEW t \in Table, NEW r \in Seq(Outcome)
  PROVE  /\ RecordRound(t, r) \in Table
         /\ Len(RecordRound(t, r)) = IF Len(t) < Len(r) THEN Len(r) ELSE Len(t)
         /\ \A i \in 1..Len(RecordRound(t, r)) :
              RecordRound(t, r)[i].stats.sent =
                (IF i <= Len(t) THEN t[i].stats.sent ELSE 0)
                  + (IF i <= Len(r) THEN 1 ELSE 0)
<1> DEFINE n == IF Len(t) < Len(r) THEN Len(r) ELSE Len(t)
           g == EnsureHop(t, Len(r))
           f == RecordRound(t, r)
<1>1. /\ t \in Seq(HopState) /\ Len(t) \in Nat /\ DOMAIN t = 1..Len(t)
      /\ Len(r) \in Nat /\ n \in Nat
  BY LenProperties DEF Table
<1>2. g = [i \in 1..n |-> IF i <= Len(t) THEN t[i] ELSE NewHop(i)]
  BY DEF EnsureHop
<1>3. ASSUME NEW i \in 1..n
      PROVE  /\ g[i] \in HopState /\ HopBalanced(g[i])
             /\ g[i].stats.sent = IF i <= Len(t) THEN t[i].stats.sent ELSE 0
  <2>1. CASE i <= Len(t)
    <3>1. i \in 1..Len(t) /\ g[i] = t[i]
      BY <1>1, <1>2, <2>1
    <3>2. t[i] \in HopState /\ HopBalanced(t[i])
      BY <1>1, <3>1, ElementOfSeq DEF Table
    <3>3. QED BY <2>1, <3>1, <3>2
  <2>2. CASE ~(i <= Len(t))
    BY <1>2, <2>2, NewHopType
  <2>3. QED BY <2>1, <2>2
<1>4. f = [i \in 1..n |-> IF i <= Len(r) THEN AddProbe(g[i], r[i]) ELSE g[i]]
  BY <1>2 DEF RecordRound
<1>5. ASSUME NEW i \in 1..n
      PROVE  /\ f[i] \in HopState /\ HopBalanced(f[i])
             /\ f[i].stats.sent = g[i].stats.sent + (IF i <= Len(r) THEN 1 ELSE 0)
  <2> HIDE DEF g
  <2>1. CASE i <= Len(r)
    <3>1. r[i] \in Outcome /\ f[i] = AddProbe(g[i], r[i])
      BY <1>1, <1>4, <2>1, ElementOfSeq
    <3>2. QED BY <1>3, <2>1, <3>1, AddProbeType, AddProbeBalanced
  <2>2. CASE ~(i <= Len(r))
    <3>1. f[i] = g[i]
      BY <1>4, <2>2
    <3>2. g[i].stats.sent \in Nat
      BY <1>3 DEF HopState, HopStats
    <3>3. QED BY <1>3, <2>2, <3>1, <3>2
  <2>3. QED BY <2>1, <2>2
<1> HIDE DEF n, g, f
<1>6. f \in Seq(HopState) /\ Len(f) = n /\ DOMAIN f = 1..n
  <2>1. f \in [1..n -> HopState]
    BY <1>4, <1>5
  <2>2. QED BY <1>1, <2>1, FunctionIsSeq
<1>7. f \in Table
  BY <1>5, <1>6 DEF Table
<1>8. \A i \in 1..Len(f) :
        f[i].stats.sent = (IF i <= Len(t) THEN t[i].stats.sent ELSE 0)
                            + (IF i <= Len(r) THEN 1 ELSE 0)
  BY <1>3, <1>5, <1>6
<1>9. QED BY <1>6, <1>7, <1>8 DEF f, n

\* reset_all keeps every row and empties its statistics.
LEMMA ResetHopsTable ==
  ASSUME NEW t \in Table
  PROVE  /\ ResetHops(t) \in Table
         /\ Len(ResetHops(t)) = Len(t)
         /\ \A i \in 1..Len(t) : ResetHops(t)[i].stats.sent = 0
<1>1. t \in Seq(HopState) /\ Len(t) \in Nat /\ DOMAIN t = 1..Len(t)
  BY LenProperties DEF Table
<1>2. ResetHops(t) = [i \in 1..Len(t) |-> ResetHop(t[i])]
  BY <1>1 DEF ResetHops
<1>3. ASSUME NEW i \in 1..Len(t)
      PROVE  /\ ResetHops(t)[i] \in HopState /\ HopBalanced(ResetHops(t)[i])
             /\ ResetHops(t)[i].stats.sent = 0
  BY <1>1, <1>2, ElementOfSeq, ResetHopType
<1>4. ResetHops(t) \in Seq(HopState) /\ Len(ResetHops(t)) = Len(t)
      /\ DOMAIN ResetHops(t) = 1..Len(t)
  <2>1. ResetHops(t) \in [1..Len(t) -> HopState]
    BY <1>2, <1>3
  <2>2. QED BY <1>1, <2>1, FunctionIsSeq
<1>5. QED BY <1>3, <1>4 DEF Table

-----------------------------------------------------------------------------
(* The inductive invariant.                                                *)

LEMMA InitInv == Init => EngineInv
<1> SUFFICES ASSUME Init PROVE EngineInv
  OBVIOUS
<1>1. \A S : <<>> \in Seq(S) /\ Len(<<>>) = 0
  BY EmptySeq
<1>2. DOMAIN hops = {}
  BY DEF Init
<1>3. TypeOK /\ StatsBalance /\ SentMonotone
  BY <1>1, <1>2 DEF Init, TypeOK, EnginePc, StatsBalance, SentMonotone
<1>4. RoundUnderWay /\ RoundHonest
  BY <1>1, StateAssumption, EngineAssumption DEF Init, RoundUnderWay, RoundHonest
<1>5. QED BY <1>3, <1>4 DEF EngineInv

\* The steps that leave the record alone.
LEMMA LocalStepInv ==
  ASSUME EngineInv, UNCHANGED shared,
         \/ LoopTop \/ CheckPause \/ PauseTick \/ CancelInPause
         \/ SendProbe \/ IntervalElapsed \/ CancelInSleep
         \/ TogglePause \/ Cancel
  PROVE  EngineInv'
<1> USE DEF EngineInv, shared
<1>1. StatsBalance'
  BY DEF StatsBalance
<1>2. hops' \in Seq(HopState) /\ round' \in Nat
  BY DEF TypeOK
<1>3. CASE \/ LoopTop \/ CheckPause \/ PauseTick \/ CancelInPause
           \/ IntervalElapsed \/ CancelInSleep
  <2>1. UNCHANGED <<localRound, results, paused, cancelled>> /\ pc # "bump" /\ pc' # "bump"
    BY <1>3 DEF LoopTop, CheckPause, PauseTick, CancelInPause, IntervalElapsed, CancelInSleep
  <2>2. TypeOK'
    BY <1>2, <1>3, <2>1 DEF TypeOK, EnginePc, LoopTop, CheckPause, PauseTick,
         CancelInPause, IntervalElapsed, CancelInSleep
  <2>3. /\ pc # "probing" /\ results = <<>>
        /\ pc' \in {"pausecheck", "pausewait", "probing"} /\ Count # None
             => localRound < Count
    BY <1>3, EngineAssumption DEF RoundUnderWay, TypeOK, LoopTop, LimitReached, CheckPause,
         PauseTick, CancelInPause, IntervalElapsed, CancelInSleep
  <2>4. RoundUnderWay'
    BY <2>1, <2>3 DEF RoundUnderWay
  <2>5. RoundHonest' /\ SentMonotone'
    BY <2>1 DEF RoundHonest, SentMonotone
  <2>6. QED BY <1>1, <2>2, <2>4, <2>5
<1>4. CASE TogglePause \/ Cancel
  <2>1. UNCHANGED local /\ paused' \in BOOLEAN /\ cancelled' \in BOOLEAN
    BY <1>4 DEF TogglePause, Cancel, TypeOK
  <2>2. QED BY <1>1, <2>1 DEF local, TypeOK, RoundUnderWay, RoundHonest, SentMonotone
<1>5. CASE SendProbe
  <2>1. PICK p \in Outcome : results' = Append(results, p)
    BY <1>5 DEF SendProbe
  <2>2. /\ results \in Seq(Outcome) /\ Len(results) <= MaxHops
        /\ ~TargetReached /\ Len(results) # MaxHops
        /\ pc = "probing" /\ UNCHANGED <<pc, localRound, paused, cancelled>>
    BY <1>5 DEF SendProbe, RoundUnderWay, RoundComplete
  <2>3. /\ results' \in Seq(Outcome) /\ Len(results') = Len(results) + 1
        /\ Len(results) \in Nat
        /\ \A i \in 1..Len(results) : results'[i] = results[i]
    BY <2>1, <2>2, AppendProperties, LenProperties
  <2>4. \A i \in 1..Len(results) : results[i].addr # Target
    <3> SUFFICES ASSUME NEW i \in 1..Len(results) PROVE results[i].addr # Target
      OBVIOUS
    <3>1. CASE i = Len(results)
      <4>1. results # <<>>
        BY <3>1, <2>3, EmptySeq
      <4>2. QED BY <2>2, <3>1, <4>1 DEF TargetReached
    <3>2. CASE i # Len(results)
      <4>1. i \in 1..(Len(results) - 1)
        BY <2>3, <3>2
      <4>2. QED BY <4>1 DEF RoundUnderWay
    <3>3. QED BY <3>1, <3>2
  <2>5. RoundUnderWay'
    <3>1. Len(results') <= MaxHops
      BY <2>2, <2>3, StateAssumption
    <3>2. \A i \in 1..(Len(results') - 1) : results'[i].addr # Target
      BY <2>3, <2>4
    <3>3. pc' = "probing" /\ (Count # None => localRound' < Count)
      BY <2>2 DEF RoundUnderWay
    <3>4. QED BY <2>3, <3>1, <3>2, <3>3 DEF RoundUnderWay
  <2>6. results' \in Seq(ProbeResult)
    <3>1. Outcome \subseteq ProbeResult
      BY OutcomeType
    <3>2. QED BY <2>3, <3>1, SeqMonotonic
  <2>7. TypeOK' /\ RoundHonest' /\ SentMonotone'
    BY <1>2, <2>2, <2>6 DEF TypeOK, RoundHonest, SentMonotone
  <2>8. QED BY <1>1, <2>5, <2>7
<1>6. QED BY <1>3, <1>4, <1>5

\* What the invariant says of the table, in one word.
LEMMA InvTable ==
  ASSUME EngineInv
  PROVE  /\ hops \in Table
         /\ Len(hops) \in Nat /\ DOMAIN hops = 1..Len(hops)
         /\ \A i \in 1..Len(hops) : hops[i].stats.sent \in Nat
<1>1. hops \in Seq(HopState)
  BY DEF EngineInv, TypeOK
<1>2. Len(hops) \in Nat /\ DOMAIN hops = 1..Len(hops)
  BY <1>1, LenProperties
<1>3. \A i \in 1..Len(hops) : hops[i].stats.sent \in Nat
  <2> SUFFICES ASSUME NEW i \in 1..Len(hops) PROVE hops[i].stats.sent \in Nat
    OBVIOUS
  <2>1. hops[i] \in HopState
    BY <1>1, ElementOfSeq
  <2>2. QED BY <2>1 DEF HopState, HopStats
<1>4. QED BY <1>1, <1>2, <1>3 DEF Table, EngineInv, StatsBalance

\* Recording a round.
LEMMA CommitRoundInv ==
  ASSUME EngineInv, CommitRound
  PROVE  EngineInv'
<1> DEFINE n == Len(hops)
           k == Len(results)
           m == Len(hops')
<1>1. /\ hops' = RecordRound(hops, results) /\ results' = <<>>
      /\ pc = "probing" /\ pc' = "bump"
      /\ UNCHANGED <<round, paused, cancelled, localRound>>
  BY DEF CommitRound
<1>2. /\ hops \in Table /\ n \in Nat /\ DOMAIN hops = 1..n
      /\ \A i \in 1..n : hops[i].stats.sent \in Nat
  BY InvTable
<1>3. results \in Seq(Outcome) /\ k \in Nat
  BY LenProperties DEF EngineInv, RoundUnderWay
<1>4. /\ hops' \in Table
      /\ m = IF n < k THEN k ELSE n
      /\ \A i \in 1..m : hops'[i].stats.sent = (IF i <= n THEN hops[i].stats.sent ELSE 0)
                                                + (IF i <= k THEN 1 ELSE 0)
  BY <1>1, <1>2, <1>3, RecordRoundTable
<1>5. hops' \in Seq(HopState) /\ DOMAIN hops' = 1..m /\ m \in Nat
  BY <1>4, LenProperties DEF Table
<1>6. StatsBalance'
  BY <1>4 DEF Table, StatsBalance
<1>7. <<>> \in Seq(Outcome) /\ <<>> \in Seq(ProbeResult) /\ Len(<<>>) = 0
  BY EmptySeq
<1>8. TypeOK'
  BY <1>1, <1>5, <1>7 DEF EngineInv, TypeOK, EnginePc
<1>9. RoundUnderWay' /\ RoundHonest'
  BY <1>1, <1>7, StateAssumption, EngineAssumption
     DEF EngineInv, TypeOK, RoundUnderWay, RoundHonest
<1>10. SentMonotone'
  <2>1. /\ round \in Nat
        /\ \A i \in 1..n : /\ i > 1 => hops[i].stats.sent <= hops[i - 1].stats.sent
                           /\ hops[i].stats.sent <= round
    BY <1>1, <1>2 DEF EngineInv, TypeOK, SentMonotone
  <2> HIDE DEF n, k, m
  <2>2. ASSUME NEW i \in 1..m
        PROVE  hops'[i].stats.sent <= round + 1
    <3>1. CASE i <= n
      <4>1. i \in 1..n
        BY <1>2, <1>5, <3>1
      <4>2. hops[i].stats.sent \in Nat /\ hops[i].stats.sent <= round
        BY <1>2, <2>1, <4>1
      <4>3. \/ hops'[i].stats.sent = hops[i].stats.sent + 1
            \/ hops'[i].stats.sent = hops[i].stats.sent + 0
        BY <1>4, <3>1
      <4>4. QED BY <2>1, <4>2, <4>3
    <3>2. CASE ~(i <= n)
      <4>1. hops'[i].stats.sent = 0 + 1 \/ hops'[i].stats.sent = 0 + 0
        BY <1>4, <3>2
      <4>2. QED BY <2>1, <4>1
    <3>3. QED BY <3>1, <3>2
  <2>3. ASSUME NEW i \in 1..m, i > 1
        PROVE  hops'[i].stats.sent <= hops'[i - 1].stats.sent
    <3>1. i \in Nat /\ i - 1 \in 1..m
      BY <1>5, <2>3
    <3>2. CASE i <= n
      <4>1. i \in 1..n /\ i - 1 \in 1..n /\ hops[i].stats.sent <= hops[i - 1].stats.sent
        BY <1>2, <2>1, <2>3, <3>1, <3>2
      <4>2. QED BY <1>2, <1>3, <1>4, <3>1, <3>2, <4>1
    <3>3. CASE i > n
      BY <1>2, <1>3, <1>4, <3>1, <3>3
    <3>4. QED BY <1>2, <3>1, <3>2, <3>3
  <2>4. QED BY <1>1, <1>5, <2>2, <2>3 DEF SentMonotone, m
<1>11. QED BY <1>6, <1>8, <1>9, <1>10 DEF EngineInv

\* Publishing its number.
LEMMA BumpRoundInv ==
  ASSUME EngineInv, BumpRound
  PROVE  EngineInv'
<1> USE DEF EngineInv
<1>1. /\ pc = "bump" /\ pc' = "sleep"
      /\ round' = localRound + 1 /\ localRound' = localRound + 1
      /\ UNCHANGED <<hops, paused, cancelled, results>>
  BY DEF BumpRound
<1>2. TypeOK' /\ StatsBalance'
  BY <1>1 DEF TypeOK, EnginePc, StatsBalance
<1>3. RoundUnderWay' /\ RoundHonest'
  BY <1>1, EngineAssumption DEF TypeOK, RoundUnderWay, RoundHonest
<1>4. SentMonotone'
  <2>1. round <= localRound /\ round \in Nat /\ localRound \in Nat
    BY DEF TypeOK, RoundHonest
  <2>2. \A i \in DOMAIN hops : hops[i].stats.sent \in Nat
    BY InvTable
  <2>3. QED BY <1>1, <2>1, <2>2 DEF SentMonotone
<1>5. QED BY <1>2, <1>3, <1>4

\* A reset.
LEMMA ResetInv ==
  ASSUME EngineInv, Reset
  PROVE  EngineInv'
<1>1. hops' = ResetHops(hops) /\ round' = 0 /\ UNCHANGED <<paused, cancelled, local>>
  BY DEF Reset
<1>2. hops \in Table /\ Len(hops) \in Nat
  BY InvTable
<1>3. /\ hops' \in Table /\ Len(hops') = Len(hops)
      /\ \A i \in 1..Len(hops) : hops'[i].stats.sent = 0
  BY <1>1, <1>2, ResetHopsTable
<1>4. hops' \in Seq(HopState) /\ DOMAIN hops' = 1..Len(hops)
  BY <1>3, LenProperties DEF Table
<1>5. TypeOK' /\ RoundUnderWay' /\ RoundHonest'
  BY <1>1, <1>4 DEF EngineInv, TypeOK, RoundUnderWay, RoundHonest, local
<1>6. StatsBalance'
  BY <1>3 DEF Table, StatsBalance
<1>7. SentMonotone'
  BY <1>1, <1>2, <1>3, <1>4 DEF SentMonotone
<1>8. QED BY <1>5, <1>6, <1>7 DEF EngineInv

LEMMA StepInv == EngineInv /\ [EngineNext]_engineVars => EngineInv'
<1> SUFFICES ASSUME EngineInv, [EngineNext]_engineVars PROVE EngineInv'
  OBVIOUS
<1>1. CASE UNCHANGED engineVars
  BY <1>1 DEF engineVars, EngineInv, TypeOK, StatsBalance, RoundUnderWay, RoundHonest,
       SentMonotone
<1>2. CASE \/ LoopTop \/ CheckPause \/ PauseTick \/ CancelInPause
           \/ SendProbe \/ IntervalElapsed \/ CancelInSleep
           \/ TogglePause \/ Cancel
  <2>1. UNCHANGED shared
    BY <1>2 DEF LoopTop, CheckPause, PauseTick, CancelInPause, SendProbe, IntervalElapsed,
         CancelInSleep, TogglePause, Cancel, shared
  <2>2. QED BY <1>2, <2>1, LocalStepInv
<1>3. CASE CommitRound
  BY <1>3, CommitRoundInv
<1>4. CASE BumpRound
  BY <1>4, BumpRoundInv
<1>5. CASE Reset
  BY <1>5, ResetInv
<1>6. QED BY <1>1, <1>2, <1>3, <1>4, <1>5 DEF EngineNext, EngineStep, UserStep

-----------------------------------------------------------------------------
(* The theorems.                                                           *)

\* The invariant holds of every behaviour of the engine.
THEOREM EngineInvariant == Spec => []EngineInv
BY InitInv, StepInv, PTL DEF Spec

\* The variables keep their types, whatever the addresses, limits and rounds.
THEOREM TypeCorrect == Spec => []TypeOK
<1>1. EngineInv => TypeOK
  BY DEF EngineInv
<1>2. QED BY <1>1, EngineInvariant, PTL

\* Every hop's counters agree with each other and with its sample ring.
THEOREM StatsBalanced == Spec => []StatsBalance
<1>1. EngineInv => StatsBalance
  BY DEF EngineInv
<1>2. QED BY <1>1, EngineInvariant, PTL

\* A farther hop is never probed more often than a nearer one, nor any hop more
\* often than the number of rounds on display, the one being recorded aside.
THEOREM SentIsMonotone == Spec => []SentMonotone
<1>1. EngineInv => SentMonotone
  BY DEF EngineInv
<1>2. QED BY <1>1, EngineInvariant, PTL

\* The published number is the engine's own or zero, and no more rounds are
\* run than were asked for.
THEOREM RoundIsHonest == Spec => []RoundHonest
<1>1. EngineInv => RoundHonest
  BY DEF EngineInv
<1>2. QED BY <1>1, EngineInvariant, PTL

=============================================================================

------------------------- MODULE TraceTargetProofs -------------------------
(***************************************************************************)
(* Proofs about TraceTarget, for every set of addresses, every limit and   *)
(* every size of the cache: names stand beside their addresses, the cache  *)
(* is used as it should be, and the two tasks of a target implement the    *)
(* record of TraceRecord.                                                  *)
(***************************************************************************)
EXTENDS TraceTarget, TraceEngineProofs, FiniteSetTheorems

\* The lookup under way and the place in the loop belong together.
ItemInHand ==
  /\ item # None <=> dnsPc \in {"lookup", "write"}
  /\ dnsPc = "write" => answer \in {None, item.addr}

TargetInv ==
  /\ EngineInv
  /\ TargetTypeOK
  /\ ItemInHand
  /\ NamesMatch
  /\ IsFiniteSet(Cached)
  /\ CacheSound
  /\ PendingRowsUnnamed

-----------------------------------------------------------------------------
(* What the operations on the table do to addresses and names.             *)

\* A row stays the same but for its statistics, or loses its name.
RowKept(old, new) ==
  /\ new.ttl = old.ttl
  /\ \/ new.hostname = None
     \/ new.hostname = old.hostname /\ new.addr = old.addr

\* Rows are kept or come new and without a name.
TableKept(old, new) ==
  /\ Len(old) <= Len(new)
  /\ \A i \in 1..Len(new) :
       IF i <= Len(old) THEN RowKept(old[i], new[i])
                        ELSE new[i].ttl = i /\ new[i].hostname = None

\* add_probe drops the name when it changes the address.
LEMMA AddProbeKeeps ==
  ASSUME NEW h \in HopState, NEW p \in Outcome
  PROVE  RowKept(h, AddProbe(h, p))
<1>1. AddProbe(h, p).ttl = h.ttl
  BY AddProbeType
<1>2. /\ AddProbe(h, p).hostname = IF AddrChanges(h, p) THEN None ELSE h.hostname
      /\ AddProbe(h, p).addr = IF AddrChanges(h, p) THEN p.addr ELSE h.addr
  BY DEF AddProbe, HopState
<1>3. CASE AddrChanges(h, p)
  <2>1. AddProbe(h, p).hostname = None BY <1>2, <1>3
  <2>2. QED BY <1>1, <2>1 DEF RowKept
<1>4. CASE ~AddrChanges(h, p)
  <2>1. AddProbe(h, p).hostname = h.hostname /\ AddProbe(h, p).addr = h.addr
    BY <1>2, <1>4
  <2>2. QED BY <1>1, <2>1 DEF RowKept
<1>5. QED BY <1>3, <1>4

LEMMA RecordRoundKeeps ==
  ASSUME NEW t \in Table, NEW r \in Seq(Outcome)
  PROVE  TableKept(t, RecordRound(t, r))
<1> DEFINE n == IF Len(t) < Len(r) THEN Len(r) ELSE Len(t)
           g == EnsureHop(t, Len(r))
           f == RecordRound(t, r)
<1>1. /\ t \in Seq(HopState) /\ Len(t) \in Nat /\ Len(r) \in Nat /\ n \in Nat
  BY LenProperties DEF Table
<1>2. g = [i \in 1..n |-> IF i <= Len(t) THEN t[i] ELSE NewHop(i)]
  BY DEF EnsureHop
<1>3. f = [i \in 1..n |-> IF i <= Len(r) THEN AddProbe(g[i], r[i]) ELSE g[i]]
  BY <1>2 DEF RecordRound
<1>4. Len(f) = n /\ Len(t) <= n
  BY <1>1, RecordRoundTable
<1>5. ASSUME NEW i \in 1..n
      PROVE  /\ g[i] \in HopState
             /\ i <= Len(t) => g[i] = t[i]
             /\ ~(i <= Len(t)) => g[i].ttl = i /\ g[i].hostname = None
  <2>1. CASE i <= Len(t)
    <3>1. i \in 1..Len(t) /\ g[i] = t[i] BY <1>1, <1>2, <2>1
    <3>2. QED BY <1>1, <2>1, <3>1, ElementOfSeq
  <2>2. CASE ~(i <= Len(t))
    <3>1. g[i] = NewHop(i) BY <1>2, <2>2
    <3>2. QED BY <2>2, <3>1, NewHopType DEF NewHop
  <2>3. QED BY <2>1, <2>2
<1> HIDE DEF n, g
<1>6. ASSUME NEW i \in 1..n
      PROVE  RowKept(g[i], f[i])
  <2>1. CASE i <= Len(r)
    <3>1. r[i] \in Outcome /\ f[i] = AddProbe(g[i], r[i])
      BY <1>1, <1>3, <2>1, ElementOfSeq
    <3>2. QED BY <1>5, <3>1, AddProbeKeeps
  <2>2. CASE ~(i <= Len(r))
    <3>1. f[i] = g[i] BY <1>3, <2>2
    <3>2. QED BY <3>1 DEF RowKept
  <2>3. QED BY <2>1, <2>2
<1> HIDE DEF f
<1>7. ASSUME NEW i \in 1..n
      PROVE  IF i <= Len(t) THEN RowKept(t[i], f[i])
                            ELSE f[i].ttl = i /\ f[i].hostname = None
  BY <1>5, <1>6 DEF RowKept
<1>8. QED BY <1>4, <1>7 DEF TableKept, f

LEMMA ResetHopsKeeps ==
  ASSUME NEW t \in Table
  PROVE  TableKept(t, ResetHops(t))
<1>1. t \in Seq(HopState) /\ Len(t) \in Nat /\ DOMAIN t = 1..Len(t)
  BY LenProperties DEF Table
<1>2. Len(ResetHops(t)) = Len(t)
  BY ResetHopsTable
<1>3. \A i \in 1..Len(t) : ResetHops(t)[i] = ResetHop(t[i])
  BY <1>1 DEF ResetHops
<1>4. ASSUME NEW i \in 1..Len(t)
      PROVE  RowKept(t[i], ResetHop(t[i]))
  <2>1. t[i] \in HopState BY <1>1, ElementOfSeq
  <2>2. QED BY <2>1 DEF RowKept, ResetHop, HopState
<1>5. QED BY <1>1, <1>2, <1>3, <1>4 DEF TableKept

\* The engine and the user never give a row another name or another place,
\* and the table stays within max_hops.
LEMMA EngineKeeps ==
  ASSUME EngineInv, [EngineNext]_engineVars
  PROVE  TableKept(hops, hops') /\ (Len(hops) <= MaxHops => Len(hops') <= MaxHops)
<1>1. hops \in Table /\ Len(hops) \in Nat
  BY InvTable
<1>2. CASE hops' = hops
  <2>1. \A i \in 1..Len(hops) : RowKept(hops[i], hops[i])
    BY DEF RowKept
  <2>2. \A i \in 1..Len(hops) : i <= Len(hops)
    BY <1>1
  <2>3. QED BY <1>1, <1>2, <2>1, <2>2 DEF TableKept
<1>3. CASE CommitRound
  <2>1. results \in Seq(Outcome) /\ Len(results) <= MaxHops
    BY DEF EngineInv, RoundUnderWay
  <2>2. hops' = RecordRound(hops, results)
    BY <1>3 DEF CommitRound
  <2>3. Len(hops') = IF Len(hops) < Len(results) THEN Len(results) ELSE Len(hops)
    BY <1>1, <2>1, <2>2, RecordRoundTable
  <2>4. QED BY <1>1, <2>1, <2>2, <2>3, RecordRoundKeeps
<1>4. CASE Reset
  BY <1>1, <1>4, ResetHopsKeeps, ResetHopsTable DEF Reset
<1>5. \/ hops' = hops
      \/ CommitRound
      \/ Reset
  BY DEF EngineNext, EngineStep, UserStep, engineVars, shared, LoopTop, CheckPause, PauseTick,
         CancelInPause, SendProbe, BumpRound, IntervalElapsed, CancelInSleep, TogglePause,
         Cancel
<1>6. QED BY <1>2, <1>3, <1>4, <1>5

-----------------------------------------------------------------------------
(* The name that is written back.                                          *)

\* Only the name of the row looked up changes, if it shows the address still.
LEMMA RenamedRows ==
  ASSUME hops \in Seq(HopState), NEW i, NEW a, NEW name \in Addr \cup {None}
  PROVE  /\ Renamed(i, a, name) \in Seq(HopState)
         /\ Len(Renamed(i, a, name)) = Len(hops)
         /\ \A j \in 1..Len(hops) :
              /\ Renamed(i, a, name)[j].ttl = hops[j].ttl
              /\ Renamed(i, a, name)[j].addr = hops[j].addr
              /\ Renamed(i, a, name)[j].stats = hops[j].stats
              /\ Renamed(i, a, name)[j].samples = hops[j].samples
              /\ Renamed(i, a, name)[j].hostname =
                   IF j = i /\ hops[j].addr = a THEN name ELSE hops[j].hostname
<1> DEFINE t == Renamed(i, a, name)
<1>1. Len(hops) \in Nat /\ DOMAIN hops = 1..Len(hops)
  BY LenProperties
<1>2. \A j \in 1..Len(hops) : hops[j] \in HopState
  BY ElementOfSeq
<1>3. CASE i \in DOMAIN hops /\ hops[i].addr = a
  <2>1. t = [hops EXCEPT ![i].hostname = name]
    BY <1>3 DEF Renamed
  <2>2. DOMAIN t = 1..Len(hops) /\ \A j \in 1..Len(hops) :
          t[j] = IF j = i THEN [hops[j] EXCEPT !.hostname = name] ELSE hops[j]
    BY <1>1, <1>3, <2>1
  <2>3. ASSUME NEW j \in 1..Len(hops)
        PROVE  /\ t[j] \in HopState
               /\ t[j].ttl = hops[j].ttl /\ t[j].addr = hops[j].addr
               /\ t[j].stats = hops[j].stats /\ t[j].samples = hops[j].samples
               /\ t[j].hostname = IF j = i THEN name ELSE hops[j].hostname
    <3>1. hops[j] \in HopState BY <1>2
    <3>2. CASE j = i
      <4>1. t[j] = [hops[j] EXCEPT !.hostname = name] BY <2>2, <3>2
      <4> HIDE DEF t
      <4>2. QED BY <3>1, <3>2, <4>1 DEF HopState
    <3>3. CASE j # i
      <4>1. t[j] = hops[j] BY <2>2, <3>3
      <4> HIDE DEF t
      <4>2. QED BY <3>1, <3>3, <4>1
    <3>4. QED BY <3>2, <3>3
  <2>4. t = [j \in 1..Len(hops) |-> t[j]]
    BY <1>1, <2>1
  <2> HIDE DEF t
  <2>5. t \in [1..Len(hops) -> HopState]
    BY <2>3, <2>4
  <2>6. t \in Seq(HopState) /\ Len(t) = Len(hops)
    BY <1>1, <2>5, FunctionIsSeq
  <2>7. ASSUME NEW j \in 1..Len(hops)
        PROVE  t[j].hostname = IF j = i /\ hops[j].addr = a THEN name ELSE hops[j].hostname
    BY <1>3, <2>3
  <2>8. QED BY <2>3, <2>6, <2>7 DEF t
<1>4. CASE ~(i \in DOMAIN hops /\ hops[i].addr = a)
  <2>1. t = hops BY <1>4 DEF Renamed
  <2>2. \A j \in 1..Len(hops) : ~(j = i /\ hops[j].addr = a)
    BY <1>1, <1>4
  <2>3. QED BY <2>1, <2>2
<1>5. QED BY <1>3, <1>4

\* The engine's invariant says nothing of names.
LEMMA WriteNameEngineInv ==
  ASSUME EngineInv, WriteName, answer \in Addr \cup {None}
  PROVE  EngineInv'
<1>1. hops' = Renamed(item.idx, item.addr, answer)
      /\ UNCHANGED <<round, paused, cancelled, pc, localRound, results>>
  BY DEF WriteName, local
<1>2. hops \in Seq(HopState)
  BY DEF EngineInv, TypeOK
<1>3. /\ hops' \in Seq(HopState) /\ Len(hops') = Len(hops)
      /\ \A j \in 1..Len(hops) : hops'[j].stats = hops[j].stats
                                /\ hops'[j].samples = hops[j].samples
  BY <1>1, <1>2, RenamedRows
<1>4. DOMAIN hops = 1..Len(hops) /\ DOMAIN hops' = 1..Len(hops) /\ Len(hops) \in Nat
  BY <1>2, <1>3, LenProperties
<1>5. TypeOK' /\ RoundUnderWay' /\ RoundHonest'
  BY <1>1, <1>3 DEF EngineInv, TypeOK, RoundUnderWay, RoundHonest
<1>6. StatsBalance'
  <2>1. \A j \in 1..Len(hops) : HopBalanced(hops[j]) => HopBalanced(hops'[j])
    BY <1>3 DEF HopBalanced
  <2>2. QED BY <1>4, <2>1 DEF EngineInv, StatsBalance
<1>7. SentMonotone'
  <2>1. ASSUME NEW j \in 1..Len(hops)
        PROVE  /\ j > 1 => hops'[j].stats.sent <= hops'[j - 1].stats.sent
               /\ hops'[j].stats.sent <= round' + (IF pc' = "bump" THEN 1 ELSE 0)
    <3>1. j > 1 => j - 1 \in 1..Len(hops) BY <1>4
    <3>2. QED BY <1>1, <1>3, <1>4, <3>1 DEF EngineInv, SentMonotone
  <2>2. QED BY <1>4, <2>1 DEF SentMonotone
<1>8. QED BY <1>5, <1>6, <1>7 DEF EngineInv

-----------------------------------------------------------------------------
(* The invariant.                                                          *)

\* What the invariant says of the rows.
LEMMA Rows ==
  ASSUME TargetInv
  PROVE  /\ hops \in Seq(HopState) /\ Len(hops) \in Nat /\ DOMAIN hops = 1..Len(hops)
         /\ \A i \in 1..Len(hops) : hops[i] \in HopState
<1>1. hops \in Seq(HopState) BY DEF TargetInv, EngineInv, TypeOK
<1>2. QED BY <1>1, LenProperties, ElementOfSeq

LEMMA InitTarget ==
  ASSUME TargetInit
  PROVE  TargetInv
<1>1. EngineInv
  BY InitInv DEF TargetInit
<1>2. TargetTypeOK
  <2>1. cache \in [Addr -> Entry] BY DEF TargetInit, DnsInit, Entry
  <2>2. work \subseteq Lookup BY DEF TargetInit, DnsInit
  <2>3. TypeOK BY <1>1 DEF EngineInv
  <2>4. QED BY <2>1, <2>2, <2>3 DEF TargetInit, DnsInit, TargetTypeOK
<1>3. ItemInHand
  BY DEF TargetInit, DnsInit, ItemInHand
<1>4. Cached = {}
  BY DEF TargetInit, DnsInit, Cached
<1>5. IsFiniteSet(Cached) /\ Cardinality(Cached) = 0
  BY <1>4, FS_EmptySet
<1>6. CacheSound
  BY <1>5, CacheAssumption DEF CacheSound, TargetInit, DnsInit
<1>7. NamesMatch
  <2>1. Len(hops) = 0 /\ DOMAIN hops = {} BY EmptySeq DEF TargetInit, Init
  <2>2. QED BY <2>1, StateAssumption DEF NamesMatch
<1>8. PendingRowsUnnamed
  BY DEF TargetInit, DnsInit, PendingRowsUnnamed, Pending
<1>9. QED BY <1>1, <1>2, <1>3, <1>5, <1>6, <1>7, <1>8 DEF TargetInv

\* Kept rows have the names they should have, and what was collected of them
\* stays valid.
LEMMA KeptRows ==
  ASSUME TargetInv, EngineInv', TableKept(hops, hops'), Len(hops') <= MaxHops
  PROVE  /\ NamesMatch'
         /\ \A w \in Pending : /\ w.idx \in DOMAIN hops'
                               /\ hops'[w.idx].addr = w.addr => hops'[w.idx].hostname = None
<1>1. hops' \in Seq(HopState) BY DEF EngineInv, TypeOK
<1>2. Len(hops') \in Nat /\ DOMAIN hops' = 1..Len(hops')
  BY <1>1, LenProperties
<1>3. Len(hops) \in Nat /\ DOMAIN hops = 1..Len(hops)
  BY Rows
<1>4. ASSUME NEW i \in 1..Len(hops')
      PROVE  hops'[i].ttl = i /\ hops'[i].hostname \in {None, hops'[i].addr}
  <2>1. CASE i <= Len(hops)
    <3>1. RowKept(hops[i], hops'[i]) BY <2>1 DEF TableKept
    <3>2. hops[i].ttl = i /\ hops[i].hostname \in {None, hops[i].addr}
      BY <1>3, <2>1 DEF TargetInv, NamesMatch
    <3>3. QED BY <3>1, <3>2 DEF RowKept
  <2>2. CASE ~(i <= Len(hops))
    BY <2>2 DEF TableKept
  <2>3. QED BY <2>1, <2>2
<1>5. ASSUME NEW w \in Pending
      PROVE  /\ w.idx \in DOMAIN hops'
             /\ hops'[w.idx].addr = w.addr => hops'[w.idx].hostname = None
  <2> DEFINE k == w.idx
  <2>1. k \in DOMAIN hops /\ (hops[k].addr = w.addr => hops[k].hostname = None)
    BY DEF TargetInv, PendingRowsUnnamed
  <2> HIDE DEF k
  <2>2. k \in 1..Len(hops') /\ k <= Len(hops)
    BY <1>2, <1>3, <2>1 DEF TableKept
  <2>3. RowKept(hops[k], hops'[k])
    BY <2>2 DEF TableKept
  <2>4. hops'[k].addr = w.addr => hops'[k].hostname = None
    BY <2>1, <2>3 DEF RowKept
  <2>5. QED BY <1>2, <2>2, <2>4 DEF k
<1>6. QED BY <1>2, <1>4, <1>5 DEF NamesMatch

\* The engine and the user, while the second task waits.
LEMMA EngineTarget ==
  ASSUME TargetInv, [EngineNext]_engineVars, UNCHANGED dnsVars
  PROVE  TargetInv'
<1>1. EngineInv'
  BY StepInv DEF TargetInv
<1>2. TableKept(hops, hops') /\ Len(hops') <= MaxHops
  BY EngineKeeps DEF TargetInv, NamesMatch
<1>3. UNCHANGED <<dnsPc, work, item, answer, cache>>
  BY DEF dnsVars
<1>4. Cached' = Cached /\ Pending' = Pending
  BY <1>3 DEF Cached, Pending
<1>5. TargetTypeOK' /\ ItemInHand' /\ IsFiniteSet(Cached)' /\ CacheSound'
  BY <1>1, <1>3, <1>4 DEF TargetInv, EngineInv, TargetTypeOK, ItemInHand, CacheSound
<1>6. /\ NamesMatch'
      /\ \A w \in Pending : /\ w.idx \in DOMAIN hops'
                            /\ hops'[w.idx].addr = w.addr => hops'[w.idx].hostname = None
  BY <1>1, <1>2, KeptRows
<1>7. PendingRowsUnnamed'
  <2>1. \A v, w \in Pending' : v.idx = w.idx => v = w
    BY <1>4 DEF TargetInv, PendingRowsUnnamed
  <2>2. item' # None => item' \notin work'
    BY <1>3 DEF TargetInv, PendingRowsUnnamed
  <2>3. \A w \in Pending' : /\ w.idx \in DOMAIN hops'
                            /\ hops'[w.idx].addr = w.addr => hops'[w.idx].hostname = None
    BY <1>4, <1>6
  <2>4. QED BY <2>1, <2>2, <2>3 DEF PendingRowsUnnamed
<1>8. QED BY <1>1, <1>5, <1>6, <1>7 DEF TargetInv

\* A step of the second task that leaves the engine's variables alone only has
\* to answer for its own.
LEMMA RecordKept ==
  ASSUME TargetInv, UNCHANGED engineVars
  PROVE  /\ EngineInv' /\ TypeOK' /\ NamesMatch' /\ UNCHANGED hops
         /\ Pending' \subseteq Pending =>
              \A w \in Pending' : /\ w.idx \in DOMAIN hops'
                                  /\ hops'[w.idx].addr = w.addr
                                      => hops'[w.idx].hostname = None
<1>1. EngineInv' BY StepInv DEF TargetInv
<1>2. UNCHANGED hops BY DEF engineVars
<1>3. NamesMatch' BY <1>2 DEF TargetInv, NamesMatch
<1>4. QED BY <1>1, <1>2, <1>3 DEF TargetInv, EngineInv, PendingRowsUnnamed

\* The steps between which nothing is looked up.
LEMMA LoopTarget ==
  ASSUME TargetInv, StartDns \/ CancelBeforeLookup \/ FinishPass \/ WakeDns
  PROVE  TargetInv'
<1>1. /\ UNCHANGED <<engineVars, work, item, answer, cache>>
      /\ dnsPc \notin {"lookup", "write"}
      /\ dnsPc' \in {"collect", "sleep", "done"}
  BY DEF StartDns, CancelBeforeLookup, FinishPass, WakeDns
<1>2. Cached' = Cached /\ Pending' = Pending
  BY <1>1 DEF Cached, Pending
<1>3. EngineInv' /\ TypeOK' /\ NamesMatch'
  BY <1>1, RecordKept
<1>4. TargetTypeOK' /\ ItemInHand' /\ IsFiniteSet(Cached)' /\ CacheSound'
  BY <1>1, <1>2, <1>3 DEF TargetInv, TargetTypeOK, ItemInHand, CacheSound
<1>5. PendingRowsUnnamed'
  BY <1>1, <1>2, RecordKept DEF TargetInv, PendingRowsUnnamed
<1>6. QED BY <1>3, <1>4, <1>5 DEF TargetInv

\* The rows collected have addresses and no names.
LEMMA CollectTarget ==
  ASSUME TargetInv, CollectRows
  PROVE  TargetInv'
<1> DEFINE rows == {j \in DOMAIN hops : NeedsLookup(hops[j])}
<1>1. /\ UNCHANGED <<engineVars, item, answer, cache>>
      /\ work' = {[idx |-> i, addr |-> hops[i].addr] : i \in rows}
      /\ dnsPc = "collect" /\ dnsPc' = "resolve"
  BY DEF CollectRows
<1>2. item = None
  BY <1>1 DEF TargetInv, ItemInHand
<1>3. EngineInv' /\ TypeOK' /\ NamesMatch' /\ UNCHANGED hops
  BY <1>1, RecordKept
<1>4. \A i \in rows : /\ i \in DOMAIN hops /\ i \in Nat
                      /\ hops[i].addr \in Addr /\ hops[i].hostname = None
  BY Rows DEF NeedsLookup, HopState
<1> HIDE DEF rows
<1>5. work' \subseteq Lookup
  BY <1>1, <1>4 DEF Lookup
<1>6. Cached' = Cached /\ Pending' = work'
  BY <1>1, <1>2 DEF Cached, Pending
<1>7. TargetTypeOK' /\ ItemInHand' /\ IsFiniteSet(Cached)' /\ CacheSound'
  BY <1>1, <1>2, <1>3, <1>5, <1>6 DEF TargetInv, TargetTypeOK, ItemInHand, CacheSound
<1>8. PendingRowsUnnamed'
  <2>1. \A w \in work' : /\ w.idx \in DOMAIN hops
                         /\ hops[w.idx].hostname = None
    BY <1>1, <1>4
  <2>2. \A v, w \in work' : v.idx = w.idx => v = w
    BY <1>1
  <2>3. QED BY <1>1, <1>2, <1>3, <1>6, <2>1, <2>2 DEF PendingRowsUnnamed
<1>9. QED BY <1>3, <1>7, <1>8 DEF TargetInv

\* A row is taken: what is pending stays the same.
LEMMA TakeTarget ==
  ASSUME TargetInv, ResolveFromCache \/ SendLookup
  PROVE  TargetInv'
<1>1. PICK w \in work :
        /\ TakeRow(w)
        /\ UNCHANGED <<engineVars, cache>>
        /\ \/ dnsPc' = "write" /\ answer' = NameOf(w.addr)
           \/ dnsPc' = "lookup" /\ w.addr \notin Cached /\ UNCHANGED answer
  BY DEF ResolveFromCache, SendLookup
<1>2. dnsPc = "resolve" /\ work' = work \ {w} /\ item' = w
  BY <1>1 DEF TakeRow
<1>3. item = None /\ w \in Lookup /\ w # None
  BY <1>2, CacheAssumption DEF TargetInv, ItemInHand, TargetTypeOK
<1>4. Pending = work /\ Pending' = work
  BY <1>2, <1>3 DEF Pending
<1>5. Cached' = Cached
  BY <1>1 DEF Cached
<1>6. EngineInv' /\ TypeOK' /\ NamesMatch'
  BY <1>1, RecordKept
<1>7. w.addr \in Addr /\ NameOf(w.addr) \in {None, w.addr}
  BY <1>3 DEF Lookup, NameOf
<1>8. TargetTypeOK'
  <2>1. answer' \in Addr \cup {None} BY <1>1, <1>7 DEF TargetInv, TargetTypeOK
  <2>2. dnsPc' \in {"lookup", "write"} /\ UNCHANGED cache BY <1>1
  <2>3. QED BY <1>2, <1>3, <1>6, <2>1, <2>2 DEF TargetInv, TargetTypeOK
<1>9. ItemInHand'
  BY <1>1, <1>2, <1>3, <1>7 DEF ItemInHand
<1>10. IsFiniteSet(Cached)' /\ CacheSound'
  BY <1>1, <1>2, <1>5 DEF TargetInv, CacheSound
<1>11. PendingRowsUnnamed'
  BY <1>1, <1>2, <1>4, RecordKept DEF TargetInv, PendingRowsUnnamed
<1>12. QED BY <1>6, <1>8, <1>9, <1>10, <1>11 DEF TargetInv

\* insert empties a full cache first, so the entry always fits.
LEMMA InsertFits ==
  ASSUME TargetInv, NEW a \in Addr, NEW e \in {"negative", "positive"},
         cache' = Insert(a, e)
  PROVE  /\ cache' \in [Addr -> Entry]
         /\ IsFiniteSet(Cached') /\ Cardinality(Cached') <= CacheCapacity
<1>1. cache \in [Addr -> Entry] /\ e \in Entry /\ e # "absent" /\ "absent" \in Entry
  BY DEF TargetInv, TargetTypeOK, Entry
<1>2. cache' \in [Addr -> Entry]
  BY <1>1 DEF Insert
<1>3. IsFiniteSet(Cached) /\ Cardinality(Cached) \in Nat
      /\ Cardinality(Cached) <= CacheCapacity
  BY FS_CardinalityType DEF TargetInv, CacheSound
<1>4. CASE Cardinality(Cached) >= CacheCapacity
  <2>1. Cached' = {a}
    BY <1>1, <1>4 DEF Insert, Cached
  <2>2. IsFiniteSet({a}) /\ Cardinality({a}) = 1
    BY FS_Singleton
  <2>3. QED BY <1>2, <2>1, <2>2, CacheAssumption
<1>5. CASE ~(Cardinality(Cached) >= CacheCapacity)
  <2>1. Cached' = Cached \cup {a}
    BY <1>1, <1>5 DEF Insert, Cached
  <2>2. IsFiniteSet(Cached \cup {a})
        /\ Cardinality(Cached \cup {a}) \in {Cardinality(Cached), Cardinality(Cached) + 1}
    BY <1>3, FS_AddElement
  <2>3. QED BY <1>2, <1>3, <1>5, <2>1, <2>2, CacheAssumption
<1>6. QED BY <1>4, <1>5

LEMMA FinishTarget ==
  ASSUME TargetInv, FinishLookup
  PROVE  TargetInv'
<1>1. PICK e \in {"negative", "positive"} :
        /\ cache' = Insert(item.addr, e)
        /\ answer' = IF e = "positive" THEN item.addr ELSE None
  BY DEF FinishLookup
<1>2. dnsPc = "lookup" /\ dnsPc' = "write" /\ UNCHANGED <<engineVars, work, item>>
  BY DEF FinishLookup
<1>3. item # None /\ item \in Lookup /\ item.addr \in Addr
  BY <1>2 DEF TargetInv, ItemInHand, TargetTypeOK, Lookup
<1>4. /\ cache' \in [Addr -> Entry]
      /\ IsFiniteSet(Cached') /\ Cardinality(Cached') <= CacheCapacity
  BY <1>1, <1>3, InsertFits
<1>5. EngineInv' /\ TypeOK' /\ NamesMatch'
  BY <1>2, RecordKept
<1>6. answer' \in {None, item.addr}
  BY <1>1
<1>7. TargetTypeOK' /\ ItemInHand' /\ CacheSound'
  BY <1>2, <1>3, <1>4, <1>5, <1>6 DEF TargetInv, TargetTypeOK, ItemInHand, CacheSound
<1>8. Pending' = Pending
  BY <1>2 DEF Pending
<1>9. PendingRowsUnnamed'
  BY <1>2, <1>8, RecordKept DEF TargetInv, PendingRowsUnnamed
<1>10. QED BY <1>4, <1>5, <1>7, <1>9 DEF TargetInv

\* The name is written to the row it was looked up for, and to no other that
\* is pending.
LEMMA WriteTarget ==
  ASSUME TargetInv, WriteName
  PROVE  TargetInv'
<1>1. /\ dnsPc = "write" /\ dnsPc' = "resolve"
      /\ hops' = Renamed(item.idx, item.addr, answer)
      /\ item' = None /\ answer' = None /\ UNCHANGED <<work, cache>>
  BY DEF WriteName
<1>2. item # None /\ item \in Lookup /\ item.addr \in Addr /\ answer \in {None, item.addr}
  BY <1>1 DEF TargetInv, ItemInHand, TargetTypeOK, Lookup
<1>3. EngineInv'
  BY <1>2, WriteNameEngineInv DEF TargetInv
<1>4. /\ hops' \in Seq(HopState) /\ Len(hops') = Len(hops)
      /\ \A j \in 1..Len(hops) :
           /\ hops'[j].ttl = hops[j].ttl /\ hops'[j].addr = hops[j].addr
           /\ hops'[j].hostname = IF j = item.idx /\ hops[j].addr = item.addr
                                  THEN answer ELSE hops[j].hostname
  BY <1>1, <1>2, Rows, RenamedRows
<1>5. DOMAIN hops = 1..Len(hops) /\ DOMAIN hops' = 1..Len(hops)
  BY <1>4, Rows, LenProperties
<1>6. NamesMatch'
  <2>1. ASSUME NEW j \in 1..Len(hops)
        PROVE  hops'[j].ttl = j /\ hops'[j].hostname \in {None, hops'[j].addr}
    <3>1. hops[j].ttl = j /\ hops[j].hostname \in {None, hops[j].addr}
      BY <1>5 DEF TargetInv, NamesMatch
    <3>2. QED BY <1>2, <1>4, <3>1
  <2>2. QED BY <1>4, <1>5, <2>1 DEF TargetInv, NamesMatch
<1>7. Cached' = Cached /\ Pending' = work /\ Pending = work \cup {item}
  BY <1>1, <1>2 DEF Cached, Pending
<1>8. PendingRowsUnnamed'
  <2>1. ASSUME NEW w \in work
        PROVE  /\ w.idx \in DOMAIN hops'
               /\ hops'[w.idx].addr = w.addr => hops'[w.idx].hostname = None
    <3>1. w \in Pending /\ item \in Pending /\ w # item
      BY <1>2, <1>7 DEF TargetInv, PendingRowsUnnamed
    <3>2. w.idx \in DOMAIN hops /\ (hops[w.idx].addr = w.addr => hops[w.idx].hostname = None)
          /\ w.idx # item.idx
      BY <3>1 DEF TargetInv, PendingRowsUnnamed
    <3>3. QED BY <1>4, <1>5, <3>2
  <2>2. \A v, w \in work : v.idx = w.idx => v = w
    BY <1>7 DEF TargetInv, PendingRowsUnnamed
  <2>3. QED BY <1>1, <1>7, <2>1, <2>2 DEF PendingRowsUnnamed
<1>9. TargetTypeOK'
  <2>1. TypeOK' BY <1>3 DEF EngineInv
  <2>2. QED BY <1>1, <2>1 DEF TargetInv, TargetTypeOK
<1>10. ItemInHand' /\ IsFiniteSet(Cached)' /\ CacheSound'
  BY <1>1, <1>7 DEF TargetInv, ItemInHand, CacheSound
<1>11. QED BY <1>3, <1>6, <1>8, <1>9, <1>10 DEF TargetInv

LEMMA StepTarget ==
  ASSUME TargetInv, [TargetNext]_targetVars
  PROVE  TargetInv'
<1>1. CASE EngineNext /\ UNCHANGED dnsVars
  BY <1>1, EngineTarget
<1>2. CASE UNCHANGED targetVars
  BY <1>2, EngineTarget DEF targetVars
<1>3. CASE DnsStep
  BY <1>3, LoopTarget, CollectTarget, TakeTarget, FinishTarget, WriteTarget DEF DnsStep
<1>4. QED BY <1>1, <1>2, <1>3 DEF TargetNext

\* The invariant of a target's two tasks.
THEOREM TargetInvariant == TargetSpec => []TargetInv
<1>1. TargetInit => TargetInv BY InitTarget
<1>2. TargetInv /\ [TargetNext]_targetVars => TargetInv' BY StepTarget
<1>3. QED BY <1>1, <1>2, PTL DEF TargetSpec

\* The state of the two tasks is well formed.
THEOREM TargetTypeCorrect == TargetSpec => []TargetTypeOK
<1>1. TargetInv => TargetTypeOK BY DEF TargetInv
<1>2. QED BY TargetInvariant, <1>1, PTL

\* A name is shown beside the address it belongs to, however the address
\* changed while it was looked up (run_dns_resolver, add_probe).
THEOREM NamesAlwaysMatch == TargetSpec => []NamesMatch
<1>1. TargetInv => NamesMatch BY DEF TargetInv
<1>2. QED BY TargetInvariant, <1>1, PTL

\* The cache stays within its limit, and no known address is looked up
\* (DnsCache::insert, DnsResolver::resolve).
THEOREM CacheStaysSound == TargetSpec => []CacheSound
<1>1. TargetInv => CacheSound BY DEF TargetInv
<1>2. QED BY TargetInvariant, <1>1, PTL

\* What the second task collected stays valid across its awaits
\* (run_dns_resolver, ensure_hop, reset_all).
THEOREM PendingRowsStayUnnamed == TargetSpec => []PendingRowsUnnamed
<1>1. TargetInv => PendingRowsUnnamed BY DEF TargetInv
<1>2. QED BY TargetInvariant, <1>1, PTL

\* The second task does not disturb what is proved of the engine alone
\* (probe_round, run).
THEOREM EngineInvariantShared == TargetSpec => []EngineInv
<1>1. TargetInv => EngineInv BY DEF TargetInv
<1>2. QED BY TargetInvariant, <1>1, PTL

-----------------------------------------------------------------------------
(* The two tasks implement the record.                                     *)

\* The rounds recorded, as the refinement mapping has them.
TotalRounds == localRound + (IF pc = "bump" THEN 1 ELSE 0)

\* Both modules build on the same operators.
LEMMA SameOperators ==
  /\ Record!Outcome = Outcome
  /\ \A t, r : Record!RecordRound(t, r) = RecordRound(t, r)
  /\ \A t : Record!ResetHops(t) = ResetHops(t)
<1>1. Record!Outcome = Outcome
  BY DEF Record!Outcome, Record!ProbeResult, Outcome, ProbeResult
<1>2. \A t : Record!ResetHops(t) = ResetHops(t)
  BY DEF Record!ResetHops, Record!ResetHop, Record!NewStats, ResetHops, ResetHop, NewStats
<1>3. \A h, p : Record!AddProbe(h, p) = AddProbe(h, p)
  BY DEF Record!AddProbe, Record!AddrChanges, Record!RecordProbe, Record!PushSample,
         Record!Received, Record!Errors, Record!Lower, Record!Higher,
         AddProbe, AddrChanges, RecordProbe, PushSample, Received, Errors, Lower, Higher
<1>4. \A t, n : Record!EnsureHop(t, n) = EnsureHop(t, n)
  BY DEF Record!EnsureHop, Record!NewHop, Record!NewStats, EnsureHop, NewHop, NewStats
<1>5. \A t, r : Record!RecordRound(t, r) = RecordRound(t, r)
  BY <1>3, <1>4 DEF Record!RecordRound, RecordRound
<1>6. QED BY <1>1, <1>2, <1>5

\* A round that is complete is one the record may show.
LEMMA CommitRefined ==
  ASSUME EngineInv, CommitRound
  PROVE  Record!AddRound
<1>1. /\ pc = "probing" /\ RoundComplete /\ hops' = RecordRound(hops, results)
      /\ pc' = "bump" /\ UNCHANGED <<round, localRound>>
  BY DEF CommitRound
<1>2. /\ results \in Seq(Outcome) /\ Len(results) <= MaxHops
      /\ \A i \in 1..(Len(results) - 1) : results[i].addr # Target
      /\ localRound \in Nat
  BY DEF EngineInv, RoundUnderWay, TypeOK
<1>3. Len(results) \in Nat /\ Len(results) \in 0..MaxHops /\ MaxHops \in Nat
  BY <1>2, LenProperties, StateAssumption
<1>4. results \in [1..Len(results) -> Outcome]
  BY <1>2
<1>5. results \in UNION {[1..n -> Record!Outcome] : n \in 0..MaxHops}
  BY <1>3, <1>4, SameOperators
<1>6. Len(results) < MaxHops => Len(results) > 0 /\ results[Len(results)].addr = Target
  BY <1>1, <1>2, <1>3, EmptySeq DEF RoundComplete, TargetReached
<1>7. results \in Record!Rounds
  BY <1>2, <1>5, <1>6 DEF Record!Rounds, Record!LegalRound
<1>8. TotalRounds' = TotalRounds + 1
  BY <1>1, <1>2 DEF TotalRounds
<1>9. hops' = Record!RecordRound(hops, results)
  BY <1>1, SameOperators
<1>10. QED BY <1>1, <1>7, <1>8, <1>9 DEF Record!AddRound, Record!AddRoundOf, TotalRounds

\* What the engine and the user do to the record.
LEMMA EngineRefined ==
  ASSUME EngineInv, [EngineNext]_engineVars
  PROVE  [Record!Next]_(Record!recordVars)
<1>1. localRound \in Nat
  BY DEF EngineInv, TypeOK
<1>2. CASE CommitRound
  BY <1>2, CommitRefined DEF Record!Next
<1>3. CASE BumpRound
  <2>1. UNCHANGED hops /\ round' = localRound + 1
        /\ pc = "bump" /\ pc' = "sleep" /\ localRound' = localRound + 1
    BY <1>3 DEF BumpRound
  <2>2. Record!ShowRound
    BY <1>1, <2>1 DEF Record!ShowRound
  <2>3. QED BY <2>2 DEF Record!Next
<1>4. CASE Reset
  <2>1. Record!Clear
    BY <1>4, SameOperators DEF Reset, local, Record!Clear
  <2>2. QED BY <2>1 DEF Record!Next
<1>5. CASE ~CommitRound /\ ~BumpRound /\ ~Reset
  <2>1. UNCHANGED <<hops, round, localRound>> /\ (pc = "bump" <=> pc' = "bump")
    BY <1>5 DEF EngineNext, EngineStep, UserStep, engineVars, shared, local, LoopTop,
         CheckPause, PauseTick, CancelInPause, SendProbe, IntervalElapsed, CancelInSleep,
         TogglePause, Cancel
  <2>2. QED BY <2>1 DEF Record!recordVars
<1>6. QED BY <1>2, <1>3, <1>4, <1>5

\* A name that is written names a row that had none; nothing else is seen.
LEMMA NameRefined ==
  ASSUME TargetInv, WriteName
  PROVE  [Record!Next]_(Record!recordVars)
<1>1. /\ dnsPc = "write" /\ hops' = Renamed(item.idx, item.addr, answer)
      /\ UNCHANGED <<round, pc, localRound>>
  BY DEF WriteName, local
<1>2. /\ item # None /\ item.addr \in Addr /\ answer \in {None, item.addr}
      /\ item \in Pending
  BY <1>1 DEF TargetInv, ItemInHand, TargetTypeOK, Lookup, Pending
<1>3. CASE hops' = hops
  BY <1>1, <1>3 DEF Record!recordVars
<1>4. CASE hops' # hops
  <2> DEFINE i == item.idx
  <2>1. /\ i \in DOMAIN hops /\ hops[i].addr = item.addr
        /\ hops' = [hops EXCEPT ![i].hostname = answer]
    BY <1>1, <1>4 DEF Renamed
  <2>2. hops[i].hostname = None
    BY <1>2, <2>1 DEF TargetInv, PendingRowsUnnamed
  <2>3. hops[i] \in HopState
    BY <2>1, Rows
  <2> HIDE DEF i
  <2>4. answer # None
    <3> SUFFICES ASSUME answer = None PROVE hops' = hops
      BY <1>4
    <3>1. [hops[i] EXCEPT !.hostname = None] = hops[i]
      BY <2>2, <2>3 DEF HopState
    <3>2. hops = [j \in DOMAIN hops |-> hops[j]]
      BY Rows
    <3>3. QED BY <2>1, <3>1, <3>2
  <2>5. answer = hops[i].addr /\ hops[i].addr # None
    BY <1>2, <2>1, <2>4, StateAssumption
  <2>6. Record!NameRow
    BY <1>1, <2>1, <2>2, <2>5 DEF Record!NameRow
  <2>7. QED BY <2>6 DEF Record!Next
<1>5. QED BY <1>3, <1>4

\* The readers of the record see whole rounds, their numbers, resets and names,
\* whatever the two tasks and the user do (probe_round, run, run_dns_resolver,
\* reset_all).
THEOREM ImplementsRecord == TargetSpec => RecordSpec
<1>1. TargetInit => Record!Init
  BY DEF TargetInit, Init, Record!Init
<1>2. TargetInv /\ [TargetNext]_targetVars => [Record!Next]_(Record!recordVars)
  <2> SUFFICES ASSUME TargetInv, [TargetNext]_targetVars
               PROVE  [Record!Next]_(Record!recordVars)
    OBVIOUS
  <2>1. CASE [EngineNext]_engineVars
    BY <2>1, EngineRefined DEF TargetInv
  <2>2. CASE WriteName
    BY <2>2, NameRefined
  <2>3. [EngineNext]_engineVars \/ WriteName
    BY DEF TargetNext, targetVars, DnsStep, StartDns, CollectRows, CancelBeforeLookup,
           ResolveFromCache, SendLookup, FinishLookup, FinishPass, WakeDns
  <2>4. QED BY <2>1, <2>2, <2>3
<1>3. QED BY <1>1, <1>2, TargetInvariant, PTL DEF TargetSpec, RecordSpec, Record!Spec

=============================================================================

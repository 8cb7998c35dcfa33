-------------------------- MODULE ProbeWaitProofs --------------------------
(***************************************************************************)
(* Proofs about ProbeWait, for every set of engines, every length of the   *)
(* paths, every timeout, every buffer and every range of sequence numbers. *)
(***************************************************************************)
EXTENDS ProbeWait, SequenceTheorems, TLAPS

-----------------------------------------------------------------------------
(* Numbers with the same remainder.                                        *)

\* A multiple of S between -S and S is zero.
LEMMA SmallMultiple ==
  ASSUME NEW S \in Nat \ {0}, NEW k \in Int, NEW d \in Int,
         d = k * S, -S < d, d < S
  PROVE  d = 0
<1>1. CASE k >= 1
  <2>1. k * S >= S BY <1>1, SMT
  <2>2. QED BY <2>1
<1>2. CASE k <= -1
  <2>1. k * S <= -S BY <1>2, SMT
  <2>2. QED BY <2>1
<1>3. CASE k = 0
  BY <1>3
<1>4. QED BY <1>1, <1>2, <1>3

\* Two numbers with the same remainder are S apart.
LEMMA SameRemainder ==
  ASSUME NEW S \in Nat \ {0}, NEW a \in Nat, NEW b \in Nat,
         a < b, a % S = b % S
  PROVE  b - a >= S
<1>1. a = S * (a \div S) + (a % S) BY SMT
<1>2. b = S * (b \div S) + (b % S) BY SMT
<1>3. (a \div S) \in Int /\ (b \div S) \in Int BY SMT
<1>4. b - a = ((b \div S) - (a \div S)) * S BY <1>1, <1>2, <1>3, SMT
<1>5. SUFFICES ASSUME b - a < S PROVE FALSE
  OBVIOUS
<1>6. PICK k \in Int : b - a = k * S
  <2> DEFINE q == (b \div S) - (a \div S)
  <2>1. q \in Int BY <1>3
  <2>2. b - a = q * S BY <1>4
  <2> HIDE DEF q
  <2>3. QED BY <2>1, <2>2
<1>7. PICK d \in Int : d = b - a
  OBVIOUS
<1>8. d = 0
  BY <1>5, <1>6, <1>7, SmallMultiple
<1>9. QED BY <1>7, <1>8

\* An offset does not make different remainders equal.
LEMMA SameSum ==
  ASSUME NEW S \in Nat \ {0}, NEW p \in Nat,
         NEW x \in 0..(S - 1), NEW y \in 0..(S - 1),
         (p + x) % S = (p + y) % S
  PROVE  x = y
<1>1. CASE x < y
  <2> DEFINE a == p + x
             b == p + y
  <2>1. a \in Nat /\ b \in Nat /\ a < b /\ a % S = b % S BY <1>1
  <2> HIDE DEF a, b
  <2>2. b - a >= S BY <2>1, SameRemainder
  <2>3. b - a = y - x BY DEF a, b
  <2>4. QED BY <2>2, <2>3
<1>2. CASE y < x
  <2> DEFINE a == p + y
             b == p + x
  <2>1. a \in Nat /\ b \in Nat /\ a < b /\ a % S = b % S BY <1>2
  <2> HIDE DEF a, b
  <2>2. b - a >= S BY <2>1, SameRemainder
  <2>3. b - a = x - y BY DEF a, b
  <2>4. QED BY <2>2, <2>3
<1>3. QED BY <1>1, <1>2

-----------------------------------------------------------------------------
(* Buffers.                                                                *)

Boxes(S) == [Engine -> [Channels -> Seq(S)]]

\* Buffers of members of a set are buffers of members of a larger one.
LEMMA BoxesGrow ==
  ASSUME NEW S, NEW T, S \subseteq T, NEW b \in Boxes(S)
  PROVE  b \in Boxes(T)
<1>1. \A s \in Seq(S) : s \in Seq(T)
  <2>1. TAKE s \in Seq(S)
  <2>2. s \in [1..Len(s) -> S] /\ Len(s) \in Nat
    BY LenProperties
  <2>3. s \in [1..Len(s) -> T]
    BY <2>2
  <2>4. QED BY <2>2, <2>3, SeqDef
<1>2. QED BY <1>1 DEF Boxes

\* The oldest message is one of the messages, and so are the others.
LEMMA BehindType ==
  ASSUME NEW S, box \in Boxes(S), NEW e \in Engine, NEW chan \in Channels,
         box[e][chan] # <<>>
  PROVE  Head(box[e][chan]) \in S /\ Behind(e, chan) \in Boxes(S)
<1>1. box[e][chan] \in Seq(S)
  BY DEF Boxes
<1>2. Head(box[e][chan]) \in S /\ Tail(box[e][chan]) \in Seq(S)
  BY <1>1, HeadTailProperties
<1>3. QED BY <1>2 DEF Behind, Boxes

\* What arrives adds one message to the buffers.
LEMMA ArriveType ==
  ASSUME NEW S, box \in Boxes(S), NEW m \in S, NEW chan \in Channels,
         NEW isIpv6 \in BOOLEAN, Arrive(m, chan, isIpv6)
  PROVE  box' \in Boxes(S)
<1>1. ASSUME NEW e \in Engine
      PROVE  [box[e] EXCEPT ![chan] = Append(@, m)] \in [Channels -> Seq(S)]
  <2>1. Append(box[e][chan], m) \in Seq(S)
    BY AppendProperties DEF Boxes
  <2>2. QED BY <2>1 DEF Boxes
<1>2. QED BY <1>1 DEF Arrive, Boxes

-----------------------------------------------------------------------------
(* The invariant of the loops.                                             *)

\* A probe comes to an end as the invariant wants it, whatever its answer.
LEMMA EndStep ==
  ASSUME ProbeInv, NEW e \in Engine, NEW answer \in Answer \cup {None},
         End(e, answer), UNCHANGED <<net, probe>>,
         open' \in [Engine -> BOOLEAN], box' \in Boxes(Sent \cup {Noise})
  PROVE  ProbeInv'
<1>1. Sent' = Sent
  BY DEF Sent, probe
<1>2. AnswersSent'
  <2>1. \A f \in Engine : pc'[f] # "idle" => pc[f] # "idle"
    BY DEF End, ProbeInv, TypeOK
  <2>2. QED BY <1>1, <2>1 DEF AnswersSent, ProbeInv, net, probe, Boxes
<1>3. Sent \cup {Noise} \subseteq Answer \cup {Noise}
  BY DEF Sent
<1>4. box' \in Boxes(Answer \cup {Noise})
  BY <1>3, BoxesGrow
<1>5. TypeOK'
  BY <1>4 DEF TypeOK, ProbeInv, End, net, setting, probe, Boxes
<1>6. ClocksAgree'
  <2>1. ASSUME NEW f \in Engine, f # e
        PROVE  pc'[f] = pc[f] /\ elapsed'[f] = elapsed[f] /\ armed'[f] = armed[f]
    BY <2>1 DEF End, ProbeInv, TypeOK
  <2>2. pc'[e] = "idle" /\ elapsed'[e] = 0 /\ armed'[e] = 0
    BY DEF End, ProbeInv, TypeOK
  <2>3. protocol' = protocol /\ Timeout \in Nat \ {0}
    BY ProbeAssumption DEF net, setting
  <2>4. QED BY <2>1, <2>2, <2>3 DEF ClocksAgree, ProbeInv
<1>7. QED BY <1>2, <1>5, <1>6 DEF ProbeInv

\* The invariant holds at the start.
LEMMA InitInv == Init => ProbeInv
<1> SUFFICES ASSUME Init PROVE ProbeInv
  OBVIOUS
<1>1. \A S : box \in Boxes(S)
  BY EmptySeq DEF Init, Boxes
<1>2. TypeOK
  <2>1. box \in [Engine -> [Channels -> Seq(Answer \cup {Noise})]]
    BY <1>1 DEF Boxes
  <2>2. 0 \in 0..Bandwidth /\ MaxHops \in 1..MaxHops
    BY ProbeAssumption
  <2>3. [protocol |-> protocol, ipv6 |-> ipv6, drawn |-> drawn,
         maxNumber |-> maxNumber] \in Settings
    <3>1. PICK s \in Settings : /\ protocol = s.protocol /\ ipv6 = s.ipv6
                               /\ drawn = s.drawn /\ maxNumber = s.maxNumber
      BY DEF Init
    <3>2. s \in Setting
      BY SettingAssumption
    <3>3. s = [protocol |-> protocol, ipv6 |-> ipv6, drawn |-> drawn,
               maxNumber |-> maxNumber]
      BY <3>1, <3>2 DEF Setting
    <3>4. QED BY <3>3
  <2>4. QED BY <2>1, <2>2, <2>3 DEF Init, TypeOK
<1>3. AnswersSent
  BY <1>1 DEF Init, AnswersSent, Boxes
<1>4. ClocksAgree
  <2> SUFFICES ASSUME NEW e \in Engine
               PROVE  /\ elapsed[e] <= Timeout - (IF pc[e] \in {"tcp", "sleep"} THEN 1 ELSE 0)
                      /\ pc[e] \in {"idle", "icmp"}
                      /\ armed[e] <= Timeout
                      /\ elapsed[e] - armed[e] < Timeout
    BY DEF ClocksAgree
  <2>1. pc[e] = "idle" /\ elapsed[e] = 0 /\ armed[e] = 0
    BY DEF Init
  <2>2. Timeout \in Nat \ {0}
    BY ProbeAssumption
  <2>3. QED BY <2>1, <2>2
<1>5. QED BY <1>2, <1>3, <1>4 DEF ProbeInv

\* The next probe has a ttl within bounds and a number beyond the last one's.
LEMMA NextProbeType ==
  ASSUME TypeOK, NEW e \in Engine
  PROVE  /\ NextTtl(e) \in 1..MaxHops
         /\ NextNumber(e) \in Nat
         /\ NextNumber(e) > number[e]
<1> DEFINE n == number[e]
           t == ttl[e]
<1>1. n \in Nat /\ t \in 1..MaxHops /\ MaxHops \in Nat \ {0}
  BY ProbeAssumption DEF TypeOK
<1>2. RoundOver(e) \in BOOLEAN /\ (~RoundOver(e) => t # MaxHops)
  BY DEF RoundOver
<1>3. NextTtl(e) = IF RoundOver(e) THEN 1 ELSE t + 1
  BY DEF NextTtl
<1>4. NextNumber(e) = IF RoundOver(e) THEN n - t + MaxHops + 1 ELSE n + 1
  BY DEF NextNumber
<1> HIDE DEF n, t
<1>5. CASE RoundOver(e)
  <2>1. NextTtl(e) = 1 /\ NextNumber(e) = n - t + MaxHops + 1
    BY <1>3, <1>4, <1>5
  <2>2. NextTtl(e) \in 1..MaxHops /\ NextNumber(e) \in Nat /\ NextNumber(e) > n
    BY <1>1, <2>1
  <2>3. QED BY <2>2 DEF n
<1>6. CASE ~RoundOver(e)
  <2>1. NextTtl(e) = t + 1 /\ NextNumber(e) = n + 1
    BY <1>3, <1>4, <1>6
  <2>2. NextTtl(e) \in 1..MaxHops /\ NextNumber(e) \in Nat /\ NextNumber(e) > n
    BY <1>1, <1>2, <1>6, <2>1
  <2>3. QED BY <2>2 DEF n
<1>7. QED BY <1>5, <1>6

\* A probe that is sent keeps the invariant: no answer becomes newer than the
\* latest probe, since the numbers only grow.
LEMMA SendInv ==
  ASSUME ProbeInv, NEW e \in Engine, Send(e)
  PROVE  ProbeInv'
<1> DEFINE a == AnswerTo(e, NextNumber(e), NextTtl(e))
<1>1. TypeOK
  BY DEF ProbeInv
<1>2. NextTtl(e) \in 1..MaxHops /\ NextNumber(e) \in Nat /\ NextNumber(e) > number[e]
  BY <1>1, NextProbeType
<1>3. a \in Answer /\ a.to = e /\ a.number = NextNumber(e)
  BY <1>2 DEF AnswerTo, Answer
<1>4. number' = [number EXCEPT ![e] = NextNumber(e)] /\ number \in [Engine -> Nat]
  BY <1>1 DEF Send, TypeOK
<1>5. Sent \subseteq Sent'
  <2>1. ASSUME NEW m \in Sent PROVE m \in Sent'
    <3>1. m \in Answer /\ m.to \in Engine /\ m.number \in 1..number[m.to]
      BY DEF Sent, Answer
    <3>2. number'[m.to] \in Nat /\ number'[m.to] >= number[m.to]
      BY <1>2, <1>4, <3>1
    <3>3. m.number \in 1..number'[m.to]
      BY <1>2, <1>4, <3>1, <3>2
    <3>4. QED BY <3>1, <3>3 DEF Sent
  <2>2. QED BY <2>1
<1>6. a \in Sent'
  <2>1. a.number \in 1..number'[a.to]
    BY <1>2, <1>3, <1>4
  <2>2. QED BY <1>3, <2>1 DEF Sent
<1>7. wire' \subseteq wire \cup {a}
  BY DEF Send
<1>8. AnswersSent'
  <2>1. wire' \subseteq Sent'
    BY <1>5, <1>6, <1>7 DEF ProbeInv, AnswersSent
  <2>2. box \in Boxes(Sent \cup {Noise})
    BY DEF ProbeInv, AnswersSent, Boxes
  <2>3. box \in Boxes(Sent' \cup {Noise})
    BY <1>5, <2>2, BoxesGrow
  <2>4. box' = box
    BY DEF Send
  <2>5. \A f \in Engine : pc'[f] # "idle" => number'[f] > 0
    <3>1. number'[e] > 0
      BY <1>2, <1>4
    <3>2. \A f \in Engine \ {e} : pc'[f] = pc[f] /\ number'[f] = number[f]
      BY <1>1, <1>4 DEF Send, TypeOK
    <3>3. QED BY <3>1, <3>2 DEF ProbeInv, AnswersSent
  <2>6. QED BY <2>1, <2>3, <2>4, <2>5 DEF AnswersSent, Boxes
<1>9. TypeOK'
  <2>1. wire' \subseteq Answer
    BY <1>1, <1>3, <1>7 DEF TypeOK
  <2>2. QED BY <1>1, <1>2, <2>1 DEF TypeOK, Send, TakeSockets, setting, clock
<1>10. ClocksAgree'
  BY <1>1, ProbeAssumption DEF ProbeInv, ClocksAgree, TypeOK, Send, setting, clock
<1>11. QED BY <1>8, <1>9, <1>10 DEF ProbeInv

\* A step of a loop that reads a message of others, or finds none, and goes on.
LEMMA GoOnStep ==
  ASSUME ProbeInv, NEW e \in Engine,
         UNCHANGED <<net, probe, open, got, elapsed>>,
         box' \in Boxes(Sent \cup {Noise}),
         pc' \in [Engine -> {"idle", "icmp", "tcp", "sleep"}],
         \A f \in Engine : pc'[f] # "idle" => pc[f] # "idle",
         armed' \in [Engine -> Nat],
         ClocksAgree'
  PROVE  ProbeInv'
<1>1. Sent' = Sent
  BY DEF Sent, probe
<1>2. AnswersSent'
  BY <1>1 DEF AnswersSent, ProbeInv, net, probe, Boxes
<1>3. Sent \cup {Noise} \subseteq Answer \cup {Noise}
  BY DEF Sent
<1>4. box' \in Boxes(Answer \cup {Noise})
  BY <1>3, BoxesGrow
<1>5. TypeOK'
  BY <1>4 DEF TypeOK, ProbeInv, net, setting, probe, Boxes
<1>6. QED BY <1>2, <1>5 DEF ProbeInv

\* Reading on keeps the invariant: after the whole timeout of a receive that
\* began in time, twice the timeout is not over.
LEMMA SkipInv ==
  ASSUME ProbeInv, NEW e \in Engine, Skip(e)
  PROVE  ProbeInv'
<1>1. box \in Boxes(Sent \cup {Noise})
  BY DEF ProbeInv, AnswersSent, Boxes
<1>2. box' \in Boxes(Sent \cup {Noise})
  BY <1>1, BehindType DEF Skip, Channels
<1>3. CASE End(e, None)
  BY <1>2, <1>3, EndStep DEF Skip, ProbeInv, TypeOK
<1>4. CASE /\ elapsed[e] < Timeout
           /\ armed' = [armed EXCEPT ![e] = 0]
           /\ UNCHANGED <<pc, got, elapsed>>
  <2>1. /\ armed' \in [Engine -> Nat]
        /\ pc' \in [Engine -> {"idle", "icmp", "tcp", "sleep"}]
        /\ pc' = pc
    BY <1>4 DEF ProbeInv, TypeOK
  <2>2. ClocksAgree'
    <3>1. /\ \A f \in Engine : pc'[f] = pc[f] /\ elapsed'[f] = elapsed[f]
          /\ \A f \in Engine \ {e} : armed'[f] = armed[f]
          /\ armed'[e] = 0
      BY <1>4 DEF ProbeInv, TypeOK
    <3>2. protocol' = protocol /\ protocol # "tcp" /\ Timeout \in Nat \ {0}
      BY ProbeAssumption DEF Skip, Blocking, net, setting
    <3>3. elapsed[e] \in Nat /\ elapsed[e] < Timeout
      BY <1>4 DEF ProbeInv, TypeOK
    <3>4. QED BY <3>1, <3>2, <3>3 DEF ClocksAgree, ProbeInv
  <2>3. QED BY <1>2, <1>4, <2>1, <2>2, GoOnStep DEF Skip
<1>5. QED BY <1>3, <1>4 DEF Skip

\* A turn of the polling loop keeps it.
LEMMA PollInv ==
  ASSUME ProbeInv, NEW e \in Engine, NEW chan \in Channels, Poll(e, chan)
  PROVE  ProbeInv'
<1>1. box \in Boxes(Sent \cup {Noise}) /\ Sent \subseteq Answer
  BY DEF ProbeInv, AnswersSent, Boxes, Sent
<1>2. box[e][chan] # <<>> =>
        /\ Head(box[e][chan]) \in Sent \cup {Noise}
        /\ Behind(e, chan) \in Boxes(Sent \cup {Noise})
  BY <1>1, BehindType
<1>3. CASE /\ box[e][chan] # <<>>
           /\ Matches(e, Head(box[e][chan]))
           /\ End(e, Head(box[e][chan]))
           /\ box' = Behind(e, chan)
  <2>1. Head(box[e][chan]) \in Answer
    BY <1>1, <1>2, <1>3 DEF Matches
  <2>2. QED BY <1>2, <1>3, <2>1, EndStep DEF Poll, ProbeInv, TypeOK
<1>4. CASE /\ pc' = [pc EXCEPT ![e] = AfterPoll(chan)]
           /\ box' \in Boxes(Sent \cup {Noise})
           /\ UNCHANGED <<clock, got>>
  <2>1. AfterPoll(chan) \in {"tcp", "sleep"}
    BY DEF AfterPoll
  <2>2. /\ pc' \in [Engine -> {"idle", "icmp", "tcp", "sleep"}]
        /\ \A f \in Engine : pc'[f] # "idle" => pc[f] # "idle"
    BY <1>4, <2>1 DEF ProbeInv, TypeOK, Poll, Polling, Channels
  <2>3. armed' \in [Engine -> Nat]
    BY <1>4 DEF ProbeInv, TypeOK, clock
  <2>4. elapsed[e] <= Timeout - 1
    <3>1. protocol = "tcp" /\ pc[e] = chan /\ (chan = "icmp" => elapsed[e] < Timeout)
      BY DEF Poll, Polling
    <3>2. elapsed[e] \in Nat /\ Timeout \in Nat
      BY ProbeAssumption DEF ProbeInv, TypeOK
    <3>3. CASE chan = "icmp"
      BY <3>1, <3>2, <3>3
    <3>4. CASE chan = "tcp"
      BY <3>1, <3>2, <3>4 DEF ProbeInv, ClocksAgree
    <3>5. QED BY <3>3, <3>4 DEF Channels
  <2>5. ClocksAgree'
    <3>1. /\ \A f \in Engine : elapsed'[f] = elapsed[f] /\ armed'[f] = armed[f]
          /\ \A f \in Engine \ {e} : pc'[f] = pc[f]
      BY <1>4 DEF ProbeInv, TypeOK, clock
    <3>2. protocol' = "tcp" /\ protocol = "tcp" /\ Timeout \in Nat \ {0}
      BY ProbeAssumption DEF Poll, Polling, net, setting
    <3>3. elapsed[e] \in Nat
      BY DEF ProbeInv, TypeOK
    <3>4. QED BY <2>4, <3>1, <3>2, <3>3 DEF ClocksAgree, ProbeInv
  <2>6. QED BY <1>4, <2>2, <2>3, <2>5, GoOnStep DEF Poll, clock
<1>5. QED BY <1>1, <1>2, <1>3, <1>4 DEF Poll

\* What the network and the kernel do keeps it.
LEMMA NetworkInv ==
  ASSUME ProbeInv, Deliver \/ Interfere \/ Lose
  PROVE  ProbeInv'
<1>1. box \in Boxes(Sent \cup {Noise}) /\ Sent' = Sent
  BY DEF ProbeInv, AnswersSent, Boxes, Sent, Deliver, Interfere, Lose, probe
<1>2. /\ box' \in Boxes(Sent \cup {Noise})
      /\ wire' \subseteq wire
      /\ burst' \in 0..Bandwidth
  <2>1. ASSUME NEW m \in Sent \cup {Noise}, NEW chan \in Channels,
               NEW isIpv6 \in BOOLEAN, Arrive(m, chan, isIpv6)
        PROVE  box' \in Boxes(Sent \cup {Noise}) /\ burst' \in 0..Bandwidth
    <3>1. burst' \in 0..Bandwidth
      BY <2>1, ProbeAssumption DEF Arrive, ProbeInv, TypeOK
    <3>2. QED BY <1>1, <2>1, <3>1, ArriveType
  <2>2. CASE Deliver
    <3>1. PICK m \in wire : /\ Arrive(m, Channel(m), m.to \in ipv6)
                            /\ wire' \in {wire, wire \ {m}}
      BY <2>2 DEF Deliver
    <3>2. m \in Sent /\ Channel(m) \in Channels
      BY DEF ProbeInv, AnswersSent, Channel, Channels
    <3>3. CASE m.to \in ipv6
      <4>1. Arrive(m, Channel(m), TRUE)
        BY <3>1, <3>3 DEF Arrive
      <4>2. QED BY <2>1, <3>1, <3>2, <4>1
    <3>4. CASE m.to \notin ipv6
      <4>1. Arrive(m, Channel(m), FALSE)
        BY <3>1, <3>4 DEF Arrive
      <4>2. QED BY <2>1, <3>1, <3>2, <4>1
    <3>5. QED BY <3>3, <3>4
  <2>3. CASE Interfere
    <3>1. wire' = wire
      BY <2>3 DEF Interfere
    <3>2. PICK chan \in Channels, isIpv6 \in BOOLEAN : Arrive(Noise, chan, isIpv6)
      BY <2>3 DEF Interfere, Channels
    <3>3. QED BY <2>1, <3>1, <3>2
  <2>4. CASE Lose
    BY <1>1, <2>4 DEF Lose, ProbeInv, TypeOK
  <2>5. QED BY <2>2, <2>3, <2>4
<1>3. UNCHANGED <<setting, pc, probe, open, clock, got>>
  BY DEF Deliver, Interfere, Lose
<1>4. AnswersSent'
  BY <1>1, <1>2, <1>3 DEF AnswersSent, ProbeInv, Boxes, probe
<1>5. TypeOK'
  <2>1. box' \in Boxes(Answer \cup {Noise})
    BY <1>2, BoxesGrow DEF Sent
  <2>2. QED BY <1>2, <1>3, <2>1 DEF TypeOK, ProbeInv, Boxes, setting, probe, clock
<1>6. ClocksAgree'
  BY <1>3 DEF ClocksAgree, ProbeInv, setting, clock
<1>7. QED BY <1>4, <1>5, <1>6 DEF ProbeInv

\* The clock keeps it.
LEMMA TickInv ==
  ASSUME ProbeInv, Tick
  PROVE  ProbeInv'
<1>1. Sent' = Sent /\ box' = box /\ wire' = wire /\ number' = number
  BY DEF Tick, Sent, probe
<1>2. AnswersSent'
  <2>1. \A e \in Engine : pc'[e] # "idle" => pc[e] # "idle"
    BY DEF Tick, Waiting, Blocking, Polling
  <2>2. QED BY <1>1, <2>1 DEF AnswersSent, ProbeInv
<1>3. TypeOK'
  <2>1. /\ elapsed' \in [Engine -> Nat]
        /\ armed' \in [Engine -> Nat]
        /\ pc' \in [Engine -> {"idle", "icmp", "tcp", "sleep"}]
    BY DEF Tick, ProbeInv, TypeOK
  <2>2. burst' \in 0..Bandwidth
    BY ProbeAssumption DEF Tick
  <2>3. UNCHANGED <<setting, wire, number, ttl, open, box, got>>
    BY DEF Tick, probe
  <2>4. QED BY <2>1, <2>2, <2>3 DEF ProbeInv, TypeOK, setting
<1>4. ClocksAgree'
  <2> SUFFICES ASSUME NEW e \in Engine
               PROVE  /\ protocol = "tcp" =>
                            elapsed'[e] <= Timeout - (IF pc'[e] \in {"tcp", "sleep"} THEN 1 ELSE 0)
                      /\ protocol # "tcp" => /\ pc'[e] \in {"idle", "icmp"}
                                             /\ armed'[e] <= Timeout
                                             /\ elapsed'[e] - armed'[e] < Timeout
    BY DEF ClocksAgree, Tick, setting
  <2>1. CASE Waiting(e)
    <3>1. elapsed'[e] = elapsed[e] + 1 /\ armed'[e] = armed[e] + 1 /\ pc'[e] = "icmp"
      BY <2>1 DEF Tick
    <3>2. QED BY <2>1, <3>1, ProbeAssumption
          DEF Waiting, Blocking, Polling, ProbeInv, TypeOK, ClocksAgree
  <2>2. CASE ~Waiting(e)
    <3>1. elapsed'[e] = elapsed[e] /\ armed'[e] = armed[e] /\ pc'[e] = pc[e]
      BY <2>2 DEF Tick
    <3>2. QED BY <3>1 DEF ProbeInv, ClocksAgree
  <2>3. QED BY <2>1, <2>2
<1>5. QED BY <1>2, <1>3, <1>4 DEF ProbeInv

\* Every step keeps the invariant.
LEMMA StepInv == ProbeInv /\ [Next]_vars => ProbeInv'
<1> SUFFICES ASSUME ProbeInv, [Next]_vars PROVE ProbeInv'
  OBVIOUS
<1> USE DEF ProbeInv
<1>1. box \in Boxes(Sent \cup {Noise}) /\ Sent \subseteq Answer
  BY DEF AnswersSent, Boxes, Sent
<1>2. ASSUME NEW e \in Engine, Send(e) PROVE ProbeInv'
  BY <1>2, SendInv
<1>3. ASSUME NEW e \in Engine, Accept(e) PROVE ProbeInv'
  <2>1. Head(box[e]["icmp"]) \in Answer /\ Behind(e, "icmp") \in Boxes(Sent \cup {Noise})
    BY <1>1, <1>3, BehindType DEF Accept, Matches, Channels
  <2>2. QED BY <1>3, <2>1, EndStep DEF Accept, TypeOK
<1>4. ASSUME NEW e \in Engine, Skip(e) PROVE ProbeInv'
  BY <1>4, SkipInv
<1>5. ASSUME NEW e \in Engine, Expire(e) \/ PollExpire(e) PROVE ProbeInv'
  BY <1>1, <1>5, EndStep DEF Expire, PollExpire, TypeOK
<1>6. ASSUME NEW e \in Engine, NEW chan \in Channels, Poll(e, chan) PROVE ProbeInv'
  BY <1>6, PollInv
<1>7. ASSUME NEW e \in Engine, Fail(e) PROVE ProbeInv'
  <2>1. [box EXCEPT ![e] = [chan \in Channels |-> <<>>]] \in Boxes(Sent \cup {Noise})
    BY <1>1, EmptySeq DEF Boxes
  <2>2. QED BY <1>7, <2>1, EndStep DEF Fail, CloseSockets, TypeOK
<1>8. CASE Deliver \/ Interfere \/ Lose
  BY <1>8, NetworkInv
<1>9. CASE Tick
  BY <1>9, TickInv
<1>10. CASE UNCHANGED vars
  BY <1>10 DEF vars, net, setting, probe, clock, TypeOK, AnswersSent, Sent, ClocksAgree
<1>11. QED
  BY <1>2, <1>3, <1>4, <1>5, <1>6, <1>7, <1>8, <1>9, <1>10 DEF Next, WaitStep

-----------------------------------------------------------------------------
(* The theorems.                                                           *)

\* The invariant of the receive loops holds in every reachable state.
THEOREM ProbeInvariant == Spec => []ProbeInv
<1>1. Init => ProbeInv
  BY InitInv
<1>2. ProbeInv /\ [Next]_vars => ProbeInv'
  BY StepInv
<1>3. QED BY <1>1, <1>2, PTL DEF Spec

\* The state of the probes is well formed.
THEOREM TypeCorrect == Spec => []TypeOK
<1>1. ProbeInv => TypeOK
  BY DEF ProbeInv
<1>2. QED BY <1>1, ProbeInvariant, PTL

\* A blocking wait lasts less than twice the timeout, and a polling one no
\* longer than the timeout (the receive loops of send_probe, send_udp_probe and
\* send_tcp_probe).
THEOREM WaitIsBounded == Spec => []WaitBounded
<1>1. ProbeInv => WaitBounded
  <2> SUFFICES ASSUME ProbeInv, NEW e \in Engine
               PROVE  elapsed[e] <= (IF protocol = "tcp" THEN Timeout ELSE 2 * Timeout - 1)
    BY DEF WaitBounded
  <2>1. elapsed[e] \in Nat /\ armed[e] \in Nat /\ Timeout \in Nat \ {0}
    BY ProbeAssumption DEF ProbeInv, TypeOK
  <2>2. CASE protocol = "tcp"
    <3>1. elapsed[e] <= Timeout - (IF pc[e] \in {"tcp", "sleep"} THEN 1 ELSE 0)
      BY <2>2 DEF ProbeInv, ClocksAgree
    <3>2. QED BY <2>1, <2>2, <3>1
  <2>3. CASE protocol # "tcp"
    <3>1. armed[e] <= Timeout /\ elapsed[e] - armed[e] < Timeout
      BY <2>3 DEF ProbeInv, ClocksAgree
    <3>2. QED BY <2>1, <2>3, <3>1
  <2>4. QED BY <2>2, <2>3
<1>2. QED BY <1>1, ProbeInvariant, PTL

\* What the settings are.
LEMMA SettingType ==
  ASSUME TypeOK
  PROVE  /\ protocol \in {"icmp", "udp", "tcp"}
         /\ drawn \in [Engine -> Nat]
<1> DEFINE s == [protocol |-> protocol, ipv6 |-> ipv6, drawn |-> drawn,
                 maxNumber |-> maxNumber]
<1>1. s \in Setting
  BY SettingAssumption DEF TypeOK
<1>2. s.protocol \in {"icmp", "udp", "tcp"} /\ s.drawn \in [Engine -> Nat]
  BY <1>1 DEF Setting
<1>3. QED BY <1>2

\* What an answer to a probe looks like if it is taken for the engine's own.
TakenOurs(e, m) ==
  /\ m.to # e => ~Apart(e, m.to)
  /\ m.to = e /\ protocol # "udp" =>
       m.number = number[e] \/ number[e] - m.number >= SeqMod

\* What an engine takes for the answer to its probe is the answer to another
\* engine's only if nothing told the two apart, and over ICMP and TCP to no probe
\* of its own but the latest or one from before the sequence number came round.
LEMMA MatchIsOurs ==
  ASSUME ProbeInv, NEW e \in Engine, pc[e] # "idle", NEW m \in Sent, Matches(e, m)
  PROVE  TakenOurs(e, m)
<1>1. /\ m.to \in Engine /\ m.number \in 1..number[m.to] /\ m.number \in Nat
      /\ number[e] \in 1..number[e] /\ number[e] \in Nat /\ SeqMod \in Nat \ {0}
      /\ (m.to = e => m.number <= number[e])
  <2>1. m.to \in Engine /\ m.number \in 1..number[m.to] /\ m.number \in Nat
    BY DEF Sent, Answer
  <2>2. number[e] \in Nat /\ number[e] > 0 /\ SeqMod \in Nat \ {0}
    BY ProbeAssumption DEF ProbeInv, TypeOK, AnswersSent
  <2>3. QED BY <2>1, <2>2
<1>2. Key(m.to, m.number) = Key(e, number[e])
  BY DEF Matches
<1>3. protocol \in {"icmp", "udp", "tcp"} /\ drawn \in [Engine -> Nat]
  BY SettingType DEF ProbeInv
<1>4. CASE protocol = "icmp"
  <2>1. drawn[m.to] = drawn[e] /\ m.number % SeqMod = number[e] % SeqMod
    BY <1>2, <1>4 DEF Key, IcmpKey, Seq16
  <2>2. ASSUME m.to = e, m.number # number[e]
        PROVE  number[e] - m.number >= SeqMod
    <3>1. m.number < number[e]
      BY <1>1, <2>2
    <3>2. QED BY <1>1, <2>1, <3>1, SameRemainder
  <2>3. ~Apart(e, m.to)
    BY <1>4, <2>1 DEF Apart
  <2>4. QED BY <2>2, <2>3 DEF TakenOurs
<1>5. CASE protocol = "udp"
  <2>1. Dest[m.to] = Dest[e]
    BY <1>2, <1>5 DEF Key, UdpKey
  <2>2. ~Apart(e, m.to)
    BY <1>5, <2>1 DEF Apart
  <2>3. QED BY <1>5, <2>2 DEF TakenOurs
<1>6. CASE protocol = "tcp"
  <2>1. TcpKey(m.to, m.number) = TcpKey(e, number[e])
    BY <1>2, <1>6 DEF Key
  <2>2. ~Apart(e, m.to)
    <3>1. TcpKey(e, number[e]) \in PortsUsed(e)
      BY <1>1 DEF PortsUsed
    <3>2. TcpKey(m.to, m.number) \in PortsUsed(m.to)
      BY <1>1 DEF PortsUsed
    <3>3. QED BY <1>6, <2>1, <3>1, <3>2 DEF Apart
  <2>3. ASSUME m.to = e, m.number # number[e]
        PROVE  number[e] - m.number >= SeqMod
    <3> DEFINE x == m.number % SeqMod
               y == number[e] % SeqMod
    <3>1. (drawn[e] + x) % SeqMod = (drawn[e] + y) % SeqMod
      BY <2>1, <2>3 DEF TcpKey, Seq16
    <3>2. x \in 0..(SeqMod - 1) /\ y \in 0..(SeqMod - 1) /\ drawn[e] \in Nat
      BY <1>1, <1>3
    <3> HIDE DEF x, y
    <3>3. x = y
      BY <1>1, <3>1, <3>2, SameSum
    <3>4. m.number < number[e]
      BY <1>1, <2>3
    <3>5. QED BY <1>1, <3>3, <3>4, SameRemainder DEF x, y
  <2>4. QED BY <2>2, <2>3 DEF TakenOurs
<1>7. QED BY <1>3, <1>4, <1>5, <1>6

\* The invariant, with the answers named.
LEMMA OursTaken ==
  AnswerIsOurs <=> \A e \in Engine : got[e] # None => TakenOurs(e, got[e])
BY DEF AnswerIsOurs, TakenOurs

\* What tells the engines apart changes with the numbers only.
LEMMA SameApart ==
  ASSUME UNCHANGED <<protocol, drawn, number>>, NEW e, NEW f
  PROVE  Apart(e, f)' <=> Apart(e, f)
<1>1. PortsUsed(e)' = PortsUsed(e) /\ PortsUsed(f)' = PortsUsed(f)
  BY DEF PortsUsed, TcpKey
<1>2. QED BY <1>1 DEF Apart

LEMMA SameOurs ==
  ASSUME AnswerIsOurs, UNCHANGED <<protocol, drawn, number, got>>
  PROVE  AnswerIsOurs'
BY SameApart DEF AnswerIsOurs

\* Ending a probe with what matches it, or with nothing, leaves the other
\* engines' answers alone.
LEMMA EndOurs ==
  ASSUME ProbeInv, AnswerIsOurs,
         NEW e \in Engine, NEW answer, End(e, answer), UNCHANGED <<net, probe>>,
         answer # None => pc[e] # "idle" /\ answer \in Sent /\ Matches(e, answer)
  PROVE  AnswerIsOurs'
<1>1. UNCHANGED <<protocol, drawn, number>>
  BY DEF net, setting, probe
<1>2. \A f, g : (Apart(f, g))' <=> Apart(f, g)
  BY <1>1, SameApart
<1> SUFFICES ASSUME NEW f \in Engine, got'[f] # None
             PROVE  TakenOurs(f, got'[f])
  BY <1>1, <1>2 DEF AnswerIsOurs, TakenOurs
<1>3. CASE f = e
  <2>1. got'[e] = answer
    BY DEF End, ProbeInv, TypeOK
  <2>2. QED BY <1>3, <2>1, MatchIsOurs
<1>4. CASE f # e
  <2>1. got'[f] = got[f]
    BY <1>4 DEF End, ProbeInv, TypeOK
  <2>2. QED BY <2>1, OursTaken
<1>5. QED BY <1>3, <1>4

\* The more probes are sent, the less the ports tell the engines apart.
LEMMA SendOurs ==
  ASSUME ProbeInv, AnswerIsOurs, NEW e \in Engine, Send(e)
  PROVE  AnswerIsOurs'
<1>1. \A f \in Engine \ {e} : got'[f] = got[f] /\ number'[f] = number[f]
  BY DEF Send, ProbeInv, TypeOK
<1>2. got'[e] = None /\ protocol' = protocol /\ drawn' = drawn
  BY DEF Send, ProbeInv, TypeOK, setting
<1>3. \A f \in Engine : PortsUsed(f) \subseteq PortsUsed(f)'
  <2>1. \A f \in Engine : 1..number[f] \subseteq 1..number'[f]
    <3>1. number'[e] = NextNumber(e) /\ number \in [Engine -> Nat]
      BY DEF Send, ProbeInv, TypeOK
    <3>2. NextNumber(e) \in Nat /\ NextNumber(e) > number[e]
      BY NextProbeType DEF ProbeInv
    <3>3. ASSUME NEW f \in Engine PROVE 1..number[f] \subseteq 1..number'[f]
      BY <1>1, <3>1, <3>2
    <3>4. QED BY <3>3
  <2>2. QED BY <1>2, <2>1 DEF PortsUsed, TcpKey
<1>4. \A f, g \in Engine : ~Apart(f, g) => ~Apart(f, g)'
  <2> SUFFICES ASSUME NEW f \in Engine, NEW g \in Engine, ~Apart(f, g)
               PROVE  ~Apart(f, g)'
    OBVIOUS
  <2>1. PortsUsed(f) \subseteq PortsUsed(f)' /\ PortsUsed(g) \subseteq PortsUsed(g)'
    BY <1>3
  <2>2. CASE protocol = "icmp"
    BY <1>2, <2>2 DEF Apart
  <2>3. CASE protocol = "udp"
    BY <1>2, <2>3 DEF Apart
  <2>4. CASE protocol = "tcp"
    <3>1. PICK p : p \in PortsUsed(f) /\ p \in PortsUsed(g)
      BY <2>4 DEF Apart
    <3>2. p \in PortsUsed(f)' /\ p \in PortsUsed(g)' /\ protocol' = "tcp"
      BY <1>2, <2>1, <2>4, <3>1
    <3>3. QED BY <3>2 DEF Apart
  <2>5. QED BY <2>2, <2>3, <2>4, SettingType DEF ProbeInv
<1>5. \A f \in Engine : got[f] # None => got[f].to \in Engine
  BY DEF ProbeInv, TypeOK, Answer
<1>6. QED BY <1>1, <1>2, <1>4, <1>5 DEF AnswerIsOurs

\* Every step keeps the answers the engines' own.
LEMMA StepOurs == ProbeInv /\ AnswerIsOurs /\ [Next]_vars => AnswerIsOurs'
<1> SUFFICES ASSUME ProbeInv, AnswerIsOurs, [Next]_vars PROVE AnswerIsOurs'
  OBVIOUS
<1>2. \A e \in Engine, chan \in Channels :
        box[e][chan] # <<>> => Head(box[e][chan]) \in Sent \cup {Noise}
  BY BehindType DEF ProbeInv, AnswersSent, Boxes
<1>3. ASSUME NEW e \in Engine, Send(e) PROVE AnswerIsOurs'
  BY <1>3, SendOurs
<1>4. ASSUME NEW e \in Engine, Accept(e) PROVE AnswerIsOurs'
  <2>1. Head(box[e]["icmp"]) \in Sent
    BY <1>2, <1>4 DEF Accept, Matches, Channels
  <2>2. QED BY <1>4, <2>1, EndOurs DEF Accept, Blocking
<1>5. ASSUME NEW e \in Engine, Skip(e) PROVE AnswerIsOurs'
  <2>1. CASE End(e, None)
    BY <1>5, <2>1, EndOurs DEF Skip
  <2>2. CASE UNCHANGED got
    <3>1. UNCHANGED <<protocol, drawn, number, got>>
      BY <1>5, <2>2 DEF Skip, net, setting, probe
    <3>2. QED BY <3>1, SameOurs
  <2>3. QED BY <1>5, <2>1, <2>2 DEF Skip
<1>6. ASSUME NEW e \in Engine, Expire(e) \/ PollExpire(e) \/ Fail(e) PROVE AnswerIsOurs'
  BY <1>6, EndOurs DEF Expire, PollExpire, Fail
<1>7. ASSUME NEW e \in Engine, NEW chan \in Channels, Poll(e, chan)
      PROVE  AnswerIsOurs'
  <2>1. CASE /\ box[e][chan] # <<>>
             /\ Matches(e, Head(box[e][chan]))
             /\ End(e, Head(box[e][chan]))
    <3>1. Head(box[e][chan]) \in Sent
      BY <1>2, <2>1 DEF Matches
    <3>2. QED BY <1>7, <2>1, <3>1, EndOurs DEF Poll, Polling, Channels
  <2>2. CASE UNCHANGED got
    <3>1. UNCHANGED <<protocol, drawn, number, got>>
      BY <1>7, <2>2 DEF Poll, net, setting, probe
    <3>2. QED BY <3>1, SameOurs
  <2>3. QED BY <1>7, <2>1, <2>2 DEF Poll
<1>8. CASE Deliver \/ Interfere \/ Lose \/ Tick \/ UNCHANGED vars
  <2>1. UNCHANGED <<protocol, drawn, number, got>>
    BY <1>8 DEF Deliver, Interfere, Lose, Tick, vars, probe, net, setting
  <2>2. QED BY <2>1, SameOurs
<1>9. QED BY <1>3, <1>4, <1>5, <1>6, <1>7, <1>8 DEF Next, WaitStep

\* The answer a probe takes for its own is another engine's only if the two drew
\* the same identifier or source port, or trace the same target over UDP; over
\* ICMP and TCP it is an earlier probe's only when the sequence number has come
\* round since (parse_icmp_response, parse_icmp_for_udp, parse_tcp_response).
THEOREM AnswersAreOurs == Spec => []AnswerIsOurs
<1>1. Init => AnswerIsOurs
  BY DEF Init, AnswerIsOurs
<1>2. ProbeInv /\ AnswerIsOurs /\ [Next]_vars => AnswerIsOurs'
  BY StepOurs
<1>3. QED BY <1>1, <1>2, ProbeInvariant, PTL DEF Spec

-----------------------------------------------------------------------------
(* What is read, and when a probe is given up.                             *)

\* A receive is no older than its probe, whichever step is taken.
LEMMA StepWithin == ProbeInv /\ ReceivesWithin /\ [Next]_vars => ReceivesWithin'
<1> SUFFICES ASSUME ProbeInv, ReceivesWithin, [Next]_vars, NEW f \in Engine
             PROVE  /\ armed'[f] <= elapsed'[f]
                    /\ protocol' # "tcp" => box'[f]["tcp"] = <<>>
  BY DEF ReceivesWithin
<1>1. /\ armed[f] \in Nat /\ elapsed[f] \in Nat /\ armed[f] <= elapsed[f]
      /\ protocol # "tcp" => box[f]["tcp"] = <<>>
      /\ armed \in [Engine -> Nat] /\ elapsed \in [Engine -> Nat]
      /\ box \in [Engine -> [Channels -> Seq(Answer \cup {Noise})]]
      /\ "icmp" \in Channels /\ "tcp" \in Channels
  BY DEF ProbeInv, TypeOK, ReceivesWithin, Channels
<1>2. ASSUME NEW e \in Engine, NEW answer, End(e, answer)
      PROVE  armed'[f] <= elapsed'[f]
  BY <1>1, <1>2 DEF End
<1>3. ASSUME NEW e \in Engine, Send(e) PROVE armed'[f] <= elapsed'[f] /\ UNCHANGED <<box, protocol>>
  BY <1>1, <1>3 DEF Send, setting, clock
<1>4. ASSUME NEW e \in Engine, Accept(e) \/ Expire(e) \/ PollExpire(e) \/ Fail(e)
      PROVE  armed'[f] <= elapsed'[f] /\ UNCHANGED protocol
  BY <1>2, <1>4 DEF Accept, Expire, PollExpire, Fail, net, setting
<1>5. ASSUME NEW e \in Engine, Skip(e)
      PROVE  armed'[f] <= elapsed'[f] /\ UNCHANGED protocol
  <2>1. CASE End(e, None)
    BY <1>2, <1>5, <2>1 DEF Skip, net, setting
  <2>2. CASE armed' = [armed EXCEPT ![e] = 0] /\ UNCHANGED elapsed
    <3>1. armed'[f] = armed[f] \/ armed'[f] = 0
      BY <1>1, <2>2
    <3>2. QED BY <1>1, <1>5, <2>2, <3>1 DEF Skip, net, setting
  <2>3. QED BY <1>5, <2>1, <2>2 DEF Skip
<1>6. ASSUME NEW e \in Engine, NEW chan \in Channels, Poll(e, chan)
      PROVE  armed'[f] <= elapsed'[f] /\ UNCHANGED protocol /\ protocol = "tcp"
  BY <1>1, <1>2, <1>6 DEF Poll, Polling, net, setting, clock
<1>7. ASSUME NEW e \in Engine, Accept(e) \/ Skip(e), protocol # "tcp"
      PROVE  box'[f]["tcp"] = <<>>
  <2>1. box' = Behind(e, "icmp")
    BY <1>7 DEF Accept, Skip
  <2>2. box'[f]["tcp"] = box[f]["tcp"]
    BY <1>1, <2>1 DEF Behind
  <2>3. QED BY <1>1, <1>7, <2>2
<1>8. ASSUME NEW e \in Engine, Expire(e) \/ PollExpire(e) \/ Fail(e), protocol # "tcp"
      PROVE  box'[f]["tcp"] = <<>>
  BY <1>1, <1>8 DEF Expire, PollExpire, Fail, CloseSockets
<1>9. ASSUME NEW m, NEW isIpv6, Arrive(m, "icmp", isIpv6)
      PROVE  box'[f]["tcp"] = box[f]["tcp"]
  BY <1>1, <1>9 DEF Arrive
<1>10. CASE Deliver \/ Interfere \/ Lose
  <2>1. UNCHANGED <<protocol, elapsed, armed>>
    BY <1>10 DEF Deliver, Interfere, Lose, setting, clock
  <2>2. ASSUME protocol # "tcp" PROVE box'[f]["tcp"] = box[f]["tcp"]
    BY <1>9, <1>10, <2>2 DEF Deliver, Interfere, Lose, Channel
  <2>3. QED BY <1>1, <2>1, <2>2
<1>11. CASE Tick
  BY <1>1, <1>11 DEF Tick, setting
<1>12. CASE UNCHANGED vars
  BY <1>1, <1>12 DEF vars, net, setting, clock
<1>13. QED
  BY <1>1, <1>3, <1>4, <1>5, <1>6, <1>7, <1>8, <1>10, <1>11, <1>12 DEF Next, WaitStep

\* A queue without its oldest message is another queue.
LEMMA TailDiffers ==
  ASSUME NEW S, NEW q \in Seq(S), q # <<>>
  PROVE  Tail(q) # q
<1>1. Len(Tail(q)) = Len(q) - 1 /\ Len(q) \in Nat
  BY HeadTailProperties, LenProperties
<1>2. ASSUME Tail(q) = q PROVE FALSE
  <2>1. Len(q) = Len(q) - 1
    BY <1>1, <1>2, Zenon
  <2>2. QED BY <1>1, <2>1
<1>3. QED BY <1>2

\* A step that leaves the engine's buffers, or adds to them, and does not end
\* its probe, passes nothing over.
LEMMA OthersHeed ==
  ASSUME NEW f \in Engine, TypeOK, pc'[f] # "idle" \/ pc[f] = "idle",
         \A chan \in Channels :
           \/ box'[f][chan] = box[f][chan]
           \/ \E m \in Answer \cup {Noise} : box'[f][chan] = Append(box[f][chan], m)
  PROVE  Heeds(f)
<1>1. ASSUME NEW chan \in Channels PROVE ~Reads(f, chan)
  <2>1. box[f][chan] \in Seq(Answer \cup {Noise})
    BY DEF TypeOK
  <2>2. ASSUME box[f][chan] # <<>>
        PROVE  /\ Len(Tail(box[f][chan])) = Len(box[f][chan]) - 1
               /\ Len(box[f][chan]) \in Nat
    BY <2>1, <2>2, HeadTailProperties, LenProperties
  <2>3. ASSUME NEW m \in Answer \cup {Noise}
        PROVE  Len(Append(box[f][chan], m)) = Len(box[f][chan]) + 1
    BY <2>1, AppendProperties
  <2>4. \/ box'[f][chan] = box[f][chan]
        \/ \E m \in Answer \cup {Noise} : box'[f][chan] = Append(box[f][chan], m)
    OBVIOUS
  <2>5. ASSUME Reads(f, chan) PROVE FALSE
    <3>1. box[f][chan] # <<>> /\ box'[f][chan] = Tail(box[f][chan])
      BY <2>5 DEF Reads
    <3>2. Len(box'[f][chan]) = Len(box[f][chan]) - 1 /\ Len(box[f][chan]) \in Nat
      BY <2>2, <3>1
    <3>3. \/ Len(box'[f][chan]) = Len(box[f][chan])
          \/ Len(box'[f][chan]) = Len(box[f][chan]) + 1
      BY <2>3, <2>4
    <3>4. QED BY <3>2, <3>3
  <2>6. QED BY <2>5
<1>2. pc[f] # "idle" => ~Lost(f)'
  BY DEF Lost
<1>3. QED BY <1>1, <1>2 DEF Heeds

\* The step that ends a probe with an answer, or that reads what is none.
LEMMA OwnStepHeeds ==
  ASSUME ProbeInv, ReceivesWithin, NEW e \in Engine,
         \/ Accept(e) \/ Skip(e) \/ Expire(e) \/ PollExpire(e) \/ Fail(e)
         \/ \E chan \in Channels : Poll(e, chan)
  PROVE  Heeds(e)
<1>1. /\ pc \in [Engine -> {"idle", "icmp", "tcp", "sleep"}]
      /\ got \in [Engine -> Answer \cup {None}] /\ open \in [Engine -> BOOLEAN]
      /\ armed \in [Engine -> Nat] /\ elapsed \in [Engine -> Nat]
      /\ box \in [Engine -> [Channels -> Seq(Answer \cup {Noise})]]
      /\ Channels = {"icmp", "tcp"} /\ Timeout \in Nat
  BY ProbeAssumption DEF ProbeInv, TypeOK, Channels
<1>2. \A chan \in Channels : box[e][chan] # <<>> =>
        /\ Tail(box[e][chan]) # box[e][chan]
        /\ Head(box[e][chan]) \in Answer \cup {Noise}
  <2> SUFFICES ASSUME NEW chan \in Channels, box[e][chan] # <<>>
               PROVE  /\ Tail(box[e][chan]) # box[e][chan]
                      /\ Head(box[e][chan]) \in Answer \cup {Noise}
    OBVIOUS
  <2>1. box[e][chan] \in Seq(Answer \cup {Noise})
    BY <1>1
  <2>2. QED BY <2>1, TailDiffers, HeadTailProperties
<1>3. \A answer : End(e, answer) => pc'[e] = "idle" /\ got'[e] = answer
  BY <1>1 DEF End
<1>4. \A chan \in Channels : box' = Behind(e, chan) =>
        /\ box'[e][chan] = Tail(box[e][chan])
        /\ \A other \in Channels \ {chan} : box'[e][other] = box[e][other]
  BY <1>1 DEF Behind
<1>5. ASSUME NEW chan \in Channels, box[e][chan] # <<>>, Matches(e, Head(box[e][chan])),
             End(e, Head(box[e][chan])), box' = Behind(e, chan)
      PROVE  Heeds(e)
  <2>1. got'[e] = Head(box[e][chan]) /\ got'[e] \in Answer
    BY <1>2, <1>3, <1>5 DEF Matches
  <2>2. ~Lost(e)'
    BY <2>1, NoneAssumption DEF Lost
  <2>3. \A other \in Channels : Reads(e, other) => other = chan
    BY <1>2, <1>4, <1>5 DEF Reads
  <2>4. QED BY <2>1, <2>2, <2>3 DEF Heeds
<1>6. ASSUME UNCHANGED box, ~Lost(e)' \/ elapsed[e] >= Timeout,
             protocol = "tcp" \/ (box[e]["icmp"] = <<>> /\ box[e]["tcp"] = <<>>)
      PROVE  Heeds(e)
  <2>1. \A chan \in Channels : ~Reads(e, chan)
    BY <1>2, <1>6 DEF Reads
  <2>2. box[e]["icmp"] = <<>> /\ box[e]["tcp"] = <<>> => Unread(e) = {}
    <3> SUFFICES ASSUME box[e]["icmp"] = <<>>, box[e]["tcp"] = <<>> PROVE Unread(e) = {}
      OBVIOUS
    <3>1. \A chan \in Channels : DOMAIN box[e][chan] = {}
      BY <1>1
    <3>2. QED BY <3>1 DEF Unread
  <2>3. QED BY <1>6, <2>1, <2>2 DEF Heeds
<1>7. ASSUME NEW chan \in Channels, box[e][chan] # <<>>, ~Matches(e, Head(box[e][chan])),
             box' = Behind(e, chan), ~Lost(e)' \/ elapsed[e] >= Timeout
      PROVE  Heeds(e)
  <2>1. \A other \in Channels : Reads(e, other) => other = chan
    BY <1>2, <1>4, <1>7 DEF Reads
  <2>2. box'[e] # box[e]
    BY <1>2, <1>4, <1>7
  <2>3. Awaited(e, Head(box[e][chan])) => Misread(e, Head(box[e][chan]))
    BY <1>7 DEF Awaited, Matches
  <2>4. QED BY <1>7, <2>1, <2>2, <2>3 DEF Heeds
<1>8. CASE Accept(e)
  BY <1>1, <1>5, <1>8 DEF Accept
<1>9. CASE Skip(e)
  <2>1. ~Lost(e)' \/ elapsed[e] >= Timeout
    BY <1>1, <1>9 DEF Skip, Blocking, Lost
  <2>2. QED BY <1>1, <1>7, <1>9, <2>1 DEF Skip
<1>10. CASE Expire(e)
  <2>1. elapsed[e] >= Timeout
    BY <1>1, <1>10 DEF Expire, ReceivesWithin
  <2>2. box[e]["icmp"] = <<>> /\ box[e]["tcp"] = <<>>
    BY <1>10 DEF Expire, Blocking, ReceivesWithin
  <2>3. QED BY <1>6, <1>10, <2>1, <2>2 DEF Expire
<1>11. CASE PollExpire(e)
  BY <1>6, <1>11 DEF PollExpire, Polling
<1>12. CASE Fail(e)
  BY <1>1, <1>12 DEF Fail, CloseSockets, Heeds
<1>13. ASSUME NEW chan \in Channels, Poll(e, chan)
       PROVE  Heeds(e)
  <2>1. CASE /\ box[e][chan] # <<>>
             /\ Matches(e, Head(box[e][chan]))
             /\ End(e, Head(box[e][chan]))
             /\ box' = Behind(e, chan)
    BY <1>5, <2>1
  <2>2. CASE pc' = [pc EXCEPT ![e] = AfterPoll(chan)]
    <3>1. ~Lost(e)'
      BY <1>1, <2>2 DEF Lost, AfterPoll
    <3>2. CASE /\ box[e][chan] # <<>>
               /\ ~Matches(e, Head(box[e][chan]))
               /\ box' = Behind(e, chan)
      BY <1>7, <3>1, <3>2
    <3>3. CASE UNCHANGED box
      BY <1>6, <1>13, <3>1, <3>3 DEF Poll, Polling
    <3>4. QED BY <1>13, <2>1, <3>2, <3>3 DEF Poll
  <2>3. QED BY <1>13, <2>1, <2>2 DEF Poll
<1>14. QED BY <1>8, <1>9, <1>10, <1>11, <1>12, <1>13

\* A step of another engine, of the network or of the clock.
LEMMA OtherStepHeeds ==
  ASSUME ProbeInv, NEW f \in Engine,
         \/ \E e \in Engine : Send(e)
         \/ \E e \in Engine \ {f} : WaitStep(e) \/ Fail(e)
         \/ Deliver \/ Interfere \/ Lose \/ Tick \/ UNCHANGED vars
  PROVE  Heeds(f)
<1>1. /\ TypeOK /\ wire \subseteq Answer
      /\ pc \in [Engine -> {"idle", "icmp", "tcp", "sleep"}]
      /\ box \in [Engine -> [Channels -> Seq(Answer \cup {Noise})]]
  BY DEF ProbeInv, TypeOK
<1>2. ASSUME NEW e \in Engine, Send(e) PROVE Heeds(f)
  <2>1. box' = box /\ (pc'[f] # "idle" \/ pc[f] = "idle")
    BY <1>1, <1>2 DEF Send
  <2>2. QED BY <1>1, <2>1, OthersHeed
<1>3. ASSUME NEW e \in Engine \ {f}, WaitStep(e) \/ Fail(e) PROVE Heeds(f)
  <2>1. \A answer : End(e, answer) => pc'[f] = pc[f]
    BY <1>1 DEF End
  <2>2. \A chan \in Channels : Behind(e, chan)[f] = box[f]
    BY <1>1 DEF Behind
  <2>3. pc'[f] = pc[f] /\ box'[f] = box[f]
    <3>1. CASE Accept(e) \/ Skip(e) \/ Expire(e) \/ PollExpire(e)
      BY <1>1, <2>1, <2>2, <3>1 DEF Accept, Skip, Expire, PollExpire, Channels
    <3>2. CASE Fail(e)
      BY <1>1, <2>1, <3>2 DEF Fail, CloseSockets
    <3>3. ASSUME NEW chan \in Channels, Poll(e, chan) PROVE pc'[f] = pc[f] /\ box'[f] = box[f]
      BY <1>1, <2>1, <2>2, <3>3 DEF Poll
    <3>4. QED BY <1>3, <3>1, <3>2, <3>3 DEF WaitStep
  <2>4. QED BY <1>1, <2>3, OthersHeed
<1>4. ASSUME NEW m \in Answer \cup {Noise}, NEW chan, NEW isIpv6,
             Arrive(m, chan, isIpv6), pc' = pc
      PROVE  Heeds(f)
  <2>1. \A c \in Channels : box'[f][c] = box[f][c] \/ box'[f][c] = Append(box[f][c], m)
    BY <1>1, <1>4 DEF Arrive
  <2>2. QED BY <1>1, <1>4, <2>1, OthersHeed
<1>5. CASE Deliver \/ Interfere
  BY <1>1, <1>4, <1>5 DEF Deliver, Interfere
<1>6. CASE Lose \/ UNCHANGED vars
  <2>1. pc' = pc /\ box' = box
    BY <1>6 DEF Lose, vars
  <2>2. QED BY <1>1, <2>1, OthersHeed
<1>7. CASE Tick
  <2>1. box' = box /\ (pc'[f] # "idle" \/ pc[f] = "idle")
    BY <1>1, <1>7 DEF Tick
  <2>2. QED BY <1>1, <2>1, OthersHeed
<1>8. QED BY <1>2, <1>3, <1>5, <1>6, <1>7

\* Whatever is in front of it, an answer is taken when it is read, unless it is
\* misread for its source port, and a probe is not given up before its time or
\* with an answer that its receive should have returned (the receive loops of
\* send_probe, send_udp_probe, send_tcp_probe).
THEOREM AnswersAreHeeded == Spec => NoAnswerIgnored
<1>1. Init => ReceivesWithin
  <2> SUFFICES ASSUME Init, NEW e \in Engine
               PROVE  armed[e] <= elapsed[e] /\ box[e]["tcp"] = <<>>
    BY DEF ReceivesWithin
  <2>1. armed[e] = 0 /\ elapsed[e] = 0 /\ "tcp" \in Channels
    BY DEF Init, Channels
  <2>2. QED BY <2>1 DEF Init
<1>2. ProbeInv /\ ReceivesWithin /\ [Next]_vars
        => [\A e \in Engine : Heeds(e)]_vars
  <2> SUFFICES ASSUME ProbeInv, ReceivesWithin, [Next]_vars, NEW f \in Engine
               PROVE  Heeds(f)
    OBVIOUS
  <2>1. ASSUME NEW e \in Engine, WaitStep(e) \/ Fail(e) PROVE Heeds(f)
    <3>1. CASE e = f
      BY <2>1, <3>1, OwnStepHeeds DEF WaitStep
    <3>2. CASE e # f
      BY <2>1, <3>2, OtherStepHeeds
    <3>3. QED BY <3>1, <3>2
  <2>2. CASE \/ \E e \in Engine : Send(e)
             \/ Deliver \/ Interfere \/ Lose \/ Tick \/ UNCHANGED vars
    BY <2>2, OtherStepHeeds
  <2>3. QED BY <2>1, <2>2 DEF Next
<1>3. Spec => []ReceivesWithin
  BY <1>1, StepWithin, ProbeInvariant, PTL DEF Spec
<1>4. QED BY <1>2, <1>3, ProbeInvariant, PTL DEF Spec, NoAnswerIgnored

=============================================================================

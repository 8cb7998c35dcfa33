----------------------------- MODULE ProbeWait -----------------------------
(***************************************************************************)
(* What happens inside Probe::send for the probes that listen on raw       *)
(* sockets: send_probe (src/src/probe/icmp.rs), send_udp_probe (udp.rs)    *)
(* and send_tcp_probe (tcp.rs), several engines side by side.  A probe     *)
(* reuses the sockets its engine kept from the last one, so answers that   *)
(* came too late are still in their buffers; every raw socket gets a copy  *)
(* of every ICMP message of the host, so the answers to other engines and  *)
(* other programs are in there as well; and the network may lose, delay,   *)
(* reorder and repeat what it carries.                                     *)
(*                                                                         *)
(* Addresses and packets are left out: an answer is known by the probe it  *)
(* answers, and the fields the code compares are functions of that.        *)
(***************************************************************************)
EXTENDS Integers, Sequences

CONSTANTS
  Engine,      \* the engines, one per target
  Settings,    \* the command lines and the random draws considered
  Dest,        \* the address each engine traces
  PathLen,     \* the ttl at which a probe of each engine reaches the target
  Port,        \* Config::port of a TCP trace, the same for every engine
  MaxHops,     \* Config::max_hops
  SeqMod,      \* 2^16, the sequence numbers and the ports there are
  Timeout,     \* the timeout, in ticks of the clock
  BoxCap,      \* the messages a socket buffer holds
  Bandwidth,   \* the messages that reach the host within a tick
  None         \* no answer

\* maxNumber is a bound: the last probe each engine sends.
Setting == [protocol: {"icmp", "udp", "tcp"}, ipv6: SUBSET Engine,
            drawn: [Engine -> Nat], maxNumber: [Engine -> Nat]]

ASSUME SettingAssumption == Settings \subseteq Setting

ASSUME ProbeAssumption ==
  /\ PathLen \in [Engine -> Nat \ {0}]
  /\ Port \in Nat /\ Port < 65536
  /\ MaxHops \in 1..255
  /\ SeqMod \in Nat \ {0}
  /\ Timeout \in Nat \ {0}
  /\ BoxCap \in Nat
  /\ Bandwidth \in Nat

VARIABLES
  protocol,    \* Config::protocol
  ipv6,        \* the engines whose target has an IPv6 address
  drawn,       \* IcmpProbe::identifier or TcpProbe::port_base of each engine,
               \* which the code draws at random and so perhaps twice the same
  maxNumber,   \* the bound
  wire,        \* the answers on their way
  burst,       \* the messages that arrived since the last tick
  pc,          \* where the probe of each engine is
  number,      \* round * max_hops + ttl of its latest probe
  ttl,         \* and its ttl
  open,        \* whether the engine keeps sockets
  box,         \* what their buffers hold, oldest first
  elapsed,     \* ticks since the probe was sent
  armed,       \* ticks since the receive under way began
  got          \* the answer it took for its own

probe == <<number, ttl>>
clock == <<elapsed, armed>>
setting == <<protocol, ipv6, drawn, maxNumber>>
net == <<setting, wire, burst>>
vars == <<net, pc, probe, open, box, clock, got>>

-----------------------------------------------------------------------------
(* Answers.  A reply comes from the target: an echo reply, a port          *)
(* unreachable, a SYN-ACK or a RST.  Noise is any other message.           *)

Answer == [kind : {"reply", "exceeded"}, to : Engine, number : Nat]
Noise == [kind |-> "noise"]

ASSUME NoneAssumption == None \notin Answer

\* The kinds of socket; only replies to TCP probes are not ICMP messages.
Channels == {"icmp", "tcp"}
Channel(m) == IF protocol = "tcp" /\ m.kind = "reply" THEN "tcp" ELSE "icmp"

Seq16(k) == k % SeqMod

\* Mutant: the identifier of an ICMP answer is not compared.
IcmpKeySequenceOnly(e, k) == Seq16(k)

\* What a parser compares with the probe that is waiting: the identifier and
\* the sequence number; the destination the inner IP header names; the source
\* port, the other port being the same for all.
IcmpKey(e, k) == <<drawn[e], Seq16(k)>>
UdpKey(e) == Dest[e]
TcpKey(e, k) == (drawn[e] + Seq16(k)) % SeqMod

Key(e, k) ==
  CASE protocol = "icmp" -> IcmpKey(e, k)
    [] protocol = "udp"  -> UdpKey(e)
    [] protocol = "tcp"  -> TcpKey(e, k)

\* Over IPv6 the parser takes any message whose first byte is 3 for an ICMPv6
\* one.  A SYN-ACK or RST begins with the port it comes from: if that is one of
\* 768..1023, it is read as a time exceeded, which it is too short for.
Misread(e, m) ==
  /\ protocol = "tcp" /\ m.kind = "reply"
  /\ e \in ipv6
  /\ Port \div 256 = 3

\* Mutant: any message will do.
MatchesNoise(e, m) == m = Noise \/ Key(m.to, m.number) = Key(e, number[e])

Matches(e, m) ==
  /\ m # Noise
  /\ ~Misread(e, m)
  /\ Key(m.to, m.number) = Key(e, number[e])

-----------------------------------------------------------------------------
Init ==
  /\ \E s \in Settings : /\ protocol = s.protocol
                         /\ ipv6 = s.ipv6
                         /\ drawn = s.drawn
                         /\ maxNumber = s.maxNumber
  /\ wire = {}
  /\ burst = 0
  /\ pc = [e \in Engine |-> "idle"]
  /\ number = [e \in Engine |-> 0]
  /\ ttl = [e \in Engine |-> MaxHops]
  /\ open = [e \in Engine |-> FALSE]
  /\ box = [e \in Engine |-> [chan \in Channels |-> <<>>]]
  /\ elapsed = [e \in Engine |-> 0]
  /\ armed = [e \in Engine |-> 0]
  /\ got = [e \in Engine |-> None]

\* The probe ends, and its clock with it.
End(e, answer) ==
  /\ pc' = [pc EXCEPT ![e] = "idle"]
  /\ got' = [got EXCEPT ![e] = answer]
  /\ elapsed' = [elapsed EXCEPT ![e] = 0]
  /\ armed' = [armed EXCEPT ![e] = 0]

\* probe_round: the next ttl, or the first one of the next round once the
\* target has answered or max_hops is reached.
RoundOver(e) == ttl[e] = MaxHops \/ (got[e] # None /\ got[e].kind = "reply")
NextTtl(e) == IF RoundOver(e) THEN 1 ELSE ttl[e] + 1
NextNumber(e) ==
  IF RoundOver(e) THEN number[e] - ttl[e] + MaxHops + 1 ELSE number[e] + 1

\* What a router or the target answers.
AnswerTo(e, k, t) ==
  [kind |-> IF t < PathLen[e] THEN "exceeded" ELSE "reply", to |-> e, number |-> k]

\* The sockets of the last probe are taken, or new ones are opened.
TakeSockets(e) == open' = [open EXCEPT ![e] = TRUE]

\* They are closed instead of put back, and what they held is gone.
CloseSockets(e) ==
  /\ open' = [open EXCEPT ![e] = FALSE]
  /\ box' = [box EXCEPT ![e] = [chan \in Channels |-> <<>>]]

\* Take the sockets, send the probe and start to wait.
Send(e) ==
  /\ pc[e] = "idle"
  /\ NextNumber(e) <= maxNumber[e]
  /\ number' = [number EXCEPT ![e] = NextNumber(e)]
  /\ ttl' = [ttl EXCEPT ![e] = NextTtl(e)]
  /\ \/ wire' = wire
     \/ wire' = wire \cup {AnswerTo(e, NextNumber(e), NextTtl(e))}
  /\ TakeSockets(e)
  /\ pc' = [pc EXCEPT ![e] = "icmp"]
  /\ got' = [got EXCEPT ![e] = None]
  /\ UNCHANGED <<setting, burst, box, clock>>

\* A socket cannot be opened, set up, written or read, or the blocking task
\* panics.
Fail(e) ==
  /\ pc[e] # "idle"
  /\ End(e, None)
  /\ CloseSockets(e)
  /\ UNCHANGED <<net, probe>>

Behind(e, chan) == [box EXCEPT ![e][chan] = Tail(@)]

-----------------------------------------------------------------------------
(* The receive loop of send_probe and send_udp_probe.                      *)

Blocking(e) == pc[e] = "icmp" /\ protocol # "tcp"

\* The oldest message is an answer to this probe.
Accept(e) ==
  /\ Blocking(e)
  /\ box[e]["icmp"] # <<>>
  /\ Matches(e, Head(box[e]["icmp"]))
  /\ End(e, Head(box[e]["icmp"]))
  /\ box' = Behind(e, "icmp")
  /\ UNCHANGED <<net, probe, open>>

\* Mutant: the loop never looks at the clock.
SkipForever(e) ==
  /\ Blocking(e)
  /\ box[e]["icmp"] # <<>>
  /\ ~Matches(e, Head(box[e]["icmp"]))
  /\ box' = Behind(e, "icmp")
  /\ armed' = [armed EXCEPT ![e] = 0]
  /\ UNCHANGED <<pc, got, net, probe, open, elapsed>>

\* Mutant: a message that is none of ours ends the wait.
SkipGivesUp(e) ==
  /\ Blocking(e)
  /\ box[e]["icmp"] # <<>>
  /\ ~Matches(e, Head(box[e]["icmp"]))
  /\ box' = Behind(e, "icmp")
  /\ End(e, None)
  /\ UNCHANGED <<net, probe, open>>

\* It is not: give up if the time is over, or else receive again, with the
\* whole timeout before it.
Skip(e) ==
  /\ Blocking(e)
  /\ box[e]["icmp"] # <<>>
  /\ ~Matches(e, Head(box[e]["icmp"]))
  /\ box' = Behind(e, "icmp")
  /\ \/ /\ elapsed[e] >= Timeout
        /\ End(e, None)
     \/ /\ elapsed[e] < Timeout
        /\ armed' = [armed EXCEPT ![e] = 0]
        /\ UNCHANGED <<pc, got, elapsed>>
  /\ UNCHANGED <<net, probe, open>>

\* Mutant: the sockets have no receive timeout.
ExpireNever(e) ==
  /\ Blocking(e)
  /\ armed[e] > Timeout
  /\ End(e, None)
  /\ UNCHANGED <<net, probe, open, box>>

\* The receive times out.
Expire(e) ==
  /\ Blocking(e)
  /\ box[e]["icmp"] = <<>>
  /\ armed[e] = Timeout
  /\ End(e, None)
  /\ UNCHANGED <<net, probe, open, box>>

-----------------------------------------------------------------------------
(* The polling loop of send_tcp_probe: one message of either socket per    *)
(* turn, and a millisecond's sleep, here a tick.                           *)

Polling(e, chan) == pc[e] = chan /\ protocol = "tcp"

\* The head of the loop.
PollExpire(e) ==
  /\ Polling(e, "icmp")
  /\ elapsed[e] >= Timeout
  /\ End(e, None)
  /\ UNCHANGED <<net, probe, open, box>>

AfterPoll(chan) == IF chan = "icmp" THEN "tcp" ELSE "sleep"

Poll(e, chan) ==
  /\ Polling(e, chan)
  /\ chan = "icmp" => elapsed[e] < Timeout
  /\ \/ /\ box[e][chan] # <<>>
        /\ Matches(e, Head(box[e][chan]))
        /\ End(e, Head(box[e][chan]))
        /\ box' = Behind(e, chan)
     \/ /\ box[e][chan] # <<>>
        /\ ~Matches(e, Head(box[e][chan]))
        /\ pc' = [pc EXCEPT ![e] = AfterPoll(chan)]
        /\ box' = Behind(e, chan)
        /\ UNCHANGED <<clock, got>>
     \/ /\ box[e][chan] = <<>>
        /\ pc' = [pc EXCEPT ![e] = AfterPoll(chan)]
        /\ UNCHANGED <<box, clock, got>>
  /\ UNCHANGED <<net, probe, open>>

-----------------------------------------------------------------------------
(* The network and the kernel.                                             *)

\* Every open socket of the channel and the family with room in its buffer
\* gets a copy.
Arrive(m, chan, isIpv6) ==
  /\ burst < Bandwidth
  /\ burst' = burst + 1
  /\ box' = [e \in Engine |->
               IF open[e] /\ (e \in ipv6 <=> isIpv6) /\ Len(box[e][chan]) < BoxCap
               THEN [box[e] EXCEPT ![chan] = Append(@, m)]
               ELSE box[e]]

\* An answer arrives, perhaps to arrive once more.
Deliver ==
  /\ \E m \in wire : /\ Arrive(m, Channel(m), m.to \in ipv6)
                     /\ wire' \in {wire, wire \ {m}}
  /\ UNCHANGED <<setting, pc, probe, open, clock, got>>

\* Another program's ICMP message arrives, or its TCP segment.
Interfere ==
  /\ \E isIpv6 \in BOOLEAN : \/ Arrive(Noise, "icmp", isIpv6)
                             \/ protocol = "tcp" /\ Arrive(Noise, "tcp", isIpv6)
  /\ UNCHANGED <<setting, wire, pc, probe, open, clock, got>>

\* An answer is lost.
Lose ==
  /\ \E m \in wire : wire' = wire \ {m}
  /\ UNCHANGED <<setting, burst, pc, probe, open, box, clock, got>>

\* A probe that has something to do does it before the clock goes on.
Waiting(e) ==
  \/ Blocking(e) /\ box[e]["icmp"] = <<>> /\ armed[e] < Timeout
  \/ Polling(e, "sleep")

Tick ==
  /\ \A e \in Engine : pc[e] = "idle" \/ Waiting(e)
  /\ burst' = 0
  /\ elapsed' = [e \in Engine |-> IF Waiting(e) THEN elapsed[e] + 1 ELSE elapsed[e]]
  /\ armed' = [e \in Engine |-> IF Waiting(e) THEN armed[e] + 1 ELSE armed[e]]
  /\ pc' = [e \in Engine |-> IF Waiting(e) THEN "icmp" ELSE pc[e]]
  /\ UNCHANGED <<setting, wire, probe, open, box, got>>

WaitStep(e) ==
  \/ Accept(e) \/ Skip(e) \/ Expire(e) \/ PollExpire(e)
  \/ \E chan \in Channels : Poll(e, chan)

Next ==
  \/ \E e \in Engine : Send(e) \/ WaitStep(e) \/ Fail(e)
  \/ Deliver \/ Interfere \/ Lose \/ Tick

Spec == Init /\ [][Next]_vars

\* The blocking tasks run and the clock with them; nothing is asked of the
\* network, which may send as much as it can carry for ever.
FairSpec ==
  /\ Spec
  /\ WF_vars(Tick)
  /\ \A e \in Engine : WF_vars(WaitStep(e))

-----------------------------------------------------------------------------
(* Properties.                                                             *)

TypeOK ==
  /\ [protocol |-> protocol, ipv6 |-> ipv6, drawn |-> drawn,
      maxNumber |-> maxNumber] \in Settings
  /\ wire \subseteq Answer
  /\ burst \in 0..Bandwidth
  /\ pc \in [Engine -> {"idle", "icmp", "tcp", "sleep"}]
  /\ number \in [Engine -> Nat]
  /\ ttl \in [Engine -> 1..MaxHops]
  /\ open \in [Engine -> BOOLEAN]
  /\ box \in [Engine -> [Channels -> Seq(Answer \cup {Noise})]]
  /\ elapsed \in [Engine -> Nat]
  /\ armed \in [Engine -> Nat]
  /\ got \in [Engine -> Answer \cup {None}]

\* The source ports of the probes an engine has sent.
PortsUsed(e) == {TcpKey(e, k) : k \in 1..number[e]}

\* What is to tell the answers to two engines apart does: the identifiers drawn
\* are different; the ports used from the bases drawn are; over UDP, the
\* targets are.
Apart(e, f) ==
  CASE protocol = "icmp" -> drawn[e] # drawn[f]
    [] protocol = "udp"  -> Dest[e] # Dest[f]
    [] protocol = "tcp"  -> PortsUsed(e) \cap PortsUsed(f) = {}

\* An answer a probe takes for its own is its own, whatever was late, repeated
\* or meant for others: another engine's only if chance or, over UDP, a common
\* target gave the two engines what should tell them apart; an earlier probe's
\* only over UDP, or when the sequence number has come round since
\* (parse_icmp_response, parse_icmp_for_udp, parse_tcp_response).
AnswerIsOurs ==
  \A e \in Engine : got[e] # None =>
    /\ got[e].to # e => ~Apart(e, got[e].to)
    /\ got[e].to = e /\ protocol # "udp" =>
         got[e].number = number[e] \/ number[e] - got[e].number >= SeqMod

\* The answer a probe takes for its own is its own, but for the wrapping of the
\* number ("u16 wrapping is intentional: ICMP identifier disambiguates, TCP/UDP
\* use random port bases", src/src/trace/mod.rs:97).
PortsDisambiguate ==
  \A e \in Engine : got[e] # None =>
    /\ got[e].to = e
    /\ got[e].number = number[e] \/ number[e] - got[e].number >= SeqMod

\* A blocking wait lasts less than twice the timeout, because the last receive
\* begins before the time is over; a polling one stops on time.
WaitBounded ==
  \A e \in Engine :
    elapsed[e] <= (IF protocol = "tcp" THEN Timeout ELSE 2 * Timeout - 1)

\* The answers to probes that have been sent: nobody answers one that has not,
\* and nobody waits for it.
Sent == {m \in Answer : m.number \in 1..number[m.to]}
AnswersSent ==
  /\ \A e \in Engine : pc[e] # "idle" => number[e] > 0
  /\ wire \subseteq Sent
  /\ box \in [Engine -> [Channels -> Seq(Sent \cup {Noise})]]

\* Where the clock of a probe may stand at each point of its loop.
ClocksAgree ==
  \A e \in Engine :
    /\ protocol = "tcp" =>
         elapsed[e] <= Timeout - (IF pc[e] \in {"tcp", "sleep"} THEN 1 ELSE 0)
    /\ protocol # "tcp" => /\ pc[e] \in {"idle", "icmp"}
                           /\ armed[e] <= Timeout
                           /\ elapsed[e] - armed[e] < Timeout

\* A receive is no older than its probe, and without TCP nobody listens on the
\* other socket.
ReceivesWithin ==
  \A e \in Engine : /\ armed[e] <= elapsed[e]
                    /\ protocol # "tcp" => box[e]["tcp"] = <<>>

\* The inductive invariant of the loops: nothing in the buffers is newer than
\* the latest probe, so that what a probe takes for its own is its own or very
\* old; and the last receive began in time, so that the wait is bounded.
ProbeInv == TypeOK /\ AnswersSent /\ ClocksAgree

Unread(e) ==
  UNION {{box[e][chan][i] : i \in DOMAIN box[e][chan]} : chan \in Channels}

\* A probe that ended without an answer and without an error.
Lost(e) == pc[e] = "idle" /\ got[e] = None /\ open[e]

\* The oldest message of a buffer is read.
Reads(e, chan) ==
  box[e][chan] # <<>> /\ box'[e][chan] = Tail(box[e][chan])

\* The answer to the probe that waits, whatever the parser makes of it.
Awaited(e, m) == m # Noise /\ m.to = e /\ m.number = number[e]

\* A step passes no answer of engine e over.
Heeds(e) ==
  pc[e] # "idle" /\ open'[e] =>
    /\ \A chan \in Channels :
         LET m == Head(box[e][chan])
         IN  Reads(e, chan) /\ Awaited(e, m) => got'[e] = m \/ Misread(e, m)
    /\ Lost(e)' => elapsed[e] >= Timeout
    /\ Lost(e)' /\ protocol # "tcp" /\ box'[e] = box[e]
         => \A m \in Unread(e) : ~Awaited(e, m)

\* No answer is passed over but the one that is misread: the answer to the
\* probe is taken when it is read, no probe is given up before its time, and
\* when a receive times out there is no answer in the buffers that it should
\* have returned.  What is still behind other messages when the time is over is
\* given up by design.
NoAnswerIgnored == [][\A e \in Engine : Heeds(e)]_vars

\* Every probe comes to an end, however many messages of others keep coming.
ProbeEnds == \A e \in Engine : pc[e] # "idle" ~> pc[e] = "idle"

=============================================================================

----------------------------- MODULE TraceState -----------------------------
(***************************************************************************)
(* The data one traced target keeps (src/src/trace/state.rs): what a probe *)
(* may return, the per-hop record and its statistics, and the operations   *)
(* that every task sharing the record uses.  An address and a round-trip   *)
(* time are opaque: the code only compares them.  The running mean and the *)
(* deviation are left out here, and so is loss_pct, which record_probe     *)
(* recomputes from lost and sent on every call.                            *)
(***************************************************************************)
EXTENDS Integers, Sequences

CONSTANTS
  Addr,        \* the addresses that may answer a probe, the target's included
  Target,      \* the address being traced
  RTT,         \* the round-trip times a probe may measure
  MaxHops,     \* Config::max_hops, a u8
  MaxSamples,  \* DEFAULT_MAX_SAMPLES: the samples kept per hop
  None         \* Rust's None

ASSUME StateAssumption ==
  /\ Target \in Addr
  /\ RTT \subseteq Nat
  /\ MaxHops \in 0..255
  /\ MaxSamples \in Nat
  /\ None \notin Addr \cup Nat

-----------------------------------------------------------------------------
(* Probe results.  Every probe type builds one of three shapes: an answer  *)
(* with its time and sender, a timeout, or an error, which has neither.    *)

ProbeResult == [rtt: RTT \cup {None}, addr: Addr \cup {None}, error: BOOLEAN]

Outcome ==
  {p \in ProbeResult : /\ p.rtt = None <=> p.addr = None
                       /\ p.error => p.rtt = None}

-----------------------------------------------------------------------------
(* Statistics of one hop.                                                  *)

OptRTT == RTT \cup {None}

HopStats ==
  [sent: Nat, received: Nat, lost: Nat, errors: Nat,
   last_rtt: OptRTT, min_rtt: OptRTT, max_rtt: OptRTT]

NewStats ==
  [sent |-> 0, received |-> 0, lost |-> 0, errors |-> 0,
   last_rtt |-> None, min_rtt |-> None, max_rtt |-> None]

Lower(old, r) == IF old = None \/ r < old THEN r ELSE old
Higher(old, r) == IF old = None \/ r > old THEN r ELSE old

Received(p) == IF p.rtt # None THEN 1 ELSE 0
Errors(p) == IF p.error THEN 1 ELSE 0

\* Mutant: a timeout enters the record as a time of zero.
RecordProbeZeroTime(s, p) ==
  [sent |-> s.sent + 1,
   received |-> s.received + Received(p),
   lost |-> s.lost + 1 - Received(p),
   errors |-> s.errors + Errors(p),
   last_rtt |-> IF p.rtt = None THEN 0 ELSE p.rtt,
   min_rtt |-> IF p.rtt = None THEN s.min_rtt ELSE Lower(s.min_rtt, p.rtt),
   max_rtt |-> IF p.rtt = None THEN s.max_rtt ELSE Higher(s.max_rtt, p.rtt)]

\* Mutant: an error is not also counted as a loss.
RecordProbeErrorNotLost(s, p) ==
  [sent |-> s.sent + 1,
   received |-> s.received + Received(p),
   lost |-> s.lost + 1 - Received(p) - Errors(p),
   errors |-> s.errors + Errors(p),
   last_rtt |-> p.rtt,
   min_rtt |-> IF p.rtt = None THEN s.min_rtt ELSE Lower(s.min_rtt, p.rtt),
   max_rtt |-> IF p.rtt = None THEN s.max_rtt ELSE Higher(s.max_rtt, p.rtt)]

RecordProbe(s, p) ==
  [sent |-> s.sent + 1,
   received |-> s.received + Received(p),
   lost |-> s.lost + 1 - Received(p),
   errors |-> s.errors + Errors(p),
   last_rtt |-> p.rtt,
   min_rtt |-> IF p.rtt = None THEN s.min_rtt ELSE Lower(s.min_rtt, p.rtt),
   max_rtt |-> IF p.rtt = None THEN s.max_rtt ELSE Higher(s.max_rtt, p.rtt)]

-----------------------------------------------------------------------------
(* One hop.  A hostname is identified with the address whose reverse       *)
(* lookup returned it, so a hop shows a wrong name when the two differ.    *)

HopState ==
  [ttl: Nat, addr: Addr \cup {None}, hostname: Addr \cup {None},
   samples: Seq(ProbeResult), stats: HopStats]

NewHop(t) ==
  [ttl |-> t, addr |-> None, hostname |-> None, samples |-> <<>>,
   stats |-> NewStats]

\* The sample ring: push_back, then pop_front down to MaxSamples.
PushSample(samples, p) ==
  LET all == Append(samples, p)
  IN  IF Len(all) > MaxSamples
      THEN SubSeq(all, Len(all) - MaxSamples + 1, Len(all))
      ELSE all

\* An answer from another router renames the hop and drops the old name.
AddrChanges(h, p) == p.addr # None /\ h.addr # p.addr

AddProbe(h, p) ==
  [h EXCEPT !.addr = IF AddrChanges(h, p) THEN p.addr ELSE @,
            !.hostname = IF AddrChanges(h, p) THEN None ELSE @,
            !.stats = RecordProbe(@, p),
            !.samples = PushSample(@, p)]

ResetHop(h) == [h EXCEPT !.stats = NewStats, !.samples = <<>>]

-----------------------------------------------------------------------------
(* The hop table.                                                          *)

\* Mutant: only the first hop of the table is reset.
ResetFirstHop(hops) == [i \in DOMAIN hops |-> IF i = 1 THEN ResetHop(hops[i]) ELSE hops[i]]

ResetHops(hops) == [i \in DOMAIN hops |-> ResetHop(hops[i])]

\* ensure_hop grows the table one hop at a time up to ttl.
EnsureHop(hops, ttl) ==
  [i \in 1..(IF Len(hops) < ttl THEN ttl ELSE Len(hops)) |->
     IF i <= Len(hops) THEN hops[i] ELSE NewHop(i)]

\* Mutant: the round's last result is filed one hop too far.
RecordRoundShifted(hops, results) ==
  LET grown == EnsureHop(hops, Len(results) + 1)
  IN  [i \in DOMAIN grown |->
         IF i \in 2..(Len(results) + 1) THEN AddProbe(grown[i], results[i - 1])
                                        ELSE grown[i]]

\* The write section of probe_round: result i of the round is that of ttl i.
RecordRound(hops, results) ==
  LET grown == EnsureHop(hops, Len(results))
  IN  [i \in DOMAIN grown |->
         IF i <= Len(results) THEN AddProbe(grown[i], results[i]) ELSE grown[i]]

=============================================================================

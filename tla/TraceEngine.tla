---------------------------- MODULE TraceEngine ----------------------------
(***************************************************************************)
(* The task that probes one target (TraceEngine::run and probe_round in    *)
(* src/src/trace/mod.rs) together with the parties that touch what it      *)
(* shares: the user toggles the pause flag, the event loop resets the      *)
(* record, and a cancellation token may fire at any moment.                *)
(*                                                                         *)
(* A round is not atomic.  Its probes are awaited one by one; the results  *)
(* enter the record in one write section, the round number in another, and *)
(* a reset may fall anywhere in between.                                   *)
(***************************************************************************)
EXTENDS TraceState

CONSTANTS
  Count        \* Config::count: the rounds to run, or None for no limit

ASSUME EngineAssumption == Count \in Nat \cup {None}

VARIABLES
  hops,        \* TraceState::hops, behind the RwLock
  round,       \* TraceState::round, behind the same lock
  paused,      \* the AtomicBool every engine shares with the user interface
  cancelled,   \* the target's CancellationToken
  pc,          \* where the task is
  localRound,  \* the task's own `round`
  results      \* the results of the current round, in ttl order

shared == <<hops, round>>
local == <<pc, localRound, results>>
engineVars == <<hops, round, paused, cancelled, pc, localRound, results>>

-----------------------------------------------------------------------------
Init ==
  /\ hops = <<>>
  /\ round = 0
  /\ paused = FALSE
  /\ cancelled = FALSE
  /\ pc = "top"
  /\ localRound = 0
  /\ results = <<>>

LimitReached == Count # None /\ localRound >= Count

\* A probe of the round came back from the target: no higher ttl is tried.
TargetReached == results # <<>> /\ results[Len(results)].addr = Target

\* Mutant: the answer of the target does not end the round.
RoundCompleteAtMax == Len(results) = MaxHops

RoundComplete == TargetReached \/ Len(results) = MaxHops

-----------------------------------------------------------------------------
(* The engine task.                                                        *)

\* Mutant: the token is not looked at between two rounds.
LoopTopIgnoresToken ==
  /\ pc = "top"
  /\ pc' = IF LimitReached THEN "done" ELSE "pausecheck"
  /\ UNCHANGED <<shared, paused, cancelled, localRound, results>>

\* Mutant: the round limit is tested one round too early.
LoopTopEarly ==
  /\ pc = "top"
  /\ pc' = IF cancelled \/ (Count # None /\ localRound + 1 >= Count)
           THEN "done" ELSE "pausecheck"
  /\ UNCHANGED <<shared, paused, cancelled, localRound, results>>

\* Mutant: the round limit is tested one round too late.
LoopTopLate ==
  /\ pc = "top"
  /\ pc' = IF cancelled \/ (Count # None /\ localRound > Count)
           THEN "done" ELSE "pausecheck"
  /\ UNCHANGED <<shared, paused, cancelled, localRound, results>>

\* Head of the loop: is_cancelled, then the round limit.
LoopTop ==
  /\ pc = "top"
  /\ pc' = IF cancelled \/ LimitReached THEN "done" ELSE "pausecheck"
  /\ UNCHANGED <<shared, paused, cancelled, localRound, results>>

\* The flag is read once per turn of the pause loop.  The select that follows
\* polls a fresh 100 ms sleep, so a token that has already fired wins there.
CheckPause ==
  /\ pc = "pausecheck"
  /\ \/ ~paused /\ pc' = "probing"
     \/ paused /\ cancelled /\ pc' = "done"
     \/ paused /\ ~cancelled /\ pc' = "pausewait"
  /\ UNCHANGED <<shared, paused, cancelled, localRound, results>>

\* Mutant: waking up from the pause starts a round whatever the flag says.
PauseTickProbes ==
  /\ pc = "pausewait"
  /\ pc' = "probing"
  /\ UNCHANGED <<shared, paused, cancelled, localRound, results>>

\* 100 ms later: read the flag again.
PauseTick ==
  /\ pc = "pausewait"
  /\ pc' = "pausecheck"
  /\ UNCHANGED <<shared, paused, cancelled, localRound, results>>

\* The token fires while the task waits in the pause loop.
CancelInPause ==
  /\ pc = "pausewait"
  /\ cancelled
  /\ pc' = "done"
  /\ UNCHANGED <<shared, paused, cancelled, localRound, results>>

\* Send the probe of the next ttl and await whatever it yields.
SendProbe ==
  /\ pc = "probing"
  /\ ~RoundComplete
  /\ \E p \in Outcome : results' = Append(results, p)
  /\ UNCHANGED <<shared, paused, cancelled, pc, localRound>>

\* The write section at the end of probe_round.
CommitRound ==
  /\ pc = "probing"
  /\ RoundComplete
  /\ hops' = RecordRound(hops, results)
  /\ results' = <<>>
  /\ pc' = "bump"
  /\ UNCHANGED <<round, paused, cancelled, localRound>>

\* Mutant: the number is published before it is increased.
BumpRoundStale ==
  /\ pc = "bump"
  /\ round' = localRound
  /\ localRound' = localRound + 1
  /\ pc' = "sleep"
  /\ UNCHANGED <<hops, paused, cancelled, results>>

\* The second write section publishes the number of the round.
BumpRound ==
  /\ pc = "bump"
  /\ round' = localRound + 1
  /\ localRound' = localRound + 1
  /\ pc' = "sleep"
  /\ UNCHANGED <<hops, paused, cancelled, results>>

\* The interval elapses.
IntervalElapsed ==
  /\ pc = "sleep"
  /\ pc' = "top"
  /\ UNCHANGED <<shared, paused, cancelled, localRound, results>>

\* The token fires during the interval; select picks at random when the timer
\* is due as well.
CancelInSleep ==
  /\ pc = "sleep"
  /\ cancelled
  /\ pc' = "done"
  /\ UNCHANGED <<shared, paused, cancelled, localRound, results>>

EngineStep ==
  \/ LoopTop \/ CheckPause \/ PauseTick \/ CancelInPause
  \/ SendProbe \/ CommitRound \/ BumpRound
  \/ IntervalElapsed \/ CancelInSleep

-----------------------------------------------------------------------------
(* The other parties.                                                      *)

TogglePause ==
  /\ paused' = ~paused
  /\ UNCHANGED <<shared, cancelled, local>>

\* Ctrl+C, the end of the program, or the removal of the target.
Cancel ==
  /\ ~cancelled
  /\ cancelled' = TRUE
  /\ UNCHANGED <<shared, paused, local>>

\* reset_all, called by the event loop under the write lock.
Reset ==
  /\ hops' = ResetHops(hops)
  /\ round' = 0
  /\ UNCHANGED <<paused, cancelled, local>>

UserStep == TogglePause \/ Cancel \/ Reset

EngineNext == EngineStep \/ UserStep

Spec == Init /\ [][EngineNext]_engineVars

\* tokio keeps polling a spawned task, every timer expires, and every probe
\* answers: the blocking receive has a timeout.  Nobody has to press a key.
FairSpec == Spec /\ WF_engineVars(EngineStep)

-----------------------------------------------------------------------------
(* Properties.                                                             *)

EnginePc ==
  {"top", "pausecheck", "pausewait", "probing", "bump", "sleep", "done"}

TypeOK ==
  /\ hops \in Seq(HopState)
  /\ round \in Nat
  /\ paused \in BOOLEAN
  /\ cancelled \in BOOLEAN
  /\ pc \in EnginePc
  /\ localRound \in Nat
  /\ results \in Seq(ProbeResult)

\* A probe is either received or lost, an error is a loss, the extremes exist
\* once something was received, and the ring holds the newest probes of the
\* current statistics.
HopBalanced(h) ==
  LET s == h.stats
  IN  /\ s.sent = s.received + s.lost
      /\ s.errors <= s.lost
      /\ s.received = 0 <=> s.min_rtt = None
      /\ s.min_rtt = None <=> s.max_rtt = None
      /\ s.min_rtt # None => s.min_rtt <= s.max_rtt
      /\ s.last_rtt # None => /\ s.min_rtt # None
                              /\ s.min_rtt <= s.last_rtt
                              /\ s.last_rtt <= s.max_rtt
      /\ Len(h.samples) = IF s.sent < MaxSamples THEN s.sent ELSE MaxSamples

\* Every hop's counters agree with each other and with its sample ring, in
\* whatever order rounds, resets and losses come (record_probe, add_probe and
\* reset).
StatsBalance == \A i \in DOMAIN hops : HopBalanced(hops[i])

\* A farther hop was never probed more often than a nearer one, and no hop
\* more often than the rounds shown to the user, plus the one whose results
\* are in but whose number is not yet published (probe_round stops at the
\* target; run publishes the round in a second write section; a reset may
\* fall between the two).
SentMonotone ==
  \A i \in DOMAIN hops :
    /\ i > 1 => hops[i].stats.sent <= hops[i - 1].stats.sent
    /\ hops[i].stats.sent <= round + (IF pc = "bump" THEN 1 ELSE 0)

\* The published number is the engine's own or the zero of a reset, and the
\* engine never runs more rounds than it was asked for.
RoundHonest ==
  /\ round \in {0, localRound}
  /\ Count # None => localRound + (IF pc = "bump" THEN 1 ELSE 0) <= Count

\* Between two sections that touch the record, the results in hand are a path
\* that may still be extended or is about to be recorded, and the round under
\* way is one the limit allows.
RoundUnderWay ==
  /\ results \in Seq(Outcome)
  /\ Len(results) <= MaxHops
  /\ \A i \in 1..(Len(results) - 1) : results[i].addr # Target
  /\ pc # "probing" => results = <<>>
  /\ pc \in {"pausecheck", "pausewait", "probing", "bump"} /\ Count # None
       => localRound < Count

\* The inductive invariant: SentMonotone survives the publication of a round
\* only because the published number is never ahead of the engine's own, and
\* the limit is respected only because it was tested before the round began.
EngineInv ==
  /\ TypeOK
  /\ StatsBalance
  /\ RoundUnderWay
  /\ RoundHonest
  /\ SentMonotone

\* A cancelled engine stops, whatever the pause flag does meanwhile.
CancelStops == cancelled ~> (pc = "done")

\* An engine that is not left paused for ever runs its rounds to the limit,
\* unless it is cancelled.
CountReached ==
  (Count # None /\ <>[]~paused)
    => <>(pc = "done" /\ (cancelled \/ localRound = Count))

=============================================================================

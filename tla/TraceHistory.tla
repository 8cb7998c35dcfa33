---------------------------- MODULE TraceHistory ----------------------------
(***************************************************************************)
(* TraceEngine with auxiliary variables that remember what was recorded    *)
(* and when the user intervened.  They restrict nothing: every step of     *)
(* TraceEngine is a step here.                                             *)
(***************************************************************************)
EXTENDS TraceEngine, HopView, FiniteSets

VARIABLES
  archive,     \* every round that entered the record, oldest first
  resetMark,   \* how many of them the last reset wiped out
  pauseMark,   \* while paused, how many there were when the flag was set
  cancelMark   \* how many there were when the token fired

marks == <<resetMark, pauseMark, cancelMark>>
historyVars == <<engineVars, archive, marks>>

HistoryInit ==
  /\ Init
  /\ archive = <<>>
  /\ resetMark = 0
  /\ pauseMark = 0
  /\ cancelMark = 0

HistoryNext ==
  \/ /\ CommitRound
     /\ archive' = Append(archive, results)
     /\ UNCHANGED marks
  \/ /\ EngineStep
     /\ ~CommitRound
     /\ UNCHANGED <<archive, marks>>
  \/ /\ TogglePause
     /\ pauseMark' = IF paused THEN 0 ELSE Len(archive)
     /\ UNCHANGED <<archive, resetMark, cancelMark>>
  \/ /\ Cancel
     /\ cancelMark' = Len(archive)
     /\ UNCHANGED <<archive, resetMark, pauseMark>>
  \/ /\ Reset
     /\ resetMark' = Len(archive)
     /\ UNCHANGED <<archive, pauseMark, cancelMark>>

HistorySpec == HistoryInit /\ [][HistoryNext]_historyVars

-----------------------------------------------------------------------------
\* What the rounds say of ttl i from the given one on: the number of each round
\* that probed it is mapped to the result.
Column(rounds, from, i) ==
  [k \in {k \in from..Len(rounds) : Len(rounds[k]) >= i} |-> rounds[k][i]]

Live(i) == Column(archive, resetMark + 1, i)
Ever(i) == Column(archive, 1, i)

Heard(col) == {k \in DOMAIN col : col[k].rtt # None}
Answered(col) == {k \in DOMAIN col : col[k].addr # None}
Failed(col) == {k \in DOMAIN col : col[k].error}
Rtts(col) == {col[k].rtt : k \in Heard(col)}

Greatest(S) == CHOOSE k \in S : \A j \in S : j <= k
Least(S) == CHOOSE k \in S : \A j \in S : k <= j

\* How many rounds of the column came after round k.
After(col, k) == Cardinality({j \in DOMAIN col : j > k})

\* The statistics of a column, computed from the column alone.
StatsOf(col) ==
  [sent |-> Cardinality(DOMAIN col),
   received |-> Cardinality(Heard(col)),
   lost |-> Cardinality(DOMAIN col) - Cardinality(Heard(col)),
   errors |-> Cardinality(Failed(col)),
   last_rtt |-> IF DOMAIN col = {} THEN None ELSE col[Greatest(DOMAIN col)].rtt,
   min_rtt |-> IF Rtts(col) = {} THEN None ELSE Least(Rtts(col)),
   max_rtt |-> IF Rtts(col) = {} THEN None ELSE Greatest(Rtts(col))]

\* The ring holds the newest results of the column, the last one at its end,
\* and as many of them as it can hold.
HoldsNewest(ring, col) ==
  /\ Len(ring) = IF Cardinality(DOMAIN col) < MaxSamples
                 THEN Cardinality(DOMAIN col) ELSE MaxSamples
  /\ \A k \in DOMAIN col :
       After(col, k) < Len(ring) => ring[Len(ring) - After(col, k)] = col[k]

AddrOf(col) ==
  IF Answered(col) = {} THEN None ELSE col[Greatest(Answered(col))].addr

\* The record is a function of the rounds: a row's statistics and samples are
\* those of its column since the last reset, and its address is the newest
\* answer of the column since the target was added (probe_round's write
\* section, add_probe, record_probe, reset_all).
RecordMatchesRounds ==
  \A i \in DOMAIN hops :
    /\ hops[i].stats = StatsOf(Live(i))
    /\ HoldsNewest(hops[i].samples, Live(i))
    /\ hops[i].addr = AddrOf(Ever(i))

\* The table reaches exactly as far as the longest path ever seen: a row is
\* neither missing nor left over from a path nobody probed (ensure_hop).
TableMatchesRounds ==
  /\ \A k \in DOMAIN archive : Len(archive[k]) <= Len(hops)
  /\ hops # <<>> => \E k \in DOMAIN archive : Len(archive[k]) = Len(hops)

\* A target's colour in the list is a function of the rounds since the last
\* reset.  The row that counts is the farthest one that answered in them, be it a
\* router's or one a shorter path has left behind; its last time and its share
\* of losses give red or yellow, whichever is worse; and a lost last probe is
\* grey while the share is low (destination_health, combined_health).
RowColourEarned ==
  LET far == {i \in DOMAIN hops : Heard(Live(i)) # {}}
      col == Live(Greatest(far))
      sent == Cardinality(DOMAIN col)
      last == col[Greatest(DOMAIN col)].rtt
      Loses(pct) == 100 * (sent - Cardinality(Heard(col))) >= pct * sent
      Slow(limit) == last # None /\ last >= limit
  IN  HealthFg[DestinationHealth(hops)] =
        IF far = {} THEN "darkgray"
        ELSE IF Slow(RttCrit) \/ Loses(LossCrit) THEN "red"
        ELSE IF Slow(RttWarn) \/ Loses(LossWarn) THEN "yellow"
        ELSE IF last = None THEN "darkgray" ELSE "green"

\* "Gray: No data yet (waiting for first probe response)", src/README.md:106.
GreyMeansNoData ==
  HealthFg[DestinationHealth(hops)] = "darkgray"
    => \A i \in DOMAIN hops : Heard(Live(i)) = {}

\* "Target list rows are colored based on the destination hop",
\* src/README.md:108: the row where the latest round met the target.
ColouredByDestination ==
  archive # <<>> =>
    LET latest == archive[Len(archive)]
        stats == hops[Len(latest)].stats
    IN  (latest # <<>> /\ latest[Len(latest)].addr = Target) =>
          DestinationHealth(hops)
            = CombinedHealth(RttHealth(stats.last_rtt), LossHealth(stats))

\* Of the README's two sentences about a target's colour one at least is true;
\* a state where this fails refutes them both.
ColourAsDocumented == GreyMeansNoData \/ ColouredByDestination

\* Once the user has paused, at most the round already under way still enters
\* the record, for as long as the pause lasts.
PauseQuiesces == paused => Len(archive) <= pauseMark + 1

\* Once the token has fired, at most one more round enters the record.
CancelQuiesces == cancelled => Len(archive) <= cancelMark + 1

=============================================================================

------------------------------ MODULE HopView ------------------------------
(***************************************************************************)
(* What the interface says of a row's health (src/src/tui/health.rs) and   *)
(* of a target's (src/src/tui/widgets/target_list.rs): pure functions of   *)
(* the record and of the four thresholds, which the program does not check *)
(* against each other.  Times and their thresholds share a unit.           *)
(***************************************************************************)
EXTENDS TraceState

CONSTANTS
  RttWarn,     \* Thresholds::rtt_warn_ms
  RttCrit,     \* Thresholds::rtt_crit_ms
  LossWarn,    \* Thresholds::loss_warn_pct
  LossCrit     \* Thresholds::loss_crit_pct

ASSUME ThresholdAssumption == {RttWarn, RttCrit, LossWarn, LossCrit} \subseteq Nat

HealthLevel == {"good", "warning", "critical", "nodata"}

RttHealth(rtt) ==
  CASE rtt = None     -> "nodata"
    [] OTHER          -> IF rtt >= RttCrit THEN "critical"
                         ELSE IF rtt >= RttWarn THEN "warning" ELSE "good"

\* loss_pct of record_probe against a threshold, without the division.
LossAtLeast(s, pct) == 100 * s.lost >= pct * s.sent

LossHealth(s) ==
  CASE s.received = 0 -> "nodata"
    [] OTHER          -> IF LossAtLeast(s, LossCrit) THEN "critical"
                         ELSE IF LossAtLeast(s, LossWarn) THEN "warning" ELSE "good"

\* The worse of the two; missing data outweighs good data.
CombinedHealth(rtt, loss) ==
  LET said == {rtt, loss}
  IN  IF "critical" \in said THEN "critical"
      ELSE IF "warning" \in said THEN "warning"
      ELSE IF "nodata" \in said THEN "nodata" ELSE "good"

HealthFg ==
  [good |-> "green", warning |-> "yellow", critical |-> "red", nodata |-> "darkgray"]

\* Mutant: the nearest row that ever received, not the farthest.
DestinationRowNearest(hops) ==
  LET heard == {i \in DOMAIN hops : hops[i].stats.received > 0}
  IN  IF heard = {} THEN 0 ELSE CHOOSE i \in heard : \A j \in heard : i <= j

\* The row that stands for the target in the list: the farthest one that
\* received anything since the last reset, or 0.
DestinationRow(hops) ==
  LET heard == {i \in DOMAIN hops : hops[i].stats.received > 0}
  IN  IF heard = {} THEN 0 ELSE CHOOSE i \in heard : \A j \in heard : j <= i

DestinationHealth(hops) ==
  LET i == DestinationRow(hops)
  IN  IF i = 0 THEN "nodata"
      ELSE CombinedHealth(RttHealth(hops[i].stats.last_rtt), LossHealth(hops[i].stats))

=============================================================================

------------------------------ MODULE Reports ------------------------------
(***************************************************************************)
(* What the program prints of a hop: the text report and the rows of the   *)
(* hop table (src/src/report/format.rs, text.rs, the hop table widget),    *)
(* the CSV record and the JSON object.  A row is a record of cells; None   *)
(* is a dash, an empty field, a null or a host of "???".  The number of    *)
(* decimals is left out.  a is the average that belongs to the statistics. *)
(***************************************************************************)
EXTENDS HopView, Averages

\* loss_pct is zero until the first probe.
LossPct(s) == IF s.sent = 0 THEN Whole(0) ELSE Ratio(100 * s.lost, s.sent)

FormatHost(hop) ==
  CASE hop.hostname # None -> [name |-> hop.hostname]
    [] hop.hostname = None /\ hop.addr # None -> [ip |-> hop.addr]
    [] OTHER -> None

FormatUsToMs(us) == IF us = Whole(0) THEN None ELSE us
FormatErrors(n) == IF n > 0 THEN n ELSE None

TextRow(hop, a) ==
  [ttl |-> hop.ttl, host |-> FormatHost(hop), loss |-> LossPct(hop.stats),
   sent |-> hop.stats.sent, received |-> hop.stats.received,
   errors |-> FormatErrors(hop.stats.errors),
   last |-> hop.stats.last_rtt, avg |-> FormatUsToMs(a.avg),
   best |-> hop.stats.min_rtt, worst |-> hop.stats.max_rtt,
   stdev |-> FormatUsToMs(a.var)]

CsvRow(hop, a) ==
  [ttl |-> hop.ttl, host |-> FormatHost(hop), loss |-> LossPct(hop.stats),
   sent |-> hop.stats.sent, received |-> hop.stats.received,
   errors |-> hop.stats.errors,
   last |-> hop.stats.last_rtt,
   avg |-> IF hop.stats.received > 0 THEN a.avg ELSE None,
   best |-> hop.stats.min_rtt, worst |-> hop.stats.max_rtt,
   stdev |-> IF hop.stats.received > 0 THEN a.var ELSE None]

\* Mutant: a hop has data as soon as it was probed.
JsonRowIfSent(hop, a) ==
  LET IfData(value) == IF hop.stats.sent > 0 THEN value ELSE None
  IN  [ttl |-> hop.ttl, host |-> hop.hostname, ip |-> hop.addr,
       loss |-> LossPct(hop.stats), sent |-> hop.stats.sent,
       received |-> hop.stats.received, errors |-> hop.stats.errors,
       last |-> IfData(hop.stats.last_rtt), avg |-> IfData(a.avg),
       best |-> IfData(hop.stats.min_rtt), worst |-> IfData(hop.stats.max_rtt),
       stdev |-> IfData(a.var)]

JsonRow(hop, a) ==
  LET IfData(value) == IF hop.stats.received > 0 THEN value ELSE None
  IN  [ttl |-> hop.ttl, host |-> hop.hostname, ip |-> hop.addr,
       loss |-> LossPct(hop.stats), sent |-> hop.stats.sent,
       received |-> hop.stats.received, errors |-> hop.stats.errors,
       last |-> IfData(hop.stats.last_rtt), avg |-> IfData(a.avg),
       best |-> IfData(hop.stats.min_rtt), worst |-> IfData(hop.stats.max_rtt),
       stdev |-> IfData(a.var)]

\* One row per hop, and the rounds shown but in the CSV.
TextReport(hops, averages, round) ==
  [rounds |-> round, rows |-> [i \in DOMAIN hops |-> TextRow(hops[i], averages[i])]]
CsvReport(hops, averages) ==
  [rows |-> [i \in DOMAIN hops |-> CsvRow(hops[i], averages[i])]]
JsonReport(hops, averages, round) ==
  [rounds |-> round, rows |-> [i \in DOMAIN hops |-> JsonRow(hops[i], averages[i])]]

\* A row of the hop table: the cells of the text report but one, two of them
\* coloured, and the selected row (from 0) set off.
HopTableRow(hop, a, isSelected) ==
  [cells |-> [c \in DOMAIN TextRow(hop, a) \ {"received"} |-> TextRow(hop, a)[c]],
   lossColor |-> HealthFg[LossHealth(hop.stats)],
   rttColor |-> HealthFg[RttHealth(hop.stats.last_rtt)],
   selected |-> isSelected]

\* What the target list says of the row that stands for the target.
DestinationSummary(hops, averages) ==
  LET i == DestinationRow(hops)
  IN  IF i = 0 THEN None
      ELSE [last |-> hops[i].stats.last_rtt, avg |-> FormatUsToMs(averages[i].avg),
            loss |-> LossPct(hops[i].stats)]

=============================================================================

---------------------------- MODULE LatencyChart ----------------------------
(***************************************************************************)
(* The latency chart of a hop (src/src/tui/widgets/latency_chart.rs and    *)
(* the axes render_frame gives it): the line through the answered samples, *)
(* cut where it crosses a threshold and coloured by the zone it lies in,   *)
(* and the marks of the lost ones.  A point's x is a fraction, as a cut    *)
(* falls between two samples; its y is a time or a threshold.              *)
(***************************************************************************)
EXTENDS HopView, Fractions, SequencesExt

\* The points of the answered samples, or the marks of the lost ones.
Marked(samples, answered) ==
  LET upTo[k \in 0..Len(samples)] ==
        IF k = 0 THEN <<>>
        ELSE IF (samples[k].rtt # None) # answered THEN upTo[k - 1]
        ELSE Append(upTo[k - 1], [x |-> Whole(k - 1),
                                  y |-> IF answered THEN samples[k].rtt ELSE 0])
  IN  upTo[Len(samples)]

LatencyData(hop) == Marked(hop.samples, TRUE)
LossData(hop) == Marked(hop.samples, FALSE)

\* The axes; heights are in tenths, for the padding.
Heights(data) == {data[k].y : k \in DOMAIN data}

YBounds(data) ==
  IF data = <<>> THEN [lo |-> 0, hi |-> 10]
  ELSE LET min == CHOOSE y \in Heights(data) : \A z \in Heights(data) : y <= z
           max == CHOOSE y \in Heights(data) : \A z \in Heights(data) : y >= z
           padding == IF max # min THEN max - min ELSE IF min > 1 THEN min ELSE 1
       IN  [lo |-> IF 10 * min > padding THEN 10 * min - padding ELSE 0,
            hi |-> 10 * max + padding]

XMax(data) == IF data = <<>> THEN 1 ELSE Len(data)

-----------------------------------------------------------------------------
(* The coloured line.                                                      *)

\* The zone of a height given twice over, as a midpoint is half of a sum.
PointZone(twice) ==
  IF twice >= 2 * RttCrit THEN 2 ELSE IF twice >= 2 * RttWarn THEN 1 ELSE 0

ZoneColor(zone) == <<"green", "yellow", "red">>[zone + 1]

StrictlyBetween(limit, p, q) ==
  \/ p.y < limit /\ limit < q.y
  \/ q.y < limit /\ limit < p.y

\* Where the segment from p to q is at the height of the limit.
CrossingAt(limit, p, q) ==
  [x |-> Plus(p.x, Times(Minus(q.x, p.x),
                         Ratio(Abs(limit - p.y), Abs(q.y - p.y)))),
   y |-> limit]

\* Where it crosses the limit, if it does.
CutsAt(limit, p, q) ==
  IF StrictlyBetween(limit, p, q) THEN <<CrossingAt(limit, p, q)>> ELSE <<>>

\* Mutant: the cuts of a falling segment stay in rising order.
CrossingPointsRising(p, q) == CutsAt(RttWarn, p, q) \o CutsAt(RttCrit, p, q)

\* The cuts between p and q, in the direction of travel.
CrossingPoints(p, q) ==
  LET cuts == CutsAt(RttWarn, p, q) \o CutsAt(RttCrit, p, q)
  IN  IF q.y < p.y THEN Reverse(cuts) ELSE cuts

\* The data, with the cuts between them.
Path(data) ==
  LET upTo[k \in 1..Len(data)] ==
        IF k = 1 THEN <<data[1]>>
        ELSE upTo[k - 1] \o Append(CrossingPoints(data[k - 1], data[k]), data[k])
  IN  upTo[Len(data)]

\* One more stretch of the line: it joins the last run if it lies in that
\* run's zone, and starts a run at the end of the last one otherwise.
ExtendRuns(runs, end) ==
  LET run == Last(runs)
      start == Last(run.points)
      zone == PointZone(start.y + end.y)
  IN  IF zone = run.zone
      THEN [runs EXCEPT ![Len(runs)].points = Append(@, end)]
      ELSE Append(runs, [zone |-> zone, points |-> <<start, end>>])

RunsOf(path) ==
  LET upTo[k \in 1..Len(path)] ==
        IF k = 1 THEN <<[zone |-> PointZone(2 * path[1].y), points |-> <<path[1]>>]>>
        ELSE ExtendRuns(upTo[k - 1], path[k])
  IN  upTo[Len(path)]

ColorRuns(data) == IF data = <<>> THEN <<>> ELSE RunsOf(Path(data))

\* One coloured line per run, and one for the losses if there are any.
ChartDatasets(hop) ==
  LET runs == ColorRuns(LatencyData(hop))
      loss == LossData(hop)
      lines == [k \in DOMAIN runs |->
                  [color |-> ZoneColor(runs[k].zone), points |-> runs[k].points]]
  IN  IF loss = <<>> THEN lines
      ELSE Append(lines, [color |-> "red", points |-> loss])

\* The chart: what the title names, the axes and the lines.
Chart(hop, host) ==
  [ttl |-> hop.ttl, host |-> host, lines |-> ChartDatasets(hop),
   xMax |-> XMax(LatencyData(hop)), yBounds |-> YBounds(LatencyData(hop))]

=============================================================================

------------------------------- MODULE Screen -------------------------------
(***************************************************************************)
(* What the interface shows of the active target, and when it draws it     *)
(* (run_event_loop and render_frame in src/src/tui/mod.rs).  The engine    *)
(* and the lookups are those of TraceRecord, which one target of           *)
(* TraceTarget implements: a round enters the record, its number is shown, *)
(* a row is named.  The loop redraws after a key or when the number shown  *)
(* has changed since it last drew; nothing else makes it draw.             *)
(*                                                                         *)
(* The list of targets, the selection, typing and quitting are TuiLoop's,  *)
(* and the help overlay is left out.  The height of the terminal is what   *)
(* it is when a frame is drawn: an event that is not a key is dropped.     *)
(* keys, heard and unpublished are auxiliary.                              *)
(***************************************************************************)
EXTENDS TraceRecord, LatencyChart, Reports

CONSTANTS
  MaxTotal,    \* bound: the rounds recorded
  MaxKeys      \* bound: the keys pressed

ASSUME ScreenAssumption == MaxTotal \in Nat /\ MaxKeys \in Nat

VARIABLES
  averages,        \* the mean and the variance of each row's statistics
  pc,              \* where the loop is
  lastRound,       \* last_round
  needsRedraw,     \* needs_redraw
  resetRequested,  \* app.reset_requested
  showChart,       \* app.show_chart
  keys,            \* the keys pressed so far
  drawn,           \* what the terminal shows but for names, None at first
  heard,           \* the sums of the times each row heard since its last reset,
                   \* in whole microseconds
  unpublished      \* a round is in the record, its number is not shown yet

appVars == <<resetRequested, showChart, keys>>
auxVars == <<heard, unpublished>>
drawVars == <<lastRound, needsRedraw, drawn>>
screenVars == <<recordVars, averages, pc, appVars, drawVars, auxVars>>

ScreenInit ==
  /\ Init
  /\ averages = <<>>
  /\ pc = "frame"
  /\ lastRound = 0
  /\ needsRedraw = TRUE
  /\ resetRequested = FALSE
  /\ showChart = TRUE
  /\ keys = 0
  /\ drawn = None
  /\ heard = <<>>
  /\ unpublished = FALSE

-----------------------------------------------------------------------------
(* The record's side.                                                      *)

\* A time, if there is one, goes into the row's average; new rows start one.
AverageRound(r) ==
  [i \in DOMAIN hops' |->
     LET old == IF i \in DOMAIN averages THEN averages[i] ELSE NewAverage
     IN  IF i <= Len(r) /\ r[i].rtt # None THEN RecordTime(old, r[i].rtt) ELSE old]

HeardRound(r) ==
  [i \in DOMAIN hops' |->
     LET old == IF i \in DOMAIN heard THEN heard[i] ELSE NoTimes
     IN  IF i <= Len(r) /\ r[i].rtt # None THEN AddTime(old, r[i].rtt) ELSE old]

RecordOneRound ==
  /\ total < MaxTotal
  /\ ~unpublished
  /\ \E r \in Rounds :
       /\ AddRoundOf(r)
       /\ averages' = AverageRound(r)
       /\ heard' = HeardRound(r)
  /\ unpublished' = TRUE
  /\ UNCHANGED <<pc, appVars, drawVars>>

PublishRound ==
  /\ unpublished
  /\ ShowRound
  /\ unpublished' = FALSE
  /\ UNCHANGED <<averages, pc, appVars, drawVars, heard>>

NameOneRow ==
  /\ NameRow
  /\ UNCHANGED <<averages, pc, appVars, drawVars, auxVars>>

-----------------------------------------------------------------------------
(* A frame: the row of the target list, the hop table, the chart.          *)

Selected == 1    \* the row of app.selected_hop, until TuiLoop's keys move it

\* The chart, if there is room and a row for it.
ChartShown(isTall) ==
  IF showChart /\ isTall /\ Selected \in DOMAIN hops
  THEN {Chart(hops[Selected], FormatHost(hops[Selected]))}
  ELSE {}

Picture(isTall) ==
  [round |-> round,
   summary |-> DestinationSummary(hops, averages),
   color |-> HealthFg[DestinationHealth(hops)],
   table |-> [i \in DOMAIN hops |-> HopTableRow(hops[i], averages[i], i = Selected)],
   chart |-> ChartShown(isTall)]

\* A picture without the names of its routers.
Unnamed(picture) ==
  [picture EXCEPT
     !.table = [i \in DOMAIN @ |-> [@[i] EXCEPT !.cells.host = None]],
     !.chart = {[c EXCEPT !.host = None] : c \in @}]

Draw ==
  /\ \E isTall \in BOOLEAN : drawn' = Unnamed(Picture(isTall))
  /\ lastRound' = round
  /\ needsRedraw' = FALSE

\* Mutant: a new round alone does not make the loop draw.
FrameOnKeysOnly ==
  /\ pc = "frame"
  /\ pc' = "select"
  /\ IF needsRedraw THEN Draw ELSE UNCHANGED drawVars
  /\ UNCHANGED <<recordVars, averages, appVars, auxVars>>

\* Top of the turn, under the read lock.
Frame ==
  /\ pc = "frame"
  /\ pc' = "select"
  /\ IF needsRedraw \/ round # lastRound THEN Draw ELSE UNCHANGED drawVars
  /\ UNCHANGED <<recordVars, averages, appVars, auxVars>>

-----------------------------------------------------------------------------
(* The keys of a tick, in any number, and the request they leave.          *)

AnyKey ==
  /\ pc = "select"
  /\ keys < MaxKeys
  /\ keys' = keys + 1
  /\ needsRedraw' = TRUE
  /\ UNCHANGED <<recordVars, averages, pc, lastRound, drawn, auxVars>>

KeyChart ==
  /\ AnyKey
  /\ showChart' = ~showChart
  /\ UNCHANGED resetRequested

KeyReset ==
  /\ AnyKey
  /\ resetRequested' = TRUE
  /\ UNCHANGED showChart

EndKeys ==
  /\ pc = "select"
  /\ pc' = "serve"
  /\ UNCHANGED <<recordVars, averages, appVars, drawVars, auxVars>>

ResetStatistics ==
  /\ Clear
  /\ averages' = [i \in DOMAIN hops |-> NewAverage]
  /\ heard' = [i \in DOMAIN hops |-> NoTimes]

Serve ==
  /\ pc = "serve"
  /\ pc' = "frame"
  /\ IF resetRequested
     THEN ResetStatistics /\ lastRound' = 0 /\ needsRedraw' = TRUE
     ELSE UNCHANGED <<recordVars, averages, heard, lastRound, needsRedraw>>
  /\ resetRequested' = FALSE
  /\ UNCHANGED <<showChart, keys, drawn, unpublished>>

ScreenNext ==
  \/ RecordOneRound \/ PublishRound \/ NameOneRow
  \/ Frame \/ KeyChart \/ KeyReset \/ EndKeys \/ Serve

ScreenSpec == ScreenInit /\ [][ScreenNext]_screenVars

-----------------------------------------------------------------------------
(* Properties.                                                             *)

ScreenTypeOK ==
  /\ averages \in Seq(Average)
  /\ pc \in {"frame", "select", "serve"}
  /\ lastRound \in 0..MaxTotal
  /\ {needsRedraw, resetRequested, showChart, unpublished} \subseteq BOOLEAN
  /\ keys \in 0..MaxKeys
  /\ \A i \in DOMAIN hops : hops[i] \in HopState

\* What the program relies on: an average for every row, which has counted the
\* row's answers, a mean between the extremes and a variance that has a root.
\* The mean is no larger than the worst time, but it may lie below the best one,
\* by less than a microsecond: it is of times cut to whole microseconds, and the
\* extremes are not.
AveragesSound ==
  /\ DOMAIN averages = DOMAIN hops
  /\ \A i \in DOMAIN hops :
       LET stats == hops[i].stats
       IN  /\ averages[i].received = stats.received
           /\ averages[i].var.num >= 0
           /\ stats.received > 0 =>
                /\ Leq(Whole(AsMicros(stats.min_rtt)), averages[i].avg)
                /\ Leq(averages[i].avg, Whole(AsMicros(stats.max_rtt)))

\* Updating the mean and the deviation one time after the other gives those of
\* all the whole microseconds since the last reset, whatever was lost in between
\* and however often the statistics were reset (record_probe's incremental
\* formulas, reset_all).
AveragesExact ==
  /\ AveragesSound
  /\ \A i \in DOMAIN hops : averages[i] = AverageOf(heard[i])

OnChord(p, from, to) ==
  /\ Leq(from.x, p.x)
  /\ Leq(p.x, to.x)
  /\ Times(Minus(p.x, from.x), Whole(to.y - from.y))
       = Times(Whole(p.y - from.y), Minus(to.x, from.x))

\* The points of the line are the data and cuts at a threshold's height on the
\* way from one datum to the next.
LineThroughData(line, data) ==
  /\ ToSet(data) \subseteq line
  /\ \A p \in line \ ToSet(data) :
       /\ p.y \in {RttWarn, RttCrit}
       /\ \E k \in 1..(Len(data) - 1) : OnChord(p, data[k], data[k + 1])

\* A stretch moves on in time and stays within the zone of its colour; two
\* cuts fall together only if the thresholds do.
StretchInZone(p, q, zone) ==
  /\ Leq(p.x, q.x)
  /\ p = q => RttWarn = RttCrit
  /\ \A limit \in {RttWarn, RttCrit} : ~StrictlyBetween(limit, p, q)
  /\ PointZone(p.y + q.y) = zone

\* With the thresholds in order, the coloured line of the chart passes through
\* every answered sample in the order of time, without a gap, and changes its
\* colour exactly where it changes its zone; each sample is either on the line
\* or marked as lost, and the line's samples lie within the heights of the axis
\* (build_latency_data, build_loss_data, build_color_runs, compute_y_bounds).
ChartFaithful ==
  RttWarn <= RttCrit =>
  \A i \in DOMAIN hops :
    LET samples == hops[i].samples
        data == LatencyData(hops[i])
        loss == LossData(hops[i])
        runs == ColorRuns(data)
        bounds == YBounds(data)
    IN  /\ \A k \in DOMAIN samples :
             [x |-> Whole(k - 1), y |-> samples[k].rtt] \in ToSet(data)
               <=> [x |-> Whole(k - 1), y |-> 0] \notin ToSet(loss)
        /\ Len(data) + Len(loss) = Len(samples)
        /\ LineThroughData(UNION {ToSet(runs[k].points) : k \in DOMAIN runs}, data)
        /\ \A k \in 1..(Len(runs) - 1) :
             /\ Last(runs[k].points) = Head(runs[k + 1].points)
             /\ runs[k].zone # runs[k + 1].zone
        /\ \A k \in DOMAIN runs : \A j \in 1..(Len(runs[k].points) - 1) :
             StretchInZone(runs[k].points[j], runs[k].points[j + 1], runs[k].zone)
        /\ bounds.lo < bounds.hi
        /\ \A y \in Heights(data) : bounds.lo <= 10 * y /\ 10 * y <= bounds.hi

\* The report formats say the same of a hop: the CSV leaves exactly those
\* fields empty that the JSON leaves null, although one looks at each value and
\* the other at the number of answers, and the text differs from them in its
\* dashes for zero errors, a zero mean and a zero deviation only
\* (format_csv, build_hop, format_report).
ReportsAgree ==
  LET texts == TextReport(hops, averages, round)
      csvs == CsvReport(hops, averages)
      jsons == JsonReport(hops, averages, round)
      Dashed(value, zero) == IF value = zero THEN None ELSE value
  IN  \A i \in DOMAIN hops :
        LET text == texts.rows[i]
            csv == csvs.rows[i]
            json == jsons.rows[i]
        IN  /\ \A f \in DOMAIN csv \ {"host"} : csv[f] = json[f]
            /\ csv.host = IF json.host # None THEN [name |-> json.host]
                          ELSE IF json.ip # None THEN [ip |-> json.ip] ELSE None
            /\ text = [csv EXCEPT !.errors = Dashed(@, 0),
                                  !.avg = Dashed(@, Whole(0)),
                                  !.stdev = Dashed(@, Whole(0))]

\* When a turn's frame is done the screen shows the statistics and the
\* switches as they are, although most turns draw nothing: only names,
\* the terminal's height and a round whose number is still to be shown may be
\* missing (last_round and needs_redraw of run_event_loop).
FrameFresh ==
  [][Frame => \/ unpublished
              \/ \E isTall \in BOOLEAN : drawn' = Unnamed(Picture(isTall))]_screenVars

\* The newest answered sample lies within the chart's x axis ("X = sample index
\* (0..n)", src/src/tui/widgets/latency_chart.rs:9).
ChartShowsNewest ==
  \A i \in DOMAIN hops :
    LET data == LatencyData(hops[i])
    IN  data # <<>> => Leq(Last(data).x, Whole(XMax(data)))

=============================================================================

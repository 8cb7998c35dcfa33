--------------------------- MODULE ProgramProofs ---------------------------
(***************************************************************************)
(* Proofs about Program, for every set of command lines, names and         *)
(* targets: what is printed is final; what the engines are started with    *)
(* and which tasks there are.                                              *)
(***************************************************************************)
EXTENDS Program, FiniteSetTheorems, TLAPS

\* The tasks of the first n targets have ended and none of them panicked.
Awaited(kind, n) == \A k \in 1..n : <<k, kind>> \notin running \cup broken

\* Before anything is awaited or shown.
StartPhase == {"args", "resolve", "engines", "dns"}

\* The interface, from its set-up to its restoring, is for the other mode.
TuiPhase == {"raw", "alternate", "backend", "tui",
             "restoreRaw", "restoreAlternate", "restoreCursor"}

\* What main has waited for is over, and stays over: the engines of a report
\* before the token fires, everything before the first report is printed.
JoinedAreOver ==
  /\ joined \in Nat
  /\ joined < Len(args.targets)
  /\ phase \notin {"joinEngines", "joinDns", "failed"} => joined = 0
  /\ phase = "joinEngines" => Awaited("engine", joined)
  /\ phase = "cancel" /\ config.report => Awaited("engine", Len(args.targets))
  /\ phase \in {"joinDns", "print"} => Awaited("engine", Len(args.targets))
  /\ phase = "joinDns" => Awaited("dns", joined)
  /\ phase = "print" => Awaited("dns", Len(args.targets))
  /\ phase \in TuiPhase => ~config.report

\* The modes of the terminal on the way in and out, if no call has failed.
TerminalInStep ==
  /\ phase = "alternate" => terminal = {"raw"}
  /\ phase \in {"backend", "tui", "restoreRaw"} => terminal = {"raw", "alternate"}
  /\ phase = "restoreAlternate" => terminal = {"alternate"}
  /\ phase \in StartPhase \cup {"raw", "restoreCursor"} => terminal = {}
  /\ phase \notin TuiPhase /\ tuiOk => terminal = {}

Report == [target: Nat, format: {"csv", "json", "text"}]

\* The reports so far, while they are printed and after.
PrintedInOrder ==
  /\ printed \in Seq(Report)
  /\ \A k \in 1..Len(printed) : printed[k] = [target |-> k, format |-> Format(config)]
  /\ printed # <<>> =>
       /\ phase \in {"print", "exited", "failed"}
       /\ Awaited("engine", Len(args.targets))
       /\ Awaited("dns", Len(args.targets))
  /\ phase = "print" => Len(printed) < Len(args.targets)
  /\ phase = "exited" => Len(printed) = Len(args.targets) /\ tuiOk

ReportInv ==
  /\ args \in CommandLines
  /\ JoinedAreOver
  /\ TerminalInStep
  /\ PrintedInOrder

-----------------------------------------------------------------------------
\* Every command line names a target.
LEMMA SomeTarget ==
  ASSUME args \in CommandLines
  PROVE  /\ Len(args.targets) \in Nat \ {0}
         /\ Initial = 1..Len(args.targets)
<1>1. args.targets \in Seq(Name) /\ args.targets # <<>>
  BY ProgramAssumption DEF Args
<1>2. QED BY <1>1 DEF Initial

LEMMA FormatKnown == Format(config) \in {"csv", "json", "text"}
BY DEF Format

LEMMA InitReport == ProgramInit => ReportInv
<1> SUFFICES ASSUME ProgramInit PROVE ReportInv
  OBVIOUS
<1>1. args \in CommandLines BY DEF ProgramInit
<1>2. Len(args.targets) \in Nat \ {0} BY <1>1, SomeTarget
<1>3. JoinedAreOver
  BY <1>2 DEF ProgramInit, JoinedAreOver, TuiPhase
<1>4. TerminalInStep
  BY DEF ProgramInit, TerminalInStep, TuiPhase, StartPhase
<1>5. PrintedInOrder
  BY DEF ProgramInit, PrintedInOrder
<1>6. QED BY <1>1, <1>3, <1>4, <1>5 DEF ReportInv

\* Nothing the invariant speaks of changes.
reportVars == <<phase, args, config, running, broken, joined, printed, terminal, tuiOk>>

LEMMA KeptReport == ReportInv /\ UNCHANGED reportVars => ReportInv'
BY DEF ReportInv, reportVars, JoinedAreOver, TerminalInStep, PrintedInOrder, Awaited

-----------------------------------------------------------------------------
(* The steps, up to the interface.                                         *)

\* Before anything is awaited or printed, a step that changes neither the
\* terminal nor what was printed only has to get the phases right.
LEMMA StartStep ==
  ASSUME ReportInv,
         RefuseArgs \/ AcceptArgs \/ ResolveNext \/ ResolveFails
           \/ SpawnEngine \/ EnginePanics \/ SpawnDns
  PROVE  ReportInv'
<1> USE DEF From, inputVars, taskVars, outputVars, StartPhase
<1>1. Len(args.targets) \in Nat \ {0} BY SomeTarget DEF ReportInv
<1>2. /\ phase \in StartPhase
      /\ phase' \in StartPhase \cup {"refused", "failed", "panicked", "joinEngines", "raw"}
      /\ phase' = "raw" => ~config'.report
      /\ UNCHANGED <<args, joined, printed, terminal, tuiOk>>
  BY DEF RefuseArgs, AcceptArgs, ResolveNext, ResolveFails, SpawnEngine, EnginePanics,
         SpawnDns
<1>3. joined = 0 /\ printed = <<>> /\ terminal = {}
  BY <1>2 DEF ReportInv, JoinedAreOver, PrintedInOrder, TerminalInStep
<1>4. JoinedAreOver'
  BY <1>1, <1>2, <1>3 DEF JoinedAreOver, Awaited, TuiPhase
<1>5. TerminalInStep'
  BY <1>2, <1>3 DEF TerminalInStep, TuiPhase
<1>6. PrintedInOrder'
  BY <1>2, <1>3 DEF PrintedInOrder
<1>7. QED BY <1>2, <1>4, <1>5, <1>6 DEF ReportInv

\* The interface: nothing was awaited or printed, and only the calls that set
\* it up or restore it change the modes.
LEMMA InterfaceStep ==
  ASSUME ReportInv,
         Setup \/ TuiChoose \/ TuiAdd \/ TuiQuits \/ TuiSeesCancel \/ Restore
  PROVE  ReportInv'
<1> USE DEF From, inputVars, taskVars, outputVars
<1>1. Len(args.targets) \in Nat \ {0} BY SomeTarget DEF ReportInv
<1>2. /\ phase \in TuiPhase
      /\ phase' \in TuiPhase \cup {"cancel"}
      /\ UNCHANGED <<args, config, joined, printed>>
  BY DEF Setup, EnterMode, SetupFails, TuiChoose, TuiAdd, TuiQuits, TuiSeesCancel,
         Restore, LeaveMode, RestoreFails, TuiPhase
<1>3. joined = 0 /\ printed = <<>> /\ ~config.report
  BY <1>2 DEF ReportInv, JoinedAreOver, PrintedInOrder, TuiPhase
<1>4. JoinedAreOver'
  BY <1>1, <1>2, <1>3 DEF JoinedAreOver, Awaited, TuiPhase
<1>5. TerminalInStep'
  <2>1. CASE Setup
    BY <2>1 DEF Setup, EnterMode, SetupFails, ReportInv, TerminalInStep, TuiPhase, StartPhase
  <2>2. CASE TuiChoose \/ TuiAdd \/ TuiQuits \/ TuiSeesCancel
    BY <2>2 DEF TuiChoose, TuiAdd, TuiQuits, TuiSeesCancel, ReportInv, TerminalInStep,
                TuiPhase, StartPhase
  <2>3. CASE Restore
    BY <2>3 DEF Restore, LeaveMode, RestoreFails, ReportInv, TerminalInStep, TuiPhase,
                StartPhase
  <2>4. QED BY <2>1, <2>2, <2>3
<1>6. PrintedInOrder'
  BY <1>2, <1>3 DEF PrintedInOrder, TuiPhase
<1>7. QED BY <1>2, <1>4, <1>5, <1>6 DEF ReportInv

-----------------------------------------------------------------------------
(* The end of the program.                                                 *)

\* One more task is over.
LEMMA AwaitedNext ==
  ASSUME NEW kind, joined \in Nat, Awaited(kind, joined),
         <<joined + 1, kind>> \notin running, <<joined + 1, kind>> \notin broken
  PROVE  Awaited(kind, joined + 1)
<1>1. \A k \in 1..(joined + 1) : k \in 1..joined \/ k = joined + 1
  OBVIOUS
<1>2. QED BY <1>1 DEF Awaited

\* The count of the handles after one more, and where main goes then.
LEMMA JoinedNext ==
  ASSUME ReportInv, NEW kind, NEW there, JoinNext(kind, there)
  PROVE  \/ joined' = joined + 1 /\ joined' < Len(args.targets) /\ phase' = phase
         \/ joined' = 0 /\ joined + 1 = Len(args.targets) /\ phase' = there
<1>1. Len(args.targets) \in Nat \ {0} BY SomeTarget DEF ReportInv
<1>2. QED BY <1>1 DEF JoinNext, ReportInv, JoinedAreOver

\* Awaiting one more handle, of the kind the phase is about.
LEMMA JoinStep ==
  ASSUME ReportInv, CancelTasks \/ JoinEngines \/ JoinDns
  PROVE  ReportInv'
<1> USE DEF From, inputVars, taskVars, outputVars, listVars
<1>1. Len(args.targets) \in Nat \ {0} BY SomeTarget DEF ReportInv
<1>2. /\ phase \in {"cancel", "joinEngines", "joinDns"}
      /\ phase' \in {"cancel", "joinEngines", "joinDns", "print", "failed"}
      /\ UNCHANGED <<args, config, running, broken, printed, terminal, tuiOk>>
  BY DEF CancelTasks, JoinEngines, JoinDns, JoinNext, JoinFails
<1>3. printed = <<>>
  BY <1>2 DEF ReportInv, PrintedInOrder
<1>4. JoinedAreOver'
  <2>1. CASE CancelTasks
    BY <2>1, <1>1, <1>2 DEF CancelTasks, ReportInv, JoinedAreOver, Awaited, TuiPhase
  <2>2. CASE JoinEngines
    <3>1. CASE JoinNext("engine", IF config.report THEN "cancel" ELSE "joinDns")
      <4>1. Awaited("engine", joined + 1)
        BY <2>2, <3>1, AwaitedNext DEF JoinEngines, JoinNext, ReportInv, JoinedAreOver
      <4>2. QED
        BY <2>2, <3>1, <4>1, <1>1, <1>2, JoinedNext
           DEF JoinEngines, ReportInv, JoinedAreOver, Awaited, TuiPhase
    <3>2. CASE JoinFails("engine")
      BY <2>2, <3>2, <1>1, <1>2 DEF JoinFails, ReportInv, JoinedAreOver, Awaited, TuiPhase
    <3>3. QED BY <2>2, <3>1, <3>2 DEF JoinEngines
  <2>3. CASE JoinDns
    <3>1. CASE JoinNext("dns", "print")
      <4>1. Awaited("dns", joined + 1)
        BY <2>3, <3>1, AwaitedNext DEF JoinDns, JoinNext, ReportInv, JoinedAreOver
      <4>2. QED
        BY <2>3, <3>1, <4>1, <1>1, <1>2, JoinedNext
           DEF JoinDns, ReportInv, JoinedAreOver, Awaited, TuiPhase
    <3>2. CASE JoinFails("dns")
      BY <2>3, <3>2, <1>1, <1>2 DEF JoinFails, ReportInv, JoinedAreOver, Awaited, TuiPhase
    <3>3. QED BY <2>3, <3>1, <3>2 DEF JoinDns
  <2>4. QED BY <2>1, <2>2, <2>3
<1>5. TerminalInStep'
  BY <1>2 DEF ReportInv, TerminalInStep, TuiPhase, StartPhase
<1>6. PrintedInOrder'
  BY <1>1, <1>2, <1>3 DEF PrintedInOrder
<1>7. QED BY <1>2, <1>4, <1>5, <1>6 DEF ReportInv

\* One more report.
LEMMA PrintStep ==
  ASSUME ReportInv, PrintNext
  PROVE  ReportInv'
<1> USE DEF inputVars, taskVars
<1>1. Len(args.targets) \in Nat \ {0} BY SomeTarget DEF ReportInv
<1>2. /\ phase = "print"
      /\ UNCHANGED <<args, config, joined, running, broken, terminal, tuiOk>>
      /\ printed' = Append(printed, [target |-> Len(printed) + 1, format |-> Format(config)])
      /\ phase' = IF Len(printed') < Len(args.targets) THEN "print"
                  ELSE IF tuiOk THEN "exited" ELSE "failed"
  BY DEF PrintNext
<1>3. JoinedAreOver'
  BY <1>2 DEF ReportInv, JoinedAreOver, Awaited, TuiPhase
<1>4. TerminalInStep'
  BY <1>2 DEF ReportInv, TerminalInStep, TuiPhase, StartPhase
<1>5. PrintedInOrder'
  <2>1. printed \in Seq(Report) /\ Len(printed) < Len(args.targets)
    BY <1>2 DEF ReportInv, PrintedInOrder
  <2>2. [target |-> Len(printed) + 1, format |-> Format(config)] \in Report
    BY <2>1, FormatKnown DEF Report
  <2>3. printed' \in Seq(Report) /\ Len(printed') = Len(printed) + 1
    BY <1>2, <2>1, <2>2
  <2>4. \A k \in 1..Len(printed') :
          printed'[k] = [target |-> k, format |-> Format(config)]
    BY <1>2, <2>1, <2>2, <2>3 DEF ReportInv, PrintedInOrder
  <2>5. Awaited("engine", Len(args.targets))' /\ Awaited("dns", Len(args.targets))'
    BY <1>2 DEF ReportInv, JoinedAreOver, Awaited
  <2>6. QED BY <1>1, <1>2, <2>1, <2>3, <2>4, <2>5 DEF PrintedInOrder, Format
<1>6. QED BY <1>2, <1>3, <1>4, <1>5 DEF ReportInv

-----------------------------------------------------------------------------
(* The tasks, and the signal.                                              *)

\* No task that was awaited comes back, and none of them breaks late.
LEMMA TaskStep ==
  ASSUME ReportInv,
         \/ \E id \in Id : EngineEnds(id) \/ DnsEnds(id)
         \/ TaskPanics
  PROVE  ReportInv'
<1>1. /\ UNCHANGED <<phase, args, config, joined, printed, terminal, tuiOk>>
      /\ running' \cup broken' \subseteq running \cup broken
  <2>1. CASE \E id \in Id : EngineEnds(id) \/ DnsEnds(id)
    BY <2>1 DEF EngineEnds, DnsEnds, Ends, inputVars, outputVars
  <2>2. CASE TaskPanics
    BY <2>2 DEF TaskPanics, Ends, inputVars, outputVars
  <2>3. QED BY <2>1, <2>2
<1>2. \A kind, n : Awaited(kind, n) => Awaited(kind, n)'
  BY <1>1 DEF Awaited
<1>3. JoinedAreOver'
  BY <1>1, <1>2 DEF ReportInv, JoinedAreOver, TuiPhase, Awaited
<1>4. TerminalInStep' /\ PrintedInOrder'
  BY <1>1, <1>2 DEF ReportInv, TerminalInStep, PrintedInOrder, Awaited
<1>5. QED BY <1>1, <1>3, <1>4 DEF ReportInv

LEMMA InterruptStep ==
  ASSUME ReportInv, Interrupt
  PROVE  ReportInv'
<1> USE DEF inputVars, taskVars, outputVars
<1>1. CASE phase \in StartPhase
  <2>1. phase' = "killed" /\ UNCHANGED <<args, config, running, broken, joined, printed,
                                         terminal, tuiOk>>
    BY <1>1 DEF Interrupt, StartPhase
  <2>2. joined = 0 /\ printed = <<>> /\ terminal = {}
    BY <1>1 DEF ReportInv, JoinedAreOver, PrintedInOrder, TerminalInStep, StartPhase
  <2>3. QED
    BY <2>1, <2>2 DEF ReportInv, JoinedAreOver, TerminalInStep, PrintedInOrder, TuiPhase,
                      StartPhase
<1>2. CASE phase \notin StartPhase
  BY <1>2, KeptReport DEF Interrupt, StartPhase, reportVars
<1>3. QED BY <1>1, <1>2

-----------------------------------------------------------------------------
\* The invariant of main's end.
THEOREM ReportInvariant == ProgramSpec => []ReportInv
<1>1. ReportInv /\ [ProgramNext]_programVars => ReportInv'
  <2> SUFFICES ASSUME ReportInv, [ProgramNext]_programVars PROVE ReportInv'
    OBVIOUS
  <2>1. CASE MainStep
    BY <2>1, StartStep, InterfaceStep, JoinStep, PrintStep DEF MainStep
  <2>2. CASE TuiChoose \/ TuiAdd \/ TuiQuits
    BY <2>2, InterfaceStep
  <2>3. CASE (\E id \in Id : EngineEnds(id) \/ DnsEnds(id)) \/ TaskPanics
    BY <2>3, TaskStep
  <2>4. CASE Interrupt
    BY <2>4, InterruptStep
  <2>5. CASE UNCHANGED programVars
    BY <2>5, KeptReport DEF programVars, reportVars, inputVars, taskVars, outputVars
  <2>6. QED BY <2>1, <2>2, <2>3, <2>4, <2>5 DEF ProgramNext
<1>2. QED BY InitReport, <1>1, PTL DEF ProgramSpec

\* A report is printed once nothing of its target can change any more, in the
\* order of the command line and in one format, and a program that exits as it
\* should has printed them all, whatever its targets, tasks and terminal did
\* (main's joins, cancellation and summary, run_tui).
THEOREM ReportsAreFinal == ProgramSpec => []ReportsFinal
<1>1. ReportInv => ReportsFinal
  <2> SUFFICES ASSUME ReportInv PROVE ReportsFinal
    OBVIOUS
  <2>1. Initial = 1..Len(args.targets) BY SomeTarget DEF ReportInv
  <2>2. printed # <<>> => (Tasks("engine") \cup Tasks("dns")) \cap (running \cup broken) = {}
    BY <2>1 DEF ReportInv, PrintedInOrder, Awaited, Tasks
  <2>3. printed # <<>> /\ tuiOk => terminal = {}
    BY DEF ReportInv, PrintedInOrder, TerminalInStep, TuiPhase
  <2>4. \A k \in DOMAIN printed : printed[k] = [target |-> k, format |-> Format(config)]
    <3>1. printed \in Seq(Report) BY DEF ReportInv, PrintedInOrder
    <3>2. DOMAIN printed = 1..Len(printed) BY <3>1
    <3>3. QED BY <3>2, Zenon DEF ReportInv, PrintedInOrder
  <2>5. phase = "exited" => Len(printed) = Len(args.targets) /\ tuiOk
    BY DEF ReportInv, PrintedInOrder
  <2>6. QED BY <2>2, <2>3, <2>4, <2>5, Zenon DEF ReportsFinal
<1>2. QED BY ReportInvariant, <1>1, PTL

-----------------------------------------------------------------------------
(* The start: what the engines are given, and which tasks there are.       *)

Family == {"v4", "v6"}

Params ==
  [family: Family, protocol: Protocol, port: Port, size: Nat, timeout: Seconds,
   interval: Seconds, max_hops: 0..255, count: Nat \cup {None}, no_dns: BOOLEAN]

\* The configuration main works with, once the command line was accepted.
Ready == Valid(args) /\ config = Fallback(FromArgs(args), privileged)

ConfigMade ==
  /\ args \in CommandLines
  /\ privileged \in BOOLEAN
  /\ config = None \/ Ready
  /\ phase \notin {"args", "refused", "killed"} => Ready

\* The targets are looked up in order, all of them before the first engine.
FamiliesFound ==
  /\ family \in Seq(Family)
  /\ Len(family) <= Len(args.targets)
  /\ \A id \in 1..Len(family) : family[id] \in Families(args.targets[id], IpVersion(args))
  /\ phase = "args" => family = <<>>
  /\ phase = "resolve" => Len(family) < Len(args.targets)
  /\ phase = "engines" => Len(family) = Len(args.targets)

\* Engine id runs with the one configuration there is, at the address of its
\* own target.
StartedWith(id) ==
  /\ Ready
  /\ Representable(config)
  /\ started[id] = EngineParams(config, started[id].family)
  /\ id <= Len(args.targets) => id <= Len(family) /\ started[id].family = family[id]

\* The engines are started in the order of the targets, so that a target added
\* later has a number beyond those of the command line.
EnginesInOrder ==
  /\ started \in Seq(Params)
  /\ \A id \in 1..Len(started) : StartedWith(id)
  /\ phase \in StartPhase => Len(list) = Len(args.targets)
  /\ phase \in {"args", "resolve"} => started = <<>>
  /\ phase = "engines" => Len(started) < Len(args.targets)
  /\ phase = "dns" => Len(started) = Len(args.targets)
  /\ phase \in TuiPhase => Len(started) >= Len(args.targets)

\* A task belongs to a target that was started, and the second loop starts
\* other tasks than the first.
TasksKnown ==
  /\ running \cup broken \subseteq (1..Len(started)) \X Kind
  /\ phase \in StartPhase => running \cup broken \subseteq (1..Len(started)) \X {"engine"}
  /\ running \cap broken = {}
  /\ broken # {} => \E task \in broken : broken = {task}

StartInv == ConfigMade /\ FamiliesFound /\ EnginesInOrder /\ TasksKnown

startVars == <<args, privileged, config, family, started, running, broken>>

-----------------------------------------------------------------------------
(* The configuration.                                                      *)

LEMMA CommandLineTypes ==
  ASSUME args \in CommandLines
  PROVE  /\ args \in Args
         /\ Len(args.targets) \in Nat \ {0}
BY ProgramAssumption, SomeTarget

LEMMA PortTyped ==
  ASSUME args \in Args
  PROVE  FromArgs(args).port \in Port
<1>1. /\ DefaultPort["icmp"] = 0 /\ DefaultPort["udp"] = 33434
      /\ DefaultPort["tcp"] = 80 /\ DefaultPort["tcpconnect"] = 80
  BY DEF DefaultPort
<1>2. ProtocolOf(args) \in {"icmp", "udp", "tcp", "tcpconnect"}
  BY DEF Args, ProtocolOf, Protocol
<1>3. DefaultPort[ProtocolOf(args)] \in Port
  <2>1. 0 \in Port /\ 33434 \in Port /\ 80 \in Port BY DEF Port
  <2>2. CASE ProtocolOf(args) = "icmp" BY <1>1, <2>1, <2>2
  <2>3. CASE ProtocolOf(args) = "udp" BY <1>1, <2>1, <2>3
  <2>4. CASE ProtocolOf(args) \in {"tcp", "tcpconnect"} BY <1>1, <2>1, <2>4
  <2>5. QED BY <1>2, <2>2, <2>3, <2>4
<1>4. args.port \in Port \cup {None} BY DEF Args
<1>5. QED BY <1>3, <1>4 DEF FromArgs

LEMMA FromArgsTyped ==
  ASSUME args \in Args
  PROVE  FromArgs(args) \in Configs
<1>1. ProtocolOf(args) \in Protocol BY DEF Args, ProtocolOf, Protocol
<1>2. FromArgs(args).port \in Port BY PortTyped
<1>3. IpVersion(args) \in {"auto", "v4", "v6"} BY DEF IpVersion
<1>4. QED BY <1>1, <1>2, <1>3 DEF Args, Configs, FromArgs

LEMMA ConfigFields ==
  ASSUME args \in CommandLines, Ready
  PROVE  /\ config \in Configs
         /\ config.targets = args.targets
         /\ config.ip_version = IpVersion(args)
<1>1. args \in Args BY CommandLineTypes
<1>2. FromArgs(args) \in Configs BY <1>1, FromArgsTyped
<1>3. config \in Configs
  <2> DEFINE made == FromArgs(args)
  <2>1. 80 \in Port /\ "tcpconnect" \in Protocol /\ 1 \in 0..255 BY DEF Port, Protocol
  <2>2. \A port \in Port :
          [made EXCEPT !.protocol = "tcpconnect", !.max_hops = 1, !.port = port] \in Configs
    BY <1>2, <2>1 DEF Configs
  <2>3. (IF made.port = 0 THEN 80 ELSE made.port) \in Port
    BY <1>2, <2>1 DEF Configs
  <2>4. Fallback(made, privileged) \in Configs
    BY <1>2, <2>2, <2>3 DEF Fallback
  <2>5. QED BY <2>4 DEF Ready
<1>4. config.targets = args.targets /\ config.ip_version = IpVersion(args)
  BY <1>2 DEF Ready, Fallback, FromArgs, Configs
<1>5. QED BY <1>3, <1>4

LEMMA ParamsTyped ==
  ASSUME args \in CommandLines, Ready, NEW f \in Family
  PROVE  /\ EngineParams(config, f) \in Params
         /\ EngineParams(config, f).family = f
BY ConfigFields DEF EngineParams, Params, Configs

\* What the interface rebuilds for one more target is what it was given.
LEMMA SameParams ==
  ASSUME args \in CommandLines, Ready, NEW name, NEW f
  PROVE  EngineParams(ConfigFor(name, EngineConfig(config)), f) = EngineParams(config, f)
<1>1. DOMAIN config = {"targets", "interval", "timeout", "max_hops", "count", "size",
                       "protocol", "port", "report", "csv", "json", "no_dns", "ip_version"}
  BY ConfigFields DEF Configs
<1>2. \A field \in {"interval", "timeout", "max_hops", "count", "size", "protocol", "port",
                    "no_dns"} :
        ConfigFor(name, EngineConfig(config))[field] = config[field]
  BY <1>1 DEF ConfigFor, EngineConfig
<1>3. QED BY <1>2 DEF EngineParams

LEMMA FamiliesAreFamilies ==
  ASSUME NEW name, NEW version \in {"auto", "v4", "v6"}
  PROVE  Families(name, version) \subseteq Family
BY DEF Families, Family

-----------------------------------------------------------------------------
LEMMA InitStart == ProgramInit => StartInv
<1> SUFFICES ASSUME ProgramInit PROVE StartInv
  OBVIOUS
<1>1. /\ args \in CommandLines /\ privileged \in BOOLEAN /\ phase = "args" /\ config = None
      /\ family = <<>> /\ started = <<>> /\ running = {} /\ broken = {}
      /\ list = [i \in Initial |-> i]
  BY DEF ProgramInit
<1>2. Len(args.targets) \in Nat \ {0} /\ Initial = 1..Len(args.targets)
  BY <1>1, SomeTarget
<1>3. Len(list) = Len(args.targets) BY <1>1, <1>2
<1>4. ConfigMade BY <1>1 DEF ConfigMade
<1>5. FamiliesFound BY <1>1, <1>2 DEF FamiliesFound
<1>6. EnginesInOrder BY <1>1, <1>3 DEF EnginesInOrder, TuiPhase
<1>7. TasksKnown BY <1>1 DEF TasksKnown
<1>8. QED BY <1>4, <1>5, <1>6, <1>7 DEF StartInv

\* A step that starts nothing only has to go on to a phase that may follow.
LEMMA KeptStart ==
  ASSUME StartInv, UNCHANGED startVars,
         \/ phase' = phase /\ list' = list
         \/ phase \in TuiPhase /\ phase' \in TuiPhase \cup {"cancel"}
         \/ /\ phase \notin StartPhase \cup TuiPhase \cup {"refused", "killed"}
            /\ phase' \notin StartPhase \cup TuiPhase
         \/ phase' \in {"refused", "killed"}
         \/ phase \in {"resolve", "engines"} /\ phase' \in {"failed", "panicked"}
  PROVE  StartInv'
<1> USE DEF startVars, StartPhase, TuiPhase
<1>1. ConfigMade' BY DEF StartInv, ConfigMade, Ready
<1>2. FamiliesFound' BY DEF StartInv, FamiliesFound
<1>3. EnginesInOrder' BY DEF StartInv, EnginesInOrder, StartedWith, Ready
<1>4. TasksKnown' BY DEF StartInv, TasksKnown
<1>5. QED BY <1>1, <1>2, <1>3, <1>4 DEF StartInv

-----------------------------------------------------------------------------
(* The steps up to the interface.                                          *)

LEMMA AcceptStep ==
  ASSUME StartInv, AcceptArgs
  PROVE  StartInv'
<1>1. /\ phase = "args" /\ phase' = "resolve" /\ Valid(args)
      /\ config' = Fallback(FromArgs(args), privileged)
      /\ UNCHANGED <<args, privileged, family, started, running, broken, list>>
  BY DEF AcceptArgs, From, taskVars, listVars
<1>2. family = <<>> /\ started = <<>>
  BY <1>1 DEF StartInv, FamiliesFound, EnginesInOrder
<1>3. Len(args.targets) \in Nat \ {0} BY CommandLineTypes DEF StartInv, ConfigMade
<1>4. ConfigMade' BY <1>1 DEF StartInv, ConfigMade, Ready
<1>5. FamiliesFound' BY <1>1, <1>2, <1>3 DEF FamiliesFound
<1>6. EnginesInOrder' BY <1>1, <1>2 DEF StartInv, EnginesInOrder, StartPhase, TuiPhase
<1>7. TasksKnown' BY <1>1 DEF StartInv, TasksKnown, StartPhase
<1>8. QED BY <1>4, <1>5, <1>6, <1>7 DEF StartInv

LEMMA ResolveStep ==
  ASSUME StartInv, ResolveNext
  PROVE  StartInv'
<1>1. PICK f \in Families(config.targets[Len(family) + 1], config.ip_version) :
        /\ phase = "resolve"
        /\ family' = Append(family, f)
        /\ phase' = IF Len(family') = Len(list) THEN "engines" ELSE "resolve"
        /\ UNCHANGED <<args, privileged, config, started, running, broken, list>>
  BY DEF ResolveNext, taskVars, listVars
<1>2. /\ args \in CommandLines
      /\ Ready
  BY <1>1 DEF StartInv, ConfigMade
<1>3. f \in Families(args.targets[Len(family) + 1], IpVersion(args))
  BY <1>2, ConfigFields
<1>4. f \in Family
  BY <1>3, FamiliesAreFamilies DEF IpVersion
<1>5. /\ family \in Seq(Family) /\ Len(family) < Len(args.targets)
      /\ started = <<>> /\ Len(list) = Len(args.targets)
  BY <1>1 DEF StartInv, FamiliesFound, EnginesInOrder, StartPhase
<1>6. Len(args.targets) \in Nat \ {0} BY <1>2, CommandLineTypes
<1>7. /\ family' \in Seq(Family) /\ Len(family') = Len(family) + 1
      /\ \A id \in 1..Len(family) : family'[id] = family[id]
      /\ family'[Len(family) + 1] = f
  BY <1>1, <1>4, <1>5
<1>8. ConfigMade' BY <1>1 DEF StartInv, ConfigMade, Ready
<1>9. FamiliesFound'
  <2>1. ASSUME NEW id \in 1..Len(family')
        PROVE family'[id] \in Families(args.targets[id], IpVersion(args))
    <3>1. CASE id = Len(family) + 1 BY <3>1, <1>3, <1>7
    <3>2. CASE id # Len(family) + 1
      BY <3>2, <1>5, <1>7 DEF StartInv, FamiliesFound
    <3>3. QED BY <3>1, <3>2
  <2>2. QED BY <1>1, <1>5, <1>6, <1>7, <2>1 DEF FamiliesFound
<1>10. EnginesInOrder'
  BY <1>1, <1>5, <1>6 DEF EnginesInOrder, StartPhase, TuiPhase
<1>11. TasksKnown' BY <1>1 DEF StartInv, TasksKnown, StartPhase
<1>12. QED BY <1>8, <1>9, <1>10, <1>11 DEF StartInv

\* One more engine: those before keep what they run with.
LEMMA MoreStarted ==
  ASSUME StartInv, NEW p \in Params,
         started' = Append(started, p),
         UNCHANGED <<args, privileged, config, family>>,
         p = EngineParams(config, p.family), Ready, Representable(config),
         Len(started) + 1 <= Len(args.targets) =>
           Len(started) + 1 <= Len(family) /\ p.family = family[Len(started) + 1]
  PROVE  /\ started' \in Seq(Params)
         /\ Len(started') = Len(started) + 1
         /\ \A id \in 1..Len(started') : StartedWith(id)'
<1>1. /\ started \in Seq(Params)
      /\ \A id \in 1..Len(started) : StartedWith(id)
  BY DEF StartInv, EnginesInOrder
<1>2. /\ started' \in Seq(Params) /\ Len(started') = Len(started) + 1
      /\ \A id \in 1..Len(started) : started'[id] = started[id]
      /\ started'[Len(started) + 1] = p
  BY <1>1
<1>3. ASSUME NEW id \in 1..Len(started') PROVE StartedWith(id)'
  <2>1. CASE id = Len(started) + 1 BY <2>1, <1>2 DEF StartedWith, Ready
  <2>2. CASE id # Len(started) + 1
    <3>1. id \in 1..Len(started) BY <1>1, <1>2, <2>2
    <3>2. QED BY <3>1, <1>1, <1>2 DEF StartedWith, Ready
  <2>3. QED BY <2>1, <2>2
<1>4. QED BY <1>2, <1>3

LEMMA EngineStep ==
  ASSUME StartInv, SpawnEngine
  PROVE  StartInv'
<1> DEFINE id == Len(started) + 1
<1>1. /\ phase = "engines" /\ Representable(config)
      /\ started' = Append(started, EngineParams(config, family[id]))
      /\ running' = running \cup {<<id, "engine">>}
      /\ phase' = IF id = Len(list) THEN "dns" ELSE "engines"
      /\ UNCHANGED <<list, args, privileged, config, family, broken>>
  BY DEF SpawnEngine, inputVars
<1>2. args \in CommandLines /\ Ready BY <1>1 DEF StartInv, ConfigMade
<1>3. /\ started \in Seq(Params) /\ Len(started) < Len(args.targets)
      /\ Len(list) = Len(args.targets) /\ Len(family) = Len(args.targets)
      /\ family \in Seq(Family)
  BY <1>1 DEF StartInv, EnginesInOrder, FamiliesFound, StartPhase
<1>4. Len(args.targets) \in Nat \ {0} BY <1>2, CommandLineTypes
<1>5. id \in 1..Len(family) /\ family[id] \in Family BY <1>3, <1>4
<1>6. /\ started' \in Seq(Params) /\ Len(started') = Len(started) + 1
      /\ \A k \in 1..Len(started') : StartedWith(k)'
  BY <1>1, <1>2, <1>5, ParamsTyped, MoreStarted
<1>7. ConfigMade' BY <1>1 DEF StartInv, ConfigMade, Ready
<1>8. FamiliesFound' BY <1>1, <1>3 DEF StartInv, FamiliesFound
<1>9. EnginesInOrder'
  BY <1>1, <1>3, <1>4, <1>6 DEF EnginesInOrder, StartPhase, TuiPhase
<1>10. TasksKnown'
  <2>1. running \cup broken \subseteq (1..Len(started)) \X {"engine"}
    BY <1>1 DEF StartInv, TasksKnown, StartPhase
  <2>2. <<id, "engine">> \notin running \cup broken BY <1>3, <2>1
  <2>3. (1..Len(started)) \subseteq 1..Len(started') /\ id \in 1..Len(started')
    BY <1>3, <1>6
  <2>4. running' \cup broken' \subseteq (1..Len(started')) \X {"engine"}
    BY <1>1, <2>1, <2>3
  <2>5. running' \cup broken' \subseteq (1..Len(started')) \X Kind
    BY <2>4 DEF Kind
  <2>6. running' \cap broken' = {} /\ (broken' # {} => \E task \in broken' : broken' = {task})
    BY <1>1, <2>2 DEF StartInv, TasksKnown
  <2>7. QED BY <2>4, <2>5, <2>6 DEF TasksKnown
<1>11. QED BY <1>7, <1>8, <1>9, <1>10 DEF StartInv

LEMMA DnsStep ==
  ASSUME StartInv, SpawnDns
  PROVE  StartInv'
<1>1. /\ phase = "dns" /\ phase' \in {"joinEngines", "raw"}
      /\ running' = running \cup Tasks("dns")
      /\ UNCHANGED <<args, privileged, config, family, started, broken>>
  BY DEF SpawnDns, From, inputVars
<1>2. args \in CommandLines BY DEF StartInv, ConfigMade
<1>3. Len(args.targets) \in Nat \ {0} /\ Initial = 1..Len(args.targets)
  BY <1>2, SomeTarget
<1>4. Len(started) = Len(args.targets) BY <1>1 DEF StartInv, EnginesInOrder
<1>5. ConfigMade' BY <1>1 DEF StartInv, ConfigMade, Ready
<1>6. FamiliesFound' BY <1>1 DEF StartInv, FamiliesFound
<1>7. EnginesInOrder'
  BY <1>1, <1>3, <1>4 DEF StartInv, EnginesInOrder, StartedWith, Ready, StartPhase, TuiPhase
<1>8. TasksKnown'
  <2>1. Tasks("dns") \subseteq (1..Len(started)) \X {"dns"} BY <1>3, <1>4 DEF Tasks
  <2>2. running \cup broken \subseteq (1..Len(started)) \X {"engine"}
    BY <1>1 DEF StartInv, TasksKnown, StartPhase
  <2>3. Tasks("dns") \cap broken = {} BY <2>1, <2>2
  <2>4. running' \cup broken' \subseteq (1..Len(started')) \X Kind
    BY <1>1, <2>1, <2>2 DEF Kind
  <2>5. QED BY <1>1, <2>3, <2>4 DEF StartInv, TasksKnown, StartPhase
<1>9. QED BY <1>5, <1>6, <1>7, <1>8 DEF StartInv

-----------------------------------------------------------------------------
(* The interface, and the tasks.                                           *)

LEMMA AddStep ==
  ASSUME StartInv, TuiAdd
  PROVE  StartInv'
<1>1. PICK name \in Name :
        LET mine == ConfigFor(name, EngineConfig(config))
        IN  \E f \in Families(name, mine.ip_version) :
              started' = Append(started, EngineParams(mine, f))
  BY DEF TuiAdd
<1> DEFINE mine == ConfigFor(name, EngineConfig(config))
<1>2. PICK f \in Families(name, mine.ip_version) :
        started' = Append(started, EngineParams(mine, f))
  BY <1>1
<1>3. /\ phase = "tui" /\ phase' = "tui"
      /\ Last(list') = Len(started) + 1
      /\ running' = running \cup {<<Last(list'), kind>> : kind \in Kind}
      /\ UNCHANGED <<args, privileged, config, family, broken>>
  BY DEF TuiAdd, inputVars
<1>4. args \in CommandLines /\ Ready BY <1>3 DEF StartInv, ConfigMade
<1>5. Len(args.targets) \in Nat \ {0} BY <1>4, CommandLineTypes
<1>6. /\ started \in Seq(Params) /\ Len(started) >= Len(args.targets)
  BY <1>3 DEF StartInv, EnginesInOrder, TuiPhase
<1>7. f \in Family
  <2>1. mine.ip_version \in {"auto", "v4", "v6"}
    <3>1. config \in Configs BY <1>4, ConfigFields
    <3>2. QED BY <3>1 DEF ConfigFor, EngineConfig, Configs
  <2>2. QED BY <2>1, FamiliesAreFamilies
<1>8. started' = Append(started, EngineParams(config, f))
  BY <1>2, <1>4, SameParams
<1>9. Representable(config)
  BY <1>5, <1>6 DEF StartInv, EnginesInOrder, StartedWith
<1>10. /\ started' \in Seq(Params) /\ Len(started') = Len(started) + 1
       /\ \A k \in 1..Len(started') : StartedWith(k)'
  BY <1>3, <1>4, <1>5, <1>6, <1>7, <1>8, <1>9, ParamsTyped, MoreStarted
<1>11. ConfigMade' BY <1>3 DEF StartInv, ConfigMade, Ready
<1>12. FamiliesFound' BY <1>3 DEF StartInv, FamiliesFound
<1>13. EnginesInOrder'
  BY <1>3, <1>5, <1>6, <1>10 DEF EnginesInOrder, StartPhase, TuiPhase
<1>14. TasksKnown'
  <2>1. running \cup broken \subseteq (1..Len(started)) \X Kind
    BY DEF StartInv, TasksKnown
  <2>2. \A kind : <<Len(started) + 1, kind>> \notin broken BY <1>6, <2>1
  <2>3. (1..Len(started)) \subseteq 1..Len(started') /\ Len(started) + 1 \in 1..Len(started')
    BY <1>6, <1>10
  <2>4. running' \cup broken' \subseteq (1..Len(started')) \X Kind
    BY <1>3, <2>1, <2>3
  <2>5. running' \cap broken' = {} /\ (broken' # {} => \E task \in broken' : broken' = {task})
    BY <1>3, <2>2 DEF StartInv, TasksKnown
  <2>6. QED BY <1>3, <2>4, <2>5 DEF TasksKnown, StartPhase
<1>15. QED BY <1>11, <1>12, <1>13, <1>14 DEF StartInv

\* A task that ends or panics.
LEMMA EndStep ==
  ASSUME StartInv,
         \/ \E id \in Id : EngineEnds(id) \/ DnsEnds(id)
         \/ TaskPanics
  PROVE  StartInv'
<1>1. UNCHANGED <<phase, list, args, privileged, config, family, started>>
  BY DEF EngineEnds, DnsEnds, TaskPanics, Ends, inputVars, listVars
<1>2. PICK task \in running :
        /\ running' = running \ {task}
        /\ broken' # broken => broken = {} /\ broken' = {task}
  BY DEF EngineEnds, DnsEnds, TaskPanics, Ends
<1>3. ConfigMade' /\ FamiliesFound'
  BY <1>1 DEF StartInv, ConfigMade, FamiliesFound, Ready
<1>4. EnginesInOrder' BY <1>1 DEF StartInv, EnginesInOrder, StartedWith, Ready
<1>5. TasksKnown' BY <1>1, <1>2 DEF StartInv, TasksKnown
<1>6. QED BY <1>3, <1>4, <1>5 DEF StartInv

\* Every other step starts nothing.
LEMMA OtherStep ==
  ASSUME StartInv,
         \/ RefuseArgs \/ ResolveFails \/ EnginePanics
         \/ Setup \/ TuiChoose \/ TuiQuits \/ TuiSeesCancel \/ Restore
         \/ CancelTasks \/ JoinEngines \/ JoinDns \/ PrintNext \/ Interrupt
  PROVE  StartInv'
<1> USE DEF From, inputVars, taskVars, outputVars, listVars, startVars
<1>1. CASE RefuseArgs \/ ResolveFails \/ EnginePanics
  BY <1>1, KeptStart DEF RefuseArgs, ResolveFails, EnginePanics, StartPhase
<1>2. CASE Setup \/ TuiChoose \/ TuiQuits \/ TuiSeesCancel \/ Restore
  BY <1>2, KeptStart DEF Setup, EnterMode, SetupFails, TuiChoose, TuiQuits, TuiSeesCancel,
     Restore, LeaveMode, RestoreFails, TuiPhase
<1>3. CASE CancelTasks \/ JoinEngines \/ JoinDns \/ PrintNext
  BY <1>3, KeptStart DEF CancelTasks, JoinEngines, JoinDns, JoinNext, JoinFails, PrintNext,
     StartPhase, TuiPhase
<1>4. CASE Interrupt
  <2>1. CASE phase \in StartPhase
    BY <1>4, <2>1, KeptStart DEF Interrupt, StartPhase
  <2>2. CASE phase \notin StartPhase
    BY <1>4, <2>2, KeptStart DEF Interrupt, StartPhase, StopAll
  <2>3. QED BY <2>1, <2>2
<1>5. QED BY <1>1, <1>2, <1>3, <1>4

-----------------------------------------------------------------------------
\* The invariant of main's beginning: one configuration, one lookup per target
\* before any engine, and engines and tasks numbered by what was started.
THEOREM StartInvariant == ProgramSpec => []StartInv
<1>1. StartInv /\ [ProgramNext]_programVars => StartInv'
  <2> SUFFICES ASSUME StartInv, [ProgramNext]_programVars PROVE StartInv'
    OBVIOUS
  <2>1. CASE MainStep
    BY <2>1, AcceptStep, ResolveStep, EngineStep, DnsStep, OtherStep DEF MainStep
  <2>2. CASE TuiChoose \/ TuiQuits \/ Interrupt
    BY <2>2, OtherStep
  <2>3. CASE TuiAdd BY <2>3, AddStep
  <2>4. CASE (\E id \in Id : EngineEnds(id) \/ DnsEnds(id)) \/ TaskPanics
    BY <2>4, EndStep
  <2>5. CASE UNCHANGED programVars
    BY <2>5, KeptStart DEF programVars, startVars, inputVars, taskVars, listVars
  <2>6. QED BY <2>1, <2>2, <2>3, <2>4, <2>5 DEF ProgramNext
<1>2. QED BY InitStart, <1>1, PTL DEF ProgramSpec

LEMMA PortPositive ==
  ASSUME NEW port \in Port
  PROVE  (IF port = 0 THEN 80 ELSE port) > 0
<1>1. port \in Int /\ 0 <= port BY DEF Port
<1>2. CASE port = 0 BY <1>2
<1>3. CASE port # 0 BY <1>1, <1>3
<1>4. QED BY <1>2, <1>3

\* What one engine runs with, from the invariant.
LEMMA EngineRuns ==
  ASSUME StartInv, NEW id \in 1..Len(started)
  PROVE  LET p == started[id]
         IN  /\ Valid(args) /\ p.interval = "ordinary" /\ p.timeout = "ordinary"
             /\ p.protocol # "tcpconnect" => privileged
             /\ ~privileged /\ ProtocolOf(args) # "tcpconnect" => p.max_hops = 1 /\ p.port > 0
<1>1. args \in CommandLines /\ StartedWith(id)
  BY DEF StartInv, ConfigMade, EnginesInOrder
<1>2. Ready /\ Representable(config) BY <1>1 DEF StartedWith
<1>3. config \in Configs BY <1>1, <1>2, ConfigFields
<1>4. /\ started[id].interval = config.interval /\ started[id].timeout = config.timeout
      /\ started[id].protocol = config.protocol /\ started[id].max_hops = config.max_hops
      /\ started[id].port = config.port
  <2>1. started[id] = EngineParams(config, started[id].family) BY <1>1 DEF StartedWith
  <2>2. QED BY <2>1 DEF EngineParams
<1>5. config.protocol # "tcpconnect" => privileged
  BY <1>2, <1>3 DEF Ready, Fallback, FromArgs
<1>6. ~privileged /\ ProtocolOf(args) # "tcpconnect" => config.max_hops = 1 /\ config.port > 0
  <2>1. FromArgs(args).protocol = ProtocolOf(args) BY DEF FromArgs
  <2>2. FromArgs(args).port \in Port
    BY <1>1, CommandLineTypes, PortTyped
  <2>3. FromArgs(args) \in Configs BY <1>1, FromArgsTyped, CommandLineTypes
  <2>4. ASSUME ~privileged, ProtocolOf(args) # "tcpconnect"
        PROVE  /\ config.max_hops = 1
               /\ config.port = IF FromArgs(args).port = 0 THEN 80 ELSE FromArgs(args).port
    BY <1>2, <2>1, <2>3, <2>4 DEF Ready, Fallback, Configs
  <2>5. (IF FromArgs(args).port = 0 THEN 80 ELSE FromArgs(args).port) > 0
    BY <2>2, PortPositive
  <2>6. QED BY <2>4, <2>5
<1>7. QED BY <1>2, <1>4, <1>5, <1>6 DEF Ready, Representable

\* All engines run alike but for the address family.
LEMMA EnginesAlike ==
  ASSUME StartInv, NEW id \in 1..Len(started)
  PROVE  [started[id] EXCEPT !.family = "any"] = EngineParams(config, "any")
<1>1. started[id] = EngineParams(config, started[id].family)
  BY DEF StartInv, EnginesInOrder, StartedWith
<1>2. QED BY <1>1 DEF EngineParams

\* An engine only runs with what the command line, its checks and the fallback
\* allow, and one added at run time runs like the first (from_args, main,
\* spawn_target, TraceEngine::new).
THEOREM EnginesAlwaysRunnable == ProgramSpec => []EnginesRunnable
<1>1. StartInv => EnginesRunnable
  <2> SUFFICES ASSUME StartInv, NEW id \in DOMAIN started
               PROVE  LET p == started[id]
                      IN  /\ Valid(args) /\ p.interval = "ordinary" /\ p.timeout = "ordinary"
                          /\ p.protocol # "tcpconnect" => privileged
                          /\ ~privileged /\ ProtocolOf(args) # "tcpconnect" =>
                               p.max_hops = 1 /\ p.port > 0
                          /\ [p EXCEPT !.family = "any"] = [started[1] EXCEPT !.family = "any"]
                          /\ id \in Initial /\ MayFail(args.targets[id]) /\ args.ipv6 /\ ~args.ipv4 =>
                               p.family = "v6"
    BY DEF EnginesRunnable
  <2>1. started \in Seq(Params) /\ args \in CommandLines
    BY DEF StartInv, EnginesInOrder, ConfigMade
  <2>2. id \in 1..Len(started) /\ 1 \in 1..Len(started) BY <2>1
  <2>3. [started[id] EXCEPT !.family = "any"] = [started[1] EXCEPT !.family = "any"]
    BY <2>2, EnginesAlike
  <2>4. ASSUME id \in Initial, MayFail(args.targets[id]), args.ipv6, ~args.ipv4
        PROVE started[id].family = "v6"
    <3>1. id <= Len(args.targets) BY <2>1, <2>2, <2>4, SomeTarget
    <3>2. id \in 1..Len(family) /\ started[id].family = family[id]
      BY <2>2, <3>1 DEF StartInv, EnginesInOrder, StartedWith, FamiliesFound
    <3>3. family[id] \in Families(args.targets[id], IpVersion(args))
      BY <3>2 DEF StartInv, FamiliesFound
    <3>4. IpVersion(args) = "v6" BY <2>4 DEF IpVersion
    <3>5. QED BY <2>4, <3>2, <3>3, <3>4 DEF Families, MayFail
  <2>5. QED BY <2>2, <2>3, <2>4, EngineRuns
<1>2. QED BY StartInvariant, <1>1, PTL

\* The state of the program is well formed: in particular a task that panicked
\* does not run, no more than one did, and every task belongs to an engine that
\* was started.
THEOREM ProgramTypeCorrect == ProgramSpec => []ProgramTypeOK
<1>1. terminal \subseteq {"raw", "alternate"} /\ [ProgramNext]_programVars =>
        (terminal \subseteq {"raw", "alternate"})'
  BY DEF ProgramNext, MainStep, programVars, outputVars, From, RefuseArgs, AcceptArgs,
     ResolveNext, ResolveFails, SpawnEngine, EnginePanics, SpawnDns, Setup, EnterMode,
     SetupFails, TuiChoose, TuiAdd, TuiQuits, TuiSeesCancel, Restore, LeaveMode,
     RestoreFails, CancelTasks, JoinEngines, JoinDns, JoinNext, JoinFails, PrintNext,
     EngineEnds, DnsEnds, TaskPanics, Ends, Interrupt
<1>2. ProgramInit => terminal \subseteq {"raw", "alternate"}
  BY DEF ProgramInit
<1>3. StartInv /\ ReportInv /\ terminal \subseteq {"raw", "alternate"} => ProgramTypeOK
  <2> SUFFICES ASSUME StartInv, ReportInv, terminal \subseteq {"raw", "alternate"}
               PROVE ProgramTypeOK
    OBVIOUS
  <2>1. config \in Configs \cup {None}
    BY ConfigFields DEF StartInv, ConfigMade
  <2>2. \A task \in running \cup broken : task[1] \in DOMAIN started /\ task[2] \in Kind
    <3>1. DOMAIN started = 1..Len(started) BY DEF StartInv, EnginesInOrder
    <3>2. QED BY <3>1 DEF StartInv, TasksKnown
  <2>3. Cardinality(broken) <= 1
    <3>1. CASE broken = {} BY <3>1, FS_EmptySet
    <3>2. CASE broken # {}
      <4>1. PICK task : broken = {task} BY <3>2 DEF StartInv, TasksKnown
      <4>2. Cardinality(broken) = 1 BY <4>1, FS_Singleton, Zenon
      <4>3. QED BY <4>2
    <3>3. QED BY <3>1, <3>2
  <2>4. QED
    BY <2>1, <2>2, <2>3 DEF StartInv, FamiliesFound, TasksKnown, ReportInv, JoinedAreOver,
       ProgramTypeOK
<1>4. QED BY StartInvariant, ReportInvariant, <1>1, <1>2, <1>3, PTL DEF ProgramSpec

=============================================================================

------------------------------ MODULE Program ------------------------------
(***************************************************************************)
(* The life of the program (src/src/main.rs, run_tui and spawn_target in   *)
(* src/src/tui/mod.rs): the command line is read, the targets are looked   *)
(* up, two tasks per target are started, and then the program either waits *)
(* for its engines and reports, or runs the interface until the user or a  *)
(* signal ends it, joins the tasks it started itself and prints a summary. *)
(*                                                                         *)
(* A task is what TraceTarget promises of it: the engine ends at its count *)
(* or when its token fires, the other task may end early and ends when the *)
(* token fires (CountReached, CancelStopsBoth).  The interface is what     *)
(* TuiLoop implements: the list of targets of TargetList, of which only    *)
(* those in traced have a token that has not fired.                        *)
(***************************************************************************)
EXTENDS Config, TargetList, FiniteSets

CONSTANTS
  CommandLines   \* the command lines considered, all accepted by clap

\* clap requires a target.
ASSUME ProgramAssumption == CommandLines \subseteq {a \in Args : a.targets # <<>>}

VARIABLES
  phase,       \* where main is
  args,        \* the command line
  privileged,  \* check_privileges: raw sockets may be opened
  config,      \* None until it has been made
  family,      \* the families of the addresses looked up so far
  started,     \* the parameters each target's engine was started with
  running,     \* the tasks that run, as <<id, kind>>
  broken,      \* the tasks that panicked
  joined,      \* how many handles of the current loop main has awaited
  printed,     \* the reports on the terminal
  terminal,    \* the modes the terminal was put in
  tuiOk        \* run_tui has met no error

inputVars == <<args, privileged, config, family>>
taskVars == <<started, running, broken, joined>>
outputVars == <<printed, terminal, tuiOk>>
programVars == <<listVars, phase, inputVars, taskVars, outputVars>>

Kind == {"engine", "dns"}
Initial == DOMAIN args.targets
Final == {"exited", "failed", "refused", "panicked", "killed"}
Tasks(kind) == {<<id, kind>> : id \in Initial}

-----------------------------------------------------------------------------
\* One step of main that goes on to the given phase.
From(here, there) == phase = here /\ phase' = there

ProgramInit ==
  /\ args \in CommandLines
  /\ privileged \in BOOLEAN
  /\ phase = "args"
  /\ config = None
  /\ family = <<>>
  /\ started = <<>>
  /\ running = {}
  /\ broken = {}
  /\ joined = 0
  /\ printed = <<>>
  /\ terminal = {}
  /\ tuiOk = TRUE
  /\ list = [i \in Initial |-> i]
  /\ active = 0
  /\ traced = {}
  /\ stopped = FALSE

RefuseArgs ==
  /\ From("args", "refused")
  /\ ~Valid(args)
  /\ UNCHANGED <<listVars, inputVars, taskVars, outputVars>>

AcceptArgs ==
  /\ From("args", "resolve")
  /\ Valid(args)
  /\ config' = Fallback(FromArgs(args), privileged)
  /\ UNCHANGED <<listVars, args, privileged, family, taskVars, outputVars>>

\* The targets are looked up one after the other, before anything is started.
ResolveNext ==
  /\ phase = "resolve"
  /\ \E f \in Families(config.targets[Len(family) + 1], config.ip_version) :
       family' = Append(family, f)
  /\ phase' = IF Len(family') = Len(list) THEN "engines" ELSE "resolve"
  /\ UNCHANGED <<listVars, args, privileged, config, taskVars, outputVars>>

ResolveFails ==
  /\ From("resolve", "failed")
  /\ MayFail(config.targets[Len(family) + 1])
  /\ UNCHANGED <<listVars, inputVars, taskVars, outputVars>>

SpawnEngine ==
  /\ phase = "engines"
  /\ Representable(config)
  /\ LET id == Len(started) + 1
     IN  /\ started' = Append(started, EngineParams(config, family[id]))
         /\ running' = running \cup {<<id, "engine">>}
         /\ traced' = traced \cup {id}
         /\ phase' = IF id = Len(list) THEN "dns" ELSE "engines"
  /\ UNCHANGED <<list, active, stopped, inputVars, broken, joined, outputVars>>

\* TraceEngine::new panics in main itself.
EnginePanics ==
  /\ From("engines", "panicked")
  /\ ~Representable(config)
  /\ UNCHANGED <<listVars, inputVars, taskVars, outputVars>>

\* The tasks of the second loop, and the one that waits for Ctrl+C.
SpawnDns ==
  /\ From("dns", IF config.report THEN "joinEngines" ELSE "raw")
  /\ running' = running \cup Tasks("dns")
  /\ UNCHANGED <<listVars, inputVars, started, broken, joined, outputVars>>

-----------------------------------------------------------------------------
(* The interface.                                                          *)

\* setup_terminal is three calls, and nothing undoes what was done if a later
\* one fails.
EnterMode(here, there, modes) ==
  /\ From(here, there)
  /\ terminal' = terminal \cup modes
  /\ UNCHANGED <<listVars, inputVars, taskVars, printed, tuiOk>>

SetupFails ==
  /\ phase \in {"raw", "alternate", "backend"}
  /\ phase' = "cancel"
  /\ tuiOk' = FALSE
  /\ UNCHANGED <<listVars, inputVars, taskVars, printed, terminal>>

Setup ==
  \/ EnterMode("raw", "alternate", {"raw"})
  \/ EnterMode("alternate", "backend", {"alternate"})
  \/ EnterMode("backend", "tui", {})
  \/ SetupFails

TuiChoose ==
  /\ phase = "tui"
  /\ Select \/ RemoveActive
  /\ UNCHANGED <<phase, inputVars, taskVars, outputVars>>

\* spawn_target, once the name has been looked up: the tasks are detached, and
\* end at once if the global token has fired.
TuiAdd ==
  /\ phase = "tui"
  /\ Add
  /\ Last(list') = Len(started) + 1
  /\ \E name \in Name :
       LET mine == ConfigFor(name, EngineConfig(config))
       IN  \E f \in Families(name, mine.ip_version) :
             started' = Append(started, EngineParams(mine, f))
  /\ running' = running \cup {<<Last(list'), kind>> : kind \in Kind}
  /\ UNCHANGED <<phase, inputVars, broken, joined, outputVars>>

\* The user quits, or drawing or reading a key fails.
TuiQuits ==
  /\ From("tui", "restoreRaw")
  /\ tuiOk' \in BOOLEAN
  /\ UNCHANGED <<listVars, inputVars, taskVars, printed, terminal>>

TuiSeesCancel ==
  /\ From("tui", "restoreRaw")
  /\ stopped
  /\ UNCHANGED <<listVars, inputVars, taskVars, outputVars>>

\* restore_terminal, which stops at the first call that fails.
LeaveMode(here, there, modes) ==
  /\ From(here, there)
  /\ terminal' = terminal \ modes
  /\ UNCHANGED <<listVars, inputVars, taskVars, printed, tuiOk>>

RestoreFails ==
  /\ phase \in {"restoreRaw", "restoreAlternate", "restoreCursor"}
  /\ phase' = "cancel"
  /\ tuiOk' = FALSE
  /\ UNCHANGED <<listVars, inputVars, taskVars, printed, terminal>>

Restore ==
  \/ LeaveMode("restoreRaw", "restoreAlternate", {"raw"})
  \/ LeaveMode("restoreAlternate", "restoreCursor", {"alternate"})
  \/ LeaveMode("restoreCursor", "cancel", {})
  \/ RestoreFails

-----------------------------------------------------------------------------
(* The end: in report mode the engines are awaited before the token fires, *)
(* after the interface the token fires first.                              *)

\* Mutant: the interface returns without firing the token.
CancelTasksInReports ==
  /\ From("cancel", IF config.report THEN "joinDns" ELSE "joinEngines")
  /\ IF config.report THEN StopAll ELSE UNCHANGED listVars
  /\ UNCHANGED <<inputVars, taskVars, outputVars>>

CancelTasks ==
  /\ From("cancel", IF config.report THEN "joinDns" ELSE "joinEngines")
  /\ StopAll
  /\ UNCHANGED <<inputVars, taskVars, outputVars>>

\* Mutant: the second loop goes on counting where the first one ended.
JoinNextGoesOn(kind, there) ==
  LET task == <<joined + 1, kind>>
      more == joined + 1 < Len(args.targets)
  IN  /\ task \notin running
      /\ task \notin broken
      /\ joined' = joined + 1
      /\ phase' = IF more THEN phase ELSE there
      /\ UNCHANGED <<listVars, inputVars, started, running, broken, outputVars>>

\* The handles are awaited in order, and the first broken task ends main.
JoinNext(kind, there) ==
  LET task == <<joined + 1, kind>>
      more == joined + 1 < Len(args.targets)
  IN  /\ task \notin running
      /\ task \notin broken
      /\ joined' = IF more THEN joined + 1 ELSE 0
      /\ phase' = IF more THEN phase ELSE there
      /\ UNCHANGED <<listVars, inputVars, started, running, broken, outputVars>>

JoinFails(kind) ==
  /\ <<joined + 1, kind>> \in broken
  /\ phase' = "failed"
  /\ UNCHANGED <<listVars, inputVars, taskVars, outputVars>>

\* Mutant: the reports do not wait for the second task of a target.
JoinEnginesOnly ==
  /\ phase = "joinEngines"
  /\ JoinNext("engine", "print") \/ JoinFails("engine")

JoinEngines ==
  /\ phase = "joinEngines"
  /\ \/ JoinNext("engine", IF config.report THEN "cancel" ELSE "joinDns")
     \/ JoinFails("engine")

JoinDns ==
  /\ phase = "joinDns"
  /\ JoinNext("dns", "print") \/ JoinFails("dns")

\* The reports of the targets of the command line, whatever the list is now.
PrintNext ==
  /\ phase = "print"
  /\ printed' = Append(printed, [target |-> Len(printed) + 1, format |-> Format(config)])
  /\ phase' = IF Len(printed') < Len(args.targets) THEN "print"
              ELSE IF tuiOk THEN "exited" ELSE "failed"
  /\ UNCHANGED <<listVars, inputVars, taskVars, terminal, tuiOk>>

MainStep ==
  \/ RefuseArgs \/ AcceptArgs \/ ResolveNext \/ ResolveFails
  \/ SpawnEngine \/ EnginePanics \/ SpawnDns
  \/ Setup \/ TuiSeesCancel \/ Restore
  \/ CancelTasks \/ JoinEngines \/ JoinDns \/ PrintNext

-----------------------------------------------------------------------------
(* The tasks and the signal, while the program runs.                       *)

Alive == phase \notin Final

Ends(task) ==
  /\ Alive
  /\ task \in running
  /\ running' = running \ {task}
  /\ UNCHANGED <<listVars, phase, inputVars, started, joined, outputVars>>

\* It has run its rounds, or its token has fired.
EngineEnds(id) ==
  /\ Ends(<<id, "engine">>)
  /\ id \in traced => config.count # None
  /\ UNCHANGED broken

\* Its token has fired, it was not wanted, or there is no resolver.
DnsEnds(id) == Ends(<<id, "dns">>) /\ UNCHANGED broken

\* Fault: one task at most panics.
TaskPanics ==
  /\ broken = {}
  /\ \E task \in running : Ends(task) /\ broken' = {task}

\* Ctrl+C, or its signal: before the task that waits for it runs it kills.
Interrupt ==
  /\ Alive
  /\ IF phase \in {"args", "resolve", "engines", "dns"}
     THEN phase' = "killed" /\ UNCHANGED listVars
     ELSE StopAll /\ UNCHANGED phase
  /\ UNCHANGED <<inputVars, taskVars, outputVars>>

ProgramNext ==
  \/ MainStep
  \/ TuiChoose \/ TuiAdd \/ TuiQuits
  \/ \E id \in Id : EngineEnds(id) \/ DnsEnds(id)
  \/ TaskPanics
  \/ Interrupt

ProgramSpec == ProgramInit /\ [][ProgramNext]_programVars

\* The paused flag is never set in report mode, so a counted engine ends.
MustEnd(id) == id \in traced => config.report /\ config.count # None

\* Main goes on and so do the tasks that have to end.  The user owes nothing.
ProgramFairSpec ==
  /\ ProgramSpec
  /\ WF_programVars(MainStep)
  /\ \A id \in Id : /\ WF_programVars(EngineEnds(id) /\ MustEnd(id))
                    /\ WF_programVars(DnsEnds(id) /\ id \notin traced)

-----------------------------------------------------------------------------
(* Properties.                                                             *)

ProgramTypeOK ==
  /\ config \in Configs \cup {None}
  /\ Len(family) <= Len(args.targets)
  /\ \A task \in running \cup broken : task[1] \in DOMAIN started /\ task[2] \in Kind
  /\ running \cap broken = {}
  /\ Cardinality(broken) <= 1
  /\ joined < Len(args.targets)
  /\ terminal \subseteq {"raw", "alternate"}

\* An engine only runs with what the command line, its checks and the fallback
\* allow, and a target added at run time runs like the first ones: raw sockets
\* with the privilege only, otherwise one hop and a port to connect to unless
\* TCP connect was asked for, times that can be waited for, and a name that was
\* looked up has an address of the family that was forced (from_args, main,
\* spawn_target, TraceEngine::new).
EnginesRunnable ==
  \A id \in DOMAIN started :
    LET p == started[id]
    IN  /\ Valid(args) /\ p.interval = "ordinary" /\ p.timeout = "ordinary"
        /\ p.protocol # "tcpconnect" => privileged
        /\ ~privileged /\ ProtocolOf(args) # "tcpconnect" => p.max_hops = 1 /\ p.port > 0
        /\ [p EXCEPT !.family = "any"] = [started[1] EXCEPT !.family = "any"]
        /\ id \in Initial /\ MayFail(args.targets[id]) /\ args.ipv6 /\ ~args.ipv4 =>
             p.family = "v6"

\* A report is final: once the first is printed no task of the targets of the
\* command line runs or has panicked, so none of the records can change; they
\* come in the order of the command line, every one of them if the program
\* exits as it should, and on a terminal that was given back unless the
\* terminal itself had failed (main, run_tui).
ReportsFinal ==
  /\ printed # <<>> =>
       /\ (Tasks("engine") \cup Tasks("dns")) \cap (running \cup broken) = {}
       /\ tuiOk => terminal = {}
  /\ \A k \in DOMAIN printed : printed[k] = [target |-> k, format |-> Format(config)]
  /\ phase = "exited" => Len(printed) = Len(args.targets) /\ tuiOk

Over == phase \in Final

\* The program comes to an end once it was interrupted, once the interface was
\* left, and on its own with --count and a report, with or without a task that
\* panics on the way (main's joins and cancellation).
ProgramEnds ==
  /\ stopped ~> Over
  /\ phase = "restoreRaw" ~> Over
  /\ (config # None /\ config.report /\ config.count # None) ~> Over

=============================================================================

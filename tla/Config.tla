------------------------------- MODULE Config -------------------------------
(***************************************************************************)
(* How a command line becomes the parameters of the probing tasks          *)
(* (src/src/config.rs, the first half of main, EngineConfig in             *)
(* src/src/tui/mod.rs and TraceEngine::new).  A number of seconds is one   *)
(* of three kinds: not positive, which is refused; ordinary; or positive   *)
(* in no order or too large (NaN, infinity), which passes the checks but   *)
(* which Duration::from_secs_f64 cannot represent.                         *)
(***************************************************************************)
EXTENDS Integers, Sequences

CONSTANTS
  Name,        \* the targets the user may name
  Literal4,    \* those that are IPv4 addresses,
  Literal6,    \* or IPv6 addresses; the others are looked up
  None         \* Rust's None

ASSUME ConfigAssumption ==
  /\ Literal4 \cup Literal6 \subseteq Name
  /\ Literal4 \cap Literal6 = {}
  /\ None \notin Nat

Seconds == {"refused", "ordinary", "unrepresentable"}
Protocol == {"icmp", "udp", "tcp", "tcpconnect"}
Port == 0..65535

\* What clap hands over: the protocol flags exclude one another and are one
\* field here, -4 and -6 do not.
Args ==
  [targets: Seq(Name), interval: Seconds, timeout: Seconds, max_hops: 0..255,
   count: Nat \cup {None}, size: Nat, protocol: Protocol \cup {None},
   port: Port \cup {None}, report: BOOLEAN, csv: BOOLEAN, json: BOOLEAN,
   no_dns: BOOLEAN, ipv4: BOOLEAN, ipv6: BOOLEAN]

\* Config; the thresholds are HopView's constants.
Configs ==
  [targets: Seq(Name), interval: Seconds, timeout: Seconds, max_hops: 0..255,
   count: Nat \cup {None}, size: Nat, protocol: Protocol, port: Port,
   report: BOOLEAN, csv: BOOLEAN, json: BOOLEAN, no_dns: BOOLEAN,
   ip_version: {"auto", "v4", "v6"}]

Valid(args) ==
  /\ args.interval # "refused"
  /\ args.timeout # "refused"
  /\ args.size >= 28

ProtocolOf(args) == IF args.protocol = None THEN "icmp" ELSE args.protocol
DefaultPort == [icmp |-> 0, udp |-> 33434, tcp |-> 80, tcpconnect |-> 80]
IpVersion(args) == IF args.ipv4 THEN "v4" ELSE IF args.ipv6 THEN "v6" ELSE "auto"

\* Config::from_args, for valid arguments.
FromArgs(args) ==
  [targets |-> args.targets, interval |-> args.interval, timeout |-> args.timeout,
   max_hops |-> args.max_hops, count |-> args.count, size |-> args.size,
   protocol |-> ProtocolOf(args),
   port |-> IF args.port = None THEN DefaultPort[ProtocolOf(args)] ELSE args.port,
   report |-> args.report \/ args.csv \/ args.json,
   csv |-> args.csv, json |-> args.json, no_dns |-> args.no_dns,
   ip_version |-> IpVersion(args)]

\* Mutant: only the default protocol falls back.
FallbackOnlyIcmp(config, privileged) ==
  IF privileged \/ config.protocol # "icmp" THEN config
  ELSE [config EXCEPT !.protocol = "tcpconnect", !.max_hops = 1,
                      !.port = IF @ = 0 THEN 80 ELSE @]

\* main: without raw sockets every other protocol becomes TCP connect.
Fallback(config, privileged) ==
  IF privileged \/ config.protocol = "tcpconnect" THEN config
  ELSE [config EXCEPT !.protocol = "tcpconnect", !.max_hops = 1,
                      !.port = IF @ = 0 THEN 80 ELSE @]

-----------------------------------------------------------------------------
\* The families an address of the name may have; none if the lookup fails.
\* An address that is typed in is taken as it is, whatever was forced.
Families(name, version) ==
  IF name \in Literal4 THEN {"v4"}
  ELSE IF name \in Literal6 THEN {"v6"}
  ELSE IF version = "auto" THEN {"v4", "v6"} ELSE {version}

MayFail(name) == name \notin Literal4 \cup Literal6

\* EngineConfig::from_config: what the interface keeps for later targets.
EngineConfig(config) ==
  [f \in DOMAIN config \ {"targets", "report", "csv", "json"} |-> config[f]]

\* spawn_target rebuilds a configuration for one more target.
ConfigFor(name, engineConfig) ==
  [f \in DOMAIN engineConfig \cup {"targets", "report", "csv", "json"} |->
     IF f = "targets" THEN <<name>>
     ELSE IF f \in {"report", "csv", "json"} THEN FALSE ELSE engineConfig[f]]

\* TraceEngine::new and create_probe; it panics unless both times are durations.
Representable(config) ==
  config.interval = "ordinary" /\ config.timeout = "ordinary"

EngineParams(config, family) ==
  [family |-> family, protocol |-> config.protocol, port |-> config.port,
   size |-> config.size, timeout |-> config.timeout,
   interval |-> config.interval, max_hops |-> config.max_hops,
   count |-> config.count, no_dns |-> config.no_dns]

\* The format of the reports: CSV is asked for first, the TUI prints text.
Format(config) ==
  IF config.report /\ config.csv THEN "csv"
  ELSE IF config.report /\ config.json THEN "json" ELSE "text"

=============================================================================

----------------------------- MODULE MCProgram -----------------------------
(* Program with command lines that reach every check, default and format:   *)
(* the one-target ones in report mode, two of two targets, and two that     *)
(* open the interface, where a target may be added.                         *)
EXTENDS Program

CONSTANTS n1, n4, n6
MCName == {n1, n4, n6}

Plain ==
  [targets |-> <<n1>>, interval |-> "ordinary", timeout |-> "ordinary",
   max_hops |-> 30, count |-> None, size |-> 64, protocol |-> None,
   port |-> None, report |-> TRUE, csv |-> FALSE, json |-> FALSE,
   no_dns |-> FALSE, ipv4 |-> FALSE, ipv6 |-> FALSE]

MCCommandLines ==
  {Plain,
   [Plain EXCEPT !.interval = "refused"],
   [Plain EXCEPT !.timeout = "unrepresentable"],
   [Plain EXCEPT !.size = 27],
   [Plain EXCEPT !.protocol = "udp", !.size = 28, !.csv = TRUE, !.json = TRUE],
   [Plain EXCEPT !.protocol = "tcp", !.port = 0, !.json = TRUE, !.report = FALSE],
   [Plain EXCEPT !.protocol = "tcpconnect", !.ipv6 = TRUE],
   [Plain EXCEPT !.protocol = "icmp", !.ipv4 = TRUE, !.ipv6 = TRUE],
   [Plain EXCEPT !.targets = <<n1, n4>>, !.count = 1],
   [Plain EXCEPT !.targets = <<n6, n1>>, !.ipv6 = TRUE, !.no_dns = TRUE],
   [Plain EXCEPT !.targets = <<n1, n6>>, !.report = FALSE, !.ipv6 = TRUE],
   [Plain EXCEPT !.report = FALSE, !.count = 0, !.protocol = "udp"]}

=============================================================================

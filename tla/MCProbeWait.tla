---------------------------- MODULE MCProbeWait ----------------------------
(* ProbeWait with two engines that trace the same target, the second of which  *)
(* is one hop away from it and sends one probe.                                *)
EXTENDS ProbeWait

MCEngine == {1, 2}
MCDest == [e \in MCEngine |-> "t"]
MCPathLen == <<2, 1>>

Case(p, v6, draws, numbers) ==
  [protocol |-> p, ipv6 |-> v6, drawn |-> draws, maxNumber |-> numbers]

\* Answers late by a turn of the numbers; identifiers and ports that differ and
\* that do not; an IPv6 target whose port is one the parser misreads.
MCSettings ==
  {Case("icmp", {}, <<1, 2>>, <<3, 1>>),
   Case("icmp", {}, <<1, 1>>, <<1, 1>>),
   Case("tcp", {}, <<1, 2>>, <<3, 0>>),
   Case("tcp", {}, <<1, 2>>, <<1, 1>>),
   Case("tcp", {}, <<1, 3>>, <<1, 1>>),
   Case("tcp", {2}, <<1, 1>>, <<1, 1>>)}

\* Ports that differ and yet do not tell the answers apart.
MCPorts ==
  {Case("udp", {}, <<1, 2>>, <<3, 1>>), Case("tcp", {}, <<1, 2>>, <<2, 1>>)}

=============================================================================

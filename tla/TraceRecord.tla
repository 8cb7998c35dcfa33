---------------------------- MODULE TraceRecord ----------------------------
(***************************************************************************)
(* What a traced target's record promises to those who read it: whole      *)
(* rounds enter it one at a time, each of them a path that stops at the    *)
(* target or at max_hops; the number shown is that of the last round, or   *)
(* zero after a reset; a row is only ever named after its own address.     *)
(* The probes, the timers, the lookups and the cancellation are hidden.    *)
(***************************************************************************)
EXTENDS TraceState

VARIABLES
  hops,        \* the rows
  round,       \* the number shown
  total        \* the rounds recorded since the target was added

recordVars == <<hops, round, total>>

\* A path: only its last probe may come back from the target, and it stops
\* short of max_hops only there.
LegalRound(r) ==
  /\ Len(r) <= MaxHops
  /\ \A i \in 1..(Len(r) - 1) : r[i].addr # Target
  /\ Len(r) < MaxHops => Len(r) > 0 /\ r[Len(r)].addr = Target

Rounds == {r \in UNION {[1..n -> Outcome] : n \in 0..MaxHops} : LegalRound(r)}

Init ==
  /\ hops = <<>>
  /\ round = 0
  /\ total = 0

\* A whole round enters the record.
AddRoundOf(r) ==
  /\ total' = total + 1
  /\ UNCHANGED round
  /\ hops' = RecordRound(hops, r)

AddRound == \E r \in Rounds : AddRoundOf(r)

\* Its number is shown.
ShowRound ==
  /\ round' = total
  /\ UNCHANGED <<hops, total>>

\* The statistics start afresh; the paths and the names stay.
Clear ==
  /\ hops' = ResetHops(hops)
  /\ round' = 0
  /\ UNCHANGED total

\* A row without a name gets the name of its own address.
NameRow ==
  /\ \E i \in DOMAIN hops :
       /\ hops[i].addr # None
       /\ hops[i].hostname = None
       /\ hops' = [hops EXCEPT ![i].hostname = hops[i].addr]
  /\ UNCHANGED <<round, total>>

Next == AddRound \/ ShowRound \/ Clear \/ NameRow

Spec == Init /\ [][Next]_recordVars

=============================================================================

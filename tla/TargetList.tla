----------------------------- MODULE TargetList -----------------------------
(***************************************************************************)
(* What the user is promised about the targets on the screen: there is     *)
(* always one, exactly one of them is active, a new target becomes active, *)
(* removing takes the active one, and a target is being traced if and only *)
(* if it is listed, until the program is told to stop.                     *)
(***************************************************************************)
EXTENDS Integers, Sequences, SequencesExt

CONSTANTS
  Id           \* the targets that may ever be listed, in the order they come

VARIABLES
  list,        \* the targets on the screen, top to bottom
  active,      \* the index of the active one, from 0
  traced,      \* the targets whose tasks have not been told to stop
  stopped      \* the program has been told to stop

listVars == <<list, active, traced, stopped>>

Init ==
  /\ list \in {[i \in 1..n |-> i] : n \in Id}
  /\ active = 0
  /\ traced = ToSet(list)
  /\ stopped = FALSE

\* Up and Down.
Select ==
  /\ active' \in 0..(Len(list) - 1)
  /\ UNCHANGED <<list, traced, stopped>>

\* A target added while the program stops is never traced.
Add ==
  /\ \E id \in Id :
       /\ \A other \in ToSet(list) : other < id
       /\ list' = Append(list, id)
       /\ traced' = IF stopped THEN traced ELSE traced \cup {id}
  /\ active' = Len(list)
  /\ UNCHANGED stopped

RemoveActive ==
  /\ Len(list) > 1
  /\ list' = RemoveAt(list, active + 1)
  /\ traced' = traced \ {list[active + 1]}
  /\ active' = IF active < Len(list') THEN active ELSE Len(list') - 1
  /\ UNCHANGED stopped

\* The program stops tracing everything at once.
StopAll ==
  /\ stopped' = TRUE
  /\ traced' = {}
  /\ UNCHANGED <<list, active>>

Next == Select \/ Add \/ RemoveActive \/ StopAll

Spec == Init /\ [][Next]_listVars

=============================================================================

------------------------------ MODULE TuiLoop ------------------------------
(***************************************************************************)
(* The event loop of the interface and the application state it drives     *)
(* (AppState, the key handlers, run_event_loop and spawn_target in         *)
(* src/src/tui/mod.rs).  A turn of the loop reads the hop count of the     *)
(* active target, waits for a tick or for the global token, handles every  *)
(* key that is pending, and only then serves the requests those keys left: *)
(* reset, then add, which awaits a name lookup, then remove, then quit.    *)
(*                                                                         *)
(* The keys that only change the picture (help, chart) and the pause key,  *)
(* whose flag TraceEngine models, are left out, and so is the record of a  *)
(* target but for the number of its rows.  Indices start at 0, as in the   *)
(* code.                                                                   *)
(***************************************************************************)
EXTENDS Integers, Sequences, SequencesExt

CONSTANTS
  Names,       \* what the user may type for a new target
  NoName,      \* an empty input buffer, or no pending target
  MaxIds,      \* bound: the targets ever added, the initial ones included
  MaxRows      \* bound: the rows of a target's table

ASSUME TuiAssumption ==
  /\ NoName \notin Names
  /\ MaxIds \in Nat \ {0}
  /\ MaxRows \in Nat

Id == 1..MaxIds

VARIABLES
  states,           \* states: the listed targets, each with a number of its own
  cancels,          \* target_cancels: the targets whose tokens these are
  fired,            \* the targets whose tokens were cancelled one by one
  cancelled,        \* the global token, parent of all of them
  nextId,           \* the number the next new target gets
  rows,             \* the rows in each target's table
  pc,               \* where the loop is
  hopCount,         \* hop_count, read at the top of the turn
  active,           \* app.active_target
  targetCount,      \* app.target_count
  selectedHop,      \* app.selected_hop
  mode,             \* app.input_mode
  buffer,           \* app.input_buffer
  pending,          \* app.pending_target
  resetRequested,   \* app.reset_requested
  removeRequested,  \* app.remove_requested
  shouldQuit        \* app.should_quit

targetVars == <<states, cancels, fired, nextId>>
inputVars == <<mode, buffer, pending>>
requestVars == <<resetRequested, removeRequested, shouldQuit>>
selectVars == <<active, targetCount, selectedHop>>
appVars == <<inputVars, requestVars, selectVars>>
loopVars == <<targetVars, cancelled, rows, hopCount>>
vars == <<loopVars, pc, appVars>>

ActiveId == states[active + 1]

-----------------------------------------------------------------------------
\* main lists the targets of the command line and gives each a child token.
Init ==
  /\ states \in {[i \in 1..n |-> i] : n \in Id}
  /\ cancels = states
  /\ fired = {}
  /\ cancelled = FALSE
  /\ nextId = Len(states) + 1
  /\ rows = [id \in Id |-> 0]
  /\ pc = "frame"
  /\ hopCount = 0
  /\ active = 0
  /\ targetCount = Len(states)
  /\ selectedHop = 0
  /\ mode = "normal"
  /\ buffer = NoName
  /\ pending = NoName
  /\ resetRequested = FALSE
  /\ removeRequested = FALSE
  /\ shouldQuit = FALSE

-----------------------------------------------------------------------------
(* Keys in normal mode.  Each leaves the loop in its batch.                *)

InKeys(m) == pc = "keys" /\ mode = m

NextTarget ==
  /\ active' = (active + 1) % targetCount
  /\ selectedHop' = 0

\* Mutant: Up does not wrap around.
PrevTargetNoWrap ==
  /\ active' = active - 1
  /\ selectedHop' = 0

PrevTarget ==
  /\ active' = IF active = 0 THEN targetCount - 1 ELSE active - 1
  /\ selectedHop' = 0

\* Mutant: Down may step past the last row.
NextHopOver == IF selectedHop + 1 <= hopCount THEN selectedHop + 1 ELSE selectedHop

\* next_hop moves within the hop count it is handed, prev_hop stops at 0.
NextHop == IF selectedHop + 1 < hopCount THEN selectedHop + 1 ELSE selectedHop
PrevHop == IF selectedHop > 0 THEN selectedHop - 1 ELSE 0

KeyTarget ==
  /\ InKeys("normal")
  /\ NextTarget \/ PrevTarget
  /\ UNCHANGED <<loopVars, pc, inputVars, requestVars, targetCount>>

KeyHop ==
  /\ InKeys("normal")
  /\ selectedHop' \in {NextHop, PrevHop}
  /\ UNCHANGED <<loopVars, pc, inputVars, requestVars, active, targetCount>>

KeyReset ==
  /\ InKeys("normal")
  /\ resetRequested' = TRUE
  /\ UNCHANGED <<loopVars, pc, inputVars,
                 removeRequested, shouldQuit, selectVars>>

\* The last target is never offered for removal.
KeyRemove ==
  /\ InKeys("normal")
  /\ targetCount > 1
  /\ removeRequested' = TRUE
  /\ UNCHANGED <<loopVars, pc, inputVars,
                 resetRequested, shouldQuit, selectVars>>

KeyAdd ==
  /\ InKeys("normal")
  /\ mode' = "add"
  /\ buffer' = NoName
  /\ UNCHANGED <<loopVars, pc, pending, requestVars, selectVars>>

\* q and Esc in normal mode, Ctrl+C in both.
KeyQuit ==
  /\ pc = "keys"
  /\ shouldQuit' = TRUE
  /\ UNCHANGED <<loopVars, pc, inputVars,
                 resetRequested, removeRequested, selectVars>>

-----------------------------------------------------------------------------
(* Keys while a target is typed.                                           *)

\* Characters and Backspace: the buffer holds a part of a name, or nothing.
KeyType ==
  /\ InKeys("add")
  /\ buffer' \in Names \cup {NoName}
  /\ UNCHANGED <<loopVars, pc, mode, pending, requestVars, selectVars>>

KeyEsc ==
  /\ InKeys("add")
  /\ mode' = "normal"
  /\ buffer' = NoName
  /\ UNCHANGED <<loopVars, pc, pending, requestVars, selectVars>>

\* Mutant: an empty buffer takes back what was submitted before it.
SubmittedAlways == buffer

\* An empty buffer submits nothing.
Submitted == IF buffer # NoName THEN buffer ELSE pending

KeyEnter ==
  /\ InKeys("add")
  /\ pending' = Submitted
  /\ mode' = "normal"
  /\ buffer' = NoName
  /\ UNCHANGED <<loopVars, pc, requestVars, selectVars>>

Key ==
  \/ KeyTarget \/ KeyHop \/ KeyReset \/ KeyRemove \/ KeyAdd \/ KeyQuit
  \/ KeyType \/ KeyEsc \/ KeyEnter

-----------------------------------------------------------------------------
(* The turn of the loop.                                                   *)

\* Top of the turn: the hop count of the active target, and the drawing.
Frame ==
  /\ pc = "frame"
  /\ hopCount' = rows[ActiveId]
  /\ pc' = "select"
  /\ UNCHANGED <<targetVars, cancelled, rows, appVars>>

\* The tick fires: handle every key that is pending.
Tick ==
  /\ pc = "select"
  /\ pc' = "keys"
  /\ UNCHANGED <<loopVars, appVars>>

\* The global token fires.
SeeCancel ==
  /\ pc = "select"
  /\ cancelled
  /\ pc' = "exited"
  /\ UNCHANGED <<loopVars, appVars>>

EndKeys ==
  /\ pc = "keys"
  /\ pc' = "reset"
  /\ UNCHANGED <<loopVars, appVars>>

\* reset_all of TraceEngine, on the target that is active by now.
ServeReset ==
  /\ pc = "reset"
  /\ resetRequested' = FALSE
  /\ pc' = "pending"
  /\ UNCHANGED <<loopVars, inputVars, removeRequested, shouldQuit, selectVars>>

\* pending_target.take(): with a name, spawn_target awaits its address.
TakePending ==
  /\ pc = "pending"
  /\ pending' = NoName
  /\ pc' = IF pending = NoName THEN "remove" ELSE "resolving"
  /\ UNCHANGED <<loopVars, mode, buffer, requestVars, selectVars>>

ResolveFails ==
  /\ pc = "resolving"
  /\ pc' = "remove"
  /\ UNCHANGED <<loopVars, appVars>>

\* Mutant: target_count is not brought up to date.
AddResolvedStaleCount ==
  /\ states' = Append(states, nextId)
  /\ cancels' = Append(cancels, nextId)
  /\ nextId' = nextId + 1
  /\ active' = Len(states') - 1
  /\ selectedHop' = 0
  /\ UNCHANGED targetCount

\* spawn_target lists the new target and its token, and makes it active.
AddResolved ==
  /\ states' = Append(states, nextId)
  /\ cancels' = Append(cancels, nextId)
  /\ nextId' = nextId + 1
  /\ targetCount' = Len(states')
  /\ active' = Len(states') - 1
  /\ selectedHop' = 0

ResolveSucceeds ==
  /\ pc = "resolving"
  /\ nextId <= MaxIds
  /\ AddResolved
  /\ pc' = "remove"
  /\ UNCHANGED <<fired, cancelled, rows, hopCount, inputVars, requestVars>>

\* Mutant: the active index is not clamped.
RemoveAtActiveUnclamped ==
  /\ fired' = fired \cup {cancels[active + 1]}
  /\ states' = RemoveAt(states, active + 1)
  /\ cancels' = RemoveAt(cancels, active + 1)
  /\ targetCount' = Len(states')
  /\ selectedHop' = 0
  /\ UNCHANGED active

\* Mutant: the token stays on its list.
RemoveAtActiveKeepsToken ==
  /\ fired' = fired \cup {cancels[active + 1]}
  /\ states' = RemoveAt(states, active + 1)
  /\ targetCount' = Len(states')
  /\ active' = IF active >= Len(states') THEN Len(states') - 1 ELSE active
  /\ selectedHop' = 0
  /\ UNCHANGED cancels

\* Cancel the token of the active target and take both off their lists.
RemoveAtActive ==
  /\ fired' = fired \cup {cancels[active + 1]}
  /\ states' = RemoveAt(states, active + 1)
  /\ cancels' = RemoveAt(cancels, active + 1)
  /\ targetCount' = Len(states')
  /\ active' = IF active >= Len(states') THEN Len(states') - 1 ELSE active
  /\ selectedHop' = 0

ServeRemove ==
  /\ pc = "remove"
  /\ removeRequested' = FALSE
  /\ pc' = "end"
  /\ UNCHANGED <<cancelled, nextId, rows, hopCount, inputVars,
                 resetRequested, shouldQuit>>
  /\ IF removeRequested /\ Len(states) > 1
     THEN RemoveAtActive
     ELSE UNCHANGED <<states, cancels, fired, selectVars>>

\* Mutant: a quit asked for while a target was typed is forgotten.
EndTurnNormalOnly ==
  /\ pc = "end"
  /\ pc' = IF shouldQuit /\ mode = "normal" THEN "exited" ELSE "frame"
  /\ UNCHANGED <<loopVars, appVars>>

\* run_tui returns, and main cancels the global token.
EndTurn ==
  /\ pc = "end"
  /\ pc' = IF shouldQuit THEN "exited" ELSE "frame"
  /\ UNCHANGED <<loopVars, appVars>>

\* Drawing, polling or reading fails, and `?` leaves the loop.
TerminalFails ==
  /\ pc \in {"frame", "keys"}
  /\ pc' = "exited"
  /\ UNCHANGED <<loopVars, appVars>>

LoopStep ==
  \/ Frame \/ Tick \/ SeeCancel \/ EndKeys \/ ServeReset \/ TakePending
  \/ ResolveFails \/ ResolveSucceeds \/ ServeRemove \/ EndTurn

-----------------------------------------------------------------------------
(* The others: the engines fill the tables, a signal or main cancels.      *)

\* A round of a listed target reaches farther than any before it.
GrowTable ==
  /\ \E id \in ToSet(states), n \in 1..MaxRows :
       /\ rows[id] < n
       /\ rows' = [rows EXCEPT ![id] = n]
  /\ UNCHANGED <<targetVars, cancelled, pc, hopCount, appVars>>

CancelAll ==
  /\ ~cancelled
  /\ cancelled' = TRUE
  /\ UNCHANGED <<targetVars, rows, pc, hopCount, appVars>>

Next == Key \/ LoopStep \/ TerminalFails \/ GrowTable \/ CancelAll

Spec == Init /\ [][Next]_vars

\* The ticks come, a batch of keys ends, and a name lookup returns.  Between a
\* tick and a fired token the loop may pick the tick only so often.
FairSpec ==
  /\ Spec
  /\ WF_vars(LoopStep)
  /\ SF_vars(SeeCancel)

-----------------------------------------------------------------------------
(* Properties.                                                             *)

TypeOK ==
  /\ states \in Seq(Id)
  /\ cancels \in Seq(Id)
  /\ fired \subseteq Id
  /\ cancelled \in BOOLEAN
  /\ nextId \in 1..(MaxIds + 1)
  /\ rows \in [Id -> 0..MaxRows]
  /\ pc \in {"frame", "select", "keys", "reset", "pending", "resolving",
             "remove", "end", "exited"}
  /\ hopCount \in 0..MaxRows
  /\ active \in Nat
  /\ targetCount \in Nat
  /\ selectedHop \in Nat
  /\ mode \in {"normal", "add"}
  /\ buffer \in Names \cup {NoName}
  /\ pending \in Names \cup {NoName}
  /\ resetRequested \in BOOLEAN
  /\ removeRequested \in BOOLEAN
  /\ shouldQuit \in BOOLEAN

\* The list is never empty, the active index is always in it (states[active]
\* and target_cancels[active] would panic), and the count the arrow keys wrap
\* around is its length (next_target, prev_target, run_event_loop).
IndexInList == active < Len(states) /\ targetCount = Len(states)

\* The two parallel lists stay in step, and a target runs if and only if it is
\* listed: removing one stops its own tasks and nobody else's (target_cancels
\* in run_event_loop).
TokensAligned ==
  /\ cancels = states
  /\ \A id \in Id : id < nextId => (id \in fired <=> id \notin ToSet(states))

\* The loop implements the list of targets the user is promised.
List ==
  INSTANCE TargetList WITH
    list <- states,
    traced <- IF cancelled THEN {} ELSE (1..(nextId - 1)) \ fired,
    stopped <- cancelled
ListSpec == List!Spec

\* A quit is served, whatever else the user asked for before or after it, and
\* so is the global token.
QuitServed == (shouldQuit \/ cancelled) ~> (pc = "exited")

\* What a batch of keys asks for is served in the same turn, so that no request
\* is left for a later one; a submitted name is given up only to be looked up,
\* or to a later one of the same batch (handle_input_mode_key, run_event_loop).
RequestsServed ==
  [][/\ pc' = "frame" => pending' = NoName /\ ~resetRequested' /\ ~removeRequested'
     /\ pending # NoName /\ pending' # pending =>
          IF pc = "keys" THEN pending' # NoName ELSE pc' = "resolving"]_vars

\* The selected hop is a row of some table on the screen's list so far, be it
\* another target's than the active one: the count it is moved within was read
\* before the keys of the batch (next_hop, run_event_loop).
SelectionOfSomeTable ==
  selectedHop = 0 \/ \E id \in 1..(nextId - 1) : selectedHop < rows[id]

=============================================================================

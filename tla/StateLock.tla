----------------------------- MODULE StateLock -----------------------------
(***************************************************************************)
(* Who holds the RwLock of a target's record, and who waits for it.  The   *)
(* event loop (run_event_loop in src/src/tui/mod.rs) draws a frame under a *)
(* read guard on the active target, and for each row of the target list    *)
(* build_target_list_rows takes one more; the engine and the DNS task of   *)
(* each target write under its lock, and the DNS task also reads.          *)
(*                                                                         *)
(* The lock is parking_lot's: a writer first claims it, which makes every  *)
(* later reader wait, and then lets the readers inside drain.  A thread    *)
(* that waits is blocked, it does not yield to its runtime.                *)
(***************************************************************************)
EXTENDS Integers, FiniteSets

CONSTANTS
  NTargets     \* how many targets are listed

ASSUME LockAssumption == NTargets \in Nat \ {0}

VARIABLES
  claim,       \* which thread has claimed the lock of a target for writing
  readers,     \* how many read guards are out on the lock of a target
  record,      \* the parity of the number of writes to a target's record
  taskPc,      \* where the engine and the DNS task of a target are
  tuiPc,       \* where the event loop is
  active,      \* app.active_target
  row,         \* the row of the target list being built
  resetting,   \* app.reset_requested
  quitKey,     \* the user has pressed q
  shouldQuit   \* app.should_quit

lockVars == <<claim, readers, record>>
tuiVars == <<tuiPc, active, row, resetting, shouldQuit>>
vars == <<lockVars, taskPc, tuiVars, quitKey>>

Targets == 1..NTargets
Task == {"engine", "dns"}
Free == "free"

-----------------------------------------------------------------------------
(* The lock.                                                               *)

CanRead(i) == claim[i] = Free

ReadLock(i) ==
  /\ CanRead(i)
  /\ readers' = [readers EXCEPT ![i] = @ + 1]
  /\ UNCHANGED <<claim, record>>

ReadUnlock(i) ==
  /\ readers' = [readers EXCEPT ![i] = @ - 1]
  /\ UNCHANGED <<claim, record>>

Claim(i, who) ==
  /\ claim[i] = Free
  /\ claim' = [claim EXCEPT ![i] = who]
  /\ UNCHANGED <<readers, record>>

\* Once the last reader is out: the write section, and the end of the claim.
WriteSection(i, who) ==
  /\ claim[i] = who
  /\ readers[i] = 0
  /\ record' = [record EXCEPT ![i] = 1 - @]
  /\ claim' = [claim EXCEPT ![i] = Free]
  /\ UNCHANGED readers

-----------------------------------------------------------------------------
Init ==
  /\ claim = [i \in Targets |-> Free]
  /\ readers = [i \in Targets |-> 0]
  /\ record = [i \in Targets |-> 0]
  /\ taskPc = [i \in Targets |-> [k \in Task |-> "idle"]]
  /\ tuiPc = "frame"
  /\ active = 1
  /\ row = 1
  /\ resetting = FALSE
  /\ quitKey = FALSE
  /\ shouldQuit = FALSE

At(i, k, from) == taskPc[i][k] = from
Goto(i, k, to) == taskPc' = [taskPc EXCEPT ![i][k] = to]

\* The engine has a round to record or to number, the DNS task a name.
WantWrite(i, k) ==
  /\ At(i, k, "idle")
  /\ Goto(i, k, "wanting")
  /\ UNCHANGED <<lockVars, tuiVars, quitKey>>

ClaimWrite(i, k) ==
  /\ At(i, k, "wanting")
  /\ Claim(i, k)
  /\ Goto(i, k, "claimed")
  /\ UNCHANGED <<tuiVars, quitKey>>

\* Mutant: the guard lives on after the write section, across the next await.
DoWriteHolds(i, k) ==
  /\ At(i, k, "claimed")
  /\ claim[i] = k
  /\ readers[i] = 0
  /\ record' = [record EXCEPT ![i] = 1 - @]
  /\ Goto(i, k, "idle")
  /\ UNCHANGED <<claim, readers, tuiVars, quitKey>>

DoWrite(i, k) ==
  /\ At(i, k, "claimed")
  /\ WriteSection(i, k)
  /\ Goto(i, k, "idle")
  /\ UNCHANGED <<tuiVars, quitKey>>

\* The DNS task collects rows.
DnsRead(i) ==
  /\ At(i, "dns", "idle")
  /\ ReadLock(i)
  /\ Goto(i, "dns", "reading")
  /\ UNCHANGED <<tuiVars, quitKey>>

DnsUnread(i) ==
  /\ At(i, "dns", "reading")
  /\ ReadUnlock(i)
  /\ Goto(i, "dns", "idle")
  /\ UNCHANGED <<tuiVars, quitKey>>

TaskProgress(i, k) ==
  \/ ClaimWrite(i, k) \/ DoWrite(i, k)
  \/ k = "dns" /\ DnsUnread(i)

-----------------------------------------------------------------------------
(* The event loop.                                                         *)

\* Mutant: the guard is dropped as soon as the hop count is read.
OpenFrameUnguarded ==
  /\ tuiPc = "frame"
  /\ CanRead(active)
  /\ row' = 1
  /\ tuiPc' \in {"rows", "skip"}
  /\ UNCHANGED <<lockVars, taskPc, active, resetting, shouldQuit, quitKey>>

\* The guard of the frame lives until the drop after the drawing; when there
\* is nothing new to draw it is dropped at once.
OpenFrame ==
  /\ tuiPc = "frame"
  /\ ReadLock(active)
  /\ row' = 1
  /\ tuiPc' \in {"rows", "skip"}
  /\ UNCHANGED <<taskPc, active, resetting, shouldQuit, quitKey>>

\* Mutant: a frame that is not drawn keeps its guard.
SkipDrawLeaks ==
  /\ tuiPc = "skip"
  /\ tuiPc' = "select"
  /\ UNCHANGED <<lockVars, taskPc, active, row, resetting, shouldQuit, quitKey>>

SkipDraw ==
  /\ tuiPc = "skip"
  /\ ReadUnlock(active)
  /\ tuiPc' = "select"
  /\ UNCHANGED <<taskPc, active, row, resetting, shouldQuit, quitKey>>

\* The row of each target reads that target's record once more, and this is
\* the active target's second guard when its own turn comes.
OpenRow ==
  /\ tuiPc = "rows"
  /\ row \in Targets
  /\ ReadLock(row)
  /\ tuiPc' = "row"
  /\ UNCHANGED <<taskPc, active, row, resetting, shouldQuit, quitKey>>

\* Mutant: the guard of a row is returned twice.
CloseRowTwice ==
  /\ tuiPc = "row"
  /\ readers' = [readers EXCEPT ![row] = @ - 2]
  /\ row' = row + 1
  /\ tuiPc' = "rows"
  /\ UNCHANGED <<claim, record, taskPc, active, resetting, shouldQuit, quitKey>>

CloseRow ==
  /\ tuiPc = "row"
  /\ ReadUnlock(row)
  /\ row' = row + 1
  /\ tuiPc' = "rows"
  /\ UNCHANGED <<taskPc, active, resetting, shouldQuit, quitKey>>

\* Mutant: the guard outlives the drawing (no drop before the select).
CloseFrameKeepsGuard ==
  /\ tuiPc = "rows"
  /\ row > NTargets
  /\ tuiPc' = "select"
  /\ UNCHANGED <<lockVars, taskPc, active, row, resetting, shouldQuit, quitKey>>

\* The frame is done, or the terminal fails and `?` drops the guard as well.
CloseFrame ==
  /\ tuiPc = "rows"
  /\ row > NTargets
  /\ ReadUnlock(active)
  /\ tuiPc' \in {"select", "exited"}
  /\ UNCHANGED <<taskPc, active, row, resetting, shouldQuit, quitKey>>

\* A tick: the pending keys may select another target, ask for a reset or ask
\* to quit.
TakeKeys ==
  /\ tuiPc = "select"
  /\ active' \in Targets
  /\ resetting' \in BOOLEAN
  /\ shouldQuit' = quitKey
  /\ tuiPc' = IF resetting' THEN "reset" ELSE "end"
  /\ UNCHANGED <<lockVars, taskPc, row, quitKey>>

\* The global token fires, or polling or reading a key fails.
Leave ==
  /\ tuiPc = "select"
  /\ tuiPc' = "exited"
  /\ UNCHANGED <<lockVars, taskPc, active, row, resetting, shouldQuit, quitKey>>

\* state.write().reset_all()
ClaimReset ==
  /\ tuiPc = "reset"
  /\ Claim(active, "tui")
  /\ tuiPc' = "resetting"
  /\ UNCHANGED <<taskPc, active, row, resetting, shouldQuit, quitKey>>

DoReset ==
  /\ tuiPc = "resetting"
  /\ WriteSection(active, "tui")
  /\ resetting' = FALSE
  /\ tuiPc' = "end"
  /\ UNCHANGED <<taskPc, active, row, shouldQuit, quitKey>>

EndTurn ==
  /\ tuiPc = "end"
  /\ tuiPc' = IF shouldQuit THEN "exited" ELSE "frame"
  /\ UNCHANGED <<lockVars, taskPc, active, row, resetting, shouldQuit, quitKey>>

TuiStep ==
  \/ OpenFrame \/ SkipDraw \/ OpenRow \/ CloseRow \/ CloseFrame
  \/ TakeKeys \/ Leave \/ ClaimReset \/ DoReset \/ EndTurn

\* The user asks to quit.
PressQuit ==
  /\ ~quitKey
  /\ quitKey' = TRUE
  /\ UNCHANGED <<lockVars, taskPc, tuiVars>>

Next ==
  \/ \E i \in Targets, k \in Task : WantWrite(i, k) \/ TaskProgress(i, k)
  \/ \E i \in Targets : DnsRead(i)
  \/ TuiStep
  \/ PressQuit

Spec == Init /\ [][Next]_vars

\* A thread that can go on does; a lock that is contended again and again
\* still lets every waiter in (parking_lot hands over fairly now and then).
FairSpec ==
  /\ Spec
  /\ SF_vars(TuiStep)
  /\ \A i \in Targets, k \in Task : SF_vars(TaskProgress(i, k))

-----------------------------------------------------------------------------
(* Properties.                                                             *)

TypeOK ==
  /\ claim \in [Targets -> Task \cup {"tui", Free}]
  /\ readers \in [Targets -> Nat]
  /\ record \in [Targets -> {0, 1}]
  /\ taskPc \in [Targets -> [Task -> {"idle", "wanting", "claimed", "reading"}]]
  /\ tuiPc \in {"frame", "skip", "rows", "row", "select", "reset", "resetting", "end", "exited"}
  /\ active \in Targets
  /\ row \in 1..(NTargets + 1)
  /\ resetting \in BOOLEAN
  /\ quitKey \in BOOLEAN
  /\ shouldQuit \in BOOLEAN

Drawing == tuiPc \in {"skip", "rows", "row"}

\* The guards the event loop has out on target i.
TuiGuards(i) ==
  (IF Drawing /\ i = active THEN 1 ELSE 0) + (IF tuiPc = "row" /\ i = row THEN 1 ELSE 0)

\* Every guard that is out belongs to someone who will return it: nothing is
\* leaked when a frame is skipped, and between frames the event loop holds
\* no guard at all, so a reset never waits for the guard of its own thread.
GuardsAccounted ==
  \A i \in Targets :
    readers[i] = TuiGuards(i) + (IF At(i, "dns", "reading") THEN 1 ELSE 0)

\* A frame is drawn from one state of the active target: the hop table, the
\* chart and the target's own row never mix two rounds.
FrameIsConsistent ==
  [][Drawing /\ Drawing' => record'[active] = record[active]]_vars

\* The event loop is waiting for a writer that waits for the event loop.
SelfDeadlock ==
  /\ tuiPc = "rows"
  /\ row = active
  /\ claim[active] # Free

\* Short of that deadlock a frame always comes to an end, a reset gets its
\* lock, and `q` quits.
QuitOrSelfDeadlock == quitKey ~> (tuiPc = "exited" \/ SelfDeadlock)

\* The tasks of the targets that are not on display always get their lock,
\* stuck event loop or not.
OthersKeepTracing ==
  \A i \in Targets, k \in Task :
    At(i, k, "wanting") ~> (At(i, k, "idle") \/ (SelfDeadlock /\ i = active))

\* `q` quits ("| `q` / `Esc` / `Ctrl+C` | Quit |", src/README.md:114).
QuitWorks == quitKey ~> (tuiPc = "exited")

=============================================================================

--------------------------- MODULE StateLockProofs ---------------------------
(***************************************************************************)
(* Proofs about StateLock for any number of targets: every guard that is   *)
(* out belongs to someone who will return it, a frame is drawn from one    *)
(* state of the active target's record, and the event loop waiting for     *)
(* itself is the only deadlock there is.                                   *)
(***************************************************************************)
EXTENDS StateLock, TLAPS

\* A guard taken for a row is on the lock of a listed target.
RowListed == tuiPc = "row" => row \in Targets

\* The inductive invariant.  The guards must be accounted for together with
\* the types, or a returned guard could make a count negative.
LockInv == TypeOK /\ GuardsAccounted /\ RowListed

DnsGuards(i) == IF At(i, "dns", "reading") THEN 1 ELSE 0

-----------------------------------------------------------------------------
LEMMA InitLock == Init => LockInv
<1> SUFFICES ASSUME Init PROVE LockInv
  OBVIOUS
<1>1. 1 \in Targets BY LockAssumption DEF Targets
<1>2. [k \in Task |-> "idle"] \in [Task -> {"idle", "wanting", "claimed", "reading"}]
  OBVIOUS
<1>3. TypeOK
  <2>1. row \in 1..(NTargets + 1) BY LockAssumption DEF Init
  <2>2. QED BY <1>1, <1>2, <2>1 DEF Init, TypeOK
<1>4. GuardsAccounted
  BY DEF Init, GuardsAccounted, TuiGuards, Drawing, At, Task
<1>5. RowListed BY <1>1 DEF Init, RowListed
<1>6. QED BY <1>3, <1>4, <1>5 DEF LockInv

\* Claims and write sections keep the lock well formed.
LEMMA LockTypes ==
  ASSUME TypeOK, NEW i \in Targets, NEW who \in Task \cup {"tui"},
         Claim(i, who) \/ WriteSection(i, who)
  PROVE /\ claim' \in [Targets -> Task \cup {"tui", Free}]
        /\ record' \in [Targets -> {0, 1}]
<1>1. /\ claim \in [Targets -> Task \cup {"tui", Free}]
      /\ record \in [Targets -> {0, 1}]
  BY DEF TypeOK
<1>2. PICK c \in Task \cup {"tui", Free} : claim' = [claim EXCEPT ![i] = c]
  BY DEF Claim, WriteSection
<1>3. claim' \in [Targets -> Task \cup {"tui", Free}] BY <1>1, <1>2
<1>4. \/ record' = record
      \/ record' = [record EXCEPT ![i] = 1 - @]
  BY DEF Claim, WriteSection
<1>5. 1 - record[i] \in {0, 1} BY <1>1
<1>6. record' \in [Targets -> {0, 1}] BY <1>1, <1>4, <1>5
<1>7. QED BY <1>3, <1>6

\* A step of a task that writes, or wants to, is no business of a guard's.
LEMMA WriterStep ==
  ASSUME LockInv, NEW i \in Targets, NEW k \in Task,
         WantWrite(i, k) \/ ClaimWrite(i, k) \/ DoWrite(i, k)
  PROVE LockInv'
<1> USE DEF LockInv
<1>1. /\ readers' = readers
      /\ UNCHANGED <<tuiVars, quitKey>>
  BY DEF WantWrite, ClaimWrite, DoWrite, Claim, WriteSection, lockVars
<1>2. PICK to \in {"idle", "wanting", "claimed"} :
        /\ taskPc[i][k] # "reading"
        /\ taskPc' = [taskPc EXCEPT ![i][k] = to]
  BY DEF WantWrite, ClaimWrite, DoWrite, At, Goto
<1>3. TypeOK'
  <2>1. /\ claim' \in [Targets -> Task \cup {"tui", Free}]
        /\ record' \in [Targets -> {0, 1}]
    <3>1. CASE WantWrite(i, k) BY <3>1 DEF TypeOK, WantWrite, lockVars
    <3>2. CASE ClaimWrite(i, k) BY <3>2, LockTypes DEF ClaimWrite
    <3>3. CASE DoWrite(i, k) BY <3>3, LockTypes DEF DoWrite
    <3>4. QED BY <3>1, <3>2, <3>3
  <2>2. taskPc' \in [Targets -> [Task -> {"idle", "wanting", "claimed", "reading"}]]
    BY <1>2 DEF TypeOK
  <2>3. QED BY <1>1, <2>1, <2>2 DEF TypeOK, tuiVars
<1>4. GuardsAccounted'
  <2> SUFFICES ASSUME NEW j \in Targets
               PROVE (readers[j] = TuiGuards(j) + DnsGuards(j))'
    BY DEF GuardsAccounted, DnsGuards
  <2>1. TuiGuards(j)' = TuiGuards(j)
    BY <1>1 DEF TuiGuards, Drawing, tuiVars
  <2>2. taskPc'[j]["dns"] = "reading" <=> taskPc[j]["dns"] = "reading"
    BY <1>2 DEF TypeOK, Task
  <2>3. QED BY <1>1, <2>1, <2>2 DEF GuardsAccounted, DnsGuards, At
<1>5. RowListed' BY <1>1 DEF RowListed, tuiVars
<1>6. QED BY <1>3, <1>4, <1>5

\* The DNS task takes and returns one guard of its own.
LEMMA ReaderStep ==
  ASSUME LockInv, NEW i \in Targets, DnsRead(i) \/ DnsUnread(i)
  PROVE LockInv'
<1> USE DEF LockInv
<1>1. UNCHANGED <<claim, record, tuiVars, quitKey>>
  BY DEF DnsRead, DnsUnread, ReadLock, ReadUnlock
<1>2. /\ readers \in [Targets -> Nat]
      /\ taskPc \in [Targets -> [Task -> {"idle", "wanting", "claimed", "reading"}]]
      /\ "dns" \in Task
  BY DEF TypeOK, Task
<1>3. ASSUME NEW j \in Targets PROVE /\ TuiGuards(j)' = TuiGuards(j)
                                     /\ TuiGuards(j) \in Nat
  BY <1>1 DEF TuiGuards, Drawing, tuiVars
<1>4. ASSUME NEW j \in Targets PROVE readers[j] = TuiGuards(j) + DnsGuards(j)
  BY DEF GuardsAccounted, DnsGuards
<1>5. CASE DnsRead(i)
  <2>1. /\ taskPc[i]["dns"] = "idle"
        /\ readers' = [readers EXCEPT ![i] = @ + 1]
        /\ taskPc' = [taskPc EXCEPT ![i]["dns"] = "reading"]
    BY <1>5 DEF DnsRead, ReadLock, At, Goto
  <2>2. TypeOK' BY <1>1, <1>2, <2>1 DEF TypeOK, tuiVars
  <2>3. GuardsAccounted'
    <3> SUFFICES ASSUME NEW j \in Targets
                 PROVE (readers[j] = TuiGuards(j) + DnsGuards(j))'
      BY DEF GuardsAccounted, DnsGuards
    <3>1. CASE j = i
      <4>1. readers'[j] = readers[j] + 1 BY <1>2, <2>1, <3>1
      <4>2. DnsGuards(j) = 0 /\ DnsGuards(j)' = 1
        BY <1>2, <2>1, <3>1 DEF DnsGuards, At
      <4>3. QED BY <1>3, <1>4, <4>1, <4>2
    <3>2. CASE j # i
      <4>1. readers'[j] = readers[j] BY <1>2, <2>1, <3>2
      <4>2. DnsGuards(j)' = DnsGuards(j)
        BY <1>2, <2>1, <3>2 DEF DnsGuards, At
      <4>3. QED BY <1>3, <1>4, <4>1, <4>2
    <3>3. QED BY <3>1, <3>2
  <2>4. RowListed' BY <1>1 DEF RowListed, tuiVars
  <2>5. QED BY <2>2, <2>3, <2>4
<1>6. CASE DnsUnread(i)
  <2>1. /\ taskPc[i]["dns"] = "reading"
        /\ readers' = [readers EXCEPT ![i] = @ - 1]
        /\ taskPc' = [taskPc EXCEPT ![i]["dns"] = "idle"]
    BY <1>6 DEF DnsUnread, ReadUnlock, At, Goto
  <2>2. DnsGuards(i) = 1 /\ DnsGuards(i)' = 0
    BY <1>2, <2>1 DEF DnsGuards, At
  <2>3. readers[i] - 1 \in Nat BY <1>3, <1>4, <2>2
  <2>4. TypeOK' BY <1>1, <1>2, <2>1, <2>3 DEF TypeOK, tuiVars
  <2>5. GuardsAccounted'
    <3> SUFFICES ASSUME NEW j \in Targets
                 PROVE (readers[j] = TuiGuards(j) + DnsGuards(j))'
      BY DEF GuardsAccounted, DnsGuards
    <3>1. CASE j = i
      <4>1. readers'[j] = readers[j] - 1 BY <1>2, <2>1, <3>1
      <4>2. QED BY <1>3, <1>4, <2>2, <3>1, <4>1
    <3>2. CASE j # i
      <4>1. readers'[j] = readers[j] BY <1>2, <2>1, <3>2
      <4>2. DnsGuards(j)' = DnsGuards(j)
        BY <1>2, <2>1, <3>2 DEF DnsGuards, At
      <4>3. QED BY <1>3, <1>4, <4>1, <4>2
    <3>3. QED BY <3>1, <3>2
  <2>6. RowListed' BY <1>1 DEF RowListed, tuiVars
  <2>7. QED BY <2>4, <2>5, <2>6
<1>7. QED BY <1>5, <1>6

-----------------------------------------------------------------------------
(* The event loop.                                                         *)

\* Steps that leave the guards alone, and begin and end with none out.
LEMMA QuietTuiStep ==
  ASSUME LockInv, TakeKeys \/ Leave \/ ClaimReset \/ DoReset \/ EndTurn
  PROVE LockInv'
<1> USE DEF LockInv
<1>1. UNCHANGED <<readers, taskPc, row, quitKey>>
  BY DEF TakeKeys, Leave, ClaimReset, DoReset, EndTurn, Claim, WriteSection, lockVars
<1>2. /\ tuiPc \in {"select", "reset", "resetting", "end"}
      /\ tuiPc' \in {"reset", "resetting", "end", "exited", "frame"}
  BY DEF TakeKeys, Leave, ClaimReset, DoReset, EndTurn
<1>3. TypeOK'
  <2>1. /\ claim' \in [Targets -> Task \cup {"tui", Free}]
        /\ record' \in [Targets -> {0, 1}]
    <3>1. CASE TakeKeys \/ Leave \/ EndTurn
      BY <3>1 DEF TypeOK, TakeKeys, Leave, EndTurn, lockVars
    <3>2. CASE ClaimReset BY <3>2, LockTypes DEF ClaimReset, TypeOK
    <3>3. CASE DoReset BY <3>3, LockTypes DEF DoReset, TypeOK
    <3>4. QED BY <3>1, <3>2, <3>3
  <2>2. active' \in Targets /\ resetting' \in BOOLEAN /\ shouldQuit' \in BOOLEAN
    BY DEF TypeOK, TakeKeys, Leave, ClaimReset, DoReset, EndTurn
  <2>3. QED BY <1>1, <1>2, <2>1, <2>2 DEF TypeOK
<1>4. GuardsAccounted'
  <2> SUFFICES ASSUME NEW j \in Targets
               PROVE (readers[j] = TuiGuards(j) + DnsGuards(j))'
    BY DEF GuardsAccounted, DnsGuards
  <2>1. TuiGuards(j) = 0 /\ TuiGuards(j)' = 0 BY <1>2 DEF TuiGuards, Drawing
  <2>2. DnsGuards(j)' = DnsGuards(j) BY <1>1 DEF DnsGuards, At
  <2>3. readers[j] = TuiGuards(j) + DnsGuards(j) BY DEF GuardsAccounted, DnsGuards
  <2>4. QED BY <1>1, <2>1, <2>2, <2>3
<1>5. RowListed' BY <1>2 DEF RowListed
<1>6. QED BY <1>3, <1>4, <1>5

\* Opening a frame or a row takes one guard, and the place in the loop says so.
LEMMA OpenStep ==
  ASSUME LockInv, OpenFrame \/ OpenRow
  PROVE LockInv'
<1> USE DEF LockInv
<1>1. UNCHANGED <<claim, record, taskPc, active, resetting, shouldQuit, quitKey>>
  BY DEF OpenFrame, OpenRow, ReadLock
<1>2. active \in Targets /\ readers \in [Targets -> Nat] BY DEF TypeOK
<1>3. PICK t \in Targets :
        /\ readers' = [readers EXCEPT ![t] = @ + 1]
        /\ \/ /\ tuiPc = "frame" /\ t = active
              /\ tuiPc' \in {"rows", "skip"} /\ row' = 1
           \/ /\ tuiPc = "rows" /\ t = row
              /\ tuiPc' = "row" /\ row' = row
  BY <1>2 DEF OpenFrame, OpenRow, ReadLock
<1>4. row' \in 1..(NTargets + 1)
  BY <1>3, LockAssumption DEF TypeOK
<1>5. TypeOK' BY <1>1, <1>2, <1>3, <1>4 DEF TypeOK
<1>6. GuardsAccounted'
  <2> SUFFICES ASSUME NEW j \in Targets
               PROVE (readers[j] = TuiGuards(j) + DnsGuards(j))'
    BY DEF GuardsAccounted, DnsGuards
  <2>1. readers'[j] = readers[j] + (IF j = t THEN 1 ELSE 0) BY <1>2, <1>3
  <2>2. TuiGuards(j)' = TuiGuards(j) + (IF j = t THEN 1 ELSE 0)
    BY <1>1, <1>3 DEF TuiGuards, Drawing
  <2>3. DnsGuards(j)' = DnsGuards(j) BY <1>1 DEF DnsGuards, At
  <2>4. readers[j] = TuiGuards(j) + DnsGuards(j) BY DEF GuardsAccounted, DnsGuards
  <2>5. TuiGuards(j) \in Nat /\ DnsGuards(j) \in Nat BY DEF TuiGuards, DnsGuards
  <2>6. QED BY <2>1, <2>2, <2>3, <2>4, <2>5
<1>7. RowListed' BY <1>3 DEF RowListed
<1>8. QED BY <1>5, <1>6, <1>7

\* Skipping or closing returns one.
LEMMA CloseStep ==
  ASSUME LockInv, SkipDraw \/ CloseRow \/ CloseFrame
  PROVE LockInv'
<1> USE DEF LockInv
<1>1. UNCHANGED <<claim, record, taskPc, active, resetting, shouldQuit, quitKey>>
  BY DEF SkipDraw, CloseRow, CloseFrame, ReadUnlock
<1>2. active \in Targets /\ readers \in [Targets -> Nat] BY DEF TypeOK
<1>3. PICK t \in Targets :
        /\ readers' = [readers EXCEPT ![t] = @ - 1]
        /\ \/ /\ tuiPc \in {"skip", "rows"} /\ t = active
              /\ tuiPc' \in {"select", "exited"} /\ row' = row
           \/ /\ tuiPc = "row" /\ t = row
              /\ tuiPc' = "rows" /\ row' = row + 1
  BY <1>2 DEF SkipDraw, CloseRow, CloseFrame, ReadUnlock, RowListed
<1>4. ASSUME NEW j \in Targets
      PROVE /\ readers[j] = TuiGuards(j) + DnsGuards(j)
            /\ TuiGuards(j) = TuiGuards(j)' + (IF j = t THEN 1 ELSE 0)
            /\ TuiGuards(j)' \in Nat /\ DnsGuards(j) \in Nat
            /\ DnsGuards(j)' = DnsGuards(j)
  <2>1. readers[j] = TuiGuards(j) + DnsGuards(j) BY DEF GuardsAccounted, DnsGuards
  <2>2. /\ TuiGuards(j) = TuiGuards(j)' + (IF j = t THEN 1 ELSE 0)
        /\ TuiGuards(j)' \in Nat
    BY <1>1, <1>3 DEF TuiGuards, Drawing
  <2>3. DnsGuards(j) \in Nat /\ DnsGuards(j)' = DnsGuards(j)
    BY <1>1 DEF DnsGuards, At
  <2>4. QED BY <2>1, <2>2, <2>3
<1>5. TypeOK'
  <2>1. readers[t] - 1 \in Nat BY <1>4
  <2>2. readers' \in [Targets -> Nat] BY <1>2, <1>3, <2>1
  <2>3. row' \in 1..(NTargets + 1)
    BY <1>3, LockAssumption DEF TypeOK, Targets
  <2>4. QED BY <1>1, <1>3, <2>2, <2>3 DEF TypeOK
<1>6. GuardsAccounted'
  <2> SUFFICES ASSUME NEW j \in Targets
               PROVE (readers[j] = TuiGuards(j) + DnsGuards(j))'
    BY DEF GuardsAccounted, DnsGuards
  <2>1. readers'[j] = readers[j] - (IF j = t THEN 1 ELSE 0) BY <1>2, <1>3
  <2>2. QED BY <1>4, <2>1
<1>7. RowListed' BY <1>3 DEF RowListed
<1>8. QED BY <1>5, <1>6, <1>7

-----------------------------------------------------------------------------
LEMMA LockStep == LockInv /\ [Next]_vars => LockInv'
<1> SUFFICES ASSUME LockInv, [Next]_vars PROVE LockInv'
  OBVIOUS
<1>1. ASSUME NEW i \in Targets, NEW k \in Task, WantWrite(i, k) \/ ClaimWrite(i, k) \/ DoWrite(i, k)
      PROVE LockInv'
  BY <1>1, WriterStep
<1>2. ASSUME NEW i \in Targets, DnsRead(i) \/ DnsUnread(i)
      PROVE LockInv'
  BY <1>2, ReaderStep
<1>3. CASE TuiStep
  BY <1>3, QuietTuiStep, OpenStep, CloseStep DEF TuiStep
<1>4. CASE PressQuit
  BY <1>4 DEF PressQuit, LockInv, TypeOK, GuardsAccounted, RowListed, TuiGuards, Drawing, At,
              lockVars, tuiVars
<1>5. CASE UNCHANGED vars
  BY <1>5 DEF vars, LockInv, TypeOK, GuardsAccounted, RowListed, TuiGuards, Drawing, At,
              lockVars, tuiVars
<1>6. QED BY <1>1, <1>2, <1>3, <1>4, <1>5 DEF Next, TaskProgress

\* Whoever holds or awaits a lock, however the turns of the event loop, the
\* engines and the DNS tasks interleave: the counts of guards are natural
\* numbers and say exactly who has one out.
THEOREM LockInvariant == Spec => []LockInv
<1>1. QED BY InitLock, LockStep, PTL DEF Spec

\* The state of the locks is well formed.
THEOREM TypeCorrect == Spec => []TypeOK
<1>1. LockInv => TypeOK BY DEF LockInv
<1>2. QED BY <1>1, LockInvariant, PTL

\* No guard is leaked by a frame that is skipped, fails or ends, for any
\* number of targets.
THEOREM NoGuardLeaks == Spec => []GuardsAccounted
<1>1. LockInv => GuardsAccounted BY DEF LockInv
<1>2. QED BY <1>1, LockInvariant, PTL

\* The frame's own guard keeps every writer of the active target out until the
\* frame is drawn.
THEOREM FramesAreConsistent == Spec => FrameIsConsistent
<1>1. ASSUME LockInv, [Next]_vars, Drawing, Drawing'
      PROVE record'[active] = record[active]
  <2>1. active \in Targets /\ record \in [Targets -> {0, 1}]
    BY <1>1 DEF LockInv, TypeOK
  <2>2. readers[active] # 0
    <3>1. readers[active] = TuiGuards(active) + DnsGuards(active)
      BY <1>1, <2>1 DEF LockInv, GuardsAccounted, DnsGuards
    <3>2. TuiGuards(active) \in Nat \ {0} /\ DnsGuards(active) \in Nat
      BY <1>1 DEF TuiGuards, DnsGuards
    <3>3. QED BY <3>1, <3>2
  <2>3. ASSUME NEW i \in Targets, NEW k \in Task, DoWrite(i, k)
        PROVE record'[active] = record[active]
    <3>1. i # active BY <2>2, <2>3 DEF DoWrite, WriteSection
    <3>2. record' = [record EXCEPT ![i] = 1 - @] BY <2>3 DEF DoWrite, WriteSection
    <3>3. QED BY <2>1, <3>1, <3>2
  <2>4. ~DoReset BY <1>1 DEF DoReset, Drawing
  <2>5. ASSUME NEW i \in Targets, NEW k \in Task,
               WantWrite(i, k) \/ ClaimWrite(i, k) \/ DnsUnread(i) \/ DnsRead(i)
        PROVE record' = record
    BY <2>5 DEF WantWrite, ClaimWrite, DnsUnread, DnsRead, Claim, ReadLock, ReadUnlock, lockVars
  <2>6. CASE TuiStep
    BY <2>4, <2>6 DEF TuiStep, OpenFrame, SkipDraw, OpenRow, CloseRow, CloseFrame, TakeKeys,
       Leave, ClaimReset, EndTurn, Claim, ReadLock, ReadUnlock, lockVars
  <2>7. CASE PressQuit \/ UNCHANGED vars
    BY <2>7 DEF PressQuit, vars, lockVars
  <2>8. "dns" \in Task BY DEF Task
  <2>9. QED BY <1>1, <2>3, <2>5, <2>6, <2>7, <2>8 DEF Next, TaskProgress
<1>2. LockInv /\ [Next]_vars => [Drawing /\ Drawing' => record'[active] = record[active]]_vars
  BY <1>1
<1>3. QED BY <1>2, LockInvariant, PTL DEF Spec, FrameIsConsistent

-----------------------------------------------------------------------------
(* Who waits for whom.                                                     *)

\* A lock is claimed by exactly the one that is at its write section.
ClaimsOwned ==
  /\ \A i \in Targets, k \in Task : At(i, k, "claimed") <=> claim[i] = k
  /\ \A i \in Targets : claim[i] = "tui" <=> (tuiPc = "resetting" /\ i = active)

\* Nobody needs a lock to end the wait for this one: it is free, or the DNS
\* task has a guard out that it will return, or the one that claimed it can
\* write at once.
Drains(i) ==
  \/ claim[i] = Free
  \/ At(i, "dns", "reading")
  \/ /\ readers[i] = 0
     /\ \/ \E k \in Task : claim[i] = k /\ At(i, k, "claimed")
        \/ claim[i] = "tui" /\ tuiPc = "resetting" /\ i = active

\* The event loop is drawing, and the lock it needs next, if any, drains.
FrameGoesOn ==
  \/ tuiPc \in {"skip", "row"}
  \/ tuiPc = "rows" /\ (row > NTargets \/ Drains(row))

\* No wait for a lock has a cycle but the one of the event loop with itself.
OnlySelfDeadlock ==
  \A i \in Targets :
    \/ Drains(i)
    \/ Drawing /\ FrameGoesOn
    \/ SelfDeadlock /\ i = active

LEMMA InitClaims == Init => ClaimsOwned
BY DEF Init, ClaimsOwned, At, Task, Free

\* A task claims, writes or returns a guard: only its own claim is affected.
LEMMA TaskClaims ==
  ASSUME LockInv, ClaimsOwned, NEW i \in Targets, NEW k \in Task,
         \/ WantWrite(i, k) \/ ClaimWrite(i, k) \/ DoWrite(i, k)
         \/ k = "dns" /\ (DnsRead(i) \/ DnsUnread(i))
  PROVE  ClaimsOwned'
<1>1. /\ claim \in [Targets -> Task \cup {"tui", Free}]
      /\ taskPc \in [Targets -> [Task -> {"idle", "wanting", "claimed", "reading"}]]
  BY DEF LockInv, TypeOK
<1>2. /\ \A j \in Targets, l \in Task : taskPc[j][l] = "claimed" <=> claim[j] = l
      /\ \A j \in Targets : claim[j] = "tui" <=> (tuiPc = "resetting" /\ j = active)
  BY DEF ClaimsOwned, At
<1>3. UNCHANGED <<tuiPc, active>>
  BY DEF WantWrite, ClaimWrite, DoWrite, DnsRead, DnsUnread, tuiVars
<1>4. PICK to \in {"idle", "wanting", "claimed", "reading"} :
        /\ taskPc' = [taskPc EXCEPT ![i][k] = to]
        /\ \/ claim' = claim /\ taskPc[i][k] # "claimed" /\ to # "claimed"
           \/ claim[i] = Free /\ claim' = [claim EXCEPT ![i] = k] /\ to = "claimed"
           \/ claim[i] = k /\ claim' = [claim EXCEPT ![i] = Free] /\ to = "idle"
  BY DEF WantWrite, ClaimWrite, DoWrite, DnsRead, DnsUnread, Claim, WriteSection,
         ReadLock, ReadUnlock, At, Goto, lockVars
<1>5. ASSUME NEW j \in Targets, NEW l \in Task
      PROVE  taskPc'[j][l] = "claimed" <=> claim'[j] = l
  <2>1. CASE j # i
    BY <1>1, <1>2, <1>4, <2>1
  <2>2. CASE j = i /\ l = k
    BY <1>1, <1>2, <1>4, <2>2 DEF Task, Free
  <2>3. CASE j = i /\ l # k
    BY <1>1, <1>2, <1>4, <2>3 DEF Task, Free
  <2>4. QED BY <2>1, <2>2, <2>3
<1>6. ASSUME NEW j \in Targets
      PROVE  claim'[j] = "tui" <=> (tuiPc' = "resetting" /\ j = active')
  BY <1>1, <1>2, <1>3, <1>4 DEF Task, Free
<1>7. QED BY <1>5, <1>6 DEF ClaimsOwned, At

LEMMA TuiClaims ==
  ASSUME LockInv, ClaimsOwned, TuiStep
  PROVE  ClaimsOwned'
<1>1. /\ claim \in [Targets -> Task \cup {"tui", Free}]
      /\ active \in Targets
  BY DEF LockInv, TypeOK
<1>2. /\ \A j \in Targets, l \in Task : taskPc[j][l] = "claimed" <=> claim[j] = l
      /\ \A j \in Targets : claim[j] = "tui" <=> (tuiPc = "resetting" /\ j = active)
  BY DEF ClaimsOwned, At
<1>3. UNCHANGED taskPc
  BY DEF TuiStep, OpenFrame, SkipDraw, OpenRow, CloseRow, CloseFrame, TakeKeys, Leave,
         ClaimReset, DoReset, EndTurn
<1>4. \/ claim' = claim /\ tuiPc # "resetting" /\ tuiPc' # "resetting"
      \/ /\ claim[active] = Free /\ claim' = [claim EXCEPT ![active] = "tui"]
         /\ tuiPc' = "resetting" /\ active' = active /\ tuiPc = "reset"
      \/ /\ claim[active] = "tui" /\ claim' = [claim EXCEPT ![active] = Free]
         /\ tuiPc' = "end" /\ active' = active /\ tuiPc = "resetting"
  BY DEF TuiStep, OpenFrame, SkipDraw, OpenRow, CloseRow, CloseFrame, TakeKeys, Leave,
         ClaimReset, DoReset, EndTurn, Claim, WriteSection, ReadLock, ReadUnlock, lockVars
<1>5. ASSUME NEW j \in Targets
      PROVE  /\ \A l \in Task : taskPc'[j][l] = "claimed" <=> claim'[j] = l
             /\ claim'[j] = "tui" <=> (tuiPc' = "resetting" /\ j = active')
  BY <1>1, <1>2, <1>3, <1>4 DEF Task, Free
<1>6. QED BY <1>5 DEF ClaimsOwned, At

LEMMA ClaimStep == LockInv /\ ClaimsOwned /\ [Next]_vars => ClaimsOwned'
<1> SUFFICES ASSUME LockInv, ClaimsOwned, [Next]_vars PROVE ClaimsOwned'
  OBVIOUS
<1>1. ASSUME NEW i \in Targets, NEW k \in Task, WantWrite(i, k) \/ TaskProgress(i, k)
      PROVE  ClaimsOwned'
  BY <1>1, TaskClaims DEF TaskProgress
<1>2. ASSUME NEW i \in Targets, DnsRead(i)
      PROVE  ClaimsOwned'
  BY <1>2, TaskClaims DEF Task
<1>3. CASE TuiStep
  BY <1>3, TuiClaims
<1>4. CASE PressQuit \/ UNCHANGED vars
  BY <1>4 DEF PressQuit, vars, lockVars, tuiVars, ClaimsOwned, At
<1>5. QED BY <1>1, <1>2, <1>3, <1>4 DEF Next

\* Whoever is at a write section has the lock to itself, and nobody else holds
\* up the others.
THEOREM ClaimsAreOwned == Spec => []ClaimsOwned
<1>1. QED BY InitClaims, ClaimStep, LockInvariant, PTL DEF Spec

\* The locks of the records cannot deadlock, for any number of targets, but
\* in the one way: the event loop holds its guard on the active target, a
\* writer of that target waits for it, and the target's own row asks for a
\* second guard.
THEOREM NoOtherDeadlock == Spec => []OnlySelfDeadlock
<1>1. ASSUME LockInv, ClaimsOwned
      PROVE  OnlySelfDeadlock
  <2> SUFFICES ASSUME NEW i \in Targets, ~Drains(i)
               PROVE  \/ Drawing /\ FrameGoesOn
                      \/ SelfDeadlock /\ i = active
    BY DEF OnlySelfDeadlock
  <2>1. ASSUME NEW j \in Targets
        PROVE  Drains(j) \/ (claim[j] # Free /\ TuiGuards(j) # 0)
    <3>1. readers[j] = TuiGuards(j) + DnsGuards(j)
      BY <1>1 DEF LockInv, GuardsAccounted, DnsGuards
    <3>2. CASE TuiGuards(j) = 0 /\ claim[j] # Free /\ ~At(j, "dns", "reading")
      <4>1. readers[j] = 0
        BY <3>1, <3>2 DEF DnsGuards
      <4>2. claim[j] \in Task \cup {"tui"}
        BY <1>1, <3>2 DEF LockInv, TypeOK
      <4>3. \/ \E k \in Task : claim[j] = k /\ At(j, k, "claimed")
            \/ claim[j] = "tui" /\ tuiPc = "resetting" /\ j = active
        BY <1>1, <4>2 DEF ClaimsOwned
      <4>4. QED BY <4>1, <4>3 DEF Drains
    <3>3. QED BY <3>2 DEF Drains
  <2>2. claim[i] # Free /\ TuiGuards(i) # 0
    BY <2>1
  <2>3. Drawing
    BY <2>2 DEF TuiGuards, Drawing
  <2>4. CASE tuiPc \in {"skip", "row"}
    BY <2>3, <2>4 DEF FrameGoesOn
  <2>5. CASE tuiPc = "rows" /\ row > NTargets
    BY <2>3, <2>5 DEF FrameGoesOn
  <2>6. CASE tuiPc = "rows" /\ row \in Targets
    <3>1. i = active
      BY <2>2, <2>6 DEF TuiGuards
    <3>2. CASE Drains(row)
      BY <2>3, <2>6, <3>2 DEF FrameGoesOn
    <3>3. CASE ~Drains(row)
      <4>1. TuiGuards(row) # 0
        BY <2>1, <2>6, <3>3
      <4>2. row = active
        BY <2>6, <4>1 DEF TuiGuards
      <4>3. QED BY <2>2, <2>6, <3>1, <4>2 DEF SelfDeadlock
    <3>4. QED BY <3>2, <3>3
  <2>7. tuiPc = "rows" => row > NTargets \/ row \in Targets
    BY <1>1, LockAssumption DEF LockInv, TypeOK, Targets
  <2>8. QED BY <2>3, <2>4, <2>5, <2>6, <2>7 DEF Drawing
<1>2. QED BY <1>1, LockInvariant, ClaimsAreOwned, PTL

=============================================================================

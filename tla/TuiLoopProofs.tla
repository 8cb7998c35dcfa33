--------------------------- MODULE TuiLoopProofs ---------------------------
(***************************************************************************)
(* Proofs about TuiLoop, for any number of targets, rows and names: the    *)
(* indices stay in range, the lists in step, and the loop implements the   *)
(* list of targets of TargetList.                                          *)
(***************************************************************************)
EXTENDS TuiLoop, SequenceTheorems, TLAPS

\* The targets are listed in the order they came, without repetition, and the
\* next number is new.
IdsRise ==
  /\ \A i, j \in 1..Len(states) : i < j => states[i] < states[j]
  /\ \A i \in 1..Len(states) : states[i] < nextId
  /\ \A id \in fired : id < nextId

\* The count the selection is moved within is that of some table, which may
\* have grown since.
HopCountOfSomeTable ==
  hopCount = 0 \/ \E id \in 1..(nextId - 1) : hopCount <= rows[id]

LoopInv ==
  /\ TypeOK
  /\ IndexInList
  /\ IdsRise
  /\ TokensAligned
  /\ HopCountOfSomeTable
  /\ SelectionOfSomeTable

-----------------------------------------------------------------------------
(* Sequences.                                                              *)

\* Removing an element moves the later ones up.
LEMMA Removed ==
  ASSUME NEW S, NEW s \in Seq(S), NEW i \in 1..Len(s)
  PROVE  /\ RemoveAt(s, i) \in Seq(S)
         /\ Len(RemoveAt(s, i)) = Len(s) - 1
         /\ \A k \in 1..(Len(s) - 1) :
              RemoveAt(s, i)[k] = IF k < i THEN s[k] ELSE s[k + 1]
<1> DEFINE a == SubSeq(s, 1, i - 1)
           b == SubSeq(s, i + 1, Len(s))
<1>1. /\ a \in Seq(S) /\ Len(a) = i - 1
      /\ \A k \in 1..(i - 1) : a[k] = s[k]
  BY SubSeqProperties
<1>2. /\ b \in Seq(S) /\ Len(b) = Len(s) - i
      /\ \A k \in 1..(Len(s) - i) : b[k] = s[i + k]
  BY SubSeqProperties
<1>3. RemoveAt(s, i) = a \o b
  BY DEF RemoveAt
<1> HIDE DEF a, b
<1>4. /\ a \o b \in Seq(S) /\ Len(a \o b) = Len(a) + Len(b)
      /\ \A k \in 1..(Len(a) + Len(b)) :
           (a \o b)[k] = IF k <= Len(a) THEN a[k] ELSE b[k - Len(a)]
  BY <1>1, <1>2, ConcatProperties
<1>5. Len(s) \in Nat /\ i \in Nat
  OBVIOUS
<1>6. Len(a) + Len(b) = Len(s) - 1
  BY <1>1, <1>2, <1>5
<1>7. ASSUME NEW k \in 1..(Len(s) - 1)
      PROVE  (a \o b)[k] = IF k < i THEN s[k] ELSE s[k + 1]
  <2>1. CASE k < i
    <3>1. k <= Len(a) /\ k \in 1..(i - 1) BY <1>1, <1>5, <2>1
    <3>2. QED BY <1>1, <1>4, <1>6, <2>1, <3>1
  <2>2. CASE ~(k < i)
    <3>1. ~(k <= Len(a)) /\ k - Len(a) = k - i + 1 BY <1>1, <1>5, <2>2
    <3>2. k - i + 1 \in 1..(Len(s) - i) /\ i + (k - i + 1) = k + 1 BY <1>5, <2>2
    <3>3. b[k - i + 1] = s[i + (k - i + 1)] BY <1>2, <3>2
    <3>4. QED BY <1>4, <1>6, <2>2, <3>1, <3>2, <3>3
  <2>3. QED BY <2>1, <2>2
<1>8. QED BY <1>3, <1>4, <1>6, <1>7

\* The set of a sequence, by its positions.
LEMMA SetOfSeq ==
  ASSUME NEW S, NEW s \in Seq(S)
  PROVE  \A x : x \in ToSet(s) <=> \E k \in 1..Len(s) : x = s[k]
<1>1. DOMAIN s = 1..Len(s)
  OBVIOUS
<1>2. QED BY <1>1, Zenon DEF ToSet

\* Removing an element of a rising sequence removes it from its set.
LEMMA RemovedSet ==
  ASSUME NEW s \in Seq(Nat), NEW i \in 1..Len(s),
         \A j, k \in 1..Len(s) : j < k => s[j] < s[k]
  PROVE  ToSet(RemoveAt(s, i)) = ToSet(s) \ {s[i]}
<1> DEFINE r == RemoveAt(s, i)
<1>1. /\ r \in Seq(Nat) /\ Len(r) = Len(s) - 1
      /\ \A k \in 1..(Len(s) - 1) : r[k] = IF k < i THEN s[k] ELSE s[k + 1]
  BY Removed
<1> HIDE DEF r
<1>2. ASSUME NEW k \in 1..(Len(s) - 1)
      PROVE  \E j \in 1..Len(s) : j # i /\ r[k] = s[j]
  <2>1. CASE k < i
    <3>1. k \in 1..Len(s) /\ k # i /\ r[k] = s[k] BY <1>1, <2>1
    <3>2. QED BY <3>1
  <2>2. CASE ~(k < i)
    <3>1. k + 1 \in 1..Len(s) /\ k + 1 # i /\ r[k] = s[k + 1] BY <1>1, <2>2
    <3>2. QED BY <3>1
  <2>3. QED BY <2>1, <2>2
<1>3. ASSUME NEW j \in 1..Len(s), j # i
      PROVE  \E k \in 1..(Len(s) - 1) : r[k] = s[j]
  <2>1. CASE j < i
    <3>1. j \in 1..(Len(s) - 1) /\ r[j] = s[j] BY <1>1, <2>1
    <3>2. QED BY <3>1
  <2>2. CASE j > i
    <3>1. (j - 1) \in 1..(Len(s) - 1) /\ r[j - 1] = s[j] BY <1>1, <2>2
    <3>2. QED BY <3>1
  <2>3. QED BY <1>3, <2>1, <2>2
<1>4. \A j \in 1..Len(s) : j # i => s[j] # s[i]
  <2> SUFFICES ASSUME NEW j \in 1..Len(s), j # i PROVE s[j] # s[i]
    OBVIOUS
  <2>1. s[j] \in Nat /\ s[i] \in Nat OBVIOUS
  <2>2. CASE j < i BY <2>1, <2>2
  <2>3. CASE i < j BY <2>1, <2>3
  <2>4. QED BY <2>2, <2>3
<1>5. \A x : x \in ToSet(r) <=> \E k \in 1..(Len(s) - 1) : x = r[k]
  BY <1>1, SetOfSeq
<1>6. \A x : x \in ToSet(s) <=> \E k \in 1..Len(s) : x = s[k]
  BY SetOfSeq
<1>7. \A x : x \in ToSet(r) <=> x \in ToSet(s) /\ x # s[i]
  <2> SUFFICES ASSUME NEW x PROVE x \in ToSet(r) <=> x \in ToSet(s) /\ x # s[i]
    OBVIOUS
  <2>1. ASSUME x \in ToSet(r) PROVE x \in ToSet(s) /\ x # s[i]
    <3>1. PICK k \in 1..(Len(s) - 1) : x = r[k] BY <1>5, <2>1
    <3>2. PICK j \in 1..Len(s) : j # i /\ r[k] = s[j] BY <1>2
    <3>3. QED BY <1>4, <1>6, <3>1, <3>2
  <2>2. ASSUME x \in ToSet(s), x # s[i] PROVE x \in ToSet(r)
    <3>1. PICK j \in 1..Len(s) : x = s[j] BY <1>6, <2>2
    <3>2. j # i BY <2>2, <3>1
    <3>3. QED BY <1>3, <1>5, <3>1, <3>2
  <2>3. QED BY <2>1, <2>2
<1>8. QED BY <1>7 DEF r

\* Appending adds the element to the set.
LEMMA AppendedSet ==
  ASSUME NEW S, NEW s \in Seq(S), NEW x \in S
  PROVE  ToSet(Append(s, x)) = ToSet(s) \cup {x}
<1>1. /\ Append(s, x) \in Seq(S) /\ Len(Append(s, x)) = Len(s) + 1
      /\ \A k \in 1..Len(s) : Append(s, x)[k] = s[k]
      /\ Append(s, x)[Len(s) + 1] = x
  OBVIOUS
<1>2. \A k \in 1..(Len(s) + 1) : k \in 1..Len(s) \/ k = Len(s) + 1
  OBVIOUS
<1>3. DOMAIN s = 1..Len(s) /\ DOMAIN Append(s, x) = 1..(Len(s) + 1)
      /\ Len(s) + 1 \in 1..(Len(s) + 1) /\ 1..Len(s) \subseteq 1..(Len(s) + 1)
  BY <1>1
<1>4. QED BY <1>1, <1>2, <1>3, Zenon DEF ToSet


-----------------------------------------------------------------------------
(* The invariant at first, and what the actions do to the lists.           *)

LEMMA InitLoop == Init => LoopInv
<1> SUFFICES ASSUME Init PROVE LoopInv
  OBVIOUS
<1>1. PICK n \in Id : states = [i \in 1..n |-> i]
  BY DEF Init
<1>2. n \in Nat \ {0} /\ n <= MaxIds /\ MaxIds \in Nat
  BY TuiAssumption DEF Id
<1>3. /\ states \in Seq(Id) /\ Len(states) = n
      /\ \A i \in 1..n : states[i] = i
  BY <1>1, <1>2 DEF Id
<1>4. TypeOK
  <2>1. nextId \in 1..(MaxIds + 1) BY <1>2, <1>3 DEF Init
  <2>2. 0 \in 0..MaxRows /\ 0 \in Nat BY TuiAssumption
  <2>3. rows \in [Id -> 0..MaxRows] BY <2>2 DEF Init
  <2>4. targetCount \in Nat BY <1>2, <1>3 DEF Init
  <2>5. QED BY <1>3, <2>1, <2>2, <2>3, <2>4, Zenon DEF Init, TypeOK
<1>5. IndexInList
  BY <1>2, <1>3 DEF Init, IndexInList
<1>6. nextId = n + 1
  BY <1>3 DEF Init
<1>7. IdsRise
  BY <1>2, <1>3, <1>6 DEF Init, IdsRise
<1>8. TokensAligned
  <2>1. \A x : x \in ToSet(states) <=> \E k \in 1..n : x = states[k]
    BY <1>3, SetOfSeq
  <2>2. \A id \in Id : id < nextId => id \in ToSet(states)
    BY <1>2, <1>3, <1>6, <2>1 DEF Id
  <2>3. QED BY <2>2 DEF Init, TokensAligned
<1>9. HopCountOfSomeTable /\ SelectionOfSomeTable
  BY DEF Init, HopCountOfSomeTable, SelectionOfSomeTable
<1>10. QED BY <1>4, <1>5, <1>7, <1>8, <1>9 DEF LoopInv

\* Whatever happens, the lists are left alone, or a target is added, or the
\* active one is removed.
ListKept == UNCHANGED <<targetVars, targetCount>>
Moves == active' = active \/ NextTarget \/ PrevTarget

LEMMA ListSteps ==
  ASSUME [Next]_vars
  PROVE  \/ ListKept /\ Moves
         \/ AddResolved /\ nextId <= MaxIds /\ UNCHANGED fired
         \/ RemoveAtActive /\ Len(states) > 1 /\ UNCHANGED nextId
<1> USE DEF ListKept, Moves, loopVars, targetVars, selectVars
<1>1. CASE Key
  BY <1>1 DEF Key, KeyTarget, KeyHop, KeyReset, KeyRemove, KeyAdd, KeyQuit, KeyType, KeyEsc,
              KeyEnter, NextTarget, PrevTarget
<1>2. CASE LoopStep
  <2>1. CASE ResolveSucceeds BY <2>1 DEF ResolveSucceeds
  <2>2. CASE ServeRemove BY <2>2 DEF ServeRemove
  <2>3. CASE Frame \/ Tick \/ SeeCancel \/ EndKeys \/ ServeReset \/ TakePending
             \/ ResolveFails \/ EndTurn
    BY <2>3 DEF Frame, Tick, SeeCancel, EndKeys, ServeReset, TakePending, ResolveFails,
                EndTurn, appVars
  <2>4. QED BY <1>2, <2>1, <2>2, <2>3 DEF LoopStep
<1>3. CASE TerminalFails \/ GrowTable \/ CancelAll \/ UNCHANGED vars
  BY <1>3 DEF TerminalFails, GrowTable, CancelAll, vars, appVars
<1>4. QED BY <1>1, <1>2, <1>3 DEF Next


-----------------------------------------------------------------------------
(* The lists.                                                              *)

\* The typed part of the invariant the lists need.
LEMMA ListTypes ==
  ASSUME LoopInv
  PROVE  /\ MaxIds \in Nat \ {0}
         /\ states \in Seq(Id) /\ cancels = states
         /\ nextId \in 1..(MaxIds + 1) /\ fired \subseteq Id
         /\ active \in Nat /\ targetCount \in Nat /\ selectedHop \in Nat
         /\ Len(states) \in Nat /\ active + 1 \in 1..Len(states)
         /\ targetCount = Len(states)
         /\ \A i \in 1..Len(states) : states[i] \in Id /\ states[i] \in Nat
<1>1. TypeOK /\ IndexInList /\ TokensAligned
  BY DEF LoopInv
<1>2. \A i \in 1..Len(states) : states[i] \in Id /\ states[i] \in Nat
  <2>1. states \in Seq(Id) BY <1>1 DEF TypeOK
  <2>2. Id \subseteq Nat BY TuiAssumption DEF Id
  <2>3. \A i \in 1..Len(states) : states[i] \in Id BY <2>1, ElementOfSeq
  <2>4. QED BY <2>2, <2>3
<1>3. Len(states) \in Nat /\ active \in Nat /\ active < Len(states)
  BY <1>1 DEF TypeOK, IndexInList
<1>4. active + 1 \in 1..Len(states)
  BY <1>3
<1>5. QED BY <1>1, <1>2, <1>3, <1>4, TuiAssumption DEF TypeOK, IndexInList, TokensAligned

LEMMA MovesInList ==
  ASSUME LoopInv, ListKept, Moves
  PROVE  active' \in 0..(Len(states) - 1)
<1>1. Len(states) \in Nat \ {0} /\ active \in 0..(Len(states) - 1)
      /\ targetCount = Len(states)
  BY ListTypes
<1>2. (active + 1) % Len(states) \in 0..(Len(states) - 1)
  BY <1>1, SMT
<1>3. QED BY <1>1, <1>2 DEF Moves, NextTarget, PrevTarget

\* Adding a target.
LEMMA AddStep ==
  ASSUME LoopInv, AddResolved, nextId <= MaxIds, UNCHANGED fired
  PROVE  /\ states' \in Seq(Id) /\ cancels' = states'
         /\ nextId' \in 1..(MaxIds + 1) /\ active' \in Nat /\ targetCount' \in Nat
         /\ IndexInList' /\ IdsRise' /\ TokensAligned'
<1>1. nextId \in Id /\ nextId \in Nat
  BY ListTypes DEF Id
<1>2. /\ states' \in Seq(Id) /\ Len(states') = Len(states) + 1
      /\ \A i \in 1..Len(states) : states'[i] = states[i]
      /\ states'[Len(states) + 1] = nextId
  BY <1>1, ListTypes DEF AddResolved
<1>3. cancels' = states' BY ListTypes DEF AddResolved
<1>4. nextId' = nextId + 1 /\ nextId' \in 1..(MaxIds + 1)
  BY <1>1, ListTypes DEF AddResolved
<1>5. active' \in Nat /\ active' < Len(states') /\ targetCount' = Len(states')
  BY <1>2, ListTypes DEF AddResolved
<1>6. IdsRise'
  <2>1. \A i \in 1..(Len(states) + 1) : i \in 1..Len(states) \/ i = Len(states) + 1
    BY ListTypes
  <2>2. \A i \in 1..(Len(states) + 1) : states'[i] < nextId'
    <3>1. \A i \in 1..Len(states) : states[i] < nextId /\ states[i] \in Nat
      BY ListTypes DEF LoopInv, IdsRise
    <3>2. QED BY <1>1, <1>2, <1>4, <2>1, <3>1
  <2>3. ASSUME NEW i \in 1..(Len(states) + 1), NEW j \in 1..(Len(states) + 1), i < j
        PROVE  states'[i] < states'[j]
    <3>1. i \in 1..Len(states) BY <2>3, ListTypes
    <3>2. CASE j \in 1..Len(states)
      BY <1>2, <2>3, <3>1, <3>2 DEF LoopInv, IdsRise
    <3>3. CASE j = Len(states) + 1
      BY <1>2, <3>1, <3>3 DEF LoopInv, IdsRise
    <3>4. QED BY <2>1, <3>2, <3>3
  <2>4. \A id \in fired' : id < nextId'
    BY <1>1, <1>4, ListTypes DEF LoopInv, IdsRise, Id
  <2>5. QED BY <1>2, <2>2, <2>3, <2>4 DEF IdsRise
<1>7. TokensAligned'
  <2>1. ToSet(states') = ToSet(states) \cup {nextId}
    BY <1>1, ListTypes, AppendedSet DEF AddResolved
  <2>2. nextId \notin fired
    BY <1>1 DEF LoopInv, IdsRise
  <2>3. QED BY <1>1, <1>3, <1>4, <2>1, <2>2 DEF LoopInv, TokensAligned, Id
<1>8. QED BY <1>2, <1>3, <1>4, <1>5, <1>6, <1>7 DEF IndexInList


\* Removing the active one.
LEMMA RemoveStep ==
  ASSUME LoopInv, RemoveAtActive, Len(states) > 1, UNCHANGED nextId
  PROVE  /\ states' \in Seq(Id) /\ cancels' = states' /\ fired' \subseteq Id
         /\ active' \in Nat /\ targetCount' \in Nat
         /\ IndexInList' /\ IdsRise' /\ TokensAligned'
<1> DEFINE i == active + 1
<1>1. i \in 1..Len(states) /\ Len(states) \in Nat /\ states \in Seq(Id) /\ cancels = states
      /\ nextId \in Nat
  BY ListTypes
<1>2. /\ states' = RemoveAt(states, i) /\ cancels' = states'
      /\ fired' = fired \cup {states[i]}
  BY <1>1 DEF RemoveAtActive
<1> HIDE DEF i
<1>3. /\ states' \in Seq(Id) /\ Len(states') = Len(states) - 1
      /\ \A k \in 1..(Len(states) - 1) :
           states'[k] = IF k < i THEN states[k] ELSE states[k + 1]
  BY <1>1, <1>2, Removed
<1>4. active' \in Nat /\ active' < Len(states') /\ targetCount' = Len(states')
  BY <1>1, <1>3, ListTypes DEF RemoveAtActive
<1>5. states[i] \in Id /\ states[i] \in Nat /\ states[i] < nextId
  BY <1>1, ListTypes DEF LoopInv, IdsRise
<1>6. IdsRise'
  <2>1. \A k \in 1..(Len(states) - 1) :
          states'[k] = states[IF k < i THEN k ELSE k + 1]
    BY <1>1, <1>3
  <2>2. ASSUME NEW j \in 1..(Len(states) - 1), NEW k \in 1..(Len(states) - 1), j < k
        PROVE  states'[j] < states'[k]
    <3> DEFINE from == IF j < i THEN j ELSE j + 1
               to == IF k < i THEN k ELSE k + 1
    <3>1. from \in 1..Len(states) /\ to \in 1..Len(states) /\ from < to
      BY <1>1, <2>2
    <3>2. states[from] < states[to]
      BY <3>1 DEF LoopInv, IdsRise
    <3>3. QED BY <2>1, <3>2
  <2>3. ASSUME NEW k \in 1..(Len(states) - 1)
        PROVE  states'[k] < nextId
    <3> DEFINE at == IF k < i THEN k ELSE k + 1
    <3>1. at \in 1..Len(states) BY <1>1
    <3>2. states[at] < nextId BY <3>1 DEF LoopInv, IdsRise
    <3>3. QED BY <2>1, <3>2
  <2>4. \A id \in fired' : id < nextId
    BY <1>2, <1>5 DEF LoopInv, IdsRise
  <2>5. QED BY <1>3, <2>2, <2>3, <2>4 DEF IdsRise
<1>7. TokensAligned'
  <2>1. states \in Seq(Nat)
    BY <1>1, TuiAssumption, SeqMonotonic DEF Id
  <2>2. \A j, k \in 1..Len(states) : j < k => states[j] < states[k]
    BY DEF LoopInv, IdsRise
  <2>3. ToSet(states') = ToSet(states) \ {states[i]}
    BY <1>1, <1>2, <2>1, <2>2, RemovedSet
  <2>4. QED BY <1>2, <1>5, <2>3 DEF LoopInv, TokensAligned
<1>8. fired' \subseteq Id
  BY <1>2, <1>5, ListTypes
<1>9. targetCount' \in Nat BY <1>1, <1>3, <1>4, ListTypes
<1>10. QED BY <1>2, <1>3, <1>4, <1>6, <1>7, <1>8, <1>9 DEF IndexInList

\* The lists, their index and their tokens after any step.
LEMMA ListStep ==
  ASSUME LoopInv, [Next]_vars
  PROVE  /\ states' \in Seq(Id) /\ cancels' = states' /\ fired' \subseteq Id
         /\ nextId' \in 1..(MaxIds + 1) /\ active' \in Nat /\ targetCount' \in Nat
         /\ IndexInList' /\ IdsRise' /\ TokensAligned'
<1>1. CASE ListKept /\ Moves
  <2>1. active' \in 0..(Len(states) - 1) /\ Len(states) \in Nat
    BY <1>1, MovesInList, ListTypes
  <2>2. UNCHANGED <<states, cancels, fired, nextId, targetCount>>
    BY <1>1 DEF ListKept, targetVars
  <2>3. IndexInList' /\ active' \in Nat
    BY <2>1, <2>2 DEF LoopInv, IndexInList
  <2>4. IdsRise' /\ TokensAligned'
    BY <2>2 DEF LoopInv, IdsRise, TokensAligned
  <2>5. QED BY <2>2, <2>3, <2>4, ListTypes
<1>2. CASE AddResolved /\ nextId <= MaxIds /\ UNCHANGED fired
  BY <1>2, AddStep, ListTypes
<1>3. CASE RemoveAtActive /\ Len(states) > 1 /\ UNCHANGED nextId
  BY <1>3, RemoveStep, ListTypes
<1>4. QED BY <1>1, <1>2, <1>3, ListSteps


-----------------------------------------------------------------------------
(* The other variables, the selection, and the invariant.                  *)

\* The types of those parts of the state the lists do not depend on.
OthersTypeOK ==
  /\ rows \in [Id -> 0..MaxRows]
  /\ hopCount \in 0..MaxRows
  /\ cancelled \in BOOLEAN
  /\ selectedHop \in Nat
  /\ pc \in {"frame", "select", "keys", "reset", "pending", "resolving",
             "remove", "end", "exited"}
  /\ mode \in {"normal", "add"}
  /\ buffer \in Names \cup {NoName}
  /\ pending \in Names \cup {NoName}
  /\ resetRequested \in BOOLEAN
  /\ removeRequested \in BOOLEAN
  /\ shouldQuit \in BOOLEAN

\* They keep them.
LEMMA OtherTypes ==
  ASSUME LoopInv, [Next]_vars
  PROVE  OthersTypeOK'
<1> USE DEF loopVars, targetVars, selectVars, inputVars, requestVars
<1>1. OthersTypeOK BY DEF LoopInv, TypeOK, OthersTypeOK
<1> USE DEF OthersTypeOK
<1>2. CASE Key
  <2>1. CASE KeyRemove \/ KeyReset \/ KeyAdd \/ KeyQuit
    BY <1>1, <2>1 DEF KeyRemove, KeyReset, KeyAdd, KeyQuit
  <2>0. CASE KeyTarget
    <3>1. selectedHop' = 0 /\ UNCHANGED <<cancelled, rows, pc, hopCount, inputVars, requestVars>>
      BY <2>0 DEF KeyTarget, NextTarget, PrevTarget
    <3>2. selectedHop' \in Nat BY <3>1
    <3>3. QED BY <1>1, <3>1, <3>2
  <2>2. CASE KeyHop
    <3>1. NextHop \in Nat /\ PrevHop \in Nat BY <1>1 DEF NextHop, PrevHop
    <3>2. selectedHop' \in Nat BY <2>2, <3>1 DEF KeyHop
    <3>3. QED BY <1>1, <2>2, <3>2 DEF KeyHop
  <2>3. CASE KeyType \/ KeyEsc \/ KeyEnter
    BY <1>1, <2>3 DEF KeyType, KeyEsc, KeyEnter, Submitted
  <2>4. QED BY <1>2, <2>0, <2>1, <2>2, <2>3 DEF Key
<1>3. CASE LoopStep
  <2>1. CASE Frame
    <3>1. ActiveId \in Id BY ListTypes DEF ActiveId
    <3>2. QED BY <1>1, <2>1, <3>1 DEF Frame, appVars
  <2>2. CASE Tick \/ SeeCancel \/ EndKeys \/ ServeReset \/ TakePending \/ ResolveFails
             \/ EndTurn
    BY <1>1, <2>2 DEF Tick, SeeCancel, EndKeys, ServeReset, TakePending, ResolveFails, EndTurn,
                      appVars
  <2>3. CASE ResolveSucceeds
    BY <1>1, <2>3 DEF ResolveSucceeds, AddResolved
  <2>4. CASE ServeRemove
    <3>1. selectedHop' = 0 \/ selectedHop' = selectedHop
      BY <2>4 DEF ServeRemove, RemoveAtActive
    <3>2. UNCHANGED <<cancelled, rows, hopCount, inputVars, resetRequested, shouldQuit>>
          /\ removeRequested' = FALSE /\ pc' = "end"
      BY <2>4 DEF ServeRemove
    <3>3. selectedHop' \in Nat BY <1>1, <3>1
    <3>4. QED BY <1>1, <3>2, <3>3
  <2>5. QED BY <1>3, <2>1, <2>2, <2>3, <2>4 DEF LoopStep
<1>4. CASE GrowTable
  <2>1. rows' \in [Id -> 0..MaxRows]
    <3>1. PICK id \in ToSet(states), n \in 1..MaxRows : rows' = [rows EXCEPT ![id] = n]
      BY <1>4 DEF GrowTable
    <3>2. n \in 0..MaxRows BY TuiAssumption
    <3>3. QED BY <1>1, <3>1, <3>2
  <2>2. UNCHANGED <<targetVars, cancelled, pc, hopCount, appVars>>
    BY <1>4 DEF GrowTable
  <2>3. QED BY <1>1, <2>1, <2>2 DEF appVars
<1>5. CASE TerminalFails \/ CancelAll \/ UNCHANGED vars
  BY <1>1, <1>5 DEF TerminalFails, CancelAll, vars, appVars
<1>6. QED BY <1>2, <1>3, <1>4, <1>5 DEF Next

\* Tables grow, the count is read from the active one, and the selection moves
\* within the count.
LEMMA SelectionSteps ==
  ASSUME LoopInv, [Next]_vars
  PROVE  /\ \A id \in Id : rows'[id] >= rows[id]
         /\ nextId' >= nextId
         /\ hopCount' \in {hopCount, rows[ActiveId]}
         /\ selectedHop' \in {selectedHop, 0, NextHop, PrevHop}
<1> USE DEF loopVars, targetVars, selectVars
<1>1. TypeOK BY DEF LoopInv
<1>2. CASE GrowTable
  <2>1. \A id \in Id : rows'[id] >= rows[id]
    BY <1>1, <1>2 DEF GrowTable, TypeOK
  <2>2. QED BY <1>1, <1>2, <2>1 DEF GrowTable, appVars, TypeOK
<1>3. CASE Key
  BY <1>1, <1>3 DEF Key, KeyTarget, KeyHop, KeyReset, KeyRemove, KeyAdd, KeyQuit, KeyType,
                    KeyEsc, KeyEnter, NextTarget, PrevTarget, TypeOK
<1>4. CASE LoopStep
  BY <1>1, <1>4 DEF LoopStep, Frame, Tick, SeeCancel, EndKeys, ServeReset, TakePending,
                    ResolveFails, ResolveSucceeds, AddResolved, ServeRemove, RemoveAtActive,
                    EndTurn, appVars, TypeOK
<1>5. CASE TerminalFails \/ CancelAll \/ UNCHANGED vars
  BY <1>1, <1>5 DEF TerminalFails, CancelAll, vars, appVars, TypeOK
<1>6. QED BY <1>2, <1>3, <1>4, <1>5 DEF Next

\* An interval that ends later holds the same numbers.
LEMMA WiderInterval ==
  ASSUME NEW m \in Nat, NEW n \in Nat, m <= n
  PROVE  1..(m - 1) \subseteq 1..(n - 1)
OBVIOUS

\* An interval grows by its new end.
LEMMA LongerInterval ==
  ASSUME NEW n \in Nat, n >= 1
  PROVE  1..n = (1..(n - 1)) \cup {n}
OBVIOUS

LEMMA SelectionStep ==
  ASSUME LoopInv, [Next]_vars
  PROVE  HopCountOfSomeTable' /\ SelectionOfSomeTable'
<1>1. HopCountOfSomeTable /\ SelectionOfSomeTable /\ IdsRise /\ TypeOK
  BY DEF LoopInv
<1>2. /\ nextId \in Nat /\ nextId' \in Nat /\ nextId <= nextId' /\ nextId <= MaxIds + 1
      /\ MaxIds \in Nat
  BY ListTypes, ListStep, SelectionSteps
<1>3. hopCount \in Nat /\ selectedHop \in Nat /\ MaxRows \in Nat
  BY <1>1, TuiAssumption DEF TypeOK
<1>4. ASSUME NEW id \in 1..(nextId - 1)
      PROVE  /\ id \in 1..(nextId' - 1)
             /\ rows[id] \in Nat /\ rows'[id] \in Nat /\ rows[id] <= rows'[id]
  <2>1. id \in Id BY <1>2 DEF Id
  <2>2. rows[id] \in 0..MaxRows BY <1>1, <2>1 DEF TypeOK
  <2>3. rows'[id] \in 0..MaxRows BY <2>1, OtherTypes DEF OthersTypeOK
  <2>4. rows'[id] >= rows[id] BY <2>1, SelectionSteps
  <2>5. id \in 1..(nextId' - 1) BY <1>2, WiderInterval
  <2>6. QED BY <1>3, <2>2, <2>3, <2>4, <2>5
<1>5. ActiveId \in 1..(nextId - 1)
  <2>1. states[active + 1] < nextId BY <1>1, ListTypes DEF IdsRise
  <2>2. states[active + 1] \in 1..MaxIds BY ListTypes DEF Id
  <2>3. QED BY <1>2, <2>1, <2>2 DEF ActiveId
<1>6. HopCountOfSomeTable'
  <2>1. CASE hopCount' = 0
    BY <2>1 DEF HopCountOfSomeTable
  <2>2. CASE hopCount' = hopCount /\ hopCount # 0
    <3>1. PICK id \in 1..(nextId - 1) : hopCount <= rows[id]
      BY <1>1, <2>2 DEF HopCountOfSomeTable
    <3>2. id \in 1..(nextId' - 1) /\ hopCount' <= rows'[id]
      BY <1>3, <1>4, <2>2, <3>1
    <3>3. QED BY <3>2 DEF HopCountOfSomeTable
  <2>3. CASE hopCount' = rows[ActiveId]
    <3>1. ActiveId \in 1..(nextId' - 1) /\ hopCount' <= rows'[ActiveId]
      BY <1>4, <1>5, <2>3
    <3> DEFINE id == ActiveId
    <3>2. id \in 1..(nextId' - 1) /\ hopCount' <= rows'[id]
      BY <3>1
    <3> HIDE DEF id
    <3>3. QED BY <3>2 DEF HopCountOfSomeTable
  <2>4. QED BY <2>1, <2>2, <2>3, SelectionSteps
<1>7. SelectionOfSomeTable'
  <2>1. CASE selectedHop' = 0
    BY <2>1 DEF SelectionOfSomeTable
  <2>2. CASE selectedHop' <= selectedHop /\ selectedHop' \in Nat /\ selectedHop # 0
    <3>1. PICK id \in 1..(nextId - 1) : selectedHop < rows[id]
      BY <1>1, <2>2 DEF SelectionOfSomeTable
    <3>2. id \in 1..(nextId' - 1) /\ selectedHop' < rows'[id]
      BY <1>3, <1>4, <2>2, <3>1
    <3>3. QED BY <3>2 DEF SelectionOfSomeTable
  <2>3. CASE selectedHop' = selectedHop + 1 /\ selectedHop + 1 < hopCount
    <3>1. PICK id \in 1..(nextId - 1) : hopCount <= rows[id]
      BY <1>1, <1>3, <2>3 DEF HopCountOfSomeTable
    <3>2. id \in 1..(nextId' - 1) /\ selectedHop' < rows'[id]
      BY <1>3, <1>4, <2>3, <3>1
    <3>3. QED BY <3>2 DEF SelectionOfSomeTable
  <2>4. \/ selectedHop' = 0
        \/ selectedHop' <= selectedHop /\ selectedHop' \in Nat /\ selectedHop # 0
        \/ selectedHop' = selectedHop + 1 /\ selectedHop + 1 < hopCount
    BY <1>3, SelectionSteps DEF NextHop, PrevHop
  <2>5. QED BY <2>1, <2>2, <2>3, <2>4
<1>8. QED BY <1>6, <1>7

\* The inductive invariant of the event loop.
THEOREM LoopInvariant == Spec => []LoopInv
<1>1. LoopInv /\ [Next]_vars => LoopInv'
  <2> SUFFICES ASSUME LoopInv, [Next]_vars PROVE LoopInv'
    OBVIOUS
  <2>1. TypeOK' BY ListStep, OtherTypes DEF TypeOK, OthersTypeOK
  <2>2. QED BY <2>1, ListStep, SelectionStep DEF LoopInv
<1>2. QED BY InitLoop, <1>1, PTL DEF Spec

\* The state of the event loop is well formed.
THEOREM TypeCorrect == Spec => []TypeOK
<1>1. LoopInv => TypeOK BY DEF LoopInv
<1>2. QED BY LoopInvariant, <1>1, PTL

\* states[active] and target_cancels[active] never panic, and the arrow keys
\* wrap around at the list's end, however keys, additions and removals follow
\* each other (run_event_loop, next_target, prev_target).
THEOREM IndexStaysInList == Spec => []IndexInList
<1>1. LoopInv => IndexInList BY DEF LoopInv
<1>2. QED BY LoopInvariant, <1>1, PTL

\* A target runs exactly as long as it is listed (target_cancels).
THEOREM TokensStayAligned == Spec => []TokensAligned
<1>1. LoopInv => TokensAligned BY DEF LoopInv
<1>2. QED BY LoopInvariant, <1>1, PTL

\* The selection is a row of some table, although it is moved within a count
\* that may be another target's (next_hop).
THEOREM SelectionStaysInSomeTable == Spec => []SelectionOfSomeTable
<1>1. LoopInv => SelectionOfSomeTable BY DEF LoopInv
<1>2. QED BY LoopInvariant, <1>1, PTL

-----------------------------------------------------------------------------
(* Requests.                                                               *)

\* Each request is gone once its part of the turn is over.
RequestsGone ==
  /\ pc \in {"frame", "select", "pending", "resolving", "remove", "end"} => ~resetRequested
  /\ pc \in {"frame", "select", "resolving", "remove", "end"} => pending = NoName
  /\ pc \in {"frame", "select", "end"} => ~removeRequested

\* What a step may do to the requests.
KeepsRequests ==
  /\ pc' = "frame" => pending' = NoName /\ ~resetRequested' /\ ~removeRequested'
  /\ pending # NoName /\ pending' # pending =>
       IF pc = "keys" THEN pending' # NoName ELSE pc' = "resolving"

LEMMA RequestStep ==
  ASSUME RequestsGone, [Next]_vars
  PROVE  RequestsGone' /\ KeepsRequests
<1> USE DEF RequestsGone, KeepsRequests
<1>1. CASE Key
  <2>1. pc = "keys" /\ pc' = "keys" /\ (pending' = pending \/ pending' # NoName)
    BY <1>1 DEF Key, KeyTarget, KeyHop, KeyReset, KeyRemove, KeyAdd, KeyQuit, KeyType, KeyEsc,
                KeyEnter, Submitted, InKeys, inputVars
  <2>2. QED BY <2>1
<1>2. CASE LoopStep
  <2>1. CASE Frame \/ Tick \/ SeeCancel \/ EndKeys \/ ResolveFails \/ EndTurn
    BY <2>1 DEF Frame, Tick, SeeCancel, EndKeys, ResolveFails, EndTurn, appVars, inputVars,
                requestVars
  <2>2. CASE ServeReset BY <2>2 DEF ServeReset, inputVars
  <2>3. CASE TakePending BY <2>3 DEF TakePending, requestVars
  <2>4. CASE ResolveSucceeds BY <2>4 DEF ResolveSucceeds, inputVars, requestVars
  <2>5. CASE ServeRemove BY <2>5 DEF ServeRemove, inputVars
  <2>6. QED BY <1>2, <2>1, <2>2, <2>3, <2>4, <2>5 DEF LoopStep
<1>3. CASE TerminalFails \/ GrowTable \/ CancelAll \/ UNCHANGED vars
  BY <1>3 DEF TerminalFails, GrowTable, CancelAll, vars, appVars, inputVars, requestVars
<1>4. QED BY <1>1, <1>2, <1>3 DEF Next

\* No request outlives its turn, and a submitted name is lost only to a later
\* one of the same batch, whatever keys follow each other (run_event_loop,
\* handle_input_mode_key).
THEOREM RequestsAreServed == Spec => RequestsServed
<1>1. Init => RequestsGone
  BY DEF Init, RequestsGone
<1>2. RequestsGone /\ [Next]_vars => RequestsGone' /\ [KeepsRequests]_vars
  BY RequestStep
<1>3. Spec => [][KeepsRequests]_vars
  BY <1>1, <1>2, PTL DEF Spec
<1>4. QED BY <1>3 DEF RequestsServed, KeepsRequests

-----------------------------------------------------------------------------
(* The loop implements the list of targets.                                *)

\* The targets being traced, as the refinement mapping has them.
Traced == IF cancelled THEN {} ELSE (1..(nextId - 1)) \ fired

\* Only CancelAll touches the global token, and it touches nothing else.
LEMMA CancelSteps ==
  ASSUME [Next]_vars
  PROVE  CancelAll \/ UNCHANGED cancelled
<1> USE DEF loopVars, appVars
<1>1. CASE Key
  BY <1>1 DEF Key, KeyTarget, KeyHop, KeyReset, KeyRemove, KeyAdd, KeyQuit, KeyType, KeyEsc,
              KeyEnter
<1>2. CASE LoopStep
  BY <1>2 DEF LoopStep, Frame, Tick, SeeCancel, EndKeys, ServeReset, TakePending, ResolveFails,
              ResolveSucceeds, ServeRemove, EndTurn
<1>3. CASE TerminalFails \/ GrowTable \/ CancelAll \/ UNCHANGED vars
  BY <1>3 DEF TerminalFails, GrowTable, vars
<1>4. QED BY <1>1, <1>2, <1>3 DEF Next

LEMMA InitList ==
  ASSUME Init
  PROVE  List!Init
<1>1. LoopInv BY InitLoop
<1>2. PICK n \in Id : states = [i \in 1..n |-> i]
  BY DEF Init
<1>3. n \in Nat /\ Len(states) = n /\ nextId = n + 1
  BY <1>2, TuiAssumption DEF Init, Id
<1>4. \A i \in 1..n : states[i] = i
  BY <1>2, <1>3
<1>5. ToSet(states) = 1..n
  <2>1. \A x : x \in ToSet(states) <=> \E k \in 1..n : x = states[k]
    BY <1>1, <1>3, ListTypes, SetOfSeq
  <2>2. \A x : x \in ToSet(states) <=> x \in 1..n
    BY <1>4, <2>1
  <2>3. QED BY <2>2, Zenon
<1>6. Traced = ToSet(states)
  BY <1>3, <1>5 DEF Init, Traced
<1>7. ToSet(states) = List!ToSet(states)
  BY DEF ToSet, List!ToSet
<1>8. QED BY <1>6, <1>7, Zenon DEF Init, Traced, List!Init

\* Up, Down, and every step that is none of the list's business.
LEMMA SelectRefined ==
  ASSUME LoopInv, ListKept, Moves, UNCHANGED cancelled
  PROVE  List!Select
<1>1. active' \in 0..(Len(states) - 1)
  BY MovesInList
<1>2. UNCHANGED <<states, fired, nextId, cancelled>>
  BY DEF ListKept, targetVars
<1>3. QED BY <1>1, <1>2 DEF List!Select

LEMMA AddRefined ==
  ASSUME LoopInv, AddResolved, nextId <= MaxIds, UNCHANGED <<fired, cancelled>>
  PROVE  List!Add
<1>1. nextId \in Id /\ nextId \in Nat /\ nextId >= 1 /\ nextId' = nextId + 1
  BY ListTypes DEF Id, AddResolved
<1>2. \A other \in ToSet(states) : other < nextId
  <2>1. \A x : x \in ToSet(states) <=> \E k \in 1..Len(states) : x = states[k]
    BY ListTypes, SetOfSeq
  <2>2. QED BY <2>1 DEF LoopInv, IdsRise
<1>3. states' = Append(states, nextId)
  BY DEF AddResolved
<1>4. active' = Len(states)
  BY ListTypes, AppendProperties DEF AddResolved
<1>5. Traced' = IF cancelled THEN Traced ELSE Traced \cup {nextId}
  <2>1. nextId \notin fired
    BY <1>1 DEF LoopInv, IdsRise
  <2>2. 1..(nextId' - 1) = (1..(nextId - 1)) \cup {nextId}
    <3>1. 1..nextId = (1..(nextId - 1)) \cup {nextId}
      BY <1>1, LongerInterval
    <3>2. nextId' - 1 = nextId BY <1>1
    <3>3. QED BY <3>1, <3>2
  <2>3. QED BY <2>1, <2>2 DEF Traced
<1>6. ToSet(states) = List!ToSet(states)
  BY DEF ToSet, List!ToSet
<1>7. QED BY <1>1, <1>2, <1>3, <1>4, <1>5, <1>6 DEF Traced, List!Add

LEMMA RemoveRefined ==
  ASSUME LoopInv, RemoveAtActive, Len(states) > 1, UNCHANGED <<nextId, cancelled>>
  PROVE  List!RemoveActive
<1>1. /\ cancels = states /\ states' = RemoveAt(states, active + 1)
      /\ fired' = fired \cup {states[active + 1]}
  BY ListTypes DEF RemoveAtActive
<1>2. Traced' = Traced \ {states[active + 1]}
  BY <1>1 DEF Traced
<1>3. active' = IF active < Len(states') THEN active ELSE Len(states') - 1
  <2>1. Len(states') = Len(states) - 1
    BY <1>1, ListTypes, Removed
  <2>2. QED BY <2>1, ListTypes DEF RemoveAtActive
<1>4. RemoveAt(states, active + 1) = List!RemoveAt(states, active + 1)
  BY DEF RemoveAt, List!RemoveAt
<1>5. QED BY <1>1, <1>2, <1>3, <1>4, Zenon DEF Traced, List!RemoveActive

\* What the user sees of the targets is what TargetList promises, whatever the
\* order of keys, lookups and cancellations (run_event_loop, spawn_target).
THEOREM ImplementsList == Spec => ListSpec
<1>1. Init => List!Init BY InitList
<1>2. LoopInv /\ [Next]_vars => [List!Next]_(List!listVars)
  <2> SUFFICES ASSUME LoopInv, [Next]_vars
               PROVE  List!Next
    OBVIOUS
  <2>1. CASE CancelAll
    <3>1. List!StopAll
      BY <2>1 DEF CancelAll, targetVars, appVars, selectVars, List!StopAll
    <3>2. QED BY <3>1 DEF List!Next
  <2>2. CASE UNCHANGED cancelled
    <3>1. CASE ListKept /\ Moves
      BY <2>2, <3>1, SelectRefined DEF List!Next
    <3>2. CASE AddResolved /\ nextId <= MaxIds /\ UNCHANGED fired
      BY <2>2, <3>2, AddRefined DEF List!Next
    <3>3. CASE RemoveAtActive /\ Len(states) > 1 /\ UNCHANGED nextId
      BY <2>2, <3>3, RemoveRefined DEF List!Next
    <3>4. QED BY <3>1, <3>2, <3>3, ListSteps
  <2>3. QED BY <2>1, <2>2, CancelSteps
<1>3. QED BY <1>1, <1>2, LoopInvariant, PTL DEF Spec, ListSpec, List!Spec

=============================================================================

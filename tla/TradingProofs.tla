---------------------------- MODULE TradingProofs ---------------------------
(***************************************************************************)
(* Theorems about TradingDay, for any universe, inertia, number of cycles  *)
(* and wiring.                                                             *)
(***************************************************************************)
EXTENDS TradingDay, WellFoundedInduction, TLAPS

USE SizesAssumption, WiringsAssumption DEF session

-----------------------------------------------------------------------------
(***************************************************************************)
(* Types.                                                                  *)
(***************************************************************************)

\* A set of symbols has a first one.
LEMMA CurrentIsFirst ==
    ASSUME queue \subseteq Symbol, queue # {}
    PROVE  Current \in queue /\ \A o \in queue : Current <= o
<1>1. queue \in SUBSET Nat
  BY DEF Symbol
<1>2. PICK s \in queue : \A o \in queue : ~(<<o, s>> \in OpToRel(<, Nat))
  BY <1>1, NatLessThanWellFounded, WFMin, Zenon
<1>3. \A o \in queue : ~(o < s)
  BY <1>1, <1>2 DEF OpToRel
<1>4. \A o \in queue : s <= o
  BY <1>1, <1>3
<1>5. QED
  BY <1>4 DEF Current

\* What is planned, queued and booked where the cycle is.
Stage ==
    /\ pc # "idle" => cycle \in 1..MaxCycles
    /\ pc \in {"idle", "opened", "planned", "ended"} => queue = {}
    /\ pc = "opened" => DOMAIN plans = {}

Typed == TypeOK /\ Stage

LEMMA InitTyped == Init => Typed
<1> SUFFICES ASSUME Init PROVE Typed
  OBVIOUS
<1>1. DOMAIN plans = {} /\ queue = {} /\ cycle \in 0..MaxCycles
  BY DEF Init, NoPlans
<1>2. target \in [Symbol -> 0..MaxWeight]
  BY DEF Init, Nothing
<1>3. ledger \in Seq(FillSet)
  BY DEF Init
<1>4. TypeOK
  BY <1>1, <1>2, <1>3 DEF Init, TypeOK
<1>5. QED
  BY <1>1, <1>4 DEF Init, Typed, Stage

LEMMA FillType ==
    ASSUME Typed, pc # "idle", NEW s \in DOMAIN plans
    PROVE  FillOf(s) \in FillSet /\ FillOf(s).cycle = cycle /\ FillOf(s).symbol = s
  BY DEF Typed, TypeOK, Stage, FillOf, FillSet, PlanSet

LEMMA SharesType == \A w \in 0..MaxWeight : Shares(w) \in Nat
  BY DEF Shares

LEMMA StepTyped == Typed /\ [Next]_vars => Typed'
<1> SUFFICES ASSUME Typed, [Next]_vars PROVE Typed'
  OBVIOUS
<1>1. CASE EditKillSwitch
  BY <1>1 DEF EditKillSwitch, Typed, TypeOK, Stage
<1>2. CASE StartCycle
  <2>1. DOMAIN plans' = {} /\ queue' = {} /\ cycle' \in 1..MaxCycles
    BY <1>2 DEF StartCycle, NoPlans, Typed, TypeOK, Stage
  <2>2. target' \in [Symbol -> 0..MaxWeight]
    BY <1>2 DEF StartCycle, Nothing
  <2>3. QED
    BY <1>2, <2>1, <2>2 DEF StartCycle, Typed, TypeOK, Stage
<1>3. CASE SkipKilled \/ SkipUnusable \/ EndCycle
  BY <1>3 DEF SkipKilled, SkipUnusable, EndCycle, End, Typed, TypeOK, Stage
<1>4. CASE BuildPortfolio
  <2>1. target' \in [Symbol -> 0..MaxWeight] /\ plans' = PlansFor(target', Holdings)
    BY <1>4 DEF BuildPortfolio
  <2>2. DOMAIN plans' \subseteq Symbol /\ \A s \in DOMAIN plans' : plans'[s] \in PlanSet
    <3>1. \A s \in Symbol : Shares(target'[s]) \in Nat
      BY <2>1, SharesType
    <3>2. QED
      BY <2>1, <3>1 DEF PlansFor, PlanSet, Side
  <2>3. QED
    BY <1>4, <2>1, <2>2 DEF BuildPortfolio, Typed, TypeOK, Stage
<1>5. CASE Submit
  <2>1. queue' \subseteq DOMAIN plans /\ lost' \subseteq DOMAIN plans
    BY <1>5 DEF Submit, Successful
  <2>2. QED
    BY <1>5, <2>1 DEF Submit, Typed, TypeOK, Stage
<1>6. CASE RecordFill
  <2>1. Current \in DOMAIN plans
    BY <1>6, CurrentIsFirst DEF RecordFill, Typed, TypeOK
  <2>2. FillOf(Current) \in FillSet
    BY <1>6, <2>1, FillType DEF RecordFill
  <2>3. ledger' \in Seq(FillSet)
    BY <1>6, <2>2 DEF RecordFill, Typed, TypeOK
  <2>4. QED
    BY <1>6, <2>3 DEF RecordFill, Rest, Typed, TypeOK, Stage
<1>7. CASE WriteFails
  <2>1. Current \in Symbol
    BY <1>7, CurrentIsFirst DEF WriteFails, Typed, TypeOK
  <2>2. QED
    BY <1>7, <2>1 DEF WriteFails, Rest, Typed, TypeOK, Stage
<1>8. CASE Crash
  BY <1>8 DEF Crash, Typed, TypeOK, Stage
<1>9. CASE UNCHANGED vars
  BY <1>9 DEF vars, Typed, TypeOK, Stage
<1>10. QED
  BY <1>1, <1>2, <1>3, <1>4, <1>5, <1>6, <1>7, <1>8, <1>9 DEF Next

\* Plans, fills and ledger keep their types, and only planned orders are queued, for any
\* universe, number of cycles and wiring (pipeline.py, nautilus_bridge.py).
THEOREM TradingTypes == Spec => []TypeOK
<1>1. Typed => TypeOK
  BY DEF Typed
<1>2. QED
  BY <1>1, InitTyped, StepTyped, PTL DEF Spec

-----------------------------------------------------------------------------
(***************************************************************************)
(* Nothing is booked twice.                                                *)
(***************************************************************************)

\* The ledger is in order, and what this cycle has still to write comes after it.
InOrder ==
    /\ \A k \in DOMAIN ledger : ledger[k].cycle <= cycle
    /\ pc \in {"opened", "planned"} => Booked = {}
    /\ \A k \in Booked, s \in queue : ledger[k].symbol < s
    /\ BookedOnce

LEMMA InitInOrder == Init => InOrder
  BY DEF Init, InOrder, Booked, BookedOnce

LEMMA LedgerTypes ==
    ASSUME Typed
    PROVE  /\ Len(ledger) \in Nat /\ DOMAIN ledger = 1..Len(ledger) /\ cycle \in Nat
           /\ \A k \in DOMAIN ledger : ledger[k].cycle \in Nat /\ ledger[k].symbol \in Nat
<1>1. \A k \in DOMAIN ledger : ledger[k] \in FillSet
  BY DEF Typed, TypeOK
<1>2. \A f \in FillSet : f.cycle \in Nat /\ f.symbol \in Nat
  BY DEF FillSet, Symbol
<1>3. QED
  BY <1>1, <1>2 DEF Typed, TypeOK

\* Steps that leave the ledger alone.
LEMMA LedgerKept ==
    ASSUME Typed, InOrder, UNCHANGED ledger, queue' \subseteq queue \/ Booked = {},
           \/ cycle' = cycle /\ (pc' \in {"opened", "planned"} => Booked = {})
           \/ cycle' = cycle + 1 /\ queue' = {}
    PROVE  InOrder'
<1>1. BookedOnce'
  BY DEF InOrder, BookedOnce
<1>2. CASE cycle' = cycle /\ (pc' \in {"opened", "planned"} => Booked = {})
  <2>1. Booked' = Booked
    BY <1>2 DEF Booked
  <2>2. QED
    BY <1>1, <1>2, <2>1 DEF InOrder
<1>3. CASE cycle' = cycle + 1 /\ queue' = {}
  <2>1. \A k \in DOMAIN ledger : ledger[k].cycle < cycle'
    BY <1>3, LedgerTypes DEF InOrder
  <2>2. Booked' = {}
    BY <2>1, <1>3, LedgerTypes DEF Booked
  <2>3. \A k \in DOMAIN ledger' : ledger'[k].cycle <= cycle'
    BY <1>3, <2>1, LedgerTypes
  <2>4. QED
    BY <1>1, <1>3, <2>2, <2>3 DEF InOrder
<1>4. QED
  BY <1>2, <1>3

\* The next fill is written.
LEMMA FillAdded ==
    ASSUME Typed, RecordFill
    PROVE  /\ Current \in queue /\ Current \in DOMAIN plans
           /\ Len(ledger') = Len(ledger) + 1 /\ DOMAIN ledger' = 1..(Len(ledger) + 1)
           /\ \A k \in 1..Len(ledger) : ledger'[k] = ledger[k]
           /\ ledger'[Len(ledger) + 1] = FillOf(Current)
           /\ FillOf(Current).cycle = cycle /\ FillOf(Current).symbol = Current
           /\ \A s : s \in queue' <=> s \in queue /\ s # Current
           /\ Booked' = Booked \cup {Len(ledger) + 1}
<1>1. Current \in queue /\ Current \in DOMAIN plans
  BY CurrentIsFirst DEF RecordFill, Typed, TypeOK
<1>2. FillOf(Current).cycle = cycle /\ FillOf(Current).symbol = Current
  BY <1>1, FillType DEF RecordFill
<1>3. ledger \in Seq(FillSet) /\ ledger' = Append(ledger, FillOf(Current)) /\ cycle' = cycle
  BY DEF RecordFill, Typed, TypeOK
<1>4. FillOf(Current) \in FillSet
  BY <1>1, FillType DEF RecordFill
<1>5. /\ Len(ledger') = Len(ledger) + 1 /\ DOMAIN ledger' = 1..(Len(ledger) + 1)
      /\ \A k \in 1..Len(ledger) : ledger'[k] = ledger[k]
      /\ ledger'[Len(ledger) + 1] = FillOf(Current)
  BY <1>3, <1>4
<1>6. Booked' = Booked \cup {Len(ledger) + 1}
  BY <1>2, <1>3, <1>5, LedgerTypes DEF Booked
<1>7. QED
  BY <1>1, <1>2, <1>5, <1>6 DEF RecordFill, Rest

LEMMA StepInOrder == Typed /\ InOrder /\ [Next]_vars => InOrder'
<1> SUFFICES ASSUME Typed, InOrder, [Next]_vars PROVE InOrder'
  OBVIOUS
<1>1. CASE StartCycle
  BY <1>1, LedgerKept DEF StartCycle, Typed, Stage
<1>2. CASE EditKillSwitch \/ SkipKilled \/ SkipUnusable \/ BuildPortfolio \/ EndCycle \/ Crash
  <2>1. /\ UNCHANGED <<ledger, cycle>> /\ queue' \subseteq queue
        /\ pc' \in {"opened", "planned"} => pc \in {"opened", "planned"}
    BY <1>2 DEF EditKillSwitch, SkipKilled, SkipUnusable, End, BuildPortfolio, EndCycle, Crash
  <2>2. QED
    BY <2>1, LedgerKept DEF InOrder
<1>3. CASE Submit
  BY <1>3, LedgerKept DEF Submit, InOrder
<1>4. CASE WriteFails
  BY <1>4, LedgerKept DEF WriteFails, Rest
<1>5. CASE RecordFill
  <2>1. cycle' = cycle /\ pc' = "reconciling"
    BY <1>5 DEF RecordFill
  <2>2. \A k \in DOMAIN ledger' : ledger'[k].cycle <= cycle'
    BY <1>5, <2>1, FillAdded, LedgerTypes DEF InOrder
  <2>3. \A s \in queue : Current <= s /\ s \in Nat
    BY <1>5, CurrentIsFirst DEF RecordFill, Typed, TypeOK, Symbol
  <2>4. \A k \in Booked' : ledger'[k].symbol <= Current
    <3>1. \A k \in Booked : k \in 1..Len(ledger) /\ ledger[k].symbol < Current
      BY <1>5, FillAdded, LedgerTypes DEF InOrder, Booked
    <3>2. Current \in Nat
      BY <1>5, <2>3, FillAdded
    <3>3. QED
      BY <1>5, <3>1, <3>2, FillAdded, LedgerTypes
  <2>5. \A k \in Booked', s \in queue' : ledger'[k].symbol < s
    <3>1. \A s \in queue' : s \in Nat /\ Current < s /\ Current \in Nat
      BY <1>5, <2>3, FillAdded
    <3>2. \A k \in Booked' : ledger'[k].symbol \in Nat
      BY <1>5, <2>3, FillAdded, LedgerTypes DEF Booked
    <3>3. QED
      BY <2>4, <3>1, <3>2
  <2>6. BookedOnce'
    <3>1. SUFFICES ASSUME NEW j \in DOMAIN ledger', NEW k \in DOMAIN ledger', j < k
                   PROVE  \/ ledger'[j].cycle < ledger'[k].cycle
                          \/ /\ ledger'[j].cycle = ledger'[k].cycle
                             /\ ledger'[j].symbol < ledger'[k].symbol
      BY DEF BookedOnce
    <3>2. j \in 1..Len(ledger)
      BY <1>5, <3>1, FillAdded, LedgerTypes
    <3>3. CASE k \in 1..Len(ledger)
      BY <1>5, <3>1, <3>2, <3>3, FillAdded, LedgerTypes DEF InOrder, BookedOnce
    <3>4. CASE k \notin 1..Len(ledger)
      <4>1. k = Len(ledger) + 1
        BY <1>5, <3>4, FillAdded, LedgerTypes
      <4>2. ledger'[k].cycle = cycle /\ ledger'[k].symbol = Current
        BY <1>5, <4>1, FillAdded
      <4>3. CASE ledger[j].cycle = cycle
        <5>1. j \in Booked
          BY <3>2, <4>3, LedgerTypes DEF Booked
        <5>2. ledger[j].symbol < Current
          BY <1>5, <5>1, FillAdded DEF InOrder
        <5>3. QED
          BY <1>5, <3>2, <4>2, <4>3, <5>2, FillAdded
      <4>4. CASE ledger[j].cycle # cycle
        <5>1. ledger[j].cycle < cycle
          BY <3>2, <4>4, LedgerTypes DEF InOrder
        <5>2. QED
          BY <1>5, <3>2, <4>2, <5>1, FillAdded
      <4>5. QED
        BY <4>3, <4>4
    <3>5. QED
      BY <3>3, <3>4
  <2>7. QED
    BY <2>1, <2>2, <2>5, <2>6 DEF InOrder
<1>6. CASE UNCHANGED vars
  BY <1>6, LedgerKept DEF vars, InOrder
<1>7. QED
  BY <1>1, <1>2, <1>3, <1>4, <1>5, <1>6 DEF Next

\* However cycles crash and writes fail, no cycle books a symbol twice: the ledger is
\* grouped by cycle and within a cycle by symbol (reconcile, record_fill).
THEOREM NothingBookedTwice == Spec => []BookedOnce
<1>1. InOrder => BookedOnce
  BY DEF InOrder
<1>2. QED
  BY <1>1, InitTyped, StepTyped, InitInOrder, StepInOrder, PTL DEF Spec

-----------------------------------------------------------------------------
(***************************************************************************)
(* A finished cycle has booked its plan.                                   *)
(***************************************************************************)

Written(s) == \E k \in Booked : ledger[k] = FillOf(s)

\* While fills are written, every order of the plan is queued, lost or written, and
\* nothing else is written.
Accounted ==
    pc \in {"reconciling", "ended"} =>
        /\ \A k \in Booked : \E s \in DOMAIN plans : ledger[k] = FillOf(s)
        /\ \A s \in DOMAIN plans : s \notin queue => (s \in lost <=> ~Written(s))
        /\ \A s \in queue : s \notin lost

LEMMA InitAccounted == Init => Accounted
  BY DEF Init, Accounted

LEMMA StepAccounted == Typed /\ InOrder /\ Accounted /\ [Next]_vars => Accounted'
<1> SUFFICES ASSUME Typed, InOrder, Accounted, [Next]_vars PROVE Accounted'
  OBVIOUS
<1>1. CASE StartCycle \/ Crash
  BY <1>1 DEF StartCycle, Crash, Accounted
<1>2. CASE SkipKilled \/ SkipUnusable
  <2>1. pc = "opened" /\ UNCHANGED <<ledger, cycle, plans, queue>>
    BY <1>2 DEF SkipKilled, SkipUnusable, End
  <2>2. DOMAIN plans = {} /\ queue = {} /\ Booked = {}
    BY <2>1 DEF Typed, Stage, InOrder
  <2>3. DOMAIN plans' = {} /\ queue' = {} /\ Booked' = {}
    BY <2>1, <2>2 DEF Booked
  <2>4. QED
    BY <2>3 DEF Accounted
<1>3. CASE BuildPortfolio
  <2>1. pc = "opened" /\ UNCHANGED <<ledger, cycle, queue>> /\ (pc' = "planned" \/ DOMAIN plans' = {})
    BY <1>3 DEF BuildPortfolio
  <2>2. queue' = {} /\ Booked' = {}
    BY <2>1 DEF Typed, Stage, InOrder, Booked
  <2>3. pc' \in {"planned", "ended"}
    BY <1>3 DEF BuildPortfolio
  <2>4. QED
    BY <2>1, <2>2, <2>3 DEF Accounted
<1>4. CASE Submit
  <2>1. PICK outcome \in [DOMAIN plans -> Outcomes] :
          queue' = Successful(outcome) /\ lost' = DOMAIN plans \ Successful(outcome)
    BY <1>4 DEF Submit
  <2>2. Booked = {} /\ UNCHANGED <<ledger, cycle, plans>>
    BY <1>4 DEF Submit, InOrder
  <2>3. Booked' = {}
    BY <2>2 DEF Booked
  <2>4. QED
    BY <2>1, <2>2, <2>3 DEF Accounted, Written
<1>5. CASE RecordFill
  <2>1. /\ pc = "reconciling" /\ pc' = "reconciling" /\ UNCHANGED <<cycle, plans, lost>>
    BY <1>5 DEF RecordFill
  <2>2. \A s \in DOMAIN plans : FillOf(s)' = FillOf(s) /\ FillOf(s).symbol = s
    BY <2>1, FillType DEF FillOf
  <2>3. \A k \in Booked : k \in Booked' /\ ledger'[k] = ledger[k] /\ k \in 1..Len(ledger)
    BY <1>5, FillAdded, LedgerTypes DEF Booked
  <2>4. \A k \in Booked' : \E s \in DOMAIN plans' : ledger'[k] = FillOf(s)'
    BY <1>5, <2>1, <2>2, <2>3, FillAdded DEF Accounted
  <2>5. \A s \in DOMAIN plans : s = Current => Written(s)'
    BY <1>5, <2>2, FillAdded DEF Written
  <2>6. ASSUME NEW s \in DOMAIN plans, s # Current PROVE Written(s)' <=> Written(s)
    <3>1. FillOf(Current) # FillOf(s)
      BY <1>5, <2>2, <2>6, FillAdded
    <3>2. QED
      BY <1>5, <2>2, <2>3, <3>1, FillAdded DEF Written
  <2>7. \A s \in DOMAIN plans' : s \notin queue' => (s \in lost' <=> ~Written(s)')
    BY <1>5, <2>1, <2>5, <2>6, FillAdded DEF Accounted
  <2>8. \A s \in queue' : s \notin lost'
    BY <1>5, <2>1, FillAdded DEF Accounted
  <2>9. QED
    BY <2>4, <2>7, <2>8 DEF Accounted
<1>6. CASE WriteFails
  <2>1. /\ pc = "reconciling" /\ pc' = "reconciling" /\ UNCHANGED <<cycle, plans, ledger>>
        /\ lost' = lost \cup {Current} /\ queue' = queue \ {Current}
    BY <1>6 DEF WriteFails, Rest
  <2>2. Current \in queue /\ Current \in DOMAIN plans
    BY <1>6, CurrentIsFirst DEF WriteFails, Typed, TypeOK
  <2>3. Booked' = Booked /\ \A s \in DOMAIN plans : FillOf(s)' = FillOf(s) /\ FillOf(s).symbol = s
    BY <2>1, FillType DEF FillOf, Booked
  <2>4. ~Written(Current)
    <3>1. SUFFICES ASSUME NEW k \in Booked, ledger[k] = FillOf(Current) PROVE FALSE
      BY DEF Written
    <3>2. ledger[k].symbol < Current
      BY <2>2 DEF InOrder
    <3>3. ledger[k].symbol = Current /\ ledger[k].symbol \in Nat
      BY <2>2, <2>3, <3>1, LedgerTypes DEF Booked
    <3>4. QED
      BY <3>2, <3>3
  <2>5. \A s \in DOMAIN plans : Written(s)' <=> Written(s)
    BY <2>1, <2>3 DEF Written
  <2>6. QED
    BY <2>1, <2>2, <2>3, <2>4, <2>5 DEF Accounted
<1>7. CASE EndCycle \/ EditKillSwitch \/ UNCHANGED vars
  <2>1. /\ pc' = pc \/ (pc = "reconciling" /\ pc' = "ended")
        /\ UNCHANGED <<cycle, plans, ledger, queue, lost>>
    BY <1>7 DEF EndCycle, End, EditKillSwitch, vars
  <2>2. Booked' = Booked /\ \A s : FillOf(s)' = FillOf(s)
    BY <2>1 DEF FillOf, Booked
  <2>3. \A s : Written(s)' <=> Written(s)
    BY <2>1, <2>2 DEF Written
  <2>4. QED
    BY <2>1, <2>2, <2>3 DEF Accounted
<1>8. QED
  BY <1>1, <1>2, <1>3, <1>4, <1>5, <1>6, <1>7 DEF Next

\* A cycle that got to its end has booked exactly the orders of its plan that were neither
\* rejected nor lost to a failed write, for any targets, holdings and wiring (submit,
\* reconcile, record_fill).
THEOREM PlanIsBooked == Spec => []BooksThePlan
<1>1. Typed /\ Accounted => BooksThePlan
  BY DEF Typed, Stage, Accounted, BooksThePlan, Written
<1>2. QED
  BY <1>1, InitTyped, StepTyped, InitInOrder, StepInOrder, InitAccounted, StepAccounted,
     PTL DEF Spec
=============================================================================

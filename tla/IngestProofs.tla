---------------------------- MODULE IngestProofs ----------------------------
(***************************************************************************)
(* Theorems about Ingest, for any number of symbols, attempts and runs.    *)
(***************************************************************************)
EXTENDS Ingest, WellFoundedInduction, TLAPS

USE SizesAssumption DEF NaN, Absent

-----------------------------------------------------------------------------
(***************************************************************************)
(* The last usable value of a key.                                         *)
(***************************************************************************)

\* A set of positions has a last one: the one nearest to the end.
LEMMA LatestPosition ==
    ASSUME NEW n \in Nat, NEW S \in SUBSET (1..n), S # {}
    PROVE  \E i \in S : \A j \in S : j <= i
<1> DEFINE T == {n - i : i \in S}
<1>1. \A i \in S : i \in Int /\ n - i \in Nat
  OBVIOUS
<1>2. T \in SUBSET Nat /\ T # {}
  BY <1>1
<1>3. PICK x \in T : \A y \in T : ~(<<y, x>> \in OpToRel(<, Nat))
  <2> HIDE DEF T
  <2>1. QED
    BY <1>2, NatLessThanWellFounded, WFMin, Zenon
<1>4. PICK i \in S : x = n - i
  OBVIOUS
<1>5. \A j \in S : ~(n - j < n - i)
  BY <1>2, <1>3, <1>4 DEF OpToRel
<1>6. \A j \in S : j <= i
  BY <1>1, <1>5
<1>7. QED
  BY <1>6

LEMMA LastIsUsable ==
    ASSUME NEW q \in Seq(RowSet), NEW s, Positions(q, s) # {}
    PROVE  /\ Last(Positions(q, s)) \in Positions(q, s)
           /\ \A j \in Positions(q, s) : j <= Last(Positions(q, s))
<1>1. Positions(q, s) \subseteq 1..Len(q) /\ Len(q) \in Nat
  BY DEF Positions
<1>2. \E i \in Positions(q, s) : \A j \in Positions(q, s) : j <= i
  BY <1>1, LatestPosition
<1>3. QED
  BY <1>2 DEF Last

\* It is a value of a run, or what there is otherwise.
LEMMA LastValueType ==
    ASSUME NEW q \in Seq(RowSet), NEW s, NEW x
    PROVE  /\ Positions(q, s) = {} => LastValue(q, s, x) = x
           /\ Positions(q, s) # {} => LastValue(q, s, x) \in Value
<1>1. CASE Positions(q, s) = {}
  BY <1>1 DEF LastValue
<1>2. CASE Positions(q, s) # {}
  <2>1. Last(Positions(q, s)) \in DOMAIN q /\ q[Last(Positions(q, s))].value # NaN
    BY <1>2, LastIsUsable DEF Positions
  <2>2. \A i \in DOMAIN q : q[i] \in RowSet
    OBVIOUS
  <2>3. \A r \in RowSet : r.value \in Value \cup {NaN}
    BY DEF RowSet
  <2>4. QED
    BY <1>2, <2>1, <2>2, <2>3 DEF LastValue
<1>3. QED
  BY <1>1, <1>2

\* What a request can bring.
LEMMA RowsOfType ==
    ASSUME run \in 1..MaxRuns, NEW s \in Symbol, NEW new \in RowsOf(s)
    PROVE  /\ new \in Seq(RowSet) /\ Len(new) \in 0..2
           /\ \A i \in DOMAIN new : new[i].key = s
<1>1. First \in Value /\ Second \in Value
  BY DEF First, Second, Value
<1>2. \A v \in Value \cup {NaN} : Row(s, v) \in RowSet /\ Row(s, v).key = s
  BY DEF Row, RowSet
<1>3. new \in {<<>>, <<Row(s, First)>>, <<Row(s, First), Row(s, Second)>>, <<Row(s, NaN)>>,
               <<Row(s, First), Row(s, NaN)>>}
  BY DEF RowsOf
<1>4. /\ Row(s, First) \in RowSet /\ Row(s, First).key = s
      /\ Row(s, Second) \in RowSet /\ Row(s, Second).key = s
      /\ Row(s, NaN) \in RowSet /\ Row(s, NaN).key = s
  BY <1>1, <1>2
<1>5. CASE new = <<>>
  BY <1>5
<1>6. ASSUME NEW r \in RowSet, r.key = s, new = <<r>>
      PROVE  /\ new \in Seq(RowSet) /\ Len(new) \in 0..2
             /\ \A i \in DOMAIN new : new[i].key = s
  <2>1. new \in Seq(RowSet) /\ Len(new) = 1 /\ DOMAIN new = {1} /\ new[1] = r
    BY <1>6
  <2>2. QED
    BY <1>6, <2>1
<1>7. ASSUME NEW r \in RowSet, NEW t \in RowSet, r.key = s, t.key = s, new = <<r, t>>
      PROVE  /\ new \in Seq(RowSet) /\ Len(new) \in 0..2
             /\ \A i \in DOMAIN new : new[i].key = s
  <2>1. /\ new \in Seq(RowSet) /\ Len(new) = 2 /\ DOMAIN new = {1, 2}
        /\ new[1] = r /\ new[2] = t
    BY <1>7
  <2>2. QED
    BY <1>7, <2>1
<1>8. CASE new = <<Row(s, First)>> \/ new = <<Row(s, NaN)>>
  BY <1>4, <1>6, <1>8
<1>9. CASE new = <<Row(s, First), Row(s, Second)>> \/ new = <<Row(s, First), Row(s, NaN)>>
  BY <1>4, <1>7, <1>9
<1>10. QED
  BY <1>3, <1>5, <1>8, <1>9

-----------------------------------------------------------------------------
(***************************************************************************)
(* Types.                                                                  *)
(***************************************************************************)

\* Where the script is in a batch.
InBatch ==
    /\ pc # "idle" => run \in 1..MaxRuns
    /\ pc \notin {"idle", "closed"} => vendor \in Vendor
    /\ pc = "closed" => vendor = "none"
    /\ pc = "map" => request = 1 /\ rows = <<>>
    /\ pc = "request" => request \in 1..Requests /\ Len(rows) <= 2 * (request - 1)

Typed == TypeOK /\ InBatch

LEMMA InitTyped == Init => Typed
<1> SUFFICES ASSUME Init PROVE Typed
  OBVIOUS
<1>1. rows \in Seq(RowSet) /\ Len(rows) <= 2 * NSymbols
  BY DEF Init
<1>2. Empty \in [Symbol -> Value \cup {Absent}]
  BY DEF Empty
<1>3. request \in 1..(NSymbols + 1) /\ attempt \in 0..(MaxAttempts - 1) /\ run \in 0..MaxRuns
  BY DEF Init
<1>4. /\ table \in [Vendor -> [Symbol -> Value \cup {Absent}]]
      /\ got \in [Vendor -> [Symbol -> Value \cup {NaN}]]
      /\ kept \in [Vendor -> SUBSET Symbol]
      /\ before \in [Symbol -> Value \cup {Absent}]
  BY <1>2 DEF Init
<1>5. TypeOK
  BY <1>1, <1>3, <1>4 DEF Init, TypeOK
<1>6. QED
  BY <1>5 DEF Init, Typed, InBatch

\* A batch is opened.
LEMMA OpenTyped ==
    ASSUME Typed, NEW v \in Vendor \cup {"none"}, OpenBatch(v), run' \in 1..MaxRuns,
           UNCHANGED <<table>>, cik' \in {"unset", "loaded", "empty"}, told' \subseteq Vendor,
           got' \in [Vendor -> [Symbol -> Value \cup {NaN}]], kept' \in [Vendor -> SUBSET Symbol]
    PROVE  Typed'
<1>1. rows' \in Seq(RowSet) /\ Len(rows') = 0 /\ rows' = <<>>
  BY DEF OpenBatch
<1>2. before' \in [Symbol -> Value \cup {Absent}]
  BY DEF OpenBatch, Typed, TypeOK, Empty
<1>3. request' = 1 /\ 1 \in 1..Requests' /\ 1 \in 1..(NSymbols + 1)
  BY DEF OpenBatch, Requests
<1>4. attempt' \in 0..(MaxAttempts - 1) /\ Len(rows') <= 2 * NSymbols /\ run' \in 0..MaxRuns
  BY <1>1 DEF OpenBatch
<1>5. /\ vendor' \in Vendor \cup {"none"} /\ errors' \in BOOLEAN
      /\ pc' \in {"idle", "map", "request", "fetched", "insert", "stored", "closed"}
      /\ table' \in [Vendor -> [Symbol -> Value \cup {Absent}]]
  BY DEF OpenBatch, Typed, TypeOK
<1>6. TypeOK'
  BY <1>1, <1>2, <1>3, <1>4, <1>5 DEF TypeOK
<1>7. InBatch'
  BY <1>1, <1>3 DEF OpenBatch, InBatch, Vendor
<1>8. QED
  BY <1>6, <1>7 DEF Typed

LEMMA AfterType == \A v \in Vendor : After(v) \in Vendor \cup {"none"}
  BY DEF After, Vendor

\* The script goes on to the next request of its batch.
LEMMA AdvanceTyped ==
    ASSUME Typed, pc = "request", Advance, errors' \in BOOLEAN, UNCHANGED vendor,
           rows' \in Seq(RowSet), Len(rows') <= 2 * request,
           got' \in [Vendor -> [Symbol -> Value \cup {NaN}]]
    PROVE  Typed'
<1>1. request \in 1..Requests /\ Requests \in 1..NSymbols /\ Requests' = Requests
  BY DEF Typed, InBatch, Requests
<1>2. /\ request' = request + 1 /\ request' \in 1..(NSymbols + 1)
      /\ request # Requests => request' \in 1..Requests
  BY <1>1 DEF Advance
<1>3. Len(rows') \in Nat /\ Len(rows') <= 2 * NSymbols /\ Len(rows') <= 2 * (request' - 1)
  BY <1>1, <1>2
<1>4. TypeOK'
  BY <1>2, <1>3 DEF Typed, TypeOK, Advance
<1>5. InBatch'
  BY <1>1, <1>2, <1>3 DEF Typed, InBatch, Advance
<1>6. QED
  BY <1>4, <1>5 DEF Typed

LEMMA StepTyped == Typed /\ [Next]_vars => Typed'
<1> SUFFICES ASSUME Typed, [Next]_vars PROVE Typed'
  OBVIOUS
<1> USE DEF history, batch
<1>1. CASE StartRun
  <2>1. /\ run' \in 1..MaxRuns /\ UNCHANGED table /\ OpenBatch("finmind")
        /\ cik' \in {"unset", "loaded", "empty"} /\ told' \subseteq Vendor
    BY <1>1 DEF StartRun, Typed, TypeOK
  <2>2. /\ got' \in [Vendor -> [Symbol -> Value \cup {NaN}]]
        /\ kept' \in [Vendor -> SUBSET Symbol]
    BY <1>1 DEF StartRun, Typed, TypeOK, Empty
  <2>3. "finmind" \in Vendor
    BY DEF Vendor
  <2>4. QED
    BY <2>1, <2>2, <2>3, OpenTyped
<1>2. CASE Transient
  <2>1. attempt' \in 0..(MaxAttempts - 1)
    BY <1>2 DEF Transient, Typed, TypeOK
  <2>2. QED
    BY <1>2, <2>1 DEF Transient, Typed, TypeOK, InBatch, Requests
<1>3. CASE MapFetched \/ MapFails
  <2>1. /\ pc = "map" /\ pc' = "request" /\ attempt' = 0 /\ errors' \in BOOLEAN
        /\ cik' \in {"loaded", "empty"}
        /\ UNCHANGED <<run, vendor, request, rows, before, table, told, got, kept>>
    BY <1>3 DEF MapFetched, MapFails, Typed, TypeOK
  <2>2. request = 1 /\ rows = <<>> /\ Requests' = Requests /\ Requests \in 1..NSymbols
    BY <2>1 DEF Typed, InBatch, Requests
  <2>3. 0 \in 0..(MaxAttempts - 1) /\ 1 \in 1..Requests /\ Len(rows) = 0
    BY <2>2
  <2>4. TypeOK'
    BY <2>1, <2>3 DEF Typed, TypeOK
  <2>5. InBatch'
    BY <2>1, <2>2, <2>3 DEF Typed, InBatch
  <2>6. QED
    BY <2>4, <2>5 DEF Typed
<1>4. CASE SkipUnmapped \/ RequestFails
  <2>1. pc = "request" /\ Advance /\ errors' \in BOOLEAN /\ UNCHANGED <<rows, got, vendor>>
    BY <1>4 DEF SkipUnmapped, RequestFails, Advance, Typed, TypeOK
  <2>2. Len(rows') <= 2 * request
    BY <2>1 DEF Typed, TypeOK, InBatch
  <2>3. QED
    BY <2>1, <2>2, AdvanceTyped DEF Typed, TypeOK
<1>5. CASE Answered
  <2>1. PICK new \in RowsOf(request) :
          /\ rows' = rows \o new
          /\ got' = [got EXCEPT ![vendor][request] = LastValue(new, request, NaN)]
    BY <1>5 DEF Answered
  <2>2. pc = "request" /\ Advance /\ UNCHANGED <<vendor, errors>>
    BY <1>5 DEF Answered, Advance
  <2>3. run \in 1..MaxRuns /\ request \in Symbol /\ vendor \in Vendor
    BY <2>2 DEF Typed, InBatch, Requests, Symbol
  <2>4. new \in Seq(RowSet) /\ Len(new) \in 0..2
    BY <2>3, RowsOfType
  <2>5. LastValue(new, request, NaN) \in Value \cup {NaN}
    BY <2>4, LastValueType
  <2>6. got' \in [Vendor -> [Symbol -> Value \cup {NaN}]]
    BY <2>1, <2>3, <2>5 DEF Typed, TypeOK
  <2>7. rows' \in Seq(RowSet) /\ Len(rows') = Len(rows) + Len(new)
    BY <2>1, <2>4 DEF Typed, TypeOK
  <2>8. Len(rows') <= 2 * request
    <3>1. Len(rows) \in Nat /\ request \in Nat /\ Len(rows) <= 2 * (request - 1)
      BY <2>2, <2>3 DEF Typed, TypeOK, InBatch, Symbol
    <3>2. \A a \in Nat, b \in 0..2 : a <= 2 * (request - 1) => a + b <= 2 * request
      BY <3>1
    <3>3. QED
      BY <2>4, <2>7, <3>1, <3>2
  <2>9. QED
    BY <2>2, <2>6, <2>7, <2>8, AdvanceTyped DEF Typed, TypeOK
<1>6. CASE Discard \/ NothingToStore \/ Unwired \/ StoreFails \/ Stored
  <2>1. /\ OpenBatch(After(vendor)) /\ UNCHANGED <<run, cik, table>>
        /\ pc \in {"fetched", "insert", "stored"}
    BY <1>6 DEF Discard, NothingToStore, Unwired, StoreFails, Stored, NextVendor, Storing
  <2>2. vendor \in Vendor /\ run \in 1..MaxRuns
    BY <2>1 DEF Typed, InBatch
  <2>3. told' \in {told, told \cup {vendor}} /\ got' = got
    BY <1>6 DEF Discard, NothingToStore, Unwired, StoreFails, Stored
  <2>4. kept' = kept \/ kept' = [kept EXCEPT ![vendor] = @ \ Usable]
    BY <1>6 DEF Discard, NothingToStore, Unwired, StoreFails, Stored
  <2>5. kept' \in [Vendor -> SUBSET Symbol]
    BY <2>2, <2>4 DEF Typed, TypeOK
  <2>6. QED
    BY <2>1, <2>2, <2>3, <2>5, AfterType, OpenTyped DEF Typed, TypeOK
<1>7. CASE Delete \/ Insert
  <2>1. /\ pc \in {"fetched", "insert"} /\ pc' \in {"insert", "stored"}
        /\ UNCHANGED <<run, vendor, cik, request, attempt, rows, errors, before, told, got>>
    BY <1>7 DEF Delete, Insert, Storing
  <2>2. vendor \in Vendor
    BY <2>1 DEF Typed, InBatch
  <2>3. table' \in [Vendor -> [Symbol -> Value \cup {Absent}]]
    <3>1. CASE Delete
      BY <2>2, <3>1 DEF Delete, Typed, TypeOK
    <3>2. CASE Insert
      <4>1. \A s \in Symbol : s \in Usable => LastValue(rows, s, NaN) \in Value
        BY LastValueType DEF Usable, Typed, TypeOK
      <4>2. QED
        BY <2>2, <3>2, <4>1 DEF Insert, Typed, TypeOK
    <3>3. QED
      BY <1>7, <3>1, <3>2
  <2>4. kept' \in [Vendor -> SUBSET Symbol]
    BY <1>7, <2>2 DEF Delete, Insert, Usable, Typed, TypeOK
  <2>5. TypeOK'
    BY <2>1, <2>3, <2>4 DEF Typed, TypeOK
  <2>6. InBatch'
    BY <2>1 DEF Typed, InBatch
  <2>7. QED
    BY <2>5, <2>6 DEF Typed
<1>8. CASE Crash
  <2>1. kept' = kept \/ kept' = [kept EXCEPT ![vendor] = @ \ Usable]
    BY <1>8 DEF Crash
  <2>2. kept' \in [Vendor -> SUBSET Symbol]
    BY <2>1 DEF Typed, TypeOK
  <2>3. TypeOK'
    BY <1>8, <2>2 DEF Crash, Typed, TypeOK
  <2>4. QED
    BY <1>8, <2>3 DEF Crash, Typed, InBatch
<1>9. CASE UNCHANGED vars
  BY <1>9 DEF vars, Typed, TypeOK, InBatch, Requests
<1>10. QED
  BY <1>1, <1>2, <1>3, <1>4, <1>5, <1>6, <1>7, <1>8, <1>9 DEF Next, Progress

\* Every row, value and table is of its type, and the batch never holds more than two
\* rows per request, for any number of symbols, attempts and runs (download_data.py).
THEOREM IngestTypes == Spec => []TypeOK
<1>1. Typed => TypeOK
  BY DEF Typed
<1>2. QED
  BY <1>1, InitTyped, StepTyped, PTL DEF Spec

-----------------------------------------------------------------------------
(***************************************************************************)
(* An upsert that reports success.                                         *)
(***************************************************************************)

\* What the table holds for the batch's vendor, step by step.
BatchInTable ==
    /\ pc \in {"map", "request", "fetched"} => before = table[vendor]
    /\ pc = "insert" => \A s \in Symbol \ Usable : table[vendor][s] = before[s]
    /\ UpsertsLastComplete

LEMMA InitBatchInTable == Init => BatchInTable
  BY DEF Init, BatchInTable, UpsertsLastComplete

LEMMA StepBatchInTable == Typed /\ BatchInTable /\ [Next]_vars => BatchInTable'
<1> SUFFICES ASSUME Typed, BatchInTable, [Next]_vars PROVE BatchInTable'
  OBVIOUS
<1> USE DEF history, batch
<1>1. ASSUME NEW v \in Vendor \cup {"none"}, OpenBatch(v), UNCHANGED table PROVE BatchInTable'
  BY <1>1 DEF OpenBatch, BatchInTable, UpsertsLastComplete
<1>2. CASE StartRun
  BY <1>1, <1>2 DEF StartRun, Vendor
<1>3. CASE Transient \/ MapFetched \/ MapFails
  BY <1>3 DEF Transient, MapFetched, MapFails, BatchInTable, UpsertsLastComplete
<1>4. CASE SkipUnmapped \/ Answered \/ RequestFails
  BY <1>4 DEF SkipUnmapped, Answered, RequestFails, Advance, BatchInTable, UpsertsLastComplete
<1>5. CASE Discard \/ NothingToStore \/ Unwired \/ StoreFails \/ Stored
  <2>1. vendor \in Vendor
    BY <1>5 DEF Discard, NothingToStore, Unwired, StoreFails, Stored, Storing, Typed, InBatch
  <2>2. OpenBatch(After(vendor)) /\ UNCHANGED table
    BY <1>5 DEF Discard, NothingToStore, Unwired, StoreFails, Stored, NextVendor
  <2>3. QED
    BY <1>1, <2>1, <2>2, AfterType
<1>6. CASE Delete
  <2>1. vendor \in Vendor /\ before = table[vendor]
    BY <1>6 DEF Delete, Storing, Typed, InBatch, BatchInTable
  <2>2. /\ UNCHANGED <<vendor, rows, before>> /\ pc' = "insert"
        /\ \A s \in Symbol \ Usable : table'[vendor][s] = table[vendor][s]
    BY <1>6, <2>1 DEF Delete, Typed, TypeOK
  <2>3. Usable' = Usable
    BY <2>2 DEF Usable, Positions
  <2>4. QED
    BY <2>1, <2>2, <2>3 DEF BatchInTable, UpsertsLastComplete
<1>7. CASE Insert
  <2>1. vendor \in Vendor /\ pc = "insert"
    BY <1>7 DEF Insert, Typed, InBatch
  <2>2. /\ UNCHANGED <<vendor, rows, before>> /\ pc' = "stored"
        /\ \A s \in Symbol :
             table'[vendor][s] = IF s \in Usable THEN LastValue(rows, s, NaN) ELSE table[vendor][s]
    BY <1>7, <2>1 DEF Insert, Typed, TypeOK
  <2>3. ASSUME NEW s \in Symbol PROVE table'[vendor][s] = LastValue(rows, s, before[s])
    <3>1. CASE s \in Usable
      BY <2>2, <3>1 DEF Usable, LastValue
    <3>2. CASE s \notin Usable
      BY <2>1, <2>2, <3>2 DEF Usable, LastValue, BatchInTable
    <3>3. QED
      BY <3>1, <3>2
  <2>4. \A s \in Symbol : LastValue(rows, s, before[s])' = LastValue(rows, s, before[s])
    BY <2>2 DEF LastValue, Positions
  <2>5. QED
    BY <2>2, <2>3, <2>4 DEF BatchInTable, UpsertsLastComplete
<1>8. CASE Crash
  BY <1>8 DEF Crash, BatchInTable, UpsertsLastComplete
<1>9. CASE UNCHANGED vars
  BY <1>9 DEF vars, BatchInTable, UpsertsLastComplete, Usable, LastValue, Positions
<1>10. QED
  BY <1>2, <1>3, <1>4, <1>5, <1>6, <1>7, <1>8, <1>9 DEF Next, Progress

\* An upsert that reports success left in the table, for every key, the last complete
\* row of its batch or, without one, what was there before: however a batch mixes
\* incomplete rows, duplicates and retries (research_store.py, store_ohlcv and
\* store_fundamentals).
THEOREM LastCompleteWins == Spec => []UpsertsLastComplete
<1>1. BatchInTable => UpsertsLastComplete
  BY DEF BatchInTable
<1>2. QED
  BY <1>1, InitTyped, StepTyped, InitBatchInTable, StepBatchInTable, PTL DEF Spec

-----------------------------------------------------------------------------
(***************************************************************************)
(* What was stored stays.                                                  *)
(***************************************************************************)

\* A kept key is in its table, but for the time between the two statements.
KeptInTable ==
    \A v \in Vendor : \A s \in kept[v] :
        table[v][s] # Absent \/ (pc = "insert" /\ v = vendor /\ s \in Usable)

LEMMA InitKeptInTable == Init => KeptInTable
  BY DEF Init, KeptInTable

LEMMA StepKeptInTable == Typed /\ KeptInTable /\ [Next]_vars => KeptInTable'
<1> SUFFICES ASSUME Typed, KeptInTable, [Next]_vars PROVE KeptInTable'
  OBVIOUS
<1> USE DEF history, batch
<1>1. ASSUME pc # "insert", UNCHANGED <<table, kept>> PROVE KeptInTable'
  BY <1>1 DEF KeptInTable
<1>2. CASE StartRun \/ Transient \/ MapFetched \/ MapFails \/ SkipUnmapped \/ Answered
           \/ RequestFails \/ Discard \/ NothingToStore \/ Unwired \/ Stored
  BY <1>1, <1>2 DEF StartRun, Transient, MapFetched, MapFails, SkipUnmapped, Answered,
     RequestFails, Advance, Discard, NothingToStore, Unwired, Stored, NextVendor
<1>3. CASE StoreFails \/ Crash
  <2>1. CASE pc # "insert"
    BY <1>1, <1>3, <2>1 DEF StoreFails, Crash, NextVendor
  <2>2. CASE pc = "insert"
    <3>1. /\ vendor \in Vendor /\ UNCHANGED table
          /\ kept' = [kept EXCEPT ![vendor] = @ \ Usable]
      BY <1>3, <2>2 DEF StoreFails, Crash, NextVendor, Typed, InBatch
    <3>2. \A v \in Vendor : \A s \in kept'[v] :
            s \in kept[v] /\ ~(v = vendor /\ s \in Usable)
      BY <3>1 DEF Typed, TypeOK
    <3>3. QED
      BY <3>1, <3>2 DEF KeptInTable
  <2>3. QED
    BY <2>1, <2>2
<1>4. CASE Delete
  <2>1. vendor \in Vendor /\ pc # "insert"
    BY <1>4 DEF Delete, Storing, Typed, InBatch
  <2>2. /\ UNCHANGED <<vendor, rows, kept>> /\ pc' = "insert"
        /\ table' = [table EXCEPT ![vendor] =
             [s \in Symbol |-> IF s \in Usable THEN Absent ELSE @[s]]]
    BY <1>4 DEF Delete
  <2>3. Usable' = Usable
    BY <2>2 DEF Usable, Positions
  <2>4. kept \in [Vendor -> SUBSET Symbol]
    BY DEF Typed, TypeOK
  <2>5. \A v \in Vendor : \A s \in Symbol :
          table'[v][s] = table[v][s] \/ (v = vendor /\ s \in Usable)
    BY <2>1, <2>2 DEF Typed, TypeOK
  <2>6. QED
    BY <2>1, <2>2, <2>3, <2>4, <2>5 DEF KeptInTable
<1>5. CASE Insert
  <2>1. vendor \in Vendor /\ kept \in [Vendor -> SUBSET Symbol]
    BY <1>5 DEF Insert, Typed, TypeOK, InBatch
  <2>2. \A s \in Symbol : s \in Usable => LastValue(rows, s, NaN) # Absent
    BY LastValueType DEF Usable, Typed, TypeOK, Value
  <2>3. \A s \in Symbol :
          table'[vendor][s] = IF s \in Usable THEN LastValue(rows, s, NaN) ELSE table[vendor][s]
    BY <1>5, <2>1 DEF Insert, Typed, TypeOK
  <2>4. \A v \in Vendor \ {vendor} : table'[v] = table[v] /\ kept'[v] = kept[v]
    BY <1>5, <2>1 DEF Insert, Typed, TypeOK
  <2>5. kept'[vendor] = kept[vendor] \cup Usable
    BY <1>5, <2>1 DEF Insert
  <2>6. \A s \in kept'[vendor] : table'[vendor][s] # Absent
    BY <2>1, <2>2, <2>3, <2>5 DEF KeptInTable, Usable
  <2>7. \A v \in Vendor \ {vendor} : \A s \in kept'[v] : table'[v][s] # Absent
    BY <2>4 DEF KeptInTable
  <2>8. QED
    BY <2>6, <2>7 DEF KeptInTable
<1>6. CASE UNCHANGED vars
  BY <1>6 DEF vars, KeptInTable, Usable, Positions
<1>7. QED
  BY <1>2, <1>3, <1>4, <1>5, <1>6 DEF Next, Progress

\* However runs crash and stores fail, only a store that was cut between DELETE and
\* INSERT takes a key out of a table (research_store.py, the two statements that
\* commit on their own).
THEOREM OnlyCutsLose == Spec => []OnlyCutStoresLose
<1>1. KeptInTable => OnlyCutStoresLose
  BY DEF KeptInTable, OnlyCutStoresLose
<1>2. QED
  BY <1>1, InitTyped, StepTyped, InitKeptInTable, StepKeptInTable, PTL DEF Spec

-----------------------------------------------------------------------------
(***************************************************************************)
(* A run that prints no error.                                             *)
(***************************************************************************)

\* Rows without a key do not matter to it.
LEMMA OthersAppended ==
    ASSUME NEW q \in Seq(RowSet), NEW new \in Seq(RowSet), NEW s, NEW x,
           \A i \in DOMAIN new : new[i].key # s
    PROVE  LastValue(q \o new, s, x) = LastValue(q, s, x)
<1>1. /\ DOMAIN (q \o new) = 1..(Len(q) + Len(new)) /\ DOMAIN q = 1..Len(q)
      /\ \A i \in 1..Len(q) : (q \o new)[i] = q[i]
      /\ \A i \in (Len(q) + 1)..(Len(q) + Len(new)) : (q \o new)[i] = new[i - Len(q)]
  OBVIOUS
<1>2. \A i \in (Len(q) + 1)..(Len(q) + Len(new)) : (q \o new)[i].key # s
  <2>1. \A i \in (Len(q) + 1)..(Len(q) + Len(new)) : i - Len(q) \in DOMAIN new
    OBVIOUS
  <2>2. QED
    BY <1>1, <2>1
<1>3. Positions(q \o new, s) = Positions(q, s)
  <2>1. \A i \in 1..(Len(q) + Len(new)) : i \in 1..Len(q) \/ i \in (Len(q) + 1)..(Len(q) + Len(new))
    OBVIOUS
  <2>2. 1..Len(q) \subseteq 1..(Len(q) + Len(new))
    OBVIOUS
  <2>3. QED
    BY <1>1, <1>2, <2>1, <2>2 DEF Positions
<1>4. CASE Positions(q, s) = {}
  BY <1>3, <1>4 DEF LastValue
<1>5. CASE Positions(q, s) # {}
  <2>1. Last(Positions(q, s)) \in 1..Len(q)
    <3>1. Positions(q, s) \subseteq 1..Len(q)
      BY <1>1 DEF Positions
    <3>2. QED
      BY <1>5, <3>1, LastIsUsable
  <2>2. QED
    BY <1>1, <1>3, <2>1 DEF LastValue
<1>6. QED
  BY <1>4, <1>5

\* The rows of a new key decide its last value.
LEMMA NewKeyAppended ==
    ASSUME NEW q \in Seq(RowSet), NEW new \in Seq(RowSet), NEW s, NEW x,
           \A i \in DOMAIN q : q[i].key # s
    PROVE  LastValue(q \o new, s, x) = LastValue(new, s, x)
<1>1. /\ q \o new \in Seq(RowSet) /\ Len(q) \in Nat /\ Len(new) \in Nat
      /\ DOMAIN (q \o new) = 1..(Len(q) + Len(new)) /\ DOMAIN new = 1..Len(new)
      /\ \A i \in 1..Len(q) : (q \o new)[i] = q[i]
      /\ \A i \in 1..Len(new) : (q \o new)[Len(q) + i] = new[i]
  OBVIOUS
<1> DEFINE P == Positions(q \o new, s)
           N == Positions(new, s)
<1>2. \A i \in P : i - Len(q) \in N
  <2>1. TAKE i \in P
  <2>2. i \in 1..(Len(q) + Len(new)) /\ (q \o new)[i].key = s /\ (q \o new)[i].value # NaN
    BY <1>1 DEF Positions
  <2>3. i \notin 1..Len(q)
    BY <1>1, <2>2
  <2>4. i - Len(q) \in 1..Len(new) /\ i = Len(q) + (i - Len(q))
    BY <1>1, <2>2, <2>3
  <2>5. QED
    BY <1>1, <2>2, <2>4 DEF Positions
<1>3. \A i \in N : Len(q) + i \in P
  <2>1. \A i \in 1..Len(new) : Len(q) + i \in 1..(Len(q) + Len(new))
    BY <1>1
  <2>2. QED
    BY <1>1, <2>1 DEF Positions
<1>4. CASE N = {}
  <2>1. P = {}
    BY <1>2, <1>4
  <2>2. QED
    BY <1>4, <2>1 DEF LastValue
<1>5. CASE N # {}
  <2>1. P # {}
    BY <1>3, <1>5
  <2>2. /\ Last(P) \in P /\ \A j \in P : j <= Last(P)
        /\ Last(N) \in N /\ \A j \in N : j <= Last(N)
    BY <1>1, <1>5, <2>1, LastIsUsable
  <2>3. Last(P) \in Nat /\ Last(N) \in 1..Len(new)
    <3>1. P \subseteq 1..(Len(q) + Len(new)) /\ N \subseteq 1..Len(new)
      BY <1>1 DEF Positions
    <3>2. QED
      BY <1>1, <2>2, <3>1
  <2>4. Len(q) + Last(N) <= Last(P) /\ Last(P) - Len(q) <= Last(N)
    BY <1>2, <1>3, <2>2
  <2>5. Last(P) = Len(q) + Last(N)
    BY <1>1, <2>3, <2>4
  <2>6. (q \o new)[Last(P)] = new[Last(N)]
    BY <1>1, <2>3, <2>5
  <2>7. QED
    BY <1>5, <2>1, <2>6 DEF LastValue
<1>6. QED
  BY <1>4, <1>5

\* What a vendor delivered is in its batch while it is its turn, and then in its table
\* unless an error was printed.
QuietSoFar ==
    pc # "idle" =>
        /\ \A v \in Done(vendor) \ told, s \in Symbol :
             got[v][s] # NaN => table[v][s] = got[v][s]
        /\ \A v \in Vendor \ (Done(vendor) \cup {vendor}) : got[v] = Empty
        /\ pc # "closed" => \A s \in Symbol : got[vendor][s] = LastValue(rows, s, NaN)
        /\ pc \in {"map", "request"} => \A i \in DOMAIN rows : rows[i].key < request

LEMMA DoneAfter ==
    \A v \in Vendor : /\ Done(After(v)) = Done(v) \cup {v}
                      /\ v \notin Done(v) /\ Done(v) \subseteq Vendor
                      /\ After(v) \notin Done(v) \cup {v}
  BY DEF Done, After, Vendor

\* A vendor's turn ends.
LEMMA TurnEnds ==
    ASSUME Typed, QuietSoFar, pc \in {"fetched", "insert", "stored"},
           OpenBatch(After(vendor)), UNCHANGED <<table, got>>, told \subseteq told',
           vendor \in told' \/ \A s \in Symbol : got[vendor][s] # NaN => table[vendor][s] = got[vendor][s]
    PROVE  QuietSoFar'
<1>1. vendor \in Vendor /\ vendor' = After(vendor) /\ rows' = <<>> /\ pc # "idle"
  BY DEF OpenBatch, Typed, InBatch
<1>2. Done(vendor') = Done(vendor) \cup {vendor} /\ vendor' \notin Done(vendor')
  BY <1>1, DoneAfter
<1>3. \A v \in Done(vendor') \ told', s \in Symbol : got'[v][s] # NaN => table'[v][s] = got'[v][s]
  BY <1>1, <1>2 DEF QuietSoFar
<1>4. \A v \in Vendor \ Done(vendor') : got'[v] = Empty
  BY <1>1, <1>2 DEF QuietSoFar
<1>5. \A s : LastValue(rows', s, NaN) = NaN
  BY <1>1 DEF LastValue, Positions
<1>6. pc' # "closed" => vendor' \in Vendor
  BY <1>1, AfterType DEF OpenBatch
<1>7. pc' # "closed" => \A s \in Symbol : got'[vendor'][s] = LastValue(rows', s, NaN)
  BY <1>2, <1>4, <1>5, <1>6 DEF Empty
<1>8. \A s : LastValue(rows', s, NaN) = LastValue(rows, s, NaN)'
  BY DEF LastValue, Positions
<1>9. \A i \in DOMAIN rows' : rows'[i].key < request'
  BY <1>1
<1>10. Done(vendor)' = Done(vendor')
  BY DEF Done
<1>11. QED
  BY <1>3, <1>4, <1>7, <1>8, <1>9, <1>10 DEF QuietSoFar

LEMMA KeysAreNumbers ==
    ASSUME NEW q \in Seq(RowSet) PROVE \A i \in DOMAIN q : q[i].key \in Nat
<1>1. \A i \in DOMAIN q : q[i] \in RowSet
  OBVIOUS
<1>2. \A r \in RowSet : r.key \in Nat
  BY DEF RowSet, Symbol
<1>3. QED
  BY <1>1, <1>2

LEMMA InitQuiet == Init => QuietSoFar
  BY DEF Init, QuietSoFar

LEMMA StepQuiet == Typed /\ BatchInTable /\ QuietSoFar /\ [Next]_vars => QuietSoFar'
<1> SUFFICES ASSUME Typed, BatchInTable, QuietSoFar, [Next]_vars PROVE QuietSoFar'
  OBVIOUS
<1> USE DEF history, batch
<1>1. CASE StartRun
  <2>1. /\ vendor' = "finmind" /\ rows' = <<>> /\ got' = [v \in Vendor |-> Empty]
    BY <1>1 DEF StartRun, OpenBatch
  <2>2. Done(vendor)' = {} /\ vendor' \in Vendor
    BY <2>1 DEF Done, Vendor
  <2>3. \A s \in Symbol : LastValue(rows, s, NaN)' = NaN
    BY <2>1 DEF LastValue, Positions
  <2>4. QED
    BY <2>1, <2>2, <2>3 DEF QuietSoFar, Empty
<1>2. CASE Transient \/ MapFetched \/ MapFails
  <2>1. /\ pc \in {"map", "request"} /\ pc' \in {"map", "request"}
        /\ UNCHANGED <<vendor, request, rows, table, told, got>>
    BY <1>2 DEF Transient, MapFetched, MapFails
  <2>2. QED
    BY <2>1 DEF QuietSoFar, Done, LastValue, Positions
<1>3. CASE SkipUnmapped \/ RequestFails
  <2>1. /\ pc = "request" /\ pc' \in {"request", "fetched"} /\ request' = request + 1
        /\ UNCHANGED <<vendor, rows, table, told, got>>
    BY <1>3 DEF SkipUnmapped, RequestFails, Advance
  <2>2. \A i \in DOMAIN rows : rows[i].key \in Nat /\ rows[i].key < request
    BY <2>1, KeysAreNumbers DEF QuietSoFar, Typed, TypeOK
  <2>3. request \in Nat
    BY DEF Typed, TypeOK
  <2>4. \A i \in DOMAIN rows' : rows'[i].key < request'
    BY <2>1, <2>2, <2>3
  <2>5. QED
    BY <2>1, <2>4 DEF QuietSoFar, Done, LastValue, Positions
<1>4. CASE Answered
  <2>1. PICK new \in RowsOf(request) :
          /\ rows' = rows \o new
          /\ got' = [got EXCEPT ![vendor][request] = LastValue(new, request, NaN)]
    BY <1>4 DEF Answered
  <2>2. /\ pc = "request" /\ pc' \in {"request", "fetched"} /\ request' = request + 1
        /\ UNCHANGED <<vendor, table, told>>
    BY <1>4 DEF Answered, Advance
  <2>3. /\ run \in 1..MaxRuns /\ request \in Symbol /\ vendor \in Vendor /\ rows \in Seq(RowSet)
        /\ got \in [Vendor -> [Symbol -> Value \cup {NaN}]]
    BY <2>2 DEF Typed, TypeOK, InBatch, Requests, Symbol
  <2>4. new \in Seq(RowSet) /\ \A i \in DOMAIN new : new[i].key = request
    BY <2>3, RowsOfType
  <2>5. \A i \in DOMAIN rows : rows[i].key \in Nat /\ rows[i].key < request
    BY <2>2, KeysAreNumbers DEF QuietSoFar, Typed, TypeOK
  <2>6. \A i \in DOMAIN rows : rows[i].key # request
    BY <2>3, <2>5 DEF Symbol
  <2>7. \A s \in Symbol : got'[vendor][s] = LastValue(rows', s, NaN)
    <3>1. TAKE s \in Symbol
    <3>2. CASE s = request
      BY <2>1, <2>3, <2>4, <2>6, <3>2, NewKeyAppended
    <3>3. CASE s # request
      <4>1. \A i \in DOMAIN new : new[i].key # s
        BY <2>4, <3>3
      <4>2. LastValue(rows', s, NaN) = LastValue(rows, s, NaN)
        BY <2>1, <2>3, <2>4, <4>1, OthersAppended
      <4>3. QED
        BY <2>1, <2>2, <2>3, <3>3, <4>2 DEF QuietSoFar
    <3>4. QED
      BY <3>2, <3>3
  <2>8. \A i \in DOMAIN rows' : rows'[i].key < request'
    <3>1. /\ DOMAIN rows' = 1..(Len(rows) + Len(new)) /\ DOMAIN rows = 1..Len(rows)
          /\ \A i \in 1..Len(rows) : rows'[i] = rows[i]
          /\ \A i \in (Len(rows) + 1)..(Len(rows) + Len(new)) :
               rows'[i] = new[i - Len(rows)] /\ i - Len(rows) \in DOMAIN new
      BY <2>1, <2>3, <2>4
    <3>2. \A i \in 1..Len(rows) : rows'[i].key < request + 1
      BY <2>3, <2>5, <3>1 DEF Symbol
    <3>3. \A i \in (Len(rows) + 1)..(Len(rows) + Len(new)) : rows'[i].key < request + 1
      BY <2>3, <2>4, <3>1 DEF Symbol
    <3>4. \A i \in DOMAIN rows' : i \in 1..Len(rows) \/ i \in (Len(rows) + 1)..(Len(rows) + Len(new))
      BY <2>3, <2>4, <3>1
    <3>5. QED
      BY <2>2, <3>2, <3>3, <3>4
  <2>9. \A v \in Vendor \ {vendor} : got'[v] = got[v]
    BY <2>1, <2>3
  <2>10. vendor \notin Done(vendor) /\ Done(vendor) \subseteq Vendor
    BY <2>3, DoneAfter
  <2>11. \A s \in Symbol : LastValue(rows, s, NaN)' = LastValue(rows', s, NaN)
    BY DEF LastValue, Positions
  <2>12. Done(vendor)' = Done(vendor)
    BY <2>2 DEF Done
  <2>13. \A v \in Done(vendor) \ told, s \in Symbol :
           got'[v][s] # NaN => table'[v][s] = got'[v][s]
    BY <2>2, <2>9, <2>10 DEF QuietSoFar
  <2>14. \A v \in Vendor \ (Done(vendor) \cup {vendor}) : got'[v] = Empty
    BY <2>2, <2>9 DEF QuietSoFar
  <2>15. QED
    BY <2>2, <2>7, <2>8, <2>11, <2>12, <2>13, <2>14 DEF QuietSoFar, Empty
<1>5. CASE Discard \/ Unwired \/ StoreFails
  <2>1. /\ pc \in {"fetched", "insert"} /\ OpenBatch(After(vendor)) /\ UNCHANGED <<table, got>>
        /\ told' = told \cup {vendor}
    BY <1>5 DEF Discard, Unwired, StoreFails, Storing, NextVendor
  <2>2. QED
    BY <2>1, TurnEnds
<1>6. CASE NothingToStore
  <2>1. /\ pc = "fetched" /\ OpenBatch(After(vendor)) /\ UNCHANGED <<table, got, told>>
    BY <1>6 DEF NothingToStore, NextVendor
  <2>2. \A s \in Symbol : Positions(rows, s) = {}
    BY <1>6 DEF NothingToStore, Usable, Positions
  <2>3. \A s \in Symbol : got[vendor][s] = NaN
    BY <2>1, <2>2 DEF QuietSoFar, LastValue
  <2>4. QED
    BY <2>1, <2>3, TurnEnds
<1>7. CASE Stored
  <2>1. /\ pc = "stored" /\ OpenBatch(After(vendor)) /\ UNCHANGED <<table, got, told>>
    BY <1>7 DEF Stored, NextVendor
  <2>2. \A s \in Symbol : /\ table[vendor][s] = LastValue(rows, s, before[s])
                          /\ got[vendor][s] = LastValue(rows, s, NaN)
    BY <2>1 DEF BatchInTable, UpsertsLastComplete, QuietSoFar
  <2>3. \A s \in Symbol : got[vendor][s] # NaN => table[vendor][s] = got[vendor][s]
    BY <2>2 DEF LastValue
  <2>4. QED
    BY <2>1, <2>3, TurnEnds
<1>8. CASE Delete \/ Insert
  <2>1. /\ pc \in {"fetched", "insert"} /\ pc' \in {"insert", "stored"}
        /\ UNCHANGED <<vendor, rows, told, got>>
        /\ \E f \in [Symbol -> Value \cup {Absent}] : table' = [table EXCEPT ![vendor] = f]
    <3>1. CASE Delete
      <4>1. vendor \in Vendor
        BY <3>1 DEF Delete, Storing, Typed, InBatch
      <4>2. [s \in Symbol |-> IF s \in Usable THEN Absent ELSE table[vendor][s]]
              \in [Symbol -> Value \cup {Absent}]
        BY <4>1 DEF Typed, TypeOK
      <4>3. QED
        BY <3>1, <4>1, <4>2 DEF Delete, Storing, Typed, TypeOK
    <3>2. CASE Insert
      <4>1. vendor \in Vendor
        BY <3>2 DEF Insert, Typed, InBatch
      <4>2. \A s \in Symbol : s \in Usable => LastValue(rows, s, NaN) \in Value
        BY LastValueType DEF Usable, Typed, TypeOK
      <4>3. [s \in Symbol |-> IF s \in Usable THEN LastValue(rows, s, NaN) ELSE table[vendor][s]]
              \in [Symbol -> Value \cup {Absent}]
        BY <4>1, <4>2 DEF Typed, TypeOK
      <4>4. QED
        BY <3>2, <4>1, <4>3 DEF Insert, Typed, TypeOK
    <3>3. QED
      BY <1>8, <3>1, <3>2
  <2>2. vendor \in Vendor
    BY <2>1 DEF Typed, InBatch
  <2>3. \A v \in Done(vendor) : v # vendor /\ table'[v] = table[v]
    BY <2>1, <2>2, DoneAfter DEF Typed, TypeOK
  <2>4. QED
    BY <2>1, <2>3 DEF QuietSoFar, Done, LastValue, Positions
<1>9. CASE Crash
  BY <1>9 DEF Crash, QuietSoFar
<1>10. CASE UNCHANGED vars
  BY <1>10 DEF vars, QuietSoFar, Done, LastValue, Positions
<1>11. QED
  BY <1>1, <1>2, <1>3, <1>4, <1>5, <1>6, <1>7, <1>8, <1>9, <1>10 DEF Next, Progress

\* A completed run has stored every usable value of every vendor for which it printed
\* no error, whatever was retried, skipped or delivered twice (download_data.py, main).
THEOREM QuietMeansStored == Spec => []QuietRunStoredAll
<1>1. Typed /\ QuietSoFar => QuietRunStoredAll
  <2> SUFFICES ASSUME Typed, QuietSoFar, pc = "closed" PROVE QuietRunStoredAll
    BY DEF QuietRunStoredAll
  <2>1. Done(vendor) = Vendor
    BY DEF Typed, InBatch, Done
  <2>2. QED
    BY <2>1 DEF QuietSoFar, QuietRunStoredAll
<1>2. QED
  BY <1>1, InitTyped, StepTyped, InitBatchInTable, StepBatchInTable, InitQuiet, StepQuiet,
     PTL DEF Spec
-----------------------------------------------------------------------------
(***************************************************************************)
(* The refinement: the store implements AtomicStore.                       *)
(***************************************************************************)

\* The substitutions of Store.
StoreOf == IF pc = "insert" THEN [table EXCEPT ![vendor] = before] ELSE table
OverOf  == IF pc = "idle" THEN Vendor ELSE IF pc = "stored" THEN Done(vendor) \cup {vendor} ELSE Done(vendor)

\* Between its statements, the keys of an upsert are gone, and there are some.
Deleted == pc = "insert" => Usable # {} /\ \A s \in Usable : table[vendor][s] = Absent

LEMMA StepDeleted == Typed /\ Deleted /\ [Next]_vars => Deleted'
<1> SUFFICES ASSUME Typed, Deleted, [Next]_vars PROVE Deleted'
  OBVIOUS
<1> USE DEF history, batch
<1>1. CASE Delete
  <2>1. vendor \in Vendor /\ Usable # {} /\ UNCHANGED <<vendor, rows>>
    BY <1>1 DEF Delete, Storing, Typed, InBatch
  <2>2. Usable' = Usable /\ Usable \subseteq Symbol
    BY <2>1 DEF Usable, Positions
  <2>3. \A s \in Usable : table'[vendor][s] = Absent
    BY <1>1, <2>1, <2>2 DEF Delete, Typed, TypeOK
  <2>4. QED
    BY <2>1, <2>2, <2>3 DEF Deleted
<1>2. CASE UNCHANGED vars
  BY <1>2 DEF vars, Deleted, Usable, Positions
<1>3. ASSUME pc' # "insert" PROVE Deleted'
  BY <1>3 DEF Deleted
<1>4. CASE StartRun \/ Discard \/ NothingToStore \/ Unwired \/ StoreFails \/ Stored
  BY <1>3, <1>4 DEF StartRun, Discard, NothingToStore, Unwired, StoreFails, Stored, NextVendor, OpenBatch
<1>5. CASE Transient \/ MapFetched \/ MapFails \/ SkipUnmapped \/ Answered \/ RequestFails \/ Insert \/ Crash
  BY <1>3, <1>5 DEF Transient, MapFetched, MapFails, SkipUnmapped, Answered, RequestFails, Advance, Insert, Crash
<1>6. QED
  BY <1>1, <1>2, <1>4, <1>5 DEF Next, Progress

\* The usable keys of a batch are those that its vendor delivered.
LEMMA UsableIsDelivered ==
    ASSUME Typed, QuietSoFar, pc \notin {"idle", "closed"}
    PROVE  /\ vendor \in Vendor /\ vendor \notin Done(vendor)
           /\ \A s \in Symbol : /\ s \in Usable <=> got[vendor][s] # Absent
                                /\ got[vendor][s] = LastValue(rows, s, NaN)
<1>1. vendor \in Vendor /\ rows \in Seq(RowSet)
  BY DEF Typed, TypeOK, InBatch
<1>2. \A s \in Symbol : got[vendor][s] = LastValue(rows, s, NaN)
  BY DEF QuietSoFar
<1>3. \A s \in Symbol : LastValue(rows, s, NaN) # Absent <=> Positions(rows, s) # {}
  BY <1>1, LastValueType DEF Value
<1>4. QED
  BY <1>1, <1>2, <1>3, DoneAfter DEF Usable

\* A vendor's turn ends: it is over.
LEMMA OverNext ==
    ASSUME Typed, OpenBatch(After(vendor)), pc \in {"fetched", "insert", "stored"}
    PROVE  /\ vendor \in Vendor /\ OverOf' = Done(vendor) \cup {vendor}
           /\ StoreOf' = table'
<1>1. vendor \in Vendor /\ vendor' = After(vendor) /\ pc' \in {"closed", "map", "request"}
  BY DEF OpenBatch, Typed, InBatch
<1>2. Done(vendor') = Done(vendor) \cup {vendor}
  BY <1>1, DoneAfter
<1>3. QED
  BY <1>1, <1>2 DEF OverOf, StoreOf, Done

\* While its requests are made, a vendor delivers or nothing happens.
LEMMA AskingRefines ==
    ASSUME Typed, QuietSoFar,
           Transient \/ MapFetched \/ MapFails \/ SkipUnmapped \/ Answered \/ RequestFails
    PROVE  Store!Deliver(vendor) \/ UNCHANGED <<StoreOf, got, told, OverOf>>
<1> USE DEF history, batch
<1>1. /\ pc \in {"map", "request"} /\ pc' \in {"map", "request", "fetched"}
      /\ UNCHANGED <<vendor, table, told>>
  BY DEF Transient, MapFetched, MapFails, SkipUnmapped, Answered, RequestFails, Advance
<1>2. StoreOf' = StoreOf /\ OverOf' = OverOf /\ OverOf = Done(vendor)
  BY <1>1 DEF StoreOf, OverOf, Done
<1>3. CASE Transient \/ MapFetched \/ MapFails \/ SkipUnmapped \/ RequestFails
  BY <1>1, <1>2, <1>3 DEF Transient, MapFetched, MapFails, SkipUnmapped, RequestFails, Advance
<1>4. CASE Answered
  <2>1. PICK new \in RowsOf(request) : got' = [got EXCEPT ![vendor][request] = LastValue(new, request, NaN)]
    BY <1>4 DEF Answered
  <2>2. pc = "request" /\ vendor \in Vendor /\ request \in Symbol /\ run \in 1..MaxRuns
    BY <1>4 DEF Answered, Typed, InBatch, Requests, Symbol
  <2>3. vendor \notin OverOf
    BY <1>2, <2>2, DoneAfter
  <2>4. new \in Seq(RowSet)
    BY <2>2, RowsOfType
  <2>5. PICK x \in Value \cup {NaN} : x = LastValue(new, request, NaN)
    BY <2>4, LastValueType
  <2>6. got[vendor][request] = Absent
    <3>1. request \in Nat /\ \A i \in DOMAIN rows : rows[i].key \in Nat /\ rows[i].key < request
      BY <2>2, KeysAreNumbers DEF QuietSoFar, Typed, TypeOK
    <3>2. \A i \in DOMAIN rows : rows[i].key # request
      BY <3>1
    <3>3. Positions(rows, request) = {}
      BY <3>2 DEF Positions
    <3>4. QED
      BY <2>2, <3>3 DEF QuietSoFar, LastValue
  <2>7. CASE x = NaN
    <3>1. got' = got
      BY <2>1, <2>2, <2>5, <2>6, <2>7 DEF Typed, TypeOK
    <3>2. QED
      BY <1>1, <1>2, <3>1
  <2>8. CASE x # NaN
    <3>1. x \in Value /\ got' = [got EXCEPT ![vendor][request] = x]
      BY <2>1, <2>5, <2>8
    <3>2. Store!Deliver(vendor)
      BY <1>1, <1>2, <2>2, <2>3, <2>6, <3>1 DEF Store!Deliver, StoreOf, OverOf
    <3>3. QED
      BY <3>2
  <2>9. QED
    BY <2>7, <2>8
<1>5. QED
  BY <1>3, <1>4

\* An INSERT completes the upsert, of which nothing was to be seen before.
LEMMA InsertRefines ==
    ASSUME Typed, BatchInTable, QuietSoFar, Deleted, Insert
    PROVE  Store!Upsert(vendor)
<1>1. /\ pc = "insert" /\ pc' = "stored" /\ UNCHANGED <<vendor, told, got>>
      /\ table' = [table EXCEPT ![vendor] =
            [s \in Symbol |-> IF s \in Usable THEN LastValue(rows, s, NaN) ELSE @[s]]]
  BY DEF Insert, batch
<1>2. /\ vendor \in Vendor /\ vendor \notin Done(vendor)
      /\ \A s \in Symbol : /\ s \in Usable <=> got[vendor][s] # Absent
                           /\ got[vendor][s] = LastValue(rows, s, NaN)
  BY <1>1, UsableIsDelivered
<1>3. /\ StoreOf = [table EXCEPT ![vendor] = before] /\ StoreOf' = table'
      /\ OverOf = Done(vendor) /\ OverOf' = Done(vendor) \cup {vendor}
  BY <1>1 DEF StoreOf, OverOf, Done
<1>4. table \in [Vendor -> [Symbol -> Value \cup {Absent}]] /\ before \in [Symbol -> Value \cup {Absent}]
  BY DEF Typed, TypeOK
<1>5. StoreOf[vendor] = before /\ \A v \in Vendor \ {vendor} : StoreOf[v] = table[v]
  BY <1>2, <1>3, <1>4
<1>6. table'[vendor] = Store!Written(before, got[vendor])
  <2>1. table'[vendor] = [s \in Symbol |-> IF s \in Usable THEN LastValue(rows, s, NaN) ELSE table[vendor][s]]
    BY <1>1, <1>2, <1>4
  <2>2. \A s \in Symbol \ Usable : table[vendor][s] = before[s]
    BY <1>1 DEF BatchInTable
  <2>3. QED
    BY <1>2, <2>1, <2>2 DEF Store!Written
<1>7. StoreOf' = [StoreOf EXCEPT ![vendor] = Store!Written(StoreOf[vendor], got[vendor])]
  BY <1>1, <1>2, <1>3, <1>4, <1>5, <1>6
<1>8. got[vendor] # Store!Nothing
  <2>1. PICK s \in Symbol : s \in Usable
    BY <1>1 DEF Deleted, Usable
  <2>2. QED
    BY <1>2, <2>1 DEF Store!Nothing
<1>9. QED
  BY <1>1, <1>2, <1>3, <1>7, <1>8 DEF Store!Upsert, StoreOf, OverOf

\* When an upsert is cut, exactly the keys it was to write are gone.
LEMMA CutErases ==
    ASSUME Typed, BatchInTable, QuietSoFar, Deleted, pc = "insert"
    PROVE  table = [StoreOf EXCEPT ![vendor] = Store!Erased(StoreOf[vendor], got[vendor])]
<1>1. /\ vendor \in Vendor
      /\ \A s \in Symbol : s \in Usable <=> got[vendor][s] # Absent
  BY UsableIsDelivered
<1>2. StoreOf = [table EXCEPT ![vendor] = before]
  BY DEF StoreOf
<1>3. table \in [Vendor -> [Symbol -> Value \cup {Absent}]]
  BY DEF Typed, TypeOK
<1>4. StoreOf[vendor] = before /\ \A v \in Vendor \ {vendor} : StoreOf[v] = table[v]
  BY <1>1, <1>2, <1>3
<1>5. table[vendor] = Store!Erased(before, got[vendor])
  <2>1. table[vendor] = [s \in Symbol |-> table[vendor][s]]
    BY <1>1, <1>3
  <2>2. \A s \in Symbol : table[vendor][s] = IF s \in Usable THEN Absent ELSE before[s]
    BY DEF BatchInTable, Deleted
  <2>3. QED
    BY <1>1, <2>1, <2>2 DEF Store!Erased
<1>6. QED
  BY <1>1, <1>2, <1>3, <1>4, <1>5

\* The end of a turn.
LEMMA TurnRefines ==
    ASSUME Typed, BatchInTable, QuietSoFar, Deleted,
           Discard \/ NothingToStore \/ Unwired \/ StoreFails \/ Stored
    PROVE  Store!Report(vendor) \/ Store!BringNothing(vendor) \/ UNCHANGED <<StoreOf, got, told, OverOf>>
<1>1. /\ pc \in {"fetched", "insert", "stored"} /\ OpenBatch(After(vendor)) /\ UNCHANGED <<table, got>>
  BY DEF Discard, NothingToStore, Unwired, StoreFails, Stored, Storing, NextVendor, history
<1>2. vendor \in Vendor /\ OverOf' = Done(vendor) \cup {vendor} /\ StoreOf' = table
  BY <1>1, OverNext
<1>3. vendor \notin Done(vendor)
  BY <1>2, DoneAfter
<1>4. CASE Discard \/ Unwired \/ StoreFails
  <2>1. pc # "stored" /\ told' = told \cup {vendor}
    BY <1>4 DEF Discard, Unwired, StoreFails, Storing
  <2>2. OverOf = Done(vendor)
    BY <1>1, <2>1 DEF OverOf
  <2>3. StoreOf' = StoreOf \/ StoreOf' = [StoreOf EXCEPT ![vendor] = Store!Erased(StoreOf[vendor], got[vendor])]
    <3>1. CASE pc = "insert"
      BY <1>2, <3>1, CutErases
    <3>2. CASE pc # "insert"
      BY <1>2, <3>2 DEF StoreOf
    <3>3. QED
      BY <3>1, <3>2
  <2>4. Store!Report(vendor)
    BY <1>1, <1>2, <1>3, <2>1, <2>2, <2>3 DEF Store!Report, StoreOf, OverOf
  <2>5. QED
    BY <2>4
<1>5. CASE NothingToStore
  <2>1. pc = "fetched" /\ UNCHANGED told
    BY <1>5 DEF NothingToStore, history
  <2>2. OverOf = Done(vendor) /\ StoreOf = table
    BY <2>1 DEF OverOf, StoreOf
  <2>3. \A s \in Symbol : Positions(rows, s) = {}
    BY <1>5 DEF NothingToStore, Usable, Positions
  <2>4. \A s \in Symbol : got[vendor][s] = Absent
    BY <2>1, <2>3 DEF QuietSoFar, LastValue
  <2>5. got[vendor] = Store!Nothing
    <3>1. got[vendor] \in [Symbol -> Value \cup {NaN}]
      BY <1>2 DEF Typed, TypeOK
    <3>2. QED
      BY <2>4, <3>1 DEF Store!Nothing
  <2>6. Store!BringNothing(vendor)
    BY <1>1, <1>2, <1>3, <2>1, <2>2, <2>5 DEF Store!BringNothing, StoreOf, OverOf
  <2>7. QED
    BY <2>6
<1>6. CASE Stored
  <2>1. pc = "stored" /\ UNCHANGED told
    BY <1>6 DEF Stored, history
  <2>2. OverOf = Done(vendor) \cup {vendor} /\ StoreOf = table
    BY <2>1 DEF OverOf, StoreOf
  <2>3. QED
    BY <1>1, <1>2, <2>1, <2>2
<1>7. QED
  BY <1>4, <1>5, <1>6

LEMMA StepRefines ==
    ASSUME Typed, BatchInTable, QuietSoFar, Deleted, Next
    PROVE  Store!Next \/ UNCHANGED <<StoreOf, got, told, OverOf>>
<1>1. CASE StartRun
  <2>1. pc \in {"idle", "closed"} /\ pc' = "request" /\ vendor' = "finmind"
    BY <1>1 DEF StartRun, OpenBatch, Vendor
  <2>2. OverOf = Vendor
    BY <2>1 DEF OverOf, Done, Typed, InBatch
  <2>3. OverOf' = {} /\ StoreOf' = StoreOf
    BY <1>1, <2>1 DEF OverOf, StoreOf, Done, StartRun
  <2>4. told' = {} /\ got' = [v \in Vendor |-> Store!Nothing]
    BY <1>1 DEF StartRun, Empty, Store!Nothing
  <2>5. Store!Begin
    BY <2>2, <2>3, <2>4 DEF Store!Begin, StoreOf, OverOf
  <2>6. QED
    BY <2>5 DEF Store!Next
<1>2. CASE Transient \/ MapFetched \/ MapFails \/ SkipUnmapped \/ Answered \/ RequestFails
  <2>1. vendor \in Vendor
    BY <1>2 DEF Transient, MapFetched, MapFails, SkipUnmapped, Answered, RequestFails, Typed, InBatch
  <2>2. QED
    BY <1>2, <2>1, AskingRefines DEF Store!Next
<1>3. CASE Delete
  <2>1. /\ pc = "fetched" /\ pc' = "insert" /\ UNCHANGED <<vendor, told, got, before>> /\ vendor \in Vendor
        /\ \E f : table' = [table EXCEPT ![vendor] = f]
    BY <1>3 DEF Delete, Storing, batch, history, Typed, InBatch
  <2>2. table \in [Vendor -> [Symbol -> Value \cup {Absent}]] /\ before = table[vendor]
    BY <2>1 DEF Typed, TypeOK, BatchInTable
  <2>3. StoreOf = table /\ StoreOf' = [table' EXCEPT ![vendor] = before]
    BY <2>1 DEF StoreOf
  <2>4. StoreOf' = StoreOf
    BY <2>1, <2>2, <2>3
  <2>5. OverOf' = OverOf
    BY <2>1 DEF OverOf, Done
  <2>6. QED
    BY <2>1, <2>4, <2>5
<1>4. CASE Insert
  <2>1. vendor \in Vendor
    BY <1>4 DEF Insert, Typed, InBatch
  <2>2. QED
    BY <1>4, <2>1, InsertRefines DEF Store!Next
<1>5. CASE Discard \/ NothingToStore \/ Unwired \/ StoreFails \/ Stored
  <2>1. vendor \in Vendor
    BY <1>5 DEF Discard, NothingToStore, Unwired, StoreFails, Stored, Storing, Typed, InBatch
  <2>2. QED
    BY <1>5, <2>1, TurnRefines DEF Store!Next
<1>6. CASE Crash
  <2>1. pc \notin {"idle", "closed"} /\ pc' = "idle" /\ UNCHANGED <<vendor, table, told, got>>
    BY <1>6 DEF Crash, batch
  <2>2. OverOf' = Vendor /\ StoreOf' = table
    BY <2>1 DEF OverOf, StoreOf
  <2>3. \/ StoreOf' = StoreOf
        \/ \E v \in Vendor \ OverOf : StoreOf' = [StoreOf EXCEPT ![v] = Store!Erased(StoreOf[v], got[v])]
    <3>1. CASE pc = "insert"
      <4>1. vendor \in Vendor /\ vendor \notin Done(vendor)
        BY <2>1, UsableIsDelivered
      <4>2. vendor \in Vendor \ OverOf
        BY <3>1, <4>1 DEF OverOf
      <4>3. StoreOf' = [StoreOf EXCEPT ![vendor] = Store!Erased(StoreOf[vendor], got[vendor])]
        BY <2>2, <3>1, CutErases
      <4>4. QED
        BY <4>2, <4>3
    <3>2. CASE pc # "insert"
      BY <2>2, <3>2 DEF StoreOf
    <3>3. QED
      BY <3>1, <3>2
  <2>4. Store!Die
    BY <2>1, <2>2, <2>3 DEF Store!Die, StoreOf, OverOf
  <2>5. QED
    BY <2>4 DEF Store!Next
<1>7. QED
  BY <1>1, <1>2, <1>3, <1>4, <1>5, <1>6 DEF Next, Progress

\* The two statements of store_ohlcv and store_fundamentals, each of which commits on its
\* own, implement an upsert that is one step: it writes exactly the last complete values
\* that its vendor delivered, or it is cut, with an error or with the run, and takes
\* exactly those keys away; for any number of symbols, attempts and runs.
THEOREM ImplementsAtomicStore == Spec => AtomicUpserts
<1>1. Init => Store!Init /\ Deleted
  BY DEF Init, Store!Init, Store!Nothing, Empty, Deleted
<1>2. Typed /\ BatchInTable /\ QuietSoFar /\ Deleted /\ [Next]_vars => [Store!Next]_(Store!vars)
  <2> SUFFICES ASSUME Typed, BatchInTable, QuietSoFar, Deleted, [Next]_vars PROVE [Store!Next]_(Store!vars)
    OBVIOUS
  <2>1. CASE Next
    BY <2>1, StepRefines DEF Store!vars, StoreOf, OverOf
  <2>2. CASE UNCHANGED vars
    BY <2>2 DEF vars, batch, history, Store!vars, Done
  <2>3. QED
    BY <2>1, <2>2
<1>3. QED
  BY <1>1, <1>2, InitTyped, StepTyped, InitBatchInTable, StepBatchInTable, InitQuiet, StepQuiet,
     StepDeleted, PTL DEF Spec, AtomicUpserts, Store!Spec
=============================================================================

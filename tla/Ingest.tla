------------------------------- MODULE Ingest -------------------------------
(***************************************************************************)
(* scripts/download_data.py: the vendors are asked in turn, each adapter   *)
(* retries its requests, and what came is upserted into research.duckdb,   *)
(* the only thing that outlives a run.  Runs do not overlap, because       *)
(* DuckDB admits one writing process, but a run may die at any step.       *)
(*                                                                         *)
(* Every symbol has one primary key per vendor.  A run delivers at most    *)
(* two values for it, the second from an overlapping window (FinMind) or   *)
(* another form filed that day (EDGAR), and a FinMind row may lack a       *)
(* number.  An attempt includes its wait in the vendor's rate limiter.     *)
(***************************************************************************)
EXTENDS Naturals, Sequences

CONSTANTS
    NSymbols,     \* the universe, in the order it is fetched
    MaxAttempts,  \* stop_after_attempt
    MaxRuns       \* bound: runs of the script

ASSUME SizesAssumption ==
    NSymbols \in Nat \ {0} /\ MaxAttempts \in Nat \ {0} /\ MaxRuns \in Nat

VARIABLES
    pc,       \* where the run is
    run,      \* runs started
    vendor,   \* whose turn it is
    request,  \* the request of its batch that is being made
    attempt,  \* attempts of that request that have failed
    cik,      \* EDGAR's ticker map, cached by the adapter
    rows,     \* rows fetched in this batch
    errors,   \* diag.has_errors of the batch
    table,    \* the vendors' tables in research.duckdb
    told,     \* history: vendors for which this run printed an error
    got,      \* history: last usable value each vendor delivered in this run
    before,   \* history: the table when the batch began
    kept      \* history: keys stored, and not since in a store that was cut short

batch   == <<request, attempt, rows, errors, before>>
history == <<told, got, kept>>
vars    == <<pc, run, vendor, cik, batch, table, history>>

Symbol == 1..NSymbols
Vendor == {"finmind", "edgar", "finra"}
After(v) == CASE v = "finmind" -> "edgar" [] v = "edgar" -> "finra" [] OTHER -> "none"

\* The vendors whose turn is over, by whose turn it is.
Done(v) ==
    CASE v = "finmind" -> {} [] v = "edgar" -> {"finmind"} [] v = "finra" -> {"finmind", "edgar"}
      [] OTHER -> Vendor

NaN    == 0
Value  == 1..(2 * MaxRuns)
First  == 2 * run - 1        \* values delivered by the current run
Second == 2 * run
Absent == NaN                \* no such row in a table
Empty  == [s \in Symbol |-> Absent]
RowSet == [key : Symbol, value : Value \cup {NaN}]

TypeOK ==
    /\ pc \in {"idle", "map", "request", "fetched", "insert", "stored", "closed"}
    /\ run \in 0..MaxRuns
    /\ vendor \in Vendor \cup {"none"}
    /\ request \in 1..(NSymbols + 1) /\ attempt \in 0..(MaxAttempts - 1)
    /\ cik \in {"unset", "loaded", "empty"}
    /\ rows \in Seq(RowSet) /\ Len(rows) <= 2 * NSymbols
    /\ errors \in BOOLEAN
    /\ table \in [Vendor -> [Symbol -> Value \cup {Absent}]]
    /\ got \in [Vendor -> [Symbol -> Value \cup {NaN}]]
    /\ kept \in [Vendor -> SUBSET Symbol]
    /\ before \in [Symbol -> Value \cup {Absent}]
    /\ told \subseteq Vendor

Init ==
    /\ pc = "idle" /\ run = 0 /\ vendor = "none" /\ cik = "unset"
    /\ request = 1 /\ attempt = 0 /\ rows = <<>>
    /\ errors = FALSE
    /\ table = [v \in Vendor |-> Empty] /\ before = Empty
    /\ told = {} /\ got = [v \in Vendor |-> Empty]
    /\ kept = [v \in Vendor |-> {}]

OpenBatch(v) ==
    /\ vendor' = v
    /\ request' = 1 /\ attempt' = 0 /\ rows' = <<>>
    /\ errors' = FALSE
    /\ before' = IF v \in Vendor THEN table[v] ELSE Empty
    /\ pc' = IF v = "none" THEN "closed" ELSE IF v = "edgar" THEN "map" ELSE "request"

(* main: a fresh registry of adapters, and the first vendor. *)
StartRun ==
    /\ pc \in {"idle", "closed"} /\ run < MaxRuns
    /\ run' = run + 1
    /\ cik' = "unset"
    /\ told' = {} /\ got' = [v \in Vendor |-> Empty]
    /\ OpenBatch("finmind")
    /\ UNCHANGED <<table, kept>>

NextVendor == OpenBatch(After(vendor)) /\ UNCHANGED <<run, cik, table>>

-----------------------------------------------------------------------------
(* Fetching. *)

\* FINRA is asked for all symbols at once.
Requests == IF vendor = "finra" THEN 1 ELSE NSymbols

\* What a request that succeeds can bring for a symbol: nothing (no data, a 404,
\* a payload that reports an error), one row, or two for the same key.
Row(s, v) == [key |-> s, value |-> v]
RowsOf(s) ==
    {<<>>, <<Row(s, First)>>} \cup
    IF vendor = "finra" THEN {}
    ELSE {<<Row(s, First), Row(s, Second)>>} \cup
         IF vendor = "edgar" THEN {}
         ELSE {<<Row(s, NaN)>>, <<Row(s, First), Row(s, NaN)>>}

\* Mutant of Transient: the batch, not the request, is tried again, uncounted.
TransientRestarts ==
    /\ pc \in {"map", "request"} /\ attempt < MaxAttempts - 1
    /\ request' = 1 /\ rows' = <<>>
    /\ UNCHANGED <<pc, run, vendor, cik, attempt, errors, before, table, history>>

\* A timeout, a lost connection, and FinMind's 429 are tried again.
Transient ==
    /\ pc \in {"map", "request"} /\ attempt < MaxAttempts - 1
    /\ attempt' = attempt + 1
    /\ UNCHANGED <<pc, run, vendor, cik, request, rows, errors, before, table, history>>

\* _resolve_cik: the map is fetched once; after a failure an empty one is cached.
MapFetched ==
    /\ pc = "map"
    /\ cik' = "loaded" /\ pc' = "request" /\ attempt' = 0
    /\ UNCHANGED <<run, vendor, request, rows, errors, before, table, history>>

MapFails ==
    /\ pc = "map"
    /\ cik' = "empty" /\ errors' = TRUE
    /\ pc' = "request" /\ attempt' = 0
    /\ UNCHANGED <<run, vendor, request, rows, before, table, history>>

\* Mutant of Advance: the end of the symbols is noticed one request late.
AdvanceLate ==
    /\ request' = request + 1 /\ attempt' = 0
    /\ pc' = IF request > Requests THEN "fetched" ELSE "request"
    /\ UNCHANGED <<run, vendor, cik, before, table, told, kept>>

Advance ==
    /\ request' = request + 1 /\ attempt' = 0
    /\ pc' = IF request = Requests THEN "fetched" ELSE "request"
    /\ UNCHANGED <<run, vendor, cik, before, table, told, kept>>

\* A symbol without a CIK is skipped with a warning.
SkipUnmapped ==
    /\ pc = "request" /\ vendor = "edgar" /\ cik = "empty"
    /\ Advance
    /\ UNCHANGED <<rows, errors, got>>

Positions(sequence, s) ==
    {i \in DOMAIN sequence : sequence[i].key = s /\ sequence[i].value # NaN}
Last(S) == CHOOSE i \in S : \A j \in S : j <= i
LastValue(sequence, s, otherwise) ==
    IF Positions(sequence, s) = {} THEN otherwise
    ELSE sequence[Last(Positions(sequence, s))].value

Answered ==
    /\ pc = "request" /\ ~(vendor = "edgar" /\ cik = "empty")
    /\ \E new \in RowsOf(request) :
         /\ rows' = rows \o new
         /\ got' = [got EXCEPT ![vendor][request] = LastValue(new, request, NaN)]
    /\ Advance
    /\ UNCHANGED errors

(* A request fails for good: its last attempt, or an answer that is not    *)
(* tried again.  FinMind's adapter warns, the others record an error.      *)
RequestFails ==
    /\ pc = "request" /\ ~(vendor = "edgar" /\ cik = "empty")
    /\ errors' = (errors \/ vendor # "finmind")
    /\ Advance
    /\ UNCHANGED <<rows, got>>

-----------------------------------------------------------------------------
(* Storing: store_ohlcv and store_fundamentals. *)

\* Mutant of Usable: duplicates are dropped before incomplete rows.
UsableDedupedFirst ==
    LET final == [s \in Symbol |-> {i \in DOMAIN rows : rows[i].key = s}]
    IN  {s \in Symbol : final[s] # {} /\ rows[Last(final[s])].value # NaN}

\* The keys that are left when incomplete rows, and then all rows of a key but the
\* last, are dropped.
Usable == {s \in Symbol : Positions(rows, s) # {}}

\* An adapter that recorded an error has its whole batch discarded.
Discard ==
    /\ pc = "fetched" /\ errors
    /\ told' = told \cup {vendor}
    /\ NextVendor
    /\ UNCHANGED <<got, kept>>

\* Nothing came, or nothing that could be stored: a note, and no error.
NothingToStore ==
    /\ pc = "fetched" /\ ~errors
    /\ rows = <<>> \/ (vendor # "finra" /\ Usable = {})
    /\ NextVendor
    /\ UNCHANGED history

\* Mutant of Unwired: FINRA's rows are dropped without a word.
UnwiredSilently ==
    /\ pc = "fetched" /\ ~errors /\ vendor = "finra" /\ rows # <<>>
    /\ NextVendor
    /\ UNCHANGED history

\* There is no table for FINRA's rows: _write answers with an error.
Unwired ==
    /\ pc = "fetched" /\ ~errors /\ vendor = "finra" /\ rows # <<>>
    /\ told' = told \cup {vendor}
    /\ NextVendor
    /\ UNCHANGED <<got, kept>>

Storing == pc = "fetched" /\ ~errors /\ vendor # "finra" /\ Usable # {}

\* Mutant of Delete: the keys of all fetched rows are deleted.
DeleteFetched ==
    /\ Storing
    /\ table' = [table EXCEPT ![vendor] =
         [s \in Symbol |-> IF \E i \in DOMAIN rows : rows[i].key = s THEN Absent ELSE @[s]]]
    /\ pc' = "insert"
    /\ UNCHANGED <<run, vendor, cik, batch, history>>

(* The DELETE commits on its own ... *)
Delete ==
    /\ Storing
    /\ table' = [table EXCEPT ![vendor] =
         [s \in Symbol |-> IF s \in Usable THEN Absent ELSE @[s]]]
    /\ pc' = "insert"
    /\ UNCHANGED <<run, vendor, cik, batch, history>>

(* ... and so does the INSERT. *)
Insert ==
    /\ pc = "insert"
    /\ table' = [table EXCEPT ![vendor] =
         [s \in Symbol |-> IF s \in Usable THEN LastValue(rows, s, NaN) ELSE @[s]]]
    /\ kept' = [kept EXCEPT ![vendor] = @ \cup Usable]
    /\ pc' = "stored"
    /\ UNCHANGED <<run, vendor, cik, batch, told, got>>

\* An error of either statement is caught and reported; nothing is rolled back.
StoreFails ==
    /\ Storing \/ pc = "insert"
    /\ told' = told \cup {vendor}
    /\ kept' = IF pc = "insert" THEN [kept EXCEPT ![vendor] = @ \ Usable] ELSE kept
    /\ NextVendor
    /\ UNCHANGED got

Stored == pc = "stored" /\ NextVendor /\ UNCHANGED history

(* The process dies, or an exception that nothing catches ends main. *)
Crash ==
    /\ pc \notin {"idle", "closed"}
    /\ pc' = "idle"
    /\ kept' = IF pc = "insert" THEN [kept EXCEPT ![vendor] = @ \ Usable] ELSE kept
    /\ UNCHANGED <<run, vendor, cik, batch, table, told, got>>

Progress ==
    \/ Transient \/ MapFetched \/ MapFails
    \/ SkipUnmapped \/ Answered \/ RequestFails
    \/ Discard \/ NothingToStore \/ Unwired
    \/ Delete \/ Insert \/ StoreFails \/ Stored

Next == StartRun \/ Progress \/ Crash

\* Every request has a timeout of 30 seconds, and the limiter lets its callers
\* through: a run that is not killed takes its next step.
Spec == Init /\ [][Next]_vars /\ WF_vars(Progress)

-----------------------------------------------------------------------------
(* An upsert that reports success left in the table, for every key, the    *)
(* last complete row of the batch, and for the keys without one what was   *)
(* there before: an incomplete duplicate neither replaces nor erases.      *)
UpsertsLastComplete ==
    pc = "stored" =>
        \A s \in Symbol : table[vendor][s] = LastValue(rows, s, before[s])

(* What was stored stays: only a store that was cut between DELETE and     *)
(* INSERT, by an error it reported or by the death of the process, can     *)
(* take a key out of a table.                                              *)
OnlyCutStoresLose ==
    pc # "insert" =>
        \A v \in Vendor : \A s \in kept[v] : table[v][s] # Absent

(* "Surface a clear diagnostic": a vendor for which a completed run printed *)
(* no error has in its table every usable value that it delivered.         *)
QuietRunStoredAll ==
    pc = "closed" =>
        \A v \in Vendor \ told, s \in Symbol :
            got[v][s] # NaN => table[v][s] = got[v][s]

(* A run comes to its end, whatever the vendors answer: retries are        *)
(* bounded and no failure repeats a request or a batch.                    *)
RunEnds == pc \notin {"idle", "closed"} ~> pc \in {"idle", "closed"}

(* The two statements of an upsert look like one, and like none when it is  *)
(* cut: the store implements AtomicStore.  While an upsert is between its   *)
(* statements, the table counts as what it was before them.                 *)
Store == INSTANCE AtomicStore WITH
    store <- IF pc = "insert" THEN [table EXCEPT ![vendor] = before] ELSE table,
    over  <- IF pc = "idle" THEN Vendor ELSE IF pc = "stored" THEN Done(vendor) \cup {vendor} ELSE Done(vendor)

\* Whatever batches mix, and wherever a run is cut: an upsert writes exactly the last
\* complete values that its vendor delivered, or is cut with an error or with the run and
\* takes exactly those keys away; a turn without either delivered nothing.
AtomicUpserts == Store!Spec
=============================================================================

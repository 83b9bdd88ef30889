------------------------------ MODULE Evidence -----------------------------
(***************************************************************************)
(* The research scripts at work: two of them may run at the same time,     *)
(* while prices are ingested, the operator edits gates_v2.yaml and the     *)
(* notes of the outcome tracker, and any of the scripts may be killed.     *)
(*                                                                         *)
(* Every source is read over a connection of its own, so two reads of one  *)
(* run may see different days.  Every artefact is written in place:        *)
(* opening it truncates it.                                                *)
(***************************************************************************)
EXTENDS Scripts

CONSTANTS
    Holdout,   \* the first day of the holdout, 2024-01-01
    Cases      \* the situations considered (see Case)

\* A case: the market before and after an ingestion, the calls by run, the statistics
\* that come out poorly, what the result of the holdout says, and what may happen around
\* the runs.
Script == {"screen_factor", "rescreen_v2", "workstream_a", "workstream_d", "ensemble_g0", "phase3",
           "romano_wolf", "bootstrap", "robustness", "battery", "high52w", "tracker"}
Call == [script : Script, factor : STRING, quiet : BOOLEAN, streams : SUBSET (1..5), end : Nat]
Case == [market : Market, later : Market, calls : Seq(Call), flaws : SUBSET Metric,
         holdout : {"PENDING", "HIT", "MISS"},
         around : SUBSET {"gates", "ingestion", "notes", "kill"}]

ASSUME HoldoutAssumption == Holdout \in Nat
ASSUME CasesAssumption == Cases \subseteq Case

VARIABLES
    case,     \* the case, which never changes
    db,       \* which market research.duckdb holds
    gates,    \* gates_v2.yaml: "frozen" or "edited"
    files,    \* the artefacts that exist
    log,      \* the events of results/research_log.jsonl, by run
    runs,     \* the runs
    notes,    \* what the operator last noted on each row of the tracker
    crossed   \* files that two writers, or a writer and an edit, got into each other's way of

vars == <<case, db, gates, files, log, runs, notes, crossed>>

Run == DOMAIN case.calls
Tracker == <<"tracker", "">>
GateResults(f) == <<"gate_results", f>>
Nothing == Artefact("NONE", 0, {})
NoResults == [f \in {} |-> Nothing]
NewRows == [f \in Seeds |-> [outcome |-> "PENDING", note |-> "none"]]

Program(a) ==
    CASE a.script = "screen_factor" -> ScreenReads(a.factor) \o ScreenWrites(a.factor)
      [] a.script = "rescreen_v2"   -> RescreenProgram(a.quiet)
      [] a.script = "workstream_a"  -> WorkstreamAProgram(a.factor)
      [] a.script = "workstream_d"  -> WorkstreamDProgram
      [] a.script = "ensemble_g0"   -> EnsembleG0Program
      [] a.script = "phase3"        -> Phase3Program(a.quiet)
      [] a.script = "romano_wolf"   -> RomanoWolfProgram(a.quiet)
      [] a.script = "bootstrap"     -> BootstrapProgram(a.quiet)
      [] a.script = "robustness"    -> RobustnessProgram(a.quiet)
      [] a.script = "battery"       -> BatteryProgram(a.streams, a.quiet)
      [] a.script = "high52w"       -> High52wProgram(a.quiet)
      [] a.script = "tracker"       -> TrackerProgram

\* What run r has seen of the market: nothing of what it has not read, nothing after
\* its last day.
Seen(r) ==
    LET of(x) == IF runs[r].from[x] = "later" THEN case.later ELSE case.market
        nothing == [s \in Symbol |-> {}]
        unread(x) == runs[r].from[x] = "unread"
    IN  Upto([case.market EXCEPT !.closes  = IF unread("closes") THEN nothing ELSE of("closes").closes,
                                 !.filings = IF unread("filings") THEN nothing ELSE of("filings").filings,
                                 !.spy     = IF unread("spy") THEN {} ELSE of("spy").spy],
             case.calls[r].end)

\* What call a makes of a market, with what run has read of the other files.
Makes(a, seen, flaws, holdout, run) ==
    CASE a.script = "screen_factor" -> ScreenMakes(seen, a.factor, flaws)
      [] a.script = "rescreen_v2"   -> RescreenMakes(seen, run.gates, flaws)
      [] a.script = "workstream_a"  -> WorkstreamAMakes(seen, a.factor, flaws)
      [] a.script = "workstream_d"  -> WorkstreamDMakes(seen, run.from.spy # "unread", flaws)
      [] a.script = "ensemble_g0"   -> EnsembleG0Makes(seen, flaws)
      [] a.script = "phase3"        -> Phase3Makes(seen, flaws)
      [] a.script = "romano_wolf"   -> RomanoWolfMakes(seen, flaws)
      [] a.script = "bootstrap"     -> BootstrapMakes(seen, flaws)
      [] a.script = "robustness"    -> RobustnessMakes(seen, flaws)
      [] a.script = "battery"       -> BatteryMakes(seen, run.results, flaws)
      [] a.script = "high52w"       -> High52wMakes(seen, flaws)
      [] a.script = "tracker"       -> TrackerMakes(run.notes, run.results, holdout)

-----------------------------------------------------------------------------
NotStarted == [state |-> "idle", program |-> <<>>, at |-> 1, open |-> FALSE,
               from |-> [closes |-> "unread", filings |-> "unread", spy |-> "unread"], gates |-> "frozen",
               results |-> NoResults, notes |-> [f \in {} |-> "none"], version |-> 0, made |-> GivesUp]

TypeOK ==
    /\ db \in {"market", "later"} /\ gates \in {"frozen", "edited"}
    /\ \A p \in DOMAIN files :
        /\ files[p].state \in {"torn", "whole"} /\ files[p].version \in Nat
        /\ files[p].by \in Run \cup {0}
        /\ files[p].made.verdict \in {"PASS", "FAIL", "INDETERMINATE", "NONE"} /\ files[p].made.periods \in Nat
    /\ \A r \in Run :
        /\ runs[r].state \in {"idle", "running", "refused", "gave up", "done", "killed"}
        /\ runs[r].at \in 1..Len(runs[r].program) + 1
        /\ runs[r].open => runs[r].state \in {"running", "killed"}
    /\ \A i \in DOMAIN log : log[i].run \in Run /\ DOMAIN log[i].verdicts \subseteq DOMAIN runs[log[i].run].made
    /\ notes \in [Seeds -> {"none", "noted", "barred", "revised"}]
    /\ crossed \subseteq DOMAIN files

Init ==
    /\ case \in Cases
    /\ db = "market" /\ gates = "frozen"
    /\ files = Leaves(Tracker, [state |-> "whole", by |-> 0, version |-> 0, made |-> Artefact("NONE", 0, NewRows)])
    /\ log = <<>>
    /\ runs = [r \in Run |-> NotStarted]
    /\ notes = [f \in Seeds |-> "none"]
    /\ crossed = {}

\* The step that run r is at.
NextStep(r) ==
    IF runs[r].at <= Len(runs[r].program) THEN runs[r].program[runs[r].at] ELSE <<"end", "">>
Does(r, kind) == runs[r].state = "running" /\ ~runs[r].open /\ NextStep(r)[1] = kind
Reads(r, what) == Does(r, "read") /\ NextStep(r)[2] = what

\* Run r goes on to its next step, or ends where it is.
Onward(r, change) == runs' = [runs EXCEPT ![r] = [change EXCEPT !.at = @ + 1]]
Ends(r, how) == runs' = [runs EXCEPT ![r].state = how]

\* "if end >= date(2024, 1, 1): return 2"; the tracker takes no dates.
Start(r) ==
    /\ runs[r].state = "idle"
    /\ IF case.calls[r].end >= Holdout THEN Ends(r, "refused")
       ELSE runs' = [runs EXCEPT ![r].state = "running", ![r].program = Program(case.calls[r])]
    /\ UNCHANGED <<case, db, gates, files, log, notes, crossed>>

\* One SELECT over one connection.
ReadMarket(r) ==
    /\ \E source \in {"closes", "filings", "spy"} :
        Reads(r, source) /\ Onward(r, [runs[r] EXCEPT !.from[source] = db])
    /\ UNCHANGED <<case, db, gates, files, log, notes, crossed>>

ReadGates(r) ==
    /\ Reads(r, "gates")
    /\ Onward(r, [runs[r] EXCEPT !.gates = gates])
    /\ UNCHANGED <<case, db, gates, files, log, notes, crossed>>

\* _assert_gates_v2_frozen raises on a file with another hash.
AssertFrozen(r) ==
    /\ Reads(r, "frozen")
    /\ IF gates = "frozen" THEN Onward(r, runs[r]) ELSE Ends(r, "gave up")
    /\ UNCHANGED <<case, db, gates, files, log, notes, crossed>>

\* Every gate_results.json there is; one that is not whole does not parse.
ReadResults(r) ==
    LET found == {f \in Factor : GateResults(f) \in DOMAIN files}
    IN  /\ Reads(r, "results")
        /\ IF \E f \in found : files[GateResults(f)].state = "torn" THEN Ends(r, "gave up")
           ELSE Onward(r, [runs[r] EXCEPT !.results = [f \in found |-> files[GateResults(f)].made]])
        /\ UNCHANGED <<case, db, gates, files, log, notes, crossed>>

\* _parse_existing_notes takes a row with a bar in its note for no row, and finds none in
\* a file that is not whole.
Parsed(note) == IF note = "barred" THEN "none" ELSE note

ReadNotes(r) ==
    LET file == files[Tracker]
        read == IF file.state = "torn" THEN [f \in {} |-> "none"]
                ELSE [f \in {f \in Seeds : Parsed(file.made.rows[f].note) # "none"} |-> file.made.rows[f].note]
    IN  /\ Reads(r, "notes")
        /\ Onward(r, [runs[r] EXCEPT !.notes = read, !.version = file.version])
        /\ UNCHANGED <<case, db, gates, files, log, notes, crossed>>

\* The markers between which the table goes are missing from a file that is not whole.
ReadText(r) ==
    /\ Reads(r, "text")
    /\ IF files[Tracker].state = "torn" THEN Ends(r, "gave up") ELSE Onward(r, runs[r])
    /\ UNCHANGED <<case, db, gates, files, log, notes, crossed>>

Compute(r) ==
    /\ Does(r, "judge")
    /\ \E seen \in {View(Seen(r))} : \E made \in {Makes(case.calls[r], seen, case.flaws, case.holdout, runs[r])} :
        IF made = GivesUp THEN Ends(r, "gave up") ELSE Onward(r, [runs[r] EXCEPT !.made = made])
    /\ UNCHANGED <<case, db, gates, files, log, notes, crossed>>

\* Is some other run between opening p and filling it?
BeingWritten(r, p) ==
    \E o \in Run \ {r} : runs[o].state = "running" /\ runs[o].open /\ NextStep(o) = Write(p)

\* The file is opened, which empties it.  What the tracker held may have changed since
\* the notes were read.
Open(r) ==
    LET p == NextStep(r)[2]
        version == IF p \in DOMAIN files THEN files[p].version ELSE 0
        overtaken == p = Tracker /\ runs[r].version # version
        opened == [state |-> "torn", by |-> r, version |-> version + 1, made |-> Nothing]
    IN  /\ Does(r, "write")
        /\ files' = [q \in DOMAIN files \cup {p} |-> IF q = p THEN opened ELSE files[q]]
        /\ crossed' = IF BeingWritten(r, p) \/ overtaken THEN crossed \cup {p} ELSE crossed
        /\ runs' = [runs EXCEPT ![r].open = TRUE]
        /\ UNCHANGED <<case, db, gates, log, notes>>

\* The file is filled.  If another run has filled it meanwhile, the end of a longer
\* content may remain.
Fill(r) ==
    LET p == NextStep(r)[2]
        whole == [files[p] EXCEPT !.state = "whole", !.made = runs[r].made[p], !.version = @ + 1]
        mixed == [files[p] EXCEPT !.state = "torn", !.made = Nothing, !.version = @ + 1]
    IN  /\ runs[r].state = "running" /\ runs[r].open
        /\ \/ files' = [files EXCEPT ![p] = whole]
           \/ files[p].state = "whole" /\ files' = [files EXCEPT ![p] = mixed]
        /\ Onward(r, [runs[r] EXCEPT !.open = FALSE])
        /\ UNCHANGED <<case, db, gates, log, notes, crossed>>

\* append_event with the verdicts of what was made; the battery only appends to a log
\* that exists.
AppendEvent(r) ==
    LET written == {p \in DOMAIN runs[r].made : \E i \in DOMAIN runs[r].program : runs[r].program[i] = Write(p)}
    IN  /\ Does(r, "log")
        /\ log' = IF case.calls[r].script = "battery" /\ log = <<>> THEN log
                  ELSE Append(log, [run |-> r, verdicts |-> [p \in written |-> runs[r].made[p].verdict]])
        /\ Onward(r, runs[r])
        /\ UNCHANGED <<case, db, gates, files, notes, crossed>>

\* Mutant of Exit: the run also ends in the middle of its program.
ExitMidway(r) ==
    /\ runs[r].state = "running"
    /\ Ends(r, "done")
    /\ UNCHANGED <<case, db, gates, files, log, notes, crossed>>

Exit(r) ==
    /\ Does(r, "end")
    /\ Ends(r, "done")
    /\ UNCHANGED <<case, db, gates, files, log, notes, crossed>>

\* A run is killed; a file it had opened and not filled stays as it is.
Kill(r) ==
    /\ "kill" \in case.around
    /\ runs[r].state = "running"
    /\ Ends(r, "killed")
    /\ UNCHANGED <<case, db, gates, files, log, notes, crossed>>

\* download_data adds days; the operator edits the gates, and a note of the tracker.
Ingestion ==
    /\ "ingestion" \in case.around
    /\ db = "market" /\ db' = "later"
    /\ UNCHANGED <<case, gates, files, log, runs, notes, crossed>>

EditGates ==
    /\ "gates" \in case.around
    /\ gates = "frozen" /\ gates' = "edited"
    /\ UNCHANGED <<case, db, files, log, runs, notes, crossed>>

EditNote(f) ==
    /\ "notes" \in case.around
    /\ files[Tracker].state = "whole"
    /\ \E note \in {"noted", "barred", "revised"} :
        /\ notes[f] \in (IF note = "revised" THEN {"noted", "barred"} ELSE {"none"})
        /\ notes' = [notes EXCEPT ![f] = note]
        /\ files' = [files EXCEPT ![Tracker].made.rows[f].note = note, ![Tracker].version = @ + 1]
    /\ UNCHANGED <<case, db, gates, log, runs, crossed>>

Step(r) ==
    \/ Start(r) \/ ReadMarket(r) \/ ReadGates(r) \/ AssertFrozen(r) \/ ReadResults(r) \/ ReadNotes(r)
    \/ ReadText(r) \/ Compute(r) \/ Open(r) \/ Fill(r) \/ AppendEvent(r) \/ Exit(r)

Next ==
    \/ \E r \in Run : Step(r) \/ Kill(r)
    \/ Ingestion \/ EditGates
    \/ \E f \in Seeds : EditNote(f)

Spec == Init /\ [][Next]_vars

-----------------------------------------------------------------------------
(***************************************************************************)
(* Properties.                                                             *)
(***************************************************************************)

\* Has run r just computed what it is going to write?
Judged(r) ==
    /\ runs[r].state = "running" /\ ~runs[r].open /\ runs[r].at > 1
    /\ runs[r].program[runs[r].at - 1] = Judge

\* Nothing peeks.  No run has seen a day of the holdout.  The scores, tilts and regime of
\* a rebalance day are the same without any later data, those of two reads at different
\* times included; its forward returns are the same without the data up to it.
SameToday(all, past, t) ==
    /\ \A f \in Factor : all.panels[f][t] = past.panels[f][t] /\ all.shuffled[f][t] = past.shuffled[f][t]
    /\ all.size[t] = past.size[t] /\ all.vol[t] = past.vol[t] /\ all.regime[t] = past.regime[t]
NoPeek ==
    \A r \in Run : Judged(r) =>
        LET m == Seen(r)
        IN  /\ \A s \in Symbol : \A d \in m.closes[s] \cup m.filings[s] \cup m.spy : d < Holdout
            /\ \A all \in {View(m)} : \A t \in Friday :
                /\ \A past \in {View(Upto(m, t))} : SameToday(all, past, t)
                /\ all.labels[t] = Labels(After(m, t))[t]

One == Frac(1, 1)
BookSound(book, v) ==
    /\ \A leg \in {book.long, book.short} : DOMAIN leg = {} \/ Total(leg, DOMAIN leg) = One
    /\ \A s \in DOMAIN book.long, o \in DOMAIN book.short : v[o] \prec v[s]
BothLegs(book) == DOMAIN book.long = {} <=> DOMAIN book.short = {}
Amid(x, among) == (\E y \in among : y \preceq x) /\ (\E y \in among : x \preceq y)
Sound(seen, panels, ensemble) ==
    \A t \in Friday :
        /\ \A v \in {seen.panels[f][t] : f \in Factor} \cup {ensemble[t]} : \A legs \in {Legs(v, Quantiles)} :
            /\ BothLegs(Tilted(legs, Alike))
            /\ \A pull \in {Alike, seen.vol[t], seen.size[t]} : BookSound(Tilted(legs, pull), v)
        /\ \A s \in DOMAIN ensemble[t] :
            Amid(ensemble[t][s], {panels[f][t][s] : f \in {f \in DOMAIN panels : s \in DOMAIN panels[f][t]}})

\* Whatever ties, missing names or missing tilts there are: a book is long only names
\* that score above all it is short; a leg that is there is fully invested; the equally
\* weighted book has both legs or none; and an ensemble score lies between the scores it
\* was made of.
BooksSound ==
    \A r \in Run : Judged(r) =>
        \A seen \in {View(Seen(r))} : \A panels \in {RegistryPanels(seen)} :
            Sound(seen, panels, EnsembleScores(panels, Ones(DOMAIN panels), Coverage))

\* A PASS rests on a spread of returns: whatever data are missing, whatever default a
\* metric takes then, no artefact passes on fewer than two long-short returns.  The
\* Romano-Wolf test is the exception.
PassedOnEvidence ==
    \A p \in DOMAIN files :
        files[p].made.verdict = "PASS" /\ p[1] # "romano_wolf" => files[p].made.periods > 1

\* The log never claims what the disk does not hold: of a logged event, every artefact is
\* whole and has the verdict that was logged, unless another run has written it since or
\* two writers crossed.  A run that is killed at any point logs nothing or has written all.
LogAgreesWithDisk ==
    \A i \in DOMAIN log : \A p \in DOMAIN log[i].verdicts :
        \/ p \in crossed
        \/ p \in DOMAIN files /\ files[p].by # log[i].run
        \/ p \in DOMAIN files /\ files[p].state = "whole" /\ files[p].made.verdict = log[i].verdicts[p]

\* "Manual notes in the existing tracker are preserved on regeneration": a table that is
\* whole has the operator's last notes, whichever results came and went meanwhile, unless
\* an edit or another regeneration fell between the reading and the writing.  A note with
\* a bar in it is exempt: the generator does not recognise its row, and drops it.
NotesSurvive ==
    \/ Tracker \in crossed
    \/ files[Tracker].state = "torn"
    \/ \A f \in Seeds : notes[f] # "barred" => files[Tracker].made.rows[f].note = notes[f]
=============================================================================

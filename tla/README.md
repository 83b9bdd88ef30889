# Formal models of nyse-trading

This directory holds TLA+ models of the parts of the repository whose
correctness depends on an order of events: lockfiles, a shared rate limiter, a
hash-chained log, a download that upserts tables, a rebalance that writes a
ledger, risk layers that move weight between positions, a walk-forward validation
that must not look ahead, research scripts that share a store, a log and their
artefacts. TLC checks each model on small instances; for eight of the components
TLAPS proves results for every value of the constants.

## 1. Inventory

The repository is a weekly long-only equity strategy (package `nyse_core`: pure
computations; package `nyse_ats`: I/O, storage, execution, monitoring) and about
forty scripts that run research iterations under a pre-registration discipline.

| Component | State it keeps | Operations | Hard behaviour | What makes it correct |
|---|---|---|---|---|
| One-shot holdout (`scripts/run_holdout_once*.py`) | lockfiles and evidence in `results/holdout` | preflight, acquire, compute, write evidence, promote, dry run | two operators, crash at any system call, exception clean-up, files published in two renames | the 2024-2025 window is read at most once, whatever ends a run; the evidence is that of the run that read it |
| Rate limiter (`data/rate_limiter.py`) | a deque of time stamps under a lock | `acquire`, `try_acquire` | threads sleep outside the lock; boundary of the window | never more than `max_requests` in a window; blocked callers get through |
| Research log (`scripts/append_research_log.py`, `verify_research_log.py`) | one JSONL file | append with tag and tip guards, verify | writers without a lock, retries, torn lines | a log that verifies holds every acknowledged record once; the chain does not fork |
| Rebalance cycle (`pipeline.py`, `nautilus_bridge.py`, `live_store.py`, `portfolio.py`, `run_paper_trade.py`) | the fill ledger in `live.duckdb`, the configuration | run_rebalance, submit, reconcile, record_fill, get_current_positions | failed writes, crashes, a flag edited while a cycle runs, effects over several cycles | the ledger is what was planned, once; positions follow targets; the kill switch stops orders |
| Allocator and risk stack (`allocator.py`, `risk.py`, `optimizer.py`) | none (pure) | selection with sell buffer, position, sector, beta, earnings caps | redistribution with stale totals, order of the layers | every cap holds on the weights that leave the stack |
| Falsification and live entry (`falsification.py`, `run_live_trade.py`, `gates.py`) | thresholds, trigger results in `live.duckdb` | evaluate_all, filters, gate evaluation | thresholds at their boundary, missing metrics | a trigger fires exactly when its description says |
| Data ingestion (`download_data.py`, `data/*.py`, `research_store.py`) | `research.duckdb`; a limiter, a session and EDGAR's ticker map in the adapters | batch fetch with retry, upserts of prices and fundamentals | one symbol of several fails, DELETE and INSERT commit apart, swallowed errors, crashes | the tables hold the last complete row delivered; only a store that was cut short loses rows; a run ends |
| Atomic writer, corporate actions (`storage/atomic_writer.py`, `corporate_action_log.py`) | published files, pending actions | atomic rename, store and list actions | short writes, rename without fsync | a published file is whole; a pending action is seen before orders go out |
| Cross-validation, walk-forward loops, point-in-time rules (`cv.py`, `research_pipeline.py`, `backtest.py`, `models/*.py`, `pit.py`, `contracts.py`) | windows, the model of a fold, the returns booked | folds with purge and embargo; stack, fit, score, book; publication lags | off-by-one at window ends, silent dropping of folds, factors that come and go between days | no training label reaches into its test window; a score reads nothing of later; a coefficient meets its factor |
| Strategy and factor registries (`strategy_registry.py`, `features/registry.py`) | registered strategies and their results | register, record_result, select_best, compute_all | results that outlive their registration | selection ranks a strategy by its own result |
| Alerts, drift, data quality, dashboard (`monitoring/*.py`) | none of their own | send with retry, checks, views | a message sent twice | display and statistics |
| Statistics, factors and gates (`factor_screening.py`, `statistics.py`, `metrics.py`, `gates.py`, `normalize.py`, `features/fundamental.py`) | none (pure) | panels, buckets, long-short books, tilts, ensembles, metrics, gates | ties, missing names, empty series and the defaults they fall back on | books are long what they score highest; a PASS rests on data |
| Research and reporting scripts (`screen_factor.py`, the `run_*`, `simulate_*` and `rescreen_*` scripts, `generate_outcome_tracker.py`, ...) | JSON artefacts, `OUTCOME_TRACKER.md`, events in the research log | read the store, compute, write artefacts, log | several reads over separate connections, artefacts truncated in place, kills between writes, an operator who edits the same files | the log agrees with the disk; notes survive; no run sees the holdout |

Interactions: an adapter calls `RateLimiter.acquire` before every attempt of
every request, and `download_data.py` hands what each adapter returns to the store.
`run_rebalance` calls adapters, features, allocator and risk
stack, then `NautilusBridge.submit` and `reconcile`, which calls
`LiveStore.record_fill` once per fill; the next cycle could read these fills
through `get_current_positions`. The research scripts read the tables that
`download_data.py` fills, leave artefacts that the tracker and the battery read
again, and append to the research log; its tip is pinned in the preregistrations
the holdout scripts test.

The hazards that guided the properties are listed, with their lines, in
`PROJECT.json`.

## 2. Modules

| Module | Models | EXTENDS / INSTANCE |
|---|---|---|
| `HoldoutOnce` | both holdout scripts, one step per system call | instantiates `HoldoutMark` |
| `HoldoutMark` | abstract one-shot protocol: unused, in progress, used | |
| `HoldoutProofs` | theorems about `HoldoutOnce` and the refinement | extends `HoldoutOnce`, `TLAPS` |
| `RateLimiter` | the limiter and the threads that call it | |
| `RateLimiterProofs` | theorems about `RateLimiter` | extends `RateLimiter`, `TLAPS` |
| `ResearchLog` | appenders, the file, the verifier as a predicate | |
| `ResearchLogProofs` | theorems about `ResearchLog` | extends `ResearchLog`, `WellFoundedInduction`, `TLAPS` |
| `TradingDay` | cycles over the fill ledger | |
| `TradingProofs` | theorems about `TradingDay` | extends `TradingDay`, `WellFoundedInduction`, `TLAPS` |
| `Ingest` | the download script, its adapters and the upserts | instantiates `AtomicStore` |
| `AtomicStore` | abstract store in which an upsert is one step, or is cut and loses its keys | |
| `IngestProofs` | theorems about `Ingest` and the refinement | extends `Ingest`, `WellFoundedInduction`, `TLAPS` |
| `Portfolio` | selection, weights and risk layers of one rebalance | extends `Fractions` |
| `Fractions` | exact arithmetic on weights | |
| `PortfolioProofs` | theorems about `Portfolio`, and about fractions and their totals | extends `Portfolio`, `WellFoundedInduction`, `FiniteSetTheorems`, `SequenceTheorems`, `TLAPS` |
| `WalkForward` | the purged splitters and both walk-forward loops | |
| `WalkForwardProofs` | theorems about `WalkForward` | extends `WalkForward`, `WellFoundedInduction`, `FiniteSetTheorems`, `TLAPS` |
| `Screening` | scores, books, metrics and gates, as operators on a market | extends `Fractions` |
| `Scripts` | each research script: what it reads and writes, in order, and what it makes | extends `Screening` |
| `Evidence` | the scripts at work: interleaved, killed, over a store and files that change | extends `Scripts` |
| `EvidenceProofs` | theorems about `Evidence`, and what they need about fractions and their totals | extends `Evidence`, `WellFoundedInduction`, `FiniteSetTheorems`, `TLAPS` |
| `MC*` | constants for TLC: symmetry sets, bounds, wirings | extend the module they name |

`PortfolioProofs` and `EvidenceProofs` both carry the lemmas about fractions and totals:
no module can extend `Portfolio` and `Evidence` at once, and the lemmas are about the
operators these two define.

In each module, the definitions after the line of dashes are properties.
Definitions introduced as mutants (`AcquireWithoutExcl`, `WriteAbandons`, ...)
are plausible bugs of the definition that follows them; each property is known
to fail under at least one of them, and they are used nowhere else.

### HoldoutOnce

State: the two lockfiles, the two evidence files and their `.tmp` siblings
(a file is identified with the invocation whose payload it holds, so a digest
matches a result when both name the same invocation), the set of frozen
artefacts that pass their test, and a program counter per invocation. A
re-run is another invocation. The two scripts share `results/holdout`, which is
why they are one model; they differ in the artefacts their preflight wants
(`Required`). `preflight_check` is three steps because `exists()` is asked
twice and another process may rename in between. `write_evidence` is four
steps: two temporary files, two renames. Promotion is two: `FindMarker` asks whether the
marker is there, `PromoteLockfileToUsed` renames it. `Raise` is an exception with its
`finally`, `Kill` a death without. `touched` and `barred` are history variables:
who read the window, and who started after it was spent. "Spent" means promoted,
or marked in progress by runs of which none is alive. Whether operators take turns
is the variable `serial`, chosen at the start and never changed.

### HoldoutMark

Three values of a mark, its reader and the evidence. A run takes the
unused mark; the mark is later turned to used, with the evidence of that run.
Nothing leads back.

### RateLimiter

Time is counted in ticks and may pass between any two steps of any thread.
A call takes the lock and reads the clock (`EnterLock`), drops the head of the deque
as long as it has expired (`PurgeExpired`, one turn of the loop per step), and then
is granted a slot, refused, or computes the time to wait and releases the lock;
`Wake` ends the sleep and goes for the lock again. `granted` is the history of all
granted stamps, which the deque forgets.

### ResearchLog

The file is a sequence of lines. A line is a record, with its tag, content,
link and hash, or junk. The hash is modelled as injective: the hash of a line is
the line's content and the hash it links to, a nested tuple, because a digest
that collides is not a question here. `Begin`, `CheckTag`, `CheckTip`,
`AppendRecord` follow `append_event`; nothing locks the file between them.
`TornAppend` leaves a fragment, or a whole record without its newline, which the
next append completes into one unreadable line. `exists` tells a missing file, which the
verifier rejects, from an empty one, which it accepts (`Verified`). Whether writers take turns is the
variable `serial`. Racing writers that both pass the guard fork the chain: the
verifier notices, after the fact, and `VerifiedHoldsAcked` says what its verdict is
then worth.

### TradingDay

A cycle is one process. Only the ledger and the flag in
`strategy_params.yaml` outlive it. Scores and risk limits are abstracted to
"any target weight", which `Shares` turns into whole shares, all at one price
(`Lot` is the weight of one share; `int` drops the rest); the loop of `build_portfolio` that turns targets and
holdings into BUY and SELL plans, the outcome of `submit` by mode and switch, and
the fill-by-fill autocommits of `reconcile` are modelled in full. `wiring` is how
a caller constructs the pipeline: mode and kill switch of the bridge, and whether
stored positions are handed over as holdings. The script passes paper, no
switch, no holdings (`ScriptWiring`); the main run adds three others, in which a
switch is set, fills are shadowed, or the stored positions are read.

Cycles do not overlap because DuckDB lets one process write. Two limits of the
code shape what can be seen at run time. `run_paper_trade.py` calls
`run_rebalance` without market data, and `_load_all_data` then calls
`fetch(date)` on adapters that take three arguments: the TypeError is noted as a
vendor failure and the cycle ends in `SkipUnusable`. The model also follows
`run_rebalance` with data delivered, as its tests deliver them. And
`_last_daily_return` is set nowhere under `src/`, so the daily-loss halt never
acts and is not modelled.

### Ingest

A run of the script opens a batch per vendor, in order. Within a batch every
request may be tried again, answered, or fail; EDGAR first wants its ticker map,
and an empty one is cached when that fails. FinMind's adapter warns about a failed
symbol where the others record an error, and `main` discards a batch with
errors (`Discard`). The docstring of the EDGAR
adapter, by which "other symbols' data is still returned", holds of the adapter
and not of the script that calls it. Upserting is `Delete`, then `Insert`, each
committing on its own, with `StoreFails` and `Crash` between them. When the
INSERT fails, the script prints "0 rows written" although the old rows of those
keys are gone: `OnlyCutStoresLose` says that this is the only way to lose one.
`got`, `kept` and `before` are history variables. A row is its key and
one number, which is a value of its run or NaN.

### AtomicStore

What the tables promise a reader although no transaction holds the two statements
together. A vendor delivers values; its upsert writes all of them in one step and touches no
other key; or it is cut, and then exactly the keys it was to write are gone, and the run prints
an error or dies (`Report`, `Die`). A turn that ends without an upsert and without an
error delivered nothing (`BringNothing`). `Ingest` implements it: while an upsert is
between its statements, the store is the table as it was before the first.
`UpsertsLastComplete` is what this says of a single upsert, in terms of the rows of
its batch.

### Portfolio

`Select` is `select_top_n`, `Weigh` gives equal weights scaled by the regime. `InOrder`
stands for a sort: it lists a set by how many of its members come before each, and serves
the ranking as well as the order in which the dict of sector totals names its sectors.
From then on positions are indices in the order of the weight dict, which decides
the order in which sectors are visited. `apply_position_caps` is a step per
iteration, `apply_sector_caps` a step that opens a pass and records the totals of the
sectors to cap, and a step for each of them, `CapEarnings` the last layer.
`Spread` is the redistribution that the three share. `late` remembers the sectors
that were capped after another one of the same pass; they are the ones whose total
was stale. Equal weights are all over the position cap or none is, so
`build_portfolio` never redistributes in that layer and gives the excess up.
The code tolerates 1e-12 where the model compares exactly (a weight is a
fraction in lowest terms, which `lowest` reads off its continued fraction), and its loops stop after
50 passes, which no portfolio reaches since every pass freezes a position or a sector.
`run_rebalance` is called without sectors or earnings dates by every script, which
puts all positions in "Unknown"; the model follows `build_portfolio` with any.

### WalkForward

A trading day is its position in the index. `Folds` is the splitter,
`ResearchSplit` the arithmetic by which the research pipeline chooses its
arguments; `Purge` folds the execution delay of `ExecutionPurgedCV` in. Features are
represented by what they read: a price factor by the closes it needs inside the
trailing window, the Piotroski score by the two reports it compares, a model by its
columns, the last close in its labels and the reports in its rows. `TrainFold` is
`_build_train_stack` with the imputation and the fit, `TestDay` one turn of the test
loop with its branches (no features, a model that cannot predict, a label beyond the
index); columns come in the order of the registry on a day (`Earlier`) and of first
appearance in a stack (`Stacked`). A training day is left out when too few symbols have a label
(`Labelled`), a fold when it has too few rows, of a day and a symbol (`TooFew`). Four of the
fourteen registered factors stand for all: three price factors, with a short, a
middle and the longest lookback, and one that compares two filings. `Finish` is the end of the run. `run_walk_forward_backtest` is the same loop
with one matrix and no stride; `call.loop` tells them apart.

`ByName`, by which a coefficient always meets the factor it was fitted for, does
not hold, and `ByNameOnPrices` states the part that does. With a table of
fundamentals the training stack begins with the first days, on which the price
factors have too little history and `piotroski_f_score` is the only column;
`pd.concat` appends the others after it, while a test day has them in the order of
the registry. `RidgeModel` checks the number of columns, not their names.

### Screening, Scripts and Evidence

`Screening` has no state. A market is which days have closes, filings and SPY, and
what each factor would measure. The operators follow `screen_factor.py` and
`factor_screening.py`: panels and percentile ranks with average or random ties,
`pd.qcut` with dropped edges, books and their volatility and size tilts, ensembles
with a least coverage, and for each metric whether it can be computed, and the default
it takes when not. Whether a statistic that can be computed comes out well is an
input (`flaws`), since no order of steps decides it.

In `Scripts` a script is a sequence of steps (read a source, judge, write a file,
log) and an operator that says what it makes of what it read. Two reads of one run
are two connections and may see different days. Workstream D reads SPY only after it has
long-short returns to put against it, and so judges twice; a market has one series of SPY
closes, from whichever table a script takes them. The
rescreen and the robustness suite compute and write factor by factor; as
what they compute depends on nothing they write, all is judged first and then
written. Streams 2 and 3 of the battery write three files each. The
tracker has rows for factors, for the holdout and for ensembles; a note that contains
`|` (`barred`) is in the file, but the parser takes its row for no row.

`Evidence` runs them: two at a time, each step on its own, while `download_data.py`
adds days, the operator edits `gates_v2.yaml` or a note of the tracker, and runs
are killed. Opening a file truncates it (`Open`), and it is `torn` until it is filled
(`Fill`). Two writers that have the same file open at once may leave a mixture;
`crossed` remembers the files to which this happened, or whose tracker changed between
the reading of the notes and the writing, and `LogAgreesWithDisk` and `NotesSurvive`
make no promise about them: nothing in the scripts locks a file. Nor does `NotesSurvive`
promise anything about a note with a bar in it, which is lost.

`PassedOnEvidence` excepts the Romano-Wolf script, which passes on one common period:
nothing exceeds a single observed return, and the adjusted p is 0.

Reading the scripts for these modules turned up the following, which no run shows
because the repository promises nothing else about them:

- `rescreen_v2_active_factors.py` stamps its artefact with a constant hash of the gates
  file and does not compute it; a gates file edited before the run goes unnoticed. The
  workstream scripts compute it and refuse (`AssertFrozen`).
- `compute_long_short_weights` ranks every scored symbol, the returns of the screen only
  those with a label; the books differ on days when a label is missing. A tilted book may
  lose one leg.
- `generate_outcome_tracker.py` keeps notes only of rows in its seed list, and none that
  contains `|`.
- The robustness suite turns one knob at a time; stream 5 of the battery asks for
  `high_52w`, which the registry calls `52w_high_proximity`, and so never flips it.
- The live pipeline keeps 90 days of prices, too few for the momentum and 52-week factors,
  and fits its model to the mean of its own features.

## 3. Runs

| Run | Instance | Shows |
|---|---|---|
| `holdout` | 3 invocations, interleaved at every system call or one at a time | mutual exclusion of the critical part; a touched window stays marked; a run started on a spent holdout never reads; `.holdout_used` stands only over published evidence; the mark is never undone. One at a time: consumed at most once, the sidecar digests the promoted result, and `HoldoutMark` is implemented |
| `holdout_race` | 2 invocations | `AtMostOnce` fails without serial operators (finding) |
| `rate_limiter` | 2 threads of 3 calls, limit 2, window 2, time up to 4 | no window holds more than the limit; no live stamp is forgotten; every `acquire` returns |
| `research_log` | 3 writers, 2 tags, 2 contents, 1 torn write | an accepted log holds every acknowledged record once, even with racing writers; with serial writers the chain verifies and tags are unique; junk stops appends |
| `trading` | 2 symbols, target weights up to 3, two to a share, inertia 1, 3 cycles, 4 wirings | a finished cycle booked its plan and nothing else; nothing is booked twice within a cycle |
| `trading_positions` | 2 cycles, the script's wiring | positions leave the targets although nothing failed (finding) |
| `ingest` | 2 symbols, 2 attempts, 2 runs, 3 vendors | `AtomicStore` is implemented: an upsert writes the last complete rows of its vendor at once, or is cut with an error or with the run; only cut stores lose rows; a run without a printed error stored all it was given; a run ends |
| `portfolio` | 6 symbols, 3 scores, 4 positions, 3 sectors, caps of 30% and 20%, exposure 1 and 2/5 | the sell buffer keeps and replaces whom it should; no layer adds exposure; a sector exceeds its cap only by a stale total |
| `portfolio_sectors` | 6 positions, 4 sectors, cap of 30% | `SectorsCapped` fails (finding) |
| `walk_forward` | indices of 7 to 16 days, a year of 4 days, up to 3 folds, horizons 1 to 3, 5 tables, 8 patterns of gaps | no label or score looks ahead in prices, whatever purge, delay and embargo are asked for; every fold asked for comes about; on prices alone coefficients meet their factors |
| `walk_forward_facts` | the same | `FactsKnown` fails (finding) |
| `evidence` | 5 symbols, 4 rebalance days, an ensemble of 3, 12 scripts | no score looks ahead; books are sound; no PASS without data; the log agrees with the disk; notes survive |

**Bounds.** The holdout race needs two invocations; the third shows what
happens to a run that meets the leftovers of both. Two threads over a limit of
two with three calls each make one block while the other refills the window, and
time 4 covers two disjoint windows of length 2. Three writers give a racing pair
and a successor that inherits their fork; two contents under the same tag
are a divergent retry. In the trading day two symbols make orders of plans and
partial failures visible; weights up to 3 with inertia 1 and two to a share include a move
that is suppressed and one that is not, a target of less than a share and one of a share and
a part; a third cycle sells what the first two bought.
Two runs over
two symbols show old rows, new rows, and a symbol that fails beside one that
succeeds; a second attempt is a retry. Six symbols for four places and an
exit rank of five leave a holding inside the buffer, one outside and one that
better holdings push out; caps are scaled to four positions so that one sector, two
at once, or one after another go over. In the walk the constants of the code (a year,
the lookbacks, the trailing window) are scaled so that a year is four days: a
fold fits and does not fit, a factor has history on some days only, a report is
filed before and after the day that reads it. The cases of `evidence` are of
three kinds: one script on every non-decreasing cross-section of five symbols with three
values, four tilts and three sets of missing names (ties, collapsed buckets, empty
legs); each of the twelve scripts alone on seven markets with late listings, missing
filings, no SPY, little history or none; and the pairs that share a file, with what may
happen around them. Five symbols over three quantiles make uneven buckets, and an
ensemble of three with a least coverage of two has names below it and above it.
`MaxTime`, `MaxCalls`, `MaxRuns`, `MaxCycles`, `MaxWeight` and the number of torn writes
(`MaxCrash`) are the only bounds that the code does not have; they cap counters and the length
of histories in the guards.

**Deadlock.** `CHECK_DEADLOCK FALSE` stands in the runs whose system comes to an
end: every invocation is over, every call made, every append decided, every
download run, every weight final, every fold walked, every script at its end. The
trading runs check for deadlock: the operator can always edit the flag.

**Fairness.** `Ingest` assumes weak fairness of the run's own next step: each request
has a timeout of 30 seconds and the limiter lets its callers through, which is
`AcquireReturns`. `RateLimiter` assumes weak fairness of the clock and of
each thread's steps inside a call. The clock runs, and threads that can
run are scheduled; a Python lock promises no order among waiters, so none is
assumed, and callers make finitely many calls. Crashes, torn writes, operators
and callers are never fair, and the other modules state safety only.

## 4. Proofs

The proof modules assume nothing but the named assumptions on constants
(`NoneAssumption` of the holdout; `ThreadAssumption`, `LimitAssumption` and
`BoundAssumption` of the limiter, of which the second is the ValueError test of
`__init__`; those on writers and tags of the log; `SizesAssumption` of the download;
`SizesAssumption` and `WiringsAssumption` of the trading day; `SizeAssumption` and
`SetupAssumption` of the walk, by which test windows, horizons and folds are not empty, and its
`LookbackAssumption`, that the price factors of the registry need 15, 200 and 252 closes
in this order;
`UniverseAssumption`, that the universe and the registry of factors are finite;
`FactorAssumption` and `BoundAssumption` of the screens, by which a factor needs at least one
close, thresholds are positive and the rebalance days are finitely many; `ScriptAssumption`,
by which the factors of the scripts are among those there are and an ensemble wants two of
them; `HoldoutAssumption` and `CasesAssumption`, by which a case is markets, calls and
surroundings of the kinds the model describes, whatever their number; `SizesAssumption` and
`CapsAssumption` of the portfolio, by which sizes are numbers, the target is not zero, and
exposures and caps are fractions).

**HoldoutProofs.** `MutualExclusion` alone is not inductive: that a critical run
still finds its marker depends on no other run being able to rename it. The
invariant `ConcurrentInv` conjoins type correctness, exclusion, that touched
implies marked, that every run in or past the critical part is in `touched`,
that a run started when spent can only be somewhere the preflight still stops it,
and that the files hold payloads of runs that touched. Each action preserves it;
`CriticalSectionExclusive`, `TouchMarks`, `SpentIsFinal`, `EvidenceBehindUsed`
and `MarkStays` follow. With `serial` there is moreover at most one run alive, so
that a run past its preflight has seen a mark nobody can have set since;
`SerialInv` says so, and gives `HoldoutConsumedOnce`, `SidecarOfResult` and
`ImplementsMark`, in which each step maps to a step of `HoldoutMark` or
to a stutter (acquisition is `Touch`, promotion is `Promote`).

**RateLimiterProofs.** `WindowBound` speaks of the history of grants, of which
the code keeps only the deque. `LimiterInv` says that the deque is a suffix of
that history, that stamps are ordered and not in the future, and that everything
before the suffix lies a window before the time that the thread inside the lock has
read, which may be earlier than the clock. A grant then adds to a window in which at
most `max_requests - 1` stamps are left. The results hold for any set of threads,
limit, window and bound on time and calls.

**ResearchLogProofs.** That a log the verifier accepts holds every acknowledged
record, for any number of racing writers, needs no invariant about the chain at all:
`AckedInv` says that every chained line is the record of
one call, that no call has two, and that the record of an acknowledged call is there
or the file has a line of junk; the verifier accepts no junk. With `serial`,
`SerialInv` says that one call is alive, that tags are unique, and that a call past its
check of the tag finds it still absent, and past its check of the tip finds the file
still free of junk; `TagsOnce` and `JunkStops` follow. `ChainInv` adds that, while no
write was torn, the file verifies, ends in its last chained line, and the call about to write
has read that line's hash (`ChainVerifies`).

**IngestProofs.** `Typed` bounds the rows of a batch by two per request, which
`TypeOK` alone does not keep. `BatchInTable` follows what the table holds of the batch from its
opening, over `Delete`, to `Stored`; `LastCompleteWins` is its last part.
`KeptInTable` allows a kept key to be missing exactly between the two statements of
its own vendor's upsert, which is how `StoreFails` and `Crash` can lose it
(`OnlyCutsLose`). `QuietSoFar` relates what a vendor delivered to the rows of its
batch while it is its turn, and to its table after, unless an error was printed;
that appending the rows of a new key leaves the last values of the others alone is
the lemma it rests on (`OthersAppended`, `NewKeyAppended`). `QuietMeansStored`
holds for any number of symbols, attempts and runs.
`ImplementsAtomicStore` combines the three with `Deleted`, that between its statements the keys
of an upsert are gone and there are some. `UsableIsDelivered` identifies the keys that are left of
a mixed batch, when incomplete rows and then duplicates are dropped, with those that the vendor
delivered; so `Insert` is the abstract `Upsert` (`InsertRefines`), and `Delete` a stutter. A
`StoreFails` or `Crash` between the two finds exactly the delivered keys missing
(`CutErases`), which is the abstract upsert cut; in any other place they leave the store
alone. `UpsertsLastComplete` is no property of the run, because `AtomicUpserts` tells more;
it is proved (`LastCompleteWins`).

**TradingProofs.** That no symbol is booked twice needs the order of the fills:
`InOrder` says that what the current cycle has booked lies before what its queue still
holds, and that no line of the ledger is of a later cycle, so that a new cycle starts
with nothing booked. `Accounted` splits the plan while fills are written: an order is
queued, lost or in the ledger, and the ledger holds nothing of the cycle besides. At the end the queue
is empty, which is `BooksThePlan`. Both hold for any targets and holdings, hence
whatever the scores and the risk stack return.

**WalkForwardProofs.** `Layout` computes where the windows of a fold lie, `RoomForAll` that
an index of at least `total_needed` days leaves the first fold, and so each, its
training days; the filter of `split` then drops no fold (`FoldsOfSplit`), which is `EveryFold`. `LabelsEnd`
is the argument of the purge: the last training day plus the horizon comes before the
first test day, because the purge was raised to the horizon. `ModelInTime` carries that from
the fit to the test days, and a score's closes lie in the trailing window
(`ClosesKnown`). Nothing is assumed about features, gaps or tables.
`WalkTypes` needs that a window ends within the index (`WindowBounds`), that the portfolio
held is of an earlier day (`Forward`), and that a stack lists each of its columns once:
`Ranks` shows that of whatever `InOrder` lists, for a strict total order, and `OrderByFirst`
that first days, and within a day the registry, are one. `NamesMeet` is the argument why
taking columns by position is safe on prices: a factor is there only if all earlier ones
of the registry are, since none needs fewer closes than the one before
(`PricesGiveAPrefix`, the one place where `LookbackAssumption` is used), so the stack is
in the order of the registry (`StackInRegistry`), and two days with as many columns have the same
(`AsManyAreTheSame`): the number that `predict` compares decides. `Named` carries it from
the fit to the test days.

**PortfolioProofs.** The longest of the proofs, because everything the layers do is
arithmetic on exact fractions and sums over sets, about which the library says nothing.
What would be an induction is an argument about the least counterexample, which the well-founded
order of the library gives for numbers (`LeastElement`) and for subsets of a finite set
(`SmallestSet`). `Recursion` shows that way that a recursion that lowers a measure defines a
function. So `lowest` gives the lowest terms of a ratio, the same for equal ratios
(`LowestValue`, `LowestEqual`), fractions obey the laws of numbers (`AddFrac` to `MulMonotone`),
a total may be taken in any order (`TotalPick`), and is additive, homogeneous and monotone.
*Ranking.* `Ranks`: where a relation orders a set, `InOrder` lists each member once, at its rank.
`SelectKeeps` follows from it for the sort key of `select_top_n`, whatever ties and missing
scores there are. *Layers.* `SpreadGives`: a redistribution lowers no weight and hands out its
excess or nothing; `CutToCap` and `CutSector` add what was cut, so that exposure cannot grow.
For `CutSector` this needs that the total a sector was recorded with is not more than its
total now. *The invariant.* `LoneSectorsCapped` speaks of the end of `apply_sector_caps` alone and
says nothing on the way there. `IInv` adds `DueOK` (the sectors that wait in a pass are not
frozen, are different, and can only have grown since they were recorded; the first has not) and
`FrozenOK` (a frozen sector is at the cap unless it is `late`). The first survives because a
redistribution lowers no weight outside the sector it cuts, the second because it reaches no
frozen sector. TLC checked `IInv` on a smaller instance of the run before it was proved.

**EvidenceProofs.** A long proof, because the scripts differ. It has four parts.
*What the scripts are.* `ProgramTidy`: whatever a call asks for, its program writes only what
it has judged before, logs at the end if at all, and after its first file judges again only when that
file was the near misses of the battery. `MakesGood`: what any script makes has a verdict, a
number of periods, and no PASS on fewer than two long-short returns; for the screens this is
`GatesNeedReturns` (some metrics default to what passes, but on fewer than two returns the
permutation p is 1, and G1 fails), for the ensembles the counting of the days both legs have.
*What a run sees.* `PastSame` and `LabelsAfter` compare the view of a market with that of
its part up to a day, and the forward returns with those of its part after it; `NothingPeeks` needs
of the state only that a run judges what the store held when it read (`SeenMarket`).
*The runs together.* `LogAgreesWithDisk` and `NotesSurvive` are not inductive: they do not say who
has a file open, nor that a version counts all that happened to a file. `Inv` adds to them
`Consistent` (a run is on its own program, and what it made past a judgement is sound; a
file it has open is torn and its own unless it was crossed), `Written` (a file that a run wrote
and nobody wrote since holds the verdict the run made), `Logged` (an event came from a run
at the end of its program, and says of each file that program writes what the run made for it)
and `Noted` (while the tracker's version is still the one a regeneration read, the notes it
goes by are those in the file; once it has the file open uncrossed, they are the operator's
last). A step either leaves the files alone, opens one, fills one, or is the operator's
edit (`Sorts`); each part of `Inv` is shown preserved by each sort rather than by each
step of each script. TLC checked `Inv` on the cases of the run before it was
proved.
*The books.* `BooksAreSound` needs of the state only that a run judges a part of one of the
markets; the rest is about operators, for every market (`MarketSound`). The edges of
`pd.qcut` interpolate between scores at positions of the sorted list. `AtSomebody` shows by
counting that each position is somebody's score, and `AtRises` that later positions do
not score less, so that an edge lies between two scores (`EdgePosition`). A larger score then is
in no smaller bucket, however many edges have collapsed (`BucketRises`), and the legs, which are
the first and the last bucket that somebody is in, are apart (`LegsApart`): what is long scores above
all that is short. Weights are pulls divided by their total, so a leg with a pull in it sums to
exactly one (`SharedIsWhole`, `TiltedSound`), and with equal pulls neither leg can be
empty alone (`AlikeBoth`). An ensemble score is a weighted mean: multiplied by its total
weight it is at least as often the least score and at most as often the largest, and
the weight cancels (`MeanAmid`, `CancelAtMost`).

**Only model-checked.** The liveness properties `AcquireReturns` and `RunEnds`: liveness
under fairness is out of the prover's reach. Every other property of a passing run
is stated by a theorem.

## 5. Findings

Four places where the documentation claims what the code does not do, each with a
run that shows it; quotes and lines are in `PROJECT.json`.

1. `holdout_race`: `O_EXCL` on `.holdout_in_progress` does not close the race
   between preflight and acquisition, since a run that completes in between
   renames that file away. Running one invocation at a time restores the promise.
2. `trading_positions`: holdings are never read, and a fill takes the whole target
   as its quantity, so positions only grow, and a smaller target sells nothing.
3. `portfolio_sectors`: of two sectors over the cap in one pass, the second ends
   above it, because it is reduced against a total computed before the first one's
   excess was spread; it is then frozen (4/6 and 2/6 under a cap of 30% end at 30% and 63%).
4. `walk_forward_facts`: prices are cut to what was known on a day, the table of
   fundamentals is not, so that training and test scores rest on later filings.

## 6. Not modelled

- Vendor formats, and with them the transcript and constituency adapters, whose retries
  are those of `Ingest`; the display scripts `generate_figures.py` and
  `make_research_pack.py`.
- The values of factors, fits and statistics. The models know what a number is made
  from and whether it exists; whether it is good is an input. Left out with them:
  `attribution.py`, `optimizer.py`, `run_permutation_test.py`, stream 4 of the
  battery (sector residuals).
- Code that nothing under `src/` or `scripts/` calls: `pre_submit` and
  `record_trade_plan`, the atomic writer, the corporate-action log, the strategy
  registry, the alert bot, `enforce_pit_lags` outside the live pipeline, the gate table of
  the research store. There is no run of the program to model them in.
- The live entry point: it evaluates an empty metric set, on which every veto fires,
  and so always aborts.

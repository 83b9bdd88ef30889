------------------------------ MODULE Scripts ------------------------------
(***************************************************************************)
(* The research scripts as programs: what each reads, in which order, what *)
(* it makes of it, and the files and the log event it leaves behind.       *)
(*                                                                         *)
(* A program is a sequence of steps.  What a script made is a function     *)
(* from the files it is about to write to what goes into them; it is empty *)
(* when the script gives up.                                               *)
(***************************************************************************)
EXTENDS Screening, Sequences

CONSTANTS
    Active,       \* _V2_ACTIVE_FACTORS, in their order
    Registered,   \* the factors of register_all_factors
    High,         \* the factor of run_iter18_high52w_diagnostic
    FlipAsked,    \* the panels that stream 5 of the battery asks for
    Seeds,        \* rows of the outcome tracker: factors, ensembles and the holdout
    HoldoutRow,   \* the row of the holdout
    LeastPaired,  \* returns below which the battery does not correlate two of them
    Coverage,     \* _BASELINE_K
    Wide, Narrow  \* the n_quantiles that V3 perturbs to

ActiveSet == {Active[i] : i \in DOMAIN Active}

ASSUME ScriptAssumption ==
    /\ Active \in Seq(Factor) /\ Registered \subseteq Factor /\ High \in Registered
    /\ Coverage \in Nat \ {0, 1} /\ {Wide, Narrow} \subseteq Nat \ {0, 1}

\* Steps of a program.
Read(what)  == <<"read", what>>
Judge       == <<"judge", "all">>
Write(path) == <<"write", path>>
Log         == <<"log", "event">>

\* An append to the research log, unless --skip-research-log.
LogUnless(quiet) == IF quiet THEN <<>> ELSE <<Log>>
WriteAll(paths) == [i \in DOMAIN paths |-> Write(paths[i])]

\* What is in an artefact: its verdict, the long-short returns this rests on, and the
\* metrics or rows that are read again by other scripts.
Artefact(verdict, periods, rows) == [verdict |-> verdict, periods |-> periods, rows |-> rows]
PassIf(passed) == IF passed THEN "PASS" ELSE "FAIL"
GivesUp == [p \in {} |-> {}]
Leaves(path, artefact) == [p \in {path} |-> artefact]

Periods(panel, labels) == Cardinality(LongShortDays(panel, labels, Quantiles))
Ones(factors) == [f \in factors |-> 1]
NoFactors == [f \in {} |-> {}]
Others(panels, f) == [g \in DOMAIN panels \ {f} |-> panels[g]]

-----------------------------------------------------------------------------
(***************************************************************************)
(* screen_factor.py                                                        *)
(***************************************************************************)

\* main up to the panels: prices, filings for a fundamental factor, the benchmarks.
ScreenReads(f) ==
    <<Read("closes")>> \o (IF f \in Fundamental THEN <<Read("filings")>> ELSE <<>>) \o <<Read("spy")>>

\* The benchmarks that the long-short returns are measured against.
Benchmarks(seen, f) ==
    LET sized(t) == DOMAIN seen.size[t] # {} /\ Legs(seen.panels[f][t], Quantiles).long # {}
    IN  IF Periods(seen.panels[f], seen.labels) = 0 THEN {}
        ELSE (IF seen.spy = {} THEN {} ELSE {"SPY", "RSP"}) \cup
             (IF \E t \in Friday : seen.labels[t] # {} THEN {"sector_neutral"} ELSE {}) \cup
             (IF \E t \in Friday : seen.labels[t] # {} /\ sized(t) THEN {"char_matched_size"} ELSE {})

\* The tilted books with two returns, some of them of a symbol that has one; their
\* baseline comes with the volatility-scaled book, or else if it can be computed.
Reported(books, labels) ==
    LET symbols(t) == DOMAIN books[t].long \cup DOMAIN books[t].short
        days == {t \in Friday : symbols(t) # {} /\ labels[t] # {}}
    IN  Cardinality(days) > 1 /\ \E t \in days : symbols(t) \cap labels[t] # {}
AlternativePortfolios(seen, f) ==
    LET scores == seen.panels[f]
        volatility == Reported([t \in Friday |-> VolatilityScaledWeights(scores[t], seen.vol[t])], seen.labels)
        capital == Reported([t \in Friday |-> CapTiltedWeights(scores[t], seen.size[t])], seen.labels)
        equal == Periods(scores, seen.labels) > 1
    IN  {book \in {"vol_scaled", "cap_tilted_sqrt", "equal_weight_baseline"} :
            CASE book = "vol_scaled"      -> volatility
              [] book = "cap_tilted_sqrt" -> capital
              [] OTHER                    -> volatility \/ (capital /\ equal)}

ScreenMakes(seen, f, flaws) ==
    LET metrics == ScreenMetrics(seen.panels[f], seen.labels, NoFactors, flaws)
        judged(rows) == Artefact(PassIf(EvaluateFactorGates(metrics, DEFAULT_GATE_CONFIG)),
                                 Periods(seen.panels[f], seen.labels), rows)
    IN  [p \in {<<"gate_results", f>>, <<"screening_metrics", f>>} |->
            judged(IF p[1] = "gate_results" THEN metrics ELSE Benchmarks(seen, f) \cup AlternativePortfolios(seen, f))]

\* Mutant of ScreenWrites: the event is logged before the files are written.
ScreenLogsFirst(f) == <<Judge, Log, Write(<<"gate_results", f>>), Write(<<"screening_metrics", f>>)>>

ScreenWrites(f) == <<Judge, Write(<<"gate_results", f>>), Write(<<"screening_metrics", f>>), Log>>

-----------------------------------------------------------------------------
(***************************************************************************)
(* rescreen_v2_active_factors.py                                           *)
(***************************************************************************)

\* _build_v2_gate_config: the thresholds are those of the file as it is.
V2Gates(gates) ==
    [G0 |-> Gate("oos_sharpe", ">=", IF gates = "frozen" THEN 300 ELSE 0), G1 |-> Gate("permutation_p", "<", 50),
     G2 |-> Gate("ic_mean", ">=", 5), G3 |-> Gate("ic_ir", ">=", 50),
     G4 |-> Gate("max_drawdown", ">=", -300), G5 |-> Gate("max_return_decile_corr", "<=", 900)]

ActivePanels(seen) == [f \in ActiveSet |-> seen.panels[f]]

\* Each active factor is screened among the others.
RescreenMakes(seen, gates, flaws) ==
    LET metrics(f) == ScreenMetrics(seen.panels[f], seen.labels, Others(ActivePanels(seen), f), flaws)
        judged(f, found) == Artefact(PassIf(EvaluateFactorGates(found, V2Gates(gates))),
                                     Periods(seen.panels[f], seen.labels), found)
    IN  [p \in {<<"gate_results_v2", f>> : f \in ActiveSet} |-> judged(p[2], metrics(p[2]))]

RescreenProgram(quiet) ==
    <<Read("gates"), Read("closes"), Read("filings"), Judge>> \o
    WriteAll([i \in DOMAIN Active |-> <<"gate_results_v2", Active[i]>>]) \o LogUnless(quiet)

-----------------------------------------------------------------------------
(***************************************************************************)
(* run_workstream_a_orthogonal_screen.py                                   *)
(***************************************************************************)

\* _verdict of a value that may be missing.
Verdict(value, direction, threshold) ==
    IF value = NaN THEN "INDETERMINATE"
    ELSE PassIf(Passes(value, Gate("observed", direction, threshold)))

\* _compute_v_a7: the largest correlation with an active factor; none when no active
\* factor shares two returns with the candidate.
SharedPeriods(panel, other, labels) ==
    LongShortDays(panel, labels, Quantiles) \cap LongShortDays(other, labels, Quantiles)
VA7(panel, actives, labels, flaws) ==
    IF \E f \in DOMAIN actives : Cardinality(SharedPeriods(panel, actives[f], labels)) > 1
    THEN Computed("max_return_decile_corr", flaws) ELSE NaN

WorkstreamAMakes(seen, f, flaws) ==
    LET panel == seen.panels[f]
        va7   == Verdict(VA7(panel, ActivePanels(seen), seen.labels, flaws), "<", 500)
        judged(metrics) == Artefact(PassIf(EvaluateFactorGates(metrics, V2Gates("frozen")) /\ va7 = "PASS"),
                                    Periods(panel, seen.labels), metrics)
    IN  IF IsEmpty(panel) THEN GivesUp
        ELSE Leaves(<<"workstream_a", f>>, judged(ScreenMetrics(panel, seen.labels, ActivePanels(seen), flaws)))

\* _assert_gates_v2_frozen comes first.
WorkstreamAProgram(f) == <<Read("frozen"), Read("closes"), Read("filings"), Judge, Write(<<"workstream_a", f>>)>>

-----------------------------------------------------------------------------
(***************************************************************************)
(* run_workstream_d_single_factor.py                                       *)
(***************************************************************************)

\* The smaller of the two regimes' Sharpe ratios, if both have two returns.
RegimeSharpe(seen, days, flaws) ==
    LET in(regime) == {t \in days : seen.regime[t] = regime}
    IN  IF \A r \in {"BULL", "BEAR"} : Cardinality(in(r)) > 1 THEN Computed("oos_sharpe", flaws) ELSE NaN

WorkstreamDVerdicts(seen, days, flaws) ==
    LET n == Cardinality(days)
    IN  {Verdict(SharpeRatio(n, flaws), ">=", 300), Verdict(PermutationP(n, flaws), "<", 50),
         Verdict(BootstrapLower(n, flaws), ">=", 200), Verdict(RegimeSharpe(seen, days, flaws), ">=", 200)}
Worst(verdicts) ==
    IF verdicts = {"PASS"} THEN "PASS" ELSE IF "INDETERMINATE" \in verdicts THEN "INDETERMINATE" ELSE "FAIL"
\* SPY is read when there are returns; until then nothing is said of it.
WorkstreamDMakes(seen, spyRead, flaws) ==
    LET days == LongShortDays(seen.shuffled[Active[1]], seen.labels, Quantiles)
        judged(verdicts) == Artefact(Worst(verdicts), Cardinality(days), verdicts)
    IN  IF Cardinality(days) < 2 \/ (spyRead /\ seen.spy = {}) THEN GivesUp
        ELSE Leaves(<<"workstream_d", "">>, judged(WorkstreamDVerdicts(seen, days, flaws)))

WorkstreamDProgram ==
    <<Read("frozen"), Read("closes"), Judge, Read("spy"), Judge, Write(<<"workstream_d", "">>)>>

-----------------------------------------------------------------------------
(***************************************************************************)
(* simulate_ensemble_g0.py                                                 *)
(***************************************************************************)

\* build_factor_score_panels: the panels of the registry that have scores.
RegistryPanels(seen) == [f \in {f \in Registered : ~IsEmpty(seen.panels[f])} |-> seen.panels[f]]

\* compute_ensemble_ic_series wants more symbols than the screen does.
EnsembleICDays(scores, labels) ==
    {t \in Friday : Cardinality(DOMAIN scores[t] \cap labels[t]) >= LeastPool}

\* summarize_ensemble: the Sharpe ratio, if there is any return, and the statistics that
\* are there.
Summary(scores, labels, flaws) ==
    LET n == Periods(scores, labels)
        ics == Cardinality(EnsembleICDays(scores, labels))
    IN  [sharpe |-> IF n = 0 THEN NaN ELSE SharpeRatio(n, flaws),
         has    |-> IF n = 0 THEN {}
                    ELSE {"max_drawdown"} \cup (IF ics > 0 THEN {"ic_mean"} ELSE {}) \cup
                         (IF ics > 1 THEN {"ic_ir"} ELSE {}) \cup (IF n > 1 THEN {"permutation_p"} ELSE {})]

EnsembleG0Makes(seen, flaws) ==
    LET panels == RegistryPanels(seen)
        scores == EnsembleScores(panels, Ones(DOMAIN panels), 1)
    IN  IF DOMAIN panels = {} THEN GivesUp
        ELSE Leaves(<<"ensemble_g0", "">>,
                    Artefact("NONE", Periods(scores, seen.labels), Summary(scores, seen.labels, flaws).has))

EnsembleG0Program == <<Read("closes"), Read("filings"), Judge, Write(<<"ensemble_g0", "">>), Log>>

-----------------------------------------------------------------------------
(***************************************************************************)
(* The scripts on the v2 ensemble.  All rank with random ties and none     *)
(* goes on without a panel.                                                *)
(***************************************************************************)

ShuffledPanels(seen) == [f \in ActiveSet |-> seen.shuffled[f]]
SomeEmpty(panels) == \E f \in DOMAIN panels : IsEmpty(panels[f])
V2Ensemble(panels, coverage) == EnsembleScores(panels, Ones(DOMAIN panels), coverage)

\* _simple_mean_rho: the pairs whose top deciles share days enough.
SharingDays(panels, labels, least) ==
    {pair \in kSubset(2, DOMAIN panels) :
        Cardinality({t \in Friday : \A f \in pair : t \in DecileDays(panels[f], labels)}) >= least}
RhoPairs(panels, labels) == SharingDays(panels, labels, LeastDates)

\* simulate_v2_ensemble_phase3: without returns the verdict is left open.
Phase3Makes(seen, flaws) ==
    LET panels == ShuffledPanels(seen)
        scores == V2Ensemble(panels, Coverage)
        sharpe == Summary(scores, seen.labels, flaws).sharpe
    IN  IF SomeEmpty(panels) THEN GivesUp
        ELSE Leaves(<<"phase3", "">>,
                    Artefact(Verdict(sharpe, ">=", 500), Periods(scores, seen.labels), RhoPairs(panels, seen.labels)))

Phase3Program(quiet) ==
    <<Read("closes"), Read("filings"), Judge, Write(<<"phase3", "">>)>> \o LogUnless(quiet)

\* run_v1_romano_wolf: the largest adjusted p of returns that all factors have on the
\* same days; without a common day the test raises.
RomanoWolfMakes(seen, flaws) ==
    LET panels == ShuffledPanels(seen)
        common == {t \in Friday : \A f \in ActiveSet : t \in LongShortDays(panels[f], seen.labels, Quantiles)}
        n == Cardinality(common)
    IN  IF SomeEmpty(panels) \/ n = 0 THEN GivesUp
        ELSE Leaves(<<"romano_wolf", "">>,
                    Artefact(PassIf(Passes(AdjustedP(n, flaws), Gate("adjusted_p", "<", 50))), n, {}))

RomanoWolfProgram(quiet) ==
    <<Read("closes"), Read("filings"), Judge, Write(<<"romano_wolf", "">>)>> \o LogUnless(quiet)

\* run_v2_bootstrap_ci
BootstrapMakes(seen, flaws) ==
    LET panels == ShuffledPanels(seen)
        n == Periods(V2Ensemble(panels, Coverage), seen.labels)
    IN  IF SomeEmpty(panels) \/ n = 0 THEN GivesUp
        ELSE Leaves(<<"bootstrap", "">>,
                    Artefact(PassIf(Passes(BootstrapLower(n, flaws), Gate("ci_lower", ">=", 300))), n, {}))

BootstrapProgram(quiet) ==
    <<Read("closes"), Read("filings"), Judge, Write(<<"bootstrap", "">>)>> \o LogUnless(quiet)

\* run_robustness_suite: one knob at a time (V3), one factor left out at a time (V4).
Knobs == <<[coverage |-> Coverage - 1, n |-> Quantiles], [coverage |-> Coverage + 1, n |-> Quantiles],
           [coverage |-> Coverage, n |-> Narrow], [coverage |-> Coverage, n |-> Wide]>>
V3Days(seen, i) == LongShortDays(V2Ensemble(ShuffledPanels(seen), Knobs[i].coverage), seen.labels, Knobs[i].n)
V4Days(seen, f) ==
    LongShortDays(V2Ensemble(Others(ShuffledPanels(seen), f), Coverage - 1), seen.labels, Quantiles)

\* _run_ensemble_sharpe: none below two returns.
EnsembleSharpe(days, flaws) == IF Cardinality(days) < 2 THEN NaN ELSE SharpeRatio(Cardinality(days), flaws)

Baseline == 555
Deviation(sharpe) == IF sharpe < Baseline THEN Baseline - sharpe ELSE sharpe - Baseline

\* Every run has a Sharpe ratio, and none is off by more than a fifth of the baseline.
V3Passed(sharpes) == NaN \notin sharpes /\ \A s \in sharpes : 5 * Deviation(s) <= Baseline

\* Every run has one, none is below 0.30, and none lost more than 35% of the baseline.
V4Passed(sharpes) ==
    /\ NaN \notin sharpes
    /\ \A s \in sharpes : s >= 300 /\ (s < Baseline => 100 * Deviation(s) <= 35 * Baseline)

RobustnessMakes(seen, flaws) ==
    LET v3 == {EnsembleSharpe(V3Days(seen, i), flaws) : i \in 1..4}
        v4 == {EnsembleSharpe(V4Days(seen, f), flaws) : f \in ActiveSet}
        fewest == Min({Cardinality(V3Days(seen, i)) : i \in 1..4} \cup {Cardinality(V4Days(seen, f)) : f \in ActiveSet})
    IN  IF SomeEmpty(ShuffledPanels(seen)) THEN GivesUp
        ELSE [p \in {<<"v3", i>> : i \in 1..4} \cup {<<"v4", f>> : f \in ActiveSet} \cup {<<"robustness", "">>} |->
                CASE p[1] = "v3" -> Artefact("NONE", Cardinality(V3Days(seen, p[2])), {})
                  [] p[1] = "v4" -> Artefact("NONE", Cardinality(V4Days(seen, p[2])), {})
                  [] OTHER       -> Artefact(PassIf(V3Passed(v3) /\ V4Passed(v4)), fewest, {})]

RobustnessProgram(quiet) ==
    <<Read("closes"), Read("filings"), Judge>> \o WriteAll([i \in 1..4 |-> <<"v3", i>>]) \o
    WriteAll([i \in DOMAIN Active |-> <<"v4", Active[i]>>]) \o <<Write(<<"robustness", "">>)>> \o LogUnless(quiet)

-----------------------------------------------------------------------------
(***************************************************************************)
(* run_iter14_diagnostic_battery.py, streams 1, 2, 3 and 5                 *)
(***************************************************************************)

\* _IN_FORCE_THRESHOLDS, the battery's own copy of the gates, and how far below some of
\* them a near miss may be.
InForce == [G0 |-> Gate("oos_sharpe", ">=", 300), G1 |-> Gate("permutation_p", "<", 50),
            G2 |-> Gate("ic_mean", ">=", 20), G3 |-> Gate("ic_ir", ">=", 500),
            G4 |-> Gate("max_drawdown", ">=", -300), G5 |-> Gate("marginal_contribution", ">", 0)]
NearMargin == [G0 |-> 150, G2 |-> 5, G3 |-> 250, G4 |-> 100]

NearMissTag(g, value) ==
    IF Passes(value, InForce[g]) THEN "pass"
    ELSE IF value # NaN /\ g \in DOMAIN NearMargin /\ InForce[g].threshold - value <= NearMargin[g] THEN "near miss"
    ELSE "fail"

\* compute_per_factor_near_miss: results has the gate results that were found.
NearMiss(results) ==
    {<<f, g, NearMissTag(g, results[f].rows[InForce[g].metric])>> : f \in DOMAIN results, g \in DOMAIN InForce}

\* compute_coverage_matrix: a factor may cover symbols that have no prices; the share of
\* the symbols seen so far is cut at 1.
CoverageRows(panels, seen) ==
    LET priced(t) == {s \in Symbol : Known(seen.closes[s], t) # {}}
        covered(f, t) == Cardinality(DOMAIN panels[f][t])
        share(f, t) == IF priced(t) = {} THEN Zero
                       ELSE IF covered(f, t) > Cardinality(priced(t)) THEN Frac(1, 1)
                       ELSE Frac(covered(f, t), Cardinality(priced(t)))
    IN  UNION {{<<f, t, share(f, t)>> : t \in {t \in Friday : covered(f, t) > 0}} : f \in DOMAIN panels}

\* compute_pairwise_jaccard: the mean over the days that both have, if there are any.
BothScore(a, b) == {t \in Friday : DOMAIN a[t] # {} /\ DOMAIN b[t] # {}}
Jaccard(a, b) ==
    LET days == BothScore(a, b)
        overlap == [t \in days |-> Frac(Cardinality(DOMAIN a[t] \cap DOMAIN b[t]),
                                        Cardinality(DOMAIN a[t] \cup DOMAIN b[t]))]
    IN  Total(overlap, days) // Frac(Cardinality(days), 1)

\* compute_pairwise_score_correlation: pairs with a day on which enough symbols have both.
ScoreCorrelated(panels) ==
    {pair \in kSubset(2, DOMAIN panels) :
        \E t \in Friday : Cardinality({s \in Symbol : \A f \in pair : s \in DOMAIN panels[f][t]}) >= LeastDecile}

\* compute_pairwise_return_correlation: pairs whose top deciles share returns enough.
ReturnCorrelated(panels, labels) == SharingDays(panels, labels, LeastPaired)

\* sign_flip_panel, and the screen of it.
SignFlip(panel) == [t \in Friday |-> [s \in DOMAIN panel[t] |-> Frac(1, 1) -- panel[t][s]]]
SignFlipScreen(panel, labels, flaws) ==
    IF IsEmpty(panel) THEN "NONE"
    ELSE PassIf(EvaluateFactorGates(ScreenMetrics(SignFlip(panel), labels, NoFactors, flaws), DEFAULT_GATE_CONFIG))

BatteryFiles ==
    {<<"near_miss", "">>, <<"sign_flip", "">>} \cup ({"coverage"} \X {"matrix", "jaccard", "summary"}) \cup
    ({"correlations"} \X {"scores", "returns", "summary"})
CoverageFiles    == <<<<"coverage", "matrix">>, <<"coverage", "jaccard">>, <<"coverage", "summary">>>>
CorrelationFiles == <<<<"correlations", "scores">>, <<"correlations", "returns">>, <<"correlations", "summary">>>>

\* The battery says of a factor whether its flip passes; without a panel nothing.
BatteryMakes(seen, results, flaws) ==
    LET panels  == RegistryPanels(seen)
        flipped == {f \in FlipAsked : f \in DOMAIN panels}
        verdicts == {SignFlipScreen(panels[f], seen.labels, flaws) : f \in flipped}
        pairs == {pair \in kSubset(2, DOMAIN panels) : \A f, g \in pair : BothScore(panels[f], panels[g]) # {}}
        alike(pair) == LET f == CHOOSE f \in pair : TRUE IN Jaccard(panels[f], panels[CHOOSE g \in pair : g # f])
        coverage == [matrix |-> CoverageRows(panels, seen), jaccard |-> {<<pair, alike(pair)>> : pair \in pairs}]
        correlations == [scores |-> ScoreCorrelated(panels), returns |-> ReturnCorrelated(panels, seen.labels)]
        part(found, name) == Artefact("NONE", 0, IF name = "summary" THEN found ELSE found[name])
        most == IF flipped = {} THEN 0 ELSE Max({Periods(SignFlip(panels[f]), seen.labels) : f \in flipped})
    IN  [p \in BatteryFiles |->
            CASE p[1] = "near_miss"    -> Artefact("NONE", 0, NearMiss(results))
              [] p[1] = "coverage"     -> part(coverage, p[2])
              [] p[1] = "correlations" -> part(correlations, p[2])
              [] OTHER -> Artefact(IF "PASS" \in verdicts THEN "PASS" ELSE "NONE", most, verdicts)]

\* Stream 1 is written before the panels are built; nothing is logged unless there is a log.
BatteryProgram(streams, quiet) ==
    (IF 1 \in streams THEN <<Read("results"), Judge, Write(<<"near_miss", "">>)>> ELSE <<>>) \o
    (IF streams = {1} THEN <<>> ELSE <<Read("closes"), Read("filings"), Judge>>) \o
    (IF 2 \in streams THEN WriteAll(CoverageFiles) ELSE <<>>) \o
    (IF 3 \in streams THEN WriteAll(CorrelationFiles) ELSE <<>>) \o
    (IF 5 \in streams THEN <<Write(<<"sign_flip", "">>)>> ELSE <<>>) \o LogUnless(quiet)

-----------------------------------------------------------------------------
(***************************************************************************)
(* run_iter18_high52w_diagnostic.py                                        *)
(***************************************************************************)

\* _interpret: the gates it names as the reason of a failure.
Reasons(metrics) ==
    {g \in {"G0", "G1", "G2", "G3", "G4"} :
        LET value == metrics[InForce[g].metric] IN value # NaN /\ ~Passes(value, InForce[g])}

High52wMakes(seen, flaws) ==
    LET panel  == seen.panels[High]
        labels == seen.labels
        metrics == ScreenMetrics(SignFlip(panel), labels, NoFactors, flaws)
    IN  IF IsEmpty(panel) THEN GivesUp
        ELSE Leaves(<<"high52w", "">>, Artefact(SignFlipScreen(panel, labels, flaws),
                                                Periods(SignFlip(panel), labels), Reasons(metrics)))

High52wProgram(quiet) ==
    <<Read("closes"), Read("filings"), Judge, Write(<<"high52w", "">>)>> \o LogUnless(quiet)

-----------------------------------------------------------------------------
(***************************************************************************)
(* generate_outcome_tracker.py                                             *)
(***************************************************************************)

\* _load_gate_outcome, _load_holdout: holdout is what the result of the holdout says.
\* Forecasts about the ensemble stay pending.
Outcome(results, holdout, f) ==
    IF f = HoldoutRow THEN holdout
    ELSE IF f \notin DOMAIN results THEN "PENDING" ELSE IF results[f].verdict = "PASS" THEN "HIT" ELSE "MISS"

\* Mutant of ComputeRows: a note is kept with an outcome only.
ComputeRowsResolved(notes, results, holdout) ==
    [f \in Seeds |-> [outcome |-> Outcome(results, holdout, f),
                      note |-> IF f \in DOMAIN notes /\ f \in DOMAIN results THEN notes[f] ELSE "none"]]

\* _compute_rows: one row for each seed forecast, with the note that its row had.
ComputeRows(notes, results, holdout) ==
    [f \in Seeds |-> [outcome |-> Outcome(results, holdout, f),
                      note |-> IF f \in DOMAIN notes THEN notes[f] ELSE "none"]]

TrackerMakes(notes, results, holdout) ==
    Leaves(<<"tracker", "">>, Artefact("NONE", 0, ComputeRows(notes, results, holdout)))

\* The notes are parsed first and the text to splice the table into is read again after
\* the results.
TrackerProgram == <<Read("notes"), Read("results"), Judge, Read("text"), Write(<<"tracker", "">>)>>
=============================================================================

----------------------------- MODULE Screening -----------------------------
(***************************************************************************)
(* How a factor is turned into scores, portfolios, metrics and a verdict:  *)
(* the panels of scripts/screen_factor.py, nyse_core/normalize.py,         *)
(* factor_screening.py, gates.py and the statistics they call.             *)
(*                                                                         *)
(* A market tells for which days there are closes and filings and what     *)
(* each factor would measure; scores and weights are exact fractions.      *)
(* Whether a statistic that is computed comes out well is an input: the    *)
(* flaws of a case are the metrics that come out poorly.  Metrics and      *)
(* thresholds are in thousandths.                                          *)
(***************************************************************************)
EXTENDS Integers, Fractions

CONSTANTS
    Symbol,        \* the universe
    Fundamental,   \* the factors computed from filings rather than from closes
    Least,         \* Least[f]: closes, or filings, below which factor f has no value
    Falling,       \* the factors of sign -1
    Friday,        \* the rebalance days (_weekly_fridays)
    Trail,         \* the 20 days of the size and volatility panels
    Ahead,         \* the 5 days of a forward return
    Quantiles,     \* n_quantiles
    LeastIC,       \* symbols below which there is no information coefficient
    LeastPool,     \* symbols below which the ensemble's one is not computed
    LeastDecile,   \* symbols below which there is no top decile
    LeastDates,    \* days below which two decile returns are not correlated
    AverageDays    \* closes of SPY that its average needs

Factor == DOMAIN Least

\* The universe is a list of symbols, and the registry one of factors.
ASSUME UniverseAssumption == IsFiniteSet(Symbol) /\ IsFiniteSet(Factor)
ASSUME FactorAssumption == Fundamental \subseteq Factor /\ Falling \subseteq Factor
ASSUME BoundAssumption ==
    /\ Least \in [Factor -> Nat \ {0}]
    /\ Friday \subseteq Nat /\ IsFiniteSet(Friday)
    /\ {Trail, Ahead, LeastIC, LeastPool, LeastDecile, LeastDates, AverageDays} \subseteq Nat \ {0}
    /\ Quantiles \in Nat \ {0, 1}

\* A market: days of closes and of filings, and of SPY, and when that is above its
\* average; what the factors measure; the
\* square root of the dollar volume; the inverse of the volatility (0: it has none);
\* the order in which the generator breaks ties.
Market == [closes : [Symbol -> SUBSET Nat], filings : [Symbol -> SUBSET Nat], spy : SUBSET Nat,
           bull : SUBSET Nat, raw : [Factor -> [Symbol -> Nat]], size : [Symbol -> Nat],
           calm : [Symbol -> Nat], tie : [Symbol -> Nat]]

\* The part of a market up to day t, and the part after it.
Upto(m, t) ==
    [m EXCEPT !.closes = [s \in Symbol |-> {d \in m.closes[s] : d <= t}],
              !.filings = [s \in Symbol |-> {d \in m.filings[s] : d <= t}],
              !.spy = {d \in m.spy : d <= t}]
After(m, t) == [m EXCEPT !.closes = [s \in Symbol |-> {d \in m.closes[s] : d > t}],
                         !.spy = {d \in m.spy : d > t}]

AnyDay(closes) == UNION {closes[s] : s \in Symbol}

-----------------------------------------------------------------------------
(***************************************************************************)
(* Panels.                                                                 *)
(***************************************************************************)

\* Mutant of Known: the window runs to the day after the rebalance.
KnownLate(days, t) == {d \in days : d <= t + 1}

\* The days of data a panel looks at on a rebalance day.
Known(days, t) == {d \in days : d <= t}

\* rank_percentile: the average rank of equal values, scaled to [0, 1]; a single
\* value gets 1/2.
RankPercentile(v) ==
    LET n == Cardinality(DOMAIN v)
        less(s)  == Cardinality({o \in DOMAIN v : v[o] < v[s]})
        equal(s) == Cardinality({o \in DOMAIN v : v[o] = v[s]})
    IN  [s \in DOMAIN v |-> IF n = 1 THEN Frac(1, 2) ELSE Frac(2 * less(s) + equal(s) - 1, 2 * (n - 1))]

\* With a generator, equal values are ranked in an order of its own.
RankShuffled(v, tie) ==
    LET n == Cardinality(DOMAIN v)
        before(s) == {o \in DOMAIN v : v[o] < v[s] \/ (v[o] = v[s] /\ tie[o] < tie[s])}
    IN  [s \in DOMAIN v |-> IF n = 1 THEN Frac(1, 2) ELSE Frac(Cardinality(before(s)), n - 1)]

Signed(f, x) == IF f \in Falling THEN -x ELSE x

\* What factor f measures on day t, of the symbols that have data enough.
PriceValues(m, f, t) ==
    [s \in {s \in Symbol : Cardinality(Known(m.closes[s], t)) >= Least[f]} |-> Signed(f, m.raw[f][s])]
FilingValues(m, f, t) ==
    [s \in {s \in Symbol : Cardinality(Known(m.filings[s], t)) >= Least[f]} |-> Signed(f, m.raw[f][s])]

\* A panel has the scores of each rebalance day.
PricePanel(m, f) == [t \in Friday |-> RankPercentile(PriceValues(m, f, t))]
FilingPanel(m, f) == [t \in Friday |-> RankPercentile(FilingValues(m, f, t))]
Panel(m, f) == IF f \in Fundamental THEN FilingPanel(m, f) ELSE PricePanel(m, f)
ShuffledPanel(m, f) ==
    [t \in Friday |->
        RankShuffled(IF f \in Fundamental THEN FilingValues(m, f, t) ELSE PriceValues(m, f, t), m.tie)]

IsEmpty(panel) == \A t \in Friday : DOMAIN panel[t] = {}

\* The first and the Ahead-th later day of any symbol, if there are so many.
Horizon(days, t) ==
    LET future == {d \in days : d > t}
        rank(d) == Cardinality({e \in future : e <= d})
    IN  {d \in future : rank(d) \in {1, Ahead} /\ Cardinality(future) >= Ahead}

\* _build_forward_returns: the symbols with a forward return are those that trade on both.
Labels(m) ==
    [t \in Friday |-> {s \in Symbol : Horizon(AnyDay(m.closes), t) # {} /\
                                      Horizon(AnyDay(m.closes), t) \subseteq m.closes[s]}]

\* The trailing days of any symbol.
Trailing(m, t) ==
    LET days == Known(AnyDay(m.closes), t)
    IN  {d \in days : Cardinality({e \in days : e > d}) < Trail}

\* The trailing size needs a close; the volatility two returns, which pct_change also has
\* of days without a close once there has been one, and to be positive.
SizePanel(m) ==
    [t \in Friday |-> [s \in {s \in Symbol : m.closes[s] \cap Trailing(m, t) # {}} |-> m.size[s]]]
VolPanel(m) ==
    LET returns(s, t) == {d \in Trailing(m, t) : \E e \in m.closes[s] : e < d}
    IN  [t \in Friday |->
            [s \in {s \in Symbol : Cardinality(returns(s, t)) > 1 /\ m.calm[s] > 0} |-> m.calm[s]]]

\* _classify_regime_per_date: of the last day of SPY, when its average is known.
Regime(m, t) ==
    LET days == Known(m.spy, t)
    IN  IF Cardinality(days) < AverageDays THEN "UNKNOWN" ELSE IF Max(days) \in m.bull THEN "BULL" ELSE "BEAR"

\* All that the scripts make of a market before they judge it.
View(m) ==
    [closes |-> m.closes, spy |-> m.spy, labels |-> Labels(m), size |-> SizePanel(m), vol |-> VolPanel(m),
     panels |-> [f \in Factor |-> Panel(m, f)], shuffled |-> [f \in Factor |-> ShuffledPanel(m, f)],
     regime |-> [t \in Friday |-> Regime(m, t)]]

-----------------------------------------------------------------------------
(***************************************************************************)
(* Portfolios of one day: v has the scores.                                *)
(***************************************************************************)

\* The value at position i, from 0, when the values of v are sorted.
At(v, i) ==
    LET fewer(s) == Cardinality({o \in DOMAIN v : v[o] \prec v[s]})
        upto(s)  == Cardinality({o \in DOMAIN v : v[o] \preceq v[s]})
    IN  v[CHOOSE s \in DOMAIN v : fewer(s) <= i /\ i < upto(s)]

\* The k-th of n equal parts ends here, by linear interpolation.
Between(low, high, q) == low ++ (q ** (high -- low))
Edge(v, n, k) ==
    LET last == Cardinality(DOMAIN v) - 1
    IN  Between(At(v, (k * last) \div n), At(v, Min({last, (k * last) \div n + 1})), Frac((k * last) % n, n))

\* pandas.qcut with duplicate edges dropped: a score that meets an edge is below it.
Bucket(v, n) ==
    LET edges == {Edge(v, n, k) : k \in 0..n}
    IN  [s \in DOMAIN v |-> Max({1, Cardinality({e \in edges : e \prec v[s]})})]

NoLegs == [long |-> {}, short |-> {}]

\* The symbols of the last and of the first bucket, if there are so many buckets.
EndBuckets(bucket, buckets) ==
    LET labels == {bucket[s] : s \in DOMAIN bucket}
        with(b) == {s \in DOMAIN bucket : bucket[s] = b}
    IN  IF Cardinality(labels) < buckets THEN NoLegs ELSE [long |-> with(Max(labels)), short |-> with(Min(labels))]

\* Mutant of Legs: scores that are all equal make one bucket, which is both legs.
LegsUnspread(v, n) == IF Cardinality(DOMAIN v) < n THEN NoLegs ELSE EndBuckets(Bucket(v, n), 1)

\* The top and the bottom bucket, when there are symbols enough and two buckets.
Legs(v, n) == IF Cardinality(DOMAIN v) < n THEN NoLegs ELSE EndBuckets(Bucket(v, n), 2)

\* compute_long_short_returns: the days with a long-short return.  Only symbols with
\* both a score and a return are ranked.
Labelled(v, with) == [s \in DOMAIN v \cap with |-> v[s]]
LongShortDays(panel, labels, n) == {t \in Friday : Legs(Labelled(panel[t], labels[t]), n).long # {}}

\* A book has the weights of its long leg, and those of its short leg as positive numbers.
Shared(leg, pull) ==
    LET total == Total([s \in leg |-> Frac(pull[s], 1)], leg)
    IN  [s \in leg |-> Frac(pull[s], 1) // total]

\* A leg is shared by the pulls of those that have one; without any there is no leg.
Alike == [s \in Symbol |-> 1]
Pulled(legs, has) == [long |-> legs.long \cap has, short |-> legs.short \cap has]
Book(legs, pull) == [long |-> Shared(legs.long, pull), short |-> Shared(legs.short, pull)]
Tilted(legs, pull) == Book(Pulled(legs, {s \in DOMAIN pull : pull[s] > 0}), pull)

\* The three books, of all that is scored.
LongShortWeights(v) == Tilted(Legs(v, Quantiles), Alike)
VolatilityScaledWeights(v, calm) == Tilted(Legs(v, Quantiles), calm)
CapTiltedWeights(v, root) == Tilted(Legs(v, Quantiles), root)

\* compute_ensemble_weights: a factor without a positive Sharpe ratio or without scores is
\* left out; a symbol is scored by the factors that have it, if they are enough.
EnsembleScores(panels, sharpe, coverage) ==
    LET included == {f \in DOMAIN panels : sharpe[f] > 0 /\ ~IsEmpty(panels[f])}
        having(t, s) == {f \in included : s \in DOMAIN panels[f][t]}
        weight == [f \in included |-> Frac(sharpe[f], 1)]
    IN  [t \in Friday |-> [s \in {s \in Symbol : Cardinality(having(t, s)) >= coverage} |->
            Total([f \in having(t, s) |-> weight[f] ** panels[f][t][s]], having(t, s))
            // Total(weight, having(t, s))]]

-----------------------------------------------------------------------------
(***************************************************************************)
(* Metrics and gates.                                                      *)
(***************************************************************************)

NaN == -99999   \* a value that is not a number, or missing
Good == [oos_sharpe |-> 600, permutation_p |-> 2, ic_mean |-> 60, ic_ir |-> 700, max_drawdown |-> -100,
         marginal_contribution |-> 10, max_return_decile_corr |-> 300]
Poor == [oos_sharpe |-> 100, permutation_p |-> 400, ic_mean |-> 1, ic_ir |-> 10, max_drawdown |-> -500,
         marginal_contribution |-> -10, max_return_decile_corr |-> 950]
Metric == DOMAIN Good

Computed(x, flaws) == IF x \in flaws THEN Poor[x] ELSE Good[x]

\* sharpe_ratio of n returns, max_drawdown of them, ic_ir of n coefficients.
SharpeRatio(n, flaws) == IF n < 2 THEN 0 ELSE Computed("oos_sharpe", flaws)
MaxDrawdown(n, flaws) == IF n = 0 THEN 0 ELSE Computed("max_drawdown", flaws)
ICRatio(n, flaws)     == IF n < 2 THEN 0 ELSE Computed("ic_ir", flaws)

\* permutation_test counts the observed series as one of the permuted ones: never 0.
PermutationP(n, flaws) == Computed("permutation_p", flaws)

\* block_bootstrap_ci: its lower bound; the Sharpe ratio of one return is not a number.
BootstrapLower(n, flaws) == IF n < 2 THEN NaN ELSE Computed("oos_sharpe", flaws)

\* romano_wolf_stepdown: with one return in common nothing compares, and no draw is as
\* good as the one observed.
AdjustedP(n, flaws) == IF n < 2 THEN 0 ELSE Computed("permutation_p", flaws)

\* Are the scores of v told apart?  If not, the rank correlation is not a number.
Varied(v) == \E s, o \in DOMAIN v : v[s] # v[o]
ICDays(panel, labels) == {t \in Friday : Cardinality(DOMAIN panel[t] \cap labels[t]) >= LeastIC}

\* information_coefficient of a day, and the mean and ratio of the series, which skip
\* the days when it is not a number.
Informative(panel, labels) == {t \in ICDays(panel, labels) : Varied(Labelled(panel[t], labels[t]))}
ICMean(panel, labels, flaws) ==
    IF ICDays(panel, labels) = {} THEN 0
    ELSE IF Informative(panel, labels) = {} THEN NaN ELSE Computed("ic_mean", flaws)

\* The mean of the scores that the panels have of each symbol.
Pooled(panels, t) ==
    LET having(s) == {f \in DOMAIN panels : s \in DOMAIN panels[f][t]}
    IN  [s \in {s \in Symbol : having(s) # {}} |->
            Total([f \in having(s) |-> panels[f][t][s]], having(s)) // Frac(Cardinality(having(s)), 1)]

\* _compute_ensemble_ic_delta: on the days that all have; 0 when there are none with
\* symbols enough; one coefficient that is not a number spoils the mean.
EnsembleICDelta(candidate, existing, labels, flaws) ==
    LET common == {t \in Friday : /\ DOMAIN candidate[t] # {} /\ labels[t] # {}
                                  /\ \A f \in DOMAIN existing : DOMAIN existing[f][t] # {}}
        both(f) == IF f = "candidate" THEN candidate ELSE existing[f]
        with(t) == Labelled(Pooled([f \in DOMAIN existing \cup {"candidate"} |-> both(f)], t), labels[t])
        without(t) == Labelled(Pooled(existing, t), labels[t])
        used == {t \in common : Cardinality(DOMAIN without(t)) >= LeastPool}
    IN  IF used = {} THEN 0
        ELSE IF \A t \in used : Varied(with(t)) /\ Varied(without(t))
        THEN Computed("marginal_contribution", flaws) ELSE NaN

\* _compute_max_return_decile_corr_with_admitted: 0 unless some admitted factor shares
\* days enough.
DecileDays(panel, labels) == {t \in Friday : Cardinality(DOMAIN panel[t] \cap labels[t]) >= LeastDecile}
DecileCorr(candidate, admitted, labels, flaws) ==
    IF \E f \in DOMAIN admitted :
          Cardinality(DecileDays(candidate, labels) \cap DecileDays(admitted[f], labels)) >= LeastDates
    THEN Computed("max_return_decile_corr", flaws) ELSE 0

\* screen_factor: the metrics of a candidate among the existing factors.
ScreenMetrics(panel, labels, existing, flaws) ==
    LET n == Cardinality(LongShortDays(panel, labels, Quantiles))
    IN  [oos_sharpe    |-> SharpeRatio(n, flaws),
         permutation_p |-> IF n > 1 THEN PermutationP(n, flaws) ELSE 1000,
         ic_mean       |-> ICMean(panel, labels, flaws),
         ic_ir         |-> ICRatio(Cardinality(Informative(panel, labels)), flaws),
         max_drawdown  |-> MaxDrawdown(n, flaws),
         marginal_contribution |->
            IF DOMAIN existing = {} THEN 1000 ELSE EnsembleICDelta(panel, existing, labels, flaws),
         max_return_decile_corr |->
            IF DOMAIN existing = {} THEN 0 ELSE DecileCorr(panel, existing, labels, flaws)]

\* A gate: a metric, a direction and a threshold.
Gate(metric, direction, threshold) == [metric |-> metric, direction |-> direction, threshold |-> threshold]

DEFAULT_GATE_CONFIG ==
    [G0 |-> Gate("oos_sharpe", ">=", 300), G1 |-> Gate("permutation_p", "<", 50),
     G2 |-> Gate("ic_mean", ">=", 20), G3 |-> Gate("ic_ir", ">=", 500),
     G4 |-> Gate("max_drawdown", ">=", -300), G5 |-> Gate("marginal_contribution", ">", 0)]

\* ThresholdEvaluator.evaluate: a value that is not a number passes no comparison.
Passes(value, gate) ==
    /\ value # NaN
    /\ CASE gate.direction = ">=" -> value >= gate.threshold
         [] gate.direction = ">"  -> value > gate.threshold
         [] gate.direction = "<"  -> value < gate.threshold
         [] gate.direction = "<=" -> value <= gate.threshold

\* Mutant of EvaluateFactorGates: one gate is enough.
AnyGate(metrics, config) ==
    \E g \in DOMAIN config : config[g].metric \in DOMAIN metrics /\ Passes(metrics[config[g].metric], config[g])

\* evaluate_factor_gates: is every gate passed?
EvaluateFactorGates(metrics, config) ==
    /\ DOMAIN config # {}
    /\ \A g \in DOMAIN config : config[g].metric \in DOMAIN metrics /\ Passes(metrics[config[g].metric], config[g])
=============================================================================

---------------------------- MODULE WalkForward ----------------------------
(***************************************************************************)
(* Walk-forward validation: the purged splitter of nyse_core/cv.py, and    *)
(* the two loops that use it, ResearchPipeline.run_walk_forward_validation *)
(* and backtest.run_walk_forward_backtest.                                 *)
(*                                                                         *)
(* A trading day is its position in the sorted index, from 0.  Prices are  *)
(* represented by the days they are read from, facts by their period end   *)
(* and filing day, a fitted model by its columns and by what it was fitted *)
(* on.  Symbols differ only in which of them lack a factor or a label.     *)
(***************************************************************************)
EXTENDS Integers, Sequences, FiniteSets, SequencesExt

CONSTANTS
    MinTrain,    \* MIN_TRAIN_YEARS * TRADING_DAYS_PER_YEAR
    LeastTest,   \* the 10 and
    Month,       \*   the 21 days of _init_cv_folds
    Window,      \* trading days in _TRAILING_WINDOW
    IvolDays,    \* closes that ivol_20d needs, and
    IvolReach,   \*   the recent ones it is computed from
    HighDays,    \* closes that 52w_high_proximity needs
    MomDays,     \* closes that momentum_2_12 needs, and
    MomSkip,     \*   the recent ones it leaves out
    PriorMin,    \* the prior period ends at least so many days before the current one,
    PriorTarget, \*   as nearly so many days before as there is one,
    PriorMax,    \*   and at most so many
    LeastNames,  \* symbols with a label below which a day is left out of the training
    MinRows,     \* rows, of a day and a symbol, below which a fold is given up
    LeastReturns,\* returns below which there are no statistical tests
    Setups,      \* the calls considered (see Setup)
    Tables,      \* the fundamentals tables considered
    Universe,    \* symbols in the universe
    Gaps         \* sets of <<factor, day, number of symbols without a value>> considered, with
                 \*   "label" for the forward return

ASSUME SizeAssumption ==
    /\ {MinTrain, LeastTest, Month, Window, IvolDays, IvolReach, HighDays, MomDays,
        LeastNames, MinRows, LeastReturns, Universe} \subseteq Nat \ {0}
    /\ MomSkip \in Nat /\ MomSkip < MomDays

\* _IVOL_MIN_DAYS, _HIGH52W_MIN_DAYS and _MOM_TOTAL_WINDOW.
ASSUME LookbackAssumption == IvolDays <= HighDays /\ HighDays <= MomDays

\* One call: which loop, the length of the index, does it reach into the holdout, and
\* the parameters of the splitter.
Setup == [loop : {"research", "backtest"}, days : Nat, holdout : BOOLEAN, folds : Nat \ {0},
          minTrain : Nat, test : Nat \ {0}, purge : Nat, delay : Nat, embargo : Nat,
          horizon : Nat \ {0}, step : Nat \ {0}]

ASSUME SetupAssumption == Setups \subseteq Setup

VARIABLES
    call,      \* the call
    table,     \* the fundamentals table it was given
    gaps,      \* where values are missing
    pc,        \* where it is, or how it ended
    windows,   \* the folds: training days below train, tests from start to before stop
    fold,      \* the fold it is at
    day,       \* the test day it is at
    model,     \* the model of this fold
    booked,    \* the out-of-sample returns
    held       \* the day whose portfolio is held, or -1

vars == <<call, table, gaps, pc, windows, fold, day, model, booked, held>>

Larger(a, b)  == IF a < b THEN b ELSE a
Smaller(a, b) == IF a < b THEN a ELSE b
\* The members of S in an order given as its pairs.
InOrder(S, before) ==
    [k \in 1..Cardinality(S) |-> CHOOSE s \in S : Cardinality({r \in S : <<r, s>> \in before}) = k - 1]

Registry == <<"ivol_20d", "52w_high_proximity", "momentum_2_12", "piotroski_f_score">>
Factors == ToSet(Registry)
Place(f) == CHOOSE k \in DOMAIN Registry : Registry[k] = f
Earlier == {r \in Factors \X Factors : Place(r[1]) < Place(r[2])}
NoModel == [columns |-> <<>>, lastClose |-> -1, facts |-> {}, failed |-> TRUE]

-----------------------------------------------------------------------------
(***************************************************************************)
(* The splitter.                                                           *)
(***************************************************************************)

\* Mutant of Purge: the purge is what the caller asked for.
PurgeAsAsked(c) == c.purge + c.delay

\* PurgedWalkForwardCV raises the purge to the horizon, ExecutionPurgedCV adds its
\* delay to the purge it passes on.
Purge(c) == Larger(c.purge + c.delay, c.horizon)
LeastTrain(c) == Larger(c.minTrain, MinTrain)
Gap(c) == Purge(c) + c.embargo

\* Mutant of Needed: the first fold's gap is forgotten.
NeededWithoutGap(c) == LeastTrain(c) + c.folds * c.test + (c.folds - 1) * Gap(c)

\* total_needed: below it split raises.
Needed(c) == LeastTrain(c) + c.folds * (c.test + Gap(c)) - c.embargo

\* Test windows are laid out from the end of the index backwards.
Stop(c, k)  == c.days - (c.folds - k) * (c.test + Gap(c))
Start(c, k) == Stop(c, k) - c.test
Train(c, k) == Start(c, k) - Purge(c)

\* The folds in order, those without enough training days left out: the first ones, since
\* training windows grow from fold to fold.
Folds(c) ==
    LET short == Cardinality({k \in 1..c.folds : Train(c, k) < LeastTrain(c)})
        Laid(k) == [train |-> Train(c, k), start |-> Start(c, k), stop |-> Stop(c, k)]
    IN  [k \in 1..(c.folds - short) |-> Laid(k + short)]

\* The splitter that run_walk_forward_validation makes for an index of n days.
ResearchSplit(n, folds, h) ==
    LET least == Larger(MinTrain, n \div 3)
        most  == Larger(LeastTest, ((n - least) \div folds) - 2 * h)
    IN  [minTrain |-> least, purge |-> h, embargo |-> h,
         test |-> Smaller(most, Larger(Month, n \div (folds + 2)))]

-----------------------------------------------------------------------------
(***************************************************************************)
(* Features.                                                               *)
(***************************************************************************)

\* The closes on which compute_ivol_20d, compute_52w_high_proximity and
\* compute_momentum_2_12 depend, given the days of the trailing window; none when
\* there are too few of them.
Latest(days, n) == {d \in days : Cardinality({e \in days : e > d}) < n}
Ivol(days) == IF Cardinality(days) < IvolDays THEN {} ELSE Latest(days, IvolReach)
High(days) == IF Cardinality(days) < HighDays THEN {} ELSE Latest(days, MomDays)
Momentum(days) ==
    IF Cardinality(days) < MomDays THEN {}
    ELSE {d \in days : Cardinality({e \in days : e > d}) \in {MomSkip, MomDays - 1}}

\* _current_and_prior: the latest period of the table, and the one about a year before.
Current(facts) == {f \in facts : \A g \in facts : g.end <= f.end}
Prior(facts) ==
    LET age(f) == (CHOOSE g \in Current(facts) : TRUE).end - f.end
        off(f) == IF age(f) < PriorTarget THEN PriorTarget - age(f) ELSE age(f) - PriorTarget
        candidates == {f \in facts : age(f) \in PriorMin..PriorMax}
    IN  {f \in candidates : \A g \in candidates : off(f) < off(g) \/ (off(f) = off(g) /\ f.end <= g.end)}

\* compute_piotroski_f_score needs both.
Piotroski(facts) ==
    IF Current(facts) = {} \/ Prior(facts) = {} THEN {} ELSE Current(facts) \cup Prior(facts)

\* Mutant of Trailing: the window is centred on the day.
TrailingCentred(t) == {d \in 0..call.days - 1 : d > t - Window /\ d <= t + 1}

\* The days of the OHLCV window that ends on day t.
Trailing(t) == {d \in 0..call.days - 1 : d > t - Window /\ d <= t}

\* Which closes and which facts a factor is computed from on day t: the price factors
\* get the window, the fundamental ones the whole table.
Closes(f, t) ==
    CASE f = "ivol_20d" -> Ivol(Trailing(t))
      [] f = "52w_high_proximity" -> High(Trailing(t))
      [] f = "momentum_2_12" -> Momentum(Trailing(t))
      [] OTHER -> {}
Facts(f, t) == IF f = "piotroski_f_score" THEN Piotroski(table) ELSE {}

\* cross_sectional_impute: a column that lacks 30% of the symbols of a day is blanked
\* for all of them; a lesser gap is filled with the median.
Blanked(f, t) == \E g \in gaps : g[1] = f /\ g[2] = t /\ 10 * g[3] >= 3 * Universe

\* compute_feature_matrix: factors in the order of the registry; one that is missing
\* for every symbol is dropped.
Columns(t) ==
    InOrder({f \in Factors : (Closes(f, t) \cup Facts(f, t)) # {} /\ ~Blanked(f, t)}, Earlier)

\* run_walk_forward_backtest is given a matrix with one set of columns.
ColumnsOf(t) == IF call.loop = "backtest" THEN Registry ELSE Columns(t)
ClosesOf(cols, t) == UNION {Closes(f, t) : f \in ToSet(cols)}
FactsOf(cols, t)  == UNION {Facts(f, t) : f \in ToSet(cols)}

-----------------------------------------------------------------------------
TypeOK ==
    /\ call \in Setups
    /\ table \in Tables
    /\ pc \in {"start", "train", "test", "reported", "validated", "empty", "raised"}
    /\ \A k \in DOMAIN windows : windows[k] \in [train : Int, start : Int, stop : Int]
    /\ fold \in 1..call.folds + 1
    /\ day \in 0..call.days + call.step
    /\ model # NoModel => model.columns # <<>> /\ Cardinality(ToSet(model.columns)) = Len(model.columns)
    /\ \A b \in booked : b.day \in 0..call.days - 1 /\ b.from < b.day
    /\ held \in -1..call.days - 1

Init ==
    /\ call \in Setups
    /\ table \in Tables
    /\ gaps \in Gaps
    /\ pc = "start"
    /\ windows = <<>>
    /\ fold = 1 /\ day = 0
    /\ model = NoModel
    /\ booked = {}
    /\ held = -1

Research == call.loop = "research"
Stride == IF Research THEN call.step ELSE 1

\* reject_holdout_dates: an index with a day of the holdout is refused.
RejectHoldout ==
    /\ pc = "start"
    /\ call.holdout
    /\ pc' = "raised"
    /\ UNCHANGED <<call, table, gaps, windows, fold, day, model, booked, held>>

\* split: too short an index raises, which run_walk_forward_validation turns into an
\* empty result.
Split ==
    /\ pc = "start"
    /\ ~call.holdout
    /\ IF call.days < Needed(call)
         THEN pc' = (IF Research THEN "empty" ELSE "raised") /\ UNCHANGED windows
         ELSE pc' = "train" /\ windows' = Folds(call)
    /\ UNCHANGED <<call, table, gaps, fold, day, model, booked, held>>

\* The columns of each of the days, as pairs of a day and a column, and their order.
Shown(days) == UNION {{t} \X ToSet(ColumnsOf(t)) : t \in days}
Sooner(p, q) == p[1] < q[1] \/ (p[1] = q[1] /\ Place(p[2]) < Place(q[2]))

\* Mutants of Stacked: the columns of every day are kept side by side, and later columns
\* are put in front.
StackedTwice(days) == FoldSet(LAMBDA t, columns : columns \o ColumnsOf(t), <<>>, days)
StackedInFront(days) ==
    LET shown == Shown(days)
        seen  == {p[2] : p \in shown}
    IN  InOrder(seen, {r \in seen \X seen : \E q \in shown :
            q[2] = r[2] /\ \A p \in shown : p[2] = r[1] => Sooner(q, p)})

\* pd.concat of one frame per day: the columns in the order in which they first appear.
Stacked(days) ==
    LET shown == Shown(days)
        seen  == {p[2] : p \in shown}
    IN  InOrder(seen, {r \in seen \X seen : \E p \in shown :
            p[2] = r[1] /\ \A q \in shown : q[2] = r[2] => Sooner(p, q)})

\* The symbols whose forward return on day t is known.
Labelled(t) ==
    IF t + call.horizon >= call.days THEN {}
    ELSE {s \in 1..Universe : \A g \in gaps : g[1] = "label" /\ g[2] = t => s > g[3]}

\* _build_train_stack: every step-th training day with features and enough labels; a row
\* that lacks a column of the stack is dropped.
TrainDays ==
    {t \in 0..windows[fold].train - 1 :
        /\ t % Stride = 0 /\ t + call.horizon < call.days /\ ColumnsOf(t) # <<>>
        /\ Research => Cardinality(Labelled(t)) >= LeastNames}
TooFew(days) == Cardinality(UNION {{t} \X Labelled(t) : t \in days}) < MinRows
TrainRows(columns) == {t \in TrainDays : ToSet(ColumnsOf(t)) = ToSet(columns)}

\* fit may fail: a singular matrix, a library that is not installed, an error in
\* training.
FitFails == BOOLEAN

\* fit, of RidgeModel, GBMModel and NeuralModel alike: it records the columns; a model
\* made for this fold that fails has no earlier weights to fall back on.
Fitted(columns, rows, failed) ==
    [columns   |-> columns,
     lastClose |-> (CHOOSE t \in rows : \A u \in rows : u <= t) + call.horizon,
     facts     |-> UNION {FactsOf(columns, t) : t \in rows},
     failed    |-> failed]

NextFold == fold' = fold + 1 /\ model' = NoModel /\ UNCHANGED <<pc, day, held>>

\* One fold is trained.  The research loop gives up a fold with too few rows and does
\* not look at the outcome of fit; the backtest loop gives up one whose fit failed.
TrainFold ==
    /\ pc = "train"
    /\ fold <= Len(windows)
    /\ LET columns == Stacked(TrainDays)
           rows    == TrainRows(columns)
       IN  IF rows = {} \/ (Research /\ TooFew(rows)) THEN NextFold
           ELSE \E failed \in FitFails :
                IF failed /\ ~Research THEN NextFold
                ELSE /\ model' = Fitted(columns, rows, failed)
                     /\ pc' = "test" /\ day' = windows[fold].start /\ held' = -1
                     /\ UNCHANGED fold
    /\ UNCHANGED <<call, table, gaps, windows, booked>>

\* predict: an unfit model raises, and so does the regressor when it is given another
\* number of columns; which columns they are is not looked at.
CanPredict == ~model.failed /\ Len(ColumnsOf(day)) = Len(model.columns)

\* The day is scored and its return booked; the model takes columns by position.
Book ==
    booked' = booked \cup {[day |-> day, fold |-> fold, fitted |-> model,
                            columns |-> ColumnsOf(day), closes |-> ClosesOf(ColumnsOf(day), day),
                            facts |-> FactsOf(ColumnsOf(day), day), from |-> held]}

\* _run_test_dates, one day: no features, next day.  The symbols that are selected may be
\* among those whose forward return is unknown: without any the day is not booked.
TestDay ==
    /\ pc = "test"
    /\ day < windows[fold].stop
    /\ \/ /\ ColumnsOf(day) = <<>>
          /\ day' = day + Stride
          /\ UNCHANGED <<pc, booked, held>>
       \/ /\ ColumnsOf(day) # <<>>
          /\ ~CanPredict
          /\ pc' = "raised"
          /\ UNCHANGED <<day, booked, held>>
       \/ /\ ColumnsOf(day) # <<>>
          /\ CanPredict
          /\ day' = day + Stride
          /\ \/ Research /\ Labelled(day) # 1..Universe /\ UNCHANGED <<booked, held>>
             \/ (Research => Labelled(day) # {}) /\ Book /\ held' = day
          /\ UNCHANGED pc
    /\ UNCHANGED <<call, table, gaps, windows, fold, model>>

EndFold ==
    /\ pc = "test"
    /\ day >= windows[fold].stop
    /\ fold' = fold + 1
    /\ pc' = "train" /\ model' = NoModel
    /\ UNCHANGED <<call, table, gaps, windows, day, booked, held>>

\* The folds are over: no return at all is an empty result; the research pipeline goes
\* on to the tests of run_statistical_validation when it has enough returns.
Finish ==
    /\ pc = "train"
    /\ fold > Len(windows)
    /\ pc' = IF booked = {} THEN "empty"
             ELSE IF Research /\ Cardinality(booked) >= LeastReturns THEN "validated" ELSE "reported"
    /\ UNCHANGED <<call, table, gaps, windows, fold, day, model, booked, held>>

Next == RejectHoldout \/ Split \/ TrainFold \/ TestDay \/ EndFold \/ Finish

Spec == Init /\ [][Next]_vars

-----------------------------------------------------------------------------
(***************************************************************************)
(* Properties.                                                             *)
(***************************************************************************)

\* No fold learns from its own test window: every close its labels were made of comes
\* before the first test day, whatever purge, embargo and delay the caller asked for;
\* and no score reads a close of a later day.
NoPriceLeak ==
    \A b \in booked :
        /\ b.fitted.lastClose < windows[b.fold].start
        /\ \A d \in b.closes : d <= b.day

\* A split that does not raise yields every fold that was asked for, although the loop
\* would drop folds silently: the tests follow one another to the end of the index, the
\* purge before and the embargo between them, and each fold has its years of training.
FoldsComplete ==
    windows # <<>> =>
        /\ Len(windows) = call.folds
        /\ windows[call.folds].stop = call.days
        /\ \A k \in 1..call.folds :
            /\ windows[k].train >= LeastTrain(call)
            /\ windows[k].stop - windows[k].start = call.test
            /\ windows[k].start - windows[k].train >= call.purge + call.delay
            /\ k > 1 => windows[k].start - windows[k - 1].stop >= call.embargo + call.horizon

\* Every coefficient meets the factor it was fitted for.
ByName == \A b \in booked : b.fitted.columns = b.columns

\* Models take columns by position.  On prices alone, with no gaps, every coefficient
\* meets its factor: factors appear in the training stack in the order of the registry.
\* A table of fundamentals, or a gap, is enough to break this.
ByNameOnPrices == table = {} /\ gaps = {} => ByName

\* "Test features should reflect only information available at the test date": no
\* score is computed from a fact that was filed later.
FactsKnown == \A b \in booked : \A f \in b.facts : f.filed <= b.day
=============================================================================

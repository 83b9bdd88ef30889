--------------------------- MODULE MCWalkForward ---------------------------
(***************************************************************************)
(* WalkForward on indices of up to 16 days, with a year of 4 days.         *)
(***************************************************************************)
EXTENDS WalkForward

\* The research pipeline derives its splitter from the index; run_backtest and the
\* execution-aware splitter get theirs from a caller.
ResearchCalls ==
    {[loop |-> "research", days |-> n, holdout |-> n < 8, folds |-> k, delay |-> 0, horizon |-> h, step |-> s,
      minTrain |-> ResearchSplit(n, k, h).minTrain, test |-> ResearchSplit(n, k, h).test,
      purge |-> ResearchSplit(n, k, h).purge, embargo |-> ResearchSplit(n, k, h).embargo] :
        n \in {7, 8, 13, 16}, k \in 1..2, h \in 1..2, s \in 1..2}
CallerCalls ==
    {[loop |-> "backtest", days |-> n, holdout |-> FALSE, folds |-> k, delay |-> d, horizon |-> h, step |-> 1,
      minTrain |-> 2, test |-> 2, purge |-> p, embargo |-> e] :
        n \in {10, 15}, k \in 1..3, d \in 0..1, h \in 1..3, p \in 0..1, e \in 0..1}
Calls == ResearchCalls \cup CallerCalls

Fact(end, filed) == [end |-> end, filed |-> filed]
Old == {Fact(-6, -5), Fact(-2, -1)}
SomeTables == {{}, {Fact(-2, -1)}, Old, Old \cup {Fact(2, 3)}, Old \cup {Fact(2, 7)}}

\* One factor, the label or all factors missing on one day, for few symbols or for too
\* many of them.
SomeGaps ==
    {{}, {<<"ivol_20d", 4, 2>>}} \cup
    {{<<f, d, 3>>} : f \in {"momentum_2_12", "piotroski_f_score"}, d \in {0, 4, 9}} \cup
    {{<<"label", d, n>>} : d \in {4, 9}, n \in {3, 6}} \cup {{<<f, 9, 3>> : f \in Factors}}
=============================================================================

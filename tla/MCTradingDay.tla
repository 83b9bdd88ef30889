---------------------------- MODULE MCTradingDay ----------------------------
EXTENDS TradingDay

\* As run_paper_trade.py wires it, all defaults: no bridge switch, no holdings.
ScriptWiring == {[mode |-> "paper", kill |-> FALSE, reads |-> FALSE]}
\* What the constructor and run_rebalance accept besides.
AllWirings ==
    ScriptWiring \cup
    {[mode |-> "paper", kill |-> FALSE, reads |-> TRUE],
     [mode |-> "paper", kill |-> TRUE, reads |-> FALSE],
     [mode |-> "shadow", kill |-> FALSE, reads |-> TRUE]}
=============================================================================

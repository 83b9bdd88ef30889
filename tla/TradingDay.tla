----------------------------- MODULE TradingDay -----------------------------
(***************************************************************************)
(* One paper-trading cycle after another: scripts/run_paper_trade.py, the  *)
(* rebalance of nyse_ats/pipeline.py, the order bridge of                  *)
(* execution/nautilus_bridge.py and the fill ledger of                     *)
(* storage/live_store.py, which is all that outlives a cycle.              *)
(*                                                                         *)
(* A cycle is one process.  Cycles do not overlap (DuckDB admits one       *)
(* writing process), but each may die at any step, and the operator may    *)
(* edit the kill switch in strategy_params.yaml at any time.  Which        *)
(* weights the scores lead to is left open, so every target the allocator  *)
(* and the risk stack could return is tried, at one price for all symbols. *)
(* Whether usable data reach the cycle is left open too: the caller may    *)
(* pass market_data, as the tests do; without it _load_all_data calls      *)
(* fetch(date) on adapters that take three arguments, and the cycle skips. *)
(***************************************************************************)
EXTENDS Integers, Sequences, SequencesExt

CONSTANTS
    NSymbols,   \* the universe is 1..NSymbols, in the order sorted() gives
    MaxWeight,  \* bound: the largest target weight
    Lot,        \* price / notional: the weight of one share
    Inertia,    \* position_inertia_threshold
    MaxCycles,  \* bound: cycles started
    Wirings     \* how callers wire the pipeline: [mode, kill, reads]

ASSUME SizesAssumption ==
    /\ NSymbols \in Nat \ {0} /\ MaxWeight \in Nat /\ Lot \in Nat \ {0}
    /\ Inertia \in Nat /\ MaxCycles \in Nat
\* mode and kill are the bridge's constructor arguments; reads tells whether
\* the caller hands the stored positions to run_rebalance.
ASSUME WiringsAssumption ==
    Wirings \subseteq [mode : {"paper", "shadow"}, kill : BOOLEAN, reads : BOOLEAN]

VARIABLES
    flag,    \* kill_switch in strategy_params.yaml
    pc,      \* where the current cycle is
    cycle,   \* cycles started so far
    wiring,  \* how the current cycle is wired
    kill,    \* the kill switch as the cycle read it
    target,  \* the weight the current cycle wants of each symbol
    plans,   \* the TradePlans of the cycle, by symbol
    queue,   \* symbols whose fills reconcile has still to write
    ledger,  \* table fills of live.duckdb
    lost     \* history: symbols of the cycle rejected or not written

session == <<cycle, wiring, kill>>
vars == <<flag, pc, session, target, plans, queue, ledger, lost>>

Symbol == 1..NSymbols
Nothing == [s \in Symbol |-> 0]
NoPlans == [s \in {} |-> 0]
PlanSet == [side : {"BUY", "SELL"}, shares : Nat]
FillSet == [cycle : 1..MaxCycles, symbol : Symbol, side : {"BUY", "SELL"},
            shares : Nat]

(* get_current_positions: BUY adds, SELL subtracts. *)
Signed(f) == IF f.side = "BUY" THEN f.shares ELSE -f.shares
Position(s) ==
    FoldLeft(LAMBDA net, f : IF f.symbol = s THEN net + Signed(f) ELSE net, 0, ledger)

TypeOK ==
    /\ flag \in BOOLEAN /\ kill \in BOOLEAN
    /\ pc \in {"idle", "opened", "planned", "reconciling", "ended"}
    /\ cycle \in 0..MaxCycles
    /\ wiring \in Wirings
    /\ target \in [Symbol -> 0..MaxWeight]
    /\ DOMAIN plans \subseteq Symbol /\ \A s \in DOMAIN plans : plans[s] \in PlanSet
    /\ queue \subseteq DOMAIN plans
    /\ ledger \in Seq(FillSet)
    /\ lost \subseteq Symbol

Init ==
    /\ flag \in BOOLEAN /\ kill = FALSE
    /\ pc = "idle" /\ cycle = 0
    /\ wiring \in Wirings
    /\ target = Nothing /\ plans = NoPlans /\ queue = {} /\ ledger = <<>>
    /\ lost = {}

EditKillSwitch ==
    /\ flag' = ~flag
    /\ UNCHANGED <<pc, session, target, plans, queue, ledger, lost>>

(* main: the configuration is read once, then the stores are opened. *)
StartCycle ==
    /\ pc \in {"idle", "ended"} /\ cycle < MaxCycles
    /\ cycle' = cycle + 1
    /\ wiring' \in Wirings
    /\ kill' = flag
    /\ pc' = "opened"
    /\ target' = Nothing /\ plans' = NoPlans /\ lost' = {}
    /\ UNCHANGED <<flag, queue, ledger>>

(* run_rebalance returns an empty result: the kill switch as read at the   *)
(* start, or no adapter delivered, or the features are EMPTY, NIL or ERROR. *)
End == pc' = "ended" /\ UNCHANGED <<flag, session, target, plans, queue, ledger, lost>>
SkipKilled   == pc = "opened" /\ kill /\ End
SkipUnusable == pc = "opened" /\ ~kill /\ End

(* build_portfolio: one TradePlan per symbol whose weight moves enough.    *)
(* target_shares is the whole target, not the change, in whole shares.     *)
Shares(weight) == weight \div Lot

Side(s, t, held) == IF t[s] > held[s] THEN "BUY" ELSE "SELL"

Moves(s, t, held) ==
    /\ t[s] # held[s]
    /\ t[s] > 0 /\ held[s] > 0 => t[s] - held[s] \notin -Inertia..Inertia

PlansFor(t, held) ==
    [s \in {s \in Symbol : Moves(s, t, held)} |-> [side |-> Side(s, t, held), shares |-> Shares(t[s])]]

Holdings == IF wiring.reads THEN [s \in Symbol |-> Lot * Position(s)] ELSE Nothing

BuildPortfolio ==
    /\ pc = "opened" /\ ~kill
    /\ target' \in [Symbol -> 0..MaxWeight]
    /\ plans' = PlansFor(target', Holdings)
    /\ pc' = IF DOMAIN plans' = {} THEN "ended" ELSE "planned"
    /\ UNCHANGED <<flag, session, queue, ledger, lost>>

(* submit.  A set bridge switch rejects every order; shadow mode fills     *)
(* nothing; paper mode rejects an order without a price, and one in fifty  *)
(* at random, and fills the others with filled_shares = target_shares.     *)
Outcomes ==
    IF wiring.kill THEN {"rejected"}
    ELSE IF wiring.mode = "shadow" THEN {"shadow"}
    ELSE {"rejected", "filled"}

\* reconcile writes neither rejected fills nor shadow fills.
Successful(outcome) == {s \in DOMAIN plans : outcome[s] = "filled"}

Submit ==
    /\ pc = "planned"
    /\ \E outcome \in [DOMAIN plans -> Outcomes] :
         /\ queue' = Successful(outcome)
         /\ lost' = DOMAIN plans \ Successful(outcome)
    /\ pc' = "reconciling"
    /\ UNCHANGED <<flag, session, target, plans, ledger>>

\* Mutant of FillOf: a fill of the change instead of the order's quantity.
FillOfChange(s) == [cycle |-> cycle, symbol |-> s, side |-> plans[s].side,
                    shares |-> plans[s].shares - Position(s)]
FillOf(s) == [cycle |-> cycle, symbol |-> s, side |-> plans[s].side, shares |-> plans[s].shares]

\* Fills are written in the order of the plans, which is that of the symbols.
Current == CHOOSE s \in queue : \A o \in queue : s <= o
Rest    == queue' = queue \ {Current}

(* record_fill: one autocommitted INSERT; an error is noted and the loop   *)
(* goes on with the next fill.                                             *)
RecordFill ==
    /\ pc = "reconciling" /\ queue # {}
    /\ ledger' = Append(ledger, FillOf(Current))
    /\ Rest
    /\ UNCHANGED <<flag, pc, session, target, plans, lost>>

\* The fill whose INSERT failed on the way back is written again.
WriteRetried ==
    /\ pc = "reconciling" /\ queue # {}
    /\ ledger' = Append(ledger, FillOf(Current))
    /\ UNCHANGED <<flag, pc, queue, session, target, plans, lost>>

\* The first error ends the loop.
WriteAbandons ==
    /\ pc = "reconciling" /\ queue # {}
    /\ lost' = lost \cup {Current}
    /\ queue' = {}
    /\ UNCHANGED <<flag, pc, session, target, plans, ledger>>

WriteFails ==
    /\ pc = "reconciling" /\ queue # {}
    /\ lost' = lost \cup {Current}
    /\ Rest
    /\ UNCHANGED <<flag, pc, session, target, plans, ledger>>

EndCycle == pc = "reconciling" /\ queue = {} /\ End

(* The process dies; only live.duckdb and the configuration survive. *)
Crash ==
    /\ pc \notin {"idle", "ended"}
    /\ pc' = "idle" /\ queue' = {}
    /\ UNCHANGED <<flag, session, target, plans, ledger, lost>>

Next ==
    \/ EditKillSwitch \/ StartCycle \/ SkipKilled \/ SkipUnusable
    \/ BuildPortfolio \/ Submit \/ RecordFill \/ WriteFails \/ EndCycle \/ Crash

Spec == Init /\ [][Next]_vars

-----------------------------------------------------------------------------
Booked == {k \in DOMAIN ledger : ledger[k].cycle = cycle}

(* A cycle that got to its end has booked exactly its plan: the orders     *)
(* that were neither rejected nor lost to a failed write, each once, with  *)
(* the side and the quantity planned (submit, reconcile, record_fill).     *)
BooksThePlan ==
    pc = "ended" =>
        /\ \A k \in Booked : \E s \in DOMAIN plans : ledger[k] = FillOf(s)
        /\ \A s \in DOMAIN plans : s \in lost <=> ~\E k \in Booked : ledger[k] = FillOf(s)

(* No crash, restart or failed write makes a cycle book a symbol twice:    *)
(* the ledger is grouped by cycle and, in a cycle, by symbol.              *)
BookedOnce ==
    \A j, k \in DOMAIN ledger : j < k =>
        \/ ledger[j].cycle < ledger[k].cycle
        \/ ledger[j].cycle = ledger[k].cycle /\ ledger[j].symbol < ledger[k].symbol

(* docs/DDQ_AIMA_2025.md row 5.8 and docs/DISASTER_RECOVERY.md line 90:    *)
(* the next plan starts from the positions in live.duckdb, so a rebalance  *)
(* with nothing rejected leaves them at its targets, up to the inertia     *)
(* and to what is less than a share.                                       *)
PositionsFollowTargets ==
    pc = "ended" /\ DOMAIN plans # {} /\ lost = {} =>
        \A s \in Symbol :
            LET off == Lot * Position(s) - target[s]
            IN  off \in -(Inertia + Lot - 1)..(Inertia + Lot - 1)
=============================================================================

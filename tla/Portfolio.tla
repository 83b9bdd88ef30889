----------------------------- MODULE Portfolio -----------------------------
(***************************************************************************)
(* The weights of one rebalance: build_portfolio of nyse_core/portfolio.py *)
(* with the selection of allocator.py and the layers of risk.py, one       *)
(* action per layer and per pass of a layer's loop.                        *)
(*                                                                         *)
(* Weights belong to positions of the selected list, in its order, which   *)
(* is the order of the dict the layers work on.  What a layer does not use *)
(* any more is forgotten.                                                  *)
(***************************************************************************)
EXTENDS Fractions, Sequences, Functions

CONSTANTS
    NSymbols,     \* the scored universe is 1..NSymbols, in alphabetical order
    MaxScore,     \* scores are 0..MaxScore, and 0 is NaN, which is sorted last
    TopN,         \* top_n
    ExitRank,     \* int(top_n * sell_buffer)
    Sectors,      \* sector names, "Unknown" included
    Exposures,    \* exposure of each regime
    PositionCap,  \* max_position_pct
    SectorCap,    \* max_sector_pct
    EarningsCap   \* earnings_event_cap

ASSUME SizesAssumption ==
    {NSymbols, MaxScore, TopN, ExitRank} \subseteq Nat /\ TopN > 0
ASSUME CapsAssumption ==
    Exposures \cup {PositionCap, SectorCap, EarningsCap} \subseteq Fraction

VARIABLES
    step,     \* the layer that comes next
    score,    \* scores, while they matter
    held,     \* current_holdings, while they matter
    order,    \* the selected symbols
    sector,   \* sector of each position
    near,     \* positions that report earnings within the window
    weight,   \* weight of each position
    frozen,   \* capped positions, then capped sectors, of the current layer
    due,      \* over-cap sectors of the current pass, with their totals
    late      \* history: sectors capped after another one of the same pass

vars == <<step, score, held, order, sector, near, weight, frozen, due, late>>

Symbol   == 1..NSymbols
Position == DOMAIN weight
Invested == Total(weight, Position)

Init ==
    /\ step = "select"
    /\ score \in [Symbol -> 0..MaxScore] /\ held \in SUBSET Symbol
    /\ order = <<>> /\ sector = <<>> /\ near = {} /\ weight = <<>>
    /\ frozen = {} /\ due = <<>> /\ late = {}

-----------------------------------------------------------------------------
(* Selection and equal weights. *)

\* Score first, then holdings before others, then the alphabet.
Better(a, b) ==
    \/ score[a] > score[b]
    \/ score[a] = score[b] /\ a \in held /\ b \notin held
    \/ score[a] = score[b] /\ (a \in held <=> b \in held) /\ a < b

RanksBefore == [s \in Symbol |-> {t \in Symbol : Better(t, s)}]

\* The members of S in the order in which before[s] precede s.
InOrder(S, before) ==
    [k \in 1..Cardinality(S) |-> CHOOSE s \in S : Cardinality(before[s] \cap S) = k - 1]
UpTo(n, s) == SubSeq(s, 1, IF n < Len(s) THEN n ELSE Len(s))

\* Mutant of Retained: the buffer stops at the target size.
RetainedWithoutBuffer ==
    UpTo(TopN, InOrder({s \in held : Cardinality(RanksBefore[s]) < TopN}, RanksBefore))
Retained ==
    UpTo(TopN, InOrder({s \in held : Cardinality(RanksBefore[s]) < ExitRank}, RanksBefore))
\* Mutant of Entering: the fill does not skip what is already selected.
EnteringAgain == UpTo(TopN - Len(Retained), InOrder(Symbol, RanksBefore))
Entering ==
    UpTo(TopN - Len(Retained), InOrder(Symbol \ Range(Retained), RanksBefore))

Select ==
    /\ step = "select"
    /\ order' = IF \A s \in Symbol : score[s] = 0 THEN <<>> ELSE Retained \o Entering
    /\ step' = "weigh"
    /\ UNCHANGED <<score, held, sector, near, weight, frozen, due, late>>

Weigh ==
    /\ step = "weigh"
    /\ \E exposure \in Exposures :
         weight' = [i \in DOMAIN order |-> exposure ** Frac(1, Len(order))]
    /\ step' = IF order = <<>> THEN "done" ELSE "positions"
    /\ score' = <<>> /\ held' = {} /\ order' = <<>>
    /\ UNCHANGED <<sector, near, frozen, due, late>>

-----------------------------------------------------------------------------
(* The risk layers. *)

\* Mutant of Spread: the excess goes to every position of S.
SpreadToEach(w, excess, S) ==
    [i \in DOMAIN w |-> IF i \in S THEN w[i] ++ excess ELSE w[i]]

\* An excess is spread over the positions S in proportion to their weights, and is
\* given up when they have none.
Spread(w, excess, S) ==
    LET total == Total(w, S)
    IN  IF total = Zero THEN w
        ELSE [i \in DOMAIN w |->
                IF i \in S THEN w[i] ++ (excess ** (w[i] // total)) ELSE w[i]]

\* One pass of apply_position_caps.
CapPositions ==
    LET over   == {i \in Position : PositionCap \prec weight[i]}
        excess == Total([i \in over |-> weight[i] -- PositionCap], over)
        cut    == [i \in Position |-> IF i \in over THEN PositionCap ELSE weight[i]]
        under  == Position \ (frozen \cup over)
    IN  /\ step = "positions"
        /\ IF over = {} THEN /\ frozen' = {} /\ UNCHANGED weight
                             /\ step' = "sectors"
           ELSE /\ weight' = Spread(cut, excess, under)
                /\ frozen' = IF Total(cut, under) = Zero THEN {} ELSE frozen \cup over
                /\ step' = IF Total(cut, under) = Zero THEN "sectors" ELSE step
        /\ UNCHANGED <<score, held, order, near, due, late>>
        /\ IF step' = "sectors" THEN sector' \in [Position -> Sectors] ELSE UNCHANGED sector

Members(s) == {i \in DOMAIN sector : sector[i] = s}
SectorTotal(s) == Total(weight, Members(s))

\* apply_sector_caps starts a pass: the sectors over the cap that were not capped
\* before, in the order in which the dict names them, with their totals.
OverSectors ==
    LET over == {s \in Range(sector) \ frozen : SectorCap \prec SectorTotal(s)}
        First(s) == CHOOSE i \in Members(s) : \A j \in Members(s) : i <= j
    IN  InOrder(over, [s \in over |-> {t \in over : First(t) < First(s)}])

OpenSectorPass ==
    /\ step = "sectors" /\ due = <<>>
    /\ due' = [k \in DOMAIN OverSectors |->
                [sector |-> OverSectors[k], total |-> SectorTotal(OverSectors[k]), first |-> k = 1]]
    /\ step' = IF OverSectors = <<>> THEN "earnings" ELSE step
    /\ near' \in IF OverSectors = <<>> THEN SUBSET Position ELSE {near}
    /\ UNCHANGED <<score, held, order, sector, weight, frozen, late>>

\* Mutant of CapSector: a capped sector takes part in later redistributions.
CapSectorUnfrozen ==
    LET this  == Head(due)
        cut   == [i \in Position |->
                    IF sector[i] = this.sector THEN weight[i] ** (SectorCap // this.total)
                                               ELSE weight[i]]
        other == {i \in Position : sector[i] # this.sector}
    IN  /\ step = "sectors" /\ due # <<>>
        /\ weight' = Spread(cut, this.total -- SectorCap, other)
        /\ frozen' = frozen \cup {this.sector}
        /\ due' = Tail(due)
        /\ late' = IF this.first THEN late ELSE late \cup {this.sector}
        /\ UNCHANGED <<step, score, held, order, sector, near>>

\* ... and caps each of them: its positions are reduced by the excess over the total
\* that the pass began with, which later members of the pass may have outgrown.
CapSector ==
    LET this  == Head(due)
        cut   == [i \in Position |->
                    IF sector[i] = this.sector THEN weight[i] ** (SectorCap // this.total)
                                               ELSE weight[i]]
        other == {i \in Position : sector[i] \notin frozen \cup {this.sector}}
    IN  /\ step = "sectors" /\ due # <<>>
        /\ weight' = Spread(cut, this.total -- SectorCap, other)
        /\ frozen' = frozen \cup {this.sector}
        /\ due' = Tail(due)
        /\ late' = IF this.first THEN late ELSE late \cup {this.sector}
        /\ UNCHANGED <<step, score, held, order, sector, near>>

\* check_earnings_exposure.
CapEarnings ==
    LET over   == {i \in near : EarningsCap \prec weight[i]}
        excess == Total([i \in over |-> weight[i] -- EarningsCap], over)
        cut    == [i \in Position |-> IF i \in over THEN EarningsCap ELSE weight[i]]
    IN  /\ step = "earnings"
        /\ weight' = IF over = {} THEN weight ELSE Spread(cut, excess, Position \ over)
        /\ step' = "done"
        /\ UNCHANGED <<score, held, order, sector, near, frozen, due, late>>

Next ==
    \/ Select \/ Weigh \/ CapPositions
    \/ OpenSectorPass \/ CapSector \/ CapEarnings

Spec == Init /\ [][Next]_vars

-----------------------------------------------------------------------------
TypeOK ==
    /\ step \in {"select", "weigh", "positions", "sectors", "earnings", "done"}
    /\ step \in {"select", "weigh"} => score \in [Symbol -> 0..MaxScore]
    /\ held \subseteq Symbol
    /\ order \in Seq(Symbol) /\ Len(order) <= TopN /\ IsInjective(order)
    /\ weight \in Seq(Fraction)
    /\ late \subseteq Range(sector)

(* select_top_n against its docstring: a holding leaves only when it ranks *)
(* below n * sell_buffer or n better holdings stay, and an entry leaves no *)
(* better candidate outside.                                               *)
SellBuffer ==
    step = "weigh" /\ order # <<>> =>
        /\ Len(order) = IF TopN < NSymbols THEN TopN ELSE NSymbols
        /\ \A s \in held \ Range(order) :
             \/ Cardinality(RanksBefore[s]) >= ExitRank
             \/ Cardinality(RanksBefore[s] \cap held) >= TopN
        /\ \A s \in Range(order) \ held : RanksBefore[s] \subseteq Range(order)

(* The layers move weight or give it up: none adds exposure.               *)
ExposureNeverGrows ==
    [][(step \notin {"select", "weigh"}) => (Invested' \preceq Invested)]_vars

(* After apply_sector_caps a sector exceeds its cap only if it was capped  *)
(* after another one in the same pass, against a total that was stale.     *)
LoneSectorsCapped ==
    step = "earnings" =>
        \A s \in Range(sector) \ late : SectorTotal(s) \preceq SectorCap

(* docs/RISK_LIMITS.md row 2.1 and the contract at the head of             *)
(* tests/property/test_sector_caps_invariant.py: no sector exceeds its cap *)
(* after apply_sector_caps.                                                *)
SectorsCapped ==
    step = "earnings" => \A s \in Range(sector) : SectorTotal(s) \preceq SectorCap
=============================================================================

----------------------------- MODULE MCEvidence -----------------------------
(***************************************************************************)
(* Evidence on five symbols and four rebalance days, with an ensemble of  *)
(* three factors.  Cases are of two kinds: one script on many              *)
(* cross-sections of scores, and several scripts around few markets.       *)
(***************************************************************************)
EXTENDS Evidence

Symbols == {"a", "b", "c", "d", "e"}
Factors == {"ivol_20d", "ivol_20d_flipped", "momentum_2_12", "52w_high_proximity", "piotroski_f_score"}
LeastData == [f \in Factors |-> CASE f = "piotroski_f_score" -> 1
                                  [] f \in {"ivol_20d", "ivol_20d_flipped"} -> 2
                                  [] OTHER -> 3]
ActiveFactors == <<"ivol_20d_flipped", "piotroski_f_score", "momentum_2_12">>
RegisteredFactors == Factors \ {"ivol_20d_flipped"}

\* Ranks of the symbols in three orders.
Up      == [s \in Symbols |-> CASE s = "a" -> 1 [] s = "b" -> 2 [] s = "c" -> 3 [] s = "d" -> 4 [] s = "e" -> 5]
Down    == [s \in Symbols |-> 6 - Up[s]]
Folded  == [s \in Symbols |-> CASE s = "a" -> 2 [] s = "b" -> 5 [] s = "c" -> 1 [] s = "d" -> 4 [] s = "e" -> 3]
Level   == [s \in Symbols |-> 1]

\* The market goes on through the first two days of the holdout, 10 and 11.
AllDays == 0..11
Plain ==
    [closes |-> [s \in Symbols |-> AllDays], filings |-> [s \in Symbols |-> {0, 3, 10}], spy |-> AllDays,
     bull |-> {1, 2, 3, 4, 10}, raw |-> [f \in Factors |-> IF f = "momentum_2_12" THEN Folded ELSE Up],
     size |-> Up, calm |-> Down, tie |-> Folded]

\* Cross-sections of ivol_20d: values that do not decrease along the symbols.
Sections == {v \in [Symbols -> 0..2] : \A s, o \in Symbols : Up[s] < Up[o] => v[s] <= v[o]}
Tilts == {Up, Level, [Up EXCEPT !["a"] = 0], [Down EXCEPT !["d"] = 0, !["e"] = 0]}

Calling(script, factor) == [script |-> script, factor |-> factor, quiet |-> FALSE, streams |-> {1, 2, 3, 5}, end |-> 9]
Solo(market, flaws, call) ==
    [market |-> market, later |-> market, calls |-> <<call>>, flaws |-> flaws,
     holdout |-> "PENDING", around |-> {}]

\* One screen on each cross-section, without the symbols that are missing.
CrossSections ==
    {Solo([Plain EXCEPT !.raw["ivol_20d"] = v, !.size = w, !.calm = w,
                        !.closes = [s \in Symbols |-> IF s \in missing THEN {} ELSE AllDays]],
          {}, Calling("screen_factor", "ivol_20d")) :
        v \in Sections, w \in Tilts, missing \in {{}, {"a"}, {"c", "e"}}}

\* Markets with holes: no SPY, few days, listings and filings at different times.
Young == [Plain EXCEPT !.closes = [s \in Symbols |-> AllDays \ 0..Up[s]],
                       !.filings = [s \in Symbols |-> IF s = "b" THEN {} ELSE {Up[s]}],
                       !.raw["ivol_20d"] = Down]
Brief == [Plain EXCEPT !.closes = [s \in Symbols |-> 0..5], !.spy = {}]
Gappy == [Plain EXCEPT !.closes = [s \in Symbols |-> IF Up[s] % 2 = 0 THEN AllDays \ {5, 6} ELSE AllDays],
                       !.filings = [s \in Symbols |-> {}], !.raw["momentum_2_12"] = Level]
Late  == [Plain EXCEPT !.spy = 4..11]
Cut   == [Plain EXCEPT !.closes = [s \in Symbols |-> 0..3]]
Bare  == [Plain EXCEPT !.closes = [s \in Symbols |-> {}]]
Markets == {Plain, Young, Brief, Gappy, Late, Cut, Bare}

Calls ==
    {Calling("screen_factor", f) : f \in {"ivol_20d", "piotroski_f_score"}} \cup
    {Calling("workstream_a", f) : f \in {"ivol_20d", "52w_high_proximity"}} \cup
    {Calling(x, "") : x \in {"rescreen_v2", "workstream_d", "ensemble_g0", "phase3", "romano_wolf", "bootstrap",
                          "robustness", "battery", "high52w", "tracker"}}
Alone == {Solo(m, flaws, a) : m \in Markets, a \in Calls, flaws \in {{}, Metric, {"permutation_p"}}}
         \cup {Solo(Plain, {}, [a EXCEPT !.quiet = TRUE, !.streams = x]) : a \in Calls, x \in {{1}, {2, 5}}}
         \cup {Solo(Plain, {}, [a EXCEPT !.end = 10]) : a \in Calls}

Together(calls, around) ==
    {[market |-> before, later |-> Plain, calls |-> calls, flaws |-> {}, holdout |-> "HIT", around |-> around] :
        before \in IF "ingestion" \in around THEN {Brief, Young} ELSE {Plain}}
Pairs ==
    LET screen == Calling("screen_factor", "ivol_20d")
        tracker == Calling("tracker", "")
        phase3 == Calling("phase3", "")
    IN  UNION {
            Together(<<screen, screen>>, {"kill"}),
            Together(<<screen>>, {"kill", "ingestion"}),
            Together(<<screen, Calling("battery", "")>>, {}),
            Together(<<screen, tracker>>, {"notes"}),
            Together(<<tracker, tracker>>, {"kill", "notes"}),
            Together(<<phase3, phase3>>, {"ingestion"}),
            Together(<<Calling("rescreen_v2", ""), Calling("workstream_a", "ivol_20d")>>, {"gates"}),
            Together(<<Calling("workstream_d", ""), Calling("ensemble_g0", "")>>, {"gates", "ingestion"})}
AllCases == CrossSections \cup Alone \cup Pairs
=============================================================================

---------------------------- MODULE MCPortfolio ----------------------------
(***************************************************************************)
(* Portfolio with caps scaled to a handful of positions.                   *)
(***************************************************************************)
EXTENDS Portfolio, TLC

\* Bull and bear exposure of nyse_core/schema.py.
Regimes == {Frac(1, 1), Frac(2, 5)}
Full == {Frac(1, 1)}

TwoFifths  == Frac(2, 5)
ThreeTenth == Frac(3, 10)
AQuarter   == Frac(1, 4)
AFifth     == Frac(1, 5)

Symmetry == Permutations(Sectors)
=============================================================================

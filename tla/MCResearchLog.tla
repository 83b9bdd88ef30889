--------------------------- MODULE MCResearchLog ---------------------------
(***************************************************************************)
(* ResearchLog on a few writers, two tags and two contents.                *)
(***************************************************************************)
EXTENDS ResearchLog, TLC

\* Tags are interchangeable, and so are contents.
Symmetry == Permutations(Tag) \cup Permutations(Content)
=============================================================================

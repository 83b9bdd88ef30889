--------------------------- MODULE MCRateLimiter ---------------------------
(***************************************************************************)
(* RateLimiter with a few threads, slots and ticks.                        *)
(***************************************************************************)
EXTENDS RateLimiter
=============================================================================

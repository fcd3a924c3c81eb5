---------------------------- MODULE MCRateLimit ----------------------------
(***************************************************************************)
(* An instance of RateLimitLog.                                            *)
(***************************************************************************)
EXTENDS RateLimitLog, TLC

Symmetry == Permutations(Callers) \union Permutations(Keys)
=============================================================================

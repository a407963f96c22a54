-------------------------- MODULE MCSolvePipeline --------------------------
(***************************************************************************)
(* SolvePipeline for TLC.  Time is in seconds, with the code's own budgets *)
(* (20 and 25 s, cutoff 1 s before, deadlines 5 and 15 s, aggregators at   *)
(* most 10 s); computations take 0, 5 or 11 s, so that every deadline is   *)
(* met, passed inside a loop and passed before one.                        *)
(***************************************************************************)
EXTENDS SolvePipeline

MCDurations == {0, 5, 11}
MCEnvValues == {10, 20}
=============================================================================

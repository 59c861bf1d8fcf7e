--------------------------- MODULE MCStatsAtomics ---------------------------
(***************************************************************************)
(* StatsAtomics with a worker in each order of the two calls.              *)
(***************************************************************************)
EXTENDS StatsAtomics

CONSTANTS pingpong, pipeline

MCRecorders == {pingpong, pipeline}
MCLatencyFirst == {pingpong}
=============================================================================

--------------------------- MODULE MCBuildPipeline ---------------------------
(* The build driver for TLC, with a bound on how much the user does in all.   *)
EXTENDS BuildPipeline, FiniteSets

Acts == Cardinality({b \in Builds : pc[b] # "unborn"}) + srcRev + toolRev
MaxActs == 4
Bound == Acts <= MaxActs
=============================================================================

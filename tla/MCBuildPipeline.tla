--------------------------- MODULE MCBuildPipeline ---------------------------
(* Instances of the build pipeline for TLC: the fault sites of each run. *)
EXTENDS BuildInvariants

CONSTANT s1, s2

AllFaults == FaultSites
NoFaults  == {}

\* Faults after which rows and memory still agree, and which leave no
\* delivery without any record.
SingleFaults == FaultSites \ UnrecordedFaults
=============================================================================

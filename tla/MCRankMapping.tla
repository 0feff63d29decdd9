---------------------------- MODULE MCRankMapping ----------------------------
(* Three nodes of up to three kinds, jobs of one to four ranks: all ways   *)
(* to be too small, too large, or to fit with or without a pairing.        *)
EXTENDS RankMapping

HardwareKinds ==
  {[cpuArch |-> "x86_64", gpuCount |-> 0],
   [cpuArch |-> "x86_64", gpuCount |-> 1],
   [cpuArch |-> "aarch64", gpuCount |-> 0]}
=============================================================================

-------------------------- MODULE MCBenchmarkLedger --------------------------
(* Instance of BenchmarkLedger for TLC.                                     *)
EXTENDS BenchmarkLedger, TLC

Symmetry == Permutations(Tabs) \cup Permutations(Texts)
=============================================================================

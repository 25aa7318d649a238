-------------------------- MODULE MCBacktestQueue --------------------------
(* Instance of BacktestQueue for TLC.  Workers are interchangeable and only *)
(* safety is checked, so they are declared symmetric.                      *)
EXTENDS BacktestQueue, TLC

WorkerSymmetry == Permutations(Workers)
=============================================================================

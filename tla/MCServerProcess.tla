--------------------------- MODULE MCServerProcess ---------------------------
(* Symmetry for the runs of ServerProcess: callers, numbers and ports are  *)
(* only compared.                                                          *)
EXTENDS ServerProcess, TLC

Symmetry == Permutations(Callers) \cup Permutations(Pids) \cup Permutations(Ports)
=============================================================================

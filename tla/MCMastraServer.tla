--------------------------- MODULE MCMastraServer ---------------------------
(* Symmetry for the server's run: requests, names and threads are only    *)
(* compared.                                                               *)
EXTENDS MastraServer, TLC

Symmetry == Permutations(Reqs) \cup Permutations(Names) \cup Permutations(Threads)
=============================================================================

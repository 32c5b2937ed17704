---------------------------- MODULE MCFirstBoot ----------------------------
(* An instance of FirstBoot for TLC: the runs of tc init are alike.        *)
EXTENDS FirstBoot, TLC

Symmetric == Permutations(Inits)
=============================================================================

----------------------- MODULE MCConnectionDispatcher -----------------------
(* Small instances of ConnectionDispatcher for TLC.                        *)
EXTENDS ConnectionDispatcher, TLC

MCSymmetry == Permutations(Connections) \cup Permutations(Jobs)
=============================================================================

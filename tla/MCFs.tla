-------------------------------- MODULE MCFs --------------------------------
(* Fs for TLC: names are interchangeable. *)
EXTENDS Fs, TLC

NameSymmetry == Permutations(Names)
=============================================================================

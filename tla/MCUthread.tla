----------------------------- MODULE MCUthread -----------------------------
(* Instances of Uthread for TLC. *)
EXTENDS Uthread, TLC

(* The workers run the same code and no action tells them apart. *)
WorkerSymmetry == Permutations(Workers)
=============================================================================

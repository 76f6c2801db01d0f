------------------------------- MODULE MCMutex -------------------------------
(* Instances of Mutex for TLC: fibers as interchangeable model values. *)
EXTENDS MutexProofs, TLC

FiberSymmetry == Permutations(Fibers)
=============================================================================

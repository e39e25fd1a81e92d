------------------------- MODULE MC_ReadWriteLock -------------------------
(* Model-checking instance of ReadWriteLockSpec; constants come from the cfgs. *)
EXTENDS ReadWriteLockSpec, TLC

\* Threads are interchangeable: no step depends on which thread it is.
ThreadSymmetry == Permutations(Threads)

=============================================================================

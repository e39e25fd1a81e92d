------------------------ MODULE MC_SimpleThreadPool ------------------------
(* SimpleThreadPool instantiated for TLC. *)
EXTENDS SimpleThreadPool, TLC

CONSTANTS w1, w2, c1, c2

\* Two workers and one client that owns the pool: enqueue, then stop.
MC_Workers == {w1, w2}
MC_OwnerOnly == {c1}

\* A second client that enqueues while the owner stops the pool.
MC_TwoClients == {c1, c2}
MC_Owner == {c2}

MC_WorkerSymmetry == Permutations(MC_Workers)
=============================================================================

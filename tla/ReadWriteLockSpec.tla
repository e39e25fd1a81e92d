------------------------- MODULE ReadWriteLockSpec -------------------------
(***************************************************************************)
(* Threads calling one ReadWriteLock (src/src/utils/threading.cpp) the way *)
(* the code does: through ReadLockGuard / WriteLockGuard (threading.h),    *)
(* which release in reverse order of acquisition, and through the          *)
(* try-variants.  held[t] is the stack of guards thread t owns; pc[t] says *)
(* whether t is inside the wait loop of readLock or writeLock.             *)
(***************************************************************************)
EXTENDS Naturals, Sequences, SequencesExt

CONSTANTS
    Threads,
    NoThread,
    Ops,        \* the lock methods the threads call, a subset of OpNames
    MaxDepth    \* bound on how many guards one thread nests

OpNames == {"readLock", "writeLock", "tryReadLock", "tryWriteLock"}

ASSUME Ops \subseteq OpNames /\ MaxDepth \in Nat \ {0}

VARIABLES
    lock,   \* the ReadWriteLock object
    pc,     \* "idle", or the lock method whose wait loop t is in
    held    \* held[t]: the modes ("R"/"W") of the guards t owns, innermost last

vars == <<lock, pc, held>>

RW == INSTANCE ReadWriteLock

TypeOK ==
    /\ lock \in RW!LockType
    /\ pc \in [Threads -> {"idle", "readLock", "writeLock"}]
    /\ held \in [Threads -> BoundedSeq({"R", "W"}, MaxDepth)]

Init ==
    /\ lock = RW!InitLock
    /\ pc = [t \in Threads |-> "idle"]
    /\ held = [t \in Threads |-> <<>>]

\* A thread may call a lock method when it is not blocked and not too deep.
CanCall(t, op) ==
    /\ op \in Ops
    /\ pc[t] = "idle"
    /\ Len(held[t]) < MaxDepth

\* One pass of readLock's wait loop: acquire, or block on reader_cv_.
ReadLockPass(t) ==
    /\ lock' = RW!ReadLock(lock, t)
    /\ IF RW!ReadPred(lock)
       THEN held' = [held EXCEPT ![t] = Append(@, "R")] /\ pc' = [pc EXCEPT ![t] = "idle"]
       ELSE pc' = [pc EXCEPT ![t] = "readLock"] /\ UNCHANGED held

ReadLock(t) == CanCall(t, "readLock") /\ ReadLockPass(t)

\* A thread woken from reader_cv_ runs the loop again.
ReadLockRetry(t) ==
    /\ pc[t] = "readLock"
    /\ t \notin lock.reader_cv
    /\ ReadLockPass(t)

\* The tail of writeLock: it returns holding the lock, or waits.
WriteLockOutcome(t, granted) ==
    IF granted
    THEN held' = [held EXCEPT ![t] = Append(@, "W")] /\ pc' = [pc EXCEPT ![t] = "idle"]
    ELSE pc' = [pc EXCEPT ![t] = "writeLock"] /\ UNCHANGED held

WriteLock(t) ==
    /\ CanCall(t, "writeLock")
    /\ lock' = RW!WriteLock(lock, t)
    /\ WriteLockOutcome(t, RW!WriteLockGranted(lock, t))

WriteLockRetry(t) ==
    /\ pc[t] = "writeLock"
    /\ t \notin lock.writer_cv
    /\ lock' = RW!WriteLockWait(lock, t)
    /\ WriteLockOutcome(t, RW!WritePred(lock))

\* The innermost guard's destructor.
ReadUnlock(t) ==
    /\ pc[t] = "idle"
    /\ held[t] # <<>> /\ Last(held[t]) = "R"
    /\ lock' \in RW!ReadUnlock(lock)
    /\ held' = [held EXCEPT ![t] = Front(@)]
    /\ UNCHANGED pc

WriteUnlock(t) ==
    /\ pc[t] = "idle"
    /\ held[t] # <<>> /\ Last(held[t]) = "W"
    /\ lock' \in RW!WriteUnlock(lock, t)
    /\ held' = [held EXCEPT ![t] = Front(@)]
    /\ UNCHANGED pc

\* A try-call that succeeded is released like the matching guard.
TryReadLock(t) ==
    /\ CanCall(t, "tryReadLock")
    /\ \E r \in RW!TryReadLock(lock) :
          /\ lock' = r[2]
          /\ held' = IF r[1] THEN [held EXCEPT ![t] = Append(@, "R")] ELSE held
    /\ UNCHANGED pc

TryWriteLock(t) ==
    /\ CanCall(t, "tryWriteLock")
    /\ \E r \in RW!TryWriteLock(lock) :
          /\ lock' = r[2]
          /\ held' = IF r[1] THEN [held EXCEPT ![t] = Append(@, "W")] ELSE held
    /\ UNCHANGED pc

Next ==
    \E t \in Threads :
        \/ ReadLock(t) \/ ReadLockRetry(t)
        \/ WriteLock(t) \/ WriteLockRetry(t)
        \/ ReadUnlock(t) \/ WriteUnlock(t)
        \/ TryReadLock(t) \/ TryWriteLock(t)

(***************************************************************************)
(* Fairness: a runnable thread is eventually scheduled by the OS, so a     *)
(* woken waiter re-runs its wait loop, and a critical section ends, so an  *)
(* owned guard is eventually destroyed.  Calling the lock is up to the     *)
(* client and is not fair.                                                 *)
(***************************************************************************)
Fairness ==
    \A t \in Threads :
        /\ WF_vars(ReadLockRetry(t)) /\ WF_vars(WriteLockRetry(t))
        /\ WF_vars(ReadUnlock(t)) /\ WF_vars(WriteUnlock(t))

Spec == Init /\ [][Next]_vars

FairSpec == Spec /\ Fairness

-----------------------------------------------------------------------------
(* Properties *)

Count(s, m) == Len(SelectSeq(s, LAMBDA x : x = m))

HoldsWrite(t) == Contains(held[t], "W")

(***************************************************************************)
(* Refinement: the guards the threads own always form a legal state of an  *)
(* abstract recursive readers-writer lock, and every acquire/release step  *)
(* (readLock, writeLock with its recursive fast path, the try-variants,    *)
(* readUnlock, writeUnlock) is a legal abstract step: no reader beside a   *)
(* writer, no two writers, only the owner re-enters.                       *)
(***************************************************************************)
WriterOf ==
    IF \E t \in Threads : HoldsWrite(t)
    THEN CHOOSE t \in Threads : HoldsWrite(t)
    ELSE NoThread

Abstract == INSTANCE AbstractRWLock WITH
    writer     <- WriterOf,
    writeDepth <- IF WriterOf = NoThread THEN 0 ELSE Count(held[WriterOf], "W"),
    readCount  <- [t \in Threads |-> Count(held[t], "R")]

ImplementsAbstractRWLock == Abstract!Spec

(***************************************************************************)
(* The lock's own bookkeeping agrees with the guards the threads own: it   *)
(* counts exactly the read guards alive, writer_active_ is set exactly     *)
(* while a write guard is alive, and writer_thread_id_ and                 *)
(* recursive_write_count_ name that guard's thread and nesting.  When this *)
(* fails, a later writeUnlock or writeLock by the owner misbehaves.        *)
(***************************************************************************)
LockAgreesWithGuards ==
    /\ lock.active_readers = FoldFunction(LAMBDA s, acc : Count(s, "R") + acc, 0, held)
    /\ lock.writer_active = (WriterOf # NoThread)
    /\ lock.writer_thread_id = WriterOf
    /\ lock.recursive_write_count =
           IF WriterOf = NoThread THEN 0 ELSE Count(held[WriterOf], "W")

(***************************************************************************)
(* No lost wake-up: while some thread waits inside readLock or writeLock,  *)
(* the lock keeps being granted.  A notify that wakes nobody who can       *)
(* proceed (readUnlock, writeUnlock) leaves every waiter blocked forever.  *)
(* Individual threads may starve: the lock is not FIFO.                    *)
(***************************************************************************)
SomeoneWaits == \E t \in Threads : pc[t] # "idle"
SomeoneHolds == \E t \in Threads : held[t] # <<>>

WaitersProgress == SomeoneWaits ~> SomeoneHolds

=============================================================================

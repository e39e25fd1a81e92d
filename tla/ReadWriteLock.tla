--------------------------- MODULE ReadWriteLock ---------------------------
(***************************************************************************)
(* The ReadWriteLock of src/src/utils/threading.cpp as operators on a lock *)
(* record.  Every public method runs its whole body while holding the      *)
(* internal std::mutex mutex_, so one method call (or one pass of the      *)
(* condition-variable wait loop) is one atomic step on the record.         *)
(*                                                                         *)
(* A thread blocked in reader_cv_.wait / writer_cv_.wait is a member of    *)
(* the record's reader_cv / writer_cv set.  notify_one removes one blocked *)
(* thread, notify_all removes them all; a removed thread is runnable and   *)
(* re-evaluates the wait predicate under mutex_ when it is next scheduled. *)
(* Spurious wake-ups are not modelled: they only add re-evaluations.       *)
(*                                                                         *)
(* The operators are used by ReadWriteLockSpec (the lock on its own) and   *)
(* by ClassifierSystem (the two locks of PacketClassifier/RuleManager).    *)
(***************************************************************************)
EXTENDS Naturals

CONSTANTS
    Threads,    \* the OS threads that use the lock
    NoThread    \* std::thread::id(): the id of no thread

ASSUME NoThread \notin Threads

\* The ReadWriteLock constructor (threading.cpp:8).
InitLock ==
    [active_readers        |-> 0,
     waiting_writers       |-> 0,
     writer_active         |-> FALSE,
     writer_thread_id      |-> NoThread,
     recursive_write_count |-> 0,
     reader_cv             |-> {},
     writer_cv             |-> {}]

LockType ==
    [active_readers        : Nat,
     waiting_writers       : Nat,
     writer_active         : BOOLEAN,
     writer_thread_id      : Threads \cup {NoThread},
     recursive_write_count : Nat,
     reader_cv             : SUBSET Threads,
     writer_cv             : SUBSET Threads]

(***************************************************************************)
(* Variants of the definitions below with a plausible bug each; the runs   *)
(* of ReadWriteLockSpec and ClassifierSystem are shown to catch them.      *)
(***************************************************************************)
\* A writer predicate that forgets the readers.
WritePredIgnoresReaders(L) == ~L.writer_active

\* The predicates the two condition variables wait on.
ReadPred(L)  == ~L.writer_active /\ L.waiting_writers = 0
WritePred(L) == ~L.writer_active /\ L.active_readers = 0

\* The possible sets of blocked threads after cv.notify_one().
NotifyOne(cv) == IF cv = {} THEN {cv} ELSE {cv \ {w} : w \in cv}

(***************************************************************************)
(* readLock: one evaluation of the wait predicate.  Either the thread gets *)
(* the lock, or it blocks on reader_cv_.  The same step models the first   *)
(* call and every re-evaluation after a notification.                      *)
(***************************************************************************)
ReadLock(L, t) ==
    IF ReadPred(L)
    THEN [L EXCEPT !.active_readers = @ + 1]
    ELSE [L EXCEPT !.reader_cv = @ \cup {t}]

\* writeLock, first pass: the recursive fast path of the owning thread.
WriteReentrant(L, t) == L.writer_active /\ L.writer_thread_id = t

\* writeLock's wait loop without setting the recursion count.
WriteLockWaitNoCountReset(L, t) ==
    IF WritePred(L)
    THEN [L EXCEPT !.waiting_writers = @ - 1, !.writer_active = TRUE,
                   !.writer_thread_id = t]
    ELSE [L EXCEPT !.writer_cv = @ \cup {t}]

(***************************************************************************)
(* writeLock, wait loop: the caller is already counted in waiting_writers_.*)
(* On success it leaves the count and becomes the owner.                   *)
(***************************************************************************)
WriteLockWait(L, t) ==
    IF WritePred(L)
    THEN [L EXCEPT !.waiting_writers       = @ - 1,
                   !.writer_active         = TRUE,
                   !.writer_thread_id      = t,
                   !.recursive_write_count = 1]
    ELSE [L EXCEPT !.writer_cv = @ \cup {t}]

\* writeLock without its waiting_writers_++ before the wait loop.
WriteLockNoWaitCount(L, t) ==
    IF WriteReentrant(L, t)
    THEN [L EXCEPT !.recursive_write_count = @ + 1]
    ELSE WriteLockWait(L, t)

\* writeLock as called: reentry, or waiting_writers_++ and the wait loop.
WriteLock(L, t) ==
    IF WriteReentrant(L, t)
    THEN [L EXCEPT !.recursive_write_count = @ + 1]
    ELSE WriteLockWait([L EXCEPT !.waiting_writers = @ + 1], t)

\* Whether WriteLock(L, t) returned holding the lock.
WriteLockGranted(L, t) ==
    WriteReentrant(L, t) \/ WritePred(L)

\* readUnlock that never wakes a waiting writer.
ReadUnlockNoNotify(L) == {[L EXCEPT !.active_readers = @ - 1]}

\* readUnlock: the set of possible results (notify_one picks any waiter).
ReadUnlock(L) ==
    LET L1 == [L EXCEPT !.active_readers = @ - 1]
    IN  IF L1.active_readers = 0 /\ L1.waiting_writers > 0
        THEN {[L1 EXCEPT !.writer_cv = cv] : cv \in NotifyOne(L1.writer_cv)}
        ELSE {L1}

\* writeUnlock without the owner check.
WriteUnlockNoOwnerCheck(L, t) ==
    LET L1 == [L EXCEPT !.recursive_write_count = @ - 1]
    IN  IF L1.recursive_write_count # 0 THEN {L1}
        ELSE {[L1 EXCEPT !.writer_active = FALSE, !.writer_thread_id = NoThread,
                         !.reader_cv = {}]}

(***************************************************************************)
(* writeUnlock: a no-op unless the caller is the recorded owner; the last  *)
(* recursive release clears the owner and wakes one writer if any is       *)
(* waiting, otherwise every reader.                                        *)
(***************************************************************************)
WriteUnlock(L, t) ==
    IF ~L.writer_active \/ L.writer_thread_id # t
    THEN {L}
    ELSE LET L1 == [L EXCEPT !.recursive_write_count = @ - 1]
             L2 == [L1 EXCEPT !.writer_active = FALSE,
                              !.writer_thread_id = NoThread]
         IN  IF L1.recursive_write_count # 0 THEN {L1}
             ELSE IF L2.waiting_writers > 0
                  THEN {[L2 EXCEPT !.writer_cv = cv] : cv \in NotifyOne(L2.writer_cv)}
                  ELSE {[L2 EXCEPT !.reader_cv = {}]}

(***************************************************************************)
(* tryReadLock / tryWriteLock: pairs <<success, new record>>.  The         *)
(* std::try_to_lock on mutex_ fails when another thread is inside a lock   *)
(* method, which the atomic steps hide, so failure is always possible.     *)
(* tryWriteLock sets writer_active_ but records neither the owner nor the  *)
(* recursion count.                                                        *)
(***************************************************************************)
TryReadLock(L) ==
    {<<FALSE, L>>} \cup
    (IF ReadPred(L) THEN {<<TRUE, [L EXCEPT !.active_readers = @ + 1]>>} ELSE {})

TryWriteLock(L) ==
    {<<FALSE, L>>} \cup
    (IF L.active_readers = 0 /\ ~L.writer_active
     THEN {<<TRUE, [L EXCEPT !.writer_active = TRUE]>>} ELSE {})

=============================================================================

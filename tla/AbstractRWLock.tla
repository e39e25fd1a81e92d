-------------------------- MODULE AbstractRWLock --------------------------
(***************************************************************************)
(* What a recursive readers-writer lock promises its callers, with no     *)
(* counters, condition variables or waiting: at any time either one thread *)
(* holds it for writing (possibly several times, recursively) or any       *)
(* number of threads hold it for reading (each possibly several times),    *)
(* and a thread may only acquire when that stays so.  A release is only    *)
(* of something held.  ReadWriteLockSpec is checked to implement this.     *)
(***************************************************************************)
EXTENDS Naturals

CONSTANTS Threads, NoThread

VARIABLES
    writer,       \* the thread holding the lock for writing, or NoThread
    writeDepth,   \* how many times writer holds it
    readCount     \* readCount[t]: how many read holds thread t has

avars == <<writer, writeDepth, readCount>>

NoReaders == \A u \in Threads : readCount[u] = 0

Init ==
    /\ writer = NoThread
    /\ writeDepth = 0
    /\ readCount = [t \in Threads |-> 0]

AcquireRead(t) ==
    /\ writer = NoThread
    /\ readCount' = [readCount EXCEPT ![t] = @ + 1]
    /\ UNCHANGED <<writer, writeDepth>>

\* The owner may re-acquire; anyone else only a lock nobody holds.
AcquireWrite(t) ==
    /\ \/ writer = t
       \/ writer = NoThread /\ NoReaders
    /\ writer' = t
    /\ writeDepth' = writeDepth + 1
    /\ UNCHANGED readCount

ReleaseRead(t) ==
    /\ readCount[t] > 0
    /\ readCount' = [readCount EXCEPT ![t] = @ - 1]
    /\ UNCHANGED <<writer, writeDepth>>

ReleaseWrite(t) ==
    /\ writer = t
    /\ writeDepth' = writeDepth - 1
    /\ writer' = IF writeDepth = 1 THEN NoThread ELSE t
    /\ UNCHANGED readCount

Next ==
    \E t \in Threads :
        AcquireRead(t) \/ AcquireWrite(t) \/ ReleaseRead(t) \/ ReleaseWrite(t)

Spec == Init /\ [][Next]_avars

=============================================================================

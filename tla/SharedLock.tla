----------------------------- MODULE SharedLock -----------------------------
(***************************************************************************)
(* What a read/write lock promises: any number of readers, or one writer.  *)
(***************************************************************************)
CONSTANT Threads

VARIABLES
    readers,    \* the threads that hold the lock to read
    writers     \* the threads that hold it to write

lockVars == <<readers, writers>>

LockInit == readers = {} /\ writers = {}

AcquireRead(t) ==
    /\ writers = {} /\ t \notin readers
    /\ readers' = readers \cup {t}
    /\ UNCHANGED writers

AcquireWrite(t) ==
    /\ writers = {} /\ readers = {}
    /\ writers' = {t}
    /\ UNCHANGED readers

ReleaseRead(t) == t \in readers /\ readers' = readers \ {t} /\ UNCHANGED writers

ReleaseWrite(t) == t \in writers /\ writers' = writers \ {t} /\ UNCHANGED readers

LockNext ==
    \E t \in Threads :
        AcquireRead(t) \/ AcquireWrite(t) \/ ReleaseRead(t) \/ ReleaseWrite(t)

LockSpec == LockInit /\ [][LockNext]_lockVars
=============================================================================

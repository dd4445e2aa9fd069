------------------------------- MODULE RWLock -------------------------------
(***************************************************************************)
(* CReadWriteLock of r3_rw_lock.cpp: a read/write lock made of two         *)
(* manual-reset events, a counter and two critical sections.               *)
(*                                                                         *)
(* A step ends where another thread may look: at every call on an event,   *)
(* and between the counter and the event that goes with it, which only the *)
(* critical section keeps together.                                        *)
(***************************************************************************)
EXTENDS Integers, FiniteSets

CONSTANTS Threads, None

ASSUME ThreadsAssumption == IsFiniteSet(Threads) /\ None \notin Threads

VARIABLES
    pc,                 \* where each thread is
    retry,              \* bLoop: the reader goes back to waiting
    m_nReaderCount,
    m_hWriterEvent,     \* signaled: no writer
    m_hNoReadersEvent,  \* signaled: no reader
    m_csReaderCount,    \* the thread in the critical section, or None
    m_csLockWriter

vars == <<pc, retry, m_nReaderCount, m_hWriterEvent, m_hNoReadersEvent,
          m_csReaderCount, m_csLockWriter>>

Init ==
    /\ pc = [t \in Threads |-> "idle"]
    /\ retry = [t \in Threads |-> FALSE]
    /\ m_nReaderCount = 0
    /\ m_hWriterEvent = TRUE /\ m_hNoReadersEvent = TRUE
    /\ m_csReaderCount = None /\ m_csLockWriter = None

Go(t, from, to) == pc[t] = from /\ pc' = [pc EXCEPT ![t] = to]

-----------------------------------------------------------------------------
(* LockReader: wait until no writer has or wants the lock, count in ...    *)
LockReader(t) ==
    /\ Go(t, "idle", "wait_writer")
    /\ UNCHANGED <<retry, m_nReaderCount, m_hWriterEvent, m_hNoReadersEvent,
                   m_csReaderCount, m_csLockWriter>>

(* Seeded bug: the reader does not wait.                                   *)
WaitNothing(t) ==
    /\ Go(t, "wait_writer", "inc_enter")
    /\ UNCHANGED <<retry, m_nReaderCount, m_hWriterEvent, m_hNoReadersEvent,
                   m_csReaderCount, m_csLockWriter>>

WaitWriter(t) ==
    /\ Go(t, "wait_writer", "inc_enter")
    /\ m_hWriterEvent
    /\ UNCHANGED <<retry, m_nReaderCount, m_hWriterEvent, m_hNoReadersEvent,
                   m_csReaderCount, m_csLockWriter>>

(* IncrementReaderCount                                                    *)
IncEnter(t) ==
    /\ Go(t, "inc_enter", "inc")
    /\ m_csReaderCount = None /\ m_csReaderCount' = t
    /\ UNCHANGED <<retry, m_nReaderCount, m_hWriterEvent, m_hNoReadersEvent,
                   m_csLockWriter>>

IncCount(t) ==
    /\ Go(t, "inc", "inc_reset")
    /\ m_nReaderCount' = m_nReaderCount + 1
    /\ UNCHANGED <<retry, m_hWriterEvent, m_hNoReadersEvent, m_csReaderCount,
                   m_csLockWriter>>

IncReset(t) ==
    /\ Go(t, "inc_reset", "check")
    /\ m_hNoReadersEvent' = FALSE
    /\ m_csReaderCount' = None
    /\ UNCHANGED <<retry, m_nReaderCount, m_hWriterEvent, m_csLockWriter>>

(* Seeded bug: the reader does not look for a writer again.                *)
CheckNothing(t) ==
    /\ Go(t, "check", "reading")
    /\ UNCHANGED <<retry, m_nReaderCount, m_hWriterEvent, m_hNoReadersEvent,
                   m_csReaderCount, m_csLockWriter>>

(* ... and look again: a writer may have come in between.                  *)
Check(t) ==
    /\ \/ m_hWriterEvent /\ Go(t, "check", "reading") /\ UNCHANGED retry
       \/ /\ ~m_hWriterEvent /\ Go(t, "check", "dec_enter")
          /\ retry' = [retry EXCEPT ![t] = TRUE]
    /\ UNCHANGED <<m_nReaderCount, m_hWriterEvent, m_hNoReadersEvent,
                   m_csReaderCount, m_csLockWriter>>

UnlockReader(t) ==
    /\ Go(t, "reading", "dec_enter")
    /\ retry' = [retry EXCEPT ![t] = FALSE]
    /\ UNCHANGED <<m_nReaderCount, m_hWriterEvent, m_hNoReadersEvent,
                   m_csReaderCount, m_csLockWriter>>

(* DecrementReaderCount                                                    *)
DecEnter(t) ==
    /\ Go(t, "dec_enter", "dec")
    /\ m_csReaderCount = None /\ m_csReaderCount' = t
    /\ UNCHANGED <<retry, m_nReaderCount, m_hWriterEvent, m_hNoReadersEvent,
                   m_csLockWriter>>

DecDone(t) == IF retry[t] THEN "wait_writer" ELSE "idle"

(* Seeded bug: the event is set once one reader is left.                   *)
DecEarly(t) ==
    /\ m_nReaderCount' = m_nReaderCount - 1
    /\ \/ m_nReaderCount' <= 1 /\ Go(t, "dec", "dec_set") /\ UNCHANGED m_csReaderCount
       \/ /\ m_nReaderCount' > 1 /\ Go(t, "dec", DecDone(t))
          /\ m_csReaderCount' = None
    /\ UNCHANGED <<retry, m_hWriterEvent, m_hNoReadersEvent, m_csLockWriter>>

DecCount(t) ==
    /\ m_nReaderCount' = m_nReaderCount - 1
    /\ \/ m_nReaderCount' <= 0 /\ Go(t, "dec", "dec_set") /\ UNCHANGED m_csReaderCount
       \/ /\ m_nReaderCount' > 0 /\ Go(t, "dec", DecDone(t))
          /\ m_csReaderCount' = None
    /\ UNCHANGED <<retry, m_hWriterEvent, m_hNoReadersEvent, m_csLockWriter>>

DecSet(t) ==
    /\ Go(t, "dec_set", DecDone(t))
    /\ m_hNoReadersEvent' = TRUE
    /\ m_csReaderCount' = None
    /\ UNCHANGED <<retry, m_nReaderCount, m_hWriterEvent, m_csLockWriter>>

-----------------------------------------------------------------------------
(* LockWriter: one writer at a time closes the lock and waits for the      *)
(* readers to leave.                                                       *)
LockWriter(t) ==
    /\ Go(t, "idle", "w_enter")
    /\ UNCHANGED <<retry, m_nReaderCount, m_hWriterEvent, m_hNoReadersEvent,
                   m_csReaderCount, m_csLockWriter>>

(* Seeded bug: the writers do not wait for one another.                    *)
WriterEnterFree(t) ==
    /\ Go(t, "w_enter", "w_wait")
    /\ m_csLockWriter' = t
    /\ UNCHANGED <<retry, m_nReaderCount, m_hWriterEvent, m_hNoReadersEvent,
                   m_csReaderCount>>

WriterEnter(t) ==
    /\ Go(t, "w_enter", "w_wait")
    /\ m_csLockWriter = None /\ m_csLockWriter' = t
    /\ UNCHANGED <<retry, m_nReaderCount, m_hWriterEvent, m_hNoReadersEvent,
                   m_csReaderCount>>

WriterWait(t) ==
    /\ Go(t, "w_wait", "w_reset")
    /\ m_hWriterEvent
    /\ UNCHANGED <<retry, m_nReaderCount, m_hWriterEvent, m_hNoReadersEvent,
                   m_csReaderCount, m_csLockWriter>>

WriterReset(t) ==
    /\ Go(t, "w_reset", "w_drain")
    /\ m_hWriterEvent' = FALSE
    /\ UNCHANGED <<retry, m_nReaderCount, m_hNoReadersEvent, m_csReaderCount,
                   m_csLockWriter>>

WriterDrain(t) ==
    /\ Go(t, "w_drain", "w_leave")
    /\ m_hNoReadersEvent
    /\ UNCHANGED <<retry, m_nReaderCount, m_hWriterEvent, m_hNoReadersEvent,
                   m_csReaderCount, m_csLockWriter>>

WriterLeave(t) ==
    /\ Go(t, "w_leave", "writing")
    /\ m_csLockWriter' = None
    /\ UNCHANGED <<retry, m_nReaderCount, m_hWriterEvent, m_hNoReadersEvent,
                   m_csReaderCount>>

UnlockWriter(t) ==
    /\ Go(t, "writing", "idle")
    /\ m_hWriterEvent' = TRUE
    /\ UNCHANGED <<retry, m_nReaderCount, m_hNoReadersEvent, m_csReaderCount,
                   m_csLockWriter>>

-----------------------------------------------------------------------------
ReaderStep(t) ==
    \/ WaitWriter(t) \/ IncEnter(t) \/ IncCount(t) \/ IncReset(t) \/ Check(t)
    \/ UnlockReader(t) \/ DecEnter(t) \/ DecCount(t) \/ DecSet(t)

WriterStep(t) ==
    \/ WriterEnter(t) \/ WriterWait(t) \/ WriterReset(t) \/ WriterDrain(t)
    \/ WriterLeave(t) \/ UnlockWriter(t)

Next == \E t \in Threads :
    LockReader(t) \/ LockWriter(t) \/ ReaderStep(t) \/ WriterStep(t)

Spec == Init /\ [][Next]_vars

(* Threads run and give back the lock they hold.  A thread that waits for  *)
(* a critical section gets it when it is given back often enough (SF).  A  *)
(* wait for an event of which other threads make use meanwhile is WF only. *)
Fairness == \A t \in Threads :
    /\ WF_vars(ReaderStep(t)) /\ WF_vars(WriterStep(t))
    /\ SF_vars(IncEnter(t)) /\ SF_vars(DecEnter(t)) /\ SF_vars(WriterEnter(t))

FairSpec == Spec /\ Fairness

-----------------------------------------------------------------------------
Places ==
    {"idle", "wait_writer", "inc_enter", "inc", "inc_reset", "check", "reading",
     "dec_enter", "dec", "dec_set", "w_enter", "w_wait", "w_reset", "w_drain",
     "w_leave", "writing"}

At(places) == {t \in Threads : pc[t] \in places}

(* Types, and which threads are inside each critical section.              *)
TypeOK ==
    /\ pc \in [Threads -> Places] /\ retry \in [Threads -> BOOLEAN]
    /\ m_nReaderCount \in Nat
    /\ m_hWriterEvent \in BOOLEAN /\ m_hNoReadersEvent \in BOOLEAN
    /\ m_csReaderCount \in Threads \cup {None}
    /\ m_csLockWriter \in Threads \cup {None}
    /\ \A t \in Threads :
          /\ pc[t] \in {"inc", "inc_reset", "dec", "dec_set"} <=> m_csReaderCount = t
          /\ pc[t] \in {"w_wait", "w_reset", "w_drain", "w_leave"} <=>
                m_csLockWriter = t

(* "Ensures unlimited number of reader access, and guarantees no writer    *)
(* access", "Ensure that only one writer is granted access" (LockReader,   *)
(* LockWriter).                                                            *)
Exclusion ==
    \A t, u \in Threads :
        pc[t] = "writing" /\ u # t => pc[u] \notin {"reading", "writing"}

(* Every step is one of an ideal read/write lock or changes nothing there. *)
Lock == INSTANCE SharedLock WITH
    readers <- At({"reading"}), writers <- At({"writing"})

ImplementsLock == Lock!LockSpec

(* A writer that has closed the lock gets in: the readers it met leave,    *)
(* and those that come later count out again (LockWriter, LockReader).     *)
WriterGetsIn == \A t \in Threads : pc[t] = "w_drain" ~> pc[t] = "writing"
=============================================================================

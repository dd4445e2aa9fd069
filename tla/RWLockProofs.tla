---------------------------- MODULE RWLockProofs ----------------------------
(***************************************************************************)
(* CReadWriteLock keeps writers apart from one another and from readers,   *)
(* for any finite set of threads, and implements SharedLock.               *)
(*                                                                         *)
(* A writer gets in when m_hNoReadersEvent is signaled.  That it is right  *)
(* to is a matter of counting: the counter is the number of threads        *)
(* between their increment and their decrement, and the event, which lags  *)
(* behind the counter, can only be signaled while nobody is past it.       *)
(***************************************************************************)
EXTENDS RWLock, FiniteSetTheorems, TLAPS

(* The threads that are counted, and those the event must not overlook.    *)
Counted == At({"inc_reset", "check", "reading", "dec_enter", "dec"})
Inside(t) == pc[t] \in {"check", "reading", "dec_enter", "dec"}

(* The threads that have closed the lock.                                  *)
Closing(t) == pc[t] \in {"w_drain", "w_leave", "writing"}

CountInv ==
    /\ m_nReaderCount = Cardinality(Counted)
    /\ \A t \in Threads : pc[t] = "dec_set" => m_nReaderCount <= 0
    /\ m_hNoReadersEvent => \A t \in Threads : ~Inside(t)

WriterInv ==
    /\ m_hWriterEvent <=> \A t \in Threads : ~Closing(t)
    /\ \A t, u \in Threads : Closing(t) /\ Closing(u) => t = u
    /\ \A t \in Threads : pc[t] = "w_reset" => m_hWriterEvent
    /\ \A t, u \in Threads :
          pc[t] \in {"w_leave", "writing"} => pc[u] # "reading"

IInv == TypeOK /\ CountInv /\ WriterInv

LEMMA CountedFinite ==
    IsFiniteSet(Counted) /\ Cardinality(Counted) \in Nat
<1>1. Counted \subseteq Threads
  BY DEF Counted, At
<1> QED
  BY <1>1, ThreadsAssumption, FS_Subset, FS_CardinalityType

(* Nobody is counted when the counter is not positive.                     *)
LEMMA NobodyCounted ==
    ASSUME CountInv, m_nReaderCount <= 0
    PROVE  Counted = {}
  BY CountedFinite, FS_EmptySet DEF CountInv

LEMMA InitInv == Init => IInv
<1> SUFFICES ASSUME Init PROVE IInv
  OBVIOUS
<1>1. TypeOK
  BY ThreadsAssumption DEF Init, TypeOK, Places
<1>2. Counted = {}
  BY DEF Init, Counted, At
<1>3. CountInv
  BY <1>2, FS_EmptySet DEF Init, CountInv, Inside
<1>4. WriterInv
  BY DEF Init, WriterInv, Closing
<1> QED
  BY <1>1, <1>3, <1>4 DEF IInv
(* Types, and who is in the critical sections.                             *)
LEMMA TypeNext ==
    ASSUME IInv, [Next]_vars
    PROVE  TypeOK'
<1> USE DEF IInv
<1>0. CASE UNCHANGED vars
  BY <1>0 DEF vars, TypeOK, Places
<1>s. SUFFICES ASSUME Next PROVE TypeOK'
  BY <1>0
<1>p. PICK t \in Threads :
         LockReader(t) \/ LockWriter(t) \/ ReaderStep(t) \/ WriterStep(t)
  BY <1>s DEF Next
<1>1. CASE LockReader(t)
  BY <1>1 DEF LockReader, Go, TypeOK, Places
<1>2. CASE WaitWriter(t)
  BY <1>2 DEF WaitWriter, Go, TypeOK, Places
<1>3. CASE IncEnter(t)
  BY <1>3, ThreadsAssumption DEF IncEnter, Go, TypeOK, Places
<1>4. CASE IncCount(t)
  BY <1>4 DEF IncCount, Go, TypeOK, Places
<1>5. CASE IncReset(t)
  BY <1>5, ThreadsAssumption DEF IncReset, Go, TypeOK, Places
<1>6. CASE Check(t)
  BY <1>6 DEF Check, Go, TypeOK, Places
<1>7. CASE UnlockReader(t)
  BY <1>7 DEF UnlockReader, Go, TypeOK, Places
<1>8. CASE DecEnter(t)
  BY <1>8, ThreadsAssumption DEF DecEnter, Go, TypeOK, Places
<1>9. CASE DecCount(t)
  <2>1. m_nReaderCount' = m_nReaderCount - 1
    BY <1>9 DEF DecCount
  <2>2. t \in Counted
    BY <1>9 DEF DecCount, Go, Counted, At
  <2>3. m_nReaderCount > 0
    BY <2>2, NobodyCounted DEF TypeOK
  <2> QED
    BY <1>9, <2>1, <2>3, ThreadsAssumption DEF DecCount, Go, DecDone, TypeOK, Places
<1>10. CASE DecSet(t)
  BY <1>10, ThreadsAssumption DEF DecSet, Go, DecDone, TypeOK, Places
<1>11. CASE LockWriter(t)
  BY <1>11 DEF LockWriter, Go, TypeOK, Places
<1>12. CASE WriterEnter(t)
  BY <1>12, ThreadsAssumption DEF WriterEnter, Go, TypeOK, Places
<1>13. CASE WriterWait(t)
  BY <1>13 DEF WriterWait, Go, TypeOK, Places
<1>14. CASE WriterReset(t)
  BY <1>14 DEF WriterReset, Go, TypeOK, Places
<1>15. CASE WriterDrain(t)
  BY <1>15 DEF WriterDrain, Go, TypeOK, Places
<1>16. CASE WriterLeave(t)
  BY <1>16, ThreadsAssumption DEF WriterLeave, Go, TypeOK, Places
<1>17. CASE UnlockWriter(t)
  BY <1>17 DEF UnlockWriter, Go, TypeOK, Places
<1> QED
  BY <1>p, <1>1, <1>2, <1>3, <1>4, <1>5, <1>6, <1>7, <1>8, <1>9, <1>10, <1>11,
     <1>12, <1>13, <1>14, <1>15, <1>16, <1>17
     DEF ReaderStep, WriterStep

(* The counter counts, and the event is never ahead of it.                 *)
LEMMA CountNext ==
    ASSUME IInv, [Next]_vars
    PROVE  CountInv'
<1> USE DEF IInv
<1>0. CASE UNCHANGED vars
  BY <1>0 DEF vars, CountInv, Counted, At, Inside
<1>s. SUFFICES ASSUME Next PROVE CountInv'
  BY <1>0
<1>p. PICK t \in Threads :
         LockReader(t) \/ LockWriter(t) \/ ReaderStep(t) \/ WriterStep(t)
  BY <1>s DEF Next
<1>1. CASE LockReader(t)
  <2>1. Counted' = Counted
    BY <1>1 DEF LockReader, Go, Counted, At, TypeOK
  <2> QED
    BY <1>1, <2>1 DEF LockReader, Go, TypeOK, CountInv, Inside
<1>2. CASE WaitWriter(t)
  <2>1. Counted' = Counted
    BY <1>2 DEF WaitWriter, Go, Counted, At, TypeOK
  <2> QED
    BY <1>2, <2>1 DEF WaitWriter, Go, TypeOK, CountInv, Inside
<1>3. CASE IncEnter(t)
  <2>1. Counted' = Counted
    BY <1>3 DEF IncEnter, Go, Counted, At, TypeOK
  <2> QED
    BY <1>3, <2>1 DEF IncEnter, Go, TypeOK, CountInv, Inside
<1>4. CASE IncCount(t)
  <2>1. Counted' = Counted \cup {t} /\ t \notin Counted
    BY <1>4 DEF IncCount, Go, Counted, At, TypeOK
  <2>2. m_nReaderCount' = Cardinality(Counted')
    BY <1>4, <2>1, CountedFinite, FS_AddElement DEF IncCount, CountInv
  <2>3. \A u \in Threads : pc'[u] # "dec_set"
    BY <1>4 DEF IncCount, Go, TypeOK
  <2>4. m_hNoReadersEvent' => \A u \in Threads : ~Inside(u)'
    BY <1>4 DEF IncCount, Go, TypeOK, CountInv, Inside
  <2> QED
    BY <2>2, <2>3, <2>4 DEF CountInv
<1>5. CASE IncReset(t)
  <2>1. Counted' = Counted
    BY <1>5 DEF IncReset, Go, Counted, At, TypeOK
  <2> QED
    BY <1>5, <2>1 DEF IncReset, Go, TypeOK, CountInv, Inside
<1>6. CASE Check(t)
  <2>1. Counted' = Counted
    BY <1>6 DEF Check, Go, Counted, At, TypeOK
  <2> QED
    BY <1>6, <2>1 DEF Check, Go, TypeOK, CountInv, Inside
<1>7. CASE UnlockReader(t)
  <2>1. Counted' = Counted
    BY <1>7 DEF UnlockReader, Go, Counted, At, TypeOK
  <2> QED
    BY <1>7, <2>1 DEF UnlockReader, Go, TypeOK, CountInv, Inside
<1>8. CASE DecEnter(t)
  <2>1. Counted' = Counted
    BY <1>8 DEF DecEnter, Go, Counted, At, TypeOK
  <2> QED
    BY <1>8, <2>1 DEF DecEnter, Go, TypeOK, CountInv, Inside
<1>9. CASE DecCount(t)
  <2>1. Counted' = Counted \ {t} /\ t \in Counted
    BY <1>9 DEF DecCount, Go, DecDone, Counted, At, TypeOK
  <2>2. m_nReaderCount' = Cardinality(Counted')
    BY <1>9, <2>1, CountedFinite, FS_RemoveElement DEF DecCount, CountInv
  <2>3. \A u \in Threads : pc'[u] = "dec_set" => m_nReaderCount' <= 0
    BY <1>9 DEF DecCount, Go, DecDone, TypeOK
  <2>4. m_hNoReadersEvent' => \A u \in Threads : ~Inside(u)'
    BY <1>9 DEF DecCount, Go, DecDone, TypeOK, CountInv, Inside
  <2> QED
    BY <2>2, <2>3, <2>4 DEF CountInv
<1>10. CASE DecSet(t)
  <2>1. Counted = {}
    BY <1>10, NobodyCounted DEF DecSet, Go, CountInv
  <2>2. Counted' = Counted
    BY <1>10 DEF DecSet, Go, DecDone, Counted, At, TypeOK
  <2>3. \A u \in Threads : ~Inside(u)'
    BY <1>10, <2>1, <2>2 DEF DecSet, Go, DecDone, TypeOK, Inside, Counted, At
  <2> QED
    BY <1>10, <2>2, <2>3 DEF DecSet, Go, DecDone, TypeOK, CountInv
<1>11. CASE LockWriter(t)
  <2>1. Counted' = Counted
    BY <1>11 DEF LockWriter, Go, Counted, At, TypeOK
  <2> QED
    BY <1>11, <2>1 DEF LockWriter, Go, TypeOK, CountInv, Inside
<1>12. CASE WriterEnter(t)
  <2>1. Counted' = Counted
    BY <1>12 DEF WriterEnter, Go, Counted, At, TypeOK
  <2> QED
    BY <1>12, <2>1 DEF WriterEnter, Go, TypeOK, CountInv, Inside
<1>13. CASE WriterWait(t)
  <2>1. Counted' = Counted
    BY <1>13 DEF WriterWait, Go, Counted, At, TypeOK
  <2> QED
    BY <1>13, <2>1 DEF WriterWait, Go, TypeOK, CountInv, Inside
<1>14. CASE WriterReset(t)
  <2>1. Counted' = Counted
    BY <1>14 DEF WriterReset, Go, Counted, At, TypeOK
  <2> QED
    BY <1>14, <2>1 DEF WriterReset, Go, TypeOK, CountInv, Inside
<1>15. CASE WriterDrain(t)
  <2>1. Counted' = Counted
    BY <1>15 DEF WriterDrain, Go, Counted, At, TypeOK
  <2> QED
    BY <1>15, <2>1 DEF WriterDrain, Go, TypeOK, CountInv, Inside
<1>16. CASE WriterLeave(t)
  <2>1. Counted' = Counted
    BY <1>16 DEF WriterLeave, Go, Counted, At, TypeOK
  <2> QED
    BY <1>16, <2>1 DEF WriterLeave, Go, TypeOK, CountInv, Inside
<1>17. CASE UnlockWriter(t)
  <2>1. Counted' = Counted
    BY <1>17 DEF UnlockWriter, Go, Counted, At, TypeOK
  <2> QED
    BY <1>17, <2>1 DEF UnlockWriter, Go, TypeOK, CountInv, Inside
<1> QED
  BY <1>p, <1>1, <1>2, <1>3, <1>4, <1>5, <1>6, <1>7, <1>8, <1>9, <1>10, <1>11,
     <1>12, <1>13, <1>14, <1>15, <1>16, <1>17
     DEF ReaderStep, WriterStep

(* One thread at a time closes the lock, and reading ends before writing.  *)
LEMMA WriterNext ==
    ASSUME IInv, [Next]_vars
    PROVE  WriterInv'
<1> USE DEF IInv
<1>0. CASE UNCHANGED vars
  BY <1>0 DEF vars, WriterInv, Closing, TypeOK, CountInv, Inside
<1>s. SUFFICES ASSUME Next PROVE WriterInv'
  BY <1>0
<1>p. PICK t \in Threads :
         LockReader(t) \/ LockWriter(t) \/ ReaderStep(t) \/ WriterStep(t)
  BY <1>s DEF Next
<1>1. CASE LockReader(t)
  BY <1>1 DEF LockReader, Go, WriterInv, Closing, TypeOK, CountInv, Inside
<1>2. CASE WaitWriter(t)
  BY <1>2 DEF WaitWriter, Go, WriterInv, Closing, TypeOK, CountInv, Inside
<1>3. CASE IncEnter(t)
  BY <1>3 DEF IncEnter, Go, WriterInv, Closing, TypeOK, CountInv, Inside
<1>4. CASE IncCount(t)
  BY <1>4 DEF IncCount, Go, WriterInv, Closing, TypeOK, CountInv, Inside
<1>5. CASE IncReset(t)
  BY <1>5 DEF IncReset, Go, WriterInv, Closing, TypeOK, CountInv, Inside
<1>6. CASE Check(t)
  BY <1>6 DEF Check, Go, WriterInv, Closing, TypeOK, CountInv, Inside
<1>7. CASE UnlockReader(t)
  BY <1>7 DEF UnlockReader, Go, WriterInv, Closing, TypeOK, CountInv, Inside
<1>8. CASE DecEnter(t)
  BY <1>8 DEF DecEnter, Go, WriterInv, Closing, TypeOK, CountInv, Inside
<1>9. CASE DecCount(t)
  BY <1>9 DEF DecCount, Go, DecDone, WriterInv, Closing, TypeOK, CountInv,
     Inside
<1>10. CASE DecSet(t)
  BY <1>10 DEF DecSet, Go, DecDone, WriterInv, Closing, TypeOK, CountInv,
     Inside
<1>11. CASE LockWriter(t)
  BY <1>11 DEF LockWriter, Go, WriterInv, Closing, TypeOK, CountInv, Inside
<1>12. CASE WriterEnter(t)
  BY <1>12 DEF WriterEnter, Go, WriterInv, Closing, TypeOK, CountInv, Inside
<1>13. CASE WriterWait(t)
  BY <1>13 DEF WriterWait, Go, WriterInv, Closing, TypeOK, CountInv, Inside
<1>14. CASE WriterReset(t)
  BY <1>14 DEF WriterReset, Go, WriterInv, Closing, TypeOK, CountInv, Inside
<1>15. CASE WriterDrain(t)
  BY <1>15 DEF WriterDrain, Go, WriterInv, Closing, TypeOK, CountInv, Inside
<1>16. CASE WriterLeave(t)
  BY <1>16 DEF WriterLeave, Go, WriterInv, Closing, TypeOK, CountInv, Inside
<1>17. CASE UnlockWriter(t)
  BY <1>17 DEF UnlockWriter, Go, WriterInv, Closing, TypeOK, CountInv, Inside
<1> QED
  BY <1>p, <1>1, <1>2, <1>3, <1>4, <1>5, <1>6, <1>7, <1>8, <1>9, <1>10, <1>11,
     <1>12, <1>13, <1>14, <1>15, <1>16, <1>17
     DEF ReaderStep, WriterStep

(* A step lets a thread in or out of the shared lock, or leaves it alone.   *)
LEMMA LockStep ==
    ASSUME IInv, [Next]_vars
    PROVE  [Lock!LockNext]_Lock!lockVars
<1> USE DEF IInv
<1> DEFINE Reading == At({"reading"})
           Writing == At({"writing"})
<1>0. CASE UNCHANGED vars
  BY <1>0 DEF vars, At, Lock!lockVars
<1>s. SUFFICES ASSUME Next PROVE [Lock!LockNext]_Lock!lockVars
  BY <1>0
<1>p. PICK t \in Threads :
         LockReader(t) \/ LockWriter(t) \/ ReaderStep(t) \/ WriterStep(t)
  BY <1>s DEF Next
<1>1. CASE LockReader(t)
  BY <1>1 DEF LockReader, Go, At, TypeOK, Lock!lockVars
<1>2. CASE WaitWriter(t)
  BY <1>2 DEF WaitWriter, Go, At, TypeOK, Lock!lockVars
<1>3. CASE IncEnter(t)
  BY <1>3 DEF IncEnter, Go, At, TypeOK, Lock!lockVars
<1>4. CASE IncCount(t)
  BY <1>4 DEF IncCount, Go, At, TypeOK, Lock!lockVars
<1>5. CASE IncReset(t)
  BY <1>5 DEF IncReset, Go, At, TypeOK, Lock!lockVars
<1>6. CASE Check(t)
  <2>1. CASE pc'[t] = "reading"
    <3>1. Writing = {} /\ t \notin Reading
      BY <1>6, <2>1 DEF Check, Go, WriterInv, Closing, At, TypeOK
    <3>2. Reading' = Reading \cup {t} /\ Writing' = Writing
      BY <1>6, <2>1 DEF Check, Go, At, TypeOK
    <3> QED
      BY <3>1, <3>2 DEF Lock!LockNext, Lock!AcquireRead
  <2>2. CASE pc'[t] # "reading"
    BY <1>6, <2>2 DEF Check, Go, At, TypeOK, Lock!lockVars
  <2> QED
    BY <2>1, <2>2
<1>7. CASE UnlockReader(t)
  <2>1. /\ t \in Reading /\ Reading' = Reading \ {t}
        /\ Writing' = Writing
    BY <1>7 DEF UnlockReader, Go, At, TypeOK
  <2> QED
    BY <2>1 DEF Lock!LockNext, Lock!ReleaseRead
<1>8. CASE DecEnter(t)
  BY <1>8 DEF DecEnter, Go, At, TypeOK, Lock!lockVars
<1>9. CASE DecCount(t)
  BY <1>9 DEF DecCount, Go, DecDone, At, TypeOK, Lock!lockVars
<1>10. CASE DecSet(t)
  BY <1>10 DEF DecSet, Go, DecDone, At, TypeOK, Lock!lockVars
<1>11. CASE LockWriter(t)
  BY <1>11 DEF LockWriter, Go, At, TypeOK, Lock!lockVars
<1>12. CASE WriterEnter(t)
  BY <1>12 DEF WriterEnter, Go, At, TypeOK, Lock!lockVars
<1>13. CASE WriterWait(t)
  BY <1>13 DEF WriterWait, Go, At, TypeOK, Lock!lockVars
<1>14. CASE WriterReset(t)
  BY <1>14 DEF WriterReset, Go, At, TypeOK, Lock!lockVars
<1>15. CASE WriterDrain(t)
  BY <1>15 DEF WriterDrain, Go, At, TypeOK, Lock!lockVars
<1>16. CASE WriterLeave(t)
  <2>1. Writing = {} /\ Reading = {}
    BY <1>16 DEF WriterLeave, Go, WriterInv, Closing, At, TypeOK
  <2>2. Writing' = {t} /\ Reading' = Reading
    BY <1>16, <2>1 DEF WriterLeave, Go, At, TypeOK
  <2> QED
    BY <2>1, <2>2 DEF Lock!LockNext, Lock!AcquireWrite
<1>17. CASE UnlockWriter(t)
  <2>1. /\ t \in Writing /\ Writing' = Writing \ {t}
        /\ Reading' = Reading
    BY <1>17 DEF UnlockWriter, Go, At, TypeOK
  <2> QED
    BY <2>1 DEF Lock!LockNext, Lock!ReleaseWrite
<1> QED
  BY <1>p, <1>1, <1>2, <1>3, <1>4, <1>5, <1>6, <1>7, <1>8, <1>9, <1>10, <1>11,
     <1>12, <1>13, <1>14, <1>15, <1>16, <1>17
     DEF ReaderStep, WriterStep

-----------------------------------------------------------------------------
LEMMA Inductive == Spec => []IInv
<1>1. IInv /\ [Next]_vars => IInv'
  BY TypeNext, CountNext, WriterNext DEF IInv
<1> QED
  BY InitInv, <1>1, PTL DEF Spec

(* Each critical section is held by the thread that is inside it, and by   *)
(* nobody else.                                                            *)
THEOREM TypeCorrect == Spec => []TypeOK
<1>1. IInv => TypeOK
  BY DEF IInv
<1> QED
  BY Inductive, <1>1, PTL

(* CReadWriteLock lets a writer in alone: no second writer, no reader.     *)
THEOREM MutualExclusion == Spec => []Exclusion
<1>1. IInv => Exclusion
  BY DEF IInv, WriterInv, Closing, Exclusion
<1> QED
  BY Inductive, <1>1, PTL

(* CReadWriteLock implements the ideal lock: the readers are the threads   *)
(* between LockReader and UnlockReader, the writer the one between         *)
(* LockWriter and UnlockWriter.                                            *)
THEOREM Refinement == Spec => ImplementsLock
<1>1. Init => Lock!LockInit
  BY DEF Init, Lock!LockInit, At
<1> QED
  BY Inductive, LockStep, <1>1, PTL DEF Spec, ImplementsLock, Lock!LockSpec
=============================================================================

-------------------------- MODULE FilterEvalProofs --------------------------
(***************************************************************************)
(* The two loops of filter_action_log compute the filter: for every set of *)
(* conditions and every length of the filter, unless a condition is on a   *)
(* duration, whose verdict changes when another condition truncates the    *)
(* time of the event.                                                      *)
(***************************************************************************)
EXTENDS FilterEval, TLAPS

NoDurations == \A info \in Conditions : info.cond # "FLT_DURATION"

(* A filter is a sequence of conditions.                                   *)
LEMMA FiltersAreSequences ==
    ASSUME NEW infos \in Filters
    PROVE  infos \in Seq(Conditions) /\ DOMAIN infos = 1 .. Len(infos)
<1>1. PICK n \in 0 .. MaxConditions : infos \in [1 .. n -> Conditions]
  BY DEF Filters
<1>2. n \in Nat
  BY <1>1, MaxConditionsAssumption
<1> QED
  BY <1>1, <1>2

(* Truncating the time of an event twice is truncating it once.            *)
LEMMA TruncatedTwice ==
    ASSUME NEW event \in Events
    PROVE  Truncated(Truncated(event)) = Truncated(event)
  BY EventsAssumption DEF Truncated

(* No condition but one on a duration sees the difference.                 *)
LEMMA TruncationUnseen ==
    ASSUME NoDurations, NEW event \in Events, NEW info \in Conditions
    PROVE  filter_action(info, Truncated(event)) = filter_action(info, event)
<1>1. /\ Truncated(event).number = event.number
      /\ Truncated(event).text = event.text
      /\ Truncated(event).version = event.version
      /\ Truncated(event).lacks = event.lacks
      /\ Truncated(event).time.sec = event.time.sec
  BY EventsAssumption DEF Truncated
<1>2. info.cond # "FLT_DURATION"
  BY DEF NoDurations
<1> QED
  BY <1>1, <1>2 DEF filter_action, Matches, UlongOf

(* What asking a condition gives, and what it leaves of the event.         *)
LEMMA AskingTyped ==
    ASSUME TypeOK, NEW info, Ask(info)
    PROVE  stored' \in {arrived, Truncated(arrived)} /\ result' \in Results
<1>1. stored' \in {arrived, Truncated(arrived)}
  BY TruncatedTwice DEF TypeOK, Ask, AfterFilterAction
<1>2. result' \in Results
  BY DEF Ask, filter_action, Results
<1> QED
  BY <1>1, <1>2

LEMMA Asking ==
    ASSUME NoDurations, TypeOK, NEW info \in Conditions, Ask(info)
    PROVE  result' = filter_action(info, arrived)
  BY TruncationUnseen DEF TypeOK, Ask

-----------------------------------------------------------------------------
(* The types hold whatever the conditions are.                             *)
LEMMA InitTyped == Init => TypeOK
<1> SUFFICES ASSUME Init PROVE TypeOK
  OBVIOUS
<1>1. filter_infos \in Seq(Conditions) /\ Len(filter_infos) \in Nat
  BY FiltersAreSequences DEF Init
<1>2. i \in 1 .. Len(filter_infos) + 1
  BY <1>1 DEF Init
<1> QED
  BY <1>1, <1>2 DEF Init, TypeOK, Results

LEMMA NextTyped ==
    ASSUME TypeOK, [Next]_vars
    PROVE  TypeOK'
<1>len. Len(filter_infos) \in Nat /\ i \in Nat /\ i >= 1
        /\ i <= Len(filter_infos) + 1
  BY DEF TypeOK
<1>1. CASE PassInclude
  BY <1>1, <1>len DEF PassInclude, Pass, TypeOK
<1>2. CASE Include
  <2>1. stored' \in {arrived, Truncated(arrived)} /\ result' \in Results
    BY <1>2, AskingTyped DEF Include
  <2> QED
    BY <1>2, <2>1, <1>len DEF Include, TypeOK
<1>3. CASE SkipExcludes
  BY <1>3, <1>len DEF SkipExcludes, IncludesAsked, TypeOK
<1>4. CASE BeginExcludes
  BY <1>4, <1>len DEF BeginExcludes, IncludesAsked, TypeOK, Results
<1>5. CASE PassExclude
  BY <1>5, <1>len DEF PassExclude, LeaveExcludes, TypeOK
<1>6. CASE Exclude
  <2>1. stored' \in {arrived, Truncated(arrived)} /\ result' \in Results
    BY <1>6, AskingTyped DEF Exclude
  <2> QED
    BY <1>6, <2>1, <1>len DEF Exclude, LeaveExcludes, TypeOK
<1>7. CASE ExcludesAsked
  BY <1>7, <1>len DEF ExcludesAsked, TypeOK
<1>8. CASE Refilter
  <2>1. filter_infos' \in Seq(Conditions) /\ Len(filter_infos') \in Nat
    BY <1>8, FiltersAreSequences DEF Refilter
  <2>2. i' \in 1 .. Len(filter_infos') + 1
    BY <1>8, <2>1 DEF Refilter, Enter
  <2> QED
    BY <1>8, <2>1, <2>2 DEF Refilter, Enter, TypeOK, Results
<1>9. CASE UNCHANGED vars
  BY <1>9 DEF vars, TypeOK, Results
<1> QED
  BY <1>1, <1>2, <1>3, <1>4, <1>5, <1>6, <1>7, <1>8, <1>9 DEF Next

(* The loops never run past the end of the vector, and judging an event    *)
(* any number of times leaves it as it arrived or with its ticks cut off,  *)
(* conditions on durations included.                                       *)
THEOREM TypeCorrect == Spec => []TypeOK
  BY InitTyped, NextTyped, PTL DEF Spec

-----------------------------------------------------------------------------
Included(k) == filter_infos[k].filter_mode = "FLT_INCLUDE"
Excluded(k) == filter_infos[k].filter_mode = "FLT_EXCLUDE"
Says(k) == filter_action(filter_infos[k], arrived)

(* What the inclusions before place n say.                                 *)
IncludesHold(n) ==
    \A k \in 1 .. n - 1 : Included(k) => Says(k) # "ERROR_NOT_FOUND"

Secondary(n) ==
    \E k \in 1 .. n - 1 :
        Included(k) /\ filter_infos[k].cond # "FLT_MAIN_TYPE"

ExcludesFail(n) ==
    \A k \in 1 .. n - 1 : Excluded(k) => Says(k) = "ERROR_NOT_FOUND"

Last == Len(filter_infos) + 1

(* The loops, each as the statement about the places it has gone through.  *)
LoopInv ==
    /\ pc = "include" =>
          /\ ret = "ERROR_SUCCESS" <=> IncludesHold(i)
          /\ exclude_secondary_cond <=> Secondary(i)
    /\ pc = "exclude" =>
          /\ ret = "ERROR_SUCCESS" /\ result = "ERROR_NOT_FOUND"
          /\ IncludesHold(Last) /\ ~Secondary(Last)
          /\ ExcludesFail(i)
    /\ pc = "done" =>
          (ret = "ERROR_SUCCESS" <=>
             IncludesHold(Last) /\ (Secondary(Last) \/ ExcludesFail(Last)))

IInv == TypeOK /\ LoopInv

(* The statement by place is the statement by condition.                   *)
LEMMA VerdictOfLoops == IInv => VerdictIsFilter
<1> SUFFICES ASSUME IInv PROVE VerdictIsFilter
  OBVIOUS
<1>1. DOMAIN filter_infos = 1 .. Last - 1 /\ Last - 1 = Len(filter_infos)
  BY DEF IInv, TypeOK, Last
<1>2. IncludesHold(Last) <=>
        \A info \in Inclusions(InForce) :
            filter_action(info, arrived) # "ERROR_NOT_FOUND"
  BY <1>1 DEF IncludesHold, Included, Says, Inclusions, InForce
<1>3. Secondary(Last) <=> HasSecondary(InForce)
  BY <1>1 DEF Secondary, Included, HasSecondary, Inclusions, InForce
<1>4. ExcludesFail(Last) <=>
        \A info \in Exclusions(InForce) :
            filter_action(info, arrived) = "ERROR_NOT_FOUND"
  BY <1>1 DEF ExcludesFail, Excluded, Says, Exclusions, InForce
<1> QED
  BY <1>2, <1>3, <1>4 DEF IInv, LoopInv, VerdictIsFilter, Passes

LEMMA InitInv == Init => IInv
<1> SUFFICES ASSUME Init PROVE IInv
  OBVIOUS
<1>1. IncludesHold(1) /\ ~Secondary(1)
  BY DEF IncludesHold, Secondary
<1> QED
  BY <1>1, InitTyped DEF IInv, LoopInv, Init

(* An iteration that keeps the filter and the event as it arrived adds one *)
(* place to what the loop has gone through.                                *)
LEMMA OneMore ==
    ASSUME TypeOK, i <= Len(filter_infos)
    PROVE  /\ IncludesHold(i + 1) <=>
                IncludesHold(i) /\ (Included(i) => Says(i) # "ERROR_NOT_FOUND")
           /\ Secondary(i + 1) <=>
                \/ Secondary(i)
                \/ Included(i) /\ filter_infos[i].cond # "FLT_MAIN_TYPE"
           /\ ExcludesFail(i + 1) <=>
                ExcludesFail(i) /\ (Excluded(i) => Says(i) = "ERROR_NOT_FOUND")
<1>1. i \in Nat /\ 1 .. (i + 1) - 1 = (1 .. i - 1) \cup {i}
  BY DEF TypeOK
<1>2. IncludesHold(i + 1) <=>
        IncludesHold(i) /\ (Included(i) => Says(i) # "ERROR_NOT_FOUND")
  BY <1>1 DEF IncludesHold
<1>3. Secondary(i + 1) <=>
        \/ Secondary(i)
        \/ Included(i) /\ filter_infos[i].cond # "FLT_MAIN_TYPE"
  BY <1>1 DEF Secondary
<1>4. ExcludesFail(i + 1) <=>
        ExcludesFail(i) /\ (Excluded(i) => Says(i) = "ERROR_NOT_FOUND")
  BY <1>1 DEF ExcludesFail
<1> QED
  BY <1>2, <1>3, <1>4

LEMMA LoopNext ==
    ASSUME NoDurations, IInv, [Next]_vars
    PROVE  LoopInv'
<1> USE DEF IInv
<1>len. Len(filter_infos) \in Nat /\ i \in Nat /\ i >= 1
        /\ i <= Len(filter_infos) + 1
  BY DEF TypeOK
<1>cond. ASSUME i <= Len(filter_infos) PROVE filter_infos[i] \in Conditions
  BY <1>len, <1>cond DEF TypeOK
<1>1. CASE PassInclude
  BY <1>1, OneMore DEF PassInclude, Pass, LoopInv, IncludesHold, Secondary,
     Included, Says
<1>2. CASE Include
  <2>1. result' = filter_action(filter_infos[i], arrived)
    BY <1>2, <1>cond, Asking DEF Include
  <2> QED
    BY <1>2, <2>1, OneMore DEF Include, LoopInv, IncludesHold, Secondary,
       Included, Says, TypeOK
<1>3. CASE SkipExcludes
  <2>1. i = Last
    BY <1>3, <1>len DEF SkipExcludes, IncludesAsked, Last
  <2> QED
    BY <1>3, <2>1 DEF SkipExcludes, IncludesAsked, LoopInv, IncludesHold,
       Secondary, ExcludesFail, Included, Excluded, Says, Last
<1>4. CASE BeginExcludes
  <2>1. i = Last
    BY <1>4, <1>len DEF BeginExcludes, IncludesAsked, Last
  <2> QED
    BY <1>4, <2>1 DEF BeginExcludes, IncludesAsked, LoopInv, IncludesHold,
       Secondary, ExcludesFail, Included, Excluded, Says, Last
<1>5. CASE PassExclude
  BY <1>5, OneMore DEF PassExclude, LeaveExcludes, LoopInv, IncludesHold,
     Secondary, ExcludesFail, Included, Excluded, Says, Last
<1>6. CASE Exclude
  <2>1. result' = filter_action(filter_infos[i], arrived)
    BY <1>6, <1>cond, Asking DEF Exclude
  <2>3. /\ pc = "exclude" /\ i <= Len(filter_infos) /\ Excluded(i)
        /\ ret = "ERROR_SUCCESS" /\ IncludesHold(Last) /\ ~Secondary(Last)
        /\ ExcludesFail(i)
    BY <1>6 DEF Exclude, LoopInv, Excluded
  <2>4. /\ filter_infos' = filter_infos /\ arrived' = arrived
        /\ Last' = Last /\ IncludesHold(Last)' /\ ~Secondary(Last)'
    BY <1>6, <2>3 DEF Exclude, IncludesHold, Secondary, Included, Says, Last
  <2>5. CASE result' = "ERROR_NOT_FOUND"
    <3>1. pc' = "exclude" /\ ret' = "ERROR_SUCCESS" /\ i' = i + 1
      BY <1>6, <2>3, <2>5 DEF Exclude, LeaveExcludes
    <3>2. ExcludesFail(i + 1)
      BY <2>1, <2>3, <2>5, OneMore DEF Says
    <3>3. ExcludesFail(i)'
      BY <2>4, <3>1, <3>2 DEF ExcludesFail, Excluded, Says
    <3> QED
      BY <2>4, <2>5, <3>1, <3>3 DEF LoopInv
  <2>6. CASE result' # "ERROR_NOT_FOUND"
    <3>1. pc' = "done" /\ ret' = "ERROR_INVALID_PARAMETER"
      BY <1>6, <2>6 DEF Exclude, LeaveExcludes
    <3>2. i \in 1 .. Last - 1 /\ Excluded(i) /\ Says(i) # "ERROR_NOT_FOUND"
      BY <2>1, <2>3, <2>6, <1>len DEF Says, Last
    <3>3. ~ExcludesFail(Last)'
      BY <2>4, <3>2 DEF ExcludesFail, Excluded, Says
    <3> QED
      BY <2>4, <3>1, <3>3 DEF LoopInv
  <2> QED
    BY <2>5, <2>6
<1>7. CASE ExcludesAsked
  <2>1. i = Last
    BY <1>7, <1>len DEF ExcludesAsked, Last
  <2> QED
    BY <1>7, <2>1 DEF ExcludesAsked, LoopInv, IncludesHold, Secondary,
       ExcludesFail, Included, Excluded, Says, Last
<1>8. CASE Refilter
  BY <1>8 DEF Refilter, Enter, LoopInv, IncludesHold, Secondary
<1>9. CASE UNCHANGED vars
  BY <1>9 DEF vars, LoopInv, IncludesHold, Secondary, ExcludesFail,
     Included, Excluded, Says, Last
<1> QED
  BY <1>1, <1>2, <1>3, <1>4, <1>5, <1>6, <1>7, <1>8, <1>9 DEF Next

-----------------------------------------------------------------------------
(* filter_action_log lets an event through exactly when the conditions in  *)
(* force say so, whatever their order and however often it was judged.     *)
THEOREM LoopsComputeFilter ==
    ASSUME NoDurations
    PROVE  Spec => []VerdictIsFilter
<1>1. IInv /\ [Next]_vars => IInv'
  BY NextTyped, LoopNext DEF IInv
<1>2. Spec => []IInv
  BY InitInv, <1>1, PTL DEF Spec
<1>3. IInv => VerdictIsFilter
  BY VerdictOfLoops
<1> QED
  BY <1>2, <1>3, PTL
=============================================================================

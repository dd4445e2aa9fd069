-------------------------- MODULE EventStoreProofs --------------------------
(***************************************************************************)
(* Theorems about EventStore, for any number of events, any filters, any   *)
(* commands of the user and any reallocation of the vector.                *)
(***************************************************************************)
EXTENDS EventStore, TLAPS

(* The loop index is within the store whenever filter_all_events reads it. *)
ScanInStore ==
    /\ upc = "scan" => scan >= 1
    /\ upc = "read" => scan \in 1..Len(all_actions)

(* The receiver owns the buffer of an event until it has stored it.        *)
Holding == {"try_filter", "filter", "drop", "enter_store", "push_store"}

ActionTaken == rpc \in Holding => action \in Events

TypeInv == TypeOK /\ ScanInStore /\ ActionTaken

(* The receiver's steps preserve the types.                                *)
LEMMA ReceiverTyped == TypeInv /\ Receiver => TypeInv'
<1> SUFFICES ASSUME TypeInv, Receiver PROVE TypeInv'
  OBVIOUS
<1> USE MaxEventsAssumption, NoOneAssumption, ThresholdAssumption
    DEF TypeInv, TypeOK, ScanInStore, ActionTaken, Holding, Locks, NoEvent,
        storeVars, modeVars, noteVars, recvLocals, recvVars, uiLocals, uiVars, Free,
        Enter, Leave
<1>1. CASE RecvLoop BY <1>1 DEF RecvLoop
<1>2. CASE RecvIgnore BY <1>2 DEF RecvIgnore
<1>3. CASE RecvEvent
  <2>1. delivered + 1 \in Events /\ delivered + 1 \in 0..MaxEvents
    BY <1>3, SMT DEF RecvEvent, Events
  <2>2. QED BY <1>3, <2>1 DEF RecvEvent
<1>4. CASE RecvCopyFailed
  <2>1. delivered' \in 0..MaxEvents
    BY <1>4, SMT DEF RecvCopyFailed
  <2>2. state' \in BOOLEAN
    BY <1>4 DEF RecvCopyFailed
  <2>3. QED BY <1>4, <2>1, <2>2 DEF RecvCopyFailed
<1>5. CASE RecvTryFilter BY <1>5 DEF RecvTryFilter
<1>6. CASE RecvFilterBusy BY <1>6 DEF RecvFilterBusy
<1>7. CASE RecvFilter BY <1>7 DEF RecvFilter
<1>8. CASE RecvDrop BY <1>8 DEF RecvDrop
<1>9. CASE RecvKeep BY <1>9 DEF RecvKeep
<1>10. CASE RecvEnterStore BY <1>10 DEF RecvEnterStore
<1>11. CASE RecvPushStore BY <1>11 DEF RecvPushStore
<1>12. CASE RecvStoreFailed BY <1>12 DEF RecvStoreFailed
<1>13. CASE RecvStored BY <1>13 DEF RecvStored
<1>14. CASE RecvEnterTip BY <1>14 DEF RecvEnterTip
<1>15. CASE RecvLeaveTip BY <1>15 DEF RecvLeaveTip
<1>16. CASE RecvEnterView BY <1>16 DEF RecvEnterView
<1>17. CASE RecvPushView
  <2> DEFINE whole == Append(view_read, action)
  <2>1. whole \in Seq(Events \cup {NoEvent}) /\ Len(whole) = Len(view_read) + 1
    OBVIOUS
  <2>2. \A n \in 0..Len(view_read) + 1 :
           SubSeq(whole, 1, n) \in Seq(Events \cup {NoEvent})
    BY <2>1
  <2>3. all_filtered_actions' \in Seq(Events \cup {NoEvent})
    BY <1>17, <2>1, <2>2 DEF RecvPushView
  <2>4. QED BY <1>17, <2>3 DEF RecvPushView
<1>18. CASE RecvCheckView BY <1>18 DEF RecvCheckView
<1>19. CASE RecvReadCount BY <1>19 DEF RecvReadCount
<1>20. CASE RecvWriteCount BY <1>20 DEF RecvWriteCount
<1>21. CASE RecvPost BY <1>21 DEF RecvPost
<1>22. CASE RecvZeroCount BY <1>22 DEF RecvZeroCount
<1>23. CASE RecvNoPost BY <1>23 DEF RecvNoPost
<1>24. QED
  BY <1>1, <1>2, <1>3, <1>4, <1>5, <1>6, <1>7, <1>8, <1>9, <1>10, <1>11,
     <1>12, <1>13, <1>14, <1>15, <1>16, <1>17, <1>18, <1>19, <1>20, <1>21,
     <1>22, <1>23 DEF Receiver, RecvStep

(* So do the UI thread's.                                                  *)
LEMMA UITyped == TypeInv /\ (UserCommand \/ UIStep) => TypeInv'
<1> SUFFICES ASSUME TypeInv, UserCommand \/ UIStep PROVE TypeInv'
  OBVIOUS
<1> USE NoOneAssumption
    DEF TypeInv, TypeOK, ScanInStore, ActionTaken, Holding, Locks, NoEvent,
        storeVars, modeVars, noteVars, recvLocals, recvVars, uiLocals, uiVars,
        Free, Enter, Leave, Command
<1>1. CASE UISwitch BY <1>1 DEF UISwitch
<1>2. CASE UIDrop BY <1>2 DEF UIDrop
<1>3. CASE UIEdit BY <1>3 DEF UIEdit
<1>4. CASE UIEdited \/ UIResetDone
  BY <1>4, FiltersAssumption DEF UIEdited, UIResetDone
<1>5. CASE UIReset BY <1>5 DEF UIReset
<1>6. CASE UIRefilter BY <1>6 DEF UIRefilter
<1>7. CASE RefilterEnterTip BY <1>7 DEF RefilterEnterTip, EnterTip
<1>8. CASE RefilterStopTrace BY <1>8 DEF RefilterStopTrace, ZeroCount
<1>9. CASE RefilterClearView BY <1>9 DEF RefilterClearView
<1>10. CASE RefilterBegin BY <1>10 DEF RefilterBegin
<1>11. CASE RefilterBound BY <1>11 DEF RefilterBound
<1>12. CASE RefilterRead BY <1>12 DEF RefilterRead
<1>13. CASE RefilterTryFilter BY <1>13 DEF RefilterTryFilter
<1>14. CASE RefilterFilterBusy BY <1>14 DEF RefilterFilterBusy
<1>15. CASE RefilterMatch BY <1>15 DEF RefilterMatch
<1>16. CASE RefilterSkip BY <1>16 DEF RefilterSkip
<1>17. CASE RefilterPush BY <1>17 DEF RefilterPush
<1>18. CASE RefilterLeaveTip
  <2>1. filtering_event' \in BOOLEAN
    BY <1>18 DEF RefilterLeaveTip, LeaveTip
  <2>2. owner' \in [Locks -> {"receiver", "ui", NoOne}]
    BY <1>18 DEF RefilterLeaveTip, LeaveTip
  <2>3. QED BY <1>18, <2>1, <2>2 DEF RefilterLeaveTip, LeaveTip
<1>19. CASE RefilterGetCount BY <1>19 DEF RefilterGetCount
<1>20. CASE SetItemRealCount BY <1>20 DEF SetItemRealCount
<1>21. CASE UIRefreshed BY <1>21 DEF UIRefreshed
<1>22. CASE UIClear BY <1>22 DEF UIClear
<1>23. CASE ClearEnterTip BY <1>23 DEF ClearEnterTip, EnterTip
<1>24. CASE ClearStopTrace BY <1>24 DEF ClearStopTrace, ZeroCount
<1>25. CASE ClearAllView BY <1>25 DEF ClearAllView, ClearView
<1>26. CASE ClearAllStore BY <1>26 DEF ClearAllStore, ClearStore
<1>27. CASE ClearLeaveTip
  <2>1. filtering_event' \in BOOLEAN
    BY <1>27 DEF ClearLeaveTip, LeaveTip
  <2>2. owner' \in [Locks -> {"receiver", "ui", NoOne}]
    BY <1>27 DEF ClearLeaveTip, LeaveTip
  <2>3. QED BY <1>27, <2>1, <2>2 DEF ClearLeaveTip, LeaveTip
<1>28. CASE ClearZeroList BY <1>28 DEF ClearZeroList
<1>29. CASE SaveStart BY <1>29 DEF SaveStart, UISave
<1>30. CASE SaveEnd BY <1>30 DEF SaveEnd, UISaved
<1>31. CASE OnItemAdded BY <1>31 DEF OnItemAdded
<1>32. CASE ItemsFilled BY <1>32 DEF ItemsFilled
<1>33. CASE UIExit BY <1>33 DEF UIExit
<1>34. CASE ExitJoined BY <1>34 DEF ExitJoined
<1>35. CASE ExitTerminate BY <1>35 DEF ExitTerminate
<1>36. CASE ExitReleaseFilters BY <1>36 DEF ExitReleaseFilters, Events
<1>37. CASE ExitClearView BY <1>37 DEF ExitClearView, ClearView
<1>38. CASE ExitClearStore BY <1>38 DEF ExitClearStore, ClearStore
<1>39. QED
  BY <1>1, <1>2, <1>3, <1>4, <1>5, <1>6, <1>7, <1>8, <1>9, <1>10, <1>11, <1>12, <1>13, <1>14, <1>15, <1>16, <1>17, <1>18, <1>19, <1>20, <1>21, <1>22, <1>23, <1>24, <1>25, <1>26, <1>27, <1>28, <1>29, <1>30, <1>31, <1>32, <1>33, <1>34, <1>35, <1>36, <1>37, <1>38
     DEF UserCommand, UIStep, Refilter, Clear, Exit

LEMMA InitTyped == Init => TypeInv
<1> SUFFICES ASSUME Init PROVE TypeInv
  OBVIOUS
<1> USE DEF Init, NoEvent
<1>1. filter_infos \subseteq Events /\ live \subseteq Events
  BY FiltersAssumption
<1>2. 0 \in 0..MaxEvents
  BY MaxEventsAssumption
<1>3. owner \in [Locks -> {"receiver", "ui", NoOne}]
  OBVIOUS
<1>4. /\ {event_filtering_flags, process_log_sw, filtering_event} \subseteq BOOLEAN
      /\ {event_filtered, state, stop_run} \subseteq BOOLEAN
  OBVIOUS
<1>5. /\ {all_filtered_actions, view_read} \subseteq Seq(Events \cup {NoEvent})
      /\ all_actions \in Seq(Events) /\ ui_messages \in Seq(Nat)
  OBVIOUS
<1>6. TypeOK
  BY <1>1, <1>2, <1>3, <1>4, <1>5 DEF TypeOK
<1>7. ScanInStore /\ ActionTaken
  BY DEF ScanInStore, ActionTaken, Holding
<1>8. QED BY <1>6, <1>7 DEF TypeInv

LEMMA StutterTyped == TypeInv /\ UNCHANGED vars => TypeInv'
BY DEF TypeInv, TypeOK, ScanInStore, ActionTaken, vars, storeVars, modeVars,
       noteVars, recvLocals, recvVars, uiLocals, uiVars

LEMMA TypeInvariant == Spec => []TypeInv
<1>1. TypeInv /\ [Next]_vars => TypeInv'
  BY ReceiverTyped, UITyped, StutterTyped DEF Next
<1>2. QED BY <1>1, InitTyped, PTL DEF Spec

(* Every variable keeps its type, whatever the user does.                  *)
THEOREM TypeCorrect == Spec => []TypeOK
<1>1. TypeInv => TypeOK
  BY DEF TypeInv
<1>2. QED BY <1>1, TypeInvariant, PTL

(* filter_all_events never reads past the end of all_actions, although it  *)
(* reads after it released the lock under which it tested the bound.       *)
THEOREM ScanSafe == Spec => []ScanInStore
<1>1. TypeInv => ScanInStore
  BY DEF TypeInv
<1>2. QED BY <1>1, TypeInvariant, PTL

-----------------------------------------------------------------------------
(* Buffers: the receiver owns the event it has not stored yet, and a size  *)
(* check that fails after the push was a clear's doing, so that what it    *)
(* frees is no longer stored.                                              *)
BufferInv ==
    /\ live \subseteq 1..delivered
    /\ Elements(all_actions) \subseteq live
    /\ rpc \in Holding =>
          action = delivered /\ action \in live \ Elements(all_actions)
    /\ rpc = "check_store" => all_actions = <<>> \/ ~PushFailed

LEMMA ElementsAppend ==
    ASSUME NEW S, NEW seq \in Seq(S), NEW e \in S
    PROVE  Elements(Append(seq, e)) = Elements(seq) \cup {e}
<1>1. DOMAIN Append(seq, e) = DOMAIN seq \cup {Len(seq) + 1}
  OBVIOUS
<1>2. QED BY <1>1 DEF Elements

LEMMA ElementsEmpty == Elements(<<>>) = {}
BY DEF Elements

(* A step that leaves the store, the buffers and the receiver alone.       *)
LEMMA BufferFrame ==
    ASSUME BufferInv, UNCHANGED <<storeVars, rpc, recvLocals>>
    PROVE  BufferInv'
BY DEF BufferInv, storeVars, recvLocals, Elements, PushFailed

LEMMA BufferInit == Init => BufferInv
BY ElementsEmpty DEF Init, BufferInv, Holding

LEMMA BufferReceiver == TypeInv /\ BufferInv /\ Receiver => BufferInv'
<1> SUFFICES ASSUME TypeInv, BufferInv, Receiver PROVE BufferInv'
  OBVIOUS
<1> USE DEF BufferInv, Holding, storeVars, recvLocals
<1>0. /\ all_actions \in Seq(Events) /\ delivered \in Nat
      /\ delivered \in 0..MaxEvents
      /\ rpc \in Holding => action \in Events
      /\ Len(all_actions) \in Nat
  BY MaxEventsAssumption DEF TypeInv, TypeOK, ActionTaken
<1>1. CASE RecvEvent
  <2>1. action' \notin live
    BY <1>0, <1>1 DEF RecvEvent
  <2>2. (1..delivered) \cup {delivered + 1} \subseteq 1..delivered'
    BY <1>0, <1>1 DEF RecvEvent
  <2>3. QED BY <1>1, <2>1, <2>2 DEF RecvEvent, Elements
<1>2. CASE RecvCopyFailed
  <2>1. 1..delivered \subseteq 1..delivered'
    BY <1>0, <1>2 DEF RecvCopyFailed
  <2>2. QED BY <1>2, <2>1 DEF RecvCopyFailed, Elements
<1>3. CASE RecvDrop
  BY <1>3 DEF RecvDrop, Elements
<1>4. CASE RecvPushStore
  <2>1. Elements(all_actions') = Elements(all_actions) \cup {action}
    BY <1>0, <1>4, ElementsAppend DEF RecvPushStore
  <2>2. ~PushFailed'
    BY <1>0, <1>4 DEF RecvPushStore, PushFailed
  <2>3. QED BY <1>4, <2>1, <2>2 DEF RecvPushStore
<1>5. CASE RecvStoreFailed
  <2>1. all_actions = <<>>
    BY <1>5 DEF RecvStoreFailed
  <2>2. Elements(all_actions') = {}
    BY <1>5, <2>1, ElementsEmpty DEF RecvStoreFailed
  <2>3. QED BY <1>5, <2>2 DEF RecvStoreFailed
<1>6. CASE RecvTryFilter \/ RecvFilterBusy \/ RecvFilter \/ RecvKeep
  BY <1>6 DEF RecvTryFilter, RecvFilterBusy, RecvFilter, RecvKeep, Elements
<1>7. CASE RecvEnterStore
  BY <1>7 DEF RecvEnterStore, Elements
<1>8. CASE RecvLoop \/ RecvIgnore \/ RecvStored \/ RecvEnterTip \/ RecvLeaveTip
  BY <1>8 DEF RecvLoop, RecvIgnore, RecvStored, RecvEnterTip, RecvLeaveTip,
              Elements
<1>9. CASE RecvEnterView \/ RecvPushView \/ RecvCheckView
  BY <1>9 DEF RecvEnterView, RecvPushView, RecvCheckView, Elements
<1>10. CASE RecvReadCount \/ RecvWriteCount \/ RecvPost \/ RecvZeroCount
            \/ RecvNoPost
  BY <1>10 DEF RecvReadCount, RecvWriteCount, RecvPost, RecvZeroCount,
               RecvNoPost, Elements
<1>11. QED
  BY <1>1, <1>2, <1>3, <1>4, <1>5, <1>6, <1>7, <1>8, <1>9, <1>10
     DEF Receiver, RecvStep

(* Of the UI thread's steps only the clears and the termination of the     *)
(* receiver concern the buffers.                                           *)
LEMMA BufferUI == BufferInv /\ (UserCommand \/ UIStep) => BufferInv'
<1> SUFFICES ASSUME BufferInv, UserCommand \/ UIStep PROVE BufferInv'
  OBVIOUS
<1> USE DEF recvVars
<1>1. ASSUME NEW from, NEW to, ClearStore(from, to) PROVE BufferInv'
  <2>1. all_actions' = <<>> /\ live' = live \ Elements(all_actions)
    BY <1>1 DEF ClearStore, Elements
  <2>2. QED
    BY <1>1, <2>1, ElementsEmpty DEF ClearStore, BufferInv, recvLocals
<1>2. ASSUME NEW from, NEW to, ClearView(from, to) PROVE BufferInv'
  BY <1>2 DEF ClearView, BufferInv, recvLocals, Elements, PushFailed
<1>3. CASE ExitTerminate
  BY <1>3 DEF ExitTerminate, BufferInv, storeVars, recvLocals, Elements,
              Holding
<1>4. CASE RefilterClearView \/ RefilterPush
  BY <1>4 DEF RefilterClearView, RefilterPush, BufferInv, recvLocals,
              Elements, PushFailed
<1>5. CASE UserCommand
  BY <1>5, BufferFrame DEF UserCommand, UISwitch, UIDrop, UIEdit, UIReset,
     UIRefilter, UIClear, SaveStart, UISave, UIExit
<1>6. CASE UIEdited \/ UIResetDone \/ SetItemRealCount \/ UIRefreshed \/ SaveEnd
           \/ OnItemAdded \/ ItemsFilled
  BY <1>6, BufferFrame DEF UIEdited, UIResetDone, SetItemRealCount, UIRefreshed, SaveEnd,
     UISaved, OnItemAdded, ItemsFilled
<1>7. CASE Refilter
  BY <1>4, <1>7, BufferFrame DEF Refilter, RefilterEnterTip, EnterTip,
     RefilterStopTrace, ZeroCount, RefilterBegin, RefilterBound,
     RefilterRead, RefilterTryFilter, RefilterFilterBusy, RefilterMatch,
     RefilterSkip, RefilterLeaveTip, LeaveTip, RefilterGetCount
<1>8. CASE Clear
  BY <1>1, <1>2, <1>8, BufferFrame DEF Clear, ClearEnterTip, EnterTip,
     ClearStopTrace, ZeroCount, ClearAllView, ClearAllStore, ClearLeaveTip,
     LeaveTip, ClearZeroList
<1>9. CASE Exit
  BY <1>1, <1>2, <1>3, <1>9, BufferFrame DEF Exit, ExitJoined,
     ExitReleaseFilters, ExitClearView, ExitClearStore
<1>10. QED BY <1>5, <1>6, <1>7, <1>8, <1>9 DEF UIStep

LEMMA BufferCorrect == Spec => []BufferInv
<1>1. BufferInv /\ UNCHANGED vars => BufferInv'
  BY BufferFrame DEF vars, recvVars
<1>2. TypeInv /\ BufferInv /\ [Next]_vars => BufferInv'
  BY <1>1, BufferReceiver, BufferUI DEF Next
<1>3. QED BY <1>2, BufferInit, TypeInvariant, PTL DEF Spec

(* The store never holds a freed buffer: the size check that               *)
(* add_to_memory_cache makes after it released events_store_lock fails     *)
(* only when clear_all_events emptied the store, for every interleaving of *)
(* the two threads.                                                        *)
THEOREM StoreSafe == Spec => []StoreHoldsLive
<1>1. BufferInv => StoreHoldsLive
  BY DEF BufferInv, StoreHoldsLive
<1>2. QED BY <1>1, BufferCorrect, PTL

-----------------------------------------------------------------------------
(* The tip lock: who is between its two ends holds it, and filtering_event *)
(* is set only while the UI thread holds it.                               *)
TipHeld == {"stop_trace_refilter", "clear_view", "begin_scan", "scan", "read",
            "try_filter", "filter", "push_view", "leave_tip_refilter",
            "stop_trace_clear", "clear_all_view", "clear_all_store",
            "leave_tip_clear"}

TipOwner == owner["filtering_tip_lock"]

TipInv ==
    /\ owner \in [Locks -> {"receiver", "ui", NoOne}]
    /\ rpc = "leave_tip" => TipOwner = "receiver"
    /\ upc \in TipHeld => TipOwner = "ui"
    /\ filtering_event => TipOwner = "ui"

(* A step that takes and leaves other locks only.                          *)
LEMMA TipFrame ==
    ASSUME TipInv, UNCHANGED filtering_event, TipOwner' = TipOwner,
           owner' \in [Locks -> {"receiver", "ui", NoOne}],
           rpc' = "leave_tip" => rpc = "leave_tip",
           upc' \in TipHeld => upc \in TipHeld
    PROVE  TipInv'
BY DEF TipInv

LEMMA TipReceiver == TipInv /\ Receiver => TipInv'
<1> SUFFICES ASSUME TipInv, Receiver PROVE TipInv'
  OBVIOUS
<1> USE NoOneAssumption
    DEF modeVars, uiVars, Free, Enter, Leave, Locks
<1>0. owner \in [Locks -> {"receiver", "ui", NoOne}]
  BY DEF TipInv
<1>1. CASE RecvEnterTip
  BY <1>0, <1>1 DEF RecvEnterTip, TipInv, TipOwner, TipHeld
<1>2. CASE RecvLeaveTip
  BY <1>0, <1>2 DEF RecvLeaveTip, TipInv, TipOwner, TipHeld
<1>3. CASE RecvTryFilter \/ RecvEnterStore \/ RecvEnterView
  BY <1>0, <1>3, TipFrame DEF RecvTryFilter, RecvEnterStore, RecvEnterView,
     TipOwner
<1>4. CASE RecvFilter \/ RecvPushStore \/ RecvPushView
  BY <1>0, <1>4, TipFrame DEF RecvFilter, RecvPushStore, RecvPushView,
     TipOwner
<1>5. CASE RecvLoop \/ RecvIgnore \/ RecvEvent \/ RecvCopyFailed
           \/ RecvFilterBusy \/ RecvDrop \/ RecvKeep
  BY <1>0, <1>5, TipFrame DEF RecvLoop, RecvIgnore, RecvEvent,
     RecvCopyFailed, RecvFilterBusy, RecvDrop, RecvKeep, TipOwner
<1>6. CASE RecvStoreFailed \/ RecvStored \/ RecvCheckView \/ RecvReadCount
           \/ RecvWriteCount \/ RecvPost \/ RecvZeroCount \/ RecvNoPost
  BY <1>0, <1>6, TipFrame DEF RecvStoreFailed, RecvStored, RecvCheckView,
     RecvReadCount, RecvWriteCount, RecvPost, RecvZeroCount, RecvNoPost,
     TipOwner
<1>7. QED
  BY <1>1, <1>2, <1>3, <1>4, <1>5, <1>6 DEF Receiver, RecvStep

LEMMA TipUI == TipInv /\ (UserCommand \/ UIStep) => TipInv'
<1> SUFFICES ASSUME TipInv, UserCommand \/ UIStep PROVE TipInv'
  OBVIOUS
<1> USE NoOneAssumption
    DEF modeVars, recvVars, uiVars, Free, Enter, Leave, Locks
<1>0. owner \in [Locks -> {"receiver", "ui", NoOne}]
  BY DEF TipInv
<1>1. ASSUME NEW from, NEW to \in TipHeld, EnterTip(from, to) PROVE TipInv'
  BY <1>0, <1>1 DEF EnterTip, TipInv, TipOwner
<1>2. ASSUME NEW from \in TipHeld, NEW to, to \notin TipHeld,
             LeaveTip(from, to)
      PROVE  TipInv'
  BY <1>0, <1>2 DEF LeaveTip, TipInv, TipOwner
<1>3. CASE UserCommand
  BY <1>0, <1>3, TipFrame DEF UserCommand, UISwitch, UIDrop, UIEdit, UIReset,
     UIRefilter, UIClear, SaveStart, UISave, UIExit, TipOwner, TipHeld, Command
<1>4. CASE UIEdited \/ SaveEnd
  BY <1>0, <1>4, TipFrame DEF UIEdited, SaveEnd, UISaved, TipOwner, TipHeld
<1>5. CASE UIResetDone \/ SetItemRealCount \/ UIRefreshed \/ OnItemAdded
           \/ ItemsFilled
  BY <1>0, <1>5, TipFrame DEF UIResetDone, SetItemRealCount, UIRefreshed, OnItemAdded,
     ItemsFilled, TipOwner, TipHeld
<1>6. CASE RefilterEnterTip \/ ClearEnterTip
  BY <1>1, <1>6 DEF RefilterEnterTip, ClearEnterTip, TipHeld
<1>7. CASE RefilterLeaveTip \/ ClearLeaveTip
  BY <1>2, <1>7 DEF RefilterLeaveTip, ClearLeaveTip, TipHeld
<1>8. CASE Refilter
  BY <1>0, <1>6, <1>7, <1>8, TipFrame DEF Refilter, RefilterStopTrace,
     ZeroCount, RefilterClearView, RefilterBegin, RefilterBound,
     RefilterRead, RefilterTryFilter, RefilterFilterBusy, RefilterMatch,
     RefilterSkip, RefilterPush, RefilterGetCount, TipOwner, TipHeld
<1>9. CASE Clear
  BY <1>0, <1>6, <1>7, <1>9, TipFrame DEF Clear, ClearStopTrace, ZeroCount,
     ClearAllView, ClearView, ClearAllStore, ClearStore, ClearZeroList,
     TipOwner, TipHeld
<1>10. CASE Exit
  BY <1>0, <1>10, TipFrame DEF Exit, ExitJoined, ExitTerminate,
     ExitReleaseFilters, ExitClearView, ClearView, ExitClearStore,
     ClearStore, TipOwner, TipHeld
<1>11. QED BY <1>3, <1>4, <1>5, <1>8, <1>9, <1>10 DEF UIStep

LEMMA TipCorrect == Spec => []TipInv
<1>1. Init => TipInv
  BY NoOneAssumption DEF Init, TipInv, TipOwner, TipHeld, Locks
<1>2. TipInv /\ UNCHANGED vars => TipInv'
  BY DEF TipInv, TipOwner, vars, modeVars, recvVars, uiVars
<1>3. TipInv /\ [Next]_vars => TipInv'
  BY <1>2, TipReceiver, TipUI DEF Next
<1>4. QED BY <1>1, <1>3, PTL DEF Spec

LEMMA NotReadyNever == TipInv => NotReadyUnreachable
BY NoOneAssumption DEF TipInv, NotReadyUnreachable

(* The ERROR_NOT_READY branch of add_to_event_filtered_store is dead code: *)
(* a receiver that gets filtering_tip_lock never finds filtering_event set.*)
THEOREM NotReadyDead == Spec => []NotReadyUnreachable
BY NotReadyNever, TipCorrect, PTL

-----------------------------------------------------------------------------
(* The refinement of TraceLog, for users who do not clear the store and    *)
(* a vector that does not move while it is read.                           *)
Clearing == {"enter_tip_clear", "stop_trace_clear", "clear_all_view",
             "clear_all_store", "leave_tip_clear", "zero_list"}

Exiting == {"release_filters", "exit_view", "exit_store", "exited"}

ViewOwner == owner["filtered_events_store_lock"]

(* The event being added is stored, the size check succeeds, the event the *)
(* refilter reads is stored, and between the two halves of the receiver's  *)
(* push the list is what it was or empty.                                  *)
ViewInv ==
    /\ upc \notin Clearing
    /\ upc \in Exiting => rpc \in {"done", "terminated"}
    /\ upc \in {"exit_store", "exited"} => all_filtered_actions = <<>>
    /\ upc = "save_view" => ViewOwner = "ui"
    /\ upc \in {"try_filter", "filter", "push_view"} =>
          scanned \in Elements(all_actions)
    /\ \A e : Adding(e) => e \in Elements(all_actions)
    /\ rpc = "check_store" => ~PushFailed
    /\ rpc = "push_view" =>
          /\ ViewOwner = "receiver"
          /\ Elements(view_read) \subseteq Elements(all_actions)
          /\ all_filtered_actions \in {<<>>, view_read}
    /\ Elements(all_filtered_actions) \subseteq Elements(all_actions)

LEMMA ElementsPrefix ==
    ASSUME NEW S, NEW seq \in Seq(S), NEW n \in 0..Len(seq)
    PROVE  Elements(SubSeq(seq, 1, n)) \subseteq Elements(seq)
<1>1. /\ Len(SubSeq(seq, 1, n)) = n
      /\ \A i \in 1..n : SubSeq(seq, 1, n)[i] = seq[i]
      /\ SubSeq(seq, 1, n) \in Seq(S)
  OBVIOUS
<1>2. DOMAIN SubSeq(seq, 1, n) = 1..n /\ 1..n \subseteq DOMAIN seq
  BY <1>1
<1>3. QED BY <1>1, <1>2 DEF Elements

LEMMA InLogIsElements == Log!InLog = Elements(all_actions)
BY DEF Log!InLog, Elements

LogStep == [Log!Next]_<<all_actions, Elements(all_filtered_actions)>>

LEMMA LogStutter ==
    ASSUME UNCHANGED <<all_actions, all_filtered_actions>> PROVE LogStep
BY DEF LogStep, Elements

LEMMA LogShow ==
    ASSUME NEW S \in SUBSET Elements(all_actions), UNCHANGED all_actions,
           Elements(all_filtered_actions)' = Elements(all_filtered_actions) \cup S
    PROVE  LogStep
BY InLogIsElements DEF LogStep, Log!Next, Log!Show

LEMMA LogHide ==
    ASSUME UNCHANGED all_actions, all_filtered_actions' = <<>>
    PROVE  LogStep
BY ElementsEmpty DEF LogStep, Log!Next, Log!Hide, Elements

(* A step that leaves the two vectors, the lock of the list and the        *)
(* receiver alone, and the UI thread away from the places that count.      *)
LEMMA ViewFrame ==
    ASSUME ViewInv, UNCHANGED <<storeVars, rpc, recvLocals>>,
           ViewOwner' = ViewOwner, UNCHANGED scanned,
           upc' \notin Clearing \cup Exiting \cup {"save_view", "try_filter"},
           upc' = "filter" => upc = "try_filter",
           upc' = "push_view" => upc \in {"try_filter", "filter"}
    PROVE  ViewInv' /\ LogStep
<1>1. LogStep BY LogStutter DEF storeVars
<1>2. ViewInv'
  BY DEF ViewInv, storeVars, recvLocals, Elements, PushFailed, Adding, Exiting
<1>3. QED BY <1>1, <1>2

LEMMA ViewReceiver ==
    TypeInv /\ BufferInv /\ ViewInv /\ Receiver => ViewInv' /\ LogStep
<1> SUFFICES ASSUME TypeInv, BufferInv, ViewInv, Receiver
             PROVE  ViewInv' /\ LogStep
  OBVIOUS
<1> USE NoOneAssumption
    DEF storeVars, recvLocals, uiVars, uiLocals, Free, Enter, Leave, Locks,
        Adding, Exiting
<1>0. /\ all_actions \in Seq(Events) /\ delivered \in Nat
      /\ owner \in [Locks -> {"receiver", "ui", NoOne}]
      /\ {all_filtered_actions, view_read} \subseteq Seq(Events \cup {NoEvent})
      /\ action \in Events \cup {NoEvent}
      /\ rpc \in Holding => action \in Events
      /\ Len(all_actions) \in Nat
  BY MaxEventsAssumption DEF TypeInv, TypeOK, ActionTaken
<1>1. CASE RecvPushStore
  <2>1. Elements(all_actions') = Elements(all_actions) \cup {action}
    BY <1>0, <1>1, ElementsAppend DEF RecvPushStore, Holding
  <2>2. ~PushFailed'
    BY <1>0, <1>1 DEF RecvPushStore, PushFailed
  <2>3. ViewInv'
    BY <1>1, <2>1, <2>2 DEF RecvPushStore, ViewInv, ViewOwner, Elements
  <2>4. \A d \in Elements(all_actions) : d < action
    <3>1. action = delivered /\ action \notin Elements(all_actions)
      BY <1>1 DEF RecvPushStore, BufferInv, Holding
    <3>2. Elements(all_actions) \subseteq 1..delivered
      BY DEF BufferInv
    <3>3. QED BY <1>0, <3>1, <3>2
  <2>5. action \in Events /\ all_actions' = Append(all_actions, action)
    BY <1>0, <1>1 DEF RecvPushStore, Holding
  <2>6. Elements(all_filtered_actions)' = Elements(all_filtered_actions)
    BY <1>1 DEF RecvPushStore, Elements
  <2>7. Log!Record
    BY <2>4, <2>5, <2>6, InLogIsElements DEF Log!Record
  <2>8. QED BY <2>3, <2>7 DEF LogStep, Log!Next
<1>2. CASE RecvEnterView
  <2>1. ViewInv'
    BY <1>0, <1>2 DEF RecvEnterView, ViewInv, ViewOwner, Elements
  <2>2. QED BY <1>2, <2>1, LogStutter DEF RecvEnterView
<1>3. CASE RecvPushView
  <2> DEFINE whole == Append(view_read, action)
  <2>1. /\ whole \in Seq(Events \cup {NoEvent})
        /\ Len(whole) = Len(view_read) + 1
        /\ Elements(whole) = Elements(view_read) \cup {action}
    BY <1>0, ElementsAppend
  <2>2. /\ action \in Elements(all_actions)
        /\ Elements(view_read) \subseteq Elements(all_actions)
        /\ all_filtered_actions \in {<<>>, view_read}
    BY <1>3 DEF RecvPushView, ViewInv
  <2>3. UNCHANGED all_actions
    BY <1>3 DEF RecvPushView
  <2>4. PICK S \in SUBSET Elements(all_actions) :
           Elements(all_filtered_actions)' = Elements(all_filtered_actions) \cup S
    <3>1. CASE all_filtered_actions = view_read
      <4>1. all_filtered_actions' = whole
        BY <1>3, <3>1 DEF RecvPushView
      <4>2. Elements(all_filtered_actions)' = Elements(all_filtered_actions) \cup {action}
        BY <2>1, <3>1, <4>1 DEF Elements
      <4>3. QED BY <2>2, <4>2
    <3>2. CASE all_filtered_actions # view_read
      <4>1. PICK n \in 0..Len(whole) :
               all_filtered_actions' = SubSeq(whole, 1, n)
        BY <1>3, <2>1, <3>2 DEF RecvPushView
      <4>2. Elements(SubSeq(whole, 1, n)) \subseteq Elements(whole)
        BY <2>1, <4>1, ElementsPrefix
      <4>3. Elements(all_filtered_actions)' \subseteq Elements(all_actions)
        BY <2>1, <2>2, <4>1, <4>2 DEF Elements
      <4>4. Elements(all_filtered_actions) = {}
        BY <2>2, <3>2, ElementsEmpty
      <4>5. QED BY <4>3, <4>4
    <3>3. QED BY <3>1, <3>2
  <2>5. Elements(all_filtered_actions)' \subseteq Elements(all_actions)
    BY <2>4 DEF ViewInv
  <2>6. ViewInv'
    <3>1. Elements(all_actions)' = Elements(all_actions)
      BY <2>3 DEF Elements
    <3>2. UNCHANGED <<upc, scanned>> /\ rpc = "push_view" /\ rpc' = "check_view"
      BY <1>3 DEF RecvPushView
    <3>3. upc \notin Exiting /\ upc # "save_view"
      BY <3>2 DEF ViewInv
    <3>4. QED BY <2>5, <3>1, <3>2, <3>3 DEF ViewInv
  <2>7. QED BY <2>3, <2>4, <2>6, LogShow
<1>4. CASE RecvStored \/ RecvEnterTip \/ RecvLeaveTip
  <2>0. ViewOwner' = ViewOwner
    BY <1>0, <1>4 DEF RecvStored, RecvEnterTip, RecvLeaveTip, ViewOwner
  <2>1. ViewInv'
    BY <1>4, <2>0 DEF RecvStored, RecvEnterTip, RecvLeaveTip, ViewInv, Elements
  <2>2. QED
    BY <1>4, <2>1, LogStutter DEF RecvStored, RecvEnterTip, RecvLeaveTip
<1>5. CASE RecvStoreFailed
  BY <1>5 DEF RecvStoreFailed, ViewInv
<1>6. CASE RecvTryFilter \/ RecvFilter \/ RecvEnterStore
  <2>0. ViewOwner' = ViewOwner
    BY <1>0, <1>6 DEF RecvTryFilter, RecvFilter, RecvEnterStore, ViewOwner
  <2>1. ViewInv'
    BY <1>6, <2>0 DEF RecvTryFilter, RecvFilter, RecvEnterStore, ViewInv,
       Elements
  <2>2. QED
    BY <1>6, <2>1, LogStutter DEF RecvTryFilter, RecvFilter, RecvEnterStore
<1>7. CASE RecvLoop \/ RecvIgnore \/ RecvEvent \/ RecvCopyFailed
           \/ RecvFilterBusy \/ RecvDrop \/ RecvKeep
  <2>1. ViewInv'
    BY <1>7 DEF RecvLoop, RecvIgnore, RecvEvent, RecvCopyFailed,
       RecvFilterBusy, RecvDrop, RecvKeep, ViewInv, ViewOwner, Elements
  <2>2. QED
    BY <1>7, <2>1, LogStutter DEF RecvLoop, RecvIgnore, RecvEvent,
       RecvCopyFailed, RecvFilterBusy, RecvDrop, RecvKeep
<1>8. CASE RecvCheckView \/ RecvReadCount \/ RecvWriteCount \/ RecvPost
           \/ RecvZeroCount \/ RecvNoPost
  <2>1. ViewInv'
    BY <1>8 DEF RecvCheckView, RecvReadCount, RecvWriteCount, RecvPost,
       RecvZeroCount, RecvNoPost, ViewInv, ViewOwner, Elements
  <2>2. QED
    BY <1>8, <2>1, LogStutter DEF RecvCheckView, RecvReadCount,
       RecvWriteCount, RecvPost, RecvZeroCount, RecvNoPost
<1>9. QED
  BY <1>1, <1>2, <1>3, <1>4, <1>5, <1>6, <1>7, <1>8 DEF Receiver, RecvStep

LEMMA ViewUI ==
    ASSUME "clear" \notin UICommands, Reallocates = {}
    PROVE  TypeInv /\ ViewInv /\ (UserCommand \/ UIStep) => ViewInv' /\ LogStep
<1> SUFFICES ASSUME TypeInv, ViewInv, UserCommand \/ UIStep
             PROVE  ViewInv' /\ LogStep
  OBVIOUS
<1> USE NoOneAssumption
    DEF recvVars, uiLocals, uiVars, Free, Enter, Leave, Locks
<1>0. /\ owner \in [Locks -> {"receiver", "ui", NoOne}]
      /\ all_filtered_actions \in Seq(Events \cup {NoEvent})
      /\ scanned \in Events \cup {NoEvent}
  BY DEF TypeInv, TypeOK
<1>1. CASE UserCommand
  <2>1. ~UIClear
    BY DEF UIClear, Command
  <2>2. CASE SaveStart
    <3>1. UNCHANGED <<storeVars, rpc, recvLocals>>
      BY <2>2 DEF SaveStart, UISave
    <3>2. upc' \in {"save_store", "save_view"}
      BY <2>2 DEF SaveStart, UISave
    <3>3. /\ upc' = "save_view" => ViewOwner' = "ui"
          /\ rpc = "push_view" => ViewOwner' = ViewOwner
      BY <1>0, <2>2 DEF SaveStart, UISave, ViewInv, ViewOwner
    <3>4. ViewInv'
      BY <3>1, <3>2, <3>3 DEF ViewInv, storeVars, recvLocals, Elements,
         PushFailed, Adding, Exiting, Clearing
    <3>5. QED BY <3>1, <3>4, LogStutter DEF storeVars
  <2>3. CASE UISwitch \/ UIDrop \/ UIEdit \/ UIReset \/ UIRefilter \/ UIExit
    BY <1>0, <2>3, ViewFrame DEF UISwitch, UIDrop, UIEdit, UIReset,
       UIRefilter, UIExit, Command, Clearing, Exiting, ViewOwner
  <2>4. QED BY <1>1, <2>1, <2>2, <2>3 DEF UserCommand
<1>2. CASE SaveEnd
  <2>1. UNCHANGED <<storeVars, rpc, recvLocals>> /\ upc' = "idle"
    BY <1>2 DEF SaveEnd, UISaved
  <2>2. rpc = "push_view" => ViewOwner' = ViewOwner
    BY <1>0, <1>2 DEF SaveEnd, UISaved, ViewInv, ViewOwner
  <2>3. ViewInv'
    BY <2>1, <2>2 DEF ViewInv, storeVars, recvLocals, Elements, PushFailed,
       Adding, Exiting, Clearing
  <2>4. QED BY <2>1, <2>3, LogStutter DEF storeVars
<1>3. CASE UIEdited \/ UIResetDone \/ SetItemRealCount \/ UIRefreshed
           \/ OnItemAdded \/ ItemsFilled
  BY <1>0, <1>3, ViewFrame DEF UIEdited, UIResetDone, SetItemRealCount, UIRefreshed,
     OnItemAdded, ItemsFilled, Clearing, Exiting, ViewOwner
<1>4. CASE RefilterClearView
  <2>1. ViewInv'
    BY <1>4, ElementsEmpty DEF RefilterClearView, ViewInv, recvLocals,
       Elements, PushFailed, Adding, Exiting, Clearing, ViewOwner
  <2>2. QED BY <1>4, <2>1, LogHide DEF RefilterClearView
<1>5. CASE RefilterRead
  <2>1. scanned' \in Elements(all_actions)
    BY <1>5 DEF RefilterRead, TypeInv, ScanInStore, Elements
  <2>2. UNCHANGED <<storeVars, rpc, recvLocals, owner>> /\ upc' = "try_filter"
    BY <1>5 DEF RefilterRead
  <2>3. ViewInv'
    BY <2>1, <2>2 DEF ViewInv, storeVars, recvLocals, Elements, PushFailed,
       Adding, Exiting, Clearing, ViewOwner
  <2>4. QED BY <2>2, <2>3, LogStutter DEF storeVars
<1>6. CASE RefilterPush
  <2>1. rpc # "push_view" /\ scanned \in Elements(all_actions)
    BY <1>6 DEF RefilterPush, ViewInv, ViewOwner
  <2>2. Elements(all_filtered_actions)' = Elements(all_filtered_actions) \cup {scanned}
    <3>1. all_filtered_actions' = Append(all_filtered_actions, scanned)
      BY <1>6 DEF RefilterPush
    <3>2. QED BY <1>0, <3>1, ElementsAppend DEF Elements
  <2>3. /\ UNCHANGED <<all_actions, rpc, recvLocals, owner>>
        /\ upc = "push_view" /\ upc' = "scan"
    BY <1>6 DEF RefilterPush
  <2>4. ViewInv'
    BY <2>1, <2>2, <2>3 DEF ViewInv, recvLocals, Elements, PushFailed,
       Adding, Exiting, Clearing, ViewOwner
  <2>5. QED BY <2>1, <2>2, <2>3, <2>4, LogShow
<1>7. CASE Refilter
  BY <1>0, <1>4, <1>5, <1>6, <1>7, ViewFrame DEF Refilter, RefilterEnterTip,
     EnterTip, RefilterStopTrace, ZeroCount, RefilterBegin, RefilterBound,
     RefilterTryFilter, RefilterFilterBusy, RefilterMatch, RefilterSkip,
     RefilterLeaveTip, LeaveTip, RefilterGetCount, Clearing, Exiting,
     ViewOwner
<1>8. CASE Clear
  BY <1>8 DEF Clear, ClearEnterTip, EnterTip, ClearStopTrace, ZeroCount,
     ClearAllView, ClearView, ClearAllStore, ClearStore, ClearLeaveTip,
     LeaveTip, ClearZeroList, ViewInv, Clearing
<1>9. CASE ExitJoined \/ ExitTerminate \/ ExitReleaseFilters
  <2>1. UNCHANGED <<storeVars, recvLocals>> /\ upc' \in {"release_filters", "exit_view"}
    BY <1>9 DEF ExitJoined, ExitTerminate, ExitReleaseFilters
  <2>2. rpc' \in {"done", "terminated"}
    BY <1>9 DEF ExitJoined, ExitTerminate, ExitReleaseFilters, ViewInv, Exiting
  <2>3. ViewInv'
    BY <2>1, <2>2 DEF ViewInv, storeVars, recvLocals, Elements, Adding,
       Exiting, Clearing
  <2>4. QED BY <2>1, <2>3, LogStutter DEF storeVars
<1>10. CASE ExitClearView
  <2>1. /\ UNCHANGED <<all_actions, rpc, recvLocals>>
        /\ all_filtered_actions' = <<>>
        /\ upc = "exit_view" /\ upc' = "exit_store"
    BY <1>10 DEF ExitClearView, ClearView
  <2>2. ViewInv'
    BY <2>1, ElementsEmpty DEF ViewInv, recvLocals, Elements, Adding,
       Exiting, Clearing
  <2>3. QED BY <2>1, <2>2, LogHide
<1>11. CASE ExitClearStore
  <2>1. /\ UNCHANGED <<all_filtered_actions, rpc, recvLocals>>
        /\ all_actions' = <<>>
        /\ upc = "exit_store" /\ upc' = "exited"
    BY <1>11 DEF ExitClearStore, ClearStore
  <2>2. all_filtered_actions = <<>> /\ rpc \in {"done", "terminated"}
    BY <2>1 DEF ViewInv, Exiting
  <2>3. ViewInv'
    BY <2>1, <2>2, ElementsEmpty DEF ViewInv, recvLocals, Adding, Exiting,
       Clearing
  <2>4. Log!Erase
    BY <2>1, <2>2, ElementsEmpty DEF Log!Erase
  <2>5. QED BY <2>3, <2>4 DEF LogStep, Log!Next
<1>12. QED
  BY <1>1, <1>2, <1>3, <1>7, <1>8, <1>9, <1>10, <1>11 DEF UIStep, Exit

LEMMA ViewInit == Init => ViewInv /\ Log!Init
BY ElementsEmpty
   DEF Init, ViewInv, Clearing, Exiting, Adding, Log!Init

LEMMA ViewStep ==
    ASSUME "clear" \notin UICommands, Reallocates = {}
    PROVE  TypeInv /\ BufferInv /\ ViewInv /\ [Next]_vars => ViewInv' /\ LogStep
<1>1. ViewInv /\ UNCHANGED vars => ViewInv' /\ LogStep
  <2> SUFFICES ASSUME ViewInv, UNCHANGED vars PROVE ViewInv' /\ LogStep
    OBVIOUS
  <2> USE DEF vars, storeVars, recvVars, recvLocals, uiVars, uiLocals
  <2>1. LogStep BY LogStutter
  <2>2. ViewInv' BY DEF ViewInv, Elements, PushFailed, Adding, ViewOwner
  <2>3. QED BY <2>1, <2>2
<1>2. QED BY <1>1, ViewReceiver, ViewUI DEF Next

LEMMA ViewCorrect ==
    ASSUME "clear" \notin UICommands, Reallocates = {}
    PROVE  Spec => []ViewInv
<1>1. TypeInv /\ BufferInv /\ ViewInv /\ [Next]_vars => ViewInv'
  BY ViewStep
<1>2. Init => ViewInv
  BY ViewInit
<1>3. QED BY <1>1, <1>2, TypeInvariant, BufferCorrect, PTL DEF Spec

(* For users who do not clear the store, and a vector that is not moved    *)
(* while filter_all_events reads it: every row of the list is a stored     *)
(* event, although the list is emptied without its lock.                   *)
THEOREM ViewSafe ==
    ASSUME "clear" \notin UICommands, Reallocates = {}
    PROVE  Spec => []ViewWithinStore
<1>1. ViewInv => ViewWithinStore
  BY DEF ViewInv, ViewWithinStore
<1>2. QED BY <1>1, ViewCorrect, PTL

(* Under the same assumptions the store implements TraceLog: each step     *)
(* records one new event, shows stored events, empties the list, erases    *)
(* the log while nothing is shown, or changes nothing a reader sees.       *)
THEOREM LogImplemented ==
    ASSUME "clear" \notin UICommands, Reallocates = {}
    PROVE  Spec => ImplementsLog
<1>1. TypeInv /\ BufferInv /\ ViewInv /\ [Next]_vars =>
         [Log!Next]_<<all_actions, Elements(all_filtered_actions)>>
  BY ViewStep DEF LogStep
<1>2. Init => Log!Init
  BY ViewInit
<1>3. QED
  BY <1>1, <1>2, TypeInvariant, BufferCorrect, ViewCorrect, PTL
     DEF Spec, ImplementsLog, Log!Spec
=============================================================================

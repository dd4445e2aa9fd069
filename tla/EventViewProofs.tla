--------------------------- MODULE EventViewProofs ---------------------------
(***************************************************************************)
(* What the list shows, for any number of events and any interleaving of   *)
(* the two threads: in order and nothing else while nobody refilters, and  *)
(* nothing left out by refilters and edits that overlap an insertion.      *)
(***************************************************************************)
EXTENDS EventStoreProofs, WellFoundedInduction

(* The places of the UI thread between a refilter's begin and the release  *)
(* of the tip lock.                                                        *)
Refiltering ==
    {"enter_tip_refilter", "stop_trace_refilter", "clear_view", "begin_scan",
     "scan", "read", "try_filter", "filter", "push_view",
     "leave_tip_refilter"}

(* The receiver has an event that is not in the list yet.                  *)
Carrying ==
    Holding \cup {"check_store", "enter_tip", "leave_tip", "enter_view",
                  "push_view"}

-----------------------------------------------------------------------------
(* Order: the list grows at its end by the newest event, and a clear cannot*)
(* come between the two halves of a push, which hold the lock a clear      *)
(* takes and a refilter does not.                                          *)
OrderInv ==
    /\ upc \notin Refiltering
    /\ upc = "save_view" => ViewOwner = "ui"
    /\ rpc \in Carrying => action <= delivered
    /\ rpc = "push_view" =>
          ViewOwner = "receiver" /\ all_filtered_actions = view_read
    /\ \A i \in DOMAIN all_filtered_actions :
          /\ all_filtered_actions[i] <= delivered
          /\ rpc \in Carrying => all_filtered_actions[i] < action
    /\ ViewInOrder


(* A step that leaves the list, the receiver and the list's lock alone.    *)
LEMMA OrderFrame ==
    ASSUME OrderInv, UNCHANGED <<all_filtered_actions, rpc, recvLocals>>,
           ViewOwner' = ViewOwner,
           upc' \notin Refiltering \cup {"save_view"}
    PROVE  OrderInv'
BY DEF OrderInv, recvLocals, ViewInOrder

LEMMA OrderInit == Init => OrderInv
BY DEF Init, OrderInv, Refiltering, Carrying, Holding, ViewInOrder

LEMMA OrderReceiver == TypeInv /\ OrderInv /\ Receiver => OrderInv'
<1> SUFFICES ASSUME TypeInv, OrderInv, Receiver PROVE OrderInv'
  OBVIOUS
<1> USE NoOneAssumption
    DEF OrderInv, Carrying, Holding, recvLocals, uiVars, uiLocals, storeVars,
        Free, Enter, Leave, Locks, ViewOwner
<1>0. /\ delivered \in Nat /\ owner \in [Locks -> {"receiver", "ui", NoOne}]
      /\ all_filtered_actions \in Seq(Events \cup {NoEvent})
      /\ Events \cup {NoEvent} \subseteq Int /\ action \in Int
  BY MaxEventsAssumption DEF TypeInv, TypeOK, Events, NoEvent
<1>i. \A k \in DOMAIN all_filtered_actions : all_filtered_actions[k] \in Int
  BY <1>0
<1>1. CASE RecvEvent
  BY <1>0, <1>i, <1>1 DEF RecvEvent, ViewInOrder
<1>2. CASE RecvCopyFailed
  BY <1>0, <1>i, <1>2 DEF RecvCopyFailed, ViewInOrder
<1>3. CASE RecvEnterView
  BY <1>0, <1>3 DEF RecvEnterView, ViewInOrder
<1>4. CASE RecvPushView
  <2>1. all_filtered_actions' = Append(all_filtered_actions, action)
    BY <1>4 DEF RecvPushView
  <2>2. /\ DOMAIN all_filtered_actions' =
              DOMAIN all_filtered_actions \cup {Len(all_filtered_actions) + 1}
        /\ \A k \in DOMAIN all_filtered_actions :
              /\ all_filtered_actions'[k] = all_filtered_actions[k]
              /\ k < Len(all_filtered_actions) + 1
        /\ all_filtered_actions'[Len(all_filtered_actions) + 1] = action
    BY <1>0, <2>1
  <2>3. /\ action <= delivered
        /\ \A k \in DOMAIN all_filtered_actions :
              all_filtered_actions[k] < action
    BY <1>4 DEF RecvPushView
  <2>4. ViewInOrder'
    <3> SUFFICES ASSUME NEW k \in DOMAIN all_filtered_actions',
                        NEW l \in DOMAIN all_filtered_actions', k < l
                 PROVE  all_filtered_actions'[k] < all_filtered_actions'[l]
      BY DEF ViewInOrder
    <3>1. k \in DOMAIN all_filtered_actions
      BY <1>0, <2>2
    <3> QED
      BY <2>2, <2>3, <3>1 DEF ViewInOrder
  <2> QED
    BY <1>4, <2>2, <2>3, <2>4 DEF RecvPushView
<1>5. CASE RecvTryFilter \/ RecvFilter \/ RecvEnterStore \/ RecvPushStore
           \/ RecvEnterTip \/ RecvLeaveTip
  BY <1>0, <1>5 DEF RecvTryFilter, RecvFilter, RecvEnterStore, RecvPushStore,
     RecvEnterTip, RecvLeaveTip, ViewInOrder
<1>6. CASE RecvLoop \/ RecvIgnore \/ RecvFilterBusy \/ RecvDrop \/ RecvKeep
           \/ RecvStoreFailed \/ RecvStored
  BY <1>6 DEF RecvLoop, RecvIgnore, RecvFilterBusy, RecvDrop, RecvKeep,
     RecvStoreFailed, RecvStored, ViewInOrder
<1>7. CASE RecvCheckView \/ RecvReadCount \/ RecvWriteCount \/ RecvPost
           \/ RecvZeroCount \/ RecvNoPost
  BY <1>7 DEF RecvCheckView, RecvReadCount, RecvWriteCount, RecvPost,
     RecvZeroCount, RecvNoPost, ViewInOrder
<1> QED
  BY <1>1, <1>2, <1>3, <1>4, <1>5, <1>6, <1>7 DEF Receiver, RecvStep

LEMMA OrderUI ==
    ASSUME {"refilter", "drop"} \cap UICommands = {}
    PROVE  TypeInv /\ OrderInv /\ (UserCommand \/ UIStep) => OrderInv'
<1> SUFFICES ASSUME TypeInv, OrderInv, UserCommand \/ UIStep PROVE OrderInv'
  OBVIOUS
<1> USE NoOneAssumption
    DEF recvVars, uiLocals, uiVars, storeVars, Free, Enter, Leave, Locks
<1>0. owner \in [Locks -> {"receiver", "ui", NoOne}]
  BY DEF TypeInv, TypeOK
<1>1. ASSUME NEW from, NEW to, ClearView(from, to),
             to \notin Refiltering \cup {"save_view"}
      PROVE  OrderInv'
  <2>1. all_filtered_actions' = <<>> /\ ViewOwner = NoOne
    BY <1>1 DEF ClearView, ViewOwner
  <2> QED
    BY <1>1, <2>1 DEF ClearView, OrderInv, recvLocals, ViewOwner, ViewInOrder
<1>2. ASSUME NEW from, NEW to, ClearStore(from, to),
             to \notin Refiltering \cup {"save_view"}
      PROVE  OrderInv'
  BY <1>2, OrderFrame DEF ClearStore, ViewOwner
<1>3. CASE UserCommand
  <2>1. ~UIDrop /\ ~UIRefilter
    BY DEF UIDrop, UIRefilter, Command
  <2>2. CASE SaveStart
    <3>1. /\ UNCHANGED <<all_filtered_actions, rpc, recvLocals>>
          /\ upc' \in {"save_store", "save_view"}
      BY <2>2 DEF SaveStart, UISave
    <3>2. /\ upc' = "save_view" => ViewOwner' = "ui"
          /\ rpc = "push_view" => ViewOwner' = ViewOwner
      BY <1>0, <2>2 DEF SaveStart, UISave, OrderInv, ViewOwner
    <3> QED
      BY <3>1, <3>2 DEF OrderInv, recvLocals, ViewInOrder, Refiltering
  <2>3. CASE UISwitch \/ UIEdit \/ UIReset \/ UIClear \/ UIExit
    BY <1>0, <2>3, OrderFrame DEF UISwitch, UIEdit, UIReset, UIClear, UIExit,
       Command, Refiltering, ViewOwner
  <2> QED
    BY <1>3, <2>1, <2>2, <2>3 DEF UserCommand
<1>4. CASE SaveEnd
  <2>1. UNCHANGED <<all_filtered_actions, rpc, recvLocals>> /\ upc' = "idle"
    BY <1>4 DEF SaveEnd, UISaved
  <2>2. rpc = "push_view" => ViewOwner' = ViewOwner
    BY <1>0, <1>4 DEF SaveEnd, UISaved, OrderInv, ViewOwner
  <2> QED
    BY <2>1, <2>2 DEF OrderInv, recvLocals, ViewInOrder, Refiltering
<1>5. CASE UIEdited \/ UIResetDone \/ SetItemRealCount \/ UIRefreshed
           \/ OnItemAdded \/ ItemsFilled
  BY <1>0, <1>5, OrderFrame DEF UIEdited, UIResetDone, SetItemRealCount,
     UIRefreshed, OnItemAdded, ItemsFilled, Refiltering, ViewOwner, OrderInv
<1>6. CASE Refilter
  <2>1. RefilterGetCount
    BY <1>6 DEF Refilter, RefilterEnterTip, EnterTip, RefilterStopTrace,
       ZeroCount, RefilterClearView, RefilterBegin, RefilterBound,
       RefilterRead, RefilterTryFilter, RefilterFilterBusy, RefilterMatch,
       RefilterSkip, RefilterPush, RefilterLeaveTip, LeaveTip, OrderInv,
       Refiltering
  <2> QED
    BY <2>1, OrderFrame DEF RefilterGetCount, Refiltering, ViewOwner
<1>7. CASE Clear
  BY <1>0, <1>1, <1>2, <1>7, OrderFrame DEF Clear, ClearEnterTip, EnterTip,
     ClearStopTrace, ZeroCount, ClearAllView, ClearAllStore, ClearLeaveTip,
     LeaveTip, ClearZeroList, Refiltering, ViewOwner
<1>8. CASE ExitTerminate
  BY <1>8 DEF ExitTerminate, OrderInv, recvLocals, Carrying, Holding,
     ViewInOrder, Refiltering
<1>9. CASE Exit
  BY <1>1, <1>2, <1>8, <1>9, OrderFrame DEF Exit, ExitJoined,
     ExitReleaseFilters, ExitClearView, ExitClearStore, Refiltering, ViewOwner
<1> QED
  BY <1>3, <1>4, <1>5, <1>6, <1>7, <1>9 DEF UIStep

LEMMA OrderCorrect ==
    ASSUME {"refilter", "drop"} \cap UICommands = {}
    PROVE  Spec => []OrderInv
<1>1. OrderInv /\ UNCHANGED vars => OrderInv'
  BY DEF OrderInv, ViewInOrder, ViewOwner, vars, storeVars, recvVars,
     recvLocals, uiVars
<1>2. TypeInv /\ OrderInv /\ [Next]_vars => OrderInv'
  BY <1>1, OrderReceiver, OrderUI DEF Next
<1> QED
  BY <1>2, OrderInit, TypeInvariant, PTL DEF Spec

(* Without a refilter the list shows every event at most once and in order *)
(* of arrival, whatever clears, edits and resets overlap the insertion of  *)
(* an event.                                                               *)
THEOREM ListInOrder ==
    ASSUME {"refilter", "drop"} \cap UICommands = {}
    PROVE  Spec => []ViewInOrder
<1>1. OrderInv => ViewInOrder
  BY DEF OrderInv
<1> QED
  BY <1>1, OrderCorrect, PTL

-----------------------------------------------------------------------------
(* Verdicts: the receiver finds the filter lock free, and carries only     *)
(* events that pass to the list.                                           *)
FilterOwner == owner["filter_info_lock"]

MatchInv ==
    /\ upc \notin Refiltering \cup {"edit", "reset"}
    /\ FilterOwner \in {"receiver", NoOne}
    /\ FilterOwner = "receiver" => rpc \in {"filter", "terminated"}
    /\ rpc \in {"drop", "enter_store", "push_store", "check_store"} =>
          (event_filtered => action \in filter_infos)
    /\ rpc \in {"enter_tip", "leave_tip", "enter_view", "push_view"} =>
          action \in filter_infos
    /\ rpc = "push_view" => Elements(view_read) \subseteq filter_infos
    /\ ViewOnlyMatches


(* A step that leaves the list, the receiver, the filter and its lock      *)
(* alone.                                                                  *)
LEMMA MatchFrame ==
    ASSUME MatchInv, FilterOwner' = FilterOwner,
           UNCHANGED <<all_filtered_actions, filter_infos, rpc, recvLocals>>,
           upc' \notin Refiltering \cup {"edit", "reset"}
    PROVE  MatchInv'
BY DEF MatchInv, recvLocals, ViewOnlyMatches, Elements

LEMMA MatchInit == Init => MatchInv
BY ElementsEmpty, NoOneAssumption
   DEF Init, MatchInv, FilterOwner, Locks, Refiltering, ViewOnlyMatches

LEMMA MatchReceiver == TypeInv /\ MatchInv /\ Receiver => MatchInv'
<1> SUFFICES ASSUME TypeInv, MatchInv, Receiver PROVE MatchInv'
  OBVIOUS
<1> USE NoOneAssumption
    DEF MatchInv, recvLocals, uiVars, uiLocals, storeVars, modeVars, Free,
        Enter, Leave, Locks, FilterOwner, ViewOnlyMatches
<1>0. /\ owner \in [Locks -> {"receiver", "ui", NoOne}]
      /\ {all_filtered_actions, view_read} \subseteq Seq(Events \cup {NoEvent})
      /\ action \in Events \cup {NoEvent}
  BY DEF TypeInv, TypeOK
<1>1. CASE RecvTryFilter
  BY <1>0, <1>1 DEF RecvTryFilter, Elements
<1>2. CASE RecvFilterBusy
  BY <1>2 DEF RecvFilterBusy
<1>3. CASE RecvFilter
  BY <1>0, <1>3 DEF RecvFilter, Elements
<1>4. CASE RecvEnterStore \/ RecvPushStore \/ RecvEnterTip \/ RecvLeaveTip
  BY <1>0, <1>4 DEF RecvEnterStore, RecvPushStore, RecvEnterTip,
     RecvLeaveTip, Elements
<1>5. CASE RecvEnterView
  BY <1>0, <1>5 DEF RecvEnterView, Elements
<1>6. CASE RecvPushView
  <2> DEFINE whole == Append(view_read, action)
  <2>1. /\ whole \in Seq(Events \cup {NoEvent})
        /\ Len(whole) = Len(view_read) + 1
        /\ Elements(whole) = Elements(view_read) \cup {action}
    BY <1>0, ElementsAppend
  <2>2. Elements(whole) \subseteq filter_infos
    BY <1>6, <2>1 DEF RecvPushView
  <2>3. Elements(all_filtered_actions') \subseteq Elements(whole)
    <3>1. CASE all_filtered_actions' = whole
      BY <3>1
    <3>2. CASE \E n \in 0..Len(whole) : all_filtered_actions' = SubSeq(whole, 1, n)
      BY <2>1, <3>2, ElementsPrefix
    <3> QED
      BY <1>6, <2>1, <3>1, <3>2 DEF RecvPushView
  <2>4. Elements(all_filtered_actions)' \subseteq filter_infos
    BY <2>2, <2>3 DEF Elements
  <2>5. FilterOwner' = FilterOwner
    BY <1>0, <1>6 DEF RecvPushView
  <2> QED
    BY <1>6, <2>4, <2>5 DEF RecvPushView
<1>7. CASE RecvLoop \/ RecvIgnore \/ RecvEvent \/ RecvCopyFailed \/ RecvDrop
           \/ RecvKeep \/ RecvStoreFailed \/ RecvStored
  BY <1>7 DEF RecvLoop, RecvIgnore, RecvEvent, RecvCopyFailed, RecvDrop,
     RecvKeep, RecvStoreFailed, RecvStored, Elements
<1>8. CASE RecvCheckView \/ RecvReadCount \/ RecvWriteCount \/ RecvPost
           \/ RecvZeroCount \/ RecvNoPost
  BY <1>8 DEF RecvCheckView, RecvReadCount, RecvWriteCount, RecvPost,
     RecvZeroCount, RecvNoPost, Elements
<1> QED
  BY <1>1, <1>2, <1>3, <1>4, <1>5, <1>6, <1>7, <1>8 DEF Receiver, RecvStep

LEMMA MatchUI ==
    ASSUME {"refilter", "drop", "edit", "reset"} \cap UICommands = {}
    PROVE  TypeInv /\ MatchInv /\ (UserCommand \/ UIStep) => MatchInv'
<1> SUFFICES ASSUME TypeInv, MatchInv, UserCommand \/ UIStep PROVE MatchInv'
  OBVIOUS
<1> USE NoOneAssumption
    DEF recvVars, uiLocals, uiVars, storeVars, modeVars, Free, Enter, Leave,
        Locks
<1>0. owner \in [Locks -> {"receiver", "ui", NoOne}]
  BY DEF TypeInv, TypeOK
<1>1. ASSUME NEW from, NEW to, ClearView(from, to),
             to \notin Refiltering \cup {"edit", "reset"}
      PROVE  MatchInv'
  <2>1. Elements(all_filtered_actions)' = {}
    BY <1>1 DEF ClearView, Elements
  <2> QED
    BY <1>1, <2>1 DEF ClearView, MatchInv, recvLocals, FilterOwner,
       ViewOnlyMatches, Elements
<1>2. ASSUME NEW from, NEW to, ClearStore(from, to),
             to \notin Refiltering \cup {"edit", "reset"}
      PROVE  MatchInv'
  BY <1>2, MatchFrame DEF ClearStore, FilterOwner
<1>3. CASE UserCommand
  <2>1. ~UIDrop /\ ~UIRefilter /\ ~UIEdit /\ ~UIReset
    BY DEF UIDrop, UIRefilter, UIEdit, UIReset, Command
  <2>2. CASE SaveStart \/ UISwitch \/ UIClear \/ UIExit
    BY <1>0, <2>2, MatchFrame DEF SaveStart, UISave, UISwitch, UIClear,
       UIExit, Command, Refiltering, FilterOwner
  <2> QED
    BY <1>3, <2>1, <2>2 DEF UserCommand
<1>4. CASE SaveEnd \/ SetItemRealCount \/ UIRefreshed \/ OnItemAdded
           \/ ItemsFilled
  BY <1>0, <1>4, MatchFrame DEF SaveEnd, UISaved, SetItemRealCount,
     UIRefreshed, OnItemAdded, ItemsFilled, Refiltering, FilterOwner, MatchInv
<1>5. CASE UIEdited \/ UIResetDone
  BY <1>5 DEF UIEdited, UIResetDone, MatchInv
<1>6. CASE Refilter
  <2>1. RefilterGetCount
    BY <1>6 DEF Refilter, RefilterEnterTip, EnterTip, RefilterStopTrace,
       ZeroCount, RefilterClearView, RefilterBegin, RefilterBound,
       RefilterRead, RefilterTryFilter, RefilterFilterBusy, RefilterMatch,
       RefilterSkip, RefilterPush, RefilterLeaveTip, LeaveTip, MatchInv,
       Refiltering
  <2> QED
    BY <2>1, MatchFrame DEF RefilterGetCount, Refiltering, FilterOwner
<1>7. CASE Clear
  BY <1>0, <1>1, <1>2, <1>7, MatchFrame DEF Clear, ClearEnterTip, EnterTip,
     ClearStopTrace, ZeroCount, ClearAllView, ClearAllStore, ClearLeaveTip,
     LeaveTip, ClearZeroList, Refiltering, FilterOwner
<1>8. CASE ExitTerminate
  BY <1>8 DEF ExitTerminate, MatchInv, recvLocals, Refiltering, FilterOwner,
     ViewOnlyMatches, Elements
<1>9. CASE ExitReleaseFilters
  <2>1. /\ filter_infos' = Events /\ upc' = "exit_view"
        /\ UNCHANGED <<all_filtered_actions, rpc, recvLocals, owner>>
    BY <1>9 DEF ExitReleaseFilters
  <2>2. filter_infos \subseteq Events
    BY DEF TypeInv, TypeOK
  <2> QED
    BY <2>1, <2>2 DEF MatchInv, recvLocals, Refiltering, FilterOwner,
       ViewOnlyMatches, Elements
<1>10. CASE Exit
  BY <1>1, <1>2, <1>8, <1>9, <1>10, MatchFrame DEF Exit, ExitJoined,
     ExitClearView, ExitClearStore, Refiltering, FilterOwner
<1> QED
  BY <1>3, <1>4, <1>5, <1>6, <1>7, <1>10 DEF UIStep

(* While nobody but the receiver takes the filter lock, only events that   *)
(* pass the filter reach the list, whatever clears, saves, switches of the *)
(* log and an exit do meanwhile.                                           *)
THEOREM ListOnlyMatches ==
    ASSUME {"refilter", "drop", "edit", "reset"} \cap UICommands = {}
    PROVE  Spec => []ViewOnlyMatches
<1>1. MatchInv /\ UNCHANGED vars => MatchInv'
  BY DEF MatchInv, ViewOnlyMatches, Elements, FilterOwner, vars, storeVars,
     modeVars, recvVars, recvLocals, uiVars
<1>2. TypeInv /\ MatchInv /\ [Next]_vars => MatchInv'
  BY <1>1, MatchReceiver, MatchUI DEF Next
<1>3. MatchInv => ViewOnlyMatches
  BY DEF MatchInv
<1> QED
  BY <1>2, <1>3, MatchInit, TypeInvariant, PTL DEF Spec

-----------------------------------------------------------------------------
(* Completeness: an event that passes the filter throughout is carried to  *)
(* the list, and the scan of a refilter has put into the list what it went *)
(* past.  When the list was emptied between the two halves of the          *)
(* receiver's push, which may then write back less than it pushed, nothing *)
(* of the kind is in the store outside a rebuild: the refilter's own pushes*)
(* wait for the lock the receiver holds.                                   *)
Scanning == {"scan", "read", "try_filter", "filter", "push_view"}

Shown(e) == e \in Elements(all_filtered_actions)

Due == Elements(all_actions) \cap AlwaysPass

MissInv ==
    /\ upc # "reset"
    /\ AlwaysPass \subseteq filter_infos
    /\ rpc \in {"drop", "enter_store", "push_store", "check_store"} =>
          (action \in AlwaysPass => event_filtered)
    /\ upc \in Scanning =>
          \A k \in 1..scan - 1 :
             /\ k \in DOMAIN all_actions
             /\ all_actions[k] \in AlwaysPass => Shown(all_actions[k])
    /\ upc \in {"try_filter", "filter", "push_view"} =>
          scan \in DOMAIN all_actions /\ scanned = all_actions[scan]
    /\ ~Rebuilding /\ ~Stopping =>
          \A e \in Due :
             \/ Shown(e)
             \/ /\ Adding(e)
                /\ rpc = "push_view" => all_filtered_actions = view_read


(* A step that leaves the two vectors, the filter and the receiver alone,  *)
(* and does not bring the scan on.                                         *)
LEMMA MissFrame ==
    ASSUME MissInv,
           UNCHANGED <<all_actions, all_filtered_actions, filter_infos, scan,
                       scanned, rpc, recvLocals>>,
           upc' # "reset",
           upc' \in Scanning => upc \in Scanning,
           upc' \in {"try_filter", "filter", "push_view"} =>
              upc \in {"try_filter", "filter", "push_view"},
           Rebuilding \/ Stopping => Rebuilding' \/ Stopping'
    PROVE  MissInv'
BY DEF MissInv, recvLocals, Shown, Due, Elements, Adding

LEMMA MissInit == Init => MissInv
BY ElementsEmpty
   DEF Init, MissInv, Due, Scanning, AlwaysPass

LEMMA MissReceiver ==
    TypeInv /\ TipInv /\ ViewInv /\ MissInv /\ Receiver => MissInv'
<1> SUFFICES ASSUME TypeInv, TipInv, ViewInv, MissInv, Receiver PROVE MissInv'
  OBVIOUS
<1> USE DEF recvLocals, uiVars, uiLocals, storeVars, modeVars, Rebuilding,
            Stopping, Adding
<1>0. /\ all_actions \in Seq(Events) /\ scan \in Nat
      /\ {all_filtered_actions, view_read} \subseteq Seq(Events \cup {NoEvent})
      /\ action \in Events \cup {NoEvent}
      /\ rpc \in Holding => action \in Events
  BY DEF TypeInv, TypeOK, ActionTaken
<1>1. CASE RecvPushStore
  <2>1. /\ all_actions' = Append(all_actions, action) /\ action \in Events
        /\ rpc = "push_store" /\ rpc' = "check_store"
        /\ UNCHANGED <<all_filtered_actions, filter_infos, action,
                       event_filtered, view_read, upc, scan, scanned>>
    BY <1>0, <1>1 DEF RecvPushStore, Holding
  <2>2. /\ DOMAIN all_actions \subseteq DOMAIN all_actions'
        /\ \A k \in DOMAIN all_actions : all_actions'[k] = all_actions[k]
        /\ Elements(all_actions') = Elements(all_actions) \cup {action}
    BY <1>0, <2>1, ElementsAppend
  <2>3. \A e : Shown(e)' <=> Shown(e)
    BY <2>1 DEF Shown, Elements
  <2>4. \A e \in Due' : e \in Due \/ e = action
    <3>1. Due' = Elements(all_actions') \cap AlwaysPass
      BY DEF Due, Elements, AlwaysPass
    <3> QED
      BY <2>2, <3>1 DEF Due
  <2> QED
    BY <2>1, <2>2, <2>3, <2>4 DEF MissInv, AlwaysPass
<1>2. CASE RecvPushView
  <2>1. /\ UNCHANGED <<all_actions, filter_infos, action, upc, scan, scanned>>
        /\ rpc = "push_view" /\ rpc' = "check_view"
        /\ all_filtered_actions \in {<<>>, view_read}
    BY <1>2 DEF RecvPushView, ViewInv
  <2>2. Due' = Due
    BY <2>1 DEF Due, Elements, AlwaysPass
  <2>3. CASE all_filtered_actions = view_read
    <3>1. all_filtered_actions' = Append(all_filtered_actions, action)
      BY <1>2, <2>3 DEF RecvPushView
    <3>2. Elements(all_filtered_actions') =
             Elements(all_filtered_actions) \cup {action}
      BY <1>0, <3>1, ElementsAppend
    <3>3. \A e : Shown(e)' <=> Shown(e) \/ e = action
      <4>1. \A e : Shown(e)' <=> e \in Elements(all_filtered_actions')
        BY DEF Shown, Elements
      <4> QED
        BY <3>2, <4>1 DEF Shown
    <3> QED
      BY <2>1, <2>2, <3>3 DEF MissInv, AlwaysPass
  <2>4. CASE all_filtered_actions # view_read
    <3>1. \A e : ~Shown(e)
      BY <2>1, <2>4, ElementsEmpty DEF Shown
    <3> QED
      BY <2>1, <2>2, <2>4, <3>1 DEF MissInv, AlwaysPass
  <2> QED
    BY <2>3, <2>4
<1>3. CASE RecvLeaveTip
  <2>1. ~filtering_event
    BY <1>3, NotReadyNever DEF RecvLeaveTip, NotReadyUnreachable
  <2> QED
    BY <1>3, <2>1 DEF RecvLeaveTip, MissInv, AlwaysPass, Shown, Due, Elements
<1>4. CASE RecvEnterView
  BY <1>4 DEF RecvEnterView, MissInv, AlwaysPass, Shown, Due, Elements
<1>5. CASE RecvStored
  BY <1>5 DEF RecvStored, MissInv, AlwaysPass, Shown, Due, Elements
<1>6. CASE RecvStoreFailed
  BY <1>6 DEF RecvStoreFailed, ViewInv
<1>7. CASE RecvFilter \/ RecvFilterBusy
  BY <1>7 DEF RecvFilter, RecvFilterBusy, MissInv, AlwaysPass, Shown, Due,
     Elements
<1>8. CASE RecvTryFilter \/ RecvEnterStore \/ RecvEnterTip
  BY <1>8 DEF RecvTryFilter, RecvEnterStore, RecvEnterTip, MissInv,
     AlwaysPass, Shown, Due, Elements
<1>9. CASE RecvLoop \/ RecvIgnore \/ RecvEvent \/ RecvCopyFailed \/ RecvDrop
           \/ RecvKeep
  BY <1>9 DEF RecvLoop, RecvIgnore, RecvEvent, RecvCopyFailed, RecvDrop,
     RecvKeep, MissInv, AlwaysPass, Shown, Due, Elements
<1>10. CASE RecvCheckView \/ RecvReadCount \/ RecvWriteCount \/ RecvPost
            \/ RecvZeroCount \/ RecvNoPost
  BY <1>10 DEF RecvCheckView, RecvReadCount, RecvWriteCount, RecvPost,
     RecvZeroCount, RecvNoPost, MissInv, AlwaysPass, Shown, Due, Elements
<1> QED
  BY <1>1, <1>2, <1>3, <1>4, <1>5, <1>6, <1>7, <1>8, <1>9, <1>10
     DEF Receiver, RecvStep

LEMMA MissUI ==
    ASSUME {"clear", "reset"} \cap UICommands = {}, Reallocates = {}
    PROVE  TypeInv /\ ViewInv /\ MissInv /\ (UserCommand \/ UIStep) => MissInv'
<1> SUFFICES ASSUME TypeInv, ViewInv, MissInv, UserCommand \/ UIStep
             PROVE  MissInv'
  OBVIOUS
<1> USE DEF recvVars, uiLocals, uiVars, storeVars, modeVars, Rebuilding,
            Stopping, Scanning
<1>0. /\ all_actions \in Seq(Events) /\ scan \in Nat
      /\ all_filtered_actions \in Seq(Events \cup {NoEvent})
      /\ scanned \in Events \cup {NoEvent}
  BY DEF TypeInv, TypeOK
<1>1. CASE UserCommand
  <2>1. ~UIClear /\ ~UIReset
    BY DEF UIClear, UIReset, Command
  <2>2. CASE UISwitch \/ UIDrop \/ UIEdit \/ UIRefilter \/ SaveStart \/ UIExit
    BY <2>2, MissFrame DEF UISwitch, UIDrop, UIEdit, UIRefilter, SaveStart,
       UISave, UIExit, Command
  <2> QED
    BY <1>1, <2>1, <2>2 DEF UserCommand
<1>2. CASE UIEdited
  <2>1. AlwaysPass \subseteq filter_infos'
    BY <1>2 DEF UIEdited, AlwaysPass
  <2> QED
    BY <1>2, <2>1 DEF UIEdited, MissInv, recvLocals, Shown, Due, Elements,
       Adding
<1>3. CASE UIResetDone
  BY <1>3 DEF UIResetDone, MissInv
<1>4. CASE SetItemRealCount \/ UIRefreshed \/ SaveEnd \/ OnItemAdded
           \/ ItemsFilled
  BY <1>4, MissFrame DEF SetItemRealCount, UIRefreshed, SaveEnd, UISaved,
     OnItemAdded, ItemsFilled
<1>5. CASE RefilterClearView
  BY <1>5 DEF RefilterClearView, MissInv, recvLocals, AlwaysPass
<1>6. CASE RefilterBegin
  <2>1. /\ UNCHANGED <<storeVars, filter_infos, rpc, recvLocals, scanned>>
        /\ scan' = 1 /\ upc = "begin_scan"
    BY <1>6 DEF RefilterBegin
  <2>2. CASE all_actions = <<>>
    <3>1. upc' = "leave_tip_refilter" /\ Due' = {}
      BY <1>6, <2>1, <2>2, ElementsEmpty DEF RefilterBegin, Due, Elements
    <3> QED
      BY <2>1, <3>1 DEF MissInv, recvLocals, AlwaysPass
  <2>3. CASE all_actions # <<>>
    <3>1. upc' = "scan"
      BY <1>6, <2>3 DEF RefilterBegin
    <3> QED
      BY <2>1, <3>1 DEF MissInv, recvLocals, AlwaysPass
  <2> QED
    BY <2>2, <2>3
<1>7. CASE RefilterBound
  <2>1. UNCHANGED <<storeVars, filter_infos, rpc, recvLocals, scan, scanned>>
    BY <1>7 DEF RefilterBound
  <2>2. CASE scan > Len(all_actions)
    <3>1. upc = "scan" /\ upc' = "leave_tip_refilter"
      BY <1>7, <2>2 DEF RefilterBound
    <3>2. DOMAIN all_actions \subseteq 1..scan - 1
      BY <1>0, <2>2
    <3>3. \A e \in Due : Shown(e)
      BY <3>1, <3>2 DEF Due, Elements, MissInv
    <3> QED
      BY <2>1, <3>1, <3>3 DEF MissInv, recvLocals, AlwaysPass, Shown, Due,
         Elements
  <2>3. CASE ~(scan > Len(all_actions))
    BY <1>7, <2>1, <2>3, MissFrame DEF RefilterBound
  <2> QED
    BY <2>2, <2>3
<1>8. CASE RefilterRead
  <2>1. scanned' = all_actions[scan] /\ scan \in DOMAIN all_actions
    BY <1>0, <1>8 DEF RefilterRead, TypeInv, ScanInStore
  <2> QED
    BY <1>8, <2>1 DEF RefilterRead, MissInv, recvLocals, AlwaysPass, Shown,
       Due, Elements
<1>9. CASE RefilterSkip
  <2>1. /\ UNCHANGED <<storeVars, filter_infos, rpc, recvLocals, scanned>>
        /\ upc = "filter" /\ upc' = "scan" /\ scan' = scan + 1
        /\ scanned \notin AlwaysPass
    BY <1>9 DEF RefilterSkip, RefilterFails, MissInv
  <2>2. \A k \in 1..scan' - 1 : k \in 1..scan - 1 \/ k = scan
    BY <1>0, <2>1
  <2> QED
    BY <2>1, <2>2 DEF MissInv, recvLocals, AlwaysPass, Shown, Elements
<1>10. CASE RefilterPush
  <2>1. /\ UNCHANGED <<all_actions, filter_infos, rpc, recvLocals, scanned>>
        /\ upc = "push_view" /\ upc' = "scan" /\ scan' = scan + 1
        /\ all_filtered_actions' = Append(all_filtered_actions, scanned)
    BY <1>10 DEF RefilterPush
  <2>2. \A k \in 1..scan' - 1 : k \in 1..scan - 1 \/ k = scan
    BY <1>0, <2>1
  <2>3. Elements(all_filtered_actions') =
           Elements(all_filtered_actions) \cup {scanned}
    BY <1>0, <2>1, ElementsAppend
  <2>4. \A e : Shown(e)' <=> e \in Elements(all_filtered_actions')
    BY DEF Shown, Elements
  <2>5. \A e : Shown(e) \/ e = scanned => Shown(e)'
    BY <2>3, <2>4 DEF Shown
  <2> QED
    BY <2>1, <2>2, <2>5 DEF MissInv, recvLocals, AlwaysPass
<1>11. CASE Refilter
  BY <1>5, <1>6, <1>7, <1>8, <1>9, <1>10, <1>11, MissFrame DEF Refilter,
     RefilterEnterTip, EnterTip, RefilterStopTrace, ZeroCount,
     RefilterTryFilter, RefilterFilterBusy, RefilterMatch, RefilterLeaveTip,
     LeaveTip, RefilterGetCount
<1>12. CASE Clear
  BY <1>12 DEF Clear, ClearEnterTip, EnterTip, ClearStopTrace, ZeroCount,
     ClearAllView, ClearView, ClearAllStore, ClearStore, ClearLeaveTip,
     LeaveTip, ClearZeroList, ViewInv, Clearing
<1>13. CASE Exit
  <2>1. AlwaysPass \subseteq Events
    BY FiltersAssumption DEF AlwaysPass
  <2>2. CASE ExitReleaseFilters
    BY <2>1, <2>2 DEF ExitReleaseFilters, MissInv, recvLocals, AlwaysPass
  <2> QED
    BY <1>13, <2>2 DEF Exit, ExitJoined, ExitTerminate, ExitClearView,
       ClearView, ExitClearStore, ClearStore, MissInv, recvLocals,
       AlwaysPass
<1> QED
  BY <1>1, <1>2, <1>3, <1>4, <1>11, <1>12, <1>13 DEF UIStep

(* For users who neither clear the store nor reset the filter, and a       *)
(* vector that does not move while it is read: a stored event that passes  *)
(* the filter throughout is in the list whenever nothing is being rebuilt, *)
(* although the list is emptied without its lock while the receiver may be *)
(* between the two halves of a push.                                       *)
THEOREM NothingMissed ==
    ASSUME {"clear", "reset"} \cap UICommands = {}, Reallocates = {}
    PROVE  Spec => []NoMissedMatch
<1>1. MissInv /\ UNCHANGED vars => MissInv'
  BY DEF MissInv, AlwaysPass, Shown, Due, Elements, Adding, Scanning,
     Rebuilding, Stopping, vars, storeVars, modeVars, recvVars, recvLocals,
     uiVars, uiLocals
<1>2. TypeInv /\ TipInv /\ ViewInv /\ MissInv /\ [Next]_vars => MissInv'
  BY <1>1, MissReceiver, MissUI DEF Next
<1>3. MissInv => NoMissedMatch
  BY DEF MissInv, NoMissedMatch, Due, Shown
<1>4. Spec => []ViewInv
  BY ViewCorrect
<1> QED
  BY <1>2, <1>3, <1>4, MissInit, TypeInvariant, TipCorrect, PTL DEF Spec

-----------------------------------------------------------------------------
(* Sums of messages.  The prover does not know of recursive functions: what*)
(* Total computes is by induction on the length, as a statement about a set*)
(* of numbers.                                                             *)

LEMMA NumbersWellFounded ==
    \E R : IsWellFoundedOn(R, Nat) /\ \A x, y \in Nat : <<y, x>> \in R <=> y < x
<1>1. IsWellFoundedOn(OpToRel(<, Nat), Nat)
  BY NatLessThanWellFounded
<1>2. \A x, y \in Nat : <<y, x>> \in OpToRel(<, Nat) <=> y < x
  BY DEF OpToRel
<1> QED
  BY <1>1, <1>2

LEMMA SetInduction ==
    ASSUME NEW S \in SUBSET Nat, 0 \in S, \A n \in S : n + 1 \in S
    PROVE  S = Nat
<1>1. PICK R : IsWellFoundedOn(R, Nat) /\ \A x, y \in Nat : <<y, x>> \in R <=> y < x
  BY NumbersWellFounded
<1>2. SUFFICES ASSUME Nat \ S # {} PROVE FALSE
  OBVIOUS
<1>3. PICK m \in Nat \ S : \A n \in Nat \ S : ~(<<n, m>> \in R)
  BY <1>1, <1>2, WFMin
<1>4. m - 1 \in Nat
  BY <1>3
<1>5. m - 1 \in S
  <2>1. m \in Nat /\ m - 1 < m
    BY <1>3
  <2>2. <<m - 1, m>> \in R
    BY <1>1, <1>4, <2>1
  <2> QED
    BY <1>3, <1>4, <2>2
<1> QED
  BY <1>3, <1>4, <1>5

(* f[n] is the sum of the first n numbers.                                 *)
SumsUp(f, s, last) ==
    /\ f[0] = 0
    /\ \A n \in 1 .. last : f[n] = f[n - 1] + s[n]

LEMMA TotalIs ==
    ASSUME NEW s \in Seq(Nat), NEW f \in [0 .. Len(s) -> Int],
           SumsUp(f, s, Len(s))
    PROVE  Total(s) = f[Len(s)]
<1> DEFINE Built(g) == g = [n \in 0 .. Len(s) |->
                               IF n = 0 THEN 0 ELSE g[n - 1] + s[n]]
           k == CHOOSE g : Built(g)
<1>1. Built(f)
  <2>1. \A n \in 0 .. Len(s) : f[n] = IF n = 0 THEN 0 ELSE f[n - 1] + s[n]
    BY DEF SumsUp
  <2> QED
    BY <2>1
<1>2. Built(k)
  BY <1>1, Zenon
<1>3. Total(s) = k[Len(s)]
  BY DEF Total
<1> HIDE DEF k
<1>4. k[0] = 0 /\ \A n \in 1 .. Len(s) : k[n] = k[n - 1] + s[n]
  BY <1>2
<1> DEFINE Same == {n \in Nat : n <= Len(s) => k[n] = f[n]}
<1>5. 0 \in Same
  BY <1>4 DEF SumsUp
<1>6. ASSUME NEW n \in Same PROVE n + 1 \in Same
  <2> SUFFICES ASSUME n + 1 <= Len(s) PROVE k[n + 1] = f[n + 1]
    OBVIOUS
  <2>1. n + 1 \in 1 .. Len(s) /\ (n + 1) - 1 = n /\ k[n] = f[n]
    OBVIOUS
  <2> QED
    BY <1>4, <2>1 DEF SumsUp
<1>7. Same = Nat
  <2> HIDE DEF Same
  <2>1. Same \in SUBSET Nat
    BY DEF Same
  <2> QED
    BY <1>5, <1>6, <2>1, SetInduction
<1> QED
  BY <1>3, <1>7

LEMMA SumsExist ==
    ASSUME NEW s \in Seq(Nat)
    PROVE  \E f \in [0 .. Len(s) -> Nat] : SumsUp(f, s, Len(s))
<1> DEFINE Good == {n \in Nat : n <= Len(s) =>
              \E f \in [0 .. n -> Nat] : SumsUp(f, s, n)}
<1>1. 0 \in Good
  <2> DEFINE f == [n \in 0 .. 0 |-> 0]
  <2>1. f \in [0 .. 0 -> Nat] /\ SumsUp(f, s, 0)
    BY DEF SumsUp
  <2> HIDE DEF f
  <2> QED
    BY <2>1
<1>2. ASSUME NEW n \in Good PROVE n + 1 \in Good
  <2>0. n \in Nat /\ n + 1 \in Nat
    OBVIOUS
  <2> SUFFICES ASSUME n + 1 <= Len(s)
               PROVE  \E f \in [0 .. n + 1 -> Nat] : SumsUp(f, s, n + 1)
    BY <2>0
  <2>1. PICK f \in [0 .. n -> Nat] : SumsUp(f, s, n)
    BY <2>0
  <2> DEFINE g == [m \in 0 .. n + 1 |-> IF m <= n THEN f[m] ELSE f[n] + s[n + 1]]
  <2>2. s[n + 1] \in Nat /\ f[n] \in Nat /\ n \in Nat
    <3>1. n + 1 \in 1 .. Len(s)
      OBVIOUS
    <3> QED
      BY <3>1
  <2>3. g \in [0 .. n + 1 -> Nat]
    BY <2>2
  <2>5. /\ \A m \in 0 .. n : g[m] = f[m]
        /\ g[n + 1] = f[n] + s[n + 1]
    BY <2>2
  <2> HIDE DEF g
  <2>4. SumsUp(g, s, n + 1)
    <3>1. g[0] = 0
      BY <2>1, <2>2, <2>5 DEF SumsUp
    <3>2. ASSUME NEW m \in 1 .. n + 1 PROVE g[m] = g[m - 1] + s[m]
      <4>1. CASE m \in 1 .. n
        <5>1. m \in 0 .. n /\ m - 1 \in 0 .. n
          BY <2>2, <4>1
        <5>2. f[m] = f[m - 1] + s[m]
          BY <2>1, <4>1 DEF SumsUp
        <5> QED
          BY <2>5, <5>1, <5>2
      <4>2. CASE m = n + 1
        <5>1. g[n] = f[n] /\ (n + 1) - 1 = n
          BY <2>2, <2>5
        <5> QED
          BY <2>5, <4>2, <5>1
      <4> QED
        BY <2>2, <4>1, <4>2
    <3> QED
      BY <3>1, <3>2 DEF SumsUp
  <2> QED
    BY <2>3, <2>4
<1>3. Good = Nat
  <2> HIDE DEF Good
  <2>1. Good \in SUBSET Nat
    BY DEF Good
  <2> QED
    BY <1>1, <1>2, <2>1, SetInduction
<1> QED
  BY <1>3

LEMMA TotalNat ==
    ASSUME NEW s \in Seq(Nat)
    PROVE  Total(s) \in Nat
<1>1. PICK f \in [0 .. Len(s) -> Nat] : SumsUp(f, s, Len(s))
  BY SumsExist
<1> QED
  BY <1>1, TotalIs

LEMMA TotalEmpty == Total(<<>>) = 0
<1> DEFINE f == [n \in 0 .. 0 |-> 0]
<1>1. f \in [0 .. Len(<<>>) -> Int] /\ SumsUp(f, <<>>, Len(<<>>)) /\ f[Len(<<>>)] = 0
  BY DEF SumsUp
<1>2. <<>> \in Seq(Nat)
  OBVIOUS
<1> HIDE DEF f
<1> QED
  BY <1>1, <1>2, TotalIs

LEMMA TotalAppend ==
    ASSUME NEW s \in Seq(Nat), NEW x \in Nat
    PROVE  Total(Append(s, x)) = Total(s) + x
<1>1. PICK f \in [0 .. Len(s) -> Nat] : SumsUp(f, s, Len(s))
  BY SumsExist
<1>2. PICK n \in Nat : n = Len(s)
  OBVIOUS
<1> DEFINE t == Append(s, x)
           g == [m \in 0 .. n + 1 |-> IF m <= n THEN f[m] ELSE f[n] + x]
<1>3. /\ t \in Seq(Nat) /\ Len(t) = n + 1 /\ t[n + 1] = x
      /\ \A m \in 1 .. n : t[m] = s[m]
  BY <1>2
<1>4. g \in [0 .. n + 1 -> Int] /\ g[n + 1] = f[n] + x
  BY <1>2
<1>5. SumsUp(g, t, n + 1)
  <2> HIDE DEF t
  <2> QED
    BY <1>1, <1>2, <1>3 DEF SumsUp
<1>6. Total(s) = f[n]
  BY <1>1, <1>2, TotalIs
<1> HIDE DEF g, t
<1>7. Total(t) = g[n + 1]
  BY <1>3, <1>4, <1>5, TotalIs
<1> QED
  BY <1>4, <1>6, <1>7 DEF t

LEMMA TotalTail ==
    ASSUME NEW s \in Seq(Nat), s # <<>>
    PROVE  Total(s) = Head(s) + Total(Tail(s))
<1>1. PICK f \in [0 .. Len(s) -> Nat] : SumsUp(f, s, Len(s))
  BY SumsExist
<1>2. PICK n \in Nat : n = Len(s) - 1
  OBVIOUS
<1> DEFINE t == Tail(s)
           g == [m \in 0 .. n |-> f[m + 1] - f[1]]
<1>3. /\ t \in Seq(Nat) /\ Len(t) = n /\ Head(s) = s[1]
      /\ \A m \in 1 .. n : t[m] = s[m + 1]
      /\ Len(s) = n + 1
  BY <1>2
<1>4. g \in [0 .. n -> Int] /\ g[n] = f[n + 1] - f[1]
  BY <1>3
<1>5. SumsUp(g, t, n)
  <2> HIDE DEF t
  <2>1. g[0] = 0
    BY <1>3
  <2>2. ASSUME NEW m \in 1 .. n PROVE g[m] = g[m - 1] + t[m]
    <3>1. m + 1 \in 1 .. Len(s) /\ (m + 1) - 1 = m
      BY <1>3
    <3>2. f[m + 1] = f[m] + s[m + 1]
      BY <1>1, <3>1 DEF SumsUp
    <3>3. g[m] = f[m + 1] - f[1] /\ g[m - 1] = f[m] - f[1]
      OBVIOUS
    <3>4. {m, m + 1, 1} \subseteq 0 .. Len(s) /\ s[m + 1] \in Nat
      BY <1>3
    <3> HIDE DEF g
    <3> QED
      BY <1>3, <3>2, <3>3, <3>4
  <2> QED
    BY <2>1, <2>2 DEF SumsUp
<1>6. Total(s) = f[n + 1] /\ f[1] = s[1]
  <2>1. 1 \in 1 .. Len(s) /\ 1 - 1 = 0
    BY <1>3
  <2>2. f[1] = s[1]
    BY <1>1, <2>1 DEF SumsUp
  <2> QED
    BY <1>1, <1>3, <2>2, TotalIs
<1> HIDE DEF g, t
<1>7. Total(t) = g[n]
  BY <1>3, <1>4, <1>5, TotalIs
<1>8. f[n + 1] \in Nat /\ f[1] \in Nat
  BY <1>3
<1> QED
  BY <1>3, <1>4, <1>6, <1>7, <1>8 DEF t

-----------------------------------------------------------------------------
(* What the user interface has been told or is going to be: as Announced,  *)
(* but a counter about to be overwritten counts as what is written.        *)
Counted ==
    IF rpc = "write_count" THEN count_read
    ELSE IF rpc = "zero_count" THEN 0 ELSE filtered_action_count

ToldOf ==
    Total(ui_messages) + (IF upc = "items_added" THEN log_count ELSE 0) + Counted

(* The receiver has stored an event it has not counted yet ...             *)
Storing ==
    rpc \in {"check_store", "enter_tip", "leave_tip", "enter_view",
             "push_view", "check_view", "read_count", "write_count"}

(* ... and has put it into the list.                                       *)
Listing ==
    \/ rpc \in {"read_count", "write_count"}
    \/ rpc = "check_view" /\ Len(all_filtered_actions) > Len(view_read)

(* While nothing is freed, no more rows are told of than the store has     *)
(* events, and no more than the list has, but for an instant in a clear of *)
(* an empty store.                                                         *)
Untouched == 1..delivered \subseteq live /\ ~Stopping

CountInv ==
    /\ rpc = "write_count" => filtered_action_count <= count_read
    /\ Untouched =>
          /\ ToldOf <= Len(all_actions)
          /\ Storing => ToldOf + 1 <= Len(all_actions)
    /\ Untouched /\ upc \notin {"clear_all_view", "clear_all_store"} =>
          /\ ToldOf <= Len(all_filtered_actions)
          /\ Listing => ToldOf + 1 <= Len(all_filtered_actions)

LEMMA CountTyped ==
    ASSUME TypeInv
    PROVE  /\ Total(ui_messages) \in Nat /\ Counted \in Nat /\ log_count \in Nat
           /\ Len(all_actions) \in Nat /\ Len(all_filtered_actions) \in Nat
           /\ Len(view_read) \in Nat /\ filtered_action_count \in Nat
           /\ count_read \in Nat /\ ui_messages \in Seq(Nat)
           /\ delivered \in Nat /\ ToldOf \in Nat
<1>1. ui_messages \in Seq(Nat)
  BY DEF TypeInv, TypeOK
<1>2. Total(ui_messages) \in Nat
  BY <1>1, TotalNat
<1> QED
  BY <1>1, <1>2, MaxEventsAssumption DEF TypeInv, TypeOK, Counted, ToldOf

(* Steps that leave the lists and the counts alone, or count less.         *)
LEMMA CountFrame ==
    ASSUME TypeInv, CountInv, Untouched' => Untouched,
           UNCHANGED <<all_actions, all_filtered_actions, view_read>>,
           ToldOf' \in Nat, ToldOf' <= ToldOf,
           Storing' => Storing, Listing' => Listing,
           rpc' = "write_count" => filtered_action_count' <= count_read',
           upc \in {"clear_all_view", "clear_all_store"} =>
              upc' \in {"clear_all_view", "clear_all_store"}
    PROVE  CountInv'
<1>1. /\ ToldOf \in Nat /\ Len(all_actions) \in Nat
      /\ Len(all_filtered_actions) \in Nat
  BY CountTyped
<1> QED
  BY <1>1 DEF CountInv

LEMMA CountInit == Init => CountInv
<1> SUFFICES ASSUME Init PROVE CountInv
  OBVIOUS
<1>1. ToldOf = 0
  BY TotalEmpty DEF Init, ToldOf, Counted
<1> QED
  BY <1>1 DEF Init, CountInv, Storing, Listing

LEMMA CountReceiver ==
    TypeInv /\ OrderInv /\ CountInv /\ Receiver => CountInv'
<1> SUFFICES ASSUME TypeInv, OrderInv, CountInv, Receiver PROVE CountInv'
  OBVIOUS
<1> USE DEF storeVars, recvLocals, uiVars, uiLocals, noteVars
<1>0. /\ Total(ui_messages) \in Nat /\ log_count \in Nat
      /\ filtered_action_count \in Nat /\ count_read \in Nat
      /\ Len(all_actions) \in Nat /\ Len(all_filtered_actions) \in Nat
      /\ delivered \in Nat /\ ToldOf \in Nat
  BY CountTyped
<1>1. CASE RecvEvent \/ RecvCopyFailed
  <2>1. Untouched' => Untouched
    <3>1. /\ upc' = upc /\ delivered' = delivered + 1
          /\ live' = live \cup {delivered + 1} \/ live' = live
      BY <1>1 DEF RecvEvent, RecvCopyFailed
    <3>2. \A n \in 1 .. delivered : n \in 1 .. delivered + 1 /\ n # delivered + 1
      BY <1>0
    <3> QED
      BY <3>1, <3>2 DEF Untouched, Stopping
  <2>2. /\ UNCHANGED <<all_actions, all_filtered_actions, view_read, upc, ui_messages,
                       log_count, filtered_action_count>>
        /\ rpc = "recv" /\ rpc' \in {"try_filter", "notify"}
    BY <1>1 DEF RecvEvent, RecvCopyFailed
  <2>3. ToldOf' = ToldOf /\ ~Storing' /\ ~Listing'
    BY <2>2 DEF ToldOf, Counted, Storing, Listing
  <2> QED
    BY <1>0, <2>1, <2>2, <2>3, CountFrame
<1>2. CASE RecvDrop \/ RecvStoreFailed
  <2>1. /\ UNCHANGED <<all_actions, all_filtered_actions, view_read, upc, ui_messages,
                       log_count, filtered_action_count, delivered>>
        /\ rpc \in {"drop", "check_store"} /\ rpc' = "notify" /\ live' \subseteq live
    BY <1>2 DEF RecvDrop, RecvStoreFailed
  <2>2. ToldOf' = ToldOf /\ ~Storing' /\ ~Listing' /\ (Untouched' => Untouched)
    BY <2>1 DEF ToldOf, Counted, Storing, Listing, Untouched, Stopping
  <2> QED
    BY <1>0, <2>1, <2>2, CountFrame
<1>3. CASE RecvLoop \/ RecvIgnore \/ RecvTryFilter \/ RecvFilterBusy
           \/ RecvFilter \/ RecvKeep \/ RecvEnterStore \/ RecvStored
           \/ RecvEnterTip \/ RecvLeaveTip \/ RecvNoPost
  <2>1. /\ UNCHANGED <<all_actions, all_filtered_actions, view_read, upc, ui_messages,
                       log_count, filtered_action_count, delivered, live>>
        /\ rpc \notin {"write_count", "zero_count", "check_view", "read_count"}
        /\ rpc' \notin {"write_count", "zero_count", "check_view", "read_count"}
        /\ Storing' => Storing
    BY <1>3 DEF RecvLoop, RecvIgnore, RecvTryFilter, RecvFilterBusy,
       RecvFilter, RecvKeep, RecvEnterStore, RecvStored, RecvEnterTip,
       RecvLeaveTip, RecvNoPost, Storing
  <2>2. ToldOf' = ToldOf /\ ~Listing' /\ (Untouched' => Untouched)
    BY <2>1 DEF ToldOf, Counted, Listing, Untouched, Stopping
  <2> QED
    BY <1>0, <2>1, <2>2, CountFrame
<1>4. CASE RecvPushStore
  <2>1. /\ UNCHANGED <<all_filtered_actions, upc, ui_messages, log_count,
                       filtered_action_count, delivered, live>>
        /\ rpc = "push_store" /\ rpc' = "check_store"
        /\ Len(all_actions') = Len(all_actions) + 1
    BY <1>4 DEF RecvPushStore, TypeInv, TypeOK
  <2>2. ToldOf' = ToldOf /\ ~Listing' /\ Untouched' = Untouched
    BY <2>1 DEF ToldOf, Counted, Listing, Untouched, Stopping
  <2> QED
    BY <1>0, <2>1, <2>2 DEF CountInv
<1>5. CASE RecvEnterView
  <2>1. /\ UNCHANGED <<all_actions, all_filtered_actions, upc, ui_messages, log_count,
                       filtered_action_count, delivered, live>>
        /\ rpc = "enter_view" /\ rpc' = "push_view"
    BY <1>5 DEF RecvEnterView
  <2>2. /\ ToldOf' = ToldOf /\ ~Listing' /\ Untouched' = Untouched
        /\ Storing /\ Storing'
    BY <2>1 DEF ToldOf, Counted, Storing, Listing, Untouched, Stopping
  <2> QED
    BY <2>1, <2>2 DEF CountInv
<1>6. CASE RecvPushView
  <2>1. /\ UNCHANGED <<all_actions, upc, ui_messages, log_count,
                       filtered_action_count, delivered, live>>
        /\ rpc = "push_view" /\ rpc' = "check_view"
        /\ Len(all_filtered_actions') = Len(all_filtered_actions) + 1
    BY <1>6 DEF RecvPushView, OrderInv, TypeInv, TypeOK
  <2>2. ToldOf' = ToldOf /\ Untouched' = Untouched /\ Storing /\ Storing'
    BY <2>1 DEF ToldOf, Counted, Storing, Untouched, Stopping
  <2> QED
    BY <1>0, <2>1, <2>2 DEF CountInv
<1>7. CASE RecvCheckView
  <2>1. /\ UNCHANGED <<all_actions, all_filtered_actions, view_read, upc, ui_messages,
                       log_count, filtered_action_count, delivered, live>>
        /\ rpc = "check_view" /\ rpc' \in {"read_count", "notify"}
        /\ rpc' = "read_count" => Len(all_filtered_actions) > Len(view_read)
    BY <1>7 DEF RecvCheckView
  <2>2. /\ ToldOf' = ToldOf /\ (Untouched' => Untouched) /\ Storing
        /\ Listing' => Listing
    BY <2>1 DEF ToldOf, Counted, Storing, Listing, Untouched, Stopping
  <2> QED
    BY <1>0, <2>1, <2>2, CountFrame
<1>8. CASE RecvReadCount
  <2>1. /\ UNCHANGED <<all_actions, all_filtered_actions, view_read, upc, ui_messages,
                       log_count, filtered_action_count, delivered, live>>
        /\ rpc = "read_count" /\ rpc' = "write_count"
        /\ count_read' = filtered_action_count
    BY <1>8 DEF RecvReadCount
  <2>2. /\ ToldOf' = ToldOf /\ (Untouched' => Untouched) /\ Storing /\ Listing
    BY <2>1 DEF ToldOf, Counted, Storing, Listing, Untouched, Stopping
  <2> QED
    BY <1>0, <2>1, <2>2, CountFrame
<1>9. CASE RecvWriteCount
  <2>1. /\ UNCHANGED <<all_actions, all_filtered_actions, upc, ui_messages,
                       log_count, delivered, live>>
        /\ rpc = "write_count" /\ rpc' = "notify"
        /\ filtered_action_count' = count_read + 1
    BY <1>9 DEF RecvWriteCount
  <2>2. /\ ToldOf' = ToldOf + 1 /\ Untouched' = Untouched /\ Storing /\ Listing
        /\ ~Storing' /\ ~Listing'
    BY <1>0, <2>1 DEF ToldOf, Counted, Storing, Listing, Untouched, Stopping
  <2> QED
    BY <1>0, <2>1, <2>2 DEF CountInv
<1>10. CASE RecvPost
  <2>1. /\ UNCHANGED <<all_actions, all_filtered_actions, view_read, upc,
                       log_count, filtered_action_count, delivered, live>>
        /\ rpc = "notify" /\ rpc' = "zero_count"
        /\ ui_messages' = Append(ui_messages, filtered_action_count)
    BY <1>10 DEF RecvPost
  <2>2. Total(ui_messages') = Total(ui_messages) + filtered_action_count
    BY <1>0, <2>1, TotalAppend, CountTyped
  <2>3. /\ ToldOf' = ToldOf /\ (Untouched' => Untouched)
        /\ ~Storing' /\ ~Listing'
    BY <1>0, <2>1, <2>2 DEF ToldOf, Counted, Storing, Listing, Untouched, Stopping
  <2> QED
    BY <1>0, <2>1, <2>3, CountFrame
<1>11. CASE RecvZeroCount
  <2>1. /\ UNCHANGED <<all_actions, all_filtered_actions, view_read, upc,
                       log_count, ui_messages, delivered, live>>
        /\ rpc = "zero_count" /\ rpc' = "loop" /\ filtered_action_count' = 0
    BY <1>11 DEF RecvZeroCount
  <2>2. /\ ToldOf' = ToldOf /\ (Untouched' => Untouched)
        /\ ~Storing' /\ ~Listing'
    BY <1>0, <2>1 DEF ToldOf, Counted, Storing, Listing, Untouched, Stopping
  <2> QED
    BY <1>0, <2>1, <2>2, CountFrame
<1> QED
  BY <1>1, <1>2, <1>3, <1>4, <1>5, <1>6, <1>7, <1>8, <1>9, <1>10, <1>11
  DEF Receiver, RecvStep

LEMMA CountUI ==
    ASSUME {"refilter", "drop"} \cap UICommands = {}
    PROVE  TypeInv /\ OrderInv /\ BufferInv /\ CountInv
              /\ (UserCommand \/ UIStep) => CountInv'
<1> SUFFICES ASSUME TypeInv, OrderInv, BufferInv, CountInv, UserCommand \/ UIStep
             PROVE  CountInv'
  OBVIOUS
<1> USE DEF recvVars, recvLocals, uiVars, uiLocals, storeVars, modeVars, noteVars
<1>0. /\ Total(ui_messages) \in Nat /\ log_count \in Nat
      /\ filtered_action_count \in Nat /\ count_read \in Nat
      /\ Len(all_actions) \in Nat /\ Len(all_filtered_actions) \in Nat
      /\ delivered \in Nat /\ ToldOf \in Nat
  BY CountTyped
<1> DEFINE Kept == /\ UNCHANGED <<all_actions, all_filtered_actions, view_read, rpc,
                                  delivered, live, count_read>>
                   /\ ~Stopping
                   /\ upc \notin {"clear_all_view", "clear_all_store"}
(* Steps that touch neither the lists nor the counts.                      *)
<1>1. ASSUME Kept, UNCHANGED <<ui_messages, filtered_action_count>>,
             upc # "items_added", upc' # "items_added"
      PROVE  CountInv'
  <2>1. /\ ToldOf' = ToldOf /\ (Untouched' => Untouched)
        /\ Storing' = Storing /\ Listing' = Listing
    BY <1>1 DEF ToldOf, Counted, Storing, Listing, Untouched
  <2> QED
    BY <1>0, <1>1, <2>1, CountFrame DEF CountInv
<1>2. CASE UserCommand
  <2>1. UNCHANGED <<ui_messages, filtered_action_count>>
    BY <1>2 DEF UserCommand, UISwitch, UIDrop, UIEdit, UIReset, UIRefilter,
       UIClear, SaveStart, UISave, UIExit
  <2>2. upc = "idle" /\ upc' # "items_added"
    BY <1>2 DEF UserCommand, UISwitch, UIDrop, UIEdit, UIReset, UIRefilter,
       UIClear, SaveStart, UISave, UIExit, Command
  <2>3. Kept
    BY <1>2, <2>2 DEF UserCommand, UISwitch, UIDrop, UIEdit, UIReset, UIRefilter,
       UIClear, SaveStart, UISave, UIExit, Stopping
  <2> QED
    BY <1>1, <2>1, <2>2, <2>3
<1>3. CASE UIEdited \/ UIResetDone \/ SetItemRealCount \/ UIRefreshed \/ SaveEnd
  <2>1. /\ UNCHANGED <<ui_messages, filtered_action_count>>
        /\ upc \in {"edit", "reset", "set_count", "count_set", "save_store", "save_view"}
        /\ upc' # "items_added"
    BY <1>3 DEF UIEdited, UIResetDone, SetItemRealCount, UIRefreshed, SaveEnd,
       UISaved
  <2>2. Kept
    BY <1>3, <2>1 DEF UIEdited, UIResetDone, SetItemRealCount, UIRefreshed,
       SaveEnd, UISaved, Stopping
  <2> QED
    BY <1>1, <2>1, <2>2
<1>4. CASE ItemsFilled
  <2>1. /\ UNCHANGED <<ui_messages, filtered_action_count, log_count>>
        /\ upc = "items_added" /\ upc' = "idle"
    BY <1>4 DEF ItemsFilled
  <2>2. Kept
    BY <1>4, <2>1 DEF ItemsFilled, Stopping
  <2>3. /\ ToldOf' = ToldOf - log_count /\ Counted \in Nat
        /\ ToldOf' = Total(ui_messages) + Counted
    BY <1>0, <2>1, <2>2, CountTyped DEF ToldOf, Counted
  <2>4. /\ ToldOf' \in Nat /\ ToldOf' <= ToldOf /\ (Untouched' => Untouched)
        /\ Storing' = Storing /\ Listing' = Listing
    BY <1>0, <2>2, <2>3 DEF Storing, Listing, Untouched
  <2> QED
    BY <2>1, <2>2, <2>4, CountFrame DEF CountInv
<1>5. CASE OnItemAdded
  <2>1. /\ ui_messages # <<>> /\ ui_messages' = Tail(ui_messages)
        /\ log_count' = Head(ui_messages)
        /\ upc = "idle" /\ UNCHANGED filtered_action_count
        /\ IF log_count' = 0 THEN upc' = upc ELSE upc' = "items_added"
    BY <1>5 DEF OnItemAdded
  <2>2. Kept
    BY <1>5, <2>1 DEF OnItemAdded, Stopping
  <2>3. /\ Total(ui_messages) = Head(ui_messages) + Total(Tail(ui_messages))
        /\ Head(ui_messages) \in Nat /\ Total(Tail(ui_messages)) \in Nat
    <3>1. ui_messages \in Seq(Nat)
      BY CountTyped
    <3>2. Tail(ui_messages) \in Seq(Nat) /\ Head(ui_messages) \in Nat
      BY <2>1, <3>1
    <3> QED
      BY <2>1, <3>1, <3>2, TotalTail, TotalNat
  <2>4. ToldOf' = ToldOf
    BY <1>0, <2>1, <2>2, <2>3 DEF ToldOf, Counted
  <2>5. /\ Untouched' => Untouched
        /\ Storing' = Storing /\ Listing' = Listing
    BY <2>2 DEF Storing, Listing, Untouched
  <2> QED
    BY <1>0, <2>1, <2>2, <2>4, <2>5, CountFrame DEF CountInv
<1>6. CASE Refilter
  <2>1. RefilterGetCount
    BY <1>6 DEF Refilter, RefilterEnterTip, EnterTip, RefilterStopTrace,
       ZeroCount, RefilterClearView, RefilterBegin, RefilterBound,
       RefilterRead, RefilterTryFilter, RefilterFilterBusy, RefilterMatch,
       RefilterSkip, RefilterPush, RefilterLeaveTip, LeaveTip, OrderInv,
       Refiltering
  <2>2. Kept /\ UNCHANGED <<ui_messages, filtered_action_count>>
        /\ upc = "get_count" /\ upc' = "set_count"
    BY <2>1 DEF RefilterGetCount, Stopping
  <2> QED
    BY <1>1, <2>2
<1>7. CASE Clear
  <2>1. CASE ClearEnterTip \/ ClearLeaveTip \/ ClearZeroList
    <3>1. /\ UNCHANGED <<ui_messages, filtered_action_count>>
          /\ upc \in {"enter_tip_clear", "leave_tip_clear", "zero_list"}
          /\ upc' \in {"stop_trace_clear", "zero_list", "set_count"}
      BY <2>1 DEF ClearEnterTip, EnterTip, ClearLeaveTip, LeaveTip, ClearZeroList
    <3>2. Kept
      BY <2>1, <3>1 DEF ClearEnterTip, EnterTip, ClearLeaveTip, LeaveTip,
         ClearZeroList, Stopping
    <3> QED
      BY <1>1, <3>1, <3>2
  <2>2. CASE ClearStopTrace
    <3>1. /\ UNCHANGED <<ui_messages, log_count>> /\ filtered_action_count' = 0
          /\ upc = "stop_trace_clear" /\ upc' = "clear_all_view"
      BY <2>2 DEF ClearStopTrace, ZeroCount
    <3>2. Kept
      BY <2>2, <3>1 DEF ClearStopTrace, ZeroCount, Stopping
    <3>3. /\ ToldOf' \in Nat /\ ToldOf' <= ToldOf
          /\ (Untouched' => Untouched)
          /\ Storing' = Storing /\ Listing' = Listing
      BY <1>0, <3>1, <3>2 DEF ToldOf, Counted, Storing, Listing, Untouched
    <3> QED
      BY <1>0, <3>1, <3>2, <3>3, CountFrame
  <2>3. CASE ClearAllView
    <3>1. /\ UNCHANGED <<all_actions, ui_messages, log_count, filtered_action_count,
                         rpc, delivered, live, count_read>>
          /\ upc = "clear_all_view" /\ upc' = "clear_all_store"
      BY <2>3 DEF ClearAllView, ClearView
    <3>2. ToldOf' = ToldOf /\ (Untouched' => Untouched) /\ Storing' = Storing
      BY <3>1 DEF ToldOf, Counted, Storing, Untouched, Stopping
    <3> QED
      BY <3>1, <3>2 DEF CountInv
  <2>4. CASE ClearAllStore
    <3>1. /\ UNCHANGED <<all_filtered_actions, view_read, ui_messages, log_count,
                         filtered_action_count, rpc, delivered, count_read>>
          /\ upc = "clear_all_store" /\ upc' = "leave_tip_clear"
          /\ all_actions' = <<>>
          /\ live' = live \ Elements(all_actions)
      BY <2>4 DEF ClearAllStore, ClearStore, Elements
    <3>2. /\ ToldOf' = ToldOf /\ Storing' = Storing /\ Listing' = Listing
          /\ rpc = "write_count" => filtered_action_count <= count_read
      BY <3>1 DEF ToldOf, Counted, Storing, Listing, CountInv
    (* If nothing is freed the store was empty, and nothing was told.      *)
    <3>3. ASSUME Untouched' PROVE ToldOf = 0 /\ ~Storing
      <4>1. Elements(all_actions) = {}
        BY <3>1, <3>3 DEF BufferInv, Untouched
      <4>2. Len(all_actions) = 0
        <5>1. DOMAIN all_actions = {}
          BY <4>1 DEF Elements
        <5>2. all_actions \in Seq(Events)
          BY DEF TypeInv, TypeOK
        <5> QED
          BY <5>1, <5>2
      <4>3. Untouched
        BY <3>1, <3>3 DEF Untouched, Stopping
      <4> QED
        BY <1>0, <4>2, <4>3 DEF CountInv
    <3>4. Listing => Storing
      BY DEF Listing, Storing
    <3> QED
      BY <1>0, <3>1, <3>2, <3>3, <3>4 DEF CountInv
  <2> QED
    BY <1>7, <2>1, <2>2, <2>3, <2>4 DEF Clear
<1>8. CASE Exit
  <2>1. /\ Stopping'
        /\ \/ rpc' = "terminated"
           \/ UNCHANGED <<rpc, filtered_action_count, count_read>>
    BY <1>8 DEF Exit, ExitJoined, ExitTerminate, ExitReleaseFilters,
       ExitClearView, ClearView, ExitClearStore, ClearStore, Stopping
  <2> QED
    BY <2>1 DEF CountInv, Untouched
<1> QED
  BY <1>2, <1>3, <1>4, <1>5, <1>6, <1>7, <1>8 DEF UIStep

(* Until the store is cleared no row is announced twice: what the receiver *)
(* has counted, what is in the message queue and what the UI thread is     *)
(* handling add up to no more than the list holds, however the receiver's  *)
(* separate steps (push, look at the store, read and write the counter,    *)
(* post, zero) and the handling of messages interleave, for any number of  *)
(* events and any threshold.  The zeroing of the counter by the UI thread  *)
(* is not covered: it belongs to the refilter, which is excluded, and to   *)
(* the clear, after which the property asks for nothing.                   *)
THEOREM AnnouncedOnce ==
    ASSUME {"refilter", "drop"} \cap UICommands = {}
    PROVE  Spec => []NothingAnnouncedTwice
<1>1. CountInv /\ UNCHANGED vars => CountInv'
  BY DEF CountInv, ToldOf, Counted, Storing, Listing, Untouched, Stopping, vars,
     storeVars, noteVars, recvVars, recvLocals, uiVars, uiLocals
<1>2. TypeInv /\ OrderInv /\ BufferInv /\ CountInv /\ [Next]_vars => CountInv'
  BY <1>1, CountReceiver, CountUI DEF Next
<1>3. TypeInv /\ CountInv => NothingAnnouncedTwice
  <2> SUFFICES ASSUME TypeInv, CountInv, NeverCleared
               PROVE  Announced <= Len(all_filtered_actions)
    BY DEF NothingAnnouncedTwice
  <2>1. ToldOf <= Len(all_filtered_actions)
    BY DEF CountInv, NeverCleared, Untouched
  <2>2. Announced <= ToldOf /\ Announced \in Nat
    BY CountTyped DEF CountInv, Announced, ToldOf, Counted
  <2> QED
    BY <2>1, <2>2, CountTyped
<1> QED
  BY <1>2, <1>3, OrderCorrect, CountInit, TypeInvariant, BufferCorrect, PTL
  DEF Spec
=============================================================================

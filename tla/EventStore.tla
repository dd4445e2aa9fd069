----------------------------- MODULE EventStore -----------------------------
(***************************************************************************)
(* The in-memory event store of bittrace and the two threads that share    *)
(* it.                                                                     *)
(*                                                                         *)
(* The receiver thread (thread_event_result_receive, action_result.cpp)    *)
(* takes one event at a time from the driver, evaluates the filter, pushes *)
(* the event on all_actions and, when it passed the filter, on             *)
(* all_filtered_actions, and tells the user interface how many it added.   *)
(* The UI thread (list_log.cpp, filter_dlg.cpp, bittrace.cpp) refilters,   *)
(* clears and saves the store, edits the filter and stops the receiver at  *)
(* exit.  Every step below is a region of code between two points where    *)
(* the other thread can be observed: a lock taken, a lock released, or a   *)
(* shared variable read or written without a lock.                         *)
(*                                                                         *)
(* An event is the number of its heap buffer, in order of arrival; a       *)
(* filter configuration is the set of events that pass it.                 *)
(***************************************************************************)
EXTENDS Integers, Sequences

CONSTANTS
    MaxEvents,      \* bound: the number of events the driver delivers
    Filters,        \* the filter configurations the user may enter
    InitialFilter,  \* the configuration loaded at start
    UICommands,     \* the commands the user issues
    MIN_EVENT_LOG_FILTERED_COUNT,  \* 500 in the code
    Reallocates,    \* the sizes at which push_back moves all_actions
    NoOne           \* the owner of a free lock

Events == 1..MaxEvents

AllCommands == {"switch", "drop", "edit", "reset", "refilter", "clear",
                "save", "exit"}

ASSUME MaxEventsAssumption == MaxEvents \in Nat
ASSUME FiltersAssumption ==
    Filters \subseteq SUBSET Events /\ InitialFilter \in SUBSET Events
ASSUME CommandsAssumption == UICommands \subseteq AllCommands
ASSUME ThresholdAssumption == MIN_EVENT_LOG_FILTERED_COUNT \in Nat \ {0}
ASSUME ReallocatesAssumption == Reallocates \subseteq Nat
ASSUME NoOneAssumption == NoOne \notin {"receiver", "ui"}

Locks == {"events_store_lock", "filtered_events_store_lock",
          "filtering_tip_lock", "filter_info_lock"}

VARIABLES
    all_actions,            \* every stored event, in order of arrival
    all_filtered_actions,   \* the events the list shows
    live,                   \* the event buffers allocated and not yet freed
    delivered,              \* how many events the driver has delivered
    owner,                  \* the thread that holds each critical section
    filter_infos,           \* the filter configuration in force
    event_filtering_flags,  \* TRUE: DROP_FILTERED_EVENTS
    process_log_sw,         \* the "Trace On/Off" switch
    filtering_event,        \* the UI is rebuilding the filtered store
    filtered_action_count,  \* filtered events not yet announced to the UI
    ui_messages,            \* posted WM_ACTION_EVENT_LOG messages, their counts
    rpc,                    \* receiver: where it is
    action,                 \* receiver: the event it is adding
    event_filtered,         \* receiver: the event passed the filter
    event_count,            \* receiver: the size it read before a push
    view_read,              \* receiver: the vector it read when its push began
    count_read,             \* receiver: the counter it read when its ++ began
    state,                  \* receiver: EVENT_IS_FILTERED was returned
    stop_run,               \* thread_manage.stop_run of the receiver
    upc,                    \* UI thread: where it is
    scan,                   \* UI thread: loop index of filter_all_events
    scanned,                \* UI thread: the pointer read at that index
    log_count,              \* UI thread: the count it works with
    ItemRealCount           \* the list: number of rows it believes it has

storeVars == <<all_actions, all_filtered_actions, live>>
modeVars  == <<filter_infos, event_filtering_flags, process_log_sw,
               filtering_event>>
noteVars  == <<filtered_action_count, ui_messages>>
recvLocals == <<action, event_filtered, event_count, view_read, count_read,
                state, delivered>>
recvVars  == <<rpc, recvLocals>>
uiLocals  == <<scan, scanned, log_count, ItemRealCount>>
uiVars    == <<upc, uiLocals, stop_run>>

vars == <<storeVars, modeVars, noteVars, recvVars, uiVars, owner>>

(* A critical section (lock_cs, unlock_cs, TryEnterCriticalSection).       *)
Free(l) == owner[l] = NoOne
Enter(l, t) == Free(l) /\ owner' = [owner EXCEPT ![l] = t]
Leave(l) == owner' = [owner EXCEPT ![l] = NoOne]

NoEvent == 0

Init ==
    /\ all_actions = <<>> /\ all_filtered_actions = <<>> /\ live = {}
    /\ delivered = 0
    /\ owner = [l \in Locks |-> NoOne]
    /\ filter_infos = InitialFilter
    /\ event_filtering_flags = FALSE
    /\ process_log_sw = TRUE
    /\ filtering_event = FALSE
    /\ filtered_action_count = 0 /\ ui_messages = <<>>
    /\ rpc = "loop" /\ action = NoEvent /\ event_filtered = FALSE
    /\ event_count = 0 /\ view_read = <<>> /\ count_read = 0 /\ state = FALSE
    /\ stop_run = FALSE
    /\ upc = "idle" /\ scan = 0 /\ scanned = NoEvent
    /\ log_count = 0 /\ ItemRealCount = 0

-----------------------------------------------------------------------------
(* The receiver thread                                                     *)

(* Head of the loop: the stop flag is tested, then the thread blocks in    *)
(* recv_event_aio.                                                         *)
RecvLoop ==
    /\ rpc = "loop"
    /\ rpc' = IF stop_run THEN "done" ELSE "recv"
    /\ UNCHANGED <<storeVars, modeVars, noteVars, recvLocals, uiVars, owner>>

(* recv_event_aio returned and the event is not stored: the stop flag is   *)
(* set, the call failed, tracing is switched off, or the event is          *)
(* bittrace's own log I/O (filter_trace_base_work).                        *)
RecvIgnore ==
    /\ rpc = "recv"
    /\ rpc' = "loop"
    /\ UNCHANGED <<storeVars, modeVars, noteVars, recvLocals, uiVars, owner>>

(* An event arrived and compress_event_log copied it to a fresh buffer.    *)
RecvEvent ==
    /\ rpc = "recv"
    /\ ~stop_run /\ process_log_sw
    /\ delivered < MaxEvents
    /\ delivered' = delivered + 1
    /\ action' = delivered + 1
    /\ live' = live \cup {delivered + 1}
    /\ event_filtered' = FALSE /\ state' = FALSE
    /\ rpc' = "try_filter"
    /\ UNCHANGED <<all_actions, all_filtered_actions, modeVars, noteVars,
                   event_count, view_read, count_read, uiVars, owner>>

(* An event arrived and could not be copied: it is counted, not stored.    *)
RecvCopyFailed ==
    /\ rpc = "recv"
    /\ ~stop_run /\ process_log_sw
    /\ delivered < MaxEvents
    /\ delivered' = delivered + 1
    /\ state' = FALSE
    /\ rpc' = "notify"
    /\ UNCHANGED <<storeVars, modeVars, noteVars, action, event_filtered,
                   event_count, view_read, count_read, uiVars, owner>>

(* filter_action_log takes the filter lock with TryEnterCriticalSection.   *)
RecvTryFilter ==
    /\ rpc = "try_filter"
    /\ Enter("filter_info_lock", "receiver")
    /\ rpc' = "filter"
    /\ UNCHANGED <<storeVars, modeVars, noteVars, recvLocals, uiVars>>

(* The lock is taken: the event passes whatever the filter says.           *)
RecvFilterBusy ==
    /\ rpc = "try_filter"
    /\ ~Free("filter_info_lock")
    /\ event_filtered' = TRUE
    /\ rpc' = "drop"
    /\ UNCHANGED <<storeVars, modeVars, noteVars, action, event_count,
                   view_read, count_read, state, delivered, uiVars, owner>>

(* The conditions are evaluated under the lock, which a reset does not     *)
(* take: a condition it frees meanwhile answers anything.                  *)
RecvFilter ==
    /\ rpc = "filter"
    /\ event_filtered' \in
          IF upc = "reset" THEN BOOLEAN ELSE {action \in filter_infos}
    /\ Leave("filter_info_lock")
    /\ rpc' = "drop"
    /\ UNCHANGED <<storeVars, modeVars, noteVars, action, event_count,
                   view_read, count_read, state, delivered, uiVars>>

(* Seeded bug: the freed event is carried on to the list.                  *)
RecvDropFallsThrough ==
    /\ rpc = "drop"
    /\ event_filtering_flags /\ ~event_filtered
    /\ live' = live \ {action}
    /\ rpc' = "enter_tip"
    /\ UNCHANGED <<all_actions, all_filtered_actions, modeVars, noteVars,
                   recvLocals, uiVars, owner>>

(* DROP_FILTERED_EVENTS: an event that did not pass is freed, not stored.  *)
RecvDrop ==
    /\ rpc = "drop"
    /\ event_filtering_flags /\ ~event_filtered
    /\ live' = live \ {action}
    /\ rpc' = "notify"
    /\ UNCHANGED <<all_actions, all_filtered_actions, modeVars, noteVars,
                   recvLocals, uiVars, owner>>

RecvKeep ==
    /\ rpc = "drop"
    /\ ~event_filtering_flags \/ event_filtered
    /\ rpc' = "enter_store"
    /\ UNCHANGED <<storeVars, modeVars, noteVars, recvLocals, uiVars, owner>>

RecvEnterStore ==
    /\ rpc = "enter_store"
    /\ Enter("events_store_lock", "receiver")
    /\ rpc' = "push_store"
    /\ UNCHANGED <<storeVars, modeVars, noteVars, recvLocals, uiVars>>

RecvPushStore ==
    /\ rpc = "push_store"
    /\ event_count' = Len(all_actions)
    /\ all_actions' = Append(all_actions, action)
    /\ Leave("events_store_lock")
    /\ rpc' = "check_store"
    /\ UNCHANGED <<all_filtered_actions, live, modeVars, noteVars, action,
                   event_filtered, view_read, count_read, state, delivered,
                   uiVars>>

(* Seeded bug: one event more is taken for a failed push.                  *)
PushFailedOffByOne == Len(all_actions) <= event_count + 1

(* The size is read again after the lock is released; when it did not grow *)
(* the push is taken to have failed and the buffer is freed.               *)
PushFailed == Len(all_actions) <= event_count

RecvStoreFailed ==
    /\ rpc = "check_store"
    /\ PushFailed
    /\ live' = live \ {action}
    /\ rpc' = "notify"
    /\ UNCHANGED <<all_actions, all_filtered_actions, modeVars, noteVars,
                   recvLocals, uiVars, owner>>

(* Seeded bug: the verdict of the filter is forgotten.                     *)
RecvStoredUnfiltered ==
    /\ rpc = "check_store"
    /\ ~PushFailed
    /\ rpc' = "enter_tip"
    /\ UNCHANGED <<storeVars, modeVars, noteVars, recvLocals, uiVars, owner>>

(* Seeded bug: the state an earlier event left behind is taken for this    *)
(* event's, and it is counted though it did not pass.                      *)
RecvStoredCounted ==
    /\ rpc = "check_store"
    /\ ~PushFailed
    /\ rpc' = IF event_filtered THEN "enter_tip" ELSE "read_count"
    /\ UNCHANGED <<storeVars, modeVars, noteVars, recvLocals, uiVars, owner>>

RecvStored ==
    /\ rpc = "check_store"
    /\ ~PushFailed
    /\ rpc' = IF event_filtered THEN "enter_tip" ELSE "notify"
    /\ UNCHANGED <<storeVars, modeVars, noteVars, recvLocals, uiVars, owner>>

(* add_to_event_filtered_store: wait for a refilter or a clear to end ...  *)
RecvEnterTip ==
    /\ rpc = "enter_tip"
    /\ Enter("filtering_tip_lock", "receiver")
    /\ rpc' = "leave_tip"
    /\ UNCHANGED <<storeVars, modeVars, noteVars, recvLocals, uiVars>>

(* ... ERROR_NOT_READY when the flag is set ...                            *)
RecvLeaveTip ==
    /\ rpc = "leave_tip"
    /\ rpc' = IF filtering_event THEN "notify" ELSE "enter_view"
    /\ Leave("filtering_tip_lock")
    /\ UNCHANGED <<storeVars, modeVars, noteVars, recvLocals, uiVars>>

(* ... then push under the other lock.  The push reads the vector and      *)
(* writes it back in two steps, because _clear_filtered_events empties the *)
(* vector without the lock: when it does so in between, what is written    *)
(* back is some part of what the vector held before the clear.             *)
RecvEnterView ==
    /\ rpc = "enter_view"
    /\ Enter("filtered_events_store_lock", "receiver")
    /\ view_read' = all_filtered_actions
    /\ rpc' = "push_view"
    /\ UNCHANGED <<storeVars, modeVars, noteVars, action, event_filtered,
                   event_count, count_read, state, delivered, uiVars>>

(* Seeded bug: the newest event is inserted in front.                      *)
RecvPushViewFront ==
    /\ rpc = "push_view"
    /\ all_filtered_actions' = <<action>> \o all_filtered_actions
    /\ Leave("filtered_events_store_lock")
    /\ rpc' = "check_view"
    /\ UNCHANGED <<all_actions, live, modeVars, noteVars, recvLocals, uiVars>>

RecvPushView ==
    /\ rpc = "push_view"
    /\ all_filtered_actions' \in
         IF all_filtered_actions = view_read
         THEN {Append(view_read, action)}
         ELSE {SubSeq(Append(view_read, action), 1, n) :
                  n \in 0..Len(view_read) + 1}
    /\ Leave("filtered_events_store_lock")
    /\ rpc' = "check_view"
    /\ UNCHANGED <<all_actions, live, modeVars, noteVars, recvLocals, uiVars>>

RecvCheckView ==
    /\ rpc = "check_view"
    /\ state' = (Len(all_filtered_actions) > Len(view_read))
    /\ rpc' = IF state' THEN "read_count" ELSE "notify"
    /\ UNCHANGED <<storeVars, modeVars, noteVars, action, event_filtered,
                   event_count, view_read, count_read, delivered, uiVars,
                   owner>>

(* filtered_action_count ++, a read and a write: stop_event_trace zeroes   *)
(* the counter from the UI thread.                                         *)
RecvReadCount ==
    /\ rpc = "read_count"
    /\ count_read' = filtered_action_count
    /\ rpc' = "write_count"
    /\ UNCHANGED <<storeVars, modeVars, noteVars, action, event_filtered,
                   event_count, view_read, state, delivered, uiVars, owner>>

RecvWriteCount ==
    /\ rpc = "write_count"
    /\ filtered_action_count' = count_read + 1
    /\ rpc' = "notify"
    /\ UNCHANGED <<storeVars, modeVars, ui_messages, recvLocals, uiVars,
                   owner>>

(* The UI is told when enough events passed or DEFAULT_TRACE_NOTIFY_TIME   *)
(* went by; the count is read for the message, then zeroed.                *)
RecvPost ==
    /\ rpc = "notify"
    /\ ui_messages' = Append(ui_messages, filtered_action_count)
    /\ rpc' = "zero_count"
    /\ UNCHANGED <<storeVars, modeVars, filtered_action_count, recvLocals,
                   uiVars, owner>>

(* Seeded bugs: the counter is not reset, or only lowered.                 *)
RecvKeepCount ==
    /\ rpc = "zero_count"
    /\ rpc' = "loop"
    /\ UNCHANGED <<storeVars, modeVars, noteVars, recvLocals, uiVars, owner>>

RecvLowerCount ==
    /\ rpc = "zero_count"
    /\ filtered_action_count' =
          filtered_action_count - MIN_EVENT_LOG_FILTERED_COUNT
    /\ rpc' = "loop"
    /\ UNCHANGED <<storeVars, modeVars, ui_messages, recvLocals, uiVars,
                   owner>>

RecvZeroCount ==
    /\ rpc = "zero_count"
    /\ filtered_action_count' = 0
    /\ rpc' = "loop"
    /\ UNCHANGED <<storeVars, modeVars, ui_messages, recvLocals, uiVars,
                   owner>>

RecvNoPost ==
    /\ rpc = "notify"
    /\ filtered_action_count < MIN_EVENT_LOG_FILTERED_COUNT
    /\ rpc' = "loop"
    /\ UNCHANGED <<storeVars, modeVars, noteVars, recvLocals, uiVars, owner>>

RecvStep ==
    \/ RecvTryFilter \/ RecvFilterBusy \/ RecvFilter \/ RecvDrop \/ RecvKeep
    \/ RecvEnterStore \/ RecvPushStore \/ RecvStoreFailed \/ RecvStored
    \/ RecvEnterTip \/ RecvLeaveTip \/ RecvEnterView \/ RecvPushView
    \/ RecvCheckView \/ RecvReadCount \/ RecvWriteCount \/ RecvPost
    \/ RecvZeroCount \/ RecvNoPost

Receiver ==
    RecvLoop \/ RecvIgnore \/ RecvEvent \/ RecvCopyFailed \/ RecvStep

-----------------------------------------------------------------------------
(* The UI thread                                                           *)

Command(c) == upc = "idle" /\ c \in UICommands

(* The "Trace On/Off" button.                                              *)
UISwitch ==
    /\ Command("switch")
    /\ process_log_sw' = ~process_log_sw
    /\ UNCHANGED <<storeVars, noteVars, recvVars, uiVars, owner, filter_infos,
                   event_filtering_flags, filtering_event>>

(* The filter dialog's OK: the drop check box, then a refilter.            *)
UIDrop ==
    /\ Command("drop")
    /\ event_filtering_flags' \in BOOLEAN
    /\ ItemRealCount' = 0
    /\ upc' = "enter_tip_refilter"
    /\ UNCHANGED <<storeVars, noteVars, recvVars, scan, scanned, log_count,
                   stop_run, owner, filter_infos, process_log_sw,
                   filtering_event>>

(* input_filter_condition, delete_filter_condition: the filter changes     *)
(* under its lock.                                                         *)
UIEdit ==
    /\ Command("edit")
    /\ Enter("filter_info_lock", "ui")
    /\ upc' = "edit"
    /\ UNCHANGED <<storeVars, modeVars, noteVars, recvVars, uiLocals,
                   stop_run>>

UIEdited ==
    /\ upc = "edit"
    /\ filter_infos' \in Filters
    /\ Leave("filter_info_lock")
    /\ upc' = "idle"
    /\ UNCHANGED <<storeVars, noteVars, recvVars, uiLocals, stop_run,
                   event_filtering_flags, process_log_sw, filtering_event>>

(* release_filter_conds frees every condition, then empties the vector of  *)
(* conditions, without taking the lock.                                    *)
UIReset ==
    /\ Command("reset")
    /\ upc' = "reset"
    /\ UNCHANGED <<storeVars, modeVars, noteVars, recvVars, uiLocals, stop_run,
                   owner>>

UIResetDone ==
    /\ upc = "reset"
    /\ filter_infos' = Events
    /\ upc' = "idle"
    /\ UNCHANGED <<storeVars, noteVars, recvVars, uiLocals, stop_run, owner,
                   event_filtering_flags, process_log_sw, filtering_event>>

(* FilterEvents: the list is reset, then the tip lock is held while the    *)
(* filtered store is rebuilt.                                              *)
UIRefilter ==
    /\ Command("refilter")
    /\ ItemRealCount' = 0
    /\ upc' = "enter_tip_refilter"
    /\ UNCHANGED <<storeVars, modeVars, noteVars, recvVars, scan, scanned,
                   log_count, stop_run, owner>>

(* Seeded bug: the flag is set without the lock.                           *)
EnterTipUnlocked(from, to) ==
    /\ upc = from
    /\ filtering_event' = TRUE
    /\ upc' = to
    /\ UNCHANGED <<storeVars, noteVars, recvVars, uiLocals, stop_run, owner,
                   filter_infos, event_filtering_flags, process_log_sw>>

EnterTip(from, to) ==
    /\ upc = from
    /\ Enter("filtering_tip_lock", "ui")
    /\ filtering_event' = TRUE
    /\ upc' = to
    /\ UNCHANGED <<storeVars, noteVars, recvVars, uiLocals, stop_run,
                   filter_infos, event_filtering_flags, process_log_sw>>

(* stop_event_trace                                                        *)
ZeroCount(from, to) ==
    /\ upc = from
    /\ filtered_action_count' = 0
    /\ upc' = to
    /\ UNCHANGED <<storeVars, modeVars, ui_messages, recvVars, uiLocals,
                   stop_run, owner>>

(* Seeded bug: the lock is kept.                                           *)
LeaveTipLocked(from, to) ==
    /\ upc = from
    /\ filtering_event' = FALSE
    /\ upc' = to
    /\ UNCHANGED <<storeVars, noteVars, recvVars, uiLocals, stop_run, owner,
                   filter_infos, event_filtering_flags, process_log_sw>>

LeaveTip(from, to) ==
    /\ upc = from
    /\ filtering_event' = FALSE
    /\ Leave("filtering_tip_lock")
    /\ upc' = to
    /\ UNCHANGED <<storeVars, noteVars, recvVars, uiLocals, stop_run,
                   filter_infos, event_filtering_flags, process_log_sw>>

RefilterEnterTip == EnterTip("enter_tip_refilter", "stop_trace_refilter")

RefilterStopTrace == ZeroCount("stop_trace_refilter", "clear_view")

(* _clear_filtered_events, without filtered_events_store_lock.             *)
RefilterClearView ==
    /\ upc = "clear_view"
    /\ all_filtered_actions' = <<>>
    /\ upc' = "begin_scan"
    /\ UNCHANGED <<all_actions, live, modeVars, noteVars, recvVars, uiLocals,
                   stop_run, owner>>

(* filter_all_events: nothing to do when the store is empty.               *)
RefilterBegin ==
    /\ upc = "begin_scan"
    /\ scan' = 1
    /\ upc' = IF all_actions = <<>> THEN "leave_tip_refilter" ELSE "scan"
    /\ UNCHANGED <<storeVars, modeVars, noteVars, recvVars, scanned, log_count,
                   ItemRealCount, stop_run, owner>>

(* The bound is tested under the store lock ...                            *)
RefilterBound ==
    /\ upc = "scan"
    /\ Free("events_store_lock")
    /\ upc' = IF scan > Len(all_actions) THEN "leave_tip_refilter" ELSE "read"
    /\ UNCHANGED <<storeVars, modeVars, noteVars, recvVars, uiLocals, stop_run,
                   owner>>

(* ... and the element is read after it was released: if the receiver is   *)
(* moving the vector at that moment the pointer may be garbage.            *)
RefilterRead ==
    /\ upc = "read"
    /\ scanned' \in {all_actions[scan]} \cup
          (IF rpc = "push_store" /\ Len(all_actions) \in Reallocates
           THEN {NoEvent} ELSE {})
    /\ upc' = "try_filter"
    /\ UNCHANGED <<storeVars, modeVars, noteVars, recvVars, scan, log_count,
                   ItemRealCount, stop_run, owner>>

RefilterTryFilter ==
    /\ upc = "try_filter"
    /\ Enter("filter_info_lock", "ui")
    /\ upc' = "filter"
    /\ UNCHANGED <<storeVars, modeVars, noteVars, recvVars, uiLocals,
                   stop_run>>

RefilterFilterBusy ==
    /\ upc = "try_filter"
    /\ ~Free("filter_info_lock")
    /\ upc' = "push_view"
    /\ UNCHANGED <<storeVars, modeVars, noteVars, recvVars, uiLocals, stop_run,
                   owner>>

(* The filter's verdict on a garbage pointer is anything.                  *)
RefilterPasses == scanned \in filter_infos \/ scanned = NoEvent
RefilterFails  == scanned \notin filter_infos

RefilterMatch ==
    /\ upc = "filter"
    /\ RefilterPasses
    /\ Leave("filter_info_lock")
    /\ upc' = "push_view"
    /\ UNCHANGED <<storeVars, modeVars, noteVars, recvVars, uiLocals,
                   stop_run>>

(* Seeded bug: the scan does not advance past an event that fails.         *)
RefilterSkipStays ==
    /\ upc = "filter"
    /\ RefilterFails
    /\ Leave("filter_info_lock")
    /\ upc' = "scan"
    /\ UNCHANGED <<storeVars, modeVars, noteVars, recvVars, uiLocals,
                   stop_run>>

RefilterSkip ==
    /\ upc = "filter"
    /\ RefilterFails
    /\ Leave("filter_info_lock")
    /\ scan' = scan + 1
    /\ upc' = "scan"
    /\ UNCHANGED <<storeVars, modeVars, noteVars, recvVars, scanned, log_count,
                   ItemRealCount, stop_run>>

(* Seeded bug: the push is made without the lock.                          *)
RefilterPushUnlocked ==
    /\ upc = "push_view"
    /\ all_filtered_actions' = Append(all_filtered_actions, scanned)
    /\ scan' = scan + 1
    /\ upc' = "scan"
    /\ UNCHANGED <<all_actions, live, modeVars, noteVars, recvVars, scanned,
                   log_count, ItemRealCount, stop_run, owner>>

RefilterPush ==
    /\ upc = "push_view"
    /\ Free("filtered_events_store_lock")
    /\ all_filtered_actions' = Append(all_filtered_actions, scanned)
    /\ scan' = scan + 1
    /\ upc' = "scan"
    /\ UNCHANGED <<all_actions, live, modeVars, noteVars, recvVars, scanned,
                   log_count, ItemRealCount, stop_run, owner>>

RefilterLeaveTip == LeaveTip("leave_tip_refilter", "get_count")

(* get_filtered_action_log_count, then SetItemRealCount.                   *)
RefilterGetCount ==
    /\ upc = "get_count"
    /\ log_count' = Len(all_filtered_actions)
    /\ upc' = "set_count"
    /\ UNCHANGED <<storeVars, modeVars, noteVars, recvVars, scan, scanned,
                   ItemRealCount, stop_run, owner>>

SetItemRealCount ==
    /\ upc = "set_count"
    /\ ItemRealCount' = log_count
    /\ upc' = "count_set"
    /\ UNCHANGED <<storeVars, modeVars, noteVars, recvVars, scan, scanned,
                   log_count, stop_run, owner>>

(* The rest of SetLogCount and RefreshEventListUI draw the list.           *)
UIRefreshed ==
    /\ upc = "count_set"
    /\ upc' = "idle"
    /\ UNCHANGED <<storeVars, modeVars, noteVars, recvVars, uiLocals, stop_run,
                   owner>>

Refilter ==
    \/ RefilterEnterTip \/ RefilterStopTrace \/ RefilterClearView
    \/ RefilterBegin \/ RefilterBound \/ RefilterRead \/ RefilterTryFilter
    \/ RefilterFilterBusy \/ RefilterMatch \/ RefilterSkip \/ RefilterPush
    \/ RefilterLeaveTip \/ RefilterGetCount

(* clear_events: the same with both stores emptied and every buffer freed. *)
UIClear ==
    /\ Command("clear")
    /\ ItemRealCount' = 0
    /\ upc' = "enter_tip_clear"
    /\ UNCHANGED <<storeVars, modeVars, noteVars, recvVars, scan, scanned,
                   log_count, stop_run, owner>>

ClearEnterTip == EnterTip("enter_tip_clear", "stop_trace_clear")

ClearStopTrace == ZeroCount("stop_trace_clear", "clear_all_view")

(* clear_all_events: one lock after the other, never both.                 *)
ClearView(from, to) ==
    /\ upc = from
    /\ Free("filtered_events_store_lock")
    /\ all_filtered_actions' = <<>>
    /\ upc' = to
    /\ UNCHANGED <<all_actions, live, modeVars, noteVars, recvVars, uiLocals,
                   stop_run, owner>>

ClearStore(from, to) ==
    /\ upc = from
    /\ Free("events_store_lock")
    /\ live' = live \ {all_actions[i] : i \in DOMAIN all_actions}
    /\ all_actions' = <<>>
    /\ upc' = to
    /\ UNCHANGED <<all_filtered_actions, modeVars, noteVars, recvVars,
                   uiLocals, stop_run, owner>>

ClearAllView == ClearView("clear_all_view", "clear_all_store")

ClearAllStore == ClearStore("clear_all_store", "leave_tip_clear")

ClearLeaveTip == LeaveTip("leave_tip_clear", "zero_list")

ClearZeroList ==
    /\ upc = "zero_list"
    /\ log_count' = 0
    /\ upc' = "set_count"
    /\ UNCHANGED <<storeVars, modeVars, noteVars, recvVars, scan, scanned,
                   ItemRealCount, stop_run, owner>>

Clear ==
    ClearEnterTip \/ ClearStopTrace \/ ClearAllView \/ ClearAllStore
    \/ ClearLeaveTip \/ ClearZeroList

(* save_log_to_db walks one of the two stores under its lock.              *)
UISave(lock) ==
    /\ Command("save")
    /\ Enter(lock, "ui")
    /\ upc' = IF lock = "events_store_lock" THEN "save_store" ELSE "save_view"
    /\ UNCHANGED <<storeVars, modeVars, noteVars, recvVars, uiLocals,
                   stop_run>>

UISaved(lock) ==
    /\ upc = IF lock = "events_store_lock" THEN "save_store" ELSE "save_view"
    /\ Leave(lock)
    /\ upc' = "idle"
    /\ UNCHANGED <<storeVars, modeVars, noteVars, recvVars, uiLocals,
                   stop_run>>

SaveStart == \E lock \in {"events_store_lock", "filtered_events_store_lock"} :
                UISave(lock)
SaveEnd   == \E lock \in {"events_store_lock", "filtered_events_store_lock"} :
                UISaved(lock)

(* WM_ACTION_EVENT_LOG: OnItemAdded takes the row count from the store and *)
(* fills the announced number of rows; a message that announces none is    *)
(* ignored.                                                                *)
OnItemAdded ==
    /\ upc = "idle"
    /\ ui_messages # <<>>
    /\ ui_messages' = Tail(ui_messages)
    /\ log_count' = Head(ui_messages)
    /\ IF log_count' = 0
       THEN UNCHANGED <<upc, ItemRealCount>>
       ELSE /\ ItemRealCount' = Len(all_filtered_actions)
            /\ upc' = "items_added"
    /\ UNCHANGED <<storeVars, modeVars, filtered_action_count, recvVars, scan,
                   scanned, stop_run, owner>>

ItemsFilled ==
    /\ upc = "items_added"
    /\ upc' = "idle"
    /\ UNCHANGED <<storeVars, modeVars, noteVars, recvVars, uiLocals, stop_run,
                   owner>>

(* Exit: stop_work_thread asks the receiver to stop and waits 200 ms ...   *)
UIExit ==
    /\ Command("exit")
    /\ stop_run' = TRUE
    /\ upc' = "wait_thread_end"
    /\ UNCHANGED <<storeVars, modeVars, noteVars, recvVars, uiLocals, owner>>

ExitJoined ==
    /\ upc = "wait_thread_end"
    /\ rpc = "done"
    /\ stop_run' = FALSE
    /\ upc' = "release_filters"
    /\ UNCHANGED <<storeVars, modeVars, noteVars, recvVars, uiLocals, owner>>

(* Seeded bug: the wait for the receiver has no time limit.                *)
ExitWaitsForever == upc = "wait_thread_end" /\ rpc # "done" /\ UNCHANGED vars

(* ... and terminates it where it stands, with the locks it holds.         *)
ExitTerminate ==
    /\ upc = "wait_thread_end"
    /\ rpc # "done"
    /\ rpc' = "terminated"
    /\ stop_run' = FALSE
    /\ upc' = "release_filters"
    /\ UNCHANGED <<storeVars, modeVars, noteVars, recvLocals, uiLocals, owner>>

ExitReleaseFilters ==
    /\ upc = "release_filters"
    /\ filter_infos' = Events
    /\ upc' = "exit_view"
    /\ UNCHANGED <<storeVars, noteVars, recvVars, uiLocals, stop_run, owner,
                   event_filtering_flags, process_log_sw, filtering_event>>

(* uninit_event_store                                                      *)
ExitClearView  == ClearView("exit_view", "exit_store")
ExitClearStore == ClearStore("exit_store", "exited")

Exit ==
    ExitJoined \/ ExitTerminate \/ ExitReleaseFilters \/ ExitClearView
    \/ ExitClearStore

UserCommand ==
    UISwitch \/ UIDrop \/ UIEdit \/ UIReset \/ UIRefilter \/ UIClear
    \/ SaveStart \/ UIExit

(* What the UI thread does by itself once a command or a message is in.    *)
UIStep ==
    UIEdited \/ UIResetDone \/ Refilter \/ SetItemRealCount \/ UIRefreshed
    \/ Clear \/ SaveEnd \/ OnItemAdded \/ ItemsFilled \/ Exit

Next == Receiver \/ UserCommand \/ UIStep

(* Both threads keep running; nobody promises events or user commands.  A   *)
(* receiver waiting for a lock gets it in the end: the commands that take   *)
(* it again and again are a person's, and the lock is free between them.    *)
RecvEnter == RecvEnterStore \/ RecvEnterTip \/ RecvEnterView

Fairness ==
    /\ WF_vars(RecvLoop \/ RecvStep)
    /\ SF_vars(RecvEnter)
    /\ WF_vars(UIStep)

Spec == Init /\ [][Next]_vars
FairSpec == Spec /\ Fairness

-----------------------------------------------------------------------------
(* Properties                                                              *)

Elements(seq) == {seq[i] : i \in DOMAIN seq}

(* Every variable has its type, and an event is stored at most once.       *)
TypeOK ==
    /\ all_actions \in Seq(Events)
    /\ all_filtered_actions \in Seq(Events \cup {NoEvent})
    /\ live \subseteq Events
    /\ delivered \in 0..MaxEvents
    /\ owner \in [Locks -> {"receiver", "ui", NoOne}]
    /\ filter_infos \subseteq Events
    /\ event_filtering_flags \in BOOLEAN
    /\ process_log_sw \in BOOLEAN
    /\ filtering_event \in BOOLEAN
    /\ filtered_action_count \in Nat
    /\ ui_messages \in Seq(Nat)
    /\ rpc \in {"loop", "recv", "try_filter", "filter", "drop", "enter_store",
                "push_store", "check_store", "enter_tip", "leave_tip",
                "enter_view", "push_view", "check_view", "read_count",
                "write_count", "notify", "zero_count", "done", "terminated"}
    /\ action \in Events \cup {NoEvent}
    /\ event_filtered \in BOOLEAN
    /\ event_count \in Nat
    /\ view_read \in Seq(Events \cup {NoEvent})
    /\ count_read \in Nat
    /\ state \in BOOLEAN
    /\ stop_run \in BOOLEAN
    /\ upc \in {"idle", "edit", "reset", "enter_tip_refilter",
                "stop_trace_refilter", "clear_view", "begin_scan", "scan",
                "read", "try_filter", "filter", "push_view",
                "leave_tip_refilter", "get_count",
                "set_count", "count_set", "enter_tip_clear",
                "stop_trace_clear", "clear_all_view", "clear_all_store",
                "leave_tip_clear", "zero_list", "save_store", "save_view",
                "items_added", "wait_thread_end", "release_filters",
                "exit_view", "exit_store", "exited"}
    /\ scan \in Nat
    /\ scanned \in Events \cup {NoEvent}
    /\ log_count \in Nat
    /\ ItemRealCount \in Nat

(* The store never holds a freed buffer, whatever the user does: in        *)
(* particular the receiver's size check, made after it released            *)
(* events_store_lock, never frees an event that is still stored            *)
(* (add_to_memory_cache against clear_all_events).                         *)
StoreHoldsLive == Elements(all_actions) \subseteq live

(* Every row of the list is an event of the store.  The list dereferences  *)
(* the rows without asking the store, so this and StoreHoldsLive keep it   *)
(* off freed memory.  It is meant for users who do not clear the store.    *)
ViewWithinStore == Elements(all_filtered_actions) \subseteq Elements(all_actions)

(* The receiver is between its push on the store and its push on the view. *)
Adding(e) ==
    /\ e = action
    /\ rpc \in {"check_store", "enter_tip", "leave_tip", "enter_view",
                "push_view"}

Rebuilding ==
    upc \in {"begin_scan", "scan", "read", "try_filter", "filter", "push_view"}

Stopping == upc \in {"release_filters", "exit_view", "exit_store", "exited"}

(* The events that pass the filter whatever the user makes of it by edits. *)
AlwaysPass == {e \in InitialFilter : \A f \in Filters : e \in f}

(* The list misses no stored event that passed the filter throughout,      *)
(* except the one the receiver is adding: a refilter that overlaps an      *)
(* insertion, and an edit that overlaps either, may show an event twice    *)
(* and may not lose it.  It is meant for users who do not reset the filter *)
(* (an evaluation that overlaps a reset gives any verdict).                *)
NoMissedMatch ==
    ~Rebuilding /\ ~Stopping =>
      \A e \in Elements(all_actions) \cap AlwaysPass :
         ~Adding(e) => e \in Elements(all_filtered_actions)

(* The store is a TraceLog, for users who do not clear it: rows of the     *)
(* list appear only for stored events and disappear only when a refilter   *)
(* empties the list, although _clear_filtered_events and the read of       *)
(* all_actions in filter_all_events go without a lock.  At exit the list   *)
(* is emptied before the store.                                            *)
Log == INSTANCE TraceLog WITH
           Event <- Events,
           stored <- all_actions,
           shown <- Elements(all_filtered_actions)

ImplementsLog == Log!Spec

(* The ERROR_NOT_READY branch of add_to_event_filtered_store is dead: the  *)
(* UI sets and resets filtering_event inside one hold of the lock under    *)
(* which the receiver reads it, so the receiver waits and then inserts.    *)
NotReadyUnreachable == rpc = "leave_tip" => ~filtering_event

(* Without a refilter the list shows each event at most once and in order  *)
(* of arrival, whatever clears run while the receiver is inserting.        *)
ViewInOrder ==
    \A i, j \in DOMAIN all_filtered_actions :
       i < j => all_filtered_actions[i] < all_filtered_actions[j]

(* While nobody but the receiver takes the filter lock, only events that   *)
(* pass the filter reach the list.                                         *)
ViewOnlyMatches == Elements(all_filtered_actions) \subseteq filter_infos

(* The rows announced to the UI and not yet taken up, and those the        *)
(* receiver has counted and not yet announced.                             *)
Total(counts) ==
    LET total[n \in 0 .. Len(counts)] ==
            IF n = 0 THEN 0 ELSE total[n - 1] + counts[n]
    IN  total[Len(counts)]

Announced ==
    Total(ui_messages)
    + (IF upc = "items_added" THEN log_count ELSE 0)
    + (IF rpc = "zero_count" THEN 0 ELSE filtered_action_count)

(* No event was freed, and neither a clear nor the exit is under way.      *)
NeverCleared ==
    /\ 1..delivered \subseteq live
    /\ upc \notin {"clear_all_view", "clear_all_store"} /\ ~Stopping

(* Until the store is cleared, no row is announced twice: the counter, the *)
(* messages in the queue and the one being handled never add up to more    *)
(* rows than the filtered store has.  It is about the receiver's own       *)
(* steps and the messages, for users who neither refilter nor drop         *)
(* filtered events; the UI thread zeroes the counter in a refilter or a    *)
(* clear only.                                                             *)
NothingAnnouncedTwice ==
    NeverCleared => Announced <= Len(all_filtered_actions)

(* ASSERT( ... + log_count <= ItemRealCount ), list_log.cpp:5402: the rows *)
(* a WM_ACTION_EVENT_LOG message announces are in the list when the        *)
(* message is handled.                                                     *)
AddedItemsFit == upc = "items_added" => log_count <= ItemRealCount

(* SetItemRealCount breaks into the debugger (list_log.cpp:3641) when the  *)
(* count it was given is not the size of the filtered store.               *)
RowCountMatchesView ==
    upc = "count_set" => ItemRealCount = Len(all_filtered_actions)

(* Once the UI asked for the tip lock the refilter ends, although the      *)
(* receiver keeps adding events to the store being scanned.                *)
RefilterEnds == upc = "enter_tip_refilter" ~> upc = "idle"

(* An event the receiver took is dealt with: no UI command blocks the      *)
(* receiver for ever.                                                      *)
EventSettles == rpc = "try_filter" ~> rpc \in {"loop", "terminated"}

(* Exit comes to an end, though the receiver may be blocked in its driver  *)
(* call, unless the receiver was terminated inside one of the two store    *)
(* locks, which then stay taken.                                           *)
TerminatedInside ==
    /\ rpc = "terminated"
    /\ \/ owner["events_store_lock"] = "receiver"
       \/ owner["filtered_events_store_lock"] = "receiver"

ExitCompletes == upc = "wait_thread_end" ~> upc = "exited" \/ TerminatedInside
=============================================================================

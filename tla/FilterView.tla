----------------------------- MODULE FilterView -----------------------------
(***************************************************************************)
(* The filter the user edits and the list the user sees: the commands of   *)
(* FilterConfig, chosen on a row of the list, the refilter each of them    *)
(* ends with, and the receiver thread, which judges new events all along.  *)
(*                                                                         *)
(* A refilter is one step here; EventStore has what happens inside it.     *)
(***************************************************************************)
EXTENDS FilterConfig

CONSTANTS
    Events,     \* the events that may arrive
    Columns,    \* the columns of the list the user clicks on
    Masks       \* the masks of main types the toolbar makes

(* The condition get_filter_info_from_event_ui makes of a column.          *)
ColumnCond ==
    [proc_id |-> "FLT_PID", thread_id |-> "FLT_TID",
     event_icon |-> "FLT_MAIN_TYPE", event_name |-> "FLT_ACTION_TYPE",
     proc_icon |-> "FLT_PROCESS_NAME", exe_file |-> "FLT_PROCESS_NAME",
     event_obj |-> "FLT_PATH", action_id |-> "FLT_ACTION_NO",
     event_desc |-> "FLT_DESC_DETAIL", data |-> "FLT_ACTION_DATA",
     result |-> "FLT_ACTION_RESULT", call_stack |-> "FLT_CALL_STACK",
     time |-> "FLT_DATE_TIME"]

(* An event has, besides what the filter compares, the text of each column.*)
ASSUME EventsAssumption ==
    /\ Columns \subseteq DOMAIN ColumnCond
    /\ \A e \in Events :
          /\ e.number \in [UlongConds -> Texts]
          /\ e.text \in [StringConds -> Texts]
          /\ e.version \in Nat /\ e.lacks \subseteq FallibleConds
          /\ e.time \in [sec : Nat \ {0}, tick : Nat]
          /\ \A c \in Columns \cup {"time"} : e.column[c] \in Texts

ASSUME MasksAssumption == Masks \subseteq Texts

VARIABLES
    stored,     \* the events of the store
    shown,      \* those in the list
    flight,     \* the event the receiver is busy with
    command,    \* the command in progress and the event it was chosen on
    due,        \* the command in progress ends with a refilter
    dirty,      \* the filter was edited and the list not refiltered since
    unjudged,   \* events let through because the try-lock failed
    stale       \* events judged before an edit and stored after it

viewVars == <<stored, shown, flight, command, due, dirty, unjudged, stale>>
allVars == <<vars, viewVars>>

NoFlight == [at |-> "none"]
NoCommand == [name |-> "none"]

ViewInit ==
    /\ Init
    /\ stored = {} /\ shown = {} /\ flight = NoFlight /\ command = NoCommand
    /\ due = FALSE /\ dirty = FALSE /\ unjudged = {} /\ stale = {}

InForce == {filter_infos[i] : i \in DOMAIN filter_infos}

Verdict(e) == Passes(InForce, e)

-----------------------------------------------------------------------------
(* The user's commands.  Those of the menus are chosen on a shown row.     *)
Start(issued, refilters) ==
    /\ ~due
    /\ command' = issued
    /\ due' = refilters

Issue(name, e) ==
    Start([name |-> name, event |-> e, passed |-> Verdict(e)], TRUE)

ViewMenu(e, c) ==
    \/ MenuInclude(ColumnCond[c], e.column[c]) /\ Issue("include", e)
    \/ MenuExclude(ColumnCond[c], e.column[c]) /\ Issue("exclude", e)

ViewMenuTime(e, compare_mode) ==
    MenuTime(compare_mode, e.column["time"]) /\ Issue(compare_mode, e)

(* A button of the toolbar that leaves the types as they are refilters     *)
(* all the same.                                                           *)
ToolbarSame(text) ==
    /\ Command("main_type")
    /\ \E i \in MainTypes :
          (\A j \in MainTypes : i <= j) /\ filter_infos[i].data = text
    /\ UNCHANGED vars

(* filter_infos is edited under filter_info_lock, which the receiver holds *)
(* while it judges.                                                        *)
Edits == filter_infos' # filter_infos

Edited ==
    /\ Edits => flight.at # "judging"
    /\ dirty' = (dirty \/ Edits)
    /\ stale' = IF Edits /\ flight.at = "judged"
                THEN stale \cup {flight.event} ELSE stale

ViewCommand ==
    /\ \/ \E e \in shown :
             \/ \E c \in Columns : ViewMenu(e, c)
             \/ \E compare_mode \in {"FLT_START_WITH", "FLT_END_WITH"} :
                   ViewMenuTime(e, compare_mode)
       \/ \E e \in Events :
             /\ \/ FocusProcess(e.number["FLT_PID"])
                \/ FocusNewProcess(e.number["FLT_PID"])
             /\ Start(NoCommand, TRUE)
       \/ \E text \in Masks :
             /\ ToolbarEdit(text) \/ ToolbarAdd(text) \/ ToolbarSame(text)
             /\ Start(NoCommand, TRUE)
       \/ (DialogRestore \/ \E i \in DOMAIN filter_infos : DialogDelete(i))
          /\ Start(NoCommand, FALSE)
    /\ Edited
    /\ UNCHANGED <<stored, shown, flight, unjudged>>

ViewCommandStep ==
    /\ CommandStep
    /\ Edited
    /\ UNCHANGED <<stored, shown, flight, command, due, unjudged>>

(* flt_btn of the dialog                                                   *)
DialogFilter ==
    /\ step = "idle" /\ ~due /\ dirty
    /\ due' = TRUE
    /\ command' = NoCommand
    /\ UNCHANGED <<vars, stored, shown, flight, dirty, unjudged, stale>>

(* Seeded bug: the list is not emptied first.                              *)
RefilterAdds ==
    /\ step = "idle" /\ due
    /\ shown' = shown \cup {e \in stored : Verdict(e)}
    /\ unjudged' = unjudged \ stored /\ stale' = stale \ stored
    /\ due' = FALSE /\ dirty' = FALSE /\ command' = NoCommand
    /\ UNCHANGED <<vars, stored, flight>>

(* Seeded bug: only the shown events are judged again.                     *)
RefilterNarrows ==
    /\ step = "idle" /\ due
    /\ shown' = {e \in shown : Verdict(e)}
    /\ unjudged' = unjudged \ stored /\ stale' = stale \ stored
    /\ due' = FALSE /\ dirty' = FALSE /\ command' = NoCommand
    /\ UNCHANGED <<vars, stored, flight>>

(* FilterEventsUI.  While the receiver judges an event, the try-lock of    *)
(* the UI thread fails too, and any event may be let through.              *)
Refilter ==
    /\ step = "idle" /\ due
    /\ \E lucky \in SUBSET {e \in stored : ~Verdict(e)} :
          /\ lucky # {} => flight.at = "judging"
          /\ shown' = {e \in stored : Verdict(e)} \cup lucky
          /\ unjudged' = (unjudged \ stored) \cup lucky
    /\ stale' = stale \ stored
    /\ due' = FALSE /\ dirty' = FALSE /\ command' = NoCommand
    /\ UNCHANGED <<vars, stored, flight>>

-----------------------------------------------------------------------------
(* The receiver: it takes the lock and judges ...                          *)
RecvEnter(e) ==
    /\ flight = NoFlight /\ e \notin stored
    /\ step # "update"
    /\ flight' = [at |-> "judging", event |-> e]
    /\ UNCHANGED <<vars, stored, shown, command, due, dirty, unjudged, stale>>

RecvJudge ==
    /\ flight.at = "judging"
    /\ flight' = [at |-> "judged", event |-> flight.event,
                  passed |-> Verdict(flight.event)]
    /\ UNCHANGED <<vars, stored, shown, command, due, dirty, unjudged, stale>>

(* ... or finds the lock taken, by a step of a command or by a refilter,   *)
(* and lets the event through.                                             *)
RecvBusy(e) ==
    /\ flight = NoFlight /\ e \notin stored
    /\ step \in {"erase", "erase_one", "push", "push_new", "update"} \/ due
    /\ flight' = [at |-> "judged", event |-> e, passed |-> TRUE]
    /\ unjudged' = unjudged \cup {e}
    /\ UNCHANGED <<vars, stored, shown, command, due, dirty, stale>>

(* Seeded bug: the receiver keeps the event it has stored.                 *)
RecvPushKeeps ==
    /\ flight.at = "judged"
    /\ stored' = stored \cup {flight.event}
    /\ shown' = IF flight.passed THEN shown \cup {flight.event} ELSE shown
    /\ UNCHANGED <<vars, flight, command, due, dirty, unjudged, stale>>

(* add_to_memory_cache, add_to_event_filtered_store                        *)
RecvPush ==
    /\ flight.at = "judged"
    /\ stored' = stored \cup {flight.event}
    /\ shown' = IF flight.passed THEN shown \cup {flight.event} ELSE shown
    /\ flight' = NoFlight
    /\ UNCHANGED <<vars, command, due, dirty, unjudged, stale>>

(* The store is lost with the process.                                     *)
ViewRestart ==
    /\ Restart
    /\ stored' = {} /\ shown' = {} /\ flight' = NoFlight /\ command' = NoCommand
    /\ due' = FALSE /\ dirty' = FALSE /\ unjudged' = {} /\ stale' = {}

ViewNext ==
    \/ ViewCommand \/ ViewCommandStep \/ DialogFilter \/ Refilter
    \/ \E e \in Events : RecvEnter(e) \/ RecvBusy(e)
    \/ RecvJudge \/ RecvPush
    \/ ViewRestart

ViewSpec == ViewInit /\ [][ViewNext]_allVars

-----------------------------------------------------------------------------
(* Types, and that only one of the two threads is inside the filter.       *)
ViewTypeOK ==
    /\ shown \subseteq stored /\ stored \subseteq Events
    /\ flight.at \in {"none", "judging", "judged"}
    /\ flight # NoFlight => flight.event \in Events \ stored
    /\ due \in BOOLEAN /\ dirty \in BOOLEAN
    /\ unjudged \cup stale \subseteq Events
    /\ flight.at = "judging" => step # "update"

(* When a command is over and its refilter done, the list is the filter    *)
(* applied to the store, but for events the receiver had judged before the *)
(* edit and stored after the refilter (event_memory_store.h:481-502) and   *)
(* events a failed try-lock let through (filter_manage.cpp:844).           *)
ViewIsFilter ==
    step = "idle" /\ ~due /\ ~dirty =>
        /\ {e \in stored \ stale : Verdict(e)} \subseteq shown
        /\ shown \subseteq {e \in stored : Verdict(e)} \cup unjudged \cup stale

(* Including what a row shows in a column keeps that row in the list, if   *)
(* the filter let it through before (menu_include_it).                     *)
IncludeKeepsIt ==
    [][Refilter /\ command.name = "include" /\ command.passed =>
          command.event \in shown']_allVars

(* Excluding what a row shows in a column takes that row off the list, if  *)
(* nothing but main types is included (menu_exclude_it).                   *)
ExcludeHidesIt ==
    [][Refilter /\ command.name = "exclude" /\ ~HasSecondary(InForce) =>
          command.event \notin shown' \ unjudged']_allVars

(* The row whose time was made the end time is in the list: it is not      *)
(* later than itself (the label of menu_item_end_time).                    *)
EndTimeKeepsIt ==
    [][Refilter /\ command.name = "FLT_END_WITH" /\ command.passed =>
          command.event \in shown']_allVars
=============================================================================

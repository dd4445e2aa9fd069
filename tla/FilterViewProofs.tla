-------------------------- MODULE FilterViewProofs --------------------------
(***************************************************************************)
(* When a command of the user is over and its refilter done, the list is   *)
(* the filter applied to the store, for any events, columns and conditions *)
(* and however the receiver's steps fall between those of the commands.    *)
(*                                                                         *)
(* How a command edits the conditions plays no part in that: an edit is    *)
(* made under filter_info_lock, which the receiver holds while it judges,  *)
(* and makes the list dirty until the next refilter.                       *)
(***************************************************************************)
EXTENDS FilterView, FilterConfigProofs

(* What a step of a command leaves alone.                                  *)
LEMMA CommandStepDone == CommandStep => step' # "update"
  BY DEF CommandStep, DeleteRow, EraseInfos, InsertRow, PushInfo, UpdateRow,
     InsertNewRow, PushNewInfo, DeleteOneRow, EraseOne, ReleaseInfos, Begin,
     Finish

(* The toolbar edits a condition whose mask is another: the vector changes.*)
LEMMA ToolbarEdits ==
    ASSUME NEW text, ToolbarEdit(text)
    PROVE  Edits
<1>1. PICK k \in MainTypes :
         /\ filter_infos[k].data # text
         /\ filter_infos' = [filter_infos EXCEPT ![k] =
               Info("FLT_MAIN_TYPE", "FLT_CONTAINS", "FLT_INCLUDE", text,
                    filter_infos[k].bk_clr)]
  BY DEF ToolbarEdit
<1>2. k \in DOMAIN filter_infos
  BY DEF MainTypes
<1>3. filter_infos'[k].data = text
  BY <1>1, <1>2 DEF Info, Adjusted, NumberConds, UlongConds, TimeConds
<1> QED
  BY <1>1, <1>3 DEF Edits

(* A command of the user begins an update only by an edit of the vector.   *)
LEMMA ViewCommandStarts == ViewCommand => step' # "update" \/ Edits
<1> SUFFICES ASSUME ViewCommand PROVE step' # "update" \/ Edits
  OBVIOUS
<1>1. ASSUME NEW e, NEW c, ViewMenu(e, c) PROVE step' # "update"
  BY <1>1 DEF ViewMenu, MenuInclude, MenuExclude, Begin
<1>2. ASSUME NEW e, NEW mode, ViewMenuTime(e, mode) PROVE step' # "update"
  BY <1>2 DEF ViewMenuTime, MenuTime, Begin
<1>3. ASSUME NEW text, FocusProcess(text) \/ FocusNewProcess(text)
      PROVE  step' # "update"
  BY <1>3 DEF FocusProcess, FocusNewProcess, Command, Begin
<1>4. ASSUME NEW text, ToolbarAdd(text) \/ ToolbarSame(text)
      PROVE  step' # "update"
  BY <1>4 DEF ToolbarAdd, ToolbarSame, Command, Begin, vars
<1>5. ASSUME DialogRestore \/ \E k \in DOMAIN filter_infos : DialogDelete(k)
      PROVE  step' # "update"
  BY <1>5 DEF DialogRestore, DialogDelete, Begin
<1> QED
  BY <1>1, <1>2, <1>3, <1>4, <1>5, ToolbarEdits DEF ViewCommand

-----------------------------------------------------------------------------
(* The event in flight carries the verdict of the filter in force, or one  *)
(* of the two exceptions has been noted for it.                            *)
FlightInv ==
    flight.at = "judged" =>
        \/ flight.event \in stale
        \/ flight.passed /\ flight.event \in unjudged
        \/ flight.passed = Verdict(flight.event)

(* The list is the filter applied to the store, but for those exceptions.  *)
Filtered ==
    /\ {e \in stored \ stale : Verdict(e)} \subseteq shown
    /\ shown \subseteq {e \in stored : Verdict(e)} \cup unjudged \cup stale

ViewInv == ViewTypeOK /\ FlightInv /\ (~dirty => Filtered)

LEMMA ViewInitInv == ViewInit => ViewInv
<1> SUFFICES ASSUME ViewInit PROVE ViewInv
  OBVIOUS
<1>1. flight = NoFlight /\ flight.at = "none" /\ step = "idle"
  BY DEF ViewInit, Init, NoFlight
<1>2. ViewTypeOK
  BY <1>1 DEF ViewInit, ViewTypeOK
<1>3. FlightInv /\ Filtered
  BY <1>1 DEF ViewInit, FlightInv, Filtered
<1> QED
  BY <1>2, <1>3 DEF ViewInv

(* A step of a command: an edit makes the list dirty and the event in      *)
(* flight stale; the rest is left alone.                                   *)
LEMMA EditKeeps ==
    ASSUME ViewInv, Edited, UNCHANGED <<stored, shown, flight, unjudged>>,
           step' # "update" \/ Edits, due' \in BOOLEAN
    PROVE  ViewInv'
<1>1. ViewTypeOK'
  BY DEF ViewInv, ViewTypeOK, Edited, NoFlight
<1>2. CASE Edits
  BY <1>1, <1>2 DEF ViewInv, FlightInv, Edited
<1>3. CASE ~Edits
  <2>1. \A e : Verdict(e)' = Verdict(e)
    BY <1>3 DEF Edits, Verdict, InForce
  <2> QED
    BY <1>1, <1>3, <2>1 DEF ViewInv, FlightInv, Filtered, Edited
<1> QED
  BY <1>2, <1>3

LEMMA ViewNextInv == ViewInv /\ [ViewNext]_allVars => ViewInv'
<1> SUFFICES ASSUME ViewInv, [ViewNext]_allVars PROVE ViewInv'
  OBVIOUS
<1> USE DEF ViewInv
<1>same. ASSUME UNCHANGED vars
         PROVE  \A e : Verdict(e)' = Verdict(e)
  BY <1>same DEF vars, Verdict, InForce
<1>1. CASE ViewCommand
  <2>1. due' \in BOOLEAN
    BY <1>1 DEF ViewCommand, ViewMenu, ViewMenuTime, Issue, Start
  <2> QED
    BY <1>1, <2>1, ViewCommandStarts, EditKeeps DEF ViewCommand
<1>2. CASE ViewCommandStep
  BY <1>2, CommandStepDone, EditKeeps DEF ViewCommandStep, ViewTypeOK
<1>3. CASE DialogFilter
  BY <1>3, <1>same DEF DialogFilter, ViewTypeOK, FlightInv, Filtered, NoFlight,
     vars
<1>4. CASE Refilter
  <2>1. PICK lucky \in SUBSET {e \in stored : ~Verdict(e)} :
           /\ shown' = {e \in stored : Verdict(e)} \cup lucky
           /\ unjudged' = (unjudged \ stored) \cup lucky
    BY <1>4 DEF Refilter
  <2>2. /\ UNCHANGED <<vars, stored, flight>> /\ stale' = stale \ stored
        /\ due' = FALSE
    BY <1>4 DEF Refilter
  <2>3. ViewTypeOK'
    BY <1>4, <2>1, <2>2 DEF Refilter, ViewTypeOK, NoFlight, vars
  <2>4. FlightInv'
    BY <2>1, <2>2, <1>same DEF FlightInv, ViewTypeOK, NoFlight
  <2>5. Filtered'
    BY <2>1, <2>2, <1>same DEF Filtered
  <2> QED
    BY <2>3, <2>4, <2>5
<1>5. CASE \E e \in Events : RecvEnter(e)
  BY <1>5, <1>same DEF RecvEnter, ViewTypeOK, FlightInv, Filtered, NoFlight,
     vars
<1>6. CASE \E e \in Events : RecvBusy(e)
  BY <1>6, <1>same DEF RecvBusy, ViewTypeOK, FlightInv, Filtered, NoFlight,
     vars
<1>7. CASE RecvJudge
  BY <1>7, <1>same DEF RecvJudge, ViewTypeOK, FlightInv, Filtered, NoFlight,
     vars
<1>8. CASE RecvPush
  <2>1. /\ flight.at = "judged" /\ flight.event \in Events \ stored
        /\ stored' = stored \cup {flight.event} /\ flight' = NoFlight
        /\ shown' = IF flight.passed THEN shown \cup {flight.event} ELSE shown
        /\ UNCHANGED <<vars, due, dirty, unjudged, stale>>
    BY <1>8 DEF RecvPush, ViewTypeOK, NoFlight
  <2>2. ViewTypeOK'
    BY <2>1 DEF ViewTypeOK, NoFlight, vars
  <2>3. FlightInv'
    BY <2>1 DEF FlightInv, NoFlight
  <2>4. Filtered => Filtered'
    BY <2>1, <1>same DEF FlightInv, Filtered
  <2> QED
    BY <2>1, <2>2, <2>3, <2>4
<1>9. CASE ViewRestart
  BY <1>9 DEF ViewRestart, Restart, Finish, Begin, NoFlight, ViewTypeOK,
     FlightInv, Filtered
<1>10. CASE UNCHANGED allVars
  BY <1>10, <1>same DEF allVars, viewVars, vars, ViewTypeOK, FlightInv,
     Filtered, NoFlight
<1> QED
  BY <1>1, <1>2, <1>3, <1>4, <1>5, <1>6, <1>7, <1>8, <1>9, <1>10 DEF ViewNext

LEMMA ViewInductive == ViewSpec => []ViewInv
  BY ViewInitInv, ViewNextInv, PTL DEF ViewSpec

(* The list holds events of the store only, an event in flight is not yet  *)
(* stored, and the toolbar's update of a condition never overlaps the      *)
(* receiver's judgement of an event.                                       *)
THEOREM ViewTypeCorrect == ViewSpec => []ViewTypeOK
<1>1. ViewInv => ViewTypeOK
  BY DEF ViewInv
<1> QED
  BY ViewInductive, <1>1, PTL

(* The list is the filter applied to the store whenever no command is in   *)
(* progress and no refilter due, but for the events whose judgement an     *)
(* edit overtook and those a failed try-lock let through.                  *)
THEOREM ListIsFilter == ViewSpec => []ViewIsFilter
<1>1. ViewInv => ViewIsFilter
  BY DEF ViewInv, Filtered, ViewIsFilter
<1> QED
  BY ViewInductive, <1>1, PTL

-----------------------------------------------------------------------------
(* What including and excluding a row does to that row.  It holds for the  *)
(* columns that show what their condition is compared with: not for the    *)
(* path of the program (proc_icon), of which only the last part is         *)
(* compared, the time, and the columns the filter does not look at.        *)
ColumnsCompared ==
    \A c \in Columns :
        /\ ColumnCond[c] \in UlongConds \cup StringConds \cup RefusedConds
        /\ \A e \in Events :
              /\ ColumnCond[c] \in UlongConds =>
                    e.column[c] = e.number[ColumnCond[c]]
              /\ ColumnCond[c] \in StringConds =>
                    e.column[c] = e.text[ColumnCond[c]] /\ ColumnCond[c] \notin e.lacks

Choice(c, e, filter_mode) ==
    Info(ColumnCond[c], "FLT_EQUALS", filter_mode, e.column[c], "event")

(* A condition chosen on an event finds that event, and so does a          *)
(* condition the code takes for the same.                                  *)
LEMMA ChoiceFinds ==
    ASSUME ColumnsCompared, NEW c \in Columns, NEW e \in Events,
           NEW filter_mode, NEW info,
           \/ info = Choice(c, e, filter_mode)
           \/ is_same_filter_info(info, Choice(c, e, filter_mode))
    PROVE  /\ info.filter_mode = filter_mode
           /\ filter_action(info, e) # "ERROR_NOT_FOUND"
<1> DEFINE new == Choice(c, e, filter_mode)
<1>1. /\ new.cond = ColumnCond[c] /\ new.compare_mode = "FLT_EQUALS"
      /\ new.filter_mode = filter_mode /\ new.text = e.column[c]
  BY DEF Choice, Info, Adjusted
<1>2. /\ info.cond = ColumnCond[c] /\ info.compare_mode = "FLT_EQUALS"
      /\ info.filter_mode = filter_mode
  BY <1>1 DEF is_same_filter_info
<1>3. CASE ColumnCond[c] \in RefusedConds
  BY <1>2, <1>3 DEF filter_action, RefusedConds
<1>4. CASE ColumnCond[c] \in UlongConds
  <2>0. ColumnCond[c] # "FLT_READ_WRITE"
    BY EventsAssumption DEF ColumnCond
  <2>1. new.type = "number" /\ new.data = e.number[ColumnCond[c]]
    BY <1>4 DEF ColumnsCompared, Choice, Info, Adjusted, NumberConds, UlongConds, TimeConds
  <2>2. info.data = e.number[ColumnCond[c]]
    BY <2>1 DEF is_same_filter_info
  <2>3. Matches(info, e)
    BY <1>2, <1>4, <2>2, <2>0 DEF Matches, UlongMatches, UlongOf
  <2> QED
    BY <1>2, <1>4, <2>3 DEF filter_action
<1>5. CASE ColumnCond[c] \in StringConds
  <2>1. new.type = "STRING_VALUE_TYPE" /\ new.text = e.text[ColumnCond[c]]
    BY <1>5 DEF ColumnsCompared, Choice, Info, Adjusted, NumberConds,
       UlongConds, StringConds, TimeConds
  <2>2. StartsAlike(e.text[ColumnCond[c]], info.text, info.cc_string_len)
    BY <2>1 DEF is_same_filter_info, StartsAlike
  <2>3. info.cond \in StringConds \ e.lacks
    BY <1>2, <1>5 DEF ColumnsCompared
  <2>4. Matches(info, e)
    BY <1>2, <2>2, <2>3 DEF Matches, StringMatches
  <2> QED
    BY <1>2, <1>5, <2>4 DEF filter_action, StringConds, UnsupportedConds, InvalidConds
<1> QED
  BY <1>3, <1>4, <1>5 DEF ColumnsCompared

(* An inclusion that finds an event does not stop it.                      *)
LEMMA IncludedPasses ==
    ASSUME NEW infos, NEW e, NEW info, Passes(infos, e),
           info.filter_mode = "FLT_INCLUDE",
           filter_action(info, e) # "ERROR_NOT_FOUND"
    PROVE  Passes(infos \cup {info}, e)
<1>1. Inclusions(infos \cup {info}) = Inclusions(infos) \cup {info}
  BY DEF Inclusions
<1>2. Exclusions(infos \cup {info}) = Exclusions(infos)
  BY DEF Exclusions
<1> QED
  BY <1>1, <1>2 DEF Passes, HasSecondary

-----------------------------------------------------------------------------
(* The steps of FilterConfig keep their types here too.                    *)
LEMMA ViewCommandTyped ==
    ASSUME TypeInv, ViewTypeOK, ViewCommand
    PROVE  TypeInv'
<1> DEFINE Conds == NumberConds \cup TextConds
<1>1. "time" \in Columns \cup {"time"} /\ "FLT_PID" \in UlongConds /\ "FLT_PID" \in Conds
  BY DEF UlongConds, NumberConds
<1>2. \A c \in Columns : ColumnCond[c] \in Conds
  <2>1. \A c \in DOMAIN ColumnCond : ColumnCond[c] \in Conds
    BY DEF ColumnCond, NumberConds, TextConds, UlongConds, StringConds, TimeConds
  <2> QED
    BY <2>1, EventsAssumption
<1>3. ASSUME NEW e \in Events, NEW c \in Columns, ViewMenu(e, c)
      PROVE  TypeInv'
  <2>1. e.column[c] \in Texts
    BY EventsAssumption
  <2> QED
    BY <1>2, <1>3, <2>1, ChoiceTyped DEF ViewMenu
<1>4. ASSUME NEW e \in Events, NEW mode \in {"FLT_START_WITH", "FLT_END_WITH"},
             ViewMenuTime(e, mode)
      PROVE  TypeInv'
  <2>1. e.column["time"] \in Texts
    BY <1>1, EventsAssumption
  <2> QED
    BY <1>1, <1>4, <2>1, ChoiceTyped DEF ViewMenuTime
<1>5. ASSUME NEW e \in Events,
             FocusProcess(e.number["FLT_PID"]) \/ FocusNewProcess(e.number["FLT_PID"])
      PROVE  TypeInv'
  <2>1. e.number["FLT_PID"] \in Texts
    BY <1>1, EventsAssumption
  <2> QED
    BY <1>1, <1>5, <2>1, ChoiceTyped
<1>6. ASSUME NEW text \in Masks, ToolbarEdit(text) \/ ToolbarAdd(text)
      PROVE  TypeInv'
  BY <1>1, <1>6, MasksAssumption, ChoiceTyped
<1>7. ASSUME NEW text, ToolbarSame(text) PROVE TypeInv'
  BY <1>7 DEF ToolbarSame, vars, TypeInv, TypeOK, Room
<1>8. shown \subseteq Events
  BY DEF ViewTypeOK
<1> QED
  BY <1>3, <1>4, <1>5, <1>6, <1>7, <1>8, DialogTyped DEF ViewCommand

LEMMA ViewNextTyped == ViewInv /\ TypeInv /\ [ViewNext]_allVars => TypeInv'
<1> SUFFICES ASSUME ViewInv, TypeInv, [ViewNext]_allVars PROVE TypeInv'
  OBVIOUS
<1>1. CASE ViewCommand
  BY <1>1, ViewCommandTyped DEF ViewInv
<1>2. CASE ViewCommandStep
  BY <1>2, CommandStepTyped DEF ViewCommandStep
<1>3. CASE ViewRestart
  BY <1>3, RestartTyped DEF ViewRestart
<1>4. CASE UNCHANGED vars
  BY <1>4 DEF vars, TypeInv, TypeOK, Room
<1>5. CASE DialogFilter \/ Refilter \/ RecvJudge \/ RecvPush
  BY <1>4, <1>5 DEF DialogFilter, Refilter, RecvJudge, RecvPush
<1>6. CASE \E e \in Events : RecvEnter(e) \/ RecvBusy(e)
  BY <1>4, <1>6 DEF RecvEnter, RecvBusy
<1>7. CASE UNCHANGED allVars
  BY <1>4, <1>7 DEF allVars
<1> QED
  BY <1>1, <1>2, <1>3, <1>5, <1>6, <1>7 DEF ViewNext

-----------------------------------------------------------------------------
(* While a command chosen on a row is in progress: the condition it works  *)
(* with is the one of that row, and the vector changes by its steps only.  *)
IncludeInv ==
    command.name = "include" =>
        /\ due
        /\ command.event \in stored
        /\ command.passed => Verdict(command.event)
        /\ step \in {"idle", "insert", "push"}
        /\ step # "idle" => \E c \in Columns :
              filter_info = Choice(c, command.event, "FLT_INCLUDE")

ExcludeInv ==
    command.name = "exclude" =>
        /\ due
        /\ command.event \in stored
        /\ step \in {"idle", "delete", "erase", "insert", "push"}
        /\ step # "idle" => \E c \in Columns :
              filter_info = Choice(c, command.event, "FLT_EXCLUDE")
        /\ step = "idle" => \E info \in Exclusions(InForce) :
              filter_action(info, command.event) # "ERROR_NOT_FOUND"

CommandInv == IncludeInv /\ ExcludeInv

(* The vector after the last step of a command.                            *)
LEMMA Pushed ==
    ASSUME TypeInv, PushInfo
    PROVE  \/ InForce' = InForce \cup {filter_info}
           \/ /\ InForce' = InForce
              /\ \E info \in InForce : is_same_filter_info(info, filter_info)
<1>1. filter_infos \in Seq(Infos)
  BY DEF TypeInv, TypeOK
<1>2. CASE filter_infos' = filter_infos
  <2>1. Append(filter_infos, filter_info) # filter_infos
    <3>1. Len(Append(filter_infos, filter_info)) # Len(filter_infos)
      BY <1>1
    <3> QED
      BY <3>1
  <2> QED
    BY <1>2, <2>1 DEF PushInfo, InForce
<1>3. CASE filter_infos' = Append(filter_infos, filter_info)
  <2>1. PICK n \in Nat : n = Len(filter_infos)
    BY <1>1
  <2>2. /\ DOMAIN filter_infos = 1 .. n /\ DOMAIN filter_infos' = 1 .. n + 1
        /\ \A i \in 1 .. n : filter_infos'[i] = filter_infos[i]
        /\ filter_infos'[n + 1] = filter_info
    BY <1>1, <1>3, <2>1
  <2>3. n + 1 \in 1 .. n + 1 /\ \A i \in 1 .. n + 1 : i \in 1 .. n \/ i = n + 1
    BY <2>1
  <2>4. \A i \in 1 .. n : i \in 1 .. n + 1
    BY <2>1
  <2> QED
    BY <2>2, <2>3, <2>4 DEF InForce
<1> QED
  BY <1>2, <1>3 DEF PushInfo

(* A command is chosen on a row of the list.                               *)
LEMMA CommandChosen ==
    ASSUME ViewTypeOK, ViewCommand
    PROVE  CommandInv'
<1>1. shown \subseteq stored /\ UNCHANGED stored
  BY DEF ViewTypeOK, ViewCommand
<1>2. CASE command'.name \notin {"include", "exclude"}
  BY <1>2 DEF CommandInv, IncludeInv, ExcludeInv
<1>3. CASE command'.name \in {"include", "exclude"}
  <2>1. PICK e \in shown, c \in Columns : ViewMenu(e, c)
    BY <1>3 DEF ViewCommand, ViewMenuTime, Issue, Start, NoCommand
  <2>2. UNCHANGED filter_infos
    BY <2>1 DEF ViewMenu, MenuInclude, MenuExclude
  <2>3. Verdict(e)' = Verdict(e)
    BY <2>2 DEF Verdict, InForce
  <2>4. CASE MenuInclude(ColumnCond[c], e.column[c]) /\ Issue("include", e)
    <3>1. /\ command' = [name |-> "include", event |-> e, passed |-> Verdict(e)]
          /\ due' = TRUE /\ step' = "insert"
          /\ filter_info' = Choice(c, e, "FLT_INCLUDE")
      BY <2>4 DEF Issue, Start, MenuInclude, Begin, Choice
    <3> QED
      BY <1>1, <2>3, <3>1 DEF CommandInv, IncludeInv, ExcludeInv
  <2>5. CASE MenuExclude(ColumnCond[c], e.column[c]) /\ Issue("exclude", e)
    <3>1. /\ command' = [name |-> "exclude", event |-> e, passed |-> Verdict(e)]
          /\ due' = TRUE /\ step' = "delete"
          /\ filter_info' = Choice(c, e, "FLT_EXCLUDE")
      BY <2>5 DEF Issue, Start, MenuExclude, Begin, Choice
    <3> QED
      BY <1>1, <3>1 DEF CommandInv, IncludeInv, ExcludeInv
  <2> QED
    BY <2>1, <2>4, <2>5 DEF ViewMenu
<1> QED
  BY <1>2, <1>3

(* The steps of an inclusion leave the other conditions alone.             *)
LEMMA IncludeSteps ==
    ASSUME ColumnsCompared, TypeInv, ViewTypeOK, IncludeInv, CommandStep,
           UNCHANGED <<stored, command, due>>
    PROVE  IncludeInv'
<1> SUFFICES ASSUME command.name = "include" PROVE IncludeInv'
  BY DEF IncludeInv
<1>1. /\ due /\ command.event \in stored /\ command.event \in Events
      /\ command.passed => Verdict(command.event)
  BY DEF IncludeInv, ViewTypeOK
<1>2. InsertRow \/ PushInfo
  BY DEF IncludeInv, CommandStep, DeleteRow, EraseInfos, UpdateRow,
     InsertNewRow, PushNewInfo, DeleteOneRow, EraseOne, ReleaseInfos
<1>3. step # "idle"
  BY <1>2 DEF InsertRow, PushInfo
<1>4. PICK c \in Columns : filter_info = Choice(c, command.event, "FLT_INCLUDE")
  BY <1>3 DEF IncludeInv
<1>5. CASE InsertRow
  <2>1. Verdict(command.event)' = Verdict(command.event)
    BY <1>5 DEF InsertRow, Verdict, InForce
  <2> QED
    BY <1>1, <1>4, <1>5, <2>1 DEF InsertRow, Begin, IncludeInv
<1>6. CASE PushInfo
  <2>1. filter_info.filter_mode = "FLT_INCLUDE"
    BY <1>1, <1>4, ChoiceFinds
  <2>2. filter_action(filter_info, command.event) # "ERROR_NOT_FOUND"
    BY <1>1, <1>4, ChoiceFinds
  <2>3. Verdict(command.event) => Passes(InForce', command.event)
    BY <1>6, <2>1, <2>2, Pushed, IncludedPasses DEF Verdict
  <2>4. Verdict(command.event)' = Passes(InForce', command.event)
    BY DEF Verdict
  <2>5. step' = "idle"
    BY <1>6 DEF PushInfo, Finish, Begin
  <2> QED
    BY <1>1, <2>3, <2>4, <2>5 DEF IncludeInv
<1> QED
  BY <1>2, <1>5, <1>6

(* Those of an exclusion end with an exclusion that finds the event, the   *)
(* new one or one the code takes for the same.                             *)
LEMMA ExcludeSteps ==
    ASSUME ColumnsCompared, TypeInv, ViewTypeOK, ExcludeInv, CommandStep,
           UNCHANGED <<stored, command, due>>
    PROVE  ExcludeInv'
<1> SUFFICES ASSUME command.name = "exclude" PROVE ExcludeInv'
  BY DEF ExcludeInv
<1>1. due /\ command.event \in stored /\ command.event \in Events
  BY DEF ExcludeInv, ViewTypeOK
<1>2. DeleteRow \/ EraseInfos \/ InsertRow \/ PushInfo
  BY DEF ExcludeInv, CommandStep, UpdateRow, InsertNewRow, PushNewInfo,
     DeleteOneRow, EraseOne, ReleaseInfos
<1>3. step # "idle"
  BY <1>2 DEF DeleteRow, EraseInfos, InsertRow, PushInfo
<1>4. PICK c \in Columns : filter_info = Choice(c, command.event, "FLT_EXCLUDE")
  BY <1>3 DEF ExcludeInv
<1>5. CASE DeleteRow \/ EraseInfos \/ InsertRow
  <2>1. step' \in {"erase", "insert", "push"} /\ UNCHANGED filter_info
    BY <1>5 DEF DeleteRow, EraseInfos, InsertRow, Begin
  <2> QED
    BY <1>1, <1>4, <2>1 DEF ExcludeInv
<1>6. CASE PushInfo
  <2>1. PICK info \in InForce' :
           info = filter_info \/ is_same_filter_info(info, filter_info)
    BY <1>6, Pushed
  <2>2. /\ info.filter_mode = "FLT_EXCLUDE"
        /\ filter_action(info, command.event) # "ERROR_NOT_FOUND"
    BY <1>1, <1>4, <2>1, ChoiceFinds
  <2>3. info \in Exclusions(InForce')
    BY <2>2 DEF Exclusions
  <2>4. Exclusions(InForce)' = Exclusions(InForce')
    BY DEF Exclusions
  <2>5. step' = "idle"
    BY <1>6 DEF PushInfo, Finish, Begin
  <2> QED
    BY <1>1, <2>2, <2>3, <2>4, <2>5 DEF ExcludeInv
<1> QED
  BY <1>2, <1>5, <1>6

LEMMA CommandKeeps ==
    ASSUME CommandInv, UNCHANGED <<filter_infos, step, filter_info, command>>,
           stored \subseteq stored', due => due'
    PROVE  CommandInv'
<1>1. UNCHANGED InForce /\ Verdict(command.event)' = Verdict(command.event)
  BY DEF InForce, Verdict
<1> QED
  BY <1>1 DEF CommandInv, IncludeInv, ExcludeInv

LEMMA CommandNext ==
    ASSUME ColumnsCompared
    PROVE  ViewInv /\ TypeInv /\ CommandInv /\ [ViewNext]_allVars => CommandInv'
<1> SUFFICES ASSUME ViewInv, TypeInv, CommandInv, [ViewNext]_allVars
             PROVE  CommandInv'
  OBVIOUS
<1>0. ViewTypeOK
  BY DEF ViewInv
<1>1. CASE ViewCommand
  BY <1>0, <1>1, CommandChosen
<1>2. CASE ViewCommandStep
  BY <1>0, <1>2, IncludeSteps, ExcludeSteps DEF ViewCommandStep, CommandInv
<1>3. CASE DialogFilter \/ Refilter \/ ViewRestart
  <2>1. command' = NoCommand
    BY <1>3 DEF DialogFilter, Refilter, ViewRestart
  <2> QED
    BY <2>1 DEF NoCommand, CommandInv, IncludeInv, ExcludeInv
<1>4. CASE \E e \in Events : RecvEnter(e) \/ RecvBusy(e)
  BY <1>4, CommandKeeps DEF RecvEnter, RecvBusy, vars
<1>5. CASE RecvJudge \/ RecvPush
  BY <1>5, CommandKeeps DEF RecvJudge, RecvPush, vars
<1>6. CASE UNCHANGED allVars
  BY <1>6, CommandKeeps DEF allVars, viewVars, vars
<1> QED
  BY <1>1, <1>2, <1>3, <1>4, <1>5, <1>6 DEF ViewNext

LEMMA CommandInductive ==
    ASSUME ColumnsCompared
    PROVE  ViewSpec => [](ViewInv /\ TypeInv /\ CommandInv)
<1>1. ViewInit => TypeInv /\ CommandInv
  BY InitTyped DEF ViewInit, NoCommand, CommandInv, IncludeInv, ExcludeInv
<1>2. ViewInv /\ TypeInv /\ CommandInv /\ [ViewNext]_allVars =>
         (ViewInv /\ TypeInv /\ CommandInv)'
  BY ViewNextInv, ViewNextTyped, CommandNext
<1> QED
  BY <1>1, <1>2, ViewInitInv, PTL DEF ViewSpec

(* Including what a row shows keeps that row in the list, for the columns  *)
(* that show what is compared, whatever the receiver does meanwhile.       *)
THEOREM IncludeKeeps ==
    ASSUME ColumnsCompared
    PROVE  ViewSpec => IncludeKeepsIt
<1>1. ViewInv /\ TypeInv /\ CommandInv /\ [ViewNext]_allVars =>
         [Refilter /\ command.name = "include" /\ command.passed =>
             command.event \in shown']_allVars
  <2> SUFFICES ASSUME CommandInv, Refilter, command.name = "include", command.passed
               PROVE  command.event \in shown'
    OBVIOUS
  <2>1. command.event \in stored /\ Verdict(command.event)
    BY DEF CommandInv, IncludeInv
  <2> QED
    BY <2>1 DEF Refilter
<1> QED
  BY <1>1, CommandInductive, PTL DEF ViewSpec, IncludeKeepsIt

(* Excluding what a row shows takes that row off the list, for the same    *)
(* columns, if only main types are included.                               *)
THEOREM ExcludeHides ==
    ASSUME ColumnsCompared
    PROVE  ViewSpec => ExcludeHidesIt
<1>1. ViewInv /\ TypeInv /\ CommandInv /\ [ViewNext]_allVars =>
         [Refilter /\ command.name = "exclude" /\ ~HasSecondary(InForce) =>
             command.event \notin shown' \ unjudged']_allVars
  <2> SUFFICES ASSUME CommandInv, Refilter, command.name = "exclude",
                      ~HasSecondary(InForce), command.event \in shown'
               PROVE  command.event \in unjudged'
    OBVIOUS
  <2>1. \E info \in Exclusions(InForce) :
           filter_action(info, command.event) # "ERROR_NOT_FOUND"
    BY DEF CommandInv, ExcludeInv, Refilter
  <2>2. ~Verdict(command.event)
    BY <2>1 DEF Verdict, Passes
  <2> QED
    BY <2>2 DEF Refilter
<1> QED
  BY <1>1, CommandInductive, PTL DEF ViewSpec, ExcludeHidesIt
=============================================================================

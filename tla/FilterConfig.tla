---------------------------- MODULE FilterConfig ----------------------------
(***************************************************************************)
(* The filter conditions of bittrace, which live twice: in the vector      *)
(* filter_infos, which decides what the list shows, and in a table of the  *)
(* configuration database, from which a restart rebuilds the vector.       *)
(*                                                                         *)
(* Every command comes from the UI thread.  It changes the database and    *)
(* the vector in separate steps, and the program may be killed between     *)
(* them.  Each statement on the database commits by itself.                *)
(*                                                                         *)
(* A condition keeps what the user typed (text) apart from the number made *)
(* of it (data), and a text is the number it denotes: the texts are        *)
(* positive, 0 is the data of a condition nobody converted.                *)
(***************************************************************************)
EXTENDS FilterAction, SequencesExt

CONSTANTS
    Texts,          \* the texts the user may choose
    DefaultText,    \* the text of the default condition
    MenuConds,      \* the conditions chosen in the menus of an event
    DialogConds,    \* the conditions chosen in the filter dialog
    FilterCommands, \* the commands the user issues
    MaxConditions   \* bound: the length of the vector and of the table

ASSUME TextsAssumption == Texts \subseteq Nat \ {0} /\ DefaultText \in Nat \ {0}
ASSUME MaxConditionsAssumption == MaxConditions \in Nat \ {0}

TimeConds == {"FLT_DATE_TIME", "FLT_RELATIVE_TIME"}
NumberConds ==
    UlongConds \cup TimeConds \cup
    {"FLT_PARENT_PID", "FLT_SESSION", "FLT_CPU_ARCH", "FLT_VIRTUAL_TECH",
     "FLT_ACTION_NO", "FLT_VERSION"}
TextConds ==
    StringConds \cup
    {"FLT_COMMAND", "FLT_DESCRITION", "FLT_DESC_DETAIL", "FLT_USER", "FLT_AUTH_ID",
     "FLT_CORPORATION", "FLT_CALL_STACK", "FLT_ACTION_DATA"}

ASSUME CondsAssumption ==
    /\ MenuConds \subseteq NumberConds \cup TextConds
    /\ DialogConds \subseteq NumberConds \cup TextConds

VARIABLES
    filter_infos,   \* the vector of conditions in force
    cond_table,     \* the rows of the database table, in rowid order
    step,           \* what the command in progress does next
    filter_info,    \* the condition it works with (a local of the code)
    selected        \* the place in the vector it works on, 0 for none

vars == <<filter_infos, cond_table, step, filter_info, selected>>

NoInfo == <<>>

(* adjust_filter_cond_value: the conditions on numbers get their number    *)
(* from the text and a type of their own, the others stay strings.  A time *)
(* is always 0: string_to_local_time reads seven fields and expects six,   *)
(* and nobody looks at its result.  A duration is not made from its text   *)
(* but from the standard input, which the program has none of: left out.   *)
Adjusted(info) ==
    IF info.cond \in NumberConds
    THEN [info EXCEPT !.type = "number",
                      !.data = IF info.cond \in TimeConds THEN 0 ELSE info.text]
    ELSE info

(* Seeded bug: the condition of a menu is not converted.                   *)
InfoUnadjusted(cond, compare_mode, filter_mode, text, bk_clr) ==
    [cond |-> cond, compare_mode |-> compare_mode, filter_mode |-> filter_mode,
     type |-> "STRING_VALUE_TYPE", text |-> text, data |-> 0,
     cc_string_len |-> "own", bk_clr |-> bk_clr]

(* The conditions as the menus and the toolbar make them ...               *)
Info(cond, compare_mode, filter_mode, text, bk_clr) ==
    Adjusted([cond |-> cond, compare_mode |-> compare_mode,
              filter_mode |-> filter_mode, type |-> "STRING_VALUE_TYPE",
              text |-> text, data |-> 0, cc_string_len |-> "own",
              bk_clr |-> bk_clr])

(* ... and as the dialog makes them: never converted.                      *)
DialogInfo(cond, compare_mode, filter_mode, text) ==
    [Info(cond, compare_mode, filter_mode, text, "none") EXCEPT
        !.data = 0, !.type = "STRING_VALUE_TYPE"]

DefaultInfo ==
    Info("FLT_PROCESS_NAME", "FLT_CONTAINS", "FLT_EXCLUDE", DefaultText, "none")

Opposite(info) ==
    [info EXCEPT !.filter_mode =
        IF @ = "FLT_INCLUDE" THEN "FLT_EXCLUDE" ELSE "FLT_INCLUDE"]

(* is_same_filter_info: strings are compared over the length of the one in *)
(* the vector.                                                             *)
is_same_filter_info(old, new) ==
    /\ old.cond = new.cond
    /\ old.compare_mode = new.compare_mode
    /\ old.filter_mode = new.filter_mode
    /\ old.type = new.type
    /\ IF old.type = "STRING_VALUE_TYPE"
       THEN StartsAlike(new.text, old.text, old.cc_string_len)
       ELSE old.data = new.data

-----------------------------------------------------------------------------
(* The table: PRIMARY KEY (cond, mode, value_type, value, result) ON       *)
(* CONFLICT REPLACE.                                                       *)
Row(info) == [cond |-> info.cond, compare_mode |-> info.compare_mode,
              filter_mode |-> info.filter_mode, type |-> info.type,
              text |-> info.text, bk_clr |-> info.bk_clr]

SameKey(row, info) == [row EXCEPT !.bk_clr = info.bk_clr] = Row(info)

(* What is left of a list when all but some of its places are erased.  It  *)
(* is built place by place, which SelectSeq of the standard module does    *)
(* too, but so that there are facts about it to cite.                      *)
Kept(list, places) ==
    LET kept[n \in 0 .. Len(list)] ==
            IF n = 0 THEN <<>>
            ELSE IF n \in places THEN Append(kept[n - 1], list[n])
            ELSE kept[n - 1]
    IN  kept[Len(list)]

(* Seeded bug: result is left out of the condition of the DELETE.          *)
DeletedAnyMode(info) ==
    Kept(cond_table, {k \in DOMAIN cond_table :
        /\ ~SameKey(cond_table[k], info)
        /\ ~SameKey(cond_table[k], Opposite(info))})

Deleted(info) ==
    Kept(cond_table, {k \in DOMAIN cond_table : ~SameKey(cond_table[k], info)})

Inserted(info) == Append(Deleted(info), Row(info))

(* UPDATE: the row of old, if its colour is the same too, becomes the row  *)
(* of new and replaces one that has the key of new.                        *)
Updated(old, new) ==
    LET hits == {k \in DOMAIN cond_table : cond_table[k] = Row(old)}
        replaced == {k \in DOMAIN cond_table : SameKey(cond_table[k], new)}
    IN  IF hits = {} THEN cond_table
        ELSE Kept([k \in DOMAIN cond_table |->
                      IF k \in hits THEN Row(new) ELSE cond_table[k]],
                  DOMAIN cond_table \ (replaced \ hits))

(* output_action_filter_cond: value_type is not read back but made anew    *)
(* from the condition, and cc_string_len is left as it was on the stack    *)
(* (nothing reads it of a number).                                         *)
Lengths == {"zero", "own", "beyond"}

Loaded(row, len) ==
    Adjusted([cond |-> row.cond, compare_mode |-> row.compare_mode,
              filter_mode |-> row.filter_mode, type |-> "STRING_VALUE_TYPE",
              text |-> row.text, data |-> 0,
              cc_string_len |-> IF row.cond \in TextConds THEN len ELSE "own",
              bk_clr |-> row.bk_clr])

LoadedTable(table) ==
    {[i \in DOMAIN table |-> Loaded(table[i], lens[i])] :
        lens \in [DOMAIN table -> Lengths]}

-----------------------------------------------------------------------------
(* The first start finds no database and enters the default condition.     *)
Init ==
    /\ cond_table = <<Row(DefaultInfo)>>
    /\ filter_infos \in LoadedTable(cond_table)
    /\ step = "idle" /\ filter_info = NoInfo /\ selected = 0

Command(name) ==
    /\ step = "idle"
    /\ name \in FilterCommands
    /\ Len(filter_infos) < MaxConditions /\ Len(cond_table) < MaxConditions

Begin(first, info, place) ==
    /\ step' = first
    /\ filter_info' = info
    /\ selected' = place

Finish == Begin("idle", NoInfo, 0)

(* Seeded bug: the inclusion is left in the database.                      *)
MenuExcludeKeepsRow(cond, text) ==
    /\ Command("exclude")
    /\ Begin("erase", Info(cond, "FLT_EQUALS", "FLT_EXCLUDE", text, "event"), 0)
    /\ UNCHANGED <<filter_infos, cond_table>>

(* menu_include_it                                                         *)
MenuInclude(cond, text) ==
    /\ Command("include")
    /\ Begin("insert", Info(cond, "FLT_EQUALS", "FLT_INCLUDE", text, "event"), 0)
    /\ UNCHANGED <<filter_infos, cond_table>>

(* menu_exclude_it: an inclusion of the same is taken back first.          *)
MenuExclude(cond, text) ==
    /\ Command("exclude")
    /\ Begin("delete", Info(cond, "FLT_EQUALS", "FLT_EXCLUDE", text, "event"), 0)
    /\ UNCHANGED <<filter_infos, cond_table>>

(* menu_begin_time, menu_end_time                                          *)
MenuTime(compare_mode, text) ==
    /\ Command("time")
    /\ Begin("delete",
             Info("FLT_DATE_TIME", compare_mode, "FLT_INCLUDE", text, "event"), 0)
    /\ UNCHANGED <<filter_infos, cond_table>>

(* delete_filter_condition: the row first ...                              *)
DeleteRow ==
    /\ step = "delete"
    /\ cond_table' = Deleted(Opposite(filter_info))
    /\ Begin("erase", filter_info, 0)
    /\ UNCHANGED filter_infos

(* ... then the vector, in a loop that erases and goes on to the next      *)
(* place, so that the condition after an erased one is not looked at: of   *)
(* the same conditions in a row it erases the first, the third ...         *)
ErasedPlaces(info) ==
    {i \in DOMAIN filter_infos :
        \E first \in 1 .. i :
            /\ \A j \in first .. i : is_same_filter_info(filter_infos[j], info)
            /\ first > 1 => ~is_same_filter_info(filter_infos[first - 1], info)
            /\ (i - first) % 2 = 0}

(* Seeded bug: the loop erases the condition after the one it found.       *)
ErasedNext(info) ==
    Kept(filter_infos, {i \in DOMAIN filter_infos :
                           i - 1 \notin ErasedPlaces(info)})

Erased(info) == Kept(filter_infos, DOMAIN filter_infos \ ErasedPlaces(info))

EraseInfos ==
    /\ step = "erase"
    /\ filter_infos' = Erased(Opposite(filter_info))
    /\ Begin("insert", filter_info, 0)
    /\ UNCHANGED cond_table

(* input_filter_condition: the row first ...                               *)
InsertRow ==
    /\ step = "insert"
    /\ cond_table' = Inserted(filter_info)
    /\ Begin("push", filter_info, 0)
    /\ UNCHANGED filter_infos

(* Seeded bug: the vector is not searched for the same condition.          *)
PushInfoAlways ==
    /\ step = "push"
    /\ filter_infos' = Append(filter_infos, filter_info)
    /\ Finish
    /\ UNCHANGED cond_table

(* ... then the vector, unless it has the same condition.                  *)
PushInfo ==
    /\ step = "push"
    /\ filter_infos' =
          IF \E i \in DOMAIN filter_infos :
                is_same_filter_info(filter_infos[i], filter_info)
          THEN filter_infos
          ELSE Append(filter_infos, filter_info)
    /\ Finish
    /\ UNCHANGED cond_table

(* filter_main_type: the buttons of the toolbar edit the first inclusion   *)
(* of a main type in place, under the lock, and then its row ...           *)
IsMainType(info) ==
    info.cond = "FLT_MAIN_TYPE" /\ info.filter_mode = "FLT_INCLUDE"

MainTypes == {i \in DOMAIN filter_infos : IsMainType(filter_infos[i])}

ToolbarEdit(text) ==
    /\ Command("main_type")
    /\ \E i \in MainTypes :
          /\ \A j \in MainTypes : i <= j
          /\ filter_infos[i].data # text
          /\ filter_infos' = [filter_infos EXCEPT ![i] =
                Info("FLT_MAIN_TYPE", "FLT_CONTAINS", "FLT_INCLUDE", text,
                     @.bk_clr)]
          /\ Begin("update", filter_infos[i], i)
    /\ UNCHANGED cond_table

UpdateRow ==
    /\ step = "update"
    /\ cond_table' = Updated(filter_info, filter_infos[selected])
    /\ Finish
    /\ UNCHANGED filter_infos

(* ... or add one.                                                         *)
ToolbarAdd(text) ==
    /\ Command("main_type")
    /\ MainTypes = {}
    /\ Begin("insert_new",
             Info("FLT_MAIN_TYPE", "FLT_CONTAINS", "FLT_INCLUDE", text, "none"), 0)
    /\ UNCHANGED <<filter_infos, cond_table>>

InsertNewRow ==
    /\ step = "insert_new"
    /\ cond_table' = Inserted(filter_info)
    /\ Begin("push_new", filter_info, 0)
    /\ UNCHANGED filter_infos

PushNewInfo ==
    /\ step = "push_new"
    /\ filter_infos' = Append(filter_infos, filter_info)
    /\ Finish
    /\ UNCHANGED cond_table

(* include_filter_process: every inclusion of one process becomes one of   *)
(* the process under the mouse.  Its number changes, its text does not, so *)
(* that the row gets a colour and keeps its key.                           *)
IsProcess(info) ==
    /\ info.cond = "FLT_PID"
    /\ info.filter_mode = "FLT_INCLUDE"
    /\ info.compare_mode = "FLT_EQUALS"

Processes == {i \in DOMAIN filter_infos : IsProcess(filter_infos[i])}

FocusProcess(text) ==
    /\ Command("focus")
    /\ Processes # {}
    /\ filter_infos' = [i \in DOMAIN filter_infos |->
          IF i \in Processes
          THEN [filter_infos[i] EXCEPT !.data = text, !.bk_clr = "default"]
          ELSE filter_infos[i]]
    /\ cond_table' = [k \in DOMAIN cond_table |->
          IF \E i \in Processes : cond_table[k] = Row(filter_infos[i])
          THEN [cond_table[k] EXCEPT !.bk_clr = "default"]
          ELSE cond_table[k]]
    /\ UNCHANGED <<step, filter_info, selected>>

FocusNewProcess(text) ==
    /\ Command("focus")
    /\ Processes = {}
    /\ Begin("insert_new",
             Info("FLT_PID", "FLT_EQUALS", "FLT_INCLUDE", text, "default"), 0)
    /\ UNCHANGED <<filter_infos, cond_table>>

(* set_flt_cond( FALSE ), the dialog's add button                          *)
DialogAdd(cond, compare_mode, filter_mode, text) ==
    /\ Command("dialog_add")
    /\ Begin("insert", DialogInfo(cond, compare_mode, filter_mode, text), 0)
    /\ UNCHANGED <<filter_infos, cond_table>>

(* set_flt_cond( TRUE ), its delete button: the row first, then the        *)
(* condition the list item points to.                                      *)
DialogDelete(i) ==
    /\ step = "idle"
    /\ "dialog_delete" \in FilterCommands
    /\ Begin("delete_one", filter_infos[i], i)
    /\ UNCHANGED <<filter_infos, cond_table>>

DeleteOneRow ==
    /\ step = "delete_one"
    /\ cond_table' = Deleted(filter_info)
    /\ Begin("erase_one", filter_info, selected)
    /\ UNCHANGED filter_infos

EraseOne ==
    /\ step = "erase_one"
    /\ filter_infos' = RemoveAt(filter_infos, selected)
    /\ Finish
    /\ UNCHANGED cond_table

(* flt_restore_btn: the default condition is entered like any other.       *)
DialogRestore ==
    /\ Command("restore")
    /\ Begin("insert", DefaultInfo, 0)
    /\ UNCHANGED <<filter_infos, cond_table>>

(* reset_flt_cond: every row, then every condition.                        *)
DialogReset ==
    /\ step = "idle"
    /\ "reset" \in FilterCommands
    /\ cond_table' = <<>>
    /\ Begin("release", NoInfo, 0)
    /\ UNCHANGED filter_infos

ReleaseInfos ==
    /\ step = "release"
    /\ filter_infos' = <<>>
    /\ Finish
    /\ UNCHANGED cond_table

(* Seeded bug: the table is loaded behind what the vector holds.           *)
RestartAppends ==
    /\ "restart" \in FilterCommands
    /\ \E loaded \in LoadedTable(cond_table) : filter_infos' = filter_infos \o loaded
    /\ Finish
    /\ UNCHANGED cond_table

(* The program ends, orderly or killed in the middle of a command, and is  *)
(* started again: load_filter_conds.                                       *)
Restart ==
    /\ "restart" \in FilterCommands
    /\ filter_infos' \in LoadedTable(cond_table)
    /\ Finish
    /\ UNCHANGED cond_table

UserCommand ==
    \/ \E text \in Texts :
          \/ \E cond \in MenuConds :
                MenuInclude(cond, text) \/ MenuExclude(cond, text)
          \/ \E compare_mode \in {"FLT_START_WITH", "FLT_END_WITH"} :
                MenuTime(compare_mode, text)
          \/ ToolbarEdit(text) \/ ToolbarAdd(text)
          \/ FocusProcess(text) \/ FocusNewProcess(text)
          \/ \E cond \in DialogConds,
                compare_mode \in {"FLT_CONTAINS", "FLT_EQUALS"},
                filter_mode \in {"FLT_INCLUDE", "FLT_EXCLUDE"} :
                DialogAdd(cond, compare_mode, filter_mode, text)
    \/ \E i \in DOMAIN filter_infos : DialogDelete(i)
    \/ DialogRestore \/ DialogReset

CommandStep ==
    \/ DeleteRow \/ EraseInfos \/ InsertRow \/ PushInfo \/ UpdateRow
    \/ InsertNewRow \/ PushNewInfo \/ DeleteOneRow \/ EraseOne \/ ReleaseInfos

Next == UserCommand \/ CommandStep \/ Restart

Spec == Init /\ [][Next]_vars

-----------------------------------------------------------------------------
(* What a condition asks of an event: numbers are compared by data, the    *)
(* rest by text.                                                           *)
Effective(info) ==
    [cond |-> info.cond, compare_mode |-> info.compare_mode,
     filter_mode |-> info.filter_mode,
     value |-> IF info.cond \in NumberConds THEN info.data ELSE info.text]

Conditions(infos) == {Effective(infos[i]) : i \in DOMAIN infos}

(* What a kill may cost: only what the step in progress was about.         *)
InDoubt ==
    CASE step = "erase" -> {Effective(Opposite(filter_info))}
      [] step \in {"push", "push_new", "erase_one"} -> {Effective(filter_info)}
      [] step = "update" ->
            {Effective(filter_info), Effective(filter_infos[selected])}
      [] step = "release" -> Conditions(filter_infos)
      [] OTHER -> {}

Infos ==
    [cond : NumberConds \cup TextConds,
     compare_mode : {"FLT_EQUALS", "FLT_CONTAINS", "FLT_START_WITH",
                     "FLT_END_WITH"},
     filter_mode : {"FLT_INCLUDE", "FLT_EXCLUDE"},
     type : {"STRING_VALUE_TYPE", "number"},
     text : Texts \cup {DefaultText},
     data : Texts \cup {DefaultText, 0},
     cc_string_len : Lengths,
     bk_clr : {"none", "event", "default"}]

Rows ==
    [cond : NumberConds \cup TextConds,
     compare_mode : {"FLT_EQUALS", "FLT_CONTAINS", "FLT_START_WITH",
                     "FLT_END_WITH"},
     filter_mode : {"FLT_INCLUDE", "FLT_EXCLUDE"},
     type : {"STRING_VALUE_TYPE", "number"},
     text : Texts \cup {DefaultText},
     bk_clr : {"none", "event", "default"}]

(* Types, and the shape every step relies on: a place is kept only while   *)
(* the condition there is the one being edited or deleted.                 *)
TypeOK ==
    /\ filter_infos \in Seq(Infos) /\ Len(filter_infos) <= MaxConditions
    /\ cond_table \in Seq(Rows) /\ Len(cond_table) <= MaxConditions
    /\ step \in {"idle", "delete", "erase", "insert", "push", "update",
                 "insert_new", "push_new", "delete_one", "erase_one", "release"}
    /\ filter_info \in Infos \cup {NoInfo}
    /\ (filter_info = NoInfo) <=> (step \in {"idle", "release"})
    /\ selected \in 0 .. Len(filter_infos)
    /\ selected # 0 <=> step \in {"update", "delete_one", "erase_one"}

Recoloured(conds) == {i \in DOMAIN conds : conds[i].bk_clr = "default"}

(* The process under the mouse is not remembered: the vector has its       *)
(* number and the table the text it had before.                            *)
Followed ==
    {Effective(filter_infos[i]) : i \in Recoloured(filter_infos)} \cup
    {Effective(Loaded(cond_table[k], "own")) : k \in Recoloured(cond_table)}

(* In every state the table would load the conditions that are in force,   *)
(* but for those the step in progress is about and those that followed the *)
(* mouse: a restart, after an orderly end or a kill at any point, brings   *)
(* back the filter (load_filter_conds against every command that edits     *)
(* conditions).                                                            *)
RestartKeepsConditions ==
    LET stored == {Effective(Loaded(cond_table[k], "own")) :
                      k \in DOMAIN cond_table}
        inforce == Conditions(filter_infos)
    IN  SymDiff(stored, inforce) \subseteq InDoubt \cup Followed

(* When menu_exclude_it is done (its conditions have the colour of the     *)
(* event, those of the dialog have none), the inclusion of the same is     *)
(* gone from the vector and from the table, whatever came before.          *)
IsMenuExclusion(info) ==
    info.filter_mode = "FLT_EXCLUDE" /\ info.bk_clr = "event"

ExcludeTakesEffect ==
    [][PushInfo /\ IsMenuExclusion(filter_info) =>
          /\ Effective(Opposite(filter_info)) \notin Conditions(filter_infos')
          /\ \A k \in DOMAIN cond_table' :
                ~SameKey(cond_table'[k], Opposite(filter_info))
      ]_vars
=============================================================================

---------------------------- MODULE MCFilterView ----------------------------
(***************************************************************************)
(* Instances of FilterView for TLC: events of two processes, one main type *)
(* each.  Texts up to 4 are numbers and masks, 5 to 8 are names and paths, *)
(* 6 starting with 5, and 9 is the name the default condition excludes.    *)
(***************************************************************************)
EXTENDS FilterView

MCPrefixPairs == {<<5, 6>>}
MCPartPairs == {<<5, 6>>}

(* proc_icon shows the whole path of the program, exe_file its last part.  *)
Event(pid, main_type, name, path, sec) ==
    [time |-> [sec |-> sec, tick |-> 1],
     number |-> [c \in UlongConds |-> IF c = "FLT_MAIN_TYPE" THEN main_type ELSE pid],
     text |-> [c \in StringConds |-> IF c = "FLT_PATH" THEN path ELSE name],
     version |-> 1, lacks |-> {},
     column |-> [time |-> sec, proc_id |-> pid, event_icon |-> main_type,
                 exe_file |-> name, proc_icon |-> 8, event_obj |-> path]]

MCEvents == {Event(1, 1, 5, 7, 1), Event(2, 2, 6, 7, 2)}
MCThree == MCEvents \cup {Event(1, 2, 6, 7, 3)}
=============================================================================

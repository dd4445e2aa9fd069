---------------------------- MODULE MCFilterEval ----------------------------
(***************************************************************************)
(* An instance of FilterEval for TLC: two events of one process that       *)
(* differ in their time and name, the second without a path, and           *)
(* conditions of every kind on them.  Text 1 starts text 2.                *)
(***************************************************************************)
EXTENDS FilterEval

MCPrefixPairs == {<<1, 2>>}
MCPartPairs == {<<1, 2>>, <<3, 2>>}

(* Main types are single bits; the second event has the one that the       *)
(* condition on main types leaves out.                                     *)
Event(main_type, name, sec, tick, lacks) ==
    [number |-> [c \in UlongConds |-> IF c = "FLT_MAIN_TYPE" THEN main_type ELSE 7],
     text |-> [c \in StringConds |-> name], version |-> 7,
     time |-> [sec |-> sec, tick |-> tick], lacks |-> lacks]

MCEvents == {Event(1, 2, 5, 3, {}), Event(4, 1, 6, 0, {"FLT_PATH"})}

Cond(cond, compare_mode, filter_mode, text, data) ==
    [cond |-> cond, compare_mode |-> compare_mode, filter_mode |-> filter_mode,
     text |-> text, data |-> data, cc_string_len |-> "own"]

MCConditions ==
    {Cond("FLT_MAIN_TYPE", "FLT_CONTAINS", "FLT_INCLUDE", 3, 3),
     Cond("FLT_PID", "FLT_EQUALS", "FLT_INCLUDE", 7, 7),
     Cond("FLT_PID", "FLT_EXCLUDES", "FLT_EXCLUDE", 8, 8),
     Cond("FLT_PROCESS_NAME", "FLT_EQUALS", "FLT_EXCLUDE", 1, 0),
     Cond("FLT_PATH", "FLT_CONTAINS", "FLT_EXCLUDE", 3, 0),
     Cond("FLT_PATH", "FLT_EXCLUDES", "FLT_INCLUDE", 4, 0),
     Cond("FLT_VERSION", "FLT_NOT_EQUALS", "FLT_EXCLUDE", 7, 7),
     Cond("FLT_READ_WRITE", "FLT_EXCLUDES", "FLT_INCLUDE", 1, 1),
     Cond("FLT_DESCRITION", "FLT_EQUALS", "FLT_EXCLUDE", 1, 0),
     Cond("FLT_DATE_TIME", "FLT_END_WITH", "FLT_INCLUDE", 5, 5),
     Cond("FLT_DATE_TIME", "FLT_GREATER_THAN", "FLT_EXCLUDE", 5, 5),
     Cond("FLT_DESC_DETAIL", "FLT_EQUALS", "FLT_EXCLUDE", 1, 0),
     Cond("FLT_CALL_STACK", "FLT_EQUALS", "FLT_INCLUDE", 1, 0)}
=============================================================================

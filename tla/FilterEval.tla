----------------------------- MODULE FilterEval -----------------------------
(***************************************************************************)
(* filter_action_log condition by condition: the loop over the inclusions, *)
(* the loop over the exclusions, and what they do to the event.            *)
(*                                                                         *)
(* The event is the one in the store (event_memory_store.h:481,            *)
(* event_memory_store.cpp:137): it is judged when it arrives and again by  *)
(* every refilter, with the filter of that moment, and a condition on the  *)
(* time changes it each time.                                              *)
(***************************************************************************)
EXTENDS FilterAction, Sequences

CONSTANTS
    Events,         \* the events that may arrive
    Conditions,     \* the conditions the filter may hold
    MaxConditions   \* bound: the length of the filter

ASSUME EventsAssumption ==
    Events \subseteq [number : [UlongConds -> Nat], text : [StringConds -> Nat],
                      version : Nat, time : [sec : Nat, tick : Nat],
                      lacks : SUBSET FallibleConds]
ASSUME MaxConditionsAssumption == MaxConditions \in Nat

VARIABLES
    filter_infos,           \* the conditions in force, a vector
    arrived,                \* the event as it arrived
    stored,                 \* the event in the store
    i,                      \* the place in the loop
    result,                   \* the result of the last condition
    ret,                    \* the verdict so far
    exclude_secondary_cond, \* an inclusion of something else than a main type
    pc                      \* which loop runs

vars == <<filter_infos, arrived, stored, i, result, ret, exclude_secondary_cond, pc>>

Filters == UNION {[1 .. n -> Conditions] : n \in 0 .. MaxConditions}

Enter ==
    /\ i' = 1
    /\ result' = "ERROR_NOT_FOUND"
    /\ ret' = "ERROR_SUCCESS"
    /\ exclude_secondary_cond' = FALSE
    /\ pc' = "include"

Init ==
    /\ filter_infos \in Filters
    /\ arrived \in Events /\ stored = arrived
    /\ i = 1
    /\ result = "ERROR_NOT_FOUND"
    /\ ret = "ERROR_SUCCESS"
    /\ exclude_secondary_cond = FALSE
    /\ pc = "include"

(* One condition is put to the event.                                      *)
Ask(info) ==
    /\ result' = filter_action(info, stored)
    /\ stored' = AfterFilterAction(info, stored)

Pass(mode) ==
    /\ filter_infos[i].filter_mode # mode
    /\ i' = i + 1
    /\ UNCHANGED <<filter_infos, arrived, stored, result, ret,
                   exclude_secondary_cond, pc>>

PassInclude ==
    /\ pc = "include" /\ i <= Len(filter_infos)
    /\ Pass("FLT_INCLUDE")

(* Seeded bug: only a match lets the event through.                        *)
IncludeRefuses ==
    /\ pc = "include" /\ i <= Len(filter_infos)
    /\ filter_infos[i].filter_mode = "FLT_INCLUDE"
    /\ Ask(filter_infos[i])
    /\ ret' = IF result' # "ERROR_SUCCESS" THEN "ERROR_INVALID_PARAMETER" ELSE ret
    /\ exclude_secondary_cond' =
          (exclude_secondary_cond \/ filter_infos[i].cond # "FLT_MAIN_TYPE")
    /\ i' = i + 1
    /\ UNCHANGED <<filter_infos, arrived, pc>>

(* The loop over the inclusions goes on after one has failed.              *)
Include ==
    /\ pc = "include" /\ i <= Len(filter_infos)
    /\ filter_infos[i].filter_mode = "FLT_INCLUDE"
    /\ Ask(filter_infos[i])
    /\ ret' = IF result' = "ERROR_NOT_FOUND" THEN "ERROR_INVALID_PARAMETER" ELSE ret
    /\ exclude_secondary_cond' =
          (exclude_secondary_cond \/ filter_infos[i].cond # "FLT_MAIN_TYPE")
    /\ i' = i + 1
    /\ UNCHANGED <<filter_infos, arrived, pc>>

IncludesAsked == pc = "include" /\ i > Len(filter_infos)

SkipExcludes ==
    /\ IncludesAsked
    /\ exclude_secondary_cond \/ ret # "ERROR_SUCCESS"
    /\ pc' = "done"
    /\ UNCHANGED <<filter_infos, arrived, stored, i, result, ret,
                   exclude_secondary_cond>>

(* Seeded bug: the last result of the inclusions is not reset.             *)
BeginExcludesKeepsResult ==
    /\ IncludesAsked
    /\ ~exclude_secondary_cond /\ ret = "ERROR_SUCCESS"
    /\ i' = 1
    /\ pc' = "exclude"
    /\ UNCHANGED <<filter_infos, arrived, stored, result, ret, exclude_secondary_cond>>

BeginExcludes ==
    /\ IncludesAsked
    /\ ~exclude_secondary_cond /\ ret = "ERROR_SUCCESS"
    /\ i' = 1
    /\ result' = "ERROR_NOT_FOUND"
    /\ pc' = "exclude"
    /\ UNCHANGED <<filter_infos, arrived, stored, ret, exclude_secondary_cond>>

(* The loop over the exclusions tests the last result after every          *)
(* condition, an inclusion it passed over included.                        *)
LeaveExcludes(last) ==
    IF last # "ERROR_NOT_FOUND"
    THEN ret' = "ERROR_INVALID_PARAMETER" /\ pc' = "done" /\ UNCHANGED i
    ELSE i' = i + 1 /\ UNCHANGED <<ret, pc>>

PassExclude ==
    /\ pc = "exclude" /\ i <= Len(filter_infos)
    /\ filter_infos[i].filter_mode # "FLT_EXCLUDE"
    /\ LeaveExcludes(result)
    /\ UNCHANGED <<filter_infos, arrived, stored, result, exclude_secondary_cond>>

Exclude ==
    /\ pc = "exclude" /\ i <= Len(filter_infos)
    /\ filter_infos[i].filter_mode = "FLT_EXCLUDE"
    /\ Ask(filter_infos[i])
    /\ LeaveExcludes(result')
    /\ UNCHANGED <<filter_infos, arrived, exclude_secondary_cond>>

ExcludesAsked ==
    /\ pc = "exclude" /\ i > Len(filter_infos)
    /\ pc' = "done"
    /\ UNCHANGED <<filter_infos, arrived, stored, i, result, ret,
                   exclude_secondary_cond>>

(* A refilter judges the event again, after the user changed the filter.   *)
Refilter ==
    /\ pc = "done"
    /\ filter_infos' \in Filters
    /\ Enter
    /\ UNCHANGED <<arrived, stored>>

Next ==
    \/ PassInclude \/ Include \/ SkipExcludes \/ BeginExcludes
    \/ PassExclude \/ Exclude \/ ExcludesAsked \/ Refilter

Spec == Init /\ [][Next]_vars

-----------------------------------------------------------------------------
Results == {"ERROR_SUCCESS", "ERROR_NOT_FOUND", "ERROR_NOT_SUPPORTED",
            "ERROR_INVALID_PARAMETER"}

(* Types, and how far the loops go.                                        *)
TypeOK ==
    /\ filter_infos \in Seq(Conditions)
    /\ arrived \in Events
    /\ stored \in {arrived, Truncated(arrived)}
    /\ i \in 1 .. Len(filter_infos) + 1
    /\ result \in Results /\ ret \in {"ERROR_SUCCESS", "ERROR_INVALID_PARAMETER"}
    /\ exclude_secondary_cond \in BOOLEAN
    /\ pc \in {"include", "exclude", "done"}

InForce == {filter_infos[k] : k \in DOMAIN filter_infos}

(* The verdict depends on nothing but which conditions are in force and    *)
(* the event as it arrived: not on their order or number, not on which of  *)
(* them truncated the time first, and not on what filters judged the event *)
(* before (filter_action_log).                                             *)
VerdictIsFilter ==
    pc = "done" => (ret = "ERROR_SUCCESS" <=> Passes(InForce, arrived))
=============================================================================

---------------------------- MODULE FilterAction ----------------------------
(***************************************************************************)
(* What one filter condition says of one event (filter_action), and what   *)
(* a whole filter says of it, without the loops (Passes).                  *)
(*                                                                         *)
(* An event carries, per kind of condition, the number or the text that    *)
(* the condition is compared with, the version of its program, a time of   *)
(* seconds and ticks, and which of these the code fails to find out        *)
(* (lacks).  Texts are numbers that stand for themselves.                  *)
(***************************************************************************)
EXTENDS Naturals

CONSTANTS
    PrefixPairs,    \* the pairs of texts of which one starts the other
    PartPairs       \* the pairs of texts of which one is within the other

UlongConds == {"FLT_PID", "FLT_TID", "FLT_MAIN_TYPE", "FLT_ACTION_TYPE",
               "FLT_READ_WRITE", "FLT_ACTION_RESULT"}
StringConds == {"FLT_PATH", "FLT_PROCESS_NAME"}

(* get_object_path and get_file_version may fail.                          *)
FallibleConds == {"FLT_PATH", "FLT_VERSION"}

(* Conditions filter_action knows and does not look at, so that no event   *)
(* has them ...                                                            *)
SilentConds == {"FLT_DESC_DETAIL", "FLT_RELATIVE_TIME", "FLT_SESSION", "FLT_USER",
                "FLT_AUTH_ID", "FLT_ACTION_NO", "FLT_CORPORATION",
                "FLT_VIRTUAL_TECH", "FLT_CPU_ARCH"}

(* ... and conditions it refuses with an error, the last two for want of a *)
(* case of their own.                                                      *)
UnsupportedConds == {"FLT_PARENT_PID", "FLT_DESCRITION"}
InvalidConds == {"FLT_COMMAND", "FLT_CALL_STACK", "FLT_ACTION_DATA"}
RefusedConds == UnsupportedConds \cup InvalidConds

(* The bits of a ULONG.  2^31 is beyond what TLC computes with.            *)
Bits(n) == {k \in 0 .. 31 : (n \div 2 ^ (k \div 2)) \div 2 ^ (k - k \div 2) % 2 = 1}

(* filter_action_ulong_value; the other modes never match.                 *)
UlongMatches(event_type, policy_type, flt_mode) ==
    \/ flt_mode = "FLT_CONTAINS" /\ Bits(event_type) \subseteq Bits(policy_type)
    \/ flt_mode = "FLT_EXCLUDES" /\ Bits(event_type) \cap Bits(policy_type) = {}
    \/ flt_mode = "FLT_EQUALS" /\ event_type = policy_type
    \/ flt_mode = "FLT_NOT_EQUALS" /\ event_type # policy_type

(* get_action_io_type makes no difference between reads and writes.        *)
UlongOf(cond, event) == IF cond = "FLT_READ_WRITE" THEN 0 ELSE event.number[cond]

(* filter_action_ulonglong_value                                           *)
UlonglongMatches(source, dest, flt_mode) ==
    \/ flt_mode \in {"FLT_CONTAINS", "FLT_EQUALS"} /\ source = dest
    \/ flt_mode \in {"FLT_EXCLUDES", "FLT_NOT_EQUALS"} /\ source # dest

(* wcsnicmp over the length of the condition, which may be shorter than    *)
(* the event's text, zero or beyond the end.                               *)
StartsAlike(source, text, len) ==
    \/ len = "zero"
    \/ source = text
    \/ len = "own" /\ <<text, source>> \in PrefixPairs

HasPart(source, text) == source = text \/ <<text, source>> \in PartPairs

(* filter_action_string_value                                              *)
StringMatches(source, text, len, flt_mode) ==
    \/ flt_mode = "FLT_CONTAINS" /\ HasPart(source, text)
    \/ flt_mode = "FLT_EXCLUDES" /\ ~HasPart(source, text)
    \/ flt_mode = "FLT_EQUALS" /\ StartsAlike(source, text, len)
    \/ flt_mode = "FLT_NOT_EQUALS" /\ ~StartsAlike(source, text, len)

(* _filter_action_time_value cuts the ticks off the event's own time and   *)
(* compares what is left with a time in whole seconds.                     *)
Truncated(event) == [event EXCEPT !.time = [sec |-> @.sec, tick |-> 0]]

TimeMatches(sec, dst, flt_mode) ==
    \/ flt_mode \in {"FLT_CONTAINS", "FLT_EQUALS"} /\ sec = dst
    \/ flt_mode \in {"FLT_EXCLUDES", "FLT_NOT_EQUALS"} /\ sec # dst
    \/ flt_mode = "FLT_GREATER_THAN" /\ sec > dst
    \/ flt_mode = "FLT_LOWER_THAN" /\ sec < dst
    \/ flt_mode = "FLT_START_WITH" /\ sec >= dst
    \/ flt_mode = "FLT_END_WITH" /\ sec <= dst

(* filter_action_time_value, on a region with ticks: the two negative      *)
(* modes ask for a time before its begin and after its end.                *)
Precedes(a, b) == a.sec < b.sec \/ (a.sec = b.sec /\ a.tick < b.tick)

RegionMatches(time, region, flt_mode) ==
    \/ /\ flt_mode \in {"FLT_CONTAINS", "FLT_EQUALS"}
       /\ ~Precedes(time, region.begin_time) /\ ~Precedes(region.end_time, time)
    \/ /\ flt_mode \in {"FLT_EXCLUDES", "FLT_NOT_EQUALS"}
       /\ Precedes(time, region.begin_time) /\ Precedes(region.end_time, time)

(* The test of filter_action, per kind of condition.  What it fails to     *)
(* find out of the event does not match, not even in the negative modes.   *)
Matches(info, event) ==
    \/ /\ info.cond \in UlongConds
       /\ UlongMatches(UlongOf(info.cond, event), info.data, info.compare_mode)
    \/ /\ info.cond \in StringConds \ event.lacks
       /\ StringMatches(event.text[info.cond], info.text, info.cc_string_len,
                        info.compare_mode)
    \/ /\ info.cond = "FLT_VERSION" /\ "FLT_VERSION" \notin event.lacks
       /\ UlonglongMatches(event.version, info.data, info.compare_mode)
    \/ /\ info.cond = "FLT_DATE_TIME"
       /\ TimeMatches(event.time.sec, info.data, info.compare_mode)
    \/ /\ info.cond = "FLT_DURATION"
       /\ RegionMatches(event.time, info.data, info.compare_mode)

(* filter_action: its result, and the event it leaves behind.              *)
filter_action(info, event) ==
    IF info.cond \in UnsupportedConds THEN "ERROR_NOT_SUPPORTED"
    ELSE IF info.cond \in InvalidConds THEN "ERROR_INVALID_PARAMETER"
    ELSE IF Matches(info, event) THEN "ERROR_SUCCESS" ELSE "ERROR_NOT_FOUND"

(* Seeded bug: the time is rounded to the next second.                     *)
AfterFilterActionRounds(info, event) ==
    IF info.cond = "FLT_DATE_TIME"
    THEN [event EXCEPT !.time = [sec |-> @.sec + 1, tick |-> 0]] ELSE event

AfterFilterAction(info, event) ==
    IF info.cond = "FLT_DATE_TIME" THEN Truncated(event) ELSE event

-----------------------------------------------------------------------------
(* The verdict as a statement about the conditions, in whatever order and  *)
(* number they are: no inclusion fails and, if all inclusions are of main  *)
(* types, every exclusion fails.                                           *)
Inclusions(infos) == {info \in infos : info.filter_mode = "FLT_INCLUDE"}
Exclusions(infos) == {info \in infos : info.filter_mode = "FLT_EXCLUDE"}

HasSecondary(infos) ==
    \E info \in Inclusions(infos) : info.cond # "FLT_MAIN_TYPE"

Passes(infos, event) ==
    /\ \A info \in Inclusions(infos) :
          filter_action(info, event) # "ERROR_NOT_FOUND"
    /\ \/ HasSecondary(infos)
       \/ \A info \in Exclusions(infos) :
             filter_action(info, event) = "ERROR_NOT_FOUND"
=============================================================================

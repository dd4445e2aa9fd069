------------------------------ MODULE TraceLog ------------------------------
(***************************************************************************)
(* What the event store promises the list that shows it: a log that grows  *)
(* at its end by one new event at a time, and the set of its events that   *)
(* the list shows.  Rows come by showing events of the log and go only all *)
(* at once; the log is erased only while nothing of it is shown.           *)
(***************************************************************************)
EXTENDS Integers, Sequences

CONSTANT Event  \* the events, numbered in order of arrival

VARIABLES
    stored,     \* the events kept, oldest first
    shown       \* the events the list shows

InLog == {stored[i] : i \in DOMAIN stored}

Init == stored = <<>> /\ shown = {}

(* add_to_memory_cache                                                     *)
Record ==
    /\ \E e \in Event :
          /\ \A d \in InLog : d < e
          /\ stored' = Append(stored, e)
    /\ UNCHANGED shown

(* add_to_event_filtered_store, filter_all_events                          *)
Show ==
    /\ \E S \in SUBSET InLog : shown' = shown \cup S
    /\ UNCHANGED stored

(* _clear_filtered_events                                                  *)
Hide == shown' = {} /\ UNCHANGED stored

(* release_all_events_memory_cache                                         *)
Erase == shown = {} /\ stored' = <<>> /\ UNCHANGED shown

Next == Record \/ Show \/ Hide \/ Erase

Spec == Init /\ [][Next]_<<stored, shown>>
=============================================================================

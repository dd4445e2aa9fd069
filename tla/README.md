# A TLA+ verification of bittrace

bittrace is a Windows tracing tool. A kernel driver (not in this repository)
reports system events; the program receives them, evaluates the user's filter,
keeps them in memory and shows the ones that pass in a list that holds millions
of rows. This directory holds TLA+ models of the program's own concurrent core,
TLC configurations that check them on small instances, and TLAPS proofs.

## 1. The system

All paths are under `src/`. The program's own code is in `bittrace/`,
`bitsafe/`, `sevenfw/`, `util/`, `action_learn/` and `bitsafe_analyzer/`; the
rest (`CrashRpt`, `DuiLib`, `sqlite`, `email`, `md5`, `third_party`,
`windbg_sdk`) is vendored.

| component | state | operations | who calls it | what makes it correct |
|---|---|---|---|---|
| Event store (`bittrace/event_memory_store.*`) | `all_actions`, `all_filtered_actions`, `filtering_event`, three critical sections, `event_filtering_flags` | add, refilter, clear, save, count, uninit | receiver thread, UI thread | no freed buffer is stored or shown; the list misses no event that passes; no deadlock |
| Receiver thread (`bittrace/action_result.cpp`) | `filtered_action_count`, `event_notify_count`, `LastUpdateUITime`, `process_log_sw`, `thread_manage.stop_run` | receive loop, `process_event`, `stop_event_trace` | the driver; told to stop by the UI | rows are announced once; every event taken is dealt with |
| Filter (`bittrace/filter_manage.cpp`, `filter_dlg.*`, `trace_filter.cpp`, `filter_cond_db.cpp`) | `filter_infos`, `filter_info_lock` | evaluate, add, delete, reset, load | receiver (try-lock), UI thread | an event is shown iff it passes |
| Event list (`bittrace/list_ex/list_log.cpp`) | ring of cached rows (`ItemCacheBeginIndex`, `ItemCacheCount`, `RingBegin`), `ItemRealCount`, scroll position | `FilterEvents`, `clear_events`, `OnItemAdded`, `FillSubItemsContent`, search | UI messages | row r of the store is at its slot of the ring; the announced rows exist |
| List cache worker (`bittrace/list_ex/cached_list_aio.cpp`) | request queue, work thread and event | launch load, adjust | list, its own thread | no lost wake-up, no load applied to a list that moved on |
| Locks (`bittrace/r3_rw_lock.cpp`, `ReadWriteLock.cpp`, `rwlock.cpp`, `util/shared_data_lock.h`) | counters, events | read/write lock and unlock | nothing at this commit | mutual exclusion, no lost wake-up |
| Work threads (`sevenfw/ui_ctrl.cpp`) | `thread_manage` | create, notify, stop, wait 200 ms, terminate | every module with a thread | a stopped thread is gone and left no lock taken |
| Receive I/O (`bittrace/aio_support.cpp`) | overlapped requests | issue, complete, cancel | receiver | each completion is taken once |
| ETW session (`bittrace/tracer.cpp`) | session and consumer handles | start, stop, process | main window | one session at a time |
| Process, module, symbol caches (`bittrace/process_info.cpp`, `module_info.cpp`, `process_symbols.cpp`, `stack_dump.cpp`) | tables of processes and of their modules, with start and end | process and module events, search of a frame, release | receiver, UI | a frame is named by a module that was there at the time; events find their process |
| Event formats (`bittrace/event_store.cpp`) | none | compress, decompress, backup to a database | receiver, loader | a stored event reads back as it arrived |
| Pipe and buffers (`bitsafe/pipe_line.c`, `cbuffer.c`, `unit_cbuffer.c`, `buf_array.c`, `lock_free_slink.h`) | pipe state, ring buffers, queues | listen, connect, send, read, write | service and UI | bytes come out once, in order |
| Service, daemon (`bitsafe_svc/`, `bittrace/service.cpp`, `bittrace_daemon.cpp`, `bittrace_svc.cpp`) | service status | control handlers | SCM | |
| Analyzer, policy (`bitsafe_analyzer/`, `action_learn/`) | databases, policy trees | import, display, learn | | |

How the core fits together. The receiver thread takes one event at a time from
the driver and calls `process_event`. `add_log_to_store` copies the event,
evaluates the filter under `filter_info_lock` (which it only tries), pushes the
copy on `all_actions` under `events_store_lock` and, if it passed, waits for
`filtering_tip_lock`, lets it go, and pushes on `all_filtered_actions` under
`filtered_events_store_lock`. It then counts the event and from time to time
posts `WM_ACTION_EVENT_LOG`. The UI thread answers the message by showing the
new rows; on the user's word it rebuilds the filtered vector, clears both
vectors, saves one of them, edits the filter, or exits.

What is hard about it: the two vectors have a lock each and several accesses go
without (`list_log.cpp:3295`, `event_memory_store.cpp:135`,
`event_memory_store.h:363` and `504`); the tip lock is released before the push
it is meant to order; the announcement of rows is a message that may be handled
after the rows are gone; the receiver may be terminated anywhere.

## 2. Modules

| module | what it is |
|---|---|
| `EventStore` | the store, the receiver thread and the UI thread: one action per region of code between two points at which the other thread can be observed |
| `TraceLog` | the abstract specification: a log that grows at its end and the set of its events that are shown |
| `EventStoreProofs` | the theorems about `EventStore`: types, freed buffers, the refinement of `TraceLog` |
| `EventViewProofs` | more of them: what the list shows, in which order, and what is announced of it |
| `FilterAction` | what one condition says of one event, and what a whole filter says of it as a set of conditions: operators without state |
| `FilterEval` | the two loops of `filter_action_log`, condition by condition, with what they do to the stored event |
| `MCFilterEval`, `FilterEvalProofs` | `FilterEval` for TLC; its theorems |
| `FilterConfig` | the filter conditions: the vector in memory, the table in the configuration database, the commands that edit both, and a restart |
| `MCFilterConfig`, `FilterConfigProofs` | `FilterConfig` for TLC; its theorems |
| `FilterView` | `FilterConfig` composed with the list and the receiver: commands chosen on a row, the refilter each ends with, events judged meanwhile |
| `MCFilterView`, `FilterViewProofs` | `FilterView` for TLC; its theorems |
| `ModuleInfo` | the process and module tables, the traced system that changes them, and the naming of a stored event's frames |
| `MCModuleInfo` | `ModuleInfo` for TLC |
| `ModuleInfoProofs`, `ModuleFramesProofs` | its theorems: the tables; the frames they name |
| `RWLock` | `CReadWriteLock`, call by call |
| `SharedLock` | the abstract specification of a read/write lock |
| `RWLockProofs` | the theorems about `RWLock` |

`EventStore` has what happens inside a refilter and takes the verdict of the
filter as given; `FilterEval` has what happens inside a verdict; `FilterConfig`
has what happens inside an edit. `FilterView` puts edits, verdicts and refilters
together, each of the latter two in one step.

### EventStore

State. `all_actions`, `all_filtered_actions`, `filter_infos`,
`event_filtering_flags`, `process_log_sw`, `filtering_event`,
`filtered_action_count` and `ItemRealCount` are the code's variables of the same
name. An event is the number of its heap buffer in order of arrival; `live` is
the set of buffers allocated and not freed. A filter configuration is the set of
events that pass it, so that the verdict of `filter_action_log` is membership.
`owner` maps each of the four critical sections to the thread in it.
`ui_messages` are the posted `WM_ACTION_EVENT_LOG` messages, each the count it
carries. `rpc` and `upc` say where the two threads are; `action`,
`event_filtered`, `event_count`, `view_read`, `count_read`, `state` are locals
of the receiver, `scan`, `scanned`, `log_count` of the UI thread.

The receiver's actions (`Recv*`) follow `thread_event_result_receive`,
`process_event`, `add_log_to_store`, `add_to_memory_cache` and
`add_to_event_filtered_store` from the stop flag to the post. Where the code
touches shared data without the lock that protects it, the access is split:

- the size check after each push is a step of its own, after the unlock
  (`RecvStoreFailed`/`RecvStored`, `RecvCheckView`);
- the push on the filtered vector reads it in one step and writes it back in
  another, because `_clear_filtered_events` empties the vector without the
  lock. When it does so in between, what is written back is any prefix of what
  the vector held (`RecvPushView`); which prefix depends on when
  `std::vector` reads its end pointer;
- `filtered_action_count ++` is a read and a write;
- `filter_all_events` reads `all_actions[i]` after the unlock; while the
  receiver is inside a push that moves the vector (`Reallocates`) the pointer
  read may be garbage, which the model writes as event 0 and on which the filter
  may answer anything.

The UI thread's actions are its commands (`UserCommand`) and what it then does
by itself (`UIStep`): the refilter of `FilterEvents` loop iteration by loop
iteration, `clear_events`, `save_log_to_db`, `OnItemAdded`, and
`uninit_bittrace_main_wnd` with the 200 ms wait of `stop_work_thread` and its
`TerminateThread`. `Total` adds up the counts of the posted messages; no action
uses it, only `NothingAnnouncedTwice` does. Critical sections are recursive and the UI thread never waits
for one it holds, so a lock held for a single step is written as a guard
(`Free`) without a state of its own.

A reset of the filter (`release_filter_conds`) frees the conditions without
`filter_info_lock`. It is two steps, `UIReset` and `UIResetDone`; an evaluation
that ends between them has read freed conditions, and its verdict is anything.

Abstracted away: the content of events, the drawing of the list and its row
cache, the backup of `process_event` to the database, the loader
`load_log_from_db` (which runs with `process_log_sw` off and so adds nothing
through `process_event`), `event_notify_count` (shown in the caption only).
A failing `push_back` throws in the code and ends the program; it is not modelled.

### TraceLog

`stored` and `shown`; `Record` appends one event newer than all before, `Show`
adds stored events to the shown ones, `Hide` empties them, `Erase` empties the
log while nothing is shown. `EventStore` implements it under the mapping
`stored <- all_actions`, `shown <- Elements(all_filtered_actions)` as long as the
user does not clear the store. With clear it does not: a receiver that has passed
the tip lock pushes an event on the list after the clear freed it
(see the hazards in `PROJECT.json`).

### FilterConfig

`filter_infos` is the vector in order, `cond_table` the rows of
`action_filter_cond_table` in the order SQLite returns them (an insert moves the
row to the end, because `ON CONFLICT REPLACE` deletes the one it replaces; an
update keeps the place). All commands come from the UI thread, so there is one
at a time: `step`, `filter_info` and `selected` say how far it is and with what.
Between the row and the vector the program may be killed: `Restart` is enabled
in every state and loads the table. `EventStore` sees the same commands as one
change of the filter in force.

A condition keeps its text, the number made of it, and whether the code takes it
for a number. The commands differ in which they set: the menus and the toolbar
both (`Info`), the dialog only the text (`DialogInfo`), the process under the
mouse only the number (`FocusProcess`), a load makes the number from the text
(`Loaded`). Prefixes between texts (`PrefixPairs`) and the length that a load
leaves unassigned (`Lengths`) are there because `is_same_filter_info` compares
strings over the length of one side. `Kept` is a list without some of its places:
what the deletions from the table and from the vector leave. It is defined place
by place (as a function, not an operator), so that it can be proved about;
`ErasedPlaces` are the places the erasing loop hits, every other one of a row of
equal conditions.

Abstracted away: which texts denote the same number, a database statement that
fails (its result is ignored everywhere), `text_is_ptr`, which the dialog leaves
unassigned (taken as FALSE; with anything else the comparison dereferences the
text and the program ends, which is a `Restart`), and the rows of a followed
process being recoloured one by one. `FLT_DURATION` is left out: its comparison
compares one side with itself (`filter_dlg.cpp:1106`) and its conversion reads
standard input (`filter_cond_db.cpp:1820`).

### FilterAction and FilterEval

`filter_action` answers a match (`ERROR_SUCCESS`), no match (`ERROR_NOT_FOUND`)
or a refusal; `Passes` is the filter without its loops: no inclusion may answer
"no match" and, unless something else than a main type is included, every
exclusion has to.
`FilterEval` runs the loops with `result`, `ret` and `exclude_secondary_cond` of
the code, the early ends included, and with the write of a time comparison
(`AfterFilterAction`): it truncates the time in the event that is stored, so
that a later condition, and every later refilter, meets another event than the
one that arrived. `Refilter` judges the same event again with any other filter.
Texts are numbers; which of them start or contain another is a constant. Every
kind of condition of the code has its answer: numbers (`UlongConds`, the reads and
writes among them, which the code compares with 0 because `get_action_io_type`
does), texts, the version of the program, times, those it never looks at
(`SilentConds`) and those it refuses with one error or another, which count as a
match. What the code fails to find out of an event (`lacks`: the path of its
object, the version of its program) matches no condition, in whatever mode.

### FilterView

`stored`, `shown` are the two vectors as sets; `flight` is the event between the
receiver's verdict and its push; `due` says that the command in progress ends
with `FilterEventsUI`. A menu command is chosen on a shown row and a column,
which `ColumnCond` turns into the kind of condition the code makes of it. The
dialog (its additions and its reset are in `FilterConfig` only) edits without a refilter (`dirty`) until its own button (`DialogFilter`).
`unjudged` and `stale` are the events by which list and filter may differ: those
that the failed try-lock let through, and those judged before an edit and stored
after the refilter. `ViewIsFilter` says that there are no others.

### ModuleInfo

`proc_infos` and `kernel_modules` are the tables of `module_info.cpp`, with the
start and end of each entry; `queue` holds the events of processes and modules
in the order in which the driver made them. The traced system (`System*`)
starts, maps, unmaps and exits by itself; `history` remembers what was mapped
where and in which ticks and is what the answers are compared with. A frame
is named as in `get_stack_trace_dump_text_ex`: `FrameNames` asks the process's
modules and then the kernel's, each by `FrameModule`.

Time. The tables are stamped in universal time, when the receiver handles an
event; the event is stored with its time converted to local time (`LocalTime`, by
any of `Biases`), and the search compares the two as they are. So a frame is
looked up by `LookupTimes`, and the properties are about what such a time finds:

- `DriverFrames` and `ImageFrames` say that it finds a module that was mapped in
  the tick which the local time means when it is read as universal time. That is
  what the tables promise; on a machine on UTC it is the tick of the event. On any
  other it is not: `DriverFramesTrue` asks for the tick of the event, and
  `MCModuleInfo_local.cfg` shows it failing.
- The receiver may lag (`Tick` waits for nobody), and then stamps belong to later
  ticks than their events. `settled` notes the ticks at whose end no event was
  waiting; both properties are about ticks at whose begin and end there was none
  (`Settled`), whatever happened in others. The code has nothing that would give
  more.
- There is no event for the unmapping of an image, so `ImageFrames` asks only for
  an image that was mapped there by then.

The start. `load_current_module_infos` reads at most `MAX_PROCESS_COUNT` processes
(260 in the code); with more than fit, the kernel's two included, it gives no
process a table (`SnapshotFits`, and `MCModuleInfo_crowd.cfg` for what follows). A
process that cannot be opened (`Protected`) gets a table without modules. The others
and the kernel have one module each.

Lost events. `process_event` drops events while the log is off (`SwitchLog`) and
those whose content is not valid (`DropEvent`). `Recording` is the specification
without either, `Spec` the one with both.

What is assumed: a frame lies strictly inside a module; images lie in one part of
the address space and drivers in another; a process that starts does not overtake
the snapshot. The table of a
process is found at all times: the search compares the duration of the process
(`module_info.cpp:295-298`), which stays zero, as `on_process_change` stamps that of
the table inside. Left out: symbols, the release at exit.

### RWLock and SharedLock

A step of `RWLock` ends at every call on an event and between the counter and
the event that goes with it, because only `m_csReaderCount` keeps these two
together and the writer does not take it. `SharedLock` has the readers and the
writers as two sets. No instance of `CReadWriteLock` exists at this commit; the
model is of the class as its header documents it.

## 3. Runs

| run | configuration | what it shows |
|---|---|---|
| `refilter` | 3 events, drop, edit, refilter, exit | `TypeOK`, `NotReadyUnreachable`, `ViewWithinStore`, `NoMissedMatch`, `ImplementsLog`: refilters that overlap insertions and edits show no unknown event and lose none that passed throughout; the store is a `TraceLog`, exit included |
| `clear` | 4 events, clear, switch, save, exit | `ViewInOrder`, `ViewOnlyMatches`: clears that overlap insertions leave the list ordered, free of repetition and within the filter; `NothingAnnouncedTwice` until the first clear or the exit |
| `live` | 2 events, edit, reset, refilter, clear, save, exit, reallocation at size 1; fairness | `StoreHoldsLive`, `RefilterEnds`, `EventSettles`, `ExitCompletes` |
| `added` | 2 events, clear | violates `AddedItemsFit`: the assertion at `list_log.cpp:5402` fails when a clear overtakes a posted message |
| `menus` | 2 texts, 4 conditions: inclusion and exclusion of processes and begin and end times in the menus, main types in the toolbar only, restore, reset, restart | `TypeOK`, `RestartKeepsConditions`, `ExcludeTakesEffect` for these commands in any order |
| `dialog` | 2 texts, 4 conditions: paths in the dialog, a process to exclude in the menus, the process under the mouse, restore, reset | `RestartKeepsConditions`, `ExcludeTakesEffect` |
| `eval` | 2 events, the second without a path, filters of up to 3 of 13 conditions: every kind of answer, failures and both errors included | `TypeOK`, `VerdictIsFilter`: order, number and history of the conditions do not matter |
| `view` | 2 events, processes, types, files and times in the menus, toolbar, process under the mouse, deletion and restore in the dialog, restart, up to 2 conditions | `ViewTypeOK`, `ViewIsFilter`, `IncludeKeepsIt`, `ExcludeHidesIt` |
| `endtime` | the same events, times | violates `EndTimeKeepsIt`: making a row's time the end time hides the row |
| `lock` | 3 threads; fairness | `TypeOK`, `Exclusion`, `ImplementsLock`, `WriterGetsIn` |
| `tables` | 2 processes, 2 files, a place for images and one for drivers, 3 ticks, local time one behind, equal or one ahead, a receiver that may lag by 2 events, 2 mappings after the snapshot; log on, events valid, the snapshot fits | `TypeOK`, `DriverFrames`, `ImageFrames`, `AssertOneOpen`, `AssertProcessKnown` |
| `reuse` | the same on universal time with numbers used again | violates `AssertFirstNotify`: the assertion at `module_info.cpp:415` fails when a process gets the number of one that has exited |

Six more configurations show counterexamples and are kept to reproduce them:

- `EventStore_count.cfg` (`RowCountMatchesView`): the receiver inserts after
  the refilter took its count, and `SetItemRealCount` breaks into the debugger
  (`list_log.cpp:3641-3643`);
- `MCFilterView_icon.cfg` (`IncludeKeepsIt`): the icon of a process offers the
  full path (`list_log.cpp:206`), which is compared with the last component
  (`filter_manage.cpp:620-646`): "Include" hides the row;
- `MCModuleInfo_moved.cfg` (`AssertSameBase`): a driver loaded again at another
  address and unloaded meets its old entry (`module_info.cpp:561-563`);
- `MCModuleInfo_paused.cfg` (`AssertProcessKnown`): a process that started while
  the log was off exits after (`module_info.cpp:375`, `action_result.cpp:260`);
- `MCModuleInfo_crowd.cfg` (`AssertProcessKnown`): the snapshot has no room for
  the processes, and a resident one exits (`module_info.cpp:1603`);
- `MCModuleInfo_local.cfg` (`DriverFramesTrue`): local time is ahead of universal
  time, and a frame is named by a driver that was not there
  (`action_result.cpp:272`, `stack_dump.cpp:1349`).

What the runs of `FilterConfig` leave out is left out because the code does not
keep the property there, which the model shows when the command is added to the
configuration: main types in the menus together with the toolbar (two
conditions of the vector end up sharing one row, after a restart in between);
the process under the mouse together with an inclusion in the menu (two
inclusions may become equal, of which an exclusion takes back only the first);
texts that start with one another, and strings compared
with one that was loaded, so that `dialog` has no restart; numbers entered in the
dialog; and conditions on the time deleted in the dialog (all have the time 0
for the reason `endtime` shows, so that the second of two is not in the vector).
Of the process under the mouse `RestartKeepsConditions` does not ask that it be
remembered (`Followed`): its number changes and its text does not, and the table
keeps the text. Each is a hazard in `PROJECT.json`, at its line. No doc or assertion of the
repository says otherwise, so they are not among the findings.

Bounds. `MaxEvents` bounds the events the driver delivers. Two events are one
stored and one being added, which is what every race of the two threads needs;
three or four let a refilter or a clear meet a store with an order to lose.
`MIN_EVENT_LOG_FILTERED_COUNT` is 500 in the code and 2 here, so that both
reasons for a message (the count and the clock) occur. The user's commands are
not bounded: the state space is finite because the store is. Filters are
chosen so that events pass, fail, and change their verdict with an edit.
`MaxConditions` of `FilterConfig` is the default condition and up to three
others, enough for two of a kind next to each other and one of another kind; of
`FilterEval`, three conditions are two inclusions and an exclusion, or one and
two, with the error, the truncation and the group of main types in any place.
In `FilterView` an event of each of two processes and types is enough for a
command to keep one and hide the other, and two conditions for an inclusion and
an exclusion that meet, or either with the default. Of the lock, a third thread stands
between a reader and a writer that meet; its proofs are for any number. In `ModuleInfo`
two mappings after the snapshot let a driver leave and come back, or another
take its place, and one process map an image another has; three ticks are one
before, one during and one after, and a local time off by one reaches from each
into the next, the tick before the first and the one after the last. A queue of
two is a receiver that lags by an event of each of two actors.
Deadlock is checked except where exit ends the UI thread and where the traced
system and its clock have come to their bounds.

Fairness. `EventStore` (`FairSpec`): both threads run (`WF` on the receiver's
steps and on the UI thread's own steps); a receiver that waits for a critical
section gets it (`SF`), because the commands that hold it again and again are a
person's, and between two of them the section is free for far longer than a
wake-up takes. No fairness on the arrival of events, on the driver's return, or
on commands. `RefilterEnds` relies on the bound on events: the scan runs until
it has caught up with the store, and a driver that delivers non-matching events
faster than the scan reads them would keep the UI thread in it; the code has no
bound there. `RWLock` (`FairSpec`): threads run and release what they hold
(`WF`), and a waiter for a critical section gets it when it is released often
enough (`SF`). Waits for events have `WF` only: the events are manual-reset, and
a writer may miss one that is set and reset. Nobody is obliged to lock.

Every property of a passing run has a seeded bug (the definitions marked so in
the modules, listed under `mutants`) that makes TLC report it violated.

## 4. Proofs

Every invariant and every action property of a passing run is a theorem, for
every value of the constants or under the assumptions named here; so are the two
refinements. TLC evaluated each inductive invariant on an instance before it was
proved. The constants' own assumptions are the named `ASSUME`s of the modules;
TLC evaluates them in every run.

### The store (`EventStoreProofs`)

For every number of events, every set of filters and commands and every
reallocation behaviour:

- `TypeCorrect` (`TypeOK`) and `ScanSafe` (`ScanInStore`: the scan index is within
  the store when it is used), which the unlocked read needs;
- `StoreSafe`: `StoreHoldsLive`. The inductive invariant `BufferInv` says that
  the receiver owns the event it has not stored, that stored events are live,
  and that the size check after a push fails only when the store was emptied in
  between, so that the event it frees is not stored;
- `NotReadyDead`: `NotReadyUnreachable`, from `TipInv` (who is between the two
  ends of the tip lock holds it; `filtering_event` implies the UI thread holds it);

and, for `"clear" \notin UICommands` and `Reallocates = {}`:

- `ViewSafe`: `ViewWithinStore`;
- `LogImplemented`: `Spec => ImplementsLog`. The invariant `ViewInv` adds that
  between the halves of the receiver's push the list is what it was or empty,
  which holds because the refilter's own pushes wait for the lock the receiver
  holds, although its clear does not.

### What the list shows (`EventViewProofs`)

- `ListInOrder`: `ViewInOrder`, without the commands `refilter` and `drop` (a
  refilter makes the list anew while the receiver adds newer events to it: the
  order is not kept, nor does the code mean to). `OrderInv`: the event the
  receiver carries is newer than all of the list, and while it holds the list's
  lock in a push nobody has touched the list since it read it.
- `ListOnlyMatches`: `ViewOnlyMatches`, without commands that change the filter or
  take its lock for long. `MatchInv` follows the verdict from the evaluation to
  the push; with an edit in between it is stale (`ListIsFilter`, below, has that).
- `NothingMissed`: `NoMissedMatch`, with every command but clear and reset, and a
  vector that does not move while it is read. `MissInv` says for each position the
  scan of a refilter is past that its event, if it passes throughout, is in the
  list, and outside a rebuild that every such event is in the list or in the
  receiver's hands before its push.
- `AnnouncedOnce`: `NothingAnnouncedTwice`, under the assumption of `ListInOrder`
  and, as the property says, until the first clear. It is about the receiver's own
  steps (push, look, read and write the counter, post, zero) and the messages in
  between. The zeroing by the UI thread is not covered: a refilter or a clear
  zeroes the counter while the receiver may be about to write it back, and the
  claim then fails (the hazard at `action_result.cpp:427`).
  The sum itself is not inductive: while the receiver is between reading and
  writing the counter, what the other thread wrote is about to be lost. `CountInv`
  counts such a counter as what will be written to it, and says that the event
  the receiver has stored and not counted yet is not in the sum.

### A verdict of the filter (`FilterEvalProofs`)

- `TypeCorrect`: `TypeOK`; in particular the event in hand differs from the one
  that arrived by a truncation at most.
- `LoopsComputeFilter` (`VerdictIsFilter`), for every set
  of events and conditions and every length of the filter, under `NoDurations`: no
  condition is on a time region. No command makes one that is not empty, and with
  one the claim is false: its verdict changes with the truncation. The inductive
  invariant `LoopInv` says what the conditions already passed over have answered,
  in terms of the event as it arrived; it needs that truncating twice is truncating
  once and that no other condition sees the difference.

### The conditions and their table (`FilterConfigProofs`)

- `TypeCorrect`: `TypeOK`, for all texts, conditions and commands. With `Room` it
  shows that both lists stay within `MaxConditions` although only the start of a
  command looks at it.
- `RestartKeeps` (`RestartKeepsConditions`) and `ExcludeEffective`
  (`ExcludeTakesEffect`), for all commands but the process under the mouse, under
  `ToldApart`: the conditions are those the table keeps and `is_same_filter_info`
  tells apart. Times and main types come from their own commands, and times not
  where conditions are deleted one by one, because all times are the same to it
  (`string_to_local_time` fails); the dialog enters strings, because it converts no
  number, and no names of processes, where the default condition is found by
  whatever length was on the stack; strings do not start one another, and the
  program is not started again with them (a load leaves their length alone).
  Outside of it the code keeps the properties only for some conditions, see
  section 3; the run `dialog` covers the process under the mouse.

The inductive invariant `SyncInv` compares the two lists as sets of what their
members ask (`Asks`), which a load can make of a row. `Lists` says that no two
conditions of the vector ask the same (`NoClash`), which is what makes the loop
that skips a condition after erasing one harmless; each compares strings over
their whole length (`Exact`) or is the default condition; `InStep` says by which
condition the two sets differ at each step of each command; `MaskStored` that
the row the toolbar is about to update exists, colour included, which the
statement compares; `TakenBack` that an exclusion has removed its inclusion before
it is pushed.

### Edits, verdicts and refilters together (`FilterViewProofs`)

- `ViewTypeCorrect` (`ViewTypeOK`) and `ListIsFilter` (`ViewIsFilter`), for every
  set of events, conditions and commands, icon and dialog included. `ViewInv`:
  the event in flight carries the verdict of the filter in force, or has been noted
  as an exception.
- `IncludeKeeps` (`IncludeKeepsIt`) and `ExcludeHides` (`ExcludeHidesIt`), action
  properties, under `ColumnsCompared`: a column shows what the condition made of it
  is compared with. It holds of the columns of processes, types and files, and
  not of the icon, which `MCFilterView_icon.cfg` refutes, and of the times, which
  `endtime` refutes. `CommandInv` says that the condition in work is the one of the
  chosen row and that, when the command reaches its refilter, the vector holds it
  or one the code takes for the same, which finds the row too (`ChoiceFinds`).

### Modules of processes (`ModuleInfoProofs`, `ModuleFramesProofs`)

For every set of processes, protected ones among them, files, places, every bound
and every difference between local and universal time, and a receiver that lags as
it likes. `Recording` is the specification with the log on and every event valid;
`Spec` is without that.

- `ProcessesKnown`: `Recording => []AssertProcessKnown`, if the snapshot had room
  (`SnapshotFits`), re-use of numbers included. Every process that runs is in the
  tables or has its start in the queue (`Introduced`), and an event in the queue
  about a process comes after its start (`InOrder`);
- `TypeCorrect`: `Spec => []TypeOK`, if numbers are not used again (with re-use a
  table keeps the end of the old process and gets the open modules of the new one;
  that is the hazard at `module_info.cpp:413`);
- `OneOpen`: `Recording => []AssertOneOpen`, re-use and moves included. `OpenInv`:
  between two loadings of a file, in the table or the queue, there is an unloading;
- `FramesOfDrivers`: `Recording => []DriverFrames`. `DriverInv` has both directions:
  what is mapped has an open entry or its event in the queue (`MappedOpen`), what
  was mapped in a tick at whose end the receiver had caught up has an entry that
  covers it (`Complete`), and an entry covers, of the ticks at whose begin it had,
  only those in which its file was there (`Sound`). What a lag does is confined to
  the ticks between, because a stamp is never earlier than its event;
- `FramesOfImages`: `Recording => []ImageFrames`, if numbers are not used again and
  the snapshot had room. `ImageInv` is the same for the tables of processes, but
  for what a protected process had at the start (`Unread`);
- `FirstNotify` (from `Recording`, under the hypotheses of `FramesOfImages`) and
  `SameBase` (from `Spec`, if drivers do not come back at another address): the
  assertions at `module_info.cpp:415` and 561. The run `reuse` and
  `MCModuleInfo_moved.cfg` show them failing without these hypotheses.

### The lock (`RWLockProofs`)

For every finite set of threads: `TypeCorrect` (`TypeOK`), `MutualExclusion`
(`Exclusion`) and `Refinement` (`ImplementsLock`). `TypeOK` includes that the
counter is a natural number. `CountInv` says
that the counter is the number of threads counted in and that the no-readers event
is not set while one of them is inside; `WriterInv` that the writer event is
reset exactly while one writer closes or holds the lock, and that nobody reads
once that writer has seen the readers gone.

### Recursive functions

`Kept` and `Total` are recursive functions, of which the provers know nothing:
not even that the recursion has a solution. `SetInduction` states induction as a
fact about a set of numbers (a set with 0 and with n + 1 for each n is `Nat`),
which follows from the least element of a well-founded order and needs no operator
as a parameter. With it `KeptBuilt` and `SumsExist` show that a function that
fulfils the recursion exists for each length, `TotalIs` that it is the only one,
and `KeptSelects`, `TotalAppend` and `TotalTail` what it computes.

### Only model-checked

Liveness (`RefilterEnds`, `EventSettles`, `ExitCompletes`, `WriterGetsIn`),
because ENABLED and fairness are out of the prover's reach;
`RestartKeepsConditions` and `ExcludeTakesEffect` where the process under the
mouse is followed (run `dialog`); and every theorem's property where its assumption does not hold and a
run still covers it. The findings are counterexamples of TLC.

## 5. Plan

Done: all modules of section 2. What is left worth proving: `RestartKeeps` and
`ExcludeEffective` for the process under the mouse, with an invariant that relates
the number in the vector to the text in the table instead of comparing them.

## 6. Not modelled

- Vendored libraries: SQLite, CrashRpt, DuiLib, tinyxml and others. They are
  most of the lines of the repository.
- Code that is not reached at this commit: the ring of rows and the list cache
  worker, whose loader `load_action_log` (`event_log_loader.cpp:34`) is empty;
  the ring buffers, `CFastReadWriteLock` and the lock-free queue, which nothing
  calls; the transactions of the event backup, which are compiled only without
  `_EVENT_CACHE_BY_MEMORY`.
- Dialogs, drawing, the details of processes and symbols, the encoding of
  events, the configuration file: sequential, and mostly input and output.
- The analyzer and the policy learner: separate, sequential programs, mostly SQL.
- The service, the ETW session and the installation of the driver: calls to
  Windows whose effect is outside the repository.

`PROJECT.json` lists each component with its status.

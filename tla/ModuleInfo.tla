---- MODULE ModuleInfo ----
(***************************************************************************)
(* The process and module tables of src/bittrace/module_info.cpp: which    *)
(* modules each process and the kernel had mapped, and when.  The frames   *)
(* of a stored event are named from them when it is displayed              *)
(* (stack_dump.cpp).  The tables are stamped in universal time, the event  *)
(* is stored with its time converted to local time, and the two are        *)
(* compared as they are.                                                   *)
(*                                                                         *)
(* The traced system runs by itself: processes start and exit, images and  *)
(* drivers are mapped and unmapped, and the driver queues one event for    *)
(* each, except for the unmapping of an image, which has no event type.    *)
(* The receiver thread takes the events in order, however long after they  *)
(* were raised, stamps the tables with the time at which it handles them,  *)
(* and drops them while the log switch of the main window is off or when   *)
(* their content is not valid.                                             *)
(*                                                                         *)
(* An address is a slot that holds one module, in the part of the address  *)
(* space that belongs to the process or in the one that is the kernel's.   *)
(* Frames lie strictly inside a module, so the bounds of the comparison at *)
(* stack_dump.cpp:1349 do not show.  Each table is changed and read under  *)
(* its locks, so an operation is a step.                                   *)
(***************************************************************************)
EXTENDS Integers, FiniteSets, SequencesExt

CONSTANTS
    Pids,       \* the processes other than the kernel's, 0 and 4
    Resident,   \* those that run when the tool starts
    Protected,  \* those of them that OpenProcess refuses
    Kernel,     \* stands for the processes 0 and 4
    Files,      \* the names of modules
    ImageSlots, \* the places images are mapped at
    DriverSlots,\* the places drivers are mapped at, above all images
    Biases,     \* what local time may be ahead of universal time, in ticks
    MAX_PROCESS_COUNT, \* the room of the snapshot of processes, module_info.cpp:29
    MaxTime,    \* bound: the last tick
    MaxQueue,   \* bound: the driver's queue
    MaxLoads,   \* bound: the mappings after the snapshot
    Reuses,     \* whether the system uses the number of an exited process again
    Moves       \* whether a driver may be loaded again elsewhere

ASSUME TablesAssumption ==
    /\ IsFiniteSet(Resident) /\ Resident \subseteq Pids /\ Kernel \notin Pids
    /\ Protected \subseteq Resident
ASSUME ModulesAssumption ==
    Files # {} /\ ImageSlots # {} /\ DriverSlots # {} /\ ImageSlots \cap DriverSlots = {}
ASSUME BoundsAssumption == {MaxTime, MaxQueue, MaxLoads, MAX_PROCESS_COUNT} \subseteq Nat \ {0}
ASSUME BiasesAssumption == Biases \subseteq Int
ASSUME ChoicesAssumption == {Reuses, Moves} \subseteq BOOLEAN

VARIABLES
    clock,          \* the time, in ticks; 0 stands for no time
    living,         \* the processes that run
    started,        \* those that ever ran
    mapped,         \* the modules mapped now: [at, file, slot]
    loads,          \* every mapping there was, in order: the bound, and the place of a driver
    history,        \* what was mapped where, and in which ticks
    settled,        \* the ticks at whose end no event was waiting
    queue,          \* the events the driver holds
    process_log_sw, \* the log switch, action_result.cpp
    proc_infos,     \* the tables of the processes, in the order they were added
    kernel_modules  \* the table of the kernel

system == <<living, started, mapped, loads>>
tables == <<proc_infos, kernel_modules>>
vars == <<clock, system, history, settled, queue, process_log_sw, tables>>

Kinds == {"PROC_exec", "EXEC_destroy", "EXEC_module_load", "SYS_load_mod", "SYS_unload_mod"}
Slots == ImageSlots \cup DriverSlots
SlotsOf(at) == IF at = Kernel THEN DriverSlots ELSE ImageSlots
Mapping == {m \in [at : Pids \cup {Kernel}, file : Files, slot : Slots] : m.slot \in SlotsOf(m.at)}
Module(slots) == [file_name : Files, base_addr : slots, start_time : 0 .. MaxTime, end_time : 0 .. MaxTime]

-----------------------------------------------------------------------------
(* The tables *)

NewModule(file, slot) ==
    [file_name |-> file, base_addr |-> slot, start_time |-> clock, end_time |-> 0]

\* on_process_change gives every module of the table the times of the process.
Begun(info) ==
    [info EXCEPT !.start_time = clock,
                 !.modules = [k \in DOMAIN @ |-> [@[k] EXCEPT !.start_time = clock]]]

EndedKeepsOpen(info) == [info EXCEPT !.end_time = clock]
EndedFromNow(info) ==
    [info EXCEPT !.end_time = clock,
                 !.modules = [k \in DOMAIN @ |-> [@[k] EXCEPT !.start_time = clock, !.end_time = clock]]]

Ended(info) ==
    [info EXCEPT !.end_time = clock,
                 !.modules = [k \in DOMAIN @ |-> [@[k] EXCEPT !.end_time = clock]]]

\* on_module_change adds a module that is loaded, even if one of its name is
\* open, and closes every open entry of the name of one that is unloaded.
WithModule(info, file, slot) == [info EXCEPT !.modules = Append(@, NewModule(file, slot))]

UnloadedAll(modules, file) ==
    [k \in DOMAIN modules |->
        IF modules[k].file_name = file THEN [modules[k] EXCEPT !.end_time = clock] ELSE modules[k]]
UnloadedNone(modules, file) == modules

Unloaded(modules, file) ==
    [k \in DOMAIN modules |->
        IF modules[k].file_name = file /\ modules[k].end_time = 0
        THEN [modules[k] EXCEPT !.end_time = clock] ELSE modules[k]]

\* get_proc_modules_lock_free: the first table of that number, ended or not.
Known(pid) == \E k \in DOMAIN proc_infos : proc_infos[k].proc_id = pid

TableOf(pid) == SelectInSeq(proc_infos, LAMBDA info : info.proc_id = pid)

\* on_process_change for a process that starts.  A table of that number is
\* used again, and its end stays.
ProcessCreatedAlone(pid) ==
    proc_infos' = <<[proc_id |-> pid, start_time |-> clock, end_time |-> 0, modules |-> <<>>]>>

ProcessCreated(pid) ==
    proc_infos' =
        IF Known(pid)
        THEN [proc_infos EXCEPT ![TableOf(pid)] = Begun(@)]
        ELSE Append(proc_infos, [proc_id |-> pid, start_time |-> clock, end_time |-> 0, modules |-> <<>>])

\* on_process_change for a process that exits; an unknown one is refused.
ProcessExited(pid) ==
    proc_infos' =
        IF Known(pid)
        THEN [proc_infos EXCEPT ![TableOf(pid)] = Ended(@)]
        ELSE proc_infos

\* on_module_change for an image of a process; an unknown process is refused.
ImageLoaded(pid, file, slot) ==
    proc_infos' =
        IF Known(pid)
        THEN [proc_infos EXCEPT ![TableOf(pid)] = WithModule(@, file, slot)]
        ELSE proc_infos

-----------------------------------------------------------------------------
(* The traced system *)

Place(m) == [at |-> m.at, slot |-> m.slot, file |-> m.file, time |-> clock]

Raise(kind, pid, file, slot) ==
    /\ Len(queue) < MaxQueue
    /\ queue' = Append(queue, [kind |-> kind, pid |-> pid, file |-> file, slot |-> slot])
    /\ UNCHANGED <<clock, settled, process_log_sw, tables>>

\* The module mapped at the start, and that of an event that carries none.
FirstFile == CHOOSE f \in Files : TRUE
FirstSlot(at) == CHOOSE s \in SlotsOf(at) : TRUE

SystemExec(p) ==
    /\ p \notin living
    /\ Reuses \/ p \notin started
    /\ \A m \in mapped : m.at # p
    /\ living' = living \cup {p}
    /\ started' = started \cup {p}
    /\ UNCHANGED <<mapped, loads, history>>
    /\ Raise("PROC_exec", p, FirstFile, FirstSlot(p))

\* The images of a process go with it.
SystemExit(p) ==
    /\ p \in living
    /\ living' = living \ {p}
    /\ mapped' = {m \in mapped : m.at # p}
    /\ UNCHANGED <<started, loads, history>>
    /\ Raise("EXEC_destroy", p, FirstFile, FirstSlot(p))

\* A module is mapped once at a time, at a free place.
Map(m) ==
    /\ Len(loads) < MaxLoads + Cardinality(Resident) + 1
    /\ \A n \in mapped : n.at = m.at => n.file # m.file /\ n.slot # m.slot
    /\ mapped' = mapped \cup {m}
    /\ loads' = Append(loads, m)
    /\ history' = history \cup {Place(m)}
    /\ UNCHANGED <<living, started>>

SystemMapImage(p, file, slot) ==
    /\ p \in living
    /\ Map([at |-> p, file |-> file, slot |-> slot])
    /\ Raise("EXEC_module_load", p, file, slot)

\* An image may be unmapped; there is no event for it.
SystemUnmapImage(m) ==
    /\ m \in mapped /\ m.at # Kernel
    /\ mapped' = mapped \ {m}
    /\ UNCHANGED <<clock, living, started, loads, history, settled, queue, process_log_sw, tables>>

SystemLoadDriver(file, slot) ==
    /\ Moves \/ \A m \in ToSet(loads) : m.at = Kernel /\ m.file = file => m.slot = slot
    /\ Map([at |-> Kernel, file |-> file, slot |-> slot])
    /\ Raise("SYS_load_mod", Kernel, file, slot)

SystemUnloadDriver(m) ==
    /\ m \in mapped /\ m.at = Kernel
    /\ mapped' = mapped \ {m}
    /\ UNCHANGED <<living, started, loads, history>>
    /\ Raise("SYS_unload_mod", Kernel, m.file, m.slot)

\* The time passes, whether the receiver has caught up or not.
Tick ==
    /\ clock < MaxTime
    /\ clock' = clock + 1
    /\ settled' = IF queue = <<>> THEN settled \cup {clock} ELSE settled
    /\ history' = history \cup {[Place(m) EXCEPT !.time = clock + 1] : m \in mapped}
    /\ UNCHANGED <<system, queue, process_log_sw, tables>>

-----------------------------------------------------------------------------
(* The receiver and the switch *)

\* process_proc_module_info, by the type of the event.
process_proc_module_info(e) ==
    \/ /\ e.kind = "PROC_exec"
       /\ ProcessCreated(e.pid)
       /\ UNCHANGED kernel_modules
    \/ /\ e.kind = "EXEC_destroy"
       /\ ProcessExited(e.pid)
       /\ UNCHANGED kernel_modules
    \/ /\ e.kind = "EXEC_module_load"
       /\ ImageLoaded(e.pid, e.file, e.slot)
       /\ UNCHANGED kernel_modules
    \/ /\ e.kind = "SYS_load_mod"
       /\ kernel_modules' = Append(kernel_modules, NewModule(e.file, e.slot))
       /\ UNCHANGED proc_infos
    \/ /\ e.kind = "SYS_unload_mod"
       /\ kernel_modules' = Unloaded(kernel_modules, e.file)
       /\ UNCHANGED proc_infos

\* process_event: nothing is recorded while the switch is off.  What it does to
\* the time of the event is LocalTime, which shows where that time is used.
ProcessEvent ==
    /\ queue # <<>>
    /\ queue' = Tail(queue)
    /\ IF process_log_sw THEN process_proc_module_info(Head(queue)) ELSE UNCHANGED tables
    /\ UNCHANGED <<clock, system, history, settled, process_log_sw>>

\* process_event on an event whose content check_r3_action_notify_output_valid
\* refuses: the tables do not hear of it.
DropEvent ==
    /\ queue # <<>>
    /\ queue' = Tail(queue)
    /\ UNCHANGED <<clock, system, history, settled, process_log_sw, tables>>

\* The switch of the main window.
SwitchLog ==
    /\ process_log_sw' = ~process_log_sw
    /\ UNCHANGED <<clock, system, history, settled, queue, tables>>

-----------------------------------------------------------------------------
\* load_current_module_infos, before the receiver starts: the table of the kernel,
\* and one of every process that runs, with the modules it has mapped unless the
\* process cannot be opened.  With more processes than there is room for, 0 and 4
\* among them, get_all_proc_list fails and no process gets a table.
Running == {[at |-> p, file |-> FirstFile, slot |-> FirstSlot(p)] : p \in Resident \cup {Kernel}}

SnapshotFits == Cardinality(Resident) + 2 < MAX_PROCESS_COUNT

SnapshotModules(p) ==
    IF p \in Protected THEN <<>>
    ELSE <<[file_name |-> FirstFile, base_addr |-> FirstSlot(p), start_time |-> 1, end_time |-> 0]>>

Snapshot(p) == [proc_id |-> p, start_time |-> 1, end_time |-> 0, modules |-> SnapshotModules(p)]

Init ==
    /\ clock = 1
    /\ living = Resident /\ started = Resident
    /\ mapped = Running
    /\ loads = SetToSeq(Running)
    /\ history = {[at |-> m.at, slot |-> m.slot, file |-> m.file, time |-> 1] : m \in Running}
    /\ settled = {0}
    /\ queue = <<>>
    /\ process_log_sw = TRUE
    /\ proc_infos = [k \in 1 .. (IF SnapshotFits THEN Cardinality(Resident) ELSE 0) |->
                        Snapshot(SetToSeq(Resident)[k])]
    /\ kernel_modules = SnapshotModules(Kernel)

Traced ==
    \/ \E p \in Pids : SystemExec(p) \/ SystemExit(p)
    \/ \E p \in Pids, f \in Files, s \in ImageSlots : SystemMapImage(p, f, s)
    \/ \E f \in Files, s \in DriverSlots : SystemLoadDriver(f, s)
    \/ \E m \in mapped : SystemUnmapImage(m) \/ SystemUnloadDriver(m)
    \/ Tick

Next == Traced \/ ProcessEvent \/ DropEvent \/ SwitchLog
Spec == Init /\ [][Next]_vars

\* The behaviours in which the log is never switched off and every event is valid.
Recording == Init /\ [][Traced \/ ProcessEvent]_vars

-----------------------------------------------------------------------------
(* The properties *)

\* time_to_local_time, by which process_event replaces the time of an event.
LocalTime(time, bias) == time + bias

\* The times by which the frames of the events so far may be looked up.
LookupTimes == {LocalTime(t, bias) : t \in 1 .. clock, bias \in Biases}

\* get_proc_modules_on_time_lock_free.  The duration it compares is the one of the
\* process, which stays zero: on_process_change stamps that of the table inside.
Modules(pid) == IF Known(pid) THEN proc_infos[TableOf(pid)].modules ELSE <<>>

\* The first module of a table that holds the address and was there at the time
\* by the stamps of the table; 0 if there is none.
FrameModule(modules, slot, time) ==
    SelectInSeq(modules, LAMBDA m : /\ m.base_addr = slot
                                    /\ m.start_time <= time
                                    /\ m.end_time = 0 \/ m.end_time >= time)

\* get_stack_trace_dump_text_ex: the name of a frame of an event of the process,
\* from the modules of the process, or else from those of the kernel.
FrameNames(pid, slot, time) ==
    LET i == FrameModule(Modules(pid), slot, time)
        k == FrameModule(kernel_modules, slot, time)
    IN  IF i # 0 THEN {Modules(pid)[i].file_name}
        ELSE IF k # 0 THEN {kernel_modules[k].file_name}
        ELSE {}

\* What was mapped there in a tick; what is mapped now, of a tick to come.
Occupants(at, slot, time) ==
    IF time > clock
    THEN {m.file : m \in {n \in mapped : n.at = at /\ n.slot = slot}}
    ELSE {h.file : h \in {g \in history : g.at = at /\ g.slot = slot /\ g.time = time}}

\* The receiver had caught up at the begin of the tick and at its end.
Settled(time) ==
    /\ time \in 1 .. clock => time - 1 \in settled
    /\ IF time \in 1 .. clock - 1 THEN time \in settled ELSE queue = <<>>

\* The state is well-typed, a process has one table, and no module is open in
\* the table of a process that has ended: on_process_change closes them all.
TypeOK ==
    /\ clock \in 1 .. MaxTime
    /\ living \subseteq started /\ started \subseteq Pids
    /\ mapped \subseteq Mapping /\ loads \in Seq(Mapping)
    /\ history \subseteq [at : Pids \cup {Kernel}, slot : Slots, file : Files, time : 1 .. MaxTime]
    /\ settled \subseteq 0 .. clock - 1
    /\ queue \in Seq([kind : Kinds, pid : Pids \cup {Kernel}, file : Files, slot : Slots])
    /\ process_log_sw \in BOOLEAN
    /\ kernel_modules \in Seq(Module(DriverSlots))
    /\ \A k \in DOMAIN proc_infos :
        LET info == proc_infos[k] IN
        /\ info \in [proc_id : Pids, start_time : 0 .. MaxTime, end_time : 0 .. MaxTime, modules : Seq(Module(ImageSlots))]
        /\ TableOf(info.proc_id) = k
        /\ info.end_time # 0 => \A m \in ToSet(info.modules) : m.end_time # 0

\* A frame in a driver, of an event of any process, is named by a driver that
\* occupied the address in the tick that the local time of the event means when
\* it is taken for universal time, as the search takes it, and by none if none
\* did: although drivers come, go and take each other's place, whatever happened
\* since, and however late the receiver was in other ticks.
DriverFrames ==
    \A time \in LookupTimes : Settled(time) =>
        \A pid \in Pids \cup {Kernel}, slot \in DriverSlots :
            LET names == FrameNames(pid, slot, time)
                files == Occupants(Kernel, slot, time)
            IN  names \subseteq files /\ (files # {} => names # {})

\* A frame of a process in one of its images is named by an image that was
\* mapped there by that tick, also after the process is gone: for want of an
\* event an image that was unmapped keeps its place.  What a protected process
\* had mapped at the start has no name.
ImageFrames ==
    \A time \in LookupTimes : Settled(time) =>
        \A pid \in Pids, slot \in ImageSlots :
            LET names == FrameNames(pid, slot, time)
            IN  /\ names \subseteq UNION {Occupants(pid, slot, then) : then \in 1 .. time}
                /\ \/ names # {}
                   \/ Occupants(pid, slot, time) = {}
                   \/ pid \in Protected /\ slot = FirstSlot(pid)

\* A frame in a driver is named by what was there when the event happened.  Only
\* a machine on universal time has this.
DriverFramesTrue ==
    \A slot \in DriverSlots, t \in 1 .. clock, bias \in Biases :
        Settled(t) /\ Settled(LocalTime(t, bias)) =>
            FrameNames(Kernel, slot, LocalTime(t, bias)) \subseteq Occupants(Kernel, slot, t)

\* The assertions of on_process_change and on_module_change, as conditions on
\* the event about to be handled.
Handles(kinds) == process_log_sw /\ queue # <<>> /\ Head(queue).kind \in kinds

\* "can not get process module informations" (module_info.cpp:375 and 540): a
\* process that exits or maps an image is known.
AssertProcessKnown == Handles({"EXEC_destroy", "EXEC_module_load"}) => Known(Head(queue).pid)

\* "first receive process created notify." (module_info.cpp:415), and 419: a
\* process that starts is not known yet, or at least has not ended.
AssertFirstNotify == Handles({"PROC_exec"}) => ~Known(Head(queue).pid)

\* ASSERT( FALSE == module_set ) (module_info.cpp:576): one entry of a file is open.
AssertOneOpen ==
    Handles({"SYS_unload_mod"}) =>
        \A j, k \in DOMAIN kernel_modules :
            /\ kernel_modules[j].file_name = Head(queue).file /\ kernel_modules[j].end_time = 0
            /\ kernel_modules[k].file_name = Head(queue).file /\ kernel_modules[k].end_time = 0
            => j = k

\* ASSERT( FALSE ) (module_info.cpp:563): every entry of a file that is
\* unloaded has its address.
AssertSameBase ==
    Handles({"SYS_unload_mod"}) =>
        \A m \in ToSet(kernel_modules) : m.file_name = Head(queue).file => m.base_addr = Head(queue).slot
====

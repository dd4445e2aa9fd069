---- MODULE ModuleInfoProofs ----
(***************************************************************************)
(* The tables of processes: their types, that no process has two, that the *)
(* receiver has one of every process whose exit or image it is told of     *)
(* while the log is on, and that a table which was closed stays closed as  *)
(* long as no process number comes back.                                   *)
(***************************************************************************)
EXTENDS ModuleInfo, FiniteSetTheorems, TLAPS

Info == [proc_id : Pids, start_time : 0 .. MaxTime, end_time : 0 .. MaxTime, modules : Seq(Module(ImageSlots))]
Occupancy == [at : Pids \cup {Kernel}, slot : Slots, file : Files, time : 1 .. MaxTime]
ProcessKinds == {"PROC_exec", "EXEC_destroy", "EXEC_module_load"}
Event ==
    {e \in [kind : Kinds, pid : Pids \cup {Kernel}, file : Files, slot : Slots] :
        /\ e.kind \in ProcessKinds => e.pid \in Pids
        /\ e.kind = "EXEC_module_load" => e.slot \in ImageSlots
        /\ e.kind = "SYS_load_mod" => e.slot \in DriverSlots}

Typed ==
    /\ clock \in 1 .. MaxTime
    /\ living \subseteq started /\ started \subseteq Pids
    /\ mapped \subseteq Mapping /\ loads \in Seq(Mapping)
    /\ history \subseteq Occupancy
    /\ settled \subseteq 0 .. clock - 1
    /\ queue \in Seq(Event)
    /\ process_log_sw \in BOOLEAN
    /\ kernel_modules \in Seq(Module(DriverSlots))
    /\ proc_infos \in Seq(Info)

OneTable ==
    \A j, k \in DOMAIN proc_infos : proc_infos[j].proc_id = proc_infos[k].proc_id => j = k

TypeInv == Typed /\ OneTable

-----------------------------------------------------------------------------
(* The operations keep the types of the tables and every number in them. *)

LEMMA ClockTyped == Typed => clock \in 0 .. MaxTime /\ clock # 0
BY BoundsAssumption DEF Typed

LEMMA NewModuleTyped ==
    ASSUME Typed, NEW f \in Files, NEW slots, NEW s \in slots
    PROVE  NewModule(f, s) \in Module(slots)
BY BoundsAssumption, ClockTyped DEF NewModule, Module

LEMMA StampTyped ==
    ASSUME Typed, NEW slots, NEW ms \in Seq(Module(slots))
    PROVE  /\ [k \in DOMAIN ms |-> [ms[k] EXCEPT !.start_time = clock]] \in Seq(Module(slots))
           /\ [k \in DOMAIN ms |-> [ms[k] EXCEPT !.end_time = clock]] \in Seq(Module(slots))
<1>1. ASSUME NEW m \in Module(slots)
      PROVE  /\ [m EXCEPT !.start_time = clock] \in Module(slots)
             /\ [m EXCEPT !.end_time = clock] \in Module(slots)
  BY <1>1, ClockTyped DEF Module
<1>2. DOMAIN ms = 1 .. Len(ms) /\ Len(ms) \in Nat /\ \A k \in 1 .. Len(ms) : ms[k] \in Module(slots)
  OBVIOUS
<1>3. [k \in DOMAIN ms |-> [ms[k] EXCEPT !.start_time = clock]] \in [1 .. Len(ms) -> Module(slots)]
  BY <1>1, <1>2
<1>4. [k \in DOMAIN ms |-> [ms[k] EXCEPT !.end_time = clock]] \in [1 .. Len(ms) -> Module(slots)]
  BY <1>1, <1>2
<1> QED
  BY <1>2, <1>3, <1>4

\* The three changes of an entry keep its type and its number.
LEMMA EntryKept ==
    ASSUME Typed, NEW info \in Info, NEW f \in Files, NEW s \in ImageSlots,
           NEW new \in {Begun(info), Ended(info), WithModule(info, f, s)}
    PROVE  new \in Info /\ new.proc_id = info.proc_id
<1> DEFINE MS == Seq(Module(ImageSlots))
           INFO == [proc_id : Pids, start_time : 0 .. MaxTime, end_time : 0 .. MaxTime, modules : MS]
<1>1. info \in INFO /\ clock \in 0 .. MaxTime
  BY ClockTyped DEF Info
<1>2. /\ [k \in DOMAIN info.modules |-> [info.modules[k] EXCEPT !.start_time = clock]] \in MS
      /\ [k \in DOMAIN info.modules |-> [info.modules[k] EXCEPT !.end_time = clock]] \in MS
  BY StampTyped DEF Info
<1>3. Append(info.modules, NewModule(f, s)) \in MS
  BY NewModuleTyped DEF Info
<1> HIDE DEF MS
<1>4. Begun(info) \in INFO /\ Begun(info).proc_id = info.proc_id
  BY <1>1, <1>2 DEF Begun
<1>5. Ended(info) \in INFO /\ Ended(info).proc_id = info.proc_id
  BY <1>1, <1>2 DEF Ended
<1>6. WithModule(info, f, s) \in INFO /\ WithModule(info, f, s).proc_id = info.proc_id
  BY <1>1, <1>3 DEF WithModule
<1> QED
  BY <1>4, <1>5, <1>6 DEF Info, MS

\* What every operation does to the tables: entries are changed in place, or
\* one is added at the end for a process that has none.
Kept ==
    /\ proc_infos' \in Seq(Info)
    /\ \A k \in DOMAIN proc_infos :
        k \in DOMAIN proc_infos' /\ proc_infos'[k].proc_id = proc_infos[k].proc_id
    /\ \A k \in DOMAIN proc_infos' :
        k \in DOMAIN proc_infos \/ (k = Len(proc_infos) + 1 /\ ~Known(proc_infos'[k].proc_id))

LEMMA KnownKept ==
    ASSUME Kept, NEW p, Known(p)
    PROVE  Known(p)'
BY DEF Kept, Known

LEMMA OneKept ==
    ASSUME Kept, OneTable
    PROVE  OneTable'
<1> SUFFICES ASSUME NEW j \in DOMAIN proc_infos', NEW k \in DOMAIN proc_infos',
                    proc_infos'[j].proc_id = proc_infos'[k].proc_id
             PROVE  j = k
  BY DEF OneTable
<1> QED
  BY DEF Kept, OneTable, Known

LEMMA SameKeeps ==
    ASSUME proc_infos \in Seq(Info), proc_infos' = proc_infos
    PROVE  Kept
BY DEF Kept, Known

LEMMA ChangeKeeps ==
    ASSUME proc_infos \in Seq(Info), NEW t, NEW new,
           t \in DOMAIN proc_infos => new \in Info /\ new.proc_id = proc_infos[t].proc_id,
           proc_infos' = [proc_infos EXCEPT ![t] = new]
    PROVE  Kept
<1>1. DOMAIN proc_infos = 1 .. Len(proc_infos) /\ Len(proc_infos) \in Nat
      /\ \A k \in DOMAIN proc_infos : proc_infos[k] \in Info
  OBVIOUS
<1>2. DOMAIN proc_infos' = 1 .. Len(proc_infos)
  BY <1>1
<1>3. \A k \in DOMAIN proc_infos :
        proc_infos'[k] \in Info /\ proc_infos'[k].proc_id = proc_infos[k].proc_id
  BY <1>1
<1>4. proc_infos' \in [1 .. Len(proc_infos) -> Info]
  BY <1>1, <1>2, <1>3
<1>5. proc_infos' \in Seq(Info)
  BY <1>1, <1>4
<1> QED
  BY <1>1, <1>2, <1>3, <1>5 DEF Kept, Known

LEMMA AddKeeps ==
    ASSUME proc_infos \in Seq(Info), NEW new \in Info, ~Known(new.proc_id),
           proc_infos' = Append(proc_infos, new)
    PROVE  Kept /\ Known(new.proc_id)'
<1>1. /\ Len(proc_infos) \in Nat /\ proc_infos' \in Seq(Info)
      /\ DOMAIN proc_infos' = DOMAIN proc_infos \cup {Len(proc_infos) + 1}
      /\ \A k \in DOMAIN proc_infos : proc_infos'[k] = proc_infos[k]
      /\ proc_infos'[Len(proc_infos) + 1] = new
  OBVIOUS
<1> QED
  BY <1>1 DEF Kept, Known

LEMMA EntryChangeKeeps ==
    ASSUME Typed, NEW t, NEW f \in Files, NEW s \in ImageSlots,
           \/ proc_infos' = [proc_infos EXCEPT ![t] = Begun(proc_infos[t])]
           \/ proc_infos' = [proc_infos EXCEPT ![t] = Ended(proc_infos[t])]
           \/ proc_infos' = [proc_infos EXCEPT ![t] = WithModule(proc_infos[t], f, s)]
    PROVE  Kept
<1>1. PICK new \in {Begun(proc_infos[t]), Ended(proc_infos[t]), WithModule(proc_infos[t], f, s)} :
        proc_infos' = [proc_infos EXCEPT ![t] = new]
  OBVIOUS
<1>2. proc_infos \in Seq(Info) /\ (t \in DOMAIN proc_infos => proc_infos[t] \in Info)
  BY DEF Typed
<1>3. t \in DOMAIN proc_infos => new \in Info /\ new.proc_id = proc_infos[t].proc_id
  BY <1>2, EntryKept
<1> QED
  BY <1>1, <1>2, <1>3, ChangeKeeps

LEMMA CreatedKeeps ==
    ASSUME Typed, NEW p \in Pids, NEW f \in Files, NEW s \in ImageSlots, ProcessCreated(p)
    PROVE  Kept /\ Known(p)'
<1>1. CASE Known(p)
  <2>1. Kept
    BY <1>1, EntryChangeKeeps DEF ProcessCreated
  <2> QED
    BY <2>1, <1>1, KnownKept
<1>2. CASE ~Known(p)
  <2> DEFINE new == [proc_id |-> p, start_time |-> clock, end_time |-> 0, modules |-> <<>>]
  <2>1. proc_infos' = Append(proc_infos, new)
    BY <1>2 DEF ProcessCreated
  <2>2. new \in Info /\ new.proc_id = p
    BY ClockTyped, BoundsAssumption DEF Info
  <2> HIDE DEF new
  <2> QED
    BY <1>2, <2>1, <2>2, AddKeeps DEF Typed
<1> QED
  BY <1>1, <1>2

LEMMA ExitedKeeps ==
    ASSUME Typed, NEW p \in Pids, NEW f \in Files, NEW s \in ImageSlots, ProcessExited(p)
    PROVE  Kept
BY EntryChangeKeeps, SameKeeps DEF ProcessExited, Typed

LEMMA LoadedKeeps ==
    ASSUME Typed, NEW p \in Pids, NEW f \in Files, NEW s \in ImageSlots, ImageLoaded(p, f, s)
    PROVE  Kept
BY EntryChangeKeeps, SameKeeps DEF ImageLoaded, Typed

LEMMA FirstTyped ==
    /\ FirstFile \in Files /\ FirstSlot(Kernel) \in DriverSlots
    /\ \A p \in Pids : FirstSlot(p) \in ImageSlots
    /\ \A p : FirstSlot(p) \in SlotsOf(p) /\ FirstSlot(p) \in Slots
BY ModulesAssumption, TablesAssumption DEF FirstFile, FirstSlot, SlotsOf, Slots

\* The receiver's step is one of five, on the event at the head of the queue, or
\* it leaves the tables alone.
LEMMA ReceiveCases ==
    ASSUME Typed, ProcessEvent \/ DropEvent
    PROVE  \E e \in Event :
            /\ queue # <<>> /\ e = Head(queue) /\ queue' = Tail(queue)
            /\ UNCHANGED <<clock, system, history, settled, process_log_sw>>
            /\ process_proc_module_info(e) \/ UNCHANGED tables
            /\ ProcessEvent /\ process_log_sw = TRUE => process_proc_module_info(e)
BY DEF Typed, ProcessEvent, DropEvent

LEMMA ReceiveTables ==
    ASSUME Typed, NEW e \in Event, process_proc_module_info(e)
    PROVE  /\ Kept
           /\ e.kind = "PROC_exec" => Known(e.pid)'
           /\ kernel_modules' \in Seq(Module(DriverSlots))
<1>0. kernel_modules \in Seq(Module(DriverSlots)) /\ proc_infos \in Seq(Info)
  BY DEF Typed
<1>1. CASE e.kind = "PROC_exec" /\ ProcessCreated(e.pid) /\ UNCHANGED kernel_modules
  BY <1>0, <1>1, FirstTyped, CreatedKeeps DEF Event, ProcessKinds
<1>2. CASE e.kind = "EXEC_destroy" /\ ProcessExited(e.pid) /\ UNCHANGED kernel_modules
  BY <1>0, <1>2, FirstTyped, ExitedKeeps DEF Event, ProcessKinds
<1>3. CASE /\ e.kind = "EXEC_module_load" /\ ImageLoaded(e.pid, e.file, e.slot)
           /\ UNCHANGED kernel_modules
  BY <1>0, <1>3, LoadedKeeps DEF Event, ProcessKinds
<1>4. CASE /\ e.kind = "SYS_load_mod" /\ UNCHANGED proc_infos
           /\ kernel_modules' = Append(kernel_modules, NewModule(e.file, e.slot))
  <2>1. e.file \in Files /\ e.slot \in DriverSlots
    BY <1>4 DEF Event
  <2>2. NewModule(e.file, e.slot) \in Module(DriverSlots)
    BY <2>1, NewModuleTyped
  <2> QED
    BY <1>0, <1>4, <2>2, SameKeeps
<1>5. CASE /\ e.kind = "SYS_unload_mod" /\ UNCHANGED proc_infos
           /\ kernel_modules' = Unloaded(kernel_modules, e.file)
  <2>1. /\ DOMAIN kernel_modules = 1 .. Len(kernel_modules) /\ Len(kernel_modules) \in Nat
        /\ \A k \in 1 .. Len(kernel_modules) : kernel_modules[k] \in Module(DriverSlots)
    BY <1>0
  <2>2. \A m \in Module(DriverSlots) : [m EXCEPT !.end_time = clock] \in Module(DriverSlots)
    BY ClockTyped DEF Module
  <2>3. kernel_modules' \in [1 .. Len(kernel_modules) -> Module(DriverSlots)]
    BY <1>5, <2>1, <2>2 DEF Unloaded
  <2>4. kernel_modules' \in Seq(Module(DriverSlots))
    BY <2>1, <2>3
  <2> QED
    BY <1>0, <1>5, <2>4, SameKeeps
<1> QED
  BY <1>1, <1>2, <1>3, <1>4, <1>5 DEF process_proc_module_info

\* An event leaves the queue at its head and enters it at its end.
LEMMA Dequeued ==
    ASSUME Typed, queue # <<>>, queue' = Tail(queue)
    PROVE  /\ Len(queue') \in Nat /\ Len(queue) = Len(queue') + 1
           /\ DOMAIN queue = 1 .. Len(queue) /\ DOMAIN queue' = 1 .. Len(queue')
           /\ Head(queue) = queue[1]
           /\ \A j \in 1 .. Len(queue') : queue'[j] = queue[j + 1]
BY DEF Typed

LEMMA Enqueued ==
    ASSUME Typed, NEW e \in Event, queue' = Append(queue, e)
    PROVE  /\ Len(queue) \in Nat /\ Len(queue') = Len(queue) + 1
           /\ DOMAIN queue = 1 .. Len(queue) /\ DOMAIN queue' = 1 .. Len(queue')
           /\ queue'[Len(queue) + 1] = e
           /\ \A j \in 1 .. Len(queue) : queue'[j] = queue[j]
BY DEF Typed

-----------------------------------------------------------------------------
(* Every variable keeps its type and no process gets a second table, also  *)
(* when the log is switched off and on and process numbers come back.      *)

LEMMA Listed ==
    ASSUME NEW S, IsFiniteSet(S)
    PROVE  /\ Cardinality(S) \in Nat
           /\ SetToSeq(S) \in [1 .. Cardinality(S) -> S]
           /\ \A x \in S : \E k \in 1 .. Cardinality(S) : SetToSeq(S)[k] = x
           /\ \A j, k \in 1 .. Cardinality(S) : SetToSeq(S)[j] = SetToSeq(S)[k] => j = k
<1> DEFINE n == Cardinality(S)
           order == SetToSeq(S)
<1>1. n \in Nat /\ ExistsBijection(1 .. n, S)
  BY FS_CardinalityType
<1>2. \E f \in [1 .. n -> S] : IsInjective(f)
  BY <1>1 DEF ExistsBijection, Bijection, Injection, IsInjective
<1>3. order \in [1 .. n -> S] /\ IsInjective(order)
  BY <1>2 DEF SetToSeq
<1>4. order \in Injection(1 .. n, S)
  BY <1>3 DEF Injection, IsInjective
<1>5. Cardinality(1 .. n) = n
  BY <1>1, FS_Interval
<1> HIDE DEF n, order
<1>6. order \in Surjection(1 .. n, S)
  BY <1>1, <1>4, <1>5, FS_Injection DEF n
<1> QED
  BY <1>1, <1>3, <1>6 DEF Surjection, IsInjective, n, order

LEMMA SnapshotTyped ==
    ASSUME NEW p, NEW slots, FirstSlot(p) \in slots
    PROVE  SnapshotModules(p) \in Seq(Module(slots))
<1> DEFINE m == [file_name |-> FirstFile, base_addr |-> FirstSlot(p), start_time |-> 1, end_time |-> 0]
<1>1. m \in Module(slots)
  BY FirstTyped, BoundsAssumption DEF Module
<1> HIDE DEF m
<1>2. <<m>> \in Seq(Module(slots)) /\ <<>> \in Seq(Module(slots))
  BY <1>1
<1> QED
  BY <1>2 DEF SnapshotModules, m

\* The snapshot has a table of every process that runs, or of none.
LEMMA SnapshotTables ==
    ASSUME Init
    PROVE  /\ proc_infos \in Seq(Info) /\ OneTable
           /\ \A p : Known(p) <=> SnapshotFits /\ p \in Resident
           /\ \A k \in DOMAIN proc_infos : proc_infos[k] = Snapshot(proc_infos[k].proc_id)
<1> DEFINE n == IF SnapshotFits THEN Cardinality(Resident) ELSE 0
           order == SetToSeq(Resident)
<1>1. ASSUME NEW p \in Resident
      PROVE  Snapshot(p) \in Info /\ Snapshot(p).proc_id = p
  <2>1. p \in Pids /\ FirstSlot(p) \in ImageSlots
    BY FirstTyped, TablesAssumption
  <2>2. 0 \in 0 .. MaxTime /\ 1 \in 0 .. MaxTime
    BY BoundsAssumption
  <2>3. SnapshotModules(p) \in Seq(Module(ImageSlots))
    BY <2>1, SnapshotTyped
  <2> QED
    BY <2>1, <2>2, <2>3 DEF Snapshot, Info
<1>2. /\ Cardinality(Resident) \in Nat /\ order \in [1 .. Cardinality(Resident) -> Resident]
      /\ \A p \in Resident : \E k \in 1 .. Cardinality(Resident) : order[k] = p
      /\ \A j, k \in 1 .. Cardinality(Resident) : order[j] = order[k] => j = k
  BY Listed, TablesAssumption
<1>3. proc_infos = [k \in 1 .. n |-> Snapshot(order[k])]
  BY DEF Init
<1>4. /\ n \in Nat /\ \A k \in 1 .. n : order[k] \in Resident
      /\ \A j, k \in 1 .. n : order[j] = order[k] => j = k
      /\ SnapshotFits => \A p \in Resident : \E k \in 1 .. n : order[k] = p
      /\ ~SnapshotFits => 1 .. n = {}
  BY <1>2
<1> HIDE DEF n, order
<1>5. \A k \in 1 .. n : proc_infos[k] \in Info /\ proc_infos[k].proc_id = order[k]
                         /\ proc_infos[k] = Snapshot(order[k])
  BY <1>1, <1>3, <1>4
<1>6. proc_infos \in [1 .. n -> Info]
  BY <1>3, <1>5
<1>7. proc_infos \in Seq(Info) /\ DOMAIN proc_infos = 1 .. n
  BY <1>4, <1>6
<1>8. OneTable
  BY <1>4, <1>5, <1>7 DEF OneTable
<1>9. ASSUME NEW p
      PROVE  Known(p) <=> SnapshotFits /\ p \in Resident
  <2>1. Known(p) <=> \E k \in 1 .. n : order[k] = p
    BY <1>5, <1>7 DEF Known
  <2> QED
    BY <1>4, <2>1
<1> QED
  BY <1>5, <1>7, <1>8, <1>9

LEMMA RunningTyped == Running \subseteq Mapping /\ SetToSeq(Running) \in Seq(Mapping)
<1> DEFINE entry == [p \in Resident \cup {Kernel} |->
                        [at |-> p, file |-> FirstFile, slot |-> FirstSlot(p)]]
<1>1. Running \subseteq Mapping
  BY FirstTyped, TablesAssumption DEF Running, Mapping
<1>2. IsFiniteSet(Resident \cup {Kernel})
  BY TablesAssumption, FS_AddElement
<1>3. Running = {entry[p] : p \in Resident \cup {Kernel}}
  BY DEF Running
<1>4. entry \in Surjection(Resident \cup {Kernel}, Running)
  BY <1>3 DEF Surjection
<1>5. IsFiniteSet(Running)
  BY <1>2, <1>4, FS_Surjection
<1>6. Cardinality(Running) \in Nat /\ SetToSeq(Running) \in [1 .. Cardinality(Running) -> Running]
  BY <1>5, Listed
<1> QED
  BY <1>1, <1>6

LEMMA InitTyped == Init => TypeInv
<1> SUFFICES ASSUME Init PROVE TypeInv
  OBVIOUS
<1>1. proc_infos \in Seq(Info) /\ OneTable
  BY SnapshotTables
<1>2. mapped \subseteq Mapping /\ loads \in Seq(Mapping)
  BY RunningTyped DEF Init
<1>3. 1 \in 1 .. MaxTime /\ {0} \subseteq 0 .. 1 - 1
  BY BoundsAssumption
<1>4. history \subseteq Occupancy
  BY <1>3, RunningTyped DEF Init, Mapping, Occupancy
<1>5. kernel_modules \in Seq(Module(DriverSlots))
  BY FirstTyped, SnapshotTyped DEF Init
<1> QED
  BY <1>1, <1>2, <1>3, <1>4, <1>5, TablesAssumption DEF Init, Typed, TypeInv

\* A step of the traced system puts at most one event at the end of the queue.
LEMMA RaiseTyped ==
    ASSUME Typed, NEW kind \in Kinds, NEW p \in Pids \cup {Kernel}, NEW f \in Files, NEW s \in Slots,
           kind \in ProcessKinds => p \in Pids, Raise(kind, p, f, s),
           kind = "EXEC_module_load" => s \in ImageSlots,
           kind = "SYS_load_mod" => s \in DriverSlots
    PROVE  LET e == [kind |-> kind, pid |-> p, file |-> f, slot |-> s] IN
           /\ e \in Event /\ queue' = Append(queue, e) /\ queue' \in Seq(Event)
           /\ UNCHANGED <<clock, settled, process_log_sw, proc_infos, kernel_modules>>
BY DEF Typed, Raise, Event, tables

LEMMA MapTyped ==
    ASSUME Typed, NEW m \in Mapping, Map(m)
    PROVE  mapped' \subseteq Mapping /\ loads' \in Seq(Mapping) /\ history' \subseteq Occupancy
<1>1. Place(m) \in Occupancy
  BY DEF Typed, Place, Mapping, Occupancy
<1> QED
  BY <1>1 DEF Typed, Map

LEMMA TracedTyped == TypeInv /\ Traced => TypeInv'
<1> SUFFICES ASSUME TypeInv, Traced PROVE TypeInv'
  OBVIOUS
<1> USE DEF TypeInv, tables
<1>0. ASSUME proc_infos' = proc_infos PROVE OneTable'
  BY <1>0 DEF OneTable
<1>1. ASSUME NEW p \in Pids, SystemExec(p) \/ SystemExit(p)
      PROVE  TypeInv'
  <2>1. /\ queue' \in Seq(Event)
        /\ UNCHANGED <<clock, settled, process_log_sw, proc_infos, kernel_modules, loads, history>>
    BY <1>1, FirstTyped, RaiseTyped DEF SystemExec, SystemExit, Kinds, ProcessKinds
  <2>2. living' \subseteq started' /\ started' \subseteq Pids /\ mapped' \subseteq Mapping
    BY <1>1 DEF SystemExec, SystemExit, Typed
  <2> QED
    BY <1>0, <2>1, <2>2 DEF Typed
<1>2. ASSUME NEW p \in Pids \cup {Kernel}, NEW f \in Files, NEW s \in SlotsOf(p),
             Map([at |-> p, file |-> f, slot |-> s]),
             \/ Raise("EXEC_module_load", p, f, s) /\ p \in Pids
             \/ Raise("SYS_load_mod", p, f, s) /\ p = Kernel
      PROVE  TypeInv'
  <2>1. queue' \in Seq(Event) /\ UNCHANGED <<clock, settled, process_log_sw, proc_infos, kernel_modules>>
    <3>1. s \in Slots /\ (p \in Pids => s \in ImageSlots) /\ (p = Kernel => s \in DriverSlots)
      BY TablesAssumption DEF SlotsOf, Slots
    <3> QED
      BY <1>2, <3>1, RaiseTyped DEF Kinds, ProcessKinds
  <2>2. /\ mapped' \subseteq Mapping /\ loads' \in Seq(Mapping) /\ history' \subseteq Occupancy
        /\ UNCHANGED <<living, started>>
    BY <1>2, MapTyped DEF Mapping, Map, SlotsOf, Slots
  <2> QED
    BY <1>0, <2>1, <2>2 DEF Typed
<1>3. ASSUME NEW m \in mapped, SystemUnmapImage(m)
      PROVE  TypeInv'
  BY <1>0, <1>3 DEF SystemUnmapImage, Typed
<1>4. ASSUME NEW m \in mapped, SystemUnloadDriver(m)
      PROVE  TypeInv'
  <2>1. m.file \in Files /\ m.slot \in Slots
    BY DEF Typed, Mapping
  <2>2. queue' \in Seq(Event) /\ UNCHANGED <<clock, settled, process_log_sw, proc_infos, kernel_modules>>
    BY <1>4, <2>1, RaiseTyped DEF SystemUnloadDriver, Kinds, ProcessKinds
  <2> QED
    BY <1>0, <1>4, <2>2 DEF SystemUnloadDriver, Typed
<1>5. CASE Tick
  <2>1. clock + 1 \in 1 .. MaxTime
    BY <1>5, BoundsAssumption DEF Tick, Typed
  <2>2. \A m \in mapped : [Place(m) EXCEPT !.time = clock + 1] \in Occupancy
    BY <2>1 DEF Typed, Place, Mapping, Occupancy
  <2>3. settled' \subseteq 0 .. clock' - 1
    BY <1>5 DEF Tick, Typed
  <2> QED
    BY <1>0, <1>5, <2>1, <2>2, <2>3 DEF Tick, Typed, system
<1>6. /\ \A p \in Pids : SlotsOf(p) = ImageSlots
      /\ SlotsOf(Kernel) = DriverSlots
  BY TablesAssumption DEF SlotsOf
<1> QED
  BY <1>1, <1>2, <1>3, <1>4, <1>5, <1>6 DEF Traced, SystemMapImage, SystemLoadDriver

LEMMA ReceiveTyped == TypeInv /\ (ProcessEvent \/ DropEvent) => TypeInv'
<1> SUFFICES ASSUME TypeInv, ProcessEvent \/ DropEvent PROVE TypeInv'
  OBVIOUS
<1>1. PICK e \in Event :
        /\ queue # <<>> /\ queue' = Tail(queue)
        /\ UNCHANGED <<clock, system, history, settled, process_log_sw>>
        /\ process_proc_module_info(e) \/ UNCHANGED tables
  BY ReceiveCases DEF TypeInv
<1>2. Kept /\ kernel_modules' \in Seq(Module(DriverSlots))
  BY <1>1, ReceiveTables, SameKeeps DEF TypeInv, Typed, tables
<1>3. OneTable'
  BY <1>2, OneKept DEF TypeInv
<1> QED
  BY <1>1, <1>2, <1>3 DEF TypeInv, Typed, Kept, system

LEMMA StutterTyped == TypeInv /\ UNCHANGED vars => TypeInv'
BY DEF TypeInv, Typed, OneTable, vars, system, tables

LEMMA TypeInvariant == Spec => []TypeInv
<1>1. TypeInv /\ SwitchLog => TypeInv'
  BY DEF TypeInv, Typed, OneTable, SwitchLog, system, tables
<1>2. TypeInv /\ [Next]_vars => TypeInv'
  BY <1>1, TracedTyped, ReceiveTyped, StutterTyped DEF Next
<1> QED
  BY <1>2, InitTyped, PTL DEF Spec

LEMMA RecordingIsSpec == Recording => Spec
<1>1. [Traced \/ ProcessEvent]_vars => [Next]_vars
  BY DEF Next
<1> QED
  BY <1>1, PTL DEF Recording, Spec

-----------------------------------------------------------------------------
(* While the log is never switched off the receiver knows every process    *)
(* whose exit or image it is told of: the events of a process queue behind *)
(* the one of its start, and no table is ever dropped.                     *)

\* The start of a process waits in the queue, before place n.
Announced(p, n) == \E j \in 1 .. n - 1 : queue[j].kind = "PROC_exec" /\ queue[j].pid = p

Follows(n) ==
    queue[n].kind \in {"EXEC_destroy", "EXEC_module_load"} =>
        Known(queue[n].pid) \/ Announced(queue[n].pid, n)

InOrder == \A n \in 1 .. Len(queue) : Follows(n)
Introduced == \A p \in living : Known(p) \/ Announced(p, Len(queue) + 1)

KnownInv == process_log_sw = TRUE /\ InOrder /\ Introduced

LEMMA InitKnown ==
    ASSUME SnapshotFits
    PROVE  Init => KnownInv
BY SnapshotTables DEF KnownInv, InOrder, Introduced, Init

\* A new event at the end of the queue follows the start of its process.
LEMMA RaiseKeeps ==
    ASSUME Typed, KnownInv, NEW kind \in Kinds, NEW p \in Pids \cup {Kernel}, NEW f \in Files, NEW s \in Slots,
           Raise(kind, p, f, s),
           kind \in ProcessKinds => p \in Pids,
           kind = "EXEC_module_load" => s \in ImageSlots,
           kind = "SYS_load_mod" => s \in DriverSlots,
           kind \in {"EXEC_destroy", "EXEC_module_load"} => p \in living,
           \A q \in living' : q \in living \/ (kind = "PROC_exec" /\ q = p)
    PROVE  KnownInv'
<1> DEFINE e == [kind |-> kind, pid |-> p, file |-> f, slot |-> s]
<1>1. /\ queue \in Seq(Event) /\ e \in Event /\ queue' = Append(queue, e)
      /\ UNCHANGED <<clock, process_log_sw, proc_infos>>
  BY DEF Raise, Typed, Event, tables
<1>2. PICK last \in Nat : 
        /\ Len(queue) = last /\ Len(queue') = last + 1
        /\ queue'[last + 1] = e
        /\ \A j \in 1 .. last : queue'[j] = queue[j]
  BY <1>1
<1>3. \A q : Known(q)' <=> Known(q)
  BY <1>1 DEF Known
<1>4. ASSUME NEW q, NEW n \in 1 .. last + 1, Announced(q, n)
      PROVE  Announced(q, n)' /\ Announced(q, last + 2)'
  BY <1>2, <1>4 DEF Announced
<1>5. \A q \in living : Known(q) \/ Announced(q, last + 1)
  BY <1>2 DEF KnownInv, Introduced
<1>6. ASSUME NEW n \in 1 .. last + 1
      PROVE  Follows(n)'
  <2>1. CASE n <= last
    <3>1. Follows(n) /\ queue'[n] = queue[n]
      BY <1>2, <2>1 DEF KnownInv, InOrder
    <3> QED
      BY <1>3, <1>4, <3>1 DEF Follows
  <2>2. CASE n = last + 1
    <3>1. queue'[n] = e
      BY <1>2, <2>2
    <3> QED
      BY <1>3, <1>4, <1>5, <2>2, <3>1 DEF Follows
  <2> QED
    BY <2>1, <2>2
<1>7. ASSUME NEW q \in living'
      PROVE  Known(q)' \/ Announced(q, last + 2)'
  <2>1. CASE q \in living
    BY <1>3, <1>4, <1>5, <2>1
  <2>2. CASE kind = "PROC_exec" /\ q = p
    BY <1>2, <2>2 DEF Announced
  <2> QED
    BY <2>1, <2>2
<1>8. Len(queue') = last + 1
  BY <1>2
<1>9. \A q \in living' : Known(q)' \/ Announced(q, Len(queue) + 1)'
  <2> SUFFICES ASSUME NEW q \in living' PROVE Known(q)' \/ Announced(q, Len(queue) + 1)'
    OBVIOUS
  <2> QED
    BY <1>7, <1>8 DEF Announced
<1> QED
  BY <1>1, <1>6, <1>8, <1>9 DEF KnownInv, InOrder, Introduced

\* Handling the first event keeps the order of the rest.
LEMMA TailKeeps ==
    ASSUME Typed, KnownInv, NEW e, queue # <<>>, e = Head(queue), queue' = Tail(queue), Kept,
           e.kind = "PROC_exec" => Known(e.pid)',
           UNCHANGED <<living, process_log_sw>>
    PROVE  KnownInv'
<1>1. PICK last \in Nat :
        /\ Len(queue) = last + 1 /\ Len(queue') = last
        /\ e = queue[1]
        /\ \A j \in 1 .. last : queue'[j] = queue[j + 1]
  BY Dequeued
<1>2. \A q : Known(q) => Known(q)'
  BY KnownKept
<1>3. ASSUME NEW q, NEW n \in 1 .. last + 1, Announced(q, n + 1)
      PROVE  Known(q)' \/ Announced(q, n)'
  <2>1. PICK j \in 1 .. n : queue[j].kind = "PROC_exec" /\ queue[j].pid = q
    BY <1>3 DEF Announced
  <2>2. CASE j = 1
    BY <1>1, <2>1, <2>2
  <2>3. CASE j # 1
    <3>1. j - 1 \in 1 .. n - 1 /\ j - 1 \in 1 .. last /\ (j - 1) + 1 = j
      BY <2>3
    <3>2. queue'[j - 1] = queue[j]
      BY <1>1, <3>1
    <3> QED
      BY <2>1, <3>1, <3>2 DEF Announced
  <2> QED
    BY <2>2, <2>3
<1>4. ASSUME NEW n \in 1 .. last
      PROVE  Follows(n)'
  <2>1. Follows(n + 1) /\ queue'[n] = queue[n + 1]
    BY <1>1 DEF KnownInv, InOrder
  <2>2. PICK q : q = queue[n + 1].pid
    OBVIOUS
  <2>3. CASE Known(q) \/ Announced(q, n + 1)
    <3>1. Known(q)' \/ Announced(q, n)'
      BY <1>2, <1>3, <2>3
    <3> QED
      BY <2>1, <2>2, <3>1 DEF Follows
  <2>4. CASE ~(Known(q) \/ Announced(q, n + 1))
    BY <2>1, <2>2, <2>4 DEF Follows
  <2> QED
    BY <2>3, <2>4
<1>5. ASSUME NEW q \in living'
      PROVE  Known(q)' \/ Announced(q, last + 1)'
  <2>1. Known(q) \/ Announced(q, last + 2)
    BY <1>1 DEF KnownInv, Introduced
  <2> QED
    BY <1>2, <1>3, <2>1
<1>6. \A q \in living' : Known(q)' \/ Announced(q, Len(queue) + 1)'
  <2> SUFFICES ASSUME NEW q \in living' PROVE Known(q)' \/ Announced(q, Len(queue) + 1)'
    OBVIOUS
  <2> QED
    BY <1>1, <1>5 DEF Announced
<1> QED
  BY <1>1, <1>4, <1>6 DEF KnownInv, InOrder, Introduced

LEMMA QuietKeeps ==
    ASSUME KnownInv, UNCHANGED <<living, queue, process_log_sw, proc_infos>>
    PROVE  KnownInv'
<1>1. \A n : Follows(n) => Follows(n)'
  BY DEF Follows, Known, Announced
<1> QED
  BY <1>1 DEF KnownInv, InOrder, Introduced, Known, Announced

LEMMA ReceiveKeeps == Typed /\ KnownInv /\ ProcessEvent => KnownInv'
<1> SUFFICES ASSUME Typed, KnownInv, ProcessEvent PROVE KnownInv'
  OBVIOUS
<1>1. PICK e \in Event :
        /\ queue # <<>> /\ e = Head(queue) /\ queue' = Tail(queue)
        /\ UNCHANGED <<clock, system, history, settled, process_log_sw>>
        /\ process_proc_module_info(e)
  BY ReceiveCases DEF KnownInv
<1>2. Kept /\ (e.kind = "PROC_exec" => Known(e.pid)')
  BY <1>1, ReceiveTables
<1> QED
  BY <1>1, <1>2, TailKeeps DEF system

LEMMA TracedKeeps == Typed /\ KnownInv /\ Traced => KnownInv'
<1> SUFFICES ASSUME Typed, KnownInv, Traced PROVE KnownInv'
  OBVIOUS
<1> USE DEF Kinds, ProcessKinds
<1>1. ASSUME NEW p \in Pids, SystemExec(p) \/ SystemExit(p)
      PROVE  KnownInv'
  BY <1>1, FirstTyped, RaiseKeeps DEF SystemExec, SystemExit
<1>2. ASSUME NEW p \in Pids, NEW f \in Files, NEW s \in ImageSlots, SystemMapImage(p, f, s)
      PROVE  KnownInv'
  BY <1>2, RaiseKeeps DEF SystemMapImage, Map, Slots
<1>3. ASSUME NEW f \in Files, NEW s \in DriverSlots, SystemLoadDriver(f, s)
      PROVE  KnownInv'
  BY <1>3, RaiseKeeps DEF SystemLoadDriver, Map, Slots
<1>4. ASSUME NEW m \in mapped, SystemUnloadDriver(m)
      PROVE  KnownInv'
  <2>1. m.file \in Files /\ m.slot \in Slots
    BY DEF Typed, Mapping
  <2> QED
    BY <1>4, <2>1, RaiseKeeps DEF SystemUnloadDriver
<1>5. ASSUME NEW m \in mapped, SystemUnmapImage(m)
      PROVE  KnownInv'
  BY <1>5, QuietKeeps DEF SystemUnmapImage, tables
<1>6. CASE Tick
  BY <1>6, QuietKeeps DEF Tick, system, tables
<1> QED
  BY <1>1, <1>2, <1>3, <1>4, <1>5, <1>6 DEF Traced

LEMMA KnownInvariant ==
    ASSUME SnapshotFits
    PROVE  Recording => []KnownInv
<1>1. KnownInv /\ UNCHANGED vars => KnownInv'
  BY QuietKeeps DEF vars, system, tables
<1>2. TypeInv /\ KnownInv /\ [Traced \/ ProcessEvent]_vars => KnownInv'
  BY <1>1, TracedKeeps, ReceiveKeeps DEF TypeInv
<1>3. Recording => []TypeInv
  BY TypeInvariant, RecordingIsSpec
<1> QED
  BY <1>2, <1>3, InitKnown, PTL DEF Recording

\* In a recording the log is on.
LEMMA LogOn == Recording => [](process_log_sw = TRUE)
<1>1. process_log_sw = TRUE /\ [Traced \/ ProcessEvent]_vars => (process_log_sw = TRUE)'
  BY DEF Traced, SystemExec, SystemExit, SystemMapImage, SystemUnmapImage, SystemLoadDriver,
         SystemUnloadDriver, Map, Raise, Tick, ProcessEvent, vars
<1>2. Init => process_log_sw = TRUE
  BY DEF Init
<1> QED
  BY <1>1, <1>2, PTL DEF Recording

\* Whatever the processes do and in whatever order their numbers come back, a
\* process whose exit or image the receiver is told of has a table: the
\* assertions of module_info.cpp:375 and 540 hold as long as the log is on and
\* every event is valid, if the snapshot had room for the processes.
THEOREM ProcessesKnown ==
    ASSUME SnapshotFits
    PROVE  Recording => []AssertProcessKnown
<1>1. TypeInv /\ KnownInv => AssertProcessKnown
  <2> SUFFICES ASSUME Typed, KnownInv, queue # <<>>,
                      Head(queue).kind \in {"EXEC_destroy", "EXEC_module_load"}
               PROVE  Known(Head(queue).pid)
    BY DEF AssertProcessKnown, Handles, TypeInv
  <2>1. Follows(1) /\ Head(queue) = queue[1]
    BY DEF KnownInv, Typed, InOrder
  <2> QED
    BY <2>1 DEF Follows, Announced
<1>2. Recording => []TypeInv
  BY TypeInvariant, RecordingIsSpec
<1> QED
  BY <1>1, <1>2, KnownInvariant, PTL

-----------------------------------------------------------------------------
(* While no number of an exited process comes back, a table that was ended *)
(* is that of a process which exited, and no image of it is to come.       *)

\* TableOf finds the table of a process: there is no other.
LEMMA TableIs ==
    ASSUME Typed, OneTable, NEW k \in DOMAIN proc_infos
    PROVE  TableOf(proc_infos[k].proc_id) = k
<1> DEFINE I == {i \in 1 .. Len(proc_infos) : proc_infos[i].proc_id = proc_infos[k].proc_id}
<1>1. TableOf(proc_infos[k].proc_id) = IF I # {} THEN Min(I) ELSE 0
  BY DEF TableOf, SelectInSeq
<1>2. I = {k} /\ k \in Nat
  BY DEF Typed, OneTable
<1>3. Min({k}) = k
  BY <1>2 DEF Min
<1> HIDE DEF I
<1> QED
  BY <1>1, <1>2, <1>3

LEMMA TableKnown ==
    ASSUME Typed, OneTable, NEW p, Known(p)
    PROVE  TableOf(p) \in DOMAIN proc_infos /\ proc_infos[TableOf(p)].proc_id = p
BY TableIs DEF Known

Dead(p) == p \in started \ living

ImageAt(n, p) == queue[n].kind = "EXEC_module_load" /\ queue[n].pid = p
NoImage(p, n) == \A i \in DOMAIN queue : i > n => ~ImageAt(i, p)

Closed(info) == \A i \in DOMAIN info.modules : info.modules[i].end_time # 0

ExitAt(n, p) == queue[n].kind = "EXEC_destroy" /\ queue[n].pid = p

Exits == \A p \in Pids : \A n \in DOMAIN queue : ExitAt(n, p) => Dead(p) /\ NoImage(p, n)

Ends == \A p \in Pids : \A k \in DOMAIN proc_infos :
    proc_infos[k].proc_id = p /\ proc_infos[k].end_time # 0 =>
        Dead(p) /\ NoImage(p, 0) /\ Closed(proc_infos[k])

GoneInv == Exits /\ Ends

LEMMA GoneInit == Init => GoneInv
BY SnapshotTables DEF Init, GoneInv, Exits, Ends, Snapshot

\* A new event at the end of the queue, and the dead stay dead.
LEMMA GoneRaise ==
    ASSUME Typed, GoneInv, NEW kind \in Kinds, NEW p \in Pids \cup {Kernel},
           NEW f \in Files, NEW s \in Slots,
           kind \in ProcessKinds => p \in Pids, Raise(kind, p, f, s),
           kind = "EXEC_module_load" => s \in ImageSlots,
           kind = "SYS_load_mod" => s \in DriverSlots,
           \A q : Dead(q) => Dead(q)',
           kind = "EXEC_module_load" => ~Dead(p),
           kind = "EXEC_destroy" => Dead(p)'
    PROVE  GoneInv'
<1> DEFINE e == [kind |-> kind, pid |-> p, file |-> f, slot |-> s]
<1>1. /\ e \in Event /\ queue' = Append(queue, e) /\ UNCHANGED proc_infos
  BY RaiseTyped
<1>2. /\ Len(queue) \in Nat /\ Len(queue') = Len(queue) + 1
      /\ DOMAIN queue = 1 .. Len(queue) /\ DOMAIN queue' = 1 .. Len(queue')
      /\ queue'[Len(queue) + 1] = e
      /\ \A j \in 1 .. Len(queue) : queue'[j] = queue[j]
  BY <1>1, Enqueued
<1>3. ASSUME NEW q, Dead(q), NEW n \in Nat, NoImage(q, n)
      PROVE  NoImage(q, n)'
  <2> SUFFICES ASSUME NEW i \in DOMAIN queue', i > n PROVE ~ImageAt(i, q)'
    BY DEF NoImage
  <2>1. CASE i \in DOMAIN queue
    BY <1>2, <1>3, <2>1 DEF NoImage, ImageAt
  <2>2. CASE i = Len(queue) + 1
    BY <1>2, <1>3, <2>2 DEF ImageAt
  <2> QED
    BY <1>2, <2>1, <2>2
<1>4. ASSUME NEW q \in Pids, NEW j \in DOMAIN queue', ExitAt(j, q)'
      PROVE  Dead(q)' /\ NoImage(q, j)'
  <2>1. CASE j \in DOMAIN queue
    <3>1. j \in Nat /\ ExitAt(j, q)
      BY <1>2, <1>4, <2>1 DEF ExitAt
    <3> QED
      BY <1>3, <2>1, <3>1 DEF GoneInv, Exits
  <2>2. CASE j = Len(queue) + 1
    <3>1. kind = "EXEC_destroy" /\ p = q
      BY <1>2, <1>4, <2>2 DEF ExitAt
    <3> QED
      BY <1>2, <2>2, <3>1 DEF NoImage
  <2> QED
    BY <1>2, <2>1, <2>2
<1>5. Ends'
  BY <1>1, <1>3 DEF GoneInv, Ends, Closed
<1> QED
  BY <1>4, <1>5 DEF GoneInv, Exits

\* Nothing the invariant speaks of changes.
LEMMA GoneFrame ==
    ASSUME GoneInv, UNCHANGED <<living, started, queue, proc_infos>>
    PROVE  GoneInv'
BY DEF GoneInv, Exits, ExitAt, Ends, Dead, NoImage, ImageAt, Closed

LEMMA GoneTraced ==
    ASSUME Reuses = FALSE
    PROVE  Typed /\ GoneInv /\ Traced => GoneInv'
<1> SUFFICES ASSUME Typed, GoneInv, Traced PROVE GoneInv'
  OBVIOUS
<1> USE DEF Kinds, ProcessKinds
<1>1. ASSUME NEW p \in Pids, SystemExec(p)
      PROVE  GoneInv'
  <2>1. \A q : Dead(q) => Dead(q)'
    BY <1>1 DEF SystemExec, Dead
  <2> QED
    BY <1>1, <2>1, FirstTyped, GoneRaise DEF SystemExec
<1>2. ASSUME NEW p \in Pids, SystemExit(p)
      PROVE  GoneInv'
  <2>1. (\A q : Dead(q) => Dead(q)') /\ Dead(p)'
    BY <1>2 DEF SystemExit, Dead, Typed
  <2> QED
    BY <1>2, <2>1, FirstTyped, GoneRaise DEF SystemExit
<1>3. ASSUME NEW p \in Pids, NEW f \in Files, NEW s \in ImageSlots, SystemMapImage(p, f, s)
      PROVE  GoneInv'
  <2>1. (\A q : Dead(q) => Dead(q)') /\ ~Dead(p)
    BY <1>3 DEF SystemMapImage, Map, Dead
  <2> QED
    BY <1>3, <2>1, GoneRaise DEF SystemMapImage, Slots
<1>4. ASSUME NEW f \in Files, NEW s \in DriverSlots, SystemLoadDriver(f, s)
      PROVE  GoneInv'
  <2>1. \A q : Dead(q) => Dead(q)'
    BY <1>4 DEF SystemLoadDriver, Map, Dead
  <2> QED
    BY <1>4, <2>1, GoneRaise DEF SystemLoadDriver, Slots
<1>5. ASSUME NEW m \in mapped, SystemUnloadDriver(m)
      PROVE  GoneInv'
  <2>1. /\ \A q : Dead(q) => Dead(q)'
        /\ m.file \in Files /\ m.slot \in Slots
    BY <1>5 DEF SystemUnloadDriver, Dead, Typed, Mapping
  <2> QED
    BY <1>5, <2>1, GoneRaise DEF SystemUnloadDriver
<1>6. ASSUME NEW m \in mapped, SystemUnmapImage(m)
      PROVE  GoneInv'
  BY <1>6, GoneFrame DEF SystemUnmapImage, tables
<1>7. CASE Tick
  BY <1>7, GoneFrame DEF Tick, system, tables
<1> QED
  BY <1>1, <1>2, <1>3, <1>4, <1>5, <1>6, <1>7 DEF Traced

\* The changes of an entry, and what they make of its end.
LEMMA EntryEnds ==
    ASSUME Typed, NEW info \in Info, NEW f, NEW s
    PROVE  /\ Begun(info).end_time = info.end_time /\ (Closed(info) => Closed(Begun(info)))
           /\ Closed(Ended(info))
           /\ WithModule(info, f, s).end_time = info.end_time
<1> DEFINE MS == Seq(Module(ImageSlots))
           INFO == [proc_id : Pids, start_time : 0 .. MaxTime, end_time : 0 .. MaxTime, modules : MS]
           begun == [k \in DOMAIN info.modules |-> [info.modules[k] EXCEPT !.start_time = clock]]
           ended == [k \in DOMAIN info.modules |-> [info.modules[k] EXCEPT !.end_time = clock]]
<1>1. info \in INFO /\ clock # 0
  BY ClockTyped DEF Info
<1>2. \A k \in DOMAIN info.modules : info.modules[k] \in Module(ImageSlots)
  BY DEF Info
<1>3. \A k \in DOMAIN info.modules : info.modules[k].end_time # 0 => begun[k].end_time # 0
  BY <1>2 DEF Module
<1>4. \A k \in DOMAIN info.modules : ended[k].end_time # 0
  BY <1>1, <1>2 DEF Module
<1>5. DOMAIN begun = DOMAIN info.modules /\ DOMAIN ended = DOMAIN info.modules
  OBVIOUS
<1> HIDE DEF MS, begun, ended
<1>6. Begun(info).modules = begun /\ Begun(info).end_time = info.end_time
  BY <1>1 DEF Begun, begun
<1>7. Ended(info).modules = ended
  BY <1>1 DEF Ended, ended
<1>8. WithModule(info, f, s).end_time = info.end_time
  BY <1>1 DEF WithModule
<1> QED
  BY <1>3, <1>4, <1>5, <1>6, <1>7, <1>8 DEF Closed

\* What an event makes of an entry.
Changed(e, info) ==
    CASE info.proc_id = e.pid /\ e.kind = "PROC_exec" -> Begun(info)
      [] info.proc_id = e.pid /\ e.kind = "EXEC_destroy" -> Ended(info)
      [] info.proc_id = e.pid /\ e.kind = "EXEC_module_load" -> WithModule(info, e.file, e.slot)
      [] OTHER -> info

\* The receiver changes the table of the event's process, or adds one.
LEMMA ReceiveEntries ==
    ASSUME TypeInv, NEW e \in Event, process_proc_module_info(e), NEW k \in DOMAIN proc_infos'
    PROVE  \/ /\ k \in DOMAIN proc_infos /\ proc_infos[k] \in Info
              /\ proc_infos'[k] = Changed(e, proc_infos[k])
           \/ /\ e.kind = "PROC_exec" /\ ~Known(e.pid) /\ k \notin DOMAIN proc_infos
              /\ proc_infos'[k] =
                    [proc_id |-> e.pid, start_time |-> clock, end_time |-> 0, modules |-> <<>>]
<1> DEFINE t == TableOf(e.pid)
<1>0. /\ proc_infos \in Seq(Info) /\ Typed /\ OneTable
      /\ \A j \in DOMAIN proc_infos : proc_infos[j] \in Info
  BY DEF TypeInv, Typed
<1>1. \A j \in DOMAIN proc_infos : proc_infos[j].proc_id = e.pid => j = t /\ Known(e.pid)
  BY <1>0, TableIs DEF Known
<1>2. Known(e.pid) => t \in DOMAIN proc_infos /\ proc_infos[t].proc_id = e.pid
  BY <1>0, TableKnown
<1> HIDE DEF t
<1>3. CASE e.kind = "PROC_exec" /\ ProcessCreated(e.pid)
  <2>1. CASE Known(e.pid)
    <3>1. proc_infos' = [proc_infos EXCEPT ![t] = Begun(proc_infos[t])]
      BY <1>3, <2>1 DEF ProcessCreated, t
    <3> QED
      BY <1>0, <1>1, <1>2, <1>3, <2>1, <3>1 DEF Changed
  <2>2. CASE ~Known(e.pid)
    <3>1. proc_infos' = Append(proc_infos, [proc_id |-> e.pid, start_time |-> clock,
                                            end_time |-> 0, modules |-> <<>>])
      BY <1>3, <2>2 DEF ProcessCreated
    <3> QED
      BY <1>0, <1>1, <1>3, <2>2, <3>1 DEF Changed
  <2> QED
    BY <2>1, <2>2
<1>4. CASE e.kind = "EXEC_destroy" /\ ProcessExited(e.pid)
  <2>1. CASE Known(e.pid)
    <3>1. proc_infos' = [proc_infos EXCEPT ![t] = Ended(proc_infos[t])]
      BY <1>4, <2>1 DEF ProcessExited, t
    <3> QED
      BY <1>0, <1>1, <1>2, <1>4, <2>1, <3>1 DEF Changed
  <2>2. CASE ~Known(e.pid)
    BY <1>0, <1>1, <1>4, <2>2 DEF ProcessExited, Changed
  <2> QED
    BY <2>1, <2>2
<1>5. CASE e.kind = "EXEC_module_load" /\ ImageLoaded(e.pid, e.file, e.slot)
  <2>1. CASE Known(e.pid)
    <3>1. proc_infos' = [proc_infos EXCEPT ![t] = WithModule(proc_infos[t], e.file, e.slot)]
      BY <1>5, <2>1 DEF ImageLoaded, t
    <3> QED
      BY <1>0, <1>1, <1>2, <1>5, <2>1, <3>1 DEF Changed
  <2>2. CASE ~Known(e.pid)
    BY <1>0, <1>1, <1>5, <2>2 DEF ImageLoaded, Changed
  <2> QED
    BY <2>1, <2>2
<1>6. CASE e.kind \in {"SYS_load_mod", "SYS_unload_mod"} /\ UNCHANGED proc_infos
  BY <1>0, <1>6 DEF Changed
<1> QED
  BY <1>3, <1>4, <1>5, <1>6 DEF process_proc_module_info

LEMMA GoneReceive == TypeInv /\ GoneInv /\ (ProcessEvent \/ DropEvent) => GoneInv'
<1> SUFFICES ASSUME TypeInv, GoneInv, ProcessEvent \/ DropEvent PROVE GoneInv'
  OBVIOUS
<1>0. Typed /\ OneTable /\ proc_infos \in Seq(Info)
  BY DEF TypeInv, Typed
<1>1. PICK e \in Event :
        /\ queue # <<>> /\ e = Head(queue) /\ queue' = Tail(queue)
        /\ UNCHANGED <<clock, system, history, settled, process_log_sw>>
        /\ process_proc_module_info(e) \/ UNCHANGED tables
  BY <1>0, ReceiveCases
<1>2. /\ Len(queue') \in Nat /\ Len(queue) = Len(queue') + 1
      /\ DOMAIN queue = 1 .. Len(queue) /\ DOMAIN queue' = 1 .. Len(queue')
      /\ e = queue[1]
      /\ \A j \in 1 .. Len(queue') : queue'[j] = queue[j + 1]
  BY <1>0, <1>1, Dequeued
<1>3. ASSUME NEW q, NEW n \in Nat, NoImage(q, n + 1)
      PROVE  NoImage(q, n)'
  <2> SUFFICES ASSUME NEW i \in DOMAIN queue', i > n PROVE ~ImageAt(i, q)'
    BY DEF NoImage
  <2>1. i + 1 \in DOMAIN queue /\ i + 1 > n + 1 /\ queue'[i] = queue[i + 1]
    BY <1>2
  <2> QED
    BY <1>3, <2>1 DEF NoImage, ImageAt
<1>4. \A q : Dead(q)' <=> Dead(q)
  BY <1>1 DEF Dead, system
<1>5. ASSUME NEW q \in Pids, NEW j \in DOMAIN queue', ExitAt(j, q)'
      PROVE  Dead(q)' /\ NoImage(q, j)'
  <2>1. j \in Nat /\ j + 1 \in DOMAIN queue /\ ExitAt(j + 1, q)
    BY <1>2, <1>5 DEF ExitAt
  <2>2. Dead(q) /\ NoImage(q, j + 1)
    BY <2>1 DEF GoneInv, Exits
  <2> QED
    BY <1>3, <1>4, <2>1, <2>2
<1>6. \A q : NoImage(q, 0) => NoImage(q, 0)'
  <2>1. \A q : NoImage(q, 0) => NoImage(q, 0 + 1)
    BY <1>2 DEF NoImage
  <2> QED
    BY <1>3, <2>1
<1>7. ASSUME NEW q \in Pids, NEW k \in DOMAIN proc_infos',
             proc_infos'[k].proc_id = q, proc_infos'[k].end_time # 0
      PROVE  Dead(q)' /\ NoImage(q, 0)' /\ Closed(proc_infos[k])'
  <2>1. CASE UNCHANGED tables
    BY <1>4, <1>6, <1>7, <2>1 DEF tables, GoneInv, Ends, Closed
  <2>2. CASE process_proc_module_info(e)
    <3>1. PICK info \in Info :
            k \in DOMAIN proc_infos /\ info = proc_infos[k] /\ proc_infos'[k] = Changed(e, info)
      BY <1>0, <1>7, <2>2, ReceiveEntries DEF TypeInv
    <3>2. Closed(proc_infos[k])' <=> Closed(Changed(e, info))
      BY <3>1 DEF Closed
    <3>3. info.proc_id = q
      <4>1. info \in [proc_id : Pids, start_time : 0 .. MaxTime, end_time : 0 .. MaxTime,
                        modules : Seq(Module(ImageSlots))]
        BY DEF Info
      <4>2. /\ Begun(info).proc_id = info.proc_id /\ Ended(info).proc_id = info.proc_id
            /\ WithModule(info, e.file, e.slot).proc_id = info.proc_id
        BY <4>1 DEF Begun, Ended, WithModule
      <4>3. Changed(e, info).proc_id = info.proc_id
        BY <4>2 DEF Changed
      <4> QED
        BY <1>7, <3>1, <4>3
    <3>4. CASE info.end_time # 0
      <4>1. Dead(q) /\ NoImage(q, 0) /\ Closed(info)
        BY <3>1, <3>3, <3>4 DEF GoneInv, Ends
      <4>2. ~(e.kind = "EXEC_module_load" /\ e.pid = q)
        BY <1>2, <4>1 DEF NoImage, ImageAt
      <4>3. Closed(Changed(e, info))
        BY <1>0, <3>3, <4>1, <4>2, EntryEnds DEF Changed
      <4> QED
        BY <1>4, <1>6, <3>2, <4>1, <4>3
    <3>5. CASE info.end_time = 0
      <4>1. e.kind = "EXEC_destroy" /\ e.pid = q
        BY <1>0, <1>7, <3>1, <3>3, <3>5, EntryEnds DEF Changed, Event
      <4>2. Dead(q) /\ NoImage(q, 1) /\ Closed(Changed(e, info))
        BY <1>0, <1>2, <3>3, <4>1, EntryEnds
           DEF Changed, GoneInv, Exits, ExitAt
      <4> QED
        BY <1>3, <1>4, <3>2, <4>2
    <3> QED
      BY <3>4, <3>5
  <2> QED
    BY <1>1, <2>1, <2>2
<1> QED
  BY <1>5, <1>7 DEF GoneInv, Exits, Ends

LEMMA GoneInvariant ==
    ASSUME Reuses = FALSE
    PROVE  Spec => []GoneInv
<1>1. GoneInv /\ (SwitchLog \/ UNCHANGED vars) => GoneInv'
  BY GoneFrame DEF SwitchLog, vars, system, tables
<1>2. TypeInv /\ GoneInv /\ [Next]_vars => GoneInv'
  BY <1>1, GoneTraced, GoneReceive DEF Next, TypeInv
<1> QED
  BY <1>2, GoneInit, TypeInvariant, PTL DEF Spec

\* While no process number comes back: every variable keeps its type, no
\* process has two tables, and every module of a table that was ended is
\* closed, also when the log is switched off and on in between.
THEOREM TypeCorrect ==
    ASSUME Reuses = FALSE
    PROVE  Spec => []TypeOK
<1>1. TypeInv /\ GoneInv => TypeOK
  <2> SUFFICES ASSUME Typed, OneTable, GoneInv PROVE TypeOK
    BY DEF TypeInv
  <2>1. \A k \in DOMAIN proc_infos : proc_infos[k] \in Info /\ TableOf(proc_infos[k].proc_id) = k
    BY TableIs DEF Typed
  <2>2. ASSUME NEW k \in DOMAIN proc_infos, proc_infos[k].end_time # 0
        PROVE  \A m \in ToSet(proc_infos[k].modules) : m.end_time # 0
    <3>1. Closed(proc_infos[k])
      BY <2>1, <2>2 DEF GoneInv, Ends, Info
    <3> QED
      BY <3>1 DEF Closed, ToSet
  <2>3. queue \in Seq([kind : Kinds, pid : Pids \cup {Kernel}, file : Files, slot : Slots])
    <3> DEFINE EV == [kind : Kinds, pid : Pids \cup {Kernel}, file : Files, slot : Slots]
    <3>1. Event \subseteq EV
      BY DEF Event
    <3> HIDE DEF EV
    <3>2. queue \in Seq(EV)
      BY <3>1 DEF Typed
    <3> QED
      BY <3>2 DEF EV
  <2> QED
    BY <2>1, <2>2, <2>3 DEF TypeOK, Typed, Info, Occupancy
<1>2. Spec => []GoneInv
  BY GoneInvariant
<1> QED
  BY <1>1, <1>2, TypeInvariant, PTL
====

---- MODULE ModuleFramesProofs ----
(***************************************************************************)
(* What the tables of modules name: while the log is on, at most one entry *)
(* of a driver is open when its unloading is handled, and once the         *)
(* receiver has caught up, a frame is named by a module that occupied the  *)
(* address.                                                                *)
(***************************************************************************)
EXTENDS ModuleInfoProofs, WellFoundedInduction

Driver(f, s) == [at |-> Kernel, file |-> f, slot |-> s]

DriverAt(j, f, s) == queue[j].kind = "SYS_load_mod" /\ queue[j].file = f /\ queue[j].slot = s
UnloadAt(j, f) == queue[j].kind = "SYS_unload_mod" /\ queue[j].file = f

\* The unloading of a file waits behind place i, and before place j.
After(i, f) == \E h \in DOMAIN queue : i < h /\ UnloadAt(h, f)
Between(i, j, f) == \E h \in DOMAIN queue : i < h /\ h < j /\ UnloadAt(h, f)

OpenAt(k, f, s) ==
    /\ kernel_modules[k].file_name = f /\ kernel_modules[k].base_addr = s
    /\ kernel_modules[k].end_time = 0

-----------------------------------------------------------------------------
(* The queue moves and grows. *)

LEMMA Moved ==
    ASSUME Typed, queue # <<>>, queue' = Tail(queue), NEW f
    PROVE  /\ \A j \in DOMAIN queue' :
                /\ j + 1 \in DOMAIN queue /\ j \in Nat /\ j >= 1
                /\ \A s : DriverAt(j, f, s)' <=> DriverAt(j + 1, f, s)
           /\ \A i \in Nat :
                /\ After(i, f)' <=> After(i + 1, f)
                /\ \A j \in Nat : Between(i, j, f)' <=> Between(i + 1, j + 1, f)
           /\ After(0, f)' <=> After(1, f)
           /\ \A j \in Nat : Between(0, j, f)' <=> Between(1, j + 1, f)
<1>1. /\ Len(queue') \in Nat /\ Len(queue) = Len(queue') + 1
      /\ DOMAIN queue = 1 .. Len(queue) /\ DOMAIN queue' = 1 .. Len(queue')
      /\ \A j \in DOMAIN queue' : queue'[j] = queue[j + 1]
  BY Dequeued
<1>2. \A j \in DOMAIN queue' :
        /\ j + 1 \in DOMAIN queue /\ j \in Nat /\ j >= 1
        /\ \A s : DriverAt(j, f, s)' <=> DriverAt(j + 1, f, s)
        /\ UnloadAt(j, f)' <=> UnloadAt(j + 1, f)
  BY <1>1 DEF DriverAt, UnloadAt
<1>3. ASSUME NEW i \in Nat, NEW h \in DOMAIN queue, i + 1 < h
      PROVE  h - 1 \in DOMAIN queue' /\ i < h - 1 /\ (UnloadAt(h - 1, f)' <=> UnloadAt(h, f))
  <2>1. h - 1 \in DOMAIN queue' /\ (h - 1) + 1 = h /\ i < h - 1
    BY <1>1, <1>3
  <2> QED
    BY <1>2, <2>1
<1>4. \A i \in Nat : After(i, f)' <=> After(i + 1, f)
  BY <1>2, <1>3 DEF After
<1>5. ASSUME NEW i \in Nat, NEW j \in Nat
      PROVE  Between(i, j, f)' <=> Between(i + 1, j + 1, f)
  <2>1. ASSUME Between(i, j, f)' PROVE Between(i + 1, j + 1, f)
    BY <1>2, <2>1 DEF Between
  <2>2. ASSUME Between(i + 1, j + 1, f) PROVE Between(i, j, f)'
    <3>1. PICK h \in DOMAIN queue : i + 1 < h /\ h < j + 1 /\ UnloadAt(h, f)
      BY <2>2 DEF Between
    <3>2. h - 1 < j
      BY <1>1, <3>1
    <3> QED
      BY <1>3, <3>1, <3>2 DEF Between
  <2> QED
    BY <2>1, <2>2
<1>6. \A i, n \in Nat : n = i + 1 =>
        /\ After(i, f)' <=> After(n, f)
        /\ \A j \in Nat : Between(i, j, f)' <=> Between(n, j + 1, f)
  BY <1>4, <1>5
<1>7. /\ After(0, f)' <=> After(1, f)
      /\ \A j \in Nat : Between(0, j, f)' <=> Between(1, j + 1, f)
  <2>1. 0 \in Nat /\ 1 \in Nat /\ 1 = 0 + 1
    OBVIOUS
  <2> QED
    BY <1>6, <2>1
<1> QED
  BY <1>2, <1>4, <1>5, <1>7

LEMMA Grown ==
    ASSUME Typed, NEW e \in Event, queue' = Append(queue, e), NEW f
    PROVE  \E last \in Nat :
           /\ DOMAIN queue = 1 .. last /\ DOMAIN queue' = 1 .. last + 1
           /\ \A j \in 1 .. last : \A s : DriverAt(j, f, s)' <=> DriverAt(j, f, s)
           /\ \A s : DriverAt(last + 1, f, s)' <=>
                        e.kind = "SYS_load_mod" /\ e.file = f /\ e.slot = s
           /\ \A i \in 0 .. last :
                After(i, f)' <=> After(i, f) \/ (e.kind = "SYS_unload_mod" /\ e.file = f)
           /\ ~After(last + 1, f)'
           /\ \A i \in Nat : \A j \in 1 .. last + 1 : Between(i, j, f)' <=> Between(i, j, f)
           /\ \A i \in Nat : Between(i, last + 1, f) <=> After(i, f)
<1>1. PICK last \in Nat :
        /\ DOMAIN queue = 1 .. last /\ DOMAIN queue' = 1 .. last + 1
        /\ queue'[last + 1] = e
        /\ \A j \in 1 .. last : queue'[j] = queue[j]
  BY Enqueued
<1>2. /\ \A j \in 1 .. last :
            /\ \A s : DriverAt(j, f, s)' <=> DriverAt(j, f, s)
            /\ UnloadAt(j, f)' <=> UnloadAt(j, f)
      /\ \A s : DriverAt(last + 1, f, s)' <=> e.kind = "SYS_load_mod" /\ e.file = f /\ e.slot = s
  BY <1>1 DEF DriverAt, UnloadAt
<1>3. ASSUME NEW h \in 1 .. last + 1
      PROVE  UnloadAt(h, f)' <=>
                \/ h \in 1 .. last /\ UnloadAt(h, f)
                \/ h = last + 1 /\ e.kind = "SYS_unload_mod" /\ e.file = f
  <2>1. CASE h \in 1 .. last
    BY <1>2, <2>1
  <2>2. CASE h = last + 1
    BY <1>1, <2>2 DEF UnloadAt
  <2> QED
    BY <2>1, <2>2
<1>4. ASSUME NEW i \in 0 .. last
      PROVE  After(i, f)' <=> After(i, f) \/ (e.kind = "SYS_unload_mod" /\ e.file = f)
  BY <1>1, <1>3 DEF After
<1>5. ~After(last + 1, f)'
  BY <1>1 DEF After
<1>6. ASSUME NEW i \in Nat, NEW j \in 1 .. last + 1
      PROVE  Between(i, j, f)' <=> Between(i, j, f)
  BY <1>1, <1>3 DEF Between
<1>7. \A i \in Nat : Between(i, last + 1, f) <=> After(i, f)
  BY <1>1 DEF Between, After
<1> QED
  BY <1>1, <1>2, <1>4, <1>5, <1>6, <1>7

-----------------------------------------------------------------------------
(* One entry of a driver is open: between two loadings of a file there is  *)
(* an unloading, handled or still in the queue.                            *)

MappedOnce == \A m, n \in mapped : m.at = Kernel /\ n.at = Kernel /\ m.file = n.file => m = n

LoadsMapped == \A f \in Files, s \in Slots :
    /\ \A k \in DOMAIN kernel_modules : OpenAt(k, f, s) => Driver(f, s) \in mapped \/ After(0, f)
    /\ \A j \in DOMAIN queue : DriverAt(j, f, s) => Driver(f, s) \in mapped \/ After(j, f)

LoadsApart == \A f \in Files, s, t \in Slots :
    /\ \A j, k \in DOMAIN kernel_modules : OpenAt(j, f, s) /\ OpenAt(k, f, t) => j = k
    /\ \A k \in DOMAIN kernel_modules, j \in DOMAIN queue :
        OpenAt(k, f, s) /\ DriverAt(j, f, t) => Between(0, j, f)
    /\ \A i, j \in DOMAIN queue :
        i < j /\ DriverAt(i, f, s) /\ DriverAt(j, f, t) => Between(i, j, f)

OpenInv == MappedOnce /\ LoadsMapped /\ LoadsApart

\* What an event makes of the table of the kernel.
LEMMA ReceiveDrivers ==
    ASSUME Typed, NEW e \in Event, process_proc_module_info(e)
    PROVE  \E n \in Nat :
            /\ DOMAIN kernel_modules = 1 .. n
            /\ \A k \in 1 .. n : kernel_modules[k] \in Module(DriverSlots)
            /\ \/ /\ e.kind = "SYS_load_mod" /\ DOMAIN kernel_modules' = 1 .. n + 1
                  /\ \A k \in 1 .. n : kernel_modules'[k] = kernel_modules[k]
                  /\ kernel_modules'[n + 1] = NewModule(e.file, e.slot)
               \/ /\ e.kind = "SYS_unload_mod" /\ DOMAIN kernel_modules' = 1 .. n
                  /\ \A k \in 1 .. n :
                        kernel_modules'[k] =
                            IF kernel_modules[k].file_name = e.file /\ kernel_modules[k].end_time = 0
                            THEN [kernel_modules[k] EXCEPT !.end_time = clock]
                            ELSE kernel_modules[k]
               \/ e.kind \notin {"SYS_load_mod", "SYS_unload_mod"} /\ UNCHANGED kernel_modules
<1>0. PICK n \in Nat : Len(kernel_modules) = n /\ DOMAIN kernel_modules = 1 .. n
                       /\ \A k \in 1 .. n : kernel_modules[k] \in Module(DriverSlots)
  BY DEF Typed
<1>1. CASE e.kind = "SYS_load_mod"
  <2>1. kernel_modules' = Append(kernel_modules, NewModule(e.file, e.slot))
    BY <1>1 DEF process_proc_module_info
  <2> DEFINE S == Module(DriverSlots)
             new == NewModule(e.file, e.slot)
  <2>2. kernel_modules \in Seq(S)
    BY DEF Typed
  <2> HIDE DEF S, new
  <2>3. /\ DOMAIN kernel_modules' = 1 .. n + 1
        /\ \A k \in 1 .. n : kernel_modules'[k] = kernel_modules[k]
        /\ kernel_modules'[n + 1] = new
    BY <1>0, <2>1, <2>2 DEF new
  <2> QED
    BY <1>0, <1>1, <2>3 DEF new
<1>2. CASE e.kind = "SYS_unload_mod"
  <2>1. kernel_modules' = Unloaded(kernel_modules, e.file)
    BY <1>2 DEF process_proc_module_info
  <2> QED
    BY <1>0, <1>2, <2>1 DEF Unloaded
<1>3. CASE e.kind \notin {"SYS_load_mod", "SYS_unload_mod"}
  BY <1>0, <1>3 DEF process_proc_module_info
<1> QED
  BY <1>1, <1>2, <1>3

\* Which entries of the kernel are open afterwards.
LEMMA ReceiveOpen ==
    ASSUME Typed, NEW e \in Event, process_proc_module_info(e)
    PROVE  \E n \in Nat :
            /\ DOMAIN kernel_modules = 1 .. n
            /\ \/ /\ e.kind = "SYS_load_mod" /\ DOMAIN kernel_modules' = 1 .. n + 1
                  /\ \A k \in 1 .. n : \A f, s : OpenAt(k, f, s)' <=> OpenAt(k, f, s)
                  /\ \A f, s : OpenAt(n + 1, f, s)' <=> f = e.file /\ s = e.slot
               \/ /\ e.kind = "SYS_unload_mod" /\ DOMAIN kernel_modules' = 1 .. n
                  /\ \A k \in 1 .. n : \A f, s : OpenAt(k, f, s)' <=> OpenAt(k, f, s) /\ f # e.file
               \/ /\ e.kind \notin {"SYS_load_mod", "SYS_unload_mod"}
                  /\ DOMAIN kernel_modules' = 1 .. n
                  /\ \A k \in 1 .. n : \A f, s : OpenAt(k, f, s)' <=> OpenAt(k, f, s)
<1>1. PICK n \in Nat :
            /\ DOMAIN kernel_modules = 1 .. n
            /\ \A k \in 1 .. n : kernel_modules[k] \in Module(DriverSlots)
            /\ \/ /\ e.kind = "SYS_load_mod" /\ DOMAIN kernel_modules' = 1 .. n + 1
                  /\ \A k \in 1 .. n : kernel_modules'[k] = kernel_modules[k]
                  /\ kernel_modules'[n + 1] = NewModule(e.file, e.slot)
               \/ /\ e.kind = "SYS_unload_mod" /\ DOMAIN kernel_modules' = 1 .. n
                  /\ \A k \in 1 .. n :
                        kernel_modules'[k] =
                            IF kernel_modules[k].file_name = e.file /\ kernel_modules[k].end_time = 0
                            THEN [kernel_modules[k] EXCEPT !.end_time = clock]
                            ELSE kernel_modules[k]
               \/ e.kind \notin {"SYS_load_mod", "SYS_unload_mod"} /\ UNCHANGED kernel_modules
  BY ReceiveDrivers
<1>2. ASSUME NEW k \in 1 .. n, kernel_modules'[k] = kernel_modules[k]
      PROVE  \A f, s : OpenAt(k, f, s)' <=> OpenAt(k, f, s)
  BY <1>2 DEF OpenAt
<1>3. CASE e.kind = "SYS_load_mod"
  <2>1. NewModule(e.file, e.slot).end_time = 0 /\ NewModule(e.file, e.slot).file_name = e.file
        /\ NewModule(e.file, e.slot).base_addr = e.slot
    BY DEF NewModule
  <2>2. \A f, s : OpenAt(n + 1, f, s)' <=> f = e.file /\ s = e.slot
    BY <1>1, <1>3, <2>1 DEF OpenAt
  <2> QED
    BY <1>1, <1>2, <1>3, <2>2
<1>4. CASE e.kind = "SYS_unload_mod"
  <2>1. ASSUME NEW k \in 1 .. n, NEW f, NEW s
        PROVE  OpenAt(k, f, s)' <=> OpenAt(k, f, s) /\ f # e.file
    <3>1. CASE kernel_modules[k].file_name = e.file /\ kernel_modules[k].end_time = 0
      <4>1. kernel_modules'[k].end_time = clock /\ clock # 0
        BY <1>1, <1>4, <3>1, ClockTyped DEF Module
      <4> QED
        BY <3>1, <4>1 DEF OpenAt
    <3>2. CASE ~(kernel_modules[k].file_name = e.file /\ kernel_modules[k].end_time = 0)
      <4>1. kernel_modules'[k] = kernel_modules[k]
        BY <1>1, <1>4, <3>2
      <4> QED
        BY <3>2, <4>1 DEF OpenAt
    <3> QED
      BY <3>1, <3>2
  <2> QED
    BY <1>1, <1>4, <2>1
<1>5. CASE e.kind \notin {"SYS_load_mod", "SYS_unload_mod"}
  BY <1>1, <1>2, <1>5
<1> QED
  BY <1>3, <1>4, <1>5

LEMMA OpenInit == Init => OpenInv
<1> SUFFICES ASSUME Init PROVE OpenInv
  OBVIOUS
<1>1. /\ DOMAIN kernel_modules = {1} /\ DOMAIN queue = {}
      /\ \A f, s : OpenAt(1, f, s) => f = FirstFile /\ s = FirstSlot(Kernel)
  BY TablesAssumption DEF Init, SnapshotModules, OpenAt
<1>2. \A m \in mapped : m = [at |-> m.at, file |-> FirstFile, slot |-> FirstSlot(m.at)]
  BY DEF Init, Running
<1>3. Driver(FirstFile, FirstSlot(Kernel)) \in mapped
  BY DEF Init, Running, Driver
<1> QED
  BY <1>1, <1>2, <1>3 DEF OpenInv, MappedOnce, LoadsMapped, LoadsApart

\* The first event of the queue is handled.
LEMMA OpenReceive == Typed /\ process_log_sw = TRUE /\ OpenInv /\ ProcessEvent => OpenInv'
<1> SUFFICES ASSUME Typed, process_log_sw = TRUE, OpenInv, ProcessEvent PROVE OpenInv'
  OBVIOUS
<1>1. PICK e \in Event :
        /\ queue # <<>> /\ e = Head(queue) /\ queue' = Tail(queue)
        /\ UNCHANGED <<clock, system, history, settled, process_log_sw>>
        /\ process_proc_module_info(e)
  BY ReceiveCases
<1>2. /\ 1 \in DOMAIN queue
      /\ \A f, s : DriverAt(1, f, s) <=> e.kind = "SYS_load_mod" /\ e.file = f /\ e.slot = s
      /\ \A f : UnloadAt(1, f) <=> e.kind = "SYS_unload_mod" /\ e.file = f
  BY <1>1, Dequeued DEF DriverAt, UnloadAt
<1>3. \A f : /\ \A j \in DOMAIN queue' :
                  /\ j + 1 \in DOMAIN queue /\ j \in Nat /\ j >= 1
                  /\ \A s : DriverAt(j, f, s)' <=> DriverAt(j + 1, f, s)
             /\ \A i \in Nat :
                  /\ After(i, f)' <=> After(i + 1, f)
                  /\ \A j \in Nat : Between(i, j, f)' <=> Between(i + 1, j + 1, f)
             /\ After(0, f)' <=> After(1, f)
             /\ \A j \in Nat : Between(0, j, f)' <=> Between(1, j + 1, f)
  BY <1>1, Moved
<1>4. DOMAIN queue \subseteq Nat /\ \A i \in DOMAIN queue : i >= 1
  BY DEF Typed
<1>5. \A f : /\ After(0, f) => After(1, f) \/ (e.kind = "SYS_unload_mod" /\ e.file = f)
             /\ \A j \in Nat : Between(0, j, f) =>
                    Between(1, j, f) \/ (e.kind = "SYS_unload_mod" /\ e.file = f)
  BY <1>2, <1>4 DEF After, Between
<1>6. PICK n \in Nat :
            /\ DOMAIN kernel_modules = 1 .. n
            /\ \/ /\ e.kind = "SYS_load_mod" /\ DOMAIN kernel_modules' = 1 .. n + 1
                  /\ \A k \in 1 .. n : \A f, s : OpenAt(k, f, s)' <=> OpenAt(k, f, s)
                  /\ \A f, s : OpenAt(n + 1, f, s)' <=> f = e.file /\ s = e.slot
               \/ /\ e.kind = "SYS_unload_mod" /\ DOMAIN kernel_modules' = 1 .. n
                  /\ \A k \in 1 .. n : \A f, s : OpenAt(k, f, s)' <=> OpenAt(k, f, s) /\ f # e.file
               \/ /\ e.kind \notin {"SYS_load_mod", "SYS_unload_mod"}
                  /\ DOMAIN kernel_modules' = 1 .. n
                  /\ \A k \in 1 .. n : \A f, s : OpenAt(k, f, s)' <=> OpenAt(k, f, s)
  BY <1>1, ReceiveOpen
<1>7. ASSUME NEW f \in Files, NEW s \in Slots, NEW k \in DOMAIN kernel_modules', OpenAt(k, f, s)'
      PROVE  \/ k \in 1 .. n /\ OpenAt(k, f, s) /\ ~(e.kind = "SYS_unload_mod" /\ e.file = f)
             \/ k = n + 1 /\ DriverAt(1, f, s)
  BY <1>2, <1>6, <1>7
<1>8. MappedOnce'
  BY <1>1 DEF OpenInv, MappedOnce, system
<1>9. mapped' = mapped
  BY <1>1 DEF system
<1>10. ASSUME NEW f \in Files, NEW s \in Slots
       PROVE  /\ \A k \in DOMAIN kernel_modules' :
                    OpenAt(k, f, s)' => Driver(f, s) \in mapped' \/ After(0, f)'
              /\ \A j \in DOMAIN queue' :
                    DriverAt(j, f, s)' => Driver(f, s) \in mapped' \/ After(j, f)'
  <2>1. ASSUME NEW k \in DOMAIN kernel_modules', OpenAt(k, f, s)'
        PROVE  Driver(f, s) \in mapped' \/ After(0, f)'
    <3>1. After(0, f)' <=> After(1, f)
      BY <1>3
    <3> QED
      BY <1>2, <1>5, <1>6, <1>7, <1>9, <2>1, <3>1 DEF OpenInv, LoadsMapped
  <2>2. ASSUME NEW j \in DOMAIN queue', DriverAt(j, f, s)'
        PROVE  Driver(f, s) \in mapped' \/ After(j, f)'
    BY <1>3, <1>9, <2>2 DEF OpenInv, LoadsMapped
  <2> QED
    BY <2>1, <2>2
<1>11. ASSUME NEW f \in Files, NEW s \in Slots, NEW t \in Slots
       PROVE  /\ \A j, k \in DOMAIN kernel_modules' : OpenAt(j, f, s)' /\ OpenAt(k, f, t)' => j = k
              /\ \A k \in DOMAIN kernel_modules', j \in DOMAIN queue' :
                    OpenAt(k, f, s)' /\ DriverAt(j, f, t)' => Between(0, j, f)'
              /\ \A i, j \in DOMAIN queue' :
                    i < j /\ DriverAt(i, f, s)' /\ DriverAt(j, f, t)' => Between(i, j, f)'
  <2>0. /\ \A k \in DOMAIN kernel_modules, j \in DOMAIN queue, x, y \in Slots :
                OpenAt(k, f, x) /\ DriverAt(j, f, y) => Between(0, j, f)
        /\ \A i, j \in DOMAIN queue : \A x, y \in Slots :
                i < j /\ DriverAt(i, f, x) /\ DriverAt(j, f, y) => Between(i, j, f)
        /\ \A j, k \in DOMAIN kernel_modules : \A x, y \in Slots :
                OpenAt(j, f, x) /\ OpenAt(k, f, y) => j = k
    BY DEF OpenInv, LoadsApart
  <2>1. ~Between(0, 1, f)
    BY <1>4 DEF Between
  <2>2. ASSUME NEW j \in DOMAIN kernel_modules', NEW k \in DOMAIN kernel_modules',
               OpenAt(j, f, s)', OpenAt(k, f, t)'
        PROVE  j = k
    BY <1>2, <1>6, <1>7, <2>0, <2>1, <2>2
  <2>3. ASSUME NEW k \in DOMAIN kernel_modules', NEW j \in DOMAIN queue',
               OpenAt(k, f, s)', DriverAt(j, f, t)'
        PROVE  Between(0, j, f)'
    <3>1. /\ j + 1 \in DOMAIN queue /\ j \in Nat /\ j >= 1
          /\ DriverAt(j + 1, f, t)
      BY <1>3, <2>3
    <3>2. j + 1 \in Nat /\ 1 < j + 1
      BY <3>1
    <3>3. Between(0, j, f)' <=> Between(1, j + 1, f)
      BY <1>3, <3>1
    <3> QED
      BY <1>2, <1>5, <1>6, <1>7, <2>0, <2>3, <3>1, <3>2, <3>3
  <2>4. ASSUME NEW i \in DOMAIN queue', NEW j \in DOMAIN queue',
               i < j, DriverAt(i, f, s)', DriverAt(j, f, t)'
        PROVE  Between(i, j, f)'
    <3>1. /\ i + 1 \in DOMAIN queue /\ i \in Nat /\ DriverAt(i + 1, f, s)
      BY <1>3, <2>4
    <3>2. /\ j + 1 \in DOMAIN queue /\ j \in Nat /\ DriverAt(j + 1, f, t)
      BY <1>3, <2>4
    <3>3. Between(i, j, f)' <=> Between(i + 1, j + 1, f)
      BY <1>3, <3>1, <3>2
    <3>4. i + 1 < j + 1
      BY <2>4, <3>1, <3>2
    <3> QED
      BY <2>0, <3>1, <3>2, <3>3, <3>4
  <2> QED
    BY <2>2, <2>3, <2>4
<1>12. LoadsMapped'
  BY <1>10 DEF LoadsMapped, Driver
<1>13. LoadsApart'
  BY <1>11 DEF LoadsApart
<1> QED
  BY <1>8, <1>12, <1>13 DEF OpenInv

\* How the traced system moves the drivers: it raises an event, or unmaps an
\* image, or lets the time pass.
Seen(p, s, f, t) == [at |-> p, slot |-> s, file |-> f, time |-> t] \in history

Announces(e) ==
    /\ queue' = Append(queue, e) /\ UNCHANGED <<clock, settled, process_log_sw, tables>>
    /\ \A f \in Files, s \in Slots :
        Driver(f, s) \in mapped' <=>
            \/ Driver(f, s) \in mapped /\ ~(e.kind = "SYS_unload_mod" /\ e.file = f)
            \/ e.kind = "SYS_load_mod" /\ e.file = f /\ e.slot = s
    /\ \A s \in Slots : e.kind = "SYS_load_mod" => Driver(e.file, s) \notin mapped
    /\ \A f \in Files, s \in Slots, t \in Nat :
        Seen(Kernel, s, f, t)' <=>
            \/ Seen(Kernel, s, f, t)
            \/ e.kind = "SYS_load_mod" /\ e.file = f /\ e.slot = s /\ t = clock
    /\ \A h \in history' : h \in history \/ h.time = clock

Still ==
    /\ UNCHANGED <<clock, settled, process_log_sw, tables, history, queue>>
    /\ \A f \in Files, s \in Slots : Driver(f, s) \in mapped' <=> Driver(f, s) \in mapped

LEMMA TracedDrivers ==
    ASSUME Typed, MappedOnce, Traced
    PROVE  MappedOnce' /\ ((\E e \in Event : Announces(e)) \/ Still \/ Tick)
<1> USE DEF Kinds, ProcessKinds, tables
<1>0. \A m \in mapped : m.at = Kernel => m = Driver(m.file, m.slot) /\ m.file \in Files /\ m.slot \in Slots
  BY DEF Typed, Mapping, Driver
<1>1. ASSUME NEW p \in Pids, SystemExec(p) \/ SystemExit(p)
      PROVE  MappedOnce' /\ \E e \in Event : Announces(e)
  <2>1. PICK e \in Event :
            /\ e.kind \in {"PROC_exec", "EXEC_destroy"}
            /\ queue' = Append(queue, e) /\ UNCHANGED <<clock, settled, process_log_sw, tables>>
    BY <1>1, FirstTyped, RaiseTyped DEF SystemExec, SystemExit
  <2>2. p # Kernel
    BY TablesAssumption
  <2>3. history' = history /\ (\A m : m \in mapped' <=> m \in mapped /\ (m.at # p \/ mapped' = mapped))
    BY <1>1 DEF SystemExec, SystemExit
  <2>4. \A f, s : Driver(f, s) \in mapped' <=> Driver(f, s) \in mapped
    BY <2>2, <2>3 DEF Driver
  <2>5. MappedOnce'
    BY <2>3 DEF MappedOnce
  <2> QED
    BY <2>1, <2>3, <2>4, <2>5 DEF Announces, Seen
<1>2. ASSUME NEW p \in Pids, NEW f \in Files, NEW s \in ImageSlots, SystemMapImage(p, f, s)
      PROVE  MappedOnce' /\ \E e \in Event : Announces(e)
  <2>1. PICK e \in Event :
            /\ e.kind = "EXEC_module_load"
            /\ queue' = Append(queue, e) /\ UNCHANGED <<clock, settled, process_log_sw, tables>>
    BY <1>2, RaiseTyped DEF SystemMapImage, Slots
  <2>2. p # Kernel
    BY TablesAssumption
  <2>3. /\ mapped' = mapped \cup {[at |-> p, file |-> f, slot |-> s]}
        /\ history' = history \cup {[at |-> p, slot |-> s, file |-> f, time |-> clock]}
    BY <1>2 DEF SystemMapImage, Map, Place
  <2>4. \A g, x : Driver(g, x) \in mapped' <=> Driver(g, x) \in mapped
    BY <2>2, <2>3 DEF Driver
  <2>5. \A g, x, t : Seen(Kernel, x, g, t)' <=> Seen(Kernel, x, g, t)
    BY <2>2, <2>3 DEF Seen
  <2>6. MappedOnce'
    BY <2>2, <2>3 DEF MappedOnce
  <2> QED
    BY <2>1, <2>3, <2>4, <2>5, <2>6 DEF Announces
<1>3. ASSUME NEW f \in Files, NEW s \in DriverSlots, SystemLoadDriver(f, s)
      PROVE  MappedOnce' /\ \E e \in Event : Announces(e)
  <2>1. PICK e \in Event :
            /\ e.kind = "SYS_load_mod" /\ e.file = f /\ e.slot = s
            /\ queue' = Append(queue, e) /\ UNCHANGED <<clock, settled, process_log_sw, tables>>
    BY <1>3, RaiseTyped DEF SystemLoadDriver, Slots
  <2>2. /\ mapped' = mapped \cup {Driver(f, s)}
        /\ history' = history \cup {[at |-> Kernel, slot |-> s, file |-> f, time |-> clock]}
        /\ \A n \in mapped : n.at = Kernel => n.file # f
    BY <1>3 DEF SystemLoadDriver, Map, Place, Driver
  <2>3. \A g, x : Driver(g, x) = Driver(f, s) <=> g = f /\ x = s
    BY DEF Driver
  <2>4. \A x \in Slots : Driver(f, x) \notin mapped
    BY <2>2 DEF Driver
  <2>5. \A g, x, t : Seen(Kernel, x, g, t)' <=> Seen(Kernel, x, g, t) \/ (g = f /\ x = s /\ t = clock)
    BY <2>2 DEF Seen
  <2>6. MappedOnce'
    <3>1. Driver(f, s).file = f /\ Driver(f, s).at = Kernel
      BY DEF Driver
    <3> QED
      BY <2>2, <3>1 DEF MappedOnce
  <2>7. \A h \in history' : h \in history \/ h.time = clock
    BY <2>2
  <2> QED
    BY <2>1, <2>2, <2>3, <2>4, <2>5, <2>6, <2>7 DEF Announces
<1>4. ASSUME NEW m \in mapped, SystemUnloadDriver(m)
      PROVE  MappedOnce' /\ \E e \in Event : Announces(e)
  <2>0. m = Driver(m.file, m.slot) /\ m.file \in Files /\ m.slot \in Slots /\ m.at = Kernel
    BY <1>0, <1>4 DEF SystemUnloadDriver
  <2>1. PICK e \in Event :
            /\ e.kind = "SYS_unload_mod" /\ e.file = m.file
            /\ queue' = Append(queue, e) /\ UNCHANGED <<clock, settled, process_log_sw, tables>>
    BY <1>4, <2>0, RaiseTyped DEF SystemUnloadDriver
  <2>2. mapped' = mapped \ {m} /\ history' = history
    BY <1>4 DEF SystemUnloadDriver
  <2>3. \A g, x : Driver(g, x) \in mapped' <=> Driver(g, x) \in mapped /\ g # m.file
    <3>1. \A g, x : Driver(g, x) \in mapped /\ g = m.file => Driver(g, x) = m
      BY <2>0 DEF MappedOnce, Driver
    <3>2. \A g, x : Driver(g, x).file = g
      BY DEF Driver
    <3> QED
      BY <2>0, <2>2, <3>1, <3>2
  <2>4. MappedOnce'
    BY <2>2 DEF MappedOnce
  <2> QED
    BY <2>1, <2>2, <2>3, <2>4 DEF Announces, Seen
<1>5. ASSUME NEW m \in mapped, SystemUnmapImage(m)
      PROVE  MappedOnce' /\ Still
  <2>1. mapped' = mapped \ {m} /\ m.at # Kernel
    BY <1>5 DEF SystemUnmapImage
  <2>2. \A g, x : Driver(g, x) \in mapped' <=> Driver(g, x) \in mapped
    BY <2>1 DEF Driver
  <2> QED
    BY <1>5, <2>1, <2>2 DEF SystemUnmapImage, MappedOnce, Still
<1>6. ASSUME Tick PROVE MappedOnce'
  BY <1>6 DEF Tick, system, MappedOnce
<1> QED
  BY <1>1, <1>2, <1>3, <1>4, <1>5, <1>6 DEF Traced

LEMMA OpenAnnounce ==
    ASSUME Typed, OpenInv, NEW e \in Event, Announces(e)
    PROVE  LoadsMapped' /\ LoadsApart'
<1>0. queue' = Append(queue, e) /\ kernel_modules' = kernel_modules
  BY DEF Announces, tables
<1>1. \A k, f, s : OpenAt(k, f, s)' <=> OpenAt(k, f, s)
  BY <1>0 DEF OpenAt
<1>2. ASSUME NEW f \in Files
      PROVE  \E last \in Nat :
           /\ DOMAIN queue = 1 .. last /\ DOMAIN queue' = 1 .. last + 1
           /\ \A j \in 1 .. last : \A s : DriverAt(j, f, s)' <=> DriverAt(j, f, s)
           /\ \A s : DriverAt(last + 1, f, s)' <=>
                        e.kind = "SYS_load_mod" /\ e.file = f /\ e.slot = s
           /\ \A i \in 0 .. last :
                After(i, f)' <=> After(i, f) \/ (e.kind = "SYS_unload_mod" /\ e.file = f)
           /\ ~After(last + 1, f)'
           /\ \A i \in Nat : \A j \in 1 .. last + 1 : Between(i, j, f)' <=> Between(i, j, f)
           /\ \A i \in Nat : Between(i, last + 1, f) <=> After(i, f)
  BY <1>0, Grown
<1>3. ASSUME NEW f \in Files, NEW s \in Slots
      PROVE  /\ \A k \in DOMAIN kernel_modules' :
                    OpenAt(k, f, s)' => Driver(f, s) \in mapped' \/ After(0, f)'
             /\ \A j \in DOMAIN queue' :
                    DriverAt(j, f, s)' => Driver(f, s) \in mapped' \/ After(j, f)'
  <2>1. PICK last \in Nat :
           /\ DOMAIN queue = 1 .. last /\ DOMAIN queue' = 1 .. last + 1
           /\ \A j \in 1 .. last : DriverAt(j, f, s)' <=> DriverAt(j, f, s)
           /\ DriverAt(last + 1, f, s)' <=> e.kind = "SYS_load_mod" /\ e.file = f /\ e.slot = s
           /\ \A i \in 0 .. last :
                After(i, f)' <=> After(i, f) \/ (e.kind = "SYS_unload_mod" /\ e.file = f)
    BY <1>2
  <2>2. Driver(f, s) \in mapped =>
            Driver(f, s) \in mapped' \/ (e.kind = "SYS_unload_mod" /\ e.file = f)
    BY DEF Announces
  <2>3. ASSUME NEW k \in DOMAIN kernel_modules', OpenAt(k, f, s)'
        PROVE  Driver(f, s) \in mapped' \/ After(0, f)'
    BY <1>0, <1>1, <2>1, <2>2, <2>3 DEF OpenInv, LoadsMapped
  <2>4. ASSUME NEW j \in 1 .. last, DriverAt(j, f, s)'
        PROVE  Driver(f, s) \in mapped' \/ After(j, f)'
    BY <2>1, <2>2, <2>4 DEF OpenInv, LoadsMapped
  <2>5. DriverAt(last + 1, f, s)' => Driver(f, s) \in mapped'
    BY <2>1 DEF Announces
  <2> QED
    BY <2>1, <2>3, <2>4, <2>5
<1>4. ASSUME NEW f \in Files, NEW s \in Slots, NEW t \in Slots
      PROVE  /\ \A j, k \in DOMAIN kernel_modules' : OpenAt(j, f, s)' /\ OpenAt(k, f, t)' => j = k
             /\ \A k \in DOMAIN kernel_modules', j \in DOMAIN queue' :
                    OpenAt(k, f, s)' /\ DriverAt(j, f, t)' => Between(0, j, f)'
             /\ \A i, j \in DOMAIN queue' :
                    i < j /\ DriverAt(i, f, s)' /\ DriverAt(j, f, t)' => Between(i, j, f)'
  <2>1. PICK last \in Nat :
           /\ DOMAIN queue = 1 .. last /\ DOMAIN queue' = 1 .. last + 1
           /\ \A j \in 1 .. last : \A x : DriverAt(j, f, x)' <=> DriverAt(j, f, x)
           /\ \A x : DriverAt(last + 1, f, x)' <=>
                        e.kind = "SYS_load_mod" /\ e.file = f /\ e.slot = x
           /\ \A i \in Nat : \A j \in 1 .. last + 1 : Between(i, j, f)' <=> Between(i, j, f)
           /\ \A i \in Nat : Between(i, last + 1, f) <=> After(i, f)
    BY <1>2
  <2>2. ASSUME e.kind = "SYS_load_mod", e.file = f
        PROVE  /\ \A k \in DOMAIN kernel_modules : OpenAt(k, f, s) => After(0, f)
               /\ \A j \in DOMAIN queue : DriverAt(j, f, s) => After(j, f)
    <3>1. Driver(f, s) \notin mapped
      BY <2>2 DEF Announces
    <3> QED
      BY <3>1 DEF OpenInv, LoadsMapped
  <2>3. \A j, k \in DOMAIN kernel_modules' : OpenAt(j, f, s)' /\ OpenAt(k, f, t)' => j = k
    BY <1>0, <1>1 DEF OpenInv, LoadsApart
  <2>4. ASSUME NEW k \in DOMAIN kernel_modules', NEW j \in DOMAIN queue',
               OpenAt(k, f, s)', DriverAt(j, f, t)'
        PROVE  Between(0, j, f)'
    <3>1. k \in DOMAIN kernel_modules /\ OpenAt(k, f, s) /\ j \in 1 .. last + 1
          /\ (Between(0, j, f)' <=> Between(0, j, f))
      BY <1>0, <1>1, <2>1, <2>4
    <3>2. CASE j \in 1 .. last
      BY <2>1, <2>4, <3>1, <3>2 DEF OpenInv, LoadsApart
    <3>3. CASE j = last + 1
      BY <2>1, <2>2, <2>4, <3>1, <3>3
    <3> QED
      BY <3>1, <3>2, <3>3
  <2>5. ASSUME NEW i \in DOMAIN queue', NEW j \in DOMAIN queue',
               i < j, DriverAt(i, f, s)', DriverAt(j, f, t)'
        PROVE  Between(i, j, f)'
    <3>1. /\ i \in 1 .. last /\ DriverAt(i, f, s) /\ j \in 1 .. last + 1
          /\ (Between(i, j, f)' <=> Between(i, j, f))
      BY <2>1, <2>5
    <3>2. CASE j \in 1 .. last
      BY <2>1, <2>5, <3>1, <3>2 DEF OpenInv, LoadsApart
    <3>3. CASE j = last + 1
      BY <2>1, <2>2, <2>5, <3>1, <3>3
    <3> QED
      BY <3>1, <3>2, <3>3
  <2> QED
    BY <2>3, <2>4, <2>5
<1> QED
  BY <1>3, <1>4 DEF LoadsMapped, LoadsApart, Driver

LEMMA OpenTraced == Typed /\ OpenInv /\ Traced => OpenInv'
<1> SUFFICES ASSUME Typed, OpenInv, Traced PROVE OpenInv'
  OBVIOUS
<1>1. MappedOnce' /\ ((\E e \in Event : Announces(e)) \/ Still \/ Tick)
  BY TracedDrivers DEF OpenInv
<1>2. ASSUME UNCHANGED <<queue, kernel_modules>>,
             \A f \in Files, s \in Slots : Driver(f, s) \in mapped' <=> Driver(f, s) \in mapped
      PROVE  LoadsMapped' /\ LoadsApart'
  <2>1. /\ \A k, f, s : OpenAt(k, f, s)' <=> OpenAt(k, f, s)
        /\ \A k, f, s : DriverAt(k, f, s)' <=> DriverAt(k, f, s)
        /\ \A k, f : UnloadAt(k, f)' <=> UnloadAt(k, f)
    BY <1>2 DEF OpenAt, DriverAt, UnloadAt
  <2>2. /\ \A i, f : After(i, f)' <=> After(i, f)
        /\ \A i, j, f : Between(i, j, f)' <=> Between(i, j, f)
    BY <1>2, <2>1 DEF After, Between
  <2>3. DOMAIN queue' = DOMAIN queue /\ DOMAIN kernel_modules' = DOMAIN kernel_modules
    BY <1>2
  <2>4. LoadsMapped'
    BY <1>2, <2>1, <2>2, <2>3 DEF OpenInv, LoadsMapped, Driver
  <2>5. LoadsApart'
    BY <2>1, <2>2, <2>3 DEF OpenInv, LoadsApart
  <2> QED
    BY <2>4, <2>5
<1>3. CASE Still
  BY <1>1, <1>2, <1>3 DEF Still, tables, OpenInv
<1>4. CASE Tick
  BY <1>1, <1>2, <1>4 DEF Tick, system, tables, OpenInv
<1>5. ASSUME NEW e \in Event, Announces(e)
      PROVE  OpenInv'
  BY <1>1, <1>5, OpenAnnounce DEF OpenInv
<1> QED
  BY <1>1, <1>3, <1>4, <1>5

LEMMA OpenStutter == OpenInv /\ UNCHANGED vars => OpenInv'
BY DEF OpenInv, MappedOnce, LoadsMapped, LoadsApart, OpenAt, After, Between, UnloadAt, DriverAt,
       vars, system, tables

LEMMA OpenInvariant == Recording => []OpenInv
<1>1. TypeInv /\ process_log_sw = TRUE /\ OpenInv /\ [Traced \/ ProcessEvent]_vars => OpenInv'
  BY OpenTraced, OpenReceive, OpenStutter DEF TypeInv
<1>2. Recording => []TypeInv
  BY TypeInvariant, RecordingIsSpec
<1> QED
  BY <1>1, <1>2, OpenInit, LogOn, PTL DEF Recording

\* While the log is on, one entry of a file is open when its unloading is
\* handled, wherever drivers move and whatever is still in the queue: the
\* assertion of module_info.cpp:576, ASSERT( FALSE == module_set ).
THEOREM OneOpen == Recording => []AssertOneOpen
<1>1. TypeInv /\ OpenInv => AssertOneOpen
  <2> SUFFICES ASSUME TypeInv, OpenInv, queue # <<>>,
                      NEW j \in DOMAIN kernel_modules, NEW k \in DOMAIN kernel_modules,
                      kernel_modules[j].file_name = Head(queue).file, kernel_modules[j].end_time = 0,
                      kernel_modules[k].file_name = Head(queue).file, kernel_modules[k].end_time = 0
               PROVE  j = k
    BY DEF AssertOneOpen, Handles
  <2>1. /\ Head(queue).file \in Files
        /\ kernel_modules[j].base_addr \in Slots /\ kernel_modules[k].base_addr \in Slots
    <3>1. Head(queue) \in Event
      BY DEF TypeInv, Typed
    <3>2. kernel_modules[j] \in Module(DriverSlots) /\ kernel_modules[k] \in Module(DriverSlots)
      BY DEF TypeInv, Typed
    <3> QED
      BY <3>1, <3>2 DEF Event, Module, Slots
  <2> QED
    BY <2>1 DEF OpenInv, LoadsApart, OpenAt
<1>2. Recording => []TypeInv
  BY TypeInvariant, RecordingIsSpec
<1> QED
  BY <1>1, <1>2, OpenInvariant, PTL

-----------------------------------------------------------------------------
(* The module a frame is named by is the first of the table that covers    *)
(* its address and its time: there is a first one if there is any.         *)

LEMMA NumbersWellFounded ==
    \E R : IsWellFoundedOn(R, Nat) /\ \A x, y \in Nat : <<y, x>> \in R <=> y < x
<1>1. IsWellFoundedOn(OpToRel(<, Nat), Nat)
  BY NatLessThanWellFounded
<1>2. \A x, y \in Nat : <<y, x>> \in OpToRel(<, Nat) <=> y < x
  BY DEF OpToRel
<1> QED
  BY <1>1, <1>2

\* A set of numbers has a least one.
LEMMA Least ==
    ASSUME NEW S \in SUBSET Nat, S # {}
    PROVE  \E m \in S : \A n \in S : m <= n
<1>1. PICK R : IsWellFoundedOn(R, Nat) /\ \A x, y \in Nat : <<y, x>> \in R <=> y < x
  BY NumbersWellFounded
<1>2. PICK m \in S : \A n \in S : ~(<<n, m>> \in R)
  BY <1>1, WFMin
<1>3. ASSUME NEW n \in S PROVE m <= n
  <2>1. n \in Nat /\ m \in Nat /\ ~(n < m)
    BY <1>1, <1>2
  <2> QED
    BY <2>1
<1> QED
  BY <1>3

Covers(m, s, t) == m.base_addr = s /\ m.start_time <= t /\ (m.end_time = 0 \/ m.end_time >= t)

LEMMA FirstCovers ==
    ASSUME NEW S, NEW ms \in Seq(S), NEW s, NEW t
    PROVE  \/ /\ FrameModule(ms, s, t) \in DOMAIN ms /\ FrameModule(ms, s, t) # 0
              /\ Covers(ms[FrameModule(ms, s, t)], s, t)
           \/ /\ FrameModule(ms, s, t) = 0
              /\ \A k \in DOMAIN ms : ~Covers(ms[k], s, t)
<1> DEFINE I == {i \in 1 .. Len(ms) : Covers(ms[i], s, t)}
<1>1. FrameModule(ms, s, t) = IF I # {} THEN Min(I) ELSE 0
  BY DEF FrameModule, SelectInSeq, Covers
<1>2. I \in SUBSET Nat /\ I \subseteq DOMAIN ms /\ 0 \notin I
  OBVIOUS
<1>3. \A i \in DOMAIN ms : i \in I <=> Covers(ms[i], s, t)
  OBVIOUS
<1>4. Min(I) = CHOOSE x \in I : \A y \in I : x <= y
  BY DEF Min
<1> HIDE DEF I
<1>5. I # {} => \E x \in I : \A y \in I : x <= y
  BY <1>2, Least
<1>6. I # {} => Min(I) \in I
  BY <1>4, <1>5
<1> QED
  BY <1>1, <1>2, <1>3, <1>6

-----------------------------------------------------------------------------
(* The table of the kernel holds what was mapped: a driver that is mapped  *)
(* has an open entry or its loading in the queue; what was mapped in a     *)
(* tick at whose end the receiver had caught up has an entry that covers   *)
(* it, and in one at whose begin it had, nothing else is covered.          *)

MappedOpen == \A f \in Files, s \in Slots :
    Driver(f, s) \in mapped =>
        \/ \E j \in DOMAIN queue : DriverAt(j, f, s) /\ ~After(j, f)
        \/ ~After(0, f) /\ \E k \in DOMAIN kernel_modules : OpenAt(k, f, s)

Dated ==
    /\ \A h \in history : h.time <= clock
    /\ \A k \in DOMAIN kernel_modules :
        /\ 1 <= kernel_modules[k].start_time /\ kernel_modules[k].start_time <= clock
        /\ kernel_modules[k].end_time <= clock

EntryAt(k, f, s, t) == kernel_modules[k].file_name = f /\ Covers(kernel_modules[k], s, t)

Complete == \A f \in Files, s \in Slots, t \in Nat :
    Seen(Kernel, s, f, t) =>
        /\ t \in settled => \E k \in DOMAIN kernel_modules : EntryAt(k, f, s, t)
        /\ t = clock => \/ \E k \in DOMAIN kernel_modules : EntryAt(k, f, s, t)
                        \/ \E j \in DOMAIN queue : DriverAt(j, f, s)

\* What is mapped in a tick at whose begin the receiver had caught up.
InTime(s, f, t) == t - 1 \in settled => Seen(Kernel, s, f, t)

Sound == \A f \in Files, s \in Slots :
    /\ \A j \in DOMAIN queue : DriverAt(j, f, s) => InTime(s, f, clock)
    /\ \A k \in DOMAIN kernel_modules, t \in 1 .. clock : EntryAt(k, f, s, t) => InTime(s, f, t)

DriverInv == MappedOpen /\ Dated /\ Complete /\ Sound

LEMMA DriverInit == Init => DriverInv
<1> SUFFICES ASSUME Init PROVE DriverInv
  OBVIOUS
<1>1. /\ DOMAIN kernel_modules = {1} /\ queue = <<>> /\ clock = 1
      /\ kernel_modules[1] = [file_name |-> FirstFile, base_addr |-> FirstSlot(Kernel),
                              start_time |-> 1, end_time |-> 0]
      /\ DOMAIN queue = {}
  BY TablesAssumption DEF Init, SnapshotModules
<1>2. /\ \A f, s : OpenAt(1, f, s) <=> f = FirstFile /\ s = FirstSlot(Kernel)
      /\ \A f, s, t : EntryAt(1, f, s, t) <=> f = FirstFile /\ s = FirstSlot(Kernel) /\ 1 <= t
  BY <1>1 DEF OpenAt, EntryAt, Covers
<1>3. \A f, s : Driver(f, s) \in mapped => f = FirstFile /\ s = FirstSlot(Kernel)
  BY DEF Init, Running, Driver
<1>5. MappedOpen
  BY <1>1, <1>2, <1>3 DEF MappedOpen, After
<1>6. Dated
  <2>1. \A h \in history : h.time = 1
    BY DEF Init
  <2> QED
    BY <1>1, <2>1 DEF Dated
<1>7. \A f, s, t : Seen(Kernel, s, f, t) <=> f = FirstFile /\ s = FirstSlot(Kernel) /\ t = 1
  <2>1. ASSUME NEW f, NEW s, NEW t, Seen(Kernel, s, f, t)
        PROVE  f = FirstFile /\ s = FirstSlot(Kernel) /\ t = 1
    <3>1. PICK m \in Running :
            [at |-> Kernel, slot |-> s, file |-> f, time |-> t]
                = [at |-> m.at, slot |-> m.slot, file |-> m.file, time |-> 1]
      BY <2>1 DEF Init, Seen
    <3>2. m.at = Kernel /\ m.slot = FirstSlot(Kernel) /\ m.file = FirstFile
      BY <3>1 DEF Running
    <3> QED
      BY <3>1, <3>2
  <2>2. Driver(FirstFile, FirstSlot(Kernel)) \in Running
    BY DEF Running, Driver
  <2>3. Seen(Kernel, FirstSlot(Kernel), FirstFile, 1)
    BY <2>2 DEF Init, Seen, Driver
  <2> QED
    BY <2>1, <2>3
<1>8. Complete
  BY <1>1, <1>2, <1>7 DEF Complete
<1>9. Sound
  BY <1>1, <1>2, <1>7 DEF Sound, InTime
<1> QED
  BY <1>5, <1>6, <1>8, <1>9 DEF DriverInv

LEMMA DriverAnnounce ==
    ASSUME Typed, DriverInv, NEW e \in Event, Announces(e)
    PROVE  DriverInv'
<1>0. /\ queue' = Append(queue, e) /\ clock' = clock /\ clock \in Nat
      /\ kernel_modules' = kernel_modules /\ settled' = settled /\ clock \notin settled
  BY BoundsAssumption DEF Announces, tables, Typed
<1>1. /\ \A k, f, s : OpenAt(k, f, s)' <=> OpenAt(k, f, s)
      /\ \A k, f, s, t : EntryAt(k, f, s, t)' <=> EntryAt(k, f, s, t)
  BY <1>0 DEF OpenAt, EntryAt
<1>2. ASSUME NEW f \in Files
      PROVE  \E last \in Nat :
           /\ DOMAIN queue = 1 .. last /\ DOMAIN queue' = 1 .. last + 1
           /\ \A j \in 1 .. last : \A s : DriverAt(j, f, s)' <=> DriverAt(j, f, s)
           /\ \A s : DriverAt(last + 1, f, s)' <=>
                        e.kind = "SYS_load_mod" /\ e.file = f /\ e.slot = s
           /\ \A i \in 0 .. last :
                After(i, f)' <=> After(i, f) \/ (e.kind = "SYS_unload_mod" /\ e.file = f)
           /\ ~After(last + 1, f)'
           /\ \A i \in Nat : \A j \in 1 .. last + 1 : Between(i, j, f)' <=> Between(i, j, f)
           /\ \A i \in Nat : Between(i, last + 1, f) <=> After(i, f)
  BY <1>0, Grown
<1>3. ASSUME NEW f \in Files, NEW s \in Slots, Driver(f, s) \in mapped'
      PROVE  \/ \E j \in DOMAIN queue' : DriverAt(j, f, s)' /\ ~After(j, f)'
             \/ ~After(0, f)' /\ \E k \in DOMAIN kernel_modules' : OpenAt(k, f, s)'
  <2>1. PICK last \in Nat :
           /\ DOMAIN queue = 1 .. last /\ DOMAIN queue' = 1 .. last + 1
           /\ \A j \in 1 .. last : DriverAt(j, f, s)' <=> DriverAt(j, f, s)
           /\ DriverAt(last + 1, f, s)' <=> e.kind = "SYS_load_mod" /\ e.file = f /\ e.slot = s
           /\ \A i \in 0 .. last :
                After(i, f)' <=> After(i, f) \/ (e.kind = "SYS_unload_mod" /\ e.file = f)
           /\ ~After(last + 1, f)'
    BY <1>2
  <2>2. \/ Driver(f, s) \in mapped /\ ~(e.kind = "SYS_unload_mod" /\ e.file = f)
        \/ e.kind = "SYS_load_mod" /\ e.file = f /\ e.slot = s
    BY <1>3 DEF Announces
  <2>3. CASE e.kind = "SYS_load_mod" /\ e.file = f /\ e.slot = s
    BY <2>1, <2>3
  <2>4. CASE Driver(f, s) \in mapped /\ ~(e.kind = "SYS_unload_mod" /\ e.file = f)
    <3>1. CASE \E j \in DOMAIN queue : DriverAt(j, f, s) /\ ~After(j, f)
      BY <2>1, <2>4, <3>1
    <3>2. CASE ~After(0, f) /\ \E k \in DOMAIN kernel_modules : OpenAt(k, f, s)
      BY <1>0, <1>1, <2>1, <2>4, <3>2
    <3> QED
      BY <2>4, <3>1, <3>2 DEF DriverInv, MappedOpen
  <2> QED
    BY <2>2, <2>3, <2>4
<1>4. Dated'
  BY <1>0 DEF DriverInv, Dated, Announces
<1>5. ASSUME NEW f \in Files, NEW s \in Slots
      PROVE  /\ \A t \in Nat : Seen(Kernel, s, f, t)' =>
                    /\ t \in settled => \E k \in DOMAIN kernel_modules : EntryAt(k, f, s, t)
                    /\ t = clock => \/ \E k \in DOMAIN kernel_modules : EntryAt(k, f, s, t)
                                    \/ \E j \in DOMAIN queue' : DriverAt(j, f, s)'
             /\ \A j \in DOMAIN queue' : DriverAt(j, f, s)' => InTime(s, f, clock)'
             /\ \A k \in DOMAIN kernel_modules, t \in 1 .. clock :
                    EntryAt(k, f, s, t) => InTime(s, f, t)'
  <2>1. PICK last \in Nat :
           /\ DOMAIN queue = 1 .. last /\ DOMAIN queue' = 1 .. last + 1
           /\ \A j \in 1 .. last : DriverAt(j, f, s)' <=> DriverAt(j, f, s)
           /\ DriverAt(last + 1, f, s)' <=> e.kind = "SYS_load_mod" /\ e.file = f /\ e.slot = s
    BY <1>2
  <2>2. \A t \in Nat : Seen(Kernel, s, f, t)' <=>
            \/ Seen(Kernel, s, f, t)
            \/ e.kind = "SYS_load_mod" /\ e.file = f /\ e.slot = s /\ t = clock
    BY DEF Announces
  <2>3. ASSUME NEW t \in Nat, Seen(Kernel, s, f, t)'
        PROVE  /\ t \in settled => \E k \in DOMAIN kernel_modules : EntryAt(k, f, s, t)
               /\ t = clock => \/ \E k \in DOMAIN kernel_modules : EntryAt(k, f, s, t)
                               \/ \E j \in DOMAIN queue' : DriverAt(j, f, s)'
    BY <1>0, <2>1, <2>2, <2>3 DEF DriverInv, Complete
  <2>4. ASSUME NEW t \in Nat, InTime(s, f, t)
        PROVE  InTime(s, f, t)'
    BY <1>0, <2>2, <2>4 DEF InTime, Seen
  <2>5. \A t : t = clock => (InTime(s, f, clock)' <=> InTime(s, f, t)')
    BY <1>0 DEF InTime, Seen
  <2>6. ASSUME NEW j \in DOMAIN queue', DriverAt(j, f, s)'
        PROVE  \A t \in Nat : t = clock => InTime(s, f, t)'
    <3>1. CASE j \in 1 .. last
      BY <2>1, <2>4, <2>6, <3>1 DEF DriverInv, Sound
    <3>2. CASE j = last + 1
      <4>1. \A t \in Nat : t = clock => Seen(Kernel, s, f, t)'
        BY <2>1, <2>2, <2>6, <3>2
      <4> QED
        BY <4>1 DEF InTime, Seen
    <3> QED
      BY <2>1, <3>1, <3>2
  <2>7. ASSUME NEW k \in DOMAIN kernel_modules, NEW t \in 1 .. clock, EntryAt(k, f, s, t)
        PROVE  InTime(s, f, t)'
    <3>1. t \in Nat /\ InTime(s, f, t)
      BY <1>0, <2>7 DEF DriverInv, Sound
    <3> QED
      BY <2>4, <3>1
  <2> QED
    BY <1>0, <2>3, <2>5, <2>6, <2>7
<1>6. MappedOpen'
  BY <1>3 DEF MappedOpen, Driver
<1>7. Complete'
  BY <1>0, <1>1, <1>5 DEF Complete
<1>8. Sound'
  BY <1>0, <1>1, <1>5 DEF Sound
<1> QED
  BY <1>4, <1>6, <1>7, <1>8 DEF DriverInv

LEMMA DriverStill ==
    ASSUME DriverInv, UNCHANGED <<clock, settled, kernel_modules, history, queue>>,
           \A f \in Files, s \in Slots : Driver(f, s) \in mapped' <=> Driver(f, s) \in mapped
    PROVE  DriverInv'
<1>1. /\ \A k, f, s : OpenAt(k, f, s)' <=> OpenAt(k, f, s)
      /\ \A k, f, s, t : EntryAt(k, f, s, t)' <=> EntryAt(k, f, s, t)
      /\ \A k, f, s : DriverAt(k, f, s)' <=> DriverAt(k, f, s)
      /\ \A i, f : After(i, f)' <=> After(i, f)
      /\ \A f, s, t : Seen(Kernel, s, f, t)' <=> Seen(Kernel, s, f, t)
      /\ \A f, s, t : InTime(s, f, t)' <=> InTime(s, f, t)
      /\ \A f, s : InTime(s, f, clock)' <=> InTime(s, f, clock)
  BY DEF OpenAt, EntryAt, DriverAt, UnloadAt, After, Seen, InTime
<1>2. MappedOpen'
  BY <1>1 DEF DriverInv, MappedOpen, Driver
<1>3. Dated'
  BY DEF DriverInv, Dated
<1>4. Complete'
  BY <1>1 DEF DriverInv, Complete
<1>5. Sound'
  BY <1>1 DEF DriverInv, Sound
<1> QED
  BY <1>2, <1>3, <1>4, <1>5 DEF DriverInv

\* The time passes.  A driver that is mapped has an open entry or is about to
\* get one; if the receiver has caught up the open entries are mapped.
LEMMA DriverTick ==
    ASSUME Typed, OpenInv, DriverInv, Tick
    PROVE  DriverInv'
<1>0. /\ clock \in Nat /\ clock' = clock + 1 /\ clock \notin settled
      /\ settled' = IF queue = <<>> THEN settled \cup {clock} ELSE settled
      /\ settled \subseteq 0 .. clock - 1
      /\ UNCHANGED <<mapped, queue, kernel_modules>>
  BY BoundsAssumption DEF Tick, system, tables, Typed
<1>1. history' = history \cup {[Place(m) EXCEPT !.time = clock + 1] : m \in mapped}
  BY DEF Tick
<1>2. /\ \A k, f, s : OpenAt(k, f, s)' <=> OpenAt(k, f, s)
      /\ \A k, f, s, t : EntryAt(k, f, s, t)' <=> EntryAt(k, f, s, t)
      /\ \A i, f : After(i, f)' <=> After(i, f)
      /\ \A j, f, s : DriverAt(j, f, s)' <=> DriverAt(j, f, s)
      /\ queue = <<>> => DOMAIN queue = {} /\ \A i, f : ~After(i, f)
  BY <1>0 DEF OpenAt, EntryAt, After, DriverAt, UnloadAt
<1>3. ASSUME NEW f, NEW s, NEW t
      PROVE  Seen(Kernel, s, f, t)' <=>
                Seen(Kernel, s, f, t) \/ (Driver(f, s) \in mapped /\ t = clock + 1)
  <2>1. \A m : [Place(m) EXCEPT !.time = clock + 1]
                    = [at |-> m.at, slot |-> m.slot, file |-> m.file, time |-> clock + 1]
    BY DEF Place
  <2>2. ASSUME Seen(Kernel, s, f, t)', ~Seen(Kernel, s, f, t)
        PROVE  Driver(f, s) \in mapped /\ t = clock + 1
    <3>1. PICK m \in mapped :
            [at |-> Kernel, slot |-> s, file |-> f, time |-> t]
                = [at |-> m.at, slot |-> m.slot, file |-> m.file, time |-> clock + 1]
      BY <1>1, <2>1, <2>2 DEF Seen
    <3>2. m.at = Kernel /\ m.slot = s /\ m.file = f /\ t = clock + 1
      BY <3>1
    <3>3. m = Driver(f, s)
      BY <3>2 DEF Typed, Mapping, Driver
    <3> QED
      BY <3>2, <3>3
  <2>3. ASSUME Driver(f, s) \in mapped, t = clock + 1
        PROVE  Seen(Kernel, s, f, t)'
    <3>1. [Place(Driver(f, s)) EXCEPT !.time = clock + 1]
            = [at |-> Kernel, slot |-> s, file |-> f, time |-> t]
      BY <2>1, <2>3 DEF Driver
    <3> QED
      BY <1>1, <2>3, <3>1 DEF Seen
  <2>4. Seen(Kernel, s, f, t) => Seen(Kernel, s, f, t)'
    BY <1>1 DEF Seen
  <2> QED
    BY <2>2, <2>3, <2>4
<1>4. \A k \in DOMAIN kernel_modules :
        /\ kernel_modules[k].start_time \in Nat /\ kernel_modules[k].end_time \in Nat
        /\ 1 <= kernel_modules[k].start_time /\ kernel_modules[k].start_time <= clock
        /\ kernel_modules[k].end_time <= clock
  <2>1. \A k \in DOMAIN kernel_modules : kernel_modules[k] \in Module(DriverSlots)
    BY DEF Typed
  <2> QED
    BY <2>1 DEF DriverInv, Dated, Module
<1>5. ASSUME NEW f \in Files, NEW s \in Slots, NEW k \in DOMAIN kernel_modules
      PROVE  EntryAt(k, f, s, clock + 1) <=> OpenAt(k, f, s)
  BY <1>0, <1>4, <1>5 DEF EntryAt, OpenAt, Covers
<1>6. ASSUME NEW f \in Files, NEW s \in Slots, queue = <<>>
      PROVE  Driver(f, s) \in mapped <=> \E k \in DOMAIN kernel_modules : OpenAt(k, f, s)
  BY <1>2, <1>6 DEF DriverInv, MappedOpen, OpenInv, LoadsMapped
<1>7. MappedOpen'
  BY <1>0, <1>2 DEF DriverInv, MappedOpen, Driver
<1>8. Dated'
  <2>1. \A h \in history : h.time \in Nat /\ h.time <= clock
    BY BoundsAssumption DEF DriverInv, Dated, Typed, Occupancy
  <2>2. \A h \in history' : h \in history \/ h.time = clock + 1
    BY <1>1 DEF Place
  <2> QED
    BY <1>0, <1>4, <2>1, <2>2 DEF Dated
<1>9. Complete'
  <2> SUFFICES ASSUME NEW f \in Files, NEW s \in Slots, NEW t \in Nat, Seen(Kernel, s, f, t)'
               PROVE  /\ t \in settled' => \E k \in DOMAIN kernel_modules : EntryAt(k, f, s, t)
                      /\ t = clock + 1 => \/ \E k \in DOMAIN kernel_modules : EntryAt(k, f, s, t)
                                          \/ \E j \in DOMAIN queue : DriverAt(j, f, s)
    BY <1>0, <1>2 DEF Complete
  <2>1. CASE Seen(Kernel, s, f, t)
    <3>1. t # clock + 1
      <4>1. t <= clock
        BY <2>1 DEF DriverInv, Dated, Seen
      <4> QED
        BY <1>0, <4>1
    <3>2. /\ t \in settled => \E k \in DOMAIN kernel_modules : EntryAt(k, f, s, t)
          /\ t = clock => \/ \E k \in DOMAIN kernel_modules : EntryAt(k, f, s, t)
                          \/ \E j \in DOMAIN queue : DriverAt(j, f, s)
      BY <2>1 DEF DriverInv, Complete
    <3> QED
      BY <1>0, <1>2, <3>1, <3>2
  <2>2. CASE Driver(f, s) \in mapped /\ t = clock + 1
    <3>1. t \notin settled'
      BY <1>0, <2>2
    <3> QED
      BY <1>5, <2>2, <3>1 DEF DriverInv, MappedOpen
  <2> QED
    BY <1>3, <2>1, <2>2
<1>10. Sound'
  <2> SUFFICES ASSUME NEW f \in Files, NEW s \in Slots
               PROVE  /\ \A j \in DOMAIN queue : DriverAt(j, f, s) => InTime(s, f, clock)'
                      /\ \A k \in DOMAIN kernel_modules, t \in 1 .. clock + 1 :
                            EntryAt(k, f, s, t) => InTime(s, f, t)'
    BY <1>0, <1>2 DEF Sound
  <2>1. ASSUME queue # <<>>
        PROVE  InTime(s, f, clock)' /\ \A t : t = clock + 1 => InTime(s, f, t)'
    BY <1>0, <2>1 DEF InTime
  <2>2. ASSUME NEW k \in DOMAIN kernel_modules, NEW t \in 1 .. clock + 1, EntryAt(k, f, s, t)
        PROVE  InTime(s, f, t)'
    <3>1. CASE t \in 1 .. clock
      <4>1. t - 1 \in settled' => t - 1 \in settled
        BY <1>0, <3>1
      <4>2. InTime(s, f, t)
        BY <2>2, <3>1 DEF DriverInv, Sound
      <4> QED
        BY <1>3, <4>1, <4>2 DEF InTime
    <3>2. CASE t = clock + 1 /\ queue = <<>>
      <4>1. Seen(Kernel, s, f, t)'
        BY <1>3, <1>5, <1>6, <2>2, <3>2
      <4> QED
        BY <4>1 DEF InTime
    <3> QED
      BY <1>0, <2>1, <3>1, <3>2
  <2> QED
    BY <1>2, <2>1, <2>2
<1> QED
  BY <1>7, <1>8, <1>9, <1>10 DEF DriverInv

LEMMA DriverReceive == Typed /\ process_log_sw = TRUE /\ OpenInv /\ DriverInv /\ ProcessEvent => DriverInv'
<1> SUFFICES ASSUME Typed, process_log_sw = TRUE, OpenInv, DriverInv, ProcessEvent PROVE DriverInv'
  OBVIOUS
<1>1. PICK e \in Event :
        /\ queue # <<>> /\ e = Head(queue) /\ queue' = Tail(queue)
        /\ UNCHANGED <<clock, system, history, settled, process_log_sw>>
        /\ process_proc_module_info(e)
  BY ReceiveCases
<1>2. /\ 1 \in DOMAIN queue /\ DOMAIN queue \subseteq Nat
      /\ \A f, s : DriverAt(1, f, s) <=> e.kind = "SYS_load_mod" /\ e.file = f /\ e.slot = s
      /\ \A f : UnloadAt(1, f) <=> e.kind = "SYS_unload_mod" /\ e.file = f
      /\ \A i \in DOMAIN queue : i = 1 \/ (i - 1 \in DOMAIN queue' /\ (i - 1) + 1 = i)
  BY <1>1, Dequeued DEF DriverAt, UnloadAt
<1>3. /\ clock' = clock /\ mapped' = mapped /\ history' = history /\ clock \in Nat /\ clock # 0
      /\ settled' = settled /\ clock \notin settled
      /\ \A f, s, t : Seen(Kernel, s, f, t)' <=> Seen(Kernel, s, f, t)
      /\ \A f, s, t : InTime(s, f, t)' <=> InTime(s, f, t)
      /\ \A f, s : InTime(s, f, clock)' <=> InTime(s, f, clock)
  BY <1>1, BoundsAssumption DEF system, Seen, InTime, Typed
<1>4. \A f : /\ \A j \in DOMAIN queue' :
                  /\ j + 1 \in DOMAIN queue /\ j \in Nat /\ j >= 1
                  /\ \A s : DriverAt(j, f, s)' <=> DriverAt(j + 1, f, s)
             /\ \A i \in Nat :
                  /\ After(i, f)' <=> After(i + 1, f)
                  /\ \A j \in Nat : Between(i, j, f)' <=> Between(i + 1, j + 1, f)
             /\ After(0, f)' <=> After(1, f)
             /\ \A j \in Nat : Between(0, j, f)' <=> Between(1, j + 1, f)
  BY <1>1, Moved
<1>5. \A f : UnloadAt(1, f) \/ After(1, f) => After(0, f)
  BY <1>2 DEF After
<1>6. PICK n \in Nat :
            /\ DOMAIN kernel_modules = 1 .. n
            /\ \/ /\ e.kind = "SYS_load_mod" /\ DOMAIN kernel_modules' = 1 .. n + 1
                  /\ \A k \in 1 .. n : \A f, s : OpenAt(k, f, s)' <=> OpenAt(k, f, s)
                  /\ \A f, s : OpenAt(n + 1, f, s)' <=> f = e.file /\ s = e.slot
               \/ /\ e.kind = "SYS_unload_mod" /\ DOMAIN kernel_modules' = 1 .. n
                  /\ \A k \in 1 .. n : \A f, s : OpenAt(k, f, s)' <=> OpenAt(k, f, s) /\ f # e.file
               \/ /\ e.kind \notin {"SYS_load_mod", "SYS_unload_mod"}
                  /\ DOMAIN kernel_modules' = 1 .. n
                  /\ \A k \in 1 .. n : \A f, s : OpenAt(k, f, s)' <=> OpenAt(k, f, s)
  BY <1>1, ReceiveOpen
<1>7. ASSUME NEW f \in Files, NEW s \in Slots, Driver(f, s) \in mapped
      PROVE  \/ \E j \in DOMAIN queue' : DriverAt(j, f, s)' /\ ~After(j, f)'
             \/ ~After(0, f)' /\ \E k \in DOMAIN kernel_modules' : OpenAt(k, f, s)'
  <2>1. CASE \E j \in DOMAIN queue : DriverAt(j, f, s) /\ ~After(j, f)
    <3>1. PICK j \in DOMAIN queue : DriverAt(j, f, s) /\ ~After(j, f)
      BY <2>1
    <3>2. CASE j = 1
      <4>1. e.kind = "SYS_load_mod" /\ e.file = f /\ e.slot = s /\ ~After(1, f)
        BY <1>2, <3>1, <3>2
      <4>2. ~After(0, f)'
        BY <1>4, <4>1
      <4>3. n + 1 \in DOMAIN kernel_modules' /\ OpenAt(n + 1, f, s)'
        BY <1>6, <4>1
      <4> QED
        BY <4>2, <4>3
    <3>3. CASE j # 1
      <4>1. PICK i \in DOMAIN queue' : i + 1 = j
        BY <1>2, <3>3
      <4> QED
        BY <1>4, <3>1, <4>1
    <3> QED
      BY <3>2, <3>3
  <2>2. CASE ~After(0, f) /\ \E k \in DOMAIN kernel_modules : OpenAt(k, f, s)
    <3>1. ~UnloadAt(1, f) /\ ~After(0, f)'
      BY <1>4, <1>5, <2>2
    <3> QED
      BY <1>2, <1>6, <2>2, <3>1
  <2> QED
    BY <1>7, <2>1, <2>2 DEF DriverInv, MappedOpen
<1>8. MappedOpen'
  BY <1>3, <1>7 DEF MappedOpen, Driver
\* The entries of the kernel.
<1>9. PICK last \in Nat :
            /\ DOMAIN kernel_modules = 1 .. last
            /\ \A k \in 1 .. last : kernel_modules[k] \in Module(DriverSlots)
            /\ \/ /\ e.kind = "SYS_load_mod" /\ DOMAIN kernel_modules' = 1 .. last + 1
                  /\ \A k \in 1 .. last : kernel_modules'[k] = kernel_modules[k]
                  /\ kernel_modules'[last + 1] = NewModule(e.file, e.slot)
               \/ /\ e.kind = "SYS_unload_mod" /\ DOMAIN kernel_modules' = 1 .. last
                  /\ \A k \in 1 .. last :
                        kernel_modules'[k] =
                            IF kernel_modules[k].file_name = e.file /\ kernel_modules[k].end_time = 0
                            THEN [kernel_modules[k] EXCEPT !.end_time = clock]
                            ELSE kernel_modules[k]
               \/ e.kind \notin {"SYS_load_mod", "SYS_unload_mod"} /\ UNCHANGED kernel_modules
  BY <1>1, ReceiveDrivers
<1>10. ASSUME NEW k \in 1 .. last
       PROVE  /\ k \in DOMAIN kernel_modules'
              /\ 1 <= kernel_modules'[k].start_time /\ kernel_modules'[k].start_time <= clock
              /\ kernel_modules'[k].end_time <= clock
              /\ \A f, s : \A t \in 0 .. clock : EntryAt(k, f, s, t)' <=> EntryAt(k, f, s, t)
  <2>1. /\ kernel_modules[k] \in Module(DriverSlots)
        /\ 1 <= kernel_modules[k].start_time /\ kernel_modules[k].start_time <= clock
        /\ kernel_modules[k].end_time <= clock
    BY <1>9 DEF DriverInv, Dated
  <2>2. CASE kernel_modules'[k] = kernel_modules[k]
    BY <1>9, <2>1, <2>2 DEF EntryAt
  <2>3. CASE /\ kernel_modules[k].end_time = 0
             /\ kernel_modules'[k] = [kernel_modules[k] EXCEPT !.end_time = clock]
    <3>1. /\ kernel_modules'[k].file_name = kernel_modules[k].file_name
          /\ kernel_modules'[k].base_addr = kernel_modules[k].base_addr
          /\ kernel_modules'[k].start_time = kernel_modules[k].start_time
          /\ kernel_modules'[k].end_time = clock
      BY <2>1, <2>3 DEF Module
    <3> QED
      BY <1>3, <1>9, <2>1, <2>3, <3>1 DEF EntryAt, Covers
  <2> QED
    BY <1>9, <2>2, <2>3
<1>11. ASSUME e.kind = "SYS_load_mod"
       PROVE  /\ last + 1 \in DOMAIN kernel_modules'
              /\ kernel_modules'[last + 1].start_time = clock
              /\ kernel_modules'[last + 1].end_time <= clock
              /\ \A f, s : \A t \in 0 .. clock :
                    EntryAt(last + 1, f, s, t)' <=> f = e.file /\ s = e.slot /\ t = clock
  <2>1. kernel_modules'[last + 1] = [file_name |-> e.file, base_addr |-> e.slot,
                                     start_time |-> clock, end_time |-> 0]
        /\ last + 1 \in DOMAIN kernel_modules'
    BY <1>9, <1>11 DEF NewModule
  <2> QED
    BY <1>3, <2>1 DEF EntryAt, Covers
<1>12. \A k \in DOMAIN kernel_modules' : k \in 1 .. last \/ (k = last + 1 /\ e.kind = "SYS_load_mod")
  BY <1>9
<1>13. Dated'
  BY <1>3, <1>10, <1>11, <1>12 DEF DriverInv, Dated
<1>14. ASSUME NEW f \in Files, NEW s \in Slots, NEW t \in Nat, Seen(Kernel, s, f, t)
       PROVE  /\ t \in settled => \E k \in DOMAIN kernel_modules' : EntryAt(k, f, s, t)'
              /\ t = clock => \/ \E k \in DOMAIN kernel_modules' : EntryAt(k, f, s, t)'
                              \/ \E j \in DOMAIN queue' : DriverAt(j, f, s)'
  <2>1. t \in 0 .. clock
    BY <1>3, <1>14 DEF DriverInv, Dated, Seen
  <2>2. CASE \E k \in DOMAIN kernel_modules : EntryAt(k, f, s, t)
    BY <1>9, <1>10, <2>1, <2>2
  <2>3. CASE t = clock /\ \E j \in DOMAIN queue : DriverAt(j, f, s)
    <3>1. PICK j \in DOMAIN queue : DriverAt(j, f, s)
      BY <2>3
    <3>2. CASE j = 1
      BY <1>2, <1>3, <1>11, <2>1, <2>3, <3>1, <3>2
    <3>3. CASE j # 1
      <4>1. PICK i \in DOMAIN queue' : i + 1 = j
        BY <1>2, <3>3
      <4> QED
        BY <1>3, <1>4, <2>3, <3>1, <4>1
    <3> QED
      BY <3>2, <3>3
  <2> QED
    BY <1>14, <2>2, <2>3 DEF DriverInv, Complete
<1>15. Complete'
  BY <1>3, <1>14 DEF Complete
<1>16. ASSUME NEW f \in Files, NEW s \in Slots
       PROVE  /\ \A j \in DOMAIN queue' : DriverAt(j, f, s)' => InTime(s, f, clock)
              /\ \A k \in DOMAIN kernel_modules', t \in 1 .. clock :
                    EntryAt(k, f, s, t)' => InTime(s, f, t)
  <2>1. \A j \in DOMAIN queue : DriverAt(j, f, s) => InTime(s, f, clock)
    BY DEF DriverInv, Sound
  <2>2. \A j \in DOMAIN queue' : DriverAt(j, f, s)' => InTime(s, f, clock)
    BY <1>4, <2>1
  <2>3. ASSUME NEW k \in DOMAIN kernel_modules', NEW t \in 1 .. clock, EntryAt(k, f, s, t)'
        PROVE  InTime(s, f, t)
    <3>1. CASE k \in 1 .. last
      BY <1>3, <1>9, <1>10, <2>3, <3>1 DEF DriverInv, Sound
    <3>2. CASE k = last + 1 /\ e.kind = "SYS_load_mod"
      <4>1. f = e.file /\ s = e.slot /\ t = clock
        BY <1>3, <1>11, <2>3, <3>2
      <4> QED
        BY <1>2, <2>1, <3>2, <4>1
    <3> QED
      BY <1>12, <3>1, <3>2
  <2> QED
    BY <2>2, <2>3
<1>17. Sound'
  BY <1>3, <1>16 DEF Sound
<1> QED
  BY <1>8, <1>13, <1>15, <1>17 DEF DriverInv

LEMMA DriverTraced == Typed /\ OpenInv /\ DriverInv /\ Traced => DriverInv'
<1> SUFFICES ASSUME Typed, OpenInv, DriverInv, Traced PROVE DriverInv'
  OBVIOUS
<1>1. (\E e \in Event : Announces(e)) \/ Still \/ Tick
  BY TracedDrivers DEF OpenInv
<1>2. CASE Still
  BY <1>2, DriverStill DEF Still, tables
<1> QED
  BY <1>1, <1>2, DriverAnnounce, DriverTick

LEMMA DriverInvariant == Recording => []DriverInv
<1>1. DriverInv /\ UNCHANGED vars => DriverInv'
  <2> SUFFICES ASSUME DriverInv, UNCHANGED vars PROVE DriverInv'
    OBVIOUS
  <2> QED
    BY DriverStill DEF vars, system, tables, Driver
<1>2. TypeInv /\ process_log_sw = TRUE /\ OpenInv /\ DriverInv /\ [Traced \/ ProcessEvent]_vars => DriverInv'
  BY <1>1, DriverTraced, DriverReceive DEF TypeInv
<1>3. Recording => []TypeInv
  BY TypeInvariant, RecordingIsSpec
<1> QED
  BY <1>2, <1>3, DriverInit, LogOn, OpenInvariant, PTL DEF Recording

\* The modules of a process are images.
LEMMA ModulesTyped ==
    ASSUME TypeInv, NEW pid
    PROVE  Modules(pid) \in Seq(Module(ImageSlots))
<1>1. CASE Known(pid)
  <2>1. TableOf(pid) \in DOMAIN proc_infos
    BY <1>1, TableKnown DEF TypeInv
  <2>2. proc_infos[TableOf(pid)] \in Info
    BY <2>1 DEF TypeInv, Typed
  <2> QED
    BY <1>1, <2>2 DEF Modules, Info
<1>2. CASE ~Known(pid)
  BY <1>2 DEF Modules
<1> QED
  BY <1>1, <1>2

\* No table of a process holds an address of the drivers.
LEMMA NoDriverThere ==
    ASSUME TypeInv, NEW pid, NEW slot \in DriverSlots, NEW time
    PROVE  FrameModule(Modules(pid), slot, time) = 0
<1>1. Modules(pid) \in Seq(Module(ImageSlots))
  BY ModulesTyped
<1>2. \A m \in Module(ImageSlots) : ~Covers(m, slot, time)
  BY ModulesAssumption DEF Module, Covers
<1>3. \A k \in DOMAIN Modules(pid) : ~Covers(Modules(pid)[k], slot, time)
  BY <1>1, <1>2
<1> QED
  BY <1>1, <1>3, FirstCovers

\* What the table of the kernel says of a time of lookup.
LEMMA KernelCovers ==
    ASSUME TypeInv, OpenInv, DriverInv, NEW time \in Int, Settled(time),
           NEW slot \in DriverSlots
    PROVE  /\ \A k \in DOMAIN kernel_modules :
                Covers(kernel_modules[k], slot, time) =>
                    kernel_modules[k].file_name \in Occupants(Kernel, slot, time)
           /\ Occupants(Kernel, slot, time) # {} =>
                \E k \in DOMAIN kernel_modules : Covers(kernel_modules[k], slot, time)
<1>0. /\ clock \in Nat /\ slot \in Slots /\ Typed
      /\ queue = <<>> => DOMAIN queue = {} /\ \A i, f : ~After(i, f)
  BY BoundsAssumption DEF TypeInv, Typed, Slots, After
<1>1. \A k \in DOMAIN kernel_modules :
        /\ kernel_modules[k].file_name \in Files
        /\ kernel_modules[k].start_time \in Nat /\ kernel_modules[k].end_time \in Nat
        /\ 1 <= kernel_modules[k].start_time /\ kernel_modules[k].start_time <= clock
        /\ kernel_modules[k].end_time <= clock
  <2>1. \A k \in DOMAIN kernel_modules : kernel_modules[k] \in Module(DriverSlots)
    BY <1>0 DEF Typed
  <2> QED
    BY <2>1 DEF Module, DriverInv, Dated
<1>2. CASE time \in 1 .. clock
  <2>1. \A f : f \in Occupants(Kernel, slot, time) <=> Seen(Kernel, slot, f, time)
    <3>1. ~(time > clock)
      BY <1>0, <1>2
    <3>2. ASSUME NEW f, f \in Occupants(Kernel, slot, time)
          PROVE  Seen(Kernel, slot, f, time)
      <4>1. PICK h \in history : h.at = Kernel /\ h.slot = slot /\ h.time = time /\ h.file = f
        BY <3>1, <3>2 DEF Occupants
      <4>2. h = [at |-> Kernel, slot |-> slot, file |-> f, time |-> time]
        BY <1>0, <4>1 DEF Typed, Occupancy
      <4> QED
        BY <4>2 DEF Seen
    <3>3. ASSUME NEW f, Seen(Kernel, slot, f, time)
          PROVE  f \in Occupants(Kernel, slot, time)
      BY <3>1, <3>3 DEF Occupants, Seen
    <3> QED
      BY <3>2, <3>3
  <2>2. time - 1 \in settled /\ (time \in settled \/ (time = clock /\ queue = <<>>)) /\ time \in Nat
    BY <1>0, <1>2 DEF Settled
  <2>3. ASSUME NEW k \in DOMAIN kernel_modules, Covers(kernel_modules[k], slot, time)
        PROVE  kernel_modules[k].file_name \in Occupants(Kernel, slot, time)
    <3>1. EntryAt(k, kernel_modules[k].file_name, slot, time)
      BY <2>3 DEF EntryAt
    <3>2. InTime(slot, kernel_modules[k].file_name, time)
      BY <1>0, <1>1, <1>2, <3>1 DEF DriverInv, Sound
    <3> QED
      BY <2>1, <2>2, <3>2 DEF InTime
  <2>4. ASSUME NEW f \in Occupants(Kernel, slot, time)
        PROVE  \E k \in DOMAIN kernel_modules : Covers(kernel_modules[k], slot, time)
    <3>1. Seen(Kernel, slot, f, time) /\ f \in Files
      BY <2>1, <1>0 DEF Seen, Typed, Occupancy
    <3> QED
      BY <1>0, <2>2, <3>1 DEF DriverInv, Complete, EntryAt
  <2> QED
    BY <2>3, <2>4
<1>3. CASE time > clock
  <2>1. queue = <<>>
    BY <1>0, <1>3 DEF Settled
  <2>2. \A f : f \in Occupants(Kernel, slot, time) <=> Driver(f, slot) \in mapped
    <3>1. ASSUME NEW f, f \in Occupants(Kernel, slot, time)
          PROVE  Driver(f, slot) \in mapped
      <4>1. PICK m \in mapped : m.at = Kernel /\ m.slot = slot /\ m.file = f
        BY <1>3, <3>1 DEF Occupants
      <4>2. m = Driver(f, slot)
        BY <1>0, <4>1 DEF Typed, Mapping, Driver
      <4> QED
        BY <4>2
    <3>2. ASSUME NEW f, Driver(f, slot) \in mapped
          PROVE  f \in Occupants(Kernel, slot, time)
      <4>1. Driver(f, slot).at = Kernel /\ Driver(f, slot).slot = slot /\ Driver(f, slot).file = f
        BY DEF Driver
      <4> QED
        BY <1>3, <3>2, <4>1 DEF Occupants
    <3> QED
      BY <3>1, <3>2
  <2>3. \A f \in Files, k \in DOMAIN kernel_modules :
            OpenAt(k, f, slot) <=> kernel_modules[k].file_name = f /\ Covers(kernel_modules[k], slot, time)
    BY <1>0, <1>1, <1>3 DEF OpenAt, Covers
  <2>4. \A f \in Files : Driver(f, slot) \in mapped <=> \E k \in DOMAIN kernel_modules : OpenAt(k, f, slot)
    BY <1>0, <2>1 DEF DriverInv, MappedOpen, OpenInv, LoadsMapped
  <2>5. \A f : Driver(f, slot) \in mapped => f \in Files
    <3>1. \A f : Driver(f, slot).file = f
      BY DEF Driver
    <3> QED
      BY <1>0, <3>1 DEF Typed, Mapping
  <2> QED
    BY <1>1, <2>2, <2>3, <2>4, <2>5
<1>4. CASE time < 1
  <2>1. \A k \in DOMAIN kernel_modules : ~Covers(kernel_modules[k], slot, time)
    BY <1>1, <1>4 DEF Covers
  <2>2. Occupants(Kernel, slot, time) = {}
    <3>1. \A h \in history : h.time # time
      BY <1>0, <1>4, BoundsAssumption DEF Typed, Occupancy
    <3> QED
      BY <1>0, <1>4, <3>1 DEF Occupants
  <2> QED
    BY <2>1, <2>2
<1> QED
  BY <1>0, <1>2, <1>3, <1>4

\* While the log is on and every event is valid, a frame in a driver, of an event
\* of any process, is named by a driver that occupied its address in the tick the
\* time of lookup stands for, whatever came, went and moved before and since, if
\* the receiver had caught up at the begin and at the end of that tick; and by
\* nothing if there was no driver.  The time of lookup is the local time of the
\* event, read as the tables read it.
THEOREM FramesOfDrivers == Recording => []DriverFrames
<1>1. TypeInv /\ OpenInv /\ DriverInv => DriverFrames
  <2> SUFFICES ASSUME TypeInv, OpenInv, DriverInv, NEW time \in LookupTimes, Settled(time),
                      NEW pid \in Pids \cup {Kernel}, NEW slot \in DriverSlots
               PROVE  /\ FrameNames(pid, slot, time) \subseteq Occupants(Kernel, slot, time)
                      /\ Occupants(Kernel, slot, time) # {} => FrameNames(pid, slot, time) # {}
    BY DEF DriverFrames
  <2> DEFINE k == FrameModule(kernel_modules, slot, time)
  <2>1. time \in Int
    BY BiasesAssumption, BoundsAssumption DEF LookupTimes, LocalTime, TypeInv, Typed
  <2>2. FrameNames(pid, slot, time) = IF k # 0 THEN {kernel_modules[k].file_name} ELSE {}
    BY NoDriverThere DEF FrameNames
  <2>3. \/ k \in DOMAIN kernel_modules /\ k # 0 /\ Covers(kernel_modules[k], slot, time)
        \/ k = 0 /\ \A i \in DOMAIN kernel_modules : ~Covers(kernel_modules[i], slot, time)
    BY FirstCovers DEF TypeInv, Typed
  <2> HIDE DEF k
  <2> QED
    BY <2>1, <2>2, <2>3, KernelCovers
<1>2. Recording => []TypeInv
  BY TypeInvariant, RecordingIsSpec
<1> QED
  BY <1>1, <1>2, OpenInvariant, DriverInvariant, PTL

-----------------------------------------------------------------------------
(* Images of processes, while no process number comes back: the table of a *)
(* process is filled once, and only its end closes what it holds.          *)

Image(p, f, s) == [at |-> p, file |-> f, slot |-> s]

LoadAt(j, p, f, s) == ImageAt(j, p) /\ queue[j].file = f /\ queue[j].slot = s
ExecAt(j, p) == queue[j].kind = "PROC_exec" /\ queue[j].pid = p

\* A module in the table of a process.
Holds(info, m) == \E i \in DOMAIN info.modules : m = info.modules[i]
Entry(p, m) == \E k \in DOMAIN proc_infos : proc_infos[k].proc_id = p /\ Holds(proc_infos[k], m)

\* Images belong to processes that run, and a process starts once.
ImagesLive == \A m \in mapped : m.at # Kernel => m.at \in living

StartsOnce ==
    /\ \A p \in Pids : Known(p) => p \in started
    /\ \A p \in Pids, j \in DOMAIN queue :
        ExecAt(j, p) =>
            /\ p \in started /\ ~Known(p)
            /\ \A i \in DOMAIN queue : ExecAt(i, p) => i = j

\* What a protected process had mapped at the start is in no table.
Unread(p, s) == p \in Protected /\ s = FirstSlot(p)

\* An image that is mapped has an open entry or its loading in the queue.
ImagesOpen == \A p \in Pids, f \in Files, s \in Slots :
    Image(p, f, s) \in mapped =>
        \/ \E j \in DOMAIN queue : LoadAt(j, p, f, s)
        \/ \E m \in Module(ImageSlots) :
                Entry(p, m) /\ m.file_name = f /\ m.base_addr = s /\ m.end_time = 0
        \/ Unread(p, s)

\* What was mapped in a tick at whose end the receiver had caught up has an entry
\* that covers it, and what was in the table was mapped by the time it starts.
Recorded(p, f, s, t) == \E m \in Module(ImageSlots) : Entry(p, m) /\ m.file_name = f /\ Covers(m, s, t)

ImagesComplete == \A p \in Pids, f \in Files, s \in Slots, t \in Nat :
    Seen(p, s, f, t) =>
        \/ /\ t \in settled => Recorded(p, f, s, t)
           /\ t = clock => Recorded(p, f, s, t) \/ \E j \in DOMAIN queue : LoadAt(j, p, f, s)
        \/ Unread(p, s)

SeenBy(p, s, f, t) == \E then \in 1 .. t : Seen(p, s, f, then)

ImagesSound == \A p \in Pids :
    /\ \A f \in Files, s \in Slots, j \in DOMAIN queue : LoadAt(j, p, f, s) => SeenBy(p, s, f, clock)
    /\ \A m \in Module(ImageSlots) : Entry(p, m) =>
        /\ SeenBy(p, m.base_addr, m.file_name, m.start_time)
        /\ m.start_time <= clock /\ m.end_time <= clock

ImageInv == ImagesLive /\ StartsOnce /\ ImagesOpen /\ ImagesComplete /\ ImagesSound

\* A module that its process leaves behind.
AtEnd(n) == [n EXCEPT !.end_time = clock]

\* What an event makes of the modules of an entry.
LEMMA ChangedModules ==
    ASSUME Typed, NEW e \in Event, NEW info \in Info, ~(info.proc_id = e.pid /\ e.kind = "PROC_exec")
    PROVE  /\ Changed(e, info).proc_id = info.proc_id
           /\ \A m : Holds(Changed(e, info), m) <=>
                IF info.proc_id = e.pid /\ e.kind = "EXEC_destroy"
                THEN \E n : Holds(info, n) /\ m = AtEnd(n)
                ELSE \/ Holds(info, m)
                     \/ /\ info.proc_id = e.pid /\ e.kind = "EXEC_module_load"
                        /\ m = NewModule(e.file, e.slot)
<1> DEFINE MS == Seq(Module(ImageSlots))
           INFO == [proc_id : Pids, start_time : 0 .. MaxTime, end_time : 0 .. MaxTime, modules : MS]
<1>1. info \in INFO
  BY DEF Info
<1>2. info.modules \in Seq(Module(ImageSlots))
  BY DEF Info
<1> HIDE DEF MS
<1>3. CASE info.proc_id = e.pid /\ e.kind = "EXEC_destroy"
  <2> DEFINE ended == [i \in DOMAIN info.modules |-> [info.modules[i] EXCEPT !.end_time = clock]]
  <2>1. Changed(e, info) = Ended(info)
    BY <1>3 DEF Changed
  <2>2. /\ \A i \in DOMAIN info.modules : ended[i] = AtEnd(info.modules[i])
        /\ DOMAIN ended = DOMAIN info.modules
    BY DEF AtEnd
  <2> HIDE DEF ended
  <2>3. Ended(info).modules = ended /\ Ended(info).proc_id = info.proc_id
    BY <1>1 DEF Ended, ended
  <2>4. \A m : Holds(Ended(info), m) <=> \E i \in DOMAIN info.modules : m = ended[i]
    BY <2>2, <2>3 DEF Holds
  <2>5. \A m : Holds(Ended(info), m) <=> \E n : Holds(info, n) /\ m = AtEnd(n)
    BY <2>2, <2>4 DEF Holds
  <2> QED
    BY <1>3, <2>1, <2>3, <2>5
<1>4. CASE info.proc_id = e.pid /\ e.kind = "EXEC_module_load"
  <2> DEFINE new == NewModule(e.file, e.slot)
  <2>1. Changed(e, info) = WithModule(info, e.file, e.slot)
    BY <1>4 DEF Changed
  <2>2. /\ WithModule(info, e.file, e.slot).modules = Append(info.modules, new)
        /\ WithModule(info, e.file, e.slot).proc_id = info.proc_id
    BY <1>1 DEF WithModule
  <2> HIDE DEF new
  <2>3. /\ DOMAIN Append(info.modules, new) = DOMAIN info.modules \cup {Len(info.modules) + 1}
        /\ \A i \in DOMAIN info.modules : Append(info.modules, new)[i] = info.modules[i]
        /\ Append(info.modules, new)[Len(info.modules) + 1] = new
    BY <1>2
  <2>4. \A m : Holds(WithModule(info, e.file, e.slot), m) <=> Holds(info, m) \/ m = new
    BY <2>2, <2>3 DEF Holds
  <2> QED
    BY <1>4, <2>1, <2>2, <2>4 DEF new
<1>5. CASE ~(info.proc_id = e.pid /\ e.kind \in {"EXEC_destroy", "EXEC_module_load"})
  <2>1. Changed(e, info) = info
    BY <1>5 DEF Changed
  <2> QED
    BY <1>5, <2>1
<1> QED
  BY <1>3, <1>4, <1>5

\* What an event makes of the modules of a process.
LEMMA ReceiveImages ==
    ASSUME TypeInv, NEW e \in Event, process_proc_module_info(e),
           e.kind = "PROC_exec" => ~Known(e.pid),
           e.kind = "EXEC_module_load" => Known(e.pid)
    PROVE  /\ \A p : Known(p)' <=> Known(p) \/ (e.kind = "PROC_exec" /\ e.pid = p)
           /\ \A p, m : Entry(p, m)' <=>
                IF p = e.pid /\ e.kind = "EXEC_destroy"
                THEN \E n : Entry(p, n) /\ m = AtEnd(n)
                ELSE \/ Entry(p, m)
                     \/ p = e.pid /\ e.kind = "EXEC_module_load" /\ m = NewModule(e.file, e.slot)
<1>0. Typed /\ \A k \in DOMAIN proc_infos : proc_infos[k] \in Info
  BY DEF TypeInv, Typed
<1>1. Kept /\ (e.kind = "PROC_exec" => Known(e.pid)')
  BY <1>0, ReceiveTables
<1>2. ASSUME NEW k \in DOMAIN proc_infos
      PROVE  k \in DOMAIN proc_infos' /\ proc_infos'[k] = Changed(e, proc_infos[k])
  <2>1. k \in DOMAIN proc_infos'
    BY <1>1 DEF Kept
  <2> QED
    BY <2>1, ReceiveEntries
<1>3. ASSUME NEW k \in DOMAIN proc_infos', k \notin DOMAIN proc_infos
      PROVE  /\ e.kind = "PROC_exec" /\ proc_infos'[k].proc_id = e.pid
             /\ ~\E m : Holds(proc_infos'[k], m)
  <2>1. /\ e.kind = "PROC_exec"
        /\ proc_infos'[k] = [proc_id |-> e.pid, start_time |-> clock, end_time |-> 0, modules |-> <<>>]
    BY <1>3, ReceiveEntries
  <2> QED
    BY <2>1 DEF Holds
<1>4. ASSUME NEW k \in DOMAIN proc_infos
      PROVE  /\ proc_infos'[k].proc_id = proc_infos[k].proc_id
             /\ \A m : Holds(proc_infos'[k], m) <=>
                    IF proc_infos[k].proc_id = e.pid /\ e.kind = "EXEC_destroy"
                    THEN \E n : Holds(proc_infos[k], n) /\ m = AtEnd(n)
                    ELSE \/ Holds(proc_infos[k], m)
                         \/ /\ proc_infos[k].proc_id = e.pid /\ e.kind = "EXEC_module_load"
                            /\ m = NewModule(e.file, e.slot)
  <2>1. proc_infos[k] \in Info /\ ~(proc_infos[k].proc_id = e.pid /\ e.kind = "PROC_exec")
    BY <1>0 DEF Known
  <2> QED
    BY <1>0, <1>2, <2>1, ChangedModules
<1>5. \A p : Known(p)' <=> Known(p) \/ (e.kind = "PROC_exec" /\ e.pid = p)
  BY <1>1, <1>2, <1>3, <1>4 DEF Known
<1>6. ASSUME NEW p, NEW m
      PROVE  Entry(p, m)' <=> \E k \in DOMAIN proc_infos :
                                proc_infos[k].proc_id = p /\ Holds(proc_infos'[k], m)
  BY <1>2, <1>3, <1>4 DEF Entry, Holds
<1>7. ASSUME NEW p, NEW m, p = e.pid, e.kind = "EXEC_destroy"
      PROVE  Entry(p, m)' <=> \E n : Entry(p, n) /\ m = AtEnd(n)
  <2>1. ASSUME NEW k \in DOMAIN proc_infos, proc_infos[k].proc_id = p
        PROVE  Holds(proc_infos'[k], m) <=> \E n : Holds(proc_infos[k], n) /\ m = AtEnd(n)
    BY <1>4, <1>7, <2>1
  <2>2. Entry(p, m)' <=> \E k \in DOMAIN proc_infos :
            proc_infos[k].proc_id = p /\ \E n : Holds(proc_infos[k], n) /\ m = AtEnd(n)
    BY <1>6, <2>1
  <2> QED
    BY <2>2 DEF Entry
<1>8. ASSUME NEW p, NEW m, ~(p = e.pid /\ e.kind = "EXEC_destroy")
      PROVE  Entry(p, m)' <=>
                \/ Entry(p, m)
                \/ p = e.pid /\ e.kind = "EXEC_module_load" /\ m = NewModule(e.file, e.slot)
  BY <1>4, <1>6, <1>8 DEF Entry, Known
<1> QED
  BY <1>5, <1>7, <1>8

LEMMA ImagesMoved ==
    ASSUME Typed, queue # <<>>, queue' = Tail(queue), NEW e, e = Head(queue)
    PROVE  /\ \A j \in DOMAIN queue' :
                /\ j + 1 \in DOMAIN queue /\ j + 1 # 1
                /\ \A p, f, s : LoadAt(j, p, f, s)' <=> LoadAt(j + 1, p, f, s)
                /\ \A p : ExecAt(j, p)' <=> ExecAt(j + 1, p)
           /\ \A j \in DOMAIN queue : j = 1 \/ \E i \in DOMAIN queue' : i + 1 = j
           /\ 1 \in DOMAIN queue
           /\ \A p, f, s : LoadAt(1, p, f, s) <=>
                e.kind = "EXEC_module_load" /\ e.pid = p /\ e.file = f /\ e.slot = s
           /\ \A p : ExecAt(1, p) <=> e.kind = "PROC_exec" /\ e.pid = p
           /\ \A p : ExitAt(1, p) <=> e.kind = "EXEC_destroy" /\ e.pid = p
<1>1. PICK last \in Nat :
        /\ DOMAIN queue = 1 .. last + 1 /\ DOMAIN queue' = 1 .. last
        /\ e = queue[1]
        /\ \A j \in 1 .. last : queue'[j] = queue[j + 1]
  BY Dequeued
<1>2. \A j \in DOMAIN queue' :
        /\ j + 1 \in DOMAIN queue /\ j + 1 # 1
        /\ \A p, f, s : LoadAt(j, p, f, s)' <=> LoadAt(j + 1, p, f, s)
        /\ \A p : ExecAt(j, p)' <=> ExecAt(j + 1, p)
  BY <1>1 DEF LoadAt, ImageAt, ExecAt
<1>3. ASSUME NEW j \in DOMAIN queue, j # 1
      PROVE  \E i \in DOMAIN queue' : i + 1 = j
  <2>1. j - 1 \in DOMAIN queue' /\ (j - 1) + 1 = j
    BY <1>1, <1>3
  <2> QED
    BY <2>1
<1>4. /\ 1 \in DOMAIN queue
      /\ \A p, f, s : LoadAt(1, p, f, s) <=>
            e.kind = "EXEC_module_load" /\ e.pid = p /\ e.file = f /\ e.slot = s
      /\ \A p : ExecAt(1, p) <=> e.kind = "PROC_exec" /\ e.pid = p
      /\ \A p : ExitAt(1, p) <=> e.kind = "EXEC_destroy" /\ e.pid = p
  BY <1>1 DEF LoadAt, ImageAt, ExecAt, ExitAt
<1> QED
  BY <1>2, <1>3, <1>4

LEMMA ImagesGrown ==
    ASSUME Typed, NEW e \in Event, queue' = Append(queue, e)
    PROVE  \E last \in Nat :
           /\ DOMAIN queue = 1 .. last /\ DOMAIN queue' = 1 .. last + 1
           /\ \A j \in 1 .. last : /\ \A p, f, s : LoadAt(j, p, f, s)' <=> LoadAt(j, p, f, s)
                                   /\ \A p : ExecAt(j, p)' <=> ExecAt(j, p)
           /\ \A p, f, s : LoadAt(last + 1, p, f, s)' <=>
                e.kind = "EXEC_module_load" /\ e.pid = p /\ e.file = f /\ e.slot = s
           /\ \A p : ExecAt(last + 1, p)' <=> e.kind = "PROC_exec" /\ e.pid = p
<1>1. PICK last \in Nat :
        /\ DOMAIN queue = 1 .. last /\ DOMAIN queue' = 1 .. last + 1
        /\ queue'[last + 1] = e
        /\ \A j \in 1 .. last : queue'[j] = queue[j]
  BY Enqueued
<1> QED
  BY <1>1 DEF LoadAt, ImageAt, ExecAt

LEMMA ImageInit ==
    ASSUME SnapshotFits
    PROVE  Init => ImageInv
<1> SUFFICES ASSUME Init PROVE ImageInv
  OBVIOUS
<1> DEFINE first(p) == [file_name |-> FirstFile, base_addr |-> FirstSlot(p), start_time |-> 1, end_time |-> 0]
<1>1. queue = <<>> /\ DOMAIN queue = {} /\ clock = 1 /\ started = Resident /\ living = Resident
      /\ settled = {0}
  BY DEF Init
<1>2. /\ \A p : Known(p) <=> p \in Resident
      /\ \A k \in DOMAIN proc_infos :
            proc_infos[k].modules = SnapshotModules(proc_infos[k].proc_id)
  <2>1. \A p : Snapshot(p).modules = SnapshotModules(p)
    BY DEF Snapshot
  <2> QED
    BY <2>1, SnapshotTables
<1>3. \A p : SnapshotModules(p) = IF p \in Protected THEN <<>> ELSE <<first(p)>>
  BY DEF SnapshotModules
<1>4. \A p : /\ first(p).file_name = FirstFile /\ first(p).base_addr = FirstSlot(p)
             /\ first(p).start_time = 1 /\ first(p).end_time = 0
  OBVIOUS
<1>5. \A p \in Pids : first(p) \in Module(ImageSlots)
  BY FirstTyped, BoundsAssumption DEF Module
<1> HIDE DEF first
<1>6. \A p, m : Entry(p, m) <=> p \in Resident \ Protected /\ m = first(p)
  <2>1. \A k \in DOMAIN proc_infos : \A m : Holds(proc_infos[k], m) <=>
            proc_infos[k].proc_id \notin Protected /\ m = first(proc_infos[k].proc_id)
    BY <1>2, <1>3 DEF Holds
  <2> QED
    BY <1>2, <2>1 DEF Entry, Known
<1>7. \A m \in mapped : m.at \in Resident \cup {Kernel} /\ m.file = FirstFile /\ m.slot = FirstSlot(m.at)
  BY DEF Init, Running
<1>8. \A p \in Pids : \A f, s :
        Image(p, f, s) \in mapped => p \in Resident /\ f = FirstFile /\ s = FirstSlot(p)
  <2>1. \A p, f, s : Image(p, f, s).at = p /\ Image(p, f, s).file = f /\ Image(p, f, s).slot = s
    BY DEF Image
  <2> QED
    BY <1>7, <2>1, TablesAssumption
<1>9. \A p \in Pids : \A f, s, t :
        Seen(p, s, f, t) => p \in Resident /\ f = FirstFile /\ s = FirstSlot(p) /\ t = 1
  <2> SUFFICES ASSUME NEW p \in Pids, NEW f, NEW s, NEW t, Seen(p, s, f, t)
               PROVE  p \in Resident /\ f = FirstFile /\ s = FirstSlot(p) /\ t = 1
    OBVIOUS
  <2>1. PICK m \in mapped :
            [at |-> p, slot |-> s, file |-> f, time |-> t]
                = [at |-> m.at, slot |-> m.slot, file |-> m.file, time |-> 1]
    BY DEF Init, Seen
  <2>2. p = m.at /\ s = m.slot /\ f = m.file /\ t = 1
    BY <2>1
  <2> QED
    BY <1>7, <2>2, TablesAssumption
<1>10. \A p \in Resident : SeenBy(p, FirstSlot(p), FirstFile, 1)
  <2> SUFFICES ASSUME NEW p \in Resident PROVE Seen(p, FirstSlot(p), FirstFile, 1)
    BY DEF SeenBy
  <2> DEFINE m == [at |-> p, file |-> FirstFile, slot |-> FirstSlot(p)]
  <2>1. m \in mapped /\ m.at = p /\ m.file = FirstFile /\ m.slot = FirstSlot(p)
    BY DEF Init, Running
  <2> HIDE DEF m
  <2> QED
    BY <2>1 DEF Init, Seen
<1>11. ImagesLive
  BY <1>1, <1>7 DEF ImagesLive
<1>12. StartsOnce
  BY <1>1, <1>2 DEF StartsOnce
<1>13. ImagesOpen
  BY <1>4, <1>5, <1>6, <1>8 DEF ImagesOpen, Unread
<1>14. ImagesComplete
  <2>1. \A p \in Pids : p \in Resident \ Protected => Recorded(p, FirstFile, FirstSlot(p), 1)
    BY <1>4, <1>5, <1>6 DEF Recorded, Covers
  <2> QED
    BY <1>1, <1>9, <2>1 DEF ImagesComplete, Unread
<1>15. ImagesSound
  BY <1>1, <1>4, <1>6, <1>10 DEF ImagesSound
<1> QED
  BY <1>11, <1>12, <1>13, <1>14, <1>15 DEF ImageInv

\* How the traced system moves the images: nothing is mapped but by an event.
Reports(e) ==
    /\ queue' = Append(queue, e) /\ UNCHANGED <<clock, settled, proc_infos>>
    /\ started \subseteq started'
    /\ e.kind = "PROC_exec" => e.pid \notin started /\ e.pid \in started'
    /\ \A p \in Pids, f \in Files, s \in Slots :
        Image(p, f, s) \in mapped' =>
            \/ Image(p, f, s) \in mapped
            \/ e.kind = "EXEC_module_load" /\ e.pid = p /\ e.file = f /\ e.slot = s
    /\ \A p \in Pids, f \in Files, s \in Slots, t \in Nat :
        Seen(p, s, f, t)' <=>
            \/ Seen(p, s, f, t)
            \/ e.kind = "EXEC_module_load" /\ e.pid = p /\ e.file = f /\ e.slot = s /\ t = clock

LEMMA TracedImages ==
    ASSUME Reuses = FALSE, Typed, ImagesLive, Traced
    PROVE  /\ ImagesLive'
           /\ \/ \E e \in Event : Reports(e)
              \/ UNCHANGED <<clock, settled, started, proc_infos, history, queue>> /\ mapped' \subseteq mapped
              \/ Tick
<1> USE DEF Kinds, ProcessKinds, tables
<1>1. ASSUME NEW p \in Pids, SystemExec(p)
      PROVE  ImagesLive' /\ \E e \in Event : Reports(e)
  <2>1. PICK e \in Event :
            /\ e.kind = "PROC_exec" /\ e.pid = p
            /\ queue' = Append(queue, e) /\ UNCHANGED <<clock, settled, proc_infos>>
    BY <1>1, FirstTyped, RaiseTyped DEF SystemExec
  <2>2. /\ UNCHANGED <<mapped, history>> /\ p \notin started
        /\ started' = started \cup {p} /\ living' = living \cup {p}
    BY <1>1 DEF SystemExec
  <2> QED
    BY <2>1, <2>2 DEF Reports, Seen, ImagesLive
<1>2. ASSUME NEW p \in Pids, SystemExit(p)
      PROVE  ImagesLive' /\ \E e \in Event : Reports(e)
  <2>1. PICK e \in Event :
            /\ e.kind = "EXEC_destroy"
            /\ queue' = Append(queue, e) /\ UNCHANGED <<clock, settled, proc_infos>>
    BY <1>2, FirstTyped, RaiseTyped DEF SystemExit
  <2>2. /\ UNCHANGED <<started, history>> /\ living' = living \ {p}
        /\ mapped' = {m \in mapped : m.at # p}
    BY <1>2 DEF SystemExit
  <2> QED
    BY <2>1, <2>2 DEF Reports, Seen, ImagesLive
<1>3. ASSUME NEW p \in Pids, NEW f \in Files, NEW s \in ImageSlots, SystemMapImage(p, f, s)
      PROVE  ImagesLive' /\ \E e \in Event : Reports(e)
  <2>1. PICK e \in Event :
            /\ e.kind = "EXEC_module_load" /\ e.pid = p /\ e.file = f /\ e.slot = s
            /\ queue' = Append(queue, e) /\ UNCHANGED <<clock, settled, proc_infos>>
    BY <1>3, RaiseTyped DEF SystemMapImage, Slots
  <2>2. /\ mapped' = mapped \cup {Image(p, f, s)} /\ UNCHANGED <<started, living>> /\ p \in living
        /\ history' = history \cup {[at |-> p, slot |-> s, file |-> f, time |-> clock]}
    BY <1>3 DEF SystemMapImage, Map, Place, Image
  <2>3. /\ Image(p, f, s).at = p
        /\ \A q, g, x : Image(q, g, x) = Image(p, f, s) <=> q = p /\ g = f /\ x = s
    BY DEF Image
  <2>4. \A q, g, x, t : Seen(q, x, g, t)' <=>
            Seen(q, x, g, t) \/ (p = q /\ f = g /\ s = x /\ t = clock)
    BY <2>2 DEF Seen
  <2>5. ImagesLive'
    BY <2>2, <2>3 DEF ImagesLive
  <2>6. \A q, g, x : Image(q, g, x) \in mapped' =>
            Image(q, g, x) \in mapped \/ (p = q /\ f = g /\ s = x)
    BY <2>2, <2>3
  <2> QED
    BY <2>1, <2>2, <2>4, <2>5, <2>6 DEF Reports
<1>4. ASSUME NEW f \in Files, NEW s \in DriverSlots, SystemLoadDriver(f, s)
      PROVE  ImagesLive' /\ \E e \in Event : Reports(e)
  <2>1. PICK e \in Event :
            /\ e.kind = "SYS_load_mod"
            /\ queue' = Append(queue, e) /\ UNCHANGED <<clock, settled, proc_infos>>
    BY <1>4, RaiseTyped DEF SystemLoadDriver, Slots
  <2>2. /\ mapped' = mapped \cup {Driver(f, s)} /\ UNCHANGED <<started, living>>
        /\ history' = history \cup {[at |-> Kernel, slot |-> s, file |-> f, time |-> clock]}
    BY <1>4 DEF SystemLoadDriver, Map, Place, Driver
  <2>3. Driver(f, s).at = Kernel /\ \A p, g, x : Image(p, g, x).at = p
    BY DEF Driver, Image
  <2>4. \A p \in Pids : p # Kernel
    BY TablesAssumption
  <2>5. \A p \in Pids : \A g, x, t : Seen(p, x, g, t)' <=> Seen(p, x, g, t)
    BY <2>2, <2>4 DEF Seen
  <2>6. \A p \in Pids : \A g, x : Image(p, g, x) \in mapped' => Image(p, g, x) \in mapped
    BY <2>2, <2>3, <2>4
  <2>7. ImagesLive'
    BY <2>2, <2>3 DEF ImagesLive
  <2> QED
    BY <2>1, <2>2, <2>5, <2>6, <2>7 DEF Reports
<1>5. ASSUME NEW m \in mapped, SystemUnloadDriver(m)
      PROVE  ImagesLive' /\ \E e \in Event : Reports(e)
  <2>0. m.file \in Files /\ m.slot \in Slots
    BY DEF Typed, Mapping
  <2>1. PICK e \in Event :
            /\ e.kind = "SYS_unload_mod"
            /\ queue' = Append(queue, e) /\ UNCHANGED <<clock, settled, proc_infos>>
    BY <1>5, <2>0, RaiseTyped DEF SystemUnloadDriver
  <2>2. mapped' = mapped \ {m} /\ UNCHANGED <<started, living, history>>
    BY <1>5 DEF SystemUnloadDriver
  <2> QED
    BY <2>1, <2>2 DEF Reports, Seen, ImagesLive
<1>6. ASSUME NEW m \in mapped, SystemUnmapImage(m)
      PROVE  /\ ImagesLive'
             /\ UNCHANGED <<clock, settled, started, proc_infos, history, queue>> /\ mapped' \subseteq mapped
  BY <1>6 DEF SystemUnmapImage, ImagesLive
<1>7. ASSUME Tick PROVE ImagesLive'
  BY <1>7 DEF Tick, system, ImagesLive
<1> QED
  BY <1>1, <1>2, <1>3, <1>4, <1>5, <1>6, <1>7 DEF Traced

LEMMA ImageReport ==
    ASSUME Typed, ImageInv, NEW e \in Event, Reports(e)
    PROVE  StartsOnce' /\ ImagesOpen' /\ ImagesComplete' /\ ImagesSound'
<1>0. /\ queue' = Append(queue, e) /\ clock' = clock /\ settled' = settled /\ proc_infos' = proc_infos
      /\ started \subseteq started' /\ clock \in Nat /\ 1 <= clock /\ clock \notin settled
  BY BoundsAssumption DEF Reports, Typed
<1>1. /\ \A p : Known(p)' <=> Known(p)
      /\ \A p, m : Entry(p, m)' <=> Entry(p, m)
      /\ \A p, f, s, t : Recorded(p, f, s, t)' <=> Recorded(p, f, s, t)
  BY <1>0 DEF Known, Entry, Holds, Recorded
<1>2. PICK last \in Nat :
        /\ DOMAIN queue = 1 .. last /\ DOMAIN queue' = 1 .. last + 1
        /\ \A j \in 1 .. last : /\ \A p, f, s : LoadAt(j, p, f, s)' <=> LoadAt(j, p, f, s)
                                /\ \A p : ExecAt(j, p)' <=> ExecAt(j, p)
        /\ \A p, f, s : LoadAt(last + 1, p, f, s)' <=>
             e.kind = "EXEC_module_load" /\ e.pid = p /\ e.file = f /\ e.slot = s
        /\ \A p : ExecAt(last + 1, p)' <=> e.kind = "PROC_exec" /\ e.pid = p
  BY <1>0, ImagesGrown
<1>3. \A j \in DOMAIN queue' : j \in 1 .. last \/ j = last + 1
  BY <1>2
<1>4. 1 .. last \subseteq DOMAIN queue' /\ last + 1 \in DOMAIN queue'
  BY <1>2
<1>5. StartsOnce'
  <2>1. ASSUME NEW p \in Pids, NEW j \in DOMAIN queue', ExecAt(j, p)'
        PROVE  /\ p \in started' /\ ~Known(p)'
               /\ \A i \in DOMAIN queue' : ExecAt(i, p)' => i = j
    <3>1. CASE j \in 1 .. last
      <4>1. ExecAt(j, p) /\ j \in DOMAIN queue
        BY <1>2, <2>1, <3>1
      <4>2. p \in started /\ ~Known(p) /\ \A i \in DOMAIN queue : ExecAt(i, p) => i = j
        BY <4>1 DEF ImageInv, StartsOnce
      <4>3. ~(e.kind = "PROC_exec" /\ e.pid = p)
        BY <4>2 DEF Reports
      <4> QED
        BY <1>0, <1>1, <1>2, <1>3, <4>2, <4>3
    <3>2. CASE j = last + 1
      <4>1. e.kind = "PROC_exec" /\ e.pid = p
        BY <1>2, <2>1, <3>2
      <4>2. p \notin started /\ p \in started'
        BY <4>1 DEF Reports
      <4>3. ~Known(p) /\ \A i \in DOMAIN queue : ~ExecAt(i, p)
        BY <4>2 DEF ImageInv, StartsOnce
      <4> QED
        BY <1>1, <1>2, <1>3, <3>2, <4>2, <4>3
    <3> QED
      BY <1>3, <2>1, <3>1, <3>2
  <2>2. \A p \in Pids : Known(p)' => p \in started'
    BY <1>0, <1>1 DEF ImageInv, StartsOnce
  <2> QED
    BY <2>1, <2>2 DEF StartsOnce
<1>6. ImagesOpen'
  <2> SUFFICES ASSUME NEW p \in Pids, NEW f \in Files, NEW s \in Slots, Image(p, f, s) \in mapped'
               PROVE  \/ \E j \in DOMAIN queue' : LoadAt(j, p, f, s)'
                      \/ \E m \in Module(ImageSlots) :
                            Entry(p, m) /\ m.file_name = f /\ m.base_addr = s /\ m.end_time = 0
                      \/ Unread(p, s)
    BY <1>1 DEF ImagesOpen, Image, Unread
  <2>1. CASE e.kind = "EXEC_module_load" /\ e.pid = p /\ e.file = f /\ e.slot = s
    BY <1>2, <1>4, <2>1
  <2>2. CASE Image(p, f, s) \in mapped
    BY <1>2, <1>4, <2>2 DEF ImageInv, ImagesOpen
  <2> QED
    BY <2>1, <2>2 DEF Reports
<1>7. ImagesComplete'
  <2> SUFFICES ASSUME NEW p \in Pids, NEW f \in Files, NEW s \in Slots, NEW t \in Nat, Seen(p, s, f, t)'
               PROVE  \/ /\ t \in settled => Recorded(p, f, s, t)
                         /\ t = clock => \/ Recorded(p, f, s, t)
                                         \/ \E j \in DOMAIN queue' : LoadAt(j, p, f, s)'
                      \/ Unread(p, s)
    BY <1>0, <1>1 DEF ImagesComplete, Unread
  <2>1. CASE e.kind = "EXEC_module_load" /\ e.pid = p /\ e.file = f /\ e.slot = s /\ t = clock
    BY <1>0, <1>2, <1>4, <2>1
  <2>2. CASE Seen(p, s, f, t)
    <3>1. CASE \E j \in DOMAIN queue : LoadAt(j, p, f, s)
      <4>1. \E j \in DOMAIN queue' : LoadAt(j, p, f, s)'
        BY <1>2, <1>4, <3>1
      <4> QED
        BY <2>2, <4>1 DEF ImageInv, ImagesComplete
    <3>2. CASE ~\E j \in DOMAIN queue : LoadAt(j, p, f, s)
      BY <2>2, <3>2 DEF ImageInv, ImagesComplete
    <3> QED
      BY <3>1, <3>2
  <2> QED
    BY <2>1, <2>2 DEF Reports
<1>8. ImagesSound'
  <2>1. ASSUME NEW p \in Pids, NEW f \in Files, NEW s \in Slots, NEW t \in Nat, SeenBy(p, s, f, t)
        PROVE  SeenBy(p, s, f, t)'
    <3>1. PICK then \in 1 .. t : Seen(p, s, f, then)
      BY <2>1 DEF SeenBy
    <3>2. Seen(p, s, f, then)'
      BY <3>1 DEF Reports
    <3> QED
      BY <3>2 DEF SeenBy
  <2>2. ASSUME NEW p \in Pids, NEW f \in Files, NEW s \in Slots, NEW j \in DOMAIN queue',
               LoadAt(j, p, f, s)'
        PROVE  SeenBy(p, s, f, clock)'
    <3>1. CASE j \in 1 .. last
      <4>1. LoadAt(j, p, f, s) /\ j \in DOMAIN queue
        BY <1>2, <2>2, <3>1
      <4>2. SeenBy(p, s, f, clock)
        BY <4>1 DEF ImageInv, ImagesSound
      <4>3. PICK then \in 1 .. clock : Seen(p, s, f, then)
        BY <4>2 DEF SeenBy
      <4>4. Seen(p, s, f, then)'
        BY <1>0, <4>3 DEF Reports
      <4> QED
        BY <1>0, <4>4 DEF SeenBy
    <3>2. CASE j = last + 1
      <4>1. \A t \in Nat : t = clock => Seen(p, s, f, t)'
        BY <1>2, <2>2, <3>2 DEF Reports
      <4>2. \E then \in 1 .. clock : then = clock
        BY <1>0
      <4>3. \E then \in 1 .. clock : Seen(p, s, f, then)'
        BY <1>0, <4>1, <4>2
      <4> QED
        BY <1>0, <4>3 DEF SeenBy
    <3> QED
      BY <1>3, <2>2, <3>1, <3>2
  <2>3. ASSUME NEW p \in Pids, NEW m \in Module(ImageSlots), Entry(p, m)'
        PROVE  /\ SeenBy(p, m.base_addr, m.file_name, m.start_time)'
               /\ m.start_time <= clock /\ m.end_time <= clock
    <3>1. m.base_addr \in Slots /\ m.file_name \in Files /\ m.start_time \in Nat
      BY DEF Module, Slots
    <3> QED
      BY <1>1, <2>1, <2>3, <3>1 DEF ImageInv, ImagesSound
  <2> QED
    BY <1>0, <2>2, <2>3 DEF ImagesSound
<1> QED
  BY <1>5, <1>6, <1>7, <1>8

\* Only images went: nothing else the invariant speaks of changes.
LEMMA ImageStill ==
    ASSUME ImageInv, UNCHANGED <<clock, settled, started, proc_infos, history, queue>>, mapped' \subseteq mapped
    PROVE  StartsOnce' /\ ImagesOpen' /\ ImagesComplete' /\ ImagesSound'
<1>1. /\ \A p : Known(p)' <=> Known(p)
      /\ \A p, m : Entry(p, m)' <=> Entry(p, m)
      /\ \A j, p, f, s : LoadAt(j, p, f, s)' <=> LoadAt(j, p, f, s)
      /\ \A j, p : ExecAt(j, p)' <=> ExecAt(j, p)
      /\ \A p, s, f, t : Seen(p, s, f, t)' <=> Seen(p, s, f, t)
      /\ \A p, s, f, t : SeenBy(p, s, f, t)' <=> SeenBy(p, s, f, t)
      /\ \A p, s, f : SeenBy(p, s, f, clock)' <=> SeenBy(p, s, f, clock)
      /\ \A p, m : SeenBy(p, m.base_addr, m.file_name, m.start_time)'
                    <=> SeenBy(p, m.base_addr, m.file_name, m.start_time)
  BY DEF Known, Entry, Holds, LoadAt, ImageAt, ExecAt, Seen, SeenBy
<1>2. \A p, f, s, t : Recorded(p, f, s, t)' <=> Recorded(p, f, s, t)
  BY <1>1 DEF Recorded
<1>3. StartsOnce'
  BY <1>1 DEF ImageInv, StartsOnce
<1>4. ImagesOpen'
  BY <1>1 DEF ImageInv, ImagesOpen, Image, Unread
<1>5. ImagesComplete'
  BY <1>1, <1>2 DEF ImageInv, ImagesComplete, Unread
<1>6. ImagesSound'
  BY <1>1 DEF ImageInv, ImagesSound
<1> QED
  BY <1>3, <1>4, <1>5, <1>6

\* The time passes.  An image that is mapped has an open entry or is about to
\* get one.
LEMMA ImageTick ==
    ASSUME Typed, Dated, ImageInv, Tick
    PROVE  StartsOnce' /\ ImagesOpen' /\ ImagesComplete' /\ ImagesSound'
<1>0. /\ clock \in Nat /\ clock' = clock + 1 /\ settled \subseteq 0 .. clock - 1
      /\ settled' = IF queue = <<>> THEN settled \cup {clock} ELSE settled
      /\ queue = <<>> => DOMAIN queue = {}
      /\ UNCHANGED <<mapped, started, queue, proc_infos>>
  BY BoundsAssumption DEF Tick, system, tables, Typed
<1>1. /\ \A p : Known(p)' <=> Known(p)
      /\ \A p, m : Entry(p, m)' <=> Entry(p, m)
      /\ \A j, p, f, s : LoadAt(j, p, f, s)' <=> LoadAt(j, p, f, s)
      /\ \A j, p : ExecAt(j, p)' <=> ExecAt(j, p)
      /\ \A p, f, s, t : Recorded(p, f, s, t)' <=> Recorded(p, f, s, t)
  BY <1>0 DEF Known, Entry, Holds, LoadAt, ImageAt, ExecAt, Recorded
<1>2. history' = history \cup {[Place(m) EXCEPT !.time = clock + 1] : m \in mapped}
  BY DEF Tick
<1>3. \A p, s, f, t : Seen(p, s, f, t) => Seen(p, s, f, t)'
  BY <1>2 DEF Seen
<1>4. ASSUME NEW p, NEW f, NEW s, NEW t, Seen(p, s, f, t)', ~Seen(p, s, f, t)
      PROVE  Image(p, f, s) \in mapped /\ t = clock + 1
  <2>1. \A m : [Place(m) EXCEPT !.time = clock + 1]
                    = [at |-> m.at, slot |-> m.slot, file |-> m.file, time |-> clock + 1]
    BY DEF Place
  <2>2. PICK m \in mapped :
            [at |-> p, slot |-> s, file |-> f, time |-> t]
                = [at |-> m.at, slot |-> m.slot, file |-> m.file, time |-> clock + 1]
    BY <1>2, <1>4, <2>1 DEF Seen
  <2>3. m.at = p /\ m.slot = s /\ m.file = f /\ t = clock + 1
    BY <2>2
  <2>4. m = Image(p, f, s)
    BY <2>3 DEF Typed, Mapping, Image
  <2> QED
    BY <2>3, <2>4
<1>5. StartsOnce'
  BY <1>0, <1>1 DEF ImageInv, StartsOnce
<1>6. ImagesOpen'
  BY <1>0, <1>1 DEF ImageInv, ImagesOpen, Image, Unread
<1>7. ImagesComplete'
  <2> SUFFICES ASSUME NEW p \in Pids, NEW f \in Files, NEW s \in Slots, NEW t \in Nat, Seen(p, s, f, t)'
               PROVE  \/ /\ t \in settled' => Recorded(p, f, s, t)
                         /\ t = clock + 1 => \/ Recorded(p, f, s, t)
                                             \/ \E j \in DOMAIN queue : LoadAt(j, p, f, s)
                      \/ Unread(p, s)
    BY <1>0, <1>1 DEF ImagesComplete, Unread
  <2>1. CASE Seen(p, s, f, t)
    <3>1. t # clock + 1
      <4>1. t <= clock
        BY <2>1 DEF Dated, Seen
      <4> QED
        BY <1>0, <4>1
    <3>2. \/ /\ t \in settled => Recorded(p, f, s, t)
             /\ t = clock => Recorded(p, f, s, t) \/ \E j \in DOMAIN queue : LoadAt(j, p, f, s)
          \/ Unread(p, s)
      BY <2>1 DEF ImageInv, ImagesComplete
    <3> QED
      BY <1>0, <3>1, <3>2
  <2>2. CASE Image(p, f, s) \in mapped /\ t = clock + 1
    <3>1. t \notin settled'
      BY <1>0, <2>2
    <3>2. ASSUME NEW m \in Module(ImageSlots), Entry(p, m), m.file_name = f, m.base_addr = s, m.end_time = 0
          PROVE  Recorded(p, f, s, t)
      <4>1. m.start_time <= clock /\ m.start_time \in Int
        BY <3>2 DEF ImageInv, ImagesSound, Module
      <4>2. Covers(m, s, t)
        BY <1>0, <2>2, <3>2, <4>1 DEF Covers
      <4> QED
        BY <3>2, <4>2 DEF Recorded
    <3> QED
      BY <2>2, <3>1, <3>2 DEF ImageInv, ImagesOpen
  <2> QED
    BY <1>4, <2>1, <2>2
<1>8. ImagesSound'
  <2>1. ASSUME NEW p, NEW f, NEW s, NEW t, SeenBy(p, s, f, t)
        PROVE  SeenBy(p, s, f, t)'
    BY <1>3, <2>1 DEF SeenBy
  <2>2. ASSUME NEW p, NEW f, NEW s, SeenBy(p, s, f, clock)
        PROVE  SeenBy(p, s, f, clock)'
    BY <1>0, <1>3, <2>2 DEF SeenBy
  <2>3. ASSUME NEW p \in Pids, NEW m \in Module(ImageSlots), Entry(p, m)
        PROVE  /\ SeenBy(p, m.base_addr, m.file_name, m.start_time)'
               /\ m.start_time <= clock + 1 /\ m.end_time <= clock + 1
    <3>1. /\ SeenBy(p, m.base_addr, m.file_name, m.start_time)
          /\ m.start_time <= clock /\ m.end_time <= clock
      BY <2>3 DEF ImageInv, ImagesSound
    <3>2. m.start_time \in Int /\ m.end_time \in Int
      BY DEF Module
    <3> QED
      BY <1>0, <2>1, <3>1, <3>2
  <2>4. \A p \in Pids, f \in Files, s \in Slots, j \in DOMAIN queue :
            LoadAt(j, p, f, s) => SeenBy(p, s, f, clock)'
    BY <2>2 DEF ImageInv, ImagesSound
  <2> QED
    BY <1>0, <1>1, <2>3, <2>4 DEF ImagesSound
<1> QED
  BY <1>5, <1>6, <1>7, <1>8

LEMMA ImageReceive == TypeInv /\ KnownInv /\ GoneInv /\ Dated /\ ImageInv /\ ProcessEvent => ImageInv'
<1> SUFFICES ASSUME TypeInv, KnownInv, GoneInv, Dated, ImageInv, ProcessEvent PROVE ImageInv'
  OBVIOUS
<1>0. Typed
  BY DEF TypeInv
<1>1. PICK e \in Event :
        /\ queue # <<>> /\ e = Head(queue) /\ queue' = Tail(queue)
        /\ UNCHANGED <<clock, system, history, settled, process_log_sw>>
        /\ process_proc_module_info(e)
  BY <1>0, ReceiveCases DEF KnownInv
<1>2. /\ \A j \in DOMAIN queue' :
           /\ j + 1 \in DOMAIN queue /\ j + 1 # 1
           /\ \A p, f, s : LoadAt(j, p, f, s)' <=> LoadAt(j + 1, p, f, s)
           /\ \A p : ExecAt(j, p)' <=> ExecAt(j + 1, p)
      /\ \A j \in DOMAIN queue : j = 1 \/ \E i \in DOMAIN queue' : i + 1 = j
      /\ 1 \in DOMAIN queue
      /\ \A p, f, s : LoadAt(1, p, f, s) <=>
           e.kind = "EXEC_module_load" /\ e.pid = p /\ e.file = f /\ e.slot = s
      /\ \A p : ExecAt(1, p) <=> e.kind = "PROC_exec" /\ e.pid = p
      /\ \A p : ExitAt(1, p) <=> e.kind = "EXEC_destroy" /\ e.pid = p
  BY <1>0, <1>1, ImagesMoved
<1>3. /\ UNCHANGED <<clock, settled, living, started, mapped, history>> /\ clock \in Nat /\ clock # 0
      /\ clock \in 0 .. MaxTime
      /\ \A p, s, f, t : Seen(p, s, f, t)' <=> Seen(p, s, f, t)
      /\ \A p, s, f, t : SeenBy(p, s, f, t)' <=> SeenBy(p, s, f, t)
      /\ \A p, s, f : SeenBy(p, s, f, clock)' <=> SeenBy(p, s, f, clock)
      /\ \A p, m : SeenBy(p, m.base_addr, m.file_name, m.start_time)'
                    <=> SeenBy(p, m.base_addr, m.file_name, m.start_time)
  BY <1>0, <1>1, BoundsAssumption DEF system, Seen, SeenBy, Typed
<1>4. /\ e.file \in Files /\ e.slot \in Slots
      /\ e.kind = "EXEC_module_load" => e.slot \in ImageSlots
      /\ e.kind \in {"PROC_exec", "EXEC_destroy", "EXEC_module_load"} => e.pid \in Pids
  BY DEF Event, ProcessKinds
<1>5. e.kind = "PROC_exec" => ~Known(e.pid)
  BY <1>2, <1>4 DEF ImageInv, StartsOnce
<1>6. e.kind = "EXEC_module_load" => Known(e.pid)
  <2>1. Follows(1) /\ e = queue[1]
    BY <1>0, <1>1, Dequeued DEF KnownInv, InOrder
  <2> QED
    BY <2>1 DEF Follows, Announced
<1>7. /\ \A p : Known(p)' <=> Known(p) \/ (e.kind = "PROC_exec" /\ e.pid = p)
      /\ \A p, m : Entry(p, m)' <=>
           IF p = e.pid /\ e.kind = "EXEC_destroy"
           THEN \E n : Entry(p, n) /\ m = AtEnd(n)
           ELSE \/ Entry(p, m)
                \/ p = e.pid /\ e.kind = "EXEC_module_load" /\ m = NewModule(e.file, e.slot)
  BY <1>1, <1>5, <1>6, ReceiveImages
\* A process that ends has no image left.
<1>8. ASSUME e.kind = "EXEC_destroy" PROVE e.pid \in Pids /\ e.pid \notin living
  <2>1. e.pid \in Pids /\ ExitAt(1, e.pid)
    BY <1>2, <1>4, <1>8
  <2> QED
    BY <1>2, <2>1 DEF GoneInv, Exits, Dead
<1>9. \A m \in Module(ImageSlots) :
        /\ AtEnd(m) \in Module(ImageSlots) /\ AtEnd(m).file_name = m.file_name /\ AtEnd(m).base_addr = m.base_addr
        /\ AtEnd(m).start_time = m.start_time /\ AtEnd(m).end_time = clock
  BY <1>3 DEF AtEnd, Module
<1>10. PICK new :
         /\ e.kind = "EXEC_module_load" => new \in Module(ImageSlots)
         /\ new = NewModule(e.file, e.slot)
         /\ new.file_name = e.file /\ new.base_addr = e.slot
         /\ new.start_time = clock /\ new.end_time = 0
  <2>1. e.kind = "EXEC_module_load" => NewModule(e.file, e.slot) \in Module(ImageSlots)
    BY <1>0, <1>4, NewModuleTyped
  <2>2. /\ NewModule(e.file, e.slot).file_name = e.file /\ NewModule(e.file, e.slot).base_addr = e.slot
        /\ NewModule(e.file, e.slot).start_time = clock /\ NewModule(e.file, e.slot).end_time = 0
    BY DEF NewModule
  <2> QED
    BY <2>1, <2>2
<1>11. \A p, m : Entry(p, m) => m \in Module(ImageSlots)
  <2>1. \A k \in DOMAIN proc_infos : proc_infos[k] \in Info
    BY <1>0 DEF Typed
  <2>2. \A k \in DOMAIN proc_infos : proc_infos[k].modules \in Seq(Module(ImageSlots))
    BY <2>1 DEF Info
  <2>3. ASSUME NEW k \in DOMAIN proc_infos, NEW m, Holds(proc_infos[k], m)
        PROVE  m \in Module(ImageSlots)
    BY <2>2, <2>3 DEF Holds
  <2> QED
    BY <2>3 DEF Entry
<1>12. ImagesLive'
  BY <1>3 DEF ImageInv, ImagesLive
<1>13. StartsOnce'
  <2>1. ASSUME NEW p \in Pids, Known(p)'
        PROVE  p \in started
    BY <1>2, <1>7, <2>1 DEF ImageInv, StartsOnce
  <2>2. ASSUME NEW p \in Pids, NEW j \in DOMAIN queue', ExecAt(j, p)'
        PROVE  /\ p \in started /\ ~Known(p)'
               /\ \A i \in DOMAIN queue' : ExecAt(i, p)' => i = j
    <3>1. j + 1 \in DOMAIN queue /\ j + 1 # 1 /\ ExecAt(j + 1, p)
      BY <1>2, <2>2
    <3>2. p \in started /\ ~Known(p) /\ \A i \in DOMAIN queue : ExecAt(i, p) => i = j + 1
      BY <3>1 DEF ImageInv, StartsOnce
    <3>3. ~Known(p)'
      BY <1>2, <1>7, <3>1, <3>2
    <3>4. ASSUME NEW i \in DOMAIN queue', ExecAt(i, p)' PROVE i = j
      <4>1. i + 1 = j + 1
        BY <1>2, <3>2, <3>4
      <4>2. i \in Int /\ j \in Int
        BY <1>0, <1>1, Dequeued
      <4> QED
        BY <4>1, <4>2
    <3> QED
      BY <3>2, <3>3, <3>4
  <2> QED
    BY <1>3, <2>1, <2>2 DEF StartsOnce
<1>14. ImagesOpen'
  <2> SUFFICES ASSUME NEW p \in Pids, NEW f \in Files, NEW s \in Slots, Image(p, f, s) \in mapped
               PROVE  \/ \E j \in DOMAIN queue' : LoadAt(j, p, f, s)'
                      \/ \E m \in Module(ImageSlots) :
                            Entry(p, m)' /\ m.file_name = f /\ m.base_addr = s /\ m.end_time = 0
                      \/ Unread(p, s)
    BY <1>3 DEF ImagesOpen, Image, Unread
  <2>1. p \in living
    <3>1. Image(p, f, s).at = p /\ p # Kernel
      BY TablesAssumption DEF Image
    <3> QED
      BY <3>1 DEF ImageInv, ImagesLive
  <2>2. ~(e.kind = "EXEC_destroy" /\ e.pid = p)
    BY <1>8, <2>1
  <2>3. ASSUME NEW m \in Module(ImageSlots), Entry(p, m) PROVE Entry(p, m)'
    BY <1>7, <2>2, <2>3
  <2>4. CASE \E m \in Module(ImageSlots) : Entry(p, m) /\ m.file_name = f /\ m.base_addr = s /\ m.end_time = 0
    BY <2>3, <2>4
  <2>5. CASE \E j \in DOMAIN queue : LoadAt(j, p, f, s)
    <3>1. PICK j \in DOMAIN queue : LoadAt(j, p, f, s)
      BY <2>5
    <3>2. CASE j = 1
      <4>1. e.kind = "EXEC_module_load" /\ e.pid = p /\ e.file = f /\ e.slot = s
        BY <1>2, <3>1, <3>2
      <4>2. Entry(p, new)'
        BY <1>7, <1>10, <4>1
      <4> QED
        BY <1>10, <4>1, <4>2
    <3>3. CASE j # 1
      BY <1>2, <3>1, <3>3
    <3> QED
      BY <3>2, <3>3
  <2> QED
    BY <2>4, <2>5 DEF ImageInv, ImagesOpen
<1>15. ImagesComplete'
  <2> SUFFICES ASSUME NEW p \in Pids, NEW f \in Files, NEW s \in Slots, NEW t \in Nat, Seen(p, s, f, t)
               PROVE  \/ /\ t \in settled => Recorded(p, f, s, t)'
                         /\ t = clock => \/ Recorded(p, f, s, t)'
                                         \/ \E j \in DOMAIN queue' : LoadAt(j, p, f, s)'
                      \/ Unread(p, s)
    BY <1>3 DEF ImagesComplete, Unread
  <2>1. CASE Recorded(p, f, s, t)
    <3>1. PICK m \in Module(ImageSlots) : Entry(p, m) /\ m.file_name = f /\ Covers(m, s, t)
      BY <2>1 DEF Recorded
    <3>2. CASE p = e.pid /\ e.kind = "EXEC_destroy"
      <4>1. PICK n \in Module(ImageSlots) : n = AtEnd(m)
        BY <1>9
      <4>2. Entry(p, n)'
        BY <1>7, <3>1, <3>2, <4>1
      <4>3. clock >= t
        BY DEF Dated, Seen
      <4>4. n.file_name = f /\ Covers(n, s, t)
        BY <1>9, <3>1, <4>1, <4>3 DEF Covers
      <4> QED
        BY <4>2, <4>4 DEF Recorded
    <3>3. CASE ~(p = e.pid /\ e.kind = "EXEC_destroy")
      <4>1. Entry(p, m)'
        BY <1>7, <3>1, <3>3
      <4> QED
        BY <3>1, <4>1 DEF Recorded
    <3> QED
      BY <3>2, <3>3
  <2>2. CASE t = clock /\ \E j \in DOMAIN queue : LoadAt(j, p, f, s)
    <3>1. PICK j \in DOMAIN queue : LoadAt(j, p, f, s)
      BY <2>2
    <3>2. CASE j = 1
      <4>1. e.kind = "EXEC_module_load" /\ e.pid = p /\ e.file = f /\ e.slot = s
        BY <1>2, <3>1, <3>2
      <4>2. Entry(p, new)'
        BY <1>7, <1>10, <4>1
      <4>3. Covers(new, s, t)
        BY <1>3, <1>10, <2>2, <4>1 DEF Covers
      <4> QED
        BY <1>10, <4>1, <4>2, <4>3 DEF Recorded
    <3>3. CASE j # 1
      <4>1. \E i \in DOMAIN queue' : LoadAt(i, p, f, s)'
        BY <1>2, <3>1, <3>3
      <4>2. t \notin settled
        BY <1>0, <1>3, <2>2 DEF Typed
      <4> QED
        BY <4>1, <4>2
    <3> QED
      BY <3>2, <3>3
  <2> QED
    BY <2>1, <2>2 DEF ImageInv, ImagesComplete
<1>16. ImagesSound'
  <2>1. ASSUME NEW p \in Pids, NEW f \in Files, NEW s \in Slots, NEW j \in DOMAIN queue',
               LoadAt(j, p, f, s)'
        PROVE  SeenBy(p, s, f, clock)
    BY <1>2, <2>1 DEF ImageInv, ImagesSound
  <2>2. ASSUME NEW p \in Pids, NEW m \in Module(ImageSlots), Entry(p, m)'
        PROVE  /\ SeenBy(p, m.base_addr, m.file_name, m.start_time)
               /\ m.start_time <= clock /\ m.end_time <= clock
    <3>1. CASE Entry(p, m)
      BY <3>1 DEF ImageInv, ImagesSound
    <3>2. CASE p = e.pid /\ e.kind = "EXEC_destroy"
      <4>1. PICK n : Entry(p, n) /\ m = AtEnd(n)
        BY <1>7, <2>2, <3>2
      <4>2. /\ n \in Module(ImageSlots) /\ SeenBy(p, n.base_addr, n.file_name, n.start_time)
            /\ n.start_time <= clock
        BY <1>11, <4>1 DEF ImageInv, ImagesSound
      <4> QED
        BY <1>3, <1>9, <4>1, <4>2
    <3>3. CASE p = e.pid /\ e.kind = "EXEC_module_load" /\ m = new
      <4>1. LoadAt(1, p, e.file, e.slot)
        BY <1>2, <3>3
      <4>2. SeenBy(p, e.slot, e.file, clock)
        BY <1>2, <1>4, <4>1 DEF ImageInv, ImagesSound
      <4> QED
        BY <1>3, <1>10, <3>3, <4>2
    <3> QED
      BY <1>7, <1>10, <2>2, <3>1, <3>2, <3>3
  <2> QED
    BY <1>3, <2>1, <2>2 DEF ImagesSound
<1> QED
  BY <1>12, <1>13, <1>14, <1>15, <1>16 DEF ImageInv

LEMMA ImageInvariant ==
    ASSUME Reuses = FALSE, SnapshotFits
    PROVE  Recording => []ImageInv
<1>1. ImageInv /\ UNCHANGED vars => ImageInv'
  <2> SUFFICES ASSUME ImageInv, UNCHANGED vars PROVE ImageInv'
    OBVIOUS
  <2>1. ImagesLive'
    BY DEF vars, system, ImageInv, ImagesLive
  <2>2. UNCHANGED <<clock, settled, started, proc_infos, history, queue>> /\ mapped' \subseteq mapped
    BY DEF vars, system, tables
  <2> QED
    BY <2>1, <2>2, ImageStill DEF ImageInv
<1>2. Typed /\ Dated /\ ImageInv /\ Traced => ImageInv'
  <2> SUFFICES ASSUME Typed, Dated, ImageInv, Traced PROVE ImageInv'
    OBVIOUS
  <2>1. /\ ImagesLive'
        /\ \/ \E e \in Event : Reports(e)
           \/ UNCHANGED <<clock, settled, started, proc_infos, history, queue>> /\ mapped' \subseteq mapped
           \/ Tick
    BY TracedImages DEF ImageInv
  <2> QED
    BY <2>1, ImageReport, ImageStill, ImageTick DEF ImageInv
<1>3. TypeInv /\ KnownInv /\ GoneInv /\ DriverInv /\ ImageInv /\ [Traced \/ ProcessEvent]_vars => ImageInv'
  BY <1>1, <1>2, ImageReceive DEF TypeInv, DriverInv
<1>4. Recording => []TypeInv /\ []GoneInv
  BY TypeInvariant, GoneInvariant, RecordingIsSpec
<1> QED
  BY <1>3, <1>4, ImageInit, KnownInvariant, DriverInvariant, PTL DEF Recording

\* What the table of a process says of a time of lookup.
LEMMA ImageCovers ==
    ASSUME TypeInv, DriverInv, ImageInv, NEW time \in Int, Settled(time),
           NEW pid \in Pids, NEW slot \in ImageSlots
    PROVE  /\ \A k \in DOMAIN Modules(pid) :
                Covers(Modules(pid)[k], slot, time) =>
                    Modules(pid)[k].file_name \in UNION {Occupants(pid, slot, then) : then \in 1 .. time}
           /\ \/ \E k \in DOMAIN Modules(pid) : Covers(Modules(pid)[k], slot, time)
              \/ Occupants(pid, slot, time) = {}
              \/ Unread(pid, slot)
<1>0. clock \in Nat /\ 1 <= clock /\ slot \in Slots /\ Typed /\ (queue = <<>> => DOMAIN queue = {})
  BY BoundsAssumption DEF TypeInv, Typed, Slots
<1>1. \A then \in 1 .. clock : \A f : f \in Occupants(pid, slot, then) <=> Seen(pid, slot, f, then)
  <2> SUFFICES ASSUME NEW then \in 1 .. clock, NEW f
               PROVE  f \in Occupants(pid, slot, then) <=> Seen(pid, slot, f, then)
    OBVIOUS
  <2>1. ~(then > clock)
    BY <1>0
  <2>2. ASSUME f \in Occupants(pid, slot, then) PROVE Seen(pid, slot, f, then)
    <3>1. PICK h \in history : h.at = pid /\ h.slot = slot /\ h.time = then /\ h.file = f
      BY <2>1, <2>2 DEF Occupants
    <3>2. h = [at |-> pid, slot |-> slot, file |-> f, time |-> then]
      BY <1>0, <3>1 DEF Typed, Occupancy
    <3> QED
      BY <3>2 DEF Seen
  <2>3. ASSUME Seen(pid, slot, f, then) PROVE f \in Occupants(pid, slot, then)
    BY <2>1, <2>3 DEF Occupants, Seen
  <2> QED
    BY <2>2, <2>3
<1>2. \A k \in DOMAIN Modules(pid) :
        Modules(pid)[k] \in Module(ImageSlots) /\ Entry(pid, Modules(pid)[k])
  <2>1. CASE Known(pid)
    <3>1. TableOf(pid) \in DOMAIN proc_infos /\ proc_infos[TableOf(pid)].proc_id = pid
      BY <2>1, TableKnown DEF TypeInv
    <3>2. proc_infos[TableOf(pid)] \in Info /\ Modules(pid) = proc_infos[TableOf(pid)].modules
      BY <1>0, <2>1, <3>1 DEF Typed, Modules
    <3>3. Modules(pid) \in Seq(Module(ImageSlots))
      BY <3>2 DEF Info
    <3>4. \A k \in DOMAIN Modules(pid) : Entry(pid, Modules(pid)[k])
      BY <3>1, <3>2 DEF Entry, Holds
    <3> QED
      BY <3>3, <3>4
  <2>2. CASE ~Known(pid)
    BY <2>2 DEF Modules
  <2> QED
    BY <2>1, <2>2
<1>3. \A m : Entry(pid, m) => \E k \in DOMAIN Modules(pid) : m = Modules(pid)[k]
  <2> SUFFICES ASSUME NEW m, Entry(pid, m)
               PROVE  \E k \in DOMAIN Modules(pid) : m = Modules(pid)[k]
    OBVIOUS
  <2>1. PICK k \in DOMAIN proc_infos : proc_infos[k].proc_id = pid /\ Holds(proc_infos[k], m)
    BY DEF Entry
  <2>2. TableOf(pid) = k /\ Known(pid)
    BY <2>1, TableIs DEF TypeInv, Known
  <2> QED
    BY <2>1, <2>2 DEF Holds, Modules
<1>4. ASSUME NEW k \in DOMAIN Modules(pid), Covers(Modules(pid)[k], slot, time)
      PROVE  Modules(pid)[k].file_name \in UNION {Occupants(pid, slot, then) : then \in 1 .. time}
  <2>1. PICK m \in Module(ImageSlots) : m = Modules(pid)[k] /\ Entry(pid, m)
    BY <1>2
  <2>2. SeenBy(pid, slot, m.file_name, m.start_time) /\ m.start_time <= clock
        /\ m.start_time <= time /\ m.start_time \in Int
    BY <1>4, <2>1 DEF ImageInv, ImagesSound, Covers, Module
  <2>3. PICK then \in 1 .. m.start_time : Seen(pid, slot, m.file_name, then)
    BY <2>2 DEF SeenBy
  <2>4. then \in 1 .. clock /\ then \in 1 .. time
    BY <1>0, <2>2, <2>3
  <2> QED
    BY <1>1, <2>1, <2>3, <2>4
<1>5. ASSUME NEW f \in Files, Recorded(pid, f, slot, time)
      PROVE  \E k \in DOMAIN Modules(pid) : Covers(Modules(pid)[k], slot, time)
  BY <1>3, <1>5 DEF Recorded
<1>6. CASE time \in 1 .. clock
  <2>1. (time \in settled \/ (time = clock /\ queue = <<>>)) /\ time \in Nat
    BY <1>0, <1>6 DEF Settled
  <2>2. ASSUME NEW f \in Occupants(pid, slot, time)
        PROVE  \/ \E k \in DOMAIN Modules(pid) : Covers(Modules(pid)[k], slot, time)
               \/ Unread(pid, slot)
    <3>1. Seen(pid, slot, f, time) /\ f \in Files
      BY <1>0, <1>1, <1>6 DEF Seen, Typed, Occupancy
    <3> QED
      BY <1>0, <1>5, <2>1, <3>1 DEF ImageInv, ImagesComplete
  <2> QED
    BY <1>4, <2>2
<1>7. CASE time > clock
  <2>1. DOMAIN queue = {}
    BY <1>0, <1>7 DEF Settled
  <2>2. ASSUME NEW f \in Occupants(pid, slot, time)
        PROVE  \/ \E k \in DOMAIN Modules(pid) : Covers(Modules(pid)[k], slot, time)
               \/ Unread(pid, slot)
    <3>1. PICK n \in mapped : n.at = pid /\ n.slot = slot /\ n.file = f
      BY <1>7 DEF Occupants
    <3>2. n = Image(pid, f, slot) /\ f \in Files
      BY <1>0, <3>1 DEF Typed, Mapping, Image
    <3>3. ASSUME NEW m \in Module(ImageSlots), Entry(pid, m), m.file_name = f,
                 m.base_addr = slot, m.end_time = 0
          PROVE  Recorded(pid, f, slot, time)
      <4>1. m.start_time <= clock /\ m.start_time \in Int
        BY <3>3 DEF ImageInv, ImagesSound, Module
      <4>2. Covers(m, slot, time)
        BY <1>0, <1>7, <3>3, <4>1 DEF Covers
      <4> QED
        BY <3>3, <4>2 DEF Recorded
    <3> QED
      BY <1>0, <1>5, <2>1, <3>1, <3>2, <3>3 DEF ImageInv, ImagesOpen
  <2> QED
    BY <1>4, <2>2
<1>8. CASE time < 1
  <2>1. \A h \in history : h.time # time
    BY <1>0, <1>8, BoundsAssumption DEF Typed, Occupancy
  <2>2. Occupants(pid, slot, time) = {}
    BY <1>0, <1>8, <2>1 DEF Occupants
  <2> QED
    BY <1>4, <2>2
<1> QED
  BY <1>0, <1>6, <1>7, <1>8

\* While the log is on, every event is valid, no process number comes back and the
\* snapshot had room, a frame of a process in one of its images is named by an
\* image that was mapped there by the tick the time of lookup stands for, also
\* after the process is gone, if the receiver had caught up at the begin and at
\* the end of that tick; only what a protected process had at the start has none.
THEOREM FramesOfImages ==
    ASSUME Reuses = FALSE, SnapshotFits
    PROVE  Recording => []ImageFrames
<1>1. TypeInv /\ DriverInv /\ ImageInv => ImageFrames
  <2> SUFFICES ASSUME TypeInv, DriverInv, ImageInv, NEW time \in LookupTimes, Settled(time),
                      NEW pid \in Pids, NEW slot \in ImageSlots
               PROVE  /\ FrameNames(pid, slot, time)
                            \subseteq UNION {Occupants(pid, slot, then) : then \in 1 .. time}
                      /\ \/ FrameNames(pid, slot, time) # {}
                         \/ Occupants(pid, slot, time) = {}
                         \/ Unread(pid, slot)
    BY DEF ImageFrames, Unread
  <2> DEFINE i == FrameModule(Modules(pid), slot, time)
             k == FrameModule(kernel_modules, slot, time)
  <2>1. time \in Int
    BY BiasesAssumption, BoundsAssumption DEF LookupTimes, LocalTime, TypeInv, Typed
  <2>2. k = 0
    <3>1. kernel_modules \in Seq(Module(DriverSlots))
      BY DEF TypeInv, Typed
    <3>2. \A m \in Module(DriverSlots) : ~Covers(m, slot, time)
      BY ModulesAssumption DEF Module, Covers
    <3>3. \A j \in DOMAIN kernel_modules : ~Covers(kernel_modules[j], slot, time)
      BY <3>1, <3>2
    <3> QED
      BY <3>1, <3>3, FirstCovers
  <2>3. FrameNames(pid, slot, time) = IF i # 0 THEN {Modules(pid)[i].file_name} ELSE {}
    BY <2>2 DEF FrameNames
  <2>4. Modules(pid) \in Seq(Module(ImageSlots))
    BY ModulesTyped
  <2>5. \/ i \in DOMAIN Modules(pid) /\ i # 0 /\ Covers(Modules(pid)[i], slot, time)
        \/ i = 0 /\ \A j \in DOMAIN Modules(pid) : ~Covers(Modules(pid)[j], slot, time)
    BY <2>4, FirstCovers
  <2> HIDE DEF i, k
  <2> QED
    BY <2>1, <2>3, <2>5, ImageCovers
<1>2. Recording => []TypeInv
  BY TypeInvariant, RecordingIsSpec
<1> QED
  BY <1>1, <1>2, DriverInvariant, ImageInvariant, PTL

-----------------------------------------------------------------------------
(* What the two assertions of module_info.cpp that can fail depend on: a   *)
(* process number that comes back, and a driver that is loaded elsewhere.  *)

\* While no process number comes back and the snapshot had room, a process that
\* starts is not known yet: the assertions of module_info.cpp:415 and 419.
THEOREM FirstNotify ==
    ASSUME Reuses = FALSE, SnapshotFits
    PROVE  Recording => []AssertFirstNotify
<1>1. TypeInv /\ ImageInv => AssertFirstNotify
  <2> SUFFICES ASSUME TypeInv, ImageInv, queue # <<>>, Head(queue).kind = "PROC_exec"
               PROVE  ~Known(Head(queue).pid)
    BY DEF AssertFirstNotify, Handles
  <2>1. Head(queue) = queue[1] /\ 1 \in DOMAIN queue /\ queue[1] \in Event
    BY DEF TypeInv, Typed
  <2>2. queue[1].pid \in Pids /\ ExecAt(1, queue[1].pid)
    BY <2>1 DEF Event, ProcessKinds, ExecAt
  <2> QED
    BY <2>1, <2>2 DEF ImageInv, StartsOnce
<1>2. Recording => []TypeInv
  BY TypeInvariant, RecordingIsSpec
<1> QED
  BY <1>1, <1>2, ImageInvariant, PTL

Loaded(m) == \E i \in DOMAIN loads : loads[i] = m

\* A file of the kernel is loaded at one place only, and the table and the
\* queue speak of drivers that were loaded.
OnePlace == \A m, n : Loaded(m) /\ Loaded(n) /\ m.at = Kernel /\ n.at = Kernel /\ m.file = n.file => m.slot = n.slot

FromLoads ==
    /\ \A m \in mapped : Loaded(m)
    /\ \A k \in DOMAIN kernel_modules :
        Loaded(Driver(kernel_modules[k].file_name, kernel_modules[k].base_addr))
    /\ \A j \in DOMAIN queue : queue[j].kind \in {"SYS_load_mod", "SYS_unload_mod"} =>
        Loaded(Driver(queue[j].file, queue[j].slot))

PlaceInv == OnePlace /\ FromLoads

LEMMA PlaceInit == Init => PlaceInv
<1> SUFFICES ASSUME Init PROVE PlaceInv
  OBVIOUS
<1> DEFINE entry == [p \in Resident \cup {Kernel} |->
                        [at |-> p, file |-> FirstFile, slot |-> FirstSlot(p)]]
<1>1. Running = {entry[p] : p \in Resident \cup {Kernel}}
  BY DEF Running
<1>2. IsFiniteSet(Resident \cup {Kernel})
  BY TablesAssumption, FS_AddElement
<1>3. entry \in Surjection(Resident \cup {Kernel}, Running)
  BY <1>1 DEF Surjection
<1>4. IsFiniteSet(Running)
  BY <1>2, <1>3, FS_Surjection
<1>5. \A m : Loaded(m) <=> m \in Running
  BY <1>4, Listed DEF Init, Loaded
<1>6. /\ Driver(FirstFile, FirstSlot(Kernel)) \in Running
      /\ \A m \in Running : m.at = Kernel => m.slot = FirstSlot(Kernel)
  BY DEF Running, Driver
<1>7. OnePlace
  BY <1>5, <1>6 DEF OnePlace
<1>8. FromLoads
  BY <1>5, <1>6, TablesAssumption DEF FromLoads, Init, SnapshotModules
<1> QED
  BY <1>7, <1>8 DEF PlaceInv

\* An event of a driver that was loaded.
LEMMA PlaceRaise ==
    ASSUME Typed, PlaceInv, NEW e \in Event, queue' = Append(queue, e), UNCHANGED kernel_modules,
           \A m : Loaded(m) => Loaded(m)', OnePlace',
           \A m \in mapped' : Loaded(m)',
           e.kind \in {"SYS_load_mod", "SYS_unload_mod"} => Loaded(Driver(e.file, e.slot))'
    PROVE  PlaceInv'
<1>1. PICK last \in Nat :
        /\ DOMAIN queue = 1 .. last /\ DOMAIN queue' = 1 .. last + 1
        /\ queue'[last + 1] = e
        /\ \A j \in 1 .. last : queue'[j] = queue[j]
  BY Enqueued
<1>2. ASSUME NEW k \in DOMAIN kernel_modules'
      PROVE  Loaded(Driver(kernel_modules[k].file_name, kernel_modules[k].base_addr))'
  <2>1. PICK m : m = Driver(kernel_modules[k].file_name, kernel_modules[k].base_addr)
    OBVIOUS
  <2>2. Loaded(m)'
    BY <1>2, <2>1 DEF PlaceInv, FromLoads
  <2> QED
    BY <2>1, <2>2 DEF Driver
<1>3. ASSUME NEW j \in DOMAIN queue', queue'[j].kind \in {"SYS_load_mod", "SYS_unload_mod"}
      PROVE  Loaded(Driver(queue[j].file, queue[j].slot))'
  <2>1. CASE j \in 1 .. last
    <3>1. PICK m : m = Driver(queue[j].file, queue[j].slot)
      OBVIOUS
    <3>2. Loaded(m)' /\ queue'[j] = queue[j]
      BY <1>1, <1>3, <2>1, <3>1 DEF PlaceInv, FromLoads
    <3> QED
      BY <3>1, <3>2 DEF Driver
  <2>2. CASE j = last + 1
    <3>1. queue'[j] = e
      BY <1>1, <2>2
    <3> QED
      BY <1>3, <3>1 DEF Driver
  <2> QED
    BY <1>1, <1>3, <2>1, <2>2
<1> QED
  BY <1>2, <1>3 DEF PlaceInv, FromLoads

LEMMA PlaceTraced ==
    ASSUME Moves = FALSE
    PROVE  Typed /\ PlaceInv /\ Traced => PlaceInv'
<1> SUFFICES ASSUME Typed, PlaceInv, Traced PROVE PlaceInv'
  OBVIOUS
<1> USE DEF Kinds, ProcessKinds, tables
<1>0. ASSUME UNCHANGED loads
      PROVE  (\A m : Loaded(m)' <=> Loaded(m)) /\ OnePlace'
  <2>1. \A m : Loaded(m)' <=> Loaded(m)
    BY <1>0 DEF Loaded
  <2> QED
    BY <2>1 DEF PlaceInv, OnePlace
<1>1. ASSUME NEW p \in Pids, SystemExec(p) \/ SystemExit(p)
      PROVE  PlaceInv'
  <2>1. PICK e \in Event :
            /\ e.kind \in {"PROC_exec", "EXEC_destroy"}
            /\ queue' = Append(queue, e) /\ UNCHANGED kernel_modules
    BY <1>1, FirstTyped, RaiseTyped DEF SystemExec, SystemExit
  <2>2. UNCHANGED loads /\ mapped' \subseteq mapped
    BY <1>1 DEF SystemExec, SystemExit
  <2>3. \A m \in mapped' : Loaded(m)'
    BY <1>0, <2>2 DEF PlaceInv, FromLoads
  <2> QED
    BY <1>0, <2>1, <2>2, <2>3, PlaceRaise
<1>2. ASSUME NEW n \in Mapping, Map(n), NEW e \in Event,
             queue' = Append(queue, e), UNCHANGED kernel_modules,
             e.kind \in {"SYS_load_mod", "SYS_unload_mod"} => n = Driver(e.file, e.slot),
             n.at = Kernel => \A m : Loaded(m) /\ m.at = Kernel /\ m.file = n.file => m.slot = n.slot
      PROVE  PlaceInv'
  <2>1. loads' = Append(loads, n) /\ mapped' = mapped \cup {n}
    BY <1>2 DEF Map
  <2>2. \A m : Loaded(m)' <=> Loaded(m) \/ m = n
    <3>1. PICK last \in Nat :
            /\ DOMAIN loads = 1 .. last /\ DOMAIN loads' = 1 .. last + 1
            /\ loads'[last + 1] = n /\ \A i \in 1 .. last : loads'[i] = loads[i]
      <4>1. loads \in Seq(Mapping) /\ Len(loads) \in Nat
        BY DEF Typed
      <4>2. /\ DOMAIN loads = 1 .. Len(loads) /\ DOMAIN loads' = 1 .. Len(loads) + 1
            /\ loads'[Len(loads) + 1] = n /\ \A i \in 1 .. Len(loads) : loads'[i] = loads[i]
        BY <2>1, <4>1
      <4> QED
        BY <4>1, <4>2
    <3>2. 1 .. last \subseteq 1 .. last + 1 /\ last + 1 \in 1 .. last + 1
          /\ \A i \in 1 .. last + 1 : i \in 1 .. last \/ i = last + 1
      OBVIOUS
    <3> QED
      BY <3>1, <3>2 DEF Loaded
  <2>3. OnePlace'
    BY <1>2, <2>2 DEF PlaceInv, OnePlace
  <2>4. \A m \in mapped' : Loaded(m)'
    BY <2>1, <2>2 DEF PlaceInv, FromLoads
  <2>5. e.kind \in {"SYS_load_mod", "SYS_unload_mod"} => Loaded(Driver(e.file, e.slot))'
    BY <1>2, <2>2 DEF Driver
  <2> QED
    BY <1>2, <2>2, <2>3, <2>4, <2>5, PlaceRaise
<1>3. ASSUME NEW p \in Pids, NEW f \in Files, NEW s \in ImageSlots, SystemMapImage(p, f, s)
      PROVE  PlaceInv'
  <2>1. PICK e \in Event :
            /\ e.kind = "EXEC_module_load"
            /\ queue' = Append(queue, e) /\ UNCHANGED kernel_modules
    BY <1>3, RaiseTyped DEF SystemMapImage, Slots
  <2>2. PICK n \in Mapping : n = [at |-> p, file |-> f, slot |-> s]
    BY TablesAssumption DEF Mapping, SlotsOf, Slots
  <2>3. Map(n) /\ n.at # Kernel
    BY <1>3, <2>2, TablesAssumption DEF SystemMapImage
  <2> QED
    BY <1>2, <2>1, <2>3
<1>4. ASSUME NEW f \in Files, NEW s \in DriverSlots, SystemLoadDriver(f, s)
      PROVE  PlaceInv'
  <2>1. PICK e \in Event :
            /\ e.kind = "SYS_load_mod" /\ e.file = f /\ e.slot = s
            /\ queue' = Append(queue, e) /\ UNCHANGED kernel_modules
    BY <1>4, RaiseTyped DEF SystemLoadDriver, Slots
  <2>2. PICK n \in Mapping : n = Driver(f, s)
    BY DEF Mapping, Driver, SlotsOf, Slots
  <2>3. Map(n) /\ n.file = f /\ n.slot = s
    BY <1>4, <2>2 DEF SystemLoadDriver, Driver
  <2>4. \A m : Loaded(m) /\ m.at = Kernel /\ m.file = f => m.slot = s
    BY <1>4 DEF SystemLoadDriver, Loaded, ToSet
  <2> QED
    BY <1>2, <2>1, <2>2, <2>3, <2>4
<1>5. ASSUME NEW m \in mapped, SystemUnloadDriver(m)
      PROVE  PlaceInv'
  <2>0. m.file \in Files /\ m.slot \in Slots /\ m = Driver(m.file, m.slot)
    BY <1>5 DEF Typed, Mapping, SystemUnloadDriver, Driver
  <2>1. PICK e \in Event :
            /\ e.file = m.file /\ e.slot = m.slot
            /\ queue' = Append(queue, e) /\ UNCHANGED kernel_modules
    BY <1>5, <2>0, RaiseTyped DEF SystemUnloadDriver
  <2>2. UNCHANGED loads /\ mapped' \subseteq mapped
    BY <1>5 DEF SystemUnloadDriver
  <2>3. \A n \in mapped' : Loaded(n)'
    BY <1>0, <2>2 DEF PlaceInv, FromLoads
  <2>4. Loaded(Driver(e.file, e.slot))'
    <3>1. Loaded(m)'
      BY <1>0, <2>2 DEF PlaceInv, FromLoads
    <3> QED
      BY <2>0, <2>1, <3>1 DEF Driver
  <2> QED
    BY <1>0, <2>1, <2>2, <2>3, <2>4, PlaceRaise
<1>6. ASSUME UNCHANGED <<loads, queue, kernel_modules>>, mapped' \subseteq mapped
      PROVE  PlaceInv'
  BY <1>6 DEF PlaceInv, OnePlace, FromLoads, Loaded, Driver
<1> QED
  BY <1>1, <1>3, <1>4, <1>5, <1>6
     DEF Traced, Tick, SystemUnmapImage, system

LEMMA PlaceReceive == Typed /\ PlaceInv /\ (ProcessEvent \/ DropEvent) => PlaceInv'
<1> SUFFICES ASSUME Typed, PlaceInv, ProcessEvent \/ DropEvent PROVE PlaceInv'
  OBVIOUS
<1>1. PICK e \in Event :
        /\ queue # <<>> /\ e = Head(queue) /\ queue' = Tail(queue)
        /\ UNCHANGED <<clock, system, history, settled, process_log_sw>>
        /\ process_proc_module_info(e) \/ UNCHANGED tables
  BY ReceiveCases
<1>2. PICK last \in Nat :
        /\ DOMAIN queue = 1 .. last + 1 /\ DOMAIN queue' = 1 .. last /\ e = queue[1]
        /\ \A j \in 1 .. last : queue'[j] = queue[j + 1] /\ j + 1 \in 1 .. last + 1
  <2>1. /\ Len(queue') \in Nat /\ DOMAIN queue = 1 .. Len(queue') + 1
        /\ DOMAIN queue' = 1 .. Len(queue') /\ e = queue[1]
        /\ \A j \in 1 .. Len(queue') : queue'[j] = queue[j + 1]
    BY <1>1, Dequeued
  <2>2. \A n \in Nat : \A j \in 1 .. n : j + 1 \in 1 .. n + 1
    OBVIOUS
  <2> QED
    BY <2>1, <2>2
<1>3. mapped' = mapped /\ \A m : Loaded(m)' <=> Loaded(m)
  BY <1>1 DEF system, Loaded
<1>4. OnePlace'
  BY <1>3 DEF PlaceInv, OnePlace
<1>5. ASSUME NEW j \in DOMAIN queue', queue'[j].kind \in {"SYS_load_mod", "SYS_unload_mod"}
      PROVE  Loaded(Driver(queue[j].file, queue[j].slot))'
  <2>1. PICK m : m = Driver(queue[j + 1].file, queue[j + 1].slot)
    OBVIOUS
  <2>2. Loaded(m)'
    BY <1>2, <1>3, <1>5, <2>1 DEF PlaceInv, FromLoads
  <2> QED
    BY <1>2, <2>1, <2>2 DEF Driver
<1>6. ASSUME NEW k \in DOMAIN kernel_modules'
      PROVE  \E m : Loaded(m) /\ m = Driver(kernel_modules'[k].file_name, kernel_modules'[k].base_addr)
  <2>1. CASE UNCHANGED kernel_modules
    BY <1>6, <2>1 DEF PlaceInv, FromLoads
  <2>2. CASE process_proc_module_info(e)
    <3>1. PICK n \in Nat :
            /\ DOMAIN kernel_modules = 1 .. n
            /\ \A i \in 1 .. n : kernel_modules[i] \in Module(DriverSlots)
            /\ \/ /\ e.kind = "SYS_load_mod" /\ DOMAIN kernel_modules' = 1 .. n + 1
                  /\ \A i \in 1 .. n : kernel_modules'[i] = kernel_modules[i]
                  /\ kernel_modules'[n + 1] = NewModule(e.file, e.slot)
               \/ /\ e.kind = "SYS_unload_mod" /\ DOMAIN kernel_modules' = 1 .. n
                  /\ \A i \in 1 .. n :
                        kernel_modules'[i] =
                            IF kernel_modules[i].file_name = e.file /\ kernel_modules[i].end_time = 0
                            THEN [kernel_modules[i] EXCEPT !.end_time = clock]
                            ELSE kernel_modules[i]
               \/ e.kind \notin {"SYS_load_mod", "SYS_unload_mod"} /\ UNCHANGED kernel_modules
      BY <2>2, ReceiveDrivers
    <3>2. CASE k \in 1 .. n
      <4>1. /\ kernel_modules'[k].file_name = kernel_modules[k].file_name
            /\ kernel_modules'[k].base_addr = kernel_modules[k].base_addr
        BY <3>1, <3>2 DEF Module
      <4> QED
        BY <3>1, <3>2, <4>1 DEF PlaceInv, FromLoads
    <3>3. CASE k = n + 1 /\ e.kind = "SYS_load_mod"
      <4>1. /\ kernel_modules'[k].file_name = e.file /\ kernel_modules'[k].base_addr = e.slot
        BY <3>1, <3>3 DEF NewModule
      <4>2. Loaded(Driver(e.file, e.slot))
        BY <1>2, <3>3 DEF PlaceInv, FromLoads
      <4> QED
        BY <4>1, <4>2
    <3> QED
      BY <1>6, <3>1, <3>2, <3>3
  <2> QED
    BY <1>1, <2>1, <2>2 DEF tables
<1>7. \A k \in DOMAIN kernel_modules' :
        Loaded(Driver(kernel_modules[k].file_name, kernel_modules[k].base_addr))'
  <2> SUFFICES ASSUME NEW k \in DOMAIN kernel_modules'
               PROVE  Loaded(Driver(kernel_modules[k].file_name, kernel_modules[k].base_addr))'
    OBVIOUS
  <2>1. PICK m : Loaded(m) /\ m = Driver(kernel_modules'[k].file_name, kernel_modules'[k].base_addr)
    BY <1>6
  <2> QED
    BY <1>3, <2>1 DEF Driver
<1> QED
  BY <1>3, <1>4, <1>5, <1>7 DEF PlaceInv, FromLoads

\* While every driver is loaded at one place, the entries of a file have the
\* address of the driver that is unloaded, also when the log was off in
\* between: ASSERT( FALSE ) at module_info.cpp:563.
THEOREM SameBase ==
    ASSUME Moves = FALSE
    PROVE  Spec => []AssertSameBase
<1>1. TypeInv /\ PlaceInv => AssertSameBase
  <2> SUFFICES ASSUME TypeInv, PlaceInv, queue # <<>>, Head(queue).kind = "SYS_unload_mod",
                      NEW k \in DOMAIN kernel_modules,
                      kernel_modules[k].file_name = Head(queue).file
               PROVE  kernel_modules[k].base_addr = Head(queue).slot
    BY DEF AssertSameBase, Handles, ToSet
  <2>1. Head(queue) = queue[1] /\ 1 \in DOMAIN queue
    BY DEF TypeInv, Typed
  <2>2. /\ Loaded(Driver(kernel_modules[k].file_name, kernel_modules[k].base_addr))
        /\ Loaded(Driver(queue[1].file, queue[1].slot))
    BY <2>1 DEF PlaceInv, FromLoads
  <2>3. \A f, s : Driver(f, s).at = Kernel /\ Driver(f, s).file = f /\ Driver(f, s).slot = s
    BY DEF Driver
  <2> QED
    BY <2>1, <2>2, <2>3 DEF PlaceInv, OnePlace
<1>2. PlaceInv /\ (SwitchLog \/ UNCHANGED vars) => PlaceInv'
  <2> SUFFICES ASSUME PlaceInv, SwitchLog \/ UNCHANGED vars PROVE PlaceInv'
    OBVIOUS
  <2>1. UNCHANGED <<mapped, loads, queue, kernel_modules>>
    BY DEF SwitchLog, vars, system, tables
  <2> QED
    BY <2>1 DEF PlaceInv, OnePlace, FromLoads, Loaded, Driver
<1>3. TypeInv /\ PlaceInv /\ [Next]_vars => PlaceInv'
  BY <1>2, PlaceTraced, PlaceReceive DEF Next, TypeInv
<1> QED
  BY <1>1, <1>3, PlaceInit, TypeInvariant, PTL DEF Spec
====

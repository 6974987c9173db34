---------------------------- MODULE MultiHalInit ----------------------------
(***************************************************************************)
(* How sensors/multihal.cpp comes up: open_sensors() loads the sub-modules *)
(* and opens their devices, module__get_sensors_list() numbers their       *)
(* sensors.  The two are tied by an unusual handshake: open_sensors()      *)
(* locks queue_mutex and returns with it held; the first                   *)
(* lazy_init_sensors_list() unlocks it.  Until then poll() and the writer  *)
(* threads are kept out of the handle maps.                                *)
(*                                                                         *)
(* lazy_init_modules() runs entirely under init_modules_mutex and is one   *)
(* step.  The other functions are one step per lock operation, per opened  *)
(* module and per numbered sensor.  The framework may ask for the list     *)
(* before, during or after open_sensors(), which the code does not rule    *)
(* out although the list looks up sub_hw_versions, which only              *)
(* open_sensors() creates.                                                 *)
(***************************************************************************)
EXTENDS Integers, Sequences, FiniteSets, SequencesExt

CONSTANTS Threads,        \* threads of the HAL process that serve the framework
          so_paths,       \* sequence of the sub-modules named in the config file
          SensorsOf,      \* SensorsOf[m]: local handles in m's sensor list
          LoadMayFail,    \* modules whose dlopen()/dlsym() may fail
          OpenMayFail,    \* modules whose open() may fail
          NULL

\* Sub-modules named in the config file, and an entry of the sensor list.
Modules == Range(so_paths)
ListEntry == [module : Modules, local : Nat, handle : Nat]

ASSUME ConfigAssumption ==
    /\ so_paths \in Seq(Modules)
    /\ SensorsOf \in [Modules -> Seq(Nat)]
    /\ LoadMayFail \subseteq Modules
    /\ OpenMayFail \subseteq Modules
    /\ NULL \notin Threads /\ \A S \in SUBSET Modules : S # NULL
    /\ NULL \notin Seq(Modules) /\ NULL \notin Seq(ListEntry)

VARIABLES
    sub_hw_modules,       \* NULL, or the loaded sub-modules
    sub_hw_versions,      \* NULL, or the modules with an entry in the map
    sub_hw_devices,       \* the devices of the context, named by their module
    queue_mutex,          \* "free", "open" (left locked by open_sensors), "poll"
    init_sensors_mutex,   \* NULL, or the thread that holds it
    mutable_sensor_list,  \* the list under construction
    global_sensors_list,  \* NULL, or the published list
    next_global_handle,
    global_to_full,       \* set of <<global handle, <<module index, local handle>>>>
    full_to_global,       \* set of <<<<module index, local handle>>, global handle>>
    pc,                   \* where each thread is
    at,                   \* position of the thread's loop over sub_hw_modules
    opens,                \* open_sensors() calls so far
    polled,               \* poll() was inside the mutex
    crashed               \* the process died

listVars == <<mutable_sensor_list, global_sensors_list, next_global_handle,
              global_to_full, full_to_global>>
vars == <<sub_hw_modules, sub_hw_versions, sub_hw_devices, queue_mutex,
          init_sensors_mutex, listVars, pc, at, opens, polled, crashed>>

\* "int next_global_handle = 1"
FirstGlobalHandle == 1

Start == [module |-> 1, sensor |-> 1]

Init ==
    /\ sub_hw_modules = NULL
    /\ sub_hw_versions = NULL
    /\ sub_hw_devices = <<>>
    /\ queue_mutex = "free"
    /\ init_sensors_mutex = NULL
    /\ mutable_sensor_list = <<>>
    /\ global_sensors_list = NULL
    /\ next_global_handle = FirstGlobalHandle
    /\ global_to_full = {}
    /\ full_to_global = {}
    /\ pc = [t \in Threads |-> "idle"]
    /\ at = [t \in Threads |-> Start]
    /\ opens = 0
    /\ polled = FALSE
    /\ crashed = FALSE

Goto(t, label) == pc' = [pc EXCEPT ![t] = label]

\* Modules that fail to load are left out; the others keep the file's order:
\* pos[i] is the place in the file of the i-th module that was loaded.
lazy_init_modules ==
    IF sub_hw_modules # NULL
    THEN UNCHANGED sub_hw_modules
    ELSE \E n \in 0 .. Len(so_paths) : \E pos \in [1 .. n -> 1 .. Len(so_paths)] :
            /\ \A i, j \in 1 .. n : i < j => pos[i] < pos[j]
            /\ \A k \in 1 .. Len(so_paths) : (\A i \in 1 .. n : pos[i] # k) => so_paths[k] \in LoadMayFail
            /\ sub_hw_modules' = [i \in 1 .. n |-> so_paths[pos[i]]]

-----------------------------------------------------------------------------
\* open_sensors

OpenLoadsModules(t) ==
    /\ ~crashed /\ pc[t] = "idle" /\ opens = 0
    /\ opens' = 1
    /\ lazy_init_modules
    /\ Goto(t, "open_lock")
    /\ UNCHANGED <<sub_hw_versions, sub_hw_devices, queue_mutex, init_sensors_mutex,
                   listVars, at, polled, crashed>>

\* Mutant: open_sensors() does not take the mutex.
LockQueueMutex_Skipped == UNCHANGED queue_mutex

\* pthread_mutex_lock(&queue_mutex): held when open_sensors() returns.
LockQueueMutex == queue_mutex' = "open"

OpenLocks(t) ==
    /\ ~crashed /\ pc[t] = "open_lock"
    /\ queue_mutex = "free"
    /\ LockQueueMutex
    /\ sub_hw_versions' = {}
    /\ at' = [at EXCEPT ![t] = Start]
    /\ Goto(t, "open_subs")
    /\ UNCHANGED <<sub_hw_modules, sub_hw_devices, init_sensors_mutex, listVars,
                   opens, polled, crashed>>

\* Mutant: the version of a newly opened device is not remembered.
RememberDevice_NoVersion(m) ==
    /\ sub_hw_devices' = Append(sub_hw_devices, m)
    /\ UNCHANGED <<sub_hw_versions, crashed>>

\* addSubHwDevice() and the entry in sub_hw_versions (which a lister that did
\* not wait for open_sensors() may have deleted).
RememberDevice(m) ==
    /\ sub_hw_devices' = Append(sub_hw_devices, m)
    /\ crashed' = (sub_hw_versions = NULL)
    /\ sub_hw_versions' = IF sub_hw_versions = NULL THEN NULL ELSE sub_hw_versions \cup {m}

\* One iteration of the loop over the sub-modules; a module whose open() fails
\* is skipped.
OpenSubModule(t) ==
    /\ ~crashed /\ pc[t] = "open_subs"
    /\ at[t].module <= Len(sub_hw_modules)
    /\ LET m == sub_hw_modules[at[t].module]
       IN  \/ RememberDevice(m)
           \/ m \in OpenMayFail /\ UNCHANGED <<sub_hw_devices, sub_hw_versions, crashed>>
    /\ at' = [at EXCEPT ![t].module = @ + 1]
    /\ UNCHANGED <<sub_hw_modules, queue_mutex, init_sensors_mutex, listVars, pc,
                   opens, polled>>

OpenReturns(t) ==
    /\ ~crashed /\ pc[t] = "open_subs"
    /\ at[t].module > Len(sub_hw_modules)
    /\ opens' = 2
    /\ Goto(t, "idle")
    /\ UNCHANGED <<sub_hw_modules, sub_hw_versions, sub_hw_devices, queue_mutex,
                   init_sensors_mutex, listVars, at, polled, crashed>>

Opened == opens = 2

-----------------------------------------------------------------------------
\* module__get_sensors_list and lazy_init_sensors_list

\* Mutant: the check for a list that is already there is left out.
AlreadyInitialized_Never == FALSE

AlreadyInitialized == global_sensors_list # NULL

\* The framework asks for the list; nothing to do when it is there.
ListEarlyReturn(t) ==
    /\ ~crashed /\ pc[t] = "idle"
    /\ init_sensors_mutex = NULL
    /\ AlreadyInitialized
    /\ Goto(t, "listed")
    /\ UNCHANGED <<sub_hw_modules, sub_hw_versions, sub_hw_devices, queue_mutex,
                   init_sensors_mutex, listVars, at, opens, polled, crashed>>

ListBegins(t) ==
    /\ ~crashed /\ pc[t] = "idle"
    /\ init_sensors_mutex = NULL
    /\ ~AlreadyInitialized
    /\ init_sensors_mutex' = t
    /\ lazy_init_modules
    /\ mutable_sensor_list' = <<>>
    /\ at' = [at EXCEPT ![t] = Start]
    /\ Goto(t, "list_fill")
    /\ UNCHANGED <<sub_hw_versions, sub_hw_devices, queue_mutex, global_sensors_list,
                   next_global_handle, global_to_full, full_to_global, opens, polled, crashed>>

\* Mutant: modules without sensors do not count.
ModuleIndex_SkipsEmpty(i) ==
    Cardinality({j \in 1 .. i - 1 : SensorsOf[sub_hw_modules[j]] # <<>>})

\* module_index is the zero-based index in sub_hw_modules.
ModuleIndex(i) == i - 1

\* assign_global_handle: both maps, and the next number.
assign_global_handle(full) ==
    /\ global_to_full' = global_to_full \cup {<<next_global_handle, full>>}
    /\ full_to_global' = {p \in full_to_global : p[1] # full} \cup {<<full, next_global_handle>>}
    /\ next_global_handle' = next_global_handle + 1

\* sub_hw_versions->at(*it) dereferences NULL before open_sensors(), throws when
\* the module has no entry, and races with an insert while open_sensors() runs.
LookupFails(m) == sub_hw_versions = NULL \/ m \notin sub_hw_versions
LookupRaces == sub_hw_versions # NULL /\ \E t \in Threads : pc[t] = "open_subs"

\* One sensor of one module: number it and look its module's version up.
ListSensor(t) ==
    /\ ~crashed /\ pc[t] = "list_fill"
    /\ at[t].module <= Len(sub_hw_modules)
    /\ LET m == sub_hw_modules[at[t].module]
           full == <<ModuleIndex(at[t].module), SensorsOf[m][at[t].sensor]>>
       IN  /\ at[t].sensor <= Len(SensorsOf[m])
           /\ assign_global_handle(full)
           /\ mutable_sensor_list' = Append(mutable_sensor_list,
                   [module |-> m, local |-> full[2], handle |-> next_global_handle])
           /\ (crashed' = LookupFails(m)) \/ (LookupRaces /\ crashed' = TRUE)
    /\ at' = [at EXCEPT ![t].sensor = @ + 1]
    /\ UNCHANGED <<sub_hw_modules, sub_hw_versions, sub_hw_devices, queue_mutex,
                   init_sensors_mutex, global_sensors_list, pc, opens, polled>>

ListNextModule(t) ==
    /\ ~crashed /\ pc[t] = "list_fill"
    /\ at[t].module <= Len(sub_hw_modules)
    /\ at[t].sensor > Len(SensorsOf[sub_hw_modules[at[t].module]])
    /\ at' = [at EXCEPT ![t] = [module |-> @.module + 1, sensor |-> 1]]
    /\ UNCHANGED <<sub_hw_modules, sub_hw_versions, sub_hw_devices, queue_mutex,
                   init_sensors_mutex, listVars, pc, opens, polled, crashed>>

ListPublishes(t) ==
    /\ ~crashed /\ pc[t] = "list_fill"
    /\ at[t].module > Len(sub_hw_modules)
    /\ global_sensors_list' = mutable_sensor_list
    /\ sub_hw_versions' = NULL
    /\ init_sensors_mutex' = NULL
    /\ Goto(t, "list_unlock")
    /\ UNCHANGED <<sub_hw_modules, sub_hw_devices, queue_mutex, mutable_sensor_list,
                   next_global_handle, global_to_full, full_to_global, at, opens,
                   polled, crashed>>

\* Mutant: the mutex that open_sensors() left locked stays locked.
UnlockQueueMutex_Skipped == UNCHANGED queue_mutex

\* pthread_mutex_unlock(&queue_mutex) by the first lister, whoever locked it.
UnlockQueueMutex == queue_mutex' = "free"

ListUnlocks(t) ==
    /\ ~crashed /\ pc[t] = "list_unlock"
    /\ UnlockQueueMutex
    /\ Goto(t, "listed")
    /\ UNCHANGED <<sub_hw_modules, sub_hw_versions, sub_hw_devices, init_sensors_mutex,
                   listVars, at, opens, polled, crashed>>

\* The framework has the list and may ask again later.
ListReturns(t) ==
    /\ ~crashed /\ pc[t] = "listed"
    /\ Goto(t, "idle")
    /\ UNCHANGED <<sub_hw_modules, sub_hw_versions, sub_hw_devices, queue_mutex,
                   init_sensors_mutex, listVars, at, opens, polled, crashed>>

-----------------------------------------------------------------------------
\* poll() and the writer threads, as far as queue_mutex is concerned

PollLocks ==
    /\ ~crashed /\ Opened
    /\ queue_mutex = "free"
    /\ queue_mutex' = "poll"
    /\ polled' = TRUE
    /\ UNCHANGED <<sub_hw_modules, sub_hw_versions, sub_hw_devices, init_sensors_mutex,
                   listVars, pc, at, opens, crashed>>

PollUnlocks ==
    /\ ~crashed
    /\ queue_mutex = "poll"
    /\ queue_mutex' = "free"
    /\ UNCHANGED <<sub_hw_modules, sub_hw_versions, sub_hw_devices, init_sensors_mutex,
                   listVars, pc, at, opens, polled, crashed>>

ThreadStep(t) ==
    \/ OpenLoadsModules(t) \/ OpenLocks(t) \/ OpenSubModule(t) \/ OpenReturns(t)
    \/ ListEarlyReturn(t) \/ ListBegins(t) \/ ListSensor(t) \/ ListNextModule(t)
    \/ ListPublishes(t) \/ ListUnlocks(t) \/ ListReturns(t)

\* After a crash nothing happens any more.
ProcessDead == crashed /\ UNCHANGED vars

Next == PollLocks \/ PollUnlocks \/ ProcessDead \/ \E t \in Threads : ThreadStep(t)

\* A call that has started runs to its end, and the polling thread runs.
\* Nothing makes the framework call open or get_sensors_list.
InCall(t) == pc[t] # "idle" /\ ThreadStep(t)
Fairness == /\ WF_vars(PollLocks) /\ WF_vars(PollUnlocks)
            /\ \A t \in Threads : WF_vars(InCall(t))

Spec == Init /\ [][Next]_vars
FairSpec == Spec /\ Fairness

-----------------------------------------------------------------------------
TypeOK ==
    /\ sub_hw_modules = NULL \/ sub_hw_modules \in Seq(Modules)
    /\ sub_hw_versions = NULL \/ sub_hw_versions \subseteq Modules
    /\ sub_hw_devices \in Seq(Modules)
    /\ queue_mutex \in {"free", "open", "poll"}
    /\ init_sensors_mutex \in Threads \cup {NULL}
    /\ mutable_sensor_list \in Seq(ListEntry)
    /\ global_sensors_list = NULL \/ global_sensors_list \in Seq(ListEntry)
    /\ next_global_handle \in Nat
    /\ global_to_full \subseteq Nat \X (Nat \X Nat)
    /\ full_to_global \subseteq (Nat \X Nat) \X Nat
    /\ pc \in [Threads -> {"idle", "open_lock", "open_subs", "list_fill", "list_unlock",
                           "listed"}]
    /\ at \in [Threads -> [module : Nat \ {0}, sensor : Nat \ {0}]]
    /\ opens \in 0 .. 2
    /\ polled \in BOOLEAN /\ crashed \in BOOLEAN

Listed == global_sensors_list # NULL

\* device__activate and device__batch index sensors_enable_state and
\* sensors_batch_list (one entry per listed sensor) with handle - 1: the
\* published list must number its sensors 1, 2, 3, ... and both maps must
\* know exactly these handles, however many threads asked for the list.
HandleIsListIndex ==
    Listed =>
        /\ \A i \in 1 .. Len(global_sensors_list) : global_sensors_list[i].handle = i
        /\ {p[1] : p \in global_to_full} = 1 .. Len(global_sensors_list)
        /\ full_to_global = {<<p[2], p[1]>> : p \in global_to_full}

\* get_v0_device_by_handle / get_v1_device_by_handle find the device of the
\* module that listed the sensor, also when a module without sensors or one
\* that failed to load lies before it, and in whatever order the framework
\* opened the device and asked for the list.
RoutedToOwner ==
    Listed /\ Opened => \A i \in 1 .. Len(global_sensors_list) : \A p \in global_to_full :
        p[1] = global_sensors_list[i].handle =>
            /\ p[2][2] = global_sensors_list[i].local
            /\ p[2][1] + 1 \in DOMAIN sub_hw_devices
            /\ sub_hw_devices[p[2][1] + 1] = global_sensors_list[i].module

\* The purpose of the handshake: nobody is inside queue_mutex, remapping event
\* handles, before the maps are complete.
PollSeesCompleteMaps == queue_mutex = "poll" => Listed

\* A sub-module is loaded and lists sensors but has no device: its open() failed
\* and open_sensors() skipped it.
ListsWithoutDevice ==
    \E i \in 1 .. Len(sub_hw_modules) :
        SensorsOf[sub_hw_modules[i]] # <<>> /\ sub_hw_modules[i] \notin Range(sub_hw_devices)

\* Only two things bring the process down: the list is asked for before
\* open_sensors() has returned, or a listing module could not be opened.  In
\* every other order of calls the version lookup finds its module.
CrashesOnlyUnopened == crashed => ~Opened \/ ListsWithoutDevice

\* Once the device is open and the list was asked for, poll() gets through
\* unless the version lookup brings the process down.
PollEventuallyRuns ==
    (Opened /\ \E t \in Threads : pc[t] = "list_fill") ~> (polled \/ crashed)

\* "This can be first called from get_sensors_list or from open_sensors."
\* (multihal.cpp:613): asking for the list before anything is opened is safe.
ListMayComeFirst == opens = 0 => ~crashed

\* "Remember their devices in a vector parallel to sub_hw_modules."
\* (multihal.cpp:830): once the device was opened and its list asked for, the
\* loop that skips a sub-module whose open() fails has left the vectors parallel,
\* and the list has found every module's version among those it wrote.
DevicesParallelToModules ==
    Opened /\ (Listed \/ crashed) => ~crashed /\ sub_hw_devices = sub_hw_modules
=============================================================================

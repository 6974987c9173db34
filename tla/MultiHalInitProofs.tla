------------------------- MODULE MultiHalInitProofs -------------------------
(***************************************************************************)
(* How the multihal comes up, for any number of threads, any config file,  *)
(* any sensor lists and any order of open_sensors() and get_sensors_list.  *)
(* That poll() finds complete maps and what may bring the process down     *)
(* need nothing else.  The maps and the routing of calls each rest on a    *)
(* property of the config file and the sub-HALs, named below.              *)
(***************************************************************************)
EXTENDS MultiHalInit, TLAPS

\* Neither a module whose open() fails nor one named after it lists sensors.
FailuresComeLast ==
    \A i, j \in 1 .. Len(so_paths) :
        i <= j /\ so_paths[i] \in OpenMayFail => SensorsOf[so_paths[j]] = <<>>

\* A module does not use a local handle twice.
LocalHandlesDiffer ==
    \A m \in Modules : \A i, j \in 1 .. Len(SensorsOf[m]) :
        SensorsOf[m][i] = SensorsOf[m][j] => i = j

-----------------------------------------------------------------------------
Opening(t) == pc[t] \in {"open_lock", "open_subs"}

\* The device is being opened or open, and nobody has published the list yet.
AwaitsList == ~Listed /\ (Opened \/ \E t \in Threads : pc[t] = "open_subs")

\* queue_mutex stays locked from open_sensors() to the end of the first lister.
Handshake ==
    /\ \A t, u \in Threads : Opening(t) /\ Opening(u) => t = u
    /\ \A t \in Threads : Opening(t) => opens = 1
    /\ queue_mutex = "poll" => Listed
    /\ AwaitsList => queue_mutex = "open"
    /\ \A t \in Threads : pc[t] = "list_unlock" => Listed
    /\ \A t \in Threads : pc[t] = "list_fill" <=> init_sensors_mutex = t
    /\ Listed => init_sensors_mutex = NULL
    /\ opens # 0 \/ init_sensors_mutex # NULL \/ Listed => sub_hw_modules # NULL

\* The loaded modules keep the order of the config file.
ModulesInOrder ==
    FailuresComeLast /\ sub_hw_modules # NULL =>
        \A i, j \in 1 .. Len(sub_hw_modules) :
            i <= j /\ sub_hw_modules[i] \in OpenMayFail => SensorsOf[sub_hw_modules[j]] = <<>>

\* The first n modules have been tried: those before the first failure have
\* their devices at their own index.
Parallel(n) ==
    \A k \in 0 .. n : (\A i \in 1 .. k : sub_hw_modules[i] \notin OpenMayFail) =>
        /\ k <= Len(sub_hw_devices)
        /\ k = n => k = Len(sub_hw_devices)
        /\ \A i \in 1 .. k : sub_hw_devices[i] = sub_hw_modules[i]

DevicesInOrder ==
    /\ opens = 0 => sub_hw_devices = <<>>
    /\ \A t \in Threads : pc[t] = "open_lock" => sub_hw_devices = <<>>
    /\ \A t \in Threads : pc[t] = "open_subs" =>
          at[t].module <= Len(sub_hw_modules) + 1 /\ Parallel(at[t].module - 1)
    /\ Opened => Parallel(Len(sub_hw_modules))

\* Every device that was opened has its version until the list is published.
VersionsAreKnown ==
    /\ AwaitsList =>
          /\ sub_hw_versions # NULL
          /\ \A i \in 1 .. Len(sub_hw_devices) : sub_hw_devices[i] \in sub_hw_versions
    /\ CrashesOnlyUnopened

\* Handles are places in the list, while it is filled and afterwards.
Numbered ==
    /\ Listed => global_sensors_list = mutable_sensor_list
    /\ ~Listed /\ init_sensors_mutex = NULL => mutable_sensor_list = <<>>
    /\ next_global_handle = Len(mutable_sensor_list) + 1
    /\ \A i \in 1 .. Len(mutable_sensor_list) :
          mutable_sensor_list[i].handle = i /\ \E p \in global_to_full : p[1] = i
    /\ \A p \in global_to_full :
          /\ p[1] \in 1 .. Len(mutable_sensor_list)
          /\ p[2][1] + 1 \in 1 .. Len(sub_hw_modules)
          /\ mutable_sensor_list[p[1]].module = sub_hw_modules[p[2][1] + 1]
          /\ mutable_sensor_list[p[1]].local = p[2][2]
          /\ SensorsOf[sub_hw_modules[p[2][1] + 1]] # <<>>

\* A global handle stands for one sensor, and a sensor has one global handle.
HandleMapIsOneToOne ==
    \A p, q \in global_to_full : p[1] = q[1] \/ p[2] = q[2] => p = q

\* The full handles given a number so far lie before the place of the lister.
MapsAgree ==
    LocalHandlesDiffer =>
        /\ HandleMapIsOneToOne
        /\ full_to_global = {<<p[2], p[1]>> : p \in global_to_full}
        /\ \A t \in Threads : pc[t] = "list_fill" => \A p \in global_to_full :
              \/ p[2][1] < at[t].module - 1
              \/ /\ p[2][1] = at[t].module - 1
                 /\ at[t].module <= Len(sub_hw_modules)
                 /\ \E j \in 1 .. at[t].sensor - 1 :
                       /\ j <= Len(SensorsOf[sub_hw_modules[at[t].module]])
                       /\ p[2][2] = SensorsOf[sub_hw_modules[at[t].module]][j]

IndInv == /\ TypeOK /\ Handshake /\ ModulesInOrder /\ DevicesInOrder
          /\ VersionsAreKnown /\ Numbered /\ MapsAgree

-----------------------------------------------------------------------------
\* Modules that are left out do not change the order of the others, and
\* modules that are loaded stay.
LEMMA LoadedInOrder ==
  ASSUME TypeOK, ModulesInOrder, lazy_init_modules
  PROVE  /\ sub_hw_modules' \in Seq(Modules) /\ sub_hw_modules' # NULL
         /\ ModulesInOrder' /\ (sub_hw_modules # NULL => sub_hw_modules' = sub_hw_modules)
<1>1. CASE sub_hw_modules # NULL
  BY <1>1 DEF lazy_init_modules, TypeOK, ModulesInOrder
<1>2. CASE sub_hw_modules = NULL
  <2>1. PICK n \in 0 .. Len(so_paths) : \E pos \in [1 .. n -> 1 .. Len(so_paths)] :
           /\ \A i, j \in 1 .. n : i < j => pos[i] < pos[j]
           /\ sub_hw_modules' = [i \in 1 .. n |-> so_paths[pos[i]]]
    BY <1>2 DEF lazy_init_modules
  <2>2. PICK pos \in [1 .. n -> 1 .. Len(so_paths)] :
           /\ \A i, j \in 1 .. n : i < j => pos[i] < pos[j]
           /\ sub_hw_modules' = [i \in 1 .. n |-> so_paths[pos[i]]]
    BY <2>1
  <2>3. \A k \in 1 .. Len(so_paths) : so_paths[k] \in Modules
    BY ConfigAssumption
  <2>4. sub_hw_modules' \in Seq(Modules) /\ Len(sub_hw_modules') = n
    BY <2>2, <2>3
  <2>5. ASSUME FailuresComeLast, NEW i \in 1 .. n, NEW j \in 1 .. n, i <= j,
               sub_hw_modules'[i] \in OpenMayFail
        PROVE  SensorsOf[sub_hw_modules'[j]] = <<>>
    <3>1. pos[i] \in 1 .. Len(so_paths) /\ pos[j] \in 1 .. Len(so_paths) /\ pos[i] <= pos[j]
      BY <2>2, <2>5
    <3> QED
      BY <2>2, <2>5, <3>1 DEF FailuresComeLast
  <2>6. ModulesInOrder'
    BY <2>4, <2>5 DEF ModulesInOrder
  <2>7. sub_hw_modules' # NULL
    BY <2>4, ConfigAssumption
  <2> QED
    BY <1>2, <2>4, <2>6, <2>7
<1> QED
  BY <1>1, <1>2

\* Nothing is loaded, opened or listed at first.
LEMMA InitIndInv == Init => IndInv
<1> SUFFICES ASSUME Init PROVE IndInv
  OBVIOUS
<1>1. TypeOK
  <2>1. Start \in [module : Nat \ {0}, sensor : Nat \ {0}]
    BY DEF Start
  <2>2. at \in [Threads -> [module : Nat \ {0}, sensor : Nat \ {0}]]
    BY <2>1 DEF Init
  <2>3. pc \in [Threads -> {"idle", "open_lock", "open_subs", "list_fill", "list_unlock", "listed"}]
    BY DEF Init
  <2>4. global_to_full \subseteq Nat \X (Nat \X Nat) /\ full_to_global \subseteq (Nat \X Nat) \X Nat
    BY DEF Init
  <2>5. sub_hw_devices \in Seq(Modules) /\ mutable_sensor_list \in Seq(ListEntry)
    BY DEF Init
  <2>6. /\ sub_hw_modules = NULL /\ sub_hw_versions = NULL /\ global_sensors_list = NULL
        /\ init_sensors_mutex \in Threads \cup {NULL} /\ queue_mutex \in {"free", "open", "poll"}
    BY DEF Init
  <2>7. next_global_handle \in Nat /\ opens \in 0 .. 2
    BY DEF Init, FirstGlobalHandle
  <2>8. polled \in BOOLEAN /\ crashed \in BOOLEAN
    BY DEF Init
  <2> QED
    BY <2>2, <2>3, <2>4, <2>5, <2>6, <2>7, <2>8 DEF TypeOK
<1>2. Handshake /\ ModulesInOrder
  BY ConfigAssumption DEF Init, Handshake, AwaitsList, Opening, Listed, Opened, ModulesInOrder
<1>3. DevicesInOrder /\ VersionsAreKnown
  BY DEF Init, DevicesInOrder, VersionsAreKnown, AwaitsList, Opened, CrashesOnlyUnopened
<1>4. Numbered /\ MapsAgree
  BY DEF Init, Numbered, MapsAgree, HandleMapIsOneToOne, Listed, FirstGlobalHandle
<1> QED
  BY <1>1, <1>2, <1>3, <1>4 DEF IndInv

\* The maps are in step as long as no thread becomes the lister and the lister
\* stays where it is.
LEMMA MapsKeepAgreeing ==
  ASSUME MapsAgree, UNCHANGED <<global_to_full, full_to_global, sub_hw_modules>>,
         \A u \in Threads : pc'[u] = "list_fill" => pc[u] = "list_fill" /\ at'[u] = at[u]
  PROVE  MapsAgree'
<1> SUFFICES ASSUME LocalHandlesDiffer PROVE MapsAgree'
  BY DEF MapsAgree
<1>1. HandleMapIsOneToOne' /\ full_to_global' = {<<p[2], p[1]>> : p \in global_to_full'}
  BY DEF MapsAgree, HandleMapIsOneToOne
<1>2. ASSUME NEW u \in Threads, pc'[u] = "list_fill", NEW p \in global_to_full
      PROVE  \/ p[2][1] < at'[u].module - 1
             \/ /\ p[2][1] = at'[u].module - 1
                /\ at'[u].module <= Len(sub_hw_modules)
                /\ \E j \in 1 .. at'[u].sensor - 1 :
                      /\ j <= Len(SensorsOf[sub_hw_modules[at'[u].module]])
                      /\ p[2][2] = SensorsOf[sub_hw_modules[at'[u].module]][j]
  <2>1. pc[u] = "list_fill" /\ at'[u] = at[u]
    BY <1>2
  <2> QED
    BY <1>2, <2>1 DEF MapsAgree
<1> QED
  BY <1>1, <1>2 DEF MapsAgree

\* In particular when no thread moves.
LEMMA MapsStayAgreed ==
  ASSUME MapsAgree, UNCHANGED <<global_to_full, full_to_global, at, sub_hw_modules>>,
         \A u \in Threads : pc'[u] = "list_fill" => pc[u] = "list_fill"
  PROVE  MapsAgree'
  BY MapsKeepAgreeing

\* Every step of a thread and of poll() preserves the invariant.
LEMMA NextIndInv == IndInv /\ [Next]_vars => IndInv'
<1> SUFFICES ASSUME IndInv, [Next]_vars PROVE IndInv'
  OBVIOUS
<1>1. ASSUME NEW t \in Threads, OpenLoadsModules(t)
      PROVE  IndInv'
  <2>1. /\ sub_hw_modules' \in Seq(Modules) /\ sub_hw_modules' # NULL
        /\ ModulesInOrder' /\ (sub_hw_modules # NULL => sub_hw_modules' = sub_hw_modules)
    BY <1>1, LoadedInOrder DEF IndInv, OpenLoadsModules
  <2>2. TypeOK'
    BY <1>1, <2>1 DEF IndInv, OpenLoadsModules, Goto, listVars, TypeOK
  <2>3. Handshake'
    BY <1>1, <2>1, ConfigAssumption DEF IndInv, OpenLoadsModules, Goto, listVars,
       Handshake, AwaitsList, Opening, TypeOK, Listed, Opened
  <2>4. ModulesInOrder'
    BY <1>1, <2>1 DEF IndInv, OpenLoadsModules, Goto, listVars, ModulesInOrder,
       Handshake, Opened, TypeOK
  <2>5. DevicesInOrder'
    BY <1>1, <2>1 DEF IndInv, OpenLoadsModules, Goto, listVars, DevicesInOrder,
       Parallel, Handshake, AwaitsList, Opening, Opened, TypeOK
  <2>6. VersionsAreKnown'
    BY <1>1, <2>1 DEF IndInv, OpenLoadsModules, Goto, listVars, VersionsAreKnown,
       AwaitsList, CrashesOnlyUnopened, Handshake, Opening, Opened, Listed, TypeOK
  <2>7. CASE sub_hw_modules = NULL
    <3>1. ~Listed /\ init_sensors_mutex = NULL
      BY <2>7 DEF IndInv, Handshake
    <3>2. mutable_sensor_list = <<>> /\ global_to_full = {} /\ \A u \in Threads : pc[u] # "list_fill"
      <4>1. Numbered /\ \A u \in Threads : pc[u] # "list_fill"
        BY <3>1, ConfigAssumption DEF IndInv, Handshake
      <4>2. mutable_sensor_list = <<>>
        BY <3>1, <4>1 DEF Numbered
      <4>3. \A p \in global_to_full : p[1] \in 1 .. 0
        BY <4>1, <4>2 DEF Numbered
      <4> QED
        BY <4>1, <4>2, <4>3
    <3>3. Numbered'
      BY <1>1, <3>1, <3>2 DEF IndInv, OpenLoadsModules, listVars, Numbered, Listed
    <3>4. /\ UNCHANGED <<global_to_full, full_to_global>>
          /\ \A u \in Threads : pc'[u] # "list_fill"
      BY <1>1, <3>2 DEF IndInv, OpenLoadsModules, Goto, listVars, TypeOK
    <3>5. MapsAgree'
      BY <3>4 DEF IndInv, MapsAgree, HandleMapIsOneToOne
    <3> QED BY <2>2, <2>3, <2>4, <2>5, <2>6, <3>3, <3>5 DEF IndInv
  <2>8. CASE sub_hw_modules # NULL
    <3>1. /\ UNCHANGED <<global_to_full, full_to_global, at, sub_hw_modules>>
          /\ \A u \in Threads : pc'[u] = "list_fill" => pc[u] = "list_fill"
      BY <1>1, <2>1, <2>8 DEF IndInv, OpenLoadsModules, Goto, listVars, TypeOK
    <3>2. Numbered'
      BY <1>1, <3>1 DEF IndInv, OpenLoadsModules, listVars, Numbered, Listed
    <3>3. MapsAgree'
      BY <3>1, MapsStayAgreed DEF IndInv
    <3> QED BY <2>2, <2>3, <2>4, <2>5, <2>6, <3>2, <3>3 DEF IndInv
  <2> QED BY <2>7, <2>8
<1>2. ASSUME NEW t \in Threads, OpenLocks(t)
      PROVE  IndInv'
  <2>1. TypeOK'
    BY <1>2, ConfigAssumption DEF IndInv, OpenLocks, LockQueueMutex, Start, Goto,
       listVars, TypeOK
  <2>2. Handshake'
    BY <1>2 DEF IndInv, OpenLocks, LockQueueMutex, Start, Goto, listVars, Handshake,
       AwaitsList, Opening, TypeOK, Listed, Opened
  <2>3. ModulesInOrder'
    BY <1>2 DEF IndInv, OpenLocks, ModulesInOrder
  <2>4. DevicesInOrder'
    BY <1>2 DEF IndInv, OpenLocks, LockQueueMutex, Start, Goto, listVars,
       DevicesInOrder, Parallel, Handshake, AwaitsList, Opening, Opened, TypeOK
  <2>5. VersionsAreKnown'
    <3>1. {} # NULL /\ sub_hw_devices = <<>>
      BY <1>2, ConfigAssumption DEF IndInv, OpenLocks, DevicesInOrder
    <3> QED
      BY <1>2, <3>1 DEF IndInv, OpenLocks, VersionsAreKnown, CrashesOnlyUnopened
  <2>6. Numbered'
    BY <1>2 DEF IndInv, OpenLocks, LockQueueMutex, Start, Goto, listVars, Numbered,
       Handshake, AwaitsList, Opening, Opened, Listed, TypeOK
  <2>7. MapsAgree'
    <3>1. /\ UNCHANGED <<global_to_full, full_to_global, sub_hw_modules>>
          /\ \A u \in Threads : pc'[u] = "list_fill" => pc[u] = "list_fill" /\ at'[u] = at[u]
      BY <1>2 DEF IndInv, OpenLocks, Goto, listVars, TypeOK
    <3>2. MapsAgree
      BY DEF IndInv
    <3> QED
      BY <3>1, <3>2, MapsKeepAgreeing
  <2> QED BY <2>1, <2>2, <2>3, <2>4, <2>5, <2>6, <2>7 DEF IndInv
<1>3. ASSUME NEW t \in Threads, OpenSubModule(t)
      PROVE  IndInv'
  <2> DEFINE n == at[t].module
             m == sub_hw_modules[n]
  <2>1. TypeOK /\ Handshake /\ pc[t] = "open_subs" /\ opens = 1
    BY <1>3 DEF IndInv, OpenSubModule, Handshake, AwaitsList, Opening
  <2>2. /\ n \in 1 .. Len(sub_hw_modules) /\ sub_hw_modules \in Seq(Modules) /\ m \in Modules
        /\ n - 1 \in Nat /\ at[t] \in [module : Nat \ {0}, sensor : Nat \ {0}]
    <3>1. sub_hw_modules \in Seq(Modules) /\ at[t] \in [module : Nat \ {0}, sensor : Nat \ {0}]
      BY <2>1 DEF TypeOK, Handshake
    <3>2. n <= Len(sub_hw_modules)
      BY <1>3 DEF OpenSubModule
    <3> QED
      BY <3>1, <3>2
  <2>3. /\ pc' = pc /\ opens' = opens /\ sub_hw_modules' = sub_hw_modules
        /\ at' = [at EXCEPT ![t].module = n + 1]
    BY <1>3 DEF OpenSubModule
  <2>4. /\ at' \in [Threads -> [module : Nat \ {0}, sensor : Nat \ {0}]]
        /\ at'[t].module = n + 1
    <3>1. [at[t] EXCEPT !.module = n + 1] \in [module : Nat \ {0}, sensor : Nat \ {0}]
      BY <2>2
    <3>2. at' = [at EXCEPT ![t] = [at[t] EXCEPT !.module = n + 1]] /\ DOMAIN at = Threads
      BY <2>1, <2>3 DEF TypeOK
    <3> QED
      BY <2>1, <2>2, <3>1, <3>2 DEF TypeOK
  <2>5. \A u \in Threads : (pc[u] = "open_subs" => u = t) /\ pc[u] # "open_lock"
    BY <2>1 DEF Handshake, AwaitsList, Opening
  <2>6. /\ \/ sub_hw_devices' = Append(sub_hw_devices, m)
           \/ m \in OpenMayFail /\ sub_hw_devices' = sub_hw_devices
        /\ sub_hw_devices' \in Seq(Modules) /\ sub_hw_devices \in Seq(Modules)
    <3>1. sub_hw_devices \in Seq(Modules)
      BY <2>1 DEF TypeOK
    <3>2. \/ sub_hw_devices' = Append(sub_hw_devices, m)
          \/ m \in OpenMayFail /\ sub_hw_devices' = sub_hw_devices
      BY <1>3 DEF OpenSubModule, RememberDevice
    <3> HIDE DEF m
    <3>3. Append(sub_hw_devices, m) \in Seq(Modules)
      BY <2>2, <3>1
    <3> QED
      BY <3>1, <3>2, <3>3
  <2>7. TypeOK'
    <3>1. (sub_hw_versions = NULL \/ sub_hw_versions \subseteq Modules)' /\ crashed' \in BOOLEAN
      BY <1>3, <2>1, <2>2 DEF OpenSubModule, RememberDevice, TypeOK
    <3> QED
      BY <1>3, <2>1, <2>3, <2>4, <2>6, <3>1 DEF OpenSubModule, listVars, TypeOK
  <2>8. Handshake'
    BY <1>3 DEF IndInv, OpenSubModule, RememberDevice, listVars, Handshake, AwaitsList, Opening,
       TypeOK, Listed, Opened
  <2>9. ModulesInOrder'
    BY <1>3 DEF IndInv, OpenSubModule, RememberDevice, listVars, ModulesInOrder,
       Handshake, Opened, TypeOK
  <2>10. DevicesInOrder'
    <3> HIDE DEF n, m
    <3>1. Parallel(n - 1)
      BY <2>1 DEF IndInv, DevicesInOrder, n
    <3>2. ASSUME NEW k \in 0 .. n, \A i \in 1 .. k : sub_hw_modules[i] \notin OpenMayFail
          PROVE  /\ k <= Len(sub_hw_devices')
                 /\ k = n => k = Len(sub_hw_devices')
                 /\ \A i \in 1 .. k : sub_hw_devices'[i] = sub_hw_modules[i]
      <4>1. CASE k \in 0 .. n - 1
        <5>1. k <= Len(sub_hw_devices) /\ \A i \in 1 .. k : sub_hw_devices[i] = sub_hw_modules[i]
          BY <3>1, <3>2, <4>1 DEF Parallel
        <5>2. Len(sub_hw_devices') >= Len(sub_hw_devices)
          BY <2>6
        <5>3. \A i \in 1 .. Len(sub_hw_devices) : sub_hw_devices'[i] = sub_hw_devices[i]
          BY <2>6
        <5> QED
          BY <2>2, <2>6, <4>1, <5>1, <5>2, <5>3
      <4>2. CASE k = n
        <5>1. sub_hw_devices' = Append(sub_hw_devices, m) /\ m = sub_hw_modules[n]
          BY <2>2, <2>6, <3>2, <4>2 DEF m
        <5>2. Len(sub_hw_devices) = n - 1 /\ \A i \in 1 .. n - 1 : sub_hw_devices[i] = sub_hw_modules[i]
          <6>1. n - 1 \in 0 .. n - 1
            BY <2>2
          <6>2. \A i \in 1 .. n - 1 : sub_hw_modules[i] \notin OpenMayFail
            BY <2>2, <3>2, <4>2
          <6> QED
            BY <3>1, <6>1, <6>2 DEF Parallel
        <5>3. sub_hw_devices \in Seq(Modules) /\ m \in Modules /\ n \in Nat
          BY <2>2, <2>6
        <5>4. Len(sub_hw_devices') = n /\ sub_hw_devices'[n] = m
          BY <5>1, <5>2, <5>3
        <5>5. \A i \in 1 .. n - 1 : sub_hw_devices'[i] = sub_hw_devices[i]
          BY <5>1, <5>2, <5>3
        <5>6. \A i \in 1 .. n : i = n \/ i \in 1 .. n - 1
          BY <5>3
        <5> QED
          BY <4>2, <5>1, <5>2, <5>3, <5>4, <5>5, <5>6
      <4> QED
        BY <2>2, <4>1, <4>2
    <3>3. Parallel(at[t].module - 1)' /\ at'[t].module <= Len(sub_hw_modules') + 1
      BY <2>2, <2>3, <2>4, <3>2 DEF Parallel
    <3> QED
      BY <2>1, <2>3, <2>5, <3>3 DEF DevicesInOrder, Opened
  <2>11. VersionsAreKnown'
    <3> HIDE DEF n, m
    <3>1. ~Opened' /\ Listed' = Listed
      BY <1>3, <2>1, <2>3 DEF OpenSubModule, listVars, Listed, Opened
    <3>2. SUFFICES ASSUME ~Listed
                   PROVE  /\ sub_hw_versions' # NULL
                          /\ \A i \in 1 .. Len(sub_hw_devices') : sub_hw_devices'[i] \in sub_hw_versions'
      BY <3>1 DEF VersionsAreKnown, AwaitsList, CrashesOnlyUnopened
    <3>3. /\ sub_hw_versions # NULL /\ sub_hw_versions \subseteq Modules
          /\ \A i \in 1 .. Len(sub_hw_devices) : sub_hw_devices[i] \in sub_hw_versions
      BY <2>1, <3>2 DEF IndInv, VersionsAreKnown, AwaitsList, TypeOK
    <3>4. sub_hw_versions \cup {m} # NULL
      BY <2>2, <3>3, ConfigAssumption
    <3>5. CASE RememberDevice(m)
      BY <2>2, <2>6, <3>3, <3>4, <3>5 DEF RememberDevice
    <3>6. CASE UNCHANGED <<sub_hw_devices, sub_hw_versions, crashed>>
      BY <3>3, <3>6
    <3> QED
      BY <1>3, <3>5, <3>6 DEF OpenSubModule, n, m
  <2>12. Numbered'
    BY <1>3 DEF IndInv, OpenSubModule, RememberDevice, listVars, Numbered, Handshake,
       AwaitsList, Opening, Opened, Listed, TypeOK
  <2>13. MapsAgree'
    <3>1. /\ UNCHANGED <<global_to_full, full_to_global, sub_hw_modules>>
          /\ \A u \in Threads : pc'[u] = "list_fill" => pc[u] = "list_fill" /\ at'[u] = at[u]
      BY <1>3, <2>1, <2>3 DEF OpenSubModule, listVars, TypeOK
    <3>2. MapsAgree
      BY DEF IndInv
    <3> QED
      BY <3>1, <3>2, MapsKeepAgreeing
  <2> QED BY <2>7, <2>8, <2>9, <2>10, <2>11, <2>12, <2>13 DEF IndInv
<1>4. ASSUME NEW t \in Threads, OpenReturns(t)
      PROVE  IndInv'
  <2>1. TypeOK'
    BY <1>4 DEF IndInv, OpenReturns, Goto, listVars, TypeOK
  <2>2. Handshake'
    BY <1>4 DEF IndInv, OpenReturns, Goto, listVars, Handshake, AwaitsList, Opening, TypeOK, Listed,
       Opened
  <2>3. ModulesInOrder'
    BY <1>4 DEF IndInv, OpenReturns, ModulesInOrder
  <2>4. DevicesInOrder'
    <3>1. /\ UNCHANGED <<sub_hw_modules, sub_hw_devices, at>>
          /\ \A u \in Threads : pc'[u] \notin {"open_lock", "open_subs"}
          /\ opens' = 2 /\ pc[t] = "open_subs"
      BY <1>4 DEF IndInv, OpenReturns, Goto, Handshake, Opening, TypeOK
    <3>2. sub_hw_modules \in Seq(Modules) /\ at[t].module \in Nat \ {0}
      BY <3>1 DEF IndInv, TypeOK, Handshake, Opening
    <3>3. at[t].module - 1 = Len(sub_hw_modules) /\ Parallel(at[t].module - 1)
      BY <1>4, <3>1, <3>2 DEF IndInv, DevicesInOrder, OpenReturns
    <3>4. Parallel(Len(sub_hw_modules))'
      BY <3>1, <3>3 DEF Parallel
    <3> QED
      BY <3>1, <3>4 DEF DevicesInOrder, Opened
  <2>5. VersionsAreKnown'
    BY <1>4 DEF IndInv, OpenReturns, Goto, listVars, VersionsAreKnown, AwaitsList,
       CrashesOnlyUnopened, Handshake, Opening, Opened, Listed, TypeOK
  <2>6. Numbered'
    BY <1>4 DEF IndInv, OpenReturns, Goto, listVars, Numbered, Handshake, AwaitsList, Opening,
       Opened, Listed, TypeOK
  <2>7. MapsAgree'
    <3>1. /\ UNCHANGED <<global_to_full, full_to_global, at, sub_hw_modules>>
          /\ \A u \in Threads : pc'[u] = "list_fill" => pc[u] = "list_fill"
      BY <1>4 DEF IndInv, OpenReturns, Goto, listVars, TypeOK
    <3> QED
      BY <3>1, MapsStayAgreed DEF IndInv
  <2> QED BY <2>1, <2>2, <2>3, <2>4, <2>5, <2>6, <2>7 DEF IndInv
<1>5. ASSUME NEW t \in Threads, ListEarlyReturn(t)
      PROVE  IndInv'
  <2>1. TypeOK'
    BY <1>5 DEF IndInv, ListEarlyReturn, AlreadyInitialized, Goto, listVars, TypeOK
  <2>2. Handshake'
    BY <1>5 DEF IndInv, ListEarlyReturn, AlreadyInitialized, Goto, listVars, Handshake,
       AwaitsList, Opening, TypeOK, Listed, Opened
  <2>3. ModulesInOrder'
    BY <1>5 DEF IndInv, ListEarlyReturn, ModulesInOrder
  <2>4. DevicesInOrder'
    BY <1>5 DEF IndInv, ListEarlyReturn, AlreadyInitialized, Goto, listVars,
       DevicesInOrder, Parallel, Handshake, AwaitsList, Opening, Opened, TypeOK
  <2>5. VersionsAreKnown'
    BY <1>5 DEF IndInv, ListEarlyReturn, AlreadyInitialized, Goto, listVars,
       VersionsAreKnown, AwaitsList, CrashesOnlyUnopened, Handshake, Opening, Opened, Listed,
       TypeOK
  <2>6. Numbered'
    BY <1>5 DEF IndInv, ListEarlyReturn, AlreadyInitialized, Goto, listVars, Numbered,
       Handshake, AwaitsList, Opening, Opened, Listed, TypeOK
  <2>7. MapsAgree'
    <3>1. /\ UNCHANGED <<global_to_full, full_to_global, at, sub_hw_modules>>
          /\ \A u \in Threads : pc'[u] = "list_fill" => pc[u] = "list_fill"
      BY <1>5 DEF IndInv, ListEarlyReturn, Goto, listVars, TypeOK
    <3> QED
      BY <3>1, MapsStayAgreed DEF IndInv
  <2> QED BY <2>1, <2>2, <2>3, <2>4, <2>5, <2>6, <2>7 DEF IndInv
<1>6. ASSUME NEW t \in Threads, ListBegins(t)
      PROVE  IndInv'
  <2>1. /\ sub_hw_modules' \in Seq(Modules) /\ sub_hw_modules' # NULL
        /\ ModulesInOrder' /\ (opens # 0 => sub_hw_modules' = sub_hw_modules)
    BY <1>6, LoadedInOrder DEF IndInv, ListBegins, Handshake
  <2>2. TypeOK'
    BY <1>6, <2>1 DEF IndInv, ListBegins, AlreadyInitialized, Start, Goto, TypeOK
  <2>3. Handshake'
    BY <1>6, <2>1, ConfigAssumption DEF IndInv, ListBegins, AlreadyInitialized, Start,
       Goto, Handshake, AwaitsList, Opening, TypeOK, Listed, Opened
  <2>4. ModulesInOrder'
    BY <1>6, <2>1 DEF IndInv, ListBegins, AlreadyInitialized, Start, Goto,
       ModulesInOrder, Handshake, Opened, TypeOK
  <2>5. DevicesInOrder'
    <3>1. /\ UNCHANGED <<sub_hw_devices, opens>>
          /\ \A u \in Threads : pc'[u] \in {"open_lock", "open_subs"} => pc'[u] = pc[u] /\ at'[u] = at[u]
      BY <1>6 DEF IndInv, ListBegins, Goto, TypeOK
    <3>2. CASE opens = 0
      <4>1. \A u \in Threads : pc'[u] \notin {"open_lock", "open_subs"}
        BY <3>1, <3>2 DEF IndInv, Handshake, Opening
      <4> QED
        BY <3>1, <3>2, <4>1 DEF IndInv, DevicesInOrder, Opened
    <3>3. CASE opens # 0
      BY <2>1, <3>1, <3>3 DEF IndInv, DevicesInOrder, Parallel, Opened
    <3> QED
      BY <3>2, <3>3
  <2>6. VersionsAreKnown'
    BY <1>6, <2>1 DEF IndInv, ListBegins, AlreadyInitialized, Start, Goto,
       VersionsAreKnown, AwaitsList, CrashesOnlyUnopened, Handshake, Opening, Opened, Listed,
       TypeOK
  <2>7. Numbered'
    BY <1>6, <2>1 DEF IndInv, ListBegins, AlreadyInitialized, Start, Goto, Numbered,
       Handshake, AwaitsList, Opening, Opened, Listed, TypeOK
  <2>8. MapsAgree'
    BY <1>6, <2>1 DEF IndInv, ListBegins, AlreadyInitialized, Start, Goto, MapsAgree,
       HandleMapIsOneToOne, Numbered, Handshake, AwaitsList, Opening, Opened, Listed, TypeOK
  <2> QED BY <2>2, <2>3, <2>4, <2>5, <2>6, <2>7, <2>8 DEF IndInv
<1>7. ASSUME NEW t \in Threads, ListSensor(t)
      PROVE  IndInv'
  <2> DEFINE k == at[t].module
             m == sub_hw_modules[k]
             j == at[t].sensor
             full == <<k - 1, SensorsOf[m][j]>>
             entry == [module |-> m, local |-> SensorsOf[m][j], handle |-> next_global_handle]
  <2>1. TypeOK /\ Handshake /\ pc[t] = "list_fill" /\ ~Listed /\ init_sensors_mutex = t
    <3>1. TypeOK /\ Handshake /\ pc[t] = "list_fill"
      BY <1>7 DEF IndInv, ListSensor
    <3>2. init_sensors_mutex = t
      BY <3>1 DEF Handshake, TypeOK
    <3>3. ~Listed
      BY <3>1, <3>2, ConfigAssumption DEF Handshake
    <3> QED
      BY <3>1, <3>2, <3>3
  <2>2. /\ k \in 1 .. Len(sub_hw_modules) /\ sub_hw_modules \in Seq(Modules) /\ m \in Modules
        /\ SensorsOf[m] \in Seq(Nat) /\ j \in 1 .. Len(SensorsOf[m])
        /\ k - 1 \in Nat /\ SensorsOf[m][j] \in Nat /\ SensorsOf[m] # <<>>
        /\ at[t] \in [module : Nat \ {0}, sensor : Nat \ {0}]
    <3>1. sub_hw_modules \in Seq(Modules) /\ at[t] \in [module : Nat \ {0}, sensor : Nat \ {0}]
      BY <2>1, ConfigAssumption DEF TypeOK, Handshake
    <3>2. k <= Len(sub_hw_modules) /\ j <= Len(SensorsOf[m])
      BY <1>7 DEF ListSensor
    <3>3. m \in Modules
      BY <3>1, <3>2
    <3>4. SensorsOf[m] \in Seq(Nat)
      BY <3>3, ConfigAssumption
    <3> HIDE DEF m
    <3>5. k \in 1 .. Len(sub_hw_modules) /\ k - 1 \in Nat /\ j \in 1 .. Len(SensorsOf[m])
      BY <3>1, <3>2, <3>4
    <3>6. SensorsOf[m][j] \in Nat /\ SensorsOf[m] # <<>>
      <4>1. \A s \in Seq(Nat), i \in Nat : i \in 1 .. Len(s) => s[i] \in Nat /\ s # <<>>
        OBVIOUS
      <4>2. j \in Nat
        BY <3>1
      <4> QED
        BY <3>4, <3>5, <4>1, <4>2
    <3> QED
      BY <3>1, <3>3, <3>4, <3>5, <3>6
  <2>3. /\ global_to_full' = global_to_full \cup {<<next_global_handle, full>>}
        /\ full_to_global' = {p \in full_to_global : p[1] # full} \cup {<<full, next_global_handle>>}
        /\ next_global_handle' = next_global_handle + 1
        /\ mutable_sensor_list' = Append(mutable_sensor_list, entry)
        /\ global_sensors_list' = global_sensors_list /\ sub_hw_modules' = sub_hw_modules
        /\ pc' = pc /\ init_sensors_mutex' = init_sensors_mutex
        /\ at' = [at EXCEPT ![t].sensor = j + 1]
    BY <1>7 DEF ListSensor, assign_global_handle, ModuleIndex
  <2>4. /\ at' \in [Threads -> [module : Nat \ {0}, sensor : Nat \ {0}]]
        /\ at'[t].module = k /\ at'[t].sensor = j + 1
    <3>1. /\ [at[t] EXCEPT !.sensor = j + 1] \in [module : Nat \ {0}, sensor : Nat \ {0}]
          /\ [at[t] EXCEPT !.sensor = j + 1].module = k /\ [at[t] EXCEPT !.sensor = j + 1].sensor = j + 1
      <4>1. at[t] \in [module : Nat \ {0}, sensor : Nat \ {0}]
        BY <2>2
      <4> QED
        BY <4>1
    <3>2. at' = [at EXCEPT ![t] = [at[t] EXCEPT !.sensor = j + 1]]
      BY <2>1, <2>3 DEF TypeOK
    <3> QED
      BY <2>1, <3>1, <3>2 DEF TypeOK
  <2>5. \A u \in Threads : pc[u] = "list_fill" <=> u = t
    BY <2>1 DEF Handshake
  <2>6. entry \in ListEntry /\ full \in Nat \X Nat /\ next_global_handle \in Nat
    BY <2>1, <2>2 DEF TypeOK, ListEntry
  <2> HIDE DEF k, m, j, full, entry
  <2>7. TypeOK'
    <3>1. mutable_sensor_list' \in Seq(ListEntry)
      BY <2>3, <2>6 DEF IndInv, TypeOK
    <3>2. /\ global_to_full' \subseteq Nat \X (Nat \X Nat)
          /\ full_to_global' \subseteq (Nat \X Nat) \X Nat
          /\ next_global_handle' \in Nat
      <4>1. /\ <<next_global_handle, full>> \in Nat \X (Nat \X Nat)
            /\ <<full, next_global_handle>> \in (Nat \X Nat) \X Nat
        BY <2>6
      <4>2. /\ global_to_full \subseteq Nat \X (Nat \X Nat)
            /\ full_to_global \subseteq (Nat \X Nat) \X Nat
        BY <2>1 DEF TypeOK
      <4>3. next_global_handle' \in Nat
        BY <2>3, <2>6
      <4> QED
        BY <2>3, <4>1, <4>2, <4>3
    <3>3. crashed' \in BOOLEAN
      BY <1>7 DEF ListSensor, LookupFails
    <3> QED
      BY <1>7, <2>1, <2>3, <2>4, <3>1, <3>2, <3>3 DEF ListSensor, TypeOK
  <2>8. Handshake'
    BY <1>7 DEF IndInv, ListSensor, Handshake, AwaitsList, Opening, TypeOK, Listed, Opened
  <2>9. ModulesInOrder'
    BY <1>7 DEF IndInv, ListSensor, ModulesInOrder
  <2>10. DevicesInOrder'
    <3>1. UNCHANGED <<sub_hw_devices, sub_hw_modules, opens>>
      BY <1>7 DEF ListSensor
    <3>2. \A u \in Threads : pc[u] = "open_subs" => at'[u] = at[u]
      BY <1>7, <2>1 DEF ListSensor, TypeOK
    <3> QED
      BY <2>3, <3>1, <3>2 DEF IndInv, DevicesInOrder, Parallel, Opened
  <2>11. VersionsAreKnown'
    <3>1. UNCHANGED <<sub_hw_devices, sub_hw_modules, sub_hw_versions, opens>>
      BY <1>7 DEF ListSensor
    <3>2. AwaitsList' = AwaitsList /\ Opened' = Opened
      BY <2>3, <3>1 DEF AwaitsList, Listed, Opened
    <3>3. ASSUME Opened, crashed' PROVE ListsWithoutDevice'
      <4>1. /\ sub_hw_versions # NULL
            /\ \A i \in 1 .. Len(sub_hw_devices) : sub_hw_devices[i] \in sub_hw_versions
        BY <2>1, <3>3 DEF IndInv, VersionsAreKnown, AwaitsList
      <4>2. ~LookupRaces
        BY <2>1, <3>3 DEF LookupRaces, Handshake, Opening, Opened
      <4>3. LookupFails(m)
        BY <1>7, <3>3, <4>2 DEF ListSensor, m, k
      <4>4. m \notin Range(sub_hw_devices)
        BY <2>1, <4>1, <4>3 DEF LookupFails, Range, TypeOK
      <4> QED
        BY <2>2, <3>1, <4>4 DEF ListsWithoutDevice, m
    <3> QED
      BY <3>1, <3>2, <3>3 DEF IndInv, VersionsAreKnown, CrashesOnlyUnopened
  <2>12. Numbered'
    <3> DEFINE L == mutable_sensor_list
               l == Len(L)
    <3>1. /\ L \in Seq(ListEntry) /\ l \in Nat /\ next_global_handle = l + 1
          /\ mutable_sensor_list' = Append(L, entry) /\ Len(mutable_sensor_list') = l + 1
          /\ \A i \in 1 .. l : mutable_sensor_list'[i] = L[i]
          /\ mutable_sensor_list'[l + 1] = entry
      BY <2>3, <2>6 DEF IndInv, Numbered, TypeOK
    <3>2. entry.handle = l + 1 /\ entry.module = sub_hw_modules[k] /\ entry.local = SensorsOf[m][j]
      BY <3>1 DEF entry, m
    <3>3. ASSUME NEW i \in 1 .. l + 1
          PROVE  mutable_sensor_list'[i].handle = i /\ \E p \in global_to_full' : p[1] = i
      <4>1. CASE i = l + 1
        <5>1. <<next_global_handle, full>> \in global_to_full'
          BY <2>3
        <5>2. <<next_global_handle, full>>[1] = i
          BY <3>1, <4>1
        <5> QED
          BY <3>1, <3>2, <4>1, <5>1, <5>2
      <4>2. CASE i \in 1 .. l
        BY <2>3, <3>1, <4>2 DEF IndInv, Numbered
      <4> QED
        BY <3>1, <4>1, <4>2
    <3>4. ASSUME NEW p \in global_to_full'
          PROVE  /\ p[1] \in 1 .. l + 1
                 /\ p[2][1] + 1 \in 1 .. Len(sub_hw_modules)
                 /\ mutable_sensor_list'[p[1]].module = sub_hw_modules[p[2][1] + 1]
                 /\ mutable_sensor_list'[p[1]].local = p[2][2]
                 /\ SensorsOf[sub_hw_modules[p[2][1] + 1]] # <<>>
      <4>1. CASE p \in global_to_full
        BY <3>1, <4>1 DEF IndInv, Numbered
      <4>2. CASE p = <<next_global_handle, full>>
        <5>1. p[1] = l + 1 /\ p[2][1] = k - 1 /\ p[2][2] = SensorsOf[m][j] /\ p[2][1] + 1 = k
          BY <2>2, <3>1, <4>2 DEF full
        <5> QED
          BY <2>2, <3>1, <3>2, <5>1 DEF m
      <4> QED
        BY <2>3, <4>1, <4>2
    <3>5. init_sensors_mutex # NULL /\ ~Listed'
      BY <2>1, <2>3, ConfigAssumption DEF Listed
    <3> QED
      BY <2>3, <3>1, <3>3, <3>4, <3>5 DEF Numbered
  <2>13. MapsAgree'
    <3> SUFFICES ASSUME LocalHandlesDiffer PROVE MapsAgree'
      BY DEF MapsAgree
    <3> DEFINE Before(p, s) == \/ p[2][1] < k - 1
                               \/ /\ p[2][1] = k - 1
                                  /\ \E i \in 1 .. s - 1 : i <= Len(SensorsOf[m]) /\ p[2][2] = SensorsOf[m][i]
    <3>1. \A p \in global_to_full : Before(p, j)
      BY <2>1, <2>2 DEF IndInv, MapsAgree, k, m, j
    <3>2. ASSUME NEW p \in global_to_full PROVE p[2] # full
      <4>1. SUFFICES ASSUME p[2] = full PROVE FALSE
        OBVIOUS
      <4>2. p[2][1] = k - 1 /\ p[2][2] = SensorsOf[m][j]
        BY <4>1 DEF full
      <4>3. PICK i \in 1 .. j - 1 : i <= Len(SensorsOf[m]) /\ SensorsOf[m][j] = SensorsOf[m][i]
        BY <2>2, <3>1, <4>2
      <4>4. i \in 1 .. Len(SensorsOf[m]) /\ i # j
        BY <2>2, <4>3
      <4> QED
        BY <2>2, <4>3, <4>4 DEF LocalHandlesDiffer
    <3>3. full_to_global = {<<p[2], p[1]>> : p \in global_to_full}
      BY DEF IndInv, MapsAgree
    <3>4. full_to_global' = full_to_global \cup {<<full, next_global_handle>>}
      BY <2>3, <3>2, <3>3
    <3>5. full_to_global' = {<<p[2], p[1]>> : p \in global_to_full'}
      <4> DEFINE Flip(p) == <<p[2], p[1]>>
      <4>1. Flip(<<next_global_handle, full>>) = <<full, next_global_handle>>
        OBVIOUS
      <4>2. full_to_global = {Flip(p) : p \in global_to_full}
        BY <3>3
      <4> HIDE DEF Flip
      <4>3. full_to_global' = {Flip(p) : p \in global_to_full'}
        BY <2>3, <3>4, <4>1, <4>2
      <4> QED
        BY <4>3 DEF Flip
    <3>6. ASSUME NEW p \in global_to_full' PROVE Before(p, j + 1)
      <4>1. CASE p \in global_to_full
        <5>1. \A i \in 1 .. j - 1 : i \in 1 .. (j + 1) - 1
          BY <2>2
        <5>2. Before(p, j)
          BY <3>1, <4>1
        <5> QED
          BY <5>1, <5>2
      <4>2. CASE p = <<next_global_handle, full>>
        BY <2>2, <4>2 DEF full
      <4> QED
        BY <2>3, <4>1, <4>2
    <3>7. \A u \in Threads : pc'[u] = "list_fill" => u = t
      BY <2>3, <2>5
    <3>8. \A p \in global_to_full' :
             \/ p[2][1] < at'[t].module - 1
             \/ /\ p[2][1] = at'[t].module - 1
                /\ at'[t].module <= Len(sub_hw_modules')
                /\ \E i \in 1 .. at'[t].sensor - 1 :
                      /\ i <= Len(SensorsOf[sub_hw_modules'[at'[t].module]])
                      /\ p[2][2] = SensorsOf[sub_hw_modules'[at'[t].module]][i]
      BY <2>2, <2>3, <2>4, <3>6 DEF m
    <3>9. HandleMapIsOneToOne'
      <4>1. \A p \in global_to_full : p[1] # next_global_handle
        BY <2>1 DEF IndInv, Numbered, TypeOK
      <4>2. <<next_global_handle, full>>[1] = next_global_handle /\ <<next_global_handle, full>>[2] = full
        OBVIOUS
      <4>3. HandleMapIsOneToOne
        BY DEF IndInv, MapsAgree
      <4> QED
        BY <2>3, <3>2, <4>1, <4>2, <4>3 DEF HandleMapIsOneToOne
    <3> QED
      BY <3>5, <3>7, <3>8, <3>9 DEF MapsAgree
  <2> QED BY <2>7, <2>8, <2>9, <2>10, <2>11, <2>12, <2>13 DEF IndInv
<1>8. ASSUME NEW t \in Threads, ListNextModule(t)
      PROVE  IndInv'
  <2>1. TypeOK'
    BY <1>8 DEF IndInv, ListNextModule, listVars, TypeOK
  <2>2. Handshake'
    BY <1>8 DEF IndInv, ListNextModule, listVars, Handshake, AwaitsList, Opening, TypeOK, Listed,
       Opened
  <2>3. ModulesInOrder'
    BY <1>8 DEF IndInv, ListNextModule, ModulesInOrder
  <2>4. DevicesInOrder'
    BY <1>8 DEF IndInv, ListNextModule, listVars, DevicesInOrder, Parallel, Handshake,
       AwaitsList, Opening, Opened, TypeOK
  <2>5. VersionsAreKnown'
    BY <1>8 DEF IndInv, ListNextModule, listVars, VersionsAreKnown, AwaitsList,
       CrashesOnlyUnopened, Handshake, Opening, Opened, Listed, TypeOK
  <2>6. Numbered'
    BY <1>8 DEF IndInv, ListNextModule, listVars, Numbered, Handshake, AwaitsList, Opening, Opened,
       Listed, TypeOK
  <2>7. MapsAgree'
    <3> SUFFICES ASSUME LocalHandlesDiffer PROVE MapsAgree'
      BY DEF MapsAgree
    <3>1. /\ at'[t].module = at[t].module + 1 /\ at[t].module \in Nat
          /\ \A u \in Threads : pc'[u] = "list_fill" => u = t
          /\ UNCHANGED <<global_to_full, full_to_global>>
      BY <1>8 DEF IndInv, ListNextModule, listVars, TypeOK, Handshake
    <3>2. \A p \in global_to_full : p[2][1] \in Nat
      BY DEF IndInv, TypeOK
    <3>3. \A p \in global_to_full : p[2][1] <= at[t].module - 1
      BY <1>8, <3>1, <3>2 DEF IndInv, MapsAgree, ListNextModule
    <3>4. full_to_global' = {<<p[2], p[1]>> : p \in global_to_full'} /\ HandleMapIsOneToOne'
      BY <3>1 DEF IndInv, MapsAgree, HandleMapIsOneToOne
    <3>5. \A p \in global_to_full' : p[2][1] < at'[t].module - 1
      BY <3>1, <3>2, <3>3
    <3> QED
      BY <3>1, <3>4, <3>5 DEF MapsAgree
  <2> QED BY <2>1, <2>2, <2>3, <2>4, <2>5, <2>6, <2>7 DEF IndInv
<1>9. ASSUME NEW t \in Threads, ListPublishes(t)
      PROVE  IndInv'
  <2>1. TypeOK'
    BY <1>9, ConfigAssumption DEF IndInv, ListPublishes, Goto, TypeOK
  <2>2. Handshake'
    BY <1>9, ConfigAssumption DEF IndInv, ListPublishes, Goto, Handshake, AwaitsList, Opening,
       TypeOK, Listed, Opened
  <2>3. ModulesInOrder'
    BY <1>9 DEF IndInv, ListPublishes, ModulesInOrder
  <2>4. DevicesInOrder'
    BY <1>9 DEF IndInv, ListPublishes, Goto, DevicesInOrder, Parallel, Handshake,
       AwaitsList, Opening, Opened, TypeOK
  <2>5. VersionsAreKnown'
    BY <1>9, ConfigAssumption DEF IndInv, ListPublishes, Goto, VersionsAreKnown,
       AwaitsList, CrashesOnlyUnopened, Handshake, Opening, Opened, Listed, TypeOK
  <2>6. Numbered'
    BY <1>9, ConfigAssumption DEF IndInv, ListPublishes, Goto, Numbered, Handshake,
       AwaitsList, Opening, Opened, Listed, TypeOK
  <2>7. MapsAgree'
    <3>1. /\ UNCHANGED <<global_to_full, full_to_global, at, sub_hw_modules>>
          /\ \A u \in Threads : pc'[u] = "list_fill" => pc[u] = "list_fill"
      BY <1>9 DEF IndInv, ListPublishes, Goto, TypeOK
    <3> QED
      BY <3>1, MapsStayAgreed DEF IndInv
  <2> QED BY <2>1, <2>2, <2>3, <2>4, <2>5, <2>6, <2>7 DEF IndInv
<1>10. ASSUME NEW t \in Threads, ListUnlocks(t)
      PROVE  IndInv'
  <2>1. TypeOK'
    BY <1>10 DEF IndInv, ListUnlocks, UnlockQueueMutex, Goto, listVars, TypeOK
  <2>2. Handshake'
    BY <1>10 DEF IndInv, ListUnlocks, UnlockQueueMutex, Goto, listVars, Handshake,
       AwaitsList, Opening, TypeOK, Listed, Opened
  <2>3. ModulesInOrder'
    BY <1>10 DEF IndInv, ListUnlocks, ModulesInOrder
  <2>4. DevicesInOrder'
    BY <1>10 DEF IndInv, ListUnlocks, UnlockQueueMutex, Goto, listVars, DevicesInOrder,
       Parallel, Handshake, AwaitsList, Opening, Opened, TypeOK
  <2>5. VersionsAreKnown'
    BY <1>10 DEF IndInv, ListUnlocks, UnlockQueueMutex, Goto, listVars,
       VersionsAreKnown, AwaitsList, CrashesOnlyUnopened, Handshake, Opening, Opened, Listed,
       TypeOK
  <2>6. Numbered'
    BY <1>10 DEF IndInv, ListUnlocks, UnlockQueueMutex, Goto, listVars, Numbered,
       Handshake, AwaitsList, Opening, Opened, Listed, TypeOK
  <2>7. MapsAgree'
    <3>1. /\ UNCHANGED <<global_to_full, full_to_global, at, sub_hw_modules>>
          /\ \A u \in Threads : pc'[u] = "list_fill" => pc[u] = "list_fill"
      BY <1>10 DEF IndInv, ListUnlocks, Goto, listVars, TypeOK
    <3> QED
      BY <3>1, MapsStayAgreed DEF IndInv
  <2> QED BY <2>1, <2>2, <2>3, <2>4, <2>5, <2>6, <2>7 DEF IndInv
<1>11. ASSUME NEW t \in Threads, ListReturns(t)
      PROVE  IndInv'
  <2>1. TypeOK'
    BY <1>11 DEF IndInv, ListReturns, Goto, listVars, TypeOK
  <2>2. Handshake'
    BY <1>11 DEF IndInv, ListReturns, Goto, listVars, Handshake, AwaitsList, Opening, TypeOK,
       Listed, Opened
  <2>3. ModulesInOrder'
    BY <1>11 DEF IndInv, ListReturns, ModulesInOrder
  <2>4. DevicesInOrder'
    BY <1>11 DEF IndInv, ListReturns, Goto, listVars, DevicesInOrder, Parallel,
       Handshake, AwaitsList, Opening, Opened, TypeOK
  <2>5. VersionsAreKnown'
    BY <1>11 DEF IndInv, ListReturns, Goto, listVars, VersionsAreKnown, AwaitsList,
       CrashesOnlyUnopened, Handshake, Opening, Opened, Listed, TypeOK
  <2>6. Numbered'
    BY <1>11 DEF IndInv, ListReturns, Goto, listVars, Numbered, Handshake, AwaitsList, Opening,
       Opened, Listed, TypeOK
  <2>7. MapsAgree'
    <3>1. /\ UNCHANGED <<global_to_full, full_to_global, at, sub_hw_modules>>
          /\ \A u \in Threads : pc'[u] = "list_fill" => pc[u] = "list_fill"
      BY <1>11 DEF IndInv, ListReturns, Goto, listVars, TypeOK
    <3> QED
      BY <3>1, MapsStayAgreed DEF IndInv
  <2> QED BY <2>1, <2>2, <2>3, <2>4, <2>5, <2>6, <2>7 DEF IndInv
<1>12. ASSUME PollLocks
      PROVE  IndInv'
  <2>1. TypeOK'
    BY <1>12 DEF IndInv, PollLocks, listVars, TypeOK
  <2>2. Handshake'
    BY <1>12 DEF IndInv, PollLocks, listVars, Handshake, AwaitsList, Opening, TypeOK, Listed, Opened
  <2>3. ModulesInOrder'
    BY <1>12 DEF IndInv, PollLocks, ModulesInOrder
  <2>4. DevicesInOrder'
    BY <1>12 DEF IndInv, PollLocks, listVars, DevicesInOrder, Parallel, Handshake,
       AwaitsList, Opening, Opened, TypeOK
  <2>5. VersionsAreKnown'
    BY <1>12 DEF IndInv, PollLocks, listVars, VersionsAreKnown, AwaitsList, CrashesOnlyUnopened,
       Handshake, Opening, Opened, Listed, TypeOK
  <2>6. Numbered'
    BY <1>12 DEF IndInv, PollLocks, listVars, Numbered, Handshake, AwaitsList, Opening, Opened,
       Listed, TypeOK
  <2>7. MapsAgree'
    <3>1. /\ UNCHANGED <<global_to_full, full_to_global, at, sub_hw_modules>>
          /\ \A u \in Threads : pc'[u] = "list_fill" => pc[u] = "list_fill"
      BY <1>12 DEF PollLocks, listVars
    <3> QED
      BY <3>1, MapsStayAgreed DEF IndInv
  <2> QED BY <2>1, <2>2, <2>3, <2>4, <2>5, <2>6, <2>7 DEF IndInv
<1>13. ASSUME PollUnlocks
      PROVE  IndInv'
  <2>1. TypeOK'
    BY <1>13 DEF IndInv, PollUnlocks, listVars, TypeOK
  <2>2. Handshake'
    BY <1>13 DEF IndInv, PollUnlocks, listVars, Handshake, AwaitsList, Opening, TypeOK, Listed,
       Opened
  <2>3. ModulesInOrder'
    BY <1>13 DEF IndInv, PollUnlocks, ModulesInOrder
  <2>4. DevicesInOrder'
    BY <1>13 DEF IndInv, PollUnlocks, listVars, DevicesInOrder, Parallel, Handshake,
       AwaitsList, Opening, Opened, TypeOK
  <2>5. VersionsAreKnown'
    BY <1>13 DEF IndInv, PollUnlocks, listVars, VersionsAreKnown, AwaitsList, CrashesOnlyUnopened,
       Handshake, Opening, Opened, Listed, TypeOK
  <2>6. Numbered'
    BY <1>13 DEF IndInv, PollUnlocks, listVars, Numbered, Handshake, AwaitsList, Opening, Opened,
       Listed, TypeOK
  <2>7. MapsAgree'
    <3>1. /\ UNCHANGED <<global_to_full, full_to_global, at, sub_hw_modules>>
          /\ \A u \in Threads : pc'[u] = "list_fill" => pc[u] = "list_fill"
      BY <1>13 DEF PollUnlocks, listVars
    <3> QED
      BY <3>1, MapsStayAgreed DEF IndInv
  <2> QED BY <2>1, <2>2, <2>3, <2>4, <2>5, <2>6, <2>7 DEF IndInv
<1>14. ASSUME UNCHANGED vars
      PROVE  IndInv'
  <2>1. TypeOK'
    BY <1>14 DEF IndInv, vars, listVars, TypeOK
  <2>2. Handshake'
    BY <1>14 DEF IndInv, vars, listVars, Handshake, AwaitsList, Opening, TypeOK, Listed, Opened
  <2>3. ModulesInOrder'
    BY <1>14 DEF IndInv, vars, ModulesInOrder
  <2>4. DevicesInOrder'
    BY <1>14 DEF IndInv, vars, listVars, DevicesInOrder, Parallel, Handshake, AwaitsList, Opening,
       Opened, TypeOK
  <2>5. VersionsAreKnown'
    BY <1>14 DEF IndInv, vars, listVars, VersionsAreKnown, AwaitsList, CrashesOnlyUnopened,
       ListsWithoutDevice, Range, Opened, Listed
  <2>6. Numbered'
    BY <1>14 DEF IndInv, vars, listVars, Numbered, Handshake, AwaitsList, Opening, Opened, Listed,
       TypeOK
  <2>7. MapsAgree'
    <3>1. /\ UNCHANGED <<global_to_full, full_to_global, at, sub_hw_modules>>
          /\ \A u \in Threads : pc'[u] = "list_fill" => pc[u] = "list_fill"
      BY <1>14 DEF vars, listVars
    <3> QED
      BY <3>1, MapsStayAgreed DEF IndInv
  <2> QED BY <2>1, <2>2, <2>3, <2>4, <2>5, <2>6, <2>7 DEF IndInv
<1> QED
  BY <1>1, <1>2, <1>3, <1>4, <1>5, <1>6, <1>7, <1>8, <1>9, <1>10, <1>11, <1>12, <1>13,
     <1>14 DEF Next, ThreadStep, ProcessDead

-----------------------------------------------------------------------------
LEMMA Invariance == Spec => []IndInv
  BY InitIndInv, NextIndInv, PTL DEF Spec

\* Every variable of the start-up keeps its type, whatever fails to load or open.
THEOREM TypeCorrect == Spec => []TypeOK
<1>1. IndInv => TypeOK
  BY DEF IndInv
<1> QED
  BY <1>1, Invariance, PTL

\* Only a thread that finds the maps complete gets queue_mutex: open_sensors()
\* leaves it locked and the first lister unlocks it after publishing.
THEOREM MapsCompleteBeforePoll == Spec => []PollSeesCompleteMaps
<1>1. IndInv => PollSeesCompleteMaps
  BY DEF IndInv, Handshake, PollSeesCompleteMaps
<1> QED
  BY <1>1, Invariance, PTL

\* Whatever the order of the calls and whatever fails to load or to open, the
\* version lookup brings the process down only when the list is asked for before
\* open_sensors() has returned or a module that lists sensors has no device.
THEOREM LookupFailsOnlyUnopened == Spec => []CrashesOnlyUnopened
<1>1. IndInv => CrashesOnlyUnopened
  BY DEF IndInv, VersionsAreKnown
<1> QED
  BY <1>1, Invariance, PTL

\* The published list is numbered 1, 2, 3, ... and the two maps are inverse to
\* each other, if no module uses a local handle twice.
THEOREM HandlesAreListIndexes == LocalHandlesDiffer => (Spec => []HandleIsListIndex)
<1> SUFFICES ASSUME LocalHandlesDiffer PROVE Spec => []HandleIsListIndex
  OBVIOUS
<1>1. IndInv => HandleIsListIndex
  <2> SUFFICES ASSUME IndInv, Listed
               PROVE  /\ \A i \in 1 .. Len(global_sensors_list) : global_sensors_list[i].handle = i
                      /\ {p[1] : p \in global_to_full} = 1 .. Len(global_sensors_list)
                      /\ full_to_global = {<<p[2], p[1]>> : p \in global_to_full}
    BY DEF HandleIsListIndex
  <2>1. global_sensors_list = mutable_sensor_list
    BY DEF IndInv, Numbered
  <2>2. \A i \in 1 .. Len(global_sensors_list) :
           global_sensors_list[i].handle = i /\ \E p \in global_to_full : p[1] = i
    BY <2>1 DEF IndInv, Numbered
  <2>3. \A p \in global_to_full : p[1] \in 1 .. Len(global_sensors_list)
    BY <2>1 DEF IndInv, Numbered
  <2>4. {p[1] : p \in global_to_full} = 1 .. Len(global_sensors_list)
    BY <2>2, <2>3
  <2>5. full_to_global = {<<p[2], p[1]>> : p \in global_to_full}
    BY DEF IndInv, MapsAgree
  <2> QED
    BY <2>2, <2>4, <2>5
<1> QED
  BY <1>1, Invariance, PTL

\* The maps never confuse two sensors, on the same condition: what MultiHalControl
\* assumes of its GlobalToFull.
THEOREM HandleMapsAreOneToOne == LocalHandlesDiffer => (Spec => []HandleMapIsOneToOne)
<1> SUFFICES ASSUME LocalHandlesDiffer PROVE Spec => []HandleMapIsOneToOne
  OBVIOUS
<1>1. IndInv => HandleMapIsOneToOne
  BY DEF IndInv, MapsAgree
<1> QED
  BY <1>1, Invariance, PTL

\* A call for a listed sensor reaches the device of the module that listed it,
\* if no module after a failed open() lists sensors.
THEOREM CallsReachTheOwner == FailuresComeLast => (Spec => []RoutedToOwner)
<1> SUFFICES ASSUME FailuresComeLast PROVE Spec => []RoutedToOwner
  OBVIOUS
<1>1. IndInv => RoutedToOwner
  <2> SUFFICES ASSUME IndInv, Listed, Opened,
                      NEW i \in 1 .. Len(global_sensors_list), NEW p \in global_to_full,
                      p[1] = global_sensors_list[i].handle
               PROVE  /\ p[2][2] = global_sensors_list[i].local
                      /\ p[2][1] + 1 \in DOMAIN sub_hw_devices
                      /\ sub_hw_devices[p[2][1] + 1] = global_sensors_list[i].module
    BY DEF RoutedToOwner
  <2> DEFINE k == p[2][1] + 1
  <2>1. Opened /\ sub_hw_modules \in Seq(Modules)
    BY ConfigAssumption DEF IndInv, TypeOK, Handshake
  <2>2. /\ p[1] = i /\ k \in 1 .. Len(sub_hw_modules)
        /\ global_sensors_list[i].module = sub_hw_modules[k]
        /\ global_sensors_list[i].local = p[2][2]
        /\ SensorsOf[sub_hw_modules[k]] # <<>>
    BY DEF IndInv, Numbered
  <2> HIDE DEF k
  <2>3. \A j \in 1 .. k : sub_hw_modules[j] \notin OpenMayFail
    <3>1. sub_hw_modules # NULL
      BY <2>1, ConfigAssumption
    <3> QED
      BY <2>1, <2>2, <3>1 DEF IndInv, ModulesInOrder
  <2>4. k <= Len(sub_hw_devices) /\ \A j \in 1 .. k : sub_hw_devices[j] = sub_hw_modules[j]
    <3>1. Parallel(Len(sub_hw_modules))
      BY <2>1 DEF IndInv, DevicesInOrder
    <3>2. k \in 0 .. Len(sub_hw_modules)
      BY <2>1, <2>2
    <3> QED
      BY <2>3, <3>1, <3>2 DEF Parallel
  <2>5. k \in 1 .. Len(sub_hw_devices) /\ sub_hw_devices \in Seq(Modules)
    BY <2>1, <2>2, <2>4 DEF IndInv, TypeOK
  <2> QED
    BY <2>2, <2>4, <2>5 DEF k
<1> QED
  BY <1>1, Invariance, PTL

\* What poll(), activate() and batch() read without init_sensors_mutex: the
\* list, both handle maps, the modules and the devices.
PublishedIsFrozen ==
    [][Listed => /\ UNCHANGED <<listVars, sub_hw_modules>>
                 /\ Opened => UNCHANGED sub_hw_devices]_vars

\* Once the list is published no thread changes the maps again, and once the
\* device is open none changes its sub-devices, so MultiHalPoll and
\* MultiHalControl may take them as constants.
THEOREM PublishedMapsAreFrozen == Spec => PublishedIsFrozen
<1>1. ASSUME IndInv, [Next]_vars, Listed
      PROVE  UNCHANGED <<listVars, sub_hw_modules>> /\ (Opened => UNCHANGED sub_hw_devices)
  <2>1. TypeOK /\ Handshake /\ init_sensors_mutex = NULL /\ sub_hw_modules # NULL
    BY <1>1 DEF IndInv, Handshake
  <2>2. \A t \in Threads : pc[t] # "list_fill" /\ (Opened => pc[t] # "open_subs")
    BY <2>1, ConfigAssumption DEF Handshake, Opening, Opened
  <2>3. ASSUME NEW t \in Threads, ThreadStep(t)
        PROVE  UNCHANGED <<listVars, sub_hw_modules>> /\ (Opened => UNCHANGED sub_hw_devices)
    <3>1. /\ ~ListBegins(t) /\ ~ListSensor(t) /\ ~ListNextModule(t) /\ ~ListPublishes(t)
          /\ Opened => ~OpenSubModule(t)
      BY <1>1, <2>2 DEF ListBegins, AlreadyInitialized, Listed, ListSensor, ListNextModule,
         ListPublishes, OpenSubModule
    <3>2. CASE OpenLoadsModules(t)
      BY <2>1, <3>2 DEF OpenLoadsModules, lazy_init_modules
    <3>3. CASE OpenSubModule(t)
      BY <3>1, <3>3 DEF OpenSubModule
    <3>4. CASE \/ OpenLocks(t) \/ OpenReturns(t) \/ ListEarlyReturn(t)
               \/ ListUnlocks(t) \/ ListReturns(t)
      BY <3>4 DEF OpenLocks, OpenReturns, ListEarlyReturn, ListUnlocks, ListReturns
    <3> QED
      BY <2>3, <3>1, <3>2, <3>3, <3>4 DEF ThreadStep
  <2> QED
    BY <1>1, <2>3 DEF Next, PollLocks, PollUnlocks, ProcessDead, vars
<1> QED
  BY <1>1, Invariance, PTL DEF Spec, PublishedIsFrozen
=============================================================================

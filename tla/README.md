# Mozart device tree: TLA+ models, checks and proofs

This directory specifies the native code of the Huawei MediaPad M2 ("mozart")
LineageOS tree in TLA+: the sensors multihal, the power HAL, the MAC address
service, two of the shims that keep Android 6 blobs running on Android 9, and the
two platform patches that carry state of their own: the camera session and the
overlay path of the hardware composer.
TLC checks the models on small instances, TLAPS proves the most important
invariants for all parameters.  `PROJECT.json` maps every definition to the
lines it models and lists components, runs, mutants, hazards and theorems.

Paths below are relative to `src/device/huawei/mozart/` unless they start
with `src/`.

## 1. Inventory

| Component | State | Operations | What is hard | Correct means |
|---|---|---|---|---|
| `sensors/SensorEventQueue` | ring of `sensors_event_t`: `mData`, `mStart`, `mSize`, a condition | `getWritableRegion`, `markAsWritten`, `peek`, `dequeue`, `waitForSpace` | a region is handed out, written without the mutex and published later, while the reader moves `mStart` | a slot is never readable and writable at once; the region stays where it will be published |
| `sensors/multihal`, event path | the queues, `queue_mutex`, `data_available_cond`, `waiting_for_data`, `nextReadIndex` | one `writerTask` per sub-HAL, `poll()` | two conditions over one mutex, broadcasts sent only at certain edges, dropped events, failing sub-HALs | FIFO per sub-HAL, no lost wakeup, no starvation, non-empty batches |
| `sensors/multihal`, initialisation | `sub_hw_modules`, `sub_hw_versions`, devices, handle maps, sensor list | `open_sensors`, `lazy_init_modules`, `lazy_init_sensors_list` | `queue_mutex` is locked by one function and unlocked by another, on another thread; modules fail to load or to open | handles number the list, route to their owner, and no event is remapped before the maps are complete |
| `sensors/multihal`, control calls | `sensors_enable_state`, `sensors_batch_list`, the sub-HALs' sensors | `activate`, `setDelay`, `batch`, `flush`, `inject_sensor_data` | `batch()` emulated for old sub-HALs by saving a period and applying it later | the period asked for last wins; no failure is hidden; no `setDelay()` on a disabled sensor |
| `power/power.c` | `boost_active`, `boost_deadline`, `low_power_mode`, sysfs nodes | hints, `power_set_interactive`, `boost_worker` | the deadline is computed before the lock, nodes are written after it, timed waits | a granted boost lasts, is short, ends, and is off in low power mode |
| `macaddr` | two address files, their temporary files | `main`, `EnsureMac`, `StoreMac`, vendor helper | failing system calls, restarts, power failures | what is installed is complete; exit status 0 is honest; the device is never left without its address |
| `libshims/gui/SensorManager` | cached proxy, sensor list, death observer, `mLock` | construction, five methods, `sensorManagerDied` | the service dies between any two remote calls; its death is reported late | the cache is consistent, answers are fresh, calls return |
| `libshims/gui/CameraMetadata` | a heap buffer and a lock flag per object | `update`, `clear`, `release`, `acquire`, `getAndLock`, `unlock`, `find` | ownership of raw buffers, growth by replacement, data inside the buffer that is replaced | one owner per buffer, updates always fit, a locked buffer stays put |
| `thermal/thermal.c` | table of sensor paths behind `pthread_once` | read temperatures, CPU usage, fans | parsing `/proc/stat` and sysfs | values are those of the files |
| `health/HealthService.cpp` | none | two scaling functions | overflow guard | unit conversion |
| `libshims/gui/ISensorServer` and headers | none | marshalling of one call each | - | a dead service answers with nothing |
| other shims (`GraphicBuffer*`, `Fence`, `libshim_log`, `camera_legacy`) | none | forward a symbol | - | - |
| `src/patches/hardware/interfaces/hwc2onfbadapter-*` | layer states, changed types, the overlaid layer, `mOverlayDisabledByError` | layer hooks, `validateLayers`, `acceptChanges`, `setBuffer`, `postBuffer`, `postOverlay` | layers vanish between validation and presentation; the overlay fails after SurfaceFlinger has left a hole for it | every layer is shown by exactly one side; a failing overlay costs one frame |
| `src/patches/hardware/interfaces/legacy-huawei-camera-hal` | the gate (`mLegacyStillCaptureInFlight`, its frame, a condition), the last intent, registered streams, circulating buffers | `processOneCaptureRequest`, result and error callbacks, `flush`, `configureStreams`, `close` | a request gives up on a still after 5 s and the JPEG comes late; failures on the way to the HAL; null settings | no request overtakes a still that is waited for, nobody waits for nothing, the HAL knows every stream it is asked for |
| other patches, `libinit`, `dlopener`, `src/scripts`, rc files, sepolicy, overlays | declarative or straight-line | - | - | - |

Interactions: the framework's threads call the multihal's control functions and
`poll()`; each opened sub-HAL gets a `writerTask`, which meets `poll()` in its
queue under `queue_mutex`; initialisation and `poll()` meet in the same mutex and
in the handle maps.  Binder threads of the power HAL meet the boost worker under
`boost_lock` and in the nodes.  The MAC service meets its readers, and its own
later runs, in the file system.  Camera blobs meet the two shims through plain
calls; the SensorManager shim is also entered by binder with death reports.  The
camera session stands between the camera service's request thread, its flushes and
the HAL's callbacks; the HWC2 adapter between SurfaceFlinger's main thread and the
framebuffer driver.

## 2. Modules

| Module | Models |
|---|---|
| `SensorEventQueue` | the ring buffer, as operators on a queue value |
| `MultiHalPoll` (instantiates `SensorEventQueue`) | writers, `poll()`, both conditions, remapping |
| `EventFifo` | abstract specification of the event path: one FIFO per sub-HAL |
| `MultiHalPollProofs` | theorems about `MultiHalPoll`, among them that it implements `EventFifo` |
| `MultiHalInit`, `MultiHalInitProofs` | `open_sensors()` and the sensor list, with the `queue_mutex` handshake; theorems |
| `MultiHalControl`, `MultiHalControlProofs` | the control calls, forwarded or emulated; theorems |
| `PowerBoost`, `PowerBoostProofs` | the boost, its worker and the node writes; theorems |
| `MacAddr`, `MacAddrProofs` | the MAC address service and its files; theorems |
| `SensorManager`, `SensorManagerProofs` | the sensor service client of the blobs; theorems |
| `LegacyCameraMetadata` | the legacy CameraMetadata object |
| `LegacyCameraSession` | the session over the legacy camera HAL |
| `LegacyCameraProofs` | theorems about both of the camera modules |
| `HwcOverlay`, `HwcOverlayProofs` | the overlay path of the HWC2 adapter and its fallback; theorems |
| `MC*` | the instances TLC checks |

### How state and actions correspond to the code

**MultiHalPoll.** `queues[s]` is the `SensorEventQueue` of sub-HAL `s`, `buffer[s]`
the region that `getWritableRegion` gave its writer, `data` and `empties` are the
locals of `poll()`.  A writer's two critical sections (wait for space and take a
region, `multihal.cpp:138-147`; mark and broadcast, `159-167`) are one step each.  In
between, `SubHalWrites` stores one event at a time *without* the mutex.  `poll()` takes
one step per iteration of its loop while it holds the mutex, so unlocked writes of
the sub-HALs fall between its reads.  Condition waits, broadcasts and spurious
wakeups are explicit.  An event carries its type, the handles of its two fields and
an identity; `copy_event_remap_handle` and the `-1` test are modelled as written.
The thread's ring slots start uninitialised (`Blank`), so a read of an unwritten slot
would be visible.  `accepted` and `bypassed` are history variables.

**MultiHalInit.** One step per lock operation, opened module and numbered sensor;
`lazy_init_modules` runs under its own mutex and is one step.  Modules fail to load
(they are not in `sub_hw_modules`) or to open (no device is added).  Several threads
ask for the list, before, during or after `open_sensors()`; the device is opened once.  The version
lookup (`LookupFails`, `LookupRaces`) brings the process down when the map is not there, has no entry for the
module, or is being filled at the same time.

**MultiHalControl.** One step per call (SensorService serialises them).  The state
of the sub-HALs is kept per full handle (module index, local handle), and every sub-HAL
call may succeed or fail.  A listed sensor may be without a device (`HasDevice`), and a handle may be unlisted:
the index `handle - 1` then lies outside the tables (`UnlistedIndexed`, after which nothing is claimed).
`ToInt` is the `int` parameter of `update_batch_data`.  `inject_sensor_data` passes the multihal's own device
and the global handle on (`InjectCall`).  The branch of `sensors_poll_context_t::batch` for old sub-HALs
(`multihal.cpp:402-429`) has no action: `device__batch` calls it for newer ones only.
`requested`, `activateOk` and `tracked` are history variables.

**PowerBoost.** Hints run on binder threads: the deadline is computed
(`RequestBegins`), then the critical section runs (`RequestGranted`,
`RequestRefused`, `CancelLocks`), then the nodes are written one by one (`WriteNode`); a write
may fail for the nodes in `WriteMayFail` (none in `power_nodes`, whose point is the order of the writes).
The worker waits, with or without a deadline.  Time is a counter.

**MacAddr.** One step per system call.  A file records how much of its text is there,
whether it was synced and owned.  `HasValidMac` may answer no whatever the file holds, because its `open()` or
`read()` may fail.  `onDisk` is what a power failure leaves: a file that was not
synced may come back empty or partial, a rename may or may not have reached the disk.

**SensorManager.** The service is a sequence of incarnations; every remote call is a step,
the service manager may still hand out a dead proxy, and a death report runs on a
binder thread that first has to get `mLock`.  Binder keeps observers weakly, so
only the one held by `mDeathObserver` is called, unless its call has already begun.
`getService()` only ever answers `NO_ERROR` or `NAME_NOT_FOUND`, so the error return of
`assertStateLocked` has no step.

**LegacyCameraMetadata.** One step per call.  The heap maps addresses to buffers, reduced to
their entries' sizes and to the counts and capacities of the library's header; freed addresses
are used again; every allocation may fail.  The data of an update lies at the first byte of the object's buffer,
behind it, or elsewhere (`Sources`); the code refuses the second only.

**LegacyCameraSession.** `processOneCaptureRequest` is one step per part that other threads can
fall between: the gate and its wait, the import of the buffers, their registration, the call of the
HAL; each of the last three may fail and then opens the gate again.  The wait ends by a broadcast
or after five seconds.  Result and error callbacks, `flush()` and `close()` come at any time, `close()` also
with a request waiting, which then goes on.  A request is its output streams, a buffer for each of them, and its
settings: none (null), some without a capture intent, or an intent.  `importRequest` keeps the buffers in
`mCirculatingBuffers`; `Register` gives the HAL those that circulate when a stream is first used in a
configuration.  The HAL is external: what it has in force, registered and in work is `halSettings`,
`halBuffers`, `halBlobs` and `halStills`; it answers when it likes or never, and a configuration, accepted or
refused, may or may not make it forget the buffers of the streams it had.  So is the camera service: it
sends null settings only to repeat the outputs of the last accepted request, drains its
requests before it reconfigures, and sends none after a refused configuration (`service`).  A new session is
opened when the requests of the old one have ended.  `abandoned` is history: the stills that the session
stopped waiting for before they came.

**HwcOverlay.** `phase` is how far SurfaceFlinger's main thread is with its frame: layer state,
validation, acceptance of the changed types, client target, presentation.  `sfTypes` are the
composition types as SurfaceFlinger knows them, `mBuffer` is what it drew into the client target and
where it left a hole.  Layers vanish at any point of a frame.  Of a layer's geometry the model keeps whether the
overlay can show it (`fits`) and its area, which decides between several candidates.
`postOverlay()` succeeds or fails; failures of `open()`, the ioctl and the checks before them have the
same effect and are one step.  `post()` of the framebuffer may fail too (`FbPost`): the frame is lost and the
screen keeps the one before.  `frame`, `drawn`, `failedInRow` and `overlayFailed` are history.

## 3. Runs

| Run | Instance | What it shows |
|---|---|---|
| `poll` | 2 sub-HALs, 2 slots, batches of 2, 4 events each | no race on a slot, regions stay in place, no lost wakeup, round robin, the ring-buffer design implements `EventFifo` (refinement mapping `pending` = readable records, `batch` = the caller's buffer), every published event is consumed, writers on a full queue are released |
| `poll_corrupt` (violation) | 2 slots, 4 events | a META_DATA event about an unknown sensor is passed upstream |
| `init_and_overlay` | 2 threads, 4 modules, loading and opening may fail; 2 layers, 2 areas | numbering, routing, the handshake's safety and liveness, and that the version lookup fails in two cases only; one owner per layer, only a frame in which the overlay fails is incomplete, and a failure costs one frame |
| `init_list_first` (violation) | 1 thread | the list asked for before `open_sensors()` brings the process down |
| `init_sub_open` (violation) | 1 thread, a listing module fails to open | the device vector is no longer parallel to the modules, and the list brings the process down although `open_sensors()` succeeded |
| `power_boost` | 2 binder threads, clock to 5, hints below, at and above the limits | granted boosts last, are bounded, exclude low power mode, and end |
| `power_nodes` (violation) | two nodes | boosted values may stay in the nodes with no boost active |
| `sensor_manager` | 2 threads, 2 incarnations, 2 tries | consistent cache, fresh answers, no NULL proxy outside the constructor, calls return, deaths are noticed |
| `sensor_manager_ctor` (violation) | 1 thread, 2 incarnations, 2 tries | the constructor, which runs without `mLock`, meets a NULL proxy |
| `legacy_camera` | streams {preview, jpeg}, 1 buffer each, frames 0 to 2; 2 metadata objects, 2 addresses, 2 tags, sizes 0 and 1 | requests are serialised behind stills, sleeps are justified, the HAL gets requests only for streams it has registered buffers of, no thumbnail worker, every request ends; one owner per buffer, growth suffices, locked buffers frozen, updates local |
| `control_and_mac` | an old and a 1.4 sub-HAL, a sensor without a device, an unlisted handle, periods below and above "INT_MAX"; both address files, 2 boots | last period wins, no hidden failure, no `setDelay()` while disabled unless `activate()` failed; atomic installation, honest exit status, no address lost |
| `hwc_rearmed` (violation) | 1 layer, 1 area | the overlay comes back in the same process after a failure |

Three runs check two components each (`MCInitAndOverlay`, `MCControlAndMac`, `MCLegacyCamera`).  The two share no
variable, and neither writes what the other reads, so their interleavings would add nothing: a behaviour picks one of
them (`part`) and the other stays in an initial state.  The states of such a run are those of the one and those of the
other, and fairness is asked of the part that runs.  In `legacy_camera` the metadata are symmetric; where the session
runs they are in a state that no permutation changes, so that its liveness is not touched by the symmetry (TLC warns
that it might be).

Every property of a passing run has a mutant in `PROJECT.json`: a variant of one
definition, as a plausible slip in the code would make it, under which TLC finds the
property violated.

### Bounds and why they are enough

* Two slots let a queue be empty, partly filled, full and wrapped, with a region
  cut off by the end of the array and one cut off by the readable records; four
  events go round the array twice.  Two sub-HALs give contention on the
  mutex and the round robin; the theorems drop all of these bounds.
* Four modules: one with two sensors, two without any (one before and one after a
  module that shares a local handle with the first).
* `IntMax = 7` with periods 1 and 9 puts a value on either side of the largest `int`; 9 narrows to a negative
  number.  Three sensors: one of each kind of sub-HAL and one without a device.
* The clock runs to 5 with a limit of 3 ticks: a boost can be granted, extended, clamped,
  cancelled and granted again.  No request begins that would outlast the clock, so that
  the end of a boost is always within it.
* Two boots of the MAC service: a failure in any step of the first and the recovery of the second.
* Two incarnations: a report about the first may arrive during and after the reconnection
  to the second.  Two tries stand for sixty.
* Two addresses: a buffer and its replacement, or the buffers of two owners with no
  memory left; each may be reused.  Objects, addresses and tags are symmetric.
* Three frames of a camera session: a still that is given up, a second one behind the gate and a
  third request that meets the late JPEG of the first.  Frame numbers start at 0 again in a new session.
  One buffer per stream: the gate does not look at buffers, and `StreamsAreRegistered` asks whether the HAL has
  any of a stream.  The theorem drops the bound.
* Two layers: a video and what lies over it; one may vanish while the other is overlaid.  Layer
  numbers are not used again.  The theorems drop the bound.

### Fairness

* `MultiHalPoll`: a thread that wants `queue_mutex` again and again gets it (strong
  fairness), `poll()` runs while it holds it, and the framework's polling thread calls
  again after each return.  Nothing is assumed of sub-HALs or spurious wakeups, so
  liveness does not rest on them.
* `MultiHalInit`: threads inside a call keep running.
* `PowerBoost`: the clock ticks, calls that have begun go on, the worker runs, and a timed
  wait whose time is over returns.  No hint is owed.
* `SensorManager`: threads run and get `mLock` when they keep asking; binder delivers
  reports.  Neither a restart of the service nor a further call is assumed.
* `LegacyCameraSession`: the request thread runs, and its wait ends after five seconds at the
  latest.  Nothing is assumed of the HAL, so that a request ends although no JPEG comes.

### Deadlock

Checked everywhere but in `control_and_mac` (the MAC service ends; a control call can always come) and `SensorManager` (the process
aborts when the service does not come back).

## 4. Proofs

`MultiHalPollProofs` proves, for every number of sub-HALs, capacity, batch size,
bound on the events and handle map allowed by the assumptions of `MultiHalPoll`:

* `TypeCorrect`: `Spec => []TypeOK`
* `RegionInPlace`: `Spec => []RegionStaysInPlace`
* `NoRace`: `Spec => []NoSlotIsReadAndWritten`
* `WakeupsArrive`: `Spec => []NoLostWakeup`
* `RoundRobin`: `Spec => []BoundedBypass`

The inductive invariant is the conjunction of `TypeOK`, `RegionStaysInPlace`,
`NoLostWakeup` and `ScanInvariant`.  `RegionStaysInPlace` is inductive because `dequeue()` moves
`mStart` and `mSize` but not their sum modulo the capacity (`RingAdvance`,
`DequeueKeepsFirstWritable`) and nobody but the writer appends; disjointness of written and
readable slots follows from it by ring arithmetic.  `NoLostWakeup` is not inductive alone: that
`poll()` may go to sleep depends on the queues it has already looked at being still empty, which
needs that it holds the mutex while it scans; `BoundedBypass` needs that a queue was bypassed
less often than the scan has moved on since its turn.  Both are in `ScanInvariant`.

The same module proves `ImplementsFifo`: `Spec => FifoSpec`, the safety part of everything the event
path promises, for all parameters.  With the refinement mapping of `MultiHalPoll` (readable records of the
ring, oldest first, and the caller's buffer), `markAsWritten()` appends to the abstract FIFO (`MarkAppends`),
`peek()` and `dequeue()` take its head (`DequeueIsTail`), and a sub-HAL's unlocked write changes no readable
record (`WriteIsInvisible`), because of `RegionAvoidsReadable` and the inductive invariant above; every other
step is a stutter.

`OnlyMetaDataIsCorrupt` says how far the disagreement of `poll_corrupt` (section 5) goes: `NoCorruptEventUpstream`
holds if `MetaDataIsKnown`, that is, if the sub-HALs send META_DATA events about listed sensors only.  The
invariant is about every slot of the rings (`SlotsAreRemappable`), written or not yet.

`PowerBoostProofs` proves, for any callers, limits, hint values and clock bound:
`TypeCorrect`, `PromiseKept` (`BoostKeepsPromise`), `BoostIsShort` (`DeadlineBounded`) and
`LowPowerIsQuiet` (`NoBoostInLowPower`).  The strengthening is `PendingBounded`: deadlines that
were computed but not yet stored are bounded as well.  The assumption
`DEFAULT_INTERACTION_MS <= MAX_BOOST_MS` holds for the constants of `power.c`.
`NodesFollowSerialWrites` says how far the disagreement of `power_nodes` (section 5) goes: in a behaviour in which no
write fails and no two actors are ever inside `set_interaction_boost()` at once (`[]AtMostOneWriter`), `NodesRestored`
holds.  The code does not exclude a second writer, because the nodes are written outside `boost_lock`; the theorem
shows that this overlap is the only cause.  Its invariant `NodesFollow` says that the nodes written so far are as the boost
is now.

`LegacyCameraProofs` proves of the session, for any streams and any number of frames: `TypeCorrect`,
`StillsAreSerialized` (`Serialized`), `SleepsAreJustified` (`SleepIsJustified`), `StreamsKnown`
(`StreamsAreRegistered`, for any buffers) and the action property `NoThumbnail` (`NoThumbnailWorker`).  The inductive
invariant adds to the type invariant who the gate is closed for (`GateInvariant`: for the request that is
past it, or for a still that the HAL has), that frame numbers in the HAL are older than the next one
(`FramesAreFresh`: a late JPEG is never taken for that of the still at the gate), that the HAL's idea of the
capture intent is the session's unless the settings in force have none (`IntentIsTracked`), which is what null settings
rest on, and `RegistrationInvariant`: the session's record of registered streams is right about the HAL whenever a request
can come or is under way.  It need not be right after a refused configuration; that the next accepted one clears the record is what
the proof turns on.

Its second half proves of the metadata objects, for any objects, addresses, tags, sizes and capacities:

* `BuffersHaveOneOwner`: `OneOwner`
* `UpdatesAlwaysFit`: `UpdateFits`
* `LockedBuffersAreFrozen` and `UpdatesKeepOthers`: the action properties `LockedIsFrozen` and `UpdateKeepsOthers`

The module extends both camera modules, so the specification of the metadata objects has names of its own
(`MetadataInit`, `MetadataNext`, `MetadataSpec`), as have those of `MultiHalControl` and `HwcOverlay`, which the MC modules
put beside another.
The invariant `MetadataInv` replaces the counting of `OneOwner` by `Ownership`: what an object or a blob holds is not
freed, no two hold the same buffer, and somebody holds each buffer that is not freed.
`UpdateEffect` sums up `resizeIfNeeded()` and the library calls after it as their callers see them; it rests on
`ResizeOutcome` (a buffer with the same entries and room for one more, or no memory), `GrownMakesRoom` and `EntryIsSet`.
`UpdateFits` needs no sum over the entries because the library counts what it holds in the header, and so does the model.
`LockedIsFrozen` follows from `Ownership`: the object's own methods return early, and nobody else holds the buffer.

`HwcOverlayProofs` proves, for any number of layers and any areas: `LayersHaveOneOwner` (`OneOwnerPerLayer`),
`FramesAreComplete` (`NoWrongFrame`) and `FailureCostsOneFrame` (`OneFrameLost`).  The inductive invariant
consists of `OverlayTypeOK`, `TypesAgree` (both sides have the same requested types), `ValidationHolds` (as long as
the display is not modified the result of the validation describes the live layers), `TargetIsCurrent`
(the client target of the frame holds what SurfaceFlinger draws) and `FailureIsRemembered`.  It
shows which invalidations the adapter may not leave out: `ValidationHolds` survives the loss of a layer only because
the state becomes `MODIFIED`.

`MultiHalInitProofs` proves, for any number of threads, any config file, any sensor lists and any modules
that fail to load or open:

* `TypeCorrect`, and `MapsCompleteBeforePoll` (`PollSeesCompleteMaps`), without hypotheses;
* `LookupFailsOnlyUnopened` (`CrashesOnlyUnopened`), without hypotheses either: apart from the two cases that
  `init_list_first` and `init_sub_open` show, the version lookup succeeds;
* `HandlesAreListIndexes` (`HandleIsListIndex`) and `HandleMapsAreOneToOne`, if `LocalHandlesDiffer`: no
  sub-HAL uses a local handle twice;
* `CallsReachTheOwner` (`RoutedToOwner`), if `FailuresComeLast`: no module after one that fails to open lists
  sensors.  The comment in `multihal.cpp:830` promises this without the condition; `init_sub_open` shows
  that it is needed (section 5);
* `PublishedMapsAreFrozen`: once the list is published no step changes it, the maps or the modules, and once the
  device is open none changes the devices.  With `HandleMapsAreOneToOne` this is what lets `MultiHalControl` and `MultiHalPoll` have
  the handle map as a constant, in `MultiHalControl` an injective one.

The remaining hypotheses are about the configuration, not about the order of events: the code checks none of them.
The inductive invariant consists of `Handshake` (who may be where while `queue_mutex` is left locked; alone
enough for `PollSeesCompleteMaps`), `ModulesInOrder`, `DevicesInOrder` (`Parallel(n)`: of the first `n` modules, those
before the first failure have their devices at their own index), `VersionsAreKnown`, `Numbered` (a handle is its
place in the list *under construction*) and `MapsAgree` (the sensors numbered so far lie before the
lister's place, so that the next one is new).

`MultiHalControlProofs` proves, for any sub-HALs and versions, injective handle map, periods and largest `int`:
`TypeCorrect`, `LastPeriodAlwaysWins` (`LastPeriodWins`), `SetDelayOnlyWhileActive`
(`NoSetDelayWhileInactive`) and `FailuresAreReported` (`NoFailureHidden`).  `LastPeriodWins` speaks of a period that fits an
`int` or went to a sub-HAL with `batch()`, and not of a sensor whose saved period the sub-HAL refused or a `setDelay()` of the
framework passed by, until its next `batch()` (`tracked`); failed `activate()` calls are included.  The invariant is per sensor:
`sensors_enable_state` is right unless the last `activate()` failed (`EnableStateIsTrue`), nothing is saved for a
sensor that runs (`SavedWhileDisabled`), and the last period is in the sub-HAL or saved (`PeriodIsLast`).
`ToIntSmall` is where the width of `int` enters, and injectivity is what keeps a call for one sensor
from touching the state of another (`AfterActivate`, `AfterSetDelay`).

`SensorManagerProofs` proves, for any number of threads, tries and incarnations and with no assumption about the
service: `TypeCorrect`, `AnswersAreFresh` (`AnswerIsFresh`), `NullProxyNeverInCall` (`NullProxyOnlyInConstructor`) and
`ListMatchesSensors` (`ListIsOfCachedSensors`).  The invariant says who is inside `assertStateLocked()` or behind it
(`LockDiscipline`), that cached sensors are those of the cached proxy, that they are younger than every incarnation
that was dead when the call began (`Freshness`), and that a thread which holds `mLock` behind `getService()` keeps its
proxy (`ProxyIsKept`).  The constructor does not hold `mLock`, and is where the proxy can go (`sensor_manager_ctor`).

`MacAddrProofs` proves, for any random bytes, any files found and any number of boots: `InstalledFilesAreComplete`
(`InstalledIsComplete`), `ExitStatusIsTrue` (`ExitZeroMeansValid`) and the action property `AddressesStayValid`
(`AddressStaysValid`).  `GeneratedIsValid` shows that `GenerateMac()` makes a valid address of any bytes.  The invariant
follows the temporary file through `open()`, `fchmod()`, `write()` and `fsync()` (`TemporaryFile`), and says the same of
`onDisk` as of the visible files (`FilesAreComplete`): a power failure brings `onDisk` back, and leaves a synced file
as it is (`DamagedIsComplete`).

The assumptions on constants are those of the modules.  `ManagerAssumption`, `ConfigAssumption`, `NoFileAssumption`
and part of `MetadataAssumption` say of the marks `NULL`, `NoFile` and `Free` that they are none of the values
they are told from.

### Only model-checked

* The liveness properties (`EveryEventConsumed`, `WriterUnblocks`, `BoostEnds`, `RequestEnds`, `PollEventuallyRuns`,
  `CallReturns`, `DeathIsNoticed`): the prover does not handle fairness.
* The violations of section 5: a counterexample is their proof.

Every invariant and every action property of a passing run is a theorem.

## 5. Where code and comments disagree

Each of these has a run whose counterexample shows it (see `findings` in `PROJECT.json`):

1. `poll_corrupt`: `sensors/multihal.cpp:369` looks at `sensor` only; the `-1` of a
   META_DATA event is in `meta_data.sensor`.
2. `init_sub_open`: `sensors/multihal.cpp:836` skips a module that fails to open: the later devices move up, and line 746
   throws for the sensors of the module that was skipped.
3. `init_list_first`: `sensors/multihal.cpp:746` needs a map that only `open_sensors()` creates, although the list may
   come first according to lines 612-613.
4. `power_nodes`: `power/power.c:146` writes the nodes after the lock is released.
5. `sensor_manager_ctor`: `libshims/gui/SensorManager.cpp:131` connects without `mLock`, "not needed during construction",
   although the death observer can already be called.
6. `hwc_rearmed`: `src/README.md:67-68` says the fallback lasts "for that process"; the adapter tries the overlay again
   once a validation has read the property as off.

Observations made while modelling that no run states:

* After a failed `activate()` of an old sub-HAL, `multihal.cpp:505-508` goes on to `setDelay()`, which the comment at line
  545 says freezes SystemUI.  `NoSetDelayWhileInactive` leaves out exactly this case (`activateOk`).
* `multihal.cpp:504` records an `activate()` that line 309 calls ignored, for a sensor without a device, and for an
  unlisted handle beside the table (`UnlistedIndexed`).  SensorService passes listed handles only.
* A period above 2^31 - 1 ns is narrowed on its way into `sensors_batch_list`
  (`multihal.cpp:190`); `LastPeriodWins` is claimed for shorter ones.
* `inject_sensor_data` computes the local handle but forwards the event with the global one, and passes the
  multihal's device to the sub-HAL.
* If no module lists a sensor, a `get_sensors_list` before `open_sensors` does not fail, but the one that
  should unlock `queue_mutex` has then been: after `open_sensors` the mutex stays locked for good.
* `CameraMetadata.cpp:84` refuses data that lies behind the first byte of the object's buffer.  Data at the first byte
  passes and would be read after the resize has freed it; an entry's data lies behind the header.
* The camera session registers a stream once per configuration, with the buffers that circulate then
  (patch line 309: "initial buffer(s)"); buffers that come later reach the HAL unregistered.
* `close()` of the camera session wakes a waiting request, which goes on to a HAL that is being closed.
* A second `open_sensors` would leave `queue_mutex` locked, and `device__close` deletes queues that live
  writer threads use.  SensorService does neither.
* `StoreMac` does not sync the directory after `rename()`: after a power failure the old file
  may be back, and the next boot generates another address.
* `HasValidMac` does not tell a file that cannot be read from one without an address, so that one failing `read()` gives
  the device another address; `AddressStaysValid` says that it is a valid one.
* When a ping fails before the death report, the old `mSensorList` is overwritten, not freed; and
  `getSensorList` hands out `mSensorList` itself, which a death report frees.
* After a failing overlay the adapter asks for no refresh: the incomplete frame stays on the screen until
  something else makes SurfaceFlinger compose again.
* `setLayerBuffer` does not set the display's state to `MODIFIED`: a buffer of another format that arrives after the
  validation is only noticed by the checks of `postOverlay()`, which then count as a failure of the overlay.

## 6. Not modelled, and why

* Thermal HAL: no state but a table filled once behind `pthread_once`; a call copies values of the moment, and
  nothing in the repository relates two of them.  Health: two scaling functions.  Unit tests reach both.
* The other platform patches change single lines of programs whose source is not here.
* Binder proxies: a call is one remote step of `SensorManager`; marshalling has no state.
* Other shims, `libinit`, `dlopener`, configuration: no state of their own.
* Scripts: sequential file handling at build time.
* Inside modelled files: logging, `dlopen` details, config parsing (the list of modules is a constant),
  `fix_sensor_flags` (sets flags of a list entry), text formatting of addresses, `boostpulse`.
* Sub-HALs, SensorService, binder, the camera metadata library and the vendor MAC helper are
  external and modelled by how this code uses them.

## 7. Plan

Done: every module of section 2 is modelled and checked, and the safety properties of all of them are proved, the event
path with its refinement of `EventFifo`.

What would extend it: the paths that SensorService does not use today (`device__close`, a second
`open_sensors`), once something calls them; and the properties of section 5 without their hypotheses, once
the code is changed.

## 8. Running

    tlc -workers 2 -config MultiHalPoll.cfg MCMultiHalPoll
    tlapm MultiHalPollProofs.tla

and likewise for the other pairs of configuration and module in `PROJECT.json`.

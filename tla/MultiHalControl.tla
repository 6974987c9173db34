-------------------------- MODULE MultiHalControl --------------------------
(***************************************************************************)
(* The control calls of sensors/multihal.cpp (activate, setDelay, batch,   *)
(* flush, inject_sensor_data), forwarded to the sub-HAL that owns the      *)
(* sensor.  The multihal reports API 1.4 to the framework, so the          *)
(* framework calls batch(); for a sub-HAL older than 1.1 batch() is        *)
(* emulated: while the sensor is disabled the period is only saved, and    *)
(* device__activate applies it with setDelay().                            *)
(*                                                                         *)
(* SensorService serialises these calls (SensorDevice holds one lock), so  *)
(* each call is one step.  A listed sensor may have no device, when a      *)
(* sub-HAL before it failed to open, and a caller may name a handle that   *)
(* is not listed: device__activate and device__batch take both for sensors *)
(* of an old sub-HAL.                                                      *)
(***************************************************************************)
EXTENDS Integers, Sequences, SequencesExt

CONSTANTS GlobalToFull,    \* GlobalToFull[h]: the FullHandle of listed handle h
          Unlisted,        \* handles that are not in the sensor list
          Version,         \* Version[i]: API version of the i-th sub-device
          Periods,         \* periods the framework asks for
          IntMax           \* largest int, 2^31 - 1 in the build

Handles == DOMAIN GlobalToFull
Devices == DOMAIN Version
V1_0 == 10
V1_1 == 11
V1_4 == 14

ASSUME ControlAssumption ==
    /\ Devices \subseteq Nat
    /\ Version \in [Devices -> V1_0 .. V1_4]
    /\ GlobalToFull \in [Handles -> [moduleIndex : Nat, localHandle : Nat]]
    /\ IsInjective(GlobalToFull)
    /\ Unlisted \cap Handles = {}
    /\ Periods \subseteq Nat \ {0}
    /\ IntMax \in Nat \ {0}

NoPeriod == 0

VARIABLES
    sensors_enable_state,  \* [handle -> 0 or 1], kept for old sub-HALs only
    sensors_batch_list,    \* [handle -> [empty, period_ns]]
    active,                \* active[f]: has the sub-HAL of full handle f activated it?
    delay,                 \* delay[f]: the period at which it runs in its sub-HAL
    calls,                 \* the sub-HAL calls made by the last operation
    retval,                \* what the last operation returned: 0 or an error
    outOfBounds,           \* a table was indexed outside its bounds
    requested,             \* history: period of the last batch() or setDelay()
                           \*   that was answered with success
    activateOk,            \* history: the sensor's last activate() succeeded in
                           \*   the sub-HAL, or there was none
    tracked                \* history: FALSE after setDelay() refused a saved period
                           \*   or a setDelay() of the framework passed by one,
                           \*   until the next batch() that succeeds

subHalVars == <<active, delay>>
batchVars == <<sensors_enable_state, sensors_batch_list>>
history == <<requested, activateOk, tracked>>
controlVars == <<batchVars, subHalVars, calls, retval, outOfBounds, history>>

ControlInit ==
    /\ sensors_enable_state = [h \in Handles |-> 0]
    /\ sensors_batch_list = [h \in Handles |-> [empty |-> TRUE, period_ns |-> NoPeriod]]
    /\ active = [f \in Range(GlobalToFull) |-> FALSE]
    /\ delay = [f \in Range(GlobalToFull) |-> NoPeriod]
    /\ calls = <<>>
    /\ retval = 0
    /\ outOfBounds = FALSE
    /\ requested = [h \in Handles |-> NoPeriod]
    /\ activateOk = [h \in Handles |-> TRUE]
    /\ tracked = [h \in Handles |-> TRUE]

EINVAL == -22

get_module_index(h) == IF h \in Handles THEN GlobalToFull[h].moduleIndex ELSE -1

get_local_handle(h) == IF h \in Handles THEN GlobalToFull[h].localHandle ELSE -1

\* get_v0_device_by_handle / get_v1_device_by_handle do not return NULL.
HasDevice(h) == get_module_index(h) \in Devices

\* Whom a call for sensor h reaches: the sensor that h's sub-HAL knows by the
\* handle it is given.
Target(h) == [moduleIndex |-> get_module_index(h), localHandle |-> get_local_handle(h)]

halIsAPILevelCompliant(h, level) == HasDevice(h) /\ Version[get_module_index(h)] >= level

\* What a call for h comes to: the sub-HAL's answer, or -EINVAL without a device.
Result == {0, EINVAL}
Results(h) == IF get_local_handle(h) >= 0 /\ HasDevice(h) THEN Result ELSE {EINVAL}

\* A period that is passed through a parameter of type int (update_batch_data).
ToInt(x) == LET m == x % (2 * (IntMax + 1))
            IN  IF m > IntMax THEN m - 2 * (IntMax + 1) ELSE m

\* A call into the sub-HAL of sensor h, and what it answered.  A setDelay() that
\* only passes the framework's own through is called "device__setDelay".  Every
\* call but inject passes the sub-HAL its own device.
Call(op, h, r) == [op |-> op, target |-> Target(h), dev |-> "sub", sensor |-> h, result |-> r]

\* The operation on sensor h ends with result r after the sub-HAL calls cs, none
\* of which is made without a device.
Answer(h, r, cs) ==
    /\ ~outOfBounds
    /\ retval' = r
    /\ calls' = IF HasDevice(h) THEN cs ELSE <<>>
    /\ UNCHANGED outOfBounds

\* The state of the sub-HALs' sensors after a call for h that answered r.
After(state, h, r, new) == IF r = 0 THEN [state EXCEPT ![Target(h)] = new] ELSE state

\* Mutant: only the result of setDelay() counts.
MergedResult_DelayOnly(delay_retval, activate_retval) == IF delay_retval # 0 THEN 1 ELSE 0

\* "delay_retval || activate_retval"
MergedResult(delay_retval, activate_retval) ==
    IF delay_retval # 0 \/ activate_retval # 0 THEN 1 ELSE 0

\* Mutant: the saved period is not forgotten when it is applied.
SavedPeriodIsApplied_Kept(h) == UNCHANGED sensors_batch_list

\* "sensors_batch_list[index].empty = true"
SavedPeriodIsApplied(h) == sensors_batch_list' = [sensors_batch_list EXCEPT ![h].empty = TRUE]

\* device__activate on a sub-HAL without batch(): the state is recorded whatever
\* the sub-HAL answered, a saved period is applied, and both results are merged.
ActivateOld(h, enabled) ==
    /\ ~halIsAPILevelCompliant(h, V1_1)
    /\ sensors_enable_state' = [sensors_enable_state EXCEPT ![h] = enabled]
    /\ \E ra \in Results(h), rd \in Results(h) :
          LET apply == enabled = 1 /\ ~sensors_batch_list[h].empty
              saved == sensors_batch_list[h].period_ns
          IN  /\ active' = After(active, h, ra, enabled = 1)
              /\ activateOk' = [activateOk EXCEPT ![h] = (ra = 0)]
              /\ \/ /\ apply
                    /\ delay' = After(delay, h, rd, saved)
                    /\ SavedPeriodIsApplied(h)
                    /\ tracked' = [tracked EXCEPT ![h] = @ /\ rd = 0]
                    /\ Answer(h, MergedResult(rd, ra),
                              <<Call("activate", h, ra), Call("setDelay", h, rd)>>)
                 \/ /\ ~apply
                    /\ UNCHANGED <<delay, sensors_batch_list, tracked>>
                    /\ Answer(h, ra, <<Call("activate", h, ra)>>)
    /\ UNCHANGED requested

\* device__activate on a newer sub-HAL is only forwarded.
ActivateNew(h, enabled) ==
    /\ halIsAPILevelCompliant(h, V1_1)
    /\ \E ra \in Results(h) :
          /\ active' = After(active, h, ra, enabled = 1)
          /\ activateOk' = [activateOk EXCEPT ![h] = (ra = 0)]
          /\ Answer(h, ra, <<Call("activate", h, ra)>>)
    /\ UNCHANGED <<batchVars, delay, requested, tracked>>

\* A period that goes to the sub-HAL at once.
ForwardPeriod(op, h, ns) ==
    /\ \E r \in Results(h) :
          /\ delay' = After(delay, h, r, ns)
          /\ requested' = IF r = 0 THEN [requested EXCEPT ![h] = ns] ELSE requested
          /\ tracked' = IF r = 0 THEN [tracked EXCEPT ![h] = sensors_batch_list[h].empty] ELSE tracked
          /\ Answer(h, r, <<Call(op, h, r)>>)
    /\ UNCHANGED <<batchVars, active, activateOk>>

device__setDelay(h, ns) == ForwardPeriod("device__setDelay", h, ns)

\* device__batch on a sub-HAL that has batch().
BatchNew(h, ns) == halIsAPILevelCompliant(h, V1_1) /\ ForwardPeriod("batch", h, ns)

\* Mutant: the emulation forgets that the sensor may be disabled.
MustSave_Never(h) == FALSE

\* "sensors_enable_state[index] == 0"
MustSave(h) == sensors_enable_state[h] = 0

\* device__batch emulated, sensor disabled: only remember the period.
BatchSaved(h, ns) ==
    /\ ~halIsAPILevelCompliant(h, V1_1)
    /\ MustSave(h)
    /\ sensors_batch_list' =
          [sensors_batch_list EXCEPT ![h] = [empty |-> FALSE, period_ns |-> ToInt(ns)]]
    /\ requested' = [requested EXCEPT ![h] = ns]
    /\ tracked' = [tracked EXCEPT ![h] = TRUE]
    /\ Answer(h, 0, <<>>)
    /\ UNCHANGED <<sensors_enable_state, subHalVars, activateOk>>

\* device__batch emulated, sensor enabled: "fall back to v0->setDelay".
BatchFallsBack(h, ns) ==
    /\ ~halIsAPILevelCompliant(h, V1_1)
    /\ ~MustSave(h)
    /\ ForwardPeriod("setDelay", h, ns)

\* flush() is forwarded to a sub-HAL that has it and refused otherwise.
device__flush(h) ==
    /\ IF halIsAPILevelCompliant(h, V1_1)
       THEN \E r \in Results(h) : Answer(h, r, <<Call("flush", h, r)>>)
       ELSE Answer(h, EINVAL, <<>>)
    /\ UNCHANGED <<batchVars, subHalVars, history>>

\* inject_sensor_data() passes its own arguments on as they are: the device is
\* the multihal's, and the event's sensor field is still the global handle.
InjectCall(h, r) ==
    [op |-> "inject", target |-> [moduleIndex |-> get_module_index(h), localHandle |-> h],
     dev |-> "multihal", sensor |-> h, result |-> r]

device__inject_sensor_data(h) ==
    /\ IF halIsAPILevelCompliant(h, V1_4)
       THEN \E r \in Results(h) : Answer(h, r, <<InjectCall(h, r)>>)
       ELSE Answer(h, EINVAL, <<>>)
    /\ UNCHANGED <<batchVars, subHalVars, history>>

\* A handle that is not listed reaches no sub-HAL and is answered with -EINVAL ...
UnlistedIgnored(h) ==
    /\ Answer(h, EINVAL, <<>>)
    /\ UNCHANGED <<batchVars, subHalVars, history>>

\* ... but device__activate and device__batch index both tables with handle - 1:
\* they write beside sensors_enable_state, or answer by what they read there.
UnlistedIndexed(h) ==
    /\ ~outOfBounds
    /\ outOfBounds' = TRUE
    /\ calls' = <<>>
    /\ retval' \in {0, 1, EINVAL}
    /\ UNCHANGED <<batchVars, subHalVars, history>>

\* After that anything may happen, and nothing is claimed.
Corrupted == outOfBounds /\ UNCHANGED controlVars

ControlNext ==
    \/ \E h \in Handles :
        \/ \E enabled \in {0, 1} : ActivateOld(h, enabled)
        \/ \E enabled \in {0, 1} : ActivateNew(h, enabled)
        \/ \E ns \in Periods : device__setDelay(h, ns)
        \/ \E ns \in Periods : BatchNew(h, ns)
        \/ \E ns \in Periods : BatchSaved(h, ns)
        \/ \E ns \in Periods : BatchFallsBack(h, ns)
        \/ device__flush(h)
        \/ device__inject_sensor_data(h)
    \/ \E h \in Unlisted : UnlistedIgnored(h) \/ UnlistedIndexed(h)
    \/ Corrupted

ControlSpec == ControlInit /\ [][ControlNext]_controlVars

-----------------------------------------------------------------------------
ControlTypeOK ==
    /\ sensors_enable_state \in [Handles -> {0, 1}]
    /\ sensors_batch_list \in [Handles -> [empty : BOOLEAN, period_ns : Int]]
    /\ active \in [Range(GlobalToFull) -> BOOLEAN]
    /\ delay \in [Range(GlobalToFull) -> Int]
    /\ calls \in Seq([op : {"activate", "setDelay", "device__setDelay", "batch", "flush", "inject"},
                      target : [moduleIndex : Nat, localHandle : Nat \cup Handles],
                      dev : {"sub", "multihal"}, sensor : Handles, result : Result])
    /\ retval \in Int
    /\ outOfBounds \in BOOLEAN
    /\ requested \in [Handles -> Periods \cup {NoPeriod}]
    /\ activateOk \in [Handles -> BOOLEAN]
    /\ tracked \in [Handles -> BOOLEAN]

\* The period asked for last survives update_batch_data, whose parameter is an
\* int; a sub-HAL with batch() gets it as it is.
Fits(h) == requested[h] <= IntMax \/ halIsAPILevelCompliant(h, V1_1)

\* A sensor runs at the period the framework asked for last, whether it asked
\* before or after enabling it and however often it was switched off in between
\* or activate() failed (device__batch, device__activate); or that period is
\* saved, and only while the sensor is off unless switching it off has failed.
LastPeriodWins ==
    \A h \in Handles : tracked[h] /\ requested[h] # NoPeriod /\ Fits(h) =>
        IF sensors_batch_list[h].empty
        THEN delay[GlobalToFull[h]] = requested[h]
        ELSE /\ sensors_batch_list[h].period_ns = requested[h]
             /\ activateOk[h] => ~active[GlobalToFull[h]]

\* No failure of a sub-HAL is hidden from the framework: an operation returns
\* zero only if every sub-HAL call it made did.
NoFailureHidden == ~outOfBounds /\ retval = 0 => \A i \in 1 .. Len(calls) : calls[i].result = 0

\* The emulation calls setDelay() of an old sub-HAL only on a sensor that is
\* activated, also when earlier calls have failed, unless the last activate()
\* did: device__activate does not look at its result before it goes on.
NoSetDelayWhileInactive ==
    \A i \in 1 .. Len(calls) :
        calls[i].op = "setDelay" /\ activateOk[calls[i].sensor] => active[calls[i].target]
=============================================================================

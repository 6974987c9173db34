------------------------ MODULE MultiHalControlProofs ------------------------
(***************************************************************************)
(* The control calls of the multihal for any sub-HALs, sensors, periods    *)
(* and width of int.  The emulation of batch() keeps its own idea of what  *)
(* is enabled and saved; the inductive invariant says when that is what    *)
(* the sub-HAL does.                                                       *)
(***************************************************************************)
EXTENDS MultiHalControl, TLAPS

\* sensors_enable_state is right about a sensor whose last activate() succeeded.
EnableStateIsTrue(h) ==
    ~halIsAPILevelCompliant(h, V1_1) /\ activateOk[h] =>
        (active[GlobalToFull[h]] <=> sensors_enable_state[h] = 1)

\* Nothing is saved for a sub-HAL that has batch(), nor for a sensor the multihal
\* takes for enabled: the next activate() would apply it once more.
SavedWhileDisabled(h) ==
    halIsAPILevelCompliant(h, V1_1) \/ sensors_enable_state[h] = 1 => sensors_batch_list[h].empty

\* The period asked for last is in the sub-HAL or saved.
PeriodIsLast(h) ==
    tracked[h] /\ requested[h] # NoPeriod /\ Fits(h) =>
        IF sensors_batch_list[h].empty
        THEN delay[GlobalToFull[h]] = requested[h]
        ELSE sensors_batch_list[h].period_ns = requested[h]

SensorInv(h) == EnableStateIsTrue(h) /\ SavedWhileDisabled(h) /\ PeriodIsLast(h)

IndInv == ControlTypeOK /\ \A h \in Handles : SensorInv(h)

-----------------------------------------------------------------------------
(* The operators *)

\* A period from 1 to the largest int is saved as it is.
LEMMA ToIntSmall ==
  ASSUME NEW x \in 0 .. IntMax
  PROVE  ToInt(x) = x
<1> DEFINE n == 2 * (IntMax + 1)
<1>1. n \in Nat \ {0} /\ x < n /\ x \in Nat
  BY ControlAssumption
<1> HIDE DEF n
<1>2. x % n = x
  BY <1>1, Z3
<1>3. ToInt(x) = LET m == x % n IN IF m > IntMax THEN m - n ELSE m
  BY DEF ToInt, n
<1> QED
  BY <1>2, <1>3, ControlAssumption

\* Every period is saved as an integer.
LEMMA ToIntType ==
  ASSUME NEW x \in Nat
  PROVE  ToInt(x) \in Int
<1> DEFINE n == 2 * (IntMax + 1)
<1>1. n \in Nat \ {0}
  BY ControlAssumption
<1> HIDE DEF n
<1>2. x % n \in Int
  BY <1>1, Z3
<1> QED
  BY <1>1, <1>2 DEF ToInt, n

\* A call for a listed handle reaches the sensor the handle stands for.
LEMMA TargetIsFull ==
  ASSUME NEW h \in Handles
  PROVE  /\ Target(h) = GlobalToFull[h]
         /\ Target(h) \in Range(GlobalToFull)
         /\ Target(h) \in [moduleIndex : Nat, localHandle : Nat \cup Handles]
<1>1. GlobalToFull[h] \in [moduleIndex : Nat, localHandle : Nat]
  BY ControlAssumption
<1>2. Target(h) = GlobalToFull[h]
  BY <1>1 DEF Target, get_module_index, get_local_handle
<1> QED
  BY <1>1, <1>2 DEF Range, Handles

\* What a call may come to.
LEMMA ResultsType ==
  ASSUME NEW h
  PROVE  \A r \in Results(h) : r \in Result /\ r \in Int
  BY DEF Results, Result, EINVAL

\* Two global handles never stand for the same sensor of a sub-HAL.
LEMMA DistinctSensors ==
  ASSUME NEW h \in Handles, NEW k \in Handles \ {h}
  PROVE  GlobalToFull[k] # GlobalToFull[h] /\ GlobalToFull[k] \in Range(GlobalToFull)
  BY ControlAssumption, TargetIsFull DEF IsInjective, Handles

\* activate() that succeeds switches its own sensor only ...
LEMMA AfterActivate ==
  ASSUME ControlTypeOK, NEW h \in Handles, NEW r, NEW new \in BOOLEAN, active' = After(active, h, r, new)
  PROVE  /\ active' \in [Range(GlobalToFull) -> BOOLEAN]
         /\ active'[GlobalToFull[h]] = IF r = 0 THEN new ELSE active[GlobalToFull[h]]
         /\ \A k \in Handles \ {h} : active'[GlobalToFull[k]] = active[GlobalToFull[k]]
  BY DistinctSensors, TargetIsFull DEF After, ControlTypeOK

\* ... and a call that sets the period, that of its own sensor only.
LEMMA AfterSetDelay ==
  ASSUME ControlTypeOK, NEW h \in Handles, NEW r, NEW new \in Int, delay' = After(delay, h, r, new)
  PROVE  /\ delay' \in [Range(GlobalToFull) -> Int]
         /\ delay'[GlobalToFull[h]] = IF r = 0 THEN new ELSE delay[GlobalToFull[h]]
         /\ \A k \in Handles \ {h} : delay'[GlobalToFull[k]] = delay[GlobalToFull[k]]
  BY DistinctSensors, TargetIsFull DEF After, ControlTypeOK

\* The records of the calls
CallRecord == [op : {"activate", "setDelay", "device__setDelay", "batch", "flush", "inject"},
               target : [moduleIndex : Nat, localHandle : Nat \cup Handles],
               dev : {"sub", "multihal"}, sensor : Handles, result : Result]

\* A call is recorded with a target that has a type.
LEMMA CallType ==
  ASSUME NEW op, NEW h \in Handles, NEW r \in Results(h)
  PROVE  /\ Call(op, h, r) \in [op : {op}, target : [moduleIndex : Nat, localHandle : Nat \cup Handles],
                                dev : {"sub"}, sensor : {h}, result : Result]
         /\ Call(op, h, r).target = GlobalToFull[h]
         /\ Call(op, h, r).op = op /\ Call(op, h, r).sensor = h /\ Call(op, h, r).result = r
  BY TargetIsFull, ResultsType DEF Call

\* An operation leaves calls and retval with their types and corrupts nothing.
LEMMA AnswerType ==
  ASSUME ControlTypeOK, NEW h, NEW r \in Int, NEW cs \in Seq(CallRecord), Answer(h, r, cs)
  PROVE  calls' \in Seq(CallRecord) /\ retval' \in Int /\ outOfBounds' \in BOOLEAN
  BY DEF ControlTypeOK, Answer

\* A sensor whose part of the state does not change keeps its invariant.
LEMMA SameSensor ==
  ASSUME NEW k \in Handles, SensorInv(k),
         sensors_enable_state'[k] = sensors_enable_state[k],
         sensors_batch_list'[k] = sensors_batch_list[k],
         active'[GlobalToFull[k]] = active[GlobalToFull[k]],
         delay'[GlobalToFull[k]] = delay[GlobalToFull[k]],
         requested'[k] = requested[k], activateOk'[k] = activateOk[k], tracked'[k] = tracked[k]
  PROVE  SensorInv(k)'
  BY DEF SensorInv, EnableStateIsTrue, SavedWhileDisabled, PeriodIsLast, Fits

-----------------------------------------------------------------------------
(* The sensors *)

\* At first nothing is enabled, saved or asked for.
LEMMA InitIndInv == ControlInit => IndInv
<1> SUFFICES ASSUME ControlInit PROVE IndInv
  OBVIOUS
<1>1. ControlTypeOK
  <2>1. calls \in Seq(CallRecord) /\ retval \in Int
    BY DEF ControlInit
  <2>2. /\ activateOk \in [Handles -> BOOLEAN] /\ tracked \in [Handles -> BOOLEAN]
        /\ outOfBounds \in BOOLEAN
    BY DEF ControlInit
  <2>3. /\ active \in [Range(GlobalToFull) -> BOOLEAN] /\ delay \in [Range(GlobalToFull) -> Int]
        /\ requested \in [Handles -> Periods \cup {NoPeriod}]
    BY DEF ControlInit, NoPeriod
  <2>4. /\ sensors_enable_state \in [Handles -> {0, 1}]
        /\ sensors_batch_list \in [Handles -> [empty : BOOLEAN, period_ns : Int]]
    BY DEF ControlInit, NoPeriod
  <2> QED
    BY <2>1, <2>2, <2>3, <2>4 DEF ControlTypeOK, CallRecord
<1>2. ASSUME NEW h \in Handles PROVE SensorInv(h)
  <2>1. GlobalToFull[h] \in Range(GlobalToFull)
    BY TargetIsFull
  <2> QED
    BY <2>1 DEF ControlInit, SensorInv, EnableStateIsTrue, SavedWhileDisabled, PeriodIsLast, NoPeriod
<1> QED
  BY <1>1, <1>2 DEF IndInv

\* device__activate on a sub-HAL without batch()
LEMMA ActivateOldIndInv ==
  ASSUME IndInv, NEW h \in Handles, NEW enabled \in {0, 1}, ActivateOld(h, enabled)
  PROVE  IndInv'
<1> DEFINE apply == enabled = 1 /\ ~sensors_batch_list[h].empty
           saved == sensors_batch_list[h].period_ns
<1>1. PICK ra \in Results(h), rd \in Results(h) :
         /\ active' = After(active, h, ra, enabled = 1)
         /\ activateOk' = [activateOk EXCEPT ![h] = (ra = 0)]
         /\ \/ /\ apply
               /\ delay' = After(delay, h, rd, saved)
               /\ SavedPeriodIsApplied(h)
               /\ tracked' = [tracked EXCEPT ![h] = @ /\ rd = 0]
               /\ Answer(h, MergedResult(rd, ra),
                         <<Call("activate", h, ra), Call("setDelay", h, rd)>>)
            \/ /\ ~apply
               /\ UNCHANGED <<delay, sensors_batch_list, tracked>>
               /\ Answer(h, ra, <<Call("activate", h, ra)>>)
  BY DEF ActivateOld
<1>2. saved \in Int /\ (enabled = 1) \in BOOLEAN /\ ControlTypeOK
  BY DEF IndInv, ControlTypeOK
<1>3. /\ active' \in [Range(GlobalToFull) -> BOOLEAN]
      /\ active'[GlobalToFull[h]] = IF ra = 0 THEN enabled = 1 ELSE active[GlobalToFull[h]]
      /\ \A k \in Handles \ {h} : active'[GlobalToFull[k]] = active[GlobalToFull[k]]
  BY <1>1, <1>2, AfterActivate
<1>4. /\ activateOk' \in [Handles -> BOOLEAN] /\ activateOk'[h] = (ra = 0)
      /\ \A k \in Handles \ {h} : activateOk'[k] = activateOk[k]
  BY <1>1, <1>2 DEF ControlTypeOK
<1>5. /\ sensors_enable_state' \in [Handles -> {0, 1}] /\ sensors_enable_state'[h] = enabled
      /\ \A k \in Handles \ {h} : sensors_enable_state'[k] = sensors_enable_state[k]
      /\ requested' = requested /\ ~halIsAPILevelCompliant(h, V1_1)
  BY <1>2 DEF ActivateOld, ControlTypeOK
<1>6. /\ <<Call("activate", h, ra)>> \in Seq(CallRecord)
      /\ <<Call("activate", h, ra), Call("setDelay", h, rd)>> \in Seq(CallRecord)
  <2>1. Call("activate", h, ra) \in CallRecord /\ Call("setDelay", h, rd) \in CallRecord
    BY CallType DEF CallRecord
  <2> QED
    BY <2>1
<1>7. CASE apply
  <2>1. /\ delay' = After(delay, h, rd, saved)
        /\ SavedPeriodIsApplied(h)
        /\ tracked' = [tracked EXCEPT ![h] = @ /\ rd = 0]
        /\ Answer(h, MergedResult(rd, ra),
                  <<Call("activate", h, ra), Call("setDelay", h, rd)>>)
    BY <1>1, <1>7
  <2>2. /\ delay' \in [Range(GlobalToFull) -> Int]
        /\ delay'[GlobalToFull[h]] = IF rd = 0 THEN saved ELSE delay[GlobalToFull[h]]
        /\ \A k \in Handles \ {h} : delay'[GlobalToFull[k]] = delay[GlobalToFull[k]]
    BY <2>1, <1>2, AfterSetDelay
  <2>3. /\ tracked' \in [Handles -> BOOLEAN] /\ tracked'[h] = (tracked[h] /\ rd = 0)
        /\ \A k \in Handles \ {h} : tracked'[k] = tracked[k]
    BY <1>2, <2>1 DEF ControlTypeOK
  <2>4. /\ sensors_batch_list' \in [Handles -> [empty : BOOLEAN, period_ns : Int]]
        /\ sensors_batch_list'[h].empty
        /\ \A k \in Handles \ {h} : sensors_batch_list'[k] = sensors_batch_list[k]
    <3> DEFINE b == sensors_batch_list[h]
    <3>1. /\ sensors_batch_list \in [Handles -> [empty : BOOLEAN, period_ns : Int]]
          /\ sensors_batch_list' = [sensors_batch_list EXCEPT ![h] = [b EXCEPT !.empty = TRUE]]
      BY <1>2, <2>1 DEF SavedPeriodIsApplied, ControlTypeOK
    <3>2. [b EXCEPT !.empty = TRUE] \in [empty : BOOLEAN, period_ns : Int] /\ [b EXCEPT !.empty = TRUE].empty
      BY <3>1
    <3> HIDE DEF b
    <3> QED
      BY <3>1, <3>2
  <2>5. ControlTypeOK'
    <3>1. MergedResult(rd, ra) \in Int
      BY DEF MergedResult
    <3>2. calls' \in Seq(CallRecord) /\ retval' \in Int /\ outOfBounds' \in BOOLEAN
      BY <1>2, <1>6, <2>1, <3>1, AnswerType
    <3> QED
      BY <1>2, <1>3, <1>4, <1>5, <2>2, <2>3, <2>4, <3>2 DEF ControlTypeOK, CallRecord
  <2>6. SensorInv(h)'
    BY <1>3, <1>4, <1>5, <1>7, <2>2, <2>3, <2>4 DEF IndInv, SensorInv, EnableStateIsTrue,
       SavedWhileDisabled, PeriodIsLast, Fits
  <2>7. ASSUME NEW k \in Handles \ {h} PROVE SensorInv(k)'
    BY <1>3, <1>4, <1>5, <2>2, <2>3, <2>4, SameSensor DEF IndInv
  <2> QED
    BY <2>5, <2>6, <2>7 DEF IndInv
<1>8. CASE ~apply
  <2>1. /\ UNCHANGED <<delay, sensors_batch_list, tracked>>
        /\ Answer(h, ra, <<Call("activate", h, ra)>>)
    BY <1>1, <1>8
  <2>2. ControlTypeOK'
    <3>1. calls' \in Seq(CallRecord) /\ retval' \in Int /\ outOfBounds' \in BOOLEAN
      BY <1>2, <1>6, <2>1, AnswerType, ResultsType
    <3> QED
      BY <1>2, <1>3, <1>4, <1>5, <2>1, <3>1 DEF ControlTypeOK, CallRecord
  <2>3. SensorInv(h)'
    BY <1>3, <1>4, <1>5, <1>8, <2>1 DEF IndInv, SensorInv, EnableStateIsTrue,
       SavedWhileDisabled, PeriodIsLast, Fits
  <2>4. ASSUME NEW k \in Handles \ {h} PROVE SensorInv(k)'
    BY <1>3, <1>4, <1>5, <2>1, SameSensor DEF IndInv
  <2> QED
    BY <2>2, <2>3, <2>4 DEF IndInv
<1> QED
  BY <1>7, <1>8

\* device__activate on a newer sub-HAL
LEMMA ActivateNewIndInv ==
  ASSUME IndInv, NEW h \in Handles, NEW enabled \in {0, 1}, ActivateNew(h, enabled)
  PROVE  IndInv'
<1>1. PICK ra \in Results(h) : /\ active' = After(active, h, ra, enabled = 1)
                               /\ activateOk' = [activateOk EXCEPT ![h] = (ra = 0)]
                               /\ Answer(h, ra, <<Call("activate", h, ra)>>)
  BY DEF ActivateNew
<1>2. ControlTypeOK /\ (enabled = 1) \in BOOLEAN
  BY DEF IndInv
<1>3. /\ active' \in [Range(GlobalToFull) -> BOOLEAN]
      /\ \A k \in Handles \ {h} : active'[GlobalToFull[k]] = active[GlobalToFull[k]]
  BY <1>1, <1>2, AfterActivate
<1>4. /\ activateOk' \in [Handles -> BOOLEAN]
      /\ \A k \in Handles \ {h} : activateOk'[k] = activateOk[k]
  BY <1>1, <1>2 DEF ControlTypeOK
<1>5. /\ UNCHANGED <<sensors_enable_state, sensors_batch_list, delay, requested, tracked>>
      /\ halIsAPILevelCompliant(h, V1_1)
  BY DEF ActivateNew, batchVars
<1>6. ControlTypeOK'
  <2>1. <<Call("activate", h, ra)>> \in Seq(CallRecord)
    <3>1. Call("activate", h, ra) \in CallRecord
      BY CallType DEF CallRecord
    <3> QED
      BY <3>1
  <2>2. calls' \in Seq(CallRecord) /\ retval' \in Int /\ outOfBounds' \in BOOLEAN
    BY <1>1, <1>2, <2>1, AnswerType, ResultsType
  <2> QED
    BY <1>2, <1>3, <1>4, <1>5, <2>2 DEF ControlTypeOK, CallRecord
<1>7. SensorInv(h)'
  BY <1>5 DEF IndInv, SensorInv, EnableStateIsTrue, SavedWhileDisabled, PeriodIsLast, Fits
<1>8. ASSUME NEW k \in Handles \ {h} PROVE SensorInv(k)'
  BY <1>3, <1>4, <1>5, SameSensor DEF IndInv
<1> QED
  BY <1>6, <1>7, <1>8 DEF IndInv

\* A period that goes to the sub-HAL at once; when an older one is saved it will
\* be passed by, and the sensor is no longer tracked.
LEMMA ForwardPeriodIndInv ==
  ASSUME IndInv, NEW h \in Handles, NEW ns \in Periods,
         NEW op \in {"setDelay", "device__setDelay", "batch"}, ForwardPeriod(op, h, ns)
  PROVE  IndInv'
<1>1. PICK r \in Results(h) :
         /\ delay' = After(delay, h, r, ns)
         /\ requested' = IF r = 0 THEN [requested EXCEPT ![h] = ns] ELSE requested
         /\ tracked' = IF r = 0 THEN [tracked EXCEPT ![h] = sensors_batch_list[h].empty] ELSE tracked
         /\ Answer(h, r, <<Call(op, h, r)>>)
  BY DEF ForwardPeriod
<1>2. ControlTypeOK /\ ns \in Int /\ sensors_batch_list[h].empty \in BOOLEAN
  BY ControlAssumption DEF IndInv, ControlTypeOK
<1>3. /\ delay' \in [Range(GlobalToFull) -> Int]
      /\ delay'[GlobalToFull[h]] = IF r = 0 THEN ns ELSE delay[GlobalToFull[h]]
      /\ \A k \in Handles \ {h} : delay'[GlobalToFull[k]] = delay[GlobalToFull[k]]
  BY <1>1, <1>2, AfterSetDelay
<1>4. /\ tracked' \in [Handles -> BOOLEAN]
      /\ tracked'[h] = IF r = 0 THEN sensors_batch_list[h].empty ELSE tracked[h]
      /\ \A k \in Handles \ {h} : tracked'[k] = tracked[k]
  BY <1>1, <1>2 DEF ControlTypeOK
<1>5. /\ requested' \in [Handles -> Periods \cup {NoPeriod}]
      /\ requested'[h] = IF r = 0 THEN ns ELSE requested[h]
      /\ \A k \in Handles \ {h} : requested'[k] = requested[k]
  BY <1>1, <1>2 DEF ControlTypeOK
<1>6. UNCHANGED <<sensors_enable_state, sensors_batch_list, active, activateOk>>
  BY DEF ForwardPeriod, batchVars
<1>7. ControlTypeOK'
  <2>1. <<Call(op, h, r)>> \in Seq(CallRecord)
    <3>1. Call(op, h, r) \in CallRecord
      BY CallType DEF CallRecord
    <3> QED
      BY <3>1
  <2>2. calls' \in Seq(CallRecord) /\ retval' \in Int /\ outOfBounds' \in BOOLEAN
    BY <1>1, <1>2, <2>1, AnswerType, ResultsType
  <2> QED
    BY <1>2, <1>3, <1>4, <1>5, <1>6, <2>2 DEF ControlTypeOK, CallRecord
<1>8. SensorInv(h)'
  BY <1>3, <1>4, <1>5, <1>6 DEF IndInv, SensorInv, EnableStateIsTrue,
     SavedWhileDisabled, PeriodIsLast, Fits
<1>9. ASSUME NEW k \in Handles \ {h} PROVE SensorInv(k)'
  BY <1>3, <1>4, <1>5, <1>6, SameSensor DEF IndInv
<1> QED
  BY <1>7, <1>8, <1>9 DEF IndInv

\* device__batch for a disabled sensor of an old sub-HAL
LEMMA BatchSavedIndInv ==
  ASSUME IndInv, NEW h \in Handles, NEW ns \in Periods, BatchSaved(h, ns)
  PROVE  IndInv'
<1>1. ControlTypeOK /\ ns \in Nat \ {0} /\ ToInt(ns) \in Int
  BY ControlAssumption, ToIntType DEF IndInv
<1>2. /\ tracked' \in [Handles -> BOOLEAN]
      /\ \A k \in Handles \ {h} : tracked'[k] = tracked[k]
  BY <1>1 DEF BatchSaved, ControlTypeOK
<1>3. /\ sensors_batch_list' \in [Handles -> [empty : BOOLEAN, period_ns : Int]]
      /\ sensors_batch_list'[h] = [empty |-> FALSE, period_ns |-> ToInt(ns)]
      /\ \A k \in Handles \ {h} : sensors_batch_list'[k] = sensors_batch_list[k]
  BY <1>1 DEF BatchSaved, ControlTypeOK
<1>4. /\ requested' \in [Handles -> Periods \cup {NoPeriod}]
      /\ requested'[h] = ns
      /\ \A k \in Handles \ {h} : requested'[k] = requested[k]
  BY <1>1 DEF BatchSaved, ControlTypeOK
<1>5. /\ UNCHANGED <<sensors_enable_state, active, delay, activateOk>>
      /\ ~halIsAPILevelCompliant(h, V1_1) /\ sensors_enable_state[h] = 0
  BY DEF BatchSaved, MustSave, subHalVars
<1>6. ControlTypeOK'
  <2>1. calls' \in Seq(CallRecord) /\ retval' \in Int /\ outOfBounds' \in BOOLEAN
    <3>1. <<>> \in Seq(CallRecord) /\ 0 \in Int
      OBVIOUS
    <3> QED
      BY <1>1, <3>1, AnswerType DEF BatchSaved
  <2> QED
    BY <1>1, <1>2, <1>3, <1>4, <1>5, <2>1 DEF ControlTypeOK, CallRecord
<1>7. SensorInv(h)'
  <2>1. ns <= IntMax => ToInt(ns) = ns
    BY <1>1, ControlAssumption, ToIntSmall
  <2> QED
    BY <1>3, <1>4, <1>5, <2>1 DEF IndInv, SensorInv, EnableStateIsTrue,
       SavedWhileDisabled, PeriodIsLast, Fits
<1>8. ASSUME NEW k \in Handles \ {h} PROVE SensorInv(k)'
  BY <1>2, <1>3, <1>4, <1>5, SameSensor DEF IndInv
<1> QED
  BY <1>6, <1>7, <1>8 DEF IndInv

\* An operation that changes no table and no sub-HAL
LEMMA PassOnIndInv ==
  ASSUME IndInv, UNCHANGED <<batchVars, subHalVars, history>>,
         calls' \in Seq(CallRecord), retval' \in Int, outOfBounds' \in BOOLEAN
  PROVE  IndInv'
<1>1. UNCHANGED <<sensors_enable_state, sensors_batch_list, active, delay, requested,
                  activateOk, tracked>>
  BY DEF batchVars, subHalVars, history
<1>2. ControlTypeOK'
  BY <1>1 DEF IndInv, ControlTypeOK, CallRecord
<1>3. ASSUME NEW k \in Handles PROVE SensorInv(k)'
  BY <1>1, SameSensor DEF IndInv
<1> QED
  BY <1>2, <1>3 DEF IndInv

\* inject_sensor_data() names the multihal's device and the global handle.
LEMMA InjectCallType ==
  ASSUME NEW h \in Handles, NEW r \in Results(h)
  PROVE  /\ InjectCall(h, r) \in CallRecord
         /\ InjectCall(h, r).op = "inject" /\ InjectCall(h, r).result = r
<1>1. get_module_index(h) \in Nat /\ r \in Result
  BY ControlAssumption, ResultsType DEF get_module_index
<1> QED
  BY <1>1 DEF InjectCall, CallRecord

\* flush() and inject_sensor_data()
LEMMA FlushInjectIndInv ==
  ASSUME IndInv, NEW h \in Handles, device__flush(h) \/ device__inject_sensor_data(h)
  PROVE  IndInv'
<1>1. PICK r \in Result, cs \in Seq(CallRecord) :
         Answer(h, r, cs) /\ UNCHANGED <<batchVars, subHalVars, history>>
  <2>1. <<>> \in Seq(CallRecord) /\ EINVAL \in Result
    BY DEF Result
  <2>2. ASSUME device__flush(h) PROVE \E r \in Result, cs \in Seq(CallRecord) : Answer(h, r, cs)
    <3>1. \A r \in Results(h) : <<Call("flush", h, r)>> \in Seq(CallRecord)
      BY CallType DEF CallRecord
    <3> QED
      BY <2>1, <2>2, <3>1, ResultsType DEF device__flush
  <2>3. ASSUME device__inject_sensor_data(h)
        PROVE  \E r \in Result, cs \in Seq(CallRecord) : Answer(h, r, cs)
    <3>1. \A r \in Results(h) : <<InjectCall(h, r)>> \in Seq(CallRecord)
      BY InjectCallType
    <3> QED
      BY <2>1, <2>3, <3>1, ResultsType DEF device__inject_sensor_data
  <2> QED
    BY <2>2, <2>3 DEF device__flush, device__inject_sensor_data
<1>2. r \in Int /\ ControlTypeOK
  BY DEF Result, EINVAL, IndInv
<1> QED
  BY <1>1, <1>2, AnswerType, PassOnIndInv

\* Calls for a handle that is not listed
LEMMA UnlistedIndInv ==
  ASSUME IndInv, NEW h \in Unlisted, UnlistedIgnored(h) \/ UnlistedIndexed(h)
  PROVE  IndInv'
<1>1. <<>> \in Seq(CallRecord) /\ EINVAL \in Int /\ ControlTypeOK
  BY DEF EINVAL, IndInv
<1>2. CASE UnlistedIgnored(h)
  BY <1>1, <1>2, AnswerType, PassOnIndInv DEF UnlistedIgnored
<1>3. CASE UnlistedIndexed(h)
  <2>1. calls' \in Seq(CallRecord) /\ retval' \in Int
    BY <1>1, <1>3 DEF UnlistedIndexed
  <2> QED
    BY <1>3, <2>1, PassOnIndInv DEF UnlistedIndexed
<1> QED
  BY <1>2, <1>3

\* Every control call preserves the invariant, whatever the sub-HAL answers.
LEMMA NextIndInv == IndInv /\ [ControlNext]_controlVars => IndInv'
<1> SUFFICES ASSUME IndInv, [ControlNext]_controlVars PROVE IndInv'
  OBVIOUS
<1>1. ASSUME UNCHANGED controlVars PROVE IndInv'
  BY <1>1 DEF controlVars, batchVars, subHalVars, history, IndInv, ControlTypeOK, SensorInv, EnableStateIsTrue,
     SavedWhileDisabled, PeriodIsLast, Fits
<1>2. ASSUME NEW h \in Handles, NEW ns \in Periods, device__setDelay(h, ns) PROVE IndInv'
  BY <1>2, ForwardPeriodIndInv DEF device__setDelay
<1>3. ASSUME NEW h \in Handles, NEW ns \in Periods, BatchNew(h, ns) PROVE IndInv'
  BY <1>3, ForwardPeriodIndInv DEF BatchNew
<1>4. ASSUME NEW h \in Handles, NEW ns \in Periods, BatchFallsBack(h, ns) PROVE IndInv'
  BY <1>4, ForwardPeriodIndInv DEF BatchFallsBack
<1> QED
  BY <1>1, <1>2, <1>3, <1>4, ActivateOldIndInv, ActivateNewIndInv, BatchSavedIndInv,
     FlushInjectIndInv, UnlistedIndInv DEF ControlNext, Corrupted

\* The multihal's tables and the record of its calls keep their types.
THEOREM TypeCorrect == ControlSpec => []ControlTypeOK
<1>1. IndInv => ControlTypeOK
  BY DEF IndInv
<1> QED
  BY <1>1, InitIndInv, NextIndInv, PTL DEF ControlSpec

\* For any sub-HALs, handles and failures: a tracked sensor runs at the period
\* that was asked for last, or that period is saved for device__activate, if it
\* fits an int or the sub-HAL has batch().  A sensor stops being tracked only when
\* the sub-HAL refuses a saved period or setDelay() passes by one, and the next
\* batch() that succeeds makes it tracked again.
THEOREM LastPeriodAlwaysWins == ControlSpec => []LastPeriodWins
<1>1. IndInv => LastPeriodWins
  BY DEF IndInv, ControlTypeOK, SensorInv, EnableStateIsTrue, SavedWhileDisabled, PeriodIsLast, LastPeriodWins
<1> QED
  BY <1>1, InitIndInv, NextIndInv, PTL DEF ControlSpec

-----------------------------------------------------------------------------
(* The calls of one operation *)

\* The inductive invariant makes every step set calls as the property says.
LEMMA NextNoSetDelay ==
  ASSUME IndInv, NoSetDelayWhileInactive, [ControlNext]_controlVars
  PROVE  NoSetDelayWhileInactive'
<1> DEFINE Right(c) == c.op = "setDelay" /\ activateOk'[c.sensor] => active'[c.target]
<1>0. ControlTypeOK
  BY DEF IndInv
<1>1. ASSUME NEW h, NEW r, NEW a, Answer(h, r, <<a>>), Right(a) PROVE NoSetDelayWhileInactive'
  <2>1. calls' = <<a>> \/ calls' = <<>>
    BY <1>1 DEF Answer
  <2> QED
    BY <1>1, <2>1 DEF NoSetDelayWhileInactive
<1>2. ASSUME NEW h \in Handles, NEW enabled \in {0, 1}, ActivateOld(h, enabled)
      PROVE  NoSetDelayWhileInactive'
  <2>1. PICK ra \in Results(h), rd \in Results(h) :
           /\ active' = After(active, h, ra, enabled = 1)
           /\ activateOk' = [activateOk EXCEPT ![h] = (ra = 0)]
           /\ \/ /\ enabled = 1
                 /\ Answer(h, MergedResult(rd, ra),
                           <<Call("activate", h, ra), Call("setDelay", h, rd)>>)
              \/ Answer(h, ra, <<Call("activate", h, ra)>>)
    BY <1>2 DEF ActivateOld
  <2>2. Call("activate", h, ra).op = "activate" /\ Call("activate", h, ra).result = ra
    BY CallType
  <2>3. CASE Answer(h, ra, <<Call("activate", h, ra)>>)
    BY <1>1, <2>2, <2>3
  <2>4. CASE enabled = 1 /\ Answer(h, MergedResult(rd, ra),
                                   <<Call("activate", h, ra), Call("setDelay", h, rd)>>)
    <3>1. activateOk'[h] => ra = 0
      BY <1>0, <2>1 DEF ControlTypeOK
    <3>2. ra = 0 => active'[GlobalToFull[h]]
      BY <1>0, <2>1, <2>4, AfterActivate
    <3>3. Right(Call("activate", h, ra)) /\ Right(Call("setDelay", h, rd))
      BY <2>2, <3>1, <3>2, CallType
    <3>4. calls' = <<Call("activate", h, ra), Call("setDelay", h, rd)>> \/ calls' = <<>>
      BY <2>4 DEF Answer
    <3> QED
      BY <3>3, <3>4 DEF NoSetDelayWhileInactive
  <2> QED
    BY <2>1, <2>3, <2>4
<1>3. ASSUME NEW h \in Handles, NEW enabled \in {0, 1}, ActivateNew(h, enabled)
      PROVE  NoSetDelayWhileInactive'
  BY <1>1, <1>3, CallType DEF ActivateNew
<1>4. ASSUME NEW h \in Handles, NEW ns \in Periods, NEW op \in {"device__setDelay", "batch"},
             ForwardPeriod(op, h, ns)
      PROVE  NoSetDelayWhileInactive'
  BY <1>1, <1>4, CallType DEF ForwardPeriod
<1>5. ASSUME NEW h \in Handles, NEW ns \in Periods, BatchFallsBack(h, ns)
      PROVE  NoSetDelayWhileInactive'
  <2>1. PICK r \in Results(h) : /\ Answer(h, r, <<Call("setDelay", h, r)>>)
                                /\ active' = active /\ activateOk' = activateOk
    BY <1>5 DEF BatchFallsBack, ForwardPeriod
  <2>2. activateOk[h] => active[GlobalToFull[h]]
    BY <1>5 DEF BatchFallsBack, MustSave, IndInv, ControlTypeOK, SensorInv, EnableStateIsTrue
  <2>3. Right(Call("setDelay", h, r))
    BY <2>1, <2>2, CallType
  <2> QED
    BY <1>1, <2>1, <2>3
<1>6. ASSUME calls' = <<>> PROVE NoSetDelayWhileInactive'
  BY <1>6 DEF NoSetDelayWhileInactive
<1>7. ASSUME NEW h, NEW r, Answer(h, r, <<>>) PROVE NoSetDelayWhileInactive'
  BY <1>6, <1>7 DEF Answer
<1>8. ASSUME NEW h \in Handles, device__flush(h)
      PROVE  NoSetDelayWhileInactive'
  <2>1. \A r \in Results(h) : Call("flush", h, r).op = "flush"
    BY CallType
  <2> QED
    BY <1>1, <1>7, <1>8, <2>1 DEF device__flush
<1>9. ASSUME NEW h \in Handles, device__inject_sensor_data(h)
      PROVE  NoSetDelayWhileInactive'
  <2>1. \A r \in Results(h) : InjectCall(h, r).op = "inject"
    BY InjectCallType
  <2> QED
    BY <1>1, <1>7, <1>9, <2>1 DEF device__inject_sensor_data
<1>10. ASSUME UNCHANGED controlVars PROVE NoSetDelayWhileInactive'
  BY <1>10 DEF controlVars, subHalVars, history, NoSetDelayWhileInactive
<1>11. ASSUME NEW h \in Handles, NEW ns \in Periods,
              device__setDelay(h, ns) \/ BatchNew(h, ns) \/ BatchSaved(h, ns)
       PROVE  NoSetDelayWhileInactive'
  BY <1>4, <1>7, <1>11 DEF device__setDelay, BatchNew, BatchSaved
<1>12. ASSUME NEW h \in Unlisted, UnlistedIgnored(h) \/ UnlistedIndexed(h)
       PROVE  NoSetDelayWhileInactive'
  BY <1>6, <1>7, <1>12 DEF UnlistedIgnored, UnlistedIndexed
<1> QED
  BY <1>2, <1>3, <1>5, <1>8, <1>9, <1>10, <1>11, <1>12 DEF ControlNext, Corrupted

\* Unless the last activate() of the sensor failed, the emulation's setDelay()
\* reaches the sub-HAL only for a sensor that runs, whatever failed before.
THEOREM SetDelayOnlyWhileActive == ControlSpec => []NoSetDelayWhileInactive
<1>1. ControlInit => NoSetDelayWhileInactive
  BY DEF ControlInit, NoSetDelayWhileInactive
<1>2. IndInv /\ NoSetDelayWhileInactive /\ [ControlNext]_controlVars => NoSetDelayWhileInactive'
  BY NextNoSetDelay
<1> QED
  BY <1>1, <1>2, InitIndInv, NextIndInv, PTL DEF ControlSpec

\* A control call answers success only if every sub-HAL call it made did; the
\* merged result of device__activate hides neither of its two.
THEOREM FailuresAreReported == ControlSpec => []NoFailureHidden
<1>1. ControlInit => NoFailureHidden
  BY DEF ControlInit, NoFailureHidden
<1>2. ASSUME NEW h, NEW r, NEW a, Answer(h, r, <<a>>), a.result = r PROVE NoFailureHidden'
  <2>1. retval' = r /\ (calls' = <<a>> \/ calls' = <<>>)
    BY <1>2 DEF Answer
  <2> QED
    BY <1>2, <2>1 DEF NoFailureHidden
<1>3. ASSUME calls' = <<>> PROVE NoFailureHidden'
  BY <1>3 DEF NoFailureHidden
<1>4. ASSUME NEW h, NEW r, Answer(h, r, <<>>) PROVE NoFailureHidden'
  BY <1>3, <1>4 DEF Answer
<1>5. NoFailureHidden /\ [ControlNext]_controlVars => NoFailureHidden'
  <2> SUFFICES ASSUME NoFailureHidden, [ControlNext]_controlVars PROVE NoFailureHidden'
    OBVIOUS
  <2>1. ASSUME NEW h \in Handles, NEW enabled \in {0, 1}, ActivateOld(h, enabled)
        PROVE  NoFailureHidden'
    <3>1. PICK ra \in Results(h), rd \in Results(h) :
             \/ Answer(h, MergedResult(rd, ra),
                       <<Call("activate", h, ra), Call("setDelay", h, rd)>>)
             \/ Answer(h, ra, <<Call("activate", h, ra)>>)
      BY <2>1 DEF ActivateOld
    <3>2. Call("activate", h, ra).result = ra /\ Call("setDelay", h, rd).result = rd
      BY CallType
    <3>3. CASE Answer(h, MergedResult(rd, ra), <<Call("activate", h, ra), Call("setDelay", h, rd)>>)
      <4>1. /\ retval' = MergedResult(rd, ra)
            /\ calls' = <<Call("activate", h, ra), Call("setDelay", h, rd)>> \/ calls' = <<>>
        BY <3>3 DEF Answer
      <4> QED
        BY <3>2, <4>1 DEF MergedResult, NoFailureHidden
    <3> QED
      BY <1>2, <3>1, <3>2, <3>3
  <2>2. ASSUME NEW h \in Handles, NEW enabled \in {0, 1}, ActivateNew(h, enabled)
        PROVE  NoFailureHidden'
    BY <1>2, <2>2, CallType DEF ActivateNew
  <2>3. ASSUME NEW h \in Handles, NEW ns \in Periods, NEW op, ForwardPeriod(op, h, ns)
        PROVE  NoFailureHidden'
    BY <1>2, <2>3, CallType DEF ForwardPeriod
  <2>4. ASSUME NEW h \in Handles, device__flush(h) PROVE NoFailureHidden'
    <3>1. \A r \in Results(h) : Call("flush", h, r).result = r
      BY CallType
    <3> QED
      BY <1>2, <1>4, <2>4, <3>1 DEF device__flush
  <2>5. ASSUME NEW h \in Handles, device__inject_sensor_data(h) PROVE NoFailureHidden'
    <3>1. \A r \in Results(h) : InjectCall(h, r).result = r
      BY InjectCallType
    <3> QED
      BY <1>2, <1>4, <2>5, <3>1 DEF device__inject_sensor_data
  <2>6. ASSUME UNCHANGED controlVars PROVE NoFailureHidden'
    BY <2>6 DEF controlVars, NoFailureHidden
  <2>7. ASSUME NEW h \in Handles, NEW ns \in Periods,
               \/ device__setDelay(h, ns) \/ BatchNew(h, ns)
               \/ BatchSaved(h, ns) \/ BatchFallsBack(h, ns)
        PROVE  NoFailureHidden'
    BY <1>4, <2>3, <2>7 DEF device__setDelay, BatchNew, BatchSaved, BatchFallsBack
  <2>8. ASSUME NEW h \in Unlisted, UnlistedIgnored(h) \/ UnlistedIndexed(h)
        PROVE  NoFailureHidden'
    BY <1>3, <1>4, <2>8 DEF UnlistedIgnored, UnlistedIndexed
  <2> QED
    BY <2>1, <2>2, <2>4, <2>5, <2>6, <2>7, <2>8 DEF ControlNext, Corrupted
<1> QED
  BY <1>1, <1>5, PTL DEF ControlSpec
=============================================================================

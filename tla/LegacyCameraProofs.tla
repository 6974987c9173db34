------------------------ MODULE LegacyCameraProofs -------------------------
(***************************************************************************)
(* Proofs about the two camera modules.                                    *)
(*                                                                         *)
(* LegacyCameraSession, for any streams and any number of frames: the      *)
(* gate's two variables say little by themselves; the inductive invariant  *)
(* ties them to the request thread, to the frames the HAL still holds and  *)
(* to the stills the session has given up on.                              *)
(*                                                                         *)
(* LegacyCameraMetadata, for any objects, addresses, tags and sizes, in    *)
(* the second half: the inductive invariant is who holds each buffer.      *)
(***************************************************************************)
EXTENDS LegacyCameraSession, LegacyCameraMetadata, TLAPS, FiniteSetTheorems

-----------------------------------------------------------------------------
(* The session *)

\* Frame numbers are not used twice, so a callback names one request only.
FramesAreFresh ==
    /\ \A f \in halBlobs : f < nextFrame
    /\ pc # "idle" => request.frame < nextFrame /\ request.frame \notin halBlobs

\* What the HAL takes for a still, the session does too: the HAL's intent is the
\* session's, unless the settings in force have none.
IntentIsTracked ==
    /\ pc # "idle" => /\ request.still = IsLegacyStill(request.outputs, request.intent)
                      /\ IF request.settings = "null"
                         THEN /\ prev = request.outputs
                              /\ halSettings.intent \in {request.intent, "noIntent"}
                         ELSE request.settings \in {request.intent, "noIntent"}
    /\ IF PastGate THEN mLegacyLastCaptureIntent = request.intent
       ELSE prev # NONE => halSettings.intent \in {mLegacyLastCaptureIntent, "noIntent"}
    /\ prev # NONE /\ IsLegacyStill(prev, halSettings.intent) => ~halSettings.thumbnail

\* Whom the gate is closed for.
GateInvariant ==
    /\ \A f \in halStills \ abandoned :
          mLegacyStillCaptureInFlight /\ mLegacyStillCaptureFrame = f
    /\ PastGate /\ mLegacyStillCaptureInFlight =>
          request.still /\ mLegacyStillCaptureFrame = request.frame
    /\ ~PastGate /\ mLegacyStillCaptureInFlight => mLegacyStillCaptureFrame \in halBlobs
    /\ PastGate /\ request.still /\ ~mLegacyStillCaptureInFlight => request.frame \in abandoned
    /\ pc = "waiting" /\ ~signalled => mLegacyStillCaptureInFlight

\* The session's record of registered streams may be out of date after a failed
\* configuration, but not when a request can come or is under way.
RegistrationInvariant ==
    /\ pc # "idle" => service # "unconfigured" /\ buffers \in [request.outputs -> BufferIds]
    /\ pc # "idle" \/ service = "ready" =>
          \A s \in mLegacyRegisteredStreams : halBuffers[s] # {}
    /\ pc = "register" => \A s \in request.outputs : mCirculatingBuffers[s] # {}
    /\ pc = "submit" => request.outputs \subseteq mLegacyRegisteredStreams

IndInv == TypeOK /\ FramesAreFresh /\ IntentIsTracked /\ GateInvariant /\ RegistrationInvariant

\* A buffer for each of some streams is what a request may bring.
LEMMA BuffersAreTyped ==
  ASSUME NEW o \in SUBSET Streams, NEW b \in [o -> BufferIds]
  PROVE  b \in RequestBuffers
<1>1. [o -> BufferIds] \in {[p -> BufferIds] : p \in SUBSET Streams}
  OBVIOUS
<1> QED
  BY <1>1 DEF RequestBuffers

\* The values that stand for no request are among the requests.
LEMMA NoRequestIsTyped == NoRequest \in Requests /\ NoOutput \in RequestBuffers
<1>1. {} \in SUBSET Streams /\ NoOutput \in [{} -> BufferIds]
  BY DEF NoOutput
<1> QED
  BY <1>1, BuffersAreTyped DEF NoRequest, Requests, Intents, Settings

\* The initial state satisfies the inductive invariant.
LEMMA InitIndInv == Init => IndInv
<1> SUFFICES ASSUME Init PROVE IndInv
  OBVIOUS
<1>1. TypeOK
  <2>1. request \in Requests /\ buffers \in RequestBuffers
    BY NoRequestIsTyped DEF Init
  <2>2. mCirculatingBuffers \in BufferSets /\ halBuffers \in BufferSets
    BY DEF Init, NoBuffers, BufferSets
  <2> QED
    BY <2>1, <2>2 DEF Init, TypeOK, Intents, NoSettings
<1>2. FramesAreFresh /\ IntentIsTracked
  BY DEF Init, FramesAreFresh, IntentIsTracked, PastGate
<1>3. GateInvariant /\ RegistrationInvariant
  BY DEF Init, GateInvariant, RegistrationInvariant, PastGate
<1> QED
  BY <1>1, <1>2, <1>3 DEF IndInv

\* Every step of the session, the HAL and the camera service preserves it.
LEMMA NextIndInv == IndInv /\ [Next]_vars => IndInv'
<1> SUFFICES ASSUME IndInv, [Next]_vars PROVE IndInv'
  OBVIOUS
<1>1. ASSUME NEW outputs \in SUBSET Streams, NEW settings \in Settings, RequestArrives(outputs, settings)
      PROVE  IndInv'
  <2>1. TypeOK'
    <3>1. mLegacyStillCaptureInFlight' \in BOOLEAN /\ signalled' \in BOOLEAN
      BY <1>1 DEF IndInv, RequestArrives, CaptureIntent, gateVars, streamVars, requestVars,
         serviceVars, halVars, TypeOK, Requests
    <3>2. request' \in Requests /\ buffers' \in RequestBuffers
      BY NoRequestIsTyped, BuffersAreTyped, <1>1 DEF IndInv, RequestArrives, CaptureIntent,
         gateVars, streamVars, requestVars, serviceVars, halVars, TypeOK, Requests, Intents,
         Settings, IsLegacyStill
    <3>3. mCirculatingBuffers' \in BufferSets /\ halBuffers' \in BufferSets
      BY <1>1 DEF IndInv, RequestArrives, CaptureIntent, gateVars, streamVars, requestVars,
         serviceVars, halVars, TypeOK
    <3> QED
      BY <3>1, <3>2, <3>3, <1>1 DEF IndInv, RequestArrives, CaptureIntent, gateVars,
         streamVars, requestVars, serviceVars, halVars, TypeOK, Intents, Requests, Settings
  <2>2. FramesAreFresh'
    BY <1>1 DEF IndInv, RequestArrives, CaptureIntent, gateVars, streamVars, requestVars,
       serviceVars, halVars, FramesAreFresh, TypeOK
  <2>3. IntentIsTracked'
    BY SessionAssumption, <1>1 DEF IndInv, RequestArrives, CaptureIntent, gateVars,
       streamVars, requestVars, serviceVars, halVars, IntentIsTracked, TypeOK, Intents,
       Settings, PastGate, IsLegacyStill, HasBlob
  <2>4. GateInvariant'
    BY <1>1 DEF IndInv, RequestArrives, CaptureIntent, gateVars, streamVars, requestVars,
       serviceVars, halVars, GateInvariant, FramesAreFresh, IntentIsTracked, IsLegacyStill,
       HasBlob, PastGate, TypeOK
  <2>5. RegistrationInvariant'
    BY <1>1 DEF IndInv, RequestArrives, CaptureIntent, gateVars, streamVars, requestVars,
       serviceVars, halVars, RegistrationInvariant, TypeOK, Requests
  <2> QED BY <2>1, <2>2, <2>3, <2>4, <2>5 DEF IndInv
<1>2. ASSUME WaitAtGate
      PROVE  IndInv'
  <2>1. TypeOK'
    <3>1. mLegacyStillCaptureInFlight' \in BOOLEAN /\ signalled' \in BOOLEAN
      BY <1>2 DEF IndInv, WaitAtGate, gateVars, streamVars, requestVars, serviceVars,
         halVars, TypeOK, Requests
    <3>2. request' \in Requests /\ buffers' \in RequestBuffers
      BY <1>2 DEF IndInv, WaitAtGate, gateVars, streamVars, requestVars, serviceVars,
         halVars, TypeOK
    <3>3. mCirculatingBuffers' \in BufferSets /\ halBuffers' \in BufferSets
      BY <1>2 DEF IndInv, WaitAtGate, gateVars, streamVars, requestVars, serviceVars,
         halVars, TypeOK
    <3> QED
      BY <3>1, <3>2, <3>3, <1>2 DEF IndInv, WaitAtGate, gateVars, streamVars, requestVars,
         serviceVars, halVars, TypeOK, Intents
  <2>2. FramesAreFresh'
    BY <1>2 DEF IndInv, WaitAtGate, gateVars, streamVars, requestVars, serviceVars, halVars,
       FramesAreFresh, TypeOK
  <2>3. IntentIsTracked'
    BY SessionAssumption, <1>2 DEF IndInv, WaitAtGate, gateVars, streamVars, requestVars,
       serviceVars, halVars, IntentIsTracked, TypeOK, Intents, Settings, PastGate,
       IsLegacyStill, HasBlob
  <2>4. GateInvariant'
    BY <1>2 DEF IndInv, WaitAtGate, gateVars, streamVars, requestVars, serviceVars, halVars,
       GateInvariant, FramesAreFresh, IntentIsTracked, IsLegacyStill, HasBlob, PastGate,
       TypeOK
  <2>5. RegistrationInvariant'
    BY <1>2 DEF IndInv, WaitAtGate, gateVars, streamVars, requestVars, serviceVars, halVars,
       RegistrationInvariant, TypeOK, Requests, BufferSets
  <2> QED BY <2>1, <2>2, <2>3, <2>4, <2>5 DEF IndInv
<1>3. ASSUME PassGate
      PROVE  IndInv'
  <2>1. TypeOK'
    <3>1. mLegacyStillCaptureInFlight' \in BOOLEAN /\ signalled' \in BOOLEAN
      BY <1>3 DEF IndInv, PassGate, EnterGate, gateVars, streamVars, requestVars,
         serviceVars, halVars, TypeOK, Requests
    <3>2. request' \in Requests /\ buffers' \in RequestBuffers
      BY <1>3 DEF IndInv, PassGate, EnterGate, gateVars, streamVars, requestVars,
         serviceVars, halVars, TypeOK
    <3>3. mCirculatingBuffers' \in BufferSets /\ halBuffers' \in BufferSets
      BY <1>3 DEF IndInv, PassGate, EnterGate, gateVars, streamVars, requestVars,
         serviceVars, halVars, TypeOK
    <3> QED
      BY <3>1, <3>2, <3>3, <1>3 DEF IndInv, PassGate, EnterGate, gateVars, streamVars,
         requestVars, serviceVars, halVars, TypeOK, Intents, Requests, Settings
  <2>2. FramesAreFresh'
    BY <1>3 DEF IndInv, PassGate, EnterGate, gateVars, streamVars, requestVars, serviceVars,
       halVars, FramesAreFresh, TypeOK
  <2>3. IntentIsTracked'
    BY SessionAssumption, <1>3 DEF IndInv, PassGate, EnterGate, gateVars, streamVars,
       requestVars, serviceVars, halVars, IntentIsTracked, TypeOK, Intents, Settings,
       PastGate, IsLegacyStill, HasBlob
  <2>4. GateInvariant'
    BY <1>3 DEF IndInv, PassGate, EnterGate, gateVars, streamVars, requestVars, serviceVars,
       halVars, GateInvariant, FramesAreFresh, IntentIsTracked, IsLegacyStill, HasBlob,
       PastGate, TypeOK
  <2>5. RegistrationInvariant'
    BY <1>3 DEF IndInv, PassGate, EnterGate, gateVars, streamVars, requestVars, serviceVars,
       halVars, RegistrationInvariant, TypeOK, Requests, BufferSets
  <2> QED BY <2>1, <2>2, <2>3, <2>4, <2>5 DEF IndInv
<1>4. ASSUME WaitTimesOut
      PROVE  IndInv'
  <2>1. TypeOK'
    <3>1. mLegacyStillCaptureInFlight' \in BOOLEAN /\ signalled' \in BOOLEAN
      BY <1>4 DEF IndInv, WaitTimesOut, EnterGate, Abandon, gateVars, streamVars,
         requestVars, serviceVars, halVars, TypeOK, Requests
    <3>2. request' \in Requests /\ buffers' \in RequestBuffers
      BY <1>4 DEF IndInv, WaitTimesOut, EnterGate, Abandon, gateVars, streamVars,
         requestVars, serviceVars, halVars, TypeOK
    <3>3. mCirculatingBuffers' \in BufferSets /\ halBuffers' \in BufferSets
      BY <1>4 DEF IndInv, WaitTimesOut, EnterGate, Abandon, gateVars, streamVars,
         requestVars, serviceVars, halVars, TypeOK
    <3> QED
      BY <3>1, <3>2, <3>3, <1>4 DEF IndInv, WaitTimesOut, EnterGate, Abandon, gateVars,
         streamVars, requestVars, serviceVars, halVars, TypeOK, Intents, Requests, Settings
  <2>2. FramesAreFresh'
    BY <1>4 DEF IndInv, WaitTimesOut, EnterGate, Abandon, gateVars, streamVars, requestVars,
       serviceVars, halVars, FramesAreFresh, TypeOK
  <2>3. IntentIsTracked'
    BY SessionAssumption, <1>4 DEF IndInv, WaitTimesOut, EnterGate, Abandon, gateVars,
       streamVars, requestVars, serviceVars, halVars, IntentIsTracked, TypeOK, Intents,
       Settings, PastGate, IsLegacyStill, HasBlob
  <2>4. GateInvariant'
    BY <1>4 DEF IndInv, WaitTimesOut, EnterGate, Abandon, gateVars, streamVars, requestVars,
       serviceVars, halVars, GateInvariant, FramesAreFresh, IntentIsTracked, IsLegacyStill,
       HasBlob, PastGate, TypeOK
  <2>5. RegistrationInvariant'
    BY <1>4 DEF IndInv, WaitTimesOut, EnterGate, Abandon, gateVars, streamVars, requestVars,
       serviceVars, halVars, RegistrationInvariant, TypeOK, Requests, BufferSets
  <2> QED BY <2>1, <2>2, <2>3, <2>4, <2>5 DEF IndInv
<1>5. ASSUME FailBeforeRegistering
      PROVE  IndInv'
  <2>1. TypeOK'
    <3>1. mLegacyStillCaptureInFlight' \in BOOLEAN /\ signalled' \in BOOLEAN
      BY <1>5 DEF IndInv, FailBeforeRegistering, Import, RequestFails, RequestReturns,
         NoRequest, NoOutput, ReleaseOwnStill, OpenGate, gateVars, streamVars, requestVars,
         serviceVars, halVars, TypeOK, Requests
    <3>2. request' \in Requests /\ buffers' \in RequestBuffers
      BY NoRequestIsTyped, BuffersAreTyped, <1>5 DEF IndInv, FailBeforeRegistering, Import,
         RequestFails, RequestReturns, ReleaseOwnStill, OpenGate, gateVars, streamVars,
         requestVars, serviceVars, halVars, TypeOK
    <3>3. mCirculatingBuffers' \in BufferSets /\ halBuffers' \in BufferSets
      <4>1. \A s \in request.outputs : buffers[s] \in BufferIds /\ s \in Streams
        BY <1>5 DEF IndInv, FailBeforeRegistering, RequestFails, PastGate, RegistrationInvariant, TypeOK, Requests
      <4> QED
        BY <4>1, <1>5 DEF IndInv, FailBeforeRegistering, Import, RequestFails,
           RequestReturns, NoRequest, NoOutput, ReleaseOwnStill, OpenGate, gateVars,
           streamVars, requestVars, serviceVars, halVars, TypeOK, BufferSets
    <3> QED
      BY <3>1, <3>2, <3>3, <1>5 DEF IndInv, FailBeforeRegistering, RequestFails,
         RequestReturns, gateVars, streamVars, requestVars, serviceVars, halVars, TypeOK,
         Intents
  <2>2. FramesAreFresh'
    BY <1>5 DEF IndInv, FailBeforeRegistering, Import, RequestFails, RequestReturns,
       NoRequest, NoOutput, ReleaseOwnStill, OpenGate, gateVars, streamVars, requestVars,
       serviceVars, halVars, FramesAreFresh, TypeOK
  <2>3. IntentIsTracked'
    BY SessionAssumption, <1>5 DEF IndInv, FailBeforeRegistering, Import, RequestFails,
       RequestReturns, NoRequest, NoOutput, ReleaseOwnStill, OpenGate, gateVars, streamVars,
       requestVars, serviceVars, halVars, IntentIsTracked, TypeOK, Intents, Settings,
       PastGate, IsLegacyStill, HasBlob
  <2>4. GateInvariant'
    BY <1>5 DEF IndInv, FailBeforeRegistering, Import, RequestFails, RequestReturns,
       NoRequest, NoOutput, ReleaseOwnStill, OpenGate, gateVars, streamVars, requestVars,
       serviceVars, halVars, GateInvariant, FramesAreFresh, IntentIsTracked, IsLegacyStill,
       HasBlob, PastGate, TypeOK
  <2>5. RegistrationInvariant'
    BY <1>5 DEF IndInv, FailBeforeRegistering, Import, RequestFails, RequestReturns,
       NoRequest, NoOutput, ReleaseOwnStill, OpenGate, gateVars, streamVars, requestVars,
       serviceVars, halVars, RegistrationInvariant, TypeOK, Requests, BufferSets
  <2> QED BY <2>1, <2>2, <2>3, <2>4, <2>5 DEF IndInv
<1>6. ASSUME importRequest
      PROVE  IndInv'
  <2>1. TypeOK'
    <3>1. mLegacyStillCaptureInFlight' \in BOOLEAN /\ signalled' \in BOOLEAN
      BY <1>6 DEF IndInv, importRequest, Import, gateVars, streamVars, requestVars,
         serviceVars, halVars, TypeOK, Requests
    <3>2. request' \in Requests /\ buffers' \in RequestBuffers
      BY <1>6 DEF IndInv, importRequest, Import, gateVars, streamVars, requestVars,
         serviceVars, halVars, TypeOK
    <3>3. mCirculatingBuffers' \in BufferSets /\ halBuffers' \in BufferSets
      <4>1. \A s \in request.outputs : buffers[s] \in BufferIds /\ s \in Streams
        BY <1>6 DEF IndInv, importRequest, RequestFails, PastGate, RegistrationInvariant, TypeOK, Requests
      <4> QED
        BY <4>1, <1>6 DEF IndInv, importRequest, Import, gateVars, streamVars, requestVars,
           serviceVars, halVars, TypeOK, BufferSets
    <3> QED
      BY <3>1, <3>2, <3>3, <1>6 DEF IndInv, importRequest, gateVars, streamVars,
         requestVars, serviceVars, halVars, TypeOK, Intents
  <2>2. FramesAreFresh'
    BY <1>6 DEF IndInv, importRequest, Import, gateVars, streamVars, requestVars,
       serviceVars, halVars, FramesAreFresh, TypeOK
  <2>3. IntentIsTracked'
    BY SessionAssumption, <1>6 DEF IndInv, importRequest, Import, gateVars, streamVars,
       requestVars, serviceVars, halVars, IntentIsTracked, TypeOK, Intents, Settings,
       PastGate, IsLegacyStill, HasBlob
  <2>4. GateInvariant'
    BY <1>6 DEF IndInv, importRequest, Import, gateVars, streamVars, requestVars,
       serviceVars, halVars, GateInvariant, FramesAreFresh, IntentIsTracked, IsLegacyStill,
       HasBlob, PastGate, TypeOK
  <2>5. RegistrationInvariant'
    BY <1>6 DEF IndInv, importRequest, Import, gateVars, streamVars, requestVars,
       serviceVars, halVars, RegistrationInvariant, TypeOK, Requests, BufferSets
  <2> QED BY <2>1, <2>2, <2>3, <2>4, <2>5 DEF IndInv
<1>7. ASSUME registerLegacyBuffers
      PROVE  IndInv'
  <2>1. TypeOK'
    <3>1. mLegacyStillCaptureInFlight' \in BOOLEAN /\ signalled' \in BOOLEAN
      BY <1>7 DEF IndInv, registerLegacyBuffers, Register, Unregistered, gateVars,
         streamVars, requestVars, serviceVars, halVars, TypeOK, Requests
    <3>2. request' \in Requests /\ buffers' \in RequestBuffers
      BY <1>7 DEF IndInv, registerLegacyBuffers, Register, Unregistered, gateVars,
         streamVars, requestVars, serviceVars, halVars, TypeOK
    <3>3. mCirculatingBuffers' \in BufferSets /\ halBuffers' \in BufferSets
      BY <1>7 DEF IndInv, registerLegacyBuffers, Register, Unregistered, gateVars,
         streamVars, requestVars, serviceVars, halVars, TypeOK, BufferSets
    <3> QED
      BY <3>1, <3>2, <3>3, <1>7 DEF IndInv, registerLegacyBuffers, Register, Unregistered,
         gateVars, streamVars, requestVars, serviceVars, halVars, TypeOK, Intents, Requests,
         Settings
  <2>2. FramesAreFresh'
    BY <1>7 DEF IndInv, registerLegacyBuffers, Register, Unregistered, gateVars, streamVars,
       requestVars, serviceVars, halVars, FramesAreFresh, TypeOK
  <2>3. IntentIsTracked'
    BY SessionAssumption, <1>7 DEF IndInv, registerLegacyBuffers, Register, Unregistered,
       gateVars, streamVars, requestVars, serviceVars, halVars, IntentIsTracked, TypeOK,
       Intents, Settings, PastGate, IsLegacyStill, HasBlob
  <2>4. GateInvariant'
    BY <1>7 DEF IndInv, registerLegacyBuffers, Register, Unregistered, gateVars, streamVars,
       requestVars, serviceVars, halVars, GateInvariant, FramesAreFresh, IntentIsTracked,
       IsLegacyStill, HasBlob, PastGate, TypeOK
  <2>5. RegistrationInvariant'
    BY <1>7 DEF IndInv, registerLegacyBuffers, Register, Unregistered, gateVars, streamVars,
       requestVars, serviceVars, halVars, RegistrationInvariant, TypeOK, Requests,
       BufferSets
  <2> QED BY <2>1, <2>2, <2>3, <2>4, <2>5 DEF IndInv
<1>8. ASSUME FailRegistering
      PROVE  IndInv'
  <2>1. TypeOK'
    <3>1. mLegacyStillCaptureInFlight' \in BOOLEAN /\ signalled' \in BOOLEAN
      BY <1>8 DEF IndInv, FailRegistering, Register, Unregistered, RequestFails,
         RequestReturns, NoRequest, NoOutput, ReleaseOwnStill, OpenGate, gateVars,
         streamVars, requestVars, serviceVars, halVars, TypeOK, Requests
    <3>2. request' \in Requests /\ buffers' \in RequestBuffers
      BY NoRequestIsTyped, BuffersAreTyped, <1>8 DEF IndInv, FailRegistering, Register,
         Unregistered, RequestFails, RequestReturns, ReleaseOwnStill, OpenGate, gateVars,
         streamVars, requestVars, serviceVars, halVars, TypeOK
    <3>3. mCirculatingBuffers' \in BufferSets /\ halBuffers' \in BufferSets
      BY <1>8 DEF IndInv, FailRegistering, Register, Unregistered, RequestFails,
         RequestReturns, NoRequest, NoOutput, ReleaseOwnStill, OpenGate, gateVars,
         streamVars, requestVars, serviceVars, halVars, TypeOK, BufferSets
    <3> QED
      BY <3>1, <3>2, <3>3, <1>8 DEF IndInv, FailRegistering, Register, Unregistered,
         RequestFails, RequestReturns, gateVars, streamVars, requestVars, serviceVars,
         halVars, TypeOK, Intents, Requests, Settings
  <2>2. FramesAreFresh'
    BY <1>8 DEF IndInv, FailRegistering, Register, Unregistered, RequestFails,
       RequestReturns, NoRequest, NoOutput, ReleaseOwnStill, OpenGate, gateVars, streamVars,
       requestVars, serviceVars, halVars, FramesAreFresh, TypeOK
  <2>3. IntentIsTracked'
    BY SessionAssumption, <1>8 DEF IndInv, FailRegistering, Register, Unregistered,
       RequestFails, RequestReturns, NoRequest, NoOutput, ReleaseOwnStill, OpenGate,
       gateVars, streamVars, requestVars, serviceVars, halVars, IntentIsTracked, TypeOK,
       Intents, Settings, PastGate, IsLegacyStill, HasBlob
  <2>4. GateInvariant'
    BY <1>8 DEF IndInv, FailRegistering, Register, Unregistered, RequestFails,
       RequestReturns, NoRequest, NoOutput, ReleaseOwnStill, OpenGate, gateVars, streamVars,
       requestVars, serviceVars, halVars, GateInvariant, FramesAreFresh, IntentIsTracked,
       IsLegacyStill, HasBlob, PastGate, TypeOK
  <2>5. RegistrationInvariant'
    BY <1>8 DEF IndInv, FailRegistering, Register, Unregistered, RequestFails,
       RequestReturns, NoRequest, NoOutput, ReleaseOwnStill, OpenGate, gateVars, streamVars,
       requestVars, serviceVars, halVars, RegistrationInvariant, TypeOK, Requests,
       BufferSets
  <2> QED BY <2>1, <2>2, <2>3, <2>4, <2>5 DEF IndInv
<1>9. ASSUME HalAccepts
      PROVE  IndInv'
  <2>1. TypeOK'
    <3>1. mLegacyStillCaptureInFlight' \in BOOLEAN /\ signalled' \in BOOLEAN
      BY <1>9 DEF IndInv, HalAccepts, Thumbnail, RequestReturns, NoRequest, NoOutput,
         gateVars, streamVars, requestVars, serviceVars, halVars, TypeOK, Requests
    <3>2. request' \in Requests /\ buffers' \in RequestBuffers
      BY NoRequestIsTyped, BuffersAreTyped, <1>9 DEF IndInv, HalAccepts, Thumbnail,
         RequestReturns, gateVars, streamVars, requestVars, serviceVars, halVars, TypeOK
    <3>3. mCirculatingBuffers' \in BufferSets /\ halBuffers' \in BufferSets
      BY <1>9 DEF IndInv, HalAccepts, Thumbnail, RequestReturns, NoRequest, NoOutput,
         gateVars, streamVars, requestVars, serviceVars, halVars, TypeOK
    <3>4. halSettings' \in [intent : Intents \cup {"noIntent"}, thumbnail : BOOLEAN]
      BY <1>9 DEF IndInv, TypeOK, Requests, HalAccepts, Thumbnail, Settings, Intents
    <3>5. halBlobs' \subseteq Nat /\ halStills' \subseteq halBlobs'
      BY <1>9 DEF IndInv, TypeOK, Requests, HalAccepts, IsLegacyStill
    <3> QED
      BY <3>1, <3>2, <3>3, <3>4, <3>5, <1>9 DEF IndInv, HalAccepts, Thumbnail,
         RequestReturns, gateVars, streamVars, requestVars, serviceVars, halVars, TypeOK,
         Intents, Requests, Settings
  <2>2. FramesAreFresh'
    BY <1>9 DEF IndInv, HalAccepts, Thumbnail, RequestReturns, NoRequest, NoOutput,
       gateVars, streamVars, requestVars, serviceVars, halVars, FramesAreFresh, TypeOK
  <2>3. IntentIsTracked'
    BY SessionAssumption, <1>9 DEF IndInv, HalAccepts, Thumbnail, RequestReturns, NoRequest,
       NoOutput, gateVars, streamVars, requestVars, serviceVars, halVars, IntentIsTracked,
       TypeOK, Intents, Settings, PastGate, IsLegacyStill, HasBlob
  <2>4. GateInvariant'
    BY <1>9 DEF IndInv, HalAccepts, Thumbnail, RequestReturns, NoRequest, NoOutput,
       gateVars, streamVars, requestVars, serviceVars, halVars, GateInvariant,
       FramesAreFresh, IntentIsTracked, IsLegacyStill, HasBlob, PastGate, TypeOK
  <2>5. RegistrationInvariant'
    BY <1>9 DEF IndInv, HalAccepts, Thumbnail, RequestReturns, NoRequest, NoOutput,
       gateVars, streamVars, requestVars, serviceVars, halVars, RegistrationInvariant,
       TypeOK, Requests, BufferSets
  <2> QED BY <2>1, <2>2, <2>3, <2>4, <2>5 DEF IndInv
<1>10. ASSUME HalRefuses
      PROVE  IndInv'
  <2>1. TypeOK'
    <3>1. mLegacyStillCaptureInFlight' \in BOOLEAN /\ signalled' \in BOOLEAN
      BY <1>10 DEF IndInv, HalRefuses, RequestFails, RequestReturns, NoRequest, NoOutput,
         ReleaseOwnStill, OpenGate, gateVars, streamVars, requestVars, serviceVars, halVars,
         TypeOK, Requests
    <3>2. request' \in Requests /\ buffers' \in RequestBuffers
      BY NoRequestIsTyped, BuffersAreTyped, <1>10 DEF IndInv, HalRefuses, RequestFails,
         RequestReturns, ReleaseOwnStill, OpenGate, gateVars, streamVars, requestVars,
         serviceVars, halVars, TypeOK
    <3>3. mCirculatingBuffers' \in BufferSets /\ halBuffers' \in BufferSets
      BY <1>10 DEF IndInv, HalRefuses, RequestFails, RequestReturns, NoRequest, NoOutput,
         ReleaseOwnStill, OpenGate, gateVars, streamVars, requestVars, serviceVars, halVars,
         TypeOK
    <3> QED
      BY <3>1, <3>2, <3>3, <1>10 DEF IndInv, HalRefuses, RequestFails, RequestReturns,
         gateVars, streamVars, requestVars, serviceVars, halVars, TypeOK, Intents
  <2>2. FramesAreFresh'
    BY <1>10 DEF IndInv, HalRefuses, RequestFails, RequestReturns, NoRequest, NoOutput,
       ReleaseOwnStill, OpenGate, gateVars, streamVars, requestVars, serviceVars, halVars,
       FramesAreFresh, TypeOK
  <2>3. IntentIsTracked'
    BY SessionAssumption, <1>10 DEF IndInv, HalRefuses, RequestFails, RequestReturns,
       NoRequest, NoOutput, ReleaseOwnStill, OpenGate, gateVars, streamVars, requestVars,
       serviceVars, halVars, IntentIsTracked, TypeOK, Intents, Settings, PastGate,
       IsLegacyStill, HasBlob
  <2>4. GateInvariant'
    BY <1>10 DEF IndInv, HalRefuses, RequestFails, RequestReturns, NoRequest, NoOutput,
       ReleaseOwnStill, OpenGate, gateVars, streamVars, requestVars, serviceVars, halVars,
       GateInvariant, FramesAreFresh, IntentIsTracked, IsLegacyStill, HasBlob, PastGate,
       TypeOK
  <2>5. RegistrationInvariant'
    BY <1>10 DEF IndInv, HalRefuses, RequestFails, RequestReturns, NoRequest, NoOutput,
       ReleaseOwnStill, OpenGate, gateVars, streamVars, requestVars, serviceVars, halVars,
       RegistrationInvariant, TypeOK, Requests, BufferSets
  <2> QED BY <2>1, <2>2, <2>3, <2>4, <2>5 DEF IndInv
<1>11. ASSUME NEW f \in halBlobs, BlobReturned(f)
      PROVE  IndInv'
  <2>1. TypeOK'
    <3>1. mLegacyStillCaptureInFlight' \in BOOLEAN /\ signalled' \in BOOLEAN
      BY <1>11 DEF IndInv, BlobReturned, GateIsFor, OpenGate, gateVars, streamVars,
         requestVars, serviceVars, halVars, TypeOK, Requests
    <3>2. request' \in Requests /\ buffers' \in RequestBuffers
      BY <1>11 DEF IndInv, BlobReturned, GateIsFor, OpenGate, gateVars, streamVars,
         requestVars, serviceVars, halVars, TypeOK
    <3>3. mCirculatingBuffers' \in BufferSets /\ halBuffers' \in BufferSets
      BY <1>11 DEF IndInv, BlobReturned, GateIsFor, OpenGate, gateVars, streamVars,
         requestVars, serviceVars, halVars, TypeOK
    <3> QED
      BY <3>1, <3>2, <3>3, <1>11 DEF IndInv, BlobReturned, GateIsFor, gateVars, streamVars,
         requestVars, serviceVars, halVars, TypeOK, Intents
  <2>2. FramesAreFresh'
    BY <1>11 DEF IndInv, BlobReturned, GateIsFor, OpenGate, gateVars, streamVars,
       requestVars, serviceVars, halVars, FramesAreFresh, TypeOK
  <2>3. IntentIsTracked'
    BY SessionAssumption, <1>11 DEF IndInv, BlobReturned, GateIsFor, OpenGate, gateVars,
       streamVars, requestVars, serviceVars, halVars, IntentIsTracked, TypeOK, Intents,
       Settings, PastGate, IsLegacyStill, HasBlob
  <2>4. GateInvariant'
    BY <1>11 DEF IndInv, BlobReturned, GateIsFor, OpenGate, gateVars, streamVars,
       requestVars, serviceVars, halVars, GateInvariant, FramesAreFresh, IntentIsTracked,
       IsLegacyStill, HasBlob, PastGate, TypeOK
  <2>5. RegistrationInvariant'
    BY <1>11 DEF IndInv, BlobReturned, GateIsFor, OpenGate, gateVars, streamVars,
       requestVars, serviceVars, halVars, RegistrationInvariant, TypeOK, Requests,
       BufferSets
  <2> QED BY <2>1, <2>2, <2>3, <2>4, <2>5 DEF IndInv
<1>12. ASSUME NEW f \in halBlobs \cup {0}, ErrorNotified(f)
      PROVE  IndInv'
  <2>1. TypeOK'
    <3>1. mLegacyStillCaptureInFlight' \in BOOLEAN /\ signalled' \in BOOLEAN
      BY <1>12 DEF IndInv, ErrorNotified, GateIsFor, OpenGate, Abandon, gateVars,
         streamVars, requestVars, serviceVars, halVars, TypeOK, Requests
    <3>2. request' \in Requests /\ buffers' \in RequestBuffers
      BY <1>12 DEF IndInv, ErrorNotified, GateIsFor, OpenGate, Abandon, gateVars,
         streamVars, requestVars, serviceVars, halVars, TypeOK
    <3>3. mCirculatingBuffers' \in BufferSets /\ halBuffers' \in BufferSets
      BY <1>12 DEF IndInv, ErrorNotified, GateIsFor, OpenGate, Abandon, gateVars,
         streamVars, requestVars, serviceVars, halVars, TypeOK
    <3> QED
      BY <3>1, <3>2, <3>3, <1>12 DEF IndInv, ErrorNotified, GateIsFor, Abandon, gateVars,
         streamVars, requestVars, serviceVars, halVars, TypeOK, Intents
  <2>2. FramesAreFresh'
    BY <1>12 DEF IndInv, ErrorNotified, GateIsFor, OpenGate, Abandon, gateVars, streamVars,
       requestVars, serviceVars, halVars, FramesAreFresh, TypeOK
  <2>3. IntentIsTracked'
    BY SessionAssumption, <1>12 DEF IndInv, ErrorNotified, GateIsFor, OpenGate, Abandon,
       gateVars, streamVars, requestVars, serviceVars, halVars, IntentIsTracked, TypeOK,
       Intents, Settings, PastGate, IsLegacyStill, HasBlob
  <2>4. GateInvariant'
    BY <1>12 DEF IndInv, ErrorNotified, GateIsFor, OpenGate, Abandon, gateVars, streamVars,
       requestVars, serviceVars, halVars, GateInvariant, FramesAreFresh, IntentIsTracked,
       IsLegacyStill, HasBlob, PastGate, TypeOK
  <2>5. RegistrationInvariant'
    BY <1>12 DEF IndInv, ErrorNotified, GateIsFor, OpenGate, Abandon, gateVars, streamVars,
       requestVars, serviceVars, halVars, RegistrationInvariant, TypeOK, Requests,
       BufferSets
  <2> QED BY <2>1, <2>2, <2>3, <2>4, <2>5 DEF IndInv
<1>13. ASSUME flush
      PROVE  IndInv'
  <2>1. TypeOK'
    <3>1. mLegacyStillCaptureInFlight' \in BOOLEAN /\ signalled' \in BOOLEAN
      BY <1>13 DEF IndInv, flush, OpenGate, Abandon, gateVars, streamVars, requestVars,
         serviceVars, halVars, TypeOK, Requests
    <3>2. request' \in Requests /\ buffers' \in RequestBuffers
      BY <1>13 DEF IndInv, flush, OpenGate, Abandon, gateVars, streamVars, requestVars,
         serviceVars, halVars, TypeOK
    <3>3. mCirculatingBuffers' \in BufferSets /\ halBuffers' \in BufferSets
      BY <1>13 DEF IndInv, flush, OpenGate, Abandon, gateVars, streamVars, requestVars,
         serviceVars, halVars, TypeOK
    <3> QED
      BY <3>1, <3>2, <3>3, <1>13 DEF IndInv, flush, Abandon, gateVars, streamVars,
         requestVars, serviceVars, halVars, TypeOK, Intents
  <2>2. FramesAreFresh'
    BY <1>13 DEF IndInv, flush, OpenGate, Abandon, gateVars, streamVars, requestVars,
       serviceVars, halVars, FramesAreFresh, TypeOK
  <2>3. IntentIsTracked'
    BY SessionAssumption, <1>13 DEF IndInv, flush, OpenGate, Abandon, gateVars, streamVars,
       requestVars, serviceVars, halVars, IntentIsTracked, TypeOK, Intents, Settings,
       PastGate, IsLegacyStill, HasBlob
  <2>4. GateInvariant'
    BY <1>13 DEF IndInv, flush, OpenGate, Abandon, gateVars, streamVars, requestVars,
       serviceVars, halVars, GateInvariant, FramesAreFresh, IntentIsTracked, IsLegacyStill,
       HasBlob, PastGate, TypeOK
  <2>5. RegistrationInvariant'
    BY <1>13 DEF IndInv, flush, OpenGate, Abandon, gateVars, streamVars, requestVars,
       serviceVars, halVars, RegistrationInvariant, TypeOK, Requests, BufferSets
  <2> QED BY <2>1, <2>2, <2>3, <2>4, <2>5 DEF IndInv
<1>14. ASSUME NEW streams \in (SUBSET Streams) \ {{}}, configureStreams(streams)
      PROVE  IndInv'
  <2>1. TypeOK'
    <3>1. mLegacyStillCaptureInFlight' \in BOOLEAN /\ signalled' \in BOOLEAN
      BY <1>14 DEF IndInv, configureStreams, ForgetRegistrations, gateVars, streamVars,
         requestVars, serviceVars, halVars, TypeOK, Requests
    <3>2. request' \in Requests /\ buffers' \in RequestBuffers
      BY <1>14 DEF IndInv, configureStreams, ForgetRegistrations, gateVars, streamVars,
         requestVars, serviceVars, halVars, TypeOK
    <3>3. mCirculatingBuffers' \in BufferSets /\ halBuffers' \in BufferSets
      BY <1>14 DEF IndInv, configureStreams, ForgetRegistrations, gateVars, streamVars,
         requestVars, serviceVars, halVars, TypeOK, BufferSets
    <3> QED
      BY <3>1, <3>2, <3>3, <1>14 DEF IndInv, configureStreams, ForgetRegistrations,
         gateVars, streamVars, requestVars, serviceVars, halVars, TypeOK, Intents
  <2>2. FramesAreFresh'
    BY <1>14 DEF IndInv, configureStreams, ForgetRegistrations, gateVars, streamVars,
       requestVars, serviceVars, halVars, FramesAreFresh, TypeOK
  <2>3. IntentIsTracked'
    BY SessionAssumption, <1>14 DEF IndInv, configureStreams, ForgetRegistrations, gateVars,
       streamVars, requestVars, serviceVars, halVars, IntentIsTracked, TypeOK, Intents,
       Settings, PastGate, IsLegacyStill, HasBlob
  <2>4. GateInvariant'
    BY <1>14 DEF IndInv, configureStreams, ForgetRegistrations, gateVars, streamVars,
       requestVars, serviceVars, halVars, GateInvariant, FramesAreFresh, IntentIsTracked,
       IsLegacyStill, HasBlob, PastGate, TypeOK
  <2>5. RegistrationInvariant'
    BY <1>14 DEF IndInv, configureStreams, ForgetRegistrations, gateVars, streamVars,
       requestVars, serviceVars, halVars, RegistrationInvariant, TypeOK, Requests,
       BufferSets
  <2> QED BY <2>1, <2>2, <2>3, <2>4, <2>5 DEF IndInv
<1>15. ASSUME configureFails
      PROVE  IndInv'
  <2>1. TypeOK'
    <3>1. mLegacyStillCaptureInFlight' \in BOOLEAN /\ signalled' \in BOOLEAN
      BY <1>15 DEF IndInv, configureFails, NoBuffers, gateVars, streamVars, requestVars,
         serviceVars, halVars, TypeOK, Requests
    <3>2. request' \in Requests /\ buffers' \in RequestBuffers
      BY <1>15 DEF IndInv, configureFails, NoBuffers, gateVars, streamVars, requestVars,
         serviceVars, halVars, TypeOK
    <3>3. mCirculatingBuffers' \in BufferSets /\ halBuffers' \in BufferSets
      BY <1>15 DEF IndInv, configureFails, NoBuffers, gateVars, streamVars, requestVars,
         serviceVars, halVars, TypeOK, BufferSets
    <3> QED
      BY <3>1, <3>2, <3>3, <1>15 DEF IndInv, configureFails, NoBuffers, gateVars,
         streamVars, requestVars, serviceVars, halVars, TypeOK, Intents
  <2>2. FramesAreFresh'
    BY <1>15 DEF IndInv, configureFails, NoBuffers, gateVars, streamVars, requestVars,
       serviceVars, halVars, FramesAreFresh, TypeOK
  <2>3. IntentIsTracked'
    BY SessionAssumption, <1>15 DEF IndInv, configureFails, NoBuffers, gateVars, streamVars,
       requestVars, serviceVars, halVars, IntentIsTracked, TypeOK, Intents, Settings,
       PastGate, IsLegacyStill, HasBlob
  <2>4. GateInvariant'
    BY <1>15 DEF IndInv, configureFails, NoBuffers, gateVars, streamVars, requestVars,
       serviceVars, halVars, GateInvariant, FramesAreFresh, IntentIsTracked, IsLegacyStill,
       HasBlob, PastGate, TypeOK
  <2>5. RegistrationInvariant'
    BY <1>15 DEF IndInv, configureFails, NoBuffers, gateVars, streamVars, requestVars,
       serviceVars, halVars, RegistrationInvariant, TypeOK, Requests, BufferSets
  <2> QED BY <2>1, <2>2, <2>3, <2>4, <2>5 DEF IndInv
<1>16. ASSUME close
      PROVE  IndInv'
  <2>1. TypeOK'
    <3>1. mLegacyStillCaptureInFlight' \in BOOLEAN /\ signalled' \in BOOLEAN
      BY <1>16 DEF IndInv, close, OpenGate, Abandon, gateVars, streamVars, requestVars,
         serviceVars, halVars, TypeOK, Requests
    <3>2. request' \in Requests /\ buffers' \in RequestBuffers
      BY <1>16 DEF IndInv, close, OpenGate, Abandon, gateVars, streamVars, requestVars,
         serviceVars, halVars, TypeOK
    <3>3. mCirculatingBuffers' \in BufferSets /\ halBuffers' \in BufferSets
      BY <1>16 DEF IndInv, close, OpenGate, Abandon, gateVars, streamVars, requestVars,
         serviceVars, halVars, TypeOK
    <3> QED
      BY <3>1, <3>2, <3>3, <1>16 DEF IndInv, close, Abandon, gateVars, streamVars,
         requestVars, serviceVars, halVars, TypeOK, Intents
  <2>2. FramesAreFresh'
    BY <1>16 DEF IndInv, close, OpenGate, Abandon, gateVars, streamVars, requestVars,
       serviceVars, halVars, FramesAreFresh, TypeOK
  <2>3. IntentIsTracked'
    BY SessionAssumption, <1>16 DEF IndInv, close, OpenGate, Abandon, gateVars, streamVars,
       requestVars, serviceVars, halVars, IntentIsTracked, TypeOK, Intents, Settings,
       PastGate, IsLegacyStill, HasBlob
  <2>4. GateInvariant'
    BY <1>16 DEF IndInv, close, OpenGate, Abandon, gateVars, streamVars, requestVars,
       serviceVars, halVars, GateInvariant, FramesAreFresh, IntentIsTracked, IsLegacyStill,
       HasBlob, PastGate, TypeOK
  <2>5. RegistrationInvariant'
    BY <1>16 DEF IndInv, close, OpenGate, Abandon, gateVars, streamVars, requestVars,
       serviceVars, halVars, RegistrationInvariant, TypeOK, Requests, BufferSets
  <2> QED BY <2>1, <2>2, <2>3, <2>4, <2>5 DEF IndInv
<1>17. ASSUME open
      PROVE  IndInv'
  <2>1. TypeOK'
    <3>1. mLegacyStillCaptureInFlight' \in BOOLEAN /\ signalled' \in BOOLEAN
      BY <1>17 DEF IndInv, open, NoRequest, NoSettings, NoOutput, NoBuffers, gateVars,
         streamVars, requestVars, serviceVars, halVars, TypeOK, Requests
    <3>2. request' \in Requests /\ buffers' \in RequestBuffers
      BY NoRequestIsTyped, BuffersAreTyped, <1>17 DEF IndInv, open, NoSettings, NoBuffers,
         gateVars, streamVars, requestVars, serviceVars, halVars, TypeOK
    <3>3. mCirculatingBuffers' \in BufferSets /\ halBuffers' \in BufferSets
      BY <1>17 DEF IndInv, open, NoRequest, NoSettings, NoOutput, NoBuffers, gateVars,
         streamVars, requestVars, serviceVars, halVars, TypeOK, BufferSets
    <3> QED
      BY <3>1, <3>2, <3>3, <1>17 DEF IndInv, open, NoSettings, NoBuffers, gateVars,
         streamVars, requestVars, serviceVars, halVars, TypeOK, Intents
  <2>2. FramesAreFresh'
    BY <1>17 DEF IndInv, open, NoRequest, NoSettings, NoOutput, NoBuffers, gateVars,
       streamVars, requestVars, serviceVars, halVars, FramesAreFresh, TypeOK
  <2>3. IntentIsTracked'
    BY SessionAssumption, <1>17 DEF IndInv, open, NoRequest, NoSettings, NoOutput,
       NoBuffers, gateVars, streamVars, requestVars, serviceVars, halVars, IntentIsTracked,
       TypeOK, Intents, Settings, PastGate, IsLegacyStill, HasBlob
  <2>4. GateInvariant'
    BY <1>17 DEF IndInv, open, NoRequest, NoSettings, NoOutput, NoBuffers, gateVars,
       streamVars, requestVars, serviceVars, halVars, GateInvariant, FramesAreFresh,
       IntentIsTracked, IsLegacyStill, HasBlob, PastGate, TypeOK
  <2>5. RegistrationInvariant'
    BY <1>17 DEF IndInv, open, NoRequest, NoSettings, NoOutput, NoBuffers, gateVars,
       streamVars, requestVars, serviceVars, halVars, RegistrationInvariant, TypeOK,
       Requests, BufferSets
  <2> QED BY <2>1, <2>2, <2>3, <2>4, <2>5 DEF IndInv
<1>18. ASSUME UNCHANGED vars
      PROVE  IndInv'
  <2>1. TypeOK'
    <3>1. mLegacyStillCaptureInFlight' \in BOOLEAN /\ signalled' \in BOOLEAN
      BY <1>18 DEF IndInv, vars, gateVars, streamVars, requestVars, serviceVars, halVars,
         TypeOK, Requests
    <3>2. request' \in Requests /\ buffers' \in RequestBuffers
      BY <1>18 DEF IndInv, vars, gateVars, streamVars, requestVars, serviceVars, halVars,
         TypeOK
    <3>3. mCirculatingBuffers' \in BufferSets /\ halBuffers' \in BufferSets
      BY <1>18 DEF IndInv, vars, gateVars, streamVars, requestVars, serviceVars, halVars,
         TypeOK
    <3> QED
      BY <3>1, <3>2, <3>3, <1>18 DEF IndInv, vars, gateVars, streamVars, requestVars,
         serviceVars, halVars, TypeOK, Intents
  <2>2. FramesAreFresh'
    BY <1>18 DEF IndInv, vars, gateVars, streamVars, requestVars, serviceVars, halVars,
       FramesAreFresh, TypeOK
  <2>3. IntentIsTracked'
    BY SessionAssumption, <1>18 DEF IndInv, vars, gateVars, streamVars, requestVars,
       serviceVars, halVars, IntentIsTracked, TypeOK, Intents, Settings, PastGate,
       IsLegacyStill, HasBlob
  <2>4. GateInvariant'
    BY <1>18 DEF IndInv, vars, gateVars, streamVars, requestVars, serviceVars, halVars,
       GateInvariant, FramesAreFresh, IntentIsTracked, IsLegacyStill, HasBlob, PastGate,
       TypeOK
  <2>5. RegistrationInvariant'
    BY <1>18 DEF IndInv, vars, gateVars, streamVars, requestVars, serviceVars, halVars,
       RegistrationInvariant, TypeOK, Requests, BufferSets
  <2> QED BY <2>1, <2>2, <2>3, <2>4, <2>5 DEF IndInv
<1> QED
  BY <1>1, <1>2, <1>3, <1>4, <1>5, <1>6, <1>7, <1>8, <1>9, <1>10, <1>11, <1>12, <1>13,
     <1>14, <1>15, <1>16, <1>17, <1>18 DEF Next, RequestThread

\* The inductive invariant holds in every reachable state.
LEMMA Invariance == Spec => []IndInv
  BY InitIndInv, NextIndInv, PTL DEF Spec

\* The variables keep their types.
THEOREM TypeCorrect == Spec => []TypeOK
  BY Invariance, PTL DEF IndInv

\* Requests are serialised behind a still capture: what is past the gate meets no
\* JPEG pipeline in the HAL that the session has not given up on.
THEOREM StillsAreSerialized == Spec => []Serialized
<1>1. IndInv => Serialized
  BY DEF IndInv, TypeOK, FramesAreFresh, GateInvariant, Serialized, PastGate
<1> QED
  BY Invariance, <1>1, PTL

\* A request sleeps only behind a still that may come back.
THEOREM SleepsAreJustified == Spec => []SleepIsJustified
<1>1. IndInv => SleepIsJustified
  BY DEF IndInv, GateInvariant, SleepIsJustified, PastGate
<1> QED
  BY Invariance, <1>1, PTL

\* The HAL holds registered buffers for every stream of every request it gets,
\* although the session's record may be wrong after a failed configuration.
THEOREM StreamsKnown == Spec => []StreamsAreRegistered
<1>1. IndInv => StreamsAreRegistered
  BY DEF IndInv, TypeOK, Requests, RegistrationInvariant, StreamsAreRegistered
<1> QED
  BY Invariance, <1>1, PTL

\* No still is handed to the HAL with the vendor thumbnail on.
THEOREM NoThumbnail == Spec => NoThumbnailWorker
<1>1. IndInv /\ [Next]_vars => [\A f \in halStills' \ halStills : ~halSettings'.thumbnail]_vars
  <2> SUFFICES ASSUME IndInv, Next, NEW f \in halStills' \ halStills
               PROVE  ~halSettings'.thumbnail
    OBVIOUS
  <2>1. HalAccepts
    BY DEF Next, RequestThread, RequestArrives, WaitAtGate, PassGate, WaitTimesOut,
       FailBeforeRegistering, importRequest, registerLegacyBuffers, FailRegistering, HalRefuses,
       BlobReturned, ErrorNotified, flush, configureStreams, configureFails, close, open, halVars
  <2>2. IsLegacyStill(request.outputs, halSettings'.intent)
    BY <2>1 DEF HalAccepts
  <2> QED
    BY SessionAssumption, <2>1, <2>2 DEF IndInv, TypeOK, Requests, IntentIsTracked, HalAccepts, Thumbnail,
       IsLegacyStill, HasBlob, Intents
<1> QED
  BY Invariance, <1>1, PTL DEF Spec, NoThumbnailWorker

-----------------------------------------------------------------------------
(* The CameraMetadata objects of the blobs *)

\* Ownership without counting: nobody holds a freed buffer, no two hold the
\* same one, and somebody holds every buffer that is not freed.
Ownership ==
    /\ \A o \in live : buffer[o] # NULL => heap[buffer[o]] # Free /\ buffer[o] \notin client
    /\ \A o, p \in live : buffer[o] # NULL /\ buffer[o] = buffer[p] => o = p
    /\ \A n \in client : heap[n] # Free
    /\ \A n \in Addresses : heap[n] # Free => n \in client \/ \E o \in live : buffer[o] = n

MetadataInv == MetadataTypeOK /\ Ownership /\ UpdateFits

\* The entries of object o, and entries e after update() of tag t.
EntriesIn(o) == IF buffer[o] = NULL THEN NoEntries ELSE heap[buffer[o]].entries
Updated(e, t, size) == [u \in DOMAIN e \cup {t} |-> IF u = t THEN size ELSE e[u]]

\* resizeIfNeeded() computes a capacity that holds what is there and what comes.
LEMMA GrownMakesRoom ==
  ASSUME NEW count \in Int, NEW extra \in Nat, NEW capacity \in Nat
  PROVE  /\ Grown(count, extra, capacity) \in Nat
         /\ count + extra <= Grown(count, extra, capacity)
  BY DEF Grown

\* What a set of entries is: some of the tags, with sizes.
LEMMA EntriesAreTyped ==
  ASSUME NEW e \in Entries
  PROVE  DOMAIN e \subseteq Tags /\ \A t \in DOMAIN e : e[t] \in Sizes
<1>1. PICK S \in SUBSET Tags : e \in [S -> Sizes]
  BY DEF Entries
<1> QED
  BY <1>1

LEMMA UpdatedIsTyped ==
  ASSUME NEW e \in Entries, NEW t \in Tags, NEW size \in Sizes
  PROVE  Updated(e, t, size) \in Entries
<1>1. Updated(e, t, size) \in [DOMAIN e \cup {t} -> Sizes]
  BY EntriesAreTyped DEF Updated
<1>2. DOMAIN e \cup {t} \in SUBSET Tags
  BY EntriesAreTyped
<1> QED
  BY <1>1, <1>2 DEF Entries

\* A new buffer is empty.
LEMMA AllocatedIsEmpty ==
  ASSUME NEW entryCap \in Nat, NEW dataCap \in Nat
  PROVE  LET b == allocate_camera_metadata(entryCap, dataCap)
         IN  /\ b \in Buffers /\ b.entries = NoEntries
             /\ b.entryCount = 0 /\ b.dataCount = 0
             /\ b.entryCap = entryCap /\ b.dataCap = dataCap
<1>1. NoEntries \in [{} -> Sizes]
  BY DEF NoEntries
<1>2. NoEntries \in Entries
  BY <1>1 DEF Entries
<1> QED
  BY <1>2 DEF allocate_camera_metadata, Buffers

\* The library takes an entry for which there is room, and changes no other.
LEMMA EntryIsSet ==
  ASSUME NEW b \in Buffers, NEW t \in Tags, NEW size \in Sizes,
         b.entryCount + 1 <= b.entryCap, b.dataCount + size <= b.dataCap
  PROVE  /\ SetEntry(b, t, size) \in Buffers /\ SetEntry(b, t, size) # NULL
         /\ SetEntry(b, t, size).entries = Updated(b.entries, t, size)
<1> DEFINE known == t \in DOMAIN b.entries
           entryCount == IF known THEN b.entryCount ELSE b.entryCount + 1
           dataCount == b.dataCount + size - (IF known THEN b.entries[t] ELSE 0)
           c == [b EXCEPT !.entries = Updated(b.entries, t, size),
                          !.entryCount = entryCount, !.dataCount = dataCount]
<1>1. /\ b.entries \in Entries /\ b.entryCount \in Nat /\ b.dataCount \in Int
      /\ b.entryCap \in Nat /\ b.dataCap \in Nat /\ size \in Nat
  BY MetadataAssumption DEF Buffers
<1>2. known => b.entries[t] \in Nat
  BY <1>1, EntriesAreTyped, MetadataAssumption
<1> HIDE DEF known
<1>3. entryCount \in Nat /\ entryCount <= b.entryCap
  BY <1>1
<1>4. dataCount \in Int /\ dataCount <= b.dataCap
  BY <1>1, <1>2
<1>5. Updated(b.entries, t, size) \in Entries
  BY <1>1, UpdatedIsTyped
<1> HIDE DEF entryCount, dataCount
<1>6. c \in Buffers /\ c.entries = Updated(b.entries, t, size)
  BY <1>3, <1>4, <1>5 DEF Buffers
<1>7. SetEntry(b, t, size) = c
  BY <1>3, <1>4 DEF SetEntry, Updated, known, entryCount, dataCount
<1> QED
  BY <1>6, <1>7, MetadataAssumption

\* What resizeIfNeeded() leaves: nothing changed, or a buffer with the same
\* entries and room for one more, at a new address or where it was.
LEMMA ResizeOutcome ==
  ASSUME MetadataTypeOK, NEW o \in Objects, NEW size \in Sizes,
         buffer[o] # NULL => heap[buffer[o]] # Free,
         NEW r \in Resized(o, size)
  PROVE  \/ r.result = "NO_MEMORY"
         \/ /\ r.result = "OK" /\ r.buffer \in Buffers /\ r.buffer.entries = EntriesIn(o)
            /\ r.buffer.entryCount + 1 <= r.buffer.entryCap
            /\ r.buffer.dataCount + size <= r.buffer.dataCap
            /\ \/ r.at \in FreeAddresses /\ r.freed = buffer[o]
               \/ r.at = buffer[o] /\ buffer[o] # NULL /\ r.freed = NULL
<1> DEFINE old == heap[buffer[o]]
           entryCap == Grown(old.entryCount, 1, old.entryCap)
           dataCap == Grown(old.dataCount, size, old.dataCap)
           copy == Replacement(old, entryCap, dataCap)
<1>1. size \in Nat /\ size * 2 \in Nat /\ size <= size * 2
  <2>1. size \in Nat
    BY MetadataAssumption
  <2> QED
    BY <2>1
<1>2. CASE buffer[o] = NULL
  <2> DEFINE new == allocate_camera_metadata(2, size * 2)
  <2>1. \/ r.result = "NO_MEMORY"
        \/ /\ r.result = "OK" /\ r.at \in FreeAddresses /\ r.buffer = new /\ r.freed = NULL
    BY <1>2 DEF Resized
  <2>2. /\ new \in Buffers /\ new.entries = NoEntries /\ new.entryCount = 0 /\ new.dataCount = 0
        /\ new.entryCap = 2 /\ new.dataCap = size * 2
    BY <1>1, AllocatedIsEmpty
  <2> HIDE DEF new
  <2> QED
    BY <1>1, <1>2, <2>1, <2>2 DEF EntriesIn
<1>3. CASE buffer[o] # NULL
  <2>1. /\ old \in Buffers /\ old.entryCount \in Nat /\ old.dataCount \in Int
        /\ old.entryCap \in Nat /\ old.dataCap \in Nat
    <3>1. old \in Buffers
      BY <1>3 DEF MetadataTypeOK
    <3> QED
      BY <3>1 DEF Buffers
  <2>2. /\ entryCap \in Nat /\ old.entryCount + 1 <= entryCap
        /\ dataCap \in Nat /\ old.dataCount + size <= dataCap
    <3> HIDE DEF old
    <3>1. old.entryCount \in Int /\ 1 \in Nat
      BY <2>1
    <3>2. entryCap \in Nat /\ old.entryCount + 1 <= entryCap
      BY <2>1, <3>1, GrownMakesRoom
    <3>3. dataCap \in Nat /\ old.dataCount + size <= dataCap
      BY <1>1, <2>1, GrownMakesRoom
    <3> QED
      BY <3>2, <3>3
  <2>3. /\ \/ r.result = "NO_MEMORY"
           \/ copy = NULL
           \/ /\ entryCap = old.entryCap /\ dataCap = old.dataCap
              /\ r.result = "OK" /\ r.at = buffer[o] /\ r.buffer = old /\ r.freed = NULL
           \/ r.result = "OK" /\ r.at \in FreeAddresses /\ r.buffer = copy /\ r.freed = buffer[o]
    BY <1>3 DEF Resized
  <2> HIDE DEF entryCap, dataCap
  <2>4. /\ copy \in Buffers /\ copy.entries = old.entries
        /\ copy.entryCount = old.entryCount /\ copy.dataCount = old.dataCount
        /\ copy.entryCap = entryCap /\ copy.dataCap = dataCap
    <3> DEFINE new == allocate_camera_metadata(entryCap, dataCap)
    <3>1. new.entryCap = entryCap /\ new.dataCap = dataCap
      BY <2>2, AllocatedIsEmpty
    <3> HIDE DEF new
    <3>2. old.entryCount <= entryCap /\ old.dataCount <= dataCap
      BY <1>1, <2>1, <2>2
    <3>3. copy = [old EXCEPT !.entryCap = entryCap, !.dataCap = dataCap]
      BY <3>1, <3>2 DEF Replacement, append_camera_metadata, new
    <3> HIDE DEF old, copy
    <3> QED
      BY <2>1, <2>2, <3>3 DEF Buffers
  <2>5. copy # NULL
    BY <2>4, MetadataAssumption
  <2>6. EntriesIn(o) = old.entries
    BY <1>3 DEF EntriesIn
  <2> HIDE DEF old, copy
  <2> QED
    BY <1>3, <2>1, <2>2, <2>3, <2>4, <2>5, <2>6
<1> QED
  BY <1>2, <1>3

\* update() as its callers see it: it runs out of memory and changes nothing,
\* or the object has a buffer, old or new, with the entry set; the
\* library refuses nothing.
LEMMA UpdateEffect ==
  ASSUME MetadataInv, NEW o \in Objects, NEW t \in Tags, NEW size \in Sizes,
         NEW src \in Sources, Update(o, t, size, src)
  PROVE  \/ result' = "NO_MEMORY" /\ UNCHANGED <<heap, buffer>>
         \/ /\ result' = "OK"
            /\ \E n \in Addresses, b \in Buffers :
                  /\ n = buffer[o] \/ heap[n] = Free
                  /\ b.entries = Updated(EntriesIn(o), t, size)
                  /\ buffer' = [buffer EXCEPT ![o] = n]
                  /\ heap' = [k \in Addresses |-> IF k = n THEN b
                                                  ELSE IF k = buffer[o] THEN Free ELSE heap[k]]
<1> DEFINE After(r) == [n \in Addresses |-> IF n = r.freed THEN Free ELSE heap[n]]
           set(r) == SetEntry(r.buffer, t, size)
<1>1. MetadataTypeOK /\ (buffer[o] # NULL => heap[buffer[o]] # Free)
  BY DEF MetadataInv, Ownership, Update
<1>2. PICK r \in Resized(o, size) :
         \/ r.result # "OK" /\ Answer(r.result) /\ UNCHANGED <<heap, buffer>>
         \/ /\ r.result = "OK"
            /\ buffer' = [buffer EXCEPT ![o] = r.at]
            /\ heap' = [After(r) EXCEPT ![r.at] = IF set(r) = NULL THEN r.buffer ELSE set(r)]
            /\ result' = IF set(r) = NULL THEN "ERROR" ELSE "OK"
  BY DEF Update, Answer
<1>3. \/ r.result = "NO_MEMORY"
      \/ /\ r.result = "OK" /\ r.buffer \in Buffers /\ r.buffer.entries = EntriesIn(o)
         /\ r.buffer.entryCount + 1 <= r.buffer.entryCap
         /\ r.buffer.dataCount + size <= r.buffer.dataCap
         /\ \/ r.at \in FreeAddresses /\ r.freed = buffer[o]
            \/ r.at = buffer[o] /\ buffer[o] # NULL /\ r.freed = NULL
  BY <1>1, ResizeOutcome
<1>4. CASE r.result = "NO_MEMORY"
  BY <1>2, <1>4 DEF Answer
<1>5. CASE r.result = "OK"
  <2>1. /\ set(r) \in Buffers /\ set(r) # NULL
        /\ set(r).entries = Updated(EntriesIn(o), t, size)
    BY <1>3, <1>5, EntryIsSet
  <2>2. /\ buffer' = [buffer EXCEPT ![o] = r.at] /\ result' = "OK"
        /\ heap' = [After(r) EXCEPT ![r.at] = set(r)]
    BY <1>2, <1>5, <2>1
  <2> HIDE DEF set
  <2>3. /\ r.at \in Addresses /\ (r.at = buffer[o] \/ heap[r.at] = Free)
        /\ r.freed \in {NULL, buffer[o]} /\ (r.freed = NULL => buffer[o] \in {NULL, r.at})
    BY <1>1, <1>3, <1>5 DEF MetadataTypeOK, FreeAddresses
  <2>5. heap' = [k \in Addresses |-> IF k = r.at THEN set(r)
                                     ELSE IF k = buffer[o] THEN Free ELSE heap[k]]
    <3>1. NULL \notin Addresses
      BY MetadataAssumption
    <3> QED
      BY <2>2, <2>3, <3>1
  <2> HIDE DEF After
  <2> QED
    BY <2>1, <2>2, <2>3, <2>5
<1> QED
  BY <1>3, <1>4, <1>5

\* No object is constructed and no buffer allocated at first.
LEMMA MetadataInitInv == MetadataInit => MetadataInv
<1> SUFFICES ASSUME MetadataInit PROVE MetadataInv
  OBVIOUS
<1>1. MetadataTypeOK
  BY DEF MetadataInit, MetadataTypeOK
<1>2. Ownership
  BY DEF MetadataInit, Ownership
<1>3. UpdateFits
  BY DEF MetadataInit, UpdateFits
<1> QED
  BY <1>1, <1>2, <1>3 DEF MetadataInv

\* Every call of a blob preserves the invariant.
LEMMA MetadataStep == MetadataInv /\ [MetadataNext]_metadataVars => MetadataInv'
<1> SUFFICES ASSUME MetadataInv, [MetadataNext]_metadataVars PROVE MetadataInv'
  OBVIOUS
<1> USE DEF MetadataInv
<1>1. ASSUME NEW o \in Objects, NEW t \in Tags \cup {UnknownTag}, NEW src \in Sources,
             UpdateRefused(o, t, src)
      PROVE  MetadataInv'
  <2>1. MetadataTypeOK' /\ UpdateFits'
    BY <1>1 DEF UpdateRefused, Answer, MetadataTypeOK, UpdateFits
  <2>2. Ownership'
    BY <1>1 DEF UpdateRefused, Ownership
  <2> QED
    BY <2>1, <2>2
<1>2. ASSUME NEW o \in Objects, NEW t \in Tags, NEW size \in Sizes, NEW src \in Sources,
             Update(o, t, size, src)
      PROVE  MetadataInv'
  <2>1. o \in live /\ UNCHANGED <<live, locked, client>>
    BY <1>2, UpdateEffect DEF Update
  <2>2. CASE result' = "NO_MEMORY" /\ UNCHANGED <<heap, buffer>>
    <3>1. MetadataTypeOK' /\ UpdateFits'
      BY <2>1, <2>2 DEF MetadataTypeOK, UpdateFits
    <3>2. Ownership'
      BY <2>1, <2>2 DEF Ownership
    <3> QED
      BY <3>1, <3>2
  <2>3. ASSUME NEW n \in Addresses, NEW b \in Buffers, result' = "OK",
               n = buffer[o] \/ heap[n] = Free,
               buffer' = [buffer EXCEPT ![o] = n],
               heap' = [k \in Addresses |-> IF k = n THEN b
                                            ELSE IF k = buffer[o] THEN Free ELSE heap[k]]
        PROVE  MetadataInv'
    <3>1. MetadataTypeOK' /\ UpdateFits'
      BY <2>1, <2>3 DEF MetadataTypeOK, UpdateFits
    <3>2. b # Free /\ n # NULL
      BY MetadataAssumption
    <3>3. Ownership'
      <4>1. n \notin client /\ \A p \in live : buffer[p] = n => p = o
        BY <2>1, <2>3, <3>2 DEF Ownership
      <4>2. buffer'[o] = n /\ \A p \in live : p # o => buffer'[p] = buffer[p]
        BY <2>3 DEF MetadataTypeOK
      <4>3. heap'[n] = b /\ \A k \in Addresses : k # n /\ k # buffer[o] => heap'[k] = heap[k]
        BY <2>3
      <4>4. \A k \in client : k \in Addresses /\ k # n /\ k # buffer[o]
        BY <2>1, <3>2, <4>1, MetadataAssumption DEF Ownership, MetadataTypeOK
      <4>5. \A p \in live : p # o /\ buffer[p] # NULL =>
               buffer[p] \in Addresses /\ buffer[p] # n /\ buffer[p] # buffer[o]
        BY <2>1, <4>1 DEF Ownership, MetadataTypeOK
      <4>6. \A k \in Addresses : heap'[k] # Free => k = n \/ (k # buffer[o] /\ heap[k] # Free)
        BY <2>3
      <4> QED
        BY <2>1, <3>2, <4>1, <4>2, <4>3, <4>4, <4>5, <4>6 DEF Ownership
    <3> QED
      BY <3>1, <3>3
  <2> QED
    BY <1>2, <2>2, <2>3, UpdateEffect
<1>3. ASSUME NEW o \in Objects, Ctor(o)
      PROVE  MetadataInv'
  <2>1. MetadataTypeOK' /\ UpdateFits'
    BY <1>3 DEF Ctor, Answer, MetadataTypeOK, UpdateFits
  <2>2. Ownership'
    BY <1>3 DEF Ctor, Ownership, MetadataTypeOK
  <2> QED
    BY <2>1, <2>2
<1>4. ASSUME NEW o \in Objects, Clear(o)
      PROVE  MetadataInv'
  <2>1. MetadataTypeOK' /\ UpdateFits'
    BY <1>4 DEF Clear, Freed, MayClear, Answer, MetadataTypeOK, UpdateFits
  <2>2. Ownership'
    BY <1>4, MetadataAssumption DEF Clear, Freed, MayClear, Ownership, MetadataTypeOK
  <2> QED
    BY <2>1, <2>2
<1>5. ASSUME NEW o \in Objects, Dtor(o)
      PROVE  MetadataInv'
  <2>1. MetadataTypeOK' /\ UpdateFits'
    BY <1>5 DEF Dtor, Freed, MayClear, Answer, MetadataTypeOK, UpdateFits
  <2>2. Ownership'
    BY <1>5, MetadataAssumption DEF Dtor, Freed, MayClear, Ownership, MetadataTypeOK
  <2> QED
    BY <2>1, <2>2
<1>6. ASSUME NEW o \in Objects, Release(o)
      PROVE  MetadataInv'
  <2>1. MetadataTypeOK' /\ UpdateFits'
    <3>1. client' \subseteq Addresses /\ buffer' \in [Objects -> Addresses \cup {NULL}]
      BY <1>6 DEF Release, AfterRelease, MetadataTypeOK
    <3> QED
      BY <1>6, <3>1 DEF Release, Answer, MetadataTypeOK, UpdateFits
  <2>2. Ownership'
    BY <1>6, MetadataAssumption DEF Release, AfterRelease, Ownership, MetadataTypeOK
  <2> QED
    BY <2>1, <2>2
<1>7. ASSUME NEW o \in Objects, GetAndLock(o)
      PROVE  MetadataInv'
  <2>1. MetadataTypeOK' /\ UpdateFits'
    BY <1>7 DEF GetAndLock, Answer, MetadataTypeOK, UpdateFits
  <2>2. Ownership'
    BY <1>7 DEF GetAndLock, Ownership
  <2> QED
    BY <2>1, <2>2
<1>8. ASSUME NEW o \in Objects, NEW n \in Addresses \cup {NULL}, Acquire(o, n)
      PROVE  MetadataInv'
  <2>1. MetadataTypeOK' /\ UpdateFits'
    BY <1>8 DEF Acquire, Freed, MayClear, Answer, MetadataTypeOK, UpdateFits
  <2>2. Ownership'
    BY <1>8, MetadataAssumption DEF Acquire, Freed, MayClear, Ownership, MetadataTypeOK
  <2> QED
    BY <2>1, <2>2
<1>9. ASSUME NEW o \in Objects, NEW n \in Addresses \cup {NULL}, Unlock(o, n)
      PROVE  MetadataInv'
  <2>1. MetadataTypeOK' /\ UpdateFits'
    BY <1>9 DEF Unlock, Answer, MetadataTypeOK, UpdateFits
  <2>2. Ownership'
    BY <1>9 DEF Unlock, Ownership
  <2> QED
    BY <2>1, <2>2
<1>10. ASSUME NEW o \in Objects, NEW t \in Tags, Find(o, t)
       PROVE  MetadataInv'
  <2>1. MetadataTypeOK' /\ UpdateFits'
    BY <1>10 DEF Find, Answer, MetadataTypeOK, UpdateFits
  <2>2. Ownership'
    BY <1>10 DEF Find, Ownership
  <2> QED
    BY <2>1, <2>2
<1>11. ASSUME NEW e \in ClientCaps, NEW d \in ClientCaps, ClientAllocates(e, d)
       PROVE  MetadataInv'
  <2> DEFINE new == allocate_camera_metadata(e, d)
  <2>1. new \in Buffers /\ new # Free
    BY AllocatedIsEmpty, MetadataAssumption
  <2>2. /\ UNCHANGED <<live, buffer, locked>> /\ result' = "OK"
        /\ \E n \in Addresses : /\ heap[n] = Free /\ heap' = [heap EXCEPT ![n] = new]
                                /\ client' = client \cup {n}
    BY <1>11 DEF ClientAllocates, Answer, FreeAddresses
  <2> HIDE DEF new
  <2>3. MetadataTypeOK' /\ UpdateFits'
    BY <2>1, <2>2 DEF MetadataTypeOK, UpdateFits
  <2>4. Ownership'
    BY <2>1, <2>2 DEF Ownership, MetadataTypeOK
  <2> QED
    BY <2>3, <2>4
<1>12. ASSUME NEW n \in Addresses, ClientFrees(n)
       PROVE  MetadataInv'
  <2>1. MetadataTypeOK' /\ UpdateFits'
    BY <1>12 DEF ClientFrees, Answer, MetadataTypeOK, UpdateFits
  <2>2. Ownership'
    BY <1>12, MetadataAssumption DEF ClientFrees, Ownership, MetadataTypeOK
  <2> QED
    BY <2>1, <2>2
<1>13. ASSUME UNCHANGED metadataVars
       PROVE  MetadataInv'
  <2>1. MetadataTypeOK' /\ UpdateFits'
    BY <1>13 DEF metadataVars, MetadataTypeOK, UpdateFits
  <2>2. Ownership'
    BY <1>13 DEF metadataVars, Ownership
  <2> QED
    BY <2>1, <2>2
<1> HIDE DEF MetadataInv
<1> QED
  BY <1>1, <1>2, <1>3, <1>4, <1>5, <1>6, <1>7, <1>8, <1>9, <1>10, <1>11, <1>12, <1>13 DEF
     MetadataNext

\* Types, ownership, room and reads are invariants of every sequence of calls.
LEMMA MetadataInvariance == MetadataSpec => []MetadataInv
<1>1. MetadataInit => MetadataInv
  BY MetadataInitInv
<1>2. MetadataInv /\ [MetadataNext]_metadataVars => MetadataInv'
  BY MetadataStep
<1> QED
  BY <1>1, <1>2, PTL DEF MetadataSpec

\* Ownership counts to one: the invariant gives the property the run checks.
LEMMA OwnershipMeansOneOwner == MetadataInv => OneOwner
<1> DEFINE Counted(n) == Cardinality(Owners(n)) + (IF n \in client THEN 1 ELSE 0) =
                            IF heap[n] = Free THEN 0 ELSE 1
<1>0. OneOwner = \A n \in Addresses : Counted(n)
  BY DEF OneOwner, Cardinality, Cardinality
<1> SUFFICES ASSUME MetadataInv, NEW n \in Addresses
             PROVE  Counted(n)
  <2> HIDE DEF Counted
  <2> QED
    BY <1>0
<1>1. n # NULL
  BY MetadataAssumption
<1>2. CASE Owners(n) = {}
  <2>1. Cardinality(Owners(n)) = 0
    BY <1>2, FS_EmptySet
  <2>2. n \in client <=> heap[n] # Free
    BY <1>2 DEF MetadataInv, Ownership, Owners
  <2> QED
    BY <2>1, <2>2
<1>3. ASSUME NEW o \in Owners(n)
      PROVE  Counted(n)
  <2>1. o \in live /\ buffer[o] = n
    BY <1>3 DEF Owners
  <2>2. Owners(n) = {o}
    BY <1>1, <2>1 DEF MetadataInv, Ownership, Owners
  <2>3. Cardinality(Owners(n)) = 1
    BY <2>2, FS_Singleton
  <2>4. n \notin client /\ heap[n] # Free
    BY <1>1, <2>1 DEF MetadataInv, Ownership
  <2> QED
    BY <2>3, <2>4
<1> QED
  BY <1>2, <1>3

\* The variables of the metadata object keep their types.
THEOREM MetadataTypeCorrect == MetadataSpec => []MetadataTypeOK
<1>1. MetadataInv => MetadataTypeOK
  BY DEF MetadataInv
<1> QED
  BY <1>1, MetadataInvariance, PTL

\* Every camera_metadata buffer has exactly one owner, object or blob, through
\* any sequence of release(), acquire(), clear(), resizes and failed
\* allocations: no leak, no double free and no pointer to a freed buffer.
THEOREM BuffersHaveOneOwner == MetadataSpec => []OneOwner
<1>1. MetadataInv => OneOwner
  BY OwnershipMeansOneOwner
<1> QED
  BY <1>1, MetadataInvariance, PTL

\* resizeIfNeeded() makes room for every entry that update() adds: neither the
\* copy to the larger buffer nor the entry is ever refused.
THEOREM UpdatesAlwaysFit == MetadataSpec => []UpdateFits
<1>1. MetadataInv => UpdateFits
  BY DEF MetadataInv
<1> QED
  BY <1>1, MetadataInvariance, PTL

\* The step formula of UpdateKeepsOthers.
KeepsOthers(o, t, size) ==
    LET before == IF buffer[o] = NULL THEN NoEntries ELSE heap[buffer[o]].entries
        after == IF buffer'[o] = NULL THEN NoEntries ELSE heap'[buffer'[o]].entries
        kept == DOMAIN before \ (IF result' = "OK" THEN {t} ELSE {})
    IN  /\ \A u \in kept : u \in DOMAIN after /\ after[u] = before[u]
        /\ result' = "OK" => after[t] = size
        /\ DOMAIN after \subseteq DOMAIN before \cup {t}

LEMMA UpdateStepKeepsOthers ==
  ASSUME MetadataInv, NEW o \in Objects, NEW t \in Tags, NEW size \in Sizes,
         NEW src \in Sources, Update(o, t, size, src)
  PROVE  KeepsOthers(o, t, size)
<1> DEFINE before == EntriesIn(o)
           after == IF buffer'[o] = NULL THEN NoEntries ELSE heap'[buffer'[o]].entries
<1>2. CASE result' = "NO_MEMORY" /\ UNCHANGED <<heap, buffer>>
  <2>1. after = before
    BY <1>2 DEF EntriesIn
  <2> QED
    BY <1>2, <2>1 DEF KeepsOthers, EntriesIn
<1>3. ASSUME result' = "OK", NEW n \in Addresses, NEW b \in Buffers,
             b.entries = Updated(before, t, size),
             buffer' = [buffer EXCEPT ![o] = n], heap'[n] = b
      PROVE  KeepsOthers(o, t, size)
  <2>1. n # NULL
    BY MetadataAssumption
  <2>2. buffer'[o] = n
    BY <1>3 DEF MetadataInv, MetadataTypeOK
  <2>3. after = Updated(before, t, size)
    BY <1>3, <2>1, <2>2
  <2>4. /\ DOMAIN after = DOMAIN before \cup {t} /\ after[t] = size
        /\ \A u \in DOMAIN before \ {t} : after[u] = before[u]
    <3> HIDE DEF before, after
    <3> QED
      BY <2>3 DEF Updated
  <2>5. KeepsOthers(o, t, size) =
           (/\ \A u \in DOMAIN before \ (IF result' = "OK" THEN {t} ELSE {}) :
                  u \in DOMAIN after /\ after[u] = before[u]
            /\ result' = "OK" => after[t] = size
            /\ DOMAIN after \subseteq DOMAIN before \cup {t})
    BY DEF KeepsOthers, EntriesIn
  <2> HIDE DEF before, after
  <2> QED
    BY <1>3, <2>4, <2>5
<1> QED
  <2>1. \/ result' = "NO_MEMORY" /\ UNCHANGED <<heap, buffer>>
        \/ /\ result' = "OK"
           /\ \E n \in Addresses, b \in Buffers :
                 /\ b.entries = Updated(before, t, size)
                 /\ buffer' = [buffer EXCEPT ![o] = n] /\ heap'[n] = b
    BY UpdateEffect
  <2> QED
    BY <1>2, <1>3, <2>1

\* update() touches the entry of its own tag only, also when the buffer is
\* replaced by a larger one, and leaves all entries as they were when memory
\* runs out.
THEOREM UpdatesKeepOthers == MetadataSpec => UpdateKeepsOthers
<1> DEFINE Kept == \A o \in Objects, t \in Tags, size \in Sizes, src \in Sources :
                      Update(o, t, size, src) => KeepsOthers(o, t, size)
<1>1. MetadataInv /\ [MetadataNext]_metadataVars => [Kept]_metadataVars
  BY UpdateStepKeepsOthers
<1>2. UpdateKeepsOthers <=> [][Kept]_metadataVars
  BY DEF UpdateKeepsOthers, KeepsOthers
<1> HIDE DEF Kept
<1> QED
  BY <1>1, <1>2, MetadataInvariance, PTL DEF MetadataSpec

\* The step formula of LockedIsFrozen.
Frozen == \A o \in live \cap live' : locked[o] /\ buffer[o] # NULL =>
             buffer'[o] = buffer[o] /\ heap'[buffer[o]] = heap[buffer[o]]

\* No call changes the buffer of a locked object: the object's own methods
\* return early, and no other object and no blob holds the buffer.
LEMMA StepKeepsLocked == MetadataInv /\ [MetadataNext]_metadataVars => Frozen
<1> SUFFICES ASSUME MetadataInv, [MetadataNext]_metadataVars,
                    NEW p \in live \cap live', locked[p], buffer[p] # NULL
             PROVE  buffer'[p] = buffer[p] /\ heap'[buffer[p]] = heap[buffer[p]]
  BY DEF Frozen
<1>1. /\ p \in Objects /\ buffer[p] \in Addresses /\ buffer[p] \notin client
      /\ heap[buffer[p]] # Free /\ \A o \in live : buffer[o] = buffer[p] => o = p
  BY DEF MetadataInv, Ownership, MetadataTypeOK
<1>2. heap \in [Addresses -> Buffers \cup {Free}] /\ buffer \in [Objects -> Addresses \cup {NULL}]
  BY DEF MetadataInv, MetadataTypeOK
<1> DEFINE Same == buffer'[p] = buffer[p] /\ heap'[buffer[p]] = heap[buffer[p]]
<1>3. ASSUME UNCHANGED <<heap, buffer>>
      PROVE  Same
  BY <1>3
<1>4. ASSUME NEW o \in Objects, NEW t \in Tags, NEW size \in Sizes, NEW src \in Sources,
             Update(o, t, size, src)
      PROVE  Same
  <2>1. o \in live /\ o # p
    BY <1>4 DEF Update
  <2>2. ASSUME NEW n \in Addresses, NEW b \in Buffers, n = buffer[o] \/ heap[n] = Free,
               buffer' = [buffer EXCEPT ![o] = n],
               heap' = [k \in Addresses |-> IF k = n THEN b
                                            ELSE IF k = buffer[o] THEN Free ELSE heap[k]]
        PROVE  Same
    BY <1>1, <1>2, <2>1, <2>2
  <2> HIDE DEF Same
  <2> QED
    BY <1>3, <1>4, <2>2, UpdateEffect
<1>5. ASSUME NEW o \in Objects, Ctor(o)
      PROVE  Same
  BY <1>1, <1>2, <1>5 DEF Ctor
<1>6. ASSUME NEW o \in Objects, Clear(o)
      PROVE  Same
  BY <1>1, <1>2, <1>6 DEF Clear, Freed, MayClear
<1>7. ASSUME NEW o \in Objects, Dtor(o)
      PROVE  Same
  <2>1. o \in live /\ o # p
    BY <1>7 DEF Dtor
  <2> QED
    BY <1>1, <1>2, <1>7, <2>1 DEF Dtor, Freed, MayClear
<1>8. ASSUME NEW o \in Objects, Release(o)
      PROVE  Same
  BY <1>1, <1>2, <1>8 DEF Release
<1>9. ASSUME NEW o \in Objects, NEW n \in Addresses \cup {NULL}, Acquire(o, n)
      PROVE  Same
  BY <1>1, <1>2, <1>9 DEF Acquire, Freed, MayClear
<1>10. ASSUME NEW e \in ClientCaps, NEW d \in ClientCaps, ClientAllocates(e, d)
       PROVE  Same
  BY <1>1, <1>2, <1>10 DEF ClientAllocates, FreeAddresses
<1>11. ASSUME NEW n \in Addresses, ClientFrees(n)
       PROVE  Same
  BY <1>1, <1>2, <1>11 DEF ClientFrees
<1>12. ASSUME NEW o \in Objects, NEW t \in Tags \cup {UnknownTag}, NEW src \in Sources,
              UpdateRefused(o, t, src)
       PROVE  Same
  BY <1>3, <1>12 DEF UpdateRefused
<1>13. ASSUME NEW o \in Objects, GetAndLock(o)
       PROVE  Same
  BY <1>3, <1>13 DEF GetAndLock
<1>14. ASSUME NEW o \in Objects, NEW n \in Addresses \cup {NULL}, Unlock(o, n)
       PROVE  Same
  BY <1>3, <1>14 DEF Unlock
<1>15. ASSUME NEW o \in Objects, NEW t \in Tags, Find(o, t)
       PROVE  Same
  BY <1>3, <1>15 DEF Find
<1>16. ASSUME UNCHANGED metadataVars
       PROVE  Same
  BY <1>3, <1>16 DEF metadataVars
<1> HIDE DEF Same
<1>17. Same
  BY <1>4, <1>5, <1>6, <1>7, <1>8, <1>9, <1>10, <1>11, <1>12, <1>13, <1>14, <1>15, <1>16 DEF
     MetadataNext
<1> QED
  BY <1>17 DEF Same

\* While a blob holds the pointer that getAndLock() returned, the buffer stays
\* where it is and as it is until unlock() or the destructor, whatever is done
\* to this object and to the others.
THEOREM LockedBuffersAreFrozen == MetadataSpec => LockedIsFrozen
<1>1. MetadataInv /\ [MetadataNext]_metadataVars => [Frozen]_metadataVars
  BY StepKeepsLocked
<1>2. LockedIsFrozen <=> [][Frozen]_metadataVars
  BY DEF LockedIsFrozen, Frozen
<1> QED
  BY <1>1, <1>2, MetadataInvariance, PTL DEF MetadataSpec
=============================================================================

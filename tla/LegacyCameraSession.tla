------------------------- MODULE LegacyCameraSession -------------------------
(***************************************************************************)
(* The HIDL camera session on top of Huawei's Android 6 HAL 3.0, as        *)
(* patches/hardware/interfaces/legacy-huawei-camera-hal.patch makes it.    *)
(* The old HAL tears down a JPEG pipeline when the next request arrives,   *)
(* so the session keeps every request behind a gate while a still capture  *)
(* is under way.  The gate is opened by the callback that returns the      *)
(* JPEG, by an error message, by a failure of the request itself, by       *)
(* flush() and close(), and by a waiting request after five seconds.       *)
(*                                                                         *)
(* Requests come from one thread of the camera service; callbacks,         *)
(* flush() and close() come from others at any time.  The HAL and the      *)
(* camera service are external: the HAL answers when it likes or never,    *)
(* the service leaves the settings out (null) only when it repeats the     *)
(* outputs of the last accepted request of the same configuration, and it  *)
(* drains the requests before it reconfigures.                             *)
(***************************************************************************)
EXTENDS Integers, FiniteSets

CONSTANTS Streams,      \* streams the service may configure
          BlobStreams,  \* those of them in HAL_PIXEL_FORMAT_BLOB
          BufferIds,    \* ids of the buffers of a stream
          MaxFrame,     \* bound: frame numbers of a session
          NONE

ASSUME SessionAssumption ==
    /\ BlobStreams \subseteq Streams
    /\ MaxFrame \in Nat
    /\ \A s \in SUBSET Streams : s # NONE

VARIABLES
    mLegacyStillCaptureInFlight,  \* the gate is closed
    mLegacyStillCaptureFrame,     \* for this frame
    mLegacyLastCaptureIntent,
    mLegacyRegisteredStreams,
    mStreamMap,       \* the configured streams
    mCirculatingBuffers,  \* the buffers imported so far for each stream
    pc,               \* where processOneCaptureRequest is
    request,          \* its request, with what it found out about it
    buffers,          \* the buffer it brings for each of its output streams
    signalled,        \* mLegacyCaptureDone was broadcast since it began to wait
    service,          \* what the service may ask: a configuration, requests, nothing
    nextFrame,        \* its next frame number
    prev,             \* outputs of the last accepted request, or NONE
    halSettings,      \* HAL: the settings in force
    halBuffers,       \* HAL: the buffers registered for each stream
    halBlobs,         \* HAL: frames with a BLOB buffer not yet returned
    halStills,        \* HAL: those of them it treats as still captures
    abandoned         \* history: stills the session stopped waiting for before they came

gateVars == <<mLegacyStillCaptureInFlight, mLegacyStillCaptureFrame>>
streamVars == <<mStreamMap, mLegacyRegisteredStreams, halBuffers>>
requestVars == <<request, buffers, mCirculatingBuffers>>
halVars == <<halSettings, halBlobs, halStills>>
serviceVars == <<service, nextFrame, prev>>
vars == <<gateVars, mLegacyLastCaptureIntent, streamVars, pc, requestVars, signalled,
          serviceVars, halVars, abandoned>>

Intents == {"preview", "still"}
\* The settings of a request: none, some without a capture intent, or an intent.
Settings == Intents \cup {"null", "noIntent"}
NoRequest == [frame |-> 0, outputs |-> {}, settings |-> "null", intent |-> "preview",
              still |-> FALSE]
NoOutput == [s \in {} |-> NONE]
NoBuffers == [s \in Streams |-> {}]
NoSettings == [intent |-> "preview", thumbnail |-> TRUE]

Init ==
    /\ mLegacyStillCaptureInFlight = FALSE
    /\ mLegacyStillCaptureFrame = 0
    /\ mLegacyLastCaptureIntent = "preview"
    /\ mLegacyRegisteredStreams = {}
    /\ mStreamMap = {}
    /\ pc = "idle"
    /\ request = NoRequest
    /\ buffers = NoOutput
    /\ mCirculatingBuffers = NoBuffers
    /\ signalled = FALSE
    /\ service = "unconfigured"
    /\ nextFrame = 0
    /\ prev = NONE
    /\ halSettings = NoSettings
    /\ halBuffers = NoBuffers
    /\ halBlobs = {}
    /\ halStills = {}
    /\ abandoned = {}

HasBlob(outputs) == outputs \cap BlobStreams # {}

\* Past the gate and not yet answered.
PastGate == pc \in {"import", "register", "submit"}

-----------------------------------------------------------------------------
\* The gate

\* "mLegacyStillCaptureInFlight = false; mLegacyCaptureDone.broadcast()"
OpenGate == mLegacyStillCaptureInFlight' = FALSE /\ signalled' = (pc = "waiting")

\* The still the gate was closed for, if any, is no longer waited for.
Abandon == abandoned' = IF mLegacyStillCaptureInFlight
                        THEN abandoned \cup {mLegacyStillCaptureFrame} ELSE abandoned

\* The part behind the wait: the intent is remembered, and a still closes the
\* gate for the requests after it.
EnterGate ==
    /\ mLegacyLastCaptureIntent' = request.intent
    /\ mLegacyStillCaptureInFlight' = request.still
    /\ mLegacyStillCaptureFrame' = IF request.still THEN request.frame
                                   ELSE mLegacyStillCaptureFrame
    /\ pc' = "import" /\ signalled' = FALSE

-----------------------------------------------------------------------------
\* processOneCaptureRequest

\* The intent of the settings, if there is one in them, or else that of the last
\* request.
CaptureIntent(settings) ==
    IF settings \in Intents THEN settings ELSE mLegacyLastCaptureIntent

\* "hasBlobOutput && captureIntent == ..._STILL_CAPTURE"
IsLegacyStill(outputs, intent) == HasBlob(outputs) /\ intent = "still"

\* The service sends a request; settings are null when it repeats the last one.
RequestArrives(outputs, settings) ==
    /\ pc = "idle" /\ service = "ready" /\ nextFrame <= MaxFrame
    /\ outputs \subseteq mStreamMap
    /\ settings = "null" => prev = outputs
    /\ LET intent == CaptureIntent(settings)
       IN  request' = [frame |-> nextFrame, outputs |-> outputs, settings |-> settings,
                       intent |-> intent, still |-> IsLegacyStill(outputs, intent)]
    /\ buffers' \in [outputs -> BufferIds]
    /\ nextFrame' = nextFrame + 1
    /\ pc' = "gate"
    /\ UNCHANGED <<gateVars, mLegacyLastCaptureIntent, streamVars, mCirculatingBuffers,
                   signalled, service, prev, halVars, abandoned>>

\* The gate is closed: wait on mLegacyCaptureDone.
WaitAtGate ==
    /\ pc = "gate" \/ (pc = "waiting" /\ signalled)
    /\ mLegacyStillCaptureInFlight
    /\ pc' = "waiting" /\ signalled' = FALSE
    /\ UNCHANGED <<gateVars, mLegacyLastCaptureIntent, streamVars, requestVars, serviceVars,
                   halVars, abandoned>>

PassGate ==
    /\ pc = "gate" \/ (pc = "waiting" /\ signalled)
    /\ ~mLegacyStillCaptureInFlight
    /\ EnterGate
    /\ UNCHANGED <<streamVars, requestVars, serviceVars, halVars, abandoned>>

\* Mutant: the wait has no time limit.
WaitTimesOut_Never == FALSE

\* TIMED_OUT: the request goes on as if the still had come back.
WaitTimesOut ==
    /\ pc = "waiting"
    /\ Abandon
    /\ EnterGate
    /\ UNCHANGED <<streamVars, requestVars, serviceVars, halVars>>

\* Mutant: an error return leaves the gate as it is.
ReleaseOwnStill_Never == UNCHANGED <<mLegacyStillCaptureInFlight, signalled>>

\* What every error return behind the gate does for a still request.
ReleaseOwnStill ==
    IF request.still THEN OpenGate
    ELSE UNCHANGED <<mLegacyStillCaptureInFlight, signalled>>

\* processOneCaptureRequest returns.
RequestReturns == pc' = "idle" /\ request' = NoRequest /\ buffers' = NoOutput

\* No output buffer, a buffer that cannot be imported, a stream that cannot be
\* registered, or a HAL that refuses the request.  The service does not repeat a
\* request that failed.
RequestFails ==
    /\ PastGate
    /\ ReleaseOwnStill
    /\ RequestReturns
    /\ prev' = NONE

\* The buffers that the request brings for these streams are imported and kept.
Import(streams) ==
    mCirculatingBuffers' =
        [s \in Streams |-> mCirculatingBuffers[s] \cup (IF s \in streams THEN {buffers[s]} ELSE {})]

\* No output buffer, or one of the buffers or fences cannot be imported.
FailBeforeRegistering ==
    /\ pc = "import"
    /\ \E imported \in SUBSET request.outputs : Import(imported)
    /\ RequestFails
    /\ UNCHANGED <<mLegacyStillCaptureFrame, mLegacyLastCaptureIntent, streamVars, service,
                   nextFrame, halVars, abandoned>>

importRequest ==
    /\ pc = "import"
    /\ request.outputs # {}
    /\ Import(request.outputs)
    /\ pc' = "register"
    /\ UNCHANGED <<gateVars, mLegacyLastCaptureIntent, streamVars, request, buffers, signalled,
                   serviceVars, halVars, abandoned>>

\* Streams of the request that the HAL has not been told of in this configuration.
Unregistered == request.outputs \ mLegacyRegisteredStreams

\* register_stream_buffers for each of these streams, with the buffers that
\* circulate now.  Buffers that come later are not registered: the stream is.
Register(streams) ==
    /\ halBuffers' = [s \in Streams |-> IF s \in streams THEN mCirculatingBuffers[s]
                                        ELSE halBuffers[s]]
    /\ mLegacyRegisteredStreams' = mLegacyRegisteredStreams \cup streams

registerLegacyBuffers ==
    /\ pc = "register"
    /\ \A s \in Unregistered : mCirculatingBuffers[s] # {}
    /\ Register(Unregistered)
    /\ pc' = "submit"
    /\ UNCHANGED <<gateVars, mLegacyLastCaptureIntent, mStreamMap, requestVars, signalled,
                   serviceVars, halVars, abandoned>>

\* register_stream_buffers fails for one stream; those before it stay registered.
FailRegistering ==
    /\ pc = "register"
    /\ \E done \in SUBSET Unregistered : done # Unregistered /\ Register(done)
    /\ RequestFails
    /\ UNCHANGED <<mLegacyStillCaptureFrame, mLegacyLastCaptureIntent, mStreamMap,
                   mCirculatingBuffers, service, nextFrame, halVars, abandoned>>

\* Mutant: the vendor thumbnail is left on.
Thumbnail_Kept == TRUE

\* The settings of a still request are rewritten to ask for no EXIF thumbnail.
Thumbnail == ~request.still

\* The HAL takes the request: settings that are not null replace the ones in force.
HalAccepts ==
    /\ pc = "submit"
    /\ halSettings' = IF request.settings = "null" THEN halSettings
                      ELSE [intent |-> request.settings, thumbnail |-> Thumbnail]
    /\ halBlobs' = IF HasBlob(request.outputs) THEN halBlobs \cup {request.frame} ELSE halBlobs
    /\ halStills' = IF IsLegacyStill(request.outputs, halSettings'.intent)
                    THEN halStills \cup {request.frame} ELSE halStills
    /\ prev' = request.outputs
    /\ RequestReturns
    /\ UNCHANGED <<gateVars, mLegacyLastCaptureIntent, streamVars, mCirculatingBuffers, signalled,
                   service, nextFrame, abandoned>>

\* process_capture_request() returns an error.
HalRefuses ==
    /\ pc = "submit"
    /\ RequestFails
    /\ UNCHANGED <<mLegacyStillCaptureFrame, mLegacyLastCaptureIntent, streamVars,
                   mCirculatingBuffers, service, nextFrame, halVars, abandoned>>

-----------------------------------------------------------------------------
\* Callbacks of the HAL

\* Mutant: the result of any BLOB opens the gate.
GateIsFor_Any(f) == mLegacyStillCaptureInFlight

\* "mLegacyStillCaptureInFlight && mLegacyStillCaptureFrame == frame"
GateIsFor(f) == mLegacyStillCaptureInFlight /\ mLegacyStillCaptureFrame = f

\* sProcessCaptureResult with a BLOB buffer.
BlobReturned(f) ==
    /\ f \in halBlobs
    /\ halBlobs' = halBlobs \ {f}
    /\ halStills' = halStills \ {f}
    /\ abandoned' = abandoned \ {f}
    /\ IF GateIsFor(f) THEN OpenGate ELSE UNCHANGED <<mLegacyStillCaptureInFlight, signalled>>
    /\ UNCHANGED <<mLegacyStillCaptureFrame, mLegacyLastCaptureIntent, streamVars, pc, requestVars,
                   serviceVars, halSettings>>

\* sNotify with an error: about a frame, or about the device, which has number 0.
\* The buffers of the frame are returned later all the same.
ErrorNotified(f) ==
    /\ f \in halBlobs \cup {0}
    /\ GateIsFor(f)
    /\ OpenGate
    /\ Abandon
    /\ UNCHANGED <<mLegacyStillCaptureFrame, mLegacyLastCaptureIntent, streamVars, pc, requestVars,
                   serviceVars, halVars>>

-----------------------------------------------------------------------------
\* The other calls of the session

\* flush() opens the gate before it calls the HAL, whose buffers come back by
\* the callbacks.
flush ==
    /\ OpenGate
    /\ Abandon
    /\ UNCHANGED <<mLegacyStillCaptureFrame, mLegacyLastCaptureIntent, streamVars, pc, requestVars,
                   serviceVars, halVars>>

\* Mutant: the streams of the old configuration stay registered.
ForgetRegistrations_Never == UNCHANGED mLegacyRegisteredStreams

\* "mLegacyRegisteredStreams.clear()"
ForgetRegistrations == mLegacyRegisteredStreams' = {}

\* A configuration that the HAL accepts; the service asks for one when no buffers
\* are out.  The HAL forgets the streams that are gone and may keep the buffers of
\* the others; the session drops the imported buffers of the streams that are gone.
configureStreams(streams) ==
    /\ pc = "idle" /\ service # "closed" /\ halBlobs = {}
    /\ mStreamMap' = streams
    /\ \E kept \in SUBSET (streams \cap mStreamMap) :
          halBuffers' = [s \in Streams |-> IF s \in kept THEN halBuffers[s] ELSE {}]
    /\ mCirculatingBuffers' = [s \in Streams |-> IF s \in streams THEN mCirculatingBuffers[s]
                                                 ELSE {}]
    /\ ForgetRegistrations
    /\ service' = "ready" /\ prev' = NONE
    /\ UNCHANGED <<gateVars, mLegacyLastCaptureIntent, pc, request, buffers, signalled,
                   nextFrame, halVars, abandoned>>

\* A configuration that the HAL refuses, with or without forgetting the old one;
\* the session's record of it stays, and the service has to configure again.
configureFails ==
    /\ pc = "idle" /\ service # "closed" /\ halBlobs = {}
    /\ halBuffers' \in {halBuffers, NoBuffers}
    /\ service' = "unconfigured" /\ prev' = NONE
    /\ UNCHANGED <<gateVars, mLegacyLastCaptureIntent, mStreamMap, mLegacyRegisteredStreams, pc,
                   requestVars, signalled, nextFrame, halVars, abandoned>>

\* close() opens the gate first, also for a request that waits there and then
\* goes on to the HAL.
close ==
    /\ OpenGate
    /\ Abandon
    /\ service' = "closed"
    /\ UNCHANGED <<mLegacyStillCaptureFrame, mLegacyLastCaptureIntent, streamVars, pc, requestVars,
                   nextFrame, prev, halVars>>

\* A new session, once the requests of the old one have ended.
open ==
    /\ pc = "idle" /\ service = "closed"
    /\ mLegacyStillCaptureInFlight' = FALSE
    /\ mLegacyStillCaptureFrame' = 0
    /\ mLegacyLastCaptureIntent' = "preview"
    /\ mLegacyRegisteredStreams' = {} /\ mStreamMap' = {} /\ halBuffers' = NoBuffers
    /\ request' = NoRequest /\ buffers' = NoOutput
    /\ mCirculatingBuffers' = NoBuffers /\ signalled' = FALSE
    /\ service' = "unconfigured" /\ nextFrame' = 0 /\ prev' = NONE
    /\ halSettings' = NoSettings /\ halBlobs' = {} /\ halStills' = {} /\ abandoned' = {}
    /\ UNCHANGED pc

-----------------------------------------------------------------------------
RequestThread ==
    \/ WaitAtGate \/ PassGate \/ WaitTimesOut \/ FailBeforeRegistering \/ importRequest
    \/ registerLegacyBuffers \/ FailRegistering \/ HalAccepts \/ HalRefuses

Next ==
    \/ \E outputs \in SUBSET Streams, settings \in Settings :
          RequestArrives(outputs, settings)
    \/ RequestThread
    \/ \E f \in halBlobs : BlobReturned(f)
    \/ \E f \in halBlobs \cup {0} : ErrorNotified(f)
    \/ flush
    \/ \E streams \in (SUBSET Streams) \ {{}} : configureStreams(streams)
    \/ configureFails \/ close \/ open

Spec == Init /\ [][Next]_vars

\* The request thread runs, and its wait ends after five seconds at the latest;
\* nothing is assumed of the HAL.
FairSpec == Spec /\ WF_vars(RequestThread)

-----------------------------------------------------------------------------
Requests == [frame : Nat, outputs : SUBSET Streams, settings : Settings, intent : Intents,
             still : BOOLEAN]
BufferSets == [Streams -> SUBSET BufferIds]
RequestBuffers == UNION {[o -> BufferIds] : o \in SUBSET Streams}

TypeOK ==
    /\ mLegacyStillCaptureInFlight \in BOOLEAN
    /\ mLegacyStillCaptureFrame \in Nat
    /\ mLegacyLastCaptureIntent \in Intents
    /\ mLegacyRegisteredStreams \subseteq Streams
    /\ mStreamMap \subseteq Streams
    /\ pc \in {"idle", "gate", "waiting", "import", "register", "submit"}
    /\ request \in Requests
    /\ buffers \in RequestBuffers
    /\ mCirculatingBuffers \in BufferSets
    /\ signalled \in BOOLEAN
    /\ service \in {"unconfigured", "ready", "closed"}
    /\ nextFrame \in Nat
    /\ prev \in (SUBSET Streams) \cup {NONE}
    /\ halSettings \in [intent : Intents \cup {"noIntent"}, thumbnail : BOOLEAN]
    /\ halBuffers \in BufferSets
    /\ halBlobs \subseteq Nat /\ halStills \subseteq halBlobs /\ abandoned \subseteq Nat

\* "Serialize requests behind a legacy still capture until its BLOB buffer has
\* been returned": a request that is past the gate finds no JPEG pipeline at
\* work in the HAL, except one that the session has stopped waiting for because
\* of a timeout, an error message or a flush.  In particular the late JPEG of
\* such a still does not open the gate that a newer still has closed.
Serialized == PastGate => halStills \subseteq abandoned

\* A request sleeps at the gate only if there is something to wait for: the gate
\* is closed, and the still it is closed for is with the HAL and may come back.
\* No failure of a request leaves the gate closed behind it, and no opening of
\* the gate goes unnoticed (the five seconds would then be lost).
SleepIsJustified ==
    pc = "waiting" /\ ~signalled =>
        mLegacyStillCaptureInFlight /\ mLegacyStillCaptureFrame \in halBlobs

\* "HAL3.0/3.1 requires register_stream_buffers() before a stream is used": the
\* HAL gets a request only when it holds registered buffers for each of its
\* streams, whatever requests, registrations and configurations failed before and
\* whether or not the HAL forgot the streams it had in the last configuration.
\* (That the request's own buffer is among them is not promised: the code
\* registers a stream once, with the buffers that circulate at that time.)
StreamsAreRegistered ==
    pc = "submit" => \A s \in request.outputs : halBuffers[s] # {}

\* "The closed B217 thumbnail worker also keeps using a CPU mapping after the
\* owning buffer has been returned": no still reaches the HAL with the thumbnail
\* on, also when its settings are those of an earlier request.
NoThumbnailWorker ==
    [][\A f \in halStills' \ halStills : ~halSettings'.thumbnail]_vars

\* Every request is answered, even if the HAL never returns a still.
RequestEnds == pc # "idle" ~> pc = "idle"
=============================================================================

----------------------------- MODULE HwcOverlay -----------------------------
(***************************************************************************)
(* HWC2OnFbAdapter with the DSS overlay path of                            *)
(* patches/hardware/interfaces/hwc2onfbadapter-hisi-dss-overlay-fallback.  *)
(* validateLayers() may give one YUV layer to the overlay and leaves the   *)
(* others to SurfaceFlinger (client composition); postBuffer() tries the   *)
(* overlay and, when that fails, posts the client target and disables the  *)
(* overlay, until a validation finds the property switched off.            *)
(*                                                                         *)
(* SurfaceFlinger is external.  A frame of its main thread is: set layer   *)
(* state, validate, apply and accept the changes, hand over a client       *)
(* target if it has layers to draw, present.  Layers may be destroyed at   *)
(* any point of it.  The hooks of the adapter that the patch leaves as     *)
(* they are (create, destroy, setClientTarget, present) are external too.  *)
(***************************************************************************)
EXTENDS Integers, FiniteSets

CONSTANTS MaxLayerId,  \* bound: layers created
          Areas,       \* areas a layer can cover
          NoTarget     \* no client target has been handed over

ASSUME OverlayAssumption == MaxLayerId \in Nat /\ Areas \subseteq Nat \ {0}

VARIABLES
    state,                     \* "MODIFIED", "VALIDATED_WITH_CHANGES" or "VALIDATED"
    mLayerStates,              \* the live layers and their states
    mNextLayerId,
    mChangedTypes,             \* [changed layer -> its new type]
    mClearClientTargetLayers,
    mBuffer,                   \* the client target: what was drawn into it
    mOverlayDisabledByError,
    mHasOverlayLayer, mOverlayUsesClientTarget, mOverlayLayer,
    property,                  \* persist.debug.mozart.hwc_overlay
    phase,                     \* how far SurfaceFlinger is with its frame
    sfTypes,                   \* the composition types as SurfaceFlinger knows them
    drawn,                     \* history: the client target is of this frame
    frame,                     \* history: what the last presented frame looks like
    failedInRow,               \* history: posted frames in a row that did not show every
                               \*   layer, the property not having been found off in between
    overlayFailed              \* history: the overlay has failed in this process

adapterVars == <<mNextLayerId, mChangedTypes, mClearClientTargetLayers, mBuffer>>
overlayVars == <<mHasOverlayLayer, mOverlayUsesClientTarget, mOverlayLayer>>
screenVars == <<frame, failedInRow, overlayFailed>>
hwcVars == <<state, mLayerStates, adapterVars, mOverlayDisabledByError, overlayVars, property,
             phase, sfTypes, drawn, screenVars>>

Live == DOMAIN mLayerStates
Types == {"CLIENT", "DEVICE"}
Formats == {"none", "yuv", "rgb"}

\* A layer's state; "fits" stands for frame, crop, transform and alpha.
NewLayer == [requestedType |-> "CLIENT", validatedType |-> "CLIENT", buffer |-> "none",
             fits |-> FALSE, area |-> 0]

OverlayInit ==
    /\ state = "MODIFIED"
    /\ mLayerStates = [l \in {} |-> NewLayer]
    /\ mNextLayerId = 0
    /\ mChangedTypes = [l \in {} |-> "CLIENT"]
    /\ mClearClientTargetLayers = {}
    /\ mBuffer = NoTarget
    /\ mOverlayDisabledByError = FALSE
    /\ mHasOverlayLayer = FALSE /\ mOverlayUsesClientTarget = FALSE /\ mOverlayLayer = 0
    /\ property \in BOOLEAN
    /\ phase = "setup"
    /\ sfTypes = [l \in {} |-> "CLIENT"]
    /\ drawn = FALSE /\ frame = "none" /\ failedInRow = 0 /\ overlayFailed = FALSE

-----------------------------------------------------------------------------
\* Layers come, change and go

Without(f, l) == [k \in DOMAIN f \ {l} |-> f[k]]
With(f, l, v) == [k \in DOMAIN f \cup {l} |-> IF k = l THEN v ELSE f[k]]

\* Mutant: the validation survives the loss of a layer.
Invalidate_Not == UNCHANGED state

\* setState(State::MODIFIED) of createLayerHook and destroyLayerHook.
Invalidate == state' = "MODIFIED"

addLayer ==
    /\ phase = "setup" /\ mNextLayerId < MaxLayerId
    /\ mNextLayerId' = mNextLayerId + 1
    /\ mLayerStates' = With(mLayerStates, mNextLayerId + 1, NewLayer)
    /\ sfTypes' = With(sfTypes, mNextLayerId + 1, "CLIENT")
    /\ Invalidate
    /\ UNCHANGED <<mChangedTypes, mClearClientTargetLayers, mBuffer, mOverlayDisabledByError,
                   overlayVars, property, phase, drawn, screenVars>>

removeLayer(l) ==
    /\ l \in Live
    /\ mLayerStates' = Without(mLayerStates, l)
    /\ mChangedTypes' = Without(mChangedTypes, l)
    /\ mClearClientTargetLayers' = mClearClientTargetLayers \ {l}
    /\ LET overlaid == mHasOverlayLayer /\ mOverlayLayer = l
       IN  /\ mHasOverlayLayer' = (mHasOverlayLayer /\ ~overlaid)
           /\ mOverlayUsesClientTarget' = (mOverlayUsesClientTarget /\ ~overlaid)
    /\ sfTypes' = Without(sfTypes, l)
    /\ Invalidate
    /\ UNCHANGED <<mNextLayerId, mBuffer, mOverlayDisabledByError, mOverlayLayer, property,
                   phase, drawn, screenVars>>

\* One hook changes one field of a layer; all but setLayerBuffer invalidate.
SetField(l, s, newState) ==
    /\ phase = "setup" /\ l \in Live
    /\ mLayerStates' = [mLayerStates EXCEPT ![l] = s]
    /\ state' = newState
    /\ UNCHANGED <<adapterVars, mOverlayDisabledByError, overlayVars, property, phase, drawn, screenVars>>

setLayerBuffer(l, format) ==
    /\ SetField(l, [mLayerStates[l] EXCEPT !.buffer = format], state)
    /\ UNCHANGED sfTypes

setLayerCompositionType(l, type) ==
    /\ SetField(l, [mLayerStates[l] EXCEPT !.requestedType = type], "MODIFIED")
    /\ sfTypes' = [sfTypes EXCEPT ![l] = type]

\* setLayerDisplayFrame, -SourceCrop, -PlaneAlpha and -Transform, and with the old
\* values setLayerBlendMode and -ZOrder, which no later step looks at.
setLayerGeometry(l, fits, area) ==
    /\ SetField(l, [mLayerStates[l] EXCEPT !.fits = fits, !.area = area], "MODIFIED")
    /\ UNCHANGED sfTypes

-----------------------------------------------------------------------------
\* validateDisplay, acceptDisplayChanges

\* fillDssLayer succeeds: a Huawei handle in a known format, and a crop inside it.
fillDssLayer(s) == s.buffer # "none" /\ s.fits

\* What the loop of validateLayers skips over is not eligible.
Eligible(l) ==
    LET s == mLayerStates[l]
    IN  s.requestedType = "DEVICE" /\ s.buffer = "yuv" /\ fillDssLayer(s)

\* The largest eligible layer; the map's order decides between equals.
Largest == {l \in Live : Eligible(l) /\ \A k \in Live :
                Eligible(k) => mLayerStates[k].area <= mLayerStates[l].area}

\* "mOverlayEnabled && !mOverlayDisabledByError", the error forgotten when the
\* property is off.
OverlayAllowed == property /\ ~mOverlayDisabledByError

\* Every layer but the overlaid one is composed by SurfaceFlinger.
ValidatedType(l, overlay) == IF l = overlay THEN "DEVICE" ELSE "CLIENT"

\* overlay is the chosen layer, or 0.
ValidateWith(overlay) ==
    LET clients == Live \ {overlay}
        changed == {l \in Live : mLayerStates[l].requestedType # ValidatedType(l, overlay)}
    IN  /\ mLayerStates' = [l \in Live |-> [mLayerStates[l] EXCEPT
                                               !.validatedType = ValidatedType(l, overlay)]]
        /\ mChangedTypes' = [l \in changed |-> ValidatedType(l, overlay)]
        /\ mHasOverlayLayer' = (overlay # 0)
        /\ mOverlayLayer' = IF overlay # 0 THEN overlay ELSE mOverlayLayer
        /\ mOverlayUsesClientTarget' = (overlay # 0 /\ clients # {})
        /\ mClearClientTargetLayers' = IF overlay # 0 /\ clients # {} THEN {overlay} ELSE {}
        /\ state' = IF changed # {} \/ (overlay # 0 /\ clients # {})
                    THEN "VALIDATED_WITH_CHANGES" ELSE "VALIDATED"

validateLayers ==
    /\ phase = "setup"
    /\ mOverlayDisabledByError' = (property /\ mOverlayDisabledByError)
    /\ IF OverlayAllowed /\ Largest # {}
       THEN \E overlay \in Largest : ValidateWith(overlay)
       ELSE ValidateWith(0)
    /\ phase' = "validated"
    /\ failedInRow' = IF property THEN failedInRow ELSE 0
    /\ UNCHANGED <<mNextLayerId, mBuffer, property, sfTypes, drawn, frame, overlayFailed>>

\* Mutant: the new types are not what the adapter goes on with.
acceptChanges_TypesKept == UNCHANGED mLayerStates

\* acceptChanges: the validated types become the requested ones.
acceptChanges ==
    mLayerStates' = [l \in Live |-> [mLayerStates[l] EXCEPT
                                        !.requestedType = mLayerStates[l].validatedType]]

\* SurfaceFlinger reads the changed types and accepts them; with nothing changed
\* the state is VALIDATED already.
ApplyChanges ==
    /\ phase = "validated" /\ state # "MODIFIED"
    /\ sfTypes' = [l \in DOMAIN sfTypes |->
                      IF l \in DOMAIN mChangedTypes THEN mChangedTypes[l] ELSE sfTypes[l]]
    /\ IF state = "VALIDATED_WITH_CHANGES"
       THEN acceptChanges /\ mChangedTypes' = [l \in {} |-> "CLIENT"]
       ELSE UNCHANGED <<mLayerStates, mChangedTypes>>
    /\ state' = "VALIDATED"
    /\ phase' = "accepted"
    /\ UNCHANGED <<mNextLayerId, mClearClientTargetLayers, mBuffer, mOverlayDisabledByError,
                   overlayVars, property, drawn, screenVars>>

\* The call is refused after a layer has gone: SurfaceFlinger begins anew.
ChangesRefused ==
    /\ phase = "validated" /\ state = "MODIFIED"
    /\ phase' = "setup"
    /\ UNCHANGED <<state, mLayerStates, adapterVars, mOverlayDisabledByError, overlayVars,
                   property, sfTypes, drawn, screenVars>>

-----------------------------------------------------------------------------
\* setClientTarget, presentDisplay

SfDraws == {l \in DOMAIN sfTypes : sfTypes[l] = "CLIENT"}

\* SurfaceFlinger draws its layers, leaves holes where it was asked to, and hands
\* the buffer over; it does not when it has none to draw.
setBuffer ==
    /\ phase = "accepted"
    /\ IF SfDraws # {}
       THEN mBuffer' = [layers |-> SfDraws, holes |-> mClearClientTargetLayers]
       ELSE UNCHANGED mBuffer
    /\ drawn' = (SfDraws # {})
    /\ phase' = "composed"
    /\ UNCHANGED <<state, mLayerStates, mNextLayerId, mChangedTypes, mClearClientTargetLayers,
                   mOverlayDisabledByError, overlayVars, property, sfTypes, screenVars>>

\* present() is refused: the frame is dropped.
PresentRefused ==
    /\ phase = "composed" /\ state # "VALIDATED"
    /\ phase' = "setup"
    /\ UNCHANGED <<state, mLayerStates, adapterVars, mOverlayDisabledByError, overlayVars,
                   property, sfTypes, drawn, screenVars>>

Show(picture) ==
    /\ frame' = picture
    /\ failedInRow' = IF picture = "complete" THEN 0 ELSE failedInRow + 1

\* Each layer is seen once: the overlaid one through a hole in the client target.
OverlayShowsAll ==
    IF mOverlayUsesClientTarget
    THEN /\ drawn
         /\ mBuffer.layers = Live \ {mOverlayLayer}
         /\ mBuffer.holes = {mOverlayLayer}
    ELSE Live = {mOverlayLayer}

\* postOverlay() succeeds.
PostOverlay ==
    /\ phase = "composed" /\ state = "VALIDATED"
    /\ mHasOverlayLayer /\ ~mOverlayDisabledByError
    /\ mOverlayLayer \in Live
    /\ mOverlayUsesClientTarget => mBuffer # NoTarget
    /\ fillDssLayer(mLayerStates[mOverlayLayer])
    /\ Show(IF OverlayShowsAll THEN "complete" ELSE "wrong")
    /\ phase' = "setup"
    /\ UNCHANGED <<state, mLayerStates, adapterVars, mOverlayDisabledByError, overlayVars,
                   property, sfTypes, drawn, overlayFailed>>

\* The fbdev path shows the client target as it is, or leaves the screen alone.
FbPicture(failed) ==
    IF drawn /\ mBuffer.layers = Live /\ mBuffer.holes = {} THEN "complete"
    ELSE IF failed THEN "failed" ELSE "wrong"

\* mFbDevice->post() may fail, which is only returned: the screen keeps the frame
\* before and nothing of the adapter changes.
FbPost(failed) ==
    \/ Show(FbPicture(failed))
    \/ mBuffer # NoTarget /\ frame' = "lost" /\ UNCHANGED failedInRow

\* Mutant: the failure is not remembered.
DisableOverlay_Forgotten ==
    /\ mHasOverlayLayer' = FALSE /\ mOverlayUsesClientTarget' = FALSE
    /\ UNCHANGED mOverlayDisabledByError

\* What each of the failure branches of postOverlay() does.
DisableOverlay ==
    /\ mOverlayDisabledByError' = TRUE
    /\ mHasOverlayLayer' = FALSE /\ mOverlayUsesClientTarget' = FALSE

\* Opening fb0, the ioctl or one of the checks before them fails: the overlay is
\* disabled, the frame falls back to the client target and a new validation is due.
PostOverlayFails ==
    /\ phase = "composed" /\ state = "VALIDATED"
    /\ mHasOverlayLayer /\ ~mOverlayDisabledByError
    /\ DisableOverlay
    /\ state' = "MODIFIED"
    /\ FbPost(TRUE)
    /\ overlayFailed' = TRUE
    /\ phase' = "setup"
    /\ UNCHANGED <<mLayerStates, adapterVars, mOverlayLayer, property, sfTypes, drawn>>

\* postBuffer() without an overlay.
PostBuffer ==
    /\ phase = "composed" /\ state = "VALIDATED"
    /\ ~mHasOverlayLayer \/ mOverlayDisabledByError
    /\ Live # {}
    /\ FbPost(FALSE)
    /\ phase' = "setup"
    /\ UNCHANGED <<state, mLayerStates, adapterVars, mOverlayDisabledByError, overlayVars,
                   property, sfTypes, drawn, overlayFailed>>

\* With no layer there is nothing to be seen, or not.
PostNothing ==
    /\ phase = "composed" /\ state = "VALIDATED" /\ Live = {}
    /\ phase' = "setup"
    /\ UNCHANGED <<state, mLayerStates, adapterVars, mOverlayDisabledByError, overlayVars,
                   property, sfTypes, drawn, screenVars>>

\* setprop, at any time.
SetProperty ==
    /\ property' = ~property
    /\ UNCHANGED <<state, mLayerStates, adapterVars, mOverlayDisabledByError, overlayVars,
                   phase, sfTypes, drawn, screenVars>>

-----------------------------------------------------------------------------
OverlayNext ==
    \/ addLayer
    \/ \E l \in Live : removeLayer(l)
    \/ \E l \in Live, format \in Formats : setLayerBuffer(l, format)
    \/ \E l \in Live, type \in Types : setLayerCompositionType(l, type)
    \/ \E l \in Live, fits \in BOOLEAN, area \in Areas : setLayerGeometry(l, fits, area)
    \/ validateLayers \/ ApplyChanges \/ ChangesRefused \/ setBuffer
    \/ PresentRefused \/ PostOverlay \/ PostOverlayFails \/ PostBuffer \/ PostNothing
    \/ SetProperty

OverlaySpec == OverlayInit /\ [][OverlayNext]_hwcVars

-----------------------------------------------------------------------------
OverlayTypeOK ==
    /\ state \in {"MODIFIED", "VALIDATED_WITH_CHANGES", "VALIDATED"}
    /\ mNextLayerId \in Nat
    /\ Live \subseteq 1 .. mNextLayerId
    /\ mLayerStates \in [Live -> [requestedType : Types, validatedType : Types,
                                  buffer : Formats, fits : BOOLEAN, area : Nat]]
    /\ mChangedTypes \in [DOMAIN mChangedTypes -> Types] /\ DOMAIN mChangedTypes \subseteq Live
    /\ mClearClientTargetLayers \subseteq Live
    /\ mOverlayLayer \in Nat
    /\ mOverlayDisabledByError \in BOOLEAN /\ property \in BOOLEAN
    /\ mHasOverlayLayer \in BOOLEAN /\ mOverlayUsesClientTarget \in BOOLEAN
    /\ phase \in {"setup", "validated", "accepted", "composed"}
    /\ sfTypes \in [Live -> Types]
    /\ drawn \in BOOLEAN /\ failedInRow \in Nat /\ overlayFailed \in BOOLEAN

\* When the display is validated and a frame can be presented, SurfaceFlinger and
\* the adapter agree who shows each layer, whatever was changed, accepted or
\* destroyed before: SurfaceFlinger leaves out the overlaid layer and no other.
OneOwnerPerLayer ==
    state = "VALIDATED" /\ phase \in {"accepted", "composed"} =>
        Live \ SfDraws = IF mHasOverlayLayer THEN {mOverlayLayer} ELSE {}

\* Every frame that is posted shows all live layers, and none twice, unless the
\* overlay failed in the very call that presented it.
NoWrongFrame == frame # "wrong"

\* A failure of the overlay costs one frame: the next frame that the framebuffer
\* takes shows every layer, because mOverlayDisabledByError keeps validateLayers()
\* from choosing a layer again.  Only a validation that reads the property as off
\* clears it, and begins the count anew.
OneFrameLost == failedInRow <= 1

\* "If the DSS ioctl fails, SurfaceFlinger falls back to the existing fbdev/client
\* composition path for that process" (README.md:67-68): once the overlay has
\* failed no layer is given to it again.  Does not hold: validateLayers() clears
\* mOverlayDisabledByError when it finds the property off.
OverlayOffForProcess == overlayFailed => ~mHasOverlayLayer
=============================================================================

-------------------------- MODULE HwcOverlayProofs --------------------------
(***************************************************************************)
(* Proofs about HwcOverlay for any number of layers.  What a frame shows   *)
(* depends on what SurfaceFlinger drew several calls earlier; the          *)
(* inductive invariant follows the agreement of the two sides through the  *)
(* phases of a frame.                                                      *)
(***************************************************************************)
EXTENDS HwcOverlay, TLAPS

\* SurfaceFlinger and the adapter agree on the requested types at all times.
TypesAgree == \A l \in Live : sfTypes[l] = mLayerStates[l].requestedType

Overlaid == IF mHasOverlayLayer THEN {mOverlayLayer} ELSE {}

\* A validation that still holds: the overlaid layer is the one DEVICE layer, the
\* hole is requested for it, and the changed types are all that has changed.
ValidationHolds ==
    phase # "setup" /\ state # "MODIFIED" =>
        /\ Overlaid \subseteq Live
        /\ \A l \in Live : mLayerStates[l].validatedType =
                               IF l \in Overlaid THEN "DEVICE" ELSE "CLIENT"
        /\ mOverlayUsesClientTarget = (mHasOverlayLayer /\ Live # {mOverlayLayer})
        /\ mClearClientTargetLayers = IF mOverlayUsesClientTarget THEN {mOverlayLayer} ELSE {}
        /\ \A l \in Live : IF l \in DOMAIN mChangedTypes
                           THEN mChangedTypes[l] = mLayerStates[l].validatedType
                           ELSE mLayerStates[l].requestedType = mLayerStates[l].validatedType
        /\ state = "VALIDATED" => DOMAIN mChangedTypes = {}
        /\ phase \in {"accepted", "composed"} => state = "VALIDATED"

\* The client target of the frame holds what SurfaceFlinger draws.
TargetIsCurrent ==
    phase = "composed" /\ state = "VALIDATED" =>
        /\ drawn = (SfDraws # {})
        /\ drawn => mBuffer = [layers |-> SfDraws, holes |-> mClearClientTargetLayers]

\* A failed frame leaves the overlay disabled.
FailureIsRemembered ==
    /\ failedInRow = 0 \/ (failedInRow = 1 /\ mOverlayDisabledByError)
    /\ mHasOverlayLayer => ~mOverlayDisabledByError
    /\ frame # "wrong"

IndInv == OverlayTypeOK /\ TypesAgree /\ ValidationHolds /\ TargetIsCurrent /\ FailureIsRemembered

\* The initial states satisfy the inductive invariant.
LEMMA InitIndInv == OverlayInit => IndInv
<1> SUFFICES ASSUME OverlayInit PROVE IndInv
  OBVIOUS
<1>1. Live = {} /\ DOMAIN mChangedTypes = {}
  BY DEF OverlayInit, Live
<1>2. OverlayTypeOK
  BY <1>1 DEF OverlayInit, OverlayTypeOK, Live, Types, Formats
<1> QED
  BY <1>1, <1>2 DEF OverlayInit, IndInv, TypesAgree, ValidationHolds, TargetIsCurrent,
     FailureIsRemembered

\* In a frame that can be presented, SurfaceFlinger draws all but the overlaid layer.
LEMMA AgreementOnOwners == IndInv => OneOwnerPerLayer /\ SfDraws \subseteq Live
  BY DEF IndInv, OverlayTypeOK, TypesAgree, ValidationHolds, OneOwnerPerLayer, SfDraws, Overlaid, Types

\* A validation that gives the overlay to one layer, or to none (0).
LEMMA ValidateWithIndInv ==
  ASSUME IndInv, NEW overlay \in Live \cup {0}, ValidateWith(overlay),
         overlay # 0 => ~mOverlayDisabledByError',
         mOverlayDisabledByError' = (property /\ mOverlayDisabledByError),
         failedInRow' = IF property THEN failedInRow ELSE 0, phase' = "validated",
         UNCHANGED <<mNextLayerId, mBuffer, property, sfTypes, drawn, frame, overlayFailed>>
  PROVE  IndInv'
<1>1. Live' = Live /\ 0 \notin Live
  BY DEF ValidateWith, Live, IndInv, OverlayTypeOK
<1>2. mLayerStates' = [l \in Live |-> [mLayerStates[l] EXCEPT
                                          !.validatedType = ValidatedType(l, overlay)]]
  BY DEF ValidateWith
<1>3. \A l \in Live : /\ mLayerStates'[l].validatedType = ValidatedType(l, overlay)
                      /\ mLayerStates'[l].requestedType = mLayerStates[l].requestedType
  BY <1>2 DEF IndInv, OverlayTypeOK
<1>4. OverlayTypeOK'
  <2>1. \A l \in Live : ValidatedType(l, overlay) \in Types
    BY DEF ValidatedType, Types
  <2>2. \A l \in Live : [mLayerStates[l] EXCEPT !.validatedType = ValidatedType(l, overlay)]
           \in [requestedType : Types, validatedType : Types, buffer : Formats,
                fits : BOOLEAN, area : Nat]
    BY <2>1 DEF IndInv, OverlayTypeOK
  <2>3. mLayerStates' \in [Live' -> [requestedType : Types, validatedType : Types,
                                    buffer : Formats, fits : BOOLEAN, area : Nat]]
    BY <1>1, <1>2, <2>2
  <2>4. mChangedTypes' \in [DOMAIN mChangedTypes' -> Types] /\ DOMAIN mChangedTypes' \subseteq Live'
    BY <1>1, <2>1 DEF ValidateWith
  <2>5. mClearClientTargetLayers' \subseteq Live'
    BY <1>1 DEF ValidateWith
  <2>6. mOverlayLayer' \in Nat
    BY DEF IndInv, OverlayTypeOK, ValidateWith
  <2>7. /\ mHasOverlayLayer' \in BOOLEAN /\ mOverlayUsesClientTarget' \in BOOLEAN
        /\ state' \in {"MODIFIED", "VALIDATED_WITH_CHANGES", "VALIDATED"}
    BY DEF ValidateWith
  <2>8. /\ Live' \subseteq 1 .. mNextLayerId' /\ sfTypes' \in [Live' -> Types]
        /\ failedInRow' \in Nat /\ mNextLayerId' \in Nat /\ overlayFailed' \in BOOLEAN
    BY <1>1 DEF IndInv, OverlayTypeOK
  <2> QED
    BY <2>3, <2>4, <2>5, <2>6, <2>7, <2>8 DEF IndInv, OverlayTypeOK
<1>5. TypesAgree'
  BY <1>1, <1>3 DEF IndInv, TypesAgree
<1>6. ValidationHolds'
  <2>1. Overlaid' = {overlay} \ {0}
    BY DEF ValidateWith, Overlaid
  <2>2. mOverlayUsesClientTarget' = (mHasOverlayLayer' /\ Live' # {mOverlayLayer'})
    BY <1>1 DEF ValidateWith
  <2>3. \A l \in Live : IF l \in DOMAIN mChangedTypes'
           THEN mChangedTypes'[l] = mLayerStates'[l].validatedType
           ELSE mLayerStates'[l].requestedType = mLayerStates'[l].validatedType
    BY <1>3 DEF ValidateWith
  <2>4. state' = "VALIDATED" => DOMAIN mChangedTypes' = {}
    BY DEF ValidateWith
  <2>5. mClearClientTargetLayers' =
           IF mOverlayUsesClientTarget' THEN {mOverlayLayer'} ELSE {}
    BY DEF ValidateWith
  <2> QED
    BY <1>1, <1>3, <2>1, <2>2, <2>3, <2>4, <2>5 DEF ValidationHolds, ValidatedType
<1>7. TargetIsCurrent'
  BY DEF TargetIsCurrent
<1>8. FailureIsRemembered'
  BY DEF IndInv, OverlayTypeOK, FailureIsRemembered, ValidateWith
<1> QED
  BY <1>4, <1>5, <1>6, <1>7, <1>8 DEF IndInv

\* validateLayers() establishes the agreement anew.
LEMMA ValidateIndInv == IndInv /\ validateLayers => IndInv'
<1> SUFFICES ASSUME IndInv, validateLayers PROVE IndInv'
  OBVIOUS
<1> USE DEF validateLayers, screenVars
<1>1. CASE OverlayAllowed /\ Largest # {}
  <2>1. PICK overlay \in Largest : ValidateWith(overlay)
    BY <1>1
  <2>2. overlay \in Live
    BY DEF Largest
  <2> QED
    BY <1>1, <2>1, <2>2, ValidateWithIndInv DEF OverlayAllowed
<1>2. CASE ~(OverlayAllowed /\ Largest # {})
  BY <1>2, ValidateWithIndInv
<1> QED
  BY <1>1, <1>2

\* Every step of SurfaceFlinger, the adapter and the user preserves it.
LEMMA NextIndInv == IndInv /\ [OverlayNext]_hwcVars => IndInv'
<1> SUFFICES ASSUME IndInv, [OverlayNext]_hwcVars PROVE IndInv'
  OBVIOUS
<1>1. ASSUME addLayer
      PROVE  IndInv'
  <2>1. OverlayTypeOK'
    BY <1>1 DEF IndInv, addLayer, With, NewLayer, Invalidate, adapterVars, overlayVars,
       screenVars, OverlayTypeOK, Live, Types, Formats
  <2>2. TypesAgree'
    BY <1>1 DEF IndInv, addLayer, With, NewLayer, Invalidate, adapterVars, overlayVars,
       screenVars, TypesAgree, OverlayTypeOK, Live, ValidationHolds
  <2>3. ValidationHolds'
    BY <1>1 DEF IndInv, addLayer, With, NewLayer, Invalidate, adapterVars, overlayVars,
       screenVars, ValidationHolds, OverlayTypeOK, TypesAgree, Live, Overlaid
  <2>4. TargetIsCurrent'
    BY <1>1 DEF IndInv, addLayer, With, NewLayer, Invalidate, adapterVars, overlayVars,
       screenVars, TargetIsCurrent, OverlayTypeOK, Live, SfDraws
  <2>5. FailureIsRemembered'
    BY <1>1 DEF IndInv, addLayer, With, NewLayer, Invalidate, adapterVars, overlayVars,
       screenVars, FailureIsRemembered, OverlayTypeOK, Live, TypesAgree, ValidationHolds,
       TargetIsCurrent, SfDraws, Overlaid
  <2> QED BY <2>1, <2>2, <2>3, <2>4, <2>5 DEF IndInv
<1>2. ASSUME NEW r \in Live, removeLayer(r)
      PROVE  IndInv'
  <2>1. OverlayTypeOK'
    BY <1>2 DEF IndInv, removeLayer, Without, Invalidate, adapterVars, overlayVars,
       screenVars, OverlayTypeOK, Live, Types, Formats
  <2>2. TypesAgree'
    BY <1>2 DEF IndInv, removeLayer, Without, Invalidate, adapterVars, overlayVars,
       screenVars, TypesAgree, OverlayTypeOK, Live, ValidationHolds
  <2>3. ValidationHolds'
    BY <1>2 DEF IndInv, removeLayer, Without, Invalidate, adapterVars, overlayVars,
       screenVars, ValidationHolds, OverlayTypeOK, TypesAgree, Live, Overlaid
  <2>4. TargetIsCurrent'
    BY <1>2 DEF IndInv, removeLayer, Without, Invalidate, adapterVars, overlayVars,
       screenVars, TargetIsCurrent, OverlayTypeOK, Live, SfDraws
  <2>5. FailureIsRemembered'
    BY <1>2 DEF IndInv, removeLayer, Without, Invalidate, adapterVars, overlayVars,
       screenVars, FailureIsRemembered, OverlayTypeOK, Live, TypesAgree, ValidationHolds,
       TargetIsCurrent, SfDraws, Overlaid
  <2> QED BY <2>1, <2>2, <2>3, <2>4, <2>5 DEF IndInv
<1>3. ASSUME NEW r \in Live, NEW format \in Formats, setLayerBuffer(r, format)
      PROVE  IndInv'
  <2>1. OverlayTypeOK'
    BY <1>3 DEF IndInv, setLayerBuffer, SetField, adapterVars, overlayVars, screenVars,
       OverlayTypeOK, Live, Types, Formats
  <2>2. TypesAgree'
    BY <1>3 DEF IndInv, setLayerBuffer, SetField, adapterVars, overlayVars, screenVars,
       TypesAgree, OverlayTypeOK, Live, ValidationHolds
  <2>3. ValidationHolds'
    BY <1>3 DEF IndInv, setLayerBuffer, SetField, adapterVars, overlayVars, screenVars,
       ValidationHolds, OverlayTypeOK, TypesAgree, Live, Overlaid
  <2>4. TargetIsCurrent'
    BY <1>3 DEF IndInv, setLayerBuffer, SetField, adapterVars, overlayVars, screenVars,
       TargetIsCurrent, OverlayTypeOK, Live, SfDraws
  <2>5. FailureIsRemembered'
    BY <1>3 DEF IndInv, setLayerBuffer, SetField, adapterVars, overlayVars, screenVars,
       FailureIsRemembered, OverlayTypeOK, Live, TypesAgree, ValidationHolds, TargetIsCurrent,
       SfDraws, Overlaid
  <2> QED BY <2>1, <2>2, <2>3, <2>4, <2>5 DEF IndInv
<1>4. ASSUME NEW r \in Live, NEW type \in Types, setLayerCompositionType(r, type)
      PROVE  IndInv'
  <2>1. OverlayTypeOK'
    BY <1>4 DEF IndInv, setLayerCompositionType, SetField, adapterVars, overlayVars,
       screenVars, OverlayTypeOK, Live, Types, Formats
  <2>2. TypesAgree'
    BY <1>4 DEF IndInv, setLayerCompositionType, SetField, adapterVars, overlayVars,
       screenVars, TypesAgree, OverlayTypeOK, Live, ValidationHolds
  <2>3. ValidationHolds'
    BY <1>4 DEF IndInv, setLayerCompositionType, SetField, adapterVars, overlayVars,
       screenVars, ValidationHolds, OverlayTypeOK, TypesAgree, Live, Overlaid
  <2>4. TargetIsCurrent'
    BY <1>4 DEF IndInv, setLayerCompositionType, SetField, adapterVars, overlayVars,
       screenVars, TargetIsCurrent, OverlayTypeOK, Live, SfDraws
  <2>5. FailureIsRemembered'
    BY <1>4 DEF IndInv, setLayerCompositionType, SetField, adapterVars, overlayVars,
       screenVars, FailureIsRemembered, OverlayTypeOK, Live, TypesAgree, ValidationHolds,
       TargetIsCurrent, SfDraws, Overlaid
  <2> QED BY <2>1, <2>2, <2>3, <2>4, <2>5 DEF IndInv
<1>5. ASSUME NEW r \in Live, NEW fits \in BOOLEAN, NEW area \in Areas,
            setLayerGeometry(r, fits, area)
      PROVE  IndInv'
  <2>1. OverlayTypeOK'
    <3>1. [mLayerStates[r] EXCEPT !.fits = fits, !.area = area] \in
             [requestedType : Types, validatedType : Types, buffer : Formats, fits : BOOLEAN,
              area : Nat]
      BY <1>5, OverlayAssumption DEF IndInv, OverlayTypeOK, Live
    <3> QED
      BY <1>5, <3>1 DEF IndInv, setLayerGeometry, SetField, adapterVars, overlayVars,
         screenVars, OverlayTypeOK, Live
  <2>2. TypesAgree'
    BY <1>5 DEF IndInv, setLayerGeometry, SetField, adapterVars, overlayVars, screenVars,
       TypesAgree, OverlayTypeOK, Live, ValidationHolds
  <2>3. ValidationHolds'
    BY <1>5 DEF IndInv, setLayerGeometry, SetField, adapterVars, overlayVars, screenVars,
       ValidationHolds, OverlayTypeOK, TypesAgree, Live, Overlaid
  <2>4. TargetIsCurrent'
    BY <1>5 DEF IndInv, setLayerGeometry, SetField, adapterVars, overlayVars, screenVars,
       TargetIsCurrent, OverlayTypeOK, Live, SfDraws
  <2>5. FailureIsRemembered'
    BY <1>5 DEF IndInv, setLayerGeometry, SetField, adapterVars, overlayVars, screenVars,
       FailureIsRemembered, OverlayTypeOK, Live, TypesAgree, ValidationHolds, TargetIsCurrent,
       SfDraws, Overlaid
  <2> QED BY <2>1, <2>2, <2>3, <2>4, <2>5 DEF IndInv
<1>6. ASSUME validateLayers
      PROVE  IndInv'
  BY <1>6, ValidateIndInv
<1>7. ASSUME ApplyChanges
      PROVE  IndInv'
  <2>1. OverlayTypeOK'
    <3>1. Live' = Live /\ mLayerStates' \in [Live -> [requestedType : Types,
             validatedType : Types, buffer : Formats, fits : BOOLEAN, area : Nat]]
      <4>1. CASE mLayerStates' = mLayerStates
        BY <4>1 DEF IndInv, OverlayTypeOK, Live
      <4>2. CASE acceptChanges
        <5>1. \A l \in Live : [mLayerStates[l] EXCEPT
                                   !.requestedType = mLayerStates[l].validatedType]
                 \in [requestedType : Types, validatedType : Types, buffer : Formats,
                      fits : BOOLEAN, area : Nat]
          BY DEF IndInv, OverlayTypeOK
        <5> QED
          BY <4>2, <5>1 DEF acceptChanges, Live
      <4> QED
        BY <1>7, <4>1, <4>2 DEF ApplyChanges
    <3>2. sfTypes' \in [Live -> Types]
      BY <1>7 DEF IndInv, ApplyChanges, OverlayTypeOK
    <3>3. mChangedTypes' \in [DOMAIN mChangedTypes' -> Types] /\ DOMAIN mChangedTypes' \subseteq Live
      BY <1>7 DEF IndInv, ApplyChanges, OverlayTypeOK
    <3>4. /\ mNextLayerId' = mNextLayerId /\ failedInRow' = failedInRow
          /\ overlayFailed' = overlayFailed
      BY <1>7 DEF ApplyChanges, screenVars
    <3>5. /\ mLayerStates' \in [Live' -> [requestedType : Types, validatedType : Types,
                                         buffer : Formats, fits : BOOLEAN, area : Nat]]
          /\ sfTypes' \in [Live' -> Types] /\ DOMAIN mChangedTypes' \subseteq Live'
          /\ Live' \subseteq 1 .. mNextLayerId'
      BY <3>1, <3>2, <3>3, <3>4 DEF IndInv, OverlayTypeOK
    <3>6. mClearClientTargetLayers' \subseteq Live'
      BY <1>7, <3>1 DEF IndInv, ApplyChanges, OverlayTypeOK
    <3> QED
      BY <1>7, <3>3, <3>4, <3>5, <3>6 DEF IndInv, ApplyChanges, overlayVars, OverlayTypeOK
  <2>2. TypesAgree'
    BY <1>7 DEF IndInv, ApplyChanges, acceptChanges, adapterVars, overlayVars, screenVars,
       TypesAgree, OverlayTypeOK, Live, ValidationHolds
  <2>3. ValidationHolds'
    BY <1>7 DEF IndInv, ApplyChanges, acceptChanges, adapterVars, overlayVars, screenVars,
       ValidationHolds, OverlayTypeOK, TypesAgree, Live, Overlaid
  <2>4. TargetIsCurrent'
    BY <1>7 DEF IndInv, ApplyChanges, acceptChanges, adapterVars, overlayVars, screenVars,
       TargetIsCurrent, OverlayTypeOK, Live, SfDraws
  <2>5. FailureIsRemembered'
    BY <1>7 DEF IndInv, ApplyChanges, acceptChanges, adapterVars, overlayVars, screenVars,
       FailureIsRemembered, OverlayTypeOK, Live, TypesAgree, ValidationHolds, TargetIsCurrent,
       SfDraws, Overlaid
  <2> QED BY <2>1, <2>2, <2>3, <2>4, <2>5 DEF IndInv
<1>8. ASSUME ChangesRefused
      PROVE  IndInv'
  <2>1. OverlayTypeOK'
    BY <1>8 DEF IndInv, ChangesRefused, adapterVars, overlayVars, screenVars, OverlayTypeOK, Live,
       Types, Formats
  <2>2. TypesAgree'
    BY <1>8 DEF IndInv, ChangesRefused, adapterVars, overlayVars, screenVars, TypesAgree,
       OverlayTypeOK, Live, ValidationHolds
  <2>3. ValidationHolds'
    BY <1>8 DEF IndInv, ChangesRefused, adapterVars, overlayVars, screenVars,
       ValidationHolds, OverlayTypeOK, TypesAgree, Live, Overlaid
  <2>4. TargetIsCurrent'
    BY <1>8 DEF IndInv, ChangesRefused, adapterVars, overlayVars, screenVars,
       TargetIsCurrent, OverlayTypeOK, Live, SfDraws
  <2>5. FailureIsRemembered'
    BY <1>8 DEF IndInv, ChangesRefused, adapterVars, overlayVars, screenVars,
       FailureIsRemembered, OverlayTypeOK, Live, TypesAgree, ValidationHolds, TargetIsCurrent,
       SfDraws, Overlaid
  <2> QED BY <2>1, <2>2, <2>3, <2>4, <2>5 DEF IndInv
<1>9. ASSUME setBuffer
      PROVE  IndInv'
  <2>1. OverlayTypeOK'
    BY <1>9 DEF IndInv, setBuffer, adapterVars, overlayVars, screenVars, OverlayTypeOK, Live,
       Types, Formats
  <2>2. TypesAgree'
    BY <1>9 DEF IndInv, setBuffer, adapterVars, overlayVars, screenVars, TypesAgree, OverlayTypeOK,
       Live, ValidationHolds
  <2>3. ValidationHolds'
    BY <1>9 DEF IndInv, setBuffer, adapterVars, overlayVars, screenVars, ValidationHolds,
       OverlayTypeOK, TypesAgree, Live, Overlaid
  <2>4. TargetIsCurrent'
    BY <1>9 DEF IndInv, setBuffer, adapterVars, overlayVars, screenVars, TargetIsCurrent,
       OverlayTypeOK, Live, SfDraws
  <2>5. FailureIsRemembered'
    BY <1>9 DEF IndInv, setBuffer, adapterVars, overlayVars, screenVars,
       FailureIsRemembered, OverlayTypeOK, Live, TypesAgree, ValidationHolds, TargetIsCurrent,
       SfDraws, Overlaid
  <2> QED BY <2>1, <2>2, <2>3, <2>4, <2>5 DEF IndInv
<1>10. ASSUME PresentRefused
      PROVE  IndInv'
  <2>1. OverlayTypeOK'
    BY <1>10 DEF IndInv, PresentRefused, adapterVars, overlayVars, screenVars, OverlayTypeOK, Live,
       Types, Formats
  <2>2. TypesAgree'
    BY <1>10 DEF IndInv, PresentRefused, adapterVars, overlayVars, screenVars, TypesAgree,
       OverlayTypeOK, Live, ValidationHolds
  <2>3. ValidationHolds'
    BY <1>10 DEF IndInv, PresentRefused, adapterVars, overlayVars, screenVars,
       ValidationHolds, OverlayTypeOK, TypesAgree, Live, Overlaid
  <2>4. TargetIsCurrent'
    BY <1>10 DEF IndInv, PresentRefused, adapterVars, overlayVars, screenVars,
       TargetIsCurrent, OverlayTypeOK, Live, SfDraws
  <2>5. FailureIsRemembered'
    BY <1>10 DEF IndInv, PresentRefused, adapterVars, overlayVars, screenVars,
       FailureIsRemembered, OverlayTypeOK, Live, TypesAgree, ValidationHolds, TargetIsCurrent,
       SfDraws, Overlaid
  <2> QED BY <2>1, <2>2, <2>3, <2>4, <2>5 DEF IndInv
<1>11. ASSUME PostOverlay
      PROVE  IndInv'
  <2>1. OverlayTypeOK'
    BY <1>11 DEF IndInv, PostOverlay, Show, OverlayShowsAll, adapterVars, overlayVars,
       screenVars, OverlayTypeOK, Live, Types, Formats
  <2>2. TypesAgree'
    BY <1>11 DEF IndInv, PostOverlay, Show, OverlayShowsAll, adapterVars, overlayVars,
       screenVars, TypesAgree, OverlayTypeOK, Live, ValidationHolds
  <2>3. ValidationHolds'
    BY <1>11 DEF IndInv, PostOverlay, Show, OverlayShowsAll, adapterVars, overlayVars,
       screenVars, ValidationHolds, OverlayTypeOK, TypesAgree, Live, Overlaid
  <2>4. TargetIsCurrent'
    BY <1>11 DEF IndInv, PostOverlay, Show, OverlayShowsAll, adapterVars, overlayVars,
       screenVars, TargetIsCurrent, OverlayTypeOK, Live, SfDraws
  <2>5. FailureIsRemembered'
    <3>1. SfDraws = Live \ {mOverlayLayer}
      BY <1>11, AgreementOnOwners DEF PostOverlay, OneOwnerPerLayer
    <3>2. ASSUME mOverlayUsesClientTarget PROVE OverlayShowsAll
      <4>1. SfDraws # {} /\ mClearClientTargetLayers = {mOverlayLayer}
        BY <1>11, <3>1, <3>2 DEF IndInv, ValidationHolds, PostOverlay, Overlaid
      <4>2. drawn /\ mBuffer = [layers |-> SfDraws, holes |-> mClearClientTargetLayers]
        BY <1>11, <4>1 DEF IndInv, TargetIsCurrent, PostOverlay
      <4> QED
        BY <3>1, <3>2, <4>1, <4>2 DEF OverlayShowsAll
    <3>3. ASSUME ~mOverlayUsesClientTarget PROVE OverlayShowsAll
      <4>1. Live = {mOverlayLayer}
        BY <1>11, <3>3 DEF IndInv, ValidationHolds, PostOverlay
      <4> QED
        BY <3>3, <4>1 DEF OverlayShowsAll
    <3>4. OverlayShowsAll
      BY <3>2, <3>3
    <3> QED
      BY <1>11, <3>4 DEF IndInv, PostOverlay, Show, overlayVars, FailureIsRemembered
  <2> QED BY <2>1, <2>2, <2>3, <2>4, <2>5 DEF IndInv
<1>12. ASSUME PostOverlayFails
      PROVE  IndInv'
  <2>1. OverlayTypeOK'
    <3>1. failedInRow' \in Nat
      <4>1. failedInRow' \in {0, failedInRow, failedInRow + 1}
        BY <1>12 DEF PostOverlayFails, FbPost, Show
      <4> QED
        BY <4>1 DEF IndInv, OverlayTypeOK
    <3>2. UNCHANGED <<mLayerStates, mNextLayerId, mChangedTypes, mClearClientTargetLayers,
                      mOverlayLayer, property, sfTypes, drawn>>
      BY <1>12 DEF PostOverlayFails, adapterVars
    <3>3. /\ state' = "MODIFIED" /\ phase' = "setup" /\ mOverlayDisabledByError' = TRUE
          /\ overlayFailed' = TRUE /\ mHasOverlayLayer' = FALSE /\ mOverlayUsesClientTarget' = FALSE
      BY <1>12 DEF PostOverlayFails, DisableOverlay
    <3> QED
      BY <3>1, <3>2, <3>3 DEF IndInv, OverlayTypeOK, Live
  <2>2. TypesAgree'
    BY <1>12 DEF IndInv, PostOverlayFails, DisableOverlay, FbPost, Show, FbPicture, adapterVars,
       overlayVars, screenVars, TypesAgree, OverlayTypeOK, Live, ValidationHolds
  <2>3. ValidationHolds'
    BY <1>12 DEF IndInv, PostOverlayFails, DisableOverlay, FbPost, Show, FbPicture, adapterVars,
       overlayVars, screenVars, ValidationHolds, OverlayTypeOK, TypesAgree, Live, Overlaid
  <2>4. TargetIsCurrent'
    BY <1>12 DEF IndInv, PostOverlayFails, DisableOverlay, FbPost, Show, FbPicture, adapterVars,
       overlayVars, screenVars, TargetIsCurrent, OverlayTypeOK, Live, SfDraws
  <2>5. FailureIsRemembered'
    BY <1>12 DEF IndInv, PostOverlayFails, DisableOverlay, FbPost, Show, FbPicture, adapterVars,
       overlayVars, screenVars, FailureIsRemembered, OverlayTypeOK, Live, TypesAgree,
       ValidationHolds, TargetIsCurrent, SfDraws, Overlaid
  <2> QED BY <2>1, <2>2, <2>3, <2>4, <2>5 DEF IndInv
<1>13. ASSUME PostBuffer
      PROVE  IndInv'
  <2>1. OverlayTypeOK'
    BY <1>13 DEF IndInv, PostBuffer, FbPost, Show, FbPicture, adapterVars, overlayVars, screenVars,
       OverlayTypeOK, Live, Types, Formats
  <2>2. TypesAgree'
    BY <1>13 DEF IndInv, PostBuffer, FbPost, Show, FbPicture, adapterVars, overlayVars, screenVars,
       TypesAgree, OverlayTypeOK, Live, ValidationHolds
  <2>3. ValidationHolds'
    BY <1>13 DEF IndInv, PostBuffer, FbPost, Show, FbPicture, adapterVars, overlayVars, screenVars,
       ValidationHolds, OverlayTypeOK, TypesAgree, Live, Overlaid
  <2>4. TargetIsCurrent'
    BY <1>13 DEF IndInv, PostBuffer, FbPost, Show, FbPicture, adapterVars, overlayVars, screenVars,
       TargetIsCurrent, OverlayTypeOK, Live, SfDraws
  <2>5. FailureIsRemembered'
    <3>1. ~mHasOverlayLayer
      BY <1>13 DEF IndInv, PostBuffer, FailureIsRemembered
    <3>2. SfDraws = Live
      BY <1>13, <3>1, AgreementOnOwners DEF PostBuffer, OneOwnerPerLayer
    <3>3. FbPicture(FALSE) = "complete"
      <4>1. SfDraws # {} /\ mClearClientTargetLayers = {}
        BY <1>13, <3>1, <3>2 DEF IndInv, ValidationHolds, PostBuffer
      <4>2. drawn /\ mBuffer = [layers |-> SfDraws, holes |-> mClearClientTargetLayers]
        BY <1>13, <4>1 DEF IndInv, TargetIsCurrent, PostBuffer
      <4>3. mBuffer.layers = Live /\ mBuffer.holes = {}
        BY <3>2, <4>1, <4>2
      <4> QED
        BY <4>2, <4>3 DEF FbPicture
    <3> QED
      BY <1>13, <3>3 DEF IndInv, PostBuffer, FbPost, Show, overlayVars, FailureIsRemembered
  <2> QED BY <2>1, <2>2, <2>3, <2>4, <2>5 DEF IndInv
<1>14. ASSUME PostNothing
      PROVE  IndInv'
  <2>1. OverlayTypeOK'
    BY <1>14 DEF IndInv, PostNothing, adapterVars, overlayVars, screenVars, OverlayTypeOK, Live,
       Types, Formats
  <2>2. TypesAgree'
    BY <1>14 DEF IndInv, PostNothing, adapterVars, overlayVars, screenVars, TypesAgree,
       OverlayTypeOK, Live, ValidationHolds
  <2>3. ValidationHolds'
    BY <1>14 DEF IndInv, PostNothing, adapterVars, overlayVars, screenVars, ValidationHolds,
       OverlayTypeOK, TypesAgree, Live, Overlaid
  <2>4. TargetIsCurrent'
    BY <1>14 DEF IndInv, PostNothing, adapterVars, overlayVars, screenVars, TargetIsCurrent,
       OverlayTypeOK, Live, SfDraws
  <2>5. FailureIsRemembered'
    BY <1>14 DEF IndInv, PostNothing, adapterVars, overlayVars, screenVars,
       FailureIsRemembered, OverlayTypeOK, Live, TypesAgree, ValidationHolds, TargetIsCurrent,
       SfDraws, Overlaid
  <2> QED BY <2>1, <2>2, <2>3, <2>4, <2>5 DEF IndInv
<1>15. ASSUME SetProperty
      PROVE  IndInv'
  <2>1. OverlayTypeOK'
    BY <1>15 DEF IndInv, SetProperty, adapterVars, overlayVars, screenVars, OverlayTypeOK, Live,
       Types, Formats
  <2>2. TypesAgree'
    BY <1>15 DEF IndInv, SetProperty, adapterVars, overlayVars, screenVars, TypesAgree,
       OverlayTypeOK, Live, ValidationHolds
  <2>3. ValidationHolds'
    BY <1>15 DEF IndInv, SetProperty, adapterVars, overlayVars, screenVars, ValidationHolds,
       OverlayTypeOK, TypesAgree, Live, Overlaid
  <2>4. TargetIsCurrent'
    BY <1>15 DEF IndInv, SetProperty, adapterVars, overlayVars, screenVars, TargetIsCurrent,
       OverlayTypeOK, Live, SfDraws
  <2>5. FailureIsRemembered'
    BY <1>15 DEF IndInv, SetProperty, adapterVars, overlayVars, screenVars,
       FailureIsRemembered, OverlayTypeOK, Live, TypesAgree, ValidationHolds, TargetIsCurrent,
       SfDraws, Overlaid
  <2> QED BY <2>1, <2>2, <2>3, <2>4, <2>5 DEF IndInv
<1>16. ASSUME UNCHANGED hwcVars
      PROVE  IndInv'
  <2>1. OverlayTypeOK'
    BY <1>16 DEF IndInv, hwcVars, adapterVars, overlayVars, screenVars, OverlayTypeOK, Live, Types,
       Formats
  <2>2. TypesAgree'
    BY <1>16 DEF IndInv, hwcVars, adapterVars, overlayVars, screenVars, TypesAgree, OverlayTypeOK,
       Live, ValidationHolds
  <2>3. ValidationHolds'
    BY <1>16 DEF IndInv, hwcVars, adapterVars, overlayVars, screenVars, ValidationHolds,
       OverlayTypeOK, TypesAgree, Live, Overlaid
  <2>4. TargetIsCurrent'
    BY <1>16 DEF IndInv, hwcVars, adapterVars, overlayVars, screenVars, TargetIsCurrent,
       OverlayTypeOK, Live, SfDraws
  <2>5. FailureIsRemembered'
    BY <1>16 DEF IndInv, hwcVars, adapterVars, overlayVars, screenVars, FailureIsRemembered,
       OverlayTypeOK, Live, TypesAgree, ValidationHolds, TargetIsCurrent, SfDraws, Overlaid
  <2> QED BY <2>1, <2>2, <2>3, <2>4, <2>5 DEF IndInv
<1> QED
  BY <1>1, <1>2, <1>3, <1>4, <1>5, <1>6, <1>7, <1>8, <1>9, <1>10, <1>11, <1>12, <1>13, <1>14, <1>15, <1>16
     DEF OverlayNext

\* The inductive invariant holds in every reachable state.
LEMMA Invariance == OverlaySpec => []IndInv
  BY InitIndInv, NextIndInv, PTL DEF OverlaySpec

\* SurfaceFlinger and the adapter agree on who shows each layer of a frame that
\* can be presented.
THEOREM LayersHaveOneOwner == OverlaySpec => []OneOwnerPerLayer
  BY Invariance, AgreementOnOwners, PTL

\* No frame is presented with a layer missing or shown twice, except in the call
\* in which the overlay fails.
THEOREM FramesAreComplete == OverlaySpec => []NoWrongFrame
  BY Invariance, PTL DEF IndInv, FailureIsRemembered, NoWrongFrame

\* A failure of the overlay costs one frame.
THEOREM FailureCostsOneFrame == OverlaySpec => []OneFrameLost
<1>1. IndInv => OneFrameLost
  BY DEF IndInv, FailureIsRemembered, OneFrameLost
<1> QED
  BY Invariance, <1>1, PTL
=============================================================================

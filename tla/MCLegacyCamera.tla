--------------------------- MODULE MCLegacyCamera ---------------------------
\* The camera session and the CameraMetadata class that the camera blobs link
\* against.  They share nothing, so a behaviour runs one of them; the other stays
\* where it began.
EXTENDS LegacyCameraSession, LegacyCameraMetadata, TLC

VARIABLE part  \* the part that runs: "session" or "metadata"

MCInit == /\ Init /\ MetadataInit
          /\ part \in {"session", "metadata"}
          /\ part = "session" => locked = [o \in Objects |-> FALSE]

MCNext ==
    \/ part = "session" /\ Next /\ UNCHANGED <<metadataVars, part>>
    \/ part = "metadata" /\ MetadataNext /\ UNCHANGED <<vars, part>>

MCSpec == /\ MCInit /\ [][MCNext]_<<vars, metadataVars, part>>
          /\ WF_vars(part = "session" /\ RequestThread)

\* Only the metadata have symmetric values.  Where the session runs they are in a
\* state that every permutation maps to itself: nothing is identified there, and
\* the liveness of the session is checked as it stands.
Symmetry == Permutations(Objects) \cup Permutations(Addresses) \cup Permutations(Tags)
=============================================================================

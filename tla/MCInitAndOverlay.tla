-------------------------- MODULE MCInitAndOverlay --------------------------
\* How the multihal comes up, and the HWC adapter.  They live in different
\* processes and share nothing, so a behaviour runs one of them; the other stays
\* where it began.
EXTENDS MCMultiHalInit, HwcOverlay

VARIABLE part  \* the part that runs: "init" or "hwc"

MCInit == /\ Init /\ OverlayInit
          /\ part \in {"init", "hwc"}
          /\ part = "init" => ~property

MCNext ==
    \/ part = "init" /\ Next /\ UNCHANGED <<hwcVars, part>>
    \/ part = "hwc" /\ OverlayNext /\ UNCHANGED <<vars, part>>

MCFairness ==
    /\ WF_vars(part = "init" /\ PollLocks) /\ WF_vars(part = "init" /\ PollUnlocks)
    /\ \A t \in Threads : WF_vars(part = "init" /\ InCall(t))

MCSpec == MCInit /\ [][MCNext]_<<vars, hwcVars, part>> /\ MCFairness
=============================================================================

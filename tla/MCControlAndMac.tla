-------------------------- MODULE MCControlAndMac --------------------------
\* The control calls of the multihal and mac_addr_normalization.  Both are code
\* that one thread runs at a time, and they share nothing, so a behaviour runs one
\* of them; the other stays where it began.
\*
\* The control calls are those on an instance with a sensor of a sub-HAL without
\* batch() and one of a 1.4 sub-HAL, numbered the other way round in their sub-HALs,
\* and a sensor whose device is missing because an earlier sub-HAL failed to open.
EXTENDS MultiHalControl, MacAddr

MCVersion == [i \in {0, 1} |-> IF i = 0 THEN V1_0 ELSE V1_4]
MCGlobalToFull == <<[moduleIndex |-> 0, localHandle |-> 2], [moduleIndex |-> 1, localHandle |-> 1],
                    [moduleIndex |-> 2, localHandle |-> 1]>>

VARIABLE part  \* the part that runs: "control" or "mac"

MCInit == /\ ControlInit /\ Init
          /\ part \in {"control", "mac"}
          /\ part = "control" => path = [p \in Paths |-> NoFile]

MCNext ==
    \/ part = "control" /\ ControlNext /\ UNCHANGED <<vars, part>>
    \/ part = "mac" /\ Next /\ UNCHANGED <<controlVars, part>>

MCSpec == MCInit /\ [][MCNext]_<<controlVars, vars, part>>
=============================================================================

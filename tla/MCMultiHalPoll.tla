--------------------------- MODULE MCMultiHalPoll ---------------------------
\* Instances of MultiHalPoll: every sub-HAL has registered local handle 1; a
\* handle 2 in an event is unknown.  Good events, events to be dropped and
\* META_DATA events take turns; the fourth is about either handle.
EXTENDS MultiHalPoll

MCFullToGlobal == [f \in Subs \X {1} |-> f[1] + 1]

Kind(t, h) == [type |-> t, handle |-> h]
MCEventKinds ==
    [n \in 1 .. MaxEvents |->
        CASE n = 1 -> {Kind("data", 1)}
          [] n = 2 -> {Kind("data", 2)}
          [] n = 3 -> {Kind("meta_data", 1)}
          [] n = 4 -> {Kind("meta_data", 1), Kind("meta_data", 2)}
          [] OTHER -> {Kind("data", 1)}]
=============================================================================

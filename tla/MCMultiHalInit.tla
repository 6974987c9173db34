--------------------------- MODULE MCMultiHalInit ---------------------------
\* Instances of MultiHalInit with four sub-modules: "a" lists two sensors, "b"
\* lists one, with a local handle "a" uses too, and "none" and "late" list none.
EXTENDS MultiHalInit

MCPaths == <<"a", "none", "b", "late">>
MCSensorsOf == [a |-> <<1, 2>>, none |-> <<>>, b |-> <<1>>, late |-> <<>>]
=============================================================================

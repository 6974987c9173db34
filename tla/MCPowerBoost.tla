---------------------------- MODULE MCPowerBoost ----------------------------
\* Instances of PowerBoost: hint values below, at and above the limits.
EXTENDS PowerBoost

MCDurations == {-1, 1, 5}
=============================================================================

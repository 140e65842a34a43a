--------------------------- MODULE MCRelaySession ---------------------------
\* Module RelaySession for TLC: units of fifteen seconds.
EXTENDS RelaySession
=============================================================================

---------------------------- MODULE MCCommBridge ----------------------------
(* Instances of CommBridge for TLC.                                        *)
EXTENDS CommBridge

MCBudgets == {-1, 0, 4}
MCSinks == {"socket", "loopback"}
=============================================================================

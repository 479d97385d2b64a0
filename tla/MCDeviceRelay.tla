---------------------------- MODULE MCDeviceRelay ----------------------------
(* Instances of DeviceRelay for TLC.                                        *)
EXTENDS DeviceRelay

CONSTANTS p1, p2, x, y
=============================================================================

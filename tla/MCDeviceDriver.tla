--------------------------- MODULE MCDeviceDriver ---------------------------
(* Instances of DeviceDriver for TLC. *)
EXTENDS DeviceDriver
=============================================================================

-------------------------- MODULE MCDeviceListener --------------------------
(* Instances of DeviceListener for TLC.  All numbers share one bucket. *)
EXTENDS DeviceListener

CONSTANTS d1, d2

MCSerial == {d1, d2}
MCLong == {d1}
MCKey == 0..3
MCHash == [k \in MCKey |-> k]
=============================================================================

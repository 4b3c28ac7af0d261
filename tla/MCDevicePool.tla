---------------------------- MODULE MCDevicePool ----------------------------
(* A pool of three devices, two clients, and filters that differ. *)
EXTENDS DevicePool

CONSTANTS d1, d2, d3

\* No filter, and one that leaves a device out.
SomeFilters == {Device, {d1, d2}}
=============================================================================

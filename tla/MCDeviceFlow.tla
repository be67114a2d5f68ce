---------------------------- MODULE MCDeviceFlow ----------------------------
(***************************************************************************)
(* TLC's values: a provider that announces no interval, the smallest, or   *)
(* one above it, and codes that last for no time, a short or a long one.   *)
(***************************************************************************)
EXTENDS DeviceFlow

MCIntervals == {0, 5, 10}
MCLifetimes == {0, 10, 35}
=============================================================================

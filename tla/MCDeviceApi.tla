---------------------------- MODULE MCDeviceApi ----------------------------
(* Two members of staff, one of them in no row of `staff', share the first   *)
(* device; the second is only ever named by requests that come with the      *)
(* token of the first.  A token lasts one tick of the clock.                 *)
EXTENDS DeviceApi, TLC

CONSTANTS owner, stranger, d1, d2

MCLogsIn == d1 :> {owner, stranger} @@ d2 :> {}
=============================================================================

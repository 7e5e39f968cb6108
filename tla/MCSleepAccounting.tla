------------------------- MODULE MCSleepAccounting -------------------------
(***************************************************************************)
(* Instances of SleepAccounting: a few units of vm_clock.                  *)
(***************************************************************************)
EXTENDS SleepAccounting
=============================================================================

------------------------- MODULE MC_DeviceStateStore -------------------------
(***************************************************************************)
(* Model-checking instance of DeviceStateStore: one rollback slot, images  *)
(* carrying rollback index 0 or 1 (enough for a raise and for a red        *)
(* rollback), and three reboots (a crash in a fuse step, the boot after   *)
(* it, and one more).                                                      *)
(***************************************************************************)
EXTENDS DeviceStateStore

MC_Slots == {0}
MC_MaxIndex == 1
MC_MaxBoots == 3

=============================================================================

---------------------------- MODULE MCDiskDriver ----------------------------
(***************************************************************************)
(* TLC instances of DiskDriver: a small and a large disk image.            *)
(***************************************************************************)
EXTENDS DiskDriver, TLC

CONSTANTS small, large

MCSize == (small :> 1) @@ (large :> 2)
=============================================================================

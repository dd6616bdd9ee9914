----------------------------- MODULE MCDiskImage -----------------------------
(***************************************************************************)
(* Instances of DiskImage for TLC: three blocks of two contents, so that   *)
(* images repeat blocks, next to each other and apart.                     *)
(***************************************************************************)
EXTENDS DiskImage

Mixed == <<1, 1, 0>>
=============================================================================

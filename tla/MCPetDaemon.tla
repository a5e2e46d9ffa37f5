---------------------------- MODULE MCPetDaemon ----------------------------
(***************************************************************************)
(* The daemon on a small instance.  The bounds are common to all runs: a   *)
(* queue short enough to overflow, two checkpoints at one address (a       *)
(* client's breakpoint and run_until's own), and counts with a first, a    *)
(* middle and a last arrival.                                              *)
(***************************************************************************)
EXTENDS PetDaemon

ShortQueue    == 4
TwoAtOnce     == 2
ThreeArrivals == 3
=============================================================================

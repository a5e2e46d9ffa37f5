---------------------------- MODULE MCOpsClient ----------------------------
(***************************************************************************)
(* Operations against the daemon with a breakpoint of a user's and two     *)
(* numbers for checkpoints of their own.                                   *)
(***************************************************************************)
EXTENDS OpsClient

ShortQueue    == 4
TwoAtOnce     == 2
=============================================================================

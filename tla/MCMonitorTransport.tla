------------------------- MODULE MCMonitorTransport -------------------------
(***************************************************************************)
(* The transport with calls that time out in the middle of their answers.  *)
(***************************************************************************)
EXTENDS MonitorTransport
=============================================================================

---------------------------- MODULE MCNodeStartup ----------------------------
(* Instances of NodeStartup for TLC.                                       *)
EXTENDS NodeStartup
=============================================================================

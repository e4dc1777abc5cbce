---------------------------- MODULE MCJobChannel ----------------------------
(* Instances of JobChannel for TLC.                                        *)
EXTENDS JobChannel

\* One state; and three, of which two conflict at the higher nonce.
MCOneUpdate == {[nonce |-> 1, cumOwed |-> 1]}
MCThreeUpdates ==
  {[nonce |-> 1, cumOwed |-> 1], [nonce |-> 2, cumOwed |-> 2],
   [nonce |-> 2, cumOwed |-> 3]}
=============================================================================

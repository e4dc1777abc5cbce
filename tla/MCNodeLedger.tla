---------------------------- MODULE MCNodeLedger ----------------------------
(* Instances of NodeLedger for TLC.                                        *)
EXTENDS NodeLedger, TLC

\* Request slots and wallets are interchangeable.
Interchangeable == Permutations(Requests) \cup Permutations(Wallets)

\* A state ahead of anything the node signs in these runs.
MCUnissued == {[nonce |-> 9, cumOwed |-> 0]}
=============================================================================

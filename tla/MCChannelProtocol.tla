-------------------------- MODULE MCChannelProtocol --------------------------
(* Instances of ChannelProtocol for TLC.                                   *)
EXTENDS ChannelProtocol, TLC

\* Tabs and request slots are interchangeable.
Interchangeable == Permutations(Tabs) \cup Permutations(Requests)
=============================================================================

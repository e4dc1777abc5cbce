------------------------------ MODULE MCNodeList ------------------------------
(* Instances of NodeList for TLC.                                          *)
EXTENDS NodeList, TLC

Interchangeable == Permutations(Nodes)
=============================================================================

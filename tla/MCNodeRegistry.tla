--------------------------- MODULE MCNodeRegistry ---------------------------
(* Instances of NodeRegistry for TLC.                                      *)
EXTENDS NodeRegistry, TLC

\* Accounts other than the owner are interchangeable, and so is what they
\* advertise.
Interchangeable == Permutations(Accounts \ {Owner}) \cup Permutations(Metas)
=============================================================================

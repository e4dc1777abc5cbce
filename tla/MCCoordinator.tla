---------------------------- MODULE MCCoordinator ----------------------------
(* Instances of Coordinator for TLC.                                       *)
EXTENDS Coordinator, TLC

\* One offer; and a cheap small one beside a dear large one.
MCOneOffer == {[price |-> 1, cap |-> 1]}
MCOffers == {[price |-> 1, cap |-> 1], [price |-> 2, cap |-> 2]}

\* A job that either offer suits.
MCOneJob == {[maxPrice |-> 2, tokens |-> 1]}
MCNoJobs == {}

Interchangeable == Permutations(Nodes)
=============================================================================

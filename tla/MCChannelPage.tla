---------------------------- MODULE MCChannelPage ----------------------------
(* Instances of ChannelPage for TLC.                                       *)
EXTENDS ChannelPage, TLC

\* Behaviours end once a handler was clicked on another node's state, both
\* channels' opens were cut short, or two readings that no handler waits for
\* are under way.
Bounded ==
  /\ ~astray
  /\ Cardinality(interrupted) <= 1
  /\ Cardinality({r \in reads : ~r.awaited}) <= 1

Interchangeable == Permutations(Nodes)
=============================================================================

------------------------------- MODULE NodeList -------------------------------
(***************************************************************************)
(* Which nodes the dashboard shows: useNodes keeps the coordinator's list, *)
(* useNodeActivity asks every listed node for its activity, and the page   *)
(* shows the listed nodes that were heard of recently.  The activity hook  *)
(* polls on an interval and never waits for an earlier poll, so that polls *)
(* overlap and conclude in any order; a poll concludes with the slowest of *)
(* its nodes.  The coordinator may list any nodes, and its answers arrive  *)
(* at any time and in any order.  Times are ages, in units of one poll.    *)
(***************************************************************************)
EXTENDS Integers, FiniteSets

CONSTANTS
  Nodes,
  Interval,         \* of the polls
  Grace, NewGrace,  \* ALIVE_GRACE_MS, NEW_NODE_GRACE_MS
  MaxDelay,         \* no fetch takes longer
  Settled,          \* ages are not told apart from here on
  Never, NoEntry

ASSUME ListAssumption ==
  /\ Interval \in Nat \ {0}
  /\ Grace \in Nat /\ NewGrace \in Nat /\ MaxDelay \in Nat
  /\ Settled \in Nat /\ Settled > Grace /\ Settled > NewGrace
  /\ Never \notin Nat
  /\ NoEntry \notin [lastOk : Nat \cup {Never}, firstSeen : Nat]

VARIABLES
  up,          \* nodes that run
  rawNodes,    \* useNodes: the coordinator's list
  live, alive, \* useNodeActivity: livenessRef, aliveUrls
  polls, pollIn,  \* its polls under way, and the time to the next one
  steadyFor    \* history: how long a node has been up, or down, and listed

listVars == <<up, rawNodes, live, alive, polls, pollIn, steadyFor>>

\* Dashboard: the nodes on the canvas.
Canvas == rawNodes \cap alive

ListInit ==
  /\ up = Nodes
  /\ rawNodes = {}
  /\ live = [n \in Nodes |-> NoEntry]
  /\ alive = {}
  /\ polls = {}
  /\ pollIn = 0
  /\ steadyFor = [n \in Nodes |-> 0]

---------------------------------------------------------------------------
(* Around the hook.                                                        *)

\* A node stops or runs again; fetches under way may meet it either way.
Flip(n) ==
  /\ up' = IF n \in up THEN up \ {n} ELSE up \cup {n}
  /\ polls' = {[p EXCEPT !.ups = @ \cup ({n} \cap p.over),
                         !.downs = @ \cup ({n} \cap p.over)] : p \in polls}
  /\ steadyFor' = [steadyFor EXCEPT ![n] = 0]
  /\ UNCHANGED <<rawNodes, live, alive, pollIn>>

\* useNodes: a list arrives and is taken; after an error the last one stays.
ListArrives(nodes) ==
  /\ rawNodes' = nodes
  /\ steadyFor' = [n \in Nodes |->
       IF (n \in rawNodes) = (n \in nodes) THEN steadyFor[n] ELSE 0]
  /\ UNCHANGED <<up, live, alive, polls, pollIn>>

---------------------------------------------------------------------------
(* useNodeActivity.                                                        *)

\* A poll over the nodes of the latest render; it makes an entry for new ones.
Seeded(current) ==
  [n \in Nodes |-> IF n \in current /\ live[n] = NoEntry
                   THEN [lastOk |-> Never, firstSeen |-> 0] ELSE live[n]]
PollNodes ==
  /\ pollIn = 0
  /\ pollIn' = Interval
  /\ live' = Seeded(rawNodes)
  /\ IF rawNodes = {}
     THEN alive' = {} /\ UNCHANGED polls
     ELSE /\ polls' = polls \cup {[over |-> rawNodes, ups |-> rawNodes \cap up,
                                   downs |-> rawNodes \ up, age |-> 0]}
          /\ UNCHANGED alive
  /\ UNCHANGED <<up, rawNodes, steadyFor>>

\* Whether an entry counts as alive now.
IsAlive_StaysNew(entry) ==
  IF entry.lastOk = Never THEN TRUE ELSE entry.lastOk <= Grace
IsAlive(entry) ==
  IF entry.lastOk = Never THEN entry.firstSeen <= NewGrace
  ELSE entry.lastOk <= Grace

\* The entries after a poll: answers count from now on, and entries of nodes
\* that were not polled are dropped.
Concluded_KeepsLastOk(over, ok) ==
  [n \in Nodes |->
    IF n \notin over THEN NoEntry
    ELSE IF n \in ok /\ live[n] = NoEntry THEN [lastOk |-> 0, firstSeen |-> 0]
    ELSE live[n]]
Concluded(over, ok) ==
  [n \in Nodes |->
    IF n \notin over THEN NoEntry
    ELSE IF n \notin ok THEN live[n]
    ELSE IF live[n] = NoEntry THEN [lastOk |-> 0, firstSeen |-> 0]
    ELSE [live[n] EXCEPT !.lastOk = 0]]

\* The last fetch of a poll concludes: every node answered, or failed to, at
\* some time since the poll began.
Conclude(p, ok) ==
  /\ ok \subseteq p.ups /\ p.over \ ok \subseteq p.downs
  /\ polls' = polls \ {p}
  /\ live' = Concluded(p.over, ok)
  /\ alive' = {n \in p.over : live'[n] # NoEntry /\ IsAlive(live'[n])}
  /\ UNCHANGED <<up, rawNodes, pollIn, steadyFor>>

---------------------------------------------------------------------------

Older(age) == IF age = Never \/ age = Settled THEN age ELSE age + 1
TimePasses ==
  /\ pollIn > 0
  /\ \A p \in polls : p.age < MaxDelay
  /\ pollIn' = pollIn - 1
  /\ polls' = {[p EXCEPT !.age = @ + 1] : p \in polls}
  /\ live' = [n \in Nodes |->
       IF live[n] = NoEntry THEN NoEntry
       ELSE [lastOk |-> Older(live[n].lastOk), firstSeen |-> Older(live[n].firstSeen)]]
  /\ steadyFor' = [n \in Nodes |-> Older(steadyFor[n])]
  /\ UNCHANGED <<up, rawNodes, alive>>

ListNext ==
  \/ \E n \in Nodes : Flip(n)
  \/ \E nodes \in SUBSET Nodes : ListArrives(nodes)
  \/ PollNodes
  \/ \E p \in polls, ok \in SUBSET Nodes : Conclude(p, ok)
  \/ TimePasses

ListSpec == ListInit /\ [][ListNext]_listVars

---------------------------------------------------------------------------
(* Properties.                                                             *)

\* How long the page may take to notice.  The last answer of a node may come,
\* and a late poll over an older list drop its entry, MaxDelay after the
\* fact; a new entry waits for the next poll; then the grace period runs, one
\* more poll begins and its slowest fetch concludes.
MaxOf(a, b) == IF a > b THEN a ELSE b
GoneWithin == MaxOf(Grace, NewGrace + Interval) + Interval + 2 * MaxDelay
ShownWithin == Interval + 2 * MaxDelay

\* "dead nodes drop off the canvas" (Dashboard.tsx:57-59): a node that is
\* down, and still listed, is gone for good within GoneWithin, whatever
\* overlapping polls, late answers and changing lists do.
DeadNodesGo ==
  \A n \in Nodes :
    (n \in rawNodes \ up /\ steadyFor[n] > GoneWithin) => n \notin Canvas

\* A node that runs and is listed is on the canvas, and no late answer of an
\* older poll takes it off again.
RunningNodesShown ==
  \A n \in Nodes :
    (n \in rawNodes \cap up /\ steadyFor[n] > ShownWithin) => n \in Canvas
=============================================================================

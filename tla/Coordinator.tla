----------------------------- MODULE Coordinator -----------------------------
(***************************************************************************)
(* Discovery: apps/coordinator/src/main.rs (its node map, bid book, garbage*)
(* collector and matcher, all in memory) with the two loops by which a node*)
(* of apps/node/src/main.rs keeps itself known, registration_loop and      *)
(* bid_loop, and the HTTP calls between them.                              *)
(*                                                                         *)
(* Time is counted in units; every timer holds the units left and every    *)
(* map entry its age, so that no clock has to be bounded.  A loop that is  *)
(* due acts before the next unit begins.  One backend is modelled: bids of *)
(* different backends do not meet.  What a node advertises is a price and  *)
(* a capacity; its signature is implied, a forged call being one that has  *)
(* no effect.                                                              *)
(***************************************************************************)
EXTENDS Integers

CONSTANTS
  Nodes,              \* identities
  Offers,             \* what a node may be configured to offer: [price, cap]
  JobSpecs,           \* what clients ask for: [maxPrice, tokens]
  HeartbeatTimeout, GcInterval,               \* of the coordinator
  RetryInterval, HeartbeatInterval,           \* of registration_loop
  Refresh, ValidFor,                          \* of bid_loop
  MaxStarts, MaxOutages,   \* bounds on starts of a node, of the coordinator
  MaxMissed,          \* failed calls of one loop in a row that are to be survived
  NoEntry, NoBid, NoWalk, NoOffer, Waiting

ASSUME CoordinatorAssumption ==
  /\ Offers \subseteq [price : Nat, cap : Nat]
  /\ JobSpecs \subseteq [maxPrice : Nat, tokens : Nat]
  /\ {HeartbeatTimeout, GcInterval, RetryInterval, HeartbeatInterval, Refresh, ValidFor}
       \subseteq Nat \ {0}
  /\ {MaxStarts, MaxOutages, MaxMissed} \subseteq Nat
  /\ Waiting \notin Nat /\ NoOffer \notin [price : Nat, cap : Nat]

VARIABLES
  nodes,    \* per identity its Entry: what it offers, and units since last_seen
  bids,     \* per identity its Bid: what it offers, and units left to valid_until
  gcIn,     \* units until the collector runs
  walk,     \* the match_job in progress
  steady,   \* the offers that stood during all of it
  smooth,   \* history: nobody stopped, nothing was slow, few calls failed
  outages,  \* restarts of the coordinator
  procs,    \* the node processes and their loops
  calls     \* HTTP requests under way

coordVars == <<nodes, bids, gcIn, walk, outages>>
vars == <<nodes, bids, gcIn, walk, steady, smooth, outages, procs, calls>>

Signed == [price : Nat, cap : Nat]

\* An absent entry of a map is not an entry.
ASSUME AbsenceAssumption ==
  /\ NoEntry \notin [offer : Signed, age : Nat]
  /\ NoBid \notin [offer : Signed, left : 0..ValidFor]

Kinds == {"register", "heartbeat", "reregister", "bid"}

\* A process that is down.
Down == [up |-> FALSE, offer |-> NoOffer, life |-> 0, loop |-> "register",
         regIn |-> 0, bidIn |-> 0, regMissed |-> 0, bidMissed |-> 0]

Init ==
  /\ nodes = [n \in Nodes |-> NoEntry]
  /\ bids = [n \in Nodes |-> NoBid]
  /\ gcIn = GcInterval
  /\ walk = NoWalk
  /\ steady = {}
  /\ smooth = TRUE
  /\ outages = 0
  /\ procs = [n \in Nodes |-> Down]
  /\ calls = {}

---------------------------------------------------------------------------
(* The coordinator's handlers: what each does to nodes and bids, and what  *)
(* it replies.                                                             *)

Fresh(offer) == [offer |-> offer, age |-> 0]

\* heartbeat of a known node.
Seen_Ignored(entry) == entry
Seen(entry) == [entry EXCEPT !.age = 0]

Reply(c) ==
  CASE c.kind \in {"register", "reregister"} -> "ok"
    [] c.kind = "heartbeat" -> IF nodes[c.node] = NoEntry THEN "unknown" ELSE "ok"
    [] c.kind = "bid" -> IF c.left > 0 THEN "ok" ELSE "expired"

Handle(c) ==
  /\ nodes' =
       CASE c.kind \in {"register", "reregister"} ->
              [nodes EXCEPT ![c.node] = Fresh(c.offer)]
         [] c.kind = "heartbeat" /\ nodes[c.node] # NoEntry ->
              [nodes EXCEPT ![c.node] = Seen(@)]
         [] OTHER -> nodes
  /\ bids' = IF c.kind = "bid" /\ c.left > 0
             THEN [bids EXCEPT ![c.node] = [offer |-> c.offer, left |-> c.left]]
             ELSE bids
  /\ UNCHANGED <<gcIn, walk, outages>>

\* The garbage collector's two retain calls.
Alive_Always(entry) == TRUE
Alive(entry) == entry.age < HeartbeatTimeout
Kept_Always(bid) == TRUE
Kept(bid) == bid.left > 0

Collect ==
  /\ gcIn = 0
  /\ gcIn' = GcInterval
  /\ nodes' = [n \in Nodes |->
       IF nodes[n] # NoEntry /\ Alive(nodes[n]) THEN nodes[n] ELSE NoEntry]
  /\ bids' = [n \in Nodes |->
       IF bids[n] # NoBid /\ Kept(bids[n]) THEN bids[n] ELSE NoBid]
  /\ UNCHANGED <<walk, outages, procs, calls>>

\* The coordinator restarts with empty maps; a match in progress is lost.
CoordinatorRestart ==
  /\ outages < MaxOutages
  /\ outages' = outages + 1
  /\ nodes' = [n \in Nodes |-> NoEntry]
  /\ bids' = [n \in Nodes |-> NoBid]
  /\ gcIn' = GcInterval
  /\ walk' = NoWalk
  /\ UNCHANGED <<procs, calls>>

---------------------------------------------------------------------------
(* match_job walks the map one node at a time while handlers run.          *)

BidCounts(n) == bids[n] # NoBid /\ bids[n].left > 0

\* What node n offers to a job: its live bid, else its registration.
Offered(n) == IF BidCounts(n) THEN bids[n].offer ELSE nodes[n].offer

Suits(offer, spec) == offer.cap >= spec.tokens /\ offer.price <= spec.maxPrice

Better_First(offer, best) == best = NoOffer
Better(offer, best) == IF best = NoOffer THEN TRUE ELSE offer.price < best.price

StartMatch(spec) ==
  /\ walk = NoWalk
  /\ walk' = [spec |-> spec, todo |-> Nodes, best |-> NoOffer]
  /\ UNCHANGED <<nodes, bids, gcIn, outages, procs, calls>>

Visit(n) ==
  /\ walk # NoWalk
  /\ n \in walk.todo
  /\ walk' = [walk EXCEPT
       !.todo = @ \ {n},
       !.best = IF nodes[n] # NoEntry /\ Suits(Offered(n), walk.spec)
                     /\ Better(Offered(n), @)
                THEN Offered(n) ELSE @]
  /\ UNCHANGED <<nodes, bids, gcIn, outages, procs, calls>>

FinishMatch ==
  /\ walk # NoWalk
  /\ walk.todo = {}
  /\ walk' = NoWalk
  /\ UNCHANGED <<nodes, bids, gcIn, outages, procs, calls>>

---------------------------------------------------------------------------
(* The node's loops.                                                       *)

\* A node starts: its configuration is read, its loops begin at once.
StartNode(n, offer) ==
  /\ ~procs[n].up
  /\ procs[n].life < MaxStarts
  /\ procs' = [procs EXCEPT ![n] = [Down EXCEPT !.up = TRUE, !.offer = offer,
                                                !.life = procs[n].life + 1]]
  /\ UNCHANGED <<coordVars, calls>>

\* It stops; what it has sent stays under way, with nobody waiting for it.
StopNode(n) ==
  /\ procs[n].up
  /\ procs' = [procs EXCEPT ![n] = [Down EXCEPT !.life = procs[n].life]]
  /\ calls' = {IF c.node = n THEN [c EXCEPT !.awaited = FALSE] ELSE c : c \in calls}
  /\ UNCHANGED coordVars

\* How long signed_bid makes a bid valid.
Validity_OneRefresh == Refresh
Validity == ValidFor

\* A request of process p of node n.
Call(n, kind, p) ==
  [kind |-> kind, node |-> n, life |-> p.life, awaited |-> TRUE,
   left |-> IF kind = "bid" THEN Validity ELSE 0,
   offer |-> p.offer]

\* registration_loop posts a registration, later a heartbeat.
SendRegistration(n) ==
  /\ procs[n].up
  /\ procs[n].regIn = 0
  /\ procs' = [procs EXCEPT ![n].regIn = Waiting]
  /\ calls' = calls \cup
       {Call(n, IF procs[n].loop = "register" THEN "register" ELSE "heartbeat", procs[n])}
  /\ UNCHANGED coordVars

\* bid_loop posts a bid.
SendBid(n) ==
  /\ procs[n].up
  /\ procs[n].bidIn = 0
  /\ procs' = [procs EXCEPT ![n].bidIn = Waiting]
  /\ calls' = calls \cup {Call(n, "bid", procs[n])}
  /\ UNCHANGED coordVars

\* What a loop does after its call returned with the reply: only a first
\* registration is retried at once, every other failure is left to the next
\* round.
AfterReply(p, kind, reply) ==
  CASE kind = "register" ->
         IF reply = "ok" THEN [p EXCEPT !.loop = "beat", !.regIn = HeartbeatInterval]
         ELSE [p EXCEPT !.regIn = RetryInterval]
    [] kind = "heartbeat" ->
         IF reply = "unknown" THEN p ELSE [p EXCEPT !.regIn = HeartbeatInterval]
    [] kind = "reregister" -> [p EXCEPT !.regIn = HeartbeatInterval]
    [] kind = "bid" -> [p EXCEPT !.bidIn = Refresh]

\* A heartbeat answered with 404 is followed by a registration.
FollowUp_None(c, reply) == {}
FollowUp(c, reply) ==
  IF c.kind = "heartbeat" /\ reply = "unknown"
  THEN {Call(c.node, "reregister", procs[c.node])} ELSE {}

\* The waiting loop goes on; its own count of failures in a row with it,
\* for as long as that matters.
Counted(missed, reply) ==
  IF reply # "error" \/ ~smooth THEN 0 ELSE missed + 1
Return(c, reply) ==
  IF ~c.awaited THEN procs' = procs /\ calls' = calls \ {c}
  ELSE /\ procs' = [procs EXCEPT ![c.node] =
            LET p == AfterReply(@, c.kind, reply)
            IN  IF c.kind = "bid" THEN [p EXCEPT !.bidMissed = Counted(@, reply)]
                ELSE [p EXCEPT !.regMissed = Counted(@, reply)]]
       /\ calls' = (calls \ {c}) \cup FollowUp(c, reply)

\* A call is handled and its reply arrives.
Answered(c) == Handle(c) /\ Return(c, Reply(c))

\* A call is handled and its reply is lost.
ReplyLost(c) == Handle(c) /\ Return(c, "error")

\* A call never reaches the coordinator.
CallLost(c) == UNCHANGED coordVars /\ Return(c, "error")

\* One unit of time.
Less(timer) == IF timer = Waiting THEN Waiting ELSE IF timer = 0 THEN 0 ELSE timer - 1
Tick ==
  /\ gcIn > 0
  /\ walk = NoWalk
  /\ \A n \in Nodes : procs[n].up => procs[n].regIn # 0 /\ procs[n].bidIn # 0
  /\ gcIn' = gcIn - 1
  /\ nodes' = [n \in Nodes |->
       IF nodes[n] = NoEntry THEN NoEntry ELSE [nodes[n] EXCEPT !.age = @ + 1]]
  /\ bids' = [n \in Nodes |->
       IF bids[n] = NoBid THEN NoBid ELSE [bids[n] EXCEPT !.left = Less(@)]]
  /\ procs' = [n \in Nodes |->
       [procs[n] EXCEPT !.regIn = Less(@), !.bidIn = Less(@)]]
  /\ calls' = {[c EXCEPT !.left = Less(@)] : c \in calls}
  /\ UNCHANGED <<walk, outages>>

---------------------------------------------------------------------------

\* The offers a client could count on for the job being matched: those of
\* listed nodes, by their unexpired bid if they have one.
Standing ==
  LET offers == {<<n, IF bids[n] # NoBid /\ bids[n].left > 0
                      THEN bids[n].offer ELSE nodes[n].offer>> :
                   n \in {m \in Nodes : nodes[m] # NoEntry}}
  IN  IF walk = NoWalk THEN {} ELSE {o \in offers : Suits(o[2], walk.spec)}
Watch ==
  /\ steady' = IF walk = NoWalk THEN Standing' ELSE steady \cap Standing'
  /\ smooth' = (/\ smooth
                /\ outages' = outages
                /\ gcIn' < gcIn => calls = {}
                /\ \A n \in Nodes : /\ procs[n].up => procs'[n].up
                                   /\ procs'[n].regMissed <= MaxMissed
                                   /\ procs'[n].bidMissed <= MaxMissed)

LoopStep(n) == SendRegistration(n) \/ SendBid(n)

Next ==
  /\ \/ \E n \in Nodes, offer \in Offers : StartNode(n, offer)
     \/ \E n \in Nodes : StopNode(n) \/ LoopStep(n) \/ Visit(n)
     \/ \E c \in calls : Answered(c) \/ ReplyLost(c) \/ CallLost(c)
     \/ \E spec \in JobSpecs : StartMatch(spec)
     \/ FinishMatch
     \/ Collect
     \/ CoordinatorRestart
     \/ Tick
  /\ Watch

Spec == Init /\ [][Next]_vars

\* Loops and timers run, and a loop that keeps calling is not refused by the
\* network for ever (each kind of call gets through again and again).
Keeps(A) == A /\ Watch
LoopFairness ==
  /\ WF_vars(Keeps(Tick))
  /\ WF_vars(Keeps(Collect))
  /\ \A n \in Nodes :
       /\ WF_vars(Keeps(SendRegistration(n)))
       /\ WF_vars(Keeps(SendBid(n)))
       /\ \A kind \in Kinds :
            SF_vars(Keeps(\E c \in calls :
                            c.node = n /\ c.kind = kind /\ Answered(c)))

FairSpec == Spec /\ LoopFairness

---------------------------------------------------------------------------
(* Properties.                                                             *)

\* Every field keeps its type, and a loop of a node that runs waits exactly
\* when one call of its own is under way: none hangs on a call that is gone,
\* and none has two out.
OfLoop(c, n, bidding) == c.awaited /\ c.node = n /\ (c.kind = "bid") = bidding
TypeOK ==
  /\ \A n \in Nodes :
       /\ nodes[n] = NoEntry \/ nodes[n] \in [offer : Signed, age : Nat]
       /\ bids[n] = NoBid \/ bids[n] \in [offer : Signed, left : 0..ValidFor]
       /\ procs[n].loop \in {"register", "beat"}
       /\ procs[n].up =>
            /\ (procs[n].regIn = Waiting) <=> \E c \in calls : OfLoop(c, n, FALSE)
            /\ (procs[n].bidIn = Waiting) <=> \E c \in calls : OfLoop(c, n, TRUE)
       /\ \A bidding \in BOOLEAN : \A c, d \in calls :
            (OfLoop(c, n, bidding) /\ OfLoop(d, n, bidding)) => c = d
  /\ gcIn \in 0..GcInterval
  /\ \A c \in calls : c.kind \in Kinds /\ c.offer \in Signed /\ c.left \in 0..ValidFor

\* A client is never sent to a node that has been silent for longer than the
\* timeout plus one round of the collector.
SilentNodesGo ==
  \A n \in Nodes : nodes[n] # NoEntry => nodes[n].age < HeartbeatTimeout + GcInterval

\* Registrations, bids, expiries and the collector run while match_job walks:
\* an offer that stood all the time is never passed over for a dearer one or
\* for none at all.
CheapestSteadyOffer ==
  (walk # NoWalk /\ walk.todo = {}) =>
    \A o \in steady : walk.best # NoOffer /\ walk.best.price <= o[2].price

\* On a network without long delays, up to MaxMissed failures in a row cost a
\* running node nothing: once it has registered it stays matchable, however
\* its heartbeats, their replies and the collector interleave.
StaysListed ==
  smooth => \A n \in Nodes : procs[n].loop = "beat" => nodes[n] # NoEntry

\* "3x refresh - survives one missed POST" (node main.rs:511): a running
\* node whose bid was ever taken has a live bid from then on.
BidSurvivesMiss ==
  [][smooth' => \A n \in Nodes :
       bids[n] # NoBid => bids'[n] # NoBid /\ bids'[n].left > 0]_vars

\* A node that runs is known again and again, also after the coordinator
\* restarts with empty maps or the collector drops it.
RunningNodeListed ==
  \A n \in Nodes : <>[]procs[n].up => []<>(nodes[n] # NoEntry)

\* A node that has stopped for good is forgotten for good, with its bid.
StoppedNodeForgotten ==
  \A n \in Nodes : <>[]~procs[n].up => <>[](nodes[n] = NoEntry /\ bids[n] = NoBid)
=============================================================================

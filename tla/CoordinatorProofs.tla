--------------------------- MODULE CoordinatorProofs ---------------------------
(***************************************************************************)
(* Proofs about Coordinator, for any number of nodes, offers and jobs, any *)
(* timers, and any number of restarts of the nodes and the coordinator.    *)
(***************************************************************************)
EXTENDS Coordinator, TLAPS

(***************************************************************************)
(* Types, and what a loop waits for.                                       *)
(***************************************************************************)
Entry == [offer : Signed, age : Nat]
Bid == [offer : Signed, left : 0..ValidFor]
Timer == Nat \cup {Waiting}
Process == [up : BOOLEAN, offer : Signed \cup {NoOffer}, life : Nat,
            loop : {"register", "beat"}, regIn : Timer, bidIn : Timer,
            regMissed : Nat, bidMissed : Nat]
Request == [kind : Kinds, node : Nodes, life : Nat, awaited : BOOLEAN,
            left : 0..ValidFor, offer : Signed]
Replies == {"ok", "unknown", "expired", "error"}

Types ==
  /\ nodes \in [Nodes -> Entry \cup {NoEntry}]
  /\ bids \in [Nodes -> Bid \cup {NoBid}]
  /\ gcIn \in 0..GcInterval
  /\ procs \in [Nodes -> Process]
  /\ calls \subseteq Request

\* A process, and the calls of its two loops.
Waits(n) ==
  /\ procs[n].up => procs[n].offer \in Signed
  /\ \A c \in calls : (c.awaited /\ c.node = n) => procs[n].up
  /\ procs[n].up =>
       /\ (procs[n].regIn = Waiting) <=> \E c \in calls : OfLoop(c, n, FALSE)
       /\ (procs[n].bidIn = Waiting) <=> \E c \in calls : OfLoop(c, n, TRUE)
  /\ \A bidding \in BOOLEAN : \A c, d \in calls :
       (OfLoop(c, n, bidding) /\ OfLoop(d, n, bidding)) => c = d

TypeInv ==
  /\ Types
  /\ \A n \in Nodes : Waits(n)

LEMMA InitTypes == Init => TypeInv
<1> SUFFICES ASSUME Init PROVE TypeInv
  OBVIOUS
<1>1. Down \in Process /\ ~Down.up
  BY DEF Down, Process, Timer
<1>2. GcInterval \in 0..GcInterval
  BY CoordinatorAssumption
<1> HIDE DEF Down
<1>3. Types
  BY <1>1, <1>2 DEF Init, Types
<1>4. \A n \in Nodes : Waits(n)
  BY <1>1 DEF Init, Waits
<1> QED BY <1>3, <1>4 DEF TypeInv

\* What a handler does to the maps.
LEMMA HandleTypes ==
  ASSUME Types, NEW c \in calls, Handle(c)
  PROVE  /\ nodes' \in [Nodes -> Entry \cup {NoEntry}]
         /\ bids' \in [Nodes -> Bid \cup {NoBid}]
         /\ \A n \in Nodes : nodes'[n] = nodes[n] \/ nodes'[n].age = 0
         /\ gcIn' = gcIn /\ walk' = walk
<1>1. c \in Request /\ c.node \in Nodes /\ c.offer \in Signed /\ c.left \in 0..ValidFor
  BY DEF Types, Request
<1>2. nodes \in [Nodes -> Entry \cup {NoEntry}] /\ bids \in [Nodes -> Bid \cup {NoBid}]
  BY DEF Types
<1>3. Fresh(c.offer) \in Entry /\ Fresh(c.offer).age = 0
  BY <1>1 DEF Fresh, Entry
<1>4. ASSUME nodes[c.node] # NoEntry
      PROVE  Seen(nodes[c.node]) \in Entry /\ Seen(nodes[c.node]).age = 0
  BY <1>1, <1>2, <1>4 DEF Seen, Entry
<1>5. \/ nodes' = nodes
      \/ nodes' = [nodes EXCEPT ![c.node] = Fresh(c.offer)]
      \/ nodes[c.node] # NoEntry /\ nodes' = [nodes EXCEPT ![c.node] = Seen(nodes[c.node])]
  BY DEF Handle
<1>6. /\ nodes' \in [Nodes -> Entry \cup {NoEntry}]
      /\ \A n \in Nodes : nodes'[n] = nodes[n] \/ nodes'[n].age = 0
  BY <1>1, <1>2, <1>3, <1>4, <1>5
<1>7. bids' \in [Nodes -> Bid \cup {NoBid}]
  <2>1. [offer |-> c.offer, left |-> c.left] \in Bid
    BY <1>1 DEF Bid
  <2> QED BY <1>1, <1>2, <2>1 DEF Handle
<1> QED BY <1>6, <1>7 DEF Handle

LEMMA ReplyTypes ==
  ASSUME NEW c
  PROVE  /\ c.kind \in Kinds => Reply(c) \in Replies
         /\ Reply(c) = "unknown" => c.kind \notin {"register", "reregister", "bid"}
BY DEF Reply, Replies, Kinds

\* A loop after its call: it waits again only for the call that follows.
LEMMA AfterReplyTypes ==
  ASSUME NEW p \in Process, NEW kind \in Kinds, NEW reply \in Replies,
         reply = "unknown" => kind = "heartbeat"
  PROVE  LET q == AfterReply(p, kind, reply) IN
         /\ q \in Process
         /\ q.up = p.up /\ q.offer = p.offer
         /\ IF kind = "bid"
            THEN q.bidIn # Waiting /\ q.regIn = p.regIn
            ELSE /\ q.bidIn = p.bidIn
                 /\ IF reply = "unknown" THEN q.regIn = p.regIn ELSE q.regIn # Waiting
<1>1. /\ HeartbeatInterval \in Nat /\ RetryInterval \in Nat /\ Refresh \in Nat
      /\ Waiting \notin Nat
  BY CoordinatorAssumption
<1>2. CASE kind = "register"
  BY <1>1, <1>2 DEF AfterReply, Process, Timer
<1>3. CASE kind = "heartbeat"
  BY <1>1, <1>3 DEF AfterReply, Process, Timer
<1>4. CASE kind = "reregister"
  BY <1>1, <1>4 DEF AfterReply, Process, Timer
<1>5. CASE kind = "bid"
  BY <1>1, <1>5 DEF AfterReply, Process, Timer
<1> QED BY <1>2, <1>3, <1>4, <1>5 DEF Kinds

\* What Return does to the process of an awaited call.
LEMMA Returned ==
  ASSUME TypeInv, NEW c \in calls, NEW reply \in Replies,
         reply = "unknown" => c.kind = "heartbeat",
         Return(c, reply), c.awaited
  PROVE  /\ procs' \in [Nodes -> Process]
         /\ \A n \in Nodes \ {c.node} : procs'[n] = procs[n]
         /\ procs'[c.node].up = procs[c.node].up
         /\ procs'[c.node].offer = procs[c.node].offer
         /\ IF c.kind = "bid"
            THEN /\ procs'[c.node].bidIn # Waiting
                 /\ procs'[c.node].regIn = procs[c.node].regIn
            ELSE /\ procs'[c.node].bidIn = procs[c.node].bidIn
                 /\ IF reply = "unknown" THEN procs'[c.node].regIn = procs[c.node].regIn
                    ELSE procs'[c.node].regIn # Waiting
<1>1. c \in Request /\ c.node \in Nodes /\ c.kind \in Kinds
  BY DEF TypeInv, Types, Request
<1>2. procs \in [Nodes -> Process] /\ procs[c.node] \in Process
  BY <1>1 DEF TypeInv, Types
<1> DEFINE p == AfterReply(procs[c.node], c.kind, reply)
           bid == [p EXCEPT !.bidMissed = Counted(p.bidMissed, reply)]
           reg == [p EXCEPT !.regMissed = Counted(p.regMissed, reply)]
<1>3. /\ p \in Process
      /\ p.up = procs[c.node].up /\ p.offer = procs[c.node].offer
      /\ IF c.kind = "bid"
         THEN p.bidIn # Waiting /\ p.regIn = procs[c.node].regIn
         ELSE /\ p.bidIn = procs[c.node].bidIn
              /\ IF reply = "unknown" THEN p.regIn = procs[c.node].regIn
                 ELSE p.regIn # Waiting
  BY <1>1, <1>2, AfterReplyTypes
<1>4. procs' = [procs EXCEPT ![c.node] = IF c.kind = "bid" THEN bid ELSE reg]
  BY <1>1, <1>2 DEF Return
<1> HIDE DEF p
<1>5. Counted(p.bidMissed, reply) \in Nat /\ Counted(p.regMissed, reply) \in Nat
  BY <1>3 DEF Counted, Process
<1>6. /\ bid \in Process /\ bid.up = p.up /\ bid.offer = p.offer
      /\ bid.regIn = p.regIn /\ bid.bidIn = p.bidIn
      /\ reg \in Process /\ reg.up = p.up /\ reg.offer = p.offer
      /\ reg.regIn = p.regIn /\ reg.bidIn = p.bidIn
  BY <1>3, <1>5 DEF Process
<1> HIDE DEF bid, reg
<1> QED BY <1>1, <1>2, <1>3, <1>4, <1>6

LEMMA CallTypes ==
  ASSUME NEW n \in Nodes, NEW kind \in Kinds, NEW p \in Process, p.offer \in Signed
  PROVE  LET d == Call(n, kind, p) IN
         d \in Request /\ d.node = n /\ d.kind = kind /\ d.awaited
<1>1. (IF kind = "bid" THEN Validity ELSE 0) \in 0..ValidFor
  BY CoordinatorAssumption DEF Validity
<1>2. p.life \in Nat
  BY DEF Process
<1> QED BY <1>1, <1>2 DEF Call, Request

\* The loops keep waiting for their own calls when one returns.
LEMMA ReturnWaits ==
  ASSUME TypeInv, NEW c \in calls, NEW reply \in Replies,
         reply = "unknown" => c.kind = "heartbeat",
         Return(c, reply)
  PROVE  /\ procs' \in [Nodes -> Process] /\ calls' \subseteq Request
         /\ \A n \in Nodes : Waits(n)'
<1>1. /\ c \in Request /\ c.node \in Nodes /\ c.kind \in Kinds
      /\ calls \subseteq Request /\ procs \in [Nodes -> Process]
  BY DEF TypeInv, Types, Request
<1>2. CASE ~c.awaited
  <2>1. procs' = procs /\ calls' = calls \ {c}
    BY <1>2 DEF Return
  <2>2. \A n \in Nodes, bidding \in BOOLEAN : ~OfLoop(c, n, bidding)
    BY <1>2 DEF OfLoop
  <2>3. \A n \in Nodes : Waits(n)'
    BY <2>1, <2>2 DEF TypeInv, Waits
  <2> QED BY <1>1, <2>1, <2>3
<1>3. CASE c.awaited
  <2>1. /\ procs' \in [Nodes -> Process]
        /\ \A n \in Nodes \ {c.node} : procs'[n] = procs[n]
        /\ procs'[c.node].up = procs[c.node].up
        /\ procs'[c.node].offer = procs[c.node].offer
    BY <1>3, Returned
  <2>2. calls' = (calls \ {c}) \cup FollowUp(c, reply) /\ procs[c.node].up
    BY <1>1, <1>3 DEF Return, TypeInv, Waits
  <2>3. procs[c.node].offer \in Signed
    BY <1>1, <2>2 DEF TypeInv, Waits
  <2>4. \A d \in FollowUp(c, reply) :
          /\ d \in Request /\ reply = "unknown" /\ c.kind = "heartbeat"
          /\ d = Call(c.node, "reregister", procs[c.node])
          /\ d.node = c.node /\ d.kind = "reregister" /\ d.awaited
    <3>1. procs[c.node] \in Process /\ "reregister" \in Kinds
      BY <1>1 DEF Kinds
    <3> QED BY <1>1, <2>3, <3>1, CallTypes DEF FollowUp
  <2>5. \A n \in Nodes \ {c.node}, bidding \in BOOLEAN :
          \A d \in calls \cup calls' : OfLoop(d, n, bidding) =>
            d \in calls /\ d \in calls'
    BY <2>2, <2>4 DEF OfLoop
  <2>6. ASSUME NEW n \in Nodes, n # c.node PROVE Waits(n)'
    <3>1. Waits(n) /\ procs'[n] = procs[n]
      BY <2>1, <2>6 DEF TypeInv
    <3>2. \A d \in calls' : (d.awaited /\ d.node = n) => d \in calls
      BY <2>2, <2>4, <2>6
    <3> QED BY <2>5, <2>6, <3>1, <3>2 DEF Waits
  <2>7. Waits(c.node)'
    <3> DEFINE m == c.node
    <3>1. Waits(m)
      BY <1>1 DEF TypeInv
    <3>2. \A d \in calls : \A bidding \in BOOLEAN :
            (OfLoop(d, m, bidding) /\ OfLoop(c, m, bidding)) => d = c
      BY <3>1 DEF Waits
    <3>3. /\ procs'[m].offer \in Signed
          /\ \A d \in calls' : (d.awaited /\ d.node = m) => procs'[m].up
      BY <2>1, <2>2, <2>3
    <3>4. CASE c.kind = "bid"
      <4>1. procs'[m].bidIn # Waiting /\ procs'[m].regIn = procs[m].regIn
        BY <1>3, <3>4, Returned
      <4>2. OfLoop(c, m, TRUE) /\ ~OfLoop(c, m, FALSE)
        BY <1>3, <3>4 DEF OfLoop
      <4>3. calls' = calls \ {c}
        BY <2>2, <3>4 DEF FollowUp
      <4>4. ~\E d \in calls' : OfLoop(d, m, TRUE)
        BY <3>2, <4>2, <4>3
      <4>5. (\E d \in calls' : OfLoop(d, m, FALSE)) <=> (\E d \in calls : OfLoop(d, m, FALSE))
        BY <4>2, <4>3
      <4>6. procs'[m].regIn = Waiting <=> \E d \in calls' : OfLoop(d, m, FALSE)
        BY <2>2, <3>1, <4>1, <4>5 DEF Waits
      <4>7. \A bidding \in BOOLEAN : \A d, e \in calls' :
              (OfLoop(d, m, bidding) /\ OfLoop(e, m, bidding)) => d = e
        BY <3>1, <4>3 DEF Waits
      <4> QED BY <3>3, <4>1, <4>4, <4>6, <4>7 DEF Waits
    <3>5. CASE c.kind # "bid"
      <4>1. /\ procs'[m].bidIn = procs[m].bidIn
            /\ IF reply = "unknown" THEN procs'[m].regIn = procs[m].regIn
               ELSE procs'[m].regIn # Waiting
        BY <1>3, <3>5, Returned
      <4>2. OfLoop(c, m, FALSE) /\ ~OfLoop(c, m, TRUE)
        BY <1>3, <3>5 DEF OfLoop
      <4>3. \A d \in FollowUp(c, reply) : OfLoop(d, m, FALSE) /\ ~OfLoop(d, m, TRUE)
        BY <2>4 DEF OfLoop
      <4>4. \A d \in calls' : OfLoop(d, m, FALSE) => d \in FollowUp(c, reply)
        BY <2>2, <3>2, <4>2
      <4>5. (\E d \in calls' : OfLoop(d, m, TRUE)) <=> (\E d \in calls : OfLoop(d, m, TRUE))
        BY <2>2, <4>2, <4>3
      <4>6. procs'[m].regIn = Waiting <=> \E d \in calls' : OfLoop(d, m, FALSE)
        <5>1. CASE reply = "unknown"
          <6>1. FollowUp(c, reply) # {}
            BY <5>1 DEF FollowUp
          <6>2. \E d \in calls' : OfLoop(d, m, FALSE)
            BY <2>2, <4>3, <6>1
          <6>3. procs[m].regIn = Waiting
            BY <2>2, <3>1, <4>2 DEF Waits
          <6> QED BY <4>1, <5>1, <6>2, <6>3
        <5>2. CASE reply # "unknown"
          <6>1. FollowUp(c, reply) = {}
            BY <5>2 DEF FollowUp
          <6> QED BY <4>1, <4>4, <5>2, <6>1
        <5> QED BY <5>1, <5>2
      <4>7. procs'[m].bidIn = Waiting <=> \E d \in calls' : OfLoop(d, m, TRUE)
        BY <2>2, <3>1, <4>1, <4>5 DEF Waits
      <4>8. \A d, e \in calls' :
              (OfLoop(d, m, FALSE) /\ OfLoop(e, m, FALSE)) => d = e
        BY <2>4, <4>4
      <4>9. \A d, e \in calls' :
              (OfLoop(d, m, TRUE) /\ OfLoop(e, m, TRUE)) => d = e
        BY <2>2, <3>1, <4>3 DEF Waits
      <4> QED BY <3>3, <4>6, <4>7, <4>8, <4>9 DEF Waits
    <3> QED BY <3>4, <3>5
  <2>8. calls' \subseteq Request
    BY <1>1, <2>2, <2>4
  <2> QED BY <2>1, <2>6, <2>7, <2>8
<1> QED BY <1>2, <1>3

\* The calls of a stopped node, and those of a unit of time later.
LEMMA StoppedCalls ==
  ASSUME NEW n \in Nodes, NEW c \in Request
  PROVE  LET d == IF c.node = n THEN [c EXCEPT !.awaited = FALSE] ELSE c IN
         /\ d \in Request /\ d.node = c.node /\ d.kind = c.kind
         /\ d.awaited <=> (c.awaited /\ c.node # n)
         /\ c.node # n => d = c
BY DEF Request

LEMMA OlderCalls ==
  ASSUME NEW c \in Request
  PROVE  LET d == [c EXCEPT !.left = Less(c.left)] IN
         /\ d \in Request /\ d.node = c.node /\ d.kind = c.kind /\ d.awaited = c.awaited
<1>1. Less(c.left) \in 0..ValidFor
  BY CoordinatorAssumption DEF Request, Less
<1> QED BY <1>1 DEF Request

LEMMA StartTypes ==
  ASSUME TypeInv, NEW n \in Nodes, NEW offer \in Offers, StartNode(n, offer)
  PROVE  TypeInv'
<1> DEFINE p == [Down EXCEPT !.up = TRUE, !.offer = offer, !.life = procs[n].life + 1]
<1>1. procs \in [Nodes -> Process] /\ procs[n] \in Process /\ offer \in Signed
  BY CoordinatorAssumption DEF TypeInv, Types, Signed
<1>2. p \in Process /\ p.up /\ p.offer = offer /\ p.regIn = 0 /\ p.bidIn = 0
  <2>1. procs[n].life + 1 \in Nat
    BY <1>1 DEF Process
  <2> QED BY <1>1, <2>1 DEF Down, Process, Timer
<1>3. ~procs[n].up /\ procs' = [procs EXCEPT ![n] = p]
      /\ UNCHANGED <<nodes, bids, gcIn, calls>>
  BY DEF StartNode, coordVars
<1> HIDE DEF p
<1>4. Types'
  BY <1>1, <1>2, <1>3 DEF TypeInv, Types
<1>5. ASSUME NEW m \in Nodes PROVE Waits(m)'
  <2>1. Waits(m)
    BY DEF TypeInv
  <2>2. CASE m = n
    <3>1. \A bidding \in BOOLEAN : \A c \in calls : ~OfLoop(c, n, bidding)
      BY <1>3, <2>1, <2>2 DEF Waits, OfLoop
    <3>2. p.regIn # Waiting /\ p.bidIn # Waiting
      BY <1>2, CoordinatorAssumption
    <3>3. procs'[n] = p
      BY <1>1, <1>3
    <3> QED BY <1>1, <1>2, <1>3, <2>2, <3>1, <3>2, <3>3 DEF Waits
  <2>3. CASE m # n
    <3>1. procs'[m] = procs[m]
      BY <1>1, <1>3, <2>3
    <3> QED BY <1>3, <2>1, <3>1 DEF Waits
  <2> QED BY <2>2, <2>3
<1> QED BY <1>4, <1>5 DEF TypeInv

LEMMA StopTypes ==
  ASSUME TypeInv, NEW n \in Nodes, StopNode(n)
  PROVE  TypeInv'
<1> DEFINE p == [Down EXCEPT !.life = procs[n].life]
           Stopped(c) == IF c.node = n THEN [c EXCEPT !.awaited = FALSE] ELSE c
<1>1. procs \in [Nodes -> Process] /\ procs[n] \in Process /\ calls \subseteq Request
  BY DEF TypeInv, Types
<1>2. p \in Process /\ ~p.up
  <2>1. procs[n].life \in Nat
    BY <1>1 DEF Process
  <2> QED BY <1>1, <2>1 DEF Down, Process, Timer
<1>3. /\ procs' = [procs EXCEPT ![n] = p]
      /\ calls' = {Stopped(c) : c \in calls}
      /\ UNCHANGED <<nodes, bids, gcIn>>
  BY DEF StopNode, coordVars
<1>4. \A c \in calls :
        /\ Stopped(c) \in Request /\ Stopped(c).node = c.node /\ Stopped(c).kind = c.kind
        /\ Stopped(c).awaited <=> (c.awaited /\ c.node # n)
        /\ c.node # n => Stopped(c) = c
  BY <1>1, StoppedCalls
<1> HIDE DEF p, Stopped
<1>5. Types'
  BY <1>1, <1>2, <1>3, <1>4 DEF TypeInv, Types
<1>6. ASSUME NEW m \in Nodes PROVE Waits(m)'
  <2>1. Waits(m)
    BY DEF TypeInv
  <2>2. CASE m = n
    <3>1. \A d \in calls' : ~(d.awaited /\ d.node = n)
      BY <1>3, <1>4
    <3>2. ~procs'[n].up
      BY <1>1, <1>2, <1>3
    <3> QED BY <2>2, <3>1, <3>2 DEF Waits, OfLoop
  <2>3. CASE m # n
    <3>1. procs'[m] = procs[m]
      BY <1>1, <1>3, <2>3
    <3>2. \A d \in calls' : (d.awaited /\ d.node = m) => d \in calls
      BY <1>3, <1>4, <2>3
    <3>3. \A d \in calls : d.node = m => d \in calls'
      <4> SUFFICES ASSUME NEW d \in calls, d.node = m PROVE d \in calls'
        OBVIOUS
      <4>1. Stopped(d) = d
        BY <1>4, <2>3
      <4> QED BY <1>3, <4>1
    <3>4. \A bidding \in BOOLEAN :
            (\E d \in calls' : OfLoop(d, m, bidding)) <=> (\E d \in calls : OfLoop(d, m, bidding))
      BY <3>2, <3>3 DEF OfLoop
    <3>5. \A bidding \in BOOLEAN : \A c, d \in calls' :
            (OfLoop(c, m, bidding) /\ OfLoop(d, m, bidding)) => c = d
      BY <2>1, <3>2 DEF Waits, OfLoop
    <3> QED BY <2>1, <3>1, <3>2, <3>4, <3>5 DEF Waits
  <2> QED BY <2>2, <2>3
<1> QED BY <1>5, <1>6 DEF TypeInv

\* A loop that is due calls, and waits.
LEMMA SendTypes ==
  ASSUME TypeInv, NEW n \in Nodes, LoopStep(n)
  PROVE  TypeInv'
<1> USE DEF OfLoop
<1>1. /\ procs \in [Nodes -> Process] /\ procs[n] \in Process /\ calls \subseteq Request
      /\ Waits(n)
  BY DEF TypeInv, Types
<1>2. PICK kind \in Kinds :
        /\ procs[n].up
        /\ calls' = calls \cup {Call(n, kind, procs[n])}
        /\ procs' = IF kind = "bid" THEN [procs EXCEPT ![n].bidIn = Waiting]
                    ELSE [procs EXCEPT ![n].regIn = Waiting]
        /\ IF kind = "bid" THEN procs[n].bidIn = 0 ELSE procs[n].regIn = 0
        /\ UNCHANGED <<nodes, bids, gcIn>>
  <2>1. CASE SendBid(n)
    <3>1. "bid" \in Kinds
      BY DEF Kinds
    <3> QED BY <2>1, <3>1 DEF SendBid, coordVars
  <2>2. CASE SendRegistration(n)
    <3> DEFINE kind == IF procs[n].loop = "register" THEN "register" ELSE "heartbeat"
    <3>1. kind \in Kinds /\ kind # "bid"
      BY DEF Kinds
    <3> QED BY <2>2, <3>1 DEF SendRegistration, coordVars
  <2> QED BY <2>1, <2>2 DEF LoopStep
<1> DEFINE d == Call(n, kind, procs[n])
           q == procs'[n]
<1>3. procs[n].offer \in Signed
  BY <1>1, <1>2 DEF Waits
<1>4. d \in Request /\ d.node = n /\ d.kind = kind /\ d.awaited
  BY <1>1, <1>3, CallTypes
<1> HIDE DEF d
<1>5. /\ procs' \in [Nodes -> Process]
      /\ \A m \in Nodes \ {n} : procs'[m] = procs[m]
      /\ q.up = procs[n].up /\ q.offer = procs[n].offer
      /\ IF kind = "bid" THEN q.bidIn = Waiting /\ q.regIn = procs[n].regIn
         ELSE q.regIn = Waiting /\ q.bidIn = procs[n].bidIn
  <2>1. CASE kind = "bid"
    BY <1>1, <1>2, <2>1 DEF Process, Timer
  <2>2. CASE kind # "bid"
    BY <1>1, <1>2, <2>2 DEF Process, Timer
  <2> QED BY <2>1, <2>2
<1> HIDE DEF q
<1>6. calls' = calls \cup {d}
  BY <1>2 DEF d
<1>7. ASSUME NEW m \in Nodes, m # n PROVE Waits(m)'
  <2>1. Waits(m) /\ procs'[m] = procs[m]
    BY <1>5, <1>7 DEF TypeInv
  <2>2. \A c \in calls' : c.node = m => c \in calls
    BY <1>4, <1>6, <1>7
  <2> QED BY <1>6, <2>1, <2>2 DEF Waits
<1>8. Waits(n)'
  <2>1. procs[n].regIn = 0 => procs[n].regIn # Waiting
    BY CoordinatorAssumption
  <2>2. procs[n].bidIn = 0 => procs[n].bidIn # Waiting
    BY CoordinatorAssumption
  <2>3. \A c \in calls : (c.awaited /\ c.node = n) => (c.kind = "bid") # (kind = "bid")
    BY <1>1, <1>2, <2>1, <2>2 DEF Waits
  <2>4. q.offer \in Signed /\ q.up
    BY <1>2, <1>3, <1>5
  <2>5. CASE kind = "bid"
    <3>1. q.bidIn = Waiting /\ \E c \in calls' : OfLoop(c, n, TRUE)
      BY <1>4, <1>5, <1>6, <2>5
    <3>2. q.regIn = Waiting <=> \E c \in calls' : OfLoop(c, n, FALSE)
      BY <1>1, <1>2, <1>4, <1>5, <1>6, <2>5 DEF Waits
    <3>3. \A bidding \in BOOLEAN : \A c, e \in calls' :
            (OfLoop(c, n, bidding) /\ OfLoop(e, n, bidding)) => c = e
      BY <1>1, <1>4, <1>6, <2>3, <2>5 DEF Waits
    <3> QED BY <2>4, <3>1, <3>2, <3>3 DEF Waits, q
  <2>6. CASE kind # "bid"
    <3>1. q.regIn = Waiting /\ \E c \in calls' : OfLoop(c, n, FALSE)
      BY <1>4, <1>5, <1>6, <2>6
    <3>2. q.bidIn = Waiting <=> \E c \in calls' : OfLoop(c, n, TRUE)
      BY <1>1, <1>2, <1>4, <1>5, <1>6, <2>6 DEF Waits
    <3>3. \A bidding \in BOOLEAN : \A c, e \in calls' :
            (OfLoop(c, n, bidding) /\ OfLoop(e, n, bidding)) => c = e
      BY <1>1, <1>4, <1>6, <2>3, <2>6 DEF Waits
    <3> QED BY <2>4, <3>1, <3>2, <3>3 DEF Waits, q
  <2> QED BY <2>5, <2>6
<1>9. Types'
  BY <1>1, <1>2, <1>4, <1>5, <1>6 DEF TypeInv, Types
<1> QED BY <1>7, <1>8, <1>9 DEF TypeInv

LEMMA TickTypes ==
  ASSUME TypeInv, Tick
  PROVE  TypeInv'
<1> DEFINE Older(c) == [c EXCEPT !.left = Less(c.left)]
           Later(p) == [p EXCEPT !.regIn = Less(p.regIn), !.bidIn = Less(p.bidIn)]
<1>1. /\ procs \in [Nodes -> Process] /\ calls \subseteq Request
      /\ nodes \in [Nodes -> Entry \cup {NoEntry}] /\ bids \in [Nodes -> Bid \cup {NoBid}]
  BY DEF TypeInv, Types
<1>2. /\ procs' = [n \in Nodes |-> Later(procs[n])]
      /\ calls' = {Older(c) : c \in calls}
      /\ nodes' = [n \in Nodes |->
           IF nodes[n] = NoEntry THEN NoEntry ELSE [nodes[n] EXCEPT !.age = @ + 1]]
      /\ bids' = [n \in Nodes |->
           IF bids[n] = NoBid THEN NoBid ELSE [bids[n] EXCEPT !.left = Less(@)]]
      /\ gcIn > 0 /\ gcIn' = gcIn - 1
  BY DEF Tick
<1>3. \A c \in calls :
        /\ Older(c) \in Request /\ Older(c).node = c.node /\ Older(c).kind = c.kind
        /\ Older(c).awaited = c.awaited
  BY <1>1, OlderCalls
<1>4. \A t \in Timer : Less(t) \in Timer /\ (Less(t) = Waiting <=> t = Waiting)
  BY CoordinatorAssumption DEF Timer, Less
<1>5. \A p \in Process :
        /\ Later(p) \in Process /\ Later(p).up = p.up /\ Later(p).offer = p.offer
        /\ Later(p).regIn = Waiting <=> p.regIn = Waiting
        /\ Later(p).bidIn = Waiting <=> p.bidIn = Waiting
  BY <1>4 DEF Process
<1> HIDE DEF Older, Later
<1>6. nodes' \in [Nodes -> Entry \cup {NoEntry}] /\ gcIn' \in 0..GcInterval
  BY <1>1, <1>2, CoordinatorAssumption DEF TypeInv, Types, Entry
<1>7. bids' \in [Nodes -> Bid \cup {NoBid}]
  <2>1. \A k \in 0..ValidFor : Less(k) \in 0..ValidFor
    BY CoordinatorAssumption DEF Less
  <2>2. \A b \in Bid : [b EXCEPT !.left = Less(@)] \in Bid
    BY <2>1 DEF Bid
  <2> QED BY <1>1, <1>2, <2>2
<1>8. Types'
  BY <1>1, <1>2, <1>3, <1>5, <1>6, <1>7 DEF Types
<1>9. ASSUME NEW n \in Nodes PROVE Waits(n)'
  <2>1. Waits(n)
    BY DEF TypeInv
  <2>2. /\ procs'[n].up = procs[n].up /\ procs'[n].offer = procs[n].offer
        /\ procs'[n].regIn = Waiting <=> procs[n].regIn = Waiting
        /\ procs'[n].bidIn = Waiting <=> procs[n].bidIn = Waiting
    BY <1>1, <1>2, <1>5
  <2>3. \A c \in calls, bidding \in BOOLEAN : OfLoop(Older(c), n, bidding) <=> OfLoop(c, n, bidding)
    BY <1>3 DEF OfLoop
  <2>4. \A bidding \in BOOLEAN :
          (\E c \in calls' : OfLoop(c, n, bidding)) <=> (\E c \in calls : OfLoop(c, n, bidding))
    BY <1>2, <2>3
  <2>5. ASSUME NEW bidding \in BOOLEAN, NEW c \in calls', NEW d \in calls',
               OfLoop(c, n, bidding), OfLoop(d, n, bidding)
        PROVE  c = d
    <3>1. PICK e \in calls, f \in calls : c = Older(e) /\ d = Older(f)
      BY <1>2
    <3>2. e = f
      BY <2>1, <2>3, <2>5, <3>1 DEF Waits
    <3> QED BY <3>1, <3>2
  <2>6. \A c \in calls' : (c.awaited /\ c.node = n) => procs'[n].up
    BY <1>2, <1>3, <2>1, <2>2 DEF Waits
  <2> QED BY <2>1, <2>2, <2>4, <2>5, <2>6 DEF Waits
<1> QED BY <1>8, <1>9 DEF TypeInv

\* The calls that conclude, with what the node gets.
Concludes(c) == Answered(c) \/ ReplyLost(c) \/ CallLost(c)

LEMMA ConcludeCases ==
  ASSUME TypeInv, NEW c \in calls, Concludes(c)
  PROVE  /\ Handle(c) \/ UNCHANGED coordVars
         /\ \E reply \in Replies : (reply = "unknown" => c.kind = "heartbeat") /\ Return(c, reply)
<1>1. c.kind \in Kinds
  BY DEF TypeInv, Types, Request
<1>2. Reply(c) \in Replies /\ (Reply(c) = "unknown" => c.kind = "heartbeat")
  BY <1>1, ReplyTypes DEF Kinds
<1> QED BY <1>2 DEF Concludes, Answered, ReplyLost, CallLost, Replies

\* What a step can be.
LEMMA StepCases ==
  ASSUME [Next]_vars
  PROVE  \/ \E n \in Nodes, offer \in Offers : StartNode(n, offer)
         \/ \E n \in Nodes : StopNode(n) \/ LoopStep(n)
         \/ \E c \in calls : Concludes(c)
         \/ Collect \/ CoordinatorRestart \/ Tick
         \/ /\ \/ \E n \in Nodes : Visit(n)
               \/ \E spec \in JobSpecs : StartMatch(spec)
               \/ FinishMatch
               \/ UNCHANGED vars
            /\ UNCHANGED <<nodes, bids, gcIn, procs, calls>>
BY DEF Next, Concludes, Visit, StartMatch, FinishMatch, vars

LEMMA NextTypes == TypeInv /\ [Next]_vars => TypeInv'
<1> SUFFICES ASSUME TypeInv, [Next]_vars PROVE TypeInv'
  OBVIOUS
<1>1. ASSUME UNCHANGED <<procs, calls>>, nodes' \in [Nodes -> Entry \cup {NoEntry}],
             bids' \in [Nodes -> Bid \cup {NoBid}], gcIn' \in 0..GcInterval
      PROVE  TypeInv'
  <2>1. \A n \in Nodes : Waits(n)'
    BY <1>1 DEF TypeInv, Waits
  <2> QED BY <1>1, <2>1 DEF TypeInv, Types
<1>2. ASSUME NEW c \in calls, Concludes(c) PROVE TypeInv'
  <2>1. /\ nodes' \in [Nodes -> Entry \cup {NoEntry}]
        /\ bids' \in [Nodes -> Bid \cup {NoBid}] /\ gcIn' = gcIn
    <3>1. CASE Handle(c)
      BY <3>1, HandleTypes DEF TypeInv
    <3>2. CASE UNCHANGED coordVars
      BY <3>2 DEF coordVars, TypeInv, Types
    <3> QED BY <1>2, <3>1, <3>2, ConcludeCases
  <2>2. procs' \in [Nodes -> Process] /\ calls' \subseteq Request /\ \A n \in Nodes : Waits(n)'
    BY <1>2, ConcludeCases, ReturnWaits
  <2> QED BY <2>1, <2>2 DEF TypeInv, Types
<1>3. CASE Collect
  <2>1. gcIn' \in 0..GcInterval
    BY <1>3, CoordinatorAssumption DEF Collect
  <2> QED BY <1>1, <1>3, <2>1 DEF Collect, TypeInv, Types
<1>4. CASE CoordinatorRestart
  <2>1. gcIn' \in 0..GcInterval
    BY <1>4, CoordinatorAssumption DEF CoordinatorRestart
  <2> QED BY <1>1, <1>4, <2>1 DEF CoordinatorRestart
<1>5. CASE UNCHANGED <<nodes, bids, gcIn, procs, calls>>
  BY <1>1, <1>5 DEF TypeInv, Types
<1> QED BY <1>2, <1>3, <1>4, <1>5, StartTypes, StopTypes, SendTypes, TickTypes, StepCases

\* No loop hangs on a call that is gone and none has two out
\* (registration_loop, bid_loop).
THEOREM CoordinatorTypeCorrect == Spec => []TypeOK
<1>1. TypeInv => TypeOK
  <2> SUFFICES ASSUME TypeInv PROVE TypeOK
    OBVIOUS
  <2>1. \A n \in Nodes : Waits(n) /\ procs[n].loop \in {"register", "beat"}
    BY DEF TypeInv, Types, Process
  <2>2. \A c \in calls : c.kind \in Kinds /\ c.offer \in Signed /\ c.left \in 0..ValidFor
    BY DEF TypeInv, Types, Request
  <2> QED BY <2>1, <2>2 DEF TypeInv, Types, Waits, TypeOK, Entry, Bid
<1> QED BY InitTypes, NextTypes, <1>1, PTL DEF Spec

---------------------------------------------------------------------------
(* The collector.                                                          *)

\* The age of an entry and the time to the next collection.
SilentInv ==
  /\ TypeInv
  /\ \A n \in Nodes :
       nodes[n] # NoEntry => nodes[n].age + gcIn < HeartbeatTimeout + GcInterval

LEMMA NextSilent == SilentInv /\ [Next]_vars => SilentInv'
<1> SUFFICES ASSUME SilentInv, [Next]_vars, NEW n \in Nodes, nodes'[n] # NoEntry
             PROVE  nodes'[n].age + gcIn' < HeartbeatTimeout + GcInterval
  BY NextTypes DEF SilentInv
<1>1. /\ HeartbeatTimeout \in Nat \ {0} /\ GcInterval \in Nat \ {0}
      /\ gcIn \in 0..GcInterval /\ nodes[n] \in Entry \cup {NoEntry}
  BY CoordinatorAssumption DEF SilentInv, TypeInv, Types
<1>2. CASE nodes'[n] = nodes[n] /\ gcIn' = gcIn
  BY <1>2 DEF SilentInv
<1>3. CASE nodes'[n].age = 0 /\ gcIn' = gcIn
  BY <1>1, <1>3
<1>4. CASE Collect
  BY <1>1, <1>4 DEF Collect, Alive, Entry
<1>5. CASE Tick
  <2>1. nodes[n] # NoEntry /\ nodes'[n] = [nodes[n] EXCEPT !.age = @ + 1] /\ gcIn' = gcIn - 1
    BY <1>5 DEF Tick
  <2>2. nodes[n].age \in Nat /\ nodes'[n].age = nodes[n].age + 1
    BY <1>1, <2>1 DEF Entry
  <2> QED BY <1>1, <2>1, <2>2 DEF SilentInv
<1>6. ASSUME NEW c \in calls, Concludes(c)
      PROVE  (nodes'[n] = nodes[n] \/ nodes'[n].age = 0) /\ gcIn' = gcIn
  BY <1>6, ConcludeCases, HandleTypes DEF SilentInv, TypeInv, coordVars
<1>7. CASE CoordinatorRestart
  BY <1>7 DEF CoordinatorRestart
<1>8. ASSUME NEW m \in Nodes,
             \/ \E offer \in Offers : StartNode(m, offer)
             \/ StopNode(m) \/ LoopStep(m)
      PROVE  nodes' = nodes /\ gcIn' = gcIn
  BY <1>8 DEF StartNode, StopNode, LoopStep, SendRegistration, SendBid, coordVars
<1> QED BY <1>2, <1>3, <1>4, <1>5, <1>6, <1>7, <1>8, StepCases

\* A client is not sent to a node that has been silent for a timeout and a
\* round of the collector (main.rs:58-77), whatever calls are lost.
THEOREM SilentAreForgotten == Spec => []SilentNodesGo
<1>1. Init => SilentInv
  BY InitTypes DEF Init, SilentInv
<1>2. SilentInv => SilentNodesGo
  <2> SUFFICES ASSUME SilentInv, NEW n \in Nodes, nodes[n] # NoEntry
               PROVE  nodes[n].age < HeartbeatTimeout + GcInterval
    BY DEF SilentNodesGo
  <2>1. nodes[n].age \in Nat /\ gcIn \in Nat
    BY CoordinatorAssumption DEF SilentInv, TypeInv, Types, Entry
  <2> QED BY <2>1, CoordinatorAssumption DEF SilentInv
<1> QED BY <1>1, NextSilent, <1>2, PTL DEF Spec

---------------------------------------------------------------------------
(* The matcher.                                                            *)

\* An offer that stood all the time is of a node the walk has yet to visit,
\* or is matched by the best so far.
Beaten(o) ==
  \/ o[1] \in walk.todo
  \/ walk.best # NoOffer /\ walk.best.price <= o[2].price
WalkInv ==
  /\ TypeInv
  /\ walk # NoWalk =>
       /\ walk \in [spec : JobSpecs, todo : SUBSET Nodes, best : Signed \cup {NoOffer}]
       /\ \A o \in steady : Beaten(o)

\* What stands after a step is what a visit would find then.
LEMMA StandingOffers ==
  ASSUME Types', NEW o \in Standing'
  PROVE  /\ o[1] \in Nodes /\ o[2] \in Signed /\ nodes'[o[1]] # NoEntry
         /\ o[2] = Offered(o[1])' /\ Suits(o[2], walk'.spec)
<1>1. PICK n \in Nodes :
        /\ nodes'[n] # NoEntry
        /\ o = <<n, Offered(n)'>>
        /\ Suits(o[2], walk'.spec)
  BY DEF Standing, Offered, BidCounts
<1>2. Offered(n)' \in Signed
  <2>1. nodes'[n] \in Entry /\ (bids'[n] # NoBid => bids'[n] \in Bid)
    BY <1>1 DEF Types
  <2> QED BY <2>1 DEF Offered, BidCounts, Entry, Bid
<1> QED BY <1>1, <1>2

\* A visit finds the offer that stands at its node, and forgets no better one.
LEMMA VisitBeats ==
  ASSUME WalkInv, NEW n \in Nodes, Visit(n)
  PROVE  /\ walk' \in [spec : JobSpecs, todo : SUBSET Nodes, best : Signed \cup {NoOffer}]
         /\ \A o \in steady \cap Standing' : Beaten(o)'
<1> DEFINE better == nodes[n] # NoEntry /\ Suits(Offered(n), walk.spec)
                     /\ Better(Offered(n), walk.best)
<1>1. /\ walk \in [spec : JobSpecs, todo : SUBSET Nodes, best : Signed \cup {NoOffer}]
      /\ walk # NoWalk /\ Types
      /\ \A o \in steady : Beaten(o)
      /\ UNCHANGED <<nodes, bids, gcIn, procs, calls>>
  BY DEF WalkInv, Visit, TypeInv
<1>2. nodes[n] # NoEntry => Offered(n) \in Signed
  <2>1. nodes[n] # NoEntry => nodes[n] \in Entry
    BY <1>1 DEF Types
  <2>2. bids[n] # NoBid => bids[n] \in Bid
    BY <1>1 DEF Types
  <2> QED BY <2>1, <2>2 DEF Offered, BidCounts, Entry, Bid
<1>3. /\ walk'.spec = walk.spec /\ walk'.todo = walk.todo \ {n}
      /\ walk'.best = IF better THEN Offered(n) ELSE walk.best
      /\ walk' \in [spec : JobSpecs, todo : SUBSET Nodes, best : Signed \cup {NoOffer}]
  BY <1>1, <1>2 DEF Visit
<1>4. ASSUME NEW o \in steady \cap Standing' PROVE Beaten(o)'
  <2>1. /\ o[1] \in Nodes /\ o[2] \in Signed /\ nodes[o[1]] # NoEntry
        /\ o[2] = Offered(o[1]) /\ Suits(o[2], walk.spec)
    <3>1. Types'
      BY <1>1 DEF Types
    <3>2. /\ o[1] \in Nodes /\ o[2] \in Signed /\ nodes'[o[1]] # NoEntry
          /\ o[2] = Offered(o[1])' /\ Suits(o[2], walk'.spec)
      BY <3>1, StandingOffers
    <3> QED BY <1>1, <1>3, <3>2 DEF Offered, BidCounts
  <2>2. Beaten(o)
    BY <1>1
  <2>3. /\ o[2].price \in Nat
        /\ walk.best # NoOffer => walk.best.price \in Nat
        /\ nodes[n] # NoEntry => Offered(n).price \in Nat /\ Offered(n) # NoOffer
    BY <1>1, <1>2, <2>1, CoordinatorAssumption DEF Signed
  <2>4. CASE o[1] = n
    BY <1>3, <2>1, <2>3, <2>4 DEF Beaten, Better
  <2>5. CASE o[1] # n
    BY <1>3, <2>2, <2>3, <2>5 DEF Beaten, Better
  <2> QED BY <2>4, <2>5
<1> QED BY <1>3, <1>4

LEMMA NextWalk == WalkInv /\ [Next]_vars => WalkInv'
<1> SUFFICES ASSUME WalkInv, [Next]_vars PROVE WalkInv'
  OBVIOUS
<1>1. TypeInv' /\ Types'
  BY NextTypes DEF WalkInv, TypeInv
<1>2. CASE walk' = NoWalk
  BY <1>1, <1>2 DEF WalkInv
<1>3. CASE walk' = walk /\ walk # NoWalk
  <2>1. steady' \subseteq steady
    BY <1>3 DEF Next, Watch, vars
  <2> QED BY <1>1, <1>3, <2>1 DEF WalkInv, Beaten
<1>4. ASSUME NEW n \in Nodes, Visit(n), Next PROVE WalkInv'
  <2>1. steady' = steady \cap Standing'
    BY <1>4 DEF Next, Watch, Visit
  <2> QED BY <1>1, <1>4, <2>1, VisitBeats DEF WalkInv
<1>5. ASSUME NEW spec \in JobSpecs, StartMatch(spec), Next PROVE WalkInv'
  <2>1. /\ walk' = [spec |-> spec, todo |-> Nodes, best |-> NoOffer]
        /\ steady' = Standing'
    BY <1>5 DEF StartMatch, Next, Watch
  <2>2. \A o \in steady' : o[1] \in Nodes
    BY <1>1, <2>1, StandingOffers
  <2> QED BY <1>1, <2>1, <2>2 DEF WalkInv, Beaten
<1>6. \/ walk' = NoWalk \/ walk' = walk
      \/ \E n \in Nodes : Visit(n) /\ Next
      \/ \E spec \in JobSpecs : StartMatch(spec) /\ Next
  <2>1. ASSUME NEW c \in calls, Answered(c) \/ ReplyLost(c) \/ CallLost(c)
        PROVE  walk' = walk
    BY <2>1 DEF Answered, ReplyLost, CallLost, Handle, coordVars
  <2>2. ASSUME NEW n \in Nodes,
               \/ \E offer \in Offers : StartNode(n, offer)
               \/ StopNode(n) \/ LoopStep(n)
        PROVE  walk' = walk
    BY <2>2 DEF StartNode, StopNode, LoopStep, SendRegistration, SendBid, coordVars
  <2>3. ASSUME FinishMatch \/ Collect \/ CoordinatorRestart \/ Tick
        PROVE  walk' = NoWalk \/ walk' = walk
    BY <2>3 DEF FinishMatch, Collect, CoordinatorRestart, Tick
  <2>4. CASE Next
    BY <2>1, <2>2, <2>3, <2>4 DEF Next
  <2>5. CASE UNCHANGED vars
    BY <2>5 DEF vars
  <2> QED BY <2>4, <2>5
<1> QED BY <1>2, <1>3, <1>4, <1>5, <1>6

\* match_job walks a map that others change meanwhile, and still passes over
\* no offer that stood all the time (main.rs:166-212).
THEOREM SteadyOffersCount == Spec => []CheapestSteadyOffer
<1>1. Init => WalkInv
  BY InitTypes DEF Init, WalkInv
<1>2. WalkInv => CheapestSteadyOffer
  BY DEF WalkInv, CheapestSteadyOffer, Beaten
<1> QED BY <1>1, NextWalk, <1>2, PTL DEF Spec

---------------------------------------------------------------------------
(***************************************************************************)
(* A smooth run: the age of an entry and the time left of a bid, by the    *)
(* calls missed in a row and the time to the next one.                     *)
(***************************************************************************)
Lag(missed, every) == (missed + 1) * every
Left(timer) == IF timer = Waiting THEN 0 ELSE timer

\* What MaxMissed failures in a row may cost: heartbeats against the timeout,
\* bids against their validity.
BeatsInTime == (MaxMissed + 1) * HeartbeatInterval < HeartbeatTimeout
BidsInTime == (MaxMissed + 1) * Refresh < ValidFor

Listed(n) ==
  procs[n].loop = "beat" =>
    /\ procs[n].up /\ nodes[n] # NoEntry
    /\ nodes[n].age + Left(procs[n].regIn) <= Lag(procs[n].regMissed, HeartbeatInterval)
CallListed(c) ==
  /\ c.awaited /\ c.kind # "reregister"
  /\ c.kind = "register" => procs[c.node].loop = "register"
  /\ c.kind = "heartbeat" => procs[c.node].loop = "beat"
Bidding(n) ==
  bids[n] # NoBid =>
    /\ procs[n].up
    /\ ValidFor + Left(procs[n].bidIn) <= bids[n].left + Lag(procs[n].bidMissed, Refresh)
CallBidding(c) == c.awaited /\ (c.kind = "bid" => c.left = ValidFor)

CountInv == TypeInv /\ outages \in Nat
ListedInv ==
  /\ CountInv
  /\ smooth => /\ \A n \in Nodes : procs[n].regMissed <= MaxMissed /\ Listed(n)
               /\ \A c \in calls : CallListed(c)
BiddingInv ==
  /\ CountInv
  /\ smooth => /\ \A n \in Nodes : procs[n].bidMissed <= MaxMissed /\ Bidding(n)
               /\ \A c \in calls : CallBidding(c)

LEMMA LagFacts ==
  ASSUME NEW every \in Nat
  PROVE  /\ Lag(0, every) = every
         /\ \A k \in Nat : /\ Lag(k, every) \in Nat /\ every <= Lag(k, every)
                           /\ Lag(k + 1, every) = Lag(k, every) + every
         /\ \A k, m \in Nat : k <= m => Lag(k, every) <= Lag(m, every)
<1>1. \A k \in Nat : k * every \in Nat /\ (k + 1) * every = k * every + every
  OBVIOUS
<1>2. \A k \in Nat : /\ Lag(k, every) = k * every + every
                     /\ Lag(k + 1, every) = Lag(k, every) + every
  BY <1>1 DEF Lag
<1>3. ASSUME NEW k \in Nat, NEW m \in Nat, k <= m
      PROVE  k * every <= m * every
  <2>1. PICK d \in Nat : m = k + d
    BY <1>3
  <2>2. m * every = k * every + d * every /\ d * every \in Nat /\ k * every \in Nat
    BY <2>1
  <2> QED BY <2>2
<1> QED BY <1>1, <1>2, <1>3 DEF Lag

LEMMA CountStep == CountInv /\ [Next]_vars => CountInv'
<1> SUFFICES ASSUME CountInv, [Next]_vars PROVE outages' \in Nat
  BY NextTypes DEF CountInv
<1>1. outages' = outages \/ outages' = outages + 1
  BY DEF Next, vars, StartNode, StopNode, LoopStep, SendRegistration, SendBid, Visit,
         Answered, ReplyLost, CallLost, Handle, StartMatch, FinishMatch, Collect,
         CoordinatorRestart, Tick, coordVars
<1> QED BY <1>1 DEF CountInv

\* What a step that leaves the run smooth is not.
LEMMA SmoothKept ==
  ASSUME CountInv, [Next]_vars, smooth'
  PROVE  /\ smooth
         /\ ~CoordinatorRestart
         /\ Tick => calls = {}
         /\ \A n \in Nodes : /\ procs[n].up => procs'[n].up
                             /\ UNCHANGED vars \/ /\ procs'[n].regMissed <= MaxMissed
                                                  /\ procs'[n].bidMissed <= MaxMissed
<1>1. gcIn \in Int
  BY CoordinatorAssumption DEF CountInv, TypeInv, Types
<1>2. Tick => gcIn' = gcIn - 1
  BY DEF Tick
<1>3. Tick => gcIn' < gcIn
  BY <1>1, <1>2
<1>4. CASE UNCHANGED vars
  <2>1. smooth' = smooth /\ outages' = outages /\ gcIn' = gcIn /\ procs' = procs
    BY <1>4 DEF vars
  <2>2. ~CoordinatorRestart
    BY <2>1 DEF CoordinatorRestart, CountInv
  <2>3. ~Tick
    BY <2>1, <1>1, <1>2
  <2> QED BY <1>4, <2>1, <2>2, <2>3
<1>5. CASE Next
  <2>1. smooth' = (/\ smooth
                   /\ outages' = outages
                   /\ gcIn' < gcIn => calls = {}
                   /\ \A n \in Nodes : /\ procs[n].up => procs'[n].up
                                      /\ procs'[n].regMissed <= MaxMissed
                                      /\ procs'[n].bidMissed <= MaxMissed)
    BY <1>5 DEF Next, Watch
  <2>2. /\ smooth
        /\ outages' = outages
        /\ gcIn' < gcIn => calls = {}
        /\ \A n \in Nodes : /\ procs[n].up => procs'[n].up
                            /\ procs'[n].regMissed <= MaxMissed
                            /\ procs'[n].bidMissed <= MaxMissed
    BY <2>1
  <2>3. ~CoordinatorRestart
    BY <2>2 DEF CoordinatorRestart, CountInv
  <2> QED BY <1>3, <2>2, <2>3
<1> QED BY <1>4, <1>5

\* What a loop is after its call, while the run is smooth.
LEMMA RegReturned ==
  ASSUME TypeInv, NEW c \in calls, NEW reply \in Replies, reply # "unknown",
         Return(c, reply), c.awaited, c.kind # "bid", c.kind # "reregister", smooth
  PROVE  LET p == procs[c.node]
             q == procs'[c.node]
         IN  /\ \A n \in Nodes \ {c.node} : procs'[n] = procs[n]
             /\ q.up = p.up /\ q.bidIn = p.bidIn /\ q.bidMissed = p.bidMissed
             /\ q.regMissed = IF reply = "error" THEN p.regMissed + 1 ELSE 0
             /\ c.kind = "heartbeat" => q.loop = p.loop /\ q.regIn = HeartbeatInterval
             /\ c.kind = "register" =>
                  IF reply = "ok" THEN q.loop = "beat" /\ q.regIn = HeartbeatInterval
                  ELSE q.loop = p.loop
             /\ calls' = calls \ {c}
<1> DEFINE p == procs[c.node]
           a == AfterReply(p, c.kind, reply)
           reg == [a EXCEPT !.regMissed = Counted(a.regMissed, reply)]
<1>1. /\ c \in Request /\ c.node \in Nodes /\ c.kind \in {"register", "heartbeat"}
      /\ procs \in [Nodes -> Process] /\ p \in Process
  BY DEF TypeInv, Types, Request, Kinds
<1>2. /\ DOMAIN a = DOMAIN p /\ a.up = p.up /\ a.bidIn = p.bidIn
      /\ a.bidMissed = p.bidMissed /\ a.regMissed = p.regMissed /\ a \in Process
      /\ c.kind = "heartbeat" => a.loop = p.loop /\ a.regIn = HeartbeatInterval
      /\ c.kind = "register" =>
           IF reply = "ok" THEN a.loop = "beat" /\ a.regIn = HeartbeatInterval
           ELSE a.loop = p.loop
  <2>1. HeartbeatInterval \in Nat /\ RetryInterval \in Nat
    BY CoordinatorAssumption
  <2>2. CASE c.kind = "register"
    BY <1>1, <2>1, <2>2 DEF AfterReply, Process, Timer
  <2>3. CASE c.kind = "heartbeat"
    BY <1>1, <2>1, <2>3 DEF AfterReply, Process, Timer
  <2> QED BY <1>1, <2>2, <2>3
<1>3. procs' = [procs EXCEPT ![c.node] = reg] /\ calls' = calls \ {c}
  BY <1>1 DEF Return, FollowUp
<1>4. Counted(a.regMissed, reply) = IF reply = "error" THEN p.regMissed + 1 ELSE 0
  BY <1>2 DEF Counted
<1> HIDE DEF a
<1>5. /\ reg.up = a.up /\ reg.bidIn = a.bidIn /\ reg.bidMissed = a.bidMissed
      /\ reg.loop = a.loop /\ reg.regIn = a.regIn
      /\ reg.regMissed = Counted(a.regMissed, reply)
  BY <1>2 DEF Process
<1> HIDE DEF reg
<1>6. procs'[c.node] = reg /\ \A n \in Nodes \ {c.node} : procs'[n] = procs[n]
  BY <1>1, <1>3
<1> QED BY <1>2, <1>3, <1>4, <1>5, <1>6

LEMMA BidReturned ==
  ASSUME TypeInv, NEW c \in calls, NEW reply \in Replies,
         Return(c, reply), c.awaited, c.kind = "bid", smooth
  PROVE  LET p == procs[c.node]
             q == procs'[c.node]
         IN  /\ \A n \in Nodes \ {c.node} : procs'[n] = procs[n]
             /\ q.up = p.up /\ q.loop = p.loop /\ q.regIn = p.regIn
             /\ q.regMissed = p.regMissed /\ q.bidIn = Refresh
             /\ q.bidMissed = IF reply = "error" THEN p.bidMissed + 1 ELSE 0
             /\ calls' = calls \ {c}
<1> DEFINE p == procs[c.node]
           a == AfterReply(p, c.kind, reply)
           bid == [a EXCEPT !.bidMissed = Counted(a.bidMissed, reply)]
<1>1. /\ c \in Request /\ c.node \in Nodes
      /\ procs \in [Nodes -> Process] /\ p \in Process /\ Refresh \in Nat
  BY CoordinatorAssumption DEF TypeInv, Types, Request
<1>2. /\ a \in Process /\ a.up = p.up /\ a.loop = p.loop /\ a.regIn = p.regIn
      /\ a.regMissed = p.regMissed /\ a.bidIn = Refresh /\ a.bidMissed = p.bidMissed
  BY <1>1 DEF AfterReply, Process, Timer
<1>3. procs' = [procs EXCEPT ![c.node] = bid] /\ calls' = calls \ {c}
  BY <1>1 DEF Return, FollowUp
<1>4. Counted(a.bidMissed, reply) = IF reply = "error" THEN p.bidMissed + 1 ELSE 0
  BY <1>2 DEF Counted
<1> HIDE DEF a
<1>5. /\ bid.up = a.up /\ bid.loop = a.loop /\ bid.regIn = a.regIn
      /\ bid.regMissed = a.regMissed /\ bid.bidIn = a.bidIn
      /\ bid.bidMissed = Counted(a.bidMissed, reply)
  BY <1>2 DEF Process
<1> HIDE DEF bid
<1>6. procs'[c.node] = bid /\ \A n \in Nodes \ {c.node} : procs'[n] = procs[n]
  BY <1>1, <1>3
<1> QED BY <1>2, <1>3, <1>4, <1>5, <1>6

\* While the run is smooth a call of a loop is the only one.
LEMMA OneCall ==
  ASSUME TypeInv, NEW c \in calls, c.awaited
  PROVE  /\ c.node \in Nodes /\ procs[c.node].up
         /\ c.kind # "bid" => procs[c.node].regIn = Waiting
         /\ c.kind = "bid" => procs[c.node].bidIn = Waiting
         /\ \A d \in calls : (d.awaited /\ d.node = c.node /\ d.kind # "bid" /\ c.kind # "bid")
              => d = c
<1>1. c.node \in Nodes
  BY DEF TypeInv, Types, Request
<1>2. Waits(c.node) /\ procs[c.node].up
  BY <1>1 DEF TypeInv, Waits
<1>3. c.kind # "bid" => OfLoop(c, c.node, FALSE)
  BY DEF OfLoop
<1>4. c.kind = "bid" => OfLoop(c, c.node, TRUE)
  BY DEF OfLoop
<1>5. c.kind # "bid" => procs[c.node].regIn = Waiting
  BY <1>2, <1>3 DEF Waits
<1>6. c.kind = "bid" => procs[c.node].bidIn = Waiting
  BY <1>2, <1>4 DEF Waits
<1>7. ASSUME NEW d \in calls, d.awaited, d.node = c.node, d.kind # "bid", c.kind # "bid"
      PROVE  d = c
  <2>1. OfLoop(d, c.node, FALSE) /\ OfLoop(c, c.node, FALSE)
    BY <1>7 DEF OfLoop
  <2> QED BY <1>2, <2>1 DEF Waits
<1> QED BY <1>1, <1>2, <1>5, <1>6, <1>7

\* Nobody is about to wait while time passes and no call is under way.
LEMMA QuietTick ==
  ASSUME TypeInv, Tick, calls = {}, NEW n \in Nodes
  PROVE  /\ procs'[n].up = procs[n].up /\ procs'[n].loop = procs[n].loop
         /\ procs'[n].regMissed = procs[n].regMissed
         /\ procs'[n].bidMissed = procs[n].bidMissed
         /\ procs[n].up =>
              /\ Left(procs'[n].regIn) + 1 = Left(procs[n].regIn)
              /\ Left(procs'[n].bidIn) + 1 = Left(procs[n].bidIn)
<1> DEFINE q == [procs[n] EXCEPT !.regIn = Less(procs[n].regIn), !.bidIn = Less(procs[n].bidIn)]
<1>1. /\ procs[n] \in Process /\ Waits(n) /\ procs'[n] = q
      /\ procs[n].up => procs[n].regIn # 0 /\ procs[n].bidIn # 0
  BY DEF Tick, TypeInv, Types
<1>2. /\ q.up = procs[n].up /\ q.loop = procs[n].loop /\ q.regMissed = procs[n].regMissed
      /\ q.bidMissed = procs[n].bidMissed
      /\ q.regIn = Less(procs[n].regIn) /\ q.bidIn = Less(procs[n].bidIn)
  BY <1>1 DEF Process
<1> HIDE DEF q
<1>3. procs[n].up => procs[n].regIn # Waiting /\ procs[n].bidIn # Waiting
  BY <1>1 DEF Waits
<1>4. \A t \in Timer \ {0, Waiting} : Left(Less(t)) + 1 = Left(t)
  BY CoordinatorAssumption DEF Timer, Less, Left
<1>5. procs[n].regIn \in Timer /\ procs[n].bidIn \in Timer
  BY <1>1 DEF Process
<1> QED BY <1>1, <1>2, <1>3, <1>4, <1>5

\* The steps of a smooth run, for what is known of heartbeats.
LEMMA StartListed ==
  ASSUME ListedInv, smooth, NEW m \in Nodes, NEW offer \in Offers, StartNode(m, offer)
  PROVE  (\A n \in Nodes : Listed(n)') /\ (\A c \in calls' : CallListed(c)')
<1>1. /\ procs \in [Nodes -> Process] /\ nodes' = nodes /\ calls' = calls /\ ~procs[m].up
      /\ procs' = [procs EXCEPT ![m] = [Down EXCEPT !.up = TRUE, !.offer = offer,
                                                    !.life = procs[m].life + 1]]
  BY DEF ListedInv, CountInv, TypeInv, Types, StartNode, coordVars
<1>2. /\ procs'[m].loop = "register" /\ \A n \in Nodes \ {m} : procs'[n] = procs[n]
  BY <1>1 DEF Down
<1>3. \A n \in Nodes : Listed(n)'
  BY <1>1, <1>2 DEF Listed, ListedInv
<1>4. \A c \in calls : CallListed(c) /\ c.node # m
  BY <1>1, OneCall DEF ListedInv, CountInv, CallListed
<1>5. \A c \in calls : c.node \in Nodes
  BY DEF ListedInv, CountInv, TypeInv, Types, Request
<1>6. \A c \in calls' : CallListed(c)'
  BY <1>1, <1>2, <1>4, <1>5 DEF CallListed
<1> QED BY <1>3, <1>6

LEMMA SendListed ==
  ASSUME ListedInv, smooth, NEW m \in Nodes, LoopStep(m)
  PROVE  (\A n \in Nodes : Listed(n)') /\ (\A c \in calls' : CallListed(c)')
<1>1. /\ procs \in [Nodes -> Process] /\ nodes' = nodes
      /\ \A c \in calls : c.node \in Nodes /\ CallListed(c)
  BY DEF Request, ListedInv, CountInv, TypeInv, Types, LoopStep, SendRegistration, SendBid, coordVars
<1>2. CASE SendRegistration(m)
  <2> DEFINE kind == IF procs[m].loop = "register" THEN "register" ELSE "heartbeat"
  <2>1. PICK d :
        /\ d = Call(m, kind, procs[m])
        /\ procs' = [procs EXCEPT ![m] = [procs[m] EXCEPT !.regIn = Waiting]]
        /\ calls' = calls \cup {d} /\ procs[m].regIn = 0
    BY <1>2 DEF SendRegistration
  <2>2. d.awaited /\ d.node = m /\ d.kind = kind
    BY <2>1 DEF Call
  <2>3. /\ procs'[m].up = procs[m].up /\ procs'[m].loop = procs[m].loop
        /\ procs'[m].regIn = Waiting /\ procs'[m].regMissed = procs[m].regMissed
        /\ procs[m].loop \in {"register", "beat"}
        /\ \A n \in Nodes \ {m} : procs'[n] = procs[n]
    BY <1>1, <2>1 DEF Process
  <2>4. Left(0) = Left(Waiting)
    BY DEF Left
  <2>5. \A n \in Nodes : Listed(n)'
    BY <1>1, <2>1, <2>3, <2>4 DEF Listed, ListedInv
  <2>6. \A c \in calls : CallListed(c)'
    <3>1. \A n \in Nodes : procs'[n].loop = procs[n].loop
      BY <2>3
    <3> QED BY <1>1, <3>1 DEF CallListed
  <2>7. CallListed(d)'
    BY <2>2, <2>3 DEF CallListed
  <2> QED BY <2>1, <2>5, <2>6, <2>7
<1>3. CASE SendBid(m)
  <2>1. PICK d :
        /\ d = Call(m, "bid", procs[m])
        /\ procs' = [procs EXCEPT ![m] = [procs[m] EXCEPT !.bidIn = Waiting]]
        /\ calls' = calls \cup {d}
    BY <1>3 DEF SendBid
  <2>2. d.awaited /\ d.node = m /\ d.kind = "bid"
    BY <2>1 DEF Call
  <2>3. /\ procs'[m].up = procs[m].up /\ procs'[m].loop = procs[m].loop
        /\ procs'[m].regIn = procs[m].regIn /\ procs'[m].regMissed = procs[m].regMissed
        /\ \A n \in Nodes \ {m} : procs'[n] = procs[n]
    BY <1>1, <2>1 DEF Process
  <2>4. \A n \in Nodes : Listed(n)'
    BY <1>1, <2>3 DEF Listed, ListedInv
  <2>5. \A c \in calls : CallListed(c)'
    <3>1. \A n \in Nodes : procs'[n].loop = procs[n].loop
      BY <2>3
    <3> QED BY <1>1, <3>1 DEF CallListed
  <2>6. CallListed(d)'
    BY <2>2 DEF CallListed
  <2> QED BY <2>1, <2>4, <2>5, <2>6
<1> QED BY <1>2, <1>3 DEF LoopStep

\* How a call of a smooth run concludes: it is handled, and only then may the
\* loop learn of it.
LEMMA SmoothCases ==
  ASSUME TypeInv, NEW c \in calls, Concludes(c)
  PROVE  \E reply \in Replies : /\ Return(c, reply)
                                /\ \/ Handle(c) /\ reply \in {Reply(c), "error"}
                                   \/ UNCHANGED coordVars /\ reply = "error"
<1>1. c.kind \in Kinds
  BY DEF TypeInv, Types, Request
<1>2. Reply(c) \in Replies /\ "error" \in Replies
  BY <1>1, ReplyTypes DEF Replies
<1> QED BY <1>2 DEF Concludes, Answered, ReplyLost, CallLost

\* Registering and beating make the entry fresh.
LEMMA FreshEntry ==
  ASSUME TypeInv, NEW c \in calls, Handle(c),
         c.kind = "register" \/ (c.kind = "heartbeat" /\ nodes[c.node] # NoEntry)
  PROVE  /\ nodes'[c.node] # NoEntry /\ nodes'[c.node].age = 0
         /\ \A n \in Nodes \ {c.node} : nodes'[n] = nodes[n]
         /\ Reply(c) = "ok"
<1>1. /\ c.node \in Nodes /\ c.offer \in Signed /\ nodes \in [Nodes -> Entry \cup {NoEntry}]
  BY DEF TypeInv, Types, Request
<1>2. CASE c.kind = "register"
  <2>1. nodes' = [nodes EXCEPT ![c.node] = Fresh(c.offer)] /\ Reply(c) = "ok"
    BY <1>2 DEF Handle, Reply
  <2>2. Fresh(c.offer) # NoEntry /\ Fresh(c.offer).age = 0
    BY <1>1, AbsenceAssumption DEF Fresh
  <2> QED BY <1>1, <2>1, <2>2
<1>3. CASE c.kind = "heartbeat" /\ nodes[c.node] # NoEntry
  <2>1. nodes' = [nodes EXCEPT ![c.node] = Seen(nodes[c.node])] /\ Reply(c) = "ok"
    BY <1>3 DEF Handle, Reply
  <2>2. Seen(nodes[c.node]) \in Entry /\ Seen(nodes[c.node]).age = 0
    BY <1>1, <1>3 DEF Seen, Entry
  <2>3. Seen(nodes[c.node]) # NoEntry
    BY <2>2, AbsenceAssumption DEF Entry
  <2> QED BY <1>1, <2>1, <2>2, <2>3
<1> QED BY <1>2, <1>3

LEMMA ConcludeListed ==
  ASSUME ListedInv, smooth, NEW c \in calls, Concludes(c)
  PROVE  (\A n \in Nodes : Listed(n)') /\ (\A d \in calls' : CallListed(d)')
<1>1. /\ c.node \in Nodes /\ c.kind \in Kinds /\ CallListed(c) /\ c.awaited
      /\ procs[c.node].up /\ procs[c.node].regMissed \in Nat
      /\ nodes[c.node] \in Entry \cup {NoEntry}
      /\ TypeInv /\ \A n \in Nodes : Listed(n)
  BY OneCall DEF ListedInv, CountInv, CallListed, TypeInv, Types, Request, Process
<1>2. PICK reply \in Replies : /\ Return(c, reply)
                               /\ \/ Handle(c) /\ reply \in {Reply(c), "error"}
                                  \/ UNCHANGED coordVars /\ reply = "error"
  BY <1>1, SmoothCases
<1>3. \A d \in calls : d.node \in Nodes /\ CallListed(d) /\ d.awaited
  BY DEF ListedInv, CountInv, CallListed, TypeInv, Types, Request
<1>4. CASE c.kind = "bid"
  <2>1. nodes' = nodes
    BY <1>2, <1>4 DEF Handle, coordVars
  <2>2. /\ \A n \in Nodes : /\ procs'[n].up = procs[n].up /\ procs'[n].loop = procs[n].loop
                            /\ procs'[n].regIn = procs[n].regIn
                            /\ procs'[n].regMissed = procs[n].regMissed
        /\ calls' = calls \ {c}
    BY <1>1, <1>2, <1>4, BidReturned
  <2>3. \A n \in Nodes : Listed(n)'
    BY <1>1, <2>1, <2>2 DEF Listed
  <2>4. \A d \in calls' : CallListed(d)'
    BY <1>3, <2>2 DEF CallListed
  <2> QED BY <2>3, <2>4
<1>5. CASE c.kind # "bid"
  <2>1. c.kind \in {"register", "heartbeat"}
    BY <1>1, <1>5 DEF Kinds, CallListed
  <2>2. /\ procs[c.node].regIn = Waiting
        /\ \A d \in calls : d.node = c.node /\ d.kind # "bid" => d = c
    BY <1>1, <1>3, <1>5, OneCall
  <2>3. c.kind = "heartbeat" =>
          /\ nodes[c.node] # NoEntry
          /\ nodes[c.node].age <= Lag(procs[c.node].regMissed, HeartbeatInterval)
    BY <1>1, <2>2, CoordinatorAssumption DEF CallListed, Listed, Left, Entry
  <2>4. Handle(c) => /\ nodes'[c.node] # NoEntry /\ nodes'[c.node].age = 0
                     /\ \A n \in Nodes \ {c.node} : nodes'[n] = nodes[n]
                     /\ Reply(c) = "ok"
    BY <1>1, <2>1, <2>3, FreshEntry
  <2>5. reply # "unknown"
    BY <1>2, <2>4
  <2> DEFINE p == procs[c.node]
  <2>6. /\ \A n \in Nodes \ {c.node} : procs'[n] = procs[n]
        /\ procs'[c.node].up = p.up
        /\ procs'[c.node].regMissed = IF reply = "error" THEN p.regMissed + 1 ELSE 0
        /\ c.kind = "heartbeat" => /\ procs'[c.node].loop = p.loop
                                   /\ procs'[c.node].regIn = HeartbeatInterval
        /\ c.kind = "register" =>
             IF reply = "ok" THEN /\ procs'[c.node].loop = "beat"
                                  /\ procs'[c.node].regIn = HeartbeatInterval
             ELSE procs'[c.node].loop = p.loop
        /\ calls' = calls \ {c}
    BY <1>1, <1>2, <1>5, <2>1, <2>5, RegReturned
  <2>7. \A d \in calls' : CallListed(d)'
    BY <1>3, <2>2, <2>6 DEF CallListed
  <2>8. \A n \in Nodes \ {c.node} : nodes'[n] = nodes[n]
    BY <1>2, <2>4 DEF coordVars
  <2>9. \A n \in Nodes \ {c.node} : Listed(n)'
    BY <1>1, <2>6, <2>8 DEF Listed
  <2>10. Listed(c.node)'
    <3> SUFFICES ASSUME procs'[c.node].loop = "beat"
                 PROVE  /\ procs'[c.node].up /\ nodes'[c.node] # NoEntry
                        /\ nodes'[c.node].age + Left(procs'[c.node].regIn)
                             <= Lag(procs'[c.node].regMissed, HeartbeatInterval)
      BY DEF Listed, Left
    <3>1. /\ procs'[c.node].up /\ procs'[c.node].regIn = HeartbeatInterval
          /\ c.kind = "register" => reply = "ok"
      BY <1>1, <2>1, <2>6 DEF CallListed
    <3>2. HeartbeatInterval \in Nat /\ Left(HeartbeatInterval) = HeartbeatInterval
      BY CoordinatorAssumption DEF Left
    <3>3. \A k \in Nat : HeartbeatInterval <= Lag(k, HeartbeatInterval)
      BY <3>2, LagFacts
    <3>4. CASE Handle(c)
      <4>1. procs'[c.node].regMissed \in Nat
        BY <1>1, <2>6
      <4> QED BY <2>4, <3>1, <3>2, <3>3, <3>4, <4>1
    <3>5. CASE ~Handle(c)
      <4>1. reply = "error" /\ nodes' = nodes /\ c.kind = "heartbeat"
        BY <1>2, <2>1, <3>1, <3>5 DEF coordVars
      <4>2. /\ procs'[c.node].regMissed = p.regMissed + 1
            /\ Lag(p.regMissed + 1, HeartbeatInterval)
                 = Lag(p.regMissed, HeartbeatInterval) + HeartbeatInterval
            /\ Lag(p.regMissed, HeartbeatInterval) \in Nat
        BY <1>1, <2>6, <3>2, <4>1, LagFacts
      <4>3. nodes[c.node] # NoEntry /\ nodes[c.node].age \in Nat
        BY <1>1, <2>3, <4>1 DEF Entry
      <4> QED BY <2>3, <3>1, <3>2, <4>1, <4>2, <4>3
    <3> QED BY <3>4, <3>5
  <2> QED BY <2>7, <2>9, <2>10
<1> QED BY <1>4, <1>5

LEMMA CollectListed ==
  ASSUME BeatsInTime, ListedInv, smooth, Collect
  PROVE  (\A n \in Nodes : Listed(n)') /\ (\A c \in calls' : CallListed(c)')
<1>1. /\ procs' = procs /\ calls' = calls
      /\ nodes' = [n \in Nodes |->
           IF nodes[n] # NoEntry /\ Alive(nodes[n]) THEN nodes[n] ELSE NoEntry]
  BY DEF Collect
<1>2. ASSUME NEW n \in Nodes, procs[n].loop = "beat"
      PROVE  nodes'[n] = nodes[n]
  <2>1. /\ Listed(n) /\ procs[n].regMissed \in Nat /\ procs[n].regMissed <= MaxMissed
        /\ nodes[n] \in Entry \cup {NoEntry} /\ procs[n].regIn \in Timer
    BY DEF ListedInv, CountInv, TypeInv, Types, Process
  <2>2. /\ nodes[n] # NoEntry /\ nodes[n].age \in Nat /\ Left(procs[n].regIn) \in Nat
        /\ nodes[n].age + Left(procs[n].regIn) <= Lag(procs[n].regMissed, HeartbeatInterval)
    BY <1>2, <2>1 DEF Listed, Entry, Left, Timer
  <2>3. /\ Lag(procs[n].regMissed, HeartbeatInterval) <= Lag(MaxMissed, HeartbeatInterval)
        /\ Lag(procs[n].regMissed, HeartbeatInterval) \in Nat
        /\ Lag(MaxMissed, HeartbeatInterval) \in Nat
    BY <2>1, LagFacts, CoordinatorAssumption
  <2>4. Lag(MaxMissed, HeartbeatInterval) < HeartbeatTimeout /\ HeartbeatTimeout \in Nat
    BY CoordinatorAssumption DEF BeatsInTime, Lag
  <2>5. nodes[n].age < HeartbeatTimeout
    BY <2>2, <2>3, <2>4
  <2> QED BY <1>1, <2>2, <2>5 DEF Alive
<1>3. \A n \in Nodes : Listed(n)'
  BY <1>1, <1>2 DEF Listed, ListedInv
<1>4. \A c \in calls' : CallListed(c)'
  BY <1>1 DEF CallListed, ListedInv
<1> QED BY <1>3, <1>4

LEMMA TickListed ==
  ASSUME ListedInv, smooth, Tick, calls = {}
  PROVE  (\A n \in Nodes : Listed(n)') /\ (\A c \in calls' : CallListed(c)')
<1>1. calls' = {}
  BY DEF Tick
<1>2. ASSUME NEW n \in Nodes, procs'[n].loop = "beat"
      PROVE  /\ procs'[n].up /\ nodes'[n] # NoEntry
             /\ nodes'[n].age + Left(procs'[n].regIn)
                  <= Lag(procs'[n].regMissed, HeartbeatInterval)
  <2>1. /\ procs'[n].up = procs[n].up /\ procs[n].loop = "beat"
        /\ procs'[n].regMissed = procs[n].regMissed
        /\ procs[n].up => Left(procs'[n].regIn) + 1 = Left(procs[n].regIn)
    BY <1>2, QuietTick DEF ListedInv, CountInv
  <2>2. /\ Listed(n) /\ nodes[n] \in Entry \cup {NoEntry} /\ procs'[n].regIn \in Timer
    BY TickTypes DEF ListedInv, CountInv, TypeInv, Types, Process
  <2>3. /\ procs[n].up /\ nodes[n] # NoEntry /\ nodes[n] \in Entry /\ nodes[n].age \in Nat
        /\ nodes[n].age + Left(procs[n].regIn) <= Lag(procs[n].regMissed, HeartbeatInterval)
        /\ Left(procs'[n].regIn) \in Nat
    BY <2>1, <2>2 DEF Listed, Entry, Left, Timer
  <2>4. nodes'[n] = [nodes[n] EXCEPT !.age = nodes[n].age + 1]
    BY <2>3 DEF Tick
  <2>5. nodes'[n] \in Entry /\ nodes'[n].age = nodes[n].age + 1
    BY <2>3, <2>4 DEF Entry
  <2>6. nodes'[n] # NoEntry
    BY <2>5, AbsenceAssumption DEF Entry
  <2> QED BY <2>1, <2>3, <2>5, <2>6
<1>3. \A n \in Nodes : Listed(n)'
  BY <1>2 DEF Listed, Left
<1> QED BY <1>1, <1>3

LEMMA NextListed ==
  ASSUME BeatsInTime, ListedInv, [Next]_vars
  PROVE  ListedInv'
<1>1. CountInv'
  BY CountStep DEF ListedInv
<1>2. ASSUME smooth'
      PROVE  /\ \A n \in Nodes : procs'[n].regMissed <= MaxMissed
             /\ \A n \in Nodes : Listed(n)'
             /\ \A c \in calls' : CallListed(c)'
  <2>1. /\ smooth /\ ~CoordinatorRestart
        /\ Tick => calls = {}
        /\ \A n \in Nodes : procs[n].up => procs'[n].up
        /\ \A n \in Nodes : UNCHANGED vars \/ procs'[n].regMissed <= MaxMissed
    BY <1>2, SmoothKept DEF ListedInv
  <2>2. \A n \in Nodes : procs'[n].regMissed <= MaxMissed
    BY <2>1 DEF ListedInv, vars
  <2>3. ASSUME NEW m \in Nodes, StopNode(m)
        PROVE  FALSE
    <3>1. procs[m].up /\ ~procs'[m].up
      BY <2>3 DEF StopNode, Down, ListedInv, CountInv, TypeInv, Types
    <3> QED BY <2>1, <3>1
  <2>4. ASSUME UNCHANGED <<nodes, bids, gcIn, procs, calls>>
        PROVE  (\A n \in Nodes : Listed(n)') /\ (\A c \in calls' : CallListed(c)')
    BY <2>1, <2>4 DEF ListedInv, Listed, CallListed
  <2>5. (\A n \in Nodes : Listed(n)') /\ (\A c \in calls' : CallListed(c)')
    BY <2>1, <2>3, <2>4, StepCases, StartListed, SendListed, ConcludeListed, CollectListed,
       TickListed
  <2> QED BY <2>2, <2>5
<1> QED BY <1>1, <1>2 DEF ListedInv

\* On a network without long delays a running node that has registered stays
\* matchable through MaxMissed failures in a row, for as many heartbeats as
\* fit into the timeout (coordinator main.rs: gc, heartbeat; node main.rs:
\* registration_loop: a heartbeat every 10 s against a timeout of 30 s, which
\* is one failure).
THEOREM StaysListedInTime == BeatsInTime => (Spec => []StaysListed)
<1> SUFFICES ASSUME BeatsInTime PROVE Spec => []StaysListed
  OBVIOUS
<1>1. Init => ListedInv
  <2> SUFFICES ASSUME Init PROVE ListedInv
    OBVIOUS
  <2>1. /\ \A n \in Nodes : procs[n] = Down
        /\ calls = {} /\ outages = 0
    BY DEF Init
  <2>2. Down.loop = "register" /\ Down.regMissed = 0 /\ 0 <= MaxMissed
    BY CoordinatorAssumption DEF Down
  <2> QED BY <2>1, <2>2, InitTypes DEF ListedInv, CountInv, Listed
<1>2. ListedInv /\ [Next]_vars => ListedInv'
  BY NextListed
<1>3. ListedInv => StaysListed
  BY DEF ListedInv, Listed, StaysListed
<1> QED BY <1>1, <1>2, <1>3, PTL DEF Spec

---------------------------------------------------------------------------
(* The same for bids and their validity.                                   *)

LEMMA StartBidding ==
  ASSUME BiddingInv, smooth, NEW m \in Nodes, NEW offer \in Offers, StartNode(m, offer)
  PROVE  (\A n \in Nodes : Bidding(n)') /\ (\A c \in calls' : CallBidding(c)')
<1>1. /\ procs \in [Nodes -> Process] /\ bids' = bids /\ calls' = calls /\ ~procs[m].up
      /\ procs' = [procs EXCEPT ![m] = [Down EXCEPT !.up = TRUE, !.offer = offer,
                                                    !.life = procs[m].life + 1]]
  BY DEF BiddingInv, CountInv, TypeInv, Types, StartNode, coordVars
<1>2. \A n \in Nodes \ {m} : procs'[n] = procs[n]
  BY <1>1
<1>3. bids[m] = NoBid
  BY <1>1 DEF BiddingInv, Bidding
<1>4. \A n \in Nodes : Bidding(n)'
  BY <1>1, <1>2, <1>3 DEF Bidding, BiddingInv
<1>5. \A c \in calls' : CallBidding(c)'
  BY <1>1 DEF CallBidding, BiddingInv
<1> QED BY <1>4, <1>5

LEMMA SendBidding ==
  ASSUME BiddingInv, smooth, NEW m \in Nodes, LoopStep(m)
  PROVE  (\A n \in Nodes : Bidding(n)') /\ (\A c \in calls' : CallBidding(c)')
<1>1. /\ procs \in [Nodes -> Process] /\ bids' = bids /\ \A c \in calls : CallBidding(c)
  BY DEF BiddingInv, CountInv, TypeInv, Types, LoopStep, SendRegistration, SendBid, coordVars
<1>2. PICK kind, p : /\ calls' = calls \cup {Call(m, kind, p)}
                     /\ \/ procs' = [procs EXCEPT ![m] = [procs[m] EXCEPT !.regIn = Waiting]]
                        \/ /\ procs[m].bidIn = 0
                           /\ procs' = [procs EXCEPT ![m] = [procs[m] EXCEPT !.bidIn = Waiting]]
  BY DEF LoopStep, SendRegistration, SendBid
<1>3. CallBidding(Call(m, kind, p)) /\ \A c \in calls' : CallBidding(c)
  BY <1>1, <1>2 DEF CallBidding, Call, Validity
<1>4. Left(0) = Left(Waiting)
  BY DEF Left
<1>5. \A n \in Nodes : /\ procs'[n].up = procs[n].up
                       /\ procs'[n].bidMissed = procs[n].bidMissed
                       /\ Left(procs'[n].bidIn) = Left(procs[n].bidIn)
  BY <1>1, <1>2, <1>4 DEF Process
<1>6. \A n \in Nodes : Bidding(n)'
  BY <1>1, <1>5 DEF Bidding, BiddingInv, Left
<1> QED BY <1>3, <1>6 DEF CallBidding

\* A bid that is taken is whole.
LEMMA FreshBid ==
  ASSUME TypeInv, NEW c \in calls, Handle(c), c.kind = "bid", c.left = ValidFor
  PROVE  /\ bids'[c.node] # NoBid /\ bids'[c.node].left = ValidFor
         /\ \A n \in Nodes \ {c.node} : bids'[n] = bids[n]
         /\ Reply(c) = "ok"
<1> DEFINE bid == [offer |-> c.offer, left |-> c.left]
<1>1. /\ c.node \in Nodes /\ c.offer \in Signed /\ c.left \in 0..ValidFor /\ c.left > 0
      /\ bids \in [Nodes -> Bid \cup {NoBid}]
  BY CoordinatorAssumption DEF TypeInv, Types, Request
<1>2. bids' = [bids EXCEPT ![c.node] = bid] /\ Reply(c) = "ok"
  BY <1>1 DEF Handle, Reply
<1>3. bid # NoBid /\ bid.left = ValidFor
  BY <1>1, AbsenceAssumption
<1> QED BY <1>1, <1>2, <1>3

LEMMA ConcludeBidding ==
  ASSUME BiddingInv, smooth, NEW c \in calls, Concludes(c)
  PROVE  /\ \A n \in Nodes : Bidding(n)'
         /\ \A d \in calls' : CallBidding(d)'
         /\ \A n \in Nodes : bids[n] # NoBid => bids'[n] # NoBid
<1>1. /\ c.node \in Nodes /\ c.kind \in Kinds /\ CallBidding(c) /\ c.awaited
      /\ procs[c.node].up /\ procs[c.node].bidMissed \in Nat
      /\ bids[c.node] \in Bid \cup {NoBid}
      /\ procs \in [Nodes -> Process]
      /\ TypeInv /\ \A n \in Nodes : Bidding(n)
  BY OneCall DEF BiddingInv, CountInv, CallBidding, TypeInv, Types, Request, Process
<1>2. PICK reply \in Replies : /\ Return(c, reply)
                               /\ \/ Handle(c) /\ reply \in {Reply(c), "error"}
                                  \/ UNCHANGED coordVars /\ reply = "error"
  BY <1>1, SmoothCases
<1>3. \A d \in calls : CallBidding(d)
  BY DEF BiddingInv
<1>4. \A d \in calls' : CallBidding(d)
  <2>1. calls' \subseteq calls \cup FollowUp(c, reply)
    BY <1>1, <1>2 DEF Return
  <2>2. \A d \in FollowUp(c, reply) : d.awaited /\ d.kind = "reregister"
    BY DEF FollowUp, Call
  <2> QED BY <1>3, <2>1, <2>2 DEF CallBidding
<1>5. CASE c.kind # "bid"
  <2>1. bids' = bids
    BY <1>2, <1>5 DEF Handle, coordVars
  <2>2. \A n \in Nodes : /\ procs'[n].up = procs[n].up /\ procs'[n].bidIn = procs[n].bidIn
                         /\ procs'[n].bidMissed = procs[n].bidMissed
    <3> DEFINE a == AfterReply(procs[c.node], c.kind, reply)
               reg == [a EXCEPT !.regMissed = Counted(a.regMissed, reply)]
    <3>1. procs[c.node] \in Process
      BY <1>1
    <3>2. /\ a \in Process /\ a.up = procs[c.node].up /\ a.bidIn = procs[c.node].bidIn
          /\ a.bidMissed = procs[c.node].bidMissed
      <4>1. HeartbeatInterval \in Nat /\ RetryInterval \in Nat
        BY CoordinatorAssumption
      <4> QED BY <1>1, <1>5, <3>1, <4>1 DEF AfterReply, Process, Timer, Kinds
    <3>3. procs' = [procs EXCEPT ![c.node] = reg]
      BY <1>1, <1>2, <1>5 DEF Return
    <3> HIDE DEF a
    <3>4. reg.up = a.up /\ reg.bidIn = a.bidIn /\ reg.bidMissed = a.bidMissed
      BY <3>2 DEF Process
    <3> HIDE DEF reg
    <3> QED BY <1>1, <3>2, <3>3, <3>4
  <2>3. \A n \in Nodes : Bidding(n)'
    BY <1>1, <2>1, <2>2 DEF Bidding
  <2> QED BY <1>4, <2>1, <2>3 DEF CallBidding
<1>6. CASE c.kind = "bid"
  <2> DEFINE p == procs[c.node]
  <2>1. /\ \A n \in Nodes \ {c.node} : procs'[n] = procs[n]
        /\ procs'[c.node].up = p.up /\ procs'[c.node].bidIn = Refresh
        /\ procs'[c.node].bidMissed = IF reply = "error" THEN p.bidMissed + 1 ELSE 0
    BY <1>1, <1>2, <1>6, BidReturned
  <2>2. p.bidIn = Waiting /\ Left(Waiting) = 0
    BY <1>1, <1>6, OneCall DEF Left
  <2>3. Handle(c) => /\ bids'[c.node] # NoBid /\ bids'[c.node].left = ValidFor
                     /\ \A n \in Nodes \ {c.node} : bids'[n] = bids[n]
                     /\ Reply(c) = "ok"
    BY <1>1, <1>6, FreshBid DEF CallBidding
  <2>4. \A n \in Nodes \ {c.node} : bids'[n] = bids[n]
    BY <1>2, <2>3 DEF coordVars
  <2>5. \A n \in Nodes \ {c.node} : Bidding(n)'
    BY <1>1, <2>1, <2>4 DEF Bidding
  <2>6. /\ Refresh \in Nat /\ Left(Refresh) = Refresh /\ ValidFor \in Nat
        /\ \A k \in Nat : /\ Refresh <= Lag(k, Refresh) /\ Lag(k, Refresh) \in Nat
                          /\ Lag(k + 1, Refresh) = Lag(k, Refresh) + Refresh
    BY LagFacts, CoordinatorAssumption DEF Left
  <2>7. procs'[c.node].bidMissed \in Nat
    BY <1>1, <2>1
  <2>8. CASE Handle(c)
    <3>1. Bidding(c.node)'
      BY <1>1, <2>1, <2>3, <2>6, <2>7, <2>8 DEF Bidding, Left
    <3> QED BY <1>4, <2>3, <2>4, <2>5, <2>8, <3>1 DEF CallBidding
  <2>9. CASE ~Handle(c)
    <3>1. reply = "error" /\ bids' = bids
      BY <1>2, <2>9 DEF coordVars
    <3>2. bids[c.node] # NoBid => bids[c.node].left \in Nat
      BY <1>1, CoordinatorAssumption DEF Bid
    <3>3. bids[c.node] # NoBid =>
            ValidFor <= bids[c.node].left + Lag(p.bidMissed, Refresh)
      BY <1>1, <2>2, <2>6 DEF Bidding
    <3>4. bids[c.node] # NoBid =>
            ValidFor + Refresh <= bids[c.node].left + Lag(p.bidMissed + 1, Refresh)
      BY <1>1, <2>6, <3>2, <3>3
    <3>5. procs'[c.node].bidMissed = p.bidMissed + 1 /\ Left(procs'[c.node].bidIn) = Refresh
      BY <2>1, <2>6, <3>1
    <3>6. Bidding(c.node)'
      BY <1>1, <2>1, <3>1, <3>4, <3>5 DEF Bidding, Left
    <3> QED BY <1>4, <2>5, <3>1, <3>6 DEF CallBidding
  <2> QED BY <2>8, <2>9
<1> QED BY <1>5, <1>6

\* A bid that may not yet have lapsed has not.
LEMMA LeftOver ==
  ASSUME BidsInTime, NEW left \in Nat, NEW wait \in Nat,
         NEW missed \in Nat, missed <= MaxMissed,
         ValidFor + wait <= left + Lag(missed, Refresh)
  PROVE  left > 0
<1>1. /\ Lag(missed, Refresh) <= Lag(MaxMissed, Refresh)
      /\ Lag(missed, Refresh) \in Nat /\ Lag(MaxMissed, Refresh) \in Nat
      /\ ValidFor \in Nat
  BY LagFacts, CoordinatorAssumption
<1>2. Lag(MaxMissed, Refresh) < ValidFor
  BY DEF BidsInTime, Lag
<1> QED BY <1>1, <1>2

LEMMA BidLeft ==
  ASSUME BidsInTime, BiddingInv, smooth, NEW n \in Nodes, bids[n] # NoBid
  PROVE  bids[n].left > 0
<1>1. /\ Bidding(n) /\ procs[n].bidMissed \in Nat /\ procs[n].bidMissed <= MaxMissed
      /\ bids[n] \in Bid /\ procs[n].bidIn \in Timer
  BY DEF BiddingInv, CountInv, TypeInv, Types, Process
<1>2. /\ bids[n].left \in Nat /\ Left(procs[n].bidIn) \in Nat
      /\ ValidFor + Left(procs[n].bidIn) <= bids[n].left + Lag(procs[n].bidMissed, Refresh)
  BY <1>1, CoordinatorAssumption DEF Bidding, Bid, Left, Timer
<1> QED BY <1>1, <1>2, LeftOver

\* So it is not collected, and it runs down with the loop that renews it.
LEMMA CollectBidding ==
  ASSUME BiddingInv, smooth, Collect
  PROVE  /\ \A n \in Nodes : Bidding(n)'
         /\ \A c \in calls' : CallBidding(c)'
         /\ BidsInTime => bids' = bids
<1>1. /\ procs' = procs /\ calls' = calls
      /\ bids' = [n \in Nodes |-> IF bids[n] # NoBid /\ Kept(bids[n]) THEN bids[n] ELSE NoBid]
  BY DEF Collect
<1>2. \A n \in Nodes : Bidding(n)'
  BY <1>1 DEF Bidding, BiddingInv
<1>3. \A c \in calls' : CallBidding(c)'
  BY <1>1 DEF CallBidding, BiddingInv
<1>4. ASSUME BidsInTime
      PROVE  bids' = bids
  <2>1. \A n \in Nodes : bids'[n] = bids[n]
    BY <1>1, <1>4, BidLeft DEF Kept
  <2>2. bids \in [Nodes -> Bid \cup {NoBid}]
    BY DEF BiddingInv, CountInv, TypeInv, Types
  <2> QED BY <1>1, <2>1, <2>2
<1> QED BY <1>2, <1>3, <1>4

LEMMA TickBidding ==
  ASSUME BiddingInv, smooth, Tick, calls = {}
  PROVE  /\ \A n \in Nodes : Bidding(n)'
         /\ \A c \in calls' : CallBidding(c)'
         /\ \A n \in Nodes : bids[n] # NoBid => bids'[n] # NoBid
<1>1. calls' = {}
  BY DEF Tick
<1>2. ASSUME NEW n \in Nodes, bids[n] # NoBid
      PROVE  /\ bids'[n] # NoBid /\ procs'[n].up
             /\ ValidFor + Left(procs'[n].bidIn)
                  <= bids'[n].left + Lag(procs'[n].bidMissed, Refresh)
  <2>1. /\ Bidding(n) /\ bids[n] \in Bid /\ procs[n].bidMissed \in Nat
        /\ procs'[n].bidIn \in Timer
    BY <1>2, TickTypes DEF BiddingInv, CountInv, TypeInv, Types, Process
  <2>2. /\ procs'[n].up = procs[n].up /\ procs[n].up
        /\ procs'[n].bidMissed = procs[n].bidMissed
        /\ Left(procs'[n].bidIn) + 1 = Left(procs[n].bidIn)
    BY <1>2, <2>1, QuietTick DEF BiddingInv, CountInv, Bidding
  <2>3. /\ bids[n].left \in 0..ValidFor /\ ValidFor \in Nat /\ Left(procs'[n].bidIn) \in Nat
        /\ Lag(procs[n].bidMissed, Refresh) \in Nat
        /\ ValidFor + Left(procs[n].bidIn)
             <= bids[n].left + Lag(procs[n].bidMissed, Refresh)
    BY <1>2, <2>1, LagFacts, CoordinatorAssumption DEF Bidding, Bid, Left, Timer
  <2>4. bids'[n] = [bids[n] EXCEPT !.left = Less(bids[n].left)]
    BY <1>2 DEF Tick
  <2>5. Less(bids[n].left) \in 0..ValidFor /\ Less(bids[n].left) + 1 >= bids[n].left
    BY <2>3, CoordinatorAssumption DEF Less
  <2>6. bids'[n] \in Bid /\ bids'[n].left + 1 >= bids[n].left /\ bids'[n].left \in Nat
    BY <2>1, <2>3, <2>4, <2>5 DEF Bid
  <2>7. bids'[n] # NoBid
    BY <2>6, AbsenceAssumption DEF Bid
  <2> QED BY <2>2, <2>3, <2>6, <2>7
<1>3. ASSUME NEW n \in Nodes, bids[n] = NoBid
      PROVE  bids'[n] = NoBid
  BY <1>3 DEF Tick
<1>4. \A n \in Nodes : Bidding(n)'
  BY <1>2, <1>3 DEF Bidding, Left
<1> QED BY <1>1, <1>2, <1>4

\* What a step that leaves the run smooth does to bids.
LEMMA NextBids ==
  ASSUME BiddingInv, [Next]_vars, smooth'
  PROVE  /\ \A n \in Nodes : procs'[n].bidMissed <= MaxMissed
         /\ \A n \in Nodes : Bidding(n)'
         /\ \A c \in calls' : CallBidding(c)'
         /\ BidsInTime => \A n \in Nodes : bids[n] # NoBid => bids'[n] # NoBid
<1>1. /\ smooth /\ ~CoordinatorRestart
      /\ Tick => calls = {}
      /\ \A n \in Nodes : procs[n].up => procs'[n].up
      /\ \A n \in Nodes : UNCHANGED vars \/ procs'[n].bidMissed <= MaxMissed
  BY SmoothKept DEF BiddingInv
<1>2. \A n \in Nodes : procs'[n].bidMissed <= MaxMissed
  BY <1>1 DEF BiddingInv, vars
<1>3. ASSUME NEW m \in Nodes, StopNode(m)
      PROVE  FALSE
  <2>1. procs[m].up /\ ~procs'[m].up
    BY <1>3 DEF StopNode, Down, BiddingInv, CountInv, TypeInv, Types
  <2> QED BY <1>1, <2>1
<1>4. ASSUME UNCHANGED <<nodes, bids, gcIn, procs, calls>>
      PROVE  (\A n \in Nodes : Bidding(n)') /\ (\A c \in calls' : CallBidding(c)')
  BY <1>1, <1>4 DEF BiddingInv, Bidding, CallBidding
<1>5. (\A n \in Nodes : Bidding(n)') /\ (\A c \in calls' : CallBidding(c)')
  BY <1>1, <1>3, <1>4, StepCases, StartBidding, SendBidding, ConcludeBidding,
     CollectBidding, TickBidding
<1>6. ASSUME (\E n \in Nodes, offer \in Offers : StartNode(n, offer)) \/
             (\E n \in Nodes : LoopStep(n))
      PROVE  bids' = bids
  BY <1>6 DEF StartNode, LoopStep, SendRegistration, SendBid, coordVars
<1>7. ASSUME BidsInTime, NEW n \in Nodes, bids[n] # NoBid
      PROVE  bids'[n] # NoBid
  BY <1>1, <1>3, <1>6, <1>7, StepCases, ConcludeBidding, CollectBidding, TickBidding
<1> QED BY <1>2, <1>5, <1>7

LEMMA NextBidding == BiddingInv /\ [Next]_vars => BiddingInv'
BY CountStep, NextBids DEF BiddingInv

\* "3x refresh - survives one missed POST": on a network without long delays
\* a bid that was taken stays and stays live while its node runs, through
\* MaxMissed failures in a row, for as many rounds as fit into its validity
\* (node main.rs: bid_loop, signed_bid: a bid every 60 s, valid for 180 s,
\* which is one failure; coordinator main.rs: gc drops the lapsed ones).
THEOREM BidsSurviveInTime == BidsInTime => (Spec => BidSurvivesMiss)
<1> SUFFICES ASSUME BidsInTime PROVE Spec => BidSurvivesMiss
  OBVIOUS
<1>1. Init => BiddingInv
  <2> SUFFICES ASSUME Init PROVE BiddingInv
    OBVIOUS
  <2>1. /\ \A n \in Nodes : procs[n] = Down /\ bids[n] = NoBid
        /\ calls = {} /\ outages = 0
    BY DEF Init
  <2>2. Down.bidMissed = 0 /\ 0 <= MaxMissed
    BY CoordinatorAssumption DEF Down
  <2> QED BY <2>1, <2>2, InitTypes DEF BiddingInv, CountInv, Bidding
<1>2. BiddingInv /\ [Next]_vars => BiddingInv'
  BY NextBidding
<1>3. BiddingInv /\ BiddingInv' /\ [Next]_vars =>
        [smooth' => \A n \in Nodes :
           bids[n] # NoBid => bids'[n] # NoBid /\ bids'[n].left > 0]_vars
  <2> SUFFICES ASSUME BiddingInv, BiddingInv', [Next]_vars, smooth',
                      NEW n \in Nodes, bids[n] # NoBid
               PROVE  bids'[n] # NoBid /\ bids'[n].left > 0
    OBVIOUS
  <2>1. bids'[n] # NoBid
    BY NextBids
  <2>2. bids'[n].left > 0
    <3>1. /\ Bidding(n)' /\ procs'[n].bidMissed \in Nat /\ procs'[n].bidMissed <= MaxMissed
          /\ bids'[n] \in Bid /\ procs'[n].bidIn \in Timer
      BY <2>1 DEF BiddingInv, CountInv, TypeInv, Types, Process
    <3>2. /\ bids'[n].left \in Nat /\ Left(procs'[n].bidIn) \in Nat
          /\ ValidFor + Left(procs'[n].bidIn)
               <= bids'[n].left + Lag(procs'[n].bidMissed, Refresh)
      BY <2>1, <3>1, CoordinatorAssumption DEF Bidding, Bid, Left, Timer
    <3> QED BY <3>1, <3>2, LeftOver
  <2> QED BY <2>1, <2>2
<1> QED BY <1>1, <1>2, <1>3, PTL DEF Spec, BidSurvivesMiss
=============================================================================

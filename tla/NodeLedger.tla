----------------------------- MODULE NodeLedger -----------------------------
(***************************************************************************)
(* apps/node/src/main.rs: what a node keeps for one payment channel        *)
(* (ChannelState) and how concurrent requests move it.  /execute runs as   *)
(* one slot of Requests: check_channel_solvent, the eth_call it may await, *)
(* backend.step, build_receipt; /ack is PostAck.  The lock on the channel  *)
(* map is held within an action and never across two of them; an await is  *)
(* the boundary between two actions.                                       *)
(*                                                                         *)
(* Channels do not share anything but the lock, so one channel is          *)
(* modelled; a channel absent from the map is one with the default entry   *)
(* every or_insert_with writes.  An update is [nonce, cumOwed]; an ack is  *)
(* an update with the wallet whose key signed it, or with NoWallet if it   *)
(* names another channel or its signature does not decode.  A round trip's *)
(* cost (tokens times price over 1000) is any value of Costs;              *)
(* saturating_add never saturates within the bounds.  The chain is seen    *)
(* through channels(id).deposit only.                                      *)
(***************************************************************************)
EXTENDS Integers, FiniteSets

CONSTANTS
  Requests,    \* concurrent /execute calls on the channel
  Wallets,     \* keys that may sign an ack
  Unissued,    \* states the node has not issued but a wallet may sign
  Costs, MaxCost,         \* costs of one round trip, and their bound
  Deposits, MaxDeposit,   \* deposits the channel has on-chain over time
  NoAck, NoWallet, NoDeposit, NoReceipt,
  MaxWork,     \* bound on the cost of all steps the backend runs
  MaxRestarts  \* bound on node restarts

ASSUME LedgerAssumption ==
  /\ IsFiniteSet(Requests)
  /\ MaxCost \in Nat /\ Costs \subseteq 0..MaxCost
  /\ MaxDeposit \in Nat /\ Deposits \subseteq 0..MaxDeposit
  /\ MaxWork \in Nat /\ MaxRestarts \in Nat
  /\ NoDeposit \notin Nat
  /\ NoWallet \notin Wallets
  /\ Unissued \subseteq [nonce : Nat, cumOwed : Nat]
  /\ NoAck \notin [update : [nonce : Nat, cumOwed : Nat],
                signer : Wallets \cup {NoWallet}]
  /\ NoReceipt \notin [nonce : Nat, cumOwed : Nat]

VARIABLES
  entry,      \* the channel's ChannelState
  execs,      \* the /execute calls in progress
  issued,     \* every receipt signed, with the node lifetime it belongs to
  life,       \* restarts so far
  billed,     \* cost of the round trips receipted in this lifetime
  work,       \* cost of every step the backend completed
  deposited   \* channels(id).deposit on-chain

vars == <<entry, execs, issued, life, billed, work, deposited>>

Update == [nonce : Nat, cumOwed : Nat]
Ack == [update : Update, signer : Wallets \cup {NoWallet}]

Fresh == [nonce |-> 0, cumOwed |-> 0, lastAcked |-> NoAck,
          client |-> NoWallet, deposit |-> NoDeposit]

Replies == {"none", "receipt", "zeroDeposit", "exhausted", "badAck", "error"}
Idle == [phase |-> "idle", ack |-> NoAck, cum |-> 0, seen |-> NoDeposit,
         reply |-> "none", receipt |-> NoReceipt]

Init ==
  /\ entry = Fresh
  /\ execs = [r \in Requests |-> Idle]
  /\ issued = {}
  /\ life = 0
  /\ billed = 0
  /\ work = 0
  /\ deposited = 0

---------------------------------------------------------------------------
(* check_channel_solvent.                                                  *)

\* Its verdict on a deposit and the cum_owed it read.
Verdict_AtDeposit(deposit, cum) ==
  IF deposit = 0 THEN "zeroDeposit" ELSE IF cum > deposit THEN "exhausted" ELSE "ok"
Verdict(deposit, cum) ==
  IF deposit = 0 THEN "zeroDeposit" ELSE IF cum >= deposit THEN "exhausted" ELSE "ok"

\* The call goes on to the backend or is refused with 402.
Decide(exec, deposit) ==
  IF Verdict(deposit, exec.cum) = "ok" THEN [exec EXCEPT !.phase = "stepping"]
  ELSE [exec EXCEPT !.phase = "replied", !.reply = Verdict(deposit, exec.cum)]

\* /execute arrives with an optional prev_ack; the deposit and cum_owed are
\* read under one lock, and a cached deposit decides at once.
Arrive(r, ack) ==
  /\ execs[r].phase = "idle"
  /\ LET read == [Idle EXCEPT !.ack = ack, !.cum = entry.cumOwed]
     IN  execs' = [execs EXCEPT ![r] =
           IF entry.deposit = NoDeposit THEN [read EXCEPT !.phase = "fetching"]
           ELSE Decide(read, entry.deposit)]
  /\ UNCHANGED <<entry, issued, life, billed, work, deposited>>

Fetched(exec) == [exec EXCEPT !.phase = "fetched", !.seen = deposited]

\* The RPC server evaluates the eth_call.
FetchDeposit(r) ==
  /\ execs[r].phase = "fetching"
  /\ execs' = [execs EXCEPT ![r] = Fetched(@)]
  /\ UNCHANGED <<entry, issued, life, billed, work, deposited>>

\* Its answer arrives: it is cached, whatever it is, and decides with the
\* cum_owed read before the call.
CacheDeposit(r) ==
  /\ execs[r].phase = "fetched"
  /\ entry' = [entry EXCEPT !.deposit = execs[r].seen]
  /\ execs' = [execs EXCEPT ![r] = Decide(@, execs[r].seen)]
  /\ UNCHANGED <<issued, life, billed, work, deposited>>

\* A failed call ends the request: eth_call, or backend.step.  So does a
\* client that hangs up while the handler awaits one of them.
CallFails(r) ==
  /\ execs[r].phase \in {"fetching", "fetched", "stepping"}
  /\ execs' = [execs EXCEPT ![r] = [@ EXCEPT !.phase = "replied", !.reply = "error"]]
  /\ UNCHANGED <<entry, issued, life, billed, work, deposited>>

---------------------------------------------------------------------------
(* verify_and_record_ack and build_receipt.                                *)

\* An ack of another channel and one without a signature are refused; the
\* signer must be the one of the first ack.
AckAccepted(e, ack) ==
  /\ ack.signer # NoWallet
  /\ e.client \in {NoWallet, ack.signer}

\* The entry after an accepted ack; its nonce is not looked at.
WithAck_OwnState(e, ack) ==
  [e EXCEPT !.client = ack.signer,
            !.lastAcked = [ack EXCEPT !.update = [nonce |-> e.nonce, cumOwed |-> e.cumOwed]]]
WithAck(e, ack) == [e EXCEPT !.client = ack.signer, !.lastAcked = ack]

\* The state the next receipt carries, from the entry at this moment.
NextUpdate_FromCheck(e, exec, cost) ==
  [nonce |-> e.nonce + 1, cumOwed |-> exec.cum + cost]
NextUpdate_Twice(e, exec, cost) ==
  [nonce |-> e.nonce + 1, cumOwed |-> e.cumOwed + cost + cost]
NextUpdate_SameNonce(e, exec, cost) ==
  [nonce |-> e.nonce, cumOwed |-> e.cumOwed + cost]
NextUpdate(e, exec, cost) ==
  [nonce |-> e.nonce + 1, cumOwed |-> e.cumOwed + cost]

\* backend.step succeeds at a cost and build_receipt runs under the lock: a
\* bad prev_ack aborts after the work was done, a good one is recorded, and
\* the bumped state is signed and stored.
StepSucceeds(r, cost) ==
  LET exec == execs[r]
      update == NextUpdate(entry, exec, cost)
  IN  /\ exec.phase = "stepping"
      /\ work + cost <= MaxWork
      /\ work' = work + cost
      /\ IF exec.ack # NoAck /\ ~AckAccepted(entry, exec.ack)
         THEN /\ execs' = [execs EXCEPT
                   ![r] = [exec EXCEPT !.phase = "replied", !.reply = "badAck"]]
              /\ UNCHANGED <<entry, issued, billed>>
         ELSE /\ entry' = [(IF exec.ack = NoAck THEN entry ELSE WithAck(entry, exec.ack))
                             EXCEPT !.nonce = update.nonce, !.cumOwed = update.cumOwed]
              /\ issued' = issued \cup {[life |-> life, update |-> update]}
              /\ billed' = billed + cost
              /\ execs' = [execs EXCEPT
                   ![r] = [exec EXCEPT !.phase = "replied", !.reply = "receipt",
                                       !.receipt = update]]
      /\ UNCHANGED <<life, deposited>>

\* The answer leaves the node (whether or not it reaches the client).
Respond(r) ==
  /\ execs[r].phase = "replied"
  /\ execs' = [execs EXCEPT ![r] = Idle]
  /\ UNCHANGED <<entry, issued, life, billed, work, deposited>>

\* POST /ack.
PostAck(ack) ==
  /\ AckAccepted(entry, ack)
  /\ entry' = WithAck(entry, ack)
  /\ UNCHANGED <<execs, issued, life, billed, work, deposited>>

\* The node restarts: channel state is in memory only.
Restart ==
  /\ life < MaxRestarts
  /\ life' = life + 1
  /\ entry' = Fresh
  /\ execs' = [r \in Requests |-> Idle]
  /\ billed' = 0
  /\ UNCHANGED <<issued, work, deposited>>

---------------------------------------------------------------------------
(* A chain and clients that behave in any way the node cannot exclude: an  *)
(* ack is any wallet's signature, or no valid one, on a receipt or on a    *)
(* state never issued (the node's own signature is not asked for).         *)

ChainChange ==
  /\ deposited' \in Deposits
  /\ UNCHANGED <<entry, execs, issued, life, billed, work>>

PossibleAcks == [update : {i.update : i \in issued} \cup Unissued,
                 signer : Wallets \cup {NoWallet}]

Execute(r) ==
  \/ FetchDeposit(r)
  \/ CacheDeposit(r)
  \/ CallFails(r)
  \/ \E cost \in Costs : StepSucceeds(r, cost)

Next ==
  \/ \E r \in Requests : \/ \E ack \in PossibleAcks \cup {NoAck} : Arrive(r, ack)
                         \/ Execute(r)
                         \/ Respond(r)
  \/ \E ack \in PossibleAcks : PostAck(ack)
  \/ Restart
  \/ ChainChange

Spec == Init /\ [][Next]_vars

---------------------------------------------------------------------------
(* Properties.                                                             *)

Entry == [nonce : Nat, cumOwed : Nat, lastAcked : Ack \cup {NoAck},
          client : Wallets \cup {NoWallet}, deposit : Nat \cup {NoDeposit}]
Exec == [phase : {"idle", "fetching", "fetched", "stepping", "replied"},
         ack : Ack \cup {NoAck}, cum : Nat, seen : Nat \cup {NoDeposit},
         reply : Replies, receipt : Update \cup {NoReceipt}]

\* Every field keeps its type, and only a fetched answer has a deposit to
\* cache.
TypeOK ==
  /\ entry \in Entry
  /\ execs \in [Requests -> Exec]
  /\ \A r \in Requests : execs[r].phase = "fetched" => execs[r].seen \in Nat
  /\ issued \subseteq [life : Nat, update : Update]
  /\ life \in Nat
  /\ billed \in Nat
  /\ work \in Nat
  /\ deposited \in Nat

\* Between two restarts no nonce is signed twice with different amounts, a
\* higher nonce never owes less, and the entry is at the newest receipt,
\* however many requests overlap.
ReceiptsInOrder ==
  /\ \A a, b \in issued : a.life = b.life =>
       /\ a.update.nonce = b.update.nonce => a = b
       /\ a.update.nonce < b.update.nonce => a.update.cumOwed <= b.update.cumOwed
  /\ \A a \in issued : a.life = life =>
       a.update.nonce <= entry.nonce /\ a.update.cumOwed <= entry.cumOwed

\* No overlapping round trip's cost is lost or counted twice.
EveryTripCounted == entry.cumOwed = billed

\* Requests that pass the solvency check together overshoot the deposit by
\* at most one round trip each: with n slots the node is owed less than the
\* largest deposit plus n of the dearest round trips, also when the deposit
\* is cached late or a cum_owed read before the eth_call is stale.
OvershootBounded ==
  entry.cumOwed = 0 \/ entry.cumOwed < MaxDeposit + Cardinality(Requests) * MaxCost

\* The channel's client, once learned from an ack, stays the same until a
\* restart, through /ack and prev_ack alike.
ClientFixed ==
  [][entry.client # NoWallet /\ life' = life => entry'.client = entry.client]_vars

\* The ledger as a meter of round trips.
Meter == INSTANCE TripMeter WITH
  Prices <- Costs, Payers <- Wallets, Nobody <- NoWallet,
  reading <- [nonce |-> entry.nonce, cumOwed |-> entry.cumOwed],
  sealed <- issued,
  payer <- entry.client

\* However many requests overlap, each with the lock let go around its awaits,
\* fails halfway, aborts on a bad ack or caches a deposit late, they come to
\* round trips charged one after the other, each once, at its own price and
\* on top of all earlier ones, and only the first payer's acks count.
ImplementsMeter == Meter!MeterSpec
=============================================================================

--------------------------- MODULE ChannelProtocol ---------------------------
(***************************************************************************)
(* One payment channel end to end: the dashboard's tabs (useChannel.ts and *)
(* runAgentLoop), the node's ledger (NodeLedger) and the contract          *)
(* (JobChannel, its time standing still).  Every tab has its own React     *)
(* state; all of them share localStorage and the wallet.  A request and    *)
(* its response travel over HTTP: a response can be lost, and a tab can be *)
(* closed or reloaded at any moment while the node goes on working.  A     *)
(* transaction is mined, or reverts, some time after it was sent, and the  *)
(* tab's wait for its receipt can fail before or after that.  A reading of *)
(* the channel's status takes its time, can be old when it arrives and can *)
(* fail.  The dashboard calls openChannel and cooperativeClose only.       *)
(***************************************************************************)
EXTENDS Integers, FiniteSets

CONSTANTS
  Client, Node,        \* the two addresses
  Tabs,                \* the client's open dashboards
  Requests,            \* /execute calls the node may have in progress
  Costs, MaxCost,      \* of one round trip
  Amounts, MaxDeposit, \* deposits the client chooses
  MaxWork, MaxRestarts, MaxReloads, MaxFailures,   \* bounds
  InitialUsdc,
  Patient,             \* whether users touch the panel only between runs
  NoAck, NoWallet, NoDeposit, NoReceipt, NoSlot, NoTab

ASSUME ProtocolAssumption ==
  /\ Client # Node
  /\ InitialUsdc \in Nat
  /\ Amounts \subseteq 1..MaxDeposit   \* the form refuses a deposit of zero
  /\ MaxDeposit \in Nat /\ MaxDeposit <= InitialUsdc
  /\ {MaxWork, MaxRestarts, MaxReloads, MaxFailures} \subseteq Nat
  /\ IsFiniteSet(Requests)
  /\ MaxCost \in Nat /\ Costs \subseteq 0..MaxCost
  /\ Patient \in BOOLEAN
  /\ NoWallet # Client /\ NoDeposit \notin Nat
  /\ NoSlot \notin Requests
  /\ NoTab \notin Tabs
  /\ NoReceipt \notin [nonce : Nat, cumOwed : Nat]
  /\ NoAck \notin [update : [nonce : Nat, cumOwed : Nat], signer : {Client, NoWallet}]

VARIABLES
  \* the contract
  channels, usdc, escrowed, funded, outcome,
  \* the node
  entry, execs, issued, life, billed, work,
  \* the client
  tabs,      \* per tab: its ChannelState in memory and its agent run
  storage,   \* localStorage for the pair: absent, or its ChannelState
  cosigned,  \* updates the client's wallet has signed
  lastSigned,   \* the update signed most recently
  pending,   \* transactions not yet mined, each with the tab that awaits it
  reopened,  \* whether an open was sent when the channel was there already
  reloads, failures

chainVars == <<channels, usdc, escrowed, funded, outcome>>
nodeVars == <<entry, execs, issued, life, billed, work>>
clientVars == <<tabs, storage, cosigned, lastSigned, pending, reopened, reloads, failures>>
vars == <<chainVars, nodeVars, clientVars>>

Id == <<Client, Node, 0>>   \* CHANNEL_NONCE is 0 for every channel

Ledger == INSTANCE NodeLedger WITH
  Wallets <- {Client}, Unissued <- {},
  Deposits <- Amounts \cup {0},
  deposited <- channels[Id].deposit

Contract == INSTANCE JobChannel WITH
  Clients <- {Client}, Nodes <- {Node}, ChannelNonces <- {0},
  Updates <- Ledger!Update,
  ChallengeWindow <- 1, ReclaimTimeout <- 0, MaxTime <- 0,
  now <- 0, active <- {Node},
  clientSigned <- {<<Id, u>> : u \in cosigned},
  nodeSigned <- {<<Id, i.update>> : i \in issued}, lapsed <- {}

\* ChannelState of the dashboard: whether it exists, and its two signed parts.
NoState == [exists |-> FALSE, lastReceipt |-> NoReceipt, lastAck |-> NoReceipt]
NewState == [exists |-> TRUE, lastReceipt |-> NoReceipt, lastAck |-> NoReceipt]

\* A tab.  mem is the hook's state and seen the channel status it shows, None
\* until a reading arrives; loading while the reading of its mount is under way;
\* run is the phase of its agent loop, slot the /execute call it waits for,
\* prevAck the ack for the next request and receipt the one being signed;
\* latest is the receipt the channel panel shows, panel what its buttons are
\* busy with, picked what it is signing.
NewTab == [mem |-> NoState, seen |-> "None", loading |-> TRUE,
           run |-> "idle", slot |-> NoSlot, prevAck |-> NoAck, receipt |-> NoReceipt,
           latest |-> NoReceipt, panel |-> "ready", picked |-> NoReceipt]

Init ==
  /\ tabs = [t \in Tabs |-> [NewTab EXCEPT !.loading = FALSE]]
  /\ storage = NoState
  /\ cosigned = {}
  /\ lastSigned = NoReceipt
  /\ pending = {}
  /\ reopened = FALSE
  /\ reloads = 0
  /\ failures = 0
  /\ issued = {}
  /\ Contract!Init
  /\ Ledger!Init

\* What users do of their own accord.  The code lets the panel and an agent
\* run of a tab go on side by side; a patient user begins neither before the
\* other is over.
MayTouchPanel(t) == Patient => tabs[t].run = "idle"
MayStartRun(t) == Patient => tabs[t].panel = "ready"

\* A reading of the status ends, and the tab t becomes tab.  It shows the status
\* of the channel, or an earlier one if the answer was long on its way, or what
\* it showed before if the call failed; either is a failure.
Had(status) == CASE status = "None" -> {"None"}
                 [] status = "Open" -> {"None", "Open"}
                 [] OTHER -> {"None", "Open", status}
ReadStatus(t, tab) ==
  /\ \E seen \in Had(channels[Id].status) \cup {tab.seen} :
       /\ tabs' = [tabs EXCEPT ![t] = [tab EXCEPT !.seen = seen]]
       /\ failures' = IF seen = channels[Id].status THEN failures ELSE failures + 1
  /\ failures' <= MaxFailures
  /\ UNCHANGED <<chainVars, nodeVars, storage>>
  /\ UNCHANGED <<cosigned, lastSigned, pending, reopened, reloads>>

---------------------------------------------------------------------------
(* The channel panel; busy (panel # "ready") disables all of it.           *)

\* The reading that the tab began when it was loaded arrives, or fails.
ReadOnMount(t) ==
  /\ tabs[t].loading
  /\ ReadStatus(t, [tabs[t] EXCEPT !.loading = FALSE])

\* "open": the wallet sends an openChannel transaction.
SendOpen(t, amount) ==
  /\ MayTouchPanel(t)
  /\ tabs[t].panel = "ready"
  /\ tabs[t].seen = "None"
  /\ pending' = pending \cup
       {[by |-> t, deposit |-> amount, update |-> NoReceipt, held |-> {}]}
  /\ tabs' = [tabs EXCEPT ![t].panel = "open"]
  /\ reopened' = (reopened \/ channels[Id].status # "None")
  /\ UNCHANGED <<chainVars, nodeVars, storage, cosigned, lastSigned, reloads, failures>>

\* Its receipt is there, be it of a success or of a revert: openChannel stores
\* a new channel over whatever localStorage holds, then reads the status.
PersistOpen(t) ==
  /\ tabs[t].panel = "opened"
  /\ storage' = NewState
  /\ tabs' = [tabs EXCEPT ![t].mem = NewState, ![t].panel = "refreshing"]
  /\ UNCHANGED <<chainVars, nodeVars>>
  /\ UNCHANGED <<cosigned, lastSigned, pending, reopened, reloads, failures>>

\* The reading after an open or a close ends, or fails.
Refresh(t) ==
  /\ tabs[t].panel = "refreshing"
  /\ ReadStatus(t, [tabs[t] EXCEPT !.panel = "ready"])

\* What the panel awaits throws: the popup is rejected, or the wait for the
\* receipt ends by its timeout or an RPC error, whether or not the transaction
\* was mined meanwhile.  The handler ends there and the panel is free again.
Orphaned(t) == {IF tx.by = t THEN [tx EXCEPT !.by = NoTab] ELSE tx : tx \in pending}
PanelFails(t) ==
  /\ tabs[t].panel \in {"open", "opened", "sign", "close"}
  /\ failures < MaxFailures
  /\ failures' = failures + 1
  /\ pending' = Orphaned(t)
  /\ tabs' = [tabs EXCEPT ![t].panel = "ready", ![t].picked = NoReceipt]
  /\ UNCHANGED <<chainVars, nodeVars, storage, cosigned, lastSigned, reopened, reloads>>

\* "sign latest receipt": the wallet's popup opens on the receipt shown.
PickLatest(t) ==
  /\ MayTouchPanel(t)
  /\ tabs[t].panel = "ready"
  /\ tabs[t].latest # NoReceipt
  /\ tabs[t].seen = "Open"
  /\ tabs' = [tabs EXCEPT ![t].panel = "sign", ![t].picked = tabs[t].latest]
  /\ UNCHANGED <<chainVars, nodeVars, storage>>
  /\ UNCHANGED <<cosigned, lastSigned, pending, reopened, reloads, failures>>

\* What signReceipt persists of a signed receipt.
Persisted_AckOnly(mem, receipt) == [mem EXCEPT !.lastAck = receipt]
Persisted_FirstOnly(mem, receipt) ==
  IF mem.lastAck # NoReceipt THEN mem
  ELSE [mem EXCEPT !.lastReceipt = receipt, !.lastAck = receipt]
Persisted(mem, receipt) == [mem EXCEPT !.lastReceipt = receipt, !.lastAck = receipt]

\* persist: what localStorage keeps of it.
StoredState_WithoutAck(mem) ==
  [mem EXCEPT !.lastReceipt = NoReceipt, !.lastAck = NoReceipt]
StoredState(mem) == mem

\* The popup is approved: signReceipt persists the pair.  The tab that ran it
\* goes on as next says.
SignReceipt(t, receipt, next) ==
  LET mem == Persisted(tabs[t].mem, receipt)
  IN  /\ cosigned' = cosigned \cup {receipt}
      /\ lastSigned' = receipt
      /\ storage' = StoredState(mem)
      /\ tabs' = [tabs EXCEPT ![t] = [next EXCEPT !.mem = mem]]
      /\ UNCHANGED <<chainVars, nodeVars, pending, reopened, reloads, failures>>

SignLatest(t) ==
  /\ tabs[t].panel = "sign"
  /\ SignReceipt(t, tabs[t].picked,
                 [tabs[t] EXCEPT !.panel = "ready", !.picked = NoReceipt])

\* "cooperative close": the wallet sends a transaction with the tab's lastAck
\* (its client signature, and the node signature of lastReceipt).
SubmittedUpdate(mem) == mem.lastAck
SendClose(t) ==
  /\ MayTouchPanel(t)
  /\ tabs[t].panel = "ready"
  /\ tabs[t].mem.lastAck # NoReceipt
  /\ tabs[t].seen = "Open"
  /\ pending' = pending \cup
       {[by |-> t, deposit |-> 0, update |-> SubmittedUpdate(tabs[t].mem),
         held |-> cosigned]}
  /\ tabs' = [tabs EXCEPT ![t].panel = "close"]
  /\ UNCHANGED <<chainVars, nodeVars, storage>>
  /\ UNCHANGED <<cosigned, lastSigned, reopened, reloads, failures>>

\* A transaction is mined, and the tab that waits for it, if there is one,
\* goes on; after a close it reads the status again.
Mined(tx) ==
  /\ pending' = pending \ {tx}
  /\ tabs' = [t \in Tabs |->
       IF t # tx.by THEN tabs[t]
       ELSE [tabs[t] EXCEPT !.panel = IF tx.update = NoReceipt THEN "opened"
                                      ELSE "refreshing"]]
  /\ UNCHANGED nodeVars
  /\ UNCHANGED <<storage, cosigned, lastSigned, reopened, reloads, failures>>

MineOpen(tx) ==
  /\ tx.update = NoReceipt
  /\ Mined(tx)
  /\ Contract!OpenChannel(Id, tx.deposit)
MineClose(tx) ==
  /\ tx.update # NoReceipt
  /\ Mined(tx)
  /\ Contract!CooperativeClose(Id, tx.update)

\* The contract reverts it.  An open may fail in any case (the node is not
\* active, the transfer fails, the channel exists), a close when the channel is
\* closed already.
MineRevert(tx) ==
  /\ tx.update # NoReceipt => channels[Id].status # "Open"
  /\ Mined(tx)
  /\ UNCHANGED chainVars

---------------------------------------------------------------------------
(* An agent run of a tab.                                                  *)

\* sendStep: the request reaches the node on a free slot.
Send(t, ack) ==
  \E r \in Requests :
    /\ execs[r].phase = "idle"
    /\ UNCHANGED chainVars
    /\ Ledger!Arrive(r, ack)
    /\ tabs' = [tabs EXCEPT ![t] = [@ EXCEPT !.run = "waiting", !.slot = r,
                                             !.prevAck = ack]]
    /\ UNCHANGED <<storage, cosigned, lastSigned, pending, reopened, reloads, failures>>

\* handleSend on the tab's channel; a new loop starts without a prevAck.
StartRun(t) ==
  /\ MayStartRun(t)
  /\ tabs[t].run = "idle"
  /\ tabs[t].mem.exists
  /\ Send(t, NoAck)

\* The loop goes on after a tool call.
ContinueRun(t) ==
  /\ tabs[t].run = "tool"
  /\ Send(t, tabs[t].prevAck)

\* The response arrives; a refusal or an error ends the loop.
Receive(t) ==
  LET exec == execs[tabs[t].slot]
  IN  /\ tabs[t].run = "waiting"
      /\ exec.phase = "replied"
      /\ UNCHANGED chainVars
      /\ Ledger!Respond(tabs[t].slot)
      /\ tabs' = [tabs EXCEPT ![t] =
           IF exec.reply = "receipt"
           THEN [@ EXCEPT !.run = "signing", !.slot = NoSlot, !.receipt = exec.receipt]
           ELSE [@ EXCEPT !.run = "idle", !.slot = NoSlot, !.prevAck = NoAck]]
      /\ UNCHANGED <<storage, cosigned, lastSigned, pending, reopened, reloads, failures>>

\* After the receipt event the loop ends with a final answer, or runs a tool
\* and keeps the ack for the next request.
AfterReceipt(tab, ack) ==
  {[tab EXCEPT !.run = "idle", !.latest = tab.receipt, !.receipt = NoReceipt,
               !.prevAck = NoAck],
   [tab EXCEPT !.run = "tool", !.latest = tab.receipt, !.receipt = NoReceipt,
               !.prevAck = ack]}

\* signAck succeeds: the ack is the new prevAck.
SignAck(t) ==
  /\ tabs[t].run = "signing"
  /\ LET receipt == tabs[t].receipt
     IN  \E next \in AfterReceipt(tabs[t], [update |-> receipt, signer |-> Client]) :
           SignReceipt(t, receipt, next)

\* signAck fails (the user rejects the popup): the old prevAck stays.
RejectAck(t) ==
  /\ tabs[t].run = "signing"
  /\ failures < MaxFailures
  /\ failures' = failures + 1
  /\ \E next \in AfterReceipt(tabs[t], tabs[t].prevAck) :
       tabs' = [tabs EXCEPT ![t] = next]
  /\ UNCHANGED <<chainVars, nodeVars, storage>>
  /\ UNCHANGED <<cosigned, lastSigned, pending, reopened, reloads>>

\* The page is loaded or reloaded: the hook hydrates from storage and begins
\* to read the status.
Reload(t) ==
  /\ reloads < MaxReloads
  /\ reloads' = reloads + 1
  /\ tabs' = [tabs EXCEPT ![t] = [NewTab EXCEPT !.mem = storage]]
  /\ pending' = Orphaned(t)
  /\ UNCHANGED <<chainVars, nodeVars, storage, cosigned, lastSigned, reopened, failures>>

---------------------------------------------------------------------------
(* The node and the network.                                               *)

\* The loop of a tab whose call was lost ends with an error.
Dropped(tab) == [tab EXCEPT !.run = "idle", !.slot = NoSlot, !.prevAck = NoAck]

\* What goes wrong for a tab that waits counts as a failure.
Failure(r) ==
  /\ failures' = IF \E t \in Tabs : tabs[t].slot = r THEN failures + 1 ELSE failures
  /\ failures' <= MaxFailures

\* A response nobody waits for, or that is lost on the way.
LoseResponse(r) ==
  /\ UNCHANGED chainVars
  /\ Ledger!Respond(r)
  /\ Failure(r)
  /\ tabs' = [t \in Tabs |-> IF tabs[t].slot = r THEN Dropped(tabs[t]) ELSE tabs[t]]
  /\ UNCHANGED <<storage, cosigned, lastSigned, pending, reopened, reloads>>

NodeStep(r) ==
  /\ UNCHANGED chainVars
  /\ \/ Ledger!FetchDeposit(r)
     \/ Ledger!CacheDeposit(r)
     \/ \E cost \in Costs : Ledger!StepSucceeds(r, cost)
  /\ UNCHANGED clientVars

\* The RPC or the backend fails, or the tab that waited has gone and the
\* handler is dropped.
NodeStepFails(r) ==
  /\ Failure(r)
  /\ UNCHANGED chainVars
  /\ Ledger!CallFails(r)
  /\ UNCHANGED <<tabs, storage, cosigned, lastSigned, pending, reopened, reloads>>

\* The node restarts; whoever waited for it sees the connection drop.
NodeRestart ==
  /\ UNCHANGED chainVars
  /\ Ledger!Restart
  /\ tabs' = [t \in Tabs |-> IF tabs[t].slot # NoSlot THEN Dropped(tabs[t]) ELSE tabs[t]]
  /\ UNCHANGED <<storage, cosigned, lastSigned, pending, reopened, reloads, failures>>

PanelStep(t) ==
  \/ ReadOnMount(t)
  \/ \E amount \in Amounts : SendOpen(t, amount)
  \/ PersistOpen(t)
  \/ Refresh(t)
  \/ PanelFails(t)
  \/ PickLatest(t)
  \/ SignLatest(t)
  \/ SendClose(t)

RunStep(t) ==
  \/ StartRun(t)
  \/ ContinueRun(t)
  \/ Receive(t)
  \/ SignAck(t)
  \/ RejectAck(t)

Mine(tx) == MineOpen(tx) \/ MineClose(tx) \/ MineRevert(tx)

NodeOrNetwork(r) == NodeStep(r) \/ NodeStepFails(r) \/ LoseResponse(r)

Next ==
  \/ \E t \in Tabs : PanelStep(t) \/ RunStep(t) \/ Reload(t)
  \/ \E r \in Requests : NodeOrNetwork(r)
  \/ \E tx \in pending : Mine(tx)
  \/ NodeRestart

Spec == Init /\ [][Next]_vars

---------------------------------------------------------------------------
(* Properties.                                                             *)

\* Whatever a tab submits to cooperativeClose carries a client and a node
\* signature of the same state, so the contract accepts it while the channel
\* is open: reloads, restarts, rejected popups and lost responses never leave
\* an ack stored beside another receipt.
CloseAlwaysVerifies ==
  \A t \in Tabs : LET mem == tabs[t].mem
                  IN mem.lastAck # NoReceipt =>
                       /\ mem.lastReceipt = mem.lastAck
                       /\ Contract!VerifySigs(Id, mem.lastAck)

\* The ack the node keeps is one the contract would settle on: it pairs the
\* signature the wallet made with the state it was made of.
AckedIsBilateral ==
  entry.lastAcked # NoAck => Contract!VerifySigs(Id, entry.lastAcked.update)

\* The client never pays for more than the backend did on its channel,
\* through restarts, lost responses, refused acks and overlapping runs.
PaidForWorkDone == outcome[Id].paid <= work

\* A patient client with one tab finds what its wallet signed last after any
\* reload, as long as it sends no open while the channel is there: until a
\* reading of the status arrives, or when it fails, the panel shows "None" and
\* offers one, and openChannel stores an empty channel even if it reverted.
StorageKeepsLastAck ==
  ~reopened /\ lastSigned # NoReceipt => storage.lastAck = lastSigned

\* A patient client with one tab, whose node does not restart, closes at the
\* newest state it had signed when it sent the close, whatever responses, pages
\* and waits it lost.
ClosesAtNewestCosigned ==
  [][\A tx \in pending \ pending' :
       outcome'[Id].by # outcome[Id].by =>
         \A u \in tx.held : u.nonce <= channels'[Id].latestNonce]_vars
=============================================================================

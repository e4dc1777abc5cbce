----------------------------- MODULE JobChannel -----------------------------
(***************************************************************************)
(* contracts/src/JobChannel.sol: USDC payment channels between a client    *)
(* and a node.  Every external function is one action; a call that reverts *)
(* is a step that is not taken.                                            *)
(*                                                                         *)
(* Abstractions.  A channel id is the triple channelIdOf hashes, so        *)
(* c.client and c.node are its first two components.  A signature is       *)
(* membership of the signed update in the signer's set.  The registry is   *)
(* seen through isActive only (NodeRegistry models it).  Time is           *)
(* block.timestamp in coarse units.  funded and outcome are what the       *)
(* contract's event log says of a channel: the sum of ChannelOpened and    *)
(* ChannelToppedUp, and the one ChannelClosed or ChannelReclaimed event    *)
(* with the transaction that emitted it.                                   *)
(***************************************************************************)
EXTENDS Integers, FiniteSets, FiniteSetsExt

CONSTANTS
  Clients, Nodes,    \* addresses
  ChannelNonces,     \* per-pair channel counters
  Updates,           \* the states parties may sign: [nonce, cumOwed]
  Amounts,           \* deposits and top-ups
  ChallengeWindow, ReclaimTimeout,   \* the constructor's two immutables
  InitialUsdc,       \* each account's USDC at the start
  MaxTime            \* bound on the clock

ASSUME ConstantsAssumption ==
  /\ Updates \subseteq [nonce : Nat, cumOwed : Nat]
  /\ Amounts \subseteq Nat
  /\ ChallengeWindow \in Nat
  /\ ReclaimTimeout \in Nat
  /\ InitialUsdc \in Nat
  /\ MaxTime \in Nat

\* Addresses and channel counters have a fixed width.
ASSUME FiniteAssumption ==
  IsFiniteSet(Clients) /\ IsFiniteSet(Nodes) /\ IsFiniteSet(ChannelNonces)

VARIABLES
  channels,       \* _channels
  usdc,           \* USDC balances of clients and nodes
  escrowed,       \* USDC balance of the contract itself
  now,            \* block.timestamp
  active,         \* the nodes for which registry.isActive holds
  clientSigned,   \* <<channel id, update>> signed with the client's key
  nodeSigned,     \* <<channel id, update>> signed with the node's key
  funded,         \* per channel, the money that ever entered it
  outcome,        \* per channel, the closing event and its transaction
  lapsed          \* history: channels that no party watches over

vars == <<channels, usdc, escrowed, now, active, clientSigned, nodeSigned,
          funded, outcome, lapsed>>

Accounts == Clients \cup Nodes
ChannelIds == Clients \X Nodes \X ChannelNonces
ClientOf(id) == id[1]
NodeOf(id) == id[2]

Statuses == {"None", "Open", "Challenged", "Closed"}
Channel == [deposit : Nat, latestCumOwed : Nat, latestNonce : Nat,
            challengeDeadline : Nat, openedAt : Nat, status : Statuses]
NoChannel == [deposit |-> 0, latestCumOwed |-> 0, latestNonce |-> 0,
              challengeDeadline |-> 0, openedAt |-> 0, status |-> "None"]

Closers == {"none", "cooperativeClose", "finalize", "reclaim"}
Outcome == [by : Closers, paid : Nat, refunded : Nat]
NoOutcome == [by |-> "none", paid |-> 0, refunded |-> 0]

Init ==
  /\ channels = [id \in ChannelIds |-> NoChannel]
  /\ usdc = [a \in Accounts |-> InitialUsdc]
  /\ escrowed = 0
  /\ now = 0
  /\ active = Nodes
  /\ clientSigned = {}
  /\ nodeSigned = {}
  /\ funded = [id \in ChannelIds |-> 0]
  /\ outcome = [id \in ChannelIds |-> NoOutcome]
  /\ lapsed = {}

---------------------------------------------------------------------------
(* Helpers shared by the functions of the contract.                        *)

\* _verifySigs: both recovered signers are the channel's parties.
VerifySigs_NodeOnly(id, u) == <<id, u>> \in nodeSigned
VerifySigs(id, u) == <<id, u>> \in clientSigned /\ <<id, u>> \in nodeSigned

\* safeTransfer of amount to account a.
Credit(balances, a, amount) == [balances EXCEPT ![a] = @ + amount]

\* The node's share in _settle: what is owed, capped at the deposit.
PaidToNode_Uncapped(c) == c.latestCumOwed
PaidToNode(c) ==
  IF c.latestCumOwed > c.deposit THEN c.deposit ELSE c.latestCumOwed

\* The writes that end a channel, in _settle and in reclaim.
Ended_KeepsDeposit(c) == [c EXCEPT !.status = "Closed"]
Ended(c) == [c EXCEPT !.status = "Closed", !.deposit = 0]

\* c with u as the state to be paid.
WithUpdate(c, u) ==
  [c EXCEPT !.latestNonce = u.nonce, !.latestCumOwed = u.cumOwed]

\* _settle on c (the channel with its last update already written).
Settle(id, c, tx) ==
  LET paid == PaidToNode(c)
      refund == c.deposit - paid
  IN  /\ channels' = [channels EXCEPT ![id] = Ended(c)]
      /\ usdc' = Credit(Credit(usdc, NodeOf(id), paid), ClientOf(id), refund)
      /\ escrowed' = escrowed - paid - refund
      /\ outcome' = [outcome EXCEPT
                       ![id] = [by |-> tx, paid |-> paid, refunded |-> refund]]

\* safeTransferFrom(payer, this, amount) into channel id.
PullIn(payer, id, amount) ==
  /\ usdc[payer] >= amount
  /\ usdc' = [usdc EXCEPT ![payer] = @ - amount]
  /\ escrowed' = escrowed + amount
  /\ funded' = [funded EXCEPT ![id] = @ + amount]

---------------------------------------------------------------------------
(* The external functions.                                                 *)

MayOpen(c) == c.status = "None"

Opened(c, amount, at) ==
  [c EXCEPT !.deposit = amount, !.openedAt = at, !.status = "Open"]

\* openChannel by the client of id.
OpenChannel(id, amount) ==
  /\ MayOpen(channels[id])
  /\ NodeOf(id) \in active
  /\ PullIn(ClientOf(id), id, amount)
  /\ channels' = [channels EXCEPT ![id] = Opened(@, amount, now)]
  /\ UNCHANGED <<now, active, clientSigned, nodeSigned, outcome>>

MayTopUp_NotClosed(c) == c.status # "None"
MayTopUp(c) == c.status = "Open"

ToppedUp(c, amount) == [c EXCEPT !.deposit = @ + amount]

\* topUp by any account.
TopUp(payer, id, amount) ==
  /\ MayTopUp(channels[id])
  /\ PullIn(payer, id, amount)
  /\ channels' = [channels EXCEPT ![id] = ToppedUp(@, amount)]
  /\ UNCHANGED <<now, active, clientSigned, nodeSigned, outcome>>

\* The nonce check of cooperativeClose; latestNonce is 0 until a challenge.
CloseNonceOk(c, u) == u.nonce >= c.latestNonce

\* cooperativeClose by anyone who holds both signatures on u.
CooperativeClose(id, u) ==
  /\ channels[id].status \in {"Open", "Challenged"}
  /\ CloseNonceOk(channels[id], u)
  /\ VerifySigs(id, u)
  /\ Settle(id, WithUpdate(channels[id], u), "cooperativeClose")
  /\ UNCHANGED <<now, active, clientSigned, nodeSigned, funded>>

MayChallenge(c) == c.status = "Open"

Contested(c, deadline) ==
  [c EXCEPT !.challengeDeadline = deadline, !.status = "Challenged"]

\* challengeClose by anyone who holds both signatures on u.
ChallengeClose(id, u) ==
  /\ MayChallenge(channels[id])
  /\ VerifySigs(id, u)
  /\ channels' = [channels EXCEPT
                    ![id] = Contested(WithUpdate(@, u), now + ChallengeWindow)]
  /\ UNCHANGED <<usdc, escrowed, now, active, clientSigned, nodeSigned,
                 funded, outcome>>

\* The nonce check of submitChallenge.
Overrides_NotLower(c, u) == u.nonce >= c.latestNonce
Overrides(c, u) == u.nonce > c.latestNonce

\* submitChallenge by anyone who holds both signatures on u.
SubmitChallenge(id, u) ==
  /\ channels[id].status = "Challenged"
  /\ now < channels[id].challengeDeadline
  /\ Overrides(channels[id], u)
  /\ VerifySigs(id, u)
  /\ channels' = [channels EXCEPT ![id] = WithUpdate(@, u)]
  /\ UNCHANGED <<usdc, escrowed, now, active, clientSigned, nodeSigned,
                 funded, outcome>>

WindowOver_Early(c) == now + 1 >= c.challengeDeadline
WindowOver_Late(c) == now > c.challengeDeadline + MaxTime
WindowOver(c) == now >= c.challengeDeadline

\* finalize by anyone.
Finalize(id) ==
  /\ channels[id].status = "Challenged"
  /\ WindowOver(channels[id])
  /\ Settle(id, channels[id], "finalize")
  /\ UNCHANGED <<now, active, clientSigned, nodeSigned, funded>>

MayReclaim(c) == c.status = "Open" /\ now >= c.openedAt + ReclaimTimeout

\* reclaim by the client of id.
Reclaim(id) ==
  LET c == channels[id]
  IN  /\ MayReclaim(c)
      /\ channels' = [channels EXCEPT ![id] = Ended(c)]
      /\ usdc' = Credit(usdc, ClientOf(id), c.deposit)
      /\ escrowed' = escrowed - c.deposit
      /\ outcome' = [outcome EXCEPT
           ![id] = [by |-> "reclaim", paid |-> 0, refunded |-> c.deposit]]
      /\ UNCHANGED <<now, active, clientSigned, nodeSigned, funded>>

---------------------------------------------------------------------------
(* The contract's environment.                                             *)

\* The registry activates or deactivates a node.
RegistryChange(n) ==
  /\ active' = IF n \in active THEN active \ {n} ELSE active \cup {n}
  /\ UNCHANGED <<channels, usdc, escrowed, now, clientSigned, nodeSigned,
                 funded, outcome>>

\* A party signs a state of channel id, off-chain.
ClientSigns(id, u) ==
  /\ clientSigned' = clientSigned \cup {<<id, u>>}
  /\ UNCHANGED <<channels, usdc, escrowed, now, active, nodeSigned, funded,
                 outcome>>
NodeSigns(id, u) ==
  /\ nodeSigned' = nodeSigned \cup {<<id, u>>}
  /\ UNCHANGED <<channels, usdc, escrowed, now, active, clientSigned, funded,
                 outcome>>

\* Block time advances.
Tick ==
  /\ now < MaxTime
  /\ now' = now + 1
  /\ UNCHANGED <<channels, usdc, escrowed, active, clientSigned, nodeSigned,
                 funded, outcome>>

\* The bound on the clock leaves every deadline reachable.
OpenInTime(id, amount) ==
  now + ReclaimTimeout <= MaxTime /\ OpenChannel(id, amount)
ChallengeInTime(id, u) ==
  now + ChallengeWindow <= MaxTime /\ ChallengeClose(id, u)

ContractStep(id) ==
  \/ \E amount \in Amounts : OpenInTime(id, amount)
  \/ \E payer \in Accounts, amount \in Amounts : TopUp(payer, id, amount)
  \/ \E u \in Updates : CooperativeClose(id, u)
  \/ \E u \in Updates : ChallengeInTime(id, u)
  \/ \E u \in Updates : SubmitChallenge(id, u)
  \/ Finalize(id)
  \/ Reclaim(id)

Signing(id) == \E u \in Updates : ClientSigns(id, u) \/ NodeSigns(id, u)

\* A party that watches the chain signs nothing more once a channel is
\* challenged, and does not let a window end with a newer signed state in hand
\* that it has not submitted.
Overriding(id) == {u \in Updates : VerifySigs(id, u) /\ Overrides(channels[id], u)}
SignedFor(id, signed) == {s \in signed : s[1] = id}
SignsLate(id) ==
  /\ channels[id].status \notin {"None", "Open"}
  /\ \/ SignedFor(id, clientSigned') # SignedFor(id, clientSigned)
     \/ SignedFor(id, nodeSigned') # SignedFor(id, nodeSigned)
MissesWindow(id) ==
  /\ now' # now
  /\ channels[id].status = "Challenged" /\ now + 1 = channels[id].challengeDeadline
  /\ Overriding(id) # {}
Watch == lapsed' = lapsed \cup {id \in ChannelIds : SignsLate(id) \/ MissesWindow(id)}

Next ==
  /\ \/ \E id \in ChannelIds : ContractStep(id) \/ Signing(id)
     \/ \E n \in Nodes : RegistryChange(n)
     \/ Tick
  /\ Watch

Spec == Init /\ [][Next]_vars

\* Time passes; once a window is over somebody who gains by it calls
\* finalize (it is open to anyone).
ResolveFairness ==
  /\ WF_vars(Tick /\ Watch)
  /\ \A id \in ChannelIds : WF_vars(Finalize(id) /\ Watch)

\* In addition the client takes the money back when it can.
ReclaimFairness == \A id \in ChannelIds : WF_vars(Reclaim(id) /\ Watch)

FairSpec == Spec /\ ResolveFairness /\ ReclaimFairness

---------------------------------------------------------------------------
(* Properties.                                                             *)

\* Every field keeps its type; in particular the refund of a settlement and
\* every account's balance stay natural numbers (uint256 never underflows).
TypeOK ==
  /\ channels \in [ChannelIds -> Channel]
  /\ usdc \in [Accounts -> Nat]
  /\ escrowed \in Int
  /\ now \in Nat
  /\ active \subseteq Nodes
  /\ clientSigned \subseteq ChannelIds \X Updates
  /\ nodeSigned \subseteq ChannelIds \X Updates
  /\ funded \in [ChannelIds -> Nat]
  /\ outcome \in [ChannelIds -> Outcome]

\* The contract holds exactly what its open and challenged channels say they
\* hold, whatever order openChannel, topUp and the four ways out ran in, so
\* no channel is ever paid out of another one's deposit.
EscrowBacksDeposits ==
  escrowed = MapThenSumSet(LAMBDA id : channels[id].deposit, ChannelIds)

\* Event log and storage agree: what entered a channel is what is still
\* deposited plus what its closing event says was paid and refunded.
LedgerBalanced ==
  \A id \in ChannelIds :
    funded[id] = channels[id].deposit + outcome[id].paid + outcome[id].refunded

\* Both parties signed the state a settlement paid, and the node got the
\* smaller of what that state owes and what was put in: neither side can
\* move money by itself through cooperativeClose, challengeClose,
\* submitChallenge or finalize.
PaidAsSigned ==
  \A id \in ChannelIds :
    outcome[id].by \in {"cooperativeClose", "finalize"} =>
      \E u \in Updates :
        /\ <<id, u>> \in clientSigned \cap nodeSigned
        /\ u.nonce = channels[id].latestNonce
        /\ outcome[id].paid = IF u.cumOwed > funded[id] THEN funded[id] ELSE u.cumOwed

\* A channel reclaimed in full was never challenged: challengeClose preempts
\* reclaim, also when both were possible.
ReclaimIsUncontested ==
  \A id \in ChannelIds :
    outcome[id].by = "reclaim" =>
      channels[id].challengeDeadline = 0 /\ channels[id].latestNonce = 0

\* A closed channel is final: no later call reopens it, funds it, replaces
\* its last state or pays it out again.
ClosedIsFinal ==
  [][\A id \in ChannelIds : channels[id].status = "Closed" =>
       /\ channels'[id] = channels[id]
       /\ outcome'[id] = outcome[id]
       /\ funded'[id] = funded[id]]_vars

\* From a challenge on, the state to be paid is only ever replaced by a
\* strictly newer one, the deadline does not move, and before the deadline
\* only both signatures together can end the channel.  A cooperative close is
\* not such a replacement: it pays at once, and also at an equal nonce.
ChallengeOnlyAdvances ==
  [][\A id \in ChannelIds : channels[id].status = "Challenged" =>
       LET c == channels[id]
           d == channels'[id]
       IN  /\ d.status \in {"Challenged", "Closed"}
           /\ d.challengeDeadline = c.challengeDeadline
           /\ d.latestNonce >= c.latestNonce
           /\ (d.latestCumOwed # c.latestCumOwed /\ d.status = "Challenged")
                => d.latestNonce > c.latestNonce
           /\ (d.status = "Closed" /\ now < c.challengeDeadline)
                => outcome'[id].by = "cooperativeClose"]_vars

\* If one of the parties watches the chain, finalize pays the newest state
\* both had signed, whichever state the challenge started from.
FinalizePaysNewest ==
  \A id \in ChannelIds :
    outcome[id].by = "finalize" /\ id \notin lapsed =>
      \A u \in Updates : VerifySigs(id, u) => u.nonce <= channels[id].latestNonce

\* A challenged channel is eventually closed.
ChallengeResolves ==
  \A id \in ChannelIds :
    channels[id].status = "Challenged" ~> channels[id].status = "Closed"

\* A deposit is never stuck: a client that reclaims when it can gets its
\* channel closed, even if the node never signs or calls anything.
DepositReleased ==
  \A id \in ChannelIds :
    channels[id].status = "Open" ~> channels[id].status = "Closed"

\* The channel as a promise about money only.
Phase(c) ==
  CASE c.status = "None" -> "absent"
    [] c.status = "Closed" -> "released"
    [] OTHER -> "held"
AgreedAmounts(id) ==
  {s[2].cumOwed : s \in {t \in clientSigned \cap nodeSigned : t[1] = id}}
Promise == INSTANCE EscrowPromise WITH
  Channels <- ChannelIds,
  phase <- [id \in ChannelIds |-> Phase(channels[id])],
  held <- [id \in ChannelIds |-> channels[id].deposit],
  agreed <- [id \in ChannelIds |-> AgreedAmounts(id)],
  released <- [id \in ChannelIds |->
                 [paid |-> outcome[id].paid, refunded |-> outcome[id].refunded]]

\* Without deadlines and nonces the contract is EscrowPromise: money leaves a
\* channel once, in full, and the node's share was agreed by both.
ImplementsPromise == Promise!PromiseSpec
=============================================================================

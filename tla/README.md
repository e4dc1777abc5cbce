# fldx in TLA+

A model, with model-checked and proved properties, of fldx: the two contracts,
the node's channel ledger, the payment protocol between dashboard, node and
chain, the dashboard page over several nodes, discovery through the
coordinator, agent sessions, the list of live nodes, and how a node comes to
its identity and its registration.

    tlc -config MCJobChannel.cfg MCJobChannel      # one of the runs below
    tlapm JobChannelProofs.tla                     # the proofs of a module

## The system

A *client* (dashboard or command line) asks the *coordinator* for a node that
fits a job, sends encrypted agent steps to that *node*, and pays for them
through a USDC *payment channel*. Every round trip on a channel returns a
node-signed cumulative state (a receipt); the client's wallet signs the same
state (an ack). A state with both signatures can be settled by the `JobChannel`
contract. Nodes stake in the `NodeRegistry` contract.

| Component | State | Operations | Talks to | What is hard | What makes it correct |
|---|---|---|---|---|---|
| `JobChannel.sol` | channels: deposit, last state, deadline, status | open, topUp, cooperativeClose, challengeClose, submitChallenge, finalize, reclaim | USDC, `NodeRegistry.isActive` | calls in any order by anyone, deadlines, stale states | each deposit leaves once and in full; the node gets what both signed; newest state wins a challenge; nothing is stuck |
| `NodeRegistry.sol` | nodes, `nodeList`, `_nodeListIndex`, minStake, escrow | register, update, unregister, slash, two owner setters | USDC | swap-and-pop list, draining slash, re-registration | the list is the set of active nodes; stakes are backed and are only ever paid out |
| Node: ledger (`main.rs`) | per channel: nonce, cum_owed, last_acked, client, cached deposit | `/execute`, `/ack` | chain RPC, backend | overlapping requests with awaits between check and bump; restart loses it all | no nonce signed twice, no trip lost, bounded overshoot past the deposit |
| Node: loops (`main.rs`) | timers | register, heartbeat, bid | coordinator | lost calls, lost replies, retries | a running node stays known |
| Coordinator | node map, bid book | register, heartbeat, bids, match, collector | nodes, clients | everything concurrent and in memory | a match takes the cheapest live offer; the silent are forgotten |
| Dashboard channel (`useChannel.ts`, `ChannelPanel.tsx`) | React state, readings of the chain, latest receipts; shared: localStorage, wallet | hydrate, refresh, approve, open, sign, persist, close, reload | node, chain, wallet | handlers that work on the values of an old render; several tabs; popups and transactions that take long | each state stays with its channel; what is submitted verifies; the newest signed state survives |
| Dashboard prompt (`Dashboard.tsx`) | a run, its record, latest receipts | match, attach a channel, events, merge with the log | coordinator, node | values captured before an await; a log that is late | a run uses the channel of its node; ended is ended |
| Client library (`loop.ts`, `transport.ts`) | the running loop, prevAck | send, receive, signAck, tool | node, wallet | failures in the middle of a run | never pairs an ack with another receipt; every run ends |
| Agent sessions (`agent`, `execution`) | messages and a lock per session | step | provider, tools | overlapping steps, partial failure | the history is one the provider accepts |
| Node: activity log (`main.rs`) | a record per session | begin, end, snapshot | dashboard | steps that overlap or are dropped | running exactly while a step runs |
| Dashboard node list (`useNodes.ts`, `useNodeActivity.ts`) | the list, last answers, live nodes | list, poll, conclude | coordinator, nodes | polls overlap and conclude in any order | dead nodes leave the canvas, running ones stay |
| Identity file (`identity.rs`) | two seeds on disk | migrate, load, save | other processes | crash or another process between two looks at the disk | an address that holds money keeps its key |
| Auto-registration (`eth/registry.rs`, `rpc.rs`) | transactions pending | approve, register, wait | chain | timeouts, restarts, nonces | a first try costs the stake and nothing else; it ends |
| Proxy, on-chain badge, drawing, local LLM, encryption, encodings, marketing | (almost) none | | | | not modelled, see below |

`PROJECT.json` lists every component, and under `hazards` each hard behaviour
at its line with the properties that cover it.

## Modules

| Module | Models | Checked through | Theorems |
|---|---|---|---|
| `EscrowPromise` | what a channel promises about money, without time, nonces or closing paths | refined by `JobChannel` | |
| `JobChannel` | `contracts/src/JobChannel.sol` | `MCJobChannel` | `JobChannelProofs` |
| `StakeBook` | what a registry promises about members and their stakes, without owners or the layout of its list | refined by `NodeRegistry` | |
| `NodeRegistry` | `contracts/src/NodeRegistry.sol` | `MCNodeRegistry` | `NodeRegistryProofs` |
| `TripMeter` | what a ledger promises about round trips and their payer, without overlapping calls | refined by `NodeLedger` | |
| `NodeLedger` | the node's `ChannelState`, `/execute` and `/ack` | `MCNodeLedger` | `NodeLedgerProofs` |
| `ChannelProtocol` | dashboard tabs, agent loop, `NodeLedger` and `JobChannel` together | `MCChannelProtocol` | `ChannelProtocolProofs` |
| `ChannelPage` | one dashboard page and its channels with several nodes | `MCChannelPage` | `ChannelPageProofs` |
| `Coordinator` | the coordinator, the node's two loops and the HTTP between them | `MCCoordinator` | `CoordinatorProofs` |
| `AgentSession` | a session of a node, the runs that use it, its log, the dashboard's view | `MCAgentSession` | `ActivityProofs` |
| `NodeList` | which nodes the dashboard shows | `MCNodeList` | `ActivityProofs` |
| `NodeStartup` | identity files and auto-registration of several processes | `MCNodeStartup` | `NodeStartupProofs` |

An operator whose name has an underscore (`Overrides_NotLower`) is a variant of
the operator after it with a plausible bug, kept to show that a property notices
it; no specification uses it.

### JobChannel

One action per external function; a revert is a step that is not taken. The
constructor's two immutables are constants. A channel id is the triple that
`channelIdOf` hashes, a signature is membership of `<<id, update>>` in the
signer's set, `isActive` is the set `active`, which the environment changes at
will, and `block.timestamp` is `now`. `funded` and `outcome` are what the event
log says of a channel; properties relate them to the storage.
`OpenInTime`/`ChallengeInTime` bound the clock so that every deadline that was
set can pass.

The history variable `lapsed` holds the channels nobody watches: those whose
challenge window ended while a party held a newer state with both signatures,
and those of which a state was signed only after the challenge. On all others
`finalize` pays the newest state; no behaviour is cut off to show it.

`EscrowPromise` has three steps (fund, agree, release). The refinement maps
status to a phase, both signature sets to the agreed amounts, and the closing
event to what was released.

### NodeRegistry

Url, key, bitmap, capacity and prices are one `meta` value, since every function
writes them together. `nodeList` and `_nodeListIndex` are kept literally,
because their agreement is the point.

`StakeBook` has two steps (join, pay out). The refinement reads `nodeList` from
end to end for the members, the `stake` fields for the stakes, and the
contract's token balance for the pot.

### NodeLedger

A call of `/execute` is one slot: `Arrive` (reads deposit and cum_owed under the
lock), `FetchDeposit` (the RPC server evaluates the call) and `CacheDeposit`
(its answer is cached and decides) when the deposit is not cached, then
`StepSucceeds` (backend done, `build_receipt` under the lock), `Respond`. The
chain may change between any two of them. `CallFails` is every error exit
without an effect and the handler being dropped when the client hangs up.
A bad `prev_ack` aborts after the work. An ack is any wallet's signature on an
issued or invented state, as the node cannot tell them apart; signer `NoWallet`
stands for an ack of another channel or one whose signature does not decode,
which the node refuses alike. A round trip's
cost is any value of `Costs`. Channels share only the lock, so one is enough.

`TripMeter` has three steps (charge a trip, acknowledge, lose power). The
refinement maps the entry's nonce and `cum_owed` to the reading, the receipts to
the sealed readings, and the entry's client to the payer; the calls in progress
and the cached deposit have no counterpart.

### ChannelProtocol

Instantiates `NodeLedger` (its `deposited` is the contract's deposit) and
`JobChannel` (time stands still: no code of the dashboard or the node calls the
timed functions, although `main.rs:65-67` says that the dashboard falls back to
`challengeClose`). Each tab has its hook state, its view of the channel status,
one agent run and one busy panel, as `disabled={sending}` and `disabled={busy}`
allow; all share `storage` and the wallet. A transaction is sent by one action
and mined, or reverted, by another; an `open` may revert whatever the channel's
status is (the node is not active, the transfer fails, the channel exists).
`waitForTransactionReceipt` returns in both cases, and `openChannel` then
persists (`PersistOpen`) and reads the status (`Refresh`). The wait may also
throw, before or after the transaction is mined (`PanelFails`): the handler ends
there, the panel is free again, and nobody awaits the transaction any more
(`by = NoTab`).

`seen` is what the panel shows as the status: "None" until the reading of the
mount arrives (`ReadOnMount`), and afterwards what the last reading brought
(`ReadStatus`), which may be a status the channel has left by then; a reading
that fails leaves what was shown. The constant `Patient` is an assumption about
the user: when it is TRUE, nobody touches the panel during an agent run or
starts a run while the panel is busy. `one_tab` assumes it; the code does not
enforce it. A reload makes a tab forget everything but storage. Responses may be
lost and signatures refused; `MaxFailures` counts all that goes wrong.

Two pieces of history state what the two properties of `one_tab` depend on.
`reopened` is set when an `open` is sent for a channel that is there already;
until then `storage` keeps the newest ack. `held` of a close is what the wallet
had signed when it was sent; what it signs while the close is pending, which a
failed wait makes possible, a close cannot pay.

### ChannelPage

What `ChannelProtocol` leaves out: several nodes, and React. A handler of the
page closes over the values of the render it was clicked in; that is the
`view` a run and the panel carry (`Render`), and it does not follow when the
user selects another node, when a node drops out of the list (`DropsOut`,
`ComesBack`) or when another handler persists. `Select` and `Rerender` are the
effects that hydrate the state from localStorage and read the contract;
readings (`reads`) arrive late and out of order, with any status the channel has
had (`Had`), or fail. Transactions are mined in any order, or revert, an `open`
for any reason (`Effects`). The wait for a receipt may throw, whether or not the
transaction is mined (`WaitFails`): the handler ends before `persist`, and the
panel is free. A channel is named by its node, and a signed state by channel, signer
and nonce: amounts are `ChannelProtocol`'s matter.

History names the situations in which the code does lose track:

* `astray`: a handler was clicked while the hook's state in memory was not the
  one of the selected node, which `persist` of a handler of another node can
  leave behind (`useChannel.ts:108` sets the state of whatever is shown now).
* `interrupted`: channels whose `openChannel` ended between its transaction and
  `persist`, by a reload or a failed wait.
* `panel.heedless`: the `open` the panel is busy with was clicked on a stored
  ack while the panel showed another status than the channel had, or on a record
  without an ack, which the first of two opens leaves behind when it reverts.

`MCChannelPage` ends a behaviour (CONSTRAINT `Bounded`) once it is astray, from
where on all properties but `FundedIsKnown` claim nothing, once both channels
are interrupted, or once two readings that no handler awaits are under way; the
theorems cover the rest.

### Coordinator

`nodes` and `bids` hold what was signed and an age or the time left; a handler
is one step, the collector another, and `match_job` visits nodes one by one
while both run. Each loop has a timer and at most one call under way; a call is
answered, handled with its reply lost, or lost before it arrives, at any later
time, also after its process has stopped. Timers count down together in `Tick`;
a loop that is due acts first. Two history variables: `steady`, the suitable
offers that have been on the book since the match began, and `smooth`, whether
so far no time has passed while a call was under way, no loop has missed more
than `MaxMissed` calls in a row, and neither side has gone down. Prices and
capacities of different backends do not interact, so there is one backend.

### AgentSession

One session: the runs of `runAgentLoop` that use it (`loop`), their requests in
the node (`task`, `reply`), the session's lock with its waiters in order, the
messages by kind, run and step, the node's log entry (`record`) with its age
since it ended, and what the dashboard has heard of it (`seen`, any earlier
answer: polls overlap). The node's own tools are awaited between the message
that asks for them (`RunsTools`) and the one with their results (`ToolsReturn`),
and a receipt may be refused after the answer is among the messages, so that
`Answers` and `AsksClient` end with an error as well. `Dropped` is the handler
being dropped with the
connection, anywhere, which runs the guard's `drop`. The dashboard and the
command line both draw a fresh session id for each run; a second run on the same id
is another program, and the properties that need the session for themselves say
so by `Own` (history `users`). `forgot` is set when a restart takes messages.

### NodeList

The list, a poll as the set of nodes it asked with what each may answer, the
ages of last answers, and `Canvas`. Its initial predicate, next-state relation
and specification are `ListInit`, `ListNext` and `ListSpec`, so that
`ActivityProofs` can extend it together with `AgentSession`. Polls start by the timer whether or not
earlier ones have finished, and conclude in any order. `steadyFor` is how long a
node has been up, or down, and listed; the properties bound it.

### NodeStartup

Processes with an identity path each (or one for two: `scripts/dev.sh` starts
two nodes of one home directory), the files, which are torn while they are being
written, and the transactions of each address by nonce. Each look at the disk
and each RPC call is a step; a crash may come between any two of them and leaves
transactions pending; so does an `eth_sendRawTransaction` that was accepted and
whose reply is lost, which fails the task (`SendRaw`). History: `raced`, paths on
which two startups overlapped;
`cut`, paths on which a crash cut off a write; `tries`, the registrations begun for an address.

## What the runs show

| Run | Config | Properties | Result |
|---|---|---|---|
| `job_channel` | one channel, three states of which two conflict at the top nonce, two amounts | `TypeOK`, `PaidAsSigned`, `FinalizePaysNewest`, `ChallengeOnlyAdvances`, `ImplementsPromise` | no underflow, bilateral settlement, the newest state is paid if a party watches, challenges only advance, `EscrowPromise` is implemented |
| `two_channels` | two clients, one node, `FairSpec` | `EscrowBacksDeposits`, `ChallengeResolves`, `DepositReleased` | the contract's balance is the sum of the deposits; challenges end, deposits are released |
| `registry` | three accounts, zero stakes included | `ListIsActiveNodes`, `ImplementsStakeBook` | list and index agree, `StakeBook` is implemented |
| `ledger` | two request slots, two wallets, restart, deposit 0 or 1 | `ReceiptsInOrder`, `ImplementsMeter`, `OvershootBounded` | receipt order, bounded overshoot, `TripMeter` is implemented |
| `protocol` | two tabs, two slots, a restart, one failure | `CloseAlwaysVerifies`, `AckedIsBilateral`, `PaidForWorkDone` | closes verify, acks are bilateral, no pay without work |
| `one_tab` | one tab, a patient user, two reloads, two failures | `CloseAlwaysVerifies`, `StorageKeepsLastAck`, `ClosesAtNewestCosigned` | closes verify; storage keeps the last ack unless an `open` is sent for a channel that is there; a close pays the newest state signed before it was sent |
| `coordinator` | two nodes compete, calls delayed, lost or unanswered | `SilentNodesGo`, `CheapestSteadyOffer` | expiry bound, cheapest steady offer |
| `discovery` | `FairSpec`, one node, two lifetimes, an outage | `StaysListed`, `BidSurvivesMiss`, `RunningNodeListed`, `StoppedNodeForgotten` | one miss in a row costs nothing; running nodes are found again, stopped ones forgotten |
| `page` | two nodes, a receipt each, any number of prompts, clicks and reloads | `StorageIsOwn`, `UsesOwnChannel`, `FundedIsKnown`, `ErasedOnlyIfStale` | what is stored, attached and submitted is of its own channel; the only ways to lose a channel or an ack are the named ones |
| `nodelist` | two nodes, fetches as slow as the interval | `DeadNodesGo`, `RunningNodesShown` | bounds on how long the canvas may be wrong |
| `sessions` | a dashboard run and a second program, failures, one restart, fairness | `AnsweredInOrder`, `StepsDoNotMix`, `RecordTellsSteps`, `EndedIsOver`, `RunsEnd` | the history stays in order, what the log shows as running has a step under way, every run ends |
| `startup` | two processes with one file or one each, three starts | `StakesRecoverable`, `UnreadableHasCause`, `FirstTryIsClean`, `TasksEnd` | which keys survive, what a registration leaves behind |

### Bounds

* Contract time: the largest clock value lets a channel be opened, challenged
  after the reclaim timeout and finalized; windows of one or two units put every
  call before, at and after each deadline.
* Three states (one low, two at the same higher nonce) give stale, equal and
  newer challenges. Two amounts make the owed sum fall below, on and above the
  deposit.
* Registry: the swap of `_removeFromList` needs a third node to be wrong about.
* Ledger: two slots overlap in every way; `MaxWork` (5) exceeds the deposit plus
  two dearest trips, so the overshoot bound is reached.
* Protocol: two trips with two tabs, up to four with one tab; more trips only
  repeat the phases. `MaxFailures`, `MaxReloads` and `MaxRestarts` bound faults:
  with two tabs one restart and one failure, with one tab two reloads and two
  failures (a failed reading and then a failed wait, say).
* Page: two nodes are one to be shown and one to be left behind; one receipt per
  channel, and one transaction at a time: the transaction of a reloaded page
  beside a new one is left to the theorems. Prompts, selections, clicks and
  reloads are not bounded.
* Coordinator: ages and timers are relative, so time is unbounded; lifetimes and
  outages are bounded. `coordinator` uses the smallest intervals with the order
  of the code's ones. `discovery` keeps the ratios that decide its
  properties: heartbeat to timeout 1 to 3 (10 s, 30 s), refresh to validity 1 to
  3 (60 s, 180 s); both loops then run at the same pace, which the code's do
  not, and the order in which they meet is free.
* Sessions: three messages and two steps are a prompt, a tool use and its
  result, after which the provider ends its turn (`Room`). The code has no such
  bound; `RunsEnd` rests on it, and a hazard says so.
* Node list: one interval as the bound of a fetch makes polls overlap and pass
  each other; `Settled` is past every age that is compared.
* Startup: three starts are a crash and a restart beside a second process, or
  two restarts in a row.

### Fairness

* `two_channels`: time passes; `finalize` is open to anyone and is called by
  somebody who gains by it; the client calls `reclaim` when it can. The node and
  all signatures have no fairness.
* `discovery`: timers and the collector run (tokio tasks that nothing blocks),
  the loops send, and each kind of call of a node is answered again and again
  (strong fairness: the network may lose any number of calls, not all). The HTTP
  client of the node has no timeout, so that every call concludes is an
  assumption, and the matching hazard says so.
* `sessions`: the handlers and the loop are scheduled, the provider and the
  user answer, tools return, and a broken connection is noticed. The lock is
  tokio's, which is handed on in order.
* `startup`: the registration task is scheduled and its calls conclude; nothing
  is assumed of the chain, as the wait for a receipt is limited.
* The other runs are safety runs without fairness.

Deadlock checking is off where the system comes to rest: when all channels are
closed and the clock is at its bound, in the protocol when its budget of work is
spent, in `startup` when all starts are used up. In `page` the page never rests,
but behaviours end where `Bounded` cuts them.

## What is proved

Each theorem holds for every value of the constants, from the module's named
assumptions, and says nothing of bounds: where a bound is in a guard it is a
constant, too. Six theorems have a hypothesis on the constants; it is part of
the statement, and the sections below say which and why. TLC checked the
invariants that rest on such a hypothesis, and `ListInv`, on the instances of
`one_tab`, `discovery` and `nodelist` before they were proved. Every safety
invariant and action property of the runs is proved.

**JobChannel** (`ConstantsAssumption`: natural numbers; `FiniteAssumption`:
finitely many addresses and channel counters, which have a fixed width). `TypeCorrect`, then
`MoneyInv`: per channel, (1) an absent or closed channel holds nothing, (2) an
open one has no last state and no deadline, (3) a challenged one carries a state
both signed, (4) the event log adds up, and (5) a settlement paid such a state,
a reclaim none. (2) and (3) are what makes (5) inductive: without them a
`finalize` could pay a state nobody signed. `LedgerAlwaysBalanced`,
`PaidOnlyAsSigned` and `ReclaimOnlyUncontested` follow. `ClosedChannelsFinal` and
`ChallengesOnlyAdvance` go action by action. `FinalizeAlwaysNewest`, for a
window longer than zero, needs `WindowInv`: a watched challenge is inside its
window or nothing newer is signed. `ImplementsEscrowPromise`: every contract
call is one promise step on its channel, everything else a stutter; it uses
`MoneyInv` for what a release may pay. `EscrowAlwaysBacks` relates one number to
a sum over all channels. The sum (`MapThenSumSet`) is a recursive function over
subsets, and what it is for a finite set is proved by induction written as a
descent: a set of sizes, or of subsets, for which a fact fails has a least
element (`WFMin` of `WellFoundedInduction`, over `<` on Nat and over strict
inclusion), and at the least one it does not fail. `SumTableChange` then says that changing one
channel's deposit changes the sum by the difference, and each function of the
contract moves as much money as it changes that deposit (`EscrowMoves`).
`DepositsAlwaysCovered` follows: no transfer out of a channel can fail for want
of money. `DeadlinesStayInReach` is the safety half of `ChallengeResolves` and
`DepositReleased`: no call of anyone puts the end of a challenge further away than one
window, or the time to reclaim than one timeout, and the bound of the clock lets
both pass.

**NodeRegistry** (`RegistryAssumption`; `FiniteAccounts`: addresses have a fixed
width). `RegistryTypeCorrect`;
`ListAlwaysActiveNodes`, inductive by itself and proved through one lemma for
appending and one for the swap; `InactiveNeverHolds`; and from it
`LostStakesArePaidOut`: `register` can only overwrite a stake of zero.
`StakesAlwaysBacked`, and from it `StakesAlwaysCovered`, as for the contract
above: `RegistryMovesOneStake` says that a step changes the stake of one account
and moves the difference. `RegistryIsStakeBook`: `ListedAreActive` (the list
read from end to end is the set of active nodes, from `ListIsActiveNodes`)
turns the writes of `_addToList` and of the swap in `_removeFromList` into one change of
a set, and `InactiveHoldsNothing` makes the assignment of a stake in `register`
an addition.

**NodeLedger** (`LedgerAssumption`: finitely many slots, bounded costs and
deposits). `LedgerTypeCorrect`, and from one lemma on what a step does to the
entry (nothing, one receipt, or a restart) `EveryTripAlwaysCounted` and
`ReceiptsAlwaysInOrder`; the latter also needs that no receipt is of a later
lifetime, or a restart could begin one that has some. `ClientStaysFixed`.
`OvershootAlwaysBounded`: `OvershootBounded` alone is not inductive, as nothing
says that no call is left to be billed at the bound. `RoomForAdmitted` adds a
dearest round trip for each call that has read a `cum_owed` below the largest
deposit and is not yet billed; a bill moves its cost from that part of the sum
to `cum_owed`. `DepositsRead` supplies that a call on the backend is admitted.
`LedgerIsMeter` takes the lemma on the entry again and a second one, of the same
form, on the entry's client: unchanged, or learned where there was none. Each
handler is then one meter step or a stutter; that a trip is charged on top of
all earlier ones needs `build_receipt` to read the entry and not what the call
read before its awaits.

**ChannelProtocol** (`ProtocolAssumption`: natural amounts and bounds, finitely
many request slots, the markers are not values). `PartsInv` follows the two signatures:
of all the states that the tabs,
localStorage, requests in flight, the transactions and the node's entry keep,
every receipt is one the node signed and every ack one the wallet countersigned;
receipt and ack of a stored state are the same; and no signed state owes more
than the backend has worked. The last part survives a restart, which resets the
ledger but not the work. `ClosesAlwaysVerify`, `AcksAreBilateral` and
`PaidForWork` follow.

`StorageAlwaysKeeps` has the hypothesis `PatientTab`, one tab and a patient
user, and its property is about behaviours in which no `open` was sent for a
channel that was there. Neither can be left out: an `open` offered by a reading
that is missing, failed or old reverts, and `persist` then erases the ack; so
does the one of a second tab; and an impatient user can sign during an `open`.
`UnfundedInv` (nothing is signed before the channel is there), `StoredInv` and
`PendingInv` make it inductive: an `open` that was sent before the channel was
there, and whose panel still waits for it, finds nothing signed.

`ClosesNewest` has the hypothesis `Calm`, which is the instance of `one_tab`
freed of its numbers: `PatientTab`, and a node that does not restart, since a
restarted one signs low nonces again. It compares what a close pays with what
the wallet had signed when the close was sent (`held`). It cannot promise more:
a failed wait frees the panel, and what is then signed while the close is
pending is newer than what it pays. `ClosesInFull` has the same hypothesis and
says it in money: a close pays the node no less than any state in `held` owes,
or the whole deposit. It joins `NewestInv` (a close is sent with the highest
nonce signed by then) with the node's `ReceiptsInOrder`, carried over from the
ledger (`NodeOrder`): of two states of one life the one with the higher nonce
owes at least as much (`NewerOwesMore`). `NewestInv`: whatever may be signed
next (the receipt shown, the one being signed, the one in a reply that is under
way) is at least as new as all that was signed.

The composition is related to its parts. `ImplementsLedger`: what the clients
and the chain do to the node is among what `NodeLedger` allows them, so the
composition implements it step by step. `CallsTheContract`: each step is a call
of a function of `JobChannel`, one signature, or no change to either; its
history variable `lapsed` has no counterpart here, and `Spec` of `JobChannel`
with its `Watch` is therefore not what is implemented. For the first,
`OpenDeposits` says that the money on its way to the contract is an amount the
form allows. `ChannelProtocolProofs` then takes the theorems of the two parts as
they are, through instances of `NodeLedgerProofs` and `JobChannelProofs` under
the same substitutions as `Ledger` and `Contract`, of which it proves the
assumptions; the lemmas `Same...` say that the actions and properties of the two
instances agree. `NodeAccountsHold` (`ReceiptsInOrder`, `EveryTripCounted`,
`OvershootBounded`) and `MoneyAccountsHold` (`LedgerBalanced`, `PaidAsSigned`) are
the results for the composition.

`ProtocolKeepsPromise`: the composition implements `EscrowPromise`, although not
`Spec` of `JobChannel`; the step lemma of that refinement does not need `Watch`,
only `MoneyInv` before and after each call. `WalletsAlwaysAddUp`: with one
client and one node what the client's wallet lacks is what the contract holds or
the node was paid, through every revert, reload and lost response; from
`MoneyInv` and what an open and a close each move. `ProtocolIsMetered`: the
composition implements `TripMeter`, from `ImplementsLedger` and `LedgerIsMeter`.

**ChannelPage** (`PageAssumption`). `PageTypeCorrect` with where a run, the
panel, transactions and readings can be at the same time: a panel that waits has
exactly one thing to wait for. `FundedAreKnown`: an `open` that is pending and
that no panel waits for is of an interrupted channel (`OrphanIsKnown`), be it
that a reload or that a failed wait has left it.
`StorageStaysOwn`, `ChannelsAreOwn` and `AcksAreErasedOnlyIfStale` follow from
`OwnInv`: until astray, everything kept under a node is of that node, each view
that is in use shows the entry of the node that was selected, who has an
ack has a channel, and an `open` that is not heedless finds no entry to replace
when its transaction has ended, whatever was signed meanwhile.

**Coordinator** (`CoordinatorAssumption`; `AbsenceAssumption`: no entry and no
bid are not values). `CoordinatorTypeCorrect`, with the
loops: one that waits has one call out. `SilentAreForgotten` from
the sum of a node's age and the time to the next round of the collector.
`SteadyOffersCount` from: each steady offer is matched by the best one so far or
is still to be visited. `StaysListedInTime` and `BidsSurviveInTime` have a
hypothesis about the intervals, `BeatsInTime` and `BidsInTime`: the rounds of
`MaxMissed` misses and one more fit into the timeout, or the validity. The code's
values meet both with one miss (2 x 10 s in 30 s, 2 x 60 s in 180 s), and TLC
finds both properties violated as soon as the two sides are equal. `ListedInv`:
while the run is smooth, an entry's age and the time to its node's next
heartbeat are together at most one interval for each miss in a row and one more;
no call is under way that was sent in another phase of the loop. `BiddingInv`
says the same of what is left of a bid.

**AgentSession** (`SessionAssumption`; its theorems and those of the node list
are in `ActivityProofs`). `SessionTypeCorrect` with the queue: a
step is in it once, and only its head holds the lock. `LogTellsSteps`: for any
number of overlapping runs a record that says running has a step under way. The
converse is stated for a run that has the session for itself and is false
without that, as overlapping steps share one record and the first to end marks
it as ended.
`StepsKeepApart`, from the numbering of steps and the fact that who calls the
provider wrote the last message; `AlwaysInOrder`, from what the last message
must be for each phase of a run that has the session for itself; `EndsStayOver`,
from: whatever the log has ever said to be over belongs to a run that is. It
says that such a run sends nothing more from a state that shows it as ended, not
that every later state shows it so: an older answer can turn the view back.

**NodeList** (`ListAssumption`: a positive interval, `Settled` past the two
graces, the markers are not values). `DeadNodesAlwaysGo` and
`RunningNodesAlwaysShown`, both from `ListInv`, which says for each listed node
what everything that may still reach the canvas can know of it. For one that is
down (`DownKnown`): a poll that may still bring its answer, or does not know it
yet, is at least as old as the node has been down, and its entry is
at most a delay younger than that; for one that is up (`UpKnown`) the same of
polls that would miss it. A node that is alive or not by mistake is about to be
polled, or a poll is out that is old enough to correct it (`PolledBy`). Polls
that pass each other do no harm because each is bounded by its own age.

**NodeStartup** (`StartupAssumption`). `StartupTypeCorrect`;
`UnreadableAlwaysHasCause` (a torn file is raced, cut, or being written);
`MigrantsAlwaysKeepTheirKey`; `StakesAlwaysRecoverable`, from: without a race a
process that is up holds the key of its file, and a file with a key keeps it;
`DoneAlwaysActive`; `FirstTryAlwaysClean`, from the exact shape of the
transactions of an address in each phase of its only try, in which a lost reply
leaves the last of them pending and the task failed.

Proved and not also run, as they say little that the runs' properties do not:
`LedgerBalanced`, `ReclaimIsUncontested`, `ClosedIsFinal`,
`InactiveHoldsNothing`, `StakesBacked`, `ClientFixed`, `MigrantsKeepTheirKey`, `DoneIsActive`,
`EachDepositCovered`, `EachStakeCovered`, `StakeLossIsPaidOut` and
`EveryTripCounted` (the refinements of `StakeBook` and `TripMeter` contain the
last two, and `StakesBacked`),
`DeadlinesInReach`, `PaysAllCosigned`, `WalletsAddUp`, and the type invariants of all modules
but `JobChannel`. Of the composition, TLC checked `ImplementsLedger` and
`CallsTheContract` as properties on a small instance of their own.

Only model-checked: liveness, which rests on fairness and `ENABLED`, out of the
prover's reach: `ChallengeResolves`, `DepositReleased`, `RunningNodeListed`,
`StoppedNodeForgotten`, `RunsEnd`, `TasksEnd`.

## Where the code departs from its comments

The models contain these behaviours, and no property rules them out.

* The header of `useChannel.ts` (lines 5-6) promises that a reload keeps the
  most recently signed ack. `openChannel` stores an empty state when its
  transaction has ended, also when it has reverted (line 185), and so erases an
  ack in three ways, which `StorageKeepsLastAck` and `ErasedOnlyIfStale` name:
  the second of two tabs opens; one tab opens a channel that is there, because
  its status shows as "None" (`ChannelPanel.tsx:34`) until the reading of the
  mount has arrived, when a reading failed (`useChannel.ts:137-139`), or when it
  was old; or an `open` that reverted, because the node was not active or the
  transfer failed, left a record without a channel, and the second one that is
  due then ends after a run signed.
* `waitForTransactionReceipt` throws on a timeout or an RPC error, and the
  handler ends there although the transaction is pending. After a close
  (`useChannel.ts:242`) the panel is free: the user may sign a newer receipt, and
  the channel is then closed at the older one. After an open (line 182)
  `persist` is skipped: the channel is funded and the dashboard has no record of
  it, as it has none if the page is reloaded there. Opening again reverts, and
  then writes the record; once a reading shows the channel open no button does
  even that.
* The last receipt of each run is never acked: `prevAck` starts empty
  (`loop.ts:38`) and no client calls `postAck`, whose comment says that the
  dashboard does (`transport.ts:138-143`). Two runs leave two unacked trips, against
  "bounds bad-debt to a single round trip" (`Dashboard.tsx:166-168`).
* `persist` of a handler of another node sets the state of the node shown now
  (`useChannel.ts:108`); a handler clicked next works on the wrong channel,
  against `Dashboard.tsx:157-159`. The properties of `ChannelPage` carry the
  proviso `astray` for it.
* A refused signature emits an `error` event and the loop goes on
  (`loop.ts:73-78`): the session is shown as ended while it sends more steps.
* `mergeSessions` says "authoritative timing + status" (`Dashboard.tsx:387`);
  the status is not merged. An end is taken from the log and kept nowhere: when
  an older answer arrives, or the record is dropped after 30 s, a run
  that was shown as ended is shown as running again, or is gone.
* Two steps of one session share one activity record (`main.rs:108-148`): the
  first to end marks it as ended while the other runs. A tool result may follow
  the prompt of another program that uses the same session.
* "drop off the canvas in ~2.5s" (`Dashboard.tsx:58`) holds when fetches conclude
  at once: a fetch that hangs delays it by its own time, twice (`GoneWithin`).
* `migrate_legacy_identity` speaks of the default path and of being safe to call
  repeatedly; it acts on an override path as well, so that two overridden nodes
  get the same legacy key, and a crash in the copy leaves a file that every
  later start refuses.
* `scripts/dev.sh` starts two nodes over one identity file: they race for it
  on the first start, and share one address afterwards.
* `reclaim` refunds in full a channel whose node holds signed states, because
  none was submitted (`JobChannel.sol:226-227`: "if the node never engages").
* `setEscrow` replaces an escrow (`NodeRegistry.sol:48`: "Set once").
* A restarted node signs from zero again (`protocol/src/lib.rs:386`: cum_owed
  "never decreases across a channel"), and the dashboard then closes at a state
  that owes less than one it signed (`:375-376`: "the highest mutually-signed
  state goes on-chain").
* A zero deposit that was read too early is cached for ever and refuses a funded
  channel (`main.rs:778`); a closed channel is still worked on for the same
  reason (`main.rs:678-680`: "a free ride for the client").
* An ack of an older state replaces a newer one (`main.rs:76`: "Latest
  bilaterally-signed").
* A delayed bid replaces the current one (coordinator `main.rs:37-38`: "Latest
  signed bid wins").
* A session that its node forgot in a restart gets the result of a tool use that
  is gone, which the provider refuses.

Two sentences of the repository's README are loose rather than wrong: "entries
expire after 30s" is up to 35 s with the collector's period (`SilentNodesGo`
states the sum), and "a missed broadcast ages the bid out" contradicts
`main.rs:511`, which `BidSurvivesMiss` confirms; two misses in a row do age it
out, and unlist the node as well, since a third heartbeat then comes 30 s after
the last one.

## Not modelled

* Claude proxy: one stateless call per request. Its match is a reader of
  `Coordinator`; what it keeps is one field behind a lock.
* On-chain badge: read-only, one answer, cancelled when the node changes.
* Drawing (`NodeGraph`, `Timeline`, panels) and the marketing site, together
  about half of the lines of the repository: layout, animation and formatting.
  The click on a node is in `ChannelPage`.
* Local LLM server: starts a child process and translates one request format.
* Encryption, canonical encodings, hashes, signature recovery, RLP, ABI: pure
  conversions into and out of bytes. A signature is valid exactly when its
  holder made it. A difference between two encoders would be found by comparing
  them on bytes, which a model that abstracts bytes cannot do.
* ERC-20 is the plain token (no fees, no hooks). Allowances are in `ChannelPage`
  and `NodeStartup` and left out of the contracts' modules.
* Integer widths: `cum_owed` and the balances are far from 2^128, and the
  `uint64` deadlines from overflow, for every value the parties choose within a
  token's supply.
* What connects matching and billing: the match carries no price, so a node may
  bill at another one than it was matched at; no code promises otherwise.
* Memory: the session map of a node has no bound and is never emptied.

What is left in the repository after this is presentation or conversion. What
could still be added are larger compositions (`ChannelPage` with amounts,
`Coordinator` with the ledger) and an abstract discovery service refined by
`Coordinator`.

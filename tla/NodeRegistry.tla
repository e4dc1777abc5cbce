---------------------------- MODULE NodeRegistry ----------------------------
(***************************************************************************)
(* contracts/src/NodeRegistry.sol: staked registration of compute nodes.   *)
(* What a node advertises (url, ECDH key, backend bitmap, capacity and     *)
(* prices) is one value; stake, activity and the two structures that list  *)
(* the active nodes (nodeList and the 1-based _nodeListIndex) are kept in  *)
(* full.  An external function is one action; a revert is no step.         *)
(***************************************************************************)
EXTENDS Integers, Sequences, FiniteSets, FiniteSetsExt

CONSTANTS
  Accounts,      \* addresses; every one may register
  Owner,         \* the immutable owner
  NoEscrow,      \* the zero address escrow starts as
  Metas, NoMeta, \* advertised metadata; what an unknown node advertises
  Stakes,        \* amounts: stakes, minimum stakes, slashes
  InitialUsdc, InitialMinStake

ASSUME RegistryAssumption ==
  /\ Owner \in Accounts
  /\ NoEscrow \notin Accounts
  /\ NoMeta \notin Metas
  /\ Stakes \subseteq Nat
  /\ InitialUsdc \in Nat
  /\ InitialMinStake \in Nat

\* Addresses have a fixed width.
ASSUME FiniteAccounts == IsFiniteSet(Accounts)

VARIABLES
  nodes,      \* _nodes: [stake, active, meta]
  nodeList,   \* nodeList
  listIndex,  \* _nodeListIndex; 0 means absent
  minStake, escrow,
  balance,    \* USDC balances of the accounts
  staked      \* USDC balance of the registry itself

vars == <<nodes, nodeList, listIndex, minStake, escrow, balance, staked>>

Node == [stake : Nat, active : BOOLEAN, meta : Metas \cup {NoMeta}]

Init ==
  /\ nodes = [n \in Accounts |-> [stake |-> 0, active |-> FALSE, meta |-> NoMeta]]
  /\ nodeList = <<>>
  /\ listIndex = [n \in Accounts |-> 0]
  /\ minStake = InitialMinStake
  /\ escrow = NoEscrow
  /\ balance = [a \in Accounts |-> InitialUsdc]
  /\ staked = 0

\* setEscrow, onlyOwner.
SetEscrow(caller, account) ==
  /\ caller = Owner
  /\ escrow' = account
  /\ UNCHANGED <<nodes, nodeList, listIndex, minStake, balance, staked>>

\* setMinStake, onlyOwner; nodes already registered are not looked at.
SetMinStake(caller, amount) ==
  /\ caller = Owner
  /\ minStake' = amount
  /\ UNCHANGED <<nodes, nodeList, listIndex, escrow, balance, staked>>

\* The record register writes.
Registered(meta, stake) == [stake |-> stake, active |-> TRUE, meta |-> meta]

\* register by n.
Register(n, meta, stake) ==
  /\ stake >= minStake
  /\ ~nodes[n].active
  /\ balance[n] >= stake
  /\ balance' = [balance EXCEPT ![n] = @ - stake]
  /\ staked' = staked + stake
  /\ nodes' = [nodes EXCEPT ![n] = Registered(meta, stake)]
  /\ IF listIndex[n] = 0
     THEN /\ nodeList' = Append(nodeList, n)
          /\ listIndex' = [listIndex EXCEPT ![n] = Len(nodeList) + 1]
     ELSE UNCHANGED <<nodeList, listIndex>>
  /\ UNCHANGED <<minStake, escrow>>

Readvertised(node, meta) == [node EXCEPT !.meta = meta]

\* update by n.
Update(n, meta) ==
  /\ nodes[n].active
  /\ nodes' = [nodes EXCEPT ![n] = Readvertised(@, meta)]
  /\ UNCHANGED <<nodeList, listIndex, minStake, escrow, balance, staked>>

LastListed == nodeList[Len(nodeList)]

\* The two halves of _removeFromList: the list and the index without n.
ListWithout(n) ==
  SubSeq(IF listIndex[n] = Len(nodeList) THEN nodeList
         ELSE [nodeList EXCEPT ![listIndex[n]] = LastListed],
         1, Len(nodeList) - 1)
IndexWithout_NotMoved(n) == [listIndex EXCEPT ![n] = 0]
IndexWithout(n) ==
  IF listIndex[n] = Len(nodeList) THEN [listIndex EXCEPT ![n] = 0]
  ELSE [listIndex EXCEPT ![LastListed] = listIndex[n], ![n] = 0]

\* _removeFromList; a node that is not listed is left alone.
RemoveFromList(n) ==
  IF listIndex[n] = 0 THEN UNCHANGED <<nodeList, listIndex>>
  ELSE nodeList' = ListWithout(n) /\ listIndex' = IndexWithout(n)

Deactivated(node) == [node EXCEPT !.active = FALSE, !.stake = 0]

\* unregister by n.
Unregister(n) ==
  /\ nodes[n].active
  /\ nodes' = [nodes EXCEPT ![n] = Deactivated(@)]
  /\ RemoveFromList(n)
  /\ balance' = [balance EXCEPT ![n] = @ + nodes[n].stake]
  /\ staked' = staked - nodes[n].stake
  /\ UNCHANGED <<minStake, escrow>>

SlashCovered(node, amount) == amount <= node.stake

\* What slash leaves of a node.
Slashed_Drained(node, amount) ==
  [node EXCEPT !.stake = 0, !.active = (node.stake # amount)]
Slashed(node, amount) ==
  [node EXCEPT !.stake = @ - amount, !.active = (node.stake # amount)]

\* slash by the escrow or the owner.
Slash(caller, n, recipient, amount) ==
  /\ caller \in {escrow, Owner}
  /\ nodes[n].active
  /\ SlashCovered(nodes[n], amount)
  /\ nodes' = [nodes EXCEPT ![n] = Slashed(@, amount)]
  /\ IF nodes[n].stake = amount THEN RemoveFromList(n)
     ELSE UNCHANGED <<nodeList, listIndex>>
  /\ balance' = [balance EXCEPT ![recipient] = @ + amount]
  /\ staked' = staked - amount
  /\ UNCHANGED <<minStake, escrow>>

Next ==
  \/ \E caller, account \in Accounts : SetEscrow(caller, account)
  \/ \E caller \in Accounts, amount \in Stakes : SetMinStake(caller, amount)
  \/ \E n \in Accounts, meta \in Metas, stake \in Stakes : Register(n, meta, stake)
  \/ \E n \in Accounts, meta \in Metas : Update(n, meta)
  \/ \E n \in Accounts : Unregister(n)
  \/ \E caller, n, recipient \in Accounts, amount \in Stakes :
       Slash(caller, n, recipient, amount)

Spec == Init /\ [][Next]_vars

---------------------------------------------------------------------------
(* Properties.                                                             *)

\* Every field keeps its type: no stake or balance goes below zero.
TypeOK ==
  /\ nodes \in [Accounts -> Node]
  /\ nodeList \in Seq(Accounts)
  /\ listIndex \in [Accounts -> Nat]
  /\ minStake \in Nat
  /\ escrow \in Accounts \cup {NoEscrow}
  /\ balance \in [Accounts -> Nat]
  /\ staked \in Int

\* Whatever registrations, withdrawals and slashes happened in whatever
\* order, nodeList names every active node and nothing else, each once, and
\* _nodeListIndex points at its place: the swap of _removeFromList never
\* loses, doubles or misplaces a node.
ListIsActiveNodes ==
  /\ \A n \in Accounts :
       IF nodes[n].active
       THEN listIndex[n] \in 1..Len(nodeList) /\ nodeList[listIndex[n]] = n
       ELSE listIndex[n] = 0
  /\ \A i \in 1..Len(nodeList) : listIndex[nodeList[i]] = i

\* A node that is not active has no stake left in the contract: nothing is
\* stranded, and registering again overwrites no stake.
InactiveHoldsNothing ==
  \A n \in Accounts : ~nodes[n].active => nodes[n].stake = 0

\* The registry holds exactly the stakes of its nodes, so every active node
\* can always be paid back by unregister.
StakesBacked ==
  staked = MapThenSumSet(LAMBDA n : nodes[n].stake, Accounts)

\* A stake only shrinks by being handed over: the step that lowers a node's
\* stake pays exactly that amount to one account.
StakeLossIsPaidOut ==
  [][\A n \in Accounts : nodes'[n].stake < nodes[n].stake =>
       \E a \in Accounts :
         balance'[a] = balance[a] + nodes[n].stake - nodes'[n].stake]_vars

\* The registry as a book of members and stakes only.
Book == INSTANCE StakeBook WITH
  Members <- Accounts,
  listed <- {nodeList[i] : i \in 1..Len(nodeList)},
  stakes <- [n \in Accounts |-> nodes[n].stake],
  wallets <- balance,
  pot <- staked

\* Whoever registers, updates, leaves or is slashed in whatever order, nodeList
\* read from end to end is a book's set of members: a stake is put in by its
\* node only, is never overwritten, and leaves only in payments of the same
\* amount to one account, the last of which takes the node off the list.
ImplementsStakeBook == Book!BookSpec
=============================================================================

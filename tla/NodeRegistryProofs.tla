------------------------- MODULE NodeRegistryProofs -------------------------
(***************************************************************************)
(* Proofs about NodeRegistry, for every set of accounts and every amount:  *)
(* types, the list of active nodes, where stakes are and where they go.    *)
(***************************************************************************)
EXTENDS NodeRegistry, SequenceTheorems, FiniteSetTheorems,
        WellFoundedInduction, TLAPS

\* ListIsActiveNodes in the form the proof uses.
Indexed(index, list) ==
  /\ \A n \in Accounts : index[n] # 0 =>
       index[n] \in 1..Len(list) /\ list[index[n]] = n
  /\ \A i \in 1..Len(list) : index[list[i]] = i
ActiveIffIndexed == \A n \in Accounts : nodes[n].active <=> listIndex[n] # 0

RegistryInv ==
  /\ TypeOK
  /\ Indexed(listIndex, nodeList)
  /\ ActiveIffIndexed
  /\ InactiveHoldsNothing

\* register: pushing an account that is not listed.
LEMMA PushIndexed ==
  ASSUME TypeOK, Indexed(listIndex, nodeList),
         NEW n \in Accounts, listIndex[n] = 0,
         nodeList' = Append(nodeList, n),
         listIndex' = [listIndex EXCEPT ![n] = Len(nodeList) + 1]
  PROVE  /\ nodeList' \in Seq(Accounts) /\ listIndex' \in [Accounts -> Nat]
         /\ Indexed(listIndex', nodeList')
<1>1. /\ nodeList \in Seq(Accounts) /\ listIndex \in [Accounts -> Nat]
      /\ Len(nodeList) \in Nat
  BY DEF TypeOK
<1>2. /\ nodeList' \in Seq(Accounts) /\ Len(nodeList') = Len(nodeList) + 1
      /\ \A i \in 1..Len(nodeList) : nodeList'[i] = nodeList[i]
      /\ nodeList'[Len(nodeList) + 1] = n
  BY <1>1, AppendProperties
<1>3. listIndex' \in [Accounts -> Nat] /\ listIndex'[n] = Len(nodeList) + 1
  BY <1>1
<1>4. \A m \in Accounts \ {n} : listIndex'[m] = listIndex[m]
  BY <1>1
<1>5. ASSUME NEW m \in Accounts, listIndex'[m] # 0
      PROVE  listIndex'[m] \in 1..Len(nodeList') /\ nodeList'[listIndex'[m]] = m
  BY <1>1, <1>2, <1>3, <1>4, <1>5 DEF Indexed
<1>6. ASSUME NEW i \in 1..Len(nodeList')
      PROVE  listIndex'[nodeList'[i]] = i
  <2>1. CASE i = Len(nodeList) + 1
    BY <1>2, <1>3, <2>1
  <2>2. CASE i \in 1..Len(nodeList)
    <3>1. nodeList[i] \in Accounts /\ listIndex[nodeList[i]] = i /\ i # 0
      BY <1>1, <2>2 DEF Indexed
    <3> QED BY <1>2, <1>4, <2>2, <3>1
  <2> QED BY <1>1, <1>2, <2>1, <2>2
<1> QED BY <1>2, <1>3, <1>5, <1>6 DEF Indexed

\* _removeFromList: the last account takes the place of n.
LEMMA RemoveIndexed ==
  ASSUME TypeOK, Indexed(listIndex, nodeList),
         NEW n \in Accounts, listIndex[n] # 0, RemoveFromList(n)
  PROVE  /\ nodeList' \in Seq(Accounts) /\ listIndex' \in [Accounts -> Nat]
         /\ Indexed(listIndex', nodeList')
         /\ listIndex'[n] = 0
         /\ \A m \in Accounts \ {n} : listIndex'[m] = 0 <=> listIndex[m] = 0
<1> DEFINE len == Len(nodeList)
           at == listIndex[n]
           swapped == IF at = len THEN nodeList
                      ELSE [nodeList EXCEPT ![at] = LastListed]
<1>1. /\ nodeList \in Seq(Accounts) /\ listIndex \in [Accounts -> Nat]
      /\ len \in Nat /\ at \in 1..len /\ nodeList[at] = n
  BY DEF TypeOK, Indexed
<1>2. LastListed \in Accounts /\ listIndex[LastListed] = len
  BY <1>1 DEF LastListed, Indexed
<1>3. /\ swapped \in Seq(Accounts) /\ Len(swapped) = len
      /\ \A i \in 1..len - 1 :
           swapped[i] = IF i = at THEN LastListed ELSE nodeList[i]
  BY <1>1, <1>2
<1>4. /\ nodeList' \in Seq(Accounts) /\ Len(nodeList') = len - 1
      /\ \A i \in 1..len - 1 :
           nodeList'[i] = IF i = at THEN LastListed ELSE nodeList[i]
  <2>1. nodeList' = SubSeq(swapped, 1, len - 1)
    BY <1>1 DEF RemoveFromList, ListWithout
  <2> HIDE DEF swapped
  <2> QED BY <1>1, <1>3, <2>1, SubSeqProperties
<1>5. /\ listIndex' \in [Accounts -> Nat] /\ listIndex'[n] = 0
      /\ \A m \in Accounts \ {n} :
           listIndex'[m] = IF m = LastListed THEN at ELSE listIndex[m]
  <2>1. listIndex' = IndexWithout(n)
    BY <1>1 DEF RemoveFromList
  <2>2. CASE at = len
    <3>1. LastListed = n
      BY <1>1, <2>2 DEF LastListed
    <3> QED BY <1>1, <2>1, <2>2, <3>1 DEF IndexWithout
  <2>3. CASE at # len
    BY <1>1, <1>2, <2>1, <2>3 DEF IndexWithout
  <2> QED BY <2>2, <2>3
<1>6. \A m \in Accounts \ {n} : listIndex'[m] = 0 <=> listIndex[m] = 0
  BY <1>1, <1>2, <1>5
<1>7. ASSUME NEW m \in Accounts, listIndex'[m] # 0
      PROVE  listIndex'[m] \in 1..Len(nodeList') /\ nodeList'[listIndex'[m]] = m
  <2>1. m # n /\ listIndex[m] \in 1..len /\ nodeList[listIndex[m]] = m
    BY <1>5, <1>6, <1>7 DEF Indexed
  <2>2. CASE m = LastListed
    <3>1. at # len
      BY <1>1, <2>1, <2>2 DEF LastListed
    <3>2. at \in 1..len - 1 /\ listIndex'[m] = at
      BY <1>1, <1>5, <2>1, <2>2, <3>1
    <3>3. nodeList'[at] = LastListed
      BY <1>4, <3>2
    <3> QED BY <1>4, <2>2, <3>2, <3>3
  <2>3. CASE m # LastListed
    <3>1. listIndex[m] # len /\ listIndex[m] # at
      BY <1>1, <2>1, <2>3 DEF LastListed
    <3>2. listIndex[m] \in 1..len - 1 /\ listIndex'[m] = listIndex[m]
      BY <1>1, <1>5, <2>1, <2>3, <3>1
    <3>3. nodeList'[listIndex[m]] = m
      BY <1>4, <2>1, <3>1, <3>2
    <3> QED BY <1>4, <3>2, <3>3
  <2> QED BY <2>2, <2>3
<1>8. ASSUME NEW i \in 1..Len(nodeList')
      PROVE  listIndex'[nodeList'[i]] = i
  <2>1. i \in 1..len - 1 /\ i \in 1..len /\ i # len
    BY <1>1, <1>4
  <2>2. CASE i = at
    <3>1. LastListed # n
      BY <1>1, <1>2, <2>1, <2>2
    <3> QED BY <1>2, <1>4, <1>5, <2>1, <2>2, <3>1
  <2>3. CASE i # at
    <3>1. nodeList[i] \in Accounts /\ listIndex[nodeList[i]] = i
      BY <1>1, <2>1 DEF Indexed
    <3>2. nodeList[i] # n /\ nodeList[i] # LastListed
      BY <1>1, <1>2, <2>1, <2>3, <3>1
    <3> QED BY <1>4, <1>5, <2>1, <2>3, <3>1, <3>2
  <2> QED BY <2>2, <2>3
<1> QED BY <1>4, <1>5, <1>6, <1>7, <1>8 DEF Indexed

LEMMA InitRegistryInv == Init => RegistryInv
<1> SUFFICES ASSUME Init PROVE RegistryInv
  OBVIOUS
<1>1. nodeList \in Seq(Accounts) /\ Len(nodeList) = 0
  BY EmptySeq DEF Init
<1>2. TypeOK
  BY <1>1, RegistryAssumption DEF Init, TypeOK, Node
<1> QED BY <1>1, <1>2 DEF Init, RegistryInv, Indexed, ActiveIffIndexed, InactiveHoldsNothing

LEMMA RegisterKeeps ==
  ASSUME RegistryInv, NEW n \in Accounts, NEW meta \in Metas, NEW stake \in Stakes,
         Register(n, meta, stake)
  PROVE  RegistryInv'
<1>1. stake \in Nat /\ ~nodes[n].active /\ listIndex[n] = 0
  BY RegistryAssumption DEF Register, RegistryInv, ActiveIffIndexed
<1>2. /\ nodeList' \in Seq(Accounts) /\ listIndex' \in [Accounts -> Nat]
      /\ Indexed(listIndex', nodeList')
  BY <1>1, PushIndexed DEF Register, RegistryInv
<1>3. /\ nodes'[n] = Registered(meta, stake)
      /\ \A m \in Accounts \ {n} :
           nodes'[m] = nodes[m] /\ (listIndex'[m] = listIndex[m])
      /\ listIndex'[n] # 0
  BY <1>1 DEF Register, RegistryInv, TypeOK
<1>4. Registered(meta, stake) \in Node
  BY <1>1 DEF Registered, Node
<1>5. TypeOK'
  BY <1>1, <1>2, <1>4 DEF Register, RegistryInv, TypeOK
<1>6. ActiveIffIndexed' /\ InactiveHoldsNothing'
  BY <1>3 DEF RegistryInv, ActiveIffIndexed, InactiveHoldsNothing, Registered
<1> QED BY <1>2, <1>5, <1>6 DEF RegistryInv

LEMMA UpdateKeeps ==
  ASSUME RegistryInv, NEW n \in Accounts, NEW meta \in Metas, Update(n, meta)
  PROVE  RegistryInv'
<1>1. nodes[n] \in Node
  BY DEF RegistryInv, TypeOK
<1>2. /\ Readvertised(nodes[n], meta) \in Node
      /\ Readvertised(nodes[n], meta).active = nodes[n].active
      /\ Readvertised(nodes[n], meta).stake = nodes[n].stake
  BY <1>1 DEF Readvertised, Node
<1>3. /\ nodes'[n] = Readvertised(nodes[n], meta)
      /\ \A m \in Accounts \ {n} : nodes'[m] = nodes[m]
      /\ nodes' \in [Accounts -> Node]
      /\ UNCHANGED <<nodeList, listIndex, minStake, escrow, balance, staked>>
  BY <1>2 DEF Update, RegistryInv, TypeOK
<1>4. TypeOK'
  BY <1>3 DEF RegistryInv, TypeOK
<1>5. ActiveIffIndexed' /\ InactiveHoldsNothing'
  BY <1>2, <1>3 DEF RegistryInv, ActiveIffIndexed, InactiveHoldsNothing
<1> QED BY <1>3, <1>4, <1>5 DEF RegistryInv, Indexed

\* unregister, and a slash of the whole stake: n leaves the list with no stake.
LEMMA LeaveKeeps ==
  ASSUME RegistryInv, NEW n \in Accounts, nodes[n].active, RemoveFromList(n),
         NEW gone \in Node, ~gone.active, gone.stake = 0,
         nodes' = [nodes EXCEPT ![n] = gone],
         balance' \in [Accounts -> Nat], staked' \in Int,
         UNCHANGED <<minStake, escrow>>
  PROVE  RegistryInv'
<1>1. listIndex[n] # 0
  BY DEF RegistryInv, ActiveIffIndexed
<1>2. /\ nodeList' \in Seq(Accounts) /\ listIndex' \in [Accounts -> Nat]
      /\ Indexed(listIndex', nodeList') /\ listIndex'[n] = 0
      /\ \A m \in Accounts \ {n} : listIndex'[m] = 0 <=> listIndex[m] = 0
  BY <1>1, RemoveIndexed DEF RegistryInv
<1>3. /\ nodes'[n] = gone /\ nodes' \in [Accounts -> Node]
      /\ \A m \in Accounts \ {n} : nodes'[m] = nodes[m]
  BY DEF RegistryInv, TypeOK
<1>4. TypeOK'
  BY <1>2, <1>3 DEF RegistryInv, TypeOK
<1>5. ActiveIffIndexed' /\ InactiveHoldsNothing'
  BY <1>2, <1>3 DEF RegistryInv, ActiveIffIndexed, InactiveHoldsNothing
<1> QED BY <1>2, <1>4, <1>5 DEF RegistryInv

LEMMA UnregisterKeeps ==
  ASSUME RegistryInv, NEW n \in Accounts, Unregister(n)
  PROVE  RegistryInv'
<1>1. nodes[n] \in Node /\ nodes[n].stake \in Nat
  BY DEF RegistryInv, TypeOK, Node
<1>2. /\ Deactivated(nodes[n]) \in Node
      /\ ~Deactivated(nodes[n]).active /\ Deactivated(nodes[n]).stake = 0
  BY <1>1 DEF Deactivated, Node
<1>3. balance' \in [Accounts -> Nat] /\ staked' \in Int
  BY <1>1 DEF Unregister, RegistryInv, TypeOK
<1> QED BY <1>2, <1>3, LeaveKeeps DEF Unregister

LEMMA SlashKeeps ==
  ASSUME RegistryInv, NEW caller \in Accounts, NEW n \in Accounts,
         NEW recipient \in Accounts, NEW amount \in Stakes,
         Slash(caller, n, recipient, amount)
  PROVE  RegistryInv'
<1>1. /\ nodes[n] \in Node /\ nodes[n].stake \in Nat /\ amount \in Nat
      /\ nodes[n].active /\ amount <= nodes[n].stake
  BY RegistryAssumption DEF RegistryInv, TypeOK, Node, Slash, SlashCovered
<1>2. nodes[n].stake - amount \in Nat
  BY <1>1
<1>3. /\ Slashed(nodes[n], amount) \in Node
      /\ Slashed(nodes[n], amount).stake = nodes[n].stake - amount
      /\ Slashed(nodes[n], amount).active = (nodes[n].stake # amount)
  BY <1>1, <1>2 DEF Slashed, Node
<1>4. balance' \in [Accounts -> Nat] /\ staked' \in Int
  BY <1>1 DEF Slash, RegistryInv, TypeOK
<1>5. CASE nodes[n].stake = amount
  <2>1. ~Slashed(nodes[n], amount).active
    BY <1>3, <1>5, Zenon
  <2>2. Slashed(nodes[n], amount).stake = 0
    BY <1>1, <1>3, <1>5, SMT
  <2> QED BY <2>2, <1>1, <1>3, <1>4, <1>5, <2>1, LeaveKeeps DEF Slash
<1>6. CASE nodes[n].stake # amount
  <2>1. /\ nodes'[n] = Slashed(nodes[n], amount)
        /\ nodes' \in [Accounts -> Node]
        /\ \A m \in Accounts \ {n} : nodes'[m] = nodes[m]
        /\ UNCHANGED <<nodeList, listIndex, minStake, escrow>>
    BY <1>3, <1>6 DEF Slash, RegistryInv, TypeOK
  <2>2. TypeOK'
    BY <1>4, <2>1 DEF RegistryInv, TypeOK
  <2>3. Slashed(nodes[n], amount).active = TRUE
    BY <1>3, <1>6
  <2>4. ActiveIffIndexed' /\ InactiveHoldsNothing'
    BY <1>1, <2>1, <2>3 DEF RegistryInv, ActiveIffIndexed, InactiveHoldsNothing
  <2> QED BY <2>1, <2>2, <2>4 DEF RegistryInv, Indexed
<1> QED BY <1>5, <1>6

LEMMA RegistryInvStep == RegistryInv /\ [Next]_vars => RegistryInv'
<1> SUFFICES ASSUME RegistryInv, [Next]_vars PROVE RegistryInv'
  OBVIOUS
<1>1. ASSUME UNCHANGED <<nodes, nodeList, listIndex, balance, staked>>, TypeOK'
      PROVE  RegistryInv'
  BY <1>1 DEF RegistryInv, Indexed, ActiveIffIndexed, InactiveHoldsNothing
<1>2. ASSUME NEW caller \in Accounts, NEW account \in Accounts, SetEscrow(caller, account)
      PROVE  RegistryInv'
  <2>1. TypeOK'
    BY <1>2 DEF SetEscrow, RegistryInv, TypeOK
  <2> QED BY <1>1, <1>2, <2>1 DEF SetEscrow
<1>3. ASSUME NEW caller \in Accounts, NEW amount \in Stakes, SetMinStake(caller, amount)
      PROVE  RegistryInv'
  <2>1. TypeOK'
    BY <1>3, RegistryAssumption DEF SetMinStake, RegistryInv, TypeOK
  <2> QED BY <1>1, <1>3, <2>1 DEF SetMinStake
<1>4. CASE UNCHANGED vars
  <2>1. TypeOK'
    BY <1>4 DEF vars, RegistryInv, TypeOK
  <2> QED BY <1>1, <1>4, <2>1 DEF vars
<1> QED BY <1>2, <1>3, <1>4, RegisterKeeps, UpdateKeeps, UnregisterKeeps, SlashKeeps DEF Next

LEMMA RegistryInvariant == Spec => []RegistryInv
  BY InitRegistryInv, RegistryInvStep, PTL DEF Spec

\* Every reachable state is well typed: no stake or balance underflows.
THEOREM RegistryTypeCorrect == Spec => []TypeOK
<1>1. RegistryInv => TypeOK
  BY DEF RegistryInv
<1> QED BY <1>1, RegistryInvariant, PTL

\* nodeList and _nodeListIndex always describe exactly the active nodes.
THEOREM ListAlwaysActiveNodes == Spec => []ListIsActiveNodes
<1>1. RegistryInv => ListIsActiveNodes
  BY DEF RegistryInv, Indexed, ActiveIffIndexed, ListIsActiveNodes
<1> QED BY <1>1, RegistryInvariant, PTL

\* No stake is stranded in an inactive node's record.
THEOREM InactiveNeverHolds == Spec => []InactiveHoldsNothing
<1>1. RegistryInv => InactiveHoldsNothing
  BY DEF RegistryInv
<1> QED BY <1>1, RegistryInvariant, PTL

\* A step that lowers a stake pays the difference to one account (unregister
\* and slash of NodeRegistry.sol; register overwrites no stake).
THEOREM LostStakesArePaidOut == Spec => StakeLossIsPaidOut
<1>1. ASSUME RegistryInv, [Next]_vars, NEW k \in Accounts, nodes'[k].stake < nodes[k].stake
      PROVE  \E a \in Accounts : balance'[a] = balance[a] + nodes[k].stake - nodes'[k].stake
  <2>1. /\ nodes \in [Accounts -> Node] /\ balance \in [Accounts -> Nat]
        /\ nodes[k] \in Node /\ nodes[k].stake \in Nat
    BY <1>1 DEF RegistryInv, TypeOK, Node
  <2>2. ASSUME NEW n \in Accounts, NEW next \in Node, nodes' = [nodes EXCEPT ![n] = next],
               NEW a \in Accounts, NEW paid \in Nat, next.stake = nodes[n].stake - paid,
               balance' = [balance EXCEPT ![a] = balance[a] + paid]
        PROVE  balance'[a] = balance[a] + nodes[k].stake - nodes'[k].stake
    <3>1. CASE n = k
      BY <2>1, <2>2, <3>1
    <3>2. CASE n # k
      BY <1>1, <2>1, <2>2, <3>2
    <3> QED BY <3>1, <3>2
  <2>3. CASE UNCHANGED nodes
    BY <1>1, <2>1, <2>3
  <2>4. ASSUME NEW n \in Accounts, NEW meta \in Metas, NEW stake \in Stakes,
               Register(n, meta, stake)
        PROVE  FALSE
    <3>1. nodes' = [nodes EXCEPT ![n] = Registered(meta, stake)] /\ ~nodes[n].active
      BY <2>4 DEF Register
    <3>2. nodes[n].stake = 0 /\ stake \in Nat
      BY <1>1, <3>1, RegistryAssumption DEF RegistryInv, InactiveHoldsNothing
    <3> QED BY <1>1, <2>1, <3>1, <3>2 DEF Registered
  <2>5. ASSUME NEW n \in Accounts, NEW meta \in Metas, Update(n, meta)
        PROVE  FALSE
    <3>1. nodes' = [nodes EXCEPT ![n] = Readvertised(nodes[n], meta)]
      BY <2>5 DEF Update
    <3>2. Readvertised(nodes[n], meta).stake = nodes[n].stake /\ nodes[n].stake \in Nat
      BY <2>1 DEF Readvertised, Node
    <3> QED BY <1>1, <2>1, <3>1, <3>2
  <2>6. ASSUME NEW n \in Accounts, Unregister(n)
        PROVE  \E a \in Accounts : balance'[a] = balance[a] + nodes[k].stake - nodes'[k].stake
    <3>1. Deactivated(nodes[n]) \in Node /\ Deactivated(nodes[n]).stake = 0
          /\ nodes[n].stake \in Nat
      BY <2>1 DEF Deactivated, Node
    <3>2. /\ nodes' = [nodes EXCEPT ![n] = Deactivated(nodes[n])]
          /\ balance' = [balance EXCEPT ![n] = balance[n] + nodes[n].stake]
      BY <2>6 DEF Unregister
    <3>3. Deactivated(nodes[n]).stake = nodes[n].stake - nodes[n].stake
      BY <3>1
    <3> QED BY <2>2, <3>1, <3>2, <3>3
  <2>7. ASSUME NEW caller \in Accounts, NEW n \in Accounts, NEW recipient \in Accounts,
               NEW amount \in Stakes, Slash(caller, n, recipient, amount)
        PROVE  \E a \in Accounts : balance'[a] = balance[a] + nodes[k].stake - nodes'[k].stake
    <3>1. /\ nodes' = [nodes EXCEPT ![n] = Slashed(nodes[n], amount)]
          /\ balance' = [balance EXCEPT ![recipient] = balance[recipient] + amount]
          /\ amount \in Nat /\ amount <= nodes[n].stake
      BY <2>7, RegistryAssumption DEF Slash, SlashCovered
    <3>2. /\ Slashed(nodes[n], amount) \in Node
          /\ Slashed(nodes[n], amount).stake = nodes[n].stake - amount
      <4>1. nodes[n] \in Node /\ nodes[n].stake \in Nat /\ nodes[n].stake - amount \in Nat
        BY <2>1, <3>1 DEF Node
      <4> QED BY <4>1 DEF Slashed, Node
    <3> QED BY <2>2, <3>1, <3>2
  <2> QED BY <1>1, <2>3, <2>4, <2>5, <2>6, <2>7 DEF Next, vars, SetEscrow, SetMinStake
<1>2. RegistryInv /\ [Next]_vars
        => [\A n \in Accounts : nodes'[n].stake < nodes[n].stake =>
              \E a \in Accounts :
                balance'[a] = balance[a] + nodes[n].stake - nodes'[n].stake]_vars
  BY <1>1
<1> QED BY <1>2, RegistryInvariant, PTL DEF Spec, StakeLossIsPaidOut

(***************************************************************************)
(* The stakes.  StakesBacked is a sum over all accounts, written with a    *)
(* fold: a recursive table of partial sums, one per subset of accounts.    *)
(* The table exists, and changing one record changes the total by the      *)
(* difference; both by induction over the subsets.                         *)
(***************************************************************************)
Picked(s) == CHOOSE x \in s : TRUE
SumTable(f, S, g) ==
  g = [s \in SUBSET S |->
         IF s = {} THEN 0 ELSE f[Picked(s)] + g[s \ {Picked(s)}]]

\* Induction over the naturals for a set of them.
LEMMA NatSetInduction ==
  ASSUME NEW T, 0 \in T, \A n \in Nat : n \in T => n + 1 \in T
  PROVE  Nat \subseteq T
<1> SUFFICES ASSUME Nat \ T # {} PROVE FALSE
  OBVIOUS
<1>1. PICK m \in Nat \ T : \A y \in Nat \ T : <<y, m>> \notin OpToRel(<, Nat)
  <2>1. Nat \ T \subseteq Nat
    OBVIOUS
  <2> QED BY <2>1, WFMin, NatLessThanWellFounded, Zenon
<1>2. m # 0 /\ m - 1 \in Nat /\ m - 1 \notin T
  <2>1. m # 0 /\ m - 1 \in Nat
    OBVIOUS
  <2> QED BY <2>1
<1>3. <<m - 1, m>> \in OpToRel(<, Nat)
  BY <1>2 DEF OpToRel
<1> QED BY <1>1, <1>2, <1>3

\* Induction over the subsets of a finite set, in the order a sum takes them.
LEMMA SubsetInduction ==
  ASSUME NEW S, IsFiniteSet(S), NEW T, {} \in T,
         \A s \in SUBSET S : s # {} /\ s \ {Picked(s)} \in T => s \in T
  PROVE  SUBSET S \subseteq T
<1> SUFFICES ASSUME (SUBSET S) \ T # {} PROVE FALSE
  OBVIOUS
<1>1. IsWellFoundedOn(StrictSubsetOrdering(S), SUBSET S)
  BY FS_StrictSubsetOrderingWellFounded, FS_FiniteSubsetsOfFinite
<1>2. PICK s \in (SUBSET S) \ T :
        \A y \in (SUBSET S) \ T : <<y, s>> \notin StrictSubsetOrdering(S)
  <2>1. (SUBSET S) \ T \subseteq SUBSET S
    OBVIOUS
  <2> QED BY <1>1, <2>1, WFMin, Zenon
<1>3. s # {} /\ Picked(s) \in s
  BY DEF Picked
<1>4. s \ {Picked(s)} \in (SUBSET S) \ T
  BY <1>3
<1>5. <<s \ {Picked(s)}, s>> \in StrictSubsetOrdering(S)
  <2>1. s \ {Picked(s)} \subseteq s /\ s \ {Picked(s)} # s
    BY <1>3
  <2> QED BY <2>1 DEF StrictSubsetOrdering
<1> QED BY <1>2, <1>4, <1>5

\* The partial sums of a finite array exist.
LEMMA SumTableExists ==
  ASSUME NEW S, IsFiniteSet(S), NEW f \in [S -> Int]
  PROVE  \E g \in [SUBSET S -> Int] : SumTable(f, S, g)
<1> DEFINE Small(n) == {s \in SUBSET S : Cardinality(s) <= n}
           Upto(n, g) ==
             \A s \in Small(n) :
               g[s] = IF s = {} THEN 0 ELSE f[Picked(s)] + g[s \ {Picked(s)}]
           T == {n \in Nat : \E g \in [SUBSET S -> Int] : Upto(n, g)}
<1>1. \A s \in SUBSET S :
        /\ IsFiniteSet(s) /\ Cardinality(s) \in Nat
        /\ Cardinality(s) <= Cardinality(S)
        /\ s # {} => /\ Picked(s) \in s
                     /\ Cardinality(s \ {Picked(s)}) = Cardinality(s) - 1
  <2> TAKE s \in SUBSET S
  <2>1. IsFiniteSet(s) /\ Cardinality(s) <= Cardinality(S)
    BY FS_Subset
  <2>2. s # {} => Picked(s) \in s
    BY DEF Picked
  <2> QED BY <2>1, <2>2, FS_CardinalityType, FS_RemoveElement
<1>2. 0 \in T
  <2>1. [s \in SUBSET S |-> 0] \in [SUBSET S -> Int]
    OBVIOUS
  <2>2. \A s \in Small(0) : s = {}
    <3> TAKE s \in Small(0)
    <3>1. s \in SUBSET S /\ Cardinality(s) <= 0
      OBVIOUS
    <3>2. IsFiniteSet(s) /\ Cardinality(s) \in Nat
      BY <1>1, <3>1
    <3>3. Cardinality(s) = 0
      BY <3>1, <3>2
    <3> QED BY <3>2, <3>3, FS_EmptySet
  <2> QED BY <2>1, <2>2
<1>3. \A n \in Nat : n \in T => n + 1 \in T
  <2> SUFFICES ASSUME NEW n \in Nat, n \in T PROVE n + 1 \in T
    OBVIOUS
  <2>0. PICK g \in [SUBSET S -> Int] : Upto(n, g)
    OBVIOUS
  <2> DEFINE h == [s \in SUBSET S |->
                     IF s = {} THEN 0 ELSE f[Picked(s)] + g[s \ {Picked(s)}]]
  <2>1. h \in [SUBSET S -> Int]
    <3>1. ASSUME NEW s \in SUBSET S, s # {}
          PROVE  f[Picked(s)] + g[s \ {Picked(s)}] \in Int
      <4>1. Picked(s) \in S
        BY <1>1, <3>1
      <4>2. f[Picked(s)] \in Int
        BY <4>1
      <4>3. g[s \ {Picked(s)}] \in Int
        OBVIOUS
      <4> QED BY <4>2, <4>3
    <3> QED BY <3>1
  <2>2. \A s \in Small(n) : h[s] = g[s]
    BY <2>0
  <2>3. ASSUME NEW s \in Small(n + 1), s # {}
        PROVE  h[s] = f[Picked(s)] + h[s \ {Picked(s)}]
    <3>1. s \ {Picked(s)} \in Small(n)
      BY <1>1, <2>3
    <3> QED BY <2>2, <2>3, <3>1
  <2>4. h[{}] = 0
    OBVIOUS
  <2>5. Upto(n + 1, h)
    <3> HIDE DEF h
    <3> QED BY <2>3, <2>4
  <2>6. n + 1 \in Nat
    OBVIOUS
  <2> HIDE DEF h, Upto
  <2> QED BY <2>1, <2>5, <2>6
<1>4. Cardinality(S) \in T
  <2> HIDE DEF T
  <2>1. Nat \subseteq T
    BY <1>2, <1>3, NatSetInduction
  <2> QED BY <2>1, FS_CardinalityType
<1>5. PICK g \in [SUBSET S -> Int] : Upto(Cardinality(S), g)
  BY <1>4
<1>6. SumTable(f, S, g)
  BY <1>1, <1>5 DEF SumTable
<1> QED BY <1>6

\* Changing one entry of an array changes a sum by the difference.
LEMMA SumTableChange ==
  ASSUME NEW S, IsFiniteSet(S), NEW id \in S,
         NEW f \in [S -> Int], NEW f2 \in [S -> Int],
         \A x \in S \ {id} : f2[x] = f[x],
         NEW g, SumTable(f, S, g), NEW g2, SumTable(f2, S, g2)
  PROVE  g[S] \in Int /\ g2[S] = g[S] + f2[id] - f[id]
<1> DEFINE T == {s \in SUBSET S :
                   /\ g[s] \in Int
                   /\ g2[s] = g[s] + IF id \in s THEN f2[id] - f[id] ELSE 0}
<1>1. {} \in T
  BY DEF SumTable
<1>2. \A s \in SUBSET S : s # {} /\ s \ {Picked(s)} \in T => s \in T
  <2> SUFFICES ASSUME NEW s \in SUBSET S, s # {}, s \ {Picked(s)} \in T
               PROVE  s \in T
    OBVIOUS
  <2>1. Picked(s) \in s /\ Picked(s) \in S
    BY DEF Picked
  <2>2. g[s] = f[Picked(s)] + g[s \ {Picked(s)}]
        /\ g2[s] = f2[Picked(s)] + g2[s \ {Picked(s)}]
    BY DEF SumTable
  <2>3. CASE Picked(s) = id
    BY <2>1, <2>2, <2>3
  <2>4. CASE Picked(s) # id
    BY <2>1, <2>2, <2>4
  <2> QED BY <2>3, <2>4
<1>3. S \in T
  <2> HIDE DEF T
  <2> QED BY <1>1, <1>2, SubsetInduction
<1> QED BY <1>3

\* The sum of StakesBacked, for node records c.
StakeTotal(c, S) == MapThenSumSet(LAMBDA x : c[x].stake, S)

LEMMA StakedIsTotal ==
  /\ StakesBacked <=> staked = StakeTotal(nodes, Accounts)
  /\ StakesBacked' <=> staked' = StakeTotal(nodes', Accounts)
  BY DEF StakesBacked, StakeTotal, MapThenSumSet, MapThenFoldSet

\* The sum a model writes down is an entry of the table of partial sums.
LEMMA SumIsTabled ==
  ASSUME NEW S, IsFiniteSet(S), NEW c, NEW f \in [S -> Int],
         \A x \in S : f[x] = c[x].stake
  PROVE  \E g : SumTable(f, S, g)
                /\ StakeTotal(c, S) = g[S]
<1> DEFINE Tabled(g) == g = [s \in SUBSET S |->
             IF s = {} THEN 0
             ELSE c[Picked(s)].stake + g[s \ {Picked(s)}]]
<1>1. \A s \in SUBSET S : s # {} => Picked(s) \in S
  BY DEF Picked
<1>2. \A g : Tabled(g) <=> SumTable(f, S, g)
  BY <1>1 DEF SumTable
<1>3. \E g : Tabled(g)
  <2> HIDE DEF Tabled
  <2> QED BY <1>2, SumTableExists
<1>4. \E g : Tabled(g)
             /\ StakeTotal(c, S) = g[S]
  BY <1>3 DEF StakeTotal, MapThenSumSet, MapThenFoldSet, Picked
<1> QED BY <1>2, <1>4

\* No entry of a sum of natural numbers exceeds the total.
LEMMA SumCoversEach ==
  ASSUME NEW S, IsFiniteSet(S), NEW f \in [S -> Nat],
         NEW g, SumTable(f, S, g)
  PROVE  \A x \in S : f[x] <= g[S]
<1> DEFINE T == {s \in SUBSET S : g[s] \in Nat /\ \A x \in s : f[x] <= g[s]}
<1>1. {} \in T
  BY DEF SumTable
<1>2. \A s \in SUBSET S : s # {} /\ s \ {Picked(s)} \in T => s \in T
  <2> SUFFICES ASSUME NEW s \in SUBSET S, s # {}, s \ {Picked(s)} \in T
               PROVE  s \in T
    OBVIOUS
  <2>1. Picked(s) \in s /\ f[Picked(s)] \in Nat
    BY DEF Picked
  <2>2. g[s] = f[Picked(s)] + g[s \ {Picked(s)}]
    BY DEF SumTable
  <2>3. g[s] \in Nat
    BY <2>1, <2>2
  <2>4. ASSUME NEW x \in s PROVE f[x] <= g[s]
    <3>1. g[s \ {Picked(s)}] \in Nat
      OBVIOUS
    <3>2. CASE x = Picked(s)
      BY <2>1, <2>2, <3>1, <3>2
    <3>3. CASE x # Picked(s)
      <4>1. x \in s \ {Picked(s)} /\ f[x] \in Nat
        BY <3>3
      <4>2. f[x] <= g[s \ {Picked(s)}]
        BY <4>1
      <4> QED BY <2>1, <2>2, <3>1, <4>1, <4>2
    <3> QED BY <3>2, <3>3
  <2> QED BY <2>3, <2>4
<1>3. S \in T
  <2> HIDE DEF T
  <2> QED BY <1>1, <1>2, SubsetInduction
<1> QED BY <1>3


\* What every function of the registry does to the money: it changes at most
\* one stake, and moves as much into or out of the registry.
MovesOneStake ==
  \E n \in Accounts :
    /\ \A x \in Accounts \ {n} : nodes'[x] = nodes[x]
    /\ staked' = staked + nodes'[n].stake - nodes[n].stake

LEMMA StakesMove ==
  ASSUME TypeOK, TypeOK', StakesBacked, MovesOneStake
  PROVE  StakesBacked'
<1>0. PICK n \in Accounts :
        /\ \A x \in Accounts \ {n} : nodes'[x] = nodes[x]
        /\ staked' = staked + nodes'[n].stake - nodes[n].stake
  BY DEF MovesOneStake
<1> DEFINE f == [a \in Accounts |-> nodes[a].stake]
           f2 == [a \in Accounts |-> nodes'[a].stake]
<1>1. f \in [Accounts -> Int] /\ f2 \in [Accounts -> Int]
  <2>1. \A x \in Accounts : nodes[x] \in Node /\ nodes'[x] \in Node
    BY DEF TypeOK
  <2>2. \A x \in Accounts : nodes[x].stake \in Int /\ nodes'[x].stake \in Int
    BY <2>1 DEF Node
  <2> QED BY <2>2
<1>2. \A x \in Accounts : f[x] = nodes[x].stake /\ f2[x] = nodes'[x].stake
  OBVIOUS
<1> HIDE DEF f, f2
<1>3. PICK g : SumTable(f, Accounts, g) /\ StakeTotal(nodes, Accounts) = g[Accounts]
  BY <1>1, <1>2, SumIsTabled, FiniteAccounts
<1>4. PICK g2 : SumTable(f2, Accounts, g2) /\ StakeTotal(nodes', Accounts) = g2[Accounts]
  BY <1>1, <1>2, SumIsTabled, FiniteAccounts
<1>5. \A x \in Accounts \ {n} : f2[x] = f[x]
  BY <1>0, <1>2
<1>6. g2[Accounts] = g[Accounts] + f2[n] - f[n]
  BY <1>1, <1>3, <1>4, <1>5, SumTableChange, FiniteAccounts
<1> QED BY <1>0, <1>2, <1>3, <1>4, <1>6, StakedIsTotal

LEMMA InitStakes == Init => StakesBacked
<1> SUFFICES ASSUME Init PROVE StakesBacked
  OBVIOUS
<1> DEFINE f == [a \in Accounts |-> 0]
<1>1. f \in [Accounts -> Int] /\ \A x \in Accounts : f[x] = nodes[x].stake
  BY DEF Init
<1>2. \A x \in Accounts : f[x] = 0
  OBVIOUS
<1> HIDE DEF f
<1>3. PICK g : SumTable(f, Accounts, g) /\ StakeTotal(nodes, Accounts) = g[Accounts]
  BY <1>1, SumIsTabled, FiniteAccounts
<1> DEFINE T == {s \in SUBSET Accounts : g[s] = 0}
<1>4. {} \in T
  BY <1>3 DEF SumTable
<1>5. \A s \in SUBSET Accounts : s # {} /\ s \ {Picked(s)} \in T => s \in T
  <2> SUFFICES ASSUME NEW s \in SUBSET Accounts, s # {}, s \ {Picked(s)} \in T
               PROVE  s \in T
    OBVIOUS
  <2>1. f[Picked(s)] = 0
    BY <1>2 DEF Picked
  <2>2. g[s] = f[Picked(s)] + g[s \ {Picked(s)}]
    BY <1>3 DEF SumTable
  <2> QED BY <2>1, <2>2
<1>6. Accounts \in T
  <2> HIDE DEF T
  <2> QED BY <1>4, <1>5, SubsetInduction, FiniteAccounts
<1> QED BY <1>3, <1>6, StakedIsTotal DEF Init

\* Register overwrites no stake: a node that may register holds none.
LEMMA RegistryMovesOneStake ==
  ASSUME RegistryInv, Next
  PROVE  MovesOneStake \/ UNCHANGED <<nodes, staked>>
<1>0. /\ nodes \in [Accounts -> Node] /\ staked \in Int
      /\ \A n \in Accounts : nodes[n] \in Node /\ nodes[n].stake \in Nat
      /\ \A n \in Accounts : ~nodes[n].active => nodes[n].stake = 0
  BY DEF RegistryInv, TypeOK, Node, InactiveHoldsNothing
<1>1. ASSUME NEW n \in Accounts, NEW next \in Node,
             nodes' = [nodes EXCEPT ![n] = next],
             staked' = staked + next.stake - nodes[n].stake
      PROVE  MovesOneStake
  BY <1>0, <1>1 DEF MovesOneStake
<1>2. ASSUME NEW n \in Accounts, NEW meta \in Metas, NEW stake \in Stakes,
             Register(n, meta, stake)
      PROVE  MovesOneStake
  <2>1. stake \in Nat /\ nodes[n].stake = 0 /\ staked' = staked + stake
        /\ nodes' = [nodes EXCEPT ![n] = Registered(meta, stake)]
    BY <1>0, <1>2, RegistryAssumption DEF Register
  <2>2. Registered(meta, stake) \in Node /\ Registered(meta, stake).stake = stake
    BY <2>1 DEF Registered, Node
  <2>3. staked' = staked + Registered(meta, stake).stake - nodes[n].stake
    BY <1>0, <2>1, <2>2
  <2> QED BY <1>1, <2>1, <2>2, <2>3
<1>3. ASSUME NEW n \in Accounts, NEW meta \in Metas, Update(n, meta)
      PROVE  MovesOneStake
  <2>1. nodes' = [nodes EXCEPT ![n] = Readvertised(nodes[n], meta)] /\ staked' = staked
    BY <1>3 DEF Update
  <2>2. /\ Readvertised(nodes[n], meta) \in Node
        /\ Readvertised(nodes[n], meta).stake = nodes[n].stake
    BY <1>0 DEF Readvertised, Node
  <2>3. staked' = staked + Readvertised(nodes[n], meta).stake - nodes[n].stake
    BY <1>0, <2>1, <2>2
  <2> QED BY <1>1, <2>1, <2>2, <2>3
<1>4. ASSUME NEW n \in Accounts, Unregister(n)
      PROVE  MovesOneStake
  <2>1. /\ nodes' = [nodes EXCEPT ![n] = Deactivated(nodes[n])]
        /\ staked' = staked - nodes[n].stake
    BY <1>4 DEF Unregister
  <2>2. Deactivated(nodes[n]) \in Node /\ Deactivated(nodes[n]).stake = 0
    BY <1>0 DEF Deactivated, Node
  <2>3. staked' = staked + Deactivated(nodes[n]).stake - nodes[n].stake
    BY <1>0, <2>1, <2>2
  <2> QED BY <1>1, <2>1, <2>2, <2>3
<1>5. ASSUME NEW caller \in Accounts, NEW n \in Accounts,
             NEW recipient \in Accounts, NEW amount \in Stakes,
             Slash(caller, n, recipient, amount)
      PROVE  MovesOneStake
  <2>1. /\ nodes' = [nodes EXCEPT ![n] = Slashed(nodes[n], amount)]
        /\ staked' = staked - amount /\ amount \in Nat
        /\ nodes[n].stake - amount \in Nat
    BY <1>0, <1>5, RegistryAssumption DEF Slash, SlashCovered
  <2>2. /\ Slashed(nodes[n], amount) \in Node
        /\ Slashed(nodes[n], amount).stake = nodes[n].stake - amount
    BY <1>0, <2>1 DEF Slashed, Node
  <2>3. staked' = staked + Slashed(nodes[n], amount).stake - nodes[n].stake
    BY <1>0, <2>1, <2>2
  <2> QED BY <1>1, <2>1, <2>2, <2>3
<1> QED BY <1>2, <1>3, <1>4, <1>5 DEF Next, SetEscrow, SetMinStake

\* The registry holds the sum of the stakes its records show, whatever
\* register, unregister and slash calls were made.
THEOREM StakesAlwaysBacked == Spec => []StakesBacked
<1>1. ASSUME RegistryInv, RegistryInv', StakesBacked, [Next]_vars
      PROVE  StakesBacked'
  <2>1. CASE UNCHANGED <<nodes, staked>>
    BY <1>1, <2>1, StakedIsTotal
  <2> QED BY <1>1, <2>1, RegistryMovesOneStake, StakesMove DEF RegistryInv, vars
<1> QED BY <1>1, InitStakes, RegistryInvariant, PTL DEF Spec

EachStakeCovered == \A n \in Accounts : nodes[n].stake <= staked

\* Each node can be paid back in full: the transfer of unregister, or of a
\* slash, never asks for more than the registry has.
THEOREM StakesAlwaysCovered == Spec => []EachStakeCovered
<1>1. TypeOK /\ StakesBacked => EachStakeCovered
  <2> SUFFICES ASSUME TypeOK, StakesBacked PROVE EachStakeCovered
    OBVIOUS
  <2> DEFINE f == [a \in Accounts |-> nodes[a].stake]
  <2>1. /\ f \in [Accounts -> Nat] /\ f \in [Accounts -> Int]
        /\ \A x \in Accounts : f[x] = nodes[x].stake
    BY DEF TypeOK, Node
  <2> HIDE DEF f
  <2>2. PICK g : SumTable(f, Accounts, g) /\ StakeTotal(nodes, Accounts) = g[Accounts]
    BY <2>1, SumIsTabled, FiniteAccounts
  <2>3. \A x \in Accounts : f[x] <= g[Accounts]
    BY <2>1, <2>2, SumCoversEach, FiniteAccounts
  <2> QED BY <2>1, <2>2, <2>3, StakedIsTotal DEF EachStakeCovered
<1> QED BY <1>1, RegistryTypeCorrect, StakesAlwaysBacked, PTL

---------------------------------------------------------------------------
(***************************************************************************)
(* The registry is StakeBook.  Read from end to end, nodeList gives the    *)
(* active nodes, so what a function does to the book is what it does to    *)
(* one record.                                                             *)
(***************************************************************************)
OnList == {nodeList[i] : i \in 1..Len(nodeList)}
ActiveNodes == {n \in Accounts : nodes[n].active}

LEMMA ListedAreActive == RegistryInv => OnList = ActiveNodes
<1> SUFFICES ASSUME RegistryInv PROVE OnList = ActiveNodes
  OBVIOUS
<1>1. \A i \in 1..Len(nodeList) : nodeList[i] \in Accounts /\ i # 0
  BY DEF RegistryInv, TypeOK
<1>2. ASSUME NEW n \in OnList PROVE n \in ActiveNodes
  <2>1. PICK i \in 1..Len(nodeList) : n = nodeList[i]
    BY <1>2 DEF OnList
  <2>2. n \in Accounts /\ listIndex[n] # 0
    BY <1>1, <2>1 DEF RegistryInv, Indexed
  <2> QED BY <2>2 DEF RegistryInv, ActiveIffIndexed, ActiveNodes
<1>3. ASSUME NEW n \in ActiveNodes PROVE n \in OnList
  <2>1. n \in Accounts /\ listIndex[n] # 0
    BY <1>3 DEF RegistryInv, ActiveIffIndexed, ActiveNodes
  <2>2. listIndex[n] \in 1..Len(nodeList) /\ nodeList[listIndex[n]] = n
    BY <2>1 DEF RegistryInv, Indexed
  <2> QED BY <2>2 DEF OnList
<1> QED BY <1>2, <1>3

LEMMA ListedThenActive == RegistryInv' => OnList' = ActiveNodes'
<1>1. RegistryInv' => (OnList = ActiveNodes)'
  BY ListedAreActive, PTL
<1> QED BY <1>1

\* A change of one record is a change of one stake.
LEMMA OneStakeChanges ==
  ASSUME nodes \in [Accounts -> Node], NEW n \in Accounts, NEW next \in Node,
         nodes' = [nodes EXCEPT ![n] = next]
  PROVE  /\ [m \in Accounts |-> nodes[m].stake]'
              = [[m \in Accounts |-> nodes[m].stake] EXCEPT ![n] = next.stake]
         /\ ActiveNodes' = IF next.active THEN ActiveNodes \cup {n} ELSE ActiveNodes \ {n}
<1>1. nodes'[n] = next /\ \A m \in Accounts \ {n} : nodes'[m] = nodes[m]
  OBVIOUS
<1>2. [m \in Accounts |-> nodes[m].stake]'
        = [[m \in Accounts |-> nodes[m].stake] EXCEPT ![n] = next.stake]
  BY <1>1
<1>3. CASE next.active
  BY <1>1, <1>3 DEF ActiveNodes
<1>4. CASE ~next.active
  BY <1>1, <1>4 DEF ActiveNodes
<1> QED BY <1>2, <1>3, <1>4

LEMMA RegisterJoins ==
  ASSUME RegistryInv, RegistryInv', NEW n \in Accounts, NEW meta \in Metas,
         NEW stake \in Stakes, Register(n, meta, stake)
  PROVE  Book!Join(n)
<1>1. /\ stake \in Nat /\ ~nodes[n].active
      /\ balance[n] \in Nat /\ stake <= balance[n]
      /\ nodes' = [nodes EXCEPT ![n] = Registered(meta, stake)]
      /\ balance' = [balance EXCEPT ![n] = balance[n] - stake]
      /\ staked' = staked + stake
  BY RegistryAssumption DEF Register, RegistryInv, TypeOK
<1>2. /\ Registered(meta, stake) \in Node /\ Registered(meta, stake).active
      /\ Registered(meta, stake).stake = stake
  BY <1>1 DEF Registered, Node
<1>3. nodes \in [Accounts -> Node] /\ nodes[n].stake = 0
  BY <1>1 DEF RegistryInv, TypeOK, InactiveHoldsNothing
<1>4. /\ [m \in Accounts |-> nodes[m].stake]'
           = [[m \in Accounts |-> nodes[m].stake] EXCEPT ![n] = stake]
      /\ ActiveNodes' = ActiveNodes \cup {n}
  BY <1>1, <1>2, <1>3, OneStakeChanges
<1>5. [m \in Accounts |-> nodes[m].stake][n] + stake = stake
  BY <1>1, <1>3
<1>6. OnList = ActiveNodes /\ OnList' = ActiveNodes' /\ n \notin ActiveNodes
  BY <1>1, ListedAreActive, ListedThenActive DEF ActiveNodes
<1>7. n \notin OnList /\ OnList' = OnList \cup {n}
  BY <1>4, <1>6
<1>8. stake \in 0..balance[n]
  BY <1>1
<1> QED BY <1>1, <1>4, <1>5, <1>7, <1>8 DEF Book!Join, OnList

\* A payment out of the stake of n; n goes exactly when nothing is left.
LEMMA LeavesOrPays ==
  ASSUME RegistryInv, RegistryInv', NEW n \in Accounts, nodes[n].active, NEW a \in Accounts,
         NEW amount \in Nat, amount <= nodes[n].stake, NEW next \in Node,
         next.stake = nodes[n].stake - amount,
         next.active <=> amount # nodes[n].stake,
         nodes' = [nodes EXCEPT ![n] = next],
         balance' = [balance EXCEPT ![a] = balance[a] + amount],
         staked' = staked - amount
  PROVE  Book!PayOut(n, a)
<1>1. nodes \in [Accounts -> Node] /\ nodes[n].stake \in Nat
  BY DEF RegistryInv, TypeOK, Node
<1>2. /\ [m \in Accounts |-> nodes[m].stake]'
           = [[m \in Accounts |-> nodes[m].stake] EXCEPT ![n] = nodes[n].stake - amount]
      /\ ActiveNodes' = IF next.active THEN ActiveNodes \cup {n} ELSE ActiveNodes \ {n}
  BY <1>1, OneStakeChanges
<1>3. OnList = ActiveNodes /\ OnList' = ActiveNodes' /\ n \in ActiveNodes
  BY ListedAreActive, ListedThenActive DEF ActiveNodes
<1>4. /\ n \in OnList
      /\ OnList' = IF amount = nodes[n].stake THEN OnList \ {n} ELSE OnList
  BY <1>2, <1>3
<1>5. amount \in 0..nodes[n].stake /\ [m \in Accounts |-> nodes[m].stake][n] = nodes[n].stake
  BY <1>1
<1> QED BY <1>2, <1>4, <1>5 DEF Book!PayOut, OnList

LEMMA BookStep ==
  ASSUME RegistryInv, RegistryInv', Next
  PROVE  Book!BookNext \/ UNCHANGED Book!bookVars
<1>0. \A n \in Accounts : nodes[n] \in Node /\ nodes[n].stake \in Nat
  BY DEF RegistryInv, TypeOK, Node
<1>1. CASE \/ \E caller, account \in Accounts : SetEscrow(caller, account)
           \/ \E caller \in Accounts, amount \in Stakes : SetMinStake(caller, amount)
  BY <1>1 DEF SetEscrow, SetMinStake, Book!bookVars
<1>2. ASSUME NEW n \in Accounts, NEW meta \in Metas, NEW stake \in Stakes,
             Register(n, meta, stake)
      PROVE  Book!BookNext
  BY <1>2, RegisterJoins DEF Book!BookNext
<1>3. ASSUME NEW n \in Accounts, NEW meta \in Metas, Update(n, meta)
      PROVE  UNCHANGED Book!bookVars
  <2>1. /\ nodes' = [nodes EXCEPT ![n] = Readvertised(nodes[n], meta)]
        /\ UNCHANGED <<nodeList, balance, staked>>
    BY <1>3 DEF Update
  <2>2. Readvertised(nodes[n], meta) \in Node
        /\ Readvertised(nodes[n], meta).stake = nodes[n].stake
    BY <1>0 DEF Readvertised, Node
  <2>3. \A m \in Accounts : nodes'[m].stake = nodes[m].stake
    BY <2>1, <2>2 DEF RegistryInv, TypeOK
  <2> QED BY <2>1, <2>3 DEF Book!bookVars
<1>4. ASSUME NEW n \in Accounts, Unregister(n)
      PROVE  Book!BookNext
  <2>1. /\ nodes[n].active /\ nodes' = [nodes EXCEPT ![n] = Deactivated(nodes[n])]
        /\ balance' = [balance EXCEPT ![n] = balance[n] + nodes[n].stake]
        /\ staked' = staked - nodes[n].stake
    BY <1>4 DEF Unregister
  <2>2. /\ Deactivated(nodes[n]) \in Node /\ ~Deactivated(nodes[n]).active
        /\ Deactivated(nodes[n]).stake = 0
    BY <1>0 DEF Deactivated, Node
  <2>3. /\ nodes[n].stake - nodes[n].stake = 0 /\ nodes[n].stake <= nodes[n].stake
        /\ nodes[n].stake \in Nat
    BY <1>0
  <2>4. Book!PayOut(n, n)
    BY <2>1, <2>2, <2>3, LeavesOrPays
  <2> QED BY <2>4 DEF Book!BookNext
<1>5. ASSUME NEW caller \in Accounts, NEW n \in Accounts, NEW recipient \in Accounts,
             NEW amount \in Stakes, Slash(caller, n, recipient, amount)
      PROVE  Book!BookNext
  <2>1. /\ nodes[n].active /\ amount \in Nat /\ amount <= nodes[n].stake
        /\ nodes' = [nodes EXCEPT ![n] = Slashed(nodes[n], amount)]
        /\ balance' = [balance EXCEPT ![recipient] = balance[recipient] + amount]
        /\ staked' = staked - amount
    BY <1>5, RegistryAssumption DEF Slash, SlashCovered
  <2>2. nodes[n].stake - amount \in Nat
    BY <1>0, <2>1
  <2>3. /\ Slashed(nodes[n], amount) \in Node
        /\ Slashed(nodes[n], amount).stake = nodes[n].stake - amount
        /\ Slashed(nodes[n], amount).active = (nodes[n].stake # amount)
    BY <1>0, <2>2 DEF Slashed, Node
  <2>4. Slashed(nodes[n], amount).active <=> amount # nodes[n].stake
    BY <2>3
  <2>5. Book!PayOut(n, recipient)
    BY <2>1, <2>3, <2>4, LeavesOrPays
  <2> QED BY <2>5 DEF Book!BookNext
<1> QED BY <1>1, <1>2, <1>3, <1>4, <1>5 DEF Next

\* The registry keeps the promise of StakeBook for any accounts and amounts:
\* register, unregister and slash are a joining and payments of the abstract
\* book, and the setters, update and the swap of the list change nothing in it.
THEOREM RegistryIsStakeBook == Spec => ImplementsStakeBook
<1>1. Init => Book!BookInit
  <2> SUFFICES ASSUME Init PROVE Book!BookInit
    OBVIOUS
  <2>1. Len(nodeList) = 0
    BY DEF Init
  <2>2. {nodeList[i] : i \in 1..Len(nodeList)} = {}
    BY <2>1
  <2>3. [n \in Accounts |-> nodes[n].stake] = [n \in Accounts |-> 0]
    BY DEF Init
  <2>4. balance \in [Accounts -> Nat] /\ staked = 0
    BY RegistryAssumption DEF Init
  <2> QED BY <2>2, <2>3, <2>4 DEF Book!BookInit
<1>2. RegistryInv /\ RegistryInv' /\ [Next]_vars => [Book!BookNext]_(Book!bookVars)
  <2>1. UNCHANGED vars => UNCHANGED Book!bookVars
    BY DEF vars, Book!bookVars
  <2> QED BY <2>1, BookStep
<1> QED BY <1>1, <1>2, RegistryInvariant, PTL DEF Spec, ImplementsStakeBook, Book!BookSpec
=============================================================================

-------------------------- MODULE JobChannelProofs --------------------------
(***************************************************************************)
(* Proofs about JobChannel, for every set of clients, nodes and signed     *)
(* states and every window, timeout and clock bound.                       *)
(***************************************************************************)
EXTENDS JobChannel, FiniteSetTheorems, WellFoundedInduction, TLAPS

(***************************************************************************)
(* Type correctness.                                                       *)
(***************************************************************************)
LEMMA InitType == Init => TypeOK
  BY ConstantsAssumption DEF Init, TypeOK, NoChannel, NoOutcome, Channel,
     Outcome, Statuses, Closers

\* The node's share is a natural number no larger than the deposit.
LEMMA ShareBounded ==
  ASSUME NEW c \in Channel
  PROVE  /\ PaidToNode(c) \in Nat
         /\ PaidToNode(c) <= c.deposit
         /\ c.deposit - PaidToNode(c) \in Nat
  BY DEF PaidToNode, Channel

LEMMA ClientIsAccount ==
  ASSUME NEW id \in ChannelIds
  PROVE  ClientOf(id) \in Accounts /\ NodeOf(id) \in Accounts
  BY DEF ChannelIds, ClientOf, NodeOf, Accounts

\* Paying somebody keeps the balances well typed.
LEMMA CreditType ==
  ASSUME NEW balances \in [Accounts -> Nat], NEW a \in Accounts,
         NEW amount \in Nat
  PROVE  Credit(balances, a, amount) \in [Accounts -> Nat]
  BY DEF Credit

LEMMA WithUpdateType ==
  ASSUME NEW c \in Channel, NEW u \in Updates
  PROVE  WithUpdate(c, u) \in Channel
  BY ConstantsAssumption DEF WithUpdate, Channel

LEMMA OpenedType ==
  ASSUME NEW c \in Channel, NEW amount \in Nat, NEW at \in Nat
  PROVE  Opened(c, amount, at) \in Channel /\ ToppedUp(c, amount) \in Channel
<1>1. c.deposit + amount \in Nat
  BY DEF Channel
<1>2. Opened(c, amount, at) \in Channel
  BY DEF Opened, Channel, Statuses
<1>3. ToppedUp(c, amount) \in Channel
  BY <1>1 DEF ToppedUp, Channel
<1> QED BY <1>2, <1>3

LEMMA ContestedType ==
  ASSUME NEW c \in Channel, NEW deadline \in Nat
  PROVE  Contested(c, deadline) \in Channel
  BY DEF Contested, Channel, Statuses

LEMMA EndedType ==
  ASSUME NEW c \in Channel
  PROVE  Ended(c) \in Channel
  BY DEF Ended, Channel, Statuses

\* A settlement of any well-typed channel keeps the types.
LEMMA SettleType ==
  ASSUME TypeOK, NEW id \in ChannelIds, NEW c \in Channel, NEW tx \in Closers,
         Settle(id, c, tx)
  PROVE  /\ channels' \in [ChannelIds -> Channel]
         /\ usdc' \in [Accounts -> Nat]
         /\ escrowed' \in Int
         /\ outcome' \in [ChannelIds -> Outcome]
<1> DEFINE paid == PaidToNode(c)
           refund == c.deposit - paid
<1>1. paid \in Nat /\ refund \in Nat
  BY ShareBounded
<1>2. channels' \in [ChannelIds -> Channel]
  BY EndedType DEF Settle, TypeOK
<1>3. usdc' \in [Accounts -> Nat]
  <2>1. Credit(usdc, NodeOf(id), paid) \in [Accounts -> Nat]
    BY <1>1, ClientIsAccount, CreditType DEF TypeOK
  <2>2. Credit(Credit(usdc, NodeOf(id), paid), ClientOf(id), refund)
          \in [Accounts -> Nat]
    BY <1>1, <2>1, ClientIsAccount, CreditType
  <2> QED BY <2>2 DEF Settle
<1>4. escrowed' \in Int
  BY <1>1 DEF Settle, TypeOK
<1>5. outcome' \in [ChannelIds -> Outcome]
  BY <1>1 DEF Settle, TypeOK, Outcome
<1> QED BY <1>2, <1>3, <1>4, <1>5

LEMMA PullInType ==
  ASSUME TypeOK, NEW payer \in Accounts, NEW id \in ChannelIds,
         NEW amount \in Amounts, PullIn(payer, id, amount)
  PROVE  /\ usdc' \in [Accounts -> Nat]
         /\ escrowed' \in Int
         /\ funded' \in [ChannelIds -> Nat]
  BY ConstantsAssumption DEF TypeOK, PullIn

LEMMA ContractStepType ==
  ASSUME TypeOK, NEW id \in ChannelIds, ContractStep(id)
  PROVE  TypeOK'
<1>1. CASE \E amount \in Amounts : OpenInTime(id, amount)
  <2>1. PICK amount \in Amounts : OpenChannel(id, amount)
    BY <1>1 DEF OpenInTime
  <2>2. channels' \in [ChannelIds -> Channel]
    BY <2>1, ConstantsAssumption, OpenedType DEF OpenChannel, TypeOK
  <2> QED BY <2>1, <2>2, ClientIsAccount, PullInType DEF OpenChannel, TypeOK
<1>2. CASE \E payer \in Accounts, amount \in Amounts : TopUp(payer, id, amount)
  <2>1. PICK payer \in Accounts, amount \in Amounts : TopUp(payer, id, amount)
    BY <1>2
  <2>2. channels' \in [ChannelIds -> Channel]
    BY <2>1, ConstantsAssumption, OpenedType DEF TopUp, TypeOK
  <2> QED BY <2>1, <2>2, PullInType DEF TopUp, TypeOK
<1>3. CASE \E u \in Updates : CooperativeClose(id, u)
  <2>1. PICK u \in Updates : CooperativeClose(id, u)
    BY <1>3
  <2>2. WithUpdate(channels[id], u) \in Channel
    BY WithUpdateType DEF TypeOK
  <2> QED BY <2>1, <2>2, SettleType DEF CooperativeClose, TypeOK, Closers
<1>4. CASE \E u \in Updates : ChallengeInTime(id, u)
  <2>1. PICK u \in Updates : ChallengeClose(id, u)
    BY <1>4 DEF ChallengeInTime
  <2>2. channels' \in [ChannelIds -> Channel]
    BY <2>1, WithUpdateType, ContestedType, ConstantsAssumption
       DEF ChallengeClose, TypeOK
  <2> QED BY <2>1, <2>2 DEF ChallengeClose, TypeOK
<1>5. CASE \E u \in Updates : SubmitChallenge(id, u)
  <2>1. PICK u \in Updates : SubmitChallenge(id, u)
    BY <1>5
  <2>2. channels' \in [ChannelIds -> Channel]
    BY <2>1, WithUpdateType DEF SubmitChallenge, TypeOK
  <2> QED BY <2>1, <2>2 DEF SubmitChallenge, TypeOK
<1>6. CASE Finalize(id)
  <2>1. channels[id] \in Channel
    BY DEF TypeOK
  <2> QED BY <1>6, <2>1, SettleType DEF Finalize, TypeOK, Closers
<1>7. CASE Reclaim(id)
  <2>1. channels[id] \in Channel /\ channels[id].deposit \in Nat
    BY DEF TypeOK, Channel
  <2>2. channels' \in [ChannelIds -> Channel]
    BY <1>7, EndedType DEF Reclaim, TypeOK
  <2>3. usdc' \in [Accounts -> Nat]
    BY <1>7, <2>1, ClientIsAccount, CreditType DEF Reclaim, TypeOK
  <2>4. outcome' \in [ChannelIds -> Outcome]
    BY <1>7, <2>1 DEF Reclaim, TypeOK, Outcome, Closers
  <2>5. escrowed' \in Int
    BY <1>7, <2>1 DEF Reclaim, TypeOK
  <2> QED BY <1>7, <2>2, <2>3, <2>4, <2>5 DEF Reclaim, TypeOK
<1> QED BY <1>1, <1>2, <1>3, <1>4, <1>5, <1>6, <1>7 DEF ContractStep

LEMMA EnvironmentType ==
  ASSUME TypeOK,
         \/ \E id \in ChannelIds : Signing(id)
         \/ \E n \in Nodes : RegistryChange(n)
         \/ Tick
  PROVE  TypeOK'
<1>1. CASE \E id \in ChannelIds : Signing(id)
  BY <1>1 DEF Signing, ClientSigns, NodeSigns, TypeOK
<1>2. CASE \E n \in Nodes : RegistryChange(n)
  BY <1>2 DEF RegistryChange, TypeOK
<1>3. CASE Tick
  BY <1>3 DEF Tick, TypeOK
<1> QED BY <1>1, <1>2, <1>3

\* Every reachable state is well typed.
THEOREM TypeCorrect == Spec => []TypeOK
<1>1. Init => TypeOK
  BY InitType
<1>2. TypeOK /\ [Next]_vars => TypeOK'
  <2> SUFFICES ASSUME TypeOK, [Next]_vars PROVE TypeOK'
    OBVIOUS
  <2>1. CASE \E id \in ChannelIds : ContractStep(id)
    BY <2>1, ContractStepType
  <2>2. CASE UNCHANGED vars
    BY <2>2 DEF vars, TypeOK
  <2> QED BY <2>1, <2>2, EnvironmentType DEF Next
<1> QED BY <1>1, <1>2, PTL DEF Spec

(***************************************************************************)
(* The money.  An invariant per channel, inductive together with TypeOK:   *)
(* what the record says in each status, what the event log says of it, and *)
(* why a signed state stands behind what will be paid.                     *)
(***************************************************************************)
Untouched(id) ==
  channels[id].status \in {"None", "Open"} =>
    /\ channels[id].latestNonce = 0
    /\ channels[id].latestCumOwed = 0
    /\ channels[id].challengeDeadline = 0

SignedBehind(id) ==
  \E u \in Updates :
    /\ VerifySigs(id, u)
    /\ u.nonce = channels[id].latestNonce
    /\ u.cumOwed = channels[id].latestCumOwed

ChannelInv(id) ==
  /\ channels[id].status = "None" => channels[id].deposit = 0
  /\ channels[id].status # "Closed" => outcome[id] = NoOutcome
  /\ channels[id].status = "Closed" =>
       outcome[id].by # "none" /\ channels[id].deposit = 0
  /\ Untouched(id)
  /\ channels[id].status = "Challenged" => SignedBehind(id)
  /\ funded[id] = channels[id].deposit + outcome[id].paid + outcome[id].refunded
  /\ outcome[id].by \in {"cooperativeClose", "finalize"} =>
       /\ SignedBehind(id)
       /\ outcome[id].paid = IF channels[id].latestCumOwed > funded[id]
                             THEN funded[id] ELSE channels[id].latestCumOwed
  /\ outcome[id].by = "reclaim" =>
       /\ channels[id].challengeDeadline = 0
       /\ channels[id].latestNonce = 0

MoneyInv == TypeOK /\ \A id \in ChannelIds : ChannelInv(id)

\* A step that leaves channel id alone and loses no signature keeps its part.
LEMMA ChannelInvFrame ==
  ASSUME NEW id \in ChannelIds, ChannelInv(id),
         channels'[id] = channels[id], outcome'[id] = outcome[id],
         funded'[id] = funded[id],
         clientSigned \subseteq clientSigned', nodeSigned \subseteq nodeSigned'
  PROVE  ChannelInv(id)'
<1>1. SignedBehind(id) => SignedBehind(id)'
  BY DEF SignedBehind, VerifySigs
<1> QED BY <1>1 DEF ChannelInv, Untouched, NoOutcome

\* What a settlement of c writes into the event log and the record.
LEMMA SettleInv ==
  ASSUME TypeOK, NEW id \in ChannelIds, NEW c \in Channel,
         NEW tx \in {"cooperativeClose", "finalize"},
         ChannelInv(id), channels[id].status \in {"Open", "Challenged"},
         c.deposit = channels[id].deposit,
         \E u \in Updates : /\ VerifySigs(id, u)
                            /\ u.nonce = c.latestNonce
                            /\ u.cumOwed = c.latestCumOwed,
         Settle(id, c, tx),
         UNCHANGED <<funded, clientSigned, nodeSigned>>
  PROVE  ChannelInv(id)'
<1>1. channels'[id] = Ended(c)
  BY DEF Settle, TypeOK
<1>2. outcome'[id] = [by |-> tx, paid |-> PaidToNode(c),
                      refunded |-> c.deposit - PaidToNode(c)]
  BY DEF Settle, TypeOK
<1>3. /\ channels'[id].status = "Closed" /\ channels'[id].deposit = 0
      /\ channels'[id].latestNonce = c.latestNonce
      /\ channels'[id].latestCumOwed = c.latestCumOwed
  BY <1>1 DEF Ended, Channel
<1>4. SignedBehind(id)'
  BY <1>3 DEF SignedBehind, VerifySigs
<1>5. funded[id] = c.deposit /\ funded'[id] = funded[id]
  BY DEF ChannelInv, NoOutcome, TypeOK, Channel
<1>6. funded'[id] = channels'[id].deposit + outcome'[id].paid + outcome'[id].refunded
  <2>1. PaidToNode(c) \in Nat /\ c.deposit \in Nat
    BY ShareBounded DEF Channel
  <2> QED BY <1>2, <1>3, <1>5, <2>1
<1>7. outcome'[id].paid = IF channels'[id].latestCumOwed > funded'[id]
                          THEN funded'[id] ELSE channels'[id].latestCumOwed
  BY <1>2, <1>3, <1>5 DEF PaidToNode
<1>8. outcome'[id].by = tx
  BY <1>2
<1> QED BY <1>3, <1>4, <1>6, <1>7, <1>8 DEF ChannelInv, Untouched

\* Every function of the contract keeps the invariant of its own channel.
LEMMA ContractStepOwn ==
  ASSUME TypeOK, NEW id \in ChannelIds, ChannelInv(id), ContractStep(id)
  PROVE  ChannelInv(id)'
<1> DEFINE c == channels[id]
<1>0. c \in Channel
  BY DEF TypeOK
<1>1. CASE \E amount \in Amounts : OpenInTime(id, amount)
  <2>1. PICK amount \in Amounts : OpenChannel(id, amount)
    BY <1>1 DEF OpenInTime
  <2>2. channels'[id] = Opened(c, amount, now) /\ funded'[id] = funded[id] + amount
    BY <2>1 DEF OpenChannel, PullIn, TypeOK
  <2>3. c.status = "None" /\ c.deposit = 0 /\ outcome[id] = NoOutcome
    BY <2>1 DEF OpenChannel, MayOpen, ChannelInv
  <2>4. outcome'[id] = NoOutcome
    BY <2>1, <2>3 DEF OpenChannel
  <2>5. funded[id] = 0 /\ amount \in Nat
    BY <2>3, ConstantsAssumption DEF ChannelInv, NoOutcome
  <2>6. /\ channels'[id].status = "Open" /\ channels'[id].deposit = amount
        /\ channels'[id].latestNonce = c.latestNonce
        /\ channels'[id].latestCumOwed = c.latestCumOwed
        /\ channels'[id].challengeDeadline = c.challengeDeadline
    BY <2>2, <1>0 DEF Opened, Channel
  <2> QED BY <2>2, <2>3, <2>4, <2>5, <2>6 DEF ChannelInv, Untouched, NoOutcome
<1>2. CASE \E payer \in Accounts, amount \in Amounts : TopUp(payer, id, amount)
  <2>1. PICK payer \in Accounts, amount \in Amounts : TopUp(payer, id, amount)
    BY <1>2
  <2>2. channels'[id] = ToppedUp(c, amount) /\ funded'[id] = funded[id] + amount
    BY <2>1 DEF TopUp, PullIn, TypeOK
  <2>3. c.status = "Open" /\ outcome[id] = NoOutcome /\ outcome'[id] = NoOutcome
    BY <2>1 DEF TopUp, MayTopUp, ChannelInv
  <2>4. amount \in Nat /\ c.deposit \in Nat /\ funded[id] = c.deposit
    BY <1>0, <2>3, ConstantsAssumption DEF ChannelInv, NoOutcome, Channel
  <2>5. /\ channels'[id].status = "Open"
        /\ channels'[id].deposit = c.deposit + amount
        /\ channels'[id].latestNonce = c.latestNonce
        /\ channels'[id].latestCumOwed = c.latestCumOwed
        /\ channels'[id].challengeDeadline = c.challengeDeadline
    BY <2>2, <2>3, <1>0 DEF ToppedUp, Channel
  <2> QED BY <2>2, <2>3, <2>4, <2>5 DEF ChannelInv, Untouched, NoOutcome
<1>3. CASE \E u \in Updates : CooperativeClose(id, u)
  <2>1. PICK u \in Updates : CooperativeClose(id, u)
    BY <1>3
  <2>2. WithUpdate(c, u) \in Channel
    BY <1>0, WithUpdateType
  <2>3. /\ WithUpdate(c, u).deposit = c.deposit
        /\ WithUpdate(c, u).latestNonce = u.nonce
        /\ WithUpdate(c, u).latestCumOwed = u.cumOwed
    BY <1>0 DEF WithUpdate, Channel
  <2> QED BY <2>1, <2>2, <2>3, SettleInv DEF CooperativeClose
<1>4. CASE \E u \in Updates : ChallengeInTime(id, u)
  <2>1. PICK u \in Updates : ChallengeClose(id, u)
    BY <1>4 DEF ChallengeInTime
  <2>2. channels'[id] = Contested(WithUpdate(c, u), now + ChallengeWindow)
    BY <2>1 DEF ChallengeClose, TypeOK
  <2>3. /\ channels'[id].status = "Challenged" /\ channels'[id].deposit = c.deposit
        /\ channels'[id].latestNonce = u.nonce
        /\ channels'[id].latestCumOwed = u.cumOwed
    BY <2>2, <1>0 DEF Contested, WithUpdate, Channel
  <2>4. SignedBehind(id)'
    <3>1. /\ VerifySigs(id, u)
          /\ clientSigned' = clientSigned /\ nodeSigned' = nodeSigned
      BY <2>1 DEF ChallengeClose
    <3>2. VerifySigs(id, u)'
      BY <3>1 DEF VerifySigs
    <3> QED BY <2>3, <3>2 DEF SignedBehind
  <2>5. /\ c.status = "Open" /\ outcome[id] = NoOutcome
        /\ outcome'[id] = outcome[id] /\ funded'[id] = funded[id]
    BY <2>1 DEF ChallengeClose, MayChallenge, ChannelInv
  <2> QED BY <2>3, <2>4, <2>5 DEF ChannelInv, Untouched, NoOutcome
<1>5. CASE \E u \in Updates : SubmitChallenge(id, u)
  <2>1. PICK u \in Updates : SubmitChallenge(id, u)
    BY <1>5
  <2>2. channels'[id] = WithUpdate(c, u) /\ c.status = "Challenged"
    BY <2>1 DEF SubmitChallenge, TypeOK
  <2>3. /\ channels'[id].status = "Challenged" /\ channels'[id].deposit = c.deposit
        /\ channels'[id].latestNonce = u.nonce
        /\ channels'[id].latestCumOwed = u.cumOwed
    BY <2>2, <1>0 DEF WithUpdate, Channel
  <2>4. SignedBehind(id)'
    <3>1. /\ VerifySigs(id, u)
          /\ clientSigned' = clientSigned /\ nodeSigned' = nodeSigned
      BY <2>1 DEF SubmitChallenge
    <3>2. VerifySigs(id, u)'
      BY <3>1 DEF VerifySigs
    <3> QED BY <2>3, <3>2 DEF SignedBehind
  <2>5. /\ c.status = "Challenged" /\ outcome[id] = NoOutcome
        /\ outcome'[id] = outcome[id] /\ funded'[id] = funded[id]
    BY <2>1 DEF SubmitChallenge, ChannelInv
  <2> QED BY <2>3, <2>4, <2>5 DEF ChannelInv, Untouched, NoOutcome
<1>6. CASE Finalize(id)
  <2>1. SignedBehind(id) /\ c.status = "Challenged"
    BY <1>6 DEF Finalize, ChannelInv
  <2> QED BY <1>0, <1>6, <2>1, SettleInv DEF Finalize, SignedBehind
<1>7. CASE Reclaim(id)
  <2>1. c.status = "Open" /\ outcome[id] = NoOutcome /\ funded'[id] = funded[id]
    BY <1>7 DEF Reclaim, MayReclaim, ChannelInv
  <2>2. c.deposit \in Nat /\ funded[id] = c.deposit
    BY <1>0, <2>1 DEF ChannelInv, NoOutcome, Channel
  <2>3. channels'[id] = Ended(c)
    BY <1>7 DEF Reclaim, TypeOK
  <2>4. /\ channels'[id].status = "Closed" /\ channels'[id].deposit = 0
        /\ channels'[id].latestNonce = 0 /\ channels'[id].challengeDeadline = 0
    BY <1>0, <2>1, <2>3 DEF Ended, Channel, ChannelInv, Untouched
  <2>5. outcome'[id] = [by |-> "reclaim", paid |-> 0, refunded |-> c.deposit]
    BY <1>7 DEF Reclaim, TypeOK
  <2> QED BY <2>1, <2>2, <2>4, <2>5 DEF ChannelInv, Untouched
<1> QED BY <1>1, <1>2, <1>3, <1>4, <1>5, <1>6, <1>7 DEF ContractStep

\* A function of the contract touches its own channel only.
LEMMA ContractStepOther ==
  ASSUME TypeOK, NEW id \in ChannelIds, ContractStep(id),
         NEW other \in ChannelIds \ {id}
  PROVE  /\ channels'[other] = channels[other]
         /\ outcome'[other] = outcome[other]
         /\ funded'[other] = funded[other]
BY DEF ContractStep, OpenInTime, OpenChannel, TopUp, CooperativeClose,
       ChallengeInTime, ChallengeClose, SubmitChallenge, Finalize, Reclaim,
       Settle, PullIn, TypeOK

LEMMA ContractStepSignatures ==
  ASSUME NEW id \in ChannelIds, ContractStep(id)
  PROVE  UNCHANGED <<clientSigned, nodeSigned>>
BY DEF ContractStep, OpenInTime, OpenChannel, TopUp, CooperativeClose,
       ChallengeInTime, ChallengeClose, SubmitChallenge, Finalize, Reclaim

\* A step of the contract or its environment, whoever watches.
moneyVars == <<channels, usdc, escrowed, now, active, clientSigned, nodeSigned,
               funded, outcome>>
AnyCall ==
  \/ \E id \in ChannelIds : ContractStep(id) \/ Signing(id)
  \/ \E n \in Nodes : RegistryChange(n)
  \/ Tick

LEMMA MoneyInvStep == MoneyInv /\ [AnyCall]_moneyVars => MoneyInv'
<1> SUFFICES ASSUME MoneyInv, [AnyCall]_moneyVars PROVE MoneyInv'
  OBVIOUS
<1>1. TypeOK /\ \A id \in ChannelIds : ChannelInv(id)
  BY DEF MoneyInv
<1>2. CASE \E id \in ChannelIds : ContractStep(id)
  <2>1. PICK id \in ChannelIds : ContractStep(id)
    BY <1>2
  <2>2. ChannelInv(id)'
    BY <1>1, <2>1, ContractStepOwn
  <2>3. ASSUME NEW other \in ChannelIds \ {id} PROVE ChannelInv(other)'
    BY <1>1, <2>1, ContractStepOther, ContractStepSignatures, ChannelInvFrame
  <2> QED BY <1>1, <2>1, <2>2, <2>3, ContractStepType DEF MoneyInv
<1>3. CASE \/ \E id \in ChannelIds : Signing(id)
           \/ \E n \in Nodes : RegistryChange(n)
           \/ Tick
  <2>1. /\ UNCHANGED <<channels, outcome, funded>>
        /\ clientSigned \subseteq clientSigned' /\ nodeSigned \subseteq nodeSigned'
    BY <1>3 DEF Signing, ClientSigns, NodeSigns, RegistryChange, Tick
  <2> QED BY <1>1, <1>3, <2>1, ChannelInvFrame, EnvironmentType DEF MoneyInv
<1>4. CASE UNCHANGED moneyVars
  <2>1. TypeOK'
    BY <1>1, <1>4 DEF moneyVars, TypeOK
  <2> QED BY <1>1, <1>4, <2>1, ChannelInvFrame DEF MoneyInv, moneyVars
<1> QED BY <1>2, <1>3, <1>4 DEF AnyCall

LEMMA InitMoney == Init => MoneyInv
BY InitType DEF Init, MoneyInv, ChannelInv, Untouched, NoChannel, NoOutcome

LEMMA MoneyInvMeans == MoneyInv => LedgerBalanced /\ PaidAsSigned
<1>1. MoneyInv => LedgerBalanced
  BY DEF MoneyInv, ChannelInv, LedgerBalanced
<1>2. MoneyInv => PaidAsSigned
  BY DEF MoneyInv, ChannelInv, SignedBehind, VerifySigs, PaidAsSigned
<1> QED BY <1>1, <1>2

LEMMA MoneyInvariant == Spec => []MoneyInv
<1>1. [Next]_vars => [AnyCall]_moneyVars
  BY DEF Next, AnyCall, vars, moneyVars
<1> QED BY <1>1, InitMoney, MoneyInvStep, PTL DEF Spec

\* What entered a channel is deposited, paid or refunded.
THEOREM LedgerAlwaysBalanced == Spec => []LedgerBalanced
BY MoneyInvMeans, MoneyInvariant, PTL

\* Whatever is paid to a node was signed by both parties.
THEOREM PaidOnlyAsSigned == Spec => []PaidAsSigned
BY MoneyInvMeans, MoneyInvariant, PTL

\* Only a channel that was never challenged is reclaimed.
THEOREM ReclaimOnlyUncontested == Spec => []ReclaimIsUncontested
<1>1. MoneyInv => ReclaimIsUncontested
  BY DEF MoneyInv, ChannelInv, ReclaimIsUncontested
<1> QED BY <1>1, MoneyInvariant, PTL

(***************************************************************************)
(* What a step may never do.                                               *)
(***************************************************************************)

\* No function of the contract accepts a closed channel.
LEMMA ClosedRejectsAll ==
  ASSUME NEW id \in ChannelIds, channels[id].status = "Closed"
  PROVE  ~ContractStep(id)
BY DEF ContractStep, OpenInTime, OpenChannel, MayOpen, TopUp, MayTopUp,
       CooperativeClose, ChallengeInTime, ChallengeClose, MayChallenge,
       SubmitChallenge, Finalize, Reclaim, MayReclaim

\* Steps of the environment change no channel.
LEMMA EnvironmentFrame ==
  ASSUME \/ \E id \in ChannelIds : Signing(id)
         \/ \E n \in Nodes : RegistryChange(n)
         \/ Tick
         \/ UNCHANGED vars
  PROVE  UNCHANGED <<channels, outcome, funded>>
BY DEF Signing, ClientSigns, NodeSigns, RegistryChange, Tick, vars

\* Closed is final.
THEOREM ClosedChannelsFinal == Spec => ClosedIsFinal
<1> DEFINE Final == \A id \in ChannelIds : channels[id].status = "Closed" =>
                      /\ channels'[id] = channels[id]
                      /\ outcome'[id] = outcome[id]
                      /\ funded'[id] = funded[id]
<1>1. TypeOK /\ [Next]_vars => [Final]_vars
  <2> SUFFICES ASSUME TypeOK, [Next]_vars,
                      NEW id \in ChannelIds, channels[id].status = "Closed"
               PROVE  /\ channels'[id] = channels[id]
                      /\ outcome'[id] = outcome[id]
                      /\ funded'[id] = funded[id]
    OBVIOUS
  <2>1. CASE \E other \in ChannelIds : ContractStep(other)
    BY <2>1, ClosedRejectsAll, ContractStepOther
  <2>2. CASE ~ \E other \in ChannelIds : ContractStep(other)
    BY <2>2, EnvironmentFrame DEF Next
  <2> QED BY <2>1, <2>2
<1> QED BY <1>1, TypeCorrect, PTL DEF Spec, ClosedIsFinal

\* What the three functions that accept a challenged channel do to it.
LEMMA ChallengedStep ==
  ASSUME TypeOK, NEW id \in ChannelIds, channels[id].status = "Challenged",
         ContractStep(id)
  PROVE  /\ channels'[id].status \in {"Challenged", "Closed"}
         /\ channels'[id].challengeDeadline = channels[id].challengeDeadline
         /\ channels'[id].latestNonce >= channels[id].latestNonce
         /\ channels'[id].status = "Challenged"
              => channels'[id].latestNonce > channels[id].latestNonce
         /\ (channels'[id].status = "Closed" /\ now < channels[id].challengeDeadline)
              => outcome'[id].by = "cooperativeClose"
<1> DEFINE c == channels[id]
<1>0. c \in Channel /\ now \in Nat
  BY DEF TypeOK
<1>1. CASE \E u \in Updates : CooperativeClose(id, u)
  <2>1. PICK u \in Updates : CooperativeClose(id, u)
    BY <1>1
  <2>2. channels'[id] = Ended(WithUpdate(c, u))
    BY <2>1 DEF CooperativeClose, Settle, TypeOK
  <2>3. /\ channels'[id].status = "Closed"
        /\ channels'[id].challengeDeadline = c.challengeDeadline
        /\ channels'[id].latestNonce = u.nonce
    BY <1>0, <2>2 DEF Ended, WithUpdate, Channel
  <2>4. outcome'[id].by = "cooperativeClose"
    BY <2>1 DEF CooperativeClose, Settle, TypeOK
  <2> QED BY <2>1, <2>3, <2>4 DEF CooperativeClose, CloseNonceOk
<1>2. CASE \E u \in Updates : SubmitChallenge(id, u)
  <2>1. PICK u \in Updates : SubmitChallenge(id, u)
    BY <1>2
  <2>2. channels'[id] = WithUpdate(c, u)
    BY <2>1 DEF SubmitChallenge, TypeOK
  <2>3. /\ channels'[id].status = "Challenged"
        /\ channels'[id].challengeDeadline = c.challengeDeadline
        /\ channels'[id].latestNonce = u.nonce
    BY <1>0, <2>2 DEF WithUpdate, Channel
  <2>4. u.nonce > c.latestNonce /\ u.nonce \in Nat /\ c.latestNonce \in Nat
    BY <1>0, <2>1, ConstantsAssumption DEF SubmitChallenge, Overrides, Channel
  <2> QED BY <2>3, <2>4
<1>3. CASE Finalize(id)
  <2>1. channels'[id] = Ended(c)
    BY <1>3 DEF Finalize, Settle, TypeOK
  <2>2. /\ channels'[id].status = "Closed"
        /\ channels'[id].challengeDeadline = c.challengeDeadline
        /\ channels'[id].latestNonce = c.latestNonce
        /\ c.latestNonce \in Nat /\ c.challengeDeadline \in Nat
    BY <1>0, <2>1 DEF Ended, Channel
  <2> QED BY <1>0, <1>3, <2>2 DEF Finalize, WindowOver
<1> QED BY <1>1, <1>2, <1>3
       DEF ContractStep, OpenInTime, OpenChannel, MayOpen, TopUp, MayTopUp,
           ChallengeInTime, ChallengeClose, MayChallenge, Reclaim, MayReclaim

\* From a challenge on, only newer states and only after the deadline, unless
\* both sign.
THEOREM ChallengesOnlyAdvance == Spec => ChallengeOnlyAdvances
<1> DEFINE Advances(id) ==
             LET c == channels[id]
                 d == channels'[id]
             IN  /\ d.status \in {"Challenged", "Closed"}
                 /\ d.challengeDeadline = c.challengeDeadline
                 /\ d.latestNonce >= c.latestNonce
                 /\ (d.latestCumOwed # c.latestCumOwed /\ d.status = "Challenged")
                      => d.latestNonce > c.latestNonce
                 /\ (d.status = "Closed" /\ now < c.challengeDeadline)
                      => outcome'[id].by = "cooperativeClose"
<1> DEFINE AllAdvance == \A id \in ChannelIds :
                           channels[id].status = "Challenged" => Advances(id)
<1>1. TypeOK /\ [Next]_vars => [AllAdvance]_vars
  <2> SUFFICES ASSUME TypeOK, [Next]_vars,
                      NEW id \in ChannelIds, channels[id].status = "Challenged"
               PROVE  Advances(id)
    OBVIOUS
  <2>1. CASE ContractStep(id)
    BY <2>1, ChallengedStep
  <2>2. CASE channels'[id] = channels[id]
    <3>1. channels[id].latestNonce \in Nat
      BY DEF TypeOK, Channel
    <3> QED BY <2>2, <3>1
  <2>3. ContractStep(id) \/ channels'[id] = channels[id]
    BY ContractStepOther, EnvironmentFrame DEF Next
  <2> QED BY <2>1, <2>2, <2>3
<1> QED BY <1>1, TypeCorrect, PTL DEF Spec, ChallengeOnlyAdvances

(***************************************************************************)
(* The challenge window.  A channel some party watches is either still     *)
(* inside its window or has no newer signed state left to be paid: what    *)
(* finalize finds when it may run.                                         *)
(***************************************************************************)
NoneNewer(id) ==
  \A u \in Updates : VerifySigs(id, u) => u.nonce <= channels[id].latestNonce

WindowInv(id) ==
  id \notin lapsed =>
    /\ channels[id].status = "Challenged" =>
         now < channels[id].challengeDeadline \/ NoneNewer(id)
    /\ outcome[id].by = "finalize" => NoneNewer(id)

AllWindows == \A id \in ChannelIds : WindowInv(id)

LEMMA ContractStepTime ==
  ASSUME NEW id \in ChannelIds, ContractStep(id)
  PROVE  now' = now
BY DEF ContractStep, OpenInTime, OpenChannel, TopUp, CooperativeClose,
       ChallengeInTime, ChallengeClose, SubmitChallenge, Finalize, Reclaim

\* Every function of the contract keeps the window of its own channel.
LEMMA ContractStepWindow ==
  ASSUME ChallengeWindow > 0, MoneyInv, NEW id \in ChannelIds, WindowInv(id),
         id \notin lapsed, ContractStep(id)
  PROVE  WindowInv(id)'
<1> DEFINE c == channels[id]
           d == channels'[id]
<1>0. /\ TypeOK /\ ChannelInv(id) /\ c \in Channel /\ now \in Nat
      /\ ChallengeWindow \in Nat /\ now' = now
      /\ clientSigned' = clientSigned /\ nodeSigned' = nodeSigned
  BY ContractStepTime, ContractStepSignatures, ConstantsAssumption DEF MoneyInv, TypeOK
<1>1. CASE \E amount \in Amounts : OpenInTime(id, amount)
  <2>1. PICK amount \in Amounts : OpenChannel(id, amount)
    BY <1>1 DEF OpenInTime
  <2>2. c.status = "None" /\ outcome'[id] = NoOutcome
    BY <1>0, <2>1 DEF OpenChannel, MayOpen, ChannelInv
  <2>3. d = Opened(c, amount, now)
    BY <1>0, <2>1 DEF OpenChannel, TypeOK
  <2>4. d.status = "Open"
    BY <1>0, <2>3 DEF Opened, Channel
  <2> QED BY <2>2, <2>4 DEF WindowInv, NoOutcome
<1>2. CASE \E payer \in Accounts, amount \in Amounts : TopUp(payer, id, amount)
  <2>1. PICK payer \in Accounts, amount \in Amounts : TopUp(payer, id, amount)
    BY <1>2
  <2>2. c.status = "Open" /\ outcome'[id] = NoOutcome
    BY <1>0, <2>1 DEF TopUp, MayTopUp, ChannelInv
  <2>3. d = ToppedUp(c, amount)
    BY <1>0, <2>1 DEF TopUp, TypeOK
  <2>4. d.status = "Open"
    BY <1>0, <2>2, <2>3 DEF ToppedUp, Channel
  <2> QED BY <2>2, <2>4 DEF WindowInv, NoOutcome
<1>3. CASE \E u \in Updates : CooperativeClose(id, u)
  <2>1. PICK u \in Updates : CooperativeClose(id, u)
    BY <1>3
  <2>2. outcome'[id].by = "cooperativeClose" /\ d = Ended(WithUpdate(c, u))
    BY <1>0, <2>1 DEF CooperativeClose, Settle, TypeOK
  <2>3. d.status = "Closed"
    BY <1>0, <2>2 DEF Ended, WithUpdate, Channel
  <2> QED BY <2>2, <2>3 DEF WindowInv
<1>4. CASE \E u \in Updates : ChallengeInTime(id, u)
  <2>1. PICK u \in Updates : ChallengeClose(id, u)
    BY <1>4 DEF ChallengeInTime
  <2>2. d = Contested(WithUpdate(c, u), now + ChallengeWindow)
    BY <1>0, <2>1 DEF ChallengeClose, TypeOK
  <2>3. d.challengeDeadline = now + ChallengeWindow
    BY <1>0, <2>2 DEF Contested, WithUpdate, Channel
  <2>4. outcome'[id] = NoOutcome
    BY <1>0, <2>1 DEF ChallengeClose, MayChallenge, ChannelInv
  <2> QED BY <1>0, <2>3, <2>4 DEF WindowInv, NoOutcome
<1>5. CASE \E u \in Updates : SubmitChallenge(id, u)
  <2>1. PICK u \in Updates : SubmitChallenge(id, u)
    BY <1>5
  <2>2. d = WithUpdate(c, u) /\ now < c.challengeDeadline
    BY <1>0, <2>1 DEF SubmitChallenge, TypeOK
  <2>3. d.challengeDeadline = c.challengeDeadline
    BY <1>0, <2>2 DEF WithUpdate, Channel
  <2>4. outcome'[id] = NoOutcome
    BY <1>0, <2>1 DEF SubmitChallenge, ChannelInv
  <2> QED BY <1>0, <2>2, <2>3, <2>4 DEF WindowInv, NoOutcome
<1>6. CASE Finalize(id)
  <2>1. d = Ended(c) /\ c.status = "Challenged" /\ now >= c.challengeDeadline
    BY <1>0, <1>6 DEF Finalize, WindowOver, Settle, TypeOK
  <2>2. d.status = "Closed" /\ d.latestNonce = c.latestNonce /\ c.challengeDeadline \in Nat
    BY <1>0, <2>1 DEF Ended, Channel
  <2>3. NoneNewer(id)
    BY <1>0, <2>1, <2>2 DEF WindowInv
  <2>4. NoneNewer(id)'
    BY <1>0, <2>2, <2>3 DEF NoneNewer, VerifySigs
  <2> QED BY <2>2, <2>4 DEF WindowInv
<1>7. CASE Reclaim(id)
  <2>1. d = Ended(c) /\ outcome'[id].by = "reclaim"
    BY <1>0, <1>7 DEF Reclaim, TypeOK
  <2>2. d.status = "Closed"
    BY <1>0, <2>1 DEF Ended, Channel
  <2> QED BY <2>1, <2>2 DEF WindowInv
<1> QED BY <1>1, <1>2, <1>3, <1>4, <1>5, <1>6, <1>7 DEF ContractStep

\* A step that leaves the record and the signatures of a channel alone.
LEMMA WindowFrame ==
  ASSUME NEW id \in ChannelIds, WindowInv(id), id \notin lapsed,
         channels'[id] = channels[id], outcome'[id] = outcome[id], now' = now,
         \A u \in Updates : VerifySigs(id, u)' => VerifySigs(id, u)
  PROVE  WindowInv(id)'
BY DEF WindowInv, NoneNewer

\* Signatures that come too late are seen by Watch.
LEMMA SigningWindow ==
  ASSUME MoneyInv, NEW id \in ChannelIds, WindowInv(id), id \notin lapsed,
         NEW other \in ChannelIds, Signing(other), ~SignsLate(id)
  PROVE  WindowInv(id)'
<1>1. UNCHANGED <<channels, outcome, now>>
  BY DEF Signing, ClientSigns, NodeSigns
<1>2. CASE channels[id].status \in {"None", "Open"}
  <2>1. outcome[id] = NoOutcome
    BY <1>2 DEF MoneyInv, ChannelInv
  <2> QED BY <1>1, <1>2, <2>1 DEF WindowInv, NoOutcome
<1>3. CASE channels[id].status \notin {"None", "Open"}
  <2>1. /\ SignedFor(id, clientSigned') = SignedFor(id, clientSigned)
        /\ SignedFor(id, nodeSigned') = SignedFor(id, nodeSigned)
    BY <1>3 DEF SignsLate
  <2>2. ASSUME NEW u \in Updates, VerifySigs(id, u)' PROVE VerifySigs(id, u)
    <3>1. /\ <<id, u>> \in SignedFor(id, clientSigned')
          /\ <<id, u>> \in SignedFor(id, nodeSigned')
      BY <2>2 DEF VerifySigs, SignedFor
    <3>2. <<id, u>> \in SignedFor(id, clientSigned) /\ <<id, u>> \in SignedFor(id, nodeSigned)
      BY <2>1, <3>1
    <3> QED BY <3>2 DEF VerifySigs, SignedFor
  <2> QED BY <1>1, <2>2, WindowFrame
<1> QED BY <1>2, <1>3

\* So is a window that ends over a newer signed state.
LEMMA TickWindow ==
  ASSUME MoneyInv, NEW id \in ChannelIds, WindowInv(id), id \notin lapsed,
         Tick, ~MissesWindow(id)
  PROVE  WindowInv(id)'
<1>1. /\ UNCHANGED <<channels, outcome, clientSigned, nodeSigned>>
      /\ now' = now + 1 /\ now \in Nat /\ now' # now
  BY DEF Tick, MoneyInv, TypeOK
<1>2. NoneNewer(id) => NoneNewer(id)'
  BY <1>1 DEF NoneNewer, VerifySigs
<1>3. channels[id].challengeDeadline \in Nat /\ channels[id].latestNonce \in Nat
  BY DEF MoneyInv, TypeOK, Channel
<1>4. CASE channels[id].status = "Challenged" /\ now + 1 = channels[id].challengeDeadline
  <2>1. Overriding(id) = {}
    BY <1>1, <1>4 DEF MissesWindow
  <2>2. ASSUME NEW u \in Updates, VerifySigs(id, u)
        PROVE  u.nonce <= channels[id].latestNonce
    <3>1. ~Overrides(channels[id], u)
      BY <2>1, <2>2 DEF Overriding
    <3>2. u.nonce \in Nat
      BY ConstantsAssumption
    <3> QED BY <1>3, <3>1, <3>2 DEF Overrides
  <2>3. NoneNewer(id)
    BY <2>2 DEF NoneNewer
  <2> QED BY <1>2, <2>3 DEF WindowInv
<1>5. CASE ~(channels[id].status = "Challenged" /\ now + 1 = channels[id].challengeDeadline)
  <2>1. (channels[id].status = "Challenged" /\ now < channels[id].challengeDeadline)
          => now' < channels[id].challengeDeadline
    BY <1>1, <1>3, <1>5
  <2> QED BY <1>1, <1>2, <2>1 DEF WindowInv
<1> QED BY <1>4, <1>5

LEMMA WindowStep ==
  ASSUME ChallengeWindow > 0, MoneyInv, AllWindows, [Next]_vars
  PROVE  AllWindows'
<1> SUFFICES ASSUME NEW id \in ChannelIds, id \notin lapsed' PROVE WindowInv(id)'
  BY DEF AllWindows, WindowInv
<1>1. WindowInv(id)
  BY DEF AllWindows
<1>2. CASE UNCHANGED vars
  BY <1>1, <1>2, WindowFrame DEF vars, VerifySigs
<1>3. CASE Next
  <2>1. id \notin lapsed /\ ~SignsLate(id) /\ ~MissesWindow(id)
    BY <1>3 DEF Next, Watch
  <2>2. CASE \E other \in ChannelIds : ContractStep(other)
    <3>1. PICK other \in ChannelIds : ContractStep(other)
      BY <2>2
    <3>2. CASE other = id
      BY <1>1, <2>1, <3>1, <3>2, ContractStepWindow
    <3>3. CASE other # id
      <4>1. /\ channels'[id] = channels[id] /\ outcome'[id] = outcome[id]
            /\ now' = now /\ UNCHANGED <<clientSigned, nodeSigned>>
        BY <3>1, <3>3, ContractStepOther, ContractStepTime, ContractStepSignatures
           DEF MoneyInv
      <4> QED BY <1>1, <2>1, <4>1, WindowFrame DEF VerifySigs
    <3> QED BY <3>2, <3>3
  <2>3. CASE \E other \in ChannelIds : Signing(other)
    BY <1>1, <2>1, <2>3, SigningWindow
  <2>4. CASE \E n \in Nodes : RegistryChange(n)
    <3>1. UNCHANGED <<channels, outcome, now, clientSigned, nodeSigned>>
      BY <2>4 DEF RegistryChange
    <3> QED BY <1>1, <2>1, <3>1, WindowFrame DEF VerifySigs
  <2>5. CASE Tick
    BY <1>1, <2>1, <2>5, TickWindow
  <2> QED BY <1>3, <2>2, <2>3, <2>4, <2>5 DEF Next
<1> QED BY <1>2, <1>3

\* With a window of any length and one party that watches, finalize pays the
\* newest state both had signed.
THEOREM FinalizeAlwaysNewest ==
  ASSUME ChallengeWindow > 0
  PROVE  Spec => []FinalizePaysNewest
<1>1. Init => AllWindows
  BY DEF Init, AllWindows, WindowInv, NoChannel, NoOutcome
<1>2. MoneyInv /\ AllWindows /\ [Next]_vars => AllWindows'
  BY WindowStep
<1>3. AllWindows => FinalizePaysNewest
  BY DEF AllWindows, WindowInv, NoneNewer, FinalizePaysNewest
<1> QED BY <1>1, <1>2, <1>3, MoneyInvariant, PTL DEF Spec

(***************************************************************************)
(* JobChannel implements EscrowPromise.                                    *)
(***************************************************************************)
APhase == [id \in ChannelIds |-> Phase(channels[id])]
AHeld == [id \in ChannelIds |-> channels[id].deposit]
AAgreed == [id \in ChannelIds |-> AgreedAmounts(id)]
AReleased == [id \in ChannelIds |->
                [paid |-> outcome[id].paid, refunded |-> outcome[id].refunded]]

\* A step that changes one channel's record changes the abstract state of
\* that channel only.
LEMMA AbstractFrame ==
  ASSUME TypeOK, TypeOK', NEW id \in ChannelIds,
         \A other \in ChannelIds \ {id} :
           /\ channels'[other] = channels[other]
           /\ outcome'[other] = outcome[other],
         UNCHANGED <<clientSigned, nodeSigned>>
  PROVE  /\ APhase' = [APhase EXCEPT ![id] = Phase(channels'[id])]
         /\ AHeld' = [AHeld EXCEPT ![id] = channels'[id].deposit]
         /\ AReleased' = [AReleased EXCEPT
              ![id] = [paid |-> outcome'[id].paid, refunded |-> outcome'[id].refunded]]
         /\ AAgreed' = AAgreed
<1>1. APhase' = [APhase EXCEPT ![id] = Phase(channels'[id])]
  BY DEF APhase, Phase
<1>2. AHeld' = [AHeld EXCEPT ![id] = channels'[id].deposit]
  BY DEF AHeld
<1>3. AReleased' = [AReleased EXCEPT
        ![id] = [paid |-> outcome'[id].paid, refunded |-> outcome'[id].refunded]]
  BY DEF AReleased
<1>4. AAgreed' = AAgreed
  BY DEF AAgreed, AgreedAmounts
<1> QED BY <1>1, <1>2, <1>3, <1>4

\* Money in: openChannel and topUp.
LEMMA FundStep ==
  ASSUME MoneyInv, MoneyInv', NEW id \in ChannelIds,
         \/ \E amount \in Amounts : OpenInTime(id, amount)
         \/ \E payer \in Accounts, amount \in Amounts : TopUp(payer, id, amount),
         ContractStep(id)
  PROVE  Promise!Fund(id)
<1> DEFINE c == channels[id]
           d == channels'[id]
<1>1. TypeOK /\ TypeOK' /\ ChannelInv(id) /\ c \in Channel /\ d \in Channel
  BY DEF MoneyInv, TypeOK
<1>2. /\ c.status # "Closed" /\ d.status = "Open" /\ d.deposit >= c.deposit
      /\ outcome' = outcome
  <2>1. CASE \E amount \in Amounts : OpenInTime(id, amount)
    <3>1. PICK amount \in Amounts : OpenChannel(id, amount)
      BY <2>1 DEF OpenInTime
    <3>2. d = Opened(c, amount, now) /\ c.status = "None" /\ c.deposit = 0
      BY <1>1, <3>1 DEF OpenChannel, MayOpen, TypeOK, ChannelInv
    <3>3. d.status = "Open" /\ d.deposit = amount /\ amount \in Nat
      BY <1>1, <3>2, ConstantsAssumption DEF Opened, Channel
    <3> QED BY <3>1, <3>2, <3>3 DEF OpenChannel
  <2>2. CASE \E payer \in Accounts, amount \in Amounts : TopUp(payer, id, amount)
    <3>1. PICK payer \in Accounts, amount \in Amounts : TopUp(payer, id, amount)
      BY <2>2
    <3>2. d = ToppedUp(c, amount) /\ c.status = "Open"
      BY <1>1, <3>1 DEF TopUp, MayTopUp, TypeOK
    <3>3. /\ d.status = "Open" /\ d.deposit = c.deposit + amount
          /\ amount \in Nat /\ c.deposit \in Nat
      BY <1>1, <3>2, ConstantsAssumption DEF ToppedUp, Channel
    <3> QED BY <3>1, <3>2, <3>3 DEF TopUp
  <2> QED BY <2>1, <2>2
<1>3. /\ APhase' = [APhase EXCEPT ![id] = "held"]
      /\ AHeld' = [AHeld EXCEPT ![id] = d.deposit]
      /\ AAgreed' = AAgreed
  BY <1>1, <1>2, AbstractFrame, ContractStepOther, ContractStepSignatures DEF Phase
<1>4. AReleased' = AReleased
  BY <1>2 DEF AReleased
<1>5. /\ APhase[id] # "released"
      /\ AHeld'[id] = d.deposit /\ AHeld[id] = c.deposit /\ d.deposit \in Nat
  BY <1>1, <1>2 DEF APhase, AHeld, Phase, Channel
<1> QED BY <1>2, <1>3, <1>4, <1>5 DEF Promise!Fund, APhase, AHeld, AAgreed, AReleased

\* Money out: the two ways to settle, and reclaim.
LEMMA ReleaseStep ==
  ASSUME MoneyInv, MoneyInv', NEW id \in ChannelIds,
         \/ \E u \in Updates : CooperativeClose(id, u)
         \/ Finalize(id)
         \/ Reclaim(id),
         ContractStep(id)
  PROVE  Promise!Release(id)
<1> DEFINE c == channels[id]
           d == channels'[id]
           o == outcome'[id]
           Share(owed) == IF owed > c.deposit THEN c.deposit ELSE owed
<1>1. TypeOK /\ TypeOK' /\ ChannelInv(id) /\ c \in Channel /\ d \in Channel
  BY DEF MoneyInv, TypeOK
<1>2. /\ c.status \in {"Open", "Challenged"}
      /\ d.status = "Closed" /\ d.deposit = 0
      /\ \E owed \in AgreedAmounts(id) \cup {0} :
           o.paid = Share(owed) /\ o.refunded = c.deposit - Share(owed)
  <2>1. CASE \E u \in Updates : CooperativeClose(id, u)
    <3>1. PICK u \in Updates : CooperativeClose(id, u)
      BY <2>1
    <3>2. d = Ended(WithUpdate(c, u)) /\ o.paid = PaidToNode(WithUpdate(c, u))
          /\ o.refunded = WithUpdate(c, u).deposit - PaidToNode(WithUpdate(c, u))
      BY <1>1, <3>1 DEF CooperativeClose, Settle, TypeOK
    <3>3. /\ WithUpdate(c, u).deposit = c.deposit
          /\ WithUpdate(c, u).latestCumOwed = u.cumOwed
          /\ d.status = "Closed" /\ d.deposit = 0
      BY <1>1, <3>2 DEF Ended, WithUpdate, Channel
    <3>4. u.cumOwed \in AgreedAmounts(id)
      <4>1. <<id, u>> \in clientSigned \cap nodeSigned
        BY <3>1 DEF CooperativeClose, VerifySigs
      <4> QED BY <4>1 DEF AgreedAmounts
    <3>5. PaidToNode(WithUpdate(c, u)) = Share(u.cumOwed)
      BY <3>3 DEF PaidToNode
    <3> QED BY <3>1, <3>2, <3>3, <3>4, <3>5 DEF CooperativeClose
  <2>2. CASE Finalize(id)
    <3>1. d = Ended(c) /\ o.paid = PaidToNode(c) /\ o.refunded = c.deposit - PaidToNode(c)
      BY <1>1, <2>2 DEF Finalize, Settle, TypeOK
    <3>2. PICK u \in Updates : VerifySigs(id, u) /\ u.cumOwed = c.latestCumOwed
      BY <1>1, <2>2 DEF Finalize, ChannelInv, SignedBehind
    <3>3. u.cumOwed \in AgreedAmounts(id)
      <4>1. <<id, u>> \in clientSigned \cap nodeSigned
        BY <3>2 DEF VerifySigs
      <4> QED BY <4>1 DEF AgreedAmounts
    <3>4. PaidToNode(c) = Share(u.cumOwed)
      BY <3>2 DEF PaidToNode
    <3>5. d.status = "Closed" /\ d.deposit = 0
      BY <1>1, <3>1 DEF Ended, Channel
    <3> QED BY <2>2, <3>1, <3>3, <3>4, <3>5 DEF Finalize
  <2>3. CASE Reclaim(id)
    <3>1. d = Ended(c) /\ o.paid = 0 /\ o.refunded = c.deposit
      BY <1>1, <2>3 DEF Reclaim, TypeOK
    <3>2. d.status = "Closed" /\ d.deposit = 0 /\ c.deposit \in Nat
      BY <1>1, <3>1 DEF Ended, Channel
    <3>3. o.paid = Share(0) /\ o.refunded = c.deposit - Share(0)
      BY <3>1, <3>2
    <3> QED BY <2>3, <3>2, <3>3 DEF Reclaim, MayReclaim
  <2> QED BY <2>1, <2>2, <2>3
<1>3. /\ APhase' = [APhase EXCEPT ![id] = "released"]
      /\ AHeld' = [AHeld EXCEPT ![id] = 0]
      /\ AReleased' = [AReleased EXCEPT
           ![id] = [paid |-> o.paid, refunded |-> o.refunded]]
      /\ AAgreed' = AAgreed
  BY <1>1, <1>2, AbstractFrame, ContractStepOther, ContractStepSignatures DEF Phase
<1>4. APhase[id] = "held" /\ AHeld[id] = c.deposit /\ AAgreed[id] = AgreedAmounts(id)
  BY <1>2 DEF APhase, AHeld, AAgreed, Phase
<1>5. PICK owed \in AAgreed[id] \cup {0} :
        o.paid = Share(owed) /\ o.refunded = c.deposit - Share(owed)
  BY <1>2, <1>4
<1>6. AReleased' = [AReleased EXCEPT
        ![id] = [paid |-> IF owed > AHeld[id] THEN AHeld[id] ELSE owed,
                 refunded |-> AHeld[id] -
                                (IF owed > AHeld[id] THEN AHeld[id] ELSE owed)]]
  BY <1>3, <1>4, <1>5
<1> HIDE DEF c, d, o, Share
<1> QED BY <1>3, <1>4, <1>6 DEF Promise!Release, APhase, AHeld, AAgreed, AReleased

\* Signing adds agreed amounts.
LEMMA AgreeStep ==
  ASSUME TypeOK, NEW id \in ChannelIds, Signing(id)
  PROVE  Promise!Agree(id)
<1>1. UNCHANGED <<channels, outcome>>
  BY DEF Signing, ClientSigns, NodeSigns
<1>2. /\ TypeOK'
      /\ clientSigned \subseteq clientSigned' /\ nodeSigned \subseteq nodeSigned'
      /\ \A s \in clientSigned' \cap nodeSigned' :
           s \in clientSigned \cap nodeSigned \/ s[1] = id
  BY EnvironmentType DEF Signing, ClientSigns, NodeSigns
<1>3. AgreedAmounts(id) \subseteq AgreedAmounts(id)'
  BY <1>2 DEF AgreedAmounts
<1>4. AgreedAmounts(id)' \subseteq Nat
  BY <1>2, ConstantsAssumption DEF AgreedAmounts, TypeOK
<1>5. \A other \in ChannelIds \ {id} : AgreedAmounts(other)' = AgreedAmounts(other)
  BY <1>2 DEF AgreedAmounts
<1>6. AAgreed' = [AAgreed EXCEPT ![id] = AAgreed'[id]]
  BY <1>5 DEF AAgreed
<1>7. AAgreed[id] = AgreedAmounts(id) /\ AAgreed'[id] = AgreedAmounts(id)'
  BY DEF AAgreed
<1>8. APhase' = APhase /\ AHeld' = AHeld /\ AReleased' = AReleased
  BY <1>1 DEF APhase, AHeld, AReleased
<1> QED BY <1>3, <1>4, <1>6, <1>7, <1>8
        DEF Promise!Agree, APhase, AHeld, AAgreed, AReleased

\* Challenges, the registry and time change nothing the promise speaks of.
LEMMA SilentStep ==
  ASSUME MoneyInv, MoneyInv',
         \/ \E id \in ChannelIds, u \in Updates :
              ContractStep(id) /\ (ChallengeInTime(id, u) \/ SubmitChallenge(id, u))
         \/ \E n \in Nodes : RegistryChange(n)
         \/ Tick
         \/ UNCHANGED moneyVars
  PROVE  UNCHANGED <<APhase, AHeld, AAgreed, AReleased>>
<1>1. CASE \E id \in ChannelIds, u \in Updates :
             ContractStep(id) /\ (ChallengeInTime(id, u) \/ SubmitChallenge(id, u))
  <2>1. PICK id \in ChannelIds, u \in Updates :
          ContractStep(id) /\ (ChallengeInTime(id, u) \/ SubmitChallenge(id, u))
    BY <1>1
  <2>2. TypeOK /\ TypeOK' /\ channels[id] \in Channel /\ outcome' = outcome
    BY <2>1 DEF MoneyInv, TypeOK, ChallengeInTime, ChallengeClose, SubmitChallenge
  <2>3. /\ channels[id].status \in {"Open", "Challenged"}
        /\ channels'[id].status = "Challenged"
        /\ channels'[id].deposit = channels[id].deposit
    <3>1. CASE ChallengeInTime(id, u)
      <4>1. /\ channels[id].status = "Open"
            /\ channels'[id] = Contested(WithUpdate(channels[id], u),
                                         now + ChallengeWindow)
        BY <2>2, <3>1 DEF ChallengeInTime, ChallengeClose, MayChallenge, TypeOK
      <4> QED BY <2>2, <4>1 DEF Contested, WithUpdate, Channel
    <3>2. CASE SubmitChallenge(id, u)
      <4>1. /\ channels[id].status = "Challenged"
            /\ channels'[id] = WithUpdate(channels[id], u)
        BY <2>2, <3>2 DEF SubmitChallenge, TypeOK
      <4> QED BY <2>2, <4>1 DEF WithUpdate, Channel
    <3> QED BY <2>1, <3>1, <3>2
  <2>4. Phase(channels'[id]) = Phase(channels[id])
    BY <2>3 DEF Phase
  <2>5. APhase' = APhase /\ AHeld' = AHeld /\ AAgreed' = AAgreed
    <3>1. \A other \in ChannelIds :
            /\ Phase(channels'[other]) = Phase(channels[other])
            /\ channels'[other].deposit = channels[other].deposit
      BY <2>1, <2>2, <2>3, <2>4, ContractStepOther
    <3>2. APhase' = APhase
      BY <3>1 DEF APhase, Phase
    <3>3. AHeld' = AHeld
      BY <3>1 DEF AHeld
    <3>4. AAgreed' = AAgreed
      BY <2>1, ContractStepSignatures DEF AAgreed, AgreedAmounts
    <3> QED BY <3>2, <3>3, <3>4
  <2>6. AReleased' = AReleased
    BY <2>2 DEF AReleased
  <2> QED BY <2>5, <2>6
<1>2. CASE (\E n \in Nodes : RegistryChange(n)) \/ Tick \/ UNCHANGED moneyVars
  <2>1. UNCHANGED <<channels, outcome, clientSigned, nodeSigned>>
    BY <1>2 DEF RegistryChange, Tick, moneyVars
  <2> QED BY <2>1 DEF APhase, AHeld, AAgreed, AReleased, AgreedAmounts
<1> QED BY <1>1, <1>2

LEMMA PromiseStart == Init => Promise!PromiseInit
BY DEF Init, Promise!PromiseInit, Phase, NoChannel, NoOutcome, AgreedAmounts

\* Whoever calls and signs, a step is one of the promise's or changes nothing
\* the promise speaks of.
LEMMA PromiseStep ==
  ASSUME MoneyInv, MoneyInv', [AnyCall]_moneyVars
  PROVE  Promise!PromiseNext \/ UNCHANGED Promise!pvars
<1>1. CASE \E id \in ChannelIds : ContractStep(id)
  <2>1. PICK id \in ChannelIds : ContractStep(id)
    BY <1>1
  <2>2. CASE \E u \in Updates : ChallengeInTime(id, u) \/ SubmitChallenge(id, u)
    BY <2>1, <2>2, SilentStep
       DEF Promise!pvars, APhase, AHeld, AAgreed, AReleased
  <2> QED BY <2>1, <2>2, FundStep, ReleaseStep DEF ContractStep, Promise!PromiseNext
<1>2. CASE \E id \in ChannelIds : Signing(id)
  BY <1>2, AgreeStep DEF MoneyInv, Promise!PromiseNext
<1>3. CASE (\E n \in Nodes : RegistryChange(n)) \/ Tick \/ UNCHANGED moneyVars
  BY <1>3, SilentStep DEF Promise!pvars, APhase, AHeld, AAgreed, AReleased
<1> QED BY <1>1, <1>2, <1>3 DEF AnyCall

\* The contract implements the promise about money.
THEOREM ImplementsEscrowPromise == Spec => ImplementsPromise
<1>1. [Next]_vars => [AnyCall]_moneyVars
  BY DEF Next, AnyCall, vars, moneyVars
<1>2. MoneyInv /\ MoneyInv' /\ [Next]_vars => [Promise!PromiseNext]_(Promise!pvars)
  BY <1>1, PromiseStep
<1> QED BY <1>2, PromiseStart, MoneyInvariant, PTL
        DEF Spec, ImplementsPromise, Promise!PromiseSpec

(***************************************************************************)
(* The escrow.  EscrowBacksDeposits is a sum over all channels, written    *)
(* with a fold.  A fold is a recursive table of partial sums, one per      *)
(* subset of channels; what follows shows that the table exists and that a *)
(* step which changes one channel changes the total by the difference, by  *)
(* induction over the subsets.                                             *)
(***************************************************************************)
Picked(s) == CHOOSE x \in s : TRUE
SumTable(f, S, g) ==
  g = [s \in SUBSET S |->
         IF s = {} THEN 0 ELSE f[Picked(s)] + g[s \ {Picked(s)}]]

\* Induction over the naturals for a set of them.
LEMMA NatSetInduction ==
  ASSUME NEW T, 0 \in T, \A n \in Nat : n \in T => n + 1 \in T
  PROVE  Nat \subseteq T
<1> SUFFICES ASSUME Nat \ T # {} PROVE FALSE
  OBVIOUS
<1>1. PICK m \in Nat \ T : \A y \in Nat \ T : <<y, m>> \notin OpToRel(<, Nat)
  <2>1. Nat \ T \subseteq Nat
    OBVIOUS
  <2> QED BY <2>1, WFMin, NatLessThanWellFounded, Zenon
<1>2. m # 0 /\ m - 1 \in Nat /\ m - 1 \notin T
  <2>1. m # 0 /\ m - 1 \in Nat
    OBVIOUS
  <2> QED BY <2>1
<1>3. <<m - 1, m>> \in OpToRel(<, Nat)
  BY <1>2 DEF OpToRel
<1> QED BY <1>1, <1>2, <1>3

\* Induction over the subsets of a finite set, in the order a sum takes them.
LEMMA SubsetInduction ==
  ASSUME NEW S, IsFiniteSet(S), NEW T, {} \in T,
         \A s \in SUBSET S : s # {} /\ s \ {Picked(s)} \in T => s \in T
  PROVE  SUBSET S \subseteq T
<1> SUFFICES ASSUME (SUBSET S) \ T # {} PROVE FALSE
  OBVIOUS
<1>1. IsWellFoundedOn(StrictSubsetOrdering(S), SUBSET S)
  BY FS_StrictSubsetOrderingWellFounded, FS_FiniteSubsetsOfFinite
<1>2. PICK s \in (SUBSET S) \ T :
        \A y \in (SUBSET S) \ T : <<y, s>> \notin StrictSubsetOrdering(S)
  <2>1. (SUBSET S) \ T \subseteq SUBSET S
    OBVIOUS
  <2> QED BY <1>1, <2>1, WFMin, Zenon
<1>3. s # {} /\ Picked(s) \in s
  BY DEF Picked
<1>4. s \ {Picked(s)} \in (SUBSET S) \ T
  BY <1>3
<1>5. <<s \ {Picked(s)}, s>> \in StrictSubsetOrdering(S)
  <2>1. s \ {Picked(s)} \subseteq s /\ s \ {Picked(s)} # s
    BY <1>3
  <2> QED BY <2>1 DEF StrictSubsetOrdering
<1> QED BY <1>2, <1>4, <1>5

\* The partial sums of a finite array exist.
LEMMA SumTableExists ==
  ASSUME NEW S, IsFiniteSet(S), NEW f \in [S -> Int]
  PROVE  \E g \in [SUBSET S -> Int] : SumTable(f, S, g)
<1> DEFINE Small(n) == {s \in SUBSET S : Cardinality(s) <= n}
           Upto(n, g) ==
             \A s \in Small(n) :
               g[s] = IF s = {} THEN 0 ELSE f[Picked(s)] + g[s \ {Picked(s)}]
           T == {n \in Nat : \E g \in [SUBSET S -> Int] : Upto(n, g)}
<1>1. \A s \in SUBSET S :
        /\ IsFiniteSet(s) /\ Cardinality(s) \in Nat
        /\ Cardinality(s) <= Cardinality(S)
        /\ s # {} => /\ Picked(s) \in s
                     /\ Cardinality(s \ {Picked(s)}) = Cardinality(s) - 1
  <2> TAKE s \in SUBSET S
  <2>1. IsFiniteSet(s) /\ Cardinality(s) <= Cardinality(S)
    BY FS_Subset
  <2>2. s # {} => Picked(s) \in s
    BY DEF Picked
  <2> QED BY <2>1, <2>2, FS_CardinalityType, FS_RemoveElement
<1>2. 0 \in T
  <2>1. [s \in SUBSET S |-> 0] \in [SUBSET S -> Int]
    OBVIOUS
  <2>2. \A s \in Small(0) : s = {}
    <3> TAKE s \in Small(0)
    <3>1. s \in SUBSET S /\ Cardinality(s) <= 0
      OBVIOUS
    <3>2. IsFiniteSet(s) /\ Cardinality(s) \in Nat
      BY <1>1, <3>1
    <3>3. Cardinality(s) = 0
      BY <3>1, <3>2
    <3> QED BY <3>2, <3>3, FS_EmptySet
  <2> QED BY <2>1, <2>2
<1>3. \A n \in Nat : n \in T => n + 1 \in T
  <2> SUFFICES ASSUME NEW n \in Nat, n \in T PROVE n + 1 \in T
    OBVIOUS
  <2>0. PICK g \in [SUBSET S -> Int] : Upto(n, g)
    OBVIOUS
  <2> DEFINE h == [s \in SUBSET S |->
                     IF s = {} THEN 0 ELSE f[Picked(s)] + g[s \ {Picked(s)}]]
  <2>1. h \in [SUBSET S -> Int]
    <3>1. ASSUME NEW s \in SUBSET S, s # {}
          PROVE  f[Picked(s)] + g[s \ {Picked(s)}] \in Int
      <4>1. Picked(s) \in S
        BY <1>1, <3>1
      <4>2. f[Picked(s)] \in Int
        BY <4>1
      <4>3. g[s \ {Picked(s)}] \in Int
        OBVIOUS
      <4> QED BY <4>2, <4>3
    <3> QED BY <3>1
  <2>2. \A s \in Small(n) : h[s] = g[s]
    BY <2>0
  <2>3. ASSUME NEW s \in Small(n + 1), s # {}
        PROVE  h[s] = f[Picked(s)] + h[s \ {Picked(s)}]
    <3>1. s \ {Picked(s)} \in Small(n)
      BY <1>1, <2>3
    <3> QED BY <2>2, <2>3, <3>1
  <2>4. h[{}] = 0
    OBVIOUS
  <2>5. Upto(n + 1, h)
    <3> HIDE DEF h
    <3> QED BY <2>3, <2>4
  <2>6. n + 1 \in Nat
    OBVIOUS
  <2> HIDE DEF h, Upto
  <2> QED BY <2>1, <2>5, <2>6
<1>4. Cardinality(S) \in T
  <2> HIDE DEF T
  <2>1. Nat \subseteq T
    BY <1>2, <1>3, NatSetInduction
  <2> QED BY <2>1, FS_CardinalityType
<1>5. PICK g \in [SUBSET S -> Int] : Upto(Cardinality(S), g)
  BY <1>4
<1>6. SumTable(f, S, g)
  BY <1>1, <1>5 DEF SumTable
<1> QED BY <1>6

\* Changing one entry of an array changes a sum by the difference.
LEMMA SumTableChange ==
  ASSUME NEW S, IsFiniteSet(S), NEW id \in S,
         NEW f \in [S -> Int], NEW f2 \in [S -> Int],
         \A x \in S \ {id} : f2[x] = f[x],
         NEW g, SumTable(f, S, g), NEW g2, SumTable(f2, S, g2)
  PROVE  g[S] \in Int /\ g2[S] = g[S] + f2[id] - f[id]
<1> DEFINE T == {s \in SUBSET S :
                   /\ g[s] \in Int
                   /\ g2[s] = g[s] + IF id \in s THEN f2[id] - f[id] ELSE 0}
<1>1. {} \in T
  BY DEF SumTable
<1>2. \A s \in SUBSET S : s # {} /\ s \ {Picked(s)} \in T => s \in T
  <2> SUFFICES ASSUME NEW s \in SUBSET S, s # {}, s \ {Picked(s)} \in T
               PROVE  s \in T
    OBVIOUS
  <2>1. Picked(s) \in s /\ Picked(s) \in S
    BY DEF Picked
  <2>2. g[s] = f[Picked(s)] + g[s \ {Picked(s)}]
        /\ g2[s] = f2[Picked(s)] + g2[s \ {Picked(s)}]
    BY DEF SumTable
  <2>3. CASE Picked(s) = id
    BY <2>1, <2>2, <2>3
  <2>4. CASE Picked(s) # id
    BY <2>1, <2>2, <2>4
  <2> QED BY <2>3, <2>4
<1>3. S \in T
  <2> HIDE DEF T
  <2> QED BY <1>1, <1>2, SubsetInduction
<1> QED BY <1>3

\* The sum of EscrowBacksDeposits, for channel records c.
DepositTotal(c, S) == MapThenSumSet(LAMBDA x : c[x].deposit, S)

LEMMA EscrowIsTotal ==
  /\ EscrowBacksDeposits <=> escrowed = DepositTotal(channels, ChannelIds)
  /\ EscrowBacksDeposits' <=> escrowed' = DepositTotal(channels', ChannelIds)
  BY DEF EscrowBacksDeposits, DepositTotal, MapThenSumSet, MapThenFoldSet

\* The sum a model writes down is an entry of the table of partial sums.
LEMMA SumIsTabled ==
  ASSUME NEW S, IsFiniteSet(S), NEW c, NEW f \in [S -> Int],
         \A x \in S : f[x] = c[x].deposit
  PROVE  \E g : SumTable(f, S, g)
                /\ DepositTotal(c, S) = g[S]
<1> DEFINE Tabled(g) == g = [s \in SUBSET S |->
             IF s = {} THEN 0
             ELSE c[Picked(s)].deposit + g[s \ {Picked(s)}]]
<1>1. \A s \in SUBSET S : s # {} => Picked(s) \in S
  BY DEF Picked
<1>2. \A g : Tabled(g) <=> SumTable(f, S, g)
  BY <1>1 DEF SumTable
<1>3. \E g : Tabled(g)
  <2> HIDE DEF Tabled
  <2> QED BY <1>2, SumTableExists
<1>4. \E g : Tabled(g)
             /\ DepositTotal(c, S) = g[S]
  BY <1>3 DEF DepositTotal, MapThenSumSet, MapThenFoldSet, Picked
<1> QED BY <1>2, <1>4

\* No entry of a sum of natural numbers exceeds the total.
LEMMA SumCoversEach ==
  ASSUME NEW S, IsFiniteSet(S), NEW f \in [S -> Nat],
         NEW g, SumTable(f, S, g)
  PROVE  \A x \in S : f[x] <= g[S]
<1> DEFINE T == {s \in SUBSET S : g[s] \in Nat /\ \A x \in s : f[x] <= g[s]}
<1>1. {} \in T
  BY DEF SumTable
<1>2. \A s \in SUBSET S : s # {} /\ s \ {Picked(s)} \in T => s \in T
  <2> SUFFICES ASSUME NEW s \in SUBSET S, s # {}, s \ {Picked(s)} \in T
               PROVE  s \in T
    OBVIOUS
  <2>1. Picked(s) \in s /\ f[Picked(s)] \in Nat
    BY DEF Picked
  <2>2. g[s] = f[Picked(s)] + g[s \ {Picked(s)}]
    BY DEF SumTable
  <2>3. g[s] \in Nat
    BY <2>1, <2>2
  <2>4. ASSUME NEW x \in s PROVE f[x] <= g[s]
    <3>1. g[s \ {Picked(s)}] \in Nat
      OBVIOUS
    <3>2. CASE x = Picked(s)
      BY <2>1, <2>2, <3>1, <3>2
    <3>3. CASE x # Picked(s)
      <4>1. x \in s \ {Picked(s)} /\ f[x] \in Nat
        BY <3>3
      <4>2. f[x] <= g[s \ {Picked(s)}]
        BY <4>1
      <4> QED BY <2>1, <2>2, <3>1, <4>1, <4>2
    <3> QED BY <3>2, <3>3
  <2> QED BY <2>3, <2>4
<1>3. S \in T
  <2> HIDE DEF T
  <2> QED BY <1>1, <1>2, SubsetInduction
<1> QED BY <1>3

LEMMA FiniteChannelIds == IsFiniteSet(ChannelIds)
<1>1. IsFiniteSet(Clients \X (Nodes \X ChannelNonces))
  BY FiniteAssumption, FS_Product
<1> DEFINE Pairs == Clients \X (Nodes \X ChannelNonces)
           flat == [p \in Pairs |-> <<p[1], p[2][1], p[2][2]>>]
<1>2. flat \in Surjection(Pairs, ChannelIds)
  <2>1. flat \in [Pairs -> ChannelIds]
    BY DEF ChannelIds
  <2>2. ASSUME NEW id \in ChannelIds PROVE \E p \in Pairs : flat[p] = id
    <3>1. PICK c \in Clients, n \in Nodes, k \in ChannelNonces : id = <<c, n, k>>
      BY DEF ChannelIds
    <3>2. <<c, <<n, k>>>> \in Pairs /\ flat[<<c, <<n, k>>>>] = id
      BY <3>1
    <3> QED BY <3>2
  <2> QED BY <2>1, <2>2 DEF Surjection
<1> QED BY <1>1, <1>2, FS_Surjection

\* What the contract must hold for a set c of channel records.
DepositOf(c) == [id \in ChannelIds |-> c[id].deposit]

\* A call that changes one channel and moves as much into or out of the
\* contract as it adds to or takes from that channel's deposit.
LEMMA EscrowMoves ==
  ASSUME TypeOK, TypeOK', EscrowBacksDeposits, NEW id \in ChannelIds,
         \A x \in ChannelIds \ {id} : channels'[x] = channels[x],
         escrowed' = escrowed + channels'[id].deposit - channels[id].deposit
  PROVE  EscrowBacksDeposits'
<1> DEFINE f == DepositOf(channels)
           f2 == DepositOf(channels')
<1>1. f \in [ChannelIds -> Int] /\ f2 \in [ChannelIds -> Int]
  BY DEF DepositOf, TypeOK, Channel
<1>2. \A x \in ChannelIds : f[x] = channels[x].deposit /\ f2[x] = channels'[x].deposit
  BY DEF DepositOf
<1> HIDE DEF f, f2
<1>3. PICK g : SumTable(f, ChannelIds, g)
               /\ DepositTotal(channels, ChannelIds) = g[ChannelIds]
  BY <1>1, <1>2, SumIsTabled, FiniteChannelIds
<1>4. PICK g2 : SumTable(f2, ChannelIds, g2)
               /\ DepositTotal(channels', ChannelIds) = g2[ChannelIds]
  BY <1>1, <1>2, SumIsTabled, FiniteChannelIds
<1>5. \A x \in ChannelIds \ {id} : f2[x] = f[x]
  BY <1>2
<1>6. g2[ChannelIds] = g[ChannelIds] + f2[id] - f[id]
  BY <1>1, <1>3, <1>4, <1>5, SumTableChange, FiniteChannelIds
<1>7. f2[id] = channels'[id].deposit /\ f[id] = channels[id].deposit
  BY <1>2
<1> QED BY <1>3, <1>4, <1>6, <1>7, EscrowIsTotal

\* What a settlement of c, or a reclaim, takes out of the contract.
LEMMA SettleEscrow ==
  ASSUME TypeOK, NEW id \in ChannelIds, NEW c \in Channel, NEW tx,
         Settle(id, c, tx), c.deposit = channels[id].deposit
  PROVE  /\ \A x \in ChannelIds \ {id} : channels'[x] = channels[x]
         /\ escrowed' = escrowed + channels'[id].deposit - channels[id].deposit
<1>1. channels'[id] = Ended(c) /\ \A x \in ChannelIds \ {id} : channels'[x] = channels[x]
  BY DEF Settle, TypeOK
<1>2. channels'[id].deposit = 0
  BY <1>1 DEF Ended, Channel
<1>3. escrowed' = escrowed - PaidToNode(c) - (c.deposit - PaidToNode(c))
  BY DEF Settle
<1>4. PaidToNode(c) \in Nat /\ c.deposit \in Nat /\ escrowed \in Int
  BY ShareBounded DEF Channel, TypeOK
<1> QED BY <1>1, <1>2, <1>3, <1>4

\* Every function of the contract moves what it writes into the record.
LEMMA ContractStepEscrow ==
  ASSUME MoneyInv, NEW id \in ChannelIds, ContractStep(id)
  PROVE  /\ \A x \in ChannelIds \ {id} : channels'[x] = channels[x]
         /\ escrowed' = escrowed + channels'[id].deposit - channels[id].deposit
<1> DEFINE c == channels[id]
<1>0. /\ TypeOK /\ c \in Channel /\ c.deposit \in Nat /\ escrowed \in Int
      /\ c.status = "None" => c.deposit = 0
  BY DEF MoneyInv, ChannelInv, TypeOK, Channel
<1>1. CASE \E amount \in Amounts : OpenInTime(id, amount)
  <2>1. PICK amount \in Amounts : OpenChannel(id, amount)
    BY <1>1 DEF OpenInTime
  <2>2. /\ channels'[id] = Opened(c, amount, now)
        /\ \A x \in ChannelIds \ {id} : channels'[x] = channels[x]
        /\ c.deposit = 0 /\ escrowed' = escrowed + amount
    BY <2>1, <1>0 DEF OpenChannel, MayOpen, PullIn, TypeOK
  <2>3. Opened(c, amount, now).deposit = amount /\ amount \in Nat
    BY <1>0, ConstantsAssumption DEF Opened, Channel
  <2> QED BY <1>0, <2>2, <2>3
<1>2. CASE \E payer \in Accounts, amount \in Amounts : TopUp(payer, id, amount)
  <2>1. PICK payer \in Accounts, amount \in Amounts : TopUp(payer, id, amount)
    BY <1>2
  <2>2. /\ channels'[id] = ToppedUp(c, amount)
        /\ \A x \in ChannelIds \ {id} : channels'[x] = channels[x]
        /\ escrowed' = escrowed + amount
    BY <2>1, <1>0 DEF TopUp, PullIn, TypeOK
  <2>3. ToppedUp(c, amount).deposit = c.deposit + amount /\ amount \in Nat
    BY <1>0, ConstantsAssumption DEF ToppedUp, Channel
  <2> QED BY <1>0, <2>2, <2>3
<1>3. CASE \E u \in Updates : CooperativeClose(id, u)
  <2>1. PICK u \in Updates : CooperativeClose(id, u)
    BY <1>3
  <2>2. WithUpdate(c, u) \in Channel /\ WithUpdate(c, u).deposit = c.deposit
    BY <1>0, WithUpdateType DEF WithUpdate, Channel
  <2> QED BY <1>0, <2>1, <2>2, SettleEscrow DEF CooperativeClose
<1>4. CASE \E u \in Updates : ChallengeInTime(id, u) \/ SubmitChallenge(id, u)
  <2>1. PICK u \in Updates : ChallengeClose(id, u) \/ SubmitChallenge(id, u)
    BY <1>4 DEF ChallengeInTime
  <2>2. /\ escrowed' = escrowed
        /\ \A x \in ChannelIds \ {id} : channels'[x] = channels[x]
        /\ \/ channels'[id] = Contested(WithUpdate(c, u), now + ChallengeWindow)
           \/ channels'[id] = WithUpdate(c, u)
    BY <2>1, <1>0 DEF ChallengeClose, SubmitChallenge, TypeOK
  <2>3. /\ WithUpdate(c, u).deposit = c.deposit
        /\ Contested(WithUpdate(c, u), now + ChallengeWindow).deposit = c.deposit
    BY <1>0 DEF WithUpdate, Contested, Channel
  <2> QED BY <1>0, <2>2, <2>3
<1>5. CASE Finalize(id)
  BY <1>0, <1>5, SettleEscrow DEF Finalize
<1>6. CASE Reclaim(id)
  <2>1. /\ channels'[id] = Ended(c) /\ escrowed' = escrowed - c.deposit
        /\ \A x \in ChannelIds \ {id} : channels'[x] = channels[x]
    BY <1>0, <1>6 DEF Reclaim, TypeOK
  <2>2. Ended(c).deposit = 0
    BY <1>0 DEF Ended, Channel
  <2> QED BY <1>0, <2>1, <2>2
<1> QED BY <1>1, <1>2, <1>3, <1>4, <1>5, <1>6 DEF ContractStep

LEMMA InitEscrow == Init => EscrowBacksDeposits
<1> SUFFICES ASSUME Init PROVE EscrowBacksDeposits
  OBVIOUS
<1> DEFINE f == [id \in ChannelIds |-> 0]
<1>1. f \in [ChannelIds -> Int] /\ \A x \in ChannelIds : f[x] = channels[x].deposit
  BY DEF Init, NoChannel
<1>2. \A x \in ChannelIds : f[x] = 0
  OBVIOUS
<1> HIDE DEF f
<1>3. PICK g : SumTable(f, ChannelIds, g)
               /\ DepositTotal(channels, ChannelIds) = g[ChannelIds]
  BY <1>1, SumIsTabled, FiniteChannelIds
<1> DEFINE T == {s \in SUBSET ChannelIds : g[s] = 0}
<1>4. {} \in T
  BY <1>3 DEF SumTable
<1>5. \A s \in SUBSET ChannelIds : s # {} /\ s \ {Picked(s)} \in T => s \in T
  <2> SUFFICES ASSUME NEW s \in SUBSET ChannelIds, s # {}, s \ {Picked(s)} \in T
               PROVE  s \in T
    OBVIOUS
  <2>1. f[Picked(s)] = 0
    BY <1>2 DEF Picked
  <2>2. g[s] = f[Picked(s)] + g[s \ {Picked(s)}]
    BY <1>3 DEF SumTable
  <2> QED BY <2>1, <2>2
<1>6. ChannelIds \in T
  <2> HIDE DEF T
  <2> QED BY <1>4, <1>5, SubsetInduction, FiniteChannelIds
<1> QED BY <1>3, <1>6, EscrowIsTotal DEF Init

LEMMA EscrowStep ==
  MoneyInv /\ MoneyInv' /\ EscrowBacksDeposits /\ [Next]_vars => EscrowBacksDeposits'
<1> SUFFICES ASSUME MoneyInv, MoneyInv', EscrowBacksDeposits, [Next]_vars
             PROVE  EscrowBacksDeposits'
  OBVIOUS
<1>1. CASE \E id \in ChannelIds : ContractStep(id)
  BY <1>1, ContractStepEscrow, EscrowMoves DEF MoneyInv
<1>2. CASE UNCHANGED <<channels, escrowed>>
  BY <1>2, EscrowIsTotal
<1> QED BY <1>1, <1>2 DEF Next, Signing, ClientSigns, NodeSigns, RegistryChange, Tick, vars

\* The USDC the contract holds is at every moment the sum of what its channels
\* say they hold, whatever calls openChannel, topUp, cooperativeClose,
\* challengeClose, submitChallenge, finalize and reclaim received.
THEOREM EscrowAlwaysBacks == Spec => []EscrowBacksDeposits
  BY InitEscrow, EscrowStep, MoneyInvariant, PTL DEF Spec

EachDepositCovered ==
  \A id \in ChannelIds : channels[id].deposit <= escrowed

\* So the transfers of _settle and reclaim never ask for more than the
\* contract has: each channel's deposit alone is covered.
THEOREM DepositsAlwaysCovered == Spec => []EachDepositCovered
<1>1. TypeOK /\ EscrowBacksDeposits => EachDepositCovered
  <2> SUFFICES ASSUME TypeOK, EscrowBacksDeposits PROVE EachDepositCovered
    OBVIOUS
  <2> DEFINE f == DepositOf(channels)
  <2>1. /\ f \in [ChannelIds -> Nat] /\ f \in [ChannelIds -> Int]
        /\ \A x \in ChannelIds : f[x] = channels[x].deposit
    BY DEF DepositOf, TypeOK, Channel
  <2> HIDE DEF f
  <2>2. PICK g : SumTable(f, ChannelIds, g)
                 /\ DepositTotal(channels, ChannelIds) = g[ChannelIds]
    BY <2>1, SumIsTabled, FiniteChannelIds
  <2>3. \A x \in ChannelIds : f[x] <= g[ChannelIds]
    BY <2>1, <2>2, SumCoversEach, FiniteChannelIds
  <2> QED BY <2>1, <2>2, <2>3, EscrowIsTotal DEF EachDepositCovered
<1> QED BY <1>1, TypeCorrect, EscrowAlwaysBacks, PTL

---------------------------------------------------------------------------
(* Time.                                                                   *)

DeadlineInReach(id) ==
  LET c == channels[id]
  IN  /\ c.status = "Open" =>
           c.openedAt <= now /\ c.openedAt + ReclaimTimeout <= MaxTime
      /\ c.status = "Challenged" =>
           c.challengeDeadline <= now + ChallengeWindow /\ c.challengeDeadline <= MaxTime

\* No call of anyone puts the end of a challenge, or the time from which a
\* client may reclaim, further away than one window or one timeout from now,
\* and the clock of the model is never too short for either: topUp does not
\* renew openedAt nor submitChallenge challengeDeadline.
DeadlinesInReach == \A id \in ChannelIds : DeadlineInReach(id)

LEMMA CallsKeepDeadlines ==
  ASSUME TypeOK, NEW id \in ChannelIds, DeadlineInReach(id), ContractStep(id)
  PROVE  DeadlineInReach(id)'
<1> DEFINE c == channels[id]
<1>0. /\ c \in Channel
      /\ \A d : channels' = [channels EXCEPT ![id] = d] => channels'[id] = d
      /\ now \in Nat
  BY DEF TypeOK
<1>1. ASSUME NEW u \in Updates
      PROVE  /\ WithUpdate(c, u) \in Channel
             /\ WithUpdate(c, u).status = c.status
             /\ WithUpdate(c, u).challengeDeadline = c.challengeDeadline
  BY <1>0, WithUpdateType DEF WithUpdate, Channel
<1>2. ASSUME NEW d \in Channel, NEW tx \in Closers, Settle(id, d, tx)
      PROVE  DeadlineInReach(id)'
  <2>1. channels'[id].status = "Closed"
    BY <1>0, <1>2 DEF Settle, Ended, Channel
  <2> QED BY <2>1 DEF DeadlineInReach
<1>3. CASE \E amount \in Amounts : OpenInTime(id, amount)
  <2>1. PICK amount \in Amounts : OpenInTime(id, amount)
    BY <1>3
  <2>2. channels'[id] = Opened(c, amount, now) /\ now' = now
        /\ now + ReclaimTimeout <= MaxTime
    BY <1>0, <2>1 DEF OpenInTime, OpenChannel
  <2>3. channels'[id].status = "Open" /\ channels'[id].openedAt = now
    BY <1>0, <2>2 DEF Opened, Channel
  <2> QED BY <1>0, <2>2, <2>3 DEF DeadlineInReach
<1>4. CASE \E payer \in Accounts, amount \in Amounts : TopUp(payer, id, amount)
  <2>1. PICK amount \in Amounts : /\ channels'[id] = ToppedUp(c, amount)
                                  /\ now' = now
    BY <1>0, <1>4 DEF TopUp
  <2>2. /\ channels'[id].status = c.status
        /\ channels'[id].openedAt = c.openedAt
        /\ channels'[id].challengeDeadline = c.challengeDeadline
    BY <1>0, <2>1 DEF ToppedUp, Channel
  <2> QED BY <2>1, <2>2 DEF DeadlineInReach
<1>5. CASE \E u \in Updates : CooperativeClose(id, u)
  BY <1>1, <1>2, <1>5 DEF CooperativeClose, Closers
<1>6. CASE \E u \in Updates : ChallengeInTime(id, u)
  <2>1. PICK u \in Updates : ChallengeInTime(id, u)
    BY <1>6
  <2>2. channels'[id] = Contested(WithUpdate(c, u), now + ChallengeWindow)
        /\ now' = now /\ now + ChallengeWindow <= MaxTime
    BY <1>0, <2>1 DEF ChallengeInTime, ChallengeClose
  <2>3. /\ channels'[id].status = "Challenged"
        /\ channels'[id].challengeDeadline = now + ChallengeWindow
    BY <1>1, <2>2 DEF Contested, Channel
  <2> QED BY <2>2, <2>3, <1>0, ConstantsAssumption DEF DeadlineInReach
<1>7. CASE \E u \in Updates : SubmitChallenge(id, u)
  <2>1. PICK u \in Updates : channels'[id] = WithUpdate(c, u) /\ now' = now
                             /\ c.status = "Challenged"
    BY <1>0, <1>7 DEF SubmitChallenge
  <2> QED BY <1>1, <2>1 DEF DeadlineInReach
<1>8. CASE Finalize(id)
  BY <1>0, <1>2, <1>8 DEF Finalize, Closers
<1>9. CASE Reclaim(id)
  <2>1. channels'[id] = Ended(c)
    BY <1>0, <1>9 DEF Reclaim
  <2>2. channels'[id].status = "Closed"
    BY <1>0, <2>1 DEF Ended, Channel
  <2> QED BY <2>2 DEF DeadlineInReach
<1> QED BY <1>3, <1>4, <1>5, <1>6, <1>7, <1>8, <1>9 DEF ContractStep

LEMMA TimePasses ==
  ASSUME TypeOK, NEW id \in ChannelIds, DeadlineInReach(id),
         channels'[id] = channels[id], now' \in {now, now + 1}
  PROVE  DeadlineInReach(id)'
<1>1. /\ channels[id].openedAt \in Nat /\ channels[id].challengeDeadline \in Nat
      /\ now \in Nat /\ ChallengeWindow \in Nat
  BY ConstantsAssumption DEF TypeOK, Channel
<1> QED BY <1>1 DEF DeadlineInReach

LEMMA NowMoves ==
  ASSUME TypeOK, Next
  PROVE  /\ now' \in {now, now + 1}
         /\ (\E id \in ChannelIds : ContractStep(id)) => now' = now
BY DEF Next, Signing, ClientSigns, NodeSigns, RegistryChange, Tick,
       ContractStep, OpenInTime, OpenChannel, TopUp, CooperativeClose,
       ChallengeInTime, ChallengeClose, SubmitChallenge, Finalize, Reclaim

\* Whatever anybody calls, a challenge ends within one window of now and a
\* channel nobody challenges may be reclaimed within one timeout of its
\* opening: what ChallengeResolves and DepositReleased need of the contract.
THEOREM DeadlinesStayInReach == Spec => []DeadlinesInReach
<1>1. Init => DeadlinesInReach
  BY DEF Init, NoChannel, DeadlinesInReach, DeadlineInReach
<1>2. TypeOK /\ DeadlinesInReach /\ [Next]_vars => DeadlinesInReach'
  <2> SUFFICES ASSUME TypeOK, DeadlinesInReach, [Next]_vars, NEW id \in ChannelIds
               PROVE  DeadlineInReach(id)'
    BY DEF DeadlinesInReach
  <2>1. DeadlineInReach(id)
    BY DEF DeadlinesInReach
  <2>2. CASE ContractStep(id)
    BY <2>1, <2>2, CallsKeepDeadlines
  <2>3. CASE UNCHANGED vars
    BY <2>1, <2>3, TimePasses DEF vars
  <2>4. CASE Next /\ ~ContractStep(id)
    <3>1. channels'[id] = channels[id]
      BY <2>4, ContractStepOther, EnvironmentFrame DEF Next
    <3> QED BY <2>1, <2>4, <3>1, NowMoves, TimePasses
  <2> QED BY <2>2, <2>3, <2>4
<1> QED BY <1>1, <1>2, TypeCorrect, PTL DEF Spec
=============================================================================

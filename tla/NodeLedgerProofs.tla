-------------------------- MODULE NodeLedgerProofs --------------------------
(***************************************************************************)
(* Proofs about NodeLedger, for every number of overlapping requests, all  *)
(* costs, deposits and wallets: types, the order of receipts, the count of *)
(* round trips, the fixed client, and the bound on the overshoot.          *)
(***************************************************************************)
EXTENDS NodeLedger, FiniteSetTheorems, TLAPS

---------------------------------------------------------------------------
(* Types.                                                                  *)

LEMMA IdleTyped == Idle \in Exec
BY DEF Idle, Exec, Replies

LEMMA FreshTyped == Fresh \in Entry
BY DEF Fresh, Entry

\* The verdict of the solvency check leaves a well-formed call that waits for
\* no answer of the chain.
LEMMA DecideTyped ==
  ASSUME NEW exec \in Exec, NEW deposit \in Nat
  PROVE  Decide(exec, deposit) \in Exec /\ Decide(exec, deposit).phase # "fetched"
BY DEF Decide, Verdict, Exec, Replies

LEMMA WithAckTyped ==
  ASSUME NEW e \in Entry, NEW ack \in Ack
  PROVE  WithAck(e, ack) \in Entry
BY DEF WithAck, Entry, Ack

LEMMA PossibleAcksTyped ==
  ASSUME TypeOK
  PROVE  PossibleAcks \subseteq Ack
BY LedgerAssumption DEF TypeOK, PossibleAcks, Ack, Update

LEMMA TypeStep ==
  ASSUME TypeOK, [Next]_vars
  PROVE  TypeOK'
<1> USE DEF TypeOK
<1>1. ASSUME NEW r \in Requests, NEW ack \in PossibleAcks \cup {NoAck}, Arrive(r, ack)
      PROVE  TypeOK'
  <2> DEFINE read == [Idle EXCEPT !.ack = ack, !.cum = entry.cumOwed]
             next == IF entry.deposit = NoDeposit THEN [read EXCEPT !.phase = "fetching"]
                     ELSE Decide(read, entry.deposit)
  <2>1. ack \in Ack \cup {NoAck} /\ entry.cumOwed \in Nat
        /\ entry.deposit \in Nat \cup {NoDeposit}
    BY <1>1, PossibleAcksTyped DEF Entry
  <2>2. read \in Exec /\ [read EXCEPT !.phase = "fetching"] \in Exec
    BY <2>1, IdleTyped DEF Exec
  <2>3. next \in Exec /\ next.phase # "fetched"
    BY <2>1, <2>2, DecideTyped DEF Exec
  <2>4. execs' = [execs EXCEPT ![r] = next]
    BY <1>1 DEF Arrive
  <2>5. execs' \in [Requests -> Exec]
        /\ \A s \in Requests : execs'[s].phase = "fetched" => execs'[s].seen \in Nat
    BY <2>3, <2>4
  <2> QED BY <1>1, <2>5 DEF Arrive
<1>2. ASSUME NEW r \in Requests, FetchDeposit(r)
      PROVE  TypeOK'
  <2>1. Fetched(execs[r]) \in Exec /\ Fetched(execs[r]).seen \in Nat
    BY DEF Fetched, Exec
  <2> QED BY <1>2, <2>1 DEF FetchDeposit
<1>3. ASSUME NEW r \in Requests, CacheDeposit(r)
      PROVE  TypeOK'
  <2>1. execs[r].seen \in Nat /\ execs[r] \in Exec
    BY <1>3 DEF CacheDeposit
  <2>2. Decide(execs[r], execs[r].seen) \in Exec
        /\ Decide(execs[r], execs[r].seen).phase # "fetched"
    BY <2>1, DecideTyped
  <2>3. entry' \in Entry
    BY <1>3, <2>1 DEF CacheDeposit, Entry
  <2>4. execs' = [execs EXCEPT ![r] = Decide(execs[r], execs[r].seen)]
    BY <1>3 DEF CacheDeposit
  <2> QED BY <1>3, <2>2, <2>3, <2>4 DEF CacheDeposit
<1>4. ASSUME NEW r \in Requests, CallFails(r)
      PROVE  TypeOK'
  <2>1. [execs[r] EXCEPT !.phase = "replied", !.reply = "error"] \in Exec
    BY DEF Exec, Replies
  <2> QED BY <1>4, <2>1 DEF CallFails, Exec
<1>5. ASSUME NEW r \in Requests, NEW cost \in Costs, StepSucceeds(r, cost)
      PROVE  TypeOK'
  <2>1. cost \in Nat /\ execs[r] \in Exec
    BY LedgerAssumption
  <2> DEFINE exec == execs[r]
             update == NextUpdate(entry, exec, cost)
             acked == IF exec.ack = NoAck THEN entry ELSE WithAck(entry, exec.ack)
  <2>2. update \in Update
    BY <2>1 DEF NextUpdate, Entry, Update
  <2>3. CASE exec.ack # NoAck /\ ~AckAccepted(entry, exec.ack)
    <3>1. [exec EXCEPT !.phase = "replied", !.reply = "badAck"] \in Exec
      BY <2>1 DEF Exec, Replies
    <3>2. /\ execs' = [execs EXCEPT ![r] =
                         [exec EXCEPT !.phase = "replied", !.reply = "badAck"]]
          /\ UNCHANGED <<entry, issued, billed, life, deposited>>
          /\ work' = work + cost
      BY <1>5, <2>3 DEF StepSucceeds
    <3> QED BY <2>1, <3>1, <3>2 DEF Exec
  <2>4. CASE ~(exec.ack # NoAck /\ ~AckAccepted(entry, exec.ack))
    <3>1. /\ entry' = [acked EXCEPT !.nonce = update.nonce, !.cumOwed = update.cumOwed]
          /\ issued' = issued \cup {[life |-> life, update |-> update]}
          /\ billed' = billed + cost
          /\ execs' = [execs EXCEPT ![r] =
               [exec EXCEPT !.phase = "replied", !.reply = "receipt", !.receipt = update]]
          /\ work' = work + cost
          /\ UNCHANGED <<life, deposited>>
      BY <1>5, <2>4 DEF StepSucceeds
    <3>2. acked \in Entry
      BY <2>1, WithAckTyped DEF Exec
    <3>3. entry' \in Entry
      BY <2>2, <3>1, <3>2 DEF Entry, Update
    <3>4. [exec EXCEPT !.phase = "replied", !.reply = "receipt", !.receipt = update]
            \in Exec
      BY <2>1, <2>2 DEF Exec, Replies
    <3>5. execs' \in [Requests -> Exec]
          /\ \A s \in Requests : execs'[s].phase = "fetched" => execs'[s].seen \in Nat
      BY <3>1, <3>4 DEF Exec
    <3> QED BY <2>1, <2>2, <3>1, <3>3, <3>5
  <2> QED BY <2>3, <2>4
<1>6. ASSUME NEW r \in Requests, Respond(r)
      PROVE  TypeOK'
  BY <1>6, IdleTyped DEF Respond, Idle
<1>7. ASSUME NEW ack \in PossibleAcks, PostAck(ack)
      PROVE  TypeOK'
  <2>1. entry' \in Entry
    BY <1>7, PossibleAcksTyped, WithAckTyped DEF PostAck
  <2> QED BY <1>7, <2>1 DEF PostAck
<1>8. CASE Restart
  BY <1>8, IdleTyped, FreshTyped DEF Restart, Idle
<1>9. CASE ChainChange
  BY <1>9, LedgerAssumption DEF ChainChange
<1>10. CASE UNCHANGED vars
  BY <1>10 DEF vars
<1> QED
  BY <1>1, <1>2, <1>3, <1>4, <1>5, <1>6, <1>7, <1>8, <1>9, <1>10 DEF Next, Execute

\* Every field keeps its type, whatever wallets sign and however calls
\* overlap: no amount is ever negative, and what is cached is a deposit.
THEOREM LedgerTypeCorrect == Spec => []TypeOK
<1>1. Init => TypeOK
  BY IdleTyped, FreshTyped DEF Init, TypeOK, Idle
<1>2. TypeOK /\ [Next]_vars => TypeOK'
  BY TypeStep
<1> QED BY <1>1, <1>2, PTL DEF Spec

---------------------------------------------------------------------------
(* Receipts.  Only a receipt and a restart move nonce and cum_owed.        *)

Bumped(cost) ==
  /\ entry'.nonce = entry.nonce + 1
  /\ entry'.cumOwed = entry.cumOwed + cost
  /\ issued' = issued \cup
       {[life |-> life, update |-> [nonce |-> entry.nonce + 1,
                                    cumOwed |-> entry.cumOwed + cost]]}
  /\ billed' = billed + cost
  /\ life' = life
Quiet ==
  /\ entry'.nonce = entry.nonce
  /\ entry'.cumOwed = entry.cumOwed
  /\ UNCHANGED <<issued, billed, life>>

LEMMA StepEffect ==
  ASSUME TypeOK, NEW r \in Requests, NEW cost \in Costs, StepSucceeds(r, cost)
  PROVE  Quiet \/ Bumped(cost)
<1> DEFINE exec == execs[r]
           update == NextUpdate(entry, exec, cost)
           acked == IF exec.ack = NoAck THEN entry ELSE WithAck(entry, exec.ack)
<1>1. entry \in Entry /\ exec \in Exec
  BY DEF TypeOK
<1>2. CASE exec.ack # NoAck /\ ~AckAccepted(entry, exec.ack)
  <2>1. UNCHANGED <<entry, issued, billed, life>>
    BY <1>2 DEF StepSucceeds
  <2> QED BY <2>1 DEF Quiet
<1>3. CASE ~(exec.ack # NoAck /\ ~AckAccepted(entry, exec.ack))
  <2>1. /\ entry' = [acked EXCEPT !.nonce = update.nonce, !.cumOwed = update.cumOwed]
        /\ issued' = issued \cup {[life |-> life, update |-> update]}
        /\ billed' = billed + cost
        /\ life' = life
    BY <1>3 DEF StepSucceeds
  <2>2. acked \in Entry
    BY <1>1, WithAckTyped DEF Exec
  <2>3. update = [nonce |-> entry.nonce + 1, cumOwed |-> entry.cumOwed + cost]
    BY DEF NextUpdate
  <2>4. entry'.nonce = update.nonce /\ entry'.cumOwed = update.cumOwed
    BY <2>1, <2>2 DEF Entry
  <2> QED BY <2>1, <2>3, <2>4 DEF Bumped
<1> QED BY <1>2, <1>3

LEMMA LedgerEffect ==
  ASSUME TypeOK, [Next]_vars
  PROVE  Quiet \/ (\E cost \in Costs : Bumped(cost)) \/ Restart
<1>1. ASSUME NEW r \in Requests, NEW ack \in PossibleAcks \cup {NoAck}, Arrive(r, ack)
      PROVE  Quiet
  BY <1>1 DEF Arrive, Quiet
<1>2. ASSUME NEW r \in Requests, FetchDeposit(r)
      PROVE  Quiet
  BY <1>2 DEF FetchDeposit, Quiet
<1>3. ASSUME NEW r \in Requests, CacheDeposit(r)
      PROVE  Quiet
  BY <1>3 DEF CacheDeposit, Quiet, TypeOK, Entry
<1>4. ASSUME NEW r \in Requests, CallFails(r)
      PROVE  Quiet
  BY <1>4 DEF CallFails, Quiet
<1>5. ASSUME NEW r \in Requests, NEW cost \in Costs, StepSucceeds(r, cost)
      PROVE  Quiet \/ Bumped(cost)
  BY <1>5, StepEffect
<1>6. ASSUME NEW r \in Requests, Respond(r)
      PROVE  Quiet
  BY <1>6 DEF Respond, Quiet
<1>7. ASSUME NEW ack \in PossibleAcks, PostAck(ack)
      PROVE  Quiet
  BY <1>7 DEF PostAck, WithAck, Quiet, TypeOK, Entry
<1>8. CASE ChainChange
  BY <1>8 DEF ChainChange, Quiet
<1>9. CASE UNCHANGED vars
  BY <1>9 DEF vars, Quiet
<1> QED
  BY <1>1, <1>2, <1>3, <1>4, <1>5, <1>6, <1>7, <1>8, <1>9 DEF Next, Execute

\* cum_owed is the sum of the round trips receipted since the node started,
\* however their calls overlapped: build_receipt adds to what the entry holds
\* then, not to what the solvency check read.
THEOREM EveryTripAlwaysCounted == Spec => []EveryTripCounted
<1>1. Init => EveryTripCounted
  BY DEF Init, Fresh, EveryTripCounted
<1>2. ASSUME TypeOK, EveryTripCounted, [Next]_vars
      PROVE  EveryTripCounted'
  <2>1. CASE Quiet
    BY <1>2, <2>1 DEF Quiet, EveryTripCounted
  <2>2. ASSUME NEW cost \in Costs, Bumped(cost)
        PROVE  EveryTripCounted'
    BY <1>2, <2>2 DEF Bumped, EveryTripCounted
  <2>3. CASE Restart
    BY <2>3 DEF Restart, Fresh, EveryTripCounted
  <2> QED BY <1>2, <2>1, <2>2, <2>3, LedgerEffect
<1> QED BY <1>1, <1>2, LedgerTypeCorrect, PTL DEF Spec

\* ReceiptsInOrder needs to know that no receipt belongs to a later lifetime:
\* a restart begins a lifetime that has none.
NoneFromLaterLives == \A a \in issued : a.life <= life

LEMMA ReceiptsStep ==
  ASSUME TypeOK, ReceiptsInOrder, NoneFromLaterLives, [Next]_vars
  PROVE  ReceiptsInOrder' /\ NoneFromLaterLives'
<1> USE DEF ReceiptsInOrder, NoneFromLaterLives
<1>1. /\ issued \subseteq [life : Nat, update : Update] /\ life \in Nat
      /\ entry.nonce \in Nat /\ entry.cumOwed \in Nat
  BY DEF TypeOK, Entry
<1>2. CASE Quiet
  BY <1>2 DEF Quiet
<1>3. ASSUME NEW cost \in Costs, Bumped(cost)
      PROVE  ReceiptsInOrder' /\ NoneFromLaterLives'
  <2> DEFINE new == [life |-> life, update |-> [nonce |-> entry.nonce + 1,
                                               cumOwed |-> entry.cumOwed + cost]]
  <2>1. cost \in Nat
    BY LedgerAssumption
  <2>2. /\ issued' = issued \cup {new} /\ life' = life
        /\ entry'.nonce = entry.nonce + 1 /\ entry'.cumOwed = entry.cumOwed + cost
    BY <1>3 DEF Bumped
  <2>3. /\ new.life = life /\ new.update.nonce = entry.nonce + 1
        /\ new.update.cumOwed = entry.cumOwed + cost
    OBVIOUS
  <2>4. \A a \in issued : a.life = life =>
          a.update.nonce < new.update.nonce /\ a.update.cumOwed <= new.update.cumOwed
    BY <1>1, <2>1, <2>3 DEF Update
  <2>5. ASSUME NEW a \in issued', a.life = life'
        PROVE  a.update.nonce <= entry'.nonce /\ a.update.cumOwed <= entry'.cumOwed
    BY <1>1, <2>1, <2>2, <2>3, <2>4, <2>5 DEF Update
  <2>6. ASSUME NEW a \in issued', NEW b \in issued', a.life = b.life
        PROVE  /\ a.update.nonce = b.update.nonce => a = b
               /\ a.update.nonce < b.update.nonce => a.update.cumOwed <= b.update.cumOwed
    <3>1. CASE a \in issued /\ b \in issued
      BY <2>6, <3>1
    <3>2. CASE a = new /\ b \in issued
      BY <1>1, <2>1, <2>3, <2>4, <2>6, <3>2 DEF Update
    <3>3. CASE a \in issued /\ b = new
      BY <1>1, <2>1, <2>3, <2>4, <2>6, <3>3 DEF Update
    <3>4. CASE a = new /\ b = new
      BY <2>1, <1>1, <2>3, <3>4
    <3> QED BY <2>2, <2>6, <3>1, <3>2, <3>3, <3>4
  <2>7. NoneFromLaterLives'
    BY <1>1, <2>2, <2>3
  <2> QED BY <2>5, <2>6, <2>7
<1>4. CASE Restart
  <2>1. issued' = issued /\ life' = life + 1
    BY <1>4 DEF Restart
  <2>2. \A a \in issued : a.life < life'
    BY <1>1, <2>1
  <2>3. NoneFromLaterLives'
    BY <1>1, <2>1, <2>2
  <2>4. \A a \in issued' : a.life # life'
    BY <1>1, <2>1, <2>2
  <2> QED BY <2>1, <2>3, <2>4
<1> QED BY <1>2, <1>3, <1>4, LedgerEffect

\* The node restarts MaxRestarts times at most, and every receipt is of a
\* lifetime that has begun.
LivesCounted == life <= MaxRestarts /\ NoneFromLaterLives

LEMMA LivesInOrder == Spec => [](ReceiptsInOrder /\ LivesCounted)
<1>1. Init => ReceiptsInOrder /\ LivesCounted
  BY LedgerAssumption DEF Init, ReceiptsInOrder, LivesCounted, NoneFromLaterLives
<1>2. ASSUME TypeOK, ReceiptsInOrder, LivesCounted, [Next]_vars
      PROVE  ReceiptsInOrder' /\ LivesCounted'
  <2>1. ReceiptsInOrder' /\ NoneFromLaterLives'
    BY <1>2, ReceiptsStep DEF LivesCounted
  <2>2. life' = life \/ Restart
    BY <1>2, LedgerEffect DEF Quiet, Bumped
  <2>3. life \in Nat /\ MaxRestarts \in Nat
    BY <1>2, LedgerAssumption DEF TypeOK
  <2>4. life' <= MaxRestarts
    BY <1>2, <2>2, <2>3 DEF Restart, LivesCounted
  <2> QED BY <2>1, <2>4 DEF LivesCounted
<1> QED BY <1>1, <1>2, LedgerTypeCorrect, PTL DEF Spec

\* Within a lifetime of the node no nonce is signed for two amounts, a newer
\* receipt never owes less, and the entry is at the newest: whichever client
\* state goes on-chain, a later one of this lifetime subsumes it.
THEOREM ReceiptsAlwaysInOrder == Spec => []ReceiptsInOrder
BY LivesInOrder, PTL

---------------------------------------------------------------------------
(* The channel's client.                                                   *)

\* Until a restart, nobody but the wallet of the first ack can change what the
\* node would submit: through prev_ack and /ack alike, only its acks are kept.
THEOREM ClientStaysFixed == Spec => ClientFixed
<1>1. ASSUME TypeOK, [Next]_vars, entry.client # NoWallet, life' = life
      PROVE  entry'.client = entry.client
  <2>1. ASSUME NEW r \in Requests, NEW ack \in PossibleAcks \cup {NoAck}, Arrive(r, ack)
        PROVE  entry'.client = entry.client
    BY <2>1 DEF Arrive
  <2>2. ASSUME NEW r \in Requests, FetchDeposit(r) \/ CallFails(r) \/ Respond(r)
        PROVE  entry'.client = entry.client
    BY <2>2 DEF FetchDeposit, CallFails, Respond
  <2>3. ASSUME NEW r \in Requests, CacheDeposit(r)
        PROVE  entry'.client = entry.client
    BY <1>1, <2>3 DEF CacheDeposit, TypeOK, Entry
  <2>4. ASSUME NEW r \in Requests, NEW cost \in Costs, StepSucceeds(r, cost)
        PROVE  entry'.client = entry.client
    <3> DEFINE exec == execs[r]
               update == NextUpdate(entry, exec, cost)
               acked == IF exec.ack = NoAck THEN entry ELSE WithAck(entry, exec.ack)
    <3>1. CASE exec.ack # NoAck /\ ~AckAccepted(entry, exec.ack)
      BY <2>4, <3>1 DEF StepSucceeds
    <3>2. CASE ~(exec.ack # NoAck /\ ~AckAccepted(entry, exec.ack))
      <4>1. entry' = [acked EXCEPT !.nonce = update.nonce, !.cumOwed = update.cumOwed]
        BY <2>4, <3>2 DEF StepSucceeds
      <4>2. entry \in Entry /\ exec.ack \in Ack \cup {NoAck}
        BY <1>1 DEF TypeOK, Exec
      <4>3. acked \in Entry
        BY <4>2, WithAckTyped
      <4>4. acked.client = entry.client
        BY <1>1, <3>2, <4>2 DEF AckAccepted, WithAck, Entry
      <4> QED BY <4>1, <4>3, <4>4 DEF Entry
    <3> QED BY <3>1, <3>2
  <2>5. ASSUME NEW ack \in PossibleAcks, PostAck(ack)
        PROVE  entry'.client = entry.client
    BY <1>1, <2>5 DEF PostAck, AckAccepted, WithAck, TypeOK, Entry
  <2>6. CASE Restart
    BY <1>1, <2>6 DEF Restart, TypeOK
  <2>7. CASE ChainChange \/ UNCHANGED vars
    BY <2>7 DEF ChainChange, vars
  <2> QED
    BY <1>1, <2>1, <2>2, <2>3, <2>4, <2>5, <2>6, <2>7 DEF Next, Execute
<1>2. TypeOK /\ [Next]_vars
        => [entry.client # NoWallet /\ life' = life => entry'.client = entry.client]_vars
  BY <1>1
<1> QED BY <1>2, LedgerTypeCorrect, PTL DEF Spec, ClientFixed

---------------------------------------------------------------------------
(* The overshoot.  A call counts as admitted from the moment it has read a *)
(* cum_owed below the largest deposit until it has been billed or refused. *)

Admitted ==
  {r \in Requests : /\ execs[r].phase \in {"fetching", "fetched", "stepping"}
                    /\ execs[r].cum < MaxDeposit}

\* Every deposit that was read is one the channel had, and a call that runs
\* on the backend is admitted.
DepositsRead ==
  /\ deposited <= MaxDeposit
  /\ entry.deposit # NoDeposit => entry.deposit <= MaxDeposit
  /\ \A r \in Requests :
       /\ execs[r].phase = "fetched" => execs[r].seen <= MaxDeposit
       /\ execs[r].phase = "stepping" => r \in Admitted

\* The bound with what the admitted calls may still add.  It is inductive
\* where OvershootBounded is not: an admitted call moves its cost from one
\* side of the sum to the other.
RoomForAdmitted ==
  \/ entry.cumOwed = 0
  \/ entry.cumOwed + Cardinality(Admitted) * MaxCost
       < MaxDeposit + Cardinality(Requests) * MaxCost

LEMMA TimesMonotone ==
  ASSUME NEW m \in Nat, NEW n \in Nat, NEW k \in Nat, m <= n
  PROVE  m * k \in Nat /\ n * k \in Nat /\ m * k <= n * k
OBVIOUS

LEMMA TimesLess ==
  ASSUME NEW n \in Nat \ {0}, NEW k \in Nat
  PROVE  (n - 1) * k \in Nat /\ (n - 1) * k + k = n * k
OBVIOUS

LEMMA RequestsCounted ==
  ASSUME NEW S, S \subseteq Requests
  PROVE  /\ IsFiniteSet(S) /\ Cardinality(S) \in Nat /\ Cardinality(Requests) \in Nat
         /\ Cardinality(S) <= Cardinality(Requests)
BY LedgerAssumption, FS_Subset, FS_CardinalityType

\* Fewer admitted calls leave no less room, if cum_owed stays.
LEMMA RoomKept ==
  ASSUME TypeOK, RoomForAdmitted, entry'.cumOwed = entry.cumOwed,
         Admitted' \subseteq Admitted
  PROVE  RoomForAdmitted'
<1> DEFINE now == Cardinality(Admitted)
           next == Cardinality(Admitted')
<1>1. entry.cumOwed \in Nat /\ MaxCost \in Nat /\ MaxDeposit \in Nat
  BY LedgerAssumption DEF TypeOK, Entry
<1>2. Admitted \subseteq Requests
  BY DEF Admitted
<1>3. IsFiniteSet(Admitted) /\ now \in Nat /\ Cardinality(Requests) \in Nat
  BY <1>2, RequestsCounted
<1>4. next \in Nat /\ next <= now
  BY <1>3, FS_Subset, FS_CardinalityType
<1>5. next * MaxCost <= now * MaxCost /\ next * MaxCost \in Nat /\ now * MaxCost \in Nat
  BY <1>1, <1>3, <1>4, TimesMonotone
<1>6. Cardinality(Requests) * MaxCost \in Nat
  BY <1>1, <1>3, TimesMonotone
<1> HIDE DEF now, next
<1>7. entry.cumOwed = 0 \/ entry.cumOwed + now * MaxCost
        < MaxDeposit + Cardinality(Requests) * MaxCost
  BY DEF RoomForAdmitted, now
<1>8. entry.cumOwed = 0 \/ entry.cumOwed + next * MaxCost
        < MaxDeposit + Cardinality(Requests) * MaxCost
  BY <1>1, <1>5, <1>6, <1>7
<1> QED BY <1>8 DEF RoomForAdmitted, next

\* A step of the backend ends its call, with a receipt or a refusal.
LEMMA StepAnswers ==
  ASSUME TypeOK, NEW r \in Requests, NEW cost \in Costs, StepSucceeds(r, cost)
  PROVE  /\ execs' \in [Requests -> Exec] /\ execs'[r].phase = "replied"
         /\ \A s \in Requests \ {r} : execs'[s] = execs[s]
         /\ deposited' = deposited
<1> DEFINE exec == execs[r]
           update == NextUpdate(entry, exec, cost)
           bad == [exec EXCEPT !.phase = "replied", !.reply = "badAck"]
           good == [exec EXCEPT !.phase = "replied", !.reply = "receipt",
                                !.receipt = update]
<1>1. exec \in Exec /\ execs \in [Requests -> Exec]
  BY DEF TypeOK
<1>2. bad.phase = "replied" /\ good.phase = "replied"
  BY <1>1 DEF Exec
<1>3. execs' = [execs EXCEPT ![r] = bad] \/ execs' = [execs EXCEPT ![r] = good]
  BY DEF StepSucceeds
<1>4. execs' \in [Requests -> Exec] /\ deposited' = deposited
  <2>1. Next
    BY DEF Next, Execute
  <2> QED BY <2>1, TypeStep DEF StepSucceeds, TypeOK
<1> HIDE DEF bad, good
<1> QED BY <1>1, <1>2, <1>3, <1>4

\* It leaves the cached deposit.
LEMMA StepKeepsDeposit ==
  ASSUME TypeOK, NEW r \in Requests, NEW cost \in Costs, StepSucceeds(r, cost)
  PROVE  entry'.deposit = entry.deposit
<1> DEFINE exec == execs[r]
           update == NextUpdate(entry, exec, cost)
           acked == IF exec.ack = NoAck THEN entry ELSE WithAck(entry, exec.ack)
<1>1. entry \in Entry /\ exec.ack \in Ack \cup {NoAck}
  BY DEF TypeOK, Exec
<1>2. CASE exec.ack # NoAck /\ ~AckAccepted(entry, exec.ack)
  BY <1>2 DEF StepSucceeds
<1>3. CASE ~(exec.ack # NoAck /\ ~AckAccepted(entry, exec.ack))
  <2>1. entry' = [acked EXCEPT !.nonce = update.nonce, !.cumOwed = update.cumOwed]
    BY <1>3 DEF StepSucceeds
  <2>2. acked \in Entry /\ acked.deposit = entry.deposit
    BY <1>1, WithAckTyped DEF WithAck, Entry
  <2> QED BY <2>1, <2>2 DEF Entry
<1> QED BY <1>2, <1>3

\* The verdict of the solvency check: a call that goes on had read a cum_owed
\* below a deposit the channel had; a refused one is no longer admitted.
LEMMA DecideAdmits ==
  ASSUME NEW exec \in Exec, NEW deposit \in Nat, deposit <= MaxDeposit
  PROVE  LET next == Decide(exec, deposit)
         IN  /\ next.phase \in {"stepping", "replied"} /\ next.cum = exec.cum
             /\ next.phase = "stepping" => next.cum < MaxDeposit
BY LedgerAssumption DEF Decide, Verdict, Exec

LEMMA DepositsStep ==
  ASSUME TypeOK, DepositsRead, [Next]_vars
  PROVE  DepositsRead'
<1> USE DEF TypeOK, DepositsRead, Admitted
<1>1. ASSUME NEW r \in Requests, NEW ack \in PossibleAcks \cup {NoAck}, Arrive(r, ack)
      PROVE  DepositsRead'
  <2> DEFINE read == [Idle EXCEPT !.ack = ack, !.cum = entry.cumOwed]
             next == IF entry.deposit = NoDeposit THEN [read EXCEPT !.phase = "fetching"]
                     ELSE Decide(read, entry.deposit)
  <2>1. ack \in Ack \cup {NoAck} /\ entry.cumOwed \in Nat
        /\ entry.deposit \in Nat \cup {NoDeposit}
    BY <1>1, PossibleAcksTyped DEF Entry
  <2>2. read \in Exec
    BY <2>1, IdleTyped DEF Exec
  <2>3. /\ next.phase \in {"fetching", "stepping", "replied"}
        /\ next.phase = "stepping" => next.cum < MaxDeposit
    BY <2>1, <2>2, DecideAdmits DEF Exec
  <2>4. execs' = [execs EXCEPT ![r] = next] /\ UNCHANGED <<entry, deposited>>
    BY <1>1 DEF Arrive
  <2> HIDE DEF next
  <2>5. ASSUME NEW s \in Requests
        PROVE  /\ execs'[s].phase = "fetched" => execs'[s].seen <= MaxDeposit
               /\ execs'[s].phase = "stepping" => s \in Admitted'
    BY <2>3, <2>4
  <2> QED BY <2>4, <2>5
<1>2. ASSUME NEW r \in Requests, FetchDeposit(r)
      PROVE  DepositsRead'
  BY <1>2 DEF FetchDeposit, Fetched, Exec
<1>3. ASSUME NEW r \in Requests, CacheDeposit(r)
      PROVE  DepositsRead'
  <2> DEFINE next == Decide(execs[r], execs[r].seen)
  <2>1. execs[r].seen \in Nat /\ execs[r] \in Exec /\ execs[r].seen <= MaxDeposit
    BY <1>3 DEF CacheDeposit
  <2>2. /\ next.phase \in {"stepping", "replied"}
        /\ next.phase = "stepping" => next.cum < MaxDeposit
    BY <2>1, DecideAdmits
  <2>3. execs' = [execs EXCEPT ![r] = next] /\ entry'.deposit <= MaxDeposit
        /\ deposited' = deposited
    BY <1>3, <2>1 DEF CacheDeposit, Entry
  <2> HIDE DEF next
  <2>4. ASSUME NEW s \in Requests
        PROVE  /\ execs'[s].phase = "fetched" => execs'[s].seen <= MaxDeposit
               /\ execs'[s].phase = "stepping" => s \in Admitted'
    BY <2>2, <2>3
  <2> QED BY <2>3, <2>4
<1>4. ASSUME NEW r \in Requests, CallFails(r)
      PROVE  DepositsRead'
  BY <1>4 DEF CallFails, Exec
<1>5. ASSUME NEW r \in Requests, NEW cost \in Costs, StepSucceeds(r, cost)
      PROVE  DepositsRead'
  BY <1>5, StepKeepsDeposit, StepAnswers
<1>6. ASSUME NEW r \in Requests, Respond(r)
      PROVE  DepositsRead'
  BY <1>6 DEF Respond, Idle
<1>7. ASSUME NEW ack \in PossibleAcks, PostAck(ack)
      PROVE  DepositsRead'
  BY <1>7 DEF PostAck, WithAck, Entry
<1>8. CASE Restart
  BY <1>8 DEF Restart, Idle, Fresh
<1>9. CASE ChainChange
  BY <1>9, LedgerAssumption DEF ChainChange
<1>10. CASE UNCHANGED vars
  BY <1>10 DEF vars
<1> QED
  BY <1>1, <1>2, <1>3, <1>4, <1>5, <1>6, <1>7, <1>8, <1>9, <1>10 DEF Next, Execute

\* A call arrives.  It is admitted only if cum_owed is below the largest
\* deposit, and then every slot of the node fits below the bound.
LEMMA ArriveKeepsRoom ==
  ASSUME TypeOK, RoomForAdmitted, NEW r \in Requests,
         NEW ack \in PossibleAcks \cup {NoAck}, Arrive(r, ack)
  PROVE  RoomForAdmitted'
<1> DEFINE read == [Idle EXCEPT !.ack = ack, !.cum = entry.cumOwed]
           next == IF entry.deposit = NoDeposit THEN [read EXCEPT !.phase = "fetching"]
                   ELSE Decide(read, entry.deposit)
<1>1. /\ entry.cumOwed \in Nat /\ entry.deposit \in Nat \cup {NoDeposit}
      /\ MaxCost \in Nat /\ MaxDeposit \in Nat
  BY LedgerAssumption DEF TypeOK, Entry
<1>2. next.cum = entry.cumOwed
  BY DEF Decide, Idle
<1>3. execs' = [execs EXCEPT ![r] = next] /\ UNCHANGED entry /\ execs \in [Requests -> Exec]
  BY DEF Arrive, TypeOK
<1> HIDE DEF next
<1>4. CASE entry.cumOwed < MaxDeposit
  <2>1. Admitted' \subseteq Requests
    BY DEF Admitted
  <2>2. /\ Cardinality(Admitted') \in Nat /\ Cardinality(Requests) \in Nat
        /\ Cardinality(Admitted') <= Cardinality(Requests)
    BY <2>1, RequestsCounted
  <2>3. /\ Cardinality(Admitted') * MaxCost \in Nat
        /\ Cardinality(Requests) * MaxCost \in Nat
        /\ Cardinality(Admitted') * MaxCost <= Cardinality(Requests) * MaxCost
    BY <1>1, <2>2, TimesMonotone
  <2>4. entry.cumOwed + Cardinality(Admitted') * MaxCost
          < MaxDeposit + Cardinality(Requests) * MaxCost
    BY <1>1, <1>4, <2>3
  <2> QED BY <1>3, <2>4 DEF RoomForAdmitted
<1>5. CASE ~(entry.cumOwed < MaxDeposit)
  <2>1. Admitted' \subseteq Admitted
    BY <1>2, <1>3, <1>5 DEF Admitted
  <2> QED BY <1>3, <2>1, RoomKept
<1> QED BY <1>4, <1>5

\* A round trip is billed: what it adds is what its call had room for.
LEMMA BillKeepsRoom ==
  ASSUME TypeOK, DepositsRead, RoomForAdmitted, NEW r \in Requests, NEW cost \in Costs,
         StepSucceeds(r, cost)
  PROVE  RoomForAdmitted'
<1> DEFINE now == Cardinality(Admitted)
           next == Cardinality(Admitted')
           all == Cardinality(Requests)
<1>1. /\ entry.cumOwed \in Nat /\ cost \in Nat /\ cost <= MaxCost
      /\ MaxCost \in Nat /\ MaxDeposit \in Nat
  BY LedgerAssumption DEF TypeOK, Entry
<1>2. r \in Admitted /\ execs[r].cum \in Nat /\ execs[r].cum < MaxDeposit
  BY DEF StepSucceeds, DepositsRead, Admitted, TypeOK, Exec
<1>3. Admitted' \subseteq Admitted \ {r}
  BY StepAnswers DEF Admitted
<1>4. /\ IsFiniteSet(Admitted) /\ now \in Nat /\ all \in Nat /\ now <= all
  <2>1. Admitted \subseteq Requests
    BY DEF Admitted
  <2> QED BY <2>1, RequestsCounted
<1>5. now \in Nat \ {0} /\ next \in Nat /\ next <= now - 1
  <2>1. IsFiniteSet(Admitted \ {r}) /\ Cardinality(Admitted \ {r}) = now - 1
    BY <1>2, <1>4, FS_RemoveElement
  <2>2. Cardinality(Admitted \ {r}) \in Nat
    BY <2>1, FS_CardinalityType
  <2>3. next \in Nat /\ next <= Cardinality(Admitted \ {r})
    BY <1>3, <2>1, FS_Subset, FS_CardinalityType
  <2> QED BY <1>4, <2>1, <2>2, <2>3
<1> HIDE DEF now, next, all
<1>6. /\ next * MaxCost \in Nat /\ (now - 1) * MaxCost \in Nat
      /\ now * MaxCost \in Nat /\ all * MaxCost \in Nat
      /\ next * MaxCost <= (now - 1) * MaxCost
      /\ (now - 1) * MaxCost + MaxCost = now * MaxCost
      /\ now * MaxCost <= all * MaxCost
  <2>1. now - 1 \in Nat
    BY <1>5
  <2>2. next * MaxCost \in Nat /\ next * MaxCost <= (now - 1) * MaxCost
    BY <1>1, <1>5, <2>1, TimesMonotone
  <2>3. (now - 1) * MaxCost \in Nat /\ (now - 1) * MaxCost + MaxCost = now * MaxCost
    BY <1>1, <1>5, TimesLess
  <2>4. /\ now * MaxCost \in Nat /\ all * MaxCost \in Nat
        /\ now * MaxCost <= all * MaxCost
    BY <1>1, <1>4, TimesMonotone
  <2> QED BY <2>2, <2>3, <2>4
<1>7. CASE Quiet
  <2>1. entry'.cumOwed = entry.cumOwed /\ Admitted' \subseteq Admitted
    BY <1>3, <1>7 DEF Quiet
  <2> QED BY <2>1, RoomKept
<1>8. CASE Bumped(cost)
  <2>1. entry'.cumOwed = entry.cumOwed + cost
    BY <1>8 DEF Bumped
  <2>2. 0 < MaxDeposit
    BY <1>1, <1>2
  <2>3. entry.cumOwed = 0 \/ entry.cumOwed + now * MaxCost < MaxDeposit + all * MaxCost
    BY DEF RoomForAdmitted, now, all
  <2>4. entry'.cumOwed + next * MaxCost < MaxDeposit + all * MaxCost
    BY <1>1, <1>6, <2>1, <2>2, <2>3
  <2> QED BY <2>4 DEF RoomForAdmitted, next, all
<1> QED BY <1>7, <1>8, StepEffect

LEMMA RoomStep ==
  ASSUME TypeOK, DepositsRead, RoomForAdmitted, [Next]_vars
  PROVE  RoomForAdmitted'
<1> USE DEF Admitted
<1>1. execs \in [Requests -> Exec] /\ entry \in Entry
  BY DEF TypeOK
<1>2. ASSUME NEW r \in Requests, FetchDeposit(r) \/ CallFails(r) \/ Respond(r)
      PROVE  RoomForAdmitted'
  <2>1. Admitted' \subseteq Admitted
    <3>1. CASE FetchDeposit(r)
      <4>1. execs' = [execs EXCEPT ![r] = Fetched(execs[r])] /\ execs[r].phase = "fetching"
        BY <3>1 DEF FetchDeposit
      <4>2. Fetched(execs[r]).cum = execs[r].cum
        BY <1>1 DEF Fetched, Exec
      <4> QED BY <1>1, <4>1, <4>2
    <3>2. CASE CallFails(r)
      <4>1. execs' = [execs EXCEPT ![r].phase = "replied", ![r].reply = "error"]
        BY <3>2 DEF CallFails
      <4>2. execs'[r].phase = "replied" /\ \A s \in Requests \ {r} : execs'[s] = execs[s]
        BY <1>1, <4>1 DEF Exec
      <4> QED BY <1>1, <4>2
    <3>3. CASE Respond(r)
      BY <1>1, <3>3 DEF Respond, Idle
    <3> QED BY <1>2, <3>1, <3>2, <3>3
  <2>2. entry' = entry
    BY <1>2 DEF FetchDeposit, CallFails, Respond
  <2> QED BY <2>1, <2>2, RoomKept
<1>3. ASSUME NEW r \in Requests, CacheDeposit(r)
      PROVE  RoomForAdmitted'
  <2> DEFINE next == Decide(execs[r], execs[r].seen)
  <2>1. execs' = [execs EXCEPT ![r] = next] /\ execs[r].phase = "fetched"
        /\ entry' = [entry EXCEPT !.deposit = execs[r].seen]
    BY <1>3 DEF CacheDeposit
  <2>2. next.cum = execs[r].cum
    BY <1>1 DEF Decide, Exec
  <2> HIDE DEF next
  <2>3. Admitted' \subseteq Admitted
    BY <1>1, <2>1, <2>2
  <2>4. entry'.cumOwed = entry.cumOwed
    BY <1>1, <2>1 DEF Entry
  <2> QED BY <2>3, <2>4, RoomKept
<1>4. ASSUME NEW ack \in PossibleAcks, PostAck(ack)
      PROVE  RoomForAdmitted'
  <2>1. entry'.cumOwed = entry.cumOwed /\ Admitted' = Admitted
    BY <1>1, <1>4 DEF PostAck, WithAck, Entry
  <2> QED BY <2>1, RoomKept
<1>5. CASE Restart
  BY <1>5 DEF Restart, Fresh, RoomForAdmitted
<1>6. CASE ChainChange \/ UNCHANGED vars
  <2>1. entry' = entry /\ Admitted' = Admitted
    BY <1>6 DEF ChainChange, vars
  <2> QED BY <2>1, RoomKept
<1> QED
  BY <1>2, <1>3, <1>4, <1>5, <1>6, ArriveKeepsRoom, BillKeepsRoom DEF Next, Execute

\* check_channel_solvent lets overlapping calls pass together, on a cum_owed
\* that may be stale when they are billed; still the node is never owed the
\* largest deposit plus one dearest round trip per slot, however many slots
\* there are and whenever the deposit is read.
THEOREM OvershootAlwaysBounded == Spec => []OvershootBounded
<1>1. Init => DepositsRead /\ RoomForAdmitted
  BY LedgerAssumption DEF Init, Fresh, Idle, DepositsRead, RoomForAdmitted
<1>2. TypeOK /\ DepositsRead /\ RoomForAdmitted /\ [Next]_vars
        => DepositsRead' /\ RoomForAdmitted'
  BY DepositsStep, RoomStep
<1>3. TypeOK /\ RoomForAdmitted => OvershootBounded
  <2> SUFFICES ASSUME TypeOK, RoomForAdmitted, entry.cumOwed # 0
               PROVE  entry.cumOwed < MaxDeposit + Cardinality(Requests) * MaxCost
    BY DEF OvershootBounded
  <2>1. Admitted \subseteq Requests /\ MaxCost \in Nat /\ MaxDeposit \in Nat
        /\ entry.cumOwed \in Nat
    BY LedgerAssumption DEF Admitted, TypeOK, Entry
  <2>2. Cardinality(Admitted) \in Nat /\ Cardinality(Requests) \in Nat
        /\ Cardinality(Admitted) <= Cardinality(Requests)
    BY <2>1, RequestsCounted
  <2>3. Cardinality(Admitted) * MaxCost \in Nat /\ Cardinality(Requests) * MaxCost \in Nat
    BY <2>1, <2>2, TimesMonotone
  <2>4. entry.cumOwed + Cardinality(Admitted) * MaxCost
          < MaxDeposit + Cardinality(Requests) * MaxCost
    BY DEF RoomForAdmitted
  <2> QED BY <2>1, <2>3, <2>4
<1> QED BY <1>1, <1>2, <1>3, LedgerTypeCorrect, PTL DEF Spec

---------------------------------------------------------------------------
(* The meter.  Each step of the ledger is one of its steps or leaves it as *)
(* it is.                                                                  *)

LEMMA FirstAckDecides ==
  ASSUME NEW e \in Entry, NEW ack \in Ack, AckAccepted(e, ack)
  PROVE  \/ WithAck(e, ack).client = e.client
         \/ e.client = NoWallet /\ WithAck(e, ack).client \in Wallets
BY DEF AckAccepted, WithAck, Entry, Ack

\* Only an accepted ack names a client, and only where there was none.
LEMMA ClientEffect ==
  ASSUME TypeOK, [Next]_vars, ~Restart
  PROVE  \/ entry'.client = entry.client
         \/ entry.client = NoWallet /\ entry'.client \in Wallets
<1> DEFINE Recognized ==
      \/ entry'.client = entry.client
      \/ entry.client = NoWallet /\ entry'.client \in Wallets
<1>1. ASSUME NEW r \in Requests, NEW ack \in PossibleAcks \cup {NoAck}, Arrive(r, ack)
      PROVE  Recognized
  BY <1>1 DEF Arrive
<1>2. ASSUME NEW r \in Requests, FetchDeposit(r) \/ CallFails(r) \/ Respond(r)
      PROVE  Recognized
  BY <1>2 DEF FetchDeposit, CallFails, Respond
<1>3. ASSUME NEW r \in Requests, CacheDeposit(r)
      PROVE  Recognized
  BY <1>3 DEF CacheDeposit, TypeOK, Entry
<1>4. ASSUME NEW r \in Requests, NEW cost \in Costs, StepSucceeds(r, cost)
      PROVE  Recognized
  <2> DEFINE exec == execs[r]
             update == NextUpdate(entry, exec, cost)
             acked == IF exec.ack = NoAck THEN entry ELSE WithAck(entry, exec.ack)
  <2>1. CASE exec.ack # NoAck /\ ~AckAccepted(entry, exec.ack)
    BY <1>4, <2>1 DEF StepSucceeds
  <2>2. CASE ~(exec.ack # NoAck /\ ~AckAccepted(entry, exec.ack))
    <3>1. entry' = [acked EXCEPT !.nonce = update.nonce, !.cumOwed = update.cumOwed]
      BY <1>4, <2>2 DEF StepSucceeds
    <3>2. entry \in Entry /\ exec.ack \in Ack \cup {NoAck}
      BY DEF TypeOK, Exec
    <3>3. acked \in Entry
      BY <3>2, WithAckTyped
    <3>4. entry'.client = acked.client
      BY <3>1, <3>3 DEF Entry
    <3> QED BY <2>2, <3>2, <3>4, FirstAckDecides
  <2> QED BY <2>1, <2>2
<1>5. ASSUME NEW ack \in PossibleAcks, PostAck(ack)
      PROVE  Recognized
  <2>1. entry \in Entry /\ ack \in Ack
    BY <1>5, PossibleAcksTyped DEF TypeOK
  <2> QED BY <1>5, <2>1, FirstAckDecides DEF PostAck
<1>6. CASE ChainChange \/ UNCHANGED vars
  BY <1>6 DEF ChainChange, vars
<1> QED
  BY <1>1, <1>2, <1>3, <1>4, <1>5, <1>6 DEF Next, Execute

LEMMA MeterStep ==
  ASSUME TypeOK, [Next]_vars
  PROVE  [Meter!MeterNext]_(Meter!meterVars)
<1>1. ASSUME ~Restart
      PROVE  Meter!Recognized
  BY <1>1, ClientEffect DEF Meter!Recognized
<1>2. CASE Quiet /\ ~Restart
  <2>1. Meter!Acknowledge
    BY <1>1, <1>2 DEF Meter!Acknowledge, Quiet
  <2> QED BY <2>1 DEF Meter!MeterNext
<1>3. ASSUME NEW cost \in Costs, Bumped(cost), ~Restart
      PROVE  Meter!MeterNext
  <2>1. Meter!Charge
    BY <1>1, <1>3 DEF Meter!Charge, Bumped
  <2> QED BY <2>1 DEF Meter!MeterNext
<1>4. CASE Restart
  <2>1. Meter!LosePower
    BY <1>4 DEF Restart, Fresh, Meter!LosePower, Meter!Zero
  <2> QED BY <2>1 DEF Meter!MeterNext
<1> QED BY <1>2, <1>3, <1>4, LedgerEffect

\* The ledger implements the meter of round trips: whatever overlaps, fails or
\* comes late, a step of any handler charges one trip, records the payer,
\* forgets everything with the process or leaves the account alone.
THEOREM LedgerIsMeter == Spec => ImplementsMeter
<1>1. Init => Meter!MeterInit
  BY DEF Init, Fresh, Meter!MeterInit, Meter!Zero
<1>2. TypeOK /\ [Next]_vars => [Meter!MeterNext]_(Meter!meterVars)
  BY MeterStep
<1> QED
  BY <1>1, <1>2, LedgerTypeCorrect, PTL DEF Spec, ImplementsMeter, Meter!MeterSpec
=============================================================================

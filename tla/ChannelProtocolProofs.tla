------------------------- MODULE ChannelProtocolProofs -------------------------
(***************************************************************************)
(* Proofs about ChannelProtocol, for any number of tabs and request slots  *)
(* and any costs and deposits: what is signed, stored, submitted and paid. *)
(***************************************************************************)
EXTENDS ChannelProtocol, FiniteSetTheorems, TLAPS

(***************************************************************************)
(* The states the node signed are S, those the wallet countersigned are C: *)
(* whatever a tab, localStorage, a request or the node keeps is of them.   *)
(***************************************************************************)
Update == Ledger!Update
MaybeUpdate == Update \cup {NoReceipt}
Signed == {i.update : i \in issued}

State == [exists : BOOLEAN, lastReceipt : MaybeUpdate, lastAck : MaybeUpdate]
Tab == [mem : State, seen : Contract!Statuses, loading : BOOLEAN,
        run : {"idle", "waiting", "signing", "tool"}, slot : Requests \cup {NoSlot},
        prevAck : Ledger!Ack \cup {NoAck}, receipt : MaybeUpdate, latest : MaybeUpdate,
        panel : {"ready", "open", "opened", "refreshing", "sign", "close"},
        picked : MaybeUpdate]
Tx == [by : Tabs \cup {NoTab}, deposit : Nat, update : MaybeUpdate,
       held : SUBSET Update]

GoodState(s, C) ==
  /\ s \in State
  /\ s.lastReceipt = s.lastAck
  /\ s.lastAck \in C \cup {NoReceipt}
GoodAck(a, C) == a = NoAck \/ (a \in Ledger!Ack /\ a.update \in C)
GoodTab(tab, S, C) ==
  /\ tab \in Tab
  /\ GoodState(tab.mem, C)
  /\ GoodAck(tab.prevAck, C)
  /\ tab.receipt \in S \cup {NoReceipt}
  /\ tab.latest \in S \cup {NoReceipt}
  /\ tab.picked \in S \cup {NoReceipt}
  /\ tab.run = "waiting" => tab.slot \in Requests
  /\ tab.run = "signing" => tab.receipt \in S
  /\ tab.panel = "sign" => tab.picked \in S
GoodExec(exec, S, C) ==
  /\ exec \in Ledger!Exec
  /\ GoodAck(exec.ack, C)
  /\ exec.reply = "receipt" => exec.phase = "replied" /\ exec.receipt \in S

NodeInv ==
  /\ issued \subseteq [life : Nat, update : Update] /\ life \in Nat
  /\ cosigned \subseteq Signed
  /\ execs \in [Requests -> Ledger!Exec]
  /\ \A r \in Requests : GoodExec(execs[r], Signed, cosigned)
  /\ entry \in Ledger!Entry /\ GoodAck(entry.lastAcked, cosigned)
  /\ work \in Nat /\ billed \in Nat /\ entry.cumOwed <= work
  /\ \A u \in Signed : u.cumOwed <= work
TabsInv ==
  /\ tabs \in [Tabs -> Tab]
  /\ \A t \in Tabs : GoodTab(tabs[t], Signed, cosigned)
  /\ GoodState(storage, cosigned)
  /\ pending \subseteq Tx
ChainInv ==
  /\ channels \in [Contract!ChannelIds -> Contract!Channel]
  /\ outcome \in [Contract!ChannelIds -> Contract!Outcome]
  /\ outcome[Id].paid <= work
PartsInv == NodeInv /\ TabsInv /\ ChainInv

LEMMA IdIsKnown == Id \in Contract!ChannelIds /\ Contract!ChannelIds = {Id}
BY DEF Id, Contract!ChannelIds

\* What is good stays good when more is signed.
LEMMA GoodStays ==
  ASSUME NEW S, NEW T, NEW C, NEW D, S \subseteq T, C \subseteq D
  PROVE  /\ \A s : GoodState(s, C) => GoodState(s, D)
         /\ \A a : GoodAck(a, C) => GoodAck(a, D)
         /\ \A tab : GoodTab(tab, S, C) => GoodTab(tab, T, D)
         /\ \A exec : GoodExec(exec, S, C) => GoodExec(exec, T, D)
BY DEF GoodState, GoodAck, GoodTab, GoodExec

LEMMA StartIsGood ==
  ASSUME NEW S, NEW C
  PROVE  /\ GoodState(NoState, C) /\ GoodState(NewState, C)
         /\ GoodAck(NoAck, C)
         /\ \A s \in State : GoodState(s, C) =>
              GoodTab([NewTab EXCEPT !.mem = s], S, C)
         /\ GoodTab([NewTab EXCEPT !.loading = FALSE], S, C)
         /\ GoodExec(Ledger!Idle, S, C)
         /\ Ledger!Fresh \in Ledger!Entry /\ GoodAck(Ledger!Fresh.lastAcked, C)
         /\ Ledger!Fresh.cumOwed = 0
<1>1. GoodState(NoState, C) /\ GoodState(NewState, C) /\ GoodAck(NoAck, C)
  BY DEF GoodState, NoState, NewState, State, MaybeUpdate, GoodAck
<1>2. NewTab \in Tab /\ NewTab.mem = NoState /\ NewTab.prevAck = NoAck
      /\ NewTab.receipt = NoReceipt /\ NewTab.latest = NoReceipt /\ NewTab.picked = NoReceipt
      /\ NewTab.run = "idle" /\ NewTab.panel = "ready"
  BY <1>1 DEF NewTab, Tab, MaybeUpdate, Contract!Statuses, GoodState
<1>3. GoodTab([NewTab EXCEPT !.loading = FALSE], S, C)
  <2> DEFINE tab == [NewTab EXCEPT !.loading = FALSE]
  <2>1. /\ tab \in Tab /\ tab.mem = NoState /\ tab.prevAck = NoAck
        /\ tab.receipt = NoReceipt /\ tab.latest = NoReceipt /\ tab.picked = NoReceipt
        /\ tab.run = "idle" /\ tab.panel = "ready"
    BY <1>2 DEF Tab
  <2> HIDE DEF tab
  <2>2. GoodTab(tab, S, C)
    BY <1>1, <2>1 DEF GoodTab
  <2> QED BY <2>2 DEF tab
<1>4. ASSUME NEW s \in State, GoodState(s, C)
      PROVE  GoodTab([NewTab EXCEPT !.mem = s], S, C)
  <2> DEFINE tab == [NewTab EXCEPT !.mem = s]
  <2>1. /\ tab \in Tab /\ tab.mem = s /\ tab.prevAck = NoAck
        /\ tab.receipt = NoReceipt /\ tab.latest = NoReceipt /\ tab.picked = NoReceipt
        /\ tab.run = "idle" /\ tab.panel = "ready"
    BY <1>2, <1>4 DEF Tab, GoodState
  <2> HIDE DEF tab
  <2>2. GoodTab(tab, S, C)
    BY <1>1, <1>4, <2>1 DEF GoodTab
  <2> QED BY <2>2 DEF tab
<1>5. GoodExec(Ledger!Idle, S, C)
  BY DEF GoodExec, Ledger!Idle, Ledger!Exec, Ledger!Replies, GoodAck
<1>6. /\ Ledger!Fresh \in Ledger!Entry /\ GoodAck(Ledger!Fresh.lastAcked, C)
      /\ Ledger!Fresh.cumOwed = 0
  BY DEF Ledger!Fresh, Ledger!Entry, GoodAck
<1> QED BY <1>1, <1>3, <1>4, <1>5, <1>6

LEMMA InitParts == Init => PartsInv
<1> SUFFICES ASSUME Init PROVE PartsInv
  OBVIOUS
<1>1. Signed = {} /\ cosigned = {}
  BY DEF Init, Signed
<1>2. NodeInv
  <2>1. /\ GoodExec(Ledger!Idle, Signed, cosigned) /\ Ledger!Idle \in Ledger!Exec
        /\ Ledger!Fresh \in Ledger!Entry /\ GoodAck(Ledger!Fresh.lastAcked, cosigned)
        /\ Ledger!Fresh.cumOwed = 0
    BY StartIsGood DEF GoodExec
  <2>2. /\ entry = Ledger!Fresh /\ execs = [r \in Requests |-> Ledger!Idle]
        /\ issued = {} /\ life = 0 /\ billed = 0 /\ work = 0
    BY DEF Init, Ledger!Init
  <2> QED BY <1>1, <2>1, <2>2 DEF NodeInv
<1>3. TabsInv
  BY <1>1, StartIsGood DEF Init, TabsInv, GoodTab
<1>4. ChainInv
  <2>1. Contract!NoChannel \in Contract!Channel
    BY DEF Contract!Channel, Contract!NoChannel, Contract!Statuses
  <2>2. Contract!NoOutcome \in Contract!Outcome /\ Contract!NoOutcome.paid = 0
    BY DEF Contract!Outcome, Contract!NoOutcome, Contract!Closers
  <2>3. /\ channels = [id \in Contract!ChannelIds |-> Contract!NoChannel]
        /\ outcome = [id \in Contract!ChannelIds |-> Contract!NoOutcome]
        /\ work = 0
    BY DEF Init, Contract!Init, Ledger!Init
  <2> QED BY <2>1, <2>2, <2>3, IdIsKnown DEF ChainInv
<1> QED BY <1>2, <1>3, <1>4 DEF PartsInv

(***************************************************************************)
(* The node's steps.                                                       *)
(***************************************************************************)

\* A step of one call that signs nothing.
LEMMA ExecStep ==
  ASSUME NodeInv, NEW r \in Requests, NEW exec,
         GoodExec(exec, Signed, cosigned),
         execs' = [execs EXCEPT ![r] = exec],
         UNCHANGED <<entry, issued, life, billed, work, cosigned>>
  PROVE  NodeInv' /\ Signed' = Signed
<1>1. Signed' = Signed
  BY DEF Signed
<1>2. exec \in Ledger!Exec
  BY DEF GoodExec
<1>3. execs' \in [Requests -> Ledger!Exec]
  BY <1>2 DEF NodeInv
<1>4. \A q \in Requests : GoodExec(execs'[q], Signed, cosigned)
  BY DEF NodeInv
<1> QED BY <1>1, <1>3, <1>4 DEF NodeInv

LEMMA DecideIsGood ==
  ASSUME NEW S, NEW C, NEW exec, GoodExec(exec, S, C), exec.reply # "receipt", NEW deposit
  PROVE  GoodExec(Ledger!Decide(exec, deposit), S, C)
<1>1. exec \in Ledger!Exec /\ GoodAck(exec.ack, C)
  BY DEF GoodExec
<1>2. CASE Ledger!Verdict(deposit, exec.cum) = "ok"
  <2> DEFINE next == [exec EXCEPT !.phase = "stepping"]
  <2>1. next \in Ledger!Exec /\ next.ack = exec.ack /\ next.reply = exec.reply
    BY <1>1 DEF Ledger!Exec
  <2>2. Ledger!Decide(exec, deposit) = next
    BY <1>2 DEF Ledger!Decide
  <2> HIDE DEF next
  <2> QED BY <1>1, <2>1, <2>2 DEF GoodExec
<1>3. CASE Ledger!Verdict(deposit, exec.cum) # "ok"
  <2> DEFINE verdict == Ledger!Verdict(deposit, exec.cum)
             next == [exec EXCEPT !.phase = "replied", !.reply = verdict]
  <2>1. verdict \in {"zeroDeposit", "exhausted"}
    BY <1>3 DEF Ledger!Verdict
  <2>2. next \in Ledger!Exec /\ next.ack = exec.ack /\ next.reply = verdict
    BY <1>1, <2>1 DEF Ledger!Exec, Ledger!Replies
  <2>3. Ledger!Decide(exec, deposit) = next
    BY <1>3 DEF Ledger!Decide
  <2> HIDE DEF next, verdict
  <2> QED BY <1>1, <2>1, <2>2, <2>3 DEF GoodExec
<1> QED BY <1>2, <1>3

LEMMA ArriveStep ==
  ASSUME NodeInv, NEW r \in Requests, NEW ack, GoodAck(ack, cosigned),
         Ledger!Arrive(r, ack), UNCHANGED cosigned
  PROVE  NodeInv' /\ Signed' = Signed /\ work' = work
<1> DEFINE read == [Ledger!Idle EXCEPT !.ack = ack, !.cum = entry.cumOwed]
           waits == [read EXCEPT !.phase = "fetching"]
<1>1. entry.cumOwed \in Nat
  BY DEF NodeInv, Ledger!Entry
<1>2. /\ read \in Ledger!Exec /\ read.ack = ack /\ read.reply = "none"
      /\ waits \in Ledger!Exec /\ waits.ack = ack /\ waits.reply = "none"
  BY <1>1 DEF Ledger!Idle, Ledger!Exec, Ledger!Replies, GoodAck
<1>3. /\ execs' = [execs EXCEPT ![r] = IF entry.deposit = NoDeposit THEN waits
                                       ELSE Ledger!Decide(read, entry.deposit)]
      /\ UNCHANGED <<entry, issued, life, billed, work>>
  BY DEF Ledger!Arrive
<1> HIDE DEF read, waits
<1>4. GoodExec(read, Signed, cosigned) /\ GoodExec(waits, Signed, cosigned)
  BY <1>2 DEF GoodExec
<1>5. GoodExec(IF entry.deposit = NoDeposit THEN waits
               ELSE Ledger!Decide(read, entry.deposit), Signed, cosigned)
  BY <1>2, <1>4, DecideIsGood
<1> QED BY <1>3, <1>5, ExecStep

LEMMA CallStep ==
  ASSUME NodeInv, channels[Id].deposit \in Nat, NEW r \in Requests,
         \/ Ledger!FetchDeposit(r)
         \/ Ledger!CallFails(r)
         \/ Ledger!Respond(r),
         UNCHANGED cosigned
  PROVE  NodeInv' /\ Signed' = Signed /\ work' = work
<1>1. execs[r] \in Ledger!Exec /\ GoodExec(execs[r], Signed, cosigned)
  BY DEF NodeInv
<1>2. CASE Ledger!FetchDeposit(r)
  <2> DEFINE next == [execs[r] EXCEPT !.phase = "fetched", !.seen = channels[Id].deposit]
  <2>1. next \in Ledger!Exec /\ next.ack = execs[r].ack /\ next.reply = execs[r].reply
        /\ next.receipt = execs[r].receipt
    BY <1>1 DEF Ledger!Exec
  <2>2. execs' = [execs EXCEPT ![r] = next]
        /\ UNCHANGED <<entry, issued, life, billed, work>>
    BY <1>2 DEF Ledger!FetchDeposit, Ledger!Fetched
  <2> HIDE DEF next
  <2>3. execs[r].reply # "receipt"
    BY <1>1, <1>2 DEF GoodExec, Ledger!FetchDeposit
  <2>4. GoodExec(next, Signed, cosigned)
    BY <1>1, <2>1, <2>3 DEF GoodExec
  <2> QED BY <2>2, <2>4, ExecStep
<1>3. CASE Ledger!CallFails(r)
  <2> DEFINE next == [execs[r] EXCEPT !.phase = "replied", !.reply = "error"]
  <2>1. next \in Ledger!Exec /\ next.ack = execs[r].ack /\ next.reply = "error"
    BY <1>1 DEF Ledger!Exec, Ledger!Replies
  <2>2. execs' = [execs EXCEPT ![r] = next]
        /\ UNCHANGED <<entry, issued, life, billed, work>>
    BY <1>3 DEF Ledger!CallFails
  <2> HIDE DEF next
  <2>3. GoodExec(next, Signed, cosigned)
    BY <1>1, <2>1 DEF GoodExec
  <2> QED BY <2>2, <2>3, ExecStep
<1>4. CASE Ledger!Respond(r)
  <2>1. execs' = [execs EXCEPT ![r] = Ledger!Idle]
        /\ UNCHANGED <<entry, issued, life, billed, work>>
    BY <1>4 DEF Ledger!Respond
  <2>2. GoodExec(Ledger!Idle, Signed, cosigned)
    BY StartIsGood
  <2> QED BY <2>1, <2>2, ExecStep
<1> QED BY <1>2, <1>3, <1>4

LEMMA CacheStep ==
  ASSUME NodeInv, NEW r \in Requests, Ledger!CacheDeposit(r), UNCHANGED cosigned
  PROVE  NodeInv' /\ Signed' = Signed /\ work' = work
<1>1. /\ execs[r] \in Ledger!Exec /\ GoodExec(execs[r], Signed, cosigned)
      /\ execs[r].reply # "receipt"
  BY DEF NodeInv, GoodExec, Ledger!CacheDeposit
<1>2. /\ entry' = [entry EXCEPT !.deposit = execs[r].seen]
      /\ execs' = [execs EXCEPT ![r] = Ledger!Decide(execs[r], execs[r].seen)]
      /\ UNCHANGED <<issued, life, billed, work>>
  BY DEF Ledger!CacheDeposit
<1>3. GoodExec(Ledger!Decide(execs[r], execs[r].seen), Signed, cosigned)
  BY <1>1, DecideIsGood
<1>4. execs[r].seen \in Nat \cup {NoDeposit}
  BY <1>1 DEF Ledger!Exec
<1>5. /\ entry' \in Ledger!Entry /\ entry'.lastAcked = entry.lastAcked
      /\ entry'.cumOwed = entry.cumOwed
  BY <1>2, <1>4 DEF NodeInv, Ledger!Entry
<1>6. Signed' = Signed
  BY <1>2 DEF Signed
<1>7. Ledger!Decide(execs[r], execs[r].seen) \in Ledger!Exec
  BY <1>3 DEF GoodExec
<1>8. execs' \in [Requests -> Ledger!Exec]
      /\ \A q \in Requests : GoodExec(execs'[q], Signed, cosigned)
  BY <1>2, <1>3, <1>7 DEF NodeInv
<1> QED BY <1>2, <1>5, <1>6, <1>8 DEF NodeInv

\* A receipt owes what was owed before and the work it was made for.
LEMMA StepStep ==
  ASSUME NodeInv, NEW r \in Requests, NEW cost \in Costs,
         Ledger!StepSucceeds(r, cost), UNCHANGED cosigned
  PROVE  NodeInv' /\ Signed \subseteq Signed' /\ work \in Nat /\ work' \in Nat /\ work <= work'
<1>1. /\ execs[r] \in Ledger!Exec /\ GoodExec(execs[r], Signed, cosigned)
      /\ execs[r].ack \in Ledger!Ack \cup {NoAck}
      /\ entry \in Ledger!Entry /\ entry.nonce \in Nat /\ entry.cumOwed \in Nat
      /\ cost \in Nat /\ work \in Nat /\ billed \in Nat
  BY ProtocolAssumption DEF NodeInv, Ledger!Exec, Ledger!Entry
<1>2. work' = work + cost /\ life' = life
  BY DEF Ledger!StepSucceeds
<1>3. CASE execs[r].ack # NoAck /\ ~Ledger!AckAccepted(entry, execs[r].ack)
  <2> DEFINE next == [execs[r] EXCEPT !.phase = "replied", !.reply = "badAck"]
  <2>1. next \in Ledger!Exec /\ next.ack = execs[r].ack /\ next.reply = "badAck"
    BY <1>1 DEF Ledger!Exec, Ledger!Replies
  <2>2. execs' = [execs EXCEPT ![r] = next] /\ UNCHANGED <<entry, issued, billed>>
    BY <1>3 DEF Ledger!StepSucceeds
  <2> HIDE DEF next
  <2>3. GoodExec(next, Signed, cosigned)
    BY <1>1, <2>1 DEF GoodExec
  <2>4. execs' \in [Requests -> Ledger!Exec]
        /\ \A q \in Requests : GoodExec(execs'[q], Signed, cosigned)
    BY <2>1, <2>2, <2>3 DEF NodeInv
  <2>5. Signed' = Signed
    BY <2>2 DEF Signed
  <2>6. /\ entry'.cumOwed <= work' /\ \A u \in Signed : u.cumOwed <= work'
    <3>1. \A u \in Signed : u.cumOwed \in Nat /\ u.cumOwed <= work
      BY DEF NodeInv, Signed, Update, Ledger!Update
    <3> QED BY <1>1, <1>2, <2>2, <3>1 DEF NodeInv
  <2> QED BY <1>1, <1>2, <2>2, <2>4, <2>5, <2>6 DEF NodeInv
<1>4. CASE ~(execs[r].ack # NoAck /\ ~Ledger!AckAccepted(entry, execs[r].ack))
  <2> DEFINE update == Ledger!NextUpdate(entry, execs[r], cost)
             acked == IF execs[r].ack = NoAck THEN entry
                      ELSE Ledger!WithAck(entry, execs[r].ack)
             bumped == [acked EXCEPT !.nonce = update.nonce, !.cumOwed = update.cumOwed]
             next == [execs[r] EXCEPT !.phase = "replied", !.reply = "receipt",
                                      !.receipt = update]
  <2>1. /\ update \in Update /\ update.cumOwed = entry.cumOwed + cost
        /\ update.nonce \in Nat /\ update.cumOwed \in Nat
    BY <1>1 DEF Update, Ledger!Update, Ledger!NextUpdate
  <2>2. acked \in Ledger!Entry /\ GoodAck(acked.lastAcked, cosigned)
    BY <1>1 DEF Ledger!WithAck, Ledger!Entry, Ledger!Ack, GoodAck, GoodExec, NodeInv
  <2>3. /\ entry' = bumped
        /\ issued' = issued \cup {[life |-> life, update |-> update]}
        /\ billed' = billed + cost
        /\ execs' = [execs EXCEPT ![r] = next]
    BY <1>4 DEF Ledger!StepSucceeds
  <2> HIDE DEF update
  <2>4. /\ next \in Ledger!Exec /\ next.ack = execs[r].ack /\ next.reply = "receipt"
        /\ next.receipt = update /\ next.phase = "replied"
    BY <1>1, <2>1 DEF Ledger!Exec, Ledger!Replies, Update
  <2> HIDE DEF acked
  <2>5. /\ bumped \in Ledger!Entry /\ bumped.lastAcked = acked.lastAcked
        /\ bumped.cumOwed = update.cumOwed
    BY <2>1, <2>2 DEF Ledger!Entry
  <2> HIDE DEF next, bumped
  <2>6. Signed' = Signed \cup {update}
    <3>1. PICK i \in issued' : i.update = update /\ issued' = issued \cup {i}
      BY <2>3
    <3> QED BY <3>1 DEF Signed
  <2>7. GoodExec(next, Signed', cosigned)
    BY <1>1, <2>4, <2>6 DEF GoodExec
  <2>8. /\ execs' \in [Requests -> Ledger!Exec]
        /\ \A q \in Requests : GoodExec(execs'[q], Signed', cosigned)
    BY <2>3, <2>4, <2>6, <2>7, GoodStays DEF NodeInv
  <2>9. /\ entry'.cumOwed <= work' /\ \A u \in Signed' : u.cumOwed <= work'
    <3>1. \A u \in Signed : u.cumOwed \in Nat /\ u.cumOwed <= work
      BY DEF NodeInv, Signed, Update, Ledger!Update
    <3>2. entry.cumOwed <= work
      BY DEF NodeInv
    <3> QED BY <1>1, <1>2, <2>1, <2>3, <2>5, <2>6, <3>1, <3>2
  <2>10. issued' \subseteq [life : Nat, update : Update]
    BY <2>1, <2>3 DEF NodeInv
  <2>11. cosigned' \subseteq Signed' /\ work' \in Nat /\ billed' \in Nat /\ life' \in Nat
    BY <1>1, <1>2, <2>3, <2>6 DEF NodeInv
  <2>12. entry' \in Ledger!Entry /\ GoodAck(entry'.lastAcked, cosigned')
    BY <2>2, <2>3, <2>5
  <2>13. \A q \in Requests : GoodExec(execs'[q], Signed', cosigned')
    BY <2>8
  <2>14. NodeInv'
    BY <2>8, <2>9, <2>10, <2>11, <2>12, <2>13 DEF NodeInv
  <2> QED BY <1>1, <1>2, <2>6, <2>11, <2>14
<1> QED BY <1>3, <1>4

LEMMA RestartStep ==
  ASSUME NodeInv, Ledger!Restart, UNCHANGED cosigned
  PROVE  NodeInv' /\ Signed' = Signed /\ work' = work
<1>1. /\ entry' = Ledger!Fresh /\ execs' = [r \in Requests |-> Ledger!Idle]
      /\ billed' = 0 /\ life' = life + 1 /\ UNCHANGED <<issued, work>>
  BY DEF Ledger!Restart
<1>2. Signed' = Signed
  BY <1>1 DEF Signed
<1>3. /\ GoodExec(Ledger!Idle, Signed, cosigned) /\ Ledger!Idle \in Ledger!Exec
      /\ Ledger!Fresh \in Ledger!Entry /\ GoodAck(Ledger!Fresh.lastAcked, cosigned)
      /\ Ledger!Fresh.cumOwed = 0
  BY StartIsGood DEF GoodExec
<1>4. /\ execs' \in [Requests -> Ledger!Exec]
      /\ \A r \in Requests : GoodExec(execs'[r], Signed, cosigned)
  BY <1>1, <1>3
<1> QED BY <1>1, <1>2, <1>3, <1>4 DEF NodeInv

(***************************************************************************)
(* The tabs' steps.                                                        *)
(***************************************************************************)

\* What a step of the node leaves of the tabs and the chain.
LEMMA AroundNode ==
  ASSUME TabsInv, ChainInv, UNCHANGED <<chainVars, cosigned>>,
         Signed \subseteq Signed', work \in Nat, work' \in Nat, work <= work'
  PROVE  /\ ChainInv'
         /\ \A t \in Tabs : GoodTab(tabs[t], Signed', cosigned')
         /\ GoodState(storage, cosigned')
<1>1. outcome[Id].paid \in Nat
  BY IdIsKnown DEF ChainInv, Contract!Outcome
<1>2. ChainInv'
  BY <1>1 DEF ChainInv, chainVars
<1>3. \A t \in Tabs : GoodTab(tabs[t], Signed', cosigned')
  BY GoodStays DEF TabsInv
<1> QED BY <1>2, <1>3 DEF TabsInv

\* One tab changes.
LEMMA OneTab ==
  ASSUME TabsInv, NEW t \in Tabs, NEW tab, GoodTab(tab, Signed', cosigned'),
         tabs' = [tabs EXCEPT ![t] = tab],
         Signed \subseteq Signed', cosigned \subseteq cosigned',
         GoodState(storage', cosigned'), pending' \subseteq Tx
  PROVE  TabsInv'
<1>1. tab \in Tab
  BY DEF GoodTab
<1>2. tabs' \in [Tabs -> Tab]
  BY <1>1 DEF TabsInv
<1>3. ASSUME NEW s \in Tabs PROVE GoodTab(tabs[s], Signed', cosigned')
  <2>1. GoodTab(tabs[s], Signed, cosigned)
    BY DEF TabsInv
  <2> QED BY <2>1, GoodStays
<1>4. ASSUME NEW s \in Tabs PROVE GoodTab(tabs'[s], Signed', cosigned')
  <2>1. tabs'[s] = IF s = t THEN tab ELSE tabs[s]
    BY DEF TabsInv
  <2> QED BY <1>3, <2>1
<1> QED BY <1>2, <1>4 DEF TabsInv

\* The panel shows another button.
LEMMA PanelEdit ==
  ASSUME NEW S, NEW C, NEW tab, GoodTab(tab, S, C),
         NEW panel \in {"ready", "open", "opened", "refreshing", "close"}
  PROVE  GoodTab([tab EXCEPT !.panel = panel], S, C)
<1> DEFINE next == [tab EXCEPT !.panel = panel]
<1>1. tab \in Tab
  BY DEF GoodTab
<1>2. next \in Tab
  BY <1>1 DEF Tab
<1>3. /\ next.mem = tab.mem /\ next.prevAck = tab.prevAck /\ next.receipt = tab.receipt
      /\ next.latest = tab.latest /\ next.picked = tab.picked /\ next.run = tab.run
      /\ next.slot = tab.slot /\ next.panel = panel
  BY <1>1 DEF Tab
<1> HIDE DEF next
<1>4. GoodTab(next, S, C)
  BY <1>2, <1>3 DEF GoodTab
<1> QED BY <1>4 DEF next

\* The panel shows what it read from the chain.
LEMMA SeenEdit ==
  ASSUME NEW S, NEW C, NEW tab, GoodTab(tab, S, C),
         NEW status \in Contract!Statuses
  PROVE  GoodTab([tab EXCEPT !.seen = status], S, C)
<1> DEFINE next == [tab EXCEPT !.seen = status]
<1>1. tab \in Tab
  BY DEF GoodTab
<1>2. next \in Tab
  BY <1>1 DEF Tab
<1>3. /\ next.mem = tab.mem /\ next.prevAck = tab.prevAck /\ next.receipt = tab.receipt
      /\ next.latest = tab.latest /\ next.picked = tab.picked /\ next.run = tab.run
      /\ next.slot = tab.slot /\ next.panel = tab.panel
  BY <1>1 DEF Tab
<1> HIDE DEF next
<1>4. GoodTab(next, S, C)
  BY <1>2, <1>3 DEF GoodTab
<1> QED BY <1>4 DEF next

\* The reading of the mount is over.
LEMMA LoadedEdit ==
  ASSUME NEW S, NEW C, NEW tab, GoodTab(tab, S, C)
  PROVE  GoodTab([tab EXCEPT !.loading = FALSE], S, C)
<1> DEFINE next == [tab EXCEPT !.loading = FALSE]
<1>1. tab \in Tab
  BY DEF GoodTab
<1>2. next \in Tab
  BY <1>1 DEF Tab
<1>3. /\ next.mem = tab.mem /\ next.prevAck = tab.prevAck /\ next.receipt = tab.receipt
      /\ next.latest = tab.latest /\ next.picked = tab.picked /\ next.run = tab.run
      /\ next.slot = tab.slot /\ next.panel = tab.panel
  BY <1>1 DEF Tab
<1> HIDE DEF next
<1>4. GoodTab(next, S, C)
  BY <1>2, <1>3 DEF GoodTab
<1> QED BY <1>4 DEF next

\* The panel takes what openChannel stores.
LEMMA LoadEdit ==
  ASSUME NEW S, NEW C, NEW tab, GoodTab(tab, S, C),
         NEW mem \in State, GoodState(mem, C)
  PROVE  GoodTab([tab EXCEPT !.mem = mem, !.panel = "refreshing"], S, C)
<1> DEFINE next == [tab EXCEPT !.mem = mem, !.panel = "refreshing"]
<1>1. tab \in Tab
  BY DEF GoodTab
<1>2. next \in Tab
  BY <1>1 DEF Tab
<1>3. /\ next.mem = mem /\ next.prevAck = tab.prevAck /\ next.receipt = tab.receipt
      /\ next.latest = tab.latest /\ next.picked = tab.picked /\ next.run = tab.run
      /\ next.slot = tab.slot /\ next.panel = "refreshing"
  BY <1>1 DEF Tab
<1> HIDE DEF next
<1>4. GoodTab(next, S, C)
  BY <1>2, <1>3 DEF GoodTab
<1> QED BY <1>4 DEF next

\* The panel picks the receipt to close with.
LEMMA PickEdit ==
  ASSUME NEW S, NEW C, NEW tab, GoodTab(tab, S, C),
         NEW u \in S \cap Update
  PROVE  GoodTab([tab EXCEPT !.panel = "sign", !.picked = u], S, C)
<1> DEFINE next == [tab EXCEPT !.panel = "sign", !.picked = u]
<1>1. tab \in Tab
  BY DEF GoodTab
<1>2. next \in Tab
  BY <1>1 DEF Tab, MaybeUpdate
<1>3. /\ next.mem = tab.mem /\ next.prevAck = tab.prevAck /\ next.receipt = tab.receipt
      /\ next.latest = tab.latest /\ next.picked = u /\ next.run = tab.run
      /\ next.slot = tab.slot /\ next.panel = "sign"
  BY <1>1 DEF Tab
<1> HIDE DEF next
<1>4. GoodTab(next, S, C)
  BY <1>2, <1>3 DEF GoodTab
<1> QED BY <1>4 DEF next

\* The panel has signed what it picked, or was refused to.
LEMMA UnpickEdit ==
  ASSUME NEW S, NEW C, NEW tab, GoodTab(tab, S, C)
  PROVE  GoodTab([tab EXCEPT !.panel = "ready", !.picked = NoReceipt], S, C)
<1> DEFINE next == [tab EXCEPT !.panel = "ready", !.picked = NoReceipt]
<1>1. tab \in Tab
  BY DEF GoodTab
<1>2. next \in Tab
  BY <1>1 DEF Tab, MaybeUpdate
<1>3. /\ next.mem = tab.mem /\ next.prevAck = tab.prevAck /\ next.receipt = tab.receipt
      /\ next.latest = tab.latest /\ next.picked = NoReceipt /\ next.run = tab.run
      /\ next.slot = tab.slot /\ next.panel = "ready"
  BY <1>1 DEF Tab
<1> HIDE DEF next
<1>4. GoodTab(next, S, C)
  BY <1>2, <1>3 DEF GoodTab
<1> QED BY <1>4 DEF next

\* A run waits for the node.
LEMMA WaitEdit ==
  ASSUME NEW S, NEW C, NEW tab, GoodTab(tab, S, C),
         NEW slot \in Requests, NEW ack \in Ledger!Ack \cup {NoAck}, GoodAck(ack, C)
  PROVE  GoodTab([tab EXCEPT !.run = "waiting", !.slot = slot, !.prevAck = ack], S, C)
<1> DEFINE next == [tab EXCEPT !.run = "waiting", !.slot = slot, !.prevAck = ack]
<1>1. tab \in Tab
  BY DEF GoodTab
<1>2. next \in Tab
  BY <1>1 DEF Tab
<1>3. /\ next.mem = tab.mem /\ next.prevAck = ack /\ next.receipt = tab.receipt
      /\ next.latest = tab.latest /\ next.picked = tab.picked /\ next.run = "waiting"
      /\ next.slot = slot /\ next.panel = tab.panel
  BY <1>1 DEF Tab
<1> HIDE DEF next
<1>4. GoodTab(next, S, C)
  BY <1>2, <1>3 DEF GoodTab
<1> QED BY <1>4 DEF next

\* A run has a receipt to sign.
LEMMA SignEdit ==
  ASSUME NEW S, NEW C, NEW tab, GoodTab(tab, S, C),
         NEW u \in S \cap Update
  PROVE  GoodTab([tab EXCEPT !.run = "signing", !.slot = NoSlot, !.receipt = u], S, C)
<1> DEFINE next == [tab EXCEPT !.run = "signing", !.slot = NoSlot, !.receipt = u]
<1>1. tab \in Tab
  BY DEF GoodTab
<1>2. next \in Tab
  BY <1>1 DEF Tab, MaybeUpdate
<1>3. /\ next.mem = tab.mem /\ next.prevAck = tab.prevAck /\ next.receipt = u
      /\ next.latest = tab.latest /\ next.picked = tab.picked /\ next.run = "signing"
      /\ next.slot = NoSlot /\ next.panel = tab.panel
  BY <1>1 DEF Tab
<1> HIDE DEF next
<1>4. GoodTab(next, S, C)
  BY <1>2, <1>3 DEF GoodTab
<1> QED BY <1>4 DEF next

\* A run ends.
LEMMA IdleEdit ==
  ASSUME NEW S, NEW C, NEW tab, GoodTab(tab, S, C)
  PROVE  GoodTab([tab EXCEPT !.run = "idle", !.slot = NoSlot, !.prevAck = NoAck], S, C)
<1> DEFINE next == [tab EXCEPT !.run = "idle", !.slot = NoSlot, !.prevAck = NoAck]
<1>1. tab \in Tab
  BY DEF GoodTab
<1>2. next \in Tab
  BY <1>1 DEF Tab
<1>3. /\ next.mem = tab.mem /\ next.prevAck = NoAck /\ next.receipt = tab.receipt
      /\ next.latest = tab.latest /\ next.picked = tab.picked /\ next.run = "idle"
      /\ next.slot = NoSlot /\ next.panel = tab.panel
  BY <1>1 DEF Tab
<1> HIDE DEF next
<1>4. GoodTab(next, S, C)
  BY <1>2, <1>3 DEF GoodTab, GoodAck
<1> QED BY <1>4 DEF next

\* After a receipt the tab goes on with the receipt to show and a good ack.
LEMMA AfterReceiptIsGood ==
  ASSUME NEW S, NEW C, NEW tab, GoodTab(tab, S, C), tab.run = "signing",
         NEW ack, GoodAck(ack, C), NEW next \in AfterReceipt(tab, ack)
  PROVE  GoodTab(next, S, C) /\ next.run \in {"idle", "tool"}
<1>1. tab \in Tab /\ GoodState(tab.mem, C) /\ tab.receipt \in S /\ GoodAck(NoAck, C)
  BY DEF GoodTab, GoodAck
<1>2. ASSUME NEW run \in {"idle", "tool"}, NEW a, GoodAck(a, C)
      PROVE  /\ GoodTab([tab EXCEPT !.run = run, !.latest = tab.receipt,
                                    !.receipt = NoReceipt, !.prevAck = a], S, C)
             /\ [tab EXCEPT !.run = run, !.latest = tab.receipt,
                            !.receipt = NoReceipt, !.prevAck = a].run = run
  BY ZenonT(60), <1>1, <1>2 DEF GoodTab, Tab, GoodAck, MaybeUpdate
<1> QED BY <1>1, <1>2 DEF AfterReceipt

\* A step of a tab that signs nothing and leaves the node and the chain alone.
LEMMA PanelOnly ==
  ASSUME PartsInv, NEW t \in Tabs, NEW tab, GoodTab(tab, Signed, cosigned),
         tabs' = [tabs EXCEPT ![t] = tab], GoodState(storage', cosigned),
         pending' \subseteq Tx, UNCHANGED <<chainVars, nodeVars, cosigned>>
  PROVE  PartsInv'
<1>1. Signed' = Signed /\ cosigned' = cosigned
  BY DEF Signed, nodeVars
<1>2. NodeInv'
  BY <1>1 DEF PartsInv, NodeInv, nodeVars
<1>3. ChainInv'
  BY DEF PartsInv, ChainInv, nodeVars, chainVars
<1>4. TabsInv'
  BY <1>1, OneTab DEF PartsInv
<1> QED BY <1>2, <1>3, <1>4 DEF PartsInv

\* What a tab's storage and the transactions keep when it does not write them.
LEMMA Kept ==
  ASSUME PartsInv, NEW t \in Tabs
  PROVE  /\ GoodTab(tabs[t], Signed, cosigned) /\ tabs[t] \in Tab
         /\ GoodState(tabs[t].mem, cosigned) /\ tabs[t].mem \in State
         /\ GoodState(storage, cosigned) /\ pending \subseteq Tx
         /\ channels[Id].status \in Contract!Statuses
         /\ channels[Id].deposit \in Nat
         /\ Signed \subseteq Update /\ cosigned \subseteq Signed
<1>1. Signed \subseteq Update
  BY DEF PartsInv, NodeInv, Signed
<1> QED BY <1>1, IdIsKnown
        DEF PartsInv, TabsInv, GoodTab, GoodState, ChainInv, Contract!Channel, NodeInv

\* Transactions that a tab no longer waits for.
LEMMA OrphanedStay ==
  ASSUME NEW t, pending \subseteq Tx
  PROVE  Orphaned(t) \subseteq Tx
<1>1. \A tx \in Tx : [tx EXCEPT !.by = NoTab] \in Tx
  BY DEF Tx
<1> QED BY <1>1 DEF Orphaned

\* A reading leaves one of the contract's statuses on the panel.
LEMMA ReadStep ==
  ASSUME PartsInv, NEW t \in Tabs, NEW tab, GoodTab(tab, Signed, cosigned),
         ReadStatus(t, tab)
  PROVE  PartsInv'
<1>1. PICK seen \in Had(channels[Id].status) \cup {tab.seen} :
        tabs' = [tabs EXCEPT ![t] = [tab EXCEPT !.seen = seen]]
  BY DEF ReadStatus
<1>2. /\ pending' = pending /\ storage' = storage
      /\ UNCHANGED <<chainVars, nodeVars, cosigned>>
  BY DEF ReadStatus
<1>3. seen \in Contract!Statuses
  <2>1. tab.seen \in Contract!Statuses
    BY DEF GoodTab, Tab
  <2> QED BY <2>1, Kept DEF Had, Contract!Statuses
<1>4. GoodTab([tab EXCEPT !.seen = seen], Signed, cosigned)
  BY <1>3, SeenEdit
<1>5. GoodState(storage', cosigned) /\ pending' \subseteq Tx
  BY <1>2, Kept
<1> QED BY <1>1, <1>2, <1>4, <1>5, PanelOnly

LEMMA ReadOnMountStep ==
  ASSUME PartsInv, NEW t \in Tabs, ReadOnMount(t)
  PROVE  PartsInv'
<1>1. GoodTab([tabs[t] EXCEPT !.loading = FALSE], Signed, cosigned)
  BY Kept, LoadedEdit
<1> QED BY <1>1, ReadStep DEF ReadOnMount

LEMMA RefreshStep ==
  ASSUME PartsInv, NEW t \in Tabs, Refresh(t)
  PROVE  PartsInv'
<1>1. GoodTab([tabs[t] EXCEPT !.panel = "ready"], Signed, cosigned)
  BY Kept, PanelEdit
<1> QED BY <1>1, ReadStep DEF Refresh

LEMMA PanelFailsStep ==
  ASSUME PartsInv, NEW t \in Tabs, PanelFails(t)
  PROVE  PartsInv'
<1> DEFINE tab == [tabs[t] EXCEPT !.panel = "ready", !.picked = NoReceipt]
<1>1. /\ tabs' = [tabs EXCEPT ![t] = tab] /\ pending' = Orphaned(t)
      /\ storage' = storage /\ UNCHANGED <<chainVars, nodeVars, cosigned>>
  BY DEF PanelFails
<1>2. GoodTab(tab, Signed, cosigned)
  BY Kept, UnpickEdit
<1> HIDE DEF tab
<1>3. GoodState(storage', cosigned) /\ pending' \subseteq Tx
  BY <1>1, Kept, OrphanedStay
<1> QED BY <1>1, <1>2, <1>3, PanelOnly

LEMMA SendOpenStep ==
  ASSUME PartsInv, NEW t \in Tabs, NEW amount \in Amounts, SendOpen(t, amount)
  PROVE  PartsInv'
<1> DEFINE tab == [tabs[t] EXCEPT !.panel = "open"]
           tx == [by |-> t, deposit |-> amount, update |-> NoReceipt, held |-> {}]
<1>1. /\ tabs' = [tabs EXCEPT ![t] = tab] /\ pending' = pending \cup {tx}
      /\ storage' = storage /\ UNCHANGED <<chainVars, nodeVars, cosigned>>
  BY DEF SendOpen
<1>2. GoodTab(tab, Signed, cosigned)
  <2>1. GoodTab(tabs[t], Signed, cosigned)
    BY Kept
  <2> QED BY <2>1, PanelEdit
<1>3. tx \in Tx
  BY ProtocolAssumption DEF Tx, MaybeUpdate
<1> HIDE DEF tab, tx
<1>4. GoodState(storage', cosigned) /\ pending' \subseteq Tx
  BY <1>1, <1>3, Kept
<1> QED BY <1>1, <1>2, <1>4, PanelOnly

LEMMA PersistOpenStep ==
  ASSUME PartsInv, NEW t \in Tabs, PersistOpen(t)
  PROVE  PartsInv'
<1> DEFINE tab == [tabs[t] EXCEPT !.mem = NewState, !.panel = "refreshing"]
<1>1. /\ tabs' = [tabs EXCEPT ![t] = tab] /\ pending' = pending
      /\ storage' = NewState /\ UNCHANGED <<chainVars, nodeVars, cosigned>>
  BY DEF PersistOpen
<1>2. GoodState(NewState, cosigned) /\ NewState \in State
  BY StartIsGood DEF GoodState
<1>3. GoodTab(tab, Signed, cosigned)
  BY <1>2, Kept, LoadEdit
<1> HIDE DEF tab
<1>4. GoodState(storage', cosigned) /\ pending' \subseteq Tx
  BY <1>1, <1>2, Kept
<1> QED BY <1>1, <1>3, <1>4, PanelOnly

LEMMA PickLatestStep ==
  ASSUME PartsInv, NEW t \in Tabs, PickLatest(t)
  PROVE  PartsInv'
<1> DEFINE tab == [tabs[t] EXCEPT !.panel = "sign", !.picked = tabs[t].latest]
<1>1. /\ tabs' = [tabs EXCEPT ![t] = tab] /\ pending' = pending
      /\ storage' = storage /\ UNCHANGED <<chainVars, nodeVars, cosigned>>
      /\ tabs[t].latest # NoReceipt
  BY DEF PickLatest
<1>2. tabs[t].latest \in Signed \cap Update
  BY <1>1, Kept DEF GoodTab
<1>3. GoodTab(tab, Signed, cosigned)
  BY <1>2, Kept, PickEdit
<1> HIDE DEF tab
<1>4. GoodState(storage', cosigned) /\ pending' \subseteq Tx
  BY <1>1, Kept
<1> QED BY <1>1, <1>3, <1>4, PanelOnly

LEMMA SendCloseStep ==
  ASSUME PartsInv, NEW t \in Tabs, SendClose(t)
  PROVE  PartsInv'
<1> DEFINE tab == [tabs[t] EXCEPT !.panel = "close"]
           tx == [by |-> t, deposit |-> 0, update |-> tabs[t].mem.lastAck,
                  held |-> cosigned]
<1>1. /\ tabs' = [tabs EXCEPT ![t] = tab] /\ pending' = pending \cup {tx}
      /\ storage' = storage /\ UNCHANGED <<chainVars, nodeVars, cosigned>>
  BY DEF SendClose, SubmittedUpdate
<1>2. GoodTab(tab, Signed, cosigned)
  <2>1. GoodTab(tabs[t], Signed, cosigned)
    BY Kept
  <2> QED BY <2>1, PanelEdit
<1>3. tx \in Tx
  BY Kept DEF Tx, State
<1> HIDE DEF tab, tx
<1>4. GoodState(storage', cosigned) /\ pending' \subseteq Tx
  BY <1>1, <1>3, Kept
<1> QED BY <1>1, <1>2, <1>4, PanelOnly

LEMMA RejectAckStep ==
  ASSUME PartsInv, NEW t \in Tabs, RejectAck(t)
  PROVE  PartsInv'
<1>1. PICK tab \in AfterReceipt(tabs[t], tabs[t].prevAck) : tabs' = [tabs EXCEPT ![t] = tab]
  BY DEF RejectAck
<1>2. /\ pending' = pending /\ storage' = storage /\ tabs[t].run = "signing"
      /\ UNCHANGED <<chainVars, nodeVars, cosigned>>
  BY DEF RejectAck
<1>3. GoodTab(tab, Signed, cosigned)
  BY <1>2, Kept, AfterReceiptIsGood DEF GoodTab
<1>4. GoodState(storage', cosigned) /\ pending' \subseteq Tx
  BY <1>2, Kept
<1> QED BY <1>1, <1>2, <1>3, <1>4, PanelOnly

LEMMA ReloadStep ==
  ASSUME PartsInv, NEW t \in Tabs, Reload(t)
  PROVE  PartsInv'
<1> DEFINE tab == [NewTab EXCEPT !.mem = storage]
<1>1. /\ tabs' = [tabs EXCEPT ![t] = tab] /\ storage' = storage
      /\ UNCHANGED <<chainVars, nodeVars, cosigned>>
      /\ pending' = Orphaned(t)
  BY DEF Reload
<1>2. GoodTab(tab, Signed, cosigned)
  BY Kept, StartIsGood DEF GoodState
<1> HIDE DEF tab
<1>3. GoodState(storage', cosigned) /\ pending' \subseteq Tx
  BY <1>1, Kept, OrphanedStay
<1> QED BY <1>1, <1>2, <1>3, PanelOnly

\* signReceipt: the receipt and its ack are stored as one.
LEMMA SignStep ==
  ASSUME PartsInv, NEW t \in Tabs, NEW receipt \in Signed, NEW next,
         GoodTab(next, Signed, cosigned \cup {receipt}), SignReceipt(t, receipt, next)
  PROVE  PartsInv'
<1> DEFINE mem == Persisted(tabs[t].mem, receipt)
           tab == [next EXCEPT !.mem = mem]
<1>1. /\ cosigned' = cosigned \cup {receipt} /\ storage' = mem
      /\ tabs' = [tabs EXCEPT ![t] = tab]
      /\ UNCHANGED <<chainVars, nodeVars, pending>>
  BY DEF SignReceipt, StoredState
<1>2. Signed' = Signed /\ cosigned \subseteq cosigned' /\ cosigned' \subseteq Signed
  BY <1>1, Kept DEF Signed, nodeVars
<1>3. GoodState(mem, cosigned')
  BY <1>1, Kept DEF Persisted, GoodState, State, MaybeUpdate
<1>4. GoodTab(tab, Signed, cosigned')
  <2>1. GoodTab(next, Signed, cosigned') /\ next \in Tab /\ mem \in State
    BY <1>1, <1>3 DEF GoodTab, GoodState
  <2> HIDE DEF mem
  <2> QED BY <1>3, <2>1 DEF GoodTab, Tab
<1> HIDE DEF tab, mem
<1>5. NodeInv'
  <2>1. \A r \in Requests : GoodExec(execs[r], Signed, cosigned')
    BY <1>2, GoodStays DEF PartsInv, NodeInv
  <2>2. GoodAck(entry.lastAcked, cosigned')
    BY <1>2, GoodStays DEF PartsInv, NodeInv
  <2> QED BY <1>1, <1>2, <2>1, <2>2 DEF PartsInv, NodeInv, nodeVars
<1>6. ChainInv'
  BY <1>1 DEF PartsInv, ChainInv, nodeVars, chainVars
<1>7. TabsInv'
  BY <1>1, <1>2, <1>3, <1>4, Kept, OneTab DEF PartsInv
<1> QED BY <1>5, <1>6, <1>7 DEF PartsInv

LEMMA SignLatestStep ==
  ASSUME PartsInv, NEW t \in Tabs, SignLatest(t)
  PROVE  PartsInv'
<1> DEFINE next == [tabs[t] EXCEPT !.panel = "ready", !.picked = NoReceipt]
<1>1. GoodTab(tabs[t], Signed, cosigned) /\ tabs[t] \in Tab /\ tabs[t].picked \in Signed
  BY Kept DEF SignLatest, GoodTab
<1>2. GoodTab(next, Signed, cosigned \cup {tabs[t].picked})
  <2>1. GoodTab(tabs[t], Signed, cosigned \cup {tabs[t].picked})
    BY <1>1, GoodStays
  <2> QED BY <2>1, UnpickEdit
<1>3. SignReceipt(t, tabs[t].picked, next)
  BY Zenon DEF SignLatest
<1> HIDE DEF next
<1> QED BY <1>1, <1>2, <1>3, SignStep

LEMMA SignAckStep ==
  ASSUME PartsInv, NEW t \in Tabs, SignAck(t)
  PROVE  PartsInv'
<1> DEFINE receipt == tabs[t].receipt
           ack == [update |-> receipt, signer |-> Client]
<1>1. PICK next \in AfterReceipt(tabs[t], ack) : SignReceipt(t, receipt, next)
  BY DEF SignAck
<1>2. tabs[t].run = "signing" /\ receipt \in Signed /\ GoodTab(tabs[t], Signed, cosigned)
  BY Kept DEF SignAck, GoodTab
\* The ack is good once its receipt is countersigned, which it is by now.
<1>3. ack \in Ledger!Ack /\ ack.update = receipt
  BY <1>2, Kept DEF Ledger!Ack, Update
<1>4. GoodAck(ack, cosigned \cup {receipt})
  BY <1>3 DEF GoodAck
<1> HIDE DEF ack
<1>5. GoodTab(next, Signed, cosigned \cup {receipt})
  <2>1. GoodTab(tabs[t], Signed, cosigned \cup {receipt})
    BY <1>2, GoodStays
  <2> QED BY <1>2, <1>4, <2>1, AfterReceiptIsGood
<1> QED BY <1>1, <1>2, <1>5, SignStep

(***************************************************************************)
(* Steps of the node, with the tabs that wait for it.                      *)
(***************************************************************************)
LEMMA NodeSide ==
  ASSUME PartsInv, NodeInv', Signed \subseteq Signed', work' \in Nat, work <= work',
         UNCHANGED <<chainVars, cosigned, storage, pending>>,
         tabs' \in [Tabs -> Tab],
         \A s \in Tabs : GoodTab(tabs'[s], Signed, cosigned)
  PROVE  PartsInv'
<1>1. ChainInv' /\ GoodState(storage, cosigned)
  BY AroundNode DEF PartsInv, NodeInv
<1>2. \A s \in Tabs : GoodTab(tabs'[s], Signed', cosigned')
  BY GoodStays
<1> QED BY <1>1, <1>2 DEF PartsInv, TabsInv

\* Tabs of which some change to a good one.
LEMMA SomeTabs ==
  ASSUME PartsInv, NEW t \in Tabs, NEW tab, GoodTab(tab, Signed, cosigned),
         tabs' = [tabs EXCEPT ![t] = tab]
  PROVE  tabs' \in [Tabs -> Tab] /\ \A s \in Tabs : GoodTab(tabs'[s], Signed, cosigned)
<1>1. tab \in Tab
  BY DEF GoodTab
<1> QED BY <1>1 DEF PartsInv, TabsInv

LEMMA SendStep ==
  ASSUME PartsInv, NEW t \in Tabs, NEW ack \in Ledger!Ack \cup {NoAck},
         GoodAck(ack, cosigned), Send(t, ack)
  PROVE  PartsInv'
<1>1. PICK r \in Requests :
        /\ Ledger!Arrive(r, ack)
        /\ tabs' = [tabs EXCEPT ![t] = [tabs[t] EXCEPT !.run = "waiting", !.slot = r,
                                                       !.prevAck = ack]]
        /\ UNCHANGED <<chainVars, storage, cosigned, pending>>
  BY DEF Send
<1> DEFINE tab == [tabs[t] EXCEPT !.run = "waiting", !.slot = r, !.prevAck = ack]
<1>2. GoodTab(tab, Signed, cosigned)
  <2>1. GoodTab(tabs[t], Signed, cosigned)
    BY Kept
  <2> QED BY <2>1, WaitEdit
<1>3. tabs' = [tabs EXCEPT ![t] = tab]
  BY <1>1
<1> HIDE DEF tab
<1>4. NodeInv' /\ Signed' = Signed /\ work' = work /\ work \in Nat
  BY <1>1, ArriveStep DEF PartsInv, NodeInv
<1>5. Signed \subseteq Signed' /\ work' \in Nat /\ work <= work'
  BY <1>4
<1>6. tabs' \in [Tabs -> Tab] /\ \A s \in Tabs : GoodTab(tabs'[s], Signed, cosigned)
  BY <1>2, <1>3, SomeTabs
<1> QED BY <1>1, <1>4, <1>5, <1>6, NodeSide

LEMMA ReceiveStep ==
  ASSUME PartsInv, NEW t \in Tabs, Receive(t)
  PROVE  PartsInv'
<1> DEFINE exec == execs[tabs[t].slot]
           tab == IF exec.reply = "receipt"
                  THEN [tabs[t] EXCEPT !.run = "signing", !.slot = NoSlot,
                                       !.receipt = exec.receipt]
                  ELSE [tabs[t] EXCEPT !.run = "idle", !.slot = NoSlot, !.prevAck = NoAck]
<1>1. /\ Ledger!Respond(tabs[t].slot) /\ tabs[t].run = "waiting"
      /\ tabs' = [tabs EXCEPT ![t] = tab]
      /\ UNCHANGED <<chainVars, storage, cosigned, pending>>
  BY DEF Receive
<1>2. /\ tabs[t].slot \in Requests
      /\ exec.reply = "receipt" => exec.receipt \in Signed \cap Update
  BY <1>1, Kept DEF PartsInv, NodeInv, GoodExec, GoodTab
<1>3. GoodTab(tab, Signed, cosigned)
  BY <1>2, Kept, SignEdit, IdleEdit
<1> HIDE DEF exec, tab
<1>4. NodeInv' /\ Signed' = Signed /\ work' = work /\ work \in Nat
  BY <1>1, <1>2, CallStep, Kept DEF PartsInv, NodeInv
<1>5. Signed \subseteq Signed' /\ work' \in Nat /\ work <= work'
  BY <1>4
<1>6. tabs' \in [Tabs -> Tab] /\ \A s \in Tabs : GoodTab(tabs'[s], Signed, cosigned)
  BY <1>1, <1>3, SomeTabs
<1> QED BY <1>1, <1>4, <1>5, <1>6, NodeSide

\* A tab whose call is lost ends its run.
LEMMA DropSome ==
  ASSUME PartsInv, tabs' \in [Tabs -> {tabs[t] : t \in Tabs} \cup {Dropped(tabs[t]) : t \in Tabs}]
  PROVE  tabs' \in [Tabs -> Tab] /\ \A s \in Tabs : GoodTab(tabs'[s], Signed, cosigned)
<1>1. \A t \in Tabs : GoodTab(tabs[t], Signed, cosigned)
  BY DEF PartsInv, TabsInv
<1>2. \A t \in Tabs : GoodTab(Dropped(tabs[t]), Signed, cosigned)
  BY <1>1, IdleEdit DEF Dropped
<1>3. \A s \in Tabs : GoodTab(tabs'[s], Signed, cosigned)
  BY <1>1, <1>2
<1> QED BY <1>3 DEF GoodTab

LEMMA LoseStep ==
  ASSUME PartsInv, NEW r \in Requests, LoseResponse(r)
  PROVE  PartsInv'
<1>1. /\ Ledger!Respond(r)
      /\ tabs' = [t \in Tabs |-> IF tabs[t].slot = r THEN Dropped(tabs[t]) ELSE tabs[t]]
      /\ UNCHANGED <<chainVars, storage, cosigned, pending>>
  BY DEF LoseResponse
<1>2. channels[Id].deposit \in Nat
  BY IdIsKnown DEF PartsInv, ChainInv, Contract!Channel
<1>3. NodeInv' /\ Signed' = Signed /\ work' = work /\ work \in Nat
  BY <1>1, <1>2, CallStep, IdIsKnown DEF PartsInv, NodeInv, ChainInv, Contract!Channel
<1>4. tabs' \in [Tabs -> Tab] /\ \A s \in Tabs : GoodTab(tabs'[s], Signed, cosigned)
  BY <1>1, DropSome
<1> QED BY <1>1, <1>3, <1>4, NodeSide

LEMMA NodeRestartStep ==
  ASSUME PartsInv, NodeRestart
  PROVE  PartsInv'
<1>1. /\ Ledger!Restart
      /\ tabs' = [t \in Tabs |-> IF tabs[t].slot # NoSlot THEN Dropped(tabs[t]) ELSE tabs[t]]
      /\ UNCHANGED <<chainVars, storage, cosigned, pending>>
  BY DEF NodeRestart
<1>2. NodeInv' /\ Signed' = Signed /\ work' = work /\ work \in Nat
  BY <1>1, RestartStep DEF PartsInv, NodeInv
<1>3. tabs' \in [Tabs -> Tab] /\ \A s \in Tabs : GoodTab(tabs'[s], Signed, cosigned)
  BY <1>1, DropSome
<1> QED BY <1>1, <1>2, <1>3, NodeSide

LEMMA NodeOwnStep ==
  ASSUME PartsInv, NEW r \in Requests, NodeStep(r) \/ NodeStepFails(r)
  PROVE  PartsInv'
<1>1. UNCHANGED <<chainVars, tabs, storage, cosigned, pending>>
  BY DEF NodeStep, NodeStepFails, clientVars
<1>2. channels[Id].deposit \in Nat
  BY IdIsKnown DEF PartsInv, ChainInv, Contract!Channel
<1>3. NodeInv' /\ Signed \subseteq Signed' /\ work' \in Nat /\ work <= work'
  <2>1. CASE Ledger!FetchDeposit(r) \/ Ledger!CallFails(r)
    BY <1>1, <1>2, <2>1, CallStep DEF PartsInv, NodeInv
  <2>2. CASE Ledger!CacheDeposit(r)
    BY <1>1, <2>2, CacheStep DEF PartsInv, NodeInv
  <2>3. ASSUME NEW cost \in Costs, Ledger!StepSucceeds(r, cost)
        PROVE  NodeInv' /\ Signed \subseteq Signed' /\ work' \in Nat /\ work <= work'
    BY <1>1, <2>3, StepStep DEF PartsInv
  <2> QED BY <2>1, <2>2, <2>3 DEF NodeStep, NodeStepFails
<1>4. tabs' \in [Tabs -> Tab] /\ \A s \in Tabs : GoodTab(tabs'[s], Signed, cosigned)
  BY <1>1 DEF PartsInv, TabsInv
<1> QED BY <1>1, <1>3, <1>4, NodeSide

(***************************************************************************)
(* Transactions are mined.                                                 *)
(***************************************************************************)
LEMMA VerifyMeans ==
  ASSUME NEW u
  PROVE  Contract!VerifySigs(Id, u) <=> u \in cosigned /\ u \in Signed
BY DEF Contract!VerifySigs, Signed

LEMMA MinedTabs ==
  ASSUME PartsInv, NEW tx \in pending, Mined(tx)
  PROVE  TabsInv' /\ NodeInv' /\ work' = work
<1> DEFINE panel == IF tx.update = NoReceipt THEN "opened" ELSE "refreshing"
<1>1. /\ pending' = pending \ {tx}
      /\ tabs' = [t \in Tabs |-> IF t # tx.by THEN tabs[t]
                                ELSE [tabs[t] EXCEPT !.panel = panel]]
      /\ UNCHANGED <<nodeVars, storage, cosigned>>
  BY DEF Mined
<1>2. Signed' = Signed /\ cosigned' = cosigned
  BY <1>1 DEF Signed, nodeVars
<1>3. NodeInv' /\ work' = work
  BY <1>1, <1>2 DEF PartsInv, NodeInv, nodeVars
<1>4. panel \in {"ready", "open", "opened", "refreshing", "close"}
  OBVIOUS
<1> HIDE DEF panel
<1>5. \A t \in Tabs : /\ GoodTab(tabs[t], Signed, cosigned)
                      /\ GoodTab([tabs[t] EXCEPT !.panel = panel], Signed, cosigned)
  <2> TAKE t \in Tabs
  <2>1. GoodTab(tabs[t], Signed, cosigned)
    BY Kept
  <2> QED BY <1>4, <2>1, PanelEdit
<1>6. \A t \in Tabs : GoodTab(tabs'[t], Signed, cosigned)
  BY <1>1, <1>5
<1>7. tabs' \in [Tabs -> Tab]
  BY <1>1, <1>6 DEF GoodTab
<1>8. TabsInv'
  BY <1>1, <1>2, <1>6, <1>7 DEF PartsInv, TabsInv
<1> QED BY <1>3, <1>8

\* A settlement pays no more than the state it is given owes.
LEMMA SettlePays ==
  ASSUME ChainInv, NEW u \in Update, Contract!CooperativeClose(Id, u)
  PROVE  /\ channels' \in [Contract!ChannelIds -> Contract!Channel]
         /\ outcome' \in [Contract!ChannelIds -> Contract!Outcome]
         /\ outcome'[Id].paid \in Nat /\ outcome'[Id].paid <= u.cumOwed
<1> DEFINE c == Contract!WithUpdate(channels[Id], u)
           paid == Contract!PaidToNode(c)
           ended == Contract!Ended(c)
           event == [by |-> "cooperativeClose", paid |-> paid, refunded |-> c.deposit - paid]
<1>1. channels[Id] \in Contract!Channel /\ u.cumOwed \in Nat /\ u.nonce \in Nat
  BY IdIsKnown DEF ChainInv, Update, Ledger!Update
<1>2. c \in Contract!Channel /\ c.latestCumOwed = u.cumOwed
  BY <1>1 DEF Contract!WithUpdate, Contract!Channel
<1>3. channels' = [channels EXCEPT ![Id] = ended] /\ outcome' = [outcome EXCEPT ![Id] = event]
  BY DEF Contract!CooperativeClose, Contract!Settle
<1> HIDE DEF c
<1>4. c.deposit \in Nat /\ paid \in Nat /\ paid <= u.cumOwed /\ paid <= c.deposit
  BY <1>1, <1>2 DEF Contract!PaidToNode, Contract!Channel
<1> HIDE DEF paid
<1>5. event \in Contract!Outcome /\ event.paid = paid
  BY <1>4 DEF Contract!Outcome, Contract!Closers
<1>6. ended \in Contract!Channel
  BY <1>2 DEF Contract!Ended, Contract!Channel, Contract!Statuses
<1> HIDE DEF ended, event
<1> QED BY <1>3, <1>4, <1>5, <1>6, IdIsKnown DEF ChainInv

LEMMA MineStep ==
  ASSUME PartsInv, NEW tx \in pending, Mine(tx)
  PROVE  PartsInv'
<1>1. /\ channels[Id] \in Contract!Channel /\ channels[Id].status \in Contract!Statuses
      /\ tx \in Tx /\ tx.deposit \in Nat
  BY IdIsKnown DEF PartsInv, ChainInv, Contract!Channel, TabsInv, Tx
<1>3. CASE MineOpen(tx)
  <2> DEFINE c == Contract!Opened(channels[Id], tx.deposit, 0)
  <2>1. TabsInv' /\ NodeInv' /\ work' = work
    BY <1>3, MinedTabs DEF MineOpen
  <2>2. channels' = [channels EXCEPT ![Id] = c] /\ outcome' = outcome
    BY <1>3 DEF MineOpen, Contract!OpenChannel
  <2>3. c \in Contract!Channel
    BY <1>1 DEF Contract!Opened, Contract!Channel, Contract!Statuses
  <2> HIDE DEF c
  <2>4. ChainInv'
    BY <2>1, <2>2, <2>3, IdIsKnown DEF PartsInv, ChainInv
  <2> QED BY <2>1, <2>4 DEF PartsInv
<1>4. CASE MineClose(tx)
  <2>1. TabsInv' /\ NodeInv' /\ work' = work
    BY <1>4, MinedTabs DEF MineClose
  <2>2. Contract!CooperativeClose(Id, tx.update)
    BY <1>4 DEF MineClose
  <2>3. tx.update \in Signed
    BY <2>2, VerifyMeans DEF Contract!CooperativeClose
  <2>4. tx.update \in Update /\ tx.update.cumOwed \in Nat /\ tx.update.cumOwed <= work
        /\ work \in Nat
    BY <2>3 DEF PartsInv, NodeInv, Signed, Update, Ledger!Update
  <2>5. ChainInv'
    <3>1. /\ channels' \in [Contract!ChannelIds -> Contract!Channel]
          /\ outcome' \in [Contract!ChannelIds -> Contract!Outcome]
          /\ outcome'[Id].paid \in Nat /\ outcome'[Id].paid <= tx.update.cumOwed
      BY <2>2, <2>4, SettlePays DEF PartsInv
    <3>2. outcome'[Id].paid <= work'
      BY <2>1, <2>4, <3>1
    <3> QED BY <3>1, <3>2 DEF ChainInv
  <2> QED BY <2>1, <2>5 DEF PartsInv
<1>5. CASE MineRevert(tx)
  <2>1. TabsInv' /\ NodeInv' /\ work' = work /\ UNCHANGED chainVars
    BY <1>1, <1>5, MinedTabs DEF MineRevert
  <2>2. ChainInv'
    BY <2>1 DEF PartsInv, ChainInv, chainVars
  <2> QED BY <2>1, <2>2 DEF PartsInv
<1> QED BY <1>3, <1>4, <1>5 DEF Mine

LEMMA PartsStep ==
  ASSUME PartsInv, [Next]_vars
  PROVE  PartsInv'
<1>1. ASSUME NEW t \in Tabs, PanelStep(t)
      PROVE  PartsInv'
  BY <1>1, ReadOnMountStep, SendOpenStep, PersistOpenStep, RefreshStep, PanelFailsStep,
     PickLatestStep, SignLatestStep, SendCloseStep
     DEF PanelStep
<1>2. ASSUME NEW t \in Tabs, RunStep(t)
      PROVE  PartsInv'
  <2>1. CASE StartRun(t)
    BY <2>1, SendStep, StartIsGood DEF StartRun
  <2>2. CASE ContinueRun(t)
    <3>1. GoodAck(tabs[t].prevAck, cosigned)
          /\ tabs[t].prevAck \in Ledger!Ack \cup {NoAck}
      BY Kept DEF GoodTab, GoodAck
    <3> QED BY <2>2, <3>1, SendStep DEF ContinueRun
  <2> QED BY <1>2, <2>1, <2>2, ReceiveStep, SignAckStep, RejectAckStep DEF RunStep
<1>3. ASSUME NEW t \in Tabs, Reload(t)
      PROVE  PartsInv'
  BY <1>3, ReloadStep
<1>4. ASSUME NEW r \in Requests, NodeOrNetwork(r)
      PROVE  PartsInv'
  BY <1>4, NodeOwnStep, LoseStep DEF NodeOrNetwork
<1>5. CASE \E tx \in pending : Mine(tx)
  BY <1>5, MineStep
<1>6. CASE NodeRestart
  BY <1>6, NodeRestartStep
<1>7. CASE UNCHANGED vars
  <2>1. Signed' = Signed /\ cosigned' = cosigned
    BY <1>7 DEF vars, nodeVars, clientVars, Signed
  <2> QED BY <1>7, <2>1 DEF vars, chainVars, nodeVars, clientVars, PartsInv, NodeInv,
          TabsInv, ChainInv
<1> QED BY <1>1, <1>2, <1>3, <1>4, <1>5, <1>6, <1>7 DEF Next

LEMMA PartsInvariant == Spec => []PartsInv
BY InitParts, PartsStep, PTL DEF Spec

\* What a tab would submit to cooperativeClose carries both signatures of one
\* state, through reloads, restarts, rejected popups, lost responses and tabs
\* that sign side by side (useChannel.ts: signReceipt, cooperativeClose).
THEOREM ClosesAlwaysVerify == Spec => []CloseAlwaysVerifies
<1>1. PartsInv => CloseAlwaysVerifies
  <2> SUFFICES ASSUME PartsInv, NEW t \in Tabs, tabs[t].mem.lastAck # NoReceipt
               PROVE  /\ tabs[t].mem.lastReceipt = tabs[t].mem.lastAck
                      /\ Contract!VerifySigs(Id, tabs[t].mem.lastAck)
    BY DEF CloseAlwaysVerifies
  <2> QED BY Kept, VerifyMeans DEF GoodState
<1> QED BY <1>1, PartsInvariant, PTL

\* The ack the node keeps is one the contract would settle on (main.rs:
\* verify_and_record_ack never checks that it is of a state the node issued).
THEOREM AcksAreBilateral == Spec => []AckedIsBilateral
<1>1. PartsInv => AckedIsBilateral
  BY VerifyMeans DEF PartsInv, NodeInv, GoodAck, AckedIsBilateral
<1> QED BY <1>1, PartsInvariant, PTL

\* The client never pays for more than the backend did on its channel,
\* through restarts of the node, lost responses and overlapping runs.
THEOREM PaidForWork == Spec => []PaidForWorkDone
<1>1. PartsInv => PaidForWorkDone
  BY DEF PartsInv, ChainInv, PaidForWorkDone
<1> QED BY <1>1, PartsInvariant, PTL

(***************************************************************************)
(* One tab, and a user who does not touch the panel during a run or start  *)
(* one while the panel is busy.  The tab's memory is what localStorage     *)
(* holds.  Nothing is signed before the channel is there (UnfundedInv), so *)
(* an open that was sent before finds nothing to erase, and while it is    *)
(* under way no run can make something.                                    *)
(***************************************************************************)
OneTabOnly == \A s, t \in Tabs : s = t
PatientTab == OneTabOnly /\ Patient

UnfundedExec(exec) ==
  /\ exec.phase # "stepping"
  /\ exec.phase = "fetched" => exec.seen = 0
UnfundedInv ==
  channels[Id].status = "None" =>
    /\ issued = {} /\ channels[Id].deposit = 0
    /\ entry.deposit \in {NoDeposit, 0}
    /\ \A r \in Requests : UnfundedExec(execs[r])

SoloTab(tab) ==
  /\ tab.mem = storage
  /\ tab.panel # "ready" => tab.run = "idle"
  /\ tab.panel \in {"open", "opened"} /\ ~reopened => lastSigned = NoReceipt
AwaitedPanel(tx) == IF tx.update = NoReceipt THEN "open" ELSE "close"
StoredInv ==
  /\ storage.lastAck \in {NoReceipt, lastSigned}
  /\ ~reopened => storage.lastAck = lastSigned
  /\ lastSigned # NoReceipt => lastSigned \in cosigned
  /\ \A t \in Tabs : SoloTab(tabs[t])
PendingInv ==
  /\ \A tx \in pending : tx.by \in Tabs => tabs[tx.by].panel = AwaitedPanel(tx)
  /\ \A tx, ty \in pending : tx.by \in Tabs /\ tx.by = ty.by => tx = ty
  /\ \A tx \in pending : tx.held \subseteq cosigned
SoloInv == PartsInv /\ UnfundedInv /\ StoredInv /\ PendingInv

(***************************************************************************)
(* One such user, whose node does not restart.  NewestInv says that what   *)
(* may be signed next is at least as new as all that was signed, and that  *)
(* a close was sent with the newest.                                       *)
(***************************************************************************)
Covers(u) == \A v \in cosigned : v.nonce <= u.nonce
NewestTab(tab) ==
  /\ tab.latest # NoReceipt => Covers(tab.latest)
  /\ tab.panel = "sign" => tab.picked = tab.latest
  /\ tab.run = "signing" => Covers(tab.receipt)
  /\ (tab.run = "waiting" /\ execs[tab.slot].reply = "receipt")
       => Covers(execs[tab.slot].receipt)
SentNewest(txs) ==
  \A tx \in txs : tx.update # NoReceipt => \A u \in tx.held : u.nonce <= tx.update.nonce
NewestInv ==
  /\ \A u \in Signed : u.nonce <= entry.nonce
  /\ cosigned # {} => Covers(lastSigned) /\ lastSigned \in cosigned
  /\ SentNewest(pending)
  /\ \A t \in Tabs : NewestTab(tabs[t])

LEMMA InitSolo == Init => UnfundedInv /\ StoredInv /\ PendingInv
<1> SUFFICES ASSUME Init PROVE UnfundedInv /\ StoredInv /\ PendingInv
  OBVIOUS
<1>1. /\ \A t \in Tabs : tabs[t] = [NewTab EXCEPT !.loading = FALSE]
      /\ storage = NoState /\ lastSigned = NoReceipt /\ pending = {}
  BY DEF Init
<1>2. NoState.lastAck = NoReceipt
  BY DEF NoState
<1>3. \A t \in Tabs : /\ tabs[t].mem = NoState /\ tabs[t].run = "idle"
                      /\ tabs[t].panel = "ready"
  BY <1>1 DEF NewTab
<1>4. \A t \in Tabs : SoloTab(tabs[t])
  BY <1>1, <1>3 DEF SoloTab
<1>5. UnfundedInv
  <2>1. channels[Id].deposit = 0
    BY IdIsKnown DEF Init, Contract!Init, Contract!NoChannel
  <2>2. /\ issued = {} /\ entry.deposit = NoDeposit
        /\ \A r \in Requests : execs[r].phase = "idle"
    BY DEF Init, Ledger!Init, Ledger!Fresh, Ledger!Idle
  <2> QED BY <2>1, <2>2 DEF UnfundedInv, UnfundedExec
<1> QED BY <1>1, <1>2, <1>4, <1>5 DEF StoredInv, PendingInv

(***************************************************************************)
(* Before the deposit is there the node serves no call.                    *)
(***************************************************************************)
LEMMA UnfundedDecide ==
  ASSUME NEW exec \in Ledger!Exec
  PROVE  UnfundedExec(Ledger!Decide(exec, 0))
<1>1. Ledger!Decide(exec, 0) = [exec EXCEPT !.phase = "replied", !.reply = "zeroDeposit"]
  BY DEF Ledger!Decide, Ledger!Verdict
<1> QED BY <1>1 DEF UnfundedExec, Ledger!Exec

\* One call changes, to one that is not served either.
LEMMA UnfundedCall ==
  ASSUME PartsInv, UnfundedInv, channels[Id].status = "None", UNCHANGED <<channels, issued>>,
         entry'.deposit \in {NoDeposit, 0},
         NEW r \in Requests, NEW exec, UnfundedExec(exec), execs' = [execs EXCEPT ![r] = exec]
  PROVE  UnfundedInv'
<1>1. \A q \in Requests : execs'[q] = IF q = r THEN exec ELSE execs[q]
  BY DEF PartsInv, NodeInv
<1>2. (\A q \in Requests : UnfundedExec(execs[q]))'
  BY <1>1 DEF UnfundedInv, UnfundedExec
<1> QED BY <1>2 DEF UnfundedInv

LEMMA UnfundedNode ==
  ASSUME PartsInv, UnfundedInv, channels[Id].status = "None", UNCHANGED channels,
         NEW r \in Requests,
         \/ \E ack \in Ledger!Ack \cup {NoAck} : Ledger!Arrive(r, ack)
         \/ Ledger!Execute(r)
         \/ Ledger!Respond(r)
  PROVE  UnfundedInv'
<1>1. /\ execs[r] \in Ledger!Exec /\ UnfundedExec(execs[r])
      /\ entry \in Ledger!Entry /\ entry.deposit \in {NoDeposit, 0}
      /\ channels[Id].deposit = 0
  BY DEF PartsInv, NodeInv, UnfundedInv
<1>2. ASSUME NEW ack \in Ledger!Ack \cup {NoAck}, Ledger!Arrive(r, ack)
      PROVE  UnfundedInv'
  <2> DEFINE read == [Ledger!Idle EXCEPT !.ack = ack, !.cum = entry.cumOwed]
             waits == [read EXCEPT !.phase = "fetching"]
             next == IF entry.deposit = NoDeposit THEN waits
                     ELSE Ledger!Decide(read, entry.deposit)
  <2>1. read \in Ledger!Exec /\ waits.phase = "fetching"
    BY <1>1 DEF Ledger!Entry, Ledger!Idle, Ledger!Exec, Ledger!Replies
  <2>2. execs' = [execs EXCEPT ![r] = next] /\ UNCHANGED <<entry, issued>>
    BY <1>2 DEF Ledger!Arrive
  <2> HIDE DEF read
  <2>3. UnfundedExec(waits)
    BY <2>1 DEF UnfundedExec
  <2> HIDE DEF waits
  <2>4. UnfundedExec(next)
    BY <1>1, <2>1, <2>3, UnfundedDecide
  <2> HIDE DEF next
  <2> QED BY <1>1, <2>2, <2>4, UnfundedCall
<1>3. CASE Ledger!FetchDeposit(r)
  <2>1. UnfundedExec([execs[r] EXCEPT !.phase = "fetched", !.seen = channels[Id].deposit])
    BY <1>1 DEF UnfundedExec, Ledger!Exec
  <2>2. /\ execs' = [execs EXCEPT
             ![r] = [execs[r] EXCEPT !.phase = "fetched", !.seen = channels[Id].deposit]]
        /\ UNCHANGED <<entry, issued>>
    BY <1>3 DEF Ledger!FetchDeposit, Ledger!Fetched
  <2> QED BY <1>1, <2>1, <2>2, UnfundedCall
<1>4. CASE Ledger!CacheDeposit(r)
  <2>1. execs[r].seen = 0
    BY <1>1, <1>4 DEF UnfundedExec, Ledger!CacheDeposit
  <2>2. UnfundedExec(Ledger!Decide(execs[r], 0))
    BY <1>1, UnfundedDecide
  <2>3. /\ execs' = [execs EXCEPT ![r] = Ledger!Decide(execs[r], 0)]
        /\ entry'.deposit = 0 /\ issued' = issued
    BY <1>1, <1>4, <2>1 DEF Ledger!CacheDeposit, Ledger!Entry
  <2> QED BY <2>2, <2>3, UnfundedCall
<1>5. CASE Ledger!CallFails(r)
  <2>1. UnfundedExec([execs[r] EXCEPT !.phase = "replied", !.reply = "error"])
    BY <1>1 DEF UnfundedExec, Ledger!Exec
  <2>2. /\ execs' = [execs EXCEPT ![r] = [execs[r] EXCEPT !.phase = "replied",
                                                          !.reply = "error"]]
        /\ UNCHANGED <<entry, issued>>
    BY <1>5 DEF Ledger!CallFails
  <2> QED BY <1>1, <2>1, <2>2, UnfundedCall
<1>6. CASE Ledger!Respond(r)
  <2>1. UnfundedExec(Ledger!Idle)
    BY DEF UnfundedExec, Ledger!Idle
  <2> QED BY <1>1, <1>6, <2>1, UnfundedCall DEF Ledger!Respond
<1>7. \A cost \in Costs : ~Ledger!StepSucceeds(r, cost)
  BY <1>1 DEF UnfundedExec, Ledger!StepSucceeds
<1> QED BY <1>2, <1>3, <1>4, <1>5, <1>6, <1>7 DEF Ledger!Execute

\* A mined open or close leaves a channel that is there.
LEMMA MinedStatus ==
  ASSUME PartsInv, NEW tx \in pending, Mine(tx)
  PROVE  channels'[Id].status # "None" \/ UNCHANGED <<chainVars, nodeVars>>
<1>1. channels[Id] \in Contract!Channel /\ channels \in [Contract!ChannelIds -> Contract!Channel]
  BY IdIsKnown DEF PartsInv, ChainInv
<1>2. CASE MineOpen(tx)
  <2>1. channels' = [channels EXCEPT ![Id] = Contract!Opened(channels[Id], tx.deposit, 0)]
    BY <1>2 DEF MineOpen, Contract!OpenChannel
  <2> QED BY <1>1, <2>1, IdIsKnown DEF Contract!Opened, Contract!Channel
<1>3. CASE MineClose(tx)
  <2> DEFINE c == Contract!WithUpdate(channels[Id], tx.update)
  <2>1. channels' = [channels EXCEPT ![Id] = Contract!Ended(c)]
    BY <1>3 DEF MineClose, Contract!CooperativeClose, Contract!Settle
  <2> QED BY <1>1, <2>1, IdIsKnown DEF Contract!Ended, Contract!WithUpdate, Contract!Channel
<1>4. CASE MineRevert(tx)
  BY <1>4 DEF MineRevert, Mined
<1> QED BY <1>2, <1>3, <1>4 DEF Mine

LEMMA UnfundedStep ==
  ASSUME PartsInv, UnfundedInv, [Next]_vars
  PROVE  UnfundedInv'
<1>1. ASSUME UNCHANGED <<channels, nodeVars>>
      PROVE  UnfundedInv'
  BY <1>1 DEF UnfundedInv, UnfundedExec, nodeVars
<1>2. ASSUME NEW t \in Tabs, PanelStep(t) \/ Reload(t) \/ SignAck(t) \/ RejectAck(t)
      PROVE  UnfundedInv'
  <2>1. UNCHANGED <<chainVars, nodeVars>>
    BY <1>2 DEF PanelStep, ReadOnMount, Refresh, ReadStatus, PanelFails, SendOpen, PersistOpen,
                PickLatest, SignLatest, SendClose, Reload, SignAck, RejectAck, SignReceipt
  <2> QED BY <1>1, <2>1 DEF chainVars
<1>3. ASSUME NEW tx \in pending, Mine(tx)
      PROVE  UnfundedInv'
  <2>1. CASE channels'[Id].status # "None"
    BY <2>1 DEF UnfundedInv
  <2> QED BY <1>1, <1>3, <2>1, MinedStatus DEF chainVars
<1>4. ASSUME NEW r \in Requests, UNCHANGED chainVars,
             \/ \E ack \in Ledger!Ack \cup {NoAck} : Ledger!Arrive(r, ack)
             \/ Ledger!Execute(r)
             \/ Ledger!Respond(r)
      PROVE  UnfundedInv'
  <2>1. UNCHANGED channels
    BY <1>4 DEF chainVars
  <2>2. CASE channels[Id].status = "None"
    BY <1>4, <2>1, <2>2, UnfundedNode
  <2>3. CASE channels[Id].status # "None"
    BY <2>1, <2>3 DEF UnfundedInv
  <2> QED BY <2>2, <2>3
<1>5. ASSUME NEW t \in Tabs, StartRun(t) \/ ContinueRun(t) \/ Receive(t)
      PROVE  UnfundedInv'
  <2>1. /\ tabs[t].prevAck \in Ledger!Ack \cup {NoAck}
        /\ tabs[t].run = "waiting" => tabs[t].slot \in Requests
    BY Kept DEF GoodTab, Tab
  <2>2. ASSUME NEW ack \in Ledger!Ack \cup {NoAck}, Send(t, ack)
        PROVE  UnfundedInv'
    BY <1>4, <2>2 DEF Send
  <2>3. CASE Receive(t)
    BY <1>4, <2>1, <2>3 DEF Receive
  <2> QED BY <1>5, <2>1, <2>2, <2>3 DEF StartRun, ContinueRun
<1>6. ASSUME NEW r \in Requests, NodeOrNetwork(r)
      PROVE  UnfundedInv'
  <2>1. UNCHANGED chainVars /\ (Ledger!Execute(r) \/ Ledger!Respond(r))
    BY <1>6 DEF NodeOrNetwork, NodeStep, NodeStepFails, LoseResponse, Ledger!Execute
  <2> QED BY <1>4, <2>1
<1>7. CASE NodeRestart
  <2>1. /\ channels' = channels /\ issued' = issued /\ entry'.deposit = NoDeposit
        /\ \A r \in Requests : execs'[r].phase = "idle"
    BY <1>7 DEF NodeRestart, chainVars, Ledger!Restart, Ledger!Fresh, Ledger!Idle
  <2> QED BY <2>1 DEF UnfundedInv, UnfundedExec
<1>8. CASE UNCHANGED vars
  BY <1>1, <1>8 DEF vars, chainVars
<1> QED BY <1>2, <1>3, <1>5, <1>6, <1>7, <1>8 DEF Next, RunStep

\* Without a deposit there is nothing to sign.
LEMMA NothingSigned ==
  ASSUME SoloInv, channels[Id].status = "None"
  PROVE  cosigned = {} /\ lastSigned = NoReceipt
<1>1. Signed = {}
  BY DEF SoloInv, UnfundedInv, Signed
<1> QED BY <1>1 DEF SoloInv, PartsInv, NodeInv, StoredInv

\* A step that touches neither storage, the signatures, the transactions nor
\* the panel: an agent run goes on, or the node or the network does something.
LEMMA RunSideSolo ==
  ASSUME SoloInv, UNCHANGED <<storage, lastSigned, cosigned, pending, reopened>>,
         \A t \in Tabs :
           /\ tabs'[t].mem = tabs[t].mem /\ tabs'[t].panel = tabs[t].panel
           /\ tabs'[t].run # "idle" => tabs[t].run # "idle" \/ tabs[t].panel = "ready"
  PROVE  StoredInv' /\ PendingInv'
<1>1. \A t \in Tabs : SoloTab(tabs[t])'
  BY DEF SoloInv, StoredInv, SoloTab
<1>2. StoredInv'
  BY <1>1 DEF SoloInv, StoredInv
<1>3. PendingInv'
  BY DEF SoloInv, PendingInv, AwaitedPanel
<1> QED BY <1>2, <1>3

\* What is known of the only tab.
LEMMA OnlyTab ==
  ASSUME OneTabOnly, SoloInv, NEW t \in Tabs
  PROVE  /\ Tabs = {t} /\ tabs \in [Tabs -> Tab] /\ tabs[t] \in Tab
         /\ tabs[t].mem = storage /\ SoloTab(tabs[t])
         /\ storage \in State /\ pending \subseteq Tx
<1>1. Tabs = {t}
  BY DEF OneTabOnly
<1>2. SoloTab(tabs[t]) /\ tabs[t].mem = storage
  BY DEF SoloInv, StoredInv, SoloTab
<1>3. tabs \in [Tabs -> Tab]
  BY DEF SoloInv, PartsInv, TabsInv
<1>4. /\ tabs[t] \in Tab /\ GoodState(storage, cosigned) /\ pending \subseteq Tx
  BY Kept DEF SoloInv
<1> QED BY <1>1, <1>2, <1>3, <1>4 DEF GoodState

\* A step of the panel or a reload: enough to look at the only tab.
LEMMA PanelSideSolo ==
  ASSUME OneTabOnly, SoloInv, NEW t \in Tabs,
         storage'.lastAck \in {NoReceipt, lastSigned'},
         ~reopened' => storage'.lastAck = lastSigned',
         lastSigned' # NoReceipt => lastSigned' \in cosigned',
         SoloTab(tabs[t])',
         \A tx \in pending' : tx.by = t => tabs'[t].panel = AwaitedPanel(tx),
         \A tx, ty \in pending' : tx.by = t /\ ty.by = t => tx = ty,
         \A tx \in pending' : tx.held \subseteq cosigned'
  PROVE  StoredInv' /\ PendingInv'
<1>1. Tabs = {t}
  BY OnlyTab
<1>2. StoredInv'
  BY <1>1 DEF StoredInv
<1>3. PendingInv'
  BY <1>1 DEF PendingInv, AwaitedPanel
<1> QED BY <1>2, <1>3

\* The tab becomes one with the same memory, and nothing else happens to what
\* is signed, stored or sent.
LEMMA TabOnlySolo ==
  ASSUME OneTabOnly, SoloInv, NEW t \in Tabs, NEW tab, tabs' = [tabs EXCEPT ![t] = tab],
         UNCHANGED <<storage, lastSigned, cosigned, pending, reopened>>,
         tab.mem = tabs[t].mem, tab.panel # "ready" => tab.run = "idle",
         tab.panel \in {"open", "opened"} => tab.panel = tabs[t].panel,
         \A tx \in pending : tx.by = t => tab.panel = AwaitedPanel(tx)
  PROVE  StoredInv' /\ PendingInv'
<1>1. tabs'[t] = tab /\ SoloTab(tabs[t])
  BY OnlyTab
<1>2. SoloTab(tabs[t])'
  BY <1>1 DEF SoloTab
<1>3. /\ \A tx, ty \in pending : tx.by = t /\ ty.by = t => tx = ty
      /\ \A tx \in pending : tx.held \subseteq cosigned
  BY DEF SoloInv, PendingInv
<1> QED BY <1>1, <1>2, <1>3, PanelSideSolo DEF SoloInv, StoredInv

\* A transaction of the only tab keeps its panel busy.
LEMMA NoneAwaited ==
  ASSUME SoloInv, NEW t \in Tabs, tabs[t].panel \notin {"open", "close"}
  PROVE  \A tx \in pending : tx.by # t
BY DEF SoloInv, PendingInv, AwaitedPanel

LEMMA ReadSolo ==
  ASSUME OneTabOnly, SoloInv, NEW t \in Tabs, ReadOnMount(t) \/ Refresh(t)
  PROVE  StoredInv' /\ PendingInv'
<1>1. tabs[t] \in Tab /\ SoloTab(tabs[t])
  BY OnlyTab
<1>2. ASSUME NEW tab \in Tab, ReadStatus(t, tab), tab.mem = tabs[t].mem,
             tab.run = tabs[t].run,
             \/ tab.panel = tabs[t].panel
             \/ tab.panel = "ready" /\ tabs[t].panel = "refreshing"
      PROVE  StoredInv' /\ PendingInv'
  <2>1. PICK seen : tabs' = [tabs EXCEPT ![t] = [tab EXCEPT !.seen = seen]]
    BY <1>2 DEF ReadStatus
  <2> DEFINE next == [tab EXCEPT !.seen = seen]
  <2>2. next.mem = tab.mem /\ next.run = tab.run /\ next.panel = tab.panel
    BY DEF Tab
  <2>3. tabs' = [tabs EXCEPT ![t] = next]
        /\ UNCHANGED <<storage, lastSigned, cosigned, pending, reopened>>
    BY <1>2, <2>1 DEF ReadStatus
  <2> HIDE DEF next
  <2>4. \A tx \in pending : tx.by = t => next.panel = AwaitedPanel(tx)
    BY <1>2, <2>2, NoneAwaited DEF SoloInv, PendingInv
  <2> QED BY ZenonT(60), <1>1, <1>2, <2>2, <2>3, <2>4, TabOnlySolo DEF SoloTab
<1>3. CASE ReadOnMount(t)
  <2> DEFINE tab == [tabs[t] EXCEPT !.loading = FALSE]
  <2>1. /\ tab \in Tab /\ tab.mem = tabs[t].mem /\ tab.run = tabs[t].run
        /\ tab.panel = tabs[t].panel
    BY <1>1 DEF Tab
  <2>2. ReadStatus(t, tab)
    BY <1>3 DEF ReadOnMount
  <2> HIDE DEF tab
  <2> QED BY <1>2, <2>1, <2>2
<1>4. CASE Refresh(t)
  <2> DEFINE tab == [tabs[t] EXCEPT !.panel = "ready"]
  <2>1. /\ tab \in Tab /\ tab.mem = tabs[t].mem /\ tab.run = tabs[t].run
        /\ tab.panel = "ready" /\ tabs[t].panel = "refreshing"
    BY <1>1, <1>4 DEF Tab, Refresh
  <2>2. ReadStatus(t, tab)
    BY <1>4 DEF Refresh
  <2> HIDE DEF tab
  <2> QED BY <1>2, <2>1, <2>2
<1> QED BY <1>3, <1>4

LEMMA SendOpenSolo ==
  ASSUME PatientTab, SoloInv, NEW t \in Tabs, NEW amount \in Amounts, SendOpen(t, amount)
  PROVE  StoredInv' /\ PendingInv'
<1> DEFINE tx == [by |-> t, deposit |-> amount, update |-> NoReceipt, held |-> {}]
<1>1. /\ tabs[t] \in Tab /\ tabs \in [Tabs -> Tab] /\ SoloTab(tabs[t])
  BY OnlyTab DEF PatientTab
<1>2. /\ tabs[t].panel = "ready" /\ tabs[t].run = "idle"
      /\ tabs' = [tabs EXCEPT ![t] = [tabs[t] EXCEPT !.panel = "open"]]
      /\ pending' = pending \cup {tx} /\ UNCHANGED <<storage, lastSigned, cosigned>>
      /\ reopened' = (reopened \/ channels[Id].status # "None")
  BY DEF SendOpen, MayTouchPanel, PatientTab
<1>3. tabs'[t].mem = tabs[t].mem /\ tabs'[t].run = "idle" /\ tabs'[t].panel = "open"
  BY <1>1, <1>2 DEF Tab
\* A first open, and then nothing is signed, or an open of a channel that is there.
<1>4. ~reopened' => ~reopened /\ lastSigned = NoReceipt
  BY <1>2, NothingSigned
<1>5. SoloTab(tabs[t])'
  BY <1>1, <1>2, <1>3, <1>4 DEF SoloTab
<1>6. \A ty \in pending : ty.by # t
  BY <1>2, NoneAwaited
<1>7. tx.by = t /\ AwaitedPanel(tx) = "open" /\ tx.held = {}
  BY DEF AwaitedPanel
<1> HIDE DEF tx
<1>8. \A ty \in pending' : ty.held \subseteq cosigned
  BY <1>2, <1>7 DEF SoloInv, PendingInv
<1> QED BY <1>2, <1>3, <1>4, <1>5, <1>6, <1>7, <1>8, PanelSideSolo
        DEF SoloInv, StoredInv, PatientTab

LEMMA PersistOpenSolo ==
  ASSUME OneTabOnly, SoloInv, NEW t \in Tabs, PersistOpen(t)
  PROVE  StoredInv' /\ PendingInv'
<1>1. /\ tabs[t] \in Tab /\ tabs \in [Tabs -> Tab] /\ SoloTab(tabs[t])
  BY OnlyTab
<1>2. /\ tabs[t].panel = "opened"
      /\ tabs' = [tabs EXCEPT ![t] = [tabs[t] EXCEPT !.mem = NewState,
                                                     !.panel = "refreshing"]]
      /\ storage' = NewState /\ UNCHANGED <<pending, lastSigned, cosigned, reopened>>
  BY DEF PersistOpen
<1>3. /\ tabs'[t].mem = NewState /\ tabs'[t].run = tabs[t].run
      /\ tabs'[t].panel = "refreshing"
  BY <1>1, <1>2 DEF Tab
<1>4. NewState.lastAck = NoReceipt
  BY DEF NewState
<1>5. SoloTab(tabs[t])'
  BY <1>1, <1>2, <1>3 DEF SoloTab
<1>6. storage'.lastAck = NoReceipt /\ (~reopened' => lastSigned = NoReceipt)
  BY <1>1, <1>2, <1>4 DEF SoloTab
<1>7. \A ty \in pending : ty.by # t
  BY <1>2, NoneAwaited
<1> QED BY <1>2, <1>5, <1>6, <1>7, PanelSideSolo DEF SoloInv, StoredInv, PendingInv

LEMMA PickLatestSolo ==
  ASSUME PatientTab, SoloInv, NEW t \in Tabs, PickLatest(t)
  PROVE  StoredInv' /\ PendingInv'
<1> DEFINE tab == [tabs[t] EXCEPT !.panel = "sign", !.picked = tabs[t].latest]
<1>1. tabs[t] \in Tab
  BY OnlyTab DEF PatientTab
<1>2. /\ tabs[t].panel = "ready" /\ tabs[t].run = "idle"
      /\ tabs' = [tabs EXCEPT ![t] = tab]
      /\ UNCHANGED <<storage, pending, lastSigned, cosigned, reopened>>
  BY DEF PickLatest, MayTouchPanel, PatientTab
<1>3. tab.mem = tabs[t].mem /\ tab.run = tabs[t].run /\ tab.panel = "sign"
  BY <1>1 DEF Tab
<1> HIDE DEF tab
<1>4. \A tx \in pending : tx.by # t
  BY <1>2, NoneAwaited
<1> QED BY <1>2, <1>3, <1>4, TabOnlySolo DEF PatientTab

LEMMA SendCloseSolo ==
  ASSUME PatientTab, SoloInv, NEW t \in Tabs, SendClose(t)
  PROVE  StoredInv' /\ PendingInv'
<1> DEFINE tx == [by |-> t, deposit |-> 0, update |-> tabs[t].mem.lastAck, held |-> cosigned]
<1>1. /\ tabs[t] \in Tab /\ tabs \in [Tabs -> Tab] /\ SoloTab(tabs[t])
  BY OnlyTab DEF PatientTab
<1>2. /\ tabs[t].panel = "ready" /\ tabs[t].run = "idle" /\ tabs[t].mem.lastAck # NoReceipt
      /\ tabs' = [tabs EXCEPT ![t] = [tabs[t] EXCEPT !.panel = "close"]]
      /\ pending' = pending \cup {tx}
      /\ UNCHANGED <<storage, lastSigned, cosigned, reopened>>
  BY DEF SendClose, SubmittedUpdate, MayTouchPanel, PatientTab
<1>3. tabs'[t].mem = tabs[t].mem /\ tabs'[t].run = "idle" /\ tabs'[t].panel = "close"
  BY <1>1, <1>2 DEF Tab
<1>4. SoloTab(tabs[t])'
  BY <1>1, <1>2, <1>3 DEF SoloTab
<1>5. \A ty \in pending : ty.by # t
  BY <1>2, NoneAwaited
<1>6. tx.by = t /\ AwaitedPanel(tx) = "close" /\ tx.held = cosigned
  BY <1>2 DEF AwaitedPanel
<1> HIDE DEF tx
<1>7. \A ty \in pending' : ty.held \subseteq cosigned
  BY <1>2, <1>6 DEF SoloInv, PendingInv
<1> QED BY <1>2, <1>3, <1>4, <1>5, <1>6, <1>7, PanelSideSolo
        DEF SoloInv, StoredInv, PatientTab

\* Transactions nobody awaits any longer.
LEMMA OrphanedFields ==
  ASSUME pending \subseteq Tx, NEW t \in Tabs
  PROVE  \A tx \in Orphaned(t) :
           /\ tx.by # t
           /\ \E ty \in pending : /\ tx.update = ty.update /\ tx.held = ty.held
                                  /\ tx.deposit = ty.deposit
<1>1. \A ty \in Tx : /\ [ty EXCEPT !.by = NoTab].by = NoTab
                     /\ [ty EXCEPT !.by = NoTab].update = ty.update
                     /\ [ty EXCEPT !.by = NoTab].held = ty.held
                     /\ [ty EXCEPT !.by = NoTab].deposit = ty.deposit
  BY DEF Tx
<1> QED BY ZenonT(60), <1>1, ProtocolAssumption DEF Orphaned

\* A handler that fails, or a page that goes, leaves its tab's transaction to
\* nobody.
LEMMA OrphanSolo ==
  ASSUME OneTabOnly, SoloInv, NEW t \in Tabs, PanelFails(t) \/ Reload(t)
  PROVE  StoredInv' /\ PendingInv'
<1>1. /\ tabs[t] \in Tab /\ tabs \in [Tabs -> Tab] /\ SoloTab(tabs[t])
      /\ pending \subseteq Tx
  BY OnlyTab
<1>2. /\ pending' = Orphaned(t) /\ UNCHANGED <<storage, lastSigned, cosigned, reopened>>
  BY DEF PanelFails, Reload
<1>3. tabs'[t].mem = storage /\ tabs'[t].panel = "ready"
  <2>1. CASE PanelFails(t)
    <3>1. tabs' = [tabs EXCEPT ![t] = [tabs[t] EXCEPT !.panel = "ready",
                                                      !.picked = NoReceipt]]
      BY <2>1 DEF PanelFails
    <3> QED BY <1>1, <3>1 DEF Tab, SoloTab
  <2>2. CASE Reload(t)
    <3>1. tabs' = [tabs EXCEPT ![t] = [NewTab EXCEPT !.mem = storage]]
      BY <2>2 DEF Reload
    <3> QED BY <1>1, <3>1 DEF NewTab
  <2> QED BY <2>1, <2>2
<1>4. SoloTab(tabs[t])'
  BY <1>2, <1>3 DEF SoloTab
<1>5. \A tx \in pending' : tx.by # t /\ tx.held \subseteq cosigned
  BY <1>1, <1>2, OrphanedFields DEF SoloInv, PendingInv
<1> QED BY <1>2, <1>4, <1>5, PanelSideSolo DEF SoloInv, StoredInv

\* Signing: the tab's memory and storage take the same pair.
LEMMA SignSolo ==
  ASSUME OneTabOnly, SoloInv, NEW t \in Tabs, NEW receipt, NEW next \in Tab,
         SignReceipt(t, receipt, next), next.panel = "ready", tabs[t].panel \in {"ready", "sign"}
  PROVE  StoredInv' /\ PendingInv'
<1> DEFINE mem == Persisted(tabs[t].mem, receipt)
<1>1. /\ tabs \in [Tabs -> Tab] /\ storage \in State
      /\ tabs[t].mem = storage
      /\ tabs' = [tabs EXCEPT ![t] = [next EXCEPT !.mem = mem]]
      /\ storage' = mem /\ lastSigned' = receipt /\ cosigned' = cosigned \cup {receipt}
      /\ UNCHANGED <<pending, reopened>>
  BY OnlyTab DEF SignReceipt, StoredState
<1>2. mem.lastAck = receipt
  BY <1>1 DEF Persisted, State
<1> HIDE DEF mem
<1>3. tabs'[t].mem = mem /\ tabs'[t].panel = "ready"
  BY <1>1 DEF Tab
<1>4. SoloTab(tabs[t])'
  BY <1>1, <1>3 DEF SoloTab
<1>5. \A tx \in pending : tx.by # t
  BY NoneAwaited
<1>6. \A tx \in pending' : tx.held \subseteq cosigned'
  BY <1>1 DEF SoloInv, PendingInv
<1> QED BY <1>1, <1>2, <1>3, <1>4, <1>5, <1>6, PanelSideSolo

LEMMA SignLatestSolo ==
  ASSUME OneTabOnly, SoloInv, NEW t \in Tabs, SignLatest(t)
  PROVE  StoredInv' /\ PendingInv'
<1> DEFINE next == [tabs[t] EXCEPT !.panel = "ready", !.picked = NoReceipt]
<1>1. /\ tabs[t] \in Tab /\ tabs[t].panel = "sign"
      /\ SignReceipt(t, tabs[t].picked, next)
  BY OnlyTab DEF SignLatest
<1>2. next \in Tab /\ next.panel = "ready"
  BY <1>1 DEF Tab, MaybeUpdate
<1> HIDE DEF next
<1> QED BY <1>1, <1>2, SignSolo

\* What a tab is after a receipt.
LEMMA AfterReceiptFields ==
  ASSUME NEW tab \in Tab, NEW ack \in Ledger!Ack \cup {NoAck},
         NEW next \in AfterReceipt(tab, ack)
  PROVE  /\ next \in Tab /\ next.run \in {"idle", "tool"}
         /\ next.mem = tab.mem /\ next.panel = tab.panel
         /\ next.picked = tab.picked /\ next.latest = tab.receipt /\ next.slot = tab.slot
<1>1. tab.receipt \in MaybeUpdate /\ NoReceipt \in MaybeUpdate
  BY DEF Tab, MaybeUpdate
<1> QED BY ZenonT(60), <1>1 DEF AfterReceipt, Tab

LEMMA SignAckSolo ==
  ASSUME OneTabOnly, SoloInv, NEW t \in Tabs, SignAck(t)
  PROVE  StoredInv' /\ PendingInv'
<1> DEFINE receipt == tabs[t].receipt
           ack == [update |-> receipt, signer |-> Client]
<1>1. PICK next \in AfterReceipt(tabs[t], ack) : SignReceipt(t, receipt, next)
  BY DEF SignAck
<1>2. /\ tabs[t] \in Tab /\ SoloTab(tabs[t]) /\ tabs[t].run = "signing"
      /\ receipt \in Update
  BY OnlyTab, Kept DEF SignAck, SoloInv, GoodTab
<1>3. ack \in Ledger!Ack
  BY <1>2 DEF Ledger!Ack, Update
<1>4. next \in Tab /\ next.panel = tabs[t].panel
  BY <1>2, <1>3, AfterReceiptFields
<1>5. tabs[t].panel = "ready"
  BY <1>2 DEF SoloTab
<1> HIDE DEF receipt
<1> QED BY <1>1, <1>4, <1>5, SignSolo

\* A transaction is mined or reverts: the tab that waited for it goes on.
LEMMA MinedSolo ==
  ASSUME OneTabOnly, SoloInv, NEW tx \in pending, Mined(tx)
  PROVE  StoredInv' /\ PendingInv'
<1> DEFINE panel == IF tx.update = NoReceipt THEN "opened" ELSE "refreshing"
<1>1. /\ pending' = pending \ {tx}
      /\ tabs' = [t \in Tabs |-> IF t # tx.by THEN tabs[t]
                                 ELSE [tabs[t] EXCEPT !.panel = panel]]
      /\ UNCHANGED <<storage, lastSigned, cosigned, reopened>>
  BY DEF Mined
<1>2. \A ty \in pending' : ty.held \subseteq cosigned
  BY <1>1 DEF SoloInv, PendingInv
<1>3. ASSUME NEW t \in Tabs, tx.by = t
      PROVE  StoredInv' /\ PendingInv'
  <2>1. tabs[t] \in Tab /\ SoloTab(tabs[t]) /\ tabs[t].panel = AwaitedPanel(tx)
    BY <1>3, OnlyTab DEF SoloInv, PendingInv
  <2>2. /\ tabs'[t].mem = tabs[t].mem /\ tabs'[t].run = tabs[t].run
        /\ tabs'[t].panel = panel
    BY <1>1, <1>3, <2>1 DEF Tab
  <2>3. SoloTab(tabs[t])'
    BY <1>1, <2>1, <2>2 DEF SoloTab, AwaitedPanel
  <2>4. \A ty \in pending' : ty.by # t
    BY <1>1, <1>3 DEF SoloInv, PendingInv
  <2> QED BY <1>1, <1>2, <2>3, <2>4, PanelSideSolo DEF SoloInv, StoredInv
<1>4. CASE tx.by \notin Tabs
  <2>1. \A t \in Tabs : tabs'[t] = tabs[t]
    BY <1>1, <1>4
  <2>2. \A t \in Tabs : SoloTab(tabs[t])'
    BY <1>1, <2>1 DEF SoloInv, StoredInv, SoloTab
  <2>3. StoredInv'
    BY <1>1, <2>2 DEF SoloInv, StoredInv
  <2>4. PendingInv'
    BY <1>1, <1>2, <2>1 DEF SoloInv, PendingInv, AwaitedPanel
  <2> QED BY <2>3, <2>4
<1> QED BY <1>3, <1>4

\* A run sends, receives or gives up; it begins only while the panel is ready.
LEMMA RunSolo ==
  ASSUME PatientTab, SoloInv, NEW t \in Tabs,
         StartRun(t) \/ ContinueRun(t) \/ Receive(t) \/ RejectAck(t)
  PROVE  StoredInv' /\ PendingInv'
<1>1. PICK tab : /\ tabs' = [tabs EXCEPT ![t] = tab]
                 /\ tab.mem = tabs[t].mem /\ tab.panel = tabs[t].panel
                 /\ tabs[t].run # "idle" \/ tabs[t].panel = "ready"
  <2>1. tabs[t] \in Tab
    BY Kept DEF SoloInv
  <2>2. ASSUME NEW ack, Send(t, ack)
        PROVE  \E tab : /\ tabs' = [tabs EXCEPT ![t] = tab]
                        /\ tab.mem = tabs[t].mem /\ tab.panel = tabs[t].panel
    <3>1. PICK r \in Requests :
            tabs' = [tabs EXCEPT ![t] = [tabs[t] EXCEPT !.run = "waiting", !.slot = r,
                                                        !.prevAck = ack]]
      BY <2>2 DEF Send
    <3> DEFINE tab == [tabs[t] EXCEPT !.run = "waiting", !.slot = r, !.prevAck = ack]
    <3>2. tab.mem = tabs[t].mem /\ tab.panel = tabs[t].panel
      BY <2>1 DEF Tab
    <3>3. tabs' = [tabs EXCEPT ![t] = tab]
      BY <3>1
    <3> HIDE DEF tab
    <3> QED BY <3>2, <3>3
  <2>3. CASE StartRun(t)
    BY <2>2, <2>3 DEF StartRun, MayStartRun, PatientTab
  <2>4. CASE ContinueRun(t)
    BY <2>2, <2>4 DEF ContinueRun
  <2>5. CASE Receive(t)
    <3> DEFINE exec == execs[tabs[t].slot]
               tab == IF exec.reply = "receipt"
                      THEN [tabs[t] EXCEPT !.run = "signing", !.slot = NoSlot,
                                           !.receipt = exec.receipt]
                      ELSE [tabs[t] EXCEPT !.run = "idle", !.slot = NoSlot, !.prevAck = NoAck]
    <3>1. tabs' = [tabs EXCEPT ![t] = tab] /\ tabs[t].run = "waiting"
      BY <2>5 DEF Receive
    <3>2. tab.mem = tabs[t].mem /\ tab.panel = tabs[t].panel
      BY <2>1 DEF Tab
    <3> HIDE DEF tab
    <3> QED BY <3>1, <3>2
  <2>6. CASE RejectAck(t)
    <3>1. PICK tab \in AfterReceipt(tabs[t], tabs[t].prevAck) : tabs' = [tabs EXCEPT ![t] = tab]
      BY <2>6 DEF RejectAck
    <3>2. tabs[t].prevAck \in Ledger!Ack \cup {NoAck}
      BY <2>1 DEF Tab
    <3>3. tab.mem = tabs[t].mem /\ tab.panel = tabs[t].panel
      BY <2>1, <3>2, AfterReceiptFields
    <3> QED BY <2>6, <3>1, <3>3 DEF RejectAck
  <2> QED BY <2>3, <2>4, <2>5, <2>6
<1>2. UNCHANGED <<storage, lastSigned, cosigned, pending, reopened>>
  BY DEF StartRun, ContinueRun, Receive, RejectAck, Send
<1>3. \A s \in Tabs : tabs'[s] = IF s = t THEN tab ELSE tabs[s]
  BY <1>1 DEF SoloInv, PartsInv, TabsInv
<1> QED BY <1>1, <1>2, <1>3, RunSideSolo

\* The node's and the network's steps end runs at most.
LEMMA NodeSideSolo ==
  ASSUME SoloInv,
         \/ \E r \in Requests : NodeOrNetwork(r)
         \/ NodeRestart
         \/ UNCHANGED vars
  PROVE  StoredInv' /\ PendingInv'
<1>1. \A t \in Tabs : /\ Dropped(tabs[t]).mem = tabs[t].mem
                      /\ Dropped(tabs[t]).panel = tabs[t].panel
                      /\ Dropped(tabs[t]).run = "idle"
  BY Kept DEF SoloInv, Dropped, Tab
<1>2. \A t \in Tabs : tabs'[t] \in {tabs[t], Dropped(tabs[t])}
  BY DEF NodeOrNetwork, NodeStep, NodeStepFails, LoseResponse, NodeRestart, clientVars, vars
<1>3. UNCHANGED <<storage, lastSigned, cosigned, pending, reopened>>
  BY DEF NodeOrNetwork, NodeStep, NodeStepFails, LoseResponse, NodeRestart, clientVars, vars
<1>4. \A t \in Tabs :
        /\ tabs'[t].mem = tabs[t].mem /\ tabs'[t].panel = tabs[t].panel
        /\ tabs'[t].run # "idle" => tabs[t].run # "idle"
  BY <1>1, <1>2
<1> QED BY <1>3, <1>4, RunSideSolo

LEMMA SoloStep ==
  ASSUME PatientTab, SoloInv, [Next]_vars
  PROVE  SoloInv'
<1> OneTabOnly
  BY DEF PatientTab
<1>1. PartsInv' /\ UnfundedInv'
  BY PartsStep, UnfundedStep DEF SoloInv
<1>2. ASSUME NEW t \in Tabs, PanelStep(t)
      PROVE  StoredInv' /\ PendingInv'
  BY <1>2, ReadSolo, SendOpenSolo, PersistOpenSolo, OrphanSolo, PickLatestSolo,
     SignLatestSolo, SendCloseSolo DEF PanelStep
<1>3. ASSUME NEW t \in Tabs, RunStep(t)
      PROVE  StoredInv' /\ PendingInv'
  BY <1>3, RunSolo, SignAckSolo DEF RunStep
<1>4. ASSUME NEW t \in Tabs, Reload(t)
      PROVE  StoredInv' /\ PendingInv'
  BY <1>4, OrphanSolo
<1>5. ASSUME NEW tx \in pending, Mine(tx)
      PROVE  StoredInv' /\ PendingInv'
  BY <1>5, MinedSolo DEF Mine, MineOpen, MineClose, MineRevert
<1>6. ASSUME (\E r \in Requests : NodeOrNetwork(r)) \/ NodeRestart \/ UNCHANGED vars
      PROVE  StoredInv' /\ PendingInv'
  BY <1>6, NodeSideSolo
<1> QED BY <1>1, <1>2, <1>3, <1>4, <1>5, <1>6 DEF Next, SoloInv

LEMMA SoloInvariant == PatientTab => (Spec => []SoloInv)
<1> SUFFICES ASSUME PatientTab PROVE Spec => []SoloInv
  OBVIOUS
<1>1. Init => SoloInv
  BY InitParts, InitSolo DEF SoloInv
<1>2. SoloInv /\ [Next]_vars => SoloInv'
  BY SoloStep
<1> QED BY <1>1, <1>2, PTL DEF Spec

\* With one tab whose user waits for runs and transactions, what the client's
\* wallet signed last is what a reload finds, through failed waits, popups and
\* readings, restarts of the node and lost responses, as long as no open was
\* sent for a channel that was there (useChannel.ts: persist, openChannel,
\* signReceipt).  An open sent before the channel was there erases nothing,
\* however late its receipt arrives.
THEOREM StorageAlwaysKeeps == PatientTab => (Spec => []StorageKeepsLastAck)
<1> SUFFICES ASSUME PatientTab PROVE Spec => []StorageKeepsLastAck
  OBVIOUS
<1>1. SoloInv => StorageKeepsLastAck
  BY DEF SoloInv, StoredInv, StorageKeepsLastAck
<1> QED BY <1>1, SoloInvariant, PTL

(***************************************************************************)
(* The newest state: one patient user, no restart of the node.             *)
(***************************************************************************)
Calm == PatientTab /\ MaxRestarts = 0
CalmInv == SoloInv /\ NewestInv

LEMMA InitNewest == Init => NewestInv
<1> SUFFICES ASSUME Init PROVE NewestInv
  OBVIOUS
<1>1. /\ \A t \in Tabs : tabs[t] = [NewTab EXCEPT !.loading = FALSE]
      /\ Signed = {} /\ cosigned = {} /\ pending = {}
  BY DEF Init, Signed
<1>2. \A t \in Tabs : /\ tabs[t].run = "idle" /\ tabs[t].panel = "ready"
                      /\ tabs[t].latest = NoReceipt
  BY <1>1 DEF NewTab
<1>3. \A t \in Tabs : NewestTab(tabs[t])
  BY <1>2 DEF NewestTab
<1> QED BY <1>1, <1>3 DEF NewestInv, SentNewest

\* A step that signs nothing, between runs or beside one.
LEMMA PanelNewest ==
  ASSUME OneTabOnly, NewestInv, NEW t \in Tabs, UNCHANGED <<nodeVars, cosigned, lastSigned>>,
         SentNewest(pending'),
         \/ tabs'[t].run = "idle"
         \/ /\ tabs'[t].run = tabs[t].run /\ tabs'[t].slot = tabs[t].slot
            /\ tabs'[t].receipt = tabs[t].receipt,
         tabs'[t].latest \in {NoReceipt, tabs[t].latest},
         tabs'[t].panel = "sign" => tabs'[t].picked = tabs'[t].latest
  PROVE  NewestInv'
<1>1. Tabs = {t} /\ Signed' = Signed /\ entry' = entry /\ execs' = execs
  BY DEF OneTabOnly, Signed, nodeVars
<1>2. NewestTab(tabs[t])'
  BY <1>1 DEF NewestInv, NewestTab, Covers
<1>3. (\A s \in Tabs : NewestTab(tabs[s]))'
  BY <1>1, <1>2
<1>4. (cosigned # {} => Covers(lastSigned) /\ lastSigned \in cosigned)'
  BY DEF NewestInv, Covers
<1>5. SentNewest(pending)'
  BY DEF SentNewest
<1> QED BY <1>1, <1>3, <1>4, <1>5 DEF NewestInv

\* The only tab with what it may sign next, and the closes that are sent.
LEMMA CalmTab ==
  ASSUME Calm, CalmInv, NEW t \in Tabs
  PROVE  /\ OneTabOnly /\ NewestInv /\ tabs \in [Tabs -> Tab] /\ tabs[t] \in Tab
         /\ SoloTab(tabs[t]) /\ NewestTab(tabs[t]) /\ SentNewest(pending)
         /\ pending \subseteq Tx
BY OnlyTab DEF Calm, PatientTab, CalmInv, NewestInv

\* The reading of the mount may end during a run, that of the panel does not.
LEMMA ReadNewest ==
  ASSUME Calm, CalmInv, NEW t \in Tabs, ReadOnMount(t) \/ Refresh(t)
  PROVE  NewestInv'
<1>1. ASSUME NEW tab \in Tab, ReadStatus(t, tab), tab.run = tabs[t].run,
             tab.slot = tabs[t].slot, tab.receipt = tabs[t].receipt,
             tab.latest = tabs[t].latest,
             tab.panel = "sign" => tab.picked = tabs[t].latest
      PROVE  NewestInv'
  <2>1. PICK seen : tabs' = [tabs EXCEPT ![t] = [tab EXCEPT !.seen = seen]]
    BY <1>1 DEF ReadStatus
  <2>2. /\ tabs'[t].run = tab.run /\ tabs'[t].slot = tab.slot
        /\ tabs'[t].receipt = tab.receipt /\ tabs'[t].latest = tab.latest
        /\ tabs'[t].panel = tab.panel /\ tabs'[t].picked = tab.picked
    BY <2>1, CalmTab DEF Tab
  <2>3. UNCHANGED <<nodeVars, cosigned, lastSigned, pending>>
    BY <1>1 DEF ReadStatus
  <2> QED BY <1>1, <2>2, <2>3, CalmTab, PanelNewest
<1>2. CASE ReadOnMount(t)
  <2> DEFINE tab == [tabs[t] EXCEPT !.loading = FALSE]
  <2>1. /\ tab \in Tab /\ tab.run = tabs[t].run /\ tab.slot = tabs[t].slot
        /\ tab.receipt = tabs[t].receipt /\ tab.latest = tabs[t].latest
        /\ tab.panel = tabs[t].panel /\ tab.picked = tabs[t].picked
    BY CalmTab DEF Tab
  <2>2. ReadStatus(t, tab)
    BY <1>2 DEF ReadOnMount
  <2> HIDE DEF tab
  <2>3. tab.panel = "sign" => tab.picked = tabs[t].latest
    BY <2>1, CalmTab DEF NewestTab
  <2> QED BY <1>1, <2>1, <2>2, <2>3
<1>3. CASE Refresh(t)
  <2> DEFINE tab == [tabs[t] EXCEPT !.panel = "ready"]
  <2>1. /\ tab \in Tab /\ tab.run = tabs[t].run /\ tab.slot = tabs[t].slot
        /\ tab.receipt = tabs[t].receipt /\ tab.latest = tabs[t].latest
        /\ tab.panel = "ready"
    BY CalmTab DEF Tab
  <2>2. ReadStatus(t, tab)
    BY <1>3 DEF Refresh
  <2> HIDE DEF tab
  <2> QED BY <1>1, <2>1, <2>2
<1> QED BY <1>2, <1>3

LEMMA SendOpenNewest ==
  ASSUME Calm, CalmInv, NEW t \in Tabs, NEW amount \in Amounts, SendOpen(t, amount)
  PROVE  NewestInv'
<1>1. /\ tabs[t].run = "idle"
      /\ tabs' = [tabs EXCEPT ![t] = [tabs[t] EXCEPT !.panel = "open"]]
      /\ pending' = pending \cup
           {[by |-> t, deposit |-> amount, update |-> NoReceipt, held |-> {}]}
      /\ UNCHANGED <<nodeVars, cosigned, lastSigned>>
  BY DEF SendOpen, MayTouchPanel, Calm, PatientTab
<1>2. /\ tabs'[t].run = "idle" /\ tabs'[t].latest = tabs[t].latest /\ tabs'[t].panel = "open"
  BY <1>1, CalmTab DEF Tab
<1>3. SentNewest(pending')
  BY <1>1, CalmTab DEF SentNewest
<1> QED BY <1>1, <1>2, <1>3, CalmTab, PanelNewest

LEMMA PersistOpenNewest ==
  ASSUME Calm, CalmInv, NEW t \in Tabs, PersistOpen(t)
  PROVE  NewestInv'
<1>1. /\ tabs[t].panel = "opened"
      /\ tabs' = [tabs EXCEPT ![t] = [tabs[t] EXCEPT !.mem = NewState,
                                                     !.panel = "refreshing"]]
      /\ UNCHANGED <<nodeVars, cosigned, lastSigned, pending>>
  BY DEF PersistOpen
<1>2. /\ tabs'[t].run = "idle" /\ tabs'[t].latest = tabs[t].latest
      /\ tabs'[t].panel = "refreshing"
  BY <1>1, CalmTab DEF Tab, SoloTab
<1> QED BY <1>1, <1>2, CalmTab, PanelNewest

LEMMA PickLatestNewest ==
  ASSUME Calm, CalmInv, NEW t \in Tabs, PickLatest(t)
  PROVE  NewestInv'
<1>1. /\ tabs[t].run = "idle"
      /\ tabs' = [tabs EXCEPT ![t] = [tabs[t] EXCEPT !.panel = "sign",
                                                     !.picked = tabs[t].latest]]
      /\ UNCHANGED <<nodeVars, cosigned, lastSigned, pending>>
  BY DEF PickLatest, MayTouchPanel, Calm, PatientTab
<1>2. /\ tabs'[t].run = "idle" /\ tabs'[t].latest = tabs[t].latest
      /\ tabs'[t].picked = tabs[t].latest
  BY <1>1, CalmTab DEF Tab
<1> QED BY <1>1, <1>2, CalmTab, PanelNewest

\* A close is sent with what the wallet signed last, the newest it signed.
LEMMA SendCloseNewest ==
  ASSUME Calm, CalmInv, NEW t \in Tabs, SendClose(t)
  PROVE  NewestInv'
<1> DEFINE tx == [by |-> t, deposit |-> 0, update |-> tabs[t].mem.lastAck, held |-> cosigned]
<1>1. /\ tabs[t].run = "idle" /\ tabs[t].mem.lastAck # NoReceipt
      /\ tabs' = [tabs EXCEPT ![t] = [tabs[t] EXCEPT !.panel = "close"]]
      /\ pending' = pending \cup {tx} /\ UNCHANGED <<nodeVars, cosigned, lastSigned>>
  BY DEF SendClose, MayTouchPanel, Calm, PatientTab, SubmittedUpdate
<1>2. tabs[t].mem.lastAck = lastSigned /\ lastSigned \in cosigned
  BY <1>1, CalmTab DEF SoloTab, CalmInv, SoloInv, StoredInv
<1>3. tx.update = lastSigned /\ tx.held = cosigned
  BY <1>2
<1> HIDE DEF tx
<1>4. /\ tabs'[t].run = "idle" /\ tabs'[t].latest = tabs[t].latest /\ tabs'[t].panel = "close"
  BY <1>1, CalmTab DEF Tab
<1>5. \A u \in tx.held : u.nonce <= tx.update.nonce
  BY <1>2, <1>3 DEF CalmInv, NewestInv, Covers
<1>6. SentNewest(pending')
  BY <1>1, <1>5, CalmTab DEF SentNewest
<1> QED BY <1>1, <1>4, <1>6, CalmTab, PanelNewest

LEMMA OrphanNewest ==
  ASSUME Calm, CalmInv, NEW t \in Tabs, PanelFails(t) \/ Reload(t)
  PROVE  NewestInv'
<1>1. /\ pending' = Orphaned(t) /\ UNCHANGED <<nodeVars, cosigned, lastSigned>>
  BY DEF PanelFails, Reload
<1>2. SentNewest(pending')
  BY <1>1, CalmTab, OrphanedFields DEF SentNewest
<1>3. /\ tabs'[t].run = "idle" /\ tabs'[t].panel = "ready"
      /\ tabs'[t].latest \in {NoReceipt, tabs[t].latest}
  <2>1. CASE PanelFails(t)
    <3>1. /\ tabs[t].panel # "ready"
          /\ tabs' = [tabs EXCEPT ![t] = [tabs[t] EXCEPT !.panel = "ready",
                                                         !.picked = NoReceipt]]
      BY <2>1 DEF PanelFails
    <3> QED BY <3>1, CalmTab DEF Tab, SoloTab
  <2>2. CASE Reload(t)
    <3>1. tabs' = [tabs EXCEPT ![t] = [NewTab EXCEPT !.mem = storage]]
      BY <2>2 DEF Reload
    <3> QED BY <3>1, CalmTab DEF NewTab
  <2> QED BY <2>1, <2>2
<1> QED BY <1>1, <1>2, <1>3, CalmTab, PanelNewest

LEMMA MinedNewest ==
  ASSUME Calm, CalmInv, NEW tx \in pending, Mined(tx)
  PROVE  NewestInv'
<1> DEFINE panel == IF tx.update = NoReceipt THEN "opened" ELSE "refreshing"
<1>1. /\ pending' = pending \ {tx}
      /\ tabs' = [t \in Tabs |-> IF t # tx.by THEN tabs[t]
                                 ELSE [tabs[t] EXCEPT !.panel = panel]]
      /\ UNCHANGED <<nodeVars, cosigned, lastSigned>>
  BY DEF Mined
<1>2. SentNewest(pending')
  BY <1>1 DEF SentNewest, CalmInv, NewestInv
<1>3. ASSUME NEW t \in Tabs
      PROVE  NewestInv'
  <2>1. /\ tabs'[t].run = tabs[t].run /\ tabs'[t].slot = tabs[t].slot
        /\ tabs'[t].receipt = tabs[t].receipt /\ tabs'[t].latest = tabs[t].latest
        /\ tabs'[t].panel \in {tabs[t].panel, panel} /\ tabs'[t].picked = tabs[t].picked
    BY <1>1, CalmTab DEF Tab
  <2>2. tabs'[t].panel = "sign" => tabs'[t].picked = tabs'[t].latest
    BY <2>1, CalmTab DEF NewestTab
  <2> QED BY <1>1, <1>2, <2>1, <2>2, CalmTab, PanelNewest
<1>4. CASE Tabs = {}
  <2>1. Signed' = Signed /\ entry' = entry
    BY <1>1 DEF Signed, nodeVars
  <2> QED BY <1>1, <1>2, <1>4, <2>1 DEF CalmInv, NewestInv, Covers, SentNewest
<1> QED BY <1>3, <1>4

\* The wallet signs a state that covers all it has signed.
LEMMA SignNewest ==
  ASSUME Calm, CalmInv, NEW t \in Tabs, NEW receipt \in Signed, NEW next \in Tab,
         SignReceipt(t, receipt, next), Covers(receipt),
         next.panel = "ready", next.run \in {"idle", "tool"}, next.latest = receipt
  PROVE  NewestInv'
<1> DEFINE mem == Persisted(tabs[t].mem, receipt)
<1>1. /\ Tabs = {t} /\ tabs \in [Tabs -> Tab]
  BY CalmTab DEF OneTabOnly
<1>2. /\ tabs' = [tabs EXCEPT ![t] = [next EXCEPT !.mem = mem]]
      /\ cosigned' = cosigned \cup {receipt} /\ lastSigned' = receipt
      /\ pending' = pending /\ entry' = entry /\ issued' = issued
  BY DEF SignReceipt, nodeVars
<1> HIDE DEF mem
<1>3. /\ tabs'[t].panel = "ready" /\ tabs'[t].run \in {"idle", "tool"}
      /\ tabs'[t].latest = receipt
  BY <1>1, <1>2 DEF Tab
<1>4. receipt.nonce \in Nat
  BY DEF CalmInv, SoloInv, PartsInv, NodeInv, Signed, Update, Ledger!Update
<1>5. Covers(receipt)'
  BY <1>2, <1>4 DEF Covers
<1>6. NewestTab(tabs[t])'
  BY <1>2, <1>3, <1>5 DEF NewestTab, Covers
<1>7. (\A s \in Tabs : NewestTab(tabs[s]))'
  BY <1>1, <1>6
<1>8. (\A u \in Signed : u.nonce <= entry.nonce)'
  BY <1>2 DEF Signed, CalmInv, NewestInv
<1>9. SentNewest(pending)'
  BY <1>2 DEF SentNewest, CalmInv, NewestInv
<1> QED BY <1>2, <1>5, <1>7, <1>8, <1>9 DEF NewestInv, Covers

\* A signed receipt is not the absence of one.
LEMMA SignedIsReceipt ==
  ASSUME CalmInv
  PROVE  NoReceipt \notin Signed
BY ProtocolAssumption DEF CalmInv, SoloInv, PartsInv, NodeInv, Signed, Update, Ledger!Update

LEMMA SignLatestNewest ==
  ASSUME Calm, CalmInv, NEW t \in Tabs, SignLatest(t)
  PROVE  NewestInv'
<1> DEFINE receipt == tabs[t].picked
           next == [tabs[t] EXCEPT !.panel = "ready", !.picked = NoReceipt]
<1>1. /\ tabs[t] \in Tab /\ NewestTab(tabs[t]) /\ tabs[t].panel = "sign"
      /\ receipt \in Signed /\ SignReceipt(t, receipt, next)
  BY CalmTab, Kept DEF CalmInv, SignLatest, SoloInv, GoodTab
<1>2. receipt = tabs[t].latest /\ Covers(receipt) /\ tabs[t].run = "idle"
  BY <1>1, SignedIsReceipt, CalmTab DEF NewestTab, SoloTab
<1>3. /\ next \in Tab /\ next.panel = "ready" /\ next.run = "idle"
      /\ next.latest = receipt
  BY <1>1, <1>2 DEF Tab, MaybeUpdate
<1> HIDE DEF next, receipt
<1> QED BY <1>1, <1>2, <1>3, SignNewest

LEMMA SignAckNewest ==
  ASSUME Calm, CalmInv, NEW t \in Tabs, SignAck(t)
  PROVE  NewestInv'
<1> DEFINE receipt == tabs[t].receipt
           ack == [update |-> receipt, signer |-> Client]
<1>1. PICK next \in AfterReceipt(tabs[t], ack) : SignReceipt(t, receipt, next)
  BY DEF SignAck
<1>2. /\ tabs[t] \in Tab /\ NewestTab(tabs[t]) /\ SoloTab(tabs[t])
      /\ tabs[t].run = "signing" /\ receipt \in Signed
  BY CalmTab, Kept DEF CalmInv, SignAck, SoloInv, GoodTab
<1>3. Covers(receipt) /\ tabs[t].panel = "ready"
  BY <1>2 DEF NewestTab, SoloTab
<1>4. ack \in Ledger!Ack
  BY <1>2 DEF Ledger!Ack, Update, CalmInv, SoloInv, PartsInv, NodeInv, Signed
<1>5. /\ next \in Tab /\ next.panel = "ready" /\ next.run \in {"idle", "tool"}
      /\ next.latest = receipt
  BY <1>2, <1>3, <1>4, AfterReceiptFields
<1> HIDE DEF receipt
<1> QED BY <1>1, <1>2, <1>3, <1>5, SignNewest

\* A step of the run, the node or the network that signs nothing.
LEMMA RunNewest ==
  ASSUME Calm, CalmInv, NEW t \in Tabs, UNCHANGED <<cosigned, lastSigned, pending>>,
         \A u \in Signed' : u.nonce <= entry'.nonce, NewestTab(tabs[t])'
  PROVE  NewestInv'
<1>1. Tabs = {t}
  BY CalmTab DEF OneTabOnly
<1>2. (\A s \in Tabs : NewestTab(tabs[s]))'
  BY <1>1
<1>3. (cosigned # {} => Covers(lastSigned) /\ lastSigned \in cosigned)'
  BY DEF CalmInv, NewestInv, Covers
<1>4. SentNewest(pending)'
  BY DEF SentNewest, CalmInv, NewestInv
<1> QED BY <1>2, <1>3, <1>4 DEF NewestInv

\* A call that arrives has no receipt yet, nor has one that is decided.
LEMMA DecideNoReceipt ==
  ASSUME NEW exec, exec.reply # "receipt", exec \in Ledger!Exec, NEW deposit
  PROVE  Ledger!Decide(exec, deposit).reply # "receipt"
BY DEF Ledger!Decide, Ledger!Verdict, Ledger!Exec

LEMMA ArriveNoReceipt ==
  ASSUME CalmInv, NEW r \in Requests, NEW ack \in Ledger!Ack \cup {NoAck}, Ledger!Arrive(r, ack)
  PROVE  execs'[r].reply # "receipt" /\ UNCHANGED <<entry, issued>>
<1> DEFINE read == [Ledger!Idle EXCEPT !.ack = ack, !.cum = entry.cumOwed]
           waits == [read EXCEPT !.phase = "fetching"]
<1>1. entry.cumOwed \in Nat /\ execs \in [Requests -> Ledger!Exec]
  BY DEF CalmInv, SoloInv, PartsInv, NodeInv, Ledger!Entry
<1>2. /\ read \in Ledger!Exec /\ read.reply = "none" /\ waits.reply = "none"
  BY <1>1 DEF Ledger!Idle, Ledger!Exec, Ledger!Replies
<1>3. /\ execs' = [execs EXCEPT ![r] = IF entry.deposit = NoDeposit THEN waits
                                       ELSE Ledger!Decide(read, entry.deposit)]
      /\ UNCHANGED <<entry, issued>>
  BY DEF Ledger!Arrive
<1> HIDE DEF read, waits
<1> QED BY <1>1, <1>2, <1>3, DecideNoReceipt

LEMMA SendNewest ==
  ASSUME Calm, CalmInv, NEW t \in Tabs, NEW ack \in Ledger!Ack \cup {NoAck}, Send(t, ack),
         tabs[t].panel = "ready"
  PROVE  NewestInv'
<1>1. /\ tabs[t] \in Tab /\ tabs \in [Tabs -> Tab] /\ NewestTab(tabs[t])
  BY CalmTab
<1>2. PICK r \in Requests :
        /\ Ledger!Arrive(r, ack)
        /\ tabs' = [tabs EXCEPT ![t] = [tabs[t] EXCEPT !.run = "waiting", !.slot = r,
                                                       !.prevAck = ack]]
        /\ UNCHANGED <<cosigned, lastSigned, pending>>
  BY DEF Send
<1>3. /\ tabs'[t].run = "waiting" /\ tabs'[t].slot = r /\ tabs'[t].panel = "ready"
      /\ tabs'[t].latest = tabs[t].latest
  BY <1>1, <1>2 DEF Tab
<1>4. execs'[r].reply # "receipt" /\ UNCHANGED <<entry, issued>>
  BY <1>2, ArriveNoReceipt
<1>5. NewestTab(tabs[t])'
  BY <1>1, <1>2, <1>3, <1>4 DEF NewestTab, Covers
<1>6. \A u \in Signed' : u.nonce <= entry'.nonce
  BY <1>4 DEF Signed, CalmInv, NewestInv
<1> QED BY <1>2, <1>5, <1>6, RunNewest

LEMMA ReceiveNewest ==
  ASSUME Calm, CalmInv, NEW t \in Tabs, Receive(t)
  PROVE  NewestInv'
<1> DEFINE exec == execs[tabs[t].slot]
           tab == IF exec.reply = "receipt"
                  THEN [tabs[t] EXCEPT !.run = "signing", !.slot = NoSlot,
                                       !.receipt = exec.receipt]
                  ELSE [tabs[t] EXCEPT !.run = "idle", !.slot = NoSlot, !.prevAck = NoAck]
<1>1. /\ tabs[t] \in Tab /\ tabs \in [Tabs -> Tab] /\ NewestTab(tabs[t])
      /\ SoloTab(tabs[t])
  BY CalmTab
<1>2. /\ tabs[t].run = "waiting" /\ tabs' = [tabs EXCEPT ![t] = tab]
      /\ UNCHANGED <<cosigned, lastSigned, pending, entry, issued>>
  BY DEF Receive, Ledger!Respond
<1>3. /\ tabs[t].panel = "ready"
      /\ exec.reply = "receipt" => Covers(exec.receipt)
  BY <1>1, <1>2 DEF NewestTab, SoloTab
<1>4. /\ tab.panel = "ready" /\ tab.latest = tabs[t].latest /\ tab.run \in {"signing", "idle"}
      /\ tab.run = "signing" => Covers(tab.receipt)
  BY <1>1, <1>3 DEF Tab
<1> HIDE DEF tab, exec
<1>5. tabs'[t] = tab
  BY <1>1, <1>2
<1>6. NewestTab(tabs[t])'
  BY <1>1, <1>2, <1>3, <1>4, <1>5 DEF NewestTab, Covers
<1>7. \A u \in Signed' : u.nonce <= entry'.nonce
  BY <1>2 DEF Signed, CalmInv, NewestInv
<1> QED BY <1>2, <1>6, <1>7, RunNewest

LEMMA RejectAckNewest ==
  ASSUME Calm, CalmInv, NEW t \in Tabs, RejectAck(t)
  PROVE  NewestInv'
<1>1. /\ tabs[t] \in Tab /\ tabs \in [Tabs -> Tab] /\ NewestTab(tabs[t])
      /\ SoloTab(tabs[t])
  BY CalmTab
<1>2. PICK next \in AfterReceipt(tabs[t], tabs[t].prevAck) : tabs' = [tabs EXCEPT ![t] = next]
  BY DEF RejectAck
<1>3. /\ tabs[t].run = "signing"
      /\ UNCHANGED <<cosigned, lastSigned, pending, entry, issued>>
  BY DEF RejectAck, nodeVars
<1>4. /\ next.run \in {"idle", "tool"} /\ next.panel = tabs[t].panel
      /\ next.latest = tabs[t].receipt
  <2>1. tabs[t].prevAck \in Ledger!Ack \cup {NoAck}
    BY <1>1 DEF Tab
  <2> QED BY <1>1, <2>1, AfterReceiptFields
<1>5. tabs[t].panel = "ready" /\ Covers(tabs[t].receipt)
  BY <1>1, <1>3 DEF NewestTab, SoloTab
<1>6. tabs'[t] = next
  BY <1>1, <1>2
<1>7. NewestTab(tabs[t])'
  BY <1>3, <1>4, <1>5, <1>6 DEF NewestTab, Covers
<1>8. \A u \in Signed' : u.nonce <= entry'.nonce
  BY <1>3 DEF Signed, CalmInv, NewestInv
<1> QED BY <1>3, <1>7, <1>8, RunNewest

\* A step of the node: a receipt it makes is newer than all it signed, hence
\* than all the wallet countersigned.
LEMMA NodeStepReceipt ==
  ASSUME CalmInv, NEW r \in Requests, NodeStep(r) \/ NodeStepFails(r)
  PROVE  /\ \A u \in Signed' : u.nonce <= entry'.nonce
         /\ \A q \in Requests : execs'[q].reply = "receipt" =>
              \/ execs'[q] = execs[q]
              \/ Covers(execs'[q].receipt)
<1>1. /\ execs \in [Requests -> Ledger!Exec] /\ execs[r] \in Ledger!Exec
      /\ execs[r].reply = "receipt" => execs[r].phase = "replied"
      /\ entry \in Ledger!Entry /\ entry.nonce \in Nat
      /\ cosigned \subseteq Signed
      /\ \A u \in Signed : u.nonce \in Nat /\ u.nonce <= entry.nonce
  BY DEF CalmInv, SoloInv, PartsInv, NodeInv, GoodExec, Ledger!Entry, NewestInv, Signed,
         Update, Ledger!Update
<1>2. ASSUME NEW exec, execs' = [execs EXCEPT ![r] = exec], exec.reply # "receipt",
             issued' = issued, entry'.nonce = entry.nonce
      PROVE  /\ \A u \in Signed' : u.nonce <= entry'.nonce
             /\ \A q \in Requests : execs'[q].reply = "receipt" => execs'[q] = execs[q]
  BY <1>1, <1>2 DEF Signed
<1>3. CASE Ledger!FetchDeposit(r)
  <2>1. [execs[r] EXCEPT !.phase = "fetched", !.seen = channels[Id].deposit].reply # "receipt"
    BY <1>1, <1>3 DEF Ledger!FetchDeposit, Ledger!Exec
  <2> QED BY <1>2, <1>3, <2>1 DEF Ledger!FetchDeposit, Ledger!Fetched
<1>4. CASE Ledger!CacheDeposit(r)
  <2>1. Ledger!Decide(execs[r], execs[r].seen).reply # "receipt"
    BY <1>1, <1>4, DecideNoReceipt DEF Ledger!CacheDeposit
  <2>2. entry'.nonce = entry.nonce /\ issued' = issued
    BY <1>1, <1>4 DEF Ledger!CacheDeposit, Ledger!Entry
  <2> QED BY <1>2, <1>4, <2>1, <2>2 DEF Ledger!CacheDeposit
<1>5. CASE Ledger!CallFails(r)
  <2>1. [execs[r] EXCEPT !.phase = "replied", !.reply = "error"].reply # "receipt"
    BY <1>1 DEF Ledger!Exec
  <2> QED BY <1>2, <1>5, <2>1 DEF Ledger!CallFails
<1>6. ASSUME NEW cost \in Costs, Ledger!StepSucceeds(r, cost),
             execs[r].ack # NoAck /\ ~Ledger!AckAccepted(entry, execs[r].ack)
      PROVE  /\ \A u \in Signed' : u.nonce <= entry'.nonce
             /\ \A q \in Requests : execs'[q].reply = "receipt" => execs'[q] = execs[q]
  <2>1. [execs[r] EXCEPT !.phase = "replied", !.reply = "badAck"].reply # "receipt"
    BY <1>1 DEF Ledger!Exec
  <2> QED BY <1>2, <1>6, <2>1 DEF Ledger!StepSucceeds
<1>7. ASSUME NEW cost \in Costs, Ledger!StepSucceeds(r, cost),
             ~(execs[r].ack # NoAck /\ ~Ledger!AckAccepted(entry, execs[r].ack))
      PROVE  /\ \A u \in Signed' : u.nonce <= entry'.nonce
             /\ \A q \in Requests : \/ execs'[q] = execs[q]
                                    \/ Covers(execs'[q].receipt)
  <2> DEFINE update == Ledger!NextUpdate(entry, execs[r], cost)
             acked == IF execs[r].ack = NoAck THEN entry
                      ELSE Ledger!WithAck(entry, execs[r].ack)
             next == [execs[r] EXCEPT !.phase = "replied", !.reply = "receipt",
                                      !.receipt = update]
  <2>1. /\ entry' = [acked EXCEPT !.nonce = update.nonce, !.cumOwed = update.cumOwed]
        /\ issued' = issued \cup {[life |-> life, update |-> update]}
        /\ execs' = [execs EXCEPT ![r] = next]
    BY <1>7 DEF Ledger!StepSucceeds
  <2>2. update.nonce = entry.nonce + 1
    BY DEF Ledger!NextUpdate
  <2> HIDE DEF update
  <2>3. "nonce" \in DOMAIN acked /\ "cumOwed" \in DOMAIN acked
    BY <1>1 DEF Ledger!Entry, Ledger!WithAck
  <2> HIDE DEF acked
  <2>4. entry'.nonce = update.nonce
    BY <2>1, <2>3
  <2>5. next.receipt = update
    BY <1>1 DEF Ledger!Exec
  <2> HIDE DEF next
  <2>6. \A u \in Signed' : u \in Signed \/ u = update
    BY <2>1 DEF Signed
  <2>7. Covers(update)
    BY <1>1, <2>2 DEF Covers
  <2>8. \A u \in Signed' : u.nonce <= entry'.nonce
    BY <1>1, <2>2, <2>4, <2>6
  <2>9. \A q \in Requests : execs'[q] = execs[q] \/ execs'[q].receipt = update
    BY <1>1, <2>1, <2>5
  <2> QED BY <2>7, <2>8, <2>9
<1> QED BY <1>3, <1>4, <1>5, <1>6, <1>7 DEF NodeStep, NodeStepFails

LEMMA NodeStepNewest ==
  ASSUME Calm, CalmInv, NEW r \in Requests, NodeStep(r) \/ NodeStepFails(r), NEW t \in Tabs
  PROVE  NewestInv'
<1>1. UNCHANGED <<tabs, cosigned, lastSigned, pending>>
  BY DEF NodeStep, NodeStepFails, clientVars
<1>2. /\ NewestTab(tabs[t])
      /\ tabs[t].run = "waiting" => tabs[t].slot \in Requests
  BY Kept DEF CalmInv, NewestInv, SoloInv, GoodTab
<1>3. /\ \A u \in Signed' : u.nonce <= entry'.nonce
      /\ \A q \in Requests : execs'[q].reply = "receipt" =>
           execs'[q] = execs[q] \/ Covers(execs'[q].receipt)
  BY NodeStepReceipt
<1>4. NewestTab(tabs[t])'
  BY <1>1, <1>2, <1>3 DEF NewestTab, Covers
<1> QED BY <1>1, <1>3, <1>4, RunNewest

LEMMA LoseNewest ==
  ASSUME Calm, CalmInv, NEW r \in Requests, LoseResponse(r), NEW t \in Tabs
  PROVE  NewestInv'
<1>1. /\ tabs[t] \in Tab /\ NewestTab(tabs[t])
      /\ tabs[t].run = "waiting" => tabs[t].slot \in Requests
      /\ execs \in [Requests -> Ledger!Exec]
  BY CalmTab, Kept DEF CalmInv, SoloInv, GoodTab, PartsInv, NodeInv
<1>2. /\ execs' = [execs EXCEPT ![r] = Ledger!Idle] /\ entry' = entry /\ issued' = issued
      /\ tabs'[t] = IF tabs[t].slot = r THEN Dropped(tabs[t]) ELSE tabs[t]
      /\ UNCHANGED <<cosigned, lastSigned, pending>>
  BY DEF LoseResponse, Ledger!Respond
<1>3. CASE tabs[t].slot = r
  <2>1. /\ tabs'[t].run = "idle" /\ tabs'[t].panel = tabs[t].panel
        /\ tabs'[t].latest = tabs[t].latest /\ tabs'[t].picked = tabs[t].picked
    BY <1>1, <1>2, <1>3 DEF Dropped, Tab
  <2>2. NewestTab(tabs[t])'
    BY <1>1, <1>2, <2>1 DEF NewestTab, Covers
  <2>3. \A u \in Signed' : u.nonce <= entry'.nonce
    BY <1>2 DEF Signed, CalmInv, NewestInv
  <2> QED BY <1>2, <2>2, <2>3, RunNewest
<1>4. CASE tabs[t].slot # r
  <2>1. tabs'[t] = tabs[t] /\ (tabs[t].run = "waiting" => execs'[tabs[t].slot] = execs[tabs[t].slot])
    BY <1>1, <1>2, <1>4
  <2>2. NewestTab(tabs[t])'
    BY <1>1, <1>2, <2>1 DEF NewestTab, Covers
  <2>3. \A u \in Signed' : u.nonce <= entry'.nonce
    BY <1>2 DEF Signed, CalmInv, NewestInv
  <2> QED BY <1>2, <2>2, <2>3, RunNewest
<1> QED BY <1>3, <1>4

LEMMA NewestStep ==
  ASSUME Calm, CalmInv, [Next]_vars
  PROVE  NewestInv'
<1>1. ASSUME NEW t \in Tabs, PanelStep(t) \/ Reload(t)
      PROVE  NewestInv'
  BY <1>1, ReadNewest, SendOpenNewest, PersistOpenNewest, OrphanNewest, PickLatestNewest,
     SignLatestNewest, SendCloseNewest DEF PanelStep
<1>2. ASSUME NEW t \in Tabs, RunStep(t)
      PROVE  NewestInv'
  <2>1. CASE StartRun(t)
    <3>1. tabs[t].panel = "ready" /\ Send(t, NoAck)
      BY <2>1 DEF StartRun, MayStartRun, Calm, PatientTab
    <3> QED BY <3>1, SendNewest
  <2>2. CASE ContinueRun(t)
    <3>1. SoloTab(tabs[t]) /\ tabs[t].run = "tool" /\ tabs[t] \in Tab
      BY <2>2, CalmTab DEF ContinueRun
    <3>2. /\ tabs[t].panel = "ready"
          /\ tabs[t].prevAck \in Ledger!Ack \cup {NoAck}
      BY <3>1 DEF SoloTab, Tab
    <3> QED BY <2>2, <3>2, SendNewest DEF ContinueRun
  <2> QED BY <1>2, <2>1, <2>2, ReceiveNewest, SignAckNewest, RejectAckNewest DEF RunStep
<1>3. ASSUME NEW tx \in pending, Mine(tx)
      PROVE  NewestInv'
  BY <1>3, MinedNewest DEF Mine, MineOpen, MineClose, MineRevert
<1>4. ASSUME NEW r \in Requests, NodeOrNetwork(r), Tabs # {}
      PROVE  NewestInv'
  BY <1>4, NodeStepNewest, LoseNewest DEF NodeOrNetwork
\* Without a tab nothing is ever countersigned.
<1>5. ASSUME NEW r \in Requests, NodeOrNetwork(r), Tabs = {}
      PROVE  NewestInv'
  <2>1. UNCHANGED <<cosigned, lastSigned, pending>>
    BY <1>5 DEF NodeOrNetwork, NodeStep, NodeStepFails, LoseResponse, clientVars
  <2>2. \A u \in Signed' : u.nonce <= entry'.nonce
    <3>1. CASE LoseResponse(r)
      BY <3>1 DEF LoseResponse, Ledger!Respond, Signed, CalmInv, NewestInv
    <3> QED BY <1>5, <3>1, NodeStepReceipt DEF NodeOrNetwork
  <2> QED BY <1>5, <2>1, <2>2 DEF CalmInv, NewestInv, Covers, SentNewest
<1>6. ~NodeRestart
  BY DEF NodeRestart, Ledger!Restart, Calm, CalmInv, SoloInv, PartsInv, NodeInv
<1>7. ASSUME UNCHANGED vars
      PROVE  NewestInv'
  <2>1. Signed' = Signed /\ cosigned' = cosigned /\ lastSigned' = lastSigned
        /\ pending' = pending /\ tabs' = tabs /\ execs' = execs /\ entry' = entry
    BY <1>7 DEF vars, nodeVars, clientVars, Signed
  <2>2. \A t \in Tabs : NewestTab(tabs[t])'
    BY <2>1 DEF CalmInv, NewestInv, NewestTab, Covers
  <2> QED BY <2>1, <2>2 DEF CalmInv, NewestInv, Covers, SentNewest
<1> QED BY <1>1, <1>2, <1>3, <1>4, <1>5, <1>6, <1>7 DEF Next

LEMMA CalmInvariant == Calm => (Spec => []CalmInv)
<1> SUFFICES ASSUME Calm PROVE Spec => []CalmInv
  OBVIOUS
<1>1. Init => CalmInv
  BY InitParts, InitSolo, InitNewest DEF CalmInv, SoloInv
<1>2. CalmInv /\ [Next]_vars => CalmInv'
  BY SoloStep, NewestStep DEF CalmInv, Calm
<1> QED BY <1>1, <1>2, PTL DEF Spec

\* Only the mining of a transaction changes what the chain holds.
LEMMA OnlyMining ==
  ASSUME [Next]_vars
  PROVE  UNCHANGED chainVars \/ \E tx \in pending : Mine(tx)
<1>1. ASSUME NEW t \in Tabs, PanelStep(t) PROVE UNCHANGED chainVars
  BY <1>1 DEF PanelStep, ReadOnMount, Refresh, ReadStatus, PanelFails, SendOpen, PersistOpen,
              PickLatest, SignLatest, SignReceipt, SendClose
<1>2. ASSUME NEW t \in Tabs, RunStep(t) PROVE UNCHANGED chainVars
  BY <1>2 DEF RunStep, StartRun, ContinueRun, Send, Receive, SignAck, SignReceipt, RejectAck
<1>3. ASSUME NEW t \in Tabs, Reload(t) PROVE UNCHANGED chainVars
  BY <1>3 DEF Reload
<1>4. ASSUME NEW r \in Requests, NodeOrNetwork(r) PROVE UNCHANGED chainVars
  BY <1>4 DEF NodeOrNetwork, NodeStep, NodeStepFails, LoseResponse
<1>5. CASE NodeRestart
  BY <1>5 DEF NodeRestart
<1>6. CASE UNCHANGED vars
  BY <1>6 DEF vars
<1> QED BY <1>1, <1>2, <1>3, <1>4, <1>5, <1>6 DEF Next

\* Only a mined cooperativeClose ends the channel, at the state submitted.
LEMMA ClosingIsMined ==
  ASSUME [Next]_vars, outcome'[Id].by # outcome[Id].by, NEW tx \in pending \ pending'
  PROVE  MineClose(tx)
<1>1. outcome' # outcome
  OBVIOUS
<1>2. PICK ty \in pending : Mine(ty)
  BY <1>1, OnlyMining DEF chainVars
<1>3. ~MineOpen(ty)
  BY <1>1 DEF MineOpen, Contract!OpenChannel
<1>4. ~MineRevert(ty)
  BY <1>1 DEF MineRevert, chainVars
<1>5. MineClose(ty) /\ pending' = pending \ {ty}
  BY <1>2, <1>3, <1>4 DEF Mine, MineClose, Mined
<1> QED BY <1>5

LEMMA ClosesAtUpdate ==
  ASSUME CalmInv, [Next]_vars, outcome'[Id].by # outcome[Id].by, NEW tx \in pending \ pending'
  PROVE  /\ tx.update # NoReceipt /\ tx.update \in cosigned
         /\ channels'[Id].latestNonce = tx.update.nonce
<1>1. MineClose(tx)
  BY ClosingIsMined
<1>2. /\ channels[Id] \in Contract!Channel
      /\ channels \in [Contract!ChannelIds -> Contract!Channel]
  BY IdIsKnown DEF CalmInv, SoloInv, PartsInv, ChainInv
<1>3. /\ channels' = [channels EXCEPT ![Id] =
           Contract!Ended(Contract!WithUpdate(channels[Id], tx.update))]
      /\ tx.update # NoReceipt /\ tx.update \in cosigned
  BY <1>1, VerifyMeans DEF MineClose, Contract!CooperativeClose, Contract!Settle
<1>4. Contract!Ended(Contract!WithUpdate(channels[Id], tx.update)).latestNonce = tx.update.nonce
  BY <1>2 DEF Contract!Ended, Contract!WithUpdate, Contract!Channel
<1> QED BY <1>2, <1>3, <1>4, IdIsKnown

\* A client with one tab who touches the panel only between runs and starts
\* none while it is busy, and whose node does not restart, closes at the newest
\* state it had signed when it sent the close, whatever responses, popups,
\* pages, readings and waits were lost (useChannel.ts: signReceipt,
\* cooperativeClose; runAgentLoop; main.rs: build_receipt).  What it signs
\* after a wait for the close has failed is not covered.
THEOREM ClosesNewest == Calm => (Spec => ClosesAtNewestCosigned)
<1> SUFFICES ASSUME Calm PROVE Spec => ClosesAtNewestCosigned
  OBVIOUS
<1>1. CalmInv /\ [Next]_vars =>
        [\A tx \in pending \ pending' :
           outcome'[Id].by # outcome[Id].by =>
             \A u \in tx.held : u.nonce <= channels'[Id].latestNonce]_vars
  <2> SUFFICES ASSUME CalmInv, [Next]_vars, outcome'[Id].by # outcome[Id].by,
                      NEW tx \in pending \ pending'
               PROVE  \A u \in tx.held : u.nonce <= channels'[Id].latestNonce
    OBVIOUS
  <2>1. tx.update # NoReceipt /\ channels'[Id].latestNonce = tx.update.nonce
    BY ClosesAtUpdate
  <2> QED BY <2>1 DEF CalmInv, NewestInv, SentNewest
<1> QED BY <1>1, CalmInvariant, PTL DEF Spec, ClosesAtNewestCosigned

---------------------------------------------------------------------------
(***************************************************************************)
(* The composition and its parts.  What NodeLedger assumes of clients and  *)
(* of the chain holds of those of the composition, and what happens to the *)
(* channel is what JobChannel allows.                                      *)
(***************************************************************************)
LEMMA PartsAssumed ==
  Ledger!LedgerAssumption /\ Contract!ConstantsAssumption /\ Contract!FiniteAssumption
<1>1. Ledger!LedgerAssumption
  <2>1. Amounts \cup {0} \subseteq 0..MaxDeposit /\ {} \subseteq [nonce : Nat, cumOwed : Nat]
    BY ProtocolAssumption
  <2>2. MaxWork \in Nat /\ MaxRestarts \in Nat /\ NoWallet \notin {Client}
    BY ProtocolAssumption
  <2>3. Ledger!IsFiniteSet(Requests)
    BY ProtocolAssumption DEF Ledger!IsFiniteSet, IsFiniteSet
  <2> QED BY <2>1, <2>2, <2>3, ProtocolAssumption DEF Ledger!LedgerAssumption
<1>2. Contract!ConstantsAssumption
  <2>1. Amounts \subseteq Nat
    BY ProtocolAssumption
  <2> QED BY <2>1, ProtocolAssumption DEF Contract!ConstantsAssumption, Ledger!Update
<1>3. Contract!FiniteAssumption
  <2>1. IsFiniteSet({Client}) /\ IsFiniteSet({Node}) /\ IsFiniteSet({0})
    BY FS_Singleton
  <2>2. Contract!IsFiniteSet({Client}) /\ Contract!IsFiniteSet({Node})
        /\ Contract!IsFiniteSet({0})
    BY <2>1 DEF Contract!IsFiniteSet, IsFiniteSet
  <2> QED BY <2>2 DEF Contract!FiniteAssumption
<1> QED BY <1>1, <1>2, <1>3

\* Money that is on its way to the contract is a deposit the form allows.
OpenDeposits == \A tx \in pending : tx.update = NoReceipt => tx.deposit \in Amounts
MeetsInv == PartsInv /\ OpenDeposits

LEMMA OpenDepositsStep ==
  ASSUME MeetsInv, [Next]_vars
  PROVE  OpenDeposits'
<1>1. ASSUME NEW t \in Tabs, PanelStep(t)
      PROVE  OpenDeposits'
  <2>1. ASSUME NEW amount \in Amounts, SendOpen(t, amount)
        PROVE  OpenDeposits'
    BY <2>1 DEF SendOpen, OpenDeposits, MeetsInv
  <2>2. CASE SendClose(t)
    <3>1. SubmittedUpdate(tabs[t].mem) # NoReceipt
      BY <2>2 DEF SendClose, SubmittedUpdate
    <3> QED BY <2>2, <3>1 DEF SendClose, OpenDeposits, MeetsInv
  <2>3. CASE \/ ReadOnMount(t) \/ Refresh(t) \/ PersistOpen(t) \/ PickLatest(t)
             \/ SignLatest(t)
    BY <2>3 DEF ReadOnMount, Refresh, ReadStatus, PersistOpen, PickLatest, SignLatest,
                SignReceipt, OpenDeposits, MeetsInv
  <2>4. CASE PanelFails(t)
    BY <2>4, OrphanedFields DEF PanelFails, OpenDeposits, MeetsInv, PartsInv, TabsInv
  <2> QED BY <1>1, <2>1, <2>2, <2>3, <2>4 DEF PanelStep
<1>2. ASSUME NEW t \in Tabs, RunStep(t)
      PROVE  OpenDeposits'
  BY <1>2 DEF RunStep, StartRun, ContinueRun, Receive, SignAck, RejectAck, Send, SignReceipt,
              OpenDeposits, MeetsInv
<1>3. ASSUME NEW t \in Tabs, Reload(t)
      PROVE  OpenDeposits'
  BY <1>3, OrphanedFields DEF Reload, OpenDeposits, MeetsInv, PartsInv, TabsInv
<1>4. ASSUME NEW tx \in pending, Mine(tx)
      PROVE  OpenDeposits'
  <2>1. pending' \subseteq pending
    BY <1>4 DEF Mine, MineOpen, MineClose, MineRevert, Mined
  <2> QED BY <2>1 DEF OpenDeposits, MeetsInv
<1>5. ASSUME (\E r \in Requests : NodeOrNetwork(r)) \/ NodeRestart \/ UNCHANGED vars
      PROVE  OpenDeposits'
  <2>1. pending' = pending
    BY <1>5 DEF NodeOrNetwork, NodeStep, NodeStepFails, LoseResponse, NodeRestart, clientVars, vars
  <2> QED BY <2>1 DEF OpenDeposits, MeetsInv
<1> QED BY <1>1, <1>2, <1>3, <1>4, <1>5 DEF Next

LEMMA MeetsInvariant == Spec => []MeetsInv
<1>1. Init => MeetsInv
  BY InitParts DEF Init, MeetsInv, OpenDeposits
<1>2. MeetsInv /\ [Next]_vars => MeetsInv'
  BY PartsStep, OpenDepositsStep DEF MeetsInv
<1> QED BY <1>1, <1>2, PTL DEF Spec

\* What a mined transaction leaves deposited.
LEMMA MinedDeposit ==
  ASSUME MeetsInv, NEW tx \in pending, Mine(tx)
  PROVE  channels'[Id].deposit \in Amounts \cup {0} \/ UNCHANGED channels
<1>1. channels \in [Contract!ChannelIds -> Contract!Channel] /\ Id \in Contract!ChannelIds
  BY IdIsKnown DEF MeetsInv, PartsInv, ChainInv
<1>2. CASE MineOpen(tx)
  <2>1. channels' = [channels EXCEPT ![Id] = Contract!Opened(channels[Id], tx.deposit, 0)]
    BY <1>2 DEF MineOpen, Contract!OpenChannel
  <2>2. Contract!Opened(channels[Id], tx.deposit, 0).deposit = tx.deposit
    BY <1>1 DEF Contract!Opened, Contract!Channel
  <2>3. tx.deposit \in Amounts
    BY <1>2 DEF MineOpen, MeetsInv, OpenDeposits
  <2> QED BY <1>1, <2>1, <2>2, <2>3
<1>3. CASE MineClose(tx)
  <2>1. channels' = [channels EXCEPT ![Id] =
                       Contract!Ended(Contract!WithUpdate(channels[Id], tx.update))]
    BY <1>3 DEF MineClose, Contract!CooperativeClose, Contract!Settle
  <2>2. Contract!Ended(Contract!WithUpdate(channels[Id], tx.update)).deposit = 0
    BY <1>1 DEF Contract!Ended, Contract!WithUpdate, Contract!Channel
  <2> QED BY <1>1, <2>1, <2>2
<1>4. CASE MineRevert(tx)
  BY <1>4 DEF MineRevert, chainVars
<1> QED BY <1>2, <1>3, <1>4 DEF Mine

\* What a step is to the node's ledger.
LEMMA LedgerStep ==
  ASSUME MeetsInv, [Next]_vars
  PROVE  Ledger!Next \/ UNCHANGED Ledger!vars
<1>1. ASSUME UNCHANGED <<chainVars, nodeVars>>
      PROVE  UNCHANGED Ledger!vars
  BY <1>1 DEF chainVars, nodeVars, Ledger!vars
<1>2. ASSUME NEW t \in Tabs, PanelStep(t) \/ Reload(t) \/ SignAck(t) \/ RejectAck(t)
      PROVE  UNCHANGED Ledger!vars
  <2>1. UNCHANGED <<chainVars, nodeVars>>
    BY <1>2 DEF PanelStep, ReadOnMount, Refresh, ReadStatus, PanelFails, SendOpen, PersistOpen,
                PickLatest, SignLatest, SendClose, Reload, SignAck, RejectAck, SignReceipt
  <2> QED BY <1>1, <2>1
<1>3. ASSUME NEW t \in Tabs, NEW ack, GoodAck(ack, cosigned), Send(t, ack)
      PROVE  Ledger!Next
  <2>1. ack \in Ledger!PossibleAcks \cup {NoAck}
    <3> SUFFICES ASSUME ack \in Ledger!Ack, ack.update \in cosigned
                 PROVE  ack \in Ledger!PossibleAcks
      BY <1>3 DEF GoodAck
    <3>1. ack.update \in {i.update : i \in issued}
      BY DEF MeetsInv, PartsInv, NodeInv, Signed
    <3> QED BY <3>1 DEF Ledger!Ack, Ledger!PossibleAcks
  <2> QED BY <1>3, <2>1 DEF Send, Ledger!Next
<1>4. ASSUME NEW t \in Tabs, StartRun(t) \/ ContinueRun(t) \/ Receive(t)
      PROVE  Ledger!Next
  <2>1. GoodAck(NoAck, cosigned) /\ GoodTab(tabs[t], Signed, cosigned)
    BY DEF GoodAck, MeetsInv, PartsInv, TabsInv
  <2>2. GoodAck(tabs[t].prevAck, cosigned)
    BY <2>1 DEF GoodTab
  <2>3. CASE Receive(t)
    <3>1. tabs[t].slot \in Requests /\ Ledger!Respond(tabs[t].slot)
      BY <2>1, <2>3 DEF Receive, GoodTab
    <3> QED BY <3>1 DEF Ledger!Next
  <2> QED BY <1>3, <1>4, <2>1, <2>2, <2>3 DEF StartRun, ContinueRun
<1>5. ASSUME NEW r \in Requests, NodeOrNetwork(r)
      PROVE  Ledger!Next
  <2>1. CASE NodeStep(r) \/ NodeStepFails(r)
    <3>1. Ledger!Execute(r)
      BY <2>1 DEF NodeStep, NodeStepFails, Ledger!Execute
    <3> QED BY <3>1 DEF Ledger!Next
  <2>2. CASE LoseResponse(r)
    BY <2>2 DEF LoseResponse, Ledger!Next
  <2> QED BY <1>5, <2>1, <2>2 DEF NodeOrNetwork
<1>6. CASE NodeRestart
  BY <1>6 DEF NodeRestart, Ledger!Next
<1>7. ASSUME NEW tx \in pending, Mine(tx)
      PROVE  Ledger!Next \/ UNCHANGED Ledger!vars
  <2>1. UNCHANGED nodeVars
    BY <1>7 DEF Mine, MineOpen, MineClose, MineRevert, Mined
  <2>2. channels'[Id].deposit \in Amounts \cup {0} \/ UNCHANGED channels
    BY <1>7, MinedDeposit
  <2> QED BY <2>1, <2>2 DEF nodeVars, Ledger!Next, Ledger!ChainChange, Ledger!vars
<1> QED BY <1>1, <1>2, <1>3, <1>4, <1>5, <1>6, <1>7 DEF Next, RunStep, vars

\* Each node's ledger does what NodeLedger allows it: the acks a client of the
\* composition sends and the deposits its chain shows are among those the
\* component was checked and proved with, so what is proved of NodeLedger
\* holds of the node here (main.rs: execute, build_receipt; useChannel.ts).
THEOREM ImplementsLedger == Spec => Ledger!Spec
<1>1. Init => Ledger!Init
  BY DEF Init
<1>2. MeetsInv /\ [Next]_vars => [Ledger!Next]_(Ledger!vars)
  BY LedgerStep
<1> QED BY <1>1, <1>2, MeetsInvariant, PTL DEF Spec, Ledger!Spec

\* What a step is to the contract and to the signatures it is shown: one call
\* of one of its functions, or one signature, or nothing.
contractVars == <<channels, usdc, escrowed, funded, outcome, cosigned, issued>>
ContractCalls ==
  \E id \in Contract!ChannelIds : Contract!ContractStep(id) \/ Contract!Signing(id)

LEMMA ClientSigning ==
  ASSUME NEW u \in Update, cosigned' = cosigned \cup {u}, UNCHANGED <<chainVars, issued>>
  PROVE  ContractCalls
<1>1. {<<Id, v>> : v \in cosigned'} = {<<Id, v>> : v \in cosigned} \cup {<<Id, u>>}
  OBVIOUS
<1>2. Contract!ClientSigns(Id, u)
  BY <1>1 DEF Contract!ClientSigns, chainVars
<1> QED BY <1>2, IdIsKnown DEF ContractCalls, Contract!Signing, Update

LEMMA NodeSigning ==
  ASSUME NEW i, i.update \in Update, issued' = issued \cup {i},
         UNCHANGED <<chainVars, cosigned>>
  PROVE  ContractCalls
<1>1. {<<Id, j.update>> : j \in issued'}
        = {<<Id, j.update>> : j \in issued} \cup {<<Id, i.update>>}
  OBVIOUS
<1>2. Contract!NodeSigns(Id, i.update)
  BY <1>1 DEF Contract!NodeSigns, chainVars
<1> QED BY <1>2, IdIsKnown DEF ContractCalls, Contract!Signing, Update

\* The node's step signs one receipt or none.
LEMMA StepSigns ==
  ASSUME NodeInv, NEW r \in Requests, NEW cost \in Costs, Ledger!StepSucceeds(r, cost),
         UNCHANGED <<chainVars, cosigned>>
  PROVE  ContractCalls \/ UNCHANGED contractVars
<1>1. CASE execs[r].ack # NoAck /\ ~Ledger!AckAccepted(entry, execs[r].ack)
  BY <1>1 DEF Ledger!StepSucceeds, contractVars, chainVars
<1>2. CASE ~(execs[r].ack # NoAck /\ ~Ledger!AckAccepted(entry, execs[r].ack))
  <2>1. Ledger!NextUpdate(entry, execs[r], cost) \in Update
    BY ProtocolAssumption
       DEF NodeInv, Ledger!Entry, Ledger!NextUpdate, Update, Ledger!Update
  <2>2. issued' = issued \cup
          {[life |-> life, update |-> Ledger!NextUpdate(entry, execs[r], cost)]}
    BY <1>2 DEF Ledger!StepSucceeds
  <2> QED BY <2>1, <2>2, NodeSigning
<1> QED BY <1>1, <1>2

\* The wallet's signature is on a receipt the node issued.
LEMMA WalletSigns ==
  ASSUME PartsInv, NEW t \in Tabs, SignLatest(t) \/ SignAck(t)
  PROVE  ContractCalls
<1>1. \E receipt \in Signed : cosigned' = cosigned \cup {receipt}
                              /\ UNCHANGED <<chainVars, nodeVars>>
  <2>1. GoodTab(tabs[t], Signed, cosigned)
    BY Kept
  <2>2. CASE SignLatest(t)
    <3>1. tabs[t].picked \in Signed
      BY <2>1, <2>2 DEF SignLatest, GoodTab
    <3> QED BY <2>2, <3>1 DEF SignLatest, SignReceipt
  <2>3. CASE SignAck(t)
    <3>1. tabs[t].receipt \in Signed
      BY <2>1, <2>3 DEF SignAck, GoodTab
    <3> QED BY <2>3, <3>1 DEF SignAck, SignReceipt
  <2> QED BY <2>2, <2>3
<1>2. Signed \subseteq Update
  BY Kept
<1> QED BY <1>1, <1>2, ClientSigning DEF nodeVars

LEMMA MinedCall ==
  ASSUME MeetsInv, NEW tx \in pending, Mine(tx)
  PROVE  ContractCalls \/ UNCHANGED contractVars
<1>1. CASE MineOpen(tx)
  <2>1. tx.deposit \in Amounts /\ Contract!OpenInTime(Id, tx.deposit)
    BY <1>1 DEF MineOpen, MeetsInv, OpenDeposits, Contract!OpenInTime
  <2> QED BY <2>1, IdIsKnown DEF ContractCalls, Contract!ContractStep
<1>2. CASE MineClose(tx)
  <2>1. Contract!CooperativeClose(Id, tx.update)
    BY <1>2 DEF MineClose
  <2>2. tx.update \in Ledger!Update
    <3>1. Contract!VerifySigs(Id, tx.update)
      BY <2>1 DEF Contract!CooperativeClose
    <3>2. tx.update \in Signed
      BY <3>1, VerifyMeans
    <3> QED BY <3>2 DEF MeetsInv, PartsInv, NodeInv, Signed, Update
  <2> QED BY <2>1, <2>2, IdIsKnown DEF ContractCalls, Contract!ContractStep
<1>3. CASE MineRevert(tx)
  BY <1>3 DEF MineRevert, Mined, contractVars, chainVars, nodeVars
<1> QED BY <1>1, <1>2, <1>3 DEF Mine

LEMMA ContractCallStep ==
  ASSUME MeetsInv, [Next]_vars
  PROVE  ContractCalls \/ UNCHANGED contractVars
<1>1. ASSUME NEW t \in Tabs, PanelStep(t) \/ RunStep(t) \/ Reload(t)
      PROVE  ContractCalls \/ UNCHANGED contractVars
  <2>1. CASE SignLatest(t) \/ SignAck(t)
    BY <2>1, WalletSigns DEF MeetsInv
  <2>2. CASE \/ \E amount \in Amounts : SendOpen(t, amount)
             \/ PersistOpen(t) \/ PickLatest(t) \/ SendClose(t)
             \/ ReadOnMount(t) \/ Refresh(t) \/ PanelFails(t)
             \/ Reload(t) \/ RejectAck(t)
    BY <2>2 DEF SendOpen, PersistOpen, PickLatest, SendClose, Reload, RejectAck,
                ReadOnMount, Refresh, ReadStatus, PanelFails, contractVars, chainVars, nodeVars
  <2>3. CASE StartRun(t) \/ ContinueRun(t) \/ Receive(t)
    BY <2>3 DEF StartRun, ContinueRun, Send, Receive, Ledger!Arrive, Ledger!Respond,
                contractVars, chainVars
  <2> QED BY <1>1, <2>1, <2>2, <2>3 DEF PanelStep, RunStep
<1>2. ASSUME NEW r \in Requests, NodeOrNetwork(r)
      PROVE  ContractCalls \/ UNCHANGED contractVars
  <2>1. CASE \E cost \in Costs : Ledger!StepSucceeds(r, cost) /\ UNCHANGED <<chainVars, cosigned>>
    BY <2>1, StepSigns DEF MeetsInv, PartsInv
  <2>2. CASE \/ NodeStepFails(r) \/ LoseResponse(r)
             \/ /\ Ledger!FetchDeposit(r) \/ Ledger!CacheDeposit(r)
                /\ UNCHANGED <<chainVars, clientVars>>
    BY <2>2 DEF NodeStepFails, LoseResponse, Ledger!FetchDeposit, Ledger!CacheDeposit,
                Ledger!CallFails, Ledger!Respond, contractVars, chainVars, clientVars
  <2> QED BY <1>2, <2>1, <2>2 DEF NodeOrNetwork, NodeStep, clientVars
<1>3. CASE \E tx \in pending : Mine(tx)
  BY <1>3, MinedCall
<1>4. CASE NodeRestart \/ UNCHANGED vars
  BY <1>4 DEF NodeRestart, Ledger!Restart, vars, contractVars, chainVars, nodeVars, clientVars
<1> QED BY <1>1, <1>2, <1>3, <1>4 DEF Next

\* Whatever the tabs, the node and the network do, money and channel change
\* only by calls JobChannel's functions allow (openChannel, cooperativeClose),
\* and a signature is one the contract's model lets a party make: JobChannel,
\* with parties that sign and call as they please, covers what the dashboard
\* and the node do, its history variable lapsed aside (useChannel.ts; main.rs:
\* build_receipt).
THEOREM CallsTheContract == Spec => Contract!Init /\ [][ContractCalls]_contractVars
<1>1. Init => Contract!Init
  BY DEF Init
<1>2. MeetsInv /\ [Next]_vars => [ContractCalls]_contractVars
  BY ContractCallStep
<1> QED BY <1>1, <1>2, MeetsInvariant, PTL DEF Spec

---------------------------------------------------------------------------
(***************************************************************************)
(* What is proved of NodeLedger and of JobChannel, for the composition.    *)
(* LedgerFacts and ContractFacts are Ledger and Contract with the theorems *)
(* about them; the lemmas called Same... say so.                           *)
(***************************************************************************)
LedgerFacts == INSTANCE NodeLedgerProofs WITH
  Wallets <- {Client}, Unissued <- {},
  Deposits <- Amounts \cup {0},
  deposited <- channels[Id].deposit

\* The component's theorems are about the same ledger.
LEMMA SameActions ==
  ASSUME NEW r
  PROVE  /\ \A ack : LedgerFacts!Arrive(r, ack) <=> Ledger!Arrive(r, ack)
         /\ LedgerFacts!Execute(r) <=> Ledger!Execute(r)
         /\ LedgerFacts!Respond(r) <=> Ledger!Respond(r)
<1>1. ASSUME NEW ack
      PROVE  LedgerFacts!Arrive(r, ack) <=> Ledger!Arrive(r, ack)
  BY DEF LedgerFacts!Arrive, Ledger!Arrive, LedgerFacts!Idle, Ledger!Idle,
         LedgerFacts!Decide, Ledger!Decide, LedgerFacts!Verdict, Ledger!Verdict
<1>2. LedgerFacts!FetchDeposit(r) <=> Ledger!FetchDeposit(r)
  BY DEF LedgerFacts!FetchDeposit, Ledger!FetchDeposit, LedgerFacts!Fetched, Ledger!Fetched
<1>3. LedgerFacts!CacheDeposit(r) <=> Ledger!CacheDeposit(r)
  BY DEF LedgerFacts!CacheDeposit, Ledger!CacheDeposit, LedgerFacts!Decide, Ledger!Decide,
         LedgerFacts!Verdict, Ledger!Verdict
<1>4. LedgerFacts!CallFails(r) <=> Ledger!CallFails(r)
  BY DEF LedgerFacts!CallFails, Ledger!CallFails
<1>5. ASSUME NEW cost
      PROVE  LedgerFacts!StepSucceeds(r, cost) <=> Ledger!StepSucceeds(r, cost)
  BY DEF LedgerFacts!StepSucceeds, Ledger!StepSucceeds,
         LedgerFacts!NextUpdate, Ledger!NextUpdate, LedgerFacts!WithAck, Ledger!WithAck,
         LedgerFacts!AckAccepted, Ledger!AckAccepted
<1>6. LedgerFacts!Execute(r) <=> Ledger!Execute(r)
  BY <1>2, <1>3, <1>4, <1>5 DEF LedgerFacts!Execute, Ledger!Execute
<1>7. LedgerFacts!Respond(r) <=> Ledger!Respond(r)
  BY DEF LedgerFacts!Respond, Ledger!Respond, LedgerFacts!Idle, Ledger!Idle
<1> QED BY <1>1, <1>6, <1>7

LEMMA SameNext == [Ledger!Next]_(Ledger!vars) => [LedgerFacts!Next]_(LedgerFacts!vars)
<1>1. \A ack : LedgerFacts!PostAck(ack) <=> Ledger!PostAck(ack)
  BY DEF LedgerFacts!PostAck, Ledger!PostAck, LedgerFacts!WithAck, Ledger!WithAck,
         LedgerFacts!AckAccepted, Ledger!AckAccepted
<1>2. LedgerFacts!Restart <=> Ledger!Restart
  BY DEF LedgerFacts!Restart, Ledger!Restart, LedgerFacts!Fresh, Ledger!Fresh,
         LedgerFacts!Idle, Ledger!Idle
<1>3. LedgerFacts!ChainChange <=> Ledger!ChainChange
  BY DEF LedgerFacts!ChainChange, Ledger!ChainChange
<1>4. LedgerFacts!PossibleAcks = Ledger!PossibleAcks
  BY DEF LedgerFacts!PossibleAcks, Ledger!PossibleAcks
<1>5. LedgerFacts!vars = Ledger!vars /\ LedgerFacts!vars' = Ledger!vars'
  BY DEF LedgerFacts!vars, Ledger!vars
<1> QED BY <1>1, <1>2, <1>3, <1>4, <1>5, SameActions DEF LedgerFacts!Next, Ledger!Next

LEMMA SameProperties ==
  /\ LedgerFacts!ReceiptsInOrder => Ledger!ReceiptsInOrder
  /\ LedgerFacts!EveryTripCounted => Ledger!EveryTripCounted
  /\ LedgerFacts!OvershootBounded => Ledger!OvershootBounded
<1>1. LedgerFacts!ReceiptsInOrder => Ledger!ReceiptsInOrder
  BY DEF LedgerFacts!ReceiptsInOrder, Ledger!ReceiptsInOrder
<1>2. LedgerFacts!EveryTripCounted => Ledger!EveryTripCounted
  BY DEF LedgerFacts!EveryTripCounted, Ledger!EveryTripCounted
<1>3. LedgerFacts!OvershootBounded => Ledger!OvershootBounded
  BY DEF LedgerFacts!OvershootBounded, Ledger!OvershootBounded,
         LedgerFacts!Cardinality, Ledger!Cardinality,
         LedgerFacts!IsFiniteSet, Ledger!IsFiniteSet
<1> QED BY <1>1, <1>2, <1>3

NodeAccount ==
  Ledger!ReceiptsInOrder /\ Ledger!EveryTripCounted /\ Ledger!OvershootBounded

\* So a node paid through the dashboards of the composition signs no nonce for
\* two amounts between two restarts, loses no round trip, and is owed no more
\* than the largest deposit and a dearest round trip for each call it runs at
\* once, with reloads, lost responses and tabs side by side (main.rs:
\* check_channel_solvent, build_receipt; useChannel.ts).
THEOREM NodeAccountsHold == Spec => []NodeAccount
<1>1. LedgerFacts!LedgerAssumption
  BY PartsAssumed
     DEF LedgerFacts!LedgerAssumption, Ledger!LedgerAssumption,
         LedgerFacts!IsFiniteSet, Ledger!IsFiniteSet
<1>2. LedgerFacts!Spec => []LedgerFacts!ReceiptsInOrder
  BY <1>1, LedgerFacts!ReceiptsAlwaysInOrder
<1>3. LedgerFacts!Spec => []LedgerFacts!EveryTripCounted
  BY <1>1, LedgerFacts!EveryTripAlwaysCounted
<1>4. LedgerFacts!Spec => []LedgerFacts!OvershootBounded
  BY <1>1, LedgerFacts!OvershootAlwaysBounded
<1>5. Ledger!Init => LedgerFacts!Init
  BY DEF LedgerFacts!Init, Ledger!Init, LedgerFacts!Fresh, Ledger!Fresh,
         LedgerFacts!Idle, Ledger!Idle
<1>6. LedgerFacts!ReceiptsInOrder /\ LedgerFacts!EveryTripCounted
      /\ LedgerFacts!OvershootBounded => NodeAccount
  BY SameProperties DEF NodeAccount
<1> QED BY <1>2, <1>3, <1>4, <1>5, <1>6, SameNext, ImplementsLedger, PTL
        DEF Ledger!Spec, LedgerFacts!Spec

ContractFacts == INSTANCE JobChannelProofs WITH
  Clients <- {Client}, Nodes <- {Node}, ChannelNonces <- {0},
  Updates <- Ledger!Update,
  ChallengeWindow <- 1, ReclaimTimeout <- 0, MaxTime <- 0,
  now <- 0, active <- {Node},
  clientSigned <- {<<Id, u>> : u \in cosigned},
  nodeSigned <- {<<Id, i.update>> : i \in issued}, lapsed <- {}

\* The functions of the contract are the same.
LEMMA SameFunctions ==
  ASSUME NEW id
  PROVE  /\ \A amount : Contract!OpenInTime(id, amount) => ContractFacts!OpenInTime(id, amount)
         /\ \A payer, amount : Contract!TopUp(payer, id, amount)
                                 => ContractFacts!TopUp(payer, id, amount)
         /\ \A u : Contract!CooperativeClose(id, u) => ContractFacts!CooperativeClose(id, u)
         /\ \A u : Contract!ChallengeInTime(id, u) => ContractFacts!ChallengeInTime(id, u)
         /\ \A u : Contract!SubmitChallenge(id, u) => ContractFacts!SubmitChallenge(id, u)
         /\ Contract!Finalize(id) => ContractFacts!Finalize(id)
         /\ Contract!Reclaim(id) => ContractFacts!Reclaim(id)
         /\ \A u : Contract!ClientSigns(id, u) => ContractFacts!ClientSigns(id, u)
         /\ \A u : Contract!NodeSigns(id, u) => ContractFacts!NodeSigns(id, u)
<1> USE DEF Contract!VerifySigs, ContractFacts!VerifySigs, Contract!Credit, ContractFacts!Credit,
            Contract!PaidToNode, ContractFacts!PaidToNode, Contract!Ended, ContractFacts!Ended,
            Contract!WithUpdate, ContractFacts!WithUpdate, Contract!Settle, ContractFacts!Settle,
            Contract!PullIn, ContractFacts!PullIn, Contract!ClientOf, ContractFacts!ClientOf,
            Contract!NodeOf, ContractFacts!NodeOf
<1>1. ASSUME NEW amount, Contract!OpenInTime(id, amount)
      PROVE  ContractFacts!OpenInTime(id, amount)
  BY <1>1 DEF Contract!OpenInTime, ContractFacts!OpenInTime, Contract!OpenChannel,
              ContractFacts!OpenChannel, Contract!MayOpen, ContractFacts!MayOpen,
              Contract!Opened, ContractFacts!Opened
<1>2. ASSUME NEW payer, NEW amount, Contract!TopUp(payer, id, amount)
      PROVE  ContractFacts!TopUp(payer, id, amount)
  BY <1>2 DEF Contract!TopUp, ContractFacts!TopUp, Contract!MayTopUp, ContractFacts!MayTopUp,
              Contract!ToppedUp, ContractFacts!ToppedUp
<1>3. ASSUME NEW u, Contract!CooperativeClose(id, u)
      PROVE  ContractFacts!CooperativeClose(id, u)
  BY <1>3 DEF Contract!CooperativeClose, ContractFacts!CooperativeClose,
              Contract!CloseNonceOk, ContractFacts!CloseNonceOk
<1>4. ASSUME NEW u, Contract!ChallengeInTime(id, u)
      PROVE  ContractFacts!ChallengeInTime(id, u)
  BY <1>4 DEF Contract!ChallengeInTime, ContractFacts!ChallengeInTime,
              Contract!ChallengeClose, ContractFacts!ChallengeClose, Contract!MayChallenge,
              ContractFacts!MayChallenge, Contract!Contested, ContractFacts!Contested
<1>5. ASSUME NEW u, Contract!SubmitChallenge(id, u)
      PROVE  ContractFacts!SubmitChallenge(id, u)
  BY <1>5 DEF Contract!SubmitChallenge, ContractFacts!SubmitChallenge,
              Contract!Overrides, ContractFacts!Overrides
<1>6. Contract!Finalize(id) => ContractFacts!Finalize(id)
  BY DEF Contract!Finalize, ContractFacts!Finalize, Contract!WindowOver,
         ContractFacts!WindowOver
<1>7. Contract!Reclaim(id) => ContractFacts!Reclaim(id)
  BY DEF Contract!Reclaim, ContractFacts!Reclaim, Contract!MayReclaim, ContractFacts!MayReclaim
<1>8. \A u : /\ Contract!ClientSigns(id, u) => ContractFacts!ClientSigns(id, u)
             /\ Contract!NodeSigns(id, u) => ContractFacts!NodeSigns(id, u)
  BY DEF Contract!ClientSigns, ContractFacts!ClientSigns, Contract!NodeSigns,
         ContractFacts!NodeSigns
<1> QED BY <1>1, <1>2, <1>3, <1>4, <1>5, <1>6, <1>7, <1>8

LEMMA SameCalls ==
  [ContractCalls]_contractVars => [ContractFacts!AnyCall]_(ContractFacts!moneyVars)
<1>1. UNCHANGED contractVars => UNCHANGED ContractFacts!moneyVars
  BY DEF contractVars, ContractFacts!moneyVars
<1>2. Contract!ChannelIds = ContractFacts!ChannelIds
  BY DEF Contract!ChannelIds, ContractFacts!ChannelIds
<1>3. Contract!Accounts = ContractFacts!Accounts
  BY DEF Contract!Accounts, ContractFacts!Accounts
<1>4. ASSUME NEW id \in Contract!ChannelIds, Contract!ContractStep(id) \/ Contract!Signing(id)
      PROVE  ContractFacts!ContractStep(id) \/ ContractFacts!Signing(id)
  BY <1>3, <1>4, SameFunctions
     DEF Contract!ContractStep, ContractFacts!ContractStep,
         Contract!Signing, ContractFacts!Signing
<1> QED BY <1>1, <1>2, <1>4 DEF ContractCalls, ContractFacts!AnyCall

LEMMA ContractAssumed == ContractFacts!ConstantsAssumption /\ ContractFacts!FiniteAssumption
BY PartsAssumed
   DEF ContractFacts!ConstantsAssumption, Contract!ConstantsAssumption,
       ContractFacts!FiniteAssumption, Contract!FiniteAssumption,
       ContractFacts!IsFiniteSet, Contract!IsFiniteSet

LEMMA ContractStarts == Contract!Init => ContractFacts!Init
BY DEF Contract!Init, ContractFacts!Init, Contract!ChannelIds, ContractFacts!ChannelIds,
       Contract!Accounts, ContractFacts!Accounts, Contract!NoChannel,
       ContractFacts!NoChannel, Contract!NoOutcome, ContractFacts!NoOutcome

LEMMA ContractMoney == Spec => []ContractFacts!MoneyInv
<1>1. Contract!Init => ContractFacts!MoneyInv
  BY ContractAssumed, ContractStarts, ContractFacts!InitMoney
<1>2. ContractFacts!MoneyInv /\ [ContractCalls]_contractVars => ContractFacts!MoneyInv'
  BY ContractAssumed, SameCalls, ContractFacts!MoneyInvStep
<1> QED BY <1>1, <1>2, CallsTheContract, PTL

MoneyAccount == Contract!LedgerBalanced /\ Contract!PaidAsSigned

\* So the money of the composition's channel is accounted for: what the client
\* put in is deposited, paid or refunded, and what the node was paid is a
\* state both signed, capped at the deposit, whatever became of the tabs, the
\* node and the network meanwhile (JobChannel.sol: _settle; useChannel.ts).
THEOREM MoneyAccountsHold == Spec => []MoneyAccount
<1>1. ContractFacts!MoneyInv => MoneyAccount
  <2>1. ContractFacts!MoneyInv => ContractFacts!LedgerBalanced /\ ContractFacts!PaidAsSigned
    BY ContractAssumed, ContractFacts!MoneyInvMeans
  <2> QED BY <2>1 DEF MoneyAccount, Contract!LedgerBalanced, ContractFacts!LedgerBalanced,
         Contract!PaidAsSigned, ContractFacts!PaidAsSigned,
         Contract!ChannelIds, ContractFacts!ChannelIds
<1> QED BY <1>1, ContractMoney, PTL

\* End to end the channel is EscrowPromise too: whatever the tabs, the node
\* and the network do, money stays in the channel in full until a single step
\* gives the node an amount that both have signed by then, capped at what is
\* held, and the client all the rest (JobChannel.sol: openChannel,
\* cooperativeClose; useChannel.ts; main.rs: build_receipt).
THEOREM ProtocolKeepsPromise == Spec => Contract!ImplementsPromise
<1>1. Contract!Init => ContractFacts!Promise!PromiseInit
  BY ContractAssumed, ContractStarts, ContractFacts!PromiseStart
<1>2. /\ ContractFacts!MoneyInv /\ ContractFacts!MoneyInv'
      /\ [ContractCalls]_contractVars
      => [ContractFacts!Promise!PromiseNext]_(ContractFacts!Promise!pvars)
  <2> SUFFICES ASSUME ContractFacts!MoneyInv, ContractFacts!MoneyInv',
                      [ContractCalls]_contractVars
               PROVE  \/ ContractFacts!Promise!PromiseNext
                      \/ UNCHANGED ContractFacts!Promise!pvars
    OBVIOUS
  <2>1. [ContractFacts!AnyCall]_(ContractFacts!moneyVars)
    BY SameCalls
  <2>2. ContractFacts!ConstantsAssumption /\ ContractFacts!FiniteAssumption
    BY ContractAssumed
  <2> QED BY <2>1, <2>2, ContractFacts!PromiseStep
<1>3. ContractFacts!Promise!PromiseInit => Contract!Promise!PromiseInit
  <2>1. ContractFacts!ChannelIds = Contract!ChannelIds
    BY DEF ContractFacts!ChannelIds, Contract!ChannelIds
  <2>2. \A c : ContractFacts!Phase(c) = Contract!Phase(c)
    BY DEF ContractFacts!Phase, Contract!Phase
  <2>3. ASSUME NEW id PROVE ContractFacts!AgreedAmounts(id) = Contract!AgreedAmounts(id)
    BY SMTT(30) DEF ContractFacts!AgreedAmounts, Contract!AgreedAmounts
  <2> QED BY <2>1, <2>2, <2>3
          DEF ContractFacts!Promise!PromiseInit, Contract!Promise!PromiseInit
<1>4. [ContractFacts!Promise!PromiseNext]_(ContractFacts!Promise!pvars)
        => [Contract!Promise!PromiseNext]_(Contract!Promise!pvars)
  BY DEF ContractFacts!Promise!PromiseNext, Contract!Promise!PromiseNext,
         ContractFacts!Promise!pvars, Contract!Promise!pvars,
         ContractFacts!Promise!Fund, Contract!Promise!Fund,
         ContractFacts!Promise!Agree, Contract!Promise!Agree,
         ContractFacts!Promise!Release, Contract!Promise!Release,
         ContractFacts!ChannelIds, Contract!ChannelIds,
         ContractFacts!Phase, Contract!Phase,
         ContractFacts!AgreedAmounts, Contract!AgreedAmounts
<1> QED BY <1>1, <1>2, <1>3, <1>4, ContractMoney, CallsTheContract, PTL
        DEF Contract!ImplementsPromise, Contract!Promise!PromiseSpec

---------------------------------------------------------------------------
(***************************************************************************)
(* What the parties have in the end.                                       *)
(***************************************************************************)
LEMMA NodeOrder == Spec => [](LedgerFacts!ReceiptsInOrder /\ LedgerFacts!LivesCounted)
<1>1. LedgerFacts!LedgerAssumption
  BY PartsAssumed
     DEF LedgerFacts!LedgerAssumption, Ledger!LedgerAssumption,
         LedgerFacts!IsFiniteSet, Ledger!IsFiniteSet
<1>2. LedgerFacts!Spec => [](LedgerFacts!ReceiptsInOrder /\ LedgerFacts!LivesCounted)
  BY <1>1, LedgerFacts!LivesInOrder
<1>3. Ledger!Init => LedgerFacts!Init
  BY DEF LedgerFacts!Init, Ledger!Init, LedgerFacts!Fresh, Ledger!Fresh,
         LedgerFacts!Idle, Ledger!Idle
<1> QED BY <1>2, <1>3, SameNext, ImplementsLedger, PTL DEF Ledger!Spec, LedgerFacts!Spec

\* A node that never restarts owes its receipts one order: the newer one is
\* never for less.
LEMMA NewerOwesMore ==
  ASSUME NodeInv, LedgerFacts!ReceiptsInOrder, LedgerFacts!LivesCounted, MaxRestarts = 0,
         NEW u \in Signed, NEW v \in Signed, u.nonce <= v.nonce
  PROVE  u.cumOwed <= v.cumOwed
<1>1. PICK a \in issued : a.update = u
  BY DEF Signed
<1>2. PICK b \in issued : b.update = v
  BY DEF Signed
<1>3. /\ a.life \in Nat /\ b.life \in Nat
      /\ u.nonce \in Nat /\ v.nonce \in Nat /\ u.cumOwed \in Nat
  BY <1>1, <1>2 DEF NodeInv, Update, Ledger!Update
<1>4. a.life = b.life
  <2>1. /\ a.life <= life /\ b.life <= life /\ life <= 0 /\ life \in Nat
    BY DEF LedgerFacts!LivesCounted, LedgerFacts!NoneFromLaterLives, NodeInv
  <2> QED BY <1>3, <2>1
<1>5. CASE u.nonce = v.nonce
  <2>1. a = b
    BY <1>1, <1>2, <1>4, <1>5 DEF LedgerFacts!ReceiptsInOrder
  <2> QED BY <1>1, <1>2, <1>3, <2>1
<1>6. CASE u.nonce < v.nonce
  BY <1>1, <1>2, <1>4, <1>6 DEF LedgerFacts!ReceiptsInOrder
<1> QED BY <1>3, <1>5, <1>6

\* What a settlement pays.
LEMMA ClosePays ==
  ASSUME ChainInv, NEW u \in Update, Contract!CooperativeClose(Id, u)
  PROVE  outcome'[Id].paid = IF u.cumOwed > channels[Id].deposit
                             THEN channels[Id].deposit ELSE u.cumOwed
<1> DEFINE c == Contract!WithUpdate(channels[Id], u)
<1>1. channels[Id] \in Contract!Channel
  BY IdIsKnown DEF ChainInv
<1>2. c.latestCumOwed = u.cumOwed /\ c.deposit = channels[Id].deposit
  BY <1>1 DEF Contract!WithUpdate, Contract!Channel
<1>3. outcome' = [outcome EXCEPT ![Id] =
        [by |-> "cooperativeClose", paid |-> Contract!PaidToNode(c),
         refunded |-> c.deposit - Contract!PaidToNode(c)]]
  BY DEF Contract!CooperativeClose, Contract!Settle
<1> HIDE DEF c
<1>4. outcome'[Id].paid = Contract!PaidToNode(c)
  BY <1>3, IdIsKnown DEF ChainInv
<1> QED BY <1>2, <1>4 DEF Contract!PaidToNode

\* When the channel closes the node gets all that the client had countersigned
\* when it sent the close, or the whole deposit where that is less.
PaysAllCosigned ==
  [][\A tx \in pending \ pending' :
       outcome'[Id].by # outcome[Id].by =>
         \A u \in tx.held : \/ u.cumOwed <= outcome'[Id].paid
                            \/ outcome'[Id].paid = channels[Id].deposit]_vars

\* A client with one tab who touches the panel only between runs and starts
\* none while it is busy, and whose node does not restart, never underpays: at
\* the close the node gets as much as any state the wallet had countersigned
\* when it sent the close owes, or the whole deposit, although responses,
\* popups, pages, readings and waits were lost in between and the update
\* submitted is the tab's own (useChannel.ts: signReceipt, cooperativeClose;
\* main.rs: build_receipt; JobChannel.sol: _settle).
THEOREM ClosesInFull == Calm => (Spec => PaysAllCosigned)
<1> SUFFICES ASSUME Calm PROVE Spec => PaysAllCosigned
  OBVIOUS
<1>1. /\ CalmInv /\ LedgerFacts!ReceiptsInOrder /\ LedgerFacts!LivesCounted
      /\ [Next]_vars
      => [\A tx \in pending \ pending' :
            outcome'[Id].by # outcome[Id].by =>
              \A u \in tx.held : \/ u.cumOwed <= outcome'[Id].paid
                                 \/ outcome'[Id].paid = channels[Id].deposit]_vars
  <2> SUFFICES ASSUME CalmInv, LedgerFacts!ReceiptsInOrder, LedgerFacts!LivesCounted,
                      [Next]_vars, outcome'[Id].by # outcome[Id].by,
                      NEW tx \in pending \ pending', NEW u \in tx.held
               PROVE  \/ u.cumOwed <= outcome'[Id].paid
                      \/ outcome'[Id].paid = channels[Id].deposit
    OBVIOUS
  <2>1. MineClose(tx)
    BY ClosingIsMined
  <2>2. ChainInv /\ NodeInv /\ cosigned \subseteq Signed /\ Signed \subseteq Update
    BY DEF CalmInv, SoloInv, PartsInv, NodeInv, Signed
  <2>3. tx.update # NoReceipt /\ Contract!CooperativeClose(Id, tx.update)
    BY <2>1 DEF MineClose
  <2>4. tx.update \in cosigned /\ u \in cosigned
    BY <2>3, VerifyMeans DEF Contract!CooperativeClose, CalmInv, SoloInv, PendingInv
  <2>5. u.nonce <= tx.update.nonce
    BY <2>3 DEF CalmInv, NewestInv, SentNewest
  <2>6. u.cumOwed <= tx.update.cumOwed
    BY <2>2, <2>4, <2>5, NewerOwesMore DEF Calm
  <2>7. outcome'[Id].paid = IF tx.update.cumOwed > channels[Id].deposit
                            THEN channels[Id].deposit ELSE tx.update.cumOwed
    BY <2>2, <2>3, <2>4, ClosePays
  <2> QED BY <2>6, <2>7
<1> QED BY <1>1, CalmInvariant, NodeOrder, PTL DEF Spec, PaysAllCosigned

\* What the client's wallet lacks is what the contract still holds of it and
\* what the node was paid; the node has that much more, the contract no more
\* than the deposit.
WalletsAddUp ==
  /\ usdc[Client] + channels[Id].deposit + outcome[Id].paid = InitialUsdc
  /\ usdc[Node] = InitialUsdc + outcome[Id].paid
  /\ escrowed = channels[Id].deposit

\* What MoneyInv says of the one channel.
LEMMA MoneyMeans ==
  ASSUME ContractFacts!MoneyInv
  PROVE  /\ channels \in [Contract!ChannelIds -> Contract!Channel]
         /\ outcome \in [Contract!ChannelIds -> Contract!Outcome]
         /\ usdc \in [{Client, Node} -> Nat] /\ escrowed \in Int
         /\ channels[Id].status = "None" => channels[Id].deposit = 0
         /\ channels[Id].status # "Closed" => outcome[Id].paid = 0
<1>1. Id \in ContractFacts!ChannelIds
  BY DEF ContractFacts!ChannelIds, Id
<1>2. ContractFacts!TypeOK /\ ContractFacts!ChannelInv(Id)
  BY <1>1 DEF ContractFacts!MoneyInv
<1>3. /\ channels \in [Contract!ChannelIds -> Contract!Channel]
      /\ outcome \in [Contract!ChannelIds -> Contract!Outcome]
  BY <1>2 DEF ContractFacts!TypeOK, ContractFacts!ChannelIds, Contract!ChannelIds,
              ContractFacts!Channel, Contract!Channel, ContractFacts!Statuses,
              Contract!Statuses, ContractFacts!Outcome, Contract!Outcome,
              ContractFacts!Closers, Contract!Closers
<1>4. usdc \in [{Client, Node} -> Nat] /\ escrowed \in Int
  BY <1>2 DEF ContractFacts!TypeOK, ContractFacts!Accounts
<1>5. /\ channels[Id].status = "None" => channels[Id].deposit = 0
      /\ channels[Id].status # "Closed" => outcome[Id].paid = 0
  BY <1>2 DEF ContractFacts!ChannelInv, ContractFacts!NoOutcome
<1> QED BY <1>3, <1>4, <1>5

LEMMA OpenAddsUp ==
  ASSUME ContractFacts!MoneyInv, WalletsAddUp, NEW amount \in Nat,
         Contract!OpenChannel(Id, amount)
  PROVE  WalletsAddUp'
<1>1. /\ channels' = [channels EXCEPT ![Id] = Contract!Opened(channels[Id], amount, 0)]
      /\ channels[Id].status = "None" /\ outcome' = outcome
      /\ usdc' = [usdc EXCEPT ![Client] = usdc[Client] - amount]
      /\ escrowed' = escrowed + amount
  BY DEF Contract!OpenChannel, Contract!MayOpen, Contract!PullIn, Contract!ClientOf, Id
<1>2. /\ channels[Id] \in Contract!Channel /\ outcome[Id].paid \in Nat
      /\ usdc[Client] \in Nat /\ usdc[Node] \in Nat
  BY IdIsKnown, MoneyMeans DEF Contract!Outcome
<1>3. channels'[Id].deposit = amount /\ channels[Id].deposit = 0
  <2>1. Contract!Opened(channels[Id], amount, 0).deposit = amount
    BY <1>2 DEF Contract!Opened, Contract!Channel
  <2> QED BY <1>1, <2>1, IdIsKnown, MoneyMeans
<1>4. usdc'[Client] = usdc[Client] - amount /\ usdc'[Node] = usdc[Node]
  BY <1>1, MoneyMeans, ProtocolAssumption
<1>5. InitialUsdc \in Nat
  BY ProtocolAssumption
<1> QED BY <1>1, <1>2, <1>3, <1>4, <1>5, MoneyMeans DEF WalletsAddUp

LEMMA CloseAddsUp ==
  ASSUME ContractFacts!MoneyInv, WalletsAddUp, NEW u \in Update,
         Contract!CooperativeClose(Id, u)
  PROVE  WalletsAddUp'
<1> DEFINE c == Contract!WithUpdate(channels[Id], u)
           paid == Contract!PaidToNode(c)
<1>1. channels[Id] \in Contract!Channel /\ u.cumOwed \in Nat /\ u.nonce \in Nat
  BY IdIsKnown, MoneyMeans DEF Update, Ledger!Update
<1>2. c \in Contract!Channel /\ c.deposit = channels[Id].deposit
  BY <1>1 DEF Contract!WithUpdate, Contract!Channel
<1>3. /\ channels[Id].status # "Closed"
      /\ channels' = [channels EXCEPT ![Id] = Contract!Ended(c)]
      /\ usdc' = Contract!Credit(Contract!Credit(usdc, Node, paid), Client, c.deposit - paid)
      /\ escrowed' = escrowed - paid - (c.deposit - paid)
      /\ outcome' = [outcome EXCEPT
           ![Id] = [by |-> "cooperativeClose", paid |-> paid, refunded |-> c.deposit - paid]]
  BY DEF Contract!CooperativeClose, Contract!Settle, Contract!NodeOf, Contract!ClientOf, Id
<1> HIDE DEF c
<1>4. c.deposit \in Nat /\ paid \in Nat
  BY <1>2 DEF Contract!PaidToNode, Contract!Channel
<1> HIDE DEF paid
<1>5. channels'[Id].deposit = 0
  <2>1. Contract!Ended(c).deposit = 0
    BY <1>2 DEF Contract!Ended, Contract!Channel
  <2> QED BY <1>3, <2>1, IdIsKnown, MoneyMeans
<1>6. outcome'[Id].paid = paid /\ outcome[Id].paid = 0
  BY <1>3, IdIsKnown, MoneyMeans
<1>7. /\ usdc'[Client] = usdc[Client] + (c.deposit - paid)
      /\ usdc'[Node] = usdc[Node] + paid
      /\ usdc[Client] \in Nat /\ usdc[Node] \in Nat
  BY <1>3, MoneyMeans, ProtocolAssumption DEF Contract!Credit
<1>8. InitialUsdc \in Nat /\ escrowed \in Int
  BY ProtocolAssumption, MoneyMeans
<1> QED BY <1>2, <1>3, <1>4, <1>5, <1>6, <1>7, <1>8 DEF WalletsAddUp

\* No step of a tab, the node or the network makes, loses or misplaces money:
\* at every moment the client is out of pocket by what the contract holds and
\* what the node was paid, and by nothing else, reverted, repeated and
\* orphaned transactions included (JobChannel.sol: openChannel, _settle;
\* useChannel.ts: openChannel, cooperativeClose).
THEOREM WalletsAlwaysAddUp == Spec => []WalletsAddUp
<1>1. Init => WalletsAddUp
  <2> SUFFICES ASSUME Contract!Init PROVE WalletsAddUp
    BY DEF Init
  <2>1. channels[Id].deposit = 0 /\ outcome[Id].paid = 0 /\ escrowed = 0
    BY IdIsKnown DEF Contract!Init, Contract!NoChannel, Contract!NoOutcome
  <2>2. usdc[Client] = InitialUsdc /\ usdc[Node] = InitialUsdc
    BY DEF Contract!Init, Contract!Accounts
  <2> QED BY <2>1, <2>2, ProtocolAssumption DEF WalletsAddUp
<1>2. MeetsInv /\ ContractFacts!MoneyInv /\ WalletsAddUp /\ [Next]_vars => WalletsAddUp'
  <2> SUFFICES ASSUME MeetsInv, ContractFacts!MoneyInv, WalletsAddUp, [Next]_vars
               PROVE  WalletsAddUp'
    OBVIOUS
  <2>1. CASE UNCHANGED chainVars
    BY <2>1 DEF chainVars, WalletsAddUp
  <2>2. ASSUME NEW tx \in pending, MineOpen(tx) PROVE WalletsAddUp'
    <3>1. tx.deposit \in Nat
      BY DEF MeetsInv, PartsInv, TabsInv, Tx
    <3> QED BY <2>2, <3>1, OpenAddsUp DEF MineOpen
  <2>3. ASSUME NEW tx \in pending, MineClose(tx) PROVE WalletsAddUp'
    <3>1. tx.update \in Update
      BY <2>3 DEF MineClose, MeetsInv, PartsInv, TabsInv, Tx, MaybeUpdate
    <3> QED BY <2>3, <3>1, CloseAddsUp DEF MineClose
  <2>4. ASSUME NEW tx \in pending, MineRevert(tx) PROVE WalletsAddUp'
    BY <2>1, <2>4 DEF MineRevert
  <2> QED BY <2>1, <2>2, <2>3, <2>4, OnlyMining DEF Mine
<1> QED BY <1>1, <1>2, MeetsInvariant, ContractMoney, PTL DEF Spec

\* Through tabs that overlap, reloads, lost responses and restarts the node of
\* the composition meters round trips as TripMeter does: it charges one at a
\* time on top of all earlier ones, and takes acks of the first payer only
\* (main.rs: build_receipt, verify_and_record_ack).
THEOREM ProtocolIsMetered == Spec => Ledger!ImplementsMeter
<1>1. LedgerFacts!LedgerAssumption
  BY PartsAssumed
     DEF LedgerFacts!LedgerAssumption, Ledger!LedgerAssumption,
         LedgerFacts!IsFiniteSet, Ledger!IsFiniteSet
<1>2. LedgerFacts!Spec => LedgerFacts!ImplementsMeter
  BY <1>1, LedgerFacts!LedgerIsMeter
<1>3. Ledger!Init => LedgerFacts!Init
  BY DEF LedgerFacts!Init, Ledger!Init, LedgerFacts!Fresh, Ledger!Fresh,
         LedgerFacts!Idle, Ledger!Idle
<1>4. LedgerFacts!Meter!MeterInit => Ledger!Meter!MeterInit
  BY DEF LedgerFacts!Meter!MeterInit, Ledger!Meter!MeterInit,
         LedgerFacts!Meter!Zero, Ledger!Meter!Zero
<1>5. [LedgerFacts!Meter!MeterNext]_(LedgerFacts!Meter!meterVars)
        => [Ledger!Meter!MeterNext]_(Ledger!Meter!meterVars)
  BY DEF LedgerFacts!Meter!MeterNext, Ledger!Meter!MeterNext,
         LedgerFacts!Meter!meterVars, Ledger!Meter!meterVars,
         LedgerFacts!Meter!Charge, Ledger!Meter!Charge,
         LedgerFacts!Meter!Acknowledge, Ledger!Meter!Acknowledge,
         LedgerFacts!Meter!LosePower, Ledger!Meter!LosePower,
         LedgerFacts!Meter!Recognized, Ledger!Meter!Recognized,
         LedgerFacts!Meter!Zero, Ledger!Meter!Zero
<1> QED BY <1>2, <1>3, <1>4, <1>5, SameNext, ImplementsLedger, PTL
        DEF Ledger!Spec, LedgerFacts!Spec, Ledger!ImplementsMeter,
            LedgerFacts!ImplementsMeter, Ledger!Meter!MeterSpec,
            LedgerFacts!Meter!MeterSpec
=============================================================================

------------------------------ MODULE ChannelPage ------------------------------
(***************************************************************************)
(* One dashboard page and its channels with several nodes: what useChannel *)
(* keeps in memory and in localStorage while the user moves between nodes, *)
(* nodes come and go, a prompt runs and the panel signs, opens and closes. *)
(* A handler works on the values of the render it was clicked in (its      *)
(* view) until it ends, whatever the page shows by then.  The wallet's     *)
(* popups, transactions and reads of the chain conclude in any order; a    *)
(* read can bring a status the channel has left by then, and the wait for  *)
(* a transaction's receipt can fail while the transaction goes its way.    *)
(* The wallet stays connected; amounts and the acks a request carries are  *)
(* left to ChannelProtocol.                                                *)
(***************************************************************************)
EXTENDS Integers, FiniteSets

CONSTANTS
  Nodes,
  MaxNonce,    \* bound on the receipts a node issues
  MaxPending,  \* bound on transactions not yet mined
  NoNode, NoState, NoReceipt, NoRead

\* What a node signs for a channel, which its client may countersign; and a
\* ChannelState, its channel named by the node it is with.
Receipts == [of : Nodes, by : Nodes, nonce : Nat]
ChannelStates == [of : Nodes, receipt : Receipts \cup {NoReceipt},
                  ack : Receipts \cup {NoReceipt}]

ASSUME PageAssumption ==
  /\ NoNode \notin Nodes
  /\ MaxNonce \in Nat /\ MaxPending \in Nat
  /\ NoReceipt \notin Receipts /\ NoState \notin ChannelStates

VARIABLES
  \* the page
  selected,  \* selectedPubKey
  onCanvas,  \* whether the selected node is in the list of live nodes
  state,     \* the hook's ChannelState
  onchain,   \* the hook's reading of the contract
  reads,     \* readings under way
  latest,    \* latestReceiptByNode
  run,       \* the prompt being handled
  panel,     \* what the channel panel is busy with
  \* around it
  storage,   \* localStorage
  allowance, \* whether the contract may take the client's USDC
  status,    \* the contract's channels
  served,    \* per node and channel: the nonce of its last receipt
  pending,   \* transactions not yet mined
  \* history
  astray,      \* a handler was clicked on another node's state
  interrupted  \* channels whose openChannel ended between its transaction and
               \* persist, by a reload of the page or a failed wait

hookVars == <<state, onchain, reads>>
viewVars == <<selected, onCanvas>>
chainVars == <<allowance, status, pending>>
vars == <<viewVars, hookVars, latest, run, panel, storage, chainVars, served,
          interrupted, astray>>

\* The node whose channel the panel shows: dead nodes drop out of the list.
Shown == IF onCanvas THEN selected ELSE NoNode

\* onchain?.status ?? 0
SeenStatus == IF onchain = NoRead THEN "None" ELSE onchain.status

\* ChannelState of a new channel.
NewState(n) == [of |-> n, receipt |-> NoReceipt, ack |-> NoReceipt]

\* What a handler captures of a render.
Render == [node |-> Shown, picked |-> selected, state |-> state]
NoView == [node |-> NoNode, picked |-> NoNode, state |-> NoState]

\* A run without a channel needs nothing of its view.  An "open" is
\* heedless if it was clicked on a record without an ack, or on one with an ack
\* while the panel showed another status than the channel had.
IdleRun == [phase |-> "idle", view |-> NoView, match |-> NoNode,
            attached |-> NoNode, receipt |-> NoReceipt]
FreeRun == [IdleRun EXCEPT !.phase = "waiting"]
IdlePanel == [phase |-> "ready", view |-> NoView, receipt |-> NoReceipt,
              heedless |-> FALSE]
Refreshing == [IdlePanel EXCEPT !.phase = "refreshing"]

\* A call of refreshOnchain; its answer is the channel's status at some moment,
\* for it takes its time and the node it asks may lag behind the chain.
Reading(n, awaited) == [of |-> n, awaited |-> awaited]
Had(now) == CASE now = "None" -> {"None"}
              [] now = "Open" -> {"None", "Open"}
              [] now = "Closed" -> {"None", "Open", "Closed"}

Init ==
  /\ selected = NoNode
  /\ onCanvas = FALSE
  /\ state = NoState
  /\ onchain = NoRead
  /\ reads = {}
  /\ latest = [n \in Nodes |-> NoReceipt]
  /\ run = IdleRun
  /\ panel = IdlePanel
  /\ storage = [n \in Nodes |-> NoState]
  /\ allowance = FALSE
  /\ status = [n \in Nodes |-> "None"]
  /\ served = [n \in Nodes |-> [c \in Nodes |-> 0]]
  /\ pending = {}
  /\ astray = FALSE
  /\ interrupted = {}

---------------------------------------------------------------------------
(* What the page shows, and what it reads.                                 *)

\* A render with another selection or list.  The hook's two effects run when
\* another channel is shown, and do nothing when none is.
Hydrated(n) == storage[n]
Rerender(sel, listed) ==
  LET next == IF listed THEN sel ELSE NoNode
  IN  /\ selected' = sel
      /\ onCanvas' = listed
      /\ IF next \in {Shown, NoNode}
         THEN UNCHANGED <<state, reads>>
         ELSE /\ state' = Hydrated(next)
              /\ reads' = reads \cup {Reading(next, FALSE)}
      /\ UNCHANGED <<onchain, latest, run, panel, storage, chainVars, served,
                     interrupted, astray>>

\* The user picks a node of the canvas (it may drop out of the list between the
\* press and the release of the mouse), or none; the selected node drops out of
\* the list and comes back.
Select(n) == selected # n /\ \E listed \in BOOLEAN : Rerender(n, listed)
Deselect == selected # NoNode /\ Rerender(NoNode, FALSE)
DropsOut == onCanvas /\ Rerender(selected, FALSE)
ComesBack == selected # NoNode /\ ~onCanvas /\ Rerender(selected, TRUE)

\* A reading arrives, whatever is shown by now; the panel may wait for it.
Concluded(r) ==
  /\ reads' = reads \ {r}
  /\ panel' = IF r.awaited THEN IdlePanel ELSE panel
  /\ UNCHANGED <<viewVars, state, latest, run, storage, chainVars, served,
                 interrupted, astray>>
ReadArrives(r) ==
  /\ Concluded(r)
  /\ \E read \in Had(status[r.of]) : onchain' = [of |-> r.of, status |-> read]
ReadFails(r) == Concluded(r) /\ UNCHANGED onchain

\* The state in memory is the one stored for the node that is selected.
Coherent == selected # NoNode => state = storage[selected]
Clicked == astray' = (astray \/ ~Coherent)

\* persist, called by a handler: its own node's entry, and the hook's state.
StorageKey_Shown(view) == IF Shown = NoNode THEN view.node ELSE Shown
StorageKey(view) == view.node
Persist(view, next) ==
  /\ storage' = [storage EXCEPT ![StorageKey(view)] = next]
  /\ state' = next

\* signReceipt, once the popup is approved.
SignReceipt(view, receipt) ==
  IF view.state = NoState THEN UNCHANGED <<storage, state>>
  ELSE Persist(view, [view.state EXCEPT !.receipt = receipt, !.ack = receipt])

---------------------------------------------------------------------------
(* handleSend: one prompt at a time, the form is disabled meanwhile.       *)

ClickSend ==
  /\ run.phase = "idle"
  /\ run' = [IdleRun EXCEPT !.phase = "matching", !.view = Render]
  /\ Clicked
  /\ UNCHANGED <<viewVars, hookVars, latest, panel, storage, chainVars, served,
                 interrupted>>

\* The channel goes along only if the matched node is the selected one.
Attached_Always(view, n) ==
  IF view.state # NoState THEN view.state.of ELSE NoNode
Attached(view, n) ==
  IF view.picked = n /\ view.state # NoState THEN view.state.of ELSE NoNode
Matched(n) ==
  /\ run.phase = "matching"
  /\ LET attached == Attached(run.view, n)
     IN  run' = IF attached = NoNode THEN FreeRun
                ELSE [run EXCEPT !.phase = "waiting", !.match = n,
                                 !.attached = attached]
  /\ UNCHANGED <<viewVars, hookVars, latest, panel, storage, chainVars, served,
                 interrupted, astray>>

\* No match, an error of the node or of the network.
RunFails ==
  /\ run.phase \in {"matching", "waiting"}
  /\ run' = IdleRun
  /\ UNCHANGED <<viewVars, hookVars, latest, panel, storage, chainVars, served,
                 interrupted, astray>>

\* channel.ready: a request on a channel has its receipts signed.
Signs(view) == view.node # NoNode

\* The loop goes on with a tool result, or ends.
GoesOn == {IdleRun, [run EXCEPT !.phase = "waiting", !.receipt = NoReceipt]}
ReceiptEvent(receipt) ==
  /\ latest' = [latest EXCEPT ![run.match] = receipt]
  /\ run' \in GoesOn

Responds ==
  /\ run.phase = "waiting"
  /\ IF run.attached = NoNode
     THEN run' \in {IdleRun, FreeRun} /\ UNCHANGED <<latest, served>>
     ELSE LET n == served[run.match][run.attached] + 1
              receipt == [of |-> run.attached, by |-> run.match, nonce |-> n]
          IN  /\ status[run.attached] # "None"
              /\ n <= MaxNonce
              /\ served' = [served EXCEPT ![run.match][run.attached] = n]
              /\ IF Signs(run.view)
                 THEN /\ run' = [run EXCEPT !.phase = "signing", !.receipt = receipt]
                      /\ UNCHANGED latest
                 ELSE ReceiptEvent(receipt)
  /\ UNCHANGED <<viewVars, hookVars, panel, storage, chainVars, interrupted, astray>>

\* The popup of signAck; a rejection is reported and the loop goes on.
ApproveAck ==
  /\ run.phase = "signing"
  /\ SignReceipt(run.view, run.receipt)
  /\ ReceiptEvent(run.receipt)
  /\ UNCHANGED <<viewVars, onchain, reads, panel, chainVars, served, interrupted, astray>>
RejectAck ==
  /\ run.phase = "signing"
  /\ ReceiptEvent(run.receipt)
  /\ UNCHANGED <<viewVars, hookVars, panel, storage, chainVars, served, interrupted, astray>>

---------------------------------------------------------------------------
(* The channel panel; busy disables all of it.                             *)

Busy(phase, view, receipt) ==
  panel' = [IdlePanel EXCEPT !.phase = phase, !.view = view, !.receipt = receipt]
PanelFree == panel.phase = "ready" /\ Shown # NoNode

Heedless(n) == storage[n] # NoState /\ (storage[n].ack = NoReceipt \/ SeenStatus # status[n])
Opening == [IdlePanel EXCEPT !.phase = IF allowance THEN "open" ELSE "approve",
                             !.view.node = Shown, !.heedless = Heedless(Shown)]
ClickOpen_AnyStatus ==
  /\ PanelFree
  /\ panel' = Opening
  /\ UNCHANGED <<viewVars, hookVars, latest, run, storage, chainVars, served,
                 interrupted, astray>>
ClickOpen ==
  /\ PanelFree
  /\ SeenStatus = "None"
  /\ panel' = Opening
  /\ UNCHANGED <<viewVars, hookVars, latest, run, storage, chainVars, served,
                 interrupted, astray>>

ClickSign ==
  /\ PanelFree
  /\ SeenStatus = "Open"
  /\ latest[Shown] # NoReceipt
  /\ Busy("sign", Render, latest[Shown])
  /\ Clicked
  /\ UNCHANGED <<viewVars, hookVars, latest, run, storage, chainVars, served,
                 interrupted>>

ClickClose ==
  /\ PanelFree
  /\ SeenStatus = "Open"
  /\ state # NoState /\ state.ack # NoReceipt
  /\ Busy("close", Render, NoReceipt)
  /\ Clicked
  /\ UNCHANGED <<viewVars, hookVars, latest, run, storage, chainVars, served,
                 interrupted>>

\* The popup of signReceipt.
ApproveSign ==
  /\ panel.phase = "sign"
  /\ SignReceipt(panel.view, panel.receipt)
  /\ panel' = IdlePanel
  /\ UNCHANGED <<viewVars, onchain, reads, latest, run, chainVars, served,
                 interrupted, astray>>

\* The popup of a transaction; the panel then waits for its receipt.
Waits(phase) ==
  CASE phase = "approve" -> "approving"
    [] phase = "open" -> "opening"
    [] phase = "close" -> "closing"
Submitted(p) ==
  IF p.phase = "close" THEN p.view.state.ack ELSE NoReceipt
ApproveTx ==
  /\ panel.phase \in {"approve", "open", "close"}
  /\ Cardinality(pending) < MaxPending
  /\ pending' = pending \cup {[kind |-> panel.phase, of |-> panel.view.node,
                               update |-> Submitted(panel), awaited |-> TRUE]}
  /\ panel' = [panel EXCEPT !.phase = Waits(@), !.view.state = NoState]
  /\ UNCHANGED <<viewVars, hookVars, latest, run, storage, allowance, status,
                 served, interrupted, astray>>

RejectPopup ==
  /\ panel.phase \in {"approve", "open", "close", "sign"}
  /\ panel' = IdlePanel
  /\ UNCHANGED <<viewVars, hookVars, latest, run, storage, chainVars, served,
                 interrupted, astray>>

\* The wait for the receipt ends by its timeout or an RPC error, whether or not
\* the transaction was mined meanwhile: the handler ends there, with no persist
\* and no reading.
Opens(p) == IF p.phase \in {"opening", "opened"} THEN {p.view.node} ELSE {}
Unawaited == {[tx EXCEPT !.awaited = FALSE] : tx \in pending}
WaitFails ==
  /\ panel.phase \in {"approving", "opening", "opened", "closing", "closed"}
  /\ interrupted' = interrupted \cup Opens(panel)
  /\ pending' = Unawaited
  /\ panel' = IdlePanel
  /\ UNCHANGED <<viewVars, hookVars, latest, run, storage, allowance, status, served,
                 astray>>

\* A transaction is mined; a close reverts if the channel is not in the state
\* it needs or its signatures are not the two parties', an open also when the
\* node is not active or the deposit is not transferred.
Effects(tx) ==
  CASE tx.kind = "open" /\ status[tx.of] = "None" ->
         {status, [status EXCEPT ![tx.of] = "Open"]}
    [] tx.kind = "close" /\ status[tx.update.of] = "Open" /\ tx.update.by = tx.update.of ->
         {[status EXCEPT ![tx.update.of] = "Closed"]}
    [] OTHER -> {status}
Mine(tx) ==
  /\ pending' = pending \ {tx}
  /\ status' \in Effects(tx)
  /\ allowance' = (allowance \/ tx.kind = "approve")
  /\ panel' = IF ~tx.awaited THEN panel
              ELSE [panel EXCEPT !.phase =
                      CASE tx.kind = "approve" -> "open"
                        [] tx.kind = "open" -> "opened"
                        [] tx.kind = "close" -> "closed"]
  /\ UNCHANGED <<viewVars, hookVars, latest, run, storage, served, interrupted, astray>>

\* Its receipt is there, of a success or of a revert: openChannel persists a
\* new channel; either call reads the chain again.
AfterOpen ==
  /\ panel.phase = "opened"
  /\ Persist(panel.view, NewState(panel.view.node))
  /\ reads' = reads \cup {Reading(panel.view.node, TRUE)}
  /\ panel' = Refreshing
  /\ UNCHANGED <<viewVars, onchain, latest, run, chainVars, served, interrupted, astray>>
AfterClose ==
  /\ panel.phase = "closed"
  /\ reads' = reads \cup {Reading(panel.view.node, TRUE)}
  /\ panel' = Refreshing
  /\ UNCHANGED <<viewVars, state, onchain, latest, run, storage, chainVars, served,
                 interrupted, astray>>

\* The page is loaded again: only localStorage and the chain survive.
Reload ==
  /\ interrupted' = interrupted \cup Opens(panel)
  /\ selected' = NoNode
  /\ onCanvas' = FALSE
  /\ state' = NoState
  /\ onchain' = NoRead
  /\ reads' = {}
  /\ latest' = [n \in Nodes |-> NoReceipt]
  /\ run' = IdleRun
  /\ panel' = IdlePanel
  /\ pending' = Unawaited
  /\ UNCHANGED <<storage, allowance, status, served, astray>>

RunStep ==
  \/ ClickSend
  \/ \E n \in Nodes : Matched(n)
  \/ RunFails
  \/ Responds
  \/ ApproveAck
  \/ RejectAck

PanelStep ==
  \/ ClickOpen
  \/ ClickSign
  \/ ClickClose
  \/ ApproveSign
  \/ ApproveTx
  \/ RejectPopup
  \/ WaitFails
  \/ AfterOpen
  \/ AfterClose

Next ==
  \/ \E n \in Nodes : Select(n)
  \/ Deselect
  \/ DropsOut
  \/ ComesBack
  \/ \E r \in reads : ReadArrives(r) \/ ReadFails(r)
  \/ RunStep
  \/ PanelStep
  \/ \E tx \in pending : Mine(tx)
  \/ Reload

Spec == Init /\ [][Next]_vars

---------------------------------------------------------------------------
(* Properties.                                                             *)

\* A panel that waits for a transaction or a reading has exactly one to wait
\* for, of the node it was clicked on: it is never left disabled.
WaitsFor(tx) == tx.awaited /\ panel.phase = Waits(tx.kind) /\ panel.view.node = tx.of
TypeOK ==
  /\ selected \in Nodes \cup {NoNode}
  /\ panel.phase \in {"approving", "opening", "closing"} => \E tx \in pending : WaitsFor(tx)
  /\ \A tx \in pending : tx.awaited => WaitsFor(tx)
  /\ \A tx, other \in pending : (tx.awaited /\ other.awaited) => tx = other
  /\ panel.phase = "refreshing" <=> \E r \in reads : r.awaited
  /\ \A r, other \in reads : (r.awaited /\ other.awaited) => r = other
  /\ run.phase = "signing" <=> run.receipt # NoReceipt

\* localStorage never mixes channels: what is kept for a node is of its
\* channel and signed by it, receipt and ack of the same state, through any
\* change of selection while a run or the panel is busy; unless a handler was
\* clicked on a state another node's handler had left in memory.
StorageIsOwn ==
  ~astray => \A n \in Nodes : LET kept == storage[n] IN
    kept # NoState =>
      /\ kept.of = n
      /\ kept.receipt = kept.ack
      /\ kept.ack # NoReceipt => kept.ack.of = n /\ kept.ack.by = n

\* A request carries no channel but the one with the node that serves it
\* (Dashboard.tsx:157-159), and what "cooperative close" submits is of the
\* channel it was clicked on and verifies there, under the same proviso.
UsesOwnChannel ==
  ~astray =>
    /\ run.attached \in {NoNode, run.match}
    /\ \A tx \in pending :
         tx.kind = "close" => tx.update.of = tx.of /\ tx.update.by = tx.of

\* The dashboard knows of every open channel the client has funded, so that
\* it can be used; the exception is a channel whose openChannel was cut short
\* after it sent its transaction, by a reload of the page or a failed wait.
FundedIsKnown ==
  \A n \in Nodes \ interrupted :
    status[n] = "Open" =>
      \/ storage[n] # NoState
      \/ panel.phase = "opened" /\ panel.view.node = n

\* A stored ack is erased only by an "open" of its node that was clicked either
\* on an ack, while the panel showed another status than the channel had, or on
\* a record without one, as an earlier open leaves it; under the same proviso.
\* No open that was clicked where nothing was stored erases an ack, whatever
\* runs, reverts and failed waits came in between.
ErasedOnlyIfStale ==
  [][\A n \in Nodes :
       (~astray /\ storage[n] # NoState /\ storage[n].ack # NoReceipt) =>
         \/ storage'[n] # NoState /\ storage'[n].ack # NoReceipt
         \/ panel.phase = "opened" /\ panel.view.node = n /\ panel.heedless]_vars
=============================================================================

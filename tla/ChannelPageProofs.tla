--------------------------- MODULE ChannelPageProofs ---------------------------
(***************************************************************************)
(* Proofs about ChannelPage, for any number of nodes, receipts and pending *)
(* transactions.                                                           *)
(***************************************************************************)
EXTENDS ChannelPage, TLAPS

(***************************************************************************)
(* Types, and what the run and the panel hold in each of their phases.     *)
(***************************************************************************)
MaybeNode == Nodes \cup {NoNode}
MaybeReceipt == Receipts \cup {NoReceipt}
MaybeState == ChannelStates \cup {NoState}
View == [node : MaybeNode, picked : MaybeNode, state : MaybeState]
Run == [phase : {"idle", "matching", "waiting", "signing"}, view : View,
        match : MaybeNode, attached : MaybeNode, receipt : MaybeReceipt]
PanelPhases == {"ready", "refreshing", "approve", "approving", "open", "opening",
                "opened", "sign", "close", "closing", "closed"}
Panel == [phase : PanelPhases, view : View, receipt : MaybeReceipt, heedless : BOOLEAN]
Tx == [kind : {"approve", "open", "close"}, of : Nodes, update : MaybeReceipt,
       awaited : BOOLEAN]
Read == [of : Nodes, awaited : BOOLEAN]

PageTypes ==
  /\ selected \in MaybeNode /\ onCanvas \in BOOLEAN
  /\ onCanvas => selected \in Nodes
  /\ state \in MaybeState
  /\ reads \subseteq Read
  /\ latest \in [Nodes -> MaybeReceipt]
  /\ run \in Run
  /\ panel \in Panel
WorldTypes ==
  /\ storage \in [Nodes -> MaybeState]
  /\ status \in [Nodes -> {"None", "Open", "Closed"}]
  /\ served \in [Nodes -> [Nodes -> Nat]]
  /\ pending \subseteq Tx
  /\ astray \in BOOLEAN
  /\ interrupted \subseteq Nodes

RunPlace ==
  /\ run.phase = "signing" <=> run.receipt # NoReceipt
  /\ run.phase = "signing" => run.attached \in Nodes /\ run.view.node \in Nodes
  /\ run.attached \in Nodes => run.match \in Nodes
PanelPlace ==
  /\ panel.phase \notin {"ready", "refreshing"} => panel.view.node \in Nodes
  /\ panel.phase = "sign" => panel.receipt \in Receipts
  /\ panel.phase = "close" =>
       panel.view.state \in ChannelStates /\ panel.view.state.ack \in Receipts
TxPlace ==
  /\ panel.phase \in {"approving", "opening", "closing"} => \E tx \in pending : WaitsFor(tx)
  /\ \A tx \in pending : tx.awaited => WaitsFor(tx)
  /\ \A tx, other \in pending : (tx.awaited /\ other.awaited) => tx = other
  /\ \A tx \in pending : tx.kind = "close" => tx.update \in Receipts
ReadPlace ==
  /\ panel.phase = "refreshing" <=> \E r \in reads : r.awaited
  /\ \A r, other \in reads : (r.awaited /\ other.awaited) => r = other

TypeInv == PageTypes /\ WorldTypes /\ RunPlace /\ PanelPlace /\ TxPlace /\ ReadPlace

LEMMA IdleTypes ==
  /\ NoView \in View /\ IdleRun \in Run /\ FreeRun \in Run
  /\ IdleRun.phase = "idle" /\ IdleRun.receipt = NoReceipt /\ IdleRun.attached = NoNode
  /\ IdleRun.view = NoView /\ IdleRun.match = NoNode
  /\ FreeRun.phase = "waiting" /\ FreeRun.view = NoView
  /\ FreeRun.receipt = NoReceipt /\ FreeRun.attached = NoNode
  /\ IdlePanel \in Panel /\ IdlePanel.phase = "ready"
  /\ Refreshing \in Panel /\ Refreshing.phase = "refreshing"
BY DEF NoView, IdleRun, FreeRun, IdlePanel, Refreshing, View, Run, Panel, PanelPhases,
       MaybeNode, MaybeReceipt, MaybeState

LEMMA RenderTypes ==
  ASSUME PageTypes
  PROVE  /\ Shown \in MaybeNode
         /\ Shown # NoNode => Shown = selected /\ Shown \in Nodes
         /\ Render \in View /\ Render.node = Shown /\ Render.picked = selected
         /\ Render.state = state
         /\ \A n \in Nodes : [NoView EXCEPT !.node = n] \in View
BY DEF PageTypes, Shown, Render, NoView, View, MaybeNode, MaybeState

LEMMA InitTypes == Init => TypeInv
<1> SUFFICES ASSUME Init PROVE TypeInv
  OBVIOUS
<1>1. PageTypes
  BY IdleTypes DEF Init, PageTypes, MaybeNode, MaybeState, MaybeReceipt
<1>2. WorldTypes
  BY DEF Init, WorldTypes, MaybeState
<1>3. RunPlace
  BY IdleTypes, PageAssumption DEF Init, RunPlace
<1>4. PanelPlace /\ TxPlace /\ ReadPlace
  BY IdleTypes DEF Init, PanelPlace, TxPlace, ReadPlace
<1> QED BY <1>1, <1>2, <1>3, <1>4 DEF TypeInv

\* A render reads the chain; no handler waits for it.
LEMMA RenderStep ==
  ASSUME TypeInv, NEW sel \in MaybeNode, NEW listed \in BOOLEAN,
         listed => sel \in Nodes, Rerender(sel, listed)
  PROVE  TypeInv'
<1> DEFINE next == IF listed THEN sel ELSE NoNode
<1>1. UNCHANGED <<latest, run, panel, storage, allowance, status, pending, served,
                  interrupted, astray>>
  BY DEF Rerender, chainVars
<1>2. /\ selected' = sel /\ onCanvas' = listed
      /\ \/ UNCHANGED <<state, reads>>
         \/ next \in Nodes /\ state' = storage[next]
            /\ reads' = reads \cup {Reading(next, FALSE)}
  BY DEF Rerender, Hydrated, MaybeNode
<1> HIDE DEF next
<1>3. next \in Nodes => Reading(next, FALSE) \in Read /\ ~Reading(next, FALSE).awaited
  BY DEF Reading, Read
<1>4. PageTypes'
  BY <1>1, <1>2, <1>3 DEF TypeInv, PageTypes, WorldTypes
<1>5. ReadPlace'
  BY <1>1, <1>2, <1>3 DEF TypeInv, ReadPlace
<1>6. WorldTypes' /\ RunPlace' /\ PanelPlace' /\ TxPlace'
  BY <1>1 DEF TypeInv, WorldTypes, RunPlace, PanelPlace, TxPlace, WaitsFor
<1> QED BY <1>4, <1>5, <1>6 DEF TypeInv

\* A reading concludes; the panel that waits for it is free again.
LEMMA ReadStep ==
  ASSUME TypeInv, NEW r \in reads, ReadArrives(r) \/ ReadFails(r)
  PROVE  TypeInv'
<1>1. /\ reads' = reads \ {r}
      /\ panel' = IF r.awaited THEN IdlePanel ELSE panel
      /\ UNCHANGED <<selected, onCanvas, state, latest, run, storage, allowance, status,
                     pending, served, interrupted, astray>>
  BY DEF ReadArrives, ReadFails, Concluded, viewVars, chainVars
<1>2. CASE ~r.awaited
  <2>1. panel' = panel
    BY <1>1, <1>2
  <2> QED BY <1>1, <1>2, <2>1 DEF TypeInv, PageTypes, WorldTypes, RunPlace, PanelPlace,
          TxPlace, WaitsFor, ReadPlace
<1>3. CASE r.awaited
  <2>1. panel' = IdlePanel /\ panel.phase = "refreshing"
    BY <1>1, <1>3 DEF TypeInv, ReadPlace
  <2>2. PageTypes' /\ WorldTypes' /\ RunPlace' /\ PanelPlace'
    BY <1>1, <2>1, IdleTypes DEF TypeInv, PageTypes, WorldTypes, RunPlace, PanelPlace
  <2>3. \A tx \in pending : ~tx.awaited
    BY <2>1 DEF TypeInv, TxPlace, WaitsFor, Waits, WorldTypes, Tx
  <2>4. TxPlace'
    BY <1>1, <2>1, <2>3, IdleTypes DEF TypeInv, TxPlace
  <2>5. ReadPlace'
    BY <1>1, <1>3, <2>1, IdleTypes DEF TypeInv, ReadPlace
  <2> QED BY <2>2, <2>4, <2>5 DEF TypeInv
<1> QED BY <1>2, <1>3

\* What signReceipt stores: the state its handler was given, with the receipt
\* and its ack.
Countersigned(view, receipt) == [view.state EXCEPT !.receipt = receipt, !.ack = receipt]

LEMMA SignTypes ==
  ASSUME WorldTypes, state \in MaybeState,
         NEW view \in View, view.node \in Nodes, NEW receipt \in Receipts,
         SignReceipt(view, receipt)
  PROVE  /\ storage' \in [Nodes -> MaybeState] /\ state' \in MaybeState
         /\ \A n \in Nodes \ {view.node} : storage'[n] = storage[n]
         /\ IF view.state = NoState THEN storage' = storage
            ELSE /\ storage'[view.node] = Countersigned(view, receipt)
                 /\ view.state \in ChannelStates
                 /\ storage'[view.node] \in ChannelStates
                 /\ storage'[view.node].of = view.state.of
                 /\ storage'[view.node].receipt = receipt
                 /\ storage'[view.node].ack = receipt
<1>1. view.state \in MaybeState /\ storage \in [Nodes -> MaybeState]
  BY DEF View, WorldTypes
<1>2. CASE view.state = NoState
  BY <1>1, <1>2 DEF SignReceipt
<1>3. CASE view.state # NoState
  <2> DEFINE next == Countersigned(view, receipt)
  <2>1. view.state \in ChannelStates
    BY <1>1, <1>3 DEF MaybeState
  <2>2. /\ next \in ChannelStates /\ next.of = view.state.of
        /\ next.receipt = receipt /\ next.ack = receipt
    BY <2>1 DEF Countersigned, ChannelStates
  <2>3. storage' = [storage EXCEPT ![view.node] = next] /\ state' = next
    BY <1>3 DEF SignReceipt, Persist, StorageKey, Countersigned
  <2> HIDE DEF next
  <2>4. storage'[view.node] = next
    BY <1>1, <2>3
  <2> QED BY <1>1, <1>3, <2>1, <2>2, <2>3, <2>4 DEF MaybeState, Countersigned, next
<1> QED BY <1>2, <1>3

\* What ends the handling of a receipt, or keeps the run waiting.
LEMMA GoesOnTypes ==
  ASSUME run \in Run, NEW next \in GoesOn
  PROVE  /\ next \in Run /\ next.receipt = NoReceipt
         /\ \/ next = IdleRun
            \/ /\ next.phase = "waiting" /\ next.view = run.view
               /\ next.match = run.match /\ next.attached = run.attached
<1>1. [run EXCEPT !.phase = "waiting", !.receipt = NoReceipt] \in Run
  BY DEF Run, MaybeReceipt
<1> QED BY <1>1, IdleTypes DEF GoesOn, Run

\* The steps of a prompt, case by case.
RunStays == UNCHANGED <<selected, onCanvas, onchain, reads, panel, status, allowance,
                        pending, interrupted>>
LEMMA RunCases ==
  ASSUME TypeInv, RunStep
  PROVE  /\ RunStays
         /\ \/ /\ run.phase = "idle" /\ run' \in Run
               /\ run'.phase = "matching" /\ run'.view = Render
               /\ run'.attached = NoNode /\ run'.receipt = NoReceipt
               /\ Clicked /\ UNCHANGED <<state, latest, storage, served>>
            \/ /\ astray' = astray /\ UNCHANGED <<state, latest, storage, served>>
               /\ run' \in {IdleRun, FreeRun}
            \/ \E n \in Nodes :
                 /\ run.phase = "matching"
                 /\ Attached(run.view, n) # NoNode
                 /\ run' \in Run /\ run'.phase = "waiting" /\ run'.view = run.view
                 /\ run'.match = n /\ run'.attached = Attached(run.view, n)
                 /\ run'.receipt = NoReceipt
                 /\ astray' = astray /\ UNCHANGED <<state, latest, storage, served>>
            \/ \E receipt \in Receipts :
                 /\ run.phase = "waiting" /\ run.attached \in Nodes /\ run.match \in Nodes
                 /\ receipt.of = run.attached /\ receipt.by = run.match
                 /\ status[run.attached] # "None"
                 /\ served' \in [Nodes -> [Nodes -> Nat]]
                 /\ \/ /\ run.view.node \in Nodes /\ run' \in Run
                       /\ run'.phase = "signing" /\ run'.view = run.view
                       /\ run'.match = run.match /\ run'.attached = run.attached
                       /\ run'.receipt = receipt /\ latest' = latest
                    \/ ReceiptEvent(receipt)
                 /\ astray' = astray /\ UNCHANGED <<state, storage>>
            \/ /\ run.phase = "signing" /\ run.receipt \in Receipts
               /\ SignReceipt(run.view, run.receipt) \/ UNCHANGED <<state, storage>>
               /\ ReceiptEvent(run.receipt)
               /\ astray' = astray /\ UNCHANGED served
<1>1. /\ run \in Run /\ run.view \in View /\ PageTypes /\ WorldTypes
      /\ run.attached \in MaybeNode /\ run.match \in MaybeNode
  BY DEF TypeInv, PageTypes, Run
<1> USE DEF RunStays, viewVars, hookVars, chainVars
<1>2. CASE ClickSend
  <2> DEFINE r == [IdleRun EXCEPT !.phase = "matching", !.view = Render]
  <2>1. Render \in View
    BY <1>1, RenderTypes
  <2>2. /\ r \in Run /\ r.phase = "matching" /\ r.view = Render
        /\ r.attached = NoNode /\ r.receipt = NoReceipt
    BY <2>1, IdleTypes DEF Run
  <2>3. run' = r
    BY <1>2 DEF ClickSend
  <2> HIDE DEF r
  <2> QED BY <1>2, <2>2, <2>3 DEF ClickSend
<1>3. ASSUME NEW n \in Nodes, Matched(n)
      PROVE  /\ RunStays /\ astray' = astray /\ UNCHANGED <<state, latest, storage, served>>
             /\ \/ run' \in {IdleRun, FreeRun}
                \/ /\ run.phase = "matching"
                   /\ Attached(run.view, n) # NoNode
                   /\ run' \in Run /\ run'.phase = "waiting" /\ run'.view = run.view
                   /\ run'.match = n /\ run'.attached = Attached(run.view, n)
                   /\ run'.receipt = NoReceipt
  <2> DEFINE a == Attached(run.view, n)
             r == [run EXCEPT !.phase = "waiting", !.match = n, !.attached = a]
  <2>1. a \in MaybeNode
    BY <1>1 DEF Attached, View, MaybeState, MaybeNode, ChannelStates
  <2>2. run.phase = "matching" /\ run' = IF a = NoNode THEN FreeRun ELSE r
    BY <1>3 DEF Matched
  <2> HIDE DEF a
  <2>3. run.receipt = NoReceipt
    BY <2>2 DEF TypeInv, RunPlace
  <2>4. /\ r \in Run /\ r.phase = "waiting" /\ r.view = run.view
        /\ r.match = n /\ r.attached = a /\ r.receipt = NoReceipt
    BY <1>1, <2>1, <2>3 DEF Run, MaybeNode
  <2> HIDE DEF r
  <2> QED BY <1>3, <2>2, <2>4 DEF Matched, a
<1>4. CASE RunFails
  BY <1>4 DEF RunFails
<1>5. CASE Responds /\ run.attached = NoNode
  BY <1>5 DEF Responds
<1>6. CASE Responds /\ run.attached # NoNode
  <2> DEFINE n == served[run.match][run.attached] + 1
             receipt == [of |-> run.attached, by |-> run.match, nonce |-> n]
             r == [run EXCEPT !.phase = "signing", !.receipt = receipt]
  <2>1. run.attached \in Nodes /\ run.match \in Nodes
    BY <1>1, <1>6 DEF TypeInv, RunPlace, MaybeNode
  <2>2. n \in Nat /\ receipt \in Receipts
    BY <1>1, <2>1 DEF WorldTypes, Receipts
  <2>3. /\ run.phase = "waiting" /\ status[run.attached] # "None"
        /\ served' = [served EXCEPT ![run.match][run.attached] = n]
        /\ IF run.view.node # NoNode
           THEN run' = r /\ latest' = latest
           ELSE ReceiptEvent(receipt)
        /\ RunStays /\ astray' = astray /\ UNCHANGED <<state, storage>>
    BY <1>6 DEF Responds, Signs
  <2>4. receipt.of = run.attached /\ receipt.by = run.match
    OBVIOUS
  <2>5. served' \in [Nodes -> [Nodes -> Nat]]
    <3> HIDE DEF n
    <3> QED BY <1>1, <2>1, <2>2, <2>3 DEF WorldTypes
  <2>6. /\ r \in Run /\ r.phase = "signing" /\ r.view = run.view
        /\ r.match = run.match /\ r.attached = run.attached /\ r.receipt = receipt
    <3> HIDE DEF receipt
    <3> QED BY <1>1, <2>2 DEF Run, MaybeReceipt
  <2>7. run.view.node # NoNode => run.view.node \in Nodes
    BY <1>1 DEF View, MaybeNode
  <2> HIDE DEF n, receipt, r
  <2> QED BY <2>1, <2>2, <2>3, <2>4, <2>5, <2>6, <2>7
<1>7. CASE ApproveAck \/ RejectAck
  <2>1. run.receipt \in Receipts
    BY <1>1, <1>7 DEF ApproveAck, RejectAck, TypeInv, RunPlace, Run, MaybeReceipt
  <2> QED BY <1>7, <2>1 DEF ApproveAck, RejectAck
<1> QED BY <1>2, <1>3, <1>4, <1>5, <1>6, <1>7 DEF RunStep

LEMMA RunTypes ==
  ASSUME TypeInv, RunStep
  PROVE  TypeInv'
<1>1. /\ RunStays /\ PageTypes /\ WorldTypes /\ run \in Run /\ run.view \in View
      /\ latest \in [Nodes -> MaybeReceipt] /\ state \in MaybeState
  BY RunCases DEF TypeInv, PageTypes, Run
<1>2. PanelPlace' /\ TxPlace' /\ ReadPlace'
  BY <1>1 DEF RunStays, TypeInv, PanelPlace, TxPlace, WaitsFor, ReadPlace
\* Whatever the step is, it suffices to look at the run and what it writes.
<1>3. ASSUME run' \in Run, latest' \in [Nodes -> MaybeReceipt], RunPlace',
             state' \in MaybeState, storage' \in [Nodes -> MaybeState],
             served' \in [Nodes -> [Nodes -> Nat]], astray' \in BOOLEAN
      PROVE  TypeInv'
  <2>1. PageTypes' /\ WorldTypes'
    BY <1>1, <1>3 DEF RunStays, PageTypes, WorldTypes
  <2> QED BY <1>2, <1>3, <2>1 DEF TypeInv
<1>4. ASSUME NEW receipt \in Receipts, ReceiptEvent(receipt), run.match \in Nodes
      PROVE  run' \in Run /\ latest' \in [Nodes -> MaybeReceipt] /\ RunPlace'
  <2>1. run' \in GoesOn /\ latest' = [latest EXCEPT ![run.match] = receipt]
    BY <1>4 DEF ReceiptEvent
  <2>2. /\ run' \in Run /\ run'.receipt = NoReceipt
        /\ \/ run' = IdleRun
           \/ /\ run'.phase = "waiting" /\ run'.match = run.match
              /\ run'.attached = run.attached
    BY <1>1, <2>1, GoesOnTypes
  <2>3. RunPlace'
    BY <1>4, <2>2, IdleTypes, PageAssumption DEF RunPlace
  <2> QED BY <1>1, <1>4, <2>1, <2>2, <2>3 DEF MaybeReceipt
<1>5. CASE /\ run.phase = "idle" /\ run' \in Run
           /\ run'.phase = "matching" /\ run'.view = Render
           /\ run'.attached = NoNode /\ run'.receipt = NoReceipt
           /\ Clicked /\ UNCHANGED <<state, latest, storage, served>>
  <2>1. astray' \in BOOLEAN
    BY <1>1, <1>5 DEF Clicked, WorldTypes
  <2>2. RunPlace'
    BY <1>5, PageAssumption DEF RunPlace
  <2> QED BY <1>1, <1>3, <1>5, <2>1, <2>2 DEF WorldTypes
<1>6. CASE /\ astray' = astray /\ UNCHANGED <<state, latest, storage, served>>
           /\ run' \in {IdleRun, FreeRun}
  <2>1. RunPlace' /\ run' \in Run
    BY <1>6, IdleTypes, PageAssumption DEF RunPlace
  <2> QED BY <1>1, <1>3, <1>6, <2>1 DEF WorldTypes
<1>7. ASSUME NEW n \in Nodes,
             /\ run' \in Run /\ run'.phase = "waiting" /\ run'.view = run.view
             /\ run'.match = n /\ run'.attached = Attached(run.view, n)
             /\ run'.receipt = NoReceipt
             /\ astray' = astray /\ UNCHANGED <<state, latest, storage, served>>
      PROVE  TypeInv'
  <2>1. RunPlace'
    BY <1>7 DEF RunPlace
  <2> QED BY <1>1, <1>3, <1>7, <2>1 DEF WorldTypes
<1>8. ASSUME NEW receipt \in Receipts,
             /\ run.phase = "waiting" /\ run.attached \in Nodes /\ run.match \in Nodes
             /\ served' \in [Nodes -> [Nodes -> Nat]]
             /\ \/ /\ run.view.node \in Nodes /\ run' \in Run
                   /\ run'.phase = "signing" /\ run'.view = run.view
                   /\ run'.match = run.match /\ run'.attached = run.attached
                   /\ run'.receipt = receipt /\ latest' = latest
                \/ ReceiptEvent(receipt)
             /\ astray' = astray /\ UNCHANGED <<state, storage>>
      PROVE  TypeInv'
  <2>1. CASE ReceiptEvent(receipt)
    BY <1>1, <1>3, <1>4, <1>8, <2>1 DEF WorldTypes
  <2>2. CASE /\ run.view.node \in Nodes /\ run' \in Run
             /\ run'.phase = "signing" /\ run'.view = run.view
             /\ run'.match = run.match /\ run'.attached = run.attached
             /\ run'.receipt = receipt /\ latest' = latest
    <3>1. RunPlace'
      BY <1>8, <2>2, PageAssumption DEF RunPlace
    <3> QED BY <1>1, <1>3, <1>8, <2>2, <3>1 DEF WorldTypes
  <2> QED BY <1>8, <2>1, <2>2
<1>9. CASE /\ run.phase = "signing" /\ run.receipt \in Receipts
           /\ SignReceipt(run.view, run.receipt) \/ UNCHANGED <<state, storage>>
           /\ ReceiptEvent(run.receipt)
           /\ astray' = astray /\ UNCHANGED served
  <2>1. run.match \in Nodes /\ run.view.node \in Nodes
    BY <1>9 DEF TypeInv, RunPlace
  <2>2. storage' \in [Nodes -> MaybeState] /\ state' \in MaybeState
    <3>1. CASE SignReceipt(run.view, run.receipt)
      BY <1>1, <1>9, <2>1, <3>1, SignTypes
    <3>2. CASE UNCHANGED <<state, storage>>
      BY <1>1, <3>2 DEF WorldTypes
    <3> QED BY <1>9, <3>1, <3>2
  <2> QED BY <1>1, <1>3, <1>4, <1>9, <2>1, <2>2 DEF WorldTypes
<1> QED BY RunCases, <1>5, <1>6, <1>7, <1>8, <1>9

\* The steps of the panel but a failed wait, which goes with a reload: either
\* leaves the transaction the panel waited for to nobody.
PanelActs == PanelStep /\ ~WaitFails
Cut == Reload \/ WaitFails

LEMMA PanelCases ==
  ASSUME TypeInv, PanelActs
  PROVE  /\ UNCHANGED <<selected, onCanvas, onchain, latest, run, status, allowance,
                        served, interrupted>>
         /\ panel' \in Panel
         /\ \/ /\ panel.phase = "ready" /\ Shown \in Nodes
               /\ panel'.view.node = Shown
               /\ \/ /\ SeenStatus = "None" /\ panel'.phase \in {"open", "approve"}
                     /\ panel'.heedless = Heedless(Shown) /\ astray' = astray
                  \/ /\ panel'.phase = "sign" /\ panel'.view = Render
                     /\ panel'.receipt = latest[Shown] /\ latest[Shown] \in Receipts
                     /\ Clicked
                  \/ /\ panel'.phase = "close" /\ panel'.view = Render
                     /\ state \in ChannelStates /\ state.ack \in Receipts
                     /\ Clicked
               /\ UNCHANGED <<state, storage, reads, pending>>
            \/ /\ panel.phase = "sign" /\ SignReceipt(panel.view, panel.receipt)
               /\ panel' = IdlePanel /\ UNCHANGED <<astray, reads, pending>>
            \/ /\ panel.phase \in {"approve", "open", "close"}
               /\ panel'.phase = Waits(panel.phase)
               /\ panel'.view.node = panel.view.node /\ panel'.heedless = panel.heedless
               /\ pending' = pending \cup {[kind |-> panel.phase, of |-> panel.view.node,
                                            update |-> Submitted(panel), awaited |-> TRUE]}
               /\ UNCHANGED <<state, storage, astray, reads>>
            \/ /\ panel.phase \in {"approve", "open", "close", "sign"}
               /\ panel' = IdlePanel
               /\ UNCHANGED <<state, storage, astray, reads, pending>>
            \/ /\ panel.phase = "opened"
               /\ Persist(panel.view, NewState(panel.view.node))
               /\ reads' = reads \cup {Reading(panel.view.node, TRUE)}
               /\ panel' = Refreshing /\ UNCHANGED <<astray, pending>>
            \/ /\ panel.phase = "closed"
               /\ reads' = reads \cup {Reading(panel.view.node, TRUE)}
               /\ panel' = Refreshing /\ UNCHANGED <<state, storage, astray, pending>>
<1>1. /\ panel \in Panel /\ panel.view \in View /\ PageTypes /\ WorldTypes
      /\ latest \in [Nodes -> MaybeReceipt] /\ state \in MaybeState
  BY DEF TypeInv, PageTypes, Panel
<1> USE DEF viewVars, hookVars, chainVars
<1>2. ASSUME NEW phase \in PanelPhases, NEW view \in View, NEW receipt \in MaybeReceipt,
             Busy(phase, view, receipt)
      PROVE  /\ panel' \in Panel /\ panel'.phase = phase /\ panel'.view = view
             /\ panel'.receipt = receipt
  BY <1>2, IdleTypes DEF Busy, Panel
<1>3. CASE ClickOpen
  <2>1. /\ panel.phase = "ready" /\ Shown \in Nodes /\ SeenStatus = "None"
        /\ panel' = Opening
    BY <1>1, <1>3, RenderTypes DEF ClickOpen, PanelFree
  <2>2. Heedless(Shown) \in BOOLEAN
    BY DEF Heedless
  <2>3. /\ Opening \in Panel /\ Opening.phase \in {"open", "approve"}
        /\ Opening.view.node = Shown /\ Opening.heedless = Heedless(Shown)
    BY ZenonT(60), <2>1, <2>2, IdleTypes
       DEF Opening, IdlePanel, NoView, Panel, PanelPhases, View, MaybeNode, MaybeState
  <2> QED BY <1>3, <2>1, <2>3 DEF ClickOpen
<1>4. CASE ClickSign
  <2>1. /\ panel.phase = "ready" /\ Shown \in Nodes
        /\ Busy("sign", Render, latest[Shown]) /\ latest[Shown] \in Receipts
    BY <1>1, <1>4, RenderTypes DEF ClickSign, PanelFree, MaybeReceipt
  <2>2. /\ panel' \in Panel /\ panel'.phase = "sign" /\ panel'.view = Render
        /\ panel'.receipt = latest[Shown]
    BY <1>1, <1>2, <2>1, RenderTypes DEF PanelPhases, MaybeReceipt
  <2> QED BY <1>1, <1>4, <2>1, <2>2, RenderTypes DEF ClickSign
<1>5. CASE ClickClose
  <2>1. /\ panel.phase = "ready" /\ Shown \in Nodes /\ Busy("close", Render, NoReceipt)
        /\ state \in ChannelStates /\ state.ack \in Receipts
    BY <1>1, <1>5, RenderTypes
       DEF ClickClose, PanelFree, MaybeState, ChannelStates
  <2>2. panel' \in Panel /\ panel'.phase = "close" /\ panel'.view = Render
    BY <1>1, <1>2, <2>1, RenderTypes DEF PanelPhases, MaybeReceipt
  <2> QED BY <1>1, <1>5, <2>1, <2>2, RenderTypes DEF ClickClose
<1>6. CASE ApproveSign
  BY <1>6, IdleTypes DEF ApproveSign
<1>7. CASE ApproveTx
  <2> DEFINE q == [panel EXCEPT !.phase = Waits(panel.phase), !.view.state = NoState]
  <2>1. panel.phase \in {"approve", "open", "close"} /\ panel' = q
    BY <1>7 DEF ApproveTx
  <2>2. Waits(panel.phase) \in PanelPhases
    BY <2>1 DEF Waits, PanelPhases
  <2>3. /\ q \in Panel /\ q.phase = Waits(panel.phase) /\ q.view.node = panel.view.node
        /\ q.heedless = panel.heedless
    BY <1>1, <2>2 DEF Panel, View, MaybeState
  <2> HIDE DEF q
  <2> QED BY <1>7, <2>1, <2>3 DEF ApproveTx
<1>8. CASE RejectPopup
  BY <1>8, IdleTypes DEF RejectPopup
<1>9. CASE AfterOpen
  BY <1>9, IdleTypes DEF AfterOpen
<1>10. CASE AfterClose
  BY <1>10, IdleTypes DEF AfterClose
<1> QED BY <1>3, <1>4, <1>5, <1>6, <1>7, <1>8, <1>9, <1>10 DEF PanelActs, PanelStep

\* Nothing is awaited while the panel waits for nothing.
LEMMA NoneAwaited ==
  ASSUME TypeInv
  PROVE  /\ panel.phase \notin {"approving", "opening", "closing"} =>
              \A tx \in pending : ~tx.awaited
         /\ panel.phase # "refreshing" => \A r \in reads : ~r.awaited
<1>1. \A tx \in pending : tx.awaited => Waits(tx.kind) = panel.phase /\ tx.kind \in {"approve", "open", "close"}
  BY DEF TypeInv, TxPlace, WaitsFor, WorldTypes, Tx
<1>2. \A kind \in {"approve", "open", "close"} : Waits(kind) \in {"approving", "opening", "closing"}
  BY DEF Waits
<1> QED BY <1>1, <1>2 DEF TypeInv, ReadPlace

LEMMA PanelTypes ==
  ASSUME TypeInv, PanelActs
  PROVE  TypeInv'
<1>1. /\ PageTypes /\ WorldTypes /\ RunPlace /\ PanelPlace /\ TxPlace /\ ReadPlace
      /\ panel \in Panel /\ panel.view \in View /\ state \in MaybeState
      /\ Shown \in Nodes => Render.node = Shown /\ Render.state = state
  BY RenderTypes DEF TypeInv, PageTypes, Panel
<1>2. /\ UNCHANGED <<selected, onCanvas, onchain, latest, run, status, allowance,
                     served, interrupted>>
      /\ panel' \in Panel
  BY PanelCases
\* Whatever the step is, it suffices to look at the panel and what it writes.
<1>3. ASSUME PanelPlace', TxPlace', ReadPlace', state' \in MaybeState,
             storage' \in [Nodes -> MaybeState], pending' \subseteq Tx,
             reads' \subseteq Read, astray' \in BOOLEAN
      PROVE  TypeInv'
  <2>1. PageTypes' /\ WorldTypes' /\ RunPlace'
    BY <1>1, <1>2, <1>3 DEF PageTypes, WorldTypes, RunPlace
  <2> QED BY <1>3, <2>1 DEF TypeInv
<1>4. ASSUME panel'.phase \notin {"approving", "opening", "closing", "refreshing"},
             panel.phase \notin {"approving", "opening", "closing", "refreshing"},
             UNCHANGED <<reads, pending>>
      PROVE  TxPlace' /\ ReadPlace'
  <2>1. (\A tx \in pending : ~tx.awaited) /\ (\A r \in reads : ~r.awaited)
    BY <1>4, NoneAwaited
  <2> QED BY <1>1, <1>4, <2>1 DEF TxPlace, ReadPlace
<1>5. ASSUME panel.phase \notin {"approving", "opening", "closing", "refreshing"},
             panel' = Refreshing, panel.view.node \in Nodes, UNCHANGED pending,
             reads' = reads \cup {Reading(panel.view.node, TRUE)}
      PROVE  PanelPlace' /\ TxPlace' /\ ReadPlace' /\ reads' \subseteq Read
  <2>1. (\A tx \in pending : ~tx.awaited) /\ (\A r \in reads : ~r.awaited)
    BY <1>5, NoneAwaited
  <2>2. Reading(panel.view.node, TRUE) \in Read /\ Reading(panel.view.node, TRUE).awaited
    BY <1>5 DEF Reading, Read
  <2> QED BY <1>1, <1>5, <2>1, <2>2, IdleTypes
          DEF PanelPlace, TxPlace, ReadPlace, PageTypes
<1>6. CASE /\ panel.phase = "ready" /\ Shown \in Nodes
           /\ panel'.view.node = Shown
           /\ \/ /\ panel'.phase \in {"open", "approve"}
                 /\ astray' = astray
              \/ /\ panel'.phase = "sign" /\ panel'.view = Render
                 /\ panel'.receipt = latest[Shown] /\ latest[Shown] \in Receipts
                 /\ Clicked
              \/ /\ panel'.phase = "close" /\ panel'.view = Render
                 /\ state \in ChannelStates /\ state.ack \in Receipts
                 /\ Clicked
           /\ UNCHANGED <<state, storage, reads, pending>>
  <2>1. PanelPlace' /\ astray' \in BOOLEAN
    BY <1>1, <1>6 DEF PanelPlace, Clicked, WorldTypes
  <2> QED BY <1>1, <1>3, <1>4, <1>6, <2>1 DEF WorldTypes, PageTypes
<1>7. CASE /\ panel.phase = "sign" /\ SignReceipt(panel.view, panel.receipt)
           /\ panel' = IdlePanel /\ UNCHANGED <<astray, reads, pending>>
  <2>1. panel.view.node \in Nodes /\ panel.receipt \in Receipts
    BY <1>1, <1>7 DEF PanelPlace
  <2>2. storage' \in [Nodes -> MaybeState] /\ state' \in MaybeState
    BY <1>1, <1>7, <2>1, SignTypes
  <2>3. PanelPlace'
    BY <1>7, IdleTypes DEF PanelPlace
  <2> QED BY <1>1, <1>3, <1>4, <1>7, <2>2, <2>3, IdleTypes DEF WorldTypes, PageTypes
<1>8. CASE /\ panel.phase \in {"approve", "open", "close"}
           /\ panel'.phase = Waits(panel.phase)
           /\ panel'.view.node = panel.view.node
           /\ pending' = pending \cup {[kind |-> panel.phase, of |-> panel.view.node,
                                        update |-> Submitted(panel), awaited |-> TRUE]}
           /\ UNCHANGED <<state, storage, astray, reads>>
  <2> DEFINE t == [kind |-> panel.phase, of |-> panel.view.node,
                   update |-> Submitted(panel), awaited |-> TRUE]
  <2>1. panel.view.node \in Nodes
    BY <1>1, <1>8 DEF PanelPlace
  <2>2. /\ Submitted(panel) \in MaybeReceipt
        /\ panel.phase = "close" => Submitted(panel) \in Receipts
    BY <1>1, <1>8 DEF Submitted, PanelPlace, MaybeReceipt
  <2>3. PICK u \in Tx : /\ u = t /\ u.awaited /\ u.kind = panel.phase
                        /\ u.of = panel.view.node /\ u.update = Submitted(panel)
    <3>1. /\ t \in Tx /\ t.awaited /\ t.kind = panel.phase
          /\ t.of = panel.view.node /\ t.update = Submitted(panel)
      BY <1>8, <2>1, <2>2 DEF Tx
    <3> HIDE DEF t
    <3> QED BY <3>1
  <2>4. pending' = pending \cup {u}
    BY <1>8, <2>3
  <2> HIDE DEF t
  <2>5. \A tx \in pending : ~tx.awaited
    BY <1>8, NoneAwaited
  <2>6. panel'.phase \in {"approving", "opening", "closing"}
    BY <1>8 DEF Waits
  <2>7. u.awaited /\ panel'.phase = Waits(u.kind) /\ panel'.view.node = u.of
    BY <1>8, <2>3
  <2>8. TxPlace'
    BY <1>1, <1>8, <2>2, <2>3, <2>4, <2>5, <2>7 DEF TxPlace, WaitsFor
  <2>9. \A r \in reads : ~r.awaited
    BY <1>8, NoneAwaited
  <2>10. PanelPlace' /\ ReadPlace'
    BY <1>1, <1>8, <2>1, <2>6, <2>9 DEF PanelPlace, ReadPlace
  <2> QED BY <1>1, <1>3, <1>8, <2>3, <2>4, <2>8, <2>10 DEF WorldTypes, PageTypes
<1>9. CASE /\ panel.phase \in {"approve", "open", "close", "sign"}
           /\ panel' = IdlePanel
           /\ UNCHANGED <<state, storage, astray, reads, pending>>
  <2>1. PanelPlace'
    BY <1>9, IdleTypes DEF PanelPlace
  <2> QED BY <1>1, <1>3, <1>4, <1>9, <2>1, IdleTypes DEF WorldTypes, PageTypes
<1>10. CASE /\ panel.phase = "opened"
            /\ Persist(panel.view, NewState(panel.view.node))
            /\ reads' = reads \cup {Reading(panel.view.node, TRUE)}
            /\ panel' = Refreshing /\ UNCHANGED <<astray, pending>>
  <2>1. panel.view.node \in Nodes
    BY <1>1, <1>10 DEF PanelPlace
  <2>2. NewState(panel.view.node) \in ChannelStates
    BY <2>1 DEF NewState, ChannelStates
  <2>3. storage' \in [Nodes -> MaybeState] /\ state' \in MaybeState
    BY <1>1, <1>10, <2>1, <2>2 DEF Persist, StorageKey, WorldTypes, MaybeState
  <2> QED BY <1>1, <1>3, <1>5, <1>10, <2>1, <2>3 DEF WorldTypes
<1>11. CASE /\ panel.phase = "closed"
            /\ reads' = reads \cup {Reading(panel.view.node, TRUE)}
            /\ panel' = Refreshing /\ UNCHANGED <<state, storage, astray, pending>>
  <2>1. panel.view.node \in Nodes
    BY <1>1, <1>11 DEF PanelPlace
  <2> QED BY <1>1, <1>3, <1>5, <1>11, <2>1 DEF WorldTypes, PageTypes
<1> QED BY PanelCases, <1>6, <1>7, <1>8, <1>9, <1>10, <1>11

\* What a mined transaction leaves; the panel that awaited it goes on.
After(kind) ==
  CASE kind = "approve" -> "open"
    [] kind = "open" -> "opened"
    [] kind = "close" -> "closed"

LEMMA MineCases ==
  ASSUME TypeInv, NEW tx \in pending, Mine(tx)
  PROVE  /\ UNCHANGED <<selected, onCanvas, state, onchain, reads, latest, run, storage,
                        served, interrupted, astray>>
         /\ pending' = pending \ {tx} /\ tx \in Tx
         /\ status' \in Effects(tx) /\ status' \in [Nodes -> {"None", "Open", "Closed"}]
         /\ IF tx.awaited
            THEN /\ panel' \in Panel /\ panel'.phase = After(tx.kind)
                 /\ panel'.view = panel.view /\ panel'.heedless = panel.heedless
                 /\ panel.phase = Waits(tx.kind) /\ panel.view.node = tx.of
            ELSE panel' = panel
<1>1. /\ tx \in Tx /\ status \in [Nodes -> {"None", "Open", "Closed"}] /\ panel \in Panel
      /\ tx.kind = "close" => tx.update.of \in Nodes
      /\ tx.awaited => WaitsFor(tx)
  BY DEF TypeInv, WorldTypes, PageTypes, TxPlace, Receipts
<1>2. Effects(tx) \subseteq [Nodes -> {"None", "Open", "Closed"}]
  BY <1>1 DEF Effects, Tx
<1>3. CASE tx.awaited
  <2> DEFINE q == [panel EXCEPT !.phase = After(tx.kind)]
  <2>1. After(tx.kind) \in PanelPhases
    BY <1>1 DEF After, Tx, PanelPhases
  <2>2. /\ q \in Panel /\ q.phase = After(tx.kind)
        /\ q.view = panel.view /\ q.heedless = panel.heedless
    BY <1>1, <2>1 DEF Panel
  <2>3. panel' = q
    BY <1>3 DEF Mine, After
  <2> HIDE DEF q
  <2> QED BY <1>1, <1>2, <1>3, <2>2, <2>3 DEF Mine, WaitsFor, viewVars, hookVars
<1> QED BY <1>1, <1>2, <1>3 DEF Mine, viewVars, hookVars

LEMMA MineTypes ==
  ASSUME TypeInv, NEW tx \in pending, Mine(tx)
  PROVE  TypeInv'
<1>1. /\ PageTypes /\ WorldTypes /\ RunPlace /\ PanelPlace /\ TxPlace /\ ReadPlace
  BY DEF TypeInv
<1>2. /\ UNCHANGED <<selected, onCanvas, state, onchain, reads, latest, run, storage,
                     served, interrupted, astray>>
      /\ pending' = pending \ {tx} /\ tx \in Tx
      /\ status' \in [Nodes -> {"None", "Open", "Closed"}]
      /\ IF tx.awaited
         THEN /\ panel' \in Panel /\ panel'.phase = After(tx.kind)
              /\ panel'.view = panel.view
              /\ panel.phase = Waits(tx.kind) /\ panel.view.node = tx.of
         ELSE panel' = panel
  BY MineCases
<1>3. PageTypes' /\ WorldTypes' /\ RunPlace'
  BY <1>1, <1>2 DEF PageTypes, WorldTypes, RunPlace
<1>4. CASE tx.awaited
  <2>1. \A other \in pending' : ~other.awaited
    BY <1>1, <1>2, <1>4 DEF TxPlace
  <2>2. After(tx.kind) \in {"open", "opened", "closed"}
    BY <1>2 DEF After, Tx
  <2>3. panel.phase \in {"approving", "opening", "closing"}
    BY <1>2, <1>4 DEF Waits, Tx
  <2>4. \A r \in reads : ~r.awaited
    BY <2>3, NoneAwaited
  <2>5. PanelPlace' /\ ReadPlace'
    BY <1>1, <1>2, <1>4, <2>2, <2>3, <2>4 DEF PanelPlace, ReadPlace, Tx
  <2>6. TxPlace'
    BY <1>1, <1>2, <1>4, <2>1, <2>2 DEF TxPlace
  <2> QED BY <1>3, <2>5, <2>6 DEF TypeInv
<1>5. CASE ~tx.awaited
  <2>1. panel' = panel
    BY <1>2, <1>5
  <2>2. PanelPlace' /\ ReadPlace'
    BY <1>1, <1>2, <2>1 DEF PanelPlace, ReadPlace
  <2>3. \A other : WaitsFor(other)' <=> WaitsFor(other)
    BY <2>1 DEF WaitsFor
  <2>4. TxPlace'
    BY <1>1, <1>2, <1>5, <2>1, <2>3 DEF TxPlace, WaitsFor
  <2> QED BY <1>3, <2>2, <2>4 DEF TypeInv
<1> QED BY <1>4, <1>5

\* After a reload or a failed wait nothing is awaited: the pending transactions
\* are nobody's any more.
Orphaned(tx) == [tx EXCEPT !.awaited = FALSE]
LEMMA CutCases ==
  ASSUME TypeInv, Cut
  PROVE  /\ panel' = IdlePanel /\ UNCHANGED <<storage, status, served, astray>>
         /\ \/ /\ selected' = NoNode /\ onCanvas' = FALSE /\ state' = NoState
               /\ reads' = {} /\ latest' = [n \in Nodes |-> NoReceipt] /\ run' = IdleRun
            \/ /\ UNCHANGED <<selected, onCanvas, state, reads, latest, run>>
               /\ \A r \in reads : ~r.awaited
         /\ interrupted' = interrupted \cup Opens(panel)
         /\ \A other \in pending' : \E tx \in pending :
              /\ other \in Tx /\ ~other.awaited
              /\ other.kind = tx.kind /\ other.of = tx.of /\ other.update = tx.update
<1>1. pending' = {Orphaned(tx) : tx \in pending}
  BY DEF Cut, Reload, WaitFails, Unawaited, Orphaned
<1>2. \A tx \in pending : /\ Orphaned(tx) \in Tx /\ ~Orphaned(tx).awaited
                          /\ Orphaned(tx).kind = tx.kind /\ Orphaned(tx).of = tx.of
                          /\ Orphaned(tx).update = tx.update
  BY DEF TypeInv, WorldTypes, Tx, Orphaned
<1>3. \A other \in pending' : \E tx \in pending :
        /\ other \in Tx /\ ~other.awaited
        /\ other.kind = tx.kind /\ other.of = tx.of /\ other.update = tx.update
  BY <1>1, <1>2
<1>4. CASE Reload
  BY <1>3, <1>4 DEF Reload
<1>5. CASE WaitFails
  BY <1>3, <1>5, NoneAwaited DEF WaitFails, viewVars, hookVars
<1> QED BY <1>4, <1>5 DEF Cut

LEMMA CutTypes ==
  ASSUME TypeInv, Cut
  PROVE  TypeInv'
<1>1. PageTypes'
  <2>1. panel' \in Panel /\ PageTypes
    BY CutCases, IdleTypes DEF TypeInv
  <2>2. CASE /\ selected' = NoNode /\ onCanvas' = FALSE /\ state' = NoState
             /\ reads' = {} /\ latest' = [n \in Nodes |-> NoReceipt] /\ run' = IdleRun
    BY <2>1, <2>2, IdleTypes DEF PageTypes, MaybeNode, MaybeState, MaybeReceipt
  <2>3. CASE UNCHANGED <<selected, onCanvas, state, reads, latest, run>>
    BY <2>1, <2>3 DEF PageTypes
  <2> QED BY <2>2, <2>3, CutCases
<1>2. Opens(panel) \subseteq Nodes
  BY DEF Opens, TypeInv, PanelPlace
<1>3. pending' \subseteq Tx
  BY CutCases
<1>4. WorldTypes'
  BY <1>2, <1>3, CutCases DEF TypeInv, WorldTypes
<1>5. RunPlace'
  BY CutCases, IdleTypes, PageAssumption DEF TypeInv, RunPlace
<1>6. PanelPlace' /\ ReadPlace'
  BY CutCases, IdleTypes DEF TypeInv, PanelPlace, ReadPlace
<1>7. TxPlace'
  BY CutCases, IdleTypes DEF TypeInv, TxPlace
<1> QED BY <1>1, <1>4, <1>5, <1>6, <1>7 DEF TypeInv

\* The four changes of what is shown are renders.
LEMMA ViewCases ==
  ASSUME TypeInv, (\E n \in Nodes : Select(n)) \/ Deselect \/ DropsOut \/ ComesBack
  PROVE  \E sel \in MaybeNode, listed \in BOOLEAN :
            (listed => sel \in Nodes) /\ Rerender(sel, listed)
<1>1. selected \in MaybeNode /\ selected # NoNode => selected \in Nodes
  BY DEF TypeInv, PageTypes, MaybeNode
<1>2. Nodes \subseteq MaybeNode /\ NoNode \in MaybeNode
  BY DEF MaybeNode
<1>3. selected \in MaybeNode
  BY DEF TypeInv, PageTypes
<1> QED BY <1>1, <1>2, <1>3 DEF Select, Deselect, DropsOut, ComesBack

\* The types and places hold in every reachable state.
LEMMA TypeInvariant == Spec => []TypeInv
<1>1. TypeInv /\ [Next]_vars => TypeInv'
  <2> SUFFICES ASSUME TypeInv, [Next]_vars PROVE TypeInv'
    OBVIOUS
  <2>1. CASE (\E n \in Nodes : Select(n)) \/ Deselect \/ DropsOut \/ ComesBack
    BY <2>1, ViewCases, RenderStep
  <2>2. CASE \E r \in reads : ReadArrives(r) \/ ReadFails(r)
    BY <2>2, ReadStep
  <2>3. CASE RunStep
    BY <2>3, RunTypes
  <2>4. CASE PanelActs
    BY <2>4, PanelTypes
  <2>5. CASE \E tx \in pending : Mine(tx)
    BY <2>5, MineTypes
  <2>6. CASE Cut
    BY <2>6, CutTypes
  <2>7. CASE UNCHANGED vars
    BY <2>7 DEF vars, viewVars, hookVars, chainVars, TypeInv, PageTypes, WorldTypes,
            RunPlace, PanelPlace, TxPlace, WaitsFor, ReadPlace
  <2> QED BY <2>1, <2>2, <2>3, <2>4, <2>5, <2>6, <2>7 DEF Next, PanelActs, Cut
<1> QED BY <1>1, InitTypes, PTL DEF Spec

\* A panel that waits for a transaction or a reading has exactly one to wait
\* for, of the node it was clicked on, so that it is never left disabled
\* (ChannelPanel.tsx, useChannel.ts: openChannel, cooperativeClose).
THEOREM PageTypeCorrect == Spec => []TypeOK
<1>1. TypeInv => TypeOK
  BY DEF TypeInv, PageTypes, MaybeNode, TxPlace, ReadPlace, RunPlace, TypeOK
<1> QED BY <1>1, TypeInvariant, PTL

(***************************************************************************)
(* A funded channel is known.  An entry of localStorage is never removed,  *)
(* and a transaction that opens a channel is awaited by the panel, which   *)
(* then writes the entry, or the wait was cut short and the channel named  *)
(* among the interrupted ones.                                             *)
(***************************************************************************)
LEMMA CountersignedIsState ==
  ASSUME TypeInv, NEW view \in View, view.node \in Nodes, NEW receipt \in Receipts,
         SignReceipt(view, receipt)
  PROVE  \A n \in Nodes :
           \/ storage'[n] = storage[n]
           \/ /\ n = view.node /\ view.state # NoState /\ storage'[n] # NoState
              /\ storage'[n].of = view.state.of
              /\ storage'[n].receipt = receipt /\ storage'[n].ack = receipt
<1>1. WorldTypes /\ state \in MaybeState
  BY DEF TypeInv, PageTypes
<1>2. CASE view.state = NoState
  BY <1>1, <1>2, SignTypes
<1>3. CASE view.state # NoState
  BY <1>1, <1>3, SignTypes, PageAssumption
<1> QED BY <1>2, <1>3

\* The views that are signed with, and what they are signed with.
LEMMA SigningTypes ==
  ASSUME TypeInv
  PROVE  /\ run.phase = "signing" =>
              run.view \in View /\ run.view.node \in Nodes /\ run.receipt \in Receipts
         /\ panel.phase = "sign" =>
              panel.view \in View /\ panel.view.node \in Nodes /\ panel.receipt \in Receipts
BY DEF TypeInv, PageTypes, RunPlace, PanelPlace, Run, Panel, MaybeReceipt

\* What a step writes to localStorage: a countersigned state, of a prompt or
\* of the panel, or a new channel.
LEMMA StorageCases ==
  ASSUME TypeInv, [Next]_vars
  PROVE  \/ storage' = storage
         \/ run.phase = "signing" /\ RunStep /\ SignReceipt(run.view, run.receipt)
         \/ panel.phase = "sign" /\ PanelActs /\ SignReceipt(panel.view, panel.receipt)
         \/ /\ panel.phase = "opened" /\ panel' = Refreshing
            /\ Persist(panel.view, NewState(panel.view.node))
<1>1. CASE (\E n \in Nodes : Select(n)) \/ Deselect \/ DropsOut \/ ComesBack
  BY <1>1 DEF Select, Deselect, DropsOut, ComesBack, Rerender
<1>2. CASE \E r \in reads : ReadArrives(r) \/ ReadFails(r)
  BY <1>2 DEF ReadArrives, ReadFails, Concluded
<1>3. CASE RunStep
  BY <1>3, RunCases
<1>4. CASE PanelActs
  BY <1>4, PanelCases
<1>5. CASE (\E tx \in pending : Mine(tx)) \/ Cut
  BY <1>5 DEF Mine, Cut, Reload, WaitFails
<1>6. CASE UNCHANGED vars
  BY <1>6 DEF vars
<1> QED BY <1>1, <1>2, <1>3, <1>4, <1>5, <1>6 DEF Next, PanelActs, Cut

LEMMA OpenedEntry ==
  ASSUME TypeInv, panel.phase = "opened",
         Persist(panel.view, NewState(panel.view.node))
  PROVE  /\ panel.view.node \in Nodes
         /\ storage'[panel.view.node] = NewState(panel.view.node)
         /\ NewState(panel.view.node) # NoState
         /\ \A n \in Nodes \ {panel.view.node} : storage'[n] = storage[n]
<1>1. panel.view.node \in Nodes
  BY DEF TypeInv, PanelPlace
<1>2. NewState(panel.view.node) \in ChannelStates
  BY <1>1 DEF NewState, ChannelStates
<1> QED BY <1>1, <1>2, PageAssumption DEF Persist, StorageKey, TypeInv, WorldTypes

LEMMA StorageStays ==
  ASSUME TypeInv, [Next]_vars, NEW n \in Nodes, storage[n] # NoState
  PROVE  storage'[n] # NoState
<1>1. CASE storage' = storage
  BY <1>1
<1>2. CASE run.phase = "signing" /\ SignReceipt(run.view, run.receipt)
  BY <1>2, SigningTypes, CountersignedIsState
<1>3. CASE panel.phase = "sign" /\ SignReceipt(panel.view, panel.receipt)
  BY <1>3, SigningTypes, CountersignedIsState
<1>4. CASE panel.phase = "opened" /\ Persist(panel.view, NewState(panel.view.node))
  BY <1>4, OpenedEntry
<1> QED BY StorageCases, <1>1, <1>2, <1>3, <1>4

\* What a mined transaction may change.
LEMMA EffectCases ==
  ASSUME TypeInv, NEW tx \in pending, NEW n \in Nodes, NEW after \in Effects(tx)
  PROVE  /\ status[n] # "None" => after[n] # "None"
         /\ after[n] = "Open" => status[n] = "Open" \/ (tx.kind = "open" /\ tx.of = n)
<1>1. /\ tx \in Tx /\ status \in [Nodes -> {"None", "Open", "Closed"}]
      /\ tx.of \in Nodes /\ tx.kind = "close" => tx.update.of \in Nodes
  BY DEF TypeInv, WorldTypes, TxPlace, Tx, Receipts
<1> QED BY <1>1 DEF Effects, Tx

\* The panel is never taken out of "opened" but by openChannel, or by a reload
\* or a failed wait.
LEMMA OpenedStays ==
  ASSUME TypeInv, [Next]_vars, panel.phase = "opened"
  PROVE  \/ panel'.phase = "opened" /\ panel'.view = panel.view
         \/ panel' = Refreshing /\ Persist(panel.view, NewState(panel.view.node))
         \/ Cut
<1>1. CASE (\E n \in Nodes : Select(n)) \/ Deselect \/ DropsOut \/ ComesBack
  BY <1>1 DEF Select, Deselect, DropsOut, ComesBack, Rerender
<1>2. CASE \E r \in reads : ReadArrives(r) \/ ReadFails(r)
  BY <1>2, NoneAwaited DEF ReadArrives, ReadFails, Concluded
<1>3. CASE RunStep
  BY <1>3, RunCases DEF RunStays
<1>4. CASE PanelActs
  BY <1>4, PanelCases
<1>5. CASE \E tx \in pending : Mine(tx)
  BY <1>5, NoneAwaited DEF Mine
<1>6. CASE UNCHANGED vars
  BY <1>6 DEF vars
<1> QED BY <1>1, <1>2, <1>3, <1>4, <1>5, <1>6 DEF Next, PanelActs, Cut

\* A reload or a failed wait names the channel it interrupts.
OrphanIsKnown ==
  \A tx \in pending : (tx.kind = "open" /\ ~tx.awaited) => tx.of \in interrupted

LEMMA OrphanStep ==
  ASSUME TypeInv, OrphanIsKnown, [Next]_vars
  PROVE  OrphanIsKnown' /\ interrupted \subseteq interrupted'
<1>1. CASE (\E n \in Nodes : Select(n)) \/ Deselect \/ DropsOut \/ ComesBack
  BY <1>1 DEF Select, Deselect, DropsOut, ComesBack, Rerender, OrphanIsKnown, chainVars
<1>2. CASE \E r \in reads : ReadArrives(r) \/ ReadFails(r)
  BY <1>2 DEF ReadArrives, ReadFails, Concluded, OrphanIsKnown, chainVars
<1>3. CASE RunStep
  BY <1>3, RunCases DEF RunStays, OrphanIsKnown
<1>4. CASE PanelActs
  <2>1. interrupted' = interrupted
    BY <1>4, PanelCases
  <2>2. \A tx \in pending' : tx \in pending \/ tx.awaited
    <3>1. CASE ApproveTx
      BY <3>1 DEF ApproveTx
    <3>2. CASE ~ApproveTx
      BY <1>4, <3>2 DEF PanelActs, PanelStep, ClickOpen, ClickSign, ClickClose, ApproveSign,
            RejectPopup, AfterOpen, AfterClose, chainVars
    <3> QED BY <3>1, <3>2
  <2> QED BY <2>1, <2>2 DEF OrphanIsKnown
<1>5. CASE \E tx \in pending : Mine(tx)
  BY <1>5 DEF Mine, OrphanIsKnown
<1>6. CASE Cut
  <2>1. \A tx \in pending : (tx.kind = "open" /\ tx.awaited) =>
           panel.phase = "opening" /\ panel.view.node = tx.of
    BY DEF TypeInv, TxPlace, WaitsFor, Waits
  <2> QED BY <1>6, <2>1, CutCases DEF OrphanIsKnown, Opens
<1>7. CASE UNCHANGED vars
  BY <1>7 DEF vars, OrphanIsKnown, chainVars
<1> QED BY <1>1, <1>2, <1>3, <1>4, <1>5, <1>6, <1>7 DEF Next, PanelActs, Cut

\* The chain changes by a mined transaction only.
LEMMA StatusCases ==
  ASSUME TypeInv, [Next]_vars
  PROVE  status' = status \/ \E tx \in pending : Mine(tx) /\ status' \in Effects(tx)
<1>1. CASE (\E n \in Nodes : Select(n)) \/ Deselect \/ DropsOut \/ ComesBack
  BY <1>1 DEF Select, Deselect, DropsOut, ComesBack, Rerender, chainVars
<1>2. CASE \E r \in reads : ReadArrives(r) \/ ReadFails(r)
  BY <1>2 DEF ReadArrives, ReadFails, Concluded, chainVars
<1>3. CASE RunStep
  BY <1>3, RunCases DEF RunStays
<1>4. CASE PanelActs
  BY <1>4, PanelCases
<1>5. CASE \E tx \in pending : Mine(tx)
  BY <1>5 DEF Mine
<1>6. CASE Cut
  BY <1>6, CutCases
<1>7. CASE UNCHANGED vars
  BY <1>7 DEF vars, chainVars
<1> QED BY <1>1, <1>2, <1>3, <1>4, <1>5, <1>6, <1>7 DEF Next, PanelActs, Cut

LEMMA FundedStep ==
  ASSUME TypeInv, OrphanIsKnown, FundedIsKnown, [Next]_vars
  PROVE  FundedIsKnown'
<1> SUFFICES ASSUME NEW n \in Nodes, n \notin interrupted', status'[n] = "Open"
             PROVE  storage'[n] # NoState \/ (panel'.phase = "opened" /\ panel'.view.node = n)
  BY DEF FundedIsKnown
<1>1. n \notin interrupted
  BY OrphanStep
<1>2. CASE status[n] = "Open" /\ storage[n] # NoState
  BY <1>2, StorageStays
<1>3. CASE panel.phase = "opened" /\ panel.view.node = n
  <2>1. CASE panel'.phase = "opened" /\ panel'.view = panel.view
    BY <1>3, <2>1
  <2>2. CASE Persist(panel.view, NewState(panel.view.node))
    BY <1>3, <2>2, OpenedEntry
  <2>3. CASE Cut
    BY <1>3, <2>3, CutCases DEF Opens
  <2> QED BY <1>3, <2>1, <2>2, <2>3, OpenedStays
<1>4. CASE status[n] # "Open"
  <2>1. PICK tx \in pending : Mine(tx) /\ status' \in Effects(tx)
    BY <1>4, StatusCases
  <2>2. tx.kind = "open" /\ tx.of = n
    BY <1>4, <2>1, EffectCases
  <2>3. tx.awaited
    BY <1>1, <2>2 DEF OrphanIsKnown
  <2>4. panel'.phase = After(tx.kind) /\ panel'.view = panel.view /\ panel.view.node = tx.of
    BY <2>1, <2>3, MineCases
  <2> QED BY <2>2, <2>4 DEF After
<1> QED BY <1>1, <1>2, <1>3, <1>4 DEF FundedIsKnown

\* The dashboard knows of every open channel the client has funded, but those
\* whose openChannel ended after it sent its transaction and before persist, by
\* a reload of the page or a failed wait (useChannel.ts:146-189).
THEOREM FundedAreKnown == Spec => []FundedIsKnown
<1>1. Init => OrphanIsKnown /\ FundedIsKnown
  BY DEF Init, OrphanIsKnown, FundedIsKnown
<1>2. TypeInv /\ OrphanIsKnown /\ FundedIsKnown /\ [Next]_vars
        => OrphanIsKnown' /\ FundedIsKnown'
  BY OrphanStep, FundedStep
<1> QED BY <1>1, <1>2, TypeInvariant, PTL DEF Spec

(***************************************************************************)
(* No handler mixes two channels, as long as none was clicked on a state   *)
(* that another node's handler left in memory: what it captured is of the  *)
(* node it was clicked on, and so is all that it writes, whatever is shown *)
(* by then.                                                                *)
(***************************************************************************)
Sound(kept, n) ==
  kept # NoState =>
    /\ kept.of = n
    /\ kept.receipt = kept.ack
    /\ kept.ack # NoReceipt => kept.ack.of = n /\ kept.ack.by = n
Sent(receipt, n) == receipt # NoReceipt => receipt.of = n /\ receipt.by = n

\* A view shows the entry of the node that was selected, which is there still.
CleanIn(kept, view) ==
  /\ view.node \in {NoNode, view.picked}
  /\ view.picked # NoNode =>
       /\ Sound(view.state, view.picked)
       /\ view.state # NoState => kept[view.picked] # NoState
Clean(view) == CleanIn(storage, view)

\* Who has a receipt has a channel.
Acked(kept) == kept # NoState /\ kept.ack # NoReceipt
OwnStorage ==
  \A n \in Nodes : Sound(storage[n], n) /\ (Acked(storage[n]) => status[n] # "None")
OwnLatest ==
  \A n \in Nodes : Sent(latest[n], n) /\ (latest[n] # NoReceipt => status[n] # "None")
OwnRun ==
  /\ Clean(run.view)
  /\ run.attached # NoNode => run.attached = run.match /\ run.match = run.view.picked
  /\ Sent(run.receipt, run.attached)
  /\ run.phase = "signing" => status[run.attached] # "None"
\* An open that is not heedless finds no entry to replace.
OwnPanel ==
  /\ panel.phase \in {"sign", "close"} => Clean(panel.view)
  /\ panel.phase = "sign" =>
       Sent(panel.receipt, panel.view.node) /\ status[panel.view.node] # "None"
  /\ panel.phase \in {"approve", "approving", "open", "opening", "opened"} /\ ~panel.heedless =>
       storage[panel.view.node] = NoState
OwnTx == \A tx \in pending : tx.kind = "close" => Sent(tx.update, tx.of)
OwnAll == OwnStorage /\ OwnLatest /\ OwnRun /\ OwnPanel /\ OwnTx
OwnInv == ~astray => OwnAll

LEMMA OwnInit == Init => OwnInv
<1> SUFFICES ASSUME Init PROVE OwnAll
  BY DEF OwnInv
<1>1. NoView.node = NoNode /\ NoView.picked = NoNode
  BY DEF NoView
<1>2. OwnRun
  BY <1>1, IdleTypes DEF Init, OwnRun, Clean, CleanIn, Sent
<1> QED BY <1>2, IdleTypes
        DEF Init, OwnAll, OwnStorage, Sound, Acked, OwnLatest, Sent, OwnPanel, OwnTx

\* Entries are not removed, so that a view stays clean.
LEMMA CleanStays ==
  ASSUME NEW view \in View, Clean(view),
         \A n \in Nodes : storage[n] # NoState => storage'[n] # NoState
  PROVE  CleanIn(storage', view)
BY DEF Clean, CleanIn, View, MaybeNode

\* A render on which a handler is clicked is clean.
LEMMA RenderIsClean ==
  ASSUME TypeInv, OwnStorage, Coherent
  PROVE  Clean(Render)
<1>1. Render.node = Shown /\ Render.picked = selected /\ Render.state = state
  BY RenderTypes DEF TypeInv
<1>2. Shown \in {NoNode, selected}
  BY DEF Shown
<1>3. selected # NoNode => selected \in Nodes /\ state = storage[selected]
  BY DEF TypeInv, PageTypes, MaybeNode, Coherent
<1> QED BY <1>1, <1>2, <1>3 DEF Clean, CleanIn, OwnStorage

\* What signs with a clean view writes a sound entry of the view's own node,
\* where there is one already.
Kept(n) == /\ Sound(storage'[n], n)
           /\ storage'[n] # NoState <=> storage[n] # NoState
           /\ Acked(storage'[n]) => status[n] # "None"
LEMMA SignIsOwn ==
  ASSUME TypeInv, OwnStorage, NEW view \in View, view.node \in Nodes, Clean(view),
         NEW receipt \in Receipts, Sent(receipt, view.node), SignReceipt(view, receipt),
         status[view.node] # "None"
  PROVE  \A n \in Nodes : Kept(n)
<1>1. view.node = view.picked /\ Sound(view.state, view.node)
  BY PageAssumption DEF Clean, CleanIn
<1>2. view.state # NoState => view.state.of = view.node /\ storage[view.node] # NoState
  BY <1>1, PageAssumption DEF Sound, Clean, CleanIn
<1> QED BY <1>1, <1>2, CountersignedIsState, PageAssumption
        DEF OwnStorage, Sound, Sent, Acked, Kept

\* What changes none of the five stories keeps them.
LEMMA OwnStutter ==
  ASSUME OwnInv, UNCHANGED <<storage, status, latest, run, pending, astray>>,
         panel' = panel \/ panel' = IdlePanel
  PROVE  OwnInv'
<1> SUFFICES ASSUME ~astray PROVE OwnAll'
  BY DEF OwnInv
<1>1. OwnAll
  BY DEF OwnInv
<1>2. OwnStorage' /\ OwnLatest' /\ OwnRun' /\ OwnTx'
  BY <1>1
     DEF OwnAll, OwnStorage, Sound, Acked, OwnLatest, Sent, OwnRun, Clean, CleanIn, OwnTx
<1>3. CASE panel' = panel
  BY <1>1, <1>2, <1>3 DEF OwnAll, OwnPanel, Clean, CleanIn, Sound, Sent
<1>4. CASE panel' = IdlePanel
  BY <1>2, <1>4, IdleTypes DEF OwnAll, OwnPanel
<1> QED BY <1>3, <1>4

\* The parts that a prompt does not write, when what it stores is sound.
LEMMA OwnAround ==
  ASSUME TypeInv, OwnAll, UNCHANGED <<status, pending, panel>>, \A n \in Nodes : Kept(n)
  PROVE  OwnStorage' /\ OwnPanel' /\ OwnTx'
<1>1. OwnStorage'
  BY DEF OwnAll, OwnStorage, Sound, Acked, Kept
<1>2. OwnTx'
  BY DEF OwnAll, OwnTx, Sent
<1>3. /\ panel.view \in View
      /\ panel.phase \notin {"ready", "refreshing"} => panel.view.node \in Nodes
  BY DEF TypeInv, PageTypes, Panel, PanelPlace
<1>4. Clean(panel.view) => CleanIn(storage', panel.view)
  BY <1>3, CleanStays DEF Kept
<1>5. OwnPanel'
  BY <1>3, <1>4 DEF OwnAll, OwnPanel, Sent, Clean, Kept
<1> QED BY <1>1, <1>2, <1>5 DEF OwnAll

LEMMA FreeIsOwn ==
  ASSUME run' \in {IdleRun, FreeRun}
  PROVE  OwnRun'
<1>1. /\ run'.view = NoView /\ run'.attached = NoNode /\ run'.receipt = NoReceipt
      /\ NoView.node = NoNode /\ NoView.picked = NoNode /\ run'.phase # "signing"
  BY IdleTypes DEF NoView
<1> QED BY <1>1 DEF OwnRun, Clean, CleanIn, Sent

LEMMA OwnRunStep ==
  ASSUME TypeInv, OwnInv, RunStep
  PROVE  OwnInv'
<1> SUFFICES ASSUME ~astray' PROVE OwnAll'
  BY DEF OwnInv
<1>1. /\ RunStays /\ run \in Run /\ run.view \in View
      /\ latest \in [Nodes -> MaybeReceipt]
      /\ run.attached \in Nodes => run.match \in Nodes
  BY RunCases DEF TypeInv, PageTypes, Run, RunPlace
<1>2. ~astray
  BY RunCases DEF Clicked
<1>3. /\ OwnAll /\ OwnStorage /\ OwnLatest /\ Clean(run.view)
      /\ run.attached # NoNode => run.attached = run.match /\ run.match = run.view.picked
      /\ Sent(run.receipt, run.attached)
      /\ run.phase = "signing" => status[run.attached] # "None"
      /\ status' = status
  BY <1>1, <1>2 DEF OwnInv, OwnAll, OwnRun, RunStays
\* Of what a run stores, it suffices that it is sound, where there is an entry.
<1>4. ASSUME OwnLatest', OwnRun', \A n \in Nodes : Kept(n)
      PROVE  OwnAll'
  <2>1. UNCHANGED <<status, pending, panel>>
    BY <1>1 DEF RunStays
  <2>2. OwnStorage' /\ OwnPanel' /\ OwnTx'
    BY <1>3, <1>4, <2>1, OwnAround
  <2> QED BY <1>4, <2>2 DEF OwnAll
<1>5. ASSUME storage' = storage
      PROVE  \A n \in Nodes : Kept(n)
  BY <1>3, <1>5 DEF OwnStorage, Kept
<1>6. ASSUME latest' = latest
      PROVE  OwnLatest'
  BY <1>3, <1>6 DEF OwnLatest, Sent
\* A receipt of the run's own channel becomes the last one of its node.
<1>7. ASSUME NEW receipt \in Receipts, ReceiptEvent(receipt), run.match \in Nodes,
             Sent(receipt, run.match), status[run.match] # "None",
             CleanIn(storage', run.view)
      PROVE  OwnLatest' /\ OwnRun'
  <2>1. run' \in GoesOn /\ latest' = [latest EXCEPT ![run.match] = receipt]
    BY <1>7 DEF ReceiptEvent
  <2>2. OwnLatest'
    BY <1>1, <1>3, <1>7, <2>1 DEF OwnLatest, Sent
  <2>3. /\ run'.receipt = NoReceipt
        /\ \/ run' = IdleRun
           \/ /\ run'.view = run.view /\ run'.match = run.match
              /\ run'.attached = run.attached /\ run'.phase = "waiting"
    BY <1>1, <2>1, GoesOnTypes
  <2>4. CASE run' = IdleRun
    BY <2>2, <2>4, FreeIsOwn
  <2>5. CASE /\ run'.phase = "waiting" /\ run'.view = run.view /\ run'.match = run.match
             /\ run'.attached = run.attached
    BY <1>3, <1>7, <2>2, <2>3, <2>5 DEF OwnRun, Clean, Sent
  <2> QED BY <2>3, <2>4, <2>5
<1>8. CASE /\ run'.phase = "matching" /\ run'.view = Render
           /\ run'.attached = NoNode /\ run'.receipt = NoReceipt
           /\ Clicked /\ UNCHANGED <<latest, storage>>
  <2>1. Coherent
    BY <1>8 DEF Clicked
  <2>2. Clean(Render)
    BY <1>3, <2>1, RenderIsClean
  <2>3. OwnRun'
    BY <1>8, <2>2 DEF OwnRun, Clean, Sent
  <2> QED BY <1>4, <1>5, <1>6, <1>8, <2>3
<1>9. CASE UNCHANGED <<latest, storage>> /\ run' \in {IdleRun, FreeRun}
  BY <1>4, <1>5, <1>6, <1>9, FreeIsOwn
<1>10. ASSUME NEW n \in Nodes,
              /\ Attached(run.view, n) # NoNode
              /\ run'.phase = "waiting" /\ run'.view = run.view /\ run'.match = n
              /\ run'.attached = Attached(run.view, n) /\ run'.receipt = NoReceipt
              /\ UNCHANGED <<latest, storage>>
       PROVE  OwnAll'
  <2>1. Attached(run.view, n) = n /\ run.view.picked = n
    BY <1>3, <1>10, PageAssumption DEF Attached, Clean, CleanIn, Sound
  <2>2. OwnRun'
    BY <1>3, <1>10, <2>1 DEF OwnRun, Clean, Sent
  <2> QED BY <1>4, <1>5, <1>6, <1>10, <2>2
<1>11. ASSUME NEW receipt \in Receipts,
              /\ run.attached \in Nodes /\ run.match \in Nodes
              /\ receipt.of = run.attached /\ receipt.by = run.match
              /\ status[run.attached] # "None"
              /\ \/ /\ run'.view = run.view
                    /\ run'.match = run.match /\ run'.attached = run.attached
                    /\ run'.receipt = receipt /\ latest' = latest
                 \/ ReceiptEvent(receipt)
              /\ storage' = storage
       PROVE  OwnAll'
  <2>1. Sent(receipt, run.match) /\ run.attached = run.match /\ CleanIn(storage', run.view)
    BY <1>3, <1>11, PageAssumption DEF Sent, Clean
  <2>2. CASE ReceiptEvent(receipt)
    BY <1>4, <1>5, <1>7, <1>11, <2>1, <2>2
  <2>3. CASE /\ run'.view = run.view
             /\ run'.match = run.match /\ run'.attached = run.attached
             /\ run'.receipt = receipt /\ latest' = latest
    <3>1. OwnRun'
      BY <1>3, <1>11, <2>1, <2>3 DEF OwnRun, Clean, Sent
    <3> QED BY <1>4, <1>5, <1>6, <1>11, <2>3, <3>1
  <2> QED BY <1>11, <2>2, <2>3
<1>12. CASE /\ run.phase = "signing" /\ run.receipt \in Receipts
            /\ SignReceipt(run.view, run.receipt) \/ UNCHANGED <<state, storage>>
            /\ ReceiptEvent(run.receipt)
  <2>1. /\ run.attached \in Nodes /\ run.match \in Nodes /\ run.view.node \in Nodes
        /\ run.attached = run.match /\ run.match = run.view.node
        /\ status[run.match] # "None"
    BY <1>1, <1>3, <1>12, PageAssumption DEF TypeInv, RunPlace, Clean, CleanIn
  <2>2. Sent(run.receipt, run.match) /\ Sent(run.receipt, run.view.node)
    BY <1>3, <2>1
  <2>3. \A n \in Nodes : Kept(n)
    <3>1. CASE SignReceipt(run.view, run.receipt)
      BY <1>1, <1>3, <1>12, <2>1, <2>2, <3>1, SignIsOwn
    <3> QED BY <1>5, <1>12, <3>1
  <2>4. CleanIn(storage', run.view)
    BY <1>1, <1>3, <2>3, CleanStays DEF Kept
  <2> QED BY <1>4, <1>7, <1>12, <2>1, <2>2, <2>3, <2>4
<1> QED BY RunCases, <1>8, <1>9, <1>10, <1>11, <1>12

LEMMA OwnPanelStep ==
  ASSUME TypeInv, OwnInv, PanelActs
  PROVE  OwnInv'
<1> SUFFICES ASSUME ~astray' PROVE OwnAll'
  BY DEF OwnInv
<1>1. /\ UNCHANGED <<latest, run, status>> /\ run.view \in View
      /\ panel.view \in View
      /\ panel.phase \notin {"ready", "refreshing"} => panel.view.node \in Nodes
  BY PanelCases DEF TypeInv, PageTypes, Run, Panel, PanelPlace
<1>2. ~astray
  BY PanelCases DEF Clicked
<1>3. OwnAll /\ OwnStorage /\ OwnLatest /\ OwnRun /\ OwnPanel /\ OwnTx
  BY <1>2 DEF OwnInv, OwnAll
<1>4. OwnLatest'
  BY <1>1, <1>3 DEF OwnLatest, Sent
<1>5. ASSUME storage' = storage
      PROVE  OwnStorage' /\ OwnRun'
  BY <1>1, <1>3, <1>5 DEF OwnStorage, Sound, Acked, OwnRun, Clean, CleanIn, Sent
<1>6. ASSUME pending' = pending
      PROVE  OwnTx'
  BY <1>3, <1>6 DEF OwnTx, Sent
<1>7. ASSUME \A n \in Nodes : storage[n] # NoState => storage'[n] # NoState
      PROVE  OwnRun'
  <2>1. CleanIn(storage', run.view)
    BY <1>1, <1>3, <1>7, CleanStays DEF OwnRun
  <2> QED BY <1>1, <1>3, <2>1 DEF OwnRun, Clean, Sent
<1>8. panel'.phase \in {"ready", "refreshing"} => OwnPanel'
  BY DEF OwnPanel
<1>9. CASE /\ panel.phase = "ready" /\ Shown \in Nodes
           /\ panel'.view.node = Shown
           /\ \/ /\ SeenStatus = "None" /\ panel'.phase \in {"open", "approve"}
                 /\ panel'.heedless = Heedless(Shown) /\ astray' = astray
              \/ /\ panel'.phase = "sign" /\ panel'.view = Render
                 /\ panel'.receipt = latest[Shown] /\ latest[Shown] \in Receipts
                 /\ Clicked
              \/ /\ panel'.phase = "close" /\ panel'.view = Render
                 /\ state \in ChannelStates /\ state.ack \in Receipts
                 /\ Clicked
           /\ UNCHANGED <<state, storage, reads, pending>>
  <2>1. CASE /\ SeenStatus = "None" /\ panel'.phase \in {"open", "approve"}
             /\ panel'.heedless = Heedless(Shown)
    <3>1. ~panel'.heedless => storage[Shown] = NoState
      BY <1>3, <1>9, <2>1 DEF OwnStorage, Acked, Heedless
    <3>2. OwnPanel'
      BY <1>9, <2>1, <3>1 DEF OwnPanel
    <3> QED BY <1>4, <1>5, <1>6, <1>9, <3>2 DEF OwnAll
  <2>2. CASE panel'.phase \in {"sign", "close"} /\ panel'.view = Render /\ Clicked
    <3>1. Clean(Render)
      BY <1>3, <2>2, RenderIsClean DEF Clicked
    <3>2. Clean(panel.view)'
      BY <1>9, <2>2, <3>1 DEF Clean, CleanIn
    <3>3. panel'.phase = "sign" =>
            Sent(panel'.receipt, panel'.view.node) /\ status'[panel'.view.node] # "None"
      BY <1>1, <1>3, <1>9, <2>2, PageAssumption DEF OwnLatest
    <3>4. OwnPanel'
      BY <2>2, <3>2, <3>3 DEF OwnPanel, Sent
    <3> QED BY <1>4, <1>5, <1>6, <1>9, <3>4 DEF OwnAll
  <2> QED BY <1>9, <2>1, <2>2
<1>10. CASE /\ panel.phase = "sign" /\ SignReceipt(panel.view, panel.receipt)
            /\ panel' = IdlePanel /\ UNCHANGED <<astray, reads, pending>>
  <2>1. /\ panel.view.node \in Nodes /\ panel.receipt \in Receipts
        /\ Clean(panel.view) /\ Sent(panel.receipt, panel.view.node)
        /\ status[panel.view.node] # "None"
    BY <1>3, <1>10, SigningTypes DEF OwnPanel
  <2>2. \A n \in Nodes : Kept(n)
    BY <1>1, <1>3, <1>10, <2>1, SignIsOwn
  <2>3. OwnStorage'
    BY <1>1, <2>2 DEF OwnStorage, Sound, Acked, Kept
  <2> QED BY <1>4, <1>6, <1>7, <1>8, <1>10, <2>2, <2>3, IdleTypes DEF OwnAll, Kept
<1>11. CASE /\ panel.phase \in {"approve", "open", "close"}
            /\ panel'.phase = Waits(panel.phase)
            /\ panel'.view.node = panel.view.node /\ panel'.heedless = panel.heedless
            /\ pending' = pending \cup {[kind |-> panel.phase, of |-> panel.view.node,
                                         update |-> Submitted(panel), awaited |-> TRUE]}
            /\ UNCHANGED <<state, storage, astray, reads>>
  <2>1. OwnPanel'
    BY <1>3, <1>11 DEF OwnPanel, Waits
  <2>2. panel.phase = "close" => Sent(Submitted(panel), panel.view.node)
    <3> SUFFICES ASSUME panel.phase = "close"
                 PROVE  Sent(Submitted(panel), panel.view.node)
      OBVIOUS
    <3>1. /\ Clean(panel.view) /\ panel.view.node \in Nodes
          /\ panel.view.state \in ChannelStates
      BY <1>3, <1>11 DEF OwnPanel, TypeInv, PanelPlace
    <3>2. Sound(panel.view.state, panel.view.node)
      BY <3>1, PageAssumption DEF Clean, CleanIn
    <3> QED BY <3>1, <3>2, PageAssumption DEF Submitted, Sound, Sent
  <2>3. OwnTx'
    BY <1>3, <1>11, <2>2 DEF OwnTx, Sent
  <2> QED BY <1>4, <1>5, <1>11, <2>1, <2>3 DEF OwnAll
<1>12. CASE /\ panel.phase \in {"approve", "open", "close", "sign"}
            /\ panel' = IdlePanel
            /\ UNCHANGED <<state, storage, astray, reads, pending>>
  BY <1>4, <1>5, <1>6, <1>8, <1>12, IdleTypes DEF OwnAll
<1>13. CASE /\ panel.phase = "opened"
            /\ Persist(panel.view, NewState(panel.view.node))
            /\ reads' = reads \cup {Reading(panel.view.node, TRUE)}
            /\ panel' = Refreshing /\ UNCHANGED <<astray, pending>>
  <2>1. \A n \in Nodes : storage[n] # NoState => storage'[n] # NoState
    BY <1>13, OpenedEntry
  <2>2. Sound(NewState(panel.view.node), panel.view.node)
    BY DEF Sound, NewState
  <2>3. ~Acked(NewState(panel.view.node))
    BY DEF Acked, NewState
  <2>4. OwnStorage'
    <3> SUFFICES ASSUME NEW n \in Nodes
                 PROVE  Sound(storage'[n], n) /\ (Acked(storage'[n]) => status[n] # "None")
      BY <1>1 DEF OwnStorage, Sound, Acked
    <3>1. CASE n = panel.view.node
      BY <1>13, <2>2, <2>3, <3>1, OpenedEntry
    <3>2. CASE n # panel.view.node
      BY <1>3, <1>13, <3>2, OpenedEntry DEF OwnStorage
    <3> QED BY <3>1, <3>2
  <2> QED BY <1>4, <1>6, <1>7, <1>8, <1>13, <2>1, <2>4, IdleTypes DEF OwnAll
<1>14. CASE /\ panel.phase = "closed"
            /\ reads' = reads \cup {Reading(panel.view.node, TRUE)}
            /\ panel' = Refreshing /\ UNCHANGED <<state, storage, astray, pending>>
  BY <1>4, <1>5, <1>6, <1>8, <1>14, IdleTypes DEF OwnAll
<1> QED BY PanelCases, <1>9, <1>10, <1>11, <1>12, <1>13, <1>14

LEMMA OwnMine ==
  ASSUME TypeInv, OwnInv, NEW tx \in pending, Mine(tx)
  PROVE  OwnInv'
<1> SUFFICES ASSUME ~astray' PROVE OwnAll'
  BY DEF OwnInv
<1>1. /\ UNCHANGED <<latest, run, storage, astray>>
      /\ pending' = pending \ {tx} /\ tx \in Tx /\ status' \in Effects(tx)
      /\ IF tx.awaited
         THEN /\ panel'.phase = After(tx.kind)
              /\ panel'.view = panel.view /\ panel'.heedless = panel.heedless
              /\ panel.phase = Waits(tx.kind) /\ panel.view.node = tx.of
         ELSE panel' = panel
  BY MineCases
<1>2. OwnAll /\ OwnStorage /\ OwnLatest /\ OwnRun /\ OwnPanel /\ OwnTx
  BY <1>1 DEF OwnInv, OwnAll
<1>3. \A n \in Nodes : status[n] # "None" => status'[n] # "None"
  BY <1>1, EffectCases
<1>4. OwnLatest' /\ OwnTx' /\ OwnStorage'
  BY <1>1, <1>2, <1>3 DEF OwnLatest, Sent, OwnTx, OwnStorage, Sound, Acked
<1>5. OwnRun'
  <2>1. run.phase = "signing" => run.attached \in Nodes
    BY DEF TypeInv, RunPlace
  <2> QED BY <1>1, <1>2, <1>3, <2>1 DEF OwnRun, Sent, Clean, CleanIn
<1>6. CASE tx.awaited
  BY <1>1, <1>2, <1>4, <1>5, <1>6 DEF OwnPanel, After, Waits, Tx, OwnAll
<1>7. CASE ~tx.awaited
  <2>1. panel' = panel
    BY <1>1, <1>7
  <2>2. panel.phase = "sign" => panel.view.node \in Nodes
    BY DEF TypeInv, PanelPlace
  <2>3. OwnPanel'
    BY <1>1, <1>2, <1>3, <2>1, <2>2 DEF OwnPanel, Clean, CleanIn, Sound, Sent
  <2> QED BY <1>4, <1>5, <2>3 DEF OwnAll
<1> QED BY <1>6, <1>7

LEMMA OwnCut ==
  ASSUME TypeInv, OwnInv, Cut
  PROVE  OwnInv'
<1> SUFFICES ASSUME ~astray' PROVE OwnAll'
  BY DEF OwnInv
<1>1. OwnAll
  BY CutCases DEF OwnInv
<1>2. OwnStorage'
  BY <1>1, CutCases DEF OwnAll, OwnStorage, Sound, Acked
<1>3. OwnLatest'
  BY <1>1, CutCases DEF OwnAll, OwnLatest, Sent
<1>4. OwnRun'
  <2>1. CASE run' = IdleRun
    BY <2>1, FreeIsOwn
  <2>2. CASE run' = run
    BY <1>1, <2>2, CutCases DEF OwnAll, OwnRun, Sent, Clean, CleanIn, Sound
  <2> QED BY <2>1, <2>2, CutCases
<1>5. OwnPanel'
  BY CutCases, IdleTypes DEF OwnPanel
<1>6. OwnTx'
  BY <1>1, CutCases DEF OwnAll, OwnTx, Sent
<1> QED BY <1>2, <1>3, <1>4, <1>5, <1>6 DEF OwnAll

LEMMA OwnStep ==
  ASSUME TypeInv, OwnInv, [Next]_vars
  PROVE  OwnInv'
<1>1. CASE (\E n \in Nodes : Select(n)) \/ Deselect \/ DropsOut \/ ComesBack
  BY <1>1, OwnStutter DEF Select, Deselect, DropsOut, ComesBack, Rerender, chainVars
<1>2. CASE \E r \in reads : ReadArrives(r) \/ ReadFails(r)
  BY <1>2, OwnStutter DEF ReadArrives, ReadFails, Concluded, chainVars
<1>3. CASE RunStep
  BY <1>3, OwnRunStep
<1>4. CASE PanelActs
  BY <1>4, OwnPanelStep
<1>5. CASE \E tx \in pending : Mine(tx)
  BY <1>5, OwnMine
<1>6. CASE Cut
  BY <1>6, OwnCut
<1>7. CASE UNCHANGED vars
  BY <1>7, OwnStutter DEF vars, chainVars
<1> QED BY <1>1, <1>2, <1>3, <1>4, <1>5, <1>6, <1>7 DEF Next, PanelActs, Cut

LEMMA OwnInvariant == Spec => []OwnInv
<1>1. TypeInv /\ OwnInv /\ [Next]_vars => OwnInv'
  BY OwnStep
<1> QED BY <1>1, OwnInit, TypeInvariant, PTL DEF Spec

\* localStorage never mixes channels, whatever is selected while a prompt, a
\* signature or a transaction is under way (useChannel.ts: persist,
\* signReceipt), unless a handler was clicked on another node's state.
THEOREM StorageStaysOwn == Spec => []StorageIsOwn
<1>1. OwnInv => StorageIsOwn
  BY DEF OwnInv, OwnAll, OwnStorage, Sound, StorageIsOwn
<1> QED BY <1>1, OwnInvariant, PTL

\* A request carries no channel but the one with the node that serves it
\* (Dashboard.tsx: handleSend), and a cooperative close submits an update of
\* its own channel and node (useChannel.ts: cooperativeClose), likewise.
THEOREM ChannelsAreOwn == Spec => []UsesOwnChannel
<1>1. TypeInv /\ OwnInv => UsesOwnChannel
  <2> SUFFICES ASSUME TypeInv, OwnInv, ~astray
               PROVE  /\ run.attached \in {NoNode, run.match}
                      /\ \A tx \in pending : tx.kind = "close" =>
                           tx.update.of = tx.of /\ tx.update.by = tx.of
    BY DEF UsesOwnChannel
  <2>1. \A tx \in pending : tx.kind = "close" => tx.update # NoReceipt
    BY PageAssumption DEF TypeInv, TxPlace
  <2> QED BY <2>1 DEF OwnInv, OwnAll, OwnRun, OwnTx, Sent
<1> QED BY <1>1, OwnInvariant, TypeInvariant, PTL

\* What is stored with an ack is replaced by a state with an ack, or by an "open"
\* of its node that was clicked on an ack while the panel showed another status
\* than the channel had, or on a record without an ack (useChannel.ts:
\* openChannel), unless a handler was clicked on another node's state.
THEOREM AcksAreErasedOnlyIfStale == Spec => ErasedOnlyIfStale
<1>1. ASSUME TypeInv, OwnInv, [Next]_vars, NEW n \in Nodes,
             ~astray, storage[n] # NoState, storage[n].ack # NoReceipt
      PROVE  \/ storage'[n] # NoState /\ storage'[n].ack # NoReceipt
             \/ panel.phase = "opened" /\ panel.view.node = n /\ panel.heedless
  <2>1. CASE storage' = storage
    BY <1>1, <2>1
  <2>2. CASE run.phase = "signing" /\ SignReceipt(run.view, run.receipt)
    BY <1>1, <2>2, SigningTypes, CountersignedIsState, PageAssumption
  <2>3. CASE panel.phase = "sign" /\ SignReceipt(panel.view, panel.receipt)
    BY <1>1, <2>3, SigningTypes, CountersignedIsState, PageAssumption
  <2>4. CASE panel.phase = "opened" /\ Persist(panel.view, NewState(panel.view.node))
    <3>1. CASE n = panel.view.node
      BY <1>1, <2>4, <3>1 DEF OwnInv, OwnAll, OwnPanel, TypeInv, PageTypes, Panel
    <3>2. CASE n # panel.view.node
      BY <1>1, <2>4, <3>2, OpenedEntry
    <3> QED BY <3>1, <3>2
  <2> QED BY <1>1, <2>1, <2>2, <2>3, <2>4, StorageCases
<1>2. TypeInv /\ OwnInv /\ [Next]_vars
        => [\A n \in Nodes :
              (~astray /\ storage[n] # NoState /\ storage[n].ack # NoReceipt) =>
                \/ storage'[n] # NoState /\ storage'[n].ack # NoReceipt
                \/ panel.phase = "opened" /\ panel.view.node = n /\ panel.heedless]_vars
  BY <1>1
<1> QED BY <1>2, OwnInvariant, TypeInvariant, PTL DEF Spec, ErasedOnlyIfStale
=============================================================================

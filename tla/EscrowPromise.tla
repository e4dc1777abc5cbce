--------------------------- MODULE EscrowPromise ---------------------------
(***************************************************************************)
(* What a payment channel promises about money, without deadlines, nonces  *)
(* or a choice of closing path.  Money is put into a channel, stays there  *)
(* in full, and leaves it once, in a single step that gives the node an    *)
(* amount both parties agreed to (capped at what is held) or nothing, and  *)
(* gives the client everything else.  JobChannel implements this.          *)
(***************************************************************************)
EXTENDS Integers

CONSTANT Channels

VARIABLES
  phase,     \* phase[ch]: "absent", "held" or "released"
  held,      \* held[ch]: money in the channel
  agreed,    \* agreed[ch]: amounts both parties have signed for
  released   \* released[ch]: what each side got, [paid, refunded]

pvars == <<phase, held, agreed, released>>

PromiseInit ==
  /\ phase = [ch \in Channels |-> "absent"]
  /\ held = [ch \in Channels |-> 0]
  /\ agreed = [ch \in Channels |-> {}]
  /\ released = [ch \in Channels |-> [paid |-> 0, refunded |-> 0]]

\* Money enters a channel that has not been released.
Fund(ch) ==
  /\ phase[ch] # "released"
  /\ phase' = [phase EXCEPT ![ch] = "held"]
  /\ held'[ch] \in Nat /\ held'[ch] >= held[ch]
  /\ held' = [held EXCEPT ![ch] = held'[ch]]
  /\ UNCHANGED <<agreed, released>>

\* Both parties have now signed for some further amounts.
Agree(ch) ==
  /\ agreed[ch] \subseteq agreed'[ch] /\ agreed'[ch] \subseteq Nat
  /\ agreed' = [agreed EXCEPT ![ch] = agreed'[ch]]
  /\ UNCHANGED <<phase, held, released>>

\* Everything leaves at once; the node's share is an agreed amount or zero.
Release(ch) ==
  /\ phase[ch] = "held"
  /\ \E owed \in agreed[ch] \cup {0} :
       LET paid == IF owed > held[ch] THEN held[ch] ELSE owed
       IN  released' = [released EXCEPT
                          ![ch] = [paid |-> paid, refunded |-> held[ch] - paid]]
  /\ phase' = [phase EXCEPT ![ch] = "released"]
  /\ held' = [held EXCEPT ![ch] = 0]
  /\ UNCHANGED agreed

PromiseNext == \E ch \in Channels : Fund(ch) \/ Agree(ch) \/ Release(ch)

PromiseSpec == PromiseInit /\ [][PromiseNext]_pvars
=============================================================================

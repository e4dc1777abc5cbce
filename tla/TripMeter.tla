----------------------------- MODULE TripMeter -----------------------------
(***************************************************************************)
(* What a node's ledger promises about the round trips of a channel,       *)
(* without requests that overlap, a cached deposit or a backend: a meter   *)
(* that goes on by the price of one trip at a time and seals each of its   *)
(* readings, and that serves one payer from the first ack on.  Only losing *)
(* power sets it back.  NodeLedger implements this.                        *)
(***************************************************************************)
EXTENDS Integers

CONSTANTS Prices, Payers, Nobody

VARIABLES
  reading,   \* trips and what they cost together: [nonce, cumOwed]
  sealed,    \* every reading ever signed, with the life of the meter
  life,      \* how often power was lost
  payer      \* who has acknowledged a reading in this life

meterVars == <<reading, sealed, life, payer>>

Zero == [nonce |-> 0, cumOwed |-> 0]

MeterInit ==
  /\ reading = Zero
  /\ sealed = {}
  /\ life = 0
  /\ payer = Nobody

\* The payer is the first one to acknowledge a reading.
Recognized == payer' = payer \/ (payer = Nobody /\ payer' \in Payers)

\* One trip is charged and the new reading sealed.
Charge ==
  /\ \E price \in Prices :
       reading' = [nonce |-> reading.nonce + 1, cumOwed |-> reading.cumOwed + price]
  /\ sealed' = sealed \cup {[life |-> life, update |-> reading']}
  /\ Recognized
  /\ UNCHANGED life

\* A reading is acknowledged between two trips.
Acknowledge == Recognized /\ UNCHANGED <<reading, sealed, life>>

LosePower ==
  /\ reading' = Zero
  /\ payer' = Nobody
  /\ life' = life + 1
  /\ UNCHANGED sealed

MeterNext == Charge \/ Acknowledge \/ LosePower

MeterSpec == MeterInit /\ [][MeterNext]_meterVars
=============================================================================

----------------------------- MODULE StakeBook -----------------------------
(***************************************************************************)
(* What a staked registry promises its members, without owners, minimum    *)
(* stakes, advertisements or the layout of its list.  A member joins once, *)
(* with a stake of its own; stakes leave the book in payments to accounts, *)
(* each out of one member's stake; and a member is listed until the        *)
(* payment that leaves it nothing.  NodeRegistry implements this.          *)
(***************************************************************************)
EXTENDS Integers

CONSTANT Members

VARIABLES
  listed,    \* the members anybody who reads the book finds
  stakes,    \* stakes[m]: what the book holds of member m
  wallets,   \* wallets[m]: what m has for itself
  pot        \* what the book holds altogether

bookVars == <<listed, stakes, wallets, pot>>

BookInit ==
  /\ listed = {}
  /\ stakes = [m \in Members |-> 0]
  /\ wallets \in [Members -> Nat]
  /\ pot = 0

\* A member that is not listed puts in a stake, beside what it may still have.
Join(m) ==
  /\ m \notin listed
  /\ listed' = listed \cup {m}
  /\ \E amount \in 0..wallets[m] :
       /\ stakes' = [stakes EXCEPT ![m] = @ + amount]
       /\ wallets' = [wallets EXCEPT ![m] = @ - amount]
       /\ pot' = pot + amount

\* Account a is paid out of the stake of m, who goes with its last money.
PayOut(m, a) ==
  /\ m \in listed
  /\ \E amount \in 0..stakes[m] :
       /\ stakes' = [stakes EXCEPT ![m] = @ - amount]
       /\ wallets' = [wallets EXCEPT ![a] = @ + amount]
       /\ pot' = pot - amount
       /\ listed' = IF amount = stakes[m] THEN listed \ {m} ELSE listed

BookNext == \E m \in Members : Join(m) \/ \E a \in Members : PayOut(m, a)

BookSpec == BookInit /\ [][BookNext]_bookVars
=============================================================================

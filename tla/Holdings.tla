----------------------------- MODULE Holdings -----------------------------
(***************************************************************************)
(* What the trader promises about the shares it holds: a position is       *)
(* opened from nothing and closed to nothing, or by as much as an order    *)
(* can carry.  It is never added to and never turned from long to short in *)
(* one step (the match of src/src/trader/trading_strategy.rs:249-377), as  *)
(* long as the trader knows what it holds.  It loses sight of a symbol     *)
(* when it reads the position while an order is on its way, and regains    *)
(* it by reading again.                                                    *)
(***************************************************************************)
EXTENDS Integers

CONSTANTS
  Symbols,
  MaxInt  \* the most shares an order to a depot can carry

VARIABLES
  shares,  \* negative when short
  unsure   \* symbols out of sight

Carried(n) ==
  IF n > MaxInt THEN MaxInt ELSE IF n < -MaxInt THEN -MaxInt ELSE n

Open(s) ==
  /\ s \notin unsure
  /\ shares[s] = 0
  /\ shares'[s] \in Int \ {0}
  /\ shares' = [shares EXCEPT ![s] = shares'[s]]
  /\ UNCHANGED unsure

\* All of a position, or as much of it as an order can carry.
Close(s) ==
  /\ s \notin unsure
  /\ shares[s] # 0
  /\ shares' = [shares EXCEPT ![s] = @ - Carried(@)]
  /\ UNCHANGED unsure

\* An order that was sent out of sight meets shares it was not made for.
Slip(s) ==
  /\ s \in unsure
  /\ shares'[s] \in Int
  /\ shares' = [shares EXCEPT ![s] = shares'[s]]
  /\ UNCHANGED unsure

LoseSight(s) ==
  /\ unsure' = unsure \union {s}
  /\ UNCHANGED shares

RegainSight(s) ==
  /\ unsure' = unsure \ {s}
  /\ UNCHANGED shares

Init ==
  /\ shares = [s \in Symbols |-> 0]
  /\ unsure = {}

Next ==
  \E s \in Symbols :
    Open(s) \/ Close(s) \/ Slip(s) \/ LoseSight(s) \/ RegainSight(s)

Spec == Init /\ [][Next]_<<shares, unsure>>

============================================================================

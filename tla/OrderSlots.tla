----------------------------- MODULE OrderSlots -----------------------------
(***************************************************************************)
(* What the approval queue promises its callers.  A slot is one (account,   *)
(* key, side).  An order claims its slots when it is created, if no other   *)
(* order holds any of them, and only gives slots up afterwards: when an     *)
(* unbound order is bound to one account, when the venue has finished with  *)
(* it, or when a cancel of it was accepted.  It never claims again, so no   *)
(* order comes back once its slot may have gone to another.                 *)
(***************************************************************************)
CONSTANTS
  Row,     \* order ids
  Slot     \* (account, key, side) triples

VARIABLES
  holds,   \* the slots each order holds
  used     \* the orders that have been created

vars == <<holds, used>>

TypeOK ==
  /\ holds \in [Row -> SUBSET Slot]
  /\ used \in SUBSET Row

Init ==
  /\ holds = [r \in Row |-> {}]
  /\ used = {}

Claim(r, S) ==
  /\ r \notin used
  /\ \A r2 \in Row : holds[r2] \intersect S = {}
  /\ holds' = [holds EXCEPT ![r] = S]
  /\ used' = used \union {r}

\* Orders may keep what they hold or give some of it up, never gain.
Yield ==
  /\ holds' \in [Row -> SUBSET Slot]
  /\ \A r \in Row : holds'[r] \subseteq holds[r]
  /\ UNCHANGED used

Next == Yield \/ \E r \in Row, S \in SUBSET Slot : Claim(r, S)

Spec == Init /\ [][Next]_vars

\* No slot has two holders.
Exclusive == \A r1, r2 \in Row : r1 # r2 => holds[r1] \intersect holds[r2] = {}

=============================================================================

--------------------------- MODULE EffectContract ---------------------------
(***************************************************************************)
(* What the tool ledger promises of one external effect, without workers,  *)
(* reservations or requests: it happens at most once, a verdict is given   *)
(* at most once, and the system itself says that the effect has happened   *)
(* only after it has.  An operator answers for the verdict he gives.       *)
(***************************************************************************)
EXTENDS Naturals

VARIABLES happened, verdict

contractVars == <<happened, verdict>>

Init == happened = 0 /\ verdict = "open"

Happen ==
  /\ happened = 0
  /\ happened' = 1
  /\ UNCHANGED verdict

Confirm ==
  /\ verdict = "open"
  /\ happened = 1
  /\ verdict' = "confirmed"
  /\ UNCHANGED happened

Resolve ==
  /\ verdict = "open"
  /\ verdict' \in {"resolved", "denied"}
  /\ UNCHANGED happened

Next == Happen \/ Confirm \/ Resolve

Spec == Init /\ [][Next]_contractVars
=============================================================================

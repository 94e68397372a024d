--------------------------- MODULE MCMailDelivery ---------------------------
(* Model-checking instance of MailDelivery: two calls one after the other,   *)
(* on one draft or on what the first call left behind.                       *)
EXTENDS MailDelivery, TLC

CallSymmetry == Permutations(Calls)
=============================================================================

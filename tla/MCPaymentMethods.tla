-------------------------- MODULE MCPaymentMethods --------------------------
(* Small instances of PaymentMethods. *)
EXTENDS PaymentMethods, TLC

CONSTANTS visa, master

(* Two cards with digits of their own. *)
OwnDigits == visa :> 1 @@ master :> 2

=============================================================================

--------------------------- MODULE MCPaymentLedger ---------------------------
(* Two bookings and three payments, so that one booking can be paid twice.   *)
EXTENDS PaymentLedger
===============================================================================

------------------------------- MODULE MCDelivery -------------------------------
(* Objects and requests of up to three bytes, read two at a time.            *)
EXTENDS Delivery
================================================================================

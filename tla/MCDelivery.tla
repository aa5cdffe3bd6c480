----------------------------- MODULE MCDelivery -----------------------------
(***************************************************************************)
(* An instance of Delivery for TLC; its constants are in the .cfg file.    *)
(***************************************************************************)
EXTENDS Delivery
=============================================================================

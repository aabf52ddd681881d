----------------------------- MODULE MCHousekeeping -----------------------------
(* A small instance of Housekeeping for TLC: the default tenant and one    *)
(* that was inserted by hand.                                              *)
EXTENDS Housekeeping

MCCounter == {"articles", "likes"}
=============================================================================

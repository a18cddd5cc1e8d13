----------------------------- MODULE MCTwoFactor -----------------------------
(* A small instance of TwoFactor for TLC.                                  *)
EXTENDS TwoFactor

TwoMethods == <<"sms", "resume">>
=============================================================================

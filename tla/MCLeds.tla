------------------------------- MODULE MCLeds -------------------------------
(***************************************************************************)
(* The instance of Leds for TLC.                                           *)
(***************************************************************************)
EXTENDS Leds
=============================================================================

------------------------------- MODULE MCPopups -------------------------------
(* Popups for TLC.                                                           *)
EXTENDS Popups
=============================================================================

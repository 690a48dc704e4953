------------------------------- MODULE MCWindow -------------------------------
(* A bounded instance of Window. *)
EXTENDS Window
=============================================================================

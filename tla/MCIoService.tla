---------------------------- MODULE MCIoService -----------------------------
(* Model-checking instances of IoService. *)
EXTENDS IoService
=============================================================================

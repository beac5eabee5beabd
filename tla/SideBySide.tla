---------------------------- MODULE SideBySide -----------------------------
(***************************************************************************)
(* Components that share nothing, one at a time: "part" says which one a   *)
(* behaviour is about and never changes, "st" is that component's state.   *)
(***************************************************************************)
VARIABLES part, st

vars == <<part, st>>
=============================================================================

----------------------------- MODULE MCDualReset -----------------------------
(***************************************************************************)
(* Two screens, two classes, two lifetimes at the address and calls nested *)
(* two deep.                                                               *)
(***************************************************************************)
EXTENDS DualReset
=============================================================================

---------------------------- MODULE MCScrollArchive ----------------------------
(***************************************************************************)
(* Two characters who can read scrolls, one of whom holds the effects, in  *)
(* two processes.                                                          *)
(***************************************************************************)
EXTENDS ScrollArchive
=============================================================================

-------------------------- MODULE MCDualTransaction --------------------------
(***************************************************************************)
(* Two contexts, two creating threads, two usable transactions (the third  *)
(* value is UINT64_MAX, so the sequence also saturates).                   *)
(***************************************************************************)
EXTENDS DualTransaction, TLC

CONSTANTS c1, c2, t1, t2

MCContexts == {c1, c2}
MCThreads == {t1, t2}
Symmetry == Permutations(MCContexts) \cup Permutations(MCThreads)
=============================================================================

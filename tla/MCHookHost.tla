------------------------------ MODULE MCHookHost ------------------------------
(***************************************************************************)
(* The eight groups in the order of the start, one routine each and two in *)
(* the selectors, where a part of the routines may already be written.     *)
(* Two other threads: one a check waits for, and one it does not see.      *)
(***************************************************************************)
EXTENDS HookHost, TLC

StartOrder == <<"linked177", "conditional", "conditionalCalls", "decode",
                "dispatch", "cast", "selectors", "item">>
FewSites == <<1, 1, 1, 1, 1, 1, 2, 1>>
CONSTANTS u, v

Others == {u, v}
Alike == Permutations(Others)
=============================================================================

---------------------------- MODULE MCOldAbilities ----------------------------
(***************************************************************************)
(* A catalogue with every relation the rules know: a prerequisite, an      *)
(* exclusion, two kinds of one resource, and a row that requires itself.   *)
(* Batches of two, so that three selections need two of them.              *)
(***************************************************************************)
EXTENDS OldAbilities

CONSTANTS strike, pact, ward, self, A, P, X

Row(kind, res, prereq, excl, max) ==
    [kind |-> kind, res |-> res, prereq |-> prereq, excl |-> excl, max |-> max]
Installed ==
    [r \in {strike, pact, ward, self} |->
       IF r = strike THEN Row("GA", A, <<"GA", P>>, <<"AP", X>>, 2)
       ELSE IF r = pact THEN Row("GA", P, Nothing, Nothing, 2)
       ELSE IF r = ward THEN Row("AP", X, Nothing, <<"GA", A>>, 1)
       ELSE Row("GA", X, <<"GA", X>>, Nothing, 4)]
GrantedBefore == {pact, ward}
=============================================================================

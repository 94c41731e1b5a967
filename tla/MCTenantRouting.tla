-------------------------- MODULE MCTenantRouting --------------------------
(* Two namespace keys, of which the first takes two legal values and an        *)
(* illegal one; a tenant without the second; a key that is for no namespace.   *)
EXTENDS TenantRouting, TLC

CONSTANTS org, team, project, A, B, Bad

MCKeys == <<org, team>>
Org(x) == org :> x @@ team :> B
MCBodies == {Org(A), Org(B), Org(Bad), org :> A}
MCIdentities == {Org(A) @@ project :> B}
MCAddresses == [segments : {<<A, B>>}, padded : BOOLEAN] \cup [segments : {<<B, B>>, <<A>>}, padded : {FALSE}]
Symmetry == Permutations(Actors)
=============================================================================

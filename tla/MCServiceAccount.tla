-------------------------- MODULE MCServiceAccount --------------------------
(* An account, a role of its organization and one of another: ServiceAccount for TLC. *)
EXTENDS ServiceAccount, TLC

CONSTANTS o1, o2, a1, r1, r2, view, manage, inside, outside

MCOrgOf == a1 :> o1
MCRoleOrg == (r1 :> o1) @@ (r2 :> o2)
MCGrants == (r1 :> {view}) @@ (r2 :> {manage})
MCScopeLists == {{}, {view, manage}}
MCCidrLists == {AnyAddress, {inside}}

Symmetry == Permutations(Call) \cup Permutations(Credential)
=============================================================================

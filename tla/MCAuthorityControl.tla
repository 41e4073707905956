-------------------------- MODULE MCAuthorityControl --------------------------
(* Small instances of the authority control plane for TLC. *)
EXTENDS AuthorityControl

CONSTANTS t1, t2, r1, c1, p1, v1, pp1, pp2

Protect == [type |-> "ProtectRoute", route |-> r1, capability |-> c1]
Unprotect == [type |-> "UnprotectRoute", route |-> r1]
SetPolicy == [type |-> "SetCapabilityPolicy", capability |-> c1, policy |-> p1]
Disable == [type |-> "SetProviderEnabled", provider |-> v1, enabled |-> FALSE]
GoodPassword == [type |-> "SetPasswordPolicy", policy |-> pp1]
BadPassword == [type |-> "SetPasswordPolicy", policy |-> pp2]

TwoEdits == {Protect, BadPassword}
AllEdits == {Protect, Unprotect, SetPolicy, Disable, GoodPassword, BadPassword}

DistinctBatch == {<<1, 2>>}
RepeatingBatch == {<<1, 1>>}
=============================================================================

---------------------------- MODULE MCAuditTrail ----------------------------
EXTENDS AuditTrail

CONSTANTS r1, r2, r3, r4, ta, tb

MCRequests == {r1, r2, r3, r4}
MCDecides == {r1, r2, r3}
MCTenantOf == [r \in MCRequests |-> IF r = r3 THEN tb ELSE ta]

(* Ids are hashes: their order is not the order of the numbers. *)
MCRank(n) == (3 * n + 1) % 4

(* r1 and r2 have one tenant and are both authorizations. *)
MCSymmetry == Permutations({r1, r2})

=============================================================================

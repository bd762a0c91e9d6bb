---------------------------- MODULE MCTenantAuth ----------------------------
(* TenantAuth on the small instances the configurations give.                *)
EXTENDS TenantAuth, TLC

CONSTANTS t1, t2, k1, k2, c1, c2, r1, r2

(* Two default tenants, as in the code.                                     *)
MCSeeds == << [tenant |-> t1, key |-> k1, config |-> c1],
              [tenant |-> t2, key |-> k2, config |-> c2] >>

(* One default tenant.                                                      *)
MCOneSeed == << [tenant |-> t1, key |-> k1, config |-> c1] >>

Symmetry == Permutations({r1, r2})
=============================================================================

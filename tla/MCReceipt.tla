----------------------------- MODULE MCReceipt -----------------------------
(* Receipt with small sets of statements; some are true, one of them of a     *)
(* program other than identity_bls.                                           *)
EXTENDS Receipt

CONSTANTS r1, c1, c2, identity, other

MCExecutions == {<<r1, c1, identity>>, <<r1, c2, other>>}
=============================================================================

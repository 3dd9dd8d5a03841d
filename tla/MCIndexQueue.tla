---------------------------- MODULE MCIndexQueue ----------------------------
(* Four tasks of two tenants.                                              *)
EXTENDS IndexQueueProps

CONSTANTS t1, t2, t3, t4, a, b

TwoTenants == [t \in Tasks |-> IF t \in {t1, t2} THEN a ELSE b]
=============================================================================

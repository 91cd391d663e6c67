--------------------------- MODULE MCControlLedger ---------------------------
(* Three requests compete for the budget of one task. *)
EXTENDS ControlLedger, TLC

CONSTANTS t1, r1, r2, r3

MCTaskOf == [r \in {r1, r2, r3} |-> t1]
MCLimit == t1 :> [queries |-> 3, rows |-> 2, db_ms |-> 2]
MCUse == 0 .. 2
Symmetry == Permutations({r1, r2, r3})
=============================================================================

---------------------------- MODULE MCQueryWorker ----------------------------
(* Two requests compete for the budget of one task; rows and times reported by
   the connector lie below, at and above what was reserved. *)
EXTENDS QueryWorker, TLC

CONSTANTS t1, r1, r2

MCTaskOf == [r \in {r1, r2} |-> t1]
MCLimit == t1 :> [queries |-> 2, rows |-> 2, db_ms |-> 2]
MCUse == 0 .. 2
MCAsk == {[rows |-> 1, db_ms |-> 1]}
MCObserved == {[rows |-> -1, db_ms |-> 0], [rows |-> 3, db_ms |-> 3]}
=============================================================================

--------------------------- MODULE MCResultArtifact --------------------------
(* One result of one task, published by its worker, a reader and the recovery pass
   while a retention purge deletes it. *)
EXTENDS ResultArtifact, TLC

CONSTANTS r1, t1, c1, g1

MCTaskOf == r1 :> t1

=============================================================================

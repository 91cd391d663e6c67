-------------------------- MODULE MCOrdinalRootHead --------------------------
(* A root task finalizes two queries and a delegated task one.  The observations
   overlap, one contains another, and the ceiling of the delegated task is lower
   than the root's, so that races are lost, replays are free and refusals happen. *)
EXTENDS OrdinalRootHead, TLC

CONSTANTS root, child, q1, q2, q3, f1, f2, f3, o1, o2, o3

MCDim == {"release", "outcome"}
MCFactsOf ==
  o1 :> ("release" :> {f1} @@ "outcome" :> {f1}) @@
  o2 :> ("release" :> {f1, f2} @@ "outcome" :> {f2}) @@
  o3 :> ("release" :> {f1} @@ "outcome" :> {f3})
MCTaskOf == q1 :> root @@ q2 :> root @@ q3 :> child
MCRootLimit == "release" :> 3 @@ "outcome" :> 2
MCTaskLimit == root :> MCRootLimit @@ child :> ("release" :> 1 @@ "outcome" :> 2)
=============================================================================

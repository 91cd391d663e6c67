--------------------------- MODULE MCOutcomeRadix ---------------------------
(* Three settlements of one family over six hashes: four that share a      *)
(* two-byte prefix (two leaves of two), one beside them in the same block, *)
(* and one in another block.  The family may be charged for five of them.  *)
EXTENDS OutcomeRadix, TLC

MCHashes == {<<0, 0, 0>>, <<0, 0, 1>>, <<0, 0, 2>>, <<0, 0, 3>>, <<0, 1, 0>>, <<1, 0, 0>>}
MCObservable == {hashes \in SUBSET MCHashes : Cardinality(hashes) \in 1..2}
                \union {{h \in MCHashes : Prefix16(h) = <<0, 0>>}}
MCSymmetry == Permutations(Queries)
=============================================================================

--------------------------- MODULE MCSemanticReplay --------------------------
(* Three queries over a plain scan of two rows and a grouped plan of one, with *)
(* a row budget of three and an influence ceiling of two: ceilings that        *)
(* shrink with use, a budget shared with a query in flight, and a budget that  *)
(* cuts a result short all occur.                                              *)
EXTENDS SemanticReplay, TLC

CONSTANTS scan, group

MCSize == scan :> 2 @@ group :> 1
=============================================================================

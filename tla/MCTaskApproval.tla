--------------------------- MODULE MCTaskApproval ---------------------------
(* A root task and a child it delegates to. *)
EXTENDS TaskApproval

CONSTANTS root, child

Family == {root, child}
FamilyParent == [t \in Family |-> IF t = child THEN root ELSE NoTask]
RootOnly == {root}
Nothing == {}
JustRoot == {root}
RootParent == [t \in JustRoot |-> NoTask]
=============================================================================

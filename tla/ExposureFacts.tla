---------------------------- MODULE ExposureFacts ----------------------------
(***************************************************************************)
(* Facts, observations and limits of one root task family, shared by the   *)
(* exposure ledgers.  The facts of an observation are what a query showed, *)
(* was influenced by, and its outcome; each dimension is accounted alone.  *)
(***************************************************************************)
EXTENDS Integers, FiniteSets

CONSTANTS
  Dim,          \* exposure dimensions: release, influence, outcome
  Fact,         \* facts
  Observation,  \* observations, named by their digest
  FactsOf,      \* observation -> dimension -> facts it shows
  Query,        \* queries of the family
  Task,         \* tasks of the family
  TaskOf,       \* query -> task
  RootLimit,    \* dimension -> limit of the root
  TaskLimit     \* task -> dimension -> ceiling its grant signs

ASSUME ExposureAssumption ==
  /\ IsFiniteSet(Fact) /\ IsFiniteSet(Query)
  /\ FactsOf \in [Observation -> [Dim -> SUBSET Fact]]
  /\ TaskOf \in [Query -> Task]
  /\ RootLimit \in [Dim -> Nat]
  /\ TaskLimit \in [Task -> [Dim -> Nat]]
  /\ \A t \in Task, d \in Dim : TaskLimit[t][d] <= RootLimit[d]

NoCharge == [d \in Dim |-> 0]
\* How many facts of an observation are new, in each dimension.
Novelty(o, shown) == [d \in Dim |-> Cardinality(FactsOf[o][d] \ shown[d])]
Merge(o, shown) == [d \in Dim |-> shown[d] \cup FactsOf[o][d]]
Sum(a, b) == [d \in Dim |-> a[d] + b[d]]

\* A dimension with nothing new is not checked: replay stays free after an ancestor
\* moved the family beyond the ceiling of a narrowed descendant.
Fits(t, before, new) ==
  \A d \in Dim : new[d] > 0 => /\ before[d] + new[d] <= RootLimit[d]
                               /\ before[d] + new[d] <= TaskLimit[t][d]
=============================================================================

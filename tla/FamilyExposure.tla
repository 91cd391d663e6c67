--------------------------- MODULE FamilyExposure ----------------------------
(***************************************************************************)
(* What the exposure ledger of a root task family promises, whichever way  *)
(* it is stored: settling an observation charges, in one step and in every *)
(* dimension together, exactly the facts the family had not been shown     *)
(* before, within the root's limits and the settling task's ceiling.       *)
(*                                                                         *)
(* OrdinalRootHead shows that the row-locked ledgers of profiles V1 to V3  *)
(* and the lock-free heads of V4 and V5 both keep this promise.            *)
(***************************************************************************)
EXTENDS ExposureFacts

VARIABLES
  facts,    \* dimension -> facts the family has been shown
  used,     \* dimension -> facts charged to the family
  status,   \* query -> status of its exposure reservation
  charged   \* query -> dimension -> facts charged for it

familyVars == <<facts, used, status, charged>>

FamilyReserve(q) ==
  /\ status[q] = "NONE"
  /\ status' = [status EXCEPT ![q] = "RESERVED"]
  /\ UNCHANGED <<facts, used, charged>>

FamilySettle(q, o) ==
  LET new == Novelty(o, facts)
  IN  /\ status[q] = "RESERVED"
      /\ Fits(TaskOf[q], used, new)
      /\ facts' = Merge(o, facts)
      /\ used' = Sum(used, new)
      /\ charged' = [charged EXCEPT ![q] = new]
      /\ status' = [status EXCEPT ![q] = "SETTLED"]

FamilyRelease(q) ==
  /\ status[q] = "RESERVED"
  /\ status' = [status EXCEPT ![q] = "RELEASED"]
  /\ UNCHANGED <<facts, used, charged>>

FamilyInit ==
  /\ facts = [d \in Dim |-> {}]
  /\ used = NoCharge
  /\ status = [q \in Query |-> "NONE"]
  /\ charged = [q \in Query |-> NoCharge]

FamilyNext ==
  \E q \in Query :
    \/ FamilyReserve(q)
    \/ \E o \in Observation : FamilySettle(q, o)
    \/ FamilyRelease(q)

FamilySpec == FamilyInit /\ [][FamilyNext]_familyVars
=============================================================================

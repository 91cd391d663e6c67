--------------------------- MODULE OrdinalRootHead ---------------------------
(***************************************************************************)
(* Settlement of exposure against the root of a family, in three profiles  *)
(* (internal/control/exposure.go, ordinal_exposure.go,                     *)
(* ordinal_exposure_v5.go, the retry loop of result.go).                   *)
(*                                                                         *)
(* A finalizing transaction is READ COMMITTED: each of its statements sees *)
(* what was committed when the statement began.  In V1 to V3 it locks the  *)
(* family's ledger row, counts the facts that have no row yet, and adds    *)
(* them.  In V4 and V5 it reads the head row without locking it, computes  *)
(* the novelty of its observation against that copy, and advances the head *)
(* with an UPDATE conditional on the epoch.  The UPDATE and the insert of  *)
(* the family's record of the observation wait for uncommitted writers of  *)
(* the same row and hold their rows until the transaction ends; all        *)
(* effects appear at its commit.  A lost race rolls everything back and    *)
(* starts over, MaxAttempts times.                                         *)
(***************************************************************************)
EXTENDS ExposureFacts, Sequences, Functions

CONSTANT MaxAttempts   \* ordinalCASMaxAttempts

ASSUME HeadAssumption == MaxAttempts \in Nat \ {0} /\ "nobody" \notin Query

VARIABLES
  profile,    \* profile of the root's grant: "V3" (for V1 to V3), "V4" or "V5"; never changes
  head,       \* committed ledger or head row: epoch, counters, and the sets it refers to
  seen,       \* observation -> epoch of its committed root_observations row, or Absent
  res,        \* query -> exposure reservation row
  tx,         \* query -> its finalizing transaction
  headLock,   \* the open transaction that has updated the head row, or Nobody
  seenLock,   \* observation -> the open transaction that has inserted its row, or Nobody
  shownAt     \* epoch -> facts of the head at that epoch (history)

vars == <<profile, head, seen, res, tx, headLock, seenLock, shownAt>>

Absent == -1
Nobody == "nobody"
NoObservation == "no observation"
EmptyHead == [epoch |-> 0, used |-> NoCharge, facts |-> [d \in Dim |-> {}]]
NoTx == [pc |-> "none", obs |-> NoObservation, snap |-> EmptyHead, delta |-> NoCharge,
         epoch |-> 0, tries |-> 0, began |-> 0]
NoReservation == [status |-> "NONE", charged |-> NoCharge, obs |-> NoObservation, epoch |-> 0]

At(q, pc) == tx[q].pc = pc
Goto(q, pc) == tx' = [tx EXCEPT ![q].pc = pc]

\* The end of a transaction, either way, frees its rows.
FreeSeenOnly(q) ==   \* mutant
  /\ UNCHANGED headLock
  /\ seenLock' = [o \in Observation |-> IF seenLock[o] = q THEN Nobody ELSE seenLock[o]]
FreeLocks(q) ==
  /\ headLock' = IF headLock = q THEN Nobody ELSE headLock
  /\ seenLock' = [o \in Observation |-> IF seenLock[o] = q THEN Nobody ELSE seenLock[o]]
-----------------------------------------------------------------------------
Reserve(q) ==
  /\ res[q].status = "NONE"
  /\ res' = [res EXCEPT ![q].status = "RESERVED"]
  /\ UNCHANGED <<profile, head, seen, tx, headLock, seenLock, shownAt>>

\* The query has run and its observation is derived; the first attempt begins.
Start(q, o) ==
  /\ res[q].status = "RESERVED" /\ At(q, "none")
  /\ tx' = [tx EXCEPT ![q] = [NoTx EXCEPT !.pc = "read", !.obs = o, !.began = head.epoch]]
  /\ UNCHANGED <<profile, head, seen, res, headLock, seenLock, shownAt>>

\* Semantic replay settles a reference to an observation the family has committed:
\* one joined statement reads its row and the head, nothing is charged, no row of the
\* family is locked.
StartReplay(q, o) ==
  /\ profile # "V3"
  /\ res[q].status = "RESERVED" /\ At(q, "none")
  /\ tx' = [tx EXCEPT ![q] = [NoTx EXCEPT !.pc = IF seen[o] \in 0 .. head.epoch THEN "commit" ELSE "failed",
                                          !.obs = o, !.epoch = head.epoch]]
  /\ UNCHANGED <<profile, head, seen, res, headLock, seenLock, shownAt>>

\* V1 to V3 lock the ledger row first, then store the facts that have no row yet and
\* check their number against the counters read under the lock.
CopyLedger(q) ==   \* mutant
  /\ profile = "V3" /\ At(q, "read") /\ headLock = Nobody
  /\ tx' = [tx EXCEPT ![q].pc = "count", ![q].snap = head]
  /\ UNCHANGED <<profile, head, seen, res, headLock, seenLock, shownAt>>
LockLedger(q) ==
  /\ profile = "V3" /\ At(q, "read") /\ headLock = Nobody
  /\ headLock' = q
  /\ tx' = [tx EXCEPT ![q].pc = "count", ![q].snap = head]
  /\ UNCHANGED <<profile, head, seen, res, seenLock, shownAt>>

InsertNovelFacts(q) ==
  LET new == Novelty(tx[q].obs, head.facts)
  IN  /\ At(q, "count")
      /\ Fits(TaskOf[q], tx[q].snap.used, new)
      /\ tx' = [tx EXCEPT ![q].delta = new, ![q].pc = "commit"]
      /\ UNCHANGED <<profile, head, seen, res, headLock, seenLock, shownAt>>
RefuseFacts(q) ==
  /\ At(q, "count")
  /\ ~Fits(TaskOf[q], tx[q].snap.used, Novelty(tx[q].obs, head.facts))
  /\ Goto(q, "failed")
  /\ FreeLocks(q)
  /\ UNCHANGED <<profile, head, seen, res, shownAt>>

ReadHead(q) ==
  /\ profile # "V3" /\ At(q, "read")
  /\ tx' = [tx EXCEPT ![q].pc = "look", ![q].snap = head, ![q].epoch = head.epoch]
  /\ UNCHANGED <<profile, head, seen, res, headLock, seenLock, shownAt>>

\* V4 looks first whether the family has committed the same observation: it is free
\* then, once the epoch is read again.
LookSeen(q) ==
  /\ At(q, "look")
  /\ profile = "V4" /\ seen[tx[q].obs] # Absent
  /\ Goto(q, "reread")
  /\ UNCHANGED <<profile, head, seen, res, headLock, seenLock, shownAt>>

\* The novelty is counted against the copy of the head, and checked against the
\* counters of the same copy.
Derive(q) ==
  LET new == Novelty(tx[q].obs, tx[q].snap.facts)
  IN  /\ At(q, "look")
      /\ profile = "V4" => seen[tx[q].obs] = Absent
      /\ Fits(TaskOf[q], tx[q].snap.used, new)
      /\ tx' = [tx EXCEPT ![q].delta = new,
                          ![q].pc = IF new # NoCharge THEN "update"
                                    ELSE IF profile = "V4" THEN "insert" ELSE "rereadFirst"]
      /\ UNCHANGED <<profile, head, seen, res, headLock, seenLock, shownAt>>

\* ErrExposureBudgetExhausted
Refuse(q) ==
  /\ At(q, "look")
  /\ profile = "V4" => seen[tx[q].obs] = Absent
  /\ ~Fits(TaskOf[q], tx[q].snap.used, Novelty(tx[q].obs, tx[q].snap.facts))
  /\ Goto(q, "failed")
  /\ FreeLocks(q)
  /\ UNCHANGED <<profile, head, seen, res, shownAt>>

\* ErrOrdinalCASConflict: the transaction rolls back and the next attempt begins.
Conflict(q) ==
  /\ tx' = [tx EXCEPT ![q].pc = IF tx[q].tries + 1 < MaxAttempts THEN "read" ELSE "failed",
                      ![q].tries = @ + 1, ![q].delta = NoCharge]
  /\ FreeLocks(q)

\* The conditional UPDATE: it waits for the row, then tests the newest version.
MatchIgnoresEpoch(q) ==   \* mutant
  \A d \in Dim : head.used[d] + tx[q].delta[d] <= RootLimit[d]
MatchNextEpoch(q) ==   \* mutant
  /\ head.epoch = tx[q].snap.epoch + 1
  /\ \A d \in Dim : head.used[d] + tx[q].delta[d] <= RootLimit[d]
Match(q) ==
  /\ head.epoch = tx[q].snap.epoch
  /\ \A d \in Dim : head.used[d] + tx[q].delta[d] <= RootLimit[d]

UpdateHead(q) ==
  /\ At(q, "update") /\ headLock = Nobody
  /\ IF Match(q)
     THEN /\ headLock' = q
          /\ tx' = [tx EXCEPT ![q].pc = "insert", ![q].epoch = tx[q].snap.epoch + 1]
          /\ UNCHANGED seenLock
     ELSE Conflict(q)
  /\ UNCHANGED <<profile, head, seen, res, shownAt>>

\* INSERT ... ON CONFLICT DO NOTHING into root_observations waits for an open insert
\* of the same row.
InsertSeen(q) ==
  LET o == tx[q].obs
  IN  /\ At(q, "insert") /\ seenLock[o] = Nobody
      /\ \/ /\ seen[o] = Absent
            /\ seenLock' = [seenLock EXCEPT ![o] = q]
            /\ Goto(q, "commit")
            /\ UNCHANGED headLock
         \/ /\ seen[o] # Absent
            /\ IF profile = "V4" /\ tx[q].delta # NoCharge THEN Conflict(q)
               ELSE /\ Goto(q, IF profile = "V4" THEN "reread" ELSE "commit")
                    /\ UNCHANGED <<headLock, seenLock>>
      /\ UNCHANGED <<profile, head, seen, res, shownAt>>

RereadSkipped(q) ==   \* mutant
  /\ At(q, "reread") \/ At(q, "rereadFirst")
  /\ Goto(q, IF At(q, "reread") THEN "commit" ELSE "insert")
  /\ UNCHANGED <<profile, head, seen, res, headLock, seenLock, shownAt>>
Reread(q) ==
  /\ At(q, "reread") \/ At(q, "rereadFirst")
  /\ tx' = [tx EXCEPT ![q].epoch = head.epoch,
                      ![q].pc = IF At(q, "reread") THEN "commit" ELSE "insert"]
  /\ UNCHANGED <<profile, head, seen, res, headLock, seenLock, shownAt>>

\* The counters grow by the delta; the sets are replaced by the merged ones.
Commit(q) ==
  LET won == headLock = q
      advanced == [epoch |-> head.epoch + 1, used |-> Sum(head.used, tx[q].delta),
                   facts |-> Merge(tx[q].obs, tx[q].snap.facts)]
  IN  /\ At(q, "commit")
      /\ head' = IF won THEN advanced ELSE head
      /\ shownAt' = IF won THEN Append(shownAt, advanced.facts) ELSE shownAt
      /\ seen' = [o \in Observation |-> IF seenLock[o] = q THEN tx[q].epoch ELSE seen[o]]
      /\ res' = [res EXCEPT ![q] = [status |-> "SETTLED", charged |-> tx[q].delta,
                                    obs |-> tx[q].obs, epoch |-> tx[q].epoch]]
      /\ tx' = [tx EXCEPT ![q] = NoTx]
      /\ FreeLocks(q)
      /\ UNCHANGED profile

\* A failed statement, an expired context or a crash rolls the transaction back.
Abort(q) ==
  /\ tx[q].pc \notin {"none", "failed"}
  /\ Goto(q, "failed")
  /\ FreeLocks(q)
  /\ UNCHANGED <<profile, head, seen, res, shownAt>>

\* Every failure ends in a release of the reservation, which waits for the row of a
\* transaction still open.
Release(q) ==
  /\ res[q].status = "RESERVED" /\ tx[q].pc \in {"none", "failed"}
  /\ res' = [res EXCEPT ![q].status = "RELEASED"]
  /\ tx' = [tx EXCEPT ![q] = NoTx]
  /\ UNCHANGED <<profile, head, seen, headLock, seenLock, shownAt>>
-----------------------------------------------------------------------------
Init ==
  /\ profile \in {"V3", "V4", "V5"}
  /\ head = EmptyHead
  /\ seen = [o \in Observation |-> Absent]
  /\ res = [q \in Query |-> NoReservation]
  /\ tx = [q \in Query |-> NoTx]
  /\ headLock = Nobody
  /\ seenLock = [o \in Observation |-> Nobody]
  /\ shownAt = <<EmptyHead.facts>>

Next ==
  \E q \in Query :
    \/ Reserve(q)
    \/ \E o \in Observation : Start(q, o)
    \/ \E o \in Observation : StartReplay(q, o)
    \/ LockLedger(q)
    \/ InsertNovelFacts(q)
    \/ RefuseFacts(q)
    \/ ReadHead(q)
    \/ LookSeen(q)
    \/ Derive(q)
    \/ Refuse(q)
    \/ UpdateHead(q)
    \/ InsertSeen(q)
    \/ Reread(q)
    \/ Commit(q)
    \/ Abort(q)
    \/ Release(q)

Spec == Init /\ [][Next]_vars

\* A transaction that can go on goes on, and a query whose finalization failed is
\* released by its worker.
Fairness ==
  \A q \in Query :
    /\ WF_vars(\/ InsertNovelFacts(q) \/ RefuseFacts(q) \/ ReadHead(q) \/ LookSeen(q)
               \/ Derive(q) \/ Refuse(q) \/ Reread(q) \/ Commit(q))
    /\ WF_vars(LockLedger(q) \/ UpdateHead(q))
    /\ WF_vars(InsertSeen(q))
    /\ WF_vars(At(q, "failed") /\ Release(q))

FairSpec == Spec /\ Fairness
-----------------------------------------------------------------------------
\* The root's row and the reservations are a family exposure ledger in every profile:
\* although V4 and V5 count novelty against an unlocked, possibly stale copy, every commit charges exactly
\* what was new at that moment, in all dimensions together, within every limit.
Family == INSTANCE FamilyExposure WITH
  facts <- head.facts,
  used <- head.used,
  status <- [q \in Query |-> res[q].status],
  charged <- [q \in Query |-> res[q].charged]
RefinesFamily == Family!FamilySpec

\* Every fact is charged to exactly one query of the family: the counter of a dimension
\* is the number of facts shown, within the limit of the root, and the sum of the
\* queries' charges, and a query that did not settle is charged nothing (the counters
\* are kept by increments, the sets by unions).
FactsChargedOnce ==
  /\ \A d \in Dim :
       /\ head.used[d] = Cardinality(head.facts[d]) /\ head.used[d] <= RootLimit[d]
       /\ head.used[d] = SumFunctionOnSet([q \in Query |-> res[q].charged[d]], Query)
  /\ \A q \in Query : res[q].status # "SETTLED" => res[q].charged = NoCharge

\* The root epoch a settled query refers to already contains the facts it showed, and
\* in V4 it is not earlier than the epoch under which the family recorded the
\* observation first (ordinal_exposure.go:806: "the per-query reference never predates
\* the observation's atomic root transition").
EpochCovers ==
  profile # "V3" => \A q \in Query : res[q].status = "SETTLED" =>
    LET o == res[q].obs
        e == res[q].epoch
    IN  /\ e <= head.epoch
        /\ \A d \in Dim : FactsOf[o][d] \subseteq shownAt[e + 1][d]
        /\ seen[o] # Absent
        /\ profile = "V4" => seen[o] <= e

\* A lost race is always somebody else's progress: the head advanced at least once
\* since the query's finalization began for every attempt it lost, so the attempts of
\* a query run out only while its family charges others.
LostRaceIsProgress ==
  \A q \in Query : tx[q].pc # "none" => tx[q].tries <= head.epoch - tx[q].began

\* Every finalization that begins ends: settled, or failed and released.  No
\* transaction waits for ever for the rows of another one.
FinalizationEnds ==
  \A q \in Query : tx[q].pc # "none" ~> res[q].status \in {"SETTLED", "RELEASED"}
=============================================================================

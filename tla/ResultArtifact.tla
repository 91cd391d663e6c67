---------------------------- MODULE ResultArtifact ---------------------------
(***************************************************************************)
(* The life of a query's result as an encrypted Parquet object, from the   *)
(* private staging object through the settlement that commits a PENDING    *)
(* row and the promotion to the canonical object to its deletion           *)
(* (internal/gateway/result_artifact.go, internal/resultartifact/          *)
(* artifact.go, internal/control/result_artifact.go and result.go).        *)
(*                                                                         *)
(* Control PostgreSQL and the object store share no transaction.  The      *)
(* query's worker, readers that replay a result, the recovery pass, the    *)
(* staging cleanup and retention purges all act on the same row and        *)
(* objects, one store call at a time; any call may fail, the gateway may   *)
(* crash, and a COMMIT may be left in doubt.                               *)
(***************************************************************************)
EXTENDS Integers, FiniteSets

CONSTANTS
  Result,      \* results, one per query; also names the query's worker
  Task,        \* tasks
  TaskOf,      \* result -> task
  Reader,      \* callers that replay or read a result
  Purger,      \* retention purges in progress (TTL sweep, administrator)
  MaxCrashes   \* bound on crashes of the gateway

ASSUME ArtifactAssumption ==
  /\ TaskOf \in [Result -> Task]
  /\ MaxCrashes \in Nat
  /\ IsFiniteSet(Result) /\ Result \cap Reader = {}
  /\ "reconciler" \notin Result \cup Reader /\ "no result" \notin Result

VARIABLES
  query,      \* result -> status of its query record
  row,        \* result -> status of its result_artifacts row, or NONE
  staging,    \* results with a staging object
  object,     \* results with a canonical object
  key,        \* status of the result encryption key
  held,       \* tasks under an active retention hold
  doubt,      \* results whose finalizing COMMIT is undecided
  proc,       \* worker, reader or recovery pass -> where it is, and on which result
  pass,       \* the recovery pass: what it has listed, and its failures so far
  failures,   \* Service.artifactRecoveryFailures
  purger,     \* purge -> where it is, and on which result
  cleaner,    \* the staging cleanup: where it is, and on which result
  up, crashes,
  healthy,    \* the object store and PostgreSQL have stopped failing
  consumed    \* result -> number of QUERY_RESULT_CONSUMED events

env == <<up, crashes, healthy>>
store == <<query, row, staging, object, key, held, doubt, consumed>>
vars == <<query, row, staging, object, key, held, doubt, proc, pass, failures, purger, cleaner,
          up, crashes, healthy, consumed>>

NoResult == "no result"
Reconciler == "reconciler"
Promoter == Result \cup Reader \cup {Reconciler}
Idle == [pc |-> "idle", result |-> NoResult]
NoPass == [phase |-> "off", todo |-> {}, failed |-> 0]
NewPass == [NoPass EXCEPT !.phase = "starting"]

Goto(p, pc) == proc' = [proc EXCEPT ![p].pc = pc]
Of(p) == proc[p].result
At(p, pc) == up /\ proc[p].pc = pc

\* A best-effort deletion of a staging object, whose error is ignored.
Dropped(r) == staging' = staging \ {r} \/ (~healthy /\ UNCHANGED staging)
-----------------------------------------------------------------------------
(* The worker of a query, from the staged object to the settlement.        *)

\* A failed Put may have stored the object all the same.
Stage(r) ==
  /\ At(r, "stage")
  /\ \/ staging' = staging \cup {r} /\ Goto(r, "finalize")
     \/ ~healthy /\ staging' \in {staging, staging \cup {r}} /\ Goto(r, "fail")
  /\ UNCHANGED <<query, row, object, key, held, doubt, pass, failures, purger, cleaner, env,
                 consumed>>

\* Settlement and PENDING row are one transaction, which needs the key active.
Finalize(r) ==
  /\ At(r, "finalize") /\ key = "ACTIVE"
  /\ query' = [query EXCEPT ![r] = "COMPLETED"]
  /\ row' = [row EXCEPT ![r] = "PENDING"]
  /\ Goto(r, "statObject")
  /\ UNCHANGED <<staging, object, key, held, doubt, pass, failures, purger, cleaner, env,
                 consumed>>

\* A refused settlement is rolled back; its staging object is dropped, best effort.
FinalizeRefused(r) ==
  /\ At(r, "finalize")
  /\ Dropped(r)
  /\ Goto(r, "recheck")
  /\ UNCHANGED <<query, row, object, key, held, doubt, pass, failures, purger, cleaner, env,
                 consumed>>

\* ErrCommitOutcomeUnknown keeps the staging object: the intent may be committed.
FinalizeInDoubt(r) ==
  /\ At(r, "finalize") /\ key = "ACTIVE" /\ ~healthy
  /\ doubt' = doubt \cup {r}
  /\ Goto(r, "recheck")
  /\ UNCHANGED <<query, row, staging, object, key, held, pass, failures, purger, cleaner, env,
                 consumed>>

ServerCommits(r) ==
  /\ r \in doubt
  /\ doubt' = doubt \ {r}
  /\ query' = [query EXCEPT ![r] = "COMPLETED"]
  /\ row' = [row EXCEPT ![r] = "PENDING"]
  /\ UNCHANGED <<staging, object, key, held, proc, pass, failures, purger, cleaner, env,
                 consumed>>
ServerAborts(r) ==
  /\ r \in doubt
  /\ doubt' = doubt \ {r}
  /\ UNCHANGED <<query, row, staging, object, key, held, proc, pass, failures, purger, cleaner, env,
                 consumed>>

\* After an error the worker reads the query again: a committed settlement is promoted,
\* anything it cannot confirm is settled as failed.  A completed query whose row cannot
\* be read is reported as unfinished.
Recheck(r) ==
  /\ At(r, "recheck")
  /\ Goto(r, IF query[r] = "COMPLETED" /\ row[r] = "PENDING" THEN "statObject"
             ELSE IF query[r] = "RESERVED" THEN "fail" ELSE "idle")
  /\ UNCHANGED <<store, pass, failures, purger, cleaner, env>>
RecheckUnreadable(r) ==
  /\ At(r, "recheck") /\ ~healthy
  /\ Goto(r, "fail")
  /\ UNCHANGED <<store, pass, failures, purger, cleaner, env>>

RecheckStrands(r) ==
  /\ At(r, "recheck") /\ query[r] = "COMPLETED" /\ ~healthy
  /\ Goto(r, "idle")
  /\ failures' = 1
  /\ UNCHANGED <<store, pass, purger, cleaner, env>>

\* failQueryBudget waits for the rows of an undecided COMMIT and yields to its outcome.
Fail(r) ==
  /\ At(r, "fail") /\ r \notin doubt
  /\ query' = [query EXCEPT ![r] = IF @ = "RESERVED" THEN "FAILED" ELSE @]
  /\ Goto(r, "idle")
  /\ UNCHANGED <<row, staging, object, key, held, doubt, pass, failures, purger, cleaner, env,
                 consumed>>
-----------------------------------------------------------------------------
(* Promotion, by the worker, a reader or the recovery pass.                *)

\* A replay or a read of a result finds its row PENDING.
ReadPending(p, r) ==
  /\ p \in Reader /\ At(p, "idle")
  /\ row[r] = "PENDING"
  /\ proc' = [proc EXCEPT ![p] = [pc |-> "statObject", result |-> r]]
  /\ UNCHANGED <<store, pass, failures, purger, cleaner, env>>

StatObject(p) ==
  /\ At(p, "statObject")
  /\ Goto(p, IF Of(p) \in object THEN "dropStaging" ELSE "readStaging")
  /\ UNCHANGED <<store, pass, failures, purger, cleaner, env>>

\* The staging object is read through before the copy is committed.
ReadStaging(p) ==
  /\ At(p, "readStaging") /\ Of(p) \in staging
  /\ Goto(p, "createObject")
  /\ UNCHANGED <<store, pass, failures, purger, cleaner, env>>

\* The conditional commit creates the canonical object or finds it there.
CreateObject(p) ==
  /\ At(p, "createObject")
  /\ object' = object \cup {Of(p)}
  /\ Goto(p, "dropStaging")
  /\ UNCHANGED <<query, row, staging, key, held, doubt, pass, failures, purger, cleaner, env,
                 consumed>>

DropStaging(p) ==
  /\ At(p, "dropStaging")
  /\ Dropped(Of(p))
  /\ Goto(p, "markAvailable")
  /\ UNCHANGED <<query, row, object, key, held, doubt, pass, failures, purger, cleaner, env,
                 consumed>>

MarkAgain(p) ==   \* mutant
  LET r == Of(p)
  IN  /\ At(p, "markAvailable")
      /\ row[r] \in {"PENDING", "AVAILABLE"} /\ key = "ACTIVE"
      /\ row' = [row EXCEPT ![r] = "AVAILABLE"]
      /\ consumed' = [consumed EXCEPT ![r] = @ + 1]
      /\ proc' = [proc EXCEPT ![p] = Idle]
      /\ UNCHANGED <<query, staging, object, key, held, doubt, pass, failures, purger, cleaner, env>>
MarkAvailable(p) ==
  LET r == Of(p)
  IN  /\ At(p, "markAvailable")
      /\ \/ /\ row[r] = "PENDING" /\ key = "ACTIVE"
            /\ row' = [row EXCEPT ![r] = "AVAILABLE"]
            /\ consumed' = [consumed EXCEPT ![r] = @ + 1]
         \/ /\ row[r] = "AVAILABLE"
            /\ UNCHANGED <<row, consumed>>
      /\ proc' = [proc EXCEPT ![p] = Idle]
      /\ UNCHANGED <<query, staging, object, key, held, doubt, pass, failures, purger, cleaner, env>>

\* An unfinished promotion: the worker closes the readiness of the gateway, the recovery
\* pass counts the failure and goes on.
Report(p) ==
  /\ proc' = [proc EXCEPT ![p] = Idle]
  /\ failures' = IF p \in Result THEN 1 ELSE failures
  /\ pass' = IF p = Reconciler THEN [pass EXCEPT !.failed = @ + 1] ELSE pass

\* A store call of the promotion fails, or finds what stops it.
PromotionFails(p) ==
  /\ up /\ \/ At(p, "readStaging") /\ (~healthy \/ Of(p) \notin staging)
           \/ At(p, "dropStaging") /\ (~healthy \/ Of(p) \notin object)
           \/ At(p, "markAvailable") /\ (~healthy \/ row[Of(p)] \notin {"PENDING", "AVAILABLE"})
           \/ proc[p].pc \in {"statObject", "createObject"} /\ ~healthy
  /\ Report(p)
  /\ UNCHANGED <<store, purger, cleaner, env>>

\* The row is marked, and the answer to the COMMIT is lost.
MarkLost(p) ==
  /\ At(p, "markAvailable") /\ row[Of(p)] = "PENDING" /\ key = "ACTIVE" /\ ~healthy
  /\ row' = [row EXCEPT ![Of(p)] = "AVAILABLE"]
  /\ consumed' = [consumed EXCEPT ![Of(p)] = @ + 1]
  /\ Report(p)
  /\ UNCHANGED <<query, staging, object, key, held, doubt, purger, cleaner, env>>

\* ReconcilePendingArtifacts: list the pending rows, promote them one by one, publish
\* the number of failures.
PassStarts ==
  /\ up /\ pass.phase = "off"
  /\ pass' = NewPass
  /\ UNCHANGED <<store, proc, failures, purger, cleaner, env>>
PassLists ==
  /\ up /\ pass.phase = "starting"
  /\ \/ pass' = [phase |-> "promoting", todo |-> {r \in Result : row[r] = "PENDING"}, failed |-> 0]
     \/ ~healthy /\ pass' = [phase |-> "promoting", todo |-> {}, failed |-> 1]
  /\ UNCHANGED <<store, proc, failures, purger, cleaner, env>>
PassTakes(r) ==
  /\ At(Reconciler, "idle") /\ r \in pass.todo
  /\ proc' = [proc EXCEPT ![Reconciler] = [pc |-> "statObject", result |-> r]]
  /\ pass' = [pass EXCEPT !.todo = @ \ {r}]
  /\ UNCHANGED <<store, failures, purger, cleaner, env>>
PassEnds ==
  /\ At(Reconciler, "idle") /\ pass.phase = "promoting" /\ pass.todo = {}
  /\ failures' = pass.failed
  /\ pass' = NoPass
  /\ UNCHANGED <<store, proc, purger, cleaner, env>>
-----------------------------------------------------------------------------
(* Cleanup of staging objects that no committed intent refers to.          *)

CleanerTakes(r) ==
  /\ up /\ cleaner = Idle /\ r \in staging
  /\ cleaner' = [pc |-> "lookRow", result |-> r]
  /\ UNCHANGED <<store, proc, pass, failures, purger, env>>

CleanerLooksRow ==
  /\ up /\ cleaner.pc = "lookRow"
  /\ cleaner' = CASE row[cleaner.result] = "PENDING" -> Idle
                  [] row[cleaner.result] = "NONE" -> [cleaner EXCEPT !.pc = "lookQuery"]
                  [] OTHER -> [cleaner EXCEPT !.pc = "delete"]
  /\ UNCHANGED <<store, proc, pass, failures, purger, env>>

\* The query is read after the row: completed here means the row is just committed.
CleanerKeepsReserved ==   \* mutant
  /\ up /\ cleaner.pc = "lookQuery"
  /\ cleaner' = IF query[cleaner.result] = "RESERVED" THEN Idle
                ELSE [cleaner EXCEPT !.pc = "delete"]
  /\ UNCHANGED <<store, proc, pass, failures, purger, env>>
CleanerLooksQuery ==
  /\ up /\ cleaner.pc = "lookQuery"
  /\ cleaner' = IF query[cleaner.result] \in {"RESERVED", "COMPLETED"} THEN Idle
                ELSE [cleaner EXCEPT !.pc = "delete"]
  /\ UNCHANGED <<store, proc, pass, failures, purger, env>>

CleanerForgets ==   \* mutant
  /\ up /\ cleaner.pc = "delete"
  /\ cleaner' = Idle
  /\ UNCHANGED <<store, proc, pass, failures, purger, env>>
CleanerDeletes ==
  /\ up /\ cleaner.pc = "delete"
  /\ staging' = staging \ {cleaner.result}
  /\ cleaner' = Idle
  /\ UNCHANGED <<query, row, object, key, held, doubt, proc, pass, failures, purger, env,
                 consumed>>
CleanerFails ==
  /\ up /\ cleaner # Idle /\ ~healthy
  /\ cleaner' = Idle
  /\ UNCHANGED <<store, proc, pass, failures, purger, env>>
-----------------------------------------------------------------------------
(* Retention: purges, holds and the erasure of the key.                    *)

\* The list leaves out tasks under hold; a row already DELETING is taken up again.
PurgeTakesAvailable(g, r) ==   \* mutant
  /\ up /\ purger[g] = Idle
  /\ row[r] = "AVAILABLE" /\ TaskOf[r] \notin held
  /\ purger' = [purger EXCEPT ![g] = [pc |-> "claim", result |-> r]]
  /\ UNCHANGED <<store, proc, pass, failures, cleaner, env>>
PurgeTakes(g, r) ==
  /\ up /\ purger[g] = Idle
  /\ row[r] \in {"AVAILABLE", "DELETING"} /\ TaskOf[r] \notin held
  /\ purger' = [purger EXCEPT ![g] = [pc |-> IF row[r] = "AVAILABLE" THEN "claim" ELSE "delete",
                                      result |-> r]]
  /\ UNCHANGED <<store, proc, pass, failures, cleaner, env>>

\* The claim looks at the hold again, under the lock of the task row.
Claimable(r) == row[r] = "DELETING" \/ (row[r] = "AVAILABLE" /\ TaskOf[r] \notin held)
PurgeClaimsListed(g) ==   \* mutant
  LET r == purger[g].result
  IN  /\ up /\ purger[g].pc = "claim"
      /\ row[r] \in {"AVAILABLE", "DELETING"}
      /\ row' = [row EXCEPT ![r] = "DELETING"]
      /\ purger' = [purger EXCEPT ![g].pc = "delete"]
      /\ UNCHANGED <<query, staging, object, key, held, doubt, proc, pass, failures, cleaner, env,
                     consumed>>
PurgeClaims(g) ==
  LET r == purger[g].result
  IN  /\ up /\ purger[g].pc = "claim"
      /\ Claimable(r)
      /\ row' = [row EXCEPT ![r] = "DELETING"]
      /\ purger' = [purger EXCEPT ![g].pc = "delete"]
      /\ UNCHANGED <<query, staging, object, key, held, doubt, proc, pass, failures, cleaner, env,
                     consumed>>

PurgeDeletes(g) ==
  /\ up /\ purger[g].pc = "delete"
  /\ object' = object \ {purger[g].result}
  /\ purger' = [purger EXCEPT ![g].pc = "dropStaging"]
  /\ UNCHANGED <<query, row, staging, key, held, doubt, proc, pass, failures, cleaner, env,
                 consumed>>
PurgeDropsStaging(g) ==
  /\ up /\ purger[g].pc = "dropStaging"
  /\ Dropped(purger[g].result)
  /\ purger' = [purger EXCEPT ![g].pc = "tombstone"]
  /\ UNCHANGED <<query, row, object, key, held, doubt, proc, pass, failures, cleaner, env,
                 consumed>>
PurgeTombstones(g) ==
  LET r == purger[g].result
  IN  /\ up /\ purger[g].pc = "tombstone" /\ row[r] \in {"DELETING", "DELETED"}
      /\ row' = [row EXCEPT ![r] = "DELETED"]
      /\ purger' = [purger EXCEPT ![g] = Idle]
      /\ UNCHANGED <<query, staging, object, key, held, doubt, proc, pass, failures, cleaner, env,
                     consumed>>
PurgeFails(g) ==
  /\ up /\ purger[g] # Idle
  /\ ~healthy \/ (purger[g].pc = "claim" /\ ~Claimable(purger[g].result))
  /\ purger' = [purger EXCEPT ![g] = Idle]
  /\ UNCHANGED <<store, proc, pass, failures, cleaner, env>>

SetHold(t) ==
  /\ up /\ \A r \in Result : TaskOf[r] = t => row[r] # "DELETING"
  /\ held' = held \cup {t}
  /\ UNCHANGED <<query, row, staging, object, key, doubt, proc, pass, failures, purger, cleaner, env,
                 consumed>>
ClearHold(t) ==
  /\ up /\ t \in held
  /\ held' = held \ {t}
  /\ UNCHANGED <<query, row, staging, object, key, doubt, proc, pass, failures, purger, cleaner, env,
                 consumed>>

\* The erasure locks the key row, which an undecided settlement holds shared.
EraseKey ==
  /\ up /\ key = "ACTIVE" /\ doubt = {}
  /\ \A r \in Result : row[r] # "PENDING"
  /\ key' = "ERASED"
  /\ UNCHANGED <<query, row, staging, object, held, doubt, proc, pass, failures, purger, cleaner, env,
                 consumed>>
-----------------------------------------------------------------------------
Crash ==
  /\ up /\ crashes < MaxCrashes
  /\ up' = FALSE
  /\ crashes' = crashes + 1
  /\ proc' = [p \in Promoter |-> Idle]
  /\ pass' = NoPass
  /\ failures' = 0
  /\ purger' = [g \in Purger |-> Idle]
  /\ cleaner' = Idle
  /\ UNCHANGED <<store, healthy>>

Heal ==
  /\ ~healthy
  /\ healthy' = TRUE
  /\ UNCHANGED <<store, proc, pass, failures, purger, cleaner, up, crashes>>

\* Recovery settles what was reserved, behind the locks of undecided transactions; the
\* gateway is not ready before its first pass.
Restart ==
  /\ ~up /\ doubt = {}
  /\ up' = TRUE
  /\ query' = [r \in Result |-> IF query[r] = "RESERVED" THEN "FAILED" ELSE query[r]]
  /\ pass' = NewPass
  /\ UNCHANGED <<row, staging, object, key, held, doubt, proc, failures, purger, cleaner, crashes, healthy,
                 consumed>>

Init ==
  /\ query = [r \in Result |-> "RESERVED"]
  /\ row = [r \in Result |-> "NONE"]
  /\ staging = {} /\ object = {} /\ held = {} /\ doubt = {}
  /\ key = "ACTIVE"
  /\ proc = [p \in Promoter |-> IF p \in Result THEN [pc |-> "stage", result |-> p] ELSE Idle]
  /\ pass = NoPass
  /\ failures = 0
  /\ purger = [g \in Purger |-> Idle]
  /\ cleaner = Idle
  /\ up = TRUE /\ crashes = 0 /\ healthy = FALSE
  /\ consumed = [r \in Result |-> 0]

Worker(r) ==
  \/ Stage(r) \/ Finalize(r) \/ FinalizeRefused(r) \/ FinalizeInDoubt(r)
  \/ Recheck(r) \/ RecheckUnreadable(r) \/ RecheckStrands(r) \/ Fail(r)
Promote(p) ==
  \/ StatObject(p) \/ ReadStaging(p) \/ CreateObject(p) \/ DropStaging(p) \/ MarkAvailable(p)
Purge(g) ==
  \/ PurgeClaims(g) \/ PurgeDeletes(g) \/ PurgeDropsStaging(g) \/ PurgeTombstones(g)

Next ==
  \/ \E r \in Result : Worker(r) \/ ServerCommits(r) \/ ServerAborts(r)
  \/ \E p \in Promoter : Promote(p) \/ MarkLost(p) \/ PromotionFails(p)
  \/ \E p \in Reader, r \in Result : ReadPending(p, r)
  \/ PassStarts \/ PassLists \/ PassEnds
  \/ \E r \in Result : PassTakes(r) \/ CleanerTakes(r)
  \/ CleanerLooksRow \/ CleanerLooksQuery \/ CleanerDeletes \/ CleanerFails
  \/ \E g \in Purger : Purge(g) \/ PurgeFails(g) \/ \E r \in Result : PurgeTakes(g, r)
  \/ \E t \in Task : SetHold(t) \/ ClearHold(t)
  \/ EraseKey \/ Crash \/ Restart \/ Heal

Spec == Init /\ [][Next]_vars

\* The passes and sweeps run for ever (sweepPendingResultArtifacts every five seconds,
\* sweepOrphanResultStaging every hour, over all staging objects, the retention sweep on
\* its ticker), every store call returns, and the stores stop failing some time.
Pass == \/ PassStarts \/ PassLists \/ PassEnds \/ \E r \in Result : PassTakes(r)
        \/ Promote(Reconciler) \/ PromotionFails(Reconciler)
Cleanup == CleanerLooksRow \/ CleanerLooksQuery \/ CleanerDeletes
Fairness ==
  /\ \A r \in Result : /\ WF_vars(Worker(r)) /\ WF_vars(ServerCommits(r) \/ ServerAborts(r))
                      /\ SF_vars(CleanerTakes(r))
  /\ WF_vars(Pass) /\ WF_vars(Cleanup)
  /\ \A g \in Purger : /\ WF_vars(Purge(g) \/ PurgeFails(g))
                       /\ \A r \in Result : WF_vars(row[r] = "DELETING" /\ PurgeTakes(g, r))
  /\ WF_vars(Restart) /\ WF_vars(Heal)

FairSpec == Spec /\ Fairness
-----------------------------------------------------------------------------
\* A settled result can always be published: while its row is PENDING, or its COMMIT is
\* in doubt, the staging object or the canonical object exists and the key is active,
\* whatever the worker, the cleanup, purges and other promotions did.
PendingIsRecoverable ==
  \A r \in Result : row[r] = "PENDING" \/ r \in doubt =>
    r \in staging \cup object /\ key = "ACTIVE"

\* A result that is AVAILABLE has its canonical object, and was reported consumed
\* exactly once although several promotions may have ended in it.
AvailableIsPublished ==
  \A r \in Result :
    /\ row[r] = "AVAILABLE" => r \in object
    /\ consumed[r] = IF row[r] \in {"AVAILABLE", "DELETING", "DELETED"} THEN 1 ELSE 0

\* A hold that was granted is kept: no object of the task that can still be read goes
\* away while it lasts, even for a purge that listed it before the hold.
HoldIsKept ==
  [][\A r \in Result :
       TaskOf[r] \in held /\ row[r] \in {"PENDING", "AVAILABLE"} =>
         /\ row'[r] # "DELETING"
         /\ r \in object => r \in object']_vars

\* Every settled result is published in the end, and no deletion stays half done.
ResultsSettleDown == \A r \in Result : <>[](row[r] \notin {"PENDING", "DELETING"})

\* No staging object is left behind for ever (PurgeOrphanStagingBefore).
StagingIsCollected == \A r \in Result : <>[](r \notin staging)

\* "removes canonical object bytes first and only then tombstones Control metadata"
\* (result_artifact.go:468): a deleted result has no canonical object.
DeletedIsGone == \A r \in Result : row[r] = "DELETED" => r \notin object
=============================================================================

---------------------------- MODULE SemanticReplay ---------------------------
(***************************************************************************)
(* Semantic replay: a new query of a task whose plan has been answered     *)
(* before reuses the committed result and observation instead of executing *)
(* (internal/gateway/ordinal_replay.go and query.go,                       *)
(* internal/control/ordinal_materialization.go).                           *)
(*                                                                         *)
(* The cache key digests the task, its grant and the plan but not the row  *)
(* ceiling of the request, so within one task the key is the plan.  A row  *)
(* of the cache is written by the settlement of the query it points to,    *)
(* while that query's artifact is still PENDING; promotion, retention      *)
(* purge, expiry and key erasure of the artifact go on while later queries *)
(* look the row up, evict it or try to publish over it.                    *)
(***************************************************************************)
EXTENDS Integers, FiniteSets, FiniteSetsExt

CONSTANTS
  Query,           \* query records of the task, named in the order they are asked
  Plan,            \* canonical plans
  Size,            \* plan -> rows its execution yields without a ceiling
  Expanded,        \* plans with grouped or union evidence
  RowLimit,        \* the task's row budget
  InfluenceLimit   \* the root's influence ceiling, which also bounds a plain scan

ASSUME ReplayAssumption ==
  /\ Size \in [Plan -> Nat] /\ Expanded \subseteq Plan
  /\ RowLimit \in Nat \ {0} /\ InfluenceLimit \in Nat \ {0}
  /\ Query \subseteq Nat

VARIABLES
  status,    \* query -> status of its record, NEW before the reservation
  work,      \* query -> its request: where it is, and what it has read
  rows,      \* query -> rows of its result
  used,      \* rows charged to the task
  cache,     \* plan -> query the committed materialization points to, or none
  root,      \* observations committed in the root's ledger
  artifact,  \* query -> status of its result_artifacts row, or NONE
  object,    \* queries whose canonical object exists
  lapsed,    \* queries whose artifact is past its expiry
  erased,    \* queries whose result key is erased
  granted    \* the grant has not expired

results == <<artifact, object, lapsed, erased>>
vars == <<status, work, rows, used, cache, root, artifact, object, lapsed, erased, granted>>

None == -1
Fresh == [pc |-> "idle", plan |-> "none", ceiling |-> 0, shared |-> FALSE, allowed |-> 0,
          source |-> None, kept |-> "NONE", refused |-> FALSE]

At(q, pc) == work[q].pc = pc
PlanOf(q) == work[q].plan
Goto(q, pc) == work' = [work EXCEPT ![q].pc = pc]

\* The task's ledger allows one reservation at a time.
Reserved == {q \in Query : status[q] = "RESERVED"}
Remaining == RowLimit - used - SumFunction([q \in Reserved |-> work[q].allowed])
Active == granted /\ used < RowLimit

\* What an observation commits to: the plan on a frozen snapshot, and the rows released.
Observation(q, n) == <<PlanOf(q), n>>
-----------------------------------------------------------------------------
(* Preparation and reservation.                                            *)

\* The ceiling is read before the reservation, net of what another query holds.  Query
\* identifiers are random, so the next request takes the least unused one.
Prepare(q, p) ==
  /\ At(q, "idle") /\ \A r \in Query : r < q => ~At(r, "idle")
  /\ Active /\ Remaining >= 1
  /\ work' = [work EXCEPT ![q] =
       [Fresh EXCEPT !.pc = "reserve", !.plan = p, !.shared = Reserved # {},
                     !.ceiling = IF p \in Expanded THEN Remaining
                                 ELSE Min({Remaining, InfluenceLimit})]]
  /\ UNCHANGED <<status, rows, used, cache, root, results, granted>>

Reserve(q) ==
  /\ At(q, "reserve") /\ Active /\ Reserved = {}
  /\ status' = [status EXCEPT ![q] = "RESERVED"]
  /\ work' = [work EXCEPT ![q].pc = "lookup", ![q].ceiling = 0,
                          ![q].allowed = Min({work[q].ceiling, Remaining})]
  /\ UNCHANGED <<rows, used, cache, root, results, granted>>

\* ErrQueryInProgress and a task that has ended leave no record; the agent may ask again.
ReserveRefused(q) ==
  /\ At(q, "reserve") /\ ~(Active /\ Reserved = {})
  /\ work' = [work EXCEPT ![q] = Fresh]
  /\ UNCHANGED <<status, rows, used, cache, root, results, granted>>
-----------------------------------------------------------------------------
(* Settlements without a result.                                           *)

Forgotten == [Fresh EXCEPT !.pc = "done"]

Release(q) ==
  /\ status' = [status EXCEPT ![q] = "RELEASED"]
  /\ work' = [work EXCEPT ![q] = Forgotten]
  /\ UNCHANGED <<rows, used, cache, root, results, granted>>

Failed(q, n, last) ==
  /\ status' = [status EXCEPT ![q] = "FAILED"]
  /\ used' = used + n
  /\ work' = [work EXCEPT ![q] = last]
  /\ UNCHANGED <<rows, cache, root, results, granted>>

\* A Control or object-store error while the replay still owns the reservation.
ReplayAborts(q) == work[q].pc \in {"lookup", "evict", "row", "object", "drop"} /\ Release(q)
-----------------------------------------------------------------------------
(* tryOrdinalSemanticReplay: each step is a call to Control or to the      *)
(* object store.                                                           *)

Unexpired(s) == s \notin lapsed /\ s \notin erased
Replayable(p) == granted /\ cache[p] # None /\ artifact[cache[p]] = "AVAILABLE" /\ Unexpired(cache[p])

LookupOrdinalMaterialization(q) ==
  /\ At(q, "lookup")
  /\ IF Replayable(PlanOf(q))
     THEN work' = [work EXCEPT ![q].pc = "row", ![q].source = cache[PlanOf(q)]]
     ELSE Goto(q, "evict")
  /\ UNCHANGED <<status, rows, used, cache, root, results, granted>>

\* A PENDING source is on its way to AVAILABLE and keeps its row.
KeepsGone(p) == granted /\ cache[p] # None /\ cache[p] \notin erased   \* mutant
Keeps(p) ==
  /\ granted /\ cache[p] # None
  /\ \/ artifact[cache[p]] = "PENDING" /\ cache[p] \notin erased
     \/ artifact[cache[p]] = "AVAILABLE" /\ Unexpired(cache[p])

DeleteUnusable(q) ==
  LET p == PlanOf(q)
  IN  /\ At(q, "evict")
      /\ cache' = [cache EXCEPT ![p] = IF Keeps(p) THEN @ ELSE None]
      /\ work' = [work EXCEPT ![q].pc = "execute",
                              ![q].kept = IF Keeps(p) THEN artifact[cache[p]] ELSE "NONE"]
      /\ UNCHANGED <<status, rows, used, root, results, granted>>

ReadRow(q) ==
  LET s == work[q].source
  IN  /\ At(q, "row")
      /\ Goto(q, IF artifact[s] = "AVAILABLE" /\ Unexpired(s) THEN "object" ELSE "drop")
      /\ UNCHANGED <<status, rows, used, cache, root, results, granted>>

\* The row count is checked against the fresh reservation, since the key ignores ceilings.
ReadObjectUnchecked(q) ==   \* mutant
  LET s == work[q].source
  IN  /\ At(q, "object")
      /\ Goto(q, IF s \in object /\ s \notin erased THEN "replay" ELSE "drop")
      /\ UNCHANGED <<status, rows, used, cache, root, results, granted>>
ReadObject(q) ==
  LET s == work[q].source
  IN  /\ At(q, "object")
      /\ Goto(q, IF s \in object /\ s \notin erased /\ rows[s] <= work[q].allowed
                 THEN "replay" ELSE "drop")
      /\ UNCHANGED <<status, rows, used, cache, root, results, granted>>

DropReservation(q) ==   \* mutant
  /\ At(q, "drop")
  /\ cache' = [cache EXCEPT ![PlanOf(q)] = None]
  /\ Goto(q, "done")
  /\ UNCHANGED <<status, rows, used, root, results, granted>>
DeleteOrdinalMaterialization(q) ==
  /\ At(q, "drop")
  /\ cache' = [cache EXCEPT ![PlanOf(q)] = None]
  /\ work' = [work EXCEPT ![q].pc = "execute", ![q].source = None]
  /\ UNCHANGED <<status, rows, used, root, results, granted>>
-----------------------------------------------------------------------------
(* Settlements with a result: the query gets a PENDING artifact of its own. *)

Complete(q, n) ==
  /\ status' = [status EXCEPT ![q] = "COMPLETED"]
  /\ rows' = [rows EXCEPT ![q] = n]
  /\ used' = used + n
  /\ artifact' = [artifact EXCEPT ![q] = "PENDING"]
  /\ work' = [work EXCEPT ![q].pc = "done", ![q].kept = "NONE"]
  /\ UNCHANGED <<object, lapsed, erased, granted>>

\* A replay refers to an observation the root already holds, and publishes nothing.
ReplayCompletes(q) ==
  /\ At(q, "replay")
  /\ Observation(q, rows[work[q].source]) \in root
  /\ Complete(q, rows[work[q].source])
  /\ UNCHANGED <<cache, root>>
ReplayFails(q) ==
  /\ At(q, "replay")
  /\ Failed(q, rows[work[q].source], Forgotten)

Yield(q) == Min({Size[PlanOf(q)], work[q].allowed})

\* A connection or view error, or a grant that ended before the connector was called.
ExecuteReleases(q) == At(q, "execute") /\ Release(q)
\* An indeterminate execution is charged the whole reservation.
ExecuteFails(q) == At(q, "execute") /\ granted /\ Failed(q, work[q].allowed, Forgotten)
Execute(q) ==
  /\ At(q, "execute") /\ granted
  /\ Goto(q, "publish")
  /\ UNCHANGED <<status, rows, used, cache, root, results, granted>>

\* publishOrdinalMaterializationTx: the first committed source stays; a contender must
\* agree with it, and its source must still be there.
Converges(q) ==
  LET s == cache[PlanOf(q)]
  IN  artifact[s] \in {"PENDING", "AVAILABLE"} /\ rows[s] = Yield(q)
Blocked(q) == cache[PlanOf(q)] # None /\ ~Converges(q)

PublishEarly(q) ==   \* mutant
  /\ At(q, "publish") /\ granted /\ ~Blocked(q)
  /\ Complete(q, Yield(q))
  /\ cache' = [cache EXCEPT ![PlanOf(q)] = IF @ = None THEN q ELSE @]
  /\ UNCHANGED root
FinalizeNovel(q) ==
  /\ At(q, "publish") /\ granted /\ ~Blocked(q)
  /\ Complete(q, Yield(q))
  /\ cache' = [cache EXCEPT ![PlanOf(q)] = IF @ = None THEN q ELSE @]
  /\ root' = root \cup {Observation(q, Yield(q))}

\* A refused publication rolls the settlement back; the query is settled as failed.
FinalizeRefused(q) ==
  /\ At(q, "publish") /\ (Blocked(q) \/ ~granted)
  /\ Failed(q, Yield(q), [Forgotten EXCEPT !.kept = work[q].kept, !.refused = granted])
\* The exposure ceiling, the object store or Control refuses the settlement.
FinalizeFails(q) == At(q, "publish") /\ Failed(q, Yield(q), Forgotten)
-----------------------------------------------------------------------------
(* The life of the artifacts, in the steps a replay can tell apart, and of *)
(* the artifacts a replay can still reach.                                 *)

Reachable(q) ==
  \/ \E p \in Plan : cache[p] = q
  \/ \E r \in Query : work[r].source = q /\ work[r].pc \in {"row", "object"}

Moved(q, from, to) ==
  /\ Reachable(q) /\ artifact[q] = from
  /\ artifact' = [artifact EXCEPT ![q] = to]
Quiet == UNCHANGED <<status, work, rows, used, cache, root>>

Promote(q) ==
  /\ Moved(q, "PENDING", "AVAILABLE")
  /\ object' = object \cup {q}
  /\ Quiet /\ UNCHANGED <<lapsed, erased, granted>>
PurgeClaims(q) ==
  /\ Moved(q, "AVAILABLE", "DELETING")
  /\ Quiet /\ UNCHANGED <<object, lapsed, erased, granted>>
PurgeDeletes(q) ==
  /\ Reachable(q) /\ artifact[q] = "DELETING" /\ q \in object
  /\ object' = object \ {q}
  /\ Quiet /\ UNCHANGED <<artifact, lapsed, erased, granted>>
PurgeTombstones(q) ==
  /\ q \notin object
  /\ Moved(q, "DELETING", "DELETED")
  /\ Quiet /\ UNCHANGED <<object, lapsed, erased, granted>>
\* Expiry shows on an AVAILABLE row only.
Expire(q) ==
  /\ Reachable(q) /\ artifact[q] = "AVAILABLE" /\ q \notin lapsed
  /\ lapsed' = lapsed \cup {q}
  /\ Quiet /\ UNCHANGED <<artifact, object, erased, granted>>

\* The key every result so far is under is replaced and erased; a PENDING one forbids it.
EraseKey ==
  LET under == {q \in Query : Reachable(q)}
  IN  /\ \A q \in under : artifact[q] # "PENDING"
      /\ ~(under \subseteq erased)
      /\ erased' = erased \cup under
      /\ Quiet /\ UNCHANGED <<artifact, object, lapsed, granted>>

\* The grant's expiry is the expiry of its cache rows.
GrantExpires ==
  /\ granted
  /\ granted' = FALSE
  /\ Quiet /\ UNCHANGED results
-----------------------------------------------------------------------------
Init ==
  /\ status = [q \in Query |-> "NEW"]
  /\ work = [q \in Query |-> Fresh]
  /\ rows = [q \in Query |-> 0]
  /\ used = 0
  /\ cache = [p \in Plan |-> None]
  /\ root = {}
  /\ artifact = [q \in Query |-> "NONE"]
  /\ object = {} /\ lapsed = {} /\ erased = {}
  /\ granted = TRUE

Step(q) ==
  \/ Reserve(q) \/ ReserveRefused(q) \/ ReplayAborts(q)
  \/ LookupOrdinalMaterialization(q) \/ DeleteUnusable(q) \/ ReadRow(q) \/ ReadObject(q)
  \/ DeleteOrdinalMaterialization(q) \/ ReplayCompletes(q) \/ ReplayFails(q)
  \/ ExecuteReleases(q) \/ ExecuteFails(q) \/ Execute(q)
  \/ FinalizeNovel(q) \/ FinalizeRefused(q) \/ FinalizeFails(q)

ArtifactStep(q) ==
  \/ Promote(q) \/ PurgeClaims(q) \/ PurgeDeletes(q) \/ PurgeTombstones(q) \/ Expire(q)

Next ==
  \/ \E q \in Query : Step(q) \/ ArtifactStep(q) \/ \E p \in Plan : Prepare(q, p)
  \/ EraseKey \/ GrantExpires

\* A request runs to its end: its goroutine takes every step it can.
Spec == Init /\ [][Next]_vars /\ \A q \in Query : WF_vars(Step(q))
-----------------------------------------------------------------------------
Completed == {q \in Query : status[q] = "COMPLETED"}

\* A replay releases the rows the query would have got by executing: never more than
\* its reservation allows, although the cache key ignores the ceiling, and never fewer
\* unless the source's own ceiling was read while another query held part of the row
\* budget.  A result cut short by the row budget uses it up, so nobody replays it.
ReplayIsFaithful ==
  \A q \in Completed :
    /\ rows[q] <= Yield(q)
    /\ rows[q] < Yield(q) => work[q].source # None /\ work[work[q].source].shared

\* A publication is refused for its cache row only when that row was worth keeping at
\* the query's own lookup: its result was on its way or replayable, and was lost or
\* outgrown afterwards.  A row whose result was already gone never blocks anybody.
OnlyLiveRowsBlock ==
  \A q \in Query : work[q].refused => work[q].kept \in {"PENDING", "AVAILABLE"}

\* What a replay may refer to is committed: a cache row points to a completed query of
\* its own plan that executed itself, with its observation in the root's ledger, and a
\* request that has chosen its source finds the same.
CacheIsCommitted ==
  LET Committed(s, p) == /\ status[s] = "COMPLETED" /\ PlanOf(s) = p /\ work[s].source = None
                         /\ <<p, rows[s]>> \in root
  IN  /\ \A p \in Plan : cache[p] # None => Committed(cache[p], p)
      /\ \A q \in Query : work[q].source # None => Committed(work[q].source, PlanOf(q))

\* Every reservation is settled, through every miss, eviction and abort: a request that
\* returned with its reservation would block all later queries of the task.
ReservationsEnd == <>[](Reserved = {})
=============================================================================

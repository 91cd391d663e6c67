---------------------------- MODULE ControlLedger ----------------------------
(***************************************************************************)
(* The per-task budget ledger of the Control PostgreSQL store              *)
(* (internal/control/budget.go, recovery.go).                              *)
(*                                                                         *)
(* Every method of the store is one READ COMMITTED transaction that locks  *)
(* the task row or the query row first, then the budget row, so it is one  *)
(* action here.  The specification lets any caller call any method at any  *)
(* time with any arguments: what holds here holds for every gateway.       *)
(* QueryWorker models the callers the gateway really has.                  *)
(*                                                                         *)
(* (task_id, request_id) is the durable idempotency key of a query record, *)
(* so a query is named by its request.                                     *)
(***************************************************************************)
EXTENDS Integers, FiniteSets, Functions

CONSTANTS
  Task,      \* approved tasks, each with its grant and budget row
  Request,   \* idempotency keys
  TaskOf,    \* the task a request belongs to
  Limit,     \* the hard limits the grant of a task fixes
  RowUse,    \* row counts a caller may ask for or report
  TimeUse    \* database times (ms) a caller may ask for or report

Amount == [queries : Nat, rows : Nat, db_ms : Nat]

ASSUME LedgerAssumption ==
  /\ IsFiniteSet(Request)
  /\ TaskOf \in [Request -> Task]
  /\ Limit \in [Task -> [queries : Nat \ {0}, rows : Nat \ {0}, db_ms : Nat \ {0}]]
  /\ RowUse \subseteq Nat
  /\ TimeUse \subseteq Nat
  /\ \A t \in Task : 0 .. Limit[t].rows \subseteq RowUse /\ 0 .. Limit[t].db_ms \subseteq TimeUse

VARIABLES
  task,         \* task -> state and terminal reason
  expired,      \* task -> the clock has reached expires_at
  binding,      \* task -> status of its view binding
  used,         \* task -> amount charged so far
  reserved,     \* task -> amount held by the query in flight
  query,        \* request -> query record
  exposure,     \* request -> status of its exposure reservation
  queryAudits,  \* request -> number of terminal audit events
  taskAudits    \* task -> number of audit events archiving it

ledgerVars == <<task, expired, binding, used, reserved, query, exposure,
                queryAudits, taskAudits>>

Terminal == {"COMPLETED", "FAILED", "RELEASED", "INDETERMINATE"}
Reason == {"completed", "budget_exhausted", "expired", "revoked"}
Use == [rows : RowUse, db_ms : TimeUse]
-----------------------------------------------------------------------------
(* Arithmetic of the budget_ledger row *)

Zero == [queries |-> 0, rows |-> 0, db_ms |-> 0]
Plus(a, b) == [queries |-> a.queries + b.queries,
               rows    |-> a.rows + b.rows,
               db_ms   |-> a.db_ms + b.db_ms]
Minus(a, b) == [queries |-> a.queries - b.queries,
                rows    |-> a.rows - b.rows,
                db_ms   |-> a.db_ms - b.db_ms]
AtMost(a, b) == a.queries <= b.queries /\ a.rows <= b.rows /\ a.db_ms <= b.db_ms
Least(m, n) == IF m <= n THEN m ELSE n
NonNegative(n) == IF n < 0 THEN 0 ELSE n

\* BudgetSnapshot.Remaining
RemainingIgnoresUsed(t) == Minus(Limit[t], reserved[t])   \* mutant
Remaining(t) ==
  LET left == Minus(Minus(Limit[t], used[t]), reserved[t])
  IN  [queries |-> NonNegative(left.queries), rows |-> NonNegative(left.rows),
       db_ms |-> NonNegative(left.db_ms)]

\* What a reservation holds: asking for nothing, or for more than is left, takes
\* all that is left.
GrantedUncapped(asked, left) == IF asked = 0 THEN left ELSE asked   \* mutant
Granted(asked, left) == IF asked = 0 \/ asked > left THEN left ELSE asked

Allowed(t, ask) ==
  [queries |-> 1,
   rows    |-> Granted(ask.rows, Remaining(t).rows),
   db_ms   |-> Granted(ask.db_ms, Remaining(t).db_ms)]

\* A released query costs nothing; every other outcome costs one query, the
\* reported rows, and the reported time capped at the reserved time.
Charge(status, use, held) ==
  IF status = "RELEASED" THEN Zero
  ELSE [queries |-> 1, rows |-> use.rows, db_ms |-> Least(use.db_ms, held.db_ms)]

\* budgetSettlementReachesHardLimit: a charging outcome archives the task as soon
\* as one dimension is used up.
ReachesHardLimit(t, status, total) ==
  /\ status # "RELEASED"
  /\ \/ total.queries >= Limit[t].queries
     \/ total.rows >= Limit[t].rows
     \/ total.db_ms >= Limit[t].db_ms
-----------------------------------------------------------------------------
(* Rows a transaction writes *)

\* archiveTaskTx on each task of a set: the first reason wins, and is audited once.
Archive(tasks, reason) ==
  LET open == {t \in tasks : task[t].state # "ARCHIVED"}
  IN  /\ task' = [t \in Task |-> IF t \in open THEN [state |-> "ARCHIVED", reason |-> reason[t]]
                                 ELSE task[t]]
      /\ taskAudits' = [t \in Task |-> IF t \in open THEN taskAudits[t] + 1 ELSE taskAudits[t]]

\* The checks settleBudgetTx and recover make before they touch the ledger: the
\* ledger holds at least this reservation, and the new total fits the limits.
LedgerAccepts(t, held, charge) ==
  /\ AtMost(held, reserved[t])
  /\ AtMost(Plus(used[t], charge), Limit[t])

\* settleAnyExposureMeasuredTx needs a live reservation (a redelivery, which finds
\* it settled, changes nothing); releaseAnyExposureReservationTx refuses a settled
\* one and leaves a released one alone.
ExposureMayEnd(r, status) ==
  IF status = "COMPLETED" THEN exposure[r] = "RESERVED" ELSE exposure[r] # "SETTLED"
ExposureAfter(status) == IF status = "COMPLETED" THEN "SETTLED" ELSE "RELEASED"

OpenRequests(t) == {r \in Request : TaskOf[r] = t /\ query[r].status = "RESERVED"}
-----------------------------------------------------------------------------
(* Transactions *)

\* ReserveBudget looks for the record of the request first: a retry observes the
\* first outcome, whatever became of the task since, and changes nothing.
RetryRunsAgain(r) == query[r].status # "RESERVED"   \* mutant
FirstCall(r) == query[r].status = "NONE"

\* The checks of a first call, up to the budget: active, not expired, view binding
\* still valid, no other query of the task in flight.
AdmissibleWhileBusy(t) ==   \* mutant
  task[t].state = "ACTIVE" /\ ~expired[t] /\ binding[t] = "ACTIVE"
Admissible(t) ==
  /\ task[t].state = "ACTIVE"
  /\ ~expired[t]
  /\ binding[t] = "ACTIVE"
  /\ reserved[t].queries = 0

Exhausted(t) ==
  Remaining(t).queries < 1 \/ Remaining(t).rows < 1 \/ Remaining(t).db_ms < 1

ReserveBudget(r, ask) ==
  LET t == TaskOf[r]
  IN  /\ FirstCall(r)
      /\ Admissible(t)
      /\ ~Exhausted(t)
      /\ reserved' = [reserved EXCEPT ![t] = Plus(reserved[t], Allowed(t, ask))]
      /\ query' = [query EXCEPT ![r] = [status |-> "RESERVED", reserved |-> Allowed(t, ask),
                                        charged |-> Zero]]
      /\ exposure' = [exposure EXCEPT ![r] = "RESERVED"]
      /\ UNCHANGED <<task, expired, binding, used, queryAudits, taskAudits>>

\* A first call that finds the task expired or used up archives it, commits, and
\* reports the error.
ReserveArchives(r) ==
  LET t == TaskOf[r]
  IN  /\ FirstCall(r)
      /\ task[t].state = "ACTIVE"
      /\ expired[t] \/ (Admissible(t) /\ Exhausted(t))
      /\ Archive({t}, [x \in {t} |-> IF expired[t] THEN "expired" ELSE "budget_exhausted"])
      /\ UNCHANGED <<expired, binding, used, reserved, query, exposure, queryAudits>>

\* settleWithReceipt and finalizePreparedQueryAttempt: settle or release the
\* exposure reservation, move the reservation to the used amount, write the terminal
\* record and its audit event, archive the task at a hard limit.  The state of the
\* task is not consulted: a query in flight survives revocation.  Delivering the
\* same outcome again returns the stored record, delivering another one is refused;
\* neither changes anything.
SettleBudget(r, status, use) ==
  LET t == TaskOf[r]
      held == query[r].reserved
      charge == Charge(status, use, held)
      total == Plus(used[t], charge)
  IN  /\ query[r].status = "RESERVED"
      /\ ExposureMayEnd(r, status)
      /\ use.rows <= held.rows
      /\ LedgerAccepts(t, held, charge)
      /\ exposure' = [exposure EXCEPT ![r] = ExposureAfter(status)]
      /\ reserved' = [reserved EXCEPT ![t] = Minus(reserved[t], held)]
      /\ used' = [used EXCEPT ![t] = total]
      /\ query' = [query EXCEPT ![r] = [status |-> status, reserved |-> held, charged |-> charge]]
      /\ queryAudits' = [queryAudits EXCEPT ![r] = @ + 1]
      /\ IF ReachesHardLimit(t, status, total)
         THEN Archive({t}, [x \in {t} |-> "budget_exhausted"])
         ELSE UNCHANGED <<task, taskAudits>>
      /\ UNCHANGED <<expired, binding>>

\* One iteration of recover's loop over the RESERVED queries charges the whole
\* reservation.  ReservationIsLedger makes it run at most once for a task.
Interrupted(t) == CHOOSE r \in OpenRequests(t) : TRUE
RecoveredCharge(t) ==
  IF OpenRequests(t) = {} THEN Zero ELSE query[Interrupted(t)].reserved
RecoveredFreeOfCharge(t) == used[t]   \* mutant
RecoveredTotal(t) == Plus(used[t], RecoveredCharge(t))

\* An inconsistent ledger aborts the whole recovery, and with it the start-up.
RecoveryAccepted ==
  \A r \in Request : query[r].status = "RESERVED" =>
     /\ ExposureMayEnd(r, "INDETERMINATE")
     /\ LedgerAccepts(TaskOf[r], query[r].reserved, query[r].reserved)

\* recover: every RESERVED query becomes INDETERMINATE, its task is archived at a
\* hard limit, then every expired task is archived.
Recover ==
  LET interrupted == {r \in Request : query[r].status = "RESERVED"}
      usedUp == {t \in Task : OpenRequests(t) # {}
                               /\ ReachesHardLimit(t, "INDETERMINATE", RecoveredTotal(t))}
      late == {t \in Task : expired[t]}
  IN  /\ RecoveryAccepted
      /\ exposure' = [r \in Request |-> IF r \in interrupted THEN "RELEASED" ELSE exposure[r]]
      /\ used' = [t \in Task |-> RecoveredTotal(t)]
      /\ reserved' = [t \in Task |-> Minus(reserved[t], RecoveredCharge(t))]
      /\ query' = [r \in Request |->
                     IF r \in interrupted
                     THEN [status |-> "INDETERMINATE", reserved |-> query[r].reserved,
                           charged |-> query[r].reserved]
                     ELSE query[r]]
      /\ queryAudits' = [r \in Request |-> IF r \in interrupted THEN queryAudits[r] + 1
                                           ELSE queryAudits[r]]
      /\ Archive(usedUp \cup late,
                 [t \in usedUp \cup late |-> IF t \in usedUp THEN "budget_exhausted" ELSE "expired"])
      /\ UNCHANGED <<expired, binding>>

\* TransitionTask as complete_task and revoke_task call it.
ArchiveTask(t, reason) ==
  /\ task[t].state = "ACTIVE"
  /\ Archive({t}, [x \in {t} |-> reason])
  /\ UNCHANGED <<expired, binding, used, reserved, query, exposure, queryAudits>>

\* The binding of a task changes once and is never restored.
MarkTaskViewSemanticChanged(t) ==
  /\ binding[t] = "ACTIVE"
  /\ binding' = [binding EXCEPT ![t] = "REQUIRE_REBIND"]
  /\ UNCHANGED <<task, expired, used, reserved, query, exposure, queryAudits, taskAudits>>

\* The clock reaches expires_at.
Expire(t) ==
  /\ ~expired[t]
  /\ expired' = [expired EXCEPT ![t] = TRUE]
  /\ UNCHANGED <<task, binding, used, reserved, query, exposure, queryAudits, taskAudits>>
-----------------------------------------------------------------------------
NoQuery == [status |-> "NONE", reserved |-> Zero, charged |-> Zero]

\* Grants and budget rows as insertGrantAndBudget leaves them.
LedgerInit ==
  /\ task = [t \in Task |-> [state |-> "ACTIVE", reason |-> "none"]]
  /\ expired = [t \in Task |-> FALSE]
  /\ binding = [t \in Task |-> "ACTIVE"]
  /\ used = [t \in Task |-> Zero]
  /\ reserved = [t \in Task |-> Zero]
  /\ query = [r \in Request |-> NoQuery]
  /\ exposure = [r \in Request |-> "NONE"]
  /\ queryAudits = [r \in Request |-> 0]
  /\ taskAudits = [t \in Task |-> 0]

LedgerNext ==
  \/ \E r \in Request, ask \in Use : ReserveBudget(r, ask)
  \/ \E r \in Request : ReserveArchives(r)
  \/ \E r \in Request, status \in Terminal, use \in Use : SettleBudget(r, status, use)
  \/ Recover
  \/ \E t \in Task, reason \in {"completed", "revoked"} : ArchiveTask(t, reason)
  \/ \E t \in Task : MarkTaskViewSemanticChanged(t)
  \/ \E t \in Task : Expire(t)

LedgerSpec == LedgerInit /\ [][LedgerNext]_ledgerVars
-----------------------------------------------------------------------------
QueryRecord == [status : Terminal \cup {"NONE", "RESERVED"}, reserved : Amount, charged : Amount]

LedgerTypeOK ==
  /\ task \in [Task -> [state : {"ACTIVE", "ARCHIVED"}, reason : Reason \cup {"none"}]]
  /\ expired \in [Task -> BOOLEAN]
  /\ binding \in [Task -> {"ACTIVE", "REQUIRE_REBIND"}]
  /\ used \in [Task -> Amount]
  /\ reserved \in [Task -> Amount]
  /\ query \in [Request -> QueryRecord]
  /\ exposure \in [Request -> {"NONE", "RESERVED", "SETTLED", "RELEASED"}]
  /\ queryAudits \in [Request -> Nat]
  /\ taskAudits \in [Task -> Nat]

\* What the ledger row of a task says is reserved is exactly what its one query in
\* flight holds, and nothing when none is: ReserveBudget, every settlement and
\* recover keep the ledger row and the query records in step.
ReservationIsLedger ==
  \A t \in Task :
    \/ OpenRequests(t) = {} /\ reserved[t] = Zero
    \/ \E r \in OpenRequests(t) : OpenRequests(t) = {r} /\ reserved[t] = query[r].reserved

\* The hard limits of the grant bound what is used together with what is reserved,
\* so no settlement or recovery of an admitted query can overshoot them.
WithinHardLimit ==
  \A t \in Task : AtMost(Plus(used[t], reserved[t]), Limit[t])

\* The exposure reservation of a query ends the way the query does: settled exactly
\* for a COMPLETED query, released for every other outcome, so no reservation can be
\* settled later against a terminal query (recovery.go:57).
ExposureFollowsQuery ==
  \A r \in Request :
    exposure[r] = CASE query[r].status = "NONE"      -> "NONE"
                    [] query[r].status = "RESERVED"  -> "RESERVED"
                    [] query[r].status = "COMPLETED" -> "SETTLED"
                    [] OTHER                         -> "RELEASED"

\* Start-up recovery is never refused: the consistency checks that would abort it,
\* and keep the gateway down, accept every reservation the ledger can hold.
RecoveryNeverRefused == RecoveryAccepted

\* A task with a used-up dimension is archived, on every settlement path and in
\* recovery, so no query is ever admitted against a budget of zero.
UsedUpIsArchived ==
  \A t \in Task :
    \/ used[t].queries >= Limit[t].queries
    \/ used[t].rows >= Limit[t].rows
    \/ used[t].db_ms >= Limit[t].db_ms
    => task[t].state = "ARCHIVED"

\* The used amount of a task is the sum of the charges its query records show:
\* nothing is charged twice or lost across redelivered settlements and restarts.
UsedIsSumOfCharges ==
  \A t \in Task :
    LET own == {r \in Request : TaskOf[r] = t}
    IN  /\ used[t].queries = SumFunctionOnSet([r \in Request |-> query[r].charged.queries], own)
        /\ used[t].rows = SumFunctionOnSet([r \in Request |-> query[r].charged.rows], own)
        /\ used[t].db_ms = SumFunctionOnSet([r \in Request |-> query[r].charged.db_ms], own)

\* Each query has one terminal audit event exactly when it is terminal, and each
\* task one archiving event exactly when it is archived.
AuditedOnce ==
  /\ \A r \in Request : queryAudits[r] = IF query[r].status \in Terminal THEN 1 ELSE 0
  /\ \A t \in Task : taskAudits[t] = IF task[t].state = "ARCHIVED" THEN 1 ELSE 0

\* A terminal query record never changes again, whatever is delivered late or
\* recovered twice; an archived task keeps its first terminal reason, though its
\* queries in flight still settle; the used amount never shrinks.
OutcomesAreFinal ==
  [][/\ \A r \in Request : query[r].status \in Terminal => query'[r] = query[r]
     /\ \A t \in Task : task[t].state = "ARCHIVED" => task'[t] = task[t]
     /\ \A t \in Task : AtMost(used[t], used'[t])]_ledgerVars

\* No query of an archived, expired or re-bound task leaves the NONE state: an
\* admission that raced the change is the only way to hold a reservation there.
NoAdmissionAfterStop ==
  [][\A r \in Request :
       LET t == TaskOf[r]
       IN  (task[t].state = "ARCHIVED" \/ expired[t] \/ binding[t] # "ACTIVE")
             => (query[r].status = "NONE" => query'[r].status = "NONE")]_ledgerVars
=============================================================================

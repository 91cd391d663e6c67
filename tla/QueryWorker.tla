----------------------------- MODULE QueryWorker -----------------------------
(***************************************************************************)
(* The gateway's query workers over the budget ledger                      *)
(* (internal/gateway/query.go executeSQL, failQueryBudget,                 *)
(* retryTerminalQuery, retryFailedQuerySettlement; result_artifact.go      *)
(* finalizeArtifactQuery; ordinal_replay.go).                              *)
(*                                                                         *)
(* One goroutine owns the reservation it obtained and must end it.  A      *)
(* Control PostgreSQL transaction can fail without effect, commit with its *)
(* answer lost, or stay in doubt: its COMMIT was sent, the gateway got an  *)
(* error, and the server still holds the transaction's locks, the          *)
(* audit_chain_head row among them, until it commits or aborts.  The       *)
(* gateway can crash between any two steps; there is one gateway instance. *)
(***************************************************************************)
EXTENDS ControlLedger

CONSTANTS
  Ask,       \* what a plan asks for: rows and database time
  Observed   \* what a connector reports

ASSUME WorkerAssumption ==
  /\ Ask \subseteq Use
  /\ Observed \subseteq [rows : Int, db_ms : Int]

VARIABLES
  up,       \* the gateway process runs
  worker,   \* request -> where the goroutine that owns its reservation stands
  doubt,    \* request -> settlement transaction in doubt
  runs      \* request -> connector executions (history)

workerVars == <<up, worker, doubt, runs>>
vars == <<task, expired, binding, used, reserved, query, exposure, queryAudits, taskAudits,
          up, worker, doubt, runs>>

NoUse == [rows |-> 0, db_ms |-> 0]
Idle == [pc |-> "idle", want |-> "none", use |-> NoUse]
NoDoubt == [status |-> "none", use |-> NoUse]

\* Every transaction of this module appends an audit event, so it waits for the
\* locks of a transaction in doubt.
Unlocked == \A r \in Request : doubt[r] = NoDoubt

At(r, pc) == up /\ worker[r].pc = pc
Goto(r, pc, want, use) ==
  worker' = [worker EXCEPT ![r] = [pc |-> pc, want |-> want, use |-> use]]
Done(r) == worker' = [worker EXCEPT ![r] = Idle]

\* querySettlement: reported rows and time are clamped to what was reserved, and a
\* query that ran costs at least one millisecond.
QuerySettlement(seen, held) ==
  [rows  |-> Least(NonNegative(seen.rows), held.rows),
   db_ms |-> Least(IF seen.db_ms < 1 THEN 1 ELSE seen.db_ms, held.db_ms)]
-----------------------------------------------------------------------------
(* Reservation *)

Begin(r, ask) ==
  /\ At(r, "idle") /\ Unlocked
  /\ ReserveBudget(r, ask)
  /\ Goto(r, "execute", "none", NoUse)
  /\ UNCHANGED <<up, doubt, runs>>

\* The reservation commits but its answer is lost: executeSQL returns the error and
\* nobody owns the reservation until the next start-up.
BeginUnanswered(r, ask) ==
  /\ At(r, "idle") /\ Unlocked
  /\ ReserveBudget(r, ask)
  /\ UNCHANGED workerVars

BeginArchives(r) ==
  /\ At(r, "idle") /\ Unlocked
  /\ ReserveArchives(r)
  /\ UNCHANGED workerVars
-----------------------------------------------------------------------------
(* Execution *)

\* Queue or grant expired before the connector ran, the replay lookup failed, or the
\* connector refused the query or could not connect: nothing ran.
NotExecutedForgets(r) ==   \* mutant
  /\ At(r, "execute")
  /\ Done(r)
  /\ UNCHANGED <<ledgerVars, up, doubt, runs>>
NotExecuted(r) ==
  /\ At(r, "execute")
  /\ Goto(r, "settle", "RELEASED", NoUse)
  /\ UNCHANGED <<ledgerVars, up, doubt, runs>>

\* Any other connector error: the statement may or may not have run.
OutcomeUnknown(r) ==
  /\ At(r, "execute")
  /\ Goto(r, "settle", "INDETERMINATE",
          [rows |-> query[r].reserved.rows, db_ms |-> query[r].reserved.db_ms])
  /\ \E ran \in {0, 1} : runs' = [runs EXCEPT ![r] = @ + ran]
  /\ UNCHANGED <<ledgerVars, up, doubt>>

Executed(r, seen) ==
  /\ At(r, "execute")
  /\ Goto(r, "finalize", "COMPLETED", QuerySettlement(seen, query[r].reserved))
  /\ runs' = [runs EXCEPT ![r] = @ + 1]
  /\ UNCHANGED <<ledgerVars, up, doubt>>

\* A stored result of the same plan that still fits the reservation answers the
\* query: nothing runs, and the replay costs its rows and one millisecond.  A miss,
\* once the unusable entry is evicted, leaves the worker where it is.
SemanticReplay(r) ==
  /\ At(r, "execute")
  /\ \E rows \in 0 .. query[r].reserved.rows :
       Goto(r, "finalize", "COMPLETED", [rows |-> rows, db_ms |-> 1])
  /\ UNCHANGED <<ledgerVars, up, doubt, runs>>

\* Deriving the observation, encoding or staging the result failed.
ResultFailed(r) ==
  /\ At(r, "finalize")
  /\ Goto(r, "settle", "FAILED", worker[r].use)
  /\ UNCHANGED <<ledgerVars, up, doubt, runs>>
-----------------------------------------------------------------------------
(* Finalization: the one transaction that completes the query *)

Finalize(r) ==
  /\ At(r, "finalize") /\ Unlocked
  /\ SettleBudget(r, "COMPLETED", worker[r].use)
  /\ Done(r)
  /\ UNCHANGED <<up, doubt, runs>>

\* It is refused (exposure budget, lost compare-and-swap races) or fails.
FinalizeRefused(r) ==
  /\ At(r, "finalize")
  /\ Goto(r, "recheck", "FAILED", worker[r].use)
  /\ UNCHANGED <<ledgerVars, up, doubt, runs>>

InDoubtIsReleased(r) ==   \* mutant
  /\ At(r, "finalize") /\ Unlocked
  /\ doubt' = [doubt EXCEPT ![r] = [status |-> "COMPLETED", use |-> worker[r].use]]
  /\ Goto(r, "settle", "RELEASED", NoUse)
  /\ UNCHANGED <<ledgerVars, up, runs>>
FinalizeInDoubt(r) ==
  /\ At(r, "finalize") /\ Unlocked
  /\ doubt' = [doubt EXCEPT ![r] = [status |-> "COMPLETED", use |-> worker[r].use]]
  /\ Goto(r, "recheck", "FAILED", worker[r].use)
  /\ UNCHANGED <<ledgerVars, up, runs>>

\* The record is read again before a failure is settled; a terminal one wins.  The
\* read does not wait for locks, so it can miss a transaction still in doubt.
Recheck(r) ==
  /\ At(r, "recheck")
  /\ IF query[r].status # "RESERVED" THEN Done(r)
     ELSE Goto(r, "settle", "FAILED", worker[r].use)
  /\ UNCHANGED <<ledgerVars, up, doubt, runs>>

RecheckUnreadable(r) ==
  /\ At(r, "recheck")
  /\ Goto(r, "settle", "FAILED", worker[r].use)
  /\ UNCHANGED <<ledgerVars, up, doubt, runs>>
-----------------------------------------------------------------------------
(* Terminal settlement and its background retry *)

Settling(r) == At(r, "settle") \/ At(r, "retry")

\* The call succeeds, or finds that it already did.
TerminalDone(r) ==
  /\ Settling(r) /\ Unlocked
  /\ \/ SettleBudget(r, worker[r].want, worker[r].use)
     \/ query[r].status = worker[r].want /\ UNCHANGED ledgerVars
  /\ Done(r)
  /\ UNCHANGED <<up, doubt, runs>>

\* The call fails without effect and goes to the background.
TerminalError(r) ==
  /\ At(r, "settle")
  /\ Goto(r, "retry", worker[r].want, worker[r].use)
  /\ UNCHANGED <<ledgerVars, up, doubt, runs>>

\* Only a FAILED settlement looks at the durable record and yields to it.
FailureInsists(r) == FALSE /\ UNCHANGED vars /\ r \in Request   \* mutant
FailureYields(r) ==
  /\ Settling(r)
  /\ worker[r].want = "FAILED"
  /\ query[r].status # "RESERVED"
  /\ Done(r)
  /\ UNCHANGED <<ledgerVars, up, doubt, runs>>

TerminalInDoubt(r) ==
  /\ Settling(r) /\ Unlocked
  /\ query[r].status = "RESERVED"
  /\ doubt' = [doubt EXCEPT ![r] = [status |-> worker[r].want, use |-> worker[r].use]]
  /\ Goto(r, "retry", worker[r].want, worker[r].use)
  /\ UNCHANGED <<ledgerVars, up, runs>>
-----------------------------------------------------------------------------
(* The server, the process, the users and the clock *)

ServerCommits(r) ==
  /\ doubt[r] # NoDoubt
  /\ SettleBudget(r, doubt[r].status, doubt[r].use)
  /\ doubt' = [doubt EXCEPT ![r] = NoDoubt]
  /\ UNCHANGED <<up, worker, runs>>

ServerAborts(r) ==
  /\ doubt[r] # NoDoubt
  /\ doubt' = [doubt EXCEPT ![r] = NoDoubt]
  /\ UNCHANGED <<ledgerVars, up, worker, runs>>

Crash ==
  /\ up
  /\ up' = FALSE
  /\ worker' = [r \in Request |-> Idle]
  /\ UNCHANGED <<ledgerVars, doubt, runs>>

\* Open runs recover before the gateway serves anything.
Restart ==
  /\ ~up /\ Unlocked
  /\ Recover
  /\ up' = TRUE
  /\ UNCHANGED <<worker, doubt, runs>>

UserArchives(t, reason) ==
  /\ up /\ Unlocked
  /\ ArchiveTask(t, reason)
  /\ UNCHANGED workerVars

ViewChangesBack(t) ==   \* mutant
  /\ up /\ Unlocked
  /\ binding' = [binding EXCEPT ![t] = IF @ = "ACTIVE" THEN "REQUIRE_REBIND" ELSE "ACTIVE"]
  /\ UNCHANGED <<task, expired, used, reserved, query, exposure, queryAudits, taskAudits, workerVars>>
ViewChanges(t) ==
  /\ up /\ Unlocked
  /\ MarkTaskViewSemanticChanged(t)
  /\ UNCHANGED workerVars

TimePasses(t) == Expire(t) /\ UNCHANGED workerVars
-----------------------------------------------------------------------------
Init ==
  /\ LedgerInit
  /\ up = TRUE
  /\ worker = [r \in Request |-> Idle]
  /\ doubt = [r \in Request |-> NoDoubt]
  /\ runs = [r \in Request |-> 0]

Next ==
  \/ \E r \in Request, ask \in Ask : Begin(r, ask)
  \/ \E r \in Request, ask \in Ask : BeginUnanswered(r, ask)
  \/ \E r \in Request : BeginArchives(r)
  \/ \E r \in Request : NotExecuted(r)
  \/ \E r \in Request : OutcomeUnknown(r)
  \/ \E r \in Request, seen \in Observed : Executed(r, seen)
  \/ \E r \in Request : SemanticReplay(r)
  \/ \E r \in Request : ResultFailed(r)
  \/ \E r \in Request : Finalize(r)
  \/ \E r \in Request : FinalizeRefused(r)
  \/ \E r \in Request : FinalizeInDoubt(r)
  \/ \E r \in Request : Recheck(r)
  \/ \E r \in Request : RecheckUnreadable(r)
  \/ \E r \in Request : TerminalDone(r)
  \/ \E r \in Request : TerminalError(r)
  \/ \E r \in Request : FailureYields(r)
  \/ \E r \in Request : TerminalInDoubt(r)
  \/ \E r \in Request : ServerCommits(r)
  \/ \E r \in Request : ServerAborts(r)
  \/ Crash
  \/ Restart
  \/ \E t \in Task, reason \in {"completed", "revoked"} : UserArchives(t, reason)
  \/ \E t \in Task : ViewChanges(t)
  \/ \E t \in Task : TimePasses(t)

Spec == Init /\ [][Next]_vars

\* The goroutine runs on; a connector call ends (it has a timeout); a transaction in
\* doubt is resolved by the server; a crashed gateway is started again.  A settlement
\* may fail any number of times but not for ever while it could succeed: the retry
\* loops have no attempt limit.
Fairness ==
  /\ \A r \in Request :
       /\ WF_vars(\/ NotExecuted(r) \/ OutcomeUnknown(r) \/ SemanticReplay(r)
                  \/ \E seen \in Observed : Executed(r, seen))
       /\ WF_vars(ResultFailed(r) \/ Finalize(r) \/ FinalizeRefused(r))
       /\ WF_vars(Recheck(r) \/ RecheckUnreadable(r))
       /\ SF_vars(TerminalDone(r))
       /\ WF_vars(FailureYields(r))
       /\ WF_vars(ServerCommits(r) \/ ServerAborts(r))
  /\ WF_vars(Restart)

FairSpec == Spec /\ Fairness
-----------------------------------------------------------------------------
UseType == [rows : Nat, db_ms : Nat]

WorkerTypeOK ==
  /\ up \in BOOLEAN
  /\ worker \in [Request -> [pc : {"idle", "execute", "finalize", "recheck", "settle", "retry"},
                             want : Terminal \cup {"none"}, use : UseType]]
  /\ doubt \in [Request -> [status : Terminal \cup {"none"}, use : UseType]]
  /\ runs \in [Request -> Nat]

\* The loops of retryTerminalQuery never look at the durable record: they repeat
\* RELEASED or INDETERMINATE until the store accepts it.  They can only end because
\* the query they settle is never ended by anyone else in another way.  A worker that
\* has not settled yet still holds its reservation, and so does a transaction in doubt.
NoForeignOutcome ==
  \A r \in Request :
    /\ worker[r].pc \in {"execute", "finalize"} => query[r].status = "RESERVED"
    /\ worker[r].want \in {"RELEASED", "INDETERMINATE"} =>
         query[r].status \in {"RESERVED", worker[r].want}
    /\ doubt[r] # NoDoubt => query[r].status = "RESERVED"

\* A request id reaches the connector at most once, across retries, lost answers and
\* restarts, and a query that reached it is never released free of charge.
RunOnceAndCharged ==
  \A r \in Request :
    /\ runs[r] <= 1
    /\ query[r].status = "RELEASED" => runs[r] = 0

\* A settlement is never refused for reporting too much: what a worker or a
\* transaction in doubt is about to charge fits the reservation it ends.
SettlementFits ==
  \A r \in Request :
    /\ worker[r].pc # "idle" /\ query[r].status = "RESERVED" =>
         worker[r].use.rows <= query[r].reserved.rows
    /\ doubt[r] # NoDoubt => doubt[r].use.rows <= query[r].reserved.rows

\* Every reservation whose answer reached a worker is settled in the end, by the
\* worker, its background retry, the server, or recovery after a crash.
OwnedReservationIsSettled ==
  \A r \in Request : worker[r].pc # "idle" ~> query[r].status \in Terminal

\* The background retries drain (pendingSettles returns to zero), so readiness
\* is not held down for ever by a settlement that cannot succeed.
RetriesDrain ==
  \A r \in Request : worker[r].pc = "retry" ~> worker[r].pc = "idle"
=============================================================================

------------------------ MODULE ControlTransactions ------------------------
(***************************************************************************)
(* The transactions of the control store at the grain of their row locks.  *)
(* Every transaction that changes the store appends to the audit chain     *)
(* before it commits, and the chain has one head row, locked FOR UPDATE    *)
(* from the first append to the commit: that row orders every pair of      *)
(* transactions, and what a transaction locks before and after it decides  *)
(* which pairs can wait for each other.  A program is the list of the row  *)
(* locks and the appends of a store method in the order of its statements; *)
(* the reads it decides on happen under those locks, and what it writes is *)
(* visible to others at its commit (beginTx asks for READ COMMITTED).      *)
(*                                                                         *)
(* Auditors read the same tables without locks: AuditCheckpoint,           *)
(* GetAuditEvent and ListAuditEventsRange for an inclusion proof, and      *)
(* VerifyAuditChain, each a statement of its own.                          *)
(***************************************************************************)
EXTENDS AuditChain, FiniteSets

CONSTANT
    Scenarios \* what may run together, a set of records:
              \*   jobs      the transactions, each a [kind, task, query]
              \*   profile   the exposure profile of each task's grant: "none" (resources only),
              \*             "v3" (any of V1 to V3), "v4" or "v5"; the tasks that have
              \*             one are of one family
              \*   start     the status of each query and of its result when they start
              \*   stores    the content-addressed rows each query's observation stores (bitmap
              \*             containers, V5 hash blocks), in the order of their insertion
              \*   auditors  which readers run: "prover", "verifier"
              \*   maxLost   bound: connections lost in all

\* A job that works on a query names one of the scenario, and a query is of one
\* task.  The rows a scenario starts from are ones the store can hold: where a
\* task with ordinals is approved already, so is none of V1 to V3, and every
\* query in flight is of a task with ordinals.
ASSUME ScenarioAssumption ==
    \A s \in Scenarios :
        LET approved == {s.jobs[x].task : x \in DOMAIN s.jobs}
                        \ {s.jobs[x].task : x \in {y \in DOMAIN s.jobs : s.jobs[y].kind = "callback"}}
            ordinal  == {t \in {s.jobs[x].task : x \in DOMAIN s.jobs} : s.profile[t] \in {"v4", "v5"}}
        IN  /\ s.jobs \in Seq([kind : STRING, task : STRING, query : STRING])
            /\ \A x \in DOMAIN s.jobs :
                  s.jobs[x].kind \in {"reserve", "finalize", "fail", "available", "purge"} =>
                      s.jobs[x].query \in DOMAIN s.start
            /\ \A x, y \in DOMAIN s.jobs :
                  s.jobs[x].query = s.jobs[y].query /\ s.jobs[x].query \in DOMAIN s.start =>
                      s.jobs[x].task = s.jobs[y].task
            /\ s.start \in [DOMAIN s.start ->
                  [query : {"NONE", "RESERVED", "COMPLETED", "FAILED"},
                   artifact : {"NONE", "PENDING", "AVAILABLE", "DELETING"}]]
            /\ s.stores \in [DOMAIN s.start -> Seq(STRING)]
            /\ approved \cap ordinal # {} =>
                  /\ \A t \in approved : s.profile[t] # "v3"
                  /\ \A q \in DOMAIN s.start : s.start[q].query = "RESERVED" =>
                        \E x \in DOMAIN s.jobs : s.jobs[x].query = q /\ s.jobs[x].task \in ordinal

VARIABLES
    scene,     \* the scenario; never changes
    kind,      \* the store method a transaction runs
    status,    \* idle, running, done or refused
    next,      \* its next step
    archives,  \* whether its settlement reaches a hard limit
    locks,     \* the row locks it holds
    own,       \* the audit events it has inserted and not committed
    chain,     \* audit_events, as committed
    head,      \* audit_chain_head, as committed
    taskState, query, artifact, receipt,   \* the committed rows
    stored,    \* the committed content-addressed rows
    marker,    \* whether v4_cutover_state has its row, as committed
    legacy,    \* the tasks whose V1-V3 exposure ledger is committed
    lost,      \* connections lost so far
    prover,    \* an inclusion proof being read
    verifier   \* a run of VerifyAuditChain

txVars == <<kind, status, next, archives, locks, own>>
rowVars == <<chain, head, taskState, query, artifact, receipt, stored, marker, legacy>>
vars == <<scene, txVars, rowVars, lost, prover, verifier>>

Txs == DOMAIN scene.jobs
Job == scene.jobs
Start == scene.start
Stores == scene.stores
Profile == scene.profile
Queries == DOMAIN Start
Tasks == {Job[x].task : x \in Txs}
Owner(q) == Job[CHOOSE x \in Txs : Job[x].query = q].task

\* The exposure of a task is accounted in bitmaps over published ordinals.
Ordinal(t) == Profile[t] \in {"v4", "v5"}

-----------------------------------------------------------------------------
(* Row locks, as PostgreSQL grants them. *)

KeyShare == "FOR KEY SHARE"
Share == "FOR SHARE"
NoKeyUpdate == "FOR NO KEY UPDATE"
Update == "FOR UPDATE"

\* Which modes exclude each other on one row.
Conflicting == {{KeyShare, Update}, {Share, NoKeyUpdate}, {Share, Update},
                {NoKeyUpdate}, {NoKeyUpdate, Update}, {Update}}
Excludes(mode, other) == {mode, other} \in Conflicting

HeadRow == <<"audit_chain_head">>
TaskRow(t) == <<"tasks", t>>
LedgerRow(t) == <<"budget_ledger", t>>
BindingRow(t) == <<"task_view_binding_status", t>>
CallbackRow(t) == <<"callback_idempotency", t>>
QueryRow(q) == <<"query_records", q>>
ReservationRow(q) == <<"exposure_reservations", q>>
ArtifactRow(q) == <<"result_artifacts", q>>
ContentRow(c) == <<"content-addressed row", c>>
RootRow == <<"exposure_root_heads">>
KeyRow == <<"result_encryption_keys">>
CutoverLock == <<"advisory lock of the cutover">>

Lock(row, mode) == [row |-> row, mode |-> mode, event |-> "none"]

appendUnlocked(type) == [row |-> HeadRow, mode |-> "none", event |-> type]   \* mutant

\* appendAuditTx: the head row is locked, then the event is inserted and the
\* head row updated.
appendAudit(type) == [row |-> HeadRow, mode |-> Update, event |-> type]

cutoverUnlocked == Lock(CutoverLock, "none")   \* mutant

\* The triggers before every insertion the cutover guards: an advisory lock
\* that is held to the end of the transaction, and only then a look at the
\* committed rows.
cutoverGuard == Lock(CutoverLock, Update)

\* enforce_v4_clean_cutover: what activation is refused for.  A query in
\* flight counts unless its grant is V4, so a V5 query in flight counts too.
LegacyState ==
    \/ legacy # {}
    \/ \E q \in Queries : query[q] = "RESERVED" /\ Profile[Owner(q)] # "v4"

-----------------------------------------------------------------------------
(* The programs. *)

\* UPDATE tasks ... WHERE state <> 'ARCHIVED', then its event.
archiveTask(t) == <<Lock(TaskRow(t), NoKeyUpdate), appendAudit("TASK_STATE_CHANGED")>>

settleBudget(t, q, type) ==
    <<Lock(QueryRow(q), Update), Lock(LedgerRow(t), Update), appendAudit(type)>>

\* The steps on the family's exposure, for a task that has a profile.
IfExposed(t, steps) == IF Profile[t] = "none" THEN <<>> ELSE steps

\* The query row is the one an earlier delivery of the request inserted; the
\* exposure reservation refers to the ledger row of its family.
ReserveBudget(t, q) ==
    <<Lock(TaskRow(t), Update), Lock(QueryRow(q), Update), Lock(LedgerRow(t), Update), cutoverGuard>>
    \o IfExposed(t, <<Lock(RootRow, KeyShare)>>)
    \o <<appendAudit("QUERY_BUDGET_RESERVED")>>

\* Content is inserted ON CONFLICT DO NOTHING: the insertion waits for
\* another transaction that is inserting the same content.  Containers come set
\* by set, V5 hash blocks in the order of a map, which is any order.
storeObservation(q) == [i \in 1..Len(Stores[q]) |-> Lock(ContentRow(Stores[q][i]), Update)]

\* An ordinal settlement stores its observation and moves the root head; one of
\* V1 to V3 locks the family's ledger and then inserts facts, which are guarded.
settleExposure(t, q) ==
    IF Ordinal(t) THEN Append(storeObservation(q), Lock(RootRow, NoKeyUpdate))
    ELSE <<Lock(RootRow, Update), cutoverGuard>>

\* Inserting the artifact row takes the key row and, through its foreign
\* keys, the query row and the task row; the registration event is the one
\* after the terminal event, and the task is archived only after it.
FinalizeQuery(t, q, archive) ==
    <<Lock(KeyRow, Share), Lock(QueryRow(q), KeyShare), Lock(TaskRow(t), KeyShare),
      Lock(ReservationRow(q), Update)>>
    \o settleExposure(t, q)
    \o <<appendAudit("EXPOSURE_SETTLED")>>
    \o settleBudget(t, q, "QUERY_COMPLETED")
    \o <<appendAudit("QUERY_RESULT_OBJECT_REGISTERED")>>
    \o IF archive THEN archiveTask(t) ELSE <<>>

FailBudget(t, q, archive) ==
    IfExposed(t, <<Lock(ReservationRow(q), Update), appendAudit("EXPOSURE_RELEASED")>>)
    \o settleBudget(t, q, "QUERY_FAILED")
    \o IF archive THEN archiveTask(t) ELSE <<>>

TransitionTask(t) == <<Lock(TaskRow(t), Update), appendAudit("TASK_STATE_CHANGED")>>

CreateTask(parent) == <<Lock(TaskRow(parent), Share), appendAudit("TASK_CREATED")>>

\* insertGrantAndBudget: the grant is guarded, an ordinal grant activates the
\* cutover, and the family's ledger is locked or created.
ApplyApprovalCallback(t) ==
    <<Lock(CallbackRow(t), Update), Lock(TaskRow(t), Update), cutoverGuard>>
    \o IfExposed(t, <<Lock(RootRow, Update)>>)
    \o <<appendAudit("APPROVAL_CALLBACK_APPLIED")>>

\* A gateway starts, with a catalog that has ordinal profiles (activate) or not (serve).
EnforceExposureDeploymentMode == <<cutoverGuard>>

MarkTaskViewSemanticChanged(t) ==
    <<Lock(TaskRow(t), Update), Lock(BindingRow(t), Update), appendAudit("TASK_VIEW_SEMANTIC_CHANGED")>>

SetResultRetentionHold(t) == <<Lock(TaskRow(t), Update), appendAudit("RETENTION_HOLD_SET")>>

MarkResultArtifactAvailable(q) ==
    <<Lock(ArtifactRow(q), Update), Lock(KeyRow, Share), appendAudit("QUERY_RESULT_CONSUMED")>>

ClaimThenLockTask(t, q) ==   \* mutant
    <<Lock(ArtifactRow(q), Update), appendAudit("RESULT_DELETING"), Lock(TaskRow(t), Update)>>

ClaimResultArtifactDeletion(t, q) ==
    <<Lock(ArtifactRow(q), Update), Lock(TaskRow(t), Update), appendAudit("RESULT_DELETING")>>

EraseResultEncryptionKey == <<Lock(KeyRow, Update), appendAudit("RESULT_ENCRYPTION_KEY_ERASED")>>

AppendAuditEvent == <<appendAudit("EVENT")>>

Program(x) ==
    LET t == Job[x].task
        q == Job[x].query
    IN  CASE kind[x] = "reserve" -> ReserveBudget(t, q)
          [] kind[x] = "finalize" -> FinalizeQuery(t, q, archives[x])
          [] kind[x] = "fail" -> FailBudget(t, q, archives[x])
          [] kind[x] = "transition" -> TransitionTask(t)
          [] kind[x] = "create" -> CreateTask(t)
          [] kind[x] = "callback" -> ApplyApprovalCallback(t)
          [] kind[x] = "rebind" -> MarkTaskViewSemanticChanged(t)
          [] kind[x] = "hold" -> SetResultRetentionHold(t)
          [] kind[x] = "available" -> MarkResultArtifactAvailable(q)
          [] kind[x] = "purge" -> ClaimResultArtifactDeletion(t, q)
          [] kind[x] = "erase" -> EraseResultEncryptionKey
          [] kind[x] \in {"activate", "serve"} -> EnforceExposureDeploymentMode
          [] OTHER -> AppendAuditEvent

Settlement(k) == k \in {"finalize", "fail"}

TargetStatus(k) == IF k = "finalize" THEN "COMPLETED" ELSE "FAILED"

\* The steps at which a settlement looks at what became of its query.
Claims(s, q) == s.row = ReservationRow(q) \/ (s.row = QueryRow(q) /\ s.mode = Update)

\* What the triggers, and activateV4CutoverTx after them, let through.
Passes(x) ==
    LET t == Job[x].task
    IN  CASE kind[x] = "activate" -> ~LegacyState
          [] kind[x] = "callback" /\ Ordinal(t) -> marker \/ ~LegacyState
          [] kind[x] = "reserve" -> marker => Ordinal(t)
          [] OTHER -> ~marker

\* What the method finds once it holds the row of step s; a method that
\* does not find it returns an error, and its transaction is rolled back.
Accepts(x, s) ==
    LET t == Job[x].task
        q == Job[x].query
    IN  CASE s.row = CutoverLock -> Passes(x)
          [] kind[x] \in {"transition", "create", "hold"} /\ s.row = TaskRow(t) ->
                kind[x] = "hold" \/ taskState[t] = "ACTIVE"
          [] kind[x] = "rebind" /\ s.row = BindingRow(t) -> taskState[t] # "AWAITING_APPROVAL"
          [] kind[x] = "callback" /\ s.row = TaskRow(t) -> taskState[t] = "AWAITING_APPROVAL"
          [] kind[x] = "reserve" /\ s.row = QueryRow(q) -> query[q] = "NONE" /\ taskState[t] = "ACTIVE"
          [] kind[x] = "reserve" /\ s.row = LedgerRow(t) ->
                \A y \in Txs : Job[y].task = t /\ Job[y].query # "none" => query[Job[y].query] # "RESERVED"
          [] Settlement(kind[x]) /\ Claims(s, q) -> query[q] = "RESERVED"
          [] kind[x] = "available" /\ s.row = ArtifactRow(q) -> artifact[q] = "PENDING"
          [] kind[x] = "purge" /\ s.row = ArtifactRow(q) -> artifact[q] = "AVAILABLE"
          [] kind[x] = "erase" /\ s.row = KeyRow -> \A p \in Queries : artifact[p] # "PENDING"
          [] OTHER -> TRUE

\* A settlement or a promotion delivered again: the stored result is returned.
Replays(x, s) ==
    LET q == Job[x].query
    IN  \/ Settlement(kind[x]) /\ Claims(s, q) /\ query[q] = TargetStatus(kind[x])
        \/ kind[x] = "available" /\ s.row = ArtifactRow(q) /\ artifact[q] = "AVAILABLE"

ArchivesAgain(x, s) == FALSE   \* mutant

\* archiveTaskTx finds no row to update, and appends nothing.
NothingToArchive(x, s) ==
    /\ Settlement(kind[x])
    /\ s.row = TaskRow(Job[x].task) /\ s.mode = NoKeyUpdate
    /\ taskState[Job[x].task] = "ARCHIVED"

\* Content that is there already is neither inserted nor waited for.
AlreadyStored(s) == s.row[1] = "content-addressed row" /\ s.row[2] \in stored

-----------------------------------------------------------------------------
(* Waiting. *)

AtStep(x) == status[x] = "running" /\ next[x] <= Len(Program(x))

StepOf(x) == Program(x)[next[x]]

\* The transactions whose locks step s of x waits for.
Blockers(x) ==
    IF ~AtStep(x) THEN {}
    ELSE LET s == StepOf(x)
         IN  IF NothingToArchive(x, s) \/ AlreadyStored(s) THEN {}
             ELSE {y \in Txs \ {x} : \E held \in locks[y] : held.row = s.row /\ Excludes(held.mode, s.mode)}

\* Everything x waits for, through any number of others.
WaitsFor(x) ==
    LET reach[n \in 0..Cardinality(Txs)] ==
          IF n = 0 THEN Blockers(x)
          ELSE reach[n - 1] \union UNION {Blockers(y) : y \in reach[n - 1]}
    IN  reach[Cardinality(Txs)]

InCycle(x) == Blockers(x) # {} /\ x \in WaitsFor(x)

Cycle(x) == {y \in WaitsFor(x) : x \in WaitsFor(y)}

-----------------------------------------------------------------------------
\* The tasks exist, and the queries and results of Start with them.
Init ==
    /\ scene \in Scenarios
    /\ kind = [x \in Txs |-> Job[x].kind]
    /\ status = [x \in Txs |-> "idle"]
    /\ next = [x \in Txs |-> 1]
    /\ archives = [x \in Txs |-> FALSE]
    /\ locks = [x \in Txs |-> {}]
    /\ own = [x \in Txs |-> <<>>]
    /\ chain = <<NextEvent(GenesisHead, [type |-> "TASK_CREATED", task |-> "none", query |-> "none"])>>
    /\ head = HeadOf(chain)
    /\ taskState = [t \in Tasks |-> IF \E x \in Txs : Job[x].kind = "callback" /\ Job[x].task = t
                                    THEN "AWAITING_APPROVAL" ELSE "ACTIVE"]
    /\ query = [q \in Queries |-> Start[q].query]
    /\ artifact = [q \in Queries |-> Start[q].artifact]
    /\ receipt = [q \in Queries |-> <<>>]
    /\ stored = {}
    /\ legacy = {t \in Tasks : Profile[t] = "v3" /\ taskState[t] = "ACTIVE"}
    /\ marker = (\E t \in Tasks : Ordinal(t) /\ taskState[t] = "ACTIVE")
    /\ lost = 0
    /\ prover = [pc |-> "idle"]
    /\ verifier = [pc |-> "idle"]

Begin(x) ==
    /\ status[x] = "idle"
    /\ Settlement(kind[x]) => query[Job[x].query] # "NONE"
    /\ status' = [status EXCEPT ![x] = "running"]
    /\ \E reached \in BOOLEAN :
          /\ reached => Settlement(kind[x])
          /\ archives' = [archives EXCEPT ![x] = reached]
    /\ UNCHANGED <<scene, kind, next, locks, own, rowVars, lost, prover, verifier>>

\* The head as the transaction sees it: its own events come last.
HeadSeen(x) == IF own[x] = <<>> THEN head ELSE HeadOf(own[x])

Inserted(x, s) ==
    IF s.event = "none" THEN own[x]
    ELSE Append(own[x], NextEvent(HeadSeen(x), [type |-> s.event, task |-> Job[x].task,
                                                query |-> Job[x].query]))

\* One statement: it waits for the row, locks it and goes on.
Statement(x) ==
    /\ AtStep(x) /\ Blockers(x) = {}
    /\ LET s == StepOf(x)
       IN  /\ ~NothingToArchive(x, s) /\ Accepts(x, s)
           /\ locks' = IF AlreadyStored(s) THEN locks
                       ELSE [locks EXCEPT ![x] = @ \union {[row |-> s.row, mode |-> s.mode]}]
           /\ own' = [own EXCEPT ![x] = Inserted(x, s)]
    /\ next' = [next EXCEPT ![x] = @ + 1]
    /\ UNCHANGED <<scene, kind, status, archives, rowVars, lost, prover, verifier>>

SkipArchive(x) ==
    /\ AtStep(x) /\ NothingToArchive(x, StepOf(x))
    /\ next' = [next EXCEPT ![x] = @ + 2]
    /\ UNCHANGED <<scene, kind, status, archives, locks, own, rowVars, lost, prover, verifier>>

\* The transaction is gone and its locks with it.
Ended(x, outcome, job) ==
    /\ status' = [status EXCEPT ![x] = outcome]
    /\ kind' = [kind EXCEPT ![x] = job]
    /\ next' = [next EXCEPT ![x] = 1]
    /\ archives' = [archives EXCEPT ![x] = FALSE]
    /\ locks' = [locks EXCEPT ![x] = {}]
    /\ own' = [own EXCEPT ![x] = <<>>]

Refuse(x) ==
    /\ AtStep(x) /\ Blockers(x) = {}
    /\ LET s == StepOf(x) IN ~Accepts(x, s) /\ ~Replays(x, s)
    /\ Ended(x, "refused", kind[x])
    /\ UNCHANGED <<scene, rowVars, lost, prover, verifier>>

Replay(x) ==
    /\ AtStep(x) /\ Blockers(x) = {}
    /\ Replays(x, StepOf(x))
    /\ Ended(x, "done", kind[x])
    /\ UNCHANGED <<scene, rowVars, lost, prover, verifier>>

RolledBackForGood(x) == Ended(x, "refused", kind[x])   \* mutant

\* What a rolled-back transaction's caller does next: the query worker fails
\* a query it could not finalize and keeps trying to settle it, an
\* administrative call reports the conflict to its client.
RolledBack(x) ==
    IF Settlement(kind[x]) THEN Ended(x, "idle", "fail") ELSE Ended(x, "refused", kind[x])

TerminalTypes == {"QUERY_COMPLETED", "QUERY_FAILED"}

IsTerminal(event) == event.body.type \in TerminalTypes

Commit(x) ==
    LET q       == Job[x].query
        written == {own[x][i] : i \in 1..Len(own[x])}
        has(type) == \E event \in written : event.body.type = type
    IN  /\ status[x] = "running" /\ next[x] > Len(Program(x))
        /\ chain' = chain \o own[x]
        /\ head' = HeadSeen(x)
        /\ taskState' = CASE kind[x] = "callback" -> [taskState EXCEPT ![Job[x].task] = "ACTIVE"]
                          [] has("TASK_STATE_CHANGED") -> [taskState EXCEPT ![Job[x].task] = "ARCHIVED"]
                          [] OTHER -> taskState
        /\ marker' = (marker \/ kind[x] = "activate" \/ (kind[x] = "callback" /\ Ordinal(Job[x].task)))
        /\ legacy' = IF kind[x] = "callback" /\ Profile[Job[x].task] = "v3"
                     THEN legacy \union {Job[x].task} ELSE legacy
        /\ query' = IF kind[x] = "reserve" THEN [query EXCEPT ![q] = "RESERVED"]
                    ELSE IF Settlement(kind[x]) THEN [query EXCEPT ![q] = TargetStatus(kind[x])]
                    ELSE query
        /\ artifact' = CASE kind[x] = "finalize" -> [artifact EXCEPT ![q] = "PENDING"]
                         [] kind[x] = "available" -> [artifact EXCEPT ![q] = "AVAILABLE"]
                         [] kind[x] = "purge" -> [artifact EXCEPT ![q] = "DELETING"]
                         [] OTHER -> artifact
        \* persistTerminalReceiptTx signs the terminal event it is given
        /\ receipt' = IF Settlement(kind[x])
                      THEN [receipt EXCEPT ![q] = <<HeadAfter(CHOOSE e \in written : IsTerminal(e))>>]
                      ELSE receipt
        /\ stored' = IF kind[x] = "finalize" THEN stored \union {Stores[q][i] : i \in 1..Len(Stores[q])}
                     ELSE stored
        /\ Ended(x, "done", kind[x])
        /\ UNCHANGED <<scene, lost, prover, verifier>>

\* PostgreSQL aborts a transaction that waits for itself.
DeadlockAbort(x) ==
    /\ InCycle(x)
    /\ RolledBack(x)
    /\ UNCHANGED <<scene, rowVars, lost, prover, verifier>>

\* The connection is lost before the commit.
ConnectionLost(x) ==
    /\ status[x] = "running" /\ lost < scene.maxLost
    /\ lost' = lost + 1
    /\ RolledBack(x)
    /\ UNCHANGED <<scene, rowVars, prover, verifier>>

\* The answer to a commit is lost: the settlement is delivered again.
AnswerLost(x) ==
    /\ status[x] = "done" /\ Settlement(kind[x]) /\ lost < scene.maxLost
    /\ lost' = lost + 1
    /\ status' = [status EXCEPT ![x] = "idle"]
    /\ UNCHANGED <<scene, kind, next, archives, locks, own, rowVars, prover, verifier>>

-----------------------------------------------------------------------------
(* Readers without locks. *)

EventsAfter(after, through) == SubSeq(chain, after + 1, Len(chain))   \* mutant

EventsIn(after, through) == SubSeq(chain, after + 1, IF through < Len(chain) THEN through ELSE Len(chain))

\* auditInclusionProof: the checkpoint first, then the predecessor, then the
\* events up to the checkpoint.
ReadCheckpoint ==
    /\ prover.pc = "idle" /\ "prover" \in scene.auditors
    /\ \E i \in 1..Len(chain) :
          /\ IsTerminal(chain[i])
          /\ prover' = [pc |-> "predecessor", terminal |-> chain[i], checkpoint |-> head]
    /\ UNCHANGED <<scene, txVars, rowVars, lost, verifier>>

ReadPredecessor ==
    /\ prover.pc = "predecessor"
    /\ LET n == prover.terminal.sequence
       IN  prover' = [pc |-> "successors", terminal |-> prover.terminal, checkpoint |-> prover.checkpoint,
                      predecessor |-> IF n > 1 THEN <<chain[n - 1]>> ELSE <<>>]
    /\ UNCHANGED <<scene, txVars, rowVars, lost, verifier>>

ReadSuccessors ==
    /\ prover.pc = "successors"
    /\ prover' = [pc |-> "proved", terminal |-> prover.terminal, predecessor |-> prover.predecessor,
                  checkpoint |-> prover.checkpoint,
                  successors |-> EventsIn(prover.terminal.sequence, prover.checkpoint.sequence)]
    /\ UNCHANGED <<scene, txVars, rowVars, lost, verifier>>

\* VerifyAuditChain: every event, then the head row.
VerifierReadsEvents ==
    /\ verifier.pc = "idle" /\ "verifier" \in scene.auditors
    /\ verifier' = [pc |-> "head", events |-> chain]
    /\ UNCHANGED <<scene, txVars, rowVars, lost, prover>>

VerifierReadsHead ==
    /\ verifier.pc = "head"
    /\ verifier' = [pc |-> IF VerifyLinear(verifier.events, head) THEN "intact" ELSE "broken",
                    events |-> verifier.events, head |-> head]
    /\ UNCHANGED <<scene, txVars, rowVars, lost, prover>>

Finished ==
    /\ \A x \in Txs : \/ status[x] \in {"done", "refused"}
                      \/ status[x] = "idle" /\ Settlement(kind[x]) /\ query[Job[x].query] = "NONE"
    /\ UNCHANGED vars

Next ==
    \/ \E x \in Txs : \/ Begin(x) \/ Statement(x) \/ SkipArchive(x) \/ Refuse(x) \/ Replay(x)
                      \/ Commit(x) \/ DeadlockAbort(x) \/ ConnectionLost(x) \/ AnswerLost(x)
    \/ ReadCheckpoint \/ ReadPredecessor \/ ReadSuccessors
    \/ VerifierReadsEvents \/ VerifierReadsHead
    \/ Finished

Spec == Init /\ [][Next]_vars

\* The numbers transactions have in one scenario or another.
AllTxs == UNION {DOMAIN s.jobs : s \in Scenarios}

\* A client waits for its answer, so a started transaction is run on; the
\* worker starts its settlements again; PostgreSQL breaks every deadlock and
\* hands a row it has waiters for to one of them, so that no statement waits
\* for ever on a row that is released again and again (strong fairness).
Proceed(x) ==
    \/ Begin(x) \/ Statement(x) \/ SkipArchive(x) \/ Refuse(x) \/ Replay(x) \/ Commit(x)
FairSpec ==
    /\ Spec
    /\ \A x \in AllTxs : SF_vars(x \in Txs /\ Proceed(x))
    /\ WF_vars(\E x \in Txs : DeadlockAbort(x))

-----------------------------------------------------------------------------
(* Properties. *)

\* Whatever transactions interleave, are rolled back or are aborted, the
\* committed events are one contiguous hash chain from the genesis hash, and
\* the committed head row is its last event (appendAuditTx takes the next
\* sequence and the previous hash from the head row it has locked).
ChainVerifies == VerifyLinear(chain, head)

\* Transactions wait for each other in a cycle in four ways only.  A
\* settlement reaches a hard limit: it holds the chain head when archiveTaskTx
\* asks for the task row, which every other transaction locks before the
\* head.  Or a request delivered again, which locks its task and then its
\* query, meets the finalization of the same query, whose artifact row refers
\* to the query first and to the task after it.  Or finalizations store the
\* same new content in opposite orders: containers, one for its released and
\* the other for its influencing facts, or hash blocks.  Or a settlement of V1 to V3, which locks its
\* family's ledger before it inserts facts under the lock of the cutover, meets
\* an approval or a reservation in the family, which take the two in the
\* opposite order.  No other transactions of the store can bring a
\* deadlock about.
CyclesAreKnown ==
    \A x \in Txs : InCycle(x) =>
        \/ \E y \in Cycle(x) : archives[y] /\ StepOf(y).row = TaskRow(Job[y].task)
        \/ \E y, z \in Cycle(x) : /\ kind[y] = "reserve" /\ StepOf(y).row = QueryRow(Job[z].query)
                                 /\ kind[z] = "finalize" /\ StepOf(z).row = TaskRow(Job[y].task)
        \/ \A y \in Cycle(x) : StepOf(y).row[1] = "content-addressed row"
        \/ \E y, z \in Cycle(x) : /\ kind[y] = "finalize" /\ StepOf(y).row = CutoverLock
                                 /\ kind[z] \in {"callback", "reserve"} /\ StepOf(z).row = RootRow

\* Once the cutover marker is committed there is no V1-V3 ledger and no query
\* in flight under a grant without ordinals, and there never is one again,
\* however a start-up, an approval and a reservation interleave: the advisory
\* lock orders every guarded insertion with the activation.
CutoverIsClean ==
    marker => /\ legacy = {}
              /\ \A q \in Queries : query[q] = "RESERVED" => Ordinal(Owner(q))

\* A query has a terminal event exactly when its row is terminal, never two,
\* and its receipt names that event; a task has at most one event of its end.
\* This holds through victims, lost connections, repeated deliveries of the
\* settlement, and settlements that waited for a task row which another
\* transaction archived in between.
TerminalOnceWithReceipt ==
    /\ \A q \in Queries :
          LET terminal == {i \in 1..Len(chain) : IsTerminal(chain[i]) /\ chain[i].body.query = q}
          IN  Start[q].query \in {"NONE", "RESERVED"} =>
                /\ Cardinality(terminal) = (IF query[q] \in {"COMPLETED", "FAILED"} THEN 1 ELSE 0)
                /\ \A i \in terminal : receipt[q] = <<HeadAfter(chain[i])>>
    /\ \A t \in Tasks :
          Cardinality({i \in 1..Len(chain) : chain[i].body.type = "TASK_STATE_CHANGED"
                                            /\ chain[i].body.task = t}) <= 1

\* An inclusion proof put together from separate reads verifies whatever was
\* committed between them, because the checkpoint is read first.
ProofsVerify == prover.pc = "proved" => VerifyInclusion(prover)

\* VerifyAuditChain reports a broken chain that is intact only when a
\* transaction committed between its two reads; it then disagrees about the
\* head and about nothing else.
AlarmIsStaleHead ==
    verifier.pc = "broken" =>
        /\ VerifyLinear(verifier.events, HeadOf(verifier.events))
        /\ verifier.head.sequence > Len(verifier.events)

\* Every query reserved is settled in the end, and stays so: a settlement chosen
\* as the victim of a deadlock, or cut off, is tried again and gets through.
SettlementsEnd == <>[](\A q \in Queries : query[q] # "RESERVED")
=============================================================================

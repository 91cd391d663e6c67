-------------------------- MODULE QueryWorkerProofs --------------------------
(***************************************************************************)
(* Proofs about the budget ledger and its workers, for every set of tasks  *)
(* and requests and every limit.                                           *)
(*                                                                         *)
(* The first part is about ControlLedger alone.  Its invariants are not    *)
(* inductive one by one: that a settlement keeps the ledger within its     *)
(* limits needs that the ledger holds exactly the reservation being        *)
(* settled, which needs that an open reservation always shows as one       *)
(* reserved query.  IInv puts them together, with the reservation stated   *)
(* request by request.                                                     *)
(*                                                                         *)
(* The second part shows that the gateway's workers implement the ledger's *)
(* specification, so every theorem about the ledger holds of the gateway,  *)
(* and that what the settlement retries rely on holds.                     *)
(***************************************************************************)
EXTENDS QueryWorker, TLAPS

\* ByRequest form of ReservationIsLedger, with the reserved query it counts.
ByRequest ==
  /\ \A r \in Request : query[r].status = "RESERVED" =>
       reserved[TaskOf[r]] = query[r].reserved /\ query[r].reserved.queries = 1
  /\ \A r, s \in Request :
       query[r].status = "RESERVED" /\ query[s].status = "RESERVED" /\ TaskOf[r] = TaskOf[s] => r = s
  /\ \A t \in Task :
       (\A r \in Request : TaskOf[r] = t => query[r].status # "RESERVED") => reserved[t] = Zero

IInv ==
  /\ LedgerTypeOK
  /\ ByRequest
  /\ WithinHardLimit
  /\ ExposureFollowsQuery
  /\ UsedUpIsArchived
  /\ AuditedOnce
-----------------------------------------------------------------------------
(* Amounts *)

\* Amounts are closed under addition, and under subtraction of a smaller one.
LEMMA AmountArithmetic ==
  ASSUME NEW a \in Amount, NEW b \in Amount
  PROVE  /\ Plus(a, b) \in Amount
         /\ AtMost(b, a) => Minus(a, b) \in Amount
         /\ Minus(a, a) = Zero
         /\ Plus(a, Zero) = a
         /\ Zero \in Amount
         /\ AtMost(a, Plus(a, b))
  BY DEF Amount, Plus, Minus, AtMost, Zero

\* A first call that passes the checks of ReserveBudget is granted one query and an
\* amount that still fits the limits.
LEMMA AllowedFits ==
  ASSUME LedgerTypeOK, NEW t \in Task, NEW ask \in Use, ~Exhausted(t), reserved[t] = Zero,
         AtMost(Plus(used[t], reserved[t]), Limit[t])
  PROVE  /\ Allowed(t, ask) \in Amount
         /\ Allowed(t, ask).queries = 1
         /\ Plus(reserved[t], Allowed(t, ask)) = Allowed(t, ask)
         /\ AtMost(Plus(used[t], Allowed(t, ask)), Limit[t])
  <1>1. /\ used[t] \in Amount /\ Limit[t] \in [queries : Nat, rows : Nat, db_ms : Nat]
        /\ ask.rows \in Nat /\ ask.db_ms \in Nat
    BY LedgerAssumption, Zenon DEF LedgerTypeOK, Use
  <1>2. /\ Remaining(t).queries = Limit[t].queries - used[t].queries
        /\ Remaining(t).rows = Limit[t].rows - used[t].rows
        /\ Remaining(t).db_ms = Limit[t].db_ms - used[t].db_ms
    <2>1. /\ used[t].queries \in Nat /\ used[t].rows \in Nat /\ used[t].db_ms \in Nat
          /\ Limit[t].queries \in Nat /\ Limit[t].rows \in Nat /\ Limit[t].db_ms \in Nat
      BY <1>1, Zenon DEF Amount
    <2>2. /\ used[t].queries <= Limit[t].queries /\ used[t].rows <= Limit[t].rows
          /\ used[t].db_ms <= Limit[t].db_ms
      BY <2>1 DEF AtMost, Plus, Zero
    <2>3. \A m \in Nat, n \in Nat : n <= m => NonNegative((m - n) - 0) = m - n
      BY DEF NonNegative
    <2>4. /\ Remaining(t).queries = NonNegative((Limit[t].queries - used[t].queries) - 0)
          /\ Remaining(t).rows = NonNegative((Limit[t].rows - used[t].rows) - 0)
          /\ Remaining(t).db_ms = NonNegative((Limit[t].db_ms - used[t].db_ms) - 0)
      BY DEF Remaining, Minus, Zero
    <2> QED BY <2>1, <2>2, <2>3, <2>4, Zenon
  <1>3. /\ Granted(ask.rows, Remaining(t).rows) \in 0 .. Remaining(t).rows
        /\ Granted(ask.db_ms, Remaining(t).db_ms) \in 0 .. Remaining(t).db_ms
    BY <1>1, <1>2 DEF Granted, Exhausted, Amount
  <1> QED
    BY <1>1, <1>2, <1>3 DEF Allowed, Exhausted, Amount, AtMost, Plus, Zero

\* In every state of the invariant, what recovery charges a task is what the task
\* has reserved.
LEMMA RecoveredIsReserved ==
  ASSUME LedgerTypeOK, ByRequest, NEW t \in Task
  PROVE  RecoveredCharge(t) = reserved[t]
  <1>1. CASE OpenRequests(t) = {}
    BY <1>1, Zenon DEF RecoveredCharge, OpenRequests, ByRequest
  <1>2. CASE OpenRequests(t) # {}
    <2>1. Interrupted(t) \in OpenRequests(t)
      BY <1>2, Zenon DEF Interrupted
    <2> QED
      BY <1>2, <2>1, Zenon DEF RecoveredCharge, OpenRequests, ByRequest
  <1> QED BY <1>1, <1>2, Zenon
-----------------------------------------------------------------------------
(* The step of each transaction *)

TaskType == [state : {"ACTIVE", "ARCHIVED"}, reason : Reason \cup {"none"}]

\* archiveTaskTx archives, keeps what was archived before, and audits once.
LEMMA ArchiveStep ==
  ASSUME LedgerTypeOK, AuditedOnce, NEW tasks, NEW reason,
         \A t \in tasks \cap Task : reason[t] \in Reason,
         Archive(tasks, reason)
  PROVE  /\ task' \in [Task -> TaskType]
         /\ taskAudits' \in [Task -> Nat]
         /\ \A t \in Task : task[t].state = "ARCHIVED" => task'[t] = task[t]
         /\ \A t \in tasks \cap Task : task'[t].state = "ARCHIVED"
         /\ \A t \in Task : taskAudits'[t] = IF task'[t].state = "ARCHIVED" THEN 1 ELSE 0
  <1> DEFINE open == {t \in tasks : task[t].state # "ARCHIVED"}
  <1>1. /\ task' = [t \in Task |-> IF t \in open THEN [state |-> "ARCHIVED", reason |-> reason[t]]
                                   ELSE task[t]]
        /\ taskAudits' = [t \in Task |-> IF t \in open THEN taskAudits[t] + 1 ELSE taskAudits[t]]
    BY Zenon DEF Archive
  <1>2. /\ task \in [Task -> TaskType] /\ taskAudits \in [Task -> Nat]
        /\ \A t \in Task : taskAudits[t] = IF task[t].state = "ARCHIVED" THEN 1 ELSE 0
    BY Zenon DEF LedgerTypeOK, AuditedOnce, TaskType
  <1>3. ASSUME NEW t \in Task
        PROVE  /\ task'[t] \in TaskType /\ taskAudits'[t] \in Nat
               /\ task[t].state = "ARCHIVED" => task'[t] = task[t]
               /\ t \in tasks => task'[t].state = "ARCHIVED"
               /\ taskAudits'[t] = IF task'[t].state = "ARCHIVED" THEN 1 ELSE 0
    <2>1. CASE t \in open
      BY <1>1, <1>2, <2>1 DEF TaskType
    <2>2. CASE t \notin open
      BY <1>1, <1>2, <2>2, Zenon DEF TaskType
    <2> QED BY <2>1, <2>2, Zenon
  <1> QED BY <1>1, <1>3, Zenon

\* A reservation.
LEMMA ReserveStep ==
  ASSUME IInv, NEW r \in Request, NEW ask \in Use, ReserveBudget(r, ask)
  PROVE  IInv'
  <1> DEFINE t == TaskOf[r]
             a == Allowed(t, ask)
  <1>0. t \in Task
    BY LedgerAssumption, Zenon
  <1>1. /\ query[r].status = "NONE" /\ task[t].state = "ACTIVE" /\ reserved[t].queries = 0
        /\ ~Exhausted(t)
    BY Zenon DEF ReserveBudget, FirstCall, Admissible
  <1>2. \A s \in Request : TaskOf[s] = t => query[s].status # "RESERVED"
    BY <1>0, <1>1 DEF IInv, ByRequest
  <1>3. reserved[t] = Zero
    BY <1>0, <1>2, Zenon DEF IInv, ByRequest
  <1>4. /\ a \in Amount /\ a.queries = 1 /\ Plus(reserved[t], a) = a
        /\ AtMost(Plus(used[t], a), Limit[t])
    BY <1>0, <1>1, <1>3, AllowedFits, Zenon DEF IInv, WithinHardLimit
  <1>5. /\ reserved' = [reserved EXCEPT ![t] = a]
        /\ query' = [query EXCEPT ![r] = [status |-> "RESERVED", reserved |-> a, charged |-> Zero]]
        /\ exposure' = [exposure EXCEPT ![r] = "RESERVED"]
        /\ UNCHANGED <<task, expired, binding, used, queryAudits, taskAudits>>
    BY <1>4, Zenon DEF ReserveBudget
  <1> HIDE DEF a
  <1>6. LedgerTypeOK'
    BY <1>0, <1>4, <1>5, Zenon DEF IInv, LedgerTypeOK, QueryRecord, Zero, Amount
  <1>7. ByRequest'
    BY <1>0, <1>2, <1>4, <1>5 DEF IInv, LedgerTypeOK, QueryRecord, ByRequest
  <1>8. WithinHardLimit'
    BY <1>0, <1>4, <1>5, Zenon DEF IInv, LedgerTypeOK, WithinHardLimit
  <1>9. ExposureFollowsQuery'
    BY <1>5, Zenon DEF IInv, LedgerTypeOK, ExposureFollowsQuery
  <1>10. UsedUpIsArchived'
    BY <1>5, Zenon DEF IInv, UsedUpIsArchived, ReachesHardLimit
  <1>11. AuditedOnce'
    BY <1>1, <1>5, Zenon DEF IInv, LedgerTypeOK, AuditedOnce, Terminal
  <1> QED BY <1>6, <1>7, <1>8, <1>9, <1>10, <1>11, Zenon DEF IInv

\* A settlement; what is used does not shrink.
LEMMA SettleStep ==
  ASSUME IInv, NEW r \in Request, NEW status \in Terminal, NEW use \in Use,
         SettleBudget(r, status, use)
  PROVE  IInv' /\ AtMost(used[TaskOf[r]], used'[TaskOf[r]])
  <1> DEFINE t == TaskOf[r]
             held == query[r].reserved
             charge == Charge(status, use, held)
             total == Plus(used[t], charge)
  <1>0. t \in Task /\ use.rows \in Nat /\ use.db_ms \in Nat
    BY LedgerAssumption, Zenon DEF Use
  <1>1. /\ query[r].status = "RESERVED" /\ use.rows <= held.rows
        /\ AtMost(total, Limit[t])
    BY Zenon DEF SettleBudget, LedgerAccepts
  <1>2. /\ held \in Amount /\ held.queries = 1 /\ reserved[t] = held
        /\ used[t] \in Amount /\ reserved \in [Task -> Amount] /\ used \in [Task -> Amount]
        /\ query \in [Request -> QueryRecord]
    BY <1>0, <1>1, Zenon DEF IInv, LedgerTypeOK, ByRequest, QueryRecord
  <1>3. charge \in Amount
    BY <1>0, <1>1, <1>2, Zenon DEF Charge, Amount, Zero, Least
  <1>4. total \in Amount /\ Minus(reserved[t], held) = Zero /\ AtMost(used[t], total)
        /\ Plus(total, Zero) = total /\ Zero \in Amount
    BY <1>2, <1>3, AmountArithmetic, Zenon
  <1>5. /\ exposure' = [exposure EXCEPT ![r] = ExposureAfter(status)]
        /\ reserved' = [reserved EXCEPT ![t] = Zero]
        /\ used' = [used EXCEPT ![t] = total]
        /\ query' = [query EXCEPT ![r] = [status |-> status, reserved |-> held, charged |-> charge]]
        /\ queryAudits' = [queryAudits EXCEPT ![r] = @ + 1]
        /\ UNCHANGED <<expired, binding>>
    BY <1>4, Zenon DEF SettleBudget
  <1>6. \/ /\ ReachesHardLimit(t, status, total)
           /\ Archive({t}, [x \in {t} |-> "budget_exhausted"])
        \/ /\ ~ReachesHardLimit(t, status, total)
           /\ UNCHANGED <<task, taskAudits>>
    BY Zenon DEF SettleBudget
  <1>7. /\ task' \in [Task -> TaskType]
        /\ taskAudits' \in [Task -> Nat]
        /\ \A x \in Task : task[x].state = "ARCHIVED" => task'[x] = task[x]
        /\ ReachesHardLimit(t, status, total) => task'[t].state = "ARCHIVED"
        /\ \A x \in Task : taskAudits'[x] = IF task'[x].state = "ARCHIVED" THEN 1 ELSE 0
    <2>1. CASE ReachesHardLimit(t, status, total)
      <3>1. Archive({t}, [x \in {t} |-> "budget_exhausted"])
        BY <1>6, <2>1, Zenon
      <3>2. \A x \in {t} \cap Task : [y \in {t} |-> "budget_exhausted"][x] \in Reason
        BY Zenon DEF Reason
      <3>3. LedgerTypeOK /\ AuditedOnce
        BY Zenon DEF IInv
      <3> HIDE DEF t
      <3> QED BY <1>0, <3>1, <3>2, <3>3, ArchiveStep, Zenon
    <2>2. CASE ~ReachesHardLimit(t, status, total)
      BY <1>6, <2>2, Zenon DEF IInv, LedgerTypeOK, AuditedOnce, TaskType
    <2> QED BY <2>1, <2>2, Zenon
  <1> HIDE DEF total, charge, held
  <1>8. LedgerTypeOK'
    <2>1. query' \in [Request -> QueryRecord]
      <3>1. [status |-> status, reserved |-> held, charged |-> charge] \in QueryRecord
        BY <1>2, <1>3, Zenon DEF QueryRecord
      <3> QED BY <1>2, <1>5, <3>1, Zenon
    <2>2. /\ used' \in [Task -> Amount] /\ reserved' \in [Task -> Amount]
          /\ exposure' \in [Request -> {"NONE", "RESERVED", "SETTLED", "RELEASED"}]
          /\ queryAudits' \in [Request -> Nat]
      BY <1>0, <1>2, <1>4, <1>5 DEF IInv, LedgerTypeOK, ExposureAfter
    <2> QED BY <1>5, <1>7, <2>1, <2>2, Zenon DEF IInv, LedgerTypeOK, TaskType
  <1>9. ByRequest'
    BY <1>0, <1>1, <1>2, <1>5 DEF IInv, ByRequest, Terminal
  <1>10. WithinHardLimit'
    BY <1>0, <1>1, <1>2, <1>4, <1>5, Zenon DEF IInv, WithinHardLimit
  <1>11. ExposureFollowsQuery'
    BY <1>2, <1>5, Zenon DEF IInv, LedgerTypeOK, ExposureFollowsQuery, ExposureAfter, Terminal
  <1>12. UsedUpIsArchived'
    <2> SUFFICES ASSUME NEW x \in Task, ReachesHardLimit(x, "COMPLETED", used'[x])
                 PROVE  task'[x].state = "ARCHIVED"
      BY Zenon DEF UsedUpIsArchived, ReachesHardLimit
    <2>1. CASE x # t \/ status = "RELEASED"
      <3>1. used'[x] = used[x]
        BY <1>0, <1>2, <1>3, <1>5, <2>1, AmountArithmetic, Zenon DEF total, charge, Charge
      <3> QED BY <1>7, <3>1, Zenon DEF IInv, UsedUpIsArchived, ReachesHardLimit
    <2>2. CASE x = t /\ status # "RELEASED"
      BY <1>0, <1>2, <1>5, <1>7, <2>2, Zenon DEF ReachesHardLimit
    <2> QED BY <2>1, <2>2, Zenon
  <1>13. AuditedOnce'
    BY <1>1, <1>2, <1>5, <1>7 DEF IInv, LedgerTypeOK, AuditedOnce, Terminal
  <1>14. AtMost(used[t], used'[t])
    BY <1>0, <1>2, <1>4, <1>5, Zenon
  <1> QED BY <1>8, <1>9, <1>10, <1>11, <1>12, <1>13, <1>14, Zenon DEF IInv

\* Recovery turns the reserved amount of every task into used amount.
LEMMA RecoverStep ==
  ASSUME IInv, Recover
  PROVE  IInv' /\ \A t \in Task : AtMost(used[t], used'[t])
  <1> DEFINE usedUp == {t \in Task : OpenRequests(t) # {}
                                     /\ ReachesHardLimit(t, "INDETERMINATE", RecoveredTotal(t))}
             late == {t \in Task : expired[t]}
             reason == [t \in usedUp \cup late |->
                          IF t \in usedUp THEN "budget_exhausted" ELSE "expired"]
  <1>1. /\ used \in [Task -> Amount] /\ reserved \in [Task -> Amount]
        /\ query \in [Request -> QueryRecord] /\ LedgerTypeOK /\ ByRequest /\ AuditedOnce
    BY Zenon DEF IInv, LedgerTypeOK
  <1>2. \A t \in Task : RecoveredCharge(t) = reserved[t] /\ RecoveredTotal(t) = Plus(used[t], reserved[t])
    BY <1>1, RecoveredIsReserved, Zenon DEF RecoveredTotal
  <1>3. used' = [t \in Task |-> Plus(used[t], reserved[t])]
    BY <1>2, Zenon DEF Recover
  <1>4. reserved' = [t \in Task |-> Zero]
    <2>1. \A t \in Task : Minus(reserved[t], RecoveredCharge(t)) = Zero
      BY <1>1, <1>2, AmountArithmetic, Zenon
    <2> QED BY <2>1, Zenon DEF Recover
  <1>5. /\ exposure' = [r \in Request |-> IF query[r].status = "RESERVED" THEN "RELEASED"
                                          ELSE exposure[r]]
        /\ query' = [r \in Request |->
                       IF query[r].status = "RESERVED"
                       THEN [status |-> "INDETERMINATE", reserved |-> query[r].reserved,
                             charged |-> query[r].reserved]
                       ELSE query[r]]
        /\ queryAudits' = [r \in Request |-> IF query[r].status = "RESERVED" THEN queryAudits[r] + 1
                                             ELSE queryAudits[r]]
        /\ UNCHANGED <<expired, binding>>
    BY Zenon DEF Recover
  <1>6. /\ task' \in [Task -> TaskType]
        /\ taskAudits' \in [Task -> Nat]
        /\ \A t \in Task : task[t].state = "ARCHIVED" => task'[t] = task[t]
        /\ \A t \in usedUp : task'[t].state = "ARCHIVED"
        /\ \A t \in Task : taskAudits'[t] = IF task'[t].state = "ARCHIVED" THEN 1 ELSE 0
    <2>1. Archive(usedUp \cup late, reason)
      BY Zenon DEF Recover
    <2>2. \A t \in (usedUp \cup late) \cap Task : reason[t] \in Reason
      BY Zenon DEF Reason
    <2>3. usedUp \subseteq (usedUp \cup late) \cap Task
      BY Zenon
    <2> HIDE DEF usedUp, late, reason
    <2> QED BY <1>1, <2>1, <2>2, <2>3, ArchiveStep, Zenon
  <1>7. \A r \in Request : query'[r].status # "RESERVED"
    BY <1>5, Zenon
  <1>8. \A t \in Task : used'[t] \in Amount /\ AtMost(used[t], used'[t])
    BY <1>1, <1>3, AmountArithmetic, Zenon
  <1>9. LedgerTypeOK'
    <2>1. query' \in [Request -> QueryRecord]
      BY <1>1, <1>5, Zenon DEF QueryRecord, Terminal
    <2>2. used' \in [Task -> Amount] /\ reserved' \in [Task -> Amount]
      BY <1>3, <1>4, <1>8, Zenon DEF Amount, Zero
    <2>3. /\ exposure' \in [Request -> {"NONE", "RESERVED", "SETTLED", "RELEASED"}]
          /\ queryAudits' \in [Request -> Nat]
      BY <1>1, <1>5 DEF LedgerTypeOK
    <2> QED BY <1>1, <1>5, <1>6, <2>1, <2>2, <2>3, Zenon DEF LedgerTypeOK, TaskType
  <1>10. ByRequest'
    BY <1>4, <1>7, Zenon DEF ByRequest
  <1>11. WithinHardLimit'
    <2>1. \A t \in Task : Plus(used'[t], reserved'[t]) = Plus(used[t], reserved[t])
      BY <1>1, <1>3, <1>4, <1>8, AmountArithmetic, Zenon
    <2> QED BY <2>1, Zenon DEF IInv, WithinHardLimit
  <1>12. ExposureFollowsQuery'
    BY <1>1, <1>5, Zenon DEF IInv, LedgerTypeOK, ExposureFollowsQuery
  <1>13. UsedUpIsArchived'
    <2> SUFFICES ASSUME NEW t \in Task, ReachesHardLimit(t, "COMPLETED", used'[t])
                 PROVE  task'[t].state = "ARCHIVED"
      BY Zenon DEF UsedUpIsArchived, ReachesHardLimit
    <2>1. CASE OpenRequests(t) = {}
      <3>1. used'[t] = used[t]
        BY <1>1, <1>3, <2>1, AmountArithmetic, Zenon DEF ByRequest, OpenRequests
      <3> QED BY <1>6, <3>1, Zenon DEF IInv, UsedUpIsArchived, ReachesHardLimit
    <2>2. CASE OpenRequests(t) # {}
      <3>1. t \in usedUp
        BY <1>2, <1>3, <2>2, Zenon DEF ReachesHardLimit
      <3> QED BY <1>6, <3>1, Zenon
    <2> QED BY <2>1, <2>2, Zenon
  <1>14. AuditedOnce'
    BY <1>1, <1>5, <1>6 DEF LedgerTypeOK, AuditedOnce, Terminal
  <1> QED BY <1>8, <1>9, <1>10, <1>11, <1>12, <1>13, <1>14, Zenon DEF IInv

\* A transaction that only archives touches neither the ledger row nor a query.
LEMMA ArchiveOnlyStep ==
  ASSUME IInv, NEW t \in Task, NEW reason \in Reason,
         Archive({t}, [x \in {t} |-> reason]),
         UNCHANGED <<expired, binding, used, reserved, query, exposure, queryAudits>>
  PROVE  IInv'
  <1>1. \A x \in {t} \cap Task : [y \in {t} |-> reason][x] \in Reason
    BY Zenon
  <1>2. /\ task' \in [Task -> TaskType]
        /\ taskAudits' \in [Task -> Nat]
        /\ \A x \in Task : task[x].state = "ARCHIVED" => task'[x] = task[x]
        /\ \A x \in Task : taskAudits'[x] = IF task'[x].state = "ARCHIVED" THEN 1 ELSE 0
    BY <1>1, ArchiveStep, Zenon DEF IInv
  <1>3. LedgerTypeOK' /\ ByRequest' /\ WithinHardLimit' /\ ExposureFollowsQuery'
    BY <1>2, Zenon DEF IInv, LedgerTypeOK, ByRequest, WithinHardLimit, ExposureFollowsQuery, TaskType
  <1>4. UsedUpIsArchived' /\ AuditedOnce'
    BY <1>2, Zenon DEF IInv, UsedUpIsArchived, AuditedOnce, ReachesHardLimit
  <1> QED BY <1>3, <1>4, Zenon DEF IInv

\* The empty ledger.
LEMMA InvariantInit == LedgerInit => IInv
  <1> SUFFICES ASSUME LedgerInit PROVE IInv
    BY Zenon
  <1>1. Zero \in Amount /\ NoQuery \in QueryRecord
    BY Zenon DEF Zero, Amount, NoQuery, QueryRecord
  <1>2. LedgerTypeOK
    BY <1>1, Zenon DEF LedgerInit, LedgerTypeOK
  <1>3. ByRequest /\ ExposureFollowsQuery
    BY Zenon DEF LedgerInit, ByRequest, ExposureFollowsQuery, NoQuery
  <1>4. WithinHardLimit
    BY LedgerAssumption DEF LedgerInit, WithinHardLimit, AtMost, Plus, Zero
  <1>5. UsedUpIsArchived
    BY LedgerAssumption DEF LedgerInit, UsedUpIsArchived, ReachesHardLimit, Zero
  <1>6. AuditedOnce
    BY Zenon DEF LedgerInit, AuditedOnce, NoQuery, Terminal
  <1> QED BY <1>2, <1>3, <1>4, <1>5, <1>6, Zenon DEF IInv

\* Every transaction of the ledger preserves the invariant.
LEMMA InvariantNext == IInv /\ [LedgerNext]_ledgerVars => IInv'
  <1> SUFFICES ASSUME IInv, [LedgerNext]_ledgerVars PROVE IInv'
    BY Zenon
  <1>1. ASSUME NEW r \in Request, NEW ask \in Use, ReserveBudget(r, ask) PROVE IInv'
    BY <1>1, ReserveStep, Zenon
  <1>2. ASSUME NEW r \in Request, ReserveArchives(r) PROVE IInv'
    <2>1. PICK why \in Reason : Archive({TaskOf[r]}, [x \in {TaskOf[r]} |-> why])
      BY <1>2, Zenon DEF ReserveArchives, Reason
    <2>2. TaskOf[r] \in Task
      BY LedgerAssumption, Zenon
    <2> QED BY <1>2, <2>1, <2>2, ArchiveOnlyStep, Zenon DEF ReserveArchives
  <1>3. ASSUME NEW r \in Request, NEW status \in Terminal, NEW use \in Use,
               SettleBudget(r, status, use)
        PROVE  IInv'
    BY <1>3, SettleStep, Zenon
  <1>4. CASE Recover
    BY <1>4, RecoverStep, Zenon
  <1>5. ASSUME NEW t \in Task, NEW reason \in {"completed", "revoked"}, ArchiveTask(t, reason)
        PROVE  IInv'
    <2>1. reason \in Reason
      BY Zenon DEF Reason
    <2> QED BY <1>5, <2>1, ArchiveOnlyStep, Zenon DEF ArchiveTask
  <1>6. ASSUME NEW t \in Task, MarkTaskViewSemanticChanged(t) PROVE IInv'
    BY <1>6, Zenon DEF MarkTaskViewSemanticChanged, IInv, LedgerTypeOK, ByRequest, WithinHardLimit,
                ExposureFollowsQuery, UsedUpIsArchived, AuditedOnce, ReachesHardLimit
  <1>7. ASSUME NEW t \in Task, Expire(t) PROVE IInv'
    BY <1>7, Zenon DEF Expire, IInv, LedgerTypeOK, ByRequest, WithinHardLimit,
                ExposureFollowsQuery, UsedUpIsArchived, AuditedOnce, ReachesHardLimit
  <1>8. CASE UNCHANGED ledgerVars
    BY <1>8, Zenon DEF ledgerVars, IInv, LedgerTypeOK, ByRequest, WithinHardLimit,
                ExposureFollowsQuery, UsedUpIsArchived, AuditedOnce, ReachesHardLimit
  <1> QED
    BY <1>1, <1>2, <1>3, <1>4, <1>5, <1>6, <1>7, <1>8, Zenon DEF LedgerNext
-----------------------------------------------------------------------------
(* Theorems *)

\* The parts of the invariant that the runs check under their own names.
LEMMA InvariantImplies ==
  ASSUME IInv
  PROVE  ReservationIsLedger /\ RecoveryNeverRefused
  <1>1. ReservationIsLedger
    <2> SUFFICES ASSUME NEW t \in Task, OpenRequests(t) # {}
                 PROVE  \E r \in OpenRequests(t) :
                          OpenRequests(t) = {r} /\ reserved[t] = query[r].reserved
      BY DEF IInv, ByRequest, ReservationIsLedger, OpenRequests
    <2>1. PICK r \in Request : TaskOf[r] = t /\ query[r].status = "RESERVED"
      BY Zenon DEF OpenRequests
    <2>2. \A s \in OpenRequests(t) : s = r
      BY <2>1, Zenon DEF IInv, ByRequest, OpenRequests
    <2> QED BY <2>1, <2>2 DEF IInv, ByRequest, OpenRequests
  <1>2. RecoveryNeverRefused
    <2> SUFFICES ASSUME NEW r \in Request, query[r].status = "RESERVED"
                 PROVE  /\ ExposureMayEnd(r, "INDETERMINATE")
                        /\ LedgerAccepts(TaskOf[r], query[r].reserved, query[r].reserved)
      BY Zenon DEF RecoveryNeverRefused, RecoveryAccepted
    <2>1. TaskOf[r] \in Task /\ reserved[TaskOf[r]] = query[r].reserved
          /\ reserved[TaskOf[r]] \in Amount
      BY LedgerAssumption, Zenon DEF IInv, LedgerTypeOK, ByRequest
    <2>2. exposure[r] = "RESERVED"
      BY Zenon DEF IInv, ExposureFollowsQuery
    <2>3. AtMost(reserved[TaskOf[r]], reserved[TaskOf[r]])
      BY <2>1 DEF AtMost, Amount
    <2> QED BY <2>1, <2>2, <2>3, Zenon DEF IInv, WithinHardLimit, ExposureMayEnd, LedgerAccepts
  <1> QED BY <1>1, <1>2, Zenon

\* The inductive invariant holds of every behaviour of the ledger's transactions.
THEOREM LedgerInvariant == LedgerSpec => []IInv
  BY InvariantInit, InvariantNext, PTL DEF LedgerSpec

\* Every column of the ledger, the query records and the exposure reservations keeps
\* its type; in particular no used or reserved amount ever turns negative.
THEOREM LedgerTypeCorrect == LedgerSpec => []LedgerTypeOK
  <1>1. IInv => LedgerTypeOK
    BY Zenon DEF IInv
  <1> QED BY <1>1, LedgerInvariant, PTL

\* The ledger row of a task and its query records agree on what is reserved.
THEOREM LedgerAgreesWithQueries == LedgerSpec => []ReservationIsLedger
  BY InvariantImplies, LedgerInvariant, PTL

\* Used and reserved amounts together never pass the hard limits of the grant.
THEOREM HardLimitHolds == LedgerSpec => []WithinHardLimit
  <1>1. IInv => WithinHardLimit
    BY Zenon DEF IInv
  <1> QED BY <1>1, LedgerInvariant, PTL

\* Exposure reservations end the way their query does.
THEOREM ExposureEndsWithQuery == LedgerSpec => []ExposureFollowsQuery
  <1>1. IInv => ExposureFollowsQuery
    BY Zenon DEF IInv
  <1> QED BY <1>1, LedgerInvariant, PTL

\* The checks with which recover could refuse to start the gateway always pass.
THEOREM RecoveryAlwaysAccepted == LedgerSpec => []RecoveryNeverRefused
  BY InvariantImplies, LedgerInvariant, PTL

\* A task with a used-up dimension is archived.
THEOREM UsedUpTasksAreArchived == LedgerSpec => []UsedUpIsArchived
  <1>1. IInv => UsedUpIsArchived
    BY Zenon DEF IInv
  <1> QED BY <1>1, LedgerInvariant, PTL

\* One terminal audit event per terminal query, one archiving event per archived task.
THEOREM AuditsAreUnique == LedgerSpec => []AuditedOnce
  <1>1. IInv => AuditedOnce
    BY Zenon DEF IInv
  <1> QED BY <1>1, LedgerInvariant, PTL

\* Terminal query records and terminal reasons never change, used amounts never shrink.
THEOREM TerminalIsFinal == LedgerSpec => OutcomesAreFinal
  <1> DEFINE Final ==
        /\ \A r \in Request : query[r].status \in Terminal => query'[r] = query[r]
        /\ \A t \in Task : task[t].state = "ARCHIVED" => task'[t] = task[t]
        /\ \A t \in Task : AtMost(used[t], used'[t])
  <1>1. ASSUME IInv, [LedgerNext]_ledgerVars PROVE Final \/ UNCHANGED ledgerVars
    <2>0. /\ \A t \in Task : AtMost(used[t], used[t])
          /\ query \in [Request -> QueryRecord] /\ task \in [Task -> TaskType]
      BY <1>1 DEF IInv, LedgerTypeOK, AtMost, Amount, TaskType
    <2>1. ASSUME NEW r \in Request, NEW ask \in Use, ReserveBudget(r, ask) PROVE Final
      BY <2>0, <2>1, Zenon DEF ReserveBudget, FirstCall, Terminal
    <2>2. ASSUME NEW r \in Request, ReserveArchives(r) PROVE Final
      BY <2>0, <2>2, Zenon DEF ReserveArchives, Archive
    <2>3. ASSUME NEW r \in Request, NEW status \in Terminal, NEW use \in Use,
                 SettleBudget(r, status, use)
          PROVE  Final
      <3>1. \A s \in Request : query[s].status \in Terminal => query'[s] = query[s]
        BY <2>0, <2>3, Zenon DEF SettleBudget, Terminal
      <3>2. \A t \in Task : task[t].state = "ARCHIVED" => task'[t] = task[t]
        BY <2>0, <2>3, Zenon DEF SettleBudget, Archive
      <3>3. \A t \in Task : AtMost(used[t], used'[t])
        <4>1. AtMost(used[TaskOf[r]], used'[TaskOf[r]])
          BY <1>1, <2>3, SettleStep, Zenon
        <4>2. \A t \in Task \ {TaskOf[r]} : used'[t] = used[t]
          BY <1>1, <2>3, Zenon DEF SettleBudget, IInv, LedgerTypeOK
        <4> QED BY <2>0, <4>1, <4>2, Zenon
      <3> QED BY <3>1, <3>2, <3>3, Zenon
    <2>4. CASE Recover
      <3>1. \A s \in Request : query[s].status \in Terminal => query'[s] = query[s]
        BY <2>0, <2>4, Zenon DEF Recover, Terminal
      <3>2. \A t \in Task : task[t].state = "ARCHIVED" => task'[t] = task[t]
        BY <2>0, <2>4, Zenon DEF Recover, Archive
      <3> QED BY <1>1, <2>4, <3>1, <3>2, RecoverStep, Zenon
    <2>5. ASSUME NEW t \in Task, NEW reason \in {"completed", "revoked"}, ArchiveTask(t, reason)
          PROVE  Final
      BY <2>0, <2>5, Zenon DEF ArchiveTask, Archive
    <2>6. ASSUME NEW t \in Task, MarkTaskViewSemanticChanged(t) PROVE Final
      BY <2>0, <2>6, Zenon DEF MarkTaskViewSemanticChanged
    <2>7. ASSUME NEW t \in Task, Expire(t) PROVE Final
      BY <2>0, <2>7, Zenon DEF Expire
    <2> QED
      BY <1>1, <2>1, <2>2, <2>3, <2>4, <2>5, <2>6, <2>7, Zenon DEF LedgerNext
  <1>2. IInv /\ [LedgerNext]_ledgerVars => [Final]_ledgerVars
    BY <1>1, Zenon
  <1> QED BY <1>2, LedgerInvariant, PTL DEF LedgerSpec, OutcomesAreFinal

\* No query is admitted for an archived, expired or re-bound task.
THEOREM StoppedTasksAdmitNothing == LedgerSpec => NoAdmissionAfterStop
  <1> DEFINE Stopped(t) == task[t].state = "ARCHIVED" \/ expired[t] \/ binding[t] # "ACTIVE"
             Closed ==
               \A r \in Request : Stopped(TaskOf[r]) =>
                  (query[r].status = "NONE" => query'[r].status = "NONE")
  <1>1. ASSUME IInv, [LedgerNext]_ledgerVars PROVE Closed \/ UNCHANGED ledgerVars
    <2>0. query \in [Request -> QueryRecord]
      BY <1>1, Zenon DEF IInv, LedgerTypeOK
    <2>1. ASSUME NEW r \in Request, NEW ask \in Use, ReserveBudget(r, ask) PROVE Closed
      BY <2>0, <2>1, Zenon DEF ReserveBudget, Admissible
    <2>2. ASSUME NEW r \in Request, NEW status \in Terminal, NEW use \in Use,
                 SettleBudget(r, status, use)
          PROVE  Closed
      BY <2>0, <2>2, Zenon DEF SettleBudget
    <2>3. CASE Recover
      BY <2>0, <2>3, Zenon DEF Recover
    <2>4. CASE UNCHANGED query
      BY <2>4, Zenon
    <2> QED
      BY <1>1, <2>1, <2>2, <2>3, <2>4, Zenon
      DEF LedgerNext, ReserveArchives, ArchiveTask, MarkTaskViewSemanticChanged, Expire
  <1>2. IInv /\ [LedgerNext]_ledgerVars => [Closed]_ledgerVars
    BY <1>1, Zenon
  <1> QED BY <1>2, LedgerInvariant, PTL DEF LedgerSpec, NoAdmissionAfterStop
-----------------------------------------------------------------------------
(* The workers. *)

\* What a worker, the transaction it left in doubt and the history of its request
\* know of the query record.  NoForeignOutcome is not inductive alone: an outcome
\* stays the worker's own because a transaction in doubt never coexists with a
\* worker that has yet to settle, and because a stopped gateway has no workers.
HeldBy(q, w, d, n, alive) ==
  /\ w.pc = "idle" \/ ~alive => w = Idle
  /\ w.pc \in {"execute", "finalize"} => q.status = "RESERVED"
  /\ alive /\ w.pc \in {"idle", "execute", "finalize"} => d = NoDoubt
  /\ w.pc = "execute" => w.want = "none" /\ n = 0
  /\ w.pc = "finalize" => w.want = "COMPLETED"
  /\ w.pc = "recheck" => w.want = "FAILED"
  /\ w.pc \in {"settle", "retry"} => w.want \in {"FAILED", "RELEASED", "INDETERMINATE"}
  /\ w.want \in {"RELEASED", "INDETERMINATE"} =>
       /\ q.status \in {"RESERVED", w.want}
       /\ d # NoDoubt => d.status = w.want
  /\ d # NoDoubt => /\ q.status = "RESERVED" /\ d.status \in Terminal
                    /\ d.use.rows <= q.reserved.rows
  /\ "RELEASED" \in {w.want, d.status, q.status} => n = 0
  /\ q.status = "NONE" => n = 0
  /\ n <= 1
  /\ w.pc # "idle" /\ q.status = "RESERVED" => w.use.rows <= q.reserved.rows
  /\ w.use \in Use /\ d.use \in Use
Held(r) == HeldBy(query[r], worker[r], doubt[r], runs[r], up)

WInv == IInv /\ WorkerTypeOK /\ \A r \in Request : Held(r)
-----------------------------------------------------------------------------
\* Amounts up to the limits of a task are legal arguments of the store.
LEMMA SmallUse ==
  ASSUME IInv, NEW r \in Request
  PROVE  /\ NoUse \in Use
         /\ \A m \in 0 .. query[r].reserved.rows, n \in 0 .. query[r].reserved.db_ms :
              query[r].status = "RESERVED" => [rows |-> m, db_ms |-> n] \in Use
         /\ \A m \in 0 .. query[r].reserved.rows :
              query[r].status = "RESERVED" => [rows |-> m, db_ms |-> 1] \in Use
  <1> DEFINE t == TaskOf[r]
  <1>1. /\ t \in Task /\ Limit[t].rows \in Nat \ {0} /\ Limit[t].db_ms \in Nat \ {0}
        /\ 0 .. Limit[t].rows \subseteq RowUse /\ 0 .. Limit[t].db_ms \subseteq TimeUse
    BY LedgerAssumption, Zenon
  <1>2. 0 \in RowUse /\ 0 \in TimeUse /\ 1 \in TimeUse
    BY <1>1
  <1>3. ASSUME query[r].status = "RESERVED"
        PROVE  /\ query[r].reserved.rows \in 0 .. Limit[t].rows
               /\ query[r].reserved.db_ms \in 0 .. Limit[t].db_ms
    <2>1. /\ reserved[t] = query[r].reserved /\ reserved[t] \in Amount /\ used[t] \in Amount
          /\ AtMost(Plus(used[t], reserved[t]), Limit[t])
      BY <1>1, <1>3, Zenon DEF IInv, LedgerTypeOK, ByRequest, WithinHardLimit
    <2> QED BY <1>1, <2>1 DEF AtMost, Plus, Amount
  <1>4. ASSUME query[r].status = "RESERVED",
               NEW m \in 0 .. query[r].reserved.rows, NEW n \in 0 .. query[r].reserved.db_ms
        PROVE  m \in RowUse /\ n \in TimeUse
    <2>1. m \in 0 .. Limit[t].rows /\ n \in 0 .. Limit[t].db_ms
      BY <1>1, <1>3, <1>4
    <2> QED BY <1>1, <2>1, Zenon
  <1>5. query[r].reserved \in Amount
    BY Zenon DEF IInv, LedgerTypeOK, QueryRecord
  <1>6. 0 \in 0 .. query[r].reserved.db_ms
    BY <1>5 DEF Amount
  <1> QED BY <1>2, <1>4, <1>6, Zenon DEF Use, NoUse

\* What the transactions do to the query records.
LEMMA QueryEffects ==
  ASSUME IInv
  PROVE  /\ \A r \in Request, ask \in Use : ReserveBudget(r, ask) =>
              /\ query[r].status = "NONE" /\ query'[r].status = "RESERVED"
              /\ \A s \in Request : s # r => query'[s] = query[s]
         /\ \A r \in Request, status \in Terminal, use \in Use : SettleBudget(r, status, use) =>
              /\ query[r].status = "RESERVED" /\ query'[r].status = status
              /\ \A s \in Request : s # r => query'[s] = query[s]
         /\ Recover => \A r \in Request :
              IF query[r].status = "RESERVED" THEN query'[r].status = "INDETERMINATE"
              ELSE query'[r] = query[r]
  <1>1. query \in [Request -> QueryRecord]
    BY Zenon DEF IInv, LedgerTypeOK
  <1> QED BY <1>1 DEF ReserveBudget, FirstCall, SettleBudget, Recover
-----------------------------------------------------------------------------
(* Every step is a step of the ledger or leaves it alone *)

\* A step of the gateway, seen from the ledger.
LEMMA StepRefines ==
  ASSUME WInv, [Next]_vars
  PROVE  [LedgerNext]_ledgerVars
  <1>1. \A r \in Request : worker[r].use \in Use /\ doubt[r].use \in Use
    BY Zenon DEF WInv, Held, HeldBy
  <1>2. ASSUME NEW r \in Request, NEW ask \in Ask, Begin(r, ask) \/ BeginUnanswered(r, ask)
        PROVE  LedgerNext
    BY <1>2, WorkerAssumption, Zenon DEF Begin, BeginUnanswered, LedgerNext
  <1>3. ASSUME NEW r \in Request, BeginArchives(r) PROVE LedgerNext
    BY <1>3, Zenon DEF BeginArchives, LedgerNext
  <1>4. ASSUME NEW r \in Request, Finalize(r) PROVE LedgerNext
    <2>1. "COMPLETED" \in Terminal
      BY Zenon DEF Terminal
    <2> QED BY <1>1, <1>4, <2>1, Zenon DEF Finalize, LedgerNext
  <1>5. ASSUME NEW r \in Request, TerminalDone(r) PROVE LedgerNext \/ UNCHANGED ledgerVars
    <2>1. worker[r].want \in Terminal
      BY <1>5, Zenon DEF WInv, Held, HeldBy, TerminalDone, Settling, At, Terminal
    <2> QED BY <1>1, <1>5, <2>1, Zenon DEF TerminalDone, LedgerNext
  <1>6. ASSUME NEW r \in Request, ServerCommits(r) PROVE LedgerNext
    <2>1. doubt[r].status \in Terminal
      BY <1>6, Zenon DEF WInv, Held, HeldBy, ServerCommits
    <2> QED BY <1>1, <1>6, <2>1, Zenon DEF ServerCommits, LedgerNext
  <1>7. CASE Restart
    BY <1>7, Zenon DEF Restart, LedgerNext
  <1>8. ASSUME NEW t \in Task, NEW reason \in {"completed", "revoked"}, UserArchives(t, reason)
        PROVE  LedgerNext
    BY <1>8, Zenon DEF UserArchives, LedgerNext
  <1>9. ASSUME NEW t \in Task, ViewChanges(t) \/ TimePasses(t) PROVE LedgerNext
    BY <1>9, Zenon DEF ViewChanges, TimePasses, LedgerNext
  <1>10. ASSUME NEW r \in Request,
                \/ NotExecuted(r) \/ OutcomeUnknown(r) \/ SemanticReplay(r) \/ ResultFailed(r)
                \/ \E seen \in Observed : Executed(r, seen)
                \/ FinalizeRefused(r) \/ FinalizeInDoubt(r) \/ Recheck(r) \/ RecheckUnreadable(r)
                \/ TerminalError(r) \/ FailureYields(r) \/ TerminalInDoubt(r) \/ ServerAborts(r)
         PROVE  UNCHANGED ledgerVars
    BY <1>10, Zenon DEF NotExecuted, OutcomeUnknown, SemanticReplay, ResultFailed, Executed,
                 FinalizeRefused, FinalizeInDoubt, Recheck, RecheckUnreadable, TerminalError,
                 FailureYields, TerminalInDoubt, ServerAborts
  <1>11. CASE Crash \/ UNCHANGED vars
    BY <1>11, Zenon DEF Crash, vars, ledgerVars
  <1> QED
    BY <1>2, <1>3, <1>4, <1>5, <1>6, <1>7, <1>8, <1>9, <1>10, <1>11, Zenon DEF Next
-----------------------------------------------------------------------------
(* The workers' invariant *)

\* A step of one request leaves what Held says of the others alone.
LEMMA OthersHeld ==
  ASSUME NEW r \in Request, \A s \in Request : Held(s), UNCHANGED up,
         \A s \in Request : s # r => /\ worker'[s] = worker[s] /\ doubt'[s] = doubt[s]
                                    /\ runs'[s] = runs[s] /\ query'[s] = query[s],
         Held(r)'
  PROVE  (\A s \in Request : Held(s))'
  BY Zenon DEF Held

\* A step of the ledger that changes no query record of a request keeps Held.
LEMMA LedgerOnlyHeld ==
  ASSUME \A s \in Request : Held(s), UNCHANGED workerVars, UNCHANGED query
  PROVE  (\A s \in Request : Held(s))'
  BY Zenon DEF Held, workerVars

WorkerRecord == [pc : {"idle", "execute", "finalize", "recheck", "settle", "retry"},
                 want : Terminal \cup {"none"}, use : UseType]
DoubtRecord == [status : Terminal \cup {"none"}, use : UseType]

\* A step that moves one worker, and what it left in doubt, keeps the invariant if the
\* new records agree with the query record.
LEMMA Move ==
  ASSUME WInv, NEW r \in Request, NEW w \in WorkerRecord, NEW d \in DoubtRecord, NEW n \in Nat,
         worker' = [worker EXCEPT ![r] = w], doubt' = [doubt EXCEPT ![r] = d],
         runs' = [runs EXCEPT ![r] = n], UNCHANGED up,
         \A s \in Request : s # r => query'[s] = query[s],
         HeldBy(query'[r], w, d, n, up)
  PROVE  WorkerTypeOK' /\ (\A s \in Request : Held(s))'
  <1>1. /\ worker \in [Request -> WorkerRecord] /\ doubt \in [Request -> DoubtRecord]
        /\ runs \in [Request -> Nat] /\ up \in BOOLEAN /\ \A s \in Request : Held(s)
    BY Zenon DEF WInv, WorkerTypeOK, WorkerRecord, DoubtRecord
  <1>2. WorkerTypeOK'
    <2>1. /\ worker' \in [Request -> WorkerRecord] /\ doubt' \in [Request -> DoubtRecord]
          /\ runs' \in [Request -> Nat] /\ up' \in BOOLEAN
      BY <1>1, Zenon
    <2> QED BY <2>1, Zenon DEF WorkerTypeOK, WorkerRecord, DoubtRecord
  <1>3. worker'[r] = w /\ doubt'[r] = d /\ runs'[r] = n
    BY <1>1, Zenon
  <1>4. Held(r)'
    BY <1>3, Zenon DEF Held
  <1>5. \A s \in Request : s # r => /\ worker'[s] = worker[s] /\ doubt'[s] = doubt[s]
                                   /\ runs'[s] = runs[s] /\ query'[s] = query[s]
    BY <1>1, Zenon
  <1> QED BY <1>1, <1>2, <1>4, <1>5, OthersHeld, Zenon

\* What is left alone, in the form in which Move takes it.
LEMMA Kept ==
  ASSUME WInv, NEW r \in Request
  PROVE  /\ worker = [worker EXCEPT ![r] = worker[r]] /\ worker[r] \in WorkerRecord
         /\ doubt = [doubt EXCEPT ![r] = doubt[r]] /\ doubt[r] \in DoubtRecord
         /\ runs = [runs EXCEPT ![r] = runs[r]] /\ runs[r] \in Nat
         /\ HeldBy(query[r], worker[r], doubt[r], runs[r], up)
         /\ query[r] \in QueryRecord /\ query[r].reserved \in Amount
         /\ Use \subseteq UseType /\ NoUse \in Use /\ NoUse \in UseType
         /\ Idle \in WorkerRecord /\ NoDoubt \in DoubtRecord /\ NoUse.rows = 0
  <1>1. IInv /\ query[r] \in QueryRecord /\ query[r].reserved \in Amount
    BY Zenon DEF WInv, IInv, LedgerTypeOK, QueryRecord
  <1>2. Use \subseteq UseType /\ NoUse \in Use /\ NoUse.rows = 0
    BY <1>1, LedgerAssumption, SmallUse, Zenon DEF Use, UseType, NoUse
  <1>3. Idle \in WorkerRecord /\ NoDoubt \in DoubtRecord
    BY <1>2, Zenon DEF Idle, NoDoubt, WorkerRecord, DoubtRecord
  <1>4. /\ worker \in [Request -> WorkerRecord] /\ doubt \in [Request -> DoubtRecord]
        /\ runs \in [Request -> Nat] /\ Held(r)
    BY Zenon DEF WInv, WorkerTypeOK, WorkerRecord, DoubtRecord
  <1> QED BY <1>1, <1>2, <1>3, <1>4, Zenon DEF Held

\* A worker goes from one program counter to another.
LEMMA MoveWorker ==
  ASSUME WInv, NEW r \in Request, NEW use \in Use, NEW want \in Terminal,
         NEW pc \in {"execute", "finalize", "recheck", "settle", "retry"}
  PROVE  /\ Goto(r, pc, want, use) /\ UNCHANGED <<up, doubt, runs, query>>
         /\ HeldBy(query[r], [pc |-> pc, want |-> want, use |-> use], doubt[r], runs[r], up)
         => WorkerTypeOK' /\ (\A s \in Request : Held(s))'
  <1> DEFINE w == [pc |-> pc, want |-> want, use |-> use]
  <1>1. ASSUME Goto(r, pc, want, use), UNCHANGED <<up, doubt, runs, query>>,
               HeldBy(query[r], w, doubt[r], runs[r], up)
        PROVE  WorkerTypeOK' /\ (\A s \in Request : Held(s))'
    <2>1. Use \subseteq UseType
      BY Kept, Zenon
    <2>2. w \in WorkerRecord
      BY <2>1, Zenon DEF WorkerRecord
    <2>3. worker' = [worker EXCEPT ![r] = w] /\ HeldBy(query'[r], w, doubt[r], runs[r], up)
      BY <1>1, Zenon DEF Goto
    <2>4. /\ doubt' = [doubt EXCEPT ![r] = doubt[r]] /\ doubt[r] \in DoubtRecord
          /\ runs' = [runs EXCEPT ![r] = runs[r]] /\ runs[r] \in Nat
      BY <1>1, Kept, Zenon
    <2>5. UNCHANGED up /\ \A s \in Request : s # r => query'[s] = query[s]
      BY <1>1, Zenon
    <2> HIDE DEF w
    <2> QED BY <2>2, <2>3, <2>4, <2>5, Move, Zenon
  <1> QED BY <1>1, Zenon

\* A worker is done.
LEMMA MoveDone ==
  ASSUME WInv, NEW r \in Request
  PROVE  /\ Done(r) /\ UNCHANGED <<up, doubt, runs>>
         /\ \A s \in Request : s # r => query'[s] = query[s]
         /\ HeldBy(query'[r], Idle, doubt[r], runs[r], up)
         => WorkerTypeOK' /\ (\A s \in Request : Held(s))'
  <1>1. ASSUME Done(r), UNCHANGED <<up, doubt, runs>>,
               \A s \in Request : s # r => query'[s] = query[s],
               HeldBy(query'[r], Idle, doubt[r], runs[r], up)
        PROVE  WorkerTypeOK' /\ (\A s \in Request : Held(s))'
    <2>1. /\ doubt' = [doubt EXCEPT ![r] = doubt[r]] /\ doubt[r] \in DoubtRecord
          /\ runs' = [runs EXCEPT ![r] = runs[r]] /\ runs[r] \in Nat
          /\ Idle \in WorkerRecord
      BY <1>1, Kept, Zenon
    <2>2. /\ worker' = [worker EXCEPT ![r] = Idle] /\ UNCHANGED up
          /\ \A s \in Request : s # r => query'[s] = query[s]
          /\ HeldBy(query'[r], Idle, doubt[r], runs[r], up)
      BY <1>1, Zenon DEF Done
    <2> QED BY <2>1, <2>2, Move, Zenon
  <1> QED BY <1>1, Zenon

\* querySettlement never reports more than was reserved.
LEMMA SettlementBound ==
  ASSUME NEW held \in Amount, NEW seen \in Observed
  PROVE  \E m \in 0 .. held.rows, n \in 0 .. held.db_ms :
           QuerySettlement(seen, held) = [rows |-> m, db_ms |-> n]
  <1>1. seen.rows \in Int /\ seen.db_ms \in Int /\ held.rows \in Nat /\ held.db_ms \in Nat
    BY WorkerAssumption, Zenon DEF Amount
  <1>2. /\ Least(NonNegative(seen.rows), held.rows) \in 0 .. held.rows
        /\ Least(IF seen.db_ms < 1 THEN 1 ELSE seen.db_ms, held.db_ms) \in 0 .. held.db_ms
    BY <1>1 DEF Least, NonNegative
  <1> QED BY <1>2, Zenon DEF QuerySettlement

\* Steps of a worker, and of a transaction in doubt, that leave the ledger alone.
LEMMA LocalStep ==
  ASSUME WInv, NEW r \in Request,
         \/ NotExecuted(r) \/ OutcomeUnknown(r) \/ SemanticReplay(r) \/ ResultFailed(r)
         \/ \E seen \in Observed : Executed(r, seen)
         \/ FinalizeRefused(r) \/ FinalizeInDoubt(r) \/ Recheck(r) \/ RecheckUnreadable(r)
         \/ TerminalError(r) \/ FailureYields(r) \/ TerminalInDoubt(r) \/ ServerAborts(r)
  PROVE  WorkerTypeOK' /\ (\A s \in Request : Held(s))'
  <1> DEFINE Goal == WorkerTypeOK' /\ (\A s \in Request : Held(s))'
             W(pc, want, use) == [pc |-> pc, want |-> want, use |-> use]
  <1>1. /\ HeldBy(query[r], worker[r], doubt[r], runs[r], up) /\ IInv
        /\ worker[r] \in WorkerRecord /\ doubt[r] \in DoubtRecord /\ runs[r] \in Nat
        /\ query[r].reserved.rows \in Nat /\ query[r].reserved.db_ms \in Nat
        /\ NoUse \in Use /\ NoUse.rows = 0 /\ worker[r].use \in Use /\ Use \subseteq UseType
        /\ doubt[r] = NoDoubt => doubt[r].status = "none"
        /\ runs' = runs => runs' = [runs EXCEPT ![r] = runs[r]]
        /\ doubt' = doubt => doubt' = [doubt EXCEPT ![r] = doubt[r]]
        /\ Idle \in WorkerRecord /\ NoDoubt \in DoubtRecord
    BY Kept, SMTT(60) DEF WInv, Amount, NoDoubt, HeldBy
  <1>2. UNCHANGED <<up, query>>
    BY Zenon DEF NotExecuted, OutcomeUnknown, SemanticReplay, ResultFailed, Executed,
           FinalizeRefused, FinalizeInDoubt, Recheck, RecheckUnreadable, TerminalError,
           FailureYields, TerminalInDoubt, ServerAborts, ledgerVars
  <1>3. CASE NotExecuted(r)
    <2>1. HeldBy(query[r], W("settle", "RELEASED", NoUse), doubt[r], runs[r], up)
      BY <1>1, <1>3, SMTT(60) DEF NotExecuted, At, HeldBy, Idle
    <2> QED BY <1>1, <1>2, <1>3, <2>1, MoveWorker, Zenon DEF NotExecuted, Terminal
  <1>4. CASE OutcomeUnknown(r)
    <2> DEFINE all == [rows |-> query[r].reserved.rows, db_ms |-> query[r].reserved.db_ms]
               w == W("settle", "INDETERMINATE", all)
    <2>1. query[r].status = "RESERVED" /\ doubt[r] = NoDoubt /\ up /\ runs[r] = 0
      BY <1>1, <1>4, Zenon DEF OutcomeUnknown, At, HeldBy
    <2>2. all \in Use /\ all.rows <= query[r].reserved.rows
      BY <1>1, <2>1, SmallUse
    <2>3. PICK ran \in {0, 1} : runs' = [runs EXCEPT ![r] = runs[r] + ran]
      BY <1>4, Zenon DEF OutcomeUnknown
    <2>4. worker' = [worker EXCEPT ![r] = w] /\ UNCHANGED doubt
      BY <1>4, Zenon DEF OutcomeUnknown, Goto
    <2> HIDE DEF all
    <2>5. w \in WorkerRecord
      BY <1>1, <2>2, Zenon DEF WorkerRecord, Terminal
    <2>6. HeldBy(query[r], w, doubt[r], runs[r] + ran, up)
      BY <1>1, <2>1, <2>2, <2>3 DEF HeldBy
    <2>7. runs[r] + ran \in Nat /\ HeldBy(query'[r], w, doubt[r], runs[r] + ran, up)
      BY <1>1, <1>2, <2>3, <2>6
    <2>8. UNCHANGED up /\ \A s \in Request : s # r => query'[s] = query[s]
      BY <1>2, Zenon
    <2>9. doubt' = [doubt EXCEPT ![r] = doubt[r]]
      BY <1>1, <2>4, Zenon
    <2> HIDE DEF w
    <2> QED BY <1>1, <2>3, <2>4, <2>5, <2>7, <2>8, <2>9, Move, Zenon
  <1>5. CASE SemanticReplay(r)
    <2>1. PICK rows \in 0 .. query[r].reserved.rows :
            Goto(r, "finalize", "COMPLETED", [rows |-> rows, db_ms |-> 1])
      BY <1>5, Zenon DEF SemanticReplay
    <2> DEFINE use == [rows |-> rows, db_ms |-> 1]
    <2>2. query[r].status = "RESERVED" /\ doubt[r] = NoDoubt /\ up /\ runs[r] = 0
      BY <1>1, <1>5, Zenon DEF SemanticReplay, At, HeldBy
    <2>3. use \in Use /\ use.rows <= query[r].reserved.rows
      BY <1>1, <2>2, SmallUse
    <2>4. Goto(r, "finalize", "COMPLETED", use) /\ UNCHANGED <<doubt, runs>>
      BY <1>5, <2>1, Zenon DEF SemanticReplay
    <2> HIDE DEF use
    <2>5. HeldBy(query[r], W("finalize", "COMPLETED", use), doubt[r], runs[r], up)
      BY <1>1, <2>2, <2>3, Zenon DEF HeldBy
    <2> QED BY <1>2, <2>3, <2>4, <2>5, MoveWorker, Zenon DEF Terminal
  <1>6. CASE ResultFailed(r)
    <2>1. HeldBy(query[r], W("settle", "FAILED", worker[r].use), doubt[r], runs[r], up)
      BY <1>1, <1>6, Zenon DEF ResultFailed, At, HeldBy
    <2> QED BY <1>1, <1>2, <1>6, <2>1, MoveWorker, Zenon DEF ResultFailed, Terminal
  <1>7. CASE FinalizeRefused(r)
    <2>1. HeldBy(query[r], W("recheck", "FAILED", worker[r].use), doubt[r], runs[r], up)
      BY <1>1, <1>7, Zenon DEF FinalizeRefused, At, HeldBy
    <2> QED BY <1>1, <1>2, <1>7, <2>1, MoveWorker, Zenon DEF FinalizeRefused, Terminal
  <1>8. CASE FinalizeInDoubt(r)
    <2> DEFINE w == W("recheck", "FAILED", worker[r].use)
               d == [status |-> "COMPLETED", use |-> worker[r].use]
    <2>1. /\ worker' = [worker EXCEPT ![r] = w] /\ doubt' = [doubt EXCEPT ![r] = d]
          /\ UNCHANGED runs
      BY <1>8, Zenon DEF FinalizeInDoubt, Goto
    <2>2. w \in WorkerRecord /\ d \in DoubtRecord
      BY <1>1, Zenon DEF WorkerRecord, DoubtRecord, Terminal
    <2>3. HeldBy(query[r], w, d, runs[r], up)
      BY <1>1, <1>8, Zenon DEF FinalizeInDoubt, At, HeldBy, Terminal
    <2> HIDE DEF w, d
    <2> QED BY <1>1, <1>2, <2>1, <2>2, <2>3, Move, Zenon
  <1>9. ASSUME At(r, "recheck"), Goto(r, "settle", "FAILED", worker[r].use),
               UNCHANGED <<doubt, runs>>
        PROVE  Goal
    <2>1. HeldBy(query[r], W("settle", "FAILED", worker[r].use), doubt[r], runs[r], up)
      BY <1>1, <1>9, Zenon DEF At, HeldBy
    <2> QED BY <1>1, <1>2, <1>9, <2>1, MoveWorker, Zenon DEF Terminal
  <1>10. ASSUME up, worker[r].want = "FAILED" \/ worker[r].pc = "recheck",
                query[r].status # "RESERVED", Done(r), UNCHANGED <<doubt, runs>>
         PROVE  Goal
    <2>1. doubt[r] = NoDoubt
      BY <1>1, <1>10, Zenon DEF HeldBy
    <2>2. HeldBy(query[r], Idle, doubt[r], runs[r], up)
      BY <1>1, <1>10, <2>1, Zenon DEF HeldBy, Idle, NoDoubt
    <2> QED BY <1>2, <1>10, <2>2, MoveDone, Zenon
  <1>11. CASE Recheck(r)
    BY <1>9, <1>10, <1>11, Zenon DEF Recheck, At
  <1>12. CASE RecheckUnreadable(r)
    BY <1>9, <1>12, Zenon DEF RecheckUnreadable
  <1>13. CASE FailureYields(r)
    BY <1>10, <1>13, Zenon DEF FailureYields, Settling, At
  <1>14. CASE TerminalError(r)
    <2>1. worker[r].want \in {"FAILED", "RELEASED", "INDETERMINATE"}
      BY <1>1, <1>14, Zenon DEF TerminalError, At, HeldBy
    <2>2. HeldBy(query[r], W("retry", worker[r].want, worker[r].use), doubt[r], runs[r], up)
      BY <1>1, <1>14, <2>1, Zenon DEF TerminalError, At, HeldBy
    <2>3. worker[r].want \in Terminal
      BY <2>1, Zenon DEF Terminal
    <2>4. /\ Goto(r, "retry", worker[r].want, worker[r].use)
          /\ UNCHANGED <<up, doubt, runs, query>>
      BY <1>2, <1>14, Zenon DEF TerminalError
    <2> QED BY <1>1, <2>2, <2>3, <2>4, MoveWorker, Zenon
  <1>15. CASE TerminalInDoubt(r)
    <2> DEFINE w == W("retry", worker[r].want, worker[r].use)
               d == [status |-> worker[r].want, use |-> worker[r].use]
    <2>1. /\ worker[r].want \in {"FAILED", "RELEASED", "INDETERMINATE"}
          /\ worker[r].pc # "idle" /\ up /\ query[r].status = "RESERVED"
      BY <1>1, <1>15, Zenon DEF TerminalInDoubt, Settling, At, HeldBy
    <2>2. /\ worker' = [worker EXCEPT ![r] = w] /\ doubt' = [doubt EXCEPT ![r] = d]
          /\ UNCHANGED runs
      BY <1>15, Zenon DEF TerminalInDoubt, Goto
    <2>3. w \in WorkerRecord /\ d \in DoubtRecord
      BY <1>1, <2>1, Zenon DEF WorkerRecord, DoubtRecord, Terminal
    <2>4. HeldBy(query[r], w, d, runs[r], up)
      BY <1>1, <2>1, Zenon DEF HeldBy, Terminal
    <2> HIDE DEF w, d
    <2> QED BY <1>1, <1>2, <2>2, <2>3, <2>4, Move, Zenon
  <1>16. CASE ServerAborts(r)
    <2>1. doubt' = [doubt EXCEPT ![r] = NoDoubt] /\ UNCHANGED <<worker, runs>>
      BY <1>16, Zenon DEF ServerAborts
    <2>2. NoDoubt.use \in Use /\ NoDoubt.status = "none"
      BY <1>1, Zenon DEF NoDoubt
    <2>3. HeldBy(query[r], worker[r], NoDoubt, runs[r], up)
      BY <1>1, <2>2, Zenon DEF HeldBy
    <2>4. worker' = [worker EXCEPT ![r] = worker[r]]
      BY <2>1, Kept, Zenon
    <2> QED BY <1>1, <1>2, <2>1, <2>3, <2>4, Move, Zenon
  <1>17. CASE \E seen \in Observed : Executed(r, seen)
    <2>0. PICK seen \in Observed : Executed(r, seen)
      BY <1>17, Zenon
    <2> DEFINE use == QuerySettlement(seen, query[r].reserved)
               w == W("finalize", "COMPLETED", use)
    <2>1. query[r].status = "RESERVED" /\ doubt[r] = NoDoubt /\ up /\ runs[r] = 0
      BY <1>1, <2>0, Zenon DEF Executed, At, HeldBy
    <2>2. use \in Use /\ use.rows <= query[r].reserved.rows
      <3>1. query[r].reserved \in Amount
        BY Kept, Zenon
      <3>2. PICK m \in 0 .. query[r].reserved.rows, k \in 0 .. query[r].reserved.db_ms :
              use = [rows |-> m, db_ms |-> k]
        BY <3>1, SettlementBound, Zenon
      <3> HIDE DEF use
      <3>3. [rows |-> m, db_ms |-> k] \in Use
        BY <1>1, <2>1, SmallUse, Zenon
      <3> QED BY <1>1, <3>2, <3>3
    <2>3. /\ worker' = [worker EXCEPT ![r] = w] /\ runs' = [runs EXCEPT ![r] = runs[r] + 1]
          /\ UNCHANGED doubt
      BY <2>0, Zenon DEF Executed, Goto
    <2> HIDE DEF use
    <2>4. w \in WorkerRecord
      BY <1>1, <2>2, Zenon DEF WorkerRecord, Terminal
    <2>5. HeldBy(query[r], w, doubt[r], runs[r] + 1, up)
      BY <1>1, <2>1, <2>2 DEF HeldBy
    <2>6. runs[r] + 1 \in Nat /\ HeldBy(query'[r], w, doubt[r], runs[r] + 1, up)
      BY <1>1, <1>2, <2>5
    <2>7. UNCHANGED up /\ \A s \in Request : s # r => query'[s] = query[s]
      BY <1>2, Zenon
    <2>8. doubt' = [doubt EXCEPT ![r] = doubt[r]]
      BY <1>1, <2>3, Zenon
    <2> HIDE DEF w
    <2> QED BY <1>1, <2>3, <2>4, <2>6, <2>7, <2>8, Move, Zenon
  <1> QED
    BY <1>3, <1>4, <1>5, <1>6, <1>7, <1>8, <1>11, <1>12, <1>13, <1>14, <1>15, <1>16, <1>17, Zenon

\* Steps that settle the query of one request, by its worker or by the server.
LEMMA SettlingStep ==
  ASSUME WInv, NEW r \in Request, Finalize(r) \/ TerminalDone(r) \/ ServerCommits(r)
  PROVE  WorkerTypeOK' /\ (\A s \in Request : Held(s))'
  <1>1. /\ HeldBy(query[r], worker[r], doubt[r], runs[r], up) /\ IInv
        /\ worker[r].use \in Use /\ doubt[r].use \in Use /\ NoUse \in Use
    BY Kept, Zenon DEF WInv, HeldBy
  <1>2. ASSUME up, doubt[r] = NoDoubt, Done(r), UNCHANGED <<up, doubt, runs>>,
               query'[r].status \in Terminal, query'[r].status = "RELEASED" => runs[r] = 0,
               \A s \in Request : s # r => query'[s] = query[s]
        PROVE  WorkerTypeOK' /\ (\A s \in Request : Held(s))'
    <2>1. HeldBy(query'[r], Idle, doubt[r], runs[r], up)
      BY <1>1, <1>2, Zenon DEF HeldBy, Idle, NoDoubt, Terminal
    <2> QED BY <1>2, <2>1, MoveDone, Zenon
  <1>3. CASE Finalize(r)
    <2>1. "COMPLETED" \in Terminal /\ SettleBudget(r, "COMPLETED", worker[r].use)
      BY <1>3, Zenon DEF Finalize, Terminal
    <2>2. query'[r].status = "COMPLETED" /\ \A s \in Request : s # r => query'[s] = query[s]
      BY <1>1, <2>1, QueryEffects, Zenon
    <2> QED BY <1>2, <1>3, <2>1, <2>2, Zenon DEF Finalize, At, Unlocked
  <1>4. CASE TerminalDone(r)
    <2>1. /\ worker[r].want \in {"FAILED", "RELEASED", "INDETERMINATE"}
          /\ worker[r].want = "RELEASED" => runs[r] = 0
      BY <1>1, <1>4, Zenon DEF TerminalDone, Settling, At, HeldBy
    <2>2. worker[r].want \in Terminal
      BY <2>1, Zenon DEF Terminal
    <2>3. query'[r].status = worker[r].want /\ \A s \in Request : s # r => query'[s] = query[s]
      <3>1. CASE SettleBudget(r, worker[r].want, worker[r].use)
        BY <1>1, <2>2, <3>1, QueryEffects, Zenon
      <3>2. CASE query[r].status = worker[r].want /\ UNCHANGED ledgerVars
        BY <3>2, Zenon DEF ledgerVars
      <3> QED BY <1>4, <3>1, <3>2, Zenon DEF TerminalDone
    <2> QED BY <1>2, <1>4, <2>1, <2>2, <2>3, Zenon DEF TerminalDone, Settling, At, Unlocked
  <1>5. CASE ServerCommits(r)
    <2>1. /\ doubt[r] # NoDoubt /\ doubt[r].status \in Terminal /\ query[r].status = "RESERVED"
          /\ doubt' = [doubt EXCEPT ![r] = NoDoubt] /\ UNCHANGED <<up, worker, runs>>
          /\ SettleBudget(r, doubt[r].status, doubt[r].use)
      BY <1>1, <1>5, Zenon DEF ServerCommits, HeldBy
    <2>2. query'[r].status = doubt[r].status /\ \A s \in Request : s # r => query'[s] = query[s]
      BY <1>1, <2>1, QueryEffects, Zenon
    <2>3. worker[r].pc \notin {"execute", "finalize"}
      <3>1. up \/ worker[r].pc = "idle"
        <4>1. ~up => worker[r] = Idle
          BY <1>1, Zenon DEF HeldBy
        <4>2. Idle.pc = "idle"
          BY Zenon DEF Idle
        <4> QED BY <4>1, <4>2, Zenon
      <3> QED BY <1>1, <2>1, <3>1, Zenon DEF HeldBy
    <2>4. NoDoubt.use \in Use /\ NoDoubt.status = "none"
      BY <1>1, Zenon DEF NoDoubt
    <2>5. HeldBy(query'[r], worker[r], NoDoubt, runs[r], up)
      BY <1>1, <2>1, <2>2, <2>3, <2>4, Zenon DEF HeldBy, Terminal
    <2>6. worker' = [worker EXCEPT ![r] = worker[r]] /\ runs' = [runs EXCEPT ![r] = runs[r]]
          /\ worker[r] \in WorkerRecord /\ runs[r] \in Nat /\ NoDoubt \in DoubtRecord
      BY <2>1, Kept, Zenon
    <2> QED BY <2>1, <2>2, <2>5, <2>6, Move, Zenon
  <1> QED BY <1>3, <1>4, <1>5, Zenon

\* Steps that admit a query.
LEMMA BeginStep ==
  ASSUME WInv, NEW r \in Request, NEW ask \in Ask, Begin(r, ask) \/ BeginUnanswered(r, ask)
  PROVE  WorkerTypeOK' /\ (\A s \in Request : Held(s))'
  <1>1. /\ HeldBy(query[r], worker[r], doubt[r], runs[r], up) /\ IInv
        /\ NoUse \in Use /\ NoUse.rows = 0 /\ NoUse \in UseType
    BY Kept, Zenon DEF WInv
  <1>2. ask \in Use /\ ReserveBudget(r, ask) /\ up /\ worker[r].pc = "idle"
    BY WorkerAssumption, Zenon DEF Begin, BeginUnanswered, At
  <1>3. /\ query[r].status = "NONE" /\ query'[r].status = "RESERVED"
        /\ \A s \in Request : s # r => query'[s] = query[s]
    BY <1>1, <1>2, QueryEffects, Zenon
  <1>4. query'[r].reserved.rows \in Nat
    BY <1>1, <1>2, ReserveStep, Zenon DEF IInv, LedgerTypeOK, QueryRecord, Amount
  <1>5. worker[r] = Idle /\ doubt[r] = NoDoubt /\ runs[r] = 0 /\ NoDoubt.status = "none"
    BY <1>1, <1>2, <1>3, Zenon DEF HeldBy, NoDoubt
  <1>0. doubt[r].use \in Use
    BY <1>1, Zenon DEF HeldBy
  <1>6. CASE Begin(r, ask)
    <2> DEFINE w == [pc |-> "execute", want |-> "none", use |-> NoUse]
    <2>1. worker' = [worker EXCEPT ![r] = w] /\ UNCHANGED <<up, doubt, runs>>
      BY <1>6, Zenon DEF Begin, Goto
    <2>2. w \in WorkerRecord
      BY <1>1, Zenon DEF WorkerRecord
    <2>3. HeldBy(query'[r], w, doubt[r], runs[r], up)
      <3>1. /\ w.pc = "execute" /\ w.want = "none" /\ w.use = NoUse
            /\ w.use.rows <= query'[r].reserved.rows
        <4>1. NoUse.rows = 0
          BY <1>1, Zenon
        <4>2. 0 <= query'[r].reserved.rows
          <5>1. \A n \in Nat : 0 <= n
            OBVIOUS
          <5> QED BY <1>4, <5>1, Zenon
        <4> QED BY <4>1, <4>2, Zenon
      <3> HIDE DEF w
      <3> QED BY <1>0, <1>1, <1>2, <1>3, <1>5, <3>1, Zenon DEF HeldBy
    <2> HIDE DEF w
    <2>4. /\ doubt' = [doubt EXCEPT ![r] = doubt[r]] /\ doubt[r] \in DoubtRecord
          /\ runs' = [runs EXCEPT ![r] = runs[r]] /\ runs[r] \in Nat
      BY <2>1, Kept, Zenon
    <2> QED BY <1>3, <2>1, <2>2, <2>3, <2>4, Move, Zenon
  <1>7. CASE BeginUnanswered(r, ask)
    <2>1. UNCHANGED <<up, worker, doubt, runs>>
      BY <1>7, Zenon DEF BeginUnanswered, workerVars
    <2>2. HeldBy(query'[r], worker[r], doubt[r], runs[r], up)
      BY <1>1, <1>2, <1>3, <1>5, Zenon DEF HeldBy, Idle
    <2>3. /\ worker' = [worker EXCEPT ![r] = worker[r]] /\ worker[r] \in WorkerRecord
          /\ doubt' = [doubt EXCEPT ![r] = doubt[r]] /\ doubt[r] \in DoubtRecord
          /\ runs' = [runs EXCEPT ![r] = runs[r]] /\ runs[r] \in Nat
      BY <2>1, Kept, Zenon
    <2>4. UNCHANGED up
      BY <2>1, Zenon
    <2> QED BY <1>3, <2>2, <2>3, <2>4, Move, Zenon
  <1> QED BY <1>6, <1>7, Zenon

\* A stopped gateway has no workers, and recovery waits for the transactions in doubt.
LEMMA CrashRestartStep ==
  ASSUME WInv, Crash \/ Restart
  PROVE  WorkerTypeOK' /\ (\A s \in Request : Held(s))'
  <1>1. /\ IInv /\ WorkerTypeOK /\ \A s \in Request : Held(s) /\ NoUse \in Use
        /\ NoUse \in UseType
    BY SmallUse, Zenon DEF WInv, NoUse, UseType
  <1>2. CASE Crash
    <2>1. worker' = [s \in Request |-> Idle] /\ ~up' /\ up' \in BOOLEAN /\ UNCHANGED <<query, doubt, runs>>
      BY <1>2, Zenon DEF Crash, ledgerVars
    <2> QED BY <1>1, <2>1, Zenon DEF Idle, NoDoubt, WorkerTypeOK, Held, HeldBy
  <1>3. CASE Restart
    <2>1. /\ ~up /\ up' = TRUE /\ UNCHANGED <<worker, doubt, runs>>
          /\ \A s \in Request : doubt[s] = NoDoubt
      BY <1>3, Zenon DEF Restart, Unlocked
    <2>2. \A s \in Request : IF query[s].status = "RESERVED" THEN query'[s].status = "INDETERMINATE"
                             ELSE query'[s] = query[s]
      BY <1>1, <1>3, QueryEffects, Zenon DEF Restart
    <2>3. WorkerTypeOK'
      BY <1>1, <2>1, Zenon DEF WorkerTypeOK
    <2>4. ASSUME NEW s \in Request PROVE Held(s)'
      <3>1. HeldBy(query[s], worker[s], doubt[s], runs[s], up)
        BY <1>1, Zenon DEF Held
      <3>2. worker[s] = Idle /\ doubt[s] = NoDoubt /\ runs[s] <= 1 /\ NoDoubt.use \in Use
        BY <2>1, <3>1, Zenon DEF HeldBy
      <3>3. query'[s].status = "NONE" \/ query'[s].status = "RELEASED" => runs[s] = 0
        BY <2>2, <3>1, Zenon DEF HeldBy
      <3>4. HeldBy(query'[s], Idle, NoDoubt, runs[s], TRUE)
        BY <1>1, <3>2, <3>3, Zenon DEF HeldBy, Idle, NoDoubt
      <3> QED BY <2>1, <3>2, <3>4, Zenon DEF Held
    <2> QED BY <2>3, <2>4, Zenon
  <1> QED BY <1>2, <1>3, Zenon

\* No worker has started.
LEMMA WorkerInit == Init => WInv
  <1> SUFFICES ASSUME Init PROVE WInv
    BY Zenon
  <1>1. IInv
    BY InvariantInit, Zenon DEF Init
  <1>2. WorkerTypeOK
    BY Zenon DEF Init, WorkerTypeOK, Idle, NoDoubt, NoUse, UseType
  <1>3. ASSUME NEW r \in Request PROVE Held(r)
    <2>1. NoUse \in Use
      BY <1>1, SmallUse, Zenon
    <2> QED BY <2>1 DEF Init, LedgerInit, NoQuery, Held, HeldBy, Idle, NoDoubt
  <1> QED BY <1>1, <1>2, <1>3, Zenon DEF WInv

\* Every step of the gateway preserves what the workers rely on.
LEMMA WorkerNext == WInv /\ [Next]_vars => WInv'
  <1> SUFFICES ASSUME WInv, [Next]_vars PROVE WInv'
    BY Zenon
  <1>1. IInv'
    BY StepRefines, InvariantNext, Zenon DEF WInv
  <1>2. ASSUME UNCHANGED workerVars, UNCHANGED query
        PROVE  WorkerTypeOK' /\ (\A s \in Request : Held(s))'
    BY <1>2, LedgerOnlyHeld, Zenon DEF WInv, WorkerTypeOK, workerVars
  <1>3. WorkerTypeOK' /\ (\A s \in Request : Held(s))'
    <2>1. ASSUME NEW r \in Request, NEW ask \in Ask, Begin(r, ask) \/ BeginUnanswered(r, ask)
          PROVE  WorkerTypeOK' /\ (\A s \in Request : Held(s))'
      BY <2>1, BeginStep, Zenon
    <2>2. ASSUME NEW r \in Request, BeginArchives(r)
          PROVE  WorkerTypeOK' /\ (\A s \in Request : Held(s))'
      BY <1>2, <2>2, Zenon DEF BeginArchives, ReserveArchives
    <2>3. ASSUME NEW r \in Request,
                 \/ NotExecuted(r) \/ OutcomeUnknown(r) \/ SemanticReplay(r) \/ ResultFailed(r)
                 \/ \E seen \in Observed : Executed(r, seen)
                 \/ FinalizeRefused(r) \/ FinalizeInDoubt(r) \/ Recheck(r) \/ RecheckUnreadable(r)
                 \/ TerminalError(r) \/ FailureYields(r) \/ TerminalInDoubt(r) \/ ServerAborts(r)
          PROVE  WorkerTypeOK' /\ (\A s \in Request : Held(s))'
      BY <2>3, LocalStep, Zenon
    <2>4. ASSUME NEW r \in Request, Finalize(r) \/ TerminalDone(r) \/ ServerCommits(r)
          PROVE  WorkerTypeOK' /\ (\A s \in Request : Held(s))'
      BY <2>4, SettlingStep, Zenon
    <2>5. CASE Crash \/ Restart
      BY <2>5, CrashRestartStep, Zenon
    <2>6. ASSUME NEW t \in Task, NEW reason \in {"completed", "revoked"}, UserArchives(t, reason)
          PROVE  WorkerTypeOK' /\ (\A s \in Request : Held(s))'
      BY <1>2, <2>6, Zenon DEF UserArchives, ArchiveTask
    <2>7. ASSUME NEW t \in Task, ViewChanges(t) \/ TimePasses(t)
          PROVE  WorkerTypeOK' /\ (\A s \in Request : Held(s))'
      BY <1>2, <2>7, Zenon DEF ViewChanges, TimePasses, MarkTaskViewSemanticChanged, Expire
    <2>8. CASE UNCHANGED vars
      BY <1>2, <2>8, Zenon DEF vars, workerVars
    <2> QED BY <2>1, <2>2, <2>3, <2>4, <2>5, <2>6, <2>7, <2>8, Zenon DEF Next
  <1> QED BY <1>1, <1>3, Zenon DEF WInv
-----------------------------------------------------------------------------
(* Theorems *)

\* The workers' inductive invariant holds in every behaviour of the gateway.
THEOREM WorkerInvariant == Spec => []WInv
  BY WorkerInit, WorkerNext, PTL DEF Spec

\* The gateway uses the store only as the ledger's specification allows, so every
\* theorem about LedgerSpec holds of it.
THEOREM WorkersImplementLedger == Spec => LedgerSpec
  <1>1. Init => LedgerInit
    BY Zenon DEF Init
  <1>2. WInv /\ [Next]_vars => [LedgerNext]_ledgerVars
    BY StepRefines, Zenon
  <1> QED BY <1>1, <1>2, WorkerInvariant, PTL DEF Spec, LedgerSpec

\* The retry loops of retryTerminalQuery never meet an outcome somebody else gave
\* their query.
THEOREM OutcomesAreOwn == Spec => []NoForeignOutcome
  <1>1. WInv => NoForeignOutcome
    BY Zenon DEF WInv, Held, HeldBy, NoForeignOutcome
  <1> QED BY <1>1, WorkerInvariant, PTL

\* No request id executes twice, and nothing that executed is released for free.
THEOREM RequestsRunOnce == Spec => []RunOnceAndCharged
  <1>1. WInv => RunOnceAndCharged
    BY Zenon DEF WInv, Held, HeldBy, RunOnceAndCharged
  <1> QED BY <1>1, WorkerInvariant, PTL

\* What a settlement reports always fits the reservation it ends.
THEOREM SettlementsFit == Spec => []SettlementFits
  <1>1. WInv => SettlementFits
    BY Zenon DEF WInv, Held, HeldBy, SettlementFits
  <1> QED BY <1>1, WorkerInvariant, PTL
-----------------------------------------------------------------------------
(* What is used is what was charged *)

Sums == INSTANCE SumTheorems

\* The sums of the library and those of the theorems about them.
LEMMA SumsAgree ==
  /\ \A f, S : Sums!SumFunctionOnSet(f, S) = SumFunctionOnSet(f, S)
  /\ \A S : Sums!IsFiniteSet(S) = IsFiniteSet(S)
  <1>1. \A f, S : Sums!SumFunctionOnSet(f, S) = SumFunctionOnSet(f, S)
    BY Zenon DEF Sums!SumFunctionOnSet, SumFunctionOnSet, Sums!FoldFunctionOnSet, FoldFunctionOnSet,
                 Sums!MapThenFoldSet, MapThenFoldSet
  <1>2. \A S : Sums!IsFiniteSet(S) = IsFiniteSet(S)
    BY Zenon DEF Sums!IsFiniteSet, IsFiniteSet
  <1> QED BY <1>1, <1>2, Zenon

\* One term of a sum grows by n.
Grows(S, q, n, f, g) ==
  /\ \A x \in S : f[x] \in Nat
  /\ \A x \in S : g[x] = IF x = q THEN f[x] + n ELSE f[x]

\* When one term grows, the sum grows by as much (SumTheorems).
LEMMA TermGrows ==
  ASSUME NEW S, IsFiniteSet(S), NEW q \in S, NEW n \in Nat, NEW f, NEW g, Grows(S, q, n, f, g)
  PROVE  SumFunctionOnSet(g, S) = SumFunctionOnSet(f, S) + n
  BY SumsAgree, Sums!SumGrows DEF Grows

Own(t) == {r \in Request : TaskOf[r] = t}
Queries == [r \in Request |-> query[r].charged.queries]
Rows == [r \in Request |-> query[r].charged.rows]
Time == [r \in Request |-> query[r].charged.db_ms]

\* UsedIsSumOfCharges task by task.
SumOK(t) ==
  /\ used[t].queries = SumFunctionOnSet(Queries, Own(t))
  /\ used[t].rows = SumFunctionOnSet(Rows, Own(t))
  /\ used[t].db_ms = SumFunctionOnSet(Time, Own(t))

\* A query without an outcome is not charged: a settlement adds its whole charge.
SInv ==
  /\ IInv
  /\ \A r \in Request : query[r].status \in {"NONE", "RESERVED"} => query[r].charged = Zero
  /\ \A t \in Task : SumOK(t)

\* A task has finitely many requests, each charged a number in every dimension.
LEMMA OwnCharges ==
  ASSUME LedgerTypeOK, NEW t
  PROVE  /\ IsFiniteSet(Own(t))
         /\ \A r \in Own(t) : r \in Request /\ Queries[r] \in Nat /\ Rows[r] \in Nat /\ Time[r] \in Nat
         /\ \A r \in Request : /\ Queries[r] = query[r].charged.queries /\ Rows[r] = query[r].charged.rows
                               /\ Time[r] = query[r].charged.db_ms
  <1>1. IsFiniteSet(Own(t))
    <2>1. IsFiniteSet(Request) /\ Own(t) \subseteq Request
      BY LedgerAssumption, Zenon DEF Own
    <2> QED BY <2>1, SumsAgree, Sums!FS_Subset, Zenon
  <1>2. \A r \in Own(t) : r \in Request /\ query[r].charged \in Amount
    BY Zenon DEF Own, LedgerTypeOK, QueryRecord
  <1> QED BY <1>1, <1>2, Zenon DEF Queries, Rows, Time, Amount

\* A task none of whose charges changes.
LEMMA SumStays ==
  ASSUME LedgerTypeOK, LedgerTypeOK', NEW t \in Task, SumOK(t), used'[t] = used[t],
         \A r \in Request : TaskOf[r] = t => query'[r].charged = query[r].charged
  PROVE  SumOK(t)'
  <1>1. Own(t)' = Own(t)
    BY Zenon DEF Own
  <1>2. \A r \in Own(t) : Queries'[r] = Queries[r] /\ Rows'[r] = Rows[r] /\ Time'[r] = Time[r]
    BY Zenon DEF Own, Queries, Rows, Time
  <1>3. /\ SumFunctionOnSet(Queries', Own(t)) = SumFunctionOnSet(Queries, Own(t))
        /\ SumFunctionOnSet(Rows', Own(t)) = SumFunctionOnSet(Rows, Own(t))
        /\ SumFunctionOnSet(Time', Own(t)) = SumFunctionOnSet(Time, Own(t))
    BY <1>2, OwnCharges, SumsAgree, Sums!SumSame, Zenon
  <1> QED BY <1>1, <1>3, Zenon DEF SumOK

\* A task one of whose requests gets its charge.
LEMMA SumAdds ==
  ASSUME LedgerTypeOK, NEW r \in Request, SumOK(TaskOf[r]), NEW c \in Amount,
         used'[TaskOf[r]] = Plus(used[TaskOf[r]], c),
         query[r].charged = Zero, query'[r].charged = c,
         \A s \in Request \ {r} : TaskOf[s] = TaskOf[r] => query'[s].charged = query[s].charged
  PROVE  SumOK(TaskOf[r])'
  <1>1. PICK t \in Task : t = TaskOf[r]
    BY LedgerAssumption, Zenon
  <1>0. IsFiniteSet(Own(t))
    BY OwnCharges, Zenon
  <1>2. Own(t)' = Own(t) /\ r \in Own(t)
    BY <1>1, Zenon DEF Own
  <1>3. c.queries \in Nat /\ c.rows \in Nat /\ c.db_ms \in Nat
    BY Zenon DEF Amount
  <1>4. ASSUME NEW s \in Own(t)
        PROVE  /\ Queries'[s] = IF s = r THEN Queries[s] + c.queries ELSE Queries[s]
               /\ Rows'[s] = IF s = r THEN Rows[s] + c.rows ELSE Rows[s]
               /\ Time'[s] = IF s = r THEN Time[s] + c.db_ms ELSE Time[s]
    <2>1. s \in Request /\ TaskOf[s] = t
      BY Zenon DEF Own
    <2>2. CASE s = r
      <3>1. query[r].charged.queries = 0 /\ query[r].charged.rows = 0 /\ query[r].charged.db_ms = 0
        <4>1. Zero.queries = 0 /\ Zero.rows = 0 /\ Zero.db_ms = 0
          BY Zenon DEF Zero
        <4> QED BY <4>1, Zenon
      <3>2. Queries[r] = 0 /\ Rows[r] = 0 /\ Time[r] = 0
        BY <3>1, Zenon DEF Queries, Rows, Time
      <3>3. Queries'[r] = c.queries /\ Rows'[r] = c.rows /\ Time'[r] = c.db_ms
        BY Zenon DEF Queries, Rows, Time
      <3>4. c.queries = 0 + c.queries /\ c.rows = 0 + c.rows /\ c.db_ms = 0 + c.db_ms
        BY <1>3
      <3> QED BY <2>2, <3>2, <3>3, <3>4, Zenon
    <2>3. CASE s # r
      BY <1>1, <2>1, <2>3, Zenon DEF Queries, Rows, Time
    <2> QED BY <2>2, <2>3, Zenon
  <1>5. SumFunctionOnSet(Queries', Own(t)) = SumFunctionOnSet(Queries, Own(t)) + c.queries
    <2>1. \A s \in Own(t) : Queries[s] \in Nat
      BY OwnCharges, Zenon
    <2>2. \A s \in Own(t) : Queries'[s] = IF s = r THEN Queries[s] + c.queries ELSE Queries[s]
      BY <1>4, Zenon
    <2>3. PICK f, g, n, S : f = Queries /\ g = Queries' /\ n = c.queries /\ S = Own(t)
      BY Zenon
    <2>4. Grows(S, r, n, f, g)
      BY <2>1, <2>2, <2>3, Zenon DEF Grows
    <2>5. IsFiniteSet(S) /\ r \in S /\ n \in Nat
      BY <1>0, <1>2, <1>3, <2>3, Zenon
    <2>6. SumFunctionOnSet(g, S) = SumFunctionOnSet(f, S) + n
      BY <2>4, <2>5, TermGrows, Zenon
    <2> QED BY <2>3, <2>6, Zenon
  <1>6. SumFunctionOnSet(Rows', Own(t)) = SumFunctionOnSet(Rows, Own(t)) + c.rows
    <2>1. \A s \in Own(t) : Rows[s] \in Nat
      BY OwnCharges, Zenon
    <2>2. \A s \in Own(t) : Rows'[s] = IF s = r THEN Rows[s] + c.rows ELSE Rows[s]
      BY <1>4, Zenon
    <2>3. PICK f, g, n, S : f = Rows /\ g = Rows' /\ n = c.rows /\ S = Own(t)
      BY Zenon
    <2>4. Grows(S, r, n, f, g)
      BY <2>1, <2>2, <2>3, Zenon DEF Grows
    <2>5. IsFiniteSet(S) /\ r \in S /\ n \in Nat
      BY <1>0, <1>2, <1>3, <2>3, Zenon
    <2>6. SumFunctionOnSet(g, S) = SumFunctionOnSet(f, S) + n
      BY <2>4, <2>5, TermGrows, Zenon
    <2> QED BY <2>3, <2>6, Zenon
  <1>7. SumFunctionOnSet(Time', Own(t)) = SumFunctionOnSet(Time, Own(t)) + c.db_ms
    <2>1. \A s \in Own(t) : Time[s] \in Nat
      BY OwnCharges, Zenon
    <2>2. \A s \in Own(t) : Time'[s] = IF s = r THEN Time[s] + c.db_ms ELSE Time[s]
      BY <1>4, Zenon
    <2>3. PICK f, g, n, S : f = Time /\ g = Time' /\ n = c.db_ms /\ S = Own(t)
      BY Zenon
    <2>4. Grows(S, r, n, f, g)
      BY <2>1, <2>2, <2>3, Zenon DEF Grows
    <2>5. IsFiniteSet(S) /\ r \in S /\ n \in Nat
      BY <1>0, <1>2, <1>3, <2>3, Zenon
    <2>6. SumFunctionOnSet(g, S) = SumFunctionOnSet(f, S) + n
      BY <2>4, <2>5, TermGrows, Zenon
    <2> QED BY <2>3, <2>6, Zenon
  <1>8. /\ used'[t].queries = used[t].queries + c.queries
        /\ used'[t].rows = used[t].rows + c.rows
        /\ used'[t].db_ms = used[t].db_ms + c.db_ms
    <2>1. PICK u, v : u = used[t] /\ v = used'[t]
      BY Zenon
    <2>2. v = Plus(u, c)
      BY <1>1, <2>1, Zenon
    <2>3. v = [queries |-> u.queries + c.queries, rows |-> u.rows + c.rows, db_ms |-> u.db_ms + c.db_ms]
      BY <2>2, Zenon DEF Plus
    <2>4. v.queries = u.queries + c.queries /\ v.rows = u.rows + c.rows /\ v.db_ms = u.db_ms + c.db_ms
      BY <2>3, Zenon
    <2> QED BY <2>1, <2>4, Zenon
  <1> QED BY <1>1, <1>2, <1>5, <1>6, <1>7, <1>8, Zenon DEF SumOK

\* The charges of every task after one transaction.
LEMMA SumInit ==
  ASSUME LedgerInit
  PROVE  SInv
  <1>1. IInv /\ LedgerTypeOK
    BY InvariantInit, Zenon DEF IInv
  <1>2. \A r \in Request : query[r].charged = Zero
    BY Zenon DEF LedgerInit, NoQuery
  <1>3. ASSUME NEW t \in Task PROVE SumOK(t)
    <2>1. \A r \in Own(t) : Queries[r] = 0 /\ Rows[r] = 0 /\ Time[r] = 0
      BY <1>2 DEF Own, Queries, Rows, Time, Zero
    <2>2. /\ SumFunctionOnSet(Queries, Own(t)) = 0 /\ SumFunctionOnSet(Rows, Own(t)) = 0
          /\ SumFunctionOnSet(Time, Own(t)) = 0
      BY <1>1, <2>1, OwnCharges, SumsAgree, Sums!SumZero, Zenon
    <2> QED BY <2>2, Zenon DEF LedgerInit, Zero, SumOK
  <1> QED BY <1>1, <1>2, <1>3, Zenon DEF SInv

\* A transaction that changes no charge and no used amount.
LEMMA SumUntouched ==
  ASSUME SInv, IInv', UNCHANGED used, \A r \in Request : query'[r].charged = query[r].charged,
         \A r \in Request : query'[r].status \in {"NONE", "RESERVED"} => query[r].status \in {"NONE", "RESERVED"}
  PROVE  SInv'
  <1>1. LedgerTypeOK /\ LedgerTypeOK'
    BY Zenon DEF SInv, IInv
  <1>2. ASSUME NEW t \in Task PROVE SumOK(t)'
    BY <1>1, SumStays, Zenon DEF SInv
  <1> QED BY <1>2, Zenon DEF SInv

\* A settlement charges its query and its task the same.
LEMMA SumSettle ==
  ASSUME SInv, NEW r \in Request, NEW status \in Terminal, NEW use \in Use,
         SettleBudget(r, status, use)
  PROVE  SInv'
  <1> DEFINE c == Charge(status, use, query[r].reserved)
  <1>0. IInv /\ LedgerTypeOK /\ IInv' /\ LedgerTypeOK' /\ TaskOf[r] \in Task
    BY SettleStep, LedgerAssumption, Zenon DEF SInv, IInv
  <1>1. query[r].status = "RESERVED" /\ query[r].charged = Zero /\ query[r].reserved \in Amount
    BY <1>0, Zenon DEF SettleBudget, SInv, LedgerTypeOK, QueryRecord
  <1>2. c \in Amount
    <2>1. use.rows \in Nat /\ use.db_ms \in Nat
      BY LedgerAssumption, Zenon DEF Use
    <2> QED BY <1>1, <2>1, Zenon DEF Charge, Amount, Zero, Least
  <1>3. /\ used' = [used EXCEPT ![TaskOf[r]] = Plus(used[TaskOf[r]], c)]
        /\ query' = [query EXCEPT ![r] = [status |-> status, reserved |-> query[r].reserved, charged |-> c]]
    BY Zenon DEF SettleBudget
  <1> HIDE DEF c
  <1>4. /\ used'[TaskOf[r]] = Plus(used[TaskOf[r]], c) /\ query'[r].charged = c /\ query'[r].status = status
        /\ \A s \in Request \ {r} : query'[s] = query[s]
        /\ \A t \in Task \ {TaskOf[r]} : used'[t] = used[t]
    BY <1>0, <1>3, Zenon DEF LedgerTypeOK
  <1>5. SumOK(TaskOf[r])'
    BY <1>0, <1>1, <1>2, <1>4, SumAdds, Zenon DEF SInv
  <1>6. ASSUME NEW t \in Task, t # TaskOf[r] PROVE SumOK(t)'
    BY <1>0, <1>4, <1>6, SumStays, Zenon DEF SInv
  <1>7. \A s \in Request : query'[s].status \in {"NONE", "RESERVED"} => query'[s].charged = Zero
    BY <1>4, Zenon DEF SInv, Terminal
  <1> QED BY <1>0, <1>5, <1>6, <1>7, Zenon DEF SInv

\* Recovery charges the one interrupted query of a task what the task had reserved.
LEMMA SumRecover ==
  ASSUME SInv, Recover
  PROVE  SInv'
  <1>0. /\ IInv /\ LedgerTypeOK /\ ByRequest /\ IInv' /\ LedgerTypeOK'
        /\ used \in [Task -> Amount] /\ query \in [Request -> QueryRecord]
    BY RecoverStep, Zenon DEF SInv, IInv, LedgerTypeOK
  <1>1. ASSUME NEW t \in Task PROVE used'[t] = Plus(used[t], reserved[t])
    BY <1>0, RecoveredIsReserved, Zenon DEF Recover, RecoveredTotal
  <1>2. ASSUME NEW r \in Request
        PROVE  IF query[r].status = "RESERVED"
               THEN query'[r].status = "INDETERMINATE" /\ query'[r].charged = query[r].reserved
               ELSE query'[r] = query[r]
    BY Zenon DEF Recover
  <1>3. ASSUME NEW t \in Task PROVE SumOK(t)'
    <2>1. CASE \A r \in Request : TaskOf[r] = t => query[r].status # "RESERVED"
      <3>1. reserved[t] = Zero /\ used[t] \in Amount
        BY <1>0, <2>1, Zenon DEF ByRequest
      <3>2. used'[t] = used[t]
        BY <1>1, <3>1, AmountArithmetic, Zenon
      <3>3. \A r \in Request : TaskOf[r] = t => query'[r].charged = query[r].charged
        BY <1>2, <2>1, Zenon
      <3> QED BY <1>0, <3>2, <3>3, SumStays, Zenon DEF SInv
    <2>2. CASE \E r \in Request : TaskOf[r] = t /\ query[r].status = "RESERVED"
      <3>1. PICK r \in Request : TaskOf[r] = t /\ query[r].status = "RESERVED"
        BY <2>2, Zenon
      <3>2. reserved[t] = query[r].reserved /\ query[r].reserved \in Amount /\ query[r].charged = Zero
        BY <1>0, <3>1, Zenon DEF ByRequest, QueryRecord, SInv
      <3>3. query'[r].charged = query[r].reserved /\ used'[t] = Plus(used[t], query[r].reserved)
        BY <1>1, <1>2, <3>1, <3>2, Zenon
      <3>4. ASSUME NEW s \in Request \ {r}, TaskOf[s] = t PROVE query'[s].charged = query[s].charged
        <4>1. query[s].status # "RESERVED"
          BY <1>0, <3>1, <3>4, Zenon DEF ByRequest
        <4> QED BY <1>2, <4>1, Zenon
      <3>5. SumOK(TaskOf[r])
        BY <3>1, Zenon DEF SInv
      <3> QED BY <1>0, <3>1, <3>2, <3>3, <3>4, <3>5, SumAdds, Zenon
    <2> QED BY <2>1, <2>2, Zenon
  <1>4. \A r \in Request : query'[r].status \in {"NONE", "RESERVED"} => query'[r].charged = Zero
    BY <1>2, Zenon DEF SInv
  <1> QED BY <1>0, <1>3, <1>4, Zenon DEF SInv

\* Every transaction of the ledger keeps the used amounts equal to the sums of the charges.
LEMMA SumNext == SInv /\ [LedgerNext]_ledgerVars => SInv'
  <1> SUFFICES ASSUME SInv, [LedgerNext]_ledgerVars PROVE SInv'
    BY Zenon
  <1>0. IInv /\ IInv' /\ query \in [Request -> QueryRecord]
    BY InvariantNext, Zenon DEF SInv, IInv, LedgerTypeOK
  <1>1. ASSUME NEW r \in Request, NEW ask \in Use, ReserveBudget(r, ask) PROVE SInv'
    <2>1. query[r].status = "NONE" /\ query[r].charged = Zero /\ used' = used
      BY <1>1, Zenon DEF ReserveBudget, FirstCall, SInv
    <2>2. \A s \in Request \ {r} : query'[s] = query[s]
      BY <1>0, <1>1, Zenon DEF ReserveBudget
    <2>3. query'[r].charged = Zero
      BY <1>0, <1>1, Zenon DEF ReserveBudget
    <2> QED BY <1>0, <2>1, <2>2, <2>3, SumUntouched, Zenon
  <1>2. ASSUME NEW r \in Request, NEW status \in Terminal, NEW use \in Use, SettleBudget(r, status, use)
        PROVE  SInv'
    BY <1>2, SumSettle, Zenon
  <1>3. CASE Recover
    BY <1>3, SumRecover, Zenon
  <1>4. CASE UNCHANGED <<used, query>>
    BY <1>0, <1>4, SumUntouched, Zenon
  <1> QED
    BY <1>1, <1>2, <1>3, <1>4, Zenon
    DEF LedgerNext, ReserveArchives, ArchiveTask, MarkTaskViewSemanticChanged, Expire, ledgerVars

\* The used amount of a task is the sum of what its query records show as charged, in
\* every dimension: nothing is charged twice or lost across settlements and restarts.
THEOREM NothingChargedTwice == LedgerSpec => []UsedIsSumOfCharges
  <1>1. SInv => UsedIsSumOfCharges
    BY Zenon DEF SInv, SumOK, Own, Queries, Rows, Time, UsedIsSumOfCharges
  <1>2. LedgerInit => SInv
    BY SumInit, Zenon
  <1> QED BY <1>1, <1>2, SumNext, PTL DEF LedgerSpec
=============================================================================

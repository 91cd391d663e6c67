---------------------------- MODULE TaskApproval ----------------------------
(***************************************************************************)
(* The life of a task from its request to its end: request_data_task, the  *)
(* draft in the approval system (OA), the callbacks OA sends, the Control  *)
(* transactions they lead to, delegation to child tasks, completion,       *)
(* revocation, expiry, and the admission of queries as far as it depends   *)
(* on the task family (internal/gateway/tasks.go, callback.go, query.go,   *)
(* internal/control/entities.go, callback.go, internal/oademo/server.go,   *)
(* internal/domain/authorization.go).                                      *)
(*                                                                         *)
(* OA sends the submission and the decision of a draft from two            *)
(* goroutines, each with a few attempts; an attempt may be lost, time out  *)
(* while the gateway still works on it, or be refused.  A callback handler *)
(* looks the event up, validates it against what it reads, and applies it  *)
(* in a transaction of its own; everything may change in between.          *)
(*                                                                         *)
(* A grant is abstracted to the data products it covers, its time to live  *)
(* and its expiry: one dimension that narrows as a set, one that narrows   *)
(* as a number, and the one that depends on when the decision was made.    *)
(***************************************************************************)
EXTENDS Integers, FiniteSets

CONSTANTS
  Task,          \* task ids, each requested at most once
  NoTask,
  Parent,        \* parent_task_id of a task, or NoTask
  Approved,      \* tasks that are ACTIVE when the model starts
  Product,       \* data products of the Catalog
  PolicyTtl,     \* time to live the Catalog profile gives a task
  Window,        \* largest age of a callback's occurred_at
  MaxAttempts,   \* attempts of an OA dispatch (3 in the code)
  MaxTime,       \* bound on the clock
  MaxRestarts    \* bound on restarts of the gateway and of OA

ASSUME ApprovalAssumption ==
  /\ NoTask \notin Task
  /\ Parent \in [Task -> Task \cup {NoTask}]
  /\ Approved \subseteq Task
  /\ \A t \in Approved : Parent[t] \in Approved \cup {NoTask}
  /\ {PolicyTtl, MaxAttempts} \subseteq Nat \ {0}
  /\ {Window, MaxTime, MaxRestarts} \subseteq Nat

VARIABLES
  now,        \* the clock
  view,       \* revision of the governed views in the business database
  enabled,    \* task -> its principal is enabled
  request,    \* task -> progress of the request_data_task call that creates it
  manifest,   \* task -> authorization manifest (pending context of the task)
  task,       \* task -> state and terminal reason of the tasks row
  binding,    \* task -> status of its view binding
  grant,      \* task -> stored grant
  applied,    \* event -> number of approval_events rows
  callback,   \* event -> status of the callback_idempotency row
  draft,      \* task -> OA draft state
  event,      \* event -> body of the callback, fixed at dispatch
  sender,     \* event -> OA goroutine that delivers it
  handler,    \* event, attempt -> gateway handler of that delivery
  query,      \* task -> progress of a query of the task
  restarts,
  late        \* history: the tasks that were waiting when an ancestor had stopped

control == <<task, binding, grant, applied, callback>>
oa == <<draft, event, sender>>
vars == <<now, view, enabled, request, manifest, control, oa, handler, query, restarts, late>>

Event == Task \X {"submitted", "decision"}
TaskOf(e) == e[1]
Attempt == 1 .. MaxAttempts
None == [products |-> {}, ttl |-> 0, expires |-> 0, view |-> 0]
Silent == [status |-> "none", at |-> 0, core |-> None]

Exists(t) == task[t].state # "NONE"
Row(state, reason) == [state |-> state, reason |-> reason]
Least(m, n) == IF m <= n THEN m ELSE n

\* Every task above t, as ensureActiveTaskFamily walks them: what is in every set that
\* holds the parent of t and the parents of its members.
HoldsParents(tasks, t) ==
  \A a \in tasks \cup {t} : Parent[a] # NoTask => Parent[a] \in tasks
Ancestor(t) ==
  {a \in Task : \A tasks \in SUBSET Task : HoldsParents(tasks, t) => a \in tasks}
-----------------------------------------------------------------------------
(* Grants *)

\* CoreFromManifest: the whole envelope, expiring one TTL after the decision.
CoreFromManifest(m, issuedAt) == [m EXCEPT !.expires = issuedAt + m.ttl]

Within(inner, outer) ==
  /\ inner.products \subseteq outer.products
  /\ inner.ttl <= outer.ttl
  /\ inner.expires <= outer.expires
  /\ inner.view = outer.view

\* CheckNarrowing and CheckDelegation compare every dimension.
CheckNarrowing(core, candidate) == candidate.products # {} /\ Within(candidate, core)
DelegationIgnoresExpiry(core, candidate) ==   \* mutant
  /\ candidate.products \subseteq core.products
  /\ candidate.ttl <= core.ttl
CheckDelegation(core, candidate) == Within(candidate, core)

\* A stored grant is valid before its expiry.
Unexpired(t) == now < grant[t].expires

\* constrainDelegatedBudget: a child asks for no more time than its parent has left.
RequestedTtl(t) ==
  IF Parent[t] = NoTask THEN PolicyTtl
  ELSE Least(PolicyTtl, grant[Parent[t]].expires - now)
-----------------------------------------------------------------------------
(* request_data_task *)

\* The checks on the parent, and on the draft that results.
ParentAllows(t, m) ==
  LET p == Parent[t]
  IN  p # NoTask =>
        /\ task[p].state = "ACTIVE"
        /\ Unexpired(p)
        /\ binding[p] = "ACTIVE"
        /\ grant[p].view = view
        /\ CheckDelegation(grant[p], CoreFromManifest(m, now))

NewManifest(t, products) ==
  [products |-> products, ttl |-> RequestedTtl(t), expires |-> 0,
   view |-> IF Parent[t] = NoTask THEN view ELSE grant[Parent[t]].view]

\* Validation, then the draft in OA; an answer that is lost ends the request.
RequestTask(t, products) ==
  LET m == NewManifest(t, products)
  IN  /\ request[t] = "idle"
      /\ enabled[t]
      /\ ParentAllows(t, m)
      /\ manifest' = [manifest EXCEPT ![t] = m]
      /\ draft' = [draft EXCEPT ![t] = "draft"]
      /\ \E answered \in BOOLEAN :
           request' = [request EXCEPT ![t] = IF answered THEN "drafted" ELSE "failed"]
      /\ UNCHANGED <<now, view, enabled, control, event, sender, handler, query, restarts>>

\* A request that meets changed views of its parent closes the parent instead.
RequestFindsChange(t) ==
  LET p == Parent[t]
  IN  /\ request[t] = "idle"
      /\ enabled[t]
      /\ p # NoTask
      /\ task[p].state = "ACTIVE" /\ Unexpired(p) /\ binding[p] = "ACTIVE"
      /\ grant[p].view # view
      /\ binding' = [binding EXCEPT ![p] = "REQUIRE_REBIND"]
      /\ UNCHANGED <<now, view, enabled, request, manifest, task, grant, applied, callback, oa,
                     handler, query, restarts>>

\* CreateTask locks parent and principal and looks at them again.
MayCreate(t) ==
  Parent[t] # NoTask => task[Parent[t]].state = "ACTIVE" /\ enabled[t]

CreateTask(t) ==
  /\ request[t] = "drafted"
  /\ IF MayCreate(t)
     THEN /\ task' = [task EXCEPT ![t] = Row("AWAITING_SUBMISSION", "none")]
          /\ request' = [request EXCEPT ![t] = "done"]
     ELSE /\ request' = [request EXCEPT ![t] = "failed"]
          /\ UNCHANGED task
  /\ UNCHANGED <<now, view, enabled, manifest, binding, grant, applied, callback, oa, handler,
                 query, restarts>>
-----------------------------------------------------------------------------
(* OA: drafts, decisions and deliveries *)

Dispatch(e, status, core) ==
  /\ event' = [event EXCEPT ![e] = [status |-> status, at |-> now, core |-> core]]
  /\ sender' = [sender EXCEPT ![e] = [state |-> "send", attempt |-> 1]]

SubmitDraft(t) ==
  /\ draft[t] = "draft"
  /\ draft' = [draft EXCEPT ![t] = "pending"]
  /\ Dispatch(<<t, "submitted">>, "submitted", None)
  /\ UNCHANGED <<now, view, enabled, request, manifest, control, handler, query, restarts>>

\* The grants an approver can choose: the manifest as it is, or strictly less.
Choices(t, status) ==
  LET core == CoreFromManifest(manifest[t], now)
  IN  CASE status = "approved" -> {core}
        [] status = "rejected" -> {None}
        [] status = "narrowed" ->
             {c \in [products : SUBSET core.products, ttl : 1 .. core.ttl,
                     expires : {now + ttl : ttl \in 1 .. core.ttl}, view : {core.view}] :
                c.expires = now + c.ttl /\ c # core /\ CheckNarrowing(core, c)}

DecideDraft(t, status, core) ==
  /\ draft[t] = "pending"
  /\ core \in Choices(t, status)
  /\ draft' = [draft EXCEPT ![t] = status]
  /\ Dispatch(<<t, "decision">>, status, core)
  /\ UNCHANGED <<now, view, enabled, request, manifest, control, handler, query, restarts>>

\* The attempt failed: sleep and try again, or stop after the last one.
NextAttempt(e) ==
  sender' = [sender EXCEPT ![e] = IF @.attempt = MaxAttempts THEN [@ EXCEPT !.state = "gave_up"]
                                  ELSE [state |-> "send", attempt |-> @.attempt + 1]]

\* sendCallback: the request reaches the gateway, or is lost on the way.
Send(e) ==
  /\ sender[e].state = "send"
  /\ \/ /\ sender' = [sender EXCEPT ![e].state = "wait"]
        /\ handler' = [handler EXCEPT ![e][sender[e].attempt] = "received"]
     \/ NextAttempt(e) /\ UNCHANGED handler
  /\ UNCHANGED <<now, view, enabled, request, manifest, control, draft, event, query, restarts>>

Answer(e) ==
  LET answer == handler[e][sender[e].attempt]
  IN  /\ sender[e].state = "wait"
      /\ \/ answer = "ok" /\ sender' = [sender EXCEPT ![e].state = "acked"]
         \/ answer = "refused" /\ NextAttempt(e)
      /\ handler' = [handler EXCEPT ![e][sender[e].attempt] = "none"]
      /\ UNCHANGED <<now, view, enabled, request, manifest, control, draft, event, query, restarts>>

\* The client times out or loses the connection, whatever the handler is doing.
GiveUpWaiting(e) ==
  /\ sender[e].state = "wait"
  /\ NextAttempt(e)
  /\ handler' = [handler EXCEPT ![e][sender[e].attempt] = IF @ \in {"ok", "refused"} THEN "none"
                                                          ELSE @]
  /\ UNCHANGED <<now, view, enabled, request, manifest, control, draft, event, query, restarts>>
-----------------------------------------------------------------------------
(* handleOACallback *)

InProgress == {"received", "looked_up", "apply"}
Awaited(e, n) == sender[e].state = "wait" /\ sender[e].attempt = n

\* An answer nobody waits for is lost.
HandlerTo(e, n, pc) ==
  handler' = [handler EXCEPT ![e][n] = IF pc \in InProgress \/ Awaited(e, n) THEN pc ELSE "none"]

\* LookupCallback: a completed event is answered at once.
Lookup(e, n) ==
  /\ handler[e][n] = "received"
  /\ HandlerTo(e, n, IF callback[e] = "COMPLETED" THEN "ok" ELSE "looked_up")
  /\ UNCHANGED <<now, view, enabled, request, manifest, control, oa, query, restarts>>

\* What the handler compares with the task, its parent and the views before it applies
\* a grant (validateApprovedGrant, resolveViewBinding, validateDelegatedGrant).
GrantAcceptable(t, e) ==
  LET core == CoreFromManifest(manifest[t], event[e].at)
      p == Parent[t]
  IN  /\ CheckNarrowing(core, event[e].core)
      /\ (event[e].status = "approved") = (event[e].core = core)
      /\ manifest[t].view = view
      /\ p # NoTask => /\ task[p].state = "ACTIVE"
                       /\ event[e].at < grant[p].expires
                       /\ CheckDelegation(grant[p], event[e].core)

Acceptable(e) ==
  /\ now - event[e].at <= Window
  /\ Exists(TaskOf(e))
  /\ event[e].status \in {"approved", "narrowed"} => GrantAcceptable(TaskOf(e), e)

Validate(e, n) ==
  /\ handler[e][n] = "looked_up"
  /\ HandlerTo(e, n, IF Acceptable(e) THEN "apply" ELSE "refused")
  /\ UNCHANGED <<now, view, enabled, request, manifest, control, oa, query, restarts>>

ExpectedState(status) ==
  IF status = "submitted" THEN "AWAITING_SUBMISSION" ELSE "AWAITING_APPROVAL"
NewRow(status) ==
  CASE status = "submitted" -> Row("AWAITING_APPROVAL", "none")
    [] status = "rejected"  -> Row("ARCHIVED", "rejected")
    [] OTHER                -> Row("ACTIVE", "none")

\* claimCallbackTx: a completed event is a replay, in the transaction as well.
Claims(e) ==
  callback[e] # "COMPLETED" /\ task[TaskOf(e)].state = ExpectedState(event[e].status)

\* ApplyApprovalCallback: claim, state check, approval event, grant, task row and
\* completed callback in one transaction.
Apply(e, n) ==
  LET t == TaskOf(e)
  IN  /\ handler[e][n] = "apply"
      /\ Claims(e)
      /\ task' = [task EXCEPT ![t] = NewRow(event[e].status)]
      /\ grant' = IF event[e].status \in {"approved", "narrowed"}
                  THEN [grant EXCEPT ![t] = event[e].core] ELSE grant
      /\ applied' = [applied EXCEPT ![e] = @ + 1]
      /\ callback' = [callback EXCEPT ![e] = "COMPLETED"]
      /\ HandlerTo(e, n, "ok")
      /\ UNCHANGED <<now, view, enabled, request, manifest, binding, oa, query, restarts>>

\* A replay answers with the stored response; anything else rolls back.
RefusedIsOk(e) == "ok"   \* mutant
ApplyAnswer(e) == IF callback[e] = "COMPLETED" THEN "ok" ELSE "refused"
ApplyNothing(e, n) ==
  /\ handler[e][n] = "apply"
  /\ ~Claims(e)
  /\ HandlerTo(e, n, ApplyAnswer(e))
  /\ UNCHANGED <<now, view, enabled, request, manifest, control, oa, query, restarts>>

\* The request context of a handler nobody waits for is cancelled.
Cancelled(e, n) ==
  /\ handler[e][n] \in InProgress
  /\ ~Awaited(e, n)
  /\ HandlerTo(e, n, "none")
  /\ UNCHANGED <<now, view, enabled, request, manifest, control, oa, query, restarts>>
-----------------------------------------------------------------------------
(* Stops *)

CompleteTask(t) ==
  /\ task[t].state = "ACTIVE"
  /\ task' = [task EXCEPT ![t] = Row("ARCHIVED", "completed")]
  /\ UNCHANGED <<now, view, enabled, request, manifest, binding, grant, applied, callback, oa,
                 handler, query, restarts>>

RevokeTwice(t) ==   \* mutant
  /\ Exists(t)
  /\ task' = [task EXCEPT ![t] = Row("ARCHIVED", "revoked")]
  /\ UNCHANGED <<now, view, enabled, request, manifest, binding, grant, applied, callback, oa,
                 handler, query, restarts>>
\* revoke_task stops a task in any state it has.
RevokeTask(t) ==
  /\ task[t].state \notin {"NONE", "ARCHIVED"}
  /\ task' = [task EXCEPT ![t] = Row("ARCHIVED", "revoked")]
  /\ UNCHANGED <<now, view, enabled, request, manifest, binding, grant, applied, callback, oa,
                 handler, query, restarts>>

DisablePrincipal(t) ==
  /\ enabled[t] /\ Parent[t] # NoTask
  /\ enabled' = [enabled EXCEPT ![t] = FALSE]
  /\ UNCHANGED <<now, view, request, manifest, control, oa, handler, query, restarts>>

Tick ==
  /\ now < MaxTime
  /\ now' = now + 1
  /\ UNCHANGED <<view, enabled, request, manifest, control, oa, handler, query, restarts>>

ViewChanges ==
  /\ view = 0
  /\ view' = 1
  /\ UNCHANGED <<now, enabled, request, manifest, control, oa, handler, query, restarts>>

\* The gateway stops and starts again: calls in progress end, recover archives what
\* has expired.
Restart ==
  /\ restarts < MaxRestarts
  /\ restarts' = restarts + 1
  /\ handler' = [e \in Event |-> [n \in Attempt |-> "none"]]
  /\ request' = [t \in Task |-> IF request[t] = "drafted" THEN "failed" ELSE request[t]]
  /\ query' = [t \in Task |-> "idle"]
  /\ task' = [t \in Task |-> IF /\ task[t].state \notin {"NONE", "ARCHIVED"}
                                /\ grant[t] # None
                                /\ ~Unexpired(t)
                             THEN Row("ARCHIVED", "expired") ELSE task[t]]
  /\ UNCHANGED <<now, view, enabled, manifest, binding, grant, applied, callback, oa>>

\* OA keeps drafts and goroutines in memory.
OARestart ==
  /\ restarts < MaxRestarts
  /\ restarts' = restarts + 1
  /\ draft' = [t \in Task |-> IF draft[t] = "none" THEN "none" ELSE "lost"]
  /\ sender' = [e \in Event |-> IF sender[e].state \in {"send", "wait"}
                                THEN [sender[e] EXCEPT !.state = "gave_up"] ELSE sender[e]]
  /\ UNCHANGED <<now, view, enabled, request, manifest, control, event, handler, query>>
-----------------------------------------------------------------------------
(* Admission of a query *)

FamilyActive(t) == \A a \in Ancestor(t) : task[a].state = "ACTIVE"

\* validateDelegatedGrant, for a stored grant.
DelegationHolds(t) ==
  Parent[t] # NoTask =>
    /\ task[Parent[t]].state = "ACTIVE"
    /\ Unexpired(Parent[t])
    /\ CheckDelegation(grant[Parent[t]], grant[t])

FamilyIgnored(t) == TRUE   \* mutant
FamilyAdmits(t) == FamilyActive(t) /\ DelegationHolds(t)

\* executeSQL up to the reservation: task, ancestors, grants and views are read.
StartQuery(t) ==
  /\ query[t] = "idle"
  /\ enabled[t]
  /\ task[t].state = "ACTIVE"
  /\ FamilyAdmits(t)
  /\ Unexpired(t)
  /\ binding[t] = "ACTIVE"
  /\ IF grant[t].view = view
     THEN query' = [query EXCEPT ![t] = "checked"] /\ UNCHANGED binding
     ELSE binding' = [binding EXCEPT ![t] = "REQUIRE_REBIND"] /\ UNCHANGED query
  /\ UNCHANGED <<now, view, enabled, request, manifest, task, grant, applied, callback, oa,
                 handler, restarts>>

\* ReserveBudget looks at the task alone, and archives it when it has expired.
Reserve(t) ==
  /\ query[t] = "checked"
  /\ \/ /\ task[t].state = "ACTIVE" /\ Unexpired(t) /\ binding[t] = "ACTIVE"
        /\ query' = [query EXCEPT ![t] = "reserved"]
        /\ UNCHANGED task
     \/ /\ task[t].state = "ACTIVE" /\ ~Unexpired(t)
        /\ task' = [task EXCEPT ![t] = Row("ARCHIVED", "expired")]
        /\ query' = [query EXCEPT ![t] = "idle"]
     \/ /\ task[t].state # "ACTIVE" \/ (Unexpired(t) /\ binding[t] # "ACTIVE")
        /\ query' = [query EXCEPT ![t] = "idle"]
        /\ UNCHANGED task
  /\ UNCHANGED <<now, view, enabled, request, manifest, binding, grant, applied, callback, oa,
                 handler, restarts>>

\* The settlement of the query; it archives the task when the budget is used up.
EndQuery(t) ==
  /\ query[t] = "reserved"
  /\ query' = [query EXCEPT ![t] = "idle"]
  /\ \/ UNCHANGED task
     \/ task[t].state = "ACTIVE" /\ task' = [task EXCEPT ![t] = Row("ARCHIVED", "budget_exhausted")]
  /\ UNCHANGED <<now, view, enabled, request, manifest, binding, grant, applied, callback, oa,
                 handler, restarts>>
-----------------------------------------------------------------------------
\* Tasks in Approved were requested and approved before time 0.
ApprovedGrant == [products |-> Product, ttl |-> PolicyTtl, expires |-> PolicyTtl, view |-> 0]

Init ==
  /\ now = 0
  /\ view = 0
  /\ enabled = [t \in Task |-> TRUE]
  /\ request = [t \in Task |-> IF t \in Approved THEN "done" ELSE "idle"]
  /\ manifest = [t \in Task |-> IF t \in Approved THEN [ApprovedGrant EXCEPT !.expires = 0] ELSE None]
  /\ task = [t \in Task |-> IF t \in Approved THEN Row("ACTIVE", "none") ELSE Row("NONE", "none")]
  /\ binding = [t \in Task |-> "ACTIVE"]
  /\ grant = [t \in Task |-> IF t \in Approved THEN ApprovedGrant ELSE None]
  /\ applied = [e \in Event |-> IF TaskOf(e) \in Approved THEN 1 ELSE 0]
  /\ callback = [e \in Event |-> IF TaskOf(e) \in Approved THEN "COMPLETED" ELSE "NONE"]
  /\ draft = [t \in Task |-> IF t \in Approved THEN "approved" ELSE "none"]
  /\ event = [e \in Event |-> Silent]
  /\ sender = [e \in Event |-> IF TaskOf(e) \in Approved THEN [state |-> "acked", attempt |-> 1]
                               ELSE [state |-> "idle", attempt |-> 0]]
  /\ handler = [e \in Event |-> [n \in Attempt |-> "none"]]
  /\ query = [t \in Task |-> "idle"]
  /\ restarts = 0 /\ late = {}

HandlerStep(e, n) ==
  Lookup(e, n) \/ Validate(e, n) \/ Apply(e, n) \/ ApplyNothing(e, n) \/ Cancelled(e, n)

Waiting(t) == task[t].state \in {"NONE", "AWAITING_SUBMISSION", "AWAITING_APPROVAL"}
Stopped(t) == \E a \in Ancestor(t) : task[a].state = "ARCHIVED"

Step ==
  \/ \E t \in Task, products \in SUBSET Product \ {{}} : RequestTask(t, products)
  \/ \E t \in Task : RequestFindsChange(t) \/ CreateTask(t) \/ SubmitDraft(t)
  \/ \E t \in Task, status \in {"approved", "narrowed", "rejected"} :
       \E core \in Choices(t, status) : DecideDraft(t, status, core)
  \/ \E e \in Event : Send(e) \/ Answer(e) \/ GiveUpWaiting(e)
  \/ \E e \in Event, n \in Attempt : HandlerStep(e, n)
  \/ \E t \in Task : CompleteTask(t) \/ RevokeTask(t) \/ DisablePrincipal(t)
  \/ \E t \in Task : StartQuery(t) \/ Reserve(t) \/ EndQuery(t)
  \/ Tick \/ ViewChanges \/ Restart \/ OARestart

Next == Step /\ late' = late \cup {t \in Task : Waiting(t)' /\ Stopped(t)'}

Spec == Init /\ [][Next]_vars

-----------------------------------------------------------------------------
\* OA is told ok only about an event that took effect, once: over repeated attempts,
\* concurrent handlers of the same event, cancelled requests and restarts, an
\* acknowledged callback has exactly one approval event and a completed claim.  The
\* decision of a draft takes effect only after its submission, although the two are sent
\* by independent goroutines and may overtake each other, and a grant is the very
\* envelope the approver chose.
AckMeansApplied ==
  /\ \A e \in Event :
       /\ sender[e].state = "acked" => applied[e] = 1
       /\ applied[e] = IF callback[e] = "COMPLETED" THEN 1 ELSE 0
  /\ \A t \in Task \ Approved :
       LET decision == <<t, "decision">>
       IN  /\ applied[decision] > 0 => applied[<<t, "submitted">>] > 0
           /\ grant[t] # None => applied[decision] = 1 /\ grant[t] = event[decision].core

\* No grant reaches further than the grant above it: whatever was narrowed, and however
\* long an approval took, a child covers no product and no time its parent does not.
GrantWithinFamily ==
  \A t \in Task : \A a \in Ancestor(t) : grant[t] # None => Within(grant[t], grant[a])

\* A child that is still waiting when one of its ancestors stops never runs a query, even
\* if an approval validated before the stop activates it afterwards.
LateChildNeverQueries == \A t \in late : query[t] # "reserved"

Machine == INSTANCE TaskMachine WITH machine <- task
\* The Control transactions only move a task as the domain state machine does: an event
\* meets a state it is meant for, and a terminal reason is given once.
MachineSpec == Machine!MachineSpec

\* docs/exposure-accounting.md: "revoking the root task blocks new queries of its
\* descendants".
StopBlocksDescendants ==
  [][\A t \in Task :
       Stopped(t) => (query[t] # "reserved" => query'[t] # "reserved")]_vars
=============================================================================

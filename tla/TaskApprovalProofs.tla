------------------------- MODULE TaskApprovalProofs -------------------------
(***************************************************************************)
(* Proofs about approval and delegation, for every family of tasks, every  *)
(* number of attempts and restarts and every clock.                        *)
(*                                                                         *)
(* Three arguments meet in one inductive invariant.  A callback that is    *)
(* answered ok is completed, and a draft that has not been decided has     *)
(* nothing on its way (Deliveries, Drafts).  A grant that was validated    *)
(* against its parent stays within it, because the parent's own grant is   *)
(* final (Grants).  A task that was waiting when an ancestor stopped can   *)
(* never pass the walk over its ancestors (Stops).                         *)
(***************************************************************************)
EXTENDS TaskApproval, TLAPS

Core == [products : SUBSET Product, ttl : Int, expires : Int, view : Int]
TaskRow == [state : Machine!State, reason : Machine!TerminalReason]
Sender == [state : {"idle", "send", "wait", "acked", "gave_up"}, attempt : Nat]
Answers == {"none", "received", "looked_up", "apply", "ok", "refused"}

ApprovalTypeOK ==
  /\ now \in Int /\ view \in Int
  /\ enabled \in [Task -> BOOLEAN]
  /\ request \in [Task -> {"idle", "drafted", "failed", "done"}]
  /\ manifest \in [Task -> Core]
  /\ task \in [Task -> TaskRow]
  /\ binding \in [Task -> {"ACTIVE", "REQUIRE_REBIND"}]
  /\ grant \in [Task -> Core]
  /\ applied \in [Event -> Nat]
  /\ callback \in [Event -> {"NONE", "COMPLETED"}]
  /\ draft \in [Task -> {"none", "draft", "pending", "approved", "narrowed", "rejected", "lost"}]
  /\ event \in [Event -> [status : {"none", "submitted", "approved", "narrowed", "rejected"},
                          at : Int, core : Core]]
  /\ sender \in [Event -> Sender]
  /\ handler \in [Event -> [Attempt -> Answers]]
  /\ query \in [Task -> {"idle", "checked", "reserved"}]
  /\ restarts \in Nat
  /\ late \subseteq Task

Submitted(t) == <<t, "submitted">>
Decision(t) == <<t, "decision">>
Bodies(e) == IF e[2] = "submitted" THEN {"submitted"} ELSE {"approved", "narrowed", "rejected"}

\* An event that is being delivered has its body; what was answered ok is completed, and
\* completed means applied once.
DeliveryOK(e) ==
  /\ event[e].status \in Bodies(e) \cup {"none"}
  /\ sender[e].state \in {"send", "wait"} => event[e].status # "none" /\ sender[e].attempt \in Attempt
  /\ sender[e].state = "acked" => callback[e] = "COMPLETED"
  /\ \A n \in Attempt : /\ handler[e][n] # "none" => event[e].status # "none"
                        /\ handler[e][n] = "ok" => callback[e] = "COMPLETED"
  /\ applied[e] = IF callback[e] = "COMPLETED" THEN 1 ELSE 0
Deliveries == \A e \in Event : DeliveryOK(e)

Unsent(e) ==
  /\ sender[e].state = "idle"
  /\ callback[e] # "COMPLETED"
  /\ \A n \in Attempt : handler[e][n] = "none"

\* A draft is submitted and decided once: before that nothing of the event is on its way.
DraftOK(t) ==
  /\ request[t] = "idle" => draft[t] = "none"
  /\ draft[t] \in {"none", "draft"} => Unsent(Submitted(t))
  /\ draft[t] \in {"none", "draft", "pending"} => Unsent(Decision(t))
Drafts == \A t \in Task : DraftOK(t)

\* How far the task row is, the callbacks and the grant agree.
RowOK(t) ==
  /\ task[t].reason = "none" <=> task[t].state # "ARCHIVED"
  /\ request[t] \in {"idle", "drafted"} => task[t].state = "NONE"
  /\ task[t].state = "AWAITING_APPROVAL" => callback[Submitted(t)] = "COMPLETED"
  /\ Waiting(t) => callback[Decision(t)] # "COMPLETED" /\ query[t] = "idle"
  /\ callback[Decision(t)] = "COMPLETED" => callback[Submitted(t)] = "COMPLETED"
  /\ grant[t] # None => callback[Decision(t)] = "COMPLETED"
  /\ grant[t] # None /\ t \notin Approved => grant[t] = event[Decision(t)].core
Rows == \A t \in Task : RowOK(t)

Fitting(core, t) ==
  /\ core.products # {}
  /\ Parent[t] # NoTask => grant[Parent[t]] # None /\ Within(core, grant[Parent[t]])

\* A grant is within the grant of the parent, which exists, and so is one that a handler
\* has validated and is about to store.
GrantOK(t) ==
  /\ grant[t] # None /\ Parent[t] # NoTask =>
       grant[Parent[t]] # None /\ Within(grant[t], grant[Parent[t]])
  /\ \A n \in Attempt :
       handler[Decision(t)][n] = "apply" /\ event[Decision(t)].status \in {"approved", "narrowed"}
         => Fitting(event[Decision(t)].core, t)
Grants == \A t \in Task : GrantOK(t)

\* A stop is final, and a task that was waiting then has asked for nothing.
Stops == \A t \in late : Stopped(t) /\ query[t] = "idle"

IInv == ApprovalTypeOK /\ Deliveries /\ Drafts /\ Rows /\ Grants /\ Stops
-----------------------------------------------------------------------------
(* Types *)

\* What an approver can choose is a grant.
LEMMA ChoiceType ==
  ASSUME ApprovalTypeOK, NEW t \in Task, NEW status \in {"approved", "narrowed", "rejected"},
         NEW core \in Choices(t, status)
  PROVE  core \in Core
  <1>0. None \in Core
    BY DEF None, Core
  <1>1. manifest[t] \in Core /\ now \in Int
    BY Zenon DEF ApprovalTypeOK
  <1>2. CoreFromManifest(manifest[t], now) \in Core
    BY <1>1 DEF CoreFromManifest, Core
  <1>3. CASE status = "approved"
    BY <1>2, <1>3, Zenon DEF Choices
  <1>4. CASE status = "rejected"
    BY <1>0, <1>4, Zenon DEF Choices
  <1>5. CASE status = "narrowed"
    <2> DEFINE whole == CoreFromManifest(manifest[t], now)
    <2>1. core \in [products : SUBSET whole.products, ttl : 1 .. whole.ttl,
                    expires : {now + ttl : ttl \in 1 .. whole.ttl}, view : {whole.view}]
      BY <1>5, Zenon DEF Choices
    <2>2. whole.products \subseteq Product /\ whole.view \in Int
      BY <1>2, Zenon DEF Core
    <2> HIDE DEF whole
    <2> QED BY <1>1, <2>1, <2>2 DEF Core
  <1> QED BY <1>3, <1>4, <1>5, Zenon

\* A row of the task table that a transaction writes.
LEMMA RowTypes ==
  /\ Row("AWAITING_SUBMISSION", "none") \in TaskRow
  /\ \A reason \in {"completed", "revoked", "expired", "budget_exhausted"} :
       Row("ARCHIVED", reason) \in TaskRow
  /\ \A status : NewRow(status) \in TaskRow
  BY Zenon DEF Row, NewRow, TaskRow, Machine!State, Machine!TerminalReason

\* The fields of a row.
LEMMA RowFields ==
  ASSUME NEW state, NEW reason
  PROVE  Row(state, reason).state = state /\ Row(state, reason).reason = reason
  BY Zenon DEF Row

\* A sender that tries again, or stops.
LEMMA NextAttemptType ==
  ASSUME ApprovalTypeOK, NEW e \in Event, NextAttempt(e)
  PROVE  sender' \in [Event -> Sender]
  <1>1. sender \in [Event -> Sender] /\ sender[e] \in Sender
    BY Zenon DEF ApprovalTypeOK
  <1>2. /\ [sender[e] EXCEPT !.state = "gave_up"] \in Sender
        /\ [state |-> "send", attempt |-> sender[e].attempt + 1] \in Sender
    BY <1>1 DEF Sender
  <1>3. \E s \in Sender : sender' = [sender EXCEPT ![e] = s]
    BY <1>2, Zenon DEF NextAttempt
  <1> QED BY <1>1, <1>3, Zenon

\* A sender that only changes its state.
LEMMA SenderStateType ==
  ASSUME ApprovalTypeOK, NEW e \in Event, NEW state \in {"wait", "acked"},
         sender' = [sender EXCEPT ![e].state = state]
  PROVE  sender' \in [Event -> Sender]
  <1>1. sender \in [Event -> Sender] /\ sender[e] \in Sender
    BY Zenon DEF ApprovalTypeOK
  <1>2. [sender[e] EXCEPT !.state = state] \in Sender
    BY <1>1, Zenon DEF Sender
  <1> QED BY <1>1, <1>2, Zenon

SetHandler(e, n, pc) == handler' = [handler EXCEPT ![e][n] = pc]

\* A handler is set to an answer, or is left alone where there is none.
LEMMA HandlerType ==
  ASSUME ApprovalTypeOK, NEW e \in Event, NEW n, NEW pc, n \in Attempt => pc \in Answers,
         SetHandler(e, n, pc)
  PROVE  handler' \in [Event -> [Attempt -> Answers]]
  <1>1. handler \in [Event -> [Attempt -> Answers]] /\ handler[e] \in [Attempt -> Answers]
    BY Zenon DEF ApprovalTypeOK
  <1>2. [handler[e] EXCEPT ![n] = pc] \in [Attempt -> Answers]
    BY <1>1, Zenon
  <1>3. handler' = [handler EXCEPT ![e] = [handler[e] EXCEPT ![n] = pc]]
    BY Zenon DEF SetHandler
  <1> QED BY <1>1, <1>2, <1>3, Zenon

\* Every step keeps the types.
LEMMA TypeStep ==
  ASSUME ApprovalTypeOK, Next
  PROVE  ApprovalTypeOK'
  <1>0. late' \subseteq Task
    BY Zenon DEF Next, ApprovalTypeOK
  <1>1. ASSUME NEW t \in Task, NEW products \in SUBSET Product \ {{}}, RequestTask(t, products)
        PROVE  ApprovalTypeOK'
    <2>1. RequestedTtl(t) \in Int
      BY ApprovalAssumption DEF RequestedTtl, Least, ApprovalTypeOK, Core
    <2>2. NewManifest(t, products) \in Core
      BY <2>1, ApprovalAssumption DEF NewManifest, Core, ApprovalTypeOK
    <2> QED BY <1>0, <1>1, <2>2, Zenon DEF RequestTask, control, ApprovalTypeOK
  <1>2. ASSUME NEW t \in Task, RequestFindsChange(t)
        PROVE  ApprovalTypeOK'
    BY <1>0, <1>2, Zenon DEF RequestFindsChange, oa, ApprovalTypeOK
  <1>3. ASSUME NEW t \in Task, CreateTask(t)
        PROVE  ApprovalTypeOK'
    <2>1. task' \in [Task -> TaskRow]
      BY <1>3, RowTypes DEF CreateTask, ApprovalTypeOK
    <2>2. request' \in [Task -> {"idle", "drafted", "failed", "done"}]
      <3>1. \E pc \in {"done", "failed"} : request' = [request EXCEPT ![t] = pc]
        BY <1>3, Zenon DEF CreateTask
      <3> QED BY <3>1, Zenon DEF ApprovalTypeOK
    <2> QED BY <1>0, <1>3, <2>1, <2>2, Zenon DEF CreateTask, oa, ApprovalTypeOK
  <1>4. ASSUME NEW t \in Task, SubmitDraft(t)
        PROVE  ApprovalTypeOK'
    <2>1. <<t, "submitted">> \in Event /\ None \in Core
      BY DEF Event, None, Core
    <2> QED BY <1>0, <1>4, <2>1, Zenon DEF SubmitDraft, Dispatch, control, ApprovalTypeOK, Sender
  <1>5. ASSUME NEW t \in Task, NEW status \in {"approved", "narrowed", "rejected"},
               NEW core \in Choices(t, status), DecideDraft(t, status, core)
        PROVE  ApprovalTypeOK'
    <2>1. <<t, "decision">> \in Event /\ core \in Core
      BY ChoiceType, Zenon DEF Event
    <2> QED BY <1>0, <1>5, <2>1, Zenon DEF DecideDraft, Dispatch, control, ApprovalTypeOK, Sender
  <1>6. ASSUME NEW e \in Event, Send(e)
        PROVE  ApprovalTypeOK'
    <2>1. handler' \in [Event -> [Attempt -> Answers]]
      <3>1. SetHandler(e, sender[e].attempt, "received") \/ handler' = handler
        BY <1>6, Zenon DEF Send, SetHandler
      <3> QED BY <3>1, HandlerType, Zenon DEF ApprovalTypeOK, Answers
    <2>2. sender' \in [Event -> Sender]
      BY <1>6, NextAttemptType, SenderStateType, Zenon DEF Send
    <2> QED BY <1>0, <1>6, <2>1, <2>2, Zenon DEF Send, control, ApprovalTypeOK
  <1>7. ASSUME NEW e \in Event, Answer(e)
        PROVE  ApprovalTypeOK'
    <2>1. handler' \in [Event -> [Attempt -> Answers]]
      <3>1. SetHandler(e, sender[e].attempt, "none")
        BY <1>7, Zenon DEF Answer, SetHandler
      <3> QED BY <3>1, HandlerType, Zenon DEF Answers
    <2>2. sender' \in [Event -> Sender]
      BY <1>7, NextAttemptType, SenderStateType, Zenon DEF Answer
    <2> QED BY <1>0, <1>7, <2>1, <2>2, Zenon DEF Answer, control, ApprovalTypeOK
  <1>8. ASSUME NEW e \in Event, GiveUpWaiting(e)
        PROVE  ApprovalTypeOK'
    <2>1. handler' \in [Event -> [Attempt -> Answers]]
      <3> DEFINE n == sender[e].attempt
                 pc == IF handler[e][n] \in {"ok", "refused"} THEN "none" ELSE handler[e][n]
      <3>1. SetHandler(e, n, pc)
        BY <1>8, Zenon DEF GiveUpWaiting, SetHandler
      <3>2. n \in Attempt => pc \in Answers
        BY DEF ApprovalTypeOK, Answers
      <3> HIDE DEF n, pc
      <3> QED BY <3>1, <3>2, HandlerType, Zenon
    <2>2. sender' \in [Event -> Sender]
      BY <1>8, NextAttemptType, Zenon DEF GiveUpWaiting
    <2> QED BY <1>0, <1>8, <2>1, <2>2, Zenon DEF GiveUpWaiting, control, ApprovalTypeOK
  <1>9. ASSUME NEW e \in Event, NEW n \in Attempt, HandlerStep(e, n)
        PROVE  ApprovalTypeOK'
    <2>1. handler' \in [Event -> [Attempt -> Answers]]
      <3>1. \E pc \in Answers : HandlerTo(e, n, pc)
        BY <1>9, Zenon DEF HandlerStep, Lookup, Validate, Apply, ApplyNothing, Cancelled, ApplyAnswer, Answers
      <3>2. \E pc \in Answers : SetHandler(e, n, pc)
        BY <3>1, Zenon DEF HandlerTo, SetHandler, Answers
      <3> QED BY <3>2, HandlerType, Zenon
    <2>2. CASE Apply(e, n)
      <3>1. TaskOf(e) \in Task /\ event[e].core \in Core
        BY Zenon DEF TaskOf, Event, ApprovalTypeOK
      <3>2. /\ task' \in [Task -> TaskRow]
            /\ grant' \in [Task -> Core]
        BY <2>2, <3>1, RowTypes, Zenon DEF Apply, ApprovalTypeOK
      <3> QED BY <1>0, <2>1, <2>2, <3>2 DEF Apply, oa, ApprovalTypeOK
    <2>3. CASE ~Apply(e, n)
      <3>1. UNCHANGED <<now, view, enabled, request, manifest, control, oa, query, restarts>>
        BY <1>9, <2>3, Zenon DEF HandlerStep, Lookup, Validate, ApplyNothing, Cancelled
      <3> QED BY <1>0, <2>1, <3>1, Zenon DEF control, oa, ApprovalTypeOK
    <2> QED BY <2>2, <2>3, Zenon
  <1>10. ASSUME NEW t \in Task, CompleteTask(t) \/ RevokeTask(t) \/ DisablePrincipal(t)
         PROVE  ApprovalTypeOK'
    <2>1. task' \in [Task -> TaskRow]
      BY <1>10, RowTypes, Zenon DEF CompleteTask, RevokeTask, DisablePrincipal, control, ApprovalTypeOK
    <2>2. enabled' \in [Task -> BOOLEAN]
      BY <1>10, Zenon DEF CompleteTask, RevokeTask, DisablePrincipal, ApprovalTypeOK
    <2> QED BY <1>0, <1>10, <2>1, <2>2 DEF CompleteTask, RevokeTask, DisablePrincipal, control, oa,
                                           ApprovalTypeOK
  <1>11. ASSUME NEW t \in Task, StartQuery(t) \/ Reserve(t) \/ EndQuery(t)
         PROVE  ApprovalTypeOK'
    <2>1. task' \in [Task -> TaskRow]
      BY <1>11, RowTypes DEF StartQuery, Reserve, EndQuery, ApprovalTypeOK
    <2>2. query' \in [Task -> {"idle", "checked", "reserved"}]
      BY <1>11 DEF StartQuery, Reserve, EndQuery, ApprovalTypeOK
    <2>3. binding' \in [Task -> {"ACTIVE", "REQUIRE_REBIND"}]
      BY <1>11, SMTT(60) DEF StartQuery, Reserve, EndQuery, ApprovalTypeOK
    <2> QED BY <1>0, <1>11, <2>1, <2>2, <2>3 DEF StartQuery, Reserve, EndQuery, oa, ApprovalTypeOK
  <1>12. CASE Tick \/ ViewChanges
    BY <1>0, <1>12 DEF Tick, ViewChanges, control, oa, ApprovalTypeOK
  <1>13. CASE Restart
    <2>1. /\ handler' \in [Event -> [Attempt -> Answers]]
          /\ request' \in [Task -> {"idle", "drafted", "failed", "done"}]
          /\ query' \in [Task -> {"idle", "checked", "reserved"}]
          /\ restarts' \in Nat
      BY <1>13 DEF Restart, ApprovalTypeOK, Answers
    <2>2. task' \in [Task -> TaskRow]
      BY <1>13, RowTypes, Zenon DEF Restart, ApprovalTypeOK
    <2> QED BY <1>0, <1>13, <2>1, <2>2, Zenon DEF Restart, oa, ApprovalTypeOK
  <1>14. CASE OARestart
    <2>1. \A e \in Event : sender[e] \in Sender /\ [sender[e] EXCEPT !.state = "gave_up"] \in Sender
      <3>1. \A s \in Sender : [s EXCEPT !.state = "gave_up"] \in Sender
        BY Zenon DEF Sender
      <3> QED BY <3>1, Zenon DEF ApprovalTypeOK
    <2>2. sender' \in [Event -> Sender]
      BY <1>14, <2>1, Zenon DEF OARestart
    <2> QED BY <1>0, <1>14, <2>2 DEF OARestart, control, ApprovalTypeOK
  <1> QED
    BY <1>1, <1>2, <1>3, <1>4, <1>5, <1>6, <1>7, <1>8, <1>9, <1>10, <1>11, <1>12, <1>13, <1>14, Zenon
       DEF Next, Step
-----------------------------------------------------------------------------
(* What the actions do to senders and handlers *)

\* Only the handler that is set changes.
LEMMA HandlerAt ==
  ASSUME ApprovalTypeOK, NEW e \in Event, NEW n, NEW pc,
         SetHandler(e, n, pc)
  PROVE  \A x \in Event, m \in Attempt :
           handler'[x][m] = IF x = e /\ m = n THEN pc ELSE handler[x][m]
  <1>1. handler \in [Event -> [Attempt -> Answers]] /\ handler[e] \in [Attempt -> Answers]
    BY Zenon DEF ApprovalTypeOK
  <1>2. handler' = [handler EXCEPT ![e] = [handler[e] EXCEPT ![n] = pc]]
    BY Zenon DEF SetHandler
  <1> QED BY <1>1, <1>2, Zenon

\* Only the sender that tries again changes.
LEMMA NextAttemptAt ==
  ASSUME ApprovalTypeOK, NEW e \in Event, NextAttempt(e)
  PROVE  /\ \A x \in Event \ {e} : sender'[x] = sender[x]
         /\ sender'[e].state \in {"send", "gave_up"}
         /\ sender[e].attempt \in Attempt /\ sender'[e].state = "send" => sender'[e].attempt \in Attempt
  <1>1. sender \in [Event -> Sender] /\ sender[e] \in Sender
    BY Zenon DEF ApprovalTypeOK
  <1>2. sender'[e] = IF sender[e].attempt = MaxAttempts THEN [sender[e] EXCEPT !.state = "gave_up"]
                     ELSE [state |-> "send", attempt |-> sender[e].attempt + 1]
    BY <1>1, Zenon DEF NextAttempt
  <1>3. \A x \in Event \ {e} : sender'[x] = sender[x]
    BY <1>1, Zenon DEF NextAttempt
  <1> QED BY <1>1, <1>2, <1>3, ApprovalAssumption DEF Sender, Attempt

\* OA moves one sender that is under way, and clears or starts one of its handlers.
LEMMA SenderEffect ==
  ASSUME ApprovalTypeOK, Deliveries, NEW e \in Event, Send(e) \/ Answer(e) \/ GiveUpWaiting(e)
  PROVE  /\ sender[e].state \in {"send", "wait"}
         /\ UNCHANGED <<now, view, enabled, request, manifest, control, draft, event, query, restarts>>
         /\ \A x \in Event \ {e} : sender'[x] = sender[x]
         /\ sender'[e].state \in {"send", "wait", "acked", "gave_up"}
         /\ sender'[e].state \in {"send", "wait"} => sender'[e].attempt \in Attempt
         /\ sender'[e].state = "acked" => callback[e] = "COMPLETED"
         /\ \A x \in Event, n \in Attempt :
              \/ handler'[x][n] = handler[x][n]
              \/ x = e /\ handler'[x][n] \in {"none", "received"}
  <1>1. sender \in [Event -> Sender] /\ sender[e] \in Sender
    BY Zenon DEF ApprovalTypeOK
  <1>2. /\ sender[e].state \in {"send", "wait"} => sender[e].attempt \in Attempt
        /\ \A n \in Attempt : handler[e][n] = "ok" => callback[e] = "COMPLETED"
    BY DEF Deliveries, DeliveryOK
  <1>3. \A state : sender' = [sender EXCEPT ![e].state = state] =>
          /\ \A x \in Event \ {e} : sender'[x] = sender[x]
          /\ sender'[e] = [sender[e] EXCEPT !.state = state]
    BY <1>1, Zenon
  <1>4. \A state : sender' = [sender EXCEPT ![e].state = state] =>
          /\ \A x \in Event \ {e} : sender'[x] = sender[x]
          /\ sender'[e].state = state /\ sender'[e].attempt = sender[e].attempt
    BY <1>1, <1>3 DEF Sender
  <1>5. CASE Send(e)
    <2>1. CASE NextAttempt(e) /\ UNCHANGED handler
      BY <1>2, <1>5, <2>1, NextAttemptAt, Zenon DEF Send
    <2>2. CASE /\ sender' = [sender EXCEPT ![e].state = "wait"]
               /\ handler' = [handler EXCEPT ![e][sender[e].attempt] = "received"]
      <3>1. \A x \in Event, n \in Attempt :
              handler'[x][n] = IF x = e /\ n = sender[e].attempt THEN "received" ELSE handler[x][n]
        <4>1. SetHandler(e, sender[e].attempt, "received")
          BY <2>2, Zenon DEF SetHandler
        <4> QED BY <4>1, HandlerAt
      <3> QED BY <1>2, <1>4, <1>5, <2>2, <3>1 DEF Send
    <2> QED BY <1>5, <2>1, <2>2, Zenon DEF Send
  <1>6. CASE Answer(e)
    <2>1. \A x \in Event, n \in Attempt :
            handler'[x][n] = IF x = e /\ n = sender[e].attempt THEN "none" ELSE handler[x][n]
      <3>1. SetHandler(e, sender[e].attempt, "none")
        BY <1>6, Zenon DEF Answer, SetHandler
      <3> QED BY <3>1, HandlerAt
    <2>2. CASE NextAttempt(e)
      BY <1>2, <1>6, <2>1, <2>2, NextAttemptAt DEF Answer
    <2>3. CASE handler[e][sender[e].attempt] = "ok" /\ sender' = [sender EXCEPT ![e].state = "acked"]
      BY <1>2, <1>4, <1>6, <2>1, <2>3, SMTT(60) DEF Answer
    <2> QED BY <1>6, <2>2, <2>3, Zenon DEF Answer
  <1>7. CASE GiveUpWaiting(e)
    <2>1. \A x \in Event, n \in Attempt :
            handler'[x][n] = handler[x][n] \/ (x = e /\ handler'[x][n] = "none")
      <3> DEFINE m == sender[e].attempt
                 pc == IF handler[e][m] \in {"ok", "refused"} THEN "none" ELSE handler[e][m]
      <3>1. SetHandler(e, m, pc)
        BY <1>7, Zenon DEF GiveUpWaiting, SetHandler
      <3>2. pc = "none" \/ pc = handler[e][m]
        BY Zenon
      <3> HIDE DEF m, pc
      <3>3. \A x \in Event, n \in Attempt :
              handler'[x][n] = IF x = e /\ n = m THEN pc ELSE handler[x][n]
        BY <3>1, HandlerAt
      <3> QED BY <3>2, <3>3, Zenon
    <2>2. NextAttempt(e) /\ sender[e].state = "wait"
      BY <1>7, Zenon DEF GiveUpWaiting
    <2> QED BY <1>2, <1>7, <2>1, <2>2, NextAttemptAt DEF GiveUpWaiting
  <1> QED BY <1>5, <1>6, <1>7, Zenon

\* What an applied callback writes.
Commit(e) ==
  /\ Claims(e)
  /\ task' = [task EXCEPT ![TaskOf(e)] = NewRow(event[e].status)]
  /\ grant' = IF event[e].status \in {"approved", "narrowed"}
              THEN [grant EXCEPT ![TaskOf(e)] = event[e].core] ELSE grant
  /\ applied' = [applied EXCEPT ![e] = @ + 1]
  /\ callback' = [callback EXCEPT ![e] = "COMPLETED"]
  /\ binding' = binding

\* A handler changes only itself, unless it commits; it answers ok about a completed
\* callback, and goes on to apply what was acceptable when it looked.
LEMMA HandlerEffect ==
  ASSUME ApprovalTypeOK, NEW e \in Event, NEW n \in Attempt, HandlerStep(e, n)
  PROVE  /\ handler[e][n] # "none"
         /\ UNCHANGED <<now, view, enabled, request, manifest, oa, query, restarts>>
         /\ \A x \in Event, m \in Attempt : handler'[x][m] = handler[x][m] \/ (x = e /\ m = n)
         /\ handler'[e][n] = "ok" => callback'[e] = "COMPLETED"
         /\ handler'[e][n] = "apply" => Acceptable(e) /\ UNCHANGED control
         /\ \/ Commit(e) /\ handler[e][n] = "apply"
            \/ UNCHANGED control
  <1>1. \A pc : HandlerTo(e, n, pc) =>
          /\ \A x \in Event, m \in Attempt : handler'[x][m] = handler[x][m] \/ (x = e /\ m = n)
          /\ handler'[e][n] \in {pc, "none"}
    <2> SUFFICES ASSUME NEW pc, HandlerTo(e, n, pc)
                 PROVE  /\ \A x \in Event, m \in Attempt :
                             handler'[x][m] = handler[x][m] \/ (x = e /\ m = n)
                        /\ handler'[e][n] \in {pc, "none"}
      BY Zenon
    <2>1. SetHandler(e, n, pc) \/ SetHandler(e, n, "none")
      BY Zenon DEF HandlerTo, SetHandler
    <2> QED BY <2>1, HandlerAt
  <1>2. callback \in [Event -> {"NONE", "COMPLETED"}]
    BY Zenon DEF ApprovalTypeOK
  <1>3. CASE Lookup(e, n)
    BY <1>1, <1>3 DEF Lookup, control
  <1>4. CASE Validate(e, n)
    BY <1>1, <1>4 DEF Validate, control
  <1>5. CASE Apply(e, n)
    BY <1>1, <1>2, <1>5 DEF Apply, Commit
  <1>6. CASE ApplyNothing(e, n)
    BY <1>1, <1>6 DEF ApplyNothing, ApplyAnswer, control
  <1>7. CASE Cancelled(e, n)
    BY <1>1, <1>7 DEF Cancelled, InProgress, control
  <1> QED BY <1>3, <1>4, <1>5, <1>6, <1>7, Zenon DEF HandlerStep

\* A step either is one of OA's or of a handler, or leaves the deliveries alone, but for
\* the end of calls in a restart.
LEMMA DeliveriesStep ==
  ASSUME IInv, Next
  PROVE  Deliveries'
  <1> SUFFICES ASSUME NEW x \in Event
               PROVE  DeliveryOK(x)'
    BY Zenon DEF Deliveries
  <1>0. ApprovalTypeOK /\ Deliveries /\ DeliveryOK(x)
    BY Zenon DEF IInv, Deliveries
  <1>1. ASSUME UNCHANGED <<applied, callback, event, sender, handler>>
        PROVE  DeliveryOK(x)'
    BY <1>0, <1>1, Zenon DEF DeliveryOK
  <1>2. ASSUME NEW e \in Event, NEW status \in Bodies(e), NEW core, Dispatch(e, status, core),
               UNCHANGED <<control, handler>>
        PROVE  DeliveryOK(x)'
    <2>1. event'[x] = IF x = e THEN [status |-> status, at |-> now, core |-> core] ELSE event[x]
      BY <1>0, <1>2, Zenon DEF Dispatch, ApprovalTypeOK
    <2>2. sender'[x] = IF x = e THEN [state |-> "send", attempt |-> 1] ELSE sender[x]
      BY <1>0, <1>2, Zenon DEF Dispatch, ApprovalTypeOK
    <2>3. 1 \in Attempt
      BY ApprovalAssumption DEF Attempt
    <2> QED BY <1>0, <1>2, <2>1, <2>2, <2>3 DEF DeliveryOK, Bodies, control
  <1>3. ASSUME NEW t \in Task, SubmitDraft(t)
        PROVE  DeliveryOK(x)'
    <2>1. <<t, "submitted">> \in Event /\ "submitted" \in Bodies(<<t, "submitted">>)
      BY Zenon DEF Event, Bodies
    <2> QED BY <1>2, <1>3, <2>1, Zenon DEF SubmitDraft
  <1>4. ASSUME NEW t \in Task, NEW status \in {"approved", "narrowed", "rejected"},
               NEW core \in Choices(t, status), DecideDraft(t, status, core)
        PROVE  DeliveryOK(x)'
    <2>1. <<t, "decision">> \in Event /\ status \in Bodies(<<t, "decision">>)
      BY Zenon DEF Event, Bodies
    <2> QED BY <1>2, <1>4, <2>1, Zenon DEF DecideDraft
  <1>5. ASSUME NEW e \in Event, Send(e) \/ Answer(e) \/ GiveUpWaiting(e)
        PROVE  DeliveryOK(x)'
    BY <1>0, <1>5, SenderEffect DEF DeliveryOK, control, Deliveries
  <1>6. ASSUME NEW e \in Event, NEW n \in Attempt, HandlerStep(e, n)
        PROVE  DeliveryOK(x)'
    <2>1. CASE UNCHANGED control
      BY <1>0, <1>6, <2>1, HandlerEffect DEF DeliveryOK, control, oa, Deliveries
    <2>2. CASE Commit(e)
      <3>1. /\ callback'[x] = IF x = e THEN "COMPLETED" ELSE callback[x]
            /\ applied'[x] = IF x = e THEN applied[x] + 1 ELSE applied[x]
            /\ callback[e] # "COMPLETED"
        BY <1>0, <2>2, Zenon DEF Commit, Claims, ApprovalTypeOK
      <3> QED BY <1>0, <1>6, <2>2, <3>1, HandlerEffect DEF DeliveryOK, oa, Deliveries
    <2> QED BY <1>0, <1>6, <2>1, <2>2, HandlerEffect, Zenon
  <1>7. CASE Restart
    BY <1>0, <1>7, Zenon DEF Restart, DeliveryOK, oa
  <1>8. CASE OARestart
    <2>1. /\ sender'[x].state \notin {"send", "wait"}
          /\ sender'[x].state = "acked" => sender[x].state = "acked"
      BY <1>0, <1>8 DEF OARestart, ApprovalTypeOK, Sender
    <2> QED BY <1>0, <1>8, <2>1, Zenon DEF OARestart, DeliveryOK, control
  <1>9. CASE Tick \/ ViewChanges
    BY <1>1, <1>9, Zenon DEF Tick, ViewChanges, control, oa
  <1>10. ASSUME NEW t \in Task,
                \/ \E products \in SUBSET Product \ {{}} : RequestTask(t, products)
                \/ RequestFindsChange(t) \/ CreateTask(t)
                \/ CompleteTask(t) \/ RevokeTask(t) \/ DisablePrincipal(t)
                \/ StartQuery(t) \/ Reserve(t) \/ EndQuery(t)
         PROVE  DeliveryOK(x)'
    BY <1>1, <1>10, Zenon DEF RequestTask, RequestFindsChange, CreateTask, CompleteTask, RevokeTask,
                       DisablePrincipal, StartQuery, Reserve, EndQuery, control, oa
  <1> QED BY <1>3, <1>4, <1>5, <1>6, <1>7, <1>8, <1>9, <1>10, Zenon DEF Next, Step
-----------------------------------------------------------------------------
(* Drafts *)

\* Every task has its own two events.
LEMMA EventsDiffer ==
  ASSUME NEW t \in Task, NEW x \in Task
  PROVE  /\ Submitted(t) \in Event /\ Decision(t) \in Event
         /\ Submitted(t) # Decision(x)
         /\ Submitted(t) = Submitted(x) <=> t = x
         /\ Decision(t) = Decision(x) <=> t = x
  BY Zenon DEF Submitted, Decision, Event

\* Nothing starts to deliver or to apply an event that has not been sent.
LEMMA UnsentStays ==
  ASSUME IInv, NEW e \in Event, Unsent(e),
         \/ \E x \in Event : Send(x) \/ Answer(x) \/ GiveUpWaiting(x)
         \/ \E x \in Event, n \in Attempt : HandlerStep(x, n)
  PROVE  Unsent(e)'
  <1>0. ApprovalTypeOK /\ Deliveries
    BY Zenon DEF IInv
  <1>1. ASSUME NEW x \in Event, Send(x) \/ Answer(x) \/ GiveUpWaiting(x)
        PROVE  Unsent(e)'
    <2>1. x # e
      BY <1>0, <1>1, SenderEffect, Zenon DEF Unsent
    <2> QED BY <1>0, <1>1, <2>1, SenderEffect DEF Unsent, control
  <1>2. ASSUME NEW x \in Event, NEW n \in Attempt, HandlerStep(x, n)
        PROVE  Unsent(e)'
    <2>0. handler[x][n] # "none" /\ (Commit(x) \/ UNCHANGED control)
      BY <1>0, <1>2, HandlerEffect, Zenon
    <2>1. x # e
      BY <2>0, Zenon DEF Unsent
    <2>2. callback'[e] = callback[e]
      <3>1. callback' = callback \/ callback' = [callback EXCEPT ![x] = "COMPLETED"]
        BY <2>0, Zenon DEF Commit, control
      <3> QED BY <1>0, <2>1, <3>1, Zenon DEF ApprovalTypeOK
    <2> QED BY <1>0, <1>2, <2>1, <2>2, HandlerEffect DEF Unsent, oa
  <1> QED BY <1>1, <1>2, Zenon

\* A draft that is decided has left the states in which nothing was sent.
LEMMA DraftsStep ==
  ASSUME IInv, Next
  PROVE  Drafts'
  <1> SUFFICES ASSUME NEW x \in Task
               PROVE  DraftOK(x)'
    BY Zenon DEF Drafts
  <1>0. ApprovalTypeOK /\ Deliveries /\ Drafts /\ DraftOK(x) /\ Submitted(x) \in Event /\ Decision(x) \in Event
    BY EventsDiffer, Zenon DEF IInv, Drafts
  <1>1. ASSUME UNCHANGED <<callback, draft, sender, handler>>,
               request'[x] = "idle" => request[x] = "idle"
        PROVE  DraftOK(x)'
    BY <1>0, <1>1, Zenon DEF DraftOK, Unsent
  <1>2. ASSUME NEW t \in Task, NEW products \in SUBSET Product \ {{}}, RequestTask(t, products)
        PROVE  DraftOK(x)'
    <2>1. /\ draft'[x] = IF x = t THEN "draft" ELSE draft[x]
          /\ x # t => request'[x] = request[x]
          /\ request'[t] # "idle"
      BY <1>0, <1>2 DEF RequestTask, ApprovalTypeOK
    <2>2. UNCHANGED <<callback, sender, handler>>
      BY <1>2, Zenon DEF RequestTask, control
    <2>3. x = t => draft[x] = "none"
      BY <1>0, <1>2 DEF DraftOK, RequestTask
    <2> QED BY <1>0, <2>1, <2>2, <2>3, Zenon DEF DraftOK, Unsent
  <1>3. ASSUME NEW t \in Task, SubmitDraft(t)
        PROVE  DraftOK(x)'
    <2>1. draft'[x] = IF x = t THEN "pending" ELSE draft[x]
      BY <1>0, <1>3, Zenon DEF SubmitDraft, ApprovalTypeOK
    <2>2. \A e \in Event \ {Submitted(t)} : sender'[e] = sender[e]
      BY <1>0, <1>3, Zenon DEF SubmitDraft, Dispatch, Submitted, ApprovalTypeOK
    <2>3. UNCHANGED <<request, callback, handler>> /\ draft[t] = "draft"
      BY <1>3, Zenon DEF SubmitDraft, control
    <2> QED BY <1>0, <2>1, <2>2, <2>3, EventsDiffer, Zenon DEF DraftOK, Unsent
  <1>4. ASSUME NEW t \in Task, NEW status \in {"approved", "narrowed", "rejected"},
               NEW core \in Choices(t, status), DecideDraft(t, status, core)
        PROVE  DraftOK(x)'
    <2>1. draft'[x] = IF x = t THEN status ELSE draft[x]
      BY <1>0, <1>4, Zenon DEF DecideDraft, ApprovalTypeOK
    <2>2. \A e \in Event \ {Decision(t)} : sender'[e] = sender[e]
      BY <1>0, <1>4, Zenon DEF DecideDraft, Dispatch, Decision, ApprovalTypeOK
    <2>3. UNCHANGED <<request, callback, handler>> /\ draft[t] = "pending"
      BY <1>4, Zenon DEF DecideDraft, control
    <2> QED BY <1>0, <2>1, <2>2, <2>3, EventsDiffer, Zenon DEF DraftOK, Unsent
  <1>5. ASSUME NEW e \in Event, Send(e) \/ Answer(e) \/ GiveUpWaiting(e)
        PROVE  DraftOK(x)'
    <2>1. UNCHANGED <<request, draft>>
      BY <1>0, <1>5, SenderEffect, Zenon
    <2>2. /\ Unsent(Submitted(x)) => Unsent(Submitted(x))'
          /\ Unsent(Decision(x)) => Unsent(Decision(x))'
      BY <1>0, <1>5, UnsentStays, Zenon
    <2> QED BY <1>0, <2>1, <2>2, Zenon DEF DraftOK
  <1>6. ASSUME NEW e \in Event, NEW n \in Attempt, HandlerStep(e, n)
        PROVE  DraftOK(x)'
    <2>1. UNCHANGED <<request, draft>>
      BY <1>0, <1>6, HandlerEffect, Zenon DEF oa
    <2>2. /\ Unsent(Submitted(x)) => Unsent(Submitted(x))'
          /\ Unsent(Decision(x)) => Unsent(Decision(x))'
      BY <1>0, <1>6, UnsentStays, Zenon
    <2> QED BY <1>0, <2>1, <2>2, Zenon DEF DraftOK
  <1>7. CASE Restart
    <2>1. /\ request'[x] = "idle" => request[x] = "idle"
          /\ UNCHANGED <<callback, draft, sender>>
          /\ \A e \in Event, n \in Attempt : handler'[e][n] = "none"
      BY <1>7, Zenon DEF Restart, oa
    <2> QED BY <1>0, <2>1, Zenon DEF DraftOK, Unsent
  <1>8. CASE OARestart
    <2>1. /\ draft'[x] = IF draft[x] = "none" THEN "none" ELSE "lost"
          /\ UNCHANGED <<request, callback, handler>>
          /\ \A e \in Event : sender[e].state = "idle" => sender'[e] = sender[e]
      BY <1>8, Zenon DEF OARestart, control
    <2> QED BY <1>0, <2>1, Zenon DEF DraftOK, Unsent
  <1>9. CASE Tick \/ ViewChanges
    BY <1>1, <1>9, Zenon DEF Tick, ViewChanges, control, oa
  <1>10. ASSUME NEW t \in Task,
                \/ RequestFindsChange(t) \/ CreateTask(t)
                \/ CompleteTask(t) \/ RevokeTask(t) \/ DisablePrincipal(t)
                \/ StartQuery(t) \/ Reserve(t) \/ EndQuery(t)
         PROVE  DraftOK(x)'
    <2>1. request' = request \/ \E pc \in {"done", "failed"} : request' = [request EXCEPT ![t] = pc]
      BY <1>10, Zenon DEF RequestFindsChange, CreateTask, CompleteTask, RevokeTask, DisablePrincipal,
                   StartQuery, Reserve, EndQuery
    <2>2. request'[x] = "idle" => request[x] = "idle"
      BY <1>0, <2>1, Zenon DEF ApprovalTypeOK
    <2> QED BY <1>1, <1>10, <2>2, Zenon
          DEF RequestFindsChange, CreateTask, CompleteTask, RevokeTask, DisablePrincipal,
              StartQuery, Reserve, EndQuery, control, oa
  <1> QED BY <1>2, <1>3, <1>4, <1>5, <1>6, <1>7, <1>8, <1>9, <1>10, Zenon DEF Next, Step
-----------------------------------------------------------------------------
(* Task rows *)

\* A callback that is applied meets the task in the state it expects, and moves it on.
LEMMA CommitRow ==
  ASSUME IInv, NEW e \in Event, NEW n \in Attempt, handler[e][n] = "apply", Commit(e),
         NEW x \in Task, x = TaskOf(e)
  PROVE  /\ e \in {Submitted(x), Decision(x)}
         /\ callback[Decision(x)] # "COMPLETED" /\ grant[x] = None
         /\ request[x] \notin {"idle", "drafted"}
         /\ \/ /\ e = Submitted(x) /\ event[e].status = "submitted"
               /\ task[x].state = "AWAITING_SUBMISSION"
               /\ task'[x] = Row("AWAITING_APPROVAL", "none") /\ grant' = grant
            \/ /\ e = Decision(x) /\ event[e].status = "rejected"
               /\ task[x].state = "AWAITING_APPROVAL"
               /\ task'[x] = Row("ARCHIVED", "rejected") /\ grant' = grant
            \/ /\ e = Decision(x) /\ event[e].status \in {"approved", "narrowed"}
               /\ task[x].state = "AWAITING_APPROVAL"
               /\ task'[x] = Row("ACTIVE", "none") /\ grant' = [grant EXCEPT ![x] = event[e].core]
  <1>1. e \in {Submitted(x), Decision(x)} /\ (e = Submitted(x) <=> e[2] = "submitted")
    BY DEF Event, TaskOf, Submitted, Decision
  <1>2. event[e].status \in Bodies(e)
    BY Zenon DEF IInv, Deliveries, DeliveryOK
  <1>3. task[x].state = ExpectedState(event[e].status)
    BY Zenon DEF Commit, Claims
  <1>4. task'[x] = NewRow(event[e].status)
    BY Zenon DEF Commit, IInv, ApprovalTypeOK
  <1>5. RowOK(x)
    BY Zenon DEF IInv, Rows
  <1>6. Waiting(x) /\ task[x].state # "NONE"
    BY <1>3, Zenon DEF ExpectedState, Waiting
  <1>7. callback[Decision(x)] # "COMPLETED" /\ grant[x] = None /\ request[x] \notin {"idle", "drafted"}
    BY <1>5, <1>6, Zenon DEF RowOK
  <1>8. CASE e = Submitted(x)
    BY <1>1, <1>2, <1>3, <1>4, <1>7, <1>8, Zenon DEF Bodies, ExpectedState, NewRow, Commit
  <1>9. CASE e = Decision(x) /\ e # Submitted(x)
    BY <1>1, <1>2, <1>3, <1>4, <1>7, <1>9, Zenon DEF Bodies, ExpectedState, NewRow, Commit
  <1> QED BY <1>1, <1>8, <1>9, Zenon

\* Every transaction keeps row, callbacks and grant in agreement.
LEMMA RowsStep ==
  ASSUME IInv, Next
  PROVE  Rows'
  <1> SUFFICES ASSUME NEW x \in Task
               PROVE  RowOK(x)'
    BY Zenon DEF Rows
  <1>0. /\ ApprovalTypeOK /\ Deliveries /\ RowOK(x) /\ Submitted(x) \in Event /\ Decision(x) \in Event
        /\ DraftOK(x)
    BY EventsDiffer, Zenon DEF IInv, Rows, Drafts
  <1>1. ASSUME UNCHANGED <<task, callback, grant, event>>,
               request'[x] \in {"idle", "drafted"} => request[x] \in {"idle", "drafted"},
               query'[x] = query[x] \/ query'[x] = "idle"
        PROVE  RowOK(x)'
    BY <1>0, <1>1, Zenon DEF RowOK, Waiting
  <1>2. ASSUME NEW t \in Task, \/ \E products \in SUBSET Product \ {{}} : RequestTask(t, products)
                               \/ RequestFindsChange(t) \/ DisablePrincipal(t)
        PROVE  RowOK(x)'
    <2>0. \/ request' = request
          \/ request[t] = "idle" /\ \E pc : request' = [request EXCEPT ![t] = pc]
      BY <1>2, Zenon DEF RequestTask, RequestFindsChange, DisablePrincipal
    <2>1. request'[x] \in {"idle", "drafted"} => request[x] \in {"idle", "drafted"}
      BY <1>0, <2>0, Zenon DEF ApprovalTypeOK
    <2> QED BY <1>1, <1>2, <2>1, Zenon DEF RequestTask, RequestFindsChange, DisablePrincipal, control, oa
  <1>3. ASSUME NEW t \in Task, CreateTask(t)
        PROVE  RowOK(x)'
    <2>1. UNCHANGED <<callback, grant, event, query>>
      BY <1>3, Zenon DEF CreateTask, oa
    <2>2. /\ x # t => request'[x] = request[x] /\ task'[x] = task[x]
          /\ x = t => /\ request[x] = "drafted" /\ request'[x] \in {"done", "failed"}
                      /\ task'[x] = Row("AWAITING_SUBMISSION", "none") \/ task'[x] = task[x]
      <3>1. \E pc \in {"done", "failed"} : request' = [request EXCEPT ![t] = pc]
        BY <1>3, Zenon DEF CreateTask
      <3>2. task' = [task EXCEPT ![t] = Row("AWAITING_SUBMISSION", "none")] \/ task' = task
        BY <1>3, Zenon DEF CreateTask
      <3> QED BY <1>0, <1>3, <3>1, <3>2, Zenon DEF CreateTask, ApprovalTypeOK
    <2>3. CASE x = t /\ task'[x] = Row("AWAITING_SUBMISSION", "none")
      <3>1. /\ task'[x].state = "AWAITING_SUBMISSION" /\ task'[x].reason = "none"
            /\ request'[x] \notin {"idle", "drafted"} /\ Waiting(x)
        BY <1>0, <2>2, <2>3, RowFields DEF RowOK, Waiting
      <3> QED BY <1>0, <2>1, <3>1, Zenon DEF RowOK, Waiting
    <2>4. CASE task'[x] = task[x]
      BY <1>0, <2>1, <2>2, <2>4, Zenon DEF RowOK, Waiting
    <2> QED BY <2>2, <2>3, <2>4, Zenon
  <1>4. ASSUME NEW t \in Task, NEW e \in {Submitted(t), Decision(t)}, NEW status, NEW core,
               Dispatch(e, status, core), UNCHANGED <<request, control, query>>,
               e = Decision(t) => draft[t] = "pending"
        PROVE  RowOK(x)'
    <2>1. Decision(x) # e => event'[Decision(x)] = event[Decision(x)]
      BY <1>0, <1>4, Zenon DEF Dispatch, ApprovalTypeOK
    <2>2. Decision(x) = e => callback[Decision(x)] # "COMPLETED"
      BY <1>0, <1>4, EventsDiffer DEF DraftOK, Unsent
    <2> QED BY <1>0, <1>4, <2>1, <2>2, Zenon DEF RowOK, Waiting, control
  <1>5. ASSUME NEW t \in Task, SubmitDraft(t)
        PROVE  RowOK(x)'
    BY <1>4, <1>5, EventsDiffer, Zenon DEF SubmitDraft, Submitted, Decision
  <1>6. ASSUME NEW t \in Task, NEW status \in {"approved", "narrowed", "rejected"},
               NEW core \in Choices(t, status), DecideDraft(t, status, core)
        PROVE  RowOK(x)'
    BY <1>4, <1>6, Zenon DEF DecideDraft, Submitted, Decision
  <1>7. ASSUME NEW e \in Event, Send(e) \/ Answer(e) \/ GiveUpWaiting(e)
        PROVE  RowOK(x)'
    BY <1>0, <1>1, <1>7, SenderEffect, Zenon DEF control
  <1>8. ASSUME NEW e \in Event, NEW n \in Attempt, HandlerStep(e, n)
        PROVE  RowOK(x)'
    <2>1. UNCHANGED <<request, event, query>>
      BY <1>0, <1>8, HandlerEffect, Zenon DEF oa
    <2>2. CASE UNCHANGED control
      BY <1>1, <2>1, <2>2, Zenon DEF control
    <2>3. CASE Commit(e) /\ handler[e][n] = "apply"
      <3>1. TaskOf(e) \in Task /\ e \in {Submitted(TaskOf(e)), Decision(TaskOf(e))}
        BY DEF Event, TaskOf, Submitted, Decision
      <3>2. \A y \in Event : callback'[y] = IF y = e THEN "COMPLETED" ELSE callback[y]
        BY <1>0, <2>3, Zenon DEF Commit, ApprovalTypeOK
      <3>3. CASE x # TaskOf(e)
        <4>1. task'[x] = task[x] /\ grant'[x] = grant[x]
          BY <1>0, <2>3, <3>3, Zenon DEF Commit, ApprovalTypeOK
        <4>2. callback'[Submitted(x)] = callback[Submitted(x)] /\ callback'[Decision(x)] = callback[Decision(x)]
          BY <1>0, <3>1, <3>2, <3>3, EventsDiffer, Zenon
        <4> QED BY <1>0, <2>1, <4>1, <4>2, Zenon DEF RowOK, Waiting
      <3>4. CASE x = TaskOf(e)
        <4>1. /\ callback'[Submitted(x)] = IF e = Submitted(x) THEN "COMPLETED" ELSE callback[Submitted(x)]
              /\ callback'[Decision(x)] = IF e = Decision(x) THEN "COMPLETED" ELSE callback[Decision(x)]
          BY <1>0, <3>2, Zenon
        <4>2. CASE e = Submitted(x)
          <5>1. /\ task'[x] = Row("AWAITING_APPROVAL", "none") /\ grant' = grant /\ grant[x] = None
                /\ request[x] \notin {"idle", "drafted"} /\ Waiting(x) /\ Decision(x) # e
            BY <2>3, <3>4, <4>2, CommitRow, EventsDiffer, Zenon DEF Waiting
          <5>2. task'[x].state = "AWAITING_APPROVAL" /\ task'[x].reason = "none"
            BY <5>1, RowFields
          <5>3. callback'[Submitted(x)] = "COMPLETED" /\ callback'[Decision(x)] = callback[Decision(x)]
            BY <4>1, <4>2, <5>1, Zenon
          <5> QED BY <1>0, <2>1, <5>1, <5>2, <5>3, Zenon DEF RowOK, Waiting
        <4>3. CASE e = Decision(x)
          <5>1. grant'[x] \in {None, event[e].core} /\ task'[x] \in {Row("ARCHIVED", "rejected"), Row("ACTIVE", "none")}
            BY <1>0, <2>3, <3>4, <4>3, CommitRow, EventsDiffer DEF ApprovalTypeOK
          <5>2. request[x] \notin {"idle", "drafted"} /\ task[x].state = "AWAITING_APPROVAL"
            BY <2>3, <3>4, <4>3, CommitRow, EventsDiffer, Zenon
          <5>3. callback[Submitted(x)] = "COMPLETED" /\ callback'[Submitted(x)] = "COMPLETED"
            BY <1>0, <4>1, <5>2, Zenon DEF RowOK
          <5>4. /\ task'[x].state \in {"ACTIVE", "ARCHIVED"}
                /\ task'[x].reason = "none" <=> task'[x].state # "ARCHIVED"
            <6>1. CASE task'[x] = Row("ARCHIVED", "rejected")
              BY <6>1, RowFields
            <6>2. CASE task'[x] = Row("ACTIVE", "none")
              BY <6>2, RowFields
            <6> QED BY <5>1, <6>1, <6>2, Zenon
          <5>5. callback'[Decision(x)] = "COMPLETED"
            BY <4>1, <4>3, Zenon
          <5> QED BY <2>1, <4>3, <5>1, <5>2, <5>3, <5>4, <5>5, Zenon DEF RowOK, Waiting
        <4> QED BY <3>1, <3>4, <4>2, <4>3, Zenon
      <3> QED BY <3>3, <3>4, Zenon
    <2> QED BY <1>0, <1>8, <2>2, <2>3, HandlerEffect, Zenon
  <1>9. ASSUME NEW t \in Task, NEW reason \in {"completed", "revoked", "expired", "budget_exhausted"},
               task' = [task EXCEPT ![t] = Row("ARCHIVED", reason)], task[t].state # "NONE",
               UNCHANGED <<request, callback, grant, event>>,
               query'[x] = query[x] \/ query'[x] = "idle"
        PROVE  RowOK(x)'
    <2>1. task'[x] = IF x = t THEN Row("ARCHIVED", reason) ELSE task[x]
      BY <1>0, <1>9, Zenon DEF ApprovalTypeOK
    <2> QED BY <1>0, <1>9, <2>1 DEF RowOK, Waiting, Row
  <1>10. ASSUME NEW t \in Task, CompleteTask(t) \/ RevokeTask(t)
         PROVE  RowOK(x)'
    BY <1>9, <1>10, Zenon DEF CompleteTask, RevokeTask, oa
  <1>11. ASSUME NEW t \in Task, StartQuery(t)
         PROVE  RowOK(x)'
    <2>1. task[t].state = "ACTIVE" /\ UNCHANGED <<request, task, callback, grant, event>>
      BY <1>11, Zenon DEF StartQuery, oa
    <2>2. x # t => query'[x] = query[x]
      BY <1>0, <1>11, Zenon DEF StartQuery, ApprovalTypeOK
    <2> QED BY <1>0, <2>1, <2>2, Zenon DEF RowOK, Waiting
  <1>12. ASSUME NEW t \in Task, Reserve(t)
         PROVE  RowOK(x)'
    <2>1. UNCHANGED <<request, callback, grant, event>>
      BY <1>12, Zenon DEF Reserve, oa
    <2>2. CASE task[t].state = "ACTIVE" /\ query' = [query EXCEPT ![t] = "reserved"] /\ UNCHANGED task
      <3>1. x # t => query'[x] = query[x]
        BY <1>0, <2>2, Zenon DEF ApprovalTypeOK
      <3> QED BY <1>0, <2>1, <2>2, <3>1, Zenon DEF RowOK, Waiting
    <2>3. CASE query' = [query EXCEPT ![t] = "idle"]
      <3>1. query'[x] = query[x] \/ query'[x] = "idle"
        BY <1>0, <2>3, Zenon DEF ApprovalTypeOK
      <3>2. \/ UNCHANGED task
            \/ task[t].state = "ACTIVE" /\ task' = [task EXCEPT ![t] = Row("ARCHIVED", "expired")]
        BY <1>12, Zenon DEF Reserve
      <3> QED BY <1>1, <1>9, <2>1, <3>1, <3>2, Zenon
    <2> QED BY <1>12, <2>2, <2>3, Zenon DEF Reserve
  <1>13. ASSUME NEW t \in Task, EndQuery(t)
         PROVE  RowOK(x)'
    <2>1. UNCHANGED <<request, callback, grant, event>>
      BY <1>13, Zenon DEF EndQuery, oa
    <2>2. query'[x] = query[x] \/ query'[x] = "idle"
      BY <1>0, <1>13, Zenon DEF EndQuery, ApprovalTypeOK
    <2>3. \/ UNCHANGED task
          \/ task[t].state = "ACTIVE" /\ task' = [task EXCEPT ![t] = Row("ARCHIVED", "budget_exhausted")]
      BY <1>13, Zenon DEF EndQuery
    <2> QED BY <1>1, <1>9, <2>1, <2>2, <2>3, Zenon
  <1>14. CASE Restart
    <2>1. /\ UNCHANGED <<callback, grant, event>>
          /\ query'[x] = "idle"
          /\ request'[x] \in {"idle", "drafted"} => request[x] \in {"idle", "drafted"}
          /\ \/ task'[x] = task[x]
             \/ task[x].state # "NONE" /\ task'[x] = Row("ARCHIVED", "expired")
      BY <1>14, Zenon DEF Restart, oa
    <2>2. CASE task'[x] = task[x]
      BY <1>0, <2>1, <2>2, Zenon DEF RowOK, Waiting
    <2>3. CASE task[x].state # "NONE" /\ task'[x] = Row("ARCHIVED", "expired")
      <3>1. task'[x].state = "ARCHIVED" /\ task'[x].reason # "none"
        BY <2>3, RowFields
      <3> QED BY <1>0, <2>1, <2>3, <3>1, Zenon DEF RowOK, Waiting
    <2> QED BY <2>1, <2>2, <2>3, Zenon
  <1>15. CASE Tick \/ ViewChanges \/ OARestart
    BY <1>1, <1>15, Zenon DEF Tick, ViewChanges, OARestart, control, oa
  <1> QED BY <1>2, <1>3, <1>5, <1>6, <1>7, <1>8, <1>10, <1>11, <1>12, <1>13, <1>14, <1>15, Zenon DEF Next, Step
-----------------------------------------------------------------------------
(* Grants *)

\* Only an applied approval writes a grant, where there was none.
LEMMA GrantWritten ==
  ASSUME IInv, Next
  PROVE  \/ grant' = grant
         \/ \E t \in Task, n \in Attempt :
              /\ grant' = [grant EXCEPT ![t] = event[Decision(t)].core] /\ event' = event
              /\ grant[t] = None
              /\ handler[Decision(t)][n] = "apply"
              /\ event[Decision(t)].status \in {"approved", "narrowed"}
              /\ \A x \in Event, m \in Attempt : handler'[x][m] = "apply" => handler[x][m] = "apply"
  <1>0. ApprovalTypeOK /\ Deliveries
    BY Zenon DEF IInv
  <1>1. ASSUME NEW e \in Event, NEW n \in Attempt, HandlerStep(e, n), ~UNCHANGED control
        PROVE  \/ grant' = grant
               \/ \E t \in Task, m \in Attempt :
                    /\ grant' = [grant EXCEPT ![t] = event[Decision(t)].core] /\ event' = event
                    /\ grant[t] = None
                    /\ handler[Decision(t)][m] = "apply"
                    /\ event[Decision(t)].status \in {"approved", "narrowed"}
                    /\ \A x \in Event, k \in Attempt : handler'[x][k] = "apply" => handler[x][k] = "apply"
    <2>1. Commit(e) /\ handler[e][n] = "apply" /\ TaskOf(e) \in Task
      BY <1>0, <1>1, HandlerEffect, Zenon DEF Event, TaskOf
    <2>2. \A x \in Event, k \in Attempt : handler'[x][k] = "apply" => handler[x][k] = "apply"
      BY <1>0, <1>1, <2>1, HandlerEffect
    <2>3. event' = event
      BY <1>0, <1>1, HandlerEffect, Zenon DEF oa
    <2> QED BY <2>1, <2>2, <2>3, CommitRow
  <1>2. ASSUME NEW e \in Event, Send(e) \/ Answer(e) \/ GiveUpWaiting(e)
        PROVE  grant' = grant
    BY <1>0, <1>2, SenderEffect, Zenon DEF control
  <1>3. ASSUME NEW t \in Task, NEW status \in {"approved", "narrowed", "rejected"},
               NEW core \in Choices(t, status), DecideDraft(t, status, core)
        PROVE  grant' = grant
    BY <1>3, Zenon DEF DecideDraft, control
  <1>4. ASSUME NEW t \in Task,
               \/ \E products \in SUBSET Product \ {{}} : RequestTask(t, products)
               \/ RequestFindsChange(t) \/ CreateTask(t) \/ SubmitDraft(t)
               \/ CompleteTask(t) \/ RevokeTask(t) \/ DisablePrincipal(t)
               \/ StartQuery(t) \/ Reserve(t) \/ EndQuery(t)
        PROVE  grant' = grant
    BY <1>4, Zenon DEF RequestTask, RequestFindsChange, CreateTask, SubmitDraft, CompleteTask, RevokeTask,
                DisablePrincipal, StartQuery, Reserve, EndQuery, control
  <1>5. CASE Tick \/ ViewChanges \/ Restart \/ OARestart
    BY <1>5, Zenon DEF Tick, ViewChanges, Restart, OARestart, control
  <1>6. UNCHANGED control => grant' = grant
    BY Zenon DEF control
  <1> QED BY <1>1, <1>2, <1>3, <1>4, <1>5, <1>6, Zenon DEF Next, Step

\* A handler that has come to apply an approval compared it with the parent's grant; and
\* the body of an event does not change while a handler has it.
LEMMA ApplyFits ==
  ASSUME IInv, Next, grant' = grant, NEW t \in Task, NEW n \in Attempt,
         handler'[Decision(t)][n] = "apply", event'[Decision(t)].status \in {"approved", "narrowed"}
  PROVE  Fitting(event'[Decision(t)].core, t)
  <1> DEFINE d == Decision(t)
  <1>0. ApprovalTypeOK /\ Deliveries /\ DraftOK(t) /\ GrantOK(t) /\ d \in Event /\ TaskOf(d) = t
    BY EventsDiffer, Zenon DEF IInv, Drafts, Grants, TaskOf, Decision
  <1>1. ASSUME event'[d] = event[d], handler[d][n] = "apply"
        PROVE  Fitting(event'[d].core, t)
    BY <1>0, <1>1, Zenon DEF GrantOK
  <1>2. ASSUME NEW s \in Task, SubmitDraft(s)
        PROVE  Fitting(event'[d].core, t)
    <2>1. d # Submitted(s) /\ handler' = handler
      BY <1>2, EventsDiffer, Zenon DEF SubmitDraft
    <2>2. event' = [event EXCEPT ![Submitted(s)] = [status |-> "submitted", at |-> now, core |-> None]]
      BY <1>2, Zenon DEF SubmitDraft, Dispatch, Submitted
    <2>3. event'[d] = event[d]
      BY <1>0, <2>1, <2>2, Zenon DEF ApprovalTypeOK
    <2> QED BY <1>1, <2>1, <2>3, Zenon
  <1>3. ASSUME NEW s \in Task, NEW status \in {"approved", "narrowed", "rejected"},
               NEW core \in Choices(s, status), DecideDraft(s, status, core)
        PROVE  Fitting(event'[d].core, t)
    <2>1. handler' = handler
      BY <1>3, Zenon DEF DecideDraft
    <2>2. s # t
      BY <1>0, <1>3, <2>1, Zenon DEF DecideDraft, DraftOK, Unsent
    <2>3. event'[d] = event[d]
      BY <1>0, <1>3, <2>2, EventsDiffer, Zenon DEF DecideDraft, Dispatch, Decision, ApprovalTypeOK
    <2> QED BY <1>1, <2>1, <2>3, Zenon
  <1>4. ASSUME NEW e \in Event, Send(e) \/ Answer(e) \/ GiveUpWaiting(e)
        PROVE  Fitting(event'[d].core, t)
    BY <1>0, <1>1, <1>4, SenderEffect, Zenon
  <1>5. ASSUME NEW e \in Event, NEW m \in Attempt, HandlerStep(e, m)
        PROVE  Fitting(event'[d].core, t)
    <2>1. event' = event
      BY <1>0, <1>5, HandlerEffect, Zenon DEF oa
    <2>2. CASE handler[d][n] = "apply"
      BY <1>1, <2>1, <2>2, Zenon
    <2>3. CASE handler[d][n] # "apply"
      <3>1. e = d /\ m = n
        BY <1>0, <1>5, <2>3, HandlerEffect
      <3>2. Acceptable(d)
        BY <1>0, <1>5, <3>1, HandlerEffect, Zenon
      <3>3. GrantAcceptable(t, d)
        BY <1>0, <2>1, <3>2, Zenon DEF Acceptable
      <3>4. /\ event[d].core.products # {}
            /\ Parent[t] # NoTask => Within(event[d].core, grant[Parent[t]])
        BY <3>3, Zenon DEF GrantAcceptable, CheckNarrowing, CheckDelegation
      <3>5. Parent[t] # NoTask => grant[Parent[t]].products # {}
        BY <3>4, Zenon DEF Within
      <3>6. Parent[t] # NoTask => grant[Parent[t]] # None
        BY <3>5 DEF None
      <3> QED BY <2>1, <3>4, <3>6, Zenon DEF Fitting
    <2> QED BY <2>2, <2>3, Zenon
  <1>6. CASE Restart
    BY <1>0, <1>6, Zenon DEF Restart
  <1>7. ASSUME NEW s \in Task,
               \/ \E products \in SUBSET Product \ {{}} : RequestTask(s, products)
               \/ RequestFindsChange(s) \/ CreateTask(s)
               \/ CompleteTask(s) \/ RevokeTask(s) \/ DisablePrincipal(s)
               \/ StartQuery(s) \/ Reserve(s) \/ EndQuery(s)
        PROVE  Fitting(event'[d].core, t)
    BY <1>1, <1>7, Zenon DEF RequestTask, RequestFindsChange, CreateTask, CompleteTask, RevokeTask,
                      DisablePrincipal, StartQuery, Reserve, EndQuery, oa
  <1>8. CASE Tick \/ ViewChanges \/ OARestart
    BY <1>1, <1>8, Zenon DEF Tick, ViewChanges, OARestart, oa
  <1> QED BY <1>2, <1>3, <1>4, <1>5, <1>6, <1>7, <1>8, Zenon DEF Next, Step

\* A grant is stored once, and what was compared with it stays within it.
LEMMA GrantsStep ==
  ASSUME IInv, Next
  PROVE  Grants'
  <1> SUFFICES ASSUME NEW x \in Task
               PROVE  GrantOK(x)'
    BY Zenon DEF Grants
  <1>0. ApprovalTypeOK /\ GrantOK(x) /\ Decision(x) \in Event /\ (Parent[x] # NoTask => Parent[x] \in Task)
    BY ApprovalAssumption, EventsDiffer, Zenon DEF IInv, Grants
  <1>1. CASE grant' = grant
    <2>1. \A n \in Attempt :
            handler'[Decision(x)][n] = "apply" /\ event'[Decision(x)].status \in {"approved", "narrowed"}
              => Fitting(event'[Decision(x)].core, x)
      BY <1>1, ApplyFits, Zenon
    <2> QED BY <1>0, <1>1, <2>1, Zenon DEF GrantOK, Fitting
  <1>2. ASSUME NEW t \in Task, NEW n \in Attempt,
               grant' = [grant EXCEPT ![t] = event[Decision(t)].core], event' = event, grant[t] = None,
               handler[Decision(t)][n] = "apply", event[Decision(t)].status \in {"approved", "narrowed"},
               \A y \in Event, m \in Attempt : handler'[y][m] = "apply" => handler[y][m] = "apply"
        PROVE  GrantOK(x)'
    <2>1. Fitting(event[Decision(t)].core, t)
      BY <1>2, Zenon DEF IInv, Grants, GrantOK
    <2>2. \A y \in Task : grant'[y] = IF y = t THEN event[Decision(t)].core ELSE grant[y]
      BY <1>0, <1>2 DEF ApprovalTypeOK
    <2>3. Parent[t] # t
      BY <1>2, <2>1, ApprovalAssumption, Zenon DEF Fitting
    <2>4. grant'[x] # None /\ Parent[x] # NoTask =>
            grant'[Parent[x]] # None /\ Within(grant'[x], grant'[Parent[x]])
      <3>1. CASE x = t
        BY <1>0, <2>1, <2>2, <2>3, <3>1, Zenon DEF Fitting
      <3>2. CASE x # t
        BY <1>0, <1>2, <2>2, <3>2, Zenon DEF GrantOK
      <3> QED BY <3>1, <3>2, Zenon
    <2>5. ASSUME NEW m \in Attempt, handler'[Decision(x)][m] = "apply",
                 event'[Decision(x)].status \in {"approved", "narrowed"}
          PROVE  Fitting(event[Decision(x)].core, x)'
      <3>1. Fitting(event[Decision(x)].core, x)
        BY <1>0, <1>2, <2>5, Zenon DEF GrantOK
      <3>2. Parent[x] # NoTask => grant'[Parent[x]] = grant[Parent[x]]
        BY <1>0, <1>2, <2>2, <3>1, Zenon DEF Fitting
      <3> QED BY <1>2, <3>1, <3>2, Zenon DEF Fitting, Within
    <2> QED BY <2>4, <2>5, Zenon DEF GrantOK, Within, Fitting
  <1> QED BY <1>1, <1>2, GrantWritten, Zenon
-----------------------------------------------------------------------------
(* The task state machine *)

\* A row that one transaction writes is a transition of that task.
LEMMA OneTransition ==
  ASSUME ApprovalTypeOK, NEW t \in Task, NEW e \in Machine!TaskEvent,
         task[t].state \in Machine!From(e), task' = [task EXCEPT ![t] = Machine!To(e)]
  PROVE  Machine!MachineNext
  <1>1. task' = [x \in Task |-> IF x \in {t} THEN Machine!To(e) ELSE task[x]]
    BY Zenon DEF ApprovalTypeOK
  <1>2. Machine!Transition({t}, e)
    BY <1>1, Zenon DEF Machine!Transition
  <1> QED BY <1>2, Zenon DEF Machine!MachineNext

\* Where the events of the Control transactions lead.
LEMMA MachineTable ==
  /\ {"submit", "approve", "reject", "complete", "budget_exhausted", "expire", "revoke"} \subseteq Machine!TaskEvent
  /\ Machine!From("submit") = {"AWAITING_SUBMISSION"}
  /\ Machine!From("approve") = {"AWAITING_APPROVAL"} /\ Machine!From("reject") = {"AWAITING_APPROVAL"}
  /\ Machine!From("complete") = {"ACTIVE"} /\ Machine!From("budget_exhausted") = {"ACTIVE"}
  /\ Machine!From("expire") = Machine!State \ {"NONE", "ARCHIVED"}
  /\ Machine!From("revoke") = Machine!State \ {"NONE", "ARCHIVED"}
  /\ Machine!To("submit") = Row("AWAITING_APPROVAL", "none")
  /\ Machine!To("approve") = Row("ACTIVE", "none")
  /\ Machine!To("reject") = Row("ARCHIVED", "rejected")
  /\ Machine!To("complete") = Row("ARCHIVED", "completed")
  /\ Machine!To("budget_exhausted") = Row("ARCHIVED", "budget_exhausted")
  /\ Machine!To("expire") = Row("ARCHIVED", "expired")
  /\ Machine!To("revoke") = Row("ARCHIVED", "revoked")
  BY Zenon DEF Machine!TaskEvent, Machine!From, Machine!To, Row

\* Every step moves the task rows as the state machine does, or not at all.
LEMMA MachineStep ==
  ASSUME IInv, Next
  PROVE  Machine!MachineNext \/ task' = task
  <1>0. /\ ApprovalTypeOK /\ Deliveries
        /\ \A t \in Task : task[t].state \in Machine!State
    BY Zenon DEF IInv, ApprovalTypeOK, TaskRow
  <1>1. ASSUME NEW t \in Task, CreateTask(t)
        PROVE  Machine!MachineNext \/ task' = task
    <2>1. CASE task' = [task EXCEPT ![t] = Row("AWAITING_SUBMISSION", "none")]
      <3>1. task[t].state = "NONE"
        BY <1>1, Zenon DEF IInv, Rows, RowOK, CreateTask
      <3>2. Machine!NewTask({t})
        BY <1>0, <2>1, Zenon DEF Machine!NewTask, Row, ApprovalTypeOK
      <3> QED BY <3>1, <3>2, Zenon DEF Machine!MachineNext
    <2> QED BY <1>1, <2>1, Zenon DEF CreateTask
  <1>2. ASSUME NEW e \in Event, NEW n \in Attempt, HandlerStep(e, n)
        PROVE  Machine!MachineNext \/ task' = task
    <2>1. CASE UNCHANGED control
      BY <2>1, Zenon DEF control
    <2>2. CASE Commit(e) /\ handler[e][n] = "apply"
      <3> DEFINE t == TaskOf(e)
      <3>1. t \in Task
        BY Zenon DEF TaskOf, Event
      <3>2. task' = [task EXCEPT ![t] = task'[t]]
        BY <1>0, <2>2, <3>1, Zenon DEF Commit, ApprovalTypeOK
      <3>3. \/ task[t].state = "AWAITING_SUBMISSION" /\ task'[t] = Row("AWAITING_APPROVAL", "none")
            \/ task[t].state = "AWAITING_APPROVAL" /\ task'[t] = Row("ARCHIVED", "rejected")
            \/ task[t].state = "AWAITING_APPROVAL" /\ task'[t] = Row("ACTIVE", "none")
        BY <2>2, <3>1, CommitRow, Zenon
      <3> HIDE DEF t
      <3> QED BY <1>0, <3>1, <3>2, <3>3, OneTransition, MachineTable
    <2> QED BY <1>0, <1>2, <2>1, <2>2, HandlerEffect, Zenon
  <1>3. ASSUME NEW t \in Task, CompleteTask(t)
        PROVE  Machine!MachineNext
    BY <1>0, <1>3, OneTransition, MachineTable, Zenon DEF CompleteTask
  <1>4. ASSUME NEW t \in Task, RevokeTask(t)
        PROVE  Machine!MachineNext
    BY <1>0, <1>4, OneTransition, MachineTable, Zenon DEF RevokeTask
  <1>5. ASSUME NEW t \in Task, Reserve(t)
        PROVE  Machine!MachineNext \/ task' = task
    <2>1. CASE task[t].state = "ACTIVE" /\ task' = [task EXCEPT ![t] = Row("ARCHIVED", "expired")]
      BY <1>0, <2>1, OneTransition, MachineTable, Zenon
    <2> QED BY <1>5, <2>1, Zenon DEF Reserve
  <1>6. ASSUME NEW t \in Task, EndQuery(t)
        PROVE  Machine!MachineNext \/ task' = task
    <2>1. CASE task[t].state = "ACTIVE" /\ task' = [task EXCEPT ![t] = Row("ARCHIVED", "budget_exhausted")]
      BY <1>0, <2>1, OneTransition, MachineTable, Zenon
    <2> QED BY <1>6, <2>1, Zenon DEF EndQuery
  <1>7. CASE Restart
    <2> DEFINE expired == {t \in Task : /\ task[t].state \notin {"NONE", "ARCHIVED"}
                                        /\ grant[t] # None
                                        /\ ~Unexpired(t)}
    <2>1. task' = [t \in Task |-> IF t \in expired THEN Machine!To("expire") ELSE task[t]]
      BY <1>7, MachineTable, Zenon DEF Restart
    <2>2. \A t \in expired : task[t].state \in Machine!From("expire")
      BY <1>0, MachineTable, Zenon
    <2>3. expired \in SUBSET Task
      BY Zenon
    <2> HIDE DEF expired
    <2>4. Machine!Transition(expired, "expire")
      BY <2>1, <2>2, Zenon DEF Machine!Transition
    <2> QED BY <2>3, <2>4, MachineTable, Zenon DEF Machine!MachineNext
  <1>8. ASSUME NEW e \in Event, Send(e) \/ Answer(e) \/ GiveUpWaiting(e)
        PROVE  task' = task
    BY <1>0, <1>8, SenderEffect, Zenon DEF control
  <1>9. ASSUME NEW t \in Task, NEW status \in {"approved", "narrowed", "rejected"},
               NEW core \in Choices(t, status), DecideDraft(t, status, core)
        PROVE  task' = task
    BY <1>9, Zenon DEF DecideDraft, control
  <1>10. ASSUME NEW t \in Task,
                \/ \E products \in SUBSET Product \ {{}} : RequestTask(t, products)
                \/ RequestFindsChange(t) \/ SubmitDraft(t) \/ DisablePrincipal(t) \/ StartQuery(t)
         PROVE  task' = task
    BY <1>10, Zenon DEF RequestTask, RequestFindsChange, SubmitDraft, DisablePrincipal, StartQuery, control
  <1>11. CASE Tick \/ ViewChanges \/ OARestart
    BY <1>11, Zenon DEF Tick, ViewChanges, OARestart, control
  <1> QED BY <1>1, <1>2, <1>3, <1>4, <1>5, <1>6, <1>7, <1>8, <1>9, <1>10, <1>11, Zenon DEF Next, Step

\* An archived task stays archived.
LEMMA ArchivedStays ==
  ASSUME IInv, Next, NEW t \in Task, task[t].state = "ARCHIVED"
  PROVE  task'[t].state = "ARCHIVED"
  <1>1. \A e : "ARCHIVED" \notin Machine!From(e)
    BY Zenon DEF Machine!From
  <1>2. ASSUME Machine!MachineNext
        PROVE  task'[t] = task[t]
    BY <1>1, <1>2, Zenon DEF Machine!MachineNext, Machine!NewTask, Machine!Transition
  <1> QED BY <1>2, MachineStep, Zenon

\* A task under a stopped ancestor asks for nothing: the walk over the ancestors refuses
\* it, and ancestors stay archived.
LEMMA StopsStep ==
  ASSUME IInv, Next, Rows'
  PROVE  Stops'
  <1>0. ApprovalTypeOK /\ Deliveries
    BY Zenon DEF IInv
  <1>1. \A t \in Task : Stopped(t) => Stopped(t)'
    BY ArchivedStays, Zenon DEF Stopped, Ancestor, HoldsParents
  <1>2. ASSUME NEW t \in Task, Stopped(t), query[t] = "idle"
        PROVE  query'[t] = "idle"
    <2>1. ASSUME NEW s \in Task, StartQuery(s)
          PROVE  query'[t] = "idle"
      <3>1. s # t
        BY <1>2, <2>1, Zenon DEF StartQuery, FamilyAdmits, FamilyActive, Stopped
      <3> QED BY <1>0, <1>2, <2>1, <3>1, Zenon DEF StartQuery, ApprovalTypeOK
    <2>2. ASSUME NEW s \in Task, Reserve(s)
          PROVE  query'[t] = "idle"
      <3>1. s # t
        BY <1>2, <2>2, Zenon DEF Reserve
      <3> QED BY <1>0, <1>2, <2>2, <3>1 DEF Reserve, ApprovalTypeOK
    <2>3. ASSUME NEW s \in Task, EndQuery(s)
          PROVE  query'[t] = "idle"
      BY <1>0, <1>2, <2>3, Zenon DEF EndQuery, ApprovalTypeOK
    <2>4. CASE Restart
      BY <2>4, Zenon DEF Restart
    <2>5. ASSUME NEW e \in Event, Send(e) \/ Answer(e) \/ GiveUpWaiting(e)
          PROVE  query' = query
      BY <1>0, <2>5, SenderEffect, Zenon
    <2>6. ASSUME NEW e \in Event, NEW n \in Attempt, HandlerStep(e, n)
          PROVE  query' = query
      BY <1>0, <2>6, HandlerEffect, Zenon
    <2>7. ASSUME NEW s \in Task, NEW status \in {"approved", "narrowed", "rejected"},
                 NEW core \in Choices(s, status), DecideDraft(s, status, core)
          PROVE  query' = query
      BY <2>7, Zenon DEF DecideDraft
    <2>8. ASSUME NEW s \in Task,
                 \/ \E products \in SUBSET Product \ {{}} : RequestTask(s, products)
                 \/ RequestFindsChange(s) \/ CreateTask(s) \/ SubmitDraft(s)
                 \/ CompleteTask(s) \/ RevokeTask(s) \/ DisablePrincipal(s)
          PROVE  query' = query
      BY <2>8, Zenon DEF RequestTask, RequestFindsChange, CreateTask, SubmitDraft, CompleteTask, RevokeTask,
                  DisablePrincipal
    <2>9. CASE Tick \/ ViewChanges \/ OARestart
      BY <1>2, <2>9, Zenon DEF Tick, ViewChanges, OARestart
    <2> QED BY <1>2, <2>1, <2>2, <2>3, <2>4, <2>5, <2>6, <2>7, <2>8, <2>9, Zenon DEF Next, Step
  <1>3. ASSUME NEW t \in late
        PROVE  Stopped(t)' /\ query'[t] = "idle"
    BY <1>0, <1>1, <1>2, <1>3, Zenon DEF IInv, Stops, ApprovalTypeOK
  <1>4. ASSUME NEW t \in Task, Waiting(t)', Stopped(t)'
        PROVE  query'[t] = "idle"
    BY <1>4, Zenon DEF Rows, RowOK
  <1>5. late' = late \cup {t \in Task : Waiting(t)' /\ Stopped(t)'}
    BY Zenon DEF Next
  <1> QED BY <1>3, <1>4, <1>5, Zenon DEF Stops
-----------------------------------------------------------------------------
(* The theorems *)

\* The model starts with nothing under way, and with the grants of the approved tasks,
\* whose parents are approved tasks.
LEMMA ApprovalInit ==
  ASSUME Init
  PROVE  IInv
  <1>0. None \in Core /\ ApprovedGrant \in Core /\ [ApprovedGrant EXCEPT !.expires = 0] \in Core
    BY ApprovalAssumption DEF None, ApprovedGrant, Core
  <1>1. ApprovalTypeOK
    <2>1. Row("ACTIVE", "none") \in TaskRow /\ Row("NONE", "none") \in TaskRow
      BY Zenon DEF Row, TaskRow, Machine!State, Machine!TerminalReason
    <2>2. /\ manifest \in [Task -> Core]
          /\ task \in [Task -> TaskRow]
          /\ grant \in [Task -> Core]
      BY <1>0, <2>1, Zenon DEF Init
    <2>3. sender \in [Event -> Sender]
      BY Zenon DEF Init, Sender
    <2>4. event \in [Event -> [status : {"none", "submitted", "approved", "narrowed", "rejected"},
                               at : Int, core : Core]]
      BY <1>0 DEF Init, Silent
    <2>5. /\ enabled \in [Task -> BOOLEAN]
          /\ request \in [Task -> {"idle", "drafted", "failed", "done"}]
          /\ binding \in [Task -> {"ACTIVE", "REQUIRE_REBIND"}]
          /\ applied \in [Event -> Nat]
          /\ callback \in [Event -> {"NONE", "COMPLETED"}]
          /\ draft \in [Task -> {"none", "draft", "pending", "approved", "narrowed", "rejected", "lost"}]
          /\ handler \in [Event -> [Attempt -> Answers]]
          /\ query \in [Task -> {"idle", "checked", "reserved"}]
          /\ now \in Int /\ view \in Int /\ restarts \in Nat /\ late \subseteq Task
      BY DEF Init, Answers
    <2> QED BY <2>2, <2>3, <2>4, <2>5, Zenon DEF ApprovalTypeOK
  <1>2. Deliveries
    <2> SUFFICES ASSUME NEW e \in Event
                 PROVE  DeliveryOK(e)
      BY Zenon DEF Deliveries
    <2> QED BY Zenon DEF Init, Silent, DeliveryOK
  <1>3. Drafts
    <2> SUFFICES ASSUME NEW t \in Task
                 PROVE  DraftOK(t)
      BY Zenon DEF Drafts
    <2>1. /\ Submitted(t) \in Event /\ Decision(t) \in Event
          /\ TaskOf(Submitted(t)) = t /\ TaskOf(Decision(t)) = t
      BY Zenon DEF Event, Submitted, Decision, TaskOf
    <2> QED BY <2>1, Zenon DEF Init, DraftOK, Unsent
  <1>4. Rows
    <2> SUFFICES ASSUME NEW t \in Task
                 PROVE  RowOK(t)
      BY Zenon DEF Rows
    <2>1. /\ Submitted(t) \in Event /\ Decision(t) \in Event
          /\ TaskOf(Submitted(t)) = t /\ TaskOf(Decision(t)) = t
      BY Zenon DEF Event, Submitted, Decision, TaskOf
    <2> QED BY <2>1, Zenon DEF Init, RowOK, Waiting, Row
  <1>5. Grants
    <2> SUFFICES ASSUME NEW t \in Task
                 PROVE  GrantOK(t)
      BY Zenon DEF Grants
    <2>1. ApprovedGrant # None
      BY ApprovalAssumption, Zenon DEF ApprovedGrant, None
    <2>2. Within(ApprovedGrant, ApprovedGrant)
      BY ApprovalAssumption DEF ApprovedGrant, Within
    <2>3. grant[t] # None /\ Parent[t] # NoTask =>
            grant[Parent[t]] # None /\ Within(grant[t], grant[Parent[t]])
      BY <2>1, <2>2, ApprovalAssumption, Zenon DEF Init
    <2>4. \A n \in Attempt : handler[Decision(t)][n] # "apply"
      BY EventsDiffer, Zenon DEF Init
    <2> QED BY <2>3, <2>4, Zenon DEF GrantOK
  <1>6. Stops
    BY Zenon DEF Init, Stops
  <1> QED BY <1>1, <1>2, <1>3, <1>4, <1>5, <1>6, Zenon DEF IInv

\* Every step keeps the invariant, and so does a step in which nothing changes.
LEMMA ApprovalStep ==
  ASSUME IInv, [Next]_vars
  PROVE  IInv'
  <1>1. CASE Next
    BY <1>1, TypeStep, DeliveriesStep, DraftsStep, RowsStep, GrantsStep, StopsStep, Zenon DEF IInv
  <1>2. CASE UNCHANGED vars
    <2>1. UNCHANGED <<now, view, enabled, request, manifest, task, binding, grant, applied, callback,
                      draft, event, sender, handler, query, restarts, late>>
      BY <1>2, Zenon DEF vars, control, oa
    <2>2. ApprovalTypeOK'
      BY <2>1, Zenon DEF IInv, ApprovalTypeOK
    <2>3. Deliveries'
      BY <2>1 DEF IInv, Deliveries, DeliveryOK
    <2>4. Drafts'
      BY <2>1, Zenon DEF IInv, Drafts, DraftOK, Unsent
    <2>5. Rows'
      BY <2>1, Zenon DEF IInv, Rows, RowOK, Waiting
    <2>6. Grants'
      BY <2>1, Zenon DEF IInv, Grants, GrantOK, Fitting
    <2>7. Stops'
      BY <2>1, Zenon DEF IInv, Stops, Stopped
    <2> QED BY <2>2, <2>3, <2>4, <2>5, <2>6, <2>7, Zenon DEF IInv
  <1> QED BY <1>1, <1>2, Zenon

\* The inductive invariant holds in every behaviour.
THEOREM ApprovalInvariant == Spec => []IInv
  BY ApprovalInit, ApprovalStep, PTL DEF Spec

\* handleOACallback answers ok only about a callback that took effect once, whatever the
\* number of attempts, of concurrent handlers and of restarts; a decision takes effect
\* after its submission, and the stored grant is the one the approver chose.
THEOREM AcknowledgedIsApplied == Spec => []AckMeansApplied
  <1>1. ASSUME IInv
        PROVE  AckMeansApplied
    <2>1. \A e \in Event : DeliveryOK(e)
      BY <1>1, Zenon DEF IInv, Deliveries
    <2>2. \A t \in Task : RowOK(t) /\ <<t, "decision">> \in Event /\ <<t, "submitted">> \in Event
      BY <1>1, Zenon DEF IInv, Rows, Event
    <2> QED BY <2>1, <2>2 DEF DeliveryOK, RowOK, Submitted, Decision, AckMeansApplied
  <1> QED BY <1>1, ApprovalInvariant, PTL

\* Being within another grant is a partial order on grants.
LEMMA WithinTransitive ==
  ASSUME NEW a \in Core, NEW b \in Core, NEW c \in Core, Within(a, b), Within(b, c)
  PROVE  Within(a, c)
  BY DEF Within, Core

\* No grant of a family reaches further than any grant above it, at whatever depth: each
\* was compared with its parent's when it was stored, and a stored grant is final.
THEOREM GrantsNarrow == Spec => []GrantWithinFamily
  <1>1. ASSUME IInv
        PROVE  GrantWithinFamily
    <2> SUFFICES ASSUME NEW t \in Task, NEW a \in Ancestor(t), grant[t] # None
                 PROVE  Within(grant[t], grant[a])
      BY Zenon DEF GrantWithinFamily
    <2> DEFINE above == {b \in Task : grant[b] # None /\ Within(grant[t], grant[b])}
    <2>0. \A b \in Task : GrantOK(b) /\ grant[b] \in Core /\ (Parent[b] # NoTask => Parent[b] \in Task)
      <3>1. grant \in [Task -> Core] /\ \A b \in Task : GrantOK(b)
        BY <1>1, Zenon DEF IInv, Grants, ApprovalTypeOK
      <3> QED BY <3>1, ApprovalAssumption, Zenon
    <2>1. ASSUME NEW b \in above \cup {t}, Parent[b] # NoTask
          PROVE  Parent[b] \in above
      <3>1. b \in Task /\ grant[b] # None
        BY Zenon
      <3>2. grant[Parent[b]] # None /\ Within(grant[b], grant[Parent[b]]) /\ Parent[b] \in Task
        BY <2>0, <2>1, <3>1, Zenon DEF GrantOK
      <3>3. b = t \/ Within(grant[t], grant[b])
        BY Zenon
      <3>4. Within(grant[t], grant[Parent[b]])
        BY <2>0, <3>1, <3>2, <3>3, WithinTransitive, Zenon
      <3> QED BY <3>2, <3>4, Zenon
    <2>2. HoldsParents(above, t)
      BY <2>1, Zenon DEF HoldsParents
    <2>3. above \in SUBSET Task
      BY Zenon
    <2>4. a \in above
      BY <2>2, <2>3, Zenon DEF Ancestor
    <2> QED BY <2>4, Zenon
  <1> QED BY <1>1, ApprovalInvariant, PTL

\* A child that was still waiting when an ancestor was archived never reserves budget for
\* a query, even when an approval validated earlier activates it afterwards.
THEOREM LateChildIsBarred == Spec => []LateChildNeverQueries
  <1>1. ASSUME IInv
        PROVE  LateChildNeverQueries
    BY <1>1, Zenon DEF IInv, Stops, LateChildNeverQueries
  <1> QED BY <1>1, ApprovalInvariant, PTL

\* The Control transactions implement the state machine of internal/domain/task.go: every
\* step changes the task rows by a transition of its table, or leaves them alone.
THEOREM ControlImplementsMachine == Spec => MachineSpec
  <1>1. ASSUME IInv
        PROVE  Machine!MachineInit
    BY <1>1, Zenon DEF IInv, ApprovalTypeOK, TaskRow, Rows, RowOK, Machine!MachineInit
  <1>2. ASSUME IInv, [Next]_vars
        PROVE  [Machine!MachineNext]_task
    BY <1>2, MachineStep, Zenon DEF vars, control
  <1> QED BY <1>1, <1>2, ApprovalInit, ApprovalInvariant, PTL DEF Spec, MachineSpec, Machine!MachineSpec
=============================================================================

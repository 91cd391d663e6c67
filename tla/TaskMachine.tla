----------------------------- MODULE TaskMachine -----------------------------
(***************************************************************************)
(* The task state machine of internal/domain/task.go: what the life cycle  *)
(* of a task promises.  A transition is one business event; the table      *)
(* transitionFor says where an event leads and with which terminal reason. *)
(* TaskApproval shows that the Control transactions only ever take these   *)
(* steps.                                                                  *)
(***************************************************************************)
CONSTANT Task

VARIABLE machine   \* task -> [state, reason]; state NONE before NewTask

State == {"NONE", "AWAITING_SUBMISSION", "AWAITING_APPROVAL", "ACTIVE", "ARCHIVED"}
TerminalReason ==
  {"none", "completed", "budget_exhausted", "rejected", "expired", "revoked", "failed"}
TaskEvent ==
  {"submit", "approve", "reject", "complete", "budget_exhausted", "expire", "revoke", "fail"}

\* The states an event may meet, and the state and reason it leads to.
From(event) ==
  CASE event = "submit"                              -> {"AWAITING_SUBMISSION"}
    [] event \in {"approve", "reject"}               -> {"AWAITING_APPROVAL"}
    [] event \in {"complete", "budget_exhausted"}    -> {"ACTIVE"}
    [] OTHER                                         -> State \ {"NONE", "ARCHIVED"}
To(event) ==
  CASE event = "submit"   -> [state |-> "AWAITING_APPROVAL", reason |-> "none"]
    [] event = "approve"  -> [state |-> "ACTIVE", reason |-> "none"]
    [] event = "reject"   -> [state |-> "ARCHIVED", reason |-> "rejected"]
    [] event = "complete" -> [state |-> "ARCHIVED", reason |-> "completed"]
    [] event = "expire"   -> [state |-> "ARCHIVED", reason |-> "expired"]
    [] event = "revoke"   -> [state |-> "ARCHIVED", reason |-> "revoked"]
    [] event = "fail"     -> [state |-> "ARCHIVED", reason |-> "failed"]
    [] OTHER              -> [state |-> "ARCHIVED", reason |-> "budget_exhausted"]

NewTask(tasks) ==
  machine' = [t \in Task |-> IF t \in tasks THEN [state |-> "AWAITING_SUBMISSION", reason |-> "none"]
                             ELSE machine[t]]

\* Transition, for tasks that meet an event in one step (start-up expires several).
Transition(tasks, event) ==
  /\ \A t \in tasks : machine[t].state \in From(event)
  /\ machine' = [t \in Task |-> IF t \in tasks THEN To(event) ELSE machine[t]]

MachineNext ==
  \/ \E tasks \in SUBSET {t \in Task : machine[t].state = "NONE"} : NewTask(tasks)
  \/ \E tasks \in SUBSET Task, event \in TaskEvent : Transition(tasks, event)

\* A task may be under way when it is first looked at; Task.Validate gives a terminal
\* reason to archived tasks and to no other.
MachineInit ==
  /\ machine \in [Task -> [state : State, reason : TerminalReason]]
  /\ \A t \in Task : machine[t].reason = "none" <=> machine[t].state # "ARCHIVED"

MachineSpec == MachineInit /\ [][MachineNext]_machine
=============================================================================

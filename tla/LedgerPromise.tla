--------------------------- MODULE LedgerPromise ---------------------------
(***************************************************************************)
(* What the exact ledgers promise their readers (the self MCP server, the  *)
(* truth contract, the diagnostics): how the rows of tasks, of             *)
(* consequential actions and of approvals may change, with no word about   *)
(* the frames, the executor, the idempotency keys or the crashes behind    *)
(* the changes.  Module Ledger is shown to implement it.                   *)
(***************************************************************************)
CONSTANTS Task, Tool, Request, None

VARIABLES task, action, approval

rows == <<task, action, approval>>

OpenTask == {"active", "checkpoint_required", "interrupted", "completed_unverified"}
ClosedTask == {"completed", "cancelled"}
InDoubt == {"running", "uncertain"}
Settled == {"verified", "failed"}

NoAction == [state |-> "none", task |-> None, request |-> None]

Init ==
  /\ task = [t \in Task |-> "none"]
  /\ action = [a \in Tool |-> NoAction]
  /\ approval = [r \in Request |-> "none"]

Create(t) ==
  /\ task[t] = "none"
  /\ task' = [task EXCEPT ![t] = "active"]
  /\ UNCHANGED <<action, approval>>

Advance(t, s) ==
  /\ task[t] \in OpenTask
  /\ task' = [task EXCEPT ![t] = s]
  /\ UNCHANGED <<action, approval>>

\* A task is completed only when nothing it did is left unsettled.
Complete(t) ==
  /\ task[t] \in OpenTask
  /\ \A a \in Tool : action[a].task = t => action[a].state \in Settled
  /\ task' = [task EXCEPT ![t] = "completed"]
  /\ UNCHANGED <<action, approval>>

\* No action is begun under a task that is closed.
Begin(a, t, r) ==
  /\ action[a].state = "none"
  /\ t # None => task[t] \in OpenTask
  /\ action' = [action EXCEPT ![a] = [state |-> "running", task |-> t, request |-> r]]
  /\ UNCHANGED <<task, approval>>

\* The first reported outcome stands.
Report(a, s) ==
  /\ action[a].state \in InDoubt
  /\ action' = [action EXCEPT ![a].state = s]
  /\ UNCHANGED <<task, approval>>

Verify(a, s) ==
  /\ action[a].state # "none"
  /\ action' = [action EXCEPT ![a].state = s]
  /\ UNCHANGED <<task, approval>>

Ask(r) ==
  /\ approval[r] = "none"
  /\ approval' = [approval EXCEPT ![r] = "open"]
  /\ UNCHANGED <<task, action>>

\* The first decision stands.
Decide(r, c) ==
  /\ approval[r] = "open"
  /\ approval' = [approval EXCEPT ![r] = c]
  /\ UNCHANGED <<task, action>>

\* A boot after a crash: everything that was under way is in doubt, at once.
Recover ==
  /\ task' = [t \in Task |-> IF task[t] = "active" THEN "interrupted" ELSE task[t]]
  /\ action' = [a \in Tool |-> IF action[a].state = "running"
                               THEN [action[a] EXCEPT !.state = "uncertain"]
                               ELSE action[a]]
  /\ UNCHANGED approval

Next ==
  \/ \E t \in Task : \/ Create(t)
                     \/ Complete(t)
                     \/ \E s \in (OpenTask \ {"active"}) \cup {"cancelled"} : Advance(t, s)
  \/ \E a \in Tool : \/ \E t \in Task \cup {None}, r \in Request \cup {None} : Begin(a, t, r)
                     \/ \E s \in {"completed_unverified", "failed"} : Report(a, s)
                     \/ \E s \in {"verified", "verification_failed"} : Verify(a, s)
  \/ \E r \in Request : \/ Ask(r)
                        \/ \E c \in {"once", "deny"} : Decide(r, c)
  \/ Recover

Spec == Init /\ [][Next]_rows
=============================================================================

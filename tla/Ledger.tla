------------------------------- MODULE Ledger -------------------------------
(***************************************************************************)
(* How Hermes' frames become exact records: the event mapper               *)
(* (sentience/hermes/event_mapper.py), the ledgers of tasks, of            *)
(* consequential actions and of approvals (capabilities/tasks.py,          *)
(* capabilities/actions.py), the list of conclusions to revalidate         *)
(* (degradation/revalidation.py) and the idempotent append they all use    *)
(* (storage/database.py).                                                  *)
(*                                                                         *)
(* Jobs run one at a time, in the order they were submitted, on the        *)
(* executor of the machine self.  Each transaction of a job is a step, so  *)
(* a crash, the maintenance thread (which ends and begins degradation) and *)
(* the Qt thread (which submits) come between any two of them.             *)
(*                                                                         *)
(* Observations, sketches, metrics and blobs are written by the same       *)
(* handlers and decide nothing here.  The gateway keeps one session;       *)
(* frames carry its runtime id.                                            *)
(***************************************************************************)
EXTENDS Naturals, Sequences

CONSTANTS Task,         \* prompts; each one is recorded as a task
          Tool,         \* tool calls with a consequential name
          Request,      \* approval requests
          None,
          DistinctIds,  \* the gateway returns a stored id beside the runtime id
          MaxQueue,     \* bound: jobs waiting for the executor
          MaxEpisode,   \* bound: degradation episodes
          MaxBoot       \* bound: restarts

ASSUME LedgerAssumption ==
  /\ None \notin Task \cup Tool \cup Request
  /\ DistinctIds \in BOOLEAN
  /\ {MaxQueue, MaxEpisode, MaxBoot} \subseteq Nat

VARIABLES
  \* the exact database
  task,        \* tasks.state
  action,      \* consequential_actions: state, task and approval of every row
  approval,    \* approvals: none, open, or the choice
  items,       \* revalidation_items: <<episode, reference>>
  log,         \* idempotency keys of the events that end a task
  \* the executor and the mapper
  queue,       \* jobs waiting
  pc,          \* next step of the job that runs, or "idle"
  cur,         \* that job
  owner,       \* the task that map() charges it to
  unsettled,   \* message.complete: the count it read
  bound,       \* _task_by_session
  \* degradation, as status() gives it
  episode,     \* the episode that is DEGRADED or RECOVERING, or 0
  episodes,    \* episodes so far
  \* the desktop and Hermes
  phase,       \* where each prompt is
  run,         \* the prompt Hermes works on
  session,     \* none, or open: the runtime id is known
  stored,      \* the stored id is known; it survives a restart
  boots,       \* restarts so far
  \* history
  begun,       \* prompts prepared since the last restart
  overlapped,  \* a prompt was submitted while another was under way
  under        \* the episode in which an outcome was recorded, while it lasts

db == <<task, action, approval, items, log>>
executor == <<queue, pc, cur, owner, unsettled, bound>>
machine == <<episode, episodes>>
desktop == <<phase, run, session, stored, boots>>
history == <<begun, overlapped, under>>
vars == <<db, executor, machine, desktop, history>>

OpenTask == {"active", "checkpoint_required", "interrupted", "completed_unverified"}
ClosedTask == {"completed", "cancelled"}
InDoubt == {"running", "uncertain"}
Settled == {"verified", "failed"}
ActionState == InDoubt \cup Settled \cup {"none", "completed_unverified", "verification_failed"}
Choice == {"once", "deny"}
Key == {"pending", "runtime", "stored"}
Kind == {"begin", "info", "start", "result", "complete", "undelivered",
         "request", "resolve"}
Status == {"complete", "error", "interrupted", "succeeded", "failed"} \cup Choice

NoJob == [kind |-> "info", key |-> "pending", of |-> None, tool |-> None,
          request |-> None, status |-> "complete", target |-> None, outcome |-> "failed"]

Job == [kind : Kind, key : Key, of : Task \cup {None}, tool : Tool \cup {None},
        request : Request \cup {None}, status : Status, target : Tool \cup {None},
        outcome : {"success", "failed"}]

Step == Kind \cup {"idle", "prepare", "refer", "verify", "count", "settle"}

LogKey == {"finish", "interrupt"} \X Task \X (OpenTask \cup ClosedTask)

TypeOK ==
  /\ task \in [Task -> OpenTask \cup ClosedTask \cup {"none"}]
  /\ action \in [Tool -> [state : ActionState, task : Task \cup {None},
                          request : Request \cup {None}]]
  /\ approval \in [Request -> {"none", "open"} \cup Choice]
  /\ items \subseteq (1..MaxEpisode) \X (Tool \cup Task)
  /\ log \subseteq LogKey
  /\ queue \in Seq(Job) /\ Len(queue) <= MaxQueue
  /\ pc \in Step /\ cur \in Job /\ owner \in Task \cup {None} /\ unsettled \in BOOLEAN
  /\ bound \in [Key -> Task \cup {None}]
  /\ episodes \in 0..MaxEpisode /\ episode \in 0..episodes
  /\ phase \in [Task -> {"new", "preparing", "ready", "running", "completed", "gone"}]
  /\ run \in Task \cup {None}
  /\ session \in {"none", "open"} /\ stored \in BOOLEAN /\ boots \in 0..MaxBoot
  /\ begun \subseteq Task /\ overlapped \in BOOLEAN
  /\ under \in [Tool \cup Task -> 0..MaxEpisode]

Init ==
  /\ task = [t \in Task |-> "none"]
  /\ action = [a \in Tool |-> [state |-> "none", task |-> None, request |-> None]]
  /\ approval = [r \in Request |-> "none"]
  /\ items = {} /\ log = {}
  /\ queue = <<>> /\ pc = "idle" /\ cur = NoJob /\ owner = None /\ unsettled = FALSE
  /\ bound = [k \in Key |-> None]
  /\ episode = 0 /\ episodes = 0
  /\ phase = [t \in Task |-> "new"] /\ run = None
  /\ session = "none" /\ stored = FALSE /\ boots = 0
  /\ begun = {} /\ overlapped = FALSE
  /\ under = [c \in Tool \cup Task |-> 0]

-----------------------------------------------------------------------------
(***************************************************************************)
(* The desktop and Hermes: what they put before the executor.              *)
(***************************************************************************)

Enqueue(job) ==
  /\ Len(queue) < MaxQueue
  /\ queue' = Append(queue, job)
  /\ UNCHANGED <<pc, cur, owner, unsettled, bound>>

\* HermesService.sessionId, which the controller files a new task under.
SubmitKey == IF stored THEN "stored" ELSE IF session = "open" THEN "runtime" ELSE "pending"

\* _emit_undelivered prefers the runtime id.
ReportKey == IF session = "open" THEN "runtime" ELSE SubmitKey

UnderWay(t) == phase[t] \in {"preparing", "ready", "running"}

\* sendText; nothing there asks whether another turn is under way.
Submit(t) ==
  /\ phase[t] = "new"
  /\ Enqueue([NoJob EXCEPT !.kind = "begin", !.key = SubmitKey, !.of = t])
  /\ phase' = [phase EXCEPT ![t] = "preparing"]
  /\ overlapped' = (overlapped \/ \E u \in Task : UnderWay(u))
  /\ UNCHANGED <<db, machine, run, session, stored, boots, begun, under>>

\* The answer to session.create or session.resume, and the session.info
\* frame that Hermes sends with it.
OpenSession ==
  /\ session = "none"
  /\ session' = "open"
  /\ stored' = DistinctIds
  /\ Enqueue([NoJob EXCEPT !.key = "runtime"])
  /\ UNCHANGED <<db, machine, phase, run, boots, history>>

Deliver(t) ==
  /\ phase[t] = "ready" /\ session = "open" /\ run = None
  /\ phase' = [phase EXCEPT ![t] = "running"]
  /\ run' = t
  /\ UNCHANGED <<db, executor, machine, session, stored, boots, history>>

\* The service gives the prompt up: replaced, cancelled, stopped, refused.
Undeliver(t) ==
  /\ phase[t] = "ready"
  /\ Enqueue([NoJob EXCEPT !.kind = "undelivered", !.key = ReportKey, !.of = t])
  /\ phase' = [phase EXCEPT ![t] = "gone"]
  /\ UNCHANGED <<db, machine, run, session, stored, boots, history>>

\* A frame of the run: it carries the runtime id, never the task.
Frame(job) ==
  /\ run # None /\ session = "open"
  /\ Enqueue([job EXCEPT !.key = "runtime", !.of = run])
  /\ UNCHANGED <<db, machine, session, stored, boots, history>>

ToolStart(a, r) ==
  /\ Frame([NoJob EXCEPT !.kind = "start", !.tool = a, !.request = r])
  /\ UNCHANGED <<phase, run>>

\* tool.complete, tool.error or tool.failed; a successful one may say that
\* it verifies another action.
ToolResult(a, status, target, outcome) ==
  /\ Frame([NoJob EXCEPT !.kind = "result", !.tool = a, !.status = status,
                         !.target = target, !.outcome = outcome])
  /\ UNCHANGED <<phase, run>>

ApprovalRequest(r) ==
  /\ Frame([NoJob EXCEPT !.kind = "request", !.request = r])
  /\ UNCHANGED <<phase, run>>

\* session.info during the run; "failed": the inventory lacks a capability
\* that the task cannot safely lose.
InventoryLoss ==
  /\ Frame([NoJob EXCEPT !.status = "failed"])
  /\ UNCHANGED <<phase, run>>

MessageComplete(status) ==
  /\ Frame([NoJob EXCEPT !.kind = "complete", !.status = status])
  /\ phase' = [phase EXCEPT ![run] = "completed"]
  /\ run' = None

\* The run ends while HAL is not connected: no frame reaches it.
CompleteUnseen ==
  /\ run # None /\ session = "none"
  /\ phase' = [phase EXCEPT ![run] = "gone"]
  /\ run' = None
  /\ UNCHANGED <<db, executor, machine, session, stored, boots, history>>

\* The user answers an approval card.
Answer(r, choice) ==
  /\ Enqueue([NoJob EXCEPT !.kind = "resolve", !.request = r, !.status = choice])
  /\ UNCHANGED <<db, machine, desktop, history>>

-----------------------------------------------------------------------------
(***************************************************************************)
(* The executor: map() and begin_task().                                   *)
(***************************************************************************)

\* The task of the frame's session, else the task that waits for a session.
TaskFor(k) == IF bound[k] # None THEN bound[k] ELSE bound["pending"]

\* bind_pending_task
BindPending(k) ==
  IF bound["pending"] = None THEN bound
  ELSE [bound EXCEPT !["pending"] = None, ![k] = bound["pending"]]

Take ==
  /\ pc = "idle" /\ queue # <<>>
  /\ LET job == Head(queue) IN
     /\ cur' = job
     /\ pc' = job.kind
     /\ bound' = IF job.kind = "info" THEN BindPending(job.key) ELSE bound
     /\ owner' = IF job.kind = "info" THEN bound'[job.key] ELSE TaskFor(job.key)
  /\ queue' = Tail(queue)
  /\ UNCHANGED <<db, unsettled, machine, desktop, history>>

At(s) == pc = s

\* The job that runs goes on with step s, or is done.
Goto(s) == pc' = s /\ UNCHANGED <<queue, cur, owner, unsettled, bound>>
JobDone ==
  /\ pc' = "idle" /\ cur' = NoJob /\ owner' = None /\ unsettled' = FALSE
  /\ UNCHANGED queue

\* Mutant: a task that is already filed under the session keeps its place.
BeginTaskBehind ==
  /\ At("begin")
  /\ task' = [task EXCEPT ![cur.of] = "active"]
  /\ bound' = IF bound[cur.key] # None THEN bound ELSE [bound EXCEPT ![cur.key] = cur.of]
  /\ begun' = begun \cup {cur.of}
  /\ pc' = "prepare"
  /\ UNCHANGED <<action, approval, items, log, queue, cur, owner, unsettled, machine,
                 desktop, overlapped, under>>

BeginTask ==
  /\ At("begin")
  /\ task' = [task EXCEPT ![cur.of] = "active"]
  /\ bound' = [bound EXCEPT ![cur.key] = cur.of]
  /\ begun' = begun \cup {cur.of}
  /\ pc' = "prepare"
  /\ UNCHANGED <<action, approval, items, log, queue, cur, owner, unsettled, machine,
                 desktop, overlapped, under>>

\* The rest of prepare_prompt: the event of the input, the capsule, the memory.
\* Whether it returns or raises, the controller sends a prompt, prepared or
\* bare, and the task stays filed.
PreparePrompt ==
  /\ At("prepare")
  /\ phase' = [phase EXCEPT ![cur.of] = "ready"]
  /\ JobDone /\ UNCHANGED bound
  /\ UNCHANGED <<db, machine, run, session, stored, boots, history>>

\* A loss that is critical for the task of the session (_start_episode and
\* _aggregate_loss, through the transitions of the inventory).
ObserveInfo ==
  /\ At("info")
  /\ task' = IF cur.status = "failed" /\ owner # None /\ task[owner] \notin ClosedTask
             THEN [task EXCEPT ![owner] = "checkpoint_required"] ELSE task
  /\ JobDone /\ UNCHANGED bound
  /\ UNCHANGED <<action, approval, items, log, machine, desktop, history>>

\* _tool_started of a consequential tool, with start_action: INSERT OR IGNORE;
\* the approval is linked if it is known.
StartAction ==
  /\ At("start")
  /\ action' = IF action[cur.tool].state # "none" THEN action
               ELSE [action EXCEPT ![cur.tool] =
                      [state |-> "running", task |-> owner,
                       request |-> IF cur.request # None /\ approval[cur.request] # "none"
                                   THEN cur.request ELSE None]]
  /\ JobDone /\ UNCHANGED bound
  /\ UNCHANGED <<task, approval, items, log, machine, desktop, history>>

Outcome(status) == IF status = "failed" THEN "failed" ELSE "completed_unverified"

\* Mutant: a later report replaces an earlier one.
FinishActionAgain ==
  /\ At("result")
  /\ LET a == cur.tool IN
     IF a # None /\ action[a].state # "none"
     THEN /\ action' = [action EXCEPT ![a].state = Outcome(cur.status)]
          /\ under' = [under EXCEPT ![a] = episode]
          /\ Goto("refer")
     ELSE /\ Goto("verify")
          /\ UNCHANGED <<action, under>>
  /\ UNCHANGED <<task, approval, items, log, machine, desktop, begun, overlapped>>

\* _tool_finished, up to finish_action: only an action in doubt takes the
\* outcome.  A tool call that was not consequential has no row.
FinishAction ==
  /\ At("result")
  /\ LET a == cur.tool IN
     \/ /\ a # None /\ action[a].state \in InDoubt
        /\ action' = [action EXCEPT ![a].state = Outcome(cur.status)]
        /\ under' = [under EXCEPT ![a] = episode]
        /\ Goto("refer")
     \/ /\ a # None /\ action[a].state \notin InDoubt \cup {"none"}
        /\ Goto("refer")
        /\ UNCHANGED <<action, under>>
     \/ /\ a # None => action[a].state = "none"
        /\ Goto("verify")
        /\ UNCHANGED <<action, under>>
  /\ UNCHANGED <<task, approval, items, log, machine, desktop, begun, overlapped>>

\* _record_degraded_reference and RevalidationService.add
Refer(reference) ==
  items' = IF episode = 0 THEN items ELSE items \cup {<<episode, reference>>}

\* Mutant: the outcome of a failed tool is not taken for a conclusion.
ReferSuccess ==
  /\ At("refer") /\ cur.kind = "result"
  /\ IF cur.status = "failed" THEN UNCHANGED items ELSE Refer(cur.tool)
  /\ Goto("verify")
  /\ UNCHANGED <<task, action, approval, log, machine, desktop, history>>

ReferAction ==
  /\ At("refer") /\ cur.kind = "result"
  /\ Refer(cur.tool)
  /\ Goto("verify")
  /\ UNCHANGED <<task, action, approval, log, machine, desktop, history>>

\* The rest of _tool_finished: verify_action, from whatever state (an unknown
\* action raises), and the event of the result.
VerifyAction ==
  /\ At("verify")
  /\ action' = IF /\ cur.status # "failed" /\ cur.target # None
                  /\ action[cur.target].state # "none"
               THEN [action EXCEPT ![cur.target].state =
                       IF cur.outcome = "success" THEN "verified" ELSE "verification_failed"]
               ELSE action
  /\ JobDone /\ UNCHANGED bound
  /\ UNCHANGED <<task, approval, items, log, machine, desktop, history>>

\* message.complete: the event of the run, the conclusion of a degraded one,
\* the count of unsettled actions, the end of the task.
FinishRun ==
  /\ At("complete")
  /\ under' = IF cur.status = "complete" THEN [under EXCEPT ![cur.of] = episode] ELSE under
  /\ Goto("refer")
  /\ UNCHANGED <<db, machine, desktop, begun, overlapped>>

ReferRun ==
  /\ At("refer") /\ cur.kind = "complete"
  /\ IF cur.status = "complete" THEN Refer(cur.of) ELSE UNCHANGED items
  /\ Goto("count")
  /\ UNCHANGED <<task, action, approval, log, machine, desktop, history>>

\* Mutant: only the actions still running count.
CountRunning ==
  /\ At("count")
  /\ unsettled' = \E a \in Tool : action[a].task = owner /\ action[a].state \in InDoubt
  /\ pc' = "settle"
  /\ UNCHANGED <<db, queue, cur, owner, bound, machine, desktop, history>>

CountUnsettled ==
  /\ At("count")
  /\ unsettled' = \E a \in Tool : action[a].task = owner /\ action[a].state \notin Settled
  /\ pc' = "settle"
  /\ UNCHANGED <<db, queue, cur, owner, bound, machine, desktop, history>>

\* TaskLedger.finish and TaskLedger.interrupt: an event that is already in
\* the log changes nothing; a closed task raises and the event is undone.
EndTask(t, event, state) ==
  LET key == <<event, t, state>> IN
  IF key \in log \/ task[t] \in ClosedTask
  THEN UNCHANGED <<task, log>>
  ELSE /\ task' = [task EXCEPT ![t] = state]
       /\ log' = log \cup {key}

Raises(t, event, state) == <<event, t, state>> \notin log /\ task[t] \in ClosedTask

RunOutcome ==
  CASE cur.status = "complete" -> IF unsettled THEN <<"finish", "completed_unverified">>
                                  ELSE <<"finish", "completed">>
    [] cur.status = "interrupted" -> <<"interrupt", "cancelled">>
    [] OTHER -> <<"interrupt", "interrupted">>

\* Mutant: a run that ends in an error does not end its task.
SettleSuccess ==
  /\ At("settle")
  /\ IF owner = None \/ cur.status = "error" THEN UNCHANGED <<task, log, bound>>
     ELSE /\ EndTask(owner, RunOutcome[1], RunOutcome[2])
          /\ bound' = [bound EXCEPT ![cur.key] = None]
  /\ JobDone
  /\ UNCHANGED <<action, approval, items, machine, desktop, history>>

SettleTask ==
  /\ At("settle")
  /\ IF owner = None THEN UNCHANGED <<task, log, bound>>
     ELSE /\ EndTask(owner, RunOutcome[1], RunOutcome[2])
          /\ bound' = IF Raises(owner, RunOutcome[1], RunOutcome[2]) THEN bound
                      ELSE [bound EXCEPT ![cur.key] = None]
  /\ JobDone
  /\ UNCHANGED <<action, approval, items, machine, desktop, history>>

InterruptUndelivered ==
  /\ At("undelivered")
  /\ IF owner = None THEN UNCHANGED <<task, log>>
     ELSE EndTask(owner, "interrupt", "interrupted")
  /\ JobDone /\ UNCHANGED bound
  /\ UNCHANGED <<action, approval, items, machine, desktop, history>>

RequestApproval ==
  /\ At("request")
  /\ approval' = IF approval[cur.request] = "none" THEN [approval EXCEPT ![cur.request] = "open"]
                 ELSE approval
  /\ JobDone /\ UNCHANGED bound
  /\ UNCHANGED <<task, action, items, log, machine, desktop, history>>

\* approval_resolved: an unknown request and a second decision change nothing.
ResolveApproval ==
  /\ At("resolve")
  /\ approval' = IF approval[cur.request] = "open"
                 THEN [approval EXCEPT ![cur.request] = cur.status] ELSE approval
  /\ JobDone /\ UNCHANGED bound
  /\ UNCHANGED <<task, action, items, log, machine, desktop, history>>

-----------------------------------------------------------------------------
(***************************************************************************)
(* The maintenance thread, and restarts.                                   *)
(***************************************************************************)

\* _enter_degraded, of a new episode or of the last one reopened.
Degrade ==
  /\ episode = 0
  /\ \/ episodes < MaxEpisode /\ episodes' = episodes + 1
     \/ episodes > 0 /\ UNCHANGED episodes
  /\ episode' = episodes'
  /\ UNCHANGED <<db, executor, desktop, history>>

\* _finish_recovery
EndEpisode ==
  /\ episode # 0
  /\ episode' = 0
  /\ under' = [c \in Tool \cup Task |-> 0]
  /\ UNCHANGED <<db, executor, episodes, desktop, begun, overlapped>>

NewProcess ==
  /\ boots < MaxBoot /\ boots' = boots + 1
  /\ queue' = <<>> /\ pc' = "idle" /\ cur' = NoJob /\ owner' = None /\ unsettled' = FALSE
  /\ bound' = [k \in Key |-> None]
  /\ phase' = [t \in Task |-> IF phase[t] \in {"preparing", "ready"} THEN "gone" ELSE phase[t]]
  /\ session' = "none"
  /\ begun' = {} /\ under' = [c \in Tool \cup Task |-> 0]
  /\ UNCHANGED <<approval, items, log, machine, run, stored, overlapped>>

\* stop() lets the executor drain, and the next boot finds nothing to recover.
CleanRestart ==
  /\ pc = "idle" /\ queue = <<>>
  /\ NewProcess
  /\ UNCHANGED <<task, action>>

\* start_boot after an unclean end.
CrashRestart ==
  /\ NewProcess
  /\ task' = [t \in Task |-> IF task[t] = "active" THEN "interrupted" ELSE task[t]]
  /\ action' = [a \in Tool |-> IF action[a].state = "running"
                               THEN [action[a] EXCEPT !.state = "uncertain"]
                               ELSE action[a]]

-----------------------------------------------------------------------------
Executor ==
  \/ Take \/ BeginTask \/ PreparePrompt \/ ObserveInfo \/ StartAction
  \/ FinishAction \/ ReferAction \/ VerifyAction
  \/ FinishRun \/ ReferRun \/ CountUnsettled \/ SettleTask
  \/ InterruptUndelivered \/ RequestApproval \/ ResolveApproval

Desktop ==
  \/ \E t \in Task : Submit(t) \/ Deliver(t) \/ Undeliver(t)
  \/ \E r \in Request, c \in Choice : Answer(r, c)
  \/ OpenSession

Hermes ==
  \/ \E a \in Tool, r \in Request \cup {None} : ToolStart(a, r)
  \/ \E a \in Tool : \/ ToolResult(a, "failed", None, "failed")
                     \/ ToolResult(a, "succeeded", None, "failed")
  \/ \E a \in Tool \cup {None}, b \in Tool, o \in {"success", "failed"} :
       ToolResult(a, "succeeded", b, o)
  \/ \E r \in Request : ApprovalRequest(r)
  \/ InventoryLoss
  \/ \E s \in {"complete", "error", "interrupted"} : MessageComplete(s)
  \/ CompleteUnseen

Next == Executor \/ Desktop \/ Hermes \/ Degrade \/ EndEpisode \/ CleanRestart \/ CrashRestart

Spec == Init /\ [][Next]_vars
\* The executor works as long as it has jobs; nobody else is held to anything.
FairSpec == Spec /\ WF_vars(Executor)

-----------------------------------------------------------------------------
(***************************************************************************)
(* Properties.                                                             *)
(***************************************************************************)

\* The ledgers keep the promise of their rows: whatever the frames, their
\* repetitions, the restarts and the losses, every change of the tables is one
\* that module LedgerPromise allows.
Promise == INSTANCE LedgerPromise WITH
             Task <- Task, Tool <- Tool, Request <- Request, None <- None,
             task <- task, action <- action, approval <- approval
KeepsPromise == Promise!Spec

\* A task that was recorded as completed did nothing whose outcome is unknown
\* or unchecked: every action charged to it has been verified or has failed
\* (map, message.complete), and no action is charged to it afterwards.
CompletedSettled ==
  /\ TypeOK
  /\ \A t \in Task, a \in Tool :
       task[t] = "completed" /\ action[a].task = t =>
         action[a].state \in Settled \cup {"verification_failed"}

\* Frames name a session, not a task.  As long as no prompt is submitted while
\* another is under way, what map() charges a frame of a run to is the task
\* that was begun for that run (begin_task, bind_pending_task, map).
RunsOwnTask ==
  pc # "idle" /\ cur.kind \notin {"begin", "resolve"} /\ cur.of \in begun /\ ~overlapped
    => owner = cur.of

\* What was concluded while degraded is on the list to revalidate, if the same
\* episode still lasts and HAL was not restarted in between
\* (_record_degraded_reference).
ConclusionsReferred ==
  \A c \in Tool \cup Task :
    under[c] # 0 /\ ~(pc = "refer" /\ c \in {cur.tool, cur.of}) => <<under[c], c>> \in items

\* A run whose end reached HAL does not leave its task open for ever: the task
\* is ended unless HAL is restarted first (message.complete).
RunEnds ==
  \A t \in Task :
    (phase[t] = "completed" /\ t \in begun /\ ~overlapped)
      ~> (task[t] \notin {"active", "checkpoint_required"} \/ t \notin begun)
=============================================================================

---------------------------- MODULE LedgerProofs ----------------------------
(***************************************************************************)
(* Proofs about Ledger: type correctness, that the rows change only as     *)
(* LedgerPromise allows, that a completed task left nothing unsettled, and *)
(* that what a run reports is charged to its own task.                     *)
(*                                                                         *)
(* The promise turns on the table of sessions: an action may begin, and a  *)
(* task may end, only under a task that is open, and what a frame is       *)
(* charged to is whatever the table names.  So the invariant says that the *)
(* table never names a closed task; the steps that close one take it off   *)
(* the table, because it is there once (BoundOnce) and under the key of    *)
(* the frame (PendingFirst, Charged).                                      *)
(***************************************************************************)
EXTENDS Ledger, SequenceTheorems, TLAPS

\* What the desktop and Hermes put into a job of each kind.
Formed(job) ==
  /\ job.kind = "begin" => job.of \in Task
  /\ job.kind = "complete" => job.of \in Task /\ job.key = "runtime"
  /\ job.kind = "info" => job.key = "runtime"
  /\ job.kind = "start" => job.tool \in Tool
  /\ job.kind = "result" => job.status \in {"succeeded", "failed"}
  /\ job.kind = "request" => job.request \in Request
  /\ job.kind = "resolve" => job.request \in Request /\ job.status \in Choice

StepsOf(kind) ==
  {kind} \cup CASE kind = "begin" -> {"prepare"}
                [] kind = "result" -> {"refer", "verify"}
                [] kind = "complete" -> {"refer", "count", "settle"}
                [] OTHER -> {}

JobsFormed ==
  /\ \A i \in 1..Len(queue) : Formed(queue[i])
  /\ pc # "idle" => Formed(cur) /\ pc \in StepsOf(cur.kind)
  /\ pc = "refer" /\ cur.kind = "result" => cur.tool \in Tool

\* A task is begun once: it has no row before.
BeginsFresh ==
  /\ \A t \in Task : phase[t] = "new" => task[t] = "none"
  /\ \A i \in 1..Len(queue) :
       queue[i].kind = "begin" =>
         /\ phase[queue[i].of] # "new" /\ task[queue[i].of] = "none"
         /\ \A j \in 1..Len(queue) :
              queue[j].kind = "begin" /\ queue[j].of = queue[i].of => j = i
  /\ pc = "begin" =>
       /\ phase[cur.of] # "new" /\ task[cur.of] = "none"
       /\ \A j \in 1..Len(queue) : queue[j].kind = "begin" => queue[j].of # cur.of

BoundOpen ==
  /\ \A k \in Key : bound[k] # None => task[bound[k]] \in OpenTask
  /\ owner # None => task[owner] \in OpenTask

BoundOnce == \A j, k \in Key : bound[j] = bound[k] /\ bound[j] # None => j = k

\* No end of a run is handled while a task still waits for its session: the
\* frame that opened the session comes first and takes the task off "pending".
PendingBegin(job) == job.kind = "begin" /\ job.key = "pending"
NonePending ==
  /\ bound["pending"] = None
  /\ \A i \in 1..Len(queue) : ~PendingBegin(queue[i])
  /\ pc = "begin" => cur.key # "pending"
InfoFirst(q, i) ==
  /\ q[i].kind = "info"
  /\ \A j \in 1..Len(q) : /\ j < i => q[j].kind # "complete"
                          /\ j > i => ~PendingBegin(q[j])
NoneComplete == pc # "idle" => cur.kind # "complete"
PendingFirst ==
  /\ session = "none" => NoneComplete /\ \A i \in 1..Len(queue) : queue[i].kind # "complete"
  /\ session = "open" => \/ NonePending
                         \/ NoneComplete /\ \E i \in 1..Len(queue) : InfoFirst(queue, i)

\* The end of a run is charged to the task under the key of its frame.
Charged == pc # "idle" /\ cur.kind = "complete" => owner = bound["runtime"]

\* What was counted holds until the task is ended.
Counted ==
  pc = "settle" /\ ~unsettled =>
    \A a \in Tool : action[a].task = owner /\ owner # None => action[a].state \in Settled

IInv ==
  /\ TypeOK /\ JobsFormed /\ BeginsFresh /\ BoundOpen /\ BoundOnce
  /\ PendingFirst /\ Charged /\ Counted

-----------------------------------------------------------------------------
(***************************************************************************)
(* The queue of jobs.                                                      *)
(***************************************************************************)

\* A job that is put into the queue is its last.
LEMMA Queued ==
  ASSUME queue \in Seq(Job), Len(queue) <= MaxQueue, NEW job \in Job, Enqueue(job)
  PROVE  /\ queue' \in Seq(Job) /\ Len(queue') <= MaxQueue
         /\ Len(queue) \in Nat /\ Len(queue') = Len(queue) + 1
         /\ queue'[Len(queue) + 1] = job
         /\ \A i \in 1..Len(queue) : queue'[i] = queue[i]
<1>1. queue' = Append(queue, job) /\ Len(queue) < MaxQueue /\ MaxQueue \in Nat
  BY LedgerAssumption DEF Enqueue, LedgerAssumption
<1>2. /\ queue' \in Seq(Job) /\ Len(queue) \in Nat /\ Len(queue') = Len(queue) + 1
      /\ queue'[Len(queue) + 1] = job
      /\ \A i \in 1..Len(queue) : queue'[i] = queue[i]
  BY <1>1, AppendProperties, LenProperties
<1> QED
  BY <1>1, <1>2

\* The job that is taken was the first, and the others move up.
LEMMA Taken ==
  ASSUME queue \in Seq(Job), queue # <<>>, queue' = Tail(queue)
  PROVE  /\ queue' \in Seq(Job) /\ Head(queue) = queue[1] /\ Head(queue) \in Job
         /\ Len(queue) \in Nat \ {0} /\ Len(queue') = Len(queue) - 1
         /\ \A i \in 1..Len(queue') : queue'[i] = queue[i + 1]
BY HeadTailProperties, LenProperties, EmptySeq

\* Every frame of a run is a job for it, under the runtime id.
LEMMA Framed ==
  ASSUME TypeOK, NEW job \in Job, Formed(job), job.kind # "begin", Frame(job)
  PROVE  \E j \in Job : /\ Formed(j) /\ Enqueue(j) /\ j.kind = job.kind
                       /\ session = "open" /\ run \in Task
<1> DEFINE j == [job EXCEPT !.key = "runtime", !.of = run]
<1>1. run \in Task /\ session = "open" /\ Enqueue(j)
  BY DEF TypeOK, Frame
<1>2. j \in Job /\ j.kind = job.kind
  BY <1>1 DEF Job, Key
<1>3. Formed(j)
  BY <1>1 DEF Formed, Job, Key
<1> QED
  BY <1>1, <1>2, <1>3

\* What the desktop and Hermes do to the executor: one job is put into the
\* queue, or none.
Adds(job) ==
  /\ job \in Job /\ Formed(job) /\ Enqueue(job)
  /\ job.kind = "complete" => session = "open"
  /\ session = "open" => ~PendingBegin(job)

LEMMA HermesAdds ==
  ASSUME TypeOK, Hermes
  PROVE  /\ UNCHANGED <<db, machine, session, stored, boots, history>>
         /\ \/ /\ UNCHANGED executor
            \/ \E job \in Job : Adds(job) /\ job.kind # "begin"
         /\ \/ UNCHANGED <<phase, run>>
            \/ /\ run \in Task /\ run' = None
               /\ \E s \in {"completed", "gone"} : phase' = [phase EXCEPT ![run] = s]
<1> DEFINE Jobs == {j \in Job : Formed(j) /\ j.kind # "begin"}
<1> USE DEF Kind, Key, Status, Choice
<1>0. NoJob \in Job
  BY DEF NoJob, Job
<1>1. ASSUME NEW a \in Tool, NEW r \in Request \cup {None}, ToolStart(a, r)
      PROVE  \E job \in Jobs : Frame(job) /\ UNCHANGED <<phase, run>>
  <2> DEFINE job == [NoJob EXCEPT !.kind = "start", !.tool = a, !.request = r]
  <2>1. job \in Jobs
    BY <1>0 DEF NoJob, Job, Formed
  <2> QED BY <2>1, <1>1 DEF ToolStart
<1>2. ASSUME NEW a \in Tool \cup {None}, NEW s \in {"succeeded", "failed"},
             NEW b \in Tool \cup {None}, NEW o \in {"success", "failed"},
             ToolResult(a, s, b, o)
      PROVE  \E job \in Jobs : Frame(job) /\ UNCHANGED <<phase, run>>
  <2> DEFINE job == [NoJob EXCEPT !.kind = "result", !.tool = a, !.status = s,
                                  !.target = b, !.outcome = o]
  <2>1. job \in Jobs
    BY <1>0 DEF NoJob, Job, Formed
  <2> QED BY <2>1, <1>2 DEF ToolResult
<1>3. ASSUME NEW r \in Request, ApprovalRequest(r)
      PROVE  \E job \in Jobs : Frame(job) /\ UNCHANGED <<phase, run>>
  <2> DEFINE job == [NoJob EXCEPT !.kind = "request", !.request = r]
  <2>1. job \in Jobs
    BY <1>0 DEF NoJob, Job, Formed
  <2> QED BY <2>1, <1>3 DEF ApprovalRequest
<1>4. ASSUME InventoryLoss
      PROVE  \E job \in Jobs : Frame(job) /\ UNCHANGED <<phase, run>>
  <2> DEFINE job == [NoJob EXCEPT !.status = "failed", !.key = "runtime"]
  <2>1. job \in Jobs
    BY <1>0 DEF NoJob, Job, Formed
  <2>2. Frame(job)
    BY <1>4 DEF InventoryLoss, Frame, NoJob
  <2> QED BY <2>1, <2>2, <1>4 DEF InventoryLoss
<1>5. ASSUME NEW s \in {"complete", "error", "interrupted"}, MessageComplete(s)
      PROVE  /\ \E job \in Jobs : Frame(job)
             /\ run' = None /\ phase' = [phase EXCEPT ![run] = "completed"]
  <2> DEFINE job == [NoJob EXCEPT !.kind = "complete", !.status = s,
                                  !.key = "runtime", !.of = run]
  <2>1. run \in Task
    BY <1>5 DEF MessageComplete, Frame, TypeOK
  <2>2. job \in Jobs
    BY <1>0, <2>1 DEF NoJob, Job, Formed
  <2>3. Frame(job)
    BY <1>5 DEF MessageComplete, Frame, NoJob
  <2> QED BY <2>2, <2>3, <1>5 DEF MessageComplete
<1>6. ASSUME NEW job \in Jobs, Frame(job)
      PROVE  /\ \E j \in Job : Adds(j) /\ j.kind # "begin"
             /\ UNCHANGED <<db, machine, session, stored, boots, history>>
             /\ run \in Task
  <2>1. PICK j \in Job : /\ Formed(j) /\ Enqueue(j) /\ j.kind = job.kind
                         /\ session = "open" /\ run \in Task
    BY <1>6, Framed
  <2> QED BY <2>1, <1>6 DEF Adds, PendingBegin, Frame
<1>7. CASE CompleteUnseen
  BY <1>7 DEF CompleteUnseen, TypeOK
<1> QED
  BY <1>1, <1>2, <1>3, <1>4, <1>5, <1>6, <1>7 DEF Hermes

-----------------------------------------------------------------------------
(***************************************************************************)
(* What a new job leaves of the invariant.                                 *)
(***************************************************************************)

LEMMA AddKeepsRows ==
  ASSUME IInv, NEW job \in Job, Formed(job), Enqueue(job), UNCHANGED <<task, action>>,
         \A t \in Task : phase'[t] = "new" => phase[t] = "new" /\ (job.kind = "begin" => t # job.of),
         job.kind = "begin" => phase[job.of] = "new"
  PROVE  JobsFormed' /\ BeginsFresh' /\ BoundOpen' /\ BoundOnce' /\ Charged' /\ Counted'
<1>1. /\ Len(queue) \in Nat /\ Len(queue') = Len(queue) + 1
      /\ queue'[Len(queue) + 1] = job
      /\ \A i \in 1..Len(queue) : queue'[i] = queue[i]
  BY Queued DEF IInv, TypeOK
<1>2. UNCHANGED <<pc, cur, owner, unsettled, bound, task, action>>
  BY DEF Enqueue
<1>3. \A i \in 1..Len(queue') :
        \/ i \in 1..Len(queue) /\ queue'[i] = queue[i]
        \/ i = Len(queue) + 1 /\ queue'[i] = job
  BY <1>1
<1>4. JobsFormed'
  BY <1>2, <1>3 DEF IInv, JobsFormed, Formed, StepsOf
<1>5. BeginsFresh'
  <2>1. ASSUME NEW t \in Task, phase'[t] = "new" PROVE task'[t] = "none"
    BY <2>1, <1>2 DEF IInv, BeginsFresh
  <2>2. ASSUME NEW i \in 1..Len(queue'), queue'[i].kind = "begin"
        PROVE  /\ queue'[i].of \in Task
               /\ phase'[queue'[i].of] # "new" /\ task'[queue'[i].of] = "none"
    BY <2>2, <1>2, <1>3 DEF IInv, BeginsFresh, JobsFormed, Formed
  <2>3. ASSUME NEW i \in 1..Len(queue'), NEW j \in 1..Len(queue'),
               queue'[i].kind = "begin", queue'[j].kind = "begin",
               queue'[j].of = queue'[i].of
        PROVE  j = i
    BY <2>3, <1>3 DEF IInv, BeginsFresh
  <2>4. ASSUME pc' = "begin"
        PROVE  /\ phase'[cur'.of] # "new" /\ task'[cur'.of] = "none"
               /\ \A j \in 1..Len(queue') : queue'[j].kind = "begin" => queue'[j].of # cur'.of
    <3>1. cur.of \in Task /\ phase[cur.of] # "new" /\ task[cur.of] = "none"
      BY <2>4, <1>2 DEF IInv, BeginsFresh, JobsFormed, Formed, StepsOf
    <3> QED BY <2>4, <3>1, <1>2, <1>3 DEF IInv, BeginsFresh
  <2> QED BY <2>1, <2>2, <2>3, <2>4 DEF BeginsFresh
<1>6. BoundOpen' /\ BoundOnce' /\ Charged' /\ Counted'
  BY <1>2 DEF IInv, BoundOpen, BoundOnce, Charged, Counted
<1> QED
  BY <1>4, <1>5, <1>6

LEMMA AddKeepsPending ==
  ASSUME IInv, NEW job \in Job, Enqueue(job), session' = session,
         job.kind = "complete" => session = "open", session = "open" => ~PendingBegin(job)
  PROVE  PendingFirst'
<1>1. /\ Len(queue) \in Nat /\ Len(queue') = Len(queue) + 1
      /\ queue'[Len(queue) + 1] = job
      /\ \A i \in 1..Len(queue) : queue'[i] = queue[i]
  BY Queued DEF IInv, TypeOK
<1>2. UNCHANGED <<pc, cur, bound>>
  BY DEF Enqueue
<1>3. \A i \in 1..Len(queue') :
        \/ i \in 1..Len(queue) /\ queue'[i] = queue[i]
        \/ i = Len(queue) + 1 /\ queue'[i] = job
  BY <1>1
<1>4. CASE session = "none"
  BY <1>2, <1>3, <1>4 DEF IInv, PendingFirst, NoneComplete
<1>5. CASE session = "open" /\ NonePending
  <2>1. NonePending'
    BY <1>2, <1>3, <1>5 DEF NonePending, PendingBegin
  <2> QED BY <2>1, <1>5 DEF PendingFirst
<1>6. CASE session = "open" /\ NoneComplete /\ \E i \in 1..Len(queue) : InfoFirst(queue, i)
  <2>1. PICK i \in 1..Len(queue) : InfoFirst(queue, i)
    BY <1>6
  <2>2. i \in 1..Len(queue') /\ InfoFirst(queue', i)
    BY <2>1, <1>1, <1>3, <1>6 DEF InfoFirst, PendingBegin
  <2> QED BY <2>2, <1>2, <1>6 DEF PendingFirst, NoneComplete
<1>7. session \in {"none", "open"}
  BY DEF IInv, TypeOK
<1> QED
  BY <1>4, <1>5, <1>6, <1>7 DEF IInv, PendingFirst

\* The desktop: a task is submitted once, and the session opens with a frame.
LEMMA DesktopAdds ==
  ASSUME TypeOK, Desktop
  PROVE  /\ UNCHANGED <<db, machine, boots, begun, under>>
         /\ \/ \E t \in Task, job \in Job :
                  /\ job.kind = "begin" /\ job.of = t /\ Adds(job) /\ phase[t] = "new"
                  /\ phase' = [phase EXCEPT ![t] = "preparing"]
                  /\ overlapped' \in BOOLEAN /\ UNCHANGED <<run, session, stored>>
            \/ \E job \in Job :
                  /\ job.kind = "info" /\ job.key = "runtime" /\ Formed(job) /\ Enqueue(job)
                  /\ session = "none" /\ session' = "open" /\ stored' = DistinctIds
                  /\ UNCHANGED <<phase, run, overlapped>>
            \/ \E t \in Task : /\ UNCHANGED <<executor, session, stored, overlapped>>
                              /\ run' = t /\ phase[t] = "ready"
                              /\ phase' = [phase EXCEPT ![t] = "running"]
            \/ \E job \in Job :
                  /\ Adds(job) /\ job.kind # "begin"
                  /\ UNCHANGED <<run, session, stored, overlapped>>
                  /\ \/ UNCHANGED phase
                     \/ \E t \in Task : /\ phase[t] = "ready"
                                       /\ phase' = [phase EXCEPT ![t] = "gone"]
<1> USE DEF Kind, Key, Status, Choice
<1>0. NoJob \in Job
  BY DEF NoJob, Job
<1>1. ASSUME NEW t \in Task, Submit(t)
      PROVE  \E job \in Job :
               /\ job.kind = "begin" /\ job.of = t /\ Adds(job) /\ phase[t] = "new"
               /\ phase' = [phase EXCEPT ![t] = "preparing"]
               /\ overlapped' \in BOOLEAN /\ UNCHANGED <<run, session, stored>>
               /\ UNCHANGED <<db, machine, boots, begun, under>>
  <2> DEFINE job == [NoJob EXCEPT !.kind = "begin", !.key = SubmitKey, !.of = t]
  <2>1. job \in Job /\ job.kind = "begin" /\ job.of = t /\ Formed(job)
    BY <1>0 DEF NoJob, Job, Formed, SubmitKey
  <2>2. session = "open" => ~PendingBegin(job)
    BY DEF PendingBegin, SubmitKey, NoJob
  <2>3. overlapped' \in BOOLEAN
    BY <1>1 DEF Submit, TypeOK
  <2> QED BY <2>1, <2>2, <2>3, <1>1 DEF Submit, Adds
<1>2. ASSUME OpenSession
      PROVE  \E job \in Job :
               /\ job.kind = "info" /\ job.key = "runtime" /\ Formed(job) /\ Enqueue(job)
               /\ session = "none" /\ session' = "open" /\ stored' = DistinctIds
               /\ UNCHANGED <<phase, run, overlapped>>
               /\ UNCHANGED <<db, machine, boots, begun, under>>
  <2> DEFINE job == [NoJob EXCEPT !.key = "runtime"]
  <2>1. job \in Job /\ job.kind = "info" /\ job.key = "runtime" /\ Formed(job)
    BY <1>0 DEF NoJob, Job, Formed
  <2> QED BY <2>1, <1>2 DEF OpenSession, history
<1>3. ASSUME NEW t \in Task, Deliver(t)
      PROVE  /\ UNCHANGED <<executor, session, stored, overlapped>>
             /\ run' = t /\ phase[t] = "ready" /\ phase' = [phase EXCEPT ![t] = "running"]
             /\ UNCHANGED <<db, machine, boots, begun, under>>
  BY <1>3 DEF Deliver, history
<1>4. ASSUME NEW t \in Task, Undeliver(t)
      PROVE  \E job \in Job :
               /\ Adds(job) /\ job.kind # "begin"
               /\ phase[t] = "ready" /\ phase' = [phase EXCEPT ![t] = "gone"]
               /\ UNCHANGED <<run, session, stored, overlapped>>
               /\ UNCHANGED <<db, machine, boots, begun, under>>
  <2> DEFINE job == [NoJob EXCEPT !.kind = "undelivered", !.key = ReportKey, !.of = t]
  <2>1. job \in Job /\ job.kind = "undelivered" /\ Formed(job)
    BY <1>0 DEF NoJob, Job, Formed, ReportKey, SubmitKey
  <2> QED BY <2>1, <1>4 DEF Undeliver, history, Adds, PendingBegin
<1>5. ASSUME NEW r \in Request, NEW c \in Choice, Answer(r, c)
      PROVE  \E job \in Job :
               /\ Adds(job) /\ job.kind # "begin"
               /\ UNCHANGED phase
               /\ UNCHANGED <<run, session, stored, overlapped>>
               /\ UNCHANGED <<db, machine, boots, begun, under>>
  <2> DEFINE job == [NoJob EXCEPT !.kind = "resolve", !.request = r, !.status = c]
  <2>1. job \in Job /\ job.kind = "resolve" /\ Formed(job)
    BY <1>0 DEF NoJob, Job, Formed
  <2> QED BY <2>1, <1>5 DEF Answer, desktop, history, Adds, PendingBegin
<1> QED
  BY <1>1, <1>2, <1>3, <1>4, <1>5 DEF Desktop

-----------------------------------------------------------------------------
(***************************************************************************)
(* Type correctness.                                                       *)
(***************************************************************************)

Phases == {"new", "preparing", "ready", "running", "completed", "gone"}

LEMMA EnqueueType ==
  ASSUME TypeOK, NEW job \in Job, Enqueue(job)
  PROVE  /\ queue' \in Seq(Job) /\ Len(queue') <= MaxQueue
         /\ UNCHANGED <<pc, cur, owner, unsettled, bound>>
<1>1. queue' \in Seq(Job) /\ Len(queue') <= MaxQueue
  BY Queued DEF TypeOK
<1> QED BY <1>1 DEF Enqueue

LEMMA WorldType ==
  ASSUME TypeOK, Desktop \/ Hermes
  PROVE  TypeOK'
<1>1. UNCHANGED <<db, machine, boots, begun, under>>
  BY HermesAdds, DesktopAdds DEF history
<1>2. /\ queue' \in Seq(Job) /\ Len(queue') <= MaxQueue
      /\ UNCHANGED <<pc, cur, owner, unsettled, bound>>
  <2>1. \/ UNCHANGED executor
        \/ \E job \in Job : Enqueue(job)
    BY HermesAdds, DesktopAdds DEF Adds
  <2>2. CASE UNCHANGED executor
    BY <2>2 DEF TypeOK, executor
  <2> QED BY <2>1, <2>2, EnqueueType
<1>3. /\ session' \in {"none", "open"} /\ stored' \in BOOLEAN /\ overlapped' \in BOOLEAN
      /\ run' \in Task \cup {None}
  <2>1. CASE Desktop
    BY <2>1, DesktopAdds, LedgerAssumption DEF TypeOK, LedgerAssumption
  <2>2. CASE Hermes
    BY <2>2, HermesAdds DEF TypeOK, history
  <2> QED BY <2>1, <2>2
<1>4. phase' \in [Task -> Phases]
  <2>1. \/ UNCHANGED phase
        \/ \E t \in Task, p \in Phases : phase' = [phase EXCEPT ![t] = p]
    BY HermesAdds, DesktopAdds DEF Phases
  <2> QED BY <2>1 DEF TypeOK, Phases
<1> QED
  BY <1>1, <1>2, <1>3, <1>4 DEF TypeOK, Phases, db, machine

\* A job that ends leaves the executor idle.
LEMMA JobDoneType ==
  ASSUME TypeOK, JobDone, bound' \in [Key -> Task \cup {None}]
  PROVE  /\ queue' \in Seq(Job) /\ Len(queue') <= MaxQueue
         /\ pc' \in Step /\ cur' \in Job /\ owner' \in Task \cup {None} /\ unsettled' \in BOOLEAN
BY DEF TypeOK, JobDone, Step, NoJob, Job, Kind, Key, Status

LEMMA GotoType ==
  ASSUME TypeOK, NEW s \in Step, Goto(s)
  PROVE  /\ queue' \in Seq(Job) /\ Len(queue') <= MaxQueue
         /\ pc' \in Step /\ cur' \in Job /\ owner' \in Task \cup {None} /\ unsettled' \in BOOLEAN
         /\ bound' \in [Key -> Task \cup {None}]
BY DEF TypeOK, Goto

\* How a job ends a task.
LEMMA EndTaskType ==
  ASSUME TypeOK, NEW t \in Task, NEW event \in {"finish", "interrupt"},
         NEW state \in OpenTask \cup ClosedTask, EndTask(t, event, state)
  PROVE  /\ task' \in [Task -> OpenTask \cup ClosedTask \cup {"none"}]
         /\ log' \subseteq LogKey
<1>1. <<event, t, state>> \in LogKey
  BY DEF LogKey
<1>2. \/ UNCHANGED <<task, log>>
      \/ task' = [task EXCEPT ![t] = state] /\ log' = log \cup {<<event, t, state>>}
  BY DEF EndTask
<1> QED BY <1>1, <1>2 DEF TypeOK

\* The outcome of an action, and the episode it was recorded in.
ActionRows == [Tool -> [state : ActionState, task : Task \cup {None},
                        request : Request \cup {None}]]

LEMMA ActionType ==
  ASSUME TypeOK, NEW a \in Tool, NEW s \in ActionState
  PROVE  [action EXCEPT ![a].state = s] \in ActionRows
<1>1. action \in ActionRows
  BY DEF TypeOK, ActionRows
<1>2. [action[a] EXCEPT !.state = s]
        \in [state : ActionState, task : Task \cup {None}, request : Request \cup {None}]
  BY <1>1 DEF ActionRows
<1> QED BY <1>1, <1>2 DEF ActionRows

LEMMA UnderType ==
  ASSUME TypeOK, NEW c \in Tool \cup Task
  PROVE  [under EXCEPT ![c] = episode] \in [Tool \cup Task -> 0..MaxEpisode]
<1>1. MaxEpisode \in Nat
  BY LedgerAssumption DEF LedgerAssumption
<1>2. episode \in 0..MaxEpisode
  BY <1>1 DEF TypeOK
<1> QED BY <1>2 DEF TypeOK

LEMMA RunOutcomeType ==
  /\ RunOutcome[1] \in {"finish", "interrupt"}
  /\ RunOutcome[2] \in {"completed", "completed_unverified", "cancelled", "interrupted"}
  /\ RunOutcome[2] = "completed" => ~unsettled
BY DEF RunOutcome

LEMMA ExecutorType ==
  ASSUME TypeOK, JobsFormed, Executor
  PROVE  TypeOK'
<1> USE DEF At, db, machine, desktop, history
<1>1. CASE Take
  <2>1. /\ queue' \in Seq(Job) /\ Len(queue') <= MaxQueue
        /\ Head(queue) \in Job
    BY <1>1, Taken, LedgerAssumption DEF Take, TypeOK, LedgerAssumption
  <2>2. cur' \in Job /\ pc' \in Step
    BY <1>1, <2>1 DEF Take, Job, Step
  <2>3. bound' \in [Key -> Task \cup {None}] /\ owner' \in Task \cup {None}
    BY <1>1, <2>1 DEF Take, TypeOK, BindPending, TaskFor, Job, Key
  <2> QED BY <1>1, <2>1, <2>2, <2>3 DEF Take, TypeOK
<1>2. CASE BeginTask
  <2>1. cur.of \in Task
    BY <1>2 DEF BeginTask, JobsFormed, Formed, StepsOf
  <2>2. task' \in [Task -> OpenTask \cup ClosedTask \cup {"none"}]
    BY <1>2 DEF BeginTask, TypeOK, OpenTask
  <2> QED BY <1>2, <2>1, <2>2 DEF BeginTask, TypeOK, Step
<1>3. CASE PreparePrompt
  BY <1>3, JobDoneType DEF PreparePrompt, TypeOK
<1>4. CASE ObserveInfo
  <2>1. task' \in [Task -> OpenTask \cup ClosedTask \cup {"none"}]
    BY <1>4 DEF ObserveInfo, TypeOK, OpenTask
  <2> QED BY <1>4, <2>1, JobDoneType DEF ObserveInfo, TypeOK
<1>5. CASE StartAction
  <2>1. action' \in [Tool -> [state : ActionState, task : Task \cup {None},
                              request : Request \cup {None}]]
    BY <1>5 DEF StartAction, TypeOK, ActionState, InDoubt, Job
  <2> QED BY <1>5, <2>1, JobDoneType DEF StartAction, TypeOK
<1>6. CASE FinishAction
  <2>1. /\ queue' \in Seq(Job) /\ Len(queue') <= MaxQueue
        /\ pc' \in Step /\ cur' \in Job /\ owner' \in Task \cup {None} /\ unsettled' \in BOOLEAN
        /\ bound' \in [Key -> Task \cup {None}]
    BY <1>6, GotoType DEF FinishAction, Step
  <2>2. /\ \/ UNCHANGED action
           \/ /\ cur.tool \in Tool
              /\ action' = [action EXCEPT ![cur.tool].state = Outcome(cur.status)]
        /\ \/ UNCHANGED under
           \/ cur.tool \in Tool /\ under' = [under EXCEPT ![cur.tool] = episode]
    BY <1>6 DEF FinishAction, TypeOK, Job
  <2>3. Outcome(cur.status) \in ActionState
    BY DEF Outcome, ActionState, Settled
  <2>4. action' \in ActionRows
    <3>1. action \in ActionRows
      BY DEF TypeOK, ActionRows
    <3> QED BY <2>2, <2>3, <3>1, ActionType
  <2>5. under' \in [Tool \cup Task -> 0..MaxEpisode]
    BY <2>2, UnderType DEF TypeOK
  <2> QED BY <1>6, <2>1, <2>4, <2>5 DEF FinishAction, TypeOK, ActionRows
<1>7. CASE ReferAction
  <2>1. cur.tool \in Tool
    BY <1>7 DEF ReferAction, JobsFormed
  <2>2. items' \subseteq (1..MaxEpisode) \X (Tool \cup Task)
    BY <1>7, <2>1, LedgerAssumption DEF ReferAction, Refer, TypeOK, LedgerAssumption
  <2> QED BY <1>7, <2>2, GotoType DEF ReferAction, TypeOK, Step
<1>8. CASE VerifyAction
  <2>1. \/ UNCHANGED action
        \/ /\ cur.target \in Tool
           /\ \E s \in {"verified", "verification_failed"} :
                action' = [action EXCEPT ![cur.target].state = s]
    BY <1>8 DEF VerifyAction, TypeOK, Job
  <2>2. action' \in ActionRows
    <3>1. action \in ActionRows /\ {"verified", "verification_failed"} \subseteq ActionState
      BY DEF TypeOK, ActionRows, ActionState, Settled
    <3> QED BY <2>1, <3>1, ActionType
  <2> QED BY <1>8, <2>2, JobDoneType DEF VerifyAction, TypeOK, ActionRows
<1>9. CASE FinishRun
  <2>1. cur.of \in Task
    BY <1>9 DEF FinishRun, JobsFormed, Formed, StepsOf
  <2>2. under' \in [Tool \cup Task -> 0..MaxEpisode]
    BY <1>9, <2>1, UnderType DEF FinishRun, TypeOK
  <2> QED BY <1>9, <2>2, GotoType DEF FinishRun, TypeOK, Step
<1>10. CASE ReferRun
  <2>1. cur.of \in Task
    BY <1>10 DEF ReferRun, JobsFormed, Formed
  <2>2. items' \subseteq (1..MaxEpisode) \X (Tool \cup Task)
    BY <1>10, <2>1, LedgerAssumption DEF ReferRun, Refer, TypeOK, LedgerAssumption
  <2> QED BY <1>10, <2>2, GotoType DEF ReferRun, TypeOK, Step
<1>11. CASE CountUnsettled
  <2>1. unsettled' \in BOOLEAN
    BY <1>11, Zenon DEF CountUnsettled
  <2> QED BY <1>11, <2>1 DEF CountUnsettled, TypeOK, Step
<1>12. CASE SettleTask
  <2>1. /\ task' \in [Task -> OpenTask \cup ClosedTask \cup {"none"}]
        /\ log' \subseteq LogKey
    <3>1. CASE owner = None
      BY <1>12, <3>1 DEF SettleTask, TypeOK
    <3>2. CASE owner # None
      <4>1. owner \in Task
        BY <3>2 DEF TypeOK
      <4>2. RunOutcome[2] \in OpenTask \cup ClosedTask
        BY RunOutcomeType DEF OpenTask, ClosedTask
      <4> QED BY <1>12, <3>2, <4>1, <4>2, RunOutcomeType, EndTaskType DEF SettleTask
    <3> QED BY <3>1, <3>2
  <2>2. bound' \in [Key -> Task \cup {None}]
    BY <1>12 DEF SettleTask, TypeOK
  <2> QED BY <1>12, <2>1, <2>2, JobDoneType DEF SettleTask, TypeOK
<1>13. CASE InterruptUndelivered
  <2>1. /\ task' \in [Task -> OpenTask \cup ClosedTask \cup {"none"}]
        /\ log' \subseteq LogKey
    <3>1. CASE owner = None
      BY <1>13, <3>1 DEF InterruptUndelivered, TypeOK
    <3>2. CASE owner # None
      BY <1>13, <3>2, EndTaskType DEF InterruptUndelivered, TypeOK, OpenTask
    <3> QED BY <3>1, <3>2
  <2> QED BY <1>13, <2>1, JobDoneType DEF InterruptUndelivered, TypeOK
<1>14. CASE RequestApproval
  <2>1. approval' \in [Request -> {"none", "open"} \cup Choice]
    BY <1>14 DEF RequestApproval, TypeOK
  <2> QED BY <1>14, <2>1, JobDoneType DEF RequestApproval, TypeOK
<1>15. CASE ResolveApproval
  <2>1. cur.status \in Choice
    BY <1>15 DEF ResolveApproval, JobsFormed, Formed, StepsOf
  <2>2. approval' \in [Request -> {"none", "open"} \cup Choice]
    BY <1>15, <2>1 DEF ResolveApproval, TypeOK
  <2> QED BY <1>15, <2>2, JobDoneType DEF ResolveApproval, TypeOK
<1> QED
  BY <1>1, <1>2, <1>3, <1>4, <1>5, <1>6, <1>7, <1>8, <1>9, <1>10, <1>11, <1>12,
     <1>13, <1>14, <1>15 DEF Executor

LEMMA OtherType ==
  ASSUME TypeOK, Degrade \/ EndEpisode \/ CleanRestart \/ CrashRestart
  PROVE  TypeOK'
<1> USE DEF db, executor, machine, desktop, history
<1>0. MaxEpisode \in Nat /\ MaxBoot \in Nat /\ MaxQueue \in Nat
  BY LedgerAssumption DEF LedgerAssumption
<1>1. CASE Degrade
  <2>1. episodes' \in 0..MaxEpisode /\ episode' \in 0..episodes'
    BY <1>0, <1>1 DEF Degrade, TypeOK
  <2> QED BY <1>1, <2>1 DEF Degrade, TypeOK
<1>2. CASE EndEpisode
  BY <1>0, <1>2 DEF EndEpisode, TypeOK
<1>3. ASSUME NewProcess
      PROVE  /\ queue' \in Seq(Job) /\ Len(queue') <= MaxQueue
             /\ pc' \in Step /\ cur' \in Job /\ owner' \in Task \cup {None}
             /\ unsettled' \in BOOLEAN /\ bound' \in [Key -> Task \cup {None}]
             /\ phase' \in [Task -> Phases] /\ boots' \in 0..MaxBoot
             /\ session' \in {"none", "open"} /\ begun' \subseteq Task
             /\ under' \in [Tool \cup Task -> 0..MaxEpisode]
             /\ UNCHANGED <<approval, items, log, machine, run, stored, overlapped>>
  <2>1. queue' \in Seq(Job) /\ Len(queue') <= MaxQueue
    BY <1>0, <1>3, EmptySeq DEF NewProcess
  <2>2. pc' \in Step /\ cur' \in Job /\ owner' \in Task \cup {None} /\ unsettled' \in BOOLEAN
    BY <1>3 DEF NewProcess, Step, NoJob, Job, Kind, Key, Status
  <2>3. boots' \in 0..MaxBoot
    BY <1>0, <1>3 DEF NewProcess, TypeOK
  <2>4. phase' \in [Task -> Phases]
    BY <1>3 DEF NewProcess, TypeOK, Phases
  <2> QED BY <1>0, <1>3, <2>1, <2>2, <2>3, <2>4 DEF NewProcess
<1>4. CASE CleanRestart
  BY <1>3, <1>4 DEF CleanRestart, TypeOK, Phases
<1>5. CASE CrashRestart
  <2>1. task' \in [Task -> OpenTask \cup ClosedTask \cup {"none"}]
    BY <1>5 DEF CrashRestart, TypeOK, OpenTask
  <2>2. action' \in ActionRows
    <3>1. ASSUME NEW a \in Tool
          PROVE  (IF action[a].state = "running" THEN [action[a] EXCEPT !.state = "uncertain"]
                  ELSE action[a])
                   \in [state : ActionState, task : Task \cup {None}, request : Request \cup {None}]
      BY DEF TypeOK, ActionState, InDoubt
    <3> QED BY <1>5, <3>1 DEF CrashRestart, ActionRows
  <2>3. NewProcess
    BY <1>5 DEF CrashRestart
  <2> QED BY <1>3, <2>1, <2>2, <2>3 DEF TypeOK, Phases, ActionRows
<1> QED
  BY <1>1, <1>2, <1>4, <1>5

LEMMA NextType ==
  ASSUME TypeOK, JobsFormed, [Next]_vars
  PROVE  TypeOK'
<1>1. CASE UNCHANGED vars
  BY <1>1 DEF TypeOK, vars, db, executor, machine, desktop, history
<1> QED
  BY <1>1, WorldType, ExecutorType, OtherType DEF Next

LEMMA InitType == Init => TypeOK
<1> SUFFICES ASSUME Init PROVE TypeOK
  OBVIOUS
<1>1. MaxEpisode \in Nat /\ MaxBoot \in Nat /\ MaxQueue \in Nat
  BY LedgerAssumption DEF LedgerAssumption
<1>2. queue \in Seq(Job) /\ Len(queue) <= MaxQueue
  BY <1>1, EmptySeq DEF Init
<1>3. cur \in Job
  BY DEF Init, NoJob, Job, Kind, Key, Status
<1>4. unsettled \in BOOLEAN /\ stored \in BOOLEAN /\ overlapped \in BOOLEAN
  BY Zenon DEF Init
<1>5. action \in ActionRows
  BY DEF Init, ActionRows, ActionState
<1> QED
  BY <1>1, <1>2, <1>3, <1>4, <1>5 DEF Init, TypeOK, Step, ActionRows

-----------------------------------------------------------------------------
(***************************************************************************)
(* The invariant.                                                          *)
(***************************************************************************)

\* What kind of job has which steps.
LEMMA StepKind ==
  ASSUME IInv, pc # "idle"
  PROVE  /\ Formed(cur) /\ cur.kind \in Kind /\ cur.key \in Key
         /\ pc \in Kind => cur.kind = pc
         /\ pc = "prepare" => cur.kind = "begin"
         /\ pc = "refer" => cur.kind \in {"result", "complete"}
         /\ pc = "verify" => cur.kind = "result"
         /\ pc \in {"count", "settle"} => cur.kind = "complete"
<1>1. cur.kind \in Kind /\ cur.key \in Key
  BY DEF IInv, TypeOK, Job
<1> QED BY <1>1 DEF IInv, JobsFormed, StepsOf, Kind

\* No task appears, or is begun again, and none that is open is closed.
RowsKept ==
  /\ \A t \in Task : phase'[t] = "new" => phase[t] = "new"
  /\ \A t \in Task : task'[t] = "none" <=> task[t] = "none"
  /\ \A t \in Task : task[t] \in OpenTask => task'[t] \in OpenTask

\* The end of a job that closes no task.
LEMMA JobDoneKeeps ==
  ASSUME IInv, JobDone, UNCHANGED <<bound, session>>, RowsKept
  PROVE  JobsFormed' /\ BeginsFresh' /\ BoundOpen' /\ BoundOnce' /\ PendingFirst'
         /\ Charged' /\ Counted'
<1>1. pc' = "idle" /\ owner' = None /\ queue' = queue
  BY DEF JobDone
<1>2. JobsFormed'
  BY <1>1 DEF IInv, JobsFormed
<1>3. BeginsFresh'
  <2>1. ASSUME NEW i \in 1..Len(queue), queue[i].kind = "begin" PROVE queue[i].of \in Task
    BY <2>1 DEF IInv, JobsFormed, Formed
  <2> QED BY <1>1, <2>1 DEF IInv, BeginsFresh, RowsKept
<1>4. BoundOpen'
  BY <1>1 DEF IInv, BoundOpen, RowsKept, TypeOK
<1>5. BoundOnce' /\ Charged' /\ Counted'
  BY <1>1 DEF IInv, BoundOnce, Charged, Counted
<1>6. PendingFirst'
  BY <1>1 DEF IInv, PendingFirst, NonePending, NoneComplete, InfoFirst
<1> QED
  BY <1>2, <1>3, <1>4, <1>5, <1>6

\* A step within a job that changes no task and binds none.
LEMMA GotoKeeps ==
  ASSUME IInv, NEW s \in StepsOf(cur.kind) \ {"begin", "idle", "settle"}, Goto(s), pc # "idle",
         s = "refer" /\ cur.kind = "result" => cur.tool \in Tool,
         UNCHANGED <<task, phase, session>>
  PROVE  JobsFormed' /\ BeginsFresh' /\ BoundOpen' /\ BoundOnce' /\ PendingFirst'
         /\ Charged' /\ Counted'
<1>1. pc' = s /\ UNCHANGED <<queue, cur, owner, bound>>
  BY DEF Goto
<1>2. JobsFormed'
  BY <1>1 DEF IInv, JobsFormed
<1>3. BeginsFresh' /\ BoundOpen' /\ BoundOnce' /\ Charged' /\ Counted'
  BY <1>1 DEF IInv, BeginsFresh, BoundOpen, BoundOnce, Charged, Counted
<1>4. PendingFirst'
  BY <1>1 DEF IInv, PendingFirst, NonePending, NoneComplete, InfoFirst
<1> QED
  BY <1>2, <1>3, <1>4

\* The job at the head of the queue begins.
LEMMA TakeKeeps ==
  ASSUME IInv, Take
  PROVE  JobsFormed' /\ BeginsFresh' /\ BoundOpen' /\ BoundOnce' /\ PendingFirst'
         /\ Charged' /\ Counted'
<1> DEFINE job == queue[1]
<1>1. /\ queue' \in Seq(Job) /\ job \in Job
      /\ Len(queue) \in Nat \ {0} /\ Len(queue') = Len(queue) - 1
      /\ \A i \in 1..Len(queue') : queue'[i] = queue[i + 1]
      /\ cur' = job /\ pc' = job.kind
      /\ bound' = IF job.kind = "info" THEN BindPending(job.key) ELSE bound
      /\ owner' = IF job.kind = "info" THEN bound'[job.key] ELSE TaskFor(job.key)
      /\ UNCHANGED <<task, action, phase, session>>
  BY Taken DEF Take, IInv, TypeOK, db, desktop
<1>2. job.kind \in Kind /\ job.key \in Key /\ Formed(job) /\ 1 \in 1..Len(queue)
  BY <1>1 DEF IInv, JobsFormed, Job
<1>3. \A i \in 1..Len(queue') : i + 1 \in 1..Len(queue) /\ i + 1 # 1
  BY <1>1
<1>4. JobsFormed'
  BY <1>1, <1>2, <1>3 DEF IInv, JobsFormed, StepsOf, Kind
<1>5. BeginsFresh'
  <2>1. ASSUME NEW i \in 1..Len(queue'), queue'[i].kind = "begin"
        PROVE  /\ phase'[queue'[i].of] # "new" /\ task'[queue'[i].of] = "none"
               /\ \A j \in 1..Len(queue') :
                    queue'[j].kind = "begin" /\ queue'[j].of = queue'[i].of => j = i
    <3>1. /\ phase'[queue'[i].of] # "new" /\ task'[queue'[i].of] = "none"
      BY <2>1, <1>1, <1>3 DEF IInv, BeginsFresh
    <3>2. ASSUME NEW j \in 1..Len(queue'), queue'[j].kind = "begin", queue'[j].of = queue'[i].of
          PROVE  j = i
      <4>1. j + 1 = i + 1
        BY <2>1, <3>2, <1>1, <1>3 DEF IInv, BeginsFresh
      <4> QED BY <4>1, <1>1
    <3> QED BY <3>1, <3>2
  <2>2. ASSUME job.kind = "begin"
        PROVE  /\ phase'[job.of] # "new" /\ task'[job.of] = "none"
               /\ \A j \in 1..Len(queue') : queue'[j].kind = "begin" => queue'[j].of # job.of
    BY <2>2, <1>1, <1>2, <1>3 DEF IInv, BeginsFresh
  <2> QED BY <2>1, <2>2, <1>1 DEF IInv, BeginsFresh
<1>6. /\ BoundOpen' /\ BoundOnce'
      /\ job.kind = "info" => bound'["pending"] = None
  <2>1. bound \in [Key -> Task \cup {None}] /\ {"pending", "runtime"} \subseteq Key
    BY DEF IInv, TypeOK, Key
  <2>2. CASE job.kind # "info"
    BY <2>1, <2>2, <1>1, <1>2 DEF IInv, BoundOpen, BoundOnce, TaskFor
  <2>3. CASE job.kind = "info"
    <3>1. bound' = BindPending("runtime") /\ owner' = bound'["runtime"]
      BY <2>3, <1>1, <1>2 DEF Formed
    <3>2. \A k \in Key :
            \/ bound'[k] = None
            \/ /\ bound'[k] = bound[k] /\ k # "pending"
               /\ k = "runtime" => bound["pending"] = None
            \/ k = "runtime" /\ bound'[k] = bound["pending"]
      BY <2>1, <3>1 DEF BindPending
    <3>3. bound'["pending"] = None
      BY <2>1, <3>1 DEF BindPending
    <3> QED BY <2>1, <3>1, <3>2, <3>3, <1>1 DEF IInv, BoundOpen, BoundOnce
  <2> QED BY <2>2, <2>3
<1>7. /\ PendingFirst'
      /\ job.kind = "complete" => session = "open" /\ bound["pending"] = None
  <2>1. CASE session = "none"
    <3>1. \A i \in 1..Len(queue) : queue[i].kind # "complete"
      BY <2>1 DEF IInv, PendingFirst
    <3> QED BY <2>1, <3>1, <1>1, <1>2, <1>3 DEF PendingFirst, NoneComplete
  <2>2. CASE session = "open" /\ NonePending
    <3>1. NonePending'
      BY <2>2, <1>1, <1>2, <1>3, <1>6 DEF NonePending, PendingBegin
    <3> QED BY <2>2, <3>1, <1>1 DEF PendingFirst, NonePending
  <2>3. CASE session = "open" /\ NoneComplete /\ \E i \in 1..Len(queue) : InfoFirst(queue, i)
    <3>1. PICK i \in 1..Len(queue) : InfoFirst(queue, i)
      BY <2>3
    <3>2. CASE i = 1
      <4>1. NonePending'
        BY <3>1, <3>2, <1>1, <1>2, <1>3, <1>6 DEF InfoFirst, NonePending, PendingBegin
      <4> QED BY <2>3, <4>1, <3>1, <3>2, <1>1 DEF PendingFirst, InfoFirst
    <3>3. CASE i # 1
      <4>1. job.kind # "complete"
        BY <3>1, <3>3, <1>2 DEF InfoFirst
      <4>2. i - 1 \in 1..Len(queue') /\ (i - 1) + 1 = i
        BY <3>3, <1>1
      <4>3. InfoFirst(queue', i - 1)
        BY <3>1, <4>2, <1>1, <1>3 DEF InfoFirst
      <4> QED BY <2>3, <4>1, <4>2, <4>3, <1>1 DEF PendingFirst, NoneComplete
    <3> QED BY <3>2, <3>3
  <2> QED BY <2>1, <2>2, <2>3 DEF IInv, PendingFirst, TypeOK
<1>8. Charged'
  BY <1>1, <1>2, <1>7 DEF Charged, Formed, TaskFor
<1>9. Counted'
  BY <1>1, <1>2 DEF Counted, Kind
<1> QED
  BY <1>4, <1>5, <1>6, <1>7, <1>8, <1>9

\* The end of a run takes its task off the table when it closes it.
LEMMA SettleKeeps ==
  ASSUME IInv, SettleTask
  PROVE  JobsFormed' /\ BeginsFresh' /\ BoundOpen' /\ BoundOnce' /\ PendingFirst'
         /\ Charged' /\ Counted'
<1>1. CASE owner = None
  <2>1. UNCHANGED <<bound, session, task, phase>> /\ JobDone
    BY <1>1 DEF SettleTask, desktop
  <2> QED BY <2>1, JobDoneKeeps DEF RowsKept
<1>2. CASE owner # None
  <2>1. /\ pc' = "idle" /\ owner' = None /\ UNCHANGED <<queue, phase, session>>
    BY <1>2 DEF SettleTask, JobDone, desktop
  <2>2. /\ cur.kind = "complete" /\ cur.key = "runtime" /\ owner = bound["runtime"]
        /\ owner \in Task /\ task[owner] \in OpenTask
    BY <1>2, StepKind DEF SettleTask, At, IInv, Formed, Charged, BoundOpen, TypeOK
  <2>3. bound' = [bound EXCEPT !["runtime"] = None]
    <3>1. ~Raises(owner, RunOutcome[1], RunOutcome[2])
      BY <2>2 DEF Raises, OpenTask, ClosedTask
    <3> QED BY <1>2, <2>2, <3>1 DEF SettleTask
  <2>4. \A t \in Task : t # owner => task'[t] = task[t]
    BY <1>2, <2>2 DEF SettleTask, EndTask, IInv, TypeOK
  <2>5. task'[owner] # "none"
    BY <1>2, <2>2, RunOutcomeType DEF SettleTask, EndTask, IInv, TypeOK, OpenTask
  <2>6. JobsFormed'
    BY <2>1 DEF IInv, JobsFormed
  <2>7. BeginsFresh'
    <3>1. \A t \in Task : task[t] = "none" => task'[t] = "none"
      BY <2>2, <2>4 DEF OpenTask
    <3>2. ASSUME NEW i \in 1..Len(queue), queue[i].kind = "begin" PROVE queue[i].of \in Task
      BY <3>2 DEF IInv, JobsFormed, Formed
    <3> QED BY <2>1, <3>1, <3>2 DEF IInv, BeginsFresh
  <2>8. BoundOpen'
    <3>1. ASSUME NEW k \in Key, bound'[k] # None
          PROVE  bound'[k] \in Task /\ bound'[k] # owner /\ task[bound'[k]] \in OpenTask
      <4>1. "runtime" \in Key /\ bound \in [Key -> Task \cup {None}]
        BY DEF Key, IInv, TypeOK
      <4>2. k # "runtime" /\ bound'[k] = bound[k]
        BY <2>3, <3>1, <4>1
      <4> QED BY <1>2, <2>2, <3>1, <4>1, <4>2 DEF IInv, BoundOnce, BoundOpen
    <3> QED BY <2>1, <2>4, <3>1 DEF BoundOpen
  <2>9. BoundOnce'
    BY <2>3 DEF IInv, BoundOnce, TypeOK
  <2>10. PendingFirst'
    <3>1. bound'["pending"] = bound["pending"]
      BY <2>3
    <3> QED BY <2>1, <3>1 DEF IInv, PendingFirst, NonePending, NoneComplete, InfoFirst
  <2> QED BY <2>1, <2>6, <2>7, <2>8, <2>9, <2>10 DEF Charged, Counted
<1> QED
  BY <1>1, <1>2

\* A new task is on no other place of the table.
LEMMA BeginKeeps ==
  ASSUME IInv, BeginTask
  PROVE  JobsFormed' /\ BeginsFresh' /\ BoundOpen' /\ BoundOnce' /\ PendingFirst'
         /\ Charged' /\ Counted'
<1>1. /\ cur.kind = "begin" /\ cur.of \in Task /\ task[cur.of] = "none" /\ phase[cur.of] # "new"
      /\ pc = "begin" /\ pc' = "prepare" /\ cur.key \in Key
      /\ task' = [task EXCEPT ![cur.of] = "active"]
      /\ bound' = [bound EXCEPT ![cur.key] = cur.of]
      /\ UNCHANGED <<queue, cur, owner, phase, session>>
  BY DEF BeginTask, At, IInv, JobsFormed, StepsOf, Formed, BeginsFresh, TypeOK, Job, desktop
<1>2. JobsFormed'
  BY <1>1 DEF IInv, JobsFormed, StepsOf
<1>3. BeginsFresh'
  <2>1. \A t \in Task : t # cur.of => task'[t] = task[t]
    BY <1>1 DEF IInv, TypeOK
  <2>2. ASSUME NEW i \in 1..Len(queue), queue[i].kind = "begin"
        PROVE  queue[i].of \in Task /\ queue[i].of # cur.of
    BY <1>1, <2>2 DEF IInv, JobsFormed, Formed, BeginsFresh
  <2> QED BY <1>1, <2>1, <2>2 DEF IInv, BeginsFresh
<1>4. BoundOpen' /\ BoundOnce'
  <2>1. \A t \in Task : task'[t] = IF t = cur.of THEN "active" ELSE task[t]
    BY <1>1 DEF IInv, TypeOK
  <2>2. \A k \in Key : /\ bound[k] \in Task \cup {None} /\ bound[k] # cur.of
                      /\ bound'[k] = IF k = cur.key THEN cur.of ELSE bound[k]
    BY ZenonT(30), <1>1, LedgerAssumption DEF IInv, TypeOK, BoundOpen, OpenTask, LedgerAssumption
  <2>3. owner \in Task \cup {None}
    BY DEF IInv, TypeOK
  <2> QED BY <1>1, <2>1, <2>2, <2>3 DEF IInv, BoundOpen, BoundOnce, OpenTask
<1>5. PendingFirst'
  <2>1. cur.key # "pending" => bound'["pending"] = bound["pending"]
    BY <1>1
  <2> QED BY <1>1, <2>1 DEF IInv, PendingFirst, NonePending, NoneComplete, InfoFirst
<1> QED
  BY <1>1, <1>2, <1>3, <1>4, <1>5 DEF Charged, Counted

LEMMA ExecutorKeeps ==
  ASSUME IInv, Executor
  PROVE  JobsFormed' /\ BeginsFresh' /\ BoundOpen' /\ BoundOnce' /\ PendingFirst'
         /\ Charged' /\ Counted'
<1> USE DEF At, db, machine, desktop, history
<1>1. CASE PreparePrompt
  <2>1. UNCHANGED <<bound, session, task>> /\ JobDone
    BY <1>1 DEF PreparePrompt
  <2>2. \A t \in Task : phase'[t] = "new" => phase[t] = "new"
    BY <1>1 DEF PreparePrompt, IInv, TypeOK
  <2> QED BY <2>1, <2>2, JobDoneKeeps DEF RowsKept
<1>2. CASE ObserveInfo
  <2>1. UNCHANGED <<bound, session, phase>> /\ JobDone
    BY <1>2 DEF ObserveInfo
  <2>2. \A t \in Task : task'[t] = task[t] \/ (task[t] \in OpenTask /\ task'[t] \in OpenTask)
    BY <1>2 DEF ObserveInfo, IInv, TypeOK, BoundOpen, OpenTask
  <2> QED BY <2>1, <2>2, JobDoneKeeps DEF RowsKept, OpenTask
<1>3. CASE StartAction \/ VerifyAction \/ RequestApproval \/ ResolveApproval
  <2>1. UNCHANGED <<bound, session, phase, task>> /\ JobDone
    BY <1>3 DEF StartAction, VerifyAction, RequestApproval, ResolveApproval
  <2> QED BY <2>1, JobDoneKeeps DEF RowsKept
<1>4. CASE InterruptUndelivered
  <2>1. UNCHANGED <<bound, session, phase>> /\ JobDone
    BY <1>4 DEF InterruptUndelivered
  <2>2. \A t \in Task : task'[t] = task[t] \/ (task[t] \in OpenTask /\ task'[t] \in OpenTask)
    BY <1>4 DEF InterruptUndelivered, EndTask, IInv, TypeOK, BoundOpen, OpenTask
  <2> QED BY <2>1, <2>2, JobDoneKeeps DEF RowsKept, OpenTask
<1>5. CASE FinishAction
  <2>1. pc = "result" /\ cur.kind = "result"
    BY <1>5, StepKind DEF FinishAction, Kind
  <2>2. PICK s \in {"refer", "verify"} : Goto(s) /\ (s = "refer" => cur.tool # None)
    BY <1>5 DEF FinishAction
  <2>3. s = "refer" => cur.tool \in Tool
    BY <2>2 DEF IInv, TypeOK, Job
  <2> QED BY <1>5, <2>1, <2>2, <2>3, GotoKeeps DEF FinishAction, StepsOf
<1>6. CASE ReferAction
  BY <1>6, GotoKeeps DEF ReferAction, StepsOf
<1>7. CASE FinishRun
  <2>1. pc = "complete" /\ cur.kind = "complete"
    BY <1>7, StepKind DEF FinishRun, Kind
  <2> QED BY <1>7, <2>1, GotoKeeps DEF FinishRun, StepsOf
<1>8. CASE ReferRun
  BY <1>8, GotoKeeps DEF ReferRun, StepsOf
<1>9. CASE CountUnsettled
  <2>1. /\ pc = "count" /\ pc' = "settle" /\ cur.kind = "complete"
        /\ unsettled' = \E a \in Tool : action[a].task = owner /\ action[a].state \notin Settled
        /\ UNCHANGED <<queue, cur, owner, bound, task, action, phase, session>>
    BY <1>9, StepKind DEF CountUnsettled
  <2>2. JobsFormed'
    BY <2>1 DEF IInv, JobsFormed, StepsOf
  <2>3. BeginsFresh' /\ BoundOpen' /\ BoundOnce' /\ Charged'
    BY <2>1 DEF IInv, BeginsFresh, BoundOpen, BoundOnce, Charged
  <2>4. PendingFirst'
    BY <2>1 DEF IInv, PendingFirst, NonePending, NoneComplete, InfoFirst
  <2>5. Counted'
    BY <2>1 DEF Counted
  <2> QED BY <2>2, <2>3, <2>4, <2>5
<1> QED
  BY <1>1, <1>2, <1>3, <1>4, <1>5, <1>6, <1>7, <1>8, <1>9,
     TakeKeeps, SettleKeeps, BeginKeeps DEF Executor

\* The desktop and Hermes: a job more, or none.
LEMMA WorldKeeps ==
  ASSUME IInv, Desktop \/ Hermes
  PROVE  JobsFormed' /\ BeginsFresh' /\ BoundOpen' /\ BoundOnce' /\ PendingFirst'
         /\ Charged' /\ Counted'
<1>0. TypeOK /\ UNCHANGED <<task, action>> /\ phase \in [Task -> Phases]
  BY HermesAdds, DesktopAdds DEF IInv, db, TypeOK, Phases
<1>1. ASSUME NEW job \in Job, Adds(job), session' = session, job.kind # "begin",
             \A t \in Task : phase'[t] = "new" => phase[t] = "new"
      PROVE  JobsFormed' /\ BeginsFresh' /\ BoundOpen' /\ BoundOnce' /\ PendingFirst'
             /\ Charged' /\ Counted'
  BY <1>0, <1>1, AddKeepsRows, AddKeepsPending DEF Adds
<1>2. ASSUME UNCHANGED executor, session' = session,
             \A t \in Task : phase'[t] = "new" => phase[t] = "new"
      PROVE  JobsFormed' /\ BeginsFresh' /\ BoundOpen' /\ BoundOnce' /\ PendingFirst'
             /\ Charged' /\ Counted'
  <2>1. UNCHANGED <<queue, pc, cur, owner, unsettled, bound>>
    BY <1>2 DEF executor
  <2>2. JobsFormed' /\ BoundOpen' /\ BoundOnce' /\ Charged' /\ Counted'
    BY <1>0, <2>1 DEF IInv, JobsFormed, BoundOpen, BoundOnce, Charged, Counted
  <2>3. BeginsFresh'
    <3>1. ASSUME NEW i \in 1..Len(queue), queue[i].kind = "begin" PROVE queue[i].of \in Task
      BY <3>1 DEF IInv, JobsFormed, Formed
    <3>2. pc = "begin" => cur.of \in Task
      BY StepKind DEF Kind, Formed
    <3> QED BY <1>0, <1>2, <2>1, <3>1, <3>2 DEF IInv, BeginsFresh
  <2>4. PendingFirst'
    BY <1>2, <2>1 DEF IInv, PendingFirst, NonePending, NoneComplete, InfoFirst
  <2> QED BY <2>2, <2>3, <2>4
<1>3. CASE Hermes
  <2>1. /\ session' = session
        /\ UNCHANGED executor \/ \E job \in Job : Adds(job) /\ job.kind # "begin"
    BY <1>0, <1>3, HermesAdds
  <2>2. \A t \in Task : phase'[t] = "new" => phase[t] = "new"
    BY <1>0, <1>3, HermesAdds
  <2> QED BY <1>1, <1>2, <2>1, <2>2
<1>4. CASE Desktop
  <2>1. ASSUME NEW t \in Task, NEW job \in Job, job.kind = "begin", job.of = t, Adds(job),
               phase[t] = "new", phase' = [phase EXCEPT ![t] = "preparing"], session' = session
        PROVE  JobsFormed' /\ BeginsFresh' /\ BoundOpen' /\ BoundOnce' /\ PendingFirst'
               /\ Charged' /\ Counted'
    <3>1. \A u \in Task : phase'[u] = "new" => phase[u] = "new" /\ u # t
      BY <1>0, <2>1
    <3> QED BY <1>0, <2>1, <3>1, AddKeepsRows, AddKeepsPending DEF Adds
  <2>2. ASSUME NEW job \in Job, job.kind = "info", Formed(job), Enqueue(job), UNCHANGED phase,
               session = "none", session' = "open"
        PROVE  JobsFormed' /\ BeginsFresh' /\ BoundOpen' /\ BoundOnce' /\ PendingFirst'
               /\ Charged' /\ Counted'
    <3>1. /\ Len(queue) \in Nat /\ Len(queue') = Len(queue) + 1
          /\ queue'[Len(queue) + 1] = job
          /\ \A i \in 1..Len(queue) : queue'[i] = queue[i]
          /\ UNCHANGED <<pc, cur>>
      BY <1>0, <2>2, Queued DEF TypeOK, Enqueue
    <3>2. NoneComplete /\ \A i \in 1..Len(queue) : queue[i].kind # "complete"
      BY <2>2 DEF IInv, PendingFirst
    <3>3. Len(queue) + 1 \in 1..Len(queue') /\ InfoFirst(queue', Len(queue) + 1)
      BY <2>2, <3>1, <3>2 DEF InfoFirst
    <3>4. PendingFirst'
      BY <2>2, <3>1, <3>2, <3>3 DEF PendingFirst, NoneComplete
    <3> QED BY <1>0, <2>2, <3>4, AddKeepsRows
  <2>3. ASSUME NEW t \in Task, phase[t] = "ready", session' = session,
               \E s \in {"running", "gone"} : phase' = [phase EXCEPT ![t] = s]
        PROVE  \A u \in Task : phase'[u] = "new" => phase[u] = "new"
    BY <1>0, <2>3
  <2> QED BY <1>1, <1>2, <1>4, <2>1, <2>2, <2>3, DesktopAdds DEF IInv
<1> QED
  BY <1>3, <1>4

LEMMA OtherKeeps ==
  ASSUME IInv, Degrade \/ EndEpisode \/ CleanRestart \/ CrashRestart \/ UNCHANGED vars
  PROVE  JobsFormed' /\ BeginsFresh' /\ BoundOpen' /\ BoundOnce' /\ PendingFirst'
         /\ Charged' /\ Counted'
<1>1. CASE Degrade \/ EndEpisode \/ UNCHANGED vars
  <2>1. UNCHANGED <<queue, pc, cur, owner, unsettled, bound, task, action, phase, session>>
    BY <1>1 DEF Degrade, EndEpisode, vars, db, executor, desktop
  <2>2. JobsFormed' /\ BeginsFresh' /\ BoundOpen' /\ BoundOnce' /\ Charged' /\ Counted'
    BY <2>1 DEF IInv, JobsFormed, BeginsFresh, BoundOpen, BoundOnce, Charged, Counted
  <2>3. PendingFirst'
    BY <2>1 DEF IInv, PendingFirst, NonePending, NoneComplete, InfoFirst
  <2> QED BY <2>2, <2>3
<1>2. CASE CleanRestart \/ CrashRestart
  <2>1. /\ queue' = <<>> /\ Len(queue') = 0 /\ pc' = "idle" /\ owner' = None /\ session' = "none"
        /\ bound' = [k \in Key |-> None]
        /\ \A t \in Task : phase'[t] = "new" => phase[t] = "new"
        /\ \A t \in Task : task[t] = "none" => task'[t] = "none"
    BY <1>2, EmptySeq DEF CleanRestart, CrashRestart, NewProcess, IInv, TypeOK
  <2> QED BY <2>1 DEF IInv, JobsFormed, BeginsFresh, BoundOpen, BoundOnce, PendingFirst,
                      NoneComplete, Charged, Counted
<1> QED
  BY <1>1, <1>2

LEMMA NextInv == IInv /\ [Next]_vars => IInv'
<1> SUFFICES ASSUME IInv, [Next]_vars PROVE IInv'
  OBVIOUS
<1>1. TypeOK'
  BY NextType DEF IInv
<1>2. JobsFormed' /\ BeginsFresh' /\ BoundOpen' /\ BoundOnce' /\ PendingFirst' /\ Charged' /\ Counted'
  BY ExecutorKeeps, WorldKeeps, OtherKeeps DEF Next
<1> QED
  BY <1>1, <1>2 DEF IInv

LEMMA InitInv == Init => IInv
<1> SUFFICES ASSUME Init PROVE IInv
  OBVIOUS
<1>1. TypeOK
  BY InitType
<1>2. Len(queue) = 0 /\ pc = "idle" /\ owner = None /\ session = "none"
  BY EmptySeq DEF Init
<1>3. JobsFormed /\ BeginsFresh /\ PendingFirst /\ Charged /\ Counted
  BY <1>2 DEF Init, JobsFormed, BeginsFresh, PendingFirst, NoneComplete, Charged, Counted
<1>4. BoundOpen /\ BoundOnce
  BY <1>2 DEF Init, BoundOpen, BoundOnce
<1> QED
  BY <1>1, <1>3, <1>4 DEF IInv

LEMMA Invariant == Spec => []IInv
<1> QED BY InitInv, NextInv, PTL DEF Spec

\* Rows, jobs and history keep their types in every behaviour.
THEOREM TypeCorrect == Spec => []TypeOK
<1>1. IInv => TypeOK
  BY DEF IInv
<1> QED BY <1>1, Invariant, PTL

-----------------------------------------------------------------------------
(***************************************************************************)
(* Ledger implements LedgerPromise.                                        *)
(***************************************************************************)

LEMMA InitPromise == Init => Promise!Init
BY DEF Init, Promise!Init, Promise!NoAction

\* What closes a task: the count that was taken still holds.
LEMMA SettlePromise ==
  ASSUME IInv, SettleTask
  PROVE  Promise!Next \/ UNCHANGED <<task, action, approval>>
<1>1. UNCHANGED <<action, approval>>
  BY DEF SettleTask
<1>2. CASE UNCHANGED task
  BY <1>1, <1>2
<1>3. CASE ~UNCHANGED task
  <2>1. /\ owner \in Task /\ task[owner] \in OpenTask
        /\ task' = [task EXCEPT ![owner] = RunOutcome[2]]
    BY <1>3 DEF SettleTask, EndTask, IInv, TypeOK, BoundOpen
  <2>2. CASE RunOutcome[2] = "completed"
    <3>1. \A a \in Tool : action[a].task = owner => action[a].state \in Settled
      BY <2>1, <2>2, RunOutcomeType, LedgerAssumption
         DEF SettleTask, At, IInv, Counted, LedgerAssumption
    <3>2. Promise!Complete(owner)
      BY <1>1, <2>1, <2>2, <3>1 DEF Promise!Complete, Promise!OpenTask, OpenTask, Promise!Settled, Settled
    <3> QED BY <2>1, <3>2 DEF Promise!Next
  <2>3. CASE RunOutcome[2] # "completed"
    <3>1. RunOutcome[2] \in (Promise!OpenTask \ {"active"}) \cup {"cancelled"}
      BY <2>3, RunOutcomeType DEF Promise!OpenTask
    <3>2. Promise!Advance(owner, RunOutcome[2])
      BY <1>1, <2>1 DEF Promise!Advance, Promise!OpenTask, OpenTask
    <3> QED BY <2>1, <3>1, <3>2 DEF Promise!Next
  <2> QED BY <2>2, <2>3
<1> QED
  BY <1>2, <1>3

LEMMA ExecutorPromise ==
  ASSUME IInv, Executor
  PROVE  Promise!Next \/ UNCHANGED <<task, action, approval>>
<1> USE DEF At, db, IInv, TypeOK
<1>1. CASE Take \/ PreparePrompt \/ ReferAction \/ FinishRun \/ ReferRun \/ CountUnsettled
  BY <1>1 DEF Take, PreparePrompt, ReferAction, FinishRun, ReferRun, CountUnsettled
<1>2. CASE BeginTask
  <2>1. cur.of \in Task /\ task[cur.of] = "none"
    BY <1>2, StepKind DEF BeginTask, BeginsFresh, Kind, Formed
  <2>2. Promise!Create(cur.of)
    BY <1>2, <2>1 DEF BeginTask, Promise!Create
  <2> QED BY <2>1, <2>2 DEF Promise!Next
<1>3. CASE ObserveInfo
  <2>1. CASE UNCHANGED task
    BY <1>3, <2>1 DEF ObserveInfo
  <2>2. CASE ~UNCHANGED task
    <3>1. owner \in Task /\ task[owner] \in OpenTask
      BY <1>3, <2>2 DEF ObserveInfo, BoundOpen
    <3>2. Promise!Advance(owner, "checkpoint_required")
      BY <1>3, <2>2, <3>1 DEF ObserveInfo, Promise!Advance, Promise!OpenTask, OpenTask
    <3> QED BY <3>1, <3>2 DEF Promise!Next, Promise!OpenTask
  <2> QED BY <2>1, <2>2
<1>4. CASE StartAction
  <2>1. CASE UNCHANGED action
    BY <1>4, <2>1 DEF StartAction
  <2>2. CASE ~UNCHANGED action
    <3>1. cur.tool \in Tool /\ action[cur.tool].state = "none"
      BY <1>4, <2>2, StepKind DEF StartAction, Kind, Formed
    <3>2. PICK r \in Request \cup {None} :
            action' = [action EXCEPT ![cur.tool] = [state |-> "running", task |-> owner, request |-> r]]
      BY <1>4, <2>2 DEF StartAction, Job
    <3>3. owner \in Task \cup {None} /\ (owner # None => task[owner] \in OpenTask)
      BY DEF BoundOpen
    <3>4. Promise!Begin(cur.tool, owner, r)
      BY <1>4, <3>1, <3>2, <3>3 DEF StartAction, Promise!Begin, Promise!OpenTask, OpenTask
    <3> QED BY <3>1, <3>2, <3>3, <3>4 DEF Promise!Next
  <2> QED BY <2>1, <2>2
<1>5. CASE FinishAction
  <2>1. CASE UNCHANGED action
    BY <1>5, <2>1 DEF FinishAction
  <2>2. CASE ~UNCHANGED action
    <3>1. /\ cur.tool \in Tool /\ action[cur.tool].state \in InDoubt
          /\ action' = [action EXCEPT ![cur.tool].state = Outcome(cur.status)]
      BY <1>5, <2>2 DEF FinishAction, Job
    <3>2. Promise!Report(cur.tool, Outcome(cur.status))
      BY <1>5, <3>1 DEF FinishAction, Promise!Report, Promise!InDoubt, InDoubt
    <3>3. Outcome(cur.status) \in {"completed_unverified", "failed"}
      BY DEF Outcome
    <3> QED BY <3>1, <3>2, <3>3 DEF Promise!Next
  <2> QED BY <2>1, <2>2
<1>6. CASE VerifyAction
  <2>1. CASE UNCHANGED action
    BY <1>6, <2>1 DEF VerifyAction
  <2>2. CASE ~UNCHANGED action
    <3>1. PICK s \in {"verified", "verification_failed"} :
            /\ cur.target \in Tool /\ action[cur.target].state # "none"
            /\ action' = [action EXCEPT ![cur.target].state = s]
      BY <1>6, <2>2 DEF VerifyAction, Job
    <3>2. Promise!Verify(cur.target, s)
      BY <1>6, <3>1 DEF VerifyAction, Promise!Verify
    <3> QED BY <3>1, <3>2 DEF Promise!Next
  <2> QED BY <2>1, <2>2
<1>7. CASE InterruptUndelivered
  <2>1. UNCHANGED <<action, approval>>
    BY <1>7 DEF InterruptUndelivered
  <2>2. CASE ~UNCHANGED task
    <3>1. /\ owner \in Task /\ task[owner] \in OpenTask
          /\ task' = [task EXCEPT ![owner] = "interrupted"]
      BY <1>7, <2>2 DEF InterruptUndelivered, EndTask, BoundOpen
    <3>2. Promise!Advance(owner, "interrupted")
      BY <2>1, <3>1 DEF Promise!Advance, Promise!OpenTask, OpenTask
    <3> QED BY <3>1, <3>2 DEF Promise!Next, Promise!OpenTask
  <2> QED BY <2>1, <2>2
<1>8. CASE RequestApproval
  <2>1. CASE UNCHANGED approval
    BY <1>8, <2>1 DEF RequestApproval
  <2>2. CASE ~UNCHANGED approval
    <3>1. cur.request \in Request
      BY <1>8, StepKind DEF RequestApproval, Kind, Formed
    <3>2. Promise!Ask(cur.request)
      BY <1>8, <2>2, <3>1 DEF RequestApproval, Promise!Ask
    <3> QED BY <3>1, <3>2 DEF Promise!Next
  <2> QED BY <2>1, <2>2
<1>9. CASE ResolveApproval
  <2>1. CASE UNCHANGED approval
    BY <1>9, <2>1 DEF ResolveApproval
  <2>2. CASE ~UNCHANGED approval
    <3>1. cur.request \in Request /\ cur.status \in {"once", "deny"}
      BY <1>9, StepKind DEF ResolveApproval, Kind, Formed, Choice
    <3>2. Promise!Decide(cur.request, cur.status)
      BY <1>9, <2>2, <3>1 DEF ResolveApproval, Promise!Decide
    <3> QED BY <3>1, <3>2 DEF Promise!Next
  <2> QED BY <2>1, <2>2
<1> QED
  BY <1>1, <1>2, <1>3, <1>4, <1>5, <1>6, <1>7, <1>8, <1>9, SettlePromise DEF Executor

LEMMA StepPromise ==
  ASSUME IInv, [Next]_vars
  PROVE  [Promise!Next]_(Promise!rows)
<1>1. CASE Desktop \/ Hermes
  BY <1>1, HermesAdds, DesktopAdds DEF IInv, db, Promise!rows
<1>2. CASE Executor
  BY <1>2, ExecutorPromise DEF Promise!rows
<1>3. CASE Degrade \/ EndEpisode \/ CleanRestart
  BY <1>3 DEF Degrade, EndEpisode, CleanRestart, NewProcess, db, Promise!rows
<1>4. CASE CrashRestart
  BY <1>4 DEF CrashRestart, NewProcess, Promise!Next, Promise!Recover
<1>5. CASE UNCHANGED vars
  BY <1>5 DEF vars, db, Promise!rows
<1> QED
  BY <1>1, <1>2, <1>3, <1>4, <1>5 DEF Next

\* Whatever the frames, their repetitions and the restarts, every change of the
\* rows of tasks, actions and approvals is one that LedgerPromise allows.
THEOREM Implementation == Spec => KeepsPromise
<1>1. Init => Promise!Init
  BY InitPromise
<1>2. IInv /\ [Next]_vars => [Promise!Next]_(Promise!rows)
  BY StepPromise
<1> QED BY <1>1, <1>2, Invariant, PTL DEF Spec, KeepsPromise, Promise!Spec

-----------------------------------------------------------------------------
(***************************************************************************)
(* What readers of the rows may conclude.                                  *)
(***************************************************************************)

SettledRows ==
  \A t \in Task, a \in Tool :
    task[t] = "completed" /\ action[a].task = t =>
      action[a].state \in Settled \cup {"verification_failed"}

\* The promise alone keeps the actions of a completed task settled.
LEMMA PromiseSettles ==
  ASSUME TypeOK, SettledRows, [Promise!Next]_(Promise!rows)
  PROVE  SettledRows'
<1> SUFFICES ASSUME NEW t \in Task, NEW a \in Tool,
                    task'[t] = "completed", action'[a].task = t
             PROVE  action'[a].state \in Settled \cup {"verification_failed"}
  BY DEF SettledRows
<1> DEFINE Old == task[t] = "completed" /\ action[a].task = t
<1>0. /\ task \in [Task -> OpenTask \cup ClosedTask \cup {"none"}]
      /\ action \in [Tool -> [state : ActionState, task : Task \cup {None},
                             request : Request \cup {None}]]
      /\ Old => action[a].state \in Settled \cup {"verification_failed"}
      /\ None \notin Task
  BY LedgerAssumption DEF TypeOK, SettledRows, LedgerAssumption
<1> USE DEF Promise!OpenTask, Promise!Settled, Promise!InDoubt, Settled
<1>1. ASSUME NEW u \in Task, Promise!Create(u)
      PROVE  action'[a].state \in Settled \cup {"verification_failed"}
  BY <1>0, <1>1 DEF Promise!Create
<1>2. ASSUME NEW u \in Task, Promise!Complete(u)
      PROVE  action'[a].state \in Settled \cup {"verification_failed"}
  BY <1>0, <1>2 DEF Promise!Complete
<1>3. ASSUME NEW u \in Task, NEW s \in (Promise!OpenTask \ {"active"}) \cup {"cancelled"},
             Promise!Advance(u, s)
      PROVE  action'[a].state \in Settled \cup {"verification_failed"}
  BY <1>0, <1>3 DEF Promise!Advance
<1>4. ASSUME NEW b \in Tool, NEW u \in Task \cup {None}, NEW r \in Request \cup {None},
             Promise!Begin(b, u, r)
      PROVE  action'[a].state \in Settled \cup {"verification_failed"}
  BY <1>0, <1>4 DEF Promise!Begin
<1>5. ASSUME NEW b \in Tool, NEW s \in {"completed_unverified", "failed"}, Promise!Report(b, s)
      PROVE  action'[a].state \in Settled \cup {"verification_failed"}
  BY <1>0, <1>5 DEF Promise!Report
<1>6. ASSUME NEW b \in Tool, NEW s \in {"verified", "verification_failed"}, Promise!Verify(b, s)
      PROVE  action'[a].state \in Settled \cup {"verification_failed"}
  BY <1>0, <1>6 DEF Promise!Verify
<1>7. CASE UNCHANGED <<task, action>>
  BY <1>0, <1>7
<1>8. CASE Promise!Recover
  BY <1>0, <1>8 DEF Promise!Recover
<1> QED
  BY <1>1, <1>2, <1>3, <1>4, <1>5, <1>6, <1>7, <1>8
     DEF Promise!Next, Promise!rows, Promise!Ask, Promise!Decide

\* A task that was recorded as completed left nothing whose outcome is unknown
\* or unchecked, and nothing is charged to it afterwards.
THEOREM CompletedIsSettled == Spec => []CompletedSettled
<1>1. Init => SettledRows
  BY DEF Init, SettledRows
<1>2. IInv /\ SettledRows /\ [Next]_vars => SettledRows'
  BY StepPromise, PromiseSettles DEF IInv
<1>3. IInv /\ SettledRows => CompletedSettled
  BY DEF IInv, SettledRows, CompletedSettled
<1> QED BY <1>1, <1>2, <1>3, Invariant, PTL DEF Spec

\* The conclusion that the job which runs is about to put on the list.
Concluded(c) ==
  /\ pc = "refer"
  /\ \/ cur.kind = "result" /\ c = cur.tool
     \/ cur.kind = "complete" /\ cur.status = "complete" /\ c = cur.of

\* The history names the episode that lasts, and nothing older.
Referred ==
  \A c \in Tool \cup Task :
    /\ under[c] \in {0, episode}
    /\ under[c] # 0 /\ ~Concluded(c) => <<under[c], c>> \in items

LEMMA NextReferred ==
  ASSUME IInv, Referred, [Next]_vars
  PROVE  Referred'
<1> USE DEF At, db, machine, desktop, history, executor
<1>0. TypeOK
  BY DEF IInv
<1>1. ASSUME UNCHANGED <<under, episode, items>>, ~(pc = "refer"), ~(pc' = "refer")
      PROVE  Referred'
  BY <1>1 DEF Referred, Concluded
<1>2. ASSUME UNCHANGED <<under, episode, items, pc, cur>>
      PROVE  Referred'
  BY <1>2 DEF Referred, Concluded
<1>3. CASE Desktop \/ Hermes
  <2>1. UNCHANGED <<under, episode, items, pc, cur>>
    BY <1>0, <1>3, HermesAdds, DesktopAdds DEF Adds, Enqueue
  <2> QED BY <2>1, <1>2
<1>4. CASE Executor
  <2>1. CASE Take
    <3>1. Head(queue).kind \in Kind
      BY <1>0, <2>1, Taken DEF Take, TypeOK, Job
    <3> QED BY <1>1, <2>1, <3>1 DEF Take, Kind
  <2>2. CASE \/ PreparePrompt \/ ObserveInfo \/ StartAction \/ VerifyAction \/ SettleTask
             \/ InterruptUndelivered \/ RequestApproval \/ ResolveApproval
    BY <1>1, <2>2 DEF PreparePrompt, ObserveInfo, StartAction, VerifyAction, SettleTask,
       InterruptUndelivered, RequestApproval, ResolveApproval, JobDone
  <2>3. CASE BeginTask \/ CountUnsettled
    BY <1>1, <2>3 DEF BeginTask, CountUnsettled
  <2>4. CASE FinishAction
    <3>1. pc = "result" /\ cur.kind = "result" /\ UNCHANGED <<cur, items, episode>>
      BY <2>4, StepKind DEF FinishAction, Kind, Goto
    <3>2. \/ pc' = "refer" /\ under' = [under EXCEPT ![cur.tool] = episode]
          \/ UNCHANGED under
      BY <2>4 DEF FinishAction, Goto
    <3> QED BY <1>0, <3>1, <3>2 DEF Referred, Concluded, TypeOK
  <2>5. CASE FinishRun
    <3>1. pc = "complete" /\ cur.kind = "complete" /\ UNCHANGED <<cur, items, episode>>
          /\ pc' = "refer"
      BY <2>5, StepKind DEF FinishRun, Kind, Goto
    <3>2. \/ cur.status = "complete" /\ under' = [under EXCEPT ![cur.of] = episode]
          \/ UNCHANGED under
      BY <2>5 DEF FinishRun
    <3> QED BY <1>0, <3>1, <3>2 DEF Referred, Concluded, TypeOK
  <2>6. CASE ReferAction \/ ReferRun
    <3>1. /\ pc = "refer" /\ pc' # "refer" /\ UNCHANGED <<under, episode>>
          /\ items \subseteq items'
      BY <2>6 DEF ReferAction, ReferRun, Refer, Goto
    <3>2. \A c \in Tool \cup Task : Concluded(c) /\ episode # 0 => <<episode, c>> \in items'
      BY <2>6 DEF ReferAction, ReferRun, Refer, Concluded
    <3> QED BY <3>1, <3>2 DEF Referred, Concluded
  <2> QED BY <1>4, <2>1, <2>2, <2>3, <2>4, <2>5, <2>6 DEF Executor
<1>5. CASE Degrade
  BY <1>5 DEF Degrade, Referred, Concluded
<1>6. CASE EndEpisode \/ CleanRestart \/ CrashRestart
  <2>1. under' = [c \in Tool \cup Task |-> 0]
    BY <1>6 DEF EndEpisode, CleanRestart, CrashRestart, NewProcess
  <2> QED BY <2>1 DEF Referred
<1>7. CASE UNCHANGED vars
  BY <1>7, <1>2 DEF vars
<1> QED
  BY <1>3, <1>4, <1>5, <1>6, <1>7 DEF Next

\* What was concluded while degraded is on the list to revalidate as long as the
\* episode lasts and HAL is not restarted.
THEOREM ConclusionsAreReferred == Spec => []ConclusionsReferred
<1>1. Init => Referred
  BY DEF Init, Referred
<1>2. IInv /\ Referred /\ [Next]_vars => Referred'
  BY NextReferred
<1>3. Referred => ConclusionsReferred
  BY DEF Referred, Concluded, ConclusionsReferred
<1> QED BY <1>1, <1>2, <1>3, Invariant, PTL DEF Spec

-----------------------------------------------------------------------------
(***************************************************************************)
(* A run is charged to its own task.                                       *)
(*                                                                         *)
(* It holds when the runtime id is the only id of the session: run         *)
(* ledger_stored shows what two ids do to it.  The task of a run has to be *)
(* found under the key of whatever reports on it: SessionBound says that a *)
(* task waits under "pending" only until the first frame of the session is *)
(* taken, so that the table holds one task (Home) whichever key is used,   *)
(* and the rest says that Home is the task of every job that is waiting.   *)
(***************************************************************************)

OneId ==
  /\ ~stored
  /\ \A i \in 1..Len(queue) : queue[i].key \in {"pending", "runtime"}
  /\ cur.key \in {"pending", "runtime"}

\* A job that was filed before the session was open.  An answer has no key.
Pending(job) == job.key = "pending" /\ job.kind # "resolve"
Early == bound["runtime"] = None /\ cur.key = "pending"
Late ==
  /\ bound["pending"] = None
  /\ pc # "idle" => ~Pending(cur)
  /\ \A i \in 1..Len(queue) : ~Pending(queue[i])
OpensAt(q, i) ==
  /\ q[i].kind = "info"
  /\ \A j \in 1..Len(q) : (j < i => q[j].key = "pending") /\ (j > i => ~Pending(q[j]))
SessionBound ==
  /\ session = "none" => Early /\ \A i \in 1..Len(queue) : queue[i].key = "pending"
  /\ session = "open" => Late \/ (Early /\ \E i \in 1..Len(queue) : OpensAt(queue, i))

\* The task that the table holds for the session, under either key.
Home == TaskFor("runtime")

\* A job that is about a run, and a prompt that Hermes has or may get.
Charges(job) == job.kind # "begin" /\ job.of # None
Live(t) == phase[t] \in {"ready", "running"}

OneUnderWay ==
  /\ \A t, u \in Task : UnderWay(t) /\ UnderWay(u) => t = u
  /\ run # None => phase[run] = "running"

\* Nothing is said of a run before its task is begun and prepared.
BeginsFirst ==
  /\ \A i \in 1..Len(queue) :
       queue[i].kind = "begin" =>
         /\ phase[queue[i].of] = "preparing"
         /\ \A j \in 1..Len(queue) : j > i => queue[j].of = None
  /\ pc \in {"begin", "prepare"} =>
       /\ phase[cur.of] = "preparing"
       /\ \A j \in 1..Len(queue) : queue[j].of = None

\* The jobs that wait are about one run, the one that lasts if one does; the
\* end of the run is the last of them.
OneRun ==
  /\ \A i \in 1..Len(queue) :
       Charges(queue[i]) =>
         /\ \A t \in Task : Live(t) => t = queue[i].of
         /\ \A j \in 1..Len(queue) : Charges(queue[j]) => queue[j].of = queue[i].of
         /\ pc # "idle" /\ Charges(cur) => queue[i].of = cur.of
         /\ queue[i].kind = "complete" =>
              /\ ~Live(queue[i].of)
              /\ \A j \in 1..Len(queue) : j > i => ~Charges(queue[j])
  /\ pc # "idle" /\ Charges(cur) =>
       /\ \A t \in Task : Live(t) => t = cur.of
       /\ cur.kind = "complete" =>
            /\ ~Live(cur.of)
            /\ \A j \in 1..Len(queue) : ~Charges(queue[j])

\* The table holds the task of the run that lasts or is still reported on.
AtHome ==
  /\ \A t \in begun : Live(t) => Home = t
  /\ \A i \in 1..Len(queue) :
       Charges(queue[i]) /\ queue[i].of \in begun => Home = queue[i].of
  /\ pc = "prepare" => Home = cur.of

Alone == ~overlapped => OneUnderWay /\ BeginsFirst /\ OneRun /\ AtHome /\ RunsOwnTask

CInv == IInv /\ OneId /\ SessionBound /\ Alone

\* What Hermes puts into the queue is about its run, under the runtime id.
LEMMA Reports ==
  ASSUME TypeOK, Hermes
  PROVE  /\ UNCHANGED <<pc, cur, owner, bound, session, stored, begun, overlapped>>
         /\ \/ /\ UNCHANGED queue
               /\ run \in Task /\ run' = None /\ phase' = [phase EXCEPT ![run] = "gone"]
            \/ \E job \in Job :
                 /\ Enqueue(job) /\ job.key = "runtime" /\ session = "open"
                 /\ run \in Task /\ job.of = run /\ job.kind \notin {"begin", "resolve"}
                 /\ \/ job.kind # "complete" /\ UNCHANGED <<phase, run>>
                    \/ /\ job.kind = "complete" /\ run' = None
                       /\ phase' = [phase EXCEPT ![run] = "completed"]
<1> DEFINE Jobs == {j \in Job : j.kind \notin {"begin", "resolve", "complete"}}
<1> USE DEF Kind, Key, Status, Choice
<1>0. NoJob \in Job
  BY DEF NoJob, Job
<1>1. ASSUME NEW a \in Tool, NEW r \in Request \cup {None}, ToolStart(a, r)
      PROVE  \E job \in Jobs : Frame(job) /\ UNCHANGED <<phase, run>>
  <2> DEFINE job == [NoJob EXCEPT !.kind = "start", !.tool = a, !.request = r]
  <2>1. job \in Jobs
    BY <1>0 DEF NoJob, Job
  <2> QED BY <2>1, <1>1 DEF ToolStart
<1>2. ASSUME NEW a \in Tool \cup {None}, NEW s \in {"succeeded", "failed"},
             NEW b \in Tool \cup {None}, NEW o \in {"success", "failed"},
             ToolResult(a, s, b, o)
      PROVE  \E job \in Jobs : Frame(job) /\ UNCHANGED <<phase, run>>
  <2> DEFINE job == [NoJob EXCEPT !.kind = "result", !.tool = a, !.status = s,
                                  !.target = b, !.outcome = o]
  <2>1. job \in Jobs
    BY <1>0 DEF NoJob, Job
  <2> QED BY <2>1, <1>2 DEF ToolResult
<1>3. ASSUME NEW r \in Request, ApprovalRequest(r)
      PROVE  \E job \in Jobs : Frame(job) /\ UNCHANGED <<phase, run>>
  <2> DEFINE job == [NoJob EXCEPT !.kind = "request", !.request = r]
  <2>1. job \in Jobs
    BY <1>0 DEF NoJob, Job
  <2> QED BY <2>1, <1>3 DEF ApprovalRequest
<1>4. ASSUME InventoryLoss
      PROVE  \E job \in Jobs : Frame(job) /\ UNCHANGED <<phase, run>>
  <2> DEFINE job == [NoJob EXCEPT !.status = "failed"]
  <2>1. job \in Jobs
    BY <1>0 DEF NoJob, Job
  <2> QED BY <2>1, <1>4 DEF InventoryLoss
<1>5. ASSUME NEW job \in Job, Frame(job)
      PROVE  \E j \in Job : /\ Enqueue(j) /\ j.key = "runtime" /\ session = "open"
                            /\ run \in Task /\ j.of = run /\ j.kind = job.kind
                            /\ UNCHANGED <<session, stored, begun, overlapped>>
  <2> DEFINE j == [job EXCEPT !.key = "runtime", !.of = run]
  <2>1. run \in Task /\ session = "open" /\ Enqueue(j)
    BY <1>5 DEF TypeOK, Frame
  <2>2. j \in Job /\ j.kind = job.kind /\ j.key = "runtime" /\ j.of = run
    BY <2>1 DEF Job
  <2>3. UNCHANGED <<session, stored, begun, overlapped>>
    BY <1>5 DEF Frame, history
  <2> HIDE DEF j
  <2> QED BY <2>1, <2>2, <2>3
<1>6. ASSUME NEW job \in Jobs, Frame(job), UNCHANGED <<phase, run>>
      PROVE  /\ UNCHANGED <<pc, cur, owner, bound, session, stored, begun, overlapped>>
             /\ \E j \in Job :
                  /\ Enqueue(j) /\ j.key = "runtime" /\ session = "open"
                  /\ run \in Task /\ j.of = run
                  /\ j.kind \notin {"begin", "resolve", "complete"}
  BY <1>5, <1>6 DEF Enqueue
<1>7. ASSUME NEW s \in {"complete", "error", "interrupted"}, MessageComplete(s)
      PROVE  /\ UNCHANGED <<pc, cur, owner, bound, session, stored, begun, overlapped>>
             /\ run' = None /\ phase' = [phase EXCEPT ![run] = "completed"]
             /\ \E j \in Job :
                  /\ Enqueue(j) /\ j.key = "runtime" /\ session = "open"
                  /\ run \in Task /\ j.of = run /\ j.kind = "complete"
  <2> DEFINE job == [NoJob EXCEPT !.kind = "complete", !.status = s]
  <2>1. job \in Job /\ job.kind = "complete"
    BY <1>0 DEF NoJob, Job
  <2>2. Frame(job) /\ run' = None /\ phase' = [phase EXCEPT ![run] = "completed"]
    BY <1>7 DEF MessageComplete
  <2> HIDE DEF job
  <2> QED BY <2>1, <2>2, <1>5 DEF Enqueue
<1>8. CASE CompleteUnseen
  BY <1>8 DEF CompleteUnseen, TypeOK, executor, history
<1>9. ASSUME \E job \in Jobs : Frame(job) /\ UNCHANGED <<phase, run>>
      PROVE  /\ UNCHANGED <<pc, cur, owner, bound, session, stored, begun, overlapped>>
             /\ UNCHANGED <<phase, run>>
             /\ \E j \in Job :
                  /\ Enqueue(j) /\ j.key = "runtime" /\ session = "open"
                  /\ run \in Task /\ j.of = run
                  /\ j.kind \notin {"begin", "resolve", "complete"}
  BY <1>6, <1>9
<1> HIDE DEF Jobs
<1>a. \/ \E job \in Jobs : Frame(job) /\ UNCHANGED <<phase, run>>
      \/ \E s \in {"complete", "error", "interrupted"} : MessageComplete(s)
      \/ CompleteUnseen
  BY <1>1, <1>2, <1>3, <1>4 DEF Hermes
<1>b. CASE \E job \in Jobs : Frame(job) /\ UNCHANGED <<phase, run>>
  BY <1>b, <1>9
<1>c. CASE \E s \in {"complete", "error", "interrupted"} : MessageComplete(s)
  BY <1>c, <1>7
<1> QED
  BY <1>a, <1>b, <1>c, <1>8

\* The key of a job that the desktop or Hermes files.
Keyed(job) ==
  job.key = IF session = "open" /\ job.kind # "resolve" THEN "runtime" ELSE "pending"

LEMMA AddKeepsSession ==
  ASSUME IInv, OneId, SessionBound, NEW job \in Job, Enqueue(job), Keyed(job),
         UNCHANGED <<session, stored>>
  PROVE  OneId' /\ SessionBound'
<1>1. /\ Len(queue) \in Nat /\ Len(queue') = Len(queue) + 1
      /\ queue'[Len(queue) + 1] = job
      /\ \A i \in 1..Len(queue) : queue'[i] = queue[i]
  BY Queued DEF IInv, TypeOK
<1>2. UNCHANGED <<pc, cur, bound>>
  BY DEF Enqueue
<1>3. \A i \in 1..Len(queue') :
        \/ i \in 1..Len(queue) /\ queue'[i] = queue[i]
        \/ i = Len(queue) + 1 /\ queue'[i] = job
  BY <1>1
<1>4. OneId'
  BY <1>2, <1>3 DEF OneId, Keyed
<1>5. ASSUME session = "none" PROVE SessionBound'
  BY <1>2, <1>3, <1>5 DEF SessionBound, Early, Keyed
<1>6. ASSUME session = "open" PROVE ~Pending(job)
  BY <1>6 DEF Keyed, Pending
<1>7. ASSUME session = "open" /\ Late PROVE SessionBound'
  <2>1. Late'
    BY <1>2, <1>3, <1>6, <1>7 DEF Late, Pending
  <2> QED BY <2>1, <1>7 DEF SessionBound
<1>8. ASSUME session = "open", Early, \E i \in 1..Len(queue) : OpensAt(queue, i)
      PROVE  SessionBound'
  <2>1. PICK i \in 1..Len(queue) : OpensAt(queue, i)
    BY <1>8
  <2>2. i \in 1..Len(queue') /\ OpensAt(queue', i)
    BY <2>1, <1>1, <1>3, <1>6, <1>8 DEF OpensAt, Pending
  <2>3. Early'
    BY <1>2, <1>8 DEF Early
  <2> QED BY <2>2, <2>3, <1>8 DEF SessionBound
<1>9. session \in {"none", "open"}
  BY DEF IInv, TypeOK
<1> QED
  BY <1>4, <1>5, <1>7, <1>8, <1>9 DEF SessionBound

\* The frame that opens the session takes the task off "pending".
LEMMA OpenKeepsSession ==
  ASSUME IInv, OneId, SessionBound, ~DistinctIds, OpenSession
  PROVE  OneId' /\ SessionBound'
<1> DEFINE job == [NoJob EXCEPT !.key = "runtime"]
<1>0. job \in Job /\ job.kind = "info" /\ job.key = "runtime" /\ Enqueue(job)
  BY DEF OpenSession, NoJob, Job, Kind, Key, Status
<1> HIDE DEF job
<1>1. /\ Len(queue) \in Nat /\ Len(queue') = Len(queue) + 1
      /\ queue'[Len(queue) + 1] = job
      /\ \A i \in 1..Len(queue) : queue'[i] = queue[i]
  BY <1>0, Queued DEF IInv, TypeOK
<1>2. UNCHANGED <<pc, cur, bound>> /\ session = "none" /\ session' = "open" /\ ~stored'
  BY DEF OpenSession, Enqueue
<1>3. \A i \in 1..Len(queue') :
        \/ i \in 1..Len(queue) /\ queue'[i] = queue[i]
        \/ i = Len(queue) + 1 /\ queue'[i] = job
  BY <1>1
<1>4. OneId'
  BY <1>0, <1>2, <1>3 DEF OneId
<1>5. Early /\ \A i \in 1..Len(queue) : queue[i].key = "pending"
  BY <1>2 DEF SessionBound
<1>6. Early'
  BY <1>2, <1>5 DEF Early
<1>7. Len(queue') \in 1..Len(queue') /\ OpensAt(queue', Len(queue'))
  <2>1. Len(queue') \in 1..Len(queue') /\ queue'[Len(queue')].kind = "info"
    BY <1>0, <1>1
  <2>2. ASSUME NEW j \in 1..Len(queue')
        PROVE  (j < Len(queue') => queue'[j].key = "pending") /\ ~(j > Len(queue'))
    BY <1>1, <1>3, <1>5
  <2> QED BY <2>1, <2>2 DEF OpensAt
<1> QED
  BY <1>2, <1>4, <1>6, <1>7 DEF SessionBound

-----------------------------------------------------------------------------
\* What the steps of the executor, of the maintenance thread and of restarts
\* do to the queue, the table and the prompts.
LEMMA QuietStep ==
  ASSUME \/ FinishAction \/ ReferAction \/ FinishRun \/ ReferRun \/ CountUnsettled
         \/ Degrade \/ EndEpisode
  PROVE  /\ UNCHANGED <<queue, cur, owner, bound, desktop, begun, overlapped>>
         /\ \/ pc' = pc
            \/ pc # "idle" /\ pc' \in {"refer", "verify", "count", "settle"}
BY DEF FinishAction, ReferAction, FinishRun, ReferRun, CountUnsettled, Degrade, EndEpisode,
       At, Goto, executor, history

LEMMA LastStep ==
  ASSUME \/ ObserveInfo \/ StartAction \/ VerifyAction
         \/ InterruptUndelivered \/ RequestApproval \/ ResolveApproval
  PROVE  JobDone /\ UNCHANGED <<bound, desktop, begun, overlapped>>
BY DEF ObserveInfo, StartAction, VerifyAction, InterruptUndelivered, RequestApproval,
       ResolveApproval, history

LEMMA QuietKeeps ==
  ASSUME IInv, OneId, SessionBound, Alone,
         UNCHANGED <<queue, cur, owner, bound, desktop, begun, overlapped>>,
         pc' = pc \/ (pc # "idle" /\ pc' \in {"refer", "verify", "count", "settle"})
  PROVE  OneId' /\ SessionBound' /\ Alone'
<1> USE DEF desktop
<1>1. OneId'
  BY DEF OneId
<1>2. SessionBound'
  BY DEF SessionBound, Early, Late, OpensAt
<1>3. ASSUME ~overlapped PROVE OneUnderWay' /\ BeginsFirst' /\ OneRun' /\ AtHome' /\ RunsOwnTask'
  <2>1. OneUnderWay /\ BeginsFirst /\ OneRun /\ AtHome /\ RunsOwnTask
    BY <1>3 DEF Alone
  <2>2. OneUnderWay'
    BY <2>1 DEF OneUnderWay, UnderWay
  <2>3. BeginsFirst'
    BY <2>1 DEF BeginsFirst
  <2>4. OneRun'
    BY <2>1 DEF OneRun, Live, Charges
  <2>5. AtHome'
    BY <2>1 DEF AtHome, Live, Charges, Home, TaskFor
  <2>6. RunsOwnTask'
    BY <2>1 DEF RunsOwnTask
  <2> QED BY <2>2, <2>3, <2>4, <2>5, <2>6
<1> QED
  BY <1>1, <1>2, <1>3 DEF Alone

\* A job ends; when it was the end of a run, the table may lose its task.
LEMMA DoneKeepsCharge ==
  ASSUME IInv, OneId, SessionBound, Alone, pc \notin {"idle", "begin", "prepare"},
         JobDone, UNCHANGED <<desktop, begun, overlapped>>,
         bound' = bound \/ (pc = "settle" /\ bound' = [bound EXCEPT ![cur.key] = None])
  PROVE  OneId' /\ SessionBound' /\ Alone'
<1> USE DEF desktop
<1>1. pc' = "idle" /\ cur' = NoJob /\ queue' = queue /\ cur'.key = "pending"
  BY DEF JobDone, NoJob
<1>2. bound \in [Key -> Task \cup {None}] /\ {"pending", "runtime"} \subseteq Key
  BY DEF IInv, TypeOK, Key
<1>3. \A k \in Key : bound'[k] = bound[k] \/ bound'[k] = None
  BY <1>2
<1>4. OneId'
  BY <1>1 DEF OneId
<1>5. SessionBound'
  BY <1>1, <1>2, <1>3 DEF SessionBound, Early, Late, OpensAt
<1>6. ASSUME ~overlapped PROVE OneUnderWay' /\ BeginsFirst' /\ OneRun' /\ AtHome' /\ RunsOwnTask'
  <2>1. OneUnderWay /\ BeginsFirst /\ OneRun /\ AtHome
    BY <1>6 DEF Alone
  <2>2. OneUnderWay'
    BY <2>1 DEF OneUnderWay, UnderWay
  <2>3. BeginsFirst'
    BY <2>1, <1>1 DEF BeginsFirst
  <2>4. OneRun'
    BY <2>1, <1>1 DEF OneRun, Live, Charges
  <2>5. RunsOwnTask'
    BY <1>1 DEF RunsOwnTask
  <2>6. CASE bound' = bound
    <3>1. AtHome'
      BY <2>1, <2>6, <1>1 DEF AtHome, Live, Charges, Home, TaskFor
    <3> QED BY <2>2, <2>3, <2>4, <2>5, <3>1
  <2>7. CASE pc = "settle"
    <3>1. cur.kind = "complete" /\ cur.of \in Task /\ Charges(cur)
      BY <2>7, StepKind, LedgerAssumption DEF Formed, Charges, LedgerAssumption
    <3>2. /\ \A t \in Task : ~Live(t)
          /\ \A j \in 1..Len(queue) : ~Charges(queue[j])
      BY <2>1, <2>7, <3>1 DEF OneRun
    <3>3. AtHome'
      BY <3>2, <1>1 DEF AtHome, Live, Charges, IInv, TypeOK
    <3> QED BY <2>2, <2>3, <2>4, <2>5, <3>3
  <2> QED BY <2>6, <2>7
<1> QED
  BY <1>4, <1>5, <1>6 DEF Alone

\* The task begins: the table names it, and nothing else waits.
LEMMA BeginKeepsCharge ==
  ASSUME IInv, OneId, SessionBound, Alone, BeginTask
  PROVE  OneId' /\ SessionBound' /\ Alone'
<1> USE DEF desktop
<1>1. /\ pc = "begin" /\ pc' = "prepare" /\ bound' = [bound EXCEPT ![cur.key] = cur.of]
      /\ begun' = begun \cup {cur.of}
      /\ UNCHANGED <<queue, cur, owner, phase, run, session, stored, overlapped>>
  BY DEF BeginTask, At
<1>2. /\ bound \in [Key -> Task \cup {None}] /\ {"pending", "runtime"} \subseteq Key
      /\ session \in {"none", "open"}
  BY DEF IInv, TypeOK, Key
<1>3. /\ cur.kind = "begin" /\ cur.of \in Task /\ cur.key \in {"pending", "runtime"}
      /\ cur.of # None
  BY <1>1, StepKind, LedgerAssumption DEF Formed, Kind, OneId, LedgerAssumption
<1>4. OneId'
  BY <1>1 DEF OneId
<1>5. \/ Early /\ cur.key = "pending" /\ Early'
      \/ Late /\ cur.key = "runtime" /\ Late'
  BY <1>1, <1>2, <1>3 DEF SessionBound, Early, Late, Pending
<1>6. SessionBound'
  <2>1. CASE Early /\ cur.key = "pending" /\ Early'
    BY <2>1, <1>1, <1>3 DEF SessionBound, Late, Pending, OpensAt
  <2>2. CASE Late /\ cur.key = "runtime" /\ Late'
    BY <2>2, <1>1 DEF SessionBound, Early
  <2> QED BY <2>1, <2>2, <1>5
<1>7. Home' = cur.of
  BY <1>1, <1>2, <1>3, <1>5 DEF Home, TaskFor, Early
<1>8. ASSUME ~overlapped PROVE OneUnderWay' /\ BeginsFirst' /\ OneRun' /\ AtHome' /\ RunsOwnTask'
  <2>1. OneUnderWay /\ BeginsFirst /\ OneRun
    BY <1>8 DEF Alone
  <2>2. /\ phase[cur.of] = "preparing"
        /\ \A j \in 1..Len(queue) : queue[j].of = None
    BY <2>1, <1>1 DEF BeginsFirst
  <2>3. OneUnderWay'
    BY <2>1, <1>1 DEF OneUnderWay, UnderWay
  <2>4. BeginsFirst'
    BY <2>1, <2>2, <1>1 DEF BeginsFirst
  <2>5. OneRun'
    BY <2>1, <2>2, <1>1, <1>3 DEF OneRun, Live, Charges
  <2>6. \A t \in Task : ~Live(t)
    BY <2>1, <2>2, <1>3 DEF OneUnderWay, UnderWay, Live
  <2>7. AtHome'
    BY <2>2, <2>6, <1>1, <1>3, <1>7 DEF AtHome, Charges, Live, IInv, TypeOK
  <2>8. RunsOwnTask'
    BY <1>1, <1>3 DEF RunsOwnTask
  <2> QED BY <2>3, <2>4, <2>5, <2>7, <2>8
<1> QED
  BY <1>1, <1>4, <1>6, <1>8 DEF Alone

LEMMA PrepareKeepsCharge ==
  ASSUME IInv, OneId, SessionBound, Alone, PreparePrompt
  PROVE  OneId' /\ SessionBound' /\ Alone'
<1>1. /\ pc = "prepare" /\ pc' = "idle" /\ cur' = NoJob /\ cur'.key = "pending"
      /\ phase' = [phase EXCEPT ![cur.of] = "ready"]
      /\ UNCHANGED <<queue, bound, run, session, stored, begun, overlapped>>
  BY DEF PreparePrompt, At, JobDone, NoJob, history
<1>2. /\ cur.of \in Task /\ phase \in [Task -> Phases] /\ begun \subseteq Task
      /\ run \in Task \cup {None}
  BY <1>1, StepKind DEF Formed, IInv, TypeOK, Phases
<1>3. OneId'
  BY <1>1 DEF OneId
<1>4. SessionBound'
  BY <1>1 DEF SessionBound, Early, Late, OpensAt
<1>5. ASSUME ~overlapped PROVE OneUnderWay' /\ BeginsFirst' /\ OneRun' /\ AtHome' /\ RunsOwnTask'
  <2>1. OneUnderWay /\ BeginsFirst /\ OneRun /\ AtHome
    BY <1>5 DEF Alone
  <2>2. /\ phase[cur.of] = "preparing" /\ Home = cur.of
        /\ \A j \in 1..Len(queue) : queue[j].of = None
    BY <2>1, <1>1 DEF BeginsFirst, AtHome
  <2>3. OneUnderWay'
    BY <2>1, <2>2, <1>1, <1>2 DEF OneUnderWay, UnderWay
  <2>4. ASSUME NEW i \in 1..Len(queue) PROVE queue[i].kind # "begin" /\ ~Charges(queue[i])
    BY <2>2, <2>4, LedgerAssumption DEF Charges, IInv, JobsFormed, Formed, LedgerAssumption
  <2>5. BeginsFirst' /\ OneRun'
    BY <2>4, <1>1 DEF BeginsFirst, OneRun, Charges
  <2>6. \A t \in Task : Live(t)' => t = cur.of
    BY <2>1, <2>2, <1>1, <1>2 DEF Live, OneUnderWay, UnderWay
  <2>7. AtHome'
    BY <2>2, <2>4, <2>6, <1>1, <1>2 DEF AtHome, Charges, Home, TaskFor
  <2>8. RunsOwnTask'
    BY <1>1 DEF RunsOwnTask
  <2> QED BY <2>3, <2>5, <2>7, <2>8
<1> QED
  BY <1>1, <1>3, <1>4, <1>5 DEF Alone

\* The job at the head begins: it is charged to the task of the table.
LEMMA TakeKeepsCharge ==
  ASSUME IInv, OneId, SessionBound, Alone, Take
  PROVE  OneId' /\ SessionBound' /\ Alone'
<1> USE DEF desktop
<1> DEFINE job == queue[1]
<1>1. /\ queue' \in Seq(Job) /\ job \in Job
      /\ Len(queue) \in Nat \ {0} /\ Len(queue') = Len(queue) - 1
      /\ \A i \in 1..Len(queue') : queue'[i] = queue[i + 1]
      /\ pc = "idle" /\ cur' = job /\ pc' = job.kind
      /\ bound' = IF job.kind = "info" THEN BindPending(job.key) ELSE bound
      /\ owner' = IF job.kind = "info" THEN bound'[job.key] ELSE TaskFor(job.key)
      /\ UNCHANGED <<phase, run, session, stored, begun, overlapped>>
  BY Taken DEF Take, IInv, TypeOK, history
<1>2. /\ job.kind \in Kind /\ Formed(job) /\ 1 \in 1..Len(queue)
      /\ job.key \in {"pending", "runtime"}
  BY <1>1 DEF IInv, JobsFormed, Job, OneId
<1>3. \A i \in 1..Len(queue') : i + 1 \in 1..Len(queue) /\ i + 1 > 1
  BY <1>1
<1>4. /\ bound \in [Key -> Task \cup {None}] /\ {"pending", "runtime"} \subseteq Key
      /\ session \in {"none", "open"}
  BY DEF IInv, TypeOK, Key
<1>5. OneId'
  BY <1>1, <1>2, <1>3 DEF OneId
<1> HIDE DEF job
<1>6. /\ Late => Late'
      /\ Home' = Home
      /\ job.kind = "info" => session = "open"
      /\ Early => \/ Early' /\ job.key = "pending" /\ job.kind # "info"
                  \/ Late' /\ session = "open"
                  \/ Late
  <2>1. /\ job.kind = "info" => job.key = "runtime"
        /\ job.kind = "info" => session = "open"
    BY <1>1, <1>2, <1>4 DEF Formed, SessionBound, job
  <2>2. CASE Late
    <3>1. ~Pending(job) /\ \A i \in 1..Len(queue') : ~Pending(queue'[i])
      BY <2>2, <1>1, <1>2, <1>3 DEF Late, job
    <3>2. bound' = bound
      BY <2>2, <1>1 DEF Late, BindPending
    <3> QED BY <2>1, <2>2, <3>1, <3>2, <1>1 DEF Late, Home, TaskFor
  <2>3. CASE Early /\ ~Late
    <3>1. CASE job.kind # "info"
      <4>1. job.key = "pending"
        <5>1. CASE session = "none"
          BY <5>1, <1>1, <1>2 DEF SessionBound, job
        <5>2. CASE session = "open"
          <6>1. PICK i \in 1..Len(queue) : OpensAt(queue, i)
            BY <5>2, <2>3 DEF SessionBound
          <6>2. 1 < i
            BY <6>1, <3>1, <1>1 DEF OpensAt, job
          <6> QED BY <6>1, <6>2, <1>2 DEF OpensAt, job
        <5> QED BY <5>1, <5>2, <1>4
      <4> QED BY <4>1, <3>1, <2>1, <2>3, <1>1 DEF Early, Home, TaskFor
    <3>2. CASE job.kind = "info"
      <4>1. session = "open" /\ bound' = BindPending("runtime") /\ job.key = "runtime"
        BY <3>2, <2>1, <1>1
      <4>2. PICK i \in 1..Len(queue) : OpensAt(queue, i)
        BY <4>1, <2>3 DEF SessionBound
      <4>3. i = 1
        <5>1. i > 1 => job.key = "pending"
          BY <4>2, <1>2 DEF OpensAt, job
        <5>2. i \in 1..Len(queue) /\ ~(i > 1)
          BY <5>1, <4>1
        <5> QED BY <5>2, <1>1
      <4>4. \A j \in 1..Len(queue') : ~Pending(queue'[j])
        BY <4>2, <4>3, <1>1, <1>3 DEF OpensAt
      <4>5. bound'["pending"] = None /\ Home' = Home
        BY <4>1, <2>3, <1>4 DEF BindPending, Early, Home, TaskFor
      <4>6. Late'
        BY <4>1, <4>4, <4>5, <1>1 DEF Late, Pending
      <4> QED BY <4>1, <4>5, <4>6, <2>3
    <3> QED BY <3>1, <3>2
  <2>4. CASE ~Early /\ ~Late
    BY <2>4, <1>4 DEF SessionBound
  <2> QED BY <2>2, <2>3, <2>4
<1>7. SessionBound'
  <2>1. CASE Late'
    <3>1. CASE session = "none"
      <4>1. \A i \in 1..Len(queue) : queue[i].key = "pending"
        BY <3>1 DEF SessionBound
      <4>2. bound' = bound
        BY <3>1, <1>1, <1>6
      <4> QED BY <3>1, <4>1, <4>2, <1>1, <1>2, <1>3 DEF SessionBound, Early, job
    <3> QED BY <2>1, <3>1, <1>1, <1>4 DEF SessionBound
  <2>2. CASE ~Late' /\ Early' /\ job.key = "pending" /\ job.kind # "info" /\ Early
    <3>1. CASE session = "none"
      BY <3>1, <2>2, <1>1, <1>3 DEF SessionBound
    <3>2. CASE session = "open"
      <4>1. PICK i \in 1..Len(queue) : OpensAt(queue, i)
        BY <3>2, <2>2, <1>6 DEF SessionBound
      <4>2. i # 1
        BY <4>1, <2>2 DEF OpensAt, job
      <4> DEFINE k == i - 1
      <4>3. k \in 1..Len(queue') /\ k + 1 = i
        BY <4>2, <1>1
      <4> HIDE DEF k
      <4>4. OpensAt(queue', k)
        <5>1. queue'[k].kind = "info"
          BY <4>1, <4>3, <1>1 DEF OpensAt
        <5>2. ASSUME NEW j \in 1..Len(queue')
              PROVE  (j < k => queue'[j].key = "pending") /\ (j > k => ~Pending(queue'[j]))
          <6>1. /\ j + 1 \in 1..Len(queue) /\ queue'[j] = queue[j + 1]
                /\ j < k => j + 1 < i
                /\ j > k => j + 1 > i
            BY <4>3, <1>1, <1>3
          <6> QED BY <6>1, <4>1 DEF OpensAt
        <5> QED BY <5>1, <5>2 DEF OpensAt
      <4> QED BY <3>2, <2>2, <4>3, <4>4, <1>1 DEF SessionBound
    <3> QED BY <3>1, <3>2, <1>4
  <2>3. ~Late' => ~Late /\ Early
    BY <1>6, <1>4 DEF SessionBound
  <2> QED BY <2>1, <2>2, <2>3, <1>6
<1>8. ASSUME ~overlapped PROVE OneUnderWay' /\ BeginsFirst' /\ OneRun' /\ AtHome' /\ RunsOwnTask'
  <2>1. OneUnderWay /\ BeginsFirst /\ OneRun /\ AtHome
    BY <1>8 DEF Alone
  <2>2. OneUnderWay'
    BY <2>1, <1>1 DEF OneUnderWay, UnderWay
  <2>3. job.kind \notin {"prepare", "idle"}
    BY <1>2 DEF Kind
  <2>4. BeginsFirst'
    <3>1. ASSUME NEW i \in 1..Len(queue'), queue'[i].kind = "begin"
          PROVE  /\ phase'[queue'[i].of] = "preparing"
                 /\ \A j \in 1..Len(queue') : j > i => queue'[j].of = None
      <4>1. /\ phase'[queue'[i].of] = "preparing"
            /\ \A j \in 1..Len(queue) : j > i + 1 => queue[j].of = None
        BY <3>1, <2>1, <1>1, <1>3 DEF BeginsFirst
      <4>2. ASSUME NEW j \in 1..Len(queue'), j > i PROVE queue'[j].of = None
        <5>1. j + 1 \in 1..Len(queue) /\ j + 1 > i + 1 /\ queue'[j] = queue[j + 1]
          BY <4>2, <1>1, <1>3
        <5> QED BY <5>1, <4>1
      <4> QED BY <4>1, <4>2
    <3>2. ASSUME job.kind = "begin"
          PROVE  /\ phase'[job.of] = "preparing"
                 /\ \A j \in 1..Len(queue') : queue'[j].of = None
      BY <3>2, <2>1, <1>1, <1>2, <1>3 DEF BeginsFirst, job
    <3> QED BY <3>1, <3>2, <2>3, <1>1 DEF BeginsFirst
  <2>5. OneRun'
    <3>1. ASSUME NEW i \in 1..Len(queue'), Charges(queue'[i])
          PROVE  /\ \A t \in Task : Live(t) => t = queue'[i].of
                 /\ \A j \in 1..Len(queue') : Charges(queue'[j]) => queue'[j].of = queue'[i].of
                 /\ Charges(job) => queue'[i].of = job.of
                 /\ queue'[i].kind = "complete" => ~Live(queue'[i].of)
      BY SMTT(30), <3>1, <2>1, <1>1, <1>2, <1>3 DEF OneRun, Live, job
    <3>2. ASSUME NEW i \in 1..Len(queue'), Charges(queue'[i]), queue'[i].kind = "complete",
                 NEW j \in 1..Len(queue'), j > i
          PROVE  ~Charges(queue'[j])
      <4>1. j + 1 \in 1..Len(queue) /\ j + 1 > i + 1 /\ queue'[j] = queue[j + 1]
        BY <3>2, <1>1, <1>3
      <4>2. i + 1 \in 1..Len(queue) /\ queue'[i] = queue[i + 1]
        BY <1>1, <1>3
      <4> QED BY <3>2, <4>1, <4>2, <2>1 DEF OneRun
    <3>3. ASSUME Charges(job)
          PROVE  /\ \A t \in Task : Live(t) => t = job.of
                 /\ job.kind = "complete" =>
                      /\ ~Live(job.of)
                      /\ \A j \in 1..Len(queue') : ~Charges(queue'[j])
      BY <3>3, <2>1, <1>1, <1>2, <1>3 DEF OneRun, Live, job
    <3> QED BY <3>1, <3>2, <3>3, <1>1 DEF OneRun, Live
  <2>6. AtHome'
    BY <2>1, <2>3, <1>1, <1>3, <1>6 DEF AtHome, Live
  <2>7. RunsOwnTask'
    <3> SUFFICES ASSUME job.kind \notin {"begin", "resolve"}, job.of \in begun
                 PROVE  owner' = job.of
      BY <1>1 DEF RunsOwnTask
    <3>1. Charges(job)
      BY LedgerAssumption DEF Charges, LedgerAssumption, IInv, TypeOK
    <3>2. Home = job.of /\ Home' = job.of
      BY <3>1, <2>1, <1>2, <1>6 DEF AtHome, job
    <3>3. CASE Late'
      BY <2>3, <3>2, <3>3, <1>1, <1>2 DEF Late, Home, TaskFor, Pending, Formed
    <3>4. CASE Early' /\ job.key = "pending" /\ job.kind # "info"
      BY <3>2, <3>4, <1>1 DEF Early, Home, TaskFor
    <3> QED BY <3>3, <3>4, <1>6, <1>4 DEF SessionBound
  <2> QED BY <2>2, <2>4, <2>5, <2>6, <2>7
<1> QED
  BY <1>1, <1>5, <1>7, <1>8 DEF Alone

-----------------------------------------------------------------------------
\* A job about a run that lasts: it is the run of the jobs that wait.
LEMMA AddKeepsAlone ==
  ASSUME IInv, Alone, NEW job \in Job, Enqueue(job), NEW t \in Task,
         job.of = t, Live(t), job.kind # "begin", UNCHANGED <<begun, overlapped>>,
         \/ job.kind # "complete" /\ UNCHANGED <<phase, run>>
         \/ /\ run' = IF run = t THEN None ELSE run
            /\ \/ phase' = [phase EXCEPT ![t] = "completed"]
               \/ job.kind # "complete" /\ phase' = [phase EXCEPT ![t] = "gone"]
  PROVE  Alone'
<1>1. /\ Len(queue) \in Nat /\ Len(queue') = Len(queue) + 1
      /\ queue'[Len(queue) + 1] = job
      /\ \A i \in 1..Len(queue) : queue'[i] = queue[i]
  BY Queued DEF IInv, TypeOK
<1>2. UNCHANGED <<pc, cur, owner, bound>>
  BY DEF Enqueue
<1>3. \A i \in 1..Len(queue') :
        \/ i \in 1..Len(queue) /\ queue'[i] = queue[i]
        \/ i = Len(queue) + 1 /\ queue'[i] = job
  BY <1>1
<1>4. /\ phase \in [Task -> Phases] /\ run \in Task \cup {None} /\ begun \subseteq Task
      /\ t # None /\ None \notin Task
  BY LedgerAssumption DEF IInv, TypeOK, Phases, LedgerAssumption
<1>5. /\ \A u \in Task : Live(u)' => Live(u) /\ phase'[u] = phase[u]
      /\ \A u \in Task : u # t => phase'[u] = phase[u]
      /\ job.kind = "complete" => phase'[t] \notin {"ready", "running"}
      /\ run' # None => run' = run /\ phase'[run] = phase[run]
      /\ \A u \in Task : phase'[u] = "preparing" <=> phase[u] = "preparing"
  BY <1>4 DEF Live
<1>6. SUFFICES ASSUME ~overlapped
      PROVE  OneUnderWay' /\ BeginsFirst' /\ OneRun' /\ AtHome' /\ RunsOwnTask'
  BY DEF Alone
<1>7. OneUnderWay /\ BeginsFirst /\ OneRun /\ AtHome /\ RunsOwnTask
  BY <1>6 DEF Alone
<1>8. \A u \in Task : phase[u] # "preparing"
  BY <1>7 DEF OneUnderWay, UnderWay, Live
<1>9. OneUnderWay'
  BY <1>4, <1>5, <1>7, <1>8 DEF OneUnderWay, UnderWay, Live
<1>10. /\ \A i \in 1..Len(queue) : queue[i].kind # "begin"
       /\ pc \notin {"begin", "prepare"}
  <2>1. \A i \in 1..Len(queue) : queue[i].kind = "begin" => queue[i].of \in Task
    BY DEF IInv, JobsFormed, Formed
  <2>2. pc \in {"begin", "prepare"} => cur.of \in Task
    BY StepKind DEF Formed, Kind
  <2> QED BY <2>1, <2>2, <1>7, <1>8 DEF BeginsFirst
<1>11. BeginsFirst'
  BY <1>2, <1>3, <1>10 DEF BeginsFirst
<1>12. /\ \A i \in 1..Len(queue') : Charges(queue'[i]) => queue'[i].of = t
       /\ pc # "idle" /\ Charges(cur) => cur.of = t /\ cur.kind # "complete"
       /\ \A i \in 1..Len(queue) : Charges(queue[i]) => queue[i].kind # "complete"
       /\ \A u \in Task : Live(u) => u = t
  BY <1>3, <1>7 DEF OneRun, OneUnderWay, UnderWay, Live
<1>13. OneRun'
  <2>1. ASSUME NEW i \in 1..Len(queue'), Charges(queue'[i]), queue'[i].kind = "complete"
        PROVE  /\ i = Len(queue) + 1 /\ phase'[queue'[i].of] \notin {"ready", "running"}
               /\ \A j \in 1..Len(queue') : ~(j > i)
    <3>1. i = Len(queue) + 1 /\ queue'[i] = job
      BY <2>1, <1>3, <1>12
    <3> QED BY <3>1, <2>1, <1>1, <1>5
  <2>2. \A u \in Task : Live(u)' => u = t
    BY <1>5, <1>12
  <2> QED BY <2>1, <2>2, <1>2, <1>12 DEF OneRun, Live
<1>14. AtHome'
  <2>1. t \in begun => Home = t
    BY <1>7 DEF AtHome
  <2>2. \A u \in begun : Live(u)' => u = t
    BY <1>4, <1>5, <1>12
  <2> QED BY <2>1, <2>2, <1>2, <1>10, <1>12 DEF AtHome, Home, TaskFor
<1>15. RunsOwnTask'
  BY <1>2, <1>7 DEF RunsOwnTask
<1> QED
  BY <1>9, <1>11, <1>13, <1>14, <1>15

\* A job about no run.
LEMMA AddNoRun ==
  ASSUME IInv, Alone, NEW job \in Job, Enqueue(job), job.of = None,
         job.kind # "begin", UNCHANGED <<begun, overlapped, phase, run>>
  PROVE  Alone'
<1>1. /\ Len(queue) \in Nat /\ Len(queue') = Len(queue) + 1
      /\ queue'[Len(queue) + 1] = job
      /\ \A i \in 1..Len(queue) : queue'[i] = queue[i]
  BY Queued DEF IInv, TypeOK
<1>2. UNCHANGED <<pc, cur, owner, bound>>
  BY DEF Enqueue
<1>3. \A i \in 1..Len(queue') :
        \/ i \in 1..Len(queue) /\ queue'[i] = queue[i]
        \/ i = Len(queue) + 1 /\ queue'[i] = job /\ ~Charges(job)
  BY <1>1 DEF Charges
<1>4. SUFFICES ASSUME ~overlapped
      PROVE  OneUnderWay' /\ BeginsFirst' /\ OneRun' /\ AtHome' /\ RunsOwnTask'
  BY DEF Alone
<1>5. OneUnderWay /\ BeginsFirst /\ OneRun /\ AtHome /\ RunsOwnTask
  BY <1>4 DEF Alone
<1>6. OneUnderWay'
  BY <1>5 DEF OneUnderWay, UnderWay
<1>7. BeginsFirst'
  BY <1>2, <1>3, <1>5 DEF BeginsFirst
<1>8. OneRun'
  BY <1>2, <1>3, <1>5 DEF OneRun, Live
<1>9. AtHome'
  BY <1>2, <1>3, <1>5 DEF AtHome, Home, TaskFor, Live
<1>10. RunsOwnTask'
  BY <1>2, <1>5 DEF RunsOwnTask
<1> QED
  BY <1>6, <1>7, <1>8, <1>9, <1>10

\* A prompt that is submitted alone.
LEMMA SubmitKeepsAlone ==
  ASSUME IInv, Alone, NEW job \in Job, Enqueue(job), NEW t \in Task,
         job.kind = "begin", job.of = t, phase[t] = "new",
         phase' = [phase EXCEPT ![t] = "preparing"],
         overlapped' = (overlapped \/ \E u \in Task : UnderWay(u)),
         UNCHANGED <<run, begun>>
  PROVE  Alone'
<1>1. /\ Len(queue) \in Nat /\ Len(queue') = Len(queue) + 1
      /\ queue'[Len(queue) + 1] = job
      /\ \A i \in 1..Len(queue) : queue'[i] = queue[i]
  BY Queued DEF IInv, TypeOK
<1>2. UNCHANGED <<pc, cur, owner, bound>>
  BY DEF Enqueue
<1>3. \A i \in 1..Len(queue') :
        \/ i \in 1..Len(queue) /\ queue'[i] = queue[i]
        \/ i = Len(queue) + 1 /\ queue'[i] = job /\ ~Charges(job)
  BY <1>1 DEF Charges
<1>4. /\ phase \in [Task -> Phases] /\ run \in Task \cup {None} /\ begun \subseteq Task
  BY DEF IInv, TypeOK, Phases
<1>5. SUFFICES ASSUME ~overlapped, \A u \in Task : ~UnderWay(u)
      PROVE  OneUnderWay' /\ BeginsFirst' /\ OneRun' /\ AtHome' /\ RunsOwnTask'
  BY DEF Alone
<1>6. OneUnderWay /\ BeginsFirst /\ OneRun /\ AtHome /\ RunsOwnTask
  BY <1>5 DEF Alone
<1>7. /\ \A u \in Task : UnderWay(u)' <=> u = t
      /\ phase'[t] = "preparing"
      /\ \A u \in Task : ~Live(u)'
      /\ run = None
      /\ \A u \in Task : u # t => phase'[u] = phase[u]
  BY <1>4, <1>5, <1>6 DEF UnderWay, Live, OneUnderWay
<1>8. OneUnderWay'
  BY <1>7 DEF OneUnderWay
<1>9. /\ \A i \in 1..Len(queue) : queue[i].kind # "begin"
      /\ pc \notin {"begin", "prepare"}
  <2>1. \A i \in 1..Len(queue) : queue[i].kind = "begin" => queue[i].of \in Task
    BY DEF IInv, JobsFormed, Formed
  <2>2. pc \in {"begin", "prepare"} => cur.of \in Task
    BY StepKind DEF Formed, Kind
  <2> QED BY <2>1, <2>2, <1>5, <1>6 DEF BeginsFirst, UnderWay
<1>10. BeginsFirst'
  <2>1. ASSUME NEW i \in 1..Len(queue'), queue'[i].kind = "begin"
        PROVE  /\ queue'[i].of = t
               /\ \A j \in 1..Len(queue') : ~(j > i)
    <3>1. i = Len(queue) + 1 /\ queue'[i] = job
      BY <2>1, <1>3, <1>9
    <3> QED BY <3>1, <1>1
  <2> QED BY <2>1, <1>2, <1>7, <1>9 DEF BeginsFirst
<1>11. OneRun'
  <2>1. ASSUME NEW i \in 1..Len(queue) PROVE Charges(queue[i]) => queue[i].of \in Task
    <3>1. queue[i] \in Job
      BY DEF IInv, TypeOK
    <3> QED BY <3>1 DEF Charges, Job
  <2>2. \A i \in 1..Len(queue') : Charges(queue'[i]) => i \in 1..Len(queue) /\ queue'[i] = queue[i]
    BY <1>3
  <2>3. /\ \A u \in Task : ~(phase'[u] \in {"ready", "running"})
        /\ pc # "idle" /\ Charges(cur) => cur.of \in Task
    BY <1>7 DEF Live, Charges, IInv, TypeOK, Job
  <2> QED BY <2>1, <2>2, <2>3, <1>2, <1>6 DEF OneRun, Live
<1>12. AtHome'
  BY <1>2, <1>3, <1>4, <1>6, <1>7 DEF AtHome, Home, TaskFor
<1>13. RunsOwnTask'
  BY <1>2, <1>6 DEF RunsOwnTask
<1> QED
  BY <1>8, <1>10, <1>11, <1>12, <1>13

LEMMA HermesKeepsCharge ==
  ASSUME IInv, OneId, SessionBound, Alone, Hermes
  PROVE  OneId' /\ SessionBound' /\ Alone'
<1>1. UNCHANGED <<pc, cur, owner, bound, session, stored, begun, overlapped>>
  BY Reports DEF IInv
<1>2. CASE /\ UNCHANGED queue
           /\ run \in Task /\ run' = None /\ phase' = [phase EXCEPT ![run] = "gone"]
  <2>1. OneId' /\ SessionBound'
    BY <1>1, <1>2 DEF OneId, SessionBound, Early, Late, OpensAt
  <2> SUFFICES ASSUME ~overlapped
               PROVE  OneUnderWay' /\ BeginsFirst' /\ OneRun' /\ AtHome' /\ RunsOwnTask'
    BY <2>1, <1>1 DEF Alone
  <2>2. OneUnderWay /\ BeginsFirst /\ OneRun /\ AtHome /\ RunsOwnTask
    BY DEF Alone
  <2>3. /\ phase \in [Task -> Phases] /\ run \in Task /\ None \notin Task
        /\ begun \subseteq Task
    BY <1>2, LedgerAssumption DEF IInv, TypeOK, Phases, LedgerAssumption
  <2>4. /\ \A t \in Task : ~UnderWay(t)'
        /\ \A t \in Task : phase[t] # "preparing"
    BY <1>2, <2>2, <2>3 DEF OneUnderWay, UnderWay
  <2>5. OneUnderWay'
    BY <1>2, <2>4 DEF OneUnderWay
  <2>6. /\ \A i \in 1..Len(queue) : queue[i].kind # "begin"
        /\ pc \notin {"begin", "prepare"}
    <3>1. \A i \in 1..Len(queue) : queue[i].kind = "begin" => queue[i].of \in Task
      BY DEF IInv, JobsFormed, Formed
    <3>2. pc \in {"begin", "prepare"} => cur.of \in Task
      BY StepKind DEF Formed, Kind
    <3> QED BY <3>1, <3>2, <2>2, <2>4 DEF BeginsFirst
  <2>7. BeginsFirst'
    BY <1>1, <1>2, <2>6 DEF BeginsFirst
  <2>8. ASSUME NEW i \in 1..Len(queue) PROVE Charges(queue[i]) => queue[i].of \in Task
    <3>1. queue[i] \in Job
      BY DEF IInv, TypeOK
    <3> QED BY <3>1 DEF Charges, Job
  <2>9. pc # "idle" /\ Charges(cur) => cur.of \in Task
    BY DEF Charges, IInv, TypeOK, Job
  <2>10. \A t \in Task : phase'[t] \notin {"ready", "running"}
    BY <2>4 DEF UnderWay
  <2>11. OneRun'
    BY <1>1, <1>2, <2>2, <2>8, <2>9, <2>10 DEF OneRun, Live
  <2>12. AtHome'
    BY <1>1, <1>2, <2>2, <2>3, <2>10 DEF AtHome, Live, Home, TaskFor
  <2>13. RunsOwnTask'
    BY <1>1, <2>2 DEF RunsOwnTask
  <2> QED BY <2>5, <2>7, <2>11, <2>12, <2>13
<1>3. ASSUME NEW job \in Job,
             Enqueue(job), job.key = "runtime", session = "open",
             run \in Task, job.of = run, job.kind \notin {"begin", "resolve"},
             \/ job.kind # "complete" /\ UNCHANGED <<phase, run>>
             \/ /\ job.kind = "complete" /\ run' = None
                /\ phase' = [phase EXCEPT ![run] = "completed"]
      PROVE  OneId' /\ SessionBound' /\ Alone'
  <2>1. OneId' /\ SessionBound'
    BY <1>1, <1>3, AddKeepsSession DEF Keyed
  <2>2. CASE overlapped
    BY <2>1, <2>2, <1>1 DEF Alone
  <2>3. CASE ~overlapped
    <3>1. Live(run)
      BY <2>3, <1>3, LedgerAssumption DEF Alone, OneUnderWay, Live, LedgerAssumption
    <3>2. PICK t \in Task : t = run
      BY <1>3
    <3>3. Live(t) /\ job.of = t
      BY <3>1, <3>2, <1>3
    <3>4. \/ job.kind # "complete" /\ UNCHANGED <<phase, run>>
          \/ /\ run' = IF run = t THEN None ELSE run
             /\ phase' = [phase EXCEPT ![t] = "completed"]
      BY <1>3, <3>2
    <3>5. Alone'
      BY <3>3, <3>4, <1>1, <1>3, AddKeepsAlone
    <3> QED BY <2>1, <3>5
  <2> QED BY <2>2, <2>3
<1> QED
  BY <1>2, <1>3, Reports DEF IInv

LEMMA DesktopKeepsCharge ==
  ASSUME IInv, OneId, SessionBound, Alone, ~DistinctIds, Desktop
  PROVE  OneId' /\ SessionBound' /\ Alone'
<1> USE DEF Kind, Key, Status, Choice
<1>0. NoJob \in Job /\ session \in {"none", "open"}
  BY DEF NoJob, Job, IInv, TypeOK
<1>1. ASSUME NEW t \in Task, Submit(t)
      PROVE  OneId' /\ SessionBound' /\ Alone'
  <2> DEFINE job == [NoJob EXCEPT !.kind = "begin", !.key = SubmitKey, !.of = t]
  <2>1. job \in Job /\ job.kind = "begin" /\ job.of = t /\ job.key = SubmitKey
    BY <1>0 DEF NoJob, Job, SubmitKey
  <2>2. Enqueue(job)
    BY <1>1 DEF Submit
  <2> HIDE DEF job
  <2>3. Keyed(job)
    BY <2>1 DEF Keyed, SubmitKey, OneId
  <2>4. /\ phase[t] = "new" /\ phase' = [phase EXCEPT ![t] = "preparing"]
        /\ overlapped' = (overlapped \/ \E u \in Task : UnderWay(u))
        /\ UNCHANGED <<run, session, stored, begun>>
    BY <1>1 DEF Submit
  <2>5. OneId' /\ SessionBound'
    BY <2>1, <2>2, <2>3, <2>4, AddKeepsSession
  <2>6. Alone'
    BY <2>1, <2>2, <2>4, SubmitKeepsAlone
  <2> QED BY <2>5, <2>6
<1>2. ASSUME OpenSession
      PROVE  OneId' /\ SessionBound' /\ Alone'
  <2> DEFINE job == [NoJob EXCEPT !.key = "runtime"]
  <2>1. job \in Job /\ job.kind = "info" /\ job.of = None
    BY <1>0 DEF NoJob, Job
  <2>2. Enqueue(job) /\ UNCHANGED <<begun, overlapped, phase, run>>
    BY <1>2 DEF OpenSession, history
  <2> HIDE DEF job
  <2> QED BY <2>1, <2>2, <1>2, AddNoRun, OpenKeepsSession
<1>3. ASSUME NEW t \in Task, Deliver(t)
      PROVE  OneId' /\ SessionBound' /\ Alone'
  <2>1. /\ phase[t] = "ready" /\ run' = t /\ phase' = [phase EXCEPT ![t] = "running"]
        /\ UNCHANGED <<queue, pc, cur, owner, bound, session, stored, begun, overlapped>>
    BY <1>3 DEF Deliver, executor, history
  <2>2. OneId' /\ SessionBound'
    BY <2>1 DEF OneId, SessionBound, Early, Late, OpensAt
  <2> SUFFICES ASSUME ~overlapped
               PROVE  OneUnderWay' /\ BeginsFirst' /\ OneRun' /\ AtHome' /\ RunsOwnTask'
    BY <2>1, <2>2 DEF Alone
  <2>3. OneUnderWay /\ BeginsFirst /\ OneRun /\ AtHome /\ RunsOwnTask
    BY DEF Alone
  <2>4. phase \in [Task -> Phases] /\ begun \subseteq Task
    BY DEF IInv, TypeOK, Phases
  <2>5. /\ \A u \in Task : Live(u)' <=> Live(u)
        /\ \A u \in Task : UnderWay(u)' <=> UnderWay(u)
        /\ phase'[t] = "running"
        /\ \A u \in Task : phase[u] = "preparing" => phase'[u] = "preparing"
    BY <2>1, <2>4 DEF Live, UnderWay
  <2>6. OneUnderWay'
    BY <2>1, <2>3, <2>5 DEF OneUnderWay
  <2>7. ASSUME NEW i \in 1..Len(queue)
        PROVE  /\ Charges(queue[i]) => queue[i].of \in Task
               /\ queue[i].kind = "begin" => queue[i].of \in Task
    <3>1. queue[i] \in Job
      BY DEF IInv, TypeOK
    <3> QED BY <3>1 DEF Charges, Job, IInv, JobsFormed, Formed
  <2>8. /\ pc # "idle" /\ Charges(cur) => cur.of \in Task
        /\ pc \in {"begin", "prepare"} => cur.of \in Task
    BY StepKind DEF Charges, IInv, TypeOK, Job, Formed
  <2>9. BeginsFirst'
    BY <2>1, <2>3, <2>5, <2>7, <2>8 DEF BeginsFirst
  <2>10. \A u \in Task : phase'[u] \in {"ready", "running"} <=> Live(u)
    BY <2>5 DEF Live
  <2>11. OneRun'
    BY <2>1, <2>3, <2>7, <2>8, <2>10 DEF OneRun, Live
  <2>12. AtHome'
    BY <2>1, <2>3, <2>4, <2>10 DEF AtHome, Home, TaskFor, Live
  <2>13. RunsOwnTask'
    BY <2>1, <2>3 DEF RunsOwnTask
  <2> QED BY <2>6, <2>9, <2>11, <2>12, <2>13
<1>4. ASSUME NEW t \in Task, Undeliver(t)
      PROVE  OneId' /\ SessionBound' /\ Alone'
  <2> DEFINE job == [NoJob EXCEPT !.kind = "undelivered", !.key = ReportKey, !.of = t]
  <2>1. job \in Job /\ job.kind = "undelivered" /\ job.of = t /\ job.key = ReportKey
    BY <1>0 DEF NoJob, Job, SubmitKey, ReportKey
  <2>2. Enqueue(job)
    BY <1>4 DEF Undeliver
  <2> HIDE DEF job
  <2>3. Keyed(job)
    BY <2>1 DEF Keyed, SubmitKey, ReportKey, OneId
  <2>4. /\ phase[t] = "ready" /\ phase' = [phase EXCEPT ![t] = "gone"] /\ Live(t)
        /\ UNCHANGED <<run, session, stored, begun, overlapped>>
    BY <1>4 DEF Undeliver, Live, history
  <2>5. OneId' /\ SessionBound'
    BY <2>1, <2>2, <2>3, <2>4, AddKeepsSession
  <2>6. CASE ~overlapped
    <3>1. run # t
      BY <2>4, <2>6, LedgerAssumption DEF Alone, OneUnderWay, LedgerAssumption
    <3> QED BY <2>1, <2>2, <2>4, <2>5, <3>1, AddKeepsAlone
  <2>7. CASE overlapped
    BY <2>4, <2>5, <2>7 DEF Alone
  <2> QED BY <2>6, <2>7
<1>5. ASSUME NEW r \in Request, NEW c \in Choice, Answer(r, c)
      PROVE  OneId' /\ SessionBound' /\ Alone'
  <2> DEFINE job == [NoJob EXCEPT !.kind = "resolve", !.request = r, !.status = c]
  <2>1. /\ job \in Job /\ job.kind = "resolve" /\ job.of = None /\ job.key = "pending"
    BY <1>0 DEF NoJob, Job
  <2>2. /\ Enqueue(job) /\ Keyed(job)
        /\ UNCHANGED <<begun, overlapped, phase, run, session, stored>>
    BY <1>5, <2>1 DEF Answer, Keyed, desktop, history
  <2> HIDE DEF job
  <2> QED BY <2>1, <2>2, AddKeepsSession, AddNoRun
<1> QED
  BY <1>1, <1>2, <1>3, <1>4, <1>5 DEF Desktop

LEMMA RestartKeepsCharge ==
  ASSUME IInv, OneId, SessionBound, Alone, NewProcess
  PROVE  OneId' /\ SessionBound' /\ Alone'
<1>1. /\ queue' = <<>> /\ pc' = "idle" /\ cur'.key = "pending"
      /\ bound' = [k \in Key |-> None] /\ session' = "none" /\ begun' = {}
      /\ phase' = [t \in Task |-> IF phase[t] \in {"preparing", "ready"} THEN "gone" ELSE phase[t]]
      /\ UNCHANGED <<run, stored, overlapped>>
  BY DEF NewProcess, NoJob
<1>2. 1..Len(queue') = {}
  BY <1>1
<1>3. {"pending", "runtime"} \subseteq Key /\ run \in Task \cup {None}
  BY DEF Key, IInv, TypeOK
<1>4. OneId' /\ SessionBound'
  BY <1>1, <1>2, <1>3 DEF OneId, SessionBound, Early
<1>5. ASSUME ~overlapped PROVE OneUnderWay' /\ BeginsFirst' /\ OneRun' /\ AtHome' /\ RunsOwnTask'
  <2>1. OneUnderWay'
    BY <1>1, <1>3, <1>5 DEF Alone, OneUnderWay, UnderWay
  <2>2. BeginsFirst' /\ OneRun' /\ AtHome' /\ RunsOwnTask'
    BY <1>1, <1>2 DEF BeginsFirst, OneRun, AtHome, RunsOwnTask
  <2> QED BY <2>1, <2>2
<1> QED
  BY <1>1, <1>4, <1>5 DEF Alone

LEMMA ExecutorKeepsCharge ==
  ASSUME IInv, OneId, SessionBound, Alone, Executor
  PROVE  OneId' /\ SessionBound' /\ Alone'
<1>1. CASE FinishAction \/ ReferAction \/ FinishRun \/ ReferRun \/ CountUnsettled
  BY <1>1, QuietStep, QuietKeeps
<1>2. CASE \/ ObserveInfo \/ StartAction \/ VerifyAction
           \/ InterruptUndelivered \/ RequestApproval \/ ResolveApproval
  <2>1. pc \notin {"idle", "begin", "prepare"}
    BY <1>2 DEF ObserveInfo, StartAction, VerifyAction, InterruptUndelivered,
                RequestApproval, ResolveApproval, At
  <2> QED BY <1>2, <2>1, LastStep, DoneKeepsCharge
<1>3. CASE SettleTask
  <2>1. /\ pc = "settle" /\ JobDone /\ UNCHANGED <<desktop, begun, overlapped>>
        /\ bound' = bound \/ bound' = [bound EXCEPT ![cur.key] = None]
    BY <1>3 DEF SettleTask, At, history
  <2> QED BY <2>1, DoneKeepsCharge
<1> QED
  BY <1>1, <1>2, <1>3, TakeKeepsCharge, BeginKeepsCharge, PrepareKeepsCharge DEF Executor

LEMMA NextCharge ==
  ASSUME IInv, OneId, SessionBound, Alone, ~DistinctIds, [Next]_vars
  PROVE  OneId' /\ SessionBound' /\ Alone'
<1>1. CASE UNCHANGED vars
  BY <1>1, QuietKeeps DEF vars, executor, history
<1>2. CASE Degrade \/ EndEpisode
  BY <1>2, QuietStep, QuietKeeps
<1>3. CASE CleanRestart \/ CrashRestart
  BY <1>3, RestartKeepsCharge DEF CleanRestart, CrashRestart
<1> QED
  BY <1>1, <1>2, <1>3, ExecutorKeepsCharge, DesktopKeepsCharge, HermesKeepsCharge DEF Next

LEMMA InitCharge == Init => OneId /\ SessionBound /\ Alone
<1> SUFFICES ASSUME Init PROVE OneId /\ SessionBound /\ Alone
  OBVIOUS
<1>1. 1..Len(queue) = {} /\ pc = "idle" /\ cur.key = "pending" /\ ~stored
  BY DEF Init, NoJob
<1>2. OneId
  BY <1>1 DEF OneId
<1>3. SessionBound
  BY <1>1 DEF SessionBound, Early, Init, Key
<1>4. Alone
  BY <1>1 DEF Alone, OneUnderWay, UnderWay, BeginsFirst, OneRun, AtHome, RunsOwnTask, Init
<1> QED
  BY <1>2, <1>3, <1>4

\* As long as one prompt at a time is submitted, whatever map() charges to a
\* task is what the run of that task did: the frames of a run, the report of
\* a prompt that was not delivered and the end of the run.  The hypothesis is
\* the gateway that gives one id: with two, run ledger_stored refutes it.
THEOREM RunsAreCharged == ASSUME ~DistinctIds PROVE Spec => []RunsOwnTask
<1>2. Init => OneId /\ SessionBound /\ Alone
  BY InitCharge
<1>3. IInv /\ (OneId /\ SessionBound /\ Alone) /\ [Next]_vars
        => (OneId /\ SessionBound /\ Alone)'
  BY NextCharge
<1>4. Alone => RunsOwnTask
  BY DEF Alone, RunsOwnTask
<1> QED
  BY Invariant, <1>2, <1>3, <1>4, PTL DEF Spec
=============================================================================

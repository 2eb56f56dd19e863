----------------------------- MODULE Degradation -----------------------------
(***************************************************************************)
(* The machine self's degradation engine (sentience/degradation), with the *)
(* capability registry that feeds it and the phrase outbox it fills.       *)
(*                                                                         *)
(* Three threads of one process share the SQLite database:                 *)
(*   - the executor worker registers capability transitions and then calls *)
(*     on_transition for each of them;                                     *)
(*   - the maintenance thread calls tick once a second;                    *)
(*   - the Qt thread delivers the phrases of the outbox.                   *)
(* The engine has no lock of its own: a call reads the episode row on one  *)
(* connection, decides, and commits its projection in a later transaction  *)
(* whose UPDATE has no guard but the episode id.  So a call is two steps   *)
(* here: the read, which leaves a decision in call[p], and the commit.     *)
(*                                                                         *)
(* A timestamp is kept as its age, which saturates at MaxAge: the code     *)
(* only ever compares an elapsed time with a configured interval.  A       *)
(* monotonic reading also keeps the boot it was taken in, since readings   *)
(* of two boots are not comparable.                                        *)
(***************************************************************************)
EXTENDS Integers, Sequences, FiniteSets

CONSTANTS
  Capability,          \* capability identifiers
  Task,                \* task identifiers
  NominalRequirement,  \* capability_definitions.nominal_requirement
  MaterialClass,       \* capability_definitions.material_class
  TaskRequires,        \* capabilities a task requires
  UnsafeIfLost,        \* those of them it cannot safely lose
  Volatile,            \* capabilities a new boot must revalidate
  AggregationWindow,   \* settings.aggregation_window_seconds
  RecoveryStability,   \* settings.recovery_stability_seconds
  FlapSuppression,     \* settings.flap_suppression_seconds
  MaxAge,              \* ages saturate here
  MaxEpisodes,         \* bound: episodes in the table
  MaxBatch,            \* bound: transitions registered by one executor job
  MaxBoots,            \* bound: process incarnations
  MaxFailures          \* bound: calls that end in an exception

ASSUME DegradationAssumption ==
  /\ NominalRequirement \in [Capability -> {"required", "optional", "disabled"}]
  /\ MaterialClass \in
       [Capability -> {"cognitive", "operational", "peripheral", "cosmetic"}]
  /\ TaskRequires \in [Task -> SUBSET Capability]
  /\ UnsafeIfLost \in [Task -> SUBSET Capability]
  /\ Volatile \subseteq Capability
  /\ AggregationWindow \in Nat /\ RecoveryStability \in Nat
  /\ FlapSuppression \in Nat
  /\ MaxAge \in Nat
  /\ AggregationWindow <= MaxAge /\ RecoveryStability <= MaxAge
  /\ FlapSuppression <= MaxAge
  /\ MaxEpisodes \in Nat /\ MaxBatch \in Nat /\ MaxBoots \in Nat \ {0}
  /\ MaxFailures \in Nat

Null == -1                       \* SQL NULL for an age
Age == 0..MaxAge
Episode == 1..MaxEpisodes
Boot == 0..MaxBoots              \* 0: no monotonic reading
Thread == {"executor", "maintenance"}
Phrase == {"degradation", "recovery"} \X Episode
Lifecycle == {"READY", "LOSS", "PENDING"}
Impact == {"none", "cosmetic", "peripheral", "cognitive", "critical"}
EpisodeState == {"NONE", "NOMINAL", "DEGRADING", "DEGRADED", "RECOVERING"}
TaskState == {"absent", "active", "checkpoint_required", "interrupted", "closed"}
Op == {"check", "start", "aggregate", "enter", "cancel", "recover",
       "return", "finish"}

\* The task a transition belongs to, if any.
TaskRef == {{}} \cup {{t} : t \in Task}

Transition == [cap : Capability, current : Lifecycle, material : BOOLEAN,
               impact : Impact, task : TaskRef]

EpisodeRow == [state : EpisodeState, severity : {"cognitive", "critical"},
               lost : SUBSET Capability, required : SUBSET Capability,
               tasks : SUBSET Task, timer_boot : Boot,
               started_age : Age \cup {Null}, started_boot : Boot,
               recovery_age : Age \cup {Null}, recovery_boot : Boot,
               recovered_age : Age \cup {Null}, recovered_boot : Boot]

\* The row of an episode that does not exist yet.
NoRow == [state |-> "NONE", severity |-> "cognitive", lost |-> {}, required |-> {},
          tasks |-> {}, timer_boot |-> 0, started_age |-> Null, started_boot |-> 0,
          recovery_age |-> Null, recovery_boot |-> 0, recovered_age |-> Null,
          recovered_boot |-> 0]

\* A decided call waiting for its transaction: the projection it will commit,
\* the episode it read, the age of its timestamp and the values it computed.
NoCall == [op |-> "none", ep |-> 0, age |-> 0, row |-> NoRow, task |-> {}]
Call == {NoCall}
          \cup [op : Op, ep : Episode, age : Age, row : EpisodeRow, task : TaskRef]

VARIABLES
  current,     \* capability_current.lifecycle_state
  taskState,   \* tasks.state
  episode,     \* degradation_episodes, in order of started_at
  outbox,      \* outbox rows by idempotency key
  batch,       \* transitions the executor job registered and did not apply yet
  applying,    \* the job has begun to call on_transition
  call,        \* per thread: the decided call, if any
  qt,          \* the dispatcher on the Qt thread
  boot,        \* the running incarnation
  failures,    \* exceptions so far (bound)
  unbroken,    \* history: how long each capability has been READY without a break
  shown        \* history: how often each phrase reached the user

vars == <<current, taskState, episode, outbox, batch, applying, call, qt, boot,
          failures, unbroken, shown>>

QtIdle == [pc |-> "idle", phrase |-> <<"degradation", 0>>]
QtState == {QtIdle} \cup [pc : {"claimed", "shown"}, phrase : Phrase]

TypeOK ==
  /\ current \in [Capability -> Lifecycle]
  /\ taskState \in [Task -> TaskState]
  /\ episode \in [Episode -> EpisodeRow]
  /\ outbox \in [Phrase -> {"none", "pending", "claimed", "emitted"}]
  /\ batch \in Seq(Transition)
  /\ applying \in BOOLEAN
  /\ call \in [Thread -> Call]
  /\ qt \in QtState
  /\ boot \in 1..MaxBoots
  /\ failures \in 0..MaxFailures
  /\ unbroken \in [Capability -> Age \cup {Null}]
  /\ shown \in [Phrase -> Nat]

-----------------------------------------------------------------------------
(***************************************************************************)
(* Pure parts: impact and severity of a loss, what an episode requires.    *)
(***************************************************************************)

ClassifyTaskImpact(c, tk) ==
  LET requires == \E t \in tk : c \in TaskRequires[t]
      unsafe   == \E t \in tk : c \in UnsafeIfLost[t]
  IN  IF requires /\ unsafe THEN "critical"
      ELSE IF requires \/ (/\ NominalRequirement[c] = "required"
                           /\ MaterialClass[c] \in {"cognitive", "operational"})
           THEN "cognitive"
      ELSE IF MaterialClass[c] = "cosmetic" THEN "cosmetic"
      ELSE IF NominalRequirement[c] = "optional" THEN "peripheral" ELSE "none"

\* Only cognitive and critical losses reach an episode.
FromImpact(i) == IF i = "critical" THEN "critical" ELSE "cognitive"
MaximumSeverity(a, b) == IF a = "critical" THEN a ELSE b

\* CapabilityRegistry.transition: the transition it records and returns.
MakeTransition(c, s, expected, tk) ==
  LET impact == IF s = "LOSS" THEN ClassifyTaskImpact(c, tk) ELSE "none"
  IN  [cap |-> c, current |-> s,
       material |-> ~expected /\ s = "LOSS" /\ impact \in {"cognitive", "critical"},
       impact |-> impact, task |-> tk]

\* Mutant: the lost capability itself is forgotten.
RequiredSnapshotWithoutLost(lost, tk) ==
  {c \in Capability : NominalRequirement[c] = "required" /\ current[c] = "READY"}
    \cup (UNION {TaskRequires[t] : t \in tk})

\* What must be READY again before the episode may end: the nominal profile
\* that was READY, what the task requires, and the lost capability itself.
RequiredSnapshot(lost, tk) ==
  {c \in Capability : NominalRequirement[c] = "required" /\ current[c] = "READY"}
    \cup (UNION {TaskRequires[t] : t \in tk}) \cup {lost}

\* Mutant: one reconnecting service is enough.
AnyRequiredRestored(row) == \E c \in row.required : current[c] = "READY"

AllRequiredRestored(row) == \A c \in row.required : current[c] = "READY"

Active == {e \in Episode : episode[e].state \notin {"NONE", "NOMINAL"}}
Unused == {e \in Episode : episode[e].state = "NONE"}

\* _active_row: the latest started of the open episodes.
IsActiveRow(e) == e \in Active /\ \A f \in Active : f <= e

\* _recent_recovered_for_flap: the last recovered episode, if recent enough.
\* Its elapsed time is a difference of monotonic readings when timer_boot is
\* this boot and of wall clocks otherwise; both are the age.
Recovered == {e \in Episode : /\ episode[e].state = "NOMINAL"
                              /\ episode[e].recovered_age # Null}
RecentRecoveredForFlap(e) ==
  /\ e \in Recovered
  /\ \A f \in Recovered : episode[e].recovered_age <= episode[f].recovered_age
  /\ episode[e].recovered_age < FlapSuppression

\* The row a new episode is inserted at: started_at orders the table.
NextRow(e) == e \in Unused /\ \A f \in Unused : e <= f

-----------------------------------------------------------------------------
(***************************************************************************)
(* The capability registry, written by the executor worker.  One job       *)
(* registers the transitions of an event (session.info carries several,    *)
(* each capability once; update_capability exactly one) and then applies   *)
(* them in order.                                                          *)
(***************************************************************************)

Idle(p) == call[p].op = "none"

RegisterTransition(c, s, expected, tk) ==
  LET t == MakeTransition(c, s, expected, tk)
  IN  /\ ~applying /\ Idle("executor")
      /\ Len(batch) < MaxBatch
      /\ \A i \in 1..Len(batch) : batch[i].cap # c
      /\ \A k \in tk : taskState[k] # "absent"
      /\ current' = [current EXCEPT ![c] = s]
      /\ unbroken' = [unbroken EXCEPT ![c] =
                        IF s # "READY" THEN Null
                        ELSE IF current[c] = "READY" THEN @ ELSE 0]
      /\ batch' = Append(batch, t)
      /\ UNCHANGED <<taskState, episode, outbox, applying, call, qt, boot,
                     failures, shown>>

-----------------------------------------------------------------------------
(***************************************************************************)
(* on_transition and tick up to their transaction.                         *)
(***************************************************************************)

Decided(op, e, age, row, tk) ==
  IF op = "none" THEN NoCall
  ELSE [op |-> op, ep |-> e, age |-> age, row |-> row, task |-> tk]

\* Mutant: only a tick would leave DEGRADED.
ReconcileOpKeepsDegraded(row) ==
  IF ~AllRequiredRestored(row)
  THEN IF row.state = "RECOVERING" THEN "return" ELSE "none"
  ELSE IF row.state = "DEGRADING" THEN "cancel" ELSE "none"

\* _reconcile_recovery
ReconcileOp(row) ==
  IF ~AllRequiredRestored(row)
  THEN IF row.state = "RECOVERING" THEN "return" ELSE "none"
  ELSE IF row.state = "DEGRADING" THEN "cancel"
  ELSE IF row.state = "DEGRADED" THEN "recover" ELSE "none"

\* The row _start_episode inserts for loss t.
StartedRow(t) ==
  [NoRow EXCEPT !.state = "DEGRADING", !.severity = FromImpact(t.impact),
                !.lost = {t.cap}, !.required = RequiredSnapshot(t.cap, t.task),
                !.tasks = t.task, !.timer_boot = boot, !.started_boot = boot]

\* The values _aggregate_loss computes from the row it was given.
AggregatedRow(row, t) ==
  [NoRow EXCEPT !.state = IF row.state \in {"RECOVERING", "NOMINAL"} THEN "DEGRADED"
                          ELSE row.state,
                !.severity = MaximumSeverity(row.severity, FromImpact(t.impact)),
                !.lost = row.lost \cup {t.cap},
                !.required = row.required \cup RequiredSnapshot(t.cap, t.task),
                !.tasks = row.tasks \cup t.task]

\* The job goes on with the next transition once this one is committed.
Decide(op, e, row, tk) ==
  /\ batch' = Tail(batch)
  /\ call' = [call EXCEPT !["executor"] = Decided(op, e, 0, row, tk)]
  /\ applying' = (op # "none" \/ Tail(batch) # <<>>)
  /\ UNCHANGED <<current, taskState, episode, outbox, qt, boot, failures,
                 unbroken, shown>>

Applicable == batch # <<>> /\ Idle("executor")

\* READY, or a loss that is expected or immaterial.
ApplyReconcile ==
  /\ Applicable /\ ~Head(batch).material
  /\ \/ /\ Active = {}
        /\ Decide("none", 0, NoRow, {})
     \/ \E e \in Episode : /\ IsActiveRow(e)
                           /\ Decide(ReconcileOp(episode[e]), e, NoRow, {})

\* Mutant: an open episode is not looked for.
ApplyStartAlways ==
  /\ Applicable /\ Head(batch).material
  /\ ~(\E e \in Episode : RecentRecoveredForFlap(e))
  /\ \E e \in Episode : /\ NextRow(e)
                        /\ Decide("start", e, StartedRow(Head(batch)), Head(batch).task)

\* A job that would need one more row than MaxEpisodes waits here for good.
ApplyStart ==
  /\ Applicable /\ Head(batch).material
  /\ Active = {}
  /\ ~(\E e \in Episode : RecentRecoveredForFlap(e))
  /\ \E e \in Episode : /\ NextRow(e)
                        /\ Decide("start", e, StartedRow(Head(batch)), Head(batch).task)

ApplyAggregate ==
  /\ Applicable /\ Head(batch).material
  /\ \E e \in Episode :
       /\ IsActiveRow(e) \/ (Active = {} /\ RecentRecoveredForFlap(e))
       /\ Decide("aggregate", e, AggregatedRow(episode[e], Head(batch)),
                 Head(batch).task)

\* tick reads the open row, of which it keeps what TickCheck needs; with
\* nothing due it does nothing.
TickDue(row) ==
  \/ row.state = "DEGRADING" /\ row.started_age >= AggregationWindow
  \/ row.state = "RECOVERING"

CheckedRow(row) == [NoRow EXCEPT !.state = row.state, !.required = row.required,
                                 !.recovery_age = row.recovery_age]

TickRead ==
  /\ Idle("maintenance")
  /\ \E e \in Episode :
       /\ IsActiveRow(e) /\ TickDue(episode[e])
       /\ call' = [call EXCEPT !["maintenance"] =
                     Decided("check", e, 0, CheckedRow(episode[e]), {})]
  /\ UNCHANGED <<current, taskState, episode, outbox, batch, applying, qt, boot,
                 failures, unbroken, shown>>

\* ... and then, on another connection, the state of what the row requires.
TickOp(row) ==
  IF row.state = "DEGRADING"
  THEN IF AllRequiredRestored(row) THEN "cancel" ELSE "enter"
  ELSE IF ~AllRequiredRestored(row) THEN "return"
  ELSE IF row.recovery_age >= RecoveryStability THEN "finish" ELSE "none"

TickCheck ==
  LET c == call["maintenance"]
  IN  /\ c.op = "check"
      /\ call' = [call EXCEPT !["maintenance"] =
                    Decided(TickOp(c.row), c.ep, c.age, NoRow, {})]
      /\ UNCHANGED <<current, taskState, episode, outbox, batch, applying, qt,
                     boot, failures, unbroken, shown>>

-----------------------------------------------------------------------------
(***************************************************************************)
(* The transactions.  Each UPDATE names the episode and nothing else, and  *)
(* writes only the columns listed; INSERT OR IGNORE leaves a phrase that   *)
(* is already in the outbox alone.                                         *)
(***************************************************************************)

Enqueue(kind, e) ==
  outbox' = [outbox EXCEPT ![<<kind, e>>] = IF @ = "none" THEN "pending" ELSE @]

\* The call returns; the executor job ends with its last transition.
Return(p) ==
  /\ call' = [call EXCEPT ![p] = NoCall]
  /\ applying' = IF p = "executor" THEN batch # <<>> ELSE applying

\* A critical loss stops the task it belongs to, unless that is over.
StopTask(critical, tk) ==
  taskState' = [t \in Task |-> IF critical /\ t \in tk /\ taskState[t] # "closed"
                               THEN "checkpoint_required" ELSE taskState[t]]

StartEpisode(p) ==
  LET c == call[p]
  IN  /\ c.op = "start"
      /\ episode' = [episode EXCEPT ![c.ep] = [c.row EXCEPT !.started_age = c.age]]
      /\ StopTask(c.row.severity = "critical", c.task)
      /\ Return(p)
      /\ UNCHANGED <<current, outbox, batch, qt, boot, failures, unbroken, shown>>

\* Mutant: the timer is taken over by the boot that aggregates.
AggregateLossRetimed(p) ==
  LET c == call[p]
  IN  /\ c.op = "aggregate"
      /\ episode' = [episode EXCEPT ![c.ep] =
           [@ EXCEPT !.state = c.row.state, !.severity = c.row.severity,
                     !.lost = c.row.lost, !.tasks = c.row.tasks,
                     !.required = c.row.required, !.recovery_age = Null,
                     !.recovered_age = Null, !.recovered_boot = 0,
                     !.timer_boot = boot]]
      /\ StopTask(c.row.severity = "critical", c.task)
      /\ Return(p)
      /\ UNCHANGED <<current, outbox, batch, qt, boot, failures, unbroken, shown>>

\* Mutant: only the loss that starts an episode stops its task.
AggregateLossWithoutStop(p) ==
  LET c == call[p]
  IN  /\ c.op = "aggregate"
      /\ episode' = [episode EXCEPT ![c.ep] =
           [@ EXCEPT !.state = c.row.state, !.severity = c.row.severity,
                     !.lost = c.row.lost, !.tasks = c.row.tasks,
                     !.required = c.row.required, !.recovery_age = Null,
                     !.recovered_age = Null, !.recovered_boot = 0]]
      /\ Return(p)
      /\ UNCHANGED <<current, taskState, outbox, batch, qt, boot, failures,
                     unbroken, shown>>

\* recovery_started_monotonic_ns is left behind, recovery_started_at is not.
AggregateLoss(p) ==
  LET c == call[p]
  IN  /\ c.op = "aggregate"
      /\ episode' = [episode EXCEPT ![c.ep] =
           [@ EXCEPT !.state = c.row.state, !.severity = c.row.severity,
                     !.lost = c.row.lost, !.tasks = c.row.tasks,
                     !.required = c.row.required, !.recovery_age = Null,
                     !.recovered_age = Null, !.recovered_boot = 0]]
      /\ StopTask(c.row.severity = "critical", c.task)
      /\ Return(p)
      /\ UNCHANGED <<current, outbox, batch, qt, boot, failures, unbroken, shown>>

\* Mutant: the state column gets a word that is no state.
EnterDegradedMisspelt(p) ==
  LET c == call[p]
  IN  /\ c.op = "enter"
      /\ episode' = [episode EXCEPT ![c.ep].state = "DEGRADE"]
      /\ Enqueue("degradation", c.ep)
      /\ Return(p)
      /\ UNCHANGED <<current, taskState, batch, qt, boot, failures, unbroken, shown>>

EnterDegraded(p) ==
  LET c == call[p]
  IN  /\ c.op = "enter"
      /\ episode' = [episode EXCEPT ![c.ep].state = "DEGRADED"]
      /\ Enqueue("degradation", c.ep)
      /\ Return(p)
      /\ UNCHANGED <<current, taskState, batch, qt, boot, failures, unbroken, shown>>

CancelTransient(p) ==
  LET c == call[p]
  IN  /\ c.op = "cancel"
      /\ episode' = [episode EXCEPT ![c.ep] =
           [@ EXCEPT !.state = "NOMINAL", !.recovered_age = c.age,
                     !.recovered_boot = boot]]
      /\ Return(p)
      /\ UNCHANGED <<current, taskState, outbox, batch, qt, boot, failures,
                     unbroken, shown>>

StartRecovery(p) ==
  LET c == call[p]
  IN  /\ c.op = "recover"
      /\ episode' = [episode EXCEPT ![c.ep] =
           [@ EXCEPT !.state = "RECOVERING", !.recovery_age = c.age,
                     !.recovery_boot = boot, !.timer_boot = boot]]
      /\ Return(p)
      /\ UNCHANGED <<current, taskState, outbox, batch, qt, boot, failures,
                     unbroken, shown>>

ReturnToDegraded(p) ==
  LET c == call[p]
  IN  /\ c.op = "return"
      /\ episode' = [episode EXCEPT ![c.ep] =
           [@ EXCEPT !.state = "DEGRADED", !.recovery_age = Null,
                     !.recovery_boot = 0]]
      /\ Return(p)
      /\ UNCHANGED <<current, taskState, outbox, batch, qt, boot, failures,
                     unbroken, shown>>

FinishRecovery(p) ==
  LET c == call[p]
  IN  /\ c.op = "finish"
      /\ episode' = [episode EXCEPT ![c.ep] =
           [@ EXCEPT !.state = "NOMINAL", !.recovered_age = c.age,
                     !.recovered_boot = boot]]
      /\ Enqueue("recovery", c.ep)
      /\ Return(p)
      /\ UNCHANGED <<current, taskState, batch, qt, boot, failures, unbroken, shown>>

\* The transaction raises (disk full, locked): a tick is only recorded as a
\* fault, an executor job loses the rest of its transitions.
CallFails(p) ==
  /\ ~Idle(p) /\ failures < MaxFailures
  /\ failures' = failures + 1
  /\ call' = [call EXCEPT ![p] = NoCall]
  /\ batch' = IF p = "executor" THEN <<>> ELSE batch
  /\ applying' = IF p = "executor" THEN FALSE ELSE applying
  /\ UNCHANGED <<current, taskState, episode, outbox, qt, boot, unbroken, shown>>

-----------------------------------------------------------------------------
(***************************************************************************)
(* OutboxDispatcher.dispatch_one on the Qt thread: claim, show, record.    *)
(***************************************************************************)

\* Mutant: a claim left by a dead process is taken over.
ClaimAgain(k) ==
  /\ qt = QtIdle
  /\ outbox[k] \in {"pending", "claimed"}
  /\ k[1] = "recovery" => outbox[<<"degradation", k[2]>>] # "pending"
  /\ outbox' = [outbox EXCEPT ![k] = "claimed"]
  /\ qt' = [pc |-> "claimed", phrase |-> k]
  /\ UNCHANGED <<current, taskState, episode, batch, applying, call, boot,
                 failures, unbroken, shown>>

\* created_at orders the claims: an episode's recovery phrase never precedes
\* its degradation phrase.
Claim(k) ==
  /\ qt = QtIdle
  /\ outbox[k] = "pending"
  /\ k[1] = "recovery" => outbox[<<"degradation", k[2]>>] # "pending"
  /\ outbox' = [outbox EXCEPT ![k] = "claimed"]
  /\ qt' = [pc |-> "claimed", phrase |-> k]
  /\ UNCHANGED <<current, taskState, episode, batch, applying, call, boot,
                 failures, unbroken, shown>>

\* speak puts the phrase in the transcript and then calls the voice.
Show ==
  /\ qt.pc = "claimed"
  /\ shown' = [shown EXCEPT ![qt.phrase] = @ + 1]
  /\ qt' = [qt EXCEPT !.pc = "shown"]
  /\ UNCHANGED <<current, taskState, episode, outbox, batch, applying, call,
                 boot, failures, unbroken>>

\* When the voice raises, dispatch_one displays the phrase itself.
SpeakFails ==
  /\ qt.pc = "claimed" /\ failures < MaxFailures
  /\ failures' = failures + 1
  /\ shown' = [shown EXCEPT ![qt.phrase] = @ + 2]
  /\ qt' = [qt EXCEPT !.pc = "shown"]
  /\ UNCHANGED <<current, taskState, episode, outbox, batch, applying, call,
                 boot, unbroken>>

MarkEmitted ==
  /\ qt.pc = "shown"
  /\ outbox' = [outbox EXCEPT ![qt.phrase] = "emitted"]
  /\ qt' = QtIdle
  /\ UNCHANGED <<current, taskState, episode, batch, applying, call, boot,
                 failures, unbroken, shown>>

\* Any exception gives the claim back, also one raised after the display.
DispatchFails ==
  /\ qt # QtIdle /\ failures < MaxFailures
  /\ failures' = failures + 1
  /\ outbox' = [outbox EXCEPT ![qt.phrase] = "pending"]
  /\ qt' = QtIdle
  /\ UNCHANGED <<current, taskState, episode, batch, applying, call, boot,
                 unbroken, shown>>

-----------------------------------------------------------------------------
(***************************************************************************)
(* Tasks, time, and the end of a process.                                  *)
(***************************************************************************)

CreateTask(t) ==
  /\ taskState[t] = "absent"
  /\ taskState' = [taskState EXCEPT ![t] = "active"]
  /\ UNCHANGED <<current, episode, outbox, batch, applying, call, qt, boot,
                 failures, unbroken, shown>>

\* TaskLedger.finish and interrupt: neither touches a task that is over.
\* completed and cancelled are "closed"; completed_unverified and interrupted
\* may still change.
EndTask(t, s) ==
  /\ taskState[t] \notin {"absent", "closed"}
  /\ s \in {"interrupted", "closed"} \ {taskState[t]}
  /\ taskState' = [taskState EXCEPT ![t] = s]
  /\ UNCHANGED <<current, episode, outbox, batch, applying, call, qt, boot,
                 failures, unbroken, shown>>

Older(a) == IF a = Null \/ a = MaxAge THEN a ELSE a + 1

Advance ==
  /\ episode' = [e \in Episode |->
       [episode[e] EXCEPT !.started_age = Older(@), !.recovery_age = Older(@),
                          !.recovered_age = Older(@)]]
  /\ call' = [p \in Thread |-> IF Idle(p) THEN call[p]
                               ELSE [call[p] EXCEPT !.age = Older(@)]]
  /\ unbroken' = [c \in Capability |-> Older(unbroken[c])]
  /\ UNCHANGED <<current, taskState, outbox, batch, applying, qt, boot,
                 failures, shown>>

\* _install_initial_exact_state registers every capability: the volatile ones
\* wait for revalidation, the others are probed; a failed probe or integrity
\* check is a loss.  The engine is told of none of it.
InitialState(failed) ==
  [c \in Capability |-> IF c \in failed THEN "LOSS"
                        ELSE IF c \in Volatile THEN "PENDING" ELSE "READY"]

ReadySince(cur) == [c \in Capability |-> IF cur[c] = "READY" THEN 0 ELSE Null]

\* A new process on the same database.
NewBoot ==
  /\ boot < MaxBoots
  /\ boot' = boot + 1
  /\ \E failed \in SUBSET Capability : current' = InitialState(failed)
  /\ unbroken' = ReadySince(current')
  /\ batch' = <<>> /\ applying' = FALSE
  /\ call' = [p \in Thread |-> NoCall]
  /\ qt' = QtIdle
  /\ UNCHANGED <<episode, outbox, failures, shown>>

\* stop() lets the threads finish what they do.
Restart ==
  /\ batch = <<>> /\ qt = QtIdle /\ \A p \in Thread : Idle(p)
  /\ NewBoot
  /\ UNCHANGED taskState

\* A killed process leaves an open boot session; start_boot then interrupts
\* the tasks that were active.
Crash ==
  /\ NewBoot
  /\ taskState' = [t \in Task |-> IF taskState[t] = "active" THEN "interrupted"
                                  ELSE taskState[t]]

-----------------------------------------------------------------------------

Init ==
  /\ current \in {InitialState(failed) : failed \in SUBSET Capability}
  /\ taskState = [t \in Task |-> "absent"]
  /\ episode = [e \in Episode |-> NoRow]
  /\ outbox = [k \in Phrase |-> "none"]
  /\ batch = <<>> /\ applying = FALSE
  /\ call = [p \in Thread |-> NoCall]
  /\ qt = QtIdle
  /\ boot = 1 /\ failures = 0
  /\ unbroken = ReadySince(current)
  /\ shown = [k \in Phrase |-> 0]

Commit(p) ==
  \/ StartEpisode(p) \/ AggregateLoss(p) \/ EnterDegraded(p) \/ CancelTransient(p)
  \/ StartRecovery(p) \/ ReturnToDegraded(p) \/ FinishRecovery(p)

ApplyTransition == ApplyReconcile \/ ApplyStart \/ ApplyAggregate
Dispatch == (\E k \in Phrase : Claim(k)) \/ Show \/ MarkEmitted

Next ==
  \/ \E c \in Capability, s \in Lifecycle, expected \in BOOLEAN, tk \in TaskRef :
       RegisterTransition(c, s, expected, tk)
  \/ ApplyTransition
  \/ TickRead \/ TickCheck
  \/ \E p \in Thread : Commit(p) \/ CallFails(p)
  \/ Dispatch \/ SpeakFails \/ DispatchFails
  \/ \E t \in Task : CreateTask(t)
  \/ \E t \in Task, s \in TaskState : EndTask(t, s)
  \/ Advance
  \/ Restart \/ Crash

Spec == Init /\ [][Next]_vars

\* The executor and the maintenance loop keep running, the Qt timer keeps
\* polling the outbox and time passes.  Nothing makes a capability change, a
\* task end, a call fail or a process die.
Fairness ==
  /\ WF_vars(ApplyTransition) /\ WF_vars(Commit("executor"))
  /\ WF_vars(TickRead) /\ WF_vars(TickCheck) /\ WF_vars(Commit("maintenance"))
  /\ WF_vars(\E k \in Phrase : Claim(k)) /\ WF_vars(Show) /\ WF_vars(MarkEmitted)
  /\ WF_vars(Advance)

\* The behaviours in which a tick never overlaps an executor job, as if the
\* engine had a lock that both held.
NonOverlap == Idle("maintenance") \/ (batch = <<>> /\ Idle("executor"))
SerialNext == Next /\ NonOverlap'
SerialSpec == Init /\ [][SerialNext]_vars
SerialFairSpec == SerialSpec /\ Fairness

-----------------------------------------------------------------------------
(***************************************************************************)
(* Properties.                                                             *)
(***************************************************************************)

\* Whatever was lost in an episode is among what the episode waits for, also
\* when the columns are written from a row read before another commit
\* (_required_snapshot, _aggregate_loss).
LostWithinRequired == \A e \in Episode : episode[e].lost \subseteq episode[e].required

OnceEach == \A k \in Phrase : shown[k] <= 1

\* As long as no call raises, each phrase reaches the user at most once,
\* whatever ticks overlap, episodes reopen or processes die (idempotency keys
\* and claims of the outbox).
PhraseAtMostOnce == failures = 0 => OnceEach

\* _elapsed_seconds subtracts monotonic readings when timer_boot_id is this
\* boot: the reading it uses in the row's state was then taken in this boot.
\* One timer_boot_id stands for three readings that are written at different
\* times, by processes that may have died since.
MonotonicComparable ==
  \A e \in Episode :
    LET row == episode[e]
        taken == CASE row.state = "DEGRADING" -> row.started_boot
                   [] row.state = "RECOVERING" -> row.recovery_boot
                   [] row.state = "NOMINAL" /\ row.recovered_age # Null -> row.recovered_boot
                   [] OTHER -> boot
    IN  row.timer_boot = boot => taken = boot

\* A critical episode has stopped a task: one that it affects was taken out of
\* the active state, and no later step makes it active again.
CriticalStopsTask ==
  \A e \in Episode : episode[e].severity = "critical" =>
    \E t \in episode[e].tasks : taskState[t] \notin {"absent", "active"}

\* There is one open episode at a time: _active_row reads only the latest, so
\* an older open one would be left behind.
AtMostOneActive == \A e, f \in Active : e = f

\* An episode ends only when all it lost and all it requires is READY, and a
\* recovery only when that has lasted without a break for the stability
\* interval.
RecoveryIsReal ==
  [][\A e \in Episode :
       e \in Active /\ episode'[e].state = "NOMINAL" =>
         \A c \in episode[e].lost \cup episode[e].required :
           /\ current[c] = "READY"
           /\ episode[e].state = "RECOVERING" => unbroken[c] >= RecoveryStability]_vars

\* Once every capability stays READY, HAL comes back to nominal for good and no
\* phrase waits any longer to be shown.
ReturnsToNominal ==
  <>[](\A c \in Capability : current[c] = "READY")
    => <>[](Active = {} /\ \A k \in Phrase : outbox[k] # "pending")
=============================================================================

-------------------------- MODULE DegradationProofs --------------------------
(***************************************************************************)
(* What holds of Degradation for every set of capabilities and tasks and   *)
(* every choice of the intervals and bounds.                               *)
(***************************************************************************)
EXTENDS Degradation, SequenceTheorems, TLAPS

-----------------------------------------------------------------------------
(***************************************************************************)
(* Types of the values the actions compute.                                *)
(***************************************************************************)

\* A transition the registry makes is one.
LEMMA MakeTransitionType ==
  ASSUME NEW c \in Capability, NEW s \in Lifecycle, NEW expected \in BOOLEAN,
         NEW tk \in TaskRef
  PROVE  MakeTransition(c, s, expected, tk) \in Transition
BY DEF MakeTransition, ClassifyTaskImpact, Transition, Impact, Lifecycle

\* The row of no episode has the type of a row.
LEMMA NoRowType == NoRow \in EpisodeRow
BY DegradationAssumption
   DEF NoRow, EpisodeRow, EpisodeState, Boot, Age, Null, DegradationAssumption

\* _required_snapshot yields capabilities, the lost one among them.
LEMMA RequiredSnapshotType ==
  ASSUME NEW c \in Capability, NEW tk \in TaskRef
  PROVE  /\ RequiredSnapshot(c, tk) \in SUBSET Capability
         /\ c \in RequiredSnapshot(c, tk)
BY DegradationAssumption DEF RequiredSnapshot, TaskRef, DegradationAssumption

\* Severities stay cognitive or critical.
LEMMA SeverityType ==
  /\ \A i : FromImpact(i) \in {"cognitive", "critical"}
  /\ \A a, b \in {"cognitive", "critical"} :
       MaximumSeverity(a, b) \in {"cognitive", "critical"}
BY DEF FromImpact, MaximumSeverity

\* A task reference is a set of tasks.
LEMMA TaskRefType == TaskRef \subseteq SUBSET Task
BY DEF TaskRef

\* _start_episode computes a row.
LEMMA StartedRowType ==
  ASSUME TypeOK, NEW t \in Transition
  PROVE  StartedRow(t) \in EpisodeRow
<1>1. /\ t.cap \in Capability
      /\ t.task \in TaskRef
      /\ t.task \in SUBSET Task
      /\ boot \in Boot
  BY TaskRefType, DegradationAssumption
     DEF TypeOK, Transition, Boot, DegradationAssumption
<1>2. RequiredSnapshot(t.cap, t.task) \in SUBSET Capability
  BY <1>1, RequiredSnapshotType
<1>3. FromImpact(t.impact) \in {"cognitive", "critical"}
  BY SeverityType
<1> QED
  BY <1>1, <1>2, <1>3, NoRowType DEF StartedRow, EpisodeRow, EpisodeState

\* _aggregate_loss computes a row from one.
LEMMA AggregatedRowType ==
  ASSUME TypeOK, NEW t \in Transition, NEW row \in EpisodeRow
  PROVE  AggregatedRow(row, t) \in EpisodeRow
<1>1. t.cap \in Capability /\ t.task \in TaskRef /\ t.task \in SUBSET Task
  BY TaskRefType DEF Transition
<1>2. RequiredSnapshot(t.cap, t.task) \in SUBSET Capability
  BY <1>1, RequiredSnapshotType
<1>3. MaximumSeverity(row.severity, FromImpact(t.impact)) \in {"cognitive", "critical"}
  BY SeverityType DEF EpisodeRow
<1> DEFINE state == IF row.state \in {"RECOVERING", "NOMINAL"} THEN "DEGRADED" ELSE row.state
           severity == MaximumSeverity(row.severity, FromImpact(t.impact))
           lost == row.lost \cup {t.cap}
           required == row.required \cup RequiredSnapshot(t.cap, t.task)
           tasks == row.tasks \cup t.task
<1>4. /\ state \in EpisodeState /\ lost \in SUBSET Capability
      /\ required \in SUBSET Capability /\ tasks \in SUBSET Task
  BY <1>1, <1>2 DEF EpisodeRow, EpisodeState
<1>5. AggregatedRow(row, t) = [NoRow EXCEPT !.state = state, !.severity = severity,
                                            !.lost = lost, !.required = required,
                                            !.tasks = tasks]
  BY DEF AggregatedRow
<1> HIDE DEF state, severity, lost, required, tasks
<1>6. severity \in {"cognitive", "critical"}
  BY <1>3 DEF severity
<1> QED
  BY <1>4, <1>5, <1>6, NoRowType DEF EpisodeRow

\* Time turns an age into an age and NULL into NULL.
LEMMA OlderType ==
  ASSUME NEW a \in Age \cup {Null}
  PROVE  /\ Older(a) \in Age \cup {Null}
         /\ a \in Age => Older(a) \in Age
BY DegradationAssumption DEF Older, Age, Null, DegradationAssumption

\* No call is a call.
LEMMA NoCallType == NoCall \in Call
BY DEF Call

-----------------------------------------------------------------------------
(***************************************************************************)
(* Type correctness.                                                       *)
(***************************************************************************)

\* A decision has the type of a call.
LEMMA DecidedType ==
  ASSUME NEW op \in Op \cup {"none"}, NEW e, op # "none" => e \in Episode,
         NEW age \in Age, NEW row \in EpisodeRow, NEW tk \in TaskRef
  PROVE  Decided(op, e, age, row, tk) \in Call
BY DEF Decided, Call

\* A new timestamp has an age, and no task is a task reference.
LEMMA ZeroIsAge == 0 \in Age /\ {} \in TaskRef
BY DegradationAssumption DEF Age, TaskRef, DegradationAssumption

\* What a step of on_transition that only decides leaves behind has its type.
LEMMA DecideType ==
  ASSUME TypeOK, batch # <<>>,
         NEW op \in Op \cup {"none"}, NEW e, op # "none" => e \in Episode,
         NEW row \in EpisodeRow, NEW tk \in TaskRef, Decide(op, e, row, tk)
  PROVE  TypeOK'
<1>1. batch' \in Seq(Transition)
  BY DEF Decide, TypeOK
<1>2. call' \in [Thread -> Call]
  BY DecidedType, ZeroIsAge DEF Decide, TypeOK
<1> QED
  BY <1>1, <1>2 DEF Decide, TypeOK

\* A transaction ends the call and changes nothing but episodes, the outbox
\* and the tasks.
LEMMA ReturnType ==
  ASSUME TypeOK, NEW p \in Thread, Return(p)
  PROVE  call' \in [Thread -> Call] /\ applying' \in BOOLEAN
BY NoCallType DEF TypeOK, Return

\* Stopping a task keeps the task states typed.
LEMMA StopTaskType ==
  ASSUME TypeOK, NEW critical, NEW tk, StopTask(critical, tk)
  PROVE  taskState' \in [Task -> TaskState]
BY DEF TypeOK, StopTask, TaskState

\* INSERT OR IGNORE keeps the outbox typed.
LEMMA EnqueueType ==
  ASSUME TypeOK, NEW kind, NEW e, Enqueue(kind, e)
  PROVE  outbox' \in [Phrase -> {"none", "pending", "claimed", "emitted"}]
BY DEF TypeOK, Enqueue

\* A row keeps its type when a transaction writes some of its columns.
LEMMA RowUpdateType ==
  ASSUME NEW row \in EpisodeRow, NEW new \in EpisodeRow, NEW a \in Age, NEW b \in Boot
  PROVE  /\ [new EXCEPT !.started_age = a] \in EpisodeRow
         /\ [row EXCEPT !.state = new.state, !.severity = new.severity,
                        !.lost = new.lost, !.tasks = new.tasks,
                        !.required = new.required, !.recovery_age = Null,
                        !.recovered_age = Null, !.recovered_boot = 0] \in EpisodeRow
         /\ [row EXCEPT !.state = "DEGRADED"] \in EpisodeRow
         /\ [row EXCEPT !.state = "NOMINAL", !.recovered_age = a,
                        !.recovered_boot = b] \in EpisodeRow
         /\ [row EXCEPT !.state = "RECOVERING", !.recovery_age = a,
                        !.recovery_boot = b, !.timer_boot = b] \in EpisodeRow
         /\ [row EXCEPT !.state = "DEGRADED", !.recovery_age = Null,
                        !.recovery_boot = 0] \in EpisodeRow
<1> 0 \in Boot
  BY DegradationAssumption DEF Boot, DegradationAssumption
<1>1. [new EXCEPT !.started_age = a] \in EpisodeRow
  BY DEF EpisodeRow
<1>2. [row EXCEPT !.state = new.state, !.severity = new.severity,
                  !.lost = new.lost, !.tasks = new.tasks,
                  !.required = new.required, !.recovery_age = Null,
                  !.recovered_age = Null, !.recovered_boot = 0] \in EpisodeRow
  BY DEF EpisodeRow
<1>3. [row EXCEPT !.state = "DEGRADED"] \in EpisodeRow
  BY DEF EpisodeRow, EpisodeState
<1>4. [row EXCEPT !.state = "NOMINAL", !.recovered_age = a,
                  !.recovered_boot = b] \in EpisodeRow
  BY DEF EpisodeRow, EpisodeState
<1>5. [row EXCEPT !.state = "RECOVERING", !.recovery_age = a,
                  !.recovery_boot = b, !.timer_boot = b] \in EpisodeRow
  BY DEF EpisodeRow, EpisodeState
<1>6. [row EXCEPT !.state = "DEGRADED", !.recovery_age = Null,
                  !.recovery_boot = 0] \in EpisodeRow
  BY DEF EpisodeRow, EpisodeState
<1> QED BY <1>1, <1>2, <1>3, <1>4, <1>5, <1>6

\* The running boot may stamp a row.
LEMMA BootType == TypeOK => boot \in Boot
BY DegradationAssumption DEF TypeOK, Boot, DegradationAssumption

\* The components of a decided call.
LEMMA CallParts ==
  ASSUME TypeOK, NEW p \in Thread, call[p].op # "none"
  PROVE  /\ call[p].op \in Op
         /\ call[p].ep \in Episode
         /\ call[p].age \in Age
         /\ call[p].row \in EpisodeRow
         /\ call[p].task \in TaskRef
BY DEF TypeOK, Call, NoCall

\* Writing a row keeps the table typed.
LEMMA OneRowType ==
  ASSUME TypeOK, NEW e \in Episode, NEW r \in EpisodeRow
  PROVE  [episode EXCEPT ![e] = r] \in [Episode -> EpisodeRow]
BY DEF TypeOK

\* What a transaction leaves alone keeps its type.
LEMMA CommitRest ==
  ASSUME TypeOK, NEW p \in Thread, Return(p),
         episode' \in [Episode -> EpisodeRow], taskState' \in [Task -> TaskState],
         outbox' \in [Phrase -> {"none", "pending", "claimed", "emitted"}],
         UNCHANGED <<current, batch, qt, boot, failures, unbroken, shown>>
  PROVE  TypeOK'
<1>1. call' \in [Thread -> Call] /\ applying' \in BOOLEAN
  BY ReturnType
<1> QED BY <1>1 DEF TypeOK

\* Every transaction of the engine keeps the types.
LEMMA CommitType ==
  ASSUME TypeOK, NEW p \in Thread, Commit(p)
  PROVE  TypeOK'
<1> DEFINE c == call[p]
<1>0. /\ c.age \in Age /\ c.row \in EpisodeRow /\ c.ep \in Episode
      /\ episode[c.ep] \in EpisodeRow
      /\ boot \in Boot
  <2>1. c.op # "none"
    BY DEF Commit, StartEpisode, AggregateLoss, EnterDegraded, CancelTransient,
           StartRecovery, ReturnToDegraded, FinishRecovery
  <2> QED
    BY <2>1, CallParts, BootType DEF TypeOK
<1>t. /\ taskState \in [Task -> TaskState]
      /\ outbox \in [Phrase -> {"none", "pending", "claimed", "emitted"}]
  BY DEF TypeOK
<1>1. CASE StartEpisode(p)
  <2> DEFINE r == [c.row EXCEPT !.started_age = c.age]
  <2>1. r \in EpisodeRow
    BY <1>0, RowUpdateType, Zenon
  <2>2. episode' = [episode EXCEPT ![c.ep] = r] /\ Return(p)
        /\ UNCHANGED <<current, batch, qt, boot, failures, unbroken, shown>>
    BY <1>1 DEF StartEpisode
  <2>3. StopTask(c.row.severity = "critical", c.task) /\ UNCHANGED outbox
    BY <1>1 DEF StartEpisode
  <2>4. taskState' \in [Task -> TaskState]
    BY <2>3, StopTaskType
  <2>5. episode' \in [Episode -> EpisodeRow]
    BY <1>0, <2>1, <2>2, OneRowType
  <2> HIDE DEF r
  <2> QED
    BY <1>t, <2>2, <2>3, <2>4, <2>5, CommitRest, Zenon
<1>2. CASE AggregateLoss(p)
  <2> DEFINE r == [episode[c.ep] EXCEPT !.state = c.row.state, !.severity = c.row.severity,
                                    !.lost = c.row.lost, !.tasks = c.row.tasks,
                                    !.required = c.row.required,
                                    !.recovery_age = Null, !.recovered_age = Null,
                                    !.recovered_boot = 0]
  <2>1. r \in EpisodeRow
    BY <1>0, RowUpdateType, Zenon
  <2>2. episode' = [episode EXCEPT ![c.ep] = r] /\ Return(p)
        /\ UNCHANGED <<current, batch, qt, boot, failures, unbroken, shown>>
    BY <1>2 DEF AggregateLoss
  <2>3. StopTask(c.row.severity = "critical", c.task) /\ UNCHANGED outbox
    BY <1>2 DEF AggregateLoss
  <2>4. taskState' \in [Task -> TaskState]
    BY <2>3, StopTaskType
  <2>5. episode' \in [Episode -> EpisodeRow]
    BY <1>0, <2>1, <2>2, OneRowType
  <2> HIDE DEF r
  <2> QED
    BY <1>t, <2>2, <2>3, <2>4, <2>5, CommitRest, Zenon
<1>3. CASE EnterDegraded(p)
  <2> DEFINE r == [episode[c.ep] EXCEPT !.state = "DEGRADED"]
  <2>1. r \in EpisodeRow
    BY <1>0, RowUpdateType, Zenon
  <2>2. episode' = [episode EXCEPT ![c.ep] = r] /\ Return(p)
        /\ UNCHANGED <<current, batch, qt, boot, failures, unbroken, shown>>
    BY <1>3 DEF EnterDegraded
  <2>3. Enqueue("degradation", c.ep) /\ UNCHANGED taskState
    BY <1>3 DEF EnterDegraded
  <2>4. outbox' \in [Phrase -> {"none", "pending", "claimed", "emitted"}]
    BY <2>3, EnqueueType
  <2>5. episode' \in [Episode -> EpisodeRow]
    BY <1>0, <2>1, <2>2, OneRowType
  <2> HIDE DEF r
  <2> QED
    BY <1>t, <2>2, <2>3, <2>4, <2>5, CommitRest, Zenon
<1>4. CASE CancelTransient(p)
  <2> DEFINE r == [episode[c.ep] EXCEPT !.state = "NOMINAL", !.recovered_age = c.age,
                                    !.recovered_boot = boot]
  <2>1. r \in EpisodeRow
    BY <1>0, RowUpdateType, Zenon
  <2>2. episode' = [episode EXCEPT ![c.ep] = r] /\ Return(p)
        /\ UNCHANGED <<current, batch, qt, boot, failures, unbroken, shown>>
    BY <1>4 DEF CancelTransient
  <2>3. UNCHANGED <<taskState, outbox>>
    BY <1>4 DEF CancelTransient
  <2>5. episode' \in [Episode -> EpisodeRow]
    BY <1>0, <2>1, <2>2, OneRowType
  <2> HIDE DEF r
  <2> QED
    BY <1>t, <2>2, <2>3, <2>5, CommitRest, Zenon
<1>5. CASE StartRecovery(p)
  <2> DEFINE r == [episode[c.ep] EXCEPT !.state = "RECOVERING", !.recovery_age = c.age,
                                    !.recovery_boot = boot, !.timer_boot = boot]
  <2>1. r \in EpisodeRow
    BY <1>0, RowUpdateType, Zenon
  <2>2. episode' = [episode EXCEPT ![c.ep] = r] /\ Return(p)
        /\ UNCHANGED <<current, batch, qt, boot, failures, unbroken, shown>>
    BY <1>5 DEF StartRecovery
  <2>3. UNCHANGED <<taskState, outbox>>
    BY <1>5 DEF StartRecovery
  <2>5. episode' \in [Episode -> EpisodeRow]
    BY <1>0, <2>1, <2>2, OneRowType
  <2> HIDE DEF r
  <2> QED
    BY <1>t, <2>2, <2>3, <2>5, CommitRest, Zenon
<1>6. CASE ReturnToDegraded(p)
  <2> DEFINE r == [episode[c.ep] EXCEPT !.state = "DEGRADED", !.recovery_age = Null,
                                    !.recovery_boot = 0]
  <2>1. r \in EpisodeRow
    BY <1>0, RowUpdateType, Zenon
  <2>2. episode' = [episode EXCEPT ![c.ep] = r] /\ Return(p)
        /\ UNCHANGED <<current, batch, qt, boot, failures, unbroken, shown>>
    BY <1>6 DEF ReturnToDegraded
  <2>3. UNCHANGED <<taskState, outbox>>
    BY <1>6 DEF ReturnToDegraded
  <2>5. episode' \in [Episode -> EpisodeRow]
    BY <1>0, <2>1, <2>2, OneRowType
  <2> HIDE DEF r
  <2> QED
    BY <1>t, <2>2, <2>3, <2>5, CommitRest, Zenon
<1>7. CASE FinishRecovery(p)
  <2> DEFINE r == [episode[c.ep] EXCEPT !.state = "NOMINAL", !.recovered_age = c.age,
                                    !.recovered_boot = boot]
  <2>1. r \in EpisodeRow
    BY <1>0, RowUpdateType, Zenon
  <2>2. episode' = [episode EXCEPT ![c.ep] = r] /\ Return(p)
        /\ UNCHANGED <<current, batch, qt, boot, failures, unbroken, shown>>
    BY <1>7 DEF FinishRecovery
  <2>3. Enqueue("recovery", c.ep) /\ UNCHANGED taskState
    BY <1>7 DEF FinishRecovery
  <2>4. outbox' \in [Phrase -> {"none", "pending", "claimed", "emitted"}]
    BY <2>3, EnqueueType
  <2>5. episode' \in [Episode -> EpisodeRow]
    BY <1>0, <2>1, <2>2, OneRowType
  <2> HIDE DEF r
  <2> QED
    BY <1>t, <2>2, <2>3, <2>4, <2>5, CommitRest, Zenon
<1> QED
  BY <1>1, <1>2, <1>3, <1>4, <1>5, <1>6, <1>7 DEF Commit

\* The empty batch is a batch.
LEMMA EmptyBatchType == <<>> \in Seq(Transition)
OBVIOUS

\* The history of a new boot is typed.
LEMMA ReadySinceType ==
  ASSUME NEW cur PROVE ReadySince(cur) \in [Capability -> Age \cup {Null}]
BY ZeroIsAge DEF ReadySince

\* The initial state is typed.
LEMMA InitType == Init => TypeOK
<1> SUFFICES ASSUME Init PROVE TypeOK
  OBVIOUS
<1>1. /\ current \in [Capability -> Lifecycle]
      /\ unbroken \in [Capability -> Age \cup {Null}]
  <2>1. PICK failed \in SUBSET Capability : current = InitialState(failed)
    BY DEF Init
  <2>2. current \in [Capability -> Lifecycle]
    BY <2>1 DEF InitialState, Lifecycle
  <2>3. unbroken = ReadySince(current)
    BY DEF Init
  <2> QED
    BY <2>2, <2>3, ReadySinceType
<1>2. episode \in [Episode -> EpisodeRow] /\ call \in [Thread -> Call]
  BY NoRowType, NoCallType DEF Init
<1>3. boot \in 1..MaxBoots /\ failures \in 0..MaxFailures
  BY DegradationAssumption DEF Init, DegradationAssumption
<1> QED
  BY <1>1, <1>2, <1>3, EmptyBatchType DEF Init, TypeOK, TaskState, QtState

\* The deciding half of on_transition keeps the types.
LEMMA ApplyType ==
  ASSUME TypeOK, ApplyTransition
  PROVE  TypeOK'
<1>0. batch # <<>> /\ Head(batch) \in Transition /\ Head(batch).task \in TaskRef
  <2>1. batch # <<>>
    BY DEF ApplyTransition, ApplyReconcile, ApplyStart, ApplyAggregate, Applicable
  <2>2. Head(batch) \in Transition
    BY <2>1 DEF TypeOK
  <2> QED
    BY <2>1, <2>2 DEF Transition
<1>1. CASE ApplyReconcile
  <2>1. CASE Decide("none", 0, NoRow, {})
    BY <1>0, <2>1, DecideType, NoRowType, ZeroIsAge
  <2>2. CASE \E e \in Episode : Decide(ReconcileOp(episode[e]), e, NoRow, {})
    <3>1. PICK e \in Episode : Decide(ReconcileOp(episode[e]), e, NoRow, {})
      BY <2>2
    <3>2. ReconcileOp(episode[e]) \in Op \cup {"none"}
      BY DEF ReconcileOp, Op
    <3> QED
      BY <1>0, <3>1, <3>2, DecideType, NoRowType, ZeroIsAge
  <2> QED
    BY <1>1, <2>1, <2>2 DEF ApplyReconcile
<1>2. CASE ApplyStart
  <2>1. PICK e \in Episode :
          Decide("start", e, StartedRow(Head(batch)), Head(batch).task)
    BY <1>2 DEF ApplyStart
  <2>2. "start" \in Op \cup {"none"}
    BY DEF Op
  <2> QED
    BY <1>0, <2>1, <2>2, DecideType, StartedRowType
<1>3. CASE ApplyAggregate
  <2>1. PICK e \in Episode :
          Decide("aggregate", e, AggregatedRow(episode[e], Head(batch)),
                 Head(batch).task)
    BY <1>3 DEF ApplyAggregate
  <2>2. "aggregate" \in Op \cup {"none"}
    BY DEF Op
  <2>3. AggregatedRow(episode[e], Head(batch)) \in EpisodeRow
    BY <1>0, AggregatedRowType DEF TypeOK
  <2> QED
    BY <1>0, <2>1, <2>2, <2>3, DecideType
<1> QED
  BY <1>1, <1>2, <1>3 DEF ApplyTransition

\* The two reads of tick keep the types.
LEMMA TickType ==
  ASSUME TypeOK, TickRead \/ TickCheck
  PROVE  TypeOK'
<1>1. CASE TickRead
  <2>1. PICK e \in Episode :
          call' = [call EXCEPT !["maintenance"] =
                     Decided("check", e, 0, CheckedRow(episode[e]), {})]
    BY <1>1 DEF TickRead
  <2>2. CheckedRow(episode[e]) \in EpisodeRow
    BY NoRowType DEF TypeOK, CheckedRow, EpisodeRow
  <2>3. "check" \in Op \cup {"none"}
    BY DEF Op
  <2>4. call' \in [Thread -> Call]
    BY <2>1, <2>2, <2>3, DecidedType, ZeroIsAge DEF TypeOK
  <2> QED
    BY <1>1, <2>4 DEF TickRead, TypeOK
<1>2. CASE TickCheck
  <2> DEFINE c == call["maintenance"]
  <2>1. c.ep \in Episode /\ c.age \in Age
    BY <1>2, CallParts DEF TickCheck, Thread
  <2>2. TickOp(c.row) \in Op \cup {"none"}
    BY DEF TickOp, Op
  <2>3. call' \in [Thread -> Call]
    BY <1>2, <2>1, <2>2, DecidedType, NoRowType, ZeroIsAge DEF TickCheck, TypeOK
  <2> QED
    BY <1>2, <2>3 DEF TickCheck, TypeOK
<1> QED
  BY <1>1, <1>2

\* The passing of time keeps the types.
LEMMA AdvanceType ==
  ASSUME TypeOK, Advance
  PROVE  TypeOK'
<1>1. episode' \in [Episode -> EpisodeRow]
  <2> SUFFICES ASSUME NEW e \in Episode
               PROVE  [episode[e] EXCEPT !.started_age = Older(@),
                         !.recovery_age = Older(@), !.recovered_age = Older(@)]
                        \in EpisodeRow
    BY DEF Advance
  <2>1. episode[e] \in EpisodeRow
    BY DEF TypeOK
  <2>2. /\ Older(episode[e].started_age) \in Age \cup {Null}
        /\ Older(episode[e].recovery_age) \in Age \cup {Null}
        /\ Older(episode[e].recovered_age) \in Age \cup {Null}
    BY <2>1, OlderType DEF EpisodeRow
  <2> QED
    BY <2>1, <2>2 DEF EpisodeRow
<1>2. call' \in [Thread -> Call]
  <2> SUFFICES ASSUME NEW p \in Thread, ~Idle(p)
               PROVE  [call[p] EXCEPT !.age = Older(@)] \in Call
    BY DEF Advance, TypeOK
  <2>1. call[p] \in [op : Op, ep : Episode, age : Age, row : EpisodeRow, task : TaskRef]
    BY DEF Idle, TypeOK, Call, NoCall
  <2>2. Older(call[p].age) \in Age
    BY <2>1, OlderType
  <2> QED
    BY <2>1, <2>2 DEF Call
<1>3. unbroken' \in [Capability -> Age \cup {Null}]
  BY OlderType DEF Advance, TypeOK
<1> QED
  BY <1>1, <1>2, <1>3 DEF Advance, TypeOK

\* A new process starts from typed state.
LEMMA NewBootType ==
  ASSUME TypeOK, NewBoot, taskState' \in [Task -> TaskState]
  PROVE  TypeOK'
<1>1. /\ current' \in [Capability -> Lifecycle]
      /\ unbroken' \in [Capability -> Age \cup {Null}]
  <2>1. PICK failed \in SUBSET Capability : current' = InitialState(failed)
    BY DEF NewBoot
  <2>2. current' \in [Capability -> Lifecycle]
    BY <2>1 DEF InitialState, Lifecycle
  <2> QED
    BY <2>2, ReadySinceType DEF NewBoot
<1>2. boot' \in 1..MaxBoots
  BY DegradationAssumption DEF NewBoot, TypeOK, DegradationAssumption
<1> QED
  BY <1>1, <1>2, NoCallType, EmptyBatchType DEF NewBoot, TypeOK, QtState

\* Every step keeps the types.
LEMMA NextType ==
  ASSUME TypeOK, [Next]_vars
  PROVE  TypeOK'
<1>1. ASSUME NEW c \in Capability, NEW s \in Lifecycle, NEW expected \in BOOLEAN,
             NEW tk \in TaskRef, RegisterTransition(c, s, expected, tk)
      PROVE  TypeOK'
  <2>1. batch' \in Seq(Transition)
    BY <1>1, MakeTransitionType DEF RegisterTransition, TypeOK
  <2>2. unbroken' \in [Capability -> Age \cup {Null}]
    BY <1>1, ZeroIsAge DEF RegisterTransition, TypeOK
  <2> QED
    BY <1>1, <2>1, <2>2 DEF RegisterTransition, TypeOK
<1>2. CASE ApplyTransition
  BY <1>2, ApplyType
<1>3. CASE TickRead \/ TickCheck
  BY <1>3, TickType
<1>4. ASSUME NEW p \in Thread, Commit(p)
      PROVE  TypeOK'
  BY <1>4, CommitType
<1>5. ASSUME NEW p \in Thread, CallFails(p)
      PROVE  TypeOK'
  <2>1. batch' \in Seq(Transition) /\ failures' \in 0..MaxFailures
    BY <1>5, EmptyBatchType, DegradationAssumption
       DEF CallFails, TypeOK, DegradationAssumption
  <2>2. call' \in [Thread -> Call] /\ applying' \in BOOLEAN
    BY <1>5, NoCallType DEF CallFails, TypeOK
  <2> QED
    BY <1>5, <2>1, <2>2 DEF CallFails, TypeOK
<1>6. ASSUME NEW k \in Phrase, Claim(k)
      PROVE  TypeOK'
  BY <1>6 DEF Claim, TypeOK, QtState
<1>7. CASE Show \/ SpeakFails \/ MarkEmitted \/ DispatchFails
  <2>1. qt \in [pc : {"claimed", "shown"}, phrase : Phrase]
    BY <1>7 DEF Show, SpeakFails, MarkEmitted, DispatchFails, TypeOK, QtState, QtIdle
  <2>2. failures' \in 0..MaxFailures
    BY <1>7, DegradationAssumption
       DEF Show, SpeakFails, MarkEmitted, DispatchFails, TypeOK, DegradationAssumption
  <2>3. qt' \in QtState
    BY <1>7, <2>1 DEF Show, SpeakFails, MarkEmitted, DispatchFails, QtState
  <2>4. shown' \in [Phrase -> Nat]
    BY <1>7, <2>1 DEF Show, SpeakFails, MarkEmitted, DispatchFails, TypeOK
  <2>5. outbox' \in [Phrase -> {"none", "pending", "claimed", "emitted"}]
    BY <1>7, <2>1 DEF Show, SpeakFails, MarkEmitted, DispatchFails, TypeOK
  <2> QED
    BY <1>7, <2>2, <2>3, <2>4, <2>5
       DEF Show, SpeakFails, MarkEmitted, DispatchFails, TypeOK
<1>8. ASSUME NEW t \in Task, CreateTask(t)
      PROVE  TypeOK'
  BY <1>8 DEF CreateTask, TypeOK, TaskState
<1>9. ASSUME NEW t \in Task, NEW s \in TaskState, EndTask(t, s)
      PROVE  TypeOK'
  BY <1>9 DEF EndTask, TypeOK
<1>10. CASE Advance
  BY <1>10, AdvanceType
<1>11. CASE Restart \/ Crash
  <2>1. taskState' \in [Task -> TaskState]
    BY <1>11 DEF Restart, Crash, TypeOK, TaskState
  <2> QED
    BY <1>11, <2>1, NewBootType DEF Restart, Crash
<1>12. CASE UNCHANGED vars
  BY <1>12 DEF vars, TypeOK
<1> QED
  BY <1>1, <1>2, <1>3, <1>4, <1>5, <1>6, <1>7, <1>8, <1>9, <1>10, <1>11, <1>12
     DEF Next, Dispatch

\* Every reachable state of the engine, its registry and its outbox is well
\* typed: a decided call always names an existing row, ages never pass their
\* bound and the boot counter stays within the incarnations.
THEOREM TypeCorrect == Spec => []TypeOK
<1>1. Init => TypeOK
  BY InitType
<1>2. TypeOK /\ [Next]_vars => TypeOK'
  BY NextType
<1> QED
  BY <1>1, <1>2, PTL DEF Spec

-----------------------------------------------------------------------------
(***************************************************************************)
(* What an episode waits for.  A loss is committed from a row that was     *)
(* computed earlier, so the calls under way carry the same fact.           *)
(***************************************************************************)

Computed(p) == call[p].op \in {"start", "aggregate"}

ProfileInv ==
  /\ LostWithinRequired
  /\ \A p \in Thread : Computed(p) => call[p].row.lost \subseteq call[p].row.required

(***************************************************************************)
(* Critical losses.  A transition is critical only for a task; a computed  *)
(* critical row either stops a task when it commits or belongs to an       *)
(* episode that has stopped one.                                           *)
(***************************************************************************)

Stopped(t) == taskState[t] \notin {"absent", "active"}

StopInv ==
  /\ CriticalStopsTask
  /\ \A i \in 1..Len(batch) : batch[i].impact = "critical" => batch[i].task # {}
  /\ \A p \in Thread :
       Computed(p) =>
         /\ call[p].task \subseteq call[p].row.tasks
         /\ call[p].row.severity = "critical" =>
              call[p].task # {} \/ \E t \in call[p].row.tasks : Stopped(t)

(***************************************************************************)
(* Timers.  Only the executor starts, aggregates and recovers, so an       *)
(* aggregation that will put the row back into DEGRADING finds the         *)
(* timer_boot it started with.                                             *)
(***************************************************************************)

RowTimer(row, b) ==
  /\ row.timer_boot <= b
  /\ row.state = "DEGRADING" => row.timer_boot = row.started_boot
  /\ row.state = "RECOVERING" => row.timer_boot = row.recovery_boot
  /\ row.state = "NOMINAL" /\ row.timer_boot = b => row.recovered_boot = b

TimerInv ==
  /\ \A e \in Episode : RowTimer(episode[e], boot)
  /\ call["maintenance"].op \notin {"start", "aggregate", "recover"}
  /\ LET c == call["executor"]
     IN  /\ c.op = "start" => c.row.state = "DEGRADING" /\ RowTimer(c.row, boot)
         /\ c.op = "aggregate" =>
              /\ c.row.state \in {"DEGRADING", "DEGRADED"}
              /\ c.row.state = "DEGRADING" =>
                   episode[c.ep].timer_boot = episode[c.ep].started_boot

(***************************************************************************)
(* Delivery.  A phrase that was shown is claimed or emitted, and stays so. *)
(***************************************************************************)

DeliveryInv ==
  /\ OnceEach
  /\ \A k \in Phrase : outbox[k] \in {"none", "pending"} => shown[k] = 0
  /\ qt # QtIdle => outbox[qt.phrase] = "claimed"
  /\ qt.pc = "claimed" => shown[qt.phrase] = 0

-----------------------------------------------------------------------------
(***************************************************************************)
(* Columns the steps keep.                                                 *)
(***************************************************************************)

\* The steps that touch neither the episodes nor the calls under way.
Elsewhere ==
  \/ \E c \in Capability, s \in Lifecycle, expected \in BOOLEAN, tk \in TaskRef :
       RegisterTransition(c, s, expected, tk)
  \/ Dispatch \/ SpeakFails \/ DispatchFails
  \/ \E t \in Task : CreateTask(t)
  \/ \E t \in Task, s \in TaskState : EndTask(t, s)
  \/ UNCHANGED vars

\* Those steps leave the episodes and the calls alone.
LEMMA ElsewhereKeeps ==
  ASSUME Elsewhere PROVE UNCHANGED <<episode, call, boot>>
BY DEF Elsewhere, RegisterTransition, Dispatch, Claim, Show, MarkEmitted, SpeakFails,
       DispatchFails, CreateTask, EndTask, vars

\* Every step is of one of these kinds.
LEMMA NextKinds ==
  ASSUME [Next]_vars
  PROVE  \/ Elsewhere \/ ApplyTransition \/ TickRead \/ TickCheck \/ Advance
         \/ \E p \in Thread : Commit(p) \/ CallFails(p)
         \/ (Restart \/ Crash)
BY DEF Next, Elsewhere

\* A pending row is the one on_transition computed; a tick carries none.
LEMMA DecidedParts ==
  ASSUME NEW op, NEW e, NEW age, NEW row, NEW tk, op # "none"
  PROVE  /\ Decided(op, e, age, row, tk).op = op
         /\ Decided(op, e, age, row, tk).ep = e
         /\ Decided(op, e, age, row, tk).row = row
         /\ Decided(op, e, age, row, tk).task = tk
BY DEF Decided

\* What a tick may decide.
LEMMA TickOps == \A row : TickOp(row) \in {"none", "cancel", "enter", "return", "finish"}
BY DEF TickOp

\* What a reconciliation may decide.
LEMMA ReconcileOps == \A row : ReconcileOp(row) \in {"none", "cancel", "recover", "return"}
BY DEF ReconcileOp

\* What ApplyTransition leaves in the executor's call.
LEMMA ApplyDecides ==
  ASSUME TypeOK, ApplyTransition
  PROVE  /\ UNCHANGED <<episode, boot, taskState>>
         /\ call'["maintenance"] = call["maintenance"]
         /\ batch # <<>> /\ batch' = Tail(batch)
         /\ \/ call'["executor"].op \in {"none", "cancel", "recover", "return"}
            \/ /\ call'["executor"].op = "start"
               /\ call'["executor"].row = StartedRow(Head(batch))
               /\ call'["executor"].task = Head(batch).task
            \/ \E e \in Episode :
                 /\ episode[e].state # "NONE"
                 /\ call'["executor"].op = "aggregate"
                 /\ call'["executor"].ep = e
                 /\ call'["executor"].row = AggregatedRow(episode[e], Head(batch))
                 /\ call'["executor"].task = Head(batch).task
<1>0. "executor" \in Thread /\ "maintenance" \in Thread
  BY DEF Thread
<1>1. CASE ApplyReconcile
  <2>1. CASE Decide("none", 0, NoRow, {})
    BY <1>0, <1>1, <2>1 DEF ApplyReconcile, Applicable, Decide, Decided, NoCall, TypeOK
  <2>2. ASSUME NEW e \in Episode, Decide(ReconcileOp(episode[e]), e, NoRow, {})
        PROVE  call'["executor"].op \in {"none", "cancel", "recover", "return"}
    BY <1>0, <2>2, ReconcileOps DEF Decide, Decided, NoCall, TypeOK
  <2>3. ASSUME NEW e \in Episode, Decide(ReconcileOp(episode[e]), e, NoRow, {})
        PROVE  /\ UNCHANGED <<episode, boot, taskState>>
               /\ call'["maintenance"] = call["maintenance"]
               /\ batch # <<>> /\ batch' = Tail(batch)
    BY <1>0, <1>1, <2>3 DEF ApplyReconcile, Applicable, Decide, TypeOK
  <2> QED
    BY <1>1, <2>1, <2>2, <2>3 DEF ApplyReconcile
<1>2. CASE ApplyStart
  <2>1. PICK e \in Episode :
          Decide("start", e, StartedRow(Head(batch)), Head(batch).task)
    BY <1>2 DEF ApplyStart
  <2> QED
    BY <1>0, <1>2, <2>1 DEF ApplyStart, Applicable, Decide, Decided, TypeOK
<1>3. CASE ApplyAggregate
  <2>1. PICK e \in Episode :
          /\ IsActiveRow(e) \/ RecentRecoveredForFlap(e)
          /\ Decide("aggregate", e, AggregatedRow(episode[e], Head(batch)),
                    Head(batch).task)
    BY <1>3 DEF ApplyAggregate
  <2>2. episode[e].state # "NONE"
    BY <2>1 DEF IsActiveRow, Active, RecentRecoveredForFlap, Recovered
  <2>3. call'["executor"] =
          Decided("aggregate", e, 0, AggregatedRow(episode[e], Head(batch)),
                  Head(batch).task)
    BY <1>0, <2>1 DEF Decide, TypeOK
  <2> QED
    BY <1>0, <1>3, <2>1, <2>2, <2>3, DecidedParts
       DEF ApplyAggregate, Applicable, Decide, TypeOK
<1> QED
  BY <1>1, <1>2, <1>3 DEF ApplyTransition

\* A tick leaves no computed row.
LEMMA TickDecides ==
  ASSUME TypeOK, TickRead \/ TickCheck
  PROVE  /\ UNCHANGED <<episode, boot, taskState, batch>>
         /\ call'["executor"] = call["executor"]
         /\ call'["maintenance"].op \notin {"start", "aggregate", "recover"}
<1>0. "executor" \in Thread /\ "maintenance" \in Thread
  BY DEF Thread
<1>1. CASE TickRead
  BY <1>0, <1>1 DEF TickRead, Decided, TypeOK
<1>2. CASE TickCheck
  <2>1. TickOp(call["maintenance"].row) \in {"none", "cancel", "enter", "return", "finish"}
    BY TickOps, Zenon
  <2> QED
    BY <1>0, <1>2, <2>1 DEF TickCheck, Decided, NoCall, TypeOK
<1> QED
  BY <1>1, <1>2

\* Time changes no column but the ages.
LEMMA AdvanceKeeps ==
  ASSUME TypeOK, Advance
  PROVE  /\ UNCHANGED <<boot, taskState, batch>>
         /\ \A e \in Episode :
              /\ episode'[e].state = episode[e].state
              /\ episode'[e].severity = episode[e].severity
              /\ episode'[e].lost = episode[e].lost
              /\ episode'[e].required = episode[e].required
              /\ episode'[e].tasks = episode[e].tasks
              /\ episode'[e].timer_boot = episode[e].timer_boot
              /\ episode'[e].started_boot = episode[e].started_boot
              /\ episode'[e].recovery_boot = episode[e].recovery_boot
              /\ episode'[e].recovered_boot = episode[e].recovered_boot
         /\ \A p \in Thread :
              /\ call'[p].op = call[p].op
              /\ call'[p].ep = call[p].ep
              /\ call'[p].row = call[p].row
              /\ call'[p].task = call[p].task
<1>1. ASSUME NEW e \in Episode
      PROVE  /\ episode'[e].state = episode[e].state
             /\ episode'[e].severity = episode[e].severity
             /\ episode'[e].lost = episode[e].lost
             /\ episode'[e].required = episode[e].required
             /\ episode'[e].tasks = episode[e].tasks
             /\ episode'[e].timer_boot = episode[e].timer_boot
             /\ episode'[e].started_boot = episode[e].started_boot
             /\ episode'[e].recovery_boot = episode[e].recovery_boot
             /\ episode'[e].recovered_boot = episode[e].recovered_boot
  <2>1. episode[e] \in EpisodeRow
    BY DEF TypeOK
  <2>2. episode'[e] = [episode[e] EXCEPT !.started_age = Older(@),
                         !.recovery_age = Older(@), !.recovered_age = Older(@)]
    BY DEF Advance
  <2> QED
    BY <2>1, <2>2 DEF EpisodeRow
<1>2. ASSUME NEW p \in Thread
      PROVE  /\ call'[p].op = call[p].op
             /\ call'[p].ep = call[p].ep
             /\ call'[p].row = call[p].row
             /\ call'[p].task = call[p].task
  <2>1. call[p] \in Call
    BY DEF TypeOK
  <2>2. call'[p] = IF Idle(p) THEN call[p] ELSE [call[p] EXCEPT !.age = Older(@)]
    BY DEF Advance
  <2> QED
    BY <2>1, <2>2 DEF Call, NoCall
<1> QED
  BY <1>1, <1>2 DEF Advance

\* A new process starts with no call under way.
LEMMA NewBootKeeps ==
  ASSUME TypeOK, Restart \/ Crash
  PROVE  /\ UNCHANGED episode
         /\ boot' = boot + 1
         /\ batch' = <<>>
         /\ \A p \in Thread : call'[p].op = "none"
         /\ \A t \in Task : Stopped(t) => Stopped(t)'
BY DEF Restart, Crash, NewBoot, NoCall, TypeOK, Stopped

\* A call that raises only disappears.
LEMMA FailKeeps ==
  ASSUME TypeOK, NEW p \in Thread, CallFails(p)
  PROVE  /\ UNCHANGED <<episode, boot, taskState>>
         /\ call'[p].op = "none"
         /\ \A q \in Thread \ {p} : call'[q] = call[q]
         /\ batch' = batch \/ batch' = <<>>
BY DEF CallFails, NoCall, TypeOK

\* A transaction ends its call, leaves the other call and the other episodes
\* alone and makes no stopped task active.
LEMMA CommitKeeps ==
  ASSUME TypeOK, NEW p \in Thread, Commit(p)
  PROVE  /\ call[p].op \in Op \ {"check"} /\ call[p].ep \in Episode
         /\ call'[p].op = "none"
         /\ \A q \in Thread \ {p} : call'[q] = call[q]
         /\ \A e \in Episode \ {call[p].ep} : episode'[e] = episode[e]
         /\ UNCHANGED <<boot, batch>>
         /\ \A t \in Task : Stopped(t) => Stopped(t)'
<1>1. call[p].op \in Op \ {"check"}
  BY DEF Commit, StartEpisode, AggregateLoss, EnterDegraded, CancelTransient,
         StartRecovery, ReturnToDegraded, FinishRecovery, Op
<1>2. call[p].ep \in Episode
  BY <1>1, CallParts DEF Op
<1>3. Return(p)
  BY DEF Commit, StartEpisode, AggregateLoss, EnterDegraded, CancelTransient,
         StartRecovery, ReturnToDegraded, FinishRecovery
<1>4. call'[p].op = "none" /\ \A q \in Thread \ {p} : call'[q] = call[q]
  BY <1>3 DEF Return, NoCall, TypeOK
<1>5. \A e \in Episode \ {call[p].ep} : episode'[e] = episode[e]
  BY <1>2 DEF Commit, StartEpisode, AggregateLoss, EnterDegraded, CancelTransient,
         StartRecovery, ReturnToDegraded, FinishRecovery, TypeOK
<1>6. UNCHANGED <<boot, batch>>
  BY DEF Commit, StartEpisode, AggregateLoss, EnterDegraded, CancelTransient,
         StartRecovery, ReturnToDegraded, FinishRecovery
<1>7. UNCHANGED taskState \/ \E critical, tk : StopTask(critical, tk)
  BY DEF Commit, StartEpisode, AggregateLoss, EnterDegraded, CancelTransient,
         StartRecovery, ReturnToDegraded, FinishRecovery
<1>8. \A t \in Task : Stopped(t) => Stopped(t)'
  <2>1. CASE UNCHANGED taskState
    BY <2>1 DEF Stopped
  <2>2. ASSUME NEW critical, NEW tk, StopTask(critical, tk)
        PROVE  \A t \in Task : Stopped(t) => Stopped(t)'
    BY <2>2 DEF Stopped, StopTask
  <2> QED BY <1>7, <2>1, <2>2, Zenon
<1> QED
  BY <1>1, <1>2, <1>4, <1>5, <1>6, <1>8

\* The columns a transaction writes in its own row.
LEMMA CommitWrites ==
  ASSUME TypeOK, NEW p \in Thread, Commit(p), NEW c, c = call[p],
         NEW old, old = episode[c.ep], NEW new, new = episode'[c.ep]
  PROVE  /\ c.op = "start" =>
              /\ new.state = c.row.state /\ new.severity = c.row.severity
              /\ new.lost = c.row.lost /\ new.required = c.row.required
              /\ new.tasks = c.row.tasks /\ new.timer_boot = c.row.timer_boot
              /\ new.started_boot = c.row.started_boot
              /\ new.recovery_boot = c.row.recovery_boot
              /\ new.recovered_boot = c.row.recovered_boot
         /\ c.op = "aggregate" =>
              /\ new.state = c.row.state /\ new.severity = c.row.severity
              /\ new.lost = c.row.lost /\ new.required = c.row.required
              /\ new.tasks = c.row.tasks
              /\ new.timer_boot = old.timer_boot
              /\ new.started_boot = old.started_boot
         /\ c.op \notin {"start", "aggregate"} =>
              /\ new.severity = old.severity /\ new.lost = old.lost
              /\ new.required = old.required /\ new.tasks = old.tasks
              /\ new.started_boot = old.started_boot
              /\ c.op # "recover" => new.timer_boot = old.timer_boot
         /\ c.op \in {"enter", "return"} => new.state = "DEGRADED"
         /\ c.op \in {"cancel", "finish"} =>
              new.state = "NOMINAL" /\ new.recovered_boot = boot
         /\ c.op = "recover" =>
              new.state = "RECOVERING" /\ new.timer_boot = boot /\ new.recovery_boot = boot
<1>0. /\ c.ep \in Episode /\ c.op # "none" /\ old \in EpisodeRow
      /\ c.row \in EpisodeRow
  BY CommitKeeps, CallParts DEF TypeOK, Op
<1>1. CASE StartEpisode(p)
  <2>1. new = [c.row EXCEPT !.started_age = c.age] /\ c.op = "start"
    BY <1>0, <1>1 DEF StartEpisode, TypeOK
  <2> QED
    BY <1>0, <2>1 DEF EpisodeRow
<1>2. CASE AggregateLoss(p)
  <2>1. /\ new = [old EXCEPT !.state = c.row.state, !.severity = c.row.severity,
                     !.lost = c.row.lost, !.tasks = c.row.tasks,
                     !.required = c.row.required, !.recovery_age = Null,
                     !.recovered_age = Null, !.recovered_boot = 0]
        /\ c.op = "aggregate"
    BY <1>0, <1>2 DEF AggregateLoss, TypeOK
  <2> QED
    BY <1>0, <2>1 DEF EpisodeRow
<1>3. CASE EnterDegraded(p)
  <2>1. new = [old EXCEPT !.state = "DEGRADED"] /\ c.op = "enter"
    BY <1>0, <1>3 DEF EnterDegraded, TypeOK
  <2> QED
    BY <1>0, <2>1 DEF EpisodeRow
<1>4. CASE CancelTransient(p) \/ FinishRecovery(p)
  <2>1. /\ new = [old EXCEPT !.state = "NOMINAL", !.recovered_age = c.age,
                             !.recovered_boot = boot]
        /\ c.op \in {"cancel", "finish"}
    BY <1>0, <1>4 DEF CancelTransient, FinishRecovery, TypeOK
  <2> QED
    BY <1>0, <2>1 DEF EpisodeRow
<1>5. CASE StartRecovery(p)
  <2>1. /\ new = [old EXCEPT !.state = "RECOVERING", !.recovery_age = c.age,
                             !.recovery_boot = boot, !.timer_boot = boot]
        /\ c.op = "recover"
    BY <1>0, <1>5 DEF StartRecovery, TypeOK
  <2> QED
    BY <1>0, <2>1 DEF EpisodeRow
<1>6. CASE ReturnToDegraded(p)
  <2>1. /\ new = [old EXCEPT !.state = "DEGRADED", !.recovery_age = Null,
                             !.recovery_boot = 0]
        /\ c.op = "return"
    BY <1>0, <1>6 DEF ReturnToDegraded, TypeOK
  <2> QED
    BY <1>0, <2>1 DEF EpisodeRow
<1> QED
  BY <1>1, <1>2, <1>3, <1>4, <1>5, <1>6 DEF Commit

-----------------------------------------------------------------------------
(***************************************************************************)
(* ProfileInv is inductive.                                                *)
(***************************************************************************)

\* ProfileInv holds initially.
LEMMA InitProfile == Init => ProfileInv
BY DEF Init, ProfileInv, LostWithinRequired, NoRow, Computed, NoCall

\* The rows on_transition computes contain the loss in what they require.
LEMMA RowProfile ==
  ASSUME TypeOK, NEW t \in Transition, NEW row \in EpisodeRow, row.lost \subseteq row.required
  PROVE  /\ StartedRow(t).lost \subseteq StartedRow(t).required
         /\ AggregatedRow(row, t).lost \subseteq AggregatedRow(row, t).required
<1>1. t.cap \in RequiredSnapshot(t.cap, t.task)
  BY RequiredSnapshotType DEF Transition
<1>2. /\ StartedRow(t).lost = {t.cap}
      /\ StartedRow(t).required = RequiredSnapshot(t.cap, t.task)
  BY NoRowType DEF StartedRow, EpisodeRow
<1>3. /\ AggregatedRow(row, t).lost = row.lost \cup {t.cap}
      /\ AggregatedRow(row, t).required = row.required \cup RequiredSnapshot(t.cap, t.task)
  BY NoRowType DEF AggregatedRow, EpisodeRow
<1> QED
  BY <1>1, <1>2, <1>3

\* The head of a batch is a transition.
LEMMA HeadType ==
  ASSUME TypeOK, batch # <<>>
  PROVE  Head(batch) \in Transition
BY DEF TypeOK

\* Every step keeps ProfileInv.
LEMMA NextProfile ==
  ASSUME TypeOK, ProfileInv, [Next]_vars
  PROVE  ProfileInv'
<1>1. CASE Elsewhere
  BY <1>1, ElsewhereKeeps DEF ProfileInv, LostWithinRequired, Computed
<1>2. CASE ApplyTransition
  <2>1. Head(batch) \in Transition
    BY <1>2, ApplyDecides, HeadType
  <2>2. LostWithinRequired'
    BY <1>2, ApplyDecides DEF ProfileInv, LostWithinRequired
  <2>3. Computed("executor")' => call'["executor"].row.lost \subseteq call'["executor"].row.required
    <3>1. CASE call'["executor"].row = StartedRow(Head(batch))
      BY <2>1, <3>1, NoRowType, RowProfile DEF NoRow
    <3>2. ASSUME NEW e \in Episode,
                 call'["executor"].row = AggregatedRow(episode[e], Head(batch))
          PROVE  call'["executor"].row.lost \subseteq call'["executor"].row.required
      BY <2>1, <3>2, RowProfile DEF ProfileInv, LostWithinRequired, TypeOK
    <3> QED
      BY <1>2, <3>1, <3>2, ApplyDecides DEF Computed
  <2>4. Computed("maintenance")' =>
          call'["maintenance"].row.lost \subseteq call'["maintenance"].row.required
    BY <1>2, ApplyDecides DEF ProfileInv, Computed, Thread
  <2> QED
    BY <2>2, <2>3, <2>4 DEF ProfileInv, Thread
<1>3. CASE TickRead \/ TickCheck
  BY <1>3, TickDecides DEF ProfileInv, LostWithinRequired, Computed, Thread
<1>4. CASE Advance
  BY <1>4, AdvanceKeeps DEF ProfileInv, LostWithinRequired, Computed
<1>5. ASSUME NEW p \in Thread, Commit(p)
      PROVE  ProfileInv'
  <2>1. episode'[call[p].ep].lost \subseteq episode'[call[p].ep].required
    BY <1>5, CommitKeeps, CommitWrites DEF ProfileInv, LostWithinRequired, Computed
  <2>2. LostWithinRequired'
    BY <1>5, <2>1, CommitKeeps DEF ProfileInv, LostWithinRequired
  <2> QED
    BY <1>5, <2>2, CommitKeeps DEF ProfileInv, Computed
<1>6. ASSUME NEW p \in Thread, CallFails(p)
      PROVE  ProfileInv'
  BY <1>6, FailKeeps DEF ProfileInv, LostWithinRequired, Computed
<1>7. CASE Restart \/ Crash
  BY <1>7, NewBootKeeps DEF ProfileInv, LostWithinRequired, Computed
<1> QED
  BY <1>1, <1>2, <1>3, <1>4, <1>5, <1>6, <1>7, NextKinds

\* Whatever an episode lost is among what it waits for: no interleaving of
\* ticks, losses, failures and restarts commits a row whose required set
\* misses a lost capability.
THEOREM LossIsAwaited == Spec => []LostWithinRequired
<1>1. Init => TypeOK /\ ProfileInv
  BY InitType, InitProfile
<1>2. TypeOK /\ ProfileInv /\ [Next]_vars => (TypeOK /\ ProfileInv)'
  BY NextType, NextProfile
<1>3. ProfileInv => LostWithinRequired
  BY DEF ProfileInv
<1> QED
  BY <1>1, <1>2, <1>3, PTL DEF Spec

-----------------------------------------------------------------------------
(***************************************************************************)
(* StopInv is inductive.                                                   *)
(***************************************************************************)

\* StopInv holds initially.
LEMMA InitStop == Init => StopInv
BY DEF Init, StopInv, CriticalStopsTask, NoRow, Computed, NoCall

\* A transition is critical only for the task that requires the capability.
LEMMA CriticalHasTask ==
  ASSUME NEW c \in Capability, NEW s \in Lifecycle, NEW expected \in BOOLEAN,
         NEW tk \in TaskRef, MakeTransition(c, s, expected, tk).impact = "critical"
  PROVE  MakeTransition(c, s, expected, tk).task # {}
BY DEF MakeTransition, ClassifyTaskImpact

\* A row computed for a critical loss names its task.
LEMMA RowStop ==
  ASSUME TypeOK, NEW t \in Transition, t.impact = "critical" => t.task # {},
         NEW row \in EpisodeRow,
         row.severity = "critical" => \E k \in row.tasks : Stopped(k)
  PROVE  /\ t.task \subseteq StartedRow(t).tasks
         /\ StartedRow(t).severity = "critical" => t.task # {}
         /\ t.task \subseteq AggregatedRow(row, t).tasks
         /\ AggregatedRow(row, t).severity = "critical" =>
              t.task # {} \/ \E k \in AggregatedRow(row, t).tasks : Stopped(k)
<1>1. StartedRow(t).tasks = t.task /\ StartedRow(t).severity = FromImpact(t.impact)
  BY NoRowType DEF StartedRow, EpisodeRow
<1>2. /\ AggregatedRow(row, t).tasks = row.tasks \cup t.task
      /\ AggregatedRow(row, t).severity = MaximumSeverity(row.severity, FromImpact(t.impact))
  BY NoRowType DEF AggregatedRow, EpisodeRow
<1> QED
  BY <1>1, <1>2 DEF FromImpact, MaximumSeverity

\* The part of StopInv about the transitions not applied yet.
BatchStop(b) == \A i \in 1..Len(b) : b[i].impact = "critical" => b[i].task # {}

\* Registering and applying transitions keeps the batch conjunct of StopInv.
LEMMA BatchStopKept ==
  ASSUME NEW b \in Seq(Transition), BatchStop(b)
  PROVE  /\ BatchStop(<<>>)
         /\ b # <<>> => BatchStop(Tail(b)) /\ (Head(b).impact = "critical" => Head(b).task # {})
         /\ \A t \in Transition : (t.impact = "critical" => t.task # {}) => BatchStop(Append(b, t))
<1>1. BatchStop(<<>>)
  BY DEF BatchStop
<1>2. ASSUME b # <<>>
      PROVE  BatchStop(Tail(b)) /\ (Head(b).impact = "critical" => Head(b).task # {})
  <2>1. /\ Len(Tail(b)) = Len(b) - 1
        /\ \A i \in 1..Len(Tail(b)) : Tail(b)[i] = b[i + 1]
        /\ Len(b) \in Nat \ {0} /\ Head(b) = b[1]
    BY <1>2
  <2> QED
    BY <2>1 DEF BatchStop
<1>3. ASSUME NEW t \in Transition, t.impact = "critical" => t.task # {}
      PROVE  BatchStop(Append(b, t))
  <2>1. /\ Len(Append(b, t)) = Len(b) + 1
        /\ \A i \in 1..Len(Append(b, t)) :
             Append(b, t)[i] = IF i = Len(b) + 1 THEN t ELSE b[i]
    OBVIOUS
  <2> QED
    BY <1>3, <2>1 DEF BatchStop
<1> QED
  BY <1>1, <1>2, <1>3

\* The part of StopInv about one call.
CallStop(c) ==
  c.op \in {"start", "aggregate"} =>
    /\ c.task \subseteq c.row.tasks
    /\ c.row.severity = "critical" => c.task # {} \/ \E t \in c.row.tasks : Stopped(t)

\* StopInv from its conjuncts.
LEMMA StopInvParts ==
  StopInv <=> CriticalStopsTask /\ BatchStop(batch) /\ \A p \in Thread : CallStop(call[p])
BY DEF StopInv, BatchStop, CallStop, Computed

\* StopInv survives a step that keeps stopped tasks stopped and changes no
\* column.
LEMMA StopFrameEpisode ==
  ASSUME TypeOK, StopInv, \A t \in Task : Stopped(t) => Stopped(t)',
         NEW e \in Episode,
         episode'[e].severity = episode[e].severity, episode'[e].tasks = episode[e].tasks,
         episode'[e].severity = "critical"
  PROVE  \E t \in episode'[e].tasks : Stopped(t)'
<1>1. episode[e].tasks \subseteq Task
  BY DEF TypeOK, EpisodeRow
<1>2. PICK t \in episode[e].tasks : Stopped(t)
  BY DEF StopInv, CriticalStopsTask, Stopped
<1> QED
  BY <1>1, <1>2

\* The call conjunct of StopInv survives while stopped tasks stay stopped.
LEMMA StopFrameCall ==
  ASSUME TypeOK, StopInv, \A t \in Task : Stopped(t) => Stopped(t)',
         NEW p \in Thread,
         call'[p].op = call[p].op, call'[p].row = call[p].row, call'[p].task = call[p].task
  PROVE  CallStop(call[p])'
<1>1. call[p].op # "none" => call[p].row.tasks \subseteq Task
  BY CallParts DEF EpisodeRow
<1>2. CallStop(call[p])
  BY StopInvParts
<1> QED
  BY <1>1, <1>2 DEF CallStop

\* Steps outside the engine start no stopped task again.
LEMMA ElsewhereTasks ==
  ASSUME TypeOK, Elsewhere
  PROVE  \A t \in Task : Stopped(t) => Stopped(t)'
BY DEF Elsewhere, RegisterTransition, Dispatch, Claim, Show, MarkEmitted, SpeakFails,
       DispatchFails, CreateTask, EndTask, vars, Stopped, TypeOK

\* Steps outside the engine keep the batch conjunct of StopInv.
LEMMA ElsewhereBatch ==
  ASSUME TypeOK, BatchStop(batch), Elsewhere
  PROVE  BatchStop(batch')
<1>1. ASSUME NEW c \in Capability, NEW s \in Lifecycle, NEW expected \in BOOLEAN,
             NEW tk \in TaskRef, RegisterTransition(c, s, expected, tk)
      PROVE  BatchStop(batch')
  <2>1. batch \in Seq(Transition) /\ batch' = Append(batch, MakeTransition(c, s, expected, tk))
    BY <1>1 DEF TypeOK, RegisterTransition
  <2> QED
    BY <2>1, MakeTransitionType, CriticalHasTask, BatchStopKept
<1>2. CASE batch' = batch
  BY <1>2
<1> QED
  BY <1>1, <1>2 DEF Elsewhere, Dispatch, Claim, Show, MarkEmitted, SpeakFails,
       DispatchFails, CreateTask, EndTask, vars

\* Every step keeps StopInv.
LEMMA NextStop ==
  ASSUME TypeOK, StopInv, [Next]_vars
  PROVE  StopInv'
<1>0. /\ TypeOK' /\ CriticalStopsTask /\ BatchStop(batch)
      /\ \A p \in Thread : CallStop(call[p])
      /\ batch \in Seq(Transition)
  BY NextType, StopInvParts DEF TypeOK
<1> SUFFICES CriticalStopsTask' /\ BatchStop(batch') /\ \A p \in Thread : CallStop(call[p])'
  BY DEF StopInv, BatchStop, CallStop, Computed
<1>1. CASE Elsewhere
  BY <1>0, <1>1, ElsewhereKeeps, ElsewhereTasks, ElsewhereBatch, StopFrameEpisode, StopFrameCall
     DEF CriticalStopsTask, Stopped
<1>2. CASE ApplyTransition
  <2>1. /\ Head(batch) \in Transition
        /\ Head(batch).impact = "critical" => Head(batch).task # {}
        /\ BatchStop(batch')
    BY <1>0, <1>2, ApplyDecides, HeadType, BatchStopKept
  <2>2. \A t \in Task : Stopped(t) => Stopped(t)'
    BY <1>2, ApplyDecides DEF Stopped
  <2>3. CriticalStopsTask'
    BY <1>2, ApplyDecides DEF StopInv, CriticalStopsTask
  <2>4. CallStop(call["maintenance"])'
    BY <1>0, <1>2, <2>2, ApplyDecides, StopFrameEpisode, StopFrameCall DEF Thread
  <2>5. CallStop(call["executor"])'
    <3>1. CASE call'["executor"].op \in {"none", "cancel", "recover", "return"}
      BY <3>1 DEF CallStop
    <3>2. CASE /\ call'["executor"].row = StartedRow(Head(batch))
               /\ call'["executor"].task = Head(batch).task
      BY <2>1, <3>2, RowStop, NoRowType DEF CallStop, NoRow
    <3>3. ASSUME NEW e \in Episode,
                 call'["executor"].row = AggregatedRow(episode[e], Head(batch)),
                 call'["executor"].task = Head(batch).task
          PROVE  CallStop(call["executor"])'
      <4>1. /\ episode[e] \in EpisodeRow
            /\ episode[e].severity = "critical" => \E k \in episode[e].tasks : Stopped(k)
        BY <1>0 DEF TypeOK, CriticalStopsTask, Stopped
      <4>2. \A k : Stopped(k)' <=> Stopped(k)
        BY <1>2, ApplyDecides DEF Stopped
      <4> QED
        BY <2>1, <3>3, <4>1, <4>2, RowStop DEF CallStop
    <3> QED
      BY <1>2, <3>1, <3>2, <3>3, ApplyDecides
  <2> QED
    BY <2>1, <2>3, <2>4, <2>5 DEF Thread
<1>3. CASE TickRead \/ TickCheck
  <2>1. \A t \in Task : Stopped(t) => Stopped(t)'
    BY <1>3, TickDecides DEF Stopped
  <2>2. CriticalStopsTask' /\ BatchStop(batch')
    BY <1>0, <1>3, TickDecides DEF CriticalStopsTask
  <2>3. CallStop(call["executor"])' /\ CallStop(call["maintenance"])'
    BY <1>0, <1>3, <2>1, TickDecides, StopFrameEpisode, StopFrameCall DEF Thread, CallStop
  <2> QED
    BY <2>2, <2>3 DEF Thread
<1>4. CASE Advance
  <2>1. \A t \in Task : Stopped(t) => Stopped(t)'
    BY <1>4, AdvanceKeeps DEF Stopped
  <2> QED
    BY <1>0, <1>4, <2>1, AdvanceKeeps, StopFrameEpisode, StopFrameCall DEF CriticalStopsTask, Stopped
<1>5. ASSUME NEW p \in Thread, Commit(p)
      PROVE  CriticalStopsTask' /\ BatchStop(batch') /\ \A q \in Thread : CallStop(call[q])'
  <2>0. \A t \in Task : Stopped(t) => Stopped(t)'
    BY <1>5, CommitKeeps
  <2>1. \A q \in Thread : CallStop(call[q])'
    <3> SUFFICES ASSUME NEW q \in Thread PROVE CallStop(call[q])'
      OBVIOUS
    <3>1. CASE q = p
      BY <1>5, <3>1, CommitKeeps DEF CallStop
    <3>2. CASE q # p
      BY <1>0, <1>5, <2>0, <3>2, CommitKeeps, StopFrameEpisode, StopFrameCall
    <3> QED BY <3>1, <3>2
  <2>2. \A e \in Episode \ {call[p].ep} :
          episode'[e].severity = "critical" => \E t \in episode'[e].tasks : Stopped(t)'
    BY <1>0, <1>5, <2>0, CommitKeeps, StopFrameEpisode, StopFrameCall
  <2>3. episode'[call[p].ep].severity = "critical" =>
          \E t \in episode'[call[p].ep].tasks : Stopped(t)'
    <3>1. CASE call[p].op \in {"start", "aggregate"}
      <4>1. /\ episode'[call[p].ep].severity = call[p].row.severity
            /\ episode'[call[p].ep].tasks = call[p].row.tasks
        BY <1>5, <3>1, CommitWrites
      <4>2. StopTask(call[p].row.severity = "critical", call[p].task)
        BY <1>5, <3>1 DEF Commit, StartEpisode, AggregateLoss, EnterDegraded,
           CancelTransient, StartRecovery, ReturnToDegraded, FinishRecovery
      <4>3. call[p].row.tasks \subseteq Task /\ call[p].task \subseteq call[p].row.tasks
        BY <1>0, <3>1, CallParts DEF EpisodeRow, CallStop
      <4>4. call[p].row.severity = "critical" => \A t \in call[p].task : Stopped(t)'
        BY <4>2, <4>3 DEF StopTask, Stopped
      <4> QED
        BY <1>0, <2>0, <3>1, <4>1, <4>3, <4>4 DEF CallStop
    <3>2. CASE call[p].op \notin {"start", "aggregate"}
      <4>1. /\ episode'[call[p].ep].severity = episode[call[p].ep].severity
            /\ episode'[call[p].ep].tasks = episode[call[p].ep].tasks
            /\ call[p].ep \in Episode
        BY <1>5, <3>2, CommitWrites, CommitKeeps
      <4> QED
        BY <1>0, <2>0, <4>1, StopFrameEpisode, StopFrameCall
    <3> QED BY <3>1, <3>2
  <2>4. CriticalStopsTask'
    BY <2>2, <2>3 DEF CriticalStopsTask, Stopped
  <2> QED
    BY <1>0, <1>5, <2>1, <2>4, CommitKeeps
<1>6. ASSUME NEW p \in Thread, CallFails(p)
      PROVE  CriticalStopsTask' /\ BatchStop(batch') /\ \A q \in Thread : CallStop(call[q])'
  <2>0. \A t \in Task : Stopped(t) => Stopped(t)'
    BY <1>6, FailKeeps DEF Stopped
  <2>1. CriticalStopsTask' /\ BatchStop(batch')
    BY <1>0, <1>6, FailKeeps, BatchStopKept DEF CriticalStopsTask
  <2>2. ASSUME NEW q \in Thread PROVE CallStop(call[q])'
    <3>1. CASE q = p
      BY <1>6, <3>1, FailKeeps DEF CallStop
    <3>2. CASE q # p
      BY <1>0, <1>6, <2>0, <3>2, FailKeeps, StopFrameEpisode, StopFrameCall
    <3> QED BY <3>1, <3>2
  <2> QED BY <2>1, <2>2
<1>7. CASE Restart \/ Crash
  <2>1. CriticalStopsTask'
    BY <1>0, <1>7, NewBootKeeps, StopFrameEpisode, StopFrameCall DEF CriticalStopsTask, Stopped
  <2> QED
    BY <1>0, <1>7, <2>1, NewBootKeeps, BatchStopKept DEF CallStop
<1> QED
  BY <1>1, <1>2, <1>3, <1>4, <1>5, <1>6, <1>7, NextKinds

\* A critical episode has stopped one of its tasks, and that task is never
\* made active again: the projection of a critical loss stops the task in the
\* same transaction that writes the severity.
THEOREM CriticalLossStops == Spec => []CriticalStopsTask
<1>1. Init => TypeOK /\ StopInv
  BY InitType, InitStop
<1>2. TypeOK /\ StopInv /\ [Next]_vars => (TypeOK /\ StopInv)'
  BY NextType, NextStop
<1>3. StopInv => CriticalStopsTask
  BY DEF StopInv
<1> QED
  BY <1>1, <1>2, <1>3, PTL DEF Spec

-----------------------------------------------------------------------------
(***************************************************************************)
(* TimerInv is inductive.                                                  *)
(***************************************************************************)

\* TimerInv holds initially.
LEMMA InitTimer == Init => TimerInv
BY DEF Init, TimerInv, RowTimer, NoRow, NoCall, Thread

\* A new row carries one boot in all its timers.
LEMMA StartedTimer ==
  ASSUME TypeOK, NEW t \in Transition
  PROVE  StartedRow(t).state = "DEGRADING" /\ RowTimer(StartedRow(t), boot)
<1>1. /\ StartedRow(t).state = "DEGRADING"
      /\ StartedRow(t).timer_boot = boot
      /\ StartedRow(t).started_boot = boot
  BY NoRowType DEF StartedRow, EpisodeRow
<1>2. boot \in Int
  BY DegradationAssumption DEF TypeOK, DegradationAssumption
<1> QED
  BY <1>1, <1>2 DEF RowTimer

\* The states an aggregated loss may leave.
LEMMA AggregatedState ==
  ASSUME NEW t \in Transition, NEW row \in EpisodeRow, row.state # "NONE"
  PROVE  /\ AggregatedRow(row, t).state \in {"DEGRADING", "DEGRADED"}
         /\ AggregatedRow(row, t).state = "DEGRADING" => row.state = "DEGRADING"
<1>1. AggregatedRow(row, t).state =
        IF row.state \in {"RECOVERING", "NOMINAL"} THEN "DEGRADED" ELSE row.state
  BY NoRowType DEF AggregatedRow, EpisodeRow
<1> QED
  BY <1>1 DEF EpisodeRow, EpisodeState

\* Every step keeps TimerInv.
LEMMA NextTimer ==
  ASSUME TypeOK, TimerInv, [Next]_vars
  PROVE  TimerInv'
<1>0. /\ "executor" \in Thread /\ "maintenance" \in Thread
      /\ boot \in Int
      /\ \A e \in Episode : /\ episode[e] \in EpisodeRow
                            /\ episode[e].timer_boot \in Int
                            /\ RowTimer(episode[e], boot)
  BY DegradationAssumption
     DEF Thread, TypeOK, EpisodeRow, Boot, TimerInv, DegradationAssumption
<1>1. CASE Elsewhere
  BY <1>1, ElsewhereKeeps DEF TimerInv, RowTimer
<1>2. CASE ApplyTransition
  <2>1. Head(batch) \in Transition
    BY <1>2, ApplyDecides, HeadType
  <2>3. /\ \A e \in Episode : RowTimer(episode'[e], boot')
        /\ call'["maintenance"].op \notin {"start", "aggregate", "recover"}
    BY <1>0, <1>2, ApplyDecides DEF TimerInv, RowTimer
  <2>4. CASE call'["executor"].op \notin {"start", "aggregate"}
    BY <2>3, <2>4 DEF TimerInv
  <2>5. CASE call'["executor"].op = "start" /\ call'["executor"].row = StartedRow(Head(batch))
    <3>1. RowTimer(call'["executor"].row, boot') /\ call'["executor"].row.state = "DEGRADING"
      BY <1>2, <2>1, <2>5, StartedTimer, ApplyDecides DEF RowTimer
    <3> QED
      BY <2>3, <2>5, <3>1 DEF TimerInv
  <2>6. ASSUME NEW e \in Episode, episode[e].state # "NONE",
               call'["executor"].op = "aggregate", call'["executor"].ep = e,
               call'["executor"].row = AggregatedRow(episode[e], Head(batch))
        PROVE  TimerInv'
    <3>1. /\ call'["executor"].row.state \in {"DEGRADING", "DEGRADED"}
          /\ call'["executor"].row.state = "DEGRADING" => episode[e].state = "DEGRADING"
      BY <1>0, <2>1, <2>6, AggregatedState
    <3>2. call'["executor"].row.state = "DEGRADING" =>
            episode'[e].timer_boot = episode'[e].started_boot
      BY <1>0, <1>2, <3>1, ApplyDecides DEF RowTimer
    <3> QED
      BY <2>3, <2>6, <3>1, <3>2 DEF TimerInv
  <2> QED
    BY <1>2, <2>4, <2>5, <2>6, ApplyDecides
<1>3. CASE TickRead \/ TickCheck
  BY <1>3, TickDecides DEF TimerInv, RowTimer
<1>4. CASE Advance
  <2>1. \A e \in Episode : RowTimer(episode'[e], boot')
    BY <1>0, <1>4, AdvanceKeeps DEF RowTimer
  <2>2. /\ call'["executor"].op = call["executor"].op
        /\ call'["executor"].ep = call["executor"].ep
        /\ call'["executor"].row = call["executor"].row
        /\ call'["maintenance"].op = call["maintenance"].op
        /\ boot' = boot
    BY <1>0, <1>4, AdvanceKeeps
  <2>3. call["executor"].op = "aggregate" => call["executor"].ep \in Episode
    BY <1>0, CallParts
  <2>4. call["executor"].op = "aggregate" =>
          /\ episode'[call["executor"].ep].timer_boot = episode[call["executor"].ep].timer_boot
          /\ episode'[call["executor"].ep].started_boot = episode[call["executor"].ep].started_boot
    BY <1>4, <2>3, AdvanceKeeps
  <2>5. RowTimer(call'["executor"].row, boot') <=> RowTimer(call["executor"].row, boot)
    BY <2>2 DEF RowTimer
  <2> QED
    BY <2>1, <2>2, <2>4, <2>5 DEF TimerInv
<1>5. ASSUME NEW p \in Thread, Commit(p)
      PROVE  TimerInv'
  <2> DEFINE c == call[p]
  <2>1. /\ c.ep \in Episode /\ boot' = boot
        /\ \A e \in Episode \ {c.ep} : episode'[e] = episode[e]
    BY <1>5, CommitKeeps
  <2>2. RowTimer(episode'[c.ep], boot')
    <3>1. CASE c.op = "start"
      <4>1. RowTimer(c.row, boot) /\ c.row.state = "DEGRADING"
        BY <1>5, <3>1 DEF TimerInv, Thread
      <4> QED
        BY <1>5, <2>1, <3>1, <4>1, CommitWrites DEF RowTimer
    <3>2. CASE c.op = "aggregate"
      <4>1. /\ c.row.state \in {"DEGRADING", "DEGRADED"}
            /\ c.row.state = "DEGRADING" =>
                 episode[c.ep].timer_boot = episode[c.ep].started_boot
        BY <1>5, <3>2 DEF TimerInv, Thread
      <4> QED
        BY <1>0, <1>5, <2>1, <3>2, <4>1, CommitWrites DEF RowTimer
    <3>3. CASE c.op \in {"enter", "return", "cancel", "finish"}
      BY <1>0, <1>5, <2>1, <3>3, CommitWrites DEF RowTimer
    <3>4. CASE c.op = "recover"
      BY <1>0, <1>5, <2>1, <3>4, CommitWrites DEF RowTimer
    <3> QED
      BY <1>5, <3>1, <3>2, <3>3, <3>4, CommitKeeps DEF Op
  <2>3. \A e \in Episode : RowTimer(episode'[e], boot')
    BY <1>0, <2>1, <2>2 DEF RowTimer
  <2>4. CASE p = "executor"
    BY <1>0, <1>5, <2>3, <2>4, CommitKeeps DEF TimerInv
  <2>5. CASE p = "maintenance"
    <3>1. c.op \notin {"start", "aggregate", "recover"}
      BY <2>5 DEF TimerInv
    <3>2. call'["executor"] = call["executor"] /\ call'["maintenance"].op = "none"
      BY <1>0, <1>5, <2>5, CommitKeeps
    <3>3. /\ episode'[c.ep].timer_boot = episode[c.ep].timer_boot
          /\ episode'[c.ep].started_boot = episode[c.ep].started_boot
      BY <1>5, <3>1, CommitWrites
    <3>4. \A e \in Episode : /\ episode'[e].timer_boot = episode[e].timer_boot
                             /\ episode'[e].started_boot = episode[e].started_boot
      BY <2>1, <3>3
    <3>5. call["executor"].op = "aggregate" => call["executor"].ep \in Episode
      BY <1>0, CallParts
    <3>6. RowTimer(call'["executor"].row, boot') <=> RowTimer(call["executor"].row, boot)
      BY <2>1, <3>2 DEF RowTimer
    <3> QED
      BY <2>3, <3>2, <3>4, <3>5, <3>6 DEF TimerInv
  <2> QED
    BY <2>4, <2>5 DEF Thread
<1>6. ASSUME NEW p \in Thread, CallFails(p)
      PROVE  TimerInv'
  BY <1>6, FailKeeps DEF TimerInv, RowTimer, Thread
<1>7. CASE Restart \/ Crash
  <2>1. \A e \in Episode : RowTimer(episode'[e], boot')
    BY <1>0, <1>7, NewBootKeeps DEF RowTimer
  <2> QED
    BY <1>0, <1>7, <2>1, NewBootKeeps DEF TimerInv
<1> QED
  BY <1>1, <1>2, <1>3, <1>4, <1>5, <1>6, <1>7, NextKinds

\* The engine never subtracts monotonic readings of two boots: one
\* timer_boot_id column is enough for the three readings of a row.
THEOREM TimersComparable == Spec => []MonotonicComparable
<1>1. Init => TypeOK /\ TimerInv
  BY InitType, InitTimer
<1>2. TypeOK /\ TimerInv /\ [Next]_vars => (TypeOK /\ TimerInv)'
  BY NextType, NextTimer
<1>3. TimerInv => MonotonicComparable
  BY DEF TimerInv, RowTimer, MonotonicComparable
<1> QED
  BY <1>1, <1>2, <1>3, PTL DEF Spec

-----------------------------------------------------------------------------
(***************************************************************************)
(* DeliveryInv is inductive when no dispatch raises.                       *)
(***************************************************************************)

\* DeliveryInv holds initially.
LEMMA InitDelivery == Init => DeliveryInv
BY DEF Init, DeliveryInv, OnceEach, QtIdle

DeliveryUndisturbed == failures = 0 => DeliveryInv

\* An exception is never forgotten.
LEMMA FailuresStay == TypeOK /\ [Next]_vars /\ failures' = 0 => failures = 0
<1> SUFFICES ASSUME TypeOK, [Next]_vars, failures' = 0 PROVE failures = 0
  OBVIOUS
<1>0. failures \in Nat
  BY DegradationAssumption DEF TypeOK, DegradationAssumption
<1>1. CASE Elsewhere
  <2>1. CASE SpeakFails \/ DispatchFails
    <3>1. failures' = failures + 1
      BY <2>1 DEF SpeakFails, DispatchFails
    <3> QED BY <1>0, <3>1
  <2>2. CASE failures' = failures
    BY <2>2
  <2> QED
    BY <1>1, <2>1, <2>2 DEF Elsewhere, RegisterTransition, Dispatch, Claim, Show,
                            MarkEmitted, CreateTask, EndTask, vars
<1>2. CASE ApplyTransition \/ TickRead \/ TickCheck \/ Advance
  BY <1>2 DEF ApplyTransition, ApplyReconcile, ApplyStart, ApplyAggregate, Decide,
              TickRead, TickCheck, Advance
<1>3. ASSUME NEW p \in Thread, Commit(p) \/ CallFails(p) PROVE failures = 0
  <2>1. CASE CallFails(p)
    <3>1. failures' = failures + 1
      BY <2>1 DEF CallFails
    <3> QED BY <1>0, <3>1
  <2>2. CASE Commit(p)
    BY <2>2 DEF Commit, StartEpisode, AggregateLoss, EnterDegraded, CancelTransient,
                StartRecovery, ReturnToDegraded, FinishRecovery
  <2> QED BY <1>3, <2>1, <2>2
<1>4. CASE Restart \/ Crash
  BY <1>4 DEF Restart, Crash, NewBoot
<1> QED
  BY <1>1, <1>2, <1>3, <1>4, NextKinds

\* Without exceptions, every step keeps DeliveryInv.
LEMMA NextDelivery ==
  ASSUME TypeOK, DeliveryInv, [Next]_vars, failures = 0, failures' = 0
  PROVE  DeliveryInv'
<1>0. /\ \A k \in Phrase : shown[k] \in Nat
      /\ qt # QtIdle => qt \in [pc : {"claimed", "shown"}, phrase : Phrase]
  BY DEF TypeOK, QtState
<1>1. CASE UNCHANGED <<outbox, shown, qt>>
  BY <1>1 DEF DeliveryInv, OnceEach
<1>2. ASSUME NEW kind, NEW e, Enqueue(kind, e), UNCHANGED <<shown, qt>>
      PROVE  DeliveryInv'
  BY <1>0, <1>2 DEF DeliveryInv, OnceEach, Enqueue, TypeOK
<1>3. ASSUME NEW k \in Phrase, Claim(k)
      PROVE  DeliveryInv'
  BY <1>0, <1>3 DEF Claim, DeliveryInv, OnceEach, QtIdle, TypeOK
<1>4. CASE Show
  BY <1>0, <1>4 DEF Show, DeliveryInv, OnceEach, QtIdle, TypeOK
<1>5. CASE MarkEmitted
  BY <1>0, <1>5 DEF MarkEmitted, DeliveryInv, OnceEach, QtIdle, TypeOK
<1>6. CASE Restart \/ Crash
  BY <1>0, <1>6 DEF Restart, Crash, NewBoot, DeliveryInv, OnceEach, QtIdle
<1>7. ~SpeakFails /\ ~DispatchFails
  BY DEF SpeakFails, DispatchFails
<1>8. ASSUME NEW p \in Thread, Commit(p)
      PROVE  \/ UNCHANGED <<outbox, shown, qt>>
             \/ \E kind, e : Enqueue(kind, e) /\ UNCHANGED <<shown, qt>>
  BY <1>8 DEF Commit, StartEpisode, AggregateLoss, EnterDegraded, CancelTransient,
         StartRecovery, ReturnToDegraded, FinishRecovery
<1>9. CASE Elsewhere
  <2>1. \/ UNCHANGED <<outbox, shown, qt>> \/ Show \/ MarkEmitted
        \/ \E k \in Phrase : Claim(k)
    BY <1>7, <1>9 DEF Elsewhere, RegisterTransition, Dispatch, CreateTask, EndTask, vars
  <2> QED
    BY <1>1, <1>3, <1>4, <1>5, <2>1
<1>10. CASE ApplyTransition \/ TickRead \/ TickCheck \/ Advance
  <2>1. UNCHANGED <<outbox, shown, qt>>
    BY <1>10 DEF ApplyTransition, ApplyReconcile, ApplyStart, ApplyAggregate, Decide,
                 TickRead, TickCheck, Advance
  <2> QED
    BY <1>1, <2>1
<1>11. ASSUME NEW p \in Thread, CallFails(p)
       PROVE  DeliveryInv'
  BY <1>1, <1>11 DEF CallFails
<1> QED
  BY <1>1, <1>2, <1>6, <1>8, <1>9, <1>10, <1>11, NextKinds

\* As long as no call raises, each phrase reaches the user at most once, for
\* any number of episodes, reopenings, overlapping ticks and crashes.
THEOREM PhraseOnce == Spec => []PhraseAtMostOnce
<1>1. Init => DeliveryUndisturbed
  BY InitDelivery DEF DeliveryUndisturbed
<1>2. TypeOK /\ DeliveryUndisturbed /\ [Next]_vars => DeliveryUndisturbed'
  BY NextDelivery, FailuresStay DEF DeliveryUndisturbed
<1>3. DeliveryUndisturbed => PhraseAtMostOnce
  BY DEF DeliveryUndisturbed, DeliveryInv, PhraseAtMostOnce
<1> QED
  BY <1>1, <1>2, <1>3, TypeCorrect, PTL DEF Spec

-----------------------------------------------------------------------------
(***************************************************************************)
(* One open episode.  When a tick never overlaps an executor job, whatever *)
(* call is under way names the only episode that may be open, so that      *)
(* nothing another call does can come between its read and its commit.     *)
(***************************************************************************)

SerialInv ==
  /\ AtMostOneActive /\ NonOverlap
  /\ \A p \in Thread : ~Idle(p) => Active \subseteq {call[p].ep}

\* SerialInv holds initially.
LEMMA InitSerial == Init => SerialInv
BY DEF Init, SerialInv, AtMostOneActive, NonOverlap, Idle, Active, NoRow, NoCall, Thread

\* The four ways on_transition decides: nothing is open, the open episode is
\* reconciled, an episode starts, a loss is aggregated.
LEMMA ApplyCases ==
  ASSUME TypeOK, ApplyTransition
  PROVE  /\ UNCHANGED <<current, unbroken, failures>>
         /\ Idle("executor") /\ batch # <<>>
         /\ LET c == call'["executor"]
            IN  \/ c.op = "none" /\ Active = {}
                \/ \E e \in Episode :
                     /\ IsActiveRow(e)
                     /\ c = Decided(ReconcileOp(episode[e]), e, 0, NoRow, {})
                \/ c.op = "start" /\ Active = {}
                \/ /\ c.op = "aggregate"
                   /\ Active = {} \/ IsActiveRow(c.ep)
<1>0. "executor" \in Thread
  BY DEF Thread
<1>1. CASE ApplyReconcile
  <2>1. CASE Active = {} /\ Decide("none", 0, NoRow, {})
    BY <1>0, <1>1, <2>1 DEF ApplyReconcile, Applicable, Decide, Decided, NoCall, TypeOK
  <2>2. ASSUME NEW e \in Episode, IsActiveRow(e),
               Decide(ReconcileOp(episode[e]), e, NoRow, {})
        PROVE  call'["executor"] = Decided(ReconcileOp(episode[e]), e, 0, NoRow, {})
    BY <1>0, <2>2 DEF Decide, TypeOK
  <2>3. /\ UNCHANGED <<current, unbroken, failures>>
        /\ Idle("executor") /\ batch # <<>>
    BY <1>1 DEF ApplyReconcile, Applicable, Decide
  <2> QED
    BY <1>1, <2>1, <2>2, <2>3 DEF ApplyReconcile
<1>2. CASE ApplyStart
  <2>1. PICK e \in Episode :
          Decide("start", e, StartedRow(Head(batch)), Head(batch).task)
    BY <1>2 DEF ApplyStart
  <2>2. call'["executor"] = Decided("start", e, 0, StartedRow(Head(batch)), Head(batch).task)
    BY <1>0, <2>1 DEF Decide, TypeOK
  <2> QED
    BY <1>2, <2>1, <2>2, DecidedParts DEF ApplyStart, Applicable, Decide
<1>3. CASE ApplyAggregate
  <2>1. PICK e \in Episode :
          /\ IsActiveRow(e) \/ Active = {}
          /\ Decide("aggregate", e, AggregatedRow(episode[e], Head(batch)),
                    Head(batch).task)
    BY <1>3 DEF ApplyAggregate
  <2>2. call'["executor"] =
          Decided("aggregate", e, 0, AggregatedRow(episode[e], Head(batch)),
                  Head(batch).task)
    BY <1>0, <2>1 DEF Decide, TypeOK
  <2>3. /\ call'["executor"].op = "aggregate" /\ call'["executor"].ep = e
    BY <2>2, DecidedParts
  <2> QED
    BY <1>3, <2>1, <2>3 DEF ApplyAggregate, Applicable, Decide
<1> QED
  BY <1>1, <1>2, <1>3 DEF ApplyTransition

\* The two halves of a tick: it reads the open episode, and decides what to do
\* with the row it kept.
LEMMA TickCases ==
  ASSUME TypeOK, TickRead \/ TickCheck
  PROVE  /\ UNCHANGED <<current, unbroken, failures>>
         /\ LET c == call["maintenance"]  d == call'["maintenance"]
            IN  \/ \E e \in Episode :
                     /\ IsActiveRow(e) /\ TickDue(episode[e])
                     /\ d = Decided("check", e, 0, CheckedRow(episode[e]), {})
                \/ c.op = "check" /\ d = Decided(TickOp(c.row), c.ep, c.age, NoRow, {})
<1>0. "maintenance" \in Thread
  BY DEF Thread
<1>1. CASE TickRead
  BY <1>0, <1>1 DEF TickRead, TypeOK
<1>2. CASE TickCheck
  BY <1>0, <1>2 DEF TickCheck, TypeOK
<1> QED BY <1>1, <1>2

\* A decision that is not empty names the episode it was made of.
LEMMA DecidedEpisode ==
  ASSUME NEW op, NEW e, NEW age, NEW row, NEW tk
  PROVE  \/ Decided(op, e, age, row, tk).op = "none" /\ op = "none"
         \/ Decided(op, e, age, row, tk).ep = e /\ Decided(op, e, age, row, tk).op = op
BY DEF Decided, NoCall

\* The latest open episode is the only one.
LEMMA OnlyActive ==
  ASSUME AtMostOneActive, NEW e, IsActiveRow(e) PROVE Active = {e}
BY DEF AtMostOneActive, IsActiveRow

\* A transaction of a lone call leaves no call under way.
LEMMA LoneCall ==
  ASSUME TypeOK, NonOverlap, NEW p \in Thread, Commit(p) \/ CallFails(p)
  PROVE  \A q \in Thread : call'[q].op = "none"
<1>1. ~Idle(p) /\ call'[p].op = "none" /\ \A q \in Thread \ {p} : call'[q] = call[q]
  BY CommitKeeps, FailKeeps DEF CallFails, Idle, Op
<1>2. \A q \in Thread \ {p} : Idle(q)
  BY <1>1 DEF NonOverlap, Thread
<1> QED
  BY <1>1, <1>2 DEF Idle

\* Every step of a serial behaviour keeps SerialInv.
LEMMA NextSerial ==
  ASSUME TypeOK, SerialInv, [SerialNext]_vars
  PROVE  SerialInv'
<1>0. /\ [Next]_vars
      /\ "executor" \in Thread /\ "maintenance" \in Thread
      /\ AtMostOneActive /\ NonOverlap
      /\ \A p \in Thread : ~Idle(p) => Active \subseteq {call[p].ep}
  BY DEF SerialNext, SerialInv, Thread
<1>n. NonOverlap'
  <2>1. CASE SerialNext
    BY <2>1 DEF SerialNext
  <2>2. CASE UNCHANGED vars
    BY <1>0, <2>2 DEF vars, NonOverlap, Idle
  <2> QED BY <2>1, <2>2
<1>f. UNCHANGED episode => Active' = Active /\ AtMostOneActive'
  BY <1>0 DEF Active, AtMostOneActive
<1> SUFFICES AtMostOneActive' /\ \A p \in Thread : ~Idle(p)' => Active' \subseteq {call'[p].ep}
  BY <1>n DEF SerialInv
<1>1. CASE Elsewhere
  BY <1>0, <1>1, <1>f, ElsewhereKeeps DEF Idle
<1>2. CASE ApplyTransition
  <2>1. /\ UNCHANGED episode /\ call'["maintenance"] = call["maintenance"]
    BY <1>2, ApplyDecides
  <2>2. call'["executor"].op # "none" => Active \subseteq {call'["executor"].ep}
    <3> DEFINE c == call'["executor"]
    <3>1. ASSUME NEW e \in Episode, IsActiveRow(e),
                 c = Decided(ReconcileOp(episode[e]), e, 0, NoRow, {})
          PROVE  c.op # "none" => Active \subseteq {c.ep}
      BY <1>0, <3>1, OnlyActive, DecidedEpisode
    <3>2. CASE Active = {} \/ IsActiveRow(c.ep)
      BY <1>0, <3>2, OnlyActive
    <3> QED
      BY <1>2, <3>1, <3>2, ApplyCases
  <2> QED
    BY <1>0, <1>f, <2>1, <2>2 DEF Idle, Thread
<1>3. CASE TickRead \/ TickCheck
  <2>1. /\ UNCHANGED episode /\ call'["executor"] = call["executor"]
    BY <1>3, TickDecides
  <2>2. call'["maintenance"].op # "none" => Active \subseteq {call'["maintenance"].ep}
    <3> DEFINE c == call["maintenance"]  d == call'["maintenance"]
    <3>1. ASSUME NEW e \in Episode, IsActiveRow(e),
                 d = Decided("check", e, 0, CheckedRow(episode[e]), {})
          PROVE  d.op # "none" => Active \subseteq {d.ep}
      BY <1>0, <3>1, OnlyActive, DecidedEpisode
    <3>2. CASE c.op = "check" /\ d = Decided(TickOp(c.row), c.ep, c.age, NoRow, {})
      BY <1>0, <3>2, DecidedEpisode DEF Idle
    <3> QED
      BY <1>3, <3>1, <3>2, TickCases
  <2> QED
    BY <1>0, <1>f, <2>1, <2>2 DEF Idle, Thread
<1>4. CASE Advance
  <2>1. Active' = Active /\ AtMostOneActive'
    BY <1>0, <1>4, AdvanceKeeps DEF Active, AtMostOneActive
  <2> QED
    BY <1>0, <1>4, <2>1, AdvanceKeeps DEF Idle
<1>5. ASSUME NEW p \in Thread, Commit(p)
      PROVE  AtMostOneActive' /\ \A q \in Thread : ~Idle(q)' => Active' \subseteq {call'[q].ep}
  <2>1. /\ Active \subseteq {call[p].ep}
        /\ \A e \in Episode \ {call[p].ep} : episode'[e] = episode[e]
    BY <1>0, <1>5, CommitKeeps DEF Idle, Op
  <2>2. Active' \subseteq {call[p].ep}
    BY <2>1 DEF Active
  <2> QED
    BY <1>0, <1>5, <2>2, LoneCall DEF AtMostOneActive, Idle
<1>6. ASSUME NEW p \in Thread, CallFails(p)
      PROVE  AtMostOneActive' /\ \A q \in Thread : ~Idle(q)' => Active' \subseteq {call'[q].ep}
  BY <1>0, <1>6, <1>f, LoneCall, FailKeeps DEF Idle
<1>7. CASE Restart \/ Crash
  BY <1>7, <1>f, NewBootKeeps DEF Idle
<1> QED
  BY <1>0, <1>1, <1>2, <1>3, <1>4, <1>5, <1>6, <1>7, NextKinds

\* If ticks and executor jobs never overlap there is never more than one open
\* episode, whatever fails and however often the process restarts: _active_row,
\* which reads only the latest one, then leaves no episode behind.
THEOREM OneEpisodeOpen == SerialSpec => []AtMostOneActive
<1>1. Init => TypeOK /\ SerialInv
  BY InitType, InitSerial
<1>2. TypeOK /\ SerialInv /\ [SerialNext]_vars => (TypeOK /\ SerialInv)'
  BY NextType, NextSerial DEF SerialNext
<1>3. SerialInv => AtMostOneActive
  BY DEF SerialInv
<1> QED
  BY <1>1, <1>2, <1>3, PTL DEF SerialSpec

-----------------------------------------------------------------------------
(***************************************************************************)
(* Real recoveries.  RecoveryIsReal speaks of one process in which no call *)
(* raises, and of serial ticks.  A capability that an episode in           *)
(* RECOVERING waits for has then been READY at least as long as the        *)
(* recovery has lasted, or its loss is on the way to the engine; and a     *)
(* decision to end an episode stays true until its commit.                 *)
(***************************************************************************)

\* The engine is about to hear of c, or has and is about to leave RECOVERING.
Reported(c) ==
  \/ \E i \in 1..Len(batch) : batch[i].cap = c
  \/ call["executor"].op \in {"aggregate", "return"}

ReadyAged == \A c \in Capability : current[c] = "READY" => unbroken[c] # Null

RecoveringInv ==
  \A e \in Episode : episode[e].state = "RECOVERING" =>
    \A c \in episode[e].required :
      IF current[c] = "READY" THEN unbroken[c] >= episode[e].recovery_age
      ELSE Reported(c)

\* The row a tick kept is still the row in the table, but for its age.
Checked(k) ==
  k.op = "check" =>
    /\ k.row.state \in {"DEGRADING", "RECOVERING"}
    /\ k.row.state = episode[k.ep].state
    /\ k.row.required = episode[k.ep].required
    /\ k.row.recovery_age <= episode[k.ep].recovery_age

\* What was decided because everything was READY.
Ending(k) ==
  /\ k.op \in {"cancel", "finish", "recover"} =>
       \A c \in episode[k.ep].required :
         /\ current[c] = "READY"
         /\ k.op = "finish" => unbroken[c] >= RecoveryStability
         /\ k.op = "recover" => unbroken[c] >= k.age
  /\ k.op = "cancel" => episode[k.ep].state = "DEGRADING"

RecoveryInv ==
  /\ ReadyAged /\ RecoveringInv
  /\ \A p \in Thread : Checked(call[p]) /\ Ending(call[p])

\* RecoveryInv holds initially.
LEMMA InitRecovery == Init => RecoveryInv
<1> SUFFICES ASSUME Init PROVE RecoveryInv
  OBVIOUS
<1>1. ReadyAged
  BY DEF Init, ReadyAged, ReadySince, Null
<1> QED
  BY <1>1 DEF Init, RecoveryInv, RecoveringInv, Checked, Ending, NoRow, NoCall

\* Time keeps the order of two ages and never lowers one.
LEMMA OlderOrder ==
  ASSUME NEW a \in Age \cup {Null}, NEW b \in Age \cup {Null}
  PROVE  /\ Older(a) \in Int /\ a \in Int
         /\ a <= b => Older(a) <= Older(b)
         /\ a <= Older(a)
         /\ a # Null => Older(a) # Null
BY DegradationAssumption DEF Older, Age, Null, DegradationAssumption

\* What time does to the ages that RecoveryInv compares.
LEMMA AdvanceAges ==
  ASSUME TypeOK, Advance
  PROVE  /\ UNCHANGED current
         /\ \A c \in Capability : unbroken'[c] = Older(unbroken[c])
         /\ \A e \in Episode : episode'[e].recovery_age = Older(episode[e].recovery_age)
         /\ \A p \in Thread : ~Idle(p) => call'[p].age = Older(call[p].age)
<1>1. ASSUME NEW e \in Episode
      PROVE  episode'[e].recovery_age = Older(episode[e].recovery_age)
  <2>1. episode[e] \in EpisodeRow
    BY DEF TypeOK
  <2>2. episode'[e] = [episode[e] EXCEPT !.started_age = Older(@),
                         !.recovery_age = Older(@), !.recovered_age = Older(@)]
    BY DEF Advance
  <2> QED
    BY <2>1, <2>2 DEF EpisodeRow
<1>2. ASSUME NEW p \in Thread, ~Idle(p)
      PROVE  call'[p].age = Older(call[p].age)
  <2>1. call[p] \in Call
    BY DEF TypeOK
  <2>2. call'[p] = [call[p] EXCEPT !.age = Older(@)]
    BY <1>2 DEF Advance
  <2> QED
    BY <2>1, <2>2 DEF Call, NoCall
<1> QED
  BY <1>1, <1>2 DEF Advance

\* A transaction changes no capability; a recovery starts at the age of the
\* call that decided it.
LEMMA CommitAges ==
  ASSUME TypeOK, NEW p \in Thread, Commit(p)
  PROVE  /\ UNCHANGED <<current, unbroken>>
         /\ call[p].op = "recover" =>
              episode'[call[p].ep].recovery_age = call[p].age
<1>1. UNCHANGED <<current, unbroken>>
  BY DEF Commit, StartEpisode, AggregateLoss, EnterDegraded, CancelTransient,
         StartRecovery, ReturnToDegraded, FinishRecovery
<1>2. ASSUME call[p].op = "recover"
      PROVE  episode'[call[p].ep].recovery_age = call[p].age
  <2>1. StartRecovery(p)
    BY <1>2 DEF Commit, StartEpisode, AggregateLoss, EnterDegraded, CancelTransient,
                ReturnToDegraded, FinishRecovery
  <2>2. call[p].ep \in Episode /\ episode[call[p].ep] \in EpisodeRow
    BY <1>2, CallParts DEF TypeOK
  <2>3. episode'[call[p].ep] =
          [episode[call[p].ep] EXCEPT !.state = "RECOVERING", !.recovery_age = call[p].age,
                                      !.recovery_boot = boot, !.timer_boot = boot]
    BY <2>1, <2>2 DEF StartRecovery, TypeOK
  <2> QED
    BY <2>2, <2>3 DEF EpisodeRow
<1> QED
  BY <1>1, <1>2

\* The steps elsewhere register a transition or leave the registry alone.
LEMMA ElsewhereRegistry ==
  ASSUME Elsewhere
  PROVE  \/ UNCHANGED <<current, unbroken, batch>>
         \/ \E c \in Capability, s \in Lifecycle, expected \in BOOLEAN, tk \in TaskRef :
              RegisterTransition(c, s, expected, tk)
BY DEF Elsewhere, Dispatch, Claim, Show, MarkEmitted, SpeakFails, DispatchFails,
       CreateTask, EndTask, vars

\* Registering a transition: a capability that is lost, or that is READY again,
\* is not READY behind the engine's back.
LEMMA RegisterRecovery ==
  ASSUME TypeOK, RecoveryInv, NonOverlap',
         NEW c \in Capability, NEW s \in Lifecycle, NEW expected \in BOOLEAN,
         NEW tk \in TaskRef, RegisterTransition(c, s, expected, tk)
  PROVE  RecoveryInv'
<1> DEFINE t == MakeTransition(c, s, expected, tk)
<1>0. /\ batch \in Seq(Transition) /\ t \in Transition /\ t.cap = c
      /\ current \in [Capability -> Lifecycle]
      /\ unbroken \in [Capability -> Age \cup {Null}]
      /\ \A e \in Episode : episode[e].required \subseteq Capability
      /\ "executor" \in Thread
  <2>1. t \in Transition /\ t.cap = c
    BY MakeTransitionType DEF MakeTransition
  <2>2. \A e \in Episode : episode[e] \in EpisodeRow
    BY DEF TypeOK
  <2> QED
    BY <2>1, <2>2 DEF TypeOK, EpisodeRow, Thread
<1>1. /\ Idle("executor")
      /\ \A i \in 1..Len(batch) : batch[i].cap # c
      /\ current' = [current EXCEPT ![c] = s]
      /\ unbroken' = [unbroken EXCEPT ![c] =
                        IF s # "READY" THEN Null
                        ELSE IF current[c] = "READY" THEN @ ELSE 0]
      /\ batch' = Append(batch, t)
      /\ UNCHANGED <<episode, call>>
  BY DEF RegisterTransition
<1> HIDE DEF t
<1>2. /\ Len(batch) \in Nat /\ Len(batch') = Len(batch) + 1
      /\ \A i \in 1..Len(batch) : batch'[i] = batch[i]
      /\ batch'[Len(batch) + 1] = t /\ batch' # <<>>
  BY <1>0, <1>1, AppendProperties, LenProperties
<1>3. \A p \in Thread : call'[p].op = "none"
  BY <1>1, <1>2 DEF NonOverlap, Idle, Thread
<1>4. ReadyAged'
  BY <1>0, <1>1 DEF RecoveryInv, ReadyAged, Null
<1>5. RecoveringInv'
  <2> SUFFICES ASSUME NEW e \in Episode, episode[e].state = "RECOVERING",
                      NEW d \in episode[e].required
               PROVE  IF current'[d] = "READY" THEN unbroken'[d] >= episode[e].recovery_age
                      ELSE Reported(d)'
    BY <1>1 DEF RecoveringInv
  <2>1. /\ d \in Capability
        /\ IF current[d] = "READY" THEN unbroken[d] >= episode[e].recovery_age
           ELSE \E i \in 1..Len(batch) : batch[i].cap = d
    BY <1>0, <1>1 DEF RecoveryInv, RecoveringInv, Reported, Idle
  <2>2. (\E i \in 1..Len(batch) : batch[i].cap = d) => Reported(d)'
    BY <1>2 DEF Reported
  <2>3. CASE d # c
    BY <1>0, <1>1, <2>1, <2>2, <2>3
  <2>4. CASE d = c
    <3>1. current[c] = "READY"
      BY <1>1, <2>1, <2>4
    <3>2. CASE s = "READY"
      BY <1>0, <1>1, <2>1, <2>4, <3>1, <3>2
    <3>3. CASE s # "READY"
      <4>1. Reported(d)'
        BY <1>0, <1>2, <2>4 DEF Reported
      <4> QED
        BY <1>0, <1>1, <2>4, <3>3, <4>1
    <3> QED BY <3>2, <3>3
  <2> QED BY <2>3, <2>4
<1> QED
  BY <1>3, <1>4, <1>5 DEF RecoveryInv, Checked, Ending

\* Deciding on a transition: whatever was not READY is now being dealt with.
LEMMA ApplyRecovery ==
  ASSUME TypeOK, SerialInv, RecoveryInv, ApplyTransition
  PROVE  RecoveryInv'
<1> DEFINE k == call'["executor"]
<1>0. /\ UNCHANGED <<current, unbroken, episode>>
      /\ Idle("executor") /\ batch # <<>>
      /\ call'["maintenance"] = call["maintenance"]
      /\ AtMostOneActive /\ NonOverlap
      /\ unbroken \in [Capability -> Age \cup {Null}]
      /\ \A e \in Episode : episode[e].required \subseteq Capability
  <2>1. \A e \in Episode : episode[e] \in EpisodeRow
    BY DEF TypeOK
  <2> QED
    BY <2>1, ApplyCases, ApplyDecides DEF SerialInv, TypeOK, EpisodeRow
<1>1. call'["maintenance"].op = "none"
  BY <1>0 DEF NonOverlap, Idle
<1>2. ReadyAged'
  BY <1>0 DEF RecoveryInv, ReadyAged
<1>3. ASSUME NEW e \in Episode, Active = {e}, AllRequiredRestored(episode[e]) = FALSE,
             episode[e].state = "RECOVERING"
      PROVE  k.op \in {"aggregate", "return"}
  <2>1. ASSUME NEW f \in Episode, IsActiveRow(f),
               k = Decided(ReconcileOp(episode[f]), f, 0, NoRow, {})
        PROVE  k.op = "return"
    <3>1. f = e
      BY <1>3, <2>1 DEF IsActiveRow
    <3>2. ReconcileOp(episode[e]) = "return"
      BY <1>3 DEF ReconcileOp
    <3> QED
      BY <2>1, <3>1, <3>2, DecidedEpisode
  <2> QED
    BY <1>3, <2>1, ApplyCases
<1>4. RecoveringInv'
  <2> SUFFICES ASSUME NEW e \in Episode, episode[e].state = "RECOVERING",
                      NEW c \in episode[e].required
               PROVE  IF current[c] = "READY" THEN unbroken[c] >= episode[e].recovery_age
                      ELSE Reported(c)'
    BY <1>0 DEF RecoveringInv
  <2>1. CASE current[c] = "READY"
    BY <2>1 DEF RecoveryInv, RecoveringInv
  <2>2. CASE current[c] # "READY"
    <3>1. Active = {e}
      BY <1>0 DEF AtMostOneActive, Active
    <3>2. AllRequiredRestored(episode[e]) = FALSE
      BY <2>2 DEF AllRequiredRestored
    <3> QED
      BY <1>3, <2>2, <3>1, <3>2 DEF Reported
  <2> QED BY <2>1, <2>2
<1>5. Checked(call["executor"])' /\ Ending(call["executor"])'
  <2>1. ASSUME NEW e \in Episode, k = Decided(ReconcileOp(episode[e]), e, 0, NoRow, {})
        PROVE  Checked(call["executor"])' /\ Ending(call["executor"])'
    <3>1. CASE k.op = "none"
      BY <3>1 DEF Checked, Ending
    <3>2. CASE k.op # "none"
      <4>1. k.op = ReconcileOp(episode[e]) /\ k.ep = e /\ k.age = 0
        BY <2>1, <3>2 DEF Decided, NoCall
      <4>2. k.op \in {"cancel", "recover", "return"}
        BY <3>2, <4>1, ReconcileOps
      <4>3. /\ k.op \in {"cancel", "recover"} => AllRequiredRestored(episode[e])
            /\ k.op = "cancel" => episode[e].state = "DEGRADING"
        BY <4>1 DEF ReconcileOp
      <4>4. ASSUME NEW c \in episode[e].required, current[c] = "READY"
            PROVE  unbroken[c] >= 0
        BY <1>0, <4>4, DegradationAssumption
           DEF RecoveryInv, ReadyAged, Age, Null, DegradationAssumption
      <4>5. Checked(call["executor"])'
        BY <4>2 DEF Checked
      <4>6. k.op = "cancel" => episode'[k.ep].state = "DEGRADING"
        BY <1>0, <4>1, <4>3
      <4>7. k.op \in {"cancel", "recover"} =>
              \A c \in episode'[k.ep].required :
                current'[c] = "READY" /\ unbroken'[c] >= k.age
        BY <1>0, <4>1, <4>3, <4>4 DEF AllRequiredRestored
      <4> QED
        BY <4>2, <4>5, <4>6, <4>7 DEF Ending
    <3> QED BY <3>1, <3>2
  <2>2. CASE k.op \in {"none", "start", "aggregate"}
    BY <2>2 DEF Checked, Ending
  <2> QED
    BY <2>1, <2>2, ApplyCases
<1> QED
  BY <1>1, <1>2, <1>4, <1>5 DEF RecoveryInv, Checked, Ending, Thread

\* The two halves of a tick: nothing changes between them but the ages.
LEMMA TickRecovery ==
  ASSUME TypeOK, SerialInv, RecoveryInv, NonOverlap', TickRead \/ TickCheck
  PROVE  RecoveryInv'
<1> DEFINE k == call["maintenance"]  d == call'["maintenance"]
<1>0. /\ UNCHANGED <<current, unbroken, episode, batch>>
      /\ call'["executor"] = call["executor"]
      /\ "executor" \in Thread /\ "maintenance" \in Thread
      /\ NonOverlap /\ unbroken \in [Capability -> Age \cup {Null}]
      /\ \A e \in Episode : episode[e] \in EpisodeRow
  BY TickCases, TickDecides DEF SerialInv, TypeOK, Thread
<1>1. ReadyAged' /\ RecoveringInv'
  BY <1>0 DEF RecoveryInv, ReadyAged, RecoveringInv, Reported
<1>2. Checked(call["executor"])' /\ Ending(call["executor"])'
  BY <1>0 DEF RecoveryInv, Checked, Ending
<1>3. ASSUME NEW e \in Episode, TickDue(episode[e]),
             d = Decided("check", e, 0, CheckedRow(episode[e]), {})
      PROVE  Checked(call["maintenance"])' /\ Ending(call["maintenance"])'
  <2>1. /\ d.op = "check" /\ d.ep = e /\ d.row = CheckedRow(episode[e])
    BY <1>3, DecidedParts
  <2>2. /\ d.row.state = episode[e].state
        /\ d.row.required = episode[e].required
        /\ d.row.recovery_age = episode[e].recovery_age
    BY <1>0, <2>1, NoRowType DEF CheckedRow, EpisodeRow
  <2>3. episode[e].recovery_age \in Int
    BY <1>0 DEF EpisodeRow, Age, Null
  <2>4. episode[e].state \in {"DEGRADING", "RECOVERING"}
    BY <1>3 DEF TickDue
  <2> QED
    BY <1>0, <2>1, <2>2, <2>3, <2>4 DEF Checked, Ending
<1>4. ASSUME k.op = "check", d = Decided(TickOp(k.row), k.ep, k.age, NoRow, {})
      PROVE  Checked(call["maintenance"])' /\ Ending(call["maintenance"])'
  <2>1. CASE d.op = "none"
    BY <2>1 DEF Checked, Ending
  <2>2. CASE d.op # "none"
    <3>1. d.op = TickOp(k.row) /\ d.ep = k.ep
      BY <1>4, <2>2 DEF Decided, NoCall
    <3>2. d.op \in {"cancel", "enter", "return", "finish"}
      BY <2>2, <3>1, TickOps
    <3>3. /\ k.ep \in Episode
          /\ k.row.state \in {"DEGRADING", "RECOVERING"}
          /\ k.row.state = episode[k.ep].state
          /\ k.row.required = episode[k.ep].required
          /\ k.row.recovery_age <= episode[k.ep].recovery_age
          /\ k.row.recovery_age \in Int /\ episode[k.ep].recovery_age \in Int
      <4>1. k.ep \in Episode /\ k.row \in EpisodeRow
        BY <1>0, <1>4, CallParts
      <4>2. \A row \in EpisodeRow : row.recovery_age \in Int
        BY DEF EpisodeRow, Age, Null
      <4> QED
        BY <1>0, <1>4, <4>1, <4>2 DEF RecoveryInv, Checked
    <3>4. CASE d.op = "cancel"
      <4>1. k.row.state = "DEGRADING" /\ AllRequiredRestored(k.row)
        BY <3>1, <3>4 DEF TickOp
      <4> QED
        BY <1>0, <3>1, <3>3, <3>4, <4>1 DEF AllRequiredRestored, Checked, Ending
    <3>5. CASE d.op = "finish"
      <4>1. /\ k.row.state # "DEGRADING" /\ AllRequiredRestored(k.row)
            /\ k.row.recovery_age >= RecoveryStability
        BY <3>1, <3>5 DEF TickOp
      <4>2. ASSUME NEW c \in episode[k.ep].required
            PROVE  current[c] = "READY" /\ unbroken[c] >= RecoveryStability
        <5>1. current[c] = "READY"
          BY <3>3, <4>1 DEF AllRequiredRestored
        <5>2. unbroken[c] >= episode[k.ep].recovery_age
          BY <3>3, <4>1, <5>1 DEF RecoveryInv, RecoveringInv
        <5>3. c \in Capability
          BY <1>0, <3>3 DEF EpisodeRow
        <5>4. unbroken[c] \in Int /\ RecoveryStability \in Int
          BY <1>0, <5>3, DegradationAssumption DEF Age, Null, DegradationAssumption
        <5> QED
          BY <3>3, <4>1, <5>1, <5>2, <5>4
      <4> QED
        BY <1>0, <3>1, <3>5, <4>2 DEF Checked, Ending
    <3>6. CASE d.op \in {"enter", "return"}
      BY <3>6 DEF Checked, Ending
    <3> QED
      BY <3>2, <3>4, <3>5, <3>6
  <2> QED BY <2>1, <2>2
<1>5. Checked(call["maintenance"])' /\ Ending(call["maintenance"])'
  BY <1>3, <1>4, TickCases
<1> QED
  BY <1>0, <1>1, <1>2, <1>5 DEF RecoveryInv, Checked, Ending, Thread

\* The passing of time.
LEMMA AdvanceRecovery ==
  ASSUME TypeOK, RecoveryInv, Advance
  PROVE  RecoveryInv'
<1>0. /\ unbroken \in [Capability -> Age \cup {Null}]
      /\ \A e \in Episode : /\ episode[e].recovery_age \in Age \cup {Null}
                            /\ episode[e].required \subseteq Capability
      /\ UNCHANGED <<current, batch>>
      /\ "executor" \in Thread
  <2>1. \A e \in Episode : episode[e] \in EpisodeRow
    BY DEF TypeOK
  <2> QED
    BY <2>1, AdvanceKeeps, AdvanceAges DEF TypeOK, EpisodeRow, Thread
<1>1. ReadyAged'
  BY <1>0, AdvanceAges, OlderOrder DEF RecoveryInv, ReadyAged
<1>2. RecoveringInv'
  <2> SUFFICES ASSUME NEW e \in Episode, episode[e].state = "RECOVERING",
                      NEW c \in episode[e].required
               PROVE  IF current[c] = "READY" THEN unbroken'[c] >= episode'[e].recovery_age
                      ELSE Reported(c)'
    BY <1>0, AdvanceKeeps DEF RecoveringInv
  <2>1. CASE current[c] = "READY"
    <3>1. unbroken[c] >= episode[e].recovery_age
      BY <2>1 DEF RecoveryInv, RecoveringInv
    <3>2. /\ unbroken'[c] = Older(unbroken[c])
          /\ episode'[e].recovery_age = Older(episode[e].recovery_age)
      BY <1>0, AdvanceAges
    <3>3. /\ unbroken[c] \in Age \cup {Null}
          /\ episode[e].recovery_age \in Age \cup {Null}
      BY <1>0
    <3>4. Older(episode[e].recovery_age) <= Older(unbroken[c])
      BY <3>1, <3>3, OlderOrder
    <3>5. Older(episode[e].recovery_age) \in Int /\ Older(unbroken[c]) \in Int
      BY <3>3, OlderOrder
    <3> QED
      BY <2>1, <3>2, <3>4, <3>5
  <2>2. CASE current[c] # "READY"
    <3>1. Reported(c)
      BY <2>2 DEF RecoveryInv, RecoveringInv
    <3> QED
      BY <1>0, <2>2, <3>1, AdvanceKeeps DEF Reported
  <2> QED BY <2>1, <2>2
<1>3. ASSUME NEW p \in Thread PROVE Checked(call[p])'
  <2> SUFFICES ASSUME call[p].op = "check" PROVE Checked(call[p])'
    BY AdvanceKeeps DEF Checked
  <2>1. call[p].ep \in Episode /\ call[p].row \in EpisodeRow
    BY CallParts
  <2>2. call[p].row.recovery_age \in Int
    BY <2>1 DEF EpisodeRow, Age, Null
  <2>3. call[p].row.recovery_age <= episode[call[p].ep].recovery_age
    BY DEF RecoveryInv, Checked
  <2>4. /\ episode'[call[p].ep].recovery_age = Older(episode[call[p].ep].recovery_age)
        /\ episode[call[p].ep].recovery_age <= Older(episode[call[p].ep].recovery_age)
        /\ Older(episode[call[p].ep].recovery_age) \in Int
        /\ episode[call[p].ep].recovery_age \in Int
    BY <1>0, <2>1, AdvanceAges, OlderOrder
  <2>5. call[p].row.recovery_age <= episode'[call[p].ep].recovery_age
    BY <2>2, <2>3, <2>4
  <2> QED
    BY <2>1, <2>5, AdvanceKeeps DEF RecoveryInv, Checked
<1>4. ASSUME NEW p \in Thread PROVE Ending(call[p])'
  <2> SUFFICES ASSUME call[p].op \in {"cancel", "finish", "recover"} PROVE Ending(call[p])'
    BY AdvanceKeeps DEF Ending
  <2>1. call[p].ep \in Episode /\ call[p].age \in Age /\ ~Idle(p)
    BY CallParts DEF Idle
  <2>2. ASSUME NEW c \in episode[call[p].ep].required
        PROVE  /\ current'[c] = "READY"
               /\ call[p].op = "finish" => unbroken'[c] >= RecoveryStability
               /\ call[p].op = "recover" => unbroken'[c] >= call'[p].age
    <3>1. /\ current[c] = "READY"
          /\ call[p].op = "finish" => unbroken[c] >= RecoveryStability
          /\ call[p].op = "recover" => unbroken[c] >= call[p].age
      BY DEF RecoveryInv, Ending
    <3>2. /\ unbroken[c] \in Age \cup {Null} /\ unbroken'[c] = Older(unbroken[c])
          /\ call'[p].age = Older(call[p].age)
      BY <1>0, <2>1, AdvanceAges
    <3>3. RecoveryStability \in Int
      BY DegradationAssumption DEF DegradationAssumption
    <3>4. unbroken[c] \in Int /\ Older(unbroken[c]) \in Int /\ unbroken[c] <= Older(unbroken[c])
      BY <3>2, OlderOrder
    <3>5. call[p].op = "finish" => unbroken'[c] >= RecoveryStability
      BY <3>1, <3>2, <3>3, <3>4
    <3>6. /\ call[p].age \in Age \cup {Null}
          /\ call[p].age \in Int /\ Older(call[p].age) \in Int
      BY <2>1, OlderOrder
    <3>7. call[p].age <= unbroken[c] => Older(call[p].age) <= Older(unbroken[c])
      BY <3>2, <3>6, OlderOrder
    <3>8. call[p].op = "recover" => unbroken'[c] >= call'[p].age
      BY <3>1, <3>2, <3>4, <3>6, <3>7
    <3> QED
      BY <1>0, <3>1, <3>5, <3>8
  <2>3. call[p].op = "cancel" => episode[call[p].ep].state = "DEGRADING"
    BY DEF RecoveryInv, Ending
  <2> QED
    BY <2>1, <2>2, <2>3, AdvanceKeeps DEF Ending
<1> QED
  BY <1>1, <1>2, <1>3, <1>4 DEF RecoveryInv

\* A transaction: a recovery that starts is as old as its decision, and every
\* other one leaves RECOVERING.
LEMMA CommitRecovery ==
  ASSUME TypeOK, SerialInv, TimerInv, RecoveryInv, NEW p \in Thread, Commit(p)
  PROVE  RecoveryInv'
<1> DEFINE k == call[p]
<1>0. /\ k.op \in Op \ {"check"} /\ k.ep \in Episode
      /\ \A e \in Episode \ {k.ep} : episode'[e] = episode[e]
      /\ UNCHANGED <<current, unbroken>>
      /\ Active \subseteq {k.ep}
  BY CommitKeeps, CommitAges DEF SerialInv, Idle, Op
<1>1. \A q \in Thread : Checked(call[q])' /\ Ending(call[q])'
  BY LoneCall DEF SerialInv, Checked, Ending
<1>2. ReadyAged'
  BY <1>0 DEF RecoveryInv, ReadyAged
<1>3. RecoveringInv'
  <2> SUFFICES ASSUME NEW e \in Episode, episode'[e].state = "RECOVERING",
                      NEW c \in episode'[e].required
               PROVE  current[c] = "READY" /\ unbroken[c] >= episode'[e].recovery_age
    BY <1>0 DEF RecoveringInv
  <2>1. e = k.ep
    BY <1>0 DEF Active
  <2>2. k.op = "recover"
    <3>1. CASE k.op \in {"start", "aggregate"}
      <4>1. k.row.state \in {"DEGRADING", "DEGRADED"}
        BY <3>1 DEF TimerInv, Thread
      <4> QED
        BY <2>1, <3>1, <4>1, CommitWrites
    <3>2. CASE k.op \in {"enter", "return", "cancel", "finish"}
      BY <2>1, <3>2, CommitWrites
    <3> QED
      BY <1>0, <3>1, <3>2 DEF Op
  <2>3. /\ episode'[e].required = episode[e].required
        /\ episode'[e].recovery_age = k.age
    BY <2>1, <2>2, CommitWrites, CommitAges
  <2> QED
    BY <2>1, <2>2, <2>3 DEF RecoveryInv, Ending
<1> QED
  BY <1>1, <1>2, <1>3 DEF RecoveryInv

\* Every step of a serial behaviour of one process without exceptions keeps
\* RecoveryInv.
LEMMA NextRecovery ==
  ASSUME MaxFailures = 0, MaxBoots = 1,
         TypeOK, TimerInv, SerialInv, RecoveryInv, [SerialNext]_vars
  PROVE  RecoveryInv'
<1>1. CASE UNCHANGED vars
  BY <1>1 DEF vars, RecoveryInv, ReadyAged, RecoveringInv, Reported, Checked, Ending
<1>2. CASE SerialNext
  <2>0. [Next]_vars /\ NonOverlap'
    BY <1>2 DEF SerialNext
  <2>1. CASE Elsewhere
    <3>1. CASE UNCHANGED <<current, unbroken, batch>>
      BY <2>1, <3>1, ElsewhereKeeps
         DEF RecoveryInv, ReadyAged, RecoveringInv, Reported, Checked, Ending
    <3> QED
      BY <2>0, <2>1, <3>1, ElsewhereRegistry, RegisterRecovery
  <2>2. \A q \in Thread : ~CallFails(q)
    BY DEF CallFails, TypeOK
  <2>3. ~(Restart \/ Crash)
    BY DEF Restart, Crash, NewBoot, TypeOK
  <2> QED
    BY <2>0, <2>1, <2>2, <2>3, NextKinds, ApplyRecovery, TickRecovery,
       AdvanceRecovery, CommitRecovery
<1> QED
  BY <1>1, <1>2

\* What a step that ends an episode knows of it.
LEMMA EndIsReal ==
  ASSUME TypeOK, ProfileInv, TimerInv, SerialInv, RecoveryInv, [Next]_vars,
         NEW e \in Active, episode'[e].state = "NOMINAL",
         NEW c \in episode[e].lost \cup episode[e].required
  PROVE  /\ current[c] = "READY"
         /\ episode[e].state = "RECOVERING" => unbroken[c] >= RecoveryStability
<1>0. /\ e \in Episode /\ episode[e].state # "NOMINAL"
      /\ c \in episode[e].required
  BY DEF Active, ProfileInv, LostWithinRequired
<1>1. PICK p \in Thread : Commit(p)
  <2>1. \/ episode' = episode
        \/ \A f \in Episode : episode'[f].state = episode[f].state
        \/ \E p \in Thread : Commit(p)
    BY NextKinds, ElsewhereKeeps, ApplyDecides, TickDecides, AdvanceKeeps, FailKeeps,
       NewBootKeeps
  <2> QED
    BY <1>0, <2>1
<1>2. call[p].ep = e /\ call[p].op \in Op
  BY <1>0, <1>1, CommitKeeps
<1>3. call[p].op \in {"cancel", "finish"}
  <2>1. CASE call[p].op \in {"start", "aggregate"}
    <3>1. call[p].row.state \in {"DEGRADING", "DEGRADED"}
      BY <2>1 DEF TimerInv, Thread
    <3> QED
      BY <1>1, <1>2, <2>1, <3>1, CommitWrites
  <2>2. CASE call[p].op \in {"enter", "return", "recover"}
    BY <1>1, <1>2, <2>2, CommitWrites
  <2> QED
    BY <1>1, <1>2, <2>1, <2>2, CommitKeeps DEF Op
<1> QED
  BY <1>0, <1>2, <1>3 DEF RecoveryInv, Ending

\* In one process, as long as no call raises and ticks do not overlap executor
\* jobs, an episode ends only when all it lost and all it requires is READY,
\* and a recovery only after the stability interval without a break.
THEOREM RecoveriesAreReal ==
  ASSUME MaxFailures = 0, MaxBoots = 1
  PROVE  SerialSpec => RecoveryIsReal
<1> DEFINE IInv == TypeOK /\ ProfileInv /\ TimerInv /\ SerialInv /\ RecoveryInv
           Real == \A e \in Episode :
                     e \in Active /\ episode'[e].state = "NOMINAL" =>
                       \A c \in episode[e].lost \cup episode[e].required :
                         /\ current[c] = "READY"
                         /\ episode[e].state = "RECOVERING" =>
                              unbroken[c] >= RecoveryStability
<1>1. Init => IInv
  BY InitType, InitProfile, InitTimer, InitSerial, InitRecovery
<1>2. IInv /\ [SerialNext]_vars => IInv'
  BY NextType, NextProfile, NextTimer, NextSerial, NextRecovery DEF SerialNext
<1>3. IInv /\ [SerialNext]_vars => [Real]_vars
  <2>1. [SerialNext]_vars => [Next]_vars
    BY DEF SerialNext
  <2> QED
    BY <2>1, EndIsReal
<1> HIDE DEF IInv
<1>4. RecoveryIsReal <=> [][Real]_vars
  BY DEF RecoveryIsReal
<1> QED
  BY <1>1, <1>2, <1>3, <1>4, PTL DEF SerialSpec
=============================================================================

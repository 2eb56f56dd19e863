# HAL 9000: a TLA+ model of the machine self and the conversation

This directory is a formal model of the Bollywood HAL9000 desktop assistant
(`src/src/hal9000`), with TLC configurations that check it on small instances and
TLAPS proofs of its central safety properties for every instance. Paths below are
relative to `src/src/hal9000/`.

## 1. The system

HAL is one desktop process. A Qt application (`app.py`, QML) shows the eye; a
controller (`controller.py`) runs conversations: wake word or click, recording, speech
to text, a prompt to the *Hermes* agent process over a websocket, streamed text, speech
out. Beside the conversation runs the *machine self* (`sentience/`): a durable,
SQLite-backed account of what HAL is, what it can do at the moment, what it has
promised, and what happened. The machine self decides whether HAL may claim or do
something, so its state has to be right across threads, crashes and restarts.

### Components, state and operations

| Component | State it keeps | Operations | Threads |
|---|---|---|---|
| degradation engine (`sentience/degradation/engine.py`) | `degradation_episodes` (state, severity, lost and required capabilities, tasks, timers) | `on_transition`, `tick`, `status` | executor, maintenance |
| capability registry (`sentience/capabilities/registry.py`) | `capability_current`, `tasks`, requirements | `transition`, `create_task`, `set_task_requirement` | executor |
| phrase outbox (`sentience/degradation/outbox.py`) | `outbox` rows: pending, claimed, emitted | `dispatch_one` (claim, display, speak, mark) | Qt |
| event bus (`sentience/event_bus.py`) | telemetry queue, drop counters, fingerprints of high-severity events | `publish_observation`, `publish_exact`, `flush`, `close` | executor, telemetry worker, caller |
| event run coalescer (`sentience/events/coalescer.py`) | open runs (an LRU), `event_runs` | `add`, `flush`, `close` | telemetry worker, caller |
| exact event writer (`sentience/storage/writer.py`) | reserved queue, `exact_events` | `submit`, `flush`, `close` | any, writer |
| canonical lease (`sentience/identity/lease.py`) | `instance_leases` row | `acquire`, `renew`, `release` | starter, maintenance |
| boot continuity (`sentience/identity/continuity.py`) | `boot_sessions`, open tasks and actions | `start_boot`, `finish_boot` | starter |
| machine self service (`sentience/service.py`) | threads, readiness | `start`, `stop`, maintenance loop | all |
| action, approval and task ledgers (`sentience/capabilities/actions.py`, `tasks.py`) | consequential actions and tasks | start, approve, finish, verify | executor |
| Hermes event mapper (`sentience/hermes/event_mapper.py`) | counters, open actions and tasks | one handler per gateway event | executor |
| conversation controller and state machine (`controller.py`, `state.py`) | assistant state, turn, timers | activation, transcript, stream, speech, cancel | Qt |
| Hermes client and service (`hermes/client.py`, `service.py`) | pending requests, session, preference workflow, restart budget | connect, request, events, retries | Qt, websocket worker |
| speech and audio (`speech/`, `audio/`) | TTS queue and fallback, audio streams | speak, cancel, suspend | Qt, workers |
| blob store, retention, backups (`storage/blob_store.py`, `retention.py`, `database.py`), `hal-self` (`cli.py`) | evidence files and their rows, backups of the database | put, get, reconcile; plan and evict; backup, restore, integrity, retention | maintenance, executor, a second process |
| sketches (`sketches/`) | counters by metric and time bucket, exact or estimated | update, seal, roll up, expire | executor, maintenance |
| memory (`memory/`, `hermes/self_mcp_server.py`) | episodes, consolidation jobs with watermarks, facts, corrections, commitments, pins | consolidation pass, `propose_fact`, `correct_fact`, `record_commitment`, `pin` | maintenance, MCP server process |
| retrieval (`retrieval/`) | none | ranked search under a token budget, memory of a prompt, context capsule | executor |

### How they interact

* The executor worker of `MachineSelfService` is one thread: it handles gateway events
  (the mapper), registers capability transitions and calls the degradation engine for
  each. A handler may register several transitions first and apply them afterwards
  (`event_mapper._apply_degradation`).
* The maintenance thread renews the lease and calls `tick` once a second.
* The Qt thread polls the outbox and shows or speaks its phrases.
* All of them share one SQLite database. Transactions are serialised, but almost every
  operation *reads* on one connection, decides, and *writes* in a later transaction,
  without a lock around the two.
* Observations go through a bounded queue to the coalescer; exact events go through a
  reserved queue to the writer, and the publisher waits for their futures.
* Restart: a new process takes the lease, supersedes the boot sessions it finds open and
  makes their unfinished work uncertain.

### What is hard

1. *Read, decide, commit.* `tick` and `on_transition` overlap; each `UPDATE` is guarded
   by the episode id alone.
2. *Timers across boots.* Elapsed times use monotonic readings that are valid in one
   boot only; one column says for all of them which boot that is.
3. *Phrases exactly once.* Display, speech and record are three steps, each of which may
   raise or be the last of the process.
4. *Shutdown order.* Three queues and three threads feed each other.
5. *Bounded queues and caches at their limit*, whose overflow paths lose, drop or divert.
6. *The lease is a wall-clock promise*: a suspended process does not know it lost it.
7. *One turn, five threads.* Synthesis, playback, recording and transcription report to
   the Qt thread by queued signals that may belong to a turn that is over.
8. *Requests that outlive their reason.* Answers arrive after a timeout, a dropped socket,
   a newer preference or a newer session; a failed request is rejected in a loop whose
   handlers issue requests.
9. *One handler, several transactions.* A frame about a tool writes an event, an action, an
   evidence blob and an item to revalidate, each committed by itself, and may arrive twice.
10. *Files and rows.* Evidence and backups are changed in two places by two processes, only
    one of which asks for the lease, and only when it restores.

`PROJECT.json` lists these and the rest under "hazards", each at its line.

## 2. Modules

| Module | Models | Proofs |
|---|---|---|
| `Degradation` | engine, registry transitions, outbox and its dispatcher, restarts | `DegradationProofs` |
| `EventBus` | bus, coalescer, writer, flush and close | `EventBusProofs` |
| `Continuity` | lease, boot sessions, start and stop of the service | `StorageProofs` |
| `Conversation` | the controller's turn, the HAL state machine, TTS, playback, microphone | `ConversationProofs` |
| `Hermes` | the socket worker, pending requests, sessions, preferences, the queued prompt, MCP registration | `HermesProofs` |
| `LedgerPromise` | abstract: how rows of tasks, actions and approvals may change | |
| `Ledger` | the event mapper and the ledgers, frame by frame; implements `LedgerPromise` | `LedgerProofs` |
| `Storage` | blob store, backups and restore, eviction, HAL and `hal-self` on one directory | `StorageProofs` |
| `Sketches` | the buckets of one metric: update, promotion, sealing, roll-up, expiry | `SketchesProofs` |
| `Memory` | consolidation into episodes, facts, corrections, commitments and pins over MCP | `MemoryProofs` |
| `Retrieval` | operators: search under a token budget, memory object of a prompt | `MemoryProofs` |
| `MC*` | constants and bounded inputs of the TLC instances | |

Modules share no variables. Where one component drives another, the driver's effect is an
input of the driven one: transitions of capabilities (from the mapper and the observers)
enter `Degradation`, gateway answers enter `Conversation`, frames enter `Ledger`, exact
events enter `Memory`. Two compositions are made: `MCLedger` checks `Ledger` against
`LedgerPromise` through the `INSTANCE` in `Ledger`, and `MCMemory` puts `Memory` beside `Retrieval`.

Definitions named `...Again`, `...Without...`, `...Always` and the like, commented
"Mutant", are deliberately wrong versions of an action. Nothing uses them; putting one in
the place of the action it precedes must make TLC report the property it is written for,
which shows that the property is about the code and not about the shape of the model.

### Degradation

State: the row of every episode (`episode`), the lifecycle state of every capability
(`current`), the tasks, the outbox, the transitions an executor job has registered and
not yet applied (`batch`), and for each of the two threads the call it has decided and
not yet committed (`call`). Operations:

* `RegisterTransition` is `CapabilityRegistry.transition`, with its impact
  classification. `ApplyReconcile`, `ApplyStart` and `ApplyAggregate` are the reading
  half of `on_transition`; `TickRead` and `TickCheck` are the two reads of `tick` (the
  row, then the capabilities). Each leaves a decision.
* `StartEpisode`, `AggregateLoss`, `EnterDegraded`, `CancelTransient`, `StartRecovery`,
  `ReturnToDegraded` and `FinishRecovery` are the transactions. Each writes the columns
  the code's `UPDATE` writes, from the values read earlier.
* `Claim`, `Show`, `MarkEmitted`, `SpeakFails` and `DispatchFails` are `dispatch_one`.
* `Restart` and `Crash` start the next boot; `CallFails` is an exception that the
  maintenance loop or the executor swallows.

A timestamp is its age, saturating at `MaxAge`: the code only compares elapsed times with
intervals. A monotonic reading also keeps the boot it was taken in. The executor's own
reads before a decision are one step; nothing else writes what they read except the
transactions of `tick`, and the decision is separate from the commit. Requirements of
tasks are constants.

`SerialSpec` is the same system with a lock around each tick and each executor job. The
code has no such lock; the properties that need one are checked under `SerialSpec`, and
what the missing lock costs is described under the limits below.

### EventBus

Four threads: publisher (the executor), telemetry worker, writer, and the caller of
`flush` or `close`. Runs are objects, so that an evicted run may still be held by a
flush. `CommitRun` and `ResetRun` are separate, as in `_flush_one`; the increment of a
pending count is atomic (one bytecode window under the interpreter lock is not modelled).
The drop groups are one sum. Sampling and the disk budget are a free choice of the
environment (`PublishRefused`), and the number of publications is bounded
(`MaxPublish`). A run object is one of `2 * MaxOpenRuns`: beside the open ones, a flush holds
at most as many that were evicted. After a call of `flush` or `close` has raised, that
caller does nothing more.

### Continuity

Each incarnation of the process is a member of `Process` that starts once. `start_boot`
is two steps, its read (`ReadOpenBoots`) and its transaction (`StartBoot`). Reading the
clock and the row in `acquire` and `renew` is one step: they are in one immediate
transaction. `lapsed` is a history variable that becomes true when the clock reaches the
expiry of a lease whose owner is alive.

### Conversation

Every handler of the controller is one action: it runs on the Qt thread and nothing
interrupts it. `turn` holds the controller's fields (`_voice_conversation`,
`_capture_origin`, `_speech_turn_finished`, `_speech_suppressed`,
`_assistant_complete_received`, `_speech_pending`, the number of guarded chunks, whether
the answer has a row). `hal` and `manual` are the state machine, with its transition table;
a transition that the table refuses changes nothing, as in `_transition`. The TTS executor
(`Synthesize`, `SynthesisDone`) and the playback thread (`PlayBuffer`) leave signals that
`SynthesisReady`, `TtsError` and `PlaybackFinished` handle at any later time. A speech
generation is only compared with the current one, so a piece of speech carries one bit,
which `cancelPending` clears. `playback.stop` joins its thread; the 1.5 s limit of that
join is assumed to suffice. The wake word reaches the controller in the step in which it is
heard; a recorded utterance may be handled late. The microphone works throughout. The
Hermes gateway is external: it owes answers to prompts, streams one at a time, and an
interrupted answer ends at once, later, or as if nothing had happened.

### Hermes

`hal` is the record of all that the Qt thread keeps: the connection phase, the pending
requests with their kinds, the session, the preference workflow and its generation, the
queued prompt, the stage of the MCP registration. A method of the code is an operator on
that record, and a handler composes them in the order of the calls, so one handler is one
step (`RejectAll` runs the error handlers of the pending requests one after the other, on
the state each of them leaves).
The worker thread (`sock`) dials, pumps and stops; what it posts to the Qt queue waits in
`signals`, and a worker that outlasts the join of `stop` (`late`) posts behind its successor. The gateway answers in
any order, refuses, loses answers, and may be slower than a request's timer. A preference
request carries one bit, whether it is of the current generation. The code counts its
request ids up; the model takes the least one that nothing mentions any more, which keeps a
run finite and is the same to every comparison the code makes. The owned Hermes process is not part of the
module: the gateway is the remote one.

### Ledger and LedgerPromise

`LedgerPromise` has three variables, a row per task, per consequential action and per
approval request, and says which changes of a row are allowed: the first reported outcome
of an action stands; a task completes only when all its actions are settled; no action
begins under a closed task; the first decision on an approval stands; a boot after a crash
puts everything that was under way in doubt, at once. It has no frames, keys or executor.

`Ledger` is the mapper. A job of the executor (`cur`, at step `pc`) is a sequence of
transactions and each is an action: append the event under its idempotency key (`log`),
change the ledger row, store the item for revalidation, end the task. Frames wait in
`queue`, are delivered twice or late, and `CrashRestart`, `CleanRestart`, the begin and the
end of a degradation episode happen between any two steps. `Promise` instantiates the
abstract module `WITH` the three variables of the same names; every other variable is hidden.

### Storage

`db` is what the live database holds (rows, marks, references) and whether its file is
whole; `files` and `temps` are the blob directory; `backup` is the list of recovery points
by age with their state. `job` is a put of HAL in progress, `reading` a get, `tool` the
command of `hal-self` in progress (`sweep`, `list` and `mark` of the integrity check,
`copying`, `replacing`, `reopening` and `rolling` of a restore), `plan` the eviction list of
each process. HAL and the tool crash at each step; the lease outlives a crashed HAL until
`LeaseLapses`. `before`, `exposed`, `slipped` and `undone` are history variables: what a
restore replaced, blobs whose file the sweep or the disk took while someone relied on it, a
HAL that was started during a restore, backups begun and never finished.

### Sketches

One metric of one kind, widths `1`, `Warm` and `Cold`. A sketch is the set of the items it
took in, with the bit that says whether it is exact; promotion, merge and the cap of a
process without the sketch library are on those sets. `Observe`, `Load` and `Store` are the
three parts of an update; the maintenance pass seals, merges into parents, marks the
children and expires, one step per transaction. `seen` and `late` are history variables:
what was observed, and what reached a bucket its roll-up had already read.

### Memory and Retrieval

`log` is the append-only list of exact events; `pass` is the maintenance thread inside a
consolidation pass, with the page of ended tasks and the events it read;
`server` holds for each MCP process the call it has checked and not yet written. `Fresh`
(what a pass takes), `Episode`, `FactCorrect` and so on are the transactions. `Retrieval` has
no state: `TakeRows` and `TakeAwareness` are the two loops of a search, turn by turn, `AdmitAll`
that of the service, `Take` is one cut by the budget with its ellipsis, and `Fits` says what a prompt may receive. Text is its
length.

## 3. Runs

| Run | Specification and bounds | Shows |
|---|---|---|
| `degradation_crash` | `Spec`; one required capability, one task that cannot safely lose it, one episode (reopened by flaps), two boots, one failing call | under full overlap and crashes at every step: `LostWithinRequired`, `CriticalStopsTask`, `PhraseAtMostOnce`, `MonotonicComparable` |
| `degradation_serial` | `SerialFairSpec`; two capabilities, both required, two episodes | `AtMostOneActive`: no episode is opened beside an open one; `RecoveryIsReal`: it ends only after a stable recovery; `ReturnsToNominal`: once everything stays READY the episodes end and no phrase waits |
| `bus_life` | `FairSpec`; two keys (one of high severity), one exact event, every capacity 1, three publications, one flush, one failure | `CountsExact`: every accepted observation is counted once and every drop is in the summary; `ExactLogged`: first errors are logged, a result means a stored event; `CallReturns` |
| `continuity_lease` | `Spec`; three incarnations, time to live 2, clock to 6 | `OneWriter`, `OneOpenBoot`, `SupersededWorkUncertain`, `UnexpiredLeaseKept` |
| `conversation_turn` | `FairSpec`; one of everything (queued chunk, result, buffer, guarded chunk, timer of a kind, approval), three acts of the world | `PendingExact`, `NoStaleAudio` (no cancelled audio, and silence after a stop), `ApprovalVisible`, `TurnEnds` |
| `hermes_session` | `Spec`; two prompts, two models, one trouble, one route change, a confirmed reload, a slow dial, a stored session | `PromptAccounted`: no accepted prompt disappears; `WaitsOnRequest`: every wait has a request that will end it; `RouteKept`: a turn that forbids fallback runs on its route, and only manual choices are saved; `SessionOpens`: trouble with the MCP server leaves no chat without a session |
| `ledger_rows` | `Spec`; one task, tool and request, two episodes, one restart | `KeepsPromise` (the refinement), `CompletedSettled`, `ConclusionsReferred` |
| `ledger_runs` | `FairSpec`; two tasks, one tool, one restart | `RunsOwnTask`: a frame is charged to the task of its run; `RunEnds`: the end of a run ends its task |
| `ledger_stored` | `Spec`, `DistinctIds` | *violation* of `RunsOwnTask`: with a stored session id beside the runtime id, the second prompt is filed under the one and its frames carry the other |
| `memory_life` | `FairSpec`; two tasks, one MCP server, pages of two, episodes and references of two, three events, two boots; 1 to 4 rows of every residue of a token, six budgets, three windows | `EpisodesPartition`, `Consolidated`: each event up to the watermark is in one episode, later ones come into one; `UserRooted`: no assertion of the user is made up; `PromptFits` |
| `storage_recovery` | `Spec`; one blob, three backups, retention spares one, one trouble (crash, failed check, lost file) | `EvidenceReadable`, `IntegrityExact`, `RestoreSafe`: neither a step of a restore nor the whole loses what was committed; `RecoveryPoints`: eviction leaves the newest valid ones |
| `sketch_buckets` | `Spec`; four items, threshold 2, widths 1, 2 and 4, eight time units, four updates, one crash | `ItemsKept`: nothing observed is lost on its way up; `ExactHonest`: a count called exact is exact; `PassComplete` |

The type invariant of each module is checked by one of its runs, by itself or as the first
conjunct of the invariant that counts on it (`CountsExact`, `PendingExact`,
`PromptAccounted`, `CompletedSettled`, `EpisodesPartition`, `IntegrityExact`, `ExactHonest`).

**Bounds.** *Degradation*: the intervals are 1 and ages saturate there, which keeps every
outcome of every comparison. One episode is enough where a property is about one row (a
flap reopens the row); two where it is about several. Two boots are enough for readings of
different boots to meet; `MonotonicComparable` is proved for any number. *EventBus*: every
queue, LRU and reserve has capacity 1, so that three publications fill it, overflow it and
evict from it. *Continuity*: three incarnations let a third process meet the leftovers of
two. *Conversation*: the world (operator, wake word, prompts, phrases, errors of Hermes) acts
three times, enough for a spoken turn that is stopped, replaced or followed by a phrase;
three chunks can be in flight at once (queued, running, signalled). The response mode is
`voice_prompts`, in which the turn's own flag decides whether it speaks, so both outcomes
occur. *Hermes*: two prompts are one under way and one in the queue of one place; two models
are the wanted one and the one that is there; one trouble may be a fault, a refusal, an
early timeout, a stop or a reconnect, at any point of the workflow. *Ledger*: one restart at
any step of any job, two episodes so that an item may refer to an earlier one; the queue
holds one job beside the one that runs, which is enough to order two frames either way.
*Storage*: three backups are the one that is spared, the safety copy of a restore and a new
one. *Sketches*: four items pass the threshold of 2 twice, once in an update and once in a
merge; eight time units let a cold bucket expire. *Memory*: a page holds both tasks; an
episode takes two events, so a third one needs a second pass; the real constants (32 tasks,
1000 events, 64 references) are only larger.

**Fairness.** *Degradation*: the executor, the maintenance loop and the Qt timer are
threads of a running process that nothing blocks, so their steps are weakly fair, and so is
the clock. Transitions, ends of tasks, exceptions and crashes are not; `ReturnsToNominal` is
checked without crashes and exceptions. *EventBus*: each thread's own steps are weakly fair;
publications, calls, failures and time-outs are not. *Conversation*: the TTS executor, the
playback thread, the Qt event loop and its timers are weakly fair; the operator, Hermes, the
audio thread and transcription are not. *Ledger*: the executor is one thread that works as
long as it has jobs, so its steps are weakly fair; the desktop, Hermes and restarts are not,
and `RunEnds` speaks of a run whose end has arrived. *Memory*: the maintenance thread of a
running HAL is weakly fair; `Consolidated` excuses a HAL that does not stay up. Deadlock
checking is off where the model really ends (a closed bus, stopped processes, used up
inputs) or HAL rests until the world acts.

**Conditions inside properties.** Some properties hold under a condition that the code
relies on and does not enforce, and say so:

* `PhraseAtMostOnce` while no call has raised: when the voice raises after the display, or
  the record fails, the phrase is shown again.
* `CountsExact` for a bus that is only closed: `flush` from another thread races the
  telemetry thread in the coalescer, and a second drop summary has the key of the first.
  Only tests call `flush`.
* `OneWriter` while no live process lets its lease run out (`lapsed`).
* `RunsOwnTask` while no prompt is submitted over another (`overlapped`), and
  `ConclusionsReferred` within one process.
* `EvidenceReadable` excuses blobs whose file the disk lost, or the orphan sweep of
  `hal-self` took while a put, a row or a backup relied on it (`exposed`): the sweep takes no
  lock. `RestoreSafe` ends when HAL is started during a restore (`slipped`): the lease is
  looked up once, before the copy. `RecoveryPoints` allows one backup less for each that was
  begun and not finished (`undone`): half-written files count among the newest three.
* `ItemsKept` excuses an update that reached a bucket its roll-up had already read (`late`):
  updates read their bucket outside the transaction, and the maintenance does not take their
  lock, so such an item stays in the hot bucket and never comes into the wider ones.
* `PassComplete` speaks of passes that reach the expiry: a parent whose exact set grew past
  the cap in a merge raises on being read and ends this and every later pass.

**Known limits of the code that no run is spent on.** In the machine self:

* A tick that decided to finish a recovery, or to enter DEGRADED, commits by the episode's
  id alone, so it may commit over a loss or a cancellation that the executor wrote meanwhile
  (`engine.py:128`); `RecoveryIsReal` and `AtMostOneActive` are stated for `SerialSpec`.
* A flap reopens a cancelled transient as DEGRADED, whose phrase was never queued
  (`engine.py:84`). A claim survives the process that made it and is never taken back
  (`outbox.py:62`), so its phrase is never shown. A RECOVERING episode of an earlier boot
  finishes by wall clock as soon as the capabilities are READY.
* With a dead telemetry thread and a queued observation, `close` waits for ever
  (`event_bus.py:257`); `CallReturns` is stated for a living one.
* A process that is held up past its lease goes on writing beside its successor until its
  next renewal (`service.py:836`). A clean stop closes the session and leaves active tasks
  and running actions as they are, and nothing ever settles them.
* The page of a consolidation pass is the 32 oldest ended tasks, whose row age does not change
  when they are consolidated; with more of them later tasks are never reached
  (`consolidation.py:142`). Two HAL processes after a takeover may both consolidate. A
  corrected statement can be proposed again as if it were new. The lease check of an MCP call
  is not repeated at its write. A search may use one token more than requested, and results
  dropped for diversity are not reported as truncation.
* No blob is ever deleted by retention, since every `put` pins.
* Re-rolling a hot bucket of a distinct metric does not reset its warm parent. Retentions and
  widths of the sketches are not checked against each other (`config.py:388`):
  `SketchAssumption` asks for `WarmKeep > Cold - Warm`, as the defaults have it; without it,
  TLC finds a cold bucket that is rolled up again after a warm child of it expired, and the
  items of that child are gone.

In the conversation and the gateway:

* Speech outside a turn (a machine phrase, or an answer that goes on after a synthesis error
  or a voice test) leaves HAL in SPEAKING (`controller.py:652`). A synthesis error carries no
  generation and closes whatever turn it meets (`controller.py:1343`). A prompt whose context
  is still being compiled is sent even if it was stopped (`controller.py:554`). Stopping a
  recording by the manual microphone button enters MANUAL first, so the utterance is ignored.
* The timer of a request outlives the reason for it: a `session.resume` that is pending when
  the operator reconnects keeps its 120 s timer. If it expires after a session has been opened
  and the MCP reload waits for confirmation, the handler forgets that healthy session and asks
  for another (`service.py:812`). If the connection drops before the answer, the next one asks
  for none, because `_ensure_self_mcp` does nothing in the stage `approval_required`
  (`service.py:543`), although of trouble with the MCP server
  `docs/machine_self_architecture.md:25` says that it "permits the independent chat session to
  continue". The proof of `SessionOpens` came upon this; the property excuses that stage.
* A reconnect after `reload.mcp` opens a new session instead of resuming the old one, and an
  interrupted resume forgets the stored session.

## 4. Proofs

All theorems hold for arbitrary constants that satisfy the modules' assumptions; those of
`HermesProofs` also ask for infinite sets of identifiers (`Unbounded`).

`DegradationProofs`, for `Spec` (full overlap, crashes, failing calls):

* `TypeCorrect`. The work is in the transactions, which write rows computed by an earlier
  step; the type of `call` carries them.
* `LossIsAwaited`: `LostWithinRequired`. Inductive invariant `ProfileInv`: the computed
  rows of pending calls satisfy the same inclusion, because a commit overwrites columns
  without looking at the row it overwrites.
* `CriticalLossStops`: `CriticalStopsTask`. `StopInv` adds that a critical transition in
  the batch names a task, and that a computed critical row either stops a task when it
  commits or belongs to an episode that already stopped one.
* `TimersComparable`: `MonotonicComparable`. `TimerInv` adds, for each state, which reading
  `timer_boot` belongs to, and that only the executor starts, aggregates and recovers: that
  is what makes a commit over another thread's commit harmless to the timers.
* `PhraseOnce`: `PhraseAtMostOnce` (its condition is given in section 3).
  `DeliveryInv` says that a phrase that was shown is claimed or emitted.

and for `SerialSpec`, in which a tick never overlaps an executor job:

* `OneEpisodeOpen`: `AtMostOneActive`, with any failures and restarts. `SerialInv`: whatever
  call is under way names the only episode that may be open, so nothing comes between its
  read and its commit.
* `RecoveriesAreReal`: `RecoveryIsReal`, in one process without exceptions
  (`MaxFailures = 0`, `MaxBoots = 1`, as in the run). `RecoveryInv`: what a RECOVERING episode
  waits for has been READY as long as the recovery lasts, or its loss is in the batch or in
  the executor's call (`Reported`); and what a call found READY stays so until it commits. Both
  conditions are needed: a registered loss whose call raises is never reported to the engine,
  and neither is a loss that `_install_initial_exact_state` registers at a restart, so a
  recovery that began before them would count the interruption as stable time.

`StorageProofs`, for `BootSpec` of `Continuity` (the two modules are about one database and
share a module of proofs):

* `BootTypeCorrect`.
* `OneWriterAtATime`: `OneWriter`. `LeaseInv` says that the row names every writer and has
  not run out; it is inductive until a live lease lapses (`LeaseWhileTimely`).
* `OneOpenSession` and `SupersededWork`: `BootInv` says that a process that read "no open
  session" is still right when it commits (`FoundIsTrue`), that live sessions are open and
  that running work belongs to an open or cleanly closed session. It rests on `LeaseInv`:
  without a single writer the read would be stale.
* `LeaseKept`: `UnexpiredLeaseKept`, without any condition.

`LedgerProofs`, for `Spec` (every workflow, queue and restart, frames twice and late):

* `Implementation`: `KeepsPromise`, that is, `Ledger` implements `LedgerPromise`. Each step
  maps to a step of the promise or to a stutter, because the rows have the same names in
  both. What has to be shown is that an action begins, and a task ends, only under an open
  task, and the mapper finds that task in its table of sessions. So `IInv` says that the
  table never names a closed task (`BoundOpen`). A step that ends a task takes it off the
  table: it is there only once (`BoundOnce`), the frame that opened the session came before
  any end of a run (`PendingFirst`), the end is charged to the task under the key of the
  frame (`Charged`), and what was counted still holds when the task is settled (`Counted`).
* `CompletedIsSettled`: `CompletedSettled`, from the promise alone and the types.
* `ConclusionsAreReferred`: `ConclusionsReferred`, strengthened by the step between an
  outcome recorded under an episode and its item (`Referred`).
* `RunsAreCharged`: `RunsOwnTask`, if the runtime id is the only id of a session
  (`~DistinctIds`; the run `ledger_stored` refutes it otherwise). The invariant `CInv` carries
  the condition "no prompt over another" through every frame: one run is under way
  (`OneUnderWay`), what waits in the queue is about that run and its end comes last
  (`OneRun`), nothing is said of a run before its task is begun (`BeginsFirst`), and the table
  of sessions holds its task under whatever key is looked up (`AtHome`). `SessionBound` is
  what makes the two keys one: a task waits under "pending" only until the first frame.
* `TypeCorrect`.

`MemoryProofs`, for `Spec` (a crash between any two transactions, servers that outlive HAL):

* `EpisodesArePartition`: `EpisodesPartition`. A pass reads a watermark, and two
  transactions later relies on it; `EpisodeInv` says that what was read is still the next
  episode when it is created (`PassFresh`): above every event that has an episode, with
  nothing below left out. Only the maintenance thread moves the watermark and a crash ends
  the pass, so new events cannot disturb this, and the test for an equal episode in
  `CreateEpisode` never succeeds. Jobs play no part in the argument.
* `AssertionsAreRooted`: `UserRooted`. `CallsRooted` carries the check of a call to the
  transaction that writes; it survives because the log only grows (`LogKept`).
* `MemoryFits`, about `Retrieval`: `Fits` for any rows, metrics and sizes, any setting and any
  context window, not only the inputs of the run; `PromptsFit` (`PromptFits`) is the run's case
  of it. A cut text costs one token more than there was (`TakeBounds`), and the next one finds
  nothing left, so a search overruns by one (`SearchBounds`). The number of tokens is part of
  the text whose tokens it counts: the object never shrinks when a larger number is written
  into it and never grows when the flag is set (`JsonGrows`), so the last count is not above
  the one before, nor that above the reserve (`PromptMemoryFits`). `Admitted` is the invariant of the
  loop over the items. Numbers have ten digits at most.
* `TypeCorrect`. `GreatestOfBounded` gives the maximum that `Watermark` takes.

`EventBusProofs`, for `Spec` (a failing transaction, a flush from another thread):

* `CountsAreExact`: `CountsExact`. The invariant follows an observation through the threads:
  what was accepted of a key is stored, queued, in the worker's hands, or pending in the one
  live run of that key, and not twice although a run is committed before its count is reset
  (`Accounted`, `OneRunPerKey`, `Due`). `Closing` and `Runs` say what `close` has emptied so
  far and that it stays empty, `Gap` where the summary of the drops is.
* `ExactIsLogged`: `ExactLogged`. `Submitted`: an event somebody waits for, or whose
  fingerprint is remembered, is in the log, failed, or still with the writer.
* `TypeCorrect`. `Run` has enough objects that `OpenRun` always finds a free one.

`ConversationProofs`, for `Spec`:

* `PendingIsExact`: `PendingExact`. The controller's count and what it counts change on three
  threads. `Counts` adds that the count is never above what is in flight, also after an
  uncounted phrase, and that a stopped turn counts nothing, so that what is dropped then
  without being counted down was not counted.
* `NoAudioIsStale`: `NoStaleAudio`, inductive with the types of the speech variables.
* `ApprovalsAreVisible`: `ApprovalVisible`, inductive as it stands.
* `TypeCorrect`.

`StorageProofs`, for `Spec` (two processes, a crash between any two steps, any number of
backups):

* `EvidenceIsReadable`: `EvidenceReadable`. `Evidence` says the same of every valid backup,
  of the copy a rollback writes back, and of what the put in progress has done so far; it
  rests on the order of the writes, file before row before reference.
* `IntegrityIsExact`: `IntegrityExact`, from what the run has found so far (`Report`).
* `RestoresAreSafe`: `RestoreSafe`. `Copied`: unless HAL slipped in, it is off during a
  restore and beside a torn database, so that nobody evicts the safety copy or commits to what
  is about to be replaced. `Quiet` says which process works on what.
* `RecoveryPointsAreLeft`: `RecoveryPoints`. `Points`: a backup that may be deleted has `Keep`
  younger ones, and of the backups after the last that was evicted only as many are spoiled
  as were begun in vain. The two eviction lists may be stale; backups only get older.
* `TypeCorrect`.

`HermesProofs`, for `Spec`, if `Ids` and `Sessions` are infinite (`Unbounded`): the client
counts its ids up without end (`client.py:194`), and Hermes invents the names of its sessions;
a finite set would let a request find no id. Any prompts, models, routes, troubles and stops:

* `OrderlyCorrect`: `Orderly`, the inductive invariant that needs no condition. Types; a queued
  prompt is the one whose fate is "queued", also while a handler works (`PromptOk`); what may be
  saved was chosen by the user (`SavedOk`); what a prompt on its way to Hermes demands is what
  the route requests before it in the same queue will have set when it is served, and entries of
  an older generation are not taken for the current one (`Routed`); every frame and answer
  belongs to an id that is used once (`LinkOk`). Since a handler runs through several methods,
  each method has a lemma for any state of the service that satisfies these (`Sound`), and a
  step is their composition. `RejectAll` is a loop whose handlers issue new requests: its values
  are taken one by one (`RejectAllIs`), and `Sound` holds of each by induction.
* `TypeCorrect`, `PromptAccountedCorrect` (`PromptAccounted`) and `RouteKeptCorrect`
  (`RouteKept`) follow from it.
* `SteadyCorrect`: `Steady` adds, until a worker is stopped over unread notifications
  (`hal.stale`), that the queue of notifications tells what became of the current socket
  (`Informed`), and that whatever the service waits for is pending (`Attends`). Both are needed
  together: a request is only ever written off by the drop of its socket, and a drop that the
  Qt thread has not been told of yet must be in the queue.
* `WaitsOnRequestCorrect` (`WaitsOnRequest`) and `SessionOpensCorrect` (`SessionOpens`) follow.

`SketchesProofs`, for `Spec` (updates without the lock of the maintenance, crashes):

* `ItemsAreKept`: `ItemsKept`. A roll-up replaces the parent by the union of the children that
  are still there. It loses nothing because a child expires only when nothing beside it is
  left to roll up (`HotGone`, `WarmGone`): that is where the widths and the retentions have
  to fit together. `HotHolds`, `WarmHolds`, `ColdHolds` and `Made` say where the item is
  meanwhile, `NoneAfter` that the parent of a distinct metric is not rolled up twice.
* `ExactIsHonest`: `ExactHonest`, from `Sourced` (a bucket holds only what was observed in its
  time) and the same facts.
* `PassRollsUpAll`: `PassComplete`. `TurnComes`: what was due when the pass began and is not
  rolled up has its parent on the list of the pass, or a width that is still to come.
* `TypeCorrect`. Divisibility of the widths is used through `Division` and `WarmFits`.

**Only model-checked.** Liveness (`ReturnsToNominal`, `CallReturns`, `TurnEnds`, `RunEnds`,
`Consolidated`): the prover has no fairness and no `ENABLED`. Every safety
property that a run checks is stated by a theorem; those of `Hermes` for infinite `Ids` and
`Sessions`, while TLC takes finite sets.

## 5. Not modelled

For good: QML presentation; configuration, paths, secrets, autostart, logging and
installation (I/O without state of its own); the arithmetic of estimators, baselines and
resource samples; audio signal processing; the full-text index and its ranking; wording of
phrases. Projection checkpoints are one transaction that nothing restores from, and
migrations run once, before any thread. `revalidation.resolve`, `tasks.checkpoint`,
`commitments.resolve` and the rotation of the sketch key have no caller in the program
outside tests.

For now: the owned Hermes process with its probe and restart budget, provider health and
model list of the Hermes service; engine choice and fallback of the TTS manager; the loss of
the microphone stream; the token budget of the context capsule; the model router; settings
and first-run setup of the controller. `PROJECT.json` lists every component with its status.

## 6. Plan

1. `Degradation`, `EventBus`, `Continuity`, `Conversation`, `Hermes`, `Ledger` with
   `LedgerPromise`, `Storage`, `Sketches`, `Memory`, `Retrieval`: modelled and checked.
2. Proofs of all of them: done, the refinement of `LedgerPromise` included; every safety
   property that a run checks is a theorem.
3. The owned Hermes process; the TTS manager and the loss of the microphone in
   `Conversation`; the budget of the context compiler in `Retrieval`.

------------------------------ MODULE EventBus ------------------------------
(***************************************************************************)
(* Ingestion of the machine self: BoundedEventBus with its telemetry       *)
(* queue, EventRunCoalescer and ExactEventWriter.                          *)
(*                                                                         *)
(* Four threads take part:                                                 *)
(*   - the publisher, the service's executor worker, which publishes       *)
(*     observations and exact events and waits for the latter;             *)
(*   - the telemetry worker (_run), which feeds the coalescer and flushes  *)
(*     it periodically;                                                    *)
(*   - the writer, which appends exact events to the log;                  *)
(*   - the caller of flush() or close().  The service calls close() once   *)
(*     its executor has stopped; flush() may be called at any time and     *)
(*     touches the coalescer from the caller's thread, without a lock.     *)
(*                                                                         *)
(* An observation is its coalescing key, so event_runs has one row for     *)
(* each member of Key.                                                     *)
(***************************************************************************)
EXTENDS Integers, Sequences, FiniteSets, SequencesExt

CONSTANTS
  Key,                \* coalescing keys of the observations
  High,               \* those of severity error or critical
  Control,            \* exact events the publisher submits
  TelemetryCapacity,  \* queue_capacity - exact_reserve
  ExactReserve,       \* settings.exact_reserve
  MaxOpenRuns,        \* settings.max_open_runs
  FingerprintCapacity,\* _high_fingerprint_capacity
  MaxPublish,         \* bound: observations published
  MaxFlushes,         \* bound: calls of flush()
  MaxFailures         \* bound: transactions that raise and waits that time out

ASSUME EventBusAssumption ==
  /\ IsFiniteSet(Key) /\ Key # {} /\ High \subseteq Key
  /\ TelemetryCapacity \in Nat \ {0} /\ ExactReserve \in Nat \ {0}
  /\ MaxOpenRuns \in Nat \ {0} /\ FingerprintCapacity \in Nat \ {0}
  /\ MaxPublish \in Nat /\ MaxFlushes \in Nat /\ MaxFailures \in Nat

\* Run objects: the open ones, and those that a caller of flush() still holds although
\* the telemetry thread has evicted them since.
Run == 1..(2 * MaxOpenRuns)
Flusher == {"telemetry", "caller"}
Exact == ({"control"} \X Control) \cup ({"high"} \X High)
           \cup ({"summary"} \X (1..MaxPublish))

VARIABLES
  publisher,   \* [pc, of]: of is the observation or the exact event in hand
  seen,        \* _high_fingerprints, least recently used first
  telemetry,   \* the bounded telemetry queue
  unfinished,  \* its unfinished_tasks
  worker,      \* [pc, key]: the telemetry thread and the observation it holds
  open,        \* OrderedDict of open runs, least recently used first
  run,         \* run objects: key and pending_count
  flushing,    \* per flusher: runs still to flush, and whether the first of
               \* them is committed but not yet reset
  stored,      \* event_runs.count
  drops,       \* dropped observations not yet summarised (_drops)
  writeQueue,  \* the reserved queue of exact events
  writer,      \* [pc, of]: the writer thread and the event it holds
  log,         \* exact_events
  errors,      \* exact events whose future holds an exception
  caller,      \* [op, pc]: the flush() or close() under way
  stop,        \* _stop of the bus and of the writer
  accepted,    \* history: observations enqueued, by key
  dropped,     \* history: observations dropped
  published, flushes, failures  \* bounds

vars == <<publisher, seen, telemetry, unfinished, worker, open, run, flushing,
          stored, drops, writeQueue, writer, log, errors, caller, stop, accepted,
          dropped, published, flushes, failures>>

publisherVars == <<publisher, seen, accepted, dropped, published>>
coalescerVars == <<open, run, flushing, stored>>
writerVars == <<writeQueue, writer, log, errors>>

NoItem == <<"none", "none">>

\* OrderedDict.move_to_end, for what is at position i.
MovedToEnd(s, i) == Append(RemoveAt(s, i), s[i])

TypeOK ==
  /\ publisher \in [pc : {"idle", "done"}, of : {NoItem}]
       \cup [pc : {"put"}, of : {"observation"} \X Key]
       \cup [pc : {"waiting"}, of : {"control"} \X Control]
  /\ seen \in Seq(High) /\ Len(seen) <= FingerprintCapacity
  /\ telemetry \in Seq(Key) /\ Len(telemetry) <= TelemetryCapacity
  /\ unfinished \in Nat
  /\ worker \in [pc : {"idle", "flushing", "ended", "dead"}, key : Key \cup {"none"}]
       \cup [pc : {"holding", "evicting"}, key : Key]
  /\ open \in Seq(Run) /\ Len(open) <= MaxOpenRuns
  /\ run \in [Run -> [key : Key, pending : Nat]]
  /\ flushing \in [Flusher -> [todo : Seq(Run), committed : BOOLEAN]]
  /\ stored \in [Key -> Nat]
  /\ drops \in Nat
  /\ writeQueue \in Seq(Exact) /\ Len(writeQueue) <= ExactReserve
  /\ writer \in [pc : {"idle", "ended"}, of : {NoItem}] \cup [pc : {"writing"}, of : Exact]
  /\ log \subseteq Exact /\ errors \subseteq Exact
  /\ caller \in [op : {"none", "flush", "close"},
                 pc : {"idle", "join", "joined", "flushing", "summary", "awaiting",
                       "drain", "drained", "closed", "raised"}]
  /\ stop \in [bus : BOOLEAN, writer : BOOLEAN]
  /\ accepted \in [Key -> Nat]
  /\ dropped \in 0..MaxPublish
  /\ published \in 0..MaxPublish /\ flushes \in 0..MaxFlushes /\ failures \in 0..MaxFailures

-----------------------------------------------------------------------------
(***************************************************************************)
(* ExactEventWriter and append_exact_event.                                *)
(***************************************************************************)

\* All drop summaries of one bus share one idempotency key.
IdempotencyKey(e) == IF e[1] = "summary" THEN <<"summary", 0>> ELSE e

\* append_exact_event: an event whose key is in the log is not inserted.
Stored(e) ==
  IF \E f \in log : IdempotencyKey(f) = IdempotencyKey(e) THEN log ELSE log \cup {e}

\* A transaction raises: disk full, or locked for longer than busy_timeout.
Fails == failures < MaxFailures /\ failures' = failures + 1

Writes(e) ==
  \/ log' = Stored(e) /\ UNCHANGED <<errors, failures>>
  \/ Fails /\ errors' = errors \cup {e} /\ UNCHANGED log

\* Mutant: a full reserve discards the event.
SubmitDiscards(e) ==
  /\ writeQueue' = IF Len(writeQueue) < ExactReserve THEN Append(writeQueue, e)
                   ELSE writeQueue
  /\ UNCHANGED <<writer, log, errors, failures>>

\* submit: a full queue makes the submitting thread write the event itself.
Submit(e) ==
  \/ /\ Len(writeQueue) < ExactReserve
     /\ writeQueue' = Append(writeQueue, e)
     /\ UNCHANGED <<writer, log, errors, failures>>
  \/ /\ Len(writeQueue) = ExactReserve
     /\ Writes(e)
     /\ UNCHANGED <<writeQueue, writer>>

\* The future of e is done.
Resolved(e) == ~Contains(writeQueue, e) /\ writer.of # e

WriterTakes ==
  /\ writer.pc = "idle" /\ writeQueue # <<>>
  /\ writer' = [pc |-> "writing", of |-> Head(writeQueue)]
  /\ writeQueue' = Tail(writeQueue)
  /\ UNCHANGED <<publisherVars, coalescerVars, telemetry, unfinished, worker, drops,
                 log, errors, caller, stop, flushes, failures>>

WriterWrites ==
  /\ writer.pc = "writing"
  /\ Writes(writer.of)
  /\ writer' = [pc |-> "idle", of |-> NoItem]
  /\ UNCHANGED <<publisherVars, coalescerVars, telemetry, unfinished, worker, drops,
                 writeQueue, caller, stop, flushes>>

WriterEnds ==
  /\ writer.pc = "idle" /\ stop.writer /\ writeQueue = <<>>
  /\ writer' = [writer EXCEPT !.pc = "ended"]
  /\ UNCHANGED <<publisherVars, coalescerVars, telemetry, unfinished, worker, drops,
                 writeQueue, log, errors, caller, stop, flushes, failures>>

-----------------------------------------------------------------------------
(***************************************************************************)
(* The publisher: publish_observation and publish_exact.                   *)
(***************************************************************************)

\* Bound: an observation is published MaxPublish times.
Publish == published < MaxPublish /\ published' = published + 1

PublisherIdle == [pc |-> "idle", of |-> NoItem]

RecordDrop == drops' = drops + 1 /\ dropped' = dropped + 1

\* The state database has used its telemetry allocation, or a routine internal
\* event is sampled out.
PublishRefused ==
  /\ publisher.pc = "idle" /\ Publish
  /\ RecordDrop
  /\ UNCHANGED <<publisher, seen, accepted, coalescerVars, writerVars, telemetry,
                 unfinished, worker, caller, stop, flushes, failures>>

\* _persist_first_high_severity; the future of its event is not waited for.
PublishHigh(k) ==
  /\ publisher.pc = "idle" /\ Publish
  /\ k \in High
  /\ publisher' = [pc |-> "put", of |-> <<"observation", k>>]
  /\ \/ /\ \E i \in 1..Len(seen) : seen[i] = k /\ seen' = MovedToEnd(seen, i)
        /\ UNCHANGED <<writerVars, failures>>
     \/ /\ ~Contains(seen, k)
        /\ LET longer == Append(seen, k)
           IN  seen' = IF Len(longer) > FingerprintCapacity THEN Tail(longer)
                       ELSE longer
        /\ \/ <<"high", k>> \in log /\ UNCHANGED <<writerVars, failures>>
           \/ <<"high", k>> \notin log /\ Submit(<<"high", k>>)
  /\ UNCHANGED <<accepted, dropped, coalescerVars, telemetry, unfinished, worker,
                 drops, caller, stop, flushes>>

\* put_nowait, or a drop when the queue is full.
PutObservation(k) ==
  /\ \/ publisher.pc = "idle" /\ k \notin High /\ Publish
     \/ publisher = [pc |-> "put", of |-> <<"observation", k>>] /\ UNCHANGED published
  /\ publisher' = PublisherIdle
  /\ \/ /\ Len(telemetry) < TelemetryCapacity
        /\ telemetry' = Append(telemetry, k)
        /\ unfinished' = unfinished + 1
        /\ accepted' = [accepted EXCEPT ![k] = @ + 1]
        /\ UNCHANGED <<drops, dropped>>
     \/ /\ Len(telemetry) = TelemetryCapacity
        /\ RecordDrop
        /\ UNCHANGED <<telemetry, unfinished, accepted>>
  /\ UNCHANGED <<seen, coalescerVars, writerVars, worker, caller, stop, flushes,
                 failures>>

\* The mapper waits for the result of every exact event it publishes.
PublishExact(c) ==
  LET e == <<"control", c>>
  IN  /\ publisher.pc = "idle"
      /\ e \notin log \cup errors /\ Resolved(e)
      /\ Submit(e)
      /\ publisher' = [pc |-> "waiting", of |-> e]
      /\ UNCHANGED <<seen, accepted, dropped, published, coalescerVars, telemetry,
                     unfinished, worker, drops, caller, stop, flushes>>

ResultArrives ==
  /\ publisher.pc = "waiting" /\ Resolved(publisher.of)
  /\ publisher' = PublisherIdle
  /\ UNCHANGED <<seen, accepted, dropped, published, coalescerVars, writerVars,
                 telemetry, unfinished, worker, drops, caller, stop, flushes, failures>>

\* result(timeout=10) raises; the event stays submitted.
ResultTimesOut ==
  /\ publisher.pc = "waiting" /\ ~Resolved(publisher.of) /\ Fails
  /\ publisher' = PublisherIdle
  /\ UNCHANGED <<seen, accepted, dropped, published, coalescerVars, writerVars,
                 telemetry, unfinished, worker, drops, caller, stop, flushes>>

\* The service shuts its executor down before it closes the bus.
ExecutorStops ==
  /\ publisher.pc = "idle"
  /\ publisher' = [publisher EXCEPT !.pc = "done"]
  /\ UNCHANGED <<seen, accepted, dropped, published, coalescerVars, writerVars,
                 telemetry, unfinished, worker, drops, caller, stop, flushes, failures>>

-----------------------------------------------------------------------------
(***************************************************************************)
(* EventRunCoalescer.  _flush_one commits a run's pending count and only   *)
(* afterwards resets it; a run found with nothing pending is skipped.      *)
(***************************************************************************)

othersThanFlush == <<publisherVars, writerVars, telemetry, drops, stop, flushes>>

\* A flush of the runs rs begins; it ends when todo is empty.
Flushing(p, rs) == flushing' = [flushing EXCEPT ![p].todo = rs]
Flushed(p) == flushing[p].todo = <<>>
Current(p) == Head(flushing[p].todo)

SkipRun(p) ==
  /\ ~Flushed(p) /\ ~flushing[p].committed
  /\ run[Current(p)].pending = 0
  /\ Flushing(p, Tail(flushing[p].todo))
  /\ UNCHANGED <<othersThanFlush, unfinished, worker, open, run, stored, caller,
                 failures>>

CommitRun(p) ==
  LET r == run[Current(p)]
  IN  /\ ~Flushed(p) /\ ~flushing[p].committed
      /\ r.pending > 0
      /\ stored' = [stored EXCEPT ![r.key] = @ + r.pending]
      /\ flushing' = [flushing EXCEPT ![p].committed = TRUE]
      /\ UNCHANGED <<othersThanFlush, unfinished, worker, open, run, caller, failures>>

ResetRun(p) ==
  /\ flushing[p].committed
  /\ run' = [run EXCEPT ![Current(p)].pending = 0]
  /\ flushing' = [flushing EXCEPT ![p] = [todo |-> Tail(@.todo), committed |-> FALSE]]
  /\ UNCHANGED <<othersThanFlush, unfinished, worker, open, stored, caller, failures>>

\* The transaction raises.  Nothing catches it in _run, so the telemetry thread
\* dies; in add, the finally clause still counts the observation as done.
CommitFails(p) ==
  /\ ~Flushed(p) /\ ~flushing[p].committed
  /\ run[Current(p)].pending > 0
  /\ Fails
  /\ Flushing(p, <<>>)
  /\ \/ /\ p = "telemetry"
        /\ worker' = [worker EXCEPT !.pc = "dead"]
        /\ unfinished' = IF worker.pc = "evicting" THEN unfinished - 1 ELSE unfinished
        /\ UNCHANGED caller
     \/ /\ p = "caller"
        /\ caller' = [caller EXCEPT !.pc = "raised"]
        /\ UNCHANGED <<worker, unfinished>>
  /\ UNCHANGED <<othersThanFlush, open, run, stored>>

-----------------------------------------------------------------------------
(***************************************************************************)
(* The telemetry thread: take an observation, add it to its run, flush     *)
(* when the interval is over.                                              *)
(***************************************************************************)

othersThanWorker == <<publisherVars, writerVars, drops, caller, stop, flushes, failures>>

WorkerIdle == [pc |-> "idle", key |-> "none"]

TakeObservation ==
  /\ worker.pc = "idle" /\ telemetry # <<>>
  /\ worker' = [pc |-> "holding", key |-> Head(telemetry)]
  /\ telemetry' = Tail(telemetry)
  /\ UNCHANGED <<othersThanWorker, coalescerVars, unfinished>>

\* add: the run of this key is open.
AddToRun ==
  /\ worker.pc = "holding"
  /\ \E i \in 1..Len(open) :
       /\ run[open[i]].key = worker.key
       /\ run' = [run EXCEPT ![open[i]].pending = @ + 1]
       /\ open' = MovedToEnd(open, i)
  /\ unfinished' = unfinished - 1
  /\ worker' = WorkerIdle
  /\ UNCHANGED <<othersThanWorker, flushing, stored, telemetry>>

HasOpenRun(k) == \E i \in 1..Len(open) : run[open[i]].key = k

\* Mutant: the evicted run is not flushed.
EvictRunUnflushed ==
  /\ worker.pc = "holding" /\ ~HasOpenRun(worker.key)
  /\ Len(open) >= MaxOpenRuns
  /\ open' = Tail(open)
  /\ worker' = [worker EXCEPT !.pc = "evicting"]
  /\ UNCHANGED <<othersThanWorker, run, flushing, stored, telemetry, unfinished>>

\* add: the least recently used run makes room and is flushed first.
EvictRun ==
  /\ worker.pc = "holding" /\ ~HasOpenRun(worker.key)
  /\ Len(open) >= MaxOpenRuns
  /\ open' = Tail(open)
  /\ Flushing("telemetry", <<Head(open)>>)
  /\ worker' = [worker EXCEPT !.pc = "evicting"]
  /\ UNCHANGED <<othersThanWorker, run, stored, telemetry, unfinished>>

\* A new object, so one that no container and no thread holds.
Fresh(r) ==
  /\ ~Contains(open, r)
  /\ \A p \in Flusher : ~Contains(flushing[p].todo, r)

\* Mutant: task_done is forgotten for the first observation of a run.
OpenRunUnfinished ==
  /\ \/ worker.pc = "holding" /\ ~HasOpenRun(worker.key) /\ Len(open) < MaxOpenRuns
     \/ worker.pc = "evicting" /\ Flushed("telemetry")
  /\ LET r == CHOOSE x \in Run : Fresh(x)
     IN  /\ run' = [run EXCEPT ![r] = [key |-> worker.key, pending |-> 1]]
         /\ open' = Append(open, r)
  /\ worker' = WorkerIdle
  /\ UNCHANGED <<othersThanWorker, flushing, stored, telemetry, unfinished>>

OpenRun ==
  /\ \/ worker.pc = "holding" /\ ~HasOpenRun(worker.key) /\ Len(open) < MaxOpenRuns
     \/ worker.pc = "evicting" /\ Flushed("telemetry")
  /\ LET r == CHOOSE x \in Run : Fresh(x)
     IN  /\ run' = [run EXCEPT ![r] = [key |-> worker.key, pending |-> 1]]
         /\ open' = Append(open, r)
  /\ unfinished' = unfinished - 1
  /\ worker' = WorkerIdle
  /\ UNCHANGED <<othersThanWorker, flushing, stored, telemetry>>

PeriodicFlush ==
  /\ worker.pc = "idle"
  /\ \E i \in 1..Len(open) : run[open[i]].pending > 0
  /\ worker' = [worker EXCEPT !.pc = "flushing"]
  /\ Flushing("telemetry", open)
  /\ UNCHANGED <<othersThanWorker, open, run, stored, telemetry, unfinished>>

PeriodicFlushEnds ==
  /\ worker.pc = "flushing" /\ Flushed("telemetry")
  /\ worker' = WorkerIdle
  /\ UNCHANGED <<othersThanWorker, coalescerVars, telemetry, unfinished>>

WorkerEnds ==
  /\ worker.pc = "idle" /\ stop.bus /\ telemetry = <<>>
  /\ worker' = [worker EXCEPT !.pc = "ended"]
  /\ UNCHANGED <<othersThanWorker, coalescerVars, telemetry, unfinished>>

-----------------------------------------------------------------------------
(***************************************************************************)
(* flush() and close() of the bus.                                         *)
(***************************************************************************)

othersThanCaller == <<publisherVars, telemetry, unfinished, worker, run, stored>>

At(pc) == caller.pc = pc
Goto(pc) == caller' = [caller EXCEPT !.pc = pc]

CallFlush ==
  /\ At("idle") /\ flushes < MaxFlushes
  /\ flushes' = flushes + 1
  /\ caller' = [op |-> "flush", pc |-> "join"]
  /\ UNCHANGED <<othersThanCaller, writerVars, open, flushing, drops, stop, failures>>

CallClose ==
  /\ At("idle") /\ publisher.pc = "done"
  /\ caller' = [op |-> "close", pc |-> "join"]
  /\ UNCHANGED <<othersThanCaller, writerVars, open, flushing, drops, stop, flushes,
                 failures>>

\* _telemetry.join(); close() then tells the telemetry thread to stop.
JoinQueue ==
  /\ At("join") /\ unfinished = 0
  /\ \/ /\ caller.op = "flush"
        /\ Goto("flushing") /\ Flushing("caller", open)
        /\ UNCHANGED stop
     \/ /\ caller.op = "close"
        /\ Goto("joined") /\ stop' = [stop EXCEPT !.bus = TRUE]
        /\ UNCHANGED flushing
  /\ UNCHANGED <<othersThanCaller, writerVars, open, drops, flushes, failures>>

\* _thread.join(timeout=5), then coalescer.close().
JoinWorker ==
  /\ At("joined") /\ worker.pc \in {"ended", "dead"}
  /\ Goto("flushing") /\ Flushing("caller", open)
  /\ UNCHANGED <<othersThanCaller, writerVars, open, drops, stop, flushes, failures>>

JoinTimesOut ==
  /\ \/ At("joined") /\ worker.pc \notin {"ended", "dead"}
     \/ At("drained") /\ writer.pc # "ended"
  /\ Fails
  /\ Goto("raised")
  /\ UNCHANGED <<othersThanCaller, writerVars, open, flushing, drops, stop, flushes>>

\* coalescer.close() also forgets the open runs.
CoalescerFlushed ==
  /\ At("flushing") /\ Flushed("caller")
  /\ open' = IF caller.op = "close" THEN <<>> ELSE open
  /\ Goto("summary")
  /\ UNCHANGED <<othersThanCaller, writerVars, flushing, drops, stop, flushes, failures>>

\* _emit_drop_summary clears the counters before the summary is stored.
EmitDropSummary ==
  /\ At("summary")
  /\ drops' = 0
  /\ \/ drops = 0 /\ Goto("drain") /\ UNCHANGED <<writerVars, failures>>
     \/ drops > 0 /\ Submit(<<"summary", drops>>) /\ Goto("awaiting")
  /\ UNCHANGED <<othersThanCaller, open, flushing, stop, flushes>>

\* summary.result(timeout=10): the only summary under way is the caller's.
PendingExact ==
  {writeQueue[i] : i \in 1..Len(writeQueue)} \cup {writer.of}
SummaryPending == \E e \in PendingExact : e[1] = "summary"
SummaryFailed == \E e \in errors : e[1] = "summary"

SummaryArrives ==
  /\ At("awaiting") /\ ~SummaryPending
  /\ Goto(IF SummaryFailed THEN "raised" ELSE "drain")
  /\ UNCHANGED <<othersThanCaller, writerVars, open, flushing, drops, stop, flushes,
                 failures>>

\* writer.flush(), and for close() also the writer's stop.
JoinWriteQueue ==
  /\ At("drain") /\ writeQueue = <<>> /\ writer.pc # "writing"
  /\ \/ /\ caller.op = "flush"
        /\ caller' = [op |-> "none", pc |-> "idle"]
        /\ UNCHANGED stop
     \/ /\ caller.op = "close"
        /\ Goto("drained") /\ stop' = [stop EXCEPT !.writer = TRUE]
  /\ UNCHANGED <<othersThanCaller, writerVars, open, flushing, drops, flushes, failures>>

JoinWriter ==
  /\ At("drained") /\ writer.pc = "ended"
  /\ Goto("closed")
  /\ UNCHANGED <<othersThanCaller, writerVars, open, flushing, drops, stop, flushes,
                 failures>>

-----------------------------------------------------------------------------

Init ==
  /\ publisher = PublisherIdle /\ seen = <<>>
  /\ telemetry = <<>> /\ unfinished = 0 /\ worker = WorkerIdle
  /\ open = <<>>
  /\ run \in [Run -> [key : {CHOOSE k \in Key : TRUE}, pending : {0}]]
  /\ flushing = [p \in Flusher |-> [todo |-> <<>>, committed |-> FALSE]]
  /\ stored = [k \in Key |-> 0] /\ drops = 0
  /\ writeQueue = <<>> /\ writer = [pc |-> "idle", of |-> NoItem]
  /\ log = {} /\ errors = {}
  /\ caller = [op |-> "none", pc |-> "idle"]
  /\ stop = [bus |-> FALSE, writer |-> FALSE]
  /\ accepted = [k \in Key |-> 0] /\ dropped = 0
  /\ published = 0 /\ flushes = 0 /\ failures = 0

FlushStep(p) == SkipRun(p) \/ CommitRun(p) \/ ResetRun(p)

WorkerStep ==
  \/ TakeObservation \/ AddToRun \/ EvictRun \/ OpenRun
  \/ PeriodicFlush \/ PeriodicFlushEnds \/ WorkerEnds \/ FlushStep("telemetry")

WriterStep == WriterTakes \/ WriterWrites \/ WriterEnds

\* Steps of a call that is under way.
CallerStep ==
  \/ JoinQueue \/ JoinWorker \/ CoalescerFlushed \/ EmitDropSummary
  \/ SummaryArrives \/ JoinWriteQueue \/ JoinWriter \/ FlushStep("caller")

\* Steps of a publication that is under way.
PublisherStep ==
  ResultArrives \/ (publisher.pc = "put" /\ \E k \in Key : PutObservation(k))

Next ==
  \/ PublishRefused \/ (\E k \in Key : PublishHigh(k) \/ PutObservation(k))
  \/ (\E c \in Control : PublishExact(c)) \/ ResultArrives \/ ResultTimesOut
  \/ ExecutorStops
  \/ WorkerStep \/ WriterStep
  \/ CallFlush \/ CallClose \/ CallerStep \/ JoinTimesOut
  \/ \E p \in Flusher : CommitFails(p)

Spec == Init /\ [][Next]_vars

\* Each running thread keeps going.  Nothing makes the publisher publish, a
\* transaction fail or a caller call.
Fairness ==
  WF_vars(WorkerStep) /\ WF_vars(WriterStep) /\ WF_vars(CallerStep)
    /\ WF_vars(PublisherStep)

FairSpec == Spec /\ Fairness

-----------------------------------------------------------------------------
(***************************************************************************)
(* Properties.                                                             *)
(***************************************************************************)

\* close() has returned and nothing failed on the way.
Closed == caller.pc = "closed" /\ failures = 0

\* Closed, by the service that owns the bus: it never calls flush(), which the
\* tests do.
ClosedByService == Closed /\ flushes = 0

\* Every observation the bus accepted is counted once in event_runs when the
\* service has closed it: none is lost in the queue, with an evicted run or
\* between a commit and the reset of its count, and none is counted twice
\* (coalescer add, flush, _flush_one).
RunsExact == ClosedByService => stored = accepted

\* The drop summary in the log accounts for every dropped observation
\* (_record_drop, _emit_drop_summary).
GapExact ==
  ClosedByService =>
    {e \in log : e[1] = "summary"} =
      IF dropped = 0 THEN {} ELSE {<<"summary", dropped>>}

\* When the service has closed the bus, what it accepted is counted once and
\* what it dropped is accounted for: accepted, dropped and refused observations
\* can all be told from the tables (event_bus.py, coalescer.py).
CountsExact == TypeOK /\ RunsExact /\ GapExact

\* Every error or critical observation the bus did not refuse has its first
\* occurrence in the log, although the fingerprint is remembered before the
\* event is written and nobody waits for it.
FirstHighLogged ==
  Closed => \A k \in High : accepted[k] > 0 => <<"high", k>> \in log

\* An exact event whose publisher got a result without an exception is in the
\* log, whichever thread wrote it (submit, _run).
ResultMeansLogged ==
  \A c \in Control :
    LET e == <<"control", c>>
    IN  publisher.of = e /\ Resolved(e) /\ e \notin errors => e \in log

\* The log holds every exact event it has to: the first of each error, which
\* nobody waits for, and all that a publisher was told is stored.
ExactLogged == FirstHighLogged /\ ResultMeansLogged

Returned == caller.pc \in {"idle", "closed", "raised"}

\* A call of flush() or close() returns or raises, whatever fails meanwhile,
\* unless a failing transaction has ended the telemetry thread: the queues
\* drain, every request is resolved and every thread that is told to stop ends.
CallReturns == caller.pc = "join" ~> Returned \/ worker.pc = "dead"
=============================================================================

------------------------------- MODULE Memory -------------------------------
(***************************************************************************)
(* What HAL remembers: the consolidation of exact events into episodes     *)
(* (sentience/memory/consolidation.py, episodes.py), which the maintenance *)
(* thread of the service runs, and the facts, corrections, commitments and *)
(* pins that Hermes asks for through the MCP server                        *)
(* (sentience/hermes/self_mcp_server.py, memory/facts.py,                  *)
(* contradictions.py, commitments.py), a process of its own on the same    *)
(* database.                                                               *)
(*                                                                         *)
(* The log of exact events is shared and append-only; each transaction is  *)
(* a step, and so is each read that a later transaction relies on.  An     *)
(* event is what the properties tell apart: its task, whether it was typed *)
(* or spoken by the user, whether it claims to be an assertion of the      *)
(* user, and the events it refers to.                                      *)
(***************************************************************************)
EXTENDS Naturals, Sequences, FiniteSetsExt

CONSTANTS Task, NoTask,
          Server,      \* processes of the MCP server
          PageSize,    \* tasks that one pass looks at (32 in the code)
          EventLimit,  \* events that one episode takes (1000 in the code)
          RefLimit,    \* references that a call may have (64 in the code)
          MaxEvent,    \* bound: exact events
          MaxBoot      \* bound: boots of HAL

ASSUME MemoryAssumption ==
  /\ NoTask \notin Task
  /\ {PageSize, EventLimit, RefLimit} \subseteq Nat \ {0}
  /\ {MaxEvent, MaxBoot} \subseteq Nat

VARIABLES
  log,       \* the exact events, by sequence number
  state,     \* the tasks: none, active, interrupted, completed
  episodes,  \* the episodes, each with the events it is evidence of
  jobs,      \* the compaction jobs on record
  pass,      \* what the maintenance thread works on
  hal,       \* off, on, or dead: it ended without closing its session
  boot,      \* boot sessions so far
  lease,     \* the boot that holds the unexpired writer lease, or 0
  server     \* the servers: their boot, and the event that a call will write

vars == <<log, state, episodes, jobs, pass, hal, boot, lease, server>>

NoPass == [at |-> "idle", page |-> {}, task |-> NoTask, events |-> {}]

Event(t, typed, user, refs) ==
  [task |-> t, typed |-> typed, user |-> user, refs |-> refs]

\* A call that is admitted has at least one reference.
NoCall == Event(NoTask, FALSE, FALSE, {})

Of(t) == {i \in DOMAIN log : log[i].task = t}

\* completed stands for cancelled too, interrupted for completed_unverified.
Ended == {t \in Task : state[t] \in {"interrupted", "completed"}}

\* One more exact event.
Record(t, typed, user, refs) ==
  /\ Len(log) < MaxEvent
  /\ log' = Append(log, Event(t, typed, user, refs))

-----------------------------------------------------------------------------
(***************************************************************************)
(* HAL: its tasks and their events, its boots.                             *)
(***************************************************************************)

BeginTask(t) ==
  /\ hal = "on" /\ state[t] = "none"
  /\ Record(t, FALSE, FALSE, {})
  /\ state' = [state EXCEPT ![t] = "active"]
  /\ UNCHANGED <<episodes, jobs, pass, hal, boot, lease, server>>

\* The prompt itself, a transaction after that of its task.
UserInput(t) ==
  /\ hal = "on" /\ state[t] # "none"
  /\ \A i \in Of(t) : ~log[i].typed
  /\ Record(t, TRUE, TRUE, {})
  /\ UNCHANGED <<state, episodes, jobs, pass, hal, boot, lease, server>>

\* An action, a checkpoint or a failure; frames may come after the end.
Observe(t) ==
  /\ hal = "on" /\ state[t] # "none"
  /\ Record(t, FALSE, FALSE, {})
  /\ UNCHANGED <<state, episodes, jobs, pass, hal, boot, lease, server>>

EndTask(t, s) ==
  /\ hal = "on" /\ state[t] \in {"active", "interrupted"}
  /\ Record(t, FALSE, FALSE, {})
  /\ state' = [state EXCEPT ![t] = s]
  /\ UNCHANGED <<episodes, jobs, pass, hal, boot, lease, server>>

\* A critical degradation asks for a checkpoint, also of an interrupted task.
RequireCheckpoint(t) ==
  /\ hal = "on" /\ state[t] = "interrupted"
  /\ state' = [state EXCEPT ![t] = "active"]
  /\ UNCHANGED <<log, episodes, jobs, pass, hal, boot, lease, server>>

Boot ==
  /\ hal # "on" /\ lease = 0 /\ boot < MaxBoot
  /\ hal' = "on" /\ boot' = boot + 1 /\ lease' = boot'
  /\ state' = IF hal = "dead"
                THEN [t \in Task |->
                        IF state[t] = "active" THEN "interrupted" ELSE state[t]]
                ELSE state
  /\ UNCHANGED <<log, episodes, jobs, pass, server>>

\* stop() joins the maintenance thread before it closes the session.
Stop ==
  /\ hal = "on" /\ pass.at = "idle"
  /\ hal' = "off" /\ lease' = 0
  /\ UNCHANGED <<log, state, episodes, jobs, pass, boot, server>>

Crash ==
  /\ hal = "on"
  /\ hal' = "dead" /\ pass' = NoPass
  /\ UNCHANGED <<log, state, episodes, jobs, boot, lease, server>>

LeaseExpires ==
  /\ hal = "dead" /\ lease # 0
  /\ lease' = 0
  /\ UNCHANGED <<log, state, episodes, jobs, pass, hal, boot, server>>

-----------------------------------------------------------------------------
(***************************************************************************)
(* Consolidation.  The watermark of a task is the last event that an       *)
(* episode of it has; jobs only record what was done.                      *)
(***************************************************************************)

\* Mutant: only completed tasks are due.
DueCompleted(page) ==
  /\ page \subseteq {t \in Task : state[t] = "completed"}
  /\ \/ page = {t \in Task : state[t] = "completed"}
     \/ Cardinality(page) = PageSize

\* Up to PageSize tasks; which of them, by updated_at, is left open.
Due(page) == page \subseteq Ended
             /\ \/ page = Ended
                \/ Cardinality(page) = PageSize

\* consolidate_due reads a page of ended tasks.
ReadPage ==
  /\ hal = "on" /\ pass.at = "idle"
  /\ \E page \in SUBSET Task :
       /\ page # {} /\ Cardinality(page) <= PageSize /\ Due(page)
       /\ pass' = [NoPass EXCEPT !.at = "page", !.page = page]
  /\ UNCHANGED <<log, state, episodes, jobs, hal, boot, lease, server>>

Watermark(t) ==
  Max({0} \cup UNION {e.events : e \in {x \in episodes : x.task = t}})

\* Mutant: the newest events of t after its watermark.
FreshNewest(t) ==
  LET after == {i \in Of(t) : i > Watermark(t)}
  IN  {i \in after : Cardinality({j \in after : j >= i}) <= EventLimit}

\* The oldest events of t after its watermark, at most EventLimit of them.
Fresh(t) ==
  LET after == {i \in Of(t) : i > Watermark(t)}
  IN  {i \in after : Cardinality({j \in after : j <= i}) <= EventLimit}

\* The task that is due next leaves the page; without work the next follows.
Finished(t) ==
  LET rest == pass.page \ {t}
  IN  IF rest = {} THEN NoPass ELSE [NoPass EXCEPT !.at = "page", !.page = rest]

\* The uniqueness of episodes and jobs: a task, a first and a last event.
Same(x, t, events) ==
  x.task = t /\ Min(x.events) = Min(events) /\ Max(x.events) = Max(events)

\* consolidate_task reads what is new; a job that is complete ends it.
ReadEvents(t) ==
  /\ hal = "on" /\ pass.at = "page" /\ t \in pass.page
  /\ LET events == Fresh(t)
         idle == events = {} \/ \E j \in jobs : Same(j, t, events)
     IN  pass' = IF idle THEN Finished(t)
                 ELSE [pass EXCEPT !.at = "create", !.task = t, !.events = events]
  /\ UNCHANGED <<log, state, episodes, jobs, hal, boot, lease, server>>

\* The episode, its evidence and its retrieval document, in one transaction.
CreateEpisode ==
  /\ hal = "on" /\ pass.at = "create"
  /\ episodes' =
       IF \E e \in episodes : Same(e, pass.task, pass.events) THEN episodes
       ELSE episodes \cup {[task |-> pass.task, events |-> pass.events]}
  /\ pass' = [pass EXCEPT !.at = "job"]
  /\ UNCHANGED <<log, state, jobs, hal, boot, lease, server>>

RecordJob ==
  /\ hal = "on" /\ pass.at = "job"
  /\ jobs' = jobs \cup {[task |-> pass.task, events |-> pass.events]}
  /\ pass' = Finished(pass.task)
  /\ UNCHANGED <<log, state, episodes, hal, boot, lease, server>>

-----------------------------------------------------------------------------
(***************************************************************************)
(* The MCP server.  A call checks the lease and its evidence on a reading  *)
(* connection and writes in a transaction that follows; HAL may end, and   *)
(* another boot begin, in between.                                         *)
(***************************************************************************)

StartServer(s) ==
  /\ server[s].call = NoCall /\ boot > 0 /\ server[s].boot # boot
  /\ server' = [server EXCEPT ![s].boot = boot]
  /\ UNCHANGED <<log, state, episodes, jobs, pass, hal, boot, lease>>

WriterLease(s) == lease # 0 /\ lease = server[s].boot

\* Among the references there is an assertion of the user.
ByUser(refs) == \E i \in refs : log[i].user

\* What the calls will write: a commitment has the authority of its evidence, a
\* fact is the model's, a correction has that of whoever it is said to be of,
\* and only the user can pin.
CommitmentEvent(i, t) == Event(t, FALSE, log[i].user, {i})
FactEvent(refs) == Event(NoTask, FALSE, FALSE, refs)
CorrectionEvent(refs, asserted) == Event(NoTask, FALSE, asserted, refs)
PinEvent(i) == Event(NoTask, FALSE, TRUE, {i})

\* A call has passed its checks and will write event.
Checked(s, event) ==
  /\ server[s].call = NoCall /\ WriterLease(s)
  /\ server' = [server EXCEPT ![s].call = event]
  /\ UNCHANGED <<log, state, episodes, jobs, pass, hal, boot, lease>>

\* The references of a fact or a correction.
Evidence == {refs \in SUBSET DOMAIN log : refs # {} /\ Cardinality(refs) <= RefLimit}

CommitmentCreate(s, i, t) == i \in DOMAIN log /\ Checked(s, CommitmentEvent(i, t))

FactPropose(s, refs) == refs \in Evidence /\ Checked(s, FactEvent(refs))

\* Mutant: a correction is taken for the user's on the word of the model.
FactCorrectOnWord(s, refs, asserted) ==
  refs \in Evidence /\ Checked(s, CorrectionEvent(refs, asserted))

FactCorrect(s, refs, asserted) ==
  /\ refs \in Evidence
  /\ asserted => ByUser(refs)
  /\ Checked(s, CorrectionEvent(refs, asserted))

UserPinEvidence(s, i) ==
  i \in DOMAIN log /\ log[i].user /\ Checked(s, PinEvent(i))

WriteCall(s) ==
  LET call == server[s].call IN
  /\ call # NoCall
  /\ Record(call.task, FALSE, call.user, call.refs)
  /\ server' = [server EXCEPT ![s].call = NoCall]
  /\ UNCHANGED <<state, episodes, jobs, pass, hal, boot, lease>>

\* The write fails, or the server ends before it; one that ended while idle
\* is one that is not called again.
DropCall(s) ==
  /\ server[s].call # NoCall
  /\ server' = [server EXCEPT ![s].call = NoCall]
  /\ UNCHANGED <<log, state, episodes, jobs, pass, hal, boot, lease>>

-----------------------------------------------------------------------------
Init ==
  /\ log = <<>> /\ state = [t \in Task |-> "none"]
  /\ episodes = {} /\ jobs = {} /\ pass = NoPass
  /\ hal = "off" /\ boot = 0 /\ lease = 0
  /\ server = [s \in Server |-> [boot |-> 0, call |-> NoCall]]

Consolidate ==
  ReadPage \/ (\E t \in Task : ReadEvents(t)) \/ CreateEpisode \/ RecordJob

Next ==
  \/ \E t \in Task : BeginTask(t) \/ UserInput(t) \/ Observe(t)
                     \/ RequireCheckpoint(t)
  \/ \E t \in Task, s \in {"interrupted", "completed"} : EndTask(t, s)
  \/ Boot \/ Stop \/ Crash \/ LeaseExpires
  \/ Consolidate
  \/ \E s \in Server : StartServer(s) \/ WriteCall(s) \/ DropCall(s)
  \/ \E s \in Server :
       \/ \E i \in DOMAIN log, t \in Task \cup {NoTask} : CommitmentCreate(s, i, t)
       \/ \E refs \in SUBSET DOMAIN log :
            FactPropose(s, refs) \/ \E asserted \in BOOLEAN : FactCorrect(s, refs, asserted)
       \/ \E i \in DOMAIN log : UserPinEvidence(s, i)

Spec == Init /\ [][Next]_vars

\* The maintenance thread runs on as long as HAL does; no task that is due
\* waits behind the others of a page for ever.
FairSpec == Spec /\ WF_vars(Consolidate)

-----------------------------------------------------------------------------
TypeOK ==
  /\ log \in Seq([task : Task \cup {NoTask}, typed : BOOLEAN, user : BOOLEAN,
                  refs : SUBSET (1..MaxEvent)])
  /\ state \in [Task -> {"none", "active", "interrupted", "completed"}]
  /\ episodes \cup jobs \subseteq [task : Task, events : SUBSET (1..MaxEvent)]
  /\ pass \in [at : {"idle", "page", "create", "job"}, page : SUBSET Task,
               task : Task \cup {NoTask}, events : SUBSET (1..MaxEvent)]
  /\ hal \in {"off", "on", "dead"} /\ boot \in 0..MaxBoot /\ lease \in 0..boot
  /\ DOMAIN server = Server /\ \A s \in Server : server[s].boot \in 0..boot

\* Whatever crash comes between reading, creating and recording, and however
\* many events arrive meanwhile: the events of a task up to its watermark
\* are each in exactly one episode, and no episode takes more than its limit
\* (the "watermark-idempotent" of the module's first line).
EpisodesPartition ==
  /\ TypeOK
  /\ jobs \subseteq episodes
  /\ \A e \in episodes : e.events # {} /\ Cardinality(e.events) <= EventLimit
  /\ \A t \in Task : \A i \in Of(t) :
       i <= Watermark(t) =>
         Cardinality({e \in episodes : e.task = t /\ i \in e.events}) = 1

\* An event of a task that has ended comes into an episode, unless HAL ends
\* or the task is opened again: no event is passed over.
Consolidated ==
  \A t \in Task, i \in 1..MaxEvent :
    (i \in DOMAIN log /\ log[i].task = t /\ t \in Ended)
      ~> \/ \E e \in episodes : e.task = t /\ i \in e.events
         \/ state[t] \in {"none", "active"} \/ hal # "on"

\* Nothing that Hermes asks for becomes an assertion of the user by itself:
\* every such event was typed or spoken, or refers to an earlier one, so going
\* back from it always ends at words of the user.
UserRooted ==
  \A i \in DOMAIN log :
    log[i].user /\ ~log[i].typed => \E j \in log[i].refs : j < i /\ log[j].user

=============================================================================

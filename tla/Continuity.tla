----------------------------- MODULE Continuity -----------------------------
(***************************************************************************)
(* Which process is HAL: the canonical lease (identity/lease.py), the boot *)
(* sessions (identity/continuity.py) and the order in which the machine    *)
(* self's start() and stop() use them (sentience/service.py).              *)
(*                                                                         *)
(* Processes share one SQLite database, whose transactions are serialised. *)
(* A process starts once; a restart is another member of Process, with an  *)
(* owner id and a boot id of its own.                                      *)
(*                                                                         *)
(* The lease runs on the wall clock.  A machine that sleeps, a thread that *)
(* is held up and a clock that is set forward look alike to it: time       *)
(* passes and the lease is not renewed.  The history variable lapsed says  *)
(* whether that has happened to a live process.                            *)
(***************************************************************************)
EXTENDS Integers, FiniteSets

CONSTANTS
  Process,    \* incarnations of the desktop process
  NoOwner,    \* no row in instance_leases
  Work,       \* tasks and consequential actions
  Ttl,        \* settings.identity.lease_ttl_seconds
  MaxClock    \* bound: the clock stops here

ASSUME ContinuityAssumption ==
  /\ NoOwner \notin Process
  /\ Ttl \in Nat \ {0, 1}      \* the constructor refuses a smaller one
  /\ MaxClock \in Nat

VARIABLES
  clock,        \* wall clock
  lapsed,       \* history: a live process has let its lease run out
  lease,        \* the row of instance_leases
  pc,           \* where each process is between start() and stop()
  held,         \* CanonicalLease.held
  maintaining,  \* the maintenance thread runs
  found,        \* start_boot has read open boot sessions
  boot,         \* boot_sessions: state of each process's session
  work,         \* state of each task or action
  by            \* history: the process that started it

bootVars == <<clock, lapsed, lease, pc, held, maintaining, found, boot, work, by>>

\* starting: holds the lease, has not read the boot sessions;
\* booting: has read them; running: the session is open and work is done;
\* stopping: threads are joined, the session is still to be closed;
\* releasing: it is closed, the lease is still held.
Writing == {"starting", "booting", "running", "stopping", "releasing"}
Phase == Writing \cup {"off", "refused", "stopped", "crashed"}

Writer == {p \in Process : pc[p] \in Writing}
OpenBoot == {p \in Process : boot[p] = "open"}

BootTypeOK ==
  /\ clock \in 0..MaxClock
  /\ lapsed \in BOOLEAN
  /\ lease \in [owner : Process \cup {NoOwner}, expires : Nat]
  /\ pc \in [Process -> Phase]
  /\ held \in [Process -> BOOLEAN]
  /\ maintaining \in [Process -> BOOLEAN]
  /\ found \in [Process -> BOOLEAN]
  /\ boot \in [Process -> {"none", "open", "superseded", "clean"}]
  /\ work \in [Work -> {"none", "running", "uncertain", "settled"}]
  /\ by \in [Work -> Process \cup {NoOwner}]

-----------------------------------------------------------------------------
(***************************************************************************)
(* CanonicalLease.                                                         *)
(***************************************************************************)

Expired == lease.owner = NoOwner \/ lease.expires <= clock

\* Mutant: any row may be taken over.
AcquireAlways(p) ==
  /\ pc[p] = "off"
  /\ lease' = [owner |-> p, expires |-> clock + Ttl]
  /\ held' = [held EXCEPT ![p] = TRUE]
  /\ pc' = [pc EXCEPT ![p] = "starting"]
  /\ UNCHANGED <<clock, lapsed, maintaining, found, boot, work, by>>

Acquire(p) ==
  /\ pc[p] = "off" /\ Expired
  /\ lease' = [owner |-> p, expires |-> clock + Ttl]
  /\ held' = [held EXCEPT ![p] = TRUE]
  /\ pc' = [pc EXCEPT ![p] = "starting"]
  /\ UNCHANGED <<clock, lapsed, maintaining, found, boot, work, by>>

\* LeaseConflict: start() closes the database and gives up.
Conflict(p) ==
  /\ pc[p] = "off" /\ ~Expired
  /\ pc' = [pc EXCEPT ![p] = "refused"]
  /\ UNCHANGED <<clock, lapsed, lease, held, maintaining, found, boot, work, by>>

\* Renewal by the maintenance thread.  A row of another owner ends that
\* thread and nothing else: the process goes on.
Renew(p) ==
  /\ pc[p] = "running" /\ maintaining[p]
  /\ \/ /\ lease.owner = p
        /\ lease' = [lease EXCEPT !.expires = clock + Ttl]
        /\ held' = [held EXCEPT ![p] = TRUE]
        /\ UNCHANGED maintaining
     \/ /\ lease.owner # p
        /\ held' = [held EXCEPT ![p] = FALSE]
        /\ maintaining' = [maintaining EXCEPT ![p] = FALSE]
        /\ UNCHANGED lease
  /\ UNCHANGED <<clock, lapsed, pc, found, boot, work, by>>

-----------------------------------------------------------------------------
(***************************************************************************)
(* ContinuityService.start_boot: it reads the open sessions on one         *)
(* connection and decides by what it read in a later transaction.          *)
(***************************************************************************)

ReadOpenBoots(p) ==
  /\ pc[p] = "starting"
  /\ found' = [found EXCEPT ![p] = OpenBoot # {}]
  /\ pc' = [pc EXCEPT ![p] = "booting"]
  /\ UNCHANGED <<clock, lapsed, lease, held, maintaining, boot, work, by>>

Superseded(q) == IF boot[q] = "open" THEN "superseded" ELSE boot[q]

\* Mutant: the sessions of dead processes are closed, their work is not.
StartBootLeavingWork(p) ==
  /\ pc[p] = "booting"
  /\ boot' = [q \in Process |-> IF q = p THEN "open"
                                ELSE IF found[p] THEN Superseded(q) ELSE boot[q]]
  /\ pc' = [pc EXCEPT ![p] = "running"]
  /\ maintaining' = [maintaining EXCEPT ![p] = TRUE]
  /\ UNCHANGED <<clock, lapsed, lease, held, found, work, by>>

\* Mutant: open sessions are only reported.
StartBootBeside(p) ==
  /\ pc[p] = "booting"
  /\ boot' = [boot EXCEPT ![p] = "open"]
  /\ work' = [w \in Work |-> IF found[p] /\ work[w] = "running" THEN "uncertain"
                             ELSE work[w]]
  /\ pc' = [pc EXCEPT ![p] = "running"]
  /\ maintaining' = [maintaining EXCEPT ![p] = TRUE]
  /\ UNCHANGED <<clock, lapsed, lease, held, found, by>>

StartBoot(p) ==
  /\ pc[p] = "booting"
  /\ boot' = [q \in Process |-> IF q = p THEN "open"
                                ELSE IF found[p] THEN Superseded(q) ELSE boot[q]]
  /\ work' = [w \in Work |-> IF found[p] /\ work[w] = "running" THEN "uncertain"
                             ELSE work[w]]
  /\ pc' = [pc EXCEPT ![p] = "running"]
  /\ maintaining' = [maintaining EXCEPT ![p] = TRUE]
  /\ UNCHANGED <<clock, lapsed, lease, held, found, by>>

-----------------------------------------------------------------------------
(***************************************************************************)
(* Work, and the end of a process.                                         *)
(***************************************************************************)

StartWork(p, w) ==
  /\ pc[p] = "running" /\ work[w] = "none"
  /\ work' = [work EXCEPT ![w] = "running"]
  /\ by' = [by EXCEPT ![w] = p]
  /\ UNCHANGED <<clock, lapsed, lease, pc, held, maintaining, found, boot>>

\* Mutant: the outcome is stored as it is reported.
FinishWorkVerbatim(p, w) ==
  /\ pc[p] = "running" /\ work[w] \in {"running", "uncertain"}
  /\ work' = [work EXCEPT ![w] = "success"]
  /\ UNCHANGED <<clock, lapsed, lease, pc, held, maintaining, found, boot, by>>

\* A late result also settles work that a boot made uncertain.
FinishWork(p, w) ==
  /\ pc[p] = "running" /\ work[w] \in {"running", "uncertain"}
  /\ work' = [work EXCEPT ![w] = "settled"]
  /\ UNCHANGED <<clock, lapsed, lease, pc, held, maintaining, found, boot, by>>

\* stop() joins the maintenance thread and shuts the executor down first.
BeginStop(p) ==
  /\ pc[p] = "running"
  /\ maintaining' = [maintaining EXCEPT ![p] = FALSE]
  /\ pc' = [pc EXCEPT ![p] = "stopping"]
  /\ UNCHANGED <<clock, lapsed, lease, held, found, boot, work, by>>

\* finish_boot leaves a session alone that another process has superseded.
FinishBoot(p) ==
  /\ pc[p] = "stopping"
  /\ boot' = [boot EXCEPT ![p] = IF @ = "open" THEN "clean" ELSE @]
  /\ pc' = [pc EXCEPT ![p] = "releasing"]
  /\ UNCHANGED <<clock, lapsed, lease, held, maintaining, found, work, by>>

\* Mutant: the row is deleted whoever owns it.
ReleaseAny(p) ==
  /\ pc[p] = "releasing"
  /\ lease' = [lease EXCEPT !.owner = NoOwner]
  /\ held' = [held EXCEPT ![p] = FALSE]
  /\ pc' = [pc EXCEPT ![p] = "stopped"]
  /\ UNCHANGED <<clock, lapsed, maintaining, found, boot, work, by>>

Release(p) ==
  /\ pc[p] = "releasing"
  /\ lease' = IF lease.owner = p THEN [lease EXCEPT !.owner = NoOwner] ELSE lease
  /\ held' = [held EXCEPT ![p] = FALSE]
  /\ pc' = [pc EXCEPT ![p] = "stopped"]
  /\ UNCHANGED <<clock, lapsed, maintaining, found, boot, work, by>>

Crash(p) ==
  /\ pc[p] \in Writing
  /\ pc' = [pc EXCEPT ![p] = "crashed"]
  /\ maintaining' = [maintaining EXCEPT ![p] = FALSE]
  /\ held' = [held EXCEPT ![p] = FALSE]
  /\ UNCHANGED <<clock, lapsed, lease, found, boot, work, by>>

\* The next second is the last of the lease of a live process.
RunsOut == lease.owner \in Writer /\ lease.expires <= clock + 1

Tick ==
  /\ clock < MaxClock
  /\ clock' = clock + 1
  /\ lapsed' = (lapsed \/ RunsOut)
  /\ UNCHANGED <<lease, pc, held, maintaining, found, boot, work, by>>

-----------------------------------------------------------------------------

BootInit ==
  /\ clock = 0 /\ lapsed = FALSE
  /\ lease = [owner |-> NoOwner, expires |-> 0]
  /\ pc = [p \in Process |-> "off"]
  /\ held = [p \in Process |-> FALSE]
  /\ maintaining = [p \in Process |-> FALSE]
  /\ found = [p \in Process |-> FALSE]
  /\ boot = [p \in Process |-> "none"]
  /\ work = [w \in Work |-> "none"]
  /\ by = [w \in Work |-> NoOwner]

ProcessStep(p) ==
  \/ Acquire(p) \/ Conflict(p) \/ Renew(p) \/ ReadOpenBoots(p) \/ StartBoot(p)
  \/ BeginStop(p) \/ FinishBoot(p) \/ Release(p) \/ Crash(p)
  \/ \E w \in Work : StartWork(p, w) \/ FinishWork(p, w)

BootNext == Tick \/ \E p \in Process : ProcessStep(p)

BootSpec == BootInit /\ [][BootNext]_bootVars

-----------------------------------------------------------------------------
(***************************************************************************)
(* Properties.                                                             *)
(***************************************************************************)

SingleWriter == \A p, q \in Writer : p = q

\* As long as no live process lets its lease run out, no two processes write to
\* the database at a time, whatever crashes and restarts there were (acquire,
\* renew, release).
OneWriter == ~lapsed => SingleWriter

\* As long as no live process lets its lease run out, at most one boot session
\* is open, although start_boot decides by an earlier read whether to close the
\* others.
OneOpenBoot == ~lapsed => \A p, q \in OpenBoot : p = q

\* Under the same condition, work of a session that another boot found open and
\* closed is not left running: start_boot makes it uncertain with the session.
SupersededWorkUncertain ==
  ~lapsed => \A w \in Work : work[w] = "running" => boot[by[w]] # "superseded"

\* A lease that has not run out changes hands only when its owner releases it:
\* neither the renewal nor the release of a process that lost its lease long
\* ago touches the row of its successor.
UnexpiredLeaseKept ==
  [][lease.owner # NoOwner /\ clock < lease.expires =>
       \/ lease'.owner = lease.owner
       \/ lease'.owner = NoOwner /\ pc[lease.owner] = "releasing"]_bootVars
=============================================================================

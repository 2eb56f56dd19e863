------------------------------- MODULE Storage -------------------------------
(***************************************************************************)
(* Evidence and recovery points: the blob store                            *)
(* (sentience/storage/blob_store.py), the backups of the database and      *)
(* their restore (storage/database.py), the eviction of backups            *)
(* (storage/retention.py) and the two processes that work on them, HAL and *)
(* the command line tool hal-self (sentience/cli.py).                      *)
(*                                                                         *)
(* Files and rows are changed by separate steps, and the tool asks for the *)
(* writer lease only when it restores, so each step of a process is an     *)
(* action.  The content of a database is what the properties tell apart:   *)
(* which blobs have a row, which rows are marked missing, which blobs an   *)
(* exact record refers to.  Backups are numbered by age.                   *)
(*                                                                         *)
(* Every caller of put pins its blob, so retention never finds a blob to   *)
(* delete; only its eviction of backups is modelled.                       *)
(***************************************************************************)
EXTENDS Naturals, FiniteSets

CONSTANTS Blob,        \* contents of evidence, by digest
          NoBlob,
          Keep,        \* backups that retention spares (3 in the code)
          MaxBackup,   \* bound: backups ever begun
          MaxTrouble   \* bound: crashes, failed checks, lost files

Ids == 1..MaxBackup
Maintainer == {"hal", "tool"}

ASSUME StorageAssumption ==
  NoBlob \notin Blob /\ {Keep, MaxBackup, MaxTrouble} \subseteq Nat

VARIABLES
  db,       \* the live database: content, or torn
  files,    \* blobs whose file is in place
  temps,    \* blobs with a temporary file
  backup,   \* the backups: none, partial, ok or gone, and their content
  made,     \* backups begun so far
  hal,      \* off, on, or detached: on, with a database that was replaced
  leased,   \* HAL's writer lease has not expired
  job,      \* the put that HAL's executor works on
  reading,  \* the get that HAL works on
  tool,     \* what hal-self works on
  plan,     \* the backups that a retention run will still delete
  left,     \* what the bound still allows
  exposed,  \* history: blobs whose file was lost, or swept away beneath a row
  slipped,  \* history: HAL was started while a restore was under way
  before,   \* history: the content that the last restore replaced
  undone    \* history: backups begun and not finished

disk == <<db, files, temps, backup, made>>
history == <<exposed, slipped, before, undone>>
vars == <<disk, hal, leased, job, reading, tool, plan, left, history>>

Content == [rows : SUBSET Blob, missing : SUBSET Blob, refs : SUBSET Blob]
Empty == [rows |-> {}, missing |-> {}, refs |-> {}]

NoJob == [at |-> "idle", blob |-> NoBlob]
NoRead == [blob |-> NoBlob, found |-> FALSE]
\* Every field of an idle tool has its initial value.
NoTool == [at |-> "idle", old |-> 0, new |-> 0, sweep |-> FALSE, start |-> {},
           seen |-> {}, doomed |-> NoBlob, listed |-> {}, absent |-> {},
           crossed |-> FALSE]

Backups == {i \in Ids : backup[i].state \in {"partial", "ok"}}
Valid == {i \in Ids : backup[i].state = "ok"}

Rows == db.content.rows

Trouble == left > 0 /\ left' = left - 1

-----------------------------------------------------------------------------
(***************************************************************************)
(* put and get, in HAL: put writes the file first, then the row, then its  *)
(* caller writes the exact record that refers to it.                       *)
(***************************************************************************)

\* What a step of put or get leaves alone, apart from the disk.
InHal == UNCHANGED <<hal, leased, plan, left, slipped, before, undone>>

\* The report of an integrity run that this step comes into is not exact.
Crosses == tool' = [tool EXCEPT !.crossed = @ \/ tool.at \in {"list", "mark", "reported"}]

\* What a transaction of HAL does to the live database.
Commit(content) == db' = IF hal = "on" THEN [db EXCEPT !.content = content] ELSE db

\* A file that exists already is not written again.
PutLook(b) ==
  /\ hal # "off" /\ job.at = "idle"
  /\ job' = [at |-> IF b \in files THEN "row" ELSE "write", blob |-> b]
  /\ UNCHANGED <<disk, reading, tool, exposed>> /\ InHal

PutWrite ==
  /\ job.at = "write"
  /\ temps' = temps \cup {job.blob}
  /\ job' = [job EXCEPT !.at = "replace"]
  /\ UNCHANGED <<db, files, backup, made, reading, tool, exposed>> /\ InHal

\* Mutant: the error of os.replace is passed over.
PutReplaceAnyway ==
  /\ job.at = "replace"
  /\ temps' = temps \ {job.blob}
  /\ files' = files \cup (temps \cap {job.blob}) /\ exposed' = exposed \ (temps \cap {job.blob})
  /\ job' = [job EXCEPT !.at = "row"]
  /\ Crosses
  /\ UNCHANGED <<db, backup, made, reading>> /\ InHal
\* os.replace; if the temporary file was swept away it raises.
PutReplace ==
  /\ job.at = "replace"
  /\ temps' = temps \ {job.blob}
  /\ \/ /\ job.blob \in temps
        /\ files' = files \cup {job.blob} /\ exposed' = exposed \ {job.blob}
        /\ job' = [job EXCEPT !.at = "row"]
     \/ job.blob \notin temps /\ job' = NoJob /\ UNCHANGED <<files, exposed>>
  /\ Crosses
  /\ UNCHANGED <<db, backup, made, reading>> /\ InHal

PutRow ==
  /\ job.at = "row"
  /\ Commit([db.content EXCEPT !.rows = @ \cup {job.blob}, !.missing = @ \ {job.blob}])
  /\ job' = [job EXCEPT !.at = "refer"]
  /\ Crosses
  /\ UNCHANGED <<files, temps, backup, made, reading, exposed>> /\ InHal

\* finish_action, or the event of the run: a transaction of its own.
Refer ==
  /\ job.at = "refer"
  /\ Commit([db.content EXCEPT !.refs = @ \cup {job.blob}])
  /\ job' = NoJob
  /\ UNCHANGED <<files, temps, backup, made, reading, tool, exposed>> /\ InHal

\* get: the row and the file are read, and the row is marked in a transaction
\* of its own.
GetRead(b) ==
  /\ hal = "on" /\ reading = NoRead /\ b \in Rows
  /\ reading' = [blob |-> b, found |-> b \in files]
  /\ UNCHANGED <<disk, job, tool, exposed>> /\ InHal

GetMark ==
  /\ reading # NoRead
  /\ Commit([db.content EXCEPT !.missing =
       IF reading.found THEN @ \ {reading.blob} ELSE @ \cup ({reading.blob} \cap Rows)])
  /\ reading' = NoRead
  /\ Crosses
  /\ UNCHANGED <<files, temps, backup, made, job, exposed>> /\ InHal

-----------------------------------------------------------------------------
(***************************************************************************)
(* Retention, in HAL's maintenance thread and in hal-self: the backups     *)
(* that are not among the newest are listed, then deleted one by one.      *)
(***************************************************************************)

InRetention == UNCHANGED <<db, files, temps, made, hal, leased, job, reading, left, history>>

Runs(m) == IF m = "hal" THEN hal # "off" ELSE tool.at = "open"

\* Mutant: one newest backup too few is spared.
OptionalMore == {i \in Backups : Cardinality({k \in Backups : k > i}) + 1 >= Keep}
\* backups[3:], newest first; a backup still being written counts.
Optional == {i \in Backups : Cardinality({k \in Backups : k > i}) >= Keep}

PlanRetention(m) ==
  /\ Runs(m) /\ plan[m] = {}
  /\ Optional # {} /\ plan' = [plan EXCEPT ![m] = Optional]
  /\ UNCHANGED <<backup, tool>> /\ InRetention

\* The tombstone, then unlink; a file that is gone already is passed over, and
\* one that is being copied can still be read.
Evict(m, i) ==
  /\ i \in plan[m]
  /\ backup' = [backup EXCEPT ![i] =
       [state |-> "gone", content |-> IF i = tool.new THEN @.content ELSE Empty]]
  /\ plan' = [plan EXCEPT ![m] = @ \ {i}]
  /\ UNCHANGED tool /\ InRetention

-----------------------------------------------------------------------------
(***************************************************************************)
(* hal-self: one command at a time.                                        *)
(***************************************************************************)

\* What a step of the tool leaves alone, apart from the disk.
InTool == UNCHANGED <<hal, job, reading, plan, slipped>>

\* The command opens the database, or fails.
ToolStarts ==
  /\ tool.at = "idle" /\ db.good
  /\ tool' = [tool EXCEPT !.at = "open"]
  /\ UNCHANGED <<disk, leased, left, exposed, before, undone>> /\ InTool

\* A command that changes nothing, or has nothing left to do.
ToolEnds ==
  /\ tool.at \in {"open", "reported"} /\ plan["tool"] = {}
  /\ tool' = NoTool
  /\ UNCHANGED <<disk, leased, left, exposed, before, undone>> /\ InTool

(* hal-self integrity: reconcile, with or without --delete-orphans.         *)

InSweep == /\ UNCHANGED <<backup, made, leased, left, before, undone>> /\ InTool

Integrity(delete) ==
  /\ tool.at = "open" /\ plan["tool"] = {}
  /\ tool' = [tool EXCEPT !.at = "sweep", !.sweep = delete, !.start = files]
  /\ UNCHANGED <<db, files, temps, exposed>> /\ InSweep

\* The walk meets a file and asks for its row.
SweepLook(b) ==
  /\ tool.at = "sweep" /\ tool.doomed = NoBlob
  /\ b \in files \ tool.seen
  /\ tool' = [tool EXCEPT !.seen = @ \cup {b},
                          !.doomed = IF tool.sweep /\ b \notin Rows THEN b ELSE NoBlob]
  /\ UNCHANGED <<db, files, temps, exposed>> /\ InSweep

\* A backup, the live database or a put in progress relies on the file.
ReliedOn(b) == b \in Rows \/ (job.blob = b /\ job.at = "row")
               \/ \E i \in Valid : b \in backup[i].content.rows

SweepDelete(b) ==
  /\ tool.at = "sweep" /\ tool.doomed = b
  /\ files' = files \ {b}
  /\ exposed' = IF b \in files /\ ReliedOn(b) THEN exposed \cup {b} ELSE exposed
  /\ tool' = [tool EXCEPT !.doomed = NoBlob]
  /\ UNCHANGED <<db, temps>> /\ InSweep

\* A temporary file has no row, whoever is still writing it.
SweepTemp(b) ==
  /\ tool.at = "sweep" /\ tool.sweep /\ tool.doomed = NoBlob
  /\ b \in temps
  /\ temps' = temps \ {b}
  /\ UNCHANGED <<db, files, exposed, tool>> /\ InSweep

\* The walk is over when it met what was there from the start; then the rows
\* are listed, and the files of the list are looked up.
SweepEnd ==
  /\ tool.at = "sweep" /\ tool.doomed = NoBlob
  /\ tool.start \cap files \subseteq tool.seen
  /\ tool' = [tool EXCEPT !.at = "list", !.listed = Rows, !.start = {}, !.seen = {}]
  /\ UNCHANGED <<db, files, temps, exposed>> /\ InSweep

LookUp ==
  /\ tool.at = "list"
  /\ tool' = [tool EXCEPT !.at = "mark", !.absent = tool.listed \ files, !.listed = {}]
  /\ UNCHANGED <<db, files, temps, exposed>> /\ InSweep

\* Mutant: the marks of an earlier run stay.
MarkMissingMore ==
  /\ tool.at = "mark"
  /\ db' = [db EXCEPT !.content.missing = (@ \cup tool.absent) \cap Rows]
  /\ tool' = [tool EXCEPT !.at = "reported", !.absent = {}]
  /\ UNCHANGED <<files, temps, exposed>> /\ InSweep
MarkMissing ==
  /\ tool.at = "mark"
  /\ db' = [db EXCEPT !.content.missing = tool.absent \cap Rows]
  /\ tool' = [tool EXCEPT !.at = "reported", !.absent = {}]
  /\ UNCHANGED <<files, temps, exposed>> /\ InSweep

(* hal-self backup, and the rollback copy that restore makes.               *)

Begin(i) == backup' = [backup EXCEPT ![i].state = "partial"] /\ made' = i

InBackup == UNCHANGED <<db, files, temps, leased, exposed>> /\ InTool

BackupBegins ==
  /\ tool.at = "open" /\ plan["tool"] = {} /\ made < MaxBackup
  /\ Begin(made + 1)
  /\ tool' = [tool EXCEPT !.at = "copying", !.new = made + 1]
  /\ UNCHANGED <<left, before, undone>> /\ InBackup

\* restore_backup of i: no live lease, a backup that passes its check, and
\* the rollback copy of what is there now.
RestoreBegins(i) ==
  /\ tool.at = "open" /\ plan["tool"] = {} /\ made < MaxBackup
  /\ ~leased /\ i \in Valid
  /\ Begin(made + 1)
  /\ tool' = [tool EXCEPT !.at = "copying", !.old = i, !.new = made + 1]
  /\ UNCHANGED <<left, before, undone>> /\ InBackup

\* create_backup copies the live database as it is when the copy ends.
BackupDone ==
  /\ tool.at = "copying"
  /\ backup' = [backup EXCEPT ![tool.new] =
       IF @.state = "partial" THEN [state |-> "ok", content |-> db.content] ELSE @]
  /\ tool' = IF tool.old = 0 THEN NoTool ELSE [tool EXCEPT !.at = "replacing"]
  /\ before' = IF tool.old = 0 THEN before ELSE db.content
  /\ UNCHANGED <<made, left, undone>> /\ InBackup

\* A copy that fails its check is deleted, and nothing else happens.
BackupFails ==
  /\ tool.at = "copying" /\ Trouble
  /\ backup' = [backup EXCEPT ![tool.new].state = "gone"]
  /\ tool' = NoTool /\ undone' = undone + 1
  /\ UNCHANGED <<made, before>> /\ InBackup

-----------------------------------------------------------------------------
(***************************************************************************)
(* hal-self restore, after its rollback copy.                              *)
(***************************************************************************)

InRestore == UNCHANGED <<files, temps, backup, made, job, reading, plan, exposed, undone>>

\* The tool is done; what the restore replaced matters only beside a torn one.
Done == tool' = NoTool /\ before' = IF db'.good THEN Empty ELSE before

\* A process that has the database open goes on with the file that was
\* replaced; the lease row is the one of the backup, which is long expired.
Becomes(new) ==
  /\ db' = new
  /\ hal' = IF hal = "on" THEN "detached" ELSE hal
  /\ leased' = FALSE

\* copy2 to a temporary file, fsync and os.replace.
Replace ==
  /\ tool.at = "replacing" /\ tool.old \in Valid
  /\ Becomes([good |-> TRUE, content |-> backup[tool.old].content])
  /\ tool' = [tool EXCEPT !.at = "reopening"]
  /\ UNCHANGED <<left, slipped, before>> /\ InRestore

Reopen ==
  /\ tool.at = "reopening"
  /\ UNCHANGED <<db, hal, leased, left, slipped>> /\ Done /\ InRestore

\* Mutant: the rollback copy is moved, not copied.
RollBackMoves ==
  /\ \/ tool.at = "replacing" /\ tool.old \notin Valid /\ UNCHANGED left
     \/ tool.at = "reopening" /\ Trouble
  /\ Becomes([good |-> FALSE, content |-> Empty])
  /\ tool' = [tool EXCEPT !.at = "rolling"]
  /\ backup' = [backup EXCEPT ![tool.new].state = "gone"]
  /\ UNCHANGED <<files, temps, made, job, reading, plan, exposed, undone, slipped, before>>
\* The backup was evicted before it was copied, or the replaced database does
\* not migrate or fails its check: the rollback copy is written over it.
RollBack ==
  /\ \/ tool.at = "replacing" /\ tool.old \notin Valid /\ UNCHANGED left
     \/ tool.at = "reopening" /\ Trouble
  /\ IF tool.new \in Valid
     THEN /\ Becomes([good |-> FALSE, content |-> Empty])
          /\ tool' = [tool EXCEPT !.at = "rolling"] /\ UNCHANGED before
     ELSE UNCHANGED <<db, hal, leased>> /\ Done
  /\ UNCHANGED slipped /\ InRestore

RolledBack ==
  /\ tool.at = "rolling"
  /\ db' = [good |-> TRUE, content |-> backup[tool.new].content]
  /\ UNCHANGED <<hal, leased, left, slipped>> /\ Done /\ InRestore

-----------------------------------------------------------------------------
(***************************************************************************)
(* HAL starts, stops and crashes; hal-self crashes; a file is lost.        *)
(***************************************************************************)

Restoring == tool.at \in {"copying", "replacing", "reopening", "rolling"} /\ tool.old # 0

InLife == UNCHANGED <<db, files, temps, made, reading>>

HalStarts ==
  /\ hal = "off" /\ db.good /\ ~leased
  /\ hal' = "on" /\ leased' = TRUE
  /\ slipped' = (slipped \/ Restoring)
  /\ UNCHANGED <<backup, job, tool, plan, left, exposed, before, undone>> /\ InLife

\* stop waits for the executor and releases the lease.
HalStops ==
  /\ hal # "off" /\ job = NoJob /\ reading = NoRead
  /\ hal' = "off" /\ leased' = (leased /\ hal = "detached")
  /\ plan' = [plan EXCEPT !["hal"] = {}]
  /\ UNCHANGED <<backup, job, tool, left, slipped, exposed, before, undone>> /\ InLife

HalCrashes ==
  /\ hal # "off" /\ Trouble
  /\ hal' = "off" /\ job' = NoJob /\ reading' = NoRead
  /\ plan' = [plan EXCEPT !["hal"] = {}]
  /\ UNCHANGED <<disk, leased, tool, history>>

\* HAL renews its lease in time while it runs.
LeaseLapses ==
  /\ leased /\ hal # "on"
  /\ leased' = FALSE
  /\ UNCHANGED <<backup, hal, job, tool, plan, left, slipped, exposed, before, undone>> /\ InLife

ToolCrashes ==
  /\ tool.at # "idle" /\ Trouble
  /\ plan' = [plan EXCEPT !["tool"] = {}]
  /\ undone' = undone + (IF tool.at = "copying" THEN 1 ELSE 0)
  /\ UNCHANGED <<backup, hal, leased, job, slipped, exposed>> /\ InLife /\ Done

LoseFile(b) ==
  /\ b \in files /\ Trouble
  /\ files' = files \ {b} /\ exposed' = exposed \cup {b}
  /\ Crosses
  /\ UNCHANGED <<db, temps, backup, made, hal, leased, job, reading, plan, slipped, before, undone>>

-----------------------------------------------------------------------------
Init ==
  /\ db = [good |-> TRUE, content |-> Empty]
  /\ files = {} /\ temps = {}
  /\ backup = [i \in Ids |-> [state |-> "none", content |-> Empty]] /\ made = 0
  /\ hal = "off" /\ leased = FALSE /\ job = NoJob /\ reading = NoRead
  /\ tool = NoTool /\ plan = [m \in Maintainer |-> {}]
  /\ left = MaxTrouble
  /\ exposed = {} /\ slipped = FALSE /\ before = Empty /\ undone = 0

HalNext ==
  \/ \E b \in Blob : PutLook(b) \/ GetRead(b)
  \/ PutWrite \/ PutReplace \/ PutRow \/ Refer \/ GetMark
  \/ HalStarts \/ HalStops \/ HalCrashes \/ LeaseLapses

ToolNext ==
  \/ ToolStarts \/ ToolEnds \/ ToolCrashes
  \/ (\E delete \in BOOLEAN : Integrity(delete))
  \/ (\E b \in Blob : SweepLook(b) \/ SweepDelete(b) \/ SweepTemp(b))
  \/ SweepEnd \/ LookUp \/ MarkMissing
  \/ BackupBegins \/ BackupDone \/ BackupFails
  \/ (\E i \in Ids : RestoreBegins(i)) \/ Replace \/ Reopen \/ RollBack \/ RolledBack

Next ==
  \/ HalNext \/ ToolNext
  \/ \E m \in Maintainer : PlanRetention(m) \/ \E i \in Ids : Evict(m, i)
  \/ \E b \in Blob : LoseFile(b)

Spec == Init /\ [][Next]_vars

-----------------------------------------------------------------------------
(***************************************************************************)
(* Properties.                                                             *)
(***************************************************************************)

Steps == {"idle", "open", "sweep", "list", "mark", "reported", "copying",
          "replacing", "reopening", "rolling"}

TypeOK ==
  /\ db \in [good : BOOLEAN, content : Content]
  /\ files \subseteq Blob /\ temps \subseteq Blob
  /\ backup \in [Ids -> [state : {"none", "partial", "ok", "gone"}, content : Content]]
  /\ made \in 0..MaxBackup /\ \A i \in Ids : i > made <=> backup[i].state = "none"
  /\ hal \in {"off", "on", "detached"} /\ leased \in BOOLEAN
  /\ job \in [at : {"idle", "write", "replace", "row", "refer"}, blob : Blob \cup {NoBlob}]
  /\ reading \in [blob : Blob \cup {NoBlob}, found : BOOLEAN]
  /\ tool.at \in Steps /\ tool.old \in 0..MaxBackup /\ tool.new \in 0..MaxBackup
  /\ plan \in [Maintainer -> SUBSET Ids]
  /\ left \in 0..MaxTrouble

\* What an exact record refers to has a row, and a row has its file, whatever
\* crashes, restores and sweeps came between, unless the disk lost the file or
\* an orphan sweep took it while a put, a row or a backup relied on it.
EvidenceReadable ==
  /\ db.content.refs \subseteq Rows
  /\ \A b \in Rows : b \in files \/ b \in exposed

\* After an integrity run that no put, get or lost file came into, the rows
\* marked missing are the rows without a file (reconcile).
IntegrityExact ==
  TypeOK /\ (tool.at = "reported" /\ ~tool.crossed
               => db.content.missing = Rows \ files)

\* A restore never leaves HAL without a database: while the live one is torn,
\* a valid backup holds what the restore replaced.  Holds as long as HAL was
\* not started during a restore.
Recoverable ==
  ~db.good /\ ~slipped => \E i \in Valid : backup[i].content = before

\* A restore is safe at each of its steps: HAL can recover after it, and when
\* the content of the live database goes back nothing that HAL has committed is
\* lost, since a valid backup holds it (restore_backup).
RestoreSafe ==
  [][/\ Recoverable'
     /\ ~slipped' /\ db.good /\ ~(Rows \cup db.content.refs \subseteq
                       db'.content.rows \cup db'.content.refs)
          => \E i \in Valid : backup'[i].content = db.content]_vars

\* Eviction leaves the newest recovery points, whatever the runs of retention
\* and hal-self that overlap: Keep valid backups are left, less one for each
\* backup that was begun and is not, or never became, valid (plan counts it).
RecoveryPoints ==
  [][\A i \in Valid : backup'[i].state = "gone" =>
       Cardinality({k \in Ids : backup'[k].state = "ok"}) + undone'
         + (IF tool'.at = "copying" THEN 1 ELSE 0) >= Keep]_vars
=============================================================================

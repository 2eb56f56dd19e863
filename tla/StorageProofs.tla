---------------------------- MODULE StorageProofs ----------------------------
(***************************************************************************)
(* Proofs about Storage: type correctness, that what a record refers to    *)
(* can be read, that an integrity run reports what is there, that a        *)
(* restore loses nothing at any of its steps, and that retention leaves    *)
(* recovery points.  And about Continuity, the lease and the boot sessions *)
(* that let one process at a time write that database, for any set of      *)
(* processes and work and any time to live.                                *)
(*                                                                         *)
(* No lock is held over the steps of a put, a restore or an eviction.      *)
(* Evidence rests on the order in which put and restore write; a restore   *)
(* on that nobody else can change the database or the backups while HAL is *)
(* off (Copied); eviction on that a backup which may be deleted has Keep   *)
(* younger ones, whatever became of them (Points).                         *)
(***************************************************************************)
EXTENDS Storage, Continuity, FiniteSetTheorems, TLAPS

Copying == IF tool.at = "copying" THEN 1 ELSE 0

DbSet == [good : BOOLEAN, content : Content]
BackupSet == [state : {"none", "partial", "ok", "gone"}, content : Content]
JobSet == [at : {"idle", "write", "replace", "row", "refer"}, blob : Blob \cup {NoBlob}]
ReadSet == [blob : Blob \cup {NoBlob}, found : BOOLEAN]
ToolSet == [at : Steps, old : 0..MaxBackup, new : 0..MaxBackup, sweep : BOOLEAN,
            start : SUBSET Blob, seen : SUBSET Blob, doomed : Blob \cup {NoBlob},
            listed : SUBSET Blob, absent : SUBSET Blob, crossed : BOOLEAN]

Typed ==
  /\ db \in DbSet /\ files \subseteq Blob /\ temps \subseteq Blob
  /\ backup \in [Ids -> BackupSet]
  /\ made \in 0..MaxBackup /\ \A i \in Ids : i > made <=> backup[i].state = "none"
  /\ hal \in {"off", "on", "detached"} /\ leased \in BOOLEAN
  /\ job \in JobSet /\ (job.at # "idle" => job.blob \in Blob)
  /\ reading \in ReadSet /\ tool \in ToolSet
  /\ plan \in [Maintainer -> SUBSET Ids] /\ left \in 0..MaxTrouble
  /\ exposed \subseteq Blob /\ slipped \in BOOLEAN /\ before \in Content /\ undone \in Nat

\* Who works when: a process that is off works on nothing, the tool evicts only
\* in its retention command, and a torn database is open nowhere.
Quiet ==
  /\ hal = "off" => job.at = "idle" /\ reading = NoRead /\ plan["hal"] = {}
  /\ tool.at # "open" => plan["tool"] = {}
  /\ hal = "on" => leased /\ db.good
  /\ ~db.good => tool.at \in {"idle", "rolling"} /\ db.content = Empty
  /\ tool.at = "rolling" => ~db.good /\ tool.new \in Ids
  /\ tool.at = "copying" => tool.new = made /\ made # 0 /\ backup[tool.new].state # "ok"
  /\ tool.old # 0 => Restoring
  /\ tool.at \in {"replacing", "reopening", "rolling"} => tool.old # 0

\* A content whose records have rows, and whose rows have files.
Sound(c) == c.refs \subseteq c.rows /\ c.rows \subseteq files \cup exposed
Evidence ==
  /\ Sound(db.content)
  /\ \A i \in Valid : Sound(backup[i].content)
  /\ tool.at = "rolling" => Sound(backup[tool.new].content)
  /\ job.at = "row" => job.blob \in files \cup exposed
  /\ hal = "on" /\ job.at = "refer" => job.blob \in Rows

\* What an integrity run has found so far is so, unless something came into it.
Report ==
  ~tool.crossed =>
    /\ tool.at = "list" => tool.listed = Rows
    /\ tool.at = "mark" => tool.absent = Rows \ files
    /\ tool.at = "reported" => db.content.missing = Rows \ files

\* While a restore is under way, and after one that tore the database, HAL is
\* off, unless it slipped in.  So nobody evicts a backup or changes the database.
Copied ==
  ~slipped =>
    /\ hal # "detached"
    /\ Restoring \/ ~db.good => hal = "off"
    /\ Restoring /\ tool.at = "copying" => backup[tool.new].state = "partial"
    /\ tool.at \in {"replacing", "reopening", "rolling"} =>
         tool.new \in Valid /\ backup[tool.new].content = before
    /\ tool.at = "replacing" => db.content = before
    /\ tool.at = "reopening" => tool.old \in Valid /\ db.content = backup[tool.old].content
    /\ ~db.good => \E i \in Valid : backup[i].content = before

\* Of the backups after the last that was evicted, as many as were begun in
\* vain are not valid.
Spoiled(m) == {k \in (m + 1)..made : backup[k].state # "ok"}
Spared(m) ==
  /\ m = 0 \/ m + Keep <= made
  /\ Cardinality(Spoiled(m)) <= undone + Copying
  /\ tool.at = "copying" /\ tool.new > m => backup[tool.new].state = "partial"
Points ==
  /\ \A w \in Maintainer : \A i \in plan[w] : i + Keep <= made
  /\ \E m \in 0..MaxBackup : Spared(m)

Inv == Typed /\ Quiet /\ Evidence /\ Report /\ Copied /\ Points

-----------------------------------------------------------------------------
(***************************************************************************)
(* Types.                                                                  *)
(***************************************************************************)

LEMMA Bounds ==
  /\ NoBlob \notin Blob /\ Keep \in Nat /\ MaxBackup \in Nat /\ MaxTrouble \in Nat
  /\ Empty \in Content /\ NoJob \in JobSet /\ NoRead \in ReadSet /\ NoTool \in ToolSet
  /\ NoJob.at = "idle" /\ NoTool.at = "idle" /\ NoTool.old = 0 /\ ~NoTool.crossed
BY StorageAssumption
DEF StorageAssumption, Empty, Content, NoJob, JobSet, NoRead, ReadSet, NoTool, ToolSet, Steps

LEMMA TypedIs == Typed => TypeOK
BY DEF Typed, TypeOK, DbSet, BackupSet, JobSet, ReadSet, ToolSet

\* A transaction of HAL.
LEMMA CommitOf ==
  ASSUME db \in DbSet, NEW c \in Content, Commit(c)
  PROVE  /\ db' \in DbSet /\ db'.good = db.good
         /\ hal = "on" => db'.content = c
         /\ hal # "on" => db' = db
BY DEF Commit, DbSet

LEMMA CrossOf ==
  ASSUME tool \in ToolSet, Crosses
  PROVE  /\ tool' \in ToolSet /\ tool'.at = tool.at /\ tool'.old = tool.old /\ tool'.new = tool.new
         /\ tool.crossed => tool'.crossed
         /\ tool.at \in {"list", "mark", "reported"} => tool'.crossed
BY DEF Crosses, ToolSet

LEMMA TroubleOf == left \in 0..MaxTrouble /\ Trouble => left' \in 0..MaxTrouble
BY Bounds DEF Trouble

LEMMA PutType ==
  ASSUME Typed,
         (\E b \in Blob : PutLook(b) \/ GetRead(b)) \/ PutWrite \/ PutReplace \/ PutRow
           \/ Refer \/ GetMark
  PROVE  Typed'
<1>0. db.content \in Content
  BY DEF Typed, DbSet
<1>1. ASSUME NEW b \in Blob, PutLook(b) PROVE Typed'
  <2>1. job' \in JobSet /\ job'.blob \in Blob
    BY <1>1 DEF PutLook, JobSet
  <2> QED BY <1>1, <2>1 DEF PutLook, disk, InHal, Typed
<1>2. ASSUME NEW b \in Blob, GetRead(b) PROVE Typed'
  <2>1. reading' \in ReadSet
    BY <1>2 DEF GetRead, ReadSet
  <2> QED BY <1>2, <2>1 DEF GetRead, disk, InHal, Typed
<1>3. CASE PutWrite
  <2>1. job' \in JobSet /\ job'.blob = job.blob /\ job.blob \in Blob
    BY <1>3 DEF PutWrite, JobSet, Typed
  <2> QED BY <1>3, <2>1 DEF PutWrite, InHal, Typed
<1>4. CASE PutReplace
  <2>1. job' \in JobSet /\ (job'.at # "idle" => job'.blob \in Blob) /\ job.blob \in Blob
    BY <1>4, Bounds DEF PutReplace, JobSet, Typed
  <2>2. tool' \in ToolSet
    BY <1>4, CrossOf DEF PutReplace, Typed
  <2>3. files' \subseteq Blob /\ exposed' \subseteq Blob /\ temps' \subseteq Blob
    BY <1>4, <2>1 DEF PutReplace, Typed
  <2> QED BY <1>4, <2>1, <2>2, <2>3 DEF PutReplace, InHal, Typed
<1>5. CASE PutRow
  <2>1. job' \in JobSet /\ job'.blob = job.blob /\ job.blob \in Blob
    BY <1>5 DEF PutRow, JobSet, Typed
  <2>2. [db.content EXCEPT !.rows = @ \cup {job.blob}, !.missing = @ \ {job.blob}] \in Content
    BY <1>0, <2>1 DEF Content
  <2>3. db' \in DbSet /\ tool' \in ToolSet
    BY <1>5, <2>2, CommitOf, CrossOf DEF PutRow, Typed
  <2> QED BY <1>5, <2>1, <2>3 DEF PutRow, InHal, Typed
<1>6. CASE Refer
  <2>1. job.blob \in Blob
    BY <1>6 DEF Refer, Typed
  <2>2. [db.content EXCEPT !.refs = @ \cup {job.blob}] \in Content
    BY <1>0, <2>1 DEF Content
  <2>3. db' \in DbSet /\ job' \in JobSet /\ job'.at = "idle"
    BY <1>6, <2>2, CommitOf, Bounds DEF Refer, Typed
  <2> QED BY <1>6, <2>3 DEF Refer, InHal, Typed
<1>7. CASE GetMark
  <2>1. [db.content EXCEPT !.missing =
           IF reading.found THEN @ \ {reading.blob} ELSE @ \cup ({reading.blob} \cap Rows)] \in Content
    BY <1>0 DEF Content, Rows
  <2>2. db' \in DbSet /\ tool' \in ToolSet /\ reading' \in ReadSet
    BY <1>7, <2>1, CommitOf, CrossOf, Bounds DEF GetMark, Typed
  <2> QED BY <1>7, <2>2 DEF GetMark, InHal, Typed
<1> QED
  BY <1>1, <1>2, <1>3, <1>4, <1>5, <1>6, <1>7

LEMMA LifeType ==
  ASSUME Typed, HalStarts \/ HalStops \/ HalCrashes \/ LeaseLapses \/ \E b \in Blob : LoseFile(b)
  PROVE  Typed'
<1>1. CASE HalStarts
  BY <1>1 DEF HalStarts, InLife, Typed
<1>2. CASE HalStops
  BY <1>2 DEF HalStops, InLife, Typed, Maintainer
<1>3. CASE HalCrashes
  <2>1. left' \in 0..MaxTrouble /\ plan' \in [Maintainer -> SUBSET Ids]
    BY <1>3, TroubleOf DEF HalCrashes, Typed, Maintainer
  <2> QED BY <1>3, <2>1, Bounds DEF HalCrashes, disk, history, Typed
<1>4. CASE LeaseLapses
  BY <1>4 DEF LeaseLapses, InLife, Typed
<1>5. ASSUME NEW b \in Blob, LoseFile(b) PROVE Typed'
  <2>1. left' \in 0..MaxTrouble /\ tool' \in ToolSet
    BY <1>5, TroubleOf, CrossOf DEF LoseFile, Typed
  <2> QED BY <1>5, <2>1 DEF LoseFile, Typed
<1> QED
  BY <1>1, <1>2, <1>3, <1>4, <1>5

\* The backups that are listed were begun, and as many later ones as are spared.
LEMMA OptionalOf ==
  ASSUME Typed, NEW i \in Optional
  PROVE  i \in Ids /\ i + Keep <= made /\ backup[i].state \in {"partial", "ok"}
<1> DEFINE Later == {k \in Backups : k > i}
<1>1. i \in Ids /\ backup[i].state \in {"partial", "ok"} /\ Cardinality(Later) >= Keep
  BY DEF Optional, Backups
<1>2. made \in Nat /\ i \in Nat /\ i <= made
  <2>1. ~(i > made) /\ made \in 0..MaxBackup
    BY <1>1 DEF Typed
  <2> QED BY <1>1, <2>1, Bounds DEF Ids
<1>3. Later \subseteq (i + 1)..made
  <2>1. ASSUME NEW k \in Later PROVE k \in (i + 1)..made
    <3>1. k \in Ids /\ k > i /\ backup[k].state # "none"
      BY <2>1 DEF Backups
    <3>2. ~(k > made)
      BY <3>1 DEF Typed
    <3> QED BY <3>1, <3>2, <1>2, Bounds DEF Ids
  <2> QED BY <2>1
<1>4. IsFiniteSet((i + 1)..made) /\ Cardinality((i + 1)..made) = made - i
  <2>1. i + 1 \in Int /\ made \in Int
    BY <1>2
  <2>2. Cardinality((i + 1)..made) = (IF i + 1 > made THEN 0 ELSE made - (i + 1) + 1)
        /\ IsFiniteSet((i + 1)..made)
    BY <2>1, FS_Interval
  <2> QED BY <2>2, <1>2
<1>5. Cardinality(Later) <= made - i /\ Cardinality(Later) \in Nat
  <2>1. IsFiniteSet(Later) /\ Cardinality(Later) <= Cardinality((i + 1)..made)
    BY <1>3, <1>4, FS_Subset
  <2> QED BY <2>1, <1>4, FS_CardinalityType
<1> HIDE DEF Later
<1>6. i + Keep <= made
  BY <1>1, <1>2, <1>5, Bounds
<1> QED
  BY <1>1, <1>6

LEMMA RetentionType ==
  ASSUME Typed, Points,
         \E m \in Maintainer : PlanRetention(m) \/ \E i \in Ids : Evict(m, i)
  PROVE  Typed'
<1>1. ASSUME NEW m \in Maintainer, PlanRetention(m) PROVE Typed'
  <2>1. plan' = [plan EXCEPT ![m] = Optional] /\ Optional \subseteq Ids
    BY <1>1, OptionalOf DEF PlanRetention
  <2> HIDE DEF Optional
  <2>2. plan' \in [Maintainer -> SUBSET Ids]
    BY <2>1 DEF Typed
  <2> QED BY <1>1, <2>2 DEF PlanRetention, InRetention, history, Typed
<1>2. ASSUME NEW m \in Maintainer, NEW i \in Ids, Evict(m, i) PROVE Typed'
  <2>1. i + Keep <= made /\ made \in Nat /\ i \in Nat
    BY <1>2, Bounds DEF Evict, Points, Typed, Ids
  <2>2. ~(i > made)
    BY <2>1, Bounds
  <2> DEFINE c == IF i = tool.new THEN backup[i].content ELSE Empty
  <2>3. c \in Content
    BY Bounds DEF Typed, BackupSet
  <2>4. backup' = [backup EXCEPT ![i] = [state |-> "gone", content |-> c]]
    BY <1>2 DEF Evict
  <2> HIDE DEF c
  <2>5. backup' \in [Ids -> BackupSet]
    BY <2>3, <2>4 DEF Typed, BackupSet
  <2>6. \A k \in Ids : k > made <=> backup'[k].state = "none"
    BY <2>2, <2>4 DEF Typed
  <2>7. plan' \in [Maintainer -> SUBSET Ids]
    BY <1>2 DEF Evict, Typed
  <2> QED BY <1>2, <2>5, <2>6, <2>7 DEF Evict, InRetention, history, Typed
<1> QED
  BY <1>1, <1>2

\* The commands of the tool that change no backup and restore nothing.
LEMMA CommandType ==
  ASSUME Typed,
         \/ ToolStarts \/ ToolEnds \/ (\E delete \in BOOLEAN : Integrity(delete))
         \/ (\E b \in Blob : SweepLook(b) \/ SweepDelete(b) \/ SweepTemp(b))
         \/ SweepEnd \/ LookUp \/ MarkMissing
  PROVE  Typed'
<1>0. tool \in ToolSet /\ Rows \subseteq Blob /\ files \subseteq Blob
  BY DEF Typed, DbSet, Content, Rows
<1>1. CASE ToolStarts \/ ToolEnds
  <2>1. tool' \in ToolSet
    BY <1>0, <1>1, Bounds DEF ToolStarts, ToolEnds, ToolSet, Steps
  <2> QED BY <1>1, <2>1 DEF ToolStarts, ToolEnds, InTool, disk, Typed
<1>2. ASSUME NEW delete \in BOOLEAN, Integrity(delete) PROVE Typed'
  <2>1. tool' \in ToolSet
    BY <1>0, <1>2 DEF Integrity, ToolSet, Steps
  <2> QED BY <1>2, <2>1 DEF Integrity, InSweep, InTool, Typed
<1>3. ASSUME NEW b \in Blob, SweepLook(b) PROVE Typed'
  <2>1. tool' \in ToolSet
    BY <1>0, <1>3 DEF SweepLook, ToolSet
  <2> QED BY <1>3, <2>1 DEF SweepLook, InSweep, InTool, Typed
<1>4. ASSUME NEW b \in Blob, SweepDelete(b) PROVE Typed'
  <2>1. tool' \in ToolSet
    BY <1>0, <1>4 DEF SweepDelete, ToolSet
  <2> QED BY <1>4, <2>1 DEF SweepDelete, InSweep, InTool, Typed
<1>5. ASSUME NEW b \in Blob, SweepTemp(b) PROVE Typed'
  BY <1>5 DEF SweepTemp, InSweep, InTool, Typed
<1>6. CASE SweepEnd
  <2>1. tool' \in ToolSet
    BY <1>0, <1>6 DEF SweepEnd, ToolSet, Steps
  <2> QED BY <1>6, <2>1 DEF SweepEnd, InSweep, InTool, Typed
<1>7. CASE LookUp
  <2>1. tool' \in ToolSet
    BY <1>0, <1>7 DEF LookUp, ToolSet, Steps
  <2> QED BY <1>7, <2>1 DEF LookUp, InSweep, InTool, Typed
<1>8. CASE MarkMissing
  <2>1. tool' \in ToolSet
    BY <1>0, <1>8 DEF MarkMissing, ToolSet, Steps
  <2>2. db' \in DbSet
    BY <1>0, <1>8 DEF MarkMissing, Typed, DbSet, Content
  <2> QED BY <1>8, <2>1, <2>2 DEF MarkMissing, InSweep, InTool, Typed
<1> QED
  BY <1>1, <1>2, <1>3, <1>4, <1>5, <1>6, <1>7, <1>8

\* A backup is begun: the next one.
LEMMA BeginOf ==
  ASSUME Typed, made < MaxBackup, Begin(made + 1)
  PROVE  /\ made + 1 \in Ids /\ made' = made + 1 /\ made' \in 0..MaxBackup
         /\ backup' \in [Ids -> BackupSet]
         /\ backup'[made + 1].state = "partial"
         /\ \A k \in Ids : k # made + 1 => backup'[k] = backup[k]
         /\ \A k \in Ids : k > made' <=> backup'[k].state = "none"
         /\ backup[made + 1].state = "none"
<1>1. made \in Nat /\ made + 1 \in Ids /\ made' = made + 1 /\ made' \in 0..MaxBackup
  BY Bounds DEF Typed, Begin, Ids
<1>2. backup' = [backup EXCEPT ![made + 1] = [backup[made + 1] EXCEPT !.state = "partial"]]
  BY DEF Begin
<1>3. /\ backup' \in [Ids -> BackupSet] /\ backup'[made + 1].state = "partial"
      /\ \A k \in Ids : k # made + 1 => backup'[k] = backup[k]
  BY <1>1, <1>2 DEF Typed, BackupSet
<1>4. \A k \in Ids : k > made <=> backup[k].state = "none"
  BY DEF Typed
<1>5. ASSUME NEW k \in Ids PROVE k > made' <=> backup'[k].state = "none"
  <2>1. k \in Nat
    BY Bounds DEF Ids
  <2>2. CASE k = made + 1
    BY <1>1, <1>3, <2>2
  <2>3. CASE k # made + 1
    <3>1. k > made' <=> k > made
      BY <1>1, <2>1, <2>3
    <3> QED BY <3>1, <2>3, <1>3, <1>4
  <2> QED BY <2>2, <2>3
<1>6. backup[made + 1].state = "none"
  BY <1>1, <1>4
<1> QED
  BY <1>1, <1>3, <1>5, <1>6

LEMMA DoneOf ==
  ASSUME before \in Content, Done
  PROVE  /\ tool' = NoTool /\ before' \in Content
         /\ db'.good => before' = Empty
         /\ ~db'.good => before' = before
BY Bounds DEF Done

LEMMA BackupType ==
  ASSUME Typed, Quiet,
         \/ BackupBegins \/ BackupDone \/ BackupFails \/ (\E i \in Ids : RestoreBegins(i))
  PROVE  Typed'
<1>0. tool \in ToolSet /\ made \in Nat /\ left \in 0..MaxTrouble
  BY Bounds DEF Typed
<1>1. ASSUME NEW i \in Ids, BackupBegins \/ RestoreBegins(i) PROVE Typed'
  <2>1. Begin(made + 1) /\ made < MaxBackup
    BY <1>1 DEF BackupBegins, RestoreBegins
  <2>2. tool' \in ToolSet
    <3>1. made + 1 \in 0..MaxBackup /\ i \in 0..MaxBackup
      BY <1>0, <2>1, Bounds DEF Ids
    <3> QED BY ZenonT(30), <1>0, <1>1, <3>1 DEF BackupBegins, RestoreBegins, ToolSet, Steps
  <2>3. UNCHANGED <<db, files, temps, leased, exposed, hal, job, reading, plan, slipped,
                    left, before, undone>>
    BY <1>1 DEF BackupBegins, RestoreBegins, InBackup, InTool
  <2> QED BY <2>1, <2>2, <2>3, BeginOf DEF Typed
<1>2. CASE BackupDone
  <2> DEFINE new == [state |-> "ok", content |-> db.content]
  <2>1. new \in BackupSet /\ new.state = "ok"
    BY DEF Typed, DbSet, BackupSet
  <2>2. backup' = [backup EXCEPT ![tool.new] = IF @.state = "partial" THEN new ELSE @]
    BY <1>2 DEF BackupDone
  <2> HIDE DEF new
  <2>3. backup' \in [Ids -> BackupSet]
    BY <2>1, <2>2 DEF Typed
  <2>4. \A k \in Ids : k > made <=> backup'[k].state = "none"
    BY <2>1, <2>2 DEF Typed
  <2>5. tool' \in ToolSet
    BY <1>0, <1>2, Bounds DEF BackupDone, ToolSet, Steps
  <2>6. before' \in Content
    BY <1>2 DEF BackupDone, Typed, DbSet
  <2> QED BY <1>2, <2>3, <2>4, <2>5, <2>6 DEF BackupDone, InBackup, InTool, Typed
<1>3. CASE BackupFails
  <2>1. backup' = [backup EXCEPT ![tool.new] = [backup[tool.new] EXCEPT !.state = "gone"]]
    BY <1>3 DEF BackupFails
  <2>2. tool.new = made /\ tool.new \in Ids
    BY <1>0, <1>3, Bounds DEF BackupFails, Quiet, Ids, Typed
  <2>3. backup' \in [Ids -> BackupSet]
    BY <2>1, <2>2 DEF Typed, BackupSet
  <2>4. \A k \in Ids : k > made <=> backup'[k].state = "none"
    <3>1. ~(tool.new > made)
      BY <1>0, <2>2
    <3> QED BY <2>1, <2>2, <3>1 DEF Typed
  <2>5. left' \in 0..MaxTrouble /\ undone' \in Nat /\ tool' \in ToolSet
    BY <1>0, <1>3, TroubleOf, Bounds DEF BackupFails, Typed
  <2> QED BY <1>3, <2>3, <2>4, <2>5 DEF BackupFails, InBackup, InTool, Typed
<1>4. made + 1 \in Nat /\ (BackupBegins => Ids # {})
  BY <1>0, Bounds DEF BackupBegins, Ids
<1> QED
  BY <1>1, <1>2, <1>3, <1>4

LEMMA RestoreType ==
  ASSUME Typed, Quiet, Replace \/ Reopen \/ RollBack \/ RolledBack \/ ToolCrashes
  PROVE  Typed'
<1>0. tool \in ToolSet /\ left \in 0..MaxTrouble /\ before \in Content
  BY DEF Typed
<1>1. CASE Replace
  <2>1. /\ db' = [good |-> TRUE, content |-> backup[tool.old].content] /\ tool.old \in Ids
        /\ hal' = (IF hal = "on" THEN "detached" ELSE hal) /\ leased' = FALSE
    BY <1>1 DEF Replace, Becomes, Valid
  <2>2. db' \in DbSet
    BY <2>1 DEF Typed, BackupSet, DbSet
  <2>3. tool' \in ToolSet
    BY <1>0, <1>1 DEF Replace, ToolSet, Steps
  <2> QED BY <1>1, <2>1, <2>2, <2>3 DEF Replace, InRestore, Typed
<1>2. CASE Reopen
  BY <1>0, <1>2, DoneOf, Bounds DEF Reopen, InRestore, Typed
<1>3. CASE RollBack
  <2>1. left' \in 0..MaxTrouble
    BY <1>0, <1>3, TroubleOf DEF RollBack
  <2>2. CASE tool.new \in Valid
    <3>1. /\ db' = [good |-> FALSE, content |-> Empty]
          /\ hal' = (IF hal = "on" THEN "detached" ELSE hal) /\ leased' = FALSE
          /\ tool' = [tool EXCEPT !.at = "rolling"] /\ before' = before
      BY <1>3, <2>2 DEF RollBack, Becomes
    <3>2. db' \in DbSet /\ tool' \in ToolSet
      BY <1>0, <3>1, Bounds DEF DbSet, ToolSet, Steps
    <3> QED BY <1>3, <2>1, <3>1, <3>2 DEF RollBack, InRestore, Typed
  <2>3. CASE tool.new \notin Valid
    <3>1. UNCHANGED <<db, hal, leased>> /\ Done
      BY <1>3, <2>3 DEF RollBack
    <3> QED BY <1>0, <1>3, <2>1, <3>1, DoneOf, Bounds DEF RollBack, InRestore, Typed
  <2> QED BY <2>2, <2>3
<1>4. CASE RolledBack
  <2>1. db' = [good |-> TRUE, content |-> backup[tool.new].content]
    BY <1>4 DEF RolledBack
  <2>2. db' \in DbSet
    BY <1>4, <2>1 DEF RolledBack, Quiet, Typed, BackupSet, DbSet
  <2> QED BY <1>0, <1>4, <2>2, DoneOf, Bounds DEF RolledBack, InRestore, Typed
<1>5. CASE ToolCrashes
  <2>1. left' \in 0..MaxTrouble /\ undone' \in Nat /\ plan' \in [Maintainer -> SUBSET Ids]
    <3>1. left' \in 0..MaxTrouble
      BY <1>0, <1>5, TroubleOf DEF ToolCrashes
    <3>2. undone' \in Nat
      BY <1>5 DEF ToolCrashes, Typed
    <3>3. plan' \in [Maintainer -> SUBSET Ids]
      BY <1>5 DEF ToolCrashes, Typed, Maintainer
    <3> QED BY <3>1, <3>2, <3>3
  <2>2. tool' \in ToolSet /\ tool'.at = "idle" /\ before' \in Content
    BY <1>0, <1>5, DoneOf, Bounds DEF ToolCrashes
  <2> QED BY <1>5, <2>1, <2>2 DEF ToolCrashes, InLife, Typed
<1> QED
  BY <1>1, <1>2, <1>3, <1>4, <1>5

LEMMA NextType ==
  ASSUME Typed, Quiet, Points, [Next]_vars
  PROVE  Typed'
<1>1. CASE UNCHANGED vars
  BY <1>1 DEF vars, disk, history, Typed
<1>2. CASE Next
  BY <1>2, PutType, LifeType, RetentionType, CommandType, BackupType, RestoreType
  DEF Next, HalNext, ToolNext
<1> QED
  BY <1>1, <1>2

-----------------------------------------------------------------------------
(***************************************************************************)
(* What the steps of HAL and the commands of the tool leave alone.         *)
(***************************************************************************)

\* A step of put or get.
PutStep == (\E b \in Blob : PutLook(b) \/ GetRead(b)) \/ PutWrite \/ PutReplace \/ PutRow
             \/ Refer \/ GetMark

LEMMA PutOf ==
  ASSUME Typed, Quiet, PutStep
  PROVE  /\ hal # "off"
         /\ UNCHANGED <<hal, leased, plan, left, slipped, before, undone, backup, made>>
         /\ tool'.at = tool.at /\ tool'.old = tool.old /\ tool'.new = tool.new
         /\ \/ /\ tool' = tool /\ files' = files /\ exposed' = exposed
               /\ db'.content.rows = Rows /\ db'.content.missing = db.content.missing
            \/ tool.at \in {"list", "mark", "reported"} => tool'.crossed
         /\ db'.good = db.good /\ (hal # "on" => db' = db)
         /\ Rows \subseteq db'.content.rows /\ db.content.refs \subseteq db'.content.refs
<1>0. db \in DbSet /\ db.content \in Content /\ tool \in ToolSet /\ job \in JobSet
  BY DEF Typed, DbSet
<1>1. ASSUME NEW b \in Blob, PutLook(b) \/ GetRead(b)
      PROVE  /\ hal # "off" /\ UNCHANGED <<disk, tool, exposed>> /\ InHal
  BY <1>1 DEF PutLook, GetRead
<1>2. CASE PutWrite
  BY <1>2 DEF PutWrite, InHal, Quiet, Rows
<1>3. CASE PutReplace
  <2>1. hal # "off" /\ Crosses /\ UNCHANGED <<db, backup, made>> /\ InHal
    BY <1>3 DEF PutReplace, Quiet
  <2> QED BY <1>0, <2>1, CrossOf DEF InHal, Rows
<1>4. CASE PutRow
  <2> DEFINE c == [db.content EXCEPT !.rows = @ \cup {job.blob}, !.missing = @ \ {job.blob}]
  <2>1. hal # "off" /\ Commit(c) /\ Crosses /\ UNCHANGED <<files, backup, made>> /\ InHal
        /\ job.blob \in Blob
    BY <1>4 DEF PutRow, Quiet, Typed
  <2>2. c \in Content /\ Rows \subseteq c.rows /\ c.refs = db.content.refs
    BY <1>0, <2>1 DEF Content, Rows
  <2> HIDE DEF c
  <2> QED BY <1>0, <2>1, <2>2, CommitOf, CrossOf DEF InHal, Rows
<1>5. CASE Refer
  <2> DEFINE c == [db.content EXCEPT !.refs = @ \cup {job.blob}]
  <2>1. hal # "off" /\ Commit(c) /\ UNCHANGED <<files, exposed, tool, backup, made>> /\ InHal
        /\ job.blob \in Blob
    BY <1>5 DEF Refer, Quiet, Typed
  <2>2. c \in Content /\ c.rows = Rows /\ db.content.refs \subseteq c.refs
        /\ c.missing = db.content.missing
    BY <1>0, <2>1 DEF Content, Rows
  <2> HIDE DEF c
  <2> QED BY <1>0, <2>1, <2>2, CommitOf DEF InHal, Rows
<1>6. CASE GetMark
  <2> DEFINE m == IF reading.found THEN db.content.missing \ {reading.blob}
                  ELSE db.content.missing \cup ({reading.blob} \cap Rows)
             c == [db.content EXCEPT !.missing = m]
  <2>1. hal # "off" /\ Commit(c) /\ Crosses /\ UNCHANGED <<files, exposed, backup, made>> /\ InHal
    BY <1>6 DEF GetMark, Quiet
  <2>2. m \in SUBSET Blob
    BY <1>0 DEF Content, Rows
  <2> HIDE DEF m
  <2>3. c \in Content /\ c.rows = Rows /\ c.refs = db.content.refs
    BY <1>0, <2>2 DEF Content, Rows
  <2> HIDE DEF c
  <2> QED BY <1>0, <2>1, <2>3, CommitOf, CrossOf DEF InHal, Rows
<1> QED
  BY <1>1, <1>2, <1>3, <1>4, <1>5, <1>6 DEF PutStep, disk, InHal, Rows

\* HAL starts, stops or crashes, or a file is lost.
LifeStep == HalStarts \/ HalStops \/ HalCrashes \/ LeaseLapses \/ \E b \in Blob : LoseFile(b)

LEMMA LifeOf ==
  ASSUME Typed, LifeStep
  PROVE  /\ UNCHANGED <<db, backup, made, before, undone>>
         /\ tool'.at = tool.at /\ tool'.old = tool.old /\ tool'.new = tool.new
         /\ \/ tool' = tool /\ files' = files
            \/ tool.at \in {"list", "mark", "reported"} => tool'.crossed
         /\ plan' = plan \/ (plan' = [plan EXCEPT !["hal"] = {}] /\ hal' = "off")
         /\ files \cup exposed \subseteq files' \cup exposed'
         /\ job' = job \/ job'.at = "idle"
         /\ hal' = hal \/ hal' = "off" \/ (hal = "off" /\ hal' = "on")
<1>0. tool \in ToolSet
  BY DEF Typed
<1>1. CASE HalStarts \/ HalStops \/ HalCrashes \/ LeaseLapses
  BY <1>1, Bounds DEF HalStarts, HalStops, HalCrashes, LeaseLapses, InLife, disk, history
<1>2. ASSUME NEW b \in Blob, LoseFile(b)
      PROVE  /\ UNCHANGED <<db, backup, made, before, undone, job, hal, plan>> /\ Crosses
             /\ files \cup exposed \subseteq files' \cup exposed'
  BY <1>2 DEF LoseFile
<1> QED
  BY <1>0, <1>1, <1>2, CrossOf DEF LifeStep

\* The commands of the tool that change no backup and restore nothing.
Plain == {"idle", "open", "sweep", "list", "mark", "reported"}
CommandStep ==
  \/ ToolStarts \/ ToolEnds \/ (\E delete \in BOOLEAN : Integrity(delete))
  \/ (\E b \in Blob : SweepLook(b) \/ SweepDelete(b) \/ SweepTemp(b))
  \/ SweepEnd \/ LookUp \/ MarkMissing

LEMMA CommandOf ==
  ASSUME Typed, Quiet, CommandStep
  PROVE  /\ UNCHANGED <<hal, leased, job, reading, plan, slipped, backup, made, before, undone>>
         /\ tool.at \in Plain /\ tool'.at \in Plain
         /\ tool.old = 0 /\ tool'.old = 0
         /\ tool'.at # "open" => plan["tool"] = {}
         /\ db.good /\ db'.good /\ db'.content.rows = Rows /\ db'.content.refs = db.content.refs
<1>0. tool \in ToolSet /\ db \in DbSet /\ db.content \in Content
  BY DEF Typed, DbSet
<1>1. ASSUME ToolStarts \/ ToolEnds
      PROVE  /\ UNCHANGED <<hal, leased, job, reading, plan, slipped, disk, before, undone>>
             /\ tool.at \in Plain /\ tool'.at \in Plain /\ db.good
             /\ tool'.at # "open" => plan["tool"] = {}
  BY <1>0, <1>1, Bounds DEF ToolStarts, ToolEnds, InTool, disk, Quiet, Plain, ToolSet, Rows
<1>2. ASSUME NEW delete \in BOOLEAN, Integrity(delete)
      PROVE  InSweep /\ tool.at = "open" /\ plan["tool"] = {} /\ tool'.at = "sweep" /\ db' = db
  BY <1>0, <1>2 DEF Integrity, ToolSet
<1>3. ASSUME NEW b \in Blob, SweepLook(b) \/ SweepDelete(b) \/ SweepTemp(b)
      PROVE  InSweep /\ tool.at = "sweep" /\ tool'.at = "sweep" /\ db' = db
  BY <1>0, <1>3 DEF SweepLook, SweepDelete, SweepTemp, ToolSet
<1>4. ASSUME SweepEnd \/ LookUp
      PROVE  InSweep /\ tool.at \in {"sweep", "list"} /\ tool'.at \in {"list", "mark"} /\ db' = db
  BY <1>0, <1>4 DEF SweepEnd, LookUp, ToolSet
<1>5. ASSUME MarkMissing
      PROVE  /\ InSweep /\ tool.at = "mark" /\ tool'.at = "reported"
             /\ db'.good = db.good /\ db'.content.rows = Rows
             /\ db'.content.refs = db.content.refs
  BY <1>0, <1>5 DEF MarkMissing, ToolSet, DbSet, Content, Rows
<1>6. ASSUME InSweep, tool.at \in {"open", "sweep", "list", "mark"},
             tool.at = "open" => plan["tool"] = {}
      PROVE  /\ UNCHANGED <<hal, leased, job, reading, plan, slipped, backup, made, before, undone>>
             /\ plan["tool"] = {} /\ db.good /\ tool.at \in Plain
  BY <1>6 DEF InSweep, InTool, Quiet, Plain
<1>7. tool'.old = tool.old \/ tool'.old = 0
  BY <1>0, Bounds
  DEF CommandStep, ToolStarts, ToolEnds, Integrity, SweepLook, SweepDelete, SweepTemp, SweepEnd,
      LookUp, MarkMissing, ToolSet
<1>8. tool.at \in Plain => tool.old = 0
  BY DEF Quiet, Restoring, Plain
<1>9. /\ UNCHANGED <<hal, leased, job, reading, plan, slipped, backup, made, before, undone>>
      /\ tool.at \in Plain /\ tool'.at \in Plain
      /\ tool'.at # "open" => plan["tool"] = {}
      /\ db.good /\ db'.good /\ db'.content.rows = Rows /\ db'.content.refs = db.content.refs
  BY <1>1, <1>2, <1>3, <1>4, <1>5, <1>6 DEF CommandStep, Plain, Rows, disk
<1> QED
  BY <1>7, <1>8, <1>9

-----------------------------------------------------------------------------
(***************************************************************************)
(* What the steps of retention, backup and restore do.                     *)
(***************************************************************************)

LEMMA EvictOf ==
  ASSUME Typed, Points, NEW m \in Maintainer, NEW i \in Ids, Evict(m, i)
  PROVE  /\ i \in plan[m] /\ i + Keep <= made
         /\ UNCHANGED <<tool, db, files, temps, made, hal, leased, job, reading, left, history>>
         /\ backup'[i].state = "gone"
         /\ i = tool.new => backup'[i].content = backup[i].content
         /\ \A k \in Ids : k # i => backup'[k] = backup[k]
         /\ \A w \in Maintainer : plan'[w] \subseteq plan[w]
<1>1. i \in plan[m] /\ i + Keep <= made
      /\ UNCHANGED <<tool, db, files, temps, made, hal, leased, job, reading, left, history>>
  BY DEF Evict, InRetention, Points
<1>2. backup' = [backup EXCEPT ![i] =
        [state |-> "gone", content |-> IF i = tool.new THEN backup[i].content ELSE Empty]]
  BY DEF Evict
<1>3. plan' = [plan EXCEPT ![m] = plan[m] \ {i}]
  BY DEF Evict
<1> QED
  BY <1>1, <1>2, <1>3 DEF Typed

BeginStep == BackupBegins \/ \E i \in Ids : RestoreBegins(i)

\* What a backup step does to the backups: a new one is begun, or that one is
\* completed or given up.
LEMMA BeginsOf ==
  ASSUME Typed, Quiet, BeginStep
  PROVE  /\ tool.at = "open" /\ plan["tool"] = {} /\ made \in Nat /\ made + 1 \in Ids
         /\ made' = made + 1
         /\ backup[made + 1].state = "none" /\ backup'[made + 1].state = "partial"
         /\ \A k \in Ids : k # made + 1 => backup'[k] = backup[k]
         /\ tool'.at = "copying" /\ tool'.new = made + 1
         /\ tool'.crossed = tool.crossed
         /\ tool.old = 0 /\ (tool'.old = 0 \/ ~leased)
         /\ UNCHANGED <<db, files, temps, leased, exposed, hal, job, reading, plan, slipped,
                        left, before, undone>>
<1>0. Begin(made + 1) /\ made < MaxBackup
  BY DEF BeginStep, BackupBegins, RestoreBegins
<1>1. Begin(made + 1) /\ made < MaxBackup /\ tool \in ToolSet /\ made \in Nat
  BY <1>0, Bounds DEF Typed
<1>2. /\ tool'.at = "copying" /\ tool'.new = made + 1 /\ tool'.crossed = tool.crossed
      /\ tool'.old = tool.old \/ ~leased
  BY <1>1 DEF BeginStep, BackupBegins, RestoreBegins, ToolSet
<1> QED
  BY <1>1, <1>2, BeginOf
  DEF BeginStep, BackupBegins, RestoreBegins, InBackup, InTool, Quiet, Restoring

LEMMA BackupDoneOf ==
  ASSUME Typed, Quiet, BackupDone
  PROVE  /\ tool.at = "copying" /\ tool.new \in Ids /\ tool.new = made
         /\ backup[tool.new].state = "partial" =>
              backup'[tool.new] = [state |-> "ok", content |-> db.content]
         /\ backup[tool.new].state # "partial" => backup' = backup
         /\ \A k \in Ids : k # tool.new => backup'[k] = backup[k]
         /\ tool.old = 0 => tool' = NoTool /\ before' = before
         /\ tool.old # 0 => /\ tool' = [tool EXCEPT !.at = "replacing"] /\ tool'.at = "replacing"
                            /\ tool'.old = tool.old /\ tool'.new = tool.new
                            /\ before' = db.content
         /\ UNCHANGED <<db, files, temps, leased, exposed, hal, job, reading, plan, slipped,
                        made, left, undone>>
<1>1. tool.at = "copying" /\ tool.new = made /\ tool.new \in Ids /\ tool \in ToolSet
  BY Bounds DEF BackupDone, Quiet, Typed, Ids
<1>2. backup' = [backup EXCEPT ![tool.new] =
        IF backup[tool.new].state = "partial" THEN [state |-> "ok", content |-> db.content]
        ELSE backup[tool.new]]
  BY DEF BackupDone
<1>3. /\ \A k \in Ids : k # tool.new => backup'[k] = backup[k]
      /\ backup[tool.new].state = "partial" =>
           backup'[tool.new] = [state |-> "ok", content |-> db.content]
      /\ backup[tool.new].state # "partial" => backup' = backup
  BY <1>1, <1>2 DEF Typed
<1>4. /\ tool.old = 0 => tool' = NoTool /\ before' = before
      /\ tool.old # 0 => /\ tool' = [tool EXCEPT !.at = "replacing"] /\ tool'.at = "replacing"
                         /\ tool'.old = tool.old /\ tool'.new = tool.new
                         /\ before' = db.content
  BY <1>1 DEF BackupDone, ToolSet
<1> QED
  BY <1>1, <1>3, <1>4 DEF BackupDone, InBackup, InTool

LEMMA BackupFailsOf ==
  ASSUME Typed, Quiet, BackupFails
  PROVE  /\ tool.at = "copying" /\ tool.new \in Ids /\ tool.new = made
         /\ backup'[tool.new].state = "gone"
         /\ \A k \in Ids : k # tool.new => backup'[k] = backup[k]
         /\ tool' = NoTool /\ undone' = undone + 1
         /\ UNCHANGED <<db, files, temps, leased, exposed, hal, job, reading, plan, slipped,
                        made, before>>
<1>1. tool.at = "copying" /\ tool.new = made /\ tool.new \in Ids
  BY Bounds DEF BackupFails, Quiet, Typed, Ids
<1>2. backup' = [backup EXCEPT ![tool.new] = [backup[tool.new] EXCEPT !.state = "gone"]]
  BY DEF BackupFails
<1>3. backup'[tool.new].state = "gone" /\ \A k \in Ids : k # tool.new => backup'[k] = backup[k]
  BY <1>1, <1>2 DEF Typed, BackupSet
<1> QED
  BY <1>1, <1>3 DEF BackupFails, InBackup, InTool

\* The database becomes another one.
RestoreStep == Replace \/ Reopen \/ RollBack \/ RolledBack

LEMMA RestoreOf ==
  ASSUME Typed, Quiet, RestoreStep
  PROVE  /\ tool.at \in {"replacing", "reopening", "rolling"}
         /\ UNCHANGED <<files, temps, backup, made, job, reading, plan, exposed, undone, slipped>>
         /\ hal' = hal \/ (hal = "on" /\ hal' = "detached")
         /\ \/ /\ tool' = NoTool /\ db' = db /\ hal' = hal /\ leased' = leased /\ db.good
               /\ before' = Empty
            \/ /\ tool.at = "replacing" /\ tool.old \in Valid /\ hal' # "on" /\ db.good
               /\ db' = [good |-> TRUE, content |-> backup[tool.old].content]
               /\ tool'.at = "reopening" /\ tool'.old = tool.old /\ tool'.new = tool.new
               /\ before' = before
            \/ /\ tool.at # "rolling" /\ tool.new \in Valid /\ hal' # "on" /\ db.good
               /\ db' = [good |-> FALSE, content |-> Empty]
               /\ tool'.at = "rolling" /\ tool'.old = tool.old /\ tool'.new = tool.new
               /\ before' = before
            \/ /\ tool.at = "rolling" /\ tool' = NoTool /\ ~db.good /\ hal' = hal /\ hal # "on"
               /\ db' = [good |-> TRUE, content |-> backup[tool.new].content] /\ before' = Empty
<1>0. tool \in ToolSet /\ before \in Content /\ hal \in {"off", "on", "detached"}
  BY DEF Typed
<1>1. CASE Replace
  BY <1>0, <1>1 DEF Replace, Becomes, InRestore, Quiet, ToolSet
<1>2. CASE Reopen
  <2>1. db.good
    BY <1>2 DEF Reopen, Quiet
  <2> QED BY <1>0, <1>2, <2>1, DoneOf DEF Reopen, InRestore
<1>3. CASE RollBack
  <2>1. db.good /\ tool.at \in {"replacing", "reopening"}
    BY <1>3 DEF RollBack, Quiet
  <2>2. CASE tool.new \in Valid
    <3>1. Becomes([good |-> FALSE, content |-> Empty])
          /\ tool' = [tool EXCEPT !.at = "rolling"] /\ before' = before
      BY <1>3, <2>2 DEF RollBack
    <3>2. tool'.at = "rolling" /\ tool'.old = tool.old /\ tool'.new = tool.new
      BY <1>0, <3>1 DEF ToolSet
    <3> QED BY <1>0, <1>3, <2>1, <2>2, <3>1, <3>2 DEF RollBack, Becomes, InRestore
  <2>3. CASE tool.new \notin Valid
    <3>1. UNCHANGED <<db, hal, leased>> /\ Done
      BY <1>3, <2>3 DEF RollBack
    <3> QED BY <1>0, <1>3, <2>1, <3>1, DoneOf DEF RollBack, InRestore
  <2> QED BY <2>2, <2>3
<1>4. CASE RolledBack
  <2>1. ~db.good /\ hal # "on"
    BY <1>4 DEF RolledBack, Quiet
  <2>2. db' = [good |-> TRUE, content |-> backup[tool.new].content]
    BY <1>4 DEF RolledBack
  <2> QED BY <1>0, <1>4, <2>1, <2>2, DoneOf DEF RolledBack, InRestore
<1> QED
  BY <1>1, <1>2, <1>3, <1>4 DEF RestoreStep

LEMMA ToolCrashesOf ==
  ASSUME Typed, ToolCrashes
  PROVE  /\ tool.at # "idle" /\ tool' = NoTool
         /\ db.good => before' = Empty
         /\ ~db.good => before' = before
         /\ plan' = [plan EXCEPT !["tool"] = {}] /\ undone' = undone + Copying
         /\ UNCHANGED <<db, files, temps, backup, made, hal, leased, job, reading, slipped, exposed>>
<1>1. before \in Content /\ Done /\ db' = db
  BY DEF ToolCrashes, InLife, Typed
<1> QED
  BY <1>1, DoneOf DEF ToolCrashes, InLife, Copying

-----------------------------------------------------------------------------
(***************************************************************************)
(* Each part of the invariant is kept by every step.                       *)
(***************************************************************************)

RetentionStep == \E m \in Maintainer : PlanRetention(m) \/ \E i \in Ids : Evict(m, i)

LEMMA StepsOf ==
  Next => \/ PutStep \/ LifeStep \/ CommandStep \/ RetentionStep
          \/ BeginStep \/ BackupDone \/ BackupFails \/ RestoreStep \/ ToolCrashes
BY DEF BeginStep, Next, HalNext, ToolNext, PutStep, LifeStep, CommandStep, RetentionStep, RestoreStep

LEMMA QuietNext ==
  ASSUME Typed, Typed', Quiet, Points, Next
  PROVE  Quiet'
<1>0. tool \in ToolSet /\ plan \in [Maintainer -> SUBSET Ids]
  BY DEF Typed
<1>1. CASE PutStep
  <2>1. /\ hal # "off" /\ hal' = hal /\ leased' = leased /\ plan' = plan /\ made' = made
        /\ backup' = backup
        /\ tool'.at = tool.at /\ tool'.old = tool.old /\ tool'.new = tool.new
        /\ db'.good = db.good /\ (hal # "on" => db' = db)
    BY <1>1, PutOf
  <2> QED BY <2>1 DEF Quiet, Restoring
<1>2. CASE LifeStep
  <2>1. /\ UNCHANGED <<db, made, backup>> /\ tool'.at = tool.at /\ tool'.old = tool.old
        /\ tool'.new = tool.new
        /\ plan' = plan \/ (plan' = [plan EXCEPT !["hal"] = {}] /\ hal' = "off")
    BY <1>2, LifeOf
  <2>2. /\ hal' = "off" => job'.at = "idle" /\ reading' = NoRead /\ plan'["hal"] = {}
        /\ hal' = "on" => leased' /\ db.good
    BY <1>0, <1>2, Bounds
    DEF LifeStep, HalStarts, HalStops, HalCrashes, LeaseLapses, LoseFile, InLife, disk, history,
        Quiet, Maintainer
  <2>3. plan'["tool"] = plan["tool"]
    BY <1>0, <2>1 DEF Maintainer
  <2> QED BY <2>1, <2>2, <2>3 DEF Quiet, Restoring
<1>3. CASE CommandStep
  <2>1. /\ UNCHANGED <<hal, leased, job, reading, plan>> /\ tool'.at \in Plain /\ tool'.old = 0
        /\ tool'.at # "open" => plan["tool"] = {}
        /\ db'.good
    BY <1>3, CommandOf
  <2> QED BY <2>1 DEF Quiet, Plain, Restoring
<1>4. CASE RetentionStep
  <2>1. ASSUME NEW m \in Maintainer, PlanRetention(m) PROVE Quiet'
    <3>1. UNCHANGED <<hal, leased, job, reading, tool, db, made, backup>> /\ Runs(m)
          /\ plan' = [plan EXCEPT ![m] = Optional]
      BY <2>1 DEF PlanRetention, InRetention
    <3> HIDE DEF Optional
    <3>2. \A w \in Maintainer : w # m => plan'[w] = plan[w]
      BY <1>0, <3>1
    <3>3. hal = "off" => plan'["hal"] = {}
      BY <3>1, <3>2 DEF Runs, Quiet, Maintainer
    <3>4. tool.at # "open" => plan'["tool"] = {}
      BY <3>1, <3>2 DEF Runs, Quiet, Maintainer
    <3> QED BY <3>1, <3>3, <3>4 DEF Quiet, Restoring
  <2>2. ASSUME NEW m \in Maintainer, NEW i \in Ids, Evict(m, i) PROVE Quiet'
    <3>1. /\ UNCHANGED <<tool, db, made, hal, leased, job, reading>>
          /\ plan'["hal"] \subseteq plan["hal"] /\ plan'["tool"] \subseteq plan["tool"]
          /\ backup'[i].state = "gone" /\ \A k \in Ids : k # i => backup'[k] = backup[k]
      BY <2>2, EvictOf DEF Maintainer
    <3>2. tool.at = "copying" => tool.new \in Ids
      BY Bounds DEF Quiet, Typed, Ids
    <3>3. tool.at = "copying" => backup'[tool.new].state # "ok"
      BY <3>1, <3>2 DEF Quiet
    <3> QED BY <3>1, <3>3 DEF Quiet, Restoring
  <2> QED BY <1>4, <2>1, <2>2 DEF RetentionStep
<1>5. CASE BeginStep
  <2>1. /\ tool.at = "open" /\ plan["tool"] = {} /\ made \in Nat /\ made' = made + 1
        /\ tool'.at = "copying" /\ tool'.new = made + 1
        /\ backup'[made + 1].state = "partial"
        /\ UNCHANGED <<db, hal, leased, job, reading, plan>>
    BY <1>5, BeginsOf
  <2>2. made' # 0
    BY <2>1
  <2> QED BY <2>1, <2>2 DEF Quiet, Restoring
<1>6. CASE BackupDone
  <2>1. /\ tool.at = "copying" /\ UNCHANGED <<db, hal, leased, job, reading, plan>>
        /\ tool' = NoTool \/ (tool'.at = "replacing" /\ tool'.old = tool.old /\ tool.old # 0)
    BY <1>6, BackupDoneOf
  <2> QED BY <2>1, Bounds DEF Quiet, Restoring
<1>7. CASE BackupFails
  <2>1. tool.at = "copying" /\ UNCHANGED <<db, hal, leased, job, reading, plan>> /\ tool' = NoTool
    BY <1>7, BackupFailsOf
  <2> QED BY <2>1, Bounds DEF Quiet, Restoring
<1>8. CASE RestoreStep
  <2>1. /\ tool.at \in {"replacing", "reopening", "rolling"} /\ UNCHANGED <<made, job, reading, plan>>
        /\ hal' = hal \/ (hal = "on" /\ hal' = "detached")
        /\ \/ tool' = NoTool /\ db' = db /\ leased' = leased /\ db.good
           \/ /\ hal' # "on" /\ db'.good
              /\ tool'.at = "reopening" /\ tool'.old = tool.old
           \/ /\ tool.new \in Ids /\ hal' # "on" /\ ~db'.good /\ db'.content = Empty
              /\ tool'.at = "rolling" /\ tool'.old = tool.old /\ tool'.new = tool.new
           \/ tool' = NoTool /\ hal' # "on" /\ db'.good
    BY <1>8, RestoreOf DEF Valid
  <2> QED BY <2>1, Bounds DEF Quiet, Restoring
<1>9. CASE ToolCrashes
  <2>1. /\ tool' = NoTool /\ plan' = [plan EXCEPT !["tool"] = {}]
        /\ UNCHANGED <<db, hal, leased, job, reading>>
    BY <1>9, ToolCrashesOf
  <2>2. plan'["tool"] = {} /\ plan'["hal"] = plan["hal"]
    BY <1>0, <2>1 DEF Maintainer
  <2> QED BY <2>1, <2>2, Bounds DEF Quiet, Restoring
<1> QED
  BY <1>1, <1>2, <1>3, <1>4, <1>5, <1>6, <1>7, <1>8, <1>9, StepsOf

\* No step but that of a sweep takes evidence away unnoticed.
LEMMA EvidenceKept ==
  ASSUME Evidence, files \cup exposed \subseteq files' \cup exposed',
         db'.content.refs \subseteq db'.content.rows,
         db'.content.rows \subseteq files' \cup exposed',
         \A k \in Ids : backup'[k].state = "ok" =>
           \/ backup[k].state = "ok" /\ backup'[k].content = backup[k].content
           \/ backup'[k].content = db.content,
         tool'.at = "rolling" =>
           /\ tool'.new = tool.new /\ backup'[tool.new].content = backup[tool.new].content
           /\ tool.at = "rolling" \/ tool.new \in Valid,
         job'.at = "row" => job'.blob \in files' \cup exposed',
         hal' = "on" /\ job'.at = "refer" => job'.blob \in db'.content.rows
  PROVE  Evidence'
<1>1. \A k \in Ids : backup'[k].state = "ok" =>
        /\ backup'[k].content.refs \subseteq backup'[k].content.rows
        /\ backup'[k].content.rows \subseteq files' \cup exposed'
  BY DEF Evidence, Sound, Valid
<1>2. tool'.at = "rolling" =>
        /\ backup'[tool'.new].content.refs \subseteq backup'[tool'.new].content.rows
        /\ backup'[tool'.new].content.rows \subseteq files' \cup exposed'
  BY DEF Evidence, Sound
<1> QED
  BY <1>1, <1>2 DEF Evidence, Sound, Valid, Rows

\* In the steps that work on the database itself.
LEMMA EvidencePut ==
  ASSUME Typed, Quiet, Evidence, PutStep
  PROVE  Evidence'
<1>0. /\ db \in DbSet /\ db.content \in Content /\ job \in JobSet
      /\ db.content.refs \subseteq Rows /\ Rows \subseteq files \cup exposed
      /\ UNCHANGED <<hal, backup>> /\ tool'.at = tool.at /\ tool'.new = tool.new
      /\ hal # "on" => db' = db
  <2>1. db \in DbSet /\ db.content \in Content /\ job \in JobSet
    BY DEF Typed, DbSet
  <2>2. db.content.refs \subseteq Rows /\ Rows \subseteq files \cup exposed
    BY DEF Evidence, Sound, Rows
  <2> QED BY <2>1, <2>2, PutOf
<1>1. ASSUME files \cup exposed \subseteq files' \cup exposed',
             db'.content.refs \subseteq db'.content.rows,
             db'.content.rows \subseteq files' \cup exposed',
             job'.at = "row" => job'.blob \in files' \cup exposed',
             hal' = "on" /\ job'.at = "refer" => job'.blob \in db'.content.rows
      PROVE  Evidence'
  BY <1>0, <1>1, EvidenceKept
<1>2. ASSUME NEW b \in Blob, PutLook(b) PROVE Evidence'
  <2>1. /\ UNCHANGED <<db, files, exposed>> /\ job'.at \in {"row", "write"}
        /\ job'.at = "row" => job'.blob \in files
    BY <1>2 DEF PutLook, disk
  <2> QED BY <1>0, <1>1, <2>1 DEF Rows
<1>3. ASSUME NEW b \in Blob, GetRead(b) PROVE Evidence'
  <2>1. UNCHANGED <<db, files, exposed, job>>
    BY <1>3 DEF GetRead, disk
  <2> QED BY <1>0, <1>1, <2>1 DEF Rows, Evidence
<1>4. CASE PutWrite
  <2>1. UNCHANGED <<db, files, exposed>> /\ job'.at = "replace"
    BY <1>0, <1>4 DEF PutWrite, JobSet
  <2> QED BY <1>0, <1>1, <2>1 DEF Rows
<1>5. CASE PutReplace
  <2>1. /\ db' = db /\ files \cup exposed \subseteq files' \cup exposed'
        /\ job'.at \in {"row", "idle"} /\ (job'.at = "row" => job'.blob \in files')
    BY <1>0, <1>5, Bounds DEF PutReplace, JobSet
  <2> QED BY <1>0, <1>1, <2>1 DEF Rows
<1>6. CASE PutRow
  <2> DEFINE c == [db.content EXCEPT !.rows = @ \cup {job.blob}, !.missing = @ \ {job.blob}]
  <2>1. /\ Commit(c) /\ UNCHANGED <<files, exposed>> /\ job.at = "row"
        /\ job'.at = "refer" /\ job'.blob = job.blob /\ job.blob \in Blob
    BY <1>0, <1>6 DEF PutRow, JobSet, Typed
  <2>2. c \in Content /\ c.rows = Rows \cup {job.blob} /\ c.refs = db.content.refs
    BY <1>0, <2>1 DEF Content, Rows
  <2> HIDE DEF c
  <2>3. job.blob \in files \cup exposed
    BY <2>1 DEF Evidence
  <2>4. /\ hal = "on" => db'.content.rows = Rows \cup {job.blob} /\ db'.content.refs = db.content.refs
    BY <1>0, <2>1, <2>2, CommitOf
  <2> QED BY <1>0, <1>1, <2>1, <2>3, <2>4 DEF Rows
<1>7. CASE Refer
  <2> DEFINE c == [db.content EXCEPT !.refs = @ \cup {job.blob}]
  <2>1. /\ Commit(c) /\ UNCHANGED <<files, exposed>> /\ job.at = "refer"
        /\ job'.at = "idle" /\ job.blob \in Blob
    BY <1>0, <1>7, Bounds DEF Refer, Typed
  <2>2. c \in Content /\ c.rows = Rows /\ c.refs = db.content.refs \cup {job.blob}
    BY <1>0, <2>1 DEF Content, Rows
  <2> HIDE DEF c
  <2>3. hal = "on" => job.blob \in Rows
    BY <2>1 DEF Evidence
  <2>4. hal = "on" => db'.content.rows = Rows /\ db'.content.refs = db.content.refs \cup {job.blob}
    BY <1>0, <2>1, <2>2, CommitOf
  <2> QED BY <1>0, <1>1, <2>1, <2>3, <2>4 DEF Rows
<1>8. CASE GetMark
  <2> DEFINE m == IF reading.found THEN db.content.missing \ {reading.blob}
                  ELSE db.content.missing \cup ({reading.blob} \cap Rows)
             c == [db.content EXCEPT !.missing = m]
  <2>1. Commit(c) /\ UNCHANGED <<files, exposed, job>>
    BY <1>8 DEF GetMark
  <2>2. m \in SUBSET Blob
    BY <1>0 DEF Content, Rows
  <2> HIDE DEF m
  <2>3. c \in Content /\ c.rows = Rows /\ c.refs = db.content.refs
    BY <1>0, <2>2 DEF Content, Rows
  <2> HIDE DEF c
  <2>4. hal = "on" => db'.content.rows = Rows /\ db'.content.refs = db.content.refs
    BY <1>0, <2>1, <2>3, CommitOf
  <2> QED BY <1>0, <1>1, <2>1, <2>4 DEF Rows, Evidence
<1> QED
  BY <1>2, <1>3, <1>4, <1>5, <1>6, <1>7, <1>8 DEF PutStep

\* A sweep deletes the file of a blob without a row; one that something relied
\* on is exposed.
LEMMA EvidenceSweep ==
  ASSUME Typed, Quiet, Evidence, CommandStep
  PROVE  Evidence'
<1>0. /\ UNCHANGED <<hal, job, backup>> /\ tool'.at \in Plain
      /\ db'.content.rows = Rows /\ db'.content.refs = db.content.refs
      /\ db.content.refs \subseteq Rows /\ Rows \subseteq files \cup exposed
  BY CommandOf DEF Evidence, Sound, Rows
<1>1. ASSUME NEW b \in Blob, SweepDelete(b) PROVE Evidence'
  <2>1. /\ files' = files \ {b} /\ exposed' = IF b \in files /\ ReliedOn(b)
                                              THEN exposed \cup {b} ELSE exposed
    BY <1>1 DEF SweepDelete
  <2>2. \A d \in files \cup exposed : d \in files' \cup exposed' \/ (d = b /\ ~ReliedOn(b))
    BY <2>1
  <2>3. \A d \in Rows : d \in files' \cup exposed'
    BY <1>0, <2>2 DEF ReliedOn
  <2>4. ASSUME NEW k \in Valid
        PROVE  /\ backup[k].content.refs \subseteq backup[k].content.rows
               /\ backup[k].content.rows \subseteq files' \cup exposed'
    BY <2>2 DEF Evidence, Sound, ReliedOn
  <2>5. job.at = "row" => job.blob \in files' \cup exposed'
    BY <2>2 DEF Evidence, ReliedOn
  <2> QED BY <1>0, <2>3, <2>4, <2>5 DEF Evidence, Sound, Valid, Rows, Plain
<1>2. ASSUME files' = files, exposed' = exposed PROVE Evidence'
  <2>1. job'.at = "row" => job'.blob \in files' \cup exposed'
    BY <1>0, <1>2 DEF Evidence
  <2>2. hal' = "on" /\ job'.at = "refer" => job'.blob \in db'.content.rows
    BY <1>0 DEF Evidence
  <2>3. tool'.at # "rolling"
    BY <1>0 DEF Plain
  <2> QED BY <1>0, <1>2, <2>1, <2>2, <2>3, EvidenceKept
<1> QED
  BY <1>1, <1>2
  DEF CommandStep, ToolStarts, ToolEnds, Integrity, SweepLook, SweepTemp, SweepEnd, LookUp,
      MarkMissing, disk

LEMMA EvidenceNext ==
  ASSUME Typed, Typed', Quiet, Evidence, Points, Next
  PROVE  Evidence'
<1>0. /\ db.content.refs \subseteq db.content.rows /\ db.content.rows \subseteq files \cup exposed
      /\ job.at = "row" => job.blob \in files \cup exposed
      /\ hal = "on" /\ job.at = "refer" => job.blob \in db.content.rows
  BY DEF Evidence, Sound, Rows
<1>1. CASE LifeStep
  <2>1. /\ UNCHANGED <<db, backup>> /\ tool'.at = tool.at /\ tool'.new = tool.new
        /\ files \cup exposed \subseteq files' \cup exposed'
        /\ job' = job \/ job'.at = "idle"
        /\ hal' = hal \/ hal' = "off" \/ (hal = "off" /\ hal' = "on")
    BY <1>1, LifeOf
  <2>2. job'.at = "row" => job'.blob \in files' \cup exposed'
    BY <1>0, <2>1
  <2>3. hal' = "on" /\ job'.at = "refer" => job'.blob \in db'.content.rows
    BY <1>0, <2>1 DEF Quiet
  <2> QED BY <1>0, <2>1, <2>2, <2>3, EvidenceKept
<1>2. CASE RetentionStep
  <2>1. ASSUME NEW m \in Maintainer, PlanRetention(m) PROVE Evidence'
    <3>1. UNCHANGED <<hal, job, tool, db, files, backup, exposed>>
      BY <2>1 DEF PlanRetention, InRetention, history
    <3> QED BY <1>0, <3>1, EvidenceKept
  <2>2. ASSUME NEW m \in Maintainer, NEW i \in Ids, Evict(m, i) PROVE Evidence'
    <3>1. /\ UNCHANGED <<tool, db, files, hal, job, exposed>>
          /\ backup'[i].state = "gone"
          /\ i = tool.new => backup'[i].content = backup[i].content
          /\ \A k \in Ids : k # i => backup'[k] = backup[k]
      BY <2>2, EvictOf DEF history
    <3>2. tool'.at = "rolling" => tool.new \in Ids
      BY <3>1 DEF Quiet
    <3> QED BY <1>0, <3>1, <3>2, EvidenceKept
  <2> QED BY <1>2, <2>1, <2>2 DEF RetentionStep
<1>3. CASE BeginStep
  <2>1. /\ UNCHANGED <<db, hal, job, files, exposed>> /\ tool'.at = "copying"
        /\ backup'[made + 1].state = "partial"
        /\ \A k \in Ids : k # made + 1 => backup'[k] = backup[k]
    BY <1>3, BeginsOf
  <2> QED BY <1>0, <2>1, EvidenceKept
<1>4. CASE BackupDone
  <2>1. /\ UNCHANGED <<db, hal, job, files, exposed>> /\ tool'.at # "rolling"
        /\ backup[tool.new].state = "partial" =>
             backup'[tool.new] = [state |-> "ok", content |-> db.content]
        /\ backup[tool.new].state # "partial" => backup' = backup
        /\ \A k \in Ids : k # tool.new => backup'[k] = backup[k]
    BY <1>4, BackupDoneOf, Bounds
  <2> QED BY <1>0, <2>1, EvidenceKept
<1>5. CASE BackupFails
  <2>1. /\ UNCHANGED <<db, hal, job, files, exposed>> /\ tool'.at # "rolling"
        /\ backup'[tool.new].state = "gone"
        /\ \A k \in Ids : k # tool.new => backup'[k] = backup[k]
    BY <1>5, BackupFailsOf, Bounds
  <2> QED BY <1>0, <2>1, EvidenceKept
<1>6. CASE RestoreStep
  <2>1. /\ UNCHANGED <<files, exposed, backup, job>>
        /\ hal' = "on" => hal = "on" /\ db' = db
        /\ \/ tool' = NoTool /\ db' = db
           \/ /\ tool.old \in Valid /\ tool'.at = "reopening"
              /\ db' = [good |-> TRUE, content |-> backup[tool.old].content]
           \/ /\ tool.new \in Valid /\ tool'.new = tool.new
              /\ db' = [good |-> FALSE, content |-> Empty]
           \/ /\ tool.at = "rolling" /\ tool' = NoTool
              /\ db' = [good |-> TRUE, content |-> backup[tool.new].content]
    BY <1>6, RestoreOf
  <2>2. db'.content.refs \subseteq db'.content.rows /\ db'.content.rows \subseteq files' \cup exposed'
    BY <1>0, <2>1 DEF Evidence, Sound, Empty
  <2>3. tool'.at = "rolling" => tool'.new = tool.new /\ tool.new \in Valid
    BY <2>1, Bounds
  <2> QED BY <1>0, <2>1, <2>2, <2>3, EvidenceKept
<1>7. CASE ToolCrashes
  <2>1. UNCHANGED <<db, files, backup, hal, job, exposed>> /\ tool'.at = "idle"
    BY <1>7, ToolCrashesOf, Bounds
  <2> QED BY <1>0, <2>1, EvidenceKept
<1> QED
  BY <1>1, <1>2, <1>3, <1>4, <1>5, <1>6, <1>7, StepsOf, EvidencePut, EvidenceSweep

LEMMA ReportNext ==
  ASSUME Typed, Quiet, Report, Points, Next
  PROVE  Report'
<1> DEFINE Reporting == {"list", "mark", "reported"}
<1>0. tool \in ToolSet /\ db \in DbSet /\ db.content \in Content
  BY DEF Typed, DbSet
<1>1. ASSUME tool' = tool \/ tool'.at \notin Reporting, files' = files,
             db'.content.rows = Rows, db'.content.missing = db.content.missing
      PROVE  Report'
  BY <1>1 DEF Report, Rows
<1>2. ASSUME tool'.at \notin Reporting PROVE Report'
  BY <1>2 DEF Report
<1>3. CASE PutStep
  <2>1. /\ tool'.at = tool.at
        /\ \/ /\ tool' = tool /\ files' = files
              /\ db'.content.rows = Rows /\ db'.content.missing = db.content.missing
           \/ tool.at \in Reporting => tool'.crossed
    BY <1>3, PutOf
  <2>2. CASE tool.at \in Reporting => tool'.crossed
    BY <2>1, <2>2 DEF Report
  <2> QED BY <2>1, <2>2, <1>1
<1>4. CASE LifeStep
  <2>1. /\ tool'.at = tool.at /\ db' = db
        /\ \/ tool' = tool /\ files' = files
           \/ tool.at \in Reporting => tool'.crossed
    BY <1>4, LifeOf
  <2>2. CASE tool.at \in Reporting => tool'.crossed
    BY <2>1, <2>2 DEF Report
  <2> QED BY <2>1, <2>2, <1>1 DEF Rows
<1>5. CASE SweepEnd
  <2>1. tool'.at = "list" /\ tool'.listed = Rows /\ db' = db
    BY <1>0, <1>5 DEF SweepEnd, ToolSet
  <2> QED BY <2>1 DEF Report, Rows
<1>6. CASE LookUp
  <2>1. /\ tool.at = "list" /\ tool'.at = "mark" /\ tool'.crossed = tool.crossed
        /\ tool'.absent = tool.listed \ files /\ db' = db /\ files' = files
    BY <1>0, <1>6 DEF LookUp, ToolSet
  <2> QED BY <2>1 DEF Report, Rows
<1>7. CASE MarkMissing
  <2>1. /\ tool.at = "mark" /\ tool'.at = "reported" /\ tool'.crossed = tool.crossed
        /\ files' = files
    BY <1>0, <1>7 DEF MarkMissing, ToolSet
  <2>2. db'.content.rows = Rows /\ db'.content.missing = tool.absent \cap Rows
    BY <1>0, <1>7 DEF MarkMissing, DbSet, Content, Rows
  <2> QED BY <2>1, <2>2 DEF Report, Rows
<1>8. CASE \/ ToolStarts \/ ToolEnds \/ (\E delete \in BOOLEAN : Integrity(delete))
           \/ (\E b \in Blob : SweepLook(b) \/ SweepDelete(b) \/ SweepTemp(b))
  <2>1. tool'.at \in {"open", "idle", "sweep"}
    BY <1>0, <1>8, Bounds
    DEF ToolStarts, ToolEnds, Integrity, SweepLook, SweepDelete, SweepTemp, ToolSet
  <2> QED BY <2>1, <1>2
<1>9. CASE RetentionStep
  <2>1. tool' = tool /\ files' = files /\ db' = db
    BY <1>9 DEF RetentionStep, PlanRetention, Evict, InRetention
  <2> QED BY <2>1, <1>1 DEF Rows
<1>10. CASE BeginStep \/ BackupDone \/ BackupFails \/ RestoreStep \/ ToolCrashes
  <2>1. tool'.at \in {"idle", "copying", "replacing", "reopening", "rolling"}
    BY <1>10, BeginsOf, BackupDoneOf, BackupFailsOf, RestoreOf, ToolCrashesOf, Bounds
  <2> QED BY <2>1, <1>2
<1> QED
  BY <1>3, <1>4, <1>5, <1>6, <1>7, <1>8, <1>9, <1>10, StepsOf DEF CommandStep

\* While HAL is off and the tool restores, or the database is torn, nothing that
\* a restore rests on changes.
LEMMA CopiedKept ==
  ASSUME Quiet, Copied, ~slipped, hal' # "detached",
         tool'.at = tool.at, tool'.old = tool.old, tool'.new = tool.new,
         before' = before, db'.good = db.good,
         Restoring \/ ~db.good => hal' = "off" /\ db' = db /\ backup' = backup
  PROVE  Copied'
<1>1. CASE Restoring \/ ~db.good
  BY <1>1 DEF Copied, Restoring, Valid
<1>2. CASE ~(Restoring \/ ~db.good)
  <2>1. tool.at \notin {"replacing", "reopening", "rolling"}
    BY <1>2 DEF Quiet, Restoring
  <2>2. db'.good /\ ~(tool'.at = "copying" /\ tool'.old # 0)
    BY <1>2 DEF Restoring
  <2> QED BY <2>1, <2>2 DEF Copied, Restoring
<1> QED
  BY <1>1, <1>2

LEMMA CopiedNext ==
  ASSUME Typed, Typed', Quiet, Quiet', Copied, Points, Next
  PROVE  Copied'
<1> SUFFICES ASSUME ~slipped' PROVE Copied'
  BY DEF Copied
<1>0. /\ tool \in ToolSet /\ hal \in {"off", "on", "detached"}
      /\ \A k \in Ids : k > made <=> backup[k].state = "none"
  BY DEF Typed
<1>1. CASE PutStep
  <2>1. /\ hal # "off" /\ UNCHANGED <<hal, slipped, before, backup>>
        /\ tool'.at = tool.at /\ tool'.old = tool.old /\ tool'.new = tool.new
        /\ db'.good = db.good
    BY <1>1, PutOf
  <2>2. ~(Restoring \/ ~db.good) /\ hal # "detached"
    BY <2>1 DEF Copied
  <2> QED BY <2>1, <2>2, CopiedKept
<1>2. CASE LifeStep
  <2>1. /\ UNCHANGED <<db, backup, before>>
        /\ tool'.at = tool.at /\ tool'.old = tool.old /\ tool'.new = tool.new
    BY <1>2, LifeOf
  <2>2. ~slipped /\ (hal' = hal \/ hal' = "off" \/ (hal' = "on" /\ ~Restoring /\ db.good))
    <3>1. CASE HalStarts
      <4>1. slipped' = (slipped \/ Restoring) /\ hal' = "on" /\ db.good
        BY <3>1 DEF HalStarts
      <4> QED BY <4>1, Zenon
    <3>2. CASE HalStops \/ HalCrashes \/ LeaseLapses \/ \E b \in Blob : LoseFile(b)
      BY <3>2 DEF HalStops, HalCrashes, LeaseLapses, LoseFile, history
    <3> QED BY <1>2, <3>1, <3>2 DEF LifeStep
  <2>3. hal' # "detached" /\ (Restoring \/ ~db.good => hal' = "off")
    BY <2>2 DEF Copied
  <2> QED BY <2>1, <2>2, <2>3, CopiedKept
<1>3. CASE CommandStep
  <2>1. /\ UNCHANGED <<hal, slipped, backup>>
        /\ tool'.at \in Plain /\ db'.good
    BY <1>3, CommandOf
  <2> QED BY <2>1 DEF Copied, Restoring, Plain
<1>4. CASE RetentionStep
  <2>1. UNCHANGED <<tool, db, hal, slipped, before>>
    BY <1>4 DEF RetentionStep, PlanRetention, Evict, InRetention, history
  <2>2. Restoring \/ ~db.good => backup' = backup
    <3>1. SUFFICES ASSUME Restoring \/ ~db.good PROVE backup' = backup
      OBVIOUS
    <3>2. hal = "off" /\ tool.at # "open"
      BY <3>1, <2>1 DEF Copied, Restoring, Quiet
    <3>3. \A m \in Maintainer : plan[m] = {}
      BY <3>2 DEF Quiet, Maintainer
    <3> QED BY <3>3, <1>4 DEF RetentionStep, PlanRetention, Evict
  <2>3. hal' # "detached" /\ (Restoring \/ ~db.good => hal' = "off" /\ db' = db)
    BY <2>1 DEF Copied
  <2> QED BY <2>1, <2>2, <2>3, CopiedKept
<1>5. CASE BeginStep
  <2>1. /\ UNCHANGED <<db, leased, hal, slipped, before>>
        /\ tool.at = "open" /\ (tool'.old = 0 \/ ~leased)
        /\ backup'[made + 1].state = "partial"
        /\ tool'.at = "copying" /\ tool'.new = made + 1
    BY <1>5, BeginsOf
  <2>2. db.good /\ hal # "detached"
    BY <2>1 DEF Quiet, Copied
  <2>3. tool'.old # 0 => hal' = "off"
    BY <1>0, <2>1, <2>2 DEF Quiet
  <2> QED BY <2>1, <2>2, <2>3 DEF Copied, Restoring
<1>6. CASE BackupDone
  <2>1. /\ tool.at = "copying" /\ UNCHANGED <<db, hal, slipped>>
        /\ backup[tool.new].state = "partial" =>
             backup'[tool.new] = [state |-> "ok", content |-> db.content]
        /\ tool.new \in Ids
        /\ tool.old = 0 => tool' = NoTool
        /\ tool.old # 0 => /\ tool'.at = "replacing" /\ tool'.new = tool.new
                           /\ before' = db.content
    BY <1>6, BackupDoneOf
  <2>2. db.good /\ hal # "detached"
    BY <2>1 DEF Quiet, Copied
  <2>3. CASE tool.old = 0
    BY <2>1, <2>2, <2>3, Bounds DEF Copied, Restoring
  <2>4. CASE tool.old # 0
    <3>1. hal = "off" /\ backup[tool.new].state = "partial"
      BY <2>1, <2>4 DEF Copied, Restoring
    <3> QED BY <2>1, <2>2, <2>4, <3>1 DEF Copied, Restoring, Valid
  <2> QED BY <2>3, <2>4
<1>7. CASE BackupFails
  <2>1. tool.at = "copying" /\ UNCHANGED <<db, hal, slipped>> /\ tool' = NoTool
    BY <1>7, BackupFailsOf
  <2>2. db.good /\ hal # "detached"
    BY <2>1 DEF Quiet, Copied
  <2> QED BY <2>1, <2>2, Bounds DEF Copied, Restoring
<1>8. CASE RestoreStep
  <2>1. /\ tool.at \in {"replacing", "reopening", "rolling"}
        /\ UNCHANGED <<backup, slipped>>
        /\ hal' = hal \/ (hal = "on" /\ hal' = "detached")
    BY <1>8, RestoreOf
  <2>2. /\ hal = "off" /\ hal' = "off" /\ tool.new \in Valid /\ backup[tool.new].content = before
    BY <2>1 DEF Copied, Restoring, Quiet
  <2>3. CASE tool' = NoTool /\ (db' = db /\ db.good)
    BY <2>1, <2>2, <2>3, Bounds DEF Copied, Restoring
  <2>4. CASE tool' = NoTool /\ db' = [good |-> TRUE, content |-> backup[tool.new].content]
    BY <2>1, <2>2, <2>4, Bounds DEF Copied, Restoring
  <2>5. CASE /\ tool.old \in Valid /\ db' = [good |-> TRUE, content |-> backup[tool.old].content]
             /\ tool'.at = "reopening" /\ tool'.old = tool.old /\ tool'.new = tool.new
             /\ before' = before
    BY <2>1, <2>2, <2>5 DEF Copied, Restoring, Valid
  <2>6. CASE /\ db' = [good |-> FALSE, content |-> Empty]
             /\ tool'.at = "rolling" /\ tool'.old = tool.old /\ tool'.new = tool.new
             /\ before' = before
    BY <2>1, <2>2, <2>6 DEF Copied, Restoring, Valid
  <2> QED BY <2>3, <2>4, <2>5, <2>6, <1>8, RestoreOf
<1>9. CASE ToolCrashes
  <2>1. /\ tool' = NoTool /\ (~db.good => before' = before)
        /\ UNCHANGED <<db, backup, hal, slipped>>
    BY <1>9, ToolCrashesOf
  <2> QED BY <2>1, Bounds DEF Copied, Restoring, Valid
<1> QED
  BY <1>1, <1>2, <1>3, <1>4, <1>5, <1>6, <1>7, <1>8, <1>9, StepsOf

LEMMA SpoiledOf ==
  ASSUME Typed, NEW m \in 0..MaxBackup
  PROVE  /\ IsFiniteSet(Spoiled(m)) /\ Cardinality(Spoiled(m)) \in Nat
         /\ made \in Nat /\ m \in Nat /\ Spoiled(m) \subseteq Ids
<1>1. made \in 0..MaxBackup /\ made \in Nat /\ m \in Nat
  BY Bounds DEF Typed
<1>2. IsFiniteSet((m + 1)..made) /\ (m + 1)..made \subseteq Ids
  <2>1. m + 1 \in Int /\ made \in Int
    BY <1>1
  <2>2. (m + 1)..made \subseteq 1..MaxBackup
    BY <1>1, Bounds
  <2> QED BY <2>1, <2>2, FS_Interval DEF Ids
<1>3. Spoiled(m) \subseteq (m + 1)..made
  BY DEF Spoiled
<1> QED
  BY <1>1, <1>2, <1>3, FS_Subset, FS_CardinalityType

\* Nothing about the backups changes, or the one that is copied is given up.
LEMMA PointsKept ==
  ASSUME Points, backup' = backup, made' = made, undone' + Copying' = undone + Copying,
         tool'.at = "copying" => tool.at = "copying" /\ tool'.new = tool.new,
         \A w \in Maintainer : plan'[w] \subseteq plan[w]
  PROVE  Points'
<1>1. PICK m \in 0..MaxBackup : Spared(m)
  BY DEF Points
<1>2. \A w \in Maintainer : \A i \in plan'[w] : i + Keep <= made'
  BY DEF Points
<1>3. Spoiled(m)' = Spoiled(m)
  BY DEF Spoiled
<1>4. Spared(m)'
  BY <1>1, <1>3 DEF Spared
<1> QED
  BY <1>2, <1>4 DEF Points

\* What may be deleted has Keep younger backups, and goes on to have them.
LEMMA PointsEvict ==
  ASSUME Typed, Points, RetentionStep
  PROVE  Points'
<1>1. ASSUME NEW m \in Maintainer, PlanRetention(m) PROVE Points'
  <2>1. /\ UNCHANGED <<backup, tool, made, undone>>
        /\ plan' = [plan EXCEPT ![m] = Optional] /\ \A i \in Optional : i + Keep <= made
    BY <1>1, OptionalOf DEF PlanRetention, InRetention, history
  <2> HIDE DEF Optional
  <2>2. \A w \in Maintainer : \A i \in plan'[w] : i + Keep <= made'
    BY <2>1 DEF Points, Typed
  <2>3. PICK w \in 0..MaxBackup : Spared(w)
    BY DEF Points
  <2>4. Spared(w)'
    BY <2>1, <2>3 DEF Spared, Spoiled, Copying
  <2> QED BY <2>2, <2>4 DEF Points
<1>2. ASSUME NEW m \in Maintainer, NEW i \in Ids, Evict(m, i) PROVE Points'
  <2>1. /\ i + Keep <= made /\ UNCHANGED <<tool, made, undone>>
        /\ \A k \in Ids : k # i => backup'[k] = backup[k]
        /\ \A w \in Maintainer : plan'[w] \subseteq plan[w]
    BY <1>2, EvictOf DEF history
  <2>2. \A w \in Maintainer : \A k \in plan'[w] : k + Keep <= made'
    BY <2>1 DEF Points
  <2>3. PICK s \in 0..MaxBackup : Spared(s)
    BY DEF Points
  <2>4. PICK r \in 0..MaxBackup : r >= s /\ r >= i /\ r \in {s, i}
    <3>1. i \in 0..MaxBackup /\ i \in Nat /\ s \in Nat
      BY Bounds DEF Ids
    <3>2. CASE s >= i
      BY <3>1, <3>2
    <3>3. CASE ~(s >= i)
      BY <3>1, <3>3
    <3> QED BY <3>2, <3>3
  <2>5. s \in Nat /\ r \in Nat /\ i \in Nat /\ made \in Nat /\ made \in 0..MaxBackup
    BY Bounds DEF Ids, Typed
  <2>6. r = 0 \/ r + Keep <= made'
    BY <2>1, <2>3, <2>4 DEF Spared
  <2>7. Spoiled(r)' \subseteq Spoiled(s)
    <3>1. SUFFICES ASSUME NEW k \in (r + 1)..made, backup'[k].state # "ok"
                   PROVE  k \in (s + 1)..made /\ backup[k].state # "ok"
      BY <2>1 DEF Spoiled
    <3>2. k \in (s + 1)..made /\ k # i /\ k \in Ids
      BY <2>4, <2>5, Bounds DEF Ids
    <3> QED BY <3>1, <3>2, <2>1
  <2>8. Cardinality(Spoiled(r)') <= undone' + Copying'
    <3>1. /\ Cardinality(Spoiled(r)') <= Cardinality(Spoiled(s))
          /\ Cardinality(Spoiled(s)) \in Nat /\ Cardinality(Spoiled(r)') \in Nat
      BY <2>7, SpoiledOf, FS_Subset, FS_CardinalityType
    <3>2. Cardinality(Spoiled(s)) <= undone + Copying /\ undone \in Nat /\ Copying \in Nat
      BY <2>3 DEF Spared, Typed, Copying
    <3>3. undone' = undone /\ Copying' = Copying
      BY <2>1 DEF Copying
    <3> QED BY <3>1, <3>2, <3>3
  <2>9. tool'.at = "copying" /\ tool'.new > r => backup'[tool'.new].state = "partial"
    <3>1. SUFFICES ASSUME tool.at = "copying", tool.new > r
                   PROVE  backup'[tool.new].state = "partial"
      BY <2>1
    <3>2. tool.new \in 0..MaxBackup
      BY DEF Typed, ToolSet
    <3>3. tool.new > s /\ tool.new # i /\ tool.new \in Ids
      BY <3>1, <3>2, <2>4, <2>5, Bounds DEF Ids
    <3> QED BY <3>1, <3>3, <2>1, <2>3 DEF Spared
  <2>10. Spared(r)'
    BY <2>6, <2>8, <2>9 DEF Spared
  <2> QED BY <2>2, <2>10 DEF Points
<1> QED
  BY <1>1, <1>2 DEF RetentionStep

\* A backup that is begun counts as spoiled until it is done.
LEMMA PointsBegin ==
  ASSUME Typed, Quiet, Points, BeginStep
  PROVE  Points'
<1>1. /\ tool.at = "open" /\ tool'.at = "copying" /\ tool'.new = made + 1
      /\ made \in Nat /\ made' = made + 1 /\ made + 1 \in Ids
      /\ backup'[made + 1].state = "partial"
      /\ \A k \in Ids : k # made + 1 => backup'[k] = backup[k]
      /\ UNCHANGED <<plan, undone>>
  BY BeginsOf
<1>2. PICK m \in 0..MaxBackup : Spared(m)
  BY DEF Points
<1>3. m \in Nat /\ undone \in Nat /\ Copying = 0 /\ Copying' = 1
  BY <1>1, Bounds DEF Typed, Copying
<1>4. ASSUME NEW w \in Maintainer, NEW i \in plan'[w] PROVE i + Keep <= made'
  <2>1. i + Keep <= made /\ i \in Nat
    BY <1>1, <1>4, Bounds DEF Points, Typed, Ids
  <2> QED BY <1>1, <2>1, Bounds
<1>5. m = 0 \/ m + Keep <= made'
  BY <1>1, <1>2, <1>3, Bounds DEF Spared
<1>6. Spoiled(m)' \subseteq Spoiled(m) \cup {made + 1}
  <2>1. SUFFICES ASSUME NEW k \in (m + 1)..(made + 1), backup'[k].state # "ok", k # made + 1
                 PROVE  k \in (m + 1)..made /\ backup[k].state # "ok"
    BY <1>1 DEF Spoiled
  <2>2. k \in (m + 1)..made /\ k \in Ids
    BY <2>1, <1>1, <1>3, Bounds DEF Ids
  <2> QED BY <2>1, <2>2, <1>1
<1>7. Cardinality(Spoiled(m)') <= undone' + Copying'
  <2>1. /\ IsFiniteSet(Spoiled(m)) /\ Cardinality(Spoiled(m)) \in Nat
        /\ Cardinality(Spoiled(m)) <= undone
    BY <1>2, <1>3, SpoiledOf DEF Spared
  <2>2. /\ IsFiniteSet(Spoiled(m) \cup {made + 1})
        /\ Cardinality(Spoiled(m) \cup {made + 1}) <= Cardinality(Spoiled(m)) + 1
        /\ Cardinality(Spoiled(m) \cup {made + 1}) \in Nat
    <3>1. /\ IsFiniteSet(Spoiled(m) \cup {made + 1})
          /\ Cardinality(Spoiled(m) \cup {made + 1}) =
               IF made + 1 \in Spoiled(m) THEN Cardinality(Spoiled(m)) ELSE Cardinality(Spoiled(m)) + 1
      BY <2>1, FS_AddElement
    <3> QED BY <2>1, <3>1
  <2>3. /\ Cardinality(Spoiled(m)') <= Cardinality(Spoiled(m) \cup {made + 1})
        /\ Cardinality(Spoiled(m)') \in Nat
    BY <1>6, <2>2, FS_Subset, FS_CardinalityType
  <2> QED BY <2>1, <2>2, <2>3, <1>1, <1>3
<1>8. Spared(m)'
  BY <1>1, <1>5, <1>7 DEF Spared
<1> QED
  BY <1>4, <1>8 DEF Points

\* When the copy ends it is valid, or one more was begun in vain.
LEMMA PointsEnd ==
  ASSUME Typed, Quiet, Points, BackupDone \/ BackupFails
  PROVE  Points'
<1>1. /\ tool.at = "copying" /\ tool.new = made /\ made \in Ids /\ tool'.at # "copying"
      /\ \A k \in Ids : k # made => backup'[k] = backup[k]
      /\ UNCHANGED <<plan, made>>
  BY BackupDoneOf, BackupFailsOf, Bounds
<1>2. \/ undone' = undone /\ (backup[made].state = "partial" => backup'[made].state = "ok")
      \/ undone' = undone + 1
  BY BackupDoneOf, BackupFailsOf
<1>3. PICK m \in 0..MaxBackup : Spared(m)
  BY DEF Points
<1>4. m \in Nat /\ made \in Nat /\ undone \in Nat /\ Copying = 1 /\ Copying' = 0
  BY <1>1, Bounds DEF Typed, Copying, Ids
<1>5. /\ IsFiniteSet(Spoiled(m)) /\ Cardinality(Spoiled(m)) \in Nat
      /\ Cardinality(Spoiled(m)) <= undone + 1
  BY <1>3, <1>4, SpoiledOf DEF Spared
<1>6. CASE ~(made > m)
  <2>1. Spoiled(m)' = {}
    BY <1>1, <1>4, <1>6 DEF Spoiled
  <2>2. Cardinality(Spoiled(m)') <= undone' + Copying'
    BY <2>1, <1>2, <1>4, FS_EmptySet
  <2>3. Spared(m)'
    BY <1>1, <1>3, <2>2 DEF Spared
  <2> QED BY <1>1, <2>3 DEF Points
<1>7. CASE made > m
  <2>1. backup[made].state = "partial" /\ made \in Spoiled(m)
    BY <1>1, <1>3, <1>4, <1>7 DEF Spared, Spoiled
  <2>2. Spoiled(m)' \subseteq Spoiled(m)
    <3>1. SUFFICES ASSUME NEW k \in (m + 1)..made, backup'[k].state # "ok", k # made
                   PROVE  backup[k].state # "ok"
      BY <1>1, <2>1 DEF Spoiled
    <3>2. k \in Ids
      BY <1>1, <1>4, Bounds DEF Ids
    <3> QED BY <3>1, <3>2, <1>1
  <2>3. undone' = undone => Spoiled(m)' \subseteq Spoiled(m) \ {made}
    <3>1. undone # undone + 1
      BY <1>4
    <3>2. undone' = undone => backup'[made].state = "ok"
      BY <1>2, <2>1, <3>1
    <3>3. undone' = undone => made \notin Spoiled(m)'
      BY <1>1, <3>2 DEF Spoiled
    <3> QED BY <2>2, <3>3
  <2>4. Cardinality(Spoiled(m)') <= undone' + Copying'
    <3>1. CASE undone' = undone
      <4>1. /\ IsFiniteSet(Spoiled(m) \ {made})
            /\ Cardinality(Spoiled(m) \ {made}) = Cardinality(Spoiled(m)) - 1
        BY <1>5, <2>1, FS_RemoveElement
      <4>2. /\ Cardinality(Spoiled(m)') <= Cardinality(Spoiled(m) \ {made})
            /\ Cardinality(Spoiled(m)') \in Nat
        BY <2>3, <3>1, <4>1, FS_Subset, FS_CardinalityType
      <4> QED BY <1>4, <1>5, <3>1, <4>1, <4>2
    <3>2. CASE undone' = undone + 1
      <4>1. /\ Cardinality(Spoiled(m)') <= Cardinality(Spoiled(m))
            /\ Cardinality(Spoiled(m)') \in Nat
        BY <1>5, <2>2, FS_Subset, FS_CardinalityType
      <4> QED BY <1>4, <1>5, <3>2, <4>1
    <3> QED BY <1>2, <3>1, <3>2
  <2>5. Spared(m)'
    BY <1>1, <1>3, <2>4 DEF Spared
  <2> QED BY <1>1, <2>5 DEF Points
<1> QED
  BY <1>6, <1>7

LEMMA PointsNext ==
  ASSUME Typed, Quiet, Points, Next
  PROVE  Points'
<1>0. plan \in [Maintainer -> SUBSET Ids] /\ undone \in Nat /\ Copying \in Nat
  BY DEF Typed, Copying
<1>1. CASE PutStep
  BY <1>1, PutOf, PointsKept DEF Copying
<1>2. CASE LifeStep
  <2>1. /\ UNCHANGED <<backup, made, undone>> /\ tool'.at = tool.at /\ tool'.new = tool.new
        /\ plan' = plan \/ plan' = [plan EXCEPT !["hal"] = {}]
    BY <1>2, LifeOf
  <2>2. \A w \in Maintainer : plan'[w] \subseteq plan[w]
    BY <1>0, <2>1
  <2> QED BY <2>1, <2>2, PointsKept DEF Copying
<1>3. CASE CommandStep
  <2>1. UNCHANGED <<backup, made, undone, plan>> /\ tool.at # "copying" /\ tool'.at # "copying"
    BY <1>3, CommandOf DEF Plain
  <2> QED BY <2>1, PointsKept DEF Copying
<1>4. CASE RestoreStep
  <2>1. UNCHANGED <<backup, made, undone, plan>> /\ tool.at # "copying" /\ tool'.at # "copying"
    BY <1>4, RestoreOf, Bounds
  <2> QED BY <2>1, PointsKept DEF Copying
<1>5. CASE ToolCrashes
  <2>1. /\ UNCHANGED <<backup, made>> /\ tool' = NoTool
        /\ undone' = undone + Copying /\ plan' = [plan EXCEPT !["tool"] = {}]
    BY <1>5, ToolCrashesOf
  <2>2. \A w \in Maintainer : plan'[w] \subseteq plan[w]
    BY <1>0, <2>1
  <2>3. Copying' = 0 /\ tool'.at # "copying"
    BY <2>1, Bounds DEF Copying
  <2>4. undone' + Copying' = undone + Copying
    BY <1>0, <2>1, <2>3
  <2> QED BY <2>1, <2>2, <2>3, <2>4, PointsKept
<1> QED
  BY <1>1, <1>2, <1>3, <1>4, <1>5, StepsOf, PointsEvict, PointsBegin, PointsEnd

LEMMA InitInv == Init => Inv
<1> SUFFICES ASSUME Init PROVE Inv
  OBVIOUS
<1>1. Typed
  <2>1. db \in DbSet /\ db.good /\ db.content = Empty /\ job \in JobSet /\ job.at = "idle"
        /\ reading = NoRead /\ reading \in ReadSet /\ tool = NoTool /\ tool \in ToolSet
    BY Bounds DEF Init, DbSet
  <2>2. backup \in [Ids -> BackupSet] /\ \A i \in Ids : backup[i].state = "none"
    BY Bounds DEF Init, BackupSet
  <2>3. \A i \in Ids : i > made
    BY Bounds DEF Init, Ids
  <2>4. plan \in [Maintainer -> SUBSET Ids] /\ made \in 0..MaxBackup /\ left \in 0..MaxTrouble
    BY Bounds DEF Init
  <2>5. /\ files = {} /\ temps = {} /\ hal = "off" /\ leased = FALSE
        /\ exposed = {} /\ slipped = FALSE /\ before = Empty /\ undone = 0
    BY DEF Init
  <2> QED BY <2>1, <2>2, <2>3, <2>4, <2>5, Bounds DEF Typed
<1>2. Quiet
  BY Bounds DEF Init, Quiet, Restoring, Maintainer
<1>3. Evidence
  BY Bounds DEF Init, Evidence, Sound, Valid, Rows, Empty
<1>4. Report
  BY Bounds DEF Init, Report
<1>5. Copied
  BY Bounds DEF Init, Copied, Restoring
<1>6. Points
  <2>1. made = 0 /\ undone = 0 /\ tool.at = "idle" /\ plan = [m \in Maintainer |-> {}]
    BY Bounds DEF Init
  <2>2. Spoiled(0) = {} /\ Copying = 0
    BY <2>1 DEF Spoiled, Copying
  <2>3. Spared(0) /\ 0 \in 0..MaxBackup
    BY <2>1, <2>2, FS_EmptySet, Bounds DEF Spared
  <2> QED BY <2>1, <2>3 DEF Points
<1> QED
  BY <1>1, <1>2, <1>3, <1>4, <1>5, <1>6 DEF Inv

LEMMA NextInv == Inv /\ [Next]_vars => Inv'
<1>1. ASSUME Inv, Next PROVE Inv'
  <2>1. Typed /\ Quiet /\ Evidence /\ Report /\ Copied /\ Points
    BY <1>1 DEF Inv
  <2>2. Typed'
    BY <1>1, <2>1, NextType
  <2>3. Quiet' /\ Points' /\ Report'
    BY <1>1, <2>1, <2>2, QuietNext, PointsNext, ReportNext
  <2>4. Evidence' /\ Copied'
    BY <1>1, <2>1, <2>2, <2>3, EvidenceNext, CopiedNext
  <2> QED BY <2>2, <2>3, <2>4 DEF Inv
<1>2. ASSUME Inv, UNCHANGED vars PROVE Inv'
  <2>1. UNCHANGED <<db, files, temps, backup, made, hal, leased, job, reading, tool, plan, left,
                    exposed, slipped, before, undone>>
    BY <1>2 DEF vars, disk, history
  <2>2. Typed' /\ Quiet'
    BY <1>2, <2>1 DEF Inv, Typed, Quiet, Restoring
  <2>3. Evidence' /\ Report'
    BY <1>2, <2>1 DEF Inv, Evidence, Sound, Valid, Rows, Report
  <2>4. Copied'
    BY <1>2, <2>1 DEF Inv, Copied, Restoring, Valid
  <2>5. Points'
    BY <1>2, <2>1, PointsKept DEF Inv, Copying
  <2> QED BY <2>2, <2>3, <2>4, <2>5 DEF Inv
<1> QED
  BY <1>1, <1>2

LEMMA Always == Spec => []Inv
BY InitInv, NextInv, PTL DEF Spec

-----------------------------------------------------------------------------
(***************************************************************************)
(* The theorems.                                                           *)
(***************************************************************************)

\* Backups are numbered without a gap, and every process is in a state that its
\* code has.
THEOREM TypeCorrect == Spec => []TypeOK
<1>1. Inv => TypeOK
  BY TypedIs DEF Inv
<1> QED
  BY <1>1, Always, PTL

\* Whatever crashes, restores and sweeps come between: what an exact record
\* refers to has a row, and a row has its file, unless the disk lost the file or
\* a sweep took it beneath a put, a row or a backup (put, reconcile,
\* restore_backup).
THEOREM EvidenceIsReadable == Spec => []EvidenceReadable
<1>1. Inv => EvidenceReadable
  BY DEF Inv, Evidence, Sound, EvidenceReadable, Rows
<1> QED
  BY <1>1, Always, PTL

\* An integrity run that no put, get or lost file came into marks as missing
\* exactly the rows without a file (reconcile).
THEOREM IntegrityIsExact == Spec => []IntegrityExact
<1>1. Inv => IntegrityExact
  BY TypedIs DEF Inv, Report, IntegrityExact
<1> QED
  BY <1>1, Always, PTL

\* Where the content of the live database goes back, a valid backup has it.
LEMMA RestoreKeeps ==
  ASSUME Typed, Quiet, Copied, Points, Next, ~slipped', db.good,
         ~(Rows \cup db.content.refs \subseteq db'.content.rows \cup db'.content.refs)
  PROVE  \E i \in Valid : backup'[i].content = db.content
<1>1. RestoreStep /\ db' # db
  <2>1. CASE PutStep
    BY <2>1, PutOf
  <2>2. CASE LifeStep
    BY <2>2, LifeOf DEF Rows
  <2>3. CASE CommandStep
    BY <2>3, CommandOf
  <2>4. CASE RetentionStep
    BY <2>4 DEF RetentionStep, PlanRetention, Evict, InRetention, Rows
  <2>5. CASE BeginStep \/ BackupDone \/ BackupFails \/ ToolCrashes
    BY <2>5, BeginsOf, BackupDoneOf, BackupFailsOf, ToolCrashesOf DEF Rows
  <2>6. db' = db => FALSE
    BY DEF Rows
  <2> QED BY <2>1, <2>2, <2>3, <2>4, <2>5, <2>6, StepsOf
<1>2. /\ backup' = backup /\ ~slipped /\ tool.at \in {"replacing", "reopening"}
      /\ tool.at = "reopening" \/ tool.at = "replacing"
  BY <1>1, RestoreOf
<1>3. CASE tool.at = "replacing"
  BY <1>2, <1>3 DEF Copied
<1>4. CASE tool.at = "reopening"
  BY <1>2, <1>4 DEF Copied
<1> QED
  BY <1>2, <1>3, <1>4

\* A restore is safe at each of its steps, as long as HAL was not started while
\* it was under way: a torn database has a valid backup of what it held, and
\* nothing committed is overwritten that no valid backup holds (restore_backup).
THEOREM RestoresAreSafe == Spec => RestoreSafe
<1>1. ASSUME Inv, Inv', Next PROVE Recoverable'
  BY <1>1 DEF Inv, Copied, Recoverable
<1>2. ASSUME Inv, Inv', [Next]_vars
      PROVE  [/\ Recoverable'
              /\ ~slipped' /\ db.good /\ ~(Rows \cup db.content.refs \subseteq
                                db'.content.rows \cup db'.content.refs)
                   => \E i \in Valid : backup'[i].content = db.content]_vars
  BY <1>1, <1>2, RestoreKeeps DEF Inv
<1> QED
  BY <1>2, Always, PTL DEF Spec, RestoreSafe

\* With a valid backup for each that was not begun in vain, after the newest
\* that was evicted.
LEMMA CountLeft ==
  ASSUME NEW n \in 0..MaxBackup, NEW m \in 0..MaxBackup, NEW ok \in SUBSET Ids, NEW u \in Nat,
         Keep <= n, m = 0 \/ m + Keep <= n,
         Cardinality({k \in (m + 1)..n : k \notin ok}) <= u
  PROVE  Cardinality(ok) + u >= Keep
<1> DEFINE After == (m + 1)..n
           Bad == {k \in After : k \notin ok}
<1>1. m \in Nat /\ n \in Nat /\ m <= n
  BY Bounds
<1>2. IsFiniteSet(After) /\ Cardinality(After) = n - m
  <2>1. m + 1 \in Int /\ n \in Int
    BY <1>1
  <2>2. IsFiniteSet(After) /\ Cardinality(After) = (IF m + 1 > n THEN 0 ELSE n - (m + 1) + 1)
    BY <2>1, FS_Interval
  <2> QED BY <1>1, <2>2
<1>3. IsFiniteSet(ok) /\ Cardinality(ok) \in Nat
  <2>1. IsFiniteSet(Ids)
    <3>1. 1 \in Int /\ MaxBackup \in Int
      BY Bounds
    <3> QED BY <3>1, FS_Interval DEF Ids
  <2> QED BY <2>1, FS_Subset, FS_CardinalityType
<1>4. IsFiniteSet(Bad) /\ Cardinality(Bad) \in Nat /\ Cardinality(Bad) <= u
  <2>1. Bad \subseteq After
    OBVIOUS
  <2> QED BY <2>1, <1>2, FS_Subset, FS_CardinalityType
<1>5. /\ IsFiniteSet(ok \cup Bad) /\ Cardinality(ok \cup Bad) \in Nat
      /\ Cardinality(ok \cup Bad) <= Cardinality(ok) + Cardinality(Bad)
  <2>1. /\ IsFiniteSet(ok \cup Bad)
        /\ Cardinality(ok \cup Bad) = Cardinality(ok) + Cardinality(Bad) - Cardinality(ok \cap Bad)
    BY <1>3, <1>4, FS_Union
  <2>2. Cardinality(ok \cap Bad) \in Nat
    <3>1. IsFiniteSet(ok \cap Bad)
      BY <1>3, FS_Subset
    <3> QED BY <3>1, FS_CardinalityType
  <2>3. Cardinality(ok \cup Bad) \in Nat
    BY <2>1, FS_CardinalityType
  <2> QED BY <1>3, <1>4, <2>1, <2>2, <2>3
<1>6. Cardinality(After) <= Cardinality(ok \cup Bad)
  <2>1. After \subseteq ok \cup Bad
    OBVIOUS
  <2> QED BY <2>1, <1>5, FS_Subset
<1>7. Keep <= n - m
  BY <1>1, Bounds
<1> HIDE DEF After, Bad
<1>8. Keep <= Cardinality(ok) + Cardinality(Bad)
  BY <1>1, <1>2, <1>3, <1>4, <1>5, <1>6, <1>7, Bounds
<1> QED
  BY <1>3, <1>4, <1>8, Bounds

\* A valid backup goes only where retention deletes it.
LEMMA GoneOf ==
  ASSUME Typed, Quiet, Points, Next, NEW i \in Valid, backup'[i].state = "gone"
  PROVE  Keep <= made'
<1>1. i \in Ids /\ backup[i].state = "ok" /\ backup' # backup
  BY DEF Valid
<1>2. CASE RetentionStep
  <2>1. PICK m \in Maintainer : PlanRetention(m) \/ \E k \in Ids : Evict(m, k)
    BY <1>2 DEF RetentionStep
  <2>2. PICK k \in Ids : Evict(m, k)
    BY <2>1, <1>1 DEF PlanRetention
  <2>3. k + Keep <= made /\ made' = made
    BY <2>2, EvictOf
  <2>4. k \in Nat /\ made \in Nat
    BY Bounds DEF Ids, Typed
  <2> QED BY <2>3, <2>4, Bounds
<1>3. CASE PutStep \/ LifeStep \/ CommandStep \/ RestoreStep \/ ToolCrashes
  BY <1>1, <1>3, PutOf, LifeOf, CommandOf, RestoreOf, ToolCrashesOf
<1>4. CASE BeginStep
  <2>1. /\ backup[made + 1].state = "none"
        /\ \A k \in Ids : k # made + 1 => backup'[k] = backup[k]
    BY <1>4, BeginsOf
  <2> QED BY <1>1, <2>1
<1>5. CASE BackupDone
  BY <1>1, <1>5, BackupDoneOf
<1>6. CASE BackupFails
  <2>1. /\ tool.at = "copying" /\ \A k \in Ids : k # tool.new => backup'[k] = backup[k]
    BY <1>6, BackupFailsOf
  <2> QED BY <1>1, <2>1 DEF Quiet
<1> QED
  BY <1>2, <1>3, <1>4, <1>5, <1>6, StepsOf

\* Eviction leaves the newest recovery points, whatever the runs of retention
\* and of hal-self that overlap (RetentionManager.run, evict_backups).
THEOREM RecoveryPointsAreLeft == Spec => RecoveryPoints
<1>1. ASSUME Inv, Inv', Next, NEW i \in Valid, backup'[i].state = "gone"
      PROVE  Cardinality({k \in Ids : backup'[k].state = "ok"}) + undone'
               + (IF tool'.at = "copying" THEN 1 ELSE 0) >= Keep
  <2>1. Keep <= made'
    BY <1>1, GoneOf DEF Inv
  <2>2. PICK m \in 0..MaxBackup : Spared(m)'
    BY <1>1 DEF Inv, Points
  <2>3. made' \in 0..MaxBackup /\ undone' \in Nat /\ Copying' \in Nat
    BY <1>1 DEF Inv, Typed, Copying
  <2> DEFINE ok == {k \in Ids : backup'[k].state = "ok"}
  <2>4. {k \in (m + 1)..made' : k \notin ok} = Spoiled(m)'
    <3>1. (m + 1)..made' \subseteq Ids
      BY <2>3, Bounds DEF Ids
    <3> QED BY <3>1 DEF Spoiled
  <2>5. /\ m = 0 \/ m + Keep <= made'
        /\ Cardinality({k \in (m + 1)..made' : k \notin ok}) <= undone' + Copying'
    BY <2>2, <2>4 DEF Spared
  <2>6. ok \in SUBSET Ids
    OBVIOUS
  <2> HIDE DEF ok
  <2>7. PICK u \in Nat : u = undone' + Copying'
    <3>1. \A a, b \in Nat : a + b \in Nat
      OBVIOUS
    <3> QED BY <2>3, <3>1, Zenon
  <2>8. Cardinality(ok) + u >= Keep
    BY <2>7, <2>1, <2>3, <2>5, <2>6, CountLeft
  <2>9. Cardinality(ok) \in Nat
    <3>1. 1 \in Int /\ MaxBackup \in Int
      BY Bounds
    <3>2. IsFiniteSet(Ids)
      BY <3>1, FS_Interval DEF Ids
    <3> QED BY <3>2, <2>6, FS_Subset, FS_CardinalityType
  <2>10. Cardinality(ok) + undone' + Copying' >= Keep
    BY <2>3, <2>8, <2>9, <2>7, Bounds
  <2> QED BY <2>10 DEF ok, Copying
<1>2. ASSUME Inv, Inv', [Next]_vars
      PROVE  [\A i \in Valid : backup'[i].state = "gone" =>
                Cardinality({k \in Ids : backup'[k].state = "ok"}) + undone'
                  + (IF tool'.at = "copying" THEN 1 ELSE 0) >= Keep]_vars
  BY <1>1, <1>2
<1> QED
  BY <1>2, Always, PTL DEF Spec, RecoveryPoints

-----------------------------------------------------------------------------
(***************************************************************************)
(* Continuity: type correctness.                                           *)
(***************************************************************************)

\* Every step of a process keeps the types.
LEMMA StepType ==
  ASSUME BootTypeOK, NEW p \in Process, ProcessStep(p)
  PROVE  BootTypeOK'
<1> USE ContinuityAssumption DEF ContinuityAssumption, Phase, Writing
<1>1. CASE Acquire(p)
  BY <1>1 DEF Acquire, BootTypeOK
<1>2. CASE Conflict(p)
  BY <1>2 DEF Conflict, BootTypeOK
<1>3. CASE Renew(p)
  <2>1. clock + Ttl \in Nat
    BY DEF BootTypeOK
  <2>2. lease' \in [owner : Process \cup {NoOwner}, expires : Nat]
    BY <1>3, <2>1 DEF Renew, BootTypeOK
  <2>3. held' \in [Process -> BOOLEAN] /\ maintaining' \in [Process -> BOOLEAN]
    BY <1>3 DEF Renew, BootTypeOK
  <2> QED BY <1>3, <2>2, <2>3 DEF Renew, BootTypeOK
<1>4. CASE ReadOpenBoots(p)
  BY <1>4 DEF ReadOpenBoots, BootTypeOK
<1>5. CASE StartBoot(p)
  BY <1>5 DEF StartBoot, Superseded, BootTypeOK
<1>6. CASE BeginStop(p)
  BY <1>6 DEF BeginStop, BootTypeOK
<1>7. CASE FinishBoot(p)
  BY <1>7 DEF FinishBoot, BootTypeOK
<1>8. CASE Release(p)
  BY <1>8 DEF Release, BootTypeOK
<1>9. CASE Crash(p)
  BY <1>9 DEF Crash, BootTypeOK
<1>10. CASE \E w \in Work : StartWork(p, w) \/ FinishWork(p, w)
  BY <1>10 DEF StartWork, FinishWork, BootTypeOK
<1> QED
  BY <1>1, <1>2, <1>3, <1>4, <1>5, <1>6, <1>7, <1>8, <1>9, <1>10 DEF ProcessStep

\* Every step keeps the types.
LEMMA BootNextType == BootTypeOK /\ [BootNext]_bootVars => BootTypeOK'
<1> SUFFICES ASSUME BootTypeOK, [BootNext]_bootVars PROVE BootTypeOK'
  OBVIOUS
<1>1. CASE Tick
  BY <1>1, ContinuityAssumption DEF Tick, BootTypeOK, ContinuityAssumption
<1>2. CASE \E p \in Process : ProcessStep(p)
  BY <1>2, StepType
<1>3. CASE UNCHANGED bootVars
  BY <1>3 DEF bootVars, BootTypeOK
<1> QED
  BY <1>1, <1>2, <1>3 DEF BootNext

\* The initial state is typed.
LEMMA BootInitType == BootInit => BootTypeOK
<1> SUFFICES ASSUME BootInit PROVE BootTypeOK
  OBVIOUS
<1>1. lapsed \in BOOLEAN
  BY Zenon DEF BootInit
<1> QED
  BY <1>1, ContinuityAssumption
     DEF BootInit, BootTypeOK, Phase, Writing, ContinuityAssumption

\* Lease row, process phases, boot sessions and work keep their types in every
\* behaviour, whoever is late.
THEOREM BootTypeCorrect == BootSpec => []BootTypeOK
<1> QED BY BootInitType, BootNextType, PTL DEF BootSpec

-----------------------------------------------------------------------------
(***************************************************************************)
(* One writer.  OneWriter alone is not inductive: the row of the lease has *)
(* to name every writer, and to name it still while time passes.           *)
(***************************************************************************)

LeaseInv == \A p \in Writer : lease.owner = p /\ clock < lease.expires

\* A lapse is never forgotten.
LEMMA LapsedStays == [BootNext]_bootVars /\ ~lapsed' => ~lapsed
BY DEF BootNext, bootVars, Tick, ProcessStep, Acquire, Conflict, Renew, ReadOpenBoots,
       StartBoot, StartWork, FinishWork, BeginStop, FinishBoot, Release, Crash

\* LeaseInv holds initially.
LEMMA LeaseInit == BootInit => LeaseInv
BY DEF BootInit, LeaseInv, Writer, Writing

\* Every step without a lapse keeps LeaseInv.
LEMMA LeaseStep == BootTypeOK /\ LeaseInv /\ [BootNext]_bootVars /\ ~lapsed' => LeaseInv'
<1> SUFFICES ASSUME BootTypeOK, LeaseInv, [BootNext]_bootVars, ~lapsed',
                    NEW q \in Process, q \in Writer'
             PROVE  (lease.owner = q /\ clock < lease.expires)'
  BY DEF LeaseInv, Writer
<1> USE ContinuityAssumption DEF ContinuityAssumption
<1>0. CASE UNCHANGED bootVars
  BY <1>0 DEF bootVars, LeaseInv, Writer
<1>1. CASE Tick
  <2>1. q \in Writer
    BY <1>1 DEF Tick, Writer
  <2>2. lease.owner = q /\ clock' < lease.expires
    <3>1. ~RunsOut
      BY <1>1, Zenon DEF Tick
    <3>2. lease.owner = q /\ clock \in Nat /\ clock' = clock + 1
      BY <1>1, <2>1 DEF Tick, LeaseInv, BootTypeOK
    <3> QED BY <2>1, <3>1, <3>2 DEF RunsOut, BootTypeOK
  <2> QED BY <1>1, <2>2 DEF Tick
<1>2. ASSUME NEW p \in Process, ProcessStep(p)
      PROVE  (lease.owner = q /\ clock < lease.expires)'
  <2>1. CASE Acquire(p)
    \* The row was free or expired, so there was no writer.
    <3>1. Writer = {}
      BY <2>1 DEF Acquire, Expired, LeaseInv, Writer, BootTypeOK
    <3>2. q = p
      BY <2>1, <3>1 DEF Acquire, Writer, BootTypeOK
    <3> QED BY <2>1, <3>2 DEF Acquire, BootTypeOK
  <2>2. CASE Renew(p)
    BY <2>2 DEF Renew, LeaseInv, Writer, BootTypeOK
  <2>3. CASE Release(p)
    <3>1. q # p /\ q \in Writer
      BY <2>3 DEF Release, Writer, Writing, BootTypeOK
    <3>2. p \in Writer
      BY <2>3 DEF Release, Writer, Writing
    <3> QED BY <3>1, <3>2 DEF LeaseInv
  <2>4. CASE Conflict(p)
    BY <2>4 DEF Conflict, LeaseInv, Writer, Writing, BootTypeOK
  <2>5. CASE ReadOpenBoots(p) \/ StartBoot(p) \/ BeginStop(p) \/ FinishBoot(p)
    BY <2>5 DEF ReadOpenBoots, StartBoot, BeginStop, FinishBoot, LeaseInv, Writer,
                Writing, BootTypeOK
  <2>6. CASE Crash(p)
    BY <2>6 DEF Crash, LeaseInv, Writer, Writing, BootTypeOK
  <2>7. CASE \E w \in Work : StartWork(p, w) \/ FinishWork(p, w)
    BY <2>7 DEF StartWork, FinishWork, LeaseInv, Writer
  <2> QED
    BY <1>2, <2>1, <2>2, <2>3, <2>4, <2>5, <2>6, <2>7 DEF ProcessStep
<1> QED
  BY <1>0, <1>1, <1>2 DEF BootNext

LeaseWhileTimely == ~lapsed => LeaseInv

\* Until a lapse, LeaseInv holds.
LEMMA LeaseInvariant == BootSpec => []LeaseWhileTimely
<1>1. BootInit => LeaseWhileTimely
  BY LeaseInit DEF LeaseWhileTimely
<1>2. BootTypeOK /\ LeaseWhileTimely /\ [BootNext]_bootVars => LeaseWhileTimely'
  BY LeaseStep, LapsedStays DEF LeaseWhileTimely
<1> QED BY <1>1, <1>2, BootTypeCorrect, PTL DEF BootSpec

\* If no live process lets its lease run out, at most one process writes to
\* the database, through any number of crashes and restarts.
THEOREM OneWriterAtATime == BootSpec => []OneWriter
<1>1. LeaseWhileTimely => OneWriter
  BY DEF LeaseWhileTimely, LeaseInv, OneWriter, SingleWriter
<1> QED BY <1>1, LeaseInvariant, PTL

-----------------------------------------------------------------------------
(***************************************************************************)
(* Boot sessions.  With one writer, what start_boot read is still true     *)
(* when it commits.                                                        *)
(***************************************************************************)

\* A process has no session before its boot starts; one that found no open
\* session is right about it until it commits; a live session is open; work
\* runs in a session that is open or was closed by its own process.
NotBooted == \A p \in Process :
  pc[p] \in {"off", "refused", "starting", "booting"} => boot[p] = "none"
FoundIsTrue == \A p \in Process : pc[p] = "booting" /\ ~found[p] => OpenBoot = {}
LiveIsOpen == \A p \in Process : pc[p] \in {"running", "stopping"} => boot[p] = "open"
WorkInSession == \A w \in Work : work[w] = "running" =>
  by[w] \in Process /\ boot[by[w]] \in {"open", "clean"}

SingleOpen == \A p, q \in OpenBoot : p = q

BootInv == NotBooted /\ FoundIsTrue /\ LiveIsOpen /\ SingleOpen /\ WorkInSession

\* BootInv holds initially.
LEMMA BootInvInit == BootInit => BootInv
BY DEF BootInit, BootInv, NotBooted, FoundIsTrue, LiveIsOpen, SingleOpen, OpenBoot,
       WorkInSession

\* The step of start_boot's transaction, by a process that is the only writer.
LEMMA StartBootStep ==
  ASSUME BootTypeOK, LeaseInv, BootInv, NEW p \in Process, StartBoot(p)
  PROVE  BootInv'
<1>1. p \in Writer
  BY DEF StartBoot, Writer, Writing
<1>2. \A q \in Process : q # p => pc[q] \notin Writing
  BY <1>1 DEF LeaseInv, Writer
<1>3. \A q \in Process : pc'[q] = IF q = p THEN "running" ELSE pc[q]
  BY DEF StartBoot, BootTypeOK
<1>4. \A q \in Process : boot'[q] = IF q = p THEN "open"
                          ELSE IF found[p] THEN Superseded(q) ELSE boot[q]
  BY DEF StartBoot
<1>5. \A q \in Process : q # p => boot'[q] # "open"
  BY <1>4 DEF StartBoot, BootInv, FoundIsTrue, OpenBoot, Superseded
<1>6. NotBooted'
  BY <1>3, <1>4 DEF NotBooted, BootInv, Superseded
<1>7. FoundIsTrue'
  BY <1>2, <1>3 DEF FoundIsTrue, Writing
<1>8. LiveIsOpen'
  BY <1>2, <1>3, <1>4 DEF LiveIsOpen, Writing
<1>9. SingleOpen'
  BY <1>5 DEF SingleOpen, OpenBoot
<1>10. WorkInSession'
  <2> SUFFICES ASSUME NEW w \in Work, work'[w] = "running"
               PROVE  by'[w] \in Process /\ boot'[by'[w]] \in {"open", "clean"}
    BY DEF WorkInSession
  <2>1. ~found[p] /\ work[w] = "running" /\ by'[w] = by[w]
    BY DEF StartBoot
  <2>2. by[w] \in Process /\ boot[by[w]] \in {"open", "clean"}
    BY <2>1 DEF BootInv, WorkInSession
  <2> QED BY <2>1, <2>2, <1>4
<1> QED BY <1>6, <1>7, <1>8, <1>9, <1>10 DEF BootInv

\* With one writer, every step keeps BootInv.
LEMMA BootStep == BootTypeOK /\ LeaseInv /\ BootInv /\ [BootNext]_bootVars => BootInv'
<1> SUFFICES ASSUME BootTypeOK, LeaseInv, BootInv, [BootNext]_bootVars PROVE BootInv'
  OBVIOUS
<1> USE DEF BootInv
<1>0. CASE UNCHANGED bootVars \/ Tick
  BY <1>0 DEF bootVars, Tick, NotBooted, FoundIsTrue, LiveIsOpen, SingleOpen, OpenBoot,
              WorkInSession
<1>1. ASSUME NEW p \in Process, ProcessStep(p) PROVE BootInv'
  <2>1. CASE Acquire(p) \/ Conflict(p) \/ Crash(p)
    BY <2>1 DEF Acquire, Conflict, Crash, NotBooted, FoundIsTrue, LiveIsOpen,
                SingleOpen, OpenBoot, WorkInSession, BootTypeOK, Writing
  <2>2. CASE ReadOpenBoots(p)
    <3>1. /\ UNCHANGED <<boot, work, by>>
          /\ pc' = [pc EXCEPT ![p] = "booting"] /\ pc[p] = "starting"
          /\ found' = [found EXCEPT ![p] = OpenBoot # {}]
      BY <2>2 DEF ReadOpenBoots
    <3>2. OpenBoot' = OpenBoot
      BY <3>1 DEF OpenBoot
    <3>3. NotBooted' /\ LiveIsOpen'
      BY <3>1 DEF NotBooted, LiveIsOpen, BootTypeOK
    <3>4. FoundIsTrue'
      BY <3>1, <3>2 DEF FoundIsTrue, BootTypeOK
    <3>5. SingleOpen' /\ WorkInSession'
      BY <3>1, <3>2 DEF SingleOpen, WorkInSession
    <3> QED BY <3>3, <3>4, <3>5
  <2>3. CASE StartBoot(p)
    BY <2>3, StartBootStep
  <2>4. CASE Renew(p) \/ Release(p)
    BY <2>4 DEF Renew, Release, NotBooted, FoundIsTrue, LiveIsOpen, SingleOpen,
                OpenBoot, WorkInSession, BootTypeOK
  <2>5. CASE BeginStop(p)
    BY <2>5 DEF BeginStop, NotBooted, FoundIsTrue, LiveIsOpen, SingleOpen,
                OpenBoot, WorkInSession, BootTypeOK
  <2>6. CASE FinishBoot(p)
    BY <2>6 DEF FinishBoot, NotBooted, FoundIsTrue, LiveIsOpen, SingleOpen,
                OpenBoot, WorkInSession, BootTypeOK
  <2>7. CASE \E w \in Work : StartWork(p, w)
    BY <2>7 DEF StartWork, NotBooted, FoundIsTrue, LiveIsOpen, SingleOpen,
                OpenBoot, WorkInSession, BootTypeOK
  <2>8. CASE \E w \in Work : FinishWork(p, w)
    BY <2>8 DEF FinishWork, NotBooted, FoundIsTrue, LiveIsOpen, SingleOpen,
                OpenBoot, WorkInSession, BootTypeOK
  <2> QED
    BY <1>1, <2>1, <2>2, <2>3, <2>4, <2>5, <2>6, <2>7, <2>8 DEF ProcessStep
<1> QED
  BY <1>0, <1>1 DEF BootNext

BootWhileTimely == ~lapsed => BootInv

\* Until a lapse, BootInv holds.
LEMMA BootInvariant == BootSpec => []BootWhileTimely
<1>1. BootInit => BootWhileTimely
  BY BootInvInit DEF BootWhileTimely
<1>2. BootTypeOK /\ LeaseWhileTimely /\ BootWhileTimely /\ [BootNext]_bootVars
        => BootWhileTimely'
  BY BootStep, LapsedStays DEF BootWhileTimely, LeaseWhileTimely
<1> QED BY <1>1, <1>2, BootTypeCorrect, LeaseInvariant, PTL DEF BootSpec

\* If no live process lets its lease run out, at most one boot session is open.
THEOREM OneOpenSession == BootSpec => []OneOpenBoot
<1>1. BootWhileTimely => OneOpenBoot
  BY DEF BootWhileTimely, BootInv, SingleOpen, OneOpenBoot
<1> QED BY <1>1, BootInvariant, PTL

\* ... and work of a session that another boot has closed is not left running.
THEOREM SupersededWork == BootSpec => []SupersededWorkUncertain
<1>1. BootWhileTimely => SupersededWorkUncertain
  BY DEF BootWhileTimely, BootInv, WorkInSession, SupersededWorkUncertain
<1> QED BY <1>1, BootInvariant, PTL

-----------------------------------------------------------------------------
(***************************************************************************)
(* The row of the lease, in every behaviour.                               *)
(***************************************************************************)

\* However late a process comes, the row of an unexpired lease changes hands
\* only by its owner's release.
THEOREM LeaseKept == BootSpec => UnexpiredLeaseKept
<1>1. ASSUME BootTypeOK, [BootNext]_bootVars,
             lease.owner # NoOwner, clock < lease.expires
      PROVE  \/ lease'.owner = lease.owner
             \/ lease'.owner = NoOwner /\ pc[lease.owner] = "releasing"
  <2>0. CASE UNCHANGED bootVars \/ Tick
    BY <2>0 DEF bootVars, Tick
  <2>1. ASSUME NEW p \in Process, ProcessStep(p)
        PROVE  \/ lease'.owner = lease.owner
               \/ lease'.owner = NoOwner /\ pc[lease.owner] = "releasing"
    <3>1. ~Acquire(p)
      BY <1>1 DEF Acquire, Expired, BootTypeOK
    <3>2. CASE Renew(p) \/ Release(p)
      <4>1. lease \in [owner : Process \cup {NoOwner}, expires : Nat]
        BY <1>1 DEF BootTypeOK
      <4>2. CASE Renew(p)
        BY <4>1, <4>2 DEF Renew
      <4>3. CASE Release(p)
        BY <4>1, <4>3 DEF Release
      <4> QED BY <3>2, <4>2, <4>3
    <3>3. CASE lease' = lease
      BY <3>3
    <3> QED
      BY <2>1, <3>1, <3>2, <3>3
         DEF ProcessStep, Conflict, ReadOpenBoots, StartBoot, BeginStop, FinishBoot,
             Crash, StartWork, FinishWork
  <2> QED BY <1>1, <2>0, <2>1 DEF BootNext
<1>2. BootTypeOK /\ [BootNext]_bootVars =>
        [lease.owner # NoOwner /\ clock < lease.expires =>
           \/ lease'.owner = lease.owner
           \/ lease'.owner = NoOwner /\ pc[lease.owner] = "releasing"]_bootVars
  BY <1>1
<1> QED BY <1>2, BootTypeCorrect, PTL DEF BootSpec, UnexpiredLeaseKept
=============================================================================

---------------------------- MODULE MemoryProofs ----------------------------
(***************************************************************************)
(* Proofs about Memory: type correctness, that no assertion of the user is *)
(* made up (UserRooted), and that the episodes of a task partition its     *)
(* events up to the watermark (EpisodesPartition).  And about Retrieval:   *)
(* that what is added to a prompt keeps to its budget (PromptFits).        *)
(*                                                                         *)
(* Both turn on what an unfinished piece of work relies on and another     *)
(* process may change under it.  A call of the MCP server relies on the    *)
(* origin of the event it read (CallsRooted), which an append-only log     *)
(* keeps.  A pass relies on the watermark it read (PassFresh), which only  *)
(* the pass itself moves; a crash forgets the pass and with it the claim.  *)
(*                                                                         *)
(* The loops of Retrieval are recursive functions.  The lemmas named after *)
(* them (TakeRowsIs, ...) give their values turn by turn, and what they    *)
(* keep is shown by induction on the turns (UpTo).                         *)
(***************************************************************************)
EXTENDS MCMemory, SequenceTheorems, FiniteSetTheorems, TLAPS

EventRecord == [task : Task \cup {NoTask}, typed : BOOLEAN, user : BOOLEAN,
                refs : SUBSET (1..MaxEvent)]

\* What TypeOK leaves open: the calls, and that references are to events of the log.
CallsFormed ==
  /\ Len(log) <= MaxEvent
  /\ \A s \in Server : /\ server[s].call \in EventRecord
                       /\ server[s].call.refs \subseteq DOMAIN log

Typed ==
  /\ TypeOK
  /\ server \in [Server -> [boot : Nat, call : EventRecord]]
  /\ CallsFormed
  /\ pass.at \in {"create", "job"} => pass.task \in Task

-----------------------------------------------------------------------------
(***************************************************************************)
(* The log.                                                                *)
(***************************************************************************)

\* The log is never shortened or rewritten.
LogKept == /\ DOMAIN log \subseteq DOMAIN log'
           /\ \A i \in DOMAIN log : log'[i] = log[i]

LEMMA LogDomain ==
  ASSUME Typed
  PROVE  /\ DOMAIN log = 1..Len(log) /\ Len(log) \in Nat /\ MaxEvent \in Nat
         /\ DOMAIN log \subseteq 1..MaxEvent
         /\ \A i \in DOMAIN log : log[i] \in EventRecord
<1> USE DEF EventRecord
<1>1. log \in Seq(EventRecord) /\ Len(log) <= MaxEvent
  BY DEF Typed, TypeOK, CallsFormed
<1>2. DOMAIN log = 1..Len(log) /\ Len(log) \in Nat
      /\ \A i \in 1..Len(log) : log[i] \in EventRecord
  BY <1>1, ElementOfSeq, LenProperties DEF EventRecord
<1> QED BY <1>1, <1>2, MemoryAssumption

\* One more event is the last one, and the others are what they were.
LEMMA Recorded ==
  ASSUME Typed, NEW t \in Task \cup {NoTask}, NEW typed \in BOOLEAN,
         NEW user \in BOOLEAN, NEW refs \in SUBSET (1..MaxEvent),
         Record(t, typed, user, refs)
  PROVE  /\ log' \in Seq(EventRecord) /\ Len(log') = Len(log) + 1
         /\ Len(log') <= MaxEvent
         /\ DOMAIN log' = 1..(Len(log) + 1)
         /\ log'[Len(log) + 1] = Event(t, typed, user, refs)
         /\ LogKept
<1> DEFINE e == Event(t, typed, user, refs)
<1>1. log \in Seq(EventRecord) /\ e \in EventRecord
  BY DEF Typed, TypeOK, EventRecord, Event
<1>2. log' = Append(log, e) /\ Len(log) < MaxEvent
  BY DEF Record
<1> HIDE DEF e
<1>3. /\ log' \in Seq(EventRecord) /\ Len(log') = Len(log) + 1
      /\ DOMAIN log' = 1..(Len(log) + 1)
      /\ log'[Len(log) + 1] = e
      /\ \A i \in 1..Len(log) : log'[i] = log[i]
  BY <1>1, <1>2, AppendProperties, LenProperties
<1> QED BY <1>2, <1>3, LogDomain, MemoryAssumption DEF LogKept, e

-----------------------------------------------------------------------------
(***************************************************************************)
(* Groups of actions, by what they leave alone.                            *)
(***************************************************************************)

Episodes == <<episodes, jobs, pass>>

Tasks == \/ \E t \in Task : BeginTask(t) \/ UserInput(t) \/ Observe(t)
                            \/ RequireCheckpoint(t)
         \/ \E t \in Task, s \in {"interrupted", "completed"} : EndTask(t, s)

Life == Boot \/ Stop \/ Crash \/ LeaseExpires

Check == \E s \in Server :
  \/ \E i \in DOMAIN log, t \in Task \cup {NoTask} : CommitmentCreate(s, i, t)
  \/ \E refs \in SUBSET DOMAIN log :
       \/ FactPropose(s, refs)
       \/ \E asserted \in BOOLEAN : FactCorrect(s, refs, asserted)
  \/ \E i \in DOMAIN log : UserPinEvidence(s, i)

Servers == \E s \in Server : StartServer(s) \/ WriteCall(s) \/ DropCall(s)

LEMMA Grouped == Next => Tasks \/ Life \/ Consolidate \/ Check \/ Servers
BY DEF Next, Tasks, Life, Check, Servers

LEMMA InitTyped == Init => Typed
<1> SUFFICES ASSUME Init PROVE Typed
  OBVIOUS
<1>1. log = <<>> /\ Len(log) = 0 /\ DOMAIN log = {}
  BY DEF Init
<1>2. log \in Seq(EventRecord)
  BY <1>1
<1>3. NoCall \in EventRecord /\ NoCall.refs = {}
  BY DEF NoCall, Event, EventRecord
<1> QED
  BY <1>1, <1>2, <1>3, MemoryAssumption
  DEF Init, Typed, TypeOK, CallsFormed, NoPass, EventRecord

LEMMA TasksTyped ==
  ASSUME Typed, Tasks
  PROVE  Typed' /\ LogKept /\ UNCHANGED <<Episodes, server>>
<1>1. /\ \/ UNCHANGED log
         \/ \E t \in Task, typed \in BOOLEAN :
              Record(t, typed, typed, {})
      /\ UNCHANGED <<episodes, jobs, pass, hal, boot, lease, server>>
      /\ state' \in [Task -> {"none", "active", "interrupted", "completed"}]
  <2>1. CASE \E t \in Task : BeginTask(t) \/ UserInput(t) \/ Observe(t)
    BY <2>1 DEF Typed, TypeOK, BeginTask, UserInput, Observe
  <2>2. CASE \E t \in Task : RequireCheckpoint(t)
    BY <2>2 DEF Typed, TypeOK, RequireCheckpoint
  <2>3. CASE \E t \in Task, s \in {"interrupted", "completed"} : EndTask(t, s)
    BY <2>3 DEF Typed, TypeOK, EndTask
  <2> QED BY <2>1, <2>2, <2>3 DEF Tasks
<1>2. /\ log' \in Seq(EventRecord) /\ Len(log') <= MaxEvent /\ LogKept
  <2>1. CASE UNCHANGED log
    BY <2>1 DEF Typed, TypeOK, CallsFormed, LogKept, EventRecord
  <2>2. CASE \E t \in Task, typed \in BOOLEAN : Record(t, typed, typed, {})
    BY <2>2, Recorded
  <2> QED BY <1>1, <2>1, <2>2
<1> QED
  BY <1>1, <1>2 DEF Typed, TypeOK, CallsFormed, LogKept, EventRecord, Episodes

LEMMA LifeTyped ==
  ASSUME Typed, Life
  PROVE  Typed' /\ UNCHANGED <<log, episodes, jobs, server>>
         /\ pass' \in {pass, NoPass}
<1> USE MemoryAssumption DEF Typed, TypeOK, CallsFormed, NoPass
<1>1. CASE Boot
  BY <1>1 DEF Boot
<1>2. CASE Stop
  BY <1>2 DEF Stop
<1>3. CASE Crash
  BY <1>3 DEF Crash
<1>4. CASE LeaseExpires
  BY <1>4 DEF LeaseExpires
<1> QED BY <1>1, <1>2, <1>3, <1>4 DEF Life

LEMMA ConsolidateTyped ==
  ASSUME Typed, Consolidate
  PROVE  Typed' /\ UNCHANGED <<log, server>>
<1> USE DEF Typed, TypeOK, CallsFormed, NoPass
<1>1. CASE ReadPage
  BY <1>1 DEF ReadPage
<1>2. CASE \E t \in Task : ReadEvents(t)
  <2>1. PICK t \in Task : ReadEvents(t)
    BY <1>2
  <2>2. Fresh(t) \subseteq 1..MaxEvent /\ t \in pass.page
    BY <2>1, LogDomain DEF Fresh, Of, ReadEvents
  <2>3. Finished(t) \in [at : {"idle", "page"}, page : SUBSET Task,
                         task : {NoTask}, events : SUBSET (1..MaxEvent)]
    BY DEF Finished
  <2>4. pass' \in {Finished(t), [pass EXCEPT !.at = "create", !.task = t,
                                             !.events = Fresh(t)]}
    BY <2>1 DEF ReadEvents
  <2> HIDE DEF NoPass
  <2>5. pass' \in [at : {"idle", "page", "create", "job"}, page : SUBSET Task,
                   task : Task \cup {NoTask}, events : SUBSET (1..MaxEvent)]
        /\ (pass'.at \in {"create", "job"} => pass'.task \in Task)
    BY <2>2, <2>3, <2>4
  <2>6. UNCHANGED <<log, state, episodes, jobs, hal, boot, lease, server>>
    BY <2>1 DEF ReadEvents
  <2> QED BY <2>5, <2>6
<1>3. CASE CreateEpisode
  <2>1. pass.at = "create" /\ pass.task \in Task
    BY <1>3 DEF CreateEpisode
  <2>2. pass' = [pass EXCEPT !.at = "job"]
        /\ UNCHANGED <<log, state, jobs, hal, boot, lease, server>>
    BY <1>3 DEF CreateEpisode
  <2>3. episodes' \in {episodes, episodes \cup {[task |-> pass.task, events |-> pass.events]}}
    BY <1>3 DEF CreateEpisode
  <2> QED BY <2>1, <2>2, <2>3
<1>4. CASE RecordJob
  <2>1. pass.at = "job" /\ pass.task \in Task
    BY <1>4 DEF RecordJob
  <2>2. Finished(pass.task) \in [at : {"idle", "page"}, page : SUBSET Task,
                        task : {NoTask}, events : SUBSET (1..MaxEvent)]
    BY DEF Finished
  <2>3. pass' = Finished(pass.task) /\ UNCHANGED <<log, state, episodes, hal, boot, lease, server>>
        /\ jobs' = jobs \cup {[task |-> pass.task, events |-> pass.events]}
    BY <1>4 DEF RecordJob
  <2> QED BY <2>1, <2>2, <2>3
<1> QED BY <1>1, <1>2, <1>3, <1>4 DEF Consolidate

LEMMA CheckTyped ==
  ASSUME Typed, Check
  PROVE  Typed' /\ UNCHANGED <<log, Episodes>>
<1>1. \A i \in DOMAIN log, t \in Task \cup {NoTask} :
         /\ CommitmentEvent(i, t) \in EventRecord
         /\ CommitmentEvent(i, t).refs \subseteq DOMAIN log
  BY LogDomain DEF CommitmentEvent, Event, EventRecord
<1>2. \A refs \in SUBSET DOMAIN log, asserted \in BOOLEAN :
         /\ FactEvent(refs) \in EventRecord /\ FactEvent(refs).refs \subseteq DOMAIN log
         /\ CorrectionEvent(refs, asserted) \in EventRecord
         /\ CorrectionEvent(refs, asserted).refs \subseteq DOMAIN log
  BY LogDomain DEF FactEvent, CorrectionEvent, Event, EventRecord
<1>3. \A i \in DOMAIN log : /\ PinEvent(i) \in EventRecord
                            /\ PinEvent(i).refs \subseteq DOMAIN log
  BY LogDomain DEF PinEvent, Event, EventRecord
<1>4. \E s \in Server, event \in EventRecord :
         Checked(s, event) /\ event.refs \subseteq DOMAIN log
  <2>1. CASE \E s \in Server : \E i \in DOMAIN log, t \in Task \cup {NoTask} :
               CommitmentCreate(s, i, t)
    BY <2>1, <1>1 DEF CommitmentCreate
  <2>2. CASE \E s \in Server : \E refs \in SUBSET DOMAIN log : FactPropose(s, refs)
    BY <2>2, <1>2 DEF FactPropose
  <2>3. CASE \E s \in Server : \E refs \in SUBSET DOMAIN log :
               \E asserted \in BOOLEAN : FactCorrect(s, refs, asserted)
    BY <2>3, <1>2 DEF FactCorrect
  <2>4. CASE \E s \in Server : \E i \in DOMAIN log : UserPinEvidence(s, i)
    BY <2>4, <1>3 DEF UserPinEvidence
  <2> QED BY <2>1, <2>2, <2>3, <2>4 DEF Check
<1> QED
  BY <1>4 DEF Typed, TypeOK, CallsFormed, Checked, Episodes

LEMMA ServersTyped ==
  ASSUME Typed, Servers
  PROVE  Typed' /\ LogKept /\ UNCHANGED Episodes
<1>1. NoCall \in EventRecord /\ NoCall.refs = {}
  BY DEF NoCall, Event, EventRecord
<1>2. \A s \in Server : server[s].call \in EventRecord
                        /\ server[s].call.refs \subseteq DOMAIN log
  BY DEF Typed, CallsFormed
<1>3. CASE \E s \in Server : StartServer(s) \/ DropCall(s)
  <2>1. boot \in Nat /\ server \in [Server -> [boot : Nat, call : EventRecord]]
        /\ \A s \in Server : server[s].boot \in 0..boot
    BY MemoryAssumption DEF Typed, TypeOK
  <2>2. PICK s \in Server :
          /\ UNCHANGED <<log, state, episodes, jobs, pass, hal, boot, lease>>
          /\ \/ server' = [server EXCEPT ![s].boot = boot]
             \/ server' = [server EXCEPT ![s].call = NoCall]
    BY <1>3 DEF StartServer, DropCall
  <2>3. server' \in [Server -> [boot : Nat, call : EventRecord]]
    BY <1>1, <2>1, <2>2
  <2>4. \A r \in Server : server'[r].boot \in {server[r].boot, boot}
                          /\ server'[r].call \in {server[r].call, NoCall}
    BY <1>1, <2>1, <2>2
  <2>5. \A r \in Server : server'[r].boot \in 0..boot
                          /\ server'[r].call \in EventRecord
                          /\ server'[r].call.refs \subseteq DOMAIN log
    BY <1>1, <1>2, <2>1, <2>4
  <2> QED
    BY <2>2, <2>3, <2>5 DEF Typed, TypeOK, CallsFormed, LogKept, Episodes
<1>4. ASSUME NEW s \in Server, WriteCall(s)
      PROVE  Typed' /\ LogKept /\ UNCHANGED Episodes
  <2> DEFINE call == server[s].call
  <2>1. /\ call.task \in Task \cup {NoTask} /\ call.user \in BOOLEAN
        /\ call.refs \in SUBSET (1..MaxEvent)
    BY DEF Typed, EventRecord
  <2>2. Record(call.task, FALSE, call.user, call.refs)
        /\ server' = [server EXCEPT ![s].call = NoCall]
        /\ UNCHANGED <<state, episodes, jobs, pass, hal, boot, lease>>
    BY <1>4 DEF WriteCall
  <2> HIDE DEF call
  <2>3. log' \in Seq(EventRecord) /\ Len(log') <= MaxEvent /\ LogKept
    BY <2>1, <2>2, Recorded
  <2> QED
    BY <1>1, <2>2, <2>3 DEF Typed, TypeOK, CallsFormed, LogKept, Episodes, EventRecord
<1> QED BY <1>3, <1>4 DEF Servers

LEMMA NextTyped ==
  ASSUME Typed, [Next]_vars
  PROVE  Typed' /\ LogKept
<1>1. CASE Next
  <2>1. CASE UNCHANGED log /\ Typed'
    BY <2>1 DEF LogKept
  <2> QED
    BY <1>1, <2>1, Grouped, TasksTyped, LifeTyped, ConsolidateTyped, CheckTyped, ServersTyped
<1>2. CASE UNCHANGED vars
  BY <1>2 DEF vars, Typed, TypeOK, CallsFormed, LogKept
<1> QED BY <1>1, <1>2

\* Every variable of Memory keeps its type, in every reachable state.
THEOREM TypeCorrect == Spec => []TypeOK
<1>1. Typed => TypeOK
  BY DEF Typed
<1> QED BY <1>1, InitTyped, NextTyped, PTL DEF Spec

-----------------------------------------------------------------------------
(***************************************************************************)
(* What is said to be of the user.                                         *)
(***************************************************************************)

\* A call that will write an assertion of the user refers to one.
CallsRooted ==
  \A s \in Server : server[s].call.user => ByUser(server[s].call.refs)

LEMMA CallsStayRooted ==
  ASSUME Typed, CallsRooted, LogKept, UNCHANGED server
  PROVE  CallsRooted'
BY DEF Typed, CallsFormed, CallsRooted, ByUser, LogKept

LEMMA ChecksRooted ==
  ASSUME Typed, CallsRooted, Check
  PROVE  CallsRooted'
<1>1. UNCHANGED log /\ \A s \in Server : server[s].call.refs \subseteq DOMAIN log
  BY CheckTyped DEF Typed, CallsFormed
<1>2. ASSUME NEW s \in Server, NEW event, Checked(s, event),
             event.user => ByUser(event.refs)
      PROVE  CallsRooted'
  <2>1. server' = [server EXCEPT ![s].call = event]
    BY <1>2 DEF Checked
  <2>2. \A r \in Server : server'[r].call \in {server[r].call, event}
    BY <2>1 DEF Typed
  <2> QED BY <1>1, <1>2, <2>2 DEF CallsRooted, ByUser
<1>3. ASSUME NEW s \in Server, NEW i \in DOMAIN log, NEW t \in Task \cup {NoTask},
             CommitmentCreate(s, i, t)
      PROVE  CallsRooted'
  <2>1. CommitmentEvent(i, t).user => ByUser(CommitmentEvent(i, t).refs)
    BY DEF CommitmentEvent, Event, ByUser
  <2> QED BY <1>2, <1>3, <2>1 DEF CommitmentCreate
<1>4. ASSUME NEW s \in Server, NEW refs \in SUBSET DOMAIN log, FactPropose(s, refs)
      PROVE  CallsRooted'
  <2>1. ~FactEvent(refs).user
    BY DEF FactEvent, Event
  <2> QED BY <1>2, <1>4, <2>1 DEF FactPropose
<1>5. ASSUME NEW s \in Server, NEW refs \in SUBSET DOMAIN log,
             NEW asserted \in BOOLEAN, FactCorrect(s, refs, asserted)
      PROVE  CallsRooted'
  <2>1. CorrectionEvent(refs, asserted).user = asserted
        /\ CorrectionEvent(refs, asserted).refs = refs
    BY DEF CorrectionEvent, Event
  <2> QED BY <1>2, <1>5, <2>1 DEF FactCorrect
<1>6. ASSUME NEW s \in Server, NEW i \in DOMAIN log, UserPinEvidence(s, i)
      PROVE  CallsRooted'
  <2>1. ByUser(PinEvent(i).refs)
    BY <1>6 DEF UserPinEvidence, PinEvent, Event, ByUser
  <2> QED BY <1>2, <1>6, <2>1 DEF UserPinEvidence
<1> QED BY <1>3, <1>4, <1>5, <1>6 DEF Check

LEMMA ServersRooted ==
  ASSUME Typed, CallsRooted, Servers
  PROVE  CallsRooted'
<1>1. LogKept /\ \A s \in Server : server[s].call.refs \subseteq DOMAIN log
  BY ServersTyped DEF Typed, CallsFormed
<1>2. \A s \in Server : server'[s].call \in {server[s].call, NoCall}
  BY DEF Typed, Servers, StartServer, WriteCall, DropCall
<1>3. ~NoCall.user
  BY DEF NoCall, Event
<1> QED BY <1>1, <1>2, <1>3 DEF CallsRooted, ByUser, LogKept

\* An event that is added to the log keeps UserRooted when it is typed, is not
\* the user's, or refers to an event that is.
LEMMA RecordRooted ==
  ASSUME Typed, UserRooted, NEW t \in Task \cup {NoTask}, NEW typed \in BOOLEAN,
         NEW user \in BOOLEAN, NEW refs \in SUBSET DOMAIN log,
         Record(t, typed, user, refs),
         user /\ ~typed => ByUser(refs)
  PROVE  UserRooted'
<1>1. /\ DOMAIN log' = 1..(Len(log) + 1) /\ LogKept
      /\ log'[Len(log) + 1] = Event(t, typed, user, refs)
      /\ DOMAIN log = 1..Len(log) /\ Len(log) \in Nat
  BY LogDomain, Recorded
<1>2. ASSUME NEW i \in DOMAIN log', log'[i].user, ~log'[i].typed
      PROVE  \E j \in log'[i].refs : j < i /\ log'[j].user
  <2>1. CASE i \in DOMAIN log
    <3>1. log'[i] = log[i]
      BY <1>1, <2>1 DEF LogKept
    <3>2. PICK j \in log[i].refs : j < i /\ log[j].user
      BY <1>2, <2>1, <3>1 DEF UserRooted
    <3>3. j \in DOMAIN log
      <4>1. log[i].refs \subseteq 1..MaxEvent
        BY <2>1, LogDomain DEF EventRecord
      <4> QED BY <1>1, <2>1, <3>2, <4>1, MemoryAssumption
    <3> QED BY <1>1, <3>1, <3>2, <3>3 DEF LogKept
  <2>2. CASE i = Len(log) + 1
    <3>1. PICK j \in refs : log[j].user
      BY <1>1, <1>2, <2>2 DEF Event, ByUser
    <3> QED BY <1>1, <2>2, <3>1 DEF Event, LogKept
  <2> QED BY <1>1, <2>1, <2>2
<1> QED BY <1>2 DEF UserRooted

LEMMA NextRooted ==
  ASSUME Typed, UserRooted /\ CallsRooted, [Next]_vars
  PROVE  (UserRooted /\ CallsRooted)'
<1>1. UNCHANGED log => UserRooted'
  BY DEF UserRooted
<1>2. CASE Tasks
  <2>1. CallsRooted'
    BY <1>2, TasksTyped, CallsStayRooted
  <2>2. \/ UNCHANGED log
        \/ \E t \in Task, typed \in BOOLEAN : Record(t, typed, typed, {})
    BY <1>2 DEF Tasks, BeginTask, UserInput, Observe, RequireCheckpoint, EndTask
  <2>3. ASSUME NEW t \in Task, NEW typed \in BOOLEAN, Record(t, typed, typed, {})
        PROVE  UserRooted'
    BY <2>3, RecordRooted
  <2> QED BY <2>1, <2>2, <2>3, <1>1
<1>3. CASE Life \/ Consolidate
  <2>1. UNCHANGED <<log, server>>
    BY <1>3, LifeTyped, ConsolidateTyped
  <2> QED BY <2>1, <1>1, CallsStayRooted DEF LogKept
<1>4. CASE Check
  BY <1>1, <1>4, CheckTyped, ChecksRooted
<1>5. CASE Servers
  <2>1. ASSUME NEW s \in Server, WriteCall(s)
        PROVE  UserRooted'
    <3>1. /\ server[s].call \in EventRecord /\ server[s].call.refs \subseteq DOMAIN log
          /\ server[s].call.user => ByUser(server[s].call.refs)
          /\ Record(server[s].call.task, FALSE, server[s].call.user, server[s].call.refs)
      BY <2>1 DEF CallsFormed, Typed, CallsRooted, WriteCall
    <3> QED BY <3>1, RecordRooted DEF EventRecord
  <2>2. ASSUME NEW s \in Server, StartServer(s) \/ DropCall(s)
        PROVE  UNCHANGED log
    BY <2>2 DEF StartServer, DropCall
  <2> QED BY <1>1, <1>5, <2>1, <2>2, ServersRooted DEF Servers
<1>6. CASE UNCHANGED vars
  BY <1>1, <1>6, CallsStayRooted DEF vars, LogKept
<1> QED BY <1>2, <1>3, <1>4, <1>5, <1>6, Grouped

\* Nothing that Hermes asks for becomes an assertion of the user by itself,
\* although its evidence is checked before the transaction that writes it.
THEOREM AssertionsAreRooted == Spec => []UserRooted
<1>1. Init => UserRooted /\ CallsRooted
  BY DEF Init, UserRooted, CallsRooted, NoCall, Event
<1> QED BY <1>1, InitTyped, NextTyped, NextRooted, PTL DEF Spec

-----------------------------------------------------------------------------
(***************************************************************************)
(* Episodes.                                                               *)
(***************************************************************************)

\* A bounded set of numbers has a greatest one: less-than is well-founded on
\* their distances from the bound.
LEMMA GreatestOfBounded ==
  ASSUME NEW n \in Nat, NEW S \in SUBSET (0..n), S # {}
  PROVE  /\ Max(S) \in S
         /\ \A y \in S : y <= Max(S)
<1> DEFINE D == {n - x : x \in S}
           Less == {p \in Nat \X Nat : p[1] < p[2]}
<1>1. IsWellFoundedOn(Less, Nat)
  BY NatLessThanWellFounded DEF OpToRel
<1>2. D \subseteq Nat /\ D # {}
  <2>1. \A x \in S : x \in Nat /\ x <= n
    OBVIOUS
  <2>2. \A x \in S : n - x \in Nat
    BY <2>1
  <2> QED BY <2>2
<1>3. PICK d \in D : \A c \in D : <<c, d>> \notin Less
  <2> HIDE DEF D, Less
  <2> QED BY <1>1, <1>2, WFMin
<1>4. \A c \in D : d <= c
  <2>1. \A a, b \in Nat : <<a, b>> \in Less <=> a < b
    OBVIOUS
  <2> HIDE DEF D, Less
  <2>2. TAKE c \in D
  <2>3. c \in Nat /\ d \in Nat
    BY <1>2
  <2>4. ~(c < d)
    BY <1>3, <2>1, <2>3
  <2> QED BY <2>3, <2>4
<1>5. PICK m \in S : d = n - m
  BY <1>3
<1>6. \A y \in S : y <= m
  BY <1>4, <1>5
<1> QED BY <1>6 DEF Max

\* Event i of task t has an episode among eps.
InEpisode(t, i, eps) == \E e \in eps : e.task = t /\ i \in e.events

\* Episodes are of their task's events, no two share one, and below an event of
\* an episode no event of the task is left out.
Partitioned ==
  /\ \A e \in episodes : /\ e.events # {} /\ e.events \subseteq Of(e.task)
                         /\ Cardinality(e.events) <= EventLimit
  /\ \A e, f \in episodes, i \in DOMAIN log :
       e.task = f.task /\ i \in e.events /\ i \in f.events => e = f
  /\ \A e \in episodes : \A i \in Of(e.task), j \in e.events :
       i <= j => InEpisode(e.task, i, episodes)

\* Events that may become the next episode of t: they are above all that its
\* episodes have, and nothing below them is left out.
NextEpisode(t, events) ==
  /\ events \subseteq Of(t) /\ Cardinality(events) <= EventLimit
  /\ \A e \in episodes : e.task = t =>
       \A i \in e.events, j \in events : i < j
  /\ \A i \in Of(t), j \in events :
       i <= j => i \in events \/ InEpisode(t, i, episodes)

\* What a pass has read is still the next episode when it creates it.
PassFresh ==
  pass.at = "create" => pass.events # {} /\ NextEpisode(pass.task, pass.events)

\* A job is recorded for an episode that exists.
JobsMade ==
  /\ jobs \subseteq episodes
  /\ pass.at = "job" => [task |-> pass.task, events |-> pass.events] \in episodes

EpisodeInv == Partitioned /\ PassFresh /\ JobsMade

LEMMA OfTyped ==
  ASSUME Typed, NEW t
  PROVE  Of(t) \subseteq 1..Len(log) /\ Of(t) \subseteq 1..MaxEvent
         /\ Of(t) \subseteq DOMAIN log /\ IsFiniteSet(Of(t))
<1>1. Of(t) \subseteq 1..Len(log) /\ Of(t) \subseteq 1..MaxEvent
      /\ Of(t) \subseteq DOMAIN log
  BY LogDomain DEF Of
<1>2. IsFiniteSet(1..MaxEvent)
  BY FS_Interval, MemoryAssumption
<1> QED BY <1>1, <1>2, FS_Subset

\* The watermark is above every event of an episode, and is one or zero.
LEMMA WatermarkBounds ==
  ASSUME Typed, Partitioned, NEW t \in Task
  PROVE  /\ Watermark(t) \in 0..MaxEvent
         /\ \A e \in episodes : e.task = t => \A i \in e.events : i <= Watermark(t)
         /\ Watermark(t) = 0 \/ InEpisode(t, Watermark(t), episodes)
<1> DEFINE S == {0} \cup UNION {e.events : e \in {x \in episodes : x.task = t}}
<1>1. \A e \in episodes : e.events \subseteq 1..MaxEvent
  BY OfTyped DEF Partitioned
<1>2. S \in SUBSET (0..MaxEvent) /\ S # {}
  BY <1>1, MemoryAssumption
<1>3. Max(S) \in S /\ \A y \in S : y <= Max(S)
  <2> HIDE DEF S
  <2> QED BY <1>2, GreatestOfBounded, MemoryAssumption
<1>4. Watermark(t) = Max(S)
  BY DEF Watermark
<1>5. \A e \in episodes : e.task = t => e.events \subseteq S
  OBVIOUS
<1>6. \A i \in S : i = 0 \/ InEpisode(t, i, episodes)
  BY DEF InEpisode
<1> HIDE DEF S
<1> QED BY <1>2, <1>3, <1>4, <1>5, <1>6

\* consolidate_task reads what may become the next episode.
LEMMA FreshIsNext ==
  ASSUME Typed, Partitioned, NEW t \in Task
  PROVE  NextEpisode(t, Fresh(t))
<1> DEFINE after == {i \in Of(t) : i > Watermark(t)}
           UpTo(i) == {j \in after : j <= i}
<1>1. /\ Of(t) \subseteq 1..MaxEvent /\ IsFiniteSet(Of(t)) /\ MaxEvent \in Nat
      /\ EventLimit \in Nat
  BY OfTyped, MemoryAssumption
<1>2. \A i \in Of(t) : IsFiniteSet(UpTo(i)) /\ Cardinality(UpTo(i)) \in Nat
  <2>1. \A i \in Of(t) : UpTo(i) \in SUBSET Of(t)
    OBVIOUS
  <2> HIDE DEF UpTo
  <2> QED BY <1>1, <2>1, FS_Subset, FS_CardinalityType
<1>3. Fresh(t) = {i \in after : Cardinality(UpTo(i)) <= EventLimit}
  BY DEF Fresh
<1>4. ASSUME NEW i \in after, NEW j \in Fresh(t), i <= j
      PROVE  i \in Fresh(t)
  <2>1. UpTo(i) \in SUBSET UpTo(j) /\ i \in Of(t) /\ j \in Of(t)
    <3>1. i \in Nat /\ j \in Nat /\ \A k \in after : k \in Nat
      BY <1>1, <1>3
    <3>2. \A k \in after : k <= i => k <= j
      BY <1>4, <3>1
    <3> QED BY <1>3, <3>2
  <2>2. Cardinality(UpTo(j)) <= EventLimit
    BY <1>3
  <2> HIDE DEF UpTo
  <2>3. Cardinality(UpTo(i)) <= Cardinality(UpTo(j))
    BY <1>2, <2>1, FS_Subset
  <2>4. Cardinality(UpTo(i)) <= EventLimit
    BY <1>1, <1>2, <2>1, <2>2, <2>3
  <2> QED BY <1>3, <2>4
<1>5. Cardinality(Fresh(t)) <= EventLimit
  <2>1. CASE Fresh(t) = {}
    BY <2>1, <1>1, FS_EmptySet
  <2>2. CASE Fresh(t) # {}
    <3> DEFINE m == Max(Fresh(t))
    <3>1. Fresh(t) \in SUBSET (0..MaxEvent)
      BY <1>1, <1>3
    <3>2. m \in Fresh(t) /\ \A i \in Fresh(t) : i <= m
      BY <1>1, <2>2, <3>1, GreatestOfBounded
    <3>3. Fresh(t) \in SUBSET UpTo(m) /\ m \in Of(t)
      BY <1>3, <3>2
    <3>4. Cardinality(UpTo(m)) <= EventLimit
      BY <1>3, <3>2
    <3>5. IsFiniteSet(UpTo(m)) /\ Cardinality(UpTo(m)) \in Nat
      BY <1>2, <3>3
    <3> HIDE DEF m, UpTo
    <3>6. Cardinality(Fresh(t)) <= Cardinality(UpTo(m)) /\ Cardinality(Fresh(t)) \in Nat
      BY <3>3, <3>5, FS_Subset, FS_CardinalityType
    <3> QED BY <1>1, <3>4, <3>5, <3>6
  <2> QED BY <2>1, <2>2
<1>6. ASSUME NEW e \in episodes, e.task = t, NEW i \in e.events, NEW j \in Fresh(t)
      PROVE  i < j
  <2>1. i <= Watermark(t) /\ Watermark(t) < j
    BY <1>3, <1>6, WatermarkBounds
  <2>2. i \in Nat /\ j \in Nat /\ Watermark(t) \in Nat
    BY <1>1, <1>3, <1>6, WatermarkBounds DEF Partitioned
  <2> QED BY <2>1, <2>2
<1>7. ASSUME NEW i \in Of(t), NEW j \in Fresh(t), i <= j
      PROVE  i \in Fresh(t) \/ InEpisode(t, i, episodes)
  <2>1. CASE i > Watermark(t)
    BY <1>4, <1>7, <2>1
  <2>2. CASE i <= Watermark(t)
    <3>1. InEpisode(t, Watermark(t), episodes)
      BY <1>1, <2>2, WatermarkBounds
    <3> QED BY <2>2, <3>1 DEF Partitioned, InEpisode
  <2> QED BY <1>1, <2>1, <2>2, WatermarkBounds
<1>8. Fresh(t) \subseteq Of(t)
  BY DEF Fresh
<1> QED BY <1>5, <1>6, <1>7, <1>8 DEF NextEpisode

\* New events are above those that were there.
LEMMA OfKept ==
  ASSUME Typed, Typed', LogKept, NEW t
  PROVE  /\ Of(t) \subseteq Of(t)'
         /\ \A i \in Of(t)', j \in Of(t) : i <= j => i \in Of(t)
<1>1. /\ DOMAIN log = 1..Len(log) /\ Len(log) \in Nat
      /\ DOMAIN log' = 1..Len(log') /\ Len(log') \in Nat
  BY DEF Typed, TypeOK
<1>2. \A i \in DOMAIN log', j \in DOMAIN log : i <= j => i \in DOMAIN log
  BY <1>1
<1> QED BY <1>2 DEF LogKept, Of

LEMMA NextEpisodeKept ==
  ASSUME Typed, Typed', LogKept, NEW t, NEW events, UNCHANGED episodes,
         NextEpisode(t, events)
  PROVE  NextEpisode(t, events)'
<1>1. \A i \in Of(t)', j \in events : i <= j => i \in Of(t)
  BY OfKept DEF NextEpisode
<1> QED BY <1>1, OfKept DEF NextEpisode, InEpisode

\* New events disturb neither the episodes nor a pass; a crash ends the pass.
LEMMA EpisodesKept ==
  ASSUME Typed, Typed', LogKept, EpisodeInv, UNCHANGED <<episodes, jobs>>,
         pass' \in {pass, NoPass}
  PROVE  EpisodeInv'
<1>1. Partitioned'
  <2>1. \A e \in episodes : Of(e.task) \subseteq Of(e.task)'
                            /\ \A i \in Of(e.task)', j \in e.events : i <= j => i \in Of(e.task)
    BY OfKept DEF EpisodeInv, Partitioned
  <2>2. \A e \in episodes : e.events \subseteq DOMAIN log
    BY OfTyped DEF EpisodeInv, Partitioned
  <2> QED BY <2>1, <2>2 DEF EpisodeInv, Partitioned, InEpisode
<1>2. CASE pass' = NoPass
  BY <1>1, <1>2 DEF EpisodeInv, PassFresh, JobsMade, NoPass
<1>3. CASE pass' = pass
  <2>1. PassFresh'
    BY <1>3, NextEpisodeKept DEF EpisodeInv, PassFresh
  <2> QED BY <1>1, <1>3, <2>1 DEF EpisodeInv, JobsMade
<1> QED BY <1>2, <1>3

LEMMA FinishedIsIdle ==
  ASSUME NEW t
  PROVE  Finished(t).at \in {"idle", "page"}
BY DEF Finished, NoPass

LEMMA ReadEventsKeeps ==
  ASSUME Typed, EpisodeInv, NEW t \in Task, ReadEvents(t)
  PROVE  EpisodeInv'
<1>1. /\ UNCHANGED <<log, episodes, jobs>>
      /\ \/ pass' = Finished(t)
         \/ /\ pass' = [pass EXCEPT !.at = "create", !.task = t, !.events = Fresh(t)]
            /\ Fresh(t) # {}
  BY DEF ReadEvents
<1>2. Partitioned' /\ (jobs \subseteq episodes)'
  BY <1>1 DEF EpisodeInv, Partitioned, JobsMade, InEpisode, Of
<1>3. CASE pass' = Finished(t)
  BY <1>2, <1>3, FinishedIsIdle DEF EpisodeInv, PassFresh, JobsMade
<1>4. CASE /\ pass' = [pass EXCEPT !.at = "create", !.task = t, !.events = Fresh(t)]
           /\ Fresh(t) # {}
  <2>1. pass'.at = "create" /\ pass'.task = t /\ pass'.events = Fresh(t)
    BY <1>4 DEF Typed, TypeOK
  <2>2. NextEpisode(t, Fresh(t))
    BY FreshIsNext DEF EpisodeInv
  <2>3. NextEpisode(pass.task, pass.events)'
    BY <1>1, <2>1, <2>2 DEF NextEpisode, InEpisode, Of
  <2> QED BY <1>2, <1>4, <2>1, <2>3 DEF EpisodeInv, PassFresh, JobsMade
<1> QED BY <1>1, <1>3, <1>4

LEMMA CreateEpisodeKeeps ==
  ASSUME Typed, EpisodeInv, CreateEpisode
  PROVE  EpisodeInv'
<1> DEFINE new == [task |-> pass.task, events |-> pass.events]
<1>1. /\ pass.at = "create" /\ pass.task \in Task
      /\ UNCHANGED <<log, jobs>> /\ pass' = [pass EXCEPT !.at = "job"]
      /\ episodes' = IF \E e \in episodes : Same(e, pass.task, pass.events)
                     THEN episodes ELSE episodes \cup {new}
  BY DEF CreateEpisode, Typed
<1>2. pass.events # {} /\ NextEpisode(pass.task, pass.events)
  BY <1>1 DEF EpisodeInv, PassFresh
<1>3. \A e \in episodes : ~Same(e, pass.task, pass.events)
  <2> SUFFICES ASSUME NEW e \in episodes, e.task = pass.task,
                      Max(e.events) = Max(pass.events)
               PROVE  FALSE
    BY DEF Same
  <2>1. e.events \in SUBSET (0..MaxEvent) /\ e.events # {}
        /\ pass.events \in SUBSET (0..MaxEvent) /\ MaxEvent \in Nat
    BY <1>2, OfTyped, MemoryAssumption DEF EpisodeInv, Partitioned, NextEpisode
  <2>2. Max(e.events) \in e.events /\ Max(pass.events) \in pass.events
    BY <1>2, <2>1, GreatestOfBounded
  <2>3. Max(e.events) < Max(pass.events) /\ Max(e.events) \in Nat
    BY <1>2, <2>1, <2>2 DEF NextEpisode
  <2> QED BY <2>3
<1>4. episodes' = episodes \cup {new}
  BY <1>1, <1>3
<1>5. new.task = pass.task /\ new.events = pass.events
  OBVIOUS
<1> HIDE DEF new
<1>6. Partitioned'
  <2>1. \A e \in episodes' : /\ e.events # {} /\ e.events \subseteq Of(e.task)
                             /\ Cardinality(e.events) <= EventLimit
    BY <1>2, <1>4, <1>5 DEF EpisodeInv, Partitioned, NextEpisode
  <2>2. ASSUME NEW e \in episodes, NEW i \in DOMAIN log, e.task = new.task,
               i \in e.events, i \in new.events
        PROVE  FALSE
    <3>1. i < i
      BY <1>2, <1>5, <2>2 DEF NextEpisode
    <3>2. i \in Nat
      BY LogDomain
    <3> QED BY <3>1, <3>2
  <2>3. \A e, f \in episodes', i \in DOMAIN log :
          e.task = f.task /\ i \in e.events /\ i \in f.events => e = f
    BY <1>4, <2>2 DEF EpisodeInv, Partitioned
  <2>4. \A e \in episodes' : \A i \in Of(e.task), j \in e.events :
          i <= j => InEpisode(e.task, i, episodes')
    <3>1. \A e \in episodes : \A i \in Of(e.task), j \in e.events :
            i <= j => InEpisode(e.task, i, episodes')
      BY <1>4 DEF EpisodeInv, Partitioned, InEpisode
    <3>2. \A i \in Of(new.task), j \in new.events :
            i <= j => InEpisode(new.task, i, episodes')
      BY <1>2, <1>4, <1>5 DEF NextEpisode, InEpisode
    <3> QED BY <1>4, <3>1, <3>2
  <2> QED BY <1>1, <2>1, <2>3, <2>4 DEF Partitioned, Of
<1>7. pass'.at = "job" /\ pass'.task = pass.task /\ pass'.events = pass.events
  BY <1>1 DEF Typed, TypeOK
<1> QED
  BY <1>1, <1>4, <1>6, <1>7 DEF EpisodeInv, PassFresh, JobsMade, new

LEMMA NextKeepsEpisodes ==
  ASSUME Typed, EpisodeInv, [Next]_vars
  PROVE  EpisodeInv'
<1>0. Typed' /\ LogKept
  BY NextTyped
<1>1. CASE Tasks \/ Check \/ Servers
  BY <1>0, <1>1, TasksTyped, CheckTyped, ServersTyped, EpisodesKept DEF Episodes
<1>2. CASE Life
  BY <1>0, <1>2, LifeTyped, EpisodesKept
<1>3. CASE ReadPage
  <2>1. pass'.at = "page" /\ UNCHANGED <<log, episodes, jobs>>
    BY <1>3 DEF ReadPage, NoPass
  <2> QED BY <2>1 DEF EpisodeInv, Partitioned, PassFresh, JobsMade, InEpisode, Of
<1>4. CASE RecordJob
  <2>1. /\ pass.at = "job" /\ UNCHANGED <<log, episodes>> /\ pass' = Finished(pass.task)
        /\ jobs' = jobs \cup {[task |-> pass.task, events |-> pass.events]}
    BY <1>4 DEF RecordJob
  <2> QED
    BY <2>1, FinishedIsIdle DEF EpisodeInv, Partitioned, PassFresh, JobsMade, InEpisode, Of
<1>5. CASE UNCHANGED vars
  BY <1>0, <1>5, EpisodesKept DEF vars
<1> QED
  BY <1>1, <1>2, <1>3, <1>4, <1>5, Grouped, ReadEventsKeeps, CreateEpisodeKeeps
  DEF Consolidate

\* Wherever the maintenance thread dies and whatever arrives meanwhile, each
\* event up to the watermark of its task is in exactly one episode.
THEOREM EpisodesArePartition == Spec => []EpisodesPartition
<1>1. Init => EpisodeInv
  BY DEF Init, EpisodeInv, Partitioned, PassFresh, JobsMade, NoPass
<1>2. Typed /\ EpisodeInv => EpisodesPartition
  <2> SUFFICES ASSUME Typed, EpisodeInv PROVE EpisodesPartition
    OBVIOUS
  <2>1. ASSUME NEW t \in Task, NEW i \in Of(t), i <= Watermark(t)
        PROVE  Cardinality({e \in episodes : e.task = t /\ i \in e.events}) = 1
    <3>1. i \in DOMAIN log /\ i \in Nat /\ i # 0
      BY OfTyped, LogDomain
    <3>2. PICK e \in episodes : e.task = t /\ i \in e.events
      <4>1. Watermark(t) # 0
        BY <2>1, <3>1, WatermarkBounds DEF EpisodeInv
      <4>2. PICK f \in episodes : f.task = t /\ Watermark(t) \in f.events
        BY <4>1, WatermarkBounds DEF EpisodeInv, InEpisode
      <4> QED BY <2>1, <4>2 DEF EpisodeInv, Partitioned, InEpisode
    <3>3. {f \in episodes : f.task = t /\ i \in f.events} = {e}
      BY <3>1, <3>2 DEF EpisodeInv, Partitioned
    <3> QED BY <3>3, FS_Singleton
  <2> QED
    BY <2>1 DEF Typed, EpisodeInv, JobsMade, Partitioned, EpisodesPartition
<1> QED BY <1>1, <1>2, InitTyped, NextTyped, NextKeepsEpisodes, PTL DEF Spec

-----------------------------------------------------------------------------
(***************************************************************************)
(* Retrieval: the loops of the search and of the service.                  *)
(***************************************************************************)

\* Induction up to a number, over a set.
LEMMA UpTo ==
  ASSUME NEW n \in Nat, NEW S, 0 \in S, \A k \in 0..(n - 1) : k \in S => k + 1 \in S
  PROVE  n \in S
<1> DEFINE G == {k \in 0..n : \A j \in 0..k : j \in S}
<1>1. G \in SUBSET (0..n) /\ 0 \in G
  OBVIOUS
<1>2. PICK m \in G : \A k \in G : k <= m
  <2> HIDE DEF G
  <2> QED BY <1>1, GreatestOfBounded
<1>3. CASE m = n
  BY <1>2, <1>3
<1>4. CASE m # n
  <2>1. m \in 0..(n - 1) /\ m \in S /\ m \in 0..m
    BY <1>2, <1>4
  <2>2. m + 1 \in S /\ m + 1 \in 0..n
    BY <2>1
  <2>3. \A j \in 0..(m + 1) : j \in 0..m \/ j = m + 1
    BY <2>1
  <2>4. m + 1 \in G
    BY <1>2, <2>2, <2>3
  <2>5. m + 1 <= m
    BY <1>2, <2>4
  <2> QED BY <2>1, <2>5
<1> QED
  BY <1>3, <1>4

\* What Total computes, turn by turn.
TotalTurns(f, sizes) ==
  /\ f[0] = 0
  /\ \A k \in 1..Len(sizes) : f[k] = f[k - 1] + sizes[k]

LEMMA TotalIs ==
  ASSUME NEW sizes, Len(sizes) \in Nat
  PROVE  \E f : TotalTurns(f, sizes) /\ Total(sizes) = f[Len(sizes)]
<1> DEFINE n == Len(sizes)
           Turn(a, k) == a + sizes[k]
           base == 0
           Is(g, k) == g = [j \in 0..k |-> IF j = 0 THEN base ELSE Turn(g[j - 1], j)]
           S == {k \in Nat : \E g : Is(g, k)}
           after == CHOOSE g : Is(g, n)
<1>1. n \in Nat
  OBVIOUS
<1>2. Total(sizes) = after[n]
  BY DEF Total
<1>3. 0 \in S
  <2>1. Is([j \in 0..0 |-> base], 0)
    OBVIOUS
  <2> QED BY <2>1
<1>4. ASSUME NEW k \in 0..(n - 1), k \in S PROVE k + 1 \in S
  <2>1. PICK g : Is(g, k)
    BY <1>4
  <2> DEFINE next == [j \in 0..(k + 1) |-> IF j = k + 1 THEN Turn(g[k], k + 1) ELSE g[j]]
             Body == [j \in 0..(k + 1) |-> IF j = 0 THEN base ELSE Turn(next[j - 1], j)]
  <2>2. k \in Nat /\ k + 1 \in Nat /\ k + 1 # 0 /\ (k + 1) - 1 = k
    BY <1>1
  <2>3. ASSUME NEW j \in 0..(k + 1) PROVE next[j] = Body[j]
    <3> HIDE DEF Turn, base
    <3>1. CASE j = k + 1
      <4>1. next[k] = g[k]
        BY <2>2
      <4> QED BY <3>1, <4>1, <2>2
    <3>2. CASE j # k + 1
      <4>1. j \in 0..k
        BY <2>2, <3>2
      <4>2. g[j] = IF j = 0 THEN base ELSE Turn(g[j - 1], j)
        BY <2>1, <4>1
      <4>3. j # 0 => next[j - 1] = g[j - 1]
        BY <4>1, <2>2
      <4> QED BY <3>2, <4>1, <4>2, <4>3
    <3> QED BY <3>1, <3>2
  <2>4. next = Body
    <3> HIDE DEF Turn, base
    <3> QED BY <2>3
  <2> HIDE DEF next, Turn, base
  <2> QED BY <2>2, <2>4
<1>5. n \in S
  <2> HIDE DEF S, n
  <2> QED BY <1>1, <1>3, <1>4, UpTo
<1>6. Is(after, n)
  <2> HIDE DEF Is
  <2> QED BY <1>5
<1>7. TotalTurns(after, sizes)
  <2>1. after[0] = base
    <3> HIDE DEF Turn, base, after, n
    <3> QED BY <1>1, <1>6
  <2>2. ASSUME NEW k \in 1..n PROVE after[k] = Turn(after[k - 1], k)
    <3> HIDE DEF Turn, base, after, n
    <3> QED BY <1>1, <1>6
  <2> HIDE DEF after
  <2> QED BY <2>1, <2>2 DEF TotalTurns
<1> HIDE DEF after, Turn, base
<1> QED
  BY <1>2, <1>7

\* What TakeRows computes, turn by turn.
TakeRowsTurns(f, rows, requested, results) ==
  /\ f[0] = [items |-> [k \in Kinds |-> <<>>], used |-> 0, done |-> FALSE, truncated |-> FALSE]
  /\ \A k \in 1..Len(rows) : f[k] = Consider(f[k - 1], rows[k], requested, results)

LEMMA TakeRowsIs ==
  ASSUME NEW rows, Len(rows) \in Nat, NEW requested, NEW results
  PROVE  \E f : TakeRowsTurns(f, rows, requested, results) /\ TakeRows(rows, requested, results) = f[Len(rows)]
<1> DEFINE n == Len(rows)
           Turn(a, k) == Consider(a, rows[k], requested, results)
           base == [items |-> [k \in Kinds |-> <<>>], used |-> 0, done |-> FALSE, truncated |-> FALSE]
           Is(g, k) == g = [j \in 0..k |-> IF j = 0 THEN base ELSE Turn(g[j - 1], j)]
           S == {k \in Nat : \E g : Is(g, k)}
           after == CHOOSE g : Is(g, n)
<1>1. n \in Nat
  OBVIOUS
<1>2. TakeRows(rows, requested, results) = after[n]
  BY DEF TakeRows
<1>3. 0 \in S
  <2>1. Is([j \in 0..0 |-> base], 0)
    OBVIOUS
  <2> QED BY <2>1
<1>4. ASSUME NEW k \in 0..(n - 1), k \in S PROVE k + 1 \in S
  <2>1. PICK g : Is(g, k)
    BY <1>4
  <2> DEFINE next == [j \in 0..(k + 1) |-> IF j = k + 1 THEN Turn(g[k], k + 1) ELSE g[j]]
             Body == [j \in 0..(k + 1) |-> IF j = 0 THEN base ELSE Turn(next[j - 1], j)]
  <2>2. k \in Nat /\ k + 1 \in Nat /\ k + 1 # 0 /\ (k + 1) - 1 = k
    BY <1>1
  <2>3. ASSUME NEW j \in 0..(k + 1) PROVE next[j] = Body[j]
    <3> HIDE DEF Turn, base
    <3>1. CASE j = k + 1
      <4>1. next[k] = g[k]
        BY <2>2
      <4> QED BY <3>1, <4>1, <2>2
    <3>2. CASE j # k + 1
      <4>1. j \in 0..k
        BY <2>2, <3>2
      <4>2. g[j] = IF j = 0 THEN base ELSE Turn(g[j - 1], j)
        BY <2>1, <4>1
      <4>3. j # 0 => next[j - 1] = g[j - 1]
        BY <4>1, <2>2
      <4> QED BY <3>2, <4>1, <4>2, <4>3
    <3> QED BY <3>1, <3>2
  <2>4. next = Body
    <3> HIDE DEF Turn, base
    <3> QED BY <2>3
  <2> HIDE DEF next, Turn, base
  <2> QED BY <2>2, <2>4
<1>5. n \in S
  <2> HIDE DEF S, n
  <2> QED BY <1>1, <1>3, <1>4, UpTo
<1>6. Is(after, n)
  <2> HIDE DEF Is
  <2> QED BY <1>5
<1>7. TakeRowsTurns(after, rows, requested, results)
  <2>1. after[0] = base
    <3> HIDE DEF Turn, base, after, n
    <3> QED BY <1>1, <1>6
  <2>2. ASSUME NEW k \in 1..n PROVE after[k] = Turn(after[k - 1], k)
    <3> HIDE DEF Turn, base, after, n
    <3> QED BY <1>1, <1>6
  <2> HIDE DEF after
  <2> QED BY <2>1, <2>2 DEF TakeRowsTurns
<1> HIDE DEF after, Turn, base
<1> QED
  BY <1>2, <1>7

\* What TakeAwareness computes, turn by turn.
TakeAwarenessTurns(f, ranked, awareness, requested) ==
  /\ f[0] = [ranked EXCEPT !.done = FALSE]
  /\ \A k \in 1..Len(awareness) : f[k] = Aware(f[k - 1], awareness[k], requested)

LEMMA TakeAwarenessIs ==
  ASSUME NEW ranked, NEW awareness, Len(awareness) \in Nat, NEW requested
  PROVE  \E f : TakeAwarenessTurns(f, ranked, awareness, requested) /\ TakeAwareness(ranked, awareness, requested) = f[Len(awareness)]
<1> DEFINE n == Len(awareness)
           Turn(a, k) == Aware(a, awareness[k], requested)
           base == [ranked EXCEPT !.done = FALSE]
           Is(g, k) == g = [j \in 0..k |-> IF j = 0 THEN base ELSE Turn(g[j - 1], j)]
           S == {k \in Nat : \E g : Is(g, k)}
           after == CHOOSE g : Is(g, n)
<1>1. n \in Nat
  OBVIOUS
<1>2. TakeAwareness(ranked, awareness, requested) = after[n]
  BY DEF TakeAwareness
<1>3. 0 \in S
  <2>1. Is([j \in 0..0 |-> base], 0)
    OBVIOUS
  <2> QED BY <2>1
<1>4. ASSUME NEW k \in 0..(n - 1), k \in S PROVE k + 1 \in S
  <2>1. PICK g : Is(g, k)
    BY <1>4
  <2> DEFINE next == [j \in 0..(k + 1) |-> IF j = k + 1 THEN Turn(g[k], k + 1) ELSE g[j]]
             Body == [j \in 0..(k + 1) |-> IF j = 0 THEN base ELSE Turn(next[j - 1], j)]
  <2>2. k \in Nat /\ k + 1 \in Nat /\ k + 1 # 0 /\ (k + 1) - 1 = k
    BY <1>1
  <2>3. ASSUME NEW j \in 0..(k + 1) PROVE next[j] = Body[j]
    <3> HIDE DEF Turn, base
    <3>1. CASE j = k + 1
      <4>1. next[k] = g[k]
        BY <2>2
      <4> QED BY <3>1, <4>1, <2>2
    <3>2. CASE j # k + 1
      <4>1. j \in 0..k
        BY <2>2, <3>2
      <4>2. g[j] = IF j = 0 THEN base ELSE Turn(g[j - 1], j)
        BY <2>1, <4>1
      <4>3. j # 0 => next[j - 1] = g[j - 1]
        BY <4>1, <2>2
      <4> QED BY <3>2, <4>1, <4>2, <4>3
    <3> QED BY <3>1, <3>2
  <2>4. next = Body
    <3> HIDE DEF Turn, base
    <3> QED BY <2>3
  <2> HIDE DEF next, Turn, base
  <2> QED BY <2>2, <2>4
<1>5. n \in S
  <2> HIDE DEF S, n
  <2> QED BY <1>1, <1>3, <1>4, UpTo
<1>6. Is(after, n)
  <2> HIDE DEF Is
  <2> QED BY <1>5
<1>7. TakeAwarenessTurns(after, ranked, awareness, requested)
  <2>1. after[0] = base
    <3> HIDE DEF Turn, base, after, n
    <3> QED BY <1>1, <1>6
  <2>2. ASSUME NEW k \in 1..n PROVE after[k] = Turn(after[k - 1], k)
    <3> HIDE DEF Turn, base, after, n
    <3> QED BY <1>1, <1>6
  <2> HIDE DEF after
  <2> QED BY <2>1, <2>2 DEF TakeAwarenessTurns
<1> HIDE DEF after, Turn, base
<1> QED
  BY <1>2, <1>7

\* What AdmitAll computes, turn by turn.
AdmitAllTurns(f, result, budget) ==
  /\ f[0] = [items |-> <<>>, done |-> FALSE, truncated |-> result.truncated]
  /\ \A k \in 1..Len(result.items) : f[k] = Admit(f[k - 1], result.items[k], budget)

LEMMA AdmitAllIs ==
  ASSUME NEW result, Len(result.items) \in Nat, NEW budget
  PROVE  \E f : AdmitAllTurns(f, result, budget) /\ AdmitAll(result, budget) = f[Len(result.items)]
<1> DEFINE n == Len(result.items)
           Turn(a, k) == Admit(a, result.items[k], budget)
           base == [items |-> <<>>, done |-> FALSE, truncated |-> result.truncated]
           Is(g, k) == g = [j \in 0..k |-> IF j = 0 THEN base ELSE Turn(g[j - 1], j)]
           S == {k \in Nat : \E g : Is(g, k)}
           after == CHOOSE g : Is(g, n)
<1>1. n \in Nat
  OBVIOUS
<1>2. AdmitAll(result, budget) = after[n]
  BY DEF AdmitAll
<1>3. 0 \in S
  <2>1. Is([j \in 0..0 |-> base], 0)
    OBVIOUS
  <2> QED BY <2>1
<1>4. ASSUME NEW k \in 0..(n - 1), k \in S PROVE k + 1 \in S
  <2>1. PICK g : Is(g, k)
    BY <1>4
  <2> DEFINE next == [j \in 0..(k + 1) |-> IF j = k + 1 THEN Turn(g[k], k + 1) ELSE g[j]]
             Body == [j \in 0..(k + 1) |-> IF j = 0 THEN base ELSE Turn(next[j - 1], j)]
  <2>2. k \in Nat /\ k + 1 \in Nat /\ k + 1 # 0 /\ (k + 1) - 1 = k
    BY <1>1
  <2>3. ASSUME NEW j \in 0..(k + 1) PROVE next[j] = Body[j]
    <3> HIDE DEF Turn, base
    <3>1. CASE j = k + 1
      <4>1. next[k] = g[k]
        BY <2>2
      <4> QED BY <3>1, <4>1, <2>2
    <3>2. CASE j # k + 1
      <4>1. j \in 0..k
        BY <2>2, <3>2
      <4>2. g[j] = IF j = 0 THEN base ELSE Turn(g[j - 1], j)
        BY <2>1, <4>1
      <4>3. j # 0 => next[j - 1] = g[j - 1]
        BY <4>1, <2>2
      <4> QED BY <3>2, <4>1, <4>2, <4>3
    <3> QED BY <3>1, <3>2
  <2>4. next = Body
    <3> HIDE DEF Turn, base
    <3> QED BY <2>3
  <2> HIDE DEF next, Turn, base
  <2> QED BY <2>2, <2>4
<1>5. n \in S
  <2> HIDE DEF S, n
  <2> QED BY <1>1, <1>3, <1>4, UpTo
<1>6. Is(after, n)
  <2> HIDE DEF Is
  <2> QED BY <1>5
<1>7. AdmitAllTurns(after, result, budget)
  <2>1. after[0] = base
    <3> HIDE DEF Turn, base, after, n
    <3> QED BY <1>1, <1>6
  <2>2. ASSUME NEW k \in 1..n PROVE after[k] = Turn(after[k - 1], k)
    <3> HIDE DEF Turn, base, after, n
    <3> QED BY <1>1, <1>6
  <2> HIDE DEF after
  <2> QED BY <2>1, <2>2 DEF AdmitAllTurns
<1> HIDE DEF after, Turn, base
<1> QED
  BY <1>2, <1>7

\* Rows and metrics of any size.
Row(Kind, Subject) == [kind : Kind, subject : Subject, bytes : Nat, lost : Nat,
                       fields : Nat, expand : Nat]
Text == [bytes : Nat, lost : Nat]

\* A cut text costs one token more than was available at most.
LEMMA TakeBounds ==
  ASSUME NEW requested \in Nat, NEW used \in 0..(requested + 1), NEW text,
         text.bytes \in Nat, text.lost \in Nat, NEW overhead \in Nat
  PROVE  LET t == Take(requested, used, text, overhead)
         IN  t.used \in 0..(requested + 1) /\ t.bytes \in Nat /\ t.cut \in BOOLEAN
<1> DEFINE available == Most(0, requested - used) - overhead
           cut == Most(0, 4 * available - text.lost)
           kept == IF cut > 0 THEN cut + 3 ELSE 0
           t == Take(requested, used, text, overhead)
<1>1. CASE available <= 0
  <2>1. t = [used |-> used, bytes |-> 0, cut |-> TRUE]
    BY <1>1 DEF Take, Most
  <2> QED BY <2>1
<1>2. CASE available > 0 /\ Tokens(text.bytes) <= available
  <2>1. t = [used |-> used + Tokens(text.bytes) + overhead, bytes |-> text.bytes, cut |-> FALSE]
    BY <1>2 DEF Take, Most
  <2>2. Tokens(text.bytes) \in Nat
    BY DEF Tokens
  <2>3. available = requested - used - overhead
    BY <1>2 DEF Most
  <2>4. used + Tokens(text.bytes) + overhead \in 0..(requested + 1)
    BY <1>2, <2>2, <2>3
  <2> QED BY <2>1, <2>4
<1>3. CASE available > 0 /\ ~(Tokens(text.bytes) <= available)
  <2>1. t = [used |-> used + Tokens(kept) + overhead, bytes |-> kept, cut |-> TRUE]
    BY <1>3 DEF Take, Most
  <2>2. available = requested - used - overhead /\ available \in Nat
    BY <1>3 DEF Most
  <2>3. cut \in Nat /\ cut <= 4 * available
    BY <2>2 DEF Most
  <2>4. kept \in Nat /\ kept <= 4 * available + 3
    BY <2>2, <2>3
  <2>5. Tokens(kept) \in Nat /\ Tokens(kept) <= available + 1
    <3> HIDE DEF kept, available
    <3> QED BY <2>2, <2>4 DEF Tokens
  <2>6. used + Tokens(kept) + overhead \in 0..(requested + 1)
    <3> HIDE DEF kept
    <3> QED BY <2>2, <2>5
  <2> HIDE DEF kept
  <2> QED BY <2>1, <2>4, <2>6
<1>4. available \in Int
  BY DEF Most
<1> QED
  BY <1>1, <1>2, <1>3, <1>4

\* The state of the search between two texts.
Found(Kind, Subject, requested) ==
  [items : [Kinds -> Seq(Row(Kind, Subject))], used : 0..(requested + 1),
   done : BOOLEAN, truncated : BOOLEAN]

LEMMA ConsiderFound ==
  ASSUME NEW Kind, NEW Subject, NEW requested \in Nat, NEW results,
         NEW found \in Found(Kind, Subject, requested), NEW row \in Row(Kind, Subject)
  PROVE  Consider(found, row, requested, results) \in Found(Kind, Subject, requested)
<1> DEFINE text == Take(requested, found.used, row, 8)
           item == [row EXCEPT !.bytes = text.bytes]
           c == Consider(found, row, requested, results)
           more == IF text.bytes = 0 THEN found.items
                   ELSE [found.items EXCEPT ![row.kind] = Append(@, item)]
           stop == text.cut \/ text.bytes = 0
<1>1. text.used \in 0..(requested + 1) /\ text.bytes \in Nat /\ text.cut \in BOOLEAN
  BY TakeBounds DEF Found, Row
<1>2. \/ c = found
      \/ c = [found EXCEPT !.done = TRUE, !.truncated = TRUE]
      \/ /\ row.kind \in Kinds
         /\ c = [items |-> more, used |-> text.used, done |-> stop,
                 truncated |-> found.truncated \/ text.cut \/ text.bytes = 0]
  <2> HIDE DEF text
  <2> QED BY Zenon DEF Consider, text, Found
<1>3. item \in Row(Kind, Subject)
  <2> HIDE DEF text
  <2> QED BY <1>1 DEF Row
<1>4. row.kind \in Kinds => more \in [Kinds -> Seq(Row(Kind, Subject))]
  <2> SUFFICES ASSUME row.kind \in Kinds PROVE more \in [Kinds -> Seq(Row(Kind, Subject))]
    OBVIOUS
  <2>1. found.items \in [Kinds -> Seq(Row(Kind, Subject))]
    BY DEF Found
  <2> HIDE DEF item, text
  <2>2. Append(found.items[row.kind], item) \in Seq(Row(Kind, Subject))
    BY <1>3, <2>1, AppendProperties
  <2> QED BY <2>1, <2>2
<1>5. [found EXCEPT !.done = TRUE, !.truncated = TRUE] \in Found(Kind, Subject, requested)
  BY Zenon DEF Found
<1>6. stop \in BOOLEAN /\ (found.truncated \/ text.cut \/ text.bytes = 0) \in BOOLEAN
  OBVIOUS
<1>7. ASSUME row.kind \in Kinds
      PROVE  [items |-> more, used |-> text.used, done |-> stop,
              truncated |-> found.truncated \/ text.cut \/ text.bytes = 0]
               \in Found(Kind, Subject, requested)
  <2> HIDE DEF text, more, stop
  <2> QED BY <1>1, <1>4, <1>6, <1>7, Zenon DEF Found
<1> HIDE DEF text, more, c, stop
<1>8. c \in Found(Kind, Subject, requested)
  BY <1>2, <1>5, <1>7, Zenon
<1> QED
  BY <1>8 DEF c

LEMMA AwareFound ==
  ASSUME NEW Kind, NEW Subject, NEW requested \in Nat,
         NEW found \in Found(Kind, Subject, requested), NEW text \in Text
  PROVE  Aware(found, text, requested) \in Found(Kind, Subject, requested)
<1> DEFINE taken == Take(requested, found.used, text, 4)
<1>1. taken.used \in 0..(requested + 1) /\ taken.cut \in BOOLEAN
  BY TakeBounds DEF Found, Text
<1> HIDE DEF taken
<1>2. [found EXCEPT !.used = taken.used, !.done = taken.cut,
                    !.truncated = @ \/ taken.cut] \in Found(Kind, Subject, requested)
  BY <1>1, ZenonT(30) DEF Found
<1> QED
  BY <1>2 DEF Aware, taken

\* What a search returns is well formed, and the budget is overrun by the
\* ellipsis of the text that was cut at most.
LEMMA SearchBounds ==
  ASSUME NEW Kind, NEW Subject, NEW rows \in Seq(Row(Kind, Subject)),
         NEW awareness \in Seq(Text), NEW requested \in Nat, NEW results
  PROVE  LET r == Search(rows, awareness, requested, results)
         IN  /\ r.items \in Seq(Row(Kind, Subject))
             /\ r.used \in 0..(requested + 1)
             /\ r.truncated \in BOOLEAN
<1> DEFINE T == Found(Kind, Subject, requested)
           ranked == TakeRows(rows, requested, results)
           all == TakeAwareness(ranked, awareness, requested)
<1>1. ranked \in T
  <2> DEFINE n == Len(rows)
  <2>1. n \in Nat /\ \A k \in 1..n : rows[k] \in Row(Kind, Subject)
    BY ElementOfSeq, LenProperties
  <2>2. PICK f : TakeRowsTurns(f, rows, requested, results) /\ ranked = f[n]
    BY <2>1, TakeRowsIs
  <2> DEFINE S == {k \in Nat : f[k] \in T}
  <2> HIDE DEF n
  <2>3. 0 \in S
    <3>1. [k \in Kinds |-> <<>>] \in [Kinds -> Seq(Row(Kind, Subject))] /\ 0 \in 0..(requested + 1)
      OBVIOUS
    <3>2. [items |-> [k \in Kinds |-> <<>>], used |-> 0, done |-> FALSE,
           truncated |-> FALSE] \in T
      BY <3>1, Zenon DEF Found
    <3>3. f[0] \in T
      <4> HIDE DEF T
      <4> QED BY <2>2, <3>2 DEF TakeRowsTurns
    <3> QED BY <3>3
  <2>4. ASSUME NEW k \in 0..(n - 1), k \in S PROVE k + 1 \in S
    <3>1. k + 1 \in 1..n /\ (k + 1) - 1 = k /\ k + 1 \in Nat
      BY <2>1
    <3>2. f[k + 1] = Consider(f[k], rows[k + 1], requested, results)
      BY <2>2, <3>1 DEF TakeRowsTurns, n
    <3>3. f[k + 1] \in T
      <4>1. f[k] \in T /\ rows[k + 1] \in Row(Kind, Subject)
        BY <2>1, <2>4, <3>1
      <4> QED BY <3>2, <4>1, ConsiderFound
    <3> QED BY <3>1, <3>3
  <2>5. n \in S
    <3> HIDE DEF S
    <3> QED BY <2>1, <2>3, <2>4, UpTo
  <2> QED BY <2>2, <2>5
<1> HIDE DEF ranked
<1>2. all \in T
  <2> DEFINE n == Len(awareness)
  <2>1. n \in Nat /\ \A k \in 1..n : awareness[k] \in Text
    BY ElementOfSeq, LenProperties
  <2>2. PICK f : TakeAwarenessTurns(f, ranked, awareness, requested) /\ all = f[n]
    BY <2>1, TakeAwarenessIs
  <2> DEFINE S == {k \in Nat : f[k] \in T}
  <2> HIDE DEF n
  <2>3. 0 \in S
    <3>1. [ranked EXCEPT !.done = FALSE] \in T
      BY <1>1, Zenon DEF Found
    <3>2. f[0] \in T
      BY <2>2, <3>1 DEF TakeAwarenessTurns
    <3> QED BY <3>2
  <2>4. ASSUME NEW k \in 0..(n - 1), k \in S PROVE k + 1 \in S
    <3>1. k + 1 \in 1..n /\ (k + 1) - 1 = k /\ k + 1 \in Nat
      BY <2>1
    <3>2. f[k + 1] = Aware(f[k], awareness[k + 1], requested)
      BY <2>2, <3>1 DEF TakeAwarenessTurns, n
    <3>3. f[k + 1] \in T
      <4>1. f[k] \in T /\ awareness[k + 1] \in Text
        BY <2>1, <2>4, <3>1
      <4> QED BY <3>2, <4>1, AwareFound
    <3> QED BY <3>1, <3>3
  <2>5. n \in S
    <3> HIDE DEF S
    <3> QED BY <2>1, <2>3, <2>4, UpTo
  <2> QED BY <2>2, <2>5
<1> HIDE DEF all
<1>3. AllItems(all.items) \in Seq(Row(Kind, Subject))
  <2> DEFINE OfKind(k) == all.items[k]
  <2>1. {"commitment", "contradiction", "fact", "episode"} = Kinds
    BY DEF Kinds
  <2>2. \A k \in Kinds : OfKind(k) \in Seq(Row(Kind, Subject))
    BY <1>2 DEF Found
  <2> HIDE DEF OfKind
  <2>3. OfKind("commitment") \in Seq(Row(Kind, Subject)) /\ OfKind("contradiction") \in Seq(Row(Kind, Subject))
        /\ OfKind("fact") \in Seq(Row(Kind, Subject)) /\ OfKind("episode") \in Seq(Row(Kind, Subject))
    BY <2>1, <2>2
  <2>4. OfKind("commitment") \o OfKind("contradiction") \in Seq(Row(Kind, Subject))
    BY <2>3, ConcatProperties
  <2>5. (OfKind("commitment") \o OfKind("contradiction")) \o OfKind("fact") \in Seq(Row(Kind, Subject))
    BY <2>3, <2>4, ConcatProperties
  <2>6. ((OfKind("commitment") \o OfKind("contradiction")) \o OfKind("fact")) \o OfKind("episode")
          \in Seq(Row(Kind, Subject))
    BY <2>3, <2>5, ConcatProperties
  <2> QED BY <2>6 DEF AllItems, OfKind
<1>4. all.used \in 0..(requested + 1) /\ all.truncated \in BOOLEAN
  BY <1>2 DEF Found
<1>5. Search(rows, awareness, requested, results)
        = [items |-> AllItems(all.items), used |-> all.used, truncated |-> all.truncated]
  BY DEF Search, all, ranked
<1> QED
  BY <1>3, <1>4, <1>5

LEMMA TotalNat ==
  ASSUME NEW sizes \in Seq(Nat)
  PROVE  Total(sizes) \in Nat
<1> DEFINE n == Len(sizes)
<1>1. n \in Nat /\ \A k \in 1..n : sizes[k] \in Nat
  BY ElementOfSeq, LenProperties
<1>2. PICK f : TotalTurns(f, sizes) /\ Total(sizes) = f[n]
  BY <1>1, TotalIs
<1> DEFINE S == {k \in Nat : f[k] \in Nat}
<1> HIDE DEF n
<1>3. 0 \in S
  BY <1>2 DEF TotalTurns
<1>4. ASSUME NEW k \in 0..(n - 1), k \in S PROVE k + 1 \in S
  <2>1. k + 1 \in 1..n /\ (k + 1) - 1 = k /\ k + 1 \in Nat
    BY <1>1
  <2>2. f[k + 1] = f[k] + sizes[k + 1]
    BY <1>2, <2>1 DEF TotalTurns, n
  <2> QED BY <1>1, <1>4, <2>1, <2>2
<1>5. n \in S
  <2> HIDE DEF S
  <2> QED BY <1>1, <1>3, <1>4, UpTo
<1> QED
  BY <1>2, <1>5

\* A larger number does not have fewer digits.
LEMMA DigitsGrow ==
  ASSUME NEW m \in Nat, NEW n \in Nat, m <= n
  PROVE  Digits(m) \in Nat /\ Digits(n) \in Nat /\ Digits(m) <= Digits(n)
<1> DEFINE Powers(k) == {d \in 1..9 : 10^d <= k}
<1>1. Digits(m) = 1 + Cardinality(Powers(m)) /\ Digits(n) = 1 + Cardinality(Powers(n))
  BY DEF Digits
<1>2. IsFiniteSet(1..9)
  <2> DEFINE most == 9
  <2>1. most \in Int
    OBVIOUS
  <2>2. IsFiniteSet(1..most)
    <3> HIDE DEF most
    <3> QED BY <2>1, FS_Interval
  <2> QED BY <2>2
<1>3. ASSUME NEW d \in 1..9, 10^d <= m PROVE 10^d <= n
  BY <1>3
<1>4. Powers(m) \subseteq Powers(n) /\ Powers(n) \subseteq 1..9
  BY <1>3
<1>5. IsFiniteSet(Powers(n))
  <2> HIDE DEF Powers
  <2> QED BY <1>2, <1>4, FS_Subset
<1>6. IsFiniteSet(Powers(m)) /\ Cardinality(Powers(m)) <= Cardinality(Powers(n))
  <2> HIDE DEF Powers
  <2> QED BY <1>4, <1>5, FS_Subset
<1>7. Cardinality(Powers(m)) \in Nat /\ Cardinality(Powers(n)) \in Nat
  <2> HIDE DEF Powers
  <2> QED BY <1>5, <1>6, FS_CardinalityType
<1> HIDE DEF Powers
<1> QED
  BY <1>1, <1>6, <1>7

\* The object grows with the number it reports, and shrinks when the flag is set.
LEMMA JsonGrows ==
  ASSUME NEW Kind, NEW Subject, NEW items \in Seq(Row(Kind, Subject)),
         NEW budget \in Nat, NEW m \in Nat, NEW n \in Nat, m <= n, NEW t
  PROVE  /\ JsonBytes(budget, m, t, items) \in Nat
         /\ JsonBytes(budget, n, t, items) \in Nat
         /\ JsonBytes(budget, m, t, items) <= JsonBytes(budget, n, t, items)
         /\ JsonBytes(budget, n, TRUE, items) \in Nat
         /\ JsonBytes(budget, n, TRUE, items) <= JsonBytes(budget, n, t, items)
<1> DEFINE sum == Total([i \in DOMAIN items |-> items[i].bytes + items[i].fields])
           commas == Most(0, Len(items) - 1)
<1>1. sum \in Nat
  <2>1. \A i \in 1..Len(items) : items[i] \in Row(Kind, Subject)
    BY ElementOfSeq
  <2>2. \A i \in 1..Len(items) : items[i].bytes + items[i].fields \in Nat
    BY <2>1 DEF Row
  <2>3. [i \in DOMAIN items |-> items[i].bytes + items[i].fields] \in Seq(Nat)
    BY <2>2, LenProperties
  <2> QED BY <2>3, TotalNat
<1>2. commas \in Nat
  BY LenProperties DEF Most
<1> DEFINE b == Digits(budget)
           dm == Digits(m)
           dn == Digits(n)
           flag == IF t THEN 4 ELSE 5
           x == JsonBytes(budget, m, t, items)
           y == JsonBytes(budget, n, t, items)
           z == JsonBytes(budget, n, TRUE, items)
<1>3. b \in Nat /\ dm \in Nat /\ dn \in Nat /\ dm <= dn
  BY SMTT(40), DigitsGrow
<1>4. /\ x = 71 + b + dm + flag + sum + commas
      /\ y = 71 + b + dn + flag + sum + commas
      /\ z = 71 + b + dn + 4 + sum + commas
  BY DEF JsonBytes
<1>5. flag \in Nat /\ 4 <= flag
  OBVIOUS
<1>6. x \in Nat /\ y \in Nat /\ x <= y /\ z \in Nat /\ z <= y
  <2> HIDE DEF sum, commas, flag, b, dm, dn, x, y, z
  <2> QED BY <1>1, <1>2, <1>3, <1>4, <1>5
<1> QED
  BY <1>6

LEMMA TokensGrow ==
  ASSUME NEW a \in Nat, NEW b \in Nat, a <= b
  PROVE  Tokens(a) \in Nat /\ Tokens(b) \in Nat /\ Tokens(a) <= Tokens(b)
BY DEF Tokens

\* The size of the object with the largest number that could be reported.
LEMMA JsonFull ==
  ASSUME NEW Kind, NEW Subject, NEW items \in Seq(Row(Kind, Subject)), NEW budget \in Nat, NEW t
  PROVE  /\ Tokens(JsonBytes(budget, budget, t, items)) \in Nat
         /\ Tokens(JsonBytes(budget, budget, TRUE, items)) \in Nat
         /\ Tokens(JsonBytes(budget, budget, TRUE, items))
              <= Tokens(JsonBytes(budget, budget, t, items))
<1> DEFINE y == JsonBytes(budget, budget, t, items)
           z == JsonBytes(budget, budget, TRUE, items)
<1>1. budget <= budget
  OBVIOUS
<1>2. y \in Nat /\ z \in Nat /\ z <= y
  BY <1>1, JsonGrows
<1> HIDE DEF y, z
<1>3. Tokens(y) \in Nat /\ Tokens(z) \in Nat /\ Tokens(z) <= Tokens(y)
  BY <1>2, TokensGrow
<1> QED
  BY <1>3 DEF y, z

\* After k items of the result: the ones that were admitted are its first, they
\* keep to the budget with the largest number that could be reported, and if
\* one was not admitted the flag is set.
Admitted(data, result, budget, k, T) ==
  /\ data.items \in Seq(T) /\ data.done \in BOOLEAN /\ data.truncated \in BOOLEAN
  /\ Len(data.items) <= k
  /\ \A i \in 1..Len(data.items) : data.items[i] = result.items[i]
  /\ data.done => data.truncated
  /\ ~data.done => Len(data.items) = k
  /\ data.items # <<>> =>
       Tokens(JsonBytes(budget, budget, data.truncated, data.items)) <= budget

LEMMA AdmitOne ==
  ASSUME NEW Kind, NEW Subject, NEW result, result.items \in Seq(Row(Kind, Subject)),
         NEW budget \in Nat, NEW k \in 0..(Len(result.items) - 1), NEW data,
         data = [items |-> data.items, done |-> data.done, truncated |-> data.truncated],
         Admitted(data, result, budget, k, Row(Kind, Subject))
  PROVE  LET d == Admit(data, result.items[k + 1], budget)
         IN  /\ d = [items |-> d.items, done |-> d.done, truncated |-> d.truncated]
             /\ Admitted(d, result, budget, k + 1, Row(Kind, Subject))
<1> DEFINE T == Row(Kind, Subject)
           item == result.items[k + 1]
           more == Append(data.items, item)
           d == Admit(data, item, budget)
           size == Tokens(JsonBytes(budget, budget, data.truncated, more))
<1>1. k \in Nat /\ k + 1 \in 1..Len(result.items) /\ k + 1 \in Nat
  BY LenProperties
<1>2. item \in T
  BY <1>1, ElementOfSeq
<1>3. data.items \in Seq(T) /\ data.done \in BOOLEAN /\ data.truncated \in BOOLEAN
      /\ Len(data.items) \in Nat
  BY LenProperties DEF Admitted
<1>4. more \in Seq(T) /\ Len(more) = Len(data.items) + 1 /\ more[Len(data.items) + 1] = item
      /\ \A i \in 1..Len(data.items) : more[i] = data.items[i]
  <2> HIDE DEF item, T
  <2> QED BY <1>2, <1>3, AppendProperties
<1>5. budget \in Nat /\ size \in Nat
  <2> HIDE DEF more
  <2> QED BY <1>4, JsonFull
<1>6. CASE data.done
  <2>1. d = data
    BY <1>6 DEF Admit
  <2>2. Admitted(data, result, budget, k + 1, T)
    BY <1>1, <1>3, <1>6 DEF Admitted
  <2> QED BY <2>1, <2>2
<1>7. CASE ~data.done /\ size > budget
  <2>1. d = [data EXCEPT !.done = TRUE, !.truncated = TRUE]
    BY <1>7 DEF Admit, Provisional
  <2>2. d = [items |-> data.items, done |-> TRUE, truncated |-> TRUE]
    <3> HIDE DEF d
    <3> QED BY <2>1
  <2>3. data.items # <<>> => Tokens(JsonBytes(budget, budget, TRUE, data.items)) <= budget
    <3> DEFINE before == Tokens(JsonBytes(budget, budget, data.truncated, data.items))
               after == Tokens(JsonBytes(budget, budget, TRUE, data.items))
    <3>1. before \in Nat /\ after \in Nat /\ after <= before
      BY <1>3, JsonFull
    <3>2. data.items # <<>> => before <= budget
      BY DEF Admitted
    <3> HIDE DEF before, after
    <3>3. data.items # <<>> => after <= budget
      BY <3>1, <3>2
    <3> QED BY <3>3 DEF after
  <2>4. d.items = data.items /\ d.done = TRUE /\ d.truncated = TRUE
    <3> HIDE DEF d
    <3> QED BY <2>2
  <2>5. Len(data.items) <= k + 1
    BY <1>1, <1>3 DEF Admitted
  <2> HIDE DEF d
  <2>6. Admitted(d, result, budget, k + 1, T)
    BY <1>3, <2>3, <2>4, <2>5 DEF Admitted
  <2> QED BY <2>2, <2>4, <2>6 DEF d
<1>8. CASE ~data.done /\ ~(size > budget)
  <2>1. d = [data EXCEPT !.items = more]
    BY <1>8 DEF Admit, Provisional
  <2>2. d = [items |-> more, done |-> FALSE, truncated |-> data.truncated]
    <3> HIDE DEF d, more
    <3> QED BY <1>3, <1>8, <2>1, Zenon
  <2>3. d.items = more /\ d.done = FALSE /\ d.truncated = data.truncated
    <3> HIDE DEF d, more
    <3> QED BY <2>2
  <2>4. Len(data.items) = k /\ Len(more) = k + 1
    BY <1>4, <1>8 DEF Admitted
  <2>5. \A i \in 1..Len(more) : more[i] = result.items[i]
    <3>1. \A i \in 1..(k + 1) : i \in 1..k \/ i = k + 1
      BY <1>1
    <3> HIDE DEF more
    <3> QED BY <1>4, <2>4, <3>1 DEF Admitted
  <2>6. size <= budget
    <3> HIDE DEF size
    <3> QED BY <1>5, <1>8
  <2> HIDE DEF d, more
  <2>7. Admitted(d, result, budget, k + 1, T)
    <3>1. /\ d.items \in Seq(T) /\ d.done \in BOOLEAN /\ d.truncated \in BOOLEAN
          /\ (d.done => d.truncated)
      BY <1>3, <1>4, <2>3
    <3>2. Len(d.items) = k + 1 /\ Len(d.items) <= k + 1
      BY <1>1, <2>3, <2>4
    <3>3. \A i \in 1..Len(d.items) : d.items[i] = result.items[i]
      BY <2>3, <2>5
    <3>4. Tokens(JsonBytes(budget, budget, d.truncated, d.items)) <= budget
      BY <2>3, <2>6
    <3> QED BY <3>1, <3>2, <3>3, <3>4 DEF Admitted
  <2> QED BY <2>2, <2>3, <2>7 DEF d
<1> QED
  BY <1>6, <1>7, <1>8

LEMMA AdmitAllOf ==
  ASSUME NEW Kind, NEW Subject, NEW result, result.items \in Seq(Row(Kind, Subject)),
         result.truncated \in BOOLEAN, NEW budget \in Nat
  PROVE  Admitted(AdmitAll(result, budget), result, budget, Len(result.items),
                  Row(Kind, Subject))
<1> DEFINE n == Len(result.items)
           T == Row(Kind, Subject)
           Good(d, k) == /\ d = [items |-> d.items, done |-> d.done, truncated |-> d.truncated]
                         /\ Admitted(d, result, budget, k, T)
<1>1. n \in Nat
  BY LenProperties
<1>2. PICK f : AdmitAllTurns(f, result, budget) /\ AdmitAll(result, budget) = f[n]
  BY <1>1, AdmitAllIs
<1> DEFINE S == {k \in Nat : Good(f[k], k)}
<1>3. 0 \in S
  <2>1. f[0] = [items |-> <<>>, done |-> FALSE, truncated |-> result.truncated]
    BY <1>2 DEF AdmitAllTurns
  <2>2. f[0].items = <<>> /\ f[0].done = FALSE /\ f[0].truncated = result.truncated
    BY <2>1
  <2>3. <<>> \in Seq(T) /\ Len(<<>>) = 0
    BY EmptySeq
  <2>4. Admitted(f[0], result, budget, 0, T)
    <3>1. Len(f[0].items) = 0 /\ Len(f[0].items) <= 0 /\ f[0].items \in Seq(T)
      BY <2>2, <2>3
    <3>2. \A i \in 1..Len(f[0].items) : f[0].items[i] = result.items[i]
      BY <3>1
    <3> HIDE DEF T
    <3> QED BY <2>2, <3>1, <3>2 DEF Admitted
  <2> QED BY <2>1, <2>2, <2>4
<1>4. ASSUME NEW k \in 0..(n - 1), k \in S PROVE k + 1 \in S
  <2>1. k + 1 \in 1..n /\ (k + 1) - 1 = k /\ k + 1 \in Nat
    BY <1>1
  <2>2. f[k + 1] = Admit(f[k], result.items[k + 1], budget)
    BY <1>2, <2>1 DEF AdmitAllTurns
  <2>3. Good(f[k], k)
    BY <1>4
  <2>4. Good(f[k + 1], k + 1)
    <3> DEFINE c == f[k]
               d == Admit(c, result.items[k + 1], budget)
    <3>1. /\ c = [items |-> c.items, done |-> c.done, truncated |-> c.truncated]
          /\ Admitted(c, result, budget, k, Row(Kind, Subject))
      BY <2>3
    <3> HIDE DEF c
    <3>2. /\ d = [items |-> d.items, done |-> d.done, truncated |-> d.truncated]
          /\ Admitted(d, result, budget, k + 1, Row(Kind, Subject))
      BY <3>1, AdmitOne
    <3> HIDE DEF d
    <3>3. f[k + 1] = d
      BY <2>2 DEF c, d
    <3> QED BY <3>2, <3>3
  <2> HIDE DEF Good
  <2> QED BY <2>1, <2>4
<1>5. n \in S
  <2> HIDE DEF S, n
  <2> QED BY <1>1, <1>3, <1>4, UpTo
<1> QED
  BY <1>2, <1>5

\* What the service adds to a prompt is no larger than it says and than it may
\* be.  The number of tokens is part of what is counted: a first count with the
\* largest number, a second with the first, which can only be smaller.
LEMMA PromptMemoryFits ==
  ASSUME NEW Kind, NEW Subject, NEW result, result.items \in Seq(Row(Kind, Subject)),
         result.truncated \in BOOLEAN, NEW budget \in Nat
  PROVE  LET memory == PromptMemory(result, budget)
         IN  /\ memory.used \in Nat /\ memory.taken \in Nat
             /\ memory.taken <= memory.used /\ memory.used <= budget
             /\ IsPrefix(memory.items, result.items)
             /\ memory.items # result.items => memory.truncated
<1> DEFINE T == Row(Kind, Subject)
           data == AdmitAll(result, budget)
           items == data.items
           links == Total([i \in DOMAIN items |-> items[i].expand])
           expansion == IF links = 0 THEN 0 ELSE 25 + links
           fits == Tokens(JsonBytes(budget, budget, data.truncated, items) + expansion) <= budget
           truncated == data.truncated \/ ~fits
           extra == IF fits THEN expansion ELSE 0
           Size(n) == Tokens(JsonBytes(budget, n, truncated, items) + extra)
           used == Size(Size(budget))
           memory == PromptMemory(result, budget)
<1>1. Admitted(data, result, budget, Len(result.items), T)
  BY AdmitAllOf
<1>2. memory = [items |-> items, truncated |-> truncated,
                used |-> IF items = <<>> THEN 0 ELSE used,
                taken |-> IF items = <<>> THEN 0 ELSE Size(used)]
  BY DEF PromptMemory, Provisional
<1> HIDE DEF data, memory
<1>3. items \in Seq(T) /\ Len(items) \in Nat /\ Len(result.items) \in Nat
      /\ \A i \in 1..Len(items) : items[i] \in T
  BY <1>1, LenProperties, ElementOfSeq DEF Admitted
<1>4. links \in Nat /\ expansion \in Nat /\ extra \in Nat
  <2>1. [i \in DOMAIN items |-> items[i].expand] \in Seq(Nat)
    <3>1. \A i \in 1..Len(items) : items[i].expand \in Nat
      BY <1>3 DEF Row
    <3> HIDE DEF items
    <3> QED BY <1>3, <3>1
  <2>2. links \in Nat
    BY <2>1, TotalNat
  <2> HIDE DEF links, fits
  <2> QED BY <2>2
<1>5. ASSUME NEW m \in Nat, NEW n \in Nat, m <= n
      PROVE  Size(m) \in Nat /\ Size(n) \in Nat /\ Size(m) <= Size(n)
  <2> DEFINE x == JsonBytes(budget, m, truncated, items)
             y == JsonBytes(budget, n, truncated, items)
  <2>1. x \in Nat /\ y \in Nat /\ x <= y
    <3> HIDE DEF truncated, items
    <3> QED BY <1>3, <1>5, JsonGrows
  <2>2. Size(m) = Tokens(x + extra) /\ Size(n) = Tokens(y + extra)
    OBVIOUS
  <2> HIDE DEF x, y, extra, Size
  <2>3. x + extra \in Nat /\ y + extra \in Nat /\ x + extra <= y + extra
    BY <1>4, <2>1
  <2> QED BY <2>2, <2>3, TokensGrow
<1>6. ASSUME items # <<>> PROVE Size(budget) <= budget
  <2> DEFINE x == JsonBytes(budget, budget, data.truncated, items)
             y == JsonBytes(budget, budget, TRUE, items)
  <2>0. budget <= budget
    OBVIOUS
  <2>1. x \in Nat /\ y \in Nat /\ y <= x
    <3> HIDE DEF items
    <3> QED BY <1>3, <2>0, JsonGrows
  <2>2. CASE fits
    <3>1. Size(budget) = Tokens(JsonBytes(budget, budget, data.truncated \/ FALSE, items) + expansion)
      BY <2>2
    <3>2. (data.truncated \/ FALSE) = data.truncated
      BY <1>1 DEF Admitted
    <3>3. Size(budget) = Tokens(x + expansion)
      <4> HIDE DEF items, expansion, Size
      <4> QED BY <3>1, <3>2
    <3> QED BY <2>2, <3>3
  <2>3. CASE ~fits
    <3>1. truncated = TRUE /\ extra = 0
      BY <2>3
    <3>2. Size(budget) = Tokens(JsonBytes(budget, budget, truncated, items) + extra)
      OBVIOUS
    <3>3. Size(budget) = Tokens(y + 0)
      <4> HIDE DEF items, truncated, extra, Size
      <4> QED BY <3>1, <3>2
    <3>4. Tokens(x) <= budget
      BY <1>1, <1>6 DEF Admitted
    <3> HIDE DEF x, y, Size
    <3>5. Tokens(y) \in Nat /\ Tokens(x) \in Nat /\ Tokens(y) <= Tokens(x) /\ y + 0 = y
      BY <2>1, TokensGrow
    <3> QED BY <3>3, <3>4, <3>5
  <2> QED BY <2>2, <2>3
<1>7. ASSUME items # <<>>
      PROVE  /\ used \in Nat /\ Size(used) \in Nat
             /\ Size(used) <= used /\ used <= budget
  <2> DEFINE first == Size(budget)
  <2>1. first \in Nat /\ first <= budget
    <3>1. budget <= budget
      OBVIOUS
    <3> HIDE DEF items, Size
    <3> QED BY <1>5, <1>6, <1>7, <3>1
  <2>2. used = Size(first)
    OBVIOUS
  <2> HIDE DEF Size, items, first, used
  <2>3. used \in Nat /\ used <= Size(budget)
    BY <1>5, <2>1, <2>2
  <2>4. used <= first
    BY <2>3 DEF first
  <2>5. Size(used) \in Nat /\ Size(used) <= Size(first)
    BY <1>5, <2>1, <2>3, <2>4
  <2> QED BY <2>1, <2>2, <2>3, <2>4, <2>5
<1>8. IsPrefix(items, result.items)
  <2>1. Len(items) <= Len(result.items)
        /\ \A i \in 1..Len(items) : items[i] = result.items[i]
    BY <1>1 DEF Admitted
  <2>2. SubSeq(items, 1, Len(items)) = SubSeq(result.items, 1, Len(items))
    <3> HIDE DEF items
    <3> QED BY <1>3, <2>1
  <2> QED BY <2>1, <2>2 DEF IsPrefix
<1>9. items # result.items => data.truncated
  <2>1. CASE ~data.done
    <3>1. Len(items) = Len(result.items) /\ \A i \in 1..Len(items) : items[i] = result.items[i]
      BY <1>1, <2>1 DEF Admitted
    <3>2. items = result.items
      <4> HIDE DEF items, T
      <4> QED BY SMTT(40), <1>3, <3>1, SeqEqual
    <3> QED BY <3>2
  <2> QED BY <1>1, <2>1 DEF Admitted
<1> HIDE DEF items, used, Size, truncated
<1>10. /\ memory.items = items /\ memory.truncated = truncated
       /\ memory.used = (IF items = <<>> THEN 0 ELSE used)
       /\ memory.taken = (IF items = <<>> THEN 0 ELSE Size(used))
  BY <1>2
<1>11. /\ memory.used \in Nat /\ memory.taken \in Nat
       /\ memory.taken <= memory.used /\ memory.used <= budget
  BY <1>7, <1>10
<1>12. items # result.items => truncated
  BY <1>9 DEF truncated
<1>13. IsPrefix(memory.items, result.items) /\ (memory.items # result.items => memory.truncated)
  BY <1>8, <1>10, <1>12
<1> QED
  BY <1>11, <1>13 DEF memory

\* Whatever a search finds, of any sizes, and whatever the settings and the
\* context window are: the prompt keeps to its budget and to the window
\* (planner.py, token_budget.py and _retrieve_prompt_memory in service.py).
THEOREM MemoryFits ==
  ASSUME NEW Kind, NEW Subject, NEW rows \in Seq(Row(Kind, Subject)),
         NEW awareness \in Seq(Text), NEW profile \in Nat, NEW maximum \in Int,
         NEW conversation \in Int, NEW fixed \in Int
  PROVE  Fits(rows, awareness, profile, maximum, conversation, fixed)
<1> DEFINE budget == MemoryBudget(profile, maximum, conversation, fixed)
           result == Search(rows, awareness, budget, 10)
           memory == PromptMemory(result, budget)
<1>1. budget \in Nat
  BY DEF MemoryBudget, Most, Least
<1>2. budget >= 32 /\ maximum > 0 => conversation + fixed + budget <= maximum
  BY DEF MemoryBudget, Most, Least
<1> HIDE DEF budget
<1>3. /\ result.items \in Seq(Row(Kind, Subject)) /\ result.used \in 0..(budget + 1)
      /\ result.truncated \in BOOLEAN
  BY <1>1, SearchBounds
<1> HIDE DEF result
<1>4. /\ memory.used \in Nat /\ memory.taken \in Nat
      /\ memory.taken <= memory.used /\ memory.used <= budget
      /\ IsPrefix(memory.items, result.items)
      /\ memory.items # result.items => memory.truncated
  BY <1>1, <1>3, PromptMemoryFits
<1> HIDE DEF memory
<1>5. budget >= 32 /\ maximum > 0 => conversation + fixed + memory.used <= maximum
  BY <1>1, <1>2, <1>4
<1>6. result.used <= budget + 1
  BY <1>1, <1>3
<1>7. budget >= 32 =>
        /\ result.used <= budget + 1
        /\ memory.taken <= memory.used
        /\ memory.used <= budget
        /\ maximum > 0 => conversation + fixed + memory.used <= maximum
        /\ IsPrefix(memory.items, result.items)
        /\ memory.items # result.items => memory.truncated
  BY <1>4, <1>5, <1>6
<1> QED
  BY <1>7 DEF Fits, budget, result, memory

\* Whatever HAL has in its memory when it prepares a prompt, the inputs of the
\* run memory_life among it.
THEOREM PromptsFit == Spec => []PromptFits
<1>1. AllFit
  <2>1. Rows \subseteq Row({"fact", "episode"}, {1})
    BY DEF Rows, Row
  <2>2. Ranked \subseteq Seq(Row({"fact", "episode"}, {1}))
    <3> DEFINE T == Row({"fact", "episode"}, {1})
    <3>1. ASSUME NEW n \in 1..2 PROVE [1..n -> Rows] \subseteq Seq(T)
      BY <2>1
    <3>2. ASSUME NEW r \in Rows PROVE [i \in 1..4 |-> r] \in Seq(T)
      BY <2>1
    <3> DEFINE Short == {[1..n -> Rows] : n \in 1..2}
               Long == {[i \in 1..4 |-> r] : r \in Rows}
    <3>3. UNION Short \subseteq Seq(T)
      <4> HIDE DEF T
      <4> QED BY <3>1
    <3>4. Long \subseteq Seq(T)
      <4> HIDE DEF T
      <4> QED BY <3>2
    <3>5. Ranked = (UNION Short) \cup Long
      BY DEF Ranked
    <3>6. Ranked \subseteq Seq(T)
      <4> HIDE DEF T, Short, Long
      <4> QED BY <3>3, <3>4, <3>5
    <3> QED BY <3>6
  <2>3. Awareness \subseteq Seq(Text)
    BY DEF Awareness, Text
  <2>4. \A window \in Windows : window[1] \in Int /\ window[2] \in Int /\ window[3] \in Int
    BY DEF Windows
  <2>5. \A profile \in {95, 99, 100, 105, 130, 700} : profile \in Nat
    OBVIOUS
  <2> QED BY <2>2, <2>3, <2>4, <2>5, MemoryFits DEF AllFit
<1>2. PromptFits
  BY <1>1 DEF PromptFits
<1> QED
  BY <1>2, PTL
=============================================================================

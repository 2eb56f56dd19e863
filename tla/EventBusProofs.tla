--------------------------- MODULE EventBusProofs ---------------------------
(***************************************************************************)
(* Proofs about EventBus: type correctness, that a bus its service closed  *)
(* has counted every observation once and accounted for every drop         *)
(* (CountsExact), and that the exact events that have to be logged are     *)
(* (ExactLogged).                                                          *)
(*                                                                         *)
(* An observation moves through three stages, each with a thread of its    *)
(* own.  The invariant follows it: what was accepted of a key is stored,   *)
(* queued, in the hands of the telemetry thread, or pending in the one     *)
(* live run of that key; what close() has passed is empty and stays so.    *)
(***************************************************************************)
EXTENDS EventBus, SequenceTheorems, FiniteSetTheorems, TLAPS

Elements(s) == {s[i] : i \in DOMAIN s}

-----------------------------------------------------------------------------
(***************************************************************************)
(* The invariant.                                                          *)
(***************************************************************************)

PublisherType ==
  [pc : {"idle", "done"}, of : {NoItem}]
    \cup [pc : {"put"}, of : {"observation"} \X Key]
    \cup [pc : {"waiting"}, of : {"control"} \X Control]

WorkerType ==
  [pc : {"idle", "flushing", "ended", "dead"}, key : Key \cup {"none"}]
    \cup [pc : {"holding", "evicting"}, key : Key]

WriterType ==
  [pc : {"idle", "ended"}, of : {NoItem}] \cup [pc : {"writing"}, of : Exact]

PublisherTyped ==
  /\ publisher \in PublisherType
  /\ seen \in Seq(High) /\ Len(seen) <= FingerprintCapacity
  /\ accepted \in [Key -> Nat]
  /\ published \in 0..MaxPublish /\ dropped \in Nat /\ drops \in Nat /\ drops <= dropped
  /\ dropped + (IF publisher.pc = "put" THEN 1 ELSE 0) <= published

QueueTyped ==
  /\ telemetry \in Seq(Key) /\ Len(telemetry) <= TelemetryCapacity
  /\ worker \in WorkerType
  /\ unfinished = Len(telemetry)
                  + (IF worker.pc \in {"holding", "evicting"} THEN 1 ELSE 0)

RunsTyped ==
  /\ open \in Seq(Run) /\ Len(open) <= MaxOpenRuns
  /\ worker.pc = "evicting" => Len(open) < MaxOpenRuns
  /\ run \in [Run -> [key : Key, pending : Nat]]
  /\ flushing \in [Flusher -> [todo : Seq(Run), committed : BOOLEAN]]
  /\ Len(flushing["caller"].todo) <= MaxOpenRuns
  /\ \A p \in Flusher : flushing[p].committed => flushing[p].todo # <<>>
  /\ worker.pc \in {"idle", "holding", "ended", "dead"} => flushing["telemetry"].todo = <<>>
  /\ caller.pc # "flushing" => flushing["caller"].todo = <<>>
  /\ stored \in [Key -> Nat]

WriterTyped ==
  /\ writeQueue \in Seq(Exact) /\ Len(writeQueue) <= ExactReserve
  /\ writer \in WriterType
  /\ log \subseteq Exact /\ errors \subseteq Exact

CallerTyped ==
  /\ caller \in [op : {"none", "flush", "close"},
                 pc : {"idle", "join", "joined", "flushing", "summary", "awaiting",
                       "drain", "drained", "closed", "raised"}]
  /\ stop \in [bus : BOOLEAN, writer : BOOLEAN]
  /\ flushes \in 0..MaxFlushes /\ failures \in 0..MaxFailures

Typed == PublisherTyped /\ QueueTyped /\ RunsTyped /\ WriterTyped /\ CallerTyped

\* How far close() has come, and what it has stopped.
Closing ==
  /\ caller.op = "none" <=> caller.pc = "idle"
  /\ caller.op = "flush" => flushes > 0
  /\ caller.op = "close" => publisher.pc = "done"
  /\ caller.pc \in {"joined", "drained", "closed"} => caller.op = "close"
  /\ stop.bus => caller.op = "close" /\ caller.pc # "join"
  /\ stop.writer => caller.op = "close" /\ caller.pc \in {"drained", "closed", "raised"}
  /\ worker.pc = "ended" => stop.bus /\ telemetry = <<>>
  /\ worker.pc = "dead" => failures > 0
  /\ caller.op = "close" /\ caller.pc \notin {"join", "joined", "raised"} =>
       worker.pc \in {"ended", "dead"}
  /\ writer.pc = "ended" => stop.writer /\ writeQueue = <<>>
  /\ caller.pc = "closed" => writer.pc = "ended"

\* Exact events with the writer, and those of whose fate something is known.
Held == Elements(writeQueue) \cup ({writer.of} \ {NoItem})
Known == log \cup errors \cup Held

\* A publisher that waits does so for an event it submitted; without failures the first
\* occurrence of every error that was published, or is remembered, was submitted.
Submitted ==
  /\ failures = 0 => errors = {}
  /\ publisher.pc = "waiting" => publisher.of \in Known
  /\ failures = 0 =>
       \A k \in High :
         \/ accepted[k] > 0
         \/ publisher.of = <<"observation", k>>
         \/ k \in Elements(seen)
         => <<"high", k>> \in Known

\* Nothing failed and nobody called flush().
Clean == failures = 0 /\ flushes = 0

Summaries(S) == {e \in S : e[1] = "summary"}

\* The drops, before close() summarises them, and after.
Gap ==
  LET summary == IF dropped = 0 THEN {} ELSE {<<"summary", dropped>>}
  IN  Clean =>
        /\ caller.pc \in {"idle", "join", "joined", "flushing", "summary"} =>
             drops = dropped /\ Summaries(log \cup Held) = {}
        /\ caller.pc \in {"awaiting", "drain", "drained", "closed"} =>
             Summaries(log \cup Held) = summary
        /\ caller.pc \in {"drain", "drained", "closed"} => Summaries(Held) = {}

\* The runs that still matter, and what a run has pending that is not stored.
Live == Elements(open) \cup Elements(flushing["telemetry"].todo)
          \cup Elements(flushing["caller"].todo)

Committed(r) ==
  \E p \in Flusher : flushing[p].committed /\ Head(flushing[p].todo) = r

Due(r) == IF Committed(r) THEN 0 ELSE run[r].pending

Count(s, k) == Cardinality({i \in DOMAIN s : s[i] = k})

InHand(k) == IF worker.pc \in {"holding", "evicting"} /\ worker.key = k THEN 1 ELSE 0

Arrived(k) == stored[k] + Count(telemetry, k) + InHand(k)

OneRunPerKey == \A r, q \in Live : run[r].key = run[q].key => r = q

Accounted ==
  \A k \in Key :
    /\ \A r \in Live : run[r].key = k => accepted[k] = Arrived(k) + Due(r)
    /\ (\A r \in Live : run[r].key # k) => accepted[k] = Arrived(k)

Runs ==
  /\ worker.pc = "evicting" => ~HasOpenRun(worker.key)
  /\ Clean =>
       /\ OneRunPerKey /\ Accounted
       /\ worker.pc = "flushing" => Elements(flushing["telemetry"].todo) \subseteq Elements(open)
       /\ caller.pc = "flushing" =>
            /\ Elements(flushing["caller"].todo) \subseteq Elements(open)
            /\ \A r \in Elements(open) :
                 r \in Elements(flushing["caller"].todo) \/ run[r].pending = 0
       /\ caller.pc \in {"summary", "awaiting", "drain", "drained", "closed"} => open = <<>>

Inv == Typed /\ Closing /\ Submitted /\ Gap /\ Runs

-----------------------------------------------------------------------------
(***************************************************************************)
(* Queues: what they hold and how often.                                   *)
(***************************************************************************)

LEMMA ElementsOf ==
  ASSUME NEW S, NEW s \in Seq(S)
  PROVE  /\ Elements(s) \subseteq S /\ DOMAIN s = 1..Len(s) /\ Len(s) \in Nat
         /\ Elements(<<>>) = {} /\ (Elements(s) = {} => s = <<>>)
         /\ \A e : Contains(s, e) <=> e \in Elements(s)
<1>1. DOMAIN s = 1..Len(s) /\ Len(s) \in Nat /\ (Len(s) = 0 => s = <<>>)
  BY LenProperties, EmptySeq
<1>2. Elements(s) = {} => s = <<>>
  <2>1. SUFFICES ASSUME s # <<>> PROVE s[1] \in Elements(s)
    OBVIOUS
  <2>2. Len(s) # 0
    BY <1>1, <2>1
  <2>3. 1 \in DOMAIN s
    BY <1>1, <2>2
  <2> QED BY <2>3 DEF Elements
<1>3. Elements(s) \subseteq S /\ Elements(<<>>) = {}
  BY <1>1, ElementOfSeq DEF Elements
<1> QED BY <1>1, <1>2, <1>3 DEF Contains, Elements

LEMMA AppendOf ==
  ASSUME NEW S, NEW s \in Seq(S), NEW x \in S
  PROVE  /\ Append(s, x) \in Seq(S) /\ Len(Append(s, x)) = Len(s) + 1 /\ Len(s) \in Nat
         /\ Append(s, x) # <<>>
         /\ Elements(Append(s, x)) = Elements(s) \cup {x}
<1>1. /\ Len(s) \in Nat /\ DOMAIN s = 1..Len(s) /\ DOMAIN Append(s, x) = 1..(Len(s) + 1)
      /\ \A i \in 1..Len(s) : Append(s, x)[i] = s[i]
      /\ Append(s, x)[Len(s) + 1] = x
      /\ Append(s, x) \in Seq(S) /\ Len(Append(s, x)) = Len(s) + 1
  BY AppendProperties, LenProperties
<1>2. Elements(Append(s, x)) = Elements(s) \cup {x}
  BY <1>1 DEF Elements
<1>3. Append(s, x) # <<>>
  BY <1>1, EmptySeq
<1> QED BY <1>1, <1>2, <1>3

LEMMA SingleOf ==
  ASSUME NEW S, NEW x \in S
  PROVE  <<x>> \in Seq(S) /\ <<x>> # <<>> /\ Elements(<<x>>) = {x}
<1>1. <<x>> \in Seq(S) /\ Len(<<x>>) = 1 /\ <<x>>[1] = x
  OBVIOUS
<1>2. DOMAIN <<x>> = 1..1
  BY <1>1, LenProperties
<1>3. <<x>> # <<>>
  BY <1>1, EmptySeq
<1> QED BY <1>1, <1>2, <1>3 DEF Elements

LEMMA TailOf ==
  ASSUME NEW S, NEW s \in Seq(S), s # <<>>
  PROVE  /\ Head(s) \in S /\ Tail(s) \in Seq(S)
         /\ Len(s) \in Nat \ {0} /\ Len(Tail(s)) = Len(s) - 1
         /\ Elements(s) = {Head(s)} \cup Elements(Tail(s))
<1>1. /\ Len(s) \in Nat /\ Len(s) > 0 /\ DOMAIN s = 1..Len(s)
      /\ Tail(s) \in Seq(S) /\ DOMAIN Tail(s) = 1..(Len(s) - 1)
      /\ Len(Tail(s)) = Len(s) - 1
      /\ \A i \in 1..(Len(s) - 1) : Tail(s)[i] = s[i + 1]
      /\ Head(s) = s[1] /\ Head(s) \in S
  BY HeadTailProperties, LenProperties, EmptySeq
<1>2. Elements(s) \subseteq {Head(s)} \cup Elements(Tail(s))
  <2> SUFFICES ASSUME NEW i \in 1..Len(s) PROVE s[i] \in {Head(s)} \cup Elements(Tail(s))
    BY <1>1 DEF Elements
  <2>1. CASE i = 1
    BY <1>1, <2>1
  <2>2. CASE i # 1
    <3>1. i - 1 \in 1..(Len(s) - 1) /\ Tail(s)[i - 1] = s[i]
      BY <1>1, <2>2
    <3> QED BY <1>1, <3>1 DEF Elements
  <2> QED BY <2>1, <2>2
<1>3. {Head(s)} \cup Elements(Tail(s)) \subseteq Elements(s)
  BY <1>1 DEF Elements
<1> QED BY <1>1, <1>2, <1>3

\* Moving an entry to the end changes neither the length nor the contents.
LEMMA MovedOf ==
  ASSUME NEW S, NEW s \in Seq(S), NEW i \in 1..Len(s)
  PROVE  /\ MovedToEnd(s, i) \in Seq(S) /\ Len(MovedToEnd(s, i)) = Len(s)
         /\ Elements(MovedToEnd(s, i)) = Elements(s)
<1> DEFINE a == SubSeq(s, 1, i - 1)
           b == SubSeq(s, i + 1, Len(s))
           c == a \o b
<1>0. Len(s) \in Nat /\ DOMAIN s = 1..Len(s) /\ i \in 1..Len(s) /\ i \in Nat
      /\ \A j \in 1..Len(s) : s[j] \in S
  BY LenProperties, ElementOfSeq
<1>1. /\ a \in Seq(S) /\ Len(a) = i - 1
      /\ \A j \in 1..(i - 1) : a[j] = s[j]
  <2>1. \A j \in 1..(i - 1) : s[j] \in S
    BY <1>0
  <2>2. /\ a \in Seq(S)
        /\ Len(a) = IF 1 <= i - 1 THEN i - 1 - 1 + 1 ELSE 0
        /\ \A j \in 1..(i - 1 - 1 + 1) : a[j] = s[1 + j - 1]
    BY <1>0, <2>1, SubSeqProperties
  <2> QED BY <1>0, <2>2
<1>2. /\ b \in Seq(S) /\ Len(b) = Len(s) - i
      /\ \A j \in 1..(Len(s) - i) : b[j] = s[i + j]
  <2>1. \A j \in (i + 1)..Len(s) : s[j] \in S
    BY <1>0
  <2>2. /\ b \in Seq(S)
        /\ Len(b) = IF i + 1 <= Len(s) THEN Len(s) - (i + 1) + 1 ELSE 0
        /\ \A j \in 1..(Len(s) - (i + 1) + 1) : b[j] = s[i + 1 + j - 1]
    BY <1>0, <2>1, SubSeqProperties
  <2>3. Len(b) = Len(s) - i
    <3>1. Len(b) = IF i + 1 <= Len(s) THEN Len(s) - (i + 1) + 1 ELSE 0
      BY <2>2
    <3>2. Len(s) \in Nat /\ i \in Nat /\ i <= Len(s)
      BY <1>0
    <3> HIDE DEF b
    <3> QED BY <3>1, <3>2
  <2>4. ASSUME NEW j \in 1..(Len(s) - i) PROVE b[j] = s[i + j]
    <3>1. j \in 1..(Len(s) - (i + 1) + 1) /\ i + 1 + j - 1 = i + j
      BY <1>0
    <3> QED BY <2>2, <3>1
  <2> QED BY <2>2, <2>3, <2>4
<1> HIDE DEF a, b
<1>3. /\ c \in Seq(S) /\ Len(c) = Len(s) - 1
      /\ \A j \in 1..(Len(s) - 1) : c[j] = IF j < i THEN s[j] ELSE s[j + 1]
  <2>1. /\ c \in Seq(S) /\ Len(c) = Len(a) + Len(b)
        /\ \A j \in 1..(Len(a) + Len(b)) : c[j] = IF j <= Len(a) THEN a[j] ELSE b[j - Len(a)]
    BY <1>1, <1>2, ConcatProperties
  <2>2. Len(c) = Len(s) - 1
    BY <1>0, <1>1, <1>2, <2>1
  <2>3. ASSUME NEW j \in 1..(Len(s) - 1) PROVE c[j] = IF j < i THEN s[j] ELSE s[j + 1]
    <3>1. CASE j < i
      BY <1>0, <1>1, <1>2, <2>1, <3>1
    <3>2. CASE ~(j < i)
      <4>1. j - (i - 1) \in 1..(Len(s) - i) /\ i + (j - (i - 1)) = j + 1
        BY <1>0, <3>2
      <4>2. b[j - (i - 1)] = s[j + 1]
        BY <1>2, <4>1
      <4> QED BY SMTT(30), <1>0, <1>1, <1>2, <2>1, <3>2, <4>2
    <3> QED BY <3>1, <3>2
  <2> QED BY <2>1, <2>2, <2>3
<1>4. MovedToEnd(s, i) = Append(c, s[i])
  BY DEF MovedToEnd, RemoveAt, a, b
<1> HIDE DEF c
<1>5. /\ MovedToEnd(s, i) \in Seq(S)
      /\ Len(MovedToEnd(s, i)) = Len(c) + 1
      /\ Elements(MovedToEnd(s, i)) = Elements(c) \cup {s[i]}
  <2>1. s[i] \in S /\ c \in Seq(S)
    BY <1>0, <1>3
  <2>2. /\ Append(c, s[i]) \in Seq(S) /\ Len(Append(c, s[i])) = Len(c) + 1
        /\ Elements(Append(c, s[i])) = Elements(c) \cup {s[i]}
    BY <2>1, AppendOf
  <2> QED BY <1>4, <2>2
<1>6. Elements(c) \cup {s[i]} = Elements(s)
  <2>1. DOMAIN c = 1..(Len(s) - 1)
    BY <1>3, LenProperties
  <2>2. Elements(c) \subseteq Elements(s)
    BY <1>0, <1>3, <2>1 DEF Elements
  <2>3. ASSUME NEW j \in 1..Len(s), j # i PROVE s[j] \in Elements(c)
    <3>1. CASE j < i
      BY <1>0, <1>3, <2>1, <3>1 DEF Elements
    <3>2. CASE ~(j < i)
      <4>1. j - 1 \in 1..(Len(s) - 1) /\ ~(j - 1 < i) /\ (j - 1) + 1 = j
        BY <1>0, <2>3, <3>2
      <4>2. c[j - 1] = s[j]
        BY <1>3, <4>1
      <4> QED BY <2>1, <4>1, <4>2 DEF Elements
    <3> QED BY <3>1, <3>2
  <2> QED BY <1>0, <2>2, <2>3 DEF Elements
<1> QED BY <1>0, <1>3, <1>5, <1>6

LEMMA CountOf ==
  ASSUME NEW S, NEW s \in Seq(S), NEW k
  PROVE  IsFiniteSet({i \in DOMAIN s : s[i] = k}) /\ Count(s, k) \in Nat
<1>1. Len(s) \in Nat /\ DOMAIN s = 1..Len(s)
  BY LenProperties
<1>2. IsFiniteSet(1..Len(s))
  BY <1>1, FS_Interval
<1>3. IsFiniteSet({i \in DOMAIN s : s[i] = k})
  BY <1>1, <1>2, FS_Subset
<1> QED BY <1>3, FS_CardinalityType DEF Count

LEMMA CountEmpty == \A k : Count(<<>>, k) = 0
BY FS_EmptySet DEF Count

LEMMA CountAppend ==
  ASSUME NEW S, NEW s \in Seq(S), NEW x \in S, NEW k
  PROVE  Count(Append(s, x), k) = Count(s, k) + (IF x = k THEN 1 ELSE 0)
<1> DEFINE A == {i \in DOMAIN s : s[i] = k}
           B == {i \in DOMAIN Append(s, x) : Append(s, x)[i] = k}
<1>1. /\ Len(s) \in Nat /\ DOMAIN s = 1..Len(s)
      /\ DOMAIN Append(s, x) = 1..(Len(s) + 1)
      /\ \A i \in 1..Len(s) : Append(s, x)[i] = s[i]
      /\ Append(s, x)[Len(s) + 1] = x
  BY AppendProperties, LenProperties
<1>2. B = IF x = k THEN A \cup {Len(s) + 1} ELSE A
  BY <1>1
<1>3. Len(s) + 1 \notin A
  BY <1>1
<1>4. Cardinality(A \cup {Len(s) + 1}) = Cardinality(A) + 1 /\ Cardinality(A) \in Nat
  <2>1. IsFiniteSet(A)
    BY CountOf
  <2> HIDE DEF A
  <2> QED BY <1>3, <2>1, FS_AddElement, FS_CardinalityType
<1> HIDE DEF A, B
<1>5. Cardinality(B) = Cardinality(A) + (IF x = k THEN 1 ELSE 0)
  BY <1>2, <1>4
<1> QED BY <1>5 DEF Count, A, B

LEMMA CountTail ==
  ASSUME NEW S, NEW s \in Seq(S), s # <<>>, NEW k
  PROVE  Count(s, k) = Count(Tail(s), k) + (IF Head(s) = k THEN 1 ELSE 0)
<1>1. /\ Len(s) \in Nat /\ Len(s) > 0 /\ DOMAIN s = 1..Len(s)
      /\ Tail(s) \in Seq(S) /\ DOMAIN Tail(s) = 1..(Len(s) - 1)
      /\ \A i \in 1..(Len(s) - 1) : Tail(s)[i] = s[i + 1]
      /\ Head(s) = s[1]
  BY HeadTailProperties, LenProperties, EmptySeq
<1> DEFINE A == {i \in DOMAIN Tail(s) : Tail(s)[i] = k}
           C == {i \in DOMAIN s : s[i] = k}
           B == C \ {1}
           f == [i \in A |-> i + 1]
<1>2. f \in Bijection(A, B)
  <2>1. \A i \in A : i \in Nat /\ i + 1 \in B
    BY <1>1
  <2>2. \A j \in B : j - 1 \in A /\ j \in Nat
    BY <1>1
  <2>3. f \in Injection(A, B)
    BY <2>1 DEF Injection, IsInjective
  <2>4. ASSUME NEW j \in B PROVE \E i \in A : f[i] = j
    <3>1. j - 1 \in A /\ (j - 1) + 1 = j
      BY <2>2
    <3>2. f[j - 1] = j
      BY <3>1
    <3> QED BY <3>1, <3>2
  <2> QED BY <2>3, <2>4 DEF Bijection, Injection, Surjection
<1>3. IsFiniteSet(A) /\ Cardinality(A) = Cardinality(B) /\ IsFiniteSet(C)
  <2>1. IsFiniteSet(A)
    BY <1>1, CountOf
  <2>2. IsFiniteSet(C)
    BY CountOf
  <2> HIDE DEF A, B, C
  <2> QED BY <1>2, <2>1, <2>2, FS_Bijection DEF ExistsBijection
<1>4. Cardinality(B) = IF 1 \in C THEN Cardinality(C) - 1 ELSE Cardinality(C)
  BY <1>3, FS_RemoveElement
<1>5. 1 \in C <=> Head(s) = k
  BY <1>1
<1>6. Cardinality(C) \in Nat
  BY <1>3, FS_CardinalityType
<1> HIDE DEF A, B, C
<1>7. Cardinality(C) = Cardinality(A) + (IF Head(s) = k THEN 1 ELSE 0)
  BY <1>3, <1>4, <1>5, <1>6
<1> QED BY <1>7 DEF Count, A, C

\* A sequence has no more elements than places.
LEMMA FewElements ==
  ASSUME NEW S, NEW s \in Seq(S)
  PROVE  /\ IsFiniteSet(Elements(s)) /\ Cardinality(Elements(s)) \in Nat
         /\ Cardinality(Elements(s)) <= Len(s)
<1>1. Len(s) \in Nat /\ DOMAIN s = 1..Len(s)
  BY LenProperties
<1>2. IsFiniteSet(1..Len(s)) /\ Cardinality(1..Len(s)) = Len(s)
  BY <1>1, FS_Interval
<1>3. s \in Surjection(1..Len(s), Elements(s))
  BY <1>1 DEF Surjection, Elements
<1>4. IsFiniteSet(Elements(s)) /\ Cardinality(Elements(s)) <= Cardinality(1..Len(s))
  BY <1>2, <1>3, FS_Surjection
<1> QED BY <1>2, <1>4, FS_CardinalityType

-----------------------------------------------------------------------------
(***************************************************************************)
(* Steps that leave a part of the state alone.                             *)
(***************************************************************************)

LEMMA PublisherFrame ==
  PublisherTyped /\ UNCHANGED <<publisherVars, drops>> => PublisherTyped'
BY DEF PublisherTyped, publisherVars

LEMMA QueueFrame ==
  QueueTyped /\ UNCHANGED <<telemetry, worker, unfinished>> => QueueTyped'
BY DEF QueueTyped

LEMMA RunsTypedFrame ==
  /\ RunsTyped /\ UNCHANGED <<coalescerVars, worker>>
  /\ flushing["caller"].todo # <<>> => caller'.pc = "flushing"
  => RunsTyped'
BY DEF RunsTyped, coalescerVars

LEMMA WriterFrame == WriterTyped /\ UNCHANGED writerVars => WriterTyped'
BY DEF WriterTyped, writerVars

LEMMA SubmittedFrame ==
  ASSUME Submitted, PublisherTyped, UNCHANGED <<publisher, accepted, seen>>,
         \A e \in Known : e[1] # "summary" => e \in Known',
         failures' = 0 => failures = 0 /\ errors' = errors
  PROVE  Submitted'
<1>1. publisher.pc = "waiting" => publisher.of \in Known'
  BY DEF Submitted, PublisherTyped, PublisherType
<1>2. \A k : <<"high", k>> \in Known => <<"high", k>> \in Known'
  OBVIOUS
<1> QED BY <1>1, <1>2 DEF Submitted, PublisherTyped

LEMMA GapFrame ==
  ASSUME Gap, UNCHANGED <<dropped, drops, caller>>,
         Clean' => Clean,
         Clean' /\ caller.pc # "raised" =>
           /\ Summaries(log \cup Held)' = Summaries(log \cup Held)
           /\ Summaries(Held)' \subseteq Summaries(Held)
  PROVE  Gap'
BY DEF Gap

\* While close() goes on without failures there is at most one summary.
LEMMA OneSummary ==
  ASSUME Gap, CallerTyped, Clean, caller.pc # "raised"
  PROVE  \A e, f \in log \cup Held : e[1] = "summary" /\ f[1] = "summary" => e = f
<1>1. \E x : Summaries(log \cup Held) \subseteq {x}
  BY DEF Gap, CallerTyped
<1> QED BY <1>1 DEF Summaries

LEMMA RunsFrame ==
  ASSUME Runs, UNCHANGED <<worker, open, run, flushing, stored, telemetry, accepted>>,
         Clean' => /\ Clean
                   /\ caller'.pc = "flushing" => caller.pc = "flushing"
                   /\ caller'.pc \in {"summary", "awaiting", "drain", "drained", "closed"} =>
                        caller.pc \in {"summary", "awaiting", "drain", "drained", "closed"}
  PROVE  Runs'
<1>1. /\ Live' = Live /\ HasOpenRun(worker.key)' = HasOpenRun(worker.key)
      /\ \A r : Due(r)' = Due(r)
      /\ \A k : Arrived(k)' = Arrived(k)
  BY DEF Live, HasOpenRun, Due, Committed, Arrived, InHand
<1>2. Clean' => OneRunPerKey' /\ Accounted'
  BY <1>1 DEF Runs, OneRunPerKey, Accounted
<1> QED BY <1>1, <1>2 DEF Runs

\* What is counted is a number.
LEMMA LiveRuns ==
  ASSUME Typed
  PROVE  /\ Live \subseteq Run
         /\ \A r \in Live : run[r].key \in Key /\ run[r].pending \in Nat /\ Due(r) \in Nat
         /\ \A k \in Key : Arrived(k) \in Nat /\ stored[k] \in Nat /\ InHand(k) \in Nat
                            /\ Count(telemetry, k) \in Nat /\ accepted[k] \in Nat
<1>1. /\ open \in Seq(Run) /\ flushing["telemetry"].todo \in Seq(Run)
      /\ flushing["caller"].todo \in Seq(Run)
  BY DEF Typed, RunsTyped, Flusher
<1>2. Live \subseteq Run
  BY <1>1, ElementsOf DEF Live
<1>3. ASSUME NEW r \in Live
      PROVE  run[r].key \in Key /\ run[r].pending \in Nat /\ Due(r) \in Nat
  BY <1>2 DEF Typed, RunsTyped, Due
<1>4. ASSUME NEW k \in Key
      PROVE  /\ Arrived(k) \in Nat /\ stored[k] \in Nat /\ InHand(k) \in Nat
             /\ Count(telemetry, k) \in Nat /\ accepted[k] \in Nat
  <2>1. Count(telemetry, k) \in Nat
    BY CountOf DEF Typed, QueueTyped
  <2>2. stored[k] \in Nat /\ InHand(k) \in Nat /\ accepted[k] \in Nat
    BY DEF Typed, RunsTyped, PublisherTyped, InHand
  <2> QED BY <2>1, <2>2 DEF Arrived
<1> QED BY <1>2, <1>3, <1>4

-----------------------------------------------------------------------------
(***************************************************************************)
(* What becomes of an exact event.                                         *)
(***************************************************************************)

\* e would not be the second summary of the log.
Alone(e) == \A f \in log : f[1] = "summary" /\ e[1] = "summary" => f = e

LEMMA StoredOf ==
  ASSUME NEW e
  PROVE  /\ log \subseteq Stored(e) /\ Stored(e) \subseteq log \cup {e}
         /\ Alone(e) => Stored(e) = log \cup {e}
<1>1. ASSUME Alone(e), NEW f \in log, IdempotencyKey(f) = IdempotencyKey(e)
      PROVE  f = e
  <2>1. <<"summary", 0>>[1] = "summary"
    OBVIOUS
  <2> QED BY <1>1, <2>1 DEF Alone, IdempotencyKey
<1> QED BY <1>1 DEF Stored

LEMMA WritesOf ==
  ASSUME failures \in 0..MaxFailures, NEW e, Writes(e)
  PROVE  /\ log \subseteq log' /\ log' \subseteq log \cup {e}
         /\ errors \subseteq errors' /\ errors' \subseteq errors \cup {e}
         /\ failures' \in 0..MaxFailures /\ failures \in Nat /\ failures' >= failures
         /\ failures' = 0 => failures = 0 /\ errors' = errors /\ log' = Stored(e)
         /\ Alone(e) => e \in log' \cup errors'
<1>1. MaxFailures \in Nat
  BY EventBusAssumption
<1>2. CASE log' = Stored(e) /\ UNCHANGED <<errors, failures>>
  BY <1>1, <1>2, StoredOf
<1>3. CASE Fails /\ errors' = errors \cup {e} /\ UNCHANGED log
  <2>1. failures' = failures + 1 /\ failures < MaxFailures
    BY <1>3 DEF Fails
  <2>2. failures' \in 0..MaxFailures /\ failures' >= failures /\ failures' # 0
        /\ failures \in Nat
    BY <1>1, <2>1
  <2> QED BY <1>3, <2>2
<1> QED BY <1>2, <1>3 DEF Writes

LEMMA SubmitOf ==
  ASSUME WriterTyped, CallerTyped, NEW e \in Exact, e # NoItem, Submit(e)
  PROVE  /\ WriterTyped' /\ failures' \in 0..MaxFailures /\ writer' = writer
         /\ writeQueue # <<>> => writeQueue' # <<>>
         /\ Known \subseteq Known'
         /\ e[1] # "summary" => e \in Known'
         /\ failures' = 0 => /\ failures = 0 /\ errors' = errors
                             /\ Held \subseteq Held'
                             /\ Alone(e) => (log \cup Held)' = log \cup Held \cup {e}
                             /\ Held' \subseteq Held \cup {e}
<1>0. /\ writeQueue \in Seq(Exact) /\ Len(writeQueue) \in Nat /\ ExactReserve \in Nat \ {0}
      /\ failures \in 0..MaxFailures
  BY LenProperties, EventBusAssumption DEF WriterTyped, CallerTyped
<1>1. e[1] # "summary" => Alone(e)
  BY DEF Alone
<1>2. CASE /\ Len(writeQueue) < ExactReserve /\ writeQueue' = Append(writeQueue, e)
           /\ UNCHANGED <<writer, log, errors, failures>>
  <2>1. /\ writeQueue' \in Seq(Exact) /\ Len(writeQueue') = Len(writeQueue) + 1
        /\ writeQueue' # <<>>
        /\ Elements(writeQueue)' = Elements(writeQueue) \cup {e}
    BY <1>0, <1>2, AppendOf
  <2>2. Len(writeQueue') <= ExactReserve
    BY <1>0, <1>2, <2>1
  <2>3. Held' = Held \cup {e}
    BY <1>2, <2>1 DEF Held
  <2> QED BY <1>0, <1>2, <2>1, <2>2, <2>3 DEF WriterTyped, Known
<1>3. CASE Len(writeQueue) = ExactReserve /\ Writes(e) /\ UNCHANGED <<writeQueue, writer>>
  <2>1. /\ log \subseteq log' /\ log' \subseteq log \cup {e}
        /\ errors \subseteq errors' /\ errors' \subseteq errors \cup {e}
        /\ failures' \in 0..MaxFailures
        /\ failures' = 0 => failures = 0 /\ errors' = errors /\ log' = Stored(e)
        /\ Alone(e) => e \in log' \cup errors'
    BY <1>0, <1>3, WritesOf
  <2>2. Held' = Held
    BY <1>3 DEF Held
  <2>3. Alone(e) => Stored(e) = log \cup {e}
    BY StoredOf
  <2> QED BY <1>1, <1>3, <2>1, <2>2, <2>3 DEF WriterTyped, Known
<1> QED BY <1>2, <1>3 DEF Submit

LEMMA NotNoItem == \A e \in Exact : e # NoItem
BY DEF Exact, NoItem

\* The writer's own steps lose no event; without failures they only move it to the log.
LEMMA WriterStepOf ==
  ASSUME WriterTyped, CallerTyped, WriterStep
  PROVE  /\ WriterTyped' /\ failures' \in 0..MaxFailures
         /\ \A e \in Known : e[1] # "summary" => e \in Known'
         /\ failures' = 0 =>
              /\ failures = 0 /\ errors' = errors /\ Held' \subseteq Held
              /\ (\A e, f \in log \cup Held : e[1] = "summary" /\ f[1] = "summary" => e = f)
                 => (log \cup Held)' = log \cup Held
<1>0. /\ writeQueue \in Seq(Exact) /\ Len(writeQueue) \in Nat /\ writer \in WriterType
      /\ failures \in 0..MaxFailures
  BY LenProperties DEF WriterTyped, CallerTyped
<1>1. CASE WriterTakes
  <2>1. /\ writer.pc = "idle" /\ writeQueue # <<>> /\ writeQueue' = Tail(writeQueue)
        /\ writer' = [pc |-> "writing", of |-> Head(writeQueue)]
        /\ UNCHANGED <<log, errors, failures>>
    BY <1>1 DEF WriterTakes
  <2>2. /\ Head(writeQueue) \in Exact /\ writeQueue' \in Seq(Exact)
        /\ Len(writeQueue') <= Len(writeQueue) /\ Len(writeQueue') \in Nat
        /\ Elements(writeQueue) = {Head(writeQueue)} \cup Elements(writeQueue')
    BY <1>0, <2>1, TailOf
  <2>3. Len(writeQueue') <= ExactReserve
    BY <1>0, <2>2, EventBusAssumption DEF WriterTyped
  <2>4. writer.of = NoItem /\ writer'.of = Head(writeQueue) /\ writer' \in WriterType
    BY <1>0, <2>1, <2>2 DEF WriterType
  <2>5. Held' = Held
    BY <2>2, <2>4, NotNoItem DEF Held
  <2> QED BY <1>0, <2>1, <2>2, <2>3, <2>4, <2>5 DEF WriterTyped, Known
<1>2. CASE WriterWrites
  <2>1. /\ writer.pc = "writing" /\ Writes(writer.of)
        /\ writer' = [pc |-> "idle", of |-> NoItem] /\ writeQueue' = writeQueue
    BY <1>2 DEF WriterWrites
  <2>2. writer.of \in Exact /\ writer' \in WriterType /\ writer'.of = NoItem
    BY <1>0, <2>1 DEF WriterType
  <2>3. /\ log \subseteq log' /\ log' \subseteq log \cup {writer.of}
        /\ errors \subseteq errors' /\ errors' \subseteq errors \cup {writer.of}
        /\ failures' \in 0..MaxFailures
        /\ failures' = 0 => failures = 0 /\ errors' = errors /\ log' = Stored(writer.of)
        /\ Alone(writer.of) => writer.of \in log' \cup errors'
    BY <1>0, <2>1, WritesOf
  <2>4. Held = Elements(writeQueue) \cup {writer.of} /\ Held' = Elements(writeQueue)
    BY <2>1, <2>2, NotNoItem DEF Held
  <2>5. writer.of[1] # "summary" => Alone(writer.of)
    BY DEF Alone
  <2>6. \A e \in Known : e[1] # "summary" => e \in Known'
    BY <2>3, <2>4, <2>5 DEF Known
  <2>7. ASSUME \A e, f \in log \cup Held : e[1] = "summary" /\ f[1] = "summary" => e = f,
               failures' = 0
        PROVE  (log \cup Held)' = log \cup Held
    <3>1. Alone(writer.of)
      BY <2>4, <2>7 DEF Alone
    <3>2. log' = log \cup {writer.of}
      BY <2>3, <2>7, <3>1, StoredOf
    <3> QED BY <2>4, <3>2
  <2> QED BY <2>1, <2>2, <2>3, <2>4, <2>6, <2>7 DEF WriterTyped
<1>3. CASE WriterEnds
  <2>1. writer.pc = "idle" /\ writer' = [writer EXCEPT !.pc = "ended"]
        /\ UNCHANGED <<writeQueue, log, errors, failures>>
    BY <1>3 DEF WriterEnds
  <2>2. writer' \in WriterType /\ writer'.of = writer.of
    BY <1>0, <2>1 DEF WriterType
  <2>3. Held' = Held
    BY <2>1, <2>2 DEF Held
  <2> QED BY <1>0, <2>1, <2>2, <2>3 DEF WriterTyped, Known
<1> QED BY <1>1, <1>2, <1>3 DEF WriterStep

-----------------------------------------------------------------------------
(***************************************************************************)
(* The writer.                                                             *)
(***************************************************************************)

LEMMA WriterKeeps ==
  ASSUME Inv, WriterStep
  PROVE  Inv'
<1>0. Typed /\ Closing /\ Submitted /\ Gap /\ Runs /\ WriterTyped /\ CallerTyped
      /\ failures \in 0..MaxFailures /\ flushes \in 0..MaxFlushes
  BY DEF Inv, Typed, CallerTyped
<1>1. UNCHANGED <<publisherVars, coalescerVars, telemetry, unfinished, worker, drops,
                  caller, stop, flushes>>
  BY DEF WriterStep, WriterTakes, WriterWrites, WriterEnds
<1>2. /\ WriterTyped' /\ failures' \in 0..MaxFailures
      /\ \A e \in Known : e[1] # "summary" => e \in Known'
      /\ failures' = 0 =>
           /\ failures = 0 /\ errors' = errors /\ Held' \subseteq Held
           /\ (\A e, f \in log \cup Held : e[1] = "summary" /\ f[1] = "summary" => e = f)
              => (log \cup Held)' = log \cup Held
  BY <1>0, WriterStepOf
<1>3. Typed'
  <2>1. PublisherTyped' /\ QueueTyped'
    BY <1>0, <1>1, PublisherFrame, QueueFrame DEF Typed
  <2>2. RunsTyped'
    BY <1>0, <1>1, RunsTypedFrame DEF Typed, RunsTyped
  <2>3. CallerTyped'
    BY <1>0, <1>1, <1>2 DEF CallerTyped
  <2> QED BY <1>2, <2>1, <2>2, <2>3 DEF Typed
<1>4. Closing'
  <2>1. writer'.pc = "ended" => stop.writer /\ writeQueue' = <<>>
    BY <1>0 DEF WriterStep, WriterTakes, WriterWrites, WriterEnds, Closing
  <2>2. writer.pc = "ended" => writer'.pc = "ended"
    BY DEF WriterStep, WriterTakes, WriterWrites, WriterEnds
  <2>3. failures > 0 => failures' > 0
    BY <1>0, <1>2, EventBusAssumption
  <2> QED BY <1>0, <1>1, <2>1, <2>2, <2>3 DEF Closing, publisherVars
<1>5. Submitted'
  BY <1>0, <1>1, <1>2, SubmittedFrame DEF Typed, publisherVars
<1>6. Gap'
  <2>1. Clean' => Clean /\ failures' = 0
    BY <1>1, <1>2 DEF Clean
  <2>2. ASSUME Clean', caller.pc # "raised"
        PROVE  /\ Summaries(log \cup Held)' = Summaries(log \cup Held)
               /\ Summaries(Held)' \subseteq Summaries(Held)
    <3>1. (log \cup Held)' = log \cup Held /\ Held' \subseteq Held
      BY <1>0, <1>2, <2>1, <2>2, OneSummary
    <3> QED BY <3>1 DEF Summaries
  <2> QED BY <1>0, <1>1, <2>1, <2>2, GapFrame DEF publisherVars
<1>7. Runs'
  BY <1>0, <1>1, <1>2, RunsFrame DEF Clean, coalescerVars, publisherVars
<1> QED BY <1>3, <1>4, <1>5, <1>6, <1>7 DEF Inv

-----------------------------------------------------------------------------
(***************************************************************************)
(* The publisher.                                                          *)
(***************************************************************************)

LEMMA PublishRefusedKeeps ==
  ASSUME Inv, PublishRefused
  PROVE  Inv'
<1>0. Typed /\ Closing /\ Submitted /\ Gap /\ Runs
      /\ publisher \in PublisherType /\ dropped \in Nat /\ drops \in Nat /\ drops <= dropped
      /\ published \in 0..MaxPublish /\ dropped <= published
  <2>1. Typed /\ Closing /\ Submitted /\ Gap /\ Runs /\ PublisherTyped
    BY DEF Inv, Typed
  <2>2. publisher.pc = "idle"
    BY DEF PublishRefused
  <2>3. dropped + 0 <= published /\ dropped \in Nat /\ published \in 0..MaxPublish
    BY <2>1, <2>2 DEF PublisherTyped
  <2> QED BY <2>1, <2>3, EventBusAssumption DEF PublisherTyped
<1>1. /\ publisher.pc = "idle" /\ published < MaxPublish /\ published' = published + 1
      /\ drops' = drops + 1 /\ dropped' = dropped + 1
      /\ UNCHANGED <<publisher, seen, accepted, coalescerVars, writerVars, telemetry,
                     unfinished, worker, caller, stop, flushes, failures>>
  BY DEF PublishRefused, Publish, RecordDrop
<1>2. /\ dropped' \in Nat /\ drops' \in Nat /\ drops' <= dropped'
      /\ published' \in 0..MaxPublish /\ dropped' + 0 <= published'
  BY <1>0, <1>1, EventBusAssumption
<1>3. PublisherTyped'
  BY <1>0, <1>1, <1>2 DEF Typed, PublisherTyped
<1>4. Typed'
  BY <1>0, <1>1, <1>3, QueueFrame, RunsTypedFrame, WriterFrame
     DEF Typed, RunsTyped, CallerTyped, coalescerVars
<1>5. Closing'
  BY <1>0, <1>1 DEF Closing, writerVars
<1>6. /\ Known' = Known /\ Held' = Held /\ log' = log /\ errors' = errors
      /\ caller.pc \in {"idle", "join", "joined", "flushing", "summary"} \/ ~Clean
  BY <1>0, <1>1 DEF Known, Held, writerVars, Closing, Clean, Typed, CallerTyped
<1>7. Submitted'
  BY <1>0, <1>1, <1>6, SubmittedFrame DEF Typed
<1>8. Gap'
  BY <1>0, <1>1, <1>6 DEF Gap, Clean
<1>9. Runs'
  BY <1>0, <1>1, RunsFrame DEF Clean, coalescerVars
<1> QED BY <1>4, <1>5, <1>7, <1>8, <1>9 DEF Inv

LEMMA PublishHighKeeps ==
  ASSUME Inv, NEW k \in Key, PublishHigh(k)
  PROVE  Inv'
<1>0. /\ Typed /\ Closing /\ Submitted /\ Gap /\ Runs /\ WriterTyped /\ CallerTyped
      /\ PublisherTyped /\ k \in High /\ k \in Key
      /\ published \in 0..MaxPublish /\ dropped \in Nat /\ MaxPublish \in Nat
      /\ failures \in 0..MaxFailures
  BY EventBusAssumption DEF Inv, Typed, PublishHigh, PublisherTyped, CallerTyped
<1> DEFINE e == <<"high", k>>
<1>1. /\ publisher.pc = "idle" /\ published < MaxPublish /\ published' = published + 1
      /\ publisher' = [pc |-> "put", of |-> <<"observation", k>>]
      /\ UNCHANGED <<accepted, dropped, coalescerVars, telemetry, unfinished, worker,
                     drops, caller, stop, flushes>>
  BY DEF PublishHigh, Publish
<1>2. e \in Exact /\ e[1] # "summary" /\ e # NoItem
  BY <1>0, NotNoItem DEF Exact
<1>3. /\ seen' \in Seq(High) /\ Len(seen') <= FingerprintCapacity
      /\ Elements(seen)' \subseteq Elements(seen) \cup {k}
  <2>1. seen \in Seq(High) /\ Len(seen) \in Nat /\ Len(seen) <= FingerprintCapacity
        /\ FingerprintCapacity \in Nat
    BY <1>0, LenProperties, EventBusAssumption DEF PublisherTyped
  <2>2. CASE \E i \in 1..Len(seen) : seen[i] = k /\ seen' = MovedToEnd(seen, i)
    BY <2>1, <2>2, MovedOf
  <2>3. CASE LET longer == Append(seen, k)
             IN  seen' = IF Len(longer) > FingerprintCapacity THEN Tail(longer) ELSE longer
    <3> DEFINE longer == Append(seen, k)
    <3>1. /\ longer \in Seq(High) /\ Len(longer) = Len(seen) + 1 /\ longer # <<>>
          /\ Elements(longer) = Elements(seen) \cup {k}
      BY <1>0, <2>1, AppendOf
    <3>2. seen' = IF Len(longer) > FingerprintCapacity THEN Tail(longer) ELSE longer
      BY <2>3
    <3> HIDE DEF longer
    <3>3. /\ Tail(longer) \in Seq(High) /\ Len(Tail(longer)) = Len(longer) - 1
          /\ Elements(Tail(longer)) \subseteq Elements(longer)
      BY <3>1, TailOf
    <3>4. Len(seen') <= FingerprintCapacity
      BY <2>1, <3>1, <3>2, <3>3
    <3> QED BY <3>1, <3>2, <3>3, <3>4
  <2> QED BY <2>2, <2>3 DEF PublishHigh
<1>4. /\ WriterTyped' /\ failures' \in 0..MaxFailures
      /\ writer' = writer /\ (writeQueue # <<>> => writeQueue' # <<>>)
      /\ Known \subseteq Known'
      /\ failures' = 0 =>
           /\ failures = 0 /\ errors' = errors
           /\ (log \cup Held)' \subseteq log \cup Held \cup {e}
           /\ log \cup Held \subseteq (log \cup Held)'
           /\ Held' \subseteq Held \cup {e}
           /\ e \in Known'
  <2>1. CASE Submit(e)
    <3>1. Alone(e)
      BY <1>2 DEF Alone
    <3> QED BY <1>0, <1>2, <2>1, <3>1, SubmitOf
  <2>2. CASE UNCHANGED <<writerVars, failures>> /\ (k \in Elements(seen) \/ e \in log)
    <3>1. WriterTyped' /\ Known' = Known /\ Held' = Held /\ log' = log
          /\ errors' = errors /\ failures' = failures /\ UNCHANGED <<writer, writeQueue>>
      BY <1>0, <2>2, WriterFrame DEF Known, Held, writerVars
    <3>2. failures = 0 => e \in Known
      BY <1>0, <2>2 DEF Submitted, Known
    <3> QED BY <1>0, <3>1, <3>2
  <2>3. seen \in Seq(High)
    BY <1>0 DEF PublisherTyped
  <2>4. \A i \in 1..Len(seen) : seen[i] \in Elements(seen)
    BY <2>3, ElementsOf DEF Elements
  <2> QED BY <2>1, <2>2, <2>4 DEF PublishHigh
<1>5. PublisherTyped'
  <2>1. publisher' \in PublisherType /\ publisher'.pc = "put"
    BY <1>0, <1>1 DEF PublisherType
  <2>2. dropped + 0 <= published
    BY <1>0, <1>1 DEF PublisherTyped
  <2>3. published' \in 0..MaxPublish /\ dropped + 1 <= published'
    BY <1>0, <1>1, <2>2
  <2> QED BY <1>0, <1>1, <1>3, <2>1, <2>3 DEF PublisherTyped
<1>6. Typed'
  BY <1>0, <1>1, <1>4, <1>5, QueueFrame, RunsTypedFrame DEF Typed, RunsTyped, CallerTyped
<1>7. Closing'
  <2>1. caller.op # "close"
    BY <1>0, <1>1 DEF Closing
  <2>2. failures > 0 => failures' > 0
    BY <1>0, <1>4, EventBusAssumption
  <2> QED BY <1>0, <1>1, <1>4, <2>1, <2>2 DEF Closing
<1>8. Submitted'
  <2>1. publisher'.of = <<"observation", k>> /\ publisher'.pc = "put"
    BY <1>1
  <2> QED BY <1>0, <1>1, <1>3, <1>4, <2>1 DEF Submitted
<1>9. Gap'
  <2>1. Clean' => Clean /\ failures' = 0
    BY <1>1, <1>4 DEF Clean
  <2>2. ASSUME Clean'
        PROVE  /\ Summaries(log \cup Held)' = Summaries(log \cup Held)
               /\ Summaries(Held)' \subseteq Summaries(Held)
    BY <1>2, <1>4, <2>1, <2>2 DEF Summaries
  <2> QED BY <1>0, <1>1, <2>1, <2>2, GapFrame
<1>10. Runs'
  BY <1>0, <1>1, <1>4, RunsFrame DEF Clean, coalescerVars
<1> QED BY <1>6, <1>7, <1>8, <1>9, <1>10 DEF Inv

LEMMA PutObservationKeeps ==
  ASSUME Inv, NEW k \in Key, PutObservation(k)
  PROVE  Inv'
<1>0. /\ Typed /\ Closing /\ Submitted /\ Gap /\ Runs /\ WriterTyped /\ CallerTyped
      /\ PublisherTyped /\ QueueTyped /\ k \in Key
      /\ published \in 0..MaxPublish /\ dropped \in Nat /\ MaxPublish \in Nat
      /\ drops \in Nat /\ drops <= dropped
  BY EventBusAssumption DEF Inv, Typed, PublisherTyped
<1>1. /\ publisher' = [pc |-> "idle", of |-> NoItem]
      /\ \/ /\ publisher.pc = "idle" /\ k \notin High
            /\ published < MaxPublish /\ published' = published + 1
         \/ publisher = [pc |-> "put", of |-> <<"observation", k>>] /\ published' = published
      /\ UNCHANGED <<seen, coalescerVars, writerVars, worker, caller, stop, flushes, failures>>
  BY DEF PutObservation, PublisherIdle, Publish
<1>2. /\ publisher.pc \in {"idle", "put"} /\ publisher'.pc = "idle" /\ publisher'.of = NoItem
      /\ publisher' \in PublisherType
      /\ (k \in High => publisher.of = <<"observation", k>>)
  BY <1>1 DEF PublisherType
<1>3. /\ published' \in 0..MaxPublish /\ dropped + 1 <= published'
  <2>1. CASE publisher.pc = "idle" /\ published < MaxPublish /\ published' = published + 1
    <3>1. dropped + 0 <= published
      BY <1>0, <2>1 DEF PublisherTyped
    <3> QED BY <1>0, <2>1, <3>1
  <2>2. CASE publisher = [pc |-> "put", of |-> <<"observation", k>>] /\ published' = published
    <3>1. dropped + 1 <= published
      BY <1>0, <2>2 DEF PublisherTyped
    <3> QED BY <1>0, <2>2, <3>1
  <2> QED BY <1>1, <2>1, <2>2
<1>4. /\ Known' = Known /\ Held' = Held /\ log' = log /\ errors' = errors
      /\ Clean' = Clean
      /\ caller.op # "close" /\ (caller.pc = "idle" \/ ~Clean) /\ worker.pc # "ended"
  BY <1>0, <1>1, <1>2 DEF Known, Held, writerVars, Closing, Clean, Typed, CallerTyped
<1>5. CASE /\ Len(telemetry) < TelemetryCapacity
           /\ telemetry' = Append(telemetry, k) /\ unfinished' = unfinished + 1
           /\ accepted' = [accepted EXCEPT ![k] = @ + 1]
           /\ UNCHANGED <<drops, dropped>>
  <2>1. /\ telemetry' \in Seq(Key) /\ Len(telemetry') = Len(telemetry) + 1
        /\ Len(telemetry) \in Nat /\ TelemetryCapacity \in Nat
    BY <1>0, <1>5, AppendOf, EventBusAssumption DEF QueueTyped
  <2>2. QueueTyped'
    <3>1. Len(telemetry') <= TelemetryCapacity
      BY <1>5, <2>1
    <3>2. unfinished' = Len(telemetry')
                        + (IF worker.pc \in {"holding", "evicting"} THEN 1 ELSE 0)
      BY <1>0, <1>5, <2>1 DEF QueueTyped
    <3> QED BY <1>0, <1>1, <2>1, <3>1, <3>2 DEF QueueTyped
  <2>3. accepted' \in [Key -> Nat] /\ accepted \in [Key -> Nat]
        /\ accepted'[k] = accepted[k] + 1 /\ \A j \in Key : j # k => accepted'[j] = accepted[j]
    BY <1>0, <1>5 DEF PublisherTyped
  <2>4. PublisherTyped'
    <3>1. dropped + 0 <= published'
      BY <1>0, <1>3
    <3> QED BY <1>0, <1>1, <1>2, <1>3, <1>5, <2>3, <3>1 DEF PublisherTyped
  <2>5. Typed'
    BY <1>0, <1>1, <2>2, <2>4, RunsTypedFrame, WriterFrame DEF Typed, RunsTyped, CallerTyped
  <2>6. Closing'
    BY <1>0, <1>1, <1>2, <1>4 DEF Closing, writerVars
  <2>7. Submitted'
    <3>1. ASSUME NEW j \in High, failures = 0, accepted'[j] > 0
          PROVE  <<"high", j>> \in Known
      <4>1. CASE j = k
        BY <1>0, <1>2, <3>1, <4>1 DEF Submitted
      <4>2. CASE j # k
        BY <1>0, <2>3, <3>1, <4>2, EventBusAssumption DEF Submitted
      <4> QED BY <4>1, <4>2
    <3>2. \A j : publisher'.of # <<"observation", j>>
      BY <1>2 DEF NoItem
    <3> QED BY <1>0, <1>1, <1>2, <1>4, <3>1, <3>2 DEF Submitted
  <2>8. Gap'
    BY <1>0, <1>1, <1>4, <1>5 DEF Gap
  <2>9. Runs'
    <3>1. /\ Live' = Live /\ HasOpenRun(worker.key)' = HasOpenRun(worker.key)
          /\ \A r : Due(r)' = Due(r)
          /\ OneRunPerKey' <=> OneRunPerKey
      BY <1>1 DEF Live, HasOpenRun, Due, Committed, OneRunPerKey, coalescerVars
    <3>2. ASSUME NEW j \in Key PROVE Arrived(j)' = Arrived(j) + (IF k = j THEN 1 ELSE 0)
      <4>1. Count(telemetry', j) = Count(telemetry, j) + (IF k = j THEN 1 ELSE 0)
        BY <1>0, <1>5, CountAppend DEF QueueTyped
      <4>2. Count(telemetry, j) \in Nat /\ stored[j] \in Nat /\ InHand(j) \in Nat
        BY <1>0, CountOf DEF QueueTyped, RunsTyped, Typed, InHand
      <4>3. InHand(j)' = InHand(j) /\ stored' = stored
        BY <1>1 DEF InHand, coalescerVars
      <4> QED BY <4>1, <4>2, <4>3 DEF Arrived
    <3>3. Accounted => Accounted'
      <4> SUFFICES ASSUME Accounted, NEW j \in Key
                   PROVE /\ \A r \in Live : run[r].key = j =>
                              accepted'[j] = Arrived(j)' + Due(r)
                         /\ (\A r \in Live : run[r].key # j) => accepted'[j] = Arrived(j)'
        BY <1>1, <3>1 DEF Accounted, coalescerVars
      <4>1. Arrived(j) \in Nat
        <5>1. Count(telemetry, j) \in Nat /\ stored[j] \in Nat /\ InHand(j) \in Nat
          BY <1>0, CountOf DEF QueueTyped, RunsTyped, Typed, InHand
        <5> QED BY <5>1 DEF Arrived
      <4>2. ASSUME NEW r \in Live PROVE Due(r) \in Nat
        BY <1>0, <4>2, LiveRuns
      <4>3. accepted'[j] = accepted[j] + (IF k = j THEN 1 ELSE 0) /\ accepted[j] \in Nat
        BY <2>3
      <4>4. ASSUME NEW r \in Live, run[r].key = j
            PROVE  accepted'[j] = Arrived(j)' + Due(r)
        <5>1. accepted[j] = Arrived(j) + Due(r)
          BY <4>4 DEF Accounted
        <5> QED BY <3>2, <4>1, <4>2, <4>3, <5>1
      <4>5. ASSUME \A r \in Live : run[r].key # j PROVE accepted'[j] = Arrived(j)'
        <5>1. accepted[j] = Arrived(j)
          BY <4>5 DEF Accounted
        <5> QED BY <3>2, <4>1, <4>3, <5>1
      <4> QED BY <4>4, <4>5
    <3> QED BY <1>0, <1>1, <1>4, <3>1, <3>3 DEF Runs, coalescerVars
  <2> QED BY <2>5, <2>6, <2>7, <2>8, <2>9 DEF Inv
<1>6. CASE /\ drops' = drops + 1 /\ dropped' = dropped + 1
           /\ UNCHANGED <<telemetry, unfinished, accepted>>
  <2>1. PublisherTyped'
    <3>1. /\ dropped' \in Nat /\ drops' \in Nat /\ drops' <= dropped'
          /\ dropped' + 0 <= published'
      BY <1>0, <1>3, <1>6
    <3> QED BY <1>0, <1>1, <1>2, <1>3, <1>6, <3>1 DEF PublisherTyped
  <2>2. Typed'
    BY <1>0, <1>1, <1>6, <2>1, QueueFrame, RunsTypedFrame, WriterFrame
       DEF Typed, RunsTyped, CallerTyped
  <2>3. Closing'
    BY <1>0, <1>1, <1>2, <1>4, <1>6 DEF Closing, writerVars
  <2>4. Submitted'
    <3>1. \A j : publisher'.of # <<"observation", j>>
      BY <1>2 DEF NoItem
    <3> QED BY <1>0, <1>1, <1>2, <1>4, <1>6, <3>1 DEF Submitted
  <2>5. Gap'
    BY <1>0, <1>1, <1>4, <1>6 DEF Gap
  <2>6. Runs'
    BY <1>0, <1>1, <1>6, RunsFrame DEF Clean, coalescerVars
  <2> QED BY <2>2, <2>3, <2>4, <2>5, <2>6 DEF Inv
<1> QED BY <1>5, <1>6 DEF PutObservation, RecordDrop

LEMMA PublishExactKeeps ==
  ASSUME Inv, NEW c \in Control, PublishExact(c)
  PROVE  Inv'
<1>0. /\ Typed /\ Closing /\ Submitted /\ Gap /\ Runs /\ WriterTyped /\ CallerTyped
      /\ PublisherTyped /\ failures \in 0..MaxFailures /\ MaxFailures \in Nat
  BY EventBusAssumption DEF Inv, Typed, CallerTyped
<1> DEFINE e == <<"control", c>>
<1>1. /\ publisher.pc = "idle" /\ publisher' = [pc |-> "waiting", of |-> e] /\ Submit(e)
      /\ UNCHANGED <<seen, accepted, dropped, published, coalescerVars, telemetry,
                     unfinished, worker, drops, caller, stop, flushes>>
  BY DEF PublishExact
<1>2. /\ e \in Exact /\ e[1] # "summary" /\ e # NoItem /\ Alone(e)
      /\ \A k : e # <<"observation", k>>
  BY NotNoItem DEF Exact, Alone
<1>3. /\ WriterTyped' /\ failures' \in 0..MaxFailures
      /\ writer' = writer /\ (writeQueue # <<>> => writeQueue' # <<>>)
      /\ Known \subseteq Known' /\ e \in Known'
      /\ failures' = 0 =>
           /\ failures = 0 /\ errors' = errors
           /\ (log \cup Held)' = log \cup Held \cup {e}
           /\ Held' \subseteq Held \cup {e}
  BY <1>0, <1>1, <1>2, SubmitOf
<1>4. PublisherTyped'
  <2>1. publisher' \in PublisherType /\ publisher'.pc = "waiting"
    BY <1>1 DEF PublisherType
  <2>2. dropped + 0 <= published
    BY <1>0, <1>1 DEF PublisherTyped
  <2> QED BY <1>0, <1>1, <2>1, <2>2 DEF PublisherTyped
<1>5. Typed'
  BY <1>0, <1>1, <1>3, <1>4, QueueFrame, RunsTypedFrame DEF Typed, RunsTyped, CallerTyped
<1>6. Closing'
  <2>1. caller.op # "close"
    BY <1>0, <1>1 DEF Closing
  <2>2. failures > 0 => failures' > 0
    BY <1>0, <1>3
  <2> QED BY <1>0, <1>1, <1>3, <2>1, <2>2 DEF Closing
<1>7. Submitted'
  <2>1. publisher'.of = e
    BY <1>1
  <2> QED BY <1>0, <1>1, <1>2, <1>3, <2>1 DEF Submitted
<1>8. Gap'
  <2>1. Clean' => Clean /\ failures' = 0
    BY <1>1, <1>3 DEF Clean
  <2>2. ASSUME Clean'
        PROVE  /\ Summaries(log \cup Held)' = Summaries(log \cup Held)
               /\ Summaries(Held)' \subseteq Summaries(Held)
    BY <1>2, <1>3, <2>1, <2>2 DEF Summaries
  <2> QED BY <1>0, <1>1, <2>1, <2>2, GapFrame
<1>9. Runs'
  BY <1>0, <1>1, <1>3, RunsFrame DEF Clean, coalescerVars
<1> QED BY <1>5, <1>6, <1>7, <1>8, <1>9 DEF Inv

\* The publisher comes back, or ends.
LEMMA PublisherRestsKeeps ==
  ASSUME Inv, ResultArrives \/ ResultTimesOut \/ ExecutorStops
  PROVE  Inv'
<1>0. /\ Typed /\ Closing /\ Submitted /\ Gap /\ Runs /\ WriterTyped /\ CallerTyped
      /\ PublisherTyped /\ failures \in 0..MaxFailures /\ MaxFailures \in Nat
  BY EventBusAssumption DEF Inv, Typed, CallerTyped
<1>1. /\ publisher.pc \in {"waiting", "idle"}
      /\ UNCHANGED <<seen, accepted, dropped, published, coalescerVars, writerVars,
                     telemetry, unfinished, worker, drops, caller, stop, flushes>>
      /\ \/ failures' = failures
         \/ failures < MaxFailures /\ failures' = failures + 1
  <2>1. CASE ResultArrives
    BY <2>1 DEF ResultArrives, PublisherIdle
  <2>2. CASE ResultTimesOut
    BY <2>2 DEF ResultTimesOut, PublisherIdle, Fails
  <2>3. CASE ExecutorStops
    BY <2>3 DEF ExecutorStops
  <2> QED BY <2>1, <2>2, <2>3
<1>2. publisher' \in PublisherType /\ publisher'.pc \in {"idle", "done"}
      /\ publisher'.of = NoItem
  <2>1. publisher \in PublisherType
    BY <1>0 DEF PublisherTyped
  <2>2. CASE ResultArrives \/ ResultTimesOut
    BY <2>2 DEF ResultArrives, ResultTimesOut, PublisherIdle, PublisherType
  <2>3. CASE ExecutorStops
    BY <2>1, <2>3 DEF ExecutorStops, PublisherType
  <2> QED BY <2>2, <2>3
<1>3. failures' \in 0..MaxFailures /\ (failures' = 0 => failures = 0)
      /\ (failures > 0 => failures' > 0)
  BY <1>0, <1>1
<1>4. PublisherTyped'
  <2>1. dropped + 0 <= published
    BY <1>0, <1>1 DEF PublisherTyped
  <2> QED BY <1>0, <1>1, <1>2, <2>1 DEF PublisherTyped
<1>5. Typed'
  BY <1>0, <1>1, <1>3, <1>4, QueueFrame, RunsTypedFrame, WriterFrame
     DEF Typed, RunsTyped, CallerTyped
<1>6. Closing'
  BY <1>0, <1>1, <1>3 DEF Closing, writerVars
<1>7. Known' = Known /\ Held' = Held /\ log' = log /\ errors' = errors
  BY <1>1 DEF Known, Held, writerVars
<1>8. Submitted'
  <2>1. \A k : publisher'.of # <<"observation", k>>
    BY <1>2 DEF NoItem
  <2> QED BY <1>0, <1>1, <1>2, <1>3, <1>7, <2>1 DEF Submitted
<1>9. Gap'
  BY <1>0, <1>1, <1>3, <1>7, GapFrame DEF Clean
<1>10. Runs'
  BY <1>0, <1>1, <1>3, RunsFrame DEF Clean, coalescerVars
<1> QED BY <1>5, <1>6, <1>8, <1>9, <1>10 DEF Inv

-----------------------------------------------------------------------------
(***************************************************************************)
(* The coalescer.                                                          *)
(***************************************************************************)

\* Steps of the coalescer leave the exact events alone.
LEMMA CoalescerFrame ==
  ASSUME Inv, UNCHANGED <<publisherVars, writerVars, drops, stop, flushes>>,
         caller' = caller \/ caller' = [caller EXCEPT !.pc = "raised"],
         failures' \in 0..MaxFailures, failures' >= failures
  PROVE  /\ PublisherTyped' /\ WriterTyped' /\ CallerTyped' /\ Submitted' /\ Gap'
         /\ Clean' => Clean
<1>0. /\ Typed /\ Closing /\ Submitted /\ Gap /\ WriterTyped /\ CallerTyped
      /\ PublisherTyped /\ failures \in 0..MaxFailures /\ MaxFailures \in Nat
  BY EventBusAssumption DEF Inv, Typed, CallerTyped
<1>1. Known' = Known /\ Held' = Held /\ log' = log /\ errors' = errors
  BY DEF Known, Held, writerVars
<1>2. failures' = 0 => failures = 0
  BY <1>0
<1>3. PublisherTyped' /\ WriterTyped'
  BY <1>0, PublisherFrame, WriterFrame
<1>4. CallerTyped'
  BY <1>0 DEF CallerTyped
<1>5. Submitted'
  BY <1>0, <1>1, <1>2, SubmittedFrame DEF publisherVars
<1>6. Gap'
  BY <1>0, <1>1, <1>2 DEF Gap, Clean, publisherVars, CallerTyped
<1> QED BY <1>2, <1>3, <1>4, <1>5, <1>6 DEF Clean

\* A flush by p: p is at work on its todo list.
LEMMA FlusherAtWork ==
  ASSUME Inv, NEW p \in Flusher, ~Flushed(p)
  PROVE  /\ flushing[p].todo \in Seq(Run) /\ flushing[p].todo # <<>>
         /\ Current(p) \in Run /\ Current(p) \in Live
         /\ Tail(flushing[p].todo) \in Seq(Run)
         /\ Len(Tail(flushing[p].todo)) = Len(flushing[p].todo) - 1
         /\ Elements(flushing[p].todo) = {Current(p)} \cup Elements(Tail(flushing[p].todo))
         /\ p = "telemetry" => worker.pc \in {"evicting", "flushing"}
         /\ p = "caller" => caller.pc = "flushing"
         /\ Clean => \A q \in Flusher : q # p => Flushed(q)
<1>1. /\ flushing[p].todo \in Seq(Run) /\ flushing[p].todo # <<>>
      /\ worker \in WorkerType /\ caller.op \in {"none", "flush", "close"}
  BY DEF Inv, Typed, RunsTyped, QueueTyped, CallerTyped, Flushed
<1>2. /\ Current(p) \in Run /\ Tail(flushing[p].todo) \in Seq(Run)
      /\ Len(Tail(flushing[p].todo)) = Len(flushing[p].todo) - 1
      /\ Elements(flushing[p].todo) = {Current(p)} \cup Elements(Tail(flushing[p].todo))
  BY <1>1, TailOf DEF Current
<1>3. Current(p) \in Live
  BY <1>2 DEF Live, Flusher
<1>4. /\ p = "telemetry" => worker.pc \in {"evicting", "flushing"}
      /\ p = "caller" => caller.pc = "flushing"
  <2>1. worker.pc \in {"idle", "flushing", "ended", "dead", "holding", "evicting"}
    BY <1>1 DEF WorkerType
  <2> QED BY <1>1, <2>1 DEF Inv, Typed, RunsTyped
<1>5. Clean /\ flushing["caller"].todo # <<>> => flushing["telemetry"].todo = <<>>
  <2> SUFFICES ASSUME Clean, flushing["caller"].todo # <<>>
               PROVE  flushing["telemetry"].todo = <<>>
    OBVIOUS
  <2>1. caller.pc = "flushing"
    BY DEF Inv, Typed, RunsTyped
  <2>2. caller.op = "close"
    BY <1>1, <2>1 DEF Inv, Closing, Clean
  <2>3. worker.pc \in {"ended", "dead"}
    BY <2>1, <2>2 DEF Inv, Closing
  <2> QED BY <2>3 DEF Inv, Typed, RunsTyped
<1> QED BY <1>1, <1>2, <1>3, <1>4, <1>5 DEF Flusher, Flushed

\* A run that owes nothing may be forgotten.
LEMMA Forgotten ==
  ASSUME OneRunPerKey, Accounted, UNCHANGED accepted, NEW c,
         Live' \subseteq Live, Live \subseteq Live' \cup {c}, Due(c) = 0,
         \A k \in Key : Arrived(k)' = Arrived(k) /\ Arrived(k) \in Nat,
         \A r \in Live : run'[r].key = run[r].key /\ Due(r)' = Due(r)
  PROVE  OneRunPerKey' /\ Accounted'
<1>1. OneRunPerKey'
  BY DEF OneRunPerKey
<1>2. ASSUME NEW k \in Key
      PROVE  /\ \A r \in Live' : run'[r].key = k => accepted[k] = Arrived(k) + Due(r)
             /\ (\A r \in Live' : run'[r].key # k) => accepted[k] = Arrived(k)
  <2>1. ASSUME NEW r \in Live', run'[r].key = k PROVE accepted[k] = Arrived(k) + Due(r)
    BY <2>1 DEF Accounted
  <2>2. ASSUME \A r \in Live' : run'[r].key # k PROVE accepted[k] = Arrived(k)
    <3>1. CASE \A r \in Live : run[r].key # k
      BY <3>1 DEF Accounted
    <3>2. CASE ~\A r \in Live : run[r].key # k
      <4>1. PICK r \in Live : run[r].key = k
        BY <3>2
      <4>2. r = c
        BY <2>2, <4>1
      <4>3. accepted[k] = Arrived(k) + 0
        BY <4>1, <4>2 DEF Accounted
      <4> QED BY <4>3
    <3> QED BY <3>1, <3>2
  <2> QED BY <2>1, <2>2
<1>3. Accounted'
  BY <1>2 DEF Accounted
<1> QED BY <1>1, <1>3

\* In a clean run only one thread flushes at a time, and it alone commits.
LEMMA OneCommit ==
  ASSUME Inv, Clean, NEW p \in Flusher, ~Flushed(p)
  PROVE  \A r : Committed(r) <=> flushing[p].committed /\ Current(p) = r
<1>1. \A q \in Flusher : q # p => ~flushing[q].committed
  BY FlusherAtWork DEF Inv, Typed, RunsTyped, Flushed
<1> QED BY <1>1 DEF Committed, Current

\* What a flush has dealt with is forgotten or owes nothing.
LEMMA FlushAdvances ==
  ASSUME Inv, NEW p \in Flusher, ~Flushed(p),
         flushing' \in [Flusher -> [todo : Seq(Run), committed : BOOLEAN]],
         flushing'[p].todo = Tail(flushing[p].todo), ~flushing'[p].committed,
         \A q \in Flusher : q # p => flushing'[q] = flushing[q],
         UNCHANGED <<open, stored, telemetry, worker, accepted, caller>>,
         run' \in [Run -> [key : Key, pending : Nat]],
         \A r \in Run : run'[r].key = run[r].key,
         \A r \in Run : r # Current(p) => run'[r] = run[r],
         run'[Current(p)].pending = 0,
         flushing[p].committed \/ run[Current(p)].pending = 0,
         Clean' => Clean
  PROVE  RunsTyped' /\ Runs'
<1>0. RunsTyped /\ Runs /\ Typed /\ QueueTyped /\ worker \in WorkerType
  BY DEF Inv, Typed, QueueTyped
<1>1. /\ flushing[p].todo \in Seq(Run) /\ flushing[p].todo # <<>>
      /\ Current(p) \in Run /\ Current(p) \in Live
      /\ Tail(flushing[p].todo) \in Seq(Run)
      /\ Len(Tail(flushing[p].todo)) = Len(flushing[p].todo) - 1
      /\ Elements(flushing[p].todo) = {Current(p)} \cup Elements(Tail(flushing[p].todo))
      /\ p = "telemetry" => worker.pc \in {"evicting", "flushing"}
      /\ p = "caller" => caller.pc = "flushing"
  BY FlusherAtWork
<1>2. /\ flushing \in [Flusher -> [todo : Seq(Run), committed : BOOLEAN]]
      /\ flushing'[p].todo = Tail(flushing[p].todo) /\ ~flushing'[p].committed
      /\ \A q \in Flusher : q # p => flushing'[q] = flushing[q]
      /\ flushing' \in [Flusher -> [todo : Seq(Run), committed : BOOLEAN]]
  BY <1>0 DEF RunsTyped
<1>3. Len(flushing'["caller"].todo) <= MaxOpenRuns
  <2>1. CASE p = "caller"
    <3>1. Len(flushing[p].todo) \in Nat /\ Len(flushing[p].todo) <= MaxOpenRuns
          /\ MaxOpenRuns \in Nat
      BY <1>0, <1>1, <2>1, LenProperties, EventBusAssumption DEF RunsTyped
    <3>2. Len(flushing'["caller"].todo) = Len(flushing[p].todo) - 1
      BY <1>1, <1>2, <2>1
    <3> QED BY <3>1, <3>2
  <2>2. CASE p # "caller"
    BY <1>0, <1>2, <2>2 DEF RunsTyped, Flusher
  <2> QED BY <2>1, <2>2
<1>4. RunsTyped'
  <2>1. \A q \in Flusher : flushing'[q].committed => flushing'[q].todo # <<>>
    BY <1>0, <1>2 DEF RunsTyped
  <2>2. worker.pc \in {"idle", "holding", "ended", "dead"} =>
          flushing'["telemetry"].todo = <<>>
    BY <1>0, <1>1, <1>2 DEF RunsTyped, Flusher
  <2>3. caller.pc # "flushing" => flushing'["caller"].todo = <<>>
    BY <1>0, <1>1, <1>2 DEF RunsTyped, Flusher
  <2> QED BY <1>0, <1>2, <1>3, <2>1, <2>2, <2>3 DEF RunsTyped
<1>5. HasOpenRun(worker.key)' = HasOpenRun(worker.key)
  <2>1. \A i \in 1..Len(open) : open[i] \in Run
    BY <1>0, ElementOfSeq DEF RunsTyped
  <2> QED BY <2>1 DEF HasOpenRun
<1>6. Elements(flushing'["telemetry"].todo) \subseteq Elements(flushing["telemetry"].todo)
      /\ Elements(flushing'["caller"].todo) \subseteq Elements(flushing["caller"].todo)
  BY <1>1, <1>2 DEF Flusher
<1>7. Live' \subseteq Live /\ Live \subseteq Live' \cup {Current(p)}
  BY <1>1, <1>2, <1>6 DEF Live, Flusher
<1>8. ASSUME Clean' PROVE OneRunPerKey' /\ Accounted'
  <2>1. Clean /\ OneRunPerKey /\ Accounted
    BY <1>0, <1>8 DEF Runs
  <2>2. \A r : Committed(r) <=> flushing[p].committed /\ Current(p) = r
    BY <2>1, OneCommit
  <2>3. \A r : ~Committed(r)'
    <3>1. \A q \in Flusher : q # p => ~flushing[q].committed
      BY <1>0, <2>1, FlusherAtWork DEF RunsTyped, Flushed
    <3> QED BY <1>2, <3>1 DEF Committed
  <2>4. Due(Current(p)) = 0
    BY <2>2 DEF Due
  <2>5. ASSUME NEW r \in Live PROVE run'[r].key = run[r].key /\ Due(r)' = Due(r)
    <3>1. r \in Run
      BY <1>0, LiveRuns
    <3>2. CASE r = Current(p)
      BY <2>3, <2>4, <3>1, <3>2 DEF Due
    <3>3. CASE r # Current(p)
      BY <2>2, <2>3, <3>1, <3>3 DEF Due
    <3> QED BY <3>1, <3>2, <3>3
  <2>6. \A k \in Key : Arrived(k)' = Arrived(k) /\ Arrived(k) \in Nat
    BY <1>0, LiveRuns DEF Arrived, InHand
  <2> QED BY <1>7, <2>1, <2>4, <2>5, <2>6, Forgotten
<1>9. Clean' /\ caller.pc = "flushing" =>
        \A r \in Elements(open) :
          r \in Elements(flushing'["caller"].todo) \/ run'[r].pending = 0
  <2> SUFFICES ASSUME Clean', caller.pc = "flushing", NEW r \in Elements(open)
               PROVE  r \in Elements(flushing'["caller"].todo) \/ run'[r].pending = 0
    OBVIOUS
  <2>1. r \in Elements(flushing["caller"].todo) \/ run[r].pending = 0
    BY <1>0 DEF Runs
  <2>2. r \in Run
    BY <1>0, ElementsOf DEF RunsTyped
  <2>3. CASE r = Current(p)
    BY <2>3
  <2>4. CASE r # Current(p)
    <3>1. run'[r] = run[r]
      BY <2>2, <2>4
    <3>2. r \in Elements(flushing["caller"].todo) => r \in Elements(flushing'["caller"].todo)
      BY <1>1, <1>2, <2>4 DEF Flusher
    <3> QED BY <2>1, <3>1, <3>2
  <2> QED BY <2>3, <2>4
<1>10. Runs'
  BY <1>0, <1>5, <1>6, <1>8, <1>9 DEF Runs
<1> QED BY <1>4, <1>10

LEMMA SkipRunKeeps ==
  ASSUME Inv, NEW p \in Flusher, SkipRun(p)
  PROVE  Inv'
<1>1. /\ ~Flushed(p) /\ flushing[p].committed = FALSE /\ run[Current(p)].pending = 0
      /\ flushing' = [flushing EXCEPT ![p].todo = Tail(flushing[p].todo)]
      /\ UNCHANGED <<publisherVars, writerVars, telemetry, drops, stop, flushes,
                     unfinished, worker, open, run, stored, caller, failures>>
  <2>1. flushing[p].committed \in BOOLEAN
    BY DEF Inv, Typed, RunsTyped
  <2> QED BY <2>1 DEF SkipRun, Flushing, othersThanFlush
<1>0. /\ Typed /\ Closing /\ failures \in 0..MaxFailures /\ failures \in Nat
      /\ run \in [Run -> [key : Key, pending : Nat]]
      /\ flushing \in [Flusher -> [todo : Seq(Run), committed : BOOLEAN]]
  BY EventBusAssumption DEF Inv, Typed, CallerTyped, RunsTyped
<1>2. /\ flushing' \in [Flusher -> [todo : Seq(Run), committed : BOOLEAN]]
      /\ flushing'[p].todo = Tail(flushing[p].todo) /\ ~flushing'[p].committed
      /\ \A q \in Flusher : q # p => flushing'[q] = flushing[q]
  <2>1. Tail(flushing[p].todo) \in Seq(Run)
    BY <1>1, FlusherAtWork
  <2> QED BY <1>0, <1>1, <2>1
<1>3. RunsTyped' /\ Runs'
  BY <1>0, <1>1, <1>2, FlushAdvances DEF Clean, publisherVars
<1>4. /\ PublisherTyped' /\ WriterTyped' /\ CallerTyped' /\ Submitted' /\ Gap'
  BY <1>0, <1>1, CoalescerFrame
<1>5. QueueTyped' /\ Closing'
  BY <1>0, <1>1, QueueFrame DEF Typed, Closing, publisherVars, writerVars
<1> QED BY <1>3, <1>4, <1>5 DEF Inv, Typed

LEMMA ResetRunKeeps ==
  ASSUME Inv, NEW p \in Flusher, ResetRun(p)
  PROVE  Inv'
<1>1. /\ flushing[p].committed
      /\ run' = [run EXCEPT ![Current(p)].pending = 0]
      /\ flushing' = [flushing EXCEPT ![p] = [todo |-> Tail(flushing[p].todo),
                                              committed |-> FALSE]]
      /\ UNCHANGED <<publisherVars, writerVars, telemetry, drops, stop, flushes,
                     unfinished, worker, open, stored, caller, failures>>
  BY DEF ResetRun, othersThanFlush
<1>0. /\ Typed /\ Closing /\ failures \in 0..MaxFailures /\ failures \in Nat
      /\ run \in [Run -> [key : Key, pending : Nat]]
      /\ flushing \in [Flusher -> [todo : Seq(Run), committed : BOOLEAN]]
  BY EventBusAssumption DEF Inv, Typed, CallerTyped, RunsTyped
<1>a. ~Flushed(p)
  BY <1>1 DEF Inv, Typed, RunsTyped, Flushed
<1>2. Current(p) \in Run /\ Tail(flushing[p].todo) \in Seq(Run)
  BY <1>a, FlusherAtWork
<1>b. /\ flushing' \in [Flusher -> [todo : Seq(Run), committed : BOOLEAN]]
      /\ flushing'[p].todo = Tail(flushing[p].todo) /\ ~flushing'[p].committed
      /\ \A q \in Flusher : q # p => flushing'[q] = flushing[q]
  BY <1>0, <1>1, <1>2
<1>3. /\ run' \in [Run -> [key : Key, pending : Nat]]
      /\ \A r \in Run : run'[r].key = run[r].key
      /\ \A r \in Run : r # Current(p) => run'[r] = run[r]
      /\ run'[Current(p)].pending = 0
  BY <1>0, <1>1, <1>2
<1>4. RunsTyped' /\ Runs'
  BY <1>a, <1>b, <1>1, <1>3, FlushAdvances DEF Clean, publisherVars
<1>5. /\ PublisherTyped' /\ WriterTyped' /\ CallerTyped' /\ Submitted' /\ Gap'
  BY <1>0, <1>1, CoalescerFrame
<1>6. QueueTyped' /\ Closing'
  BY <1>0, <1>1, QueueFrame DEF Typed, Closing, publisherVars, writerVars
<1> QED BY <1>4, <1>5, <1>6 DEF Inv, Typed

\* The commit moves what was pending to the table.
LEMMA CommitRunKeeps ==
  ASSUME Inv, NEW p \in Flusher, CommitRun(p)
  PROVE  Inv'
<1> DEFINE c == Current(p)
           n == run[c].pending
           key == run[c].key
<1>1. /\ ~Flushed(p) /\ flushing[p].committed = FALSE
      /\ stored' = [stored EXCEPT ![key] = @ + n]
      /\ flushing' = [flushing EXCEPT ![p].committed = TRUE]
      /\ UNCHANGED <<publisherVars, writerVars, telemetry, drops, stop, flushes,
                     unfinished, worker, open, run, caller, failures>>
  <2>1. flushing[p].committed \in BOOLEAN
    BY DEF Inv, Typed, RunsTyped
  <2> QED BY <2>1 DEF CommitRun, othersThanFlush
<1>0. /\ Typed /\ Closing /\ Runs /\ RunsTyped /\ failures \in 0..MaxFailures /\ failures \in Nat
      /\ run \in [Run -> [key : Key, pending : Nat]] /\ stored \in [Key -> Nat]
      /\ flushing \in [Flusher -> [todo : Seq(Run), committed : BOOLEAN]]
  BY SMTT(20), EventBusAssumption DEF Inv, Typed, CallerTyped, RunsTyped
<1>2. c \in Run /\ c \in Live /\ n \in Nat /\ key \in Key /\ flushing[p].todo # <<>>
  BY <1>0, <1>1, FlusherAtWork
<1>3. /\ stored' \in [Key -> Nat] /\ stored'[key] = stored[key] + n
      /\ \A k \in Key : k # key => stored'[k] = stored[k]
  BY <1>0, <1>1, <1>2
<1>4. /\ flushing' \in [Flusher -> [todo : Seq(Run), committed : BOOLEAN]]
      /\ flushing'[p].committed /\ \A q \in Flusher : flushing'[q].todo = flushing[q].todo
      /\ \A q \in Flusher : q # p => flushing'[q] = flushing[q]
  BY <1>0, <1>1
<1>5. RunsTyped'
  BY ZenonT(40), <1>0, <1>1, <1>2, <1>3, <1>4 DEF RunsTyped, Flusher
<1>6. Live' = Live /\ HasOpenRun(worker.key)' = HasOpenRun(worker.key)
      /\ OneRunPerKey' = OneRunPerKey /\ Clean' = Clean
  <2>1. Live' = Live
    BY <1>1, <1>4 DEF Live, Flusher
  <2> QED BY <1>1, <2>1 DEF HasOpenRun, OneRunPerKey, Clean
<1>7. ASSUME Clean PROVE Accounted'
  <2>1. OneRunPerKey /\ Accounted
    BY <1>0, <1>7 DEF Runs
  <2>2. \A r : ~Committed(r)
    BY <1>1, <1>7, OneCommit
  <2>3. \A r : Committed(r)' <=> c = r
    <3>1. \A q \in Flusher : q # p => ~flushing[q].committed
      BY <1>0, <1>1, <1>7, FlusherAtWork DEF RunsTyped, Flushed
    <3>2. \A q \in Flusher : flushing'[q].committed <=> q = p
      BY <1>4, <3>1
    <3>3. c = Head(flushing'[p].todo)
      BY <1>4 DEF Current
    <3> QED BY <3>2, <3>3 DEF Committed
  <2>a. run' = run
    BY <1>1
  <2>b. Due(c) = n
    BY <2>2 DEF Due
  <2>c. \A r : r = c => Due(r)' = 0
    BY <2>3 DEF Due
  <2>4. \A r : r # c => Due(r)' = Due(r)
    BY <2>a, <2>2, <2>3 DEF Due
  <2>5. \A k \in Key : /\ Arrived(k)' = Arrived(k) + (IF k = key THEN n ELSE 0)
                       /\ Arrived(k) \in Nat
    <3> SUFFICES ASSUME NEW k \in Key
                 PROVE  /\ Arrived(k)' = Arrived(k) + (IF k = key THEN n ELSE 0)
                        /\ Arrived(k) \in Nat
      OBVIOUS
    <3>1. /\ stored[k] \in Nat /\ InHand(k) \in Nat /\ Count(telemetry, k) \in Nat
          /\ Arrived(k) \in Nat
      BY <1>0, LiveRuns
    <3>2. InHand(k)' = InHand(k) /\ telemetry' = telemetry
      BY <1>1 DEF InHand
    <3>3. stored'[k] = stored[k] + (IF k = key THEN n ELSE 0)
      BY <1>2, <1>3, <3>1
    <3> HIDE DEF n, key
    <3> QED BY <1>2, <3>1, <3>2, <3>3 DEF Arrived
  <2>6. ASSUME NEW k \in Key, NEW r \in Live, run[r].key = k
        PROVE  accepted[k] = Arrived(k)' + Due(r)'
    <3>1. accepted[k] = Arrived(k) + Due(r) /\ Due(r) \in Nat
      BY <1>0, <2>1, <2>6, LiveRuns DEF Accounted
    <3>2. CASE r = c
      <4>1. Arrived(k)' = Arrived(k) + n /\ Due(r) = n /\ Due(r)' = 0
        BY <2>b, <2>c, <2>5, <2>6, <3>2
      <4> HIDE DEF n
      <4> QED BY <1>2, <2>5, <3>1, <4>1
    <3>3. CASE r # c
      <4>1. k # key
        BY <1>2, <2>1, <2>6, <3>3 DEF OneRunPerKey
      <4>2. Arrived(k)' = Arrived(k) + 0 /\ Due(r)' = Due(r) /\ Arrived(k) \in Nat
        BY <2>4, <2>5, <3>3, <4>1
      <4> QED BY <3>1, <4>2
    <3> QED BY <3>2, <3>3
  <2>7. ASSUME NEW k \in Key, \A r \in Live : run[r].key # k
        PROVE  accepted[k] = Arrived(k)'
    <3>1. k # key
      BY <1>2, <2>7
    <3>2. accepted[k] = Arrived(k)
      BY <2>1, <2>7 DEF Accounted
    <3>3. Arrived(k)' = Arrived(k) + 0 /\ Arrived(k) \in Nat
      BY <2>5, <3>1
    <3> QED BY <3>2, <3>3
  <2> QED BY <1>1, <1>6, <2>6, <2>7 DEF Accounted, publisherVars
<1>8. Runs'
  <2>1. \A q \in Flusher : Elements(flushing'[q].todo) = Elements(flushing[q].todo)
    BY <1>4
  <2> QED BY <1>0, <1>1, <1>6, <1>7, <2>1 DEF Runs, Flusher
<1>9. /\ PublisherTyped' /\ WriterTyped' /\ CallerTyped' /\ Submitted' /\ Gap'
  BY <1>0, <1>1, CoalescerFrame
<1>10. QueueTyped' /\ Closing'
  BY <1>0, <1>1, QueueFrame DEF Typed, Closing, publisherVars, writerVars
<1> QED BY <1>5, <1>8, <1>9, <1>10 DEF Inv, Typed

LEMMA CommitFailsKeeps ==
  ASSUME Inv, NEW p \in Flusher, CommitFails(p)
  PROVE  Inv'
<1>1. /\ ~Flushed(p) /\ flushing[p].committed = FALSE
      /\ failures < MaxFailures /\ failures' = failures + 1
      /\ flushing' = [flushing EXCEPT ![p].todo = <<>>]
      /\ \/ /\ p = "telemetry" /\ worker' = [worker EXCEPT !.pc = "dead"]
            /\ unfinished' = IF worker.pc = "evicting" THEN unfinished - 1 ELSE unfinished
            /\ caller' = caller
         \/ /\ p = "caller" /\ caller' = [caller EXCEPT !.pc = "raised"]
            /\ UNCHANGED <<worker, unfinished>>
      /\ UNCHANGED <<publisherVars, writerVars, telemetry, drops, stop, flushes,
                     open, run, stored>>
  <2>1. flushing[p].committed \in BOOLEAN
    BY DEF Inv, Typed, RunsTyped
  <2> QED BY <2>1 DEF CommitFails, Flushing, othersThanFlush, Fails
<1>0. /\ Typed /\ Closing /\ Runs /\ RunsTyped /\ QueueTyped
      /\ failures \in 0..MaxFailures /\ MaxFailures \in Nat /\ MaxOpenRuns \in Nat
      /\ flushing \in [Flusher -> [todo : Seq(Run), committed : BOOLEAN]]
      /\ worker \in WorkerType /\ telemetry \in Seq(Key) /\ Len(telemetry) \in Nat
  BY EventBusAssumption, LenProperties DEF Inv, Typed, CallerTyped, RunsTyped, QueueTyped
<1>2. failures' \in 0..MaxFailures /\ failures' >= failures /\ failures' > 0
  BY <1>0, <1>1
<1>3. /\ PublisherTyped' /\ WriterTyped' /\ CallerTyped' /\ Submitted' /\ Gap'
  BY <1>1, <1>2, CoalescerFrame
<1>4. /\ p = "telemetry" => worker.pc \in {"evicting", "flushing"}
      /\ p = "caller" => caller.pc = "flushing"
  BY <1>1, FlusherAtWork
<1>5. /\ worker' \in WorkerType /\ (worker'.pc = worker.pc \/ worker'.pc = "dead")
      /\ p = "telemetry" => worker'.pc = "dead"
      /\ p = "caller" => worker' = worker
      /\ worker'.pc = "evicting" => worker' = worker
  BY <1>0, <1>1 DEF WorkerType, Flusher
<1>6. QueueTyped'
  <2>1. CASE p = "caller"
    BY <1>0, <1>1, <2>1 DEF QueueTyped
  <2>2. CASE p = "telemetry"
    <3>1. worker'.pc = "dead" /\ telemetry' = telemetry
      BY <1>1, <1>5, <2>2
    <3>2. unfinished' = Len(telemetry) + 0
      <4>1. CASE worker.pc = "evicting"
        BY <1>0, <1>1, <2>2, <4>1 DEF QueueTyped
      <4>2. CASE worker.pc = "flushing"
        BY <1>0, <1>1, <2>2, <4>2 DEF QueueTyped
      <4> QED BY <1>4, <2>2, <4>1, <4>2
    <3> QED BY <1>0, <1>5, <3>1, <3>2 DEF QueueTyped
  <2> QED BY <2>1, <2>2 DEF Flusher
<1>7. RunsTyped'
  <2>1. <<>> \in Seq(Run) /\ Len(<<>>) = 0
    BY EmptySeq
  <2>2. /\ flushing' \in [Flusher -> [todo : Seq(Run), committed : BOOLEAN]]
        /\ flushing'[p].todo = <<>> /\ flushing'[p].committed = FALSE
        /\ \A q \in Flusher : q # p => flushing'[q] = flushing[q]
    BY <1>0, <1>1, <2>1
  <2>3. Len(flushing'["caller"].todo) <= MaxOpenRuns
    BY <1>0, <2>1, <2>2 DEF RunsTyped, Flusher
  <2>4. \A q \in Flusher : flushing'[q].committed => flushing'[q].todo # <<>>
    BY <1>0, <2>2 DEF RunsTyped
  <2>5. worker'.pc \in {"idle", "holding", "ended", "dead"} =>
          flushing'["telemetry"].todo = <<>>
    BY <1>0, <1>5, <2>2 DEF RunsTyped, Flusher
  <2>6. caller'.pc # "flushing" => flushing'["caller"].todo = <<>>
    BY <1>0, <1>1, <2>2 DEF RunsTyped, Flusher
  <2> QED BY <1>0, <1>1, <1>5, <2>2, <2>3, <2>4, <2>5, <2>6 DEF RunsTyped
<1>8. Closing'
  <2>1. /\ caller'.op = caller.op
        /\ caller'.pc = caller.pc \/ (caller.pc = "flushing" /\ caller'.pc = "raised")
    BY <1>0, <1>1, <1>4 DEF Typed, CallerTyped, Flusher
  <2>2. worker'.pc = "ended" => worker.pc = "ended"
    BY <1>5
  <2>3. worker.pc \in {"ended", "dead"} => worker'.pc \in {"ended", "dead"}
    BY <1>5
  <2> QED BY <1>0, <1>1, <1>2, <2>1, <2>2, <2>3 DEF Closing, publisherVars, writerVars
<1>9. Runs'
  BY <1>0, <1>1, <1>2, <1>5 DEF Runs, Clean, HasOpenRun
<1> QED BY <1>3, <1>6, <1>7, <1>8, <1>9 DEF Inv, Typed

-----------------------------------------------------------------------------
(***************************************************************************)
(* The telemetry thread.                                                   *)
(***************************************************************************)

LEMMA WorkerFrame ==
  ASSUME Inv, UNCHANGED othersThanWorker, worker.pc \notin {"ended", "dead"},
         worker'.pc # "dead", worker'.pc = "ended" => stop.bus /\ telemetry' = <<>>
  PROVE  /\ PublisherTyped' /\ WriterTyped' /\ CallerTyped' /\ Submitted' /\ Gap' /\ Closing'
         /\ Clean' = Clean /\ accepted' = accepted /\ caller' = caller
         /\ Clean => /\ caller.pc \in {"idle", "join", "joined", "raised"}
                     /\ flushing["caller"].todo = <<>> /\ ~flushing["caller"].committed
<1>0. /\ Typed /\ Closing /\ failures \in 0..MaxFailures /\ failures \in Nat
      /\ UNCHANGED <<publisherVars, writerVars, drops, caller, stop, flushes, failures>>
  BY EventBusAssumption DEF Inv, Typed, CallerTyped, othersThanWorker
<1>1. PublisherTyped' /\ WriterTyped' /\ CallerTyped' /\ Submitted' /\ Gap'
  BY <1>0, CoalescerFrame
<1>2. Closing'
  BY <1>0 DEF Closing, publisherVars, writerVars
<1>3. Clean' = Clean /\ accepted' = accepted
  BY <1>0 DEF Clean, publisherVars
<1>4. Clean => caller.pc \in {"idle", "join", "joined", "raised"}
  BY <1>0 DEF Clean, Closing, Typed, CallerTyped
<1>5. Clean => flushing["caller"].todo = <<>> /\ ~flushing["caller"].committed
  BY <1>0, <1>4 DEF Typed, RunsTyped, Flusher
<1> QED BY <1>0, <1>1, <1>2, <1>3, <1>4, <1>5

\* A step that changes nothing of what is counted.
LEMMA AccountedFrame ==
  ASSUME OneRunPerKey, Accounted, Live' = Live, run' = run, accepted' = accepted,
         \A r : Due(r)' = Due(r), \A k \in Key : Arrived(k)' = Arrived(k)
  PROVE  OneRunPerKey' /\ Accounted'
BY DEF OneRunPerKey, Accounted

LEMMA NothingCommitted ==
  ASSUME ~flushing["caller"].committed, ~flushing["telemetry"].committed
  PROVE  \A r : ~Committed(r) /\ Due(r) = run[r].pending
BY DEF Committed, Due, Flusher

LEMMA TakeObservationKeeps ==
  ASSUME Inv, TakeObservation
  PROVE  Inv'
<1>0. /\ Typed /\ Runs /\ QueueTyped /\ RunsTyped /\ worker \in WorkerType
      /\ telemetry \in Seq(Key) /\ Len(telemetry) \in Nat /\ Len(telemetry) <= TelemetryCapacity
      /\ TelemetryCapacity \in Nat
  BY LenProperties, EventBusAssumption DEF Inv, Typed, QueueTyped
<1>1. /\ worker.pc = "idle" /\ telemetry # <<>> /\ telemetry' = Tail(telemetry)
      /\ worker' = [pc |-> "holding", key |-> Head(telemetry)]
      /\ UNCHANGED <<open, run, flushing, stored, unfinished>> /\ UNCHANGED othersThanWorker
  BY DEF TakeObservation, coalescerVars
<1>2. /\ PublisherTyped' /\ WriterTyped' /\ CallerTyped' /\ Submitted' /\ Gap' /\ Closing'
      /\ Clean' = Clean /\ accepted' = accepted /\ caller' = caller
      /\ Clean => caller.pc \in {"idle", "join", "joined", "raised"}
  BY <1>1, WorkerFrame
<1>3. /\ Head(telemetry) \in Key /\ telemetry' \in Seq(Key)
      /\ Len(telemetry) \in Nat \ {0} /\ Len(telemetry') = Len(telemetry) - 1
  BY <1>0, <1>1, TailOf
<1>4. worker' \in WorkerType /\ worker'.pc = "holding" /\ worker'.key = Head(telemetry)
  BY <1>1, <1>3 DEF WorkerType
<1>5. QueueTyped'
  <2>1. unfinished = Len(telemetry) + 0
    BY <1>0, <1>1 DEF QueueTyped
  <2>2. unfinished' = Len(telemetry') + 1 /\ Len(telemetry') <= TelemetryCapacity
    BY <1>0, <1>1, <1>3, <2>1
  <2> QED BY <1>3, <1>4, <2>2 DEF QueueTyped
<1>6. RunsTyped'
  BY <1>0, <1>1, <1>2, <1>4 DEF RunsTyped
<1>7. ASSUME NEW k \in Key PROVE Arrived(k)' = Arrived(k)
  <2>1. Count(telemetry, k) = Count(telemetry', k) + (IF Head(telemetry) = k THEN 1 ELSE 0)
    BY <1>0, <1>1, CountTail
  <2>2. Count(telemetry', k) \in Nat /\ stored[k] \in Nat
    BY <1>0, <1>3, CountOf DEF RunsTyped
  <2>3. InHand(k) = 0 /\ InHand(k)' = (IF Head(telemetry) = k THEN 1 ELSE 0)
    BY <1>1, <1>4 DEF InHand
  <2> QED BY <1>1, <2>1, <2>2, <2>3 DEF Arrived
<1>8. Runs'
  <2>1. Live' = Live /\ \A r : Due(r)' = Due(r)
    BY <1>1 DEF Live, Due, Committed
  <2>2. Clean => OneRunPerKey' /\ Accounted'
    BY <1>0, <1>1, <1>2, <1>7, <2>1, AccountedFrame DEF Runs
  <2> QED BY <1>0, <1>2, <1>4, <2>2 DEF Runs
<1> QED BY <1>2, <1>5, <1>6, <1>8 DEF Inv, Typed

\* What add() does with the observation in hand: k is counted in the run r, by one more.
LEMMA Counted ==
  ASSUME OneRunPerKey, Accounted, accepted' = accepted, NEW key \in Key, NEW r \in Live',
         \A q \in Live' : q = r \/ (q \in Live /\ run'[q] = run[q] /\ Due(q)' = Due(q)),
         Live \subseteq Live', run'[r].key = key,
         \A q \in Live : q # r => run[q].key # key,
         r \in Live => run[r].key = key /\ Due(r)' = Due(r) + 1,
         r \notin Live => Due(r)' = 1,
         \A q \in Live : Due(q) \in Nat,
         \A k \in Key : /\ Arrived(k) \in Nat /\ Arrived(k)' \in Nat
                        /\ Arrived(k) = Arrived(k)' + (IF k = key THEN 1 ELSE 0)
  PROVE  OneRunPerKey' /\ Accounted'
<1>1. ASSUME NEW q \in Live', NEW p \in Live', run'[q].key = run'[p].key PROVE q = p
  BY <1>1 DEF OneRunPerKey
<1>2. ASSUME NEW k \in Key, NEW q \in Live', run'[q].key = k
      PROVE  accepted[k] = Arrived(k)' + Due(q)'
  <2>1. CASE q # r
    <3>1. q \in Live /\ run[q].key = k /\ Due(q)' = Due(q) /\ k # key
      BY <1>2, <2>1
    <3>2. accepted[k] = Arrived(k) + Due(q) /\ Arrived(k) = Arrived(k)' + 0
          /\ Arrived(k)' \in Nat
      BY <3>1 DEF Accounted
    <3> QED BY <3>1, <3>2
  <2>2. CASE q = r /\ r \in Live
    <3>1. accepted[k] = Arrived(k) + Due(r) /\ Arrived(k) = Arrived(k)' + 1
          /\ Arrived(k)' \in Nat /\ Due(r) \in Nat /\ Due(q)' = Due(r) + 1
      BY <1>2, <2>2 DEF Accounted
    <3> QED BY <3>1
  <2>3. CASE q = r /\ r \notin Live
    <3>1. \A p \in Live : run[p].key # k
      BY <1>2, <2>3
    <3>2. accepted[k] = Arrived(k) /\ Arrived(k) = Arrived(k)' + 1 /\ Due(q)' = 1
      BY <1>2, <2>3, <3>1 DEF Accounted
    <3> QED BY <3>2
  <2> QED BY <2>1, <2>2, <2>3
<1>3. ASSUME NEW k \in Key, \A q \in Live' : run'[q].key # k
      PROVE  accepted[k] = Arrived(k)'
  <2>1. k # key /\ \A q \in Live : run[q].key # k
    BY <1>3
  <2>2. accepted[k] = Arrived(k) /\ Arrived(k) = Arrived(k)' + 0 /\ Arrived(k)' \in Nat
    BY <2>1 DEF Accounted
  <2> QED BY <2>2
<1>4. OneRunPerKey'
  BY <1>1 DEF OneRunPerKey
<1>5. Accounted'
  BY <1>2, <1>3 DEF Accounted
<1> QED BY <1>4, <1>5

\* When add() is done the observation is no longer in hand.
LEMMA ObservationDone ==
  ASSUME QueueTyped, worker.pc \in {"holding", "evicting"}, unfinished' = unfinished - 1,
         worker' = WorkerIdle, telemetry' = telemetry
  PROVE  /\ QueueTyped' /\ worker'.pc = "idle" /\ worker.key \in Key
         /\ \A k \in Key : InHand(k) = (IF k = worker.key THEN 1 ELSE 0) /\ InHand(k)' = 0
<1>0. /\ telemetry \in Seq(Key) /\ Len(telemetry) \in Nat /\ worker \in WorkerType
      /\ Len(telemetry) <= TelemetryCapacity
  BY LenProperties DEF QueueTyped
<1>1. worker' \in WorkerType /\ worker'.pc = "idle" /\ worker.key \in Key
  BY <1>0 DEF WorkerType, WorkerIdle
<1>2. unfinished = Len(telemetry) + 1
  BY DEF QueueTyped
<1>3. unfinished' = Len(telemetry) + 0
  BY <1>0, <1>2
<1>4. QueueTyped'
  BY <1>0, <1>1, <1>3 DEF QueueTyped
<1> QED BY <1>1, <1>4 DEF InHand

\* Its count moves from the hands of the thread to a run.
LEMMA ArrivedLess ==
  ASSUME Typed, NEW key \in Key, UNCHANGED <<stored, telemetry>>,
         \A k \in Key : InHand(k) = (IF k = key THEN 1 ELSE 0) /\ InHand(k)' = 0
  PROVE  \A k \in Key : /\ Arrived(k) \in Nat /\ Arrived(k)' \in Nat
                        /\ Arrived(k) = Arrived(k)' + (IF k = key THEN 1 ELSE 0)
<1> SUFFICES ASSUME NEW k \in Key
             PROVE  /\ Arrived(k) \in Nat /\ Arrived(k)' \in Nat
                    /\ Arrived(k) = Arrived(k)' + (IF k = key THEN 1 ELSE 0)
  OBVIOUS
<1>1. stored[k] \in Nat /\ Count(telemetry, k) \in Nat
  BY LiveRuns
<1>2. Arrived(k) = stored[k] + Count(telemetry, k) + (IF k = key THEN 1 ELSE 0)
      /\ Arrived(k)' = stored[k] + Count(telemetry, k) + 0
  BY DEF Arrived
<1> QED BY <1>1, <1>2

LEMMA AddToRunKeeps ==
  ASSUME Inv, AddToRun
  PROVE  Inv'
<1>0. /\ Typed /\ Runs /\ QueueTyped /\ RunsTyped /\ worker \in WorkerType
      /\ open \in Seq(Run) /\ Len(open) \in Nat /\ DOMAIN open = 1..Len(open)
      /\ run \in [Run -> [key : Key, pending : Nat]]
      /\ flushing \in [Flusher -> [todo : Seq(Run), committed : BOOLEAN]]
  BY LenProperties DEF Inv, Typed, QueueTyped, RunsTyped
<1>1. PICK i \in 1..Len(open) :
        /\ run[open[i]].key = worker.key
        /\ run' = [run EXCEPT ![open[i]].pending = @ + 1]
        /\ open' = MovedToEnd(open, i)
  BY DEF AddToRun
<1> DEFINE r == open[i]
<1>2. /\ worker.pc = "holding" /\ unfinished' = unfinished - 1 /\ worker' = WorkerIdle
      /\ UNCHANGED <<flushing, stored, telemetry>> /\ UNCHANGED othersThanWorker
  BY DEF AddToRun
<1>3. /\ QueueTyped' /\ worker'.pc = "idle" /\ worker.key \in Key
      /\ \A k \in Key : InHand(k) = (IF k = worker.key THEN 1 ELSE 0) /\ InHand(k)' = 0
  BY <1>0, <1>2, ObservationDone
<1>4. /\ PublisherTyped' /\ WriterTyped' /\ CallerTyped' /\ Submitted' /\ Gap' /\ Closing'
      /\ Clean' = Clean /\ accepted' = accepted /\ caller' = caller
      /\ Clean => caller.pc \in {"idle", "join", "joined", "raised"}
      /\ Clean => flushing["caller"].todo = <<>> /\ ~flushing["caller"].committed
  BY <1>2, <1>3, WorkerFrame
<1>5. /\ open' \in Seq(Run) /\ Len(open') = Len(open) /\ Elements(open)' = Elements(open)
      /\ r \in Run /\ r \in Elements(open)
  <2>1. /\ open' \in Seq(Run) /\ Len(open') = Len(open) /\ Elements(open)' = Elements(open)
    BY <1>0, <1>1, MovedOf
  <2>2. r \in Elements(open)
    BY <1>0 DEF Elements
  <2>3. r \in Run
    BY <1>0, <2>2, ElementsOf
  <2> QED BY <2>1, <2>2, <2>3
<1>6. /\ run' \in [Run -> [key : Key, pending : Nat]]
      /\ run'[r].key = worker.key /\ run'[r].pending = run[r].pending + 1
      /\ \A q \in Run : q # r => run'[q] = run[q]
  <2>1. /\ r \in Run /\ run[r].key = worker.key /\ run[r].pending \in Nat
        /\ run' = [run EXCEPT ![r].pending = run[r].pending + 1]
    BY <1>0, <1>1, <1>5
  <2> HIDE DEF r
  <2>2. run[r].pending + 1 \in Nat
    BY <2>1
  <2> QED BY <1>0, <2>1, <2>2
<1>7. flushing["telemetry"].todo = <<>> /\ ~flushing["telemetry"].committed
  BY <1>0, <1>2 DEF RunsTyped, Flusher
<1>8. RunsTyped'
  BY <1>0, <1>2, <1>3, <1>4, <1>5, <1>6, <1>7 DEF RunsTyped
<1>9. ASSUME Clean PROVE OneRunPerKey' /\ Accounted'
  <2>1. \A q : ~Committed(q) /\ Due(q) = run[q].pending
    BY <1>4, <1>7, <1>9, NothingCommitted
  <2>2. \A q : Due(q)' = run'[q].pending
    BY <2>1, <1>2 DEF Due, Committed
  <2>3. Live' = Live /\ r \in Live /\ Live \subseteq Run
    BY <1>0, <1>2, <1>5, LiveRuns DEF Live
  <2>4. OneRunPerKey /\ Accounted
    BY <1>0, <1>9 DEF Runs
  <2>5. \A q \in Live' : q = r \/ (q \in Live /\ run'[q] = run[q] /\ Due(q)' = Due(q))
    BY <1>6, <2>1, <2>2, <2>3
  <2>6. \A q \in Live : q # r => run[q].key # worker.key
    BY <1>1, <2>3, <2>4 DEF OneRunPerKey
  <2>7. run[r].key = worker.key /\ Due(r) = run[r].pending
    BY <1>1, <2>1
  <2>8. \A q : q = r => Due(q)' = Due(r) + 1
    BY <1>6, <2>2, <2>7
  <2>9. \A q \in Live : Due(q) \in Nat
    BY <1>0, LiveRuns
  <2>10. \A k \in Key : /\ Arrived(k) \in Nat /\ Arrived(k)' \in Nat
                        /\ Arrived(k) = Arrived(k)' + (IF k = worker.key THEN 1 ELSE 0)
    BY <1>0, <1>2, <1>3, ArrivedLess
  <2>11. \A q \in Live' : q = r =>
           /\ run'[q].key = worker.key /\ q \in Live /\ run[q].key = worker.key
           /\ Due(q)' = Due(q) + 1
    BY <1>6, <2>3, <2>7, <2>8
  <2>12. r \in Live' /\ Live \subseteq Live' /\ worker.key \in Key /\ accepted' = accepted
    BY <1>3, <1>4, <2>3
  <2>13. PICK q \in Live' : q = r
    BY <2>12
  <2> HIDE DEF r
  <2>14. /\ \A p \in Live' : p = q \/ (p \in Live /\ run'[p] = run[p] /\ Due(p)' = Due(p))
         /\ \A p \in Live : p # q => run[p].key # worker.key
         /\ run'[q].key = worker.key /\ q \in Live /\ run[q].key = worker.key
         /\ Due(q)' = Due(q) + 1
    BY <2>5, <2>6, <2>11, <2>13
  <2> QED BY <2>4, <2>9, <2>10, <2>12, <2>14, Counted
<1>10. Runs'
  BY <1>3, <1>4, <1>9 DEF Runs
<1> QED BY <1>3, <1>4, <1>8, <1>10 DEF Inv, Typed

LEMMA EvictRunKeeps ==
  ASSUME Inv, EvictRun
  PROVE  Inv'
<1>0. /\ Typed /\ Runs /\ QueueTyped /\ RunsTyped /\ worker \in WorkerType
      /\ open \in Seq(Run) /\ Len(open) \in Nat /\ Len(open) <= MaxOpenRuns
      /\ MaxOpenRuns \in Nat \ {0}
      /\ flushing \in [Flusher -> [todo : Seq(Run), committed : BOOLEAN]]
  BY LenProperties, EventBusAssumption DEF Inv, Typed, QueueTyped, RunsTyped
<1>1. /\ worker.pc = "holding" /\ ~HasOpenRun(worker.key) /\ Len(open) >= MaxOpenRuns
      /\ open' = Tail(open) /\ worker' = [worker EXCEPT !.pc = "evicting"]
      /\ flushing' = [flushing EXCEPT !["telemetry"].todo = <<Head(open)>>]
      /\ UNCHANGED <<run, stored, telemetry, unfinished>> /\ UNCHANGED othersThanWorker
  BY DEF EvictRun, Flushing
<1>2. worker' \in WorkerType /\ worker'.pc = "evicting" /\ worker'.key = worker.key
  BY <1>0, <1>1 DEF WorkerType
<1>3. /\ PublisherTyped' /\ WriterTyped' /\ CallerTyped' /\ Submitted' /\ Gap' /\ Closing'
      /\ Clean' = Clean /\ accepted' = accepted /\ caller' = caller
      /\ Clean => caller.pc \in {"idle", "join", "joined", "raised"}
      /\ Clean => flushing["caller"].todo = <<>> /\ ~flushing["caller"].committed
  BY <1>1, <1>2, WorkerFrame
<1>4. QueueTyped'
  BY <1>0, <1>1, <1>2 DEF QueueTyped
<1>5. Len(open) # 0 /\ open # <<>>
  <2>1. Len(open) # 0
    BY <1>0, <1>1
  <2> QED BY <2>1, EmptySeq
<1>6. /\ Head(open) \in Run /\ open' \in Seq(Run) /\ Len(open') = Len(open) - 1
      /\ Elements(open) = {Head(open)} \cup Elements(open')
  BY <1>0, <1>1, <1>5, TailOf
<1>7. Len(open') < MaxOpenRuns /\ Len(open') <= MaxOpenRuns
  BY <1>0, <1>6
<1>8. flushing["telemetry"].todo = <<>> /\ ~flushing["telemetry"].committed
  BY <1>0, <1>1 DEF RunsTyped, Flusher
<1>9. /\ <<Head(open)>> \in Seq(Run) /\ <<Head(open)>> # <<>>
      /\ Elements(<<Head(open)>>) = {Head(open)} /\ Elements(<<>>) = {}
  <2>1. Elements(<<>>) = {}
    BY <1>0, ElementsOf
  <2> QED BY <1>6, <2>1, SingleOf
<1>10. /\ flushing' \in [Flusher -> [todo : Seq(Run), committed : BOOLEAN]]
       /\ flushing'["telemetry"].todo = <<Head(open)>> /\ ~flushing'["telemetry"].committed
       /\ flushing'["caller"] = flushing["caller"]
  BY <1>0, <1>1, <1>8, <1>9 DEF Flusher
<1>11. RunsTyped'
  BY <1>0, <1>1, <1>2, <1>3, <1>6, <1>7, <1>10 DEF RunsTyped, Flusher
<1>12. ~HasOpenRun(worker.key)'
  <2> SUFFICES ASSUME NEW j \in 1..Len(open'), run[open'[j]].key = worker.key PROVE FALSE
    BY <1>1, <1>2 DEF HasOpenRun
  <2>1. open'[j] \in Elements(open)
    <3>1. open'[j] \in Elements(open')
      BY <1>6, ElementsOf DEF Elements
    <3> QED BY <1>6, <3>1, Zenon
  <2> QED BY <1>0, <1>1, <2>1, LenProperties DEF HasOpenRun, Elements
<1>13. ASSUME Clean PROVE OneRunPerKey' /\ Accounted'
  <2>1. Live' = Live
    BY <1>6, <1>8, <1>9, <1>10 DEF Live
  <2>2. \A q : Due(q)' = Due(q)
    <3>1. \A q : ~Committed(q) /\ ~Committed(q)'
      BY <1>3, <1>8, <1>10, <1>13 DEF Committed, Flusher
    <3> QED BY <1>1, <3>1 DEF Due
  <2>3. \A k \in Key : Arrived(k)' = Arrived(k)
    BY <1>1, <1>2 DEF Arrived, InHand
  <2> QED BY <1>0, <1>1, <1>3, <1>13, <2>1, <2>2, <2>3, AccountedFrame DEF Runs
<1>14. Runs'
  BY <1>2, <1>3, <1>12, <1>13 DEF Runs
<1> QED BY <1>3, <1>4, <1>11, <1>14 DEF Inv, Typed

\* There is a run object that nobody holds.
LEMMA FreshRun ==
  ASSUME RunsTyped, Len(open) < MaxOpenRuns, flushing["telemetry"].todo = <<>>
  PROVE  \E r \in Run : Fresh(r)
<1> DEFINE s == flushing["caller"].todo
           Taken == Elements(open) \cup Elements(s)
<1>0. /\ open \in Seq(Run) /\ s \in Seq(Run) /\ <<>> \in Seq(Run) /\ Len(s) <= MaxOpenRuns
      /\ Len(open) \in Nat /\ Len(s) \in Nat /\ MaxOpenRuns \in Nat
  <2>1. open \in Seq(Run) /\ s \in Seq(Run) /\ <<>> \in Seq(Run) /\ Len(s) <= MaxOpenRuns
    BY EmptySeq DEF RunsTyped, Flusher
  <2> QED BY <2>1, LenProperties, EventBusAssumption
<1>1. /\ IsFiniteSet(Elements(open)) /\ Cardinality(Elements(open)) \in Nat
      /\ Cardinality(Elements(open)) <= Len(open)
      /\ IsFiniteSet(Elements(s)) /\ Cardinality(Elements(s)) \in Nat
      /\ Cardinality(Elements(s)) <= Len(s)
  BY <1>0, FewElements
<1>2. /\ IsFiniteSet(Taken) /\ Cardinality(Taken) \in Nat
      /\ Cardinality(Taken) <= Cardinality(Elements(open)) + Cardinality(Elements(s))
  <2> DEFINE both == Elements(open) \cap Elements(s)
  <2>1. /\ IsFiniteSet(Taken) /\ IsFiniteSet(both)
        /\ Cardinality(Taken) =
             Cardinality(Elements(open)) + Cardinality(Elements(s)) - Cardinality(both)
    BY <1>1, FS_Union, FS_Intersection
  <2>2. Cardinality(Taken) \in Nat /\ Cardinality(both) \in Nat
    BY <2>1, FS_CardinalityType
  <2> HIDE DEF both, Taken
  <2> QED BY <1>1, <2>1, <2>2
<1>3. IsFiniteSet(Run) /\ Cardinality(Run) = 2 * MaxOpenRuns
  <2>1. 2 * MaxOpenRuns \in Nat /\ 1 \in Int /\ 2 * MaxOpenRuns \in Int
    BY <1>0
  <2> QED BY <1>0, <2>1, FS_Interval DEF Run
<1>4. Cardinality(Taken) < Cardinality(Run)
  <2> HIDE DEF Taken
  <2> QED BY <1>0, <1>1, <1>2, <1>3
<1>5. PICK r \in Run : r \notin Taken
  <2>1. ASSUME Run \subseteq Taken PROVE FALSE
    <3>1. Cardinality(Run) <= Cardinality(Taken)
      BY <1>2, <2>1, FS_Subset
    <3> HIDE DEF Taken
    <3> QED BY <1>0, <1>2, <1>3, <1>4, <3>1
  <2> QED BY <2>1
<1>6. ~Contains(open, r) /\ ~Contains(s, r) /\ ~Contains(<<>>, r)
  <2>1. Contains(open, r) <=> r \in Elements(open)
    BY <1>0, ElementsOf
  <2>2. Contains(s, r) <=> r \in Elements(s)
    BY <1>0, ElementsOf
  <2>3. ~Contains(<<>>, r)
    BY <1>0, ElementsOf
  <2> QED BY <1>5, <2>1, <2>2, <2>3
<1> QED BY <1>6 DEF Fresh, Flusher

LEMMA OpenRunKeeps ==
  ASSUME Inv, OpenRun
  PROVE  Inv'
<1>0. /\ Typed /\ Runs /\ QueueTyped /\ RunsTyped /\ worker \in WorkerType
      /\ open \in Seq(Run) /\ Len(open) \in Nat /\ MaxOpenRuns \in Nat
      /\ run \in [Run -> [key : Key, pending : Nat]]
      /\ flushing \in [Flusher -> [todo : Seq(Run), committed : BOOLEAN]]
  BY LenProperties, EventBusAssumption DEF Inv, Typed, QueueTyped, RunsTyped
<1>1. /\ worker.pc \in {"holding", "evicting"}
      /\ ~HasOpenRun(worker.key) /\ Len(open) < MaxOpenRuns
      /\ flushing["telemetry"].todo = <<>> /\ ~flushing["telemetry"].committed
  <2>1. CASE worker.pc = "holding" /\ ~HasOpenRun(worker.key) /\ Len(open) < MaxOpenRuns
    BY <1>0, <2>1 DEF RunsTyped, Flusher
  <2>2. CASE worker.pc = "evicting" /\ Flushed("telemetry")
    BY <1>0, <2>2 DEF RunsTyped, Runs, Flusher, Flushed
  <2> QED BY <2>1, <2>2 DEF OpenRun
<1> DEFINE r == CHOOSE x \in Run : Fresh(x)
<1>2. /\ unfinished' = unfinished - 1 /\ worker' = WorkerIdle
      /\ run' = [run EXCEPT ![r] = [key |-> worker.key, pending |-> 1]]
      /\ open' = Append(open, r)
      /\ UNCHANGED <<flushing, stored, telemetry>> /\ UNCHANGED othersThanWorker
  BY DEF OpenRun
<1>3. /\ QueueTyped' /\ worker'.pc = "idle" /\ worker.key \in Key
      /\ \A k \in Key : InHand(k) = (IF k = worker.key THEN 1 ELSE 0) /\ InHand(k)' = 0
  BY <1>0, <1>1, <1>2, ObservationDone
<1>4. /\ PublisherTyped' /\ WriterTyped' /\ CallerTyped' /\ Submitted' /\ Gap' /\ Closing'
      /\ Clean' = Clean /\ accepted' = accepted /\ caller' = caller
      /\ Clean => caller.pc \in {"idle", "join", "joined", "raised"}
      /\ Clean => flushing["caller"].todo = <<>> /\ ~flushing["caller"].committed
  BY <1>1, <1>2, <1>3, WorkerFrame
<1>5. r \in Run /\ Fresh(r)
  BY <1>0, <1>1, FreshRun
<1>6. r \notin Live
  <2>1. /\ flushing["caller"].todo \in Seq(Run) /\ flushing["telemetry"].todo \in Seq(Run)
        /\ ~Contains(open, r) /\ ~Contains(flushing["caller"].todo, r)
        /\ ~Contains(flushing["telemetry"].todo, r)
    BY <1>0, <1>5 DEF Fresh, Flusher
  <2> HIDE DEF r
  <2> QED BY <1>0, <2>1, ElementsOf DEF Live
<1> HIDE DEF r
<1>7. /\ open' \in Seq(Run) /\ Len(open') = Len(open) + 1
      /\ Elements(open)' = Elements(open) \cup {r}
  BY <1>0, <1>2, <1>5, AppendOf
<1>8. /\ run' \in [Run -> [key : Key, pending : Nat]]
      /\ run'[r].key = worker.key /\ run'[r].pending = 1
      /\ \A q \in Run : q # r => run'[q] = run[q]
  BY <1>0, <1>2, <1>3, <1>5
<1>9. RunsTyped'
  <2>1. Len(open') <= MaxOpenRuns
    BY <1>0, <1>1, <1>7
  <2> QED BY <1>0, <1>1, <1>2, <1>3, <1>4, <1>7, <1>8, <2>1 DEF RunsTyped
<1>10. ASSUME Clean PROVE OneRunPerKey' /\ Accounted'
  <2>1. \A q : ~Committed(q) /\ Due(q) = run[q].pending
    BY <1>1, <1>4, <1>10, NothingCommitted
  <2>2. \A q : Due(q)' = run'[q].pending
    BY <2>1, <1>2 DEF Due, Committed
  <2>3. Elements(<<>>) = {}
    BY <1>0, ElementsOf
  <2>4. Live = Elements(open) /\ Live' = Live \cup {r} /\ Live \subseteq Run
    BY <1>0, <1>1, <1>2, <1>4, <1>7, <1>10, <2>3, LiveRuns DEF Live
  <2>5. OneRunPerKey /\ Accounted
    BY <1>0, <1>10 DEF Runs
  <2>6. \A q \in Live' : q = r \/ (q \in Live /\ run'[q] = run[q] /\ Due(q)' = Due(q))
    BY <1>8, <2>1, <2>2, <2>4
  <2>7. \A q \in Live : run[q].key # worker.key
    BY <1>0, <1>1, <2>4, LenProperties DEF HasOpenRun, Elements
  <2>8. \A q \in Live : Due(q) \in Nat
    BY <1>0, LiveRuns
  <2>9. \A k \in Key : /\ Arrived(k) \in Nat /\ Arrived(k)' \in Nat
                       /\ Arrived(k) = Arrived(k)' + (IF k = worker.key THEN 1 ELSE 0)
    BY <1>0, <1>2, <1>3, ArrivedLess
  <2>10. PICK q \in Live' : q = r
    BY <2>4
  <2>11. /\ \A p \in Live' : p = q \/ (p \in Live /\ run'[p] = run[p] /\ Due(p)' = Due(p))
         /\ \A p \in Live : p # q => run[p].key # worker.key
         /\ run'[q].key = worker.key /\ q \notin Live /\ Due(q)' = 1
    BY <1>6, <1>8, <2>2, <2>6, <2>7, <2>10
  <2> QED BY <1>3, <1>4, <2>4, <2>5, <2>8, <2>9, <2>11, Counted
<1>11. Runs'
  BY <1>3, <1>4, <1>10 DEF Runs
<1> QED BY <1>3, <1>4, <1>9, <1>11 DEF Inv, Typed

\* The flush interval is over: the telemetry thread flushes, comes back, or ends.
LEMMA IntervalKeeps ==
  ASSUME Inv, PeriodicFlush \/ PeriodicFlushEnds \/ WorkerEnds
  PROVE  Inv'
<1>0. /\ Typed /\ Runs /\ QueueTyped /\ RunsTyped /\ worker \in WorkerType
      /\ open \in Seq(Run)
      /\ flushing \in [Flusher -> [todo : Seq(Run), committed : BOOLEAN]]
  BY DEF Inv, Typed, QueueTyped, RunsTyped
<1>1. /\ worker.pc \in {"idle", "flushing"}
      /\ flushing["telemetry"].todo = <<>> /\ ~flushing["telemetry"].committed
      /\ worker' \in WorkerType
      /\ flushing' \in [Flusher -> [todo : Seq(Run), committed : BOOLEAN]]
      /\ flushing'["caller"] = flushing["caller"] /\ ~flushing'["telemetry"].committed
      /\ flushing'["telemetry"].todo \in {<<>>, open}
      /\ \/ worker'.pc = "flushing"
         \/ worker'.pc = "idle" /\ flushing'["telemetry"].todo = <<>>
         \/ /\ worker'.pc = "ended" /\ flushing'["telemetry"].todo = <<>>
            /\ stop.bus /\ telemetry = <<>>
      /\ UNCHANGED <<open, run, stored, telemetry, unfinished>> /\ UNCHANGED othersThanWorker
  <2>1. CASE PeriodicFlush
    BY <1>0, <2>1 DEF PeriodicFlush, Flushing, RunsTyped, WorkerType, Flusher
  <2>2. CASE PeriodicFlushEnds
    BY <1>0, <2>2
       DEF PeriodicFlushEnds, WorkerIdle, Flushed, RunsTyped, WorkerType, Flusher, coalescerVars
  <2>3. CASE WorkerEnds
    BY <1>0, <2>3 DEF WorkerEnds, RunsTyped, WorkerType, Flusher, coalescerVars
  <2> QED BY <2>1, <2>2, <2>3
<1>2. /\ PublisherTyped' /\ WriterTyped' /\ CallerTyped' /\ Submitted' /\ Gap' /\ Closing'
      /\ Clean' = Clean /\ accepted' = accepted /\ caller' = caller
      /\ Clean => caller.pc \in {"idle", "join", "joined", "raised"}
      /\ Clean => flushing["caller"].todo = <<>> /\ ~flushing["caller"].committed
  BY <1>1, WorkerFrame
<1>3. QueueTyped'
  BY <1>0, <1>1 DEF QueueTyped
<1>4. RunsTyped'
  BY <1>0, <1>1, <1>2 DEF RunsTyped, Flusher
<1>5. ASSUME Clean PROVE OneRunPerKey' /\ Accounted'
  <2>1. Elements(<<>>) = {}
    BY <1>0, ElementsOf
  <2>2. Live' = Live
    BY <1>1, <2>1 DEF Live
  <2>3. \A q : Due(q)' = Due(q)
    <3>1. \A q : ~Committed(q) /\ ~Committed(q)'
      BY <1>1, <1>2, <1>5 DEF Committed, Flusher
    <3> QED BY <1>1, <3>1 DEF Due
  <2>4. \A k \in Key : Arrived(k)' = Arrived(k)
    BY <1>1 DEF Arrived, InHand
  <2> QED BY <1>0, <1>1, <1>2, <1>5, <2>2, <2>3, <2>4, AccountedFrame DEF Runs
<1>6. Elements(flushing'["telemetry"].todo) \subseteq Elements(open')
  BY <1>0, <1>1, ElementsOf
<1>7. Runs'
  BY <1>1, <1>2, <1>5, <1>6 DEF Runs
<1> QED BY <1>2, <1>3, <1>4, <1>7 DEF Inv, Typed

-----------------------------------------------------------------------------
(***************************************************************************)
(* flush() and close().                                                    *)
(***************************************************************************)

LEMMA CallerFrame ==
  ASSUME Inv, UNCHANGED othersThanCaller, UNCHANGED <<writerVars, drops>>,
         flushes' \in 0..MaxFlushes, flushes' >= flushes,
         failures' \in 0..MaxFailures, failures' >= failures
  PROVE  /\ PublisherTyped' /\ QueueTyped' /\ WriterTyped' /\ Submitted'
         /\ Clean' => Clean
         /\ Held' = Held /\ Summaries(log \cup Held)' = Summaries(log \cup Held)
         /\ Summaries(Held)' = Summaries(Held)
<1>0. /\ Typed /\ Submitted /\ failures \in Nat /\ flushes \in Nat
      /\ failures' \in Nat /\ flushes' \in Nat
  BY EventBusAssumption DEF Inv, Typed, CallerTyped
<1>1. /\ UNCHANGED <<publisherVars, telemetry, unfinished, worker, run, stored>>
      /\ UNCHANGED <<writeQueue, writer, log, errors>>
  BY DEF othersThanCaller, writerVars
<1>2. Known' = Known /\ Held' = Held
  BY <1>1 DEF Known, Held
<1>3. PublisherTyped' /\ QueueTyped' /\ WriterTyped'
  BY <1>0, <1>1, PublisherFrame, QueueFrame, WriterFrame DEF Typed
<1>4. (failures' = 0 => failures = 0) /\ (flushes' = 0 => flushes = 0)
  BY <1>0
<1>5. Submitted'
  BY <1>0, <1>1, <1>2, <1>4, SubmittedFrame DEF Typed, publisherVars
<1> QED BY <1>1, <1>2, <1>3, <1>4, <1>5 DEF Clean, Summaries

\* A clean call is the service's close().
LEMMA CleanCaller ==
  ASSUME Inv
  PROVE  /\ Typed /\ Closing /\ Gap /\ Runs /\ RunsTyped /\ CallerTyped
         /\ failures \in 0..MaxFailures /\ flushes \in 0..MaxFlushes
         /\ MaxFailures \in Nat /\ MaxFlushes \in Nat
         /\ caller.op \in {"none", "flush", "close"}
         /\ caller.pc \in {"idle", "join", "joined", "flushing", "summary", "awaiting",
                           "drain", "drained", "closed", "raised"}
         /\ Clean => caller.op # "flush"
         /\ caller = [op |-> caller.op, pc |-> caller.pc]
<1>1. Typed /\ Closing /\ Gap /\ Runs /\ RunsTyped /\ CallerTyped
  BY DEF Inv, Typed
<1>2. /\ failures \in 0..MaxFailures /\ flushes \in 0..MaxFlushes
      /\ MaxFailures \in Nat /\ MaxFlushes \in Nat
      /\ caller.op \in {"none", "flush", "close"}
      /\ caller.pc \in {"idle", "join", "joined", "flushing", "summary", "awaiting",
                        "drain", "drained", "closed", "raised"}
      /\ caller = [op |-> caller.op, pc |-> caller.pc]
  BY <1>1, EventBusAssumption DEF CallerTyped
<1>3. caller.op = "flush" => flushes > 0
  BY <1>1 DEF Closing
<1>4. Clean => caller.op # "flush"
  BY <1>2, <1>3 DEF Clean
<1> QED BY <1>1, <1>2, <1>4

LEMMA CallFlushKeeps ==
  ASSUME Inv, CallFlush
  PROVE  Inv'
<1>0. /\ Typed /\ Closing /\ Gap /\ Runs /\ RunsTyped /\ CallerTyped
      /\ failures \in 0..MaxFailures /\ flushes \in 0..MaxFlushes
      /\ MaxFailures \in Nat /\ MaxFlushes \in Nat
  BY CleanCaller
<1>1. /\ caller.pc = "idle" /\ flushes < MaxFlushes /\ flushes' = flushes + 1
      /\ caller' = [op |-> "flush", pc |-> "join"]
      /\ UNCHANGED othersThanCaller
      /\ UNCHANGED <<writerVars, open, flushing, drops, stop, failures>>
      /\ UNCHANGED <<publisherVars, telemetry, unfinished, worker, run, stored>>
  BY DEF CallFlush, At, othersThanCaller
<1>2. flushes' \in 0..MaxFlushes /\ flushes' >= flushes /\ flushes' > 0
      /\ failures' \in 0..MaxFailures /\ failures' >= failures /\ ~Clean'
  BY <1>0, <1>1 DEF Clean
<1>3. PublisherTyped' /\ QueueTyped' /\ WriterTyped' /\ Submitted'
  BY <1>1, <1>2, CallerFrame
<1>4. RunsTyped'
  BY <1>0, <1>1, RunsTypedFrame DEF RunsTyped, coalescerVars
<1>5. CallerTyped'
  BY <1>0, <1>1, <1>2 DEF CallerTyped
<1>6. Closing'
  BY <1>0, <1>1, <1>2 DEF Closing, publisherVars, writerVars
<1>7. Gap' /\ Runs'
  BY <1>0, <1>1, <1>2, RunsFrame DEF Gap, publisherVars
<1> QED BY <1>3, <1>4, <1>5, <1>6, <1>7 DEF Inv, Typed

LEMMA CallCloseKeeps ==
  ASSUME Inv, CallClose
  PROVE  Inv'
<1>0. /\ Typed /\ Closing /\ Gap /\ Runs /\ RunsTyped /\ CallerTyped
      /\ failures \in 0..MaxFailures /\ flushes \in 0..MaxFlushes
      /\ MaxFailures \in Nat /\ MaxFlushes \in Nat
  BY CleanCaller
<1>1. /\ caller.pc = "idle" /\ publisher.pc = "done"
      /\ caller' = [op |-> "close", pc |-> "join"]
      /\ UNCHANGED othersThanCaller
      /\ UNCHANGED <<writerVars, open, flushing, drops, stop, flushes, failures>>
      /\ UNCHANGED <<publisherVars, telemetry, unfinished, worker, run, stored>>
  BY DEF CallClose, At, othersThanCaller
<1>2. flushes' \in 0..MaxFlushes /\ flushes' >= flushes
      /\ failures' \in 0..MaxFailures /\ failures' >= failures /\ Clean' = Clean
  BY <1>0, <1>1 DEF Clean
<1>3. /\ PublisherTyped' /\ QueueTyped' /\ WriterTyped' /\ Submitted'
      /\ Summaries(log \cup Held)' = Summaries(log \cup Held)
  BY <1>1, <1>2, CallerFrame
<1>4. RunsTyped'
  BY <1>0, <1>1, RunsTypedFrame DEF RunsTyped, coalescerVars
<1>5. CallerTyped'
  BY <1>0, <1>1, <1>2 DEF CallerTyped
<1>6. Closing'
  BY <1>0, <1>1, <1>2 DEF Closing, publisherVars, writerVars
<1>7. Gap'
  BY <1>0, <1>1, <1>2, <1>3 DEF Gap, publisherVars
<1>8. Runs'
  BY <1>0, <1>1, <1>2, RunsFrame DEF publisherVars
<1> QED BY <1>3, <1>4, <1>5, <1>6, <1>7, <1>8 DEF Inv, Typed

\* The caller starts its own flush of the open runs.
LEMMA FlushStarts ==
  ASSUME Inv, caller.pc \in {"join", "joined"}, UNCHANGED othersThanCaller, open' = open,
         caller' = [caller EXCEPT !.pc = "flushing"],
         flushing' = [flushing EXCEPT !["caller"].todo = open],
         Clean' => Clean /\ worker.pc \in {"ended", "dead"}
  PROVE  RunsTyped' /\ Runs'
<1>0. /\ RunsTyped /\ Runs /\ open \in Seq(Run) /\ caller'.pc = "flushing"
      /\ flushing \in [Flusher -> [todo : Seq(Run), committed : BOOLEAN]]
  BY CleanCaller DEF RunsTyped
<1>1. UNCHANGED <<publisherVars, telemetry, worker, run, stored>>
  BY DEF othersThanCaller
<1>2. flushing["caller"].todo = <<>> /\ ~flushing["caller"].committed
  BY <1>0 DEF RunsTyped, Flusher
<1>3. /\ flushing' \in [Flusher -> [todo : Seq(Run), committed : BOOLEAN]]
      /\ flushing'["telemetry"] = flushing["telemetry"]
      /\ flushing'["caller"].todo = open /\ ~flushing'["caller"].committed
  BY <1>0, <1>2 DEF Flusher
<1>4. RunsTyped'
  BY <1>0, <1>1, <1>3 DEF RunsTyped, Flusher
<1>5. ASSUME Clean' PROVE OneRunPerKey' /\ Accounted'
  <2>1. Elements(<<>>) = {}
    BY <1>0, ElementsOf
  <2>2. Live' = Live
    BY <1>2, <1>3, <2>1 DEF Live
  <2>3. flushing["telemetry"].todo = <<>> /\ ~flushing["telemetry"].committed
    BY <1>0, <1>5 DEF RunsTyped, Flusher
  <2>4. \A r : Due(r)' = Due(r)
    <3>1. \A r : ~Committed(r) /\ ~Committed(r)'
      BY <1>2, <1>3, <2>3 DEF Committed, Flusher
    <3> QED BY <1>1, <3>1 DEF Due
  <2>5. \A k \in Key : Arrived(k)' = Arrived(k)
    BY <1>1 DEF Arrived, InHand
  <2> QED BY <1>0, <1>1, <1>5, <2>2, <2>4, <2>5, AccountedFrame DEF Runs, publisherVars
<1>6. HasOpenRun(worker.key)' = HasOpenRun(worker.key)
  BY <1>1 DEF HasOpenRun
<1>7. Runs'
  BY <1>0, <1>1, <1>3, <1>5, <1>6 DEF Runs
<1> QED BY <1>4, <1>7

LEMMA JoinQueueKeeps ==
  ASSUME Inv, JoinQueue
  PROVE  Inv'
<1>0. /\ Typed /\ Closing /\ Gap /\ Runs /\ RunsTyped /\ CallerTyped
      /\ failures \in 0..MaxFailures /\ flushes \in 0..MaxFlushes
      /\ MaxFailures \in Nat /\ MaxFlushes \in Nat /\ (Clean => caller.op # "flush")
  BY CleanCaller
<1>1. /\ caller.pc = "join"
      /\ UNCHANGED othersThanCaller
      /\ UNCHANGED <<writerVars, open, drops, flushes, failures>>
      /\ UNCHANGED <<publisherVars, telemetry, unfinished, worker, run, stored>>
  BY DEF JoinQueue, At, othersThanCaller
<1>2. flushes' \in 0..MaxFlushes /\ flushes' >= flushes
      /\ failures' \in 0..MaxFailures /\ failures' >= failures /\ Clean' = Clean
  BY <1>0, <1>1 DEF Clean
<1>3. /\ PublisherTyped' /\ QueueTyped' /\ WriterTyped' /\ Submitted'
      /\ Summaries(log \cup Held)' = Summaries(log \cup Held)
  BY <1>1, <1>2, CallerFrame
<1>4. CASE /\ caller.op = "flush" /\ caller' = [caller EXCEPT !.pc = "flushing"]
           /\ flushing' = [flushing EXCEPT !["caller"].todo = open] /\ stop' = stop
  <2>0. ~Clean /\ caller'.op = "flush" /\ caller'.pc = "flushing"
    BY <1>0, <1>4 DEF CallerTyped
  <2>1. RunsTyped' /\ Runs'
    BY <1>1, <1>2, <1>4, <2>0, FlushStarts
  <2>2. CallerTyped'
    BY <1>0, <1>1, <1>2, <1>4 DEF CallerTyped
  <2>3. Closing'
    BY <1>0, <1>1, <1>2, <1>4, <2>0 DEF Closing, publisherVars, writerVars
  <2>4. Gap'
    BY <1>2, <2>0 DEF Gap
  <2> QED BY <1>3, <2>1, <2>2, <2>3, <2>4 DEF Inv, Typed
<1>5. CASE /\ caller.op = "close" /\ caller' = [caller EXCEPT !.pc = "joined"]
           /\ stop' = [stop EXCEPT !.bus = TRUE] /\ flushing' = flushing
  <2>a. ~stop.writer /\ stop.writer = FALSE
    BY <1>0, <1>1 DEF Closing, CallerTyped
  <2>0. caller'.op = "close" /\ caller'.pc = "joined" /\ stop'.bus /\ ~stop'.writer
    BY <1>0, <1>5, <2>a DEF CallerTyped
  <2>1. RunsTyped'
    BY <1>0, <1>1, <1>5, <2>0, RunsTypedFrame DEF RunsTyped, coalescerVars
  <2>2. CallerTyped'
    BY <1>0, <1>1, <1>2, <1>5 DEF CallerTyped
  <2>3. Closing'
    <3>1. worker.pc \notin {"ended"}
      BY <1>0, <1>1 DEF Closing
    <3>2. UNCHANGED <<worker, writer, publisher, failures, flushes>>
      BY <1>1 DEF publisherVars, writerVars
    <3>3. writer.pc # "ended" /\ publisher.pc = "done" /\ (worker.pc = "dead" => failures > 0)
      BY <1>0, <1>5, <2>a DEF Closing
    <3> QED BY <2>0, <3>1, <3>2, <3>3 DEF Closing
  <2>4. Gap'
    BY <1>0, <1>1, <1>2, <1>3, <2>0 DEF Gap, publisherVars
  <2>5. Runs'
    BY <1>0, <1>1, <1>2, <1>5, <2>0, RunsFrame DEF publisherVars
  <2> QED BY <1>3, <2>1, <2>2, <2>3, <2>4, <2>5 DEF Inv, Typed
<1> QED BY <1>4, <1>5 DEF JoinQueue, Goto, Flushing

LEMMA JoinWorkerKeeps ==
  ASSUME Inv, JoinWorker
  PROVE  Inv'
<1>0. /\ Typed /\ Closing /\ Gap /\ Runs /\ RunsTyped /\ CallerTyped
      /\ failures \in 0..MaxFailures /\ flushes \in 0..MaxFlushes
      /\ MaxFailures \in Nat /\ MaxFlushes \in Nat
  BY CleanCaller
<1>1. /\ caller.pc = "joined" /\ worker.pc \in {"ended", "dead"}
      /\ caller' = [caller EXCEPT !.pc = "flushing"]
      /\ flushing' = [flushing EXCEPT !["caller"].todo = open]
      /\ UNCHANGED othersThanCaller
      /\ UNCHANGED <<writerVars, open, drops, stop, flushes, failures>>
      /\ UNCHANGED <<publisherVars, telemetry, unfinished, worker, run, stored>>
  BY DEF JoinWorker, At, Goto, Flushing, othersThanCaller
<1>2. flushes' \in 0..MaxFlushes /\ flushes' >= flushes
      /\ failures' \in 0..MaxFailures /\ failures' >= failures /\ Clean' = Clean
      /\ caller'.op = "close" /\ caller.op = "close" /\ caller'.pc = "flushing"
  BY <1>0, <1>1 DEF Clean, CallerTyped, Closing
<1>3. /\ PublisherTyped' /\ QueueTyped' /\ WriterTyped' /\ Submitted'
      /\ Summaries(log \cup Held)' = Summaries(log \cup Held)
  BY <1>1, <1>2, CallerFrame
<1>4. RunsTyped' /\ Runs'
  BY <1>1, <1>2, FlushStarts
<1>5. CallerTyped'
  BY <1>0, <1>1, <1>2 DEF CallerTyped
<1>6. Closing'
  BY <1>0, <1>1, <1>2 DEF Closing, publisherVars, writerVars
<1>7. Gap'
  BY <1>0, <1>1, <1>2, <1>3 DEF Gap, publisherVars
<1> QED BY <1>3, <1>4, <1>5, <1>6, <1>7 DEF Inv, Typed

LEMMA JoinTimesOutKeeps ==
  ASSUME Inv, JoinTimesOut
  PROVE  Inv'
<1>0. /\ Typed /\ Closing /\ Gap /\ Runs /\ RunsTyped /\ CallerTyped
      /\ failures \in 0..MaxFailures /\ flushes \in 0..MaxFlushes
      /\ MaxFailures \in Nat /\ MaxFlushes \in Nat
  BY CleanCaller
<1>1. /\ caller.pc \in {"joined", "drained"}
      /\ failures < MaxFailures /\ failures' = failures + 1
      /\ caller' = [caller EXCEPT !.pc = "raised"]
      /\ UNCHANGED othersThanCaller
      /\ UNCHANGED <<writerVars, open, flushing, drops, stop, flushes>>
      /\ UNCHANGED <<publisherVars, telemetry, unfinished, worker, run, stored>>
  BY DEF JoinTimesOut, At, Goto, Fails, othersThanCaller
<1>2. flushes' \in 0..MaxFlushes /\ flushes' >= flushes
      /\ failures' \in 0..MaxFailures /\ failures' >= failures /\ ~Clean' /\ failures' > 0
  BY <1>0, <1>1 DEF Clean
<1>3. PublisherTyped' /\ QueueTyped' /\ WriterTyped' /\ Submitted'
  BY <1>1, <1>2, CallerFrame
<1>4. caller.op = "close" /\ caller'.op = "close" /\ caller'.pc = "raised"
  BY <1>0, <1>1 DEF Closing, CallerTyped
<1>5. RunsTyped'
  BY <1>0, <1>1, <1>4, RunsTypedFrame DEF RunsTyped, coalescerVars
<1>6. CallerTyped'
  BY <1>0, <1>1, <1>2 DEF CallerTyped
<1>7. Closing'
  BY <1>0, <1>1, <1>2, <1>4 DEF Closing, publisherVars, writerVars
<1>8. Gap' /\ Runs'
  BY <1>0, <1>1, <1>2, RunsFrame DEF Gap, publisherVars
<1> QED BY <1>3, <1>5, <1>6, <1>7, <1>8 DEF Inv, Typed

\* What close() forgets with the open runs has been stored.
LEMMA CoalescerFlushedKeeps ==
  ASSUME Inv, CoalescerFlushed
  PROVE  Inv'
<1>0. /\ Typed /\ Closing /\ Gap /\ Runs /\ RunsTyped /\ CallerTyped
      /\ failures \in 0..MaxFailures /\ flushes \in 0..MaxFlushes
      /\ MaxFailures \in Nat /\ MaxFlushes \in Nat
      /\ caller.op \in {"none", "flush", "close"} /\ (Clean => caller.op # "flush")
  BY CleanCaller
<1>1. /\ caller.pc = "flushing" /\ flushing["caller"].todo = <<>>
      /\ open' = IF caller.op = "close" THEN <<>> ELSE open
      /\ caller' = [caller EXCEPT !.pc = "summary"]
      /\ UNCHANGED othersThanCaller
      /\ UNCHANGED <<writerVars, flushing, drops, stop, flushes, failures>>
      /\ UNCHANGED <<publisherVars, telemetry, unfinished, worker, run, stored>>
  BY DEF CoalescerFlushed, At, Goto, Flushed, othersThanCaller
<1>2. flushes' \in 0..MaxFlushes /\ flushes' >= flushes
      /\ failures' \in 0..MaxFailures /\ failures' >= failures /\ Clean' = Clean
      /\ caller'.op = caller.op /\ caller'.pc = "summary" /\ caller.op # "none"
  BY <1>0, <1>1 DEF Clean, CallerTyped, Closing
<1>3. /\ PublisherTyped' /\ QueueTyped' /\ WriterTyped' /\ Submitted'
      /\ Summaries(log \cup Held)' = Summaries(log \cup Held)
  BY <1>1, <1>2, CallerFrame
<1>4. <<>> \in Seq(Run) /\ Len(<<>>) = 0 /\ MaxOpenRuns \in Nat \ {0}
  BY EventBusAssumption, EmptySeq
<1>5. RunsTyped'
  <2>1. open' \in Seq(Run) /\ Len(open') <= MaxOpenRuns
        /\ (worker.pc = "evicting" => Len(open') < MaxOpenRuns)
    BY <1>0, <1>1, <1>4 DEF RunsTyped
  <2> QED BY <1>0, <1>1, <2>1 DEF RunsTyped
<1>6. CallerTyped'
  BY <1>0, <1>1, <1>2 DEF CallerTyped
<1>7. Closing'
  BY <1>0, <1>1, <1>2 DEF Closing, publisherVars, writerVars
<1>8. Gap'
  BY <1>0, <1>1, <1>2, <1>3 DEF Gap, publisherVars
<1>9. ASSUME Clean
      PROVE  open' = <<>> /\ worker.pc # "flushing" /\ OneRunPerKey' /\ Accounted'
  <2>1. open' = <<>> /\ caller.op = "close"
    BY <1>0, <1>1, <1>2, <1>9
  <2>2. /\ flushing["telemetry"].todo = <<>> /\ Elements(<<>>) = {}
        /\ worker.pc # "flushing"
    <3>1. worker.pc \in {"ended", "dead"}
      BY <1>0, <1>1, <2>1 DEF Closing
    <3> QED BY <1>0, <1>4, <3>1, ElementsOf DEF RunsTyped
  <2>3. Live = Elements(open) /\ Live' = {}
    BY <1>1, <2>1, <2>2 DEF Live
  <2>4. \A r \in Live : Due(r) = 0
    BY <1>0, <1>1, <1>9, <2>2, <2>3 DEF Runs, Due
  <2>5. \A k \in Key : Arrived(k)' = Arrived(k) /\ Arrived(k) \in Nat
    BY <1>0, <1>1, LiveRuns DEF Arrived, InHand
  <2>6. ASSUME NEW k \in Key PROVE accepted[k] = Arrived(k)
    <3>1. CASE \A r \in Live : run[r].key # k
      BY <1>0, <1>9, <3>1 DEF Runs, Accounted
    <3>2. CASE \E r \in Live : run[r].key = k
      <4>1. PICK r \in Live : run[r].key = k
        BY <3>2
      <4>2. accepted[k] = Arrived(k) + Due(r)
        BY <1>0, <1>9, <4>1 DEF Runs, Accounted
      <4>3. accepted[k] = Arrived(k) + 0
        BY <2>4, <4>2
      <4> QED BY <2>5, <4>3
    <3> QED BY <3>1, <3>2
  <2> QED BY <1>1, <2>1, <2>2, <2>3, <2>5, <2>6 DEF OneRunPerKey, Accounted, publisherVars
<1>10. Runs'
  <2>1. HasOpenRun(worker.key)' => HasOpenRun(worker.key)
    BY <1>1, <1>4 DEF HasOpenRun
  <2> QED BY <1>0, <1>1, <1>2, <1>9, <2>1 DEF Runs
<1> QED BY <1>3, <1>5, <1>6, <1>7, <1>8, <1>10 DEF Inv, Typed

LEMMA EmitDropSummaryKeeps ==
  ASSUME Inv, EmitDropSummary
  PROVE  Inv'
<1>0. /\ Typed /\ Closing /\ Gap /\ Runs /\ RunsTyped /\ CallerTyped /\ Submitted
      /\ WriterTyped /\ PublisherTyped
      /\ failures \in 0..MaxFailures /\ flushes \in 0..MaxFlushes
      /\ MaxFailures \in Nat /\ MaxFlushes \in Nat
  BY CleanCaller DEF Inv, Typed
<1> DEFINE e == <<"summary", drops>>
<1>1. /\ caller.pc = "summary" /\ drops' = 0
      /\ \/ /\ drops = 0 /\ caller' = [caller EXCEPT !.pc = "drain"]
            /\ UNCHANGED <<writerVars, failures>>
         \/ drops > 0 /\ Submit(e) /\ caller' = [caller EXCEPT !.pc = "awaiting"]
      /\ UNCHANGED <<publisherVars, telemetry, unfinished, worker, run, stored>>
      /\ UNCHANGED <<open, flushing, stop, flushes>>
  BY DEF EmitDropSummary, At, Goto, othersThanCaller
<1>2. drops \in Nat /\ (drops > 0 => drops \in 1..MaxPublish)
  <2>1. /\ drops \in Nat /\ drops <= dropped /\ dropped \in Nat /\ published \in 0..MaxPublish
        /\ dropped + (IF publisher.pc = "put" THEN 1 ELSE 0) <= published
    BY <1>0 DEF PublisherTyped
  <2>2. dropped <= published /\ MaxPublish \in Nat
    BY <2>1, EventBusAssumption
  <2> QED BY <2>1, <2>2
<1>3. /\ WriterTyped' /\ failures' \in 0..MaxFailures /\ writer' = writer
      /\ writeQueue # <<>> => writeQueue' # <<>>
      /\ \A f \in Known : f \in Known'
      /\ failures' = 0 => failures = 0 /\ errors' = errors
      /\ caller'.op = caller.op
      /\ \/ caller'.pc = "drain" /\ drops = 0 /\ log' = log /\ Held' = Held
         \/ /\ caller'.pc = "awaiting" /\ drops > 0
            /\ failures' = 0 /\ Alone(e) => (log \cup Held)' = log \cup Held \cup {e}
  <2>1. CASE drops = 0 /\ caller' = [caller EXCEPT !.pc = "drain"]
             /\ UNCHANGED <<writerVars, failures>>
    BY <1>0, <2>1, WriterFrame DEF writerVars, Known, Held, CallerTyped
  <2>2. CASE drops > 0 /\ Submit(e) /\ caller' = [caller EXCEPT !.pc = "awaiting"]
    <3>1. e \in Exact /\ e # NoItem
      BY <1>2, <2>2, NotNoItem DEF Exact
    <3> QED BY <1>0, <2>2, <3>1, SubmitOf DEF CallerTyped
  <2> QED BY <1>1, <2>1, <2>2
<1>4. Typed'
  <2>1. PublisherTyped'
    <3>1. 0 \in Nat /\ (dropped \in Nat => 0 <= dropped)
      OBVIOUS
    <3> QED BY <1>0, <1>1, <3>1 DEF PublisherTyped, publisherVars
  <2>2. QueueTyped'
    BY <1>0, <1>1, QueueFrame DEF Typed
  <2>3. RunsTyped'
    BY <1>0, <1>1, RunsTypedFrame DEF RunsTyped, coalescerVars
  <2>4. CallerTyped'
    BY <1>0, <1>1, <1>3 DEF CallerTyped
  <2> QED BY <1>3, <2>1, <2>2, <2>3, <2>4 DEF Typed
<1>5. Closing'
  <2>1. caller'.pc \in {"drain", "awaiting"} /\ caller.op # "none"
    BY <1>0, <1>1, <1>3 DEF Closing, CallerTyped
  <2>2. failures > 0 => failures' > 0
    BY <1>0, <1>3
  <2>3. ~stop.writer /\ writer.pc # "ended"
    BY <1>0, <1>1 DEF Closing
  <2> QED BY <1>0, <1>1, <1>3, <2>1, <2>2, <2>3 DEF Closing, publisherVars
<1>6. Submitted'
  BY <1>0, <1>1, <1>3, SubmittedFrame DEF publisherVars
<1>7. Gap'
  <2> SUFFICES ASSUME Clean' PROVE Gap'
    BY DEF Gap
  <2>1. Clean /\ failures' = 0 /\ drops = dropped /\ Summaries(log \cup Held) = {}
        /\ dropped' = dropped
    BY <1>0, <1>1, <1>3 DEF Clean, Gap, publisherVars
  <2>2. CASE caller'.pc = "drain" /\ drops = 0 /\ log' = log /\ Held' = Held
    <3>1. Summaries(log \cup Held)' = {} /\ Summaries(Held)' = {}
      BY <2>1, <2>2 DEF Summaries
    <3> QED BY <2>1, <2>2, <3>1 DEF Gap
  <2>3. CASE /\ caller'.pc = "awaiting" /\ drops > 0
             /\ failures' = 0 /\ Alone(e) => (log \cup Held)' = log \cup Held \cup {e}
    <3>1. Alone(e)
      BY <2>1 DEF Alone, Summaries
    <3>2. Summaries(log \cup Held)' = {e}
      BY <2>1, <2>3, <3>1 DEF Summaries
    <3>3. dropped' # 0 /\ e = <<"summary", dropped'>>
      BY <1>2, <2>1, <2>3
    <3> QED BY <2>3, <3>2, <3>3 DEF Gap
  <2> QED BY <1>3, <2>2, <2>3
<1>8. Runs'
  <2>1. caller'.pc \in {"drain", "awaiting"} /\ (Clean' => Clean)
    BY <1>1, <1>3 DEF Clean
  <2> QED BY <1>0, <1>1, <2>1, RunsFrame DEF publisherVars
<1> QED BY <1>4, <1>5, <1>6, <1>7, <1>8 DEF Inv

LEMMA SummaryArrivesKeeps ==
  ASSUME Inv, SummaryArrives
  PROVE  Inv'
<1>0. /\ Typed /\ Closing /\ Gap /\ Runs /\ RunsTyped /\ CallerTyped /\ Submitted
      /\ writeQueue \in Seq(Exact)
      /\ failures \in 0..MaxFailures /\ flushes \in 0..MaxFlushes
      /\ MaxFailures \in Nat /\ MaxFlushes \in Nat
  BY CleanCaller DEF Inv, Typed, WriterTyped
<1>1. /\ caller.pc = "awaiting" /\ ~SummaryPending
      /\ caller' = [caller EXCEPT !.pc = IF SummaryFailed THEN "raised" ELSE "drain"]
      /\ UNCHANGED othersThanCaller
      /\ UNCHANGED <<writerVars, open, flushing, drops, stop, flushes, failures>>
      /\ UNCHANGED <<publisherVars, telemetry, unfinished, worker, run, stored>>
  BY DEF SummaryArrives, At, Goto, othersThanCaller
<1>2. flushes' \in 0..MaxFlushes /\ flushes' >= flushes
      /\ failures' \in 0..MaxFailures /\ failures' >= failures /\ Clean' = Clean
      /\ caller'.op = caller.op /\ caller.op # "none"
      /\ caller'.pc = (IF SummaryFailed THEN "raised" ELSE "drain")
  BY <1>0, <1>1 DEF Clean, CallerTyped, Closing
<1>3. /\ PublisherTyped' /\ QueueTyped' /\ WriterTyped' /\ Submitted'
      /\ Summaries(log \cup Held)' = Summaries(log \cup Held)
      /\ Summaries(Held)' = Summaries(Held)
  BY <1>1, <1>2, CallerFrame
<1>4. RunsTyped'
  BY <1>0, <1>1, RunsTypedFrame DEF RunsTyped, coalescerVars
<1>5. CallerTyped'
  BY <1>0, <1>1, <1>2 DEF CallerTyped
<1>6. Closing'
  BY <1>0, <1>1, <1>2 DEF Closing, publisherVars, writerVars
<1>7. Gap'
  <2>1. Summaries(Held) = {}
    <3>1. Held \subseteq PendingExact
      BY <1>0, LenProperties DEF Held, PendingExact, Elements
    <3> QED BY <1>1, <3>1 DEF SummaryPending, Summaries
  <2> QED BY <1>0, <1>1, <1>2, <1>3, <2>1 DEF Gap, publisherVars
<1>8. Runs'
  BY <1>0, <1>1, <1>2, RunsFrame DEF publisherVars
<1> QED BY <1>3, <1>4, <1>5, <1>6, <1>7, <1>8 DEF Inv, Typed

LEMMA JoinWriteQueueKeeps ==
  ASSUME Inv, JoinWriteQueue
  PROVE  Inv'
<1>0. /\ Typed /\ Closing /\ Gap /\ Runs /\ RunsTyped /\ CallerTyped
      /\ failures \in 0..MaxFailures /\ flushes \in 0..MaxFlushes
      /\ MaxFailures \in Nat /\ MaxFlushes \in Nat /\ (Clean => caller.op # "flush")
  BY CleanCaller
<1>1. /\ caller.pc = "drain"
      /\ UNCHANGED othersThanCaller
      /\ UNCHANGED <<writerVars, open, flushing, drops, flushes, failures>>
      /\ UNCHANGED <<publisherVars, telemetry, unfinished, worker, run, stored>>
  BY DEF JoinWriteQueue, At, othersThanCaller
<1>2. flushes' \in 0..MaxFlushes /\ flushes' >= flushes
      /\ failures' \in 0..MaxFailures /\ failures' >= failures /\ Clean' = Clean
  BY <1>0, <1>1 DEF Clean
<1>3. /\ PublisherTyped' /\ QueueTyped' /\ WriterTyped' /\ Submitted'
      /\ Summaries(log \cup Held)' = Summaries(log \cup Held)
      /\ Summaries(Held)' = Summaries(Held)
  BY <1>1, <1>2, CallerFrame
<1>a. ~stop.writer /\ writer.pc # "ended"
  BY <1>0, <1>1 DEF Closing
<1>4. RunsTyped'
  BY <1>0, <1>1, RunsTypedFrame DEF RunsTyped, coalescerVars
<1>5. CASE /\ caller.op = "flush" /\ caller' = [op |-> "none", pc |-> "idle"]
           /\ stop' = stop
  <2>1. CallerTyped'
    BY <1>0, <1>1, <1>2, <1>5 DEF CallerTyped
  <2>2. Closing'
    BY <1>0, <1>1, <1>2, <1>5, <1>a DEF Closing, publisherVars, writerVars
  <2>3. Gap' /\ Runs'
    BY <1>0, <1>1, <1>2, <1>5, RunsFrame DEF Gap, publisherVars
  <2> QED BY <1>3, <1>4, <2>1, <2>2, <2>3 DEF Inv, Typed
<1>6. CASE /\ caller.op = "close" /\ caller' = [caller EXCEPT !.pc = "drained"]
           /\ stop' = [stop EXCEPT !.writer = TRUE]
  <2>0. caller'.op = "close" /\ caller'.pc = "drained"
    BY <1>0, <1>6 DEF CallerTyped
  <2>1. CallerTyped'
    BY <1>0, <1>1, <1>2, <1>6 DEF CallerTyped
  <2>2. Closing'
    <3>1. stop'.writer /\ (worker.pc = "ended" => stop'.bus)
      BY <1>0, <1>6 DEF CallerTyped, Closing
    <3>2. UNCHANGED <<worker, writer, writeQueue, telemetry, publisher, failures, flushes>>
      BY <1>1 DEF publisherVars, writerVars
    <3>3. /\ publisher.pc = "done" /\ worker.pc \in {"ended", "dead"}
          /\ (worker.pc = "ended" => telemetry = <<>>)
          /\ (worker.pc = "dead" => failures > 0)
      BY <1>0, <1>1, <1>6 DEF Closing
    <3> QED BY <1>a, <2>0, <3>1, <3>2, <3>3 DEF Closing
  <2>3. Gap'
    BY <1>0, <1>1, <1>2, <1>3, <2>0 DEF Gap, publisherVars
  <2>4. Runs'
    BY <1>0, <1>1, <1>2, <2>0, RunsFrame DEF publisherVars
  <2> QED BY <1>3, <1>4, <2>1, <2>2, <2>3, <2>4 DEF Inv, Typed
<1> QED BY <1>5, <1>6 DEF JoinWriteQueue, Goto

LEMMA JoinWriterKeeps ==
  ASSUME Inv, JoinWriter
  PROVE  Inv'
<1>0. /\ Typed /\ Closing /\ Gap /\ Runs /\ RunsTyped /\ CallerTyped
      /\ failures \in 0..MaxFailures /\ flushes \in 0..MaxFlushes
      /\ MaxFailures \in Nat /\ MaxFlushes \in Nat
  BY CleanCaller
<1>1. /\ caller.pc = "drained" /\ writer.pc = "ended"
      /\ caller' = [caller EXCEPT !.pc = "closed"]
      /\ UNCHANGED othersThanCaller
      /\ UNCHANGED <<writerVars, open, flushing, drops, stop, flushes, failures>>
      /\ UNCHANGED <<publisherVars, telemetry, unfinished, worker, run, stored>>
  BY DEF JoinWriter, At, Goto, othersThanCaller
<1>2. flushes' \in 0..MaxFlushes /\ flushes' >= flushes
      /\ failures' \in 0..MaxFailures /\ failures' >= failures /\ Clean' = Clean
      /\ caller'.op = "close" /\ caller.op = "close" /\ caller'.pc = "closed"
  BY <1>0, <1>1 DEF Clean, CallerTyped, Closing
<1>3. /\ PublisherTyped' /\ QueueTyped' /\ WriterTyped' /\ Submitted'
      /\ Summaries(log \cup Held)' = Summaries(log \cup Held)
      /\ Summaries(Held)' = Summaries(Held)
  BY <1>1, <1>2, CallerFrame
<1>4. RunsTyped'
  BY <1>0, <1>1, RunsTypedFrame DEF RunsTyped, coalescerVars
<1>5. CallerTyped'
  BY <1>0, <1>1, <1>2 DEF CallerTyped
<1>6. Closing'
  BY <1>0, <1>1, <1>2 DEF Closing, publisherVars, writerVars
<1>7. Gap'
  BY <1>0, <1>1, <1>2, <1>3 DEF Gap, publisherVars
<1>8. Runs'
  BY <1>0, <1>1, <1>2, RunsFrame DEF publisherVars
<1> QED BY <1>3, <1>4, <1>5, <1>6, <1>7, <1>8 DEF Inv, Typed

-----------------------------------------------------------------------------
(***************************************************************************)
(* The theorems.                                                           *)
(***************************************************************************)

LEMMA InvInit == Init => Inv
<1> SUFFICES ASSUME Init PROVE Inv
  OBVIOUS
<1>0. /\ <<>> \in Seq(High) /\ <<>> \in Seq(Key) /\ <<>> \in Seq(Run) /\ <<>> \in Seq(Exact)
      /\ Len(<<>>) = 0 /\ <<>> \in Seq({})
      /\ TelemetryCapacity \in Nat /\ FingerprintCapacity \in Nat /\ MaxOpenRuns \in Nat
      /\ ExactReserve \in Nat /\ MaxPublish \in Nat /\ MaxFlushes \in Nat /\ MaxFailures \in Nat
  BY EmptySeq, EventBusAssumption
<1>1. (CHOOSE k \in Key : TRUE) \in Key
  BY EventBusAssumption
<1>2. Elements(<<>>) = {}
  BY <1>0, ElementsOf
<1>3. /\ worker = [pc |-> "idle", key |-> "none"] /\ worker \in WorkerType
      /\ publisher = [pc |-> "idle", of |-> NoItem] /\ publisher \in PublisherType
      /\ writer = [pc |-> "idle", of |-> NoItem] /\ writer \in WriterType
  BY DEF Init, PublisherIdle, WorkerIdle, PublisherType, WorkerType, WriterType
<1>4. PublisherTyped
  BY <1>0, <1>3 DEF Init, PublisherTyped
<1>5. QueueTyped
  BY <1>0, <1>3 DEF Init, QueueTyped
<1>6. RunsTyped
  <2>1. run \in [Run -> [key : Key, pending : Nat]]
    BY <1>1 DEF Init
  <2>2. flushing \in [Flusher -> [todo : Seq(Run), committed : BOOLEAN]]
        /\ \A p \in Flusher : flushing[p].todo = <<>> /\ flushing[p].committed = FALSE
    BY <1>0 DEF Init
  <2> QED BY <1>0, <1>3, <2>1, <2>2 DEF Init, RunsTyped, Flusher
<1>7. WriterTyped
  BY <1>0, <1>3 DEF Init, WriterTyped
<1>8. CallerTyped
  BY <1>0 DEF Init, CallerTyped
<1>9. Closing
  BY <1>3 DEF Init, Closing
<1>10. Held = {} /\ Known = {}
  BY <1>2, <1>3 DEF Init, Held, Known
<1>11. Submitted
  <2>1. \A k \in High : accepted[k] = 0
    BY EventBusAssumption DEF Init
  <2>2. \A k : publisher.of # <<"observation", k>>
    BY <1>3 DEF NoItem
  <2>3. Elements(seen) = {} /\ publisher.pc = "idle" /\ errors = {}
    BY <1>2, <1>3 DEF Init
  <2> QED BY <2>1, <2>2, <2>3 DEF Submitted
<1>12. Gap
  BY <1>10 DEF Init, Gap, Summaries
<1>13. Runs
  <2>1. Live = {}
    BY <1>2 DEF Init, Live, Flusher
  <2>2. ASSUME NEW k \in Key PROVE accepted[k] = Arrived(k)
    <3>1. Count(telemetry, k) = 0 /\ InHand(k) = 0 /\ stored[k] = 0 /\ accepted[k] = 0
      BY <1>3, CountEmpty DEF Init, InHand
    <3> QED BY <3>1 DEF Arrived
  <2>3. OneRunPerKey /\ Accounted
    BY <2>1, <2>2 DEF OneRunPerKey, Accounted
  <2> QED BY <1>3, <2>3 DEF Init, Runs
<1> QED BY <1>4, <1>5, <1>6, <1>7, <1>8, <1>9, <1>11, <1>12, <1>13 DEF Inv, Typed

LEMMA InvStutter == Inv /\ UNCHANGED vars => Inv'
<1> SUFFICES ASSUME Inv, UNCHANGED vars PROVE Inv'
  OBVIOUS
<1>1. /\ failures \in 0..MaxFailures /\ failures \in Nat
      /\ UNCHANGED <<publisherVars, writerVars, drops, stop, flushes, caller, failures,
                     open, run, flushing, stored, telemetry, unfinished, worker>>
  BY EventBusAssumption DEF Inv, Typed, CallerTyped, vars, publisherVars, writerVars
<1>2. PublisherTyped' /\ WriterTyped' /\ CallerTyped' /\ Submitted' /\ Gap'
  BY <1>1, CoalescerFrame
<1>3. QueueTyped' /\ RunsTyped'
  BY <1>1, QueueFrame, RunsTypedFrame DEF Inv, Typed, RunsTyped, coalescerVars
<1>4. Closing'
  BY <1>1 DEF Inv, Closing, publisherVars, writerVars
<1>5. Runs'
  BY <1>1, RunsFrame DEF Inv, Clean, publisherVars
<1> QED BY <1>2, <1>3, <1>4, <1>5 DEF Inv, Typed

LEMMA InvNext == Inv /\ [Next]_vars => Inv'
<1> SUFFICES ASSUME Inv, [Next]_vars PROVE Inv'
  OBVIOUS
<1>1. CASE UNCHANGED vars
  BY <1>1, InvStutter
<1>2. CASE PublishRefused
  BY <1>2, PublishRefusedKeeps
<1>3. CASE \E k \in Key : PublishHigh(k) \/ PutObservation(k)
  BY <1>3, PublishHighKeeps, PutObservationKeeps
<1>4. CASE \E c \in Control : PublishExact(c)
  BY <1>4, PublishExactKeeps
<1>5. CASE ResultArrives \/ ResultTimesOut \/ ExecutorStops
  BY <1>5, PublisherRestsKeeps
<1>6. ASSUME NEW p \in Flusher, FlushStep(p) PROVE Inv'
  BY <1>6, SkipRunKeeps, CommitRunKeeps, ResetRunKeeps DEF FlushStep
<1>7. CASE WorkerStep
  <2>1. CASE TakeObservation \/ AddToRun \/ EvictRun \/ OpenRun
    BY <2>1, TakeObservationKeeps, AddToRunKeeps, EvictRunKeeps, OpenRunKeeps
  <2>2. CASE PeriodicFlush \/ PeriodicFlushEnds \/ WorkerEnds
    BY <2>2, IntervalKeeps
  <2>3. CASE FlushStep("telemetry")
    BY <1>6, <2>3 DEF Flusher
  <2> QED BY <1>7, <2>1, <2>2, <2>3 DEF WorkerStep
<1>8. CASE WriterStep
  BY <1>8, WriterKeeps
<1>9. CASE CallFlush \/ CallClose \/ JoinTimesOut
  BY <1>9, CallFlushKeeps, CallCloseKeeps, JoinTimesOutKeeps
<1>10. CASE CallerStep
  <2>1. CASE JoinQueue \/ JoinWorker \/ CoalescerFlushed \/ EmitDropSummary
    BY <2>1, JoinQueueKeeps, JoinWorkerKeeps, CoalescerFlushedKeeps, EmitDropSummaryKeeps
  <2>2. CASE SummaryArrives \/ JoinWriteQueue \/ JoinWriter
    BY <2>2, SummaryArrivesKeeps, JoinWriteQueueKeeps, JoinWriterKeeps
  <2>3. CASE FlushStep("caller")
    BY <1>6, <2>3 DEF Flusher
  <2> QED BY <1>10, <2>1, <2>2, <2>3 DEF CallerStep
<1>11. CASE \E p \in Flusher : CommitFails(p)
  BY <1>11, CommitFailsKeeps
<1> QED BY <1>1, <1>2, <1>3, <1>4, <1>5, <1>7, <1>8, <1>9, <1>10, <1>11 DEF Next

LEMMA InvAlways == Spec => []Inv
<1>1. Init => Inv
  BY InvInit
<1>2. Inv /\ [Next]_vars => Inv'
  BY InvNext
<1> QED BY <1>1, <1>2, PTL DEF Spec

LEMMA InvTypeOK == Inv => TypeOK
<1> SUFFICES ASSUME Inv PROVE TypeOK
  OBVIOUS
<1>0. PublisherTyped /\ QueueTyped /\ RunsTyped /\ WriterTyped /\ CallerTyped
  BY DEF Inv, Typed
<1>1. publisher \in PublisherType /\ worker \in WorkerType /\ writer \in WriterType
  BY <1>0 DEF PublisherTyped, QueueTyped, WriterTyped
<1>2. unfinished \in Nat
  <2>1. Len(telemetry) \in Nat
    BY <1>0, LenProperties DEF QueueTyped
  <2>2. unfinished = Len(telemetry)
                     + (IF worker.pc \in {"holding", "evicting"} THEN 1 ELSE 0)
    BY <1>0 DEF QueueTyped
  <2> QED BY <2>1, <2>2
<1>3. dropped \in 0..MaxPublish
  <2>1. /\ dropped \in Nat /\ published \in 0..MaxPublish
        /\ dropped + (IF publisher.pc = "put" THEN 1 ELSE 0) <= published
    BY <1>0 DEF PublisherTyped
  <2> QED BY <2>1, EventBusAssumption
<1>4. /\ seen \in Seq(High) /\ Len(seen) <= FingerprintCapacity
      /\ accepted \in [Key -> Nat] /\ published \in 0..MaxPublish /\ drops \in Nat
  BY <1>0 DEF PublisherTyped
<1>5. telemetry \in Seq(Key) /\ Len(telemetry) <= TelemetryCapacity
  BY <1>0 DEF QueueTyped
<1>6. /\ open \in Seq(Run) /\ Len(open) <= MaxOpenRuns
      /\ run \in [Run -> [key : Key, pending : Nat]]
      /\ flushing \in [Flusher -> [todo : Seq(Run), committed : BOOLEAN]]
      /\ stored \in [Key -> Nat]
  BY <1>0 DEF RunsTyped
<1> QED BY <1>0, <1>1, <1>2, <1>3, <1>4, <1>5, <1>6
        DEF TypeOK, PublisherType, WorkerType, WriterType, WriterTyped, CallerTyped

\* After close() without failures everything is empty and both threads have ended.
LEMMA ClosedEmpty ==
  ASSUME Inv, Closed
  PROVE  /\ worker.pc = "ended" /\ telemetry = <<>> /\ Held = {} /\ errors = {}
         /\ caller.pc = "closed" /\ failures = 0 /\ publisher.pc = "done"
<1>1. /\ caller.pc = "closed" /\ failures = 0 /\ Closing /\ Submitted
      /\ writer \in WriterType /\ writeQueue \in Seq(Exact)
  BY DEF Inv, Typed, WriterTyped, Closed
<1>2. /\ writer.pc = "ended" /\ writeQueue = <<>> /\ worker.pc \in {"ended", "dead"}
      /\ publisher.pc = "done"
  BY <1>1 DEF Closing
<1>3. worker.pc = "ended" /\ telemetry = <<>>
  BY <1>1, <1>2 DEF Closing
<1>4. Held = {}
  <2>1. writer.of = NoItem
    BY <1>1, <1>2 DEF WriterType
  <2>2. Elements(writeQueue) = {}
    BY <1>1, <1>2, ElementsOf
  <2> QED BY <2>1, <2>2 DEF Held
<1> QED BY <1>1, <1>2, <1>3, <1>4 DEF Submitted

LEMMA InvRunsExact == Inv => RunsExact
<1> SUFFICES ASSUME Inv, ClosedByService PROVE stored = accepted
  BY DEF RunsExact
<1>1. /\ worker.pc = "ended" /\ telemetry = <<>> /\ caller.pc = "closed" /\ Clean
  BY ClosedEmpty DEF ClosedByService, Closed, Clean
<1>2. /\ stored \in [Key -> Nat] /\ accepted \in [Key -> Nat] /\ open \in Seq(Run)
      /\ flushing["telemetry"].todo = <<>> /\ flushing["caller"].todo = <<>>
      /\ open = <<>> /\ Accounted
  BY <1>1 DEF Inv, Typed, RunsTyped, PublisherTyped, Runs, Flusher
<1>3. Live = {}
  BY <1>2, ElementsOf DEF Live
<1>4. ASSUME NEW k \in Key PROVE accepted[k] = stored[k]
  <2>1. accepted[k] = Arrived(k)
    BY <1>2, <1>3 DEF Accounted
  <2>2. Count(telemetry, k) = 0 /\ InHand(k) = 0 /\ stored[k] \in Nat
    BY <1>1, <1>2, CountEmpty DEF InHand
  <2> QED BY <2>1, <2>2 DEF Arrived
<1> QED BY <1>2, <1>4

LEMMA InvGapExact == Inv => GapExact
<1> SUFFICES ASSUME Inv, ClosedByService
             PROVE  Summaries(log) = IF dropped = 0 THEN {} ELSE {<<"summary", dropped>>}
  BY DEF GapExact, Summaries
<1>1. caller.pc = "closed" /\ Held = {} /\ Clean
  BY ClosedEmpty DEF ClosedByService, Closed, Clean
<1>2. Summaries(log \cup Held) = IF dropped = 0 THEN {} ELSE {<<"summary", dropped>>}
  BY <1>1 DEF Inv, Gap
<1> QED BY <1>1, <1>2

LEMMA InvExactLogged == Inv => ExactLogged
<1> SUFFICES ASSUME Inv PROVE FirstHighLogged /\ ResultMeansLogged
  BY DEF ExactLogged
<1>0. Submitted /\ publisher \in PublisherType /\ writeQueue \in Seq(Exact)
  BY DEF Inv, Typed, PublisherTyped, WriterTyped
<1>1. FirstHighLogged
  <2> SUFFICES ASSUME Closed, NEW k \in High, accepted[k] > 0 PROVE <<"high", k>> \in log
    BY DEF FirstHighLogged
  <2>1. Held = {} /\ errors = {} /\ failures = 0
    BY ClosedEmpty
  <2>2. <<"high", k>> \in Known
    BY <1>0, <2>1 DEF Submitted
  <2> QED BY <2>1, <2>2 DEF Known
<1>2. ResultMeansLogged
  <2> SUFFICES ASSUME NEW c \in Control, publisher.of = <<"control", c>>,
                      Resolved(<<"control", c>>), <<"control", c>> \notin errors
               PROVE  <<"control", c>> \in log
    BY DEF ResultMeansLogged
  <2> DEFINE e == <<"control", c>>
  <2>1. publisher.pc = "waiting"
    <3>1. e # NoItem /\ e[1] # "observation"
      BY DEF NoItem
    <3> QED BY <1>0, <3>1 DEF PublisherType
  <2>2. e \in Known
    BY <1>0, <2>1 DEF Submitted
  <2>3. e \notin Held
    BY <1>0, ElementsOf DEF Held, Resolved
  <2> QED BY <2>2, <2>3 DEF Known
<1> QED BY <1>1, <1>2

\* Every variable keeps its type: queues and the open runs stay within their capacities,
\* and no more is recorded as dropped than was published.
THEOREM TypeCorrect == Spec => []TypeOK
BY InvAlways, InvTypeOK, PTL

\* A bus closed by its service without failures has counted every accepted observation
\* exactly once, whatever threads flushed, evicted or reset its run, and its one drop
\* summary states what was dropped (close, flush, add, _flush_one, _emit_drop_summary).
THEOREM CountsAreExact == Spec => []CountsExact
<1>1. Inv => CountsExact
  BY InvTypeOK, InvRunsExact, InvGapExact DEF CountsExact
<1> QED BY <1>1, InvAlways, PTL

\* Every error has its first occurrence in the log when the bus is closed, and an exact
\* event whose publisher was given a result is logged (submit, _run of the writer,
\* _persist_first_high_severity).
THEOREM ExactIsLogged == Spec => []ExactLogged
BY InvAlways, InvExactLogged, PTL
=============================================================================

--------------------------- MODULE SketchesProofs ---------------------------
(***************************************************************************)
(* Proofs about Sketches: type correctness, that no observation is lost by *)
(* sealing, rolling up and expiring, that an exact count is exact, and     *)
(* that a pass which gets as far as expiry has rolled up all that was due. *)
(*                                                                         *)
(* Nothing in the program keeps an update from a bucket that is being      *)
(* rolled up, so the argument is one of time.  What a roll-up replaces is  *)
(* the union of the children that are still there; it is complete because  *)
(* a child expires only when no bucket beside it can still be filled       *)
(* (HotGone, WarmGone).  That is where the widths and the retentions meet: *)
(* HotKeep >= Warm and WarmKeep > Cold - Warm are needed.                  *)
(***************************************************************************)
EXTENDS Sketches, WellFoundedInduction, TLAPS

\* The buckets of an observation: the hot one it is filed in, the warm and the
\* cold one that this is rolled up into.
HotOf(o) == Hot(o[2])
WarmOf(o) == Parent(HotOf(o))
ColdOf(o) == Parent(WarmOf(o))
OnTime == seen \ late

\* A bucket that counts item i, or that says that it does not know.
Holds(b, i) == row[b].mode = "UNAVAILABLE" \/ i \in row[b].items
WorkHolds(i) == work.mode = "UNAVAILABLE" \/ i \in work.items
\* What was observed in the time of bucket b.
Observed(b) == {o[1] : o \in {x \in seen : b \in {HotOf(x), WarmOf(x), ColdOf(x)}}}

Rolling == work.at \in {"persist", "mark"}
InPass == work.at \in {"roll", "persist", "mark"}

Typed ==
  /\ TypeOK
  /\ update \in [at : {"idle", "observed", "read"}, item : Item \cup {NoItem}, time : Time,
                 mode : Mode, items : SUBSET Item]
  /\ update.at # "idle" => update.item \in Item
  /\ work \in [at : {"idle", "roll", "persist", "mark", "expire"}, now : Time,
               width : {1, Warm, Cold}, todo : SUBSET Bucket, kids : SUBSET Bucket,
               mode : Mode, items : SUBSET Item]
  /\ seen \subseteq Item \X Time /\ late \subseteq seen /\ expired \subseteq Bucket

\* A pass and an update are of the present, or of the bucket before.
Clock ==
  /\ work.now <= now
  /\ update.at # "idle" => update.time <= now /\ now <= update.time + 1

\* The hot bucket that an update has read is still what it read.
ReadStands ==
  update.at = "read" =>
    LET old == row[Hot(update.time)]
        base == IF old.there THEN Sketch(old.mode, old.items) ELSE New
    IN Sketch(update.mode, update.items) = Add(base, update.item)

\* What is sealed: the wide buckets, those that are rolled up, and in a pass
\* everything but what came after its clock was read.
Sealing ==
  /\ \A b \in Rows : b[1] # 1 => row[b].sealed
  /\ \A b \in Rows : row[b].state = "verified_child" =>
       /\ row[b].sealed /\ b[1] # Cold /\ End(Parent(b)) <= now
       /\ work.at # "idle" => End(Parent(b)) <= work.now
  /\ work.at # "idle" => \A b \in Rows : ~row[b].sealed => work.now <= End(b)

\* What the pass will roll up, and what it rolls up now.
Planned ==
  /\ InPass => work.width \in {1, Warm}
  /\ ~InPass => work.todo = {}
  /\ \A p \in work.todo :
       /\ p[1] = Wider(work.width) /\ End(p) <= work.now
       /\ \E b \in Rows : b[1] = work.width /\ row[b].sealed /\ Parent(b) = p
  /\ \A b \in work.kids :
       b \in Rows /\ b[1] = work.width /\ row[b].sealed /\ Parent(b) = TheParent
  /\ Rolling =>
       /\ End(TheParent) <= work.now
       /\ \A b \in Rows : b[1] = work.width /\ row[b].sealed /\ Parent(b) = TheParent
                          => b \in work.kids

\* What is due and was not rolled up yet is of the width that the pass is at,
\* and its turn comes.
Due(b) == b[1] # Cold /\ row[b].sealed /\ End(Parent(b)) <= work.now /\ Pending(b)
TurnComes ==
  InPass => \A b \in Rows : Due(b) /\ (b[1] = 1 \/ b[1] = work.width) =>
              b[1] = work.width /\ (Parent(b) \in work.todo \/ b \in work.kids)

\* What is known of the sketch that a roll-up makes of its children.
Made ==
  /\ work.at = "mark" => /\ row[TheParent].there
                         /\ row[TheParent].mode = work.mode /\ row[TheParent].items = work.items
  /\ Rolling =>
       /\ work.items \subseteq Observed(TheParent)
       /\ \A o \in OnTime : HotOf(o) \in work.kids => WorkHolds(o[1])
       /\ \A b \in work.kids, i \in Item : b[1] = Warm /\ Holds(b, i) => WorkHolds(i)

Sourced == \A b \in Rows : row[b].items \subseteq Observed(b)

\* A hot bucket holds its observations until it expires, and by then nothing
\* is left to roll up into its parent.
HotHolds == \A o \in seen : HotOf(o) \in Rows => Holds(HotOf(o), o[1])
HotGone ==
  \A o \in seen : HotOf(o) \notin Rows =>
    /\ End(HotOf(o)) + HotKeep <= now
    /\ \A b \in Rows : b[1] = 1 /\ Parent(b) = WarmOf(o) => ~Pending(b)
    /\ WarmOf(o) \notin work.todo
    /\ Rolling => TheParent # WarmOf(o)

\* The same of a warm bucket, once its hot one was rolled up.
WarmHolds ==
  \A o \in OnTime : WarmOf(o) \in Rows => Holds(WarmOf(o), o[1]) \/ Pending(HotOf(o))
WarmGone ==
  \A o \in OnTime : WarmOf(o) \notin Rows /\ ~Pending(HotOf(o)) =>
    /\ End(WarmOf(o)) + WarmKeep <= now
    /\ \A b \in Rows : b[1] # Cold /\ Top(b) = ColdOf(o) => ~Pending(b)
    /\ \A p \in work.todo : Top(p) # ColdOf(o)
    /\ Rolling => Top(TheParent) # ColdOf(o)
ColdHolds ==
  \A o \in OnTime : ColdOf(o) \in Rows =>
    Holds(ColdOf(o), o[1]) \/ Pending(HotOf(o)) \/ Pending(WarmOf(o))

\* The warm bucket of a distinct metric is not rolled up again, so a hot bucket
\* that would come after it takes no observation on time.
NoneAfter ==
  kind = "distinct" =>
    \A o \in OnTime :
      /\ After(HotOf(o)) /\ HotOf(o) \in Rows => row[HotOf(o)].sealed
      /\ row[WarmOf(o)].state = "verified_child" => ~Pending(HotOf(o))

Somewhere ==
  \A o \in OnTime : \/ ColdOf(o) \in expired \/ ColdOf(o) \in Rows
                    \/ Pending(WarmOf(o)) \/ Pending(HotOf(o))

Inv ==
  /\ Typed /\ Clock /\ ReadStands /\ Sealing /\ Planned /\ TurnComes /\ PassComplete
  /\ Made /\ Sourced /\ HotHolds /\ HotGone /\ WarmHolds /\ WarmGone /\ ColdHolds
  /\ NoneAfter /\ Somewhere

-----------------------------------------------------------------------------
(***************************************************************************)
(* Widths and starts.                                                      *)
(***************************************************************************)

LEMMA Widths ==
  /\ Warm \in Nat /\ Cold \in Nat /\ Horizon \in Nat /\ 1 < Warm /\ Warm < Cold
  /\ Threshold \in Nat
  /\ HotKeep \in Nat /\ WarmKeep \in Nat /\ ColdKeep \in Nat
  /\ HotKeep >= Warm /\ WarmKeep > Cold - Warm /\ Cold % Warm = 0
  /\ NoItem \notin Item
  /\ Time \subseteq Nat /\ 0 \in Time
BY SketchAssumption DEF Time, SketchAssumption

LEMMA Division ==
  ASSUME NEW x \in Nat, NEW m \in Nat \ {0}
  PROVE  /\ x % m \in Nat /\ x % m < m
         /\ x \div m \in Nat /\ x = m * (x \div m) + (x % m)
OBVIOUS

LEMMA Remainder ==
  ASSUME NEW x \in Nat, NEW m \in Nat \ {0}
  PROVE  x - (x % m) \in Nat /\ x - (x % m) <= x /\ x < (x - (x % m)) + m
<1> DEFINE q == x \div m
           r == x % m
<1>1. r \in Nat /\ r < m /\ q \in Nat /\ x = m * q + r
  BY Division
<1> HIDE DEF q, r
<1>2. m * q \in Nat
  BY <1>1
<1>3. x - r = m * q
  BY <1>1, <1>2
<1>4. x - r \in Nat /\ x - r <= x /\ x < (x - r) + m
  BY <1>1, <1>2, <1>3
<1> QED
  BY <1>4 DEF r

LEMMA Exactly ==
  ASSUME NEW q \in Nat, NEW m \in Nat \ {0}
  PROVE  (m * q) % m = 0
OBVIOUS

LEMMA Multiple ==
  ASSUME NEW x \in Nat, NEW m \in Nat \ {0}
  PROVE  (x - (x % m)) % m = 0
BY Division, Exactly

LEMMA Apart ==
  ASSUME NEW m \in Nat \ {0}, NEW i \in Nat, NEW j \in Nat, m * i < m * j
  PROVE  m * i + m <= m * j
<1>1. i < j
  OBVIOUS
<1>2. i + 1 <= j
  BY <1>1
<1>3. m * (i + 1) <= m * j
  BY <1>2
<1> QED
  BY <1>3

\* A warm bucket lies in one cold bucket, because it is as wide as some of them.
LEMMA WarmFits ==
  ASSUME NEW x \in Nat, x % Warm = 0
  PROVE  x + Warm <= (x - (x % Cold)) + Cold
<1> DEFINE c == Cold \div Warm
           i == x \div Warm
           q == x \div Cold
<1>1. c \in Nat /\ Cold = Warm * c /\ Warm \in Nat \ {0} /\ Cold \in Nat \ {0}
  BY Widths, Division
<1>2. i \in Nat /\ x = Warm * i
  BY Division, Widths
<1>3. q \in Nat /\ x = Cold * q + (x % Cold) /\ x % Cold < Cold /\ x % Cold \in Nat
  BY Division, Widths
<1> HIDE DEF c, i, q
<1>4. c * q + c \in Nat /\ Warm * (c * q + c) = Cold * q + Cold
  BY <1>1, <1>3
<1>5. Warm * i < Warm * (c * q + c)
  BY <1>1, <1>2, <1>3, <1>4
<1>6. Warm * i + Warm <= Warm * (c * q + c)
  BY <1>1, <1>2, <1>4, <1>5, Apart
<1>7. Warm * i + Warm <= Cold * q + Cold
  BY <1>6, <1>4
<1> QED
  BY <1>1, <1>2, <1>3, <1>7

LEMMA BucketType ==
  ASSUME NEW b \in Bucket
  PROVE  /\ b[1] \in {1, Warm, Cold} /\ b[2] \in Time /\ b[2] \in Nat /\ b = <<b[1], b[2]>>
         /\ b[1] \in Nat \ {0} /\ b[2] % b[1] = 0 /\ End(b) \in Nat /\ End(b) = b[2] + b[1]
         /\ b[1] = 1 => b = Hot(b[2])
<1>1. b \in {1, Warm, Cold} \X Time /\ b[2] % b[1] = 0
  BY DEF Bucket
<1>2. b[1] \in {1, Warm, Cold} /\ b[2] \in Time /\ b = <<b[1], b[2]>>
  BY <1>1
<1>3. b[2] \in Nat /\ b[1] \in Nat \ {0}
  BY <1>2, Widths
<1> QED
  BY <1>1, <1>2, <1>3 DEF End, Hot

LEMMA ParentOf ==
  ASSUME NEW b \in Bucket, b[1] # Cold
  PROVE  /\ Parent(b) \in Bucket
         /\ Parent(b)[1] = Wider(b[1])
         /\ b[1] = 1 => Parent(b)[1] = Warm
         /\ b[1] = Warm => Parent(b)[1] = Cold
         /\ Parent(b)[2] <= b[2] /\ End(b) <= End(Parent(b))
         /\ End(Parent(b)) <= b[2] + Parent(b)[1]
<1> DEFINE w == Wider(b[1])
           s == b[2] - (b[2] % w)
<1>1. w \in {Warm, Cold} /\ w \in Nat \ {0} /\ b[2] \in Nat
      /\ (b[1] = 1 => w = Warm) /\ (b[1] = Warm => w = Cold) /\ b[1] \in {1, Warm}
  BY Widths, BucketType DEF Wider
<1>2. Parent(b) = <<w, s>>
  BY DEF Parent
<1> HIDE DEF w
<1>3. PICK x \in Nat : x = b[2]
  BY <1>1
<1>4. s \in Nat /\ s <= b[2] /\ b[2] < s + w
  BY <1>1, <1>3, Remainder
<1>5. s % w = 0
  BY <1>1, Multiple
<1>6. s \in Time
  BY <1>1, <1>4, BucketType, Widths DEF Time
<1>7. b[2] + b[1] <= s + w
  <2>1. CASE b[1] = 1
    BY <2>1, <1>1, <1>4
  <2>2. CASE b[1] = Warm
    BY <2>2, <1>1, BucketType, WarmFits
  <2> QED BY <2>1, <2>2, <1>1
<1> HIDE DEF s
<1>8. <<w, s>> \in Bucket
  BY <1>1, <1>5, <1>6 DEF Bucket
<1>9. w = Wider(b[1])
  BY DEF w
<1> QED
  BY <1>1, <1>2, <1>4, <1>7, <1>8, <1>9 DEF End

\* The three buckets of an observation.
LEMMA ChainOf ==
  ASSUME NEW o \in Item \X Time
  PROVE  /\ HotOf(o) \in Bucket /\ HotOf(o)[1] = 1 /\ HotOf(o)[2] = o[2] /\ HotOf(o) = Hot(o[2])
         /\ WarmOf(o) \in Bucket /\ WarmOf(o)[1] = Warm /\ WarmOf(o) = Parent(HotOf(o))
         /\ ColdOf(o) \in Bucket /\ ColdOf(o)[1] = Cold /\ ColdOf(o) = Parent(WarmOf(o))
         /\ Top(HotOf(o)) = ColdOf(o) /\ Top(WarmOf(o)) = ColdOf(o) /\ Top(ColdOf(o)) = ColdOf(o)
         /\ Chain(o[2]) = {HotOf(o), WarmOf(o), ColdOf(o)}
<1>1. HotOf(o) \in Bucket /\ HotOf(o)[1] = 1 /\ HotOf(o)[2] = o[2]
  <2>0. \A x \in Nat : x % 1 = 0
    OBVIOUS
  <2>1. o[2] \in Time /\ o[2] \in Nat /\ o[2] % 1 = 0
    BY <2>0, Widths
  <2> QED BY <2>1 DEF HotOf, Hot, Bucket
<1>2. WarmOf(o) \in Bucket /\ WarmOf(o)[1] = Warm
  BY <1>1, ParentOf, Widths DEF WarmOf
<1>3. ColdOf(o) \in Bucket /\ ColdOf(o)[1] = Cold
  BY <1>2, ParentOf, Widths DEF ColdOf
<1> QED
  BY <1>1, <1>2, <1>3, Widths DEF HotOf, WarmOf, ColdOf, Top, Chain

\* The sides of a chain in time.
LEMMA TopOf ==
  ASSUME NEW b \in Bucket, b[1] # Cold
  PROVE  /\ Top(b) \in Bucket /\ Top(b)[1] = Cold /\ Top(b)[2] <= b[2]
         /\ End(b) <= End(Top(b)) /\ End(Parent(b)) <= End(Top(b))
         /\ Top(Parent(b)) = Top(b)
         /\ b[1] = Warm => Parent(b) = Top(b)
         /\ b[1] = 1 => Parent(Parent(b)) = Top(b)
<1>1. b[1] \in {1, Warm}
  BY BucketType
<1>2. CASE b[1] = Warm
  <2>1. Top(b) = Parent(b) /\ Parent(b)[1] = Cold /\ Top(Parent(b)) = Parent(b)
    BY <1>2, ParentOf, Widths DEF Top
  <2> QED BY <1>2, <2>1, ParentOf, BucketType, Widths
<1>3. CASE b[1] = 1
  <2> DEFINE p == Parent(b)
  <2>1. p \in Bucket /\ p[1] = Warm /\ p[1] # Cold /\ p[2] <= b[2] /\ End(b) <= End(p)
    BY <1>3, ParentOf, Widths
  <2>2. Top(b) = Parent(p) /\ Top(p) = Parent(p)
    BY <1>3, <2>1, Widths DEF Top
  <2>3. Parent(p) \in Bucket /\ Parent(p)[1] = Cold /\ Parent(p)[2] <= p[2] /\ End(p) <= End(Parent(p))
    BY <2>1, ParentOf
  <2> HIDE DEF p
  <2>4. b[2] \in Nat /\ p[2] \in Nat /\ Parent(p)[2] \in Nat
        /\ End(b) \in Nat /\ End(p) \in Nat /\ End(Parent(p)) \in Nat
    BY <2>1, <2>3, BucketType
  <2>5. Parent(p)[2] <= b[2] /\ End(b) <= End(Parent(p))
    BY <2>1, <2>3, <2>4
  <2> QED BY <1>3, <2>1, <2>2, <2>3, <2>5, Widths DEF p
<1> QED
  BY <1>1, <1>2, <1>3

-----------------------------------------------------------------------------
(***************************************************************************)
(* Sketches.                                                               *)
(***************************************************************************)

SketchSet == [mode : Mode, items : SUBSET Item]

LEMMA NewType == kind \in {"distinct", "stream"} => New \in SketchSet /\ New.items = {}
BY DEF New, Sketch, SketchSet, Mode

LEMMA PromotedType ==
  ASSUME NEW items \in SUBSET Item
  PROVE  Promoted(items) \in SketchSet /\ Promoted(items).items = items
BY DEF Promoted, Sketch, SketchSet, Mode

\* An update adds its item, or the sketch says that it does not know.
LEMMA AddType ==
  ASSUME NEW s \in SketchSet, NEW i \in Item
  PROVE  /\ Add(s, i) \in SketchSet
         /\ s.items \subseteq Add(s, i).items /\ Add(s, i).items \subseteq s.items \cup {i}
         /\ Add(s, i).mode = "UNAVAILABLE" \/ i \in Add(s, i).items
         /\ s.mode = "UNAVAILABLE" => Add(s, i).mode = "UNAVAILABLE"
<1>0. s.mode \in Mode /\ s.items \in SUBSET Item /\ s.items \cup {i} \in SUBSET Item
  BY DEF SketchSet
<1>1. CASE s.mode = "EXACT"
  <2>1. Add(s, i) = Promoted(s.items \cup {i})
    BY <1>1 DEF Add
  <2> QED BY <1>0, <1>1, <2>1, PromotedType
<1>2. CASE s.mode = "UNAVAILABLE"
  <2>1. Add(s, i) = s
    BY <1>2 DEF Add
  <2> QED BY <1>2, <2>1
<1>3. CASE s.mode \notin {"EXACT", "UNAVAILABLE"}
  <2>1. Add(s, i) = [mode |-> s.mode, items |-> s.items \cup {i}]
    BY <1>3 DEF Add, Sketch
  <2> QED BY <1>0, <1>3, <2>1 DEF SketchSet
<1> QED
  BY <1>1, <1>2, <1>3

\* A merge knows what both sketches know, or says that it does not.
LEMMA MergedType ==
  ASSUME NEW s \in SketchSet, NEW t, t.mode \in Mode, t.items \in SUBSET Item
  PROVE  /\ Merged(s, t) \in SketchSet
         /\ Merged(s, t).items \subseteq s.items \cup t.items
         /\ "UNAVAILABLE" \in {s.mode, t.mode} => Merged(s, t).mode = "UNAVAILABLE"
         /\ \/ Merged(s, t).mode = "UNAVAILABLE"
            \/ s.items \cup t.items \subseteq Merged(s, t).items
<1>0. s.mode \in Mode /\ s.items \in SUBSET Item /\ s.items \cup t.items \in SUBSET Item
  BY DEF SketchSet
<1>1. CASE "UNAVAILABLE" \in {s.mode, t.mode}
  <2>1. Merged(s, t) = [mode |-> "UNAVAILABLE", items |-> s.items]
    BY <1>1 DEF Merged, Sketch
  <2> QED BY <1>0, <2>1 DEF SketchSet, Mode
<1>2. CASE s.mode = "EXACT" /\ t.mode = "EXACT"
  <2>1. Merged(s, t) = Promoted(s.items \cup t.items)
    BY <1>2 DEF Merged
  <2> QED BY <1>0, <1>2, <2>1, PromotedType
<1>3. CASE "UNAVAILABLE" \notin {s.mode, t.mode} /\ ~(s.mode = "EXACT" /\ t.mode = "EXACT")
  <2>1. PICK m \in Mode : Merged(s, t) = [mode |-> m, items |-> s.items \cup t.items]
    BY <1>0, <1>3 DEF Merged, Sketch, Mode
  <2> QED BY <1>0, <1>3, <2>1 DEF SketchSet
<1> QED
  BY <1>1, <1>2, <1>3

\* A set of numbers has a least one.
LEMMA LeastOf ==
  ASSUME NEW S \in SUBSET Nat, S # {}
  PROVE  \E d \in S : \A c \in S : d <= c
<1> DEFINE Less == {p \in Nat \X Nat : p[1] < p[2]}
<1>1. IsWellFoundedOn(Less, Nat)
  BY NatLessThanWellFounded DEF OpToRel
<1>2. PICK d \in S : \A c \in S : <<c, d>> \notin Less
  <2> HIDE DEF Less
  <2> QED BY <1>1, WFMin
<1>3. \A a, b \in Nat : <<a, b>> \in Less <=> a < b
  OBVIOUS
<1> HIDE DEF Less
<1>4. ASSUME NEW c \in S PROVE d <= c
  <2>1. c \in Nat /\ d \in Nat
    OBVIOUS
  <2>2. ~(c < d)
    BY <1>2, <1>3, <2>1
  <2> QED BY <2>1, <2>2
<1> QED
  BY <1>4

\* The sketch that the recursion of Union gives for the first n buckets.
Next1(kids, s, n) ==
  IF <<work.width, n>> \in kids THEN Merged(s, row[<<work.width, n>>]) ELSE s
SumOf(kids, f, m) ==
  /\ f \in [0..m -> SketchSet] /\ f[0] = New
  /\ \A n \in 0..(m - 1) : f[n + 1] = Next1(kids, f[n], n)

LEMMA NextOne ==
  ASSUME TypeOK, NEW kids \in SUBSET Bucket, NEW s \in SketchSet, NEW n \in Nat
  PROVE  /\ Next1(kids, s, n) \in SketchSet
         /\ <<work.width, n>> \in kids =>
              Next1(kids, s, n) = Merged(s, row[<<work.width, n>>])
         /\ <<work.width, n>> \notin kids => Next1(kids, s, n) = s
<1>1. CASE <<work.width, n>> \in kids
  <2>1. row[<<work.width, n>>].mode \in Mode /\ row[<<work.width, n>>].items \in SUBSET Item
    BY <1>1 DEF TypeOK
  <2> QED BY <1>1, <2>1, MergedType DEF Next1
<1>2. CASE <<work.width, n>> \notin kids
  BY <1>2 DEF Next1
<1> QED
  BY <1>1, <1>2

LEMMA SumExists ==
  ASSUME TypeOK, NEW kids \in SUBSET Bucket, NEW m \in Nat
  PROVE  \E f : SumOf(kids, f, m)
<1> DEFINE Bad == {k \in Nat : ~\E f : SumOf(kids, f, k)}
<1> SUFFICES ASSUME Bad # {} PROVE FALSE
  OBVIOUS
<1>1. PICK k \in Bad : \A c \in Bad : k <= c
  <2>1. Bad \in SUBSET Nat
    OBVIOUS
  <2> HIDE DEF Bad
  <2> QED BY <2>1, LeastOf
<1>2. k # 0
  <2>1. SumOf(kids, [n \in 0..0 |-> New], 0)
    <3>1. New \in SketchSet
      BY NewType DEF TypeOK
    <3>2. 0..(0 - 1) = {} /\ 0..0 = {0}
      OBVIOUS
    <3> QED BY <3>1, <3>2 DEF SumOf
  <2> QED BY <2>1
<1>3. k \in Nat /\ k - 1 \in Nat /\ ~(k <= k - 1)
  BY <1>2
<1>4. PICK g : SumOf(kids, g, k - 1)
  BY <1>1, <1>3
<1> DEFINE j == k - 1
           f == [n \in 0..k |-> IF n = k THEN Next1(kids, g[j], j) ELSE g[n]]
<1>5. j \in Nat /\ k = j + 1 /\ j \in 0..j
  BY <1>3
<1>6. g \in [0..j -> SketchSet] /\ g[0] = New
      /\ \A n \in 0..(j - 1) : g[n + 1] = Next1(kids, g[n], n)
  BY <1>4 DEF SumOf
<1> HIDE DEF j
<1>7. Next1(kids, g[j], j) \in SketchSet
  BY <1>5, <1>6, NextOne
<1>8. f \in [0..k -> SketchSet]
  <2>1. \A n \in 0..k : n # k => n \in 0..j
    BY <1>5
  <2> QED BY <2>1, <1>6, <1>7
<1>9. f[0] = New
  BY <1>5, <1>6
<1>10. ASSUME NEW n \in 0..(k - 1) PROVE f[n + 1] = Next1(kids, f[n], n)
  <2>1. n \in 0..k /\ n + 1 \in 0..k /\ n # k /\ n \in 0..j /\ f[n] = g[n]
    BY <1>5
  <2>2. CASE n = j
    BY <2>1, <2>2, <1>5
  <2>3. CASE n # j
    <3>1. n \in 0..(j - 1) /\ n + 1 # k
      BY <2>1, <2>3, <1>5
    <3> QED BY <2>1, <3>1, <1>6
  <2> QED BY <2>2, <2>3
<1>11. SumOf(kids, f, k)
  <2> HIDE DEF f
  <2> QED BY <1>8, <1>9, <1>10 DEF SumOf
<1> QED
  BY <1>1, <1>11

\* What Union computes.
LEMMA UnionIs ==
  ASSUME TypeOK, NEW kids \in SUBSET Bucket
  PROVE  \E f : SumOf(kids, f, Horizon + 1) /\ Union(kids) = f[Horizon + 1]
<1> DEFINE m == Horizon + 1
           Body(g) == [n \in 0..m |->
                         IF n = 0 THEN New
                         ELSE LET b == <<work.width, n - 1>>
                              IN IF b \in kids THEN Merged(g[n - 1], row[b]) ELSE g[n - 1]]
           u == CHOOSE g : g = Body(g)
<1>1. Union(kids) = u[m]
  BY DEF Union
<1>2. m \in Nat /\ 0 \in 0..m /\ m = Horizon + 1
  BY Widths
<1>3. PICK f : SumOf(kids, f, m)
  BY <1>2, SumExists
<1> HIDE DEF m
<1>4. f = Body(f)
  <2>1. f \in [0..m -> SketchSet] /\ f[0] = New
        /\ \A n \in 0..(m - 1) : f[n + 1] = Next1(kids, f[n], n)
    BY <1>3 DEF SumOf
  <2>2. ASSUME NEW n \in 0..m PROVE f[n] = Body(f)[n]
    <3>1. CASE n = 0
      BY <2>1, <3>1, <1>2
    <3>2. CASE n # 0
      <4>1. n - 1 \in 0..(m - 1) /\ (n - 1) + 1 = n
        BY <3>2, <1>2
      <4> QED BY <2>1, <3>2, <4>1 DEF Next1
    <3> QED BY <3>1, <3>2
  <2>3. f = [n \in 0..m |-> f[n]] /\ Body(f) = [n \in 0..m |-> Body(f)[n]]
    BY <2>1
  <2> HIDE DEF Body
  <2> QED BY <2>2, <2>3
<1>5. u = Body(u)
  <2> HIDE DEF Body
  <2> QED BY <1>4
<1>6. ASSUME NEW n \in 0..m PROVE u[n] = f[n]
  <2> DEFINE Bad == {k \in 0..m : u[k] # f[k]}
  <2> SUFFICES ASSUME Bad # {} PROVE FALSE
    OBVIOUS
  <2>1. PICK k \in Bad : \A c \in Bad : k <= c
    <3>1. Bad \in SUBSET Nat
      BY <1>2
    <3> HIDE DEF Bad
    <3> QED BY <3>1, LeastOf
  <2>2. k # 0
    <3>1. u[0] = Body(u)[0] /\ f[0] = Body(f)[0]
      <4> HIDE DEF Body, u
      <4> QED BY <1>4, <1>5
    <3>2. Body(u)[0] = New /\ Body(f)[0] = New
      BY <1>2
    <3> HIDE DEF Body, u
    <3> QED BY <3>1, <3>2
  <2>3. k \in Nat /\ k - 1 \in 0..m /\ ~(k <= k - 1)
    BY <2>2, <1>2
  <2>4. u[k - 1] = f[k - 1]
    <3> HIDE DEF u
    <3> QED BY <2>1, <2>3
  <2>5. u[k] = Body(u)[k] /\ f[k] = Body(f)[k]
    <3> HIDE DEF Body, u
    <3> QED BY <1>4, <1>5
  <2> HIDE DEF u
  <2>6. Body(u)[k] = Body(f)[k]
    BY <2>1, <2>2, <2>4
  <2> HIDE DEF Body
  <2> QED BY <2>1, <2>5, <2>6
<1>7. u[m] = f[m]
  BY <1>2, <1>6
<1> HIDE DEF u, Body
<1> QED BY <1>1, <1>2, <1>3, <1>7

\* The union of the children: it knows what any of them knows, or says that it
\* does not, and counts nothing else.
LEMMA UnionOf ==
  ASSUME TypeOK, work.width \in {1, Warm, Cold},
         NEW kids \in SUBSET Bucket, \A b \in kids : b[1] = work.width
  PROVE  /\ Union(kids) \in SketchSet
         /\ \A i \in Union(kids).items : \E b \in kids : i \in row[b].items
         /\ \A b \in kids, i \in Item :
              Holds(b, i) => Union(kids).mode = "UNAVAILABLE" \/ i \in Union(kids).items
<1>1. PICK f : SumOf(kids, f, Horizon + 1) /\ Union(kids) = f[Horizon + 1]
  BY UnionIs
<1> DEFINE m == Horizon + 1
           Knows(n) ==
             /\ \A i \in f[n].items : \E b \in kids : i \in row[b].items
             /\ \A b \in kids, i \in Item :
                  b[2] < n /\ Holds(b, i) => f[n].mode = "UNAVAILABLE" \/ i \in f[n].items
           Bad == {n \in 0..m : ~Knows(n)}
<1>2. m \in Nat /\ m \in 0..m /\ m = Horizon + 1
  BY Widths
<1>3. /\ f \in [0..m -> SketchSet] /\ f[0] = New
      /\ \A n \in 0..(m - 1) : f[n + 1] = Next1(kids, f[n], n)
  BY <1>1 DEF SumOf
<1>4. Bad = {}
  <2> SUFFICES ASSUME Bad # {} PROVE FALSE
    OBVIOUS
  <2>1. PICK k \in Bad : \A c \in Bad : k <= c
    <3>1. Bad \in SUBSET Nat
      BY <1>2
    <3> HIDE DEF Bad
    <3> QED BY <3>1, LeastOf
  <2>2. k # 0
    <3>1. f[0].items = {}
      BY <1>3, NewType DEF TypeOK
    <3>2. \A b \in kids : ~(b[2] < 0)
      BY BucketType
    <3>3. Knows(0)
      BY <3>1, <3>2
    <3> QED BY <3>3
  <2> DEFINE j == k - 1
  <2>3. j \in 0..(m - 1) /\ j \in 0..m /\ j \in Nat /\ k = j + 1 /\ ~(k <= j) /\ k \in 0..m
    BY <2>2, <1>2
  <2> HIDE DEF j, m
  <2>4. Knows(j)
    <3> HIDE DEF Knows
    <3> QED BY <2>1, <2>3
  <2>5. f[k] = Next1(kids, f[j], j) /\ f[j] \in SketchSet
    BY <1>3, <2>3
  <2> DEFINE c == <<work.width, j>>
  <2>6. \A b \in kids : b[2] < k => b[2] < j \/ b = c
    <3>1. \A b \in kids : b[2] \in Nat /\ b = <<b[1], b[2]>>
      BY BucketType
    <3>2. ASSUME NEW b \in kids, b[2] < k, ~(b[2] < j) PROVE b[2] = j
      BY <3>1, <3>2, <2>3
    <3> QED BY <3>1, <3>2
  <2>7. CASE c \notin kids
    <3>1. f[k] = f[j]
      BY <2>5, <2>7, <2>3, NextOne
    <3>2. Knows(k)
      BY <2>4, <2>6, <2>7, <3>1
    <3> QED BY <3>2
  <2>8. CASE c \in kids
    <3>1. f[k] = Merged(f[j], row[c])
      BY <2>5, <2>8, <2>3, NextOne
    <3>2. row[c].mode \in Mode /\ row[c].items \in SUBSET Item
      BY <2>8 DEF TypeOK
    <3>3. /\ f[k].items \subseteq f[j].items \cup row[c].items
          /\ "UNAVAILABLE" \in {f[j].mode, row[c].mode} => f[k].mode = "UNAVAILABLE"
          /\ \/ f[k].mode = "UNAVAILABLE"
             \/ f[j].items \cup row[c].items \subseteq f[k].items
      BY <2>5, <3>1, <3>2, MergedType
    <3>4. \A i \in f[k].items : \E b \in kids : i \in row[b].items
      BY <2>4, <2>8, <3>3
    <3>5. ASSUME NEW b \in kids, NEW i \in Item, b[2] < k, Holds(b, i)
          PROVE  f[k].mode = "UNAVAILABLE" \/ i \in f[k].items
      <4>1. CASE b = c
        BY <4>1, <3>3, <3>5 DEF Holds
      <4>2. CASE b[2] < j
        <5>1. f[j].mode = "UNAVAILABLE" \/ i \in f[j].items
          BY <2>4, <3>5, <4>2
        <5> QED BY <5>1, <3>3
      <4> QED BY <2>6, <3>5, <4>1, <4>2
    <3>6. Knows(k)
      BY <3>4, <3>5
    <3> QED BY <3>6
  <2> QED BY <2>7, <2>8
<1>5. Knows(m)
  <2> HIDE DEF Knows, m
  <2> QED BY <1>2, <1>4
<1>6. \A b \in kids : b[2] < m
  <2>1. \A b \in kids : b[2] \in 0..Horizon
    BY BucketType DEF Time
  <2> QED BY <2>1, <1>2, Widths
<1>7. f[m] \in SketchSet
  BY <1>2, <1>3
<1> HIDE DEF m
<1> QED BY <1>1, <1>2, <1>5, <1>6, <1>7

-----------------------------------------------------------------------------
(***************************************************************************)
(* What each step changes.                                                 *)
(***************************************************************************)

RowSet == [there : BOOLEAN, mode : Mode, items : SUBSET Item, sealed : BOOLEAN, state : State]

\* The buckets of the roll-up that is under way.
LEMMA RollOf ==
  ASSUME Typed, Planned, Rolling
  PROVE  /\ InPass /\ work.width \in {1, Warm} /\ work.kids # {} /\ work.kids \subseteq Rows
         /\ TheParent \in Bucket /\ TheParent[1] = Wider(work.width)
         /\ work.width = 1 => TheParent[1] = Warm
         /\ work.width = Warm => TheParent[1] = Cold
         /\ \A b \in work.kids : b[1] = work.width /\ Parent(b) = TheParent /\ b # TheParent
<1>1. InPass /\ work.width \in {1, Warm} /\ work.kids # {}
  BY DEF Rolling, InPass, Planned, Typed, TypeOK
<1>2. PICK b \in work.kids : TRUE
  BY <1>1
<1>3. b \in Bucket /\ b[1] = work.width /\ Parent(b) = TheParent /\ b[1] # Cold
  BY <1>1, Widths DEF Planned, Rows
<1>4. /\ TheParent \in Bucket /\ TheParent[1] = Wider(work.width)
      /\ work.width = 1 => TheParent[1] = Warm
      /\ work.width = Warm => TheParent[1] = Cold
  BY <1>3, ParentOf
<1>5. TheParent[1] # work.width
  BY <1>1, <1>4, Widths
<1>6. \A c \in work.kids : c \in Rows /\ c[1] = work.width /\ Parent(c) = TheParent
  BY DEF Planned
<1> QED
  BY <1>1, <1>4, <1>5, <1>6

LEMMA UpsertType ==
  ASSUME Typed, NEW b \in Bucket, NEW mode \in Mode, NEW items \in SUBSET Item,
         NEW sealed \in BOOLEAN, NEW state \in State
  PROVE  LET u == Upsert(b, mode, items, sealed, state)
         IN /\ u \in RowSet /\ u.there /\ u.mode = mode /\ u.items = items
            /\ b \in Rows => u.state = row[b].state /\ (u.sealed <=> row[b].sealed \/ sealed)
            /\ b \notin Rows => u.state = state /\ (u.sealed <=> sealed)
<1>1. row[b] \in RowSet
  BY DEF Typed, TypeOK, RowSet
<1>2. CASE row[b].there
  <2>1. b \in Rows
    BY <1>2 DEF Rows
  <2>2. Upsert(b, mode, items, sealed, state)
          = [row[b] EXCEPT !.mode = mode, !.items = items, !.sealed = @ \/ sealed]
    BY <1>2 DEF Upsert
  <2> QED BY <1>1, <1>2, <2>1, <2>2 DEF RowSet
<1>3. CASE ~row[b].there
  <2>1. b \notin Rows
    BY <1>3 DEF Rows
  <2>2. Upsert(b, mode, items, sealed, state)
          = [there |-> TRUE, mode |-> mode, items |-> items, sealed |-> sealed, state |-> state]
    BY <1>3 DEF Upsert
  <2> QED BY <2>1, <2>2 DEF RowSet
<1> QED
  BY <1>2, <1>3

\* An update is written: its bucket is there and keeps its mark.
LEMMA PersistOf ==
  ASSUME Typed, UpdatePersist
  PROVE  LET b == Hot(update.time)
         IN /\ b \in Bucket /\ b[1] = 1 /\ update.at = "read" /\ update.item \in Item
            /\ row' \in [Bucket -> RowSet]
            /\ \A c \in Bucket : c # b => row'[c] = row[c]
            /\ b \in Rows' /\ Rows' = Rows \cup {b}
            /\ row'[b].mode = update.mode /\ row'[b].items = update.items
            /\ b \in Rows => row'[b].state = row[b].state /\ (row'[b].sealed <=> row[b].sealed)
            /\ b \notin Rows => row'[b].state = "none" /\ ~row'[b].sealed
<1> DEFINE b == Hot(update.time)
<1>1. update.at = "read" /\ update.time \in Time /\ update.item \in Item
      /\ update.mode \in Mode /\ update.items \in SUBSET Item
  BY DEF UpdatePersist, Typed
<1>2. b \in Bucket /\ b[1] = 1
  <2>0. \A x \in Nat : x % 1 = 0
    OBVIOUS
  <2> QED BY <2>0, <1>1, Widths DEF Hot, Bucket
<1> DEFINE u == Upsert(b, update.mode, update.items, FALSE, "none")
<1>3. row' = [row EXCEPT ![b] = u] /\ row \in [Bucket -> RowSet]
  BY DEF UpdatePersist, Typed, TypeOK, RowSet
<1> HIDE DEF b
<1>4. /\ u \in RowSet /\ u.there /\ u.mode = update.mode /\ u.items = update.items
      /\ b \in Rows => u.state = row[b].state /\ (u.sealed <=> row[b].sealed \/ FALSE)
      /\ b \notin Rows => u.state = "none" /\ (u.sealed <=> FALSE)
  BY <1>1, <1>2, UpsertType DEF State
<1> HIDE DEF u
<1>5. row' \in [Bucket -> RowSet] /\ row'[b] = u /\ \A c \in Bucket : c # b => row'[c] = row[c]
  BY <1>2, <1>3, <1>4
<1>6. Rows' = Rows \cup {b} /\ b \in Rows'
  BY <1>2, <1>4, <1>5 DEF Rows
<1>7. /\ row'[b].mode = update.mode /\ row'[b].items = update.items
      /\ b \in Rows => row'[b].state = row[b].state /\ (row'[b].sealed <=> row[b].sealed)
      /\ b \notin Rows => row'[b].state = "none" /\ ~row'[b].sealed
  BY <1>4, <1>5
<1> QED
  BY <1>1, <1>2, <1>5, <1>6, <1>7 DEF b

\* A roll-up is written: the parent is there, sealed, and keeps its mark.
LEMMA RollPersistOf ==
  ASSUME Typed, Planned, RollPersist
  PROVE  /\ Rolling /\ work.at = "persist" /\ work' = [work EXCEPT !.at = "mark"]
         /\ row' \in [Bucket -> RowSet]
         /\ \A c \in Bucket : c # TheParent => row'[c] = row[c]
         /\ TheParent \in Rows' /\ Rows' = Rows \cup {TheParent}
         /\ row'[TheParent].mode = work.mode /\ row'[TheParent].items = work.items
         /\ row'[TheParent].sealed
         /\ row'[TheParent].state = "verified_child"
              <=> TheParent \in Rows /\ row[TheParent].state = "verified_child"
         /\ UNCHANGED <<kind, library, now, rollup, update, seen, late, expired>>
<1> DEFINE p == TheParent
           st == IF kind = "distinct" THEN "verified_parent" ELSE "none"
<1>1. Rolling /\ work.at = "persist" /\ work' = [work EXCEPT !.at = "mark"]
      /\ UNCHANGED <<kind, library, now, rollup, update, seen, late, expired>>
  BY DEF RollPersist, Step, Rolling
<1>2. p \in Bucket /\ work.mode \in Mode /\ work.items \in SUBSET Item
  BY <1>1, RollOf DEF Typed
<1> DEFINE u == Upsert(p, work.mode, work.items, TRUE, st)
<1>3. row' = [row EXCEPT ![p] = u] /\ row \in [Bucket -> RowSet]
  BY DEF RollPersist, Typed, TypeOK, RowSet
<1>4. st \in State /\ st # "verified_child"
  BY DEF State
<1> HIDE DEF p, st
<1>5. /\ u \in RowSet /\ u.there /\ u.mode = work.mode /\ u.items = work.items
      /\ p \in Rows => u.state = row[p].state /\ (u.sealed <=> row[p].sealed \/ TRUE)
      /\ p \notin Rows => u.state = st /\ (u.sealed <=> TRUE)
  BY <1>2, <1>4, UpsertType
<1> HIDE DEF u
<1>6. row' \in [Bucket -> RowSet] /\ row'[p] = u /\ \A c \in Bucket : c # p => row'[c] = row[c]
  BY <1>2, <1>3, <1>5
<1>7. Rows' = Rows \cup {p} /\ p \in Rows'
  BY <1>2, <1>5, <1>6 DEF Rows
<1>8. /\ row'[p].mode = work.mode /\ row'[p].items = work.items /\ row'[p].sealed
      /\ row'[p].state = "verified_child" <=> p \in Rows /\ row[p].state = "verified_child"
  BY <1>4, <1>5, <1>6
<1> QED
  BY <1>1, <1>6, <1>7, <1>8 DEF p

\* The links are written: the children are marked, and of a stream the parent
\* is to be rolled up again.
LEMMA RollMarkOf ==
  ASSUME Typed, Planned, RollMark
  PROVE  /\ Rolling /\ work.at = "mark"
         /\ work' = [work EXCEPT !.at = "roll", !.kids = {}, !.mode = "EXACT", !.items = {}]
         /\ row' \in [Bucket -> RowSet] /\ Rows' = Rows
         /\ \A b \in Bucket : row'[b].mode = row[b].mode /\ row'[b].items = row[b].items
                              /\ (row'[b].sealed <=> row[b].sealed)
         /\ \A b \in work.kids : row'[b].state = "verified_child"
         /\ \A b \in Bucket \ work.kids :
              row'[b].state = IF b = TheParent /\ kind = "stream" THEN "verified_parent"
                              ELSE row[b].state
         /\ rollup' = rollup \cup ({TheParent} \X work.kids)
         /\ UNCHANGED <<kind, library, now, update, seen, late, expired>>
<1>1. /\ Rolling /\ work.at = "mark"
      /\ work' = [work EXCEPT !.at = "roll", !.kids = {}, !.mode = "EXACT", !.items = {}]
      /\ rollup' = rollup \cup ({TheParent} \X work.kids)
      /\ UNCHANGED <<kind, library, now, update, seen, late, expired>>
  BY DEF RollMark, Step, Rolling
<1>2. row \in [Bucket -> RowSet]
  BY DEF Typed, TypeOK, RowSet
<1>3. ASSUME NEW b \in Bucket
      PROVE  /\ row'[b] \in RowSet /\ (row'[b].there <=> row[b].there)
             /\ row'[b].mode = row[b].mode /\ row'[b].items = row[b].items
             /\ (row'[b].sealed <=> row[b].sealed)
             /\ b \in work.kids => row'[b].state = "verified_child"
             /\ b \notin work.kids =>
                  row'[b].state = IF b = TheParent /\ kind = "stream" THEN "verified_parent"
                                  ELSE row[b].state
  <2>1. CASE b \in work.kids
    <3>0. b # TheParent
      BY <1>1, <2>1, RollOf
    <3>1. row'[b] = [row[b] EXCEPT !.state = "verified_child"]
      BY <2>1, <3>0 DEF RollMark
    <3> QED BY <1>2, <2>1, <3>1 DEF RowSet, State
  <2>2. CASE b \notin work.kids /\ b = TheParent /\ kind = "stream"
    <3>1. row'[b] = [row[b] EXCEPT !.state = "verified_parent"]
      BY <2>2 DEF RollMark
    <3> QED BY <1>2, <2>2, <3>1 DEF RowSet, State
  <2>3. CASE b \notin work.kids /\ ~(b = TheParent /\ kind = "stream")
    <3>1. row'[b] = row[b]
      BY <2>3 DEF RollMark
    <3> QED BY <1>2, <2>3, <3>1
  <2> QED BY <2>1, <2>2, <2>3
<1>4. row' = [b \in Bucket |-> row'[b]]
  BY DEF RollMark
<1>5. row' \in [Bucket -> RowSet] /\ Rows' = Rows
  BY <1>3, <1>4 DEF Rows
<1> QED
  BY <1>1, <1>3, <1>5, RollOf DEF Rows

\* What is over is sealed.
LEMMA SealOf ==
  ASSUME Typed
  PROVE  /\ Seal \in [Bucket -> RowSet]
         /\ \A b \in Bucket :
              /\ (Seal[b].there <=> row[b].there) /\ Seal[b].mode = row[b].mode
              /\ Seal[b].items = row[b].items /\ Seal[b].state = row[b].state
              /\ Seal[b].sealed <=> row[b].sealed \/ (row[b].there /\ End(b) <= now)
<1>1. row \in [Bucket -> RowSet]
  BY DEF Typed, TypeOK, RowSet
<1>2. ASSUME NEW b \in Bucket
      PROVE  /\ Seal[b] \in RowSet
             /\ (Seal[b].there <=> row[b].there) /\ Seal[b].mode = row[b].mode
             /\ Seal[b].items = row[b].items /\ Seal[b].state = row[b].state
             /\ Seal[b].sealed <=> row[b].sealed \/ (row[b].there /\ End(b) <= now)
  <2>1. Seal[b] = [row[b] EXCEPT !.sealed = @ \/ (row[b].there /\ End(b) <= now)]
    BY DEF Seal
  <2>2. row[b] \in RowSet
    BY <1>1
  <2> QED BY <2>1, <2>2 DEF RowSet
<1>3. Seal = [b \in Bucket |-> Seal[b]]
  BY DEF Seal
<1> QED
  BY <1>2, <1>3

\* Rows of one width expire: no hot or warm one that is still to be rolled up.
LEMMA ExpireOf ==
  ASSUME Typed, Expire
  PROVE  /\ work.at = "expire" /\ Expirable \subseteq Rows
         /\ \A b \in Expirable :
              /\ b[1] = work.width /\ End(b) + Keep(b[1]) <= work.now
              /\ b[1] # Cold => row[b].state = "verified_child"
         /\ row' \in [Bucket -> RowSet] /\ Rows' = Rows \ Expirable
         /\ \A b \in Bucket \ Expirable : row'[b] = row[b]
         /\ \A b \in Expirable : row'[b] = NoRow
         /\ rollup' = {r \in rollup : {r[1], r[2]} \cap Expirable = {}}
         /\ expired' = expired \cup {b \in Expirable : b[1] = Cold}
         /\ work' = IF work.width = Cold THEN IdleWork
                    ELSE [work EXCEPT !.width = Wider(work.width)]
         /\ UNCHANGED <<kind, library, now, update, seen, late>>
<1>1. Expirable \subseteq Rows /\ Rows \subseteq Bucket
  BY DEF Expirable, Rows
<1>2. ASSUME NEW b \in Expirable
      PROVE  /\ b[1] = work.width /\ End(b) + Keep(b[1]) <= work.now
             /\ b[1] # Cold => row[b].state = "verified_child"
  BY DEF Expirable
<1>3. row' = [b \in Bucket |-> IF b \in Expirable THEN NoRow ELSE row[b]]
  BY DEF Expire
<1>4. NoRow \in RowSet /\ ~NoRow.there
  BY DEF NoRow, RowSet, Mode, State
<1>5. row \in [Bucket -> RowSet]
  BY DEF Typed, TypeOK, RowSet
<1> DEFINE E == Expirable
<1>6. /\ row' \in [Bucket -> RowSet]
      /\ \A b \in Bucket \ E : row'[b] = row[b]
      /\ \A b \in E : row'[b] = NoRow
  BY <1>1, <1>3, <1>4, <1>5
<1>7. Rows' = Rows \ E
  <2> HIDE DEF E
  <2> QED BY <1>1, <1>4, <1>6 DEF Rows
<1>8. /\ work.at = "expire"
      /\ rollup' = {r \in rollup : {r[1], r[2]} \cap Expirable = {}}
      /\ expired' = expired \cup {b \in Expirable : b[1] = Cold}
      /\ work' = IF work.width = Cold THEN IdleWork
                 ELSE [work EXCEPT !.width = Wider(work.width)]
      /\ UNCHANGED <<kind, library, now, update, seen, late>>
  BY DEF Expire, Step
<1> QED
  BY <1>1, <1>2, <1>6, <1>7, <1>8

-----------------------------------------------------------------------------
(***************************************************************************)
(* Types.                                                                  *)
(***************************************************************************)

WorkSet == [at : {"idle", "roll", "persist", "mark", "expire"}, now : Time,
            width : {1, Warm, Cold}, todo : SUBSET Bucket, kids : SUBSET Bucket,
            mode : Mode, items : SUBSET Item]
UpdateSet == [at : {"idle", "observed", "read"}, item : Item \cup {NoItem}, time : Time,
              mode : Mode, items : SUBSET Item]

\* What is known of the types, in one line for each variable.
TypedParts ==
  /\ kind \in {"distinct", "stream"} /\ library \in BOOLEAN /\ now \in Time
  /\ row \in [Bucket -> RowSet]
  /\ \A b \in Bucket \ Rows : row[b] = NoRow
  /\ rollup \subseteq Rows \X Bucket
  /\ update \in UpdateSet /\ (update.at # "idle" => update.item \in Item)
  /\ work \in WorkSet /\ (work.at \in {"persist", "mark"} <=> work.kids # {})
  /\ seen \subseteq Item \X Time /\ late \subseteq seen /\ expired \subseteq Bucket

LEMMA Parts == Typed <=> TypedParts
<1>1. TypedParts => Typed
  BY DEF Typed, TypeOK, TypedParts, RowSet, UpdateSet, WorkSet
<1>2. Typed => TypedParts
  BY DEF Typed, TypeOK, TypedParts, RowSet, UpdateSet, WorkSet
<1> QED
  BY <1>1, <1>2

LEMMA PartsNext == TypedParts' => Typed'
BY DEF Typed, TypeOK, TypedParts, RowSet, UpdateSet, WorkSet, Rows

LEMMA IdleTypes == IdleUpdate \in UpdateSet /\ IdleWork \in WorkSet
                   /\ IdleUpdate.at = "idle" /\ IdleWork.at = "idle"
                   /\ IdleWork.kids = {} /\ IdleWork.todo = {} /\ IdleWork.now = 0
                   /\ IdleWork.width = 1
BY Widths DEF IdleUpdate, IdleWork, UpdateSet, WorkSet, Mode

LEMMA InitType == Init => Typed
<1> SUFFICES ASSUME Init PROVE TypedParts
  BY Parts
<1>1. NoRow \in RowSet /\ ~NoRow.there
  BY DEF NoRow, RowSet, Mode, State
<1>2. library \in BOOLEAN
  BY DEF Init
<1>3. row \in [Bucket -> RowSet] /\ \A b \in Bucket \ Rows : row[b] = NoRow
  BY <1>1 DEF Init
<1>4. update \in UpdateSet /\ update.at = "idle" /\ work \in WorkSet
      /\ work.at = "idle" /\ work.kids = {}
  BY IdleTypes DEF Init
<1> QED
  BY <1>2, <1>3, <1>4, Widths DEF TypedParts, Init

\* The base that an update or a merge starts from.
LEMMA BaseType ==
  ASSUME TypedParts, NEW b \in Bucket
  PROVE  (IF row[b].there THEN Sketch(row[b].mode, row[b].items) ELSE New) \in SketchSet
<1>1. row[b] \in RowSet
  BY DEF TypedParts
<1>2. Sketch(row[b].mode, row[b].items) \in SketchSet
  BY <1>1 DEF RowSet, Sketch, SketchSet
<1> QED
  BY <1>2, NewType DEF TypedParts

LEMMA UpdateType ==
  ASSUME Typed, Update
  PROVE  Typed'
<1> SUFFICES ASSUME TypedParts PROVE TypedParts'
  BY Parts, PartsNext
<1>1. ASSUME NEW i \in Item, Observe(i) PROVE TypedParts'
  <2>1. /\ update' \in UpdateSet /\ update'.item \in Item
        /\ UNCHANGED <<kind, library, now, row, rollup, work, seen, late, expired>>
    <3>1. update' = [IdleUpdate EXCEPT !.at = "observed", !.item = i, !.time = now]
      BY <1>1 DEF Observe
    <3> QED BY <3>1, <1>1 DEF Observe, IdleUpdate, UpdateSet, TypedParts, Mode
  <2> QED BY <2>1 DEF TypedParts, Rows
<1>2. CASE UpdateRead
  <2> DEFINE b == Hot(update.time)
             base == IF row[b].there THEN Sketch(row[b].mode, row[b].items) ELSE New
             next == Add(base, update.item)
  <2>1. /\ update.at = "observed" /\ update.item \in Item /\ update \in UpdateSet
        /\ update' = IF row[b].there /\ row[b].sealed THEN IdleUpdate
                     ELSE [update EXCEPT !.at = "read", !.mode = next.mode, !.items = next.items]
        /\ UNCHANGED <<kind, library, now, row, rollup, work, seen, late, expired>>
    BY <1>2 DEF UpdateRead, TypedParts
  <2>2. b \in Bucket
    <3>0. \A x \in Nat : x % 1 = 0
      OBVIOUS
    <3> QED BY <3>0, <2>1, Widths DEF Hot, Bucket, UpdateSet
  <2>3. base \in SketchSet
    BY <2>2, BaseType
  <2> HIDE DEF base
  <2>4. next \in SketchSet
    BY <2>1, <2>3, AddType
  <2> HIDE DEF next, b
  <2>5. update' \in UpdateSet /\ (update'.at # "idle" => update'.item \in Item)
    <3>1. CASE update' = IdleUpdate
      BY <3>1, IdleTypes
    <3>2. CASE update' = [update EXCEPT !.at = "read", !.mode = next.mode, !.items = next.items]
      BY <3>2, <2>1, <2>4 DEF UpdateSet, SketchSet
    <3> QED BY <2>1, <3>1, <3>2
  <2> QED BY <2>1, <2>5 DEF TypedParts, Rows
<1>3. CASE UpdatePersist
  <2> DEFINE b == Hot(update.time)
  <2>1. /\ b \in Bucket /\ row' \in [Bucket -> RowSet] /\ Rows' = Rows \cup {b}
        /\ \A c \in Bucket : c # b => row'[c] = row[c]
        /\ update.item \in Item
    BY <1>3, PersistOf DEF TypedParts
  <2>2. /\ update' = IdleUpdate
        /\ seen' = seen \cup {<<update.item, update.time>>}
        /\ late' = late \/ late' = late \cup {<<update.item, update.time>>}
        /\ UNCHANGED <<kind, library, now, rollup, work, expired>>
    BY <1>3 DEF UpdatePersist
  <2>3. \A c \in Bucket \ Rows' : row'[c] = NoRow
    BY <2>1 DEF TypedParts
  <2>4. update.time \in Time
    BY DEF TypedParts, UpdateSet
  <2> HIDE DEF b
  <2> QED BY <2>1, <2>2, <2>3, <2>4, IdleTypes DEF TypedParts
<1> QED
  BY <1>1, <1>2, <1>3 DEF Update

LEMMA PassType ==
  ASSUME Typed, Planned, Made, Pass
  PROVE  Typed'
<1> SUFFICES ASSUME TypedParts PROVE TypedParts'
  BY Parts, PartsNext
<1>1. CASE Maintain
  <2>1. /\ row' = Seal
        /\ work' = [IdleWork EXCEPT !.at = "roll", !.now = now, !.todo = Plan(Seal, 1, now)]
        /\ UNCHANGED <<kind, library, now, rollup, update, seen, late, expired>>
    BY <1>1 DEF Maintain, Step
  <2>2. row' \in [Bucket -> RowSet] /\ Rows' = Rows
    BY <2>1, SealOf DEF Rows
  <2>3. \A b \in Bucket \ Rows' : row'[b] = NoRow
    <3>1. ASSUME NEW b \in Bucket \ Rows' PROVE row'[b] = NoRow
      <4>1. row[b] = NoRow /\ ~row[b].there /\ ~row[b].sealed
        BY <3>1, <2>2 DEF TypedParts, Rows, NoRow
      <4>2. row'[b] = [row[b] EXCEPT !.sealed = @ \/ (row[b].there /\ End(b) <= now)]
        BY <2>1 DEF Seal
      <4>3. row'[b] = [NoRow EXCEPT !.sealed = FALSE]
        BY <4>1, <4>2
      <4> QED BY <4>3 DEF NoRow
    <3> QED BY <3>1
  <2>4. Plan(Seal, 1, now) \subseteq Bucket
    <3>1. \A b \in Bucket : b[1] = 1 => Parent(b) \in Bucket
      BY ParentOf, Widths
    <3> QED BY <3>1 DEF Plan
  <2>5. work' \in WorkSet /\ work'.at = "roll" /\ work'.kids = {}
    BY <2>1, <2>4, IdleTypes DEF WorkSet, TypedParts
  <2> QED BY <2>1, <2>2, <2>3, <2>5 DEF TypedParts
<1>2. ASSUME NEW p \in Bucket, RollRead(p) PROVE TypedParts'
  <2>1. /\ work.at = "roll" /\ p \in work.todo
        /\ UNCHANGED <<kind, library, now, row, rollup, update, seen, late, expired>>
        /\ work' = IF Refused(Union(Children(p))) THEN IdleWork
                   ELSE [work EXCEPT !.at = "persist", !.todo = @ \ {p}, !.kids = Children(p),
                                     !.mode = Union(Children(p)).mode,
                                     !.items = Union(Children(p)).items]
    BY <1>2 DEF RollRead, Step
  <2>2. Children(p) \subseteq Bucket /\ Children(p) # {} /\ \A b \in Children(p) : b[1] = work.width
    BY <2>1 DEF Planned, Children, Rows
  <2>3. Union(Children(p)) \in SketchSet
    <3>1. TypeOK /\ work.width \in {1, Warm, Cold}
      BY DEF Typed
    <3> QED BY <3>1, <2>2, UnionOf
  <2>4. work' \in WorkSet /\ (work'.at \in {"persist", "mark"} <=> work'.kids # {})
    <3>1. CASE work' = IdleWork
      BY <3>1, IdleTypes
    <3>2. CASE work' = [work EXCEPT !.at = "persist", !.todo = @ \ {p}, !.kids = Children(p),
                                    !.mode = Union(Children(p)).mode,
                                    !.items = Union(Children(p)).items]
      BY <3>2, <2>2, <2>3 DEF WorkSet, SketchSet, TypedParts
    <3> QED BY <2>1, <3>1, <3>2
  <2> QED BY <2>1, <2>4 DEF TypedParts, Rows
<1>3. CASE RollPersist
  <2>1. /\ work.at = "persist" /\ work' = [work EXCEPT !.at = "mark"]
        /\ row' \in [Bucket -> RowSet] /\ Rows' = Rows \cup {TheParent}
        /\ \A c \in Bucket : c # TheParent => row'[c] = row[c]
        /\ UNCHANGED <<kind, library, now, rollup, update, seen, late, expired>>
    BY <1>3, RollPersistOf
  <2>2. work' \in WorkSet /\ (work'.at \in {"persist", "mark"} <=> work'.kids # {})
    BY <2>1 DEF WorkSet, TypedParts
  <2>3. \A b \in Bucket \ Rows' : row'[b] = NoRow
    BY <2>1 DEF TypedParts
  <2> QED BY <2>1, <2>2, <2>3 DEF TypedParts
<1>4. CASE RollMark
  <2>1. /\ work' = [work EXCEPT !.at = "roll", !.kids = {}, !.mode = "EXACT", !.items = {}]
        /\ row' \in [Bucket -> RowSet] /\ Rows' = Rows /\ Rolling /\ work.at = "mark"
        /\ rollup' = rollup \cup ({TheParent} \X work.kids)
        /\ UNCHANGED <<kind, library, now, update, seen, late, expired>>
    BY <1>4, RollMarkOf
  <2>2. TheParent \in Rows /\ work.kids \subseteq Bucket
    BY <2>1, RollOf DEF Made, Rows
  <2>3. work' \in WorkSet /\ work'.at = "roll" /\ work'.kids = {}
    BY <2>1 DEF WorkSet, TypedParts, Mode
  <2>4. ASSUME NEW b \in Bucket \ Rows' PROVE row'[b] = NoRow
    <3>1. b \notin work.kids /\ b # TheParent /\ row[b] = NoRow
      BY <2>1, <2>2, <2>4, RollOf DEF TypedParts
    <3> QED BY <1>4, <3>1 DEF RollMark
  <2> QED BY <2>1, <2>2, <2>3, <2>4 DEF TypedParts
<1>5. CASE RollDone
  <2>1. /\ work.at = "roll"
        /\ UNCHANGED <<kind, library, now, row, rollup, update, seen, late, expired>>
        /\ work' = IF work.width = 1
                   THEN [work EXCEPT !.width = Warm, !.todo = Plan(row, Warm, work.now)]
                   ELSE [work EXCEPT !.at = "expire", !.width = 1]
    BY <1>5 DEF RollDone, Step
  <2>2. Plan(row, Warm, work.now) \subseteq Bucket
    <3>1. \A b \in Bucket : b[1] = Warm => Parent(b) \in Bucket
      BY ParentOf, Widths
    <3> QED BY <3>1 DEF Plan
  <2>3. work' \in WorkSet /\ (work'.at \in {"persist", "mark"} <=> work'.kids # {})
    BY <2>1, <2>2 DEF WorkSet, TypedParts
  <2> QED BY <2>1, <2>3 DEF TypedParts, Rows
<1>6. CASE Expire
  <2>1. /\ work.at = "expire" /\ Expirable \subseteq Rows
        /\ row' \in [Bucket -> RowSet] /\ Rows' = Rows \ Expirable
        /\ \A b \in Bucket \ Expirable : row'[b] = row[b]
        /\ \A b \in Expirable : row'[b] = NoRow
        /\ rollup' = {r \in rollup : {r[1], r[2]} \cap Expirable = {}}
        /\ expired' = expired \cup {b \in Expirable : b[1] = Cold}
        /\ work' = IF work.width = Cold THEN IdleWork
                   ELSE [work EXCEPT !.width = Wider(work.width)]
        /\ UNCHANGED <<kind, library, now, update, seen, late>>
    BY <1>6, ExpireOf
  <2>2. \A b \in Bucket \ Rows' : row'[b] = NoRow
    BY <2>1 DEF TypedParts
  <2>3. rollup' \subseteq Rows' \X Bucket
    <3>1. ASSUME NEW r \in rollup' PROVE r \in Rows' \X Bucket
      <4>1. r \in Rows \X Bucket /\ r[1] \notin Expirable
        BY <2>1, <3>1 DEF TypedParts
      <4> QED BY <4>1, <2>1
    <3> QED BY <3>1
  <2>4. work' \in WorkSet /\ (work'.at \in {"persist", "mark"} <=> work'.kids # {})
    <3>1. CASE work.width = Cold
      BY <3>1, <2>1, IdleTypes
    <3>2. CASE work.width # Cold
      <4>1. work' = [work EXCEPT !.width = Wider(work.width)]
        BY <3>2, <2>1
      <4> QED BY <4>1 DEF WorkSet, TypedParts, Wider
    <3> QED BY <3>1, <3>2
  <2>5. expired' \subseteq Bucket
    BY <2>1 DEF TypedParts, Rows
  <2> HIDE DEF Expirable
  <2> QED BY <2>1, <2>2, <2>3, <2>4, <2>5 DEF TypedParts
<1> QED
  BY <1>1, <1>2, <1>3, <1>4, <1>5, <1>6 DEF Pass

LEMMA NextType ==
  ASSUME Typed, Planned, Made, [Next]_vars
  PROVE  Typed'
<1>1. CASE UNCHANGED vars
  BY <1>1, Parts, PartsNext DEF TypedParts, vars, Rows
<1>2. CASE Advance
  <2>1. now' \in Time /\ UNCHANGED <<kind, library, row, rollup, update, work, seen, late, expired>>
    <3>1. now \in Time /\ now < Horizon /\ now' = now + 1
      BY <1>2, Parts DEF Advance, TypedParts
    <3> QED BY <1>2, <3>1, Widths DEF Advance, Time
  <2> QED BY <2>1, Parts, PartsNext DEF TypedParts, Rows
<1>3. CASE Crash
  <2>1. /\ update' = IdleUpdate /\ work' = IdleWork
        /\ UNCHANGED <<kind, library, now, row, rollup, seen, late, expired>>
    BY <1>3 DEF Crash
  <2> QED BY <2>1, Parts, PartsNext, IdleTypes DEF TypedParts, Rows
<1> QED
  BY <1>1, <1>2, <1>3, UpdateType, PassType DEF Next

-----------------------------------------------------------------------------
(***************************************************************************)
(* Steps that change no sketch: what is kept of observations.              *)
(***************************************************************************)

\* Numbers that the comparisons are about.
LEMMA Numbers ==
  ASSUME Typed
  PROVE  /\ now \in Nat /\ work.now \in Nat /\ update.time \in Nat /\ update.time \in Time
         /\ row \in [Bucket -> RowSet] /\ Rows \subseteq Bucket
         /\ OnTime \subseteq seen /\ seen \subseteq Item \X Time
<1>1. now \in Time /\ work \in WorkSet /\ update \in UpdateSet
      /\ row \in [Bucket -> RowSet] /\ seen \subseteq Item \X Time
  BY Parts DEF TypedParts
<1>2. work.now \in Time /\ update.time \in Time
  BY <1>1 DEF WorkSet, UpdateSet
<1> QED
  BY <1>1, <1>2, Widths DEF OnTime, Rows

SameRows ==
  /\ \A b \in Bucket :
       /\ (row'[b].there <=> row[b].there) /\ row'[b].mode = row[b].mode
       /\ row'[b].items = row[b].items /\ row'[b].state = row[b].state
       /\ row[b].sealed => row'[b].sealed
  /\ UNCHANGED <<kind, seen, late, expired>>

LEMMA SameKeeps ==
  ASSUME Inv, SameRows
  PROVE  /\ Sourced' /\ HotHolds' /\ WarmHolds' /\ ColdHolds' /\ Somewhere'
         /\ Rows' = Rows /\ OnTime' = OnTime
         /\ \A b \in Bucket : Pending(b)' <=> Pending(b)
<1>0. Rows \subseteq Bucket /\ OnTime \subseteq seen /\ seen \subseteq Item \X Time
  BY Numbers DEF Inv
<1>1. Rows' = Rows /\ OnTime' = OnTime /\ seen' = seen /\ expired' = expired
  BY DEF SameRows, Rows, OnTime
<1>2. \A b \in Bucket : Pending(b)' <=> Pending(b)
  BY DEF SameRows, Pending
<1>3. \A b \in Bucket, i \in Item : Holds(b, i)' <=> Holds(b, i)
  BY DEF SameRows, Holds
<1>4. \A o \in seen : HotOf(o) \in Bucket /\ WarmOf(o) \in Bucket /\ ColdOf(o) \in Bucket
                      /\ o[1] \in Item
  BY <1>0, ChainOf
<1>5. Sourced'
  <2>1. ASSUME NEW b \in Rows PROVE row'[b].items \subseteq Observed(b)'
    <3>1. Observed(b)' = Observed(b)
      BY <1>1 DEF Observed
    <3> QED BY <2>1, <3>1, <1>0 DEF Inv, Sourced, SameRows
  <2> QED BY <2>1, <1>1 DEF Sourced
<1>6. HotHolds'
  BY <1>1, <1>3, <1>4 DEF Inv, HotHolds
<1>7. WarmHolds'
  BY <1>0, <1>1, <1>2, <1>3, <1>4 DEF Inv, WarmHolds
<1>8. ColdHolds'
  BY <1>0, <1>1, <1>2, <1>3, <1>4 DEF Inv, ColdHolds
<1>9. Somewhere'
  BY <1>0, <1>1, <1>2, <1>4 DEF Inv, Somewhere
<1> QED
  BY <1>1, <1>2, <1>5, <1>6, <1>7, <1>8, <1>9

\* Time goes on, or an update begins or is read.
LEMMA SilentKeeps ==
  ASSUME Inv, Typed', UNCHANGED <<kind, row, work, seen, late, expired>>, now <= now'
  PROVE  /\ Sealing' /\ Planned' /\ TurnComes' /\ PassComplete' /\ Made' /\ Sourced'
         /\ HotHolds' /\ HotGone' /\ WarmHolds' /\ WarmGone' /\ ColdHolds' /\ NoneAfter'
         /\ Somewhere' /\ work.now <= now'
<1>0. /\ now \in Nat /\ now' \in Nat /\ work.now \in Nat /\ Rows \subseteq Bucket
      /\ OnTime \subseteq seen /\ seen \subseteq Item \X Time
  <2>1. now' \in Nat
    BY Widths DEF Typed, TypeOK
  <2> QED BY <2>1, Numbers DEF Inv
<1>1. SameRows
  BY DEF SameRows
<1>2. /\ Sourced' /\ HotHolds' /\ WarmHolds' /\ ColdHolds' /\ Somewhere'
      /\ Rows' = Rows /\ OnTime' = OnTime
      /\ \A b \in Bucket : Pending(b)' <=> Pending(b)
  BY <1>1, SameKeeps
<1>3. \A x \in Nat : x <= now => x <= now'
  BY <1>0
<1>4. Sealing'
  <2>1. ASSUME NEW b \in Rows, row[b].state = "verified_child"
        PROVE  /\ row[b].sealed /\ b[1] # Cold /\ End(Parent(b)) <= now'
               /\ work.at # "idle" => End(Parent(b)) <= work.now
    <3>1. /\ row[b].sealed /\ b[1] # Cold /\ End(Parent(b)) <= now
          /\ work.at # "idle" => End(Parent(b)) <= work.now
      BY <2>1 DEF Inv, Sealing
    <3>2. End(Parent(b)) \in Nat
      BY <3>1, <1>0, ParentOf, BucketType
    <3> QED BY <3>1, <3>2, <1>3
  <2> QED BY <2>1, <1>2 DEF Inv, Sealing
<1>5. Planned' /\ TurnComes' /\ PassComplete'
  <2>1. Planned'
    BY <1>2 DEF Inv, Planned, InPass, Rolling, TheParent
  <2>2. TurnComes'
    BY <1>2, <1>0 DEF Inv, TurnComes, InPass, Due, Pending
  <2>3. PassComplete'
    BY <1>2, <1>0 DEF Inv, PassComplete, Pending
  <2> QED BY <2>1, <2>2, <2>3
<1>6. Made'
  <2>1. Observed(TheParent)' = Observed(TheParent)
    BY DEF Observed, TheParent
  <2> QED BY <2>1, <1>2 DEF Inv, Made, Rolling, TheParent, WorkHolds, Holds
<1>7. HotGone'
  <2>1. ASSUME NEW o \in seen, HotOf(o) \notin Rows
        PROVE  /\ End(HotOf(o)) + HotKeep <= now'
               /\ \A b \in Rows : b[1] = 1 /\ Parent(b) = WarmOf(o) => ~Pending(b)
               /\ WarmOf(o) \notin work.todo
               /\ Rolling => TheParent # WarmOf(o)
    <3>1. /\ End(HotOf(o)) + HotKeep <= now
          /\ \A b \in Rows : b[1] = 1 /\ Parent(b) = WarmOf(o) => ~Pending(b)
          /\ WarmOf(o) \notin work.todo
          /\ Rolling => TheParent # WarmOf(o)
      BY <2>1 DEF Inv, HotGone
    <3>2. End(HotOf(o)) + HotKeep \in Nat
      BY <1>0, <2>1, ChainOf, BucketType, Widths
    <3> QED BY <3>1, <3>2, <1>3
  <2> QED BY <2>1, <1>0, <1>2 DEF HotGone, Rolling, TheParent
<1>8. WarmGone'
  <2>1. ASSUME NEW o \in OnTime, WarmOf(o) \notin Rows, ~Pending(HotOf(o))
        PROVE  /\ End(WarmOf(o)) + WarmKeep <= now'
               /\ \A b \in Rows : b[1] # Cold /\ Top(b) = ColdOf(o) => ~Pending(b)
               /\ \A p \in work.todo : Top(p) # ColdOf(o)
               /\ Rolling => Top(TheParent) # ColdOf(o)
    <3>1. /\ End(WarmOf(o)) + WarmKeep <= now
          /\ \A b \in Rows : b[1] # Cold /\ Top(b) = ColdOf(o) => ~Pending(b)
          /\ \A p \in work.todo : Top(p) # ColdOf(o)
          /\ Rolling => Top(TheParent) # ColdOf(o)
      BY <2>1 DEF Inv, WarmGone
    <3>2. End(WarmOf(o)) + WarmKeep \in Nat
      BY <1>0, <2>1, ChainOf, BucketType, Widths
    <3> QED BY <3>1, <3>2, <1>3
  <2>2. \A o \in OnTime : HotOf(o) \in Bucket
    BY <1>0, ChainOf
  <2> QED BY <2>1, <2>2, <1>0, <1>2 DEF WarmGone, Rolling, TheParent
<1>9. NoneAfter'
  <2>1. \A o \in OnTime : HotOf(o) \in Bucket
    BY <1>0, ChainOf
  <2> QED BY <2>1, <1>2 DEF Inv, NoneAfter, After, TheParent
<1>10. work.now <= now'
  BY <1>0 DEF Inv, Clock
<1> QED
  BY <1>2, <1>4, <1>5, <1>6, <1>7, <1>8, <1>9, <1>10

\* The pass stops: at a crash, or at a sketch that is refused.
LEMMA StopKeeps ==
  ASSUME Inv, Typed', UNCHANGED <<kind, now, row, seen, late, expired>>, work' = IdleWork
  PROVE  /\ Sealing' /\ Planned' /\ TurnComes' /\ PassComplete' /\ Made' /\ Sourced'
         /\ HotHolds' /\ HotGone' /\ WarmHolds' /\ WarmGone' /\ ColdHolds' /\ NoneAfter'
         /\ Somewhere' /\ work'.now <= now'
<1>0. /\ now \in Nat /\ Rows \subseteq Bucket
      /\ OnTime \subseteq seen /\ seen \subseteq Item \X Time
      /\ work'.at = "idle" /\ work'.kids = {} /\ work'.todo = {} /\ work'.now = 0
  BY Numbers, IdleTypes DEF Inv
<1>1. SameRows
  BY DEF SameRows
<1>2. /\ Sourced' /\ HotHolds' /\ WarmHolds' /\ ColdHolds' /\ Somewhere'
      /\ Rows' = Rows /\ OnTime' = OnTime
      /\ \A b \in Bucket : Pending(b)' <=> Pending(b)
  BY <1>1, SameKeeps
<1>3. Sealing'
  BY <1>0, <1>2 DEF Inv, Sealing
<1>4. Planned' /\ TurnComes' /\ PassComplete' /\ Made'
  BY <1>0 DEF Planned, TurnComes, PassComplete, Made, InPass, Rolling
<1>5. HotGone'
  BY <1>0, <1>2 DEF Inv, HotGone, Rolling
<1>6. WarmGone'
  <2>1. \A o \in OnTime : HotOf(o) \in Bucket
    BY <1>0, ChainOf
  <2> QED BY <2>1, <1>0, <1>2 DEF Inv, WarmGone, Rolling
<1>7. NoneAfter'
  <2>1. \A o \in OnTime : HotOf(o) \in Bucket
    BY <1>0, ChainOf
  <2>2. \A o \in OnTime : After(HotOf(o))' => After(HotOf(o))
    BY <1>0 DEF After
  <2> QED BY <2>1, <2>2, <1>0, <1>2 DEF Inv, NoneAfter
<1> QED
  BY <1>0, <1>2, <1>3, <1>4, <1>5, <1>6, <1>7

-----------------------------------------------------------------------------
(***************************************************************************)
(* Updates, the clock and a crash.                                         *)
(***************************************************************************)

LEMMA ObserveInv ==
  ASSUME Inv, Typed', NEW i \in Item, Observe(i)
  PROVE  Inv'
<1>1. /\ update' = [IdleUpdate EXCEPT !.at = "observed", !.item = i, !.time = now]
      /\ UNCHANGED <<kind, library, now, row, rollup, work, seen, late, expired>>
  BY DEF Observe
<1>2. update'.at = "observed" /\ update'.time = now
  BY <1>1 DEF IdleUpdate
<1>3. now \in Nat
  BY Numbers DEF Inv
<1>4. /\ Sealing' /\ Planned' /\ TurnComes' /\ PassComplete' /\ Made' /\ Sourced'
      /\ HotHolds' /\ HotGone' /\ WarmHolds' /\ WarmGone' /\ ColdHolds' /\ NoneAfter'
      /\ Somewhere' /\ work.now <= now'
  BY <1>1, <1>3, SilentKeeps
<1>5. Clock' /\ ReadStands'
  BY <1>1, <1>2, <1>3, <1>4 DEF Clock, ReadStands
<1> QED
  BY <1>4, <1>5 DEF Inv

LEMMA ReadInv ==
  ASSUME Inv, Typed', UpdateRead
  PROVE  Inv'
<1> DEFINE b == Hot(update.time)
           base == IF row[b].there THEN Sketch(row[b].mode, row[b].items) ELSE New
           next == Add(base, update.item)
<1>1. /\ update.at = "observed" /\ update.item \in Item /\ update \in UpdateSet
      /\ update' = IF row[b].there /\ row[b].sealed THEN IdleUpdate
                   ELSE [update EXCEPT !.at = "read", !.mode = next.mode, !.items = next.items]
      /\ UNCHANGED <<kind, library, now, row, rollup, work, seen, late, expired>>
  BY Parts DEF UpdateRead, TypedParts, Inv
<1>2. now \in Nat /\ TypedParts
  BY Numbers, Parts DEF Inv
<1>3. /\ Sealing' /\ Planned' /\ TurnComes' /\ PassComplete' /\ Made' /\ Sourced'
      /\ HotHolds' /\ HotGone' /\ WarmHolds' /\ WarmGone' /\ ColdHolds' /\ NoneAfter'
      /\ Somewhere' /\ work.now <= now'
  BY <1>1, <1>2, SilentKeeps
<1>4. b \in Bucket
  <2>0. \A x \in Nat : x % 1 = 0
    OBVIOUS
  <2> QED BY <2>0, <1>1, Widths DEF Hot, Bucket, UpdateSet
<1>5. base \in SketchSet
  BY <1>2, <1>4, BaseType
<1>6. next \in SketchSet /\ Sketch(next.mode, next.items) = next
  <2> HIDE DEF base
  <2>1. next \in SketchSet
    BY <1>1, <1>5, AddType
  <2> QED BY <2>1 DEF SketchSet, Sketch
<1>7. \/ update' = IdleUpdate
      \/ /\ update'.at = "read" /\ update'.time = update.time /\ update'.item = update.item
         /\ update'.mode = next.mode /\ update'.items = next.items
  BY <1>1 DEF UpdateSet
<1>8. Clock'
  <2>1. update.time <= now /\ now <= update.time + 1
    BY <1>1 DEF Inv, Clock
  <2> HIDE DEF next
  <2> QED BY <2>1, <1>1, <1>3, <1>7, IdleTypes DEF Clock
<1>9. ReadStands'
  <2>1. CASE update' = IdleUpdate
    BY <2>1, IdleTypes DEF ReadStands
  <2>2. CASE /\ update'.at = "read" /\ update'.time = update.time /\ update'.item = update.item
             /\ update'.mode = next.mode /\ update'.items = next.items
    <3>1. Sketch(update'.mode, update'.items) = Add(base, update'.item)
      BY <2>2, <1>6
    <3>2. base' = base
      BY <2>2, <1>1 DEF New
    <3>3. Add(base, update.item)' = Add(base, update'.item)
      <4> HIDE DEF base
      <4> QED BY <3>2, <1>1 DEF Add, Promoted, Sketch
    <3> QED BY <3>1, <3>3 DEF ReadStands
  <2> HIDE DEF next
  <2> QED BY <2>1, <2>2, <1>7
<1> QED
  BY <1>3, <1>8, <1>9 DEF Inv

LEMMA AdvanceInv ==
  ASSUME Inv, Typed', Advance
  PROVE  Inv'
<1>1. /\ now' = now + 1 /\ (update.at = "idle" \/ update.time = now)
      /\ UNCHANGED <<kind, library, row, rollup, update, work, seen, late, expired>>
  BY DEF Advance
<1>2. now \in Nat /\ update.time \in Nat
  BY Numbers DEF Inv
<1>3. now <= now' /\ now <= now + 1
  BY <1>1, <1>2
<1>4. /\ Sealing' /\ Planned' /\ TurnComes' /\ PassComplete' /\ Made' /\ Sourced'
      /\ HotHolds' /\ HotGone' /\ WarmHolds' /\ WarmGone' /\ ColdHolds' /\ NoneAfter'
      /\ Somewhere' /\ work.now <= now'
  BY <1>1, <1>3, SilentKeeps
<1>5. Clock'
  <2>1. update.at # "idle" => update.time <= now' /\ now' <= update.time + 1
    BY <1>1, <1>2
  <2> QED BY <2>1, <1>1, <1>4 DEF Clock
<1>6. ReadStands'
  BY <1>1 DEF Inv, ReadStands, Add, Promoted, New
<1> QED
  BY <1>4, <1>5, <1>6 DEF Inv

LEMMA CrashInv ==
  ASSUME Inv, Typed', Crash
  PROVE  Inv'
<1>1. /\ update' = IdleUpdate /\ work' = IdleWork
      /\ UNCHANGED <<kind, library, now, row, rollup, seen, late, expired>>
  BY DEF Crash
<1>2. /\ Sealing' /\ Planned' /\ TurnComes' /\ PassComplete' /\ Made' /\ Sourced'
      /\ HotHolds' /\ HotGone' /\ WarmHolds' /\ WarmGone' /\ ColdHolds' /\ NoneAfter'
      /\ Somewhere' /\ work'.now <= now'
  BY <1>1, StopKeeps
<1>3. Clock' /\ ReadStands'
  BY <1>1, <1>2, IdleTypes DEF Clock, ReadStands
<1> QED
  BY <1>2, <1>3 DEF Inv

-----------------------------------------------------------------------------
(***************************************************************************)
(* A pass begins, reads the children of a parent, and goes on.             *)
(***************************************************************************)

LEMMA RollReadInv ==
  ASSUME Inv, Typed', NEW p \in Bucket, RollRead(p)
  PROVE  Inv'
<1> DEFINE kids == Children(p)
           sum == Union(kids)
<1>1. /\ work.at = "roll" /\ p \in work.todo
      /\ UNCHANGED <<kind, library, now, row, rollup, update, seen, late, expired>>
      /\ work' = IF Refused(sum) THEN IdleWork
                 ELSE [work EXCEPT !.at = "persist", !.todo = @ \ {p}, !.kids = kids,
                                   !.mode = sum.mode, !.items = sum.items]
  BY DEF RollRead, Step
<1>2. /\ Typed /\ Clock /\ ReadStands /\ Sealing /\ Planned /\ TurnComes /\ Made /\ Sourced
      /\ HotHolds /\ HotGone /\ WarmGone /\ NoneAfter /\ work \in WorkSet
      /\ Rows \subseteq Bucket /\ OnTime \subseteq seen /\ seen \subseteq Item \X Time
  BY Numbers, Parts DEF Inv, TypedParts
<1>3. ReadStands'
  BY <1>1, <1>2 DEF ReadStands, Add, Promoted, New
<1>4. CASE Refused(sum)
  <2>1. work' = IdleWork
    BY <1>1, <1>4
  <2> HIDE DEF sum
  <2>2. /\ Sealing' /\ Planned' /\ TurnComes' /\ PassComplete' /\ Made' /\ Sourced'
        /\ HotHolds' /\ HotGone' /\ WarmHolds' /\ WarmGone' /\ ColdHolds' /\ NoneAfter'
        /\ Somewhere' /\ work'.now <= now'
    BY <1>1, <2>1, StopKeeps
  <2>3. Clock'
    BY <1>1, <1>2, <2>2 DEF Clock
  <2> QED BY <1>3, <2>2, <2>3 DEF Inv
<1>5. CASE ~Refused(sum)
  <2>1. /\ work'.at = "persist" /\ work'.now = work.now /\ work'.width = work.width
        /\ work'.todo = work.todo \ {p} /\ work'.kids = kids
        /\ work'.mode = sum.mode /\ work'.items = sum.items
    <3> HIDE DEF sum, kids
    <3> QED BY <1>1, <1>2, <1>5 DEF WorkSet
  <2>2. /\ \A b \in kids : b \in Rows /\ b[1] = work.width /\ Parent(b) = p /\ row[b].sealed
        /\ \A b \in Rows : b[1] = work.width /\ Parent(b) = p /\ row[b].sealed => b \in kids
    BY DEF Children
  <2>3. /\ work.width \in {1, Warm} /\ End(p) <= work.now /\ kids # {}
        /\ work.kids = {} /\ ~Rolling /\ InPass
    <3>1. \E b \in Rows : b[1] = work.width /\ row[b].sealed /\ Parent(b) = p
      BY <1>1, <1>2 DEF Planned
    <3>2. work.kids = {}
      BY <1>1, <1>2 DEF Typed, TypeOK
    <3> QED BY <3>1, <3>2, <2>2, <1>1, <1>2 DEF Planned, InPass, Rolling
  <2>4. /\ sum \in SketchSet
        /\ \A i \in sum.items : \E b \in kids : i \in row[b].items
        /\ \A b \in kids, i \in Item : Holds(b, i) => sum.mode = "UNAVAILABLE" \/ i \in sum.items
    <3>1. kids \in SUBSET Bucket /\ \A b \in kids : b[1] = work.width
      BY <1>2, <2>2
    <3>2. TypeOK /\ work.width \in {1, Warm, Cold}
      BY <1>2, <2>3 DEF Typed
    <3> HIDE DEF kids
    <3> QED BY <3>1, <3>2, UnionOf
  <2> HIDE DEF sum, kids
  <2>5. TheParent' = p
    <3>1. (CHOOSE b \in kids : TRUE) \in kids
      BY <2>3
    <3>2. TheParent' = Parent(CHOOSE b \in kids : TRUE)
      BY <2>1 DEF TheParent
    <3> QED BY <3>1, <3>2, <2>2
  <2>6. SameRows
    BY <1>1 DEF SameRows
  <2>7. /\ Sourced' /\ HotHolds' /\ WarmHolds' /\ ColdHolds' /\ Somewhere'
        /\ Rows' = Rows /\ OnTime' = OnTime /\ \A b \in Bucket : Pending(b)' <=> Pending(b)
    BY <2>6, SameKeeps
  <2>8. Clock' /\ Sealing' /\ PassComplete'
    BY <1>1, <1>2, <2>1, <2>7 DEF Clock, Sealing, PassComplete
  <2>9. Planned'
    BY <1>1, <1>2, <2>1, <2>2, <2>3, <2>5, <2>7 DEF Planned, InPass, Rolling
  <2>10. TurnComes'
    <3>1. ASSUME NEW b \in Rows, Due(b)', b[1] = 1 \/ b[1] = work.width
          PROVE  b[1] = work.width /\ (Parent(b) \in work'.todo \/ b \in kids)
      <4>1. Due(b) /\ row[b].sealed
        BY <3>1, <1>1, <2>1 DEF Due, Pending
      <4>2. b[1] = work.width /\ Parent(b) \in work.todo
        BY <3>1, <4>1, <2>3, <1>2 DEF TurnComes
      <4> QED BY <4>1, <4>2, <3>1, <2>1, <2>2
    <3> QED BY <3>1, <2>1, <2>7 DEF TurnComes
  <2>11. Made'
    <3>1. ASSUME NEW i \in sum.items PROVE i \in Observed(p)
      <4>1. PICK b \in kids : i \in row[b].items
        BY <2>4
      <4>2. b \in Rows /\ b[1] = work.width /\ Parent(b) = p
        BY <2>2
      <4>3. PICK o \in seen : i = o[1] /\ b \in {HotOf(o), WarmOf(o), ColdOf(o)}
        BY <4>1, <4>2, <1>2 DEF Sourced, Observed
      <4>4. b # ColdOf(o)
        BY <4>2, <1>2, <2>3, ChainOf, Widths
      <4>5. p \in {WarmOf(o), ColdOf(o)}
        BY <4>2, <4>3, <4>4 DEF WarmOf, ColdOf
      <4> QED BY <4>3, <4>5 DEF Observed
    <3>2. ASSUME NEW o \in OnTime, HotOf(o) \in kids
          PROVE  sum.mode = "UNAVAILABLE" \/ o[1] \in sum.items
      <4>1. o[1] \in Item /\ Holds(HotOf(o), o[1])
        BY <3>2, <2>2, <1>2 DEF HotHolds
      <4> QED BY <3>2, <4>1, <2>4
    <3>3. Observed(p)' = Observed(p)
      BY <1>1 DEF Observed
    <3>4. \A b \in kids, i \in Item : Holds(b, i)' <=> Holds(b, i)
      BY <1>1 DEF Holds
    <3> QED BY <3>1, <3>2, <3>3, <3>4, <2>1, <2>4, <2>5, <2>7 DEF Made, Rolling, WorkHolds
  <2>12. HotGone'
    BY <1>1, <1>2, <2>1, <2>5, <2>7 DEF HotGone, Rolling
  <2>13. WarmGone'
    <3>1. \A o \in OnTime : HotOf(o) \in Bucket
      BY <1>2, ChainOf
    <3> QED BY <3>1, <1>1, <1>2, <2>1, <2>5, <2>7 DEF WarmGone, Rolling
  <2>14. NoneAfter'
    <3>1. \A o \in OnTime : HotOf(o) \in Bucket
      BY <1>2, ChainOf
    <3>2. \A o \in OnTime : After(HotOf(o))' => After(HotOf(o))
      BY <1>1, <2>1, <2>5 DEF After
    <3> QED BY <3>1, <3>2, <1>1, <1>2, <2>7 DEF NoneAfter
  <2> QED BY <1>3, <2>7, <2>8, <2>9, <2>10, <2>11, <2>12, <2>13, <2>14 DEF Inv
<1> QED
  BY <1>4, <1>5

LEMMA PlanOf ==
  ASSUME NEW r, NEW w, NEW t, NEW p
  PROVE  p \in Plan(r, w, t) <=>
           /\ End(p) <= t
           /\ \E b \in Bucket : /\ b[1] = w /\ r[b].sealed /\ r[b].state # "verified_child"
                                /\ Parent(b) = p
BY DEF Plan

LEMMA MaintainInv ==
  ASSUME Inv, Typed', Maintain
  PROVE  Inv'
<1> DEFINE todo == Plan(Seal, 1, now)
<1>1. /\ work.at = "idle" /\ row' = Seal
      /\ work' = [IdleWork EXCEPT !.at = "roll", !.now = now, !.todo = todo]
      /\ UNCHANGED <<kind, library, now, rollup, update, seen, late, expired>>
  BY DEF Maintain, Step
<1>2. /\ Typed /\ Clock /\ ReadStands /\ Sealing /\ Planned /\ HotGone /\ WarmGone /\ NoneAfter
      /\ Rows \subseteq Bucket /\ OnTime \subseteq seen /\ seen \subseteq Item \X Time
      /\ now \in Nat /\ \A b \in Bucket \ Rows : row[b] = NoRow
  BY Numbers, Parts DEF Inv, TypedParts
<1>3. \A b \in Bucket :
        /\ (row'[b].there <=> row[b].there) /\ row'[b].mode = row[b].mode
        /\ row'[b].items = row[b].items /\ row'[b].state = row[b].state
        /\ row'[b].sealed <=> row[b].sealed \/ (row[b].there /\ End(b) <= now)
  BY <1>1, <1>2, SealOf
<1>4. SameRows
  BY <1>1, <1>3 DEF SameRows
<1>5. /\ Sourced' /\ HotHolds' /\ WarmHolds' /\ ColdHolds' /\ Somewhere'
      /\ Rows' = Rows /\ OnTime' = OnTime /\ \A b \in Bucket : Pending(b)' <=> Pending(b)
  BY <1>4, SameKeeps
<1>6. /\ work'.at = "roll" /\ work'.now = now /\ work'.width = 1 /\ work'.todo = todo
      /\ work'.kids = {}
  <2> HIDE DEF todo
  <2> QED BY <1>1 DEF IdleWork
<1>7. \A p : p \in todo <=>
        /\ End(p) <= now
        /\ \E b \in Bucket : b[1] = 1 /\ row'[b].sealed /\ row'[b].state # "verified_child"
                             /\ Parent(b) = p
  BY <1>1, PlanOf
<1> HIDE DEF todo
<1>8. \A b \in Bucket : row'[b].sealed => b \in Rows
  <2>1. \A b \in Bucket \ Rows : ~row[b].sealed /\ ~row[b].there
    BY <1>2 DEF NoRow
  <2> QED BY <2>1, <1>3
<1>9. ASSUME NEW p \in todo
      PROVE  /\ End(p) <= now /\ p[1] = Warm
             /\ \E b \in Rows : b[1] = 1 /\ row'[b].sealed /\ Pending(b) /\ Parent(b) = p
                                /\ Top(b) = Top(p)
  <2>1. PICK b \in Bucket : b[1] = 1 /\ row'[b].sealed /\ row'[b].state # "verified_child"
                            /\ Parent(b) = p
    BY <1>7
  <2>2. b \in Rows /\ Pending(b)
    BY <2>1, <1>3, <1>8 DEF Pending, Rows
  <2>3. p[1] = Warm /\ Top(p) = Top(b)
    BY <2>1, ParentOf, TopOf, Widths
  <2> QED BY <1>7, <2>1, <2>2, <2>3
<1>10. Clock' /\ ReadStands'
  <2>1. Clock'
    BY <1>1, <1>2, <1>6 DEF Clock
  <2>2. ASSUME update.at = "read" PROVE Hot(update.time) \in Bucket
    <3>0. \A x \in Nat : x % 1 = 0
      OBVIOUS
    <3>1. update.time \in Time
      BY <1>2 DEF Typed
    <3> QED BY <3>0, <3>1, Widths DEF Hot, Bucket
  <2>3. ReadStands'
    BY <1>1, <1>2, <1>3, <2>2 DEF ReadStands, Add, Promoted, New
  <2> QED BY <2>1, <2>3
<1>11. Sealing'
  <2>1. \A b \in Rows : ~row'[b].sealed => now <= End(b)
    <3>1. ASSUME NEW b \in Rows, ~row'[b].sealed PROVE now <= End(b)
      <4>1. ~(End(b) <= now)
        BY <3>1, <1>2, <1>3 DEF Rows
      <4>2. End(b) \in Nat
        BY <1>2, BucketType
      <4> QED BY <4>1, <4>2, <1>2
    <3> QED BY <3>1
  <2> QED BY <2>1, <1>1, <1>2, <1>3, <1>5, <1>6 DEF Sealing
<1>12. Planned'
  <2>1. \A p \in todo : \E b \in Rows : b[1] = 1 /\ row'[b].sealed /\ Parent(b) = p
    BY <1>9
  <2> QED BY <2>1, <1>5, <1>6, <1>9 DEF Planned, InPass, Rolling, Wider
<1>13. TurnComes' /\ PassComplete' /\ Made'
  <2>1. ASSUME NEW b \in Rows, Due(b)', b[1] = 1 PROVE Parent(b) \in todo
    BY <2>1, <1>2, <1>6, <1>7 DEF Due, Pending
  <2>2. TurnComes'
    BY <2>1, <1>5, <1>6 DEF TurnComes
  <2> QED BY <2>2, <1>6 DEF PassComplete, Made, Rolling
<1>14. HotGone'
  <2>1. \A o \in seen : HotOf(o) \notin Rows => WarmOf(o) \notin todo
    BY <1>2, <1>9 DEF HotGone
  <2> QED BY <2>1, <1>1, <1>2, <1>5, <1>6 DEF HotGone, Rolling
<1>15. WarmGone'
  <2>1. \A o \in OnTime : HotOf(o) \in Bucket
    BY <1>2, ChainOf
  <2>2. \A o \in OnTime : WarmOf(o) \notin Rows /\ ~Pending(HotOf(o)) =>
          \A p \in todo : Top(p) # ColdOf(o)
    BY <1>2, <1>9, Widths DEF WarmGone
  <2> QED BY <2>1, <2>2, <1>1, <1>2, <1>5, <1>6 DEF WarmGone, Rolling
<1>16. NoneAfter'
  <2>1. ASSUME NEW o \in OnTime, kind = "distinct", After(HotOf(o))', HotOf(o) \in Rows
        PROVE  row'[HotOf(o)].sealed
    <3>0. HotOf(o) \in Bucket /\ HotOf(o)[1] = 1 /\ WarmOf(o) \in Bucket /\ WarmOf(o) = Parent(HotOf(o))
      BY <1>2, ChainOf
    <3>1. row[WarmOf(o)].there \/ WarmOf(o) \in todo
      BY <2>1, <3>0, <1>3, <1>6 DEF After
    <3>2. ASSUME row[WarmOf(o)].there PROVE row'[HotOf(o)].sealed
      <4>1. After(HotOf(o))
        BY <3>0, <3>2 DEF After
      <4> QED BY <4>1, <2>1, <3>0, <1>2, <1>3 DEF NoneAfter
    <3>3. ASSUME WarmOf(o) \in todo PROVE row'[HotOf(o)].sealed
      <4>1. End(WarmOf(o)) <= now
        BY <3>3, <1>9
      <4>2. End(HotOf(o)) <= End(WarmOf(o))
        BY <3>0, ParentOf, Widths
      <4>3. End(HotOf(o)) \in Nat /\ End(WarmOf(o)) \in Nat
        BY <3>0, BucketType
      <4>4. End(HotOf(o)) <= now
        BY <4>1, <4>2, <4>3, <1>2
      <4> QED BY <4>4, <2>1, <3>0, <1>3 DEF Rows
    <3> QED BY <3>1, <3>2, <3>3
  <2>2. \A o \in OnTime : HotOf(o) \in Bucket /\ WarmOf(o) \in Bucket
    BY <1>2, ChainOf
  <2> QED BY <2>1, <2>2, <1>1, <1>2, <1>3, <1>5 DEF NoneAfter
<1> QED
  BY <1>5, <1>10, <1>11, <1>12, <1>13, <1>14, <1>15, <1>16 DEF Inv

LEMMA RollDoneInv ==
  ASSUME Inv, Typed', RollDone
  PROVE  Inv'
<1> DEFINE todo == Plan(row, Warm, work.now)
<1>1. /\ work.at = "roll" /\ work.todo = {}
      /\ work' = IF work.width = 1 THEN [work EXCEPT !.width = Warm, !.todo = todo]
                 ELSE [work EXCEPT !.at = "expire", !.width = 1]
      /\ UNCHANGED <<kind, library, now, row, rollup, update, seen, late, expired>>
  BY DEF RollDone, Step
<1>2. /\ Typed /\ Clock /\ ReadStands /\ Sealing /\ Planned /\ TurnComes
      /\ HotGone /\ WarmGone /\ NoneAfter /\ work \in WorkSet
      /\ Rows \subseteq Bucket /\ OnTime \subseteq seen /\ seen \subseteq Item \X Time
      /\ \A b \in Bucket \ Rows : row[b] = NoRow
  BY Numbers, Parts DEF Inv, TypedParts
<1>3. work.kids = {} /\ work.width \in {1, Warm} /\ InPass
  BY <1>1, <1>2 DEF Typed, TypeOK, Planned, InPass
<1>4. SameRows
  BY <1>1 DEF SameRows
<1>5. /\ Sourced' /\ HotHolds' /\ WarmHolds' /\ ColdHolds' /\ Somewhere'
      /\ Rows' = Rows /\ OnTime' = OnTime /\ \A b \in Bucket : Pending(b)' <=> Pending(b)
  BY <1>4, SameKeeps
<1>6. /\ work'.now = work.now /\ work'.kids = {}
      /\ \/ work'.at = "roll" /\ work.width = 1 /\ work'.width = Warm /\ work'.todo = todo
         \/ work'.at = "expire" /\ work.width = Warm /\ work'.todo = {}
  <2> HIDE DEF todo
  <2> QED BY <1>1, <1>2, <1>3, Widths DEF WorkSet
<1>7. ASSUME NEW b \in Rows, Due(b), b[1] = 1 \/ b[1] = work.width PROVE FALSE
  BY <1>1, <1>2, <1>3, <1>7 DEF TurnComes
<1>8. \A b \in Rows : Due(b)' => Due(b)
  BY <1>1, <1>6 DEF Due, Pending
<1>9. ASSUME NEW p \in todo
      PROVE  /\ End(p) <= work.now /\ p[1] = Cold /\ Top(p) = p
             /\ \E b \in Rows : b[1] = Warm /\ row[b].sealed /\ Pending(b) /\ Parent(b) = p
                                /\ Top(b) = p
  <2>1. PICK b \in Bucket : b[1] = Warm /\ row[b].sealed /\ row[b].state # "verified_child"
                            /\ Parent(b) = p
    BY PlanOf
  <2>2. b \in Rows /\ Pending(b)
    BY <2>1, <1>2 DEF Pending, Rows, NoRow
  <2>3. p[1] = Cold /\ Top(b) = p
    BY <2>1, ParentOf, TopOf, Widths
  <2> QED BY PlanOf, <2>1, <2>2, <2>3 DEF Top
<1>10. ReadStands' /\ Clock'
  BY <1>1, <1>2, <1>6 DEF ReadStands, Clock, Add, Promoted, New
<1>11. Sealing'
  BY <1>1, <1>2, <1>5, <1>6 DEF Sealing
<1>12. Planned'
  <2>1. \A p \in todo : p[1] = Wider(Warm)
    BY <1>9, Widths DEF Wider
  <2>2. \A p \in todo : \E b \in Rows : b[1] = Warm /\ row[b].sealed /\ Parent(b) = p
    BY <1>9
  <2> HIDE DEF todo
  <2> QED BY <2>1, <2>2, <1>1, <1>5, <1>6, <1>9 DEF Planned, InPass, Rolling
<1>13. TurnComes'
  <2>1. ASSUME NEW b \in Rows, work.width = 1, Due(b)', b[1] = 1 \/ b[1] = Warm
        PROVE  b[1] = Warm /\ Parent(b) \in todo
    <3>1. Due(b)
      BY <2>1, <1>8
    <3>2. b[1] = Warm
      BY <2>1, <3>1, <1>7
    <3> QED BY <2>1, <3>1, <3>2, <1>2, PlanOf DEF Due, Pending
  <2> HIDE DEF todo
  <2> QED BY <2>1, <1>5, <1>6 DEF TurnComes, InPass
<1>14. PassComplete'
  <2>1. ASSUME NEW b \in Rows, work.width = Warm, Due(b)' PROVE FALSE
    <3>1. Due(b) /\ b[1] \in {1, Warm}
      BY <2>1, <1>2, <1>8, BucketType DEF Due
    <3> QED BY <2>1, <3>1, <1>7
  <2> HIDE DEF todo
  <2> QED BY <2>1, <1>5, <1>6 DEF PassComplete, Due
<1>15. Made'
  <2> HIDE DEF todo
  <2> QED BY <1>6 DEF Made, Rolling
<1>16. HotGone'
  <2>1. \A o \in seen : WarmOf(o) \notin todo
    BY <1>2, <1>9, ChainOf, Widths
  <2> HIDE DEF todo
  <2> QED BY <2>1, <1>1, <1>2, <1>5, <1>6 DEF HotGone, Rolling
<1>17. WarmGone'
  <2>1. \A o \in OnTime : HotOf(o) \in Bucket
    BY <1>2, ChainOf
  <2>2. \A o \in OnTime : WarmOf(o) \notin Rows /\ ~Pending(HotOf(o)) =>
          \A p \in todo : Top(p) # ColdOf(o)
    BY <1>2, <1>9, Widths DEF WarmGone
  <2> HIDE DEF todo
  <2> QED BY <2>1, <2>2, <1>1, <1>2, <1>5, <1>6 DEF WarmGone, Rolling
<1>18. NoneAfter'
  <2>1. \A o \in OnTime : HotOf(o) \in Bucket /\ WarmOf(o) = Parent(HotOf(o))
                          /\ WarmOf(o) \notin todo
    BY <1>2, <1>9, ChainOf, Widths
  <2> HIDE DEF todo
  <2>2. \A o \in OnTime : After(HotOf(o))' => After(HotOf(o))
    BY <2>1, <1>1, <1>6 DEF After
  <2> QED BY <2>1, <2>2, <1>1, <1>2, <1>5 DEF NoneAfter
<1> QED
  BY <1>5, <1>10, <1>11, <1>12, <1>13, <1>14, <1>15, <1>16, <1>17, <1>18 DEF Inv

-----------------------------------------------------------------------------
(***************************************************************************)
(* An update is written.                                                   *)
(***************************************************************************)

\* Where a hot bucket has expired, its time and that of the buckets beside it
\* is over, and no update that is under way is for one of them.
LEMMA TooLateHot ==
  ASSUME Inv, NEW o \in seen, HotOf(o) \notin Rows,
         NEW b \in Bucket, b[1] = 1, now <= End(b)
  PROVE  WarmOf(o) # Parent(b)
<1> SUFFICES ASSUME WarmOf(o) = Parent(b) PROVE FALSE
  OBVIOUS
<1>1. o \in Item \X Time /\ now \in Nat
  BY Numbers DEF Inv
<1>2. HotOf(o) \in Bucket /\ HotOf(o)[1] = 1 /\ WarmOf(o) = Parent(HotOf(o)) /\ WarmOf(o) \in Bucket
      /\ WarmOf(o)[1] = Warm
  BY <1>1, ChainOf
<1>3. End(HotOf(o)) + HotKeep <= now
  BY DEF Inv, HotGone
<1>4. End(b) <= End(WarmOf(o)) /\ End(WarmOf(o)) <= HotOf(o)[2] + Warm
  <2>1. 1 # Cold
    BY Widths
  <2>2. End(b) <= End(Parent(b))
    BY <2>1, ParentOf
  <2>3. End(Parent(HotOf(o))) <= HotOf(o)[2] + Parent(HotOf(o))[1]
    BY <1>2, <2>1, ParentOf
  <2> QED BY <1>2, <2>2, <2>3
<1>5. PICK h \in Nat, e \in Nat, w \in Nat :
        h = HotOf(o)[2] /\ e = End(b) /\ w = End(WarmOf(o)) /\ End(HotOf(o)) = h + 1
  BY <1>2, BucketType
<1> QED
  BY <1>1, <1>3, <1>4, <1>5, Widths

LEMMA TooLateWarm ==
  ASSUME Inv, NEW o \in OnTime, WarmOf(o) \notin Rows, ~Pending(HotOf(o)),
         NEW b \in Bucket, b[1] # Cold, now <= End(b)
  PROVE  ColdOf(o) # Top(b)
<1> SUFFICES ASSUME ColdOf(o) = Top(b) PROVE FALSE
  OBVIOUS
<1>1. o \in Item \X Time /\ now \in Nat
  BY Numbers DEF Inv
<1>2. WarmOf(o) \in Bucket /\ WarmOf(o)[1] = Warm /\ ColdOf(o) = Parent(WarmOf(o))
      /\ ColdOf(o) \in Bucket /\ ColdOf(o)[1] = Cold
  BY <1>1, ChainOf
<1>3. End(WarmOf(o)) + WarmKeep <= now
  BY DEF Inv, WarmGone
<1>4. End(b) <= End(ColdOf(o)) /\ End(ColdOf(o)) <= WarmOf(o)[2] + Cold
  <2>1. Warm # Cold
    BY Widths
  <2>2. End(b) <= End(Top(b))
    BY TopOf
  <2>3. End(Parent(WarmOf(o))) <= WarmOf(o)[2] + Parent(WarmOf(o))[1]
    BY <1>2, <2>1, ParentOf
  <2> QED BY <1>2, <2>2, <2>3
<1>5. PICK h \in Nat, e \in Nat, w \in Nat :
        h = WarmOf(o)[2] /\ e = End(b) /\ w = End(ColdOf(o)) /\ End(WarmOf(o)) = h + Warm
  BY <1>2, BucketType
<1> QED
  BY <1>1, <1>3, <1>4, <1>5, Widths

LEMMA PersistInv ==
  ASSUME Inv, Typed', UpdatePersist
  PROVE  Inv'
<1>0. PICK b, x : b = Hot(update.time) /\ x = <<update.item, update.time>>
  OBVIOUS
<1>1. /\ update.at = "read" /\ update' = IdleUpdate /\ seen' = seen \cup {x}
      /\ late' = IF Closed(b) \/ (kind = "distinct" /\ After(b)) THEN late \cup {x} ELSE late
      /\ UNCHANGED <<kind, library, now, rollup, work, left, expired>>
  BY <1>0 DEF UpdatePersist
<1>2. /\ Typed /\ Clock /\ ReadStands /\ Sealing /\ Planned /\ TurnComes /\ PassComplete
      /\ Made /\ Sourced /\ HotHolds /\ HotGone /\ WarmHolds /\ WarmGone /\ ColdHolds
      /\ NoneAfter /\ Somewhere /\ TypedParts
      /\ Rows \subseteq Bucket /\ OnTime \subseteq seen /\ seen \subseteq Item \X Time
      /\ now \in Nat /\ work.now \in Nat /\ update.time \in Nat /\ update.time \in Time
  BY Numbers, Parts DEF Inv
<1>3. /\ b \in Bucket /\ b[1] = 1 /\ update.item \in Item
      /\ \A c \in Bucket : c # b => row'[c] = row[c]
      /\ b \in Rows' /\ Rows' = Rows \cup {b}
      /\ row'[b].mode = update.mode /\ row'[b].items = update.items
      /\ b \in Rows => row'[b].state = row[b].state /\ (row'[b].sealed <=> row[b].sealed)
      /\ b \notin Rows => row'[b].state = "none" /\ ~row'[b].sealed
  BY <1>0, <1>2, PersistOf
<1>4. x \in Item \X Time /\ HotOf(x) = b /\ WarmOf(x) = Parent(b) /\ ColdOf(x) = Top(b)
      /\ x[1] = update.item
  <2>1. x \in Item \X Time /\ x[1] = update.item /\ x[2] = update.time
    BY <1>0, <1>2, <1>3
  <2>2. HotOf(x) = b /\ WarmOf(x) = Parent(b)
    BY <1>0, <2>1 DEF HotOf, WarmOf
  <2> QED BY <2>1, <2>2, ChainOf
\* What the bucket comes to hold.
<1>5. /\ row'[b].items \subseteq (IF b \in Rows THEN row[b].items ELSE {}) \cup {update.item}
      /\ Holds(b, x[1])'
      /\ \A i \in Item : b \in Rows /\ Holds(b, i) => Holds(b, i)'
  <2> DEFINE base == IF row[b].there THEN Sketch(row[b].mode, row[b].items) ELSE New
             next == Add(base, update.item)
  <2>1. base \in SketchSet
    BY <1>2, <1>3, BaseType
  <2>2. Sketch(update.mode, update.items) = next
    BY <1>0, <1>1, <1>2 DEF ReadStands
  <2>3. base.items = (IF b \in Rows THEN row[b].items ELSE {})
        /\ (b \in Rows => base.mode = row[b].mode)
    BY <1>2, <1>3, NewType DEF Rows, Sketch, TypedParts
  <2> HIDE DEF base
  <2>4. /\ base.items \subseteq next.items /\ next.items \subseteq base.items \cup {update.item}
        /\ next.mode = "UNAVAILABLE" \/ update.item \in next.items
        /\ base.mode = "UNAVAILABLE" => next.mode = "UNAVAILABLE"
    BY <1>3, <2>1, AddType
  <2> HIDE DEF next
  <2>5. next.mode = update.mode /\ next.items = update.items
    BY <2>2 DEF Sketch
  <2> QED BY <2>3, <2>4, <2>5, <1>3, <1>4 DEF Holds
<1>6. End(b) = update.time + 1 /\ now <= End(b) /\ work.now <= now /\ work.now <= End(b)
  <2>1. End(b) = update.time + 1
    BY <1>0 DEF End, Hot
  <2>2. now <= update.time + 1 /\ work.now <= now
    BY <1>1, <1>2 DEF Clock
  <2> QED BY <2>1, <2>2, <1>2
<1>7. /\ x \in OnTime' => /\ ~Closed(b) /\ Pending(b)' /\ b \notin work.kids
                          /\ kind = "distinct" => ~After(b)
      /\ \A o \in OnTime' : o # x => o \in OnTime
  <2>1. x \notin late' => ~Closed(b) /\ (kind = "distinct" => ~After(b))
    BY <1>1
  <2>2. late \subseteq late'
    BY <1>1
  <2>3. ~Closed(b) => Pending(b)' /\ b \notin work.kids
    BY <1>2, <1>3 DEF Closed, Pending, Rows, Planned
  <2> QED BY <2>1, <2>2, <2>3, <1>1 DEF OnTime
<1>8. \A c \in Bucket :
        /\ c # b => row'[c] = row[c] /\ (c \in Rows' <=> c \in Rows)
        /\ Pending(c) => Pending(c)'
        /\ c # b \/ c \in Rows => (Pending(c)' <=> Pending(c)) /\ row'[c].state = row[c].state
                                  /\ (row'[c].sealed <=> row[c].sealed)
  BY <1>3 DEF Rows, Pending
<1>9. \A c \in Bucket, i \in Item : c # b => (Holds(c, i)' <=> Holds(c, i))
  BY <1>3 DEF Holds
<1>10. \A c \in Bucket : Observed(c) \subseteq Observed(c)'
  BY <1>1 DEF Observed
<1>11. \A c \in Bucket : c[1] # 1 => c # b
  BY <1>3
<1>12. \A o \in seen : HotOf(o) \notin Rows => WarmOf(o) # Parent(b) /\ HotOf(o) # b
  BY <1>3, <1>6, TooLateHot DEF WarmOf
<1>13. \A o \in OnTime : WarmOf(o) \notin Rows /\ ~Pending(HotOf(o)) => ColdOf(o) # Top(b)
  BY <1>3, <1>6, TooLateWarm, Widths
<1>14. \A o \in Item \X Time :
         /\ HotOf(o) \in Bucket /\ HotOf(o)[1] = 1 /\ WarmOf(o) = Parent(HotOf(o)) /\ o[1] \in Item
         /\ WarmOf(o) \in Bucket /\ WarmOf(o)[1] = Warm /\ WarmOf(o) # b
         /\ ColdOf(o) \in Bucket /\ ColdOf(o)[1] = Cold /\ ColdOf(o) # b
  BY ChainOf, <1>11, Widths
<1>15. OnTime' \subseteq Item \X Time /\ OnTime \subseteq Item \X Time /\ seen' \subseteq Item \X Time
  BY <1>1, <1>2, <1>4 DEF OnTime
<1>16. Clock' /\ ReadStands'
  BY <1>1, <1>2, IdleTypes DEF Clock, ReadStands
<1>17. Sealing'
  <2>1. \A c \in Rows' : c[1] # 1 => row'[c].sealed
    BY <1>2, <1>3, <1>8 DEF Sealing
  <2>2. \A c \in Rows' : row'[c].state = "verified_child" =>
           c \in Rows /\ row[c].state = "verified_child" /\ (row'[c].sealed <=> row[c].sealed)
    BY <1>2, <1>3, <1>8
  <2>3. \A c \in Rows' : ~row'[c].sealed =>
           \/ c \in Rows /\ ~row[c].sealed
           \/ c = b
    BY <1>2, <1>3, <1>8
  <2> QED BY <2>1, <2>2, <2>3, <1>1, <1>2, <1>6 DEF Sealing
<1>18. Planned'
  <2>1. \A c \in Rows' : row'[c].sealed => c \in Rows /\ row[c].sealed
    BY <1>2, <1>3, <1>8
  <2>2. \A c \in Rows : c \in Rows' /\ (row[c].sealed => row'[c].sealed)
    BY <1>2, <1>3, <1>8
  <2>3. TheParent' = TheParent /\ (Rolling' <=> Rolling) /\ (InPass' <=> InPass)
    BY <1>1 DEF TheParent, Rolling, InPass
  <2> QED BY <2>1, <2>2, <2>3, <1>1, <1>2 DEF Planned
<1>19. TurnComes' /\ PassComplete'
  <2>1. \A c \in Rows' : Due(c)' => c \in Rows /\ Due(c)
    BY <1>1, <1>2, <1>3, <1>8 DEF Due
  <2>2. TurnComes'
    BY <2>1, <1>1, <1>2 DEF TurnComes, InPass
  <2>3. PassComplete'
    BY <2>1, <1>1, <1>2 DEF PassComplete, Due
  <2> QED BY <2>2, <2>3
<1>20. Made'
  <2>1. TheParent' = TheParent /\ (Rolling' <=> Rolling)
    BY <1>1 DEF TheParent, Rolling
  <2>2. CASE Rolling
    <3>0. PICK p : p = TheParent
      OBVIOUS
    <3>1. p \in Bucket /\ p # b /\ work.kids \subseteq Bucket
      BY <3>0, <2>2, <1>2, <1>11, RollOf, Widths
    <3>2. work.at = "mark" => /\ row'[p].there /\ row'[p].mode = work.mode
                              /\ row'[p].items = work.items
      BY <3>0, <3>1, <1>2, <1>8 DEF Made
    <3>3. work.items \subseteq Observed(p)'
      BY <3>0, <3>1, <2>2, <1>2, <1>10 DEF Made
    <3>4. \A o \in OnTime' : HotOf(o) \in work.kids => WorkHolds(o[1])
      BY <2>2, <1>2, <1>4, <1>7 DEF Made
    <3>5. \A c \in work.kids, i \in Item : c[1] = Warm /\ Holds(c, i)' => WorkHolds(i)
      BY <3>1, <2>2, <1>2, <1>9, <1>11, Widths DEF Made
    <3>6. TheParent' = p
      BY <3>0, <2>1
    <3> QED BY <3>2, <3>3, <3>4, <3>5, <3>6, <2>1, <1>1 DEF Made, WorkHolds
  <2>3. CASE ~Rolling
    BY <2>1, <2>3, <1>1 DEF Made, Rolling
  <2> QED BY <2>2, <2>3
<1>21. Sourced'
  <2>1. update.item \in Observed(b)'
    BY <1>1, <1>4 DEF Observed
  <2>2. row'[b].items \subseteq Observed(b)'
    BY <2>1, <1>2, <1>3, <1>5, <1>10 DEF Sourced
  <2>3. \A c \in Rows : c # b => row'[c].items \subseteq Observed(c)'
    BY <1>2, <1>8, <1>10 DEF Sourced
  <2> QED BY <2>2, <2>3, <1>3 DEF Sourced
<1>22. HotHolds'
  <2>1. ASSUME NEW o \in seen', HotOf(o) \in Rows' PROVE Holds(HotOf(o), o[1])'
    <3>1. CASE o = x
      BY <3>1, <1>4, <1>5
    <3>2. CASE o \in seen /\ HotOf(o) = b
      <4>1. b \in Rows
        BY <3>2, <1>12
      <4> QED BY <4>1, <3>2, <1>2, <1>5, <1>14 DEF HotHolds
    <3>3. CASE o \in seen /\ HotOf(o) # b
      <4>1. HotOf(o) \in Rows /\ o[1] \in Item /\ HotOf(o) \in Bucket
        BY <2>1, <3>3, <1>2, <1>8, <1>14
      <4> QED BY <4>1, <3>3, <1>2, <1>9 DEF HotHolds
    <3> QED BY <3>1, <3>2, <3>3, <1>1
  <2> QED BY <2>1 DEF HotHolds
<1>23. HotGone'
  <2>1. ASSUME NEW o \in seen', HotOf(o) \notin Rows'
        PROVE  /\ End(HotOf(o)) + HotKeep <= now
               /\ \A c \in Rows' : c[1] = 1 /\ Parent(c) = WarmOf(o) => ~Pending(c)'
               /\ WarmOf(o) \notin work.todo
               /\ Rolling => TheParent # WarmOf(o)
    <3>1. o \in seen /\ HotOf(o) \notin Rows /\ WarmOf(o) # Parent(b)
      BY <2>1, <1>1, <1>3, <1>4, <1>12
    <3>2. \A c \in Rows' : c[1] = 1 /\ Parent(c) = WarmOf(o) => ~Pending(c)'
      BY <3>1, <1>2, <1>3, <1>8 DEF HotGone
    <3> QED BY <3>1, <3>2, <1>2 DEF HotGone
  <2> QED BY <2>1, <1>1 DEF HotGone, Rolling, TheParent
<1>24. WarmHolds'
  <2>1. ASSUME NEW o \in OnTime', WarmOf(o) \in Rows'
        PROVE  Holds(WarmOf(o), o[1])' \/ Pending(HotOf(o))'
    <3>1. CASE o = x
      BY <2>1, <3>1, <1>4, <1>7
    <3>2. CASE o # x
      <4>1. o \in OnTime /\ WarmOf(o) \in Rows
        BY <2>1, <3>2, <1>7, <1>8, <1>14, <1>15
      <4> QED BY <4>1, <1>2, <1>8, <1>9, <1>14, <1>15 DEF WarmHolds
    <3> QED BY <3>1, <3>2
  <2> QED BY <2>1 DEF WarmHolds
<1>25. WarmGone'
  <2>1. ASSUME NEW o \in OnTime', WarmOf(o) \notin Rows', ~Pending(HotOf(o))'
        PROVE  /\ End(WarmOf(o)) + WarmKeep <= now
               /\ \A c \in Rows' : c[1] # Cold /\ Top(c) = ColdOf(o) => ~Pending(c)'
               /\ \A p \in work.todo : Top(p) # ColdOf(o)
               /\ Rolling => Top(TheParent) # ColdOf(o)
    <3>1. o # x
      BY <2>1, <1>4, <1>7
    <3>2. o \in OnTime /\ WarmOf(o) \notin Rows /\ ~Pending(HotOf(o))
      BY <2>1, <3>1, <1>3, <1>7, <1>8, <1>14, <1>15
    <3>3. ColdOf(o) # Top(b)
      BY <3>2, <1>13
    <3>4. \A c \in Rows' : c[1] # Cold /\ Top(c) = ColdOf(o) => ~Pending(c)'
      BY <3>2, <3>3, <1>2, <1>3, <1>8 DEF WarmGone
    <3> QED BY <3>2, <3>4, <1>2 DEF WarmGone
  <2> QED BY <2>1, <1>1 DEF WarmGone, Rolling, TheParent
<1>26. ColdHolds'
  <2>1. ASSUME NEW o \in OnTime', ColdOf(o) \in Rows'
        PROVE  Holds(ColdOf(o), o[1])' \/ Pending(HotOf(o))' \/ Pending(WarmOf(o))'
    <3>1. CASE o = x
      BY <2>1, <3>1, <1>4, <1>7
    <3>2. CASE o # x
      <4>1. o \in OnTime /\ ColdOf(o) \in Rows
        BY <2>1, <3>2, <1>7, <1>8, <1>14, <1>15
      <4> QED BY <4>1, <1>2, <1>8, <1>9, <1>14, <1>15 DEF ColdHolds
    <3> QED BY <3>1, <3>2
  <2> QED BY <2>1 DEF ColdHolds
<1>27. NoneAfter'
  <2>1. \A o \in Item \X Time : After(HotOf(o))' <=> After(HotOf(o))
    BY <1>1, <1>8, <1>14 DEF After, TheParent
  <2>2. ASSUME NEW o \in OnTime', kind = "distinct"
        PROVE  /\ After(HotOf(o))' /\ HotOf(o) \in Rows' => row'[HotOf(o)].sealed
               /\ row'[WarmOf(o)].state = "verified_child" => ~Pending(HotOf(o))'
    <3>1. CASE o = x
      <4>1. ~After(b)
        BY <2>2, <3>1, <1>7
      <4>2. ~row[WarmOf(x)].there
        BY <4>1, <1>4 DEF After
      <4>3. row[WarmOf(x)] = NoRow
        BY <4>2, <1>2, <1>4, <1>14 DEF TypedParts, Rows
      <4>4. row'[WarmOf(x)].state # "verified_child"
        BY <4>3, <1>4, <1>8, <1>14 DEF NoRow
      <4> QED BY <4>1, <4>4, <3>1, <2>1, <1>4
    <3>2. CASE o # x
      <4>1. o \in OnTime /\ o \in seen
        BY <2>2, <3>2, <1>2, <1>7
      <4>2. HotOf(o) # b \/ HotOf(o) \in Rows
        BY <4>1, <1>12
      <4>3. /\ Pending(HotOf(o))' <=> Pending(HotOf(o))
            /\ row'[HotOf(o)].sealed <=> row[HotOf(o)].sealed
            /\ HotOf(o) \in Rows' <=> HotOf(o) \in Rows
            /\ row'[WarmOf(o)].state = row[WarmOf(o)].state
        BY <4>1, <4>2, <1>2, <1>3, <1>8, <1>14
      <4> QED BY <4>1, <4>3, <2>1, <2>2, <1>2 DEF NoneAfter
    <3> QED BY <3>1, <3>2
  <2> QED BY <2>2, <1>1 DEF NoneAfter
<1>28. Somewhere'
  <2>1. ASSUME NEW o \in OnTime'
        PROVE  \/ ColdOf(o) \in expired \/ ColdOf(o) \in Rows'
               \/ Pending(WarmOf(o))' \/ Pending(HotOf(o))'
    <3>1. CASE o = x
      BY <2>1, <3>1, <1>4, <1>7
    <3>2. CASE o # x
      <4>1. o \in OnTime
        BY <3>2, <1>7
      <4> QED BY <4>1, <1>2, <1>3, <1>8, <1>14, <1>15 DEF Somewhere
    <3> QED BY <3>1, <3>2
  <2> QED BY <2>1, <1>1 DEF Somewhere
<1> QED
  BY <1>16, <1>17, <1>18, <1>19, <1>20, <1>21, <1>22, <1>23, <1>24, <1>25, <1>26, <1>27, <1>28
  DEF Inv

-----------------------------------------------------------------------------
(***************************************************************************)
(* The result of a roll-up is written.                                     *)
(***************************************************************************)

LEMMA RollPersistInv ==
  ASSUME Inv, Typed', RollPersist
  PROVE  Inv'
<1>0. PICK p : p = TheParent
  OBVIOUS
<1>1. /\ Typed /\ Clock /\ ReadStands /\ Sealing /\ Planned /\ TurnComes
      /\ Made /\ Sourced /\ HotHolds /\ HotGone /\ WarmHolds /\ WarmGone /\ ColdHolds
      /\ NoneAfter /\ Somewhere /\ work \in WorkSet
      /\ Rows \subseteq Bucket /\ OnTime \subseteq seen /\ seen \subseteq Item \X Time
      /\ update.time \in Time
  BY Numbers, Parts DEF Inv, TypedParts
<1>2. /\ Rolling /\ work.at = "persist" /\ work' = [work EXCEPT !.at = "mark"]
      /\ \A c \in Bucket : c # p => row'[c] = row[c]
      /\ p \in Rows' /\ Rows' = Rows \cup {p}
      /\ row'[p].mode = work.mode /\ row'[p].items = work.items
      /\ row'[p].sealed
      /\ row'[p].state = "verified_child" <=> p \in Rows /\ row[p].state = "verified_child"
      /\ UNCHANGED <<kind, library, now, rollup, update, seen, late, expired>>
  BY <1>0, <1>1, RollPersistOf
<1>3. /\ work.width \in {1, Warm} /\ work.kids # {} /\ work.kids \subseteq Rows
      /\ p \in Bucket /\ p[1] # 1 /\ p[1] # work.width
      /\ p[1] = Warm => work.width = 1
      /\ p[1] = Cold => work.width = Warm
      /\ \A b \in work.kids : b[1] = work.width /\ Parent(b) = p /\ b # p
  BY <1>0, <1>1, <1>2, RollOf, Widths
<1>4. /\ work'.at = "mark" /\ work'.now = work.now /\ work'.width = work.width
      /\ work'.todo = work.todo /\ work'.kids = work.kids
      /\ work'.mode = work.mode /\ work'.items = work.items
  BY <1>1, <1>2 DEF WorkSet
<1>5. TheParent' = p /\ Rolling' /\ InPass /\ InPass' /\ OnTime' = OnTime
  BY <1>0, <1>2, <1>4 DEF TheParent, Rolling, InPass, OnTime
<1>6. \A c \in Bucket :
        /\ c # p => row'[c] = row[c] /\ (c \in Rows' <=> c \in Rows) /\ (Pending(c)' <=> Pending(c))
        /\ Pending(c) => Pending(c)'
        /\ c \in Rows => row'[c].state = row[c].state \/ row'[c].state # "verified_child"
        /\ c \in Rows' /\ row'[c].state = "verified_child" =>
             c \in Rows /\ row[c].state = "verified_child"
        /\ row[c].sealed => row'[c].sealed
  BY <1>2 DEF Pending, Rows
<1>7. \A c \in Bucket, i \in Item : c # p => (Holds(c, i)' <=> Holds(c, i))
  BY <1>2 DEF Holds
<1>8. \A i \in Item : WorkHolds(i) => Holds(p, i)'
  BY <1>2 DEF WorkHolds, Holds
<1>9. \A c \in Bucket : Observed(c)' = Observed(c)
  BY <1>2 DEF Observed
<1>10. \A o \in seen :
         /\ HotOf(o) \in Bucket /\ HotOf(o)[1] = 1 /\ WarmOf(o) = Parent(HotOf(o)) /\ o[1] \in Item
         /\ HotOf(o) # p /\ WarmOf(o) \in Bucket /\ WarmOf(o)[1] = Warm
         /\ ColdOf(o) \in Bucket /\ ColdOf(o)[1] = Cold /\ ColdOf(o) = Parent(WarmOf(o))
         /\ Top(ColdOf(o)) = ColdOf(o) /\ Top(WarmOf(o)) = ColdOf(o)
  BY <1>1, <1>3, ChainOf
<1>11. Clock' /\ ReadStands' /\ PassComplete'
  <2>1. ASSUME update.at = "read" PROVE Hot(update.time) \in Bucket /\ Hot(update.time) # p
    <3>0. \A t \in Nat : t % 1 = 0
      OBVIOUS
    <3>1. Hot(update.time)[1] = 1
      BY DEF Hot
    <3> QED BY <3>0, <3>1, <1>1, <1>3, Widths DEF Hot, Bucket
  <2>2. ReadStands'
    BY <2>1, <1>1, <1>2 DEF ReadStands, Add, Promoted, New
  <2> QED BY <2>2, <1>1, <1>2, <1>4 DEF Clock, PassComplete
<1>12. Sealing'
  <2>1. \A c \in Rows' : c[1] # 1 => row'[c].sealed
    BY <1>1, <1>2, <1>6 DEF Sealing
  <2>2. \A c \in Rows' : row'[c].state = "verified_child" =>
           c \in Rows /\ row[c].state = "verified_child" /\ (row[c].sealed => row'[c].sealed)
    BY <1>1, <1>2, <1>3, <1>6
  <2>3. \A c \in Rows' : ~row'[c].sealed => c \in Rows /\ ~row[c].sealed
    BY <1>1, <1>2, <1>3, <1>6
  <2> QED BY <2>1, <2>2, <2>3, <1>1, <1>2, <1>4 DEF Sealing
<1>13. Planned'
  <2>1. \A q \in work.todo : \E b \in Rows' : b[1] = work.width /\ row'[b].sealed /\ Parent(b) = q
    BY <1>1, <1>2, <1>6 DEF Planned
  <2>2. \A b \in work.kids : b \in Rows' /\ b[1] = work.width /\ row'[b].sealed /\ Parent(b) = p
    BY <1>1, <1>2, <1>3, <1>6 DEF Planned
  <2>3. \A b \in Rows' : b[1] = work.width /\ row'[b].sealed /\ Parent(b) = p => b \in work.kids
    BY <1>0, <1>1, <1>2, <1>3, <1>6 DEF Planned
  <2> QED BY <2>1, <2>2, <2>3, <1>0, <1>1, <1>2, <1>4, <1>5 DEF Planned
<1>14. TurnComes'
  <2>1. ASSUME NEW c \in Rows', Due(c)', c[1] = 1 \/ c[1] = work.width
        PROVE  c[1] = work.width /\ (Parent(c) \in work.todo \/ c \in work.kids)
    <3>1. c # p /\ c \in Rows /\ Due(c)
      BY <2>1, <1>1, <1>2, <1>3, <1>4 DEF Due, Pending
    <3> QED BY <2>1, <3>1, <1>1, <1>5 DEF TurnComes
  <2> QED BY <2>1, <1>4 DEF TurnComes
<1>15. Made'
  <2>1. work.items \subseteq Observed(p)'
    BY <1>0, <1>1, <1>2, <1>3, <1>9 DEF Made
  <2>2. \A o \in OnTime : HotOf(o) \in work.kids => WorkHolds(o[1])
    BY <1>1, <1>2 DEF Made
  <2>3. \A c \in work.kids, i \in Item : c[1] = Warm /\ Holds(c, i)' => WorkHolds(i)
    BY <1>1, <1>2, <1>3, <1>7 DEF Made
  <2>4. row'[p].there
    BY <1>2 DEF Rows
  <2> QED BY <2>1, <2>2, <2>3, <2>4, <1>2, <1>4, <1>5 DEF Made, WorkHolds
<1>16. Sourced'
  <2>1. row'[p].items \subseteq Observed(p)'
    BY <1>0, <1>1, <1>2, <1>3, <1>9 DEF Made
  <2>2. \A c \in Rows : c # p => row'[c].items \subseteq Observed(c)'
    BY <1>1, <1>6, <1>9 DEF Sourced
  <2> QED BY <2>1, <2>2, <1>2 DEF Sourced
<1>17. HotHolds'
  BY <1>1, <1>2, <1>6, <1>7, <1>10 DEF HotHolds
<1>18. HotGone'
  <2>1. ASSUME NEW o \in seen, HotOf(o) \notin Rows'
        PROVE  /\ End(HotOf(o)) + HotKeep <= now
               /\ \A c \in Rows' : c[1] = 1 /\ Parent(c) = WarmOf(o) => ~Pending(c)'
               /\ WarmOf(o) \notin work.todo
               /\ p # WarmOf(o)
    <3>1. HotOf(o) \notin Rows
      BY <2>1, <1>2
    <3>2. \A c \in Rows' : c[1] = 1 /\ Parent(c) = WarmOf(o) => ~Pending(c)'
      BY <3>1, <1>1, <1>2, <1>3, <1>6 DEF HotGone
    <3> QED BY <3>1, <3>2, <1>0, <1>1, <1>2 DEF HotGone
  <2> QED BY <2>1, <1>2, <1>4, <1>5 DEF HotGone
<1>19. WarmHolds'
  <2>1. ASSUME NEW o \in OnTime, WarmOf(o) \in Rows'
        PROVE  Holds(WarmOf(o), o[1])' \/ Pending(HotOf(o))'
    <3>0. o \in seen /\ o[1] \in Item /\ HotOf(o) \in Bucket /\ HotOf(o) # p
          /\ HotOf(o)[1] = 1 /\ WarmOf(o) = Parent(HotOf(o)) /\ WarmOf(o)[1] = Warm
          /\ WarmOf(o) \in Bucket
      BY <1>1, <1>10
    <3>1. CASE WarmOf(o) # p
      <4>1. WarmOf(o) \in Rows
        BY <2>1, <3>1, <1>2
      <4> QED BY <4>1, <3>0, <3>1, <1>1, <1>6, <1>7 DEF WarmHolds
    <3>2. CASE WarmOf(o) = p
      <4>0. work.width = 1
        BY <3>0, <3>2, <1>3
      <4>1. HotOf(o) \in Rows
        BY <3>0, <3>2, <1>0, <1>1, <1>2 DEF HotGone
      <4>2. CASE HotOf(o) \in work.kids
        BY <4>2, <3>0, <3>2, <1>1, <1>2, <1>8 DEF Made
      <4>3. CASE HotOf(o) \notin work.kids
        <5>1. ~row[HotOf(o)].sealed
          BY ZenonT(30), <4>0, <4>1, <4>3, <3>0, <3>2, <1>0, <1>1, <1>2 DEF Planned
        <5>2. Pending(HotOf(o))
          BY <4>1, <5>1, <1>1 DEF Sealing, Pending, Rows
        <5> QED BY <5>2, <3>0, <1>6
      <4> QED BY <4>2, <4>3
    <3> QED BY <3>1, <3>2
  <2> QED BY <2>1, <1>5 DEF WarmHolds
<1>20. WarmGone'
  <2>1. ASSUME NEW o \in OnTime, WarmOf(o) \notin Rows', ~Pending(HotOf(o))'
        PROVE  /\ End(WarmOf(o)) + WarmKeep <= now
               /\ \A c \in Rows' : c[1] # Cold /\ Top(c) = ColdOf(o) => ~Pending(c)'
               /\ \A q \in work.todo : Top(q) # ColdOf(o)
               /\ Top(p) # ColdOf(o)
    <3>1. WarmOf(o) \notin Rows /\ ~Pending(HotOf(o))
      BY <2>1, <1>1, <1>2, <1>6, <1>10
    <3>2. Top(p) # ColdOf(o)
      BY <3>1, <1>0, <1>1, <1>2 DEF WarmGone
    <3>3. \A c \in Rows' : c[1] # Cold /\ Top(c) = ColdOf(o) => ~Pending(c)'
      BY <3>1, <3>2, <1>1, <1>2, <1>6 DEF WarmGone
    <3> QED BY <3>1, <3>2, <3>3, <1>1 DEF WarmGone
  <2> QED BY <2>1, <1>2, <1>4, <1>5 DEF WarmGone
<1>21. ColdHolds'
  <2>1. ASSUME NEW o \in OnTime, ColdOf(o) \in Rows'
        PROVE  Holds(ColdOf(o), o[1])' \/ Pending(HotOf(o))' \/ Pending(WarmOf(o))'
    <3>0. o \in seen /\ o[1] \in Item /\ HotOf(o) \in Bucket /\ WarmOf(o) \in Bucket
          /\ WarmOf(o)[1] = Warm /\ ColdOf(o) \in Bucket /\ ColdOf(o)[1] = Cold
          /\ ColdOf(o) = Parent(WarmOf(o)) /\ Top(ColdOf(o)) = ColdOf(o)
      BY <1>1, <1>10
    <3>1. CASE ColdOf(o) # p
      <4>1. ColdOf(o) \in Rows
        BY <2>1, <3>1, <1>2
      <4> QED BY <4>1, <3>0, <3>1, <1>1, <1>6, <1>7 DEF ColdHolds
    <3>2. CASE ColdOf(o) = p /\ WarmOf(o) \in Rows
      <4>0. work.width = Warm
        BY <3>0, <3>2, <1>3
      <4>1. row[WarmOf(o)].sealed
        BY <3>0, <3>2, <1>1, Widths DEF Sealing
      <4>2. WarmOf(o) \in work.kids
        BY <4>0, <4>1, <3>0, <3>2, <1>0, <1>1, <1>2 DEF Planned
      <4>3. Holds(WarmOf(o), o[1]) \/ Pending(HotOf(o))
        BY <3>2, <1>1 DEF WarmHolds
      <4>4. Holds(WarmOf(o), o[1]) => WorkHolds(o[1])
        BY <4>2, <3>0, <1>1, <1>2 DEF Made
      <4> QED BY <4>3, <4>4, <3>0, <3>2, <1>6, <1>8
    <3>3. CASE ColdOf(o) = p /\ WarmOf(o) \notin Rows
      <4>1. Pending(HotOf(o))
        BY <3>0, <3>3, <1>0, <1>1, <1>2 DEF WarmGone
      <4> QED BY <4>1, <3>0, <1>6
    <3> QED BY <3>1, <3>2, <3>3
  <2> QED BY <2>1, <1>5 DEF ColdHolds
<1>22. NoneAfter'
  <2>1. \A o \in OnTime : After(HotOf(o))' => After(HotOf(o))
    <3>1. ASSUME NEW o \in OnTime, After(HotOf(o))' PROVE After(HotOf(o))
      <4>1. WarmOf(o) = Parent(HotOf(o)) /\ WarmOf(o) \in Bucket
        BY <1>1, <1>10
      <4>2. row'[WarmOf(o)].there \/ WarmOf(o) \in work.todo \/ p = WarmOf(o)
        BY <3>1, <4>1, <1>4, <1>5 DEF After
      <4>3. row[WarmOf(o)].there \/ WarmOf(o) \in work.todo \/ p = WarmOf(o)
        BY <4>1, <4>2, <1>2
      <4> QED BY <4>1, <4>3, <1>0, <1>3 DEF After
    <3> QED BY <3>1
  <2>2. \A o \in OnTime : row'[WarmOf(o)].state = "verified_child" =>
                            row[WarmOf(o)].state = "verified_child"
    BY <1>1, <1>2, <1>10
  <2> QED BY <2>1, <2>2, <1>1, <1>2, <1>5, <1>6, <1>10 DEF NoneAfter
<1>23. Somewhere'
  BY <1>1, <1>2, <1>5, <1>6, <1>10 DEF Somewhere
<1> QED
  BY <1>11, <1>12, <1>13, <1>14, <1>15, <1>16, <1>17, <1>18, <1>19, <1>20, <1>21, <1>22, <1>23
  DEF Inv

-----------------------------------------------------------------------------
(***************************************************************************)
(* The children of a roll-up are marked.                                   *)
(***************************************************************************)

LEMMA RollMarkInv ==
  ASSUME Inv, Typed', RollMark
  PROVE  Inv'
<1>0. PICK p : p = TheParent
  OBVIOUS
<1>1. /\ Typed /\ Clock /\ ReadStands /\ Sealing /\ Planned /\ TurnComes
      /\ Made /\ Sourced /\ HotHolds /\ HotGone /\ WarmHolds /\ WarmGone /\ ColdHolds
      /\ NoneAfter /\ Somewhere /\ work \in WorkSet /\ kind \in {"distinct", "stream"}
      /\ Rows \subseteq Bucket /\ OnTime \subseteq seen /\ seen \subseteq Item \X Time
      /\ update.time \in Time /\ now \in Nat /\ work.now \in Nat
  BY Numbers, Parts DEF Inv, TypedParts
<1>2. /\ Rolling /\ work.at = "mark" /\ Rows' = Rows
      /\ work' = [work EXCEPT !.at = "roll", !.kids = {}, !.mode = "EXACT", !.items = {}]
      /\ \A b \in Bucket : row'[b].mode = row[b].mode /\ row'[b].items = row[b].items
                           /\ (row'[b].sealed <=> row[b].sealed)
      /\ \A b \in work.kids : row'[b].state = "verified_child"
      /\ \A b \in Bucket \ work.kids :
           row'[b].state = IF b = p /\ kind = "stream" THEN "verified_parent" ELSE row[b].state
      /\ UNCHANGED <<kind, library, now, update, seen, late, expired>>
  BY <1>0, <1>1, RollMarkOf
<1>3. /\ work.width \in {1, Warm} /\ work.kids # {} /\ work.kids \subseteq Rows
      /\ p \in Bucket /\ p[1] # 1 /\ p[1] # work.width /\ p \notin work.kids
      /\ p[1] = Warm => work.width = 1
      /\ p[1] = Cold => work.width = Warm
      /\ \A b \in work.kids : b[1] = work.width /\ Parent(b) = p /\ row[b].sealed
      /\ End(p) <= work.now
  BY <1>0, <1>1, <1>2, RollOf, Widths DEF Planned
<1>4. /\ p \in Rows /\ row[p].mode = work.mode /\ row[p].items = work.items
      /\ \A i \in Item : WorkHolds(i) => Holds(p, i)
  BY <1>0, <1>1, <1>2, <1>3 DEF Made, Rows, WorkHolds, Holds
<1>5. /\ work'.at = "roll" /\ work'.now = work.now /\ work'.width = work.width
      /\ work'.todo = work.todo /\ work'.kids = {}
  BY <1>1, <1>2 DEF WorkSet
<1>6. ~Rolling' /\ InPass /\ InPass' /\ OnTime' = OnTime
  BY <1>2, <1>5 DEF Rolling, InPass, OnTime
<1>7. \A c \in Bucket :
        /\ row'[c].there <=> row[c].there
        /\ c \notin work.kids => (Pending(c) => Pending(c)')
        /\ c \in work.kids => ~Pending(c)'
        /\ c # p => (Pending(c)' => Pending(c))
        /\ kind = "stream" /\ c = p => Pending(c)'
        /\ c \notin work.kids /\ row'[c].state = "verified_child" => row[c].state = "verified_child"
        /\ kind # "stream" /\ c \notin work.kids => row'[c].state = row[c].state
  <2>1. \A c \in Bucket : row'[c].there <=> row[c].there
    BY <1>2 DEF Rows
  <2>2. row[p].there
    BY <1>4 DEF Rows
  <2> QED BY <2>1, <2>2, <1>2, <1>3 DEF Pending
<1>8. \A c \in Bucket, i \in Item : Holds(c, i)' <=> Holds(c, i)
  BY <1>2 DEF Holds
<1>9. \A c \in Bucket : Observed(c)' = Observed(c)
  BY <1>2 DEF Observed
<1>10. \A o \in seen :
         /\ HotOf(o) \in Bucket /\ HotOf(o)[1] = 1 /\ WarmOf(o) = Parent(HotOf(o)) /\ o[1] \in Item
         /\ HotOf(o) # p /\ WarmOf(o) \in Bucket /\ WarmOf(o)[1] = Warm
         /\ ColdOf(o) \in Bucket /\ ColdOf(o)[1] = Cold /\ ColdOf(o) = Parent(WarmOf(o))
  BY <1>1, <1>3, ChainOf
<1>11. Clock' /\ ReadStands' /\ PassComplete' /\ Made'
  <2>1. ASSUME update.at = "read" PROVE Hot(update.time) \in Bucket
    <3>0. \A t \in Nat : t % 1 = 0
      OBVIOUS
    <3> QED BY <3>0, <1>1, Widths DEF Hot, Bucket
  <2>2. ReadStands'
    BY <2>1, <1>1, <1>2, <1>7 DEF ReadStands, Add, Promoted, New
  <2> QED BY <2>2, <1>1, <1>2, <1>5, <1>6 DEF Clock, PassComplete, Made
<1>12. Sealing'
  <2>1. ASSUME NEW c \in Rows, row'[c].state = "verified_child"
        PROVE  row[c].sealed /\ c[1] # Cold /\ End(Parent(c)) <= now /\ End(Parent(c)) <= work.now
    <3>1. CASE c \in work.kids
      <4>1. row[c].sealed /\ c[1] # Cold /\ Parent(c) = p
        BY <3>1, <1>3, Widths
      <4>2. End(p) \in Nat /\ End(p) <= work.now /\ work.now <= now
        BY <1>1, <1>3, BucketType DEF Clock
      <4> QED BY <4>1, <4>2, <1>1
    <3>2. CASE c \notin work.kids
      BY <2>1, <3>2, <1>1, <1>2, <1>7 DEF Sealing
    <3> QED BY <3>1, <3>2
  <2> QED BY <2>1, <1>1, <1>2, <1>5 DEF Sealing
<1>13. Planned'
  BY <1>1, <1>2, <1>5, <1>6 DEF Planned
<1>14. TurnComes'
  <2>1. ASSUME NEW c \in Rows, Due(c)', c[1] = 1 \/ c[1] = work.width
        PROVE  c[1] = work.width /\ Parent(c) \in work.todo
    <3>1. c # p /\ c \notin work.kids /\ Due(c)
      BY <2>1, <1>1, <1>2, <1>3, <1>5, <1>7 DEF Due
    <3> QED BY <2>1, <3>1, <1>1, <1>6 DEF TurnComes
  <2> QED BY <2>1, <1>2, <1>5 DEF TurnComes
<1>15. Sourced' /\ HotHolds'
  <2>1. Sourced'
    BY <1>1, <1>2, <1>9 DEF Sourced
  <2>2. HotHolds'
    BY <1>1, <1>2, <1>8, <1>10 DEF HotHolds
  <2> QED BY <2>1, <2>2
<1>16. HotGone'
  BY <1>1, <1>2, <1>3, <1>5, <1>6, <1>7 DEF HotGone
\* A hot bucket that was rolled up now is held by its parent, and that is still
\* to be rolled up.
<1>17. ASSUME NEW o \in OnTime, HotOf(o) \in work.kids
       PROVE  WarmOf(o) = p /\ Holds(p, o[1])' /\ (Pending(HotOf(o)) => Pending(p)')
  <2>1. o \in seen /\ o[1] \in Item /\ WarmOf(o) = p
    BY <1>1, <1>3, <1>10, <1>17
  <2>2. Holds(p, o[1])'
    BY <2>1, <1>1, <1>2, <1>3, <1>4, <1>8, <1>17 DEF Made
  <2>3. ASSUME Pending(HotOf(o)) PROVE Pending(p)'
    <3>1. CASE kind = "stream"
      BY <3>1, <1>3, <1>7
    <3>2. CASE kind = "distinct"
      <4>1. row[p].state # "verified_child"
        BY <2>1, <2>3, <3>2, <1>1 DEF NoneAfter
      <4>2. Pending(p)
        BY <4>1, <1>4 DEF Pending, Rows
      <4> QED BY <4>2, <1>3, <1>7
    <3> QED BY <3>1, <3>2, <1>1
  <2> QED BY <2>1, <2>2, <2>3
<1>18. WarmHolds'
  <2>1. ASSUME NEW o \in OnTime, WarmOf(o) \in Rows
        PROVE  Holds(WarmOf(o), o[1])' \/ Pending(HotOf(o))'
    <3>0. o \in seen
      BY <1>1
    <3>1. CASE HotOf(o) \in work.kids
      BY <3>1, <1>17
    <3>2. CASE HotOf(o) \notin work.kids
      BY <2>1, <3>0, <3>2, <1>1, <1>7, <1>8, <1>10 DEF WarmHolds
    <3> QED BY <3>1, <3>2
  <2> QED BY <2>1, <1>2, <1>6 DEF WarmHolds
<1>19. WarmGone'
  <2>1. ASSUME NEW o \in OnTime, WarmOf(o) \notin Rows, ~Pending(HotOf(o))'
        PROVE  /\ End(WarmOf(o)) + WarmKeep <= now
               /\ \A c \in Rows : c[1] # Cold /\ Top(c) = ColdOf(o) => ~Pending(c)'
               /\ \A q \in work.todo : Top(q) # ColdOf(o)
    <3>1. HotOf(o) \notin work.kids
      BY <2>1, <1>4, <1>17
    <3>2. ~Pending(HotOf(o))
      BY <2>1, <3>1, <1>1, <1>7, <1>10
    <3>3. Top(p) # ColdOf(o)
      BY <2>1, <3>2, <1>0, <1>1, <1>2 DEF WarmGone
    <3>4. \A c \in Rows : c[1] # Cold /\ Top(c) = ColdOf(o) => ~Pending(c)'
      BY <2>1, <3>2, <3>3, <1>1, <1>7 DEF WarmGone
    <3> QED BY <2>1, <3>2, <3>4, <1>1 DEF WarmGone
  <2> QED BY <2>1, <1>2, <1>5, <1>6 DEF WarmGone
<1>20. ColdHolds'
  <2>1. ASSUME NEW o \in OnTime, ColdOf(o) \in Rows
        PROVE  Holds(ColdOf(o), o[1])' \/ Pending(HotOf(o))' \/ Pending(WarmOf(o))'
    <3>0. o \in seen /\ o[1] \in Item /\ HotOf(o) \in Bucket /\ WarmOf(o) \in Bucket
          /\ ColdOf(o) \in Bucket /\ HotOf(o)[1] = 1 /\ WarmOf(o)[1] = Warm
          /\ ColdOf(o) = Parent(WarmOf(o))
      BY <1>1, <1>10
    <3>1. CASE Holds(ColdOf(o), o[1])
      BY <3>0, <3>1, <1>8
    <3>2. CASE Pending(HotOf(o))
      BY <3>0, <3>2, <1>7, <1>17
    <3>3. CASE Pending(WarmOf(o)) /\ WarmOf(o) \notin work.kids
      BY <3>0, <3>3, <1>7
    <3>4. CASE WarmOf(o) \in work.kids
      <4>1. ColdOf(o) = p /\ WarmOf(o) \in Rows
        BY <3>0, <3>4, <1>3
      <4>2. Holds(WarmOf(o), o[1]) \/ Pending(HotOf(o))
        BY <4>1, <1>1 DEF WarmHolds
      <4>3. Holds(WarmOf(o), o[1]) => Holds(p, o[1])'
        BY <3>0, <3>4, <1>1, <1>2, <1>3, <1>4, <1>8 DEF Made
      <4> QED BY <4>1, <4>2, <4>3, <3>2
    <3> QED BY <2>1, <3>1, <3>2, <3>3, <3>4, <1>1 DEF ColdHolds
  <2> QED BY <2>1, <1>2, <1>6 DEF ColdHolds
<1>21. NoneAfter'
  <2>1. \A o \in OnTime : After(HotOf(o))' => After(HotOf(o))
    BY <1>1, <1>5, <1>7, <1>10 DEF After
  <2>2. ASSUME NEW o \in OnTime, kind = "distinct", row'[WarmOf(o)].state = "verified_child",
               Pending(HotOf(o))'
        PROVE  FALSE
    <3>0. o \in seen /\ HotOf(o) \in Bucket /\ WarmOf(o) \in Bucket /\ HotOf(o) # p
          /\ HotOf(o)[1] = 1 /\ WarmOf(o)[1] = Warm /\ WarmOf(o) = Parent(HotOf(o))
      BY <1>1, <1>10
    <3>1. Pending(HotOf(o)) /\ HotOf(o) \in Rows
      BY <2>2, <3>0, <1>7 DEF Pending, Rows
    <3>2. CASE WarmOf(o) \notin work.kids
      BY <2>2, <3>0, <3>1, <3>2, <1>1, <1>7 DEF NoneAfter
    <3>3. CASE WarmOf(o) \in work.kids
      <4>1. work.width = Warm /\ Parent(WarmOf(o)) = p /\ row[WarmOf(o)].there
        BY <3>0, <3>3, <1>3 DEF Rows
      <4>2. row[HotOf(o)].sealed
        BY <2>2, <3>0, <3>1, <4>1, <1>1 DEF NoneAfter, After
      <4>3. End(WarmOf(o)) <= work.now
        <5>1. End(WarmOf(o)) <= End(p)
          BY <3>0, <4>1, ParentOf, Widths
        <5>2. End(WarmOf(o)) \in Nat /\ End(p) \in Nat
          BY <3>0, <1>3, BucketType
        <5> QED BY <5>1, <5>2, <1>1, <1>3
      <4>4. Due(HotOf(o))
        BY <3>0, <3>1, <4>2, <4>3, Widths DEF Due
      <4>5. HotOf(o)[1] = work.width
        BY <3>0, <3>1, <4>4, <1>1, <1>6 DEF TurnComes
      <4> QED BY <3>0, <4>1, <4>5, Widths
    <3> QED BY <3>2, <3>3
  <2> QED BY <2>1, <2>2, <1>1, <1>2, <1>6, <1>10 DEF NoneAfter
<1>22. Somewhere'
  <2>1. ASSUME NEW o \in OnTime
        PROVE  \/ ColdOf(o) \in expired \/ ColdOf(o) \in Rows
               \/ Pending(WarmOf(o))' \/ Pending(HotOf(o))'
    <3>0. o \in seen /\ HotOf(o) \in Bucket /\ WarmOf(o) \in Bucket /\ ColdOf(o) = Parent(WarmOf(o))
      BY <1>1, <1>10
    <3>1. CASE Pending(HotOf(o))
      BY <3>0, <3>1, <1>7, <1>17
    <3>2. CASE Pending(WarmOf(o)) /\ WarmOf(o) \notin work.kids
      BY <3>0, <3>2, <1>7
    <3>3. CASE WarmOf(o) \in work.kids
      BY <3>0, <3>3, <1>3, <1>4
    <3> QED BY <3>1, <3>2, <3>3, <1>1 DEF Somewhere
  <2> QED BY <2>1, <1>2, <1>6 DEF Somewhere
<1> QED
  BY <1>11, <1>12, <1>13, <1>14, <1>15, <1>16, <1>18, <1>19, <1>20, <1>21, <1>22 DEF Inv

-----------------------------------------------------------------------------
(***************************************************************************)
(* Rows expire.                                                            *)
(***************************************************************************)

LEMMA ExpireInv ==
  ASSUME Inv, Typed', Expire
  PROVE  Inv'
<1>0. PICK E : E = Expirable
  OBVIOUS
<1>1. /\ Typed /\ Clock /\ ReadStands /\ Sealing /\ Planned /\ PassComplete
      /\ Sourced /\ HotHolds /\ HotGone /\ WarmHolds /\ WarmGone /\ ColdHolds
      /\ NoneAfter /\ Somewhere /\ work \in WorkSet
      /\ Rows \subseteq Bucket /\ OnTime \subseteq seen /\ seen \subseteq Item \X Time
      /\ update.time \in Time /\ update.time \in Nat /\ now \in Nat /\ work.now \in Nat
  BY Numbers, Parts DEF Inv, TypedParts
<1>2. /\ work.at = "expire" /\ E \subseteq Rows
      /\ \A b \in E : /\ End(b) + Keep(b[1]) <= work.now
                      /\ b[1] # Cold => row[b].state = "verified_child"
      /\ Rows' = Rows \ E
      /\ \A b \in Bucket \ E : row'[b] = row[b]
      /\ \A b \in E : row'[b] = NoRow
      /\ expired' = expired \cup {b \in E : b[1] = Cold}
      /\ work' = IF work.width = Cold THEN IdleWork
                 ELSE [work EXCEPT !.width = Wider(work.width)]
      /\ UNCHANGED <<kind, library, now, update, seen, late>>
  BY <1>0, <1>1, ExpireOf
<1>3. work.kids = {} /\ work.todo = {} /\ OnTime' = OnTime
  BY <1>1, <1>2 DEF Typed, TypeOK, Planned, InPass, OnTime
<1>4. /\ work'.kids = {} /\ work'.todo = {}
      /\ \/ work'.at = "idle" /\ work'.now = 0
         \/ work'.at = "expire" /\ work'.now = work.now
  <2>1. CASE work.width = Cold
    BY <2>1, <1>2, IdleTypes
  <2>2. CASE work.width # Cold
    BY <2>2, <1>1, <1>2, <1>3 DEF WorkSet
  <2> QED BY <2>1, <2>2
<1>5. ~Rolling' /\ ~InPass'
  BY <1>4 DEF Rolling, InPass
<1>6. \A c \in Bucket :
        /\ Pending(c)' => Pending(c)
        /\ c[1] # Cold => (Pending(c)' <=> Pending(c))
        /\ c \in Rows' => row'[c] = row[c]
        /\ row'[c].there \/ row'[c].state = "verified_child" => row'[c] = row[c]
  <2>1. ~NoRow.there /\ NoRow.state # "verified_child"
    BY DEF NoRow
  <2> QED BY <2>1, <1>1, <1>2 DEF Pending
<1>7. \A c \in Bucket, i \in Item : c \in Rows' => (Holds(c, i)' <=> Holds(c, i))
  BY <1>6 DEF Holds
<1>8. \A c \in Bucket : Observed(c)' = Observed(c)
  BY <1>2 DEF Observed
<1>9. work.now <= now /\ \A b \in Rows : ~row[b].sealed => work.now <= End(b)
  BY <1>1, <1>2 DEF Clock, Sealing
<1>10. \A o \in seen :
         /\ HotOf(o) \in Bucket /\ HotOf(o)[1] = 1 /\ WarmOf(o) = Parent(HotOf(o)) /\ o[1] \in Item
         /\ WarmOf(o) \in Bucket /\ WarmOf(o)[1] = Warm
         /\ ColdOf(o) \in Bucket /\ ColdOf(o)[1] = Cold /\ ColdOf(o) = Parent(WarmOf(o))
         /\ HotOf(o)[1] # Cold /\ WarmOf(o)[1] # Cold
  BY <1>1, ChainOf, Widths
<1>11. Clock'
  BY <1>1, <1>2, <1>4 DEF Clock
<1>12. ReadStands'
  <2>1. ASSUME update.at = "read" PROVE Hot(update.time) \in Bucket \ E
    <3>0. \A t \in Nat : t % 1 = 0
      OBVIOUS
    <3>1. Hot(update.time) \in Bucket
      BY <3>0, <1>1, Widths DEF Hot, Bucket
    <3>2. ASSUME Hot(update.time) \in E PROVE FALSE
      <4>1. update.time + 1 + HotKeep <= work.now
        BY <3>2, <1>2 DEF Hot, End, Keep
      <4>2. now <= update.time + 1
        BY <2>1, <1>1 DEF Clock
      <4> QED BY <4>1, <4>2, <1>1, <1>9, Widths
    <3> QED BY <3>1, <3>2
  <2> QED BY <2>1, <1>1, <1>2 DEF ReadStands, Add, Promoted, New
<1>13. Sealing'
  BY <1>1, <1>2, <1>4, <1>6 DEF Sealing
<1>14. Planned' /\ TurnComes' /\ Made'
  BY <1>4, <1>5 DEF Planned, TurnComes, Made, Rolling
<1>15. PassComplete'
  BY <1>1, <1>2, <1>4, <1>6 DEF PassComplete
<1>16. Sourced' /\ HotHolds'
  <2>1. Sourced'
    BY <1>1, <1>2, <1>6, <1>8 DEF Sourced
  <2>2. HotHolds'
    BY <1>1, <1>2, <1>7, <1>10 DEF HotHolds
  <2> QED BY <2>1, <2>2
<1>17. HotGone'
  <2>1. ASSUME NEW o \in seen, HotOf(o) \in E
        PROVE  /\ End(HotOf(o)) + HotKeep <= now
               /\ \A c \in Rows' : c[1] = 1 /\ Parent(c) = WarmOf(o) => ~Pending(c)'
    <3>1. PICK h \in Nat, w \in Nat :
            h = HotOf(o)[2] /\ w = End(WarmOf(o)) /\ End(HotOf(o)) = h + 1
      BY <1>10, BucketType
    <3>2. h + 1 + HotKeep <= work.now /\ w <= h + Warm
      <4>1. Keep(1) = HotKeep
        BY DEF Keep
      <4>2. End(WarmOf(o)) <= HotOf(o)[2] + WarmOf(o)[1]
        BY <1>10, ParentOf
      <4> QED BY <4>1, <4>2, <2>1, <3>1, <1>2, <1>10
    <3>3. w <= work.now /\ w < work.now /\ h + 1 + HotKeep <= now
      BY <3>1, <3>2, <1>1, <1>9, Widths
    <3>4. ASSUME NEW c \in Rows', c[1] = 1, Parent(c) = WarmOf(o), Pending(c)'
          PROVE  FALSE
      <4>1. c \in Rows /\ c \in Bucket /\ Pending(c) /\ c[1] # Cold
        BY <3>4, <1>1, <1>2, <1>6, Widths
      <4>2. ~row[c].sealed
        BY <4>1, <3>1, <3>3, <3>4, <1>1, <1>2 DEF PassComplete
      <4>3. work.now <= End(c)
        BY <4>1, <4>2, <1>9
      <4>4. End(c) <= w
        BY <4>1, <3>1, <3>4, ParentOf
      <4>5. End(c) \in Nat
        BY <4>1, BucketType
      <4> QED BY <4>3, <4>4, <4>5, <3>1, <3>3, <1>1
    <3> QED BY <3>1, <3>3, <3>4
  <2>2. ASSUME NEW o \in seen, HotOf(o) \notin Rows
        PROVE  /\ End(HotOf(o)) + HotKeep <= now
               /\ \A c \in Rows' : c[1] = 1 /\ Parent(c) = WarmOf(o) => ~Pending(c)'
    BY <2>2, <1>1, <1>2, <1>6 DEF HotGone
  <2> QED BY <2>1, <2>2, <1>2, <1>4, <1>5 DEF HotGone
<1>18. WarmHolds'
  BY <1>1, <1>2, <1>3, <1>6, <1>7, <1>10 DEF WarmHolds
<1>19. WarmGone'
  <2>1. ASSUME NEW o \in OnTime, WarmOf(o) \in E
        PROVE  /\ End(WarmOf(o)) + WarmKeep <= now
               /\ \A c \in Rows' : c[1] # Cold /\ Top(c) = ColdOf(o) => ~Pending(c)'
    <3>0. o \in seen
      BY <1>1
    <3>1. PICK h \in Nat, w \in Nat :
            h = WarmOf(o)[2] /\ w = End(ColdOf(o)) /\ End(WarmOf(o)) = h + Warm
      BY <3>0, <1>10, BucketType
    <3>2. h + Warm + WarmKeep <= work.now /\ w <= h + Cold /\ w <= work.now
      <4>1. Keep(Warm) = WarmKeep
        BY Widths DEF Keep
      <4>2. End(ColdOf(o)) <= WarmOf(o)[2] + ColdOf(o)[1]
        BY <3>0, <1>10, ParentOf
      <4>3. row[WarmOf(o)].state = "verified_child" /\ WarmOf(o) \in Rows
        BY <2>1, <3>0, <1>2, <1>10
      <4>4. End(ColdOf(o)) <= work.now
        BY <4>3, <3>0, <1>1, <1>2, <1>10 DEF Sealing
      <4> QED BY <4>1, <4>2, <4>4, <2>1, <3>0, <3>1, <1>2, <1>10
    <3>3. w < work.now /\ h + Warm + WarmKeep <= now
      BY <3>1, <3>2, <1>1, <1>9, Widths
    <3>4. ASSUME NEW c \in Rows', c[1] # Cold, Top(c) = ColdOf(o), Pending(c)'
          PROVE  FALSE
      <4>1. c \in Rows /\ c \in Bucket /\ Pending(c)
        BY <3>4, <1>1, <1>2, <1>6
      <4>2. End(Parent(c)) <= w /\ End(c) <= w
        BY <4>1, <3>1, <3>4, TopOf
      <4>3. End(Parent(c)) \in Nat /\ End(c) \in Nat
        BY <4>1, <3>4, ParentOf, BucketType
      <4>4. End(Parent(c)) <= work.now
        BY <4>2, <4>3, <3>1, <3>3, <1>1
      <4>5. ~row[c].sealed
        BY <4>1, <4>4, <3>4, <1>1, <1>2 DEF PassComplete
      <4>6. work.now <= End(c)
        BY <4>1, <4>5, <1>9
      <4> QED BY <4>2, <4>3, <4>6, <3>1, <3>3, <1>1
    <3> QED BY <3>1, <3>3, <3>4
  <2>2. ASSUME NEW o \in OnTime, WarmOf(o) \notin Rows, ~Pending(HotOf(o))
        PROVE  /\ End(WarmOf(o)) + WarmKeep <= now
               /\ \A c \in Rows' : c[1] # Cold /\ Top(c) = ColdOf(o) => ~Pending(c)'
    BY <2>2, <1>1, <1>2, <1>6 DEF WarmGone
  <2>3. \A o \in OnTime : Pending(HotOf(o))' <=> Pending(HotOf(o))
    BY <1>1, <1>6, <1>10
  <2> QED BY <2>1, <2>2, <2>3, <1>2, <1>3, <1>4, <1>5 DEF WarmGone
<1>20. ColdHolds'
  BY <1>1, <1>2, <1>3, <1>6, <1>7, <1>10 DEF ColdHolds
<1>21. NoneAfter'
  <2>1. \A o \in OnTime : After(HotOf(o))' => After(HotOf(o))
    <3>1. ASSUME NEW o \in OnTime, After(HotOf(o))' PROVE After(HotOf(o))
      <4>1. WarmOf(o) = Parent(HotOf(o)) /\ WarmOf(o) \in Bucket
        BY <1>1, <1>10
      <4>2. row'[WarmOf(o)].there
        BY <3>1, <4>1, <1>4 DEF After
      <4>3. row[WarmOf(o)].there
        BY <4>1, <4>2, <1>6
      <4> QED BY <4>1, <4>3 DEF After
    <3> QED BY <3>1
  <2>2. \A o \in OnTime :
          /\ row'[WarmOf(o)].state = "verified_child" => row[WarmOf(o)].state = "verified_child"
          /\ HotOf(o) \in Rows' => HotOf(o) \in Rows /\ row'[HotOf(o)] = row[HotOf(o)]
          /\ Pending(HotOf(o))' => Pending(HotOf(o))
    BY <1>1, <1>2, <1>6, <1>10
  <2> QED BY <2>1, <2>2, <1>1, <1>2, <1>3 DEF NoneAfter
<1>22. Somewhere'
  <2>1. ASSUME NEW o \in OnTime
        PROVE  \/ ColdOf(o) \in expired' \/ ColdOf(o) \in Rows'
               \/ Pending(WarmOf(o))' \/ Pending(HotOf(o))'
    <3>1. o \in seen
      BY <1>1
    <3> QED BY <3>1, <1>1, <1>2, <1>6, <1>10 DEF Somewhere
  <2> QED BY <2>1, <1>3 DEF Somewhere
<1> QED
  BY <1>11, <1>12, <1>13, <1>14, <1>15, <1>16, <1>17, <1>18, <1>19, <1>20, <1>21, <1>22 DEF Inv

-----------------------------------------------------------------------------
(***************************************************************************)
(* The theorems.                                                           *)
(***************************************************************************)

LEMMA InitInv == Init => Inv
<1> SUFFICES ASSUME Init PROVE Inv
  OBVIOUS
<1>1. Typed /\ Rows = {} /\ seen = {} /\ OnTime = {} /\ update.at = "idle"
      /\ work.at = "idle" /\ work.todo = {} /\ work.kids = {} /\ work.now = 0 /\ now = 0
  <2>1. ~NoRow.there
    BY DEF NoRow
  <2> QED BY <2>1, InitType, IdleTypes DEF Init, Rows, OnTime
<1>2. Clock /\ ReadStands /\ Sealing /\ Planned /\ TurnComes /\ PassComplete /\ Made
  BY <1>1 DEF Clock, ReadStands, Sealing, Planned, TurnComes, PassComplete, Made,
              Rolling, InPass
<1>3. /\ Sourced /\ HotHolds /\ HotGone /\ WarmHolds /\ WarmGone /\ ColdHolds
      /\ NoneAfter /\ Somewhere
  BY <1>1 DEF Sourced, HotHolds, HotGone, WarmHolds, WarmGone, ColdHolds, NoneAfter, Somewhere
<1> QED
  BY <1>1, <1>2, <1>3 DEF Inv

LEMMA NextInv ==
  ASSUME Inv, [Next]_vars
  PROVE  Inv'
<1>1. Typed'
  BY NextType DEF Inv
<1>2. CASE Next
  <2>1. ASSUME Update PROVE Inv'
    BY <1>1, <2>1, ObserveInv, ReadInv, PersistInv DEF Update
  <2>2. ASSUME Pass PROVE Inv'
    BY <1>1, <2>2, MaintainInv, RollReadInv, RollPersistInv, RollMarkInv, RollDoneInv, ExpireInv
    DEF Pass
  <2> QED BY <1>1, <1>2, <2>1, <2>2, AdvanceInv, CrashInv DEF Next
<1>3. CASE UNCHANGED vars
  <2>1. now \in Nat
    BY Numbers DEF Inv
  <2>2. /\ UNCHANGED <<kind, library, now, row, rollup, update, work, seen, late, expired>>
        /\ now <= now'
    BY <1>3, <2>1 DEF vars
  <2>3. /\ Sealing' /\ Planned' /\ TurnComes' /\ PassComplete' /\ Made' /\ Sourced'
        /\ HotHolds' /\ HotGone' /\ WarmHolds' /\ WarmGone' /\ ColdHolds' /\ NoneAfter'
        /\ Somewhere' /\ work.now <= now'
    BY <1>1, <2>2, SilentKeeps
  <2>4. Clock' /\ ReadStands'
    BY <2>2 DEF Inv, Clock, ReadStands, Add, Promoted, New
  <2> QED BY <1>1, <2>3, <2>4 DEF Inv
<1> QED
  BY <1>2, <1>3

LEMMA Always == Spec => []Inv
<1> QED BY InitInv, NextInv, PTL DEF Spec

\* The variables keep their types: rows that are not there are blank, links are of
\* rows, and a roll-up is under way just when it has children (registry.py).
THEOREM TypeCorrect == Spec => []TypeOK
<1>1. Inv => TypeOK
  BY DEF Inv, Typed
<1> QED BY <1>1, Always, PTL

\* A pass that gets as far as expiry has rolled up every sealed bucket whose parent
\* was over when it began (maintain).
THEOREM PassRollsUpAll == Spec => []PassComplete
<1>1. Inv => PassComplete
  BY DEF Inv
<1> QED BY <1>1, Always, PTL

\* No observation that came in time is lost between an unlocked update, sealing,
\* the three steps of a roll-up, expiry and a crash (maintain).
THEOREM ItemsAreKept == Spec => []ItemsKept
<1>1. ASSUME Inv PROVE ItemsKept
  <2> SUFFICES ASSUME NEW o \in OnTime
               PROVE  \/ Top(Hot(o[2])) \in expired
                      \/ \E b \in Chain(o[2]) :
                           \/ row[b].mode = "UNAVAILABLE"
                           \/ o[1] \in row[b].items /\ (b[1] = Cold \/ Pending(b))
    BY DEF ItemsKept, OnTime
  <2>1. o \in seen /\ o \in Item \X Time /\ Rows \subseteq Bucket
    BY <1>1, Numbers DEF Inv
  <2>2. /\ Top(Hot(o[2])) = ColdOf(o) /\ Chain(o[2]) = {HotOf(o), WarmOf(o), ColdOf(o)}
        /\ ColdOf(o)[1] = Cold
    BY <2>1, ChainOf
  <2>3. HotHolds /\ WarmHolds /\ ColdHolds /\ Somewhere
    BY <1>1 DEF Inv
  <2>4. Pending(HotOf(o)) => HotOf(o) \in Rows
    BY <2>1, ChainOf DEF Pending, Rows
  <2>5. Pending(WarmOf(o)) => WarmOf(o) \in Rows
    BY <2>1, ChainOf DEF Pending, Rows
  <2>6. CASE Pending(HotOf(o))
    BY <2>1, <2>2, <2>3, <2>4, <2>6 DEF HotHolds, Holds
  <2>7. CASE Pending(WarmOf(o)) /\ ~Pending(HotOf(o))
    BY <2>1, <2>2, <2>3, <2>5, <2>7 DEF WarmHolds, Holds
  <2>8. CASE ~Pending(WarmOf(o)) /\ ~Pending(HotOf(o))
    BY <2>1, <2>2, <2>3, <2>8 DEF ColdHolds, Somewhere, Holds
  <2> QED BY <2>6, <2>7, <2>8
<1> QED BY <1>1, Always, PTL

\* A bucket that calls its count exact holds just what was observed in its time,
\* but for what is still to be rolled up into it (CardinalityEstimate.exact).
THEOREM ExactIsHonest == Spec => []ExactHonest
<1>1. ASSUME Inv PROVE ExactHonest
  <2>0. /\ TypeOK /\ Rows \subseteq Bucket /\ OnTime \subseteq seen /\ seen \subseteq Item \X Time
        /\ Sourced /\ HotHolds /\ WarmHolds /\ ColdHolds
    BY <1>1, Numbers DEF Inv, Typed
  <2>1. \A o \in seen : Chain(o[2]) = {HotOf(o), WarmOf(o), ColdOf(o)}
    BY <2>0, ChainOf
  <2>2. ASSUME NEW b \in Rows, row[b].mode = "EXACT"
        PROVE  /\ row[b].items \subseteq {o[1] : o \in {x \in seen : b \in Chain(x[2])}}
               /\ \A o \in seen \ late : b \in Chain(o[2]) =>
                    o[1] \in row[b].items \/ \E c \in Chain(o[2]) : c[1] < b[1] /\ Pending(c)
    <3>1. row[b].items \subseteq {o[1] : o \in {x \in seen : b \in Chain(x[2])}}
      BY <2>0, <2>1 DEF Sourced, Observed
    <3>2. ASSUME NEW o \in OnTime, b \in Chain(o[2])
          PROVE  o[1] \in row[b].items \/ \E c \in Chain(o[2]) : c[1] < b[1] /\ Pending(c)
      <4>1. o \in seen /\ b \in {HotOf(o), WarmOf(o), ColdOf(o)}
        BY <2>0, <2>1, <3>2
      <4>2. HotOf(o)[1] = 1 /\ WarmOf(o)[1] = Warm /\ ColdOf(o)[1] = Cold
        BY <2>0, <4>1, ChainOf
      <4>3. 1 < Warm /\ 1 < Cold /\ Warm < Cold
        BY Widths
      <4>4. CASE b = HotOf(o)
        BY <2>0, <2>2, <4>1, <4>4 DEF HotHolds, Holds
      <4>5. CASE b = WarmOf(o)
        <5>1. o[1] \in row[b].items \/ Pending(HotOf(o))
          BY <2>0, <2>2, <4>5 DEF WarmHolds, Holds
        <5>2. HotOf(o)[1] < b[1]
          BY <4>2, <4>3, <4>5
        <5> QED BY <5>1, <5>2, <2>1, <4>1
      <4>6. CASE b = ColdOf(o)
        <5>1. o[1] \in row[b].items \/ Pending(HotOf(o)) \/ Pending(WarmOf(o))
          BY <2>0, <2>2, <4>6 DEF ColdHolds, Holds
        <5>2. HotOf(o)[1] < b[1] /\ WarmOf(o)[1] < b[1]
          BY <4>2, <4>3, <4>6
        <5> QED BY <5>1, <5>2, <2>1, <4>1
      <4> QED BY <4>1, <4>4, <4>5, <4>6
    <3> QED BY <3>1, <3>2 DEF OnTime
  <2> QED BY <2>0, <2>2 DEF ExactHonest
<1> QED BY <1>1, Always, PTL
=============================================================================

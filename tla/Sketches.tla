------------------------------ MODULE Sketches ------------------------------
(***************************************************************************)
(* The buckets of one sketch metric: how an observation is filed           *)
(* (sentience/sketches/registry.py, hybrid_distinct.py), and how the       *)
(* maintenance thread seals hot buckets, rolls them up into warm and cold  *)
(* ones and expires what it rolled up, while updates come from the         *)
(* executor and the process may crash.                                     *)
(*                                                                         *)
(* Time is counted in hot buckets.  A sketch is the set of items it has    *)
(* taken in: what an HLL, a KLL, a frequency or a Theta sketch makes of    *)
(* the set is arithmetic that decides nothing here.  An exact set holds at *)
(* most Threshold items and is then promoted, or capped if the library is  *)
(* not there.  registry._lock lets one update run at a time; it is not     *)
(* held by the maintenance.  The HMAC key is never rotated in the program. *)
(***************************************************************************)
EXTENDS Naturals, FiniteSets

CONSTANTS Item,
          NoItem,
          Threshold,   \* exact_threshold
          Warm, Cold,  \* widths of warm and cold buckets
          HotKeep, WarmKeep, ColdKeep,  \* retention of each width
          Horizon,     \* bound: hot buckets
          Busy,        \* bound: the hot buckets in which something is observed
          MaxUpdate,   \* bound: updates begun
          MaxCrash     \* bound: crashes

Time == 0..Horizon

ASSUME SketchAssumption ==
  /\ NoItem \notin Item /\ Busy \subseteq Time
  /\ {Threshold, Warm, Cold, Horizon} \subseteq Nat \ {0}
  /\ {HotKeep, WarmKeep, ColdKeep, MaxUpdate, MaxCrash} \subseteq Nat
  /\ Warm > 1 /\ Cold > Warm
  \* True of the defaults.  The configuration is not checked for it: it checks
  \* that widths grow and that retentions grow.
  /\ Cold % Warm = 0 /\ HotKeep >= Warm /\ WarmKeep > Cold - Warm
  /\ HotKeep < WarmKeep /\ WarmKeep < ColdKeep

\* Buckets: a width and a start that is a multiple of it (bucket_bounds).
Bucket == {b \in {1, Warm, Cold} \X Time : b[2] % b[1] = 0}
End(b) == b[2] + b[1]
Hot(h) == <<1, h>>
Wider(w) == IF w = 1 THEN Warm ELSE Cold
Parent(b) == LET w == Wider(b[1]) IN <<w, b[2] - (b[2] % w)>>
Top(b) == IF b[1] = Cold THEN b ELSE IF b[1] = Warm THEN Parent(b) ELSE Parent(Parent(b))

VARIABLES
  kind,      \* what the metric is: distinct, or one of the stream sketches
  library,   \* the sketch library is installed
  now,       \* the hot bucket of the wall clock
  row,       \* sketch_buckets
  rollup,    \* sketch_rollups: <<parent, child>>
  update,    \* the update that holds the lock
  work,      \* the maintenance pass
  left,      \* what the bounds still allow
  seen,      \* history: <<item, hot bucket>> of the updates that returned
  late,      \* history: those that reached a bucket already rolled up
  expired    \* history: cold buckets that were expired

vars == <<kind, library, now, row, rollup, update, work, left, seen, late, expired>>

Mode == {"EXACT", "HLL", "UNAVAILABLE", "STREAM"}
State == {"none", "verified_parent", "verified_child"}
NoRow == [there |-> FALSE, mode |-> "EXACT", items |-> {}, sealed |-> FALSE, state |-> "none"]
IdleUpdate == [at |-> "idle", item |-> NoItem, time |-> 0, mode |-> "EXACT", items |-> {}]
IdleWork == [at |-> "idle", now |-> 0, width |-> 1, todo |-> {}, kids |-> {},
             mode |-> "EXACT", items |-> {}]

Rows == {b \in Bucket : row[b].there}

-----------------------------------------------------------------------------
(***************************************************************************)
(* HybridDistinctBucket: update, _promote and merge.                       *)
(***************************************************************************)

Sketch(mode, items) == [mode |-> mode, items |-> items]
New == IF kind = "distinct" THEN Sketch("EXACT", {}) ELSE Sketch("STREAM", {})

\* Mutant: the promotion starts from an empty sketch.
PromotedEmpty(items) ==
  IF Cardinality(items) <= Threshold THEN Sketch("EXACT", items)
  ELSE IF library THEN Sketch("HLL", {}) ELSE Sketch("UNAVAILABLE", items)
\* An exact set that grew past its limit.
Promoted(items) ==
  IF Cardinality(items) <= Threshold THEN Sketch("EXACT", items)
  ELSE IF library THEN Sketch("HLL", items) ELSE Sketch("UNAVAILABLE", items)

Add(s, i) ==
  CASE s.mode = "EXACT" -> Promoted(s.items \cup {i})
    [] s.mode = "UNAVAILABLE" -> s
    [] OTHER -> Sketch(s.mode, s.items \cup {i})

\* Mutant: an exact set merged with a capped one stays exact.
MergedExact(s, t) ==
  IF s.mode = "EXACT" /\ t.mode \in {"EXACT", "UNAVAILABLE"} THEN Promoted(s.items)
  ELSE Sketch(IF s.mode = "EXACT" THEN "HLL" ELSE s.mode, s.items \cup t.items)
\* A merge with a capped set is capped and leaves the items as they were.
Merged(s, t) ==
  IF "UNAVAILABLE" \in {s.mode, t.mode} THEN Sketch("UNAVAILABLE", s.items)
  ELSE IF s.mode = "EXACT" /\ t.mode = "EXACT" THEN Promoted(s.items \cup t.items)
  ELSE Sketch(IF s.mode = "EXACT" THEN "HLL" ELSE s.mode, s.items \cup t.items)
-----------------------------------------------------------------------------
(***************************************************************************)
(* An update: update_distinct and the three stream updates.                *)
(***************************************************************************)

Init ==
  /\ kind \in {"distinct", "stream"}
  /\ library \in (IF kind = "distinct" THEN BOOLEAN ELSE {TRUE})
  /\ now = 0
  /\ row = [b \in Bucket |-> NoRow]
  /\ rollup = {}
  /\ update = IdleUpdate
  /\ work = IdleWork
  /\ left = [update |-> MaxUpdate, crash |-> MaxCrash]
  /\ seen = {} /\ late = {} /\ expired = {}

\* The caller reads the clock and then waits for the lock.
Observe(i) ==
  /\ update.at = "idle" /\ left.update > 0 /\ now \in Busy
  /\ update' = [IdleUpdate EXCEPT !.at = "observed", !.item = i, !.time = now]
  /\ left' = [left EXCEPT !.update = @ - 1]
  /\ UNCHANGED <<kind, library, now, row, rollup, work, seen, late, expired>>

\* The bucket is read outside the transaction that will write it; a sealed
\* one refuses.
UpdateRead ==
  LET old == row[Hot(update.time)]
      base == IF old.there THEN Sketch(old.mode, old.items) ELSE New
      next == Add(base, update.item)
  IN /\ update.at = "observed"
     /\ update' = IF old.there /\ old.sealed THEN IdleUpdate
                  ELSE [update EXCEPT !.at = "read", !.mode = next.mode, !.items = next.items]
     /\ UNCHANGED <<kind, library, now, row, rollup, work, left, seen, late, expired>>

\* The row b with a new value: sealed and rollup_state survive a conflict.
Upsert(b, mode, items, sealed, state) ==
  IF row[b].there
  THEN [row[b] EXCEPT !.mode = mode, !.items = items, !.sealed = @ \/ sealed]
  ELSE [there |-> TRUE, mode |-> mode, items |-> items, sealed |-> sealed, state |-> state]

\* The roll-up of b into its parent has read b and will not do so again, or,
\* of a distinct metric, b comes after the roll-up that makes the parent: the
\* parent is done again with b, but nobody rolls the parent up again.
TheParent == Parent(CHOOSE b \in work.kids : TRUE)
Closed(b) == row[b].there /\ (row[b].state = "verified_child" \/ b \in work.kids)
After(b) == \/ row[Parent(b)].there \/ Parent(b) \in work.todo
            \/ work.kids # {} /\ TheParent = Parent(b)

UpdatePersist ==
  LET b == Hot(update.time)
      what == <<update.item, update.time>>
  IN /\ update.at = "read"
     /\ row' = [row EXCEPT ![b] = Upsert(b, update.mode, update.items, FALSE, "none")]
     /\ seen' = seen \cup {what}
     /\ late' = IF Closed(b) \/ (kind = "distinct" /\ After(b))
                THEN late \cup {what} ELSE late
     /\ update' = IdleUpdate
     /\ UNCHANGED <<kind, library, now, rollup, work, left, expired>>

Advance ==
  /\ now < Horizon
  /\ update.at = "idle" \/ update.time = now   \* an update is a bucket late at most
  /\ now' = now + 1
  /\ UNCHANGED <<kind, library, row, rollup, update, work, left, seen, late, expired>>

-----------------------------------------------------------------------------
(***************************************************************************)
(* The maintenance thread: maintain.                                       *)
(***************************************************************************)

Step(w) ==
  /\ work' = w
  /\ UNCHANGED <<kind, library, now, update, left, seen, late>>

\* seal_due: one transaction, whatever the width.
Seal == [b \in Bucket |-> [row[b] EXCEPT !.sealed = @ \/ (row[b].there /\ End(b) <= now)]]

\* Mutant: the parents are chosen among those that have not been rolled up.
PlanOnce(r, width, t) ==
  LET open == {b \in Bucket : b[1] = width /\ r[b].sealed /\ r[b].state # "verified_child"}
  IN {p \in {Parent(b) : b \in open} : End(p) <= t /\ ~r[p].there}
\* The parents that are over at time t and have, in r, a child to roll up.
Plan(r, width, t) ==
  LET open == {b \in Bucket : b[1] = width /\ r[b].sealed /\ r[b].state # "verified_child"}
  IN {p \in {Parent(b) : b \in open} : End(p) <= t}

\* The clock is read, what is due is sealed, the first roll-ups are chosen
\* (an update cannot make a sealed row: nothing comes between these).
Maintain ==
  /\ work.at = "idle"
  /\ row' = Seal
  /\ Step([IdleWork EXCEPT !.at = "roll", !.now = now, !.todo = Plan(Seal, 1, now)])
  /\ UNCHANGED <<rollup, expired>>

Children(p) == {b \in Rows : b[1] = work.width /\ Parent(b) = p /\ row[b].sealed}

\* What the children come to, merged in the order of their start.
Union(kids) ==
  LET upTo[n \in 0..(Horizon + 1)] ==
        IF n = 0 THEN New
        ELSE LET b == <<work.width, n - 1>>
             IN IF b \in kids THEN Merged(upTo[n - 1], row[b]) ELSE upTo[n - 1]
  IN upTo[Horizon + 1]

\* rollup_distinct reads its own result back: a capped set that holds more than
\* one item too many is refused there, by an error that maintain does not catch.
Refused(s) == s.mode = "UNAVAILABLE" /\ Cardinality(s.items) > Threshold + 1

RollRead(p) ==
  /\ work.at = "roll" /\ p \in work.todo
  /\ \A q \in work.todo : p[2] <= q[2]
  /\ LET sum == Union(Children(p)) IN
     Step(IF Refused(sum) THEN IdleWork
          ELSE [work EXCEPT !.at = "persist", !.todo = @ \ {p}, !.kids = Children(p),
                            !.mode = sum.mode, !.items = sum.items])
  /\ UNCHANGED <<row, rollup, expired>>

RollPersist ==
  /\ work.at = "persist"
  /\ row' = [row EXCEPT ![TheParent] =
               Upsert(TheParent, work.mode, work.items, TRUE,
                      IF kind = "distinct" THEN "verified_parent" ELSE "none")]
  /\ Step([work EXCEPT !.at = "mark"])
  /\ UNCHANGED <<rollup, expired>>

\* The transaction of the links.  Only rollup_stream says anew of the parent
\* that it is one.
RollMark ==
  /\ work.at = "mark"
  /\ row' = [b \in Bucket |->
               CASE b \in work.kids -> [row[b] EXCEPT !.state = "verified_child"]
                 [] b = TheParent /\ kind = "stream" -> [row[b] EXCEPT !.state = "verified_parent"]
                 [] OTHER -> row[b]]
  /\ rollup' = rollup \cup ({TheParent} \X work.kids)
  /\ Step([work EXCEPT !.at = "roll", !.kids = {}, !.mode = "EXACT", !.items = {}])
  /\ UNCHANGED expired

RollDone ==
  /\ work.at = "roll" /\ work.todo = {}
  /\ Step(IF work.width = 1
          THEN [work EXCEPT !.width = Warm, !.todo = Plan(row, Warm, work.now)]
          ELSE [work EXCEPT !.at = "expire", !.width = 1])
  /\ UNCHANGED <<row, rollup, expired>>

Keep(w) == IF w = 1 THEN HotKeep ELSE IF w = Warm THEN WarmKeep ELSE ColdKeep

\* What expire_verified_children and _expire_cold select.
Expirable ==
  {b \in Rows : /\ b[1] = work.width /\ End(b) + Keep(b[1]) <= work.now
                /\ IF b[1] = Cold THEN row[b].sealed
                   ELSE /\ row[b].state = "verified_child"
                        /\ \E p \in Rows : <<p, b>> \in rollup /\ row[p].sealed}

\* The rows of one width, each in a transaction of its own that takes its links
\* with it.  A crash between two of them leaves the rest to the next pass.
Expire ==
  /\ work.at = "expire"
  /\ row' = [b \in Bucket |-> IF b \in Expirable THEN NoRow ELSE row[b]]
  /\ rollup' = {r \in rollup : {r[1], r[2]} \cap Expirable = {}}
  /\ expired' = expired \cup {b \in Expirable : b[1] = Cold}
  /\ Step(IF work.width = Cold THEN IdleWork ELSE [work EXCEPT !.width = Wider(work.width)])

Crash ==
  /\ left.crash > 0 /\ (update # IdleUpdate \/ work # IdleWork)
  /\ left' = [left EXCEPT !.crash = @ - 1]
  /\ update' = IdleUpdate /\ work' = IdleWork
  /\ UNCHANGED <<kind, library, now, row, rollup, seen, late, expired>>

Update == (\E i \in Item : Observe(i)) \/ UpdateRead \/ UpdatePersist
Pass ==
  \/ Maintain \/ (\E p \in Bucket : RollRead(p)) \/ RollPersist \/ RollMark
  \/ RollDone \/ Expire

Next == Update \/ Advance \/ Pass \/ Crash

Spec == Init /\ [][Next]_vars

-----------------------------------------------------------------------------
(***************************************************************************)
(* Properties.                                                             *)
(***************************************************************************)

\* Types; rows that are not there are blank, and one step at most is under way.
TypeOK ==
  /\ kind \in {"distinct", "stream"} /\ library \in BOOLEAN /\ now \in Time
  /\ row \in [Bucket -> [there : BOOLEAN, mode : Mode, items : SUBSET Item,
                         sealed : BOOLEAN, state : State]]
  /\ \A b \in Bucket \ Rows : row[b] = NoRow
  /\ rollup \subseteq Rows \X Bucket
  /\ update.at \in {"idle", "observed", "read"} /\ update.item \in Item \cup {NoItem}
  /\ work.at \in {"idle", "roll", "persist", "mark", "expire"}
  /\ work.todo \subseteq Bucket /\ work.kids \subseteq Bucket
  /\ work.at \in {"persist", "mark"} <=> work.kids # {}

\* The buckets an observation of hot bucket h may be found in.
Chain(h) == {Hot(h), Parent(Hot(h)), Top(Hot(h))}

\* A bucket that is still to be rolled up.
Pending(b) == row[b].there /\ row[b].state # "verified_child"

\* No observation is lost by sealing, rolling up or expiring: it is in a bucket
\* that is still to be rolled up, or in the cold one, until that is expired; or
\* a capped bucket says that it does not know.  It is about the interplay of the
\* unlocked read of an update, seal_due, the three steps of a roll-up, expiry
\* and a crash (registry.py maintain).  Late updates are the exception, see README.
ItemsKept ==
  \A o \in seen \ late :
    \/ Top(Hot(o[2])) \in expired
    \/ \E b \in Chain(o[2]) :
         \/ row[b].mode = "UNAVAILABLE"
         \/ o[1] \in row[b].items /\ (b[1] = Cold \/ Pending(b))

\* A bucket that calls its count exact holds just what was observed in
\* its time, but for what is still to be rolled up into it: roll-ups and
\* promotions neither count an item of another bucket nor call a capped count
\* exact (CardinalityEstimate.exact).
ExactHonest ==
  /\ TypeOK
  /\ \A b \in {c \in Rows : row[c].mode = "EXACT"} :
       LET in == {o \in seen : b \in Chain(o[2])}
       IN /\ row[b].items \subseteq {o[1] : o \in in}
          /\ \A o \in in \ late :
               o[1] \in row[b].items \/ \E c \in Chain(o[2]) : c[1] < b[1] /\ Pending(c)

\* A pass that gets as far as expiry has rolled up every sealed bucket whose
\* parent was over when it began, rows that came late and rows an earlier pass
\* left behind included (maintain).
PassComplete ==
  work.at = "expire" =>
    \A b \in Rows : b[1] # Cold /\ row[b].sealed /\ End(Parent(b)) <= work.now
                   => ~Pending(b)
=============================================================================

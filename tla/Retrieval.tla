------------------------------ MODULE Retrieval ------------------------------
(***************************************************************************)
(* The memory that goes into a prompt: the token budget                    *)
(* (sentience/retrieval/token_budget.py), the search that spends it        *)
(* (sentience/retrieval/planner.py) and the JSON object that the service   *)
(* makes of the result (sentience/service.py).  Pure operators; a text is  *)
(* its length in bytes, since the budget sees nothing else of it.          *)
(*                                                                         *)
(* A row is what the index returned, best first: its kind and subject, the *)
(* bytes of its body, the bytes that a cut in it loses besides (half a     *)
(* character, blanks at the end), and the bytes that its other fields and  *)
(* its expansions take as JSON.                                            *)
(***************************************************************************)
EXTENDS Integers, FiniteSets, Sequences, SequencesExt

Kinds == {"commitment", "contradiction", "fact", "episode"}

Least(a, b) == IF a < b THEN a ELSE b
Most(a, b) == IF a > b THEN a ELSE b

\* Four bytes are one token.
Tokens(bytes) == (bytes + 3) \div 4

-----------------------------------------------------------------------------
\* The budget after a text was taken from it, what is left of the text, and
\* whether it was cut.  A cut text ends in an ellipsis of three bytes.
Take(requested, used, text, overhead) ==
  LET available == Most(0, requested - used) - overhead
      cut == Most(0, 4 * available - text.lost)
      kept == IF cut > 0 THEN cut + 3 ELSE 0
  IN  CASE available <= 0 -> [used |-> used, bytes |-> 0, cut |-> TRUE]
        [] available > 0 /\ Tokens(text.bytes) <= available ->
             [used |-> used + Tokens(text.bytes) + overhead,
              bytes |-> text.bytes, cut |-> FALSE]
        [] OTHER -> [used |-> used + Tokens(kept) + overhead,
                     bytes |-> kept, cut |-> TRUE]

-----------------------------------------------------------------------------
Count(items) == Len(items["fact"]) + Len(items["episode"]) + Len(items["commitment"])
                + Len(items["contradiction"])

\* How many items of the row's kind are about its subject.
Alike(items, row) ==
  Cardinality({i \in DOMAIN items[row.kind] : items[row.kind][i].subject = row.subject})

\* One turn of the loop over the ranked rows.
Consider(found, row, requested, results) ==
  LET text == Take(requested, found.used, row, 8)
      item == [row EXCEPT !.bytes = text.bytes]
      full == Count(found.items) >= results
      skipped == row.kind \notin Kinds \/ Alike(found.items, row) >= 3
  IN  CASE found.done -> found
        [] ~found.done /\ full -> [found EXCEPT !.done = TRUE, !.truncated = TRUE]
        [] ~found.done /\ ~full /\ skipped -> found
        [] OTHER ->
             [items |-> IF text.bytes = 0 THEN found.items
                        ELSE [found.items EXCEPT ![row.kind] = Append(@, item)],
              used |-> text.used,
              done |-> text.cut \/ text.bytes = 0,
              truncated |-> found.truncated \/ text.cut \/ text.bytes = 0]

\* One of the approximate metrics that follow the rows.
Aware(found, text, requested) ==
  LET taken == Take(requested, found.used, text, 4)
  IN  IF found.done THEN found
      ELSE [found EXCEPT !.used = taken.used, !.done = taken.cut,
                         !.truncated = @ \/ taken.cut]

\* Every item, ordered by kind.
AllItems(items) ==
  items["commitment"] \o items["contradiction"] \o items["fact"] \o items["episode"]

TakeRows(rows, requested, results) ==
  LET found[n \in 0..Len(rows)] ==
        IF n = 0 THEN [items |-> [k \in Kinds |-> <<>>], used |-> 0,
                       done |-> FALSE, truncated |-> FALSE]
        ELSE Consider(found[n - 1], rows[n], requested, results)
  IN  found[Len(rows)]

TakeAwareness(ranked, awareness, requested) ==
  LET found[n \in 0..Len(awareness)] ==
        IF n = 0 THEN [ranked EXCEPT !.done = FALSE]
        ELSE Aware(found[n - 1], awareness[n], requested)
  IN  found[Len(awareness)]

Search(rows, awareness, requested, results) ==
  LET all == TakeAwareness(TakeRows(rows, requested, results), awareness, requested)
  IN  [items |-> AllItems(all.items), used |-> all.used, truncated |-> all.truncated]

-----------------------------------------------------------------------------
\* What the context window leaves for memory; without its size, the profile.
MemoryBudget(profile, maximum, conversation, fixed) ==
  IF maximum <= 0 THEN profile
  ELSE Most(0, Least(profile, maximum - conversation - fixed))

\* The decimal digits of a number, ten at most.
Digits(n) == 1 + Cardinality({d \in 1..9 : 10^d <= n})

Total(sizes) ==
  LET sum[n \in 0..Len(sizes)] == IF n = 0 THEN 0 ELSE sum[n - 1] + sizes[n]
  IN  sum[Len(sizes)]

\* The bytes of the object: its frame, the two numbers, the flag, the items.
JsonBytes(budget, used, truncated, items) ==
  71 + Digits(budget) + Digits(used) + (IF truncated THEN 4 ELSE 5)
  + Total([i \in DOMAIN items |-> items[i].bytes + items[i].fields])
  + Most(0, Len(items) - 1)

\* Mutant: the number of tokens is not known yet and taken for 0.
ProvisionalNone(budget) == 0

\* Every check before the last reserves room for the largest number of tokens.
Provisional(budget) == budget

\* One turn of the loop over the items of the result.
Admit(data, item, budget) ==
  LET more == Append(data.items, item)
  IN  CASE data.done -> data
        [] ~data.done /\ Tokens(JsonBytes(budget, Provisional(budget),
                                          data.truncated, more)) > budget ->
             [data EXCEPT !.done = TRUE, !.truncated = TRUE]
        [] OTHER -> [data EXCEPT !.items = more]

AdmitAll(result, budget) ==
  LET data[n \in 0..Len(result.items)] ==
        IF n = 0 THEN [items |-> <<>>, done |-> FALSE, truncated |-> result.truncated]
        ELSE Admit(data[n - 1], result.items[n], budget)
  IN  data[Len(result.items)]

\* The memory of a prompt, or none: the items, the tokens it claims to take,
\* the tokens it takes, and whether it says that something was left out.
PromptMemory(result, budget) ==
  LET data == AdmitAll(result, budget)
      links == Total([i \in DOMAIN data.items |-> data.items[i].expand])
      expansion == IF links = 0 THEN 0 ELSE 25 + links
      fits == Tokens(JsonBytes(budget, Provisional(budget), data.truncated,
                               data.items) + expansion) <= budget
      truncated == data.truncated \/ ~fits
      Size(used) == Tokens(JsonBytes(budget, used, truncated, data.items)
                           + IF fits THEN expansion ELSE 0)
      used == Size(Size(Provisional(budget)))
  IN  [items |-> data.items, truncated |-> truncated,
       used |-> IF data.items = <<>> THEN 0 ELSE used,
       taken |-> IF data.items = <<>> THEN 0 ELSE Size(used)]

-----------------------------------------------------------------------------
(***************************************************************************)
(* What the search spends is what was asked for, but for the ellipsis of   *)
(* the text it cut.  What the service adds to the prompt takes no more     *)
(* tokens than it says and never more than it was given, so conversation,  *)
(* capsule, prompt and memory fit the context window together; the items   *)
(* are the first of the result, and a missing one is admitted to.          *)
(***************************************************************************)
Fits(rows, awareness, profile, maximum, conversation, fixed) ==
  LET budget == MemoryBudget(profile, maximum, conversation, fixed)
      result == Search(rows, awareness, budget, 10)
      memory == PromptMemory(result, budget)
  IN  budget >= 32 =>
        /\ result.used <= budget + 1
        /\ memory.taken <= memory.used
        /\ memory.used <= budget
        /\ maximum > 0 => conversation + fixed + memory.used <= maximum
        /\ IsPrefix(memory.items, result.items)
        /\ memory.items # result.items => memory.truncated
=============================================================================

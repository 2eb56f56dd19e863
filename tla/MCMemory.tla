------------------------------ MODULE MCMemory ------------------------------
(***************************************************************************)
(* Instances of Memory for TLC, and the bounded inputs of Retrieval.       *)
(***************************************************************************)
EXTENDS Memory, Retrieval

\* Rows whose sizes meet every residue of a token of four bytes.
Rows ==
  {[kind |-> k, subject |-> 1, bytes |-> b, lost |-> l, fields |-> f, expand |-> x] :
     k \in {"fact", "episode"}, b \in {7, 90}, l \in {0, 2},
     f \in {150, 151, 153}, x \in {0, 44}}

Ranked ==
  (UNION {[1..n -> Rows] : n \in 1..2})
  \cup {[i \in 1..4 |-> r] : r \in Rows}

Awareness == {<<>>, <<[bytes |-> 150, lost |-> 0]>>}

\* The size of the context window, the conversation in it, and the rest.
Windows == {<<0, 0, 0>>, <<400, 200, 105>>, <<400, 500, 105>>}

\* Every ranking, profile and window within these bounds.
AllFit ==
  \A rows \in Ranked, awareness \in Awareness, window \in Windows,
     profile \in {95, 99, 100, 105, 130, 700} :
    Fits(rows, awareness, profile, window[1], window[2], window[3])

\* Whatever HAL has in its memory when it prepares a prompt, what it adds to
\* the prompt keeps to its budget and to the context window (planner.py,
\* token_budget.py and _retrieve_prompt_memory in service.py).
PromptFits == hal = "on" => AllFit
=============================================================================

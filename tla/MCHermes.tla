------------------------------ MODULE MCHermes ------------------------------
\* Instances of Hermes for TLC.
EXTENDS Hermes

\* Prompts are interchangeable.
Symmetry == Permutations(Prompt)
=============================================================================

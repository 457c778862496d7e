-------------------------- MODULE MCAccountSession --------------------------
(* Tabs, tokens and secrets are interchangeable.                           *)
EXTENDS AccountSession, TLC

Symmetry == Permutations(Tab) \cup Permutations(Token) \cup Permutations(Secret)
=============================================================================

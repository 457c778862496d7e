----------------------------- MODULE MCWebConfig -----------------------------
(***************************************************************************)
(* WebConfig for TLC.  Jobs are interchangeable, and so are paths.         *)
(***************************************************************************)
EXTENDS WebConfig, TLC

Symmetry == Permutations(Job) \cup Permutations(Path)
=============================================================================

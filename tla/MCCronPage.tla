----------------------------- MODULE MCCronPage -----------------------------
EXTENDS CronPage, TLC

CONSTANTS j1, j2, j3, j4, k1, k2

(* Comments before and between the jobs, and two more jobs to add.         *)
MCJob == {j1, j2, j3, j4}
MCComment == {k1, k2}
MCFirst == <<k1, j1, k2, j2>>

(* The jobs to add differ in nothing but their names.                      *)
Added == Permutations({j3, j4})
=============================================================================

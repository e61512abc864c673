----------------------------- MODULE MCQThreads -----------------------------
(***************************************************************************)
(* QThreads for TLC.  The tasks are interchangeable: no action tells one   *)
(* from another, so states that differ by a permutation are one state.     *)
(***************************************************************************)
EXTENDS QThreads, TLC

TaskSymmetry == Permutations(Tasks)
=============================================================================

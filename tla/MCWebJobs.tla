----------------------------- MODULE MCWebJobs ------------------------------
(***************************************************************************)
(* A small instance of WebJobs: workers, and jobs, are interchangeable.    *)
(***************************************************************************)
EXTENDS WebJobs, TLC

Symmetry == Permutations(Workers) \cup Permutations(Jobs)
=============================================================================

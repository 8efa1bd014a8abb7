---------------------------- MODULE MCScheduler ----------------------------
(***************************************************************************)
(* Model-checking instance of Scheduler: pages are interchangeable.        *)
(***************************************************************************)
EXTENDS Scheduler, TLC

PageSymmetry == Permutations(Pages)

=============================================================================

------------------------------ MODULE MCKernel ------------------------------
(***************************************************************************)
(* Model-checking instance of Kernel: three slots, two pages, sleeps of    *)
(* two and three ticks.  Its runs check temporal properties, so that the   *)
(* symmetry of the pages is not used.                                      *)
(***************************************************************************)
EXTENDS Kernel, TLC

=============================================================================

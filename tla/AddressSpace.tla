---------------------------- MODULE AddressSpace ----------------------------
(***************************************************************************)
(* What vmm.c promises its callers: a map from pages to frames in which a  *)
(* call of vmm_map_page or vmm_unmap_page changes the one page it names,   *)
(* at most once, and which the processor follows once the call returned.   *)
(***************************************************************************)
CONSTANTS
  Virt,   \* pages
  Phys    \* frames; 0 stands for none

VARIABLES
  map,    \* the frame behind every page, or 0
  seen,   \* what the processor may still believe of a page, or 0
  call    \* the page of the call under way and its new frame, or <<>>

vars == <<map, seen, call>>

Init ==
  /\ map \in [Virt -> Phys \cup {0}]
  /\ seen = [v \in Virt |-> 0]
  /\ call = <<>>

Call == call = <<>> /\ call' \in Virt \X (Phys \cup {0}) /\ UNCHANGED <<map, seen>>

(* The page gets its new frame. *)
Change ==
  /\ call # <<>>
  /\ map' = [map EXCEPT ![call[1]] = call[2]]
  /\ UNCHANGED <<seen, call>>

(* The call returns, its change made or not, and no old belief outlives it.*)
Return ==
  /\ call # <<>> /\ call' = <<>>
  /\ seen' \in [Virt -> Phys \cup {0}]
  /\ \A v \in Virt : seen'[v] \in {0, seen[v]}
  /\ seen'[call[1]] \in {0, map[call[1]]}
  /\ UNCHANGED map

Believe == \E v \in Virt : seen' = [seen EXCEPT ![v] = map[v]] /\ UNCHANGED <<map, call>>
Forget  == \E v \in Virt : seen' = [seen EXCEPT ![v] = 0] /\ UNCHANGED <<map, call>>

Next == Call \/ Change \/ Return \/ Believe \/ Forget

Spec == Init /\ [][Next]_vars

=============================================================================

--------------------------- MODULE FrameAllocator ---------------------------
(***************************************************************************)
(* What the physical memory manager promises its callers: a pool of        *)
(* distinct page frames.  A frame is either in the pool or with one        *)
(* owner; an allocation fails only when the pool is empty.                 *)
(***************************************************************************)
EXTENDS Integers

CONSTANT Frame   \* the addresses a frame can have; 0 is not one of them

VARIABLES
  avail,  \* frames in the pool
  owned,  \* frames handed out and not given back
  ret     \* what the last allocation returned

vars == <<avail, owned, ret>>

Init == avail = {} /\ owned = {} /\ ret = 0

(* The pool grows by a frame nobody has seen before. *)
Discover(f) ==
  /\ f \notin avail \cup owned
  /\ avail' = avail \cup {f}
  /\ UNCHANGED <<owned, ret>>

Alloc(f) ==
  /\ f \in avail
  /\ avail' = avail \ {f}
  /\ owned' = owned \cup {f}
  /\ ret' = f

AllocFails ==
  /\ avail = {}
  /\ ret' = 0
  /\ UNCHANGED <<avail, owned>>

Free(f) ==
  /\ f \in owned
  /\ owned' = owned \ {f}
  /\ avail' = avail \cup {f}
  /\ UNCHANGED ret

Next == (\E f \in Frame : Discover(f) \/ Alloc(f) \/ Free(f)) \/ AllocFails

Spec == Init /\ [][Next]_vars

=============================================================================

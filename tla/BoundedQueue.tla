---------------------------- MODULE BoundedQueue ----------------------------
(***************************************************************************)
(* What keyboard.c promises its reader: characters come in the order they  *)
(* were typed, each once; one is dropped only if Capacity of them wait.    *)
(***************************************************************************)
EXTENDS Integers, Sequences

CONSTANTS Char, Capacity

VARIABLES
  queue,    \* characters waiting, oldest first
  out,      \* the character read last
  dropped   \* changes when a character is dropped

vars == <<queue, out, dropped>>

Init == queue = <<>> /\ out \in Char \cup {0} /\ dropped = FALSE

Put == /\ Len(queue) < Capacity
       /\ \E c \in Char : queue' = Append(queue, c)
       /\ UNCHANGED <<out, dropped>>

Drop == /\ Len(queue) = Capacity
        /\ dropped' = ~dropped
        /\ UNCHANGED <<queue, out>>

Take == /\ queue # <<>>
        /\ queue' = Tail(queue) /\ out' = Head(queue)
        /\ UNCHANGED dropped

Next == Put \/ Drop \/ Take

Spec == Init /\ [][Next]_vars

=============================================================================

----------------------------- MODULE MCMemInit -----------------------------
(***************************************************************************)
(* Model-checking instance of MemInit: the kernel, its heap and the        *)
(* framebuffer below one PD, the framebuffer across two PTs, the APIC page *)
(* below a free, a 2 MB or a 1 GB entry; free lists from empty to ample.   *)
(* After boot a page of the kernel and the neighbour of the APIC page,     *)
(* absent, split or part of a 1 GB page, are mapped and unmapped.          *)
(***************************************************************************)
EXTENDS MemInit, TLC

Kernel(apic) ==
  (1 :> [EmptyTable EXCEPT ![1] = Entry(3)]) @@
  (3 :> [EmptyTable EXCEPT ![0] = Entry(4), ![1] = apic]) @@
  (4 :> [EmptyTable EXCEPT ![0] = Entry(5)]) @@
  (5 :> [EmptyTable EXCEPT ![0] = Entry(50)])

Boot == {
  Kernel(NotThere), Kernel(Huge(100)),
  (6 :> [EmptyTable EXCEPT ![1] = Huge(120)]) @@ Kernel(Entry(6)) }

Frames == <<11, 12, 13, 14, 15, 16>>
FreeLists == {SubSeq(Frames, 1, n) : n \in {0, 1, 2, 3, 4, 6}}
StaticTables == <<7, 8, 9>>

Apic == <<1, 1, 1, 1>>
Fb   == << <<1, 0, 2, 3>>, <<1, 0, 3, 0>> >>
Heap == << <<1, 0, 1, 0>>, <<1, 0, 1, 1>> >>
Others == {<<1, 0, 0, 0>>, <<1, 1, 1, 0>>}
Pages == {Apic} \cup Others \cup Members(Fb) \cup Members(Heap)

=============================================================================

------------------------------- MODULE MCPmm -------------------------------
(***************************************************************************)
(* Model-checking instance of Pmm.  Pages are two words long, so that a    *)
(* range can begin or end in the middle of one; the maps cover no range,   *)
(* ranges aligned and not, too short to hold a page, adjacent, out of      *)
(* order, split in the middle of a page, and lying among or under ranges   *)
(* that are not usable.                                                    *)
(***************************************************************************)
EXTENDS Pmm

U(from, to) == [type |-> "usable", base |-> from, length |-> to - from]
O(from, to) == [type |-> "other", base |-> from, length |-> to - from]

SampleMaps == {
  <<>>,
  <<O(0, 9)>>,
  <<U(2, 10)>>,
  <<U(3, 9)>>,
  <<U(3, 4)>>,
  <<U(3, 5)>>,
  <<U(4, 5), U(7, 9)>>,
  <<U(2, 4), U(4, 8)>>,
  <<U(6, 9), U(2, 5)>>,
  <<U(2, 5), U(5, 9)>>,
  <<O(0, 4), U(4, 7), O(7, 9)>>,
  <<U(3, 6), O(1, 9), U(6, 8)>> }

=============================================================================

----------------------------- MODULE MCDevices -----------------------------
(***************************************************************************)
(* Model-checking instance of Devices: keys with a letter, a digit and no  *)
(* character; glyphs of 2 by 3 pixels on screens that hold none, a part of *)
(* one, one, or several with and without a rest; three tasks; two messages *)
(* and two exceptions, with and without a name, one inside the other.      *)
(***************************************************************************)
EXTENDS Devices, TLC

TheKeys == {"a", "2", "ctrl"}
Plain   == ("a" :> 97) @@ ("2" :> 50) @@ ("ctrl" :> 0)
Shifted == ("a" :> 65) @@ ("2" :> 64) @@ ("ctrl" :> 0)

AllScreens == [width : {0, 1, 2, 7, 10, 19}, height : {0, 1, 3, 7, 10}, pitch : {19, 20}]

MCMessages == {<<101, LF>>, <<LF, 102, LF, LF>>}

=============================================================================

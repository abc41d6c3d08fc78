----------------------------- MODULE MCBalanceCtrl -----------------------------
(* Two feet, one ahead of the centre of mass and one below it, at a height of 2;   *)
(* the moment weighs twice as much as the forces, so that constraints are dropped  *)
(* again, from any place of the working set.                                       *)
EXTENDS BalanceCtrl, TLC

Whole(M) == [i \in DOMAIN M |-> [j \in DOMAIN M[i] |-> <<M[i][j], 1>>]]

MCFeet == Whole(<< <<1, 0, 1, 0>>, <<0, 1, 0, 1>>, <<-2, 1, -2, 0>> >>)
MCS    == << One, One, <<2, 1>> >>

MCG == Whole(<< <<10, -4, 9, 0>>, <<-4, 4, -4, 1>>, <<9, -4, 10, 0>>, <<0, 1, 0, 2>> >>)

MCfricRatio == <<1, 2>>

MCWanted == {<<<<a, 1>>, <<b, 1>>, <<c, 1>>>> : a \in {-2, 2}, b \in {-2, 1}, c \in {-3, 0, 3}}
===============================================================================

------------------------------ MODULE MCLegTasks ------------------------------
(* Two legs with links of 1, 5 and 5; angles with cosines and sines in fifths, some *)
(* goals in reach, one beyond it and one inside the hip's joint.                    *)
EXTENDS LegTasks, TLC

Whole3(v) == [i \in 1..3 |-> <<v[i], 1>>]
Pythagoras(c, s) == Angle(Frac(c, 5), Frac(s, 5))
Straight == Angle(One, Zero)

MCabad == One
MChip  == <<5, 1>>
MCknee == <<5, 1>>
MCpHip2B == (0 :> Whole3(<<2, -1, 0>>)) @@ (1 :> Whole3(<<2, 1, 0>>))

Stand  == <<Straight, Pythagoras(4, 3), Pythagoras(0, -5)>>
Splay  == <<Pythagoras(4, 3), Pythagoras(3, 4), Pythagoras(3, -4)>>
Crouch == <<Pythagoras(4, -3), Straight, Pythagoras(0, -5)>>
MCPostures == {Stand, Splay, Crouch}

Beyond(leg) == VPlus(MCpHip2B[leg], <<<<9, 1>>, l1(leg), <<-12, 1>>>>)
MCGoals == {[leg \in Legs |-> calcPEe2B(leg, Crouch)],
            (0 :> calcPEe2B(0, Splay)) @@ (1 :> calcPEe2B(1, Stand)),
            (0 :> Beyond(0)) @@ (1 :> calcPEe2B(1, Crouch)),
            (0 :> calcPEe2B(0, Stand)) @@ (1 :> MCpHip2B[1])}

Moving(v, w) == [v |-> Whole3(v), w |-> Whole3(w)]
MCMotions == {Moving(<<0, 0, 0>>, <<0, 0, 0>>), Moving(<<1, -1, 0>>, <<0, 0, 0>>),
              Moving(<<0, 1, 1>>, <<1, 0, -1>>), Moving(<<0, 0, 0>>, <<0, 2, 1>>)}

MCAttitudes == {<<One, Zero, Zero, Zero>>, <<Frac(4, 5), Frac(2, 5), Frac(2, 5), Frac(1, 5)>>}
MCPlaces    == {Whole3(<<3, 1, 8>>)}
MCForces    == {(0 :> Whole3(<<1, 0, 4>>)) @@ (1 :> Whole3(<<0, -1, 2>>))}
MCKp == Two
MCKd == One

MCSticks == [lx : {-1, 0, 1}, ly : {0, 1}, rx : {0, 1}, ry : {-1, 0, 1}]
MCMax    == Pythagoras(4, 3)
MCHeight == One
===============================================================================

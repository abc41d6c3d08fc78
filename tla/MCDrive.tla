------------------------------- MODULE MCDrive -------------------------------
(* A tick of a tenth of a second, a stance of two and a swing of four: the body gets *)
(* beyond every slack within the ticks of a behaviour.                               *)
EXTENDS Drive

Tenths(k) == Frac(k, 10)

MCdt      == Tenths(1)
MCKeep    == Tenths(5)
MCvxLim   == Tenths(4)
MCwyawLim == Tenths(5)
MCvSlack  == Tenths(2)
MCpSlack  == Frac(1, 20)
MCk       == Tenths(1)
MCMotions    == {[v |-> Zero, w |-> Zero], [v |-> Tenths(2), w |-> Tenths(3)],
                 [v |-> Tenths(-3), w |-> Zero]}
MCFacings    == {Tenths(-5)}
MCSticks     == {[ly |-> Zero, rx |-> Zero], [ly |-> One, rx |-> Tenths(5)]}
MCTwists     == {[vx |-> Tenths(3), wz |-> Tenths(-2)]}
MCLeftovers  == {[past |-> p, vx |-> <<7, 1>>, wz |-> <<7, 1>>] : p \in {Zero, <<7, 1>>}}
MCNoLeftover == {[past |-> Zero, vx |-> Zero, wz |-> Zero]}
===============================================================================

------------------------------ MODULE BalanceCtrl ------------------------------
(***************************************************************************)
(* The balance controller: in every tick of a walking or balancing state   *)
(* calF sets up the quadratic program for the foot forces from the wanted  *)
(* force and moment on the body, the forces of the last tick and the       *)
(* contacts, and hands it to solve_quadprog.  The robot is cut down to one *)
(* horizontal direction, the vertical one and the moment across: leg l has *)
(* the components 2l-1 (along) and 2l (up) of the force.  Of the weights,  *)
(* _beta * _U is 1 and the small _alpha * _W is 0.                         *)
(***************************************************************************)
EXTENDS QuadProg

CONSTANTS
  Legs,       \* 1..the number of legs
  Feet,       \* _A: what the feet's forces add up to on the body
  S,          \* the weights of these sums
  fricRatio,
  Wanted,     \* _bd: what may be wanted of the sums
  Digits      \* bound: forces of larger numerator or denominator are not gone on with

VARIABLES contact, Fprev

vars == <<problem, work, pc, contact, Fprev>>

Dims == 2 * Cardinality(Legs)

Along(l) == Unit(2 * l - 1)
Up(l)    == Unit(2 * l)

Standing(c) == SelectSeq([l \in Legs |-> l], LAMBDA l : c[l] = 1)
Swinging(c) == SelectSeq([l \in Legs |-> l], LAMBDA l : c[l] = 0)

\* The rows of _fricMat for leg l.
fricMat(l) ==
  << VPlus(Along(l), Scaled(fricRatio, Up(l))),
     VMinus(Scaled(fricRatio, Up(l)), Along(l)),
     Up(l) >>

\* Mistake: the last tick's forces of the swinging legs are not held to zero.
calCE_NoSwing(c) == <<>>

\* calConstraints: legs that swing carry nothing, those that stand stay in the cone.
calCE(c) == FlattenSeq([k \in DOMAIN Swinging(c) |->
                          <<Along(Swinging(c)[k]), Up(Swinging(c)[k])>>])
calCI(c) == FlattenSeq([k \in DOMAIN Standing(c) |-> fricMat(Standing(c)[k])])

Column(i) == [k \in DOMAIN Feet |-> Times(S[k], Feet[k][i])]

ASSUME CostAssumption ==
  \A i, j \in 1..Dims :
    G[i][j] = Plus(Dot(Column(i), [k \in DOMAIN Feet |-> Feet[k][j]]),
                   IF i = j THEN One ELSE Zero)

\* The linear term: the pull to the wanted sums and to the forces of the last tick.
g0T(bd) == [i \in 1..Dims |-> Minus(Zero, Plus(Dot(Column(i), bd), Fprev[i]))]

\* BalanceCtrl(): a controller that has not been called.
Fresh == [i \in 1..Dims |-> Zero]

Standstill == [l \in Legs |-> 1]

Init ==
  /\ CE = <<>> /\ CI = <<>> /\ g0 = NullVector
  /\ x = NullVector /\ A = <<>> /\ u = <<>> /\ factors = <<>>
  /\ iai = <<>> /\ s = <<>> /\ ip = 1
  /\ contact = Standstill
  /\ pc = "idle"
  /\ Fprev = Fresh

calF(bd, c) ==
  /\ pc = "idle"
  /\ \A i \in 1..Dims : Magnitude(Fprev[i][1]) <= Digits /\ Fprev[i][2] <= Digits
  /\ Call(g0T(bd), calCE(c), calCI(c))
  /\ contact' = c
  /\ UNCHANGED Fprev

\* solve_quadprog's value is not looked at: x is taken over whatever it says.  The
\* parameters and locals of the call are gone.
TakeForces ==
  /\ pc \in {"return", "infeasible"}
  /\ Fprev' = x
  /\ CE' = <<>> /\ CI' = <<>> /\ g0' = NullVector
  /\ x' = NullVector /\ A' = <<>> /\ u' = <<>> /\ factors' = <<>>
  /\ iai' = <<>> /\ s' = <<>> /\ ip' = 1
  /\ contact' = Standstill
  /\ pc' = "idle"

\* The program is started again.
Restart ==
  /\ pc = "idle"
  /\ Fprev' = Fresh
  /\ UNCHANGED <<problem, work, pc, contact>>

Solve == Iterate /\ UNCHANGED <<contact, Fprev>>

Next == \/ \E bd \in Wanted, c \in [Legs -> {0, 1}] : calF(bd, c)
        \/ Solve
        \/ TakeForces
        \/ Restart

Spec == Init /\ [][Next]_vars

-----------------------------------------------------------------------------

\* Forces the ground can give: none on a leg that swings, and on one that stands a
\* push within the friction cone.
Givable(f) ==
  \A l \in Legs : IF contact[l] = 0 THEN f[2*l - 1] = Zero /\ f[2*l] = Zero
                  ELSE \A k \in 1..3 : ~Negative(Dot(fricMat(l)[k], f))

\* The edges of the cones: every force the ground can give is a sum of these.
Edges ==
  UNION {{VPlus(Scaled(fricRatio, Along(l)), Up(l)), VMinus(Up(l), Scaled(fricRatio, Along(l)))} :
         l \in {l \in Legs : contact[l] = 1}}

\* The forces handed to the legs are the best of those the ground can give: no edge of
\* a cone leads downhill from them, and neither do they themselves.  The solver never
\* gives up with the verdict, which nobody looks at, that no forces will do.
BestForces ==
  /\ pc # "infeasible"
  /\ pc = "return" =>
       /\ Givable(x)
       /\ LET gradient == VPlus(Apply(G, x), g0) IN
          /\ \A e \in Edges : ~Negative(Dot(gradient, e))
          /\ Dot(gradient, x) = Zero

\* The pair of the paper: through full, partial and dropped steps x stays the minimum
\* under the constraints of the working set alone, and the multipliers of inequalities
\* stay positive or zero.
MinimumOfWorkingSet ==
  pc \in {"l1", "l2", "l2a"} =>
    /\ VPlus(Apply(G, x), g0) =
         Combination(u, IF pc = "l2a" THEN Append(Normals, np) ELSE Normals, NullVector)
    /\ \A k \in 1..iq : Dot(Normal(A[k]), x) = Zero
    /\ \A k \in (p + 1)..Len(u) : ~Negative(u[k])

\* After any sequence of additions and drops J and R still factor the working set that A
\* names: R is a triangle, J turns the normals of A into its columns, and the columns of J
\* stay conjugate, so that those beyond iq are blind to every constraint in A.
FactorsFit ==
  pc \in {"l1", "l2", "l2a"} =>
    /\ \A i \in 1..Dims : \A k \in 1..iq :
         /\ factors[i].R[k] = Dot(factors[i].J, Normals[k])
         /\ i > k => factors[i].R[k] = Zero
    /\ \A i, j \in 1..Dims :
         Dot(factors[i].J, Apply(G, factors[j].J)) = IF i = j THEN factors[i].w ELSE Zero

\* A constraint is out of the choice exactly while it is in the working set: one that
\* was dropped and stays out would be violated for good.
ChoiceIsComplete ==
  pc \in {"l2", "l2a", "return"} =>
    \A i \in Inequalities : iai[i] = -1 <=> \E k \in 1..iq : A[k] = i
===============================================================================

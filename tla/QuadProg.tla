------------------------------- MODULE QuadProg -------------------------------
(***************************************************************************)
(* solve_quadprog, the dual method of Goldfarb and Idnani by which the     *)
(* balance controller finds the foot forces in every tick:                 *)
(*                                                                         *)
(*    minimise  x G x / 2 + g0 x   with  CE x = 0  and  CI x >= 0,         *)
(*                                                                         *)
(* one action for each pass through a label of the code.  The constraints  *)
(* are homogeneous (ce0 = ci0 = 0), as they are in BalanceCtrl.  Numbers   *)
(* are exact: the roots in the columns of J and the rows of R are kept     *)
(* apart, column i of the code's J and row i of its R being those here     *)
(* divided by the root of w[i].  In exact arithmetic a constraint that can *)
(* be stepped to is never degenerate, and add_constraint succeeds.         *)
(* A member k > 0 of A is the inequality k, a member -k the equality k.    *)
(***************************************************************************)
EXTENDS Rational, FiniteSets

CONSTANT G      \* the matrix of the cost, of fractions

n == Len(G)
Index == [i \in 1..n |-> i]
Unit(i) == [j \in 1..n |-> IF j = i THEN One ELSE Zero]
NullVector == [i \in 1..n |-> Zero]

\* cholesky_decomposition.  Column i of the triangle is kept divided by its diagonal
\* element, whose square is the pivot: every use of the triangle squares the roots again.
cholesky_decomposition ==
  FoldLeft(LAMBDA L, i :
    LET sum(j) == Minus(G[i][j], Total(
          [k \in DOMAIN L |-> Times(L[k].pivot, Times(L[k].of[i], L[k].of[j]))]))
        pivot == sum(i)
    IN Append(L, [pivot |-> pivot, of |-> Vector([j \in 1..n |-> Over(sum(j), pivot)])]),
    <<>>, Index)

\* A pivot that is not positive would end the program.
ASSUME PositiveDefinite ==
  \A i \in 1..n : Positive(cholesky_decomposition[i].pivot)

\* L y = b, with y[i] multiplied by the diagonal element i.
forward_elimination(L, b) ==
  FoldLeft(LAMBDA y, i :
    Append(y, Minus(b[i], Total([j \in DOMAIN y |-> Times(L[j].of[i], y[j])]))), <<>>, Index)

\* L^T x = y, from the last element to the first.
backward_elimination(L, y) ==
  FoldLeft(LAMBDA x, k :
    LET i == n - k + 1 IN
    <<Minus(Over(y[i], L[i].pivot),
            Total([j \in DOMAIN x |-> Times(L[i].of[i + j], x[j])]))>> \o x, <<>>, Index)

cholesky_solve(L, b) == backward_elimination(L, forward_elimination(L, b))

\* The first J, the inverse of the triangle, transposed: its columns one by one.
FirstJ(L) ==
  LET eliminated == Vector([i \in 1..n |-> forward_elimination(L, Unit(i))]) IN
  Vector([k \in 1..n |-> Vector([i \in 1..n |-> eliminated[i][k]])])

VARIABLES
  CE, CI,   \* normals of the constraints
  g0,
  x,
  A, u,     \* the working set and its multipliers; u is one longer while a
            \* constraint is being added
  factors,  \* column i of J, row i of R as far as there are constraints, w[i]
  iai,      \* -1 for the inequalities the code holds to be active
  s,        \* slacks of the inequalities
  ip,       \* the constraint being added
  pc        \* where solve_quadprog is

problem == <<CE, CI, g0>>
work    == <<x, A, u, factors, iai, s, ip>>

iq == Len(A)
p  == Len(CE)
Inequalities == DOMAIN CI

Normal(k) == IF k < 0 THEN CE[-k] ELSE CI[k]
Normals   == [k \in 1..iq |-> Normal(A[k])]
np        == CI[ip]

compute_d(normal) == Vector([i \in 1..n |-> Dot(factors[i].J, normal)])

\* Only the columns that A leaves free count.
update_z(d) ==
  FoldLeft(VPlus, NullVector, [k \in 1..(n - iq) |->
    Scaled(Over(d[iq + k], factors[iq + k].w), factors[iq + k].J)])

\* R r = d, from the last element to the first; the roots of w cancel out.
update_r(d) ==
  FoldLeft(LAMBDA r, k :
    LET i == iq - k + 1 IN
    <<Over(Minus(d[i], Total([j \in DOMAIN r |-> Times(factors[i].R[i + j], r[j])])),
           factors[i].R[i])>> \o r, <<>>, [k \in 1..iq |-> k])

\* a and b times columns i and i+1 of J, with these rows of R; the length is free, since w
\* goes with it, and chosen to keep the numbers small.
Mixed(f, i, a, b) ==
  LET mix(c, v, w) == VPlus(Scaled(Times(c, a), v), Scaled(Times(c, b), w))
      lead == SelectSeq(mix(One, f[i].J, f[i + 1].J), LAMBDA e : e # Zero)[1]
      c    == Over(One, IF Negative(lead) THEN Opposite(lead) ELSE lead) IN
  [J |-> mix(c, f[i].J, f[i + 1].J),
   R |-> mix(c, f[i].R, f[i + 1].R),
   w |-> Plus(Times(Square(Times(c, a)), f[i].w), Times(Square(Times(c, b)), f[i + 1].w))]

\* The Givens rotation of columns i and i+1 of J, and of these rows of R, that makes
\* element k of row i+1 zero; the code lets its cosine never be negative.
Turned(f, i, k) ==
  LET sign == IF Negative(f[i].R[k]) THEN Opposite(One) ELSE One
      c    == Times(sign, f[i].R[k])
      d    == Times(sign, f[i + 1].R[k]) IN
  IF c = Zero /\ d = Zero THEN f
  ELSE [f EXCEPT ![i]     = Mixed(f, i, Over(c, f[i].w), Over(d, f[i + 1].w)),
                 ![i + 1] = Mixed(f, i, d, Opposite(c))]

\* d becomes a column of R; what it has below the diagonal is turned away from below.
add_constraint(d) ==
  factors' = FoldLeft(LAMBDA f, m : Turned(f, n - m, iq + 1),
                      [i \in 1..n |-> [factors[i] EXCEPT !.R = Append(@, d[i])]],
                      [m \in 1..(n - iq - 1) |-> m])

WithoutColumn(l) == [i \in 1..n |-> [factors[i] EXCEPT !.R = RemoveAt(@, l)]]

\* Mistake: the last of the columns that moved up is left out of the rotations.
delete_constraint_OneLeftOut(l) ==
  factors' = FoldLeft(LAMBDA f, j : Turned(f, j, j), WithoutColumn(l),
                      [m \in 1..(iq - l - 1) |-> l + m - 1])

\* The columns after the one at place l move up, and what that brings below the diagonal
\* is turned away from column to column.
delete_constraint(l) ==
  factors' = FoldLeft(LAMBDA f, j : Turned(f, j, j), WithoutColumn(l),
                      [m \in 1..(iq - l) |-> l + m - 1])

\* The arguments, and the unconstrained minimum to begin with.
Call(g, ce, ci) ==
  /\ CE' = ce /\ CI' = ci /\ g0' = g
  /\ LET L == cholesky_decomposition IN
       /\ x' = VMinus(NullVector, cholesky_solve(L, g))
       /\ factors' = [i \in 1..n |-> [J |-> FirstJ(L)[i], R |-> <<>>, w |-> L[i].pivot]]
  /\ A' = <<>> /\ u' = <<>>
  /\ iai' = [i \in DOMAIN ci |-> i]
  /\ s' = [i \in DOMAIN ci |-> Zero]
  /\ ip' = 1
  /\ pc' = IF ce = <<>> THEN "l1" ELSE "equalities"

\* The next equality joins the working set by a full step.
AddEquality ==
  /\ pc = "equalities"
  /\ LET normal == CE[iq + 1]
         d == compute_d(normal)
         z == update_z(d)
         r == update_r(d)
         t2 == IF Null(z) THEN Zero
               ELSE Over(Minus(Zero, Dot(normal, x)), Dot(z, normal)) IN
     /\ x' = VPlus(x, Scaled(t2, z))
     /\ u' = Append([k \in DOMAIN u |-> Minus(u[k], Times(t2, r[k]))], t2)
     /\ A' = Append(A, -(iq + 1))
     /\ add_constraint(d)
  /\ pc' = IF iq + 1 = p THEN "l1" ELSE "equalities"
  /\ UNCHANGED <<problem, iai, s, ip>>

\* l1: the slacks at x; without a violated one x is the answer.
StepOne ==
  /\ pc = "l1"
  /\ iai' = [i \in Inequalities |-> IF \E k \in 1..iq : A[k] = i THEN -1 ELSE iai[i]]
  /\ s' = [i \in Inequalities |-> Dot(CI[i], x)]
  /\ pc' = IF \E i \in Inequalities : Negative(s'[i]) THEN "l2" ELSE "return"
  /\ UNCHANGED <<problem, x, A, u, factors, ip>>

\* l2: the most violated constraint outside the working set, the first of equals.
StepTwo ==
  /\ pc = "l2"
  /\ LET violated == {i \in Inequalities : Negative(s[i]) /\ iai[i] # -1} IN
     IF violated = {}
     THEN pc' = "return" /\ UNCHANGED <<ip, u>>
     ELSE /\ ip' = CHOOSE i \in violated :
               \A j \in violated : Less(s[i], s[j]) \/ (s[i] = s[j] /\ i <= j)
          /\ u' = Append(u, Zero)
          /\ pc' = "l2a"
  /\ UNCHANGED <<problem, x, A, factors, iai, s>>

\* t1: how far the multipliers allow a step in the direction r, and the place in A of
\* the first to become zero; nothing blocks if none does.
Blocking(r) == {k \in (p + 1)..iq : Positive(r[k])}
FirstBlocking(r) ==
  LET t(k) == Over(u[k], r[k]) IN
  CHOOSE k \in Blocking(r) :
    \A j \in Blocking(r) : Less(t(k), t(j)) \/ (t(k) = t(j) /\ k <= j)

\* t2: the step that makes constraint ip hold.
FullLength(z) == Over(Minus(Zero, s[ip]), Dot(z, np))

\* Mistake: the step is always taken in full.
CutShort_Never(z, r) == Null(z) /\ Blocking(r) # {}

\* Whether the step is cut short by a multiplier.
CutShort(z, r) ==
  /\ Blocking(r) # {}
  /\ Null(z) \/ Less(Over(u[FirstBlocking(r)], r[FirstBlocking(r)]), FullLength(z))

Stepped(t, r) ==
  [k \in 1..(iq + 1) |-> IF k = iq + 1 THEN Plus(u[k], t) ELSE Minus(u[k], Times(t, r[k]))]

\* l2a, a full step: ip joins the working set.
FullStep ==
  /\ pc = "l2a"
  /\ LET d == compute_d(np)
         z == update_z(d)
         r == update_r(d) IN
     /\ ~CutShort(z, r)
     /\ IF Null(z) THEN pc' = "infeasible" /\ UNCHANGED work
        ELSE /\ x' = VPlus(x, Scaled(FullLength(z), z))
             /\ u' = Stepped(FullLength(z), r)
             /\ A' = Append(A, ip)
             /\ add_constraint(d)
             /\ iai' = [iai EXCEPT ![ip] = -1]
             /\ pc' = "l1"
             /\ UNCHANGED <<s, ip>>
  /\ UNCHANGED problem

\* Mistake: the dropped constraint stays out of the choice.
Released_StaysOut(i) == iai

Released(i) == [iai EXCEPT ![i] = i]

\* l2a, a step in dual space only or a partial one: the blocking constraint is dropped
\* and the direction is determined anew.
DropStep ==
  /\ pc = "l2a"
  /\ LET d == compute_d(np)
         z == update_z(d)
         r == update_r(d)
         l == FirstBlocking(r)
         t == Over(u[l], r[l]) IN
     /\ CutShort(z, r)
     /\ x' = VPlus(x, Scaled(t, z))
     /\ u' = RemoveAt(Stepped(t, r), l)
     /\ A' = RemoveAt(A, l)
     /\ delete_constraint(l)
     /\ iai' = Released(A[l])
     /\ s' = [s EXCEPT ![ip] = Dot(np, x')]
  /\ UNCHANGED <<problem, ip, pc>>

Iterate == AddEquality \/ StepOne \/ StepTwo \/ FullStep \/ DropStep
===============================================================================

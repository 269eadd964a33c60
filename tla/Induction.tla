------------------------------ MODULE Induction ------------------------------
(***************************************************************************)
(* Induction over the natural numbers and definition by recursion, stated  *)
(* with sets and functions instead of the operators that                   *)
(* NaturalsInduction takes as parameters: a property is the set of numbers *)
(* that have it, a recursion has a function from value to value for every  *)
(* number.                                                                 *)
(***************************************************************************)
EXTENDS Integers, WellFoundedInduction, TLAPS

\* Every set of natural numbers that is not empty has a least element.
LEMMA Least ==
  ASSUME NEW T, T \subseteq Nat, T # {}
  PROVE  \E x \in T : \A y \in T : x <= y
<1> DEFINE R == OpToRel(<, Nat)
<1>1. IsWellFoundedOn(R, Nat)
  BY NatLessThanWellFounded
<1>2. \A x, y \in Nat : x < y => <<x, y>> \in R
  BY DEF OpToRel
<1> HIDE DEF R
<1>3. \E x \in T : \A y \in T : ~ (<<y, x>> \in R)
  BY <1>1, WFMin
<1>4. PICK x \in T : \A y \in T : ~ (<<y, x>> \in R)
  BY <1>3
<1>5. ASSUME NEW y \in T
      PROVE  x <= y
  <2>1. x \in Nat /\ y \in Nat
    OBVIOUS
  <2>2. ~ (y < x)
    BY <1>2, <1>4, <2>1
  <2>. QED  BY <2>1, <2>2
<1>. QED
  BY <1>5

\* Induction: a set that holds 0 and with every number the next one.
LEMMA SetInduction ==
  ASSUME NEW P, 0 \in P, \A n \in Nat : n \in P => n + 1 \in P
  PROVE  Nat \subseteq P
<1>1. SUFFICES ASSUME Nat \ P # {}
               PROVE  FALSE
  OBVIOUS
<1>2. PICK x \in Nat \ P : \A y \in Nat \ P : x <= y
  BY <1>1, Least
<1>3. x # 0 /\ x - 1 \in Nat
  BY <1>2
<1>4. x - 1 \in P
  BY <1>2, <1>3
<1>. QED
  BY <1>2, <1>3, <1>4

\* The same up to a bound.
LEMMA BoundedInduction ==
  ASSUME NEW n \in Nat, NEW P, 0 \in P,
         \A k \in Nat : k < n /\ k \in P => k + 1 \in P
  PROVE  \A k \in 0 .. n : k \in P
<1> DEFINE Q == {k \in Nat : k <= n => k \in P}
<1>1. 0 \in Q
  OBVIOUS
<1>2. \A k \in Nat : k \in Q => k + 1 \in Q
  OBVIOUS
<1>3. Nat \subseteq Q
  <2> HIDE DEF Q
  <2>. QED  BY <1>1, <1>2, SetInduction
<1>. QED
  BY <1>3

\* A recursion that stays in a set: its first value, and for each of the numbers
\* up to n a function from the value so far to the next one.
IsRecursion(n, S, base, step) ==
  n \in Nat /\ base \in S /\ step \in [1 .. n -> [S -> S]]

Solves(g, n, S, base, step) ==
  /\ g \in [0 .. n -> S]
  /\ g[0] = base
  /\ \A k \in 1 .. n : g[k] = step[k][g[k - 1]]

\* It defines a function into that set.
LEMMA RecursionExists ==
  ASSUME NEW n, NEW S, NEW base, NEW step, IsRecursion(n, S, base, step)
  PROVE  \E g : Solves(g, n, S, base, step)
<1> USE DEF IsRecursion
<1> DEFINE Upto(g, m) == /\ g \in [0 .. m -> S]
                         /\ g[0] = base
                         /\ \A k \in 1 .. m : g[k] = step[k][g[k - 1]]
           P == {m \in Nat : \E g : Upto(g, m)}
<1>1. 0 \in P
  <2> DEFINE f == [k \in 0 .. 0 |-> base]
  <2>1. f \in [0 .. 0 -> S] /\ f[0] = base
    OBVIOUS
  <2>2. Upto(f, 0)
    BY <2>1
  <2> HIDE DEF f, Upto
  <2>. QED  BY <2>2
<1>2. ASSUME NEW m \in Nat, m < n, m \in P
      PROVE  m + 1 \in P
  <2>1. PICK g : Upto(g, m)
    BY <1>2
  <2> DEFINE next == step[m + 1][g[m]]
             f    == [k \in 0 .. m + 1 |-> IF k = m + 1 THEN next ELSE g[k]]
  <2>2. next \in S
    BY <1>2, <2>1
  <2>3. f \in [0 .. m + 1 -> S]
    <3> HIDE DEF next
    <3>. QED  BY <2>1, <2>2
  <2>4. f[0] = base
    BY <2>1
  <2>5. ASSUME NEW k \in 1 .. m + 1
        PROVE  f[k] = step[k][f[k - 1]]
    <3>1. CASE k = m + 1
      <4>1. f[k] = next /\ f[k - 1] = g[m]
        BY <3>1
      <4>. QED  BY <4>1, <3>1
    <3>2. CASE k # m + 1
      <4>1. k \in 1 .. m /\ k - 1 \in 0 .. m
        BY <3>2
      <4>2. f[k] = g[k] /\ f[k - 1] = g[k - 1]
        BY <4>1
      <4>. QED  BY <4>1, <4>2, <2>1
    <3>. QED  BY <3>1, <3>2
  <2>6. Upto(f, m + 1)
    <3> HIDE DEF f
    <3>. QED  BY <2>3, <2>4, <2>5
  <2> HIDE DEF f, Upto
  <2>. QED  BY <2>6
<1>3. \A k \in 0 .. n : k \in P
  <2> HIDE DEF P
  <2>. QED  BY <1>1, <1>2, BoundedInduction
<1>4. n \in P
  <2> HIDE DEF P
  <2>. QED  BY <1>3
<1>5. PICK g : Upto(g, n)
  <2> HIDE DEF Upto
  <2>. QED  BY <1>4
<1>. QED
  BY <1>5 DEF Solves

\* It has one solution, and its first values depend on nothing behind them.
LEMMA RecursionUnique ==
  ASSUME NEW n, NEW m, NEW S, NEW base, NEW step, NEW prefix,
         IsRecursion(n, S, base, step), IsRecursion(m, S, base, prefix), m <= n,
         \A k \in 1 .. m : prefix[k] = step[k],
         NEW g, Solves(g, n, S, base, step), NEW h, Solves(h, m, S, base, prefix)
  PROVE  \A k \in 0 .. m : h[k] = g[k]
<1> DEFINE P == {k \in Nat : k <= m => h[k] = g[k]}
<1>1. m \in Nat /\ n \in Nat
  BY DEF IsRecursion
<1>2. 0 \in P
  BY DEF Solves
<1>3. ASSUME NEW k \in Nat, k < m, k \in P
      PROVE  k + 1 \in P
  <2>1. k + 1 \in 1 .. m /\ k + 1 \in 1 .. n /\ (k + 1) - 1 = k
    BY <1>1, <1>3
  <2>2. h[k + 1] = prefix[k + 1][h[k]] /\ g[k + 1] = step[k + 1][g[k]]
    BY <2>1 DEF Solves
  <2>3. h[k] = g[k]
    BY <1>1, <1>3
  <2>4. prefix[k + 1] = step[k + 1]
    BY <2>1
  <2>5. h[k + 1] = g[k + 1]
    BY <2>2, <2>3, <2>4
  <2>. QED  BY <2>5
<1>4. \A k \in 0 .. m : k \in P
  <2> HIDE DEF P
  <2>. QED  BY <1>1, <1>2, <1>3, BoundedInduction
<1>. QED
  BY <1>4

\* What obeys the equations as long as it stays in the set never leaves it.
LEMMA RecursionSolved ==
  ASSUME NEW n, NEW S, NEW base, NEW step, IsRecursion(n, S, base, step),
         NEW u, u = [k \in 0 .. n |-> u[k]], u[0] = base,
         \A k \in 1 .. n : u[k - 1] \in S => u[k] = step[k][u[k - 1]]
  PROVE  Solves(u, n, S, base, step)
<1> USE DEF IsRecursion
<1> DEFINE P == {k \in Nat : k <= n => u[k] \in S}
<1>1. 0 \in P
  OBVIOUS
<1>2. ASSUME NEW k \in Nat, k < n, k \in P
      PROVE  k + 1 \in P
  <2>1. k + 1 \in 1 .. n /\ (k + 1) - 1 = k /\ u[k] \in S
    BY <1>2
  <2>2. u[k + 1] = step[k + 1][u[k]]
    BY <2>1
  <2>. QED  BY <2>1, <2>2
<1>3. \A k \in 0 .. n : k \in P
  <2> HIDE DEF P
  <2>. QED  BY <1>1, <1>2, BoundedInduction
<1>4. \A k \in 0 .. n : u[k] \in S
  BY <1>3
<1>5. u \in [0 .. n -> S]
  BY <1>4
<1>6. \A k \in 1 .. n : k - 1 \in 0 .. n
  OBVIOUS
<1>. QED
  BY <1>4, <1>5, <1>6 DEF Solves

\* The partial sums of a sequence of natural numbers.
LEMMA SumsExist ==
  ASSUME NEW n \in Nat, NEW size \in [1 .. n -> Nat]
  PROVE  \E g \in [0 .. n -> Nat] :
           /\ g[0] = 0
           /\ \A k \in 1 .. n : g[k] = g[k - 1] + size[k]
<1> DEFINE step == [k \in 1 .. n |-> [m \in Nat |-> m + size[k]]]
<1>1. step \in [1 .. n -> [Nat -> Nat]]
  OBVIOUS
<1>2. \A m \in Nat, k \in 1 .. n : step[k][m] = m + size[k]
  OBVIOUS
<1> HIDE DEF step
<1>3. IsRecursion(n, Nat, 0, step)
  BY <1>1 DEF IsRecursion
<1>4. PICK g : Solves(g, n, Nat, 0, step)
  BY <1>3, RecursionExists
<1>5. /\ g \in [0 .. n -> Nat]
      /\ g[0] = 0
      /\ \A k \in 1 .. n : g[k] = step[k][g[k - 1]]
  BY <1>4 DEF Solves
<1>6. \A k \in 1 .. n : g[k] = g[k - 1] + size[k]
  <2>1. \A k \in 1 .. n : g[k - 1] \in Nat
    BY <1>5
  <2>. QED  BY <1>2, <1>5, <2>1
<1>. QED
  BY <1>5, <1>6
=============================================================================

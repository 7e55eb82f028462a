---------------------------- MODULE NaturalsOrder ----------------------------
(***************************************************************************)
(* The order of the natural numbers as facts about sets of them.  The      *)
(* library's induction theorems speak of a predicate, which the provers    *)
(* cannot match; a set they can.                                           *)
(***************************************************************************)
EXTENDS Integers, WellFoundedInduction, TLAPS

LEMMA LeastElement ==
  ASSUME NEW T, T \subseteq Nat, T # {}
  PROVE  \E x \in T : \A y \in T : x <= y
<1> DEFINE R == OpToRel(<, Nat)
<1>1. IsWellFoundedOn(R, Nat)
  BY NatLessThanWellFounded DEF OpToRel
<1>2. R = {p \in Nat \X Nat : p[1] < p[2]}
  BY DEF OpToRel
<1> HIDE DEF R
<1>3. PICK x \in T : \A y \in T : <<y, x>> \notin R
  BY <1>1, WFMin
<1>4. ASSUME NEW y \in T PROVE x <= y
  <2>1. ~(y < x) BY <1>2, <1>3
  <2> QED BY <2>1
<1> QED BY <1>3, <1>4

LEMMA SetInduction ==
  ASSUME NEW S, 0 \in S, \A n \in Nat : n \in S => n + 1 \in S
  PROVE  \A n \in Nat : n \in S
<1> SUFFICES ASSUME NEW n \in Nat, n \notin S PROVE FALSE
  OBVIOUS
<1> DEFINE T == {k \in Nat : k \notin S}
<1>1. T \subseteq Nat /\ T # {} OBVIOUS
<1> HIDE DEF T
<1>2. PICK x \in T : \A y \in T : x <= y BY <1>1, LeastElement
<1>3. x \in Nat /\ x # 0 /\ x \notin S BY <1>2 DEF T
<1>4. x - 1 \in Nat /\ (x - 1) + 1 = x BY <1>3
<1>5. x - 1 \in S
  <2>1. x - 1 \notin T BY <1>2, <1>3
  <2> QED BY <1>4, <2>1 DEF T
<1> QED BY <1>3, <1>4, <1>5

\* A function on 0 .. k can be defined by recursion: CHOOSE finds one.
Recursions(X, base, k, step) ==
  {f \in [0 .. k -> X] : f[0] = base /\ \A i \in 1 .. k : f[i] = step[i][f[i - 1]]}

LEMMA RecursionExists ==
  ASSUME NEW X, NEW base \in X, NEW k \in Nat, NEW step \in [Nat -> [X -> X]]
  PROVE  Recursions(X, base, k, step) # {}
<1> DEFINE Good(f, n) == f[0] = base /\ \A i \in 1 .. n : f[i] = step[i][f[i - 1]]
           S == {n \in Nat : \E f \in [0 .. n -> X] : Good(f, n)}
<1>1. 0 \in S
  <2> DEFINE f == [i \in 0 .. 0 |-> base]
  <2>1. f \in [0 .. 0 -> X] /\ Good(f, 0) OBVIOUS
  <2> QED BY <2>1
<1>2. ASSUME NEW n \in Nat, n \in S PROVE n + 1 \in S
  <2>1. PICK f \in [0 .. n -> X] : Good(f, n) BY <1>2
  <2> DEFINE g == [i \in 0 .. n + 1 |-> IF i = n + 1 THEN step[n + 1][f[n]] ELSE f[i]]
  <2>2. step[n + 1][f[n]] \in X OBVIOUS
  <2>3. g \in [0 .. n + 1 -> X]
    <3>1. ASSUME NEW i \in 0 .. n + 1 PROVE g[i] \in X
      <4>1. i = n + 1 \/ i \in 0 .. n OBVIOUS
      <4> QED BY <2>2, <4>1
    <3> QED BY <3>1
  <2>4. g[0] = base BY <2>1
  <2>5. ASSUME NEW i \in 1 .. n + 1 PROVE g[i] = step[i][g[i - 1]]
    <3>1. CASE i = n + 1
      <4>1. i - 1 = n /\ n \in 0 .. n + 1 /\ n # n + 1 BY <3>1
      <4>2. g[i - 1] = f[n] BY <4>1
      <4> QED BY <3>1, <4>2
    <3>2. CASE i # n + 1
      <4>1. i \in 1 .. n /\ i - 1 \in 0 .. n + 1 /\ i - 1 # n + 1 /\ i - 1 \in 0 .. n BY <3>2
      <4>2. g[i] = f[i] /\ g[i - 1] = f[i - 1] BY <3>2, <4>1
      <4>3. f[i] = step[i][f[i - 1]] BY <2>1, <4>1
      <4> QED BY <4>2, <4>3
    <3> QED BY <3>1, <3>2
  <2> HIDE DEF g
  <2>6. Good(g, n + 1) BY <2>4, <2>5
  <2> QED BY <2>3, <2>6
<1> HIDE DEF S
<1>3. \A n \in Nat : n \in S BY <1>1, <1>2, SetInduction
<1>4. \E f \in [0 .. k -> X] : Good(f, k) BY <1>3 DEF S
<1> QED BY <1>4 DEF Recursions
=============================================================================

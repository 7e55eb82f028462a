--------------------------- MODULE IrEngineProofs ---------------------------
(***************************************************************************)
(* Proofs about IrEngine for every set of sources, every handler and any   *)
(* number of threads.  The compiler and the validators come first: what    *)
(* they make of a source is a sound graph, whose nodes lead to its nodes.  *)
(* Then the engine: it keeps to its types, and what makes a wait return    *)
(* was published after the wait began.  Last, the rules of a text stay     *)
(* apart in the graph they are compiled to.                                *)
(***************************************************************************)
EXTENDS IrEngine, SequenceTheorems, FiniteSetTheorems, NaturalsOrder

-----------------------------------------------------------------------------
(* Lists, and the first and the best of their elements.                    *)

LEMMA ListIsSeq ==
  ASSUME NEW s, IsList(s)
  PROVE  /\ Len(s) \in Nat /\ DOMAIN s = 1 .. Len(s) /\ s \in Seq(Range(s))
         /\ \A i \in 1 .. Len(s) : s[i] \in Range(s)
<1>1. Len(s) \in Nat /\ s = [i \in 1 .. Len(s) |-> s[i]] BY DEF IsList
<1>2. DOMAIN s = 1 .. Len(s) BY <1>1
<1>3. \A i \in 1 .. Len(s) : s[i] \in Range(s) BY <1>2 DEF Range
<1>4. s \in [1 .. Len(s) -> Range(s)] BY <1>1, <1>3
<1>5. s \in Seq(Range(s)) BY <1>1, <1>4, SeqDef
<1> QED BY <1>1, <1>2, <1>3, <1>5

LEMMA SeqIsList ==
  ASSUME NEW S, NEW s \in Seq(S)
  PROVE  IsList(s) /\ \A x \in Range(s) : x \in S
<1>1. Len(s) \in Nat /\ s \in [1 .. Len(s) -> S] /\ DOMAIN s = 1 .. Len(s) BY LenProperties
<1>2. s = [i \in 1 .. Len(s) |-> s[i]] BY <1>1
<1> QED BY <1>1, <1>2 DEF IsList, Range

LEMMA MinIsLeast ==
  ASSUME NEW T, T \subseteq Nat, T # {}
  PROVE  Min(T) \in T /\ \A y \in T : Min(T) <= y
<1>1. PICK x \in T : \A y \in T : x <= y BY LeastElement
<1> QED BY <1>1 DEF Min

LEMMA ListsJoin ==
  ASSUME NEW a, IsList(a), NEW b, IsList(b)
  PROVE  /\ IsList(a \o b) /\ Len(a \o b) = Len(a) + Len(b)
         /\ \A i \in 1 .. Len(a) : (a \o b)[i] = a[i]
         /\ \A i \in 1 .. Len(b) : (a \o b)[Len(a) + i] = b[i]
<1> DEFINE S == Range(a) \cup Range(b)
<1>1. Len(a) \in Nat /\ Len(b) \in Nat /\ a \in Seq(Range(a)) /\ b \in Seq(Range(b)) BY ListIsSeq
<1>2. a \in Seq(S) /\ b \in Seq(S) BY <1>1, SeqMonotonic
<1> HIDE DEF S
<1>3. /\ a \o b \in Seq(S) /\ Len(a \o b) = Len(a) + Len(b)
      /\ \A i \in 1 .. Len(a) + Len(b) :
           (a \o b)[i] = IF i <= Len(a) THEN a[i] ELSE b[i - Len(a)]
  BY <1>2, ConcatProperties
<1>4. \A i \in 1 .. Len(a) : i \in 1 .. Len(a) + Len(b) /\ i <= Len(a) BY <1>1
<1>5. \A i \in 1 .. Len(b) : /\ Len(a) + i \in 1 .. Len(a) + Len(b) /\ ~(Len(a) + i <= Len(a))
                             /\ (Len(a) + i) - Len(a) = i
  BY <1>1
<1> QED BY <1>3, <1>4, <1>5, SeqIsList

LEMMA ListAppends ==
  ASSUME NEW s, IsList(s), NEW x
  PROVE  /\ IsList(Append(s, x)) /\ Len(Append(s, x)) = Len(s) + 1
         /\ \A i \in 1 .. Len(s) : Append(s, x)[i] = s[i]
         /\ Append(s, x)[Len(s) + 1] = x
         /\ Range(Append(s, x)) = Range(s) \cup {x}
<1> DEFINE S == Range(s) \cup {x}
           a == Append(s, x)
<1>1. Len(s) \in Nat /\ s \in Seq(Range(s)) /\ DOMAIN s = 1 .. Len(s) BY ListIsSeq
<1>2. s \in Seq(S) BY <1>1, SeqMonotonic
<1> HIDE DEF S
<1>3. x \in S BY DEF S
<1>4. /\ a \in Seq(S) /\ Len(a) = Len(s) + 1 /\ a[Len(s) + 1] = x
      /\ \A i \in 1 .. Len(s) : a[i] = s[i]
  BY <1>2, <1>3, AppendProperties
<1>5. DOMAIN a = 1 .. Len(s) + 1 BY <1>4, LenProperties
<1> HIDE DEF a
<1>6. Range(a) = Range(s) \cup {x}
  <2>1. ASSUME NEW y \in Range(a) PROVE y \in Range(s) \cup {x}
    <3>1. PICK i \in 1 .. Len(s) + 1 : y = a[i] BY <1>5 DEF Range
    <3>2. i = Len(s) + 1 \/ i \in 1 .. Len(s) BY <1>1
    <3> QED BY <1>1, <1>4, <3>1, <3>2 DEF Range
  <2>2. ASSUME NEW y \in Range(s) PROVE y \in Range(a)
    <3>1. PICK i \in 1 .. Len(s) : y = s[i] BY <1>1 DEF Range
    <3>2. i \in 1 .. Len(s) + 1 BY <1>1
    <3> QED BY <1>4, <1>5, <3>1, <3>2 DEF Range
  <2>3. Len(s) + 1 \in 1 .. Len(s) + 1 BY <1>1
  <2>4. x \in Range(a) BY <1>4, <1>5, <2>3 DEF Range
  <2> QED BY <2>1, <2>2, <2>4
<1>7. IsList(a) BY <1>4, SeqIsList
<1> QED BY <1>4, <1>6, <1>7 DEF a

\* The last element of a list is replaced.
LEMMA LastReplaced ==
  ASSUME NEW s, IsList(s), s # << >>, NEW x
  PROVE  LET r == Append(Front(s), x)
         IN /\ IsList(r) /\ Len(r) = Len(s) /\ r[Len(s)] = x /\ r # << >>
            /\ \A i \in 1 .. Len(s) : i # Len(s) => r[i] = s[i]
            /\ Last(s) = s[Len(s)] /\ Len(s) \in 1 .. Len(s)
<1> DEFINE f == Front(s)
           n == Len(s)
<1>1. n \in Nat /\ s \in Seq(Range(s)) /\ \A i \in 1 .. n : s[i] \in Range(s) BY ListIsSeq
<1>2. n # 0 BY <1>1, EmptySeq
<1> HIDE DEF n
<1>3. /\ f \in Seq(Range(s)) /\ Len(f) = n - 1 /\ \A i \in 1 .. n - 1 : f[i] = s[i]
  <2>1. 1 \in Int /\ n - 1 \in Int /\ \A i \in 1 .. n - 1 : s[i] \in Range(s) BY <1>1
  <2>2. f = SubSeq(s, 1, n - 1) BY DEF Front, n
  <2>3. /\ f \in Seq(Range(s)) /\ Len(f) = IF 1 <= n - 1 THEN (n - 1) - 1 + 1 ELSE 0
        /\ \A i \in 1 .. (n - 1) - 1 + 1 : f[i] = s[1 + i - 1]
    <3> HIDE DEF f
    <3> QED BY <2>1, <2>2, SubSeqProperties
  <2>4. Len(f) = n - 1 BY <1>1, <1>2, <2>3
  <2>5. \A i \in 1 .. n - 1 : i \in 1 .. (n - 1) - 1 + 1 /\ 1 + i - 1 = i BY <1>1
  <2> QED BY <2>3, <2>4, <2>5
<1>4. IsList(f) BY <1>3, SeqIsList
<1> HIDE DEF f
<1>5. /\ IsList(Append(f, x)) /\ Len(Append(f, x)) = Len(f) + 1
      /\ \A i \in 1 .. Len(f) : Append(f, x)[i] = f[i]
      /\ Append(f, x)[Len(f) + 1] = x
  BY <1>4, ListAppends
<1>6. Len(f) + 1 = n /\ n \in 1 .. n /\ \A i \in 1 .. n : i # n => i \in 1 .. n - 1 BY <1>1, <1>2, <1>3
<1>7. Append(f, x) # << >>
  <2>1. Len(Append(f, x)) # 0 BY <1>2, <1>5, <1>6
  <2> QED BY <2>1
<1>8. Last(s) = s[n] BY DEF Last, n
<1> QED BY <1>3, <1>5, <1>6, <1>7, <1>8 DEF f, n

\* Lists one after another: each begins where those before it end.
Joins(flat, seqs, at) ==
  /\ at \in [DOMAIN seqs -> Nat]
  /\ \A i \in DOMAIN seqs : at[i] + Len(seqs[i]) <= Len(flat)
  /\ \A i, j \in DOMAIN seqs : i < j => at[i] + Len(seqs[i]) <= at[j]
  /\ \A i \in DOMAIN seqs : \A k \in 1 .. Len(seqs[i]) : flat[at[i] + k] = seqs[i][k]
  /\ \A p \in DOMAIN flat : \E i \in DOMAIN seqs : \E k \in 1 .. Len(seqs[i]) : p = at[i] + k

LEMMA ListsFlatten ==
  ASSUME NEW seqs, IsList(seqs), seqs # << >>, \A i \in DOMAIN seqs : IsList(seqs[i])
  PROVE  IsList(FlattenSeq(seqs)) /\ \E at : Joins(FlattenSeq(seqs), seqs, at)
<1> DEFINE n == Len(seqs)
           Is(f, m) == f = [i \in 1 .. m |-> IF i = 1 THEN seqs[i] ELSE f[i - 1] \o seqs[i]]
<1>1. n \in Nat /\ DOMAIN seqs = 1 .. n /\ seqs \in Seq(Range(seqs)) BY ListIsSeq
<1>2. n # 0 BY <1>1, EmptySeq
<1>3. \A i \in 1 .. n : IsList(seqs[i]) /\ Len(seqs[i]) \in Nat BY <1>1, ListIsSeq
<1> HIDE DEF n
<1>4. \E f : Is(f, n)
  <2> DEFINE S == {m \in Nat : \E f : Is(f, m)}
  <2>1. 0 \in S
    <3>1. Is([i \in 1 .. 0 |-> 0], 0) OBVIOUS
    <3> QED BY <3>1
  <2>2. ASSUME NEW m \in Nat, m \in S PROVE m + 1 \in S
    <3>1. PICK f : Is(f, m) BY <2>2
    <3> DEFINE h == [i \in 1 .. m + 1 |->
                      IF i = m + 1 THEN (IF i = 1 THEN seqs[i] ELSE f[i - 1] \o seqs[i]) ELSE f[i]]
    <3>2. ASSUME NEW i \in 1 .. m + 1
          PROVE  h[i] = IF i = 1 THEN seqs[i] ELSE h[i - 1] \o seqs[i]
      <4>1. CASE i = m + 1
        <5>1. i # 1 => i - 1 \in 1 .. m + 1 /\ i - 1 # m + 1 BY <4>1
        <5>2. i # 1 => h[i - 1] = f[i - 1] BY <5>1
        <5> QED BY <4>1, <5>2
      <4>2. CASE i # m + 1
        <5>1. i \in 1 .. m BY <4>2
        <5>2. h[i] = f[i] /\ f[i] = IF i = 1 THEN seqs[i] ELSE f[i - 1] \o seqs[i] BY <3>1, <4>2, <5>1
        <5>3. i # 1 => i - 1 \in 1 .. m + 1 /\ i - 1 # m + 1 BY <5>1
        <5>4. i # 1 => h[i - 1] = f[i - 1] BY <5>3
        <5> QED BY <5>2, <5>4
      <4> QED BY <4>1, <4>2
    <3>3. DOMAIN h = 1 .. m + 1 /\ h = [i \in 1 .. m + 1 |-> h[i]] OBVIOUS
    <3> HIDE DEF h
    <3>4. Is(h, m + 1) BY <3>2, <3>3
    <3> HIDE DEF Is
    <3> QED BY <3>4
  <2> HIDE DEF S
  <2>3. n \in S BY <1>1, <2>1, <2>2, SetInduction
  <2> QED BY <2>3 DEF S
<1> DEFINE g == CHOOSE f : Is(f, n)
<1>5. Is(g, n) BY <1>4
<1>6. FlattenSeq(seqs) = g[n] BY <1>2 DEF FlattenSeq, n
<1> HIDE DEF g
<1>7. g[1] = seqs[1] /\ \A i \in 2 .. n : g[i] = g[i - 1] \o seqs[i]
  <2>1. 1 \in 1 .. n BY <1>1, <1>2
  <2>2. \A i \in 2 .. n : i \in 1 .. n /\ i # 1 BY <1>1
  <2> QED BY <1>5, <2>1, <2>2
<1> HIDE DEF Is
<1> DEFINE at == [i \in 1 .. n |-> IF i = 1 THEN 0 ELSE Len(g[i - 1])]
           Good(m) ==
             /\ IsList(g[m])
             /\ \A i \in 1 .. m : at[i] \in Nat /\ at[i] + Len(seqs[i]) <= Len(g[m])
             /\ \A i, j \in 1 .. m : i < j => at[i] + Len(seqs[i]) <= at[j]
             /\ \A i \in 1 .. m : \A k \in 1 .. Len(seqs[i]) : g[m][at[i] + k] = seqs[i][k]
             /\ \A p \in 1 .. Len(g[m]) :
                  \E i \in 1 .. m : \E k \in 1 .. Len(seqs[i]) : p = at[i] + k
           S == {m \in Nat : m + 1 <= n => Good(m + 1)}
<1>8. \A m \in Nat : m \in S
  <2>1. 0 \in S
    <3>1. 1 \in 1 .. n /\ at[1] = 0 BY <1>1, <1>2
    <3>2. 1 .. 1 = {1} OBVIOUS
    <3>3. IsList(g[1]) /\ Len(g[1]) = Len(seqs[1]) /\ Len(seqs[1]) \in Nat BY <1>3, <1>7, <3>1
    <3> HIDE DEF at
    <3>4. \A k \in 1 .. Len(seqs[1]) : g[1][at[1] + k] = seqs[1][k]
      <4>1. \A k \in 1 .. Len(seqs[1]) : at[1] + k = k BY <3>1
      <4> QED BY <1>7, <4>1
    <3>5. \A p \in 1 .. Len(g[1]) : \E k \in 1 .. Len(seqs[1]) : p = at[1] + k
      <4>1. \A p \in 1 .. Len(g[1]) : p = at[1] + p BY <3>1, <3>3
      <4> QED BY <3>3, <4>1
    <3>6. at[1] \in Nat /\ at[1] + Len(seqs[1]) <= Len(g[1]) BY <3>1, <3>3
    <3>7. Good(1) BY <3>2, <3>3, <3>4, <3>5, <3>6
    <3> QED BY <3>7
  <2>2. ASSUME NEW m \in Nat, m \in S PROVE m + 1 \in S
    <3> HIDE DEF Good
    <3> SUFFICES ASSUME (m + 1) + 1 <= n PROVE Good((m + 1) + 1) OBVIOUS
    <3> DEFINE b == m + 1
               c == (m + 1) + 1
    <3>1. Good(b) BY <1>1, <2>2
    <3>2. b \in 1 .. n /\ c \in 2 .. n /\ c \in 1 .. n /\ c # 1 /\ c - 1 = b /\ b \in Nat /\ c = b + 1 BY <1>1
    <3>3. g[c] = g[b] \o seqs[c] /\ at[c] = Len(g[b]) BY <1>7, <3>2
    <3> HIDE DEF at, b, c, S
    <3>1a. /\ IsList(g[b])
           /\ \A i \in 1 .. b : at[i] \in Nat /\ at[i] + Len(seqs[i]) <= Len(g[b])
           /\ \A i, j \in 1 .. b : i < j => at[i] + Len(seqs[i]) <= at[j]
           /\ \A i \in 1 .. b : \A k \in 1 .. Len(seqs[i]) : g[b][at[i] + k] = seqs[i][k]
           /\ \A p \in 1 .. Len(g[b]) :
                \E i \in 1 .. b : \E k \in 1 .. Len(seqs[i]) : p = at[i] + k
      BY <3>1 DEF Good
    <3>4. IsList(g[b]) /\ Len(g[b]) \in Nat /\ IsList(seqs[c]) /\ Len(seqs[c]) \in Nat
      BY <1>3, <3>1a, <3>2, ListIsSeq
    <3>5a. IsList(g[c]) /\ Len(g[c]) = Len(g[b]) + Len(seqs[c])
      BY <3>3, <3>4, ListsJoin
    <3>5. /\ IsList(g[c]) /\ Len(g[c]) = Len(g[b]) + Len(seqs[c])
          /\ \A k \in 1 .. Len(g[b]) : g[c][k] = g[b][k]
          /\ \A k \in 1 .. Len(seqs[c]) : g[c][Len(g[b]) + k] = seqs[c][k]
      <4> DEFINE x == g[b]
                 y == seqs[c]
      <4>0. IsList(x) /\ IsList(y) BY <3>4
      <4> HIDE DEF x, y
      <4>1. /\ IsList(x \o y) /\ Len(x \o y) = Len(x) + Len(y)
            /\ \A k \in 1 .. Len(x) : (x \o y)[k] = x[k]
            /\ \A k \in 1 .. Len(y) : (x \o y)[Len(x) + k] = y[k]
        BY <4>0, ListsJoin
      <4>2. g[c] = x \o y BY <3>3 DEF x, y
      <4> QED BY <4>1, <4>2 DEF x, y
    <3> DEFINE lb == Len(g[b])
               lc == Len(seqs[c])
               l == Len(g[c])
    <3>5b. l = lb + lc /\ lb \in Nat /\ lc \in Nat BY <3>4, <3>5a
    <3>6. \A i \in 1 .. c : i = c \/ i \in 1 .. b BY <3>2
    <3>6a. \A i \in 1 .. b : i \in 1 .. n /\ i # c BY <1>1, <3>2
    <3>7. ASSUME NEW i \in 1 .. c PROVE at[i] \in Nat /\ at[i] + Len(seqs[i]) <= Len(g[c])
      <4>1. CASE i = c
        <5> HIDE DEF lb, lc, l
        <5>1. lb + lc <= l BY <3>5b
        <5> QED BY <3>3, <3>4, <4>1, <5>1 DEF lb, lc, l
      <4>2. CASE i \in 1 .. b
        <5>1. at[i] \in Nat /\ at[i] + Len(seqs[i]) <= Len(g[b]) BY <3>1a, <4>2
        <5>2. Len(seqs[i]) \in Nat BY <1>3, <3>6a, <4>2
        <5> DEFINE e == at[i] + Len(seqs[i])
        <5>3. e \in Nat /\ e <= lb BY <5>1, <5>2
        <5> HIDE DEF e, lb, lc, l
        <5>4. e <= l BY <3>5b, <5>3
        <5> QED BY <5>1, <5>4 DEF e, l
      <4> QED BY <3>6, <4>1, <4>2
    <3>8. ASSUME NEW i \in 1 .. c, NEW j \in 1 .. c, i < j PROVE at[i] + Len(seqs[i]) <= at[j]
      <4>1. i \in 1 .. b BY <3>2, <3>8
      <4>2. CASE j = c BY <3>1a, <3>3, <4>1, <4>2
      <4>3. CASE j \in 1 .. b BY <3>1a, <3>8, <4>1, <4>3
      <4> QED BY <3>6, <4>2, <4>3
    <3>9. ASSUME NEW i \in 1 .. c, NEW k \in 1 .. Len(seqs[i]) PROVE g[c][at[i] + k] = seqs[i][k]
      <4>1. CASE i = c BY <3>3, <3>5, <4>1
      <4>2. CASE i \in 1 .. b
        <5>1. at[i] \in Nat /\ at[i] + Len(seqs[i]) <= Len(g[b]) /\ g[b][at[i] + k] = seqs[i][k]
          BY <3>1a, <4>2
        <5>2. Len(seqs[i]) \in Nat BY <1>3, <3>6a, <4>2
        <5>3. at[i] + k \in 1 .. Len(g[b]) BY <3>4, <5>1, <5>2
        <5> QED BY <3>5, <5>1, <5>3
      <4> QED BY <3>6, <4>1, <4>2
    <3>10. ASSUME NEW p \in 1 .. Len(g[c])
           PROVE  \E i \in 1 .. c : \E k \in 1 .. Len(seqs[i]) : p = at[i] + k
      <4>1. CASE p <= Len(g[b])
        <5>1. p \in 1 .. Len(g[b]) BY <3>4, <3>5a, <4>1
        <5>2. PICK i \in 1 .. b : \E k \in 1 .. Len(seqs[i]) : p = at[i] + k BY <3>1a, <5>1
        <5>3. i \in 1 .. c BY <3>2
        <5> QED BY <5>2, <5>3
      <4>2. CASE ~(p <= Len(g[b]))
        <5> DEFINE k == p - Len(g[b])
        <5>0. p \in 1 .. l /\ ~(p <= lb) BY <4>2
        <5> HIDE DEF lb, lc, l
        <5>1a. p - lb \in 1 .. lc /\ p = lb + (p - lb) BY <3>5b, <5>0
        <5>1. k \in 1 .. Len(seqs[c]) /\ p = Len(g[b]) + k BY <5>1a DEF lb, lc
        <5>2. c \in 1 .. c BY <3>2
        <5> QED BY <3>3, <5>1, <5>2
      <4> QED BY <4>1, <4>2
    <3>11. Good(c) BY <3>5a, <3>7, <3>8, <3>9, <3>10 DEF Good
    <3> QED BY <3>11 DEF c
  <2> HIDE DEF S
  <2> QED BY <2>1, <2>2, SetInduction
<1>9. Good(n)
  <2>1. n - 1 \in Nat /\ (n - 1) + 1 = n BY <1>1, <1>2
  <2>2. n - 1 \in S BY <1>8, <2>1
  <2> HIDE DEF Good
  <2>3. Good((n - 1) + 1) BY <1>1, <2>1, <2>2
  <2> QED BY <2>1, <2>3
<1>10. at \in [1 .. n -> Nat]
  <2>1. \A i \in 1 .. n : at[i] \in Nat BY <1>9
  <2>2. at = [i \in 1 .. n |-> at[i]] OBVIOUS
  <2> HIDE DEF at
  <2> QED BY <2>1, <2>2
<1>11. DOMAIN g[n] = 1 .. Len(g[n]) BY <1>9, ListIsSeq
<1>12. /\ IsList(g[n])
       /\ \A i \in 1 .. n : at[i] + Len(seqs[i]) <= Len(g[n])
       /\ \A i, j \in 1 .. n : i < j => at[i] + Len(seqs[i]) <= at[j]
       /\ \A i \in 1 .. n : \A k \in 1 .. Len(seqs[i]) : g[n][at[i] + k] = seqs[i][k]
       /\ \A p \in 1 .. Len(g[n]) :
            \E i \in 1 .. n : \E k \in 1 .. Len(seqs[i]) : p = at[i] + k
  <2> HIDE DEF at
  <2> QED BY <1>9
<1> HIDE DEF at, Good
<1>13. Joins(g[n], seqs, at) BY <1>1, <1>10, <1>11, <1>12 DEF Joins
<1>14. IsList(g[n]) BY <1>12
<1> QED BY <1>6, <1>13, <1>14

\* max finds an option when there is one to choose from.
LEMMA BestIsOne ==
  ASSUME NEW options, IsList(options), \A i \in DOMAIN options : options[i].priority \in Int,
         NEW places, places \subseteq DOMAIN options, places # {}
  PROVE  \E i \in places : Best(options, places) = options[i]
<1> DEFINE p(i) == options[i].priority
           highest == {i \in places : \A j \in places : p(j) <= p(i)}
           Has(P) == P # {} => \E i \in P : \A j \in P : p(j) <= p(i)
           S == {k \in Nat : k <= Len(options) => \A P \in SUBSET (1 .. k) : Has(P)}
<1>1. Len(options) \in Nat /\ DOMAIN options = 1 .. Len(options) BY ListIsSeq
<1>2. \A k \in Nat : k \in S
  <2>1. 0 \in S
    <3>1. SUBSET (1 .. 0) = {{}} BY 1 .. 0 = {}
    <3> QED BY <3>1
  <2>2. ASSUME NEW k \in Nat, k \in S PROVE k + 1 \in S
    <3> SUFFICES ASSUME k + 1 <= Len(options), NEW P \in SUBSET (1 .. k + 1), P # {}
                 PROVE  \E i \in P : \A j \in P : p(j) <= p(i)
      OBVIOUS
    <3>0. \A i \in P : p(i) \in Int
      <4>1. P \subseteq 1 .. Len(options) BY <1>1
      <4> QED BY <1>1, <4>1
    <3> DEFINE Q == P \ {k + 1}
    <3> HIDE DEF p, S, highest
    <3>1. Q \in SUBSET (1 .. k)
      <4>1. ASSUME NEW i \in Q PROVE i \in 1 .. k
        <5>1. i \in 1 .. k + 1 /\ i # k + 1 OBVIOUS
        <5> QED BY <5>1
      <4> QED BY <4>1
    <3>2. CASE Q = {}
      <4>1. P = {k + 1} BY <3>2
      <4>2. p(k + 1) <= p(k + 1) BY <3>0, <4>1
      <4> QED BY <4>1, <4>2
    <3>3. CASE Q # {}
      <4>0. k <= Len(options) BY <1>1
      <4>1. PICK i \in Q : \A j \in Q : p(j) <= p(i) BY <2>2, <3>1, <3>3, <4>0 DEF S
      <4>2. CASE k + 1 \in P /\ p(i) <= p(k + 1)
        <5>1. ASSUME NEW j \in P PROVE p(j) <= p(k + 1)
          BY <3>0, <4>1, <4>2
        <5> QED BY <4>2, <5>1
      <4>3. CASE ~(k + 1 \in P /\ p(i) <= p(k + 1))
        <5>1. ASSUME NEW j \in P PROVE p(j) <= p(i)
          BY <3>0, <4>1, <4>3
        <5> QED BY <5>1
      <4> QED BY <4>2, <4>3
    <3> QED BY <3>2, <3>3
  <2> HIDE DEF S
  <2> QED BY <2>1, <2>2, SetInduction
<1>3. highest # {} /\ highest \subseteq Nat
  <2>1. Len(options) \in S BY <1>1, <1>2
  <2>2. places \in SUBSET (1 .. Len(options)) BY <1>1
  <2> HIDE DEF p, highest
  <2>3. Has(places)
    <3> HIDE DEF Has
    <3>1. Len(options) <= Len(options) BY <1>1
    <3>2. \A P \in SUBSET (1 .. Len(options)) : Has(P) BY <2>1, <3>1 DEF S
    <3> QED BY <2>2, <3>2
  <2>4. PICK i \in places : \A j \in places : p(j) <= p(i) BY <2>3
  <2>5. i \in highest BY <2>4 DEF highest, p
  <2>6. highest \subseteq 1 .. Len(options) BY <1>1 DEF highest
  <2> QED BY <1>1, <2>5, <2>6
<1>4. Min(highest) \in highest BY <1>3, MinIsLeast
<1>5. Best(options, places) = options[Min(highest)] BY DEF Best
<1> QED BY <1>4, <1>5

-----------------------------------------------------------------------------
(* Sound graphs: what validation leaves of a graph, accepted or not.       *)

SoundNode(node) == TypedNode(node) /\ ValidNode(node)
SoundGraph(g) ==
  /\ \A node \in Range(g.nodes) : SoundNode(node) /\ Targets(node) \subseteq Ids(g)
  /\ g.accepted => IsList(Entries(g)) /\ Range(Entries(g)) \subseteq Ids(g)
SoundNodes(m) == \A id \in DOMAIN m : SoundNode(m[id]) /\ Targets(m[id]) \subseteq DOMAIN m

\* The nodes of a graph by their ids.
MapOf(g) == [id \in Ids(g) |-> NodeOf(g, id)]

LEMMA NodeOfId ==
  ASSUME NEW g, NEW id \in Ids(g)
  PROVE  NodeOf(g, id) \in Range(g.nodes) /\ NodeOf(g, id).id = id
<1>1. \E node \in Range(g.nodes) : node.id = id BY DEF Ids
<1> QED BY <1>1 DEF NodeOf

LEMMA SoundMap ==
  ASSUME NEW g, SoundGraph(g)
  PROVE  SoundNodes(MapOf(g)) /\ DOMAIN MapOf(g) = Ids(g)
BY NodeOfId DEF SoundGraph, SoundNodes, MapOf

\* A transition leads to a node, or there is none.
LEMMA FollowLeads ==
  ASSUME NEW node, TypedNode(node), node.kind \in {"WAIT_EVENT", "ACTION", "EMIT"}, NEW status
  PROVE  TransitionTarget(node, status) = Nowhere \/ TransitionTarget(node, status) \in Targets(node)
<1> DEFINE ts == node.transitions
           fits(on) == {i \in DOMAIN ts : ts[i].on = on}
<1>1. IsList(ts) BY DEF TypedNode
<1>2. DOMAIN ts \subseteq Nat BY <1>1, ListIsSeq
<1>3. ASSUME NEW on, fits(on) # {} PROVE ts[Min(fits(on))].to \in Targets(node)
  <2>1. fits(on) \subseteq Nat BY <1>2
  <2>2. Min(fits(on)) \in DOMAIN ts BY <1>3, <2>1, MinIsLeast
  <2>3. Targets(node) = {t.to : t \in Range(ts)} BY DEF Targets
  <2> QED BY <2>2, <2>3 DEF Range
<1>4. TransitionTarget(node, status) =
        CASE fits(status) # {} -> ts[Min(fits(status))].to
          [] fits(status) = {} /\ fits("default") # {} -> ts[Min(fits("default"))].to
          [] OTHER -> Nowhere
  BY DEF TransitionTarget
<1> HIDE DEF fits, ts
<1>5. CASE fits(status) # {} BY <1>3, <1>4, <1>5
<1>6. CASE fits(status) = {} /\ fits("default") # {} BY <1>3, <1>4, <1>6
<1>7. CASE fits(status) = {} /\ fits("default") = {} BY <1>4, <1>7
<1> QED BY <1>5, <1>6, <1>7

\* So does the option that is taken.
LEMMA OptionLeads ==
  ASSUME NEW node, TypedNode(node), node.kind = "WAIT_MULTI",
         NEW places, places \subseteq DOMAIN node.options, places # {}
  PROVE  Best(node.options, places).to \in Targets(node)
<1>1. IsList(node.options) /\ \A i \in DOMAIN node.options : node.options[i].priority \in Int
  BY DEF TypedNode
<1>2. PICK i \in places : Best(node.options, places) = node.options[i] BY <1>1, BestIsOne
<1>3. Targets(node) = {o.to : o \in Range(node.options)} BY DEF Targets
<1> QED BY <1>2, <1>3 DEF Range

\* The names a node waits for are in numbered places.
LEMMA NamesArePlaced ==
  ASSUME NEW node, SoundNode(node), node.kind \in {"WAIT_EVENT", "WAIT_MULTI"}
  PROVE  /\ NamesOf(node) \subseteq Nat
         /\ \A i \in NamesOf(node) : NameAt(node, i) \in Namespaced
<1>1. CASE node.kind = "WAIT_EVENT"
  <2>1. IsList(node.on) BY <1>1 DEF SoundNode, TypedNode
  <2>2. Range(node.on) \subseteq Namespaced BY <1>1 DEF SoundNode, ValidNode
  <2>3. NamesOf(node) = DOMAIN node.on /\ \A i : NameAt(node, i) = node.on[i]
    BY <1>1 DEF NamesOf, NameAt
  <2> QED BY <2>1, <2>2, <2>3, ListIsSeq DEF Range
<1>2. CASE node.kind = "WAIT_MULTI"
  <2>1. IsList(node.options) BY <1>2 DEF SoundNode, TypedNode
  <2>2. \A o \in Range(node.options) : ValidOption(o) BY <1>2 DEF SoundNode, ValidNode
  <2>3. NamesOf(node) = EventsOf(node) /\ \A i : NameAt(node, i) = node.options[i].event
    BY <1>2 DEF NamesOf, NameAt
  <2>4. EventsOf(node) \subseteq Nat BY <2>1, ListIsSeq DEF EventsOf
  <2>5. ASSUME NEW i \in EventsOf(node) PROVE node.options[i].event \in Namespaced
    <3>1. i \in DOMAIN node.options /\ node.options[i].kind = "EVENT" BY DEF EventsOf
    <3>2. ValidOption(node.options[i]) BY <2>2, <3>1 DEF Range
    <3> QED BY <3>1, <3>2 DEF ValidOption
  <2> QED BY <2>3, <2>4, <2>5
<1> QED BY <1>1, <1>2

-----------------------------------------------------------------------------
(* The parser: a rule holds what its own lines say, and nothing else.      *)

LEMMA ParseRuns ==
  ASSUME NEW text, TypedText(text)
  PROVE  \E f : /\ f[0] = NoText
                /\ \A k \in 1 .. Len(text) : f[k] = ParseLine(f[k - 1], text[k])
                /\ ParseDsl(text) = IF f[Len(text)].rules = << >> THEN Failed ELSE f[Len(text)]
<1> DEFINE n == Len(text)
           Is(f, m) == f = [k \in 0 .. m |-> IF k = 0 THEN NoText ELSE ParseLine(f[k - 1], text[k])]
<1>1. n \in Nat BY ListIsSeq DEF TypedText
<1>2. ParseDsl(text) = LET root == CHOOSE f : Is(f, n)
                       IN IF root[n].rules = << >> THEN Failed ELSE root[n]
  BY DEF ParseDsl
<1> HIDE DEF n
<1>3. \E f : Is(f, n)
  <2> DEFINE S == {m \in Nat : \E f : Is(f, m)}
  <2>1. 0 \in S
    <3>1. Is([k \in 0 .. 0 |-> NoText], 0) OBVIOUS
    <3> HIDE DEF Is
    <3> QED BY <3>1
  <2>2. ASSUME NEW m \in Nat, m \in S PROVE m + 1 \in S
    <3>1. PICK f : Is(f, m) BY <2>2
    <3> DEFINE h == [k \in 0 .. m + 1 |->
                      IF k = m + 1 THEN ParseLine(f[k - 1], text[k]) ELSE f[k]]
    <3>2. ASSUME NEW k \in 0 .. m + 1
          PROVE  h[k] = IF k = 0 THEN NoText ELSE ParseLine(h[k - 1], text[k])
      <4>1. CASE k = m + 1
        <5>1. k # 0 /\ k - 1 \in 0 .. m + 1 /\ k - 1 # m + 1 BY <4>1
        <5>2. h[k - 1] = f[k - 1] BY <5>1
        <5> QED BY <4>1, <5>1, <5>2
      <4>2. CASE k # m + 1
        <5>1. k \in 0 .. m BY <4>2
        <5>2. h[k] = f[k] /\ f[k] = IF k = 0 THEN NoText ELSE ParseLine(f[k - 1], text[k])
          BY <3>1, <4>2, <5>1
        <5>3. k # 0 => k - 1 \in 0 .. m + 1 /\ k - 1 # m + 1 BY <5>1
        <5>4. k # 0 => h[k - 1] = f[k - 1] BY <5>3
        <5> QED BY <5>2, <5>4
      <4> QED BY <4>1, <4>2
    <3>3. h = [k \in 0 .. m + 1 |-> h[k]] OBVIOUS
    <3> HIDE DEF h
    <3>4. Is(h, m + 1) BY <3>2, <3>3
    <3> HIDE DEF Is
    <3> QED BY <3>4
  <2> HIDE DEF S
  <2>3. n \in S BY <1>1, <2>1, <2>2, SetInduction
  <2> QED BY <2>3 DEF S
<1> DEFINE g == CHOOSE f : Is(f, n)
<1>4. Is(g, n) BY <1>3
<1>5. ParseDsl(text) = IF g[n].rules = << >> THEN Failed ELSE g[n] BY <1>2
<1> HIDE DEF g
<1>6. g[0] = NoText BY <1>1, <1>4
<1>7. ASSUME NEW k \in 1 .. n PROVE g[k] = ParseLine(g[k - 1], text[k])
  <2>1. k \in 0 .. n /\ k # 0 BY <1>1
  <2> QED BY <1>4, <2>1
<1> QED BY <1>5, <1>6, <1>7 DEF n

\* How many rules the first k lines begin, and which of them belong to the i-th.
RulesIn(text, k) == Cardinality({m \in 1 .. k : text[m].keyword = "RULE"})
LinesOf(text, i, k) == {m \in 1 .. k : RulesIn(text, m) = i}
Grows(text, k) == IF text[k].keyword = "RULE" THEN 1 ELSE 0

LEMMA RulesGrow ==
  ASSUME NEW text, NEW k \in Nat
  PROVE  /\ RulesIn(text, k) \in Nat /\ RulesIn(text, 0) = 0
         /\ RulesIn(text, k + 1) = RulesIn(text, k) + Grows(text, k + 1)
<1> DEFINE R(n) == {m \in 1 .. n : text[m].keyword = "RULE"}
<1>1. IsFiniteSet(R(k)) /\ Cardinality(R(k)) \in Nat
  <2>1. IsFiniteSet(1 .. k) /\ R(k) \in SUBSET (1 .. k) BY FS_Interval
  <2>2. IsFiniteSet(R(k)) BY <2>1, FS_Subset
  <2> QED BY <2>2, FS_CardinalityType
<1>2. R(0) = {} /\ Cardinality({}) = 0
  <2>1. 1 .. 0 = {} OBVIOUS
  <2> QED BY <2>1, FS_EmptySet
<1>3. \A m : m \in 1 .. k + 1 <=> m \in 1 .. k \/ m = k + 1 OBVIOUS
<1>4. k + 1 \notin R(k) OBVIOUS
<1>5. CASE text[k + 1].keyword = "RULE"
  <2>1. R(k + 1) = R(k) \cup {k + 1} BY <1>3, <1>5
  <2> HIDE DEF R
  <2>2. Cardinality(R(k + 1)) = Cardinality(R(k)) + 1 BY <1>1, <1>4, <2>1, FS_AddElement
  <2> QED BY <1>1, <1>2, <1>5, <2>2 DEF RulesIn, Grows, R
<1>6. CASE text[k + 1].keyword # "RULE"
  <2>1. R(k + 1) = R(k) BY <1>3, <1>6
  <2>2. RulesIn(text, k + 1) = Cardinality(R(k + 1)) /\ RulesIn(text, k) = Cardinality(R(k))
        /\ RulesIn(text, 0) = Cardinality(R(0))
    BY DEF RulesIn
  <2>3. Grows(text, k + 1) = 0 BY <1>6 DEF Grows
  <2> HIDE DEF R
  <2> QED BY <1>1, <1>2, <2>1, <2>2, <2>3
<1> QED BY <1>5, <1>6

LEMMA LinesGrow ==
  ASSUME NEW text, NEW k \in Nat, NEW i \in Nat
  PROVE  /\ LinesOf(text, i, k + 1) =
              LinesOf(text, i, k) \cup (IF i = RulesIn(text, k + 1) THEN {k + 1} ELSE {})
         /\ i > RulesIn(text, k) => LinesOf(text, i, k) = {}
<1>1. \A m : m \in 1 .. k + 1 <=> m \in 1 .. k \/ m = k + 1 OBVIOUS
<1>2. LinesOf(text, i, k + 1) =
        LinesOf(text, i, k) \cup (IF i = RulesIn(text, k + 1) THEN {k + 1} ELSE {})
  BY <1>1 DEF LinesOf
<1> DEFINE S == {n \in Nat : \A m \in 1 .. n : RulesIn(text, m) <= RulesIn(text, n)}
<1>3. \A n \in Nat : n \in S
  <2>1. 0 \in S OBVIOUS
  <2>2. ASSUME NEW n \in Nat, n \in S PROVE n + 1 \in S
    <3>1. RulesIn(text, n + 1) = RulesIn(text, n) + Grows(text, n + 1) /\ RulesIn(text, n) \in Nat
          /\ RulesIn(text, n + 1) \in Nat
      BY RulesGrow
    <3>2. Grows(text, n + 1) \in Nat BY DEF Grows
    <3>3. ASSUME NEW m \in 1 .. n + 1 PROVE RulesIn(text, m) <= RulesIn(text, n + 1)
      <4>1. CASE m = n + 1 BY <3>1, <4>1
      <4>2. CASE m # n + 1
        <5>1. m \in 1 .. n /\ m \in Nat BY <4>2
        <5>2. RulesIn(text, m) <= RulesIn(text, n) /\ RulesIn(text, m) \in Nat BY <2>2, <5>1, RulesGrow
        <5> QED BY <3>1, <3>2, <5>2
      <4> QED BY <4>1, <4>2
    <3> QED BY <3>3
  <2> HIDE DEF S
  <2> QED BY <2>1, <2>2, SetInduction
<1>4. ASSUME i > RulesIn(text, k), NEW m \in LinesOf(text, i, k) PROVE FALSE
  <2>1. m \in 1 .. k /\ RulesIn(text, m) = i BY DEF LinesOf
  <2>2. RulesIn(text, m) <= RulesIn(text, k) /\ RulesIn(text, k) \in Nat BY <1>3, <2>1, RulesGrow
  <2> QED BY <1>4, <2>1, <2>2
<1> QED BY <1>2, <1>4

\* What the lines say is in the rule.
UntilOf(cond) == IF cond.kind = "on" THEN "ON" ELSE "TIMEOUT"
Says(text, lines, rule) ==
  /\ rule = [id |-> rule.id, on |-> rule.on, start |-> rule.start, until |-> rule.until,
             stop |-> rule.stop, timeout |-> rule.timeout]
  /\ TypedRule(rule)
  /\ Range(rule.start) = Named(text, lines, "START")
  /\ Range(rule.stop) = Named(text, lines, "STOP")
  /\ Range(rule.timeout) = Named(text, lines, "TIMEOUT")
  /\ \A c \in Range(rule.until) : c.kind \in {"on", "timeout"}
  /\ {UntilOf(c) : c \in Range(rule.until)} = Named(text, lines, "UNTIL")

Parsed(root, text, k) ==
  /\ root = [failed |-> FALSE, version |-> root.version, rules |-> root.rules, inRule |-> root.inRule]
  /\ root.inRule => root.rules # << >>
  /\ IsList(root.rules) /\ Len(root.rules) = RulesIn(text, k)
  /\ \A i \in 1 .. Len(root.rules) : Says(text, LinesOf(text, i, k), root.rules[i])

LEMMA NamedGrows ==
  ASSUME NEW text, NEW lines, NEW k, NEW keyword
  PROVE  Named(text, lines \cup {k}, keyword) =
           Named(text, lines, keyword)
             \cup (IF text[k].keyword = keyword THEN {Head(text[k].payload)} ELSE {})
<1> DEFINE head(m) == Head(text[m].payload)
<1>1. Named(text, lines \cup {k}, keyword) = {head(m) : m \in {j \in lines \cup {k} : text[j].keyword = keyword}}
  BY DEF Named
<1>2. Named(text, lines, keyword) = {head(m) : m \in {j \in lines : text[j].keyword = keyword}}
  BY DEF Named
<1> HIDE DEF head
<1>3. CASE text[k].keyword = keyword
  <2>1. {j \in lines \cup {k} : text[j].keyword = keyword} = {j \in lines : text[j].keyword = keyword} \cup {k}
    BY <1>3
  <2>2. {head(m) : m \in {j \in lines : text[j].keyword = keyword} \cup {k}} =
          {head(m) : m \in {j \in lines : text[j].keyword = keyword}} \cup {head(k)}
    OBVIOUS
  <2> QED BY <1>1, <1>2, <1>3, <2>1, <2>2 DEF head
<1>4. CASE text[k].keyword # keyword
  <2>1. {j \in lines \cup {k} : text[j].keyword = keyword} = {j \in lines : text[j].keyword = keyword}
    BY <1>4
  <2> QED BY <1>1, <1>2, <1>4, <2>1
<1> QED BY <1>3, <1>4

\* A line that names no action and no condition changes nothing of a rule.
LEMMA SaysOn ==
  ASSUME NEW text, NEW lines, NEW rule, Says(text, lines, rule), NEW k,
         text[k].keyword \notin {"START", "STOP", "TIMEOUT", "UNTIL"}
  PROVE  Says(text, lines \cup {k}, rule)
<1>1. ASSUME NEW w \in {"START", "STOP", "TIMEOUT", "UNTIL"}
      PROVE  Named(text, lines \cup {k}, w) = Named(text, lines, w)
  <2> DEFINE old == Named(text, lines, w)
             new == Named(text, lines \cup {k}, w)
  <2>1. new = old \cup (IF text[k].keyword = w THEN {Head(text[k].payload)} ELSE {}) BY NamedGrows
  <2> HIDE DEF old, new
  <2>2. new = old \cup {} BY <2>1
  <2>3. new = old BY <2>2
  <2> QED BY <2>3 DEF old, new
<1>2. /\ Named(text, lines \cup {k}, "START") = Named(text, lines, "START")
      /\ Named(text, lines \cup {k}, "STOP") = Named(text, lines, "STOP")
      /\ Named(text, lines \cup {k}, "TIMEOUT") = Named(text, lines, "TIMEOUT")
      /\ Named(text, lines \cup {k}, "UNTIL") = Named(text, lines, "UNTIL")
  BY <1>1
<1> QED BY <1>2 DEF Says

\* One that names an action adds it to its block.
Blocks == {<<"START", "start">>, <<"STOP", "stop">>, <<"TIMEOUT", "timeout">>}
Grown(rule, block, action) == [rule EXCEPT ![block] = Append(@, action)]
LEMMA SaysAction ==
  ASSUME NEW text, NEW lines, NEW rule, Says(text, lines, rule), NEW k,
         NEW block, <<text[k].keyword, block>> \in Blocks,
         NEW new, new = Grown(rule, block, Head(text[k].payload))
  PROVE  Says(text, lines \cup {k}, new)
<1> DEFINE x == Head(text[k].payload)
           word == text[k].keyword
           named(w) == Named(text, lines, w)
           then(w) == Named(text, lines \cup {k}, w)
<1>1. ASSUME NEW w PROVE then(w) = named(w) \cup (IF word = w THEN {x} ELSE {})
  BY NamedGrows
<1>2. /\ rule = [id |-> rule.id, on |-> rule.on, start |-> rule.start, until |-> rule.until,
                 stop |-> rule.stop, timeout |-> rule.timeout]
      /\ TypedRule(rule)
      /\ Range(rule.start) = named("START") /\ Range(rule.stop) = named("STOP")
      /\ Range(rule.timeout) = named("TIMEOUT")
      /\ \A c \in Range(rule.until) : c.kind \in {"on", "timeout"}
      /\ {UntilOf(c) : c \in Range(rule.until)} = named("UNTIL")
  BY DEF Says
<1>3. /\ then("START") = named("START") \cup (IF word = "START" THEN {x} ELSE {})
      /\ then("STOP") = named("STOP") \cup (IF word = "STOP" THEN {x} ELSE {})
      /\ then("TIMEOUT") = named("TIMEOUT") \cup (IF word = "TIMEOUT" THEN {x} ELSE {})
      /\ then("UNTIL") = named("UNTIL") \cup (IF word = "UNTIL" THEN {x} ELSE {})
  BY <1>1
<1>4. IsList(rule.start) /\ IsList(rule.stop) /\ IsList(rule.timeout) BY <1>2 DEF TypedRule
<1> HIDE DEF x, named
<1> SUFFICES ASSUME new = [rule EXCEPT ![block] = Append(@, x)] PROVE Says(text, lines \cup {k}, new)
  BY DEF x, Grown
<1>5. CASE word = "START" /\ block = "start"
  <2> DEFINE a == Append(rule.start, x)
             r == [rule EXCEPT !.start = a]
  <2>1. IsList(a) /\ Range(a) = Range(rule.start) \cup {x} BY <1>4, ListAppends
  <2>2. new = r BY <1>2, <1>5
  <2> HIDE DEF a
  <2>3. r = [id |-> rule.id, on |-> rule.on, start |-> a, until |-> rule.until,
             stop |-> rule.stop, timeout |-> rule.timeout]
    BY <1>2
  <2> HIDE DEF r
  <2>4. /\ r.id = rule.id /\ r.on = rule.on /\ r.start = a /\ r.until = rule.until
        /\ r.stop = rule.stop /\ r.timeout = rule.timeout
    BY <2>3
  <2>5. TypedRule(r) BY <1>2, <2>1, <2>4 DEF TypedRule
  <2>6. /\ then("START") = named("START") \cup {x} /\ then("STOP") = named("STOP")
        /\ then("TIMEOUT") = named("TIMEOUT") /\ then("UNTIL") = named("UNTIL")
    BY <1>3, <1>5
  <2>7. Says(text, lines \cup {k}, r) BY <1>2, <2>1, <2>3, <2>4, <2>5, <2>6 DEF Says
  <2> QED BY <2>2, <2>7
<1>6. CASE word = "STOP" /\ block = "stop"
  <2> DEFINE a == Append(rule.stop, x)
             r == [rule EXCEPT !.stop = a]
  <2>1. IsList(a) /\ Range(a) = Range(rule.stop) \cup {x} BY <1>4, ListAppends
  <2>2. new = r BY <1>2, <1>6
  <2> HIDE DEF a
  <2>3. r = [id |-> rule.id, on |-> rule.on, start |-> rule.start, until |-> rule.until,
             stop |-> a, timeout |-> rule.timeout]
    BY <1>2
  <2> HIDE DEF r
  <2>4. /\ r.id = rule.id /\ r.on = rule.on /\ r.start = rule.start /\ r.until = rule.until
        /\ r.stop = a /\ r.timeout = rule.timeout
    BY <2>3
  <2>5. TypedRule(r) BY <1>2, <2>1, <2>4 DEF TypedRule
  <2>6. /\ then("START") = named("START") /\ then("STOP") = named("STOP") \cup {x}
        /\ then("TIMEOUT") = named("TIMEOUT") /\ then("UNTIL") = named("UNTIL")
    BY <1>3, <1>6
  <2>7. Says(text, lines \cup {k}, r) BY <1>2, <2>1, <2>3, <2>4, <2>5, <2>6 DEF Says
  <2> QED BY <2>2, <2>7
<1>7. CASE word = "TIMEOUT" /\ block = "timeout"
  <2> DEFINE a == Append(rule.timeout, x)
             r == [rule EXCEPT !.timeout = a]
  <2>1. IsList(a) /\ Range(a) = Range(rule.timeout) \cup {x} BY <1>4, ListAppends
  <2>2. new = r BY <1>2, <1>7
  <2> HIDE DEF a
  <2>3. r = [id |-> rule.id, on |-> rule.on, start |-> rule.start, until |-> rule.until,
             stop |-> rule.stop, timeout |-> a]
    BY <1>2
  <2> HIDE DEF r
  <2>4. /\ r.id = rule.id /\ r.on = rule.on /\ r.start = rule.start /\ r.until = rule.until
        /\ r.stop = rule.stop /\ r.timeout = a
    BY <2>3
  <2>5. TypedRule(r) BY <1>2, <2>1, <2>4 DEF TypedRule
  <2>6. /\ then("START") = named("START") /\ then("STOP") = named("STOP")
        /\ then("TIMEOUT") = named("TIMEOUT") \cup {x} /\ then("UNTIL") = named("UNTIL")
    BY <1>3, <1>7
  <2>7. Says(text, lines \cup {k}, r) BY <1>2, <2>1, <2>3, <2>4, <2>5, <2>6 DEF Says
  <2> QED BY <2>2, <2>7
<1> QED BY <1>5, <1>6, <1>7 DEF Blocks

\* One that begins with UNTIL adds a condition.
LEMMA SaysUntil ==
  ASSUME NEW text, NEW lines, NEW rule, Says(text, lines, rule), NEW k, text[k].keyword = "UNTIL",
         NEW cond, cond.kind \in {"on", "timeout"}, cond.priority \in Int,
         UntilOf(cond) = Head(text[k].payload)
  PROVE  Says(text, lines \cup {k}, [rule EXCEPT !.until = Append(@, cond)])
<1> DEFINE x == Head(text[k].payload)
           named(w) == Named(text, lines, w)
           then(w) == Named(text, lines \cup {k}, w)
           a == Append(rule.until, cond)
           r == [rule EXCEPT !.until = a]
<1>1. ASSUME NEW w PROVE then(w) = named(w) \cup (IF "UNTIL" = w THEN {x} ELSE {})
  BY NamedGrows
<1>2. /\ rule = [id |-> rule.id, on |-> rule.on, start |-> rule.start, until |-> rule.until,
                 stop |-> rule.stop, timeout |-> rule.timeout]
      /\ TypedRule(rule)
      /\ Range(rule.start) = named("START") /\ Range(rule.stop) = named("STOP")
      /\ Range(rule.timeout) = named("TIMEOUT")
      /\ \A c \in Range(rule.until) : c.kind \in {"on", "timeout"}
      /\ {UntilOf(c) : c \in Range(rule.until)} = named("UNTIL")
  BY DEF Says
<1>3. /\ then("START") = named("START") /\ then("STOP") = named("STOP")
      /\ then("TIMEOUT") = named("TIMEOUT") /\ then("UNTIL") = named("UNTIL") \cup {x}
  BY <1>1
<1>4. IsList(rule.until) /\ \A i \in DOMAIN rule.until : rule.until[i].priority \in Int
  BY <1>2 DEF TypedRule
<1> HIDE DEF named, then
<1>5. /\ IsList(a) /\ Len(a) = Len(rule.until) + 1 /\ Range(a) = Range(rule.until) \cup {cond}
      /\ \A i \in 1 .. Len(rule.until) : a[i] = rule.until[i]
      /\ a[Len(rule.until) + 1] = cond
  BY <1>4, ListAppends
<1>6. r = [id |-> rule.id, on |-> rule.on, start |-> rule.start, until |-> a,
           stop |-> rule.stop, timeout |-> rule.timeout]
  BY <1>2
<1>7. [rule EXCEPT !.until = Append(@, cond)] = r BY <1>2
<1> HIDE DEF a, r
<1>8. /\ r.id = rule.id /\ r.on = rule.on /\ r.start = rule.start /\ r.until = a
      /\ r.stop = rule.stop /\ r.timeout = rule.timeout
  BY <1>6
<1>9. ASSUME NEW i \in DOMAIN a PROVE a[i].priority \in Int
  <2>1. Len(rule.until) \in Nat /\ DOMAIN rule.until = 1 .. Len(rule.until) /\ DOMAIN a = 1 .. Len(a)
    BY <1>4, <1>5, ListIsSeq
  <2>2. i = Len(rule.until) + 1 \/ i \in 1 .. Len(rule.until) BY <1>5, <2>1
  <2> QED BY <1>4, <1>5, <2>1, <2>2
<1>10. TypedRule(r) BY <1>2, <1>5, <1>8, <1>9 DEF TypedRule
<1>11. {UntilOf(c) : c \in Range(a)} = named("UNTIL") \cup {x} BY <1>2, <1>5
<1>12. \A c \in Range(a) : c.kind \in {"on", "timeout"} BY <1>2, <1>5
<1>13. Says(text, lines \cup {k}, r)
  BY <1>2, <1>3, <1>6, <1>8, <1>10, <1>11, <1>12 DEF Says, named, then
<1> QED BY <1>7, <1>13

LEMMA RootChanged ==
  ASSUME NEW root,
         root = [failed |-> FALSE, version |-> root.version, rules |-> root.rules, inRule |-> root.inRule],
         NEW x, NEW y
  PROVE  /\ [root EXCEPT !.rules = x] =
              [failed |-> FALSE, version |-> root.version, rules |-> x, inRule |-> root.inRule]
         /\ [root EXCEPT !.rules = x, !.inRule = y] =
              [failed |-> FALSE, version |-> root.version, rules |-> x, inRule |-> y]
         /\ [root EXCEPT !.inRule = y] =
              [failed |-> FALSE, version |-> root.version, rules |-> root.rules, inRule |-> y]
         /\ [root EXCEPT !.version = x] =
              [failed |-> FALSE, version |-> x, rules |-> root.rules, inRule |-> root.inRule]
<1> DEFINE f == FALSE
           v == root.version
           r == root.rules
           i == root.inRule
<1>1. root = [failed |-> f, version |-> v, rules |-> r, inRule |-> i] OBVIOUS
<1> HIDE DEF f, v, r, i
<1>2. [root EXCEPT !.rules = x] = [failed |-> f, version |-> v, rules |-> x, inRule |-> i] BY <1>1
<1>3. [root EXCEPT !.inRule = y] = [failed |-> f, version |-> v, rules |-> r, inRule |-> y] BY <1>1
<1>4. [root EXCEPT !.version = x] = [failed |-> f, version |-> x, rules |-> r, inRule |-> i] BY <1>1
<1> DEFINE then == [root EXCEPT !.rules = x]
<1>5. [root EXCEPT !.rules = x, !.inRule = y] = [then EXCEPT !.inRule = y] OBVIOUS
<1>6. then = [failed |-> f, version |-> v, rules |-> x, inRule |-> i] BY <1>2
<1> HIDE DEF then
<1>7. [then EXCEPT !.inRule = y] = [failed |-> f, version |-> v, rules |-> x, inRule |-> y] BY <1>6
<1> QED BY <1>2, <1>3, <1>4, <1>5, <1>7 DEF f, v, r, i

\* A line that begins no rule and leaves the rules as they are.
LEMMA SameRules ==
  ASSUME NEW text, NEW k \in Nat, NEW root, Parsed(root, text, k),
         text[k + 1].keyword \notin {"RULE", "START", "STOP", "TIMEOUT", "UNTIL"},
         NEW inRule, inRule => root.inRule, NEW version
  PROVE  Parsed([failed |-> FALSE, version |-> version, rules |-> root.rules, inRule |-> inRule], text, k + 1)
<1> DEFINE then == [failed |-> FALSE, version |-> version, rules |-> root.rules, inRule |-> inRule]
<1>1. /\ then.failed = FALSE /\ then.version = version /\ then.rules = root.rules /\ then.inRule = inRule
      /\ then = [failed |-> FALSE, version |-> then.version, rules |-> then.rules, inRule |-> then.inRule]
  OBVIOUS
<1> HIDE DEF then
<1>2. /\ root.inRule => root.rules # << >>
      /\ IsList(root.rules) /\ Len(root.rules) = RulesIn(text, k)
      /\ \A i \in 1 .. Len(root.rules) : Says(text, LinesOf(text, i, k), root.rules[i])
  BY DEF Parsed
<1>3. RulesIn(text, k) \in Nat /\ RulesIn(text, k + 1) = RulesIn(text, k)
  BY RulesGrow DEF Grows
<1>4. ASSUME NEW i \in 1 .. Len(root.rules) PROVE Says(text, LinesOf(text, i, k + 1), root.rules[i])
  <2> DEFINE L == LinesOf(text, i, k)
             M == LinesOf(text, i, k + 1)
  <2>1. i \in Nat BY <1>2, <1>3
  <2>2. M = L \cup (IF i = RulesIn(text, k + 1) THEN {k + 1} ELSE {}) BY <2>1, LinesGrow
  <2>3. Says(text, L, root.rules[i]) BY <1>2
  <2> HIDE DEF L, M
  <2>4. CASE i = RulesIn(text, k + 1)
    <3>1. M = L \cup {k + 1} BY <2>2, <2>4
    <3>2. text[k + 1].keyword \notin {"START", "STOP", "TIMEOUT", "UNTIL"} OBVIOUS
    <3>3. Says(text, L \cup {k + 1}, root.rules[i]) BY <2>3, <3>2, SaysOn
    <3> QED BY <3>1, <3>3 DEF M
  <2>5. CASE i # RulesIn(text, k + 1)
    <3>1. M = L BY <2>2, <2>5
    <3> QED BY <2>3, <3>1 DEF M
  <2> QED BY <2>4, <2>5
<1>5. Parsed(then, text, k + 1) BY <1>1, <1>2, <1>3, <1>4 DEF Parsed
<1> QED BY <1>5 DEF then

\* RULE begins a rule, of which nothing has been said yet.
LEMMA RuleBegins ==
  ASSUME NEW text, NEW k \in Nat, NEW root, Parsed(root, text, k),
         text[k + 1].keyword = "RULE", NEW id
  PROVE  Parsed([root EXCEPT !.rules = Append(@, NewRule(id)), !.inRule = TRUE], text, k + 1)
<1> DEFINE rules == Append(root.rules, NewRule(id))
           then == [failed |-> FALSE, version |-> root.version, rules |-> rules, inRule |-> TRUE]
           n == Len(root.rules)
<1>1. /\ root = [failed |-> FALSE, version |-> root.version, rules |-> root.rules, inRule |-> root.inRule]
      /\ IsList(root.rules) /\ n = RulesIn(text, k)
      /\ \A i \in 1 .. n : Says(text, LinesOf(text, i, k), root.rules[i])
  BY DEF Parsed
<1>2. [root EXCEPT !.rules = Append(@, NewRule(id)), !.inRule = TRUE] = then
  <2>1. [root EXCEPT !.rules = Append(@, NewRule(id)), !.inRule = TRUE]
          = [root EXCEPT !.rules = rules, !.inRule = TRUE]
    OBVIOUS
  <2> HIDE DEF rules
  <2>2. [root EXCEPT !.rules = rules, !.inRule = TRUE] = then BY <1>1, RootChanged
  <2> QED BY <2>1, <2>2
<1>3. /\ IsList(rules) /\ Len(rules) = n + 1 /\ rules[n + 1] = NewRule(id)
      /\ \A i \in 1 .. n : rules[i] = root.rules[i]
  BY <1>1, ListAppends
<1> HIDE DEF rules
<1>4. /\ then.failed = FALSE /\ then.rules = rules /\ then.inRule = TRUE
      /\ then = [failed |-> FALSE, version |-> then.version, rules |-> then.rules, inRule |-> then.inRule]
  OBVIOUS
<1> HIDE DEF then, n
<1>5. n \in Nat /\ RulesIn(text, k + 1) = n + 1
  <2>1. n \in Nat BY <1>1, RulesGrow
  <2>2. Grows(text, k + 1) = 1 BY DEF Grows
  <2> QED BY <1>1, <2>1, <2>2, RulesGrow
<1>6. ASSUME NEW i \in 1 .. n + 1 PROVE Says(text, LinesOf(text, i, k + 1), rules[i])
  <2> DEFINE L == LinesOf(text, i, k)
             M == LinesOf(text, i, k + 1)
  <2>1. i \in Nat BY <1>5
  <2>2. M = L \cup (IF i = n + 1 THEN {k + 1} ELSE {}) /\ (i > n => L = {}) BY <1>1, <1>5, <2>1, LinesGrow
  <2> HIDE DEF L, M
  <2>3. CASE i = n + 1
    <3>1. i > n BY <1>5, <2>3
    <3>2. M = {k + 1} BY <2>2, <2>3, <3>1
    <3>3. ASSUME NEW w \in {"START", "STOP", "TIMEOUT", "UNTIL"} PROVE Named(text, M, w) = {}
      <4>1. {m \in {k + 1} : text[m].keyword = w} = {} OBVIOUS
      <4> QED BY <3>2, <4>1 DEF Named
    <3>4. << >> = [j \in 1 .. 0 |-> << >>[j]] /\ Len(<< >>) = 0 /\ DOMAIN << >> = {} OBVIOUS
    <3>5. IsList(<< >>) BY <3>4 DEF IsList
    <3>6. Range(<< >>) = {} BY <3>4 DEF Range
    <3> DEFINE new == NewRule(id)
    <3>7. /\ new = [id |-> new.id, on |-> new.on, start |-> new.start, until |-> new.until,
                    stop |-> new.stop, timeout |-> new.timeout]
          /\ new.on = << >> /\ new.start = << >> /\ new.until = << >>
          /\ new.stop = << >> /\ new.timeout = << >>
      BY DEF NewRule
    <3> HIDE DEF new
    <3>8. TypedRule(new) BY <3>4, <3>5, <3>7 DEF TypedRule
    <3>9. {UntilOf(c) : c \in Range(new.until)} = {} BY <3>6, <3>7
    <3>10. Says(text, M, new) BY <3>3, <3>6, <3>7, <3>8, <3>9 DEF Says
    <3> QED BY <1>3, <2>3, <3>10 DEF M, new
  <2>4. CASE i # n + 1
    <3>1. i \in 1 .. n BY <1>5, <2>4
    <3>2. M = L BY <2>2, <2>4
    <3>3. Says(text, L, root.rules[i]) BY <1>1, <3>1 DEF L
    <3> QED BY <1>3, <3>1, <3>2, <3>3 DEF M
  <2> QED BY <2>3, <2>4
<1>7. rules # << >>
  <2>1. Len(rules) # 0 BY <1>3, <1>5
  <2> QED BY <2>1
<1>8. Parsed(then, text, k + 1) BY <1>3, <1>4, <1>5, <1>6, <1>7 DEF Parsed
<1> QED BY <1>2, <1>8

\* A line inside a rule changes the rule begun last, to which it belongs.
LEMMA RuleChanges ==
  ASSUME NEW text, NEW k \in Nat, NEW root, Parsed(root, text, k), root.inRule,
         text[k + 1].keyword # "RULE", NEW rule,
         \A lines : Says(text, lines, Last(root.rules)) => Says(text, lines \cup {k + 1}, rule)
  PROVE  Parsed(SetRule(root, rule), text, k + 1)
<1> DEFINE old == root.rules
           rules == Append(Front(old), rule)
           then == [failed |-> FALSE, version |-> root.version, rules |-> rules, inRule |-> root.inRule]
           n == Len(old)
<1>1. /\ root = [failed |-> FALSE, version |-> root.version, rules |-> root.rules, inRule |-> root.inRule]
      /\ IsList(old) /\ old # << >> /\ n = RulesIn(text, k)
      /\ \A i \in 1 .. n : Says(text, LinesOf(text, i, k), old[i])
  BY DEF Parsed
<1>2. SetRule(root, rule) = then
  <2>1. SetRule(root, rule) = [root EXCEPT !.rules = rules] BY DEF SetRule
  <2> HIDE DEF rules
  <2>2. [root EXCEPT !.rules = rules] = then BY <1>1, RootChanged
  <2> QED BY <2>1, <2>2
<1>3. /\ IsList(rules) /\ Len(rules) = n /\ rules[n] = rule /\ rules # << >>
      /\ \A i \in 1 .. n : i # n => rules[i] = old[i]
      /\ Last(old) = old[n] /\ n \in 1 .. n
  BY <1>1, LastReplaced
<1> HIDE DEF rules
<1>4. /\ then.failed = FALSE /\ then.rules = rules
      /\ then = [failed |-> FALSE, version |-> then.version, rules |-> then.rules, inRule |-> then.inRule]
  OBVIOUS
<1> HIDE DEF then
<1>5. n \in Nat /\ RulesIn(text, k + 1) = n
  <2>1. RulesIn(text, k) \in Nat BY RulesGrow
  <2>2. Grows(text, k + 1) = 0 BY DEF Grows
  <2>3. RulesIn(text, k + 1) = RulesIn(text, k) + Grows(text, k + 1) BY RulesGrow
  <2> QED BY <1>1, <2>1, <2>2, <2>3
<1> HIDE DEF n
<1>6. ASSUME NEW i \in 1 .. n PROVE Says(text, LinesOf(text, i, k + 1), rules[i])
  <2> DEFINE L == LinesOf(text, i, k)
             M == LinesOf(text, i, k + 1)
  <2>1. i \in Nat BY <1>5
  <2>2. M = L \cup (IF i = n THEN {k + 1} ELSE {}) BY <1>5, <2>1, LinesGrow
  <2>3. Says(text, L, old[i]) BY <1>1
  <2> HIDE DEF L, M
  <2>4. CASE i = n
    <3>1. M = L \cup {k + 1} BY <2>2, <2>4
    <3>2. Says(text, L \cup {k + 1}, rule) BY <1>3, <2>3, <2>4
    <3> QED BY <1>3, <2>4, <3>1, <3>2 DEF M
  <2>5. CASE i # n
    <3>1. M = L BY <2>2, <2>5
    <3> QED BY <1>3, <2>3, <2>5, <3>1 DEF M
  <2> QED BY <2>4, <2>5
<1>7. Parsed(then, text, k + 1) BY <1>3, <1>4, <1>5, <1>6 DEF Parsed
<1> QED BY <1>2, <1>7

LEMMA ParseLineKeeps ==
  ASSUME NEW text, TypedText(text), NEW k \in Nat, k + 1 <= Len(text),
         NEW root, Parsed(root, text, k)
  PROVE  LET next == ParseLine(root, text[k + 1]) IN next.failed = TRUE \/ Parsed(next, text, k + 1)
<1> DEFINE line == text[k + 1]
           next == ParseLine(root, line)
           Done == next.failed = TRUE \/ Parsed(next, text, k + 1)
<1> SUFFICES Done OBVIOUS
<1>1. Failed.failed = TRUE BY DEF Failed, NoText
<1>2. root = [failed |-> FALSE, version |-> root.version, rules |-> root.rules, inRule |-> root.inRule]
  BY DEF Parsed
<1>3. ~root.failed BY <1>2
<1>4. IsList(line.payload)
  <2>1. Len(text) \in Nat /\ DOMAIN text = 1 .. Len(text) BY ListIsSeq DEF TypedText
  <2>2. k + 1 \in DOMAIN text BY <2>1
  <2> QED BY <2>2 DEF TypedText
<1>5. CASE line.keyword \in {"VERSION", "ACTOR", "RULE", "END"}
  <2>1. next = ParseHeader(root, line) BY <1>3, <1>5 DEF ParseLine
  <2>2. CASE line.keyword = "END"
    <3>1. next = [root EXCEPT !.inRule = FALSE] BY <2>1, <2>2 DEF ParseHeader
    <3>2. next = [failed |-> FALSE, version |-> root.version, rules |-> root.rules, inRule |-> FALSE]
      BY <1>2, <3>1, RootChanged
    <3>3. line.keyword \notin {"RULE", "START", "STOP", "TIMEOUT", "UNTIL"} BY <2>2
    <3> DEFINE then == [failed |-> FALSE, version |-> root.version, rules |-> root.rules,
                        inRule |-> FALSE]
    <3>4. Parsed(then, text, k + 1) BY <3>3, SameRules
    <3> HIDE DEF next, then
    <3> QED BY <3>2, <3>4 DEF then
  <2>3. CASE line.keyword = "RULE" /\ line.payload # << >>
    <3>1. next = [root EXCEPT !.rules = Append(@, NewRule(Head(line.payload))), !.inRule = TRUE]
      BY <2>1, <2>3 DEF ParseHeader
    <3> DEFINE then == [root EXCEPT !.rules = Append(@, NewRule(Head(line.payload))), !.inRule = TRUE]
    <3>2. Parsed(then, text, k + 1) BY <2>3, RuleBegins
    <3> HIDE DEF next, then
    <3> QED BY <3>1, <3>2 DEF then
  <2>4. CASE line.keyword = "VERSION" /\ line.payload # << >>
    <3>1. next = [root EXCEPT !.version = Head(line.payload)] BY <2>1, <2>4 DEF ParseHeader
    <3>2. next = [failed |-> FALSE, version |-> Head(line.payload), rules |-> root.rules, inRule |-> root.inRule]
      BY <1>2, <3>1, RootChanged
    <3>3. line.keyword \notin {"RULE", "START", "STOP", "TIMEOUT", "UNTIL"} BY <2>4
    <3> DEFINE then == [failed |-> FALSE, version |-> Head(line.payload), rules |-> root.rules,
                        inRule |-> root.inRule]
    <3>4. Parsed(then, text, k + 1) BY <3>3, SameRules
    <3> HIDE DEF next, then
    <3> QED BY <3>2, <3>4 DEF then
  <2>5. CASE line.keyword = "ACTOR" /\ line.payload # << >>
    <3>1. next = root BY <2>1, <2>5 DEF ParseHeader
    <3>2. next = [failed |-> FALSE, version |-> root.version, rules |-> root.rules, inRule |-> root.inRule]
      BY <1>2, <3>1
    <3>3. line.keyword \notin {"RULE", "START", "STOP", "TIMEOUT", "UNTIL"} BY <2>5
    <3> DEFINE then == [failed |-> FALSE, version |-> root.version, rules |-> root.rules,
                        inRule |-> root.inRule]
    <3>4. Parsed(then, text, k + 1) BY <3>3, SameRules
    <3> HIDE DEF next, then
    <3> QED BY <3>2, <3>4 DEF then
  <2>6. CASE line.keyword # "END" /\ line.payload = << >>
    <3>1. next = Failed BY <2>1, <2>6 DEF ParseHeader
    <3> QED BY <1>1, <3>1
  <2> QED BY <1>5, <2>2, <2>3, <2>4, <2>5, <2>6
<1>6. CASE line.keyword \notin {"VERSION", "ACTOR", "RULE", "END"} /\ ~root.inRule
  <2>1. next = Failed BY <1>3, <1>6 DEF ParseLine
  <2> QED BY <1>1, <2>1
<1>7. CASE line.keyword \notin {"VERSION", "ACTOR", "RULE", "END"} /\ root.inRule
  <2> DEFINE rule == Last(root.rules)
  <2>1. next = ParseInRule(root, line) BY <1>3, <1>7 DEF ParseLine
  <2>2. CASE line.keyword = "ON" /\ line.payload # << >>
    <3> DEFINE new == [rule EXCEPT !.on = line.payload]
    <3>1. next = SetRule(root, new) BY <2>1, <2>2 DEF ParseInRule
    <3>2. ASSUME NEW lines, Says(text, lines, rule) PROVE Says(text, lines \cup {k + 1}, new)
      <4>1. Says(text, lines \cup {k + 1}, rule) BY <2>2, <3>2, SaysOn
      <4>2. rule = [id |-> rule.id, on |-> rule.on, start |-> rule.start, until |-> rule.until,
                   stop |-> rule.stop, timeout |-> rule.timeout]
        BY <4>1 DEF Says
      <4> HIDE DEF rule
      <4>3. /\ new = [id |-> rule.id, on |-> line.payload, start |-> rule.start, until |-> rule.until,
                      stop |-> rule.stop, timeout |-> rule.timeout]
        BY <4>2
      <4> HIDE DEF new
      <4>4. /\ new.id = rule.id /\ new.on = line.payload /\ new.start = rule.start
            /\ new.until = rule.until /\ new.stop = rule.stop /\ new.timeout = rule.timeout
        BY <4>3
      <4>5. TypedRule(new) BY <1>4, <4>1, <4>4 DEF Says, TypedRule
      <4> QED BY <4>1, <4>3, <4>4, <4>5 DEF Says
    <3>3. line.keyword # "RULE" BY <2>2
    <3> HIDE DEF next, new
    <3>4. Parsed(SetRule(root, new), text, k + 1) BY <1>7, <3>2, <3>3, RuleChanges
    <3> QED BY <3>1, <3>4
  <2>3. ASSUME NEW block, <<line.keyword, block>> \in Blocks
        PROVE  Done
    <3> DEFINE new == [rule EXCEPT ![block] = Append(@, Head(line.payload))]
    <3>1. next = AppendAction(root, block, line.payload) BY <2>1, <2>3 DEF ParseInRule, Blocks
    <3>2. next = Failed \/ next = SetRule(root, new) BY <3>1 DEF AppendAction
    <3>3. CASE next = Failed BY <1>1, <3>3
    <3>4. CASE next = SetRule(root, new)
      <4>1. ASSUME NEW lines, Says(text, lines, rule) PROVE Says(text, lines \cup {k + 1}, new)
        <5> HIDE DEF rule
        <5> DEFINE m == k + 1
        <5>1. new = Grown(rule, block, Head(text[m].payload)) BY DEF Grown
        <5>2. <<text[m].keyword, block>> \in Blocks
          BY <2>3
        <5> HIDE DEF new, m
        <5>3. Says(text, lines \cup {m}, new) BY <4>1, <5>1, <5>2, SaysAction
        <5> QED BY <5>3 DEF m
      <4>2. line.keyword # "RULE" BY <1>7
      <4> HIDE DEF next, new
      <4>3. Parsed(SetRule(root, new), text, k + 1) BY <1>7, <4>1, <4>2, RuleChanges
      <4> QED BY <3>4, <4>3
    <3> QED BY <3>2, <3>3, <3>4
  <2>4. CASE line.keyword = "UNTIL"
    <3> DEFINE p == line.payload
               grown(cond) == [rule EXCEPT !.until = Append(@, cond)]
    <3>1. next = ParseUntil(root, p) BY <2>1, <2>4 DEF ParseInRule
    <3>2. ASSUME NEW cond, cond.kind \in {"on", "timeout"}, cond.priority \in Int,
                 UntilOf(cond) = Head(p), next = SetRule(root, grown(cond))
          PROVE  Done
      <4>1. ASSUME NEW lines, Says(text, lines, rule) PROVE Says(text, lines \cup {k + 1}, grown(cond))
        <5> HIDE DEF rule
        <5> QED BY <2>4, <3>2, <4>1, SaysUntil
      <4>2. line.keyword # "RULE" BY <2>4
      <4>3. next = SetRule(root, grown(cond)) BY <3>2
      <4> HIDE DEF next, grown
      <4>4. Parsed(SetRule(root, grown(cond)), text, k + 1) BY <1>7, <4>1, <4>2, RuleChanges
      <4> QED BY <4>3, <4>4
    <3>3. CASE Len(p) >= 2 /\ Head(p) = "ON"
      <4> DEFINE cond == OnCond(p[2], 0)
      <4>1. next = SetRule(root, grown(cond)) BY <3>1, <3>3 DEF ParseUntil
      <4>2. cond.kind = "on" /\ cond.priority = 0 BY DEF OnCond
      <4>3. UntilOf(cond) = Head(p) BY <3>3, <4>2 DEF UntilOf
      <4>4. cond.kind \in {"on", "timeout"} /\ cond.priority \in Int BY <4>2
      <4> HIDE DEF cond, next, grown, Done
      <4> QED BY <3>2, <4>1, <4>3, <4>4
    <3>4. CASE ~(Len(p) >= 2 /\ Head(p) = "ON") /\ Len(p) = 2 /\ Head(p) = "TIMEOUT"
      <4> DEFINE cond == TimeoutCond(p[2], 0)
      <4>1. next = SetRule(root, grown(cond)) BY <3>1, <3>4 DEF ParseUntil
      <4>2. cond.kind = "timeout" /\ cond.priority = 0 BY DEF TimeoutCond
      <4>3. UntilOf(cond) = Head(p) BY <3>4, <4>2 DEF UntilOf
      <4>4. cond.kind \in {"on", "timeout"} /\ cond.priority \in Int BY <4>2
      <4> HIDE DEF cond, next, grown, Done
      <4> QED BY <3>2, <4>1, <4>3, <4>4
    <3>5. CASE ~(Len(p) >= 2 /\ Head(p) = "ON") /\ ~(Len(p) = 2 /\ Head(p) = "TIMEOUT")
      <4>1. next = Failed BY <3>1, <3>5 DEF ParseUntil
      <4> QED BY <1>1, <4>1
    <3> QED BY <3>3, <3>4, <3>5
  <2>5. CASE \/ line.keyword \notin {"ON", "START", "STOP", "TIMEOUT", "UNTIL"}
             \/ line.keyword = "ON" /\ line.payload = << >>
    <3>1. next = Failed BY <2>1, <2>5 DEF ParseInRule
    <3> QED BY <1>1, <3>1
  <2>6. CASE line.keyword = "START"
    <3>1. <<line.keyword, "start">> \in Blocks BY <2>6 DEF Blocks
    <3> HIDE DEF Done
    <3> QED BY <2>3, <3>1
  <2>7. CASE line.keyword = "STOP"
    <3>1. <<line.keyword, "stop">> \in Blocks BY <2>7 DEF Blocks
    <3> HIDE DEF Done
    <3> QED BY <2>3, <3>1
  <2>8. CASE line.keyword = "TIMEOUT"
    <3>1. <<line.keyword, "timeout">> \in Blocks BY <2>8 DEF Blocks
    <3> HIDE DEF Done
    <3> QED BY <2>3, <3>1
  <2> QED BY <2>2, <2>4, <2>5, <2>6, <2>7, <2>8
<1> QED BY <1>5, <1>6, <1>7

\* What the parser makes of a text has failed, or says rule by rule what the lines of
\* that rule say, for every text (parse_dsl).
THEOREM ParseSays ==
  ASSUME NEW text, TypedText(text), ~ParseDsl(text).failed
  PROVE  Parsed(ParseDsl(text), text, Len(text))
<1> DEFINE n == Len(text)
<1>1. PICK f : /\ f[0] = NoText
               /\ \A k \in 1 .. n : f[k] = ParseLine(f[k - 1], text[k])
               /\ ParseDsl(text) = IF f[n].rules = << >> THEN Failed ELSE f[n]
  BY ParseRuns
<1>2. n \in Nat BY ListIsSeq DEF TypedText
<1> HIDE DEF n
<1> DEFINE S == {k \in Nat : k <= n => f[k].failed = TRUE \/ Parsed(f[k], text, k)}
<1>3. 0 \in S
  <2>1. RulesIn(text, 0) = 0 BY RulesGrow
  <2>2. << >> = [j \in 1 .. 0 |-> << >>[j]] /\ Len(<< >>) = 0 OBVIOUS
  <2>3. IsList(<< >>) BY <2>2 DEF IsList
  <2>4. /\ NoText.rules = << >> /\ NoText.inRule = FALSE
        /\ NoText = [failed |-> FALSE, version |-> NoText.version, rules |-> NoText.rules, inRule |-> NoText.inRule]
    BY DEF NoText
  <2>5. Parsed(NoText, text, 0) BY <2>1, <2>2, <2>3, <2>4 DEF Parsed
  <2> QED BY <1>1, <2>5
<1>4. ASSUME NEW k \in Nat, k \in S PROVE k + 1 \in S
  <2> DEFINE Done == f[k + 1].failed = TRUE \/ Parsed(f[k + 1], text, k + 1)
  <2> SUFFICES ASSUME k + 1 <= n PROVE Done
    <3> HIDE DEF n
    <3>1. k + 1 \in Nat OBVIOUS
    <3> QED BY <3>1
  <2>1. k + 1 \in 1 .. n /\ (k + 1) - 1 = k /\ k <= n BY <1>2
  <2>2. f[k + 1] = ParseLine(f[k], text[k + 1]) BY <1>1, <2>1
  <2>3. CASE f[k].failed = TRUE
    <3>1. f[k + 1] = f[k] BY <2>2, <2>3 DEF ParseLine
    <3> QED BY <2>3, <3>1
  <2>4. CASE Parsed(f[k], text, k)
    <3>1. k + 1 <= Len(text) BY DEF n
    <3> QED BY <2>2, <2>4, <3>1, ParseLineKeeps
  <2> QED BY <1>4, <2>1, <2>3, <2>4
<1> HIDE DEF S
<1>5. n \in S BY <1>2, <1>3, <1>4, SetInduction
<1>6. f[n].failed = TRUE \/ Parsed(f[n], text, n) BY <1>2, <1>5 DEF S
<1>7. ParseDsl(text) = f[n] BY <1>1 DEF Failed, NoText
<1> QED BY <1>6, <1>7 DEF n

-----------------------------------------------------------------------------
(* The compiler: the nodes of a rule in their order, and where each leads. *)

LEMMA FunctionIsList ==
  ASSUME NEW n \in Nat, NEW f, f = [i \in 1 .. n |-> f[i]]
  PROVE  IsList(f) /\ Len(f) = n /\ DOMAIN f = 1 .. n
<1>1. DOMAIN f = 1 .. n OBVIOUS
<1>2. \A i \in 1 .. n : f[i] \in Range(f) BY <1>1 DEF Range
<1>3. f \in [1 .. n -> Range(f)] BY <1>2
<1>4. f \in Seq(Range(f)) BY <1>3, SeqDef
<1>5. IsList(f) /\ DOMAIN f = 1 .. Len(f) /\ Len(f) \in Nat BY <1>4, SeqIsList, LenProperties
<1>6. Len(f) = n
  <2>1. 1 .. n = 1 .. Len(f) BY <1>1, <1>5
  <2>2. n # 0 => n \in 1 .. Len(f) BY <2>1
  <2>3. Len(f) # 0 => Len(f) \in 1 .. n BY <1>5, <2>1
  <2> QED BY <1>5, <2>2, <2>3
<1> QED BY <1>1, <1>5, <1>6

LEMMA OneIsList == ASSUME NEW x PROVE IsList(<<x>>) /\ Len(<<x>>) = 1 /\ <<x>>[1] = x
<1>1. <<x>> \in Seq({x}) OBVIOUS
<1> QED BY <1>1, SeqIsList

LEMMA SixLists ==
  ASSUME NEW a, NEW b, NEW c, NEW d, NEW e, NEW f,
         IsList(a), IsList(b), IsList(c), IsList(d), IsList(e), IsList(f)
  PROVE  LET w == a \o b \o c \o d \o e \o f
         IN /\ IsList(w)
            /\ Len(w) = Len(a) + Len(b) + Len(c) + Len(d) + Len(e) + Len(f)
            /\ \A i \in 1 .. Len(a) : w[i] = a[i]
            /\ \A i \in 1 .. Len(b) : w[Len(a) + i] = b[i]
            /\ \A i \in 1 .. Len(c) : w[Len(a) + Len(b) + i] = c[i]
            /\ \A i \in 1 .. Len(d) : w[Len(a) + Len(b) + Len(c) + i] = d[i]
            /\ \A i \in 1 .. Len(e) : w[Len(a) + Len(b) + Len(c) + Len(d) + i] = e[i]
            /\ \A i \in 1 .. Len(f) : w[Len(a) + Len(b) + Len(c) + Len(d) + Len(e) + i] = f[i]
<1> DEFINE s == a \o b
           t == s \o c
           u == t \o d
           v == u \o e
           w == v \o f
<1>0. /\ Len(a) \in Nat /\ Len(b) \in Nat /\ Len(c) \in Nat
      /\ Len(d) \in Nat /\ Len(e) \in Nat /\ Len(f) \in Nat
  BY ListIsSeq
<1>1. /\ IsList(s) /\ Len(s) = Len(a) + Len(b)
      /\ \A i \in 1 .. Len(a) : s[i] = a[i]
      /\ \A i \in 1 .. Len(b) : s[Len(a) + i] = b[i]
  BY ListsJoin
<1> HIDE DEF s
<1>1a. IsList(s) BY <1>1
<1>2. /\ IsList(t) /\ Len(t) = Len(s) + Len(c)
      /\ \A i \in 1 .. Len(s) : t[i] = s[i]
      /\ \A i \in 1 .. Len(c) : t[Len(s) + i] = c[i]
  BY <1>1a, ListsJoin
<1> HIDE DEF t
<1>2a. IsList(t) BY <1>2
<1>3. /\ IsList(u) /\ Len(u) = Len(t) + Len(d)
      /\ \A i \in 1 .. Len(t) : u[i] = t[i]
      /\ \A i \in 1 .. Len(d) : u[Len(t) + i] = d[i]
  BY <1>2a, ListsJoin
<1> HIDE DEF u
<1>3a. IsList(u) BY <1>3
<1>4. /\ IsList(v) /\ Len(v) = Len(u) + Len(e)
      /\ \A i \in 1 .. Len(u) : v[i] = u[i]
      /\ \A i \in 1 .. Len(e) : v[Len(u) + i] = e[i]
  BY <1>3a, ListsJoin
<1> HIDE DEF v
<1>4a. IsList(v) BY <1>4
<1>5. /\ IsList(w) /\ Len(w) = Len(v) + Len(f)
      /\ \A i \in 1 .. Len(v) : w[i] = v[i]
      /\ \A i \in 1 .. Len(f) : w[Len(v) + i] = f[i]
  BY <1>4a, ListsJoin
<1> HIDE DEF w
<1> DEFINE A == Len(a)
           B == Len(b)
           C == Len(c)
           D == Len(d)
           E == Len(e)
           F == Len(f)
<1>6. /\ A \in Nat /\ B \in Nat /\ C \in Nat /\ D \in Nat /\ E \in Nat /\ F \in Nat
      /\ Len(s) = A + B /\ Len(t) = A + B + C /\ Len(u) = A + B + C + D
      /\ Len(v) = A + B + C + D + E /\ Len(w) = A + B + C + D + E + F
  BY <1>0, <1>1, <1>2, <1>3, <1>4, <1>5
<1> HIDE DEF A, B, C, D, E, F
<1>7. \A i \in 1 .. A + B + C + D : w[i] = u[i]
  <2>1. \A i \in 1 .. A + B + C + D : i \in 1 .. Len(u) /\ i \in 1 .. Len(v) BY <1>6
  <2> QED BY <1>4, <1>5, <2>1
<1>8. \A i \in 1 .. A + B : w[i] = s[i]
  <2>1. \A i \in 1 .. A + B : i \in 1 .. Len(s) /\ i \in 1 .. Len(t) /\ i \in 1 .. A + B + C + D BY <1>6
  <2> QED BY <1>2, <1>3, <1>7, <2>1
<1>9. ASSUME NEW i \in 1 .. A PROVE w[i] = a[i]
  <2>1. i \in 1 .. A + B BY <1>6
  <2> QED BY <1>1, <1>8, <2>1 DEF A
<1>10. ASSUME NEW i \in 1 .. B PROVE w[A + i] = b[i]
  <2>1. A + i \in 1 .. A + B BY <1>6
  <2>2. s[A + i] = b[i] BY <1>1 DEF A, B
  <2> QED BY <1>8, <2>1, <2>2
<1>11. ASSUME NEW i \in 1 .. C PROVE w[A + B + i] = c[i]
  <2>1. A + B + i \in 1 .. A + B + C + D /\ A + B + i \in 1 .. Len(t) BY <1>6
  <2>2. t[Len(s) + i] = c[i] BY <1>2 DEF C
  <2> QED BY <1>3, <1>6, <1>7, <2>1, <2>2
<1>12. ASSUME NEW i \in 1 .. D PROVE w[A + B + C + i] = d[i]
  <2>1. A + B + C + i \in 1 .. A + B + C + D BY <1>6
  <2>2. u[Len(t) + i] = d[i] BY <1>3 DEF D
  <2> QED BY <1>6, <1>7, <2>1, <2>2
<1>13. ASSUME NEW i \in 1 .. E PROVE w[A + B + C + D + i] = e[i]
  <2>1. A + B + C + D + i \in 1 .. Len(v) BY <1>6
  <2>2. v[Len(u) + i] = e[i] BY <1>4 DEF E
  <2> QED BY <1>5, <1>6, <2>1, <2>2
<1>14. ASSUME NEW i \in 1 .. F PROVE w[A + B + C + D + E + i] = f[i]
  <2>1. w[Len(v) + i] = f[i] BY <1>5 DEF F
  <2> QED BY <1>6, <2>1
<1>15. w = a \o b \o c \o d \o e \o f BY DEF w, v, u, t, s
<1>16. IsList(w) BY <1>5
<1> QED BY <1>6, <1>9, <1>10, <1>11, <1>12, <1>13, <1>14, <1>15, <1>16 DEF A, B, C, D, E, F

\* Each action of a chain is followed by the next, the last one by the exit.
LEMMA ChainGoesOn ==
  ASSUME NEW actions, IsList(actions), NEW ids, IsList(ids), Len(ids) = Len(actions), NEW exit
  PROVE  /\ IsList(Chain(ids, actions, exit)) /\ Len(Chain(ids, actions, exit)) = Len(actions)
         /\ \A i \in 1 .. Len(actions) :
              Chain(ids, actions, exit)[i] =
                ActionNode(ids[i], actions[i],
                           <<Transition("ok", IF i = Len(actions) THEN exit ELSE ids[i + 1])>>)
<1> DEFINE n == Len(actions)
           c == Chain(ids, actions, exit)
           node(i) == ActionNode(ids[i], actions[i], <<Transition("ok", Append(ids, exit)[i + 1])>>)
<1>1. n \in Nat /\ DOMAIN actions = 1 .. n BY ListIsSeq
<1>2. c = [i \in 1 .. n |-> node(i)] BY <1>1 DEF Chain
<1> HIDE DEF n
<1>3. \A i \in 1 .. n : c[i] = node(i) BY <1>2
<1>4. c = [i \in 1 .. n |-> c[i]] BY <1>2, <1>3
<1>5. IsList(c) /\ Len(c) = n BY <1>1, <1>4, FunctionIsList
<1>6. ASSUME NEW i \in 1 .. n
      PROVE  Append(ids, exit)[i + 1] = IF i = n THEN exit ELSE ids[i + 1]
  <2>1. Len(ids) = n BY DEF n
  <2>2. /\ \A j \in 1 .. n : Append(ids, exit)[j] = ids[j]
        /\ Append(ids, exit)[n + 1] = exit
    BY <2>1, ListAppends
  <2>3. i # n => i + 1 \in 1 .. n BY <1>1
  <2> QED BY <2>2, <2>3
<1>7. \A i \in 1 .. n :
        c[i] = ActionNode(ids[i], actions[i], <<Transition("ok", IF i = n THEN exit ELSE ids[i + 1])>>)
  BY <1>3, <1>6
<1> HIDE DEF c
<1> QED BY <1>5, <1>7 DEF c, n

\* Where the nodes of a rule are: its entry is the first, then its START actions.
Stops(rule) == OrDefault(rule.stop)
TimeoutStops(rule) == OrDefault(rule.timeout)
StopAt(rule) == Len(rule.start) + 2
TimeoutAt(rule) == StopAt(rule) + Len(Stops(rule))
DoneAt(rule) == TimeoutAt(rule) + Len(TimeoutStops(rule)) + 1

LEMMA Layout ==
  ASSUME NEW rule, TypedRule(rule), RuleCompiles(rule)
  PROVE  /\ IsList(rule.start) /\ Len(rule.start) \in Nat \ {0}
         /\ IsList(Stops(rule)) /\ Len(Stops(rule)) \in Nat \ {0}
         /\ IsList(TimeoutStops(rule)) /\ Len(TimeoutStops(rule)) \in Nat \ {0}
<1>1. IsList(rule.start) /\ rule.start # << >> BY DEF TypedRule, RuleCompiles
<1>2. ASSUME NEW s, IsList(s), s # << >> PROVE Len(s) \in Nat \ {0}
  <2>1. s \in Seq(Range(s)) BY <1>2, ListIsSeq
  <2> QED BY <1>2, <2>1, EmptySeq
<1>3. ASSUME NEW s, IsList(s) PROVE IsList(OrDefault(s)) /\ OrDefault(s) # << >>
  <2>1. IsList(<<"stepper.stop">>) BY OneIsList
  <2>2. <<"stepper.stop">> # << >> OBVIOUS
  <2> QED BY <1>3, <2>1, <2>2 DEF OrDefault
<1>4. IsList(rule.stop) /\ IsList(rule.timeout) BY DEF TypedRule
<1>5. IsList(Stops(rule)) /\ Stops(rule) # << >> BY <1>3, <1>4 DEF Stops
<1>6. IsList(TimeoutStops(rule)) /\ TimeoutStops(rule) # << >> BY <1>3, <1>4 DEF TimeoutStops
<1> QED BY <1>1, <1>2, <1>5, <1>6

\* A node that does one action and goes on.
Does(node, action, to) ==
  /\ node.kind = "ACTION" /\ node.action = action
  /\ node.transitions = <<Transition("ok", to)>>

LEMMA RuleCompiled ==
  ASSUME NEW rule, TypedRule(rule), RuleCompiles(rule)
  PROVE  LET B == CompileRule(rule)
             p == Prefix(rule)
         IN /\ IsList(B) /\ Len(B) = DoneAt(rule)
            /\ B[1] = WaitEventNode(p \o <<"wait", "start">>, rule.on, <<Transition("ok", B[2].id)>>)
            /\ \A k \in 1 .. Len(rule.start) : Does(B[1 + k], rule.start[k], B[1 + k + 1].id)
            /\ B[StopAt(rule)] = WaitMultiNode(p \o <<"wait", "stop">>, CompileUntil(p, rule.until))
            /\ \A k \in 1 .. Len(Stops(rule)) :
                 Does(B[StopAt(rule) + k], Stops(rule)[k],
                      IF k = Len(Stops(rule)) THEN B[DoneAt(rule)].id ELSE B[StopAt(rule) + k + 1].id)
            /\ \A k \in 1 .. Len(TimeoutStops(rule)) :
                 Does(B[TimeoutAt(rule) + k], TimeoutStops(rule)[k], B[TimeoutAt(rule) + k + 1].id)
            /\ B[DoneAt(rule)] = EndNode(p \o <<"done">>)
            /\ B[StopAt(rule) + 1].id = p \o <<"stop">>
            /\ B[TimeoutAt(rule) + 1].id = p \o <<"timeout">>
<1> DEFINE B == CompileRule(rule)
           p == Prefix(rule)
           done == p \o <<"done">>
           waits == p \o <<"wait", "stop">>
           S == Len(rule.start)
           T == Len(Stops(rule))
           M == Len(TimeoutStops(rule))
           startIds == StartIds(p, S)
           stopIds == ChainIds(p, "stop", T)
           timeoutIds == ChainIds(p, "timeout", M)
           first == WaitEventNode(p \o <<"wait", "start">>, rule.on, <<Transition("ok", startIds[1])>>)
           multi == WaitMultiNode(waits, CompileUntil(p, rule.until))
           b == Chain(startIds, rule.start, waits)
           d == Chain(stopIds, Stops(rule), done)
           e == Chain(timeoutIds, TimeoutStops(rule), done)
<1>1. B = <<first>> \o b \o <<multi>> \o d \o e \o <<EndNode(done)>>
  BY DEF CompileRule, Stops, TimeoutStops
<1>2. /\ IsList(rule.start) /\ S \in Nat /\ S # 0
      /\ IsList(Stops(rule)) /\ T \in Nat /\ T # 0
      /\ IsList(TimeoutStops(rule)) /\ M \in Nat /\ M # 0
  BY Layout
<1> HIDE DEF S, T, M
<1>3. /\ IsList(startIds) /\ Len(startIds) = S
      /\ IsList(stopIds) /\ Len(stopIds) = T
      /\ IsList(timeoutIds) /\ Len(timeoutIds) = M
  <2>1. startIds = [i \in 1 .. S |-> startIds[i]] BY DEF StartIds
  <2>2. stopIds = [i \in 1 .. T |-> stopIds[i]] BY DEF ChainIds
  <2>3. timeoutIds = [i \in 1 .. M |-> timeoutIds[i]] BY DEF ChainIds
  <2> HIDE DEF startIds, stopIds, timeoutIds
  <2> QED BY <1>2, <2>1, <2>2, <2>3, FunctionIsList
<1>4. stopIds[1] = p \o <<"stop">> /\ timeoutIds[1] = p \o <<"timeout">>
  <2>1. 1 \in 1 .. T /\ 1 \in 1 .. M BY <1>2
  <2> QED BY <2>1 DEF ChainIds
<1> HIDE DEF startIds, stopIds, timeoutIds, done, waits
<1>5. /\ IsList(b) /\ Len(b) = S
      /\ \A i \in 1 .. S : b[i] = ActionNode(startIds[i], rule.start[i],
                                <<Transition("ok", IF i = S THEN waits ELSE startIds[i + 1])>>)
  <2>1. Len(startIds) = Len(rule.start) BY <1>3 DEF S
  <2> QED BY <1>2, <1>3, <2>1, ChainGoesOn DEF S
<1>6. /\ IsList(d) /\ Len(d) = T
      /\ \A i \in 1 .. T : d[i] = ActionNode(stopIds[i], Stops(rule)[i],
                                <<Transition("ok", IF i = T THEN done ELSE stopIds[i + 1])>>)
  <2>1. Len(stopIds) = Len(Stops(rule)) BY <1>3 DEF T
  <2> QED BY <1>2, <1>3, <2>1, ChainGoesOn DEF T
<1>7. /\ IsList(e) /\ Len(e) = M
      /\ \A i \in 1 .. M : e[i] = ActionNode(timeoutIds[i], TimeoutStops(rule)[i],
                                <<Transition("ok", IF i = M THEN done ELSE timeoutIds[i + 1])>>)
  <2>1. Len(timeoutIds) = Len(TimeoutStops(rule)) BY <1>3 DEF M
  <2> QED BY <1>2, <1>3, <2>1, ChainGoesOn DEF M
<1> HIDE DEF b, d, e
<1> DEFINE x == <<first>>
           y == <<multi>>
           z == <<EndNode(done)>>
<1>8. /\ IsList(x) /\ Len(x) = 1 /\ x[1] = first
      /\ IsList(y) /\ Len(y) = 1 /\ y[1] = multi
      /\ IsList(z) /\ Len(z) = 1 /\ z[1] = EndNode(done)
  BY OneIsList
<1>9. B = x \o b \o y \o d \o e \o z BY <1>1
<1> HIDE DEF x, y, z, first, multi, B
<1>10. /\ IsList(B)
       /\ Len(B) = Len(x) + Len(b) + Len(y) + Len(d) + Len(e) + Len(z)
       /\ \A i \in 1 .. Len(x) : B[i] = x[i]
       /\ \A i \in 1 .. Len(b) : B[Len(x) + i] = b[i]
       /\ \A i \in 1 .. Len(y) : B[Len(x) + Len(b) + i] = y[i]
       /\ \A i \in 1 .. Len(d) : B[Len(x) + Len(b) + Len(y) + i] = d[i]
       /\ \A i \in 1 .. Len(e) : B[Len(x) + Len(b) + Len(y) + Len(d) + i] = e[i]
       /\ \A i \in 1 .. Len(z) : B[Len(x) + Len(b) + Len(y) + Len(d) + Len(e) + i] = z[i]
  <2>1. /\ IsList(x) /\ IsList(b) /\ IsList(y) /\ IsList(d) /\ IsList(e) /\ IsList(z)
    BY <1>5, <1>6, <1>7, <1>8
  <2> DEFINE w == x \o b \o y \o d \o e \o z
  <2>2. /\ IsList(w)
        /\ Len(w) = Len(x) + Len(b) + Len(y) + Len(d) + Len(e) + Len(z)
        /\ \A i \in 1 .. Len(x) : w[i] = x[i]
        /\ \A i \in 1 .. Len(b) : w[Len(x) + i] = b[i]
        /\ \A i \in 1 .. Len(y) : w[Len(x) + Len(b) + i] = y[i]
        /\ \A i \in 1 .. Len(d) : w[Len(x) + Len(b) + Len(y) + i] = d[i]
        /\ \A i \in 1 .. Len(e) : w[Len(x) + Len(b) + Len(y) + Len(d) + i] = e[i]
        /\ \A i \in 1 .. Len(z) : w[Len(x) + Len(b) + Len(y) + Len(d) + Len(e) + i] = z[i]
    BY <2>1, SixLists
  <2>3. B = w BY <1>9
  <2> HIDE DEF w
  <2> QED BY <2>2, <2>3
<1>11. /\ StopAt(rule) = S + 2 /\ TimeoutAt(rule) = S + 2 + T /\ DoneAt(rule) = S + 2 + T + M + 1
  BY DEF StopAt, TimeoutAt, DoneAt, S, T, M
<1>12. Len(x) = 1 /\ Len(y) = 1 /\ Len(z) = 1 /\ Len(b) = S /\ Len(d) = T /\ Len(e) = M
  BY <1>5, <1>6, <1>7, <1>8
<1>13. Len(B) = S + 2 + T + M + 1
  <2>1. Len(B) = 1 + S + 1 + T + M + 1 BY <1>10, <1>12
  <2> QED BY <1>2, <2>1
<1>14. B[1] = first
  <2>1. 1 \in 1 .. Len(x) BY <1>12
  <2> QED BY <1>8, <1>10, <2>1
<1>15. \A k \in 1 .. S : B[1 + k] = b[k] BY <1>10, <1>12
<1>16. B[S + 2] = multi
  <2>1. 1 \in 1 .. Len(y) /\ Len(x) + Len(b) + 1 = S + 2 BY <1>2, <1>12
  <2>2. B[Len(x) + Len(b) + 1] = y[1] BY <1>10, <2>1
  <2> QED BY <1>8, <2>1, <2>2
<1>17. \A k \in 1 .. T : B[S + 2 + k] = d[k]
  <2>1. \A k \in 1 .. T : Len(x) + Len(b) + Len(y) + k = S + 2 + k BY <1>2, <1>12
  <2> QED BY <1>10, <1>12, <2>1
<1>18. \A k \in 1 .. M : B[S + 2 + T + k] = e[k]
  <2>1. \A k \in 1 .. M : Len(x) + Len(b) + Len(y) + Len(d) + k = S + 2 + T + k BY <1>2, <1>12
  <2> QED BY <1>10, <1>12, <2>1
<1>19. B[S + 2 + T + M + 1] = EndNode(done)
  <2>1. 1 \in 1 .. Len(z) /\ Len(x) + Len(b) + Len(y) + Len(d) + Len(e) + 1 = S + 2 + T + M + 1
    BY <1>2, <1>12
  <2>2. B[Len(x) + Len(b) + Len(y) + Len(d) + Len(e) + 1] = z[1] BY <1>10, <2>1
  <2> QED BY <1>8, <2>1, <2>2
<1>20. \A k \in 1 .. S : B[1 + k].id = startIds[k] BY <1>5, <1>15 DEF ActionNode
<1>21. B[S + 2].id = waits BY <1>16 DEF multi, WaitMultiNode
<1>22. \A k \in 1 .. T : B[S + 2 + k].id = stopIds[k] BY <1>6, <1>17 DEF ActionNode
<1>23. \A k \in 1 .. M : B[S + 2 + T + k].id = timeoutIds[k] BY <1>7, <1>18 DEF ActionNode
<1>24. B[S + 2 + T + M + 1].id = done BY <1>19 DEF EndNode
<1>25. B[1] = WaitEventNode(p \o <<"wait", "start">>, rule.on, <<Transition("ok", B[2].id)>>)
  <2>1. 1 \in 1 .. S /\ 1 + 1 = 2 BY <1>2
  <2>2. B[2].id = startIds[1] BY <1>20, <2>1
  <2> QED BY <1>14, <2>2 DEF first
<1>26. ASSUME NEW k \in 1 .. S PROVE Does(B[1 + k], rule.start[k], B[1 + k + 1].id)
  <2>1. B[1 + k + 1].id = IF k = S THEN waits ELSE startIds[k + 1]
    <3>1. CASE k = S
      <4>1. 1 + k + 1 = S + 2 BY <1>2, <3>1
      <4> QED BY <1>21, <3>1, <4>1
    <3>2. CASE k # S
      <4>1. k + 1 \in 1 .. S /\ 1 + k + 1 = 1 + (k + 1) BY <1>2, <3>2
      <4> QED BY <1>20, <3>2, <4>1
    <3> QED BY <3>1, <3>2
  <2> QED BY <1>5, <1>15, <2>1 DEF Does, ActionNode
<1>27. ASSUME NEW k \in 1 .. T
       PROVE  Does(B[S + 2 + k], Stops(rule)[k],
                   IF k = T THEN B[S + 2 + T + M + 1].id ELSE B[S + 2 + k + 1].id)
  <2>1. k # T => B[S + 2 + k + 1].id = stopIds[k + 1]
    <3>1. k # T => k + 1 \in 1 .. T /\ S + 2 + k + 1 = S + 2 + (k + 1) BY <1>2
    <3> QED BY <1>22, <3>1
  <2>2. (IF k = T THEN B[S + 2 + T + M + 1].id ELSE B[S + 2 + k + 1].id)
          = IF k = T THEN done ELSE stopIds[k + 1]
    BY <1>24, <2>1
  <2> QED BY <1>6, <1>17, <2>2 DEF Does, ActionNode
<1>28. ASSUME NEW k \in 1 .. M
       PROVE  Does(B[S + 2 + T + k], TimeoutStops(rule)[k], B[S + 2 + T + k + 1].id)
  <2>1. B[S + 2 + T + k + 1].id = IF k = M THEN done ELSE timeoutIds[k + 1]
    <3>1. CASE k = M BY <1>24, <3>1
    <3>2. CASE k # M
      <4>1. k + 1 \in 1 .. M /\ S + 2 + T + k + 1 = S + 2 + T + (k + 1) BY <1>2, <3>2
      <4> QED BY <1>23, <3>2, <4>1
    <3> QED BY <3>1, <3>2
  <2> QED BY <1>7, <1>18, <2>1 DEF Does, ActionNode
<1>29. B[S + 2 + 1].id = p \o <<"stop">> /\ B[S + 2 + T + 1].id = p \o <<"timeout">>
  <2>1. 1 \in 1 .. T /\ 1 \in 1 .. M BY <1>2
  <2> QED BY <1>4, <1>22, <1>23, <2>1
<1>30. IsList(B) BY <1>10
<1> QED BY <1>11, <1>13, <1>16, <1>19, <1>25, <1>26, <1>27, <1>28, <1>29, <1>30
        DEF B, S, T, M, multi, waits, done

\* The six parts of a rule's nodes.
LEMMA Positions ==
  ASSUME NEW rule, TypedRule(rule), RuleCompiles(rule), NEW k \in 1 .. DoneAt(rule)
  PROVE  \/ k = 1
         \/ \E j \in 1 .. Len(rule.start) : k = 1 + j
         \/ k = StopAt(rule)
         \/ \E j \in 1 .. Len(Stops(rule)) : k = StopAt(rule) + j
         \/ \E j \in 1 .. Len(TimeoutStops(rule)) : k = TimeoutAt(rule) + j
         \/ k = DoneAt(rule)
<1> DEFINE S == Len(rule.start)
           T == Len(Stops(rule))
           M == Len(TimeoutStops(rule))
<1>1. S \in Nat \ {0} /\ T \in Nat \ {0} /\ M \in Nat \ {0} BY Layout
<1>2. StopAt(rule) = S + 2 /\ TimeoutAt(rule) = S + 2 + T /\ DoneAt(rule) = S + 2 + T + M + 1
  BY DEF StopAt, TimeoutAt, DoneAt
<1> HIDE DEF S, T, M
<1>3. k \in 1 .. S + 2 + T + M + 1 BY <1>2
<1>4. CASE k \in 2 .. S + 1
  <2>1. k - 1 \in 1 .. S /\ k = 1 + (k - 1) BY <1>1, <1>3, <1>4
  <2> QED BY <2>1 DEF S
<1>5. CASE k \in S + 3 .. S + 2 + T
  <2>1. k - (S + 2) \in 1 .. T /\ k = S + 2 + (k - (S + 2)) BY <1>1, <1>3, <1>5
  <2> QED BY <1>2, <2>1 DEF T
<1>6. CASE k \in S + 2 + T + 1 .. S + 2 + T + M
  <2>1. k - (S + 2 + T) \in 1 .. M /\ k = S + 2 + T + (k - (S + 2 + T)) BY <1>1, <1>3, <1>6
  <2> QED BY <1>2, <2>1 DEF M
<1>7. \/ k = 1 \/ k \in 2 .. S + 1 \/ k = S + 2 \/ k \in S + 3 .. S + 2 + T
      \/ k \in S + 2 + T + 1 .. S + 2 + T + M \/ k = S + 2 + T + M + 1
  BY <1>1, <1>3
<1> QED BY <1>2, <1>4, <1>5, <1>6, <1>7

\* The options of its WAIT_MULTI.
LEMMA UntilCompiled ==
  ASSUME NEW rule, TypedRule(rule), NEW p
  PROVE  LET opts == CompileUntil(p, rule.until)
         IN /\ IsList(opts)
            /\ \A i \in DOMAIN opts : opts[i].kind \in {"EVENT", "TIMEOUT"} /\ opts[i].priority \in Int
            /\ \A o \in Range(opts) :
                 o.to = IF o.kind = "EVENT" THEN p \o <<"stop">> ELSE p \o <<"timeout">>
            /\ (\E o \in Range(opts) : o.kind = "EVENT") <=> (\E c \in Range(rule.until) : c.kind = "on")
            /\ (\E o \in Range(opts) : o.kind = "TIMEOUT")
                 <=> (rule.until = << >> \/ \E c \in Range(rule.until) : c.kind # "on")
<1> DEFINE u == rule.until
           opts == CompileUntil(p, u)
           opt(c) == IF c.kind = "on" THEN EventOption(c.event, p \o <<"stop">>, c.priority)
                                      ELSE TimeoutOption(c.ms, p \o <<"timeout">>, c.priority)
<1>1. IsList(u) /\ \A i \in DOMAIN u : u[i].priority \in Int BY DEF TypedRule
<1>2. CASE u = << >>
  <2> DEFINE only == TimeoutOption(DefaultMs, p \o <<"timeout">>, 1)
  <2>1. opts = <<only>> BY <1>2 DEF CompileUntil
  <2>2. only.kind = "TIMEOUT" /\ only.priority = 1 /\ only.to = p \o <<"timeout">> BY DEF TimeoutOption
  <2> HIDE DEF only
  <2>3. IsList(<<only>>) /\ DOMAIN <<only>> = {1} /\ <<only>>[1] = only BY OneIsList
  <2>4. Range(opts) = {only} BY <2>1 DEF Range
  <2>5. Range(u) = {} BY <1>2 DEF Range
  <2> HIDE DEF opts
  <2>6. \A i \in DOMAIN opts : opts[i].kind \in {"EVENT", "TIMEOUT"} /\ opts[i].priority \in Int
    BY <2>1, <2>2, <2>3
  <2> QED BY <1>2, <2>1, <2>2, <2>3, <2>4, <2>5, <2>6 DEF opts
<1>3. CASE u # << >>
  <2>1. opts = [i \in DOMAIN u |-> opt(u[i])] BY <1>3 DEF CompileUntil
  <2>2. DOMAIN u = 1 .. Len(u) /\ Len(u) \in Nat BY <1>1, ListIsSeq
  <2> HIDE DEF opts
  <2>3. \A i \in DOMAIN u : opts[i] = opt(u[i]) BY <2>1
  <2>4. ASSUME NEW c
        PROVE  /\ opt(c).kind = IF c.kind = "on" THEN "EVENT" ELSE "TIMEOUT"
               /\ opt(c).priority = c.priority
               /\ opt(c).to = IF c.kind = "on" THEN p \o <<"stop">> ELSE p \o <<"timeout">>
    BY DEF EventOption, TimeoutOption
  <2> HIDE DEF opt
  <2>5. opts = [i \in 1 .. Len(u) |-> opts[i]] BY <2>1, <2>2
  <2>6. IsList(opts) /\ DOMAIN opts = DOMAIN u BY <2>2, <2>5, FunctionIsList
  <2>7. \A i \in DOMAIN opts : opts[i].kind \in {"EVENT", "TIMEOUT"} /\ opts[i].priority \in Int
    BY <1>1, <2>3, <2>4, <2>6
  <2>8. Range(opts) = {opt(c) : c \in Range(u)} BY <2>3, <2>6 DEF Range
  <2>9. \A o \in Range(opts) :
          o.to = IF o.kind = "EVENT" THEN p \o <<"stop">> ELSE p \o <<"timeout">>
    BY <2>4, <2>8
  <2>10. (\E o \in Range(opts) : o.kind = "EVENT") <=> (\E c \in Range(u) : c.kind = "on")
    BY <2>4, <2>8
  <2>11. (\E o \in Range(opts) : o.kind = "TIMEOUT") <=> (\E c \in Range(u) : c.kind # "on")
    BY <2>4, <2>8
  <2> QED BY <1>3, <2>6, <2>7, <2>9, <2>10, <2>11 DEF opts
<1> QED BY <1>2, <1>3

LEMMA RuleTyped ==
  ASSUME NEW rule, TypedRule(rule), RuleCompiles(rule)
  PROVE  \A k \in 1 .. DoneAt(rule) : TypedNode(CompileRule(rule)[k])
<1> DEFINE B == CompileRule(rule)
           p == Prefix(rule)
           opts == CompileUntil(p, rule.until)
<1>1. /\ B[1] = WaitEventNode(p \o <<"wait", "start">>, rule.on, <<Transition("ok", B[2].id)>>)
      /\ \A k \in 1 .. Len(rule.start) : Does(B[1 + k], rule.start[k], B[1 + k + 1].id)
      /\ B[StopAt(rule)] = WaitMultiNode(p \o <<"wait", "stop">>, opts)
      /\ \A k \in 1 .. Len(Stops(rule)) :
           Does(B[StopAt(rule) + k], Stops(rule)[k],
                IF k = Len(Stops(rule)) THEN B[DoneAt(rule)].id ELSE B[StopAt(rule) + k + 1].id)
      /\ \A k \in 1 .. Len(TimeoutStops(rule)) :
           Does(B[TimeoutAt(rule) + k], TimeoutStops(rule)[k], B[TimeoutAt(rule) + k + 1].id)
      /\ B[DoneAt(rule)] = EndNode(p \o <<"done">>)
  BY RuleCompiled
<1> HIDE DEF B
<1>2. ASSUME NEW node, NEW action, NEW to, Does(node, action, to) PROVE TypedNode(node)
  <2>1. node.kind = "ACTION" /\ IsList(node.transitions) BY <1>2, OneIsList DEF Does
  <2> QED BY <2>1 DEF TypedNode
<1>3. TypedNode(B[1])
  <2>1. IsList(rule.on) BY DEF TypedRule
  <2>2. B[1].kind = "WAIT_EVENT" /\ B[1].on = rule.on /\ B[1].transitions = <<Transition("ok", B[2].id)>>
    BY <1>1 DEF WaitEventNode
  <2>3. IsList(B[1].transitions) BY <2>2, OneIsList
  <2> QED BY <2>1, <2>2, <2>3 DEF TypedNode
<1>4. TypedNode(B[StopAt(rule)])
  <2>1. /\ IsList(opts)
        /\ \A i \in DOMAIN opts : opts[i].kind \in {"EVENT", "TIMEOUT"} /\ opts[i].priority \in Int
    BY UntilCompiled
  <2> HIDE DEF opts
  <2>2. B[StopAt(rule)].kind = "WAIT_MULTI" /\ B[StopAt(rule)].options = opts
    BY <1>1 DEF WaitMultiNode
  <2> QED BY <2>1, <2>2 DEF TypedNode
<1>5. TypedNode(B[DoneAt(rule)])
  <2>1. B[DoneAt(rule)].kind = "END" BY <1>1 DEF EndNode
  <2> QED BY <2>1 DEF TypedNode
<1>6. ASSUME NEW k \in 1 .. DoneAt(rule) PROVE TypedNode(B[k])
  <2>1. \/ k = 1
        \/ \E j \in 1 .. Len(rule.start) : k = 1 + j
        \/ k = StopAt(rule)
        \/ \E j \in 1 .. Len(Stops(rule)) : k = StopAt(rule) + j
        \/ \E j \in 1 .. Len(TimeoutStops(rule)) : k = TimeoutAt(rule) + j
        \/ k = DoneAt(rule)
    BY Positions
  <2>2. ASSUME NEW j \in 1 .. Len(rule.start) PROVE TypedNode(B[1 + j]) BY <1>1, <1>2
  <2>3. ASSUME NEW j \in 1 .. Len(Stops(rule)) PROVE TypedNode(B[StopAt(rule) + j]) BY <1>1, <1>2
  <2>4. ASSUME NEW j \in 1 .. Len(TimeoutStops(rule)) PROVE TypedNode(B[TimeoutAt(rule) + j])
    BY <1>1, <1>2
  <2> QED BY <1>3, <1>4, <1>5, <2>1, <2>2, <2>3, <2>4
<1> QED BY <1>6 DEF B

\* Where the nodes of a rule sit in a graph.
Sits(g, rule, at) ==
  \A k \in 1 .. DoneAt(rule) : at + k \in DOMAIN g.nodes /\ g.nodes[at + k] = CompileRule(rule)[k]
Laid(g, rules, at) ==
  /\ at \in [DOMAIN rules -> Nat]
  /\ \A i \in DOMAIN rules : Sits(g, rules[i], at[i])
  /\ \A i, j \in DOMAIN rules : i < j => at[i] + DoneAt(rules[i]) <= at[j]
  /\ \A p \in DOMAIN g.nodes : \E i \in DOMAIN rules : \E k \in 1 .. DoneAt(rules[i]) : p = at[i] + k

LEMMA DslCompiled ==
  ASSUME NEW dsl, TypedRules(dsl), CompileDslToIr(dsl).accepted
  PROVE  LET g == CompileDslToIr(dsl)
         IN /\ dsl.rules # << >> /\ \A i \in DOMAIN dsl.rules : RuleCompiles(dsl.rules[i])
            /\ ValidGraph(g) /\ IsList(g.nodes)
            /\ Entries(g) = [i \in DOMAIN dsl.rules |-> CompileRule(dsl.rules[i])[1].id]
            /\ \E at : Laid(g, dsl.rules, at)
<1> DEFINE g == CompileDslToIr(dsl)
           rules == dsl.rules
           D == DOMAIN rules
           entries == [i \in D |-> Prefix(rules[i]) \o <<"wait", "start">>]
           blocks == [i \in D |-> CompileRule(rules[i])]
           made == Graph(entries[1], entries, FlattenSeq(blocks))
<1>1. /\ IsList(rules) /\ \A i \in D : TypedRule(rules[i]) BY DEF TypedRules
<1>2. Rejected.accepted = FALSE BY DEF Rejected, Graph
<1>3. /\ rules # << >> /\ \A rule \in Range(rules) : RuleCompiles(rule)
      /\ g = ValidateExecutionIr(made)
  BY <1>2 DEF CompileDslToIr
<1> HIDE DEF g
<1>4. g = made /\ ValidGraph(g)
  <2>1. g.accepted BY DEF g
  <2> HIDE DEF made
  <2> QED BY <1>2, <1>3, <2>1 DEF ValidateExecutionIr
<1>5. \A i \in D : RuleCompiles(rules[i]) BY <1>3 DEF Range
<1>6. \A i \in D : /\ IsList(CompileRule(rules[i])) /\ Len(CompileRule(rules[i])) = DoneAt(rules[i])
                   /\ CompileRule(rules[i])[1].id = Prefix(rules[i]) \o <<"wait", "start">>
  <2>1. ASSUME NEW i \in D
        PROVE  /\ IsList(CompileRule(rules[i])) /\ Len(CompileRule(rules[i])) = DoneAt(rules[i])
               /\ CompileRule(rules[i])[1].id = Prefix(rules[i]) \o <<"wait", "start">>
    <3> DEFINE r == rules[i]
    <3>1. TypedRule(r) /\ RuleCompiles(r) BY <1>1, <1>5
    <3> HIDE DEF r
    <3> DEFINE B == CompileRule(r)
    <3>2. /\ IsList(B) /\ Len(B) = DoneAt(r)
          /\ B[1] = WaitEventNode(Prefix(r) \o <<"wait", "start">>, r.on, <<Transition("ok", B[2].id)>>)
      BY <3>1, RuleCompiled
    <3> HIDE DEF B
    <3>3. B[1].id = Prefix(r) \o <<"wait", "start">> BY <3>2 DEF WaitEventNode
    <3> QED BY <3>2, <3>3 DEF B, r
  <2> QED BY <2>1
<1>7. DOMAIN rules = 1 .. Len(rules) /\ Len(rules) \in Nat BY <1>1, ListIsSeq
<1>8. Len(rules) # 0
  <2>1. rules \in Seq(Range(rules)) BY <1>1, ListIsSeq
  <2> QED BY <1>3, <2>1, EmptySeq
<1>9. entries # << >>
  <2>1. DOMAIN entries = 1 .. Len(rules) BY <1>7
  <2>2. 1 \in DOMAIN entries BY <1>7, <1>8, <2>1
  <2> HIDE DEF entries
  <2>3. DOMAIN << >> = {} OBVIOUS
  <2> QED BY <2>2, <2>3
<1>10. Entries(g) = [i \in D |-> CompileRule(rules[i])[1].id]
  <2>1. g.entryNodes = entries BY <1>4 DEF Graph
  <2>2. Entries(g) = entries
    <3> HIDE DEF entries
    <3> QED BY <1>9, <2>1 DEF Entries
  <2> QED BY <1>6, <2>2
<1>11. /\ IsList(blocks) /\ DOMAIN blocks = D /\ blocks # << >>
       /\ \A i \in D : blocks[i] = CompileRule(rules[i])
  <2>1. DOMAIN blocks = 1 .. Len(rules) /\ \A i \in D : blocks[i] = CompileRule(rules[i]) BY <1>7
  <2>2. blocks = [i \in 1 .. Len(rules) |-> blocks[i]] BY <1>7
  <2> HIDE DEF blocks
  <2>3. IsList(blocks) BY <1>7, <2>2, FunctionIsList
  <2>4. 1 \in DOMAIN blocks BY <1>7, <1>8, <2>1
  <2>5. DOMAIN << >> = {} OBVIOUS
  <2> QED BY <1>7, <2>1, <2>3, <2>4, <2>5
<1>12. g.nodes = FlattenSeq(blocks) BY <1>4 DEF Graph
<1> HIDE DEF blocks
<1>13. \A i \in DOMAIN blocks : IsList(blocks[i]) /\ Len(blocks[i]) = DoneAt(rules[i]) BY <1>6, <1>11
<1> DEFINE flat == FlattenSeq(blocks)
<1>14. IsList(flat) /\ \E at : Joins(flat, blocks, at)
  <2>1. IsList(blocks) BY <1>11
  <2>2. blocks # << >> BY <1>11
  <2>3. \A i \in DOMAIN blocks : IsList(blocks[i]) BY <1>13
  <2> QED BY <2>1, <2>2, <2>3, ListsFlatten
<1> HIDE DEF flat
<1>15. PICK at : Joins(flat, blocks, at) BY <1>14
<1>a. /\ at \in [DOMAIN blocks -> Nat]
      /\ \A i \in DOMAIN blocks : at[i] + Len(blocks[i]) <= Len(flat)
      /\ \A i, j \in DOMAIN blocks : i < j => at[i] + Len(blocks[i]) <= at[j]
      /\ \A i \in DOMAIN blocks : \A k \in 1 .. Len(blocks[i]) : flat[at[i] + k] = blocks[i][k]
      /\ \A p \in DOMAIN flat :
           \E i \in DOMAIN blocks : \E k \in 1 .. Len(blocks[i]) : p = at[i] + k
  BY <1>15 DEF Joins
<1>16. g.nodes = flat BY <1>12 DEF flat
<1>17. DOMAIN flat = 1 .. Len(flat) /\ Len(flat) \in Nat BY <1>14, ListIsSeq
<1>18. ASSUME NEW i \in D PROVE Sits(g, rules[i], at[i])
  <2>1. Len(blocks[i]) = DoneAt(rules[i]) /\ blocks[i] = CompileRule(rules[i]) BY <1>11, <1>13
  <2>2. at[i] \in Nat /\ Len(blocks[i]) \in Nat BY <1>11, <1>13, <1>a, ListIsSeq
  <2>3. ASSUME NEW k \in 1 .. DoneAt(rules[i])
        PROVE  at[i] + k \in DOMAIN flat /\ flat[at[i] + k] = CompileRule(rules[i])[k]
    <3>1. at[i] + Len(blocks[i]) <= Len(flat) BY <1>11, <1>a
    <3>2. at[i] + k \in 1 .. Len(flat) BY <1>17, <2>1, <2>2, <3>1
    <3>3. flat[at[i] + k] = blocks[i][k] BY <1>11, <1>a, <2>1
    <3> QED BY <1>17, <2>1, <3>2, <3>3
  <2> QED BY <1>16, <2>3 DEF Sits
<1>19. \A i, j \in D : i < j => at[i] + DoneAt(rules[i]) <= at[j] BY <1>11, <1>13, <1>a
<1>20. \A p \in DOMAIN flat : \E i \in D : \E k \in 1 .. DoneAt(rules[i]) : p = at[i] + k
  BY <1>11, <1>13, <1>a
<1>21. Laid(g, rules, at) BY <1>11, <1>a, <1>16, <1>18, <1>19, <1>20 DEF Laid
<1>22. IsList(g.nodes) BY <1>14, <1>16
<1> HIDE DEF rules
<1> QED BY <1>3, <1>4, <1>5, <1>10, <1>21, <1>22 DEF g, rules

-----------------------------------------------------------------------------
(* Every graph the engine is given is sound.                               *)

LEMMA ValidSound ==
  ASSUME NEW g, \A node \in Range(g.nodes) : TypedNode(node), IsList(g.entryNodes), ValidGraph(g)
  PROVE  SoundGraph(g)
<1>1. \A node \in Range(g.nodes) : SoundNode(node) /\ Targets(node) \subseteq Ids(g)
  BY DEF ValidGraph, TargetsExist, SoundNode
<1>2. Range(Entries(g)) \subseteq Ids(g) BY DEF ValidGraph
<1>3. IsList(Entries(g)) BY OneIsList DEF Entries
<1> QED BY <1>1, <1>2, <1>3 DEF SoundGraph

LEMMA RejectedSound == SoundGraph(Rejected)
<1>1. Rejected.nodes = << >> /\ Rejected.accepted = FALSE BY DEF Rejected, Graph
<1>2. Range(<< >>) = {} BY DEF Range
<1> QED BY <1>1, <1>2 DEF SoundGraph

LEMMA ValidateSound ==
  ASSUME NEW g, TypedGraph(g)
  PROVE  SoundGraph(ValidateExecutionIr(g))
<1>1. \A node \in Range(g.nodes) : TypedNode(node) BY DEF TypedGraph, Range
<1>2. IsList(g.entryNodes) BY DEF TypedGraph
<1> QED BY <1>1, <1>2, ValidSound, RejectedSound DEF ValidateExecutionIr

LEMMA CompileSound ==
  ASSUME NEW dsl, dsl.failed = TRUE \/ TypedRules(dsl)
  PROVE  SoundGraph(CompileDslToIr(dsl))
<1> DEFINE g == CompileDslToIr(dsl)
<1>1. CASE g = Rejected BY <1>1, RejectedSound
<1>2. CASE g # Rejected
  <2>1. ~(dsl.failed = TRUE) BY <1>2 DEF CompileDslToIr
  <2>2. TypedRules(dsl) BY <2>1
  <2>3. g.accepted
    <3> DEFINE entries == [i \in DOMAIN dsl.rules |-> Prefix(dsl.rules[i]) \o <<"wait", "start">>]
               ns == FlattenSeq([i \in DOMAIN dsl.rules |-> CompileRule(dsl.rules[i])])
               made == Graph(entries[1], entries, ns)
    <3>1. g = ValidateExecutionIr(made) BY <1>2 DEF CompileDslToIr
    <3> HIDE DEF entries, ns, g
    <3>2. made.accepted = TRUE BY DEF Graph
    <3> HIDE DEF made
    <3>3. g = made BY <1>2, <3>1 DEF ValidateExecutionIr
    <3> QED BY <3>2, <3>3
  <2>4. /\ \A i \in DOMAIN dsl.rules : RuleCompiles(dsl.rules[i])
        /\ ValidGraph(g) /\ IsList(g.nodes)
        /\ Entries(g) = [i \in DOMAIN dsl.rules |-> CompileRule(dsl.rules[i])[1].id]
        /\ \E at : Laid(g, dsl.rules, at)
    BY <2>2, <2>3, DslCompiled
  <2> HIDE DEF g
  <2>5. PICK at : Laid(g, dsl.rules, at) BY <2>4
  <2>6. ASSUME NEW p \in DOMAIN g.nodes PROVE TypedNode(g.nodes[p])
    <3>1. PICK i \in DOMAIN dsl.rules : \E k \in 1 .. DoneAt(dsl.rules[i]) : p = at[i] + k
      BY <2>5 DEF Laid
    <3>2. PICK k \in 1 .. DoneAt(dsl.rules[i]) : p = at[i] + k BY <3>1
    <3>3. g.nodes[p] = CompileRule(dsl.rules[i])[k] BY <2>5, <3>2 DEF Laid, Sits
    <3>4. TypedRule(dsl.rules[i]) BY <2>2 DEF TypedRules
    <3>5. RuleCompiles(dsl.rules[i]) BY <2>4
    <3>6. TypedNode(CompileRule(dsl.rules[i])[k]) BY <3>4, <3>5, RuleTyped
    <3> QED BY <3>3, <3>6
  <2>7. \A node \in Range(g.nodes) : TypedNode(node) BY <2>6 DEF Range
  <2>8. IsList(g.entryNodes)
    <3>1. IsList(dsl.rules) BY <2>2 DEF TypedRules
    <3>2. IsList(Entries(g))
      <4>1. DOMAIN dsl.rules = 1 .. Len(dsl.rules) /\ Len(dsl.rules) \in Nat BY <3>1, ListIsSeq
      <4> DEFINE e == Entries(g)
      <4>2. e = [i \in 1 .. Len(dsl.rules) |-> e[i]] BY <2>4, <4>1
      <4> HIDE DEF e
      <4> QED BY <4>1, <4>2, FunctionIsList DEF e
    <3>3. << >> = [j \in 1 .. 0 |-> << >>[j]] /\ Len(<< >>) = 0 OBVIOUS
    <3>4. IsList(<< >>) BY <3>3 DEF IsList
    <3>5. g.entryNodes = << >> \/ g.entryNodes = Entries(g) BY DEF Entries
    <3> QED BY <3>2, <3>4, <3>5
  <2>9. SoundGraph(g) BY <2>4, <2>7, <2>8, ValidSound
  <2> QED BY <2>9 DEF g
<1> QED BY <1>1, <1>2

\* Texts, rules and graphs alike become graphs that lead to their own nodes only, or
\* are refused (_load_ir, compile_dsl_to_ir, validate_graph).
THEOREM GraphsSound == \A i \in DOMAIN Sources : SoundGraph(Graphs[i])
<1> SUFFICES ASSUME NEW i \in DOMAIN Sources PROVE SoundGraph(Graphs[i]) OBVIOUS
<1> DEFINE src == Sources[i]
<1>1. Graphs[i] = GraphOf(src) BY DEF Graphs
<1>2. TypedSource(src) BY IrAssumption
<1> HIDE DEF src
<1>3. CASE DOMAIN src = {"text"}
  <2>1. TypedText(src.text) BY <1>2, <1>3 DEF TypedSource
  <2>2. GraphOf(src) = CompileDslToIr(ParseDsl(src.text)) BY <1>3 DEF GraphOf
  <2>3. CASE ~ParseDsl(src.text).failed
    <3>1. Parsed(ParseDsl(src.text), src.text, Len(src.text)) BY <2>1, <2>3, ParseSays
    <3>2. TypedRules(ParseDsl(src.text))
      <4> DEFINE root == ParseDsl(src.text)
      <4> HIDE DEF root
      <4>1. IsList(root.rules) BY <3>1 DEF Parsed, root
      <4>2. \A j \in 1 .. Len(root.rules) : TypedRule(root.rules[j]) BY <3>1 DEF Parsed, Says, root
      <4>3. DOMAIN root.rules = 1 .. Len(root.rules) BY <4>1, ListIsSeq
      <4>4. TypedRules(root) BY <4>1, <4>2, <4>3 DEF TypedRules
      <4> QED BY <4>4 DEF root
    <3> QED BY <1>1, <2>2, <3>2, CompileSound
  <2>4. CASE ParseDsl(src.text).failed
    <3>1. CompileDslToIr(ParseDsl(src.text)) = Rejected BY <2>4 DEF CompileDslToIr
    <3> QED BY <1>1, <2>2, <3>1, RejectedSound
  <2> QED BY <2>3, <2>4
<1>4. CASE DOMAIN src = {"rules"}
  <2>1. TypedRules(src.rules) BY <1>2, <1>4 DEF TypedSource
  <2>2. GraphOf(src) = CompileDslToIr(src.rules) BY <1>4 DEF GraphOf
  <2> QED BY <1>1, <2>1, <2>2, CompileSound
<1>5. CASE DOMAIN src = {"graph"}
  <2>1. TypedGraph(src.graph) BY <1>2, <1>5 DEF TypedSource
  <2>2. GraphOf(src) = ValidateExecutionIr(src.graph) BY <1>5 DEF GraphOf
  <2> QED BY <1>1, <2>1, <2>2, ValidateSound
<1> QED BY <1>2, <1>3, <1>4, <1>5 DEF TypedSource

-----------------------------------------------------------------------------
(* What the engine keeps: the types, a thread that stands where its place  *)
(* says, and a box and callbacks that only hold fresh events of the wait.  *)

Event == [name : Namespaced \cup {Blank}, no : Nat]
Frame(m) == [node : DOMAIN m, branch : Nat]
Thread(m) ==
  [at : Places, stack : Seq(Frame(m)), names : SUBSET Nat, got : Event,
   age : 0 .. MaxMs, tries : 0 .. 2]

\* The node where a thread with nodes m stands, and the names it waits for there.
Here(m, t) == m[Last(t.stack).node]
Awaited(m, t) == {NameAt(Here(m, t), i) : i \in NamesOf(Here(m, t))}
Fresh(m, t, e, since) == e.no > since /\ e.name \in Awaited(m, t)

ThreadOK(m, t, b, since) ==
  /\ t.stack = << >> <=> t.at = "free"
  /\ t.at = "multi" => Here(m, t).kind = "WAIT_MULTI"
  /\ t.at = "act" => Here(m, t).kind = "ACTION"
  /\ t.at \in Waits => Here(m, t).kind \in {"WAIT_EVENT", "WAIT_MULTI"}
  /\ t.at = "subscribe" => t.names # {} /\ t.names \subseteq NamesOf(Here(m, t))
  /\ t.at = "unsubscribe" /\ t.got = NoEvent => Here(m, t).kind = "WAIT_MULTI"
  /\ t.got # NoEvent => t.at = "unsubscribe" /\ Fresh(m, t, t.got, since)
  /\ b # NoEvent => t.at \in Waits /\ Fresh(m, t, b, since)

ControlOK ==
  /\ source \in DOMAIN Sources
  /\ app \in {"ready", "joining", "stopped"}
  /\ todo \in [runs : 0 .. Calls[source].runs, publish : 0 .. Calls[source].publish]
  /\ refused \in BOOLEAN /\ running \in BOOLEAN /\ runningIr \in BOOLEAN

DataOK ==
  /\ th \in [Slots -> Thread(nodes)]
  /\ box \in [Slots -> Event]
  /\ subs \subseteq Slots \X Namespaced
  /\ callbacks \subseteq [thread : Slots, wait : Nat, event : Event]
  /\ hist \in [published : Nat, waits : [Slots -> Nat], since : [Slots -> Nat]]

ThreadsOK ==
  \A s \in Slots :
    ThreadOK(nodes, th[s], box[s], hist.since[s]) /\ hist.since[s] <= hist.published

SubsOK == \A x \in subs : th[x[1]].at \in Waits /\ x[2] \in Awaited(nodes, th[x[1]])

\* A callback of the wait under way brings an event published since it began.
CallbacksOK ==
  \A c \in callbacks :
    /\ c.wait <= hist.waits[c.thread]
    /\ c.wait = hist.waits[c.thread] /\ th[c.thread].at \in {"subscribe", "wait"}
         => Fresh(nodes, th[c.thread], c.event, hist.since[c.thread])

IrInv == ControlOK /\ DataOK /\ ThreadsOK /\ SubsOK /\ CallbacksOK

\* The properties are parts of it.
LEMMA InvImplies == IrInv => TypeOK /\ TriggerIsFresh
<1> SUFFICES ASSUME IrInv PROVE TypeOK /\ TriggerIsFresh OBVIOUS
<1> USE DEF IrInv
<1>1. ASSUME NEW s \in Slots
      PROVE  Node(s) = Here(nodes, th[s]) /\ NamesAwaited(s) = Awaited(nodes, th[s])
  BY DEF Node, Top, Here, NamesAwaited, Awaited
<1>2. ASSUME NEW s \in Slots
      PROVE  /\ th[s].at \in Places /\ th[s].age \in 0 .. MaxMs /\ th[s].tries \in 0 .. 2
             /\ th[s].stack = << >> <=> At(s, "free")
             /\ \A call \in Range(th[s].stack) : call.node \in DOMAIN nodes
  <2>1. th[s] \in Thread(nodes) BY DEF DataOK
  <2>2. th[s].stack \in Seq(Frame(nodes)) BY <2>1 DEF Thread
  <2>3. \A call \in Range(th[s].stack) : call \in Frame(nodes) BY <2>2, SeqIsList
  <2>4. th[s].stack = << >> <=> th[s].at = "free" BY DEF ThreadsOK, ThreadOK
  <2> QED BY <2>1, <2>3, <2>4 DEF Thread, Frame, At
<1>3. \A x \in subs : th[x[1]].at \in Waits /\ x[2] \in NamesAwaited(x[1])
  BY <1>1 DEF SubsOK, DataOK
<1>4. TypeOK BY <1>2, <1>3 DEF TypeOK, ControlOK, DataOK
<1>5. TriggerIsFresh BY <1>1 DEF ThreadsOK, ThreadOK, Fresh, TriggerIsFresh
<1> QED BY <1>4, <1>5

-----------------------------------------------------------------------------
(* Threads and their stacks.                                               *)

LEMMA IdleOK ==
  ASSUME NEW m, NEW since
  PROVE  Idle \in Thread(m) /\ NoEvent \in Event /\ ThreadOK(m, Idle, NoEvent, since)
<1>1. MaxMs \in Nat /\ << >> \in Seq(Frame(m)) BY IrAssumption
<1>2. NoEvent \in Event BY DEF NoEvent, Event
<1>3. Idle \in Thread(m) BY <1>1, <1>2 DEF Idle, Thread, Places
<1> QED BY <1>2, <1>3 DEF Idle, ThreadOK, Waits

LEMMA TopFrame ==
  ASSUME NEW m, NEW t \in Thread(m), t.stack # << >>
  PROVE  /\ t.stack \in Seq(Frame(m)) /\ Last(t.stack) \in Frame(m)
         /\ Front(t.stack) \in Seq(Frame(m))
         /\ Last(t.stack).node \in DOMAIN m
<1> DEFINE s == t.stack
<1>1. s \in Seq(Frame(m)) BY DEF Thread
<1>2. Len(s) \in Nat \ {0} BY <1>1
<1>3. Last(s) = s[Len(s)] /\ s[Len(s)] \in Frame(m) BY <1>1, <1>2 DEF Last
<1>4. Front(s) \in Seq(Frame(m))
  <2>1. \A i \in 1 .. Len(s) - 1 : s[i] \in Frame(m) BY <1>1, <1>2
  <2>2. 1 \in Int /\ Len(s) - 1 \in Int BY <1>2
  <2> QED BY <2>1, <2>2, SubSeqProperties DEF Front
<1> QED BY <1>1, <1>3, <1>4 DEF Frame

LEMMA AppendTop ==
  ASSUME NEW S, NEW s \in Seq(S), NEW f \in S
  PROVE  /\ Append(s, f) \in Seq(S) /\ Append(s, f) # << >> /\ Last(Append(s, f)) = f
<1>1. /\ Append(s, f) \in Seq(S) /\ Append(s, f) # << >> /\ Len(Append(s, f)) = Len(s) + 1
      /\ Append(s, f)[Len(s) + 1] = f
  BY AppendProperties
<1> QED BY <1>1 DEF Last

\* A thread goes on at a node that exists.
LEMMA WithOK ==
  ASSUME NEW m, NEW t \in Thread(m), t.stack # << >>, t.got = NoEvent,
         NEW id \in DOMAIN m, NEW since
  PROVE  With(t, id) \in Thread(m) /\ With(t, id).at = "loop" /\ ThreadOK(m, With(t, id), NoEvent, since)
<1> DEFINE f == [Last(t.stack) EXCEPT !.node = id, !.branch = 0]
           k == Append(Front(t.stack), f)
<1>1. Last(t.stack) \in Frame(m) /\ Front(t.stack) \in Seq(Frame(m)) BY TopFrame
<1>2. f \in Frame(m) BY <1>1 DEF Frame
<1> HIDE DEF f
<1>3. k \in Seq(Frame(m)) /\ k # << >> BY <1>1, <1>2, AppendTop
<1>4. With(t, id) = [t EXCEPT !.at = "loop", !.stack = k] BY DEF With, f
<1> HIDE DEF k
<1>5. With(t, id) \in Thread(m) /\ With(t, id).at = "loop" /\ With(t, id).stack = k
      /\ With(t, id).got = NoEvent
  BY <1>3, <1>4 DEF Thread, Places
<1> QED BY <1>3, <1>5 DEF ThreadOK, Waits

LEMMA MovedOK ==
  ASSUME NEW m, NEW t \in Thread(m), t.stack # << >>, t.got = NoEvent, NEW since,
         NEW place \in {"multi", "act"},
         Here(m, t).kind = IF place = "multi" THEN "WAIT_MULTI" ELSE "ACTION"
  PROVE  LET u == [t EXCEPT !.at = place] IN u \in Thread(m) /\ ThreadOK(m, u, NoEvent, since)
<1> DEFINE u == [t EXCEPT !.at = place]
<1>1. /\ u \in Thread(m) /\ u.at = place /\ u.stack = t.stack /\ u.got = NoEvent
  BY DEF Thread, Places
<1>2. Here(m, u) = Here(m, t) BY <1>1 DEF Here
<1> QED BY <1>1, <1>2 DEF ThreadOK, Waits

-----------------------------------------------------------------------------
(* What a step changes.                                                    *)

LEMMA NodesStay == source' = source => nodes' = nodes /\ graph' = graph
BY DEF nodes, graph

LEMMA NodesSound ==
  ASSUME ControlOK
  PROVE  /\ SoundNodes(nodes)
         /\ graph.accepted => IsList(Entries(graph)) /\ Range(Entries(graph)) \subseteq DOMAIN nodes
<1>1. source \in DOMAIN Sources BY DEF ControlOK
<1>2. graph = Graphs[source] /\ SoundGraph(graph) BY <1>1, GraphsSound DEF graph
<1>3. nodes = MapOf(graph) BY <1>1 DEF nodes, NodeMaps, graph, MapOf
<1>4. SoundNodes(nodes) /\ DOMAIN nodes = Ids(graph) BY <1>2, <1>3, SoundMap
<1> QED BY <1>2, <1>4 DEF SoundGraph

\* A new callback carries a new event to a thread that has subscribed to it.
NewCallback(c) ==
  /\ <<c.thread, c.event.name>> \in subs
  /\ c.wait = hist.waits[c.thread]
  /\ c.event.no > hist.published

\* What publishing makes are such callbacks.
LEMMA PublishedOK ==
  ASSUME IrInv, NEW name \in Namespaced, Publish(name)
  PROVE  /\ hist' \in [published : Nat, waits : [Slots -> Nat], since : [Slots -> Nat]]
         /\ hist'.waits = hist.waits /\ hist'.since = hist.since /\ hist.published < hist'.published
         /\ callbacks' \subseteq [thread : Slots, wait : Nat, event : Event]
         /\ \A c \in callbacks' : c \in callbacks \/ NewCallback(c)
<1> DEFINE no == hist.published + 1
           called == {s \in Slots : <<s, name>> \in subs}
           made == {[thread |-> s, wait |-> hist.waits[s], event |-> [name |-> name, no |-> no]] : s \in called}
<1>0. hist \in [published : Nat, waits : [Slots -> Nat], since : [Slots -> Nat]]
  BY DEF IrInv, DataOK
<1>1. hist' = [hist EXCEPT !.published = no] /\ callbacks' = callbacks \cup made
  BY DEF Publish
<1>2. no \in Nat /\ no > hist.published BY <1>0
<1> HIDE DEF no
<1>3. [name |-> name, no |-> no] \in Event BY <1>2 DEF Event
<1>4. ASSUME NEW c \in made
      PROVE  c \in [thread : Slots, wait : Nat, event : Event] /\ NewCallback(c)
  <2>1. PICK s \in called :
          c = [thread |-> s, wait |-> hist.waits[s], event |-> [name |-> name, no |-> no]]
    OBVIOUS
  <2>2. c \in [thread : Slots, wait : Nat, event : Event] BY <1>0, <1>3, <2>1
  <2>3. c.thread = s /\ c.wait = hist.waits[s] /\ c.event.name = name /\ c.event.no = no BY <2>1
  <2> QED BY <1>2, <2>1, <2>2, <2>3 DEF NewCallback
<1> HIDE DEF made
<1>5. callbacks \subseteq [thread : Slots, wait : Nat, event : Event] BY DEF IrInv, DataOK
<1> QED BY <1>0, <1>1, <1>2, <1>4, <1>5

\* A step of one thread, with what it does to its own box, subscriptions and
\* callbacks, leaves the others as they are.
LEMMA OneThread ==
  ASSUME IrInv, ControlOK', source' = source,
         NEW s \in Slots, NEW t \in Thread(nodes), th' = [th EXCEPT ![s] = t],
         box' \in [Slots -> Event], subs' \subseteq Slots \X Namespaced,
         callbacks' \subseteq [thread : Slots, wait : Nat, event : Event],
         hist' \in [published : Nat, waits : [Slots -> Nat], since : [Slots -> Nat]],
         \A u \in Slots : u # s => /\ box'[u] = box[u] /\ hist'.since[u] = hist.since[u]
                                   /\ hist'.waits[u] = hist.waits[u],
         hist.published <= hist'.published, hist'.since[s] <= hist'.published,
         ThreadOK(nodes, t, box'[s], hist'.since[s]),
         \A x \in subs' : IF x[1] = s THEN t.at \in Waits /\ x[2] \in Awaited(nodes, t) ELSE x \in subs,
         \A c \in callbacks' :
           IF c.thread = s
             THEN /\ c.wait <= hist'.waits[s]
                  /\ c.wait = hist'.waits[s] /\ t.at \in {"subscribe", "wait"}
                       => Fresh(nodes, t, c.event, hist'.since[s])
             ELSE c \in callbacks \/ NewCallback(c)
  PROVE  IrInv'
<1> USE DEF IrInv
<1>1. nodes' = nodes BY NodesStay
<1>2. th \in [Slots -> Thread(nodes)] BY DEF DataOK
<1>3. th' \in [Slots -> Thread(nodes)] /\ th'[s] = t /\ \A u \in Slots : u # s => th'[u] = th[u]
  BY <1>2
<1>4. DataOK' BY <1>1, <1>3 DEF DataOK
<1>5. hist \in [published : Nat, waits : [Slots -> Nat], since : [Slots -> Nat]] BY DEF DataOK
<1>6. ThreadsOK'
  <2> SUFFICES ASSUME NEW u \in Slots
               PROVE  ThreadOK(nodes, th'[u], box'[u], hist'.since[u]) /\ hist'.since[u] <= hist'.published
    BY <1>1 DEF ThreadsOK
  <2>1. CASE u = s BY <1>3, <2>1
  <2>2. CASE u # s
    <3>1. ThreadOK(nodes, th[u], box[u], hist.since[u]) /\ hist.since[u] <= hist.published
      BY DEF ThreadsOK
    <3>2. hist.since[u] \in Nat BY <1>5
    <3> QED BY <1>3, <1>5, <2>2, <3>1, <3>2
  <2> QED BY <2>1, <2>2
<1>7. SubsOK'
  <2> SUFFICES ASSUME NEW x \in subs'
               PROVE  th'[x[1]].at \in Waits /\ x[2] \in Awaited(nodes, th'[x[1]])
    BY <1>1 DEF SubsOK
  <2>1. x[1] \in Slots OBVIOUS
  <2>2. CASE x[1] = s BY <1>3, <2>2
  <2>3. CASE x[1] # s
    <3>1. x \in subs BY <2>3
    <3>2. th[x[1]].at \in Waits /\ x[2] \in Awaited(nodes, th[x[1]]) BY <3>1 DEF SubsOK
    <3> QED BY <1>3, <2>1, <2>3, <3>2
  <2> QED BY <2>2, <2>3
<1>8. CallbacksOK'
  <2> SUFFICES ASSUME NEW c \in callbacks'
               PROVE  /\ c.wait <= hist'.waits[c.thread]
                      /\ c.wait = hist'.waits[c.thread] /\ th'[c.thread].at \in {"subscribe", "wait"}
                           => Fresh(nodes, th'[c.thread], c.event, hist'.since[c.thread])
    BY <1>1 DEF CallbacksOK
  <2>1. c.thread \in Slots /\ c.wait \in Nat /\ c.event \in Event
    <3>1. c \in [thread : Slots, wait : Nat, event : Event] OBVIOUS
    <3> QED BY <3>1
  <2>2. CASE c.thread = s BY <1>3, <2>2
  <2>3. CASE c.thread # s
    <3>1. c \in callbacks \/ NewCallback(c) BY <2>3
    <3> DEFINE u == c.thread
    <3>2. th'[u] = th[u] /\ hist'.since[u] = hist.since[u] /\ hist'.waits[u] = hist.waits[u]
      BY <1>3, <2>1, <2>3
    <3>3. CASE c \in callbacks BY <3>2, <3>3 DEF CallbacksOK
    <3>4. CASE NewCallback(c)
      <4>1. c.event.name \in Awaited(nodes, th[u]) BY <3>4 DEF NewCallback, SubsOK
      <4>2. hist.since[u] <= hist.published BY <2>1 DEF ThreadsOK
      <4>3. c.event.no \in Nat /\ hist.since[u] \in Nat /\ hist.published \in Nat
        BY <1>5, <2>1 DEF Event
      <4>4. c.event.no > hist.since[u] /\ c.wait = hist.waits[u] BY <3>4, <4>2, <4>3 DEF NewCallback
      <4> QED BY <2>1, <3>2, <4>1, <4>4 DEF Fresh
    <3> QED BY <3>1, <3>3, <3>4
  <2> QED BY <2>2, <2>3
<1> QED BY <1>4, <1>6, <1>7, <1>8

\* A thread that is not in a wait has no box, no subscription; it moves on, or ends.
LEMMA MovesOn ==
  ASSUME IrInv, UNCHANGED <<application, flags, events, hist>>,
         NEW s \in Slots, th[s].at \notin Waits,
         NEW t \in Thread(nodes), t.at \notin Waits, th' = [th EXCEPT ![s] = t],
         \A since : ThreadOK(nodes, t, NoEvent, since)
  PROVE  IrInv'
<1> USE DEF IrInv
<1>1. source' = source /\ box' = box /\ subs' = subs /\ callbacks' = callbacks /\ hist' = hist
  BY DEF application, events
<1>2. ControlOK' BY DEF application, flags, ControlOK
<1>3. box[s] = NoEvent BY DEF ThreadsOK, ThreadOK
<1>4. \A x \in subs : x[1] # s BY DEF SubsOK
<1>5. hist \in [published : Nat, waits : [Slots -> Nat], since : [Slots -> Nat]] BY DEF DataOK
<1>6. \A c \in callbacks : c.wait <= hist.waits[c.thread] BY DEF CallbacksOK
<1>7. hist.since[s] <= hist.published BY DEF ThreadsOK
<1>8. ThreadOK(nodes, t, box'[s], hist'.since[s]) BY <1>1, <1>3
<1>9. t.at \notin {"subscribe", "wait"} BY DEF Waits
<1>10. \A c \in callbacks' :
         IF c.thread = s
           THEN /\ c.wait <= hist'.waits[s]
                /\ c.wait = hist'.waits[s] /\ t.at \in {"subscribe", "wait"}
                     => Fresh(nodes, t, c.event, hist'.since[s])
           ELSE c \in callbacks \/ NewCallback(c)
  BY <1>1, <1>6, <1>9
<1>11. /\ box' \in [Slots -> Event] /\ subs' \subseteq Slots \X Namespaced
       /\ callbacks' \subseteq [thread : Slots, wait : Nat, event : Event]
  BY <1>1 DEF DataOK
<1>12. /\ hist.published <= hist'.published /\ hist'.since[s] <= hist'.published
       /\ hist' \in [published : Nat, waits : [Slots -> Nat], since : [Slots -> Nat]]
  BY <1>1, <1>5, <1>7
<1>13. \A x \in subs' : IF x[1] = s THEN t.at \in Waits /\ x[2] \in Awaited(nodes, t) ELSE x \in subs
  BY <1>1, <1>4
<1>14. \A u \in Slots : u # s => /\ box'[u] = box[u] /\ hist'.since[u] = hist.since[u]
                                 /\ hist'.waits[u] = hist.waits[u]
  BY <1>1
<1>15. source' = source BY <1>1
<1> HIDE DEF IrInv
<1> QED BY <1>2, <1>8, <1>10, <1>11, <1>12, <1>13, <1>14, <1>15, OneThread

-----------------------------------------------------------------------------
(* The steps of a thread outside its waits.                                *)

\* A thread with calls on its stack stands at a sound node.
LEMMA Standing ==
  ASSUME IrInv, NEW s \in Slots, th[s].at # "free"
  PROVE  /\ th[s] \in Thread(nodes) /\ th[s].stack # << >>
         /\ ThreadOK(nodes, th[s], box[s], hist.since[s])
         /\ Top(s) \in Frame(nodes) /\ Top(s).node \in DOMAIN nodes
         /\ Node(s) = Here(nodes, th[s]) /\ SoundNode(Node(s)) /\ TypedNode(Node(s))
         /\ Targets(Node(s)) \subseteq DOMAIN nodes
<1>1. th[s] \in Thread(nodes) BY DEF IrInv, DataOK
<1>2. ThreadOK(nodes, th[s], box[s], hist.since[s]) BY DEF IrInv, ThreadsOK
<1>3. th[s].stack # << >> BY <1>2 DEF ThreadOK
<1>4. Top(s) \in Frame(nodes) /\ Top(s).node \in DOMAIN nodes BY <1>1, <1>3, TopFrame DEF Top
<1>5. Node(s) = Here(nodes, th[s]) BY DEF Node, Top, Here
<1>6. SoundNodes(nodes) BY NodesSound DEF IrInv
<1>7. SoundNode(Node(s)) /\ Targets(Node(s)) \subseteq DOMAIN nodes
  BY <1>4, <1>6 DEF SoundNodes, Node
<1> QED BY <1>1, <1>2, <1>3, <1>4, <1>5, <1>7 DEF SoundNode

\* A step to where the thread has no wait.
Moved(s) ==
  \E t \in Thread(nodes) :
    t.at \notin Waits /\ th' = [th EXCEPT ![s] = t] /\ \A since : ThreadOK(nodes, t, NoEvent, since)

LEMMA MovedKeeps ==
  ASSUME IrInv, UNCHANGED <<application, flags, events, hist>>,
         NEW s \in Slots, th[s].at \notin Waits, Moved(s)
  PROVE  IrInv'
BY MovesOn DEF Moved

LEMMA DiesMoves == ASSUME NEW s \in Slots, Dies(s) PROVE Moved(s)
<1>1. Idle \in Thread(nodes) /\ \A since : ThreadOK(nodes, Idle, NoEvent, since) BY IdleOK
<1> QED BY <1>1 DEF Dies, Become, Moved, Idle, Waits

LEMMA GoToMoves ==
  ASSUME IrInv, NEW s \in Slots, th[s].at # "free", NEW id \in DOMAIN nodes, GoTo(s, id)
  PROVE  Moved(s)
<1> DEFINE u == [Idle EXCEPT !.stack = th[s].stack]
<1>1. th[s] \in Thread(nodes) /\ th[s].stack # << >> BY Standing
<1>2. Idle \in Thread(nodes) BY IdleOK
<1>3. u \in Thread(nodes) /\ u.stack # << >> /\ u.got = NoEvent BY <1>1, <1>2 DEF Thread, Idle
<1>4. th' = [th EXCEPT ![s] = With(u, id)] BY DEF GoTo, Become
<1> HIDE DEF u
<1>5. With(u, id) \in Thread(nodes) /\ With(u, id).at = "loop"
      /\ \A since : ThreadOK(nodes, With(u, id), NoEvent, since)
  BY <1>3, WithOK
<1> QED BY <1>4, <1>5 DEF Moved, Waits

LEMMA FollowMoves ==
  ASSUME IrInv, NEW s \in Slots, th[s].at # "free",
         Node(s).kind \in {"WAIT_EVENT", "ACTION", "EMIT"}, NEW status, Follow(s, status)
  PROVE  Moved(s)
<1> DEFINE to == TransitionTarget(Node(s), status)
<1>1. to = Nowhere \/ to \in DOMAIN nodes BY Standing, FollowLeads
<1>2. CASE to = Nowhere
  <2>1. Dies(s) BY <1>2 DEF Follow
  <2> QED BY <2>1, DiesMoves
<1>3. CASE to # Nowhere
  <2>1. GoTo(s, to) BY <1>3 DEF Follow
  <2>2. to \in DOMAIN nodes BY <1>1, <1>3
  <2> HIDE DEF to
  <2> QED BY <2>1, <2>2, GoToMoves
<1> QED BY <1>2, <1>3

LEMMA ReturnsMoves ==
  ASSUME IrInv, NEW s \in Slots, th[s].at # "free", Returns(s)
  PROVE  Moved(s)
<1> DEFINE rest == Front(th[s].stack)
           t == [Idle EXCEPT !.at = "loop", !.stack = rest]
<1>1. th[s] \in Thread(nodes) /\ th[s].stack # << >> BY Standing
<1>2. rest \in Seq(Frame(nodes)) BY <1>1, TopFrame
<1>3. CASE rest = << >>
  <2>1. Dies(s) BY <1>3 DEF Returns, Dies
  <2> QED BY <2>1, DiesMoves
<1>4. CASE rest # << >>
  <2>1. th' = [th EXCEPT ![s] = t] BY <1>4 DEF Returns, Become
  <2>2. Idle \in Thread(nodes) BY IdleOK
  <2> HIDE DEF rest
  <2>3. t \in Thread(nodes) /\ t.at = "loop" /\ t.stack = rest /\ t.got = NoEvent
    BY <1>2, <2>2 DEF Thread, Idle, Places
  <2> HIDE DEF t
  <2>4. \A since : ThreadOK(nodes, t, NoEvent, since) BY <1>4, <2>3 DEF ThreadOK, Waits
  <2> QED BY <2>1, <2>3, <2>4 DEF Moved, Waits
<1> QED BY <1>3, <1>4

LEMMA LoopEndsKeeps ==
  ASSUME IrInv, NEW s \in Slots, LoopEnds(s)
  PROVE  IrInv'
<1>1. th[s].at = "loop" BY DEF LoopEnds, At
<1>2. Moved(s) BY <1>1, ReturnsMoves DEF LoopEnds
<1> QED BY <1>1, <1>2, MovedKeeps DEF LoopEnds, Waits

\* Action, WaitMulti: the thread turns to the node's work.
LEMMA TurnsKeeps ==
  ASSUME IrInv, NEW s \in Slots, Action(s) \/ WaitMulti(s)
  PROVE  IrInv'
<1>1. th[s].at = "loop" BY DEF Action, WaitMulti, Reaches, InLoop, At
<1>2. /\ th[s] \in Thread(nodes) /\ th[s].stack # << >> /\ Node(s) = Here(nodes, th[s])
      /\ ThreadOK(nodes, th[s], box[s], hist.since[s])
  BY <1>1, Standing
<1>3. th[s].got = NoEvent BY <1>1, <1>2 DEF ThreadOK
<1>4. CASE Action(s)
  <2> DEFINE t == [th[s] EXCEPT !.at = "act"]
  <2>1. th' = [th EXCEPT ![s] = t] /\ Node(s).kind = "ACTION"
    BY <1>4 DEF Action, Move, Become, Reaches
  <2>2. t \in Thread(nodes) /\ \A since : ThreadOK(nodes, t, NoEvent, since)
    BY <1>2, <1>3, <2>1, MovedOK
  <2>3. t.at = "act" BY <1>2 DEF Thread
  <2> HIDE DEF t
  <2>4. Moved(s) BY <2>1, <2>2, <2>3 DEF Moved, Waits
  <2> QED BY <1>1, <1>4, <2>4, MovedKeeps DEF Action, Waits
<1>5. CASE WaitMulti(s)
  <2> DEFINE u == [th[s] EXCEPT !.age = 0]
             t == [u EXCEPT !.at = "multi"]
  <2>1. Become(s, [th[s] EXCEPT !.at = "multi", !.age = 0]) /\ Node(s).kind = "WAIT_MULTI"
    BY <1>5 DEF WaitMulti, Reaches
  <2>2. th' = [th EXCEPT ![s] = [th[s] EXCEPT !.at = "multi", !.age = 0]] BY <2>1 DEF Become
  <2>3. t = [th[s] EXCEPT !.at = "multi", !.age = 0] BY <1>2 DEF Thread
  <2>4. MaxMs \in Nat BY IrAssumption
  <2>5. u \in Thread(nodes) /\ u.stack = th[s].stack /\ u.got = NoEvent
    BY <1>2, <1>3, <2>4 DEF Thread
  <2>6. Here(nodes, u).kind = "WAIT_MULTI" BY <1>2, <2>1, <2>5 DEF Here
  <2> HIDE DEF u
  <2>7. t \in Thread(nodes) /\ \A since : ThreadOK(nodes, t, NoEvent, since)
    BY <1>2, <2>5, <2>6, MovedOK
  <2>8. t.at = "multi" BY <2>5 DEF Thread
  <2>9. th' = [th EXCEPT ![s] = t] BY <2>2, <2>3
  <2> HIDE DEF t
  <2>10. Moved(s) BY <2>7, <2>8, <2>9 DEF Moved, Waits
  <2> QED BY <1>1, <1>5, <2>10, MovedKeeps DEF WaitMulti, Waits
<1> QED BY <1>4, <1>5

LEMMA ParallelKeeps ==
  ASSUME IrInv, NEW s \in Slots, Parallel(s)
  PROVE  IrInv'
<1> DEFINE k == Top(s).branch + 1
           branches == Node(s).branches
<1>1. th[s].at = "loop" /\ Node(s).kind = "PARALLEL" BY DEF Parallel, Reaches, InLoop, At
<1>2. /\ th[s] \in Thread(nodes) /\ th[s].stack # << >> /\ TypedNode(Node(s))
      /\ ThreadOK(nodes, th[s], box[s], hist.since[s]) /\ Targets(Node(s)) \subseteq DOMAIN nodes
      /\ Top(s) \in Frame(nodes)
  BY <1>1, Standing
<1>3. Range(branches) \cup {Node(s).join} \subseteq DOMAIN nodes BY <1>1, <1>2 DEF Targets
<1>4. IsList(branches) BY <1>1, <1>2 DEF TypedNode
<1>5. CASE k > Len(branches)
  <2>1. GoTo(s, Node(s).join) BY <1>5 DEF Parallel
  <2>2. Moved(s) BY <1>1, <1>3, <2>1, GoToMoves
  <2> QED BY <1>1, <2>2, MovedKeeps DEF Parallel, Waits
<1>6. CASE ~(k > Len(branches))
  <2> DEFINE f == [Last(th[s].stack) EXCEPT !.branch = k]
             low == Append(Front(th[s].stack), f)
             stack == Append(low, Call(branches[k]))
             t == [th[s] EXCEPT !.stack = stack]
  <2>1. th' = [th EXCEPT ![s] = t] BY <1>6 DEF Parallel, Become
  <2>2. /\ Last(th[s].stack) \in Frame(nodes) /\ Front(th[s].stack) \in Seq(Frame(nodes))
    BY <1>2, TopFrame
  <2>3. k \in Nat /\ Top(s).branch \in Nat BY <1>2 DEF Frame
  <2>4. k \in 1 .. Len(branches) BY <1>4, <1>6, <2>3, ListIsSeq
  <2>5. branches[k] \in DOMAIN nodes BY <1>3, <1>4, <2>4, ListIsSeq
  <2>6. Call(branches[k]) \in Frame(nodes) BY <2>5 DEF Call, Frame
  <2>7. f \in Frame(nodes) BY <2>2, <2>3 DEF Frame
  <2> HIDE DEF f, k
  <2>8. low \in Seq(Frame(nodes)) BY <2>2, <2>7, AppendTop
  <2> HIDE DEF low
  <2>9. stack \in Seq(Frame(nodes)) /\ stack # << >> BY <2>6, <2>8, AppendTop
  <2> HIDE DEF stack
  <2>10. t \in Thread(nodes) /\ t.at = "loop" /\ t.stack = stack /\ t.got = NoEvent
    BY <1>1, <1>2, <2>9 DEF Thread, ThreadOK
  <2> HIDE DEF t
  <2>11. Moved(s) BY <2>1, <2>9, <2>10 DEF Moved, ThreadOK, Waits
  <2> QED BY <1>1, <2>11, MovedKeeps DEF Parallel, Waits
<1> QED BY <1>5, <1>6

\* ActionFails, ActionSucceeds, ActionRaises: what a handler does.
LEMMA HandlerKeeps ==
  ASSUME IrInv, NEW s \in Slots, ActionFails(s) \/ ActionSucceeds(s) \/ ActionRaises(s)
  PROVE  IrInv'
<1>1. th[s].at = "act" BY DEF ActionFails, ActionSucceeds, ActionRaises, At
<1>2. /\ th[s] \in Thread(nodes) /\ ThreadOK(nodes, th[s], box[s], hist.since[s])
      /\ Node(s) = Here(nodes, th[s])
  BY <1>1, Standing
<1>3. Node(s).kind = "ACTION" /\ th[s].got = NoEvent BY <1>1, <1>2 DEF ThreadOK
<1>4. Moved(s)
  <2>1. CASE ActionFails(s) BY <1>1, <1>3, <2>1, FollowMoves DEF ActionFails
  <2>2. CASE ActionSucceeds(s) BY <1>1, <1>3, <2>2, FollowMoves DEF ActionSucceeds
  <2>3. CASE ActionRaises(s)
    <3> DEFINE t == [th[s] EXCEPT !.tries = @ + 1]
    <3>1. CASE th[s].tries < 2 /\ Become(s, t)
      <4>1. th[s].tries \in 0 .. 2 BY <1>2 DEF Thread
      <4>2. th[s].tries + 1 \in 0 .. 2 BY <3>1, <4>1
      <4>3. t \in Thread(nodes) /\ t.at = "act" /\ t.stack = th[s].stack /\ t.got = NoEvent
        BY <1>1, <1>2, <1>3, <4>2 DEF Thread
      <4>4. th' = [th EXCEPT ![s] = t] BY <3>1 DEF Become
      <4> HIDE DEF t
      <4>5. Here(nodes, t).kind = "ACTION" BY <1>2, <1>3, <4>3 DEF Here
      <4>6. \A since : ThreadOK(nodes, t, NoEvent, since)
        BY <1>1, <1>2, <4>3, <4>5 DEF ThreadOK, Waits
      <4> QED BY <4>3, <4>4, <4>6 DEF Moved, Waits
    <3>2. CASE Dies(s) BY <3>2, DiesMoves
    <3> QED BY <2>3, <3>1, <3>2 DEF ActionRaises
  <2> QED BY <2>1, <2>2, <2>3
<1> QED BY <1>1, <1>4, MovedKeeps DEF ActionFails, ActionSucceeds, ActionRaises, Waits

LEMMA EmitKeeps ==
  ASSUME IrInv, NEW s \in Slots, Emit(s)
  PROVE  IrInv'
<1>1. th[s].at = "loop" /\ Node(s).kind = "EMIT" BY DEF Emit, Reaches, InLoop, At
<1>2. Node(s).event \in Namespaced BY <1>1, Standing DEF SoundNode, ValidNode
<1>3. PICK t \in Thread(nodes) :
        /\ t.at \notin Waits /\ th' = [th EXCEPT ![s] = t]
        /\ \A since : ThreadOK(nodes, t, NoEvent, since)
  <2>1. Moved(s) BY <1>1, FollowMoves DEF Emit
  <2> QED BY <2>1 DEF Moved
<1>4. /\ hist' \in [published : Nat, waits : [Slots -> Nat], since : [Slots -> Nat]]
      /\ hist'.waits = hist.waits /\ hist'.since = hist.since /\ hist.published < hist'.published
      /\ callbacks' \subseteq [thread : Slots, wait : Nat, event : Event]
      /\ \A c \in callbacks' : c \in callbacks \/ NewCallback(c)
  BY <1>2, PublishedOK DEF Emit
<1>5. source' = source /\ box' = box /\ subs' = subs BY DEF Emit, application
<1>6. ControlOK' BY DEF Emit, application, flags, ControlOK, IrInv
<1>7. /\ box[s] = NoEvent /\ hist.since[s] <= hist.published
      /\ hist \in [published : Nat, waits : [Slots -> Nat], since : [Slots -> Nat]]
      /\ box \in [Slots -> Event] /\ subs \subseteq Slots \X Namespaced
  BY <1>1 DEF IrInv, ThreadsOK, ThreadOK, Waits, DataOK
<1>8. /\ hist.published <= hist'.published /\ hist'.since[s] <= hist'.published
  BY <1>4, <1>7
<1>9. ThreadOK(nodes, t, box'[s], hist'.since[s]) BY <1>3, <1>5, <1>7
<1>10. \A x \in subs : x[1] # s BY <1>1 DEF IrInv, SubsOK, Waits
<1>11. \A x \in subs' : IF x[1] = s THEN t.at \in Waits /\ x[2] \in Awaited(nodes, t) ELSE x \in subs
  BY <1>5, <1>10
<1>12. \A c \in callbacks' :
         IF c.thread = s
           THEN /\ c.wait <= hist'.waits[s]
                /\ c.wait = hist'.waits[s] /\ t.at \in {"subscribe", "wait"}
                     => Fresh(nodes, t, c.event, hist'.since[s])
           ELSE c \in callbacks \/ NewCallback(c)
  <2> SUFFICES ASSUME NEW c \in callbacks', c.thread = s
               PROVE  c.wait <= hist'.waits[s] /\ t.at \notin {"subscribe", "wait"}
    BY <1>4
  <2>1. t.at \notin {"subscribe", "wait"} BY <1>3 DEF Waits
  <2>2. ~NewCallback(c)
    <3>1. <<c.thread, c.event.name>>[1] = s OBVIOUS
    <3> QED BY <1>10, <3>1 DEF NewCallback
  <2>3. c \in callbacks BY <1>4, <2>2
  <2>4. c.wait <= hist.waits[s] BY <2>3 DEF IrInv, CallbacksOK
  <2> QED BY <1>4, <2>1, <2>4
<1>13. \A u \in Slots : u # s => /\ box'[u] = box[u] /\ hist'.since[u] = hist.since[u]
                                /\ hist'.waits[u] = hist.waits[u]
  BY <1>4, <1>5
<1>14. box' \in [Slots -> Event] /\ subs' \subseteq Slots \X Namespaced BY <1>5, <1>7
<1> QED BY <1>3, <1>4, <1>5, <1>6, <1>8, <1>9, <1>11, <1>12, <1>13, <1>14, OneThread

-----------------------------------------------------------------------------
(* The steps of a wait.                                                    *)

\* A wait begins with an empty box; what callbacks are on their way are not its own.
LEMMA OpenWaitKeeps ==
  ASSUME IrInv, NEW s \in Slots, th[s].at \in {"loop", "multi"},
         Node(s).kind \in {"WAIT_EVENT", "WAIT_MULTI"}, NamesOf(Node(s)) # {}, OpenWait(s),
         UNCHANGED <<application, flags, subs, callbacks>>
  PROVE  IrInv'
<1> DEFINE t == [th[s] EXCEPT !.at = "subscribe", !.names = NamesOf(Node(s))]
<1>1. /\ th[s] \in Thread(nodes) /\ th[s].stack # << >> /\ Node(s) = Here(nodes, th[s])
      /\ SoundNode(Node(s)) /\ ThreadOK(nodes, th[s], box[s], hist.since[s])
  BY Standing
<1>2. th[s].got = NoEvent BY <1>1 DEF ThreadOK
<1>3. NamesOf(Node(s)) \subseteq Nat BY <1>1, NamesArePlaced
<1>4. /\ t \in Thread(nodes) /\ t.at = "subscribe" /\ t.stack = th[s].stack
      /\ t.got = NoEvent /\ t.names = NamesOf(Node(s))
  BY <1>1, <1>2, <1>3 DEF Thread, Places
<1>5. th' = [th EXCEPT ![s] = t] BY DEF OpenWait, Become
<1> HIDE DEF t
<1>6. /\ hist \in [published : Nat, waits : [Slots -> Nat], since : [Slots -> Nat]]
      /\ box \in [Slots -> Event] /\ subs \subseteq Slots \X Namespaced
      /\ callbacks \subseteq [thread : Slots, wait : Nat, event : Event]
  BY DEF IrInv, DataOK
<1>7. /\ hist' = [hist EXCEPT !.waits[s] = @ + 1, !.since[s] = hist.published]
      /\ box' = [box EXCEPT ![s] = NoEvent]
  BY DEF OpenWait
<1>8. /\ hist'.published = hist.published
      /\ hist'.waits = [hist.waits EXCEPT ![s] = hist.waits[s] + 1]
      /\ hist'.since = [hist.since EXCEPT ![s] = hist.published]
      /\ hist' \in [published : Nat, waits : [Slots -> Nat], since : [Slots -> Nat]]
  <2> DEFINE w == [hist.waits EXCEPT ![s] = hist.waits[s] + 1]
             n == [hist.since EXCEPT ![s] = hist.published]
  <2>1. hist' = [[hist EXCEPT !.waits = w] EXCEPT !.since = n] BY <1>6, <1>7
  <2>2. w \in [Slots -> Nat] /\ n \in [Slots -> Nat] BY <1>6
  <2> HIDE DEF w, n
  <2>3. /\ hist'.published = hist.published /\ hist'.waits = w /\ hist'.since = n
        /\ hist' \in [published : Nat, waits : [Slots -> Nat], since : [Slots -> Nat]]
    BY <1>6, <2>1, <2>2
  <2> QED BY <2>3 DEF w, n
<1>9. NoEvent \in Event BY IdleOK
<1>10. box' \in [Slots -> Event] /\ box'[s] = NoEvent BY <1>6, <1>7, <1>9
<1>11. source' = source /\ subs' = subs /\ callbacks' = callbacks BY DEF application
<1>12. ControlOK' BY DEF application, flags, ControlOK, IrInv
<1>13. Here(nodes, t) = Node(s) BY <1>1, <1>4 DEF Here
<1>14. ThreadOK(nodes, t, box'[s], hist'.since[s])
  BY <1>1, <1>4, <1>10, <1>13 DEF ThreadOK, Waits
<1>15. hist.published <= hist'.published /\ hist'.since[s] <= hist'.published BY <1>6, <1>8
<1>16. \A x \in subs' : IF x[1] = s THEN t.at \in Waits /\ x[2] \in Awaited(nodes, t) ELSE x \in subs
  <2>1. \A x \in subs : x[1] # s BY DEF IrInv, SubsOK, Waits
  <2> QED BY <1>11, <2>1
<1>17. \A c \in callbacks' :
         IF c.thread = s
           THEN /\ c.wait <= hist'.waits[s]
                /\ c.wait = hist'.waits[s] /\ t.at \in {"subscribe", "wait"}
                     => Fresh(nodes, t, c.event, hist'.since[s])
           ELSE c \in callbacks \/ NewCallback(c)
  <2> SUFFICES ASSUME NEW c \in callbacks, c.thread = s
               PROVE  c.wait <= hist'.waits[s] /\ c.wait # hist'.waits[s]
    BY <1>11
  <2>1. c.wait <= hist.waits[s] BY DEF IrInv, CallbacksOK
  <2>2. c.wait \in Nat /\ hist.waits[s] \in Nat
    <3>1. c \in [thread : Slots, wait : Nat, event : Event] BY <1>6
    <3> QED BY <1>6, <3>1
  <2>3. hist'.waits[s] = hist.waits[s] + 1 BY <1>6, <1>8
  <2> QED BY <2>1, <2>2, <2>3
<1>18. \A u \in Slots : u # s => /\ box'[u] = box[u] /\ hist'.since[u] = hist.since[u]
                                /\ hist'.waits[u] = hist.waits[u]
  BY <1>6, <1>7, <1>8
<1>19. /\ subs' \subseteq Slots \X Namespaced
       /\ callbacks' \subseteq [thread : Slots, wait : Nat, event : Event]
  BY <1>6, <1>11
<1> QED BY <1>4, <1>5, <1>8, <1>10, <1>11, <1>12, <1>14, <1>15, <1>16, <1>17, <1>18, <1>19, OneThread

LEMMA WaitEventKeeps ==
  ASSUME IrInv, NEW s \in Slots, WaitEvent(s)
  PROVE  IrInv'
<1>1. th[s].at = "loop" /\ Node(s).kind = "WAIT_EVENT" BY DEF WaitEvent, Reaches, InLoop, At
<1>2. CASE NamesOf(Node(s)) = {}
  <2>1. Dies(s) /\ UNCHANGED <<box, hist>> BY <1>2 DEF WaitEvent
  <2>2. UNCHANGED <<application, flags, events, hist>> BY <2>1 DEF WaitEvent, events
  <2> QED BY <1>1, <2>1, <2>2, DiesMoves, MovedKeeps DEF Waits
<1>3. CASE NamesOf(Node(s)) # {}
  <2>1. OpenWait(s) BY <1>3 DEF WaitEvent
  <2>2. UNCHANGED <<application, flags, subs, callbacks>> BY DEF WaitEvent
  <2> QED BY <1>1, <1>3, <2>1, <2>2, OpenWaitKeeps
<1> QED BY <1>2, <1>3

LEMMA MultiLoopKeeps ==
  ASSUME IrInv, NEW s \in Slots, MultiLoop(s)
  PROVE  IrInv'
<1>1. th[s].at = "multi" BY DEF MultiLoop, At
<1>2. /\ Node(s) = Here(nodes, th[s]) /\ TypedNode(Node(s)) /\ Targets(Node(s)) \subseteq DOMAIN nodes
      /\ ThreadOK(nodes, th[s], box[s], hist.since[s])
  BY <1>1, Standing
<1>3. Node(s).kind = "WAIT_MULTI" BY <1>1, <1>2 DEF ThreadOK
<1>4. UNCHANGED <<application, flags, subs, callbacks>> BY DEF MultiLoop
<1>5. CASE ~(running /\ runningIr)
  <2>1. Returns(s) /\ UNCHANGED <<box, hist>> BY <1>5 DEF MultiLoop
  <2>2. UNCHANGED <<application, flags, events, hist>> BY <1>4, <2>1 DEF events
  <2> QED BY <1>1, <2>1, <2>2, ReturnsMoves, MovedKeeps DEF Waits
<1>6. CASE running /\ runningIr /\ TimedOut(s)
  <2> DEFINE id == Best(Node(s).options, Due(s)).to
  <2>1. GoTo(s, id) /\ UNCHANGED <<box, hist>> BY <1>6 DEF MultiLoop
  <2>2. UNCHANGED <<application, flags, events, hist>> BY <1>4, <2>1 DEF events
  <2>3. Due(s) \subseteq DOMAIN Node(s).options /\ Due(s) # {}
    BY <1>6 DEF TimedOut, Due, TimeoutsOf
  <2>4. id \in DOMAIN nodes BY <1>2, <1>3, <2>3, OptionLeads
  <2> HIDE DEF id
  <2> QED BY <1>1, <2>1, <2>2, <2>4, GoToMoves, MovedKeeps DEF Waits
<1>7. CASE running /\ runningIr /\ ~TimedOut(s)
  <2>1. NamesOf(Node(s)) # {} /\ OpenWait(s) BY <1>7 DEF MultiLoop
  <2> QED BY <1>1, <1>3, <1>4, <2>1, OpenWaitKeeps
<1> QED BY <1>5, <1>6, <1>7

LEMMA SubscribeKeeps ==
  ASSUME IrInv, NEW s \in Slots, Subscribe(s)
  PROVE  IrInv'
<1> DEFINE next == Min(th[s].names)
           names == th[s].names \ {next}
           name == NameAt(Node(s), next)
           t == [th[s] EXCEPT !.names = names, !.at = IF names = {} THEN "wait" ELSE @]
<1>1. th[s].at = "subscribe" BY DEF Subscribe, At
<1>2. /\ th[s] \in Thread(nodes) /\ th[s].stack # << >> /\ Node(s) = Here(nodes, th[s])
      /\ SoundNode(Node(s)) /\ ThreadOK(nodes, th[s], box[s], hist.since[s])
  BY <1>1, Standing
<1>3. /\ Node(s).kind \in {"WAIT_EVENT", "WAIT_MULTI"} /\ th[s].got = NoEvent
      /\ th[s].names # {} /\ th[s].names \subseteq NamesOf(Node(s))
  BY <1>1, <1>2 DEF ThreadOK, Waits
<1>4. /\ th[s].names \subseteq Nat
      /\ \A i \in NamesOf(Node(s)) : NameAt(Node(s), i) \in Namespaced
  BY <1>2, <1>3, NamesArePlaced
<1>5. next \in th[s].names BY <1>3, <1>4, MinIsLeast
<1>6. name \in Namespaced /\ name \in Awaited(nodes, th[s])
  BY <1>2, <1>3, <1>4, <1>5 DEF Awaited
<1>7. th' = [th EXCEPT ![s] = t] /\ subs' = subs \cup {<<s, name>>}
  BY DEF Subscribe, Become
<1> HIDE DEF next, name
<1>8. /\ t \in Thread(nodes) /\ t.stack = th[s].stack /\ t.got = NoEvent /\ t.names = names
      /\ t.at = IF names = {} THEN "wait" ELSE "subscribe"
  BY <1>1, <1>2, <1>3, <1>4 DEF Thread, Places
<1>9. names \subseteq NamesOf(Node(s)) BY <1>3
<1> HIDE DEF t, names
<1>10. /\ hist \in [published : Nat, waits : [Slots -> Nat], since : [Slots -> Nat]]
       /\ box \in [Slots -> Event] /\ subs \subseteq Slots \X Namespaced
       /\ callbacks \subseteq [thread : Slots, wait : Nat, event : Event]
  BY DEF IrInv, DataOK
<1>11. source' = source /\ box' = box /\ callbacks' = callbacks /\ hist' = hist
  BY DEF Subscribe, application
<1>12. ControlOK' BY DEF Subscribe, application, flags, ControlOK, IrInv
<1>13. Here(nodes, t) = Node(s) /\ Awaited(nodes, t) = Awaited(nodes, th[s])
  BY <1>2, <1>8 DEF Here, Awaited
<1>14. ThreadOK(nodes, t, box'[s], hist'.since[s])
  BY <1>1, <1>2, <1>3, <1>8, <1>9, <1>11, <1>13 DEF ThreadOK, Fresh, Waits
<1>15. \A x \in subs' : IF x[1] = s THEN t.at \in Waits /\ x[2] \in Awaited(nodes, t) ELSE x \in subs
  <2>1. \A x \in subs : x[1] = s => x[2] \in Awaited(nodes, th[s]) BY DEF IrInv, SubsOK
  <2>2. t.at \in Waits BY <1>8 DEF Waits
  <2>3. <<s, name>>[1] = s /\ <<s, name>>[2] = name OBVIOUS
  <2>4. \A x \in subs' : x \in subs \/ x = <<s, name>> BY <1>7
  <2> QED BY <1>6, <1>13, <2>1, <2>2, <2>3, <2>4
<1>16. \A c \in callbacks' :
         IF c.thread = s
           THEN /\ c.wait <= hist'.waits[s]
                /\ c.wait = hist'.waits[s] /\ t.at \in {"subscribe", "wait"}
                     => Fresh(nodes, t, c.event, hist'.since[s])
           ELSE c \in callbacks \/ NewCallback(c)
  BY <1>1, <1>11, <1>13 DEF IrInv, CallbacksOK, Fresh
<1>17. subs' \subseteq Slots \X Namespaced BY <1>6, <1>7, <1>10
<1>18. /\ hist.published <= hist'.published /\ hist'.since[s] <= hist'.published
       /\ hist' \in [published : Nat, waits : [Slots -> Nat], since : [Slots -> Nat]]
       /\ box' \in [Slots -> Event] /\ callbacks' \subseteq [thread : Slots, wait : Nat, event : Event]
  BY <1>10, <1>11 DEF IrInv, ThreadsOK
<1>19. \A u \in Slots : u # s => /\ box'[u] = box[u] /\ hist'.since[u] = hist.since[u]
                                /\ hist'.waits[u] = hist.waits[u]
  BY <1>11
<1> QED BY <1>7, <1>8, <1>11, <1>12, <1>14, <1>15, <1>16, <1>17, <1>18, <1>19, OneThread

LEMMA WakeKeeps ==
  ASSUME IrInv, NEW s \in Slots, Wake(s)
  PROVE  IrInv'
<1> DEFINE t == [th[s] EXCEPT !.at = "unsubscribe", !.got = box[s]]
<1>1. th[s].at = "wait" BY DEF Wake, At
<1>2. /\ th[s] \in Thread(nodes) /\ th[s].stack # << >> /\ Node(s) = Here(nodes, th[s])
      /\ ThreadOK(nodes, th[s], box[s], hist.since[s])
  BY <1>1, Standing
<1>3. /\ hist \in [published : Nat, waits : [Slots -> Nat], since : [Slots -> Nat]]
      /\ box \in [Slots -> Event] /\ subs \subseteq Slots \X Namespaced
      /\ callbacks \subseteq [thread : Slots, wait : Nat, event : Event]
  BY DEF IrInv, DataOK
<1>4. th' = [th EXCEPT ![s] = t] BY DEF Wake, Become
<1>5. t \in Thread(nodes) /\ t.stack = th[s].stack /\ t.got = box[s] /\ t.at = "unsubscribe"
  BY <1>2, <1>3 DEF Thread, Places
<1> HIDE DEF t
<1>6. source' = source /\ box' = box /\ subs' = subs /\ callbacks' = callbacks /\ hist' = hist
  BY DEF Wake, application, events
<1>7. ControlOK' BY DEF Wake, application, flags, ControlOK, IrInv
<1>8. Here(nodes, t) = Node(s) /\ Awaited(nodes, t) = Awaited(nodes, th[s])
  BY <1>2, <1>5 DEF Here, Awaited
<1>9. box[s] = NoEvent => Node(s).kind = "WAIT_MULTI" BY DEF Wake, TimedOut
<1>10. ThreadOK(nodes, t, box'[s], hist'.since[s])
  BY <1>1, <1>2, <1>5, <1>6, <1>8, <1>9 DEF ThreadOK, Fresh, Waits
<1>11. \A x \in subs' : IF x[1] = s THEN t.at \in Waits /\ x[2] \in Awaited(nodes, t) ELSE x \in subs
  BY <1>5, <1>6, <1>8 DEF IrInv, SubsOK, Waits
<1>12. \A c \in callbacks' :
         IF c.thread = s
           THEN /\ c.wait <= hist'.waits[s]
                /\ c.wait = hist'.waits[s] /\ t.at \in {"subscribe", "wait"}
                     => Fresh(nodes, t, c.event, hist'.since[s])
           ELSE c \in callbacks \/ NewCallback(c)
  BY <1>5, <1>6 DEF IrInv, CallbacksOK
<1>13. /\ hist.published <= hist'.published /\ hist'.since[s] <= hist'.published
       /\ hist' \in [published : Nat, waits : [Slots -> Nat], since : [Slots -> Nat]]
       /\ box' \in [Slots -> Event] /\ subs' \subseteq Slots \X Namespaced
       /\ callbacks' \subseteq [thread : Slots, wait : Nat, event : Event]
  BY <1>3, <1>6 DEF IrInv, ThreadsOK
<1>14. \A u \in Slots : u # s => /\ box'[u] = box[u] /\ hist'.since[u] = hist.since[u]
                                /\ hist'.waits[u] = hist.waits[u]
  BY <1>6
<1> QED BY <1>4, <1>5, <1>6, <1>7, <1>10, <1>11, <1>12, <1>13, <1>14, OneThread

\* The wait is over: its box and its subscriptions are gone.
LEMMA UnsubscribeKeeps ==
  ASSUME IrInv, NEW s \in Slots, Unsubscribe(s)
  PROVE  IrInv'
<1> DEFINE options == Node(s).options
           candidates == {i \in EventsOf(Node(s)) : options[i].event = th[s].got.name}
<1>1. th[s].at = "unsubscribe" BY DEF Unsubscribe, At
<1>2. /\ th[s] \in Thread(nodes) /\ th[s].stack # << >> /\ Node(s) = Here(nodes, th[s])
      /\ TypedNode(Node(s)) /\ Targets(Node(s)) \subseteq DOMAIN nodes
      /\ ThreadOK(nodes, th[s], box[s], hist.since[s])
  BY <1>1, Standing
<1>3. Node(s).kind \in {"WAIT_EVENT", "WAIT_MULTI"} BY <1>1, <1>2 DEF ThreadOK, Waits
<1>4. Moved(s)
  <2>1. CASE Node(s).kind = "WAIT_EVENT"
    <3>1. Follow(s, "ok") BY <2>1 DEF Unsubscribe
    <3> QED BY <1>1, <2>1, <3>1, FollowMoves
  <2>2. CASE Node(s).kind = "WAIT_MULTI" /\ th[s].got = NoEvent
    <3> DEFINE t == [th[s] EXCEPT !.at = "multi"]
    <3>1. th' = [th EXCEPT ![s] = t] BY <2>2 DEF Unsubscribe, Move, Become
    <3>2. t \in Thread(nodes) /\ \A since : ThreadOK(nodes, t, NoEvent, since)
      BY <1>2, <2>2, MovedOK
    <3>3. t.at = "multi" BY <1>2 DEF Thread
    <3> HIDE DEF t
    <3> QED BY <3>1, <3>2, <3>3 DEF Moved, Waits
  <2>3. CASE Node(s).kind = "WAIT_MULTI" /\ th[s].got # NoEvent
    <3>1. GoTo(s, Best(options, candidates).to) BY <2>3 DEF Unsubscribe
    <3>2. th[s].got.name \in Awaited(nodes, th[s]) BY <1>2, <2>3 DEF ThreadOK, Fresh
    <3>3. PICK i \in NamesOf(Node(s)) : NameAt(Node(s), i) = th[s].got.name
      BY <1>2, <3>2 DEF Awaited
    <3>4. i \in EventsOf(Node(s)) /\ options[i].event = th[s].got.name
      BY <2>3, <3>3 DEF NamesOf, NameAt
    <3>5. candidates # {} BY <3>4
    <3>6. candidates \subseteq DOMAIN options BY DEF EventsOf
    <3>7. Best(options, candidates).to \in DOMAIN nodes BY <1>2, <2>3, <3>5, <3>6, OptionLeads
    <3> HIDE DEF options, candidates
    <3> QED BY <1>1, <3>1, <3>7, GoToMoves
  <2> QED BY <1>3, <2>1, <2>2, <2>3
<1>5. PICK t \in Thread(nodes) :
        /\ t.at \notin Waits /\ th' = [th EXCEPT ![s] = t]
        /\ \A since : ThreadOK(nodes, t, NoEvent, since)
  BY <1>4 DEF Moved
<1>6. /\ hist \in [published : Nat, waits : [Slots -> Nat], since : [Slots -> Nat]]
      /\ box \in [Slots -> Event] /\ subs \subseteq Slots \X Namespaced
      /\ callbacks \subseteq [thread : Slots, wait : Nat, event : Event]
  BY DEF IrInv, DataOK
<1>7. /\ source' = source /\ callbacks' = callbacks /\ hist' = hist
      /\ subs' = {x \in subs : x[1] # s} /\ box' = [box EXCEPT ![s] = NoEvent]
  BY DEF Unsubscribe, application
<1>8. ControlOK' BY DEF Unsubscribe, application, flags, ControlOK, IrInv
<1>9. NoEvent \in Event BY IdleOK
<1>10. box' \in [Slots -> Event] /\ box'[s] = NoEvent /\ subs' \subseteq Slots \X Namespaced
  BY <1>6, <1>7, <1>9
<1>11. ThreadOK(nodes, t, box'[s], hist'.since[s]) BY <1>5, <1>10
<1>12. \A x \in subs' : IF x[1] = s THEN t.at \in Waits /\ x[2] \in Awaited(nodes, t) ELSE x \in subs
  BY <1>7
<1>13. \A c \in callbacks' :
         IF c.thread = s
           THEN /\ c.wait <= hist'.waits[s]
                /\ c.wait = hist'.waits[s] /\ t.at \in {"subscribe", "wait"}
                     => Fresh(nodes, t, c.event, hist'.since[s])
           ELSE c \in callbacks \/ NewCallback(c)
  BY <1>5, <1>7 DEF IrInv, CallbacksOK, Waits
<1>14. /\ hist.published <= hist'.published /\ hist'.since[s] <= hist'.published
       /\ hist' \in [published : Nat, waits : [Slots -> Nat], since : [Slots -> Nat]]
       /\ callbacks' \subseteq [thread : Slots, wait : Nat, event : Event]
  BY <1>6, <1>7 DEF IrInv, ThreadsOK
<1>15. \A u \in Slots : u # s => /\ box'[u] = box[u] /\ hist'.since[u] = hist.since[u]
                                /\ hist'.waits[u] = hist.waits[u]
  BY <1>6, <1>7
<1> QED BY <1>5, <1>7, <1>8, <1>10, <1>11, <1>12, <1>13, <1>14, <1>15, OneThread

\* A callback only writes to the box of the wait that subscribed it.
LEMMA CallbackKeeps ==
  ASSUME IrInv, NEW s \in Slots, Callback(s)
  PROVE  IrInv'
<1> DEFINE open == th[s].at \in {"subscribe", "wait"}
<1>1. PICK c \in callbacks :
        /\ c.thread = s
        /\ callbacks' = callbacks \ {c}
        /\ box' = IF c.wait = hist.waits[s] /\ open THEN [box EXCEPT ![s] = c.event] ELSE box
        /\ UNCHANGED <<application, flags, th, subs, hist>>
  BY DEF Callback
<1>2. /\ hist \in [published : Nat, waits : [Slots -> Nat], since : [Slots -> Nat]]
      /\ box \in [Slots -> Event] /\ subs \subseteq Slots \X Namespaced
      /\ callbacks \subseteq [thread : Slots, wait : Nat, event : Event]
      /\ th \in [Slots -> Thread(nodes)]
  BY DEF IrInv, DataOK
<1>3. c.event \in Event
  <2>1. c \in [thread : Slots, wait : Nat, event : Event] BY <1>2
  <2> QED BY <2>1
<1>4. source' = source /\ th' = th /\ subs' = subs /\ hist' = hist BY <1>1 DEF application
<1>5. ControlOK' BY <1>1 DEF application, flags, ControlOK, IrInv
<1>6. box' \in [Slots -> Event] /\ \A u \in Slots : u # s => box'[u] = box[u]
  BY <1>1, <1>2, <1>3
<1>7. ThreadOK(nodes, th[s], box[s], hist.since[s]) BY DEF IrInv, ThreadsOK
<1>8. ThreadOK(nodes, th[s], box'[s], hist'.since[s])
  <2>1. CASE ~(c.wait = hist.waits[s] /\ open) BY <1>1, <1>4, <1>7, <2>1
  <2>2. CASE c.wait = hist.waits[s] /\ open
    <3>1. box'[s] = c.event BY <1>1, <1>2, <2>2
    <3>2. Fresh(nodes, th[s], c.event, hist.since[s]) BY <1>1, <2>2 DEF IrInv, CallbacksOK
    <3>3. th[s].at \in Waits BY <2>2 DEF Waits
    <3> QED BY <1>4, <1>7, <3>1, <3>2, <3>3 DEF ThreadOK
  <2> QED BY <2>1, <2>2
<1>9. th[s] \in Thread(nodes) /\ th' = [th EXCEPT ![s] = th[s]] BY <1>2, <1>4
<1>10. \A x \in subs' :
         IF x[1] = s THEN th[s].at \in Waits /\ x[2] \in Awaited(nodes, th[s]) ELSE x \in subs
  BY <1>4 DEF IrInv, SubsOK
<1>11. \A d \in callbacks' :
         IF d.thread = s
           THEN /\ d.wait <= hist'.waits[s]
                /\ d.wait = hist'.waits[s] /\ th[s].at \in {"subscribe", "wait"}
                     => Fresh(nodes, th[s], d.event, hist'.since[s])
           ELSE d \in callbacks \/ NewCallback(d)
  BY <1>1, <1>4 DEF IrInv, CallbacksOK
<1>12. /\ hist.published <= hist'.published /\ hist'.since[s] <= hist'.published
       /\ hist' \in [published : Nat, waits : [Slots -> Nat], since : [Slots -> Nat]]
       /\ subs' \subseteq Slots \X Namespaced
       /\ callbacks' \subseteq [thread : Slots, wait : Nat, event : Event]
  BY <1>1, <1>2, <1>4 DEF IrInv, ThreadsOK
<1>13. \A u \in Slots : u # s => /\ box'[u] = box[u] /\ hist'.since[u] = hist.since[u]
                                /\ hist'.waits[u] = hist.waits[u]
  BY <1>4, <1>6
<1> QED BY <1>4, <1>5, <1>6, <1>8, <1>9, <1>10, <1>11, <1>12, <1>13, OneThread

-----------------------------------------------------------------------------
(* The steps of all threads, and of the application.                       *)

\* Threads that stay where they are in all that the invariant reads of them.
LEMMA SameThreads ==
  ASSUME IrInv, ControlOK', UNCHANGED <<source, events, hist>>,
         th' \in [Slots -> Thread(nodes)],
         \A s \in Slots :
           \/ th[s].at = "free" /\ th'[s].at = "loop" /\ th'[s].stack # << >> /\ th'[s].got = NoEvent
           \/ /\ th'[s].at = th[s].at /\ th'[s].stack = th[s].stack
              /\ th'[s].names = th[s].names /\ th'[s].got = th[s].got
  PROVE  IrInv'
<1> USE DEF IrInv
<1>1. nodes' = nodes /\ box' = box /\ subs' = subs /\ callbacks' = callbacks /\ hist' = hist
  BY NodesStay DEF events
<1> DEFINE Same(s) == /\ th'[s].at = th[s].at /\ th'[s].stack = th[s].stack
                      /\ th'[s].names = th[s].names /\ th'[s].got = th[s].got
<1>2. ASSUME NEW s \in Slots, Same(s)
      PROVE  Here(nodes, th'[s]) = Here(nodes, th[s]) /\ Awaited(nodes, th'[s]) = Awaited(nodes, th[s])
  BY <1>2 DEF Here, Awaited
<1>3. DataOK' BY <1>1 DEF DataOK
<1>4. ThreadsOK'
  <2> SUFFICES ASSUME NEW s \in Slots
               PROVE  ThreadOK(nodes, th'[s], box[s], hist.since[s]) /\ hist.since[s] <= hist.published
    BY <1>1 DEF ThreadsOK
  <2>1. ThreadOK(nodes, th[s], box[s], hist.since[s]) /\ hist.since[s] <= hist.published
    BY DEF ThreadsOK
  <2>2. CASE Same(s) BY <1>2, <2>1, <2>2 DEF ThreadOK, Fresh
  <2>3. CASE th[s].at = "free" /\ th'[s].at = "loop" /\ th'[s].stack # << >> /\ th'[s].got = NoEvent
    <3>1. box[s] = NoEvent BY <2>1, <2>3 DEF ThreadOK, Waits
    <3> QED BY <2>1, <2>3, <3>1 DEF ThreadOK, Waits
  <2> QED BY <2>2, <2>3
<1>5. SubsOK'
  <2> SUFFICES ASSUME NEW x \in subs
               PROVE  th'[x[1]].at \in Waits /\ x[2] \in Awaited(nodes, th'[x[1]])
    BY <1>1 DEF SubsOK
  <2>1. x[1] \in Slots BY DEF DataOK
  <2>2. th[x[1]].at \in Waits /\ x[2] \in Awaited(nodes, th[x[1]]) BY DEF SubsOK
  <2>3. Same(x[1]) BY <2>1, <2>2 DEF Waits
  <2> QED BY <1>2, <2>1, <2>2, <2>3
<1>6. CallbacksOK'
  <2> SUFFICES ASSUME NEW c \in callbacks
               PROVE  /\ c.wait <= hist.waits[c.thread]
                      /\ c.wait = hist.waits[c.thread] /\ th'[c.thread].at \in {"subscribe", "wait"}
                           => Fresh(nodes, th'[c.thread], c.event, hist.since[c.thread])
    BY <1>1 DEF CallbacksOK
  <2>1. c.thread \in Slots
    <3>1. c \in [thread : Slots, wait : Nat, event : Event] BY DEF DataOK
    <3> QED BY <3>1
  <2>2. c.wait <= hist.waits[c.thread] BY DEF CallbacksOK
  <2>3. CASE Same(c.thread) BY <1>2, <2>1, <2>3 DEF CallbacksOK, Fresh
  <2>4. CASE ~Same(c.thread) BY <2>1, <2>2, <2>4
  <2> QED BY <2>3, <2>4
<1> QED BY <1>3, <1>4, <1>5, <1>6

LEMMA TickKeeps ==
  ASSUME IrInv, Tick
  PROVE  IrInv'
<1>1. th \in [Slots -> Thread(nodes)] BY DEF IrInv, DataOK
<1>2. th' = [s \in Slots |->
              IF InMulti(s) /\ th[s].age < MaxMs THEN [th[s] EXCEPT !.age = @ + 1] ELSE th[s]]
  BY DEF Tick
<1>3. ASSUME NEW s \in Slots
      PROVE  /\ th'[s] \in Thread(nodes) /\ th'[s].at = th[s].at /\ th'[s].stack = th[s].stack
             /\ th'[s].names = th[s].names /\ th'[s].got = th[s].got
  <2>1. th[s] \in Thread(nodes) BY <1>1
  <2>2. CASE th[s].age < MaxMs
    <3>1. MaxMs \in Nat /\ th[s].age \in 0 .. MaxMs BY <2>1, IrAssumption DEF Thread
    <3>2. th[s].age + 1 \in 0 .. MaxMs BY <2>2, <3>1
    <3> DEFINE t == [th[s] EXCEPT !.age = @ + 1]
    <3>3. /\ t \in Thread(nodes) /\ t.at = th[s].at /\ t.stack = th[s].stack
          /\ t.names = th[s].names /\ t.got = th[s].got
      BY <2>1, <3>2 DEF Thread
    <3> HIDE DEF t
    <3>4. th'[s] = IF InMulti(s) THEN t ELSE th[s] BY <1>2, <2>2 DEF t
    <3> QED BY <2>1, <3>3, <3>4
  <2>3. CASE ~(th[s].age < MaxMs)
    <3>1. th'[s] = th[s] BY <1>2, <2>3
    <3> QED BY <2>1, <3>1
  <2> QED BY <2>2, <2>3
<1>4. th' \in [Slots -> Thread(nodes)] BY <1>2, <1>3
<1>5. ControlOK' BY DEF Tick, application, flags, ControlOK, IrInv
<1>6. UNCHANGED <<source, events, hist>> BY DEF Tick, application
<1> QED BY <1>3, <1>4, <1>5, <1>6, SameThreads

\* The free slots in some order.
LEMMA FreeInOrder ==
  SetToSeq(Free) \in Seq(Free) /\ Len(SetToSeq(Free)) = Cardinality(Free)
<1> DEFINE N == Cardinality(Free)
<1>1. IsFiniteSet(Free)
  <2>1. IsFiniteSet(Slots) /\ Free \in SUBSET Slots BY IrAssumption DEF Free
  <2> QED BY <2>1, FS_Subset
<1>2. N \in Nat /\ ExistsBijection(1 .. N, Free) BY <1>1, FS_CardinalityType
<1>3. PICK f \in Bijection(1 .. N, Free) : TRUE BY <1>2 DEF ExistsBijection
<1>4. f \in [1 .. N -> Free] /\ IsInjective(f) BY <1>3 DEF Bijection, Injection
<1>5. SetToSeq(Free) \in [1 .. N -> Free] BY <1>4 DEF SetToSeq
<1>6. SetToSeq(Free) \in Seq(Free) BY <1>2, <1>5, SeqDef
<1> QED BY <1>2, <1>5, <1>6, LenProperties

\* A call of run_ir that is left.
LEMMA RunTaken ==
  ASSUME ControlOK, source' = source, todo.runs > 0, todo' = [todo EXCEPT !.runs = @ - 1]
  PROVE  todo' \in [runs : 0 .. Calls[source].runs, publish : 0 .. Calls[source].publish]
<1>1. /\ todo \in [runs : 0 .. Calls[source].runs, publish : 0 .. Calls[source].publish]
      /\ Calls[source] \in [runs : Nat, publish : Nat]
  BY IrAssumption DEF ControlOK
<1>2. Calls[source].runs \in Nat /\ todo.runs \in 0 .. Calls[source].runs BY <1>1
<1>3. todo.runs - 1 \in 0 .. Calls[source].runs BY <1>2
<1> QED BY <1>1, <1>3

LEMMA RunIrKeeps ==
  ASSUME IrInv, RunIr
  PROVE  IrInv'
<1> DEFINE entries == Entries(graph)
           n == Len(entries)
           order == SetToSeq(Free)
           slots == SubSeq(order, 1, n)
           called(s) == entries[CHOOSE i \in DOMAIN slots : slots[i] = s]
           t(s) == [Idle EXCEPT !.at = "loop", !.stack = <<Call(called(s))>>]
<1>1. IsList(entries) /\ Range(entries) \subseteq DOMAIN nodes
  BY NodesSound DEF RunIr, CanRun, IrInv
<1>2. n \in Nat /\ DOMAIN entries = 1 .. n /\ \A i \in 1 .. n : entries[i] \in DOMAIN nodes
  BY <1>1, ListIsSeq
<1>3. Cardinality(Free) >= n BY DEF RunIr
<1>4. order \in Seq(Free) /\ Len(order) = Cardinality(Free) BY FreeInOrder
<1>5. th' = [s \in Slots |-> IF s \in Range(slots) THEN t(s) ELSE th[s]] BY DEF RunIr
<1> HIDE DEF entries, n, order
<1>6. slots \in Seq(Free) /\ Len(slots) = n
  <2>1. Cardinality(Free) \in Nat BY <1>4, LenProperties
  <2>2. \A i \in 1 .. n : order[i] \in Free
    <3>1. \A i \in 1 .. n : i \in 1 .. Len(order) BY <1>2, <1>3, <1>4, <2>1
    <3> QED BY <1>4, <3>1, ElementOfSeq
  <2> QED BY <1>2, <2>2, SubSeqProperties
<1> HIDE DEF slots
<1>7. DOMAIN slots = 1 .. n BY <1>6, LenProperties
<1>8. ASSUME NEW s \in Slots, s \in Range(slots)
      PROVE  /\ th[s].at = "free" /\ t(s) \in Thread(nodes) /\ t(s).at = "loop"
             /\ t(s).stack # << >> /\ t(s).got = NoEvent
  <2>1. \E i \in DOMAIN slots : slots[i] = s BY <1>8 DEF Range
  <2>2. called(s) \in DOMAIN nodes BY <1>2, <1>7, <2>1
  <2>3. th[s].at = "free" BY <1>6, <1>8, SeqIsList DEF Free, At
  <2> DEFINE c == called(s)
  <2> HIDE DEF c
  <2>4. Call(c) \in Frame(nodes) BY <2>2 DEF c, Call, Frame
  <2>5. <<Call(c)>> \in Seq(Frame(nodes)) /\ <<Call(c)>> # << >> BY <2>4
  <2>6. Idle \in Thread(nodes) BY IdleOK
  <2> DEFINE k == <<Call(c)>>
  <2> HIDE DEF k
  <2>7. k \in Seq(Frame(nodes)) /\ k # << >> BY <2>5 DEF k
  <2> DEFINE u == [Idle EXCEPT !.at = "loop", !.stack = k]
  <2>8. u \in Thread(nodes) /\ u.at = "loop" /\ u.stack = k /\ u.got = NoEvent
    BY <2>6, <2>7 DEF Thread, Idle, Places
  <2>9. t(s) = u BY DEF k, c
  <2> HIDE DEF u, t
  <2> QED BY <2>3, <2>7, <2>8, <2>9
<1>9. th \in [Slots -> Thread(nodes)] BY DEF IrInv, DataOK
<1> HIDE DEF t
<1>10. th' \in [Slots -> Thread(nodes)] BY <1>5, <1>8, <1>9
<1>11. source' = source /\ UNCHANGED <<source, events, hist>> BY DEF RunIr
<1>12. ControlOK'
  <2>1. todo' \in [runs : 0 .. Calls[source].runs, publish : 0 .. Calls[source].publish]
    BY <1>11, RunTaken DEF RunIr, CanRun, IrInv
  <2>2. running' = TRUE /\ runningIr' = TRUE /\ app' = "ready" /\ refused' = refused BY DEF RunIr
  <2> QED BY <1>11, <2>1, <2>2 DEF ControlOK, IrInv
<1>13. \A s \in Slots : th'[s] = IF s \in Range(slots) THEN t(s) ELSE th[s] BY <1>5
<1> QED BY <1>8, <1>10, <1>11, <1>12, <1>13, SameThreads

LEMMA RunIrRaisesKeeps ==
  ASSUME IrInv, RunIrRaises
  PROVE  IrInv'
<1>1. UNCHANGED <<source, events, hist>> /\ th' = th BY DEF RunIrRaises
<1>2. todo' \in [runs : 0 .. Calls[source].runs, publish : 0 .. Calls[source].publish]
  BY <1>1, RunTaken DEF RunIrRaises, CanRun, IrInv
<1>3. ControlOK' BY <1>1, <1>2 DEF RunIrRaises, flags, ControlOK, IrInv
<1>4. th' \in [Slots -> Thread(nodes)] BY <1>1 DEF IrInv, DataOK
<1> QED BY <1>1, <1>3, <1>4, SameThreads

LEMMA StopKeeps ==
  ASSUME IrInv, StopCalled \/ StopReturns
  PROVE  IrInv'
<1>1. UNCHANGED <<source, events, hist>> /\ th' = th BY DEF StopCalled, StopReturns
<1>2. ControlOK' BY DEF StopCalled, StopReturns, ControlOK, IrInv
<1>3. th' \in [Slots -> Thread(nodes)] BY <1>1 DEF IrInv, DataOK
<1> QED BY <1>1, <1>2, <1>3, SameThreads

\* An event makes callbacks for the waits that are open, and changes nothing else.
LEMMA PublishKeeps ==
  ASSUME IrInv, PublishEvent
  PROVE  IrInv'
<1> USE DEF IrInv
<1>1. PICK name \in Namespaced : Publish(name) BY DEF PublishEvent
<1>2. /\ hist' \in [published : Nat, waits : [Slots -> Nat], since : [Slots -> Nat]]
      /\ hist'.waits = hist.waits /\ hist'.since = hist.since /\ hist.published < hist'.published
      /\ callbacks' \subseteq [thread : Slots, wait : Nat, event : Event]
      /\ \A c \in callbacks' : c \in callbacks \/ NewCallback(c)
  BY <1>1, PublishedOK
<1>3. source' = source /\ th' = th /\ box' = box /\ subs' = subs /\ UNCHANGED <<app, refused, flags>>
  BY DEF PublishEvent
<1>4. nodes' = nodes BY <1>3, NodesStay
<1>5. ControlOK'
  <2>1. /\ todo \in [runs : 0 .. Calls[source].runs, publish : 0 .. Calls[source].publish]
        /\ Calls[source] \in [runs : Nat, publish : Nat]
    BY IrAssumption DEF ControlOK
  <2>2. Calls[source].publish \in Nat /\ todo.publish \in 0 .. Calls[source].publish /\ todo.publish > 0
    BY <2>1 DEF PublishEvent
  <2>3. todo.publish - 1 \in 0 .. Calls[source].publish BY <2>2
  <2>4. todo' = [todo EXCEPT !.publish = todo.publish - 1] BY DEF PublishEvent
  <2>5. todo' \in [runs : 0 .. Calls[source].runs, publish : 0 .. Calls[source].publish]
    BY <2>1, <2>3, <2>4
  <2> QED BY <1>3, <2>5 DEF ControlOK, flags
<1>6. DataOK' BY <1>2, <1>3, <1>4 DEF DataOK
<1>7. hist \in [published : Nat, waits : [Slots -> Nat], since : [Slots -> Nat]] BY DEF DataOK
<1>8. ThreadsOK'
  <2>1. \A s \in Slots : hist.since[s] \in Nat BY <1>7
  <2> QED BY <1>2, <1>3, <1>4, <1>7, <2>1 DEF ThreadsOK
<1>9. SubsOK' BY <1>3, <1>4 DEF SubsOK
<1>10. CallbacksOK'
  <2> SUFFICES ASSUME NEW c \in callbacks'
               PROVE  /\ c.wait <= hist.waits[c.thread]
                      /\ c.wait = hist.waits[c.thread] /\ th[c.thread].at \in {"subscribe", "wait"}
                           => Fresh(nodes, th[c.thread], c.event, hist.since[c.thread])
    BY <1>2, <1>3, <1>4 DEF CallbacksOK
  <2> DEFINE u == c.thread
  <2>1. u \in Slots /\ c.wait \in Nat /\ c.event \in Event
    <3>1. c \in [thread : Slots, wait : Nat, event : Event] BY <1>2
    <3> QED BY <3>1
  <2>2. CASE c \in callbacks BY <2>2 DEF CallbacksOK
  <2>3. CASE NewCallback(c)
    <3>1. <<u, c.event.name>>[1] = u /\ <<u, c.event.name>>[2] = c.event.name OBVIOUS
    <3>2. c.event.name \in Awaited(nodes, th[u]) BY <2>3, <3>1 DEF NewCallback, SubsOK
    <3>3. hist.since[u] <= hist.published BY <2>1 DEF ThreadsOK
    <3>4. c.event.no \in Nat /\ hist.since[u] \in Nat /\ hist.published \in Nat
      BY <1>7, <2>1 DEF Event
    <3>5. c.event.no > hist.since[u] /\ c.wait = hist.waits[u] BY <2>3, <3>3, <3>4 DEF NewCallback
    <3>6. hist.waits[u] \in Nat BY <1>7, <2>1
    <3> QED BY <3>2, <3>5, <3>6 DEF Fresh
  <2> QED BY <1>2, <2>2, <2>3
<1> QED BY <1>5, <1>6, <1>8, <1>9, <1>10

-----------------------------------------------------------------------------
(* The engine keeps its invariant.                                         *)

LEMMA InitKeeps == Init => IrInv
<1> SUFFICES ASSUME Init PROVE IrInv OBVIOUS
<1>1. /\ source \in DOMAIN Sources /\ app = "ready" /\ todo = Calls[source] /\ refused = FALSE
      /\ running = FALSE /\ runningIr = FALSE
      /\ th = [s \in Slots |-> Idle] /\ box = [s \in Slots |-> NoEvent]
      /\ subs = {} /\ callbacks = {}
      /\ hist = [published |-> 0, waits |-> [s \in Slots |-> 0], since |-> [s \in Slots |-> 0]]
  BY DEF Init
<1>2. ControlOK
  <2>1. Calls[source] \in [runs : Nat, publish : Nat] BY <1>1, IrAssumption
  <2>2. Calls[source].runs \in 0 .. Calls[source].runs /\ Calls[source].publish \in 0 .. Calls[source].publish
    BY <2>1
  <2>3. todo \in [runs : 0 .. Calls[source].runs, publish : 0 .. Calls[source].publish]
    BY <1>1, <2>1, <2>2
  <2> QED BY <1>1, <2>3 DEF ControlOK
<1>3. Idle \in Thread(nodes) /\ NoEvent \in Event /\ ThreadOK(nodes, Idle, NoEvent, 0) BY IdleOK
<1>4. th \in [Slots -> Thread(nodes)] /\ box \in [Slots -> Event] BY <1>1, <1>3
<1>5. hist.since = [s \in Slots |-> 0] /\ hist.published = 0
      /\ hist \in [published : Nat, waits : [Slots -> Nat], since : [Slots -> Nat]]
  BY <1>1
<1>6. DataOK BY <1>1, <1>4, <1>5 DEF DataOK
<1>7. ThreadsOK
  <2>1. \A s \in Slots : th[s] = Idle /\ box[s] = NoEvent /\ hist.since[s] = 0 BY <1>1, <1>5
  <2>2. 0 <= 0 OBVIOUS
  <2> QED BY <1>3, <1>5, <2>1, <2>2 DEF ThreadsOK
<1>8. SubsOK /\ CallbacksOK BY <1>1 DEF SubsOK, CallbacksOK
<1> QED BY <1>2, <1>6, <1>7, <1>8 DEF IrInv

LEMMA StutterKeeps ==
  ASSUME IrInv, UNCHANGED vars
  PROVE  IrInv'
<1>1. UNCHANGED <<source, events, hist>> /\ th' = th BY DEF vars, events
<1>2. ControlOK' BY DEF vars, ControlOK, IrInv
<1>3. th' \in [Slots -> Thread(nodes)] BY <1>1 DEF IrInv, DataOK
<1> QED BY <1>1, <1>2, <1>3, SameThreads

LEMMA NextKeeps ==
  ASSUME IrInv, [Next]_vars
  PROVE  IrInv'
<1>1. CASE RunIrRaises BY <1>1, RunIrRaisesKeeps
<1>2. CASE RunIr BY <1>2, RunIrKeeps
<1>3. CASE PublishEvent BY <1>3, PublishKeeps
<1>4. CASE StopCalled \/ StopReturns BY <1>4, StopKeeps
<1>5. CASE \E s \in Slots : ThreadStep(s) \/ Callback(s)
  <2> SUFFICES ASSUME NEW s \in Slots, ThreadStep(s) \/ Callback(s) PROVE IrInv' BY <1>5
  <2>1. CASE LoopEnds(s) BY <2>1, LoopEndsKeeps
  <2>2. CASE WaitEvent(s) BY <2>2, WaitEventKeeps
  <2>3. CASE Action(s) \/ WaitMulti(s) BY <2>3, TurnsKeeps
  <2>4. CASE Emit(s) BY <2>4, EmitKeeps
  <2>5. CASE Parallel(s) BY <2>5, ParallelKeeps
  <2>6. CASE ActionFails(s) \/ ActionSucceeds(s) \/ ActionRaises(s) BY <2>6, HandlerKeeps
  <2>7. CASE MultiLoop(s) BY <2>7, MultiLoopKeeps
  <2>8. CASE Subscribe(s) BY <2>8, SubscribeKeeps
  <2>9. CASE Wake(s) BY <2>9, WakeKeeps
  <2>10. CASE Unsubscribe(s) BY <2>10, UnsubscribeKeeps
  <2>11. CASE Callback(s) BY <2>11, CallbackKeeps
  <2> QED BY <2>1, <2>2, <2>3, <2>4, <2>5, <2>6, <2>7, <2>8, <2>9, <2>10, <2>11 DEF ThreadStep
<1>6. CASE Tick BY <1>6, TickKeeps
<1>7. CASE UNCHANGED vars BY <1>7, StutterKeeps
<1> QED BY <1>1, <1>2, <1>3, <1>4, <1>5, <1>6, <1>7 DEF Next

LEMMA Invariant == Spec => []IrInv
<1>1. IrInv /\ [Next]_vars => IrInv' BY NextKeeps
<1> QED BY <1>1, InitKeeps, PTL DEF Spec

\* The engine keeps to its types, every thread stands at a node of its graph, and
\* the event manager holds the subscriptions of waits under way and no others
\* (_run_ir_graph, _wait_for_events).
THEOREM TypeCorrect == Spec => []TypeOK
BY Invariant, InvImplies, PTL

\* Whatever makes a wait return was published after this wait began, under one of
\* the names it waits for, for any delay of the callbacks (_wait_for_events).
THEOREM TriggersFresh == Spec => []TriggerIsFresh
BY Invariant, InvImplies, PTL

-----------------------------------------------------------------------------
(* The nodes of one rule: which of them each leads to, and which a run     *)
(* comes to.                                                               *)

LEMMA Spaced ==
  ASSUME NEW rule, TypedRule(rule), RuleCompiles(rule)
  PROVE  /\ Len(rule.start) \in Nat \ {0} /\ Len(Stops(rule)) \in Nat \ {0}
         /\ Len(TimeoutStops(rule)) \in Nat \ {0}
         /\ StopAt(rule) \in Nat /\ TimeoutAt(rule) \in Nat /\ DoneAt(rule) \in Nat
         /\ StopAt(rule) = Len(rule.start) + 2
         /\ TimeoutAt(rule) = StopAt(rule) + Len(Stops(rule))
         /\ DoneAt(rule) = TimeoutAt(rule) + Len(TimeoutStops(rule)) + 1
BY Layout DEF StopAt, TimeoutAt, DoneAt

LEMMA PlacesGrow ==
  ASSUME NEW rule, TypedRule(rule), RuleCompiles(rule)
  PROVE  /\ StopAt(rule) \in Nat /\ TimeoutAt(rule) \in Nat /\ DoneAt(rule) \in Nat
         /\ 2 < StopAt(rule) /\ StopAt(rule) < TimeoutAt(rule) /\ TimeoutAt(rule) + 1 < DoneAt(rule)
<1> DEFINE S == StopAt(rule)
           T == TimeoutAt(rule)
           D == DoneAt(rule)
           a == Len(rule.start)
           b == Len(Stops(rule))
           c == Len(TimeoutStops(rule))
<1>1. /\ a \in Nat \ {0} /\ b \in Nat \ {0} /\ c \in Nat \ {0}
      /\ S = a + 2 /\ T = S + b /\ D = T + c + 1
  BY Spaced
<1> HIDE DEF S, T, D, a, b, c
<1>2. S \in Nat /\ T \in Nat /\ D \in Nat /\ 2 < S /\ S < T /\ T + 1 < D BY <1>1
<1> QED BY <1>2 DEF S, T, D

\* A rule's wait for its stop ends with an event, with a timeout, or with either.
OnEvent(rule) == \E c \in Range(rule.until) : c.kind = "on"
OnTimeout(rule) == rule.until = << >> \/ \E c \in Range(rule.until) : c.kind # "on"
Goes(rule, k, j) ==
  \/ k \notin {StopAt(rule), TimeoutAt(rule), DoneAt(rule)} /\ j = k + 1
  \/ k = StopAt(rule) /\ j = StopAt(rule) + 1 /\ OnEvent(rule)
  \/ k = StopAt(rule) /\ j = TimeoutAt(rule) + 1 /\ OnTimeout(rule)
  \/ k = TimeoutAt(rule) /\ j = DoneAt(rule)
Onward(rule, k) == {j \in 1 .. DoneAt(rule) : Goes(rule, k, j)}

LEMMA OneTarget ==
  ASSUME NEW node, node.kind \in {"WAIT_EVENT", "ACTION", "EMIT"},
         NEW to, node.transitions = <<Transition("ok", to)>>
  PROVE  Targets(node) = {to}
<1>1. Range(node.transitions) = {Transition("ok", to)} BY DEF Range
<1>2. Transition("ok", to).to = to BY DEF Transition
<1>3. Targets(node) = {t.to : t \in Range(node.transitions)} BY DEF Targets
<1> QED BY <1>1, <1>2, <1>3

LEMMA RuleLeads ==
  ASSUME NEW rule, TypedRule(rule), RuleCompiles(rule), NEW k \in 1 .. DoneAt(rule)
  PROVE  LET B == CompileRule(rule)
         IN Targets(B[k]) = {B[j].id : j \in Onward(rule, k)}
<1> DEFINE B == CompileRule(rule)
           p == Prefix(rule)
           opts == CompileUntil(p, rule.until)
           S == StopAt(rule)
           T == TimeoutAt(rule)
           D == DoneAt(rule)
           ids(J) == {B[j].id : j \in J}
<1>1. /\ B[1] = WaitEventNode(p \o <<"wait", "start">>, rule.on, <<Transition("ok", B[2].id)>>)
      /\ \A i \in 1 .. Len(rule.start) : Does(B[1 + i], rule.start[i], B[1 + i + 1].id)
      /\ B[S] = WaitMultiNode(p \o <<"wait", "stop">>, opts)
      /\ \A i \in 1 .. Len(Stops(rule)) :
           Does(B[S + i], Stops(rule)[i],
                IF i = Len(Stops(rule)) THEN B[D].id ELSE B[S + i + 1].id)
      /\ \A i \in 1 .. Len(TimeoutStops(rule)) :
           Does(B[T + i], TimeoutStops(rule)[i], B[T + i + 1].id)
      /\ B[D] = EndNode(p \o <<"done">>)
      /\ B[S + 1].id = p \o <<"stop">>
      /\ B[T + 1].id = p \o <<"timeout">>
  BY RuleCompiled
<1>2. /\ Len(rule.start) \in Nat \ {0} /\ Len(Stops(rule)) \in Nat \ {0}
      /\ Len(TimeoutStops(rule)) \in Nat \ {0} /\ S \in Nat /\ T \in Nat /\ D \in Nat
      /\ S = Len(rule.start) + 2 /\ T = S + Len(Stops(rule)) /\ D = T + Len(TimeoutStops(rule)) + 1
  BY Spaced
<1>3. /\ k \in {S, T, D} \/ Onward(rule, k) = {k + 1} \cap 1 .. D
      /\ Onward(rule, T) = {D} /\ Onward(rule, D) = {}
      /\ Onward(rule, S) = {j \in {S + 1, T + 1} : \/ j = S + 1 /\ OnEvent(rule)
                                                   \/ j = T + 1 /\ OnTimeout(rule)}
  <2>1. \A i, j : j \in Onward(rule, i) <=>
                    /\ j \in 1 .. D
                    /\ \/ i \notin {S, T, D} /\ j = i + 1
                       \/ i = S /\ j = S + 1 /\ OnEvent(rule)
                       \/ i = S /\ j = T + 1 /\ OnTimeout(rule)
                       \/ i = T /\ j = D
    BY DEF Onward, Goes
  <2>2. /\ S \in Nat /\ T \in Nat /\ D \in Nat /\ S < T /\ T + 1 < D
        /\ S + 1 \in 1 .. D /\ T + 1 \in 1 .. D /\ D \in 1 .. D
    BY PlacesGrow
  <2> HIDE DEF S, T, D
  <2>3. k \in {S, T, D} \/ Onward(rule, k) = {k + 1} \cap 1 .. D BY <2>1
  <2>4. Onward(rule, T) = {D} BY <2>1, <2>2
  <2>5. Onward(rule, D) = {} BY <2>1, <2>2
  <2>6. Onward(rule, S) = {j \in {S + 1, T + 1} : \/ j = S + 1 /\ OnEvent(rule)
                                                  \/ j = T + 1 /\ OnTimeout(rule)}
    BY <2>1, <2>2
  <2> QED BY <2>3, <2>4, <2>5, <2>6
<1> HIDE DEF B, S, T, D
<1>4. ASSUME NEW node, NEW action, NEW to, Does(node, action, to) PROVE Targets(node) = {to}
  BY <1>4, OneTarget DEF Does
<1>5. ASSUME k \notin {S, T, D}, Targets(B[k]) = {B[k + 1].id} PROVE Targets(B[k]) = ids(Onward(rule, k))
  <2>1. k + 1 \in 1 .. D BY <1>2, <1>5 DEF D
  <2>2. Onward(rule, k) = {k + 1} BY <1>3, <1>5, <2>1
  <2> QED BY <1>5, <2>2
<1>6. ASSUME k = 1 PROVE Targets(B[k]) = ids(Onward(rule, k))
  <2>0. B[1].kind = "WAIT_EVENT" /\ B[1].transitions = <<Transition("ok", B[2].id)>>
    BY <1>1 DEF WaitEventNode
  <2>1. Targets(B[1]) = {B[2].id} BY <2>0, OneTarget
  <2>2. k \notin {S, T, D} /\ k + 1 = 2 BY <1>2, <1>6
  <2> QED BY <1>5, <1>6, <2>1, <2>2
<1>7. ASSUME NEW i \in 1 .. Len(rule.start), k = 1 + i PROVE Targets(B[k]) = ids(Onward(rule, k))
  <2>1. Targets(B[1 + i]) = {B[1 + i + 1].id} BY <1>1, <1>4
  <2>2. k \notin {S, T, D} BY <1>2, <1>7
  <2> QED BY <1>5, <1>7, <2>1, <2>2
<1>8. ASSUME k = S PROVE Targets(B[k]) = ids(Onward(rule, k))
  <2>1. /\ \A o \in Range(opts) : o.to = IF o.kind = "EVENT" THEN p \o <<"stop">> ELSE p \o <<"timeout">>
        /\ (\E o \in Range(opts) : o.kind = "EVENT") <=> OnEvent(rule)
        /\ (\E o \in Range(opts) : o.kind = "TIMEOUT") <=> OnTimeout(rule)
        /\ IsList(opts)
        /\ \A i \in DOMAIN opts : opts[i].kind \in {"EVENT", "TIMEOUT"} /\ opts[i].priority \in Int
    BY UntilCompiled DEF OnEvent, OnTimeout
  <2>2. \A o \in Range(opts) : o.kind \in {"EVENT", "TIMEOUT"}
    <3> HIDE DEF opts
    <3> QED BY <2>1 DEF Range
  <2>3. B[S].kind = "WAIT_MULTI" /\ B[S].options = opts BY <1>1 DEF WaitMultiNode
  <2> HIDE DEF opts
  <2>4. Targets(B[S]) = {o.to : o \in Range(opts)} BY <2>3 DEF Targets
  <2>5. \A o \in Range(opts) : o.to = IF o.kind = "EVENT" THEN B[S + 1].id ELSE B[T + 1].id
    BY <1>1, <2>1
  <2> DEFINE onEvent == IF OnEvent(rule) THEN {B[S + 1].id} ELSE {}
             onTimeout == IF OnTimeout(rule) THEN {B[T + 1].id} ELSE {}
             evs == {o \in Range(opts) : o.kind = "EVENT"}
             tos == {o \in Range(opts) : o.kind = "TIMEOUT"}
  <2>6. Targets(B[S]) = onEvent \cup onTimeout
    <3>1. Range(opts) = evs \cup tos BY <2>2
    <3>2. {o.to : o \in evs} = onEvent BY <2>1, <2>5
    <3>3. {o.to : o \in tos} = onTimeout BY <2>1, <2>5
    <3> HIDE DEF evs, tos, onEvent, onTimeout
    <3> QED BY <2>4, <3>1, <3>2, <3>3
  <2>7. ids(Onward(rule, S)) = onEvent \cup onTimeout
    <3>1. Onward(rule, S) = (IF OnEvent(rule) THEN {S + 1} ELSE {}) \cup (IF OnTimeout(rule) THEN {T + 1} ELSE {})
      BY <1>3
    <3> QED BY <3>1
  <2> HIDE DEF onEvent, onTimeout
  <2> QED BY <1>8, <2>6, <2>7
<1>9. ASSUME NEW i \in 1 .. Len(Stops(rule)), k = S + i PROVE Targets(B[k]) = ids(Onward(rule, k))
  <2>1. Targets(B[S + i]) = {IF i = Len(Stops(rule)) THEN B[D].id ELSE B[S + i + 1].id} BY <1>1, <1>4
  <2>2. CASE i = Len(Stops(rule))
    <3>1. k = T BY <1>2, <1>9, <2>2
    <3> QED BY <1>3, <1>9, <2>1, <2>2, <3>1
  <2>3. CASE i # Len(Stops(rule))
    <3>1. k \notin {S, T, D} BY <1>2, <1>9, <2>3
    <3> QED BY <1>5, <1>9, <2>1, <2>3, <3>1
  <2> QED BY <2>2, <2>3
<1>10. ASSUME NEW i \in 1 .. Len(TimeoutStops(rule)), k = T + i PROVE Targets(B[k]) = ids(Onward(rule, k))
  <2>1. Targets(B[T + i]) = {B[T + i + 1].id} BY <1>1, <1>4
  <2>2. k \notin {S, T, D} BY <1>2, <1>10
  <2> QED BY <1>5, <1>10, <2>1, <2>2
<1>11. ASSUME k = D PROVE Targets(B[k]) = ids(Onward(rule, k))
  <2>1. B[D].kind = "END" BY <1>1 DEF EndNode
  <2>2. Targets(B[D]) = {} BY <2>1 DEF Targets
  <2> QED BY <1>3, <1>11, <2>2
<1>12. \/ k = 1
       \/ \E j \in 1 .. Len(rule.start) : k = 1 + j
       \/ k = S
       \/ \E j \in 1 .. Len(Stops(rule)) : k = S + j
       \/ \E j \in 1 .. Len(TimeoutStops(rule)) : k = T + j
       \/ k = D
  BY Positions DEF S, T, D
<1>13. Targets(B[k]) = ids(Onward(rule, k)) BY <1>6, <1>7, <1>8, <1>9, <1>10, <1>11, <1>12
<1> QED BY <1>13 DEF B

-----------------------------------------------------------------------------
(* What a run can come to.                                                 *)

Spread(g, ids) == ids \cup UNION {Targets(NodeOf(g, i)) : i \in ids}

LEMMA ReachRuns ==
  ASSUME NEW g, IsList(g.nodes), NEW id
  PROVE  \E f : /\ f[0] = {id}
                /\ \A k \in 1 .. Len(g.nodes) : f[k] = Spread(g, f[k - 1])
                /\ Reach(g, id) = f[Len(g.nodes)]
<1> DEFINE n == Len(g.nodes)
           Is(f, m) == f = [k \in 0 .. m |-> IF k = 0 THEN {id} ELSE Spread(g, f[k - 1])]
<1>1. n \in Nat BY ListIsSeq
<1>2. Reach(g, id) = (CHOOSE f : Is(f, n))[n] BY DEF Reach, Spread
<1> HIDE DEF n
<1>3. \E f : Is(f, n)
  <2> DEFINE S == {m \in Nat : \E f : Is(f, m)}
  <2>1. 0 \in S
    <3>1. Is([k \in 0 .. 0 |-> {id}], 0) OBVIOUS
    <3> HIDE DEF Is
    <3> QED BY <3>1
  <2>2. ASSUME NEW m \in Nat, m \in S PROVE m + 1 \in S
    <3>1. PICK f : Is(f, m) BY <2>2
    <3> DEFINE h == [k \in 0 .. m + 1 |-> IF k = m + 1 THEN Spread(g, f[k - 1]) ELSE f[k]]
    <3>2. ASSUME NEW k \in 0 .. m + 1
          PROVE  h[k] = IF k = 0 THEN {id} ELSE Spread(g, h[k - 1])
      <4>1. CASE k = m + 1
        <5>1. k # 0 /\ k - 1 \in 0 .. m + 1 /\ k - 1 # m + 1 BY <4>1
        <5>2. h[k - 1] = f[k - 1] BY <5>1
        <5> QED BY <4>1, <5>1, <5>2
      <4>2. CASE k # m + 1
        <5>1. k \in 0 .. m BY <4>2
        <5>2. h[k] = f[k] /\ f[k] = IF k = 0 THEN {id} ELSE Spread(g, f[k - 1])
          BY <3>1, <4>2, <5>1
        <5>3. k # 0 => k - 1 \in 0 .. m + 1 /\ k - 1 # m + 1 BY <5>1
        <5>4. k # 0 => h[k - 1] = f[k - 1] BY <5>3
        <5> QED BY <5>2, <5>4
      <4> QED BY <4>1, <4>2
    <3>3. h = [k \in 0 .. m + 1 |-> h[k]] OBVIOUS
    <3> HIDE DEF h
    <3>4. Is(h, m + 1) BY <3>2, <3>3
    <3> HIDE DEF Is
    <3> QED BY <3>4
  <2> HIDE DEF S
  <2>3. n \in S BY <1>1, <2>1, <2>2, SetInduction
  <2> QED BY <2>3 DEF S
<1> DEFINE h == CHOOSE f : Is(f, n)
<1>4. Is(h, n) BY <1>3
<1>5. Reach(g, id) = h[n] BY <1>2
<1> HIDE DEF h
<1>6. h[0] = {id} BY <1>1, <1>4
<1>7. ASSUME NEW k \in 1 .. n PROVE h[k] = Spread(g, h[k - 1])
  <2>1. k \in 0 .. n /\ k # 0 BY <1>1
  <2> QED BY <1>4, <2>1
<1> QED BY <1>5, <1>6, <1>7 DEF n

\* A run stays in a set that no node of it leads out of.
LEMMA ReachStays ==
  ASSUME NEW g, IsList(g.nodes), NEW C, NEW id \in C,
         \A i \in C : Targets(NodeOf(g, i)) \subseteq C
  PROVE  Reach(g, id) \subseteq C
<1> DEFINE n == Len(g.nodes)
<1>1. PICK f : /\ f[0] = {id}
               /\ \A k \in 1 .. n : f[k] = Spread(g, f[k - 1])
               /\ Reach(g, id) = f[n]
  BY ReachRuns
<1>2. n \in Nat BY ListIsSeq
<1> HIDE DEF n
<1> DEFINE S == {k \in Nat : k <= n => f[k] \subseteq C}
<1>3. 0 \in S BY <1>1
<1>4. ASSUME NEW k \in Nat, k \in S PROVE k + 1 \in S
  <2> SUFFICES ASSUME k + 1 <= n PROVE f[k + 1] \subseteq C OBVIOUS
  <2>1. k + 1 \in 1 .. n /\ (k + 1) - 1 = k /\ k <= n BY <1>2
  <2>2. f[k + 1] = Spread(g, f[k]) /\ f[k] \subseteq C BY <1>1, <1>4, <2>1
  <2> QED BY <2>2 DEF Spread
<1> HIDE DEF S
<1>5. n \in S BY <1>2, <1>3, <1>4, SetInduction
<1> QED BY <1>1, <1>2, <1>5 DEF S

\* It comes to every node on a way from its start.
LEMMA ReachGoes ==
  ASSUME NEW g, IsList(g.nodes), NEW len \in Nat, len <= Len(g.nodes), NEW way,
         \A k \in 1 .. len : way[k] \in Targets(NodeOf(g, way[k - 1]))
  PROVE  way[len] \in Reach(g, way[0])
<1> DEFINE n == Len(g.nodes)
<1>1. PICK f : /\ f[0] = {way[0]}
               /\ \A k \in 1 .. n : f[k] = Spread(g, f[k - 1])
               /\ Reach(g, way[0]) = f[n]
  BY ReachRuns
<1>2. n \in Nat /\ len <= n BY ListIsSeq
<1> HIDE DEF n
<1> DEFINE S == {k \in Nat : k <= n => \A j \in 0 .. k : j <= len => way[j] \in f[k]}
<1>3. 0 \in S BY <1>1
<1>4. ASSUME NEW k \in Nat, k \in S PROVE k + 1 \in S
  <2> SUFFICES ASSUME k + 1 <= n, NEW j \in 0 .. k + 1, j <= len PROVE way[j] \in f[k + 1] OBVIOUS
  <2>1. k + 1 \in 1 .. n /\ (k + 1) - 1 = k /\ k <= n BY <1>2
  <2>2. f[k + 1] = Spread(g, f[k]) BY <1>1, <2>1
  <2>3. \A m \in 0 .. k : m <= len => way[m] \in f[k] BY <1>4, <2>1
  <2>4. CASE j \in 0 .. k BY <2>2, <2>3, <2>4 DEF Spread
  <2>5. CASE j = k + 1
    <3>1. j \in 1 .. len /\ j - 1 \in 0 .. k /\ j - 1 <= len BY <2>5
    <3>2. way[j - 1] \in f[k] /\ way[j] \in Targets(NodeOf(g, way[j - 1])) BY <2>3, <3>1
    <3> QED BY <2>2, <3>2 DEF Spread
  <2> QED BY <2>4, <2>5
<1> HIDE DEF S
<1>5. n \in S BY <1>2, <1>3, <1>4, SetInduction
<1> QED BY <1>1, <1>2, <1>5 DEF S

-----------------------------------------------------------------------------
(* A rule in a graph where it sits.                                        *)

LEMMA RuleSits ==
  ASSUME NEW g, IsList(g.nodes), IdsUnique(g), NEW rule, NEW at \in Nat, Sits(g, rule, at),
         NEW k \in 1 .. DoneAt(rule)
  PROVE  LET node == CompileRule(rule)[k]
         IN NodeOf(g, node.id) = node /\ node.id \in Ids(g) /\ node \in Range(g.nodes)
<1> DEFINE node == CompileRule(rule)[k]
<1>1. at + k \in DOMAIN g.nodes /\ g.nodes[at + k] = node BY DEF Sits
<1> HIDE DEF node
<1>2. node \in Range(g.nodes) /\ node.id \in Ids(g) BY <1>1 DEF Range, Ids
<1>3. NodeOf(g, node.id) \in Range(g.nodes) /\ NodeOf(g, node.id).id = node.id BY <1>2, NodeOfId
<1>4. PICK j \in DOMAIN g.nodes : g.nodes[j] = NodeOf(g, node.id) BY <1>3 DEF Range
<1>5. j = at + k BY <1>1, <1>3, <1>4 DEF IdsUnique
<1> QED BY <1>1, <1>2, <1>4, <1>5 DEF node

\* The ids of the nodes at some of a rule's places.
IdsAt(rule, P) == {CompileRule(rule)[k].id : k \in P}
Closed(rule, P) == P \subseteq 1 .. DoneAt(rule) /\ \A k \in P : Onward(rule, k) \subseteq P

LEMMA RuleHolds ==
  ASSUME NEW g, IsList(g.nodes), IdsUnique(g), NEW rule, TypedRule(rule), RuleCompiles(rule),
         NEW at \in Nat, Sits(g, rule, at), NEW P, Closed(rule, P), NEW k \in P
  PROVE  Reach(g, CompileRule(rule)[k].id) \subseteq IdsAt(rule, P)
<1> DEFINE B == CompileRule(rule)
           C == IdsAt(rule, P)
<1>1. B[k].id \in C BY DEF IdsAt
<1>2. ASSUME NEW i \in C PROVE Targets(NodeOf(g, i)) \subseteq C
  <2>1. PICK j \in P : i = B[j].id BY DEF IdsAt
  <2>2. j \in 1 .. DoneAt(rule) /\ Onward(rule, j) \subseteq P BY DEF Closed
  <2>3. NodeOf(g, i) = B[j] BY <2>1, <2>2, RuleSits
  <2>4. Targets(B[j]) = {B[m].id : m \in Onward(rule, j)} BY <2>2, RuleLeads
  <2> HIDE DEF B
  <2> QED BY <2>2, <2>3, <2>4 DEF IdsAt, B
<1> HIDE DEF C
<1>3. Reach(g, B[k].id) \subseteq C BY <1>1, <1>2, ReachStays
<1> QED BY <1>3 DEF C

LEMMA RuleGoes ==
  ASSUME NEW g, IsList(g.nodes), IdsUnique(g), NEW rule, TypedRule(rule), RuleCompiles(rule),
         NEW at \in Nat, Sits(g, rule, at), NEW len \in Nat, len < DoneAt(rule), NEW places,
         places[0] \in 1 .. DoneAt(rule),
         \A k \in 1 .. len : places[k] \in Onward(rule, places[k - 1])
  PROVE  CompileRule(rule)[places[len]].id \in Reach(g, CompileRule(rule)[places[0]].id)
<1> DEFINE B == CompileRule(rule)
           way == [k \in 0 .. len |-> B[places[k]].id]
<1>1. ASSUME NEW k \in 1 .. len PROVE places[k - 1] \in 1 .. DoneAt(rule)
  <2>1. k = 1 \/ k - 1 \in 1 .. len OBVIOUS
  <2>2. CASE k = 1 BY <2>2
  <2>3. CASE k - 1 \in 1 .. len BY <2>3 DEF Onward
  <2> QED BY <2>1, <2>2, <2>3
<1>2. ASSUME NEW k \in 1 .. len PROVE way[k] \in Targets(NodeOf(g, way[k - 1]))
  <2>1. k \in 0 .. len /\ k - 1 \in 0 .. len OBVIOUS
  <2>2. way[k] = B[places[k]].id /\ way[k - 1] = B[places[k - 1]].id BY <2>1
  <2>3. NodeOf(g, B[places[k - 1]].id) = B[places[k - 1]] BY <1>1, RuleSits
  <2>4. Targets(B[places[k - 1]]) = {B[m].id : m \in Onward(rule, places[k - 1])} BY <1>1, RuleLeads
  <2> HIDE DEF B, way
  <2> QED BY <2>2, <2>3, <2>4
<1>3. len <= Len(g.nodes)
  <2>1. DoneAt(rule) \in Nat BY Spaced
  <2>2. DoneAt(rule) \in 1 .. DoneAt(rule) BY <2>1
  <2>3. at + DoneAt(rule) \in DOMAIN g.nodes BY <2>2 DEF Sits
  <2>4. DOMAIN g.nodes = 1 .. Len(g.nodes) /\ Len(g.nodes) \in Nat BY ListIsSeq
  <2> QED BY <2>1, <2>3, <2>4
<1>4. 0 \in 0 .. len /\ len \in 0 .. len OBVIOUS
<1>5. way[0] = B[places[0]].id /\ way[len] = B[places[len]].id BY <1>4
<1> HIDE DEF way
<1>6. way[len] \in Reach(g, way[0]) BY <1>2, <1>3, ReachGoes
<1> QED BY <1>5, <1>6

\* The places a run of the rule comes to, those it comes to after an event, and
\* those after a timeout.
Used(rule) ==
  {k \in 1 .. DoneAt(rule) :
     /\ k \in StopAt(rule) + 1 .. TimeoutAt(rule) => OnEvent(rule)
     /\ k \in TimeoutAt(rule) + 1 .. DoneAt(rule) - 1 => OnTimeout(rule)}
AfterEvent(rule) == (StopAt(rule) + 1 .. TimeoutAt(rule)) \cup {DoneAt(rule)}
AfterTimeout(rule) == TimeoutAt(rule) + 1 .. DoneAt(rule)

LEMMA PartsClosed ==
  ASSUME NEW rule, TypedRule(rule), RuleCompiles(rule)
  PROVE  Closed(rule, Used(rule)) /\ Closed(rule, AfterEvent(rule)) /\ Closed(rule, AfterTimeout(rule))
<1> DEFINE S == StopAt(rule)
           T == TimeoutAt(rule)
           D == DoneAt(rule)
<1>1. S \in Nat /\ T \in Nat /\ D \in Nat /\ 2 < S /\ S < T /\ T + 1 < D BY PlacesGrow
<1>2. ASSUME NEW k, NEW j \in Onward(rule, k)
      PROVE  /\ j \in 1 .. D
             /\ \/ k \notin {S, T, D} /\ j = k + 1
                \/ k = S /\ j = S + 1 /\ OnEvent(rule)
                \/ k = S /\ j = T + 1 /\ OnTimeout(rule)
                \/ k = T /\ j = D
  BY DEF Onward, Goes
<1>3. /\ Used(rule) = {k \in 1 .. D : /\ k \in S + 1 .. T => OnEvent(rule)
                                      /\ k \in T + 1 .. D - 1 => OnTimeout(rule)}
      /\ AfterEvent(rule) = (S + 1 .. T) \cup {D} /\ AfterTimeout(rule) = T + 1 .. D
  BY DEF Used, AfterEvent, AfterTimeout
<1> HIDE DEF S, T, D
<1>4. ASSUME NEW k \in Used(rule), NEW j \in Onward(rule, k) PROVE j \in Used(rule)
  <2>1. j \in 1 .. D BY <1>2
  <2>2. k \in 1 .. D /\ (k \in S + 1 .. T => OnEvent(rule)) /\ (k \in T + 1 .. D - 1 => OnTimeout(rule))
    BY <1>3
  <2>3. CASE k \notin {S, T, D} /\ j = k + 1 BY <1>1, <1>3, <2>1, <2>2, <2>3
  <2>4. CASE k = S /\ j = S + 1 /\ OnEvent(rule) BY <1>1, <1>3, <2>1, <2>4
  <2>5. CASE k = S /\ j = T + 1 /\ OnTimeout(rule) BY <1>1, <1>3, <2>1, <2>5
  <2>6. CASE k = T /\ j = D BY <1>1, <1>3, <2>1, <2>6
  <2> QED BY <1>2, <2>3, <2>4, <2>5, <2>6
<1>5. ASSUME NEW k \in AfterEvent(rule), NEW j \in Onward(rule, k) PROVE j \in AfterEvent(rule)
  BY <1>1, <1>2, <1>3
<1>6. ASSUME NEW k \in AfterTimeout(rule), NEW j \in Onward(rule, k) PROVE j \in AfterTimeout(rule)
  BY <1>1, <1>2, <1>3
<1>7. /\ Used(rule) \subseteq 1 .. DoneAt(rule) /\ AfterEvent(rule) \subseteq 1 .. DoneAt(rule)
      /\ AfterTimeout(rule) \subseteq 1 .. DoneAt(rule)
  BY <1>1, <1>3 DEF D
<1> QED BY <1>4, <1>5, <1>6, <1>7 DEF Closed

LEMMA UsedAreReached ==
  ASSUME NEW g, IsList(g.nodes), IdsUnique(g), NEW rule, TypedRule(rule), RuleCompiles(rule),
         NEW at \in Nat, Sits(g, rule, at), NEW k \in Used(rule), k # DoneAt(rule)
  PROVE  CompileRule(rule)[k].id \in Reach(g, CompileRule(rule)[1].id)
<1> DEFINE S == StopAt(rule)
           T == TimeoutAt(rule)
           D == DoneAt(rule)
           A == Len(Stops(rule))
           B == CompileRule(rule)
<1>1. S \in Nat /\ T \in Nat /\ D \in Nat /\ 2 < S /\ S < T /\ T + 1 < D /\ A \in Nat /\ T = S + A
  BY PlacesGrow, Spaced
<1>2. /\ k \in 1 .. D - 1 /\ (k \in S + 1 .. T => OnEvent(rule)) /\ (k \in T + 1 .. D - 1 => OnTimeout(rule))
  BY <1>1 DEF Used
<1>3. \A i, j : j \in Onward(rule, i) <=>
                  /\ j \in 1 .. D
                  /\ \/ i \notin {S, T, D} /\ j = i + 1
                     \/ i = S /\ j = S + 1 /\ OnEvent(rule)
                     \/ i = S /\ j = T + 1 /\ OnTimeout(rule)
                     \/ i = T /\ j = D
  BY DEF Onward, Goes
<1>4. ASSUME NEW len \in Nat, len < D, NEW places, places[0] = 1, places[len] = k,
             \A i \in 1 .. len : places[i] \in Onward(rule, places[i - 1])
      PROVE  B[k].id \in Reach(g, B[1].id)
  <2>1. places[0] \in 1 .. DoneAt(rule) BY <1>1, <1>4
  <2>2. B[places[len]].id \in Reach(g, B[places[0]].id) BY <1>4, <2>1, RuleGoes
  <2> HIDE DEF B
  <2> QED BY <1>4, <2>2
<1> HIDE DEF S, T, D, A, B
<1>5. CASE k <= T
  <2> DEFINE places == [i \in 0 .. k - 1 |-> i + 1]
  <2>1. k - 1 \in Nat /\ k - 1 < D BY <1>1, <1>2
  <2>2. 0 \in 0 .. k - 1 /\ k - 1 \in 0 .. k - 1 BY <2>1
  <2>3. places[0] = 1 /\ places[k - 1] = k BY <1>2, <2>2
  <2>4. ASSUME NEW i \in 1 .. k - 1 PROVE places[i] \in Onward(rule, places[i - 1])
    <3>1. i \in 0 .. k - 1 /\ i - 1 \in 0 .. k - 1 /\ i \in Nat BY <2>1
    <3>2. places[i] = i + 1 /\ places[i - 1] = i BY <3>1
    <3> HIDE DEF places
    <3>3. i + 1 \in 1 .. D /\ i # T /\ i # D /\ (i = S => k \in S + 1 .. T) BY <1>1, <1>2, <1>5
    <3>4. i + 1 \in Onward(rule, i) BY <1>2, <1>3, <3>3
    <3> QED BY <3>2, <3>4
  <2> HIDE DEF places
  <2>5. B[k].id \in Reach(g, B[1].id) BY <1>4, <2>1, <2>3, <2>4
  <2> QED BY <2>5 DEF B
<1>6. CASE T < k
  <2> DEFINE len == k - 1 - A
             places == [i \in 0 .. len |-> IF i < S THEN i + 1 ELSE i + 1 + A]
  <2>1. len \in Nat /\ len < D /\ S <= len /\ OnTimeout(rule) BY <1>1, <1>2, <1>6
  <2>2. len + 1 + A = k BY <1>1, <1>2
  <2> HIDE DEF len
  <2>3. 0 \in 0 .. len /\ len \in 0 .. len BY <2>1
  <2>4. places[0] = 1 /\ places[len] = k BY <1>1, <2>1, <2>2, <2>3
  <2>5. ASSUME NEW i \in 1 .. len PROVE places[i] \in Onward(rule, places[i - 1])
    <3>1. i \in 0 .. len /\ i - 1 \in 0 .. len /\ i \in Nat /\ i <= len BY <2>1
    <3>2. /\ places[i] = IF i < S THEN i + 1 ELSE i + 1 + A
          /\ places[i - 1] = IF i - 1 < S THEN (i - 1) + 1 ELSE (i - 1) + 1 + A
      BY <3>1
    <3> HIDE DEF places
    <3>3. CASE i < S
      <4>1. places[i] = i + 1 /\ places[i - 1] = i BY <1>1, <3>1, <3>2, <3>3
      <4>2. i + 1 \in 1 .. D /\ i \notin {S, T, D} BY <1>1, <3>1, <3>3
      <4> QED BY <1>3, <4>1, <4>2
    <3>4. CASE i = S
      <4>1. places[i] = T + 1 /\ places[i - 1] = S BY <1>1, <3>2, <3>4
      <4>2. T + 1 \in 1 .. D BY <1>1
      <4> QED BY <1>3, <2>1, <4>1, <4>2
    <3>5. CASE S < i
      <4>1. places[i] = i + 1 + A /\ places[i - 1] = i + A BY <1>1, <3>1, <3>2, <3>5
      <4>2. i + A + 1 \in 1 .. D /\ i + A \notin {S, T, D} /\ i + 1 + A = i + A + 1
        BY <1>1, <1>2, <2>1, <2>2, <3>1, <3>5
      <4> QED BY <1>3, <4>1, <4>2
    <3> QED BY <1>1, <3>1, <3>3, <3>4, <3>5
  <2> HIDE DEF places
  <2>6. B[k].id \in Reach(g, B[1].id) BY <1>4, <2>1, <2>4, <2>5
  <2> QED BY <2>6 DEF B
<1> QED BY <1>1, <1>2, <1>5, <1>6

\* The kinds of a rule's nodes, and what its actions are.
LEMMA RuleKinds ==
  ASSUME NEW rule, TypedRule(rule), RuleCompiles(rule)
  PROVE  LET B == CompileRule(rule)
         IN /\ B[1].kind = "WAIT_EVENT" /\ B[DoneAt(rule)].kind = "END"
            /\ B[StopAt(rule)].kind = "WAIT_MULTI"
            /\ B[StopAt(rule)].options = CompileUntil(Prefix(rule), rule.until)
            /\ \A j \in 1 .. Len(rule.start) : B[1 + j].kind = "ACTION" /\ B[1 + j].action = rule.start[j]
            /\ \A j \in 1 .. Len(Stops(rule)) :
                 B[StopAt(rule) + j].kind = "ACTION" /\ B[StopAt(rule) + j].action = Stops(rule)[j]
            /\ \A j \in 1 .. Len(TimeoutStops(rule)) :
                 B[TimeoutAt(rule) + j].kind = "ACTION" /\ B[TimeoutAt(rule) + j].action = TimeoutStops(rule)[j]
<1> DEFINE B == CompileRule(rule)
           p == Prefix(rule)
<1>1. /\ B[1] = WaitEventNode(p \o <<"wait", "start">>, rule.on, <<Transition("ok", B[2].id)>>)
      /\ \A k \in 1 .. Len(rule.start) : Does(B[1 + k], rule.start[k], B[1 + k + 1].id)
      /\ B[StopAt(rule)] = WaitMultiNode(p \o <<"wait", "stop">>, CompileUntil(p, rule.until))
      /\ \A k \in 1 .. Len(Stops(rule)) :
           Does(B[StopAt(rule) + k], Stops(rule)[k],
                IF k = Len(Stops(rule)) THEN B[DoneAt(rule)].id ELSE B[StopAt(rule) + k + 1].id)
      /\ \A k \in 1 .. Len(TimeoutStops(rule)) :
           Does(B[TimeoutAt(rule) + k], TimeoutStops(rule)[k], B[TimeoutAt(rule) + k + 1].id)
      /\ B[DoneAt(rule)] = EndNode(p \o <<"done">>)
  BY RuleCompiled
<1> HIDE DEF B, p
<1>2. B[1].kind = "WAIT_EVENT" BY <1>1 DEF WaitEventNode
<1>3. B[DoneAt(rule)].kind = "END" BY <1>1 DEF EndNode
<1>4. B[StopAt(rule)].kind = "WAIT_MULTI" /\ B[StopAt(rule)].options = CompileUntil(p, rule.until)
  BY <1>1 DEF WaitMultiNode
<1>5. \A j \in 1 .. Len(rule.start) : B[1 + j].kind = "ACTION" /\ B[1 + j].action = rule.start[j]
  BY <1>1 DEF Does
<1>6. \A j \in 1 .. Len(Stops(rule)) :
        B[StopAt(rule) + j].kind = "ACTION" /\ B[StopAt(rule) + j].action = Stops(rule)[j]
  BY <1>1 DEF Does
<1>7. \A j \in 1 .. Len(TimeoutStops(rule)) :
        B[TimeoutAt(rule) + j].kind = "ACTION" /\ B[TimeoutAt(rule) + j].action = TimeoutStops(rule)[j]
  BY <1>1 DEF Does
<1> QED BY <1>2, <1>3, <1>4, <1>5, <1>6, <1>7 DEF B, p

\* The actions a run of the rule comes to.
Wanted(rule) ==
  Range(rule.start) \cup (IF OnEvent(rule) THEN Range(Stops(rule)) ELSE {})
                    \cup (IF OnTimeout(rule) THEN Range(TimeoutStops(rule)) ELSE {})

LEMMA WantedIsUsed ==
  ASSUME NEW rule, TypedRule(rule), RuleCompiles(rule)
  PROVE  LET B == CompileRule(rule)
         IN Wanted(rule) = {B[k].action : k \in {j \in Used(rule) : B[j].kind = "ACTION"}}
<1> DEFINE B == CompileRule(rule)
           S == StopAt(rule)
           T == TimeoutAt(rule)
           D == DoneAt(rule)
           a == Len(rule.start)
           b == Len(Stops(rule))
           c == Len(TimeoutStops(rule))
           acts == {j \in Used(rule) : B[j].kind = "ACTION"}
           done == {B[k].action : k \in acts}
<1>1. /\ B[1].kind = "WAIT_EVENT" /\ B[D].kind = "END" /\ B[S].kind = "WAIT_MULTI"
      /\ \A j \in 1 .. a : B[1 + j].kind = "ACTION" /\ B[1 + j].action = rule.start[j]
      /\ \A j \in 1 .. b : B[S + j].kind = "ACTION" /\ B[S + j].action = Stops(rule)[j]
      /\ \A j \in 1 .. c : B[T + j].kind = "ACTION" /\ B[T + j].action = TimeoutStops(rule)[j]
  BY RuleKinds
<1>2. /\ a \in Nat \ {0} /\ b \in Nat \ {0} /\ c \in Nat \ {0}
      /\ S = a + 2 /\ T = S + b /\ D = T + c + 1
  BY Spaced
<1>3. /\ DOMAIN rule.start = 1 .. a /\ DOMAIN Stops(rule) = 1 .. b /\ DOMAIN TimeoutStops(rule) = 1 .. c
  <2>1. IsList(rule.start) /\ IsList(Stops(rule)) /\ IsList(TimeoutStops(rule)) BY Layout
  <2> QED BY <2>1, ListIsSeq
<1>4. \A k : k \in Used(rule) <=> /\ k \in 1 .. D
                                  /\ k \in S + 1 .. T => OnEvent(rule)
                                  /\ k \in T + 1 .. D - 1 => OnTimeout(rule)
  BY DEF Used
<1>5. \A k \in 1 .. D : \/ k = 1 \/ k = S \/ k = D
                        \/ \E j \in 1 .. a : k = 1 + j
                        \/ \E j \in 1 .. b : k = S + j
                        \/ \E j \in 1 .. c : k = T + j
  BY Positions
<1> HIDE DEF B, S, T, D, a, b, c
<1>6. ASSUME NEW k \in acts PROVE B[k].action \in Wanted(rule)
  <2>1. k \in Used(rule) /\ B[k].kind = "ACTION" OBVIOUS
  <2>2. k \in 1 .. D /\ k \notin {1, S, D} BY <1>1, <1>4, <2>1
  <2>3. ASSUME NEW j \in 1 .. a, k = 1 + j PROVE B[k].action \in Wanted(rule)
    BY <1>1, <1>3, <2>3 DEF Wanted, Range
  <2>4. ASSUME NEW j \in 1 .. b, k = S + j PROVE B[k].action \in Wanted(rule)
    <3>1. k \in S + 1 .. T BY <1>2, <2>4
    <3>2. OnEvent(rule) BY <1>4, <2>1, <3>1
    <3>3. B[k].action \in Range(Stops(rule)) BY <1>1, <1>3, <2>4 DEF Range
    <3> QED BY <3>2, <3>3 DEF Wanted
  <2>5. ASSUME NEW j \in 1 .. c, k = T + j PROVE B[k].action \in Wanted(rule)
    <3>1. k \in T + 1 .. D - 1 BY <1>2, <2>5
    <3>2. OnTimeout(rule) BY <1>4, <2>1, <3>1
    <3>3. B[k].action \in Range(TimeoutStops(rule)) BY <1>1, <1>3, <2>5 DEF Range
    <3> QED BY <3>2, <3>3 DEF Wanted
  <2> QED BY <1>5, <2>2, <2>3, <2>4, <2>5
<1>7. ASSUME NEW x \in Range(rule.start) PROVE x \in done
  <2>1. PICK j \in 1 .. a : x = rule.start[j] BY <1>3 DEF Range
  <2>2. 1 + j \in 1 .. D /\ 1 + j \notin S + 1 .. T /\ 1 + j \notin T + 1 .. D - 1 BY <1>2
  <2>3. 1 + j \in acts /\ B[1 + j].action = x BY <1>1, <1>4, <2>1, <2>2
  <2> HIDE DEF acts
  <2> QED BY <2>3
<1>8. ASSUME OnEvent(rule), NEW x \in Range(Stops(rule)) PROVE x \in done
  <2>1. PICK j \in 1 .. b : x = Stops(rule)[j] BY <1>3 DEF Range
  <2>2. S + j \in 1 .. D /\ S + j \notin T + 1 .. D - 1 BY <1>2
  <2>3. S + j \in acts /\ B[S + j].action = x BY <1>1, <1>4, <1>8, <2>1, <2>2
  <2> HIDE DEF acts
  <2> QED BY <2>3
<1>9. ASSUME OnTimeout(rule), NEW x \in Range(TimeoutStops(rule)) PROVE x \in done
  <2>1. PICK j \in 1 .. c : x = TimeoutStops(rule)[j] BY <1>3 DEF Range
  <2>2. T + j \in 1 .. D /\ T + j \notin S + 1 .. T BY <1>2
  <2>3. T + j \in acts /\ B[T + j].action = x BY <1>1, <1>4, <1>9, <2>1, <2>2
  <2> HIDE DEF acts
  <2> QED BY <2>3
<1>10. done \subseteq Wanted(rule) BY <1>6
<1>11. Wanted(rule) \subseteq done
  <2> HIDE DEF done
  <2> QED BY <1>7, <1>8, <1>9 DEF Wanted
<1>12. Wanted(rule) = done BY <1>10, <1>11
<1> QED BY <1>12 DEF B

\* It is what the lines of the rule ask for.
LEMMA WantedIsAsked ==
  ASSUME NEW text, NEW lines, NEW rule, Says(text, lines, rule)
  PROVE  Asked(text, lines) = Wanted(rule)
<1> DEFINE until == Named(text, lines, "UNTIL")
           listed(keyword) == IF Named(text, lines, keyword) = {} THEN {"stepper.stop"}
                              ELSE Named(text, lines, keyword)
<1>1. /\ Range(rule.start) = Named(text, lines, "START")
      /\ Range(rule.stop) = Named(text, lines, "STOP")
      /\ Range(rule.timeout) = Named(text, lines, "TIMEOUT")
      /\ \A c \in Range(rule.until) : c.kind \in {"on", "timeout"}
      /\ {UntilOf(c) : c \in Range(rule.until)} = until
      /\ IsList(rule.stop) /\ IsList(rule.timeout) /\ IsList(rule.until)
  BY DEF Says, TypedRule
<1>2. ASSUME NEW s, IsList(s) PROVE s = << >> <=> Range(s) = {}
  <2>1. s \in Seq(Range(s)) /\ DOMAIN s = 1 .. Len(s) /\ Len(s) \in Nat BY <1>2, ListIsSeq
  <2>2. ASSUME s # << >> PROVE s[1] \in Range(s)
    <3>1. Len(s) # 0 BY <2>1, <2>2, EmptySeq
    <3>2. 1 \in DOMAIN s BY <2>1, <3>1
    <3> QED BY <3>2 DEF Range
  <2>3. Range(<< >>) = {} BY DEF Range
  <2> QED BY <2>2, <2>3
<1>3. ASSUME NEW s, IsList(s)
      PROVE  Range(OrDefault(s)) = IF Range(s) = {} THEN {"stepper.stop"} ELSE Range(s)
  <2>1. Range(<<"stepper.stop">>) = {"stepper.stop"} BY DEF Range
  <2> QED BY <1>2, <1>3, <2>1 DEF OrDefault
<1>4. Range(Stops(rule)) = listed("STOP") /\ Range(TimeoutStops(rule)) = listed("TIMEOUT")
  <2>1. Range(OrDefault(rule.stop)) = IF Range(rule.stop) = {} THEN {"stepper.stop"} ELSE Range(rule.stop)
    BY <1>1, <1>3
  <2>2. Range(OrDefault(rule.timeout)) =
          IF Range(rule.timeout) = {} THEN {"stepper.stop"} ELSE Range(rule.timeout)
    BY <1>1, <1>3
  <2> QED BY <1>1, <2>1, <2>2 DEF Stops, TimeoutStops
<1>5. rule.until = << >> <=> until = {}
  <2>1. rule.until = << >> <=> Range(rule.until) = {} BY <1>1, <1>2
  <2> QED BY <1>1, <2>1
<1>6. \A c \in Range(rule.until) : UntilOf(c) = IF c.kind = "on" THEN "ON" ELSE "TIMEOUT" BY DEF UntilOf
<1>7. until \subseteq {"ON", "TIMEOUT"} BY <1>1, <1>6
<1>8. "ON" \in until <=> OnEvent(rule)
  <2>1. ASSUME "ON" \in until PROVE OnEvent(rule)
    <3>1. PICK c \in Range(rule.until) : UntilOf(c) = "ON" BY <1>1, <2>1
    <3> QED BY <1>6, <3>1 DEF OnEvent
  <2>2. ASSUME OnEvent(rule) PROVE "ON" \in until
    <3>1. PICK c \in Range(rule.until) : c.kind = "on" BY <2>2 DEF OnEvent
    <3> QED BY <1>1, <1>6, <3>1
  <2> QED BY <2>1, <2>2
<1>9. "TIMEOUT" \in until <=> \E c \in Range(rule.until) : c.kind # "on"
  <2>1. ASSUME "TIMEOUT" \in until PROVE \E c \in Range(rule.until) : c.kind # "on"
    <3>1. PICK c \in Range(rule.until) : UntilOf(c) = "TIMEOUT" BY <1>1, <2>1
    <3> QED BY <1>6, <3>1
  <2>2. ASSUME NEW c \in Range(rule.until), c.kind # "on" PROVE "TIMEOUT" \in until
    BY <1>1, <1>6, <2>2
  <2> QED BY <2>1, <2>2
<1>10. Asked(text, lines) =
         Named(text, lines, "START")
           \cup (IF "ON" \in until THEN listed("STOP") ELSE {})
           \cup (IF until = {"ON"} THEN {} ELSE listed("TIMEOUT"))
  BY DEF Asked
<1> HIDE DEF until, listed
<1>11. until = {"ON"} <=> ~OnTimeout(rule)
  <2>1. OnTimeout(rule) <=> until = {} \/ "TIMEOUT" \in until BY <1>5, <1>9 DEF OnTimeout
  <2> QED BY <1>7, <2>1
<1> QED BY <1>1, <1>4, <1>8, <1>10, <1>11 DEF Wanted

-----------------------------------------------------------------------------
(* The rules of a text stay apart.                                         *)

\* No two places of a graph have the same id.
LEMMA PlaceOfId ==
  ASSUME NEW g, IdsUnique(g), NEW rules, NEW at, Laid(g, rules, at), IsList(rules),
         \A i \in DOMAIN rules : TypedRule(rules[i]) /\ RuleCompiles(rules[i]),
         NEW i \in DOMAIN rules, NEW k \in 1 .. DoneAt(rules[i]),
         NEW j \in DOMAIN rules, NEW m \in 1 .. DoneAt(rules[j]),
         CompileRule(rules[i])[k].id = CompileRule(rules[j])[m].id
  PROVE  i = j /\ k = m
<1> DEFINE D(n) == DoneAt(rules[n])
<1>1. DOMAIN rules = 1 .. Len(rules) /\ Len(rules) \in Nat BY ListIsSeq
<1>2. at[i] \in Nat /\ at[j] \in Nat /\ D(i) \in Nat /\ D(j) \in Nat BY Spaced DEF Laid
<1>3. /\ at[i] + k \in DOMAIN g.nodes /\ g.nodes[at[i] + k] = CompileRule(rules[i])[k]
      /\ at[j] + m \in DOMAIN g.nodes /\ g.nodes[at[j] + m] = CompileRule(rules[j])[m]
  BY DEF Laid, Sits
<1>4. at[i] + k = at[j] + m BY <1>3 DEF IdsUnique
<1>5. (i < j => at[i] + D(i) <= at[j]) /\ (j < i => at[j] + D(j) <= at[i]) BY DEF Laid
<1>6. k \in 1 .. D(i) /\ m \in 1 .. D(j) /\ i \in Nat /\ j \in Nat BY <1>1
<1> HIDE DEF D
<1>7. ~(i < j) /\ ~(j < i) BY <1>2, <1>4, <1>5, <1>6
<1> QED BY <1>2, <1>4, <1>6, <1>7

LEMMA RulesApartInGraph ==
  ASSUME NEW text, TypedText(text), NEW g, g = CompileDslToIr(ParseDsl(text)), g.accepted
  PROVE  LET entries == Entries(g)
             reach(i) == Reach(g, entries[i])
             waits(i) == {n \in Range(g.nodes) : n.id \in reach(i) /\ n.kind = "WAIT_MULTI"}
         IN \A i \in DOMAIN entries :
              /\ reach(i) \subseteq Ids(g)
              /\ \A j \in DOMAIN entries : reach(i) \cap reach(j) # {} => i = j
              /\ {NodeOf(g, x).action : x \in {y \in reach(i) : NodeOf(g, y).kind = "ACTION"}}
                   = Asked(text, RuleLines(text, i))
              /\ \A n \in waits(i) : \A o, p \in Range(n.options) :
                   o.kind # p.kind =>
                     \A id \in Reach(g, o.to) \cap Reach(g, p.to) :
                       id \in Ids(g) /\ NodeOf(g, id).kind = "END"
<1> DEFINE dsl == ParseDsl(text)
           rules == dsl.rules
           B(i) == CompileRule(rules[i])
           D(i) == DoneAt(rules[i])
           entries == Entries(g)
           reach(i) == Reach(g, entries[i])
<1>1. ~dsl.failed
  <2>1. Rejected.accepted = FALSE BY DEF Rejected, Graph
  <2>2. dsl.failed => CompileDslToIr(dsl) = Rejected BY DEF CompileDslToIr
  <2> QED BY <2>1, <2>2
<1>2. Parsed(dsl, text, Len(text)) BY <1>1, ParseSays
<1> HIDE DEF dsl
<1>3. IsList(rules) /\ DOMAIN rules = 1 .. Len(rules)
  <2>1. IsList(rules) BY <1>2 DEF Parsed
  <2> QED BY <2>1, ListIsSeq
<1>4. \A i \in DOMAIN rules : Says(text, LinesOf(text, i, Len(text)), rules[i])
  BY <1>2, <1>3 DEF Parsed
<1>5. \A i \in DOMAIN rules : TypedRule(rules[i]) BY <1>4 DEF Says
<1>6. TypedRules(dsl) BY <1>3, <1>5 DEF TypedRules
<1>7. g = CompileDslToIr(dsl) BY DEF dsl
<1>8. /\ \A i \in DOMAIN rules : RuleCompiles(rules[i])
      /\ ValidGraph(g) /\ IsList(g.nodes)
      /\ entries = [i \in DOMAIN rules |-> B(i)[1].id]
      /\ \E at : Laid(g, rules, at)
  BY <1>6, <1>7, DslCompiled
<1>9. IdsUnique(g) BY <1>8 DEF ValidGraph
<1>10. PICK at : Laid(g, rules, at) BY <1>8
<1>11. \A i \in DOMAIN rules : at[i] \in Nat /\ Sits(g, rules[i], at[i]) BY <1>10 DEF Laid
<1>12. \A i \in DOMAIN rules : TypedRule(rules[i]) /\ RuleCompiles(rules[i]) BY <1>5, <1>8
<1>13. DOMAIN entries = DOMAIN rules /\ \A i \in DOMAIN rules : entries[i] = B(i)[1].id BY <1>8
<1>14. ASSUME NEW i \in DOMAIN rules, NEW k \in 1 .. D(i)
       PROVE  NodeOf(g, B(i)[k].id) = B(i)[k] /\ B(i)[k].id \in Ids(g) /\ B(i)[k] \in Range(g.nodes)
  BY <1>8, <1>9, <1>11, RuleSits
<1>15. ASSUME NEW i \in DOMAIN rules, NEW k \in 1 .. D(i),
              NEW j \in DOMAIN rules, NEW m \in 1 .. D(j), B(i)[k].id = B(j)[m].id
       PROVE  i = j /\ k = m
  BY <1>3, <1>9, <1>10, <1>12, <1>15, PlaceOfId
<1>16. ASSUME NEW i \in DOMAIN rules, NEW P, Closed(rules[i], P), NEW k \in P
       PROVE  Reach(g, B(i)[k].id) \subseteq IdsAt(rules[i], P)
  <2>1. TypedRule(rules[i]) /\ RuleCompiles(rules[i]) /\ at[i] \in Nat /\ Sits(g, rules[i], at[i])
    BY <1>11, <1>12
  <2> QED BY <1>8, <1>9, <1>16, <2>1, RuleHolds
<1>17. ASSUME NEW i \in DOMAIN rules, NEW P, Closed(rules[i], P), NEW x \in IdsAt(rules[i], P)
       PROVE  \E k \in P : k \in 1 .. D(i) /\ x = B(i)[k].id
  BY <1>17 DEF IdsAt, Closed
<1>18. ASSUME NEW i \in DOMAIN rules
       PROVE  /\ Closed(rules[i], Used(rules[i])) /\ Closed(rules[i], AfterEvent(rules[i]))
              /\ Closed(rules[i], AfterTimeout(rules[i]))
  <2>1. TypedRule(rules[i]) /\ RuleCompiles(rules[i]) BY <1>12
  <2> QED BY <2>1, PartsClosed
<1>19. ASSUME NEW i \in DOMAIN rules
       PROVE  /\ StopAt(rules[i]) \in Nat /\ TimeoutAt(rules[i]) \in Nat /\ D(i) \in Nat
              /\ 2 < StopAt(rules[i]) /\ StopAt(rules[i]) < TimeoutAt(rules[i]) /\ TimeoutAt(rules[i]) + 1 < D(i)
  <2>1. TypedRule(rules[i]) /\ RuleCompiles(rules[i]) BY <1>12
  <2> QED BY <2>1, PlacesGrow
<1> HIDE DEF entries
<1>20. ASSUME NEW i \in DOMAIN rules
       PROVE  reach(i) \subseteq IdsAt(rules[i], Used(rules[i]))
  <2>1. 1 \in Used(rules[i]) BY <1>19 DEF Used
  <2>2. Closed(rules[i], Used(rules[i])) BY <1>18
  <2>3. Reach(g, B(i)[1].id) \subseteq IdsAt(rules[i], Used(rules[i])) BY <1>16, <2>1, <2>2
  <2> QED BY <1>13, <2>3
<1>21. ASSUME NEW i \in DOMAIN rules, NEW x \in reach(i)
       PROVE  \E k \in Used(rules[i]) : k \in 1 .. D(i) /\ x = B(i)[k].id
  <2> DEFINE P == Used(rules[i])
  <2>1. x \in IdsAt(rules[i], P) BY <1>20
  <2>2. Closed(rules[i], P) BY <1>18
  <2> HIDE DEF P, B, D, rules
  <2>3. \E k \in P : k \in 1 .. D(i) /\ x = B(i)[k].id BY <1>17, <2>1, <2>2
  <2> QED BY <2>3 DEF P
<1>22. ASSUME NEW i \in DOMAIN rules, NEW k \in Used(rules[i]), k # D(i)
       PROVE  B(i)[k].id \in reach(i)
  <2>1. TypedRule(rules[i]) /\ RuleCompiles(rules[i]) /\ at[i] \in Nat /\ Sits(g, rules[i], at[i])
    BY <1>11, <1>12
  <2>2. CompileRule(rules[i])[k].id \in Reach(g, CompileRule(rules[i])[1].id)
    BY <1>8, <1>9, <1>22, <2>1, UsedAreReached
  <2> QED BY <1>13, <2>2
<1> HIDE DEF B, D, reach, rules
<1>23. ASSUME NEW i \in DOMAIN rules PROVE reach(i) \subseteq Ids(g)
  BY <1>14, <1>21
<1>24. ASSUME NEW i \in DOMAIN rules, NEW j \in DOMAIN rules, reach(i) \cap reach(j) # {} PROVE i = j
  <2>1. PICK x : x \in reach(i) /\ x \in reach(j) BY <1>24
  <2>2. PICK k \in 1 .. D(i) : x = B(i)[k].id BY <1>21, <2>1
  <2>3. PICK m \in 1 .. D(j) : x = B(j)[m].id BY <1>21, <2>1
  <2> QED BY <1>15, <2>2, <2>3
<1>25. ASSUME NEW i \in DOMAIN rules
       PROVE  {NodeOf(g, x).action : x \in {y \in reach(i) : NodeOf(g, y).kind = "ACTION"}}
                = Asked(text, RuleLines(text, i))
  <2> DEFINE acts == {y \in reach(i) : NodeOf(g, y).kind = "ACTION"}
             places == {k \in Used(rules[i]) : B(i)[k].kind = "ACTION"}
  <2>1. B(i)[D(i)].kind = "END" /\ Wanted(rules[i]) = {B(i)[k].action : k \in places}
    BY <1>12, RuleKinds, WantedIsUsed DEF B, D
  <2>2. \A k \in places : B(i)[k].id \in acts /\ NodeOf(g, B(i)[k].id).action = B(i)[k].action
    <3>1. ASSUME NEW k \in places
          PROVE  B(i)[k].id \in acts /\ NodeOf(g, B(i)[k].id).action = B(i)[k].action
      <4>1. k \in Used(rules[i]) /\ B(i)[k].kind = "ACTION" OBVIOUS
      <4>2. k # D(i) /\ k \in 1 .. D(i) BY <2>1, <4>1 DEF Used, D
      <4>3. B(i)[k].id \in reach(i) BY <1>22, <4>1, <4>2
      <4>4. NodeOf(g, B(i)[k].id) = B(i)[k] BY <1>14, <4>2
      <4> QED BY <4>1, <4>3, <4>4
    <3> QED BY <3>1
  <2>3. ASSUME NEW x \in acts
        PROVE  \E k \in places : NodeOf(g, x).action = B(i)[k].action
    <3>1. PICK k \in Used(rules[i]) : k \in 1 .. D(i) /\ x = B(i)[k].id BY <1>21
    <3>2. NodeOf(g, x) = B(i)[k] BY <1>14, <3>1
    <3>3. B(i)[k].kind = "ACTION" BY <3>2
    <3> QED BY <3>1, <3>2, <3>3
  <2>4. {NodeOf(g, x).action : x \in acts} = {B(i)[k].action : k \in places}
    <3> HIDE DEF acts, places
    <3> QED BY <2>2, <2>3
  <2>5. Asked(text, RuleLines(text, i)) = Wanted(rules[i])
    <3>1. RuleLines(text, i) = LinesOf(text, i, Len(text))
      <4>1. DOMAIN text = 1 .. Len(text) BY ListIsSeq DEF TypedText
      <4> QED BY <4>1 DEF RuleLines, LinesOf, RulesIn
    <3>2. Says(text, RuleLines(text, i), rules[i]) BY <1>4, <3>1
    <3> QED BY <3>2, WantedIsAsked
  <2> QED BY <2>1, <2>4, <2>5
<1>26. ASSUME NEW i \in DOMAIN rules,
              NEW n \in Range(g.nodes), n.id \in reach(i), n.kind = "WAIT_MULTI",
              NEW o \in Range(n.options), NEW p \in Range(n.options), o.kind # p.kind,
              NEW id \in Reach(g, o.to) \cap Reach(g, p.to)
       PROVE  id \in Ids(g) /\ NodeOf(g, id).kind = "END"
  <2> DEFINE rule == rules[i]
             opts == CompileUntil(Prefix(rule), rule.until)
             event == B(i)[StopAt(rule) + 1].id
             timeout == B(i)[TimeoutAt(rule) + 1].id
  <2>1. TypedRule(rule) /\ RuleCompiles(rule) BY <1>12
  <2>2. PICK k \in 1 .. D(i) : n.id = B(i)[k].id BY <1>21, <1>26
  <2>3. n = B(i)[k]
    <3>1. B(i)[k] \in Range(g.nodes) BY <1>14
    <3>2. PICK a \in DOMAIN g.nodes : g.nodes[a] = n BY DEF Range
    <3>3. PICK b \in DOMAIN g.nodes : g.nodes[b] = B(i)[k] BY <3>1 DEF Range
    <3>4. a = b BY <1>9, <2>2, <3>2, <3>3 DEF IdsUnique
    <3> QED BY <3>2, <3>3, <3>4
  <2> HIDE DEF rule
  <2>4. /\ B(i)[1].kind = "WAIT_EVENT" /\ B(i)[DoneAt(rule)].kind = "END"
        /\ B(i)[StopAt(rule)].options = opts
        /\ \A j \in 1 .. Len(rule.start) : B(i)[1 + j].kind = "ACTION"
        /\ \A j \in 1 .. Len(Stops(rule)) : B(i)[StopAt(rule) + j].kind = "ACTION"
        /\ \A j \in 1 .. Len(TimeoutStops(rule)) : B(i)[TimeoutAt(rule) + j].kind = "ACTION"
    <3>1. B(i) = CompileRule(rule) BY DEF B, rule
    <3> QED BY <2>1, <3>1, RuleKinds
  <2>5. /\ B(i)[StopAt(rule) + 1].id = Prefix(rule) \o <<"stop">>
        /\ B(i)[TimeoutAt(rule) + 1].id = Prefix(rule) \o <<"timeout">>
    <3>1. B(i) = CompileRule(rule) BY DEF B, rule
    <3> QED BY <2>1, <3>1, RuleCompiled
  <2>6. k = StopAt(rule)
    <3>1. k \in 1 .. DoneAt(rule) BY DEF D, rule
    <3>2. \/ k = 1
          \/ \E j \in 1 .. Len(rule.start) : k = 1 + j
          \/ k = StopAt(rule)
          \/ \E j \in 1 .. Len(Stops(rule)) : k = StopAt(rule) + j
          \/ \E j \in 1 .. Len(TimeoutStops(rule)) : k = TimeoutAt(rule) + j
          \/ k = DoneAt(rule)
      BY <2>1, <3>1, Positions
    <3> QED BY <1>26, <2>3, <2>4, <3>2
  <2>7. n.options = opts BY <2>3, <2>4, <2>6
  <2>8. /\ \A i1 \in DOMAIN opts : opts[i1].kind \in {"EVENT", "TIMEOUT"} /\ opts[i1].priority \in Int
        /\ \A o1 \in Range(opts) :
             o1.to = IF o1.kind = "EVENT" THEN Prefix(rule) \o <<"stop">> ELSE Prefix(rule) \o <<"timeout">>
    BY <2>1, UntilCompiled
  <2> HIDE DEF opts
  <2>9. \A o1 \in Range(opts) :
          o1.kind \in {"EVENT", "TIMEOUT"} /\ o1.to = IF o1.kind = "EVENT" THEN event ELSE timeout
    BY <2>5, <2>8 DEF Range
  <2> HIDE DEF event, timeout
  <2>10. {o.to, p.to} = {event, timeout} BY <1>26, <2>7, <2>9
  <2>11. id \in Reach(g, event) /\ id \in Reach(g, timeout) BY <2>10
  <2>12. /\ Closed(rule, AfterEvent(rule)) /\ Closed(rule, AfterTimeout(rule))
         /\ StopAt(rule) + 1 \in AfterEvent(rule) /\ TimeoutAt(rule) + 1 \in AfterTimeout(rule)
    <3>1. /\ StopAt(rule) \in Nat /\ TimeoutAt(rule) \in Nat /\ DoneAt(rule) \in Nat
          /\ StopAt(rule) < TimeoutAt(rule) /\ TimeoutAt(rule) + 1 < DoneAt(rule)
      BY <2>1, PlacesGrow
    <3> QED BY <2>1, <3>1, PartsClosed DEF AfterEvent, AfterTimeout
  <2>13. PICK a \in AfterEvent(rule) : a \in 1 .. D(i) /\ id = B(i)[a].id
    <3> DEFINE P == AfterEvent(rule)
    <3>1. Reach(g, event) \subseteq IdsAt(rule, P) BY <1>16, <2>12 DEF event, rule
    <3> HIDE DEF P
    <3>2. \E a \in P : a \in 1 .. D(i) /\ id = B(i)[a].id BY <1>17, <2>11, <2>12, <3>1 DEF rule, P
    <3> QED BY <3>2 DEF P
  <2>14. PICK b \in AfterTimeout(rule) : b \in 1 .. D(i) /\ id = B(i)[b].id
    <3> DEFINE P == AfterTimeout(rule)
    <3>1. Reach(g, timeout) \subseteq IdsAt(rule, P) BY <1>16, <2>12 DEF timeout, rule
    <3> HIDE DEF P
    <3>2. \E b \in P : b \in 1 .. D(i) /\ id = B(i)[b].id BY <1>17, <2>11, <2>12, <3>1 DEF rule, P
    <3> QED BY <3>2 DEF P
  <2>15. a = b BY <1>15, <2>13, <2>14
  <2>16. a = DoneAt(rule)
    <3>1. /\ StopAt(rule) \in Nat /\ TimeoutAt(rule) \in Nat /\ DoneAt(rule) \in Nat BY <2>1, PlacesGrow
    <3> QED BY <2>13, <2>14, <2>15, <3>1 DEF AfterEvent, AfterTimeout
  <2>17. NodeOf(g, id) = B(i)[a] /\ id \in Ids(g) BY <1>14, <2>13
  <2> QED BY <2>4, <2>16, <2>17
<1> QED BY <1>13, <1>23, <1>24, <1>25, <1>26 DEF entries, reach

LEMMA RulesApartHere == ASSUME ControlOK PROVE RulesRunApart
<1> SUFFICES ASSUME graph.accepted, "text" \in DOMAIN Sources[source]
             PROVE  LET text == Sources[source].text
                        entries == Entries(graph)
                        reach(i) == Reach(graph, entries[i])
                        waits(i) == {n \in Range(graph.nodes) : n.id \in reach(i) /\ n.kind = "WAIT_MULTI"}
                    IN \A i \in DOMAIN entries :
                         /\ \A j \in DOMAIN entries : reach(i) \cap reach(j) # {} => i = j
                         /\ ActionsOf(reach(i)) = Asked(text, RuleLines(text, i))
                         /\ \A n \in waits(i) : \A o, p \in Range(n.options) :
                              o.kind # p.kind =>
                                \A id \in Reach(graph, o.to) \cap Reach(graph, p.to) :
                                  nodes[id].kind = "END"
  BY DEF RulesRunApart
<1> DEFINE src == Sources[source]
           text == src.text
           entries == Entries(graph)
           reach(i) == Reach(graph, entries[i])
           waits(i) == {n \in Range(graph.nodes) : n.id \in reach(i) /\ n.kind = "WAIT_MULTI"}
<1>1. source \in DOMAIN Sources BY DEF ControlOK
<1>2. TypedSource(src) /\ "text" \in DOMAIN src BY <1>1, IrAssumption
<1>3. graph = GraphOf(src) BY <1>1 DEF graph, Graphs
<1>4. \A id \in Ids(graph) : nodes[id] = NodeOf(graph, id) BY <1>1 DEF nodes, NodeMaps, graph
<1> HIDE DEF src
<1>5. DOMAIN src = {"text"} /\ TypedText(text) BY <1>2 DEF TypedSource
<1>6. graph = CompileDslToIr(ParseDsl(text)) BY <1>3, <1>5 DEF GraphOf
<1> HIDE DEF text
<1>7. \A i \in DOMAIN entries :
        /\ reach(i) \subseteq Ids(graph)
        /\ \A j \in DOMAIN entries : reach(i) \cap reach(j) # {} => i = j
        /\ {NodeOf(graph, x).action : x \in {y \in reach(i) : NodeOf(graph, y).kind = "ACTION"}}
             = Asked(text, RuleLines(text, i))
        /\ \A n \in waits(i) : \A o, p \in Range(n.options) :
             o.kind # p.kind =>
               \A id \in Reach(graph, o.to) \cap Reach(graph, p.to) :
                 id \in Ids(graph) /\ NodeOf(graph, id).kind = "END"
  BY <1>5, <1>6, RulesApartInGraph
<1> HIDE DEF reach, waits
<1>8. ASSUME NEW i \in DOMAIN entries PROVE ActionsOf(reach(i)) = Asked(text, RuleLines(text, i))
  <2> DEFINE acts == {y \in reach(i) : NodeOf(graph, y).kind = "ACTION"}
  <2>1. reach(i) \subseteq Ids(graph) /\ {NodeOf(graph, x).action : x \in acts} = Asked(text, RuleLines(text, i))
    BY <1>7
  <2>2. acts = {j \in reach(i) : nodes[j].kind = "ACTION"} BY <1>4, <2>1
  <2>3. acts \subseteq Ids(graph) BY <2>1
  <2>4. ActionsOf(reach(i)) = {nodes[x].action : x \in acts} BY <2>2 DEF ActionsOf
  <2> HIDE DEF acts
  <2>5. {nodes[x].action : x \in acts} = {NodeOf(graph, x).action : x \in acts} BY <1>4, <2>3
  <2> QED BY <2>1, <2>4, <2>5
<1>9. \A i \in DOMAIN entries : \A n \in waits(i) : \A o, p \in Range(n.options) :
        o.kind # p.kind =>
          \A id \in Reach(graph, o.to) \cap Reach(graph, p.to) : nodes[id].kind = "END"
  BY <1>4, <1>7
<1> QED BY <1>7, <1>8, <1>9 DEF reach, waits, text, src

\* Rules that a text holds side by side run each for itself, do what their own
\* lines ask for, and end in one way (parse_dsl, compile_rule, validate_graph).
THEOREM RulesApart == Spec => []RulesRunApart
<1>1. Spec => []IrInv BY Invariant
<1>2. IrInv => RulesRunApart BY RulesApartHere DEF IrInv
<1> QED BY <1>1, <1>2, PTL
=============================================================================

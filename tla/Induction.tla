----------------------------- MODULE Induction -----------------------------
(***************************************************************************)
(* Induction on numbers, for the proofs: the least number of a set, and    *)
(* the sets that contain all numbers, from the library's theorem that the  *)
(* order of the natural numbers is well-founded.  The library states       *)
(* induction for an operator, which the provers cannot be given; for a set *)
(* they can use it.  With it, what FlattenSeq makes of one sequence more.   *)
(***************************************************************************)
EXTENDS Integers, SequencesExt, WellFoundedInduction, TLAPS

(* The order, as the set of its pairs.                                      *)
Smaller == {p \in Nat \X Nat : p[1] < p[2]}

LEMMA SmallerWellFounded == IsWellFoundedOn(Smaller, Nat)
<1>1. IsWellFoundedOn(OpToRel(<, Nat), Nat)
  BY NatLessThanWellFounded, Zenon
<1>2. OpToRel(<, Nat) = Smaller
  BY Zenon DEF OpToRel, Smaller
<1> QED
  BY <1>1, <1>2, Zenon

(* A set of numbers that is not empty has a least one.                      *)
LEMMA LeastNumber ==
  ASSUME NEW T, T \subseteq Nat, T # {}
  PROVE  \E n \in T : \A m \in T : n <= m
<1>1. \E x \in T : \A y \in T : ~(<<y, x>> \in Smaller)
  BY SmallerWellFounded, WFMin, Zenon
<1>2. PICK x \in T : \A y \in T : ~(<<y, x>> \in Smaller)
  BY <1>1
<1>3. ASSUME NEW y \in T PROVE x <= y
  <2>1. x \in Nat /\ y \in Nat
    OBVIOUS
  <2>2. <<y, x>> \notin Smaller
    BY <1>2
  <2>3. ~(y < x)
    BY <2>1, <2>2 DEF Smaller
  <2> QED
    BY <2>1, <2>3
<1> QED
  BY <1>3

(* A set with 0 and the successor of each of its numbers has all of them.   *)
LEMMA NaturalInduction ==
  ASSUME NEW S, 0 \in S, \A n \in Nat : n \in S => n + 1 \in S
  PROVE  Nat \subseteq S
<1> DEFINE T == Nat \ S
<1>1. CASE T = {}
  BY <1>1
<1>2. CASE T # {}
  <2>1. PICK n \in T : \A m \in T : n <= m
    BY <1>2, LeastNumber
  <2>2. n # 0
    OBVIOUS
  <2>3. n - 1 \in Nat /\ n - 1 \notin T
    BY <2>1, <2>2
  <2>4. n - 1 + 1 \in S
    BY <2>3
  <2> QED
    BY <2>3, <2>4
<1> QED
  BY <1>1, <1>2

(* A function may be defined by recursion over the numbers up to n, where   *)
(* F says what each step makes of the value before it.                      *)
Iterates(f, c, F, n) ==
  \A i \in 0..n : f[i] = IF i = 0 THEN c ELSE F[<<i, f[i - 1]>>]

LEMMA RecursionExists ==
  ASSUME NEW T, NEW c \in T, NEW n \in Nat, NEW F \in [(1..n) \X T -> T]
  PROVE  \E f \in [0..n -> T] : Iterates(f, c, F, n)
<1> DEFINE Follows(f, m) ==
             \A i \in 0..m : f[i] = IF i = 0 THEN c ELSE F[<<i, f[i - 1]>>]
           S == {m \in Nat : m <= n => \E f \in [0..m -> T] : Follows(f, m)}
<1>1. 0 \in S
  <2> DEFINE f == [i \in 0..0 |-> c]
  <2>1. f \in [0..0 -> T] /\ Follows(f, 0)
    OBVIOUS
  <2> QED
    BY <2>1
<1>2. ASSUME NEW m \in Nat, m \in S
      PROVE  m + 1 \in S
  <2> SUFFICES ASSUME m + 1 <= n
               PROVE  \E f \in [0..(m + 1) -> T] : Follows(f, m + 1)
    OBVIOUS
  <2>1. PICK f \in [0..m -> T] : Follows(f, m)
    BY <1>2
  <2> DEFINE g == [i \in 0..(m + 1) |-> IF i <= m THEN f[i] ELSE F[<<m + 1, f[m]>>]]
  <2>2. m \in 0..m /\ m + 1 \in 1..n /\ f[m] \in T
    OBVIOUS
  <2>3. F[<<m + 1, f[m]>>] \in T
    BY <2>2
  <2>4. \A i \in 0..(m + 1) : i \in 0..m \/ i = m + 1
    OBVIOUS
  <2>5. /\ \A i \in 0..m : g[i] = f[i]
        /\ g[m + 1] = F[<<m + 1, f[m]>>]
    OBVIOUS
  <2>6. g \in [0..(m + 1) -> T]
    BY <2>3
  <2> HIDE DEF g
  <2>7. ASSUME NEW i \in 0..(m + 1)
        PROVE  g[i] = IF i = 0 THEN c ELSE F[<<i, g[i - 1]>>]
    <3>1. CASE i = m + 1
      <4>1. g[i - 1] = f[m] /\ i # 0
        BY <3>1, <2>2, <2>5
      <4> QED
        BY <3>1, <4>1, <2>5
    <3>2. CASE i \in 0..m
      <4>1. i # 0 => i - 1 \in 0..m
        BY <3>2
      <4>2. f[i] = IF i = 0 THEN c ELSE F[<<i, f[i - 1]>>]
        BY <2>1, <3>2
      <4>3. g[i] = f[i] /\ (i # 0 => g[i - 1] = f[i - 1])
        BY <2>5, <3>2, <4>1
      <4> QED
        BY <4>2, <4>3
    <3> QED
      BY <2>4, <3>1, <3>2
  <2> QED
    BY <2>6, <2>7
<1>3. n \in S
  BY <1>1, <1>2, NaturalInduction
<1> QED
  BY <1>3 DEF Iterates

(* Two functions are the same up to n when they begin the same way and no   *)
(* step makes a difference.                                                 *)
StepsAlike(f, g, n) ==
  f[0] = g[0] /\ \A i \in 1..n : f[i - 1] = g[i - 1] => f[i] = g[i]

LEMMA SameUpTo ==
  ASSUME NEW n \in Nat, NEW f, NEW g, StepsAlike(f, g, n)
  PROVE  \A i \in 0..n : f[i] = g[i]
<1> USE DEF StepsAlike
<1> DEFINE S == {i \in Nat : i <= n => f[i] = g[i]}
<1>1. 0 \in S
  OBVIOUS
<1>2. ASSUME NEW i \in Nat, i \in S
      PROVE  i + 1 \in S
  <2> SUFFICES ASSUME i + 1 <= n PROVE f[i + 1] = g[i + 1]
    OBVIOUS
  <2> DEFINE k == i + 1
  <2>1. k \in 1..n /\ k - 1 = i /\ f[i] = g[i]
    BY <1>2
  <2> HIDE DEF k
  <2>2. f[k] = g[k]
    BY <2>1
  <2> QED
    BY <2>2 DEF k
<1> HIDE DEF S
<1>3. Nat \subseteq S
  BY <1>1, <1>2, NaturalInduction
<1>4. ASSUME NEW i \in 0..n
      PROVE  f[i] = g[i]
  <2>1. i \in Nat /\ i <= n
    OBVIOUS
  <2> QED
    BY <1>3, <2>1 DEF S
<1> QED
  BY <1>4

(* Sequences put one behind the other, up to each of them.                  *)
FlattensTo(f, seqs, n) ==
  \A i \in 1..n : f[i] = IF i = 1 THEN seqs[1] ELSE f[i - 1] \o seqs[i]

LEMMA FlattenFollows ==
  ASSUME NEW S, NEW seqs \in Seq(Seq(S)), seqs # <<>>
  PROVE  \E f \in [1..Len(seqs) -> Seq(S)] :
           FlattensTo(f, seqs, Len(seqs)) /\ FlattenSeq(seqs) = f[Len(seqs)]
<1> DEFINE n == Len(seqs)
           T == Seq(S)
           F == [p \in (1..n) \X T |-> IF p[1] = 1 THEN seqs[1] ELSE p[2] \o seqs[p[1]]]
           Flat(f) == f = [i \in 1..n |-> IF i = 1 THEN seqs[i] ELSE f[i - 1] \o seqs[i]]
           flatten == CHOOSE f : Flat(f)
<1>1. n \in Nat /\ n >= 1 /\ <<>> \in T /\ \A i \in 1..n : seqs[i] \in T
  OBVIOUS
<1>2. F \in [(1..n) \X T -> T]
  BY <1>1
<1>3. PICK f \in [0..n -> T] : Iterates(f, <<>>, F, n)
  BY <1>1, <1>2, RecursionExists
<1> DEFINE g == [i \in 1..n |-> f[i]]
<1>4. g \in [1..n -> T]
  BY <1>1, <1>3
<1>5. ASSUME NEW i \in 1..n
      PROVE  g[i] = IF i = 1 THEN seqs[i] ELSE g[i - 1] \o seqs[i]
  <2>1. i \in 0..n /\ i # 0 /\ i - 1 \in 0..n /\ (i # 1 => i - 1 \in 1..n)
    BY <1>1
  <2>2. f[i] = F[<<i, f[i - 1]>>] /\ f[i - 1] \in T
    BY <1>3, <2>1 DEF Iterates
  <2>3. f[i] = IF i = 1 THEN seqs[1] ELSE f[i - 1] \o seqs[i]
    BY <2>2
  <2>4. g[i] = f[i] /\ (i # 1 => g[i - 1] = f[i - 1])
    BY <2>1
  <2> QED
    BY <2>3, <2>4
<1>6. Flat(g)
  BY <1>5
<1>7. Flat(flatten)
  BY <1>6
<1>8. FlattenSeq(seqs) = flatten[n]
  BY <1>1 DEF FlattenSeq
<1> HIDE DEF flatten, g
<1>9. \A i \in 1..n : flatten[i] = IF i = 1 THEN seqs[i] ELSE flatten[i - 1] \o seqs[i]
  BY <1>7
<1>10. \A i \in 1..n : flatten[i] \in T
  <2> DEFINE G == {i \in Nat : i + 1 \in 1..n => flatten[i + 1] \in T}
  <2>1. 0 \in G
    BY <1>1, <1>9
  <2>2. ASSUME NEW i \in Nat, i \in G
        PROVE  i + 1 \in G
    <3> SUFFICES ASSUME i + 1 + 1 \in 1..n PROVE flatten[i + 1 + 1] \in T
      OBVIOUS
    <3> DEFINE k == i + 1 + 1
    <3>1. i + 1 \in 1..n /\ flatten[i + 1] \in T /\ k \in 1..n /\ k # 1 /\ k - 1 = i + 1
      BY <2>2
    <3> HIDE DEF k
    <3>2. flatten[k] = flatten[i + 1] \o seqs[k]
      BY <1>9, <3>1
    <3>3. flatten[k] \in T
      BY <1>1, <3>1, <3>2
    <3> QED
      BY <3>3 DEF k
  <2> HIDE DEF G
  <2>3. Nat \subseteq G
    BY <2>1, <2>2, NaturalInduction
  <2>4. ASSUME NEW i \in 1..n
        PROVE  flatten[i] \in T
    <3>1. i - 1 \in Nat /\ i - 1 + 1 = i
      OBVIOUS
    <3> QED
      BY <2>3, <3>1 DEF G
  <2> QED
    BY <2>4
<1>11. flatten \in [1..n -> T]
  BY <1>7, <1>10
<1>12. FlattensTo(flatten, seqs, n)
  BY <1>9 DEF FlattensTo
<1> QED
  BY <1>8, <1>11, <1>12

LEMMA FlattenNothing == FlattenSeq(<<>>) = <<>>
BY DEF FlattenSeq

LEMMA FlattenType ==
  ASSUME NEW S, NEW seqs \in Seq(Seq(S))
  PROVE  FlattenSeq(seqs) \in Seq(S)
<1>1. CASE seqs = <<>>
  <2>1. <<>> \in Seq(S)
    OBVIOUS
  <2> QED
    BY <1>1, <2>1, FlattenNothing
<1>2. CASE seqs # <<>>
  <2>1. PICK f \in [1..Len(seqs) -> Seq(S)] : FlattenSeq(seqs) = f[Len(seqs)]
    BY <1>2, FlattenFollows
  <2>2. Len(seqs) \in 1..Len(seqs)
    BY <1>2
  <2> QED
    BY <2>1, <2>2
<1> QED
  BY <1>1, <1>2

(* One more.                                                                *)
LEMMA FlattenAppend ==
  ASSUME NEW S, NEW seqs \in Seq(Seq(S)), NEW x \in Seq(S)
  PROVE  FlattenSeq(Append(seqs, x)) = FlattenSeq(seqs) \o x
<1> DEFINE n == Len(seqs)
           more == Append(seqs, x)
<1>1. /\ n \in Nat /\ more \in Seq(Seq(S)) /\ Len(more) = n + 1 /\ more # <<>>
      /\ \A i \in 1..n : more[i] = seqs[i]
      /\ more[n + 1] = x
  <2>1. /\ n \in Nat /\ more \in Seq(Seq(S)) /\ Len(more) = n + 1
        /\ \A i \in 1..n : more[i] = seqs[i]
        /\ more[n + 1] = x
    OBVIOUS
  <2> HIDE DEF more
  <2> QED
    BY <2>1
<1>2. PICK g \in [1..Len(more) -> Seq(S)] :
        FlattensTo(g, more, Len(more)) /\ FlattenSeq(more) = g[Len(more)]
  BY <1>1, FlattenFollows
<1> HIDE DEF more
<1>3. \A i \in 1..(n + 1) : g[i] = IF i = 1 THEN more[1] ELSE g[i - 1] \o more[i]
  BY <1>1, <1>2 DEF FlattensTo
<1>4. CASE seqs = <<>>
  <2>1. n = 0 /\ FlattenSeq(seqs) = <<>>
    BY <1>4, FlattenNothing
  <2>2. g[1] = x
    BY <1>1, <1>3, <2>1
  <2>3. FlattenSeq(more) = x /\ <<>> \o x = x
    BY <1>1, <1>2, <2>1, <2>2
  <2> QED
    BY <2>1, <2>3 DEF more
<1>5. CASE seqs # <<>>
  <2>1. PICK f \in [1..n -> Seq(S)] : FlattensTo(f, seqs, n) /\ FlattenSeq(seqs) = f[n]
    BY <1>5, FlattenFollows
  <2>2. \A i \in 1..n : f[i] = IF i = 1 THEN seqs[1] ELSE f[i - 1] \o seqs[i]
    BY <2>1 DEF FlattensTo
  <2>3. n >= 1
    BY <1>5
  <2> DEFINE G == {i \in Nat : i + 1 \in 1..n => g[i + 1] = f[i + 1]}
  <2>4. 0 \in G
    <3>1. 1 \in 1..n /\ 1 \in 1..(n + 1)
      BY <2>3
    <3>2. g[1] = f[1]
      BY <1>1, <1>3, <2>2, <3>1
    <3> QED
      BY <3>2
  <2>5. ASSUME NEW i \in Nat, i \in G
        PROVE  i + 1 \in G
    <3> SUFFICES ASSUME i + 1 + 1 \in 1..n PROVE g[i + 1 + 1] = f[i + 1 + 1]
      OBVIOUS
    <3> DEFINE k == i + 1 + 1
    <3>1. /\ i + 1 \in 1..n /\ g[i + 1] = f[i + 1] /\ k \in 1..n /\ k # 1
          /\ k - 1 = i + 1 /\ k \in 1..(n + 1)
      BY <2>5
    <3> HIDE DEF k
    <3>2. g[k] = g[i + 1] \o more[k]
      BY <1>3, <3>1
    <3>3. f[k] = f[i + 1] \o seqs[k]
      BY <2>2, <3>1
    <3>4. g[k] = f[k]
      BY <1>1, <3>1, <3>2, <3>3
    <3> QED
      BY <3>4 DEF k
  <2> HIDE DEF G
  <2>6. Nat \subseteq G
    BY <2>4, <2>5, NaturalInduction
  <2>7. n - 1 \in Nat /\ n - 1 + 1 = n /\ n \in 1..n
    BY <2>3
  <2>8. g[n] = f[n]
    BY <2>6, <2>7 DEF G
  <2>9. n + 1 \in 1..(n + 1) /\ n + 1 # 1 /\ n + 1 - 1 = n
    BY <2>7
  <2>10. g[n + 1] = g[n] \o more[n + 1]
    <3> DEFINE k == n + 1
    <3>1. k \in 1..(n + 1) /\ k # 1 /\ k - 1 = n
      BY <2>9
    <3> HIDE DEF k
    <3>2. g[k] = g[n] \o more[k]
      BY <1>3, <3>1
    <3> QED
      BY <3>2 DEF k
  <2>11. FlattenSeq(more) = g[n + 1]
    BY <1>1, <1>2
  <2> QED
    BY <1>1, <2>1, <2>8, <2>10, <2>11 DEF more
<1> QED
  BY <1>4, <1>5

LEMMA ContainsJoined ==
  ASSUME NEW S, NEW a \in Seq(S), NEW b \in Seq(S), NEW x, Contains(a, x) \/ Contains(b, x)
  PROVE  Contains(a \o b, x)
<1> DEFINE c == a \o b
<1>1. /\ c \in Seq(S) /\ Len(c) = Len(a) + Len(b) /\ Len(a) \in Nat /\ Len(b) \in Nat
      /\ \A i \in 1..Len(a) : c[i] = a[i]
      /\ \A i \in 1..Len(b) : c[Len(a) + i] = b[i]
  OBVIOUS
<1> HIDE DEF c
<1>2. CASE Contains(a, x)
  <2>1. PICK i \in 1..Len(a) : a[i] = x
    BY <1>2 DEF Contains
  <2>2. i \in 1..Len(c) /\ c[i] = x
    BY <1>1, <2>1
  <2> QED
    BY <2>2 DEF Contains, c
<1>3. CASE Contains(b, x)
  <2>1. PICK i \in 1..Len(b) : b[i] = x
    BY <1>3 DEF Contains
  <2>2. Len(a) + i \in 1..Len(c) /\ c[Len(a) + i] = x
    BY <1>1, <2>1
  <2> QED
    BY <2>2 DEF Contains, c
<1> QED
  BY <1>2, <1>3

(* An element of one of them is an element of all.                          *)
LEMMA FlattenHas ==
  ASSUME NEW S, NEW seqs \in Seq(Seq(S)), NEW k \in 1..Len(seqs), NEW j \in 1..Len(seqs[k])
  PROVE  Contains(FlattenSeq(seqs), seqs[k][j])
<1> DEFINE n == Len(seqs)
           x == seqs[k][j]
<1>1. n \in Nat /\ seqs # <<>> /\ \A i \in 1..n : seqs[i] \in Seq(S)
  OBVIOUS
<1>2. PICK f \in [1..n -> Seq(S)] : FlattensTo(f, seqs, n) /\ FlattenSeq(seqs) = f[n]
  BY <1>1, FlattenFollows
<1>3. \A i \in 1..n : f[i] = IF i = 1 THEN seqs[1] ELSE f[i - 1] \o seqs[i]
  BY <1>2 DEF FlattensTo
<1>4. Contains(f[k], x)
  <2>1. CASE k = 1
    <3>1. f[k] = seqs[k]
      BY <1>3, <2>1
    <3> QED
      BY <3>1 DEF Contains
  <2>2. CASE k # 1
    <3> DEFINE a == f[k - 1]
               b == seqs[k]
    <3>1. k - 1 \in 1..n
      BY <1>1, <2>2
    <3>2. a \in Seq(S) /\ b \in Seq(S) /\ f[k] = a \o b /\ j \in 1..Len(b) /\ x = b[j]
      BY <1>1, <1>2, <1>3, <2>2, <3>1
    <3> HIDE DEF a, b, x
    <3>3. Contains(b, x)
      BY <3>2 DEF Contains
    <3>4. Contains(a \o b, x)
      BY <3>2, <3>3, ContainsJoined
    <3> QED
      BY <3>2, <3>4
  <2> QED
    BY <2>1, <2>2
<1> HIDE DEF x
<1> DEFINE T == {i \in Nat : k + i <= n => Contains(f[k + i], x)}
<1>5. 0 \in T
  BY <1>4
<1>6. ASSUME NEW i \in Nat, i \in T
      PROVE  i + 1 \in T
  <2> SUFFICES ASSUME k + (i + 1) <= n PROVE Contains(f[k + (i + 1)], x)
    OBVIOUS
  <2> DEFINE m == k + (i + 1)
             a == f[m - 1]
  <2>1. m \in 1..n /\ m # 1 /\ m - 1 = k + i /\ m - 1 \in 1..n /\ k + i <= n
    BY <1>1
  <2> HIDE DEF m
  <2>2. a \in Seq(S) /\ seqs[m] \in Seq(S) /\ f[m] = a \o seqs[m] /\ Contains(a, x)
    BY <1>1, <1>2, <1>3, <1>6, <2>1
  <2> HIDE DEF a
  <2>3. Contains(f[m], x)
    BY <2>2, ContainsJoined
  <2> QED
    BY <2>3 DEF m
<1> HIDE DEF T
<1>7. Nat \subseteq T
  BY <1>5, <1>6, NaturalInduction
<1>8. n - k \in Nat /\ k + (n - k) = n
  BY <1>1
<1>9. Contains(f[n], x)
  <2> DEFINE i == n - k
  <2>1. i \in Nat /\ k + i = n /\ k + i <= n
    BY <1>1, <1>8
  <2> HIDE DEF i
  <2>2. Contains(f[k + i], x)
    BY <1>7, <2>1 DEF T
  <2> QED
    BY <2>1, <2>2
<1> QED
  BY <1>2, <1>9 DEF x

=============================================================================

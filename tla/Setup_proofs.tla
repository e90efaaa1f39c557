----------------------------- MODULE Setup_proofs -----------------------------
(***************************************************************************)
(* Proofs about the making of the configuration and the start of the       *)
(* server, for any configurations and any users.                           *)
(***************************************************************************)
EXTENDS Setup, Induction, FiniteSetTheorems

-----------------------------------------------------------------------------
(***************************************************************************)
(* Sequences: an element less, and the two parts an iterator makes.        *)
(***************************************************************************)
LEMMA RemoveAtFacts ==
  ASSUME NEW S, NEW s \in Seq(S), NEW k \in 1..Len(s)
  PROVE  /\ RemoveAt(s, k) \in Seq(S) /\ Len(RemoveAt(s, k)) = Len(s) - 1
         /\ \A i \in 1..(Len(s) - 1) :
              /\ i < k => RemoveAt(s, k)[i] = s[i]
              /\ i >= k => RemoveAt(s, k)[i] = s[i + 1]
<1> DEFINE n == Len(s)
           a == SubSeq(s, 1, k - 1)
           b == SubSeq(s, k + 1, n)
<1>1. n \in Nat /\ k \in Nat /\ 1 <= k /\ k <= n
  OBVIOUS
<1>2. a \in Seq(S) /\ Len(a) = k - 1 /\ \A i \in 1..(k - 1) : a[i] = s[i]
  BY <1>1
<1>3. b \in Seq(S) /\ Len(b) = n - k /\ \A i \in 1..(n - k) : b[i] = s[k + i]
  BY <1>1
<1> HIDE DEF a, b
<1>4. /\ a \o b \in Seq(S) /\ Len(a \o b) = Len(a) + Len(b)
      /\ \A i \in 1..Len(a) : (a \o b)[i] = a[i]
      /\ \A i \in 1..Len(b) : (a \o b)[Len(a) + i] = b[i]
  <2>1. a \in Seq(S) /\ b \in Seq(S)
    BY <1>2, <1>3
  <2> QED
    BY <2>1
<1> DEFINE c == a \o b
<1>5. RemoveAt(s, k) = c
  BY DEF RemoveAt, a, b
<1> HIDE DEF c, n
<1>6. /\ c \in Seq(S) /\ Len(c) = (k - 1) + (n - k)
      /\ \A i \in 1..(k - 1) : c[i] = s[i]
      /\ \A i \in 1..(n - k) : c[(k - 1) + i] = s[k + i]
  BY <1>2, <1>3, <1>4 DEF c
<1>7. Len(c) = n - 1
  BY <1>1, <1>6
<1>8. ASSUME NEW i \in 1..(n - 1)
      PROVE  (i < k => c[i] = s[i]) /\ (i >= k => c[i] = s[i + 1])
  <2>1. CASE i < k
    <3>1. i \in 1..(k - 1) /\ ~(i >= k)
      BY <1>1, <2>1
    <3> QED
      BY <1>6, <3>1
  <2>2. CASE i >= k
    <3>1. /\ i - (k - 1) \in 1..(n - k) /\ (k - 1) + (i - (k - 1)) = i
          /\ k + (i - (k - 1)) = i + 1 /\ ~(i < k)
      BY <1>1, <2>2
    <3>2. c[(k - 1) + (i - (k - 1))] = s[k + (i - (k - 1))]
      BY <1>6, <3>1
    <3> QED
      BY <3>1, <3>2
  <2> QED
    BY <1>1, <2>1, <2>2
<1> QED
  BY <1>5, <1>6, <1>7, <1>8 DEF n

PlaceOf(s, e) == SelectInSeq(s, LAMBDA v : v = e)

(* The place of an element that occurs once.                                *)
LEMMA PlaceFacts ==
  ASSUME NEW S, NEW s \in Seq(S), NEW e, IsInjective(s)
  PROVE  /\ \A k \in 1..Len(s) : s[k] = e =>
              /\ PlaceOf(s, e) = k
              /\ RemoveFirst(s, e) = RemoveAt(s, k)
         /\ ~Contains(s, e) => /\ PlaceOf(s, e) = 0
                               /\ RemoveFirst(s, e) = s
<1>1. ASSUME NEW k \in 1..Len(s), s[k] = e
      PROVE  PlaceOf(s, e) = k
  <2> DEFINE P == {i \in 1..Len(s) : s[i] = e}
  <2>1. P = {k}
    BY <1>1 DEF IsInjective
  <2>2. Min({k}) = k
    <3>1. k \in Nat
      OBVIOUS
    <3> QED
      BY <3>1 DEF Min
  <2> QED
    BY <2>1, <2>2 DEF PlaceOf, SelectInSeq
<1>2. ASSUME NEW k \in 1..Len(s), s[k] = e
      PROVE  RemoveFirst(s, e) = RemoveAt(s, k)
  BY <1>1, <1>2 DEF PlaceOf, RemoveFirst
<1>3. ASSUME ~Contains(s, e)
      PROVE  PlaceOf(s, e) = 0 /\ RemoveFirst(s, e) = s
  <2>1. {i \in 1..Len(s) : s[i] = e} = {}
    BY <1>3 DEF Contains
  <2> QED
    BY <1>3, <2>1 DEF Contains, PlaceOf, SelectInSeq, RemoveFirst
<1> QED
  BY <1>1, <1>2, <1>3

-----------------------------------------------------------------------------
(***************************************************************************)
(* Group: its iterator and its users.                                      *)
(***************************************************************************)

(* The users of a group are valid and there once; the iterator is before    *)
(* them or at one of them.                                                  *)
GroupInv ==
  /\ users \in Seq(People \ Invalid) /\ IsInjective(users)
  /\ iterator \in -1..(Len(users) - 1)

(* What has come of the users us when the iterator is it, and what has not. *)
PassedOf(us, it) == SubSeq(us, 1, it + 1)
AheadOf(us, it) == SubSeq(us, it + 2, Len(us))

LEMMA PartsFacts ==
  ASSUME NEW S, NEW us \in Seq(S), NEW it \in -1..(Len(us) - 1)
  PROVE  /\ PassedOf(us, it) \in Seq(S) /\ Len(PassedOf(us, it)) = it + 1
         /\ \A i \in 1..(it + 1) : PassedOf(us, it)[i] = us[i]
         /\ AheadOf(us, it) \in Seq(S) /\ Len(AheadOf(us, it)) = Len(us) - (it + 1)
         /\ \A i \in 1..(Len(us) - (it + 1)) : AheadOf(us, it)[i] = us[(it + 1) + i]
<1> DEFINE n == Len(us)
           m == it + 1
<1>1. n \in Nat /\ m \in Nat /\ m <= n /\ it + 1 = m /\ it + 2 = m + 1
  OBVIOUS
<1> HIDE DEF n, m
<1>2. SubSeq(us, 1, m) \in Seq(S) /\ Len(SubSeq(us, 1, m)) = m
      /\ \A i \in 1..m : SubSeq(us, 1, m)[i] = us[i]
  BY <1>1 DEF n
<1>3. SubSeq(us, m + 1, n) \in Seq(S) /\ Len(SubSeq(us, m + 1, n)) = n - m
      /\ \A i \in 1..(n - m) : SubSeq(us, m + 1, n)[i] = us[m + i]
  BY <1>1 DEF n
<1> QED
  BY <1>1, <1>2, <1>3 DEF PassedOf, AheadOf, n

(* Two sequences are the same if they have the same length and elements.    *)
LEMMA SameSequence ==
  ASSUME NEW S, NEW s \in Seq(S), NEW z \in Seq(S), Len(s) = Len(z),
         \A i \in 1..Len(s) : s[i] = z[i]
  PROVE  s = z
  OBVIOUS

(* A user more.                                                             *)
LEMMA PartsAppend ==
  ASSUME NEW S, NEW us \in Seq(S), NEW it \in -1..(Len(us) - 1), NEW u \in S
  PROVE  /\ PassedOf(Append(us, u), it) = PassedOf(us, it)
         /\ AheadOf(Append(us, u), it) = Append(AheadOf(us, it), u)
<1> DEFINE n == Len(us)
           m == it + 1
           z == Append(us, u)
           a == AheadOf(us, it)
           b == AheadOf(z, it)
           p == PassedOf(us, it)
           q == PassedOf(z, it)
<1>1. n \in Nat /\ m \in Nat /\ m <= n
  OBVIOUS
<1>2. /\ z \in Seq(S) /\ Len(z) = n + 1 /\ \A i \in 1..n : z[i] = us[i]
      /\ z[n + 1] = u /\ it \in -1..(Len(z) - 1)
  OBVIOUS
<1>3. /\ p \in Seq(S) /\ Len(p) = m /\ \A i \in 1..m : p[i] = us[i]
      /\ a \in Seq(S) /\ Len(a) = n - m /\ \A i \in 1..(n - m) : a[i] = us[m + i]
  BY PartsFacts
<1> HIDE DEF z
<1>4. /\ q \in Seq(S) /\ Len(q) = m /\ \A i \in 1..m : q[i] = z[i]
      /\ b \in Seq(S) /\ Len(b) = (n + 1) - m
      /\ \A i \in 1..((n + 1) - m) : b[i] = z[m + i]
  <2>1. z \in Seq(S) /\ it \in -1..(Len(z) - 1)
    BY <1>2
  <2>2. /\ q \in Seq(S) /\ Len(q) = it + 1 /\ \A i \in 1..(it + 1) : q[i] = z[i]
        /\ b \in Seq(S) /\ Len(b) = Len(z) - (it + 1)
        /\ \A i \in 1..(Len(z) - (it + 1)) : b[i] = z[(it + 1) + i]
    BY <2>1, PartsFacts
  <2>3. Len(z) = n + 1 /\ it + 1 = m
    BY <1>2
  <2> QED
    BY <2>2, <2>3
<1> HIDE DEF n, m, p, q, a, b
<1>5. q = p
  <2>1. \A i \in 1..m : i \in 1..n
    BY <1>1
  <2>2. \A i \in 1..m : q[i] = p[i]
    BY <1>2, <1>3, <1>4, <2>1
  <2> QED
    BY <1>3, <1>4, <2>2, SameSequence
<1>6. b = Append(a, u)
  <2> DEFINE c == Append(a, u)
  <2>1. /\ c \in Seq(S) /\ Len(c) = Len(a) + 1 /\ c[Len(a) + 1] = u
        /\ \A i \in 1..Len(a) : c[i] = a[i]
    <3>1. a \in Seq(S)
      BY <1>3
    <3> QED
      BY <3>1
  <2> HIDE DEF c
  <2>2. /\ Len(c) = (n - m) + 1 /\ c[(n - m) + 1] = u
        /\ \A i \in 1..(n - m) : c[i] = a[i]
    BY <1>3, <2>1
  <2>3. ASSUME NEW i \in 1..((n + 1) - m)
        PROVE  b[i] = c[i]
    <3>1. CASE i \in 1..(n - m)
      <4>1. m + i \in 1..n
        BY <1>1, <3>1
      <4> QED
        BY <1>2, <1>3, <1>4, <2>2, <3>1, <4>1
    <3>2. CASE ~(i \in 1..(n - m))
      <4>1. i = (n - m) + 1 /\ m + i = n + 1
        BY <1>1, <3>2
      <4>2. b[i] = z[m + i]
        BY <1>4
      <4> QED
        BY <1>2, <2>2, <4>1, <4>2
    <3> QED
      BY <3>1, <3>2
  <2>4. (n - m) + 1 = (n + 1) - m
    BY <1>1
  <2> QED
    BY <1>4, <2>1, <2>2, <2>3, <2>4, SameSequence DEF c
<1> QED
  BY <1>5, <1>6 DEF z, p, q, a, b

(* A user less, at the k-th place, which the iterator has passed or not.    *)
LEMMA PartsRemove ==
  ASSUME NEW S, NEW us \in Seq(S), NEW it \in -1..(Len(us) - 1), NEW k \in 1..Len(us)
  PROVE  LET z == RemoveAt(us, k)
         IN /\ k <= it + 1 =>
                 /\ it - 1 \in -1..(Len(z) - 1) /\ k \in 1..Len(PassedOf(us, it))
                 /\ PassedOf(z, it - 1) = RemoveAt(PassedOf(us, it), k)
                 /\ AheadOf(z, it - 1) = AheadOf(us, it)
            /\ ~(k <= it + 1) =>
                 /\ it \in -1..(Len(z) - 1) /\ k - (it + 1) \in 1..Len(AheadOf(us, it))
                 /\ PassedOf(z, it) = PassedOf(us, it)
                 /\ AheadOf(z, it) = RemoveAt(AheadOf(us, it), k - (it + 1))
<1> DEFINE n == Len(us)
           m == it + 1
           z == RemoveAt(us, k)
           p == PassedOf(us, it)
           a == AheadOf(us, it)
<1>1. n \in Nat /\ m \in Nat /\ m <= n /\ k \in Nat /\ 1 <= k /\ k <= n /\ it + 1 = m
      /\ it \in Int
  OBVIOUS
<1>2. /\ z \in Seq(S) /\ Len(z) = n - 1
      /\ \A i \in 1..(n - 1) : (i < k => z[i] = us[i]) /\ (i >= k => z[i] = us[i + 1])
  BY RemoveAtFacts
<1>3. /\ p \in Seq(S) /\ Len(p) = m /\ \A i \in 1..m : p[i] = us[i]
      /\ a \in Seq(S) /\ Len(a) = n - m /\ \A i \in 1..(n - m) : a[i] = us[m + i]
  BY PartsFacts
<1> HIDE DEF n, z, p, a
<1>4. CASE k <= it + 1
  <2> DEFINE jt == it - 1
             q == PassedOf(z, jt)
             b == AheadOf(z, jt)
             r == RemoveAt(p, k)
  <2>1. jt \in -1..(Len(z) - 1) /\ k \in 1..Len(p) /\ k <= m /\ jt + 1 = m - 1
    BY SMTT(60), <1>1, <1>2, <1>3, <1>4
  <2>2. /\ q \in Seq(S) /\ Len(q) = jt + 1 /\ \A i \in 1..(jt + 1) : q[i] = z[i]
        /\ b \in Seq(S) /\ Len(b) = Len(z) - (jt + 1)
        /\ \A i \in 1..(Len(z) - (jt + 1)) : b[i] = z[(jt + 1) + i]
    <3> HIDE DEF jt
    <3>1. z \in Seq(S)
      BY <1>2
    <3>2. jt \in -1..(Len(z) - 1)
      BY <2>1
    <3> QED
      BY SMTT(30), <3>1, <3>2, PartsFacts
  <2>3. /\ r \in Seq(S) /\ Len(r) = Len(p) - 1
        /\ \A i \in 1..(Len(p) - 1) : (i < k => r[i] = p[i]) /\ (i >= k => r[i] = p[i + 1])
    BY <1>3, <2>1, RemoveAtFacts
  <2> HIDE DEF q, b, r, jt, m
  <2>4. q = r
    <3>1. Len(q) = m - 1 /\ Len(r) = m - 1
      BY <1>3, <2>1, <2>2, <2>3
    <3>2. ASSUME NEW i \in 1..(m - 1)
          PROVE  q[i] = r[i]
      <4>1. i \in 1..(n - 1) /\ i \in 1..m /\ i + 1 \in 1..m /\ i \in Nat
        BY <1>1
      <4>2. q[i] = z[i]
        BY <2>1, <2>2
      <4>3. (i < k => r[i] = p[i]) /\ (i >= k => r[i] = p[i + 1])
        BY <1>3, <2>3
      <4>4. CASE i < k
        BY <1>2, <1>3, <4>1, <4>2, <4>3, <4>4
      <4>5. CASE i >= k
        BY <1>2, <1>3, <4>1, <4>2, <4>3, <4>5
      <4> QED
        BY <1>1, <4>1, <4>4, <4>5
    <3> QED
      BY <2>2, <2>3, <3>1, <3>2, SameSequence
  <2>5. b = a
    <3>1. Len(b) = n - m /\ Len(a) = n - m
      BY <1>1, <1>2, <1>3, <2>1, <2>2
    <3>2. ASSUME NEW i \in 1..(n - m)
          PROVE  b[i] = a[i]
      <4>1. /\ i \in 1..(Len(z) - (jt + 1)) /\ (m - 1) + i \in 1..(n - 1)
            /\ (m - 1) + i >= k /\ ((m - 1) + i) + 1 = m + i
        BY <1>1, <1>2, <2>1
      <4>2. b[i] = z[(m - 1) + i]
        BY <2>1, <2>2, <4>1
      <4>3. z[(m - 1) + i] = us[((m - 1) + i) + 1]
        BY <1>2, <4>1
      <4> QED
        BY <1>3, <4>1, <4>2, <4>3
    <3> QED
      BY <1>3, <2>2, <3>1, <3>2, SameSequence
  <2> QED
    BY <1>4, <2>1, <2>4, <2>5 DEF q, b, r, jt, z, p, a
<1>5. CASE ~(k <= it + 1)
  <2> DEFINE q == PassedOf(z, it)
             b == AheadOf(z, it)
             l == k - (it + 1)
             r == RemoveAt(a, l)
  <2>1. it \in -1..(Len(z) - 1) /\ l \in 1..Len(a) /\ l = k - m /\ ~(k <= m)
    <3>1. ~(k <= m) /\ l = k - m
      BY <1>5
    <3>2. Len(z) = n - 1 /\ Len(a) = n - m
      BY <1>2, <1>3
    <3> HIDE DEF m, l
    <3>3. k - m \in 1..(n - m) /\ -1 <= it /\ it <= (n - 1) - 1
      BY <1>1, <3>1
    <3> QED
      BY <1>1, <3>1, <3>2, <3>3
  <2>2. /\ q \in Seq(S) /\ Len(q) = it + 1 /\ \A i \in 1..(it + 1) : q[i] = z[i]
        /\ b \in Seq(S) /\ Len(b) = Len(z) - (it + 1)
        /\ \A i \in 1..(Len(z) - (it + 1)) : b[i] = z[(it + 1) + i]
    BY ZenonT(60), <1>2, <2>1, PartsFacts
  <2> HIDE DEF l
  <2>3. /\ r \in Seq(S) /\ Len(r) = Len(a) - 1
        /\ \A i \in 1..(Len(a) - 1) : (i < l => r[i] = a[i]) /\ (i >= l => r[i] = a[i + 1])
    BY <1>3, <2>1, RemoveAtFacts
  <2> HIDE DEF q, b, r, m
  <2>4. q = p
    <3>1. Len(q) = m /\ Len(p) = m
      BY <1>1, <1>3, <2>2
    <3>2. ASSUME NEW i \in 1..m
          PROVE  q[i] = p[i]
      <4>1. i \in 1..(n - 1) /\ i < k
        BY <1>1, <2>1
      <4>2. q[i] = z[i]
        BY <1>1, <2>2
      <4> QED
        BY <1>2, <1>3, <4>1, <4>2
    <3> QED
      BY <1>3, <2>2, <3>1, <3>2, SameSequence
  <2>5. b = r
    <3>1. Len(b) = (n - m) - 1 /\ Len(r) = (n - m) - 1
      BY <1>1, <1>2, <1>3, <2>1, <2>2, <2>3
    <3>2. ASSUME NEW i \in 1..((n - m) - 1)
          PROVE  b[i] = r[i]
      <4>1. /\ i \in 1..(Len(z) - m) /\ m + i \in 1..(n - 1) /\ i \in Nat
            /\ i \in 1..(n - m) /\ i + 1 \in 1..(n - m) /\ m + (i + 1) = (m + i) + 1
        BY <1>1, <1>2
      <4>2. b[i] = z[m + i]
        BY <1>1, <2>2, <4>1
      <4>3. (i < l => r[i] = a[i]) /\ (i >= l => r[i] = a[i + 1])
        BY <1>3, <2>3
      <4>4. CASE i < l
        <5>1. m + i < k
          BY <1>1, <2>1, <4>1, <4>4
        <5> QED
          BY <1>2, <1>3, <4>1, <4>2, <4>3, <4>4, <5>1
      <4>5. CASE i >= l
        <5>1. m + i >= k
          BY <1>1, <2>1, <4>1, <4>5
        <5>2. z[m + i] = us[(m + i) + 1] /\ a[i + 1] = us[m + (i + 1)]
          BY <1>2, <1>3, <4>1, <5>1
        <5> QED
          BY <4>1, <4>2, <4>3, <4>5, <5>2
      <4> QED
        BY SMTT(60), <1>1, <2>1, <4>1, <4>4, <4>5
    <3> QED
      BY <2>2, <2>3, <3>1, <3>2, SameSequence
  <2> QED
    BY <1>5, <2>1, <2>4, <2>5 DEF q, b, r, l, z, p, a
<1> QED
  BY <1>4, <1>5

(* The next user comes.                                                     *)
LEMMA PartsNext ==
  ASSUME NEW S, NEW us \in Seq(S), NEW it \in -1..(Len(us) - 1)
  PROVE  /\ it < Len(us) - 1 =>
              /\ it + 1 \in -1..(Len(us) - 1)
              /\ AheadOf(us, it) # <<>> /\ Head(AheadOf(us, it)) = us[it + 2]
              /\ PassedOf(us, it + 1) = Append(PassedOf(us, it), us[it + 2])
              /\ AheadOf(us, it + 1) = Tail(AheadOf(us, it))
         /\ it >= Len(us) - 1 => AheadOf(us, it) = <<>>
         /\ PassedOf(us, it) \o AheadOf(us, it) = us
         /\ PassedOf(us, -1) = <<>> /\ AheadOf(us, -1) = us
<1> DEFINE n == Len(us)
           m == it + 1
           p == PassedOf(us, it)
           a == AheadOf(us, it)
<1>1. n \in Nat /\ m \in Nat /\ m <= n /\ it + 1 = m /\ it + 2 = m + 1 /\ it \in Int
  OBVIOUS
<1>2. /\ p \in Seq(S) /\ Len(p) = m /\ \A i \in 1..m : p[i] = us[i]
      /\ a \in Seq(S) /\ Len(a) = n - m /\ \A i \in 1..(n - m) : a[i] = us[m + i]
  BY PartsFacts
<1> HIDE DEF p, a
<1>3. ASSUME it < n - 1
      PROVE  /\ it + 1 \in -1..(n - 1)
             /\ a # <<>> /\ Head(a) = us[it + 2]
             /\ PassedOf(us, it + 1) = Append(p, us[it + 2])
             /\ AheadOf(us, it + 1) = Tail(a)
  <2> DEFINE jt == it + 1
             q == PassedOf(us, jt)
             b == AheadOf(us, jt)
             u == us[it + 2]
             c == Append(p, u)
             d == Tail(a)
  <2>1. jt \in -1..(n - 1) /\ jt + 1 = m + 1 /\ it + 2 \in 1..n /\ m < n
    BY <1>1, <1>3
  <2>2. /\ q \in Seq(S) /\ Len(q) = m + 1 /\ \A i \in 1..(m + 1) : q[i] = us[i]
        /\ b \in Seq(S) /\ Len(b) = n - (m + 1)
        /\ \A i \in 1..(n - (m + 1)) : b[i] = us[(m + 1) + i]
    <3> HIDE DEF jt
    <3>1. /\ q \in Seq(S) /\ Len(q) = jt + 1 /\ \A i \in 1..(jt + 1) : q[i] = us[i]
          /\ b \in Seq(S) /\ Len(b) = Len(us) - (jt + 1)
          /\ \A i \in 1..(Len(us) - (jt + 1)) : b[i] = us[(jt + 1) + i]
      BY <2>1, PartsFacts
    <3> QED
      BY <2>1, <3>1
  <2>3. u \in S
    BY <2>1
  <2> HIDE DEF q, b, u, n, m
  <2>4. /\ c \in Seq(S) /\ Len(c) = m + 1 /\ c[m + 1] = u
        /\ \A i \in 1..m : c[i] = p[i]
    <3>1. p \in Seq(S) /\ Len(p) = m
      BY <1>2
    <3>2. /\ c \in Seq(S) /\ Len(c) = Len(p) + 1 /\ c[Len(p) + 1] = u
          /\ \A i \in 1..Len(p) : c[i] = p[i]
      BY <2>3, <3>1
    <3> QED
      BY <3>1, <3>2
  <2>5. a # <<>>
    <3>1. Len(a) # 0
      BY <1>1, <1>2, <2>1
    <3> QED
      BY <1>2, <3>1
  <2>6. /\ d \in Seq(S) /\ Len(d) = Len(a) - 1 /\ Head(a) = a[1]
        /\ \A i \in 1..(Len(a) - 1) : d[i] = a[i + 1]
    <3>1. a \in Seq(S)
      BY <1>2
    <3> QED
      BY <2>5, <3>1
  <2> HIDE DEF c, d
  <2>7. q = c
    <3>1. ASSUME NEW i \in 1..(m + 1)
          PROVE  q[i] = c[i]
      <4>1. CASE i \in 1..m
        BY <1>2, <2>2, <2>4, <4>1
      <4>2. CASE ~(i \in 1..m)
        <5>1. i = m + 1
          BY <1>1, <4>2
        <5> QED
          BY <1>1, <2>2, <2>4, <5>1 DEF u
      <4> QED
        BY <4>1, <4>2
    <3> QED
      BY <2>2, <2>4, <3>1, SameSequence
  <2>8. b = d
    <3>1. Len(d) = n - (m + 1)
      BY <1>1, <1>2, <2>6
    <3>2. ASSUME NEW i \in 1..(n - (m + 1))
          PROVE  b[i] = d[i]
      <4>1. /\ i \in 1..(Len(a) - 1) /\ i + 1 \in 1..(n - m)
            /\ m + (i + 1) = (m + 1) + i
        BY <1>1, <1>2
      <4>2. d[i] = a[i + 1] /\ a[i + 1] = us[m + (i + 1)]
        BY <1>2, <2>6, <4>1
      <4> QED
        BY <2>2, <4>1, <4>2
    <3> QED
      BY <2>2, <2>6, <3>1, <3>2, SameSequence
  <2>9. Head(a) = u
    <3>1. 1 \in 1..(n - m)
      BY <1>1, <2>1
    <3>2. a[1] = us[m + 1]
      BY <1>2, <3>1
    <3> QED
      BY <1>1, <2>6, <3>2 DEF u
  <2> QED
    BY <2>1, <2>5, <2>7, <2>8, <2>9 DEF q, b, c, d, u
<1>4. ASSUME it >= n - 1
      PROVE  a = <<>>
  <2>1. n - m = 0
    BY <1>1, <1>4
  <2>2. a \in Seq(S) /\ Len(a) = 0
    BY <1>2, <2>1
  <2> QED
    BY <2>2
<1>5. p \o a = us
  <2> DEFINE c == p \o a
  <2>1. p \in Seq(S) /\ a \in Seq(S)
    BY <1>2
  <2>2. /\ c \in Seq(S) /\ Len(c) = Len(p) + Len(a)
        /\ \A i \in 1..Len(p) : c[i] = p[i]
        /\ \A i \in 1..Len(a) : c[Len(p) + i] = a[i]
    BY <2>1
  <2> HIDE DEF c, n, m
  <2>3. /\ Len(c) = n
        /\ \A i \in 1..m : c[i] = us[i]
        /\ \A i \in 1..(n - m) : c[m + i] = us[m + i]
    <3>1. Len(c) = m + (n - m)
      BY <1>2, <2>2
    <3>2. m + (n - m) = n
      BY <1>1
    <3>3. \A i \in 1..m : c[i] = us[i]
      BY <1>2, <2>2
    <3>4. \A i \in 1..(n - m) : c[m + i] = us[m + i]
      BY <1>2, <2>2
    <3> QED
      BY <3>1, <3>2, <3>3, <3>4
  <2>4. ASSUME NEW i \in 1..n
        PROVE  c[i] = us[i]
    <3>1. i \in 1..m \/ (i - m \in 1..(n - m) /\ i = m + (i - m))
      BY <1>1
    <3> QED
      BY <2>3, <3>1
  <2>5. c = us
    BY <2>2, <2>3, <2>4, SameSequence DEF n
  <2> QED
    BY <2>5 DEF c
<1>6. PassedOf(us, -1) = <<>> /\ AheadOf(us, -1) = us
  <2>1. -1 \in -1..(n - 1)
    BY <1>1
  <2>2. /\ PassedOf(us, -1) \in Seq(S) /\ Len(PassedOf(us, -1)) = -1 + 1
        /\ AheadOf(us, -1) \in Seq(S) /\ Len(AheadOf(us, -1)) = n - (-1 + 1)
        /\ \A i \in 1..(n - (-1 + 1)) : AheadOf(us, -1)[i] = us[(-1 + 1) + i]
    BY <2>1, PartsFacts
  <2> HIDE DEF n
  <2>3. Len(PassedOf(us, -1)) = 0 /\ Len(AheadOf(us, -1)) = n
    BY <1>1, <2>2
  <2>4. PassedOf(us, -1) = <<>>
    BY <2>2, <2>3
  <2>5. \A i \in 1..n : i \in 1..(n - (-1 + 1)) /\ (-1 + 1) + i = i
    BY <1>1
  <2>6. \A i \in 1..n : AheadOf(us, -1)[i] = us[i]
    BY <2>2, <2>5
  <2>7. AheadOf(us, -1) = us
    BY <2>2, <2>3, <2>6, SameSequence DEF n
  <2> QED
    BY <2>4, <2>7
<1> QED
  BY <1>3, <1>4, <1>5, <1>6 DEF p, a

-----------------------------------------------------------------------------
(***************************************************************************)
(* Every operation of Group is one of the iteration's.                     *)
(***************************************************************************)
GroupStep == Use \/ Free

(* The refinement mapping, by the parts.                                    *)
Passed == IF iterator < Len(users) THEN SubSeq(users, 1, iterator + 1) ELSE users
Ahead == SubSeq(users, iterator + 2, Len(users))

LEMMA MappingFacts ==
  ASSUME GroupInv
  PROVE  /\ Passed = PassedOf(users, iterator) /\ Ahead = AheadOf(users, iterator)
         /\ \A u : u \in I!Members <=> Contains(users, u)
<1> DEFINE n == Len(users)
           m == iterator + 1
           p == PassedOf(users, iterator)
           a == AheadOf(users, iterator)
<1>1. /\ users \in Seq(People \ Invalid) /\ n \in Nat
      /\ iterator \in -1..(n - 1) /\ m \in Nat /\ m <= n
  BY DEF GroupInv
<1>2. Passed = p /\ Ahead = a
  BY <1>1 DEF Passed, Ahead, PassedOf, AheadOf
<1>3. /\ p \in Seq(People \ Invalid) /\ Len(p) = m /\ \A i \in 1..m : p[i] = users[i]
      /\ a \in Seq(People \ Invalid) /\ Len(a) = n - m
      /\ \A i \in 1..(n - m) : a[i] = users[m + i]
  BY <1>1, PartsFacts
<1>4. I!Members = {p[i] : i \in DOMAIN p} \cup {a[i] : i \in DOMAIN a}
  BY <1>2 DEF I!Members, I!Range, Passed, Ahead
<1>5. DOMAIN p = 1..m /\ DOMAIN a = 1..(n - m)
  <2>1. p \in Seq(People \ Invalid) /\ a \in Seq(People \ Invalid)
    BY <1>3
  <2>2. DOMAIN p = 1..Len(p) /\ DOMAIN a = 1..Len(a)
    BY <2>1
  <2> QED
    BY <1>3, <2>2
<1> HIDE DEF p, a, n, m
<1>6. ASSUME NEW u, Contains(users, u)
      PROVE  u \in I!Members
  <2>1. PICK i \in 1..n : users[i] = u
    BY <1>6 DEF Contains, n
  <2>2. CASE i \in 1..m
    BY <1>3, <1>4, <1>5, <2>1, <2>2
  <2>3. CASE ~(i \in 1..m)
    <3>1. i - m \in 1..(n - m) /\ m + (i - m) = i
      BY <1>1, <2>3
    <3>2. a[i - m] = u
      BY <1>3, <2>1, <3>1
    <3> QED
      BY <1>4, <1>5, <3>1, <3>2
  <2> QED
    BY <2>2, <2>3
<1>7. ASSUME NEW u, u \in I!Members
      PROVE  Contains(users, u)
  <2>1. CASE \E i \in 1..m : p[i] = u
    <3>1. PICK i \in 1..m : p[i] = u
      BY <2>1
    <3>2. i \in 1..n /\ users[i] = u
      BY <1>1, <1>3, <3>1
    <3> QED
      BY <3>2 DEF Contains, n
  <2>2. CASE \E i \in 1..(n - m) : a[i] = u
    <3>1. PICK i \in 1..(n - m) : a[i] = u
      BY <2>2
    <3>2. m + i \in 1..n /\ users[m + i] = u
      BY <1>1, <1>3, <3>1
    <3> QED
      BY <3>2 DEF Contains, n
  <2> QED
    BY <1>4, <1>5, <1>7, <2>1, <2>2
<1> QED
  BY <1>2, <1>6, <1>7 DEF p, a

LEMMA GroupInitially == GroupInit => GroupInv /\ I!Init
<1> SUFFICES ASSUME GroupInit PROVE GroupInv /\ I!Init
  OBVIOUS
<1>1. users = <<>> /\ iterator = -1 /\ reply = <<"none">>
  BY DEF GroupInit
<1>2. GroupInv
  BY <1>1 DEF GroupInv, IsInjective
<1>3. Passed = PassedOf(users, iterator) /\ Ahead = AheadOf(users, iterator)
  BY <1>2, MappingFacts
<1>4. users \in Seq(People) /\ iterator \in -1..(Len(users) - 1)
  BY <1>1
<1>5. Passed = <<>> /\ Ahead = <<>>
  BY <1>1, <1>3, <1>4, PartsNext
<1> QED
  BY <1>1, <1>2, <1>5 DEF I!Init, Passed, Ahead

(* Nothing comes or goes while the group stays as it is.                    *)
LEMMA GroupUnchanged ==
  ASSUME GroupInv, UNCHANGED <<users, iterator>>
  PROVE  GroupInv' /\ Passed' = Passed /\ Ahead' = Ahead
BY DEF GroupInv, Passed, Ahead

LEMMA AddUserRefines ==
  ASSUME GroupInv, NEW u \in People, AddUser(u)
  PROVE  GroupInv' /\ (I!Add(u) \/ I!RefuseToAdd(u))
<1>1. /\ users \in Seq(People \ Invalid) /\ IsInjective(users)
      /\ iterator \in -1..(Len(users) - 1) /\ iterator' = iterator
  BY DEF GroupInv, AddUser
<1>2. u \in I!Members <=> Contains(users, u)
  BY MappingFacts
<1>3. CASE /\ Contains(users, u) \/ u \in Invalid
           /\ UNCHANGED users
           /\ reply' = IF Contains(users, u) THEN <<"exists", u>> ELSE <<"invalid", u>>
  <2>1. GroupInv' /\ Passed' = Passed /\ Ahead' = Ahead
    BY <1>1, <1>3, GroupUnchanged
  <2>2. \/ u \in I!Members /\ reply' = <<"exists", u>>
        \/ u \in Invalid \ I!Members /\ reply' = <<"invalid", u>>
    BY <1>2, <1>3
  <2> QED
    BY <2>1, <2>2 DEF I!RefuseToAdd, Passed, Ahead
<1>4. CASE /\ ~Contains(users, u) /\ u \notin Invalid
           /\ users' = Append(users, u)
           /\ reply' = <<"added", u>>
  <2>1. u \in People \ Invalid
    BY <1>4
  <2>2. /\ users' \in Seq(People \ Invalid) /\ Len(users') = Len(users) + 1
        /\ \A i \in 1..Len(users) : users'[i] = users[i]
        /\ users'[Len(users) + 1] = u
    BY <1>1, <1>4, <2>1
  <2>3. Len(users) \in Nat /\ iterator' \in -1..(Len(users') - 1)
    BY <1>1, <2>2
  <2>4. IsInjective(users')
    <3>1. ASSUME NEW i \in 1..Len(users'), NEW j \in 1..Len(users'),
                 users'[i] = users'[j]
          PROVE  i = j
      <4>1. /\ i \in 1..Len(users) \/ i = Len(users) + 1
            /\ j \in 1..Len(users) \/ j = Len(users) + 1
        BY <2>2, <2>3
      <4>2. \A x \in 1..Len(users) : users[x] # u
        BY <1>4 DEF Contains
      <4>3. \A x, y \in 1..Len(users) : users[x] = users[y] => x = y
        BY <1>1 DEF IsInjective
      <4> QED
        BY <2>2, <3>1, <4>1, <4>2, <4>3
    <3>2. DOMAIN users' = 1..Len(users')
      BY <2>2
    <3> QED
      BY <3>1, <3>2 DEF IsInjective
  <2>5. GroupInv'
    BY <2>2, <2>3, <2>4 DEF GroupInv
  <2>6. Passed = PassedOf(users, iterator) /\ Ahead = AheadOf(users, iterator)
    BY MappingFacts
  <2>7. Passed' = PassedOf(users', iterator') /\ Ahead' = AheadOf(users', iterator')
    <3>1. iterator' < Len(users')
      BY <2>2, <2>3
    <3> QED
      BY <3>1 DEF Passed, Ahead, PassedOf, AheadOf
  <2>8. Passed' = Passed /\ Ahead' = Append(Ahead, u)
    BY <1>1, <1>4, <2>1, <2>6, <2>7, PartsAppend
  <2>9. u \notin I!Members \cup Invalid
    BY <1>2, <1>4
  <2> QED
    BY <1>4, <2>5, <2>8, <2>9 DEF I!Add, Passed, Ahead
<1> QED
  BY <1>3, <1>4 DEF AddUser

(* To take an element out of the parts, as the iteration writes it.         *)
LEMMA SameRemoval == \A s, e : I!RemoveFirst(s, e) = RemoveFirst(s, e)
<1>1. ASSUME NEW s, NEW e
      PROVE  I!SelectInSeq(s, LAMBDA v : v = e) = SelectInSeq(s, LAMBDA v : v = e)
  BY DEF I!SelectInSeq, SelectInSeq, I!Min, Min
<1> QED
  BY <1>1 DEF I!RemoveFirst, RemoveFirst, I!RemoveAt, RemoveAt

(* The user at k goes from the part it is in, and the iterator stays where  *)
(* it is in the list.                                                       *)
LEMMA PartsDrop ==
  ASSUME NEW S, NEW us \in Seq(S), NEW it \in -1..(Len(us) - 1), IsInjective(us),
         NEW k \in 1..Len(us)
  PROVE  LET z == RemoveAt(us, k)
             jt == IF it >= k - 1 THEN it - 1 ELSE it
         IN /\ z \in Seq(S) /\ IsInjective(z) /\ jt \in -1..(Len(z) - 1)
            /\ PassedOf(z, jt) = RemoveFirst(PassedOf(us, it), us[k])
            /\ AheadOf(z, jt) = RemoveFirst(AheadOf(us, it), us[k])
<1> DEFINE n == Len(us)
           m == it + 1
           z == RemoveAt(us, k)
           jt == IF it >= k - 1 THEN it - 1 ELSE it
           p == PassedOf(us, it)
           a == AheadOf(us, it)
           u == us[k]
<1>1. /\ n \in Nat /\ m \in Nat /\ m <= n /\ k \in Nat /\ 1 <= k /\ k <= n
      /\ (it >= k - 1 <=> k <= m)
  OBVIOUS
<1>2. /\ p \in Seq(S) /\ Len(p) = m /\ \A i \in 1..m : p[i] = us[i]
      /\ a \in Seq(S) /\ Len(a) = n - m /\ \A i \in 1..(n - m) : a[i] = us[m + i]
  BY PartsFacts
<1>3. /\ z \in Seq(S) /\ Len(z) = n - 1
      /\ \A i \in 1..(n - 1) : (i < k => z[i] = us[i]) /\ (i >= k => z[i] = us[i + 1])
  BY RemoveAtFacts
<1>4. \A i, j \in 1..n : us[i] = us[j] => i = j
  BY DEF IsInjective
<1>5. /\ k <= m => /\ it - 1 \in -1..(Len(z) - 1) /\ k \in 1..Len(p)
                   /\ PassedOf(z, it - 1) = RemoveAt(p, k)
                   /\ AheadOf(z, it - 1) = a
      /\ ~(k <= m) => /\ it \in -1..(Len(z) - 1) /\ k - m \in 1..Len(a)
                      /\ PassedOf(z, it) = p
                      /\ AheadOf(z, it) = RemoveAt(a, k - m)
  BY PartsRemove
<1>6. (k <= m => jt = it - 1) /\ (~(k <= m) => jt = it)
  BY <1>1
<1> HIDE DEF p, a, z, u, n, m, jt
<1>7. IsInjective(z)
  <2>1. ASSUME NEW i \in 1..(n - 1), NEW j \in 1..(n - 1), z[i] = z[j]
        PROVE  i = j
    <3>1. /\ i \in 1..n /\ j \in 1..n /\ i + 1 \in 1..n /\ j + 1 \in 1..n
          /\ i \in Int /\ j \in Int
      BY <1>1
    <3>2. CASE i < k /\ j < k
      BY <1>3, <1>4, <2>1, <3>1, <3>2
    <3>3. CASE i < k /\ j >= k
      <4>1. us[i] = us[j + 1]
        BY <1>3, <2>1, <3>3
      <4>2. i = j + 1
        BY <1>4, <3>1, <4>1
      <4> QED
        BY <1>1, <3>1, <3>3, <4>2
    <3>4. CASE i >= k /\ j < k
      <4>1. us[i + 1] = us[j]
        BY <1>3, <2>1, <3>4
      <4>2. i + 1 = j
        BY <1>4, <3>1, <4>1
      <4> QED
        BY <1>1, <3>1, <3>4, <4>2
    <3>5. CASE i >= k /\ j >= k
      <4>1. us[i + 1] = us[j + 1]
        BY <1>3, <2>1, <3>5
      <4>2. i + 1 = j + 1
        BY <1>4, <3>1, <4>1
      <4> QED
        BY <3>1, <4>2
    <3> QED
      BY <1>1, <3>1, <3>2, <3>3, <3>4, <3>5
  <2>2. DOMAIN z = 1..(n - 1)
    <3>1. DOMAIN z = 1..Len(z)
      BY <1>3
    <3> QED
      BY <1>3, <3>1
  <2> QED
    BY <2>1, <2>2 DEF IsInjective
<1>8. IsInjective(p)
  <2>1. DOMAIN p = 1..m
    <3>1. DOMAIN p = 1..Len(p)
      BY <1>2
    <3> QED
      BY <1>2, <3>1
  <2>2. \A i \in 1..m : i \in 1..n
    BY <1>1
  <2> QED
    BY SMTT(60), <1>2, <1>4, <2>1, <2>2 DEF IsInjective
<1>9. IsInjective(a)
  <2>1. DOMAIN a = 1..(n - m)
    <3>1. DOMAIN a = 1..Len(a)
      BY <1>2
    <3> QED
      BY <1>2, <3>1
  <2>2. ASSUME NEW i \in 1..(n - m), NEW j \in 1..(n - m), a[i] = a[j]
        PROVE  i = j
    <3>1. m + i \in 1..n /\ m + j \in 1..n /\ i \in Int /\ j \in Int
      BY <1>1
    <3>2. m + i = m + j
      BY <1>2, <1>4, <2>2, <3>1
    <3> QED
      BY <1>1, <3>1, <3>2
  <2> QED
    BY <2>1, <2>2 DEF IsInjective
<1>10. ASSUME k <= m
       PROVE  RemoveFirst(p, u) = RemoveAt(p, k) /\ RemoveFirst(a, u) = a
  <2>1. k \in 1..m /\ k \in 1..Len(p) /\ p[k] = u
    BY <1>1, <1>2, <1>10 DEF u
  <2>2. RemoveFirst(p, u) = RemoveAt(p, k)
    BY <1>2, <1>8, <2>1, PlaceFacts
  <2>3. ~Contains(a, u)
    <3>1. ASSUME NEW i \in 1..(n - m), a[i] = u
          PROVE  FALSE
      <4>1. m + i \in 1..n /\ k \in 1..n /\ i \in Int /\ i >= 1
        BY <1>1
      <4>2. m + i = k
        BY <1>2, <1>4, <3>1, <4>1 DEF u
      <4> QED
        BY <1>1, <1>10, <4>1, <4>2
    <3> QED
      BY <1>2, <3>1 DEF Contains
  <2> QED
    BY <1>2, <1>9, <2>2, <2>3, PlaceFacts
<1>11. ASSUME ~(k <= m)
       PROVE  RemoveFirst(p, u) = p /\ RemoveFirst(a, u) = RemoveAt(a, k - m)
  <2>1. k - m \in 1..(n - m) /\ m + (k - m) = k
    BY <1>1, <1>11
  <2>2. k - m \in 1..Len(a) /\ a[k - m] = u
    BY <1>2, <2>1 DEF u
  <2>3. RemoveFirst(a, u) = RemoveAt(a, k - m)
    BY <1>2, <1>9, <2>2, PlaceFacts
  <2>4. ~Contains(p, u)
    <3>1. ASSUME NEW i \in 1..m, p[i] = u
          PROVE  FALSE
      <4>1. i \in 1..n /\ k \in 1..n
        BY <1>1
      <4>2. i = k
        BY <1>2, <1>4, <3>1, <4>1 DEF u
      <4> QED
        BY <1>11, <4>2
    <3> QED
      BY <1>2, <3>1 DEF Contains
  <2> QED
    BY <1>2, <1>8, <2>3, <2>4, PlaceFacts
<1> QED
  BY <1>3, <1>5, <1>6, <1>7, <1>10, <1>11 DEF p, a, z, u, jt

LEMMA RemoveUserRefines ==
  ASSUME GroupInv, NEW u \in People, RemoveUser(u)
  PROVE  GroupInv' /\ (I!Drop(u) \/ I!FailToDrop(u))
<1> DEFINE place == PlaceOf(users, u)
<1>1. /\ users \in Seq(People \ Invalid) /\ IsInjective(users)
      /\ iterator \in -1..(Len(users) - 1)
  BY DEF GroupInv
<1>2. u \in I!Members <=> Contains(users, u)
  BY MappingFacts
<1>3. CASE /\ place - 1 >= 0
           /\ users' = RemoveAt(users, place)
           /\ iterator' = IF iterator >= place - 1 THEN iterator - 1 ELSE iterator
           /\ reply' = <<"removed", u>>
  <2>1. Contains(users, u)
    <3>1. SUFFICES ASSUME ~Contains(users, u) PROVE FALSE
      OBVIOUS
    <3>2. place = 0
      BY <1>1, <3>1, PlaceFacts
    <3> QED
      BY <1>3, <3>2
  <2>2. PICK k \in 1..Len(users) : users[k] = u
    BY <2>1 DEF Contains
  <2>3. place = k
    BY <1>1, <2>2, PlaceFacts
  <2> HIDE DEF place
  <2>4. /\ users' = RemoveAt(users, k)
        /\ iterator' = IF iterator >= k - 1 THEN iterator - 1 ELSE iterator
    BY <1>3, <2>3
  <2>5. /\ users' \in Seq(People \ Invalid) /\ IsInjective(users')
        /\ iterator' \in -1..(Len(users') - 1)
        /\ PassedOf(users', iterator') = RemoveFirst(PassedOf(users, iterator), u)
        /\ AheadOf(users', iterator') = RemoveFirst(AheadOf(users, iterator), u)
    BY <1>1, <2>2, <2>4, PartsDrop
  <2>6. GroupInv'
    BY <2>5 DEF GroupInv
  <2>7. Passed' = PassedOf(users', iterator') /\ Ahead' = AheadOf(users', iterator')
    <3>1. iterator' < Len(users')
      BY <2>5
    <3> QED
      BY <3>1 DEF Passed, Ahead, PassedOf, AheadOf
  <2>8. Passed = PassedOf(users, iterator) /\ Ahead = AheadOf(users, iterator)
    BY MappingFacts
  <2>9. Passed' = I!RemoveFirst(Passed, u) /\ Ahead' = I!RemoveFirst(Ahead, u)
    BY <2>5, <2>7, <2>8, SameRemoval
  <2> QED
    BY <1>2, <1>3, <2>1, <2>6, <2>9 DEF I!Drop, Passed, Ahead
<1>4. CASE /\ ~Contains(users, u)
           /\ reply' = <<"not found", u>>
           /\ UNCHANGED <<users, iterator>>
  <2>1. GroupInv' /\ Passed' = Passed /\ Ahead' = Ahead
    BY <1>4, GroupUnchanged
  <2> QED
    BY <1>2, <1>4, <2>1 DEF I!FailToDrop, Passed, Ahead
<1>5. place \in Int
  <2>1. CASE Contains(users, u)
    <3>1. PICK k \in 1..Len(users) : users[k] = u
      BY <2>1 DEF Contains
    <3>2. place = k
      BY <1>1, <3>1, PlaceFacts
    <3> QED
      BY <3>2
  <2>2. CASE ~Contains(users, u)
    <3>1. place = 0
      BY <1>1, <2>2, PlaceFacts
    <3> QED
      BY <3>1
  <2> QED
    BY <2>1, <2>2
<1> HIDE DEF place
<1>6. (place - 1) + 1 = place
  BY <1>5
<1> QED
  BY <1>3, <1>4, <1>6 DEF RemoveUser, After, place, PlaceOf

LEMMA GetNextUserRefines ==
  ASSUME GroupInv, GetNextUser
  PROVE  GroupInv' /\ (I!Come \/ I!Tell)
<1>1. /\ users \in Seq(People \ Invalid) /\ IsInjective(users)
      /\ iterator \in -1..(Len(users) - 1) /\ users' = users
  BY DEF GroupInv, GetNextUser
<1>2. Passed = PassedOf(users, iterator) /\ Ahead = AheadOf(users, iterator)
  BY MappingFacts
<1>3. CASE /\ iterator < Len(users) - 1
           /\ iterator' = iterator + 1
           /\ reply' = <<"user", users[iterator + 2]>>
  <2>1. /\ iterator' \in -1..(Len(users) - 1)
        /\ Ahead # <<>> /\ Head(Ahead) = users[iterator + 2]
        /\ PassedOf(users, iterator') = Append(Passed, users[iterator + 2])
        /\ AheadOf(users, iterator') = Tail(Ahead)
    BY SMTT(60), <1>1, <1>2, <1>3, PartsNext
  <2>2. Passed' = PassedOf(users, iterator') /\ Ahead' = AheadOf(users, iterator')
    <3>1. iterator' < Len(users)
      BY <1>1, <2>1
    <3> QED
      BY <1>1, <3>1 DEF Passed, Ahead, PassedOf, AheadOf
  <2>3. GroupInv'
    BY <1>1, <2>1 DEF GroupInv
  <2>4. /\ Ahead # <<>> /\ Passed' = Append(Passed, Head(Ahead))
        /\ Ahead' = Tail(Ahead) /\ reply' = <<"user", Head(Ahead)>>
    BY <1>3, <2>1, <2>2
  <2> QED
    BY <2>3, <2>4 DEF I!Come, Passed, Ahead
<1>4. CASE /\ iterator >= Len(users) - 1
           /\ reply' = <<"end">>
           /\ UNCHANGED iterator
  <2>1. Ahead = <<>>
    BY <1>1, <1>2, <1>4, PartsNext
  <2>2. GroupInv' /\ Passed' = Passed /\ Ahead' = Ahead
    BY <1>1, <1>4, GroupUnchanged
  <2> QED
    BY <1>4, <2>1, <2>2 DEF I!Tell, Passed, Ahead
<1> QED
  BY <1>3, <1>4 DEF GetNextUser

LEMMA UsersAtEndRefines ==
  ASSUME GroupInv, UsersAtEnd
  PROVE  GroupInv' /\ I!Tell
<1>1. /\ users \in Seq(People \ Invalid) /\ iterator \in -1..(Len(users) - 1)
      /\ Len(users) \in Nat
  BY DEF GroupInv
<1>2. Ahead = AheadOf(users, iterator)
  BY MappingFacts
<1>3. GroupInv' /\ Passed' = Passed /\ Ahead' = Ahead
  BY GroupUnchanged DEF UsersAtEnd
<1>4. Ahead = <<>> <=> users = <<>> \/ iterator >= Len(users) - 1
  <2>1. iterator < Len(users) - 1 => Ahead # <<>>
    BY <1>1, <1>2, PartsNext
  <2>2. iterator >= Len(users) - 1 => Ahead = <<>>
    BY <1>1, <1>2, PartsNext
  <2>3. users = <<>> => iterator >= Len(users) - 1
    BY <1>1
  <2> QED
    BY <1>1, <2>1, <2>2, <2>3
<1>5. reply' = IF Ahead = <<>> THEN <<"end">> ELSE <<"more">>
  BY <1>4 DEF UsersAtEnd
<1> QED
  BY <1>3, <1>5 DEF I!Tell, Passed, Ahead

LEMMA ResetRefines ==
  ASSUME GroupInv, ResetUsersIterator
  PROVE  GroupInv' /\ I!Restart
<1>1. /\ users \in Seq(People \ Invalid) /\ IsInjective(users)
      /\ iterator \in -1..(Len(users) - 1) /\ Len(users) \in Nat
      /\ users' = users /\ iterator' = -1 /\ reply' = <<"none">>
  BY DEF GroupInv, ResetUsersIterator
<1>2. iterator' \in -1..(Len(users') - 1) /\ iterator' < Len(users')
  BY <1>1
<1>3. GroupInv'
  BY <1>1, <1>2 DEF GroupInv
<1>4. Passed = PassedOf(users, iterator) /\ Ahead = AheadOf(users, iterator)
  BY MappingFacts
<1>5. Passed' = PassedOf(users', iterator') /\ Ahead' = AheadOf(users', iterator')
  BY <1>2 DEF Passed, Ahead, PassedOf, AheadOf
<1>6. /\ PassedOf(users, iterator) \o AheadOf(users, iterator) = users
      /\ PassedOf(users, -1) = <<>> /\ AheadOf(users, -1) = users
  BY <1>1, PartsNext
<1>7. Passed' = <<>> /\ Ahead' = Passed \o Ahead
  BY <1>1, <1>4, <1>5, <1>6
<1> QED
  BY <1>1, <1>3, <1>7 DEF I!Restart, Passed, Ahead

LEMMA FreeRefines ==
  ASSUME Free
  PROVE  GroupInv' /\ I!Vanish
<1>1. users' = <<>> /\ iterator' = -1 /\ reply' = <<"none">>
  BY DEF Free
<1>2. GroupInv'
  BY <1>1 DEF GroupInv, IsInjective
<1>3. <<>> \in Seq(People) /\ -1 \in -1..(Len(<<>>) - 1)
  OBVIOUS
<1>4. PassedOf(<<>>, -1) = <<>> /\ AheadOf(<<>>, -1) = <<>>
  BY <1>3, PartsNext
<1>5. iterator' < Len(users')
  BY <1>1
<1>6. Passed' = <<>> /\ Ahead' = <<>>
  BY <1>1, <1>4, <1>5 DEF Passed, Ahead, PassedOf, AheadOf
<1> QED
  BY <1>1, <1>2, <1>6 DEF I!Vanish, Passed, Ahead

LEMMA GroupStepRefines ==
  ASSUME GroupInv, GroupStep
  PROVE  GroupInv' /\ I!Next
<1>1. ASSUME NEW u \in People, AddUser(u)
      PROVE  GroupInv' /\ I!Next
  BY <1>1, AddUserRefines DEF I!Next
<1>2. ASSUME NEW u \in People, RemoveUser(u)
      PROVE  GroupInv' /\ I!Next
  BY <1>2, RemoveUserRefines DEF I!Next
<1>3. CASE GetNextUser
  BY <1>3, GetNextUserRefines DEF I!Next
<1>4. CASE UsersAtEnd
  BY <1>4, UsersAtEndRefines DEF I!Next
<1>5. CASE ResetUsersIterator
  BY <1>5, ResetRefines DEF I!Next
<1>6. CASE Free
  BY <1>6, FreeRefines DEF I!Next
<1> QED
  BY <1>1, <1>2, <1>3, <1>4, <1>5, <1>6 DEF GroupStep, Use

(* Whatever is done to a Group between its construction and its end, going  *)
(* through its users with getNextUser gives each of them once and in order: *)
(* the iterator that addUser and removeUser leave in the middle of the      *)
(* array is Iteration's.                                                    *)
THEOREM IterationIsFollowed == SetupSpec => ImplementsIteration
<1>1. SetupInit => GroupInv /\ I!Init
  BY GroupInitially DEF SetupInit
<1>2. GroupInv /\ [SetupNext]_setupVars => GroupInv' /\ [I!Next]_(I!vars)
  <2> SUFFICES ASSUME GroupInv, [SetupNext]_setupVars
               PROVE  GroupInv' /\ [I!Next]_(I!vars)
    OBVIOUS
  <2>1. CASE GroupStep
    BY <2>1, GroupStepRefines
  <2>2. CASE UNCHANGED groupVars
    <3>1. GroupInv' /\ Passed' = Passed /\ Ahead' = Ahead /\ reply' = reply
      BY <2>2, GroupUnchanged DEF groupVars
    <3> QED
      BY <3>1 DEF I!vars, Passed, Ahead
  <2>3. GroupStep \/ UNCHANGED groupVars
    BY DEF SetupNext, Edit, SaveGroup, SaveAndLoad, StartServer, Construct, setupVars,
           GroupStep, groupVars
  <2> QED
    BY <2>1, <2>2, <2>3
<1> QED
  BY <1>1, <1>2, PTL DEF SetupSpec, ImplementsIteration, I!Spec

-----------------------------------------------------------------------------
(***************************************************************************)
(* The permissions the server knows.                                       *)
(***************************************************************************)
(* One of the same name, but of another kind, was there first.              *)
Hidden(p) == \E q \in Range(perms) : q.name = p.name /\ q.type # p.type

(* Every file of the directory of permissions is still to come, or has been *)
(* loaded, once, or is hidden by one that has.                              *)
PermsInv ==
  /\ phase = "setup" => perms = <<>>
  /\ phase # "setup" => perms \in Seq(PermFiles(files)) /\ IsInjective(perms)
  /\ phase = "perms" => unread \subseteq PermFiles(files) /\ Range(perms) \cap unread = {}
  /\ phase \notin {"setup", "failed", "looping"} =>
       \A p \in PermFiles(files) :
         \/ phase = "perms" /\ p \in unread
         \/ p \in Range(perms)
         \/ Hidden(p)

(* A file is known by its type and its name.                                *)
LEMMA SameFile ==
  ASSUME NEW c, NEW p \in PermFiles(c), NEW q \in PermFiles(c),
         p.type = q.type, p.name = q.name
  PROVE  p = q
BY DEF PermFiles, User, Group

LEMMA PermsInitially == SetupInit => PermsInv
BY DEF SetupInit, NothingLoaded, PermsInv

LEMMA StartServerPerms ==
  ASSUME PermsInv, StartServer
  PROVE  PermsInv'
<1>1. /\ phase' = "perms" /\ unread' = PermFiles(files') /\ perms' = <<>>
  BY DEF StartServer, PermsInv
<1>2. IsInjective(<<>>) /\ Range(<<>>) = {} /\ <<>> \in Seq(PermFiles(files'))
  BY DEF IsInjective, Range
<1> QED
  BY <1>1, <1>2 DEF PermsInv

LEMMA PermsUnchanged ==
  ASSUME PermsInv, UNCHANGED <<files, phase, unread, perms>>
  PROVE  PermsInv'
BY DEF PermsInv, Hidden

(* After the permissions have been read nothing concerns them any more.     *)
LEMMA PermsDone ==
  ASSUME PermsInv, UNCHANGED <<files, perms>>,
         phase \notin {"setup", "perms", "failed", "looping"},
         phase' \notin {"setup", "perms"}
  PROVE  PermsInv'
BY DEF PermsInv, Hidden

LEMMA PermsAreRead ==
  ASSUME PermsInv, PermsRead
  PROVE  PermsInv'
BY DEF PermsInv, PermsRead, Hidden

LEMMA ReadPermPerms ==
  ASSUME PermsInv, NEW e \in unread, ReadPerm(e)
  PROVE  PermsInv'
<1>1. /\ phase = "perms" /\ files' = files /\ unread' = unread \ {e}
      /\ perms \in Seq(PermFiles(files)) /\ IsInjective(perms)
      /\ unread \subseteq PermFiles(files) /\ Range(perms) \cap unread = {}
      /\ \A p \in PermFiles(files) : p \in unread \/ p \in Range(perms) \/ Hidden(p)
  BY DEF PermsInv, ReadPerm
<1>2. e \in PermFiles(files) /\ e \notin Range(perms)
  BY <1>1
<1>3. CASE Skipped(e) /\ UNCHANGED <<phase, perms>>
  <2>1. PICK i \in DOMAIN perms : perms[i].name = e.name
    BY <1>3 DEF Skipped
  <2>2. perms[i] \in Range(perms) /\ perms[i] \in PermFiles(files)
    BY <1>1 DEF Range
  <2>3. perms[i].type # e.type
    BY <1>2, <2>1, <2>2, SameFile
  <2>4. Hidden(e)
    BY <2>1, <2>2, <2>3 DEF Hidden
  <2>5. \A p \in PermFiles(files) : Hidden(p) => Hidden(p)'
    BY <1>3 DEF Hidden
  <2> QED
    BY <1>1, <1>3, <2>4, <2>5 DEF PermsInv
<1>4. CASE perms' = Append(perms, e) /\ UNCHANGED phase
  <2>1. /\ perms' \in Seq(PermFiles(files)) /\ Len(perms') = Len(perms) + 1
        /\ \A i \in 1..Len(perms) : perms'[i] = perms[i]
        /\ perms'[Len(perms) + 1] = e
    BY <1>1, <1>2, <1>4
  <2>2. DOMAIN perms = 1..Len(perms) /\ DOMAIN perms' = 1..Len(perms') /\ Len(perms) \in Nat
    BY <1>1, <2>1
  <2>3. \A i \in 1..Len(perms) : perms[i] # e
    BY <1>2, <2>2 DEF Range
  <2>4. \A i \in 1..Len(perms') : i \in 1..Len(perms) \/ i = Len(perms) + 1
    BY <2>1, <2>2
  <2>5. IsInjective(perms')
    BY <1>1, <2>1, <2>2, <2>3, <2>4 DEF IsInjective
  <2>6. Range(perms') = Range(perms) \cup {e}
    <3>1. Len(perms) + 1 \in 1..Len(perms') /\ \A i \in 1..Len(perms) : i \in 1..Len(perms')
      BY <2>1, <2>2
    <3> QED
      BY <2>1, <2>2, <2>4, <3>1 DEF Range
  <2>7. \A p \in PermFiles(files) : Hidden(p) => Hidden(p)'
    BY <2>6 DEF Hidden
  <2> QED
    BY <1>1, <1>4, <2>1, <2>5, <2>6, <2>7 DEF PermsInv
<1>5. CASE phase' = Stopped(e) /\ UNCHANGED perms
  BY <1>1, <1>5 DEF PermsInv, Stopped
<1> QED
  BY <1>3, <1>4, <1>5 DEF ReadPerm

LEMMA ConstructPerms ==
  ASSUME PermsInv, Next
  PROVE  PermsInv'
<1>1. CASE \E e \in unread : ReadPerm(e)
  BY <1>1, ReadPermPerms
<1>2. CASE PermsRead
  BY <1>2, PermsAreRead
<1>3. ASSUME ~\E e \in unread : ReadPerm(e), ~PermsRead
      PROVE  /\ UNCHANGED <<files, perms>>
             /\ phase \notin {"setup", "perms", "failed", "looping"}
             /\ phase' \notin {"setup", "perms"}
  BY <1>3 DEF Next, Stopped, ReadCommand, ReadGroup, LoadLine, LoadNested, LoadMissing, LoadReturns,
              CommandsRead, PruneGroup, GroupsPruned, PruneCommand, CommandsPruned
<1> QED
  BY <1>1, <1>2, <1>3, PermsDone

(* What the server knows of users and groups, in whatever order the         *)
(* directory is listed.  That it is inductive needs the files that are yet  *)
(* to come: none of them has been loaded.                                   *)
THEOREM PermsInductive == SetupSpec => []PermsInv
<1>1. PermsInv /\ [SetupNext]_setupVars => PermsInv'
  <2> SUFFICES ASSUME PermsInv, [SetupNext]_setupVars PROVE PermsInv'
    OBVIOUS
  <2>1. CASE StartServer
    BY <2>1, StartServerPerms
  <2>2. CASE Construct
    BY <2>2, ConstructPerms DEF Construct
  <2>3. CASE Edit \/ SaveGroup \/ SaveAndLoad \/ UNCHANGED setupVars
    BY <2>3, PermsUnchanged DEF Edit, SaveGroup, SaveAndLoad, setupVars, vars
  <2> QED
    BY <2>1, <2>2, <2>3 DEF SetupNext
<1> QED
  BY <1>1, PermsInitially, PTL DEF SetupSpec

(* Every user and group is known to the server once, unless a user and a    *)
(* group have the same name: then it knows the one that comes first.        *)
THEOREM EveryoneIsKnown == SetupSpec => []EveryoneKnown
<1>1. PermsInv => EveryoneKnown
  <2> SUFFICES ASSUME PermsInv, phase = "ready"
               PROVE  /\ IsInjective(perms)
                      /\ \A p \in PermFiles(files) : p \in Range(perms) \/ Hidden(p)
                      /\ \A p \in PermFiles(files) :
                           (\A q \in PermFiles(files) : q.name = p.name => q = p)
                             => p \in Range(perms)
    BY DEF EveryoneKnown, Hidden
  <2>1. /\ perms \in Seq(PermFiles(files)) /\ IsInjective(perms)
        /\ \A p \in PermFiles(files) : p \in Range(perms) \/ Hidden(p)
    BY DEF PermsInv
  <2>2. \A q \in Range(perms) : q \in PermFiles(files)
    BY <2>1 DEF Range
  <2> QED
    BY <2>1, <2>2 DEF Hidden
<1> QED
  BY <1>1, PermsInductive, PTL

-----------------------------------------------------------------------------
(***************************************************************************)
(* The caches: what User::load, Group::load and Command::load make of them.*)
(***************************************************************************)

(* An element more.                                                         *)
LEMMA AppendedFacts ==
  ASSUME NEW S, NEW s \in Seq(S), NEW e \in S
  PROVE  /\ Append(s, e) \in Seq(S) /\ Len(Append(s, e)) = Len(s) + 1
         /\ \A i \in 1..Len(s) : Append(s, e)[i] = s[i]
         /\ Append(s, e)[Len(s) + 1] = e
         /\ Range(Append(s, e)) = Range(s) \cup {e}
         /\ IsInjective(s) /\ e \notin Range(s) => IsInjective(Append(s, e))
<1> DEFINE d == Append(s, e)
           n == Len(s)
<1>1. n \in Nat /\ DOMAIN s = 1..n
  OBVIOUS
<1>2. /\ d \in Seq(S) /\ Len(d) = n + 1 /\ DOMAIN d = 1..(n + 1)
      /\ \A i \in 1..n : d[i] = s[i]
      /\ d[n + 1] = e
  BY <1>1
<1>3. \A i \in 1..(n + 1) : i \in 1..n \/ i = n + 1
  BY <1>1
<1>4. n + 1 \in 1..(n + 1) /\ \A i \in 1..n : i \in 1..(n + 1)
  BY <1>1
<1> HIDE DEF d, n
<1>5. Range(d) = Range(s) \cup {e}
  BY <1>1, <1>2, <1>3, <1>4 DEF Range
<1>6. ASSUME IsInjective(s), e \notin Range(s)
      PROVE  IsInjective(d)
  <2>1. \A i \in 1..n : s[i] # e
    BY <1>1, <1>6 DEF Range
  <2>2. \A i, j \in 1..n : s[i] = s[j] => i = j
    BY <1>1, <1>6 DEF IsInjective
  <2> QED
    BY <1>2, <1>3, <2>1, <2>2 DEF IsInjective
<1> QED
  BY <1>2, <1>5, <1>6 DEF d, n

(* d is c with some of the objects of N after it.                           *)
Extends(c, d, N) ==
  /\ Len(c) <= Len(d)
  /\ \A i \in 1..Len(c) : d[i] = c[i]
  /\ \A i \in 1..Len(d) : i \in 1..Len(c) \/ d[i] \in N

(* What there is to say of it: x is in it, and nothing is in it twice.      *)
Grown(c, d, S, N) ==
  /\ d \in Seq(S) /\ Extends(c, d, N)
  /\ IsInjective(c) => IsInjective(d)

LEMMA GrownRange ==
  ASSUME NEW S, NEW N, NEW c \in Seq(S), NEW d, Grown(c, d, S, N)
  PROVE  Range(c) \subseteq Range(d) /\ Range(d) \subseteq Range(c) \cup N
<1>1. /\ d \in Seq(S) /\ Len(c) \in Nat /\ Len(d) \in Nat /\ Len(c) <= Len(d)
      /\ DOMAIN c = 1..Len(c) /\ DOMAIN d = 1..Len(d)
      /\ \A i \in 1..Len(c) : d[i] = c[i]
      /\ \A i \in 1..Len(d) : i \in 1..Len(c) \/ d[i] \in N
  BY DEF Grown, Extends
<1>2. \A i \in 1..Len(c) : i \in 1..Len(d)
  BY <1>1
<1> QED
  BY <1>1, <1>2 DEF Range

LEMMA GrownRefl ==
  ASSUME NEW S, NEW N, NEW c \in Seq(S)
  PROVE  Grown(c, c, S, N)
BY DEF Grown, Extends

LEMMA GrownTrans ==
  ASSUME NEW S, NEW N, NEW c \in Seq(S), NEW d, NEW e, Grown(c, d, S, N), Grown(d, e, S, N)
  PROVE  Grown(c, e, S, N)
<1>1. /\ d \in Seq(S) /\ e \in Seq(S)
      /\ Len(c) \in Nat /\ Len(d) \in Nat /\ Len(c) <= Len(d) /\ Len(d) <= Len(e)
      /\ \A i \in 1..Len(c) : d[i] = c[i]
      /\ \A i \in 1..Len(d) : e[i] = d[i]
      /\ \A i \in 1..Len(d) : i \in 1..Len(c) \/ d[i] \in N
      /\ \A i \in 1..Len(e) : i \in 1..Len(d) \/ e[i] \in N
      /\ IsInjective(c) => IsInjective(e)
  BY DEF Grown, Extends
<1>2. \A i \in 1..Len(c) : i \in 1..Len(d)
  BY <1>1
<1>3. \A i \in 1..Len(c) : e[i] = c[i]
  BY <1>1, <1>2
<1>4. \A i \in 1..Len(e) : i \in 1..Len(c) \/ e[i] \in N
  BY <1>1
<1>5. Len(c) <= Len(e)
  BY <1>1
<1> QED
  BY <1>1, <1>3, <1>4, <1>5 DEF Grown, Extends

LEMMA GrownMore ==
  ASSUME NEW S, NEW N, NEW M, N \subseteq M, NEW c, NEW d, Grown(c, d, S, N)
  PROVE  Grown(c, d, S, M)
BY DEF Grown, Extends

LEMMA GrownAppend ==
  ASSUME NEW S, NEW N, NEW c \in Seq(S), NEW x \in S, x \in N, x \notin Range(c)
  PROVE  Grown(c, Append(c, x), S, N) /\ x \in Range(Append(c, x))
<1>1. /\ Append(c, x) \in Seq(S) /\ Len(Append(c, x)) = Len(c) + 1 /\ Len(c) \in Nat
      /\ \A i \in 1..Len(c) : Append(c, x)[i] = c[i]
      /\ Append(c, x)[Len(c) + 1] = x
      /\ Range(Append(c, x)) = Range(c) \cup {x}
      /\ IsInjective(c) => IsInjective(Append(c, x))
  BY AppendedFacts
<1>2. \A i \in 1..(Len(c) + 1) : i \in 1..Len(c) \/ i = Len(c) + 1
  BY <1>1
<1>3. Extends(c, Append(c, x), N)
  BY <1>1, <1>2 DEF Extends
<1> QED
  BY <1>1, <1>3 DEF Grown

(* An object enters the cache once, or is found there, if it has a name or  *)
(* was not there.                                                           *)
LEMMA CachedFacts ==
  ASSUME NEW S, NEW N, NEW c \in Seq(S), NEW x \in S, x \in N,
         HasName(x) \/ x \notin Range(c)
  PROVE  Grown(c, Cached(c, x), S, N) /\ x \in Range(Cached(c, x))
<1>1. Contains(c, x) <=> x \in Range(c)
  BY DEF Contains, Range
<1>2. CASE Found(c, x)
  <2>1. Cached(c, x) = c /\ x \in Range(c)
    BY <1>1, <1>2 DEF Cached, Found
  <2> QED
    BY <2>1, GrownRefl
<1>3. CASE ~Found(c, x)
  <2>1. Cached(c, x) = Append(c, x) /\ x \notin Range(c)
    BY <1>1, <1>3 DEF Cached, Found
  <2> QED
    BY <2>1, GrownAppend
<1> QED
  BY <1>2, <1>3

(* The recursion of CachedAll, which some function follows.                 *)
CachesUpTo(f, c, xs) ==
  f = [i \in 0..Len(xs) |-> IF i = 0 THEN c ELSE Cached(f[i - 1], xs[i])]

LEMMA CachedAllIs ==
  ASSUME NEW S, NEW c \in Seq(S), NEW xs \in Seq(S)
  PROVE  \E f : /\ CachedAll(c, xs) = f[Len(xs)]
                /\ \A i \in 0..Len(xs) : f[i] = IF i = 0 THEN c ELSE Cached(f[i - 1], xs[i])
<1> DEFINE n == Len(xs)
           T == Seq(S)
           F == [p \in (1..n) \X T |-> Cached(p[2], xs[p[1]])]
<1>1. n \in Nat /\ \A i \in 1..n : xs[i] \in S
  OBVIOUS
<1>2. F \in [(1..n) \X T -> T]
  <2>1. ASSUME NEW p \in (1..n) \X T PROVE Cached(p[2], xs[p[1]]) \in T
    <3>1. p[2] \in Seq(S) /\ xs[p[1]] \in S
      BY <1>1
    <3> QED
      BY <3>1 DEF Cached
  <2> QED
    BY <2>1
<1>3. \A i \in 1..n, d \in T : F[<<i, d>>] = Cached(d, xs[i])
  OBVIOUS
<1> HIDE DEF F
<1>4. PICK g \in [0..n -> T] : Iterates(g, c, F, n)
  <2>1. c \in T /\ n \in Nat
    BY <1>1
  <2> HIDE DEF n, T
  <2> QED
    BY <1>2, <2>1, RecursionExists
<1>5. ASSUME NEW i \in 0..n
      PROVE  g[i] = IF i = 0 THEN c ELSE Cached(g[i - 1], xs[i])
  <2>1. i # 0 => i \in 1..n /\ i - 1 \in 0..n
    BY <1>1
  <2>2. i # 0 => g[i - 1] \in T
    BY <2>1, <1>4
  <2> QED
    BY <1>3, <1>4, <2>1, <2>2 DEF Iterates
<1>6. CachesUpTo(g, c, xs)
  BY <1>4, <1>5 DEF CachesUpTo
<1> DEFINE f == CHOOSE f : CachesUpTo(f, c, xs)
<1>7. CachesUpTo(f, c, xs)
  BY <1>6
<1>8. CachedAll(c, xs) = f[n]
  BY DEF CachedAll, CachesUpTo
<1> HIDE DEF f
<1>9. \A i \in 0..n : f[i] = IF i = 0 THEN c ELSE Cached(f[i - 1], xs[i])
  <2> DEFINE h == [i \in 0..n |-> IF i = 0 THEN c ELSE Cached(f[i - 1], xs[i])]
  <2>1. f = h
    BY <1>7 DEF CachesUpTo
  <2>2. \A i \in 0..n : h[i] = IF i = 0 THEN c ELSE Cached(f[i - 1], xs[i])
    OBVIOUS
  <2> HIDE DEF h
  <2>3. \A i \in 0..n : f[i] = h[i]
    BY <2>1
  <2> QED
    BY <2>2, <2>3
<1> QED
  BY <1>8, <1>9

LEMMA CachedAllFacts ==
  ASSUME NEW S, NEW V, V \subseteq S, \A v \in V : HasName(v),
         NEW c \in Seq(S), NEW xs \in Seq(V)
  PROVE  /\ Grown(c, CachedAll(c, xs), S, V)
         /\ Range(xs) \subseteq Range(CachedAll(c, xs))
<1>1. xs \in Seq(S) /\ Len(xs) \in Nat /\ DOMAIN xs = 1..Len(xs)
  OBVIOUS
<1>2. PICK f : /\ CachedAll(c, xs) = f[Len(xs)]
               /\ \A i \in 0..Len(xs) : f[i] = IF i = 0 THEN c ELSE Cached(f[i - 1], xs[i])
  BY <1>1, CachedAllIs
<1> DEFINE Good(n) == Grown(c, f[n], S, V) /\ \A i \in 1..n : xs[i] \in Range(f[n])
           G == {n \in Nat : n <= Len(xs) => Good(n)}
<1>3. 0 \in G
  <2>1. f[0] = c
    BY <1>1, <1>2
  <2> QED
    BY <2>1, GrownRefl
<1>4. ASSUME NEW n \in Nat, n \in G
      PROVE  n + 1 \in G
  <2> SUFFICES ASSUME n + 1 <= Len(xs) PROVE Good(n + 1)
    OBVIOUS
  <2>1. /\ n + 1 \in 0..Len(xs) /\ n + 1 \in 1..Len(xs) /\ n + 1 # 0 /\ n + 1 - 1 = n
        /\ n <= Len(xs) /\ \A i \in 1..(n + 1) : i \in 1..n \/ i = n + 1
    BY <1>1
  <2>2. Good(n)
    BY <1>4, <2>1
  <2>3. f[n + 1] = Cached(f[n], xs[n + 1])
    BY <1>2, <2>1
  <2>4. xs[n + 1] \in V
    BY <2>1
  <2> DEFINE y == xs[n + 1]
             d == f[n]
  <2>5. d \in Seq(S) /\ y \in S /\ HasName(y) /\ y \in V
    BY <2>2, <2>4 DEF Grown
  <2> HIDE DEF y, d
  <2>6. Grown(d, Cached(d, y), S, V) /\ y \in Range(Cached(d, y))
    BY <2>5, CachedFacts
  <2>7. Range(d) \subseteq Range(Cached(d, y))
    BY <2>5, <2>6, GrownRange
  <2>8. Grown(c, f[n + 1], S, V)
    BY <2>2, <2>3, <2>6, GrownTrans DEF y, d
  <2> QED
    BY <2>1, <2>2, <2>3, <2>6, <2>7, <2>8 DEF y, d
<1>5. Len(xs) \in G
  BY <1>1, <1>3, <1>4, NaturalInduction
<1>6. Good(Len(xs))
  BY <1>1, <1>5
<1> QED
  BY <1>1, <1>2, <1>6 DEF Range

(* Objects that all can be loaded with what they name.                      *)
Stock(V, S) ==
  /\ V \subseteq S
  /\ \A v \in V : HasName(v) /\ Names(files, v) \in Seq(V)

LEMMA LoadPermFacts ==
  ASSUME NEW S, NEW V, Stock(V, S), NEW c \in Seq(S), NEW p \in V
  PROVE  Grown(c, LoadPerm(c, p), S, V) /\ p \in Range(LoadPerm(c, p))
<1> DEFINE d == CachedAll(c, Names(files, p))
<1>1. Grown(c, d, S, V)
  BY CachedAllFacts DEF Stock
<1>2. d \in Seq(S) /\ p \in S /\ HasName(p)
  BY <1>1 DEF Grown, Stock
<1>3. LoadPerm(c, p) = Cached(d, p)
  BY DEF LoadPerm
<1> HIDE DEF d
<1>4. Grown(d, Cached(d, p), S, V) /\ p \in Range(Cached(d, p))
  BY <1>2, CachedFacts
<1> QED
  BY <1>1, <1>2, <1>3, <1>4, GrownTrans

(* The recursion of LoadAll is that of CachedAll with LoadPerm for Cached.  *)
LoadsUpTo(f, c, xs) ==
  f = [i \in 0..Len(xs) |-> IF i = 0 THEN c ELSE LoadPerm(f[i - 1], xs[i])]

LEMMA LoadAllIs ==
  ASSUME NEW S, NEW V, Stock(V, S), NEW c \in Seq(S), NEW xs \in Seq(V)
  PROVE  \E f : /\ LoadAll(c, xs) = f[Len(xs)]
                /\ \A i \in 0..Len(xs) : f[i] = IF i = 0 THEN c ELSE LoadPerm(f[i - 1], xs[i])
<1> DEFINE n == Len(xs)
           T == Seq(S)
           F == [p \in (1..n) \X T |-> LoadPerm(p[2], xs[p[1]])]
<1>1. n \in Nat /\ \A i \in 1..n : xs[i] \in V
  OBVIOUS
<1>2. F \in [(1..n) \X T -> T]
  <2>1. ASSUME NEW p \in (1..n) \X T PROVE LoadPerm(p[2], xs[p[1]]) \in T
    <3>1. p[2] \in Seq(S) /\ xs[p[1]] \in V
      BY <1>1
    <3> QED
      BY <3>1, LoadPermFacts DEF Grown
  <2> QED
    BY <2>1
<1>3. \A i \in 1..n, d \in T : F[<<i, d>>] = LoadPerm(d, xs[i])
  OBVIOUS
<1> HIDE DEF F
<1>4. PICK g \in [0..n -> T] : Iterates(g, c, F, n)
  <2>1. c \in T /\ n \in Nat
    BY <1>1
  <2> HIDE DEF n, T
  <2> QED
    BY <1>2, <2>1, RecursionExists
<1>5. ASSUME NEW i \in 0..n
      PROVE  g[i] = IF i = 0 THEN c ELSE LoadPerm(g[i - 1], xs[i])
  <2>1. i # 0 => i \in 1..n /\ i - 1 \in 0..n
    BY <1>1
  <2>2. i # 0 => g[i - 1] \in T
    BY <2>1, <1>4
  <2> QED
    BY <1>3, <1>4, <2>1, <2>2 DEF Iterates
<1>6. LoadsUpTo(g, c, xs)
  BY <1>4, <1>5 DEF LoadsUpTo
<1> DEFINE f == CHOOSE f : LoadsUpTo(f, c, xs)
<1>7. LoadsUpTo(f, c, xs)
  BY <1>6
<1>8. LoadAll(c, xs) = f[n]
  BY DEF LoadAll, LoadsUpTo
<1> HIDE DEF f
<1>9. \A i \in 0..n : f[i] = IF i = 0 THEN c ELSE LoadPerm(f[i - 1], xs[i])
  <2> DEFINE h == [i \in 0..n |-> IF i = 0 THEN c ELSE LoadPerm(f[i - 1], xs[i])]
  <2>1. f = h
    BY <1>7 DEF LoadsUpTo
  <2>2. \A i \in 0..n : h[i] = IF i = 0 THEN c ELSE LoadPerm(f[i - 1], xs[i])
    OBVIOUS
  <2> HIDE DEF h
  <2>3. \A i \in 0..n : f[i] = h[i]
    BY <2>1
  <2> QED
    BY <2>2, <2>3
<1> QED
  BY <1>8, <1>9

LEMMA LoadAllFacts ==
  ASSUME NEW S, NEW V, Stock(V, S), NEW c \in Seq(S), NEW xs \in Seq(V)
  PROVE  /\ Grown(c, LoadAll(c, xs), S, V)
         /\ Range(xs) \subseteq Range(LoadAll(c, xs))
<1>1. Len(xs) \in Nat /\ DOMAIN xs = 1..Len(xs)
  OBVIOUS
<1>2. PICK f : /\ LoadAll(c, xs) = f[Len(xs)]
               /\ \A i \in 0..Len(xs) : f[i] = IF i = 0 THEN c ELSE LoadPerm(f[i - 1], xs[i])
  BY LoadAllIs
<1> DEFINE Good(n) == Grown(c, f[n], S, V) /\ \A i \in 1..n : xs[i] \in Range(f[n])
           G == {n \in Nat : n <= Len(xs) => Good(n)}
<1>3. 0 \in G
  <2>1. f[0] = c
    BY <1>1, <1>2
  <2> QED
    BY <2>1, GrownRefl
<1>4. ASSUME NEW n \in Nat, n \in G
      PROVE  n + 1 \in G
  <2> SUFFICES ASSUME n + 1 <= Len(xs) PROVE Good(n + 1)
    OBVIOUS
  <2>1. /\ n + 1 \in 0..Len(xs) /\ n + 1 \in 1..Len(xs) /\ n + 1 # 0 /\ n + 1 - 1 = n
        /\ n <= Len(xs) /\ \A i \in 1..(n + 1) : i \in 1..n \/ i = n + 1
    BY <1>1
  <2>2. Good(n)
    BY <1>4, <2>1
  <2>3. f[n + 1] = LoadPerm(f[n], xs[n + 1])
    BY <1>2, <2>1
  <2> DEFINE y == xs[n + 1]
             d == f[n]
  <2>4. d \in Seq(S) /\ y \in V
    BY <2>1, <2>2 DEF Grown
  <2> HIDE DEF y, d
  <2>5. Grown(d, LoadPerm(d, y), S, V) /\ y \in Range(LoadPerm(d, y))
    BY <2>4, LoadPermFacts
  <2>6. Range(d) \subseteq Range(LoadPerm(d, y))
    BY <2>4, <2>5, GrownRange
  <2>7. Grown(c, f[n + 1], S, V)
    BY <2>2, <2>3, <2>5, GrownTrans DEF y, d
  <2> QED
    BY <2>1, <2>2, <2>3, <2>5, <2>6, <2>7 DEF y, d
<1>5. Len(xs) \in G
  BY <1>1, <1>3, <1>4, NaturalInduction
<1>6. Good(Len(xs))
  BY <1>1, <1>5
<1> QED
  BY <1>1, <1>2, <1>6 DEF Range

LEMMA LoadFacts ==
  ASSUME NEW S, NEW V, Stock(V, S), NEW c \in Seq(S), NEW x \in S,
         Names(files, x) \in Seq(V), HasName(x) \/ x \notin Range(c)
  PROVE  /\ Grown(c, Load(c, x), S, V \cup {x}) /\ x \in Range(Load(c, x))
         /\ x \in Range(c) \/ Range(Names(files, x)) \subseteq Range(Load(c, x))
<1>1. CASE Found(c, x)
  <2>1. Load(c, x) = c /\ x \in Range(c)
    BY <1>1 DEF Load, Found, Contains, Range
  <2> QED
    BY <2>1, GrownRefl
<1>2. CASE ~Found(c, x)
  <2> DEFINE d == LoadAll(c, Names(files, x))
  <2>1. Grown(c, d, S, V) /\ Range(Names(files, x)) \subseteq Range(d)
    BY LoadAllFacts
  <2>2. d \in Seq(S) /\ Range(d) \subseteq Range(c) \cup V
    BY <2>1, GrownRange DEF Grown
  <2>3. HasName(x) \/ x \notin Range(d)
    BY <2>2 DEF Stock
  <2>4. Load(c, x) = Cached(d, x)
    BY <1>2 DEF Load
  <2>5. Grown(c, d, S, V \cup {x})
    BY <2>1, GrownMore
  <2> HIDE DEF d
  <2>6. Grown(d, Cached(d, x), S, V \cup {x}) /\ x \in Range(Cached(d, x))
    BY <2>2, <2>3, CachedFacts
  <2>7. Range(d) \subseteq Range(Cached(d, x))
    BY <2>2, <2>6, GrownRange
  <2> QED
    BY <2>1, <2>2, <2>4, <2>5, <2>6, <2>7, GrownTrans
<1> QED
  BY <1>1, <1>2

-----------------------------------------------------------------------------
(***************************************************************************)
(* What is in files, and what of it can be loaded.                         *)
(***************************************************************************)
GroupFiles(c) == {CommandGroup(n) : n \in DOMAIN c.commandGroups}
SingleCommands(c) == {Command(n) : n \in DOMAIN c.commands}

LEMMA FileTypes ==
  ASSUME NEW c
  PROVE  /\ \A x \in PermFiles(c) : x.type \in {"user", "group"}
         /\ \A x \in CommandFiles(c) : x.type \in {"command", "commandgroup"}
         /\ GroupFiles(c) = {x \in CommandFiles(c) : x.type = "commandgroup"}
         /\ SingleCommands(c) = {x \in CommandFiles(c) : x.type = "command"}
         /\ PermFiles(c) = {x \in Files(c) : x.type \in {"user", "group"}}
         /\ CommandFiles(c) = {x \in Files(c) : x.type \in {"command", "commandgroup"}}
BY DEF Files, PermFiles, CommandFiles, GroupFiles, SingleCommands,
       User, Group, Command, CommandGroup

(* All that the file of x names can be added to it.                         *)
Sound(x) == \A y \in Range(Names(files, x)) : CanBeAdded(y)

(* Users, and groups of users, that are complete and can be read.           *)
AllReadable(x) == Readable(x) /\ \A y \in Range(Names(files, x)) : Readable(y)
Stocked == {p \in PermFiles(files) : CanBeAdded(p) /\ Sound(p) /\ AllReadable(p)}

LEMMA NamesOfUser ==
  ASSUME NEW x, x.type = "user"
  PROVE  Names(files, x) = <<>> /\ Sound(x) /\ (AllReadable(x) <=> Readable(x))
<1>1. Names(files, x) = <<>>
  BY DEF Names
<1> QED
  BY <1>1 DEF Sound, AllReadable, Range

LEMMA NamedFacts ==
  ASSUME NEW c, WellFormed(c), NEW x \in Files(c)
  PROVE  /\ Names(c, x) \in Seq(Range(Names(c, x)))
         /\ \A y \in Range(Names(c, x)) :
              /\ x.type = "group" => y.type = "user"
              /\ x.type = "command" => y.type \in {"user", "group"}
              /\ x.type = "commandgroup" => y.type \in {"command", "commandgroup"}
              /\ x.type # "user"
<1>1. /\ Names(c, x) \in Seq(Range(Names(c, x)))
      /\ \A y \in Range(Names(c, x)) : y.type \in NamedIn[x.type]
  BY DEF WellFormed
<1>2. x.type \in {"user", "group", "command", "commandgroup"}
  BY FileTypes DEF Files
<1> QED
  BY <1>1, <1>2 DEF NamedIn

LEMMA StockedIs ==
  ASSUME WellFormed(files)
  PROVE  Stock(Stocked, Files(files))
<1>1. Stocked \subseteq Files(files)
  BY DEF Stocked, Files
<1>2. ASSUME NEW v \in Stocked
      PROVE  HasName(v) /\ Names(files, v) \in Seq(Stocked)
  <2>1. /\ v \in Files(files) /\ v \in PermFiles(files)
        /\ CanBeAdded(v) /\ Sound(v) /\ AllReadable(v)
    BY DEF Stocked, Files
  <2>2. HasName(v)
    BY <2>1 DEF CanBeAdded, WellFormed, HasName
  <2>3. ASSUME NEW y \in Range(Names(files, v))
        PROVE  y \in Stocked
    <3>1. CanBeAdded(y) /\ y \in Files(files) /\ Readable(y)
      BY <2>1 DEF Sound, CanBeAdded, Exists, AllReadable
    <3>2. y.type = "user"
      BY <2>1, FileTypes, NamedFacts
    <3>3. y \in PermFiles(files)
      BY <3>1, <3>2, FileTypes
    <3> QED
      BY <3>1, <3>2, <3>3, NamesOfUser DEF Stocked
  <2>4. Names(files, v) \in Seq(Range(Names(files, v)))
    BY <2>1, NamedFacts
  <2> QED
    BY <2>2, <2>3, <2>4
<1> QED
  BY <1>1, <1>2 DEF Stock

LEMMA LoadableFacts ==
  ASSUME WellFormed(files), NEW x \in Files(files), x.type # "commandgroup", Loadable(x)
  PROVE  Names(files, x) \in Seq(Stocked) /\ Sound(x) /\ Readable(x)
<1>1. Sound(x) /\ Readable(x)
  BY DEF Sound, Loadable
<1>2. ASSUME NEW p \in Range(Names(files, x))
      PROVE  p \in Stocked
  <2>1. CanBeAdded(p) /\ Sound(p) /\ p \in Files(files) /\ AllReadable(p)
    BY DEF Loadable, Sound, CanBeAdded, Exists, AllReadable
  <2>2. p.type \in {"user", "group"}
    <3>1. x.type \in {"user", "group", "command", "commandgroup"}
      BY FileTypes DEF Files
    <3> QED
      BY <3>1, NamedFacts
  <2>3. p \in PermFiles(files)
    BY <2>1, <2>2, FileTypes
  <2> QED
    BY <2>1, <2>3 DEF Stocked
<1>3. Names(files, x) \in Seq(Range(Names(files, x)))
  BY NamedFacts
<1> QED
  BY <1>1, <1>2, <1>3

(* What is not Loadable or cannot be added makes a name that dangles.       *)
LEMMA DanglingFacts ==
  ASSUME NEW x \in Files(files), NEW y \in Range(Names(files, x)), ~CanBeAdded(y)
  PROVE  Dangling
BY DEF Dangling, Incomplete, References

(* A load that hangs meets a file that cannot be read; one that does not    *)
(* hang, although it is of an object that is not Loadable, has thrown.      *)
LEMMA HangsFacts ==
  ASSUME WellFormed(files), NEW x \in Files(files), Hangs(x)
  PROVE  files.unreadable # {}
BY DEF Hangs, PermHangs, Readable

LEMMA ThrowsFacts ==
  ASSUME WellFormed(files), NEW x \in Files(files), ~Loadable(x), ~Hangs(x)
  PROVE  Dangling
<1> SUFFICES ASSUME ~Dangling PROVE FALSE
  OBVIOUS
<1>1. \A z \in Files(files) : \A y \in Range(Names(files, z)) : CanBeAdded(y)
  BY DanglingFacts
<1> DEFINE all == Names(files, x)
<1>2. /\ Exists(x) /\ Readable(x)
      /\ all \in Seq(Range(all)) /\ DOMAIN all = 1..Len(all) /\ Len(all) \in Nat
  <2>1. all \in Seq(Range(all))
    BY NamedFacts
  <2> HIDE DEF all
  <2>2. DOMAIN all = 1..Len(all) /\ Len(all) \in Nat
    BY <2>1
  <2> QED
    BY <2>1, <2>2 DEF Hangs, Exists
<1>3. PICK p \in Range(all) :
        \/ ~CanBeAdded(p) \/ ~Readable(p)
        \/ \E u \in Range(Names(files, p)) : ~CanBeAdded(u) \/ ~Readable(u)
  BY <1>2 DEF Loadable
<1>4. PICK i \in DOMAIN all : all[i] = p
  BY <1>3 DEF Range
<1>5. p \in Files(files) /\ Exists(p)
  BY <1>1, <1>3 DEF CanBeAdded, Exists
<1>6. PermHangs(p)
  <2>1. CASE ~Readable(p)
    BY <1>5, <2>1 DEF PermHangs
  <2>2. CASE Readable(p)
    <3> DEFINE named == Names(files, p)
    <3>1. PICK u \in Range(named) : ~Readable(u)
      BY <1>1, <1>3, <1>5, <2>2
    <3>2. PICK k \in DOMAIN named : named[k] = u
      BY <3>1 DEF Range
    <3>3. named \in Seq(Range(named))
      BY <1>5, NamedFacts
    <3>4. AddedUpTo(named, k)
      <4> SUFFICES ASSUME NEW j \in 1..(k - 1) PROVE CanBeAdded(named[j])
        BY DEF AddedUpTo
      <4> HIDE DEF named
      <4>1. j \in DOMAIN named
        BY <3>2, <3>3
      <4>2. named[j] \in Range(named)
        BY <4>1 DEF Range
      <4> QED
        BY <1>1, <1>5, <4>2 DEF named
    <3> QED
      BY <1>5, <3>1, <3>2, <3>4 DEF PermHangs
  <2> QED
    BY <2>1, <2>2
<1>7. \A j \in 1..(i - 1) : all[j] \in Range(all)
  <2> HIDE DEF all
  <2>1. \A j \in 1..(i - 1) : j \in DOMAIN all
    BY <1>2
  <2> QED
    BY <2>1 DEF Range
<1>8. \A j \in 1..(i - 1) : CanBeAdded(all[j]) /\ all[j] \in Files(files)
  BY <1>1, <1>7 DEF CanBeAdded, Exists
<1>9. Hangs(x)
  BY <1>1, <1>2, <1>4, <1>6, <1>8 DEF Hangs, AddedUpTo
<1> QED
  BY <1>9

(* So what stops the constructor is a file that cannot be read, or a name   *)
(* that dangles.                                                            *)
LEMMA StoppedFacts ==
  ASSUME WellFormed(files), NEW x \in Files(files), ~Loadable(x)
  PROVE  \/ Stopped(x) = "looping" /\ files.unreadable # {}
         \/ Stopped(x) = "failed" /\ Dangling
BY HangsFacts, ThrowsFacts DEF Stopped
-----------------------------------------------------------------------------
(***************************************************************************)
(* The files before the server starts: the configuration's, or with one    *)
(* that load has read as far as it goes.                                   *)
(***************************************************************************)
FilesInv ==
  /\ WellFormed(files)
  /\ phase = "setup" =>
       /\ saving.type \in DOMAIN Class /\ DOMAIN saving = {"type", "name", "names"}
       /\ DOMAIN object = {"ps", "lineno", "names", "threw", "values"}
       /\ object.names \in Seq(Range(object.names))
       /\ \A y \in Range(object.names) :
            \E l \in ToSet(Class[saving.type].lists) : y.type = l[2]

LEMMA FilesInitially == SetupInit => FilesInv
<1> SUFFICES ASSUME SetupInit PROVE FilesInv
  OBVIOUS
<1>1. WellFormed(files)
  BY StartupAssumption DEF SetupInit
<1>2. saving.type \in DOMAIN Class /\ DOMAIN saving = {"type", "name", "names"}
  <2>1. CASE saving = Definition
    BY <2>1 DEF Definition, Class
  <2>2. ASSUME NEW x \in Files(files), saving = Object(files, x)
        PROVE  saving.type \in DOMAIN Class /\ DOMAIN saving = {"type", "name", "names"}
    <3>1. x.type \in {"user", "group", "command", "commandgroup"}
      BY FileTypes DEF Files
    <3> QED
      BY <2>2, <3>1 DEF Object, Class
  <2> QED
    BY <2>1, <2>2 DEF SetupInit
<1>3. /\ DOMAIN object = {"ps", "lineno", "names", "threw", "values"}
      /\ object.names = <<>>
  BY DEF SetupInit, Fresh
<1>4. <<>> \in Seq(Range(<<>>)) /\ Range(<<>>) = {}
  BY DEF Range
<1> QED
  BY <1>1, <1>2, <1>3, <1>4 DEF FilesInv

LEMMA ReadLineKeepsFiles ==
  ASSUME FilesInv, phase = "setup", ReadLine, phase' = phase, files' = files
  PROVE  FilesInv'
<1>1. /\ WellFormed(files)
      /\ saving.type \in DOMAIN Class /\ DOMAIN saving = {"type", "name", "names"}
      /\ DOMAIN object = {"ps", "lineno", "names", "threw", "values"}
      /\ object.names \in Seq(Range(object.names))
      /\ \A y \in Range(object.names) :
           \E l \in ToSet(Class[saving.type].lists) : y.type = l[2]
  BY DEF FilesInv
<1>2. saving' = saving
  BY DEF ReadLine
<1> DEFINE line == disk[object.lineno + 1]
           in == object.ps[2]
           y == ObjectIn(in, line)
<1>3. DOMAIN object' = DOMAIN object
  BY DEF ReadLine
<1>4. \/ object'.names = object.names
      \/ in \in ListSections /\ object'.names = Append(object.names, y)
  BY <1>1 DEF ReadLine
<1>5. CASE object'.names = object.names
  BY <1>1, <1>2, <1>3, <1>5 DEF FilesInv
<1>6. CASE in \in ListSections /\ object'.names = Append(object.names, y)
  <2>1. \E l \in ToSet(Class[saving.type].lists) : y.type = l[2]
    BY <1>6 DEF ListSections, ObjectIn
  <2> HIDE DEF in, y
  <2> DEFINE S == Range(object.names) \cup {y}
  <2>2. object.names \in Seq(S) /\ y \in S
    BY <1>1
  <2> HIDE DEF S
  <2>3. Append(object.names, y) \in Seq(S) /\ Range(Append(object.names, y)) = S
    BY <2>2, AppendedFacts DEF S
  <2>4. object'.names \in Seq(Range(object'.names)) /\ Range(object'.names) = S
    BY <1>6, <2>3
  <2>5. \A z \in S : \E l \in ToSet(Class[saving.type].lists) : z.type = l[2]
    BY <1>1, <2>1 DEF S
  <2> QED
    BY <1>1, <1>2, <1>3, <2>4, <2>5 DEF FilesInv
<1> QED
  BY <1>4, <1>5, <1>6

LEMMA SavingKeepsFiles ==
  ASSUME FilesInv, phase = "setup", SaveAndLoad
  PROVE  FilesInv'
<1>1. files' = files /\ phase' = phase
  BY DEF SaveAndLoad, vars
<1>2. CASE SaveStep \/ EndOfFile
  <2>1. saving' = saving /\ object' = object
    BY <1>2 DEF SaveStep, Create, WriteLine, Saved, Killed, Refused, EndOfFile
  <2> QED
    BY <1>1, <2>1 DEF FilesInv
<1>3. CASE Open
  <2>1. saving' = saving /\ object' = Fresh(saving.type)
    BY <1>3 DEF Open
  <2>2. /\ DOMAIN object' = {"ps", "lineno", "names", "threw", "values"}
        /\ object'.names = <<>>
    BY <2>1 DEF Fresh
  <2>3. <<>> \in Seq(Range(<<>>)) /\ Range(<<>>) = {}
    BY DEF Range
  <2> QED
    BY <1>1, <2>1, <2>2, <2>3 DEF FilesInv
<1>4. CASE ReadLine
  BY <1>1, <1>4, ReadLineKeepsFiles
<1> QED
  BY <1>2, <1>3, <1>4 DEF SaveAndLoad, LoadStep

(* What With puts into a configuration.                                     *)
LEMMA WithFacts ==
  ASSUME NEW c, WellFormed(c), NEW x, NEW names
  PROVE  /\ DOMAIN With(c, x, names) = DOMAIN c
         /\ With(c, x, names).unreadable = c.unreadable
         /\ Files(With(c, x, names)) = Files(c)
         /\ DOMAIN With(c, x, names).commandGroups = DOMAIN c.commandGroups
         /\ \A y \in Files(c) :
              \/ Names(With(c, x, names), y) = Names(c, y)
              \/ /\ y.type = x.type /\ x.type \in {"group", "command", "commandgroup"}
                 /\ Names(With(c, x, names), y) = names
<1> DEFINE w == With(c, x, names)
<1>1. DOMAIN c = {"users", "userGroups", "commands", "commandGroups", "invalid", "unnamed",
                  "unreadable"}
  BY DEF WellFormed
<1>2. /\ DOMAIN w = DOMAIN c
      /\ w.unreadable = c.unreadable
      /\ w.users = c.users
      /\ \/ w.userGroups = c.userGroups
         \/ x.type = "group" /\ w.userGroups = [c.userGroups EXCEPT ![x.name] = names]
      /\ \/ w.commands = c.commands
         \/ x.type = "command" /\ w.commands = [c.commands EXCEPT ![x.name] = names]
      /\ \/ w.commandGroups = c.commandGroups
         \/ /\ x.type = "commandgroup"
            /\ w.commandGroups = [c.commandGroups EXCEPT ![x.name] = names]
  <2>1. CASE x.type = "group"
    BY <1>1, <2>1 DEF With
  <2>2. CASE x.type = "command"
    BY <1>1, <2>2 DEF With
  <2>3. CASE x.type = "commandgroup"
    BY <1>1, <2>3 DEF With
  <2>4. CASE x.type \notin {"group", "command", "commandgroup"}
    BY <2>4 DEF With
  <2> QED
    BY <2>1, <2>2, <2>3, <2>4
<1> HIDE DEF w
<1>3. /\ DOMAIN w.userGroups = DOMAIN c.userGroups
      /\ DOMAIN w.commands = DOMAIN c.commands
      /\ DOMAIN w.commandGroups = DOMAIN c.commandGroups
  BY <1>2
<1>4. Files(w) = Files(c)
  BY <1>2, <1>3 DEF Files, PermFiles, CommandFiles
<1>5. ASSUME NEW y \in Files(c)
      PROVE  \/ Names(w, y) = Names(c, y)
             \/ /\ y.type = x.type /\ x.type \in {"group", "command", "commandgroup"}
                /\ Names(w, y) = names
  <2>1. CASE y.type = "user"
    BY <2>1 DEF Names
  <2>2. CASE y.type = "group"
    BY <1>2, <1>3, <2>2 DEF Names
  <2>3. CASE y.type = "command"
    BY <1>2, <1>3, <2>3 DEF Names
  <2>4. CASE y.type = "commandgroup"
    BY <1>2, <1>3, <2>4 DEF Names
  <2> QED
    BY <2>1, <2>2, <2>3, <2>4, FileTypes DEF Files
<1> QED
  BY <1>2, <1>3, <1>4, <1>5 DEF w

LEMMA DirectoriesAreWellFormed ==
  ASSUME FilesInv, phase = "setup"
  PROVE  WellFormed(Directories)
<1>1. /\ WellFormed(files)
      /\ saving.type \in DOMAIN Class
      /\ object.names \in Seq(Range(object.names))
      /\ \A y \in Range(object.names) :
           \E l \in ToSet(Class[saving.type].lists) : y.type = l[2]
  BY DEF FilesInv
<1> DEFINE x == [type |-> saving.type, name |-> saving.name]
           w == With(files, x, object.names)
           d == [w EXCEPT !.invalid = IF Valid(saving.type, object) THEN {} ELSE {x},
                          !.unnamed = IF Named(object) THEN {} ELSE {x}]
<1>2. CASE Directories = files
  BY <1>1, <1>2
<1>3. CASE Directories = d
  <2>1. x.type = saving.type
    OBVIOUS
  <2> HIDE DEF x
  <2>2. /\ DOMAIN w = DOMAIN files
        /\ w.unreadable = files.unreadable
        /\ Files(w) = Files(files)
        /\ DOMAIN w.commandGroups = DOMAIN files.commandGroups
        /\ \A y \in Files(files) :
             \/ Names(w, y) = Names(files, y)
             \/ /\ y.type = x.type /\ x.type \in {"group", "command", "commandgroup"}
                /\ Names(w, y) = object.names
    BY <1>1, WithFacts
  <2>3. /\ DOMAIN files = {"users", "userGroups", "commands", "commandGroups", "invalid",
                           "unnamed", "unreadable"}
        /\ files.unreadable \subseteq Files(files)
    BY <1>1 DEF WellFormed
  <2> HIDE DEF w
  <2>4. /\ DOMAIN d = DOMAIN files
        /\ d.unreadable = w.unreadable
        /\ d.users = w.users /\ d.userGroups = w.userGroups
        /\ d.commands = w.commands /\ d.commandGroups = w.commandGroups
        /\ d.invalid = IF Valid(saving.type, object) THEN {} ELSE {x}
        /\ d.unnamed = IF Named(object) THEN {} ELSE {x}
    BY <2>2, <2>3
  <2> HIDE DEF d
  <2>5. Files(d) = Files(files) /\ \A y : Names(d, y) = Names(w, y)
    BY <2>2, <2>4 DEF Files, PermFiles, CommandFiles, Names
  <2>6. ASSUME x.type \in {"group", "command", "commandgroup"}
        PROVE  \A y \in Range(object.names) : y.type \in NamedIn[x.type]
    BY <1>1, <2>1, <2>6 DEF Class, NamedIn, ToSet
  <2>7. /\ "name" \in Class[saving.type].needs
        /\ saving.type = "commandgroup" => Class[saving.type].needs = {"name"}
    BY <1>1 DEF Class
  <2>8. /\ Valid(saving.type, object) => Named(object)
        /\ saving.type = "commandgroup" /\ Named(object) => Valid(saving.type, object)
    BY <2>7 DEF Valid, Named
  <2>9. d.unnamed \subseteq d.invalid
    BY <2>4, <2>8
  <2>10. \A y \in d.invalid : y.type = "commandgroup" => y \in d.unnamed
    BY <2>1, <2>4, <2>8
  <2>11. ASSUME NEW y \in Files(d)
         PROVE  /\ Names(d, y) \in Seq(Range(Names(d, y)))
                /\ \A z \in Range(Names(d, y)) : z.type \in NamedIn[y.type]
    <3>1. /\ Names(files, y) \in Seq(Range(Names(files, y)))
          /\ \A z \in Range(Names(files, y)) : z.type \in NamedIn[y.type]
      BY <1>1, <2>5 DEF WellFormed
    <3> QED
      BY <1>1, <2>2, <2>5, <2>6, <3>1
  <2>12. /\ IsFiniteSet(DOMAIN d.commandGroups)
         /\ Cardinality(DOMAIN d.commandGroups) <= MaxDepth
    BY <1>1, <2>2, <2>4 DEF WellFormed
  <2> QED
    BY <1>3, <2>2, <2>3, <2>4, <2>5, <2>9, <2>10, <2>11, <2>12 DEF WellFormed
<1> QED
  BY <1>2, <1>3 DEF Directories

(* Whatever tools write and load leave, the server finds files that are     *)
(* well-formed.                                                             *)
LEMMA FilesKept ==
  ASSUME FilesInv, [SetupNext]_setupVars
  PROVE  FilesInv'
<1>1. CASE Edit \/ UNCHANGED setupVars
  BY <1>1 DEF Edit, setupVars, vars, saveVars, FilesInv
<1>2. CASE SaveGroup
  <2>1. UNCHANGED <<files, phase, object>> /\ saving' = [saving EXCEPT !.names = users]
    BY <1>2 DEF SaveGroup, vars
  <2>2. DOMAIN saving = {"type", "name", "names"} =>
          saving'.type = saving.type /\ DOMAIN saving' = DOMAIN saving
    BY <2>1
  <2> QED
    BY <2>1, <2>2 DEF FilesInv
<1>3. CASE SaveAndLoad
  <2>1. CASE phase = "setup"
    BY <1>3, <2>1, SavingKeepsFiles
  <2>2. CASE phase # "setup"
    BY <1>3, <2>2 DEF SaveAndLoad, vars, FilesInv
  <2> QED
    BY <2>1, <2>2
<1>4. CASE StartServer
  <2>1. phase = "setup" /\ files' = Directories /\ phase' = "perms"
    BY <1>4 DEF StartServer
  <2> QED
    BY <2>1, DirectoriesAreWellFormed DEF FilesInv
<1>5. CASE Construct
  <2>1. Next /\ files' = files /\ phase' # "setup"
    <3>1. CASE phase' = phase
      BY <1>5, <3>1 DEF Construct, Next, ReadPerm, PermsRead, ReadCommand, ReadGroup,
        LoadLine, LoadNested, LoadMissing, LoadReturns, CommandsRead, PruneGroup,
        GroupsPruned, PruneCommand, CommandsPruned
    <3>2. CASE phase' # phase
      BY <1>5, <3>2 DEF Construct, Stopped, Next, ReadPerm, PermsRead, ReadCommand, ReadGroup,
        LoadLine, LoadNested, LoadMissing, LoadReturns, CommandsRead, PruneGroup,
        GroupsPruned, PruneCommand, CommandsPruned
    <3> QED
      BY <3>1, <3>2
  <2> QED
    BY <2>1 DEF FilesInv
<1> QED
  BY <1>1, <1>2, <1>3, <1>4, <1>5 DEF SetupNext

-----------------------------------------------------------------------------
(***************************************************************************)
(* What is inside a command group: Inside looks as deep as there are       *)
(* groups, which is as deep as they can be.                                *)
(***************************************************************************)
Below(c, known) == known \cup UNION {Range(Names(c, h)) : h \in known \cap CommandFiles(c)}

IsBelow(b, c, g) ==
  b = [n \in 0..Cardinality(DOMAIN c.commandGroups) |->
         IF n = 0 THEN Range(Names(c, g)) ELSE Below(c, b[n - 1])]

LEMMA InsideIs ==
  ASSUME NEW c, NEW g, Cardinality(DOMAIN c.commandGroups) \in Nat
  PROVE  \E b : /\ Inside(c, g) = b[Cardinality(DOMAIN c.commandGroups)]
                /\ b[0] = Range(Names(c, g))
                /\ \A n \in 1..Cardinality(DOMAIN c.commandGroups) :
                     b[n] = Below(c, b[n - 1])
<1> DEFINE m == Cardinality(DOMAIN c.commandGroups)
           first == Range(Names(c, g))
           T == SUBSET (first \cup UNION {Range(Names(c, h)) : h \in CommandFiles(c)})
           F == [p \in (1..m) \X T |-> Below(c, p[2])]
<1>1. m \in Nat /\ first \in T
  OBVIOUS
<1>2. F \in [(1..m) \X T -> T]
  <2>1. ASSUME NEW p \in (1..m) \X T PROVE Below(c, p[2]) \in T
    BY DEF Below
  <2> QED
    BY <2>1
<1>3. \A i \in 1..m, d \in T : F[<<i, d>>] = Below(c, d)
  OBVIOUS
<1> HIDE DEF F
<1>4. PICK b \in [0..m -> T] : Iterates(b, first, F, m)
  <2> HIDE DEF m, T, first
  <2> QED
    BY <1>1, <1>2, RecursionExists
<1>5. ASSUME NEW i \in 0..m
      PROVE  b[i] = IF i = 0 THEN first ELSE Below(c, b[i - 1])
  <2>1. i # 0 => i \in 1..m /\ i - 1 \in 0..m
    BY <1>1
  <2>2. i # 0 => b[i - 1] \in T
    BY <2>1, <1>4
  <2> QED
    BY <1>3, <1>4, <2>1, <2>2 DEF Iterates
<1>6. IsBelow(b, c, g)
  BY <1>4, <1>5 DEF IsBelow
<1> DEFINE f == CHOOSE f : IsBelow(f, c, g)
<1>7. IsBelow(f, c, g)
  BY <1>6
<1>8. Inside(c, g) = f[m]
  BY DEF Inside, IsBelow, Below
<1> HIDE DEF f
<1>9. \A i \in 0..m : f[i] = IF i = 0 THEN first ELSE Below(c, f[i - 1])
  <2> DEFINE h == [i \in 0..m |-> IF i = 0 THEN first ELSE Below(c, f[i - 1])]
  <2>1. f = h
    BY <1>7 DEF IsBelow
  <2>2. \A i \in 0..m : h[i] = IF i = 0 THEN first ELSE Below(c, f[i - 1])
    OBVIOUS
  <2> HIDE DEF h
  <2>3. \A i \in 0..m : f[i] = h[i]
    BY <2>1
  <2> QED
    BY <2>2, <2>3
<1>10. 0 \in 0..m /\ \A i \in 1..m : i \in 0..m /\ i # 0
  BY <1>1
<1> QED
  BY <1>8, <1>9, <1>10

LEMMA GroupsAreFinite ==
  ASSUME NEW c, WellFormed(c)
  PROVE  /\ Cardinality(DOMAIN c.commandGroups) \in Nat
         /\ IsFiniteSet(GroupFiles(c))
         /\ Cardinality(GroupFiles(c)) <= Cardinality(DOMAIN c.commandGroups)
<1> DEFINE D == DOMAIN c.commandGroups
           f == [n \in D |-> CommandGroup(n)]
<1>1. IsFiniteSet(D)
  BY DEF WellFormed
<1>2. Cardinality(D) \in Nat
  BY <1>1, FS_CardinalityType
<1>3. f \in Surjection(D, GroupFiles(c))
  BY DEF Surjection, GroupFiles
<1> HIDE DEF f, D
<1>4. IsFiniteSet(GroupFiles(c)) /\ Cardinality(GroupFiles(c)) <= Cardinality(D)
  BY <1>1, <1>3, FS_Surjection
<1> QED
  BY <1>2, <1>4 DEF D

(* Inside is contained in every set that has what its group names, and what *)
(* those it has name.                                                       *)
LEMMA InsideLeast ==
  ASSUME NEW c, WellFormed(c), NEW g, NEW S, Range(Names(c, g)) \subseteq S,
         \A h \in S \cap CommandFiles(c) : Range(Names(c, h)) \subseteq S
  PROVE  Inside(c, g) \subseteq S
<1> DEFINE m == Cardinality(DOMAIN c.commandGroups)
<1>1. m \in Nat
  BY GroupsAreFinite
<1>2. PICK b : /\ Inside(c, g) = b[m] /\ b[0] = Range(Names(c, g))
               /\ \A n \in 1..m : b[n] = Below(c, b[n - 1])
  BY <1>1, InsideIs
<1> HIDE DEF m
<1> DEFINE G == {n \in Nat : n <= m => b[n] \subseteq S}
<1>3. 0 \in G
  BY <1>2
<1>4. ASSUME NEW n \in Nat, n \in G
      PROVE  n + 1 \in G
  <2> SUFFICES ASSUME n + 1 <= m PROVE b[n + 1] \subseteq S
    OBVIOUS
  <2>1. b[n] \subseteq S /\ n + 1 \in 1..m /\ n + 1 - 1 = n
    BY <1>1, <1>4
  <2>2. b[n + 1] = Below(c, b[n])
    BY <1>2, <2>1
  <2> QED
    BY <2>1, <2>2 DEF Below
<1>5. m \in G
  BY <1>1, <1>3, <1>4, NaturalInduction
<1> QED
  BY <1>1, <1>2, <1>5

(* A command group has what it names inside, ...                            *)
LEMMA InsideNames ==
  ASSUME NEW c, WellFormed(c), NEW g
  PROVE  Range(Names(c, g)) \subseteq Inside(c, g)
<1> DEFINE m == Cardinality(DOMAIN c.commandGroups)
           first == Range(Names(c, g))
<1>1. m \in Nat
  BY GroupsAreFinite
<1>2. PICK b : /\ Inside(c, g) = b[m] /\ b[0] = first
               /\ \A n \in 1..m : b[n] = Below(c, b[n - 1])
  BY <1>1, InsideIs
<1> HIDE DEF m, first
<1> DEFINE G == {n \in Nat : n <= m => first \subseteq b[n]}
<1>3. 0 \in G
  BY <1>2
<1>4. ASSUME NEW n \in Nat, n \in G
      PROVE  n + 1 \in G
  <2> SUFFICES ASSUME n + 1 <= m PROVE first \subseteq b[n + 1]
    OBVIOUS
  <2>1. first \subseteq b[n] /\ n + 1 \in 1..m /\ n + 1 - 1 = n
    BY <1>1, <1>4
  <2>2. b[n + 1] = Below(c, b[n])
    BY <1>2, <2>1
  <2> QED
    BY <2>1, <2>2 DEF Below
<1>5. m \in G
  BY <1>1, <1>3, <1>4, NaturalInduction
<1> QED
  BY <1>1, <1>2, <1>5 DEF first

(* ... and what those inside name: looking one level deeper finds another   *)
(* group or nothing new, and there are only so many groups.                 *)
ClosedAt(c, known) ==
  \A h \in known \cap GroupFiles(c) :
    Range(Names(c, h)) \cap CommandFiles(c) \subseteq known

LEMMA OneDeeper ==
  ASSUME NEW c, WellFormed(c), NEW known
  PROVE  /\ known \subseteq Below(c, known)
         /\ ClosedAt(c, known) => ClosedAt(c, Below(c, known))
         /\ Below(c, known) \cap GroupFiles(c) \subseteq known
              => ClosedAt(c, Below(c, known))
<1>1. known \subseteq Below(c, known)
  BY DEF Below
<1>2. GroupFiles(c) \subseteq CommandFiles(c)
  BY FileTypes
<1>3. ASSUME ClosedAt(c, known)
      PROVE  Below(c, known) \cap GroupFiles(c) \subseteq known
  <2> SUFFICES ASSUME NEW x \in Below(c, known), x \in GroupFiles(c), x \notin known
               PROVE  FALSE
    OBVIOUS
  <2>1. PICK h \in known \cap CommandFiles(c) : x \in Range(Names(c, h))
    BY DEF Below
  <2>2. x.type = "commandgroup" /\ x \in CommandFiles(c)
    BY FileTypes
  <2>3. h \in Files(c) /\ h.type \in {"command", "commandgroup"}
    BY <2>1, FileTypes DEF Files
  <2>4. h.type = "commandgroup"
    BY <2>1, <2>2, <2>3, NamedFacts
  <2>5. h \in GroupFiles(c)
    BY <2>1, <2>4, FileTypes
  <2> QED
    BY <1>3, <2>1, <2>2, <2>5 DEF ClosedAt
<1>4. ASSUME Below(c, known) \cap GroupFiles(c) \subseteq known
      PROVE  ClosedAt(c, Below(c, known))
  <2> SUFFICES ASSUME NEW h \in Below(c, known) \cap GroupFiles(c)
               PROVE  Range(Names(c, h)) \subseteq Below(c, known)
    BY DEF ClosedAt
  <2>1. h \in known \cap CommandFiles(c)
    BY <1>2, <1>4
  <2> QED
    BY <2>1 DEF Below
<1> QED
  BY <1>1, <1>3, <1>4

LEMMA InsideClosed ==
  ASSUME NEW c, WellFormed(c), NEW g
  PROVE  ClosedAt(c, Inside(c, g))
<1> DEFINE m == Cardinality(DOMAIN c.commandGroups)
           K == GroupFiles(c)
<1>1. m \in Nat /\ IsFiniteSet(K) /\ Cardinality(K) <= m
  BY GroupsAreFinite
<1>2. PICK b : /\ Inside(c, g) = b[m] /\ b[0] = Range(Names(c, g))
               /\ \A n \in 1..m : b[n] = Below(c, b[n - 1])
  BY <1>1, InsideIs
<1> HIDE DEF m
<1> DEFINE Size(n) == Cardinality(b[n] \cap K)
           G == {n \in Nat : n <= m => ClosedAt(c, b[n]) \/ Size(n) >= n + 1}
<1>3. \A n : IsFiniteSet(b[n] \cap K) /\ Size(n) \in Nat /\ Size(n) <= Cardinality(K)
  <2> SUFFICES ASSUME NEW n
               PROVE  IsFiniteSet(b[n] \cap K) /\ Size(n) \in Nat /\ Size(n) <= Cardinality(K)
    OBVIOUS
  <2>1. b[n] \cap K \in SUBSET K
    OBVIOUS
  <2>2. IsFiniteSet(b[n] \cap K) /\ Size(n) <= Cardinality(K)
    BY <1>1, <2>1, FS_Subset
  <2> QED
    BY <2>2, FS_CardinalityType
<1>4. 0 \in G
  <2>1. CASE b[0] \cap K = {}
    BY <2>1 DEF ClosedAt
  <2>2. CASE b[0] \cap K # {}
    <3>1. Size(0) \in Nat /\ Size(0) # 0
      BY <1>3, <2>2, FS_EmptySet
    <3> HIDE DEF Size
    <3>2. Size(0) >= 0 + 1
      BY <3>1
    <3> QED
      BY <3>2
  <2> QED
    BY <2>1, <2>2
<1>5. ASSUME NEW n \in Nat, n \in G
      PROVE  n + 1 \in G
  <2> SUFFICES ASSUME n + 1 <= m PROVE ClosedAt(c, b[n + 1]) \/ Size(n + 1) >= n + 1 + 1
    OBVIOUS
  <2>1. n + 1 \in 1..m /\ n + 1 - 1 = n /\ n <= m
    BY <1>1
  <2>2. b[n + 1] = Below(c, b[n])
    BY <1>2, <2>1
  <2>3. b[n] \subseteq b[n + 1]
    BY <2>2, OneDeeper
  <2>4. CASE b[n + 1] \cap K \subseteq b[n] \/ ClosedAt(c, b[n])
    BY <2>2, <2>4, OneDeeper
  <2>5. CASE ~(b[n + 1] \cap K \subseteq b[n]) /\ ~ClosedAt(c, b[n])
    <3> DEFINE A == b[n] \cap K
               B == b[n + 1] \cap K
    <3>1. Size(n) >= n + 1
      BY <1>5, <2>1, <2>5
    <3>2. A \in SUBSET B /\ A # B
      BY <2>3, <2>5
    <3>3. IsFiniteSet(B) /\ Cardinality(A) = Size(n) /\ Cardinality(B) = Size(n + 1)
      BY <1>3
    <3> HIDE DEF A, B
    <3>4. Cardinality(A) <= Cardinality(B) /\ Cardinality(A) # Cardinality(B)
      BY <3>2, <3>3, FS_Subset
    <3>5. Size(n) \in Nat /\ Size(n + 1) \in Nat
      BY <1>3
    <3> HIDE DEF Size
    <3> QED
      BY <3>1, <3>3, <3>4, <3>5
  <2> QED
    BY <2>4, <2>5
<1>6. m \in G
  BY <1>1, <1>4, <1>5, NaturalInduction
<1>7. Cardinality(K) \in Nat /\ Size(m) \in Nat /\ Size(m) <= Cardinality(K)
  BY <1>1, <1>3, FS_CardinalityType
<1>8. ~(Size(m) >= m + 1)
  BY <1>1, <1>7
<1> QED
  BY <1>1, <1>2, <1>6, <1>8

LEMMA InsideTransitive ==
  ASSUME NEW c, WellFormed(c), NEW g, NEW h \in GroupFiles(c), h \in Inside(c, g)
  PROVE  Inside(c, h) \cap CommandFiles(c) \subseteq Inside(c, g)
<1> DEFINE U == UNION {Range(Names(c, y)) : y \in Files(c)}
           S == (Inside(c, g) \cap CommandFiles(c)) \cup (U \ CommandFiles(c))
<1>1. ASSUME NEW y \in CommandFiles(c), y \in Inside(c, g)
      PROVE  Range(Names(c, y)) \subseteq S
  <2>1. y \in Files(c) /\ Range(Names(c, y)) \subseteq U
    BY DEF Files
  <2>2. CASE y \in GroupFiles(c)
    <3>1. Range(Names(c, y)) \cap CommandFiles(c) \subseteq Inside(c, g)
      BY <1>1, <2>2, InsideClosed DEF ClosedAt
    <3> QED
      BY <2>1, <3>1
  <2>3. CASE y \notin GroupFiles(c)
    <3>1. y.type = "command"
      BY <1>1, <2>3, FileTypes
    <3>2. \A x \in Range(Names(c, y)) : x \notin CommandFiles(c)
      BY <2>1, <3>1, NamedFacts, FileTypes
    <3> QED
      BY <2>1, <3>2
  <2> QED
    BY <2>2, <2>3
<1>2. h \in CommandFiles(c)
  BY FileTypes
<1>3. Range(Names(c, h)) \subseteq S
  BY <1>1, <1>2
<1>4. \A y \in S \cap CommandFiles(c) : Range(Names(c, y)) \subseteq S
  BY <1>1
<1> HIDE DEF S
<1>5. Inside(c, h) \subseteq S
  BY <1>3, <1>4, InsideLeast
<1> QED
  BY <1>5 DEF S

-----------------------------------------------------------------------------
(***************************************************************************)
(* What is in the caches at any time.                                      *)
(***************************************************************************)
(* All in it is complete and was read; what a command names is there as well, and a      *)
(* command group comes after all that it names.                             *)
CacheFor(c) ==
  /\ c \in Seq(Files(files))
  /\ \A x \in Range(c) : Sound(x) /\ Readable(x)
  /\ \A x \in Range(c) \cap SingleCommands(files) : Range(Names(files, x)) \subseteq Range(c)
  /\ \A i \in 1..Len(c) : c[i] \in GroupFiles(files) =>
       \A y \in Range(Names(files, c[i])) : \E j \in 1..(i - 1) : c[j] = y

LEMMA CacheGrows ==
  ASSUME NEW c, NEW d, NEW N, CacheFor(c), Grown(c, d, Files(files), N),
         \A x \in N : Sound(x) /\ Readable(x) /\ x \notin GroupFiles(files),
         \A x \in N \cap SingleCommands(files) :
           x \in Range(c) \/ Range(Names(files, x)) \subseteq Range(d)
  PROVE  CacheFor(d)
<1>1. /\ c \in Seq(Files(files)) /\ d \in Seq(Files(files))
      /\ Len(c) \in Nat /\ Len(d) \in Nat /\ Len(c) <= Len(d)
      /\ \A i \in 1..Len(c) : d[i] = c[i]
      /\ \A i \in 1..Len(d) : i \in 1..Len(c) \/ d[i] \in N
  BY DEF CacheFor, Grown, Extends
<1>2. Range(c) \subseteq Range(d) /\ Range(d) \subseteq Range(c) \cup N
  BY <1>1, GrownRange
<1>3. /\ \A x \in Range(d) : Sound(x) /\ Readable(x)
      /\ \A x \in Range(d) \cap SingleCommands(files) : Range(Names(files, x)) \subseteq Range(d)
  BY <1>2 DEF CacheFor
<1>4. ASSUME NEW i \in 1..Len(d), d[i] \in GroupFiles(files),
             NEW y \in Range(Names(files, d[i]))
      PROVE  \E j \in 1..(i - 1) : d[j] = y
  <2>1. i \in 1..Len(c) /\ d[i] = c[i]
    BY <1>1, <1>4
  <2>2. PICK j \in 1..(i - 1) : c[j] = y
    BY <1>4, <2>1 DEF CacheFor
  <2>3. j \in 1..Len(c)
    BY <1>1, <2>1
  <2> QED
    BY <1>1, <2>2, <2>3
<1> QED
  BY <1>1, <1>3, <1>4 DEF CacheFor

LEMMA CacheGroup ==
  ASSUME NEW c, CacheFor(c), NEW g \in Files(files), Sound(g), Readable(g),
         Range(Names(files, g)) \subseteq Range(c)
  PROVE  CacheFor(Append(c, g))
<1>1. c \in Seq(Files(files)) /\ Len(c) \in Nat /\ DOMAIN c = 1..Len(c)
  BY DEF CacheFor
<1> DEFINE d == Append(c, g)
<1>2. /\ d \in Seq(Files(files)) /\ Len(d) = Len(c) + 1
      /\ \A i \in 1..Len(c) : d[i] = c[i]
      /\ d[Len(c) + 1] = g /\ Range(d) = Range(c) \cup {g}
  BY <1>1, AppendedFacts
<1> HIDE DEF d
<1>3. /\ \A x \in Range(d) : Sound(x) /\ Readable(x)
      /\ \A x \in Range(d) \cap SingleCommands(files) : Range(Names(files, x)) \subseteq Range(d)
  BY <1>2 DEF CacheFor
<1>4. ASSUME NEW i \in 1..Len(d), d[i] \in GroupFiles(files),
             NEW y \in Range(Names(files, d[i]))
      PROVE  \E j \in 1..(i - 1) : d[j] = y
  <2>1. CASE i \in 1..Len(c)
    <3>1. d[i] = c[i]
      BY <1>2, <2>1
    <3>2. PICK j \in 1..(i - 1) : c[j] = y
      BY <1>4, <2>1, <3>1 DEF CacheFor
    <3>3. j \in 1..Len(c)
      BY <1>1, <2>1
    <3> QED
      BY <1>2, <3>2, <3>3
  <2>2. CASE i = Len(c) + 1
    <3>1. y \in Range(c)
      BY <1>2, <1>4, <2>2
    <3>2. PICK j \in 1..Len(c) : c[j] = y
      BY <1>1, <3>1 DEF Range
    <3>3. j \in 1..(i - 1)
      BY <1>1, <2>2
    <3> QED
      BY <1>2, <3>2, <3>3
  <2> QED
    BY <1>1, <1>2, <2>1, <2>2
<1> QED
  BY <1>2, <1>3, <1>4 DEF CacheFor, d

(* A user, a group or a command is loaded with what it names.               *)
LEMMA LoadOne ==
  ASSUME WellFormed(files), NEW c, CacheFor(c), NEW x \in Files(files),
         x.type # "commandgroup", Loadable(x), HasName(x) \/ x \notin Range(c)
  PROVE  /\ CacheFor(Load(c, x))
         /\ IsInjective(c) => IsInjective(Load(c, x))
         /\ Range(c) \subseteq Range(Load(c, x)) /\ x \in Range(Load(c, x))
         /\ Range(Load(c, x)) \subseteq Range(c) \cup Stocked \cup {x}
<1>1. c \in Seq(Files(files)) /\ Stock(Stocked, Files(files))
  BY StockedIs DEF CacheFor
<1>2. Names(files, x) \in Seq(Stocked) /\ Sound(x) /\ Readable(x)
  BY LoadableFacts
<1> DEFINE N == Stocked \cup {x}
<1>3. /\ Grown(c, Load(c, x), Files(files), N) /\ x \in Range(Load(c, x))
      /\ x \in Range(c) \/ Range(Names(files, x)) \subseteq Range(Load(c, x))
  BY <1>1, <1>2, LoadFacts
<1>4. /\ \A y \in N : Sound(y) /\ Readable(y) /\ y \notin GroupFiles(files)
      /\ \A y \in N : y = x \/ y \notin SingleCommands(files)
  BY <1>2, FileTypes DEF Stocked, AllReadable
<1> HIDE DEF N
<1>5. CacheFor(Load(c, x))
  BY <1>3, <1>4, CacheGrows
<1>6. /\ Range(c) \subseteq Range(Load(c, x))
      /\ Range(Load(c, x)) \subseteq Range(c) \cup N
  BY <1>1, <1>3, GrownRange
<1>7. IsInjective(c) => IsInjective(Load(c, x))
  BY <1>3 DEF Grown
<1> QED
  BY <1>3, <1>5, <1>6, <1>7 DEF N

(* What is loaded has a name, but for the one object asked for.             *)
LEMMA StockedHaveNames ==
  ASSUME WellFormed(files)
  PROVE  \A p \in Stocked : HasName(p) /\ p \in PermFiles(files)
BY DEF Stocked, CanBeAdded, WellFormed, HasName

(* What is inside a command group that has been loaded has been loaded      *)
(* before it.  So it is not inside itself.                                  *)
LEMMA InsideBefore ==
  ASSUME WellFormed(files), NEW c, CacheFor(c), NEW i \in 1..Len(c),
         c[i] \in GroupFiles(files)
  PROVE  Inside(files, c[i]) \cap CommandFiles(files) \subseteq {c[j] : j \in 1..(i - 1)}
<1>1. c \in Seq(Files(files)) /\ Len(c) \in Nat
  BY DEF CacheFor
<1> DEFINE U == UNION {Range(Names(files, y)) : y \in Files(files)}
           B == {c[j] : j \in 1..(i - 1)}
           S == B \cup (U \ CommandFiles(files))
<1>2. ASSUME NEW k \in 1..i, c[k] \in GroupFiles(files)
      PROVE  Range(Names(files, c[k])) \subseteq B
  <2> SUFFICES ASSUME NEW y \in Range(Names(files, c[k])) PROVE y \in B
    OBVIOUS
  <2>1. k \in 1..Len(c)
    BY <1>1
  <2>2. PICK j \in 1..(k - 1) : c[j] = y
    BY <1>2, <2>1 DEF CacheFor
  <2>3. j \in 1..(i - 1)
    BY <1>1
  <2> QED
    BY <2>2, <2>3
<1>3. Range(Names(files, c[i])) \subseteq S
  <2>1. i \in 1..i
    BY <1>1
  <2> QED
    BY <1>2, <2>1
<1>4. ASSUME NEW h \in S \cap CommandFiles(files)
      PROVE  Range(Names(files, h)) \subseteq S
  <2>1. h \in Files(files) /\ Range(Names(files, h)) \subseteq U
    BY DEF Files
  <2>2. PICK j \in 1..(i - 1) : c[j] = h
    OBVIOUS
  <2>3. j \in 1..i
    BY <1>1
  <2>4. CASE h \in GroupFiles(files)
    BY <1>2, <2>2, <2>3, <2>4
  <2>5. CASE h \notin GroupFiles(files)
    <3>1. h.type = "command"
      BY <2>5, FileTypes
    <3>2. \A x \in Range(Names(files, h)) : x \notin CommandFiles(files)
      BY <2>1, <3>1, NamedFacts, FileTypes
    <3> QED
      BY <2>1, <3>2
  <2> QED
    BY <2>4, <2>5
<1> HIDE DEF S
<1>5. Inside(files, c[i]) \subseteq S
  BY <1>3, <1>4, InsideLeast
<1> QED
  BY <1>5 DEF S

LEMMA InsideLoaded ==
  ASSUME WellFormed(files), NEW c, CacheFor(c), NEW g \in Range(c), g \in GroupFiles(files)
  PROVE  /\ Inside(files, g) \cap CommandFiles(files) \subseteq Range(c)
         /\ IsInjective(c) => ~RecursiveHas(g, g)
<1>1. c \in Seq(Files(files)) /\ Len(c) \in Nat /\ DOMAIN c = 1..Len(c)
  BY DEF CacheFor
<1>2. PICK i \in 1..Len(c) : c[i] = g
  BY <1>1 DEF Range
<1>3. Inside(files, g) \cap CommandFiles(files) \subseteq {c[j] : j \in 1..(i - 1)}
  BY <1>2, InsideBefore
<1>4. \A j \in 1..(i - 1) : j \in 1..Len(c) /\ j # i
  BY <1>1
<1>5. ASSUME IsInjective(c), g \in Inside(files, g)
      PROVE  FALSE
  <2>1. g \in CommandFiles(files)
    BY FileTypes
  <2>2. PICK j \in 1..(i - 1) : c[j] = g
    BY <1>3, <1>5, <2>1
  <2> QED
    BY <1>1, <1>2, <1>4, <1>5, <2>2 DEF IsInjective
<1> QED
  BY <1>1, <1>3, <1>4, <1>5 DEF Range, RecursiveHas

-----------------------------------------------------------------------------
(***************************************************************************)
(* The calls of CommandGroup::load.                                        *)
(***************************************************************************)
Frames == [group : GroupFiles(files), line : Nat]
Underway(st) == IF st = <<>> THEN {} ELSE {st[1].group}

(* A name whose turn is over.                                               *)
Taken(c, y) == y \in Range(c) /\ CanBeAdded(y)

(* The group of a call is in the cache only if it has no name.  The call    *)
(* has taken all names before its line, but for the one it waits for.       *)
FrameFor(c, st, i) ==
  /\ st[i].line \in 1..(Len(Names(files, st[i].group)) + 1)
  /\ HasName(st[i].group) => st[i].group \notin Range(c)
  /\ Readable(st[i].group)
  /\ \A k \in 1..(st[i].line - 1) :
       \/ Taken(c, Names(files, st[i].group)[k])
       \/ i < Len(st) /\ k = st[i].line - 1
  /\ i < Len(st) =>
       st[i].line >= 2 /\ st[i + 1].group = Names(files, st[i].group)[st[i].line - 1]

StackFor(c, st) ==
  /\ st \in Seq(Frames)
  /\ \A i \in 1..Len(st) : FrameFor(c, st, i)

LEMMA FrameFacts ==
  ASSUME NEW st \in Seq(Frames), NEW i \in 1..Len(st)
  PROVE  /\ st[i] \in Frames /\ DOMAIN st[i] = {"group", "line"} /\ st[i].line \in Nat
         /\ st[i].group \in GroupFiles(files) /\ st[i].group \in Files(files)
         /\ st[i].group.type = "commandgroup"
<1>1. st[i] \in Frames
  OBVIOUS
<1>2. /\ DOMAIN st[i] = {"group", "line"} /\ st[i].line \in Nat
      /\ st[i].group \in GroupFiles(files)
  BY <1>1 DEF Frames
<1> QED
  BY <1>1, <1>2, FileTypes DEF Files

LEMMA StackGrows ==
  ASSUME NEW c, NEW d, StackFor(c, stack), Range(c) \subseteq Range(d),
         \A x \in Range(d) : x \in Range(c) \/ x \notin GroupFiles(files)
  PROVE  StackFor(d, stack)
<1>1. stack \in Seq(Frames)
  BY DEF StackFor
<1>2. ASSUME NEW i \in 1..Len(stack)
      PROVE  FrameFor(d, stack, i)
  <2>1. FrameFor(c, stack, i) /\ stack[i].group \in GroupFiles(files)
    BY <1>1, FrameFacts DEF StackFor
  <2> QED
    BY <2>1 DEF FrameFor, Taken
<1> QED
  BY <1>1, <1>2 DEF StackFor

LEMMA MovedFacts ==
  ASSUME stack \in Seq(Frames), stack # <<>>
  PROVE  /\ Len(stack) \in Nat \ {0} /\ Moved \in Seq(Frames) /\ Len(Moved) = Len(stack)
         /\ \A i \in 1..(Len(stack) - 1) : Moved[i] = stack[i]
         /\ Moved[Len(stack)].group = Top.group
         /\ Moved[Len(stack)].line = Top.line + 1
<1>1. Len(stack) \in Nat \ {0} /\ DOMAIN stack = 1..Len(stack)
  OBVIOUS
<1>2. /\ Top.group \in GroupFiles(files) /\ Top.line \in Nat
      /\ DOMAIN Top = {"group", "line"} /\ Top \in Frames
  <2>1. Len(stack) \in 1..Len(stack)
    BY <1>1
  <2> QED
    BY <2>1, FrameFacts DEF Top
<1> DEFINE t == [Top EXCEPT !.line = @ + 1]
<1>3. t \in Frames /\ t.group = Top.group /\ t.line = Top.line + 1
  BY <1>2 DEF Frames
<1>4. Moved = [stack EXCEPT ![Len(stack)] = t]
  BY <1>1 DEF Moved, Top
<1> HIDE DEF t
<1>5. /\ Moved \in Seq(Frames) /\ Len(Moved) = Len(stack)
      /\ \A i \in 1..(Len(stack) - 1) : Moved[i] = stack[i]
      /\ Moved[Len(stack)] = t
  <2> DEFINE n == Len(stack)
             f == [i \in 1..n |-> IF i = n THEN t ELSE stack[i]]
  <2>1. n \in 1..n /\ \A i \in 1..n : stack[i] \in Frames
    BY <1>1
  <2>2. Moved = f
    BY <1>1, <1>4
  <2>3. n \in Nat \ {0}
    BY <1>1
  <2> HIDE DEF n
  <2>4. f \in [1..n -> Frames]
    BY <1>3, <2>1
  <2>5. f \in Seq(Frames) /\ Len(f) = n
    BY <2>3, <2>4
  <2>6. f[n] = t /\ \A i \in 1..(n - 1) : f[i] = stack[i]
    BY <2>1, <2>3
  <2> QED
    BY <2>2, <2>5, <2>6 DEF n
<1> QED
  BY <1>1, <1>3, <1>5

LEMMA StackMoves ==
  ASSUME WellFormed(files), NEW c, StackFor(c, stack), stack # <<>>,
         Top.line <= Len(Contents), Taken(c, Line)
  PROVE  StackFor(c, Moved)
<1> DEFINE n == Len(stack)
           m == Moved
<1>1. /\ n \in Nat \ {0} /\ m \in Seq(Frames) /\ Len(m) = n
      /\ \A i \in 1..(n - 1) : m[i] = stack[i]
      /\ m[n].group = stack[n].group /\ m[n].line = stack[n].line + 1
  BY MovedFacts DEF StackFor, Top
<1> HIDE DEF n, m
<1>2. \A i \in 1..n : FrameFor(c, stack, i)
  BY DEF StackFor, n
<1>3. ASSUME NEW i \in 1..(n - 1)
      PROVE  FrameFor(c, m, i)
  <2>1. i \in 1..n /\ i < n /\ m[i] = stack[i] /\ (i + 1 = n \/ i + 1 \in 1..(n - 1))
    BY <1>1
  <2>2. m[i + 1].group = stack[i + 1].group
    BY <1>1, <2>1
  <2>3. FrameFor(c, stack, i)
    BY <1>2, <2>1
  <2> QED
    BY <1>1, <2>1, <2>2, <2>3 DEF FrameFor, n
<1>4. FrameFor(c, m, n)
  <2> DEFINE g == stack[n].group
             l == stack[n].line
             xs == Names(files, g)
  <2>1. /\ l \in 1..(Len(xs) + 1)
        /\ HasName(g) => g \notin Range(c)
        /\ Readable(g)
        /\ \A k \in 1..(l - 1) : Taken(c, xs[k])
    <3>1. FrameFor(c, stack, n) /\ ~(n < Len(stack))
      BY <1>1, <1>2 DEF n
    <3> QED
      BY <3>1 DEF FrameFor
  <2>2. Len(xs) \in Nat
    <3>1. g \in Files(files)
      BY <1>1, FrameFacts DEF StackFor, n
    <3> QED
      BY <3>1, NamedFacts
  <2>3. l <= Len(xs) /\ Taken(c, xs[l])
    BY DEF Top, Contents, Line, n
  <2>4. m[n].group = g /\ m[n].line = l + 1
    BY <1>1
  <2> HIDE DEF xs, g, l
  <2>5. l + 1 \in 1..(Len(xs) + 1) /\ l + 1 - 1 = l /\ \A k \in 1..l : k \in 1..(l - 1) \/ k = l
    BY <2>1, <2>2, <2>3
  <2> QED
    BY <1>1, <2>1, <2>3, <2>4, <2>5 DEF FrameFor, xs
<1>5. \A i \in 1..n : i \in 1..(n - 1) \/ i = n
  BY <1>1
<1> QED
  BY <1>1, <1>3, <1>4, <1>5 DEF StackFor, m

LEMMA StackCalls ==
  ASSUME WellFormed(files), NEW c, StackFor(c, stack), stack # <<>>,
         Top.line <= Len(Contents), Line \in GroupFiles(files), ~Found(c, Line), Readable(Line)
  PROVE  StackFor(c, Append(Moved, Call(Line)))
<1> DEFINE n == Len(stack)
           m == Moved
           a == Append(m, Call(Line))
<1>1. /\ n \in Nat \ {0} /\ m \in Seq(Frames) /\ Len(m) = n
      /\ \A i \in 1..(n - 1) : m[i] = stack[i]
      /\ m[n].group = stack[n].group /\ m[n].line = stack[n].line + 1
  BY MovedFacts DEF StackFor, Top
<1>2. \A i \in 1..n : FrameFor(c, stack, i)
  BY DEF StackFor
<1> HIDE DEF n, m
<1>3. Call(Line) \in Frames /\ Call(Line).group = Line /\ Call(Line).line = 1
  BY DEF Call, Frames
<1>4. /\ a \in Seq(Frames) /\ Len(a) = n + 1 /\ a[n + 1] = Call(Line)
      /\ \A i \in 1..n : a[i] = m[i]
  BY <1>1, <1>3, AppendedFacts
<1> HIDE DEF a
<1>5. ASSUME NEW i \in 1..(n - 1)
      PROVE  FrameFor(c, a, i)
  <2>1. i \in 1..n /\ i < n /\ i < n + 1 /\ a[i] = stack[i] /\ i + 1 \in 1..n
        /\ (i + 1 = n \/ i + 1 \in 1..(n - 1))
    BY <1>1, <1>4
  <2>2. a[i + 1].group = stack[i + 1].group
    BY <1>1, <1>4, <2>1
  <2>3. FrameFor(c, stack, i)
    BY <1>2, <2>1
  <2> QED
    BY <1>1, <1>4, <2>1, <2>2, <2>3 DEF FrameFor, n
<1> DEFINE g == stack[n].group
           l == stack[n].line
           xs == Names(files, g)
<1>6. Len(xs) \in Nat
  <2>1. g \in Files(files)
    BY <1>1, FrameFacts DEF StackFor, n
  <2> QED
    BY <2>1, NamedFacts
<1>7. l <= Len(xs) /\ Line = xs[l]
  BY DEF Top, Contents, Line, n
<1>8. /\ l \in 1..(Len(xs) + 1)
      /\ HasName(g) => g \notin Range(c)
      /\ Readable(g)
      /\ \A k \in 1..(l - 1) : Taken(c, xs[k])
  <2>1. FrameFor(c, stack, n) /\ ~(n < Len(stack))
    BY <1>1, <1>2 DEF n
  <2> QED
    BY <2>1 DEF FrameFor
<1>9. a[n].group = g /\ a[n].line = l + 1 /\ a[n + 1].group = Line
  BY <1>1, <1>3, <1>4
<1> HIDE DEF g, l, xs
<1>10. FrameFor(c, a, n)
  <2>1. /\ l + 1 \in 1..(Len(xs) + 1) /\ l + 1 - 1 = l /\ l + 1 >= 2
        /\ \A k \in 1..l : k \in 1..(l - 1) \/ k = l
    BY <1>6, <1>7, <1>8
  <2>2. n < n + 1
    BY <1>1
  <2> QED
    BY <1>4, <1>7, <1>8, <1>9, <2>1, <2>2 DEF FrameFor, xs
<1>11. FrameFor(c, a, n + 1)
  <2>1. Line \in Files(files) /\ (HasName(Line) => Line \notin Range(c))
    BY FileTypes DEF Files, Found, Contains, Range
  <2>2. Len(Names(files, Line)) \in Nat
    BY <2>1, NamedFacts
  <2>3. 1 \in 1..(Len(Names(files, Line)) + 1) /\ ~(n + 1 < n + 1) /\ 1..(1 - 1) = {}
    BY <1>1, <2>2
  <2> QED
    BY <1>3, <1>4, <2>1, <2>3 DEF FrameFor
<1>12. \A i \in 1..(n + 1) : i \in 1..(n - 1) \/ i = n \/ i = n + 1
  BY <1>1
<1> QED
  BY <1>4, <1>5, <1>10, <1>11, <1>12 DEF StackFor, a, m

LEMMA StackStarts ==
  ASSUME WellFormed(files), NEW c, NEW g \in GroupFiles(files), ~Found(c, g), Readable(g)
  PROVE  StackFor(c, <<Call(g)>>) /\ Underway(<<Call(g)>>) = {g}
<1> DEFINE a == <<Call(g)>>
<1>1. Call(g) \in Frames /\ Call(g).group = g /\ Call(g).line = 1
  BY DEF Call, Frames
<1>2. a \in Seq(Frames) /\ Len(a) = 1 /\ a[1] = Call(g) /\ a # <<>>
  BY <1>1
<1> HIDE DEF a
<1>3. g \in Files(files) /\ (HasName(g) => g \notin Range(c))
  BY FileTypes DEF Files, Found, Contains, Range
<1>4. Len(Names(files, g)) \in Nat
  BY <1>3, NamedFacts
<1>5. 1 \in 1..(Len(Names(files, g)) + 1) /\ ~(1 < 1) /\ 1..(1 - 1) = {}
  BY <1>4
<1>6. FrameFor(c, a, 1)
  BY <1>1, <1>2, <1>3, <1>5 DEF FrameFor
<1>7. \A i \in 1..1 : i = 1
  OBVIOUS
<1> QED
  BY <1>1, <1>2, <1>6, <1>7 DEF StackFor, Underway, a

(* What the call on top has done when it returns.                           *)
LEMMA TopHasTaken ==
  ASSUME WellFormed(files), NEW c, StackFor(c, stack), stack # <<>>,
         Top.line > Len(Contents)
  PROVE  /\ Top.group \in Files(files) /\ Top.group.type = "commandgroup"
         /\ HasName(Top.group) => Top.group \notin Range(c)
         /\ Readable(Top.group)
         /\ Top.line = Len(Contents) + 1 /\ Len(Contents) \in Nat
         /\ \A k \in 1..Len(Contents) : Taken(c, Contents[k])
         /\ Range(Contents) \subseteq Range(c) /\ Sound(Top.group)
<1> DEFINE n == Len(stack)
<1>1. stack \in Seq(Frames) /\ n \in 1..n
  BY DEF StackFor
<1>2. FrameFor(c, stack, n) /\ ~(n < Len(stack))
  BY <1>1 DEF StackFor
<1>3. Top.group \in Files(files) /\ Top.group.type = "commandgroup" /\ Top = stack[n]
  BY <1>1, FrameFacts DEF Top
<1> HIDE DEF n
<1>4. Contents \in Seq(Range(Contents))
  BY <1>3, NamedFacts DEF Contents
<1>5. Len(Contents) \in Nat /\ DOMAIN Contents = 1..Len(Contents)
  BY <1>4
<1>6. /\ Top.line \in 1..(Len(Contents) + 1)
      /\ HasName(Top.group) => Top.group \notin Range(c)
      /\ Readable(Top.group)
      /\ \A k \in 1..(Top.line - 1) : Taken(c, Contents[k])
  BY <1>2, <1>3 DEF FrameFor, Contents
<1>7. Top.line = Len(Contents) + 1 /\ Top.line - 1 = Len(Contents)
  BY <1>5, <1>6
<1>8. \A k \in 1..Len(Contents) : Taken(c, Contents[k])
  BY <1>6, <1>7
<1>9. Range(Contents) \subseteq Range(c) /\ \A y \in Range(Contents) : CanBeAdded(y)
  BY <1>5, <1>8 DEF Taken, Range
<1> QED
  BY <1>3, <1>5, <1>6, <1>7, <1>8, <1>9 DEF Sound, Contents

(* A group that can return is not being loaded by a call below: that call   *)
(* waits for one of the groups it names, and they all are in the cache.     *)
LEMMA TopIsNotBelow ==
  ASSUME WellFormed(files), NEW c, StackFor(c, stack), stack # <<>>,
         Top.line > Len(Contents), NEW i \in 1..(Len(stack) - 1)
  PROVE  stack[i].group # Top.group
<1> SUFFICES ASSUME stack[i].group = Top.group PROVE FALSE
  OBVIOUS
<1>1. stack \in Seq(Frames) /\ Len(stack) \in Nat
  BY DEF StackFor
<1>2. i \in 1..Len(stack) /\ i + 1 \in 1..Len(stack) /\ i < Len(stack)
  BY <1>1
<1>3. FrameFor(c, stack, i) /\ FrameFor(c, stack, i + 1)
  BY <1>2 DEF StackFor
<1> DEFINE l == stack[i].line - 1
<1>4. l \in 1..Len(Contents) /\ stack[i + 1].group = Contents[l]
  <2>1. /\ stack[i].line \in 1..(Len(Contents) + 1) /\ stack[i].line >= 2
        /\ stack[i + 1].group = Contents[l]
    BY <1>2, <1>3 DEF FrameFor, Contents
  <2>2. Len(Contents) \in Nat
    BY TopHasTaken
  <2> QED
    BY <2>1, <2>2
<1>5. Taken(c, Contents[l])
  BY <1>4, TopHasTaken
<1>6. stack[i + 1].group \in Range(c) /\ HasName(stack[i + 1].group)
  BY <1>4, <1>5 DEF Taken, CanBeAdded, HasName, WellFormed
<1> QED
  BY <1>3, <1>6 DEF FrameFor

LEMMA FrontFacts ==
  ASSUME NEW S, NEW s \in Seq(S), s # <<>>
  PROVE  /\ Len(s) \in Nat \ {0} /\ Front(s) \in Seq(S) /\ Len(Front(s)) = Len(s) - 1
         /\ \A i \in 1..(Len(s) - 1) : Front(s)[i] = s[i]
<1> DEFINE n == Len(s)
<1>1. n \in Nat \ {0} /\ \A i \in 1..n : s[i] \in S
  OBVIOUS
<1>2. Front(s) = SubSeq(s, 1, n - 1)
  BY DEF Front
<1> DEFINE f == [i \in 1..(n - 1) |-> s[i]]
<1>3. SubSeq(s, 1, n - 1) = f
  BY <1>1
<1> HIDE DEF n
<1>4. n - 1 \in Nat /\ \A i \in 1..(n - 1) : i \in 1..n
  BY <1>1
<1>5. f \in [1..(n - 1) -> S]
  BY <1>1, <1>4
<1>6. f \in Seq(S) /\ Len(f) = n - 1
  BY <1>4, <1>5
<1> QED
  BY <1>1, <1>2, <1>3, <1>6 DEF n

(* The call below has got what it waited for.                               *)
LEMMA StackReturns ==
  ASSUME WellFormed(files), NEW c, CacheFor(c), StackFor(c, stack), Len(stack) > 1,
         Top.line > Len(Contents), CanBeAdded(Top.group)
  PROVE  StackFor(Append(c, Top.group), Front(stack))
<1> DEFINE n == Len(stack)
           f == Front(stack)
           d == Append(c, Top.group)
<1>1. stack \in Seq(Frames) /\ stack # <<>> /\ n \in Nat /\ n > 1
  BY DEF StackFor
<1>2. f \in Seq(Frames) /\ Len(f) = n - 1 /\ \A i \in 1..(n - 1) : f[i] = stack[i]
  BY <1>1, FrontFacts
<1>3. Range(d) = Range(c) \cup {Top.group}
  <2>1. c \in Seq(Files(files)) /\ Top.group \in Files(files)
    BY <1>1, TopHasTaken DEF CacheFor
  <2> QED
    BY <2>1, AppendedFacts
<1> HIDE DEF d, f
<1>4. (\A y : Taken(c, y) => Taken(d, y)) /\ Taken(d, Top.group)
  BY <1>3 DEF Taken
<1>5. ASSUME NEW i \in 1..(n - 1)
      PROVE  FrameFor(d, f, i)
  <2>1. /\ i \in 1..n /\ i < n /\ f[i] = stack[i]
        /\ i < n - 1 => i + 1 \in 1..(n - 1) /\ f[i + 1] = stack[i + 1]
        /\ ~(i < n - 1) => stack[i + 1] = Top
    BY <1>1, <1>2 DEF Top
  <2>2. FrameFor(c, stack, i)
    BY <2>1 DEF StackFor
  <2> DEFINE g == stack[i].group
             l == stack[i].line
             xs == Names(files, g)
  <2>3. /\ l \in 1..(Len(xs) + 1)
        /\ HasName(g) => g \notin Range(c)
        /\ Readable(g)
        /\ \A k \in 1..(l - 1) : Taken(c, xs[k]) \/ k = l - 1
        /\ l >= 2 /\ stack[i + 1].group = xs[l - 1]
    BY <2>1, <2>2 DEF FrameFor
  <2>4. g # Top.group
    BY <1>1, TopIsNotBelow
  <2> HIDE DEF g, l, xs
  <2>5. HasName(g) => g \notin Range(d)
    BY <1>3, <2>3, <2>4
  <2>6. ASSUME NEW k \in 1..(l - 1)
        PROVE  Taken(d, xs[k]) \/ (i < n - 1 /\ k = l - 1)
    <3>1. CASE Taken(c, xs[k])
      BY <1>4, <3>1
    <3>2. CASE k = l - 1 /\ ~(i < n - 1)
      <4>1. xs[k] = Top.group
        BY <2>1, <2>3, <3>2
      <4> QED
        BY <1>4, <4>1
    <3> QED
      BY <2>3, <3>1, <3>2
  <2> QED
    BY <1>2, <2>1, <2>3, <2>5, <2>6 DEF FrameFor, g, l, xs
<1> QED
  BY <1>2, <1>5 DEF StackFor, f, d

(* The calls below a call are for groups that have its group inside.        *)
LEMMA StackDown ==
  ASSUME WellFormed(files), NEW c, NEW st, StackFor(c, st)
  PROVE  \A j \in 1..Len(st) : \A i \in 1..(j - 1) :
           st[j].group \in Inside(files, st[i].group)
<1> DEFINE n == Len(st)
           g(i) == st[i].group
           G == {j \in Nat : j + 1 <= n => \A i \in 1..j : g(j + 1) \in Inside(files, g(i))}
<1>1. st \in Seq(Frames) /\ n \in Nat
  BY DEF StackFor
<1>2. \A i \in 1..n :
        g(i) \in GroupFiles(files) /\ g(i) \in CommandFiles(files) /\ g(i) \in Files(files)
  BY <1>1, FrameFacts, FileTypes
<1>3. ASSUME NEW i \in 1..(n - 1)
      PROVE  g(i + 1) \in Inside(files, g(i))
  <2>1. i \in 1..n /\ i < n
    BY <1>1
  <2> DEFINE xs == Names(files, g(i))
             l == st[i].line
  <2>2. l \in 1..(Len(xs) + 1) /\ l >= 2 /\ g(i + 1) = xs[l - 1]
    BY <2>1 DEF StackFor, FrameFor
  <2>3. xs \in Seq(Range(xs))
    BY <1>2, <2>1, NamedFacts
  <2> HIDE DEF xs, l, g
  <2>4. Len(xs) \in Nat /\ DOMAIN xs = 1..Len(xs)
    BY <2>3
  <2>5. l - 1 \in DOMAIN xs
    BY <2>2, <2>4
  <2>6. g(i + 1) \in Range(xs)
    BY <2>2, <2>5 DEF Range
  <2> QED
    BY <2>6, InsideNames DEF xs
<1> HIDE DEF n, g
<1>4. 0 \in G
  OBVIOUS
<1>5. ASSUME NEW j \in Nat, j \in G
      PROVE  j + 1 \in G
  <2> SUFFICES ASSUME j + 1 + 1 <= n, NEW i \in 1..(j + 1)
               PROVE  g(j + 1 + 1) \in Inside(files, g(i))
    OBVIOUS
  <2>1. j + 1 \in 1..(n - 1) /\ j + 1 \in 1..n /\ j + 1 + 1 \in 1..n /\ j + 1 <= n
    BY <1>1
  <2>2. g(j + 1 + 1) \in Inside(files, g(j + 1))
    BY <1>3, <2>1
  <2>3. CASE i = j + 1
    BY <2>2, <2>3
  <2>4. CASE i \in 1..j
    <3>1. g(j + 1) \in Inside(files, g(i))
      BY <1>5, <2>1, <2>4
    <3>2. g(j + 1) \in GroupFiles(files) /\ g(j + 1 + 1) \in CommandFiles(files)
      BY <1>2, <2>1
    <3>3. Inside(files, g(j + 1)) \cap CommandFiles(files) \subseteq Inside(files, g(i))
      BY <3>1, <3>2, InsideTransitive
    <3> QED
      BY <2>2, <3>2, <3>3
  <2> QED
    BY <2>3, <2>4
<1>6. Nat \subseteq G
  BY <1>4, <1>5, NaturalInduction
<1>7. ASSUME NEW j \in 1..n, NEW i \in 1..(j - 1)
      PROVE  g(j) \in Inside(files, g(i))
  <2>1. j - 1 \in Nat /\ (j - 1) + 1 = j /\ j <= n
    BY <1>1
  <2>2. j - 1 \in G
    BY <1>6, <2>1
  <2> QED
    BY <2>1, <2>2
<1> QED
  BY <1>7 DEF n, g

(* So there are only as many calls as groups, or a group is inside itself.  *)
LEMMA TooDeep ==
  ASSUME WellFormed(files), NEW c, NEW st, StackFor(c, st), Len(st) > MaxDepth
  PROVE  Cyclic
<1> DEFINE n == Len(st)
           K == GroupFiles(files)
           f == [i \in 1..n |-> st[i].group]
<1>1. st \in Seq(Frames) /\ n \in Nat
  BY DEF StackFor
<1>2. f \in [1..n -> K]
  BY <1>1, FrameFacts
<1>3. IsFiniteSet(1..n) /\ Cardinality(1..n) = n
  <2>1. 1 \in Int /\ n \in Int /\ n - 1 + 1 = n
    BY <1>1
  <2>2. IsFiniteSet(1..n) /\ Cardinality(1..n) = IF 1 > n THEN 0 ELSE n - 1 + 1
    BY <2>1, FS_Interval
  <2> QED
    BY <1>1, <2>1, <2>2
<1>4. IsFiniteSet(K) /\ Cardinality(K) < n
  <2>1. IsFiniteSet(K) /\ Cardinality(K) <= Cardinality(DOMAIN files.commandGroups)
    BY GroupsAreFinite
  <2>2. /\ Cardinality(DOMAIN files.commandGroups) \in Nat
        /\ Cardinality(DOMAIN files.commandGroups) <= MaxDepth
    BY GroupsAreFinite DEF WellFormed
  <2>3. Cardinality(K) \in Nat /\ MaxDepth \in Nat
    BY <2>1, FS_CardinalityType, StartupAssumption
  <2> HIDE DEF K
  <2> QED
    BY <1>1, <2>1, <2>2, <2>3
<1> HIDE DEF f, n, K
<1>5. PICK x, y \in 1..n : x # y /\ f[x] = f[y]
  BY <1>2, <1>3, <1>4, FS_PigeonHole
<1>6. ASSUME NEW j \in 1..n, NEW i \in 1..(j - 1), f[i] = f[j]
      PROVE  Cyclic
  <2>1. i \in 1..n
    BY <1>1
  <2>2. st[j].group \in Inside(files, st[i].group)
    BY StackDown DEF n
  <2>3. st[i].group = st[j].group
    BY <1>6, <2>1 DEF f
  <2>4. st[j].group \in CommandFiles(files) /\ st[j].group.type = "commandgroup"
    BY <1>1, FrameFacts, FileTypes DEF n
  <2> QED
    BY <2>2, <2>3, <2>4 DEF Cyclic, RecursiveHas
<1>7. x \in 1..(y - 1) \/ y \in 1..(x - 1)
  BY <1>1, <1>5
<1> QED
  BY <1>5, <1>6, <1>7

-----------------------------------------------------------------------------
(***************************************************************************)
(* The state of the loading, of which the parts that change are named.     *)
(***************************************************************************)
(* What has been loaded has been loaded once, unless it has no name and     *)
(* comes no more.                                                           *)
OnceFor(ph, un, c, st) ==
  /\ ph # "failed" => IsInjective(c)
  /\ ph \in {"perms", "commands"} =>
       \A x \in Range(c) : HasName(x) \/ x \notin un \cup Underway(st)

(* The directory of permissions comes first, ...                            *)
PermsFor(ph, un, gs, c, st) ==
  /\ ph \in {"setup", "perms"} =>
       st = <<>> /\ gs = <<>> /\ Range(c) \subseteq PermFiles(files)
  /\ ph = "perms" => un \subseteq PermFiles(files)

(* ... then every command and command group is still to come, is being      *)
(* loaded or has been.                                                      *)
CommandsFor(ph, un, c, st) ==
  /\ ph = "commands" =>
       /\ un \subseteq CommandFiles(files) /\ StackFor(c, st)
       /\ Underway(st) \cap un = {}
       /\ CommandFiles(files) \subseteq un \cup Underway(st) \cup Range(c)
  /\ ph \in {"prune groups", "prune commands", "ready"} =>
       CommandFiles(files) \subseteq Range(c)

(* What is at the top level has been loaded.                                *)
GroupsFor(gs, c) ==
  gs \in Seq(GroupFiles(files)) /\ Range(gs) \subseteq Range(c)

HaltedFor(ph) ==
  /\ ph = "failed" => Dangling
  /\ ph = "crashed" => Cyclic
  /\ ph = "looping" => Cyclic \/ files.unreadable # {}

LoadFor(ph, un, ps, gs, c, st) ==
  /\ CacheFor(c)
  /\ OnceFor(ph, un, c, st)
  /\ PermsFor(ph, un, gs, c, st)
  /\ CommandsFor(ph, un, c, st)
  /\ GroupsFor(gs, c)
  /\ Range(ps) \subseteq Range(c)
  /\ HaltedFor(ph)

LoadInv ==
  /\ LoadFor(phase, unread, perms, groups, cache, stack)
  /\ phase = "setup" => cache = <<>> /\ perms = <<>>
  /\ at \in Nat \ {0}

(* What it says of the next state while the files are the same.             *)
LEMMA LoadNext ==
  ASSUME files' = files, phase' # "setup", at' \in Nat \ {0},
         LoadFor(phase', unread', perms', groups', cache', stack')
  PROVE  LoadInv'
<1>1. /\ \A x : HasName(x)' <=> HasName(x)
      /\ \A x : CanBeAdded(x)' <=> CanBeAdded(x)
      /\ \A x : Sound(x)' <=> Sound(x)
      /\ \A x : Readable(x)' <=> Readable(x)
  BY DEF HasName, CanBeAdded, Exists, Sound, Readable
<1>2. (Dangling' <=> Dangling) /\ (Cyclic' <=> Cyclic)
  BY DEF Dangling, Incomplete, References, CanBeAdded, Exists, Cyclic, RecursiveHas
<1>3. CacheFor(cache') => CacheFor(cache)'
  BY <1>1 DEF CacheFor, GroupFiles, SingleCommands
<1>4. OnceFor(phase', unread', cache', stack') => OnceFor(phase, unread, cache, stack)'
  BY <1>1 DEF OnceFor
<1>5. PermsFor(phase', unread', groups', cache', stack')
        => PermsFor(phase, unread, groups, cache, stack)'
  BY DEF PermsFor
<1>6. StackFor(cache', stack') => StackFor(cache, stack)'
  BY <1>1 DEF StackFor, FrameFor, Frames, Taken
<1>7. CommandsFor(phase', unread', cache', stack') => CommandsFor(phase, unread, cache, stack)'
  BY <1>6 DEF CommandsFor
<1>8. HaltedFor(phase') => HaltedFor(phase)'
  BY <1>2 DEF HaltedFor
<1>9. GroupsFor(groups', cache') => GroupsFor(groups, cache)'
  BY DEF GroupsFor, GroupFiles
<1> QED
  BY <1>3, <1>4, <1>5, <1>7, <1>8, <1>9 DEF LoadInv, LoadFor

LEMMA EmptyCache ==
  /\ <<>> \in Seq(Files(files)) /\ Range(<<>>) = {} /\ IsInjective(<<>>) /\ CacheFor(<<>>)
  /\ GroupsFor(<<>>, <<>>)
BY DEF Range, IsInjective, CacheFor, GroupsFor

LEMMA LoadInitially == SetupInit => LoadInv
<1> SUFFICES ASSUME SetupInit PROVE LoadInv
  OBVIOUS
<1>1. /\ phase = "setup" /\ perms = <<>> /\ groups = <<>> /\ cache = <<>> /\ stack = <<>>
      /\ at = 1
  BY DEF SetupInit, NothingLoaded
<1> QED
  BY <1>1, EmptyCache DEF LoadInv, LoadFor, OnceFor, PermsFor, CommandsFor, HaltedFor

LEMMA StartServerLoad ==
  ASSUME LoadInv, StartServer
  PROVE  LoadInv'
<1>1. /\ phase = "setup" /\ phase' = "perms" /\ unread' = PermFiles(files')
      /\ perms' = <<>> /\ groups' = <<>> /\ cache' = <<>> /\ stack' = <<>>
      /\ at' \in Nat \ {0}
  BY DEF StartServer, LoadInv, LoadFor, PermsFor
<1>2. Range(<<>>) = {} /\ IsInjective(<<>>) /\ <<>> \in Seq(Files(files'))
  BY DEF Range, IsInjective
<1>3. CacheFor(cache)' /\ GroupsFor(groups, cache)'
  BY <1>1, <1>2 DEF CacheFor, GroupsFor
<1> QED
  BY <1>1, <1>2, <1>3 DEF LoadInv, LoadFor, OnceFor, PermsFor, CommandsFor, HaltedFor

LEMMA ReadPermLoad ==
  ASSUME FilesInv, LoadInv, PermsInv, NEW e \in unread, ReadPerm(e)
  PROVE  LoadFor(phase', unread', perms', groups', cache', stack')
<1>1. /\ WellFormed(files) /\ phase = "perms" /\ unread' = unread \ {e}
      /\ CacheFor(cache) /\ IsInjective(cache)
      /\ \A x \in Range(cache) : HasName(x) \/ x \notin unread
      /\ stack = <<>> /\ groups = <<>> /\ Range(cache) \subseteq PermFiles(files)
      /\ unread \subseteq PermFiles(files)
      /\ GroupsFor(groups, cache)
      /\ Range(perms) \subseteq Range(cache) /\ perms \in Seq(PermFiles(files))
      /\ stack' = stack /\ groups' = groups
  BY DEF FilesInv, LoadInv, LoadFor, OnceFor, PermsFor, PermsInv, ReadPerm
<1>2. e \in PermFiles(files) /\ e \in Files(files) /\ e.type # "commandgroup"
  BY <1>1, FileTypes DEF Files
<1>3. Underway(stack') = {}
  BY <1>1 DEF Underway
<1>4. CASE Skipped(e) /\ UNCHANGED <<phase, perms, cache>>
  BY <1>1, <1>3, <1>4 DEF LoadFor, OnceFor, PermsFor, CommandsFor, HaltedFor
<1>5. CASE Loadable(e) /\ perms' = Append(perms, e) /\ cache' = Load(cache, e) /\ UNCHANGED phase
  <2>1. HasName(e) \/ e \notin Range(cache)
    BY <1>1
  <2>2. /\ CacheFor(cache') /\ IsInjective(cache')
        /\ Range(cache) \subseteq Range(cache') /\ e \in Range(cache')
        /\ Range(cache') \subseteq Range(cache) \cup Stocked \cup {e}
    BY <1>1, <1>2, <1>5, <2>1, LoadOne
  <2>3. \A x \in Range(cache') : HasName(x) \/ x \notin unread'
    BY <1>1, <2>2, StockedHaveNames
  <2>4. Range(cache') \subseteq PermFiles(files)
    BY <1>1, <1>2, <2>2, StockedHaveNames
  <2>5. Range(perms') = Range(perms) \cup {e}
    BY <1>1, <1>2, <1>5, AppendedFacts
  <2>6. Range(perms') \subseteq Range(cache')
    BY <1>1, <2>2, <2>5
  <2>7. GroupsFor(groups', cache')
    BY <1>1, <2>2 DEF GroupsFor
  <2> QED
    BY <1>1, <1>3, <1>5, <2>2, <2>3, <2>4, <2>6, <2>7
    DEF LoadFor, OnceFor, PermsFor, CommandsFor, HaltedFor
<1>6. CASE ~Loadable(e) /\ phase' = Stopped(e) /\ UNCHANGED <<perms, cache>>
  <2>1. \/ phase' = "looping" /\ files.unreadable # {}
        \/ phase' = "failed" /\ Dangling
    BY <1>1, <1>2, <1>6, StoppedFacts
  <2> QED
    BY <1>1, <1>6, <2>1 DEF LoadFor, OnceFor, PermsFor, CommandsFor, HaltedFor
<1> QED
  BY <1>4, <1>5, <1>6 DEF ReadPerm

LEMMA PermsReadLoad ==
  ASSUME LoadInv, PermsRead
  PROVE  LoadFor(phase', unread', perms', groups', cache', stack')
<1>1. /\ phase = "perms" /\ phase' = "commands" /\ unread' = CommandFiles(files)
      /\ UNCHANGED <<perms, groups, cache, stack>>
      /\ CacheFor(cache) /\ IsInjective(cache)
      /\ stack = <<>> /\ Range(cache) \subseteq PermFiles(files)
      /\ GroupsFor(groups, cache)
      /\ Range(perms) \subseteq Range(cache)
  BY DEF LoadInv, LoadFor, OnceFor, PermsFor, PermsRead
<1>2. Underway(stack') = {} /\ \A c : StackFor(c, stack')
  BY <1>1 DEF Underway, StackFor
<1>3. \A x \in Range(cache) : x \notin CommandFiles(files)
  BY <1>1, FileTypes
<1> QED
  BY <1>1, <1>2, <1>3 DEF LoadFor, OnceFor, PermsFor, CommandsFor, HaltedFor

(* What is known while the directory of commands is being read.             *)
LEMMA WhileCommands ==
  ASSUME FilesInv, LoadInv, phase = "commands"
  PROVE  /\ WellFormed(files) /\ CacheFor(cache) /\ IsInjective(cache)
         /\ \A x \in Range(cache) : HasName(x) \/ x \notin unread \cup Underway(stack)
         /\ unread \subseteq CommandFiles(files) /\ StackFor(cache, stack)
         /\ Underway(stack) \cap unread = {}
         /\ CommandFiles(files) \subseteq unread \cup Underway(stack) \cup Range(cache)
         /\ GroupsFor(groups, cache)
         /\ Range(perms) \subseteq Range(cache)
BY DEF FilesInv, LoadInv, LoadFor, OnceFor, CommandsFor

LEMMA NoCalls ==
  \A c : StackFor(c, <<>>) /\ Underway(<<>>) = {}
BY DEF StackFor, Underway

LEMMA InSomeGroupLoaded ==
  ASSUME WellFormed(files), CacheFor(cache),
         GroupsFor(groups, cache),
         NEW x \in CommandFiles(files), InSomeGroup(x)
  PROVE  x \in Range(cache)
<1>1. PICK i \in DOMAIN groups : x \in Inside(files, groups[i])
  BY DEF InSomeGroup, RecursiveHas
<1>2. groups[i] \in Range(cache) /\ groups[i] \in GroupFiles(files)
  <2>1. groups \in Seq(GroupFiles(files)) /\ Range(groups) \subseteq Range(cache)
    BY DEF GroupsFor
  <2>2. groups[i] \in Range(groups)
    BY DEF Range
  <2>3. groups[i] \in GroupFiles(files)
    BY <2>1
  <2> QED
    BY <2>1, <2>2, <2>3
<1> QED
  BY <1>1, <1>2, InsideLoaded

LEMMA ReadCommandLoad ==
  ASSUME FilesInv, LoadInv, NEW e \in unread, ReadCommand(e)
  PROVE  LoadFor(phase', unread', perms', groups', cache', stack')
<1>1. /\ phase = "commands" /\ stack = <<>> /\ e.type = "command"
      /\ unread' = unread \ {e} /\ UNCHANGED <<perms, groups, stack>>
  BY DEF ReadCommand
<1>2. /\ WellFormed(files) /\ CacheFor(cache) /\ IsInjective(cache)
      /\ \A x \in Range(cache) : HasName(x) \/ x \notin unread
      /\ unread \subseteq CommandFiles(files)
      /\ CommandFiles(files) \subseteq unread \cup Range(cache)
      /\ GroupsFor(groups, cache)
      /\ Range(perms) \subseteq Range(cache)
  BY <1>1, WhileCommands, NoCalls
<1>3. e \in CommandFiles(files) /\ e \in Files(files) /\ e.type # "commandgroup"
  BY <1>1, <1>2 DEF Files
<1>4. Underway(stack') = {} /\ \A c : StackFor(c, stack')
  BY <1>1, NoCalls
<1>5. CASE InSomeGroup(e) /\ UNCHANGED <<phase, commands, cache>>
  <2>1. e \in Range(cache)
    BY <1>2, <1>3, <1>5, InSomeGroupLoaded
  <2> QED
    BY <1>1, <1>2, <1>4, <1>5, <2>1 DEF LoadFor, OnceFor, PermsFor, CommandsFor, HaltedFor
<1>6. CASE Loadable(e) /\ cache' = Load(cache, e) /\ UNCHANGED phase
  <2>1. HasName(e) \/ e \notin Range(cache)
    BY <1>2
  <2>2. /\ CacheFor(cache') /\ IsInjective(cache')
        /\ Range(cache) \subseteq Range(cache') /\ e \in Range(cache')
        /\ Range(cache') \subseteq Range(cache) \cup Stocked \cup {e}
    BY <1>2, <1>3, <1>6, <2>1, LoadOne
  <2>3. \A x \in Range(cache') : HasName(x) \/ x \notin unread'
    BY <1>1, <1>2, <2>2, StockedHaveNames
  <2> QED
    BY <1>1, <1>2, <1>4, <1>6, <2>2, <2>3
    DEF LoadFor, OnceFor, PermsFor, CommandsFor, GroupsFor, HaltedFor
<1>7. CASE ~Loadable(e) /\ phase' = Stopped(e) /\ UNCHANGED cache
  <2>1. \/ phase' = "looping" /\ files.unreadable # {}
        \/ phase' = "failed" /\ Dangling
    BY <1>2, <1>3, <1>7, StoppedFacts
  <2> QED
    BY <1>1, <1>2, <1>7, <2>1 DEF LoadFor, OnceFor, PermsFor, CommandsFor, HaltedFor
<1> QED
  BY <1>5, <1>6, <1>7 DEF ReadCommand

LEMMA ReadGroupLoad ==
  ASSUME FilesInv, LoadInv, NEW e \in unread, ReadGroup(e)
  PROVE  LoadFor(phase', unread', perms', groups', cache', stack')
<1>1. /\ phase = "commands" /\ stack = <<>> /\ e.type = "commandgroup"
      /\ unread' = unread \ {e} /\ UNCHANGED <<perms, cache>>
  BY DEF ReadGroup
<1>2. /\ WellFormed(files) /\ CacheFor(cache) /\ IsInjective(cache)
      /\ \A x \in Range(cache) : HasName(x) \/ x \notin unread
      /\ unread \subseteq CommandFiles(files)
      /\ CommandFiles(files) \subseteq unread \cup Range(cache)
      /\ GroupsFor(groups, cache)
      /\ Range(perms) \subseteq Range(cache)
  BY <1>1, WhileCommands, NoCalls
<1>3. e \in CommandFiles(files) /\ e \in GroupFiles(files)
  BY <1>1, <1>2, FileTypes
<1>4. e \in Range(cache) => GroupsFor(Append(groups, e), cache)
  <2>1. /\ Append(groups, e) \in Seq(GroupFiles(files))
        /\ Range(Append(groups, e)) = Range(groups) \cup {e}
    BY <1>2, <1>3, AppendedFacts DEF GroupsFor
  <2> QED
    BY <1>2, <2>1 DEF GroupsFor
<1>5. CASE InSomeGroup(e) /\ UNCHANGED <<phase, stack, groups>>
  <2>1. e \in Range(cache)
    BY <1>2, <1>3, <1>5, InSomeGroupLoaded
  <2> QED
    BY <1>1, <1>2, <1>5, <2>1, NoCalls
    DEF LoadFor, OnceFor, PermsFor, CommandsFor, HaltedFor
<1>6. CASE Found(cache, e) /\ UNCHANGED <<phase, stack>> /\ groups' = Append(groups, e)
  <2>1. e \in Range(cache)
    BY <1>6 DEF Found, Contains, Range
  <2> QED
    BY <1>1, <1>2, <1>4, <1>6, <2>1, NoCalls
    DEF LoadFor, OnceFor, PermsFor, CommandsFor, HaltedFor
<1>7. CASE ~Found(cache, e) /\ Readable(e) /\ stack' = <<Call(e)>> /\ UNCHANGED <<phase, groups>>
  <2>1. StackFor(cache', stack') /\ Underway(stack') = {e}
    BY <1>1, <1>2, <1>3, <1>7, StackStarts
  <2>2. \A x \in Range(cache) : HasName(x) \/ x \notin unread' \cup Underway(stack')
    BY <1>1, <1>2, <2>1
  <2> QED
    BY <1>1, <1>2, <1>7, <2>1, <2>2
    DEF LoadFor, OnceFor, PermsFor, CommandsFor, HaltedFor
<1>8. CASE ~Readable(e) /\ phase' = "looping" /\ UNCHANGED <<stack, groups>>
  <2>1. files.unreadable # {}
    BY <1>8 DEF Readable
  <2> QED
    BY <1>1, <1>2, <1>8, <2>1 DEF LoadFor, OnceFor, PermsFor, CommandsFor, HaltedFor
<1> QED
  BY <1>5, <1>6, <1>7, <1>8 DEF ReadGroup

LEMMA LineFacts ==
  ASSUME WellFormed(files), NEW c, StackFor(c, stack), stack # <<>>,
         Top.line <= Len(Contents)
  PROVE  /\ Top.group \in Files(files) /\ Line \in Range(Contents)
         /\ Line.type \in {"command", "commandgroup"}
<1> DEFINE n == Len(stack)
<1>1. stack \in Seq(Frames) /\ n \in 1..n
  BY DEF StackFor
<1>2. FrameFor(c, stack, n)
  BY <1>1 DEF StackFor
<1>3. Top.group \in Files(files) /\ Top.group.type = "commandgroup" /\ Top = stack[n]
  BY <1>1, FrameFacts DEF Top
<1> HIDE DEF n
<1>4. Contents \in Seq(Range(Contents))
  BY <1>3, NamedFacts DEF Contents
<1>5. Len(Contents) \in Nat /\ DOMAIN Contents = 1..Len(Contents)
  BY <1>4
<1>6. Top.line \in 1..(Len(Contents) + 1)
  BY <1>2, <1>3 DEF FrameFor, Contents
<1>7. Top.line \in DOMAIN Contents
  BY <1>5, <1>6
<1>8. Line \in Range(Contents)
  BY <1>7 DEF Line, Range
<1> QED
  BY <1>3, <1>8, NamedFacts DEF Contents

(* What a call does below the one that came first.                          *)
LEMMA UnderwayFacts ==
  ASSUME stack \in Seq(Frames), stack # <<>>
  PROVE  /\ Underway(Moved) = Underway(stack)
         /\ \A g : Underway(Append(Moved, Call(g))) = Underway(stack)
         /\ Len(stack) = 1 => /\ Underway(stack) = {Top.group} /\ Front(stack) = <<>>
         /\ Len(stack) # 1 => Underway(Front(stack)) = Underway(stack)
<1> DEFINE n == Len(stack)
<1>1. /\ n \in Nat \ {0} /\ Moved \in Seq(Frames) /\ Len(Moved) = n
      /\ \A i \in 1..(n - 1) : Moved[i] = stack[i]
      /\ Moved[n].group = stack[n].group
  BY MovedFacts DEF Top
<1>2. Front(stack) \in Seq(Frames) /\ Len(Front(stack)) = n - 1
      /\ \A i \in 1..(n - 1) : Front(stack)[i] = stack[i]
  BY FrontFacts
<1> HIDE DEF n
<1>3. Moved # <<>> /\ Moved[1].group = stack[1].group
  BY <1>1
<1>4. ASSUME NEW g
      PROVE  Append(Moved, Call(g)) # <<>> /\ Append(Moved, Call(g))[1] = Moved[1]
  BY <1>1
<1>5. CASE n = 1
  BY <1>1, <1>2, <1>3, <1>4, <1>5 DEF Underway, Top, n
<1>6. CASE n # 1
  <2>1. 1 \in 1..(n - 1) /\ Front(stack) # <<>>
    BY <1>1, <1>2, <1>6
  <2> QED
    BY <1>1, <1>2, <1>3, <1>4, <1>6, <2>1 DEF Underway, n
<1> QED
  BY <1>5, <1>6

LEMMA LoadLineLoad ==
  ASSUME FilesInv, LoadInv, LoadLine
  PROVE  LoadFor(phase', unread', perms', groups', cache', stack')
<1>1. /\ phase = "commands" /\ stack # <<>> /\ Top.line <= Len(Contents)
      /\ stack' = Moved /\ UNCHANGED <<phase, unread, perms, groups>>
  BY DEF LoadLine
<1>2. /\ WellFormed(files) /\ CacheFor(cache) /\ IsInjective(cache)
      /\ \A x \in Range(cache) : HasName(x) \/ x \notin unread \cup Underway(stack)
      /\ unread \subseteq CommandFiles(files) /\ StackFor(cache, stack)
      /\ Underway(stack) \cap unread = {}
      /\ CommandFiles(files) \subseteq unread \cup Underway(stack) \cup Range(cache)
      /\ GroupsFor(groups, cache) /\ Range(perms) \subseteq Range(cache)
  BY <1>1, WhileCommands
<1>3. Underway(stack') = Underway(stack)
  BY <1>1, <1>2, UnderwayFacts DEF StackFor
<1>4. CASE Line.type = "command" /\ Loadable(Line) /\ CanBeAdded(Line) /\ cache' = Load(cache, Line)
  <2>1. Line \in Files(files) /\ HasName(Line)
    BY <1>2, <1>4 DEF CanBeAdded, Exists, HasName, WellFormed
  <2>2. /\ CacheFor(cache') /\ IsInjective(cache')
        /\ Range(cache) \subseteq Range(cache') /\ Line \in Range(cache')
        /\ Range(cache') \subseteq Range(cache) \cup Stocked \cup {Line}
    BY <1>2, <1>4, <2>1, LoadOne
  <2>3. \A x \in Range(cache') : HasName(x) \/ x \notin unread \cup Underway(stack)
    BY <1>2, <2>1, <2>2, StockedHaveNames
  <2>4. \A x \in Range(cache') : x \in Range(cache) \/ x \notin GroupFiles(files)
    BY <1>2, <1>4, <2>2, StockedHaveNames, FileTypes
  <2>5. StackFor(cache', stack)
    BY <1>2, <2>2, <2>4, StackGrows
  <2>6. StackFor(cache', stack')
    BY <1>1, <1>2, <1>4, <2>2, <2>5, StackMoves DEF Taken
  <2>7. GroupsFor(groups', cache')
    BY <1>1, <1>2, <2>2 DEF GroupsFor
  <2> QED
    BY <1>1, <1>2, <1>3, <2>2, <2>3, <2>6, <2>7
    DEF LoadFor, OnceFor, PermsFor, CommandsFor, HaltedFor
<1>5. CASE Line.type = "commandgroup" /\ Found(cache, Line) /\ cache' = cache
  <2>1. Line \in Range(cache) /\ HasName(Line)
    BY <1>5 DEF Found, Contains, Range
  <2>2. Line \in Files(files)
    BY <1>2, <2>1 DEF CacheFor, Range
  <2>3. CanBeAdded(Line)
    BY <1>2, <1>5, <2>1, <2>2 DEF CanBeAdded, Exists, WellFormed, HasName
  <2>4. StackFor(cache', stack')
    BY <1>1, <1>2, <1>5, <2>1, <2>3, StackMoves DEF Taken
  <2> QED
    BY <1>1, <1>2, <1>3, <1>5, <2>4
    DEF LoadFor, OnceFor, PermsFor, CommandsFor, HaltedFor
<1> QED
  BY <1>4, <1>5 DEF LoadLine

LEMMA LoadNestedLoad ==
  ASSUME FilesInv, LoadInv, LoadNested
  PROVE  LoadFor(phase', unread', perms', groups', cache', stack')
<1>1. /\ phase = "commands" /\ stack # <<>> /\ Top.line <= Len(Contents)
      /\ Line.type = "commandgroup" /\ Exists(Line) /\ ~Found(cache, Line)
      /\ UNCHANGED <<unread, perms, groups, cache>>
  BY DEF LoadNested
<1>2. /\ WellFormed(files) /\ CacheFor(cache) /\ IsInjective(cache)
      /\ \A x \in Range(cache) : HasName(x) \/ x \notin unread \cup Underway(stack)
      /\ unread \subseteq CommandFiles(files) /\ StackFor(cache, stack)
      /\ Underway(stack) \cap unread = {}
      /\ CommandFiles(files) \subseteq unread \cup Underway(stack) \cup Range(cache)
      /\ GroupsFor(groups, cache) /\ Range(perms) \subseteq Range(cache)
  BY <1>1, WhileCommands
<1> DEFINE s == Append(Moved, Call(Line))
<1>3. Line \in GroupFiles(files)
  BY <1>1, FileTypes DEF Exists
<1>4. Readable(Line) => StackFor(cache, s) /\ Underway(s) = Underway(stack)
  <2> SUFFICES ASSUME Readable(Line) PROVE StackFor(cache, s) /\ Underway(s) = Underway(stack)
    OBVIOUS
  <2>1. StackFor(cache, s)
    BY <1>1, <1>2, <1>3, StackCalls
  <2> QED
    BY <1>1, <1>2, <2>1, UnderwayFacts DEF StackFor
<1>5. Len(s) = Len(stack) + 1 /\ Len(stack) \in Nat
  BY <1>1, <1>2, MovedFacts DEF StackFor
<1> HIDE DEF s
<1>6. CASE Readable(Line) /\ stack' = s /\ UNCHANGED phase
  BY <1>1, <1>2, <1>4, <1>6 DEF LoadFor, OnceFor, PermsFor, CommandsFor, HaltedFor
<1>7. CASE /\ Readable(Line) /\ ~(Len(stack) < MaxDepth)
           /\ phase' \in {"crashed", "looping"} /\ UNCHANGED stack
  <2>1. Len(s) > MaxDepth
    BY <1>5, <1>7, StartupAssumption
  <2>2. Cyclic
    BY <1>2, <1>4, <1>7, <2>1, TooDeep
  <2> QED
    BY <1>1, <1>2, <1>7, <2>2 DEF LoadFor, OnceFor, PermsFor, CommandsFor, HaltedFor
<1>8. CASE ~Readable(Line) /\ phase' = "looping" /\ UNCHANGED stack
  <2>1. files.unreadable # {}
    BY <1>8 DEF Readable
  <2> QED
    BY <1>1, <1>2, <1>8, <2>1 DEF LoadFor, OnceFor, PermsFor, CommandsFor, HaltedFor
<1> QED
  BY <1>6, <1>7, <1>8 DEF LoadNested, s

LEMMA LoadMissingLoad ==
  ASSUME FilesInv, LoadInv, LoadMissing
  PROVE  LoadFor(phase', unread', perms', groups', cache', stack')
<1>1. /\ phase = "commands" /\ stack # <<>> /\ Top.line <= Len(Contents)
      /\ phase' = IF Line.type = "command" THEN Stopped(Line) ELSE "failed"
      /\ UNCHANGED <<unread, perms, groups, cache, stack>>
  BY DEF LoadMissing
<1>2. /\ WellFormed(files) /\ CacheFor(cache) /\ StackFor(cache, stack)
      /\ IsInjective(cache)
      /\ GroupsFor(groups, cache) /\ Range(perms) \subseteq Range(cache)
  BY <1>1, WhileCommands
<1>3. Top.group \in Files(files) /\ Line \in Range(Names(files, Top.group))
  BY <1>1, <1>2, LineFacts DEF Contents
<1>4. \/ phase' = "looping" /\ files.unreadable # {}
      \/ phase' = "failed" /\ Dangling
  <2>1. CASE ~CanBeAdded(Line)
    <3>1. Dangling
      BY <1>3, <2>1, DanglingFacts
    <3>2. Hangs(Line) => files.unreadable # {}
      BY <1>2, HangsFacts DEF Hangs, Exists
    <3> QED
      BY <1>1, <3>1, <3>2 DEF Stopped
  <2>2. CASE CanBeAdded(Line)
    <3>1. Line.type = "command" /\ ~Loadable(Line) /\ Line \in Files(files)
      BY <2>2 DEF LoadMissing, CanBeAdded, Exists
    <3> QED
      BY <1>1, <1>2, <3>1, StoppedFacts
  <2> QED
    BY <2>1, <2>2
<1> QED
  BY <1>1, <1>2, <1>4 DEF LoadFor, OnceFor, PermsFor, CommandsFor, HaltedFor

LEMMA LoadReturnsLoad ==
  ASSUME FilesInv, LoadInv, LoadReturns
  PROVE  LoadFor(phase', unread', perms', groups', cache', stack')
<1> DEFINE g == Top.group
<1>1. /\ phase = "commands" /\ stack # <<>> /\ Top.line > Len(Contents)
      /\ cache' = Append(cache, g) /\ stack' = Front(stack)
      /\ groups' = IF Len(stack) = 1 THEN Append(groups, g) ELSE groups
      /\ phase' = IF Len(stack) > 1 /\ ~CanBeAdded(g) THEN "failed" ELSE phase
      /\ UNCHANGED <<unread, perms>>
  BY DEF LoadReturns
<1>2. /\ WellFormed(files) /\ CacheFor(cache) /\ IsInjective(cache)
      /\ \A x \in Range(cache) : HasName(x) \/ x \notin unread \cup Underway(stack)
      /\ unread \subseteq CommandFiles(files) /\ StackFor(cache, stack)
      /\ Underway(stack) \cap unread = {}
      /\ CommandFiles(files) \subseteq unread \cup Underway(stack) \cup Range(cache)
      /\ GroupsFor(groups, cache) /\ Range(perms) \subseteq Range(cache)
  BY <1>1, WhileCommands
<1>3. /\ g \in Files(files) /\ g.type = "commandgroup" /\ g \in GroupFiles(files)
      /\ HasName(g) => g \notin Range(cache)
      /\ Range(Names(files, g)) \subseteq Range(cache) /\ Sound(g) /\ Readable(g)
  BY <1>1, <1>2, TopHasTaken, FileTypes DEF Contents
<1>4. stack \in Seq(Frames) /\ Len(stack) \in Nat \ {0}
  BY <1>1, <1>2 DEF StackFor
<1>5. (Len(stack) = 1 \/ Len(stack) > 1) /\ ~(1 > 1)
  BY <1>4
<1>6. /\ Len(stack) = 1 => Underway(stack) = {g} /\ Front(stack) = <<>>
      /\ Len(stack) # 1 => Underway(Front(stack)) = Underway(stack)
  BY <1>1, <1>4, UnderwayFacts
<1> HIDE DEF g
<1>7. CacheFor(cache') /\ Range(cache') = Range(cache) \cup {g}
  <2>1. cache \in Seq(Files(files))
    BY <1>2 DEF CacheFor
  <2> QED
    BY <1>1, <1>2, <1>3, <2>1, CacheGroup, AppendedFacts
<1>8. g \notin Range(cache) => IsInjective(cache')
  BY <1>1, <1>2, <1>3, AppendedFacts DEF CacheFor
<1>9. GroupsFor(groups', cache')
  <2>1. CASE Len(stack) = 1
    <3>1. /\ Append(groups, g) \in Seq(GroupFiles(files))
          /\ Range(Append(groups, g)) = Range(groups) \cup {g}
      BY <1>2, <1>3, AppendedFacts DEF GroupsFor
    <3> QED
      BY <1>1, <1>2, <1>7, <2>1, <3>1 DEF GroupsFor
  <2>2. CASE Len(stack) # 1
    BY <1>1, <1>2, <1>7, <2>2 DEF GroupsFor
  <2> QED
    BY <2>1, <2>2
<1>10. CASE Len(stack) = 1
  <2>1. phase' = "commands" /\ stack' = <<>>
    BY <1>1, <1>6, <1>10
  <2>2. Underway(stack') = {} /\ StackFor(cache', stack')
    BY <2>1, NoCalls
  <2>3. g \notin Range(cache) /\ g \notin unread
    BY <1>2, <1>3, <1>6, <1>10
  <2>4. \A x \in Range(cache') : HasName(x) \/ x \notin unread' \cup Underway(stack')
    BY <1>1, <1>2, <1>7, <2>2, <2>3
  <2>5. CommandFiles(files) \subseteq unread' \cup Underway(stack') \cup Range(cache')
    BY <1>1, <1>2, <1>6, <1>7, <1>10
  <2> QED
    BY <1>1, <1>2, <1>7, <1>8, <1>9, <2>1, <2>2, <2>3, <2>4, <2>5
    DEF LoadFor, OnceFor, PermsFor, CommandsFor, HaltedFor
<1>11. CASE Len(stack) > 1 /\ CanBeAdded(g)
  <2>1. phase' = "commands" /\ Underway(stack') = Underway(stack) /\ HasName(g)
    <3>1. HasName(g)
      BY <1>2, <1>11 DEF CanBeAdded, HasName, WellFormed
    <3>2. Len(stack) # 1
      BY <1>11, <1>5
    <3> QED
      BY <1>1, <1>6, <1>11, <3>1, <3>2
  <2>2. StackFor(cache', stack')
    BY <1>1, <1>2, <1>11, StackReturns DEF g
  <2>3. g \notin Range(cache)
    BY <1>3, <2>1
  <2>4. \A x \in Range(cache') : HasName(x) \/ x \notin unread' \cup Underway(stack')
    BY <1>1, <1>2, <1>7, <2>1
  <2>5. CommandFiles(files) \subseteq unread' \cup Underway(stack') \cup Range(cache')
    BY <1>1, <1>2, <1>7, <2>1
  <2> QED
    BY <1>1, <1>2, <1>7, <1>8, <1>9, <2>1, <2>2, <2>3, <2>4, <2>5
    DEF LoadFor, OnceFor, PermsFor, CommandsFor, HaltedFor
<1>12. CASE Len(stack) > 1 /\ ~CanBeAdded(g)
  <2> DEFINE i == Len(stack) - 1
  <2>1. i \in 1..Len(stack) /\ i < Len(stack) /\ i + 1 = Len(stack)
    BY <1>4, <1>12
  <2> DEFINE xs == Names(files, stack[i].group)
             l == stack[i].line
  <2>2. FrameFor(cache, stack, i) /\ stack[i].group \in Files(files)
    BY <1>2, <1>4, <2>1, FrameFacts DEF StackFor
  <2>3. l \in 1..(Len(xs) + 1) /\ l >= 2 /\ g = xs[l - 1]
    BY <2>1, <2>2 DEF FrameFor, Top, g
  <2>4. xs \in Seq(Range(xs))
    BY <1>2, <2>2, NamedFacts
  <2> HIDE DEF xs, l, i
  <2>5. Len(xs) \in Nat /\ DOMAIN xs = 1..Len(xs)
    BY <2>4
  <2>6. g \in Range(xs)
    <3>1. l - 1 \in DOMAIN xs
      BY <2>3, <2>5
    <3> QED
      BY <2>3, <3>1 DEF Range
  <2>7. Dangling
    BY <1>12, <2>2, <2>6, DanglingFacts DEF xs
  <2> QED
    BY <1>1, <1>2, <1>7, <1>9, <1>12, <2>7
    DEF LoadFor, OnceFor, PermsFor, CommandsFor, HaltedFor
<1> QED
  BY <1>10, <1>11, <1>12, <1>5

LEMMA RemoveAtRange ==
  ASSUME NEW S, NEW s \in Seq(S), NEW k \in 1..Len(s)
  PROVE  /\ Range(RemoveAt(s, k)) \subseteq Range(s)
         /\ \A i \in 1..Len(s) : i # k => s[i] \in Range(RemoveAt(s, k))
         /\ IsInjective(s) => IsInjective(RemoveAt(s, k))
<1> DEFINE n == Len(s)
           r == RemoveAt(s, k)
<1>1. /\ n \in Nat /\ DOMAIN s = 1..n /\ r \in Seq(S) /\ Len(r) = n - 1
      /\ \A i \in 1..(n - 1) : (i < k => r[i] = s[i]) /\ (i >= k => r[i] = s[i + 1])
  BY RemoveAtFacts
<1>2. k \in 1..n
  OBVIOUS
<1> HIDE DEF n, r
<1>3. DOMAIN r = 1..(n - 1)
  BY <1>1
<1>4. \A i \in 1..(n - 1) : \E j \in 1..n :
        r[i] = s[j] /\ ((i < k /\ j = i) \/ (i >= k /\ j = i + 1))
  <2> TAKE i \in 1..(n - 1)
  <2>1. i \in 1..n /\ i + 1 \in 1..n /\ (i < k \/ i >= k)
    BY <1>1, <1>2
  <2> QED
    BY <1>1, <2>1
<1>5. Range(r) \subseteq Range(s)
  <2> SUFFICES ASSUME NEW y \in Range(r) PROVE y \in Range(s)
    OBVIOUS
  <2>1. PICK i \in 1..(n - 1) : y = r[i]
    BY <1>3 DEF Range
  <2>2. PICK j \in 1..n : r[i] = s[j]
    BY <1>4
  <2> QED
    BY <1>1, <2>1, <2>2 DEF Range
<1>6. ASSUME NEW i \in 1..n, i # k
      PROVE  s[i] \in Range(r)
  <2>1. CASE i < k
    <3>1. i \in 1..(n - 1)
      BY <1>1, <1>2, <2>1
    <3> QED
      BY <1>1, <1>3, <2>1, <3>1 DEF Range
  <2>2. CASE i > k
    <3>1. i - 1 \in 1..(n - 1) /\ i - 1 >= k /\ i - 1 + 1 = i
      BY <1>1, <1>2, <2>2
    <3>2. r[i - 1] = s[i]
      BY <1>1, <3>1
    <3> QED
      BY <1>3, <3>1, <3>2 DEF Range
  <2> QED
    BY <1>1, <1>2, <1>6, <2>1, <2>2
<1>7. ASSUME IsInjective(s)
      PROVE  IsInjective(r)
  <2> SUFFICES ASSUME NEW a \in 1..(n - 1), NEW b \in 1..(n - 1), r[a] = r[b]
               PROVE  a = b
    BY <1>3 DEF IsInjective
  <2>1. PICK x \in 1..n : r[a] = s[x] /\ ((a < k /\ x = a) \/ (a >= k /\ x = a + 1))
    BY <1>4
  <2>2. PICK y \in 1..n : r[b] = s[y] /\ ((b < k /\ y = b) \/ (b >= k /\ y = b + 1))
    BY <1>4
  <2>3. x = y
    BY <1>1, <1>7, <2>1, <2>2 DEF IsInjective
  <2> QED
    BY <1>1, <1>2, <2>1, <2>2, <2>3
<1> QED
  BY <1>5, <1>6, <1>7 DEF n, r

(* After the directories have been read only the top level changes.         *)
LEMMA PruningLoad ==
  ASSUME FilesInv, LoadInv,
         CommandsRead \/ PruneGroup \/ GroupsPruned \/ PruneCommand \/ CommandsPruned
  PROVE  LoadFor(phase', unread', perms', groups', cache', stack')
<1>1. CASE CommandsRead
  <2>1. /\ phase = "commands" /\ stack = <<>> /\ unread = {} /\ phase' = "prune groups"
        /\ UNCHANGED <<unread, perms, groups, cache, stack>>
    BY <1>1 DEF CommandsRead
  <2>2. /\ WellFormed(files) /\ CacheFor(cache) /\ IsInjective(cache)
        /\ CommandFiles(files) \subseteq Range(cache)
        /\ GroupsFor(groups, cache) /\ Range(perms) \subseteq Range(cache)
    BY <2>1, WhileCommands, NoCalls
  <2> QED
    BY <2>1, <2>2 DEF LoadFor, OnceFor, PermsFor, CommandsFor, HaltedFor
<1>2. CASE PruneGroup \/ GroupsPruned \/ PruneCommand \/ CommandsPruned
  <2>1. /\ phase \in {"prune groups", "prune commands"}
        /\ phase' \in {"prune groups", "prune commands", "ready"}
        /\ UNCHANGED <<unread, perms, cache, stack>>
    BY <1>2 DEF PruneGroup, GroupsPruned, PruneCommand, CommandsPruned
  <2>2. /\ CacheFor(cache) /\ IsInjective(cache)
        /\ CommandFiles(files) \subseteq Range(cache)
        /\ GroupsFor(groups, cache) /\ Range(perms) \subseteq Range(cache)
    BY <2>1 DEF LoadInv, LoadFor, OnceFor, CommandsFor
  <2>3. GroupsFor(groups', cache)
    <3>1. CASE groups' = groups
      BY <2>2, <3>1
    <3>2. CASE groups' # groups
      <4>1. PruneGroup /\ groups' = RemoveAt(groups, at) /\ at <= Len(groups)
        BY <1>2, <3>2 DEF PruneGroup, GroupsPruned, PruneCommand, CommandsPruned
      <4>2. at \in 1..Len(groups) /\ groups \in Seq(GroupFiles(files))
        BY <2>2, <4>1 DEF LoadInv, GroupsFor
      <4> QED
        BY <2>2, <4>1, <4>2, RemoveAtRange, RemoveAtFacts DEF GroupsFor
    <3> QED
      BY <3>1, <3>2
  <2> QED
    BY <2>1, <2>2, <2>3 DEF LoadFor, OnceFor, PermsFor, CommandsFor, HaltedFor
<1> QED
  BY <1>1, <1>2

(* The loading goes on as LoadInv says, whatever the configuration and the  *)
(* order of the directories.                                                *)
LEMMA ConstructLoad ==
  ASSUME FilesInv, LoadInv, PermsInv, Next
  PROVE  LoadInv'
<1>1. files' = files /\ phase' # "setup" /\ at' \in Nat \ {0}
  <2>1. files' = files
    BY DEF Next, ReadPerm, PermsRead, ReadCommand, ReadGroup, LoadLine, LoadNested,
           LoadMissing, LoadReturns, CommandsRead, PruneGroup, GroupsPruned, PruneCommand,
           CommandsPruned
  <2>2. /\ phase' \in {phase, "commands", "prune groups", "prune commands"} \cup Ends \cup {"looping"}
        /\ phase # "setup"
    BY DEF Next, ReadPerm, PermsRead, ReadCommand, ReadGroup, LoadLine, LoadNested,
           LoadMissing, LoadReturns, CommandsRead, PruneGroup, GroupsPruned, PruneCommand,
           CommandsPruned, Ends, Stopped
  <2>3. at' \in {at, 1, at + 1}
    BY DEF Next, ReadPerm, PermsRead, ReadCommand, ReadGroup, LoadLine, LoadNested,
           LoadMissing, LoadReturns, CommandsRead, PruneGroup, GroupsPruned, PruneCommand,
           CommandsPruned, AfterErase
  <2>4. at \in Nat \ {0}
    BY DEF LoadInv
  <2>5. phase' # "setup"
    BY <2>2 DEF Ends
  <2>6. at' \in Nat \ {0}
    BY <2>3, <2>4
  <2> QED
    BY <2>1, <2>5, <2>6
<1>2. LoadFor(phase', unread', perms', groups', cache', stack')
  <2>1. CASE \E e \in unread : ReadPerm(e)
    BY <2>1, ReadPermLoad
  <2>2. CASE PermsRead
    BY <2>2, PermsReadLoad
  <2>3. CASE \E e \in unread : ReadCommand(e)
    BY <2>3, ReadCommandLoad
  <2>4. CASE \E e \in unread : ReadGroup(e)
    BY <2>4, ReadGroupLoad
  <2>5. CASE LoadLine
    BY <2>5, LoadLineLoad
  <2>6. CASE LoadNested
    BY <2>6, LoadNestedLoad
  <2>7. CASE LoadMissing
    BY <2>7, LoadMissingLoad
  <2>8. CASE LoadReturns
    BY <2>8, LoadReturnsLoad
  <2>9. CASE CommandsRead \/ PruneGroup \/ GroupsPruned \/ PruneCommand \/ CommandsPruned
    BY <2>9, PruningLoad
  <2> QED
    BY <2>1, <2>2, <2>3, <2>4, <2>5, <2>6, <2>7, <2>8, <2>9 DEF Next
<1> QED
  BY <1>1, <1>2, LoadNext

(* Before the server starts nothing of it changes, and afterwards nothing   *)
(* else changes it.                                                         *)
LEMMA LoadUnchanged ==
  ASSUME LoadInv, UNCHANGED vars
  PROVE  LoadInv'
<1>1. UNCHANGED <<files, phase, unread, perms, groups, cache, stack, at>>
  BY DEF vars
<1>2. /\ LoadFor(phase', unread', perms', groups', cache', stack') /\ at' \in Nat \ {0}
      /\ phase' = "setup" => cache' = <<>> /\ perms' = <<>>
  BY <1>1 DEF LoadInv
<1>3. CASE phase' # "setup"
  BY <1>1, <1>2, <1>3, LoadNext
<1>4. CASE phase' = "setup"
  <2>1. cache' = <<>> /\ perms' = <<>> /\ stack' = <<>> /\ groups' = <<>>
    BY <1>2, <1>4 DEF LoadFor, PermsFor
  <2>2. Range(<<>>) = {} /\ IsInjective(<<>>) /\ <<>> \in Seq(Files(files'))
    BY DEF Range, IsInjective
  <2>3. CacheFor(cache)' /\ GroupsFor(groups, cache)'
    BY <2>1, <2>2 DEF CacheFor, GroupsFor
  <2> QED
    BY <1>2, <1>4, <2>1, <2>2, <2>3
    DEF LoadInv, LoadFor, OnceFor, PermsFor, CommandsFor, HaltedFor
<1> QED
  BY <1>3, <1>4

(* The invariant of the loading: everything is still to come, being loaded  *)
(* or in the cache, with all that it names before it.                       *)
THEOREM LoadInductive == SetupSpec => [](FilesInv /\ LoadInv)
<1>1. FilesInv /\ LoadInv /\ PermsInv /\ [SetupNext]_setupVars => (FilesInv /\ LoadInv)'
  <2> SUFFICES ASSUME FilesInv, LoadInv, PermsInv, [SetupNext]_setupVars
               PROVE  (FilesInv /\ LoadInv)'
    OBVIOUS
  <2>1. LoadInv'
    <3>1. CASE StartServer
      BY <3>1, StartServerLoad
    <3>2. CASE Construct
      BY <3>2, ConstructLoad DEF Construct
    <3>3. CASE Edit \/ SaveGroup \/ SaveAndLoad \/ UNCHANGED setupVars
      BY <3>3, LoadUnchanged DEF Edit, SaveGroup, SaveAndLoad, setupVars
    <3> QED
      BY <3>1, <3>2, <3>3 DEF SetupNext
  <2> QED
    BY <2>1, FilesKept
<1>2. SetupInit => FilesInv /\ LoadInv
  BY FilesInitially, LoadInitially
<1> QED
  BY <1>1, <1>2, PermsInductive, PTL DEF SetupSpec

(* There is one object for a file, in whatever order the directories are    *)
(* listed and however often the file is named, unless the start has failed. *)
THEOREM EverythingIsLoadedOnce == SetupSpec => []LoadedOnce
<1>1. LoadInv => LoadedOnce
  BY DEF LoadInv, LoadFor, OnceFor, LoadedOnce
<1> QED
  BY <1>1, LoadInductive, PTL

(* When the server is ready, what the files name is there, ...              *)
LEMMA ReadyIsComplete ==
  ASSUME FilesInv, LoadInv, PermsInv, phase = "ready",
         NEW x \in Files(files), Incomplete(x)
  PROVE  CanBeHidden(x)
<1>1. /\ WellFormed(files) /\ CacheFor(cache) /\ CommandFiles(files) \subseteq Range(cache)
      /\ Range(perms) \subseteq Range(cache)
      /\ perms \in Seq(PermFiles(files))
      /\ \A p \in PermFiles(files) : p \in Range(perms) \/ Hidden(p)
  BY DEF FilesInv, LoadInv, LoadFor, CommandsFor, PermsInv
<1>2. PICK y \in Range(Names(files, x)) : ~CanBeAdded(y)
  BY DEF Incomplete, References
<1>3. x \notin Range(cache)
  BY <1>1, <1>2 DEF CacheFor, Sound
<1>4. x \in PermFiles(files) /\ Hidden(x)
  BY <1>1, <1>3 DEF Files
<1>5. x.type = "group"
  BY <1>1, <1>2, <1>4, NamedFacts, FileTypes
<1>6. User(x.name) \in Files(files)
  <2>1. PICK q \in Range(perms) : q.name = x.name /\ q.type # x.type
    BY <1>4 DEF Hidden
  <2>2. q \in PermFiles(files)
    BY <1>1, <2>1 DEF Range
  <2>3. q.type = "user"
    BY <1>5, <2>1, <2>2, FileTypes
  <2>4. q = User(x.name)
    BY <2>1, <2>2, <2>3 DEF PermFiles, User, Group
  <2> QED
    BY <2>2, <2>4 DEF Files
<1>7. ASSUME NEW c \in CommandFiles(files), x \in Range(Names(files, c))
      PROVE  FALSE
  <2>1. c \in Range(cache) /\ c \in Files(files)
    BY <1>1 DEF Files
  <2>2. c.type = "command"
    BY <1>1, <1>5, <1>7, <2>1, NamedFacts, FileTypes
  <2>3. c \in SingleCommands(files)
    BY <2>2, FileTypes
  <2> QED
    BY <1>1, <1>3, <1>7, <2>1, <2>3 DEF CacheFor
<1> QED
  BY <1>5, <1>6, <1>7 DEF CanBeHidden, References, Files

(* ... and no command group is inside itself.                               *)
LEMMA ReadyIsAcyclic ==
  ASSUME FilesInv, LoadInv, phase \in {"prune groups", "prune commands", "ready"}
  PROVE  ~Cyclic
<1>1. /\ WellFormed(files) /\ CacheFor(cache) /\ CommandFiles(files) \subseteq Range(cache)
      /\ IsInjective(cache)
  BY DEF FilesInv, LoadInv, LoadFor, CommandsFor, OnceFor
<1>2. \A g \in CommandFiles(files) : g.type = "commandgroup" => g \in GroupFiles(files)
  BY FileTypes
<1> QED
  BY <1>1, <1>2, InsideLoaded DEF Cyclic

(* ..., and the only files it has not read are of hidden users and groups.  *)
LEMMA ReadyIsReadable ==
  ASSUME FilesInv, LoadInv, PermsInv, phase = "ready", NEW x \in files.unreadable
  PROVE  HasNamesake(x)
<1>1. /\ WellFormed(files) /\ CacheFor(cache) /\ CommandFiles(files) \subseteq Range(cache)
      /\ Range(perms) \subseteq Range(cache)
      /\ perms \in Seq(PermFiles(files))
      /\ \A p \in PermFiles(files) : p \in Range(perms) \/ Hidden(p)
  BY DEF FilesInv, LoadInv, LoadFor, CommandsFor, PermsInv
<1>2. x \in Files(files) /\ x \notin Range(cache)
  BY <1>1 DEF WellFormed, CacheFor, Readable
<1>3. x \in PermFiles(files) /\ Hidden(x)
  BY <1>1, <1>2 DEF Files
<1>4. \A q \in Range(perms) : q \in PermFiles(files)
  BY <1>1 DEF Range
<1> QED
  BY <1>3, <1>4 DEF HasNamesake, Hidden

(* The server starts with a configuration that is complete, can be read and *)
(* has no command group inside itself; if it does not start, there is a     *)
(* name without its file, such a group, or a file that cannot be read.      *)
THEOREM StartIsJustified == SetupSpec => []Verdict
<1>1. FilesInv /\ LoadInv /\ PermsInv => Verdict
  <2> SUFFICES ASSUME FilesInv, LoadInv, PermsInv PROVE Verdict
    OBVIOUS
  <2>1. ASSUME phase = "ready"
        PROVE  /\ ~Cyclic /\ \A x \in DOMAIN References : Incomplete(x) => CanBeHidden(x)
               /\ \A x \in files.unreadable : HasNamesake(x)
    BY <2>1, ReadyIsComplete, ReadyIsAcyclic, ReadyIsReadable DEF References
  <2>2. /\ phase = "failed" => Dangling
        /\ phase = "crashed" => Cyclic
        /\ phase = "looping" => Cyclic \/ files.unreadable # {}
    BY DEF LoadInv, LoadFor, HaltedFor
  <2> QED
    BY <2>1, <2>2 DEF Verdict
<1> QED
  BY <1>1, LoadInductive, PermsInductive, PTL

-----------------------------------------------------------------------------
(***************************************************************************)
(* The top level.                                                          *)
(***************************************************************************)
InSome(gs, x) == \E i \in DOMAIN gs : RecursiveHas(gs[i], x)

(* Every command and command group is at the top level, or in a group that  *)
(* is, or not done yet: and it is in one of these places once.              *)
PlacesFor(ph, un, cs, gs, st) ==
  /\ cs \in Seq(SingleCommands(files)) /\ IsInjective(cs)
  /\ gs \in Seq(GroupFiles(files)) /\ IsInjective(gs)
  /\ ph \in {"setup", "perms"} => cs = <<>> /\ gs = <<>>
  /\ ph = "commands" =>
       /\ Range(cs) \cap un = {}
       /\ Range(gs) \cap (un \cup Underway(st)) = {}
       /\ \A x \in CommandFiles(files) :
            x \in un \cup Underway(st) \cup Range(cs) \cup Range(gs) \/ InSome(gs, x)
  /\ ph \in {"prune groups", "prune commands", "ready"} =>
       \A x \in CommandFiles(files) : x \in Range(cs) \cup Range(gs) \/ InSome(gs, x)

(* What the last two loops have gone through is not inside a group.         *)
PrunedFor(ph, cs, gs, a) ==
  /\ ph = "prune groups" =>
       \A i \in 1..Len(gs) : i < a =>
         \A j \in 1..Len(gs) : j # i => ~RecursiveHas(gs[j], gs[i])
  /\ ph \in {"prune commands", "ready"} => \A x \in Range(gs) : ~InSome(gs, x)
  /\ ph = "prune commands" =>
       \A i \in 1..Len(cs) : i < a => ~InSome(gs, cs[i])
  /\ ph = "ready" => \A x \in Range(cs) : ~InSome(gs, x)

TopFor(ph, un, cs, gs, st, a) ==
  PlacesFor(ph, un, cs, gs, st) /\ PrunedFor(ph, cs, gs, a)

TopInv ==
  /\ TopFor(phase, unread, commands, groups, stack, at)
  /\ phase = "setup" => commands = <<>> /\ groups = <<>>

LEMMA TopNext ==
  ASSUME files' = files, phase' # "setup",
         TopFor(phase', unread', commands', groups', stack', at')
  PROVE  TopInv'
<1>1. PlacesFor(phase', unread', commands', groups', stack')
        => PlacesFor(phase, unread, commands, groups, stack)'
  BY DEF PlacesFor, InSome, RecursiveHas
<1>2. PrunedFor(phase', commands', groups', at') => PrunedFor(phase, commands, groups, at)'
  BY DEF PrunedFor, InSome, RecursiveHas
<1> QED
  BY <1>1, <1>2 DEF TopInv, TopFor

LEMMA NothingAtTop ==
  ASSUME NEW f
  PROVE  /\ <<>> \in Seq(SingleCommands(f)) /\ <<>> \in Seq(GroupFiles(f))
         /\ Range(<<>>) = {} /\ IsInjective(<<>>)
BY DEF Range, IsInjective

LEMMA TopInitially == SetupInit => TopInv
<1> SUFFICES ASSUME SetupInit PROVE TopInv
  OBVIOUS
<1>1. phase = "setup" /\ commands = <<>> /\ groups = <<>>
  BY DEF SetupInit, NothingLoaded
<1> QED
  BY <1>1, NothingAtTop DEF TopInv, TopFor, PlacesFor, PrunedFor

LEMMA StartServerTop ==
  ASSUME TopInv, StartServer
  PROVE  TopInv'
<1>1. phase' = "perms" /\ commands' = <<>> /\ groups' = <<>>
  BY DEF StartServer, TopInv
<1> QED
  BY <1>1, NothingAtTop DEF TopInv, TopFor, PlacesFor, PrunedFor

LEMMA TopUnchanged ==
  ASSUME TopInv, UNCHANGED vars
  PROVE  TopInv'
<1>1. UNCHANGED <<files, phase, unread, commands, groups, stack, at>>
  BY DEF vars
<1>2. /\ TopFor(phase', unread', commands', groups', stack', at')
      /\ phase' = "setup" => commands' = <<>> /\ groups' = <<>>
  BY <1>1 DEF TopInv
<1>3. CASE phase' # "setup"
  BY <1>1, <1>2, <1>3, TopNext
<1>4. CASE phase' = "setup"
  BY <1>2, <1>4, NothingAtTop DEF TopInv, TopFor, PlacesFor, PrunedFor
<1> QED
  BY <1>3, <1>4

(* The directory of permissions does not concern the top level, nor does    *)
(* what happens inside a call.                                              *)
LEMMA TopAside ==
  ASSUME TopInv, UNCHANGED <<commands, groups>>,
         \/ phase = "perms" /\ phase' \in {"perms", "failed", "looping"}
         \/ phase = "perms" /\ phase' = "commands" /\ unread' = CommandFiles(files)
         \/ phase = "commands" /\ phase' \in {"failed", "crashed", "looping"}
         \/ /\ phase = "commands" /\ phase' = "commands" /\ unread' = unread
            /\ Underway(stack') = Underway(stack)
  PROVE  TopFor(phase', unread', commands', groups', stack', at')
<1>1. TopFor(phase, unread, commands, groups, stack, at)
  BY DEF TopInv
<1>2. CASE phase = "perms" /\ phase' \in {"perms", "failed", "looping"}
  BY <1>1, <1>2 DEF TopFor, PlacesFor, PrunedFor
<1>3. CASE phase = "perms" /\ phase' = "commands" /\ unread' = CommandFiles(files)
  BY <1>1, <1>3, NothingAtTop DEF TopFor, PlacesFor, PrunedFor
<1>4. CASE phase = "commands" /\ phase' \in {"failed", "crashed", "looping"}
  BY <1>1, <1>4 DEF TopFor, PlacesFor, PrunedFor
<1>5. CASE phase = "commands" /\ phase' = "commands" /\ unread' = unread
           /\ Underway(stack') = Underway(stack)
  BY <1>1, <1>5 DEF TopFor, PlacesFor, PrunedFor
<1> QED
  BY <1>2, <1>3, <1>4, <1>5

LEMMA InSomeIs ==
  ASSUME NEW gs, NEW x
  PROVE  InSome(gs, x) <=> \E g \in Range(gs) : RecursiveHas(g, x)
BY DEF InSome, Range

LEMMA InSomeMore ==
  ASSUME NEW gs, NEW hs, Range(gs) \subseteq Range(hs), NEW x, InSome(gs, x)
  PROVE  InSome(hs, x)
BY InSomeIs

LEMMA PlacesWhileCommands ==
  ASSUME TopInv, phase = "commands"
  PROVE  /\ commands \in Seq(SingleCommands(files)) /\ IsInjective(commands)
         /\ groups \in Seq(GroupFiles(files)) /\ IsInjective(groups)
         /\ Range(commands) \cap unread = {}
         /\ Range(groups) \cap (unread \cup Underway(stack)) = {}
         /\ \A x \in CommandFiles(files) :
              \/ x \in unread \cup Underway(stack) \cup Range(commands) \cup Range(groups)
              \/ InSome(groups, x)
BY DEF TopInv, TopFor, PlacesFor

LEMMA ReadCommandTop ==
  ASSUME TopInv, NEW e \in unread, unread \subseteq CommandFiles(files), ReadCommand(e)
  PROVE  TopFor(phase', unread', commands', groups', stack', at')
<1>1. /\ phase = "commands" /\ stack = <<>> /\ e.type = "command"
      /\ unread' = unread \ {e} /\ UNCHANGED <<groups, stack, at>>
  BY DEF ReadCommand
<1>2. /\ commands \in Seq(SingleCommands(files)) /\ IsInjective(commands)
      /\ groups \in Seq(GroupFiles(files)) /\ IsInjective(groups)
      /\ Range(commands) \cap unread = {}
      /\ Range(groups) \cap (unread \cup Underway(stack)) = {}
      /\ \A x \in CommandFiles(files) :
           \/ x \in unread \cup Underway(stack) \cup Range(commands) \cup Range(groups)
           \/ InSome(groups, x)
  BY <1>1, PlacesWhileCommands
<1>3. CASE InSomeGroup(e) /\ UNCHANGED <<phase, commands>>
  <2>1. InSome(groups, e)
    BY <1>3 DEF InSome, InSomeGroup
  <2> QED
    BY <1>1, <1>2, <1>3, <2>1 DEF TopFor, PlacesFor, PrunedFor
<1>4. CASE commands' = Append(commands, e) /\ UNCHANGED phase
  <2>1. e \in SingleCommands(files) /\ e \notin Range(commands)
    BY <1>1, <1>2, FileTypes
  <2>2. /\ commands' \in Seq(SingleCommands(files)) /\ IsInjective(commands')
        /\ Range(commands') = Range(commands) \cup {e}
    BY <1>2, <1>4, <2>1, AppendedFacts
  <2> QED
    BY <1>1, <1>2, <1>4, <2>2 DEF TopFor, PlacesFor, PrunedFor
<1>5. CASE phase' = Stopped(e) /\ UNCHANGED commands
  BY <1>1, <1>5, TopAside DEF Stopped
<1> QED
  BY <1>3, <1>4, <1>5 DEF ReadCommand

(* A group more at the top level.                                           *)
LEMMA GroupToTop ==
  ASSUME TopInv, phase = "commands", NEW g \in unread \cup Underway(stack),
         g \in GroupFiles(files), phase' = phase, unread' = unread \ {g},
         Underway(stack') = Underway(stack) \ {g},
         commands' = commands, groups' = Append(groups, g)
  PROVE  TopFor(phase', unread', commands', groups', stack', at')
<1>1. /\ commands \in Seq(SingleCommands(files)) /\ IsInjective(commands)
      /\ groups \in Seq(GroupFiles(files)) /\ IsInjective(groups)
      /\ Range(commands) \cap unread = {}
      /\ Range(groups) \cap (unread \cup Underway(stack)) = {}
      /\ \A x \in CommandFiles(files) :
           \/ x \in unread \cup Underway(stack) \cup Range(commands) \cup Range(groups)
           \/ InSome(groups, x)
  BY PlacesWhileCommands
<1>2. /\ groups' \in Seq(GroupFiles(files)) /\ Range(groups') = Range(groups) \cup {g}
      /\ IsInjective(groups')
  BY <1>1, AppendedFacts
<1>3. \A x : InSome(groups, x) => InSome(groups', x)
  BY <1>2, InSomeMore
<1> QED
  BY <1>1, <1>2, <1>3 DEF TopFor, PlacesFor, PrunedFor

LEMMA ReadGroupTop ==
  ASSUME TopInv, NEW e \in unread, unread \subseteq CommandFiles(files), ReadGroup(e)
  PROVE  TopFor(phase', unread', commands', groups', stack', at')
<1>1. /\ phase = "commands" /\ stack = <<>> /\ e.type = "commandgroup"
      /\ unread' = unread \ {e} /\ UNCHANGED <<commands, at>>
  BY DEF ReadGroup
<1>2. /\ commands \in Seq(SingleCommands(files)) /\ IsInjective(commands)
      /\ groups \in Seq(GroupFiles(files)) /\ IsInjective(groups)
      /\ Range(commands) \cap unread = {}
      /\ Range(groups) \cap (unread \cup Underway(stack)) = {}
      /\ \A x \in CommandFiles(files) :
           \/ x \in unread \cup Underway(stack) \cup Range(commands) \cup Range(groups)
           \/ InSome(groups, x)
  BY <1>1, PlacesWhileCommands
<1>3. Underway(stack) = {}
  BY <1>1, NoCalls
<1>4. CASE InSomeGroup(e) /\ UNCHANGED <<phase, stack, groups>>
  <2>1. InSome(groups, e)
    BY <1>4 DEF InSome, InSomeGroup
  <2> QED
    BY <1>1, <1>2, <1>4, <2>1 DEF TopFor, PlacesFor, PrunedFor
<1>5. CASE groups' = Append(groups, e) /\ UNCHANGED <<phase, stack>>
  <2>1. e \in GroupFiles(files) /\ Underway(stack') = Underway(stack) \ {e}
    BY <1>1, <1>3, <1>5, FileTypes
  <2> QED
    BY <1>1, <1>5, <2>1, GroupToTop
<1>6. CASE stack' = <<Call(e)>> /\ UNCHANGED <<phase, groups>>
  <2>1. Underway(stack') = {e}
    BY <1>6 DEF Underway, Call
  <2> QED
    BY <1>1, <1>2, <1>3, <1>6, <2>1 DEF TopFor, PlacesFor, PrunedFor
<1>7. CASE phase' = "looping" /\ UNCHANGED groups
  BY <1>1, <1>7, TopAside
<1> QED
  BY <1>4, <1>5, <1>6, <1>7 DEF ReadGroup

LEMMA CallsTop ==
  ASSUME TopInv, phase = "commands" => StackFor(cache, stack),
         Underway(stack) \cap unread = {},
         LoadLine \/ LoadNested \/ LoadMissing \/ LoadReturns
  PROVE  TopFor(phase', unread', commands', groups', stack', at')
<1>1. /\ phase = "commands" /\ stack # <<>> /\ stack \in Seq(Frames)
      /\ UNCHANGED <<unread, commands>>
  BY DEF LoadLine, LoadNested, LoadMissing, LoadReturns, StackFor
<1>2. CASE LoadLine
  <2>1. stack' = Moved /\ UNCHANGED <<phase, groups>>
    BY <1>2 DEF LoadLine
  <2> QED
    BY <1>1, <2>1, UnderwayFacts, TopAside
<1>3. CASE LoadNested
  <2>1. UNCHANGED groups
    BY <1>3 DEF LoadNested
  <2>2. CASE stack' = Append(Moved, Call(Line)) /\ UNCHANGED phase
    BY <1>1, <2>1, <2>2, UnderwayFacts, TopAside
  <2>3. CASE phase' \in {"crashed", "looping"}
    BY <1>1, <2>1, <2>3, TopAside
  <2> QED
    BY <1>3, <2>2, <2>3 DEF LoadNested
<1>4. CASE LoadMissing
  <2>1. phase' \in {"failed", "looping"} /\ UNCHANGED groups
    BY <1>4 DEF LoadMissing, Stopped
  <2> QED
    BY <1>1, <2>1, TopAside
<1>5. CASE LoadReturns /\ Len(stack) # 1
  <2>1. groups' = groups /\ stack' = Front(stack) /\ phase' \in {phase, "failed"}
    BY <1>5 DEF LoadReturns
  <2>2. Underway(stack') = Underway(stack)
    BY <1>1, <1>5, <2>1, UnderwayFacts
  <2> QED
    BY <1>1, <2>1, <2>2, TopAside
<1>6. CASE LoadReturns /\ Len(stack) = 1
  <2> DEFINE g == Top.group
  <2>1. groups' = Append(groups, g) /\ stack' = Front(stack) /\ phase' = phase
    BY <1>6 DEF LoadReturns
  <2>2. Underway(stack) = {g} /\ Front(stack) = <<>>
    BY <1>1, <1>6, UnderwayFacts
  <2>3. g \in GroupFiles(files)
    BY <1>1, <1>6, FrameFacts DEF Top
  <2> HIDE DEF g
  <2>4. Underway(stack') = Underway(stack) \ {g} /\ unread' = unread \ {g}
    BY <1>1, <2>1, <2>2, NoCalls
  <2> QED
    BY <1>1, <2>1, <2>2, <2>3, <2>4, GroupToTop
<1> QED
  BY <1>2, <1>3, <1>4, <1>5, <1>6

(* The loops at the end.                                                    *)
LEMMA Indices ==
  ASSUME NEW S, NEW s \in Seq(S), NEW a \in Nat \ {0}
  PROVE  /\ DOMAIN s = 1..Len(s) /\ Len(s) \in Nat
         /\ a <= Len(s) => a \in 1..Len(s)
         /\ a > Len(s) => \A i \in 1..Len(s) : i < a
OBVIOUS

LEMMA PlacesAfterwards ==
  ASSUME TopInv, LoadInv, phase \in {"prune groups", "prune commands", "ready"}
  PROVE  /\ commands \in Seq(SingleCommands(files)) /\ IsInjective(commands)
         /\ groups \in Seq(GroupFiles(files)) /\ IsInjective(groups)
         /\ \A x \in CommandFiles(files) :
              x \in Range(commands) \cup Range(groups) \/ InSome(groups, x)
         /\ PrunedFor(phase, commands, groups, at) /\ at \in Nat \ {0}
BY DEF TopInv, TopFor, PlacesFor, LoadInv

LEMMA CommandsReadTop ==
  ASSUME TopInv, CommandsRead
  PROVE  TopFor(phase', unread', commands', groups', stack', at')
<1>1. /\ phase = "commands" /\ stack = <<>> /\ unread = {} /\ phase' = "prune groups" /\ at' = 1
      /\ UNCHANGED <<commands, groups, stack, unread>>
  BY DEF CommandsRead
<1>2. /\ commands \in Seq(SingleCommands(files)) /\ IsInjective(commands)
      /\ groups \in Seq(GroupFiles(files)) /\ IsInjective(groups)
      /\ \A x \in CommandFiles(files) :
           x \in Range(commands) \cup Range(groups) \/ InSome(groups, x)
  BY <1>1, PlacesWhileCommands, NoCalls
<1>3. \A i \in 1..Len(groups) : ~(i < 1)
  BY <1>2
<1> QED
  BY <1>1, <1>2, <1>3 DEF TopFor, PlacesFor, PrunedFor

(* A group is taken off the top level when another group there has it: then *)
(* that one has all that is in it.                                          *)
LEMMA PruneGroupTop ==
  ASSUME FilesInv, LoadInv, TopInv, PruneGroup
  PROVE  TopFor(phase', unread', commands', groups', stack', at')
<1>1. /\ phase = "prune groups" /\ phase' = phase /\ at <= Len(groups)
      /\ UNCHANGED <<commands, stack, unread>>
  BY DEF PruneGroup
<1>2. /\ commands \in Seq(SingleCommands(files)) /\ IsInjective(commands)
      /\ groups \in Seq(GroupFiles(files)) /\ IsInjective(groups)
      /\ \A x \in CommandFiles(files) :
           x \in Range(commands) \cup Range(groups) \/ InSome(groups, x)
      /\ at \in Nat \ {0}
      /\ \A i \in 1..Len(groups) : i < at =>
           \A j \in 1..Len(groups) : j # i => ~RecursiveHas(groups[j], groups[i])
  BY <1>1, PlacesAfterwards DEF PrunedFor
<1> DEFINE n == Len(groups)
<1>3. at \in 1..n /\ DOMAIN groups = 1..n /\ n \in Nat
  BY <1>1, <1>2, Indices
<1>4. ASSUME NEW j \in 1..n, j # at, RecursiveHas(groups[j], groups[at]),
             groups' = RemoveAt(groups, at), at' = at
      PROVE  TopFor(phase', unread', commands', groups', stack', at')
  <2>1. /\ groups' \in Seq(GroupFiles(files)) /\ Len(groups') = n - 1
        /\ \A i \in 1..(n - 1) :
             /\ i < at => groups'[i] = groups[i]
             /\ i >= at => groups'[i] = groups[i + 1]
    BY <1>2, <1>3, <1>4, RemoveAtFacts
  <2>2. /\ Range(groups') \subseteq Range(groups) /\ IsInjective(groups')
        /\ \A i \in 1..n : i # at => groups[i] \in Range(groups')
    BY <1>2, <1>3, <1>4, RemoveAtRange
  <2>3. groups[at] \in GroupFiles(files) /\ groups[j] \in Range(groups')
    BY <1>2, <1>3, <1>4, <2>2
  <2>4. InSome(groups', groups[at])
    BY <1>4, <2>3, InSomeIs
  <2>5. ASSUME NEW x \in CommandFiles(files), InSome(groups, x)
        PROVE  InSome(groups', x)
    <3>1. PICK i \in 1..n : RecursiveHas(groups[i], x)
      BY <1>3, <2>5 DEF InSome
    <3>2. CASE i # at
      BY <2>2, <3>1, <3>2, InSomeIs
    <3>3. CASE i = at
      <4>1. x \in Inside(files, groups[at]) /\ groups[at] \in Inside(files, groups[j])
        BY <1>4, <3>1, <3>3 DEF RecursiveHas
      <4>2. Inside(files, groups[at]) \cap CommandFiles(files) \subseteq Inside(files, groups[j])
        BY <2>3, <4>1, InsideTransitive DEF FilesInv
      <4>3. RecursiveHas(groups[j], x)
        BY <2>5, <4>1, <4>2 DEF RecursiveHas
      <4> QED
        BY <2>3, <4>3, InSomeIs
    <3> QED
      BY <3>2, <3>3
  <2>6. ASSUME NEW x \in CommandFiles(files)
        PROVE  x \in Range(commands') \cup Range(groups') \/ InSome(groups', x)
    <3>1. CASE x \in Range(groups)
      <4>1. PICK i \in 1..n : x = groups[i]
        BY <1>3, <3>1 DEF Range
      <4> QED
        BY <2>2, <2>4, <4>1
    <3> QED
      BY <1>1, <1>2, <2>5, <3>1
  <2> HIDE DEF n
  <2>7. ASSUME NEW i \in 1..(n - 1), i < at, NEW k \in 1..(n - 1), k # i
        PROVE  ~RecursiveHas(groups'[k], groups'[i])
    <3>1. i \in 1..n /\ k \in 1..n /\ k + 1 \in 1..n /\ (k < at \/ (k >= at /\ k + 1 # i))
      BY <1>3, <2>7
    <3>2. /\ groups'[i] = groups[i]
          /\ groups'[k] = groups[k] \/ (groups'[k] = groups[k + 1] /\ k + 1 # i)
      BY <2>1, <2>7, <3>1
    <3> QED
      BY <1>2, <2>7, <3>1, <3>2 DEF n
  <2> QED
    BY <1>1, <1>2, <1>4, <2>1, <2>2, <2>6, <2>7 DEF TopFor, PlacesFor, PrunedFor
<1>5. CASE ~\E j \in DOMAIN groups \ {at} : RecursiveHas(groups[j], groups[at])
  <2>1. groups' = groups /\ at' = at + 1
    BY <1>5 DEF PruneGroup
  <2>2. \A i \in 1..n : i < at + 1 => i < at \/ i = at
    BY <1>3
  <2>3. \A i \in 1..n : i < at' => \A j \in 1..n : j # i => ~RecursiveHas(groups[j], groups[i])
    BY <1>2, <1>3, <1>5, <2>1, <2>2
  <2> QED
    BY <1>1, <1>2, <2>1, <2>3 DEF TopFor, PlacesFor, PrunedFor
<1> QED
  BY <1>3, <1>4, <1>5 DEF PruneGroup, AfterErase

LEMMA GroupsPrunedTop ==
  ASSUME FilesInv, LoadInv, TopInv, GroupsPruned
  PROVE  TopFor(phase', unread', commands', groups', stack', at')
<1>1. /\ phase = "prune groups" /\ phase' = "prune commands" /\ at > Len(groups) /\ at' = 1
      /\ UNCHANGED <<commands, groups, stack, unread>>
  BY DEF GroupsPruned
<1>2. /\ commands \in Seq(SingleCommands(files)) /\ IsInjective(commands)
      /\ groups \in Seq(GroupFiles(files)) /\ IsInjective(groups)
      /\ \A x \in CommandFiles(files) :
           x \in Range(commands) \cup Range(groups) \/ InSome(groups, x)
      /\ at \in Nat \ {0}
      /\ \A i \in 1..Len(groups) : i < at =>
           \A j \in 1..Len(groups) : j # i => ~RecursiveHas(groups[j], groups[i])
  BY <1>1, PlacesAfterwards DEF PrunedFor
<1>3. \A g \in GroupFiles(files) : ~RecursiveHas(g, g)
  BY <1>1, ReadyIsAcyclic, FileTypes DEF Cyclic
<1>4. ASSUME NEW x \in Range(groups)
      PROVE  ~InSome(groups, x)
  <2>1. DOMAIN groups = 1..Len(groups) /\ \A i \in 1..Len(groups) : i < at
    BY <1>1, <1>2, Indices
  <2>2. PICK i \in 1..Len(groups) : x = groups[i]
    BY <2>1 DEF Range
  <2>3. \A j \in 1..Len(groups) : j # i => ~RecursiveHas(groups[j], x)
    BY <1>2, <2>1, <2>2
  <2>4. ~RecursiveHas(groups[i], x)
    BY <1>2, <1>3, <2>2
  <2> QED
    BY <2>1, <2>3, <2>4 DEF InSome
<1>5. \A i \in 1..Len(commands) : ~(i < 1)
  BY <1>2
<1> QED
  BY <1>1, <1>2, <1>4, <1>5 DEF TopFor, PlacesFor, PrunedFor

LEMMA PruneCommandTop ==
  ASSUME LoadInv, TopInv, PruneCommand
  PROVE  TopFor(phase', unread', commands', groups', stack', at')
<1>1. /\ phase = "prune commands" /\ phase' = phase /\ at <= Len(commands)
      /\ UNCHANGED <<groups, stack, unread>>
  BY DEF PruneCommand
<1>2. /\ commands \in Seq(SingleCommands(files)) /\ IsInjective(commands)
      /\ groups \in Seq(GroupFiles(files)) /\ IsInjective(groups)
      /\ \A x \in CommandFiles(files) :
           x \in Range(commands) \cup Range(groups) \/ InSome(groups, x)
      /\ at \in Nat \ {0}
      /\ \A x \in Range(groups) : ~InSome(groups, x)
      /\ \A i \in 1..Len(commands) : i < at => ~InSome(groups, commands[i])
  BY <1>1, PlacesAfterwards DEF PrunedFor
<1> DEFINE n == Len(commands)
<1>3. at \in 1..n /\ DOMAIN commands = 1..n /\ n \in Nat
  BY <1>1, <1>2, Indices
<1>4. CASE InSome(groups, commands[at]) /\ commands' = RemoveAt(commands, at) /\ at' = at
  <2>1. /\ commands' \in Seq(SingleCommands(files)) /\ Len(commands') = n - 1
        /\ \A i \in 1..(n - 1) : i < at => commands'[i] = commands[i]
    BY <1>2, <1>3, <1>4, RemoveAtFacts
  <2>2. /\ IsInjective(commands')
        /\ \A i \in 1..n : i # at => commands[i] \in Range(commands')
    BY <1>2, <1>3, <1>4, RemoveAtRange
  <2>3. ASSUME NEW x \in CommandFiles(files)
        PROVE  x \in Range(commands') \cup Range(groups') \/ InSome(groups', x)
    <3>1. CASE x \in Range(commands)
      <4>1. PICK i \in 1..n : x = commands[i]
        BY <1>3, <3>1 DEF Range
      <4> QED
        BY <1>1, <1>4, <2>2, <4>1
    <3> QED
      BY <1>1, <1>2, <3>1
  <2> HIDE DEF n
  <2>4. ASSUME NEW i \in 1..(n - 1), i < at'
        PROVE  ~InSome(groups, commands'[i])
    <3>1. i \in 1..n
      BY <1>3
    <3> QED
      BY <1>2, <1>4, <2>1, <2>4, <3>1 DEF n
  <2> QED
    BY <1>1, <1>2, <2>1, <2>2, <2>3, <2>4 DEF TopFor, PlacesFor, PrunedFor
<1>5. CASE ~InSome(groups, commands[at]) /\ commands' = commands /\ at' = at + 1
  <2>1. \A i \in 1..n : i < at + 1 => i < at \/ i = at
    BY <1>3
  <2>2. \A i \in 1..n : i < at' => ~InSome(groups, commands[i])
    BY <1>2, <1>5, <2>1
  <2> QED
    BY <1>1, <1>2, <1>5, <2>2 DEF TopFor, PlacesFor, PrunedFor
<1> QED
  BY <1>4, <1>5 DEF PruneCommand, AfterErase, InSome, InSomeGroup

LEMMA CommandsPrunedTop ==
  ASSUME LoadInv, TopInv, CommandsPruned
  PROVE  TopFor(phase', unread', commands', groups', stack', at')
<1>1. /\ phase = "prune commands" /\ phase' = "ready" /\ at > Len(commands)
      /\ UNCHANGED <<commands, groups, stack, unread>>
  BY DEF CommandsPruned
<1>2. /\ commands \in Seq(SingleCommands(files)) /\ IsInjective(commands)
      /\ groups \in Seq(GroupFiles(files)) /\ IsInjective(groups)
      /\ \A x \in CommandFiles(files) :
           x \in Range(commands) \cup Range(groups) \/ InSome(groups, x)
      /\ at \in Nat \ {0}
      /\ \A x \in Range(groups) : ~InSome(groups, x)
      /\ \A i \in 1..Len(commands) : i < at => ~InSome(groups, commands[i])
  BY <1>1, PlacesAfterwards DEF PrunedFor
<1>3. DOMAIN commands = 1..Len(commands) /\ \A i \in 1..Len(commands) : i < at
  BY <1>1, <1>2, Indices
<1>4. \A x \in Range(commands) : ~InSome(groups, x)
  BY <1>2, <1>3 DEF Range
<1> QED
  BY <1>1, <1>2, <1>4 DEF TopFor, PlacesFor, PrunedFor

LEMMA ConstructTop ==
  ASSUME FilesInv, LoadInv, TopInv, Next
  PROVE  TopInv'
<1>1. files' = files /\ phase' # "setup"
  <2>1. files' = files
    BY DEF Next, ReadPerm, PermsRead, ReadCommand, ReadGroup, LoadLine, LoadNested,
           LoadMissing, LoadReturns, CommandsRead, PruneGroup, GroupsPruned, PruneCommand,
           CommandsPruned
  <2>2. /\ phase' \in {phase, "commands", "prune groups", "prune commands"} \cup Ends \cup {"looping"}
        /\ phase # "setup"
    BY DEF Next, ReadPerm, PermsRead, ReadCommand, ReadGroup, LoadLine, LoadNested,
           LoadMissing, LoadReturns, CommandsRead, PruneGroup, GroupsPruned, PruneCommand,
           CommandsPruned, Ends, Stopped
  <2> QED
    BY <2>1, <2>2 DEF Ends
<1>2. phase = "commands" =>
        /\ unread \subseteq CommandFiles(files) /\ StackFor(cache, stack)
        /\ Underway(stack) \cap unread = {}
  BY WhileCommands
<1>3. TopFor(phase', unread', commands', groups', stack', at')
  <2>1. CASE (\E e \in unread : ReadPerm(e)) \/ PermsRead
    <3>1. UNCHANGED <<commands, groups>>
      BY <2>1 DEF ReadPerm, PermsRead
    <3>2. \/ phase = "perms" /\ phase' \in {"perms", "failed", "looping"}
          \/ phase = "perms" /\ phase' = "commands" /\ unread' = CommandFiles(files)
      BY <2>1 DEF ReadPerm, PermsRead, Stopped
    <3> QED
      BY <3>1, <3>2, TopAside
  <2>2. CASE \E e \in unread : ReadCommand(e)
    BY <1>2, <2>2, ReadCommandTop DEF ReadCommand
  <2>3. CASE \E e \in unread : ReadGroup(e)
    BY <1>2, <2>3, ReadGroupTop DEF ReadGroup
  <2>4. CASE LoadLine \/ LoadNested \/ LoadMissing \/ LoadReturns
    <3>1. phase = "commands"
      BY <2>4 DEF LoadLine, LoadNested, LoadMissing, LoadReturns
    <3> QED
      BY <1>2, <2>4, <3>1, CallsTop
  <2>5. CASE CommandsRead
    BY <2>5, CommandsReadTop
  <2>6. CASE PruneGroup
    BY <2>6, PruneGroupTop
  <2>7. CASE GroupsPruned
    BY <2>7, GroupsPrunedTop
  <2>8. CASE PruneCommand
    BY <2>8, PruneCommandTop
  <2>9. CASE CommandsPruned
    BY <2>9, CommandsPrunedTop
  <2> QED
    BY <2>1, <2>2, <2>3, <2>4, <2>5, <2>6, <2>7, <2>8, <2>9 DEF Next
<1> QED
  BY <1>1, <1>3, TopNext

(* The invariant of the top level: nothing of it is lost, whatever is       *)
(* skipped or taken off.                                                    *)
THEOREM TopInductive == SetupSpec => []TopInv
<1>1. FilesInv /\ LoadInv /\ TopInv /\ [SetupNext]_setupVars => TopInv'
  <2> SUFFICES ASSUME FilesInv, LoadInv, TopInv, [SetupNext]_setupVars
               PROVE  TopInv'
    OBVIOUS
  <2>1. CASE StartServer
    BY <2>1, StartServerTop
  <2>2. CASE Construct
    BY <2>2, ConstructTop DEF Construct
  <2>3. CASE Edit \/ SaveGroup \/ SaveAndLoad \/ UNCHANGED setupVars
    BY <2>3, TopUnchanged DEF Edit, SaveGroup, SaveAndLoad, setupVars
  <2> QED
    BY <2>1, <2>2, <2>3 DEF SetupNext
<1> QED
  BY <1>1, TopInitially, LoadInductive, PTL DEF SetupSpec

(* What is in a group is named by a command file.                           *)
LEMMA InsideIsNamed ==
  ASSUME NEW c, WellFormed(c), NEW g \in CommandFiles(c)
  PROVE  Inside(c, g) \subseteq UNION {Range(Names(c, h)) : h \in CommandFiles(c)}
<1> DEFINE S == UNION {Range(Names(c, h)) : h \in CommandFiles(c)}
<1>1. \A h \in CommandFiles(c) : Range(Names(c, h)) \subseteq S
  OBVIOUS
<1> HIDE DEF S
<1> QED
  BY <1>1, InsideLeast DEF S

(* When the server is ready, every command and every command group is at    *)
(* the top level once if no group names it, and not at all if one does,     *)
(* whatever the order of the directory.                                     *)
THEOREM TopLevelIsRight == SetupSpec => []TopLevel
<1>1. FilesInv /\ LoadInv /\ TopInv => TopLevel
  <2> SUFFICES ASSUME FilesInv, LoadInv, TopInv, phase = "ready"
               PROVE  /\ IsInjective(commands) /\ IsInjective(groups)
                      /\ Range(commands) \cup Range(groups) =
                           {x \in CommandFiles(files) :
                              \A g \in CommandFiles(files) : x \notin References[g]}
    BY DEF TopLevel
  <2>1. /\ commands \in Seq(SingleCommands(files)) /\ IsInjective(commands)
        /\ groups \in Seq(GroupFiles(files)) /\ IsInjective(groups)
        /\ \A x \in CommandFiles(files) :
             x \in Range(commands) \cup Range(groups) \/ InSome(groups, x)
        /\ \A x \in Range(commands) \cup Range(groups) : ~InSome(groups, x)
    BY PlacesAfterwards DEF PrunedFor
  <2>2. WellFormed(files)
    BY DEF FilesInv
  <2>3. \A g \in CommandFiles(files) : References[g] = Range(Names(files, g)) /\ g \in Files(files)
    BY DEF References, Files
  <2>4. /\ Range(commands) \subseteq SingleCommands(files)
        /\ Range(groups) \subseteq GroupFiles(files)
    BY <2>1 DEF Range
  <2>5. Range(commands) \cup Range(groups) \subseteq CommandFiles(files)
    BY <2>4, FileTypes
  <2>6. ASSUME NEW x \in Range(commands) \cup Range(groups), NEW g \in CommandFiles(files),
               x \in Range(Names(files, g))
        PROVE  FALSE
    <3>1. x \in CommandFiles(files) /\ ~InSome(groups, x)
      BY <2>1, <2>5, <2>6
    <3>2. g \in GroupFiles(files)
      <4>1. g.type # "command"
        BY <2>2, <2>3, <2>6, <3>1, NamedFacts, FileTypes
      <4> QED
        BY <4>1, FileTypes
    <3>3. RecursiveHas(g, x)
      BY <2>2, <2>6, InsideNames DEF RecursiveHas
    <3>4. g \notin Range(groups)
      BY <3>1, <3>3, InSomeIs
    <3>5. g \notin Range(commands)
      BY <2>4, <3>2, FileTypes
    <3>6. PICK h \in Range(groups) : RecursiveHas(h, g)
      BY <2>1, <3>4, <3>5, InSomeIs
    <3>7. x \in Inside(files, h)
      BY <2>2, <3>1, <3>2, <3>3, <3>6, InsideTransitive DEF RecursiveHas
    <3> QED
      BY <3>1, <3>6, <3>7, InSomeIs DEF RecursiveHas
  <2>7. ASSUME NEW x \in CommandFiles(files), x \notin Range(commands) \cup Range(groups)
        PROVE  \E g \in CommandFiles(files) : x \in Range(Names(files, g))
    <3>1. PICK h \in Range(groups) : RecursiveHas(h, x)
      BY <2>1, <2>7, InSomeIs
    <3>2. h \in CommandFiles(files)
      BY <2>5
    <3> QED
      BY <2>2, <3>1, <3>2, InsideIsNamed DEF RecursiveHas
  <2> QED
    BY <2>1, <2>3, <2>5, <2>6, <2>7
<1> QED
  BY <1>1, LoadInductive, TopInductive, PTL

-----------------------------------------------------------------------------
(***************************************************************************)
(* The lines of a file.                                                    *)
(***************************************************************************)
Sections == {"name", "salt", "hashed_password", "exec", "num_params", "hostname",
             "certfile", "users", "groups", "commands"}
Values(type) == Class[type].values
Lists(type) == Class[type].lists

LEMMA ClassFacts ==
  ASSUME NEW type \in DOMAIN Class
  PROVE  /\ Values(type) \in Seq(Sections) /\ Len(Values(type)) \in {1, 3}
         /\ \A i, j \in 1..Len(Values(type)) : Values(type)[i] = Values(type)[j] => i = j
         /\ \A i \in 1..Len(Values(type)) :
              /\ Values(type)[i] # "toplevel"
              /\ Values(type)[i] = "certfile" => i = Len(Values(type)) /\ Len(Lists(type)) = 0
         /\ DOMAIN Lists(type) = 1..Len(Lists(type)) /\ Len(Lists(type)) \in 0..2
         /\ \A l \in 1..Len(Lists(type)) :
              /\ Lists(type)[l][1] \in Sections /\ Lists(type)[l][1] # "toplevel"
              /\ \A i \in 1..Len(Values(type)) : Lists(type)[l][1] # Values(type)[i]
              /\ \A m \in 1..Len(Lists(type)) :
                   Lists(type)[l][1] = Lists(type)[m][1] => l = m
<1> DEFINE V == Values(type)
           L == Lists(type)
           Fine == /\ V \in Seq(Sections) /\ Len(V) \in {1, 3}
                   /\ \A i, j \in 1..Len(V) : V[i] = V[j] => i = j
                   /\ \A i \in 1..Len(V) :
                        /\ V[i] # "toplevel"
                        /\ V[i] = "certfile" => i = Len(V) /\ Len(L) = 0
                   /\ DOMAIN L = 1..Len(L) /\ Len(L) \in 0..2
                   /\ \A l \in 1..Len(L) :
                        /\ L[l][1] \in Sections /\ L[l][1] # "toplevel"
                        /\ \A i \in 1..Len(V) : L[l][1] # V[i]
                        /\ \A m \in 1..Len(L) : L[l][1] = L[m][1] => l = m
<1>1. ASSUME type = "user" PROVE Fine
  <2>1. V = <<"name", "salt", "hashed_password">> /\ L = <<  >>
    BY <1>1 DEF Class, Values, Lists
  <2> HIDE DEF V, L
  <2>2. /\ V \in Seq(Sections) /\ Len(V) = 3
        /\ V[1] = "name" /\ V[2] = "salt" /\ V[3] = "hashed_password"
    BY <2>1 DEF Sections
  <2>3. /\ DOMAIN L = 1..0 /\ Len(L) = 0
    BY <2>1
  <2> QED
    BY <2>2, <2>3 DEF Sections
<1>2. ASSUME type = "group" PROVE Fine
  <2>1. V = <<"name">> /\ L = << <<"users", "user">> >>
    BY <1>2 DEF Class, Values, Lists
  <2> HIDE DEF V, L
  <2>2. /\ V \in Seq(Sections) /\ Len(V) = 1
        /\ V[1] = "name"
    BY <2>1 DEF Sections
  <2>3. /\ DOMAIN L = 1..1 /\ Len(L) = 1
        /\ L[1][1] = "users"
    BY <2>1
  <2> QED
    BY <2>2, <2>3 DEF Sections
<1>3. ASSUME type = "command" PROVE Fine
  <2>1. V = <<"name", "exec", "num_params">> /\ L = << <<"users", "user">>, <<"groups", "group">> >>
    BY <1>3 DEF Class, Values, Lists
  <2> HIDE DEF V, L
  <2>2. /\ V \in Seq(Sections) /\ Len(V) = 3
        /\ V[1] = "name" /\ V[2] = "exec" /\ V[3] = "num_params"
    BY <2>1 DEF Sections
  <2>3. /\ DOMAIN L = 1..2 /\ Len(L) = 2
        /\ L[1][1] = "users"
        /\ L[2][1] = "groups"
    BY <2>1
  <2> QED
    BY <2>2, <2>3 DEF Sections
<1>4. ASSUME type = "commandgroup" PROVE Fine
  <2>1. V = <<"name">> /\ L = << <<"commands", "command">>, <<"groups", "commandgroup">> >>
    BY <1>4 DEF Class, Values, Lists
  <2> HIDE DEF V, L
  <2>2. /\ V \in Seq(Sections) /\ Len(V) = 1
        /\ V[1] = "name"
    BY <2>1 DEF Sections
  <2>3. /\ DOMAIN L = 1..2 /\ Len(L) = 2
        /\ L[1][1] = "commands"
        /\ L[2][1] = "groups"
    BY <2>1
  <2> QED
    BY <2>2, <2>3 DEF Sections
<1>5. ASSUME type = "serverdefinition" PROVE Fine
  <2>1. V = <<"name", "hostname", "certfile">> /\ L = <<  >>
    BY <1>5 DEF Class, Values, Lists
  <2> HIDE DEF V, L
  <2>2. /\ V \in Seq(Sections) /\ Len(V) = 3
        /\ V[1] = "name" /\ V[2] = "hostname" /\ V[3] = "certfile"
    BY <2>1 DEF Sections
  <2>3. /\ DOMAIN L = 1..0 /\ Len(L) = 0
    BY <2>1
  <2> QED
    BY <2>2, <2>3 DEF Sections
<1> QED
  <2>1. type \in {"user", "group", "command", "commandgroup", "serverdefinition"}
    BY DEF Class
  <2> HIDE DEF Fine
  <2>2. Fine
    BY <1>1, <1>2, <1>3, <1>4, <1>5, <2>1
  <2> QED
    BY <2>2 DEF Fine, V, L

(* FlattenSeq of a few sequences.                                           *)
Flattens(f, s) ==
  f = [i \in 1..Len(s) |-> IF i = 1 THEN s[i] ELSE f[i - 1] \o s[i]]

LEMMA FlattenFacts ==
  ASSUME NEW s, Len(s) \in 1..3
  PROVE  /\ Len(s) = 1 => FlattenSeq(s) = s[1]
         /\ Len(s) = 2 => FlattenSeq(s) = s[1] \o s[2]
         /\ Len(s) = 3 => FlattenSeq(s) = (s[1] \o s[2]) \o s[3]
<1> DEFINE n == Len(s)
           g == [i \in 1..n |-> IF i = 1 THEN s[1]
                                ELSE IF i = 2 THEN s[1] \o s[2]
                                ELSE (s[1] \o s[2]) \o s[3]]
           h == [i \in 1..n |-> IF i = 1 THEN s[i] ELSE g[i - 1] \o s[i]]
           f == CHOOSE f : Flattens(f, s)
<1>1. n \in 1..3
  OBVIOUS
<1>2. \A i \in 1..n : g[i] = h[i]
  <2>1. \A k \in 1..n : /\ k = 1 => g[k] = s[1]
                        /\ k = 2 => g[k] = s[1] \o s[2]
                        /\ k = 3 => g[k] = (s[1] \o s[2]) \o s[3]
    <3>1. 2 # 1 /\ 3 # 1 /\ 3 # 2
      OBVIOUS
    <3> QED
      BY <3>1, Zenon
  <2>2. \A k \in 1..n : h[k] = IF k = 1 THEN s[k] ELSE g[k - 1] \o s[k]
    BY Zenon
  <2> HIDE DEF g, h, n
  <2>3. ASSUME NEW i \in 1..n PROVE g[i] = h[i]
    <3>1. n \in Nat /\ (i = 1 \/ (i = 2 /\ 1 \in 1..n) \/ (i = 3 /\ 2 \in 1..n))
      BY <1>1
    <3>2. CASE i = 1
      BY <2>1, <2>2, <3>2
    <3>3. CASE i = 2 /\ 1 \in 1..n
      <4>1. i - 1 = 1
        BY <3>3
      <4> QED
        BY <2>1, <2>2, <3>3, <4>1, Zenon
    <3>4. CASE i = 3 /\ 2 \in 1..n
      <4>1. i - 1 = 2
        BY <3>4
      <4>2. g[2] = s[1] \o s[2]
        BY <2>1, <3>4, Zenon
      <4> QED
        BY <2>1, <2>2, <3>4, <4>1, <4>2
    <3> QED
      BY <3>1, <3>2, <3>3, <3>4
  <2> QED
    BY <2>3
<1>3. g = h
  BY <1>2
<1>4. Flattens(g, s)
  BY <1>3 DEF Flattens
<1>5. Flattens(f, s)
  BY <1>4
<1>6. FlattenSeq(s) = f[n]
  BY <1>1 DEF FlattenSeq, Flattens
<1> HIDE DEF f, g, h
<1>7. \A i \in 1..n : f[i] = IF i = 1 THEN s[i] ELSE f[i - 1] \o s[i]
  <2> DEFINE e == [i \in 1..n |-> IF i = 1 THEN s[i] ELSE f[i - 1] \o s[i]]
  <2>1. f = e
    BY <1>5 DEF Flattens
  <2>2. \A i \in 1..n : e[i] = IF i = 1 THEN s[i] ELSE f[i - 1] \o s[i]
    OBVIOUS
  <2> HIDE DEF e
  <2> QED
    BY <2>1, <2>2
<1>8. n = 1 => f[n] = s[1]
  BY <1>7
<1>9. n = 2 => f[n] = s[1] \o s[2]
  <2> SUFFICES ASSUME n = 2 PROVE f[2] = s[1] \o s[2]
    OBVIOUS
  <2>1. 1 \in 1..n /\ 2 \in 1..n /\ 2 - 1 = 1
    OBVIOUS
  <2>2. f[1] = s[1]
    BY <1>7, <2>1
  <2>3. f[2] = f[2 - 1] \o s[2]
    BY <1>7, <2>1
  <2> QED
    BY <2>1, <2>2, <2>3
<1>10. n = 3 => f[n] = (s[1] \o s[2]) \o s[3]
  <2> SUFFICES ASSUME n = 3 PROVE f[3] = (s[1] \o s[2]) \o s[3]
    OBVIOUS
  <2>1. 1 \in 1..n /\ 2 \in 1..n /\ 3 \in 1..n /\ 2 - 1 = 1 /\ 3 - 1 = 2
    OBVIOUS
  <2>2. f[1] = s[1]
    BY <1>7, <2>1
  <2>3. f[2] = f[2 - 1] \o s[2]
    BY <1>7, <2>1
  <2>4. f[3] = f[3 - 1] \o s[3]
    BY <1>7, <2>1
  <2> QED
    BY <2>1, <2>2, <2>3, <2>4
<1> QED
  BY <1>6, <1>8, <1>9, <1>10

(* Two sequences one after the other.                                       *)
LEMMA JoinedFacts ==
  ASSUME NEW T, NEW a \in Seq(T), NEW b \in Seq(T)
  PROVE  /\ a \o b \in Seq(T) /\ Len(a \o b) = Len(a) + Len(b)
         /\ \A i \in 1..Len(a) : (a \o b)[i] = a[i]
         /\ \A i \in 1..Len(b) : (a \o b)[Len(a) + i] = b[i]
  OBVIOUS

LEMMA ThreeJoined ==
  ASSUME NEW T, NEW a \in Seq(T), NEW b \in Seq(T), NEW c \in Seq(T)
  PROVE  LET d == (a \o b) \o c
         IN /\ d \in Seq(T) /\ Len(d) = Len(a) + Len(b) + Len(c)
            /\ \A i \in 1..Len(a) : d[i] = a[i]
            /\ \A i \in 1..Len(b) : d[Len(a) + i] = b[i]
            /\ \A i \in 1..Len(c) : d[Len(a) + Len(b) + i] = c[i]
<1> DEFINE e == a \o b
           d == e \o c
<1>1. /\ e \in Seq(T) /\ Len(e) = Len(a) + Len(b)
      /\ \A i \in 1..Len(a) : e[i] = a[i]
      /\ \A i \in 1..Len(b) : e[Len(a) + i] = b[i]
  BY JoinedFacts
<1>2. Len(a) \in Nat /\ Len(b) \in Nat /\ e \in Seq(T)
  OBVIOUS
<1> HIDE DEF e
<1>3. /\ d \in Seq(T) /\ Len(d) = Len(e) + Len(c)
      /\ \A i \in 1..Len(e) : d[i] = e[i]
      /\ \A i \in 1..Len(c) : d[Len(e) + i] = c[i]
  BY <1>2, JoinedFacts
<1> HIDE DEF d
<1>4. /\ \A i \in 1..Len(a) : i \in 1..Len(e)
      /\ \A i \in 1..Len(b) : Len(a) + i \in 1..Len(e)
  BY <1>1, <1>2
<1> QED
  BY <1>1, <1>3, <1>4 DEF d, e

(* What of the names is of a type, in the same order.                       *)
ListsUpTo(f, names, type) ==
  f = [i \in 0..Len(names) |->
         IF i = 0 THEN <<>>
         ELSE IF names[i].type = type THEN Append(f[i - 1], names[i]) ELSE f[i - 1]]

LEMMA ListedFacts ==
  ASSUME NEW S, NEW names \in Seq(S), NEW type
  PROVE  /\ Listed(names, type) \in Seq(S)
         /\ \A i \in 1..Len(Listed(names, type)) : Listed(names, type)[i].type = type
<1> DEFINE n == Len(names)
           T == Seq({x \in S : x.type = type})
           F == [p \in (1..n) \X T |->
                   IF names[p[1]].type = type THEN Append(p[2], names[p[1]]) ELSE p[2]]
<1>1. n \in Nat /\ \A i \in 1..n : names[i] \in S
  OBVIOUS
<1>2. F \in [(1..n) \X T -> T]
  <2>1. ASSUME NEW p \in (1..n) \X T
        PROVE  (IF names[p[1]].type = type THEN Append(p[2], names[p[1]]) ELSE p[2]) \in T
    <3>1. p[2] \in T /\ names[p[1]] \in S
      BY <1>1
    <3> QED
      BY <3>1
  <2> QED
    BY <2>1
<1>3. \A i \in 1..n, d \in T :
        F[<<i, d>>] = IF names[i].type = type THEN Append(d, names[i]) ELSE d
  OBVIOUS
<1>4. <<>> \in T
  OBVIOUS
<1> HIDE DEF F
<1>5. PICK g \in [0..n -> T] : Iterates(g, <<>>, F, n)
  <2> HIDE DEF n, T
  <2> QED
    BY <1>1, <1>2, <1>4, RecursionExists
<1>6. ASSUME NEW i \in 0..n
      PROVE  g[i] = IF i = 0 THEN <<>>
                    ELSE IF names[i].type = type THEN Append(g[i - 1], names[i])
                    ELSE g[i - 1]
  <2>1. i # 0 => i \in 1..n /\ i - 1 \in 0..n
    BY <1>1
  <2>2. i # 0 => g[i - 1] \in T
    BY <2>1, <1>5
  <2> HIDE DEF T
  <2> QED
    BY <1>3, <1>5, <2>1, <2>2 DEF Iterates
<1>7. ListsUpTo(g, names, type)
  <2> HIDE DEF T
  <2> QED
    BY <1>5, <1>6 DEF ListsUpTo
<1> DEFINE f == CHOOSE f : ListsUpTo(f, names, type)
<1>8. ListsUpTo(f, names, type)
  BY <1>7
<1>9. Listed(names, type) = f[n]
  BY DEF Listed, ListsUpTo
<1> HIDE DEF f
<1>10. \A i \in 0..n : f[i] = IF i = 0 THEN <<>>
                    ELSE IF names[i].type = type THEN Append(f[i - 1], names[i])
                    ELSE f[i - 1]
  <2> DEFINE h == [i \in 0..n |-> IF i = 0 THEN <<>>
                    ELSE IF names[i].type = type THEN Append(f[i - 1], names[i])
                    ELSE f[i - 1]]
  <2>1. f = h
    BY <1>8 DEF ListsUpTo
  <2>2. \A i \in 0..n : h[i] = IF i = 0 THEN <<>>
                    ELSE IF names[i].type = type THEN Append(f[i - 1], names[i])
                    ELSE f[i - 1]
    OBVIOUS
  <2> HIDE DEF h
  <2> QED
    BY <2>1, <2>2
<1> DEFINE G == {m \in Nat : m <= n => f[m] \in T}
<1>11. 0 \in G
  <2>1. 0 \in 0..n
    BY <1>1
  <2>2. f[0] = <<>>
    BY <1>10, <2>1
  <2> QED
    BY <1>4, <2>2
<1>12. ASSUME NEW m \in Nat, m \in G PROVE m + 1 \in G
  <2> SUFFICES ASSUME m + 1 <= n PROVE f[m + 1] \in T
    OBVIOUS
  <2>1. m + 1 \in 0..n /\ m + 1 # 0 /\ m + 1 - 1 = m /\ m + 1 \in 1..n
    BY <1>1
  <2>2. f[m] \in T
    BY <1>12, <1>1
  <2>3. f[m + 1] = IF names[m + 1].type = type THEN Append(f[m], names[m + 1]) ELSE f[m]
    BY <1>10, <2>1
  <2>4. names[m + 1] \in S
    BY <1>1, <2>1
  <2> QED
    BY <2>2, <2>3, <2>4
<1>13. f[n] \in T
  <2> HIDE DEF n, T
  <2>1. Nat \subseteq G
    BY <1>11, <1>12, NaturalInduction
  <2> QED
    BY <2>1, <1>1
<1> QED
  BY <1>9, <1>13

(* The lines of a file whose object names some of S; where a list begins.   *)
Texts(S) ==
  {Mark(s) : s \in Sections} \cup {EndMark(s) : s \in Sections}
    \cup {Value(s) : s \in Sections} \cup {Entry(x) : x \in S}
Part(type, names, l) == Listed(names, Lists(type)[l][2])
Base(type, names, l) ==
  2 * Len(Values(type)) + (IF l = 1 THEN 0 ELSE Len(Part(type, names, 1)) + 2)

SectionPlaces(S, names, list) ==
  LET P == Listed(names, list[2])
      L == Section(names, list)
  IN /\ P \in Seq(S) /\ L \in Seq(Texts(S)) /\ Len(L) = Len(P) + 2
     /\ L[1] = Mark(list[1]) /\ L[Len(P) + 2] = EndMark(list[1])
     /\ \A i \in 1..Len(P) : L[1 + i] = Entry(P[i])

LEMMA SectionFacts ==
  ASSUME NEW S, NEW names \in Seq(S), NEW list, list[1] \in Sections
  PROVE  SectionPlaces(S, names, list)
<1> DEFINE P == Listed(names, list[2])
           T == Texts(S)
           n == Len(P)
           a == <<Mark(list[1])>>
           b == [i \in DOMAIN P |-> Entry(P[i])]
           c == <<EndMark(list[1])>>
<1>1. P \in Seq(S)
  BY ListedFacts
<1> HIDE DEF P
<1>2. n \in Nat /\ DOMAIN P = 1..n /\ \A i \in 1..n : P[i] \in S
  BY <1>1
<1> HIDE DEF n
<1> DEFINE d == (a \o b) \o c
<1>3. a \in Seq(T) /\ b \in Seq(T) /\ c \in Seq(T)
  <2>1. Mark(list[1]) \in T /\ EndMark(list[1]) \in T /\ \A i \in 1..n : Entry(P[i]) \in T
    BY <1>2 DEF Texts
  <2> HIDE DEF T
  <2>2. b \in [1..n -> T]
    BY <1>2, <2>1
  <2> QED
    BY <1>2, <2>1, <2>2
<1>4. /\ d \in Seq(T) /\ Len(d) = Len(a) + Len(b) + Len(c)
      /\ \A i \in 1..Len(a) : d[i] = a[i]
      /\ \A i \in 1..Len(b) : d[Len(a) + i] = b[i]
      /\ \A i \in 1..Len(c) : d[Len(a) + Len(b) + i] = c[i]
  <2> HIDE DEF a, b, c, T
  <2> QED
    BY <1>3, ThreeJoined
<1>5. Section(names, list) = d
  BY DEF Section, P
<1> HIDE DEF d, T
<1>6. /\ Len(a) = 1 /\ a[1] = Mark(list[1])
      /\ Len(c) = 1 /\ c[1] = EndMark(list[1])
  OBVIOUS
<1>7. Len(b) = n /\ \A i \in 1..n : b[i] = Entry(P[i])
  BY <1>2
<1> HIDE DEF a, b, c
<1>8. /\ Len(d) = n + 2 /\ d[1] = Mark(list[1]) /\ d[n + 2] = EndMark(list[1])
      /\ \A i \in 1..n : d[1 + i] = Entry(P[i])
  <2>1. 1 \in 1..1 /\ 1 + n + 1 = n + 2
    BY <1>2
  <2>2. d[1] = a[1] /\ d[1 + n + 1] = c[1]
    BY <1>4, <1>6, <1>7, <2>1
  <2> QED
    BY <1>2, <1>4, <1>6, <1>7, <2>1, <2>2
<1> QED
  BY <1>1, <1>4, <1>5, <1>8 DEF P, T, n, SectionPlaces

(* The lines of the values.                                                 *)
ValueLines(type) ==
  FlattenSeq([i \in DOMAIN Values(type) |->
                <<Mark(Values(type)[i]), Value(Values(type)[i])>>])

LEMMA ValueLinesFacts ==
  ASSUME NEW S, NEW type \in DOMAIN Class
  PROVE  /\ ValueLines(type) \in Seq(Texts(S)) /\ Len(ValueLines(type)) = 2 * Len(Values(type))
         /\ \A i \in 1..Len(Values(type)) :
              /\ ValueLines(type)[2 * i - 1] = Mark(Values(type)[i])
              /\ ValueLines(type)[2 * i] = Value(Values(type)[i])
<1> DEFINE V == Values(type)
           T == Texts(S)
           s == [i \in DOMAIN V |-> <<Mark(V[i]), Value(V[i])>>]
           n == Len(V)
<1>1. V \in Seq(Sections) /\ n \in {1, 3}
  BY ClassFacts
<1>2. DOMAIN V = 1..n /\ \A i \in 1..n : V[i] \in Sections
  BY <1>1
<1>3. \A i \in 1..n : Mark(V[i]) \in T /\ Value(V[i]) \in T
  BY <1>2 DEF Texts
<1> HIDE DEF V, T, n
<1>4. ASSUME NEW i \in 1..n
      PROVE  /\ s[i] \in Seq(T) /\ Len(s[i]) = 2
             /\ s[i][1] = Mark(V[i]) /\ s[i][2] = Value(V[i])
  <2>1. s[i] = <<Mark(V[i]), Value(V[i])>>
    BY <1>2
  <2> HIDE DEF s
  <2> QED
    BY <1>3, <2>1
<1>5. s \in Seq(Seq(T)) /\ Len(s) = n
  <2>1. s \in [1..n -> Seq(T)]
    <3>1. DOMAIN s = 1..n /\ s = [i \in 1..n |-> s[i]]
      BY <1>2
    <3> HIDE DEF s
    <3> QED
      BY <1>4, <3>1
  <2>2. n \in Nat
    BY <1>1
  <2> HIDE DEF s
  <2> QED
    BY <2>1, <2>2
<1>6. ValueLines(type) = FlattenSeq(s)
  BY DEF ValueLines, V
<1> HIDE DEF s
<1>7. CASE n = 1
  <2>1. Len(s) = 1 /\ Len(s) \in 1..3 /\ 1 \in 1..n
    BY <1>5, <1>7
  <2>2. FlattenSeq(s) = s[1] /\ 1 \in 1..n
    BY <2>1, FlattenFacts, Zenon
  <2>3. \A i \in 1..n : i = 1
    BY <1>7
  <2>4. 2 * 1 - 1 = 1 /\ 2 * 1 = 2
    OBVIOUS
  <2> QED
    BY <1>4, <1>6, <1>7, <2>2, <2>3, <2>4 DEF V, T, n
<1>8. CASE n = 3
  <2>1. Len(s) = 3 /\ Len(s) \in 1..3
    BY <1>5, <1>8
  <2>2. FlattenSeq(s) = (s[1] \o s[2]) \o s[3]
    BY <2>1, FlattenFacts, Zenon
  <2>3. 1 \in 1..n /\ 2 \in 1..n /\ 3 \in 1..n
    BY <1>8
  <2> DEFINE a == s[1]
             b == s[2]
             c == s[3]
             e == (a \o b) \o c
  <2>4. a \in Seq(T) /\ b \in Seq(T) /\ c \in Seq(T)
    BY <1>4, <2>3
  <2>5. /\ Len(a) = 2 /\ a[1] = Mark(V[1]) /\ a[2] = Value(V[1])
        /\ Len(b) = 2 /\ b[1] = Mark(V[2]) /\ b[2] = Value(V[2])
        /\ Len(c) = 2 /\ c[1] = Mark(V[3]) /\ c[2] = Value(V[3])
    BY <1>4, <2>3
  <2> HIDE DEF a, b, c
  <2>6. /\ e \in Seq(T) /\ Len(e) = 6
        /\ e[1] = a[1] /\ e[2] = a[2] /\ e[3] = b[1] /\ e[4] = b[2]
        /\ e[5] = c[1] /\ e[6] = c[2]
    <3>1. /\ e \in Seq(T) /\ Len(e) = Len(a) + Len(b) + Len(c)
          /\ \A i \in 1..Len(a) : e[i] = a[i]
          /\ \A i \in 1..Len(b) : e[Len(a) + i] = b[i]
          /\ \A i \in 1..Len(c) : e[Len(a) + Len(b) + i] = c[i]
      BY <2>4, ThreeJoined
    <3> HIDE DEF e
    <3>2. /\ 1 \in 1..2 /\ 2 \in 1..2 /\ 2 + 1 = 3 /\ 2 + 2 = 4 /\ 2 + 2 + 1 = 5
          /\ 2 + 2 + 2 = 6
      OBVIOUS
    <3>3. /\ e[2 + 1] = b[1] /\ e[2 + 2] = b[2]
          /\ e[2 + 2 + 1] = c[1] /\ e[2 + 2 + 2] = c[2]
      BY <2>5, <3>1, <3>2
    <3> QED
      BY <2>5, <3>1, <3>2, <3>3
  <2> HIDE DEF e
  <2>7. ValueLines(type) = e
    BY <1>6, <2>2 DEF a, b, c, e
  <2>8. \A i \in 1..n : i = 1 \/ i = 2 \/ i = 3
    BY <1>8
  <2>9. \A i \in 1..n : e[2 * i - 1] = Mark(V[i]) /\ e[2 * i] = Value(V[i])
    <3>1. /\ 2 * 1 - 1 = 1 /\ 2 * 1 = 2 /\ 2 * 2 - 1 = 3 /\ 2 * 2 = 4
          /\ 2 * 3 - 1 = 5 /\ 2 * 3 = 6
      OBVIOUS
    <3> QED
      BY <2>4, <2>5, <2>6, <2>8, <3>1
  <2> QED
    BY <1>8, <2>6, <2>7, <2>9 DEF V, T, n
<1> QED
  BY <1>1, <1>7, <1>8 DEF V, n

(* The lines of the lists.                                                  *)
ListLines(type, names) ==
  FlattenSeq([i \in DOMAIN Lists(type) |-> Section(names, Lists(type)[i])])

Sizes(type, names) ==
  LET n == Len(Lists(type))
  IN IF n = 0 THEN 0
     ELSE IF n = 1 THEN Len(Part(type, names, 1)) + 2
     ELSE Len(Part(type, names, 1)) + 2 + (Len(Part(type, names, 2)) + 2)

ListPlaces(S, type, names) ==
  LET t == ListLines(type, names)
      L == Lists(type)
      p == Len(Part(type, names, 1)) + 2
      q == Len(Part(type, names, 2)) + 2
  IN /\ t \in Seq(Texts(S)) /\ Len(t) = Sizes(type, names)
     /\ Len(L) >= 1 => \A i \in 1..p : t[i] = Section(names, L[1])[i]
     /\ Len(L) = 2 => \A i \in 1..q : t[p + i] = Section(names, L[2])[i]

LEMMA ListLinesFacts ==
  ASSUME NEW S, NEW type \in DOMAIN Class, NEW names \in Seq(S)
  PROVE  ListPlaces(S, type, names)
<1> DEFINE L == Lists(type)
           T == Texts(S)
           s == [i \in DOMAIN L |-> Section(names, L[i])]
           n == Len(L)
<1> SUFFICES /\ ListLines(type, names) \in Seq(T)
             /\ Len(ListLines(type, names)) = Sizes(type, names)
             /\ n >= 1 => \A i \in 1..(Len(Part(type, names, 1)) + 2) :
                  ListLines(type, names)[i] = Section(names, L[1])[i]
             /\ n = 2 => \A i \in 1..(Len(Part(type, names, 2)) + 2) :
                  ListLines(type, names)[Len(Part(type, names, 1)) + 2 + i]
                    = Section(names, L[2])[i]
  BY DEF ListPlaces
<1>1. DOMAIN L = 1..n /\ n \in 0..2 /\ \A i \in 1..n : L[i][1] \in Sections
  BY ClassFacts
<1> HIDE DEF L, n
<1>2. ASSUME NEW i \in 1..n
      PROVE  /\ s[i] = Section(names, L[i])
             /\ s[i] \in Seq(T) /\ Len(s[i]) = Len(Part(type, names, i)) + 2
             /\ Len(Part(type, names, i)) \in Nat
  <2>1. s[i] = Section(names, L[i])
    BY <1>1
  <2>2. /\ Listed(names, L[i][2]) \in Seq(S) /\ Section(names, L[i]) \in Seq(T)
        /\ Len(Section(names, L[i])) = Len(Listed(names, L[i][2])) + 2
    <3>1. SectionPlaces(S, names, L[i])
      BY <1>1, SectionFacts
    <3> QED
      BY <3>1 DEF SectionPlaces
  <2> HIDE DEF s, T
  <2>3. Len(Listed(names, L[i][2])) \in Nat
    BY <2>2
  <2> QED
    BY <2>1, <2>2, <2>3 DEF Part, L
<1>3. s \in Seq(Seq(T)) /\ Len(s) = n
  <2>1. s \in [1..n -> Seq(T)]
    <3>1. DOMAIN s = 1..n /\ s = [i \in 1..n |-> s[i]]
      BY <1>1
    <3> HIDE DEF s, T
    <3> QED
      BY <1>2, <3>1
  <2>2. n \in Nat
    BY <1>1
  <2> HIDE DEF s, T
  <2> QED
    BY <2>1, <2>2
<1>4. ListLines(type, names) = FlattenSeq(s)
  BY DEF ListLines, L
<1> HIDE DEF s, T
<1>5. CASE n = 0
  <2>1. FlattenSeq(s) = s
    BY <1>3, <1>5 DEF FlattenSeq
  <2>2. s = <<>> /\ <<>> \in Seq(T)
    BY <1>3, <1>5
  <2>3. FlattenSeq(s) \in Seq(T) /\ Len(FlattenSeq(s)) = 0
    BY <2>1, <2>2
  <2> QED
    BY <1>4, <1>5, <2>3 DEF Sizes, L, T, n
<1>6. CASE n = 1
  <2>1. Len(s) = 1 /\ Len(s) \in 1..3 /\ 1 \in 1..n
    BY <1>3, <1>6
  <2>2. FlattenSeq(s) = s[1] /\ 1 \in 1..n
    BY <2>1, FlattenFacts, Zenon
  <2>3. FlattenSeq(s) = Section(names, L[1]) /\ FlattenSeq(s) \in Seq(T)
        /\ Len(FlattenSeq(s)) = Len(Part(type, names, 1)) + 2
    BY <1>2, <2>2
  <2> QED
    BY <1>4, <1>6, <2>3 DEF Sizes, L, T, n
<1>7. CASE n = 2
  <2>1. Len(s) = 2 /\ Len(s) \in 1..3 /\ 1 \in 1..n /\ 2 \in 1..n
    BY <1>3, <1>7
  <2>2. FlattenSeq(s) = s[1] \o s[2] /\ 1 \in 1..n /\ 2 \in 1..n
    BY <2>1, FlattenFacts, Zenon
  <2> DEFINE p == Len(Part(type, names, 1))
             q == Len(Part(type, names, 2))
             a == s[1]
             b == s[2]
             c == a \o b
  <2>3. a \in Seq(T) /\ b \in Seq(T)
    BY <1>2, <2>2
  <2>4. /\ p \in Nat /\ q \in Nat
        /\ Len(a) = p + 2 /\ a = Section(names, L[1])
        /\ Len(b) = q + 2 /\ b = Section(names, L[2])
    BY <1>2, <2>2
  <2> HIDE DEF a, b, p, q
  <2>5. /\ c \in Seq(T) /\ Len(c) = Len(a) + Len(b)
        /\ \A i \in 1..Len(a) : c[i] = a[i]
        /\ \A i \in 1..Len(b) : c[Len(a) + i] = b[i]
    BY <2>3, JoinedFacts
  <2>6. FlattenSeq(s) = c
    BY <2>2 DEF a, b
  <2> HIDE DEF c
  <2>7. /\ c \in Seq(T) /\ Len(c) = p + 2 + (q + 2)
        /\ \A i \in 1..(p + 2) : c[i] = a[i]
        /\ \A i \in 1..(q + 2) : c[p + 2 + i] = b[i]
    BY <2>4, <2>5
  <2> QED
    BY <1>4, <1>7, <2>4, <2>6, <2>7 DEF Sizes, L, T, n, p, q
<1> QED
  BY <1>1, <1>5, <1>6, <1>7

(* The lines of a file, place by place.                                     *)
PlaceByPlace(S, type, names) ==
  LET V == Values(type)
      L == Lists(type)
      P(l) == Part(type, names, l)
      B(l) == Base(type, names, l)
      F == Lines(type, names)
  IN /\ F \in Seq(Texts(S)) /\ Len(F) = 2 * Len(V) + Sizes(type, names)
     /\ \A i \in 1..Len(V) : F[2 * i - 1] = Mark(V[i]) /\ F[2 * i] = Value(V[i])
     /\ \A l \in 1..Len(L) :
          /\ P(l) \in Seq(S) /\ \A i \in 1..Len(P(l)) : P(l)[i].type = L[l][2]
          /\ F[B(l) + 1] = Mark(L[l][1])
          /\ F[B(l) + Len(P(l)) + 2] = EndMark(L[l][1])
          /\ \A i \in 1..Len(P(l)) : F[B(l) + 1 + i] = Entry(P(l)[i])

LEMMA LinesFacts ==
  ASSUME NEW S, NEW type \in DOMAIN Class, NEW names \in Seq(S)
  PROVE  PlaceByPlace(S, type, names)
<1> DEFINE V == Values(type)
           L == Lists(type)
           P(l) == Part(type, names, l)
           B(l) == Base(type, names, l)
           F == Lines(type, names)
           n == Len(V)
           m == Len(L)
           h == ValueLines(type)
           t == ListLines(type, names)
           T == Texts(S)
<1>1. n \in {1, 3} /\ m \in 0..2 /\ \A l \in 1..m : L[l][1] \in Sections
  BY ClassFacts
<1>2. /\ h \in Seq(T) /\ Len(h) = 2 * n
      /\ \A i \in 1..n : h[2 * i - 1] = Mark(V[i]) /\ h[2 * i] = Value(V[i])
  BY ValueLinesFacts
<1>3. /\ t \in Seq(T) /\ Len(t) = Sizes(type, names)
      /\ m >= 1 => \A i \in 1..(Len(P(1)) + 2) : t[i] = Section(names, L[1])[i]
      /\ m = 2 => \A i \in 1..(Len(P(2)) + 2) :
                    t[Len(P(1)) + 2 + i] = Section(names, L[2])[i]
  <2>1. ListPlaces(S, type, names)
    BY ListLinesFacts
  <2> QED
    BY <2>1 DEF ListPlaces
<1>4. F = h \o t
  BY DEF Lines, ValueLines, ListLines, Values, Lists
<1>5. ASSUME NEW l \in 1..m
      PROVE  /\ P(l) \in Seq(S) /\ \A i \in 1..Len(P(l)) : P(l)[i].type = L[l][2]
             /\ Len(P(l)) \in Nat
             /\ Section(names, L[l])[1] = Mark(L[l][1])
             /\ Section(names, L[l])[Len(P(l)) + 2] = EndMark(L[l][1])
             /\ \A i \in 1..Len(P(l)) : Section(names, L[l])[1 + i] = Entry(P(l)[i])
  <2>1. /\ Listed(names, L[l][2]) \in Seq(S)
        /\ \A i \in 1..Len(Listed(names, L[l][2])) : Listed(names, L[l][2])[i].type = L[l][2]
    BY ListedFacts
  <2>2. P(l) = Listed(names, L[l][2])
    BY DEF Part
  <2>3. L[l][1] \in Sections
    BY <1>1
  <2> DEFINE list == L[l]
  <2> HIDE DEF L, list
  <2>4. list[1] \in Sections
    BY <2>3 DEF list
  <2>5. /\ Section(names, list)[1] = Mark(list[1])
        /\ Section(names, list)[Len(Listed(names, list[2])) + 2] = EndMark(list[1])
        /\ \A i \in 1..Len(Listed(names, list[2])) :
             Section(names, list)[1 + i] = Entry(Listed(names, list[2])[i])
    <3>1. SectionPlaces(S, names, list)
      BY <2>4, SectionFacts
    <3> QED
      BY <3>1 DEF SectionPlaces
  <2>6. /\ Section(names, L[l])[1] = Mark(L[l][1])
        /\ Section(names, L[l])[Len(P(l)) + 2] = EndMark(L[l][1])
        /\ \A i \in 1..Len(P(l)) : Section(names, L[l])[1 + i] = Entry(P(l)[i])
    BY <2>2, <2>5 DEF list
  <2>7. P(l) \in Seq(S) /\ Len(P(l)) \in Nat
    BY <2>1, <2>2
  <2> QED
    BY <2>1, <2>2, <2>6, <2>7
<1>6. /\ h \in Seq(T) /\ t \in Seq(T)
  BY <1>2, <1>3
<1> HIDE DEF h, t, T
<1> DEFINE f == h \o t
<1>7. /\ f \in Seq(T) /\ Len(f) = Len(h) + Len(t)
      /\ \A i \in 1..Len(h) : f[i] = h[i]
      /\ \A i \in 1..Len(t) : f[Len(h) + i] = t[i]
  BY <1>6, JoinedFacts
<1> HIDE DEF f
<1>8. F = f
  BY <1>4 DEF f
<1>9. B(1) = 2 * n + 0 /\ B(2) = 2 * n + (Len(P(1)) + 2)
  BY DEF Base
<1>10. Sizes(type, names) = IF m = 0 THEN 0 ELSE IF m = 1 THEN Len(P(1)) + 2
                            ELSE Len(P(1)) + 2 + (Len(P(2)) + 2)
  BY DEF Sizes
<1> HIDE DEF V, L, P, B, F, n, m
<1>11. f \in Seq(T) /\ Len(f) = 2 * n + Sizes(type, names)
  BY <1>2, <1>3, <1>7
<1>12. \A i \in 1..n : f[2 * i - 1] = Mark(V[i]) /\ f[2 * i] = Value(V[i])
  <2>1. \A i \in 1..n : 2 * i - 1 \in 1..(2 * n) /\ 2 * i \in 1..(2 * n)
    BY <1>1
  <2> QED
    BY <1>2, <1>7, <2>1
<1>13. ASSUME NEW l \in 1..m
       PROVE  \A i \in 1..(Len(P(l)) + 2) : f[B(l) + i] = Section(names, L[l])[i]
  <2>1. l \in {1, 2} /\ n \in Nat
    BY <1>1
  <2>2. CASE l = 1
    <3>1. Len(P(1)) \in Nat /\ m >= 1 /\ (m = 2 => Len(P(2)) \in Nat)
      BY <1>1, <1>5, <2>2
    <3>2. \A i \in 1..(Len(P(1)) + 2) : i \in 1..Len(t)
      BY <1>1, <1>3, <1>10, <3>1
    <3>3. B(1) = 2 * n
      BY <1>9, <2>1
    <3> QED
      BY <1>2, <1>3, <1>7, <2>2, <3>1, <3>2, <3>3
  <2>3. CASE l = 2
    <3>1. Len(P(1)) \in Nat /\ Len(P(2)) \in Nat /\ m = 2
      BY <1>1, <1>5, <2>3
    <3>2. \A i \in 1..(Len(P(2)) + 2) : Len(P(1)) + 2 + i \in 1..Len(t)
      BY <1>3, <1>10, <3>1
    <3>3. B(2) = 2 * n + (Len(P(1)) + 2)
      BY <1>9
    <3>4. \A i \in 1..(Len(P(2)) + 2) : B(2) + i = Len(h) + (Len(P(1)) + 2 + i)
      BY <1>2, <2>1, <3>1, <3>3
    <3> QED
      BY <1>3, <1>7, <2>3, <3>1, <3>2, <3>4
  <2> QED
    BY <2>1, <2>2, <2>3
<1>14. ASSUME NEW l \in 1..m
       PROVE  /\ f[B(l) + 1] = Mark(L[l][1])
              /\ f[B(l) + Len(P(l)) + 2] = EndMark(L[l][1])
              /\ \A i \in 1..Len(P(l)) : f[B(l) + 1 + i] = Entry(P(l)[i])
  <2>1. Len(P(l)) \in Nat /\ B(l) \in Nat
    <3>1. Len(P(l)) \in Nat /\ n \in Nat /\ l \in {1, 2}
      BY <1>1, <1>5
    <3>2. Len(P(1)) \in Nat
      <4>1. 1 \in 1..m
        BY <1>1
      <4> QED
        BY <1>5, <4>1
    <3>3. B(1) \in Nat /\ B(2) \in Nat
      BY <1>9, <3>1, <3>2
    <3> QED
      BY <3>1, <3>3
  <2>2. /\ 1 \in 1..(Len(P(l)) + 2) /\ Len(P(l)) + 2 \in 1..(Len(P(l)) + 2)
        /\ \A i \in 1..Len(P(l)) : 1 + i \in 1..(Len(P(l)) + 2)
    BY <2>1
  <2>3. /\ B(l) + (Len(P(l)) + 2) = B(l) + Len(P(l)) + 2
        /\ \A i \in 1..Len(P(l)) : B(l) + (1 + i) = B(l) + 1 + i
    BY <2>1
  <2>4. /\ f[B(l) + 1] = Section(names, L[l])[1]
        /\ f[B(l) + (Len(P(l)) + 2)] = Section(names, L[l])[Len(P(l)) + 2]
        /\ \A i \in 1..Len(P(l)) : f[B(l) + (1 + i)] = Section(names, L[l])[1 + i]
    BY <1>13, <2>2
  <2> QED
    BY <1>5, <2>3, <2>4
<1> QED
  BY <1>5, <1>8, <1>11, <1>12, <1>14 DEF V, L, P, B, F, n, m, T, PlaceByPlace

(***************************************************************************)
(* What load has made of the lines it has read.                            *)
(***************************************************************************)
ValuesTo(type, o, m) ==
  \A i \in 1..Len(Values(type)) :
    o.values[Values(type)[i]] = IF i <= m THEN Value(Values(type)[i]) ELSE Blank
Before(type, names, l) == IF l = 1 THEN <<>> ELSE Part(type, names, 1)

(* After the value of a section, ...                                        *)
AfterValue(type, o, k) ==
  \E i \in 0..Len(Values(type)) :
    /\ k = 2 * i /\ ValuesTo(type, o, i) /\ o.names = <<>>
    /\ \/ o.ps = Mark("toplevel")
       \/ /\ i > 0 /\ i = Len(Values(type)) /\ Len(Lists(type)) = 0
          /\ o.ps = Mark("certfile")

(* ... before one, ...                                                      *)
BeforeValue(type, o, k) ==
  \E i \in 1..Len(Values(type)) :
    /\ k = 2 * i - 1 /\ ValuesTo(type, o, i - 1) /\ o.names = <<>>
    /\ o.ps = Mark(Values(type)[i])

(* ... in a list, and ...                                                   *)
InList(type, names, o, k) ==
  \E l \in 1..Len(Lists(type)) : \E j \in 0..Len(Part(type, names, l)) :
    /\ k = Base(type, names, l) + 1 + j /\ ValuesTo(type, o, Len(Values(type)))
    /\ o.names = Before(type, names, l) \o SubSeq(Part(type, names, l), 1, j)
    /\ o.ps = Mark(Lists(type)[l][1])

(* ... after it.                                                            *)
AfterList(type, names, o, k) ==
  \E l \in 1..Len(Lists(type)) :
    /\ k = Base(type, names, l) + Len(Part(type, names, l)) + 2
    /\ ValuesTo(type, o, Len(Values(type)))
    /\ o.names = Before(type, names, l) \o Part(type, names, l)
    /\ o.ps = Mark("toplevel")

ReadTo(type, names, o, k) ==
  \/ AfterValue(type, o, k) \/ BeforeValue(type, o, k)
  \/ InList(type, names, o, k) \/ AfterList(type, names, o, k)

(* The sections of a class are told apart by their names.                   *)
LEMMA SectionsApart ==
  ASSUME saving.type \in DOMAIN Class
  PROVE  /\ "toplevel" \notin ValueSections \cup ListSections
         /\ ValueSections \cap ListSections = {}
         /\ ValueSections = {Values(saving.type)[i] : i \in 1..Len(Values(saving.type))}
         /\ \A l \in 1..Len(Lists(saving.type)) : Lists(saving.type)[l][1] \in ListSections
         /\ \A l \in 1..Len(Lists(saving.type)) : \A x :
              IsReference(x) /\ x.type = Lists(saving.type)[l][2] =>
                ObjectIn(Lists(saving.type)[l][1], Entry(x)) = x
<1> DEFINE V == Values(saving.type)
           L == Lists(saving.type)
           n == Len(V)
           m == Len(L)
<1>1. /\ V \in Seq(Sections) /\ \A i \in 1..n : V[i] # "toplevel"
      /\ DOMAIN L = 1..m
      /\ \A l \in 1..m : /\ L[l][1] # "toplevel"
                         /\ \A i \in 1..n : L[l][1] # V[i]
                         /\ \A k \in 1..m : L[l][1] = L[k][1] => l = k
  BY ClassFacts
<1>2. ValueSections = ToSet(V) /\ ListSections = {l[1] : l \in ToSet(L)}
  BY DEF ValueSections, ListSections, Values, Lists
<1>3. DOMAIN V = 1..n
  BY <1>1
<1>4. \A l, x : ObjectIn(l, Entry(x))
                  = [type |-> (CHOOSE k \in ToSet(L) : k[1] = l)[2], name |-> x.name]
  BY DEF ObjectIn, Entry, Lists
<1> HIDE DEF V, L, n, m
<1>5. ValueSections = {V[i] : i \in 1..n}
  BY <1>2, <1>3 DEF ToSet
<1>6. /\ \A l \in 1..m : L[l] \in ToSet(L)
      /\ \A k \in ToSet(L) : \E l \in 1..m : k = L[l]
  BY <1>1 DEF ToSet
<1>7. /\ \A l \in 1..m : L[l][1] \in ListSections
      /\ \A s \in ListSections : \E l \in 1..m : s = L[l][1]
  BY <1>2, <1>6
<1>8. ASSUME NEW l \in 1..m, NEW x, IsReference(x), x.type = L[l][2]
      PROVE  ObjectIn(L[l][1], Entry(x)) = x
  <2> DEFINE c == CHOOSE k \in ToSet(L) : k[1] = L[l][1]
  <2>1. c \in ToSet(L) /\ c[1] = L[l][1]
    BY <1>6
  <2> HIDE DEF c
  <2>2. c = L[l]
    BY <1>1, <1>6, <2>1
  <2>3. ObjectIn(L[l][1], Entry(x)) = [type |-> c[2], name |-> x.name]
    BY <1>4 DEF c
  <2> QED
    BY <1>8, <2>2, <2>3 DEF IsReference
<1> QED
  BY <1>1, <1>5, <1>7, <1>8 DEF V, L, n, m

(* One more of a list.                                                      *)
OneByOne(S, b, p) ==
  /\ b \o p \in Seq(S)
  /\ b \o SubSeq(p, 1, 0) = b /\ b \o SubSeq(p, 1, Len(p)) = b \o p
  /\ \A j \in 0..(Len(p) - 1) :
       Append(b \o SubSeq(p, 1, j), p[j + 1]) = b \o SubSeq(p, 1, j + 1)

LEMMA OneMore ==
  ASSUME NEW S, NEW b \in Seq(S), NEW p \in Seq(S)
  PROVE  OneByOne(S, b, p)
<1>1. SubSeq(p, 1, 0) = <<>> /\ b \o <<>> = b
  OBVIOUS
<1>2. SubSeq(p, 1, Len(p)) = p
  OBVIOUS
<1>3. ASSUME NEW q \in Seq(S), NEW e \in S
      PROVE  Append(b \o q, e) = b \o Append(q, e)
  <2> DEFINE m == Len(b)
             n == Len(q)
             c == Append(q, e)
             d == b \o q
             x == Append(d, e)
             y == b \o c
  <2>1. m \in Nat /\ n \in Nat
    OBVIOUS
  <2>2. c \in Seq(S) /\ Len(c) = n + 1 /\ (\A i \in 1..n : c[i] = q[i]) /\ c[n + 1] = e
    OBVIOUS
  <2>3. /\ d \in Seq(S) /\ Len(d) = m + n
        /\ \A i \in 1..m : d[i] = b[i]
        /\ \A i \in 1..n : d[m + i] = q[i]
    BY JoinedFacts
  <2>4. c \in Seq(S) /\ d \in Seq(S)
    BY <2>2, <2>3
  <2> HIDE DEF c, d
  <2>5. /\ y \in Seq(S) /\ Len(y) = m + Len(c)
        /\ \A i \in 1..m : y[i] = b[i]
        /\ \A i \in 1..Len(c) : y[m + i] = c[i]
    BY <2>4, JoinedFacts
  <2>6. /\ x \in Seq(S) /\ Len(x) = Len(d) + 1
        /\ \A i \in 1..Len(d) : x[i] = d[i]
        /\ x[Len(d) + 1] = e
    BY <2>4
  <2> HIDE DEF x, y, m, n
  <2>7. Len(x) = m + n + 1 /\ Len(y) = m + n + 1
    BY <2>1, <2>2, <2>3, <2>5, <2>6
  <2>8. ASSUME NEW i \in 1..(m + n + 1)
        PROVE  x[i] = y[i]
    <3>1. i \in 1..m \/ (\E k \in 1..n : i = m + k) \/ i = m + n + 1
      <4>1. i \notin 1..m /\ i # m + n + 1 => i - m \in 1..n /\ i = m + (i - m)
        BY <2>1
      <4> QED
        BY <4>1
    <3>2. CASE i \in 1..m
      <4>1. i \in 1..Len(d)
        BY <2>1, <2>3, <3>2
      <4> QED
        BY <2>3, <2>5, <2>6, <3>2, <4>1
    <3>3. CASE \E k \in 1..n : i = m + k
      <4>1. PICK k \in 1..n : i = m + k
        BY <3>3
      <4>2. m + k \in 1..Len(d) /\ k \in 1..Len(c)
        BY <2>1, <2>2, <2>3
      <4>3. x[m + k] = q[k] /\ y[m + k] = q[k]
        BY <2>2, <2>3, <2>5, <2>6, <4>2
      <4> QED
        BY <4>1, <4>3
    <3>4. CASE i = m + n + 1
      <4>1. n + 1 \in 1..Len(c) /\ m + (n + 1) = m + n + 1
        BY <2>1, <2>2
      <4>2. y[m + (n + 1)] = e
        BY <2>2, <2>5, <4>1
      <4> QED
        BY <2>3, <2>6, <3>4, <4>1, <4>2
    <3> QED
      BY <3>1, <3>2, <3>3, <3>4
  <2>9. x = y
    <3>1. x \in Seq(S) /\ y \in Seq(S) /\ Len(x) = Len(y)
      BY <2>5, <2>6, <2>7
    <3> QED
      BY <2>7, <2>8, <3>1
  <2> QED
    BY <2>9 DEF c, d, x, y
<1>4. ASSUME NEW j \in 0..(Len(p) - 1)
      PROVE  Append(b \o SubSeq(p, 1, j), p[j + 1]) = b \o SubSeq(p, 1, j + 1)
  <2>1. j \in Nat /\ j + 1 <= Len(p) /\ Len(p) \in Nat /\ p[j + 1] \in S
    OBVIOUS
  <2> DEFINE q == SubSeq(p, 1, j)
             r == SubSeq(p, 1, j + 1)
             e == p[j + 1]
  <2>2. q \in Seq(S) /\ Len(q) = j /\ \A i \in 1..j : q[i] = p[i]
    BY <2>1
  <2>3. r \in Seq(S) /\ Len(r) = j + 1 /\ \A i \in 1..(j + 1) : r[i] = p[i]
    BY <2>1
  <2> HIDE DEF q, r
  <2>4. r = Append(q, e)
    <3>1. /\ Append(q, e) \in Seq(S) /\ Len(Append(q, e)) = j + 1
          /\ \A i \in 1..j : Append(q, e)[i] = q[i]
          /\ Append(q, e)[j + 1] = e
      BY <2>1, <2>2
    <3>2. \A i \in 1..(j + 1) : i \in 1..j \/ i = j + 1
      BY <2>1
    <3>3. \A i \in 1..(j + 1) : r[i] = Append(q, e)[i]
      BY <2>2, <2>3, <3>1, <3>2
    <3> HIDE DEF e
    <3> QED
      BY <2>3, <3>1, <3>3
  <2>5. Append(b \o q, e) = b \o Append(q, e)
    <3>1. e \in S /\ q \in Seq(S) /\ b \in Seq(S)
      BY <2>1, <2>2
    <3> HIDE DEF e
    <3> QED
      BY <3>1, <1>3
  <2> QED
    BY <2>4, <2>5 DEF q, r
<1>5. b \o p \in Seq(S)
  OBVIOUS
<1> QED
  BY <1>1, <1>2, <1>4, <1>5 DEF OneByOne

Parser == {"ps", "lineno", "names", "threw", "values"}
Reads == {"loading", "loaded"}

(* The file is a beginning of what save writes, and the object is what its  *)
(* lines up to lineno say.                                                  *)
SaveInv ==
  /\ saving.type \in DOMAIN Class /\ DOMAIN saving = {"type", "name", "names"}
  /\ saving.names \in Seq(Range(saving.names))
  /\ \A x \in Range(saving.names) : IsReference(x)
  /\ tool \in {"none", "editing", "started", "writing", "saved", "killed", "refused"}
                \cup Reads
  /\ phase # "setup" => tool = "none"
  /\ tool \in {"none", "editing", "started"} => disk = <<>>
  /\ disk \in Seq(Range(Lines(saving.type, saving.names)))
  /\ Len(disk) <= Len(Lines(saving.type, saving.names))
  /\ \A i \in 1..Len(disk) : disk[i] = Lines(saving.type, saving.names)[i]
  /\ tool \in Reads =>
       /\ DOMAIN object = Parser /\ DOMAIN object.values = ValueSections
       /\ object.lineno \in 0..Len(disk) /\ ~object.threw
       /\ ReadTo(saving.type, saving.names, object, object.lineno)
       /\ tool = "loaded" => object.lineno = Len(disk)

(* What one iteration of load makes of a line that fits.                    *)
LEMMA LineIsRead ==
  ASSUME saving.type \in DOMAIN Class, DOMAIN object = Parser,
         DOMAIN object.values = ValueSections,
         NEW in, object.ps = Mark(in), ReadLine,
         NEW line, line = disk[object.lineno + 1]
  PROVE  /\ (\/ in = "toplevel" /\ IsMark(line)
             \/ in \in ValueSections
             \/ in \in ListSections /\ (line = EndMark(in) \/ ~IsMark(line)))
              => /\ DOMAIN object' = Parser /\ DOMAIN object'.values = ValueSections
                 /\ object'.lineno = object.lineno + 1 /\ object'.threw = object.threw
         /\ in = "toplevel" /\ IsMark(line) =>
              /\ object'.ps = line /\ object'.names = object.names
              /\ object'.values = object.values
         /\ in \in ValueSections =>
              /\ object'.ps = (IF in = "certfile" THEN Mark("certfile") ELSE Mark("toplevel"))
              /\ object'.names = object.names
              /\ object'.values = [object.values EXCEPT ![in] = line]
         /\ in \in ListSections /\ line = EndMark(in) =>
              /\ object'.ps = Mark("toplevel") /\ object'.names = object.names
              /\ object'.values = object.values
         /\ in \in ListSections /\ ~IsMark(line) =>
              /\ object'.ps = object.ps /\ object'.values = object.values
              /\ object'.names = Append(object.names, ObjectIn(in, line))
<1>1. object.ps[2] = in
  BY DEF Mark
<1>2. "toplevel" \notin ValueSections \cup ListSections /\ ValueSections \cap ListSections = {}
  BY SectionsApart
<1>3. in \in ListSections /\ line = EndMark(in) => IsMark(line)
  BY DEF EndMark, IsMark
<1> DEFINE next == [object EXCEPT !.lineno = @ + 1]
<1>4. \/ in = "toplevel" /\ IsMark(line) /\ object' = [next EXCEPT !.ps = line]
      \/ /\ in \in ValueSections
         /\ object' = [next EXCEPT !.values[in] = line,
                          !.ps = IF in = "certfile" THEN @ ELSE Mark("toplevel")]
      \/ /\ in \in ListSections /\ line = EndMark(in)
         /\ object' = [next EXCEPT !.ps = Mark("toplevel")]
      \/ /\ in \in ListSections /\ ~IsMark(line)
         /\ object' = [next EXCEPT !.names = Append(@, ObjectIn(in, line))]
      \/ \/ in = "toplevel" /\ ~IsMark(line)
         \/ in \in ListSections /\ IsMark(line) /\ line # EndMark(in)
         \/ in \notin {"toplevel"} \cup ValueSections \cup ListSections
  BY <1>1 DEF ReadLine
<1>5. /\ DOMAIN next = Parser /\ next.ps = object.ps /\ next.names = object.names
      /\ next.threw = object.threw /\ next.values = object.values
      /\ next.lineno = object.lineno + 1
  BY DEF Parser
<1> HIDE DEF next
<1>6. CASE in = "toplevel" /\ IsMark(line)
  <2>1. object' = [next EXCEPT !.ps = line]
    BY <1>2, <1>4, <1>6
  <2> QED
    BY <1>2, <1>5, <1>6, <2>1 DEF Parser
<1>7. CASE in \in ValueSections
  <2>1. object' = [next EXCEPT !.values[in] = line,
                          !.ps = IF in = "certfile" THEN @ ELSE Mark("toplevel")]
    BY <1>2, <1>4, <1>7
  <2> QED
    BY <1>2, <1>5, <1>7, <2>1 DEF Parser
<1>8. CASE in \in ListSections /\ line = EndMark(in)
  <2>1. object' = [next EXCEPT !.ps = Mark("toplevel")]
    BY <1>2, <1>3, <1>4, <1>8
  <2> QED
    BY <1>2, <1>3, <1>5, <1>8, <2>1 DEF Parser
<1>9. CASE in \in ListSections /\ ~IsMark(line)
  <2>1. object' = [next EXCEPT !.names = Append(@, ObjectIn(in, line))]
    BY <1>2, <1>3, <1>4, <1>9
  <2> QED
    BY <1>2, <1>3, <1>5, <1>9, <2>1 DEF Parser
<1> QED
  BY <1>2, <1>3, <1>6, <1>7, <1>8, <1>9

(* The next line is read as save meant it.                                  *)
LEMMA OneLine ==
  ASSUME SaveInv, tool = "loading", ReadLine
  PROVE  /\ DOMAIN object' = Parser /\ DOMAIN object'.values = ValueSections
         /\ object'.lineno = object.lineno + 1 /\ ~object'.threw
         /\ object.lineno < Len(disk)
         /\ ReadTo(saving.type, saving.names, object', object'.lineno)
<1> DEFINE type == saving.type
           names == saving.names
           V == Values(type)
           L == Lists(type)
           P(l) == Part(type, names, l)
           B(l) == Base(type, names, l)
           F == Lines(type, names)
           n == Len(V)
           m == Len(L)
           k == object.lineno
           line == disk[k + 1]
           Fine == /\ DOMAIN object' = Parser /\ DOMAIN object'.values = ValueSections
                   /\ object'.lineno = k + 1 /\ ~object'.threw
                   /\ ReadTo(type, names, object', object'.lineno)
<1>1. /\ type \in DOMAIN Class /\ names \in Seq(Range(names))
      /\ \A x \in Range(names) : IsReference(x)
      /\ DOMAIN object = Parser /\ DOMAIN object.values = ValueSections
      /\ k \in 0..Len(disk) /\ ~object.threw
      /\ ReadTo(type, names, object, k)
      /\ disk \in Seq(Range(F)) /\ Len(disk) <= Len(F)
      /\ \A i \in 1..Len(disk) : disk[i] = F[i]
  BY DEF SaveInv, Reads
<1>2. k < Len(disk)
  BY DEF ReadLine
<1>3. /\ F \in Seq(Texts(Range(names))) /\ Len(F) = 2 * n + Sizes(type, names)
      /\ \A i \in 1..n : F[2 * i - 1] = Mark(V[i]) /\ F[2 * i] = Value(V[i])
      /\ \A l \in 1..m :
           /\ P(l) \in Seq(Range(names)) /\ \A i \in 1..Len(P(l)) : P(l)[i].type = L[l][2]
           /\ F[B(l) + 1] = Mark(L[l][1])
           /\ F[B(l) + Len(P(l)) + 2] = EndMark(L[l][1])
           /\ \A i \in 1..Len(P(l)) : F[B(l) + 1 + i] = Entry(P(l)[i])
  <2> DEFINE S == Range(names)
  <2>1. names \in Seq(S) /\ type \in DOMAIN Class
    BY <1>1
  <2> HIDE DEF S
  <2>2. PlaceByPlace(S, type, names)
    BY <2>1, LinesFacts
  <2> QED
    BY <2>2 DEF PlaceByPlace, S
<1>4. line = F[k + 1] /\ k \in Nat /\ k + 1 <= Len(F)
  <2>1. Len(disk) \in Nat /\ Len(F) \in Nat
    BY <1>1, <1>3
  <2> HIDE DEF F, k
  <2>2. k \in Nat /\ k + 1 \in 1..Len(disk)
    BY <1>1, <1>2, <2>1
  <2> QED
    BY <1>1, <2>1, <2>2
<1>5. /\ V \in Seq(Sections) /\ n \in {1, 3}
      /\ \A i, j \in 1..n : V[i] = V[j] => i = j
      /\ \A i \in 1..n : /\ V[i] # "toplevel"
                         /\ V[i] = "certfile" => i = n /\ m = 0
      /\ DOMAIN L = 1..m /\ m \in 0..2
  BY <1>1, ClassFacts
<1>6. /\ "toplevel" \notin ValueSections \cup ListSections
      /\ ValueSections = {V[i] : i \in 1..n}
      /\ \A l \in 1..m : L[l][1] \in ListSections
      /\ \A l \in 1..m : \A x :
           IsReference(x) /\ x.type = L[l][2] => ObjectIn(L[l][1], Entry(x)) = x
  BY <1>1, SectionsApart
<1>7. B(1) = 2 * n /\ B(2) = 2 * n + (Len(P(1)) + 2)
  <2>1. n \in Nat
    BY <1>5
  <2> HIDE DEF n
  <2>2. B(1) = 2 * n + 0 /\ B(2) = 2 * n + (Len(P(1)) + 2)
    BY DEF Base, n
  <2> QED
    BY <2>1, <2>2
<1>8. Sizes(type, names) = IF m = 0 THEN 0 ELSE IF m = 1 THEN Len(P(1)) + 2
                           ELSE Len(P(1)) + 2 + (Len(P(2)) + 2)
  BY DEF Sizes
<1>9. \A l \in 1..m : Len(P(l)) \in Nat /\ l \in {1, 2}
  BY <1>3, <1>5
<1>10. \A x : IsMark(Mark(x)) /\ ~IsMark(Entry(x)) /\ IsMark(EndMark(x))
  BY DEF IsMark, Mark, Entry, EndMark
<1>11. /\ Before(type, names, 1) = <<>>
       /\ \A l \in 1..m : Before(type, names, l) \in Seq(Range(names))
  <2>1. m >= 2 => P(1) \in Seq(Range(names))
    BY <1>3, <1>5
  <2>2. Before(type, names, 1) = <<>> /\ Before(type, names, 2) = P(1)
    BY DEF Before
  <2>3. m \in 0..2
    BY <1>5
  <2> HIDE DEF m, P
  <2>4. \A l \in 1..m : l = 1 \/ (l = 2 /\ m >= 2)
    BY <2>3
  <2>5. <<>> \in Seq(Range(names))
    OBVIOUS
  <2> QED
    BY <2>1, <2>2, <2>4, <2>5
<1>12. n \in Nat /\ m \in Nat
  BY <1>5
<1>13. \A l \in 1..m : /\ Before(type, names, l) \o SubSeq(P(l), 1, 0) = Before(type, names, l)
                       /\ Before(type, names, l) \o SubSeq(P(l), 1, Len(P(l)))
                            = Before(type, names, l) \o P(l)
                       /\ \A j \in 0..(Len(P(l)) - 1) :
                            Append(Before(type, names, l) \o SubSeq(P(l), 1, j), P(l)[j + 1])
                              = Before(type, names, l) \o SubSeq(P(l), 1, j + 1)
  <2> TAKE l \in 1..m
  <2> DEFINE S == Range(names)
             b == Before(type, names, l)
             p == P(l)
  <2>1. b \in Seq(S) /\ p \in Seq(S)
    BY <1>3, <1>11
  <2> HIDE DEF S, b, p
  <2>2. /\ b \o p \in Seq(S)
        /\ b \o SubSeq(p, 1, 0) = b /\ b \o SubSeq(p, 1, Len(p)) = b \o p
        /\ \A j \in 0..(Len(p) - 1) :
             Append(b \o SubSeq(p, 1, j), p[j + 1]) = b \o SubSeq(p, 1, j + 1)
    <3>1. OneByOne(S, b, p)
      BY <2>1, OneMore
    <3> QED
      BY <3>1 DEF OneByOne
  <2> QED
    BY <2>2 DEF b, p
<1> DEFINE VT(o, h) == \A i \in 1..n : o.values[V[i]] = IF i <= h THEN Value(V[i]) ELSE Blank
           pre(l) == Before(type, names, l)
           IsAfterValue(o, c) ==
             \E i \in 0..n : /\ c = 2 * i /\ VT(o, i) /\ o.names = <<>>
                            /\ \/ o.ps = Mark("toplevel")
                               \/ i > 0 /\ i = n /\ m = 0 /\ o.ps = Mark("certfile")
           IsBeforeValue(o, c) ==
             \E i \in 1..n : /\ c = 2 * i - 1 /\ VT(o, i - 1) /\ o.names = <<>>
                            /\ o.ps = Mark(V[i])
           IsInList(o, c) ==
             \E l \in 1..m : \E j \in 0..Len(P(l)) :
               /\ c = B(l) + 1 + j /\ VT(o, n)
               /\ o.names = pre(l) \o SubSeq(P(l), 1, j)
               /\ o.ps = Mark(L[l][1])
           IsAfterList(o, c) ==
             \E l \in 1..m : /\ c = B(l) + Len(P(l)) + 2 /\ VT(o, n)
                            /\ o.names = pre(l) \o P(l) /\ o.ps = Mark("toplevel")
           Went == /\ DOMAIN object' = Parser /\ DOMAIN object'.values = ValueSections
                   /\ object'.lineno = k + 1 /\ ~object'.threw
<1>14. \A o, c : ReadTo(type, names, o, c) <=>
                   \/ IsAfterValue(o, c) \/ IsBeforeValue(o, c)
                   \/ IsInList(o, c) \/ IsAfterList(o, c)
  BY DEF ReadTo, AfterValue, BeforeValue, InList, AfterList, ValuesTo
<1>15. Went /\ (\/ IsAfterValue(object', k + 1) \/ IsBeforeValue(object', k + 1)
                \/ IsInList(object', k + 1) \/ IsAfterList(object', k + 1)) => Fine
  <2> HIDE DEF IsAfterValue, IsBeforeValue, IsInList, IsAfterList, k, type, names
  <2> QED
    BY <1>14
<1>16. \/ IsAfterValue(object, k) \/ IsBeforeValue(object, k)
       \/ IsInList(object, k) \/ IsAfterList(object, k)
  <2> HIDE DEF IsAfterValue, IsBeforeValue, IsInList, IsAfterList, k, type, names
  <2> QED
    BY <1>1, <1>14
<1>17. object.threw = FALSE => ~object.threw
  OBVIOUS
<1>18. ASSUME NEW in, object.ps = Mark(in)
       PROVE  /\ (\/ in = "toplevel" /\ IsMark(line)
                  \/ in \in ValueSections
                  \/ in \in ListSections /\ (line = EndMark(in) \/ ~IsMark(line))) => Went
              /\ in = "toplevel" /\ IsMark(line) =>
                   /\ object'.ps = line /\ object'.names = object.names
                   /\ object'.values = object.values
              /\ in \in ValueSections =>
                   /\ object'.ps = (IF in = "certfile" THEN Mark("certfile") ELSE Mark("toplevel"))
                   /\ object'.names = object.names
                   /\ object'.values = [object.values EXCEPT ![in] = line]
              /\ in \in ListSections /\ line = EndMark(in) =>
                   /\ object'.ps = Mark("toplevel") /\ object'.names = object.names
                   /\ object'.values = object.values
              /\ in \in ListSections /\ ~IsMark(line) =>
                   /\ object'.ps = object.ps /\ object'.values = object.values
                   /\ object'.names = Append(object.names, ObjectIn(in, line))
  <2>1. line = disk[object.lineno + 1]
    OBVIOUS
  <2> HIDE DEF line
  <2>2. /\ saving.type \in DOMAIN Class /\ DOMAIN object = Parser
        /\ DOMAIN object.values = ValueSections /\ ~object.threw
    BY <1>1
  <2> QED
    BY <1>18, <2>1, <2>2, LineIsRead
<1> HIDE DEF V, L, P, B, F, n, m, k, line, Went, Fine, pre, type, names
<1> SUFFICES Fine
  BY <1>2 DEF k, type, names, Fine
<1>19. CASE IsAfterValue(object, k)
  <2>1. PICK i \in 0..n : /\ k = 2 * i /\ VT(object, i) /\ object.names = <<>>
                          /\ \/ object.ps = Mark("toplevel")
                             \/ i > 0 /\ i = n /\ m = 0 /\ object.ps = Mark("certfile")
    BY <1>19
  <2>2. object.ps = Mark("toplevel")
    <3>1. m = 0 => Len(F) = 2 * n
      BY <1>3, <1>8, <1>12
    <3>2. ~(i = n /\ m = 0)
      BY <1>4, <1>12, <2>1, <3>1
    <3> QED
      BY <2>1, <3>2
  <2>3. CASE i < n
    <3>1. i + 1 \in 1..n /\ k + 1 = 2 * (i + 1) - 1 /\ (i + 1) - 1 = i
      BY <1>12, <2>1, <2>3
    <3>2. line = Mark(V[i + 1])
      BY <1>3, <1>4, <3>1
    <3>3. /\ Went /\ object'.ps = line /\ object'.names = object.names
          /\ object'.values = object.values
      BY <1>10, <1>18, <2>2, <3>2
    <3>4. VT(object', (i + 1) - 1)
      BY <2>1, <3>1, <3>3
    <3>5. IsBeforeValue(object', k + 1)
      <4> HIDE DEF VT
      <4> QED
        BY <2>1, <3>1, <3>2, <3>3, <3>4
    <3> HIDE DEF IsBeforeValue
    <3> QED
      BY <1>15, <3>3, <3>5
  <2>4. CASE i = n
    <3>1. k = 2 * n
      BY <2>1, <2>4
    <3>2. 1 \in 1..m
      <4>1. m = 0 => Len(F) = 2 * n
        BY <1>3, <1>8, <1>12
      <4>2. m # 0
        BY <1>4, <1>12, <3>1, <4>1
      <4> QED
        BY <1>12, <4>2
    <3>3. line = Mark(L[1][1]) /\ k = B(1)
      BY <1>3, <1>4, <1>7, <3>1, <3>2
    <3>4. /\ Went /\ object'.ps = line /\ object'.names = object.names
          /\ object'.values = object.values
      BY <1>10, <1>18, <2>2, <3>3
    <3>5. object'.names = pre(1) \o SubSeq(P(1), 1, 0)
      BY <1>11, <1>13, <2>1, <3>2, <3>4 DEF pre
    <3>6. VT(object', n)
      BY <2>1, <2>4, <3>4
    <3>7. 0 \in 0..Len(P(1)) /\ k + 1 = B(1) + 1 + 0
      BY <1>4, <1>9, <3>2, <3>3
    <3>8. IsInList(object', k + 1)
      <4> HIDE DEF VT
      <4> QED
        BY <3>2, <3>3, <3>4, <3>5, <3>6, <3>7
    <3> HIDE DEF IsInList
    <3> QED
      BY <1>15, <3>4, <3>8
  <2> QED
    BY <1>12, <2>1, <2>3, <2>4
<1>20. CASE IsBeforeValue(object, k)
  <2>1. PICK i \in 1..n : /\ k = 2 * i - 1 /\ VT(object, i - 1) /\ object.names = <<>>
                          /\ object.ps = Mark(V[i])
    BY <1>20
  <2>2. line = Value(V[i]) /\ k + 1 = 2 * i
    <3>1. k + 1 = 2 * i
      BY <1>12, <2>1
    <3> QED
      BY <1>3, <1>4, <3>1
  <2>3. V[i] \in ValueSections
    BY <1>6
  <2>4. /\ Went
        /\ object'.ps = (IF V[i] = "certfile" THEN Mark("certfile") ELSE Mark("toplevel"))
        /\ object'.names = object.names
        /\ object'.values = [object.values EXCEPT ![V[i]] = line]
    BY <1>18, <2>1, <2>3
  <2>5. VT(object', i)
    <3> SUFFICES ASSUME NEW h \in 1..n
                 PROVE  object'.values[V[h]] = IF h <= i THEN Value(V[h]) ELSE Blank
      OBVIOUS
    <3>1. V[h] \in ValueSections /\ DOMAIN object.values = ValueSections
      BY <1>1, <1>6
    <3>2. CASE h = i
      <4>1. object'.values[V[h]] = Value(V[h])
        BY <2>2, <2>4, <3>1, <3>2
      <4>2. h <= i
        BY <1>12, <3>2
      <4> QED
        BY <4>1, <4>2
    <3>3. CASE h # i
      <4>1. V[h] # V[i]
        BY <1>5, <3>3
      <4>2. object'.values[V[h]] = object.values[V[h]]
        BY <2>4, <3>1, <4>1
      <4>3. h <= i - 1 <=> h <= i
        BY <1>12, <3>3
      <4> QED
        BY <2>1, <4>2, <4>3
    <3> QED
      BY <3>2, <3>3
  <2>6. \/ object'.ps = Mark("toplevel")
        \/ i > 0 /\ i = n /\ m = 0 /\ object'.ps = Mark("certfile")
    <3>1. i > 0
      BY <1>12
    <3> QED
      BY <1>5, <2>4, <3>1
  <2>7. IsAfterValue(object', k + 1)
    <3> HIDE DEF VT
    <3>1. i \in 0..n
      BY <1>12
    <3> QED
      BY <2>1, <2>2, <2>4, <2>5, <2>6, <3>1
  <2> HIDE DEF IsAfterValue
  <2> QED
    BY <1>15, <2>4, <2>7
<1>21. CASE IsInList(object, k)
  <2>1. PICK l \in 1..m : \E j \in 0..Len(P(l)) :
          /\ k = B(l) + 1 + j /\ VT(object, n)
          /\ object.names = pre(l) \o SubSeq(P(l), 1, j)
          /\ object.ps = Mark(L[l][1])
    BY <1>21
  <2>2. PICK j \in 0..Len(P(l)) :
          /\ k = B(l) + 1 + j /\ VT(object, n)
          /\ object.names = pre(l) \o SubSeq(P(l), 1, j)
          /\ object.ps = Mark(L[l][1])
    BY <2>1
  <2>3. L[l][1] \in ListSections
    BY <1>6
  <2>4. Len(P(l)) \in Nat /\ B(l) \in Nat /\ j \in Nat
    <3>1. 1 \in 1..m
      BY <1>12
    <3> QED
      BY <1>7, <1>9, <1>12, <2>2, <3>1
  <2>5. CASE j < Len(P(l))
    <3>1. j + 1 \in 1..Len(P(l)) /\ k + 1 = B(l) + 1 + (j + 1) /\ j \in 0..(Len(P(l)) - 1)
      <4>1. k = B(l) + 1 + j
        BY <2>2
      <4> QED
        BY <2>4, <2>5, <4>1
    <3>2. line = Entry(P(l)[j + 1])
      BY <1>3, <1>4, <3>1
    <3>3. /\ Went /\ object'.ps = object.ps /\ object'.values = object.values
          /\ object'.names = Append(object.names, ObjectIn(L[l][1], line))
      BY <1>10, <1>18, <2>2, <2>3, <3>2
    <3>4. ObjectIn(L[l][1], line) = P(l)[j + 1]
      <4>1. P(l) \in Seq(Range(names)) /\ P(l)[j + 1].type = L[l][2]
        BY <1>3, <3>1
      <4>2. P(l)[j + 1] \in Range(names)
        BY <3>1, <4>1
      <4> QED
        BY <1>1, <1>6, <3>2, <4>1, <4>2
    <3>5. object'.names = pre(l) \o SubSeq(P(l), 1, j + 1)
      BY <1>13, <2>2, <3>1, <3>3, <3>4 DEF pre
    <3>6. VT(object', n)
      BY <2>2, <3>3
    <3>7. IsInList(object', k + 1)
      <4> HIDE DEF VT
      <4>1. j + 1 \in 0..Len(P(l))
        BY <2>4, <3>1
      <4> QED
        BY <2>2, <3>1, <3>3, <3>5, <3>6, <4>1
    <3> HIDE DEF IsInList
    <3> QED
      BY <1>15, <3>3, <3>7
  <2>6. CASE j = Len(P(l))
    <3>1. k + 1 = B(l) + Len(P(l)) + 2
      BY <2>2, <2>4, <2>6
    <3>2. line = EndMark(L[l][1])
      BY <1>3, <1>4, <3>1
    <3>3. /\ Went /\ object'.ps = Mark("toplevel") /\ object'.names = object.names
          /\ object'.values = object.values
      BY <1>18, <2>2, <2>3, <3>2
    <3>4. object'.names = pre(l) \o P(l)
      BY <1>13, <2>2, <2>6, <3>3 DEF pre
    <3>5. VT(object', n)
      BY <2>2, <3>3
    <3>6. IsAfterList(object', k + 1)
      <4> HIDE DEF VT
      <4> QED
        BY <3>1, <3>3, <3>4, <3>5
    <3> HIDE DEF IsAfterList
    <3> QED
      BY <1>15, <3>3, <3>6
  <2> QED
    BY <2>2, <2>4, <2>5, <2>6
<1>22. CASE IsAfterList(object, k)
  <2>1. PICK l \in 1..m : /\ k = B(l) + Len(P(l)) + 2 /\ VT(object, n)
                          /\ object.names = pre(l) \o P(l) /\ object.ps = Mark("toplevel")
    BY <1>22
  <2>2. l = 1 /\ m = 2
    <3>1. Len(P(1)) \in Nat /\ m \in {1, 2} /\ l \in {1, 2}
      BY <1>5, <1>9, <1>12
    <3>2. CASE m = 1
      <4>1. Len(F) = 2 * n + (Len(P(1)) + 2) /\ l = 1
        BY <1>3, <1>8, <1>12, <3>2
      <4> QED
        BY <1>4, <1>7, <1>12, <2>1, <3>1, <4>1
    <3>3. CASE m = 2 /\ l = 2
      <4>1. Len(F) = 2 * n + (Len(P(1)) + 2 + (Len(P(2)) + 2)) /\ Len(P(2)) \in Nat
        BY <1>3, <1>8, <1>9, <1>12, <3>3
      <4>2. k = 2 * n + (Len(P(1)) + 2) + Len(P(2)) + 2
        BY <1>7, <2>1, <3>3
      <4> QED
        BY <1>4, <1>12, <3>1, <4>1, <4>2
    <3> QED
      BY <3>1, <3>2, <3>3
  <2>3. Len(P(1)) \in Nat /\ 1 \in 1..m /\ 2 \in 1..m /\ Len(P(2)) \in Nat
    BY <1>9, <1>12, <2>2
  <2>4. k = B(2) /\ k + 1 = B(2) + 1 /\ k + 1 = B(2) + 1 + 0
    BY <1>4, <1>7, <1>12, <2>1, <2>2, <2>3
  <2>5. line = Mark(L[2][1])
    BY <1>3, <1>4, <2>3, <2>4
  <2>6. /\ Went /\ object'.ps = line /\ object'.names = object.names
        /\ object'.values = object.values
    BY <1>10, <1>18, <2>1, <2>5
  <2>7. object'.names = pre(2) \o SubSeq(P(2), 1, 0)
    <3>1. pre(1) = <<>> /\ pre(2) = P(1) /\ P(1) \in Seq(Range(names))
      <4>1. 2 # 1
        OBVIOUS
      <4> QED
        BY <1>3, <2>3, <4>1 DEF Before, pre, P, Part
    <3>2. pre(1) \o P(1) = P(1)
      BY <3>1
    <3> QED
      BY <1>13, <2>1, <2>2, <2>3, <2>6, <3>1, <3>2 DEF pre
  <2>8. VT(object', n)
    BY <2>1, <2>6
  <2>9. IsInList(object', k + 1)
    <3> HIDE DEF VT
    <3>1. 0 \in 0..Len(P(2))
      BY <2>3
    <3> QED
      BY <2>3, <2>4, <2>5, <2>6, <2>7, <2>8, <3>1
  <2> HIDE DEF IsInList
  <2> QED
    BY <1>15, <2>6, <2>9
<1> HIDE DEF IsAfterValue, IsBeforeValue, IsInList, IsAfterList
<1> QED
  BY <1>16, <1>19, <1>20, <1>21, <1>22

LEMMA SaveInitially == SetupInit => SaveInv
<1> SUFFICES ASSUME SetupInit PROVE SaveInv
  OBVIOUS
<1>1. saving.type \in DOMAIN Class /\ DOMAIN saving = {"type", "name", "names"}
  <2>1. FilesInv /\ phase = "setup"
    BY FilesInitially DEF SetupInit
  <2> QED
    BY <2>1 DEF FilesInv
<1>2. saving.names \in Seq(Range(saving.names)) /\ \A x \in Range(saving.names) : IsReference(x)
  <2>1. CASE saving = Definition
    <3>1. saving.names = <<>>
      BY <2>1 DEF Definition
    <3>2. <<>> \in Seq(Range(<<>>)) /\ Range(<<>>) = {}
      BY DEF Range
    <3> QED
      BY <3>1, <3>2
  <2>2. ASSUME files \in Changing, NEW x \in Files(files), saving = Object(files, x)
        PROVE  /\ saving.names \in Seq(Range(saving.names))
               /\ \A y \in Range(saving.names) : IsReference(y)
    <3>1. saving.names = Names(files, x)
      BY <2>2 DEF Object
    <3>2. WellFormed(files)
      BY StartupAssumption DEF SetupInit
    <3>3. Names(files, x) \in Seq(Range(Names(files, x)))
      BY <3>2 DEF WellFormed
    <3>4. \A y \in Range(Names(files, x)) : IsReference(y)
      BY <2>2, SetupAssumption
    <3> QED
      BY <3>1, <3>3, <3>4
  <2> QED
    BY <2>1, <2>2 DEF SetupInit
<1>3. disk = <<>> /\ phase = "setup" /\ tool \in {"none", "editing", "started"}
  BY DEF SetupInit
<1>4. /\ disk \in Seq(Range(Lines(saving.type, saving.names))) /\ Len(disk) = 0
      /\ Len(Lines(saving.type, saving.names)) \in Nat
  <2>1. PlaceByPlace(Range(saving.names), saving.type, saving.names)
    BY <1>1, <1>2, LinesFacts
  <2> QED
    BY <1>3, <2>1 DEF PlaceByPlace
<1> QED
  BY <1>1, <1>2, <1>3, <1>4 DEF SaveInv, Reads

(* What a file has is what it says where it is.                             *)
LEMMA LinesAreLines ==
  ASSUME SaveInv
  PROVE  LET F == Lines(saving.type, saving.names)
         IN F \in Seq(Range(F)) /\ Len(F) \in Nat /\ \A i \in 1..Len(F) : F[i] \in Range(F)
<1> DEFINE F == Lines(saving.type, saving.names)
<1>1. PlaceByPlace(Range(saving.names), saving.type, saving.names)
  BY LinesFacts DEF SaveInv
<1>2. F \in Seq(Texts(Range(saving.names)))
  BY <1>1 DEF PlaceByPlace
<1> HIDE DEF F
<1>3. Len(F) \in Nat /\ DOMAIN F = 1..Len(F) /\ \A i \in 1..Len(F) : F[i] \in Range(F)
  BY <1>2 DEF Range
<1>4. F \in Seq(Range(F))
  BY <1>2, <1>3
<1> QED
  BY <1>3, <1>4 DEF F

LEMMA SaveUnchanged ==
  ASSUME SaveInv, UNCHANGED saveVars, phase' # "setup" => tool' = "none"
  PROVE  SaveInv'
<1>1. saving' = saving /\ disk' = disk /\ tool' = tool /\ object' = object
  BY DEF saveVars
<1>2. ValueSections' = ValueSections
  BY <1>1 DEF ValueSections
<1> QED
  BY <1>1, <1>2 DEF SaveInv

LEMMA SaveGroupSave ==
  ASSUME SaveInv, GroupInv, SaveGroup
  PROVE  SaveInv'
<1>1. /\ saving' = [saving EXCEPT !.names = users] /\ tool' = "started"
      /\ disk' = <<>> /\ phase' = phase /\ phase = "setup"
  BY DEF SaveGroup, SaveInv, vars
<1>2. /\ saving'.type = saving.type /\ DOMAIN saving' = {"type", "name", "names"}
      /\ saving'.names = users /\ saving.type \in DOMAIN Class
  BY <1>1 DEF SaveInv
<1>3. users \in Seq(Range(users)) /\ \A x \in Range(users) : IsReference(x)
  <2>1. users \in Seq(People \ Invalid)
    BY DEF GroupInv
  <2>2. \A x \in Range(users) : x \in People
    BY <2>1 DEF Range
  <2>3. \A x \in People : IsReference(x)
    <3> TAKE x \in People
    <3>1. x = User(x.name)
      BY SetupAssumption
    <3>2. x.type = "user"
      BY <3>1 DEF User
    <3> QED
      BY <3>1, <3>2 DEF IsReference, User
  <2>4. DOMAIN users = 1..Len(users) /\ Len(users) \in Nat
    BY <2>1
  <2>5. \A i \in 1..Len(users) : users[i] \in Range(users)
    BY <2>4 DEF Range
  <2>6. users \in Seq(Range(users))
    BY <2>1, <2>4, <2>5
  <2> QED
    BY <2>2, <2>3, <2>6
<1>4. /\ disk' \in Seq(Range(Lines(saving'.type, saving'.names))) /\ Len(disk') = 0
      /\ Len(Lines(saving'.type, saving'.names)) \in Nat
  <2>1. PlaceByPlace(Range(users), saving.type, users)
    BY <1>2, <1>3, LinesFacts
  <2> QED
    BY <1>1, <1>2, <2>1 DEF PlaceByPlace
<1> QED
  BY <1>1, <1>2, <1>3, <1>4 DEF SaveInv, Reads

LEMMA WriteLineSave ==
  ASSUME SaveInv, WriteLine, phase' = phase
  PROVE  SaveInv'
<1> DEFINE F == Lines(saving.type, saving.names)
           n == Len(disk)
<1>1. /\ F \in Seq(Range(F)) /\ Len(F) \in Nat /\ \A i \in 1..Len(F) : F[i] \in Range(F)
      /\ disk \in Seq(Range(F)) /\ \A i \in 1..n : disk[i] = F[i]
      /\ n < Len(F)
      /\ disk' = Append(disk, F[n + 1])
  BY LinesAreLines DEF SaveInv, WriteLine
<1>2. saving' = saving /\ tool = "writing" /\ tool' = "writing" /\ phase' = phase
  BY DEF WriteLine
<1> DEFINE R == Range(F)
<1> HIDE DEF R
<1>3. n \in Nat /\ n + 1 \in 1..Len(F) /\ F[n + 1] \in R /\ disk \in Seq(R)
  BY <1>1 DEF R
<1> HIDE DEF F
<1>4. /\ Append(disk, F[n + 1]) \in Seq(R) /\ Len(Append(disk, F[n + 1])) = n + 1
      /\ \A i \in 1..n : Append(disk, F[n + 1])[i] = disk[i]
      /\ Append(disk, F[n + 1])[n + 1] = F[n + 1]
  BY <1>3, AppendedFacts
<1>5. disk' \in Seq(R) /\ Len(disk') <= Len(F) /\ \A i \in 1..Len(disk') : disk'[i] = F[i]
  <2>1. Len(disk') = n + 1 /\ n + 1 <= Len(F)
    BY <1>1, <1>3, <1>4
  <2>2. \A i \in 1..(n + 1) : i \in 1..n \/ i = n + 1
    BY <1>3
  <2> QED
    BY <1>1, <1>4, <2>1, <2>2
<1> QED
  BY <1>2, <1>5 DEF SaveInv, Reads, F, R

LEMMA OpenSave ==
  ASSUME SaveInv, Open, phase' = phase
  PROVE  SaveInv'
<1>1. /\ saving' = saving /\ disk' = disk /\ tool' = "loading"
      /\ object' = Fresh(saving.type) /\ phase = "setup"
  BY DEF Open, SaveInv
<1>2. /\ DOMAIN object' = Parser /\ object'.ps = Mark("toplevel") /\ object'.lineno = 0
      /\ object'.names = <<>> /\ object'.threw = FALSE
      /\ object'.values = [s \in ToSet(Class[saving.type].values) |-> Blank]
  BY <1>1 DEF Fresh, Parser
<1>3. ValueSections' = ValueSections /\ DOMAIN object'.values = ValueSections
  BY <1>1, <1>2 DEF ValueSections
<1>4. Len(disk') \in Nat /\ 0 \in 0..Len(disk')
  BY <1>1 DEF SaveInv
<1>5. ReadTo(saving.type, saving.names, object', 0)
  <2> DEFINE V == Values(saving.type)
             m == Len(V)
  <2>1. V \in Seq(Sections) /\ \A i \in 1..m : V[i] \in ToSet(Class[saving.type].values)
    <3>1. V \in Seq(Sections)
      BY ClassFacts DEF SaveInv
    <3> QED
      BY <3>1 DEF ToSet, Values
  <2>2. \A i \in 1..m : object'.values[V[i]] = Blank
    BY <1>2, <2>1
  <2>3. m \in Nat
    BY <2>1
  <2> HIDE DEF V
  <2>4. \A i \in 1..m : ~(i <= 0)
    BY <2>3
  <2>5. ValuesTo(saving.type, object', 0)
    BY <2>2, <2>4 DEF ValuesTo, V
  <2>6. AfterValue(saving.type, object', 0)
    <3>1. 0 \in 0..m /\ 0 = 2 * 0
      BY <2>3
    <3> QED
      BY <1>2, <2>5, <3>1 DEF AfterValue, V
  <2> QED
    BY <2>6 DEF ReadTo
<1> QED
  BY <1>1, <1>2, <1>3, <1>4, <1>5 DEF SaveInv, Reads

LEMMA ReadLineSave ==
  ASSUME SaveInv, ReadLine, phase' = phase
  PROVE  SaveInv'
<1>1. saving' = saving /\ disk' = disk /\ tool' = tool /\ tool = "loading"
  BY DEF ReadLine
<1>2. /\ DOMAIN object' = Parser /\ DOMAIN object'.values = ValueSections
      /\ object'.lineno = object.lineno + 1 /\ ~object'.threw
      /\ object.lineno < Len(disk)
      /\ ReadTo(saving.type, saving.names, object', object'.lineno)
  BY <1>1, OneLine
<1>3. ValueSections' = ValueSections
  BY <1>1 DEF ValueSections
<1>4. object'.lineno \in 0..Len(disk)
  <2>1. object.lineno \in 0..Len(disk) /\ Len(disk) \in Nat
    BY <1>1 DEF SaveInv, Reads
  <2> QED
    BY <1>2, <2>1
<1> QED
  BY <1>1, <1>2, <1>3, <1>4 DEF SaveInv

LEMMA SavingAndLoadingSave ==
  ASSUME SaveInv, SaveAndLoad
  PROVE  SaveInv'
<1>1. phase' = phase
  BY DEF SaveAndLoad, vars
<1>2. CASE Create \/ Saved \/ Killed \/ Refused
  <2>1. /\ saving' = saving /\ disk' = disk /\ object' = object /\ tool # "none"
        /\ tool' \in {"writing", "saved", "killed", "refused"}
    BY <1>2 DEF Create, Saved, Killed, Refused, SaveInv
  <2> QED
    BY <1>1, <2>1 DEF SaveInv, Reads
<1>3. CASE WriteLine
  BY <1>1, <1>3, WriteLineSave
<1>4. CASE Open
  BY <1>1, <1>4, OpenSave
<1>5. CASE ReadLine
  BY <1>1, <1>5, ReadLineSave
<1>6. CASE EndOfFile
  <2>1. /\ saving' = saving /\ disk' = disk /\ object' = object /\ tool = "loading"
        /\ tool' = "loaded" /\ (object.threw \/ object.lineno = Len(disk))
    BY <1>6 DEF EndOfFile
  <2>2. ValueSections' = ValueSections
    BY <2>1 DEF ValueSections
  <2> QED
    BY <1>1, <2>1, <2>2 DEF SaveInv, Reads
<1> QED
  BY <1>2, <1>3, <1>4, <1>5, <1>6 DEF SaveAndLoad, SaveStep, LoadStep

LEMMA StartServerSave ==
  ASSUME StartServer
  PROVE  SaveInv'
<1>1. saving' = Definition /\ disk' = <<>> /\ tool' = "none"
  BY DEF StartServer
<1>2. /\ saving'.type = "serverdefinition" /\ DOMAIN saving' = {"type", "name", "names"}
      /\ saving'.names = <<>> /\ saving'.type \in DOMAIN Class
  BY <1>1 DEF Definition, Class
<1>3. <<>> \in Seq(Range(<<>>)) /\ Range(<<>>) = {}
  BY DEF Range
<1>4. /\ disk' \in Seq(Range(Lines(saving'.type, saving'.names))) /\ Len(disk') = 0
      /\ Len(Lines(saving'.type, saving'.names)) \in Nat
  <2>1. PlaceByPlace(Range(saving'.names), saving'.type, saving'.names)
    BY <1>2, <1>3, LinesFacts
  <2> QED
    BY <1>1, <2>1 DEF PlaceByPlace
<1> QED
  BY <1>1, <1>2, <1>3, <1>4 DEF SaveInv, Reads

(* The constructor leaves the files alone.                                  *)
LEMMA ConstructPhase ==
  ASSUME Construct
  PROVE  phase # "setup" /\ phase' # "setup"
<1>1. CASE phase' = phase
  BY <1>1 DEF Construct, Next, ReadPerm, PermsRead, ReadCommand, ReadGroup,
    LoadLine, LoadNested, LoadMissing, LoadReturns, CommandsRead, PruneGroup,
    GroupsPruned, PruneCommand, CommandsPruned
<1>2. CASE phase' # phase
  BY <1>2 DEF Construct, Stopped, Next, ReadPerm, PermsRead, ReadCommand, ReadGroup,
    LoadLine, LoadNested, LoadMissing, LoadReturns, CommandsRead, PruneGroup,
    GroupsPruned, PruneCommand, CommandsPruned
<1> QED
  BY <1>1, <1>2

LEMMA SaveInductiveStep ==
  ASSUME SaveInv, GroupInv, [SetupNext]_setupVars
  PROVE  SaveInv'
<1>1. CASE Edit \/ UNCHANGED setupVars
  BY <1>1, SaveUnchanged DEF Edit, setupVars, vars, SaveInv, saveVars
<1>2. CASE SaveGroup
  BY <1>2, SaveGroupSave
<1>3. CASE SaveAndLoad
  BY <1>3, SavingAndLoadingSave
<1>4. CASE StartServer
  BY <1>4, StartServerSave
<1>5. CASE Construct
  <2>1. UNCHANGED saveVars /\ tool' = "none"
    BY <1>5, ConstructPhase DEF Construct, SaveInv, saveVars
  <2> QED
    BY <2>1, SaveUnchanged
<1> QED
  BY <1>1, <1>2, <1>3, <1>4, <1>5 DEF SetupNext

(* The order in which load finds the names.                                 *)
LEMMA OrderFacts ==
  ASSUME NEW type \in DOMAIN Class, NEW names
  PROVE  /\ Len(Lists(type)) = 0 => InOrder(type, names) = <<>>
         /\ Len(Lists(type)) = 1 => InOrder(type, names) = Part(type, names, 1)
         /\ Len(Lists(type)) = 2 =>
              InOrder(type, names) = Part(type, names, 1) \o Part(type, names, 2)
<1> DEFINE L == Lists(type)
           s == [i \in DOMAIN L |-> Listed(names, L[i][2])]
           n == Len(L)
<1>1. DOMAIN L = 1..n /\ n \in 0..2
  BY ClassFacts
<1>2. InOrder(type, names) = FlattenSeq(s)
  BY DEF InOrder, Lists
<1> HIDE DEF L, n
<1>3. DOMAIN s = 1..n /\ Len(s) = n /\ \A i \in 1..n : s[i] = Part(type, names, i)
  <2>1. DOMAIN s = 1..n /\ s \in Seq(Range(s))
    <3>1. DOMAIN s = 1..n
      BY <1>1
    <3> DEFINE R == Range(s)
    <3>2. \A i \in 1..n : s[i] \in R
      BY <3>1 DEF Range
    <3>3. s = [i \in 1..n |-> s[i]]
      BY <1>1
    <3> HIDE DEF s, R
    <3>4. s \in [1..n -> R]
      BY <3>2, <3>3
    <3> QED
      BY <1>1, <3>1, <3>4 DEF R
  <2>2. \A i \in 1..n : s[i] = Part(type, names, i)
    BY <1>1 DEF Part, L
  <2> HIDE DEF s
  <2> QED
    BY <1>1, <2>1, <2>2
<1> HIDE DEF s
<1>4. CASE n = 0
  <2>1. FlattenSeq(s) = s
    BY <1>3, <1>4 DEF FlattenSeq
  <2>2. s = <<>>
    BY <1>3, <1>4
  <2>3. n # 1 /\ n # 2
    BY <1>4
  <2> QED
    BY <1>2, <2>1, <2>2, <2>3 DEF L, n
<1>5. CASE n = 1
  <2>1. Len(s) = 1 /\ Len(s) \in 1..3 /\ 1 \in 1..n /\ n # 0 /\ n # 2
    BY <1>3, <1>5
  <2>2. FlattenSeq(s) = s[1]
    BY <2>1, FlattenFacts, Zenon
  <2>3. s[1] = Part(type, names, 1)
    BY <1>3, <2>1
  <2> QED
    BY <1>2, <2>1, <2>2, <2>3 DEF L, n
<1>6. CASE n = 2
  <2>1. Len(s) = 2 /\ Len(s) \in 1..3 /\ 1 \in 1..n /\ 2 \in 1..n /\ n # 0 /\ n # 1
    BY <1>3, <1>6
  <2>2. FlattenSeq(s) = s[1] \o s[2]
    BY <2>1, FlattenFacts, Zenon
  <2>3. s[1] = Part(type, names, 1) /\ s[2] = Part(type, names, 2)
    BY <1>3, <2>1
  <2> QED
    BY <1>2, <2>1, <2>2, <2>3 DEF L, n
<1> QED
  BY <1>1, <1>4, <1>5, <1>6 DEF L, n

(* A beginning of a part, or of the second after the first, is a beginning  *)
(* of all.                                                                  *)
LEMMA PrefixOfOne ==
  ASSUME NEW S, NEW a \in Seq(S), NEW j \in 0..Len(a)
  PROVE  /\ SubSeq(a, 1, j) \in Seq(S) /\ IsPrefix(SubSeq(a, 1, j), a)
         /\ IsPrefix(<<>>, a) /\ IsPrefix(a, a)
<1>1. SubSeq(a, 1, j) \in Seq(S) /\ Len(SubSeq(a, 1, j)) = j
  OBVIOUS
<1>2. SubSeq(SubSeq(a, 1, j), 1, j) = SubSeq(a, 1, j)
  BY <1>1
<1>3. Len(a) \in Nat /\ j <= Len(a) /\ Len(a) <= Len(a)
  OBVIOUS
<1>4. IsPrefix(SubSeq(a, 1, j), a)
  BY <1>1, <1>2, <1>3 DEF IsPrefix
<1>5. SubSeq(<<>>, 1, 0) = <<>> /\ SubSeq(a, 1, 0) = <<>> /\ Len(<<>>) = 0 /\ 0 <= Len(a)
  OBVIOUS
<1> QED
  BY <1>1, <1>3, <1>4, <1>5 DEF IsPrefix

LEMMA PrefixOfTwo ==
  ASSUME NEW S, NEW a \in Seq(S), NEW b \in Seq(S), NEW p \in Seq(S),
         \/ IsPrefix(p, a)
         \/ \E j \in 0..Len(b) : p = a \o SubSeq(b, 1, j)
  PROVE  a \o b \in Seq(S) /\ IsPrefix(p, a \o b)
<1> DEFINE c == a \o b
           k == Len(p)
           m == Len(a)
<1>1. ASSUME NEW q \in Seq(S)
      PROVE  /\ a \o q \in Seq(S) /\ Len(a \o q) = Len(a) + Len(q)
             /\ \A i \in 1..Len(a) : (a \o q)[i] = a[i]
             /\ \A i \in 1..Len(q) : (a \o q)[Len(a) + i] = q[i]
  BY JoinedFacts
<1>2. /\ c \in Seq(S) /\ Len(c) = m + Len(b)
      /\ \A i \in 1..m : c[i] = a[i]
      /\ \A i \in 1..Len(b) : c[m + i] = b[i]
  BY JoinedFacts
<1>3. m \in Nat /\ k \in Nat /\ Len(b) \in Nat
  OBVIOUS
<1> HIDE DEF c
<1>4. k <= Len(c) /\ \A i \in 1..k : p[i] = c[i]
  <2>1. CASE IsPrefix(p, a)
    <3>1. k <= m /\ SubSeq(p, 1, k) = SubSeq(a, 1, k)
      BY <2>1 DEF IsPrefix
    <3> HIDE DEF k, m
    <3>2. \A i \in 1..k : SubSeq(p, 1, k)[i] = p[i] /\ SubSeq(a, 1, k)[i] = a[i]
      BY <1>3, <3>1 DEF k, m
    <3> QED
      BY <1>2, <1>3, <3>1, <3>2
  <2>2. ASSUME NEW j \in 0..Len(b), p = a \o SubSeq(b, 1, j)
        PROVE  k <= Len(c) /\ \A i \in 1..k : p[i] = c[i]
    <3> DEFINE q == SubSeq(b, 1, j)
    <3>1. q \in Seq(S) /\ Len(q) = j /\ \A i \in 1..j : q[i] = b[i]
      OBVIOUS
    <3> HIDE DEF q
    <3>2. /\ a \o q \in Seq(S) /\ Len(a \o q) = Len(a) + Len(q)
          /\ \A i \in 1..Len(a) : (a \o q)[i] = a[i]
          /\ \A i \in 1..Len(q) : (a \o q)[Len(a) + i] = q[i]
      BY <1>1, <3>1
    <3>3. p = a \o q
      BY <2>2 DEF q
    <3>4. /\ k = m + j /\ j \in Nat /\ j <= Len(b)
          /\ \A i \in 1..m : p[i] = a[i]
          /\ \A i \in 1..j : p[m + i] = b[i]
      BY <1>3, <3>1, <3>2, <3>3
    <3> HIDE DEF k, m
    <3>5. \A i \in 1..k : i \in 1..m \/ (i - m \in 1..j /\ i = m + (i - m))
      BY <1>3, <3>4
    <3>6. \A i \in 1..j : i \in 1..Len(b)
      BY <1>3, <3>4
    <3>7. ASSUME NEW i \in 1..k
          PROVE  p[i] = c[i]
      <4>1. CASE i \in 1..m
        BY <1>2, <3>4, <4>1
      <4>2. CASE i - m \in 1..j /\ i = m + (i - m)
        <5> DEFINE h == i - m
        <5>1. h \in 1..j /\ i = m + h
          BY <4>2
        <5> HIDE DEF h
        <5> QED
          BY <1>2, <3>4, <3>6, <5>1
      <4> QED
        BY <3>5, <4>1, <4>2
    <3>8. k <= Len(c)
      BY <1>2, <1>3, <3>4
    <3> QED
      BY <3>7, <3>8
  <2> QED
    BY <2>1, <2>2
<1> HIDE DEF m
<1>5. SubSeq(p, 1, k) = SubSeq(c, 1, k)
  <2>1. SubSeq(p, 1, k) \in Seq(S) /\ Len(SubSeq(p, 1, k)) = k
        /\ \A i \in 1..k : SubSeq(p, 1, k)[i] = p[i]
    BY <1>3
  <2>2. SubSeq(c, 1, k) \in Seq(S) /\ Len(SubSeq(c, 1, k)) = k
        /\ \A i \in 1..k : SubSeq(c, 1, k)[i] = c[i]
    BY <1>2, <1>3, <1>4
  <2> DEFINE x == SubSeq(p, 1, k)
             y == SubSeq(c, 1, k)
  <2>3. /\ x \in Seq(S) /\ y \in Seq(S) /\ Len(x) = Len(y)
        /\ \A i \in 1..Len(x) : x[i] = y[i]
    BY <1>4, <2>1, <2>2
  <2> HIDE DEF x, y
  <2>4. x = y
    BY <2>3, SameSequence
  <2> QED
    BY <2>4 DEF x, y
<1> QED
  BY <1>2, <1>4, <1>5 DEF IsPrefix, c

(* What has been read of the lists is a beginning of what is saved.         *)
LEMMA ReadInOrder ==
  ASSUME NEW type \in DOMAIN Class, NEW names, names \in Seq(Range(names)),
         NEW l \in 1..Len(Lists(type)), NEW j \in 0..Len(Part(type, names, l))
  PROVE  /\ IsPrefix(Before(type, names, l) \o SubSeq(Part(type, names, l), 1, j),
                     InOrder(type, names))
         /\ IsPrefix(<<>>, InOrder(type, names))
<1> DEFINE S == Range(names)
           P(i) == Part(type, names, i)
           m == Len(Lists(type))
           I1 == InOrder(type, names)
<1>1. names \in Seq(S)
  OBVIOUS
<1> HIDE DEF S
<1>2. \A i \in 1..m : P(i) \in Seq(S)
  <2>1. PlaceByPlace(S, type, names)
    BY <1>1, LinesFacts
  <2> QED
    BY <2>1 DEF PlaceByPlace
<1>3. m \in 0..2
  BY ClassFacts
<1>4. /\ m = 1 => I1 = P(1)
      /\ m = 2 => I1 = P(1) \o P(2)
  BY OrderFacts
<1>5. Before(type, names, 1) = <<>> /\ Before(type, names, 2) = P(1)
  BY DEF Before
<1>6. l \in 1..m /\ j \in 0..Len(P(l))
  OBVIOUS
<1> DEFINE p == Before(type, names, l) \o SubSeq(P(l), 1, j)
<1> SUFFICES IsPrefix(p, I1) /\ IsPrefix(<<>>, I1)
  OBVIOUS
<1> HIDE DEF P, m, I1, p
<1>7. (l = 1 /\ m = 1) \/ (l = 1 /\ m = 2) \/ (l = 2 /\ m = 2)
  BY <1>3, <1>6
<1>8. 1 \in 1..m /\ P(1) \in Seq(S)
  BY <1>2, <1>3, <1>6
<1>9. ASSUME l = 1
      PROVE  p = SubSeq(P(1), 1, j) /\ j \in 0..Len(P(1))
  <2>1. j \in 0..Len(P(1))
    BY <1>6, <1>9
  <2>2. SubSeq(P(1), 1, j) \in Seq(S)
    BY <1>8, <2>1, PrefixOfOne
  <2> DEFINE q == SubSeq(P(1), 1, j)
  <2>3. p = <<>> \o q
    BY <1>5, <1>9 DEF p
  <2>4. q \in Seq(S)
    BY <2>2
  <2> HIDE DEF q
  <2>5. <<>> \o q = q
    BY <2>4
  <2> QED
    BY <2>1, <2>3, <2>5 DEF q
<1>10. CASE l = 1 /\ m = 1
  <2>1. IsPrefix(SubSeq(P(1), 1, j), P(1)) /\ IsPrefix(<<>>, P(1))
    BY <1>8, <1>9, <1>10, PrefixOfOne
  <2> QED
    BY <1>4, <1>9, <1>10, <2>1
<1>11. ASSUME m = 2
       PROVE  P(2) \in Seq(S) /\ IsPrefix(<<>>, P(1) \o P(2))
  <2>1. P(2) \in Seq(S)
    BY <1>2, <1>11
  <2>2. IsPrefix(<<>>, P(1)) /\ <<>> \in Seq(S)
    BY <1>8, PrefixOfOne
  <2> QED
    BY <1>8, <2>1, <2>2, PrefixOfTwo
<1>12. CASE l = 1 /\ m = 2
  <2>1. SubSeq(P(1), 1, j) \in Seq(S) /\ IsPrefix(SubSeq(P(1), 1, j), P(1))
    BY <1>8, <1>9, <1>12, PrefixOfOne
  <2>2. IsPrefix(SubSeq(P(1), 1, j), P(1) \o P(2))
    BY <1>8, <1>11, <1>12, <2>1, PrefixOfTwo
  <2> QED
    BY <1>4, <1>9, <1>11, <1>12, <2>2
<1>13. CASE l = 2 /\ m = 2
  <2>1. p = P(1) \o SubSeq(P(2), 1, j) /\ j \in 0..Len(P(2))
    BY <1>5, <1>6, <1>13 DEF p
  <2>2. SubSeq(P(2), 1, j) \in Seq(S)
    BY <1>11, <1>13, <2>1, PrefixOfOne
  <2> DEFINE q == SubSeq(P(2), 1, j)
  <2>3. p \in Seq(S)
    <3>1. q \in Seq(S) /\ P(1) \in Seq(S) /\ p = P(1) \o q
      BY <1>8, <2>1, <2>2
    <3> HIDE DEF q
    <3> QED
      BY <3>1, JoinedFacts
  <2>4. \E h \in 0..Len(P(2)) : p = P(1) \o SubSeq(P(2), 1, h)
    BY <2>1
  <2>5. IsPrefix(p, P(1) \o P(2))
    BY <1>8, <1>11, <1>13, <2>3, <2>4, PrefixOfTwo
  <2> QED
    BY <1>4, <1>11, <1>13, <2>5
<1> QED
  BY <1>7, <1>10, <1>12, <1>13

(* What load has made of a file, however much of it there is.               *)
LEMMA LoadedIsHarmless ==
  ASSUME SaveInv
  PROVE  CutFileIsHarmless
<1> DEFINE type == saving.type
           names == saving.names
           V == Values(type)
           L == Lists(type)
           P(l) == Part(type, names, l)
           B(l) == Base(type, names, l)
           F == Lines(type, names)
           n == Len(V)
           m == Len(L)
           k == Len(disk)
           O == InOrder(type, names)
           VT(h) == \A i \in 1..n : object.values[V[i]] = IF i <= h THEN Value(V[i]) ELSE Blank
           pre(l) == Before(type, names, l)
           IsAfterValue ==
             \E i \in 0..n : k = 2 * i /\ VT(i) /\ object.names = <<>>
           IsBeforeValue ==
             \E i \in 1..n : k = 2 * i - 1 /\ VT(i - 1) /\ object.names = <<>>
           IsInList ==
             \E l \in 1..m : \E j \in 0..Len(P(l)) :
               /\ k = B(l) + 1 + j /\ VT(n)
               /\ object.names = pre(l) \o SubSeq(P(l), 1, j)
           IsAfterList ==
             \E l \in 1..m : /\ k = B(l) + Len(P(l)) + 2 /\ VT(n)
                            /\ object.names = pre(l) \o P(l)
<1> SUFFICES ASSUME tool = "loaded"
             PROVE  /\ ~object.threw
                    /\ \A s \in ValueSections : object.values[s] \in {Blank, Value(s)}
                    /\ IsPrefix(object.names, O)
                    /\ object.names # <<>> =>
                         \A s \in ValueSections : object.values[s] = Value(s)
                    /\ disk = F =>
                         /\ \A s \in ValueSections : object.values[s] = Value(s)
                         /\ object.names = O
  BY DEF CutFileIsHarmless
<1>1. /\ type \in DOMAIN Class /\ names \in Seq(Range(names)) /\ ~object.threw
      /\ k \in Nat
  BY DEF SaveInv, Reads
<1>2. IsAfterValue \/ IsBeforeValue \/ IsInList \/ IsAfterList
  <2>1. ReadTo(type, names, object, k)
    BY DEF SaveInv, Reads
  <2> QED
    BY <2>1 DEF ReadTo, AfterValue, BeforeValue, InList, AfterList, ValuesTo
<1>3. PlaceByPlace(Range(names), type, names)
  BY <1>1, LinesFacts
<1>4. /\ Len(F) = 2 * n + Sizes(type, names)
      /\ \A l \in 1..m : P(l) \in Seq(Range(names))
  BY <1>3 DEF PlaceByPlace
<1>5. n \in Nat /\ m \in 0..2
  BY <1>1, ClassFacts
<1>6. ValueSections = {V[i] : i \in 1..n}
  BY <1>1, SectionsApart
<1>7. /\ Sizes(type, names) = IF m = 0 THEN 0 ELSE IF m = 1 THEN Len(P(1)) + 2
                              ELSE Len(P(1)) + 2 + (Len(P(2)) + 2)
  BY DEF Sizes
<1>8. B(1) = 2 * n /\ B(2) = 2 * n + (Len(P(1)) + 2)
  <2> HIDE DEF n
  <2>1. B(1) = 2 * n + 0 /\ B(2) = 2 * n + (Len(P(1)) + 2)
    BY DEF Base, n
  <2> QED
    BY <1>5, <2>1
<1>9. /\ m = 0 => O = <<>>
      /\ m = 1 => O = P(1)
      /\ m = 2 => O = P(1) \o P(2)
  BY <1>1, OrderFacts
<1>10. IsPrefix(<<>>, O)
  <2>1. CASE m = 0
    <3>1. O = <<>>
      BY <1>9, <2>1
    <3> HIDE DEF O
    <3>2. IsPrefix(<<>>, <<>>)
      BY DEF IsPrefix
    <3> QED
      BY <3>1, <3>2
  <2>2. CASE m # 0
    <3>1. 1 \in 1..m
      BY <1>5, <2>2
    <3>2. 0 \in 0..Len(P(1))
      BY <1>4, <3>1
    <3> HIDE DEF O, type, names
    <3> QED
      BY <1>1, <3>1, <3>2, ReadInOrder DEF O
  <2> QED
    BY <2>1, <2>2
<1>11. \A l \in 1..m : \A j \in 0..Len(P(l)) : IsPrefix(pre(l) \o SubSeq(P(l), 1, j), O)
  BY <1>1, ReadInOrder
<1>12. \A l \in 1..m : Len(P(l)) \in Nat /\ Len(P(l)) \in 0..Len(P(l))
                      /\ SubSeq(P(l), 1, Len(P(l))) = P(l)
  BY <1>4
<1>13. pre(1) = <<>> /\ pre(2) = P(1) /\ (1 \in 1..m => <<>> \o P(1) = P(1))
  <2>1. 1 \in 1..m => <<>> \o P(1) = P(1)
    BY <1>4
  <2> QED
    BY <2>1 DEF Before
<1>14. ASSUME NEW h \in 0..n, VT(h)
       PROVE  \A s \in ValueSections : object.values[s] \in {Blank, Value(s)}
  BY <1>6, <1>14
<1>15. ASSUME VT(n)
       PROVE  \A s \in ValueSections : object.values[s] = Value(s)
  <2>1. \A i \in 1..n : i <= n
    BY <1>5
  <2> QED
    BY <1>6, <1>15, <2>1
<1>16. disk = F => k = Len(F)
  OBVIOUS
<1>17. n \in 0..n
  BY <1>5
<1> DEFINE Good == /\ \A s \in ValueSections : object.values[s] \in {Blank, Value(s)}
                   /\ IsPrefix(object.names, O)
                   /\ object.names # <<>> =>
                        \A s \in ValueSections : object.values[s] = Value(s)
                   /\ disk = F =>
                        /\ \A s \in ValueSections : object.values[s] = Value(s)
                        /\ object.names = O
<1> SUFFICES Good
  BY <1>1
<1> HIDE DEF type, names, V, L, P, B, F, n, m, k, O, VT, pre
<1>18. CASE IsAfterValue
  <2>1. PICK i \in 0..n : k = 2 * i /\ VT(i) /\ object.names = <<>>
    BY <1>18
  <2>2. ASSUME disk = F
        PROVE  m = 0 /\ i = n
    <3>1. 2 * i = 2 * n + Sizes(type, names)
      BY <1>4, <1>16, <2>1, <2>2
    <3>2. CASE m = 0
      <4>1. Sizes(type, names) = 0
        BY <1>7, <3>2
      <4> QED
        BY <1>5, <3>1, <3>2, <4>1
    <3>3. CASE m = 1
      <4>1. Sizes(type, names) = Len(P(1)) + 2 /\ Len(P(1)) \in Nat
        BY <1>7, <1>12, <3>3
      <4> QED
        BY <1>5, <3>1, <4>1
    <3>4. CASE m = 2
      <4>1. /\ Sizes(type, names) = Len(P(1)) + 2 + (Len(P(2)) + 2)
            /\ Len(P(1)) \in Nat /\ Len(P(2)) \in Nat
        BY <1>7, <1>12, <3>4
      <4> QED
        BY <1>5, <3>1, <4>1
    <3> QED
      BY <1>5, <3>2, <3>3, <3>4
  <2> QED
    BY <1>9, <1>10, <1>14, <1>15, <2>1, <2>2
<1>19. CASE IsBeforeValue
  <2>1. PICK i \in 1..n : k = 2 * i - 1 /\ VT(i - 1) /\ object.names = <<>>
    BY <1>19
  <2>2. i - 1 \in 0..n
    BY <1>5
  <2>3. disk # F
    <3>1. Sizes(type, names) \in Nat
      <4>1. CASE m = 0
        BY <1>7, <4>1
      <4>2. CASE m = 1
        BY <1>7, <1>12, <4>2
      <4>3. CASE m = 2
        <5>1. Sizes(type, names) = Len(P(1)) + 2 + (Len(P(2)) + 2)
          BY <1>7, <4>3
        <5>2. Len(P(1)) \in Nat /\ Len(P(2)) \in Nat
          BY <1>12, <4>3
        <5> QED
          BY <5>1, <5>2
      <4> QED
        BY <1>5, <4>1, <4>2, <4>3
    <3> QED
      BY <1>4, <1>5, <1>16, <2>1, <3>1
  <2> QED
    BY <1>10, <1>14, <2>1, <2>2, <2>3
<1>20. ASSUME NEW l \in 1..m
       PROVE  /\ l = 1 /\ m = 1 => Len(F) = B(l) + Len(P(l)) + 2
              /\ l = 2 /\ m = 2 => Len(F) = B(l) + Len(P(l)) + 2
              /\ l = 1 /\ m = 2 => /\ Len(F) = B(1) + Len(P(1)) + 2 + (Len(P(2)) + 2)
                                  /\ Len(P(2)) \in Nat
              /\ (l = 1 /\ m = 1) \/ (l = 2 /\ m = 2) \/ (l = 1 /\ m = 2)
              /\ Len(P(l)) \in Nat /\ B(l) \in Nat
  <2>1. Len(P(l)) \in Nat /\ 1 \in 1..m /\ Len(P(1)) \in Nat
    BY <1>5, <1>12
  <2>2. ASSUME m = 1
        PROVE  Len(F) = B(1) + Len(P(1)) + 2
    <3>1. Sizes(type, names) = Len(P(1)) + 2
      BY <1>7, <2>2
    <3> QED
      BY <1>4, <1>5, <1>8, <2>1, <3>1
  <2>3. ASSUME m = 2
        PROVE  /\ Len(F) = B(2) + Len(P(2)) + 2 /\ Len(P(2)) \in Nat
               /\ Len(F) = B(1) + Len(P(1)) + 2 + (Len(P(2)) + 2)
    <3>1. Sizes(type, names) = Len(P(1)) + 2 + (Len(P(2)) + 2)
      BY <1>7, <2>3
    <3>2. Len(P(2)) \in Nat
      BY <1>12, <2>3
    <3> QED
      BY <1>4, <1>5, <1>8, <2>1, <3>1, <3>2
  <2>4. (l = 1 /\ m = 1) \/ (l = 2 /\ m = 2) \/ (l = 1 /\ m = 2)
    <3>1. l \in 1..m /\ m \in 0..2
      BY <1>5
    <3>2. CASE m = 0
      BY <3>1, <3>2
    <3>3. CASE m = 1
      BY <3>1, <3>3
    <3>4. CASE m = 2
      BY <3>1, <3>4
    <3> QED
      BY <1>5, <3>2, <3>3, <3>4
  <2>5. B(1) \in Nat /\ B(2) \in Nat
    BY <1>5, <1>8, <2>1
  <2> QED
    BY <2>1, <2>2, <2>3, <2>4, <2>5
<1>21. CASE IsInList
  <2>1. PICK l \in 1..m : \E j \in 0..Len(P(l)) :
          /\ k = B(l) + 1 + j /\ VT(n)
          /\ object.names = pre(l) \o SubSeq(P(l), 1, j)
    BY <1>21
  <2>2. PICK j \in 0..Len(P(l)) :
          /\ k = B(l) + 1 + j /\ VT(n)
          /\ object.names = pre(l) \o SubSeq(P(l), 1, j)
    BY <2>1
  <2>3. disk # F
    <3>1. k = B(l) + 1 + j /\ j \in Nat /\ j <= Len(P(l)) /\ Len(P(l)) \in Nat /\ B(l) \in Nat
      BY <1>20, <2>2
    <3>2. Len(F) = B(l) + Len(P(l)) + 2
          \/ \E q \in Nat : Len(F) = B(l) + Len(P(l)) + 2 + (q + 2)
      BY <1>20
    <3> QED
      BY <1>16, <3>1, <3>2
  <2>4. IsPrefix(object.names, O)
    BY <1>11, <2>2
  <2> QED
    BY <1>14, <1>15, <1>17, <2>2, <2>3, <2>4
<1>22. CASE IsAfterList
  <2>1. PICK l \in 1..m : /\ k = B(l) + Len(P(l)) + 2 /\ VT(n)
                          /\ object.names = pre(l) \o P(l)
    BY <1>22
  <2>2. IsPrefix(object.names, O)
    BY <1>11, <1>12, <2>1
  <2>3. ASSUME disk = F
        PROVE  object.names = O
    <3>1. ~(l = 1 /\ m = 2)
      BY <1>16, <1>20, <2>1, <2>3
    <3>2. CASE l = 1 /\ m = 1
      <4>1. 1 \in 1..m
        BY <3>2
      <4> QED
        BY <1>9, <1>13, <2>1, <3>2, <4>1
    <3>3. CASE l = 2 /\ m = 2
      BY <1>9, <1>13, <2>1, <3>3
    <3> QED
      BY <1>20, <3>1, <3>2, <3>3
  <2> QED
    BY <1>14, <1>15, <1>17, <2>1, <2>2, <2>3
<1> QED
  BY <1>2, <1>18, <1>19, <1>21, <1>22

LEMMA GroupInductive == SetupSpec => []GroupInv
<1>1. GroupInv /\ [SetupNext]_setupVars => GroupInv'
  <2> SUFFICES ASSUME GroupInv, [SetupNext]_setupVars
               PROVE  GroupInv'
    OBVIOUS
  <2>1. CASE GroupStep
    BY <2>1, GroupStepRefines
  <2>2. CASE UNCHANGED groupVars
    BY <2>2, GroupUnchanged DEF groupVars
  <2>3. GroupStep \/ UNCHANGED groupVars
    BY DEF SetupNext, Edit, SaveGroup, SaveAndLoad, StartServer, Construct, setupVars,
           GroupStep, groupVars
  <2> QED
    BY <2>1, <2>2, <2>3
<1>2. SetupInit => GroupInv
  BY GroupInitially DEF SetupInit
<1> QED
  BY <1>1, <1>2, PTL DEF SetupSpec

(* What load has read is what the lines up to there say, whoever has        *)
(* written them and however far.                                            *)
THEOREM SaveInductive == SetupSpec => []SaveInv
BY SaveInitially, SaveInductiveStep, GroupInductive, PTL DEF SetupSpec

(* A file that was not written to its end is read without an exception, as  *)
(* the saved object without the end of it; with all its lines it is that    *)
(* object.                                                                  *)
THEOREM FilesAreHarmless == SetupSpec => []CutFileIsHarmless
BY LoadedIsHarmless, SaveInductive, PTL

-----------------------------------------------------------------------------
(***************************************************************************)
(* Types.                                                                  *)
(***************************************************************************)
StackTyped(st) ==
  /\ st \in Seq(Frames) /\ Len(st) <= MaxDepth
  /\ \A i \in 1..Len(st) : st[i].line \in 1..(Len(Names(files, st[i].group)) + 1)

(* What no other invariant says of the variables of the constructor.        *)
TypeInv ==
  /\ Configurations # {}
  /\ phase \in {"setup", "perms", "commands", "prune groups", "prune commands"} \cup Ends
                \cup {"looping"}
  /\ phase = "setup" => stack = <<>>
  /\ phase # "setup" => unread \subseteq Files(files)
  /\ StackTyped(stack)

LEMMA NoFrames == StackTyped(<<>>)
<1>1. <<>> \in Seq(Frames) /\ Len(<<>>) = 0 /\ 1..0 = {}
  OBVIOUS
<1>2. 0 <= MaxDepth
  BY StartupAssumption
<1> QED
  BY <1>1, <1>2 DEF StackTyped

LEMMA TypeInitially == SetupInit => TypeInv
BY NoFrames DEF SetupInit, NothingLoaded, TypeInv

LEMMA TypeNext ==
  ASSUME TypeInv, files' = files, phase' # "setup",
         phase' \in {"perms", "commands", "prune groups", "prune commands"} \cup Ends
                    \cup {"looping"},
         unread' \subseteq Files(files), StackTyped(stack')
  PROVE  TypeInv'
<1>1. StackTyped(stack') => StackTyped(stack)'
  BY DEF StackTyped, Frames, GroupFiles
<1> QED
  BY <1>1 DEF TypeInv

LEMMA StartServerType ==
  ASSUME TypeInv, StartServer
  PROVE  TypeInv'
<1>1. phase = "setup" /\ phase' = "perms" /\ unread' = PermFiles(files') /\ stack' = stack
  BY DEF StartServer
<1>2. stack' = <<>>
  BY <1>1 DEF TypeInv
<1>3. StackTyped(<<>>)'
  <2>1. <<>> \in Seq(Frames') /\ Len(<<>>) = 0 /\ 1..0 = {}
    OBVIOUS
  <2>2. 0 <= MaxDepth
    BY StartupAssumption
  <2> QED
    BY <2>1, <2>2 DEF StackTyped
<1>4. StackTyped(stack)'
  BY <1>2, <1>3 DEF StackTyped
<1> QED
  BY <1>1, <1>4 DEF TypeInv, Files

(* The call on top.                                                         *)
LEMMA TopTyped ==
  ASSUME WellFormed(files), StackTyped(stack), stack # <<>>
  PROVE  /\ Len(stack) \in Nat \ {0} /\ Top.group \in GroupFiles(files)
         /\ Top.group \in Files(files)
         /\ Top.line \in 1..(Len(Contents) + 1) /\ Len(Contents) \in Nat
<1>1. Len(stack) \in Nat \ {0} /\ Len(stack) \in 1..Len(stack) /\ stack \in Seq(Frames)
  BY DEF StackTyped
<1>2. Top.group \in GroupFiles(files) /\ Top.group \in Files(files)
  BY <1>1, FrameFacts DEF Top
<1>3. Len(Contents) \in Nat
  BY <1>2, NamedFacts DEF Contents
<1>4. Top.line \in 1..(Len(Contents) + 1)
  BY <1>1 DEF StackTyped, Top, Contents
<1> QED
  BY <1>1, <1>2, <1>3, <1>4

LEMMA MovedTyped ==
  ASSUME WellFormed(files), StackTyped(stack), stack # <<>>, Top.line <= Len(Contents)
  PROVE  StackTyped(Moved)
<1> DEFINE n == Len(stack)
<1>1. /\ n \in Nat \ {0} /\ Moved \in Seq(Frames) /\ Len(Moved) = n
      /\ \A i \in 1..(n - 1) : Moved[i] = stack[i]
      /\ Moved[n].group = Top.group /\ Moved[n].line = Top.line + 1
  BY MovedFacts DEF StackTyped
<1>2. Moved[n].line \in 1..(Len(Names(files, Moved[n].group)) + 1)
  <2>1. Names(files, Moved[n].group) = Contents
    BY <1>1 DEF Contents
  <2>2. Top.line \in 1..(Len(Contents) + 1) /\ Len(Contents) \in Nat
    BY TopTyped
  <2>3. Top.line + 1 \in 1..(Len(Contents) + 1)
    BY <2>2
  <2> QED
    BY <1>1, <2>1, <2>3
<1> HIDE DEF n
<1>3. \A i \in 1..n : i \in 1..(n - 1) \/ i = n
  BY <1>1
<1>4. \A i \in 1..(n - 1) : i \in 1..n
  BY <1>1
<1> QED
  BY <1>1, <1>2, <1>3, <1>4 DEF StackTyped, n

LEMMA CallTyped ==
  ASSUME WellFormed(files), NEW g \in GroupFiles(files)
  PROVE  Call(g) \in Frames /\ Call(g).line \in 1..(Len(Names(files, Call(g).group)) + 1)
<1>1. Call(g) \in Frames /\ Call(g).group = g /\ Call(g).line = 1
  BY DEF Call, Frames
<1>2. Len(Names(files, g)) \in Nat
  <2>1. g \in Files(files)
    BY FileTypes DEF Files
  <2> QED
    BY <2>1, NamedFacts
<1> QED
  BY <1>1, <1>2

LEMMA CalledTyped ==
  ASSUME WellFormed(files), NEW st, StackTyped(st), Len(st) < MaxDepth,
         NEW g \in GroupFiles(files)
  PROVE  StackTyped(Append(st, Call(g)))
<1> DEFINE n == Len(st)
           a == Append(st, Call(g))
<1>1. st \in Seq(Frames) /\ n \in Nat /\ MaxDepth \in Nat
  BY StartupAssumption DEF StackTyped
<1>2. /\ a \in Seq(Frames) /\ Len(a) = n + 1 /\ a[n + 1] = Call(g)
      /\ \A i \in 1..n : a[i] = st[i]
  BY <1>1, CallTyped, AppendedFacts
<1> HIDE DEF a
<1>3. n + 1 <= MaxDepth
  BY <1>1
<1>4. \A i \in 1..n : st[i].line \in 1..(Len(Names(files, st[i].group)) + 1)
  BY DEF StackTyped
<1> HIDE DEF n
<1>5. \A i \in 1..(n + 1) : i \in 1..n \/ i = n + 1
  BY <1>1
<1> QED
  BY <1>2, <1>3, <1>4, <1>5, CallTyped DEF StackTyped, a

LEMMA ConstructType ==
  ASSUME TypeInv, WellFormed(files), Construct
  PROVE  TypeInv'
<1>1. phase # "setup" /\ phase' # "setup"
  BY ConstructPhase
<1>2. unread \subseteq Files(files) /\ StackTyped(stack) /\ phase \in
        {"perms", "commands", "prune groups", "prune commands"} \cup Ends \cup {"looping"}
  BY <1>1 DEF TypeInv
<1>3. CASE \/ \E e \in unread : ReadPerm(e)
           \/ \E e \in unread : ReadCommand(e)
           \/ LoadMissing
           \/ CommandsRead \/ PruneGroup \/ GroupsPruned \/ PruneCommand \/ CommandsPruned
  <2>1. /\ files' = files /\ stack' = stack /\ unread' \subseteq unread
        /\ phase' \in {phase, "failed", "looping", "prune groups", "prune commands", "ready"}
    BY <1>3 DEF Stopped, ReadPerm, ReadCommand, LoadMissing, CommandsRead, PruneGroup,
      GroupsPruned, PruneCommand, CommandsPruned
  <2> QED
    BY <1>1, <1>2, <2>1, TypeNext DEF Ends
<1>4. CASE PermsRead
  <2>1. files' = files /\ stack' = stack /\ unread' = CommandFiles(files)
        /\ phase' = "commands"
    BY <1>4 DEF PermsRead
  <2>2. unread' \subseteq Files(files)
    BY <2>1 DEF Files
  <2> QED
    BY <1>1, <1>2, <2>1, <2>2, TypeNext
<1>5. ASSUME NEW e \in unread, ReadGroup(e)
      PROVE  TypeInv'
  <2>1. /\ files' = files /\ phase' \in {phase, "looping"} /\ unread' = unread \ {e}
        /\ stack' = stack \/ stack' = <<Call(e)>>
        /\ e.type = "commandgroup"
    BY <1>5 DEF ReadGroup
  <2>2. StackTyped(<<Call(e)>>)
    <3>1. e \in GroupFiles(files)
      BY <1>2, <2>1, FileTypes
    <3>2. StackTyped(Append(<<>>, Call(e)))
      <4>1. Len(<<>>) < MaxDepth
        BY StartupAssumption
      <4> QED
        BY <3>1, <4>1, NoFrames, CalledTyped
    <3>3. Append(<<>>, Call(e)) = <<Call(e)>>
      OBVIOUS
    <3> QED
      BY <3>2, <3>3
  <2>3. StackTyped(stack')
    BY <1>2, <2>1, <2>2
  <2> QED
    BY <1>1, <1>2, <2>1, <2>3, TypeNext
<1>6. CASE LoadLine
  <2>1. /\ files' = files /\ phase' = phase /\ unread' = unread /\ stack' = Moved
        /\ stack # <<>> /\ Top.line <= Len(Contents)
    BY <1>6 DEF LoadLine
  <2>2. StackTyped(stack')
    BY <1>2, <2>1, MovedTyped
  <2> QED
    BY <1>1, <1>2, <2>1, <2>2, TypeNext
<1>7. CASE LoadNested
  <2>1. /\ files' = files /\ unread' = unread
        /\ \/ Len(stack) < MaxDepth /\ stack' = Append(Moved, Call(Line)) /\ phase' = phase
           \/ stack' = stack /\ phase' \in {"crashed", "looping"}
        /\ stack # <<>> /\ Top.line <= Len(Contents)
        /\ Line.type = "commandgroup" /\ Exists(Line)
    BY <1>7 DEF LoadNested
  <2>2. Line \in GroupFiles(files)
    BY <2>1, FileTypes DEF Exists
  <2>3. StackTyped(Moved) /\ Len(Moved) = Len(stack)
    BY <1>2, <2>1, MovedTyped, MovedFacts DEF StackTyped
  <2>4. Len(stack) < MaxDepth => StackTyped(Append(Moved, Call(Line)))
    BY <2>2, <2>3, CalledTyped
  <2> QED
    BY <1>1, <1>2, <2>1, <2>4, TypeNext DEF Ends
<1>8. CASE LoadReturns
  <2>1. /\ files' = files /\ phase' \in {phase, "failed"} /\ unread' = unread
        /\ stack' = Front(stack) /\ stack # <<>>
    BY <1>8 DEF LoadReturns
  <2>2. stack \in Seq(Frames)
    BY <1>2 DEF StackTyped
  <2> DEFINE f == Front(stack)
             n == Len(stack)
  <2>3. /\ n \in Nat \ {0} /\ f \in Seq(Frames) /\ Len(f) = n - 1
        /\ \A i \in 1..(n - 1) : f[i] = stack[i]
    BY <2>1, <2>2, FrontFacts
  <2> HIDE DEF f
  <2>4. n <= MaxDepth
        /\ \A i \in 1..n : stack[i].line \in 1..(Len(Names(files, stack[i].group)) + 1)
    BY <1>2 DEF StackTyped
  <2> HIDE DEF n
  <2>5. n - 1 <= MaxDepth /\ \A i \in 1..(n - 1) : i \in 1..n
    BY <2>3, <2>4, StartupAssumption
  <2>6. StackTyped(f)
    BY <2>3, <2>4, <2>5 DEF StackTyped
  <2> QED
    BY <1>1, <1>2, <2>1, <2>6, TypeNext DEF f, Ends
<1> QED
  BY <1>3, <1>4, <1>5, <1>6, <1>7, <1>8 DEF Construct, Next

LEMMA TypeInductive == SetupSpec => []TypeInv
<1>1. TypeInv /\ FilesInv /\ SaveInv /\ [SetupNext]_setupVars => TypeInv'
  <2> SUFFICES ASSUME TypeInv, FilesInv, [SetupNext]_setupVars
               PROVE  TypeInv'
    OBVIOUS
  <2>1. CASE StartServer
    BY <2>1, StartServerType
  <2>2. CASE Construct
    BY <2>2, ConstructType DEF FilesInv
  <2>3. CASE Edit \/ SaveGroup \/ SaveAndLoad \/ UNCHANGED setupVars
    <3>1. UNCHANGED <<files, phase, unread, stack>>
      BY <2>3 DEF Edit, SaveGroup, SaveAndLoad, setupVars, vars
    <3>2. StackTyped(stack)' <=> StackTyped(stack)
      BY <3>1 DEF StackTyped, Frames, GroupFiles
    <3> QED
      BY <3>1, <3>2 DEF TypeInv
  <2> QED
    BY <2>1, <2>2, <2>3 DEF SetupNext
<1> QED
  BY <1>1, TypeInitially, LoadInductive, SaveInductive, PTL DEF SetupSpec

(* The types of the variables of the tools, of the group that is put        *)
(* together and of the constructor; the stack never holds more calls than   *)
(* there are groups.                                                        *)
THEOREM SetupIsTyped == SetupSpec => []SetupTypeOK
<1>1. TypeInv /\ FilesInv /\ LoadInv /\ PermsInv /\ TopInv /\ SaveInv /\ GroupInv => SetupTypeOK
  <2> SUFFICES ASSUME TypeInv, FilesInv, LoadInv, PermsInv, TopInv, SaveInv, GroupInv
               PROVE  SetupTypeOK
    OBVIOUS
  <2>1. ASSUME phase # "setup"
        PROVE  TypeOK
    <3>1. DOMAIN files = DOMAIN (CHOOSE c \in Configurations : TRUE)
      <4>1. WellFormed(files) /\ Configurations # {}
        BY DEF FilesInv, TypeInv
      <4>2. WellFormed(CHOOSE c \in Configurations : TRUE)
        BY <4>1, StartupAssumption
      <4> QED
        BY <4>1, <4>2 DEF WellFormed
    <3>2. /\ phase \in {"perms", "commands", "prune groups", "prune commands"} \cup Ends
                         \cup {"looping"}
          /\ unread \subseteq Files(files)
      BY <2>1 DEF TypeInv
    <3>3. Range(perms) \subseteq PermFiles(files)
      <4>1. perms \in Seq(PermFiles(files))
        BY <2>1 DEF PermsInv
      <4> QED
        BY <4>1 DEF Range
    <3>4. Range(commands) \cup Range(groups) \subseteq CommandFiles(files)
      <4>1. commands \in Seq(SingleCommands(files)) /\ groups \in Seq(GroupFiles(files))
        BY DEF TopInv, TopFor, PlacesFor
      <4>2. Range(commands) \subseteq SingleCommands(files)
            /\ Range(groups) \subseteq GroupFiles(files)
        BY <4>1 DEF Range
      <4> QED
        BY <4>2, FileTypes
    <3>5. Range(cache) \subseteq Files(files)
      <4>1. cache \in Seq(Files(files))
        BY DEF LoadInv, LoadFor, CacheFor
      <4> QED
        BY <4>1 DEF Range
    <3>6. /\ \A i \in DOMAIN stack :
               /\ stack[i].group \in CommandFiles(files)
               /\ stack[i].line \in 1..(Len(Names(files, stack[i].group)) + 1)
          /\ Len(stack) <= MaxDepth
      <4>1. /\ stack \in Seq(Frames) /\ Len(stack) <= MaxDepth
            /\ \A i \in 1..Len(stack) :
                 stack[i].line \in 1..(Len(Names(files, stack[i].group)) + 1)
        BY DEF TypeInv, StackTyped
      <4>2. DOMAIN stack = 1..Len(stack)
        BY <4>1
      <4>3. \A i \in 1..Len(stack) : stack[i].group \in CommandFiles(files)
        BY <4>1, FrameFacts, FileTypes
      <4> QED
        BY <4>1, <4>2, <4>3
    <3>7. at \in Nat
      BY DEF LoadInv
    <3> QED
      BY <3>1, <3>2, <3>3, <3>4, <3>5, <3>6, <3>7 DEF TypeOK
  <2>2. Range(disk) \subseteq Range(Lines(saving.type, saving.names))
    <3>1. disk \in Seq(Range(Lines(saving.type, saving.names)))
      BY DEF SaveInv
    <3> QED
      BY <3>1 DEF Range
  <2>3. Range(users) \subseteq People \ Invalid /\ iterator \in -1..(Len(users) - 1)
    <3>1. users \in Seq(People \ Invalid)
      BY DEF GroupInv
    <3> QED
      BY <3>1 DEF Range, GroupInv
  <2> QED
    BY <2>1, <2>2, <2>3 DEF SetupTypeOK, SaveInv, Reads
<1> QED
  BY <1>1, TypeInductive, LoadInductive, PermsInductive, TopInductive, SaveInductive,
     GroupInductive, PTL
=============================================================================

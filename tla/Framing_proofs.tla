--------------------------- MODULE Framing_proofs ---------------------------
(***************************************************************************)
(* Proofs about Client::write / Server::read and their opposites, for      *)
(* blocks of any size, any texts that keep to what Safe says, and any      *)
(* number of them: what is read is what was written, text by text.         *)
(***************************************************************************)
EXTENDS Framing, TLAPS

-----------------------------------------------------------------------------
(***************************************************************************)
(* Positions in a text and blocks.                                         *)
(***************************************************************************)

(* A number has one remainder.                                              *)
LEMMA OneRemainder ==
  ASSUME NEW L \in Nat \ {0}, NEW r \in 0..(L - 1), NEW s \in 0..(L - 1), NEW d \in Int,
         r = L * d + s
  PROVE  r = s
  OBVIOUS

(* The positions of the blocks of a text.                                   *)
LEMMA NextPosition ==
  ASSUME NEW L \in Nat \ {0}, NEW p \in Nat, p % L = 0
  PROVE  (p + L) % L = 0
<1> DEFINE q == p \div L
           d == (p + L) \div L
           n == (p + L) % L
<1>1. q \in Int /\ d \in Int /\ n \in 0..(L - 1) /\ p = L * q /\ p + L = L * d + n
  OBVIOUS
<1> HIDE DEF q, d, n
<1>2. n = L * (q + 1 - d) + 0
  BY <1>1
<1>3. q + 1 - d \in Int /\ 0 \in 0..(L - 1)
  BY <1>1
<1>4. n = 0
  BY <1>1, <1>2, <1>3, OneRemainder
<1> QED
  BY <1>4 DEF n

(* What is left of a safe text at the beginning of a block is more than a   *)
(* block, or leaves room for the separator and one more cell.               *)
LEMMA RestOfSafe ==
  ASSUME NEW t \in Seq(Chars), Safe(t), NEW p \in Nat, p % MaxLength = 0, p < Len(t)
  PROVE  Len(t) - p > MaxLength \/ Len(t) - p \in 1..(MaxLength - 2)
<1> DEFINE len == Len(t)
           x == len \div MaxLength
           s == len % MaxLength
           y == p \div MaxLength
<1>1. MaxLength \in Nat \ {0} /\ MaxLength > 1
  BY MaxLengthAssumption
<1>2. len \in Nat /\ s \in 1..(MaxLength - 2)
  BY DEF Safe
<1>3. x \in Int /\ y \in Int /\ len = MaxLength * x + s /\ p = MaxLength * y
  BY <1>1, <1>2
<1>4. p < len
  OBVIOUS
<1> HIDE DEF len, x, s, y
<1>5. len - p = MaxLength * (x - y) + s /\ x - y \in Int
  BY <1>1, <1>2, <1>3
<1>6. len - p # MaxLength - 1
  <2> SUFFICES ASSUME len - p = MaxLength - 1 PROVE FALSE
    OBVIOUS
  <2>1. MaxLength - 1 \in 0..(MaxLength - 1) /\ s \in 0..(MaxLength - 1)
    BY <1>1, <1>2
  <2>2. MaxLength - 1 = s
    BY <1>1, <1>5, <2>1, OneRemainder
  <2> QED
    BY <1>1, <1>2, <2>2
<1>7. len - p # MaxLength
  <2> SUFFICES ASSUME len - p = MaxLength PROVE FALSE
    OBVIOUS
  <2>1. 0 \in 0..(MaxLength - 1) /\ s \in 0..(MaxLength - 1)
    BY <1>1, <1>2
  <2>2. 0 = MaxLength * (x - y - 1) + s /\ x - y - 1 \in Int
    <3> DEFINE z == x - y
    <3>1. z \in Int /\ MaxLength * z + s = MaxLength
      BY <1>5
    <3> HIDE DEF z
    <3>2. MaxLength * (z - 1) = MaxLength * z - MaxLength
      BY <1>1, <3>1
    <3>3. 0 = MaxLength * (z - 1) + s /\ z - 1 \in Int
      BY <1>1, <1>2, <3>1, <3>2
    <3> QED
      BY <3>3 DEF z
  <2>3. 0 = s
    BY <1>1, <2>1, <2>2, OneRemainder
  <2> QED
    BY <1>2, <2>3
<1>8. len - p > MaxLength \/ len - p \in 1..(MaxLength - 2)
  BY <1>1, <1>2, <1>4, <1>6, <1>7
<1> QED
  BY <1>8 DEF len

LEMMA BlockType ==
  ASSUME NEW t \in Seq(Chars), NEW p \in Nat
  PROVE  /\ Block(t, p) \in Blocks
         /\ Block(t, p) \in Seq(Symbols) /\ Len(Block(t, p)) = MaxLength
<1>1. \A i \in 1..MaxLength : p + i <= Len(t) => p + i \in 1..Len(t)
  BY MaxLengthAssumption
<1>2. \A i \in 1..MaxLength : p + i <= Len(t) => t[p + i] \in Chars
  BY <1>1
<1>3. Block(t, p) \in [1..MaxLength -> Symbols]
  BY <1>2 DEF Block, Symbols
<1> QED
  BY <1>3, MaxLengthAssumption DEF Blocks

(* A block in the middle of a text has no separator.                        *)
LEMMA MiddleBlock ==
  ASSUME NEW t \in Seq(Chars), \A i \in DOMAIN t : t[i] # ETX, NEW p \in Nat,
         Len(t) - p > MaxLength
  PROVE  /\ Ends(Block(t, p)) = {} /\ Payload(Block(t, p)) = Block(t, p)
         /\ \A i \in 1..MaxLength : p + i \in 1..Len(t) /\ Block(t, p)[i] = t[p + i]
<1>1. \A i \in 1..MaxLength : p + i \in 1..Len(t) /\ p + i <= Len(t)
  BY MaxLengthAssumption
<1>2. \A i \in 1..MaxLength : Block(t, p)[i] = t[p + i]
  BY <1>1 DEF Block
<1>3. Ends(Block(t, p)) = {}
  BY <1>1, <1>2 DEF Ends
<1> QED
  BY <1>1, <1>2, <1>3 DEF Payload

(* The last block has the rest of the text before its only separator.       *)
LEMMA LastBlock ==
  ASSUME NEW t \in Seq(Chars), \A i \in DOMAIN t : t[i] # ETX, NEW p \in Nat,
         NEW r \in 1..(MaxLength - 2), Len(t) - p = r
  PROVE  /\ Ends(Block(t, p)) # {}
         /\ Payload(Block(t, p)) \in Seq(Symbols) /\ Len(Payload(Block(t, p))) = r
         /\ \A i \in 1..r : p + i \in 1..Len(t) /\ Payload(Block(t, p))[i] = t[p + i]
<1> DEFINE b == Block(t, p)
<1>1. /\ MaxLength \in Nat /\ r \in Nat /\ r + 1 < MaxLength /\ r + 1 \in 1..MaxLength
      /\ \A i \in 1..r : i \in 1..MaxLength /\ p + i <= Len(t) /\ p + i \in 1..Len(t)
  BY MaxLengthAssumption
<1>2. \A i \in 1..r : b[i] = t[p + i]
  BY <1>1 DEF Block
<1>3. b[r + 1] = ETX
  <2>1. ~(p + (r + 1) <= Len(t)) /\ p + (r + 1) = Len(t) + 1
    BY <1>1
  <2> QED
    BY <1>1, <2>1 DEF Block
<1>4. \A i \in 1..MaxLength : ~(i \in 1..r) /\ i # r + 1 => b[i] = NUL
  <2> SUFFICES ASSUME NEW i \in 1..MaxLength, ~(i \in 1..r), i # r + 1
               PROVE  b[i] = NUL
    OBVIOUS
  <2>1. ~(p + i <= Len(t)) /\ p + i # Len(t) + 1
    BY <1>1
  <2> QED
    BY <2>1 DEF Block
<1>5. Ends(b) = {r + 1}
  <2>1. \A i \in 1..r : b[i] # ETX
    BY <1>1, <1>2
  <2>2. \A i \in 1..MaxLength : b[i] = ETX => i = r + 1
    BY <1>4, <2>1, CharsAssumption
  <2> QED
    BY <1>1, <1>3, <2>2 DEF Ends
<1>6. Payload(b) = SubSeq(b, 1, r)
  <2>1. (CHOOSE i \in {r + 1} : \A j \in {r + 1} : i <= j) = r + 1
    BY <1>1
  <2>2. (r + 1) - 1 = r
    BY <1>1
  <2> QED
    BY <1>5, <2>1, <2>2 DEF Payload
<1>7. b \in Seq(Symbols) /\ Len(b) = MaxLength
  BY BlockType
<1> HIDE DEF b
<1>8. /\ Payload(b) \in Seq(Symbols) /\ Len(Payload(b)) = r
      /\ \A i \in 1..r : Payload(b)[i] = b[i]
  BY <1>1, <1>6, <1>7
<1> QED
  BY <1>1, <1>2, <1>5, <1>8 DEF b

-----------------------------------------------------------------------------
(***************************************************************************)
(* The inductive invariant, action by action.                              *)
(***************************************************************************)

(* Where blocks begin and what they are, and the blocks in flight, for any  *)
(* texts s, blocks w that begin at o, and position at of the writer.        *)
AlignedIn(s, q) ==
  /\ q[1] \in 1..Len(s)
  /\ q[2] \in Nat /\ q[2] < Len(s[q[1]])
  /\ q[2] % MaxLength = 0

FollowsIn(s, q) ==
  IF Len(s[q[1]]) - q[2] > MaxLength
  THEN <<q[1], q[2] + MaxLength>> ELSE <<q[1] + 1, 0>>

Linked(s, w, o, at) ==
  \A i \in 1..Len(w) :
    /\ AlignedIn(s, o[i])
    /\ w[i] = Block(s[o[i][1]], o[i][2])
    /\ i < Len(w) => FollowsIn(s, o[i]) = o[i + 1]
    /\ ~(i < Len(w)) => FollowsIn(s, o[i]) = at

LEMMA ChainFacts ==
  ASSUME FramingInv
  PROVE  /\ Linked(sent, wire, origin, WriterAt)
         /\ wire = <<>> => ReaderAt = WriterAt
         /\ wire # <<>> => ReaderAt = origin[1]
<1>1. Chain
  BY DEF FramingInv
<1>2. \A i \in 1..Len(wire) :
        /\ AlignedIn(sent, origin[i])
        /\ wire[i] = Block(sent[origin[i][1]], origin[i][2])
        /\ FollowsIn(sent, origin[i]) = IF i < Len(wire) THEN origin[i + 1] ELSE WriterAt
  BY <1>1 DEF Chain, Aligned, AlignedIn, Follows, FollowsIn
<1>3. ReaderAt = IF wire = <<>> THEN WriterAt ELSE origin[1]
  BY <1>1 DEF Chain
<1> QED
  BY <1>2, <1>3 DEF Linked

LEMMA LinksMakeChain ==
  ASSUME Linked(sent', wire', origin', WriterAt'),
         wire' = <<>> => ReaderAt' = WriterAt',
         wire' # <<>> => ReaderAt' = origin'[1]
  PROVE  Chain'
<1>1. \A i \in 1..Len(wire') :
        /\ AlignedIn(sent', origin'[i])
        /\ wire'[i] = Block(sent'[origin'[i][1]], origin'[i][2])
        /\ FollowsIn(sent', origin'[i]) =
             IF i < Len(wire') THEN origin'[i + 1] ELSE WriterAt'
  BY DEF Linked
<1>2. ReaderAt' = IF wire' = <<>> THEN WriterAt' ELSE origin'[1]
  OBVIOUS
<1> QED
  BY <1>1, <1>2 DEF Chain, Aligned, AlignedIn, Follows, FollowsIn

(* A text more does not disturb what is in flight.                          *)
LEMMA LinkedWithMore ==
  ASSUME NEW s, NEW z, NEW w, NEW o, NEW at, Linked(s, w, o, at),
         Len(s) \in Nat, Len(z) = Len(s) + 1, \A j \in 1..Len(s) : z[j] = s[j]
  PROVE  Linked(z, w, o, at)
<1> SUFFICES ASSUME NEW i \in 1..Len(w)
             PROVE  /\ AlignedIn(z, o[i])
                    /\ w[i] = Block(z[o[i][1]], o[i][2])
                    /\ i < Len(w) => FollowsIn(z, o[i]) = o[i + 1]
                    /\ ~(i < Len(w)) => FollowsIn(z, o[i]) = at
  BY DEF Linked
<1> DEFINE q == o[i]
<1>1. /\ AlignedIn(s, q)
      /\ w[i] = Block(s[q[1]], q[2])
      /\ i < Len(w) => FollowsIn(s, q) = o[i + 1]
      /\ ~(i < Len(w)) => FollowsIn(s, q) = at
  BY DEF Linked
<1> HIDE DEF q
<1>2. q[1] \in 1..Len(s) /\ z[q[1]] = s[q[1]]
  BY <1>1 DEF AlignedIn
<1>3. q[1] \in 1..Len(z)
  BY <1>2
<1>4. AlignedIn(z, q) /\ FollowsIn(z, q) = FollowsIn(s, q)
  BY <1>1, <1>2, <1>3 DEF AlignedIn, FollowsIn
<1> QED
  BY <1>1, <1>2, <1>4 DEF q

(* The texts have the type the constants give them and are safe.            *)
LEMMA SentFacts ==
  ASSUME AllSafe, TypeOK
  PROVE  /\ sent \in Seq(Transmissions) /\ Len(sent) \in Nat
         /\ \A j \in 1..Len(sent) : sent[j] \in Seq(Chars) /\ Safe(sent[j])
<1>1. sent \in Seq(Transmissions)
  BY DEF TypeOK
<1> QED
  BY <1>1, TransmissionsAssumption DEF AllSafe

LEMMA WriteKeeps ==
  ASSUME AllSafe, FramingInv, NEW t \in Transmissions, Write(t)
  PROVE  FramingInv'
<1>1. /\ ~writing /\ sent' = Append(sent, t) /\ writing' = TRUE /\ pos' = 0
      /\ addl' = FALSE /\ UNCHANGED <<wire, origin, out, received>>
  BY DEF Write
<1>2. /\ sent \in Seq(Transmissions) /\ Len(sent) \in Nat
      /\ sent' \in Seq(Transmissions) /\ Len(sent') = Len(sent) + 1
      /\ \A j \in 1..Len(sent) : sent'[j] = sent[j]
      /\ sent'[Len(sent) + 1] = t
  BY <1>1, SentFacts DEF FramingInv
<1>3. t \in Seq(Chars) /\ Len(t) \in Nat /\ Len(t) > 0
  <2>1. t \in Seq(Chars) /\ Len(t) % MaxLength \in 1..(MaxLength - 2)
    BY TransmissionsAssumption DEF AllSafe, Safe
  <2>2. Len(t) # 0
    BY <2>1, MaxLengthAssumption
  <2> QED
    BY <2>1, <2>2
<1>4. 0 % MaxLength = 0
  BY MaxLengthAssumption
<1>5. TypeOK'
  <2>1. sent' # <<>>
    BY <1>2
  <2> QED
    BY <1>1, <1>2, <2>1 DEF FramingInv, TypeOK
<1>6. Linked(sent', wire, origin, WriterAt)
  BY <1>2, ChainFacts, LinkedWithMore
<1>7. WriterAt' = WriterAt
  <2>1. WriterAt = <<Len(sent) + 1, 0>>
    BY <1>1 DEF WriterAt
  <2>2. Trans' = t /\ pos' < Len(Trans')
    BY <1>1, <1>2, <1>3 DEF Trans
  <2> QED
    BY <1>1, <1>2, <2>1, <2>2 DEF WriterAt
<1>8. ReaderAt' = ReaderAt
  BY <1>1 DEF ReaderAt
<1>9. Chain'
  BY <1>1, <1>6, <1>7, <1>8, ChainFacts, LinksMakeChain
<1>10. Intact'
  <2>1. Len(received) \in Nat /\ Len(received) <= Len(sent)
        /\ \A i \in 1..Len(received) : received[i] = sent[i]
    BY DEF FramingInv, TypeOK, Intact
  <2>2. \A i \in 1..Len(received) : i \in 1..Len(sent)
    BY <1>2, <2>1
  <2> QED
    BY <1>1, <1>2, <2>1, <2>2 DEF Intact
<1>11. Collected'
  <2> SUFFICES ASSUME NEW i \in 1..Len(out)
               PROVE  /\ Len(received) < Len(sent')
                      /\ Len(out) < Len(sent'[Len(received) + 1])
                      /\ out[i] = sent'[Len(received) + 1][i]
    BY <1>1 DEF Collected
  <2>1. /\ Len(received) \in Nat /\ Len(received) < Len(sent)
        /\ Len(out) < Len(sent[Len(received) + 1])
        /\ out[i] = sent[Len(received) + 1][i]
    BY DEF FramingInv, Collected, TypeOK
  <2>2. Len(received) + 1 \in 1..Len(sent)
    BY <1>2, <2>1
  <2> QED
    BY <1>2, <2>1, <2>2
<1>12. WriterOK'
  <2>1. Aligned(<<Len(sent), pos>>)'
    <3>1. Len(sent') \in 1..Len(sent') /\ 0 \in Nat /\ 0 < Len(sent'[Len(sent')])
      BY <1>2, <1>3
    <3> QED
      BY <1>1, <1>4, <3>1 DEF Aligned
  <2> QED
    BY <1>1, <2>1 DEF WriterOK
<1> QED
  BY <1>5, <1>9, <1>10, <1>11, <1>12 DEF FramingInv

LEMMA WriteReturnKeeps ==
  ASSUME FramingInv, WriteReturn
  PROVE  FramingInv'
<1>1. /\ writing /\ ~(pos < Len(Trans)) /\ writing' = FALSE
      /\ UNCHANGED <<sent, pos, addl, out, received>>
  <2>1. pos >= Len(Trans) /\ pos \in Nat
    BY DEF WriteReturn, FramingInv, TypeOK
  <2>2. Len(Trans) \in Nat
    <3>1. sent \in Seq(Transmissions) /\ sent # <<>>
      BY DEF WriteReturn, FramingInv, TypeOK
    <3>2. Trans \in Transmissions
      BY <3>1 DEF Trans
    <3> QED
      BY <3>2, TransmissionsAssumption
  <2> QED
    BY <2>1, <2>2 DEF WriteReturn
<1>2. wire' = wire /\ origin' = origin
  BY DEF WriteReturn, FramingInv, WriterOK
<1>3. TypeOK' /\ Intact' /\ Collected' /\ WriterOK'
  BY <1>1, <1>2 DEF FramingInv, TypeOK, Intact, Collected, WriterOK
<1>4. WriterAt' = WriterAt /\ ReaderAt' = ReaderAt
  BY <1>1 DEF WriterAt, ReaderAt
<1>5. Chain'
  BY <1>1, <1>2, <1>4, ChainFacts, LinksMakeChain
<1> QED
  BY <1>3, <1>5 DEF FramingInv

(* One more block is in flight.                                             *)
LEMMA LinkedLonger ==
  ASSUME NEW s, NEW w, NEW o, NEW S, w \in Seq(S), NEW T, o \in Seq(T), Len(o) = Len(w),
         NEW b \in S, NEW q \in T, NEW at,
         Linked(s, w, o, q), AlignedIn(s, q), b = Block(s[q[1]], q[2]),
         FollowsIn(s, q) = at
  PROVE  Linked(s, Append(w, b), Append(o, q), at)
<1> DEFINE n == Len(w)
           v == Append(w, b)
           p == Append(o, q)
<1>1. /\ n \in Nat /\ Len(v) = n + 1
      /\ \A i \in 1..n : v[i] = w[i] /\ p[i] = o[i]
      /\ v[n + 1] = b /\ p[n + 1] = q
  OBVIOUS
<1>2. \A i \in 1..n :
        /\ AlignedIn(s, o[i])
        /\ w[i] = Block(s[o[i][1]], o[i][2])
        /\ i < n => FollowsIn(s, o[i]) = o[i + 1]
        /\ ~(i < n) => FollowsIn(s, o[i]) = q
  BY DEF Linked
<1> HIDE DEF n, v, p
<1> SUFFICES ASSUME NEW i \in 1..(n + 1)
             PROVE  /\ AlignedIn(s, p[i])
                    /\ v[i] = Block(s[p[i][1]], p[i][2])
                    /\ i < n + 1 => FollowsIn(s, p[i]) = p[i + 1]
                    /\ ~(i < n + 1) => FollowsIn(s, p[i]) = at
  BY <1>1 DEF Linked, v, p
<1>3. CASE i = n + 1
  BY <1>1, <1>3
<1>4. CASE i \in 1..n
  <2>1. i < n + 1 /\ v[i] = w[i] /\ p[i] = o[i]
    BY <1>1, <1>4
  <2>2. CASE i < n
    <3>1. i + 1 \in 1..n
      BY <1>1, <1>4, <2>2
    <3>2. p[i + 1] = o[i + 1]
      BY <1>1, <3>1
    <3> QED
      BY <1>2, <1>4, <2>1, <2>2, <3>2
  <2>3. CASE ~(i < n)
    <3>1. i = n
      BY <1>1, <1>4, <2>3
    <3> QED
      BY <1>1, <1>2, <1>4, <2>1, <2>3, <3>1
  <2> QED
    BY <2>2, <2>3
<1> QED
  BY <1>1, <1>3, <1>4

LEMMA WriteBlockKeeps ==
  ASSUME AllSafe, FramingInv, WriteBlock
  PROVE  FramingInv'
<1> DEFINE n == Len(sent)
           here == <<n, pos>>
<1>1. /\ writing /\ pos < Len(Trans)
      /\ wire' = Append(wire, Block(Trans, pos))
      /\ origin' = Append(origin, here)
      /\ pos' = IF Len(Trans) - pos >= MaxLength - 1
                THEN pos + MaxLength ELSE Len(Trans)
      /\ addl' = (addl \/ Len(Trans) - pos = MaxLength - 1)
      /\ UNCHANGED <<sent, writing, out, received>>
  BY DEF WriteBlock
<1>2. /\ n \in 1..n /\ n \in Nat /\ Trans = sent[n]
      /\ Trans \in Seq(Chars) /\ Safe(Trans) /\ Len(Trans) \in Nat /\ pos \in Nat
  <2>1. sent \in Seq(Transmissions) /\ sent # <<>> /\ pos \in Nat
    BY <1>1 DEF FramingInv, TypeOK
  <2>2. n \in Nat /\ n # 0
    BY <2>1
  <2> HIDE DEF n
  <2>3. n \in 1..n
    BY <2>2
  <2>4. Trans = sent[n] /\ Trans \in Seq(Chars) /\ Safe(Trans)
    BY <2>3, SentFacts DEF FramingInv, Trans, n
  <2> QED
    BY <2>1, <2>2, <2>3, <2>4
<1>3. Aligned(here) /\ ~addl
  BY <1>1 DEF FramingInv, WriterOK
<1>4. pos % MaxLength = 0
  BY <1>3 DEF Aligned
<1>5. AlignedIn(sent, here)
  BY <1>3 DEF Aligned, AlignedIn
<1> DEFINE rest == Len(Trans) - pos
<1>6. rest > MaxLength \/ rest \in 1..(MaxLength - 2)
  BY <1>1, <1>2, <1>4, RestOfSafe
<1>7. MaxLength \in Nat /\ MaxLength > 1
  BY MaxLengthAssumption
<1>8. addl' = FALSE
  <2>1. rest # MaxLength - 1
    <3> HIDE DEF rest
    <3> QED
      BY <1>6, <1>7
  <2>2. addl' = (addl \/ rest = MaxLength - 1)
    BY <1>1
  <2> QED
    BY <1>3, <2>1, <2>2, Zenon
<1>9. \/ rest > MaxLength /\ pos' = pos + MaxLength
      \/ rest <= MaxLength /\ pos' = Len(Trans)
  <2>1. pos' = IF rest >= MaxLength - 1 THEN pos + MaxLength ELSE Len(Trans)
    BY <1>1
  <2> HIDE DEF rest
  <2>2. CASE rest > MaxLength
    <3>1. rest >= MaxLength - 1
      BY <1>6, <1>7, <1>2, <2>2 DEF rest
    <3> QED
      BY <2>1, <2>2, <3>1
  <2>3. CASE rest \in 1..(MaxLength - 2)
    <3>1. ~(rest >= MaxLength - 1) /\ rest <= MaxLength
      BY <1>7, <2>3
    <3> QED
      BY <2>1, <3>1
  <2> QED
    BY <1>6, <2>2, <2>3
<1>10. Trans' = Trans
  BY <1>1 DEF Trans
<1>11. WriterAt = here
  BY <1>1 DEF WriterAt
<1>12. FollowsIn(sent, here) = WriterAt'
  <2>1. CASE rest > MaxLength
    <3>1. pos' = pos + MaxLength /\ pos + MaxLength < Len(Trans)
      BY <1>2, <1>7, <1>9, <2>1
    <3> QED
      BY <1>1, <1>2, <1>10, <2>1, <3>1 DEF WriterAt, FollowsIn
  <2>2. CASE rest <= MaxLength
    <3>1. ~(rest > MaxLength) /\ ~(pos' < Len(Trans))
      BY <1>2, <1>7, <1>9, <2>2
    <3> QED
      BY <1>1, <1>2, <1>10, <3>1 DEF WriterAt, FollowsIn
  <2> QED
    BY <1>9, <2>1, <2>2
<1>13. /\ wire \in Seq(Blocks) /\ origin \in Seq(Nat \X Nat) /\ Len(origin) = Len(wire)
       /\ Block(Trans, pos) \in Blocks /\ here \in Nat \X Nat
  BY <1>2, BlockType DEF FramingInv, TypeOK
<1>14. Linked(sent', wire', origin', WriterAt')
  BY <1>1, <1>2, <1>5, <1>11, <1>12, <1>13, ChainFacts, LinkedLonger
<1>15. wire' # <<>> /\ ReaderAt' = origin'[1]
  <2>1. wire' # <<>>
    BY <1>1, <1>13
  <2>2. ReaderAt' = ReaderAt
    BY <1>1 DEF ReaderAt
  <2>3. CASE wire = <<>>
    <3>1. origin = <<>>
      BY <1>13, <2>3
    <3>2. origin'[1] = here
      BY <1>1, <3>1
    <3> QED
      BY <1>11, <2>1, <2>2, <2>3, <3>2, ChainFacts
  <2>4. CASE wire # <<>>
    <3>1. Len(origin) \in Nat /\ Len(origin) # 0
      BY <1>13, <2>4
    <3>2. 1 \in 1..Len(origin)
      BY <3>1
    <3>3. origin'[1] = origin[1]
      BY <1>1, <1>13, <3>2
    <3> QED
      BY <2>1, <2>2, <2>4, <3>3, ChainFacts
  <2> QED
    BY <2>3, <2>4
<1>16. Chain'
  BY <1>14, <1>15, LinksMakeChain
<1>17. TypeOK'
  <2>1. pos' \in Nat
    BY <1>2, <1>7, <1>9
  <2>2. /\ wire' \in Seq(Blocks) /\ origin' \in Seq(Nat \X Nat)
        /\ Len(origin') = Len(wire')
    BY SMTT(60), <1>1, <1>13
  <2> QED
    BY <1>1, <1>8, <2>1, <2>2 DEF FramingInv, TypeOK
<1>18. Intact' /\ Collected'
  BY <1>1 DEF FramingInv, Intact, Collected
<1>19. WriterOK'
  <2>1. CASE rest > MaxLength
    <3>1. pos' = pos + MaxLength /\ pos + MaxLength < Len(Trans)
      BY <1>2, <1>7, <1>9, <2>1
    <3>2. pos' % MaxLength = 0 /\ pos' \in Nat
      <4>1. MaxLength \in Nat \ {0} /\ pos \in Nat
        BY <1>2, <1>7
      <4>2. (pos + MaxLength) % MaxLength = 0
        BY <1>4, <4>1, NextPosition
      <4> QED
        BY <3>1, <4>1, <4>2
    <3>3. Aligned(<<Len(sent), pos>>)'
      BY <1>1, <1>2, <3>1, <3>2 DEF Aligned
    <3> QED
      BY <1>1, <1>8, <3>3 DEF WriterOK
  <2>2. CASE rest <= MaxLength
    <3>1. pos' = Len(Trans')
      BY <1>2, <1>7, <1>9, <1>10, <2>2
    <3> QED
      BY <1>1, <1>8, <3>1 DEF WriterOK
  <2> QED
    BY <1>9, <2>1, <2>2
<1> QED
  BY <1>16, <1>17, <1>18, <1>19 DEF FramingInv

(* What is left of a sequence.                                              *)
LEMMA TailFacts ==
  ASSUME NEW S, NEW w \in Seq(S), w # <<>>
  PROVE  /\ Tail(w) \in Seq(S) /\ Len(Tail(w)) = Len(w) - 1
         /\ Len(w) \in Nat /\ 1 <= Len(w) /\ Head(w) = w[1]
         /\ \A i \in 1..(Len(w) - 1) : Tail(w)[i] = w[i + 1]
         /\ Tail(w) = <<>> <=> Len(w) = 1
<1>1. /\ Tail(w) \in Seq(S) /\ Len(Tail(w)) = Len(w) - 1
      /\ Len(w) \in Nat /\ 1 <= Len(w) /\ Head(w) = w[1]
      /\ \A i \in 1..(Len(w) - 1) : Tail(w)[i] = w[i + 1]
  OBVIOUS
<1>2. \A z \in Seq(S) : z = <<>> <=> Len(z) = 0
  OBVIOUS
<1>3. Tail(w) = <<>> <=> Len(w) - 1 = 0
  BY <1>1, <1>2
<1>4. Len(w) - 1 = 0 <=> Len(w) = 1
  BY <1>1
<1> QED
  BY <1>1, <1>3, <1>4

(* The first block has arrived.                                             *)
LEMMA LinkedShorter ==
  ASSUME NEW s, NEW S, NEW w \in Seq(S), NEW T, NEW o \in Seq(T), Len(o) = Len(w),
         NEW at, w # <<>>, Linked(s, w, o, at)
  PROVE  /\ AlignedIn(s, o[1]) /\ Head(w) = Block(s[o[1][1]], o[1][2])
         /\ Linked(s, Tail(w), Tail(o), at)
         /\ Len(w) = 1 => FollowsIn(s, o[1]) = at
         /\ Len(w) # 1 => FollowsIn(s, o[1]) = Tail(o)[1]
<1> DEFINE n == Len(w)
           v == Tail(w)
           p == Tail(o)
<1>1. /\ n \in Nat /\ 1 <= n /\ Len(v) = n - 1 /\ Head(w) = w[1]
      /\ \A i \in 1..(n - 1) : v[i] = w[i + 1] /\ p[i] = o[i + 1]
  <2>1. o # <<>>
    BY TailFacts
  <2> QED
    BY <2>1, TailFacts
<1>2. \A i \in 1..n :
        /\ AlignedIn(s, o[i])
        /\ w[i] = Block(s[o[i][1]], o[i][2])
        /\ i < n => FollowsIn(s, o[i]) = o[i + 1]
        /\ ~(i < n) => FollowsIn(s, o[i]) = at
  BY DEF Linked
<1> HIDE DEF n, v, p
<1>3. 1 \in 1..n
  BY <1>1
<1>4. Linked(s, v, p, at)
  <2> SUFFICES ASSUME NEW i \in 1..(n - 1)
               PROVE  /\ AlignedIn(s, p[i])
                      /\ v[i] = Block(s[p[i][1]], p[i][2])
                      /\ i < n - 1 => FollowsIn(s, p[i]) = p[i + 1]
                      /\ ~(i < n - 1) => FollowsIn(s, p[i]) = at
    BY <1>1 DEF Linked
  <2>1. i + 1 \in 1..n /\ v[i] = w[i + 1] /\ p[i] = o[i + 1]
    BY <1>1
  <2>2. CASE i < n - 1
    <3>1. i + 1 < n /\ i + 1 \in 1..(n - 1)
      BY <1>1, <2>2
    <3>2. p[i + 1] = o[(i + 1) + 1] /\ FollowsIn(s, o[i + 1]) = o[(i + 1) + 1]
      BY <1>1, <1>2, <2>1, <3>1
    <3> QED
      BY <1>2, <2>1, <2>2, <3>2
  <2>3. CASE ~(i < n - 1)
    <3>1. ~(i + 1 < n)
      BY <1>1, <2>3
    <3> QED
      BY <1>2, <2>1, <2>3, <3>1
  <2> QED
    BY <2>2, <2>3
<1>5. n = 1 => FollowsIn(s, o[1]) = at
  BY <1>2, <1>3
<1>6. n # 1 => FollowsIn(s, o[1]) = p[1]
  <2> SUFFICES ASSUME n # 1 PROVE FollowsIn(s, o[1]) = p[1]
    OBVIOUS
  <2>1. 1 < n /\ 1 \in 1..(n - 1)
    BY <1>1
  <2>2. p[1] = o[1 + 1] /\ FollowsIn(s, o[1]) = o[1 + 1]
    BY <1>1, <1>2, <1>3, <2>1
  <2> QED
    BY <2>2
<1> QED
  BY <1>1, <1>2, <1>3, <1>4, <1>5, <1>6 DEF n, v, p

(* A block that does not end a text is added to what has been collected,    *)
(* one that does completes it: ReadSome, by the rest of the text.           *)
LEMMA ReadText ==
  ASSUME NEW t \in Seq(Chars), Safe(t), NEW collected \in Seq(Symbols),
         Len(collected) < Len(t), Len(collected) % MaxLength = 0,
         \A i \in 1..Len(collected) : collected[i] = t[i]
  PROVE  LET p == Len(collected)
             b == Block(t, p)
             more == collected \o Payload(b)
         IN /\ Len(t) - p > MaxLength =>
                 /\ Ends(b) = {} /\ more \in Seq(Symbols)
                 /\ Len(more) = p + MaxLength /\ p + MaxLength < Len(t)
                 /\ \A i \in 1..(p + MaxLength) : more[i] = t[i]
            /\ ~(Len(t) - p > MaxLength) => Ends(b) # {} /\ more = t
<1> DEFINE p == Len(collected)
           b == Block(t, p)
           load == Payload(b)
           more == collected \o load
           len == Len(t)
<1>1. p \in Nat /\ len \in Nat /\ p < len /\ MaxLength \in Nat /\ p % MaxLength = 0
  BY MaxLengthAssumption
<1>2. \A i \in DOMAIN t : t[i] # ETX
  BY DEF Safe
<1>3. len - p > MaxLength \/ len - p \in 1..(MaxLength - 2)
  BY <1>1, RestOfSafe
<1>4. ASSUME NEW n \in Nat, load \in Seq(Symbols), Len(load) = n,
             \A i \in 1..n : load[i] = t[p + i]
      PROVE  /\ more \in Seq(Symbols) /\ Len(more) = p + n
             /\ \A i \in 1..(p + n) : more[i] = t[i]
  <2> HIDE DEF load
  <2>1. /\ more \in Seq(Symbols) /\ Len(more) = p + n
        /\ \A i \in 1..p : more[i] = collected[i]
        /\ \A i \in 1..n : more[p + i] = load[i]
    <3>1. collected \in Seq(Symbols) /\ load \in Seq(Symbols) /\ Len(load) = n
      BY <1>4
    <3>2. /\ more \in Seq(Symbols) /\ Len(more) = Len(collected) + Len(load)
          /\ \A i \in 1..Len(collected) : more[i] = collected[i]
          /\ \A i \in 1..Len(load) : more[Len(collected) + i] = load[i]
      BY SMTT(60), <3>1
    <3> QED
      BY <3>1, <3>2
  <2> HIDE DEF more, p
  <2>2. \A i \in 1..(p + n) : i \in 1..p \/ (i - p \in 1..n /\ i = p + (i - p))
    BY <1>1, <1>4
  <2>3. \A i \in 1..p : more[i] = t[i]
    BY <2>1 DEF p
  <2>4. \A i \in 1..n : more[p + i] = t[p + i]
    BY <1>4, <2>1
  <2>5. \A i \in 1..(p + n) : more[i] = t[i]
    BY <2>2, <2>3, <2>4
  <2> QED
    BY <2>1, <2>5
<1>5. CASE len - p > MaxLength
  <2>1. /\ Ends(b) = {} /\ load = b
        /\ \A i \in 1..MaxLength : b[i] = t[p + i]
    BY <1>1, <1>2, <1>5, MiddleBlock
  <2>2. b \in Seq(Symbols) /\ Len(b) = MaxLength
    BY <1>1, BlockType
  <2> HIDE DEF b, load, more
  <2>3. /\ more \in Seq(Symbols) /\ Len(more) = p + MaxLength
        /\ \A i \in 1..(p + MaxLength) : more[i] = t[i]
    BY <1>1, <1>4, <2>1, <2>2
  <2> HIDE DEF p, len
  <2>4. p + MaxLength < len
    BY <1>1, <1>5
  <2> QED
    BY <1>5, <2>1, <2>3, <2>4 DEF b, load, more, p, len
<1>6. CASE len - p \in 1..(MaxLength - 2)
  <2> DEFINE r == len - p
  <2>1. r \in 1..(MaxLength - 2) /\ r \in Nat /\ ~(len - p > MaxLength) /\ p + r = len
    <3>1. \A x, y, m \in Nat :
            y - x \in 1..(m - 2) => y - x \in Nat /\ ~(y - x > m) /\ x + (y - x) = y
      OBVIOUS
    <3> QED
      BY <1>1, <1>6, <3>1
  <2>2. /\ Ends(b) # {}
        /\ load \in Seq(Symbols) /\ Len(load) = r
        /\ \A i \in 1..r : load[i] = t[p + i]
    <3>1. p \in Nat /\ r \in 1..(MaxLength - 2) /\ Len(t) - p = r
      BY <1>1, <2>1
    <3> HIDE DEF p, r
    <3> QED
      BY ZenonT(60), <1>2, <3>1, LastBlock
  <2> HIDE DEF b, load, more, r
  <2>3. /\ more \in Seq(Symbols) /\ Len(more) = p + r
        /\ \A i \in 1..(p + r) : more[i] = t[i]
    BY <1>4, <2>1, <2>2
  <2>4. Len(more) = len /\ \A i \in 1..len : more[i] = t[i]
    BY <2>1, <2>3
  <2>5. more = t
    BY <2>3, <2>4
  <2> QED
    BY <2>1, <2>2, <2>5 DEF b, load, more, p, len
<1> QED
  BY <1>3, <1>5, <1>6

(* What one read_some does: the block is the one the reader is at, of the   *)
(* text after those already read.                                           *)
LEMMA ReadSomeFacts ==
  ASSUME AllSafe, FramingInv, ReadSome
  PROVE  LET n == Len(received)
             t == sent[n + 1]
         IN /\ n + 1 \in 1..Len(sent) /\ n \in Nat /\ wire # <<>>
            /\ ReaderAt = origin[1] /\ AlignedIn(sent, ReaderAt)
            /\ t \in Seq(Chars) /\ t \in Transmissions
            /\ UNCHANGED <<sent, writing, pos, addl>>
            /\ wire' = Tail(wire) /\ origin' = Tail(origin)
            /\ \/ /\ Len(t) - Len(out) > MaxLength
                  /\ out' \in Seq(Symbols) /\ Len(out') = Len(out) + MaxLength
                  /\ Len(out') < Len(t)
                  /\ \A i \in 1..Len(out') : out'[i] = t[i]
                  /\ received' = received
               \/ /\ ~(Len(t) - Len(out) > MaxLength)
                  /\ out' = <<>> /\ received' = Append(received, t)
<1> DEFINE n == Len(received)
           t == sent[n + 1]
           p == Len(out)
           b == Head(wire)
           more == out \o Payload(b)
<1>1. /\ wire # <<>> /\ wire' = Tail(wire) /\ origin' = Tail(origin)
      /\ UNCHANGED <<sent, writing, pos, addl>>
      /\ IF Ends(b) = {} THEN out' = more /\ received' = received
                         ELSE received' = Append(received, more) /\ out' = <<>>
  BY DEF ReadSome
<1>2. /\ wire \in Seq(Blocks) /\ origin \in Seq(Nat \X Nat) /\ Len(origin) = Len(wire)
      /\ n \in Nat /\ out \in Seq(Symbols) /\ p \in Nat
  BY DEF FramingInv, TypeOK
<1>3. ReaderAt = origin[1] /\ Linked(sent, wire, origin, WriterAt)
  BY <1>1, ChainFacts
<1>4. AlignedIn(sent, origin[1]) /\ b = Block(sent[origin[1][1]], origin[1][2])
  <2> DEFINE T == Nat \X Nat
  <2>1. wire \in Seq(Blocks) /\ origin \in Seq(T) /\ Len(origin) = Len(wire)
    BY <1>2
  <2> HIDE DEF T
  <2>2. Linked(sent, wire, origin, WriterAt) /\ wire # <<>>
    BY <1>1, <1>3
  <2> QED
    BY <2>1, <2>2, LinkedShorter
<1>5. origin[1][1] = n + 1 /\ origin[1][2] = p
  BY <1>3 DEF ReaderAt
<1>6. /\ n + 1 \in 1..Len(sent) /\ p < Len(t) /\ p % MaxLength = 0
      /\ b = Block(t, p)
  BY <1>4, <1>5 DEF AlignedIn
<1>7. t \in Seq(Chars) /\ Safe(t) /\ t \in Transmissions
  <2>1. sent \in Seq(Transmissions)
    BY DEF FramingInv, TypeOK
  <2>2. t \in Transmissions
    BY <1>6, <2>1
  <2> QED
    BY <1>6, <2>2, SentFacts DEF FramingInv
<1>8. \A i \in 1..p : out[i] = t[i]
  BY DEF FramingInv, Collected
<1> HIDE DEF t, b
<1>9. /\ Len(t) - p > MaxLength =>
           /\ Ends(b) = {} /\ more \in Seq(Symbols)
           /\ Len(more) = p + MaxLength /\ p + MaxLength < Len(t)
           /\ \A i \in 1..(p + MaxLength) : more[i] = t[i]
      /\ ~(Len(t) - p > MaxLength) => Ends(b) # {} /\ more = t
  BY <1>2, <1>6, <1>7, <1>8, ReadText
<1> HIDE DEF more
<1>10. \/ /\ Len(t) - p > MaxLength
          /\ out' \in Seq(Symbols) /\ Len(out') = p + MaxLength
          /\ Len(out') < Len(t)
          /\ \A i \in 1..Len(out') : out'[i] = t[i]
          /\ received' = received
       \/ /\ ~(Len(t) - p > MaxLength)
          /\ out' = <<>> /\ received' = Append(received, t)
  <2>1. CASE Len(t) - p > MaxLength
    <3>1. out' = more /\ received' = received
      BY <1>1, <1>9, <2>1
    <3>2. /\ more \in Seq(Symbols)
          /\ Len(more) = p + MaxLength /\ p + MaxLength < Len(t)
          /\ \A i \in 1..(p + MaxLength) : more[i] = t[i]
      BY <1>9, <2>1
    <3> QED
      BY <2>1, <3>1, <3>2
  <2>2. CASE ~(Len(t) - p > MaxLength)
    BY <1>1, <1>9, <2>2
  <2> QED
    BY <2>1, <2>2
<1> QED
  BY <1>1, <1>2, <1>3, <1>4, <1>6, <1>7, <1>10 DEF t

LEMMA ReadSomeKeeps ==
  ASSUME AllSafe, FramingInv, ReadSome
  PROVE  FramingInv'
<1> DEFINE n == Len(received)
           t == sent[n + 1]
           p == Len(out)
<1>1. /\ n + 1 \in 1..Len(sent) /\ n \in Nat /\ wire # <<>>
      /\ ReaderAt = origin[1] /\ AlignedIn(sent, ReaderAt)
      /\ t \in Seq(Chars)
      /\ UNCHANGED <<sent, writing, pos, addl>>
      /\ wire' = Tail(wire) /\ origin' = Tail(origin)
      /\ \/ /\ Len(t) - p > MaxLength
            /\ out' \in Seq(Symbols) /\ Len(out') = p + MaxLength
            /\ Len(out') < Len(t)
            /\ \A i \in 1..Len(out') : out'[i] = t[i]
            /\ received' = received
         \/ /\ ~(Len(t) - p > MaxLength)
            /\ out' = <<>> /\ received' = Append(received, t)
  BY ReadSomeFacts
<1>2. /\ wire \in Seq(Blocks) /\ origin \in Seq(Nat \X Nat) /\ Len(origin) = Len(wire)
      /\ received \in Seq(Seq(Symbols)) /\ sent \in Seq(Transmissions)
  BY DEF FramingInv, TypeOK
<1>3. /\ Linked(sent, wire', origin', WriterAt)
      /\ wire' = <<>> => FollowsIn(sent, ReaderAt) = WriterAt
      /\ wire' # <<>> => FollowsIn(sent, ReaderAt) = origin'[1]
      /\ wire' \in Seq(Blocks) /\ origin' \in Seq(Nat \X Nat)
      /\ Len(origin') = Len(wire')
  <2>1. Linked(sent, wire, origin, WriterAt)
    BY ChainFacts
  <2>2. wire # <<>> /\ wire' = Tail(wire) /\ origin' = Tail(origin) /\ ReaderAt = origin[1]
    BY <1>1
  <2> DEFINE T == Nat \X Nat
  <2>3. wire \in Seq(Blocks) /\ origin \in Seq(T) /\ Len(origin) = Len(wire)
    BY <1>2
  <2> HIDE DEF T
  <2>4. /\ Linked(sent, Tail(wire), Tail(origin), WriterAt)
        /\ Len(wire) = 1 => FollowsIn(sent, origin[1]) = WriterAt
        /\ Len(wire) # 1 => FollowsIn(sent, origin[1]) = Tail(origin)[1]
    <3>1. wire # <<>>
      BY <1>1
    <3>2. Linked(sent, Tail(wire), Tail(origin), WriterAt)
      BY <2>1, <2>3, <3>1, LinkedShorter
    <3>3. Len(wire) = 1 => FollowsIn(sent, origin[1]) = WriterAt
      <4> SUFFICES ASSUME Len(wire) = 1 PROVE FollowsIn(sent, origin[1]) = WriterAt
        OBVIOUS
      <4>1. 1 \in 1..Len(wire) /\ ~(1 < Len(wire))
        OBVIOUS
      <4> QED
        BY <2>1, <4>1 DEF Linked
    <3>4. Len(wire) # 1 => FollowsIn(sent, origin[1]) = Tail(origin)[1]
      BY <2>1, <2>3, <3>1, LinkedShorter
    <3> QED
      BY <3>2, <3>3, <3>4
  <2>5. /\ wire' = <<>> <=> Len(wire) = 1
        /\ wire' \in Seq(Blocks) /\ Len(wire') = Len(wire) - 1
    BY <2>2, <2>3, TailFacts
  <2>6. origin' \in Seq(T) /\ Len(origin') = Len(origin) - 1
    <3>1. origin # <<>>
      BY <2>2, <2>3, TailFacts
    <3> QED
      BY <2>2, <2>3, <3>1, TailFacts
  <2> QED
    BY <2>2, <2>3, <2>4, <2>5, <2>6 DEF T
<1>4. WriterAt' = WriterAt
  BY <1>1 DEF WriterAt, Trans
<1>5. t \in Seq(Symbols)
  <2> HIDE DEF t
  <2>1. \A i \in 1..Len(t) : t[i] \in Symbols
    BY <1>1 DEF Symbols
  <2> QED
    BY <1>1, <2>1
<1>6. CASE Len(t) - p > MaxLength
  <2>1. /\ out' \in Seq(Symbols) /\ Len(out') = p + MaxLength
        /\ Len(out') < Len(t)
        /\ \A i \in 1..Len(out') : out'[i] = t[i]
        /\ received' = received
    BY <1>1, <1>6
  <2>2. ReaderAt' = FollowsIn(sent, ReaderAt)
    BY <1>6, <2>1 DEF ReaderAt, FollowsIn
  <2>3. Chain'
    BY <1>1, <1>3, <1>4, <2>2, LinksMakeChain
  <2>4. TypeOK'
    BY <1>1, <1>3, <2>1 DEF FramingInv, TypeOK
  <2>5. Intact' /\ WriterOK'
    BY <1>1, <2>1 DEF FramingInv, Intact, WriterOK, Trans, Aligned
  <2>6. Collected'
    <3>1. n < Len(sent)
      BY <1>1
    <3> QED
      BY <1>1, <2>1, <3>1 DEF Collected
  <2> QED
    BY <2>3, <2>4, <2>5, <2>6 DEF FramingInv
<1>7. CASE ~(Len(t) - p > MaxLength)
  <2>1. out' = <<>> /\ received' = Append(received, t)
    BY <1>1, <1>7
  <2>2. /\ received' \in Seq(Seq(Symbols)) /\ Len(received') = n + 1
        /\ \A i \in 1..n : received'[i] = received[i]
        /\ received'[n + 1] = t
    <3> HIDE DEF t
    <3> QED
      BY <1>2, <1>5, <2>1
  <2>3. ReaderAt' = FollowsIn(sent, ReaderAt)
    BY <1>1, <1>7, <2>1, <2>2 DEF ReaderAt, FollowsIn
  <2>4. Chain'
    BY <1>1, <1>3, <1>4, <2>3, LinksMakeChain
  <2>5. TypeOK'
    BY <1>1, <1>3, <2>1, <2>2 DEF FramingInv, TypeOK
  <2>6. Intact'
    <3>1. /\ n + 1 <= Len(sent)
          /\ \A i \in 1..(n + 1) : i \in 1..n \/ i = n + 1
          /\ \A i \in 1..n : received[i] = sent[i]
      BY <1>1, <1>2 DEF FramingInv, Intact
    <3> HIDE DEF n
    <3> QED
      BY <1>1, <2>2, <3>1 DEF Intact
  <2>7. Collected' /\ WriterOK'
    BY <1>1, <2>1 DEF FramingInv, Collected, WriterOK, Trans, Aligned
  <2> QED
    BY <2>4, <2>5, <2>6, <2>7 DEF FramingInv
<1> QED
  BY <1>6, <1>7

-----------------------------------------------------------------------------
(***************************************************************************)
(* The theorems.                                                           *)
(***************************************************************************)
LEMMA FramingInit == Init => FramingInv
<1> SUFFICES ASSUME Init PROVE FramingInv
  OBVIOUS
<1>1. /\ sent = <<>> /\ received = <<>> /\ writing = FALSE /\ pos = 0 /\ addl = FALSE
      /\ wire = <<>> /\ origin = <<>> /\ out = <<>>
  BY DEF Init
<1>2. TypeOK /\ Intact /\ Collected /\ WriterOK
  <2>1. Len(<<>>) = 0 /\ \A S : <<>> \in Seq(S)
    OBVIOUS
  <2>2. TypeOK
    BY <1>1, <2>1 DEF TypeOK
  <2> QED
    BY <1>1, <2>1, <2>2 DEF Intact, Collected, WriterOK
<1>3. ReaderAt = WriterAt
  BY <1>1 DEF ReaderAt, WriterAt
<1>4. Chain
  BY <1>1, <1>3 DEF Chain
<1> QED
  BY <1>2, <1>4 DEF FramingInv

LEMMA FramingStays == FramingInv /\ UNCHANGED vars => FramingInv'
<1> SUFFICES ASSUME FramingInv, UNCHANGED vars PROVE FramingInv'
  OBVIOUS
<1>1. UNCHANGED <<sent, writing, pos, addl, wire, origin, out, received>>
  BY DEF vars
<1>2. TypeOK' /\ Intact' /\ Collected' /\ WriterOK'
  BY <1>1 DEF FramingInv, TypeOK, Intact, Collected, WriterOK, Trans, Aligned
<1>3. WriterAt' = WriterAt /\ ReaderAt' = ReaderAt
  BY <1>1 DEF WriterAt, ReaderAt, Trans
<1>4. Chain'
  BY <1>1, <1>3, ChainFacts, LinksMakeChain
<1> QED
  BY <1>2, <1>4 DEF FramingInv

LEMMA FramingStep ==
  ASSUME AllSafe
  PROVE  FramingInv /\ [Next]_vars => FramingInv'
<1> SUFFICES ASSUME FramingInv, [Next]_vars PROVE FramingInv'
  OBVIOUS
<1>1. ASSUME NEW t \in Transmissions, Write(t) PROVE FramingInv'
  BY <1>1, WriteKeeps
<1>2. CASE WriteBlock
  BY <1>2, WriteBlockKeeps
<1>3. CASE WriteReturn
  BY <1>3, WriteReturnKeeps
<1>4. CASE ReadSome
  BY <1>4, ReadSomeKeeps
<1>5. CASE UNCHANGED vars
  BY <1>5, FramingStays
<1> QED
  BY <1>1, <1>2, <1>3, <1>4, <1>5 DEF Next

(* Texts that keep to what Safe says arrive unchanged, in order and apart,  *)
(* whatever the sizes of blocks and texts are, and although several may be  *)
(* on their way at once: the blocks between the reader and the writer are   *)
(* those that cover the texts between them.                                 *)
THEOREM FramingInductive ==
  ASSUME AllSafe
  PROVE  Spec => []FramingInv
<1>1. Init => FramingInv
  BY FramingInit
<1>2. FramingInv /\ [Next]_vars => FramingInv'
  BY FramingStep
<1> QED
  BY <1>1, <1>2, PTL DEF Spec

(* When everything has been written and the stream is drained, every text   *)
(* has been read; it is not so for the other texts (MCFraming_full).        *)
THEOREM NothingIsLost ==
  ASSUME AllSafe
  PROVE  Spec => []NothingLost
<1>1. FramingInv => NothingLost
  <2> SUFFICES ASSUME FramingInv, ~writing, wire = <<>>
               PROVE  Len(received) = Len(sent)
    BY DEF NothingLost
  <2>1. <<Len(received) + 1, Len(out)>> = <<Len(sent) + 1, 0>>
    BY ChainFacts DEF ReaderAt, WriterAt
  <2>2. Len(received) \in Nat /\ Len(sent) \in Nat /\ Len(received) + 1 = Len(sent) + 1
    BY <2>1 DEF FramingInv, TypeOK
  <2> QED
    BY <2>2
<1> QED
  BY <1>1, FramingInductive, PTL

(* Write and read implement the abstract transmission of whole texts: the   *)
(* call of write sends, the read of a text's last block delivers, and       *)
(* nothing else is seen.  (That a text sent is delivered, TLC checks.)      *)
THEOREM FramingRefines ==
  ASSUME AllSafe
  PROVE  Spec => Channel!Init /\ [][Channel!Next]_(Channel!vars)
<1>1. Init => Channel!Init
  BY DEF Init, Channel!Init
<1>2. FramingInv /\ [Next]_vars => [Channel!Next]_(Channel!vars)
  <2> SUFFICES ASSUME FramingInv, [Next]_vars
               PROVE  Channel!Next \/ UNCHANGED <<sent, received>>
    BY DEF Channel!vars
  <2>1. ASSUME NEW t \in Transmissions, Write(t)
        PROVE  Channel!Next
    BY <2>1 DEF Write, Channel!Next, Channel!Send
  <2>2. CASE WriteBlock \/ WriteReturn \/ UNCHANGED vars
    BY <2>2 DEF WriteBlock, WriteReturn, vars
  <2>3. CASE ReadSome
    <3>1. /\ Len(received) < Len(sent) /\ sent' = sent
          /\ \/ received' = received
             \/ received' = Append(received, sent[Len(received) + 1])
      <4>1. /\ Len(received) + 1 \in 1..Len(sent) /\ Len(received) \in Nat /\ sent' = sent
            /\ \/ received' = received
               \/ received' = Append(received, sent[Len(received) + 1])
        BY <2>3, ReadSomeFacts
      <4>2. Len(sent) \in Nat
        BY DEF FramingInv, TypeOK
      <4> QED
        BY <4>1, <4>2
    <3> QED
      BY <3>1 DEF Channel!Next, Channel!Deliver
  <2> QED
    BY <2>1, <2>2, <2>3 DEF Next
<1> QED
  BY <1>1, <1>2, FramingInductive, PTL DEF Spec
=============================================================================

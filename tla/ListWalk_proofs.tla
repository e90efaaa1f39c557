--------------------------- MODULE ListWalk_proofs ---------------------------
(***************************************************************************)
(* Proofs about the walk of handleList and handleSublist over shared       *)
(* iterators, for any number of threads and LISTs and any forest of        *)
(* command groups: what a listing shows is true, and that of a LIST which  *)
(* no other one overlapped is complete, whatever went on before.  Then     *)
(* about the tree that the window client makes of the listings.            *)
(***************************************************************************)
EXTENDS ListDialog, Induction, FiniteSetTheorems

-----------------------------------------------------------------------------
(***************************************************************************)
(* Lists of lines, one line more at a time.                                *)
(***************************************************************************)
Lines == {Open(g) : g \in CommandGroups} \cup {Item(c) : c \in Commands} \cup {End}
Nestings == [open : Seq(CommandGroups), ok : BOOLEAN]

LEMMA LinesFacts ==
  /\ \A g \in CommandGroups : /\ Open(g) \in Lines /\ Open(g)[1] = "open"
                              /\ Open(g)[2] = g
  /\ \A c \in Commands : Item(c) \in Lines /\ Item(c)[1] = "command" /\ Item(c)[2] = c
  /\ End \in Lines /\ End[1] = "end"
BY DEF Lines, Open, Item, End

LEMMA PlaceType ==
  ASSUME NEW at \in Nestings, NEW line \in Lines
  PROVE  Place(at, line) \in Nestings
<1>1. CASE ~at.ok
  BY <1>1 DEF Place
<1>2. CASE at.ok /\ line = End
  <2>1. at.open # <<>> => Tail(at.open) \in Seq(CommandGroups)
    BY DEF Nestings
  <2>2. <<>> \in Seq(CommandGroups)
    OBVIOUS
  <2> QED
    BY <1>2, <2>1, <2>2 DEF Place, End, Nestings
<1>3. CASE at.ok /\ \E g \in CommandGroups : line = Open(g)
  <2>1. PICK g \in CommandGroups : line = Open(g)
    BY <1>3
  <2>2. <<g>> \o at.open \in Seq(CommandGroups)
    BY DEF Nestings
  <2>3. Place(at, line)
          = [open |-> <<g>> \o at.open,
             ok |-> g \in ToSet(IF at.open = <<>> THEN TopGroups
                                ELSE GroupsIn[Head(at.open)])]
    BY <1>3, <2>1 DEF Place, Open
  <2> QED
    BY <2>2, <2>3 DEF Nestings
<1>4. CASE at.ok /\ \E c \in Commands : line = Item(c)
  BY <1>4 DEF Place, Item, Nestings
<1> QED
  BY <1>1, <1>2, <1>3, <1>4 DEF Lines, Nestings

(* Nesting, as the last of the places after each line.                      *)
NestsTo(f, lines, n) ==
  /\ f[0] = [open |-> <<>>, ok |-> TRUE]
  /\ \A i \in 1..n : f[i] = Place(f[i - 1], lines[i])

LEMMA NestingFollows ==
  ASSUME NEW lines \in Seq(Lines)
  PROVE  \E f \in [0..Len(lines) -> Nestings] :
           NestsTo(f, lines, Len(lines)) /\ Nesting(lines) = f[Len(lines)]
<1> DEFINE n == Len(lines)
           c == [open |-> <<>>, ok |-> TRUE]
           F == [p \in (1..n) \X Nestings |-> Place(p[2], lines[p[1]])]
           After(f) == f = [i \in 0..n |-> IF i = 0 THEN c ELSE Place(f[i - 1], lines[i])]
           after == CHOOSE f : After(f)
<1>1. n \in Nat /\ c \in Nestings /\ \A i \in 1..n : lines[i] \in Lines
  BY DEF Nestings
<1>2. F \in [(1..n) \X Nestings -> Nestings]
  BY <1>1, PlaceType
<1>3. PICK f \in [0..n -> Nestings] : Iterates(f, c, F, n)
  BY <1>1, <1>2, RecursionExists
<1> HIDE DEF c
<1>4. ASSUME NEW i \in 0..n
      PROVE  f[i] = IF i = 0 THEN c ELSE Place(f[i - 1], lines[i])
  <2>1. f[i] = IF i = 0 THEN c ELSE F[<<i, f[i - 1]>>]
    BY <1>3 DEF Iterates
  <2>2. i # 0 => i \in 1..n /\ i - 1 \in 0..n
    BY <1>1
  <2> QED
    BY <2>1, <2>2
<1>5. After(f)
  BY <1>4
<1>6. After(after)
  BY <1>5
<1>7. Nesting(lines) = after[n]
  BY DEF Nesting, c
<1> HIDE DEF after
<1>8. \A i \in 0..n : after[i] = IF i = 0 THEN c ELSE Place(after[i - 1], lines[i])
  BY <1>6
<1>9. \A i \in 0..n : after[i] = f[i]
  <2>1. 0 \in 0..n
    BY <1>1
  <2>2. after[0] = f[0]
    BY <1>4, <1>8, <2>1
  <2>3. ASSUME NEW i \in 1..n, after[i - 1] = f[i - 1]
        PROVE  after[i] = f[i]
    <3>1. i \in 0..n /\ i # 0
      BY <1>1
    <3> QED
      BY <1>4, <1>8, <2>3, <3>1
  <2>4. StepsAlike(after, f, n)
    BY <2>2, <2>3 DEF StepsAlike
  <2> QED
    BY <1>1, <2>4, SameUpTo
<1>10. NestsTo(f, lines, n)
  <2>1. 0 \in 0..n
    BY <1>1
  <2>2. f[0] = c
    BY <1>4, <2>1
  <2>3. ASSUME NEW i \in 1..n
        PROVE  f[i] = Place(f[i - 1], lines[i])
    <3>1. i \in 0..n /\ i # 0
      BY <1>1
    <3> QED
      BY <1>4, <3>1
  <2> QED
    BY <2>2, <2>3 DEF NestsTo, c
<1>11. n \in 0..n
  BY <1>1
<1> QED
  BY <1>3, <1>7, <1>9, <1>10, <1>11

LEMMA NestingType ==
  ASSUME NEW lines \in Seq(Lines)
  PROVE  Nesting(lines) \in Nestings
<1>1. PICK f \in [0..Len(lines) -> Nestings] : Nesting(lines) = f[Len(lines)]
  BY NestingFollows
<1>2. Len(lines) \in 0..Len(lines)
  OBVIOUS
<1> QED
  BY <1>1, <1>2

LEMMA NestingNothing == Nesting(<<>>) = [open |-> <<>>, ok |-> TRUE]
<1>1. <<>> \in Seq(Lines) /\ Len(<<>>) = 0
  OBVIOUS
<1>2. PICK f \in [0..0 -> Nestings] : NestsTo(f, <<>>, 0) /\ Nesting(<<>>) = f[0]
  BY <1>1, NestingFollows
<1> QED
  BY <1>2 DEF NestsTo

LEMMA NestingAppend ==
  ASSUME NEW lines \in Seq(Lines), NEW line \in Lines
  PROVE  Nesting(Append(lines, line)) = Place(Nesting(lines), line)
<1> DEFINE n == Len(lines)
           more == Append(lines, line)
<1>1. /\ n \in Nat /\ more \in Seq(Lines) /\ Len(more) = n + 1
      /\ \A i \in 1..n : more[i] = lines[i]
      /\ more[n + 1] = line
  OBVIOUS
<1> HIDE DEF more
<1>2. PICK g : NestsTo(g, more, n + 1) /\ Nesting(more) = g[n + 1]
  BY <1>1, NestingFollows
<1>3. PICK f : NestsTo(f, lines, n) /\ Nesting(lines) = f[n]
  BY NestingFollows
<1>4. g[0] = f[0]
  BY <1>2, <1>3 DEF NestsTo
<1>5. ASSUME NEW i \in 1..n, g[i - 1] = f[i - 1]
      PROVE  g[i] = f[i]
  <2>1. i \in 1..(n + 1)
    BY <1>1
  <2> QED
    BY <1>1, <1>2, <1>3, <1>5, <2>1 DEF NestsTo
<1>6. \A i \in 0..n : g[i] = f[i]
  <2>1. StepsAlike(g, f, n)
    BY <1>4, <1>5 DEF StepsAlike
  <2> QED
    BY <1>1, <2>1, SameUpTo
<1>7. g[n] = f[n]
  BY <1>1, <1>6
<1>8. g[n + 1] = Place(g[n], more[n + 1])
  <2> DEFINE k == n + 1
  <2>1. k \in 1..(n + 1) /\ k - 1 = n
    BY <1>1
  <2> HIDE DEF k
  <2>2. g[k] = Place(g[n], more[k])
    BY <1>2, <2>1 DEF NestsTo
  <2> QED
    BY <2>2 DEF k
<1> QED
  BY <1>1, <1>2, <1>3, <1>7, <1>8 DEF more

(* The lines for the commands of a list, as what is there after each.       *)
PermitsTo(f, cs, u, n) ==
  /\ f[0] = <<>>
  /\ \A i \in 1..n : f[i] = IF CanExecute(cs[i], u) THEN Append(f[i - 1], Item(cs[i]))
                                                     ELSE f[i - 1]

LEMMA PermittedFollows ==
  ASSUME NEW cs \in Seq(Commands), NEW u
  PROVE  \E f \in [0..Len(cs) -> Seq(Lines)] :
           PermitsTo(f, cs, u, Len(cs)) /\ Permitted(cs, u) = f[Len(cs)]
<1> DEFINE n == Len(cs)
           T == Seq(Lines)
           Then(a, x) == IF CanExecute(x, u) THEN Append(a, Item(x)) ELSE a
           F == [p \in (1..n) \X T |-> Then(p[2], cs[p[1]])]
           UpTo(f) == f = [i \in 0..n |->
                             IF i = 0 THEN <<>>
                             ELSE IF CanExecute(cs[i], u) THEN Append(f[i - 1], Item(cs[i]))
                             ELSE f[i - 1]]
           upTo == CHOOSE f : UpTo(f)
<1>1. n \in Nat /\ <<>> \in T /\ \A i \in 1..n : cs[i] \in Commands
  OBVIOUS
<1>2. ASSUME NEW a \in T, NEW x \in Commands
      PROVE  Then(a, x) \in T
  BY LinesFacts
<1> HIDE DEF T, Then
<1>3. F \in [(1..n) \X T -> T]
  BY <1>1, <1>2
<1>4. PICK f \in [0..n -> T] : Iterates(f, <<>>, F, n)
  BY <1>1, <1>3, RecursionExists
<1>5. ASSUME NEW i \in 0..n
      PROVE  f[i] = IF i = 0 THEN <<>> ELSE Then(f[i - 1], cs[i])
  <2>1. f[i] = IF i = 0 THEN <<>> ELSE F[<<i, f[i - 1]>>]
    BY <1>4 DEF Iterates
  <2>2. i # 0 => i \in 1..n /\ i - 1 \in 0..n
    BY <1>1
  <2> QED
    BY <2>1, <2>2
<1>6. UpTo(f)
  BY <1>5 DEF Then
<1>7. UpTo(upTo)
  BY <1>6
<1>8. Permitted(cs, u) = upTo[n]
  BY DEF Permitted
<1> HIDE DEF upTo
<1>9. \A i \in 0..n : upTo[i] = IF i = 0 THEN <<>> ELSE Then(upTo[i - 1], cs[i])
  BY <1>7 DEF Then
<1>10. \A i \in 0..n : upTo[i] = f[i]
  <2>1. 0 \in 0..n
    BY <1>1
  <2>2. upTo[0] = f[0]
    BY <1>5, <1>9, <2>1
  <2>3. ASSUME NEW i \in 1..n, upTo[i - 1] = f[i - 1]
        PROVE  upTo[i] = f[i]
    <3>1. i \in 0..n /\ i # 0
      BY <1>1
    <3> QED
      BY <1>5, <1>9, <2>3, <3>1
  <2>4. StepsAlike(upTo, f, n)
    BY <2>2, <2>3 DEF StepsAlike
  <2> QED
    BY <1>1, <2>4, SameUpTo
<1>11. PermitsTo(f, cs, u, n)
  <2>1. 0 \in 0..n
    BY <1>1
  <2>2. f[0] = <<>>
    BY <1>5, <2>1
  <2>3. ASSUME NEW i \in 1..n
        PROVE  f[i] = Then(f[i - 1], cs[i])
    <3>1. i \in 0..n /\ i # 0
      BY <1>1
    <3> QED
      BY <1>5, <3>1
  <2> QED
    BY <2>2, <2>3 DEF PermitsTo, Then
<1>12. n \in 0..n
  BY <1>1
<1> QED
  BY <1>4, <1>8, <1>10, <1>11, <1>12 DEF T

LEMMA PermittedNothing == \A u : Permitted(<<>>, u) = <<>>
<1> TAKE u
<1>1. <<>> \in Seq(Commands) /\ Len(<<>>) = 0
  OBVIOUS
<1>2. PICK f : PermitsTo(f, <<>>, u, 0) /\ Permitted(<<>>, u) = f[0]
  BY <1>1, PermittedFollows
<1> QED
  BY <1>2 DEF PermitsTo

LEMMA PermittedAppend ==
  ASSUME NEW cs \in Seq(Commands), NEW c \in Commands, NEW u
  PROVE  Permitted(Append(cs, c), u)
           = IF CanExecute(c, u) THEN Append(Permitted(cs, u), Item(c)) ELSE Permitted(cs, u)
<1> DEFINE n == Len(cs)
           more == Append(cs, c)
<1>1. /\ n \in Nat /\ more \in Seq(Commands) /\ Len(more) = n + 1
      /\ \A i \in 1..n : more[i] = cs[i]
      /\ more[n + 1] = c
  OBVIOUS
<1> HIDE DEF more
<1>2. PICK g : PermitsTo(g, more, u, n + 1) /\ Permitted(more, u) = g[n + 1]
  BY <1>1, PermittedFollows
<1>3. PICK f : PermitsTo(f, cs, u, n) /\ Permitted(cs, u) = f[n]
  BY PermittedFollows
<1>4. g[0] = f[0]
  BY <1>2, <1>3 DEF PermitsTo
<1>5. ASSUME NEW i \in 1..n, g[i - 1] = f[i - 1]
      PROVE  g[i] = f[i]
  <2>1. i \in 1..(n + 1)
    BY <1>1
  <2> QED
    BY <1>1, <1>2, <1>3, <1>5, <2>1 DEF PermitsTo
<1>6. \A i \in 0..n : g[i] = f[i]
  <2>1. StepsAlike(g, f, n)
    BY <1>4, <1>5 DEF StepsAlike
  <2> QED
    BY <1>1, <2>1, SameUpTo
<1>7. g[n] = f[n]
  BY <1>1, <1>6
<1>8. g[n + 1] = IF CanExecute(more[n + 1], u) THEN Append(g[n], Item(more[n + 1])) ELSE g[n]
  <2> DEFINE k == n + 1
  <2>1. k \in 1..(n + 1) /\ k - 1 = n
    BY <1>1
  <2> HIDE DEF k
  <2>2. g[k] = IF CanExecute(more[k], u) THEN Append(g[n], Item(more[k])) ELSE g[n]
    BY <1>2, <2>1 DEF PermitsTo
  <2> QED
    BY <2>2 DEF k
<1> QED
  BY <1>1, <1>2, <1>3, <1>7, <1>8 DEF more

(* What holds of no line, and still with each of the lines, holds of all.   *)
LEMMA PermittedIn ==
  ASSUME NEW cs \in Seq(Commands), NEW u, NEW S, <<>> \in S,
         \A a \in S, i \in 1..Len(cs) : CanExecute(cs[i], u) => Append(a, Item(cs[i])) \in S
  PROVE  Permitted(cs, u) \in S
<1> DEFINE n == Len(cs)
<1>1. PICK f : PermitsTo(f, cs, u, n) /\ Permitted(cs, u) = f[n]
  BY PermittedFollows
<1>2. n \in Nat
  OBVIOUS
<1> DEFINE T == {i \in Nat : i <= n => f[i] \in S}
<1>3. 0 \in T
  BY <1>1 DEF PermitsTo
<1>4. ASSUME NEW i \in Nat, i \in T
      PROVE  i + 1 \in T
  <2> SUFFICES ASSUME i + 1 <= n PROVE f[i + 1] \in S
    OBVIOUS
  <2> DEFINE k == i + 1
  <2>1. k \in 1..n /\ k - 1 = i /\ f[i] \in S
    BY <1>4
  <2> HIDE DEF k
  <2>2. f[k] = IF CanExecute(cs[k], u) THEN Append(f[i], Item(cs[k])) ELSE f[i]
    BY <1>1, <2>1 DEF PermitsTo
  <2>3. f[k] \in S
    BY <2>1, <2>2
  <2> QED
    BY <2>3 DEF k
<1> HIDE DEF T
<1>5. Nat \subseteq T
  BY <1>3, <1>4, NaturalInduction
<1>6. f[n] \in S
  BY <1>2, <1>5 DEF T
<1> QED
  BY <1>1, <1>6

LEMMA PermittedType ==
  ASSUME NEW cs \in Seq(Commands), NEW u
  PROVE  Permitted(cs, u) \in Seq(Lines)
<1>1. <<>> \in Seq(Lines)
  OBVIOUS
<1>2. ASSUME NEW a \in Seq(Lines), NEW i \in 1..Len(cs)
      PROVE  Append(a, Item(cs[i])) \in Seq(Lines)
  BY LinesFacts
<1> QED
  BY <1>1, <1>2, PermittedIn

(* All of a command's own.                                                  *)
LEMMA PermittedOne ==
  ASSUME NEW x \in Commands, NEW u
  PROVE  Permitted(<<x>>, u) = IF CanExecute(x, u) THEN <<Item(x)>> ELSE <<>>
<1>1. <<>> \in Seq(Commands) /\ Append(<<>>, x) = <<x>> /\ Append(<<>>, Item(x)) = <<Item(x)>>
  OBVIOUS
<1>2. Permitted(Append(<<>>, x), u)
        = IF CanExecute(x, u) THEN Append(Permitted(<<>>, u), Item(x)) ELSE Permitted(<<>>, u)
  BY <1>1, PermittedAppend
<1> QED
  BY <1>1, <1>2, PermittedNothing

-----------------------------------------------------------------------------
(***************************************************************************)
(* Types.                                                                  *)
(***************************************************************************)
WalkTypes ==
  /\ TypeOK
  /\ stack \in [Threads -> Seq(CommandGroups)]
  /\ listing \in [Threads -> Seq(Lines)]
  /\ top \in [Threads -> Nat \ {0}]
  /\ \A t \in Threads : pc[t] # "idle" => user[t] \in Users

Places == {"idle", "top", "test", "flag", "check", "load", "store", "fetch", "reset"}

(* The types again, in the form in which a step keeps them.                 *)
LEMMA WalkTypesAre ==
  WalkTypes <=>
    /\ it \in [CommandGroups -> [Kinds -> Int]] /\ reg \in [Threads -> Int]
    /\ atEnd \in [CommandGroups -> [Kinds -> BOOLEAN]]
    /\ pc \in [Threads -> Places]
    /\ \A t \in Threads : stack[t] = <<>> <=> pc[t] \in {"idle", "top"}
    /\ kind \in [Threads -> Kinds] /\ user \in [Threads -> Users \cup {None}]
    /\ crashed \in BOOLEAN /\ cutOff \in BOOLEAN /\ alone \in [Threads -> BOOLEAN]
    /\ stack \in [Threads -> Seq(CommandGroups)]
    /\ listing \in [Threads -> Seq(Lines)]
    /\ top \in [Threads -> Nat \ {0}]
    /\ \A t \in Threads : pc[t] # "idle" => user[t] \in Users
BY DEF WalkTypes, TypeOK, Places

(* The group a thread is in, and what it walks there.                       *)
LEMMA GroupFacts ==
  ASSUME WalkTypes, NEW t \in Threads, pc[t] \notin {"idle", "top"}
  PROVE  /\ Group(t) \in CommandGroups /\ kind[t] \in Kinds /\ stack[t] # <<>>
         /\ Iterator(t) \in Int /\ Size(t) \in Nat
         /\ Len(stack[t]) \in Nat \ {0} /\ Tail(stack[t]) \in Seq(CommandGroups)
         /\ Content(Group(t), kind[t]) \in Seq(Commands \cup CommandGroups)
         /\ kind[t] = "commands" => Content(Group(t), kind[t]) \in Seq(Commands)
         /\ kind[t] = "groups" => Content(Group(t), kind[t]) \in Seq(CommandGroups)
<1>1. stack[t] \in Seq(CommandGroups) /\ stack[t] # <<>> /\ kind[t] \in Kinds
  BY WalkTypesAre
<1>2. Group(t) \in CommandGroups
  BY <1>1 DEF Group
<1>3. CommandsIn[Group(t)] \in Seq(Commands) /\ GroupsIn[Group(t)] \in Seq(CommandGroups)
  BY <1>2, CatalogueAssumption
<1>4. Iterator(t) \in Int
  BY <1>1, <1>2, WalkTypesAre DEF Iterator
<1>5. Len(stack[t]) \in Nat \ {0} /\ Tail(stack[t]) \in Seq(CommandGroups)
  BY <1>1
<1>6. Content(Group(t), kind[t]) \in Seq(Commands \cup CommandGroups)
  BY <1>3 DEF Content
<1>7. Size(t) \in Nat
  BY <1>6 DEF Size
<1>8. /\ kind[t] = "commands" => Content(Group(t), kind[t]) \in Seq(Commands)
      /\ kind[t] = "groups" => Content(Group(t), kind[t]) \in Seq(CommandGroups)
  BY <1>3 DEF Content
<1> QED
  BY <1>1, <1>2, <1>4, <1>5, <1>6, <1>7, <1>8

LEMMA TypesInit == Init => WalkTypes
<1> SUFFICES ASSUME Init PROVE WalkTypes
  OBVIOUS
<1>1. <<>> \in Seq(CommandGroups) /\ <<>> \in Seq(Lines)
  OBVIOUS
<1>2. /\ it \in [CommandGroups -> [Kinds -> Int]] /\ reg \in [Threads -> Int]
      /\ atEnd \in [CommandGroups -> [Kinds -> BOOLEAN]]
  BY DEF Init
<1>3. /\ pc \in [Threads -> Places]
      /\ kind \in [Threads -> Kinds] /\ user \in [Threads -> Users \cup {None}]
      /\ crashed \in BOOLEAN /\ cutOff \in BOOLEAN
      /\ top \in [Threads -> Nat \ {0}]
  <2>1. "idle" \in Places /\ "commands" \in Kinds /\ 1 \in Nat \ {0}
    BY DEF Places, Kinds
  <2> HIDE DEF Places, Kinds
  <2> QED
    BY <2>1 DEF Init
<1>4. alone \in [Threads -> BOOLEAN]
  BY DEF Init
<1>5. /\ stack \in [Threads -> Seq(CommandGroups)] /\ listing \in [Threads -> Seq(Lines)]
      /\ \A t \in Threads : stack[t] = <<>> /\ pc[t] = "idle"
  BY <1>1 DEF Init
<1> QED
  BY <1>2, <1>3, <1>4, <1>5, WalkTypesAre

(* A move of an iterator.                                                   *)
LEMMA SetTypes ==
  ASSUME WalkTypes, NEW t \in Threads, pc[t] \notin {"idle", "top"}, NEW n \in Int
  PROVE  /\ SetEnd(t, n) =>
              /\ atEnd' \in [CommandGroups -> [Kinds -> BOOLEAN]]
              /\ atEnd'[Group(t)][kind[t]] <=> n >= Size(t) - 1
         /\ SetIterator(t, n) =>
              /\ it' \in [CommandGroups -> [Kinds -> Int]]
              /\ atEnd' \in [CommandGroups -> [Kinds -> BOOLEAN]]
              /\ it'[Group(t)][kind[t]] = n
              /\ \A g \in CommandGroups, k \in Kinds :
                   g # Group(t) \/ k # kind[t] => it'[g][k] = it[g][k]
<1> DEFINE G == Group(t)
           K == kind[t]
           b == n >= Size(t) - 1
<1>1. G \in CommandGroups /\ K \in Kinds /\ Size(t) \in Nat
  BY GroupFacts
<1>2. it \in [CommandGroups -> [Kinds -> Int]] /\ atEnd \in [CommandGroups -> [Kinds -> BOOLEAN]]
  BY WalkTypesAre
<1>3. b \in BOOLEAN
  OBVIOUS
<1>4. ASSUME SetEnd(t, n)
      PROVE  atEnd' \in [CommandGroups -> [Kinds -> BOOLEAN]] /\ (atEnd'[G][K] <=> b)
  <2>1. atEnd' = [atEnd EXCEPT ![G][K] = b]
    BY <1>4 DEF SetEnd
  <2> HIDE DEF G, K, b
  <2> QED
    BY <2>1, <1>1, <1>2, <1>3
<1>5. ASSUME SetIterator(t, n)
      PROVE  /\ it' \in [CommandGroups -> [Kinds -> Int]] /\ it'[G][K] = n
             /\ \A g \in CommandGroups, k \in Kinds :
                  g # G \/ k # K => it'[g][k] = it[g][k]
  <2>1. it' = [it EXCEPT ![G][K] = n]
    BY <1>5 DEF SetIterator
  <2> HIDE DEF G, K
  <2> QED
    BY <2>1, <1>1, <1>2
<1> QED
  BY <1>4, <1>5 DEF SetIterator

(* What a step of a thread leaves alone of the others, whatever it does.    *)
Others(t) ==
  \A x \in Threads \ {t} :
    /\ pc'[x] = pc[x] /\ user'[x] = user[x] /\ stack'[x] = stack[x] /\ kind'[x] = kind[x]
    /\ reg'[x] = reg[x] /\ top'[x] = top[x] /\ listing'[x] = listing[x]

LEMMA OthersAlone ==
  ASSUME WalkTypes, NEW t \in Threads,
         Step(t) \/ WriteThrows(t) \/ \E u \in Users : Begin(t, u)
  PROVE  Others(t)
<1> USE WalkTypesAre DEF Goto, WriteLines, Others
<1>1. CASE NextTop(t)
  BY <1>1 DEF NextTop, Enter
<1>2. CASE Test(t)
  BY <1>2 DEF Test
<1>3. CASE ReadEnd(t)
  BY <1>3 DEF ReadEnd
<1>4. CASE Check(t)
  BY <1>4 DEF Check
<1>5. CASE Load(t)
  BY <1>5 DEF Load
<1>6. CASE Store(t)
  BY <1>6 DEF Store
<1>7. CASE Fetch(t)
  BY <1>7 DEF Fetch, Enter
<1>8. CASE Reset(t)
  BY <1>8 DEF Reset
<1>9. CASE WriteThrows(t)
  BY <1>9 DEF WriteThrows
<1>10. ASSUME NEW u \in Users, Begin(t, u) PROVE Others(t)
  BY <1>10 DEF Begin
<1> QED
  BY <1>1, <1>2, <1>3, <1>4, <1>5, <1>6, <1>7, <1>8, <1>9, <1>10 DEF Step

(* A call of handleSublist, and a line.                                     *)
LEMMA EnterTypes ==
  ASSUME WalkTypes, NEW t \in Threads, NEW g \in CommandGroups, Enter(t, g)
  PROVE  /\ stack' \in [Threads -> Seq(CommandGroups)] /\ stack'[t] = <<g>> \o stack[t]
         /\ stack'[t] # <<>> /\ kind' \in [Threads -> Kinds] /\ kind'[t] = "commands"
         /\ listing' \in [Threads -> Seq(Lines)]
         /\ listing'[t] = Append(listing[t], Open(g))
         /\ pc' \in [Threads -> Places] /\ pc'[t] = "test"
<1>1. stack[t] \in Seq(CommandGroups) /\ listing[t] \in Seq(Lines) /\ Open(g) \in Lines
  BY WalkTypesAre, LinesFacts
<1>2. /\ <<g>> \o stack[t] \in Seq(CommandGroups) /\ Len(<<g>> \o stack[t]) > 0
      /\ <<g>> \o stack[t] # <<>>
  <2>1. /\ <<g>> \o stack[t] \in Seq(CommandGroups)
        /\ Len(<<g>> \o stack[t]) = 1 + Len(stack[t]) /\ Len(stack[t]) \in Nat
    BY <1>1
  <2> QED
    BY <2>1
<1> HIDE DEF Open
<1>3. listing[t] \o <<Open(g)>> = Append(listing[t], Open(g))
      /\ Append(listing[t], Open(g)) \in Seq(Lines)
  BY <1>1
<1>4. "test" \in Places /\ "commands" \in Kinds
  BY DEF Places, Kinds
<1> HIDE DEF Places, Kinds
<1> QED
  BY <1>1, <1>2, <1>3, <1>4, WalkTypesAre DEF Enter, WriteLines, Goto

(* The thread's own places.                                                 *)
LEMMA GotoTypes ==
  ASSUME WalkTypes, NEW t \in Threads, NEW where \in Places, Goto(t, where)
  PROVE  pc' \in [Threads -> Places] /\ pc'[t] = where
BY WalkTypesAre DEF Goto

LEMMA PlacesAre ==
  /\ "idle" \in Places /\ "top" \in Places /\ "test" \in Places /\ "flag" \in Places
  /\ "check" \in Places /\ "load" \in Places /\ "store" \in Places /\ "fetch" \in Places
  /\ "reset" \in Places
BY DEF Places

LEMMA LastReturn ==
  ASSUME NEW S, NEW s \in Seq(S), s # <<>>
  PROVE  Tail(s) = <<>> <=> Len(s) = 1
<1> DEFINE rest == Tail(s)
<1>1. rest \in Seq(S) /\ Len(rest) = Len(s) - 1 /\ Len(s) \in Nat
  OBVIOUS
<1> HIDE DEF rest
<1>2. rest = <<>> <=> Len(rest) = 0
  BY SMTT(30), <1>1
<1>3. rest = <<>> <=> Len(s) = 1
  BY <1>1, <1>2
<1> QED
  BY <1>3 DEF rest

LEMMA TypesStep ==
  ASSUME WalkTypes, NEW t \in Threads,
         Step(t) \/ WriteThrows(t) \/ \E u \in Users : Begin(t, u)
  PROVE  WalkTypes'
<1> DEFINE Others2 ==
             \A x \in Threads \ {t} :
               (stack'[x] = <<>> <=> pc'[x] \in {"idle", "top"})
                 /\ (pc'[x] # "idle" => user'[x] \in Users)
<1>1. Others2
  BY OthersAlone, WalkTypesAre DEF Others
<1> SUFFICES /\ it' \in [CommandGroups -> [Kinds -> Int]] /\ reg' \in [Threads -> Int]
             /\ atEnd' \in [CommandGroups -> [Kinds -> BOOLEAN]]
             /\ pc' \in [Threads -> Places]
             /\ stack'[t] = <<>> <=> pc'[t] \in {"idle", "top"}
             /\ kind' \in [Threads -> Kinds] /\ user' \in [Threads -> Users \cup {None}]
             /\ crashed' \in BOOLEAN /\ cutOff' \in BOOLEAN /\ alone' \in [Threads -> BOOLEAN]
             /\ stack' \in [Threads -> Seq(CommandGroups)]
             /\ listing' \in [Threads -> Seq(Lines)]
             /\ top' \in [Threads -> Nat \ {0}]
             /\ pc'[t] # "idle" => user'[t] \in Users
  <2>1. Others2
    BY <1>1
  <2>2. /\ \A x \in Threads : stack'[x] = <<>> <=> pc'[x] \in {"idle", "top"}
        /\ \A x \in Threads : pc'[x] # "idle" => user'[x] \in Users
    BY <2>1
  <2> HIDE DEF Others2
  <2> QED
    BY <2>2 DEF WalkTypes, TypeOK, Places
<1>2. /\ it \in [CommandGroups -> [Kinds -> Int]] /\ reg \in [Threads -> Int]
      /\ atEnd \in [CommandGroups -> [Kinds -> BOOLEAN]]
      /\ pc \in [Threads -> Places]
      /\ stack[t] = <<>> <=> pc[t] \in {"idle", "top"}
      /\ kind \in [Threads -> Kinds] /\ user \in [Threads -> Users \cup {None}]
      /\ crashed \in BOOLEAN /\ cutOff \in BOOLEAN /\ alone \in [Threads -> BOOLEAN]
      /\ stack \in [Threads -> Seq(CommandGroups)]
      /\ listing \in [Threads -> Seq(Lines)]
      /\ top \in [Threads -> Nat \ {0}]
      /\ pc[t] # "idle" => user[t] \in Users
  BY WalkTypesAre
<1> HIDE DEF Others2, Places, Kinds
<1>3. CASE NextTop(t)
  <2> USE <1>3, <1>2 DEF NextTop, AtPlace, history
  <2>1. CASE top[t] <= Len(TopGroups)
    <3>1. TopGroups[top[t]] \in CommandGroups
      BY <2>1, CatalogueAssumption
    <3>2. Enter(t, TopGroups[top[t]]) /\ top' = [top EXCEPT ![t] = @ + 1]
      BY <2>1
    <3>3. top' \in [Threads -> Nat \ {0}]
      BY <3>2
    <3> QED
      BY <3>1, <3>2, <3>3, EnterTypes
  <2>2. CASE ~(top[t] <= Len(TopGroups))
    <3>1. Goto(t, "idle") /\ UNCHANGED <<stack, kind, listing, top>>
      BY <2>2
    <3>2. pc' \in [Threads -> Places] /\ pc'[t] = "idle"
      BY <3>1, GotoTypes, PlacesAre
    <3> QED
      BY <3>1, <3>2
  <2> QED
    BY <2>1, <2>2
<1>4. CASE Test(t)
  <2> USE <1>4, <1>2 DEF Test, AtPlace, history
  <2>1. pc[t] \notin {"idle", "top"} /\ Iterator(t) \in Int
    BY GroupFacts
  <2>2. atEnd' \in [CommandGroups -> [Kinds -> BOOLEAN]]
    BY <2>1, SetTypes
  <2>3. pc' \in [Threads -> Places] /\ pc'[t] = "flag"
    BY GotoTypes, PlacesAre
  <2> QED
    BY <2>2, <2>3
<1>5. CASE ReadEnd(t)
  <2> USE <1>5, <1>2 DEF ReadEnd, AtPlace, history
  <2>1. pc' \in [Threads -> Places] /\ pc'[t] \in {"reset", "check"}
    BY GotoTypes, PlacesAre
  <2> QED
    BY <2>1
<1>6. CASE Check(t)
  <2> USE <1>6, <1>2 DEF Check, AtPlace, history
  <2>1. pc' \in [Threads -> Places] /\ pc'[t] \in {"load", "reset"}
    BY GotoTypes, PlacesAre
  <2> QED
    BY <2>1
<1>7. CASE Load(t)
  <2> USE <1>7, <1>2 DEF Load, AtPlace, history
  <2>1. pc' \in [Threads -> Places] /\ pc'[t] = "store"
    BY GotoTypes, PlacesAre
  <2>2. Iterator(t) \in Int
    BY GroupFacts
  <2> QED
    BY <2>1, <2>2
<1>8. CASE Store(t)
  <2> USE <1>8, <1>2 DEF Store, AtPlace, history
  <2>1. pc' \in [Threads -> Places] /\ pc'[t] = "fetch"
    BY GotoTypes, PlacesAre
  <2>2. reg[t] + 1 \in Int /\ pc[t] \notin {"idle", "top"}
    OBVIOUS
  <2>3. /\ it' \in [CommandGroups -> [Kinds -> Int]]
        /\ atEnd' \in [CommandGroups -> [Kinds -> BOOLEAN]]
    BY <2>2, SetTypes
  <2> QED
    BY <2>1, <2>3
<1>9. CASE Fetch(t)
  <2> DEFINE X == Content(Group(t), kind[t])[Iterator(t) + 1]
  <2> USE <1>9, <1>2 DEF Fetch, AtPlace, history
  <2>1. pc[t] \notin {"idle", "top"}
    OBVIOUS
  <2>2. CASE Iterator(t) + 1 \notin 1..Size(t)
    BY <2>2
  <2>3. CASE Iterator(t) + 1 \in 1..Size(t) /\ kind[t] = "groups"
    <3>1. X \in CommandGroups
      <4> DEFINE C == Content(Group(t), kind[t])
                 j == Iterator(t) + 1
      <4>1. C \in Seq(CommandGroups) /\ j \in 1..Len(C)
        BY <2>1, <2>3, GroupFacts DEF Size
      <4> HIDE DEF C, j
      <4>2. C[j] \in CommandGroups
        BY <4>1
      <4> QED
        BY <4>2 DEF C, j
    <3>2. Enter(t, X) /\ UNCHANGED crashed
      BY <2>3
    <3> HIDE DEF X
    <3> QED
      BY <3>1, <3>2, EnterTypes
  <2>4. CASE Iterator(t) + 1 \in 1..Size(t) /\ kind[t] # "groups"
    <3>1. kind[t] = "commands"
      BY <2>4 DEF Kinds
    <3>2. X \in Commands
      <4> DEFINE C == Content(Group(t), kind[t])
                 j == Iterator(t) + 1
      <4>1. C \in Seq(Commands) /\ j \in 1..Len(C)
        BY <2>1, <2>4, <3>1, GroupFacts DEF Size
      <4> HIDE DEF C, j
      <4>2. C[j] \in Commands
        BY <4>1
      <4> QED
        BY <4>2 DEF C, j
    <3>3. /\ WriteLines(t, Permitted(<<X>>, user[t])) /\ Goto(t, "test")
          /\ UNCHANGED <<stack, kind, crashed>>
      BY <2>4
    <3> HIDE DEF X
    <3>4. <<X>> \in Seq(Commands)
      BY <3>2
    <3>5. Permitted(<<X>>, user[t]) \in Seq(Lines)
      BY <3>4, PermittedType
    <3>6. listing[t] \o Permitted(<<X>>, user[t]) \in Seq(Lines)
      BY <3>5
    <3>7. listing' \in [Threads -> Seq(Lines)]
      BY <3>3, <3>6 DEF WriteLines
    <3>8. pc' \in [Threads -> Places] /\ pc'[t] = "test"
      BY <3>3, GotoTypes, PlacesAre
    <3> QED
      BY <3>3, <3>7, <3>8
  <2> QED
    BY <2>2, <2>3, <2>4
<1>10. CASE Reset(t)
  <2> USE <1>10, <1>2 DEF Reset, AtPlace, history
  <2>1. pc[t] \notin {"idle", "top"} /\ -1 \in Int
    OBVIOUS
  <2>2. /\ it' \in [CommandGroups -> [Kinds -> Int]]
        /\ atEnd' \in [CommandGroups -> [Kinds -> BOOLEAN]]
    BY <2>1, SetTypes
  <2>3. CASE kind[t] = "commands"
    <3>1. pc' \in [Threads -> Places] /\ pc'[t] = "test"
      BY <2>3, GotoTypes, PlacesAre
    <3> QED
      BY <2>2, <2>3, <3>1 DEF Kinds
  <2>4. CASE kind[t] # "commands"
    <3>1. /\ WriteLines(t, <<End>>) /\ stack' = [stack EXCEPT ![t] = Tail(@)]
          /\ Goto(t, IF Len(stack[t]) = 1 THEN "top" ELSE "test") /\ UNCHANGED kind
      BY <2>4
    <3>2. /\ pc' \in [Threads -> Places]
          /\ pc'[t] = IF Len(stack[t]) = 1 THEN "top" ELSE "test"
      BY <3>1, GotoTypes, PlacesAre
    <3>3. Len(stack[t]) \in Nat \ {0} /\ Tail(stack[t]) \in Seq(CommandGroups)
      BY <2>1, GroupFacts
    <3>4. Tail(stack[t]) = <<>> <=> Len(stack[t]) = 1
      <4>1. stack[t] \in Seq(CommandGroups) /\ stack[t] # <<>>
        BY <2>1
      <4> QED
        BY <4>1, LastReturn
    <3>5. stack' \in [Threads -> Seq(CommandGroups)] /\ stack'[t] = Tail(stack[t])
      BY <3>1, <3>3
    <3>6. listing[t] \o <<End>> \in Seq(Lines)
      BY LinesFacts
    <3>7. listing' \in [Threads -> Seq(Lines)]
      BY <3>1, <3>6 DEF WriteLines
    <3> QED
      BY <2>2, <3>1, <3>2, <3>4, <3>5, <3>7
  <2> QED
    BY <2>3, <2>4
<1>11. CASE WriteThrows(t)
  <2> USE <1>11, <1>2 DEF WriteThrows, AtPlace, history
  <2>1. pc' \in [Threads -> Places] /\ pc'[t] = "idle"
    BY GotoTypes, PlacesAre
  <2>2. <<>> \in Seq(CommandGroups) /\ <<>> \in Seq(Lines)
    OBVIOUS
  <2>3. /\ stack' \in [Threads -> Seq(CommandGroups)] /\ stack'[t] = <<>>
        /\ listing' \in [Threads -> Seq(Lines)]
    BY <2>2
  <2>4. user' \in [Threads -> Users \cup {None}]
    OBVIOUS
  <2>5. cutOff' \in BOOLEAN
    OBVIOUS
  <2> QED
    BY <2>1, <2>3, <2>4, <2>5
<1>12. ASSUME NEW u \in Users, Begin(t, u)
       PROVE  /\ it' \in [CommandGroups -> [Kinds -> Int]] /\ reg' \in [Threads -> Int]
              /\ atEnd' \in [CommandGroups -> [Kinds -> BOOLEAN]]
              /\ pc' \in [Threads -> Places]
              /\ stack'[t] = <<>> <=> pc'[t] \in {"idle", "top"}
              /\ kind' \in [Threads -> Kinds] /\ user' \in [Threads -> Users \cup {None}]
              /\ crashed' \in BOOLEAN /\ cutOff' \in BOOLEAN
              /\ alone' \in [Threads -> BOOLEAN]
              /\ stack' \in [Threads -> Seq(CommandGroups)]
              /\ listing' \in [Threads -> Seq(Lines)]
              /\ top' \in [Threads -> Nat \ {0}]
              /\ pc'[t] # "idle" => user'[t] \in Users
  <2> USE <1>12, <1>2 DEF Begin, AtPlace, history
  <2>1. pc' \in [Threads -> Places] /\ pc'[t] = "top"
    BY GotoTypes, PlacesAre
  <2>2. Permitted(TopCommands, u) \in Seq(Lines)
    BY PermittedType, CatalogueAssumption
  <2>3. listing' \in [Threads -> Seq(Lines)]
    BY <2>2
  <2>4. alone' \in [Threads -> BOOLEAN]
    OBVIOUS
  <2>5. user' \in [Threads -> Users \cup {None}] /\ user'[t] = u
    OBVIOUS
  <2>6. top' \in [Threads -> Nat \ {0}]
    OBVIOUS
  <2> QED
    BY <2>1, <2>3, <2>4, <2>5, <2>6
<1> QED
  BY <1>3, <1>4, <1>5, <1>6, <1>7, <1>8, <1>9, <1>10, <1>11, <1>12 DEF Step

LEMMA TypesStutter == WalkTypes /\ UNCHANGED vars => WalkTypes'
BY DEF WalkTypes, TypeOK, vars, history

LEMMA WalkTypesAlways == Spec => []WalkTypes
<1>1. ASSUME WalkTypes, [Next]_vars PROVE WalkTypes'
  BY <1>1, TypesStep, TypesStutter DEF Next
<1> QED
  BY TypesInit, <1>1, PTL DEF Spec

(* The types of the variables; a thread is in a call of handleSublist       *)
(* exactly while it walks a group.                                          *)
THEOREM WalkTypeCorrect == Spec => []TypeOK
<1>1. WalkTypes => TypeOK
  BY DEF WalkTypes
<1> QED
  BY WalkTypesAlways, <1>1, PTL

-----------------------------------------------------------------------------
(***************************************************************************)
(* What a listing shows is true.  The groups its brackets leave open are   *)
(* those of the thread's calls of handleSublist.                           *)
(***************************************************************************)
Executable(lines, u) ==
  \A i \in 1..Len(lines) : lines[i][1] = "command" => CanExecute(lines[i][2], u)

Sound(lines, open, u) ==
  Nesting(lines) = [open |-> open, ok |-> TRUE] /\ Executable(lines, u)

SoundInv ==
  WalkTypes /\ \A t \in Threads : user[t] # None => Sound(listing[t], stack[t], user[t])

LEMMA WriteOne ==
  ASSUME NEW lines \in Seq(Lines), NEW line \in Lines
  PROVE  lines \o <<line>> = Append(lines, line)
OBVIOUS

LEMMA WriteNothing ==
  ASSUME NEW lines \in Seq(Lines)
  PROVE  lines \o <<>> = lines
OBVIOUS

(* A line more.                                                             *)
LEMMA SoundLine ==
  ASSUME NEW lines \in Seq(Lines), NEW open, NEW u, Sound(lines, open, u),
         NEW line \in Lines, line[1] = "command" => CanExecute(line[2], u),
         NEW after, Place([open |-> open, ok |-> TRUE], line) = [open |-> after, ok |-> TRUE]
  PROVE  Sound(Append(lines, line), after, u)
<1> DEFINE n == Len(lines)
           more == Append(lines, line)
<1>1. /\ n \in Nat /\ Len(more) = n + 1 /\ \A i \in 1..n : more[i] = lines[i]
      /\ more[n + 1] = line
  OBVIOUS
<1>2. Nesting(more) = [open |-> after, ok |-> TRUE]
  BY NestingAppend DEF Sound
<1> HIDE DEF more
<1>3. ASSUME NEW i \in 1..(n + 1), more[i][1] = "command"
      PROVE  CanExecute(more[i][2], u)
  <2>1. CASE i \in 1..n
    BY <1>1, <1>3, <2>1 DEF Sound, Executable
  <2>2. CASE i = n + 1
    BY <1>1, <1>3, <2>2
  <2> QED
    BY <1>1, <2>1, <2>2
<1>4. Executable(more, u)
  BY <1>1, <1>3 DEF Executable
<1> QED
  BY <1>2, <1>4 DEF Sound, more

LEMMA SoundOpen ==
  ASSUME NEW lines \in Seq(Lines), NEW open \in Seq(CommandGroups), NEW u,
         Sound(lines, open, u), NEW g \in CommandGroups,
         g \in ToSet(IF open = <<>> THEN TopGroups ELSE GroupsIn[Head(open)])
  PROVE  Sound(Append(lines, Open(g)), <<g>> \o open, u)
<1>1. Open(g) \in Lines /\ Open(g)[1] = "open" /\ Open(g)[2] = g
  BY LinesFacts
<1>2. Place([open |-> open, ok |-> TRUE], Open(g)) = [open |-> <<g>> \o open, ok |-> TRUE]
  BY <1>1 DEF Place
<1> QED
  BY <1>1, <1>2, SoundLine

LEMMA SoundItem ==
  ASSUME NEW lines \in Seq(Lines), NEW open \in Seq(CommandGroups), NEW u,
         Sound(lines, open, u), NEW c \in Commands, CanExecute(c, u),
         c \in ToSet(IF open = <<>> THEN TopCommands ELSE CommandsIn[Head(open)])
  PROVE  Sound(Append(lines, Item(c)), open, u)
<1>1. Item(c) \in Lines /\ Item(c)[1] = "command" /\ Item(c)[2] = c
  BY LinesFacts
<1>2. Place([open |-> open, ok |-> TRUE], Item(c)) = [open |-> open, ok |-> TRUE]
  BY <1>1 DEF Place
<1> QED
  BY <1>1, <1>2, SoundLine

LEMMA SoundEnd ==
  ASSUME NEW lines \in Seq(Lines), NEW open \in Seq(CommandGroups), NEW u,
         Sound(lines, open, u), open # <<>>
  PROVE  Sound(Append(lines, End), Tail(open), u)
<1>1. End \in Lines /\ End[1] = "end"
  BY LinesFacts
<1>2. Place([open |-> open, ok |-> TRUE], End) = [open |-> Tail(open), ok |-> TRUE]
  BY <1>1 DEF Place
<1> QED
  BY <1>1, <1>2, SoundLine

(* The lines of the commands at the top level.                              *)
LEMMA SoundTop == \A u : Sound(Permitted(TopCommands, u), <<>>, u)
<1> TAKE u
<1> DEFINE S == {a \in Seq(Lines) : Sound(a, <<>>, u)}
<1>1. <<>> \in S
  <2>1. <<>> \in Seq(Lines) /\ Len(<<>>) = 0
    OBVIOUS
  <2>2. Executable(<<>>, u)
    BY <2>1 DEF Executable
  <2> QED
    BY <2>1, <2>2, NestingNothing DEF Sound
<1>2. ASSUME NEW a \in S, NEW i \in 1..Len(TopCommands), CanExecute(TopCommands[i], u)
      PROVE  Append(a, Item(TopCommands[i])) \in S
  <2> DEFINE c == TopCommands[i]
  <2>1. c \in Commands /\ c \in ToSet(TopCommands) /\ <<>> \in Seq(CommandGroups)
    BY CatalogueAssumption DEF ToSet
  <2> HIDE DEF c
  <2>2. Sound(Append(a, Item(c)), <<>>, u)
    BY <1>2, <2>1, SoundItem DEF c
  <2>3. Append(a, Item(c)) \in Seq(Lines)
    BY <2>1, LinesFacts
  <2> QED
    BY <2>2, <2>3 DEF c
<1>3. TopCommands \in Seq(Commands)
  BY CatalogueAssumption
<1> HIDE DEF S
<1>4. Permitted(TopCommands, u) \in S
  BY <1>1, <1>2, <1>3, PermittedIn
<1> QED
  BY <1>4 DEF S

LEMMA SoundInit == Init => SoundInv
BY TypesInit DEF SoundInv, Init

LEMMA SoundStep ==
  ASSUME SoundInv, NEW t \in Threads,
         Step(t) \/ WriteThrows(t) \/ \E u \in Users : Begin(t, u)
  PROVE  SoundInv'
<1> DEFINE Keeps == user'[t] # None => Sound(listing'[t], stack'[t], user'[t])
<1>1. WalkTypes /\ WalkTypes'
  BY TypesStep DEF SoundInv
<1>2. ASSUME NEW x \in Threads \ {t}, user'[x] # None
      PROVE  Sound(listing'[x], stack'[x], user'[x])
  BY <1>1, <1>2, OthersAlone DEF Others, SoundInv
<1> SUFFICES Keeps
  BY <1>1, <1>2 DEF SoundInv
<1>3. /\ stack[t] \in Seq(CommandGroups) /\ listing[t] \in Seq(Lines)
      /\ user[t] # None => Sound(listing[t], stack[t], user[t])
      /\ pc[t] # "idle" => user[t] \in Users
      /\ stack[t] = <<>> <=> pc[t] \in {"idle", "top"}
      /\ user \in [Threads -> Users \cup {None}] /\ listing \in [Threads -> Seq(Lines)]
      /\ stack \in [Threads -> Seq(CommandGroups)] /\ None \notin Users
      /\ top \in [Threads -> Nat \ {0}]
  BY <1>1, WalkTypesAre, CatalogueAssumption DEF SoundInv
<1>4. CASE UNCHANGED <<stack, listing, user>>
  BY <1>3, <1>4
<1>5. CASE NextTop(t)
  <2>1. pc[t] = "top" /\ user' = user
    BY <1>5 DEF NextTop, AtPlace
  <2>2. CASE top[t] <= Len(TopGroups)
    <3> DEFINE g == TopGroups[top[t]]
    <3>1. g \in CommandGroups /\ g \in ToSet(TopGroups)
      BY SMTT(30), <1>3, <2>2, CatalogueAssumption DEF ToSet
    <3>2. Enter(t, g)
      BY <1>5, <2>2 DEF NextTop
    <3> HIDE DEF g
    <3>3. stack'[t] = <<g>> \o stack[t] /\ listing'[t] = Append(listing[t], Open(g))
      BY <1>1, <3>1, <3>2, EnterTypes
    <3>4. user[t] # None /\ stack[t] = <<>>
      BY <1>3, <2>1
    <3>5. Sound(Append(listing[t], Open(g)), <<g>> \o stack[t], user[t])
      BY <1>3, <3>1, <3>4, SoundOpen
    <3> QED
      BY <2>1, <3>3, <3>5
  <2>3. CASE ~(top[t] <= Len(TopGroups))
    BY <1>4, <1>5, <2>1, <2>3 DEF NextTop
  <2> QED
    BY <2>2, <2>3
<1>6. CASE Test(t) \/ ReadEnd(t) \/ Check(t) \/ Load(t) \/ Store(t)
  BY <1>4, <1>6 DEF Test, ReadEnd, Check, Load, Store
<1>7. CASE Fetch(t)
  <2> DEFINE C == Content(Group(t), kind[t])
             j == Iterator(t) + 1
             x == C[j]
  <2>1. pc[t] = "fetch" /\ user' = user
    BY <1>7 DEF Fetch, AtPlace
  <2>2. user[t] # None /\ stack[t] # <<>> /\ Group(t) = Head(stack[t])
    BY <1>3, <2>1 DEF Group
  <2>3. CASE j \notin 1..Size(t)
    BY <1>4, <1>7, <2>1, <2>3 DEF Fetch
  <2>4. CASE j \in 1..Size(t) /\ kind[t] = "groups"
    <3>1. x \in CommandGroups /\ x \in ToSet(GroupsIn[Head(stack[t])])
      <4>1. C \in Seq(CommandGroups) /\ j \in 1..Len(C) /\ C = GroupsIn[Head(stack[t])]
        BY <1>1, <2>1, <2>2, <2>4, GroupFacts DEF Size, Content
      <4> HIDE DEF C, j
      <4>2. C[j] \in CommandGroups /\ C[j] \in ToSet(C)
        BY <4>1 DEF ToSet
      <4> QED
        BY <4>1, <4>2
    <3>2. Enter(t, x)
      BY <1>7, <2>4 DEF Fetch
    <3> HIDE DEF x
    <3>3. stack'[t] = <<x>> \o stack[t] /\ listing'[t] = Append(listing[t], Open(x))
      BY <1>1, <3>1, <3>2, EnterTypes
    <3>4. Sound(Append(listing[t], Open(x)), <<x>> \o stack[t], user[t])
      BY <1>3, <2>2, <3>1, SoundOpen
    <3> QED
      BY <2>1, <3>3, <3>4
  <2>5. CASE j \in 1..Size(t) /\ kind[t] # "groups"
    <3>1. kind[t] = "commands"
      BY <1>1, <2>5, WalkTypesAre DEF Kinds
    <3>2. x \in Commands /\ x \in ToSet(CommandsIn[Head(stack[t])])
      <4>1. C \in Seq(Commands) /\ j \in 1..Len(C) /\ C = CommandsIn[Head(stack[t])]
        BY <1>1, <2>1, <2>2, <2>5, <3>1, GroupFacts DEF Size, Content
      <4> HIDE DEF C, j
      <4>2. C[j] \in Commands /\ C[j] \in ToSet(C)
        BY <4>1 DEF ToSet
      <4> QED
        BY <4>1, <4>2
    <3>3. WriteLines(t, Permitted(<<x>>, user[t])) /\ stack' = stack
      BY <1>7, <2>5 DEF Fetch
    <3> HIDE DEF x
    <3>4. listing'[t] = listing[t] \o Permitted(<<x>>, user[t])
      BY <1>3, <3>3 DEF WriteLines
    <3>5. CASE CanExecute(x, user[t])
      <4>1. Permitted(<<x>>, user[t]) = <<Item(x)>> /\ Item(x) \in Lines
        BY <3>2, <3>5, PermittedOne, LinesFacts
      <4> HIDE DEF Item
      <4>2. listing'[t] = Append(listing[t], Item(x))
        <5>1. listing[t] \o <<Item(x)>> = Append(listing[t], Item(x))
          BY <1>3, <4>1, WriteOne
        <5> QED
          BY <3>4, <4>1, <5>1
      <4>3. Sound(Append(listing[t], Item(x)), stack[t], user[t])
        BY <1>3, <2>2, <3>2, <3>5, SoundItem
      <4> QED
        BY <2>1, <3>3, <4>2, <4>3
    <3>6. CASE ~CanExecute(x, user[t])
      <4>1. Permitted(<<x>>, user[t]) = <<>>
        BY <3>2, <3>6, PermittedOne
      <4>2. listing'[t] = listing[t]
        <5>1. listing[t] \o <<>> = listing[t]
          BY <1>3, WriteNothing
        <5> QED
          BY <3>4, <4>1, <5>1
      <4> QED
        BY <1>3, <2>1, <3>3, <4>2
    <3> QED
      BY <3>5, <3>6
  <2> QED
    BY <2>3, <2>4, <2>5
<1>8. CASE Reset(t)
  <2>1. pc[t] = "reset" /\ user' = user
    BY <1>8 DEF Reset, AtPlace
  <2>2. user[t] # None /\ stack[t] # <<>>
    BY <1>3, <2>1
  <2>3. CASE kind[t] = "commands"
    BY <1>4, <1>8, <2>1, <2>3 DEF Reset
  <2>4. CASE kind[t] # "commands"
    <3>1. WriteLines(t, <<End>>) /\ stack' = [stack EXCEPT ![t] = Tail(@)]
      BY <1>8, <2>4 DEF Reset
    <3>2. stack'[t] = Tail(stack[t]) /\ listing'[t] = listing[t] \o <<End>> /\ End \in Lines
      BY <1>3, <3>1, LinesFacts DEF WriteLines
    <3> HIDE DEF End
    <3>3. listing'[t] = Append(listing[t], End)
      BY <1>3, <3>2
    <3>4. Sound(Append(listing[t], End), Tail(stack[t]), user[t])
      BY <1>3, <2>2, SoundEnd
    <3> QED
      BY <2>1, <3>2, <3>3, <3>4
  <2> QED
    BY <2>3, <2>4
<1>9. CASE WriteThrows(t)
  BY <1>3, <1>9 DEF WriteThrows
<1>10. ASSUME NEW u \in Users, Begin(t, u) PROVE Keeps
  <2>1. stack[t] = <<>> /\ stack' = stack
    BY <1>3, <1>10 DEF Begin, AtPlace
  <2>2. user'[t] = u /\ listing'[t] = Permitted(TopCommands, u)
    BY <1>3, <1>10 DEF Begin
  <2> QED
    BY <2>1, <2>2, SoundTop
<1> QED
  BY <1>5, <1>6, <1>7, <1>8, <1>9, <1>10 DEF Step

LEMMA SoundStutter == SoundInv /\ UNCHANGED vars => SoundInv'
BY TypesStutter DEF SoundInv, vars

(* What a listing shows is true: SoundInv is inductive.                     *)
THEOREM SoundInductive == Spec => []SoundInv
<1>1. ASSUME SoundInv, [Next]_vars PROVE SoundInv'
  BY <1>1, SoundStep, SoundStutter DEF Next
<1> QED
  BY SoundInit, <1>1, PTL DEF Spec

(* Whatever the threads do to each other's iterators, what a LIST shows is  *)
(* true: brackets match, a group is inside the group it belongs to, and a   *)
(* command is inside its group and may be executed by the user.             *)
THEOREM ListingIsSound == Spec => []SoundListing
<1>1. SoundInv => SoundListing
  <2> SUFFICES ASSUME SoundInv, NEW t \in Threads, user[t] # None
               PROVE  /\ Nesting(listing[t]).ok
                      /\ pc[t] = "idle" => Nesting(listing[t]).open = <<>>
                      /\ \A i \in DOMAIN listing[t] : listing[t][i][1] = "command"
                           => CanExecute(listing[t][i][2], user[t])
    BY DEF SoundListing
  <2>1. /\ Nesting(listing[t]) = [open |-> stack[t], ok |-> TRUE]
        /\ Executable(listing[t], user[t])
    BY DEF SoundInv, Sound
  <2>2. /\ listing[t] \in Seq(Lines) /\ (stack[t] = <<>> <=> pc[t] \in {"idle", "top"})
    BY WalkTypesAre DEF SoundInv
  <2>3. DOMAIN listing[t] = 1..Len(listing[t])
    BY <2>2
  <2> QED
    BY <2>1, <2>2, <2>3 DEF Executable
<1> QED
  BY SoundInductive, <1>1, PTL

-----------------------------------------------------------------------------
(***************************************************************************)
(* A LIST that no other one overlaps is complete.                          *)
(***************************************************************************)
(* The thread is to reset this iterator yet.                                *)
Engaged(t, g, k) ==
  \E i \in 1..Len(stack[t]) : stack[t][i] = g /\ k = (IF i = 1 THEN kind[t] ELSE "groups")

(* The last to leave a group leaves its iterators at the start.             *)
AtStart ==
  ~cutOff =>
    \A g \in CommandGroups, k \in Kinds :
      (\A t \in Threads : ~Engaged(t, g, k)) => it[g][k] = -1

(* A thread's calls are for different groups, each inside the next.         *)
Height == CHOOSE height \in Heights : TRUE
Climbing ==
  \A t \in Threads : \A i, j \in 1..Len(stack[t]) :
    i < j => Height[stack[t][i]] < Height[stack[t][j]]

(* Nobody is in the way of a LIST that is alone.                            *)
Undisturbed ==
  \A t \in Threads : alone[t] /\ pc[t] # "idle" =>
    ~cutOff /\ \A x \in Threads \ {t} : pc[x] = "idle"

(* The part of a group's listing that has its first n commands or groups,   *)
(* and that of everything.                                                  *)
ListingsOf(u, gs, n) == [i \in 1..n |-> GroupListing(u)[gs[i]]]

Part(u, g, k, n) ==
  IF k = "commands"
  THEN <<Open(g)>> \o Permitted(SubSeq(CommandsIn[g], 1, n), u)
  ELSE <<Open(g)>> \o Permitted(CommandsIn[g], u) \o FlattenSeq(ListingsOf(u, GroupsIn[g], n))

TopPart(u, n) == Permitted(TopCommands, u) \o FlattenSeq(ListingsOf(u, TopGroups, n))

(* How many of the group's commands or groups have been listed.             *)
Done(t) == IF pc[t] = "fetch" THEN Iterator(t) ELSE Iterator(t) + 1

(* Where the iterator of an undisturbed thread is.                          *)
Within(t) ==
  pc[t] # "top" =>
    /\ Iterator(t) \in -1..(Size(t) - 1)
    /\ pc[t] = "flag" => (atEnd[Group(t)][kind[t]] <=> Iterator(t) >= Size(t) - 1)
    /\ pc[t] \in {"check", "load", "store"} => Iterator(t) + 1 < Size(t)
    /\ pc[t] = "store" => reg[t] = Iterator(t)
    /\ pc[t] = "fetch" => Iterator(t) >= 0
    /\ pc[t] = "reset" => Iterator(t) = Size(t) - 1

(* The listing is that of the part of the tree before the place where the   *)
(* thread is: pre has what was there before each of the thread's calls.     *)
(* The iterators of the groups around say where in them it is.              *)
Inner(t, pre, i) ==
  LET g == stack[t][i + 1]
      j == it[g]["groups"]
  IN  /\ j \in 0..(Len(GroupsIn[g]) - 1) /\ stack[t][i] = GroupsIn[g][j + 1]
      /\ pre[i] = pre[i + 1] \o Part(user[t], g, "groups", j)

Follows(t, pre) ==
  LET n == Len(stack[t]) IN
  /\ pre \in Seq(Seq(Lines)) /\ Len(pre) = n /\ top[t] <= Len(TopGroups) + 1
  /\ n = 0 => listing[t] = TopPart(user[t], top[t] - 1)
  /\ n > 0 => /\ top[t] >= 2 /\ stack[t][n] = TopGroups[top[t] - 1]
              /\ pre[n] = TopPart(user[t], top[t] - 2)
              /\ listing[t] = pre[1] \o Part(user[t], Group(t), kind[t], Done(t))
  /\ \A i \in 1..(n - 1) : Inner(t, pre, i)

OnItsWay(t) ==
  alone[t] /\ pc[t] # "idle" => Within(t) /\ \E pre : Follows(t, pre)

CompleteInv ==
  /\ WalkTypes /\ AtStart /\ Climbing /\ Undisturbed /\ CompleteListing
  /\ \A t \in Threads : OnItsWay(t)

(* The listing of a group, from those of the groups in it.                  *)
ListingFrom(f, g, u) ==
  <<Open(g)>> \o Permitted(CommandsIn[g], u)
    \o FlattenSeq([i \in DOMAIN GroupsIn[g] |-> f[GroupsIn[g][i]]]) \o <<End>>

LEMMA HeightFacts ==
  /\ Cardinality(CommandGroups) \in Nat
  /\ \A g \in CommandGroups :
       /\ Height[g] \in Nat /\ Height[g] < Cardinality(CommandGroups) + 1
       /\ GroupsIn[g] \in Seq(CommandGroups)
       /\ \A i \in 1..Len(GroupsIn[g]) :
            GroupsIn[g][i] \in CommandGroups /\ Height[GroupsIn[g][i]] < Height[g]
<1>1. Cardinality(CommandGroups) \in Nat
  BY ForestAssumption, FS_CardinalityType
<1>2. Height \in Heights
  BY ForestAssumption DEF Height
<1>3. ASSUME NEW g \in CommandGroups
      PROVE  /\ Height[g] \in Nat /\ Height[g] < Cardinality(CommandGroups) + 1
             /\ GroupsIn[g] \in Seq(CommandGroups)
             /\ \A i \in 1..Len(GroupsIn[g]) :
                  GroupsIn[g][i] \in CommandGroups /\ Height[GroupsIn[g][i]] < Height[g]
  <2>1. GroupsIn[g] \in Seq(CommandGroups)
    BY CatalogueAssumption
  <2>2. Height[g] \in 0..Cardinality(CommandGroups)
    BY <1>2 DEF Heights
  <2>3. \A i \in DOMAIN GroupsIn[g] : Height[GroupsIn[g][i]] < Height[g]
    BY <1>2 DEF Heights
  <2> QED
    BY <1>1, <2>1, <2>2, <2>3
<1> QED
  BY <1>1, <1>3

LEMMA ListingFromType ==
  ASSUME NEW u, NEW g \in CommandGroups, NEW f,
         \A i \in 1..Len(GroupsIn[g]) : f[GroupsIn[g][i]] \in Seq(Lines)
  PROVE  ListingFrom(f, g, u) \in Seq(Lines)
<1> DEFINE inner == [i \in DOMAIN GroupsIn[g] |-> f[GroupsIn[g][i]]]
<1>1. GroupsIn[g] \in Seq(CommandGroups) /\ CommandsIn[g] \in Seq(Commands)
  BY CatalogueAssumption
<1>2. inner \in Seq(Seq(Lines))
  BY <1>1
<1> HIDE DEF inner
<1>3. FlattenSeq(inner) \in Seq(Lines)
  BY <1>2, FlattenType
<1>4. Permitted(CommandsIn[g], u) \in Seq(Lines)
  BY <1>1, PermittedType
<1>5. <<Open(g)>> \in Seq(Lines) /\ <<End>> \in Seq(Lines)
  BY LinesFacts
<1> HIDE DEF Open, End
<1>6. <<Open(g)>> \o Permitted(CommandsIn[g], u) \o FlattenSeq(inner) \o <<End>> \in Seq(Lines)
  BY <1>3, <1>4, <1>5
<1> QED
  BY <1>6 DEF ListingFrom, inner

LEMMA ListingFromSame ==
  ASSUME NEW u, NEW g \in CommandGroups, NEW f, NEW h,
         \A i \in 1..Len(GroupsIn[g]) : f[GroupsIn[g][i]] = h[GroupsIn[g][i]]
  PROVE  ListingFrom(f, g, u) = ListingFrom(h, g, u)
<1>1. DOMAIN GroupsIn[g] = 1..Len(GroupsIn[g])
  BY CatalogueAssumption
<1>2. [i \in DOMAIN GroupsIn[g] |-> f[GroupsIn[g][i]]]
        = [i \in DOMAIN GroupsIn[g] |-> h[GroupsIn[g][i]]]
  BY <1>1
<1> QED
  BY <1>2 DEF ListingFrom

(* Such listings exist, since no group contains itself.                     *)
LEMMA ListingsExist ==
  ASSUME NEW u
  PROVE  \E f \in [CommandGroups -> Seq(Lines)] :
           \A g \in CommandGroups : f[g] = ListingFrom(f, g, u)
<1> DEFINE T == [CommandGroups -> Seq(Lines)]
           Upto(f, n) == \A g \in CommandGroups : Height[g] < n => f[g] = ListingFrom(f, g, u)
           S == {n \in Nat : \E f \in T : Upto(f, n)}
<1>1. 0 \in S
  <2> DEFINE f == [g \in CommandGroups |-> <<>>]
  <2>1. <<>> \in Seq(Lines)
    OBVIOUS
  <2>2. f \in T
    BY <2>1
  <2> HIDE DEF f
  <2>3. Upto(f, 0)
    BY HeightFacts
  <2> QED
    BY <2>2, <2>3
<1>2. ASSUME NEW n \in Nat, n \in S
      PROVE  n + 1 \in S
  <2>1. PICK f \in T : Upto(f, n)
    BY <1>2
  <2> DEFINE h == [g \in CommandGroups |->
                     IF Height[g] < n + 1 THEN ListingFrom(f, g, u) ELSE f[g]]
  <2>2. h \in T
    <3>1. ASSUME NEW g \in CommandGroups
          PROVE  ListingFrom(f, g, u) \in Seq(Lines)
      BY HeightFacts, ListingFromType
    <3> QED
      BY <3>1
  <2>3. \A g \in CommandGroups :
          h[g] = IF Height[g] < n + 1 THEN ListingFrom(f, g, u) ELSE f[g]
    OBVIOUS
  <2> HIDE DEF h
  <2>4. \A g \in CommandGroups : Height[g] < n => h[g] = f[g]
    BY <2>1, <2>3, HeightFacts
  <2>5. ASSUME NEW g \in CommandGroups, Height[g] < n + 1
        PROVE  h[g] = ListingFrom(h, g, u)
    <3>1. ASSUME NEW i \in 1..Len(GroupsIn[g])
          PROVE  f[GroupsIn[g][i]] = h[GroupsIn[g][i]]
      <4>1. /\ GroupsIn[g][i] \in CommandGroups /\ Height[GroupsIn[g][i]] < Height[g]
            /\ Height[GroupsIn[g][i]] \in Nat /\ Height[g] \in Nat
        BY HeightFacts
      <4>2. Height[GroupsIn[g][i]] < n
        BY <2>5, <4>1
      <4> QED
        BY <2>4, <4>1, <4>2
    <3>2. ListingFrom(f, g, u) = ListingFrom(h, g, u)
      BY <3>1, ListingFromSame
    <3> QED
      BY <2>3, <2>5, <3>2
  <2> QED
    BY <2>2, <2>5
<1> HIDE DEF S
<1>3. Nat \subseteq S
  BY <1>1, <1>2, NaturalInduction
<1>4. Cardinality(CommandGroups) + 1 \in S
  BY <1>3, HeightFacts
<1>5. PICK f \in T : Upto(f, Cardinality(CommandGroups) + 1)
  BY <1>4 DEF S
<1>6. \A g \in CommandGroups : f[g] = ListingFrom(f, g, u)
  BY <1>5, HeightFacts
<1> QED
  BY <1>5, <1>6

LEMMA GroupListingIs ==
  ASSUME NEW u
  PROVE  /\ GroupListing(u) \in [CommandGroups -> Seq(Lines)]
         /\ \A g \in CommandGroups : GroupListing(u)[g] = ListingFrom(GroupListing(u), g, u)
<1> DEFINE Below(f) == f = [g \in CommandGroups |-> ListingFrom(f, g, u)]
           below == CHOOSE f : Below(f)
<1>1. GroupListing(u) = below
  BY DEF GroupListing, ListingFrom
<1>2. PICK f \in [CommandGroups -> Seq(Lines)] :
        \A g \in CommandGroups : f[g] = ListingFrom(f, g, u)
  BY ListingsExist
<1>3. Below(f)
  BY <1>2
<1>4. Below(below)
  BY <1>3
<1> HIDE DEF below
<1>5. \A g \in CommandGroups : below[g] = ListingFrom(below, g, u)
  BY <1>4
<1> DEFINE S == {n \in Nat : \A g \in CommandGroups : Height[g] < n => below[g] \in Seq(Lines)}
<1>6. 0 \in S
  BY HeightFacts
<1>7. ASSUME NEW n \in Nat, n \in S
      PROVE  n + 1 \in S
  <2> SUFFICES ASSUME NEW g \in CommandGroups, Height[g] < n + 1
               PROVE  below[g] \in Seq(Lines)
    OBVIOUS
  <2>1. ASSUME NEW i \in 1..Len(GroupsIn[g])
        PROVE  below[GroupsIn[g][i]] \in Seq(Lines)
    <3>1. /\ GroupsIn[g][i] \in CommandGroups /\ Height[GroupsIn[g][i]] < Height[g]
          /\ Height[GroupsIn[g][i]] \in Nat /\ Height[g] \in Nat
      BY HeightFacts
    <3>2. Height[GroupsIn[g][i]] < n
      BY <3>1
    <3> QED
      BY <1>7, <3>1, <3>2
  <2>2. ListingFrom(below, g, u) \in Seq(Lines)
    BY <2>1, ListingFromType
  <2> QED
    BY <1>5, <2>2
<1> HIDE DEF S
<1>8. Nat \subseteq S
  BY <1>6, <1>7, NaturalInduction
<1>9. Cardinality(CommandGroups) + 1 \in S
  BY <1>8, HeightFacts
<1>10. \A g \in CommandGroups : below[g] \in Seq(Lines)
  BY <1>9, HeightFacts DEF S
<1>11. below \in [CommandGroups -> Seq(Lines)]
  BY <1>4, <1>10
<1> QED
  BY <1>1, <1>5, <1>11

-----------------------------------------------------------------------------
(* The parts of a listing, one command or group more at a time.             *)
LEMMA Longer ==
  ASSUME NEW S, NEW a \in Seq(S), NEW b \in Seq(S), NEW c \in Seq(S)
  PROVE  (a \o b) \o c = a \o (b \o c) /\ a \o b \in Seq(S)
<1>1. (a \o b) \o c \in Seq(S) /\ a \o (b \o c) \in Seq(S)
  OBVIOUS
<1>2. Len((a \o b) \o c) = Len(a) + Len(b) + Len(c) /\ Len(a \o (b \o c)) = Len(a) + Len(b) + Len(c)
  OBVIOUS
<1>3. \A i \in 1..(Len(a) + Len(b) + Len(c)) : ((a \o b) \o c)[i] = (a \o (b \o c))[i]
  OBVIOUS
<1> QED
  BY SMTT(30), <1>1, <1>2, <1>3

(* The beginning of a list.                                                 *)
LEMMA FirstOnes ==
  ASSUME NEW S, NEW s \in Seq(S)
  PROVE  /\ SubSeq(s, 1, 0) = <<>> /\ SubSeq(s, 1, Len(s)) = s
         /\ \A n \in 0..Len(s) : SubSeq(s, 1, n) \in Seq(S)
         /\ \A n \in 0..(Len(s) - 1) :
              s[n + 1] \in S /\ SubSeq(s, 1, n + 1) = Append(SubSeq(s, 1, n), s[n + 1])
<1>1. SubSeq(s, 1, 0) = <<>> /\ SubSeq(s, 1, Len(s)) = s
  OBVIOUS
<1>2. \A n \in 0..Len(s) : SubSeq(s, 1, n) \in Seq(S)
  OBVIOUS
<1>3. ASSUME NEW n \in 0..(Len(s) - 1)
      PROVE  s[n + 1] \in S /\ SubSeq(s, 1, n + 1) = Append(SubSeq(s, 1, n), s[n + 1])
  <2>1. n + 1 \in 1..Len(s)
    OBVIOUS
  <2>2. s[n + 1] \in S
    BY <2>1
  <2> QED
    BY <2>1, <2>2
<1> QED
  BY <1>1, <1>2, <1>3

LEMMA ListingsOfFacts ==
  ASSUME NEW u, NEW gs \in Seq(CommandGroups)
  PROVE  /\ \A n \in 0..Len(gs) : ListingsOf(u, gs, n) \in Seq(Seq(Lines))
         /\ ListingsOf(u, gs, 0) = <<>>
         /\ \A n \in 0..(Len(gs) - 1) :
              /\ GroupListing(u)[gs[n + 1]] \in Seq(Lines)
              /\ ListingsOf(u, gs, n + 1)
                   = Append(ListingsOf(u, gs, n), GroupListing(u)[gs[n + 1]])
<1>1. \A i \in 1..Len(gs) : GroupListing(u)[gs[i]] \in Seq(Lines)
  BY GroupListingIs
<1> DEFINE L == GroupListing(u)
<1> HIDE DEF L
<1>2. \A n \in 0..Len(gs) : ListingsOf(u, gs, n) \in Seq(Seq(Lines))
  BY <1>1 DEF ListingsOf, L
<1>3. ListingsOf(u, gs, 0) = <<>>
  BY DEF ListingsOf
<1>4. ASSUME NEW n \in 0..(Len(gs) - 1)
      PROVE  /\ L[gs[n + 1]] \in Seq(Lines)
             /\ ListingsOf(u, gs, n + 1) = Append(ListingsOf(u, gs, n), L[gs[n + 1]])
  <2> DEFINE a == ListingsOf(u, gs, n)
             b == ListingsOf(u, gs, n + 1)
             x == L[gs[n + 1]]
  <2>1. n + 1 \in 1..Len(gs) /\ n \in 0..Len(gs) /\ n + 1 \in 0..Len(gs) /\ n \in Nat
    OBVIOUS
  <2>2. x \in Seq(Lines)
    BY <1>1, <2>1 DEF L
  <2>3. a \in Seq(Seq(Lines)) /\ b \in Seq(Seq(Lines))
    BY <1>2, <2>1
  <2>4. Len(a) = n /\ Len(b) = n + 1 /\ b[n + 1] = x /\ \A i \in 1..n : a[i] = b[i]
    BY <2>1 DEF ListingsOf, L
  <2> HIDE DEF a, b, x
  <2>5. b = Append(a, x)
    BY <2>1, <2>2, <2>3, <2>4
  <2> QED
    BY <2>2, <2>5 DEF a, b, x
<1> QED
  BY <1>2, <1>3, <1>4 DEF L

LEMMA PartType ==
  ASSUME NEW u, NEW g \in CommandGroups, NEW k \in Kinds, NEW n \in 0..Len(Content(g, k))
  PROVE  Part(u, g, k, n) \in Seq(Lines)
<1>1. /\ CommandsIn[g] \in Seq(Commands) /\ GroupsIn[g] \in Seq(CommandGroups)
      /\ <<Open(g)>> \in Seq(Lines)
  BY CatalogueAssumption, LinesFacts
<1> HIDE DEF Open
<1>2. CASE k = "commands"
  <2>1. SubSeq(CommandsIn[g], 1, n) \in Seq(Commands)
    BY <1>1, <1>2, FirstOnes DEF Content
  <2>2. Permitted(SubSeq(CommandsIn[g], 1, n), u) \in Seq(Lines)
    BY <2>1, PermittedType
  <2> QED
    BY <1>1, <1>2, <2>2 DEF Part
<1>3. CASE k = "groups"
  <2>1. Permitted(CommandsIn[g], u) \in Seq(Lines)
    BY <1>1, PermittedType
  <2>2. ListingsOf(u, GroupsIn[g], n) \in Seq(Seq(Lines))
    BY <1>1, <1>3, ListingsOfFacts DEF Content
  <2>3. FlattenSeq(ListingsOf(u, GroupsIn[g], n)) \in Seq(Lines)
    BY <2>2, FlattenType
  <2> QED
    BY <1>1, <1>3, <2>1, <2>3 DEF Part
<1> QED
  BY <1>2, <1>3 DEF Kinds

LEMMA PartCommand ==
  ASSUME NEW u, NEW g \in CommandGroups, NEW n \in 0..(Len(CommandsIn[g]) - 1)
  PROVE  Part(u, g, "commands", n + 1)
           = Part(u, g, "commands", n) \o Permitted(<<CommandsIn[g][n + 1]>>, u)
<1> DEFINE cs == CommandsIn[g]
           x == cs[n + 1]
           a == SubSeq(cs, 1, n)
<1>1. cs \in Seq(Commands) /\ <<Open(g)>> \in Seq(Lines)
  BY CatalogueAssumption, LinesFacts
<1> HIDE DEF Open
<1>2. x \in Commands /\ a \in Seq(Commands) /\ SubSeq(cs, 1, n + 1) = Append(a, x)
  BY <1>1, FirstOnes
<1> HIDE DEF x, a
<1> DEFINE p == Permitted(a, u)
           q == Permitted(<<x>>, u)
           o == <<Open(g)>>
<1>3. Permitted(Append(a, x), u) = IF CanExecute(x, u) THEN Append(p, Item(x)) ELSE p
  BY <1>2, PermittedAppend
<1>4. q = (IF CanExecute(x, u) THEN <<Item(x)>> ELSE <<>>) /\ Item(x) \in Lines
  BY <1>2, PermittedOne, LinesFacts
<1>5. p \in Seq(Lines) /\ q \in Seq(Lines)
  <2>1. <<x>> \in Seq(Commands)
    BY <1>2
  <2> QED
    BY <1>2, <2>1, PermittedType
<1> HIDE DEF Item
<1>6. p \o q = Permitted(Append(a, x), u)
  <2> HIDE DEF p
  <2>1. p \o <<Item(x)>> = Append(p, Item(x)) /\ p \o <<>> = p
    BY <1>4, <1>5, WriteOne, WriteNothing
  <2> QED
    BY <1>3, <1>4, <2>1
<1>7. Part(u, g, "commands", n + 1) = o \o Permitted(Append(a, x), u)
  BY <1>2 DEF Part
<1>8. Part(u, g, "commands", n) = o \o p
  BY DEF Part, a
<1> HIDE DEF p, q, o
<1>9. (o \o p) \o q = o \o (p \o q)
  BY <1>1, <1>5, Longer DEF o
<1> QED
  BY <1>6, <1>7, <1>8, <1>9 DEF q, x

LEMMA PartGroup ==
  ASSUME NEW u, NEW g \in CommandGroups, NEW n \in 0..(Len(GroupsIn[g]) - 1)
  PROVE  /\ Part(u, g, "groups", n + 1)
              = Part(u, g, "groups", n) \o GroupListing(u)[GroupsIn[g][n + 1]]
         /\ GroupListing(u)[GroupsIn[g][n + 1]] \in Seq(Lines)
<1> DEFINE gs == GroupsIn[g]
           x == GroupListing(u)[gs[n + 1]]
           a == ListingsOf(u, gs, n)
           o == <<Open(g)>> \o Permitted(CommandsIn[g], u)
<1>1. gs \in Seq(CommandGroups) /\ n \in 0..Len(gs)
  BY CatalogueAssumption
<1>2. <<Open(g)>> \in Seq(Lines) /\ Permitted(CommandsIn[g], u) \in Seq(Lines)
  BY CatalogueAssumption, LinesFacts, PermittedType
<1>3. o \in Seq(Lines)
  <2> HIDE DEF Open
  <2> QED
    BY <1>2
<1>4. x \in Seq(Lines) /\ a \in Seq(Seq(Lines)) /\ ListingsOf(u, gs, n + 1) = Append(a, x)
  BY <1>1, ListingsOfFacts
<1>5. Part(u, g, "groups", n + 1) = o \o FlattenSeq(ListingsOf(u, gs, n + 1))
  BY DEF Part
<1>6. Part(u, g, "groups", n) = o \o FlattenSeq(a)
  BY DEF Part
<1> HIDE DEF x, a, o
<1> DEFINE p == FlattenSeq(a)
<1>7. FlattenSeq(Append(a, x)) = p \o x /\ p \in Seq(Lines) /\ x \in Seq(Lines)
  BY <1>4, FlattenAppend, FlattenType
<1> HIDE DEF p
<1>8. (o \o p) \o x = o \o (p \o x)
  BY SMTT(30), <1>3, <1>7, Longer
<1> QED
  BY <1>4, <1>5, <1>6, <1>7, <1>8 DEF x, p

LEMMA PartEnds ==
  ASSUME NEW u, NEW g \in CommandGroups
  PROVE  /\ Part(u, g, "commands", 0) = <<Open(g)>>
         /\ Part(u, g, "groups", 0) = Part(u, g, "commands", Len(CommandsIn[g]))
         /\ GroupListing(u)[g] = Append(Part(u, g, "groups", Len(GroupsIn[g])), End)
<1>1. /\ CommandsIn[g] \in Seq(Commands) /\ GroupsIn[g] \in Seq(CommandGroups)
      /\ <<Open(g)>> \in Seq(Lines)
  BY CatalogueAssumption, LinesFacts
<1>2. Permitted(CommandsIn[g], u) \in Seq(Lines)
  BY <1>1, PermittedType
<1> HIDE DEF Open
<1> DEFINE o == <<Open(g)>> \o Permitted(CommandsIn[g], u)
<1>3. o \in Seq(Lines)
  BY <1>1, <1>2
<1>4. Part(u, g, "commands", 0) = <<Open(g)>>
  <2>1. SubSeq(CommandsIn[g], 1, 0) = <<>>
    BY <1>1, FirstOnes
  <2>2. Part(u, g, "commands", 0) = <<Open(g)>> \o <<>>
    BY <2>1, PermittedNothing DEF Part
  <2> QED
    BY <1>1, <2>2, WriteNothing
<1>5. Part(u, g, "groups", 0) = Part(u, g, "commands", Len(CommandsIn[g]))
  <2>1. FlattenSeq(ListingsOf(u, GroupsIn[g], 0)) = <<>>
    BY <1>1, ListingsOfFacts, FlattenNothing
  <2>2. Part(u, g, "groups", 0) = o \o <<>>
    BY <2>1 DEF Part
  <2>3. SubSeq(CommandsIn[g], 1, Len(CommandsIn[g])) = CommandsIn[g]
    BY <1>1, FirstOnes
  <2>4. Part(u, g, "commands", Len(CommandsIn[g])) = o
    BY <2>3 DEF Part
  <2> HIDE DEF o
  <2> QED
    BY <1>3, <2>2, <2>4, WriteNothing
<1>6. GroupListing(u)[g] = Append(Part(u, g, "groups", Len(GroupsIn[g])), End)
  <2>1. [i \in DOMAIN GroupsIn[g] |-> GroupListing(u)[GroupsIn[g][i]]]
          = ListingsOf(u, GroupsIn[g], Len(GroupsIn[g]))
    BY <1>1 DEF ListingsOf
  <2>2. GroupListing(u)[g] = ListingFrom(GroupListing(u), g, u)
    BY GroupListingIs
  <2>3. GroupListing(u)[g] = Part(u, g, "groups", Len(GroupsIn[g])) \o <<End>>
    BY <2>1, <2>2 DEF ListingFrom, Part
  <2>4. Part(u, g, "groups", Len(GroupsIn[g])) \in Seq(Lines) /\ End \in Lines
    <3>1. "groups" \in Kinds /\ Len(GroupsIn[g]) \in 0..Len(Content(g, "groups"))
      BY <1>1 DEF Kinds, Content
    <3> QED
      BY <3>1, PartType, LinesFacts
  <2> QED
    BY <2>3, <2>4, WriteOne
<1> QED
  BY <1>4, <1>5, <1>6

LEMMA TopPartFacts ==
  ASSUME NEW u
  PROVE  /\ TopPart(u, 0) = Permitted(TopCommands, u)
         /\ \A n \in 0..Len(TopGroups) : TopPart(u, n) \in Seq(Lines)
         /\ \A n \in 0..(Len(TopGroups) - 1) :
              TopPart(u, n + 1) = TopPart(u, n) \o GroupListing(u)[TopGroups[n + 1]]
         /\ FullListing(u) = TopPart(u, Len(TopGroups))
<1> DEFINE o == Permitted(TopCommands, u)
           gs == TopGroups
<1>1. gs \in Seq(CommandGroups) /\ o \in Seq(Lines)
  BY CatalogueAssumption, PermittedType
<1>2. TopPart(u, 0) = o
  <2>1. FlattenSeq(ListingsOf(u, gs, 0)) = <<>>
    BY <1>1, ListingsOfFacts, FlattenNothing
  <2>2. TopPart(u, 0) = o \o <<>>
    BY <2>1 DEF TopPart
  <2> HIDE DEF o
  <2> QED
    BY <1>1, <2>2, WriteNothing
<1>3. ASSUME NEW n \in 0..Len(gs)
      PROVE  TopPart(u, n) \in Seq(Lines) /\ FlattenSeq(ListingsOf(u, gs, n)) \in Seq(Lines)
  <2>1. FlattenSeq(ListingsOf(u, gs, n)) \in Seq(Lines)
    BY <1>1, ListingsOfFacts, FlattenType
  <2> QED
    BY <1>1, <2>1 DEF TopPart
<1>4. ASSUME NEW n \in 0..(Len(gs) - 1)
      PROVE  TopPart(u, n + 1) = TopPart(u, n) \o GroupListing(u)[gs[n + 1]]
  <2> DEFINE x == GroupListing(u)[gs[n + 1]]
             a == ListingsOf(u, gs, n)
  <2>1. n \in 0..Len(gs)
    BY <1>1
  <2>2. x \in Seq(Lines) /\ a \in Seq(Seq(Lines)) /\ ListingsOf(u, gs, n + 1) = Append(a, x)
    BY <1>1, <2>1, ListingsOfFacts
  <2>3. TopPart(u, n + 1) = o \o FlattenSeq(ListingsOf(u, gs, n + 1))
    BY DEF TopPart
  <2>4. TopPart(u, n) = o \o FlattenSeq(a)
    BY DEF TopPart
  <2>5. o \in Seq(Lines)
    BY <1>1
  <2> HIDE DEF x, a, o
  <2> DEFINE p == FlattenSeq(a)
  <2>6. FlattenSeq(Append(a, x)) = p \o x /\ p \in Seq(Lines) /\ x \in Seq(Lines)
    BY <2>2, FlattenAppend, FlattenType
  <2> HIDE DEF p
  <2>7. (o \o p) \o x = o \o (p \o x)
    BY SMTT(30), <2>5, <2>6, Longer
  <2> QED
    BY <2>2, <2>3, <2>4, <2>6, <2>7 DEF x, p
<1>5. FullListing(u) = TopPart(u, Len(gs))
  <2>1. [i \in DOMAIN TopGroups |-> GroupListing(u)[TopGroups[i]]]
          = ListingsOf(u, TopGroups, Len(TopGroups))
    BY <1>1 DEF ListingsOf
  <2> QED
    BY <2>1 DEF FullListing, TopPart
<1> QED
  BY <1>2, <1>3, <1>4, <1>5

-----------------------------------------------------------------------------
(***************************************************************************)
(* The stack of calls.                                                     *)
(***************************************************************************)
LEMMA Pushed ==
  ASSUME NEW S, NEW s \in Seq(S), NEW x \in S
  PROVE  /\ <<x>> \o s \in Seq(S) /\ Len(<<x>> \o s) = Len(s) + 1
         /\ (<<x>> \o s)[1] = x /\ Head(<<x>> \o s) = x
         /\ \A i \in 1..Len(s) : (<<x>> \o s)[i + 1] = s[i]
         /\ \A i \in 2..(Len(s) + 1) : i - 1 \in 1..Len(s) /\ (<<x>> \o s)[i] = s[i - 1]
<1> DEFINE q == <<x>> \o s
<1>1. q \in Seq(S) /\ Len(q) = Len(s) + 1 /\ q[1] = x
  OBVIOUS
<1>2. \A i \in 1..Len(s) : q[i + 1] = s[i]
  OBVIOUS
<1>3. \A i \in 2..(Len(s) + 1) : i - 1 \in 1..Len(s) /\ q[i] = s[i - 1]
  OBVIOUS
<1> HIDE DEF q
<1>4. Head(q) = x
  BY <1>1
<1> QED
  BY <1>1, <1>2, <1>3, <1>4 DEF q

LEMMA Popped ==
  ASSUME NEW S, NEW s \in Seq(S), s # <<>>
  PROVE  /\ Tail(s) \in Seq(S) /\ Len(Tail(s)) = Len(s) - 1 /\ Len(s) \in Nat \ {0}
         /\ Head(s) = s[1] /\ 1 \in 1..Len(s) /\ s[1] \in S
         /\ \A i \in 1..(Len(s) - 1) : i + 1 \in 1..Len(s) /\ Tail(s)[i] = s[i + 1]
         /\ Len(s) > 1 => Head(Tail(s)) = s[2]
<1> DEFINE q == Tail(s)
<1>1. q \in Seq(S) /\ Len(q) = Len(s) - 1 /\ Len(s) \in Nat \ {0}
  OBVIOUS
<1>2. 1 \in 1..Len(s)
  BY <1>1
<1>3. Head(s) = s[1] /\ s[1] \in S
  BY <1>2
<1>4. \A i \in 1..(Len(s) - 1) : i + 1 \in 1..Len(s) /\ q[i] = s[i + 1]
  OBVIOUS
<1>5. ASSUME Len(s) > 1 PROVE Head(q) = s[2]
  <2>1. 1 \in 1..(Len(s) - 1)
    BY <1>1, <1>5
  <2>2. q[1] = s[2]
    BY <1>4, <2>1
  <2> HIDE DEF q
  <2> QED
    BY <1>1, <1>5, <2>2
<1> QED
  BY <1>1, <1>2, <1>3, <1>4, <1>5

-----------------------------------------------------------------------------
(***************************************************************************)
(* The last to leave a group leaves its iterators at the start.            *)
(***************************************************************************)
EngagedIn(s, K, g, k) ==
  \E i \in 1..Len(s) : s[i] = g /\ k = (IF i = 1 THEN K ELSE "groups")

LEMMA EngagedIs ==
  \A t, g, k : Engaged(t, g, k) <=> EngagedIn(stack[t], kind[t], g, k)
BY DEF Engaged, EngagedIn

LEMMA EngagedOnEntry ==
  ASSUME NEW s \in Seq(CommandGroups), NEW x \in CommandGroups, NEW K,
         s = <<>> \/ K = "groups", NEW g, NEW k, EngagedIn(s, K, g, k)
  PROVE  EngagedIn(<<x>> \o s, "commands", g, k)
<1>1. PICK i \in 1..Len(s) : s[i] = g /\ k = (IF i = 1 THEN K ELSE "groups")
  BY DEF EngagedIn
<1>2. K = "groups" /\ k = "groups"
  <2>1. s # <<>>
    BY <1>1
  <2> QED
    BY <1>1, <2>1
<1> DEFINE q == <<x>> \o s
<1>3. Len(q) = Len(s) + 1 /\ q[i + 1] = s[i]
  BY Pushed
<1> HIDE DEF q
<1>4. i + 1 \in 1..Len(q) /\ i + 1 # 1 /\ q[i + 1] = g
  BY <1>1, <1>3
<1>5. k = (IF i + 1 = 1 THEN "commands" ELSE "groups")
  BY <1>2, <1>4
<1>6. \E j \in 1..Len(q) : q[j] = g /\ k = (IF j = 1 THEN "commands" ELSE "groups")
  BY <1>4, <1>5
<1> QED
  BY <1>6 DEF EngagedIn, q

LEMMA EngagedOnReturn ==
  ASSUME NEW s \in Seq(CommandGroups), s # <<>>, NEW g, NEW k,
         EngagedIn(s, "groups", g, k), ~EngagedIn(Tail(s), "groups", g, k)
  PROVE  g = Head(s) /\ k = "groups"
<1>1. PICK i \in 1..Len(s) : s[i] = g /\ k = "groups"
  BY DEF EngagedIn
<1>2. Len(Tail(s)) = Len(s) - 1 /\ Len(s) \in Nat \ {0} /\ Head(s) = s[1]
  BY Popped
<1>3. ASSUME i # 1 PROVE FALSE
  <2>1. i - 1 \in 1..(Len(s) - 1)
    BY <1>2, <1>3
  <2>2. Tail(s)[i - 1] = g
    <3>1. \A j \in 1..(Len(s) - 1) : Tail(s)[j] = s[j + 1]
      BY Popped
    <3> QED
      BY <1>1, <2>1, <3>1
  <2> DEFINE q == Tail(s)
  <2>3. i - 1 \in 1..Len(q) /\ q[i - 1] = g
    BY <1>2, <2>1, <2>2
  <2> HIDE DEF q
  <2>4. \E j \in 1..Len(q) : q[j] = g /\ k = (IF j = 1 THEN "groups" ELSE "groups")
    BY <1>1, <2>3
  <2> QED
    BY <2>4 DEF EngagedIn, q
<1> QED
  BY <1>1, <1>2, <1>3

LEMMA EngagedInGroups ==
  ASSUME NEW s \in Seq(CommandGroups), s # <<>>, NEW g, NEW k,
         EngagedIn(s, "commands", g, k), ~EngagedIn(s, "groups", g, k)
  PROVE  g = Head(s) /\ k = "commands"
<1>1. Head(s) = s[1]
  BY Popped
<1> QED
  BY <1>1 DEF EngagedIn

(* A step changes an iterator only of a group the thread is engaged in, and *)
(* one that it is engaged in no more is at the start.                       *)
Leaves(t, g, k) ==
  /\ it'[g][k] # it[g][k] => Engaged(t, g, k)
  /\ Engaged(t, g, k) /\ ~Engaged(t, g, k)' => cutOff' \/ it'[g][k] = -1

LEMMA EngagedSame ==
  ASSUME NEW t, NEW g, NEW k, stack'[t] = stack[t], kind'[t] = kind[t]
  PROVE  Engaged(t, g, k)' <=> Engaged(t, g, k)
BY DEF Engaged

LEMMA EngagedHere ==
  ASSUME WalkTypes, NEW t \in Threads, stack[t] # <<>>
  PROVE  Engaged(t, Group(t), kind[t])
<1>1. stack[t] \in Seq(CommandGroups)
  BY WalkTypesAre
<1>2. 1 \in 1..Len(stack[t]) /\ stack[t][1] = Group(t)
  BY <1>1, Popped DEF Group
<1> QED
  BY <1>2 DEF Engaged

LEMMA LeavesStep ==
  ASSUME WalkTypes, NEW t \in Threads,
         Step(t) \/ WriteThrows(t) \/ \E u \in Users : Begin(t, u),
         NEW g \in CommandGroups, NEW k \in Kinds
  PROVE  Leaves(t, g, k)
<1>1. /\ stack \in [Threads -> Seq(CommandGroups)] /\ kind \in [Threads -> Kinds]
      /\ stack[t] = <<>> <=> pc[t] \in {"idle", "top"}
      /\ stack[t] \in Seq(CommandGroups)
  BY WalkTypesAre
<1>2. CASE UNCHANGED <<stack, kind, it>>
  BY <1>2, EngagedSame DEF Leaves
<1>3. ASSUME NEW x \in CommandGroups, Enter(t, x), it' = it, stack[t] = <<>> \/ kind[t] = "groups"
      PROVE  Leaves(t, g, k)
  <2>1. stack'[t] = <<x>> \o stack[t] /\ kind'[t] = "commands"
    BY <1>3, EnterTypes
  <2>2. EngagedIn(stack[t], kind[t], g, k) => EngagedIn(stack'[t], kind'[t], g, k)
    BY <1>1, <1>3, <2>1, EngagedOnEntry
  <2> QED
    BY <1>3, <2>2 DEF Leaves, Engaged, EngagedIn
<1>4. CASE NextTop(t)
  <2>1. pc[t] = "top" /\ it' = it /\ stack[t] = <<>>
    BY <1>1, <1>4 DEF NextTop, AtPlace
  <2>2. CASE top[t] <= Len(TopGroups)
    <3>1. TopGroups[top[t]] \in CommandGroups
      BY <2>2, CatalogueAssumption, WalkTypesAre
    <3>2. Enter(t, TopGroups[top[t]])
      BY <1>4, <2>2 DEF NextTop
    <3> QED
      BY <1>3, <2>1, <3>1, <3>2
  <2>3. CASE ~(top[t] <= Len(TopGroups))
    BY <1>2, <1>4, <2>1, <2>3 DEF NextTop
  <2> QED
    BY <2>2, <2>3
<1>5. CASE Test(t) \/ ReadEnd(t) \/ Check(t) \/ Load(t)
  BY <1>2, <1>5 DEF Test, ReadEnd, Check, Load
<1>6. CASE Store(t)
  <2>1. pc[t] \notin {"idle", "top"} /\ reg[t] + 1 \in Int
    BY <1>6, WalkTypesAre DEF Store, AtPlace
  <2>2. SetIterator(t, reg[t] + 1) /\ UNCHANGED <<stack, kind>>
    BY <1>6 DEF Store
  <2>3. g # Group(t) \/ k # kind[t] => it'[g][k] = it[g][k]
    BY <2>1, <2>2, SetTypes
  <2>4. Engaged(t, Group(t), kind[t])
    BY <1>1, <2>1, EngagedHere
  <2> QED
    BY <2>2, <2>3, <2>4, EngagedSame DEF Leaves
<1>7. CASE Fetch(t)
  <2> DEFINE X == Content(Group(t), kind[t])[Iterator(t) + 1]
  <2>1. pc[t] = "fetch" /\ it' = it
    BY <1>7 DEF Fetch, AtPlace
  <2>2. CASE Iterator(t) + 1 \in 1..Size(t) /\ kind[t] = "groups"
    <3>1. X \in CommandGroups
      <4> DEFINE C == Content(Group(t), kind[t])
                 j == Iterator(t) + 1
      <4>1. C \in Seq(CommandGroups) /\ j \in 1..Len(C)
        BY <2>1, <2>2, GroupFacts DEF Size
      <4> HIDE DEF C, j
      <4>2. C[j] \in CommandGroups
        BY <4>1
      <4> QED
        BY <4>2 DEF C, j
    <3>2. Enter(t, X)
      BY <1>7, <2>2 DEF Fetch
    <3> HIDE DEF X
    <3> QED
      BY <1>3, <2>1, <2>2, <3>1, <3>2
  <2>3. CASE ~(Iterator(t) + 1 \in 1..Size(t) /\ kind[t] = "groups")
    BY <1>2, <1>7, <2>1, <2>3 DEF Fetch
  <2> QED
    BY <2>2, <2>3
<1>8. CASE Reset(t)
  <2>1. pc[t] \notin {"idle", "top"} /\ SetIterator(t, -1) /\ -1 \in Int
    BY <1>8 DEF Reset, AtPlace
  <2>2. stack[t] # <<>>
    BY <1>1, <2>1
  <2>3. /\ it'[Group(t)][kind[t]] = -1
        /\ g # Group(t) \/ k # kind[t] => it'[g][k] = it[g][k]
    BY <2>1, SetTypes
  <2>4. Engaged(t, Group(t), kind[t])
    BY <2>2, EngagedHere
  <2>5. Engaged(t, g, k) /\ ~Engaged(t, g, k)' => g = Group(t) /\ k = kind[t]
    <3> SUFFICES ASSUME EngagedIn(stack[t], kind[t], g, k), ~EngagedIn(stack'[t], kind'[t], g, k)
                 PROVE  g = Group(t) /\ k = kind[t]
      BY DEF Engaged, EngagedIn
    <3>1. CASE kind[t] = "commands"
      <4>1. stack'[t] = stack[t] /\ kind'[t] = "groups"
        BY <1>1, <1>8, <3>1 DEF Reset
      <4> QED
        BY <1>1, <2>2, <3>1, <4>1, EngagedInGroups DEF Group
    <3>2. CASE kind[t] # "commands"
      <4>1. stack'[t] = Tail(stack[t]) /\ kind'[t] = kind[t]
        BY <1>1, <1>8, <3>2 DEF Reset
      <4>2. kind[t] = "groups"
        BY <1>1, <3>2 DEF Kinds
      <4> QED
        BY <1>1, <2>2, <4>1, <4>2, EngagedOnReturn DEF Group
    <3> QED
      BY <3>1, <3>2
  <2> QED
    BY <2>3, <2>4, <2>5 DEF Leaves
<1>9. CASE WriteThrows(t)
  <2>1. it' = it /\ cutOff' = (cutOff \/ stack[t] # <<>>)
    BY <1>9 DEF WriteThrows
  <2>2. stack[t] = <<>> => ~Engaged(t, g, k)
    BY DEF Engaged
  <2> QED
    BY <2>1, <2>2 DEF Leaves
<1>10. ASSUME NEW u \in Users, Begin(t, u) PROVE Leaves(t, g, k)
  BY <1>2, <1>10 DEF Begin
<1> QED
  BY <1>4, <1>5, <1>6, <1>7, <1>8, <1>9, <1>10 DEF Step

LEMMA AtStartStep ==
  ASSUME WalkTypes, AtStart, NEW t \in Threads,
         Step(t) \/ WriteThrows(t) \/ \E u \in Users : Begin(t, u)
  PROVE  AtStart'
<1> SUFFICES ASSUME ~cutOff', NEW g \in CommandGroups, NEW k \in Kinds,
                    \A x \in Threads : ~Engaged(x, g, k)'
             PROVE  it'[g][k] = -1
  BY DEF AtStart
<1>1. Leaves(t, g, k)
  BY LeavesStep
<1>2. \A x \in Threads \ {t} : ~Engaged(x, g, k)
  <2>1. Others(t)
    BY OthersAlone
  <2> QED
    BY <2>1, EngagedSame DEF Others
<1>3. ~cutOff
  BY DEF Step, NextTop, Test, ReadEnd, Check, Load, Store, Fetch, Reset, WriteThrows, Begin, history
<1>4. CASE Engaged(t, g, k)
  BY <1>1, <1>4 DEF Leaves
<1>5. CASE ~Engaged(t, g, k)
  <2>1. it[g][k] = -1
    BY <1>2, <1>3, <1>5 DEF AtStart
  <2> QED
    BY <1>1, <1>5, <2>1 DEF Leaves
<1> QED
  BY <1>4, <1>5

-----------------------------------------------------------------------------
(***************************************************************************)
(* The calls of a thread are for different groups.                         *)
(***************************************************************************)
ClimbingIn(s) == \A i, j \in 1..Len(s) : i < j => Height[s[i]] < Height[s[j]]

LEMMA ClimbingIs == Climbing <=> \A t \in Threads : ClimbingIn(stack[t])
BY DEF Climbing, ClimbingIn

LEMMA ClimbingOnEntry ==
  ASSUME NEW s \in Seq(CommandGroups), ClimbingIn(s), NEW x \in CommandGroups,
         s # <<>> => Height[x] < Height[Head(s)]
  PROVE  ClimbingIn(<<x>> \o s)
<1> DEFINE q == <<x>> \o s
           n == Len(s)
<1>1. /\ Len(q) = n + 1 /\ n \in Nat /\ q[1] = x
      /\ \A i \in 2..(n + 1) : i - 1 \in 1..n /\ q[i] = s[i - 1]
  BY Pushed
<1> HIDE DEF q
<1>2. \A i \in 1..n : Height[s[i]] \in Nat
  BY HeightFacts
<1>3. Height[x] \in Nat
  BY HeightFacts
<1>4. \A i \in 1..n : Height[x] < Height[s[i]]
  <2> SUFFICES ASSUME NEW i \in 1..n PROVE Height[x] < Height[s[i]]
    OBVIOUS
  <2>1. s # <<>>
    OBVIOUS
  <2>2. Head(s) = s[1] /\ 1 \in 1..n
    BY <2>1, Popped
  <2>3. i = 1 \/ Height[s[1]] < Height[s[i]]
    BY <2>2 DEF ClimbingIn
  <2> HIDE DEF n
  <2> QED
    BY <1>2, <1>3, <2>1, <2>2, <2>3
<1> SUFFICES ASSUME NEW i \in 1..(n + 1), NEW j \in 1..(n + 1), i < j
             PROVE  Height[q[i]] < Height[q[j]]
  BY <1>1 DEF ClimbingIn, q
<1>5. j \in 2..(n + 1)
  BY <1>1
<1>6. j - 1 \in 1..n /\ q[j] = s[j - 1]
  BY <1>1, <1>5
<1>7. CASE i = 1
  BY <1>1, <1>4, <1>6, <1>7
<1>8. CASE i # 1
  <2>1. i \in 2..(n + 1)
    BY <1>1, <1>8
  <2>2. i - 1 \in 1..n /\ q[i] = s[i - 1]
    BY <1>1, <2>1
  <2>3. Height[s[i - 1]] < Height[s[j - 1]]
    BY <1>6, <2>2 DEF ClimbingIn
  <2> QED
    BY <1>6, <2>2, <2>3
<1> QED
  BY <1>7, <1>8

LEMMA ClimbingOnReturn ==
  ASSUME NEW s \in Seq(CommandGroups), s # <<>>, ClimbingIn(s)
  PROVE  ClimbingIn(Tail(s))
<1> DEFINE q == Tail(s)
<1>1. /\ Len(q) = Len(s) - 1 /\ Len(s) \in Nat
      /\ \A i \in 1..(Len(s) - 1) : i + 1 \in 1..Len(s) /\ q[i] = s[i + 1]
  BY Popped
<1> HIDE DEF q
<1> SUFFICES ASSUME NEW i \in 1..(Len(s) - 1), NEW j \in 1..(Len(s) - 1), i < j
             PROVE  Height[q[i]] < Height[q[j]]
  BY <1>1 DEF ClimbingIn, q
<1>2. Height[s[i + 1]] < Height[s[j + 1]]
  BY <1>1 DEF ClimbingIn
<1> QED
  BY <1>1, <1>2

LEMMA ClimbingNowhere == ClimbingIn(<<>>)
BY DEF ClimbingIn

(* The groups around the innermost one are others.                          *)
LEMMA ClimbingDistinct ==
  ASSUME NEW s \in Seq(CommandGroups), ClimbingIn(s)
  PROVE  \A i \in 2..Len(s) : s[i] # s[1]
<1> SUFFICES ASSUME NEW i \in 2..Len(s), s[i] = s[1] PROVE FALSE
  OBVIOUS
<1>1. 1 \in 1..Len(s) /\ i \in 1..Len(s) /\ 1 < i
  OBVIOUS
<1>2. Height[s[1]] < Height[s[i]]
  BY <1>1 DEF ClimbingIn
<1>3. s[1] \in CommandGroups
  BY <1>1
<1>4. Height[s[1]] \in Nat
  BY <1>3, HeightFacts
<1> QED
  BY <1>2, <1>4

(* What a step does to the stack of its thread.                             *)
LEMMA StackSteps ==
  ASSUME WalkTypes, NEW t \in Threads,
         Step(t) \/ WriteThrows(t) \/ \E u \in Users : Begin(t, u)
  PROVE  \/ stack'[t] \in {stack[t], <<>>}
         \/ stack[t] # <<>> /\ stack'[t] = Tail(stack[t])
         \/ \E x \in CommandGroups :
              /\ stack'[t] = <<x>> \o stack[t]
              /\ stack[t] # <<>> => x \in ToSet(GroupsIn[Head(stack[t])])
<1>1. /\ stack \in [Threads -> Seq(CommandGroups)] /\ kind \in [Threads -> Kinds]
      /\ stack[t] = <<>> <=> pc[t] \in {"idle", "top"}
      /\ stack[t] \in Seq(CommandGroups)
  BY WalkTypesAre
<1>2. CASE NextTop(t)
  <2>1. stack[t] = <<>>
    BY <1>1, <1>2 DEF NextTop, AtPlace
  <2>2. CASE top[t] <= Len(TopGroups)
    <3>1. TopGroups[top[t]] \in CommandGroups
      BY <2>2, CatalogueAssumption, WalkTypesAre
    <3>2. Enter(t, TopGroups[top[t]])
      BY <1>2, <2>2 DEF NextTop
    <3>3. stack'[t] = <<TopGroups[top[t]]>> \o stack[t]
      BY <3>1, <3>2, EnterTypes
    <3> QED
      BY <2>1, <3>1, <3>3
  <2>3. CASE ~(top[t] <= Len(TopGroups))
    BY <1>2, <2>3 DEF NextTop
  <2> QED
    BY <2>2, <2>3
<1>3. CASE Test(t) \/ ReadEnd(t) \/ Check(t) \/ Load(t) \/ Store(t)
  BY <1>3 DEF Test, ReadEnd, Check, Load, Store
<1>4. CASE Fetch(t)
  <2> DEFINE X == Content(Group(t), kind[t])[Iterator(t) + 1]
  <2>1. pc[t] = "fetch"
    BY <1>4 DEF Fetch, AtPlace
  <2>2. CASE Iterator(t) + 1 \in 1..Size(t) /\ kind[t] = "groups"
    <3>1. X \in CommandGroups /\ X \in ToSet(GroupsIn[Head(stack[t])])
      <4> DEFINE C == Content(Group(t), kind[t])
                 j == Iterator(t) + 1
      <4>1. C \in Seq(CommandGroups) /\ j \in 1..Len(C) /\ C = GroupsIn[Head(stack[t])]
        BY <2>1, <2>2, GroupFacts DEF Size, Content, Group
      <4> HIDE DEF C, j
      <4>2. C[j] \in CommandGroups /\ C[j] \in ToSet(C)
        BY <4>1 DEF ToSet
      <4> QED
        BY <4>1, <4>2 DEF C, j
    <3>2. Enter(t, X)
      BY <1>4, <2>2 DEF Fetch
    <3> HIDE DEF X
    <3>3. stack'[t] = <<X>> \o stack[t]
      BY <3>1, <3>2, EnterTypes
    <3> QED
      BY <3>1, <3>3
  <2>3. CASE ~(Iterator(t) + 1 \in 1..Size(t) /\ kind[t] = "groups")
    BY <1>4, <2>3 DEF Fetch
  <2> QED
    BY <2>2, <2>3
<1>5. CASE Reset(t)
  <2>1. stack[t] # <<>>
    BY <1>1, <1>5 DEF Reset, AtPlace
  <2> QED
    BY <1>1, <1>5, <2>1 DEF Reset
<1>6. CASE WriteThrows(t)
  BY <1>1, <1>6 DEF WriteThrows
<1>7. ASSUME NEW u \in Users, Begin(t, u) PROVE stack' = stack
  BY <1>7 DEF Begin
<1> QED
  BY <1>2, <1>3, <1>4, <1>5, <1>6, <1>7 DEF Step

LEMMA ClimbingStep ==
  ASSUME WalkTypes, Climbing, NEW t \in Threads,
         Step(t) \/ WriteThrows(t) \/ \E u \in Users : Begin(t, u)
  PROVE  Climbing'
<1>1. stack[t] \in Seq(CommandGroups) /\ ClimbingIn(stack[t])
  BY WalkTypesAre, ClimbingIs
<1>2. \A x \in Threads \ {t} : stack'[x] = stack[x]
  BY OthersAlone DEF Others
<1>3. ASSUME NEW x \in CommandGroups, stack'[t] = <<x>> \o stack[t],
             stack[t] # <<>> => x \in ToSet(GroupsIn[Head(stack[t])])
      PROVE  ClimbingIn(stack'[t])
  <2>1. ASSUME stack[t] # <<>> PROVE Height[x] < Height[Head(stack[t])]
    <3>1. Head(stack[t]) \in CommandGroups
      BY <1>1, <2>1
    <3>2. DOMAIN GroupsIn[Head(stack[t])] = 1..Len(GroupsIn[Head(stack[t])])
      BY <3>1, HeightFacts
    <3> QED
      BY <1>3, <2>1, <3>1, <3>2, HeightFacts DEF ToSet
  <2> QED
    BY <1>1, <1>3, <2>1, ClimbingOnEntry
<1>4. ClimbingIn(stack'[t])
  BY <1>1, <1>3, StackSteps, ClimbingOnReturn, ClimbingNowhere
<1>5. \A x \in Threads : ClimbingIn(stack'[x])
  BY <1>2, <1>4, ClimbingIs
<1> QED
  BY <1>5 DEF Climbing, ClimbingIn

(* Nobody is in the way.                                                    *)
LEMMA UndisturbedStep ==
  ASSUME WalkTypes, Undisturbed, NEW t \in Threads,
         Step(t) \/ WriteThrows(t) \/ \E u \in Users : Begin(t, u)
  PROVE  Undisturbed'
<1> SUFFICES ASSUME NEW z \in Threads, alone'[z], pc'[z] # "idle"
             PROVE  ~cutOff' /\ \A x \in Threads \ {z} : pc'[x] = "idle"
  BY DEF Undisturbed
<1>1. pc \in [Threads -> Places] /\ alone \in [Threads -> BOOLEAN]
  BY WalkTypesAre
<1>2. \A x \in Threads \ {t} : pc'[x] = pc[x]
  BY OthersAlone DEF Others
<1>3. CASE Step(t)
  <2>1. pc[t] # "idle" /\ alone' = alone /\ cutOff' = cutOff
    BY <1>3 DEF Step, NextTop, Test, ReadEnd, Check, Load, Store, Fetch, Reset, AtPlace, history
  <2>2. z = t
    BY <1>2, <2>1 DEF Undisturbed
  <2> QED
    BY <1>2, <2>1, <2>2 DEF Undisturbed
<1>4. CASE WriteThrows(t)
  <2>1. pc[t] # "idle" /\ pc'[t] = "idle" /\ alone' = alone
    BY <1>1, <1>4 DEF WriteThrows, Goto
  <2> QED
    BY <1>2, <2>1 DEF Undisturbed
<1>5. ASSUME NEW u \in Users, Begin(t, u)
      PROVE  ~cutOff' /\ \A x \in Threads \ {z} : pc'[x] = "idle"
  <2>1. /\ cutOff' = cutOff
        /\ alone'[t] => ~cutOff /\ \A y \in Threads : pc[y] = "idle"
        /\ \A x \in Threads \ {t} : alone'[x] => pc[x] = "idle"
    BY <1>5 DEF Begin
  <2>2. z = t
    BY <1>2, <2>1
  <2> QED
    BY <1>2, <2>1, <2>2
<1> QED
  BY <1>3, <1>4, <1>5

-----------------------------------------------------------------------------
(***************************************************************************)
(* An undisturbed thread on its way.                                       *)
(***************************************************************************)
Steady(t, pre) ==
  /\ WalkTypes /\ ClimbingIn(stack[t]) /\ pc[t] # "idle" /\ Within(t) /\ Follows(t, pre)
  /\ \A g \in CommandGroups, k \in Kinds : ~Engaged(t, g, k) => it[g][k] = -1

LEMMA SteadyFacts ==
  ASSUME NEW t \in Threads, NEW pre, Steady(t, pre)
  PROVE  /\ stack[t] \in Seq(CommandGroups) /\ Len(stack[t]) \in Nat
         /\ listing[t] \in Seq(Lines) /\ kind[t] \in Kinds /\ user[t] \in Users
         /\ top[t] \in Nat \ {0} /\ pre \in Seq(Seq(Lines)) /\ Len(pre) = Len(stack[t])
         /\ top[t] <= Len(TopGroups) + 1 /\ Len(TopGroups) \in Nat
         /\ it \in [CommandGroups -> [Kinds -> Int]]
         /\ stack[t] = <<>> <=> pc[t] = "top"
         /\ stack[t] = <<>> <=> Len(stack[t]) = 0
         /\ \A i \in 2..Len(stack[t]) : stack[t][i] # stack[t][1]
         /\ \A i \in 1..Len(stack[t]) :
              /\ stack[t][i] \in CommandGroups /\ pre[i] \in Seq(Lines)
              /\ GroupsIn[stack[t][i]] \in Seq(CommandGroups)
              /\ CommandsIn[stack[t][i]] \in Seq(Commands)
<1>1. /\ stack[t] \in Seq(CommandGroups) /\ listing[t] \in Seq(Lines) /\ kind[t] \in Kinds
      /\ user[t] \in Users /\ top[t] \in Nat \ {0} /\ it \in [CommandGroups -> [Kinds -> Int]]
      /\ stack[t] = <<>> <=> pc[t] = "top"
  BY WalkTypesAre DEF Steady
<1>2. pre \in Seq(Seq(Lines)) /\ Len(pre) = Len(stack[t]) /\ top[t] <= Len(TopGroups) + 1
  BY DEF Steady, Follows
<1>3. Len(TopGroups) \in Nat
  BY CatalogueAssumption
<1>4. \A i \in 2..Len(stack[t]) : stack[t][i] # stack[t][1]
  BY <1>1, ClimbingDistinct DEF Steady
<1>5. \A i \in 1..Len(stack[t]) :
        /\ stack[t][i] \in CommandGroups /\ pre[i] \in Seq(Lines)
        /\ GroupsIn[stack[t][i]] \in Seq(CommandGroups)
        /\ CommandsIn[stack[t][i]] \in Seq(Commands)
  <2> SUFFICES ASSUME NEW i \in 1..Len(stack[t])
               PROVE  /\ stack[t][i] \in CommandGroups /\ pre[i] \in Seq(Lines)
                      /\ GroupsIn[stack[t][i]] \in Seq(CommandGroups)
                      /\ CommandsIn[stack[t][i]] \in Seq(Commands)
    OBVIOUS
  <2>1. stack[t][i] \in CommandGroups
    BY <1>1
  <2>2. pre[i] \in Seq(Lines)
    <3>1. i \in 1..Len(pre)
      BY <1>2
    <3> QED
      BY <1>2, <3>1
  <2> QED
    BY <2>1, <2>2, CatalogueAssumption
<1>6. Len(stack[t]) \in Nat /\ (stack[t] = <<>> <=> Len(stack[t]) = 0)
  BY <1>1
<1> QED
  BY <1>1, <1>2, <1>3, <1>4, <1>5, <1>6

(* The innermost call.                                                      *)
LEMMA SteadyInside ==
  ASSUME NEW t \in Threads, NEW pre, Steady(t, pre), pc[t] # "top"
  PROVE  /\ Len(stack[t]) > 0 /\ stack[t] # <<>> /\ Group(t) = stack[t][1]
         /\ Group(t) \in CommandGroups /\ pre[1] \in Seq(Lines)
         /\ listing[t] = pre[1] \o Part(user[t], Group(t), kind[t], Done(t))
         /\ Iterator(t) \in -1..(Size(t) - 1) /\ Size(t) \in Nat
         /\ Size(t) = Len(Content(Group(t), kind[t])) /\ Iterator(t) \in Int
<1>1. stack[t] # <<>> /\ Len(stack[t]) > 0 /\ stack[t] \in Seq(CommandGroups)
  BY SteadyFacts
<1>2. Group(t) = stack[t][1] /\ 1 \in 1..Len(stack[t])
  BY <1>1, Popped DEF Group
<1>3. Group(t) \in CommandGroups /\ pre[1] \in Seq(Lines)
  BY <1>2, SteadyFacts
<1>4. listing[t] = pre[1] \o Part(user[t], Group(t), kind[t], Done(t))
  BY <1>1 DEF Steady, Follows
<1>5. Iterator(t) \in -1..(Size(t) - 1)
  BY DEF Steady, Within
<1>6. Size(t) \in Nat /\ Iterator(t) \in Int
  BY GroupFacts DEF Steady
<1> QED
  BY <1>1, <1>2, <1>3, <1>4, <1>5, <1>6 DEF Size

(* Nothing that the listing depends on changes.                             *)
LEMMA FollowsSame ==
  ASSUME NEW t \in Threads, NEW pre, Steady(t, pre),
         stack'[t] = stack[t], listing'[t] = listing[t], top'[t] = top[t], user'[t] = user[t],
         kind'[t] = kind[t], pc[t] # "top" => Done(t)' = Done(t),
         \A i \in 2..Len(stack[t]) : it'[stack[t][i]]["groups"] = it[stack[t][i]]["groups"]
  PROVE  Follows(t, pre)'
<1> DEFINE n == Len(stack[t])
<1>1. n \in Nat /\ (n > 0 => pc[t] # "top")
  BY SteadyFacts
<1>2. \A i \in 1..(n - 1) : Inner(t, pre, i)'
  <2> SUFFICES ASSUME NEW i \in 1..(n - 1) PROVE Inner(t, pre, i)'
    OBVIOUS
  <2>1. i + 1 \in 2..n /\ Inner(t, pre, i)
    BY <1>1 DEF Steady, Follows
  <2> DEFINE j == it[stack[t][i + 1]]["groups"]
  <2>2. it'[stack'[t][i + 1]]["groups"] = it[stack[t][i + 1]]["groups"]
    BY <2>1
  <2> QED
    BY <2>1, <2>2 DEF Inner
<1>3. Group(t)' = Group(t)
  BY DEF Group
<1> QED
  BY <1>1, <1>2, <1>3 DEF Steady, Follows

(* The steps that only test and read.                                       *)
LEMMA LookingOn ==
  ASSUME NEW t \in Threads, NEW pre, Steady(t, pre),
         Test(t) \/ ReadEnd(t) \/ Check(t) \/ Load(t)
  PROVE  Within(t)' /\ Follows(t, pre)'
<1>1. /\ UNCHANGED <<it, user, stack, kind, top, listing>>
      /\ pc[t] \in {"test", "flag", "check", "load"}
  BY DEF Test, ReadEnd, Check, Load, AtPlace
<1>2. pc \in [Threads -> Places] /\ Iterator(t) \in Int /\ Size(t) \in Nat /\ WalkTypes
      /\ reg \in [Threads -> Int]
  BY <1>1, GroupFacts, WalkTypesAre DEF Steady
<1>3. pc'[t] \in {"flag", "check", "load", "store", "reset"}
  BY <1>2 DEF Test, ReadEnd, Check, Load, Goto
<1>4. Group(t)' = Group(t) /\ Iterator(t)' = Iterator(t) /\ Size(t)' = Size(t)
  BY <1>1 DEF Group, Iterator, Size
<1>5. Done(t)' = Done(t)
  BY <1>1, <1>3, <1>4 DEF Done
<1>6. Follows(t, pre)'
  BY <1>1, <1>5, FollowsSame
<1>7. Iterator(t) \in -1..(Size(t) - 1)
  BY <1>1 DEF Steady, Within
<1>8. CASE Test(t)
  <2>1. pc'[t] = "flag"
    BY <1>2, <1>8 DEF Test, Goto
  <2>2. SetEnd(t, Iterator(t)) /\ pc[t] \notin {"idle", "top"}
    BY <1>8 DEF Test, AtPlace
  <2>3. atEnd'[Group(t)][kind[t]] <=> Iterator(t) >= Size(t) - 1
    BY <1>2, <2>2, SetTypes
  <2> QED
    BY <1>1, <1>4, <1>6, <1>7, <2>1, <2>3 DEF Within
<1>9. CASE ReadEnd(t)
  <2>1. pc[t] = "flag" /\ atEnd' = atEnd
    BY <1>9 DEF ReadEnd, AtPlace
  <2>2. atEnd[Group(t)][kind[t]] <=> Iterator(t) >= Size(t) - 1
    BY <2>1 DEF Steady, Within
  <2>3. pc'[t] = (IF atEnd[Group(t)][kind[t]] THEN "reset" ELSE "check")
    BY <1>2, <1>9 DEF ReadEnd, Goto
  <2>4. /\ pc'[t] = "check" => Iterator(t) + 1 < Size(t)
        /\ pc'[t] = "reset" => Iterator(t) = Size(t) - 1
        /\ pc'[t] \in {"check", "reset"}
    BY <1>2, <1>7, <2>2, <2>3
  <2> QED
    BY <1>4, <1>6, <1>7, <2>4 DEF Within
<1>10. CASE Check(t)
  <2>1. pc[t] = "check"
    BY <1>10 DEF Check, AtPlace
  <2>2. Iterator(t) + 1 < Size(t)
    BY <2>1 DEF Steady, Within
  <2>3. pc'[t] = "load"
    BY <1>2, <1>10, <2>2 DEF Check, Goto
  <2> QED
    BY <1>4, <1>6, <1>7, <2>2, <2>3 DEF Within
<1>11. CASE Load(t)
  <2>1. pc[t] = "load"
    BY <1>11 DEF Load, AtPlace
  <2>2. Iterator(t) + 1 < Size(t)
    BY <2>1 DEF Steady, Within
  <2>3. pc'[t] = "store" /\ reg'[t] = Iterator(t)
    BY <1>2, <1>11 DEF Load, Goto
  <2> QED
    BY <1>4, <1>6, <1>7, <2>2, <2>3 DEF Within
<1> QED
  BY <1>8, <1>9, <1>10, <1>11

(* The increment.                                                           *)
LEMMA Counting ==
  ASSUME NEW t \in Threads, NEW pre, Steady(t, pre), Store(t)
  PROVE  Within(t)' /\ Follows(t, pre)'
<1>1. /\ UNCHANGED <<user, stack, kind, top, listing>> /\ pc[t] = "store"
      /\ SetIterator(t, reg[t] + 1)
  BY DEF Store, AtPlace
<1>2. WalkTypes /\ pc \in [Threads -> Places] /\ reg \in [Threads -> Int]
  BY WalkTypesAre DEF Steady
<1>3. pc'[t] = "fetch"
  BY <1>2 DEF Store, Goto
<1>4. reg[t] = Iterator(t) /\ Iterator(t) + 1 < Size(t)
  BY <1>1 DEF Steady, Within
<1>5. /\ it'[Group(t)][kind[t]] = reg[t] + 1
      /\ \A g \in CommandGroups, k \in Kinds : g # Group(t) \/ k # kind[t] => it'[g][k] = it[g][k]
  <2>1. pc[t] \notin {"idle", "top"} /\ reg[t] + 1 \in Int
    BY <1>1, <1>2
  <2> QED
    BY <1>1, <1>2, <2>1, SetTypes
<1>6. Group(t)' = Group(t) /\ Iterator(t)' = Iterator(t) + 1 /\ Size(t)' = Size(t)
  BY <1>1, <1>4, <1>5 DEF Group, Iterator, Size
<1>7. Done(t)' = Done(t)
  BY <1>1, <1>3, <1>6 DEF Done
<1>8. \A i \in 2..Len(stack[t]) : it'[stack[t][i]]["groups"] = it[stack[t][i]]["groups"]
  <2> SUFFICES ASSUME NEW i \in 2..Len(stack[t])
               PROVE  it'[stack[t][i]]["groups"] = it[stack[t][i]]["groups"]
    OBVIOUS
  <2>1. stack[t][i] \in CommandGroups /\ stack[t][i] # stack[t][1]
    BY SteadyFacts
  <2>2. stack[t][1] = Group(t) /\ "groups" \in Kinds
    BY <1>1, SteadyInside DEF Kinds
  <2> QED
    BY <1>5, <2>1, <2>2
<1>9. Follows(t, pre)'
  BY <1>1, <1>7, <1>8, FollowsSame
<1>10. Iterator(t) \in -1..(Size(t) - 1) /\ Iterator(t) \in Int /\ Size(t) \in Nat
  BY <1>1, SteadyInside
<1> QED
  BY <1>3, <1>4, <1>6, <1>9, <1>10 DEF Within

(* A call of handleSublist: what was there before it is in pre from then on. *)
LEMMA Entering ==
  ASSUME NEW t \in Threads, NEW pre, Steady(t, pre), NEW x \in CommandGroups, Enter(t, x),
         it' = it, user' = user,
         \/ /\ pc[t] = "top" /\ top[t] <= Len(TopGroups) /\ x = TopGroups[top[t]]
            /\ top'[t] = top[t] + 1
         \/ /\ pc[t] = "fetch" /\ top'[t] = top[t] /\ kind[t] = "groups"
            /\ Iterator(t) \in 0..(Size(t) - 1) /\ x = GroupsIn[Group(t)][Iterator(t) + 1],
         NEW now, now = <<listing[t]>> \o pre
  PROVE  Within(t)' /\ Follows(t, now)'
<1> DEFINE s == stack[t]
           n == Len(s)
           q == stack'[t]
           u == user[t]
<1>1. WalkTypes
  BY DEF Steady
<1>2. /\ q = <<x>> \o s /\ kind'[t] = "commands" /\ listing'[t] = Append(listing[t], Open(x))
      /\ pc'[t] = "test"
  BY <1>1, EnterTypes
<1>3. /\ s \in Seq(CommandGroups) /\ n \in Nat /\ listing[t] \in Seq(Lines)
      /\ pre \in Seq(Seq(Lines)) /\ Len(pre) = n /\ top[t] <= Len(TopGroups) + 1
      /\ s = <<>> <=> pc[t] = "top"
      /\ s = <<>> <=> n = 0
      /\ top[t] \in Nat \ {0} /\ Len(TopGroups) \in Nat
  BY SteadyFacts
<1>4. /\ Len(q) = n + 1 /\ q[1] = x /\ Head(q) = x
      /\ \A i \in 1..n : q[i + 1] = s[i]
      /\ \A i \in 2..(n + 1) : i - 1 \in 1..n /\ q[i] = s[i - 1]
  BY SMTT(30), <1>2, <1>3, Pushed
<1>5. /\ now \in Seq(Seq(Lines)) /\ Len(now) = n + 1 /\ now[1] = listing[t]
      /\ \A i \in 1..n : now[i + 1] = pre[i]
      /\ \A i \in 2..(n + 1) : i - 1 \in 1..n /\ now[i] = pre[i - 1]
  BY <1>3, Pushed
<1>6. Group(t)' = x
  BY <1>4 DEF Group
<1>7. it[x]["commands"] = -1
  <2>1. ~EngagedIn(s, kind[t], x, "commands")
    <3>1. kind[t] # "commands" \/ n = 0
      BY <1>3
    <3> QED
      BY <1>3, <3>1 DEF EngagedIn
  <2>2. "commands" \in Kinds
    BY DEF Kinds
  <2> QED
    BY <2>1, <2>2, EngagedIs DEF Steady
<1>8. Iterator(t)' = -1 /\ Size(t)' = Len(CommandsIn[x])
  BY <1>2, <1>6, <1>7 DEF Iterator, Size, Content
<1>9. Done(t)' = 0
  BY <1>2, <1>8 DEF Done
<1>10. Within(t)'
  <2>1. Len(CommandsIn[x]) \in Nat
    BY CatalogueAssumption
  <2>2. Iterator(t)' \in -1..(Size(t)' - 1)
    BY <1>8, <2>1
  <2> QED
    BY <1>2, <2>2 DEF Within
<1>11. listing'[t] = now[1] \o Part(u, x, "commands", 0)
  <2>1. Part(u, x, "commands", 0) = <<Open(x)>> /\ Open(x) \in Lines
    BY PartEnds, LinesFacts
  <2> HIDE DEF Open, q
  <2>2. listing[t] \o <<Open(x)>> = Append(listing[t], Open(x))
    BY <1>3, <2>1, WriteOne
  <2> QED
    BY <1>2, <1>5, <2>1, <2>2
<1> HIDE DEF q
<1>12. CASE pc[t] = "top"
  <2>1. /\ n = 0 /\ top[t] <= Len(TopGroups) /\ x = TopGroups[top[t]] /\ top'[t] = top[t] + 1
    BY <1>3, <1>12
  <2>2. listing[t] = TopPart(u, top[t] - 1)
    BY <2>1 DEF Steady, Follows
  <2>3. /\ Len(q) = 1 /\ Len(now) = 1 /\ top'[t] <= Len(TopGroups) + 1 /\ top'[t] >= 2
        /\ top'[t] - 1 = top[t] /\ top'[t] - 2 = top[t] - 1
    BY <1>3, <1>4, <1>5, <2>1
  <2>4. q[1] = TopGroups[top'[t] - 1] /\ now[1] = TopPart(u, top'[t] - 2)
    BY <1>4, <1>5, <2>1, <2>2, <2>3
  <2> QED
    BY <1>2, <1>5, <1>6, <1>9, <1>10, <1>11, <2>3, <2>4 DEF Follows, q
<1>13. CASE pc[t] # "top"
  <2> DEFINE G == Group(t)
             j == Iterator(t)
  <2>1. /\ n > 0 /\ top'[t] = top[t] /\ kind[t] = "groups" /\ j \in 0..(Size(t) - 1)
        /\ x = GroupsIn[G][j + 1] /\ pc[t] = "fetch"
    BY <1>3, <1>13
  <2>2. G = s[1] /\ listing[t] = pre[1] \o Part(u, G, "groups", j) /\ Size(t) = Len(GroupsIn[G])
        /\ j = it[G]["groups"]
    BY <1>13, <2>1, SteadyInside DEF Done, Content, Iterator
  <2>3. /\ top[t] >= 2 /\ s[n] = TopGroups[top[t] - 1] /\ pre[n] = TopPart(u, top[t] - 2)
        /\ \A i \in 1..(n - 1) : Inner(t, pre, i)
    BY <2>1 DEF Steady, Follows
  <2>4. q[n + 1] = s[n] /\ now[n + 1] = pre[n]
    <3>1. n \in 1..n
      BY <1>3, <2>1
    <3> HIDE DEF n, s
    <3> QED
      BY <1>4, <1>5, <3>1
  <2>5. \A i \in 1..n : Inner(t, now, i)'
    <3> SUFFICES ASSUME NEW i \in 1..n PROVE Inner(t, now, i)'
      OBVIOUS
    <3>1. q[i + 1] = s[i] /\ now[i + 1] = pre[i]
      BY <1>4, <1>5
    <3>2. CASE i = 1
      <4>1. q[i + 1] = G /\ it'[q[i + 1]]["groups"] = j /\ now[i + 1] = pre[1]
        BY <2>2, <3>1, <3>2
      <4>2. j \in 0..(Len(GroupsIn[G]) - 1) /\ q[i] = GroupsIn[G][j + 1]
        BY <1>4, <2>1, <2>2, <3>2
      <4>3. now[i] = now[i + 1] \o Part(u, G, "groups", j)
        BY <1>5, <2>2, <3>2, <4>1
      <4> HIDE DEF j, G
      <4> QED
        BY <4>1, <4>2, <4>3 DEF Inner, q
    <3>3. CASE i # 1
      <4>1. i - 1 \in 1..(n - 1) /\ i \in 2..(n + 1) /\ (i - 1) + 1 = i
        <5>1. n \in Nat
          BY <1>3
        <5> HIDE DEF n, s
        <5> QED
          BY <3>3, <5>1
      <4>2. Inner(t, pre, i - 1)
        BY <2>3, <4>1
      <4>3. q[i] = s[i - 1] /\ now[i] = pre[i - 1]
        BY <1>4, <1>5, <4>1
      <4> QED
        BY <3>1, <4>1, <4>2, <4>3 DEF Inner, q
    <3> QED
      BY <3>2, <3>3
  <2>6. (n + 1) - 1 = n /\ n + 1 > 0 /\ n + 1 # 0
    BY <1>3
  <2> HIDE DEF n
  <2>7. /\ now \in Seq(Seq(Lines)) /\ Len(now) = n + 1 /\ Len(q) = n + 1
        /\ top'[t] <= Len(TopGroups) + 1
    BY <1>3, <1>4, <1>5, <2>1
  <2>8. /\ top'[t] >= 2 /\ q[n + 1] = TopGroups[top'[t] - 1]
        /\ now[n + 1] = TopPart(u, top'[t] - 2)
    BY <2>1, <2>3, <2>4
  <2>9. listing'[t] = now[1] \o Part(u, Group(t)', kind'[t], Done(t)')
    BY <1>2, <1>6, <1>9, <1>11
  <2> QED
    BY <1>10, <2>5, <2>6, <2>7, <2>8, <2>9 DEF Follows, q
<1> QED
  BY <1>12, <1>13

(* The next top-level group, or the end.                                    *)
LEMMA AtTheTop ==
  ASSUME NEW t \in Threads, NEW pre, Steady(t, pre), NextTop(t)
  PROVE  /\ pc'[t] # "idle" => Within(t)' /\ \E now : Follows(t, now)'
         /\ pc'[t] = "idle" => listing'[t] = FullListing(user'[t])
<1>1. /\ pc[t] = "top" /\ UNCHANGED <<it, user>> /\ WalkTypes
  BY DEF NextTop, AtPlace, Steady
<1>2. top[t] \in Nat \ {0} /\ top[t] <= Len(TopGroups) + 1 /\ Len(TopGroups) \in Nat
      /\ Len(stack[t]) = 0 /\ pc \in [Threads -> Places] /\ top \in [Threads -> Nat \ {0}]
  BY <1>1, SteadyFacts, WalkTypesAre
<1>3. CASE top[t] <= Len(TopGroups)
  <2> DEFINE x == TopGroups[top[t]]
  <2>1. x \in CommandGroups
    BY <1>2, <1>3, CatalogueAssumption
  <2>2. Enter(t, x) /\ top'[t] = top[t] + 1
    BY <1>2, <1>3 DEF NextTop
  <2>3. pc'[t] = "test"
    BY <1>1, <2>1, <2>2, EnterTypes
  <2>4. Within(t)' /\ \E now : Follows(t, now)'
    <3>1. PICK now : now = <<listing[t]>> \o pre
      OBVIOUS
    <3>2. Within(t)' /\ Follows(t, now)'
      BY <1>1, <1>3, <2>1, <2>2, <3>1, Entering
    <3> QED
      BY <3>2
  <2> QED
    BY <2>3, <2>4
<1>4. CASE ~(top[t] <= Len(TopGroups))
  <2>1. pc'[t] = "idle" /\ listing' = listing
    BY <1>2, <1>4 DEF NextTop, Goto
  <2>2. top[t] - 1 = Len(TopGroups)
    BY <1>2, <1>4
  <2>3. listing[t] = TopPart(user[t], top[t] - 1)
    BY <1>2 DEF Steady, Follows
  <2> QED
    BY <1>1, <2>1, <2>2, <2>3, TopPartFacts
<1> QED
  BY <1>3, <1>4

(* The array is read, within its bounds.                                    *)
LEMMA Fetching ==
  ASSUME NEW t \in Threads, NEW pre, Steady(t, pre), Fetch(t)
  PROVE  Within(t)' /\ \E now : Follows(t, now)'
<1> DEFINE G == Group(t)
           j == Iterator(t)
           C == Content(G, kind[t])
           x == C[j + 1]
<1>1. /\ pc[t] = "fetch" /\ UNCHANGED <<it, user, top>> /\ WalkTypes
  BY DEF Fetch, AtPlace, Steady
<1>2. /\ j \in 0..(Size(t) - 1) /\ j + 1 \in 1..Size(t) /\ Size(t) = Len(C) /\ Size(t) \in Nat
      /\ j \in Int /\ G \in CommandGroups /\ pre[1] \in Seq(Lines) /\ Len(stack[t]) > 0
      /\ listing[t] = pre[1] \o Part(user[t], G, kind[t], j)
      /\ kind[t] \in Kinds /\ stack[t] # <<>>
  <2>1. j >= 0
    BY <1>1 DEF Steady, Within
  <2>2. /\ j \in -1..(Size(t) - 1) /\ Size(t) = Len(C) /\ Size(t) \in Nat /\ j \in Int
        /\ G \in CommandGroups /\ pre[1] \in Seq(Lines) /\ Len(stack[t]) > 0 /\ stack[t] # <<>>
        /\ listing[t] = pre[1] \o Part(user[t], G, kind[t], Done(t))
    BY <1>1, SteadyInside
  <2>3. Done(t) = j /\ kind[t] \in Kinds
    BY <1>1, SteadyFacts DEF Done
  <2>4. j \in 0..(Size(t) - 1) /\ j + 1 \in 1..Size(t)
    <3> HIDE DEF j
    <3> QED
      BY <2>1, <2>2
  <2> QED
    BY <2>2, <2>3, <2>4
<1>3. CASE kind[t] = "groups"
  <2>1. C \in Seq(CommandGroups) /\ C = GroupsIn[G]
    BY <1>1, <1>3, GroupFacts DEF Content
  <2>2. x \in CommandGroups
    <3> HIDE DEF j, C
    <3> QED
      BY <1>2, <2>1
  <2>3. Enter(t, x)
    BY <1>2, <1>3 DEF Fetch
  <2>4. x = GroupsIn[G][j + 1] /\ top'[t] = top[t]
    BY <1>1, <2>1
  <2> HIDE DEF x
  <2>5. PICK now : now = <<listing[t]>> \o pre
    OBVIOUS
  <2>6. Within(t)' /\ Follows(t, now)'
    BY <1>1, <1>2, <1>3, <2>2, <2>3, <2>4, <2>5, Entering
  <2> QED
    BY <2>6
<1>4. CASE kind[t] # "groups"
  <2>1. kind[t] = "commands"
    BY <1>2, <1>4 DEF Kinds
  <2>2. C = CommandsIn[G] /\ C \in Seq(Commands)
    BY <1>1, <2>1, GroupFacts DEF Content
  <2>3. /\ WriteLines(t, Permitted(<<x>>, user[t])) /\ Goto(t, "test") /\ UNCHANGED <<stack, kind>>
    BY <1>2, <1>4 DEF Fetch
  <2>4. pc'[t] = "test" /\ listing'[t] = listing[t] \o Permitted(<<x>>, user[t])
    BY <1>1, <2>3, WalkTypesAre DEF Goto, WriteLines
  <2>5. Group(t)' = G /\ Iterator(t)' = j /\ Size(t)' = Size(t)
    BY <1>1, <2>3 DEF Group, Iterator, Size
  <2>6. Done(t)' = j + 1
    BY <2>4, <2>5 DEF Done
  <2>7. Within(t)'
    BY <1>2, <2>4, <2>5 DEF Within
  <2>8. x \in Commands
    <3> HIDE DEF j, C
    <3> QED
      BY <1>2, <2>2
  <2> DEFINE p == Part(user[t], G, "commands", j)
             o == Permitted(<<x>>, user[t])
  <2>9. Part(user[t], G, "commands", j + 1) = p \o o
    <3>1. j \in 0..(Len(CommandsIn[G]) - 1)
      BY <1>2, <2>2
    <3> QED
      BY <1>2, <2>2, <3>1, PartCommand
  <2>10. p \in Seq(Lines) /\ o \in Seq(Lines)
    <3>1. <<x>> \in Seq(Commands)
      BY <2>8
    <3>2. "commands" \in Kinds /\ j \in 0..Len(Content(G, "commands"))
      BY <1>2, <2>1 DEF Kinds
    <3> QED
      BY <1>2, <3>1, <3>2, PermittedType, PartType
  <2> HIDE DEF p, o
  <2>11. listing'[t] = pre[1] \o (p \o o)
    <3>1. listing[t] = pre[1] \o p /\ listing'[t] = listing[t] \o o
      BY <1>2, <2>1, <2>4 DEF p, o
    <3> DEFINE b == pre[1]
    <3>2. b \in Seq(Lines)
      BY <1>2
    <3> HIDE DEF b
    <3>3. (b \o p) \o o = b \o (p \o o)
      BY <2>10, <3>2, Longer
    <3> QED
      BY <3>1, <3>3 DEF b
  <2>12. /\ pre \in Seq(Seq(Lines)) /\ Len(pre) = Len(stack[t]) /\ top[t] <= Len(TopGroups) + 1
         /\ top[t] >= 2 /\ stack[t][Len(stack[t])] = TopGroups[top[t] - 1]
         /\ pre[Len(stack[t])] = TopPart(user[t], top[t] - 2)
         /\ \A i \in 1..(Len(stack[t]) - 1) : Inner(t, pre, i)
    BY <1>2 DEF Steady, Follows
  <2>13. \A i \in 1..(Len(stack[t]) - 1) : Inner(t, pre, i)'
    <3> SUFFICES ASSUME NEW i \in 1..(Len(stack[t]) - 1) PROVE Inner(t, pre, i)'
      OBVIOUS
    <3>1. Inner(t, pre, i)
      BY <2>12
    <3> QED
      BY <1>1, <2>3, <3>1 DEF Inner
  <2>14. Follows(t, pre)'
    <3>1. listing'[t] = pre[1] \o Part(user'[t], Group(t)', kind'[t], Done(t)')
      BY <1>1, <2>1, <2>3, <2>5, <2>6, <2>9, <2>11
    <3>2. stack'[t] = stack[t] /\ top'[t] = top[t] /\ user'[t] = user[t] /\ Len(stack[t]) # 0
      BY <1>1, <1>2, <2>3
    <3> QED
      BY <2>12, <2>13, <3>1, <3>2 DEF Follows
  <2> QED
    BY <2>7, <2>14
<1> QED
  BY <1>3, <1>4

(* From the commands of a group to its groups.                              *)
LEMMA TurningToGroups ==
  ASSUME NEW t \in Threads, NEW pre, Steady(t, pre), Reset(t), kind[t] = "commands"
  PROVE  Within(t)' /\ Follows(t, pre)'
<1> DEFINE G == Group(t)
<1>1. /\ pc[t] = "reset" /\ UNCHANGED <<user, top>> /\ SetIterator(t, -1) /\ WalkTypes
      /\ kind' = [kind EXCEPT ![t] = "groups"] /\ Goto(t, "test") /\ UNCHANGED <<stack, listing>>
  BY DEF Reset, AtPlace, Steady
<1>2. kind'[t] = "groups" /\ pc'[t] = "test"
  BY <1>1, WalkTypesAre DEF Goto
<1>3. \A g \in CommandGroups : it'[g]["groups"] = it[g]["groups"]
  <2>1. pc[t] \notin {"idle", "top"} /\ -1 \in Int /\ "groups" \in Kinds
    BY <1>1 DEF Kinds
  <2> QED
    BY <1>1, <2>1, SetTypes
<1>4. /\ Len(stack[t]) > 0 /\ G = stack[t][1] /\ G \in CommandGroups /\ pre[1] \in Seq(Lines)
      /\ stack[t] \in Seq(CommandGroups)
      /\ \A i \in 2..Len(stack[t]) : stack[t][i] # stack[t][1]
      /\ listing[t] = pre[1] \o Part(user[t], G, "commands", Iterator(t) + 1)
      /\ Iterator(t) = Size(t) - 1 /\ Size(t) = Len(CommandsIn[G]) /\ Size(t) \in Nat
  <2>1. Iterator(t) = Size(t) - 1
    BY <1>1 DEF Steady, Within
  <2> QED
    BY <1>1, <2>1, SteadyInside, SteadyFacts DEF Done, Content
<1>5. it[G]["groups"] = -1
  <2>1. ~EngagedIn(stack[t], "commands", G, "groups")
    <3> SUFFICES ASSUME NEW i \in 1..Len(stack[t]), stack[t][i] = G, i # 1 PROVE FALSE
      BY DEF EngagedIn
    <3>1. i \in 2..Len(stack[t])
      OBVIOUS
    <3> QED
      BY <1>4, <3>1
  <2>2. "groups" \in Kinds
    BY DEF Kinds
  <2> QED
    BY <1>4, <2>1, <2>2, EngagedIs DEF Steady
<1>6. Group(t)' = G
  BY <1>1 DEF Group
<1>7. Iterator(t)' = -1 /\ Size(t)' = Len(GroupsIn[G])
  BY <1>2, <1>3, <1>4, <1>5, <1>6 DEF Iterator, Size, Content
<1>8. Done(t)' = 0
  BY <1>2, <1>7 DEF Done
<1>9. Within(t)'
  <2>1. Len(GroupsIn[G]) \in Nat
    BY <1>4, HeightFacts
  <2>2. Iterator(t)' \in -1..(Size(t)' - 1)
    BY <1>7, <2>1
  <2> QED
    BY <1>2, <2>2 DEF Within
<1>10. listing'[t] = pre[1] \o Part(user[t], G, "groups", 0)
  <2>1. Part(user[t], G, "groups", 0) = Part(user[t], G, "commands", Len(CommandsIn[G]))
    BY <1>4, PartEnds
  <2>2. Iterator(t) + 1 = Len(CommandsIn[G])
    BY <1>4
  <2> QED
    BY <1>1, <1>4, <2>1, <2>2
<1>11. /\ pre \in Seq(Seq(Lines)) /\ Len(pre) = Len(stack[t]) /\ top[t] <= Len(TopGroups) + 1
       /\ top[t] >= 2 /\ stack[t][Len(stack[t])] = TopGroups[top[t] - 1]
       /\ pre[Len(stack[t])] = TopPart(user[t], top[t] - 2)
       /\ \A i \in 1..(Len(stack[t]) - 1) : Inner(t, pre, i)
  BY <1>4 DEF Steady, Follows
<1>12. \A i \in 1..(Len(stack[t]) - 1) : Inner(t, pre, i)'
  <2> SUFFICES ASSUME NEW i \in 1..(Len(stack[t]) - 1) PROVE Inner(t, pre, i)'
    OBVIOUS
  <2>1. Inner(t, pre, i)
    BY <1>11
  <2>2. stack[t][i + 1] \in CommandGroups
    <3>1. i + 1 \in 1..Len(stack[t])
      BY <1>4
    <3> QED
      BY <1>4, <3>1
  <2>3. it'[stack[t][i + 1]]["groups"] = it[stack[t][i + 1]]["groups"]
    BY <1>3, <2>2
  <2> QED
    BY <1>1, <2>1, <2>3 DEF Inner
<1>13. Follows(t, pre)'
  <2>1. listing'[t] = pre[1] \o Part(user'[t], Group(t)', kind'[t], Done(t)')
    BY <1>1, <1>2, <1>6, <1>8, <1>10
  <2>2. stack'[t] = stack[t] /\ top'[t] = top[t] /\ user'[t] = user[t] /\ Len(stack[t]) # 0
    BY <1>1, <1>4
  <2> QED
    BY <1>11, <1>12, <2>1, <2>2 DEF Follows
<1> QED
  BY <1>9, <1>13

(* The return from a call of handleSublist.                                 *)
LEMMA Returning ==
  ASSUME NEW t \in Threads, NEW pre, Steady(t, pre), Reset(t), kind[t] = "groups"
  PROVE  Within(t)' /\ \E now : Follows(t, now)'
<1> DEFINE G == Group(t)
           s == stack[t]
           n == Len(s)
           q == stack'[t]
           u == user[t]
           whole == GroupListing(u)[G]
<1>1. /\ pc[t] = "reset" /\ UNCHANGED <<user, top, kind>> /\ SetIterator(t, -1) /\ WalkTypes
      /\ WriteLines(t, <<End>>) /\ stack' = [stack EXCEPT ![t] = Tail(@)]
      /\ Goto(t, IF n = 1 THEN "top" ELSE "test")
  BY DEF Reset, AtPlace, Steady
<1>2. /\ q = Tail(s) /\ pc'[t] = (IF n = 1 THEN "top" ELSE "test")
      /\ listing'[t] = listing[t] \o <<End>>
  BY <1>1, WalkTypesAre DEF Goto, WriteLines
<1>3. \A g \in CommandGroups : g # G => it'[g]["groups"] = it[g]["groups"]
  <2>1. pc[t] \notin {"idle", "top"} /\ -1 \in Int /\ "groups" \in Kinds
    BY <1>1 DEF Kinds
  <2> QED
    BY <1>1, <2>1, SetTypes
<1>4. /\ n > 0 /\ n \in Nat /\ s # <<>> /\ G = s[1] /\ G \in CommandGroups
      /\ s \in Seq(CommandGroups) /\ pre \in Seq(Seq(Lines)) /\ Len(pre) = n
      /\ \A i \in 2..n : s[i] # s[1]
      /\ pre[1] \in Seq(Lines)
      /\ top[t] \in Nat
  BY <1>1, SteadyInside, SteadyFacts
<1>5. /\ top[t] <= Len(TopGroups) + 1 /\ top[t] >= 2 /\ s[n] = TopGroups[top[t] - 1]
      /\ pre[n] = TopPart(u, top[t] - 2)
      /\ \A i \in 1..(n - 1) : Inner(t, pre, i)
  BY <1>4 DEF Steady, Follows
<1>6. /\ Len(q) = n - 1 /\ n \in Nat \ {0} /\ q \in Seq(CommandGroups)
      /\ \A i \in 1..(n - 1) : i + 1 \in 1..n /\ q[i] = s[i + 1]
      /\ n > 1 => Head(q) = s[2]
  BY <1>2, <1>4, Popped
<1>7. PICK now : now = Tail(pre)
  OBVIOUS
<1>8. /\ Len(now) = n - 1 /\ now \in Seq(Seq(Lines))
      /\ \A i \in 1..(n - 1) : now[i] = pre[i + 1]
  <2>1. pre # <<>>
    BY <1>4
  <2> QED
    BY <1>4, <1>7, <2>1, Popped
<1>9. listing'[t] = pre[1] \o whole /\ whole \in Seq(Lines)
  <2> DEFINE p == Part(u, G, "groups", Len(GroupsIn[G]))
  <2>1. listing[t] = pre[1] \o p
    <3>1. /\ listing[t] = pre[1] \o Part(u, G, "groups", Iterator(t) + 1)
          /\ Size(t) = Len(GroupsIn[G]) /\ Size(t) \in Nat
      BY <1>1, SteadyInside DEF Done, Content
    <3>2. Iterator(t) = Size(t) - 1
      BY <1>1 DEF Steady, Within
    <3>3. Iterator(t) + 1 = Len(GroupsIn[G])
      BY <3>1, <3>2
    <3> QED
      BY <3>1, <3>3
  <2>2. p \in Seq(Lines)
    <3>1. "groups" \in Kinds /\ Len(GroupsIn[G]) \in 0..Len(Content(G, "groups"))
      BY <1>4, HeightFacts DEF Kinds, Content
    <3> QED
      BY <1>4, <3>1, PartType
  <2>3. whole = Append(p, End) /\ End \in Lines
    BY SMTT(30), <1>4, PartEnds, LinesFacts
  <2>4. <<End>> \in Seq(Lines)
    BY <2>3
  <2> DEFINE b == pre[1]
  <2>7. b \in Seq(Lines)
    BY <1>4
  <2> HIDE DEF p, End, whole, b
  <2>5. p \o <<End>> = Append(p, End) /\ Append(p, End) \in Seq(Lines)
    BY <2>2, <2>3, WriteOne
  <2>6. (b \o p) \o <<End>> = b \o (p \o <<End>>)
    BY <2>2, <2>4, <2>7, Longer
  <2> QED
    BY <1>2, <2>1, <2>3, <2>5, <2>6 DEF b
<1> HIDE DEF whole, q
<1>10. CASE n = 1
  <2>1. Len(q) = 0 /\ Len(now) = 0 /\ pc'[t] = "top"
    BY <1>2, <1>6, <1>8, <1>10
  <2> DEFINE m == top[t] - 2
  <2>2. G = TopGroups[m + 1] /\ pre[1] = TopPart(u, m)
    <3>1. m + 1 = top[t] - 1
      BY <1>4
    <3> HIDE DEF m
    <3> QED
      BY <1>4, <1>5, <1>10, <3>1 DEF m
  <2>3. m \in 0..(Len(TopGroups) - 1) /\ m + 1 = top[t] - 1
    <3>1. Len(TopGroups) \in Nat
      BY CatalogueAssumption
    <3> QED
      BY SMTT(30), <1>4, <1>5, <3>1
  <2> HIDE DEF m
  <2>4. TopPart(u, m + 1) = TopPart(u, m) \o GroupListing(u)[TopGroups[m + 1]]
    BY <2>3, TopPartFacts
  <2>5. listing'[t] = TopPart(u, top[t] - 1)
    BY <1>9, <2>2, <2>3, <2>4 DEF whole
  <2>6. Follows(t, now)'
    <3>1. top'[t] = top[t] /\ user'[t] = u
      BY <1>1
    <3> QED
      BY <1>5, <1>8, <2>1, <2>5, <3>1 DEF Follows, q
  <2>7. Within(t)'
    BY <2>1 DEF Within
  <2> QED
    BY <2>6, <2>7
<1>11. CASE n # 1
  <2> DEFINE H == s[2]
             j == it[H]["groups"]
  <2>1. n > 1 /\ 1 \in 1..(n - 1) /\ 2 \in 2..n /\ 2 \in 1..n /\ n - 1 \in 1..(n - 1)
    <3> HIDE DEF n
    <3> QED
      BY <1>4, <1>11
  <2>2. H \in CommandGroups /\ H # G /\ Head(q) = H /\ q[1] = H
    BY <1>4, <1>6, <2>1
  <2>3. /\ j \in 0..(Len(GroupsIn[H]) - 1) /\ G = GroupsIn[H][j + 1]
        /\ pre[1] = pre[2] \o Part(u, H, "groups", j)
    <3>1. Inner(t, pre, 1)
      BY <1>5, <2>1
    <3>2. G = s[1]
      BY <1>4
    <3>3. 1 + 1 = 2
      OBVIOUS
    <3> HIDE DEF G, s
    <3> QED
      BY <3>1, <3>2, <3>3 DEF Inner, s
  <2>4. Group(t)' = H
    BY <2>2 DEF Group, q
  <2>5. it'[H]["groups"] = j
    BY <1>3, <2>2
  <2>6. pc'[t] = "test" /\ kind'[t] = "groups"
    BY <1>1, <1>2, <1>11
  <2>7. Iterator(t)' = j /\ Size(t)' = Len(GroupsIn[H])
    BY <2>4, <2>5, <2>6 DEF Iterator, Size, Content
  <2>8. Done(t)' = j + 1
    BY <2>6, <2>7 DEF Done
  <2>9. Within(t)'
    <3>1. Len(GroupsIn[H]) \in Nat
      BY <2>2, HeightFacts
    <3>2. Iterator(t)' \in -1..(Size(t)' - 1)
      BY <2>3, <2>7, <3>1
    <3> QED
      BY <2>6, <3>2 DEF Within
  <2>10. listing'[t] = now[1] \o Part(u, H, "groups", j + 1)
    <3> DEFINE p == Part(u, H, "groups", j)
    <3>1. Part(u, H, "groups", j + 1) = p \o whole
      <4> HIDE DEF H
      <4> QED
        BY <2>2, <2>3, PartGroup DEF whole
    <3>2. p \in Seq(Lines)
      <4>1. "groups" \in Kinds /\ j \in 0..Len(Content(H, "groups"))
        BY <2>3 DEF Kinds, Content
      <4> HIDE DEF H, j
      <4> QED
        BY <2>2, <4>1, PartType
    <3>3. pre[2] \in Seq(Lines) /\ now[1] = pre[2]
      BY <1>4, <1>8, <2>1
    <3> DEFINE b == pre[2]
    <3>4. b \in Seq(Lines)
      BY <3>3
    <3> HIDE DEF p, H, b
    <3>5. (b \o p) \o whole = b \o (p \o whole)
      BY <1>9, <3>2, <3>4, Longer
    <3> QED
      BY <1>9, <2>3, <3>1, <3>3, <3>5 DEF p, b
  <2>11. \A i \in 1..((n - 1) - 1) : Inner(t, now, i)'
    <3> SUFFICES ASSUME NEW i \in 1..((n - 1) - 1) PROVE Inner(t, now, i)'
      OBVIOUS
    <3>1. i + 1 \in 1..(n - 1) /\ i \in 1..(n - 1) /\ (i + 1) + 1 \in 2..n /\ i + 2 \in 1..n
      BY <1>4
    <3>2. Inner(t, pre, i + 1)
      BY <1>5, <3>1
    <3>3. /\ q[i] = s[i + 1] /\ q[i + 1] = s[(i + 1) + 1]
          /\ now[i] = pre[i + 1] /\ now[i + 1] = pre[(i + 1) + 1]
      BY <1>6, <1>8, <3>1
    <3>4. s[(i + 1) + 1] \in CommandGroups /\ s[(i + 1) + 1] # G
      <4> DEFINE m == (i + 1) + 1
      <4>1. m \in 2..n /\ m \in 1..n
        BY <3>1
      <4> HIDE DEF m
      <4>2. s[m] # G
        BY <1>4, <4>1
      <4>3. s[m] \in CommandGroups
        BY <1>4, <4>1
      <4> QED
        BY <4>2, <4>3 DEF m
    <3>5. it'[q[i + 1]]["groups"] = it[s[(i + 1) + 1]]["groups"]
      BY <1>3, <3>3, <3>4
    <3>6. user'[t] = u
      BY <1>1
    <3> QED
      BY <3>2, <3>3, <3>5, <3>6 DEF Inner, q
  <2>12. q[n - 1] = s[n] /\ now[n - 1] = pre[n]
    <3>1. (n - 1) + 1 = n
      BY <1>4
    <3> QED
      BY <1>6, <1>8, <2>1, <3>1
  <2>13. Follows(t, now)'
    <3>1. top'[t] = top[t] /\ user'[t] = u
      BY <1>1
    <3>2. n - 1 > 0 /\ n - 1 # 0
      BY <1>4, <2>1
    <3>3. listing'[t] = now[1] \o Part(user'[t], Group(t)', kind'[t], Done(t)')
      BY <2>4, <2>6, <2>8, <2>10, <3>1
    <3> HIDE DEF n
    <3> QED
      BY <1>5, <1>6, <1>8, <2>11, <2>12, <3>1, <3>2, <3>3 DEF Follows, q
  <2> QED
    BY <2>9, <2>13
<1> QED
  BY <1>10, <1>11

(* An undisturbed thread stays on its way, and comes to the end of it.      *)
LEMMA SteadyStep ==
  ASSUME NEW t \in Threads, NEW pre, Steady(t, pre), Step(t)
  PROVE  /\ pc'[t] # "idle" => Within(t)' /\ \E now : Follows(t, now)'
         /\ pc'[t] = "idle" => listing'[t] = FullListing(user'[t])
<1>1. kind[t] \in Kinds /\ pc \in [Threads -> Places] /\ WalkTypes
  BY SteadyFacts, WalkTypesAre DEF Steady
<1>2. CASE NextTop(t)
  BY <1>2, AtTheTop
<1>3. CASE Test(t) \/ ReadEnd(t) \/ Check(t) \/ Load(t)
  <2>1. pc'[t] # "idle"
    BY <1>1, <1>3 DEF Test, ReadEnd, Check, Load, Goto
  <2>2. Within(t)' /\ Follows(t, pre)'
    BY <1>3, LookingOn
  <2> QED
    BY <2>1, <2>2
<1>4. CASE Store(t)
  <2>1. pc'[t] # "idle"
    BY <1>1, <1>4 DEF Store, Goto
  <2>2. Within(t)' /\ Follows(t, pre)'
    BY <1>4, Counting
  <2> QED
    BY <2>1, <2>2
<1>5. CASE Fetch(t)
  <2>1. pc'[t] # "idle"
    BY <1>1, <1>5 DEF Fetch, Enter, Goto, AtPlace
  <2>2. Within(t)' /\ \E now : Follows(t, now)'
    BY <1>5, Fetching
  <2> QED
    BY <2>1, <2>2
<1>6. CASE Reset(t)
  <2>1. pc'[t] # "idle"
    BY <1>1, <1>6 DEF Reset, Goto
  <2>2. CASE kind[t] = "commands"
    <3>1. Within(t)' /\ Follows(t, pre)'
      BY <1>6, <2>2, TurningToGroups
    <3> QED
      BY <2>1, <3>1
  <2>3. CASE kind[t] = "groups"
    <3>1. Within(t)' /\ \E now : Follows(t, now)'
      BY <1>6, <2>3, Returning
    <3> QED
      BY <2>1, <3>1
  <2> QED
    BY <1>1, <2>2, <2>3 DEF Kinds
<1> QED
  BY <1>2, <1>3, <1>4, <1>5, <1>6 DEF Step

LEMMA AloneIsSteady ==
  ASSUME CompleteInv, NEW t \in Threads, alone[t], pc[t] # "idle"
  PROVE  \E pre : Steady(t, pre)
<1>1. WalkTypes /\ ClimbingIn(stack[t]) /\ Within(t)
  BY ClimbingIs DEF CompleteInv, OnItsWay
<1>2. PICK pre : Follows(t, pre)
  BY DEF CompleteInv, OnItsWay
<1>3. ~cutOff /\ \A x \in Threads \ {t} : pc[x] = "idle"
  BY DEF CompleteInv, Undisturbed
<1>4. \A x \in Threads \ {t} : \A g, k : ~Engaged(x, g, k)
  <2> SUFFICES ASSUME NEW x \in Threads \ {t}, NEW g, NEW k PROVE ~Engaged(x, g, k)
    OBVIOUS
  <2>1. stack[x] = <<>>
    BY <1>1, <1>3, WalkTypesAre
  <2> QED
    BY <2>1 DEF Engaged
<1>5. \A g \in CommandGroups, k \in Kinds : ~Engaged(t, g, k) => it[g][k] = -1
  <2>1. AtStart
    BY DEF CompleteInv
  <2> QED
    BY <1>3, <1>4, <2>1 DEF AtStart
<1> QED
  BY <1>1, <1>2, <1>5 DEF Steady

LEMMA OnItsWayStep ==
  ASSUME CompleteInv, NEW t \in Threads,
         Step(t) \/ WriteThrows(t) \/ \E u \in Users : Begin(t, u)
  PROVE  /\ \A x \in Threads : OnItsWay(x)'
         /\ CompleteListing'
<1>1. /\ pc \in [Threads -> Places] /\ user \in [Threads -> Users \cup {None}] /\ WalkTypes
      /\ alone \in [Threads -> BOOLEAN]
  BY WalkTypesAre DEF CompleteInv
<1>2. ASSUME NEW x \in Threads \ {t}
      PROVE  /\ ~(alone'[x] /\ pc'[x] # "idle")
             /\ pc'[x] = "idle" /\ user'[x] # None /\ alone'[x] => listing'[x] = FullListing(user'[x])
  <2>1. pc'[x] = pc[x] /\ user'[x] = user[x] /\ listing'[x] = listing[x]
    BY <1>1, OthersAlone DEF Others
  <2>2. alone'[x] => alone[x]
    BY DEF Step, NextTop, Test, ReadEnd, Check, Load, Store, Fetch, Reset, WriteThrows, Begin, history
  <2>3. CASE Step(t) \/ WriteThrows(t)
    <3>1. pc[t] # "idle"
      BY <2>3 DEF Step, NextTop, Test, ReadEnd, Check, Load, Store, Fetch, Reset, WriteThrows, AtPlace
    <3>2. ~(alone[x] /\ pc[x] # "idle")
      BY <3>1 DEF CompleteInv, Undisturbed
    <3> QED
      BY <2>1, <2>2, <3>2 DEF CompleteInv, CompleteListing
  <2>4. ASSUME NEW u \in Users, Begin(t, u) PROVE alone'[x] => pc[x] = "idle"
    BY <2>4 DEF Begin
  <2> QED
    BY <2>1, <2>2, <2>3, <2>4 DEF CompleteInv, CompleteListing
<1>3. /\ alone'[t] /\ pc'[t] # "idle" => Within(t)' /\ \E now : Follows(t, now)'
      /\ pc'[t] = "idle" /\ user'[t] # None /\ alone'[t] => listing'[t] = FullListing(user'[t])
  <2>1. CASE Step(t)
    <3>1. pc[t] # "idle" /\ alone' = alone
      BY <2>1 DEF Step, NextTop, Test, ReadEnd, Check, Load, Store, Fetch, Reset, AtPlace, history
    <3>2. CASE alone[t]
      <4>1. PICK pre : Steady(t, pre)
        BY <3>1, <3>2, AloneIsSteady
      <4> QED
        BY <2>1, <4>1, SteadyStep
    <3> QED
      BY <3>1, <3>2
  <2>2. CASE WriteThrows(t)
    <3>1. pc'[t] = "idle" /\ user'[t] = None
      BY <1>1, <2>2 DEF WriteThrows, Goto
    <3> QED
      BY <3>1
  <2>3. ASSUME NEW u \in Users, Begin(t, u)
        PROVE  pc'[t] # "idle" /\ Within(t)' /\ \E now : Follows(t, now)'
    <3>1. /\ pc[t] = "idle" /\ pc'[t] = "top" /\ user'[t] = u /\ top'[t] = 1 /\ stack' = stack
          /\ listing'[t] = Permitted(TopCommands, u)
      BY <1>1, <2>3, WalkTypesAre DEF Begin, AtPlace, Goto
    <3>2. stack[t] = <<>>
      BY <1>1, <3>1, WalkTypesAre
    <3>3. Within(t)'
      BY <3>1 DEF Within
    <3>4. listing'[t] = TopPart(u, 0) /\ Len(TopGroups) \in Nat
      BY <3>1, TopPartFacts, CatalogueAssumption
    <3>5. PICK now : now = <<>>
      OBVIOUS
    <3>6. now \in Seq(Seq(Lines)) /\ Len(now) = 0 /\ Len(stack[t]) = 0
      BY <3>2, <3>5
    <3>7. Follows(t, now)'
      BY <3>1, <3>4, <3>6 DEF Follows
    <3> QED
      BY <3>1, <3>3, <3>7
  <2> QED
    BY <2>1, <2>2, <2>3
<1>4. \A x \in Threads : OnItsWay(x)'
  BY <1>2, <1>3 DEF OnItsWay
<1>5. CompleteListing'
  BY <1>2, <1>3 DEF CompleteListing
<1> QED
  BY <1>4, <1>5

LEMMA CompleteInit == Init => CompleteInv
<1> SUFFICES ASSUME Init PROVE CompleteInv
  OBVIOUS
<1>1. WalkTypes
  BY TypesInit
<1>2. /\ \A t \in Threads : stack[t] = <<>> /\ pc[t] = "idle" /\ user[t] = None /\ ~alone[t]
      /\ \A g \in CommandGroups, k \in Kinds : it[g][k] = -1
  BY DEF Init
<1>3. AtStart
  BY <1>2 DEF AtStart
<1>4. Climbing
  BY <1>2, ClimbingNowhere, ClimbingIs
<1>5. Undisturbed /\ CompleteListing /\ \A t \in Threads : OnItsWay(t)
  BY <1>2 DEF Undisturbed, CompleteListing, OnItsWay
<1> QED
  BY <1>1, <1>3, <1>4, <1>5 DEF CompleteInv

LEMMA CompleteStutter == CompleteInv /\ UNCHANGED vars => CompleteInv'
<1> SUFFICES ASSUME CompleteInv, UNCHANGED vars PROVE CompleteInv'
  OBVIOUS
<1> USE DEF vars, history
<1>1. WalkTypes'
  BY TypesStutter DEF CompleteInv
<1>2. AtStart' /\ Climbing' /\ Undisturbed' /\ CompleteListing'
  BY DEF CompleteInv, AtStart, Climbing, Undisturbed, CompleteListing, Engaged
<1>3. ASSUME NEW t \in Threads PROVE OnItsWay(t)'
  <2> SUFFICES ASSUME alone[t], pc[t] # "idle" PROVE Within(t)' /\ \E pre : Follows(t, pre)'
    BY DEF OnItsWay
  <2>1. Within(t)
    BY DEF CompleteInv, OnItsWay
  <2>2. PICK pre : Follows(t, pre)
    BY DEF CompleteInv, OnItsWay
  <2>3. Group(t)' = Group(t) /\ Iterator(t)' = Iterator(t) /\ Size(t)' = Size(t) /\ Done(t)' = Done(t)
    BY DEF Group, Iterator, Size, Done
  <2>4. Within(t)'
    BY <2>1, <2>3 DEF Within
  <2>5. \A i : Inner(t, pre, i)' <=> Inner(t, pre, i)
    BY DEF Inner
  <2>6. Follows(t, pre)'
    BY <2>2, <2>3, <2>5 DEF Follows
  <2> QED
    BY <2>4, <2>6
<1> QED
  BY <1>1, <1>2, <1>3 DEF CompleteInv

(* The last thread to leave a group leaves its iterators at the start, and  *)
(* a thread that no other one overlaps has listed the part of the tree that *)
(* the iterators of its groups are past: CompleteInv is inductive.          *)
THEOREM CompleteInductive == Spec => []CompleteInv
<1>1. ASSUME CompleteInv, NEW t \in Threads,
             Step(t) \/ WriteThrows(t) \/ \E u \in Users : Begin(t, u)
      PROVE  CompleteInv'
  <2>1. WalkTypes /\ AtStart /\ Climbing /\ Undisturbed
    BY <1>1 DEF CompleteInv
  <2>2. WalkTypes' /\ AtStart' /\ Climbing' /\ Undisturbed'
    BY <1>1, <2>1, TypesStep, AtStartStep, ClimbingStep, UndisturbedStep
  <2>3. (\A x \in Threads : OnItsWay(x)') /\ CompleteListing'
    BY <1>1, OnItsWayStep
  <2> QED
    BY <2>2, <2>3 DEF CompleteInv
<1>2. ASSUME CompleteInv, [Next]_vars PROVE CompleteInv'
  BY <1>1, <1>2, CompleteStutter DEF Next
<1> QED
  BY CompleteInit, <1>2, PTL DEF Spec

(* A LIST that no other one overlaps shows all the commands the user may    *)
(* execute, each where the tree has it, whatever interleaving of the LISTs  *)
(* before it moved the iterators that it walks with.                        *)
THEOREM ListingIsComplete == Spec => []CompleteListing
<1>1. CompleteInv => CompleteListing
  BY DEF CompleteInv
<1> QED
  BY CompleteInductive, <1>1, PTL

-----------------------------------------------------------------------------
(***************************************************************************)
(* The queries that the window client makes of an answer.                  *)
(***************************************************************************)
(* Commands, and command groups, are told apart by their names; none of a   *)
(* group begins with "end".                                                 *)
NamesDiffer ==
  /\ EndNames = {}
  /\ \A g, h \in CommandGroups : NameOf[g] = NameOf[h] => g = h
  /\ \A c, d \in Commands : NameOf[c] = NameOf[d] => c = d

LEMMA SameSeq ==
  ASSUME NEW S, NEW v \in Seq(S), NEW w \in Seq(S), Len(v) = Len(w),
         \A i \in 1..Len(v) : v[i] = w[i]
  PROVE  v = w
OBVIOUS

LEMMA FrontOfAppended ==
  ASSUME NEW S, NEW v \in Seq(S), NEW x \in S
  PROVE  Front(Append(v, x)) = v
BY DEF Front

(* The first object with its name is an object itself.                      *)
LEMMA FirstIs ==
  ASSUME NEW S, NEW objects \in Seq(S), \A x, y \in S : NameOf[x] = NameOf[y] => x = y,
         NEW x \in ToSet(objects)
  PROVE  x \in First(objects, NameOf[x])
<1> DEFINE T == {i \in 1..Len(objects) : objects[i] = x}
<1>1. Len(objects) \in Nat /\ DOMAIN objects = 1..Len(objects)
      /\ \A i \in 1..Len(objects) : objects[i] \in S
  OBVIOUS
<1>2. T # {} /\ T \subseteq Nat
  BY <1>1 DEF ToSet
<1>3. PICK i \in T : \A m \in T : i <= m
  BY <1>2, LeastNumber
<1>4. i \in 1..Len(objects) /\ objects[i] = x /\ x \in S
  BY <1>1
<1>5. ASSUME NEW k \in 1..(i - 1), NameOf[objects[k]] = NameOf[x] PROVE FALSE
  <2>1. k \in 1..Len(objects) /\ ~(i <= k)
    BY <1>1, <1>4
  <2>2. objects[k] = x
    BY <1>1, <1>4, <1>5, <2>1
  <2> QED
    BY <1>3, <2>1, <2>2
<1>6. i \in {j \in DOMAIN objects :
               NameOf[objects[j]] = NameOf[x] /\ \A k \in 1..(j - 1) : ~(NameOf[objects[k]] = NameOf[x])}
  BY <1>1, <1>4, <1>5
<1> QED
  BY <1>4, <1>6 DEF First, Named

(* The calls of handleSublist, innermost first, and their path in the tree. *)
InTree(open) ==
  \A i \in 1..Len(open) :
    open[i] \in ToSet(IF i = Len(open) THEN TopGroups ELSE GroupsIn[open[i + 1]])

WayTo(open) == [i \in 1..Len(open) |-> open[Len(open) + 1 - i]]
PathOf(open) == [i \in 1..Len(open) |-> NameOf[WayTo(open)[i]]]

AllNames == {NameOf[x] : x \in CommandGroups \cup Commands}

LEMMA WayFacts ==
  ASSUME NEW open \in Seq(CommandGroups)
  PROVE  /\ WayTo(open) \in [1..Len(open) -> CommandGroups]
         /\ PathOf(open) \in Seq(AllNames) /\ Len(PathOf(open)) = Len(open)
         /\ \A i \in 1..Len(open) : PathOf(open)[i] = NameOf[WayTo(open)[i]]
<1> DEFINE n == Len(open)
           w == WayTo(open)
           p == PathOf(open)
<1>1. n \in Nat /\ \A i \in 1..n : open[i] \in CommandGroups
  OBVIOUS
<1>2. ASSUME NEW i \in 1..n PROVE open[n + 1 - i] \in CommandGroups
  <2>1. n + 1 - i \in 1..n
    BY <1>1
  <2> QED
    BY <1>1, <2>1
<1>3. w \in [1..n -> CommandGroups]
  BY <1>2 DEF WayTo
<1> HIDE DEF n, w
<1>4. \A i \in 1..n : NameOf[w[i]] \in AllNames
  BY <1>3 DEF AllNames
<1>5. p = [i \in 1..n |-> NameOf[w[i]]]
  BY DEF PathOf, n, w
<1> HIDE DEF p
<1>6. p \in [1..n -> AllNames] /\ \A i \in 1..n : p[i] = NameOf[w[i]]
  BY <1>4, <1>5
<1>7. p \in Seq(AllNames) /\ Len(p) = n
  BY <1>1, <1>6
<1> QED
  BY <1>3, <1>6, <1>7 DEF n, w, p

(* A group is entered, and left.                                            *)
LEMMA WayEntered ==
  ASSUME NEW open \in Seq(CommandGroups), NEW g \in CommandGroups
  PROVE  /\ PathOf(<<g>> \o open) = Append(PathOf(open), NameOf[g])
         /\ InTree(open) /\ g \in ToSet(IF open = <<>> THEN TopGroups ELSE GroupsIn[Head(open)])
              => InTree(<<g>> \o open)
<1> DEFINE n == Len(open)
           k == n + 1
           more == <<g>> \o open
           p == PathOf(open)
           q == PathOf(more)
<1>1. <<g>> \in Seq(CommandGroups) /\ Len(<<g>>) = 1 /\ <<g>>[1] = g /\ n \in Nat
  OBVIOUS
<1>2. /\ more \in Seq(CommandGroups) /\ Len(more) = k /\ more[1] = g
      /\ \A i \in 1..n : more[i + 1] = open[i]
  OBVIOUS
<1> HIDE DEF more
<1>3. p \in Seq(AllNames) /\ Len(p) = n /\ \A i \in 1..n : p[i] = NameOf[open[n + 1 - i]]
  BY WayFacts DEF WayTo
<1>4. q \in Seq(AllNames) /\ Len(q) = k /\ \A i \in 1..k : q[i] = NameOf[more[k + 1 - i]]
  BY <1>2, WayFacts DEF WayTo
<1> HIDE DEF p, q
<1>5. ASSUME NEW i \in 1..n PROVE q[i] = p[i]
  <2>1. n + 1 - i \in 1..n /\ (n + 1 - i) + 1 = k + 1 - i /\ i \in 1..k
    BY <1>1
  <2>2. more[k + 1 - i] = open[n + 1 - i]
    BY <1>2, <2>1
  <2> QED
    BY <1>3, <1>4, <2>1, <2>2
<1>6. q[k] = NameOf[g]
  <2> HIDE DEF k
  <2>1. k \in 1..k /\ k + 1 - k = 1
    BY <1>1 DEF k
  <2> QED
    BY <1>2, <1>4, <2>1
<1>7. q = Append(p, NameOf[g])
  <2> DEFINE x == NameOf[g]
             a == Append(p, x)
  <2>1. x \in AllNames
    BY DEF AllNames
  <2> HIDE DEF x
  <2>2. a \in Seq(AllNames) /\ Len(a) = k /\ a[k] = x /\ \A i \in 1..n : a[i] = p[i]
    BY <1>3, <2>1
  <2> HIDE DEF a
  <2>3. ASSUME NEW i \in 1..k PROVE q[i] = a[i]
    <3>1. i \in 1..n \/ i = k
      BY <1>1
    <3> QED
      BY <1>5, <1>6, <2>2, <3>1 DEF x
  <2>4. q = a
    BY <1>4, <2>2, <2>3, SameSeq
  <2> QED
    BY <2>4 DEF a, x
<1>8. ASSUME InTree(open), g \in ToSet(IF open = <<>> THEN TopGroups ELSE GroupsIn[Head(open)])
      PROVE  InTree(more)
  <2> SUFFICES ASSUME NEW i \in 1..k
               PROVE  more[i] \in ToSet(IF i = k THEN TopGroups ELSE GroupsIn[more[i + 1]])
    BY <1>2 DEF InTree
  <2>1. CASE i = 1
    <3>1. CASE n = 0
      <4>1. open = <<>>
        BY <3>1
      <4>2. i = k
        BY <2>1, <3>1
      <4> QED
        BY <1>2, <1>8, <2>1, <4>1, <4>2
    <3>2. CASE n # 0
      <4>1. open # <<>> /\ Head(open) = open[1]
        BY <3>2
      <4>2. i # k /\ 1 \in 1..n
        BY <1>1, <2>1, <3>2
      <4>3. more[i + 1] = open[1]
        BY <1>2, <2>1, <4>2
      <4> QED
        BY <1>2, <1>8, <2>1, <4>1, <4>2, <4>3
    <3> QED
      BY <3>1, <3>2
  <2>2. CASE i # 1
    <3> DEFINE j == i - 1
    <3>1. j \in 1..n /\ (i = k <=> j = n) /\ i = j + 1
      BY <1>1, <2>2
    <3>2. open[j] \in ToSet(IF j = n THEN TopGroups ELSE GroupsIn[open[j + 1]])
      BY <1>8, <3>1 DEF InTree
    <3>3. more[i] = open[j]
      BY <1>2, <3>1
    <3>4. ASSUME j # n PROVE more[i + 1] = open[j + 1]
      <4>1. j + 1 \in 1..n
        BY <1>1, <3>1, <3>4
      <4> QED
        BY <1>2, <3>1, <4>1
    <3> QED
      BY <3>1, <3>2, <3>3, <3>4
  <2> QED
    BY <2>1, <2>2
<1> QED
  BY <1>7, <1>8 DEF q, p, more

LEMMA WayLeft ==
  ASSUME NEW open \in Seq(CommandGroups), open # <<>>
  PROVE  /\ Front(PathOf(open)) = PathOf(Tail(open))
         /\ InTree(open) => InTree(Tail(open))
<1> DEFINE n == Len(open)
           g == Head(open)
           rest == Tail(open)
<1>1. /\ g \in CommandGroups /\ rest \in Seq(CommandGroups) /\ n \in Nat /\ n >= 1
      /\ Len(rest) = n - 1 /\ \A i \in 1..(n - 1) : rest[i] = open[i + 1]
  OBVIOUS
<1>2. open = <<g>> \o rest
  OBVIOUS
<1>3. PathOf(open) = Append(PathOf(rest), NameOf[g])
  BY <1>1, <1>2, WayEntered
<1>4. Front(Append(PathOf(rest), NameOf[g])) = PathOf(rest)
  <2> DEFINE p == PathOf(rest)
             x == NameOf[g]
  <2>1. p \in Seq(AllNames) /\ x \in AllNames
    BY <1>1, WayFacts DEF AllNames
  <2> HIDE DEF p, x
  <2>2. Front(Append(p, x)) = p
    BY <2>1, FrontOfAppended
  <2> QED
    BY <2>2 DEF p, x
<1> HIDE DEF rest
<1>5. ASSUME InTree(open) PROVE InTree(rest)
  <2> SUFFICES ASSUME NEW i \in 1..(n - 1)
               PROVE  rest[i] \in ToSet(IF i = n - 1 THEN TopGroups ELSE GroupsIn[rest[i + 1]])
    BY <1>1 DEF InTree
  <2> DEFINE j == i + 1
  <2>1. j \in 1..n /\ (j = n <=> i = n - 1)
    BY <1>1
  <2> HIDE DEF j
  <2>2. open[j] \in ToSet(IF j = n THEN TopGroups ELSE GroupsIn[open[j + 1]])
    BY <1>5, <2>1 DEF InTree
  <2>3. rest[i] = open[j] /\ (i # n - 1 => rest[i + 1] = open[j + 1])
    <3>1. rest[i] = open[j]
      BY <1>1 DEF j
    <3>2. ASSUME i # n - 1 PROVE rest[i + 1] = open[j + 1]
      <4>1. j \in 1..(n - 1)
        BY <1>1, <3>2 DEF j
      <4> QED
        BY <1>1, <4>1 DEF j
    <3> QED
      BY <3>1, <3>2
  <2> QED
    BY <2>1, <2>2, <2>3
<1> QED
  BY <1>3, <1>4, <1>5 DEF rest

(* The innermost of the open groups has a command, or nothing is open and   *)
(* it is at the top.                                                        *)
HasCommand(open, c) ==
  c \in ToSet(IF open = <<>> THEN TopCommands ELSE CommandsIn[Head(open)])

(* Its query is resolved.                                                   *)
LEMMA QueryResolved ==
  ASSUME NamesDiffer, NEW open \in Seq(CommandGroups), InTree(open), NEW c \in Commands, NEW u,
         HasCommand(open, c), CanExecute(c, u)
  PROVE  Resolve(Append(PathOf(open), NameOf[c]), u) = [answer |-> "RUN", cmd |-> c]
<1> DEFINE n == Len(open)
           k == n + 1
           p == PathOf(open)
           x == NameOf[c]
           query == Append(p, x)
           way == WayTo(open)
<1>1. p \in Seq(AllNames) /\ Len(p) = n /\ n \in Nat
      /\ \A i \in 1..n : p[i] = NameOf[way[i]]
  BY WayFacts
<1>2. way \in [1..n -> CommandGroups] /\ \A i \in 1..n : way[i] = open[k - i]
  BY WayFacts DEF WayTo
<1>3. x \in AllNames
  BY DEF AllNames
<1> HIDE DEF p, x
<1>4. /\ query \in Seq(AllNames) /\ Len(query) = k /\ query[k] = x
      /\ \A i \in 1..n : query[i] = p[i]
  BY <1>1, <1>3
<1> HIDE DEF query, way
<1>5. TopGroups \in Seq(CommandGroups) /\ TopCommands \in Seq(Commands)
      /\ \A g \in CommandGroups : GroupsIn[g] \in Seq(CommandGroups) /\ CommandsIn[g] \in Seq(Commands)
  BY CatalogueAssumption
<1>6. ASSUME NEW i \in 1..n
      PROVE  way[i] \in First(IF i = 1 THEN TopGroups ELSE GroupsIn[way[i - 1]], query[i])
  <2> DEFINE j == k - i
  <2>1. j \in 1..n /\ (i = 1 <=> j = n)
    BY <1>1
  <2>2. way[i] = open[j] /\ query[i] = NameOf[way[i]]
    BY <1>1, <1>2, <1>4
  <2>3. ASSUME i # 1 PROVE way[i - 1] = open[j + 1] /\ open[j + 1] \in CommandGroups
    <3>1. i - 1 \in 1..n /\ k - (i - 1) = j + 1 /\ j + 1 \in 1..n
      BY <1>1, <2>3
    <3> QED
      BY <1>2, <3>1
  <2> HIDE DEF j
  <2>4. open[j] \in ToSet(IF j = n THEN TopGroups ELSE GroupsIn[open[j + 1]])
    BY <2>1 DEF InTree
  <2> DEFINE objects == IF i = 1 THEN TopGroups ELSE GroupsIn[way[i - 1]]
  <2>5. objects \in Seq(CommandGroups) /\ way[i] \in ToSet(objects)
    BY <1>5, <2>1, <2>2, <2>3, <2>4
  <2> HIDE DEF objects
  <2>6. way[i] \in First(objects, NameOf[way[i]])
    BY <2>5, FirstIs DEF NamesDiffer
  <2> QED
    BY <2>2, <2>6 DEF objects
<1>7. way \in Ways(query)
  <2>1. Len(query) - 1 = n /\ DOMAIN way = 1..n
    BY <1>1, <1>2, <1>4
  <2> QED
    BY <1>2, <1>6, <2>1 DEF Ways
<1>8. c \in First(IF Len(query) = 1 THEN TopCommands ELSE CommandsIn[way[Len(query) - 1]],
                  query[Len(query)])
  <2> DEFINE objects == IF Len(query) = 1 THEN TopCommands ELSE CommandsIn[way[Len(query) - 1]]
  <2>1. objects \in Seq(Commands) /\ c \in ToSet(objects)
    <3>1. CASE n = 0
      <4>1. open = <<>> /\ Len(query) = 1
        BY <1>4, <3>1
      <4> QED
        BY <1>5, <4>1 DEF HasCommand
    <3>2. CASE n # 0
      <4>1. open # <<>> /\ Head(open) = open[1]
        BY <3>2
      <4>2. Len(query) # 1 /\ Len(query) - 1 = n /\ n \in 1..n /\ k - n = 1
        BY <1>1, <1>4, <3>2
      <4>3. way[Len(query) - 1] = open[1] /\ open[1] \in CommandGroups
        BY <1>2, <4>2
      <4> QED
        BY <1>5, <4>1, <4>2, <4>3 DEF HasCommand
    <3> QED
      BY <3>1, <3>2
  <2>2. query[Len(query)] = NameOf[c]
    BY <1>4 DEF x
  <2> HIDE DEF objects
  <2>3. c \in First(objects, NameOf[c])
    BY <2>1, FirstIs DEF NamesDiffer
  <2> QED
    BY <2>2, <2>3 DEF objects
<1>9. c \in Target(query)
  BY <1>7, <1>8 DEF Target
<1>10. ~(Len(query) > 1 /\ First(TopGroups, query[1]) = {})
  <2> SUFFICES ASSUME k > 1 PROVE First(TopGroups, query[1]) # {}
    BY <1>4
  <2>1. 1 \in 1..n
    BY <1>1
  <2>2. way[1] \in First(TopGroups, query[1])
    BY <1>6, <2>1
  <2> QED
    BY <2>2
<1>11. {d \in Target(query) : CanExecute(d, u)} = {c}
  <2> SUFFICES ASSUME NEW d \in Target(query) PROVE d = c
    BY <1>9
  <2>1. PICK w \in Ways(query) :
          d \in First(IF Len(query) = 1 THEN TopCommands ELSE CommandsIn[w[Len(query) - 1]],
                      query[Len(query)])
    BY DEF Target
  <2> DEFINE objects == IF Len(query) = 1 THEN TopCommands ELSE CommandsIn[w[Len(query) - 1]]
  <2>2. objects \in Seq(Commands)
    <3>1. CASE n = 0
      BY <1>4, <1>5, <3>1
    <3>2. CASE n # 0
      <4>1. Len(query) - 1 = n /\ Len(query) # 1 /\ n \in 1..n
        BY <1>1, <1>4, <3>2
      <4>2. w[n] \in CommandGroups
        BY <2>1, <4>1 DEF Ways
      <4> QED
        BY <1>5, <4>1, <4>2
    <3> QED
      BY <3>1, <3>2
  <2>3. d \in First(objects, x)
    BY <1>4, <2>1
  <2> HIDE DEF objects
  <2>4. d \in Commands /\ NameOf[d] = x
    BY <2>2, <2>3 DEF First, Named
  <2> QED
    BY <2>4 DEF NamesDiffer, x
<1>12. Resolve(query, u) = [answer |-> "RUN", cmd |-> c]
  <2>1. (CHOOSE d \in {c} : TRUE) = c
    OBVIOUS
  <2> QED
    BY <1>10, <1>11, <2>1 DEF Resolve
<1> QED
  BY <1>12 DEF query, p, x

(* The query of a command, wherever the command is.                         *)
QueryOf(query, c) ==
  \E open \in Seq(CommandGroups) :
    InTree(open) /\ HasCommand(open, c) /\ query = Append(PathOf(open), NameOf[c])
(* Parse, as the last of what the dialog has after each line.               *)
Queries == Seq(Seq(AllNames))
ParsedSet == [parts : Seq(AllNames), queries : Queries, ok : BOOLEAN]

ParsesTo(f, lines, n) ==
  /\ f[0] = NothingParsed
  /\ \A i \in 1..n : f[i] = ParseLine(f[i - 1], lines[i])

(* What each kind of line does, if no group's name begins with "end".       *)
LEMMA LineParsed ==
  ASSUME NamesDiffer, NEW at \in ParsedSet
  PROVE  /\ ParseLine(at, End) = [parts |-> Front(at.parts), queries |-> at.queries,
                                  ok |-> at.ok /\ at.parts # <<>>]
         /\ \A g \in CommandGroups :
              ParseLine(at, Open(g)) = [parts |-> Append(at.parts, NameOf[g]),
                                        queries |-> at.queries, ok |-> at.ok]
         /\ \A c \in Commands :
              ParseLine(at, Item(c)) = [parts |-> at.parts, ok |-> at.ok,
                 queries |-> Append(at.queries, Append(at.parts, NameOf[c]))]
<1>1. EndNames = {}
  BY DEF NamesDiffer
<1>2. at = [parts |-> at.parts, queries |-> at.queries, ok |-> at.ok]
  BY DEF ParsedSet
<1>3. ParseLine(at, End) = [parts |-> Front(at.parts), queries |-> at.queries,
                            ok |-> at.ok /\ at.parts # <<>>]
  <2>1. Closes(End)
    BY LinesFacts DEF Closes
  <2> QED
    BY <1>2, <2>1 DEF ParseLine
<1>4. ASSUME NEW g \in CommandGroups
      PROVE  ParseLine(at, Open(g)) = [parts |-> Append(at.parts, NameOf[g]),
                                       queries |-> at.queries, ok |-> at.ok]
  <2>1. Open(g)[1] = "open" /\ Open(g)[2] = g
    BY LinesFacts
  <2>2. ~Closes(Open(g))
    BY <1>1, <2>1 DEF Closes
  <2> QED
    BY <1>2, <2>1, <2>2 DEF ParseLine
<1>5. ASSUME NEW c \in Commands
      PROVE  ParseLine(at, Item(c)) = [parts |-> at.parts, ok |-> at.ok,
                 queries |-> Append(at.queries, Append(at.parts, NameOf[c]))]
  <2>1. Item(c)[1] = "command" /\ Item(c)[2] = c
    BY LinesFacts
  <2>2. ~Closes(Item(c)) /\ Item(c)[1] # "open"
    BY <2>1 DEF Closes
  <2> QED
    BY <1>2, <2>1, <2>2 DEF ParseLine
<1> QED
  BY <1>3, <1>4, <1>5

LEMMA ParsedType ==
  ASSUME NamesDiffer, NEW at \in ParsedSet, NEW line \in Lines
  PROVE  ParseLine(at, line) \in ParsedSet
<1>1. at.parts \in Seq(AllNames) /\ at.queries \in Queries /\ at.ok \in BOOLEAN
  BY DEF ParsedSet
<1>2. Front(at.parts) \in Seq(AllNames)
  BY <1>1 DEF Front
<1>3. CASE line = End
  <2>1. ParseLine(at, line) = [parts |-> Front(at.parts), queries |-> at.queries,
                               ok |-> at.ok /\ at.parts # <<>>]
    BY <1>3, LineParsed
  <2> DEFINE ok == at.ok /\ at.parts # <<>>
  <2>2. ok \in BOOLEAN
    OBVIOUS
  <2> HIDE DEF ok
  <2>3. ParseLine(at, line) = [parts |-> Front(at.parts), queries |-> at.queries, ok |-> ok]
    BY <2>1 DEF ok
  <2> QED
    BY <1>1, <1>2, <2>2, <2>3 DEF ParsedSet
<1>4. CASE \E g \in CommandGroups : line = Open(g)
  <2>1. PICK g \in CommandGroups : line = Open(g)
    BY <1>4
  <2>2. NameOf[g] \in AllNames
    BY DEF AllNames
  <2>3. Append(at.parts, NameOf[g]) \in Seq(AllNames)
    BY <1>1, <2>2
  <2>4. ParseLine(at, line) = [parts |-> Append(at.parts, NameOf[g]),
                               queries |-> at.queries, ok |-> at.ok]
    BY <2>1, LineParsed
  <2> QED
    BY <1>1, <2>3, <2>4 DEF ParsedSet
<1>5. CASE \E c \in Commands : line = Item(c)
  <2>1. PICK c \in Commands : line = Item(c)
    BY <1>5
  <2> DEFINE x == NameOf[c]
             query == Append(at.parts, x)
             queries == Append(at.queries, query)
  <2>2. x \in AllNames
    BY DEF AllNames
  <2> HIDE DEF x
  <2>3. query \in Seq(AllNames)
    BY <1>1, <2>2
  <2> HIDE DEF query
  <2>4. queries \in Queries
    BY <1>1, <2>3 DEF Queries
  <2>5. ParseLine(at, line) = [parts |-> at.parts, ok |-> at.ok, queries |-> queries]
    BY <2>1, LineParsed DEF query, x
  <2> HIDE DEF queries
  <2> QED
    BY <1>1, <2>4, <2>5 DEF ParsedSet
<1> QED
  BY <1>3, <1>4, <1>5 DEF Lines

LEMMA ParsingFollows ==
  ASSUME NamesDiffer, NEW lines \in Seq(Lines)
  PROVE  \E f \in [0..Len(lines) -> ParsedSet] :
           ParsesTo(f, lines, Len(lines)) /\ Parse(lines) = f[Len(lines)]
<1> DEFINE n == Len(lines)
           c == NothingParsed
           F == [p \in (1..n) \X ParsedSet |-> ParseLine(p[2], lines[p[1]])]
           After(f) == f = [i \in 0..n |-> IF i = 0 THEN c ELSE ParseLine(f[i - 1], lines[i])]
           after == CHOOSE f : After(f)
<1>1. n \in Nat /\ c \in ParsedSet /\ \A i \in 1..n : lines[i] \in Lines
  BY DEF ParsedSet, NothingParsed, Queries
<1>2. F \in [(1..n) \X ParsedSet -> ParsedSet]
  BY <1>1, ParsedType
<1>3. PICK f \in [0..n -> ParsedSet] : Iterates(f, c, F, n)
  BY <1>1, <1>2, RecursionExists
<1> HIDE DEF c
<1>4. ASSUME NEW i \in 0..n
      PROVE  f[i] = IF i = 0 THEN c ELSE ParseLine(f[i - 1], lines[i])
  <2>1. f[i] = IF i = 0 THEN c ELSE F[<<i, f[i - 1]>>]
    BY <1>3 DEF Iterates
  <2>2. i # 0 => i \in 1..n /\ i - 1 \in 0..n
    BY <1>1
  <2> QED
    BY <2>1, <2>2
<1>5. After(f)
  BY <1>4
<1>6. After(after)
  BY <1>5
<1>7. Parse(lines) = after[n]
  BY DEF Parse, c
<1> HIDE DEF after
<1>8. \A i \in 0..n : after[i] = IF i = 0 THEN c ELSE ParseLine(after[i - 1], lines[i])
  BY <1>6
<1>9. \A i \in 0..n : after[i] = f[i]
  <2>1. 0 \in 0..n
    BY <1>1
  <2>2. after[0] = f[0]
    BY <1>4, <1>8, <2>1
  <2>3. ASSUME NEW i \in 1..n, after[i - 1] = f[i - 1]
        PROVE  after[i] = f[i]
    <3>1. i \in 0..n /\ i # 0
      BY <1>1
    <3> QED
      BY <1>4, <1>8, <2>3, <3>1
  <2>4. StepsAlike(after, f, n)
    BY <2>2, <2>3 DEF StepsAlike
  <2> QED
    BY <1>1, <2>4, SameUpTo
<1>10. ParsesTo(f, lines, n)
  <2>1. 0 \in 0..n
    BY <1>1
  <2>2. f[0] = c
    BY <1>4, <2>1
  <2>3. ASSUME NEW i \in 1..n
        PROVE  f[i] = ParseLine(f[i - 1], lines[i])
    <3>1. i \in 0..n /\ i # 0
      BY <1>1
    <3> QED
      BY <1>4, <3>1
  <2> QED
    BY <2>2, <2>3 DEF ParsesTo, c
<1>11. n \in 0..n
  BY <1>1
<1> QED
  BY <1>3, <1>7, <1>9, <1>10, <1>11

(* The dialog agrees with the server on the groups that are open, each      *)
(* query is that of a command the user may execute, and each command that   *)
(* was listed has one.                                                      *)
MayAsk(query, u) == \E c \in Commands : QueryOf(query, c) /\ CanExecute(c, u)
MayAskAll(queries, u) == \A i \in 1..Len(queries) : MayAsk(queries[i], u)

AsksFor(queries, c) == \E i \in 1..Len(queries) : QueryOf(queries[i], c)
AsksForAll(queries, lines, n) ==
  \A k \in 1..n : \A c \in Commands : lines[k] = Item(c) => AsksFor(queries, c)

Agrees(parsed, at, u) ==
  at.ok => /\ parsed.ok /\ parsed.parts = PathOf(at.open) /\ InTree(at.open)
           /\ MayAskAll(parsed.queries, u)

LEMMA OneMoreQuery ==
  ASSUME NEW queries \in Queries, NEW query \in Seq(AllNames)
  PROVE  /\ \A u : MayAskAll(queries, u) /\ MayAsk(query, u)
                     => MayAskAll(Append(queries, query), u)
         /\ \A c \in Commands : AsksFor(queries, c) \/ QueryOf(query, c)
                     => AsksFor(Append(queries, query), c)
<1> DEFINE n == Len(queries)
           more == Append(queries, query)
<1>1. /\ n \in Nat /\ Len(more) = n + 1 /\ \A i \in 1..n : more[i] = queries[i]
      /\ more[n + 1] = query
  BY DEF Queries
<1> HIDE DEF more
<1>2. ASSUME NEW u, MayAskAll(queries, u), MayAsk(query, u), NEW i \in 1..(n + 1)
      PROVE  MayAsk(more[i], u)
  <2>1. CASE i \in 1..n
    BY <1>1, <1>2, <2>1 DEF MayAskAll
  <2>2. CASE i = n + 1
    BY <1>1, <1>2, <2>2
  <2> QED
    BY <1>1, <2>1, <2>2
<1>3. ASSUME NEW c \in Commands, AsksFor(queries, c) \/ QueryOf(query, c)
      PROVE  AsksFor(more, c)
  <2>1. CASE AsksFor(queries, c)
    <3>1. PICK i \in 1..n : QueryOf(queries[i], c)
      BY <2>1 DEF AsksFor
    <3>2. i \in 1..(n + 1) /\ QueryOf(more[i], c)
      BY <1>1, <3>1
    <3> QED
      BY <1>1, <3>2 DEF AsksFor
  <2>2. CASE QueryOf(query, c)
    <3>1. n + 1 \in 1..(n + 1) /\ QueryOf(more[n + 1], c)
      BY <1>1, <2>2
    <3> QED
      BY <1>1, <3>1 DEF AsksFor
  <2> QED
    BY <1>3, <2>1, <2>2
<1>4. ASSUME NEW u, MayAskAll(queries, u), MayAsk(query, u)
      PROVE  MayAskAll(more, u)
  BY <1>1, <1>2, <1>4 DEF MayAskAll
<1> QED
  BY <1>3, <1>4 DEF more

LEMMA PlaceOk ==
  ASSUME NEW at, NEW here \in BOOLEAN, \E open : at = [open |-> open, ok |-> here], at.ok
  PROVE  here
OBVIOUS

LEMMA AgreesOn ==
  ASSUME NamesDiffer, NEW parsed \in ParsedSet, NEW at \in Nestings, NEW u,
         Agrees(parsed, at, u), NEW line \in Lines,
         line[1] = "command" => CanExecute(line[2], u)
  PROVE  /\ Agrees(ParseLine(parsed, line), Place(at, line), u)
         /\ Place(at, line).ok => 
              /\ at.ok
              /\ \A c \in Commands : AsksFor(parsed.queries, c) \/ line = Item(c)
                                       => AsksFor(ParseLine(parsed, line).queries, c)
<1> DEFINE then == Place(at, line)
           next == ParseLine(parsed, line)
<1> SUFFICES ASSUME then.ok
             PROVE  next.ok /\ next.parts = PathOf(then.open) /\ InTree(then.open)
                    /\ MayAskAll(next.queries, u) /\ at.ok
                    /\ \A c \in Commands : AsksFor(parsed.queries, c) \/ line = Item(c)
                                             => AsksFor(next.queries, c)
  BY DEF Agrees
<1>1. at.ok
  BY DEF Place
<1>2. at.open \in Seq(CommandGroups) /\ at = [open |-> at.open, ok |-> at.ok]
  BY DEF Nestings
<1>3. parsed.ok /\ parsed.parts = PathOf(at.open) /\ InTree(at.open)
      /\ MayAskAll(parsed.queries, u)
  BY <1>1 DEF Agrees
<1>4. parsed.queries \in Queries
  BY DEF ParsedSet
<1>5. CASE line = End
  <2>1. then = [open |-> IF at.open = <<>> THEN <<>> ELSE Tail(at.open), ok |-> at.open # <<>>]
    BY <1>1, <1>5, LinesFacts DEF Place
  <2>2. at.open # <<>> /\ then.open = Tail(at.open)
    <3> DEFINE here == at.open # <<>>
    <3>1. here \in BOOLEAN
      OBVIOUS
    <3>2. here
      <4> HIDE DEF here, then
      <4>1. \E open : then = [open |-> open, ok |-> here]
        BY <2>1 DEF here
      <4> QED
        BY <3>1, <4>1, PlaceOk
    <3>3. then.open = IF at.open = <<>> THEN <<>> ELSE Tail(at.open)
      BY <2>1
    <3> QED
      BY <3>2, <3>3
  <2>3. next = [parts |-> Front(parsed.parts), queries |-> parsed.queries,
                ok |-> parsed.ok /\ parsed.parts # <<>>]
    BY <1>5, LineParsed
  <2>4. parsed.parts # <<>>
    <3>1. Len(parsed.parts) = Len(at.open)
      BY <1>2, <1>3, WayFacts
    <3>2. Len(at.open) # 0
      BY <1>2, <2>2
    <3> QED
      BY <3>1, <3>2
  <2>5. Front(PathOf(at.open)) = PathOf(Tail(at.open)) /\ InTree(Tail(at.open))
    BY <1>2, <1>3, <2>2, WayLeft
  <2>6. next.ok
    <3>1. next.ok = (parsed.ok /\ parsed.parts # <<>>)
      BY <2>3
    <3> QED
      BY <1>3, <2>4, <3>1
  <2>7. next.parts = Front(parsed.parts) /\ next.queries = parsed.queries
    BY <2>3
  <2>8. \A c \in Commands : line # Item(c)
    BY <1>5, LinesFacts
  <2> QED
    BY <1>1, <1>3, <2>2, <2>5, <2>6, <2>7, <2>8
<1>6. CASE \E g \in CommandGroups : line = Open(g)
  <2>1. PICK g \in CommandGroups : line = Open(g)
    BY <1>6
  <2>2. line[1] = "open" /\ line[2] = g
    BY <2>1, LinesFacts
  <2>3. then = [open |-> <<g>> \o at.open,
                ok |-> g \in ToSet(IF at.open = <<>> THEN TopGroups ELSE GroupsIn[Head(at.open)])]
    BY <1>1, <2>2 DEF Place
  <2>4. g \in ToSet(IF at.open = <<>> THEN TopGroups ELSE GroupsIn[Head(at.open)])
        /\ then.open = <<g>> \o at.open
    <3> DEFINE here == g \in ToSet(IF at.open = <<>> THEN TopGroups ELSE GroupsIn[Head(at.open)])
    <3>1. here \in BOOLEAN
      OBVIOUS
    <3>2. here
      <4> HIDE DEF here, then
      <4>1. \E open : then = [open |-> open, ok |-> here]
        BY <2>3 DEF here
      <4> QED
        BY <3>1, <4>1, PlaceOk
    <3>3. then.open = <<g>> \o at.open
      BY <2>3
    <3> QED
      BY <3>2, <3>3
  <2>5. PathOf(<<g>> \o at.open) = Append(PathOf(at.open), NameOf[g]) /\ InTree(<<g>> \o at.open)
    BY <1>2, <1>3, <2>4, WayEntered
  <2>6. next = [parts |-> Append(parsed.parts, NameOf[g]), queries |-> parsed.queries,
                ok |-> parsed.ok]
    BY <2>1, LineParsed
  <2>7. \A c \in Commands : line # Item(c)
    BY <2>2, LinesFacts
  <2> QED
    BY <1>1, <1>3, <2>4, <2>5, <2>6, <2>7
<1>7. CASE \E c \in Commands : line = Item(c)
  <2>1. PICK c \in Commands : line = Item(c)
    BY <1>7
  <2>2. line[1] = "command" /\ line[2] = c
    BY <2>1, LinesFacts
  <2>3. then = [open |-> at.open,
                ok |-> c \in ToSet(IF at.open = <<>> THEN TopCommands ELSE CommandsIn[Head(at.open)])]
    BY <1>1, <2>2 DEF Place
  <2>4. c \in ToSet(IF at.open = <<>> THEN TopCommands ELSE CommandsIn[Head(at.open)])
        /\ then.open = at.open
    <3> DEFINE here == c \in ToSet(IF at.open = <<>> THEN TopCommands ELSE CommandsIn[Head(at.open)])
    <3>1. here \in BOOLEAN
      OBVIOUS
    <3>2. here
      <4> HIDE DEF here, then
      <4>1. \E open : then = [open |-> open, ok |-> here]
        BY <2>3 DEF here
      <4> QED
        BY <3>1, <4>1, PlaceOk
    <3>3. then.open = at.open
      BY <2>3
    <3> QED
      BY <3>2, <3>3
  <2> DEFINE query == Append(parsed.parts, NameOf[c])
             queries == Append(parsed.queries, query)
  <2>5. QueryOf(query, c) /\ MayAsk(query, u)
    <3>1. HasCommand(at.open, c)
      BY <2>4 DEF HasCommand
    <3>2. QueryOf(query, c)
      BY <1>2, <1>3, <3>1 DEF QueryOf
    <3> QED
      BY <2>2, <3>2 DEF MayAsk
  <2>6. next = [parts |-> parsed.parts, ok |-> parsed.ok, queries |-> queries]
    BY <2>1, LineParsed
  <2>7. query \in Seq(AllNames)
    <3> DEFINE x == NameOf[c]
    <3>1. x \in AllNames
      BY DEF AllNames
    <3> HIDE DEF x
    <3>2. parsed.parts \in Seq(AllNames)
      BY DEF ParsedSet
    <3>3. Append(parsed.parts, x) \in Seq(AllNames)
      BY <3>1, <3>2
    <3> QED
      BY <3>3 DEF x
  <2> HIDE DEF query
  <2>8. MayAskAll(queries, u)
        /\ \A d \in Commands : AsksFor(parsed.queries, d) \/ QueryOf(query, d)
                                 => AsksFor(queries, d)
    BY <1>3, <1>4, <2>5, <2>7, OneMoreQuery
  <2>9. \A d \in Commands : line = Item(d) => d = c
    BY <2>2, LinesFacts
  <2>10. \A d \in Commands : AsksFor(parsed.queries, d) \/ line = Item(d) => AsksFor(queries, d)
    BY <2>5, <2>8, <2>9
  <2> HIDE DEF queries
  <2>11. /\ next.ok = parsed.ok /\ next.parts = parsed.parts /\ next.queries = queries
    BY <2>6
  <2> QED
    BY <1>1, <1>3, <2>4, <2>8, <2>10, <2>11
<1> QED
  BY <1>5, <1>6, <1>7 DEF Lines

LEMMA ParsedRuns ==
  ASSUME NamesDiffer, NEW lines \in Seq(Lines), NEW u, Nesting(lines).ok, Executable(lines, u)
  PROVE  /\ Parse(lines) \in ParsedSet
         /\ Parse(lines).ok /\ MayAskAll(Parse(lines).queries, u)
         /\ AsksForAll(Parse(lines).queries, lines, Len(lines))
<1> DEFINE n == Len(lines)
<1>1. n \in Nat /\ \A i \in 1..n : lines[i] \in Lines
  OBVIOUS
<1>2. PICK f \in [0..n -> ParsedSet] : ParsesTo(f, lines, n) /\ Parse(lines) = f[n]
  BY ParsingFollows
<1>3. PICK g \in [0..n -> Nestings] : NestsTo(g, lines, n) /\ Nesting(lines) = g[n]
  BY NestingFollows
<1> DEFINE Good(i) == Agrees(f[i], g[i], u) /\ (g[i].ok => AsksForAll(f[i].queries, lines, i))
           S == {i \in Nat : i <= n => Good(i)}
<1>4. 0 \in S
  <2>1. f[0] = NothingParsed /\ g[0] = [open |-> <<>>, ok |-> TRUE]
    BY <1>2, <1>3 DEF ParsesTo, NestsTo
  <2>2. PathOf(<<>>) = <<>> /\ InTree(<<>>)
    BY DEF PathOf, InTree
  <2>3. MayAskAll(<<>>, u)
    BY DEF MayAskAll
  <2>4. Agrees(f[0], g[0], u)
    BY <2>1, <2>2, <2>3 DEF Agrees, NothingParsed
  <2>5. AsksForAll(f[0].queries, lines, 0)
    BY DEF AsksForAll
  <2> QED
    BY <2>4, <2>5
<1>5. ASSUME NEW i \in Nat, i \in S PROVE i + 1 \in S
  <2> SUFFICES ASSUME i + 1 <= n PROVE Good(i + 1)
    OBVIOUS
  <2> DEFINE k == i + 1
  <2>1. k \in 1..n /\ k - 1 = i /\ i \in 0..n /\ Good(i)
    BY <1>1, <1>5
  <2> HIDE DEF k
  <2>2. f[k] = ParseLine(f[i], lines[k]) /\ g[k] = Place(g[i], lines[k])
    BY <1>2, <1>3, <2>1 DEF ParsesTo, NestsTo
  <2>3. lines[k] \in Lines /\ (lines[k][1] = "command" => CanExecute(lines[k][2], u))
    BY <1>1, <2>1 DEF Executable
  <2>4. f[i] \in ParsedSet /\ g[i] \in Nestings
    BY <2>1
  <2>5. /\ Agrees(f[k], g[k], u)
        /\ g[k].ok => /\ g[i].ok
                      /\ \A c \in Commands : AsksFor(f[i].queries, c) \/ lines[k] = Item(c)
                                               => AsksFor(f[k].queries, c)
    BY <2>1, <2>2, <2>3, <2>4, AgreesOn
  <2>6. ASSUME g[k].ok PROVE AsksForAll(f[k].queries, lines, k)
    <3> SUFFICES ASSUME NEW j \in 1..k, NEW c \in Commands, lines[j] = Item(c)
                 PROVE  AsksFor(f[k].queries, c)
      BY DEF AsksForAll
    <3>1. CASE j = k
      BY <2>5, <2>6, <3>1
    <3>2. CASE j # k
      <4>1. j \in 1..i
        BY <2>1, <3>2
      <4>2. AsksFor(f[i].queries, c)
        BY <2>1, <2>5, <2>6, <4>1 DEF AsksForAll
      <4> QED
        BY <2>5, <2>6, <4>2
    <3> QED
      BY <3>1, <3>2
  <2> QED
    BY <2>5, <2>6 DEF k
<1> HIDE DEF S
<1>6. Nat \subseteq S
  BY <1>4, <1>5, NaturalInduction
<1>7. Good(n) /\ n \in 0..n
  BY <1>1, <1>6 DEF S
<1> QED
  BY <1>2, <1>3, <1>7 DEF Agrees

(* What the dialog knows of an answer that was given.                       *)
LEMMA AnswerParsed ==
  ASSUME NamesDiffer, SoundInv, NEW t \in Answered
  PROVE  /\ t \in Threads /\ user[t] # None /\ listing[t] \in Seq(Lines)
         /\ Parse(listing[t]) \in ParsedSet
         /\ Parse(listing[t]).ok /\ MayAskAll(Parse(listing[t]).queries, user[t])
         /\ AsksForAll(Parse(listing[t]).queries, listing[t], Len(listing[t]))
<1>1. t \in Threads /\ user[t] # None
  BY DEF Answered
<1>2. Nesting(listing[t]).ok /\ Executable(listing[t], user[t])
  <2>1. Sound(listing[t], stack[t], user[t])
    BY <1>1 DEF SoundInv
  <2>2. Nesting(listing[t]) = [open |-> stack[t], ok |-> TRUE] /\ Executable(listing[t], user[t])
    BY <2>1 DEF Sound
  <2> QED
    BY <2>2
<1>3. listing[t] \in Seq(Lines)
  BY <1>1, WalkTypesAre DEF SoundInv
<1> QED
  BY <1>1, <1>2, <1>3, ParsedRuns

LEMMA AskedRuns ==
  ASSUME NamesDiffer, NEW query, NEW u, MayAsk(query, u)
  PROVE  Resolve(query, u).answer = "RUN"
<1>1. PICK c \in Commands : QueryOf(query, c) /\ CanExecute(c, u)
  BY DEF MayAsk
<1>2. PICK open \in Seq(CommandGroups) :
        InTree(open) /\ HasCommand(open, c) /\ query = Append(PathOf(open), NameOf[c])
  BY <1>1 DEF QueryOf
<1>3. Resolve(query, u) = [answer |-> "RUN", cmd |-> c]
  BY <1>1, <1>2, QueryResolved
<1> QED
  BY <1>3

(* If commands and groups are told apart by their names, and none of a      *)
(* group begins with "end", the window client understands every answer,     *)
(* also one that was disturbed: the brackets match, and each query it makes *)
(* of the answer is one for which the server runs a command for the user.   *)
THEOREM QueriesAreRun == NamesDiffer => (Spec => []QueriesRun)
<1> SUFFICES ASSUME NamesDiffer PROVE Spec => []QueriesRun
  OBVIOUS
<1>1. SoundInv => QueriesRun
  <2> SUFFICES ASSUME SoundInv, NEW t \in Answered
               PROVE  /\ Parse(listing[t]).ok
                      /\ \A i \in DOMAIN Parse(listing[t]).queries :
                           Resolve(Parse(listing[t]).queries[i], user[t]).answer = "RUN"
    BY DEF QueriesRun
  <2>1. Parse(listing[t]).ok /\ MayAskAll(Parse(listing[t]).queries, user[t])
        /\ Parse(listing[t]) \in ParsedSet
    BY AnswerParsed
  <2>2. DOMAIN Parse(listing[t]).queries = 1..Len(Parse(listing[t]).queries)
    BY <2>1 DEF ParsedSet, Queries
  <2> QED
    BY <2>1, <2>2, AskedRuns DEF MayAskAll
<1> QED
  BY SoundInductive, <1>1, PTL

-----------------------------------------------------------------------------
(***************************************************************************)
(* The tree that the window client makes of the answers of some servers.   *)
(***************************************************************************)
(* The queries that all answers have are those of the first one that all    *)
(* have, and no others.                                                     *)
Shared(answers, queries, n) ==
  /\ \A j \in 1..Len(queries) : InAll(answers, queries[j])
  /\ \A k \in 1..n : InAll(answers, Head(answers)[k]) => Contains(queries, Head(answers)[k])

LEMMA ContainsMore ==
  ASSUME NEW S, NEW s \in Seq(S), NEW x \in S
  PROVE  /\ Append(s, x) \in Seq(S) /\ Contains(Append(s, x), x)
         /\ \A y : Contains(s, y) => Contains(Append(s, x), y)
<1> DEFINE n == Len(s)
           more == Append(s, x)
<1>1. /\ n \in Nat /\ more \in Seq(S) /\ Len(more) = n + 1 /\ more[n + 1] = x
      /\ \A i \in 1..n : more[i] = s[i]
  OBVIOUS
<1> HIDE DEF more
<1>2. n + 1 \in 1..Len(more)
  BY <1>1
<1>3. ASSUME NEW y, Contains(s, y) PROVE Contains(more, y)
  <2>1. PICK i \in 1..n : s[i] = y
    BY <1>3 DEF Contains
  <2>2. i \in 1..Len(more) /\ more[i] = y
    BY <1>1, <2>1
  <2> QED
    BY <2>2 DEF Contains
<1> QED
  BY <1>1, <1>2, <1>3 DEF Contains, more

LEMMA CommonIs ==
  ASSUME NEW answers \in Seq(Queries), answers # <<>>
  PROVE  /\ Common(answers) \in Queries
         /\ Shared(answers, Common(answers), Len(Head(answers)))
<1> DEFINE first == Head(answers)
           n == Len(first)
           F == [p \in (1..n) \X Queries |-> IF InAll(answers, first[p[1]])
                                             THEN Append(p[2], first[p[1]]) ELSE p[2]]
           Keeps(f) == f = [i \in 0..n |-> IF i = 0 THEN <<>>
                                 ELSE IF InAll(answers, first[i]) THEN Append(f[i - 1], first[i])
                                 ELSE f[i - 1]]
           common == CHOOSE f : Keeps(f)
<1>1. first \in Queries
  OBVIOUS
<1> HIDE DEF first
<1>2. n \in Nat /\ <<>> \in Queries /\ \A i \in 1..n : first[i] \in Seq(AllNames)
  BY <1>1 DEF Queries
<1>3. F \in [(1..n) \X Queries -> Queries]
  <2>1. ASSUME NEW i \in 1..n, NEW s \in Queries
        PROVE  Append(s, first[i]) \in Queries
    BY <1>2 DEF Queries
  <2> QED
    BY <2>1
<1>4. PICK f \in [0..n -> Queries] : Iterates(f, <<>>, F, n)
  BY <1>2, <1>3, RecursionExists
<1>5. /\ f[0] = <<>>
      /\ \A i \in 1..n : f[i] = IF InAll(answers, first[i]) THEN Append(f[i - 1], first[i])
                                ELSE f[i - 1]
  <2>1. ASSUME NEW i \in 1..n
        PROVE  f[i] = IF InAll(answers, first[i]) THEN Append(f[i - 1], first[i])
                      ELSE f[i - 1]
    <3>1. i \in 0..n /\ i # 0 /\ i - 1 \in 0..n
      BY <1>2
    <3>2. f[i] = F[<<i, f[i - 1]>>] /\ f[i - 1] \in Queries
      BY <1>4, <3>1 DEF Iterates
    <3> QED
      BY <3>2
  <2>2. 0 \in 0..n
    BY <1>2
  <2> QED
    BY <1>4, <2>1, <2>2 DEF Iterates
<1>6. Keeps(f)
  <2>1. ASSUME NEW i \in 0..n
        PROVE  f[i] = IF i = 0 THEN <<>>
                      ELSE IF InAll(answers, first[i]) THEN Append(f[i - 1], first[i])
                      ELSE f[i - 1]
    <3>1. i = 0 \/ i \in 1..n
      BY <1>2
    <3> QED
      BY <1>5, <3>1
  <2> QED
    BY <2>1
<1>7. Keeps(common)
  BY <1>6
<1>8. Common(answers) = common[n]
  BY DEF Common, first
<1> HIDE DEF common
<1>9. /\ common[0] = <<>>
      /\ \A i \in 1..n : common[i] = IF InAll(answers, first[i])
                                     THEN Append(common[i - 1], first[i]) ELSE common[i - 1]
  <2>1. 0 \in 0..n /\ \A i \in 1..n : i \in 0..n /\ i # 0
    BY <1>2
  <2> QED
    BY <1>7, <2>1
<1> DEFINE S == {i \in Nat : i <= n => common[i] \in Queries /\ Shared(answers, common[i], i)}
<1>10. 0 \in S
  BY <1>2, <1>9 DEF Shared
<1>11. ASSUME NEW i \in Nat, i \in S
       PROVE  i + 1 \in S
  <2> SUFFICES ASSUME i + 1 <= n
               PROVE  common[i + 1] \in Queries /\ Shared(answers, common[i + 1], i + 1)
    OBVIOUS
  <2> DEFINE k == i + 1
             x == first[k]
             s == common[i]
             more == Append(s, x)
  <2>1. k \in 1..n /\ k - 1 = i /\ s \in Queries /\ Shared(answers, s, i)
        /\ \A j \in 1..k : j \in 1..i \/ j = k
    BY <1>11
  <2> HIDE DEF k
  <2>2. common[k] = IF InAll(answers, x) THEN more ELSE s
    BY <1>9, <2>1
  <2>3. x \in Seq(AllNames)
    BY <1>2, <2>1
  <2> HIDE DEF x, s
  <2>4. CASE InAll(answers, x)
    <3>1. more \in Queries /\ Contains(more, x)
          /\ \A y : Contains(s, y) => Contains(more, y)
      BY <2>1, <2>3, ContainsMore DEF Queries
    <3>2. Len(more) = Len(s) + 1 /\ Len(s) \in Nat /\ more[Len(s) + 1] = x
          /\ \A j \in 1..Len(s) : more[j] = s[j]
      BY <2>1, <2>3 DEF Queries
    <3> HIDE DEF more
    <3>3. \A j \in 1..Len(more) : InAll(answers, more[j])
      BY <2>1, <2>4, <3>2 DEF Shared
    <3>4. \A j \in 1..k : InAll(answers, first[j]) => Contains(more, first[j])
      BY <2>1, <3>1 DEF Shared, x, first
    <3>5. Shared(answers, more, k)
      BY <3>3, <3>4 DEF Shared, first
    <3> QED
      BY <2>2, <2>4, <3>1, <3>5 DEF k
  <2>5. CASE ~InAll(answers, x)
    <3>1. \A j \in 1..k : InAll(answers, first[j]) => Contains(s, first[j])
      BY <2>1, <2>5 DEF Shared, x, first
    <3>2. Shared(answers, s, k)
      BY <2>1, <3>1 DEF Shared, first
    <3> QED
      BY <2>1, <2>2, <2>5, <3>2 DEF k
  <2> QED
    BY <2>4, <2>5
<1> HIDE DEF S
<1>12. Nat \subseteq S
  BY <1>10, <1>11, NaturalInduction
<1>13. common[n] \in Queries /\ Shared(answers, common[n], n)
  BY <1>2, <1>12 DEF S
<1> QED
  BY <1>8, <1>13 DEF first

-----------------------------------------------------------------------------
(* The groups below a node of the tree: no two are the same, and each has a *)
(* leaf.                                                                    *)
Below(leaf, node, group) ==
  Len(leaf) > Len(node) + 1 /\ IsPrefix(node, leaf) /\ group = leaf[Len(node) + 1]

Siblings(groups, leaves, node, n) ==
  /\ \A i, j \in 1..Len(groups) : groups[i] = groups[j] => i = j
  /\ \A i \in 1..Len(groups) : \E k \in 1..n : Below(leaves[k], node, groups[i])

LEMMA GroupsAre ==
  ASSUME NEW leaves \in Seq(Queries), NEW node \in Queries
  PROVE  /\ Groups(leaves, node) \in Queries
         /\ Siblings(Groups(leaves, node), leaves, node, Len(leaves))
<1> DEFINE n == Len(leaves)
           F == [p \in (1..n) \X Queries |-> AddGroup(p[2], leaves[p[1]], node)]
           Collects(f) == f = [i \in 0..n |-> IF i = 0 THEN <<>>
                                              ELSE AddGroup(f[i - 1], leaves[i], node)]
           groups == CHOOSE f : Collects(f)
<1>1. n \in Nat /\ <<>> \in Queries /\ \A i \in 1..n : leaves[i] \in Queries
  BY DEF Queries
<1>2. ASSUME NEW s \in Queries, NEW i \in 1..n
      PROVE  /\ AddGroup(s, leaves[i], node) \in Queries
             /\ Siblings(s, leaves, node, i - 1)
                  => Siblings(AddGroup(s, leaves[i], node), leaves, node, i)
  <2> DEFINE leaf == leaves[i]
             x == leaf[Len(node) + 1]
             more == Append(s, x)
  <2>1. leaf \in Queries /\ Len(node) \in Nat /\ Len(leaf) \in Nat
    BY <1>1 DEF Queries
  <2>2. \A k \in 1..(i - 1) : k \in 1..i
    OBVIOUS
  <2>3. CASE Len(leaf) > Len(node) + 1 /\ IsPrefix(node, leaf) /\ ~Contains(s, x)
    <3>1. x \in Seq(AllNames)
      BY <2>1, <2>3 DEF Queries
    <3>2. AddGroup(s, leaf, node) = more
      BY <2>3 DEF AddGroup
    <3>3. Below(leaf, node, x)
      BY <2>3 DEF Below
    <3> HIDE DEF x
    <3>4. /\ more \in Queries /\ Len(more) = Len(s) + 1 /\ Len(s) \in Nat
          /\ more[Len(s) + 1] = x /\ \A j \in 1..Len(s) : more[j] = s[j]
      BY <3>1 DEF Queries
    <3>5. \A j \in 1..Len(s) : s[j] # x
      BY <2>3 DEF Contains, x
    <3> HIDE DEF more
    <3>6. ASSUME Siblings(s, leaves, node, i - 1)
          PROVE  Siblings(more, leaves, node, i)
      <4>1. ASSUME NEW j \in 1..Len(more), NEW k \in 1..Len(more), more[j] = more[k]
            PROVE  j = k
        BY <3>4, <3>5, <3>6, <4>1 DEF Siblings
      <4>2. ASSUME NEW j \in 1..Len(more)
            PROVE  \E k \in 1..i : Below(leaves[k], node, more[j])
        <5>1. CASE j \in 1..Len(s)
          <6>1. PICK k \in 1..(i - 1) : Below(leaves[k], node, s[j])
            BY <3>6, <5>1 DEF Siblings
          <6> QED
            BY <2>2, <3>4, <5>1, <6>1
        <5>2. CASE j = Len(s) + 1
          <6>1. i \in 1..i
            OBVIOUS
          <6> QED
            BY <3>3, <3>4, <5>2, <6>1
        <5> QED
          BY <3>4, <5>1, <5>2
      <4> QED
        BY <4>1, <4>2 DEF Siblings
    <3> QED
      BY <3>2, <3>4, <3>6
  <2>4. CASE ~(Len(leaf) > Len(node) + 1 /\ IsPrefix(node, leaf) /\ ~Contains(s, x))
    <3>1. AddGroup(s, leaf, node) = s
      BY <2>4 DEF AddGroup
    <3>2. Siblings(s, leaves, node, i - 1) => Siblings(s, leaves, node, i)
      BY <2>2 DEF Siblings
    <3> QED
      BY <3>1, <3>2
  <2> QED
    BY <2>3, <2>4
<1>3. F \in [(1..n) \X Queries -> Queries]
  BY <1>2
<1>4. PICK f \in [0..n -> Queries] : Iterates(f, <<>>, F, n)
  BY <1>1, <1>3, RecursionExists
<1>5. Collects(f)
  <2>1. ASSUME NEW i \in 0..n
        PROVE  f[i] = IF i = 0 THEN <<>> ELSE AddGroup(f[i - 1], leaves[i], node)
    <3>1. i # 0 => i \in 1..n /\ i - 1 \in 0..n
      BY <1>1
    <3>2. f[i] = IF i = 0 THEN <<>> ELSE F[<<i, f[i - 1]>>]
      BY <1>4 DEF Iterates
    <3> QED
      BY <3>1, <3>2
  <2> QED
    BY <2>1
<1>6. Collects(groups)
  BY <1>5
<1>7. Groups(leaves, node) = groups[n]
  BY DEF Groups
<1> HIDE DEF groups
<1>8. groups[0] = <<>> /\ \A i \in 1..n : groups[i] = AddGroup(groups[i - 1], leaves[i], node)
  <2>1. 0 \in 0..n /\ \A i \in 1..n : i \in 0..n /\ i # 0
    BY <1>1
  <2> QED
    BY <1>6, <2>1
<1> DEFINE S == {i \in Nat : i <= n => groups[i] \in Queries /\ Siblings(groups[i], leaves, node, i)}
<1>9. 0 \in S
  BY <1>1, <1>8 DEF Siblings
<1>10. ASSUME NEW i \in Nat, i \in S
       PROVE  i + 1 \in S
  <2> SUFFICES ASSUME i + 1 <= n
               PROVE  groups[i + 1] \in Queries /\ Siblings(groups[i + 1], leaves, node, i + 1)
    OBVIOUS
  <2> DEFINE k == i + 1
  <2>1. k \in 1..n /\ k - 1 = i /\ groups[i] \in Queries /\ Siblings(groups[i], leaves, node, i)
    BY <1>10
  <2> HIDE DEF k
  <2>2. groups[k] = AddGroup(groups[i], leaves[k], node)
    BY <1>8, <2>1
  <2>3. groups[k] \in Queries /\ Siblings(groups[k], leaves, node, k)
    BY <1>2, <2>1, <2>2
  <2> QED
    BY <2>3 DEF k
<1> HIDE DEF S
<1>11. Nat \subseteq S
  BY <1>9, <1>10, NaturalInduction
<1>12. groups[n] \in Queries /\ Siblings(groups[n], leaves, node, n)
  BY <1>1, <1>11 DEF S
<1> QED
  BY <1>7, <1>12

(* Where three or more groups are side by side, none of them has a group.   *)
FewSiblings ==
  \A groups \in {TopGroups} \cup {GroupsIn[g] : g \in CommandGroups} :
    Len(groups) <= 2 \/ \A g \in ToSet(groups) : GroupsIn[g] = <<>>

(* The groups that a query leads through.                                   *)
GroupsAt(way, i) == IF i = 1 THEN TopGroups ELSE GroupsIn[way[i - 1]]
LeadsThrough(query, way) ==
  /\ query \in Seq(AllNames) /\ way \in Seq(CommandGroups) /\ Len(query) = Len(way) + 1
  /\ \A i \in 1..Len(way) : query[i] = NameOf[way[i]] /\ way[i] \in ToSet(GroupsAt(way, i))
Leads(query) == \E way : LeadsThrough(query, way)

LEMMA QueryLeads ==
  ASSUME NEW query, NEW c \in Commands, QueryOf(query, c)
  PROVE  Leads(query)
<1>1. PICK open \in Seq(CommandGroups) :
        InTree(open) /\ HasCommand(open, c) /\ query = Append(PathOf(open), NameOf[c])
  BY DEF QueryOf
<1> DEFINE n == Len(open)
           p == PathOf(open)
           x == NameOf[c]
           way == WayTo(open)
<1>2. p \in Seq(AllNames) /\ Len(p) = n /\ n \in Nat /\ \A i \in 1..n : p[i] = NameOf[way[i]]
  BY WayFacts
<1>3. way \in [1..n -> CommandGroups] /\ \A i \in 1..n : way[i] = open[n + 1 - i]
  BY WayFacts DEF WayTo
<1>4. x \in AllNames
  BY DEF AllNames
<1> HIDE DEF p, x, way
<1>5. query = Append(p, x)
  BY <1>1 DEF p, x
<1>6. /\ query \in Seq(AllNames) /\ Len(query) = n + 1 /\ \A i \in 1..n : query[i] = p[i]
  BY <1>2, <1>4, <1>5
<1>7. way \in Seq(CommandGroups) /\ Len(way) = n
  BY <1>2, <1>3
<1>8. ASSUME NEW i \in 1..n PROVE way[i] \in ToSet(GroupsAt(way, i))
  <2> DEFINE j == n + 1 - i
  <2>1. j \in 1..n /\ (i = 1 <=> j = n) /\ way[i] = open[j]
    BY <1>2, <1>3
  <2>2. ASSUME i # 1 PROVE way[i - 1] = open[j + 1]
    <3>1. i - 1 \in 1..n /\ n + 1 - (i - 1) = j + 1
      BY <1>2, <2>2
    <3> QED
      BY <1>3, <3>1
  <2> HIDE DEF j
  <2>3. open[j] \in ToSet(IF j = n THEN TopGroups ELSE GroupsIn[open[j + 1]])
    BY <1>1, <2>1 DEF InTree
  <2> QED
    BY <2>1, <2>2, <2>3 DEF GroupsAt
<1>9. LeadsThrough(query, way)
  BY <1>2, <1>6, <1>7, <1>8 DEF LeadsThrough
<1> QED
  BY <1>9 DEF Leads

(* Its parts, each a text of one name.                                      *)
LEMMA PartsFacts ==
  ASSUME NEW query \in Seq(AllNames)
  PROVE  /\ Parts(query) \in Queries /\ Len(Parts(query)) = Len(query)
         /\ \A i \in 1..Len(query) : Parts(query)[i] = <<query[i]>>
<1>1. \A i \in 1..Len(query) : <<query[i]>> \in Seq(AllNames)
  OBVIOUS
<1>2. Len(query) \in Nat
  OBVIOUS
<1> QED
  BY <1>1, <1>2 DEF Parts, Queries

LEMMA SameText ==
  ASSUME NEW x, NEW y, <<x>> = <<y>>
  PROVE  x = y
OBVIOUS

(* A tree whose leaves are queries, each of its own parts.                  *)
Grown(leaves) ==
  /\ leaves \in Seq(Queries)
  /\ \A k \in 1..Len(leaves) : \E q : Leads(q) /\ leaves[k] = Parts(q)

(* Two groups at most are below a node that has a query of three parts      *)
(* below it.                                                                *)
LEMMA FewGroups ==
  ASSUME NamesDiffer, FewSiblings, NEW leaves, Grown(leaves), NEW query, Leads(query),
         NEW n \in Nat, n + 3 <= Len(query), NEW node, node = SubSeq(Parts(query), 1, n)
  PROVE  Len(Groups(leaves, node)) \in 0..2
<1>1. PICK way : LeadsThrough(query, way)
  BY DEF Leads
<1>2. /\ query \in Seq(AllNames) /\ way \in Seq(CommandGroups) /\ Len(query) = Len(way) + 1
      /\ \A i \in 1..Len(way) : query[i] = NameOf[way[i]] /\ way[i] \in ToSet(GroupsAt(way, i))
  BY <1>1 DEF LeadsThrough
<1>3. Len(query) \in Nat /\ Len(way) \in Nat /\ n + 2 <= Len(way)
      /\ n + 1 \in 1..Len(way) /\ n + 2 \in 1..Len(way)
  BY <1>2
<1> DEFINE there == GroupsAt(way, n + 1)
           p == Parts(query)
           groups == Groups(leaves, node)
<1>4. \A i \in 1..Len(way) : way[i] \in CommandGroups
  BY <1>2
<1>5. Len(there) <= 2 /\ there \in Seq(CommandGroups) /\ Len(there) \in Nat
  <2>1. there \in {TopGroups} \cup {GroupsIn[g] : g \in CommandGroups}
    <3>1. CASE n = 0
      <4>1. n + 1 = 1
        BY <3>1
      <4> QED
        BY <4>1 DEF GroupsAt
    <3>2. CASE n # 0
      <4>1. n + 1 # 1 /\ n + 1 - 1 = n /\ n \in 1..Len(way)
        BY <1>3, <3>2
      <4>2. there = GroupsIn[way[n]] /\ way[n] \in CommandGroups
        BY <1>4, <4>1 DEF GroupsAt
      <4> QED
        BY <4>2
    <3> QED
      BY <3>1, <3>2
  <2>2. way[n + 1] \in ToSet(there)
    BY <1>2, <1>3
  <2>3. GroupsIn[way[n + 1]] # <<>>
    <3>1. way[n + 2] \in ToSet(GroupsAt(way, n + 2)) /\ n + 2 # 1 /\ n + 2 - 1 = n + 1
      BY <1>2, <1>3
    <3>2. way[n + 2] \in ToSet(GroupsIn[way[n + 1]])
      BY <3>1 DEF GroupsAt
    <3>3. ToSet(<<>>) = {}
      BY DEF ToSet
    <3> QED
      BY <3>2, <3>3
  <2>4. there \in Seq(CommandGroups)
    BY <2>1, CatalogueAssumption
  <2> HIDE DEF there
  <2>5. Len(there) <= 2
    BY <2>1, <2>2, <2>3 DEF FewSiblings
  <2> QED
    BY <2>4, <2>5
<1>6. p \in Queries /\ Len(p) = Len(query) /\ \A i \in 1..Len(query) : p[i] = <<query[i]>>
  BY <1>2, PartsFacts
<1> HIDE DEF p
<1>7. node \in Queries /\ Len(node) = n /\ \A i \in 1..n : node[i] = p[i] /\ i \in 1..Len(query)
  BY <1>3, <1>6 DEF Queries, p
<1>8. groups \in Queries /\ Siblings(groups, leaves, node, Len(leaves))
  BY <1>7, GroupsAre DEF Grown
<1> HIDE DEF there, groups
<1>9. ASSUME NEW i \in 1..Len(groups)
      PROVE  \E j \in 1..Len(there) : groups[i] = <<NameOf[there[j]]>>
  <2>1. PICK k \in 1..Len(leaves) : Below(leaves[k], node, groups[i])
    BY <1>8 DEF Siblings
  <2> DEFINE leaf == leaves[k]
  <2>2. leaf \in Queries /\ Len(leaf) > n + 1 /\ IsPrefix(node, leaf) /\ groups[i] = leaf[n + 1]
    BY <1>7, <2>1 DEF Below, Grown
  <2>3. PICK q : Leads(q) /\ leaf = Parts(q)
    BY DEF Grown
  <2>4. PICK w : LeadsThrough(q, w)
    BY <2>3 DEF Leads
  <2>5. /\ q \in Seq(AllNames) /\ w \in Seq(CommandGroups) /\ Len(q) = Len(w) + 1
        /\ \A j \in 1..Len(w) : q[j] = NameOf[w[j]] /\ w[j] \in ToSet(GroupsAt(w, j))
    BY <2>4 DEF LeadsThrough
  <2>6. Len(leaf) = Len(q) /\ \A j \in 1..Len(q) : leaf[j] = <<q[j]>>
    BY <2>3, <2>5, PartsFacts
  <2>7. Len(w) \in Nat /\ Len(q) \in Nat /\ n + 1 \in 1..Len(w) /\ n + 1 \in 1..Len(q)
    BY <2>2, <2>5, <2>6
  <2>8. ASSUME NEW j \in 1..n PROVE w[j] = way[j]
    <3>1. j \in 1..Len(w) /\ j \in 1..Len(q) /\ j \in 1..Len(way) /\ j \in 1..Len(query)
      BY <1>3, <2>7
    <3>2. node[j] = leaf[j]
      <4>1. SubSeq(node, 1, n) = SubSeq(leaf, 1, n)
        BY <1>7, <2>2 DEF IsPrefix
      <4>2. SubSeq(node, 1, n)[j] = node[j]
        BY <1>7 DEF Queries
      <4>3. SubSeq(leaf, 1, n)[j] = leaf[j]
        BY <2>2 DEF Queries
      <4> QED
        BY <4>1, <4>2, <4>3
    <3>3. <<query[j]>> = <<q[j]>>
      BY <1>6, <1>7, <2>6, <3>1, <3>2
    <3>4. query[j] = q[j]
      BY <3>3, SameText
    <3>5. NameOf[way[j]] = NameOf[w[j]] /\ way[j] \in CommandGroups /\ w[j] \in CommandGroups
      BY <1>2, <1>4, <2>5, <3>1, <3>4
    <3> QED
      BY <3>5 DEF NamesDiffer
  <2>9. GroupsAt(w, n + 1) = there
    <3>1. CASE n = 0
      <4>1. n + 1 = 1
        BY <3>1
      <4> QED
        BY <4>1 DEF GroupsAt, there
    <3>2. CASE n # 0
      <4>1. n + 1 # 1 /\ n + 1 - 1 = n /\ n \in 1..n
        BY <3>2
      <4>2. w[n] = way[n]
        BY <2>8, <4>1
      <4> QED
        BY <4>1, <4>2 DEF GroupsAt, there
    <3> QED
      BY <3>1, <3>2
  <2>10. w[n + 1] \in ToSet(there) /\ q[n + 1] = NameOf[w[n + 1]]
    BY <2>5, <2>7, <2>9
  <2>11. PICK j \in 1..Len(there) : there[j] = w[n + 1]
    BY <1>5, <2>10 DEF ToSet
  <2>12. groups[i] = <<NameOf[there[j]]>>
    BY <2>2, <2>6, <2>7, <2>10, <2>11
  <2> QED
    BY <2>12
<1>10. Len(groups) \in Nat
  BY <1>8 DEF Queries
<1>11. ASSUME Len(groups) >= 3 PROVE FALSE
  <2>1. 1 \in 1..Len(groups) /\ 2 \in 1..Len(groups) /\ 3 \in 1..Len(groups)
    BY <1>10, <1>11
  <2>2. PICK a \in 1..Len(there) : groups[1] = <<NameOf[there[a]]>>
    BY <1>9, <2>1
  <2>3. PICK b \in 1..Len(there) : groups[2] = <<NameOf[there[b]]>>
    BY <1>9, <2>1
  <2>4. PICK c \in 1..Len(there) : groups[3] = <<NameOf[there[c]]>>
    BY <1>9, <2>1
  <2>5. a # b /\ a # c /\ b # c
    <3>1. groups[1] # groups[2] /\ groups[1] # groups[3] /\ groups[2] # groups[3]
      BY <1>8, <2>1 DEF Siblings
    <3> QED
      BY <2>2, <2>3, <2>4, <3>1
  <2> QED
    BY <1>5, <2>5
<1>12. Len(groups) \in 0..2
  <2> DEFINE k == Len(groups)
  <2>1. k \in Nat /\ ~(k >= 3)
    BY <1>10, <1>11
  <2> HIDE DEF k
  <2>2. k \in 0..2
    BY <2>1
  <2> QED
    BY <2>2 DEF k
<1> QED
  BY <1>12 DEF groups

(* Then the parts that are passed on are those after the first.             *)
LEMMA PassedOn ==
  ASSUME NEW groups \in Queries, NEW parts \in Queries, Len(parts) >= 2,
         Len(parts) >= 3 => Len(groups) \in 0..2
  PROVE  PassOn(groups, parts) = Tail(parts)
<1>1. Len(parts) \in Nat /\ DOMAIN groups = 1..Len(groups) /\ Len(groups) \in Nat
  BY DEF Queries
<1>2. CASE Len(parts) >= 3
  <2>1. ~ \E i \in DOMAIN groups : groups[i] = Head(parts) /\ i = Len(parts)
    BY <1>1, <1>2
  <2> QED
    BY <2>1 DEF PassOn
<1>3. CASE Len(parts) = 2
  <2> DEFINE x == parts[2]
             s == Tail(parts)
             r == <<x>>
  <2>1. Len(parts) \in Nat \ {0} /\ parts \in Seq(Seq(AllNames))
    BY <1>3 DEF Queries
  <2>2. /\ s \in Seq(Seq(AllNames)) /\ Len(s) = Len(parts) - 1
        /\ \A i \in 1..(Len(parts) - 1) : s[i] = parts[i + 1]
        /\ \A i \in 1..Len(parts) : parts[i] \in Seq(AllNames)
    BY <2>1
  <2>3. 1 \in 1..(Len(parts) - 1) /\ 2 \in 1..Len(parts) /\ Len(parts) - 1 = 1 /\ 1 + 1 = 2
    BY <1>3
  <2> HIDE DEF s
  <2>4. x \in Seq(AllNames) /\ s \in Seq(Seq(AllNames)) /\ Len(s) = 1 /\ s[1] = x
    BY <2>2, <2>3
  <2> HIDE DEF x
  <2>5. r \in Seq(Seq(AllNames)) /\ Len(r) = 1 /\ r[1] = x
    BY <2>4
  <2>6. s = r
    <3> HIDE DEF r
    <3>1. \A i \in 1..Len(s) : i = 1
      BY <2>4
    <3>2. Len(s) = Len(r) /\ \A i \in 1..Len(s) : s[i] = r[i]
      BY <2>4, <2>5, <3>1
    <3> QED
      BY <2>4, <2>5, <3>2, SameSeq
  <2>7. FlattenSeq(r) = x
    <3>1. <<>> \in Seq(Seq(AllNames)) /\ Append(<<>>, x) = r /\ <<>> \o x = x
      BY <2>4
    <3>2. FlattenSeq(Append(<<>>, x)) = FlattenSeq(<<>>) \o x
      BY <2>4, <3>1, FlattenAppend
    <3> QED
      BY <3>1, <3>2, FlattenNothing
  <2>8. PassOn(groups, parts) = s
    <3>1. <<FlattenSeq(s)>> = s
      BY <2>6, <2>7
    <3> QED
      BY <3>1 DEF PassOn, s
  <2> QED
    BY <2>8 DEF s
<1>4. Len(parts) >= 3 \/ Len(parts) = 2
  <2> DEFINE k == Len(parts)
  <2>1. k \in Nat /\ k >= 2
    BY <1>1
  <2> HIDE DEF k
  <2>2. k >= 3 \/ k = 2
    BY <2>1
  <2> QED
    BY <2>2 DEF k
<1> QED
  BY <1>2, <1>3, <1>4

(* The call of appendByQuery that is j groups down has the parts after the  *)
(* first j.                                                                 *)
Down(p, j) == [node |-> SubSeq(p, 1, j), parts |-> SubSeq(p, j + 1, Len(p))]

LEMMA Split ==
  ASSUME NEW S, NEW p \in Seq(S), NEW j \in 0..Len(p)
  PROVE  /\ SubSeq(p, 1, j) \in Seq(S) /\ SubSeq(p, j + 1, Len(p)) \in Seq(S)
         /\ Len(SubSeq(p, j + 1, Len(p))) = Len(p) - j
         /\ SubSeq(p, 1, j) \o SubSeq(p, j + 1, Len(p)) = p
         /\ j < Len(p) => /\ Head(SubSeq(p, j + 1, Len(p))) = p[j + 1]
                          /\ Append(SubSeq(p, 1, j), p[j + 1]) = SubSeq(p, 1, j + 1)
                          /\ Tail(SubSeq(p, j + 1, Len(p))) = SubSeq(p, j + 1 + 1, Len(p))
<1> DEFINE n == Len(p)
           a == SubSeq(p, 1, j)
           b == SubSeq(p, j + 1, n)
<1>1. n \in Nat /\ j \in Nat /\ j <= n
  OBVIOUS
<1>2. a \in Seq(S) /\ Len(a) = j /\ \A i \in 1..j : a[i] = p[i]
  OBVIOUS
<1>3. b \in Seq(S) /\ Len(b) = n - j /\ \A i \in 1..(n - j) : b[i] = p[j + i]
  OBVIOUS
<1>4. a \o b = p
  <2> HIDE DEF a, b
  <2> DEFINE c == a \o b
  <2>1. c \in Seq(S) /\ Len(c) = n
    BY <1>1, <1>2, <1>3
  <2>2. ASSUME NEW i \in 1..n PROVE c[i] = p[i]
    <3>1. CASE i <= j
      <4>1. i \in 1..j /\ c[i] = a[i]
        BY <1>1, <1>2, <1>3, <3>1
      <4> QED
        BY <1>2, <4>1
    <3>2. CASE i > j
      <4>1. i - j \in 1..(n - j) /\ c[i] = b[i - j] /\ j + (i - j) = i
        BY <1>1, <1>2, <1>3, <3>2
      <4> QED
        BY <1>3, <4>1
    <3>3. i \in Nat /\ j \in Nat /\ (i <= j \/ i > j)
      BY <1>1
    <3> QED
      BY <3>1, <3>2, <3>3
  <2> HIDE DEF c
  <2>3. c = p
    BY <2>1, <2>2, SameSeq
  <2> QED
    BY <2>3 DEF c
<1>5. ASSUME j < n
      PROVE  /\ Head(b) = p[j + 1] /\ Append(a, p[j + 1]) = SubSeq(p, 1, j + 1)
             /\ Tail(b) = SubSeq(p, j + 1 + 1, n)
  <2>1. j + 1 \in 1..n /\ j + 1 <= n
    BY <1>1, <1>5
  <2>2. b # <<>> /\ Head(b) = b[1] /\ 1 \in 1..(n - j)
    <3>1. n - j \in Nat /\ n - j >= 1
      BY <1>1, <1>5
    <3> HIDE DEF b
    <3>2. b # <<>>
      BY <1>3, <3>1
    <3> QED
      BY <1>3, <3>1, <3>2
  <2>3. Append(a, p[j + 1]) = SubSeq(p, 1, j + 1)
    BY <1>1, <1>5, FirstOnes
  <2>4. Tail(b) = SubSeq(p, j + 1 + 1, n)
    <3> DEFINE c == SubSeq(p, j + 1 + 1, n)
               d == Tail(b)
    <3>1. c \in Seq(S) /\ Len(c) = n - (j + 1) /\ \A i \in 1..(n - (j + 1)) : c[i] = p[j + 1 + i]
      BY <1>1, <2>1
    <3> HIDE DEF b
    <3>2. d \in Seq(S) /\ Len(d) = n - j - 1 /\ \A i \in 1..(n - j - 1) : d[i] = b[i + 1]
      BY <1>1, <1>3, <2>2
    <3> HIDE DEF c, d
    <3>3. ASSUME NEW i \in 1..Len(d) PROVE d[i] = c[i]
      <4>1. i + 1 \in 1..(n - j) /\ i \in 1..(n - (j + 1)) /\ i \in 1..(n - j - 1)
            /\ j + (i + 1) = j + 1 + i
        BY <1>1, <3>2
      <4> QED
        BY <1>3, <3>1, <3>2, <4>1
    <3>4. Len(d) = Len(c)
      BY <1>1, <3>1, <3>2
    <3>5. d = c
      BY <3>1, <3>2, <3>3, <3>4, SameSeq
    <3> QED
      BY <3>5 DEF c, d
  <2> QED
    BY <1>3, <2>2, <2>3, <2>4
<1> QED
  BY <1>1, <1>2, <1>3, <1>4, <1>5

LEMMA DescendOne ==
  ASSUME NamesDiffer, FewSiblings, NEW leaves, Grown(leaves), NEW query, Leads(query),
         NEW j \in 0..(Len(query) - 1)
  PROVE  Descend(leaves, Down(Parts(query), j))
           = Down(Parts(query), IF j = Len(query) - 1 THEN j ELSE j + 1)
<1> DEFINE p == Parts(query)
           m == Len(query)
           node == SubSeq(p, 1, j)
           parts == SubSeq(p, j + 1, m)
           groups == Groups(leaves, node)
<1>1. query \in Seq(AllNames) /\ m \in Nat /\ j \in Nat /\ j < m /\ j \in 0..m
  <2>1. query \in Seq(AllNames)
    BY DEF Leads, LeadsThrough
  <2> QED
    BY <2>1
<1>2. p \in Queries /\ Len(p) = m
  BY <1>1, PartsFacts
<1>3. Down(p, j) = [node |-> node, parts |-> parts]
  BY <1>2 DEF Down
<1> HIDE DEF p
<1>4. /\ node \in Queries /\ parts \in Queries /\ Len(parts) = m - j
      /\ Head(parts) = p[j + 1] /\ Append(node, p[j + 1]) = SubSeq(p, 1, j + 1)
      /\ Tail(parts) = SubSeq(p, j + 1 + 1, m)
  BY SMTT(30), <1>1, <1>2, Split DEF Queries
<1>5. groups \in Queries
  BY <1>4, GroupsAre DEF Grown
<1>6. m - j >= 3 => Len(groups) \in 0..2
  <2> SUFFICES ASSUME m - j >= 3 PROVE Len(groups) \in 0..2
    OBVIOUS
  <2>1. j + 3 <= m
    BY <1>1
  <2> QED
    BY <1>1, <2>1, FewGroups DEF p
<1>7. Descend(leaves, Down(p, j))
        = IF Len(parts) = 1 THEN Down(p, j)
          ELSE [node |-> Append(node, Head(parts)), parts |-> PassOn(groups, parts)]
  BY <1>3 DEF Descend
<1> HIDE DEF node, parts, groups
<1>8. CASE j = m - 1
  <2>1. Len(parts) = 1
    BY <1>1, <1>4, <1>8
  <2> QED
    BY <1>7, <1>8, <2>1 DEF p
<1>9. CASE j # m - 1
  <2>1. Len(parts) # 1 /\ Len(parts) >= 2 /\ (Len(parts) >= 3 => Len(groups) \in 0..2)
    BY <1>1, <1>4, <1>6, <1>9
  <2>2. PassOn(groups, parts) = Tail(parts)
    BY <1>4, <1>5, <2>1, PassedOn
  <2>3. Descend(leaves, Down(p, j)) = Down(p, j + 1)
    BY <1>2, <1>4, <1>7, <2>1, <2>2 DEF Down
  <2> QED
    BY <1>9, <2>3 DEF p
<1> QED
  BY <1>8, <1>9

(* So a query becomes a leaf of its own parts.                              *)
LEMMA LeafAdded ==
  ASSUME NamesDiffer, FewSiblings, NEW leaves, Grown(leaves), NEW query, Leads(query)
  PROVE  /\ AppendByQuery(leaves, query) = Append(leaves, Parts(query))
         /\ Grown(Append(leaves, Parts(query)))
<1> DEFINE p == Parts(query)
           m == Len(query)
           Falls(f) == f = [i \in 0..m |-> IF i = 0 THEN [node |-> <<>>, parts |-> p]
                                           ELSE Descend(leaves, f[i - 1])]
           at == CHOOSE f : Falls(f)
           down == [i \in 0..m |-> Down(p, IF i = m THEN m - 1 ELSE i)]
<1>1. query \in Seq(AllNames) /\ m \in Nat /\ m >= 1
  <2>1. PICK way : LeadsThrough(query, way)
    BY DEF Leads
  <2>2. query \in Seq(AllNames) /\ way \in Seq(CommandGroups) /\ m = Len(way) + 1
    BY <2>1 DEF LeadsThrough
  <2> QED
    BY <2>2
<1>2. p \in Queries /\ Len(p) = m
  BY <1>1, PartsFacts
<1>3. AppendByQuery(leaves, query) = Append(leaves, at[m].node \o at[m].parts)
  BY DEF AppendByQuery
<1> HIDE DEF p
<1>4. Down(p, 0) = [node |-> <<>>, parts |-> p]
  <2>1. SubSeq(p, 1, 0) = <<>> /\ SubSeq(p, 1, m) = p
    BY <1>2 DEF Queries
  <2> QED
    BY <1>2, <2>1 DEF Down
<1>5. ASSUME NEW i \in 0..m
      PROVE  down[i] = IF i = 0 THEN [node |-> <<>>, parts |-> p]
                       ELSE Descend(leaves, down[i - 1])
  <2>1. CASE i = 0
    <3>1. down[0] = Down(p, 0)
      BY <1>1
    <3> QED
      BY <1>4, <2>1, <3>1
  <2>2. CASE i # 0
    <3> DEFINE j == i - 1
    <3>1. j \in 0..(m - 1) /\ j \in 0..m /\ j # m
          /\ (IF j = m - 1 THEN j ELSE j + 1) = (IF i = m THEN m - 1 ELSE i)
      BY <1>1, <2>2
    <3>2. down[j] = Down(p, j) /\ down[i] = Down(p, IF i = m THEN m - 1 ELSE i)
      BY <3>1
    <3> HIDE DEF j, down
    <3>3. Descend(leaves, Down(p, j)) = Down(p, IF j = m - 1 THEN j ELSE j + 1)
      BY <3>1, DescendOne DEF p
    <3>4. down[i] = Descend(leaves, down[j])
      BY <3>1, <3>2, <3>3
    <3> QED
      BY <2>2, <3>4 DEF j
  <2> QED
    BY <2>1, <2>2
<1>6. Falls(down)
  <2>1. down = [i \in 0..m |-> down[i]]
    OBVIOUS
  <2> HIDE DEF down
  <2> QED
    BY <1>5, <2>1
<1>7. Falls(at)
  BY <1>6
<1>8. down[m] = Down(p, m - 1)
  BY <1>1
<1> HIDE DEF at, down
<1>9. \A i \in 0..m : at[i] = down[i]
  <2>1. 0 \in 0..m
    BY <1>1
  <2>2. at[0] = down[0]
    BY <1>5, <1>7, <2>1
  <2>3. ASSUME NEW i \in 1..m, at[i - 1] = down[i - 1]
        PROVE  at[i] = down[i]
    <3>1. i \in 0..m /\ i # 0
      BY <1>1
    <3> QED
      BY <1>5, <1>7, <2>3, <3>1
  <2>4. StepsAlike(at, down, m)
    BY <2>2, <2>3 DEF StepsAlike
  <2> QED
    BY <1>1, <2>4, SameUpTo
<1>10. at[m].node \o at[m].parts = p
  <2>1. at[m] = Down(p, m - 1) /\ m - 1 \in 0..m
    BY <1>1, <1>8, <1>9
  <2>2. SubSeq(p, 1, m - 1) \o SubSeq(p, m - 1 + 1, m) = p
    BY <1>2, <2>1, Split DEF Queries
  <2> DEFINE k == m - 1
  <2>3. at[m].node = SubSeq(p, 1, k) /\ at[m].parts = SubSeq(p, k + 1, m)
    <3> HIDE DEF k, m
    <3>1. Down(p, k) = [node |-> SubSeq(p, 1, k), parts |-> SubSeq(p, k + 1, m)]
      BY <1>2 DEF Down
    <3> DEFINE r == at[m]
               a == SubSeq(p, 1, k)
               b == SubSeq(p, k + 1, m)
    <3>2. r = Down(p, k)
      BY <2>1 DEF k
    <3>3. r = [node |-> a, parts |-> b]
      BY <3>1, <3>2
    <3> HIDE DEF r, a, b
    <3>4. r.node = a /\ r.parts = b
      BY <3>3
    <3> QED
      BY <3>4 DEF r, a, b
  <2> QED
    BY <2>2, <2>3
<1>11. Grown(Append(leaves, p))
  <2> DEFINE n == Len(leaves)
             more == Append(leaves, p)
  <2>1. /\ more \in Seq(Queries) /\ Len(more) = n + 1 /\ n \in Nat
        /\ more[n + 1] = p /\ \A k \in 1..n : more[k] = leaves[k]
    BY <1>2 DEF Grown
  <2> HIDE DEF more
  <2>2. ASSUME NEW k \in 1..(n + 1)
        PROVE  \E q : Leads(q) /\ more[k] = Parts(q)
    <3>1. CASE k = n + 1
      BY <2>1, <3>1 DEF p
    <3>2. CASE k # n + 1
      <4>1. k \in 1..n
        BY <2>1, <3>2
      <4> QED
        BY <2>1, <4>1 DEF Grown
    <3> QED
      BY <3>1, <3>2
  <2>3. Grown(more)
    BY <2>1, <2>2 DEF Grown
  <2> QED
    BY <2>3 DEF more
<1> QED
  BY <1>3, <1>10, <1>11 DEF p

(* The tree has a leaf for each query, in their order.                      *)
LEMMA TreeOfQueries ==
  ASSUME NamesDiffer, FewSiblings, NEW queries \in Queries,
         \A i \in 1..Len(queries) : Leads(queries[i])
  PROVE  Tree(queries) = [i \in 1..Len(queries) |-> Parts(queries[i])]
<1> DEFINE n == Len(queries)
           Grows(f) == f = [i \in 0..n |-> IF i = 0 THEN <<>>
                                           ELSE AppendByQuery(f[i - 1], queries[i])]
           tree == CHOOSE f : Grows(f)
           leaves == [i \in 1..n |-> Parts(queries[i])]
           upTo == [i \in 0..n |-> SubSeq(leaves, 1, i)]
<1>1. n \in Nat /\ \A i \in 1..n : queries[i] \in Seq(AllNames) /\ Parts(queries[i]) \in Queries
  BY PartsFacts DEF Queries
<1>2. leaves \in Seq(Queries) /\ Len(leaves) = n
      /\ \A i \in 1..n : leaves[i] = Parts(queries[i])
  BY <1>1
<1>3. Tree(queries) = tree[n]
  BY DEF Tree
<1> HIDE DEF leaves
<1>4. /\ upTo[0] = <<>> /\ upTo[n] = leaves
      /\ \A i \in 1..n : upTo[i] = Append(upTo[i - 1], Parts(queries[i]))
  <2>1. SubSeq(leaves, 1, 0) = <<>> /\ SubSeq(leaves, 1, n) = leaves
    BY <1>2, FirstOnes
  <2>2. ASSUME NEW i \in 1..n
        PROVE  upTo[i] = Append(upTo[i - 1], Parts(queries[i]))
    <3> DEFINE j == i - 1
    <3>1. j \in 0..(n - 1) /\ j \in 0..n /\ i \in 0..n /\ i = j + 1
      BY <1>1
    <3> HIDE DEF j
    <3>2. SubSeq(leaves, 1, j + 1) = Append(SubSeq(leaves, 1, j), leaves[j + 1])
      BY <1>2, <3>1, FirstOnes
    <3>3. upTo[i] = SubSeq(leaves, 1, j + 1) /\ upTo[j] = SubSeq(leaves, 1, j)
      BY <3>1
    <3> QED
      BY <1>2, <3>1, <3>2, <3>3 DEF j
  <2>3. 0 \in 0..n /\ n \in 0..n
    BY <1>1
  <2> QED
    BY <2>1, <2>2, <2>3
<1>5. upTo = [i \in 0..n |-> upTo[i]]
  OBVIOUS
<1> HIDE DEF upTo
<1> DEFINE S == {i \in Nat : i <= n => Grown(upTo[i])}
<1>6. 0 \in S
  <2>1. Grown(<<>>)
    BY DEF Grown
  <2> QED
    BY <1>4, <2>1
<1>7. ASSUME NEW i \in Nat, i \in S
      PROVE  i + 1 \in S
  <2> SUFFICES ASSUME i + 1 <= n PROVE Grown(upTo[i + 1])
    OBVIOUS
  <2> DEFINE k == i + 1
  <2>1. k \in 1..n /\ k - 1 = i /\ Grown(upTo[i])
    BY <1>7
  <2> HIDE DEF k
  <2>2. Leads(queries[k])
    BY <2>1
  <2>3. Grown(Append(upTo[i], Parts(queries[k])))
    BY <2>1, <2>2, LeafAdded
  <2>4. Grown(upTo[k])
    BY <1>4, <2>1, <2>3
  <2> QED
    BY <2>4 DEF k
<1> HIDE DEF S
<1>8. Nat \subseteq S
  BY <1>6, <1>7, NaturalInduction
<1>9. ASSUME NEW i \in 1..n
      PROVE  upTo[i] = AppendByQuery(upTo[i - 1], queries[i])
  <2> DEFINE j == i - 1
  <2>1. j \in Nat /\ j <= n
    BY <1>1
  <2> HIDE DEF j
  <2>2. Grown(upTo[j])
    BY <1>8, <2>1 DEF S
  <2>3. Leads(queries[i])
    OBVIOUS
  <2>4. AppendByQuery(upTo[j], queries[i]) = Append(upTo[j], Parts(queries[i]))
    BY <2>2, <2>3, LeafAdded
  <2> QED
    BY <1>4, <2>4 DEF j
<1>10. Grows(upTo)
  <2>1. ASSUME NEW i \in 0..n
        PROVE  upTo[i] = IF i = 0 THEN <<>> ELSE AppendByQuery(upTo[i - 1], queries[i])
    <3>1. i = 0 \/ i \in 1..n
      BY <1>1
    <3> QED
      BY <1>4, <1>9, <3>1
  <2> QED
    BY <1>5, <2>1
<1>11. Grows(tree)
  BY <1>10
<1> HIDE DEF tree
<1>12. \A i \in 0..n : tree[i] = upTo[i]
  <2>1. 0 \in 0..n
    BY <1>1
  <2>2. tree[0] = upTo[0]
    BY <1>4, <1>11, <2>1
  <2>3. ASSUME NEW i \in 1..n, tree[i - 1] = upTo[i - 1]
        PROVE  tree[i] = upTo[i]
    <3>1. i \in 0..n /\ i # 0
      BY <1>1
    <3> QED
      BY <1>9, <1>11, <2>3, <3>1
  <2>4. StepsAlike(tree, upTo, n)
    BY <2>2, <2>3 DEF StepsAlike
  <2> QED
    BY <1>1, <2>4, SameUpTo
<1>13. n \in 0..n
  BY <1>1
<1> QED
  BY <1>3, <1>4, <1>12, <1>13 DEF leaves

(* What the client sends for such a leaf is the query.                      *)
LEMMA LeafResolved ==
  ASSUME NEW query \in Seq(AllNames), NEW u
  PROVE  ResolveLeaf(Parts(query), u) = Resolve(query, u)
<1> DEFINE p == Parts(query)
           n == Len(query)
<1>1. p \in Queries /\ Len(p) = n /\ n \in Nat /\ \A i \in 1..n : p[i] = <<query[i]>>
  BY PartsFacts
<1> HIDE DEF p
<1>2. DOMAIN p = 1..n
  BY <1>1 DEF Queries
<1>3. \A i \in 1..n : Len(p[i]) = 1 /\ p[i][1] = query[i]
  <2>1. \A x : Len(<<x>>) = 1 /\ <<x>>[1] = x
    OBVIOUS
  <2> QED
    BY <1>1, <2>1, Zenon
<1>4. [i \in DOMAIN p |-> p[i][1]] = query
  BY <1>1, <1>2, <1>3
<1> QED
  BY <1>2, <1>3, <1>4 DEF ResolveLeaf, p

(* The dialog for some servers.                                             *)
LEMMA ShownIs ==
  ASSUME NamesDiffer, FewSiblings, SoundInv,
         NEW servers \in Seq(Answered), servers # <<>>
  PROVE  \E queries \in Queries :
           /\ Shown(servers) = [i \in 1..Len(queries) |-> Parts(queries[i])]
           /\ \A i \in 1..Len(queries), j \in 1..Len(servers) :
                Contains(Parse(listing[servers[j]]).queries, queries[i])
           /\ \A q : (\A j \in 1..Len(servers) : Contains(Parse(listing[servers[j]]).queries, q))
                       => Contains(queries, q)
<1> DEFINE n == Len(servers)
           answers == [i \in DOMAIN servers |-> Parse(listing[servers[i]]).queries]
           queries == Common(answers)
<1>1. n \in Nat /\ n >= 1 /\ 1 \in 1..n /\ DOMAIN servers = 1..n
      /\ \A i \in 1..n : servers[i] \in Answered
  <2>1. n \in Nat /\ n # 0 /\ DOMAIN servers = 1..n /\ \A i \in 1..n : servers[i] \in Answered
    OBVIOUS
  <2> QED
    BY <2>1
<1>2. ASSUME NEW i \in 1..n
      PROVE  /\ Parse(listing[servers[i]]).queries \in Queries
             /\ MayAskAll(Parse(listing[servers[i]]).queries, user[servers[i]])
  BY <1>1, AnswerParsed DEF ParsedSet
<1>3. /\ answers \in Seq(Queries) /\ Len(answers) = n
      /\ \A i \in 1..n : answers[i] = Parse(listing[servers[i]]).queries
  BY <1>1, <1>2
<1>4. Shown(servers) = Tree(queries)
  BY DEF Shown
<1> HIDE DEF answers
<1>5. answers # <<>> /\ Head(answers) = answers[1] /\ DOMAIN answers = 1..n
  <2>1. Len(answers) # 0
    BY <1>1, <1>3
  <2> QED
    BY <1>3, <2>1
<1>6. queries \in Queries /\ Shared(answers, queries, Len(answers[1]))
  BY <1>3, <1>5, CommonIs
<1> HIDE DEF queries
<1>7. \A i \in 1..Len(queries), j \in 1..n : Contains(answers[j], queries[i])
  BY <1>5, <1>6 DEF Shared, InAll
<1>8. ASSUME NEW q, \A j \in 1..n : Contains(answers[j], q)
      PROVE  Contains(queries, q)
  <2>1. PICK k \in 1..Len(answers[1]) : answers[1][k] = q
    BY <1>1, <1>8 DEF Contains
  <2>2. InAll(answers, Head(answers)[k])
    BY <1>5, <1>8, <2>1 DEF InAll
  <2> QED
    BY <1>5, <1>6, <2>1, <2>2 DEF Shared
<1>9. ASSUME NEW i \in 1..Len(queries) PROVE Leads(queries[i])
  <2>1. Contains(answers[1], queries[i])
    BY <1>1, <1>7
  <2>2. PICK k \in 1..Len(answers[1]) : answers[1][k] = queries[i]
    BY <2>1 DEF Contains
  <2>3. MayAsk(queries[i], user[servers[1]])
    BY <1>1, <1>2, <1>3, <2>2 DEF MayAskAll
  <2> QED
    BY <2>3, QueryLeads DEF MayAsk
<1>10. Tree(queries) = [i \in 1..Len(queries) |-> Parts(queries[i])]
  BY <1>6, <1>9, TreeOfQueries
<1> QED
  BY <1>3, <1>4, <1>6, <1>7, <1>8, <1>10

-----------------------------------------------------------------------------
(* What a command that the user may execute has in a complete listing.      *)
LEMMA PermittedHas ==
  ASSUME NEW cs \in Seq(Commands), NEW u, NEW c \in ToSet(cs), CanExecute(c, u)
  PROVE  Contains(Permitted(cs, u), Item(c))
<1> DEFINE n == Len(cs)
<1>1. PICK f \in [0..n -> Seq(Lines)] : PermitsTo(f, cs, u, n) /\ Permitted(cs, u) = f[n]
  BY PermittedFollows
<1>2. n \in Nat /\ \A i \in 1..n : cs[i] \in Commands
  OBVIOUS
<1>3. PICK k \in 1..n : cs[k] = c
  BY DEF ToSet
<1> DEFINE T == {i \in Nat : i <= n /\ k <= i => Contains(f[i], Item(c))}
<1>4. 0 \in T
  OBVIOUS
<1>5. ASSUME NEW i \in Nat, i \in T
      PROVE  i + 1 \in T
  <2> SUFFICES ASSUME i + 1 <= n, k <= i + 1 PROVE Contains(f[i + 1], Item(c))
    OBVIOUS
  <2> DEFINE m == i + 1
             s == f[i]
             y == Item(cs[m])
  <2>1. m \in 1..n /\ m - 1 = i /\ i \in 0..n /\ (k = m \/ k <= i)
    BY <1>2
  <2> HIDE DEF m
  <2>2. f[m] = IF CanExecute(cs[m], u) THEN Append(s, y) ELSE s
    BY <1>1, <2>1 DEF PermitsTo
  <2>3. s \in Seq(Lines) /\ y \in Lines
    BY <1>1, <1>2, <2>1, LinesFacts
  <2>4. k <= i => Contains(s, Item(c))
    BY <1>2, <1>5, <2>1
  <2> HIDE DEF s
  <2>5. k = m => y = Item(c) /\ CanExecute(cs[m], u)
    BY <1>3
  <2> HIDE DEF y
  <2>6. Contains(Append(s, y), y) /\ \A z : Contains(s, z) => Contains(Append(s, y), z)
    BY <2>3, ContainsMore
  <2>7. Contains(f[m], Item(c))
    BY <2>1, <2>2, <2>4, <2>5, <2>6
  <2> QED
    BY <2>7 DEF m
<1> HIDE DEF T
<1>6. Nat \subseteq T
  BY <1>4, <1>5, NaturalInduction
<1>7. Contains(f[n], Item(c))
  BY <1>2, <1>6 DEF T
<1> QED
  BY <1>1, <1>7

(* The listings of some groups.                                             *)
LEMMA ListingsAre ==
  ASSUME NEW gs \in Seq(CommandGroups), NEW L \in [CommandGroups -> Seq(Lines)]
  PROVE  /\ [i \in DOMAIN gs |-> L[gs[i]]] \in Seq(Seq(Lines))
         /\ Len([i \in DOMAIN gs |-> L[gs[i]]]) = Len(gs)
         /\ \A i \in 1..Len(gs) : [j \in DOMAIN gs |-> L[gs[j]]][i] = L[gs[i]]
<1>1. DOMAIN gs = 1..Len(gs) /\ Len(gs) \in Nat /\ \A i \in 1..Len(gs) : gs[i] \in CommandGroups
  OBVIOUS
<1>2. \A i \in 1..Len(gs) : L[gs[i]] \in Seq(Lines)
  BY <1>1
<1> QED
  BY <1>1, <1>2

LEMMA GroupHas ==
  ASSUME NEW u, NEW g \in CommandGroups, NEW x,
         \/ Contains(Permitted(CommandsIn[g], u), x)
         \/ \E h \in ToSet(GroupsIn[g]) : Contains(GroupListing(u)[h], x)
  PROVE  Contains(GroupListing(u)[g], x)
<1> DEFINE L == GroupListing(u)
           a == <<Open(g)>>
           b == Permitted(CommandsIn[g], u)
           inner == [i \in DOMAIN GroupsIn[g] |-> L[GroupsIn[g][i]]]
           c == FlattenSeq(inner)
           d == <<End>>
<1>1. GroupsIn[g] \in Seq(CommandGroups) /\ CommandsIn[g] \in Seq(Commands)
  BY CatalogueAssumption
<1>2. L \in [CommandGroups -> Seq(Lines)] /\ L[g] = a \o b \o c \o d
  BY GroupListingIs DEF ListingFrom
<1>3. a \in Seq(Lines) /\ d \in Seq(Lines)
  BY LinesFacts
<1>4. b \in Seq(Lines)
  BY <1>1, PermittedType
<1>5. inner \in Seq(Seq(Lines)) /\ Len(inner) = Len(GroupsIn[g])
      /\ \A i \in 1..Len(GroupsIn[g]) : inner[i] = L[GroupsIn[g][i]]
  BY <1>1, <1>2, ListingsAre
<1>6. c \in Seq(Lines)
  BY <1>5, FlattenType
<1>7. Contains(b, x) \/ Contains(c, x)
  <2> SUFFICES ASSUME NEW h \in ToSet(GroupsIn[g]), Contains(L[h], x)
               PROVE  Contains(c, x)
    OBVIOUS
  <2>1. PICK k \in 1..Len(GroupsIn[g]) : GroupsIn[g][k] = h
    BY <1>1 DEF ToSet
  <2>2. PICK j \in 1..Len(L[h]) : L[h][j] = x
    BY DEF Contains
  <2> HIDE DEF inner
  <2>3. k \in 1..Len(inner) /\ j \in 1..Len(inner[k]) /\ inner[k][j] = x
    BY <1>5, <2>1, <2>2
  <2> QED
    BY <1>5, <2>3, FlattenHas
<1> HIDE DEF a, b, c, d, L
<1>8. a \o b \in Seq(Lines) /\ (Contains(b, x) => Contains(a \o b, x))
  BY <1>3, <1>4, ContainsJoined
<1> DEFINE ab == a \o b
<1> HIDE DEF ab
<1>9. ab \o c \in Seq(Lines) /\ Contains(ab \o c, x)
  <2>1. ab \in Seq(Lines) /\ (Contains(ab, x) \/ Contains(c, x))
    BY <1>7, <1>8 DEF ab
  <2>2. Contains(ab \o c, x)
    BY <1>6, <2>1, ContainsJoined
  <2> QED
    BY <1>6, <2>1, <2>2
<1> DEFINE abc == ab \o c
<1> HIDE DEF abc
<1>10. Contains(abc \o d, x)
  BY <1>3, <1>9, ContainsJoined DEF abc
<1> QED
  BY <1>2, <1>10 DEF ab, abc, L

LEMMA ListingHas ==
  ASSUME NEW open \in Seq(CommandGroups), InTree(open), NEW c \in Commands, NEW u,
         HasCommand(open, c), CanExecute(c, u)
  PROVE  Contains(FullListing(u), Item(c))
<1> DEFINE n == Len(open)
           x == Item(c)
           L == GroupListing(u)
           inner == [i \in DOMAIN TopGroups |-> L[TopGroups[i]]]
           a == Permitted(TopCommands, u)
           b == FlattenSeq(inner)
<1>1. n \in Nat /\ \A i \in 1..n : open[i] \in CommandGroups
  OBVIOUS
<1>2. /\ TopGroups \in Seq(CommandGroups) /\ TopCommands \in Seq(Commands)
      /\ \A g \in CommandGroups : CommandsIn[g] \in Seq(Commands)
  BY CatalogueAssumption
<1>3. L \in [CommandGroups -> Seq(Lines)]
  BY GroupListingIs
<1> HIDE DEF L
<1>4. inner \in Seq(Seq(Lines)) /\ Len(inner) = Len(TopGroups)
      /\ \A i \in 1..Len(TopGroups) : inner[i] = L[TopGroups[i]]
  BY <1>2, <1>3, ListingsAre
<1>5. a \in Seq(Lines)
  BY <1>2, PermittedType
<1>6. b \in Seq(Lines)
  BY <1>4, FlattenType
<1>7. FullListing(u) = a \o b
  BY DEF FullListing, L
<1>8. Contains(a, x) \/ Contains(b, x)
  <2>1. CASE open = <<>>
    <3>1. c \in ToSet(TopCommands)
      BY <2>1 DEF HasCommand
    <3> QED
      BY <1>2, <3>1, PermittedHas
  <2>2. CASE open # <<>>
    <3> DEFINE T == {i \in Nat : i + 1 <= n => Contains(L[open[i + 1]], x)}
    <3>1. 0 \in T
      <4>1. Head(open) = open[1] /\ 1 \in 1..n
        BY <2>2
      <4>2. c \in ToSet(CommandsIn[open[1]]) /\ open[1] \in CommandGroups
        BY <1>1, <2>2, <4>1 DEF HasCommand
      <4>3. Contains(Permitted(CommandsIn[open[1]], u), x)
        BY <1>2, <4>2, PermittedHas
      <4>4. Contains(L[open[1]], x)
        BY <4>2, <4>3, GroupHas DEF L
      <4> QED
        BY <4>4
    <3>2. ASSUME NEW i \in Nat, i \in T
          PROVE  i + 1 \in T
      <4> SUFFICES ASSUME i + 1 + 1 <= n PROVE Contains(L[open[i + 1 + 1]], x)
        OBVIOUS
      <4> DEFINE j == i + 1
                 k == j + 1
      <4>1. j \in 1..n /\ k \in 1..n /\ j # n /\ Contains(L[open[j]], x)
        BY <1>1, <3>2
      <4> HIDE DEF j
      <4>2. open[j] \in ToSet(GroupsIn[open[k]])
        BY <4>1 DEF InTree
      <4> HIDE DEF k
      <4>3. open[k] \in CommandGroups
        BY <1>1, <4>1
      <4>4. Contains(L[open[k]], x)
        BY <4>1, <4>2, <4>3, GroupHas DEF L
      <4> QED
        BY <4>4 DEF j, k
    <3> HIDE DEF T
    <3>3. Nat \subseteq T
      BY <3>1, <3>2, NaturalInduction
    <3>4. n # 0
      BY <2>2
    <3> DEFINE m == n - 1
    <3>5. m \in Nat /\ m + 1 = n /\ n \in 1..n
      BY <1>1, <3>4
    <3> HIDE DEF m
    <3>6. Contains(L[open[n]], x)
      BY <1>1, <3>3, <3>5 DEF T
    <3>7. open[n] \in ToSet(TopGroups)
      BY <3>5 DEF InTree
    <3>8. PICK k \in 1..Len(TopGroups) : TopGroups[k] = open[n]
      BY <1>2, <3>7 DEF ToSet
    <3>9. PICK j \in 1..Len(L[open[n]]) : L[open[n]][j] = x
      BY <3>6 DEF Contains
    <3> HIDE DEF inner
    <3>10. k \in 1..Len(inner) /\ j \in 1..Len(inner[k]) /\ inner[k][j] = x
      BY <1>4, <3>8, <3>9
    <3> QED
      BY <1>4, <3>10, FlattenHas
  <2> QED
    BY <2>1, <2>2
<1> HIDE DEF a, b
<1> QED
  BY <1>5, <1>6, <1>7, <1>8, ContainsJoined

(* Every command is in a group, or at the top.                              *)
EachIsSomewhere ==
  \A c \in Commands : \E open \in Seq(CommandGroups) : InTree(open) /\ HasCommand(open, c)

(* The tree that the window client shows for one or more servers: each of   *)
(* its leaves is a command that all of them run for their users, whatever   *)
(* disturbed their answers; and the tree of a server that nothing disturbed *)
(* has all commands its user may execute.  Besides names that differ, this  *)
(* needs that the groups are arranged so that appendByQuery does not lose a *)
(* colon that matters (see list_tree), and that the commands are listed at  *)
(* all, which the constructor of the server sees to.                        *)
THEOREM TreeIsFaithful ==
  NamesDiffer /\ FewSiblings /\ EachIsSomewhere => (Spec => []TreeFaithful)
<1> SUFFICES ASSUME NamesDiffer, FewSiblings, EachIsSomewhere PROVE Spec => []TreeFaithful
  OBVIOUS
<1> DEFINE Runs(servers) ==
             \A i \in DOMAIN Shown(servers), j \in DOMAIN servers :
               ResolveLeaf(Shown(servers)[i], user[servers[j]]).answer = "RUN"
           Lacks(t, c) ==
             ~ \E i \in DOMAIN Shown(<<t>>) : ResolveLeaf(Shown(<<t>>)[i], user[t]).cmd = c
<1>1. ASSUME SoundInv, NEW servers \in Seq(Answered)
      PROVE  Runs(servers)
  <2> SUFFICES ASSUME NEW i \in DOMAIN Shown(servers), NEW j \in DOMAIN servers
               PROVE  ResolveLeaf(Shown(servers)[i], user[servers[j]]).answer = "RUN"
    OBVIOUS
  <2>1. servers # <<>> /\ j \in 1..Len(servers) /\ servers[j] \in Answered
    OBVIOUS
  <2>2. PICK queries \in Queries :
          /\ Shown(servers) = [k \in 1..Len(queries) |-> Parts(queries[k])]
          /\ \A k \in 1..Len(queries), l \in 1..Len(servers) :
               Contains(Parse(listing[servers[l]]).queries, queries[k])
    BY <1>1, <2>1, ShownIs
  <2> DEFINE asked == Parse(listing[servers[j]]).queries
             query == queries[i]
             u == user[servers[j]]
  <2>3. i \in 1..Len(queries) /\ Shown(servers)[i] = Parts(query)
    BY <2>2
  <2>4. query \in Seq(AllNames)
    BY <2>3 DEF Queries
  <2>5. MayAskAll(asked, u)
    BY <1>1, <2>1, AnswerParsed
  <2>6. Contains(asked, query)
    BY <2>1, <2>2, <2>3
  <2> HIDE DEF asked, query
  <2>7. PICK k \in 1..Len(asked) : asked[k] = query
    BY <2>6 DEF Contains
  <2>8. MayAsk(query, u)
    BY <2>5, <2>7 DEF MayAskAll
  <2>9. Resolve(query, u).answer = "RUN"
    BY <2>8, AskedRuns
  <2> QED
    BY <2>3, <2>4, <2>9, LeafResolved
<1>2. ASSUME SoundInv, CompleteListing, NEW t \in Answered, alone[t], NEW c \in Commands,
             CanExecute(c, user[t])
      PROVE  ~Lacks(t, c)
  <2> DEFINE u == user[t]
             asked == Parse(listing[t]).queries
             servers == <<t>>
  <2>1. PICK open \in Seq(CommandGroups) : InTree(open) /\ HasCommand(open, c)
    BY DEF EachIsSomewhere
  <2>2. listing[t] = FullListing(u)
    BY <1>2 DEF CompleteListing, Answered
  <2>3. Contains(listing[t], Item(c))
    BY <1>2, <2>1, <2>2, ListingHas
  <2>4. PICK k \in 1..Len(listing[t]) : listing[t][k] = Item(c)
    BY <2>3 DEF Contains
  <2>5. asked \in Queries /\ AsksForAll(asked, listing[t], Len(listing[t]))
    BY <1>2, AnswerParsed DEF ParsedSet
  <2>6. AsksFor(asked, c)
    BY <2>4, <2>5 DEF AsksForAll
  <2> HIDE DEF asked
  <2>7. PICK j \in 1..Len(asked) : QueryOf(asked[j], c)
    BY <2>6 DEF AsksFor
  <2> DEFINE query == asked[j]
  <2>8. query \in Seq(AllNames) /\ Contains(asked, query)
    BY <2>5 DEF Queries, Contains
  <2>9. Resolve(query, u) = [answer |-> "RUN", cmd |-> c]
    <3>1. PICK o \in Seq(CommandGroups) :
            InTree(o) /\ HasCommand(o, c) /\ query = Append(PathOf(o), NameOf[c])
      BY <2>7 DEF QueryOf
    <3> QED
      BY <1>2, <3>1, QueryResolved
  <2> HIDE DEF query
  <2>10. servers \in Seq(Answered) /\ servers # <<>> /\ Len(servers) = 1 /\ servers[1] = t
    OBVIOUS
  <2> HIDE DEF servers
  <2>11. PICK queries \in Queries :
           /\ Shown(servers) = [i \in 1..Len(queries) |-> Parts(queries[i])]
           /\ \A q : (\A l \in 1..Len(servers) : Contains(Parse(listing[servers[l]]).queries, q))
                       => Contains(queries, q)
    BY <1>2, <2>10, ShownIs
  <2>12. Contains(queries, query)
    <3>1. \A l \in 1..Len(servers) : servers[l] = t
      BY <2>10
    <3>2. \A l \in 1..Len(servers) : Contains(Parse(listing[servers[l]]).queries, query)
      BY <2>8, <3>1 DEF asked
    <3> QED
      BY <2>11, <3>2
  <2>13. PICK i \in 1..Len(queries) : queries[i] = query
    BY <2>12 DEF Contains
  <2>14. i \in DOMAIN Shown(servers) /\ Shown(servers)[i] = Parts(query)
    BY <2>11, <2>13
  <2>15. ResolveLeaf(Parts(query), u) = [answer |-> "RUN", cmd |-> c]
    BY <2>8, <2>9, LeafResolved
  <2>16. ResolveLeaf(Shown(servers)[i], u).cmd = c
    BY <2>14, <2>15
  <2> QED
    BY <2>14, <2>16 DEF servers
<1>3. SoundInv /\ CompleteListing /\ QueriesRun => TreeFaithful
  <2> SUFFICES ASSUME SoundInv, CompleteListing, QueriesRun PROVE TreeFaithful
    OBVIOUS
  <2>1. ASSUME NEW S \in SUBSET Answered, NEW servers \in SetToSeqs(S)
        PROVE  servers \in Seq(Answered)
    <3>1. IsFiniteSet(S)
      <4>1. S \subseteq Threads /\ IsFiniteSet(Threads)
        BY DialogAssumption DEF Answered
      <4> QED
        BY <4>1, FS_Subset
    <3>2. Cardinality(S) \in Nat
      BY <3>1, FS_CardinalityType
    <3>3. servers \in [1..Cardinality(S) -> S]
      BY DEF SetToSeqs
    <3> QED
      BY <3>2, <3>3
  <2>2. \A servers \in UNION {SetToSeqs(S) : S \in SUBSET Answered \ {{}}} : Runs(servers)
    BY <1>1, <2>1
  <2>3. \A t \in Answered : alone[t] =>
          \A c \in Commands : CanExecute(c, user[t]) => ~Lacks(t, c)
    BY <1>2
  <2> QED
    BY <2>2, <2>3 DEF TreeFaithful
<1>4. Spec => []QueriesRun
  BY QueriesAreRun
<1> QED
  BY SoundInductive, ListingIsComplete, <1>3, <1>4, PTL

=============================================================================

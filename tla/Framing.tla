------------------------------- MODULE Framing -------------------------------
(***************************************************************************)
(* Client::write / Server::read and Server::write / Client::read: one      *)
(* direction of a connection.  A transmission is cut into blocks of        *)
(* MaxLength characters, each handed to write_some; the separator ETX      *)
(* (character 3) marks its end, NULs pad the last block.  The two classes  *)
(* have the same code, so one module stands for both directions.           *)
(*                                                                         *)
(* The stream under them is boost::asio's ssl::stream: write_some makes    *)
(* one TLS record of a block, and read_some returns the data of one        *)
(* record, so a reader sees the blocks that were written, in order.        *)
(***************************************************************************)
EXTENDS Integers, Sequences

CONSTANTS MaxLength,        \* max_length, the size of a block (1024)
          Chars,            \* the characters of the texts
          NUL, ETX,         \* '\0' and the separator
          Transmissions,    \* the texts given to write
          MaxSent           \* bound: how many of them are written

ASSUME MaxLengthAssumption == MaxLength \in Nat /\ MaxLength > 1
ASSUME CharsAssumption == NUL # ETX
ASSUME TransmissionsAssumption == Transmissions \subseteq Seq(Chars)
ASSUME MaxSentAssumption == MaxSent \in Nat

VARIABLES sent,       \* texts given to write; the last one is being written
          writing,    \* a call of write is running
          pos,        \* its variable pos
          addl,       \* its variable additionalEndSend
          wire,       \* blocks written and not yet read
          origin,     \* auxiliary: <<index in sent, position>> of each of them
          out,        \* what the running read has collected
          received    \* texts returned by read

vars == <<sent, writing, pos, addl, wire, origin, out, received>>

Symbols == Chars \cup {NUL, ETX}
Blocks == [1..MaxLength -> Symbols]
-----------------------------------------------------------------------------
(* The block write builds when p characters of t have been sent.  The end   *)
(* mark goes into it only when it is not the last of the block's cells.     *)
Block(t, p) ==
  [i \in 1..MaxLength |->
     IF p + i <= Len(t) THEN t[p + i]
     ELSE IF p + i = Len(t) + 1 /\ i < MaxLength THEN ETX ELSE NUL]

EndBlock == [i \in 1..MaxLength |-> IF i = 1 THEN ETX ELSE NUL]

Trans == sent[Len(sent)]

Init ==
  /\ sent = <<>> /\ received = <<>>
  /\ writing = FALSE /\ pos = 0 /\ addl = FALSE
  /\ wire = <<>> /\ origin = <<>> /\ out = <<>>

(* The call write(t).                                                       *)
Write(t) ==
  /\ ~writing /\ Len(sent) < MaxSent
  /\ sent' = Append(sent, t)
  /\ writing' = TRUE /\ pos' = 0 /\ addl' = FALSE
  /\ UNCHANGED <<wire, origin, out, received>>

(* Mutant of WriteBlock: a full block advances one character too few.       *)
WriteBlockOverlapping ==
  /\ writing /\ pos < Len(Trans)
  /\ wire' = Append(wire, Block(Trans, pos))
  /\ origin' = Append(origin, <<Len(sent), pos>>)
  /\ pos' = IF Len(Trans) - pos >= MaxLength - 1
            THEN pos + MaxLength - 1 ELSE Len(Trans)
  /\ addl' = (addl \/ Len(Trans) - pos = MaxLength - 1)
  /\ UNCHANGED <<sent, writing, out, received>>

(* One iteration of its loop, which ends with write_some.                   *)
WriteBlock ==
  /\ writing /\ pos < Len(Trans)
  /\ wire' = Append(wire, Block(Trans, pos))
  /\ origin' = Append(origin, <<Len(sent), pos>>)
  /\ pos' = IF Len(Trans) - pos >= MaxLength - 1
            THEN pos + MaxLength ELSE Len(Trans)
  /\ addl' = (addl \/ Len(Trans) - pos = MaxLength - 1)
  /\ UNCHANGED <<sent, writing, out, received>>

(* After the loop: the additional end block when it was asked for; return.  *)
WriteReturn ==
  /\ writing /\ pos >= Len(Trans)
  /\ writing' = FALSE
  /\ wire' = IF addl THEN Append(wire, EndBlock) ELSE wire
  /\ origin' = IF addl THEN Append(origin, <<Len(sent), pos>>) ELSE origin
  /\ UNCHANGED <<sent, pos, addl, out, received>>

(* The cells of a block before its first separator.                         *)
Ends(b) == {i \in 1..MaxLength : b[i] = ETX}
Payload(b) ==
  IF Ends(b) = {} THEN b
  ELSE SubSeq(b, 1, (CHOOSE i \in Ends(b) : \A j \in Ends(b) : i <= j) - 1)

(* Mutant of ReadSome: read returns after one block, finished or not.       *)
ReadOneBlock ==
  /\ wire # <<>>
  /\ wire' = Tail(wire) /\ origin' = Tail(origin)
  /\ received' = Append(received, Payload(Head(wire)))
  /\ UNCHANGED <<sent, writing, pos, addl, out>>

(* One read_some of a read: what comes after the separator is dropped.      *)
ReadSome ==
  /\ wire # <<>>
  /\ wire' = Tail(wire) /\ origin' = Tail(origin)
  /\ IF Ends(Head(wire)) = {}
     THEN out' = out \o Payload(Head(wire)) /\ UNCHANGED received
     ELSE /\ received' = Append(received, out \o Payload(Head(wire)))
          /\ out' = <<>>
  /\ UNCHANGED <<sent, writing, pos, addl>>

Next ==
  \/ \E t \in Transmissions : Write(t)
  \/ WriteBlock
  \/ WriteReturn
  \/ ReadSome

(* A started write and a blocked read_some go on when they can.             *)
Fairness == WF_vars(WriteBlock) /\ WF_vars(WriteReturn) /\ WF_vars(ReadSome)

Spec == Init /\ [][Next]_vars /\ Fairness
-----------------------------------------------------------------------------
(* The texts the code transmits as documented: no separator among their     *)
(* characters, and a length that leaves, in the last block, room for the    *)
(* separator and one more cell (so not a multiple of MaxLength, not empty,  *)
(* and not one less than a multiple).                                       *)
Safe(t) ==
  /\ \A i \in DOMAIN t : t[i] # ETX
  /\ Len(t) % MaxLength \in 1..(MaxLength - 2)

AllSafe == \A t \in Transmissions : Safe(t)
-----------------------------------------------------------------------------
(* The types of the variables.                                              *)
TypeOK ==
  /\ sent \in Seq(Transmissions)
  /\ writing \in BOOLEAN /\ addl \in BOOLEAN
  /\ pos \in Nat
  /\ wire \in Seq(Blocks)
  /\ origin \in Seq(Nat \X Nat) /\ Len(origin) = Len(wire)
  /\ out \in Seq(Symbols)
  /\ received \in Seq(Seq(Symbols))
  /\ writing => sent # <<>>

(* What read returns is what write was given: the received texts are a      *)
(* prefix of the sent ones, character by character, although blocks of      *)
(* several transmissions are in flight at once.                             *)
Intact ==
  /\ Len(received) <= Len(sent)
  /\ \A i \in 1..Len(received) : received[i] = sent[i]

(* When write has returned and the stream is drained, read has returned     *)
(* every text: none waits for a separator that was never sent.              *)
NothingLost == ~writing /\ wire = <<>> => Len(received) = Len(sent)

(* Framing implements the abstract FIFO of texts, its liveness included.    *)
Channel == INSTANCE Transmission
ImplementsTransmission == Channel!Spec
-----------------------------------------------------------------------------
(* The inductive invariant: the blocks in flight are, in order, exactly     *)
(* those between the reader's position and the writer's.                    *)
Follows(q) ==
  IF Len(sent[q[1]]) - q[2] > MaxLength
  THEN <<q[1], q[2] + MaxLength>> ELSE <<q[1] + 1, 0>>

ReaderAt == <<Len(received) + 1, Len(out)>>
WriterAt == IF writing /\ pos < Len(Trans)
            THEN <<Len(sent), pos>> ELSE <<Len(sent) + 1, 0>>

Aligned(q) ==
  /\ q[1] \in 1..Len(sent)
  /\ q[2] \in Nat /\ q[2] < Len(sent[q[1]])
  /\ q[2] % MaxLength = 0

Chain ==
  /\ \A i \in 1..Len(wire) :
       /\ Aligned(origin[i])
       /\ wire[i] = Block(sent[origin[i][1]], origin[i][2])
       /\ Follows(origin[i]) = IF i < Len(wire) THEN origin[i + 1] ELSE WriterAt
  /\ ReaderAt = IF wire = <<>> THEN WriterAt ELSE origin[1]

Collected ==
  \A i \in 1..Len(out) : /\ Len(received) < Len(sent)
                         /\ Len(out) < Len(sent[Len(received) + 1])
                         /\ out[i] = sent[Len(received) + 1][i]

WriterOK ==
  /\ ~addl
  /\ writing => pos = Len(Trans) \/ Aligned(<<Len(sent), pos>>)

FramingInv == TypeOK /\ Intact /\ Chain /\ Collected /\ WriterOK
=============================================================================

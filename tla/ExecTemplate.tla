---------------------------- MODULE ExecTemplate ----------------------------
(***************************************************************************)
(* Command::getExec(params): the parameters of a command put into its      *)
(* template in the place of {rcfparam:0}, {rcfparam:1}, ...                *)
(*                                                                         *)
(* Texts are sequences of characters.  The automaton of the code has a     *)
(* state for each character of "{rcfparam:" and one, parsenum, after it:   *)
(* here the state is how many of these characters have been matched.       *)
(*                                                                         *)
(* A template is taken to be a sequence of pieces, a text that stands for  *)
(* itself or the placeholder of a parameter; the code only sees their      *)
(* characters, one after the other.                                        *)
(***************************************************************************)
EXTENDS Integers, SequencesExt

CONSTANTS
  Alphabet,    \* the characters of texts
  Pieces,      \* of which templates consist
  LastPieces,  \* with which they end
  MaxPieces,   \* bound on their number
  Params,      \* texts given as parameters
  MaxParams    \* bound on how many are given, and how many a command has

VARIABLES
  exec,       \* the pieces of the template that have been gone through
  call,       \* the parameters given and how many the command has
  automaton,  \* pdstatus, potentialparam and out
  result      \* what the call returned

fillVars == <<exec, call, automaton, result>>

Prefix == <<"{", "r", "c", "f", "p", "a", "r", "a", "m", ":">>
Digits == <<"0", "1", "2", "3", "4", "5", "6", "7", "8", "9">>

IsDigit(c) == Contains(Digits, c)
ValueOf(c) == (CHOOSE i \in DOMAIN Digits : Digits[i] = c) - 1

\* atoi: the value of the digits at the beginning of a text, 0 if there are
\* none.  (White space and a sign may precede the digits; this module's texts
\* have neither.)
AtoI(text) ==
  LET stop == {i \in DOMAIN text : ~IsDigit(text[i])}
      digits == IF stop = {} THEN text ELSE SubSeq(text, 1, Min(stop) - 1)
      value[n \in 0..Len(digits)] ==
        IF n = 0 THEN 0 ELSE 10 * value[n - 1] + ValueOf(digits[n])
  IN  value[Len(digits)]

\* The automaton: the state, potentialparam, out, and whether it has thrown.
Begin == [matched |-> 0, potential |-> <<>>, out |-> <<>>, threw |-> FALSE]

\* In parsenum everything up to } belongs to the number.  What follows the
\* first colon goes to atoi.
Substituted(a, params, numParams) ==
  LET ipn == AtoI(SubSeq(a.potential, Len(Prefix) + 1, Len(a.potential)))
  IN IF ipn >= numParams
     THEN [a EXCEPT !.threw = TRUE]
     ELSE [Begin EXCEPT !.out = a.out \o params[ipn + 1]]

\* Mutant of Mismatch: what was matched is not put out.
MismatchDrops(a, c) == [a EXCEPT !.out = Append(@, c), !.matched = 0]

\* A character that does not go on with the placeholder: what was matched is
\* put out with it.  potentialparam keeps it until the next character.
Mismatch(a, c) == [a EXCEPT !.out = @ \o Append(a.potential, c), !.matched = 0]

Character(a, c, params, numParams) ==
  IF a.threw THEN a
  ELSE IF a.matched = Len(Prefix)
  THEN IF c = "}" THEN Substituted(a, params, numParams)
                  ELSE [a EXCEPT !.potential = Append(@, c)]
  ELSE IF c = Prefix[a.matched + 1]
  THEN [a EXCEPT !.matched = @ + 1,
                 !.potential = IF a.matched = 0 THEN <<c>> ELSE Append(@, c)]
  ELSE IF a.matched = 0
  THEN [a EXCEPT !.potential = <<>>, !.out = Append(@, c)]
  ELSE Mismatch(a, c)

\* All characters of a text.
Characters(a, text, params, numParams) ==
  LET after[n \in 0..Len(text)] ==
        IF n = 0 THEN a ELSE Character(after[n - 1], text[n], params, numParams)
  IN  after[Len(text)]

Literal(text) == [text |-> text, index |-> -1]
Placeholder(i) == [text |-> Prefix \o <<Digits[i + 1], "}">>, index |-> i]

\* A text that breaks off a placeholder with its last character, which may be
\* its only one, and a text that a placeholder may still go on from.
BreaksOff(text) ==
  /\ text # <<>> /\ Len(text) <= Len(Prefix)
  /\ \A i \in 1..(Len(text) - 1) : text[i] = Prefix[i]
  /\ text[Len(text)] # Prefix[Len(text)]

Unfinished(text) ==
  /\ text # <<>>
  /\ \A i \in 1..Len(text) :
       IF i <= Len(Prefix) THEN text[i] = Prefix[i] ELSE text[i] # "}"

IsLiteral(piece) == piece = Literal(piece.text) /\ piece.text \in Seq(Alphabet)
IsPlaceholder(piece) == \E i \in 0..(Len(Digits) - 1) : piece = Placeholder(i)

\* The templates meant: placeholders with a digit, and in between any text,
\* taken apart where a placeholder is broken off.  No template ends with the
\* character that breaks one off, unless it stands alone.
ASSUME TemplateAssumption ==
  /\ ToSet(Prefix) \cup ToSet(Digits) \cup {"}"} \subseteq Alphabet
  /\ MaxParams \in Nat /\ \A text \in Params : text \in Seq(Alphabet)
  /\ \A piece \in Pieces :
       IsPlaceholder(piece) \/ (IsLiteral(piece) /\ BreaksOff(piece.text))
  /\ \A piece \in LastPieces :
       \/ IsPlaceholder(piece)
       \/ /\ IsLiteral(piece)
          /\ \/ Unfinished(piece.text)
             \/ BreaksOff(piece.text) /\ Len(piece.text) = 1

NoCall == [params |-> <<>>, numParams |-> -1]
NoResult == [returned |-> FALSE, threw |-> FALSE, text |-> <<>>]
Threw == [returned |-> TRUE, threw |-> TRUE, text |-> <<>>]
Returned(text) == [returned |-> TRUE, threw |-> FALSE, text |-> text]

FillInit ==
  /\ exec = <<>>
  /\ call = NoCall
  /\ automaton = Begin
  /\ result = NoResult

\* getExec is called; with too few parameters it throws at once.
Call(params, numParams) ==
  /\ call = NoCall
  /\ call' = [params |-> params, numParams |-> numParams]
  /\ result' = IF Len(params) < numParams THEN Threw ELSE NoResult
  /\ UNCHANGED <<exec, automaton>>

Filling == call.numParams >= 0 /\ ~result.returned

\* The loop goes through another piece of the template.
Fill(piece) ==
  /\ Filling
  /\ exec' = Append(exec, piece)
  /\ automaton' = Characters(automaton, piece.text, call.params, call.numParams)
  /\ UNCHANGED call

\* A piece after which the template goes on, unless the code throws.
FillPiece(piece) ==
  /\ Len(exec) < MaxPieces
  /\ Fill(piece)
  /\ result' = IF automaton'.threw THEN Threw ELSE result

\* The last piece.  What is left in potentialparam is put out behind it.
FillLast(piece) ==
  /\ Fill(piece)
  /\ result' = IF automaton'.threw
               THEN Threw
               ELSE Returned(automaton'.out \o automaton'.potential)

FillNext ==
  \/ \E params \in BoundedSeq(Params, MaxParams), numParams \in 0..MaxParams :
       Call(params, numParams)
  \/ \E piece \in Pieces : FillPiece(piece)
  \/ \E piece \in LastPieces : FillLast(piece)

(***************************************************************************)
(* What a call should give.                                                *)
(***************************************************************************)
Reference(pieces, params, numParams) ==
  IF \/ Len(params) < numParams
     \/ \E i \in DOMAIN pieces : pieces[i].index >= numParams
  THEN Threw
  ELSE Returned(FlattenSeq([i \in DOMAIN pieces |->
                  IF pieces[i].index < 0 THEN pieces[i].text
                                         ELSE params[pieces[i].index + 1]]))

\* getExec returns the "Command on server with substituted parameters"
\* (Command.h, line 53): each placeholder replaced by its parameter, wherever
\* it stands and however often, and the rest as it is, text that begins like
\* a placeholder included; and it throws if a parameter is missing.
\*
\* Not so for two kinds of templates.  When the last character is the one that
\* breaks off a placeholder, as in "ls {}", what came before it is put out
\* twice.  And a placeholder right behind the beginning of another, as in
\* "{{rcfparam:0}", is not seen.
Substitutes ==
  result.returned => result = Reference(exec, call.params, call.numParams)
=============================================================================

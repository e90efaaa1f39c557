------------------------------- MODULE MCExec -------------------------------
EXTENDS CommandExecute

Says(k, n) == [op |-> k, chars |-> n]
ReadsAll == [op |-> "readall", chars |-> 0]

\* Output in pieces that fill the buffer and shrink; both streams in turn;
\* more on standard error than its pipe holds; a filter.
MCPrograms ==
  { <<Says("out", 3), Says("out", 1)>>,
    <<Says("out", 1), Says("err", 2), Says("out", 4)>>,
    <<Says("err", 3), Says("err", 2), Says("out", 1)>>,
    <<Says("out", 1), ReadsAll>> }

\* The command of one of the threads prints NULs.
MCNulChars == LET t == CHOOSE u \in Threads : TRUE
              IN  {<<t, "out", 2>>, <<t, "err", 4>>}
MCNoNul == {}

\* Plain text, text that breaks off a placeholder at its start and right
\* before its number, and placeholders.
MCPieces ==
  { Literal(<<"a">>), Literal(<<"{", "}">>), Literal(SubSeq(Prefix, 1, 9) \o <<"}">>),
    Placeholder(0), Placeholder(1), Placeholder(2) }
MCLastPieces ==
  { Literal(<<"a">>), Literal(<<"}">>), Literal(<<"{">>), Literal(Prefix \o <<"1">>),
    Placeholder(1) }
MCAlphabet == ToSet(Prefix) \cup ToSet(Digits) \cup {"}", "q"}
MCParams == { <<>>, <<"p">>, <<"q", "}">>, Placeholder(0).text }
=============================================================================

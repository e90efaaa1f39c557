------------------------ MODULE Conversation_proofs ------------------------
(***************************************************************************)
(* Proofs about RCFSession: past the login, the two ends of a session stay *)
(* in step over every branch of handleExecute and of Client::execute, what *)
(* runs is what was asked for, and the client's result is that of the run; *)
(* so the sessions take only the steps that RemoteService allows.          *)
(***************************************************************************)
EXTENDS RCFSession_proofs

(***************************************************************************)
(* What has to be known of a configuration: no command or group is called  *)
(* ENDLIST, and no command prints the lines that Client::execute takes for *)
(* the end of an output.                                                   *)
(***************************************************************************)
PlainNames == "ENDLIST" \notin Listable

PlainOutputs ==
  \A o \in Outputs :
    /\ \A i \in DOMAIN Lines(o[1]) : Lines(o[1])[i] \notin {"OUTEND", "ERREND"}
    /\ \A i \in DOMAIN Lines(o[2]) : Lines(o[2])[i] # "ERREND"

Plain == PlainNames /\ PlainOutputs

(***************************************************************************)
(* The inductive invariant.                                                *)
(***************************************************************************)
(* The texts the client has yet to read, written or not.                    *)
Pending(s) == s2c[s] \o outq[s]

Meant(s) == Resolve(Path[query[s]], cuser[s])
Runnable(s) == query[s] # None /\ Meant(s) = [answer |-> "RUN", cmd |-> cmd[s]]

(* The last parameter that was typed is still on its way to the thread, or  *)
(* was empty and never went.                                                *)
Awaited(s) ==
  /\ Len(params[s]) < NumParams[cmd[s]]
  /\ \/ c2s[s] = <<>> /\ typed[s] = params[s]
     \/ c2s[s] = <<>> /\ typed[s] = Append(params[s], "") /\ "" \in Params
     \/ \E p \in Params : c2s[s] = <<Text(p)>> /\ typed[s] = Append(params[s], p)

Complete(s) ==
  c2s[s] = <<>> /\ typed[s] = params[s] /\ Len(params[s]) = NumParams[cmd[s]]

RanAsAsked(s) ==
  /\ query[s] # None
  /\ Meant(s) = [answer |-> "RUN", cmd |-> ran[s].cmd]
  /\ ran[s].params = typed[s] /\ Len(typed[s]) = NumParams[ran[s].cmd]

(* The thread's part, wherever the client is, gone or not.                  *)
ThreadSide(s) ==
  /\ Len(c2s[s]) <= 1
  /\ c2s[s] # <<>> /\ IsExec(Received(s)) =>
       Received(s).arg = query[s] /\ ran[s] = None /\ typed[s] = <<>>
  /\ spc[s] = "param" => ran[s] = None /\ Runnable(s) /\ Awaited(s)
  /\ spc[s] = "run" => ran[s] = None /\ Runnable(s) /\ Complete(s)
  /\ ran[s] # None => RanAsAsked(s)

Idle(s) == c2s[s] = <<>> /\ Pending(s) = <<>> /\ spc[s] = "postauth"
Fresh(s) == ps[s] = "toplevel" /\ res[s] = NoResult

(* What a finished request has left behind.                                 *)
Answered(s) ==
  query[s] # None =>
    IF ran[s] = None THEN res[s] = NoResult /\ Meant(s).answer # "RUN"
    ELSE res[s] = [out |-> ran[s].out, err |-> ran[s].err, code |-> ran[s].code]

(* Lines of a listing; the last one ends it once the thread is done with it.*)
ListComing(s, lines) ==
  /\ \A i \in 1..(Len(lines) - 1) : lines[i].head # "ENDLIST"
  /\ spc[s] = "list" => \A i \in 1..Len(lines) : lines[i].head # "ENDLIST"
  /\ spc[s] = "postauth" => lines # <<>> /\ lines[Len(lines)] = Text("ENDLIST")

Listing(s, lines) ==
  c2s[s] = <<>> /\ spc[s] \in {"list", "postauth"} /\ ListComing(s, lines)

AtList(s) == Listing(s, Pending(s))

AtListBegin(s) ==
  \/ spc[s] = "postauth" /\ c2s[s] = <<Text("LIST")>> /\ Pending(s) = <<>>
  \/ /\ Pending(s) # <<>> /\ Head(Pending(s)) = Text("BEGINLIST")
     /\ Listing(s, Tail(Pending(s)))

AtClose(s) ==
  \/ spc[s] = "postauth" /\ c2s[s] = <<Text("CLOSE")>> /\ Pending(s) = <<>>
  \/ spc[s] \in {"closing", "ended"} /\ c2s[s] = <<>> /\ Pending(s) = <<Text("CLOSE")>>

(* The parts of a report from each of its marks on.                         *)
FromErr(err) == Texts(err) \o <<Text("ERREND")>>
FromErrBegin(err) == <<Text("ERRBEGIN")>> \o FromErr(err)
FromOut(out, err) == Texts(out) \o (<<Text("OUTEND")>> \o FromErrBegin(err))
FromOutBegin(out, err) == <<Text("OUTBEGIN")>> \o FromOut(out, err)
FromEnd(r) == <<With("EXECEND", r.code)>> \o FromOutBegin(r.out, r.err)
FromBegin(r) == <<Text("EXECBEGIN")>> \o FromEnd(r)

(* The lines that come after those that were read.                          *)
Rest(lines, read) == SubSeq(lines, Len(read) + 1, Len(lines))

(* How much of the report of a run the client has read.                     *)
Reporting(s, r) ==
  \/ ps[s] = "toplevel" /\ res[s] = NoResult /\ Pending(s) = FromBegin(r)
  \/ ps[s] = "inexec" /\ res[s] = NoResult /\ Pending(s) = FromEnd(r)
  \/ /\ ps[s] = "toplevel" /\ res[s] = [out |-> <<>>, err |-> <<>>, code |-> r.code]
     /\ Pending(s) = FromOutBegin(r.out, r.err)
  \/ /\ ps[s] = "out"
     /\ res[s].err = <<>> /\ res[s].code = r.code
     /\ r.out = res[s].out \o Rest(r.out, res[s].out)
     /\ Pending(s) = FromOut(Rest(r.out, res[s].out), r.err)
  \/ /\ ps[s] = "toplevel" /\ res[s] = [out |-> r.out, err |-> <<>>, code |-> r.code]
     /\ Pending(s) = FromErrBegin(r.err)
  \/ /\ ps[s] = "err"
     /\ res[s].out = r.out /\ res[s].code = r.code
     /\ r.err = res[s].err \o Rest(r.err, res[s].err)
     /\ Pending(s) = FromErr(Rest(r.err, res[s].err))

PlainRun(r) ==
  /\ \A i \in DOMAIN r.out : r.out[i] \notin {"OUTEND", "ERREND"}
  /\ \A i \in DOMAIN r.err : r.err[i] # "ERREND"

Running(s, after) ==
  /\ c2s[s] = <<>> /\ ran[s] = None /\ res[s] = NoResult
  /\ \/ ps[s] = "toplevel" /\ Pending(s) = <<Text("EXECBEGIN")>> \o after
     \/ ps[s] = "inexec" /\ Pending(s) = after

AtExec(s) ==
  /\ query[s] # None
  /\ \/ /\ spc[s] = "postauth" /\ Fresh(s) /\ c2s[s] = <<With("EXEC", query[s])>>
        /\ Pending(s) = <<>>
     \/ /\ spc[s] = "postauth" /\ Fresh(s) /\ c2s[s] = <<>> /\ ran[s] = None
        /\ Meant(s).answer # "RUN" /\ Pending(s) = <<Text(Meant(s).answer)>>
     \/ /\ spc[s] = "param" /\ Fresh(s)
        /\ \/ Pending(s) = <<>> /\ (c2s[s] = <<>> => "" \in Params)
           \/ /\ Pending(s) = <<Text("PARAM")>>
              /\ c2s[s] = <<>> /\ typed[s] = params[s]
     \/ spc[s] = "run" /\ Running(s, <<>>)
     \/ /\ spc[s] \in {"failing", "ended"} /\ Running(s, <<Text("ERROR")>>)
        /\ Meant(s).answer = "RUN"
     \/ /\ spc[s] = "postauth" /\ c2s[s] = <<>> /\ ran[s] # None
        /\ PlainRun(ran[s]) /\ Reporting(s, ran[s])

BeforeMenu == {"start", "tls", "hello", "hello_reply", "login", "user_reply",
               "pass_reply"}

ClientSide(s) ==
  /\ cpc[s] \in BeforeMenu => query[s] = None /\ ran[s] = None
  /\ cpc[s] = "menu" => Idle(s) /\ Answered(s)
  /\ cpc[s] = "list_begin" => query[s] = None /\ AtListBegin(s)
  /\ cpc[s] = "list" => query[s] = None /\ AtList(s)
  /\ cpc[s] = "close_reply" => AtClose(s)
  /\ cpc[s] = "exec" => AtExec(s)

Conversation(s) == ThreadSide(s) /\ ClientSide(s)
ConversationInv == LoginInv /\ \A s \in Sessions : Conversation(s)
-----------------------------------------------------------------------------
(***************************************************************************)
(* Queues of texts, and what a step leaves of them to be read.             *)
(***************************************************************************)
LEMMA ConcatHeadTail ==
  ASSUME NEW M, NEW a \in Seq(M), NEW b \in Seq(M), a # <<>>
  PROVE  a \o b # <<>> /\ Head(a \o b) = Head(a) /\ Tail(a \o b) = Tail(a) \o b
<1>1. /\ a \o b \in Seq(M) /\ Len(a \o b) = Len(a) + Len(b)
      /\ \A i \in 1..(Len(a) + Len(b)) :
           (a \o b)[i] = IF i <= Len(a) THEN a[i] ELSE b[i - Len(a)]
  BY ConcatProperties
<1>2. Len(a) \in Nat /\ Len(b) \in Nat /\ Len(a) > 0
  BY EmptySeq, LenProperties
<1>3. a \o b # <<>> /\ Head(a \o b) = Head(a)
  BY <1>1, <1>2
<1>4. Tail(a \o b) \in Seq(M) /\ Tail(a) \o b \in Seq(M)
  BY <1>1, <1>3, HeadTailProperties, ConcatProperties
<1>5. Len(Tail(a \o b)) = Len(Tail(a) \o b)
  BY <1>1, <1>2, <1>3, HeadTailProperties, ConcatProperties
<1>6. ASSUME NEW i \in 1..Len(Tail(a \o b))
      PROVE  Tail(a \o b)[i] = (Tail(a) \o b)[i]
  BY <1>1, <1>2, <1>3, HeadTailProperties, ConcatProperties
<1>. QED BY <1>3, <1>4, <1>5, <1>6, SeqEqual

LEMMA WriteKeepsOrder ==
  ASSUME NEW M, NEW a \in Seq(M), NEW b \in Seq(M), b # <<>>
  PROVE  Append(a, Head(b)) \o Tail(b) = a \o b
<1>1. Head(b) \in M /\ Tail(b) \in Seq(M) /\ Append(a, Head(b)) \in Seq(M)
  BY HeadTailProperties, AppendProperties
<1>2. Append(a, Head(b)) = a \o <<Head(b)>> /\ <<Head(b)>> \in Seq(M)
  BY <1>1, AppendIsConcat
<1>3. <<Head(b)>> \o Tail(b) = b
  BY <1>1
<1>. QED BY <1>1, <1>2, <1>3, ConcatAssociative

LEMMA ConcatThree ==
  ASSUME NEW M, NEW x \in Seq(M), NEW y \in Seq(M), NEW z \in Seq(M)
  PROVE  (x \o y) \o z = x \o (y \o z) /\ x \o y \in Seq(M)
BY ConcatAssociative, ConcatProperties

LEMMA Queues ==
  ASSUME TypeOK, NEW s \in Sessions
  PROVE  /\ c2s[s] \in Seq(Messages) /\ s2c[s] \in Seq(Messages)
         /\ outq[s] \in Seq(Messages) /\ Pending(s) \in Seq(Messages)
BY ConcatProperties DEF TypeOK, ThreadTypes, Pending

(* The client reads the first of the pending texts.                         *)
LEMMA PendingRead ==
  ASSUME TypeOK, NEW s \in Sessions, NEW where, ClientReads(s, where), outq'[s] = outq[s]
  PROVE  /\ cpc[s] = where /\ Pending(s) # <<>> /\ Reply(s) = Head(Pending(s))
         /\ Pending(s)' = Tail(Pending(s))
<1>1. s2c[s] # <<>> /\ s2c'[s] = Tail(s2c[s]) /\ cpc[s] = where
  BY DEF ClientReads, TypeOK
<1>. QED BY ZenonT(60), <1>1, Queues, ConcatHeadTail DEF Pending, Reply

(* The thread adds to them at the end.                                      *)
LEMMA PendingAnswer ==
  ASSUME TypeOK, NEW s \in Sessions, NEW texts \in Seq(Messages), NEW next,
         Answer(s, texts, next), outq[s] = <<>>, s2c'[s] = s2c[s]
  PROVE  /\ Pending(s)' = Pending(s) \o texts /\ spc'[s] = next
         /\ Pending(s) = <<>> => Pending(s)' = texts
<1>1. outq'[s] = texts /\ spc'[s] = next
  BY DEF Answer, Set, TypeOK, ThreadTypes
<1>. QED BY <1>1, Queues, ConcatEmptySeq DEF Pending

(* The thread's part says nothing new when no text comes and the thread is  *)
(* not about to ask or to run.                                              *)
LEMMA ThreadSideKept ==
  ASSUME NEW s \in Sessions, ThreadSide(s),
         c2s'[s] = c2s[s] \/ c2s'[s] = <<>>,
         \/ spc'[s] = spc[s] /\ c2s'[s] = c2s[s] /\ cmd'[s] = cmd[s] /\ params'[s] = params[s]
         \/ spc'[s] \notin {"param", "run"},
         query'[s] = query[s], typed'[s] = typed[s], ran'[s] = ran[s], cuser'[s] = cuser[s]
  PROVE  ThreadSide(s)'
<1>1. Len(c2s'[s]) <= 1
  BY DEF ThreadSide
<1>2. c2s'[s] # <<>> /\ IsExec(Received(s))' =>
        Received(s)' = Received(s) /\ c2s[s] # <<>> /\ IsExec(Received(s))
  BY DEF Received, IsExec
<1>3. RanAsAsked(s) => RanAsAsked(s)'
  BY DEF RanAsAsked, Meant
<1>4. CASE spc'[s] \notin {"param", "run"}
  BY <1>1, <1>2, <1>3, <1>4 DEF ThreadSide
<1>5. CASE spc'[s] = spc[s] /\ c2s'[s] = c2s[s] /\ cmd'[s] = cmd[s] /\ params'[s] = params[s]
  BY <1>1, <1>2, <1>3, <1>5 DEF ThreadSide, Runnable, Meant, Awaited, Complete
<1>. QED BY <1>4, <1>5

(* Only the conjunct about the client's place says something.               *)
LEMMA ClientSideAt ==
  ASSUME NEW s \in Sessions,
         \/ cpc'[s] \in BeforeMenu /\ query'[s] = None /\ ran'[s] = None
         \/ cpc'[s] = "menu" /\ Idle(s)' /\ Answered(s)'
         \/ cpc'[s] = "list_begin" /\ query'[s] = None /\ AtListBegin(s)'
         \/ cpc'[s] = "list" /\ query'[s] = None /\ AtList(s)'
         \/ cpc'[s] = "close_reply" /\ AtClose(s)'
         \/ cpc'[s] = "exec" /\ AtExec(s)'
         \/ cpc'[s] \in Gone
  PROVE  ClientSide(s)'
BY DEF ClientSide, BeforeMenu, Gone

(***************************************************************************)
(* What a step leaves alone in a session, Same and the rest.               *)
(***************************************************************************)
SameRequest(s) == /\ query'[s] = query[s] /\ typed'[s] = typed[s] /\ ran'[s] = ran[s]
                  /\ ps'[s] = ps[s] /\ res'[s] = res[s]
SameExecution(s) == cmd'[s] = cmd[s] /\ params'[s] = params[s]
Kept(s) == Same(s) /\ SameRequest(s) /\ SameExecution(s)

(* Where a text waits, in outq or in s2c, makes no difference.              *)
LEMMA SamePendingConversation ==
  ASSUME NEW s \in Sessions, Conversation(s), SameClient(s), spc'[s] = spc[s],
         c2s'[s] = c2s[s], Pending(s)' = Pending(s), SameRequest(s), SameExecution(s)
  PROVE  Conversation(s)'
<1>. USE DEF SameClient, SameLogin, SameRequest, SameExecution
<1>1. ThreadSide(s)'
  BY ThreadSideKept DEF Conversation
<1>2. Pending(s)' = Pending(s)
  OBVIOUS
<1>3. ClientSide(s)'
  <2>1. /\ Idle(s) => Idle(s)'
        /\ Answered(s) => Answered(s)'
        /\ AtClose(s) => AtClose(s)'
    BY <1>2 DEF Idle, Answered, AtClose, Meant
  <2>2. /\ AtListBegin(s) => AtListBegin(s)'
        /\ AtList(s) => AtList(s)'
    BY <1>2 DEF AtListBegin, AtList, Listing, ListComing
  <2>3. Reporting(s, ran[s]) => Reporting(s, ran[s])'
    BY <1>2 DEF Reporting
  <2>4. AtExec(s) => AtExec(s)'
    BY <1>2, <2>3 DEF AtExec, Fresh, Meant, Running
  <2>5. ClientSide(s) /\ cpc'[s] = cpc[s] /\ query'[s] = query[s] /\ ran'[s] = ran[s]
    BY DEF Conversation
  <2>. QED BY <2>1, <2>2, <2>4, <2>5 DEF ClientSide, BeforeMenu
<1>. QED BY <1>1, <1>3 DEF Conversation

LEMMA KeptConversation ==
  ASSUME NEW s \in Sessions, Conversation(s), Kept(s) PROVE Conversation(s)'
<1>1. Pending(s)' = Pending(s)
  BY DEF Kept, Same, SameThread, Pending
<1>. QED BY <1>1, SamePendingConversation DEF Kept, Same, SameThread

(* A step is a step of one session, in these variables, too.                *)
LEMMA OthersKept ==
  ASSUME TypeOK, NEW s \in Sessions, NEW t \in Sessions, t # s,
         ClientStep(s) \/ UserStep(s) \/ ServerStep(s) \/ Lost(s)
  PROVE  Kept(t)
<1>. SUFFICES SameRequest(t) /\ SameExecution(t)
  BY OthersSame DEF Kept
<1>. USE DEF TypeOK, ClientTypes, ThreadTypes, SameRequest, SameExecution, Set, Put,
             login, request, execution, thread, client
<1>1. CASE \/ TlsHandshake(s) \/ TlsReject(s) \/ SendHello(s) \/ RecvHello(s)
           \/ RecvUserReply(s) \/ RecvPassReply(s) \/ RecvListBegin(s)
           \/ RecvListLine(s) \/ RecvClose(s) \/ ClientReadThrows(s) \/ Lost(s)
  BY <1>1 DEF TlsHandshake, TlsReject, SendHello, RecvHello, RecvUserReply,
     RecvPassReply, RecvListBegin, RecvListLine, RecvClose, ClientReadThrows, Lost
<1>2. CASE RecvMark(s) \/ RecvLine(s) \/ RecvNotFound(s) \/ RecvUnexpected(s)
  BY <1>2 DEF RecvMark, RecvLine, RecvNotFound, RecvUnexpected
<1>3. ASSUME NEW p \in Params, RecvParam(s, p)
      PROVE  SameRequest(t) /\ SameExecution(t)
  BY <1>3 DEF RecvParam
<1>4. CASE Connect(s) \/ List(s) \/ Quit(s)
  BY <1>4 DEF Connect, List, Quit, Choose
<1>5. ASSUME NEW u \in Logins, NEW p \in Passwords, Login(s, u, p)
      PROVE  SameRequest(t) /\ SameExecution(t)
  BY <1>5 DEF Login
<1>6. ASSUME NEW q \in Queries, Exec(s, q)
      PROVE  SameRequest(t) /\ SameExecution(t)
  BY <1>6 DEF Exec, Choose
<1>7. CASE ServerHello(s) \/ ServerUser(s) \/ ServerPass(s) \/ ServerList(s)
           \/ ServerListLine(s) \/ ServerListEnd(s) \/ ServerClose(s)
  BY <1>7 DEF ServerHello, ServerUser, ServerPass, ServerList, ServerListLine,
     ServerListEnd, ServerClose
<1>8. CASE ServerExec(s) \/ ServerParam(s)
  BY <1>8 DEF ServerExec, ServerParam
<1>9. ASSUME NEW o \in Outputs, NEW code \in Codes, ServerRun(s, o, code)
      PROVE  SameRequest(t) /\ SameExecution(t)
  BY <1>9 DEF ServerRun
<1>10. CASE \/ ServerRunThrows(s) \/ ServerWrite(s) \/ ServerWriteThrows(s)
            \/ ServerReadThrows(s) \/ ServerTlsThrows(s) \/ ThreadExit(s)
  BY <1>10 DEF ServerRunThrows, ServerWrite, ServerWriteThrows, ServerReadThrows,
     ServerTlsThrows, ThreadExit
<1>. HIDE DEF TypeOK, ClientTypes, ThreadTypes, SameRequest, SameExecution
<1>. QED BY <1>1, <1>2, <1>3, <1>4, <1>5, <1>6, <1>7, <1>8, <1>9, <1>10
         DEF ClientStep, UserStep, ServerStep
-----------------------------------------------------------------------------
(***************************************************************************)
(* Up to the menu.                                                         *)
(***************************************************************************)
(* The thread keeps still while the client reads or writes.                 *)
Still(s) == SameThread(s) /\ SameExecution(s)
SameAsked(s) == query'[s] = query[s] /\ typed'[s] = typed[s] /\ ran'[s] = ran[s]

LEMMA ClientKeepsThread ==
  ASSUME NEW s \in Sessions, UNCHANGED thread PROVE Still(s)
BY DEF thread, Still, SameThread, SameExecution

(* The client has gone: what it left behind is the thread's business.       *)
LEMMA GoneConversation ==
  ASSUME NEW s \in Sessions, ThreadSide(s), cpc'[s] \in Gone, Still(s), SameAsked(s),
         SameLogin(s), c2s'[s] = c2s[s]
  PROVE  Conversation(s)'
<1>1. ThreadSide(s)'
  BY ThreadSideKept DEF Still, SameThread, SameExecution, SameAsked, SameLogin
<1>. QED BY <1>1, ClientSideAt DEF Conversation

(* The client sends a text that is no request for a command.                *)
LEMMA SendThreadSide ==
  ASSUME TypeOK, NEW s \in Sessions, NEW m, ThreadSide(s), Put(c2s, s, m), c2s[s] = <<>>,
         ~IsExec(m), spc'[s] \notin {"param", "run"}, SameAsked(s),
         cuser'[s] = cuser[s] \/ ran[s] = None
  PROVE  ThreadSide(s)' /\ c2s'[s] = <<m>>
<1>1. c2s'[s] = <<m>>
  BY SingleText DEF Put, TypeOK
<1>2. Len(c2s'[s]) = 1 /\ Received(s)' = m
  BY <1>1, SingleText DEF Received
<1>. QED BY <1>1, <1>2 DEF ThreadSide, SameAsked, RanAsAsked, Meant, IsExec

LEMMA ConnectConversation ==
  ASSUME TypeOK, NEW s \in Sessions, Conversation(s), Connect(s) \/ TlsHandshake(s)
  PROVE  Conversation(s)'
<1>1. /\ cpc[s] \in BeforeMenu /\ cpc'[s] \in BeforeMenu /\ spc'[s] \in {"tls", "hello"}
      /\ UNCHANGED <<c2s, ran, query, typed, cuser>>
  BY DEF Connect, TlsHandshake, Set, TypeOK, ClientTypes, ThreadTypes, BeforeMenu,
     request, login
<1>2. ThreadSide(s)'
  BY <1>1, ThreadSideKept DEF Conversation
<1>. QED BY <1>1, <1>2, ClientSideAt DEF Conversation, ClientSide

LEMMA SendHelloConversation ==
  ASSUME TypeOK, NEW s \in Sessions, LoginStage(s), Conversation(s), SendHello(s)
  PROVE  Conversation(s)'
<1>1. /\ cpc[s] = "hello" /\ cpc'[s] = "hello_reply" /\ Put(c2s, s, Text("RCFINIT"))
      /\ spc' = spc /\ SameAsked(s) /\ cuser' = cuser
  BY DEF SendHello, Set, TypeOK, ClientTypes, SameAsked, request, login, thread
<1>2. spc[s] = "hello" /\ c2s[s] = <<>>
  BY <1>1 DEF LoginStage, InHello, Quiet
<1>3. ~IsExec(Text("RCFINIT"))
  BY DEF IsExec, Text
<1>4. ThreadSide(s)'
  BY <1>1, <1>2, <1>3, SendThreadSide DEF Conversation
<1>. QED BY <1>1, <1>4, ClientSideAt DEF Conversation, ClientSide, BeforeMenu, SameAsked

LEMMA LoginConversation ==
  ASSUME TypeOK, NEW s \in Sessions, LoginStage(s), Conversation(s),
         NEW u \in Logins, NEW p \in Passwords, Login(s, u, p)
  PROVE  Conversation(s)'
<1>1. /\ cpc[s] = "login" /\ cpc'[s] = "user_reply" /\ Put(c2s, s, With("USER", u))
      /\ spc' = spc /\ SameAsked(s)
  BY DEF Login, Set, TypeOK, ClientTypes, SameAsked, request, thread
<1>2. spc[s] = "user" /\ c2s[s] = <<>> /\ ran[s] = None /\ query[s] = None
  BY <1>1 DEF LoginStage, InLogin, Quiet, Conversation, ClientSide, BeforeMenu
<1>3. ~IsExec(With("USER", u))
  BY DEF IsExec, With
<1>4. ThreadSide(s)'
  BY <1>1, <1>2, <1>3, SendThreadSide DEF Conversation
<1>. QED BY <1>1, <1>2, <1>4, ClientSideAt DEF Conversation, BeforeMenu, SameAsked

LEMMA RecvHelloConversation ==
  ASSUME TypeOK, NEW s \in Sessions, Conversation(s), RecvHello(s)
  PROVE  Conversation(s)'
<1>1. /\ cpc[s] = "hello_reply" /\ cpc'[s] \in {"login", "failed"} /\ c2s' = c2s
      /\ Still(s) /\ SameAsked(s) /\ SameLogin(s)
  BY ClientKeepsThread DEF RecvHello, ClientReads, Set, TypeOK, ClientTypes, SameAsked,
     SameLogin, request, login
<1>2. ThreadSide(s)'
  BY <1>1, ThreadSideKept
     DEF Conversation, Still, SameThread, SameExecution, SameAsked, SameLogin
<1>. QED BY <1>1, <1>2, ClientSideAt
         DEF Conversation, ClientSide, BeforeMenu, Gone, SameAsked

LEMMA RecvUserReplyConversation ==
  ASSUME TypeOK, NEW s \in Sessions, LoginStage(s), Conversation(s), RecvUserReply(s)
  PROVE  Conversation(s)'
<1>1. /\ cpc[s] = "user_reply" /\ s2c[s] # <<>>
      /\ Still(s) /\ SameAsked(s) /\ SameLogin(s)
  BY ClientKeepsThread DEF RecvUserReply, ClientReads, SameAsked, SameLogin, request, login
<1>2. ran[s] = None /\ query[s] = None
  BY <1>1 DEF Conversation, ClientSide, BeforeMenu
<1>3. \/ spc[s] = "pass" /\ c2s[s] = <<>> /\ Reply(s) = Text("PASS")
      \/ Reply(s) = Text("ERROR")
  BY <1>1, SingleText
     DEF LoginStage, InUserReply, Refused, Coming, NothingComing, Reply
<1>4. CASE Reply(s) = Text("ERROR")
  <2>1. cpc'[s] = "failed" /\ c2s' = c2s
    BY <1>4 DEF RecvUserReply, Text, Set, TypeOK, ClientTypes
  <2>. QED BY <1>1, <2>1, GoneConversation DEF Conversation, Gone
<1>5. CASE spc[s] = "pass" /\ c2s[s] = <<>> /\ Reply(s) = Text("PASS")
  <2>1. cpc'[s] = "pass_reply" /\ Put(c2s, s, With("PASS", cpass[s]))
    BY <1>5 DEF RecvUserReply, Text, Set, TypeOK, ClientTypes
  <2>2. ~IsExec(With("PASS", cpass[s]))
    BY DEF IsExec, With
  <2>3. ThreadSide(s)'
    BY <1>1, <1>5, <2>1, <2>2, SendThreadSide
       DEF Conversation, Still, SameThread, SameLogin
  <2>. QED BY <1>1, <1>2, <2>1, <2>3, ClientSideAt DEF Conversation, BeforeMenu, SameAsked
<1>. QED BY <1>3, <1>4, <1>5

LEMMA RecvPassReplyConversation ==
  ASSUME TypeOK, NEW s \in Sessions, LoginStage(s), Conversation(s), RecvPassReply(s)
  PROVE  Conversation(s)'
<1>1. /\ cpc[s] = "pass_reply" /\ s2c[s] # <<>> /\ s2c'[s] = Tail(s2c[s]) /\ c2s' = c2s
      /\ Still(s) /\ SameAsked(s) /\ SameLogin(s)
  BY ClientKeepsThread
     DEF RecvPassReply, ClientReads, SameAsked, SameLogin, request, login, TypeOK
<1>2. ran[s] = None /\ query[s] = None
  BY <1>1 DEF Conversation, ClientSide, BeforeMenu
<1>3. \/ /\ spc[s] = "postauth" /\ c2s[s] = <<>> /\ s2c[s] = <<Text("AUTHORIZED")>>
         /\ outq[s] = <<>>
      \/ Reply(s) = Text("ERROR")
  BY <1>1, SingleText
     DEF LoginStage, InPassReply, Refused, Coming, NothingComing, Reply
<1>4. CASE Reply(s) = Text("ERROR")
  <2>1. cpc'[s] = "failed"
    BY <1>4 DEF RecvPassReply, Text, Set, TypeOK, ClientTypes
  <2>. QED BY <1>1, <2>1, GoneConversation DEF Conversation, Gone
<1>5. CASE /\ spc[s] = "postauth" /\ c2s[s] = <<>> /\ s2c[s] = <<Text("AUTHORIZED")>>
           /\ outq[s] = <<>>
  <2>1. cpc'[s] = "menu" /\ s2c'[s] = <<>>
    BY <1>1, <1>5, SingleText DEF RecvPassReply, Reply, Text, Set, TypeOK, ClientTypes
  <2>2. Idle(s)' /\ Answered(s)'
    BY <1>1, <1>2, <1>5, <2>1
       DEF Idle, Answered, Pending, Still, SameThread, SameAsked
  <2>3. ThreadSide(s)'
    BY <1>1, ThreadSideKept
       DEF Conversation, Still, SameThread, SameExecution, SameAsked, SameLogin
  <2>. QED BY <2>1, <2>2, <2>3, ClientSideAt DEF Conversation
<1>. QED BY <1>3, <1>4, <1>5

-----------------------------------------------------------------------------
(***************************************************************************)
(* At the menu: a request, a listing, the end.                             *)
(***************************************************************************)
LEMMA ChooseEffect ==
  ASSUME TypeOK, NEW s \in Sessions, NEW text, NEW q, NEW next, Choose(s, text, q, next),
         Conversation(s)
  PROVE  /\ cpc[s] = "menu" /\ cpc'[s] = next /\ c2s'[s] = <<text>>
         /\ query'[s] = q /\ typed'[s] = <<>> /\ ran'[s] = None /\ Fresh(s)'
         /\ Pending(s)' = <<>> /\ spc'[s] = "postauth"
<1>1. c2s[s] = <<>> /\ Pending(s) = <<>> /\ spc[s] = "postauth"
  BY DEF Choose, Conversation, ClientSide, Idle
<1>2. c2s'[s] = <<text>>
  BY <1>1, SingleText DEF Choose, Put, TypeOK
<1>3. Pending(s)' = Pending(s) /\ spc' = spc
  BY DEF Choose, thread, Pending
<1>. QED BY <1>1, <1>2, <1>3
         DEF Choose, Set, Fresh, NoResult, TypeOK, ClientTypes

LEMMA ChooseConversation ==
  ASSUME TypeOK, NEW s \in Sessions, Conversation(s),
         \/ List(s) \/ Quit(s) \/ \E q \in Queries : Exec(s, q)
  PROVE  Conversation(s)'
<1>1. ASSUME NEW text, NEW q, NEW next, Choose(s, text, q, next), IsExec(text) => text.arg = q
      PROVE  ThreadSide(s)'
  <2>1. c2s'[s] = <<text>> /\ Len(c2s'[s]) = 1 /\ Received(s)' = text
    BY <1>1, ChooseEffect, SingleText DEF Received
  <2>. QED BY <1>1, <2>1, ChooseEffect DEF ThreadSide, IsExec
<1>2. CASE List(s)
  <2>1. Choose(s, Text("LIST"), None, "list_begin") /\ ~IsExec(Text("LIST"))
    BY <1>2 DEF List, IsExec, Text
  <2>2. ThreadSide(s)'
    BY <1>1, <2>1
  <2>3. cpc'[s] = "list_begin" /\ query'[s] = None /\ AtListBegin(s)'
    BY <2>1, ChooseEffect DEF AtListBegin
  <2>. QED BY <2>2, <2>3, ClientSideAt DEF Conversation
<1>3. CASE Quit(s)
  <2>1. Choose(s, Text("CLOSE"), None, "close_reply") /\ ~IsExec(Text("CLOSE"))
    BY <1>3 DEF Quit, IsExec, Text
  <2>2. ThreadSide(s)'
    BY <1>1, <2>1
  <2>3. cpc'[s] = "close_reply" /\ AtClose(s)'
    BY <2>1, ChooseEffect DEF AtClose
  <2>. QED BY <2>2, <2>3, ClientSideAt DEF Conversation
<1>4. ASSUME NEW q \in Queries, Exec(s, q) PROVE Conversation(s)'
  <2>1. Choose(s, With("EXEC", q), q, "exec") /\ With("EXEC", q).arg = q
    BY <1>4 DEF Exec, With
  <2>2. ThreadSide(s)'
    BY <1>1, <2>1
  <2>3. q # None
    BY SessionAssumption DEF SessionAssumption
  <2>4. cpc'[s] = "exec" /\ AtExec(s)'
    <3>1. /\ cpc'[s] = "exec" /\ spc'[s] = "postauth" /\ Fresh(s)' /\ query'[s] = q
          /\ c2s'[s] = <<With("EXEC", q)>> /\ Pending(s)' = <<>>
      BY <2>1, ChooseEffect
    <3>. QED BY <2>3, <3>1 DEF AtExec, With
  <2>. QED BY <2>2, <2>4, ClientSideAt DEF Conversation
<1>. QED BY <1>2, <1>3, <1>4

(* The client reads a text and changes nothing but its place.               *)
LEMMA ReadAndMove ==
  ASSUME TypeOK, NEW s \in Sessions, NEW where, ClientReads(s, where), Conversation(s),
         UNCHANGED <<c2s, ran, login, request, execution, thread>>
  PROVE  /\ cpc[s] = where /\ Pending(s) # <<>> /\ Reply(s) = Head(Pending(s))
         /\ Pending(s)' = Tail(Pending(s)) /\ ThreadSide(s)'
         /\ Still(s) /\ SameAsked(s) /\ SameLogin(s) /\ ps' = ps /\ res' = res
         /\ Pending(s) \in Seq(Messages)
<1>1. Still(s) /\ SameAsked(s) /\ SameLogin(s) /\ ps' = ps /\ res' = res
  BY ClientKeepsThread DEF SameAsked, SameLogin, login, request, execution
<1>2. ThreadSide(s)'
  BY <1>1, ThreadSideKept
     DEF Conversation, Still, SameThread, SameExecution, SameAsked, SameLogin
<1>3. outq'[s] = outq[s]
  BY <1>1 DEF Still, SameThread
<1>. QED BY <1>1, <1>2, <1>3, PendingRead, Queues

LEMMA RecvListBeginConversation ==
  ASSUME TypeOK, NEW s \in Sessions, Conversation(s), RecvListBegin(s)
  PROVE  Conversation(s)'
<1>1. /\ ClientReads(s, "list_begin")
      /\ UNCHANGED <<c2s, ran, login, request, execution, thread>>
  BY DEF RecvListBegin
<1>2. /\ cpc[s] = "list_begin" /\ Pending(s) # <<>> /\ Reply(s) = Head(Pending(s))
      /\ Pending(s)' = Tail(Pending(s)) /\ ThreadSide(s)'
      /\ Still(s) /\ SameAsked(s) /\ SameLogin(s)
  BY <1>1, ReadAndMove
<1>3. query[s] = None /\ Reply(s) = Text("BEGINLIST") /\ Listing(s, Tail(Pending(s)))
  BY <1>2 DEF Conversation, ClientSide, AtListBegin
<1>4. cpc'[s] = "list"
  BY <1>3 DEF RecvListBegin, Set, Text, TypeOK, ClientTypes
<1>5. AtList(s)'
  BY <1>1, <1>2, <1>3 DEF AtList, Listing, ListComing, Still, SameThread
<1>. QED BY <1>2, <1>3, <1>4, <1>5, ClientSideAt DEF Conversation, SameAsked

LEMMA RecvListLineConversation ==
  ASSUME TypeOK, NEW s \in Sessions, Conversation(s), RecvListLine(s)
  PROVE  Conversation(s)'
<1>1. /\ ClientReads(s, "list")
      /\ UNCHANGED <<c2s, ran, login, request, execution, thread>>
  BY DEF RecvListLine
<1>2. /\ cpc[s] = "list" /\ Pending(s) # <<>> /\ Reply(s) = Head(Pending(s))
      /\ Pending(s)' = Tail(Pending(s)) /\ ThreadSide(s)'
      /\ Still(s) /\ SameAsked(s) /\ SameLogin(s) /\ Pending(s) \in Seq(Messages)
  BY <1>1, ReadAndMove
<1>3. query[s] = None /\ query'[s] = None /\ Listing(s, Pending(s))
  BY <1>2 DEF Conversation, ClientSide, AtList, SameAsked
<1>4. /\ Len(Pending(s)) \in Nat \ {0} /\ Reply(s) = Pending(s)[1]
      /\ Len(Tail(Pending(s))) = Len(Pending(s)) - 1
      /\ \A i \in 1..(Len(Pending(s)) - 1) : Tail(Pending(s))[i] = Pending(s)[i + 1]
      /\ Tail(Pending(s)) \in Seq(Messages)
  BY <1>2, EmptySeq, HeadTailProperties
<1>5. spc' [s] = spc[s] /\ c2s'[s] = c2s[s]
  BY <1>1, <1>2 DEF Still, SameThread
<1>6. CASE Reply(s).head # "ENDLIST"
  <2>1. cpc'[s] = "list"
    BY <1>6 DEF RecvListLine, Set, TypeOK, ClientTypes
  <2>2. spc[s] = "postauth" => Len(Pending(s)) # 1
    BY <1>3, <1>4, <1>6 DEF Listing, ListComing, Text
  <2>3. Listing(s, Tail(Pending(s)))
    <3>. DEFINE lines == Pending(s)  rest == Tail(lines)
    <3>1. c2s[s] = <<>> /\ spc[s] \in {"list", "postauth"} /\ ListComing(s, lines)
      BY <1>3 DEF Listing
    <3>2. \A i \in 1..(Len(rest) - 1) : rest[i].head # "ENDLIST"
      BY <1>4, <3>1 DEF ListComing
    <3>3. spc[s] = "list" => \A i \in 1..Len(rest) : rest[i].head # "ENDLIST"
      BY <1>4, <3>1 DEF ListComing
    <3>4. CASE spc[s] = "postauth"
      <4>1. Len(rest) \in Nat \ {0} /\ lines[Len(lines)] = Text("ENDLIST")
        BY <1>4, <2>2, <3>1, <3>4 DEF ListComing
      <4>2. rest # <<>> /\ rest[Len(rest)] = lines[Len(rest) + 1]
        <5>1. rest # <<>>
          BY <4>1, EmptySeq
        <5>2. Len(rest) \in 1..(Len(lines) - 1)
          BY <1>4, <4>1
        <5>. QED BY <1>4, <5>1, <5>2
      <4>3. Len(rest) + 1 = Len(lines)
        BY <1>4
      <4>4. rest # <<>> /\ rest[Len(rest)] = Text("ENDLIST")
        BY <4>1, <4>2, <4>3
      <4>. QED BY <3>1, <3>2, <3>3, <3>4, <4>4 DEF Listing, ListComing
    <3>. QED BY <3>1, <3>2, <3>3, <3>4 DEF Listing, ListComing
  <2>4. AtList(s)'
    BY <1>2, <1>5, <2>3 DEF AtList, Listing, ListComing
  <2>. QED BY <1>2, <1>3, <2>1, <2>4, ClientSideAt DEF Conversation
<1>7. CASE Reply(s).head = "ENDLIST"
  <2>1. cpc'[s] = "menu"
    BY <1>7 DEF RecvListLine, Set, TypeOK, ClientTypes
  <2>2. Len(Pending(s)) = 1 /\ spc[s] = "postauth" /\ c2s[s] = <<>>
    BY <1>3, <1>4, <1>7 DEF Listing, ListComing
  <2>3. Tail(Pending(s)) = <<>>
    <3>1. Len(Tail(Pending(s))) = 0 /\ Tail(Pending(s)) \in Seq(Messages)
      BY <1>4, <2>2
    <3>. QED BY <3>1, EmptySeq
  <2>4. Idle(s)' /\ Answered(s)'
    BY <1>2, <1>3, <1>5, <2>2, <2>3 DEF Idle, Answered
  <2>. QED BY <1>2, <2>1, <2>4, ClientSideAt DEF Conversation
<1>. QED BY <1>6, <1>7

LEMMA RecvCloseConversation ==
  ASSUME TypeOK, NEW s \in Sessions, Conversation(s), RecvClose(s)
  PROVE  Conversation(s)'
<1>1. /\ ClientReads(s, "close_reply")
      /\ UNCHANGED <<c2s, ran, login, request, execution, thread>>
      /\ cpc'[s] \in Gone
  BY DEF RecvClose, Set, Gone, TypeOK, ClientTypes
<1>2. Still(s) /\ SameAsked(s) /\ SameLogin(s)
  BY <1>1, ReadAndMove
<1>. QED BY <1>1, <1>2, GoneConversation DEF Conversation

(* The client fails.                                                        *)
LEMMA ClientFailsConversation ==
  ASSUME TypeOK, NEW s \in Sessions, Conversation(s),
         \/ TlsReject(s)
         \/ RecvNotFound(s) /\ query[s] \in ShortQueries
         \/ RecvUnexpected(s)
         \/ ClientReadThrows(s)
         \/ Lost(s)
  PROVE  Conversation(s)'
<1>1. /\ cpc'[s] \in Gone /\ c2s' = c2s
      /\ UNCHANGED <<ran, login, request, thread>>
  BY DEF TlsReject, RecvNotFound, RecvUnexpected, ClientReadThrows, Lost, Set, Gone,
     TypeOK, ClientTypes
<1>2. Still(s) /\ SameAsked(s) /\ SameLogin(s)
  BY <1>1, ClientKeepsThread DEF SameAsked, SameLogin, login, request
<1>. QED BY <1>1, <1>2, GoneConversation DEF Conversation

-----------------------------------------------------------------------------
(***************************************************************************)
(* The report of a run, text by text.                                      *)
(***************************************************************************)
LEMMA FirstAndRest ==
  ASSUME NEW M, NEW m \in M, NEW b \in Seq(M)
  PROVE  /\ <<m>> \o b \in Seq(M) /\ <<m>> \o b # <<>>
         /\ Head(<<m>> \o b) = m /\ Tail(<<m>> \o b) = b
<1>1. <<m>> \in Seq(M) /\ <<m>> # <<>> /\ Head(<<m>>) = m /\ Tail(<<m>>) = <<>>
  BY SingleText
<1>. QED BY <1>1, ConcatHeadTail, ConcatEmptySeq, ConcatProperties

LEMMA LinesAreTexts ==
  ASSUME NEW lines \in Seq(OutputLines)
  PROVE  /\ Texts(lines) \in Seq(Messages)
         /\ lines = <<>> => Texts(lines) = <<>>
         /\ lines # <<>> => /\ Texts(lines) # <<>>
                            /\ Head(Texts(lines)) = Text(Head(lines))
                            /\ Tail(Texts(lines)) = Texts(Tail(lines))
                            /\ Tail(lines) \in Seq(OutputLines)
<1>1. \A i \in 1..Len(lines) : Text(lines[i]) \in Messages
  BY TextType, ElementOfSeq DEF Heads
<1>2. Texts(lines) = [i \in 1..Len(lines) |-> Text(lines[i])] /\ Len(lines) \in Nat
  BY LenProperties DEF Texts
<1>3. Texts(lines) \in Seq(Messages) /\ Len(Texts(lines)) = Len(lines)
  BY <1>1, <1>2
<1>4. CASE lines = <<>>
  BY <1>3, <1>4, EmptySeq
<1>5. CASE lines # <<>>
  <2>1. /\ Len(lines) \in Nat \ {0} /\ Tail(lines) \in Seq(OutputLines)
        /\ Len(Tail(lines)) = Len(lines) - 1
        /\ \A i \in 1..Len(Tail(lines)) : Tail(lines)[i] = lines[i + 1]
    BY <1>5, EmptySeq, HeadTailProperties
  <2>2. Texts(lines) # <<>>
    BY <1>3, <2>1, EmptySeq
  <2>3. Head(Texts(lines)) = Text(Head(lines))
    BY <1>2, <1>3, <2>1, <2>2
  <2>4. /\ Tail(Texts(lines)) \in Seq(Messages) /\ Len(Tail(Texts(lines))) = Len(lines) - 1
        /\ \A i \in 1..(Len(lines) - 1) : Tail(Texts(lines))[i] = Texts(lines)[i + 1]
    BY <1>3, <2>2, HeadTailProperties
  <2>5. /\ Texts(Tail(lines)) = [i \in 1..(Len(lines) - 1) |-> Text(Tail(lines)[i])]
        /\ \A i \in 1..(Len(lines) - 1) : Text(Tail(lines)[i]) \in Messages
    BY <1>1, <2>1, LenProperties DEF Texts
  <2>6. Texts(Tail(lines)) \in Seq(Messages) /\ Len(Texts(Tail(lines))) = Len(lines) - 1
    <3>. DEFINE n == Len(lines) - 1  short == Texts(Tail(lines))
    <3>1. n \in Nat /\ short = [i \in 1..n |-> Text(Tail(lines)[i])]
      BY <2>1, <2>5
    <3>2. \A i \in 1..n : Text(Tail(lines)[i]) \in Messages
      BY <2>5
    <3>. HIDE DEF n, short
    <3>3. short \in [1..n -> Messages]
      BY <3>1, <3>2
    <3>4. short \in Seq(Messages)
      BY <3>1, <3>3, SeqDef
    <3>5. Len(short) = n
      BY <3>1, <3>3, <3>4, LenProperties
    <3>. QED BY <3>4, <3>5 DEF n, short
  <2>7. ASSUME NEW i \in 1..(Len(lines) - 1)
        PROVE  Tail(Texts(lines))[i] = Texts(Tail(lines))[i]
    BY <1>2, <2>1, <2>4, <2>5
  <2>8. Tail(Texts(lines)) = Texts(Tail(lines))
    BY <2>4, <2>6, <2>7, SeqEqual
  <2>. QED BY <1>3, <1>5, <2>1, <2>2, <2>3, <2>8
<1>. QED BY <1>3, <1>4, <1>5

LEMMA MarksAreTexts ==
  /\ Text("EXECBEGIN") \in Messages /\ Text("OUTBEGIN") \in Messages
  /\ Text("OUTEND") \in Messages /\ Text("ERRBEGIN") \in Messages
  /\ Text("ERREND") \in Messages /\ Text("ERROR") \in Messages
  /\ Text("PARAM") \in Messages /\ Text("LIST") \in Messages
  /\ Text("BEGINLIST") \in Messages /\ Text("ENDLIST") \in Messages
  /\ Text("CLOSE") \in Messages /\ Text("NCERROR") \in Messages
BY TextType, KeywordIsHead DEF Keywords

LEMMA FromErrParts ==
  ASSUME NEW err \in Seq(OutputLines)
  PROVE  /\ FromErr(err) \in Seq(Messages) /\ FromErr(err) # <<>>
         /\ err = <<>> => FromErr(err) = <<Text("ERREND")>>
         /\ err # <<>> => /\ Head(FromErr(err)) = Text(Head(err))
                          /\ Tail(FromErr(err)) = FromErr(Tail(err))
<1>1. <<Text("ERREND")>> \in Seq(Messages) /\ <<Text("ERREND")>> # <<>>
  BY MarksAreTexts
<1>. DEFINE end == <<Text("ERREND")>>
<1>2. FromErr(err) = Texts(err) \o end
  BY DEF FromErr
<1>3. end \in Seq(Messages) /\ end # <<>>
  BY <1>1
<1>4. CASE err = <<>>
  <2>1. Texts(err) = <<>>
    BY <1>4, LinesAreTexts
  <2>2. FromErr(err) = end
    BY <1>2, <1>3, <2>1, ConcatEmptySeq
  <2>. QED BY <1>3, <1>4, <2>2
<1>5. CASE err # <<>>
  <2>1. /\ Texts(err) \in Seq(Messages) /\ Texts(err) # <<>>
        /\ Head(Texts(err)) = Text(Head(err)) /\ Tail(Texts(err)) = Texts(Tail(err))
    BY <1>5, LinesAreTexts
  <2>2. FromErr(Tail(err)) = Texts(Tail(err)) \o end
    BY DEF FromErr
  <2>. HIDE DEF end
  <2>3. /\ Texts(err) \o end # <<>> /\ Head(Texts(err) \o end) = Head(Texts(err))
        /\ Tail(Texts(err) \o end) = Tail(Texts(err)) \o end
    BY <1>3, <2>1, ConcatHeadTail
  <2>4. Texts(err) \o end \in Seq(Messages)
    BY <1>3, <2>1, ConcatProperties
  <2>. QED BY <1>2, <1>5, <2>1, <2>2, <2>3, <2>4
<1>. QED BY <1>4, <1>5

LEMMA FromErrBeginParts ==
  ASSUME NEW err \in Seq(OutputLines)
  PROVE  /\ FromErrBegin(err) \in Seq(Messages) /\ FromErrBegin(err) # <<>>
         /\ Head(FromErrBegin(err)) = Text("ERRBEGIN")
         /\ Tail(FromErrBegin(err)) = FromErr(err)
BY FromErrParts, MarksAreTexts, FirstAndRest DEF FromErrBegin

LEMMA FromOutParts ==
  ASSUME NEW out \in Seq(OutputLines), NEW err \in Seq(OutputLines)
  PROVE  /\ FromOut(out, err) \in Seq(Messages) /\ FromOut(out, err) # <<>>
         /\ out = <<>> => /\ Head(FromOut(out, err)) = Text("OUTEND")
                          /\ Tail(FromOut(out, err)) = FromErrBegin(err)
         /\ out # <<>> => /\ Head(FromOut(out, err)) = Text(Head(out))
                          /\ Tail(FromOut(out, err)) = FromOut(Tail(out), err)
<1>. DEFINE after == <<Text("OUTEND")>> \o FromErrBegin(err)
<1>1. /\ after \in Seq(Messages) /\ after # <<>>
      /\ Head(after) = Text("OUTEND") /\ Tail(after) = FromErrBegin(err)
  BY FromErrBeginParts, MarksAreTexts, FirstAndRest
<1>. HIDE DEF after
<1>2. FromOut(out, err) = Texts(out) \o after
  BY DEF FromOut, after
<1>3. Texts(out) \in Seq(Messages) /\ FromOut(out, err) \in Seq(Messages)
  BY <1>1, <1>2, LinesAreTexts, ConcatProperties
<1>4. CASE out = <<>>
  BY <1>1, <1>2, <1>3, <1>4, LinesAreTexts, ConcatEmptySeq
<1>5. CASE out # <<>>
  <2>1. FromOut(Tail(out), err) = Texts(Tail(out)) \o after
    BY DEF FromOut, after
  <2>2. /\ Texts(out) \in Seq(Messages) /\ Texts(out) # <<>>
        /\ Head(Texts(out)) = Text(Head(out)) /\ Tail(Texts(out)) = Texts(Tail(out))
    BY <1>5, LinesAreTexts
  <2>3. /\ FromOut(out, err) # <<>> /\ Head(FromOut(out, err)) = Text(Head(out))
        /\ Tail(FromOut(out, err)) = FromOut(Tail(out), err)
    <3>1. LET a == Texts(out) IN
          a \o after # <<>> /\ Head(a \o after) = Head(a) /\ Tail(a \o after) = Tail(a) \o after
      BY <1>1, <2>2, ConcatHeadTail
    <3>. QED BY <1>2, <2>1, <2>2, <3>1
  <2>. QED BY <1>3, <1>5, <2>3
<1>. QED BY <1>3, <1>4, <1>5

LEMMA FromBeginParts ==
  ASSUME NEW r \in Runs
  PROVE  /\ r.out \in Seq(OutputLines) /\ r.err \in Seq(OutputLines)
         /\ Head(FromOutBegin(r.out, r.err)) = Text("OUTBEGIN")
         /\ Tail(FromOutBegin(r.out, r.err)) = FromOut(r.out, r.err)
         /\ FromEnd(r) \in Seq(Messages)
         /\ Head(FromEnd(r)) = With("EXECEND", r.code)
         /\ Tail(FromEnd(r)) = FromOutBegin(r.out, r.err)
         /\ Head(FromBegin(r)) = Text("EXECBEGIN") /\ Tail(FromBegin(r)) = FromEnd(r)
<1>1. r.out \in Seq(OutputLines) /\ r.err \in Seq(OutputLines) /\ r.code \in Codes
  BY DEF Runs
<1>2. /\ FromOutBegin(r.out, r.err) \in Seq(Messages)
      /\ Head(FromOutBegin(r.out, r.err)) = Text("OUTBEGIN")
      /\ Tail(FromOutBegin(r.out, r.err)) = FromOut(r.out, r.err)
  BY SMTT(60), <1>1, FromOutParts, MarksAreTexts, FirstAndRest DEF FromOutBegin
<1>3. With("EXECEND", r.code) \in Messages
  BY <1>1, WithType, KeywordIsHead DEF Keywords, Arguments
<1>4. /\ FromEnd(r) \in Seq(Messages) /\ Head(FromEnd(r)) = With("EXECEND", r.code)
      /\ Tail(FromEnd(r)) = FromOutBegin(r.out, r.err)
  BY <1>2, <1>3, FirstAndRest DEF FromEnd
<1>. QED BY <1>1, <1>2, <1>4, MarksAreTexts, FirstAndRest DEF FromBegin

(* Reading one more line of those that are left.                            *)
LEMMA RestTypes ==
  ASSUME NEW lines \in Seq(OutputLines), NEW read \in Seq(Heads),
         lines = read \o Rest(lines, read)
  PROVE  /\ Rest(lines, read) \in Seq(OutputLines)
         /\ Len(lines) = Len(read) + Len(Rest(lines, read))
         /\ \A i \in DOMAIN Rest(lines, read) :
              Len(read) + i \in DOMAIN lines /\ Rest(lines, read)[i] = lines[Len(read) + i]
<1>1. Len(read) \in Nat /\ Len(lines) \in Nat /\ DOMAIN lines = 1..Len(lines)
  BY LenProperties
<1>2. \A i \in (Len(read) + 1)..Len(lines) : lines[i] \in OutputLines
  BY <1>1, ElementOfSeq
<1>3. /\ Rest(lines, read) \in Seq(OutputLines)
      /\ Len(Rest(lines, read)) = IF Len(read) + 1 <= Len(lines) THEN Len(lines) - Len(read) ELSE 0
      /\ \A i \in 1..(Len(lines) - Len(read)) : Rest(lines, read)[i] = lines[Len(read) + i]
  BY <1>1, <1>2, SubSeqProperties DEF Rest
<1>4. Len(lines) = Len(read) + Len(Rest(lines, read))
  <2>1. OutputLines \subseteq Heads
    BY DEF Heads
  <2>2. Rest(lines, read) \in Seq(Heads)
    BY <1>3, <2>1, SeqMonotonic
  <2>. QED BY <2>2, ConcatProperties
<1>. QED BY <1>1, <1>3, <1>4

LEMMA RestOfAll ==
  ASSUME NEW lines \in Seq(OutputLines)
  PROVE  Rest(lines, <<>>) = lines /\ lines = <<>> \o Rest(lines, <<>>)
<1>1. Len(<<>>) = 0
  BY EmptySeq
<1>. QED BY <1>1, SubSeqFull, ConcatEmptySeq DEF Rest

LEMMA RestAfterOne ==
  ASSUME NEW lines \in Seq(OutputLines), NEW read \in Seq(Heads),
         lines = read \o Rest(lines, read), Rest(lines, read) # <<>>
  PROVE  LET next == Append(read, Head(Rest(lines, read))) IN
         /\ next \in Seq(Heads)
         /\ Rest(lines, next) = Tail(Rest(lines, read))
         /\ lines = next \o Rest(lines, next)
<1>. DEFINE rest == Rest(lines, read)  next == Append(read, Head(rest))
<1>1. rest \in Seq(OutputLines) /\ Len(lines) = Len(read) + Len(rest) /\ rest # <<>>
  BY RestTypes
<1>2. rest \in Seq(Heads) /\ Head(rest) \in Heads
  <2>1. OutputLines \subseteq Heads
    BY DEF Heads
  <2>. QED BY <1>1, <2>1, SeqMonotonic, HeadTailProperties
<1>3. next \in Seq(Heads) /\ Len(next) = Len(read) + 1
  BY <1>2, AppendProperties
<1>4. Len(read) \in Nat /\ Len(lines) \in Nat /\ Len(rest) \in Nat \ {0}
  BY <1>1, LenProperties, EmptySeq
<1>5. Rest(lines, next) = Tail(rest)
  <2>1. Len(read) + 1 \in 1..Len(lines) /\ Len(lines) \in (Len(read) + 1)..Len(lines)
    BY <1>1, <1>4
  <2>2. Tail(SubSeq(lines, Len(read) + 1, Len(lines)))
          = SubSeq(lines, Len(read) + 1 + 1, Len(lines))
    BY <2>1, HeadTailOfSubSeq
  <2>. QED BY <1>3, <2>2 DEF Rest
<1>6. next \o Tail(rest) = read \o rest
  BY <1>1, <1>2, WriteKeepsOrder
<1>. QED BY <1>3, <1>5, <1>6

LEMMA RestIsEmpty ==
  ASSUME NEW lines \in Seq(OutputLines), NEW read \in Seq(Heads),
         lines = read \o Rest(lines, read), Rest(lines, read) = <<>>
  PROVE  read = lines
BY ConcatEmptySeq

-----------------------------------------------------------------------------
(***************************************************************************)
(* The loop of Client::execute.                                            *)
(***************************************************************************)
LEMMA SectionMarks ==
  /\ DOMAIN Section["toplevel"] = {"EXECBEGIN", "OUTBEGIN", "ERRBEGIN"}
  /\ DOMAIN Section["inexec"] = {"EXECEND"}
  /\ DOMAIN Section["out"] = {"OUTEND"} /\ DOMAIN Section["err"] = {"ERREND"}
  /\ Section["toplevel"]["EXECBEGIN"] = "inexec" /\ Section["toplevel"]["OUTBEGIN"] = "out"
  /\ Section["toplevel"]["ERRBEGIN"] = "err" /\ Section["inexec"]["EXECEND"] = "toplevel"
  /\ Section["out"]["OUTEND"] = "toplevel" /\ Section["err"]["ERREND"] = "toplevel"
BY DEF Section

(* What reading a text in the loop leaves alone.                            *)
LEMMA LoopRead ==
  ASSUME TypeOK, NEW s \in Sessions, Conversation(s), ClientReads(s, "exec"),
         UNCHANGED <<c2s, ran, login, request, thread>>
  PROVE  /\ cpc[s] = "exec" /\ AtExec(s) /\ Pending(s) # <<>> /\ Reply(s) = Head(Pending(s))
         /\ Pending(s)' = Tail(Pending(s)) /\ ThreadSide(s)'
         /\ c2s'[s] = c2s[s] /\ spc'[s] = spc[s] /\ SameAsked(s) /\ SameLogin(s)
         /\ query[s] # None
         /\ ps[s] \in DOMAIN Section /\ res[s] \in Results /\ ran[s] \in Runs \cup {None}
<1>1. Still(s) /\ SameAsked(s) /\ SameLogin(s)
  BY ClientKeepsThread DEF SameAsked, SameLogin, login, request
<1>2. ThreadSide(s)'
  BY <1>1, ThreadSideKept
     DEF Conversation, Still, SameThread, SameExecution, SameAsked, SameLogin
<1>3. outq'[s] = outq[s] /\ spc'[s] = spc[s]
  BY <1>1 DEF Still, SameThread
<1>4. cpc[s] = "exec" /\ Pending(s) # <<>> /\ Reply(s) = Head(Pending(s))
      /\ Pending(s)' = Tail(Pending(s))
  BY <1>3, PendingRead
<1>5. AtExec(s) /\ query[s] # None
  BY <1>4 DEF Conversation, ClientSide, AtExec
<1>6. ps[s] \in DOMAIN Section /\ res[s] \in Results /\ ran[s] \in Runs \cup {None}
  BY DEF TypeOK, ClientTypes
<1>. QED BY <1>1, <1>2, <1>3, <1>4, <1>5, <1>6

(* The first text of what is pending, by how much of a report was read.     *)
LEMMA NextOfReport ==
  ASSUME NEW s \in Sessions, NEW r \in Runs, Reporting(s, r), PlainRun(r),
         res[s] \in Results
  PROVE  \/ /\ ps[s] = "toplevel" /\ res[s] = NoResult
            /\ Head(Pending(s)) = Text("EXECBEGIN") /\ Tail(Pending(s)) = FromEnd(r)
         \/ /\ ps[s] = "inexec" /\ res[s] = NoResult
            /\ Head(Pending(s)) = With("EXECEND", r.code)
            /\ Tail(Pending(s)) = FromOutBegin(r.out, r.err)
         \/ /\ ps[s] = "toplevel" /\ res[s] = [out |-> <<>>, err |-> <<>>, code |-> r.code]
            /\ Head(Pending(s)) = Text("OUTBEGIN") /\ Tail(Pending(s)) = FromOut(r.out, r.err)
         \/ /\ ps[s] = "out" /\ res[s] = [out |-> r.out, err |-> <<>>, code |-> r.code]
            /\ Head(Pending(s)) = Text("OUTEND") /\ Tail(Pending(s)) = FromErrBegin(r.err)
         \/ /\ ps[s] = "out" /\ res[s].err = <<>> /\ res[s].code = r.code
            /\ \E line \in Heads \ {"OUTEND", "ERREND"} :
                 LET next == Append(res[s].out, line) IN
                 /\ Head(Pending(s)) = Text(line)
                 /\ r.out = next \o Rest(r.out, next)
                 /\ Tail(Pending(s)) = FromOut(Rest(r.out, next), r.err)
         \/ /\ ps[s] = "toplevel" /\ res[s] = [out |-> r.out, err |-> <<>>, code |-> r.code]
            /\ Head(Pending(s)) = Text("ERRBEGIN") /\ Tail(Pending(s)) = FromErr(r.err)
         \/ /\ ps[s] = "err" /\ res[s] = [out |-> r.out, err |-> r.err, code |-> r.code]
            /\ Pending(s) = <<Text("ERREND")>>
         \/ /\ ps[s] = "err" /\ res[s].out = r.out /\ res[s].code = r.code
            /\ \E line \in Heads \ {"ERREND"} :
                 LET next == Append(res[s].err, line) IN
                 /\ Head(Pending(s)) = Text(line)
                 /\ r.err = next \o Rest(r.err, next)
                 /\ Tail(Pending(s)) = FromErr(Rest(r.err, next))
<1>1. r.out \in Seq(OutputLines) /\ r.err \in Seq(OutputLines) /\ OutputLines \subseteq Heads
  BY DEF Runs, Heads
<1>2. /\ res[s].out \in Seq(Heads) /\ res[s].err \in Seq(Heads)
      /\ res[s] = [out |-> res[s].out, err |-> res[s].err, code |-> res[s].code]
  BY DEF Results
<1>3. CASE ps[s] = "toplevel" /\ res[s] = NoResult /\ Pending(s) = FromBegin(r)
  BY <1>3, FromBeginParts
<1>4. CASE ps[s] = "inexec" /\ res[s] = NoResult /\ Pending(s) = FromEnd(r)
  BY <1>4, FromBeginParts
<1>5. CASE /\ ps[s] = "toplevel" /\ res[s] = [out |-> <<>>, err |-> <<>>, code |-> r.code]
           /\ Pending(s) = FromOutBegin(r.out, r.err)
  BY <1>5, FromBeginParts
<1>6. CASE /\ ps[s] = "toplevel" /\ res[s] = [out |-> r.out, err |-> <<>>, code |-> r.code]
           /\ Pending(s) = FromErrBegin(r.err)
  BY <1>1, <1>6, FromErrBeginParts
<1>7. CASE /\ ps[s] = "out"
           /\ res[s].err = <<>> /\ res[s].code = r.code
           /\ r.out = res[s].out \o Rest(r.out, res[s].out)
           /\ Pending(s) = FromOut(Rest(r.out, res[s].out), r.err)
  <2>. DEFINE left == Rest(r.out, res[s].out)
  <2>1. left \in Seq(OutputLines)
    BY <1>1, <1>2, <1>7, RestTypes
  <2>2. CASE left = <<>>
    <3>1. Head(Pending(s)) = Text("OUTEND") /\ Tail(Pending(s)) = FromErrBegin(r.err)
      <4>1. Pending(s) = FromOut(left, r.err)
        BY <1>7
      <4>. HIDE DEF left
      <4>. QED BY ZenonT(60), <1>1, <2>1, <2>2, <4>1, FromOutParts
    <3>2. res[s].out = r.out
      BY <1>1, <1>2, <1>7, <2>2, RestIsEmpty
    <3>3. res[s] = [out |-> r.out, err |-> <<>>, code |-> r.code]
      BY <1>2, <1>7, <3>2
    <3>. QED BY <1>7, <3>1, <3>3
  <2>3. CASE left # <<>>
    <3>. DEFINE line == Head(left)  next == Append(res[s].out, line)
    <3>1. /\ Head(Pending(s)) = Text(line)
          /\ Tail(Pending(s)) = FromOut(Tail(left), r.err)
      <4>1. Pending(s) = FromOut(left, r.err)
        BY <1>7
      <4>. HIDE DEF left
      <4>. QED BY <1>1, <2>1, <2>3, <4>1, FromOutParts
    <3>2. Rest(r.out, next) = Tail(left) /\ r.out = next \o Rest(r.out, next)
      BY <1>1, <1>2, <1>7, <2>3, RestAfterOne
    <3>3. line \in Heads \ {"OUTEND", "ERREND"}
      <4>1. 1 \in DOMAIN left /\ line = left[1] /\ line \in OutputLines
        BY <2>1, <2>3, EmptySeq, LenProperties, HeadTailProperties
      <4>2. Len(res[s].out) + 1 \in DOMAIN r.out /\ line = r.out[Len(res[s].out) + 1]
        BY <1>1, <1>2, <1>7, <4>1, RestTypes
      <4>. QED BY <1>1, <4>1, <4>2 DEF PlainRun
    <3>. HIDE DEF left, line, next
    <3>4. Tail(Pending(s)) = FromOut(Rest(r.out, next), r.err)
      BY <3>1, <3>2
    <3>. QED BY <1>7, <3>1, <3>2, <3>3, <3>4 DEF next
  <2>. QED BY <2>2, <2>3
<1>8. CASE /\ ps[s] = "err"
           /\ res[s].out = r.out /\ res[s].code = r.code
           /\ r.err = res[s].err \o Rest(r.err, res[s].err)
           /\ Pending(s) = FromErr(Rest(r.err, res[s].err))
  <2>. DEFINE left == Rest(r.err, res[s].err)
  <2>1. left \in Seq(OutputLines)
    BY <1>1, <1>2, <1>8, RestTypes
  <2>2. CASE left = <<>>
    <3>1. Pending(s) = <<Text("ERREND")>>
      BY <1>8, <2>1, <2>2, FromErrParts
    <3>2. res[s].err = r.err
      BY <1>1, <1>2, <1>8, <2>2, RestIsEmpty
    <3>3. res[s] = [out |-> r.out, err |-> r.err, code |-> r.code]
      BY <1>2, <1>8, <3>2
    <3>. QED BY <1>8, <3>1, <3>3
  <2>3. CASE left # <<>>
    <3>. DEFINE line == Head(left)  next == Append(res[s].err, line)
    <3>1. Head(Pending(s)) = Text(line) /\ Tail(Pending(s)) = FromErr(Tail(left))
      BY <1>8, <2>1, <2>3, FromErrParts
    <3>2. Rest(r.err, next) = Tail(left) /\ r.err = next \o Rest(r.err, next)
      BY <1>1, <1>2, <1>8, <2>3, RestAfterOne
    <3>3. line \in Heads \ {"ERREND"}
      <4>1. 1 \in DOMAIN left /\ line = left[1] /\ line \in OutputLines
        BY <2>1, <2>3, EmptySeq, LenProperties, HeadTailProperties
      <4>2. Len(res[s].err) + 1 \in DOMAIN r.err /\ line = r.err[Len(res[s].err) + 1]
        BY <1>1, <1>2, <1>8, <4>1, RestTypes
      <4>. QED BY <1>1, <4>1, <4>2 DEF PlainRun
    <3>. HIDE DEF left, line, next
    <3>4. Tail(Pending(s)) = FromErr(Rest(r.err, next))
      BY <3>1, <3>2
    <3>. QED BY <1>8, <3>1, <3>2, <3>3, <3>4 DEF next
  <2>. QED BY <2>2, <2>3
<1>. QED BY <1>3, <1>4, <1>5, <1>6, <1>7, <1>8 DEF Reporting

(* The first text of what is pending while a command runs, or failed to.    *)
LEMMA NextOfRun ==
  ASSUME NEW s \in Sessions, NEW after \in {<<>>, <<Text("ERROR")>>}, Running(s, after),
         Pending(s) # <<>>
  PROVE  \/ /\ ps[s] = "toplevel" /\ Head(Pending(s)) = Text("EXECBEGIN")
            /\ Tail(Pending(s)) = after
         \/ ps[s] = "inexec" /\ Head(Pending(s)) = Text("ERROR")
<1>1. after \in Seq(Messages)
  <2>1. <<Text("ERROR")>> \in Seq(Messages)
    BY MarksAreTexts
  <2>2. <<>> \in Seq(Messages)
    OBVIOUS
  <2>. QED BY <2>1, <2>2
<1>2. CASE ps[s] = "toplevel" /\ Pending(s) = <<Text("EXECBEGIN")>> \o after
  BY <1>1, <1>2, MarksAreTexts, FirstAndRest
<1>3. CASE ps[s] = "inexec" /\ Pending(s) = after
  BY <1>3, SingleText
<1>. QED BY <1>2, <1>3 DEF Running

(* Something of a report is pending until all of it was read.               *)
LEMMA ReportIsPending ==
  ASSUME NEW s \in Sessions, NEW r \in Runs, res[s] \in Results, Reporting(s, r)
  PROVE  Pending(s) # <<>>
<1>1. /\ r.out \in Seq(OutputLines) /\ r.err \in Seq(OutputLines)
      /\ FromOutBegin(r.out, r.err) # <<>> /\ FromEnd(r) # <<>> /\ FromBegin(r) # <<>>
      /\ FromErrBegin(r.err) # <<>>
  <2>1. /\ r.out \in Seq(OutputLines) /\ r.err \in Seq(OutputLines) /\ r.code \in Codes
    BY DEF Runs
  <2>2. With("EXECEND", r.code) \in Messages
    BY <2>1, WithType, KeywordIsHead DEF Keywords, Arguments
  <2>3. FromOut(r.out, r.err) \in Seq(Messages) /\ FromErrBegin(r.err) # <<>>
    BY <2>1, FromOutParts, FromErrBeginParts
  <2>4. FromOutBegin(r.out, r.err) # <<>> /\ FromOutBegin(r.out, r.err) \in Seq(Messages)
    BY <2>3, MarksAreTexts, FirstAndRest DEF FromOutBegin
  <2>5. FromEnd(r) # <<>> /\ FromEnd(r) \in Seq(Messages)
    BY <2>2, <2>4, FirstAndRest DEF FromEnd
  <2>6. FromBegin(r) # <<>>
    BY <2>5, MarksAreTexts, FirstAndRest DEF FromBegin
  <2>. QED BY <2>1, <2>3, <2>4, <2>5, <2>6
<1>2. res[s].out \in Seq(Heads) /\ res[s].err \in Seq(Heads)
  BY DEF Results
<1>3. ASSUME r.out = res[s].out \o Rest(r.out, res[s].out)
      PROVE  FromOut(Rest(r.out, res[s].out), r.err) # <<>>
  <2>1. Rest(r.out, res[s].out) \in Seq(OutputLines)
    BY <1>1, <1>2, <1>3, RestTypes
  <2>. QED BY <1>1, <2>1, FromOutParts
<1>4. ASSUME r.err = res[s].err \o Rest(r.err, res[s].err)
      PROVE  FromErr(Rest(r.err, res[s].err)) # <<>>
  <2>1. Rest(r.err, res[s].err) \in Seq(OutputLines)
    BY <1>1, <1>2, <1>4, RestTypes
  <2>. QED BY <2>1, FromErrParts
<1>. QED BY <1>1, <1>3, <1>4 DEF Reporting

(* The client goes on reading a report, or has read it all.                 *)
LEMMA ReportingGoesOn ==
  ASSUME NEW s \in Sessions, NEW r, ran'[s] = r, r # None, PlainRun(r), query'[s] # None,
         spc'[s] = "postauth", c2s'[s] = <<>>, cpc'[s] = "exec",
         \/ ps'[s] = "inexec" /\ res'[s] = NoResult /\ Pending(s)' = FromEnd(r)
         \/ /\ ps'[s] = "toplevel" /\ res'[s] = [out |-> <<>>, err |-> <<>>, code |-> r.code]
            /\ Pending(s)' = FromOutBegin(r.out, r.err)
         \/ /\ ps'[s] = "out"
            /\ res'[s].err = <<>> /\ res'[s].code = r.code
            /\ r.out = res'[s].out \o Rest(r.out, res'[s].out)
            /\ Pending(s)' = FromOut(Rest(r.out, res'[s].out), r.err)
         \/ /\ ps'[s] = "toplevel" /\ res'[s] = [out |-> r.out, err |-> <<>>, code |-> r.code]
            /\ Pending(s)' = FromErrBegin(r.err)
         \/ /\ ps'[s] = "err"
            /\ res'[s].out = r.out /\ res'[s].code = r.code
            /\ r.err = res'[s].err \o Rest(r.err, res'[s].err)
            /\ Pending(s)' = FromErr(Rest(r.err, res'[s].err)),
         ThreadSide(s)'
  PROVE  Conversation(s)'
<1>1. Reporting(s, ran[s])'
  BY DEF Reporting
<1>2. AtExec(s)'
  BY <1>1 DEF AtExec
<1>. QED BY <1>2, ClientSideAt DEF Conversation

LEMMA RecvMarkConversation ==
  ASSUME TypeOK, NEW s \in Sessions, Conversation(s), RecvMark(s)
  PROVE  Conversation(s)'
<1>. DEFINE h == Reply(s).head
<1>1. /\ ClientReads(s, "exec") /\ UNCHANGED <<c2s, ran, login, request, thread>>
      /\ h \in DOMAIN Section[ps[s]]
      /\ ps'[s] = Section[ps[s]][h]
      /\ res'[s] = IF h = "EXECEND" THEN [res[s] EXCEPT !.code = Reply(s).arg] ELSE res[s]
      /\ cpc'[s] = IF h = "ERREND" THEN "menu" ELSE "exec"
  BY DEF RecvMark, Set, TypeOK, ClientTypes, LoopEnds
<1>2. /\ AtExec(s) /\ Pending(s) # <<>> /\ Reply(s) = Head(Pending(s))
      /\ Pending(s)' = Tail(Pending(s)) /\ ThreadSide(s)'
      /\ c2s'[s] = c2s[s] /\ spc'[s] = spc[s] /\ SameAsked(s)
      /\ query[s] # None /\ cuser'[s] = cuser[s]
      /\ ps[s] \in DOMAIN Section /\ res[s] \in Results /\ ran[s] \in Runs \cup {None}
  BY <1>1, LoopRead DEF SameLogin
<1>3. ASSUME spc[s] = "postauth", Fresh(s), Meant(s).answer # "RUN",
             Pending(s) = <<Text(Meant(s).answer)>>
      PROVE  FALSE
  <2>1. Meant(s).answer \in {"ERROR", "NCERROR"}
    <3>1. query[s] \in Queries
      BY <1>2 DEF TypeOK, ClientTypes
    <3>. QED BY <1>3, <3>1, ResolveType DEF Meant
  <2>2. h = Meant(s).answer
    BY <1>2, <1>3, SingleText DEF Text
  <2>. QED BY <1>1, <1>3, <2>1, <2>2, SectionMarks DEF Fresh
<1>4. ASSUME Fresh(s), Pending(s) = <<Text("PARAM")>> PROVE FALSE
  <2>1. h = "PARAM"
    BY <1>2, <1>4, SingleText DEF Text
  <2>. QED BY <1>1, <1>4, <2>1, SectionMarks DEF Fresh
<1>5. ASSUME NEW after \in {<<>>, <<Text("ERROR")>>}, Running(s, after)
      PROVE  /\ cpc'[s] = "exec" /\ Running(s, after)'
  <2>1. CASE ps[s] = "inexec" /\ Head(Pending(s)) = Text("ERROR")
    <3>1. h = "ERROR"
      BY <1>2, <2>1 DEF Text
    <3>. QED BY <1>1, <2>1, <3>1, SectionMarks
  <2>2. CASE /\ ps[s] = "toplevel" /\ Head(Pending(s)) = Text("EXECBEGIN")
             /\ Tail(Pending(s)) = after
    <3>1. h = "EXECBEGIN"
      BY <1>2, <2>2 DEF Text
    <3>2. ps'[s] = "inexec" /\ res'[s] = res[s] /\ cpc'[s] = "exec"
      BY <1>1, <2>2, <3>1, SectionMarks
    <3>. QED BY <1>2, <1>5, <2>2, <3>2 DEF Running, SameAsked
  <2>. QED BY <1>2, <1>5, <2>1, <2>2, NextOfRun
<1>6. CASE spc[s] = "run" /\ Running(s, <<>>)
  <2>1. cpc'[s] = "exec" /\ Running(s, <<>>)'
    BY <1>5, <1>6
  <2>2. AtExec(s)'
    BY <1>2, <1>6, <2>1 DEF AtExec, SameAsked
  <2>. QED BY <1>2, <2>1, <2>2, ClientSideAt DEF Conversation
<1>7. CASE /\ spc[s] \in {"failing", "ended"} /\ Running(s, <<Text("ERROR")>>)
           /\ Meant(s).answer = "RUN"
  <2>1. cpc'[s] = "exec" /\ Running(s, <<Text("ERROR")>>)'
    BY <1>5, <1>7
  <2>2. AtExec(s)'
    BY <1>2, <1>7, <2>1 DEF AtExec, SameAsked, Meant, Text
  <2>. QED BY <1>2, <2>1, <2>2, ClientSideAt DEF Conversation
<1>8. CASE /\ spc[s] = "postauth" /\ c2s[s] = <<>> /\ ran[s] # None
           /\ PlainRun(ran[s]) /\ Reporting(s, ran[s])
  <2>. DEFINE r == ran[s]
  <2>1. r \in Runs /\ r.out \in Seq(OutputLines) /\ r.err \in Seq(OutputLines)
    BY <1>2, <1>8 DEF Runs
  <2>2. /\ c2s'[s] = <<>> /\ spc'[s] = "postauth" /\ ran'[s] = r /\ r # None /\ PlainRun(r)
        /\ query'[s] # None
    BY <1>2, <1>8 DEF SameAsked
  <2>3. CASE /\ ps[s] = "toplevel" /\ res[s] = NoResult
             /\ Head(Pending(s)) = Text("EXECBEGIN") /\ Tail(Pending(s)) = FromEnd(r)
    <3>1. h = "EXECBEGIN"
      BY <1>2, <2>3 DEF Text
    <3>2. ps'[s] = "inexec" /\ res'[s] = NoResult /\ cpc'[s] = "exec"
      BY <1>1, <2>3, <3>1, SectionMarks
    <3>. QED BY <1>2, <2>2, <2>3, <3>2, ReportingGoesOn
  <2>4. CASE /\ ps[s] = "inexec" /\ res[s] = NoResult
             /\ Head(Pending(s)) = With("EXECEND", r.code)
             /\ Tail(Pending(s)) = FromOutBegin(r.out, r.err)
    <3>1. h = "EXECEND" /\ Reply(s).arg = r.code
      BY <1>2, <2>4 DEF With
    <3>2. /\ ps'[s] = "toplevel" /\ cpc'[s] = "exec"
          /\ res'[s] = [out |-> <<>>, err |-> <<>>, code |-> r.code]
      BY <1>1, <2>4, <3>1, SectionMarks DEF NoResult
    <3>. QED BY <1>2, <2>2, <2>4, <3>2, ReportingGoesOn
  <2>5. CASE /\ ps[s] = "toplevel" /\ res[s] = [out |-> <<>>, err |-> <<>>, code |-> r.code]
             /\ Head(Pending(s)) = Text("OUTBEGIN") /\ Tail(Pending(s)) = FromOut(r.out, r.err)
    <3>1. h = "OUTBEGIN"
      BY <1>2, <2>5 DEF Text
    <3>2. ps'[s] = "out" /\ res'[s] = res[s] /\ cpc'[s] = "exec"
      BY <1>1, <2>5, <3>1, SectionMarks
    <3>3. res'[s].out = <<>> /\ res'[s].err = <<>> /\ res'[s].code = r.code
      BY <2>5, <3>2
    <3>4. Rest(r.out, res'[s].out) = r.out /\ r.out = res'[s].out \o Rest(r.out, res'[s].out)
      BY <2>1, <3>3, RestOfAll
    <3>. QED BY <1>2, <2>2, <2>5, <3>2, <3>3, <3>4, ReportingGoesOn
  <2>6. CASE /\ ps[s] = "out" /\ res[s] = [out |-> r.out, err |-> <<>>, code |-> r.code]
             /\ Head(Pending(s)) = Text("OUTEND") /\ Tail(Pending(s)) = FromErrBegin(r.err)
    <3>1. h = "OUTEND"
      BY <1>2, <2>6 DEF Text
    <3>2. ps'[s] = "toplevel" /\ res'[s] = res[s] /\ cpc'[s] = "exec"
      BY <1>1, <2>6, <3>1, SectionMarks
    <3>. QED BY <1>2, <2>2, <2>6, <3>2, ReportingGoesOn
  <2>7. CASE /\ ps[s] = "toplevel" /\ res[s] = [out |-> r.out, err |-> <<>>, code |-> r.code]
             /\ Head(Pending(s)) = Text("ERRBEGIN") /\ Tail(Pending(s)) = FromErr(r.err)
    <3>1. h = "ERRBEGIN"
      BY <1>2, <2>7 DEF Text
    <3>2. ps'[s] = "err" /\ res'[s] = res[s] /\ cpc'[s] = "exec"
      BY <1>1, <2>7, <3>1, SectionMarks
    <3>3. res'[s].out = r.out /\ res'[s].err = <<>> /\ res'[s].code = r.code
      BY <2>7, <3>2
    <3>4. Rest(r.err, res'[s].err) = r.err /\ r.err = res'[s].err \o Rest(r.err, res'[s].err)
      BY <2>1, <3>3, RestOfAll
    <3>. QED BY <1>2, <2>2, <2>7, <3>2, <3>3, <3>4, ReportingGoesOn
  <2>8. CASE /\ ps[s] = "err" /\ res[s] = [out |-> r.out, err |-> r.err, code |-> r.code]
             /\ Pending(s) = <<Text("ERREND")>>
    <3>1. h = "ERREND" /\ Pending(s)' = <<>>
      BY <1>2, <2>8, SingleText DEF Text
    <3>2. res'[s] = res[s] /\ cpc'[s] = "menu"
      BY <1>1, <2>8, <3>1
    <3>3. Idle(s)'
      BY <2>2, <3>1 DEF Idle
    <3>4. Answered(s)'
      BY <2>2, <2>8, <3>2 DEF Answered
    <3>. QED BY <1>2, <3>2, <3>3, <3>4, ClientSideAt DEF Conversation
  <2>9. ASSUME NEW line \in Heads, Head(Pending(s)) = Text(line),
               \/ ps[s] = "out" /\ line \notin {"OUTEND", "ERREND"}
               \/ ps[s] = "err" /\ line # "ERREND"
        PROVE  FALSE
    <3>1. h = line
      BY <1>2, <2>9 DEF Text
    <3>. QED BY <1>1, <2>9, <3>1, SectionMarks
  <2>. HIDE DEF r
  <2>10. \/ ps[s] = "toplevel" \/ ps[s] = "inexec" \/ ps[s] = "out" \/ ps[s] = "err"
    BY <1>2, SectionNames
  <2>. QED BY ZenonT(60), <1>2, <1>8, <2>1, <2>3, <2>4, <2>5, <2>6, <2>7, <2>8, <2>9, NextOfReport
           DEF r
<1>. QED BY <1>2, <1>3, <1>4, <1>6, <1>7, <1>8 DEF AtExec

LEMMA RecvLineConversation ==
  ASSUME TypeOK, NEW s \in Sessions, Conversation(s), RecvLine(s)
  PROVE  Conversation(s)'
<1>. DEFINE h == Reply(s).head
<1>1. /\ ClientReads(s, "exec") /\ UNCHANGED <<c2s, ran, login, request, thread>>
      /\ ps[s] \in {"out", "err"} /\ h \notin DOMAIN Section[ps[s]] /\ ps' = ps
      /\ res'[s] = IF ps[s] = "out" THEN [res[s] EXCEPT !.out = Append(@, h)]
                                    ELSE [res[s] EXCEPT !.err = Append(@, h)]
      /\ cpc'[s] = IF h = "ERREND" THEN "menu" ELSE "exec"
  BY DEF RecvLine, Set, TypeOK, ClientTypes, LoopEnds
<1>2. /\ AtExec(s) /\ Pending(s) # <<>> /\ Reply(s) = Head(Pending(s))
      /\ Pending(s)' = Tail(Pending(s)) /\ ThreadSide(s)'
      /\ c2s'[s] = c2s[s] /\ spc'[s] = spc[s] /\ SameAsked(s)
      /\ query[s] # None /\ res[s] \in Results /\ ran[s] \in Runs \cup {None}
  BY <1>1, LoopRead
<1>3. /\ spc[s] = "postauth" /\ c2s[s] = <<>> /\ ran[s] # None
      /\ PlainRun(ran[s]) /\ Reporting(s, ran[s])
  BY <1>1, <1>2 DEF AtExec, Fresh, Running
<1>. DEFINE r == ran[s]
<1>4. /\ c2s'[s] = <<>> /\ spc'[s] = "postauth" /\ ran'[s] = r /\ r # None /\ PlainRun(r)
      /\ query'[s] # None /\ r \in Runs
  BY <1>2, <1>3 DEF SameAsked
<1>5. ASSUME NEW line \in Heads, line # "ERREND", Head(Pending(s)) = Text(line)
      PROVE  h = line /\ cpc'[s] = "exec"
  BY <1>1, <1>2, <1>5 DEF Text
<1>6. CASE /\ ps[s] = "out" /\ res[s].err = <<>> /\ res[s].code = r.code
           /\ \E line \in Heads \ {"OUTEND", "ERREND"} :
                LET next == Append(res[s].out, line) IN
                /\ Head(Pending(s)) = Text(line)
                /\ r.out = next \o Rest(r.out, next)
                /\ Tail(Pending(s)) = FromOut(Rest(r.out, next), r.err)
  <2>1. PICK line \in Heads \ {"OUTEND", "ERREND"} :
          LET next == Append(res[s].out, line) IN
          /\ Head(Pending(s)) = Text(line)
          /\ r.out = next \o Rest(r.out, next)
          /\ Tail(Pending(s)) = FromOut(Rest(r.out, next), r.err)
    BY <1>6
  <2>2. h = line /\ cpc'[s] = "exec"
    BY <1>5, <2>1
  <2>3. res'[s].out = Append(res[s].out, line) /\ res'[s].err = <<>> /\ res'[s].code = r.code
    BY <1>1, <1>2, <1>6, <2>2 DEF Results
  <2>. QED BY <1>1, <1>2, <1>4, <1>6, <2>1, <2>2, <2>3, ReportingGoesOn
<1>7. CASE /\ ps[s] = "err" /\ res[s].out = r.out /\ res[s].code = r.code
           /\ \E line \in Heads \ {"ERREND"} :
                LET next == Append(res[s].err, line) IN
                /\ Head(Pending(s)) = Text(line)
                /\ r.err = next \o Rest(r.err, next)
                /\ Tail(Pending(s)) = FromErr(Rest(r.err, next))
  <2>1. PICK line \in Heads \ {"ERREND"} :
          LET next == Append(res[s].err, line) IN
          /\ Head(Pending(s)) = Text(line)
          /\ r.err = next \o Rest(r.err, next)
          /\ Tail(Pending(s)) = FromErr(Rest(r.err, next))
    BY <1>7
  <2>2. h = line /\ cpc'[s] = "exec"
    BY <1>5, <2>1
  <2>3. res'[s].err = Append(res[s].err, line) /\ res'[s].out = r.out /\ res'[s].code = r.code
    BY <1>1, <1>2, <1>7, <2>2 DEF Results
  <2>. QED BY <1>1, <1>2, <1>4, <1>7, <2>1, <2>2, <2>3, ReportingGoesOn
<1>8. ~(/\ ps[s] = "out" /\ res[s] = [out |-> r.out, err |-> <<>>, code |-> r.code]
        /\ Head(Pending(s)) = Text("OUTEND") /\ Tail(Pending(s)) = FromErrBegin(r.err))
  BY <1>1, <1>2, SectionMarks DEF Text
<1>9. ~(/\ ps[s] = "err" /\ res[s] = [out |-> r.out, err |-> r.err, code |-> r.code]
        /\ Pending(s) = <<Text("ERREND")>>)
  BY <1>1, <1>2, SectionMarks, SingleText DEF Text
<1>. HIDE DEF r
<1>. QED BY <1>1, <1>2, <1>3, <1>4, <1>6, <1>7, <1>8, <1>9, NextOfReport DEF r

(* Between two sections a report goes on with one of the texts that begin a *)
(* section: neither a parameter is asked for nor a query refused in it.     *)
LEMMA ReportAtToplevel ==
  ASSUME NEW s \in Sessions, ps[s] = "toplevel", Pending(s) # <<>>, res[s] \in Results,
         \/ \E after \in {<<>>, <<Text("ERROR")>>} : Running(s, after)
         \/ /\ ran[s] \in Runs /\ PlainRun(ran[s]) /\ Reporting(s, ran[s])
  PROVE  Head(Pending(s)).head \in {"EXECBEGIN", "OUTBEGIN", "ERRBEGIN"}
<1>1. /\ Text("EXECBEGIN").head = "EXECBEGIN" /\ Text("OUTBEGIN").head = "OUTBEGIN"
      /\ Text("ERRBEGIN").head = "ERRBEGIN"
  BY DEF Text
<1>2. CASE \E after \in {<<>>, <<Text("ERROR")>>} : Running(s, after)
  BY <1>1, <1>2, NextOfRun
<1>3. CASE ran[s] \in Runs /\ PlainRun(ran[s]) /\ Reporting(s, ran[s])
  BY <1>1, <1>3, NextOfReport
<1>. QED BY <1>2, <1>3

(* The thread waits for a parameter.                                        *)
LEMMA ParameterIsAwaited ==
  ASSUME TypeOK, NEW s \in Sessions, Conversation(s), NEW p \in Params, RecvParam(s, p)
  PROVE  /\ cpc[s] = "exec" /\ spc[s] = "param" /\ Fresh(s)
         /\ Pending(s) = <<Text("PARAM")>> /\ c2s[s] = <<>> /\ typed[s] = params[s]
         /\ ran[s] = None /\ Runnable(s) /\ Len(params[s]) < NumParams[cmd[s]]
<1>1. /\ ClientReads(s, "exec") /\ ps[s] = "toplevel" /\ Reply(s).head = "PARAM"
      /\ outq' = outq
  BY DEF RecvParam, thread
<1>2. cpc[s] = "exec" /\ Pending(s) # <<>> /\ Reply(s) = Head(Pending(s))
  BY <1>1, PendingRead
<1>3. AtExec(s) /\ query[s] \in Queries /\ ThreadSide(s)
  BY <1>2 DEF Conversation, ClientSide, AtExec, TypeOK, ClientTypes
<1>4. /\ spc[s] = "param" /\ Fresh(s) /\ Pending(s) = <<Text("PARAM")>>
      /\ c2s[s] = <<>> /\ typed[s] = params[s]
  <2>1. ASSUME Pending(s) = <<Text(Meant(s).answer)>> PROVE FALSE
    <3>1. Reply(s).head = Meant(s).answer
      BY <1>2, <2>1, SingleText DEF Text
    <3>. QED BY <1>1, <1>3, <3>1, ResolveType DEF Meant
  <2>2. ASSUME NEW after \in {<<>>, <<Text("ERROR")>>}, Running(s, after) PROVE FALSE
    <3>1. res[s] \in Results
      BY DEF TypeOK, ClientTypes
    <3>. QED BY <1>1, <1>2, <2>2, <3>1, ReportAtToplevel
  <2>3. ASSUME ran[s] # None, PlainRun(ran[s]), Reporting(s, ran[s]) PROVE FALSE
    <3>1. ran[s] \in Runs /\ res[s] \in Results
      BY <2>3 DEF TypeOK, ClientTypes
    <3>. QED BY <1>1, <1>2, <2>3, <3>1, ReportAtToplevel
  <2>. QED BY <1>2, <1>3, <2>1, <2>2, <2>3 DEF AtExec
<1>5. ran[s] = None /\ Runnable(s) /\ Len(params[s]) < NumParams[cmd[s]]
  BY <1>3, <1>4 DEF ThreadSide, Awaited
<1>. QED BY <1>2, <1>4, <1>5

(* A parameter is asked for, and typed.                                     *)
LEMMA RecvParamConversation ==
  ASSUME TypeOK, NEW s \in Sessions, Conversation(s), NEW p \in Params, RecvParam(s, p)
  PROVE  Conversation(s)'
<1>1. /\ ClientReads(s, "exec") /\ ps[s] = "toplevel" /\ Reply(s).head = "PARAM"
      /\ typed'[s] = Append(typed[s], p)
      /\ UNCHANGED <<ran, cpc, query, login, execution, thread>>
      /\ IF p = "" THEN c2s'[s] = c2s[s] ELSE c2s'[s] = Append(c2s[s], Text(p))
  BY DEF RecvParam, Set, Put, TypeOK, ClientTypes
<1>2. /\ UNCHANGED <<spc, outq, cmd, params, ps, res, cuser>>
  BY <1>1 DEF thread, login, execution
<1>3. /\ cpc[s] = "exec" /\ Pending(s) # <<>> /\ Reply(s) = Head(Pending(s))
      /\ Pending(s)' = Tail(Pending(s))
  BY <1>1, <1>2, PendingRead
<1>4. AtExec(s) /\ query[s] \in Queries /\ ThreadSide(s)
  BY <1>3 DEF Conversation, ClientSide, AtExec, TypeOK, ClientTypes
<1>5. /\ spc[s] = "param" /\ Fresh(s) /\ Pending(s) = <<Text("PARAM")>>
      /\ c2s[s] = <<>> /\ typed[s] = params[s]
  BY ParameterIsAwaited
<1>6. Pending(s)' = <<>>
  BY <1>3, <1>5, SingleText
<1>7. ran[s] = None /\ Runnable(s) /\ Len(params[s]) < NumParams[cmd[s]]
  BY ParameterIsAwaited
<1>8. \/ p = "" /\ c2s'[s] = <<>>
      \/ p # "" /\ c2s'[s] = <<Text(p)>>
  BY <1>1, <1>5, SingleText
<1>9. Awaited(s)'
  BY <1>1, <1>2, <1>5, <1>7, <1>8 DEF Awaited
<1>10. ThreadSide(s)'
  <2>1. Len(c2s'[s]) <= 1
    <3>1. CASE c2s'[s] = <<>>
      <4>1. Len(c2s'[s]) = 0
        BY <3>1
      <4>. QED BY <4>1
    <3>2. CASE c2s'[s] = <<Text(p)>>
      <4>1. Len(c2s'[s]) = 1
        BY <3>2, SingleText
      <4>. QED BY <4>1
    <3>. QED BY <1>8, <3>1, <3>2
  <2>2. c2s'[s] # <<>> => ~IsExec(Received(s))'
    <3>1. c2s'[s] # <<>> => Received(s)' = Text(p)
      BY <1>8, SingleText DEF Received
    <3>. QED BY <3>1, SessionAssumption DEF SessionAssumption, IsExec, Text
  <2>3. Runnable(s)' /\ ran'[s] = None /\ spc'[s] = "param"
    BY <1>1, <1>2, <1>5, <1>7 DEF Runnable, Meant
  <2>. QED BY <1>9, <2>1, <2>2, <2>3 DEF ThreadSide
<1>11. AtExec(s)'
  <2>1. spc'[s] = "param" /\ Fresh(s)' /\ query'[s] # None
    BY <1>1, <1>2, <1>5, <1>7 DEF Fresh, Runnable
  <2>2. c2s'[s] = <<>> => "" \in Params
    BY <1>8, SingleText
  <2>. QED BY <1>6, <2>1, <2>2 DEF AtExec
<1>. QED BY <1>1, <1>3, <1>10, <1>11, ClientSideAt DEF Conversation

(* NCERROR comes only when the query leads to no command.                   *)
LEMMA NothingWasFound ==
  ASSUME TypeOK, NEW s \in Sessions, Conversation(s), RecvNotFound(s)
  PROVE  /\ cpc[s] = "exec" /\ spc[s] = "postauth" /\ Fresh(s) /\ c2s[s] = <<>>
         /\ ran[s] = None /\ query[s] # None
         /\ Meant(s).answer = "NCERROR" /\ Pending(s) = <<Text(Meant(s).answer)>>
<1>1. /\ ClientReads(s, "exec") /\ UNCHANGED <<c2s, ran, login, request, execution, thread>>
      /\ ps[s] = "toplevel" /\ Reply(s).head = "NCERROR"
  BY DEF RecvNotFound
<1>2. /\ cpc[s] = "exec" /\ AtExec(s) /\ Pending(s) # <<>> /\ Reply(s) = Head(Pending(s))
      /\ query[s] # None /\ res[s] \in Results /\ ran[s] \in Runs \cup {None}
  BY <1>1, LoopRead
<1>3. /\ spc[s] = "postauth" /\ Fresh(s) /\ c2s[s] = <<>> /\ ran[s] = None
      /\ Pending(s) = <<Text(Meant(s).answer)>>
  <2>1. ASSUME NEW after \in {<<>>, <<Text("ERROR")>>}, Running(s, after) PROVE FALSE
    BY <1>1, <1>2, <2>1, ReportAtToplevel
  <2>2. ASSUME ran[s] # None, PlainRun(ran[s]), Reporting(s, ran[s]) PROVE FALSE
    <3>1. ran[s] \in Runs
      BY <1>2, <2>2
    <3>. QED BY <1>1, <1>2, <2>2, <3>1, ReportAtToplevel
  <2>3. Pending(s) # <<Text("PARAM")>>
    BY <1>1, <1>2, SingleText DEF Text
  <2>. QED BY <1>2, <2>1, <2>2, <2>3 DEF AtExec
<1>4. Meant(s).answer = "NCERROR"
  BY <1>1, <1>2, <1>3, SingleText DEF Text
<1>. QED BY <1>2, <1>3, <1>4

(* There is no such command, and the menu comes back.                       *)
LEMMA RecvNotFoundConversation ==
  ASSUME TypeOK, NEW s \in Sessions, Conversation(s), RecvNotFound(s),
         query[s] \notin ShortQueries
  PROVE  Conversation(s)'
<1>1. /\ ClientReads(s, "exec") /\ UNCHANGED <<c2s, ran, login, request, execution, thread>>
      /\ ps[s] = "toplevel" /\ Reply(s).head = "NCERROR" /\ cpc'[s] = "menu"
  BY DEF RecvNotFound, Set, TypeOK, ClientTypes
<1>2. /\ AtExec(s) /\ Pending(s) # <<>> /\ Reply(s) = Head(Pending(s))
      /\ Pending(s)' = Tail(Pending(s)) /\ ThreadSide(s)'
      /\ c2s'[s] = c2s[s] /\ spc'[s] = spc[s] /\ SameAsked(s)
      /\ cuser'[s] = cuser[s] /\ res' = res
      /\ res[s] \in Results /\ ran[s] \in Runs \cup {None}
  BY <1>1, LoopRead DEF SameLogin, execution
<1>3. /\ spc[s] = "postauth" /\ Fresh(s) /\ c2s[s] = <<>> /\ ran[s] = None
      /\ Meant(s).answer # "RUN" /\ Pending(s) = <<Text(Meant(s).answer)>>
  BY NothingWasFound
<1>4. Pending(s)' = <<>>
  BY <1>2, <1>3, SingleText
<1>5. Idle(s)'
  BY <1>2, <1>3, <1>4 DEF Idle
<1>6. Answered(s)'
  BY <1>2, <1>3 DEF Answered, Fresh, Meant, SameAsked
<1>. QED BY <1>1, <1>2, <1>5, <1>6, ClientSideAt DEF Conversation

-----------------------------------------------------------------------------
(***************************************************************************)
(* The thread's steps.                                                     *)
(***************************************************************************)
(* What a step of the thread leaves to its client.                          *)
SameAtClient(s) == /\ SameClient(s) /\ query'[s] = query[s] /\ typed'[s] = typed[s]
                   /\ ps'[s] = ps[s] /\ res'[s] = res[s]

LEMMA ServerKeepsClient ==
  ASSUME NEW s \in Sessions, UNCHANGED client PROVE SameAtClient(s)
BY DEF client, login, request, execution, SameAtClient, SameClient, SameLogin

(* There is never more than one text on its way to the thread.              *)
LEMMA ReadsTheLast ==
  ASSUME TypeOK, NEW s \in Sessions, ThreadSide(s), NEW where, ServerReads(s, where)
  PROVE  /\ spc[s] = where /\ outq[s] = <<>> /\ c2s[s] = <<Received(s)>>
         /\ Received(s) \in Messages /\ c2s'[s] = <<>>
<1>1. /\ spc[s] = where /\ outq[s] = <<>> /\ c2s[s] # <<>>
      /\ c2s'[s] = Tail(c2s[s]) /\ Received(s) = Head(c2s[s])
      /\ c2s[s] \in Seq(Messages)
  BY DEF ServerReads, Received, TypeOK
<1>2. Len(c2s[s]) = 1
  <2>. DEFINE n == Len(c2s[s])
  <2>1. n <= 1
    BY DEF ThreadSide
  <2>2. n \in Nat /\ n # 0
    BY <1>1, EmptySeq, LenProperties
  <2>. HIDE DEF n
  <2>3. n = 1
    BY <2>1, <2>2
  <2>. QED BY <2>3 DEF n
<1>3. c2s[s] = <<Head(c2s[s])>> /\ Head(c2s[s]) \in Messages
  BY <1>1, <1>2
<1>. QED BY <1>1, <1>3, SingleText

(* The client of a thread that serves is past the login, or has gone.       *)
LEMMA ServedClient ==
  ASSUME TypeOK, NEW s \in Sessions, LoginStage(s), spc[s] \in Serving,
         spc[s] = "postauth" => c2s[s] # <<>>
  PROVE  /\ cpc[s] \in {"menu", "exec", "list_begin", "list", "close_reply"} \cup Gone
         /\ suser[s] = cuser[s]
BY ServingIsProved DEF LoggedIn, Gone, Proved, SameUser

(* Steps of the login.                                                      *)
LEMMA ServerLoginConversation ==
  ASSUME TypeOK, NEW s \in Sessions, LoginStage(s), Conversation(s),
         ServerHello(s) \/ ServerUser(s) \/ ServerPass(s)
  PROVE  Conversation(s)'
<1>1. /\ spc[s] \in {"hello", "user", "pass"} /\ UNCHANGED client /\ UNCHANGED ran
      /\ spc'[s] \notin {"param", "run"}
  BY DEF ServerHello, ServerUser, ServerPass, ServerReads, Answer, Throw, Set, TypeOK,
     ThreadTypes
<1>2. \E where : ServerReads(s, where)
  BY DEF ServerHello, ServerUser, ServerPass
<1>3. c2s'[s] = <<>> /\ SameAtClient(s)
  BY <1>1, <1>2, ReadsTheLast, ServerKeepsClient DEF Conversation
<1>4. ThreadSide(s)'
  BY <1>1, <1>3, ThreadSideKept DEF Conversation, SameAtClient, SameClient, SameLogin
<1>5. cpc[s] \notin LoggedIn
  BY <1>1 DEF LoginStage, InSession, Serving
<1>6. cpc'[s] \in BeforeMenu \cup Gone
  BY <1>3, <1>5 DEF TypeOK, ClientTypes, ClientPlaces, Reading, LoggedIn, BeforeMenu, Gone,
     SameAtClient, SameClient
<1>7. CASE cpc'[s] \in BeforeMenu
  BY <1>1, <1>3, <1>4, <1>7, ClientSideAt
     DEF Conversation, ClientSide, SameAtClient, SameClient
<1>8. CASE cpc'[s] \in Gone
  BY <1>4, <1>8, ClientSideAt DEF Conversation
<1>. QED BY <1>6, <1>7, <1>8

(* What the thread does while its client waits for a listing.               *)
LEMMA ListingGrows ==
  ASSUME NEW lines \in Seq(Messages), NEW m \in Messages,
         \A i \in 1..Len(lines) : lines[i].head # "ENDLIST"
  PROVE  LET next == lines \o <<m>> IN
         /\ next \in Seq(Messages) /\ next # <<>> /\ next[Len(next)] = m
         /\ \A i \in 1..(Len(next) - 1) : next[i].head # "ENDLIST"
         /\ m.head # "ENDLIST" => \A i \in 1..Len(next) : next[i].head # "ENDLIST"
<1>1. lines \o <<m>> = Append(lines, m)
  BY AppendIsConcat
<1>2. /\ Append(lines, m) \in Seq(Messages) /\ Append(lines, m) # <<>>
      /\ Len(Append(lines, m)) = Len(lines) + 1 /\ Len(lines) \in Nat
      /\ \A i \in 1..Len(lines) : Append(lines, m)[i] = lines[i]
      /\ Append(lines, m)[Len(lines) + 1] = m
  BY AppendProperties, LenProperties
<1>. QED BY <1>1, <1>2

LEMMA ServerListConversation ==
  ASSUME TypeOK, NEW s \in Sessions, LoginStage(s), Conversation(s), ServerList(s)
  PROVE  Conversation(s)'
<1>1. /\ ServerReads(s, "postauth") /\ Received(s).head = "LIST"
      /\ Answer(s, <<Text("BEGINLIST")>>, "list")
      /\ UNCHANGED <<s2c, ran, client>>
  BY DEF ServerList
<1>2. /\ spc[s] = "postauth" /\ outq[s] = <<>> /\ c2s[s] = <<Received(s)>>
      /\ c2s'[s] = <<>> /\ SameAtClient(s)
  BY <1>1, ReadsTheLast, ServerKeepsClient DEF Conversation
<1>3. <<Text("BEGINLIST")>> \in Seq(Messages)
  BY MarksAreTexts
<1>4. spc'[s] = "list" /\ (Pending(s) = <<>> => Pending(s)' = <<Text("BEGINLIST")>>)
  BY <1>1, <1>2, <1>3, PendingAnswer
<1>5. ThreadSide(s)'
  BY <1>1, <1>2, <1>4, ThreadSideKept DEF Conversation, SameAtClient, SameClient, SameLogin
<1>6. CASE cpc[s] \in Gone
  BY <1>2, <1>5, <1>6, ClientSideAt DEF Conversation, SameAtClient, SameClient
<1>7. CASE cpc[s] = "list_begin"
  <2>1. query[s] = None /\ Pending(s) = <<>>
    BY <1>2, <1>7 DEF Conversation, ClientSide, AtListBegin, Listing
  <2>2. Pending(s)' # <<>> /\ Head(Pending(s)') = Text("BEGINLIST") /\ Tail(Pending(s)') = <<>>
    BY <1>4, <2>1, SingleText
  <2>3. AtListBegin(s)'
    <3>1. \A i \in 1..Len(<<>>) : FALSE
      OBVIOUS
    <3>2. \A i \in 1..(Len(<<>>) - 1) : FALSE
      OBVIOUS
    <3>. QED BY <1>2, <1>4, <2>2, <3>1, <3>2 DEF AtListBegin, Listing, ListComing
  <2>. QED BY <1>2, <1>5, <1>7, <2>1, <2>3, ClientSideAt
           DEF Conversation, SameAtClient, SameClient
<1>8. Received(s) # Text("CLOSE") /\ Received(s) # With("EXEC", query[s])
  BY <1>1 DEF Text, With
<1>9. cpc[s] \notin {"menu", "exec", "list", "close_reply"}
  BY <1>2, <1>8, SingleText
     DEF Conversation, ClientSide, Idle, AtExec, Running, AtList, Listing, AtClose
<1>10. cpc[s] \in {"menu", "exec", "list_begin", "list", "close_reply"} \cup Gone
  BY <1>2, SingleText, ServedClient DEF Serving
<1>. QED BY <1>6, <1>7, <1>9, <1>10

LEMMA ServerListingConversation ==
  ASSUME TypeOK, NEW s \in Sessions, LoginStage(s), Conversation(s), PlainNames,
         ServerListLine(s) \/ ServerListEnd(s)
  PROVE  Conversation(s)'
<1>1. /\ spc[s] = "list" /\ outq[s] = <<>>
      /\ UNCHANGED <<c2s, s2c, ran, client>>
  BY DEF ServerListLine, ServerListEnd
<1>2. SameAtClient(s)
  BY <1>1, ServerKeepsClient
<1>3. PICK m \in Messages, next \in {"list", "postauth"} :
        /\ Answer(s, <<m>>, next)
        /\ next = "list" => m.head # "ENDLIST"
        /\ next = "postauth" => m = Text("ENDLIST")
  <2>1. ASSUME NEW l \in ListLine(suser[s]), Answer(s, <<Text(l)>>, "list")
        PROVE  Text(l) \in Messages /\ Text(l).head # "ENDLIST"
    BY <2>1, TextType DEF ListLine, Heads, Text, PlainNames
  <2>. QED BY <2>1, MarksAreTexts DEF ServerListLine, ServerListEnd
<1>4. <<m>> \in Seq(Messages) /\ Pending(s) \in Seq(Messages)
  BY Queues
<1>5. Pending(s)' = Pending(s) \o <<m>> /\ spc'[s] = next
  BY <1>1, <1>3, <1>4, PendingAnswer
<1>6. ThreadSide(s)'
  BY <1>1, <1>2, <1>5, ThreadSideKept DEF Conversation, SameAtClient, SameClient, SameLogin
<1>7. ASSUME NEW lines \in Seq(Messages), Listing(s, lines)
      PROVE  /\ c2s'[s] = <<>> /\ spc'[s] \in {"list", "postauth"}
             /\ LET new == lines \o <<m>> IN
                /\ \A i \in 1..(Len(new) - 1) : new[i].head # "ENDLIST"
                /\ spc'[s] = "list" => \A i \in 1..Len(new) : new[i].head # "ENDLIST"
                /\ spc'[s] = "postauth" => new # <<>> /\ new[Len(new)] = Text("ENDLIST")
  <2>1. \A i \in 1..Len(lines) : lines[i].head # "ENDLIST"
    BY <1>1, <1>7 DEF Listing, ListComing
  <2>2. c2s'[s] = <<>>
    BY <1>1, <1>7 DEF Listing
  <2>. QED BY <1>3, <1>5, <2>1, <2>2, ListingGrows
<1>8. CASE cpc[s] \in Gone
  BY <1>2, <1>6, <1>8, ClientSideAt DEF Conversation, SameAtClient, SameClient
<1>9. CASE cpc[s] = "list"
  <2>1. query[s] = None /\ Listing(s, Pending(s))
    BY <1>9 DEF Conversation, ClientSide, AtList
  <2>2. AtList(s)'
    BY <1>4, <1>5, <1>7, <2>1 DEF AtList, Listing, ListComing
  <2>. QED BY <1>2, <1>6, <1>9, <2>1, <2>2, ClientSideAt
           DEF Conversation, SameAtClient, SameClient
<1>10. CASE cpc[s] = "list_begin"
  <2>1. /\ query[s] = None /\ Pending(s) # <<>> /\ Head(Pending(s)) = Text("BEGINLIST")
        /\ Listing(s, Tail(Pending(s)))
    BY <1>1, <1>10 DEF Conversation, ClientSide, AtListBegin
  <2>2. /\ Pending(s)' # <<>> /\ Head(Pending(s)') = Text("BEGINLIST")
        /\ Tail(Pending(s)') = Tail(Pending(s)) \o <<m>>
    BY <1>4, <1>5, <2>1, ConcatHeadTail
  <2>3. Tail(Pending(s)) \in Seq(Messages)
    BY <1>4, <2>1, HeadTailProperties
  <2>4. AtListBegin(s)'
    BY <1>7, <2>1, <2>2, <2>3 DEF AtListBegin, Listing, ListComing
  <2>. QED BY <1>2, <1>6, <1>10, <2>1, <2>4, ClientSideAt
           DEF Conversation, SameAtClient, SameClient
<1>11. cpc[s] \notin {"menu", "exec", "close_reply"}
  BY <1>1 DEF Conversation, ClientSide, Idle, AtExec, AtClose
<1>12. cpc[s] \in {"menu", "exec", "list_begin", "list", "close_reply"} \cup Gone
  BY <1>1, ServedClient DEF Serving
<1>. QED BY <1>8, <1>9, <1>10, <1>11, <1>12

(* A request for a command is resolved for the user who made it.            *)
LEMMA ResolvedRecord ==
  ASSUME NEW path, NEW u, Resolve(path, u).answer = "RUN"
  PROVE  Resolve(path, u) = [answer |-> "RUN", cmd |-> Resolve(path, u).cmd]
BY DEF Resolve

LEMMA ServerExecConversation ==
  ASSUME TypeOK, NEW s \in Sessions, LoginStage(s), Conversation(s), ServerExec(s)
  PROVE  Conversation(s)'
<1>. DEFINE r == Resolve(Path[Received(s).arg], suser[s])
<1>1. /\ ServerReads(s, "postauth") /\ IsExec(Received(s))
      /\ cmd'[s] = r.cmd /\ params'[s] = <<>>
      /\ IF r.answer # "RUN" THEN Answer(s, <<Text(r.answer)>>, "postauth")
         ELSE IF NumParams[r.cmd] > 0 THEN Answer(s, <<Text("PARAM")>>, "param")
         ELSE Answer(s, <<Text("EXECBEGIN")>>, "run")
      /\ UNCHANGED <<s2c, ran, client>>
  BY DEF ServerExec, Set, TypeOK, ThreadTypes
<1>2. /\ spc[s] = "postauth" /\ outq[s] = <<>> /\ c2s[s] = <<Received(s)>>
      /\ c2s'[s] = <<>> /\ c2s[s] # <<>> /\ SameAtClient(s)
  BY <1>1, ReadsTheLast, ServerKeepsClient, SingleText DEF Conversation
<1>3. /\ Received(s).arg = query[s] /\ query[s] \in Queries /\ query[s] # None
      /\ ran[s] = None /\ typed[s] = <<>>
  BY <1>1, <1>2, SessionAssumption DEF Conversation, ThreadSide, IsExec, SessionAssumption
<1>4. /\ cpc[s] \in {"menu", "exec", "list_begin", "list", "close_reply"} \cup Gone
      /\ r = Meant(s)
  BY <1>2, <1>3, ServedClient DEF Serving, Meant
<1>5. /\ r.answer \in {"RUN", "ERROR", "NCERROR"}
      /\ r.answer = "RUN" => r.cmd \in Commands /\ r = [answer |-> "RUN", cmd |-> r.cmd]
  BY SMTT(60), <1>3, ResolveType, ResolvedRecord
<1>6. PICK m \in Messages, next \in {"postauth", "param", "run"} :
        /\ Answer(s, <<m>>, next)
        /\ next = "postauth" => r.answer # "RUN" /\ m = Text(r.answer)
        /\ next = "param" => /\ r.answer = "RUN" /\ NumParams[r.cmd] > 0
                             /\ m = Text("PARAM")
        /\ next = "run" => /\ r.answer = "RUN" /\ NumParams[r.cmd] = 0
                           /\ m = Text("EXECBEGIN")
  <2>1. r.answer = "RUN" => NumParams[r.cmd] \in Nat
    BY <1>5, CatalogueAssumption DEF CatalogueAssumption
  <2>2. r.answer # "RUN" => Text(r.answer) \in Messages
    BY <1>5, MarksAreTexts
  <2>. HIDE DEF r
  <2>3. CASE r.answer # "RUN"
    <3>1. Answer(s, <<Text(r.answer)>>, "postauth")
      BY <1>1, <2>3
    <3>2. Text(r.answer) \in Messages
      BY <2>2, <2>3
    <3>. QED BY <2>3, <3>1, <3>2 DEF Answer, Set
  <2>4. CASE r.answer = "RUN" /\ NumParams[r.cmd] > 0
    BY <1>1, <2>4, MarksAreTexts
  <2>5. CASE r.answer = "RUN" /\ ~(NumParams[r.cmd] > 0)
    <3>1. NumParams[r.cmd] = 0
      BY <2>1, <2>5
    <3>. QED BY <1>1, <2>5, <3>1, MarksAreTexts
  <2>. QED BY <2>3, <2>4, <2>5
<1>. HIDE DEF r
<1>7. <<m>> \in Seq(Messages)
  OBVIOUS
<1>8. spc'[s] = next /\ (Pending(s) = <<>> => Pending(s)' = <<m>>)
  BY <1>1, <1>2, <1>6, <1>7, PendingAnswer
<1>9. /\ query'[s] = query[s] /\ typed'[s] = <<>> /\ ran'[s] = None /\ cuser'[s] = cuser[s]
      /\ cpc'[s] = cpc[s] /\ ps'[s] = ps[s] /\ res'[s] = res[s] /\ Meant(s)' = r
  BY <1>1, <1>2, <1>3, <1>4 DEF SameAtClient, SameClient, SameLogin, Meant
<1>10. ThreadSide(s)'
  <2>1. r.answer = "RUN" => Runnable(s)'
    BY <1>1, <1>3, <1>5, <1>9 DEF Runnable
  <2>2. next = "param" => Awaited(s)'
    <3>1. Len(<<>>) = 0
      OBVIOUS
    <3>. QED BY <1>1, <1>2, <1>5, <1>6, <1>9, <3>1 DEF Awaited
  <2>3. next = "run" => Complete(s)'
    <3>1. Len(<<>>) = 0
      OBVIOUS
    <3>. QED BY <1>1, <1>2, <1>6, <1>9, <3>1 DEF Complete
  <2>4. Len(c2s'[s]) <= 1
    <3>1. Len(<<>>) <= 1
      OBVIOUS
    <3>. QED BY <1>2, <3>1
  <2>. QED BY <1>2, <1>6, <1>8, <1>9, <2>1, <2>2, <2>3, <2>4 DEF ThreadSide
<1>11. CASE cpc[s] \in Gone
  BY <1>9, <1>10, <1>11, ClientSideAt DEF Conversation
<1>12. CASE cpc[s] = "exec"
  <2>1. Fresh(s) /\ Pending(s) = <<>>
    BY <1>2, <1>12 DEF Conversation, ClientSide, AtExec, Running
  <2>2. Fresh(s)' /\ Pending(s)' = <<m>>
    BY <1>8, <1>9, <2>1 DEF Fresh
  <2>3. next = "run" => Running(s, <<>>)'
    <3>1. <<Text("EXECBEGIN")>> \o <<>> = <<Text("EXECBEGIN")>>
      OBVIOUS
    <3>. QED BY <1>2, <1>6, <1>9, <2>2, <3>1 DEF Running, Fresh, Text
  <2>4. AtExec(s)'
    BY <1>1, <1>2, <1>3, <1>6, <1>8, <1>9, <2>2, <2>3 DEF AtExec, Text
  <2>. QED BY <1>9, <1>10, <1>12, <2>4, ClientSideAt DEF Conversation
<1>13. Received(s).head = "EXEC"
  BY <1>1 DEF IsExec
<1>14. Received(s) # Text("LIST") /\ Received(s) # Text("CLOSE")
  BY <1>13 DEF Text
<1>15. cpc[s] \notin {"menu", "list_begin", "list", "close_reply"}
  BY <1>2, <1>14, SingleText
     DEF Conversation, ClientSide, Idle, AtListBegin, AtList, Listing, AtClose
<1>. QED BY <1>4, <1>11, <1>12, <1>15

LEMMA ServerParamConversation ==
  ASSUME TypeOK, NEW s \in Sessions, LoginStage(s), Conversation(s), ServerParam(s)
  PROVE  Conversation(s)'
<1>1. /\ ServerReads(s, "param") /\ params'[s] = Append(params[s], Received(s).head)
      /\ IF Len(params[s]) + 1 < NumParams[cmd[s]]
         THEN Answer(s, <<Text("PARAM")>>, "param")
         ELSE Answer(s, <<Text("EXECBEGIN")>>, "run")
      /\ UNCHANGED <<s2c, ran, client, cmd>>
  BY DEF ServerParam, Set, TypeOK, ThreadTypes
<1>2. /\ spc[s] = "param" /\ outq[s] = <<>> /\ c2s[s] = <<Received(s)>>
      /\ c2s'[s] = <<>> /\ c2s[s] # <<>> /\ SameAtClient(s)
  BY <1>1, ReadsTheLast, ServerKeepsClient, SingleText DEF Conversation
<1>3. ran[s] = None /\ Runnable(s) /\ Awaited(s)
  BY <1>2 DEF Conversation, ThreadSide
<1>4. typed[s] = Append(params[s], Received(s).head)
  <2>1. PICK p \in Params : c2s[s] = <<Text(p)>> /\ typed[s] = Append(params[s], p)
    BY <1>2, <1>3 DEF Awaited
  <2>2. Received(s).head = p
    BY <2>1, SingleText DEF Received, Text
  <2>. QED BY <2>1, <2>2
<1>5. /\ params[s] \in Seq(Heads) /\ Received(s).head \in Heads /\ cmd[s] \in Commands
      /\ NumParams[cmd[s]] \in Nat
  <2>1. Received(s) \in Messages
    BY <1>1, ReadsTheLast DEF Conversation
  <2>. QED BY <1>2, <2>1, CatalogueAssumption
           DEF TypeOK, ThreadTypes, Messages, CatalogueAssumption
<1>6. Len(params'[s]) = Len(params[s]) + 1 /\ Len(params[s]) \in Nat
  BY <1>1, <1>5, AppendProperties, LenProperties
<1>7. Len(params[s]) < NumParams[cmd[s]]
  BY <1>3 DEF Awaited
<1>8. PICK m \in Messages, next \in {"param", "run"} :
        /\ Answer(s, <<m>>, next)
        /\ next = "param" => Len(params'[s]) < NumParams[cmd[s]] /\ m = Text("PARAM")
        /\ next = "run" => Len(params'[s]) = NumParams[cmd[s]] /\ m = Text("EXECBEGIN")
  BY <1>1, <1>5, <1>6, <1>7, MarksAreTexts
<1>9. <<m>> \in Seq(Messages)
  OBVIOUS
<1>10. spc'[s] = next /\ (Pending(s) = <<>> => Pending(s)' = <<m>>)
  BY <1>1, <1>2, <1>8, <1>9, PendingAnswer
<1>11. /\ query'[s] = query[s] /\ typed'[s] = params'[s] /\ ran'[s] = None
       /\ cuser'[s] = cuser[s] /\ cmd'[s] = cmd[s]
       /\ cpc'[s] = cpc[s] /\ ps'[s] = ps[s] /\ res'[s] = res[s]
  BY <1>1, <1>2, <1>3, <1>4 DEF SameAtClient, SameClient, SameLogin
<1>12. ThreadSide(s)'
  <2>1. Runnable(s)'
    BY <1>3, <1>11 DEF Runnable, Meant
  <2>2. next = "param" => Awaited(s)'
    BY <1>2, <1>8, <1>11 DEF Awaited
  <2>3. next = "run" => Complete(s)'
    BY <1>2, <1>8, <1>11 DEF Complete
  <2>4. Len(c2s'[s]) <= 1
    <3>1. Len(<<>>) <= 1
      OBVIOUS
    <3>. QED BY <1>2, <3>1
  <2>. QED BY <1>2, <1>10, <1>11, <2>1, <2>2, <2>3, <2>4 DEF ThreadSide
<1>13. CASE cpc[s] \in Gone
  BY <1>11, <1>12, <1>13, ClientSideAt DEF Conversation
<1>14. CASE cpc[s] = "exec"
  <2>1. Fresh(s) /\ Pending(s) = <<>> /\ query[s] # None
    BY <1>2, <1>14 DEF Conversation, ClientSide, AtExec
  <2>2. Fresh(s)' /\ Pending(s)' = <<m>>
    BY <1>10, <1>11, <2>1 DEF Fresh
  <2>3. next = "run" => Running(s, <<>>)'
    <3>1. <<Text("EXECBEGIN")>> \o <<>> = <<Text("EXECBEGIN")>>
      OBVIOUS
    <3>. QED BY <1>2, <1>8, <1>11, <2>2, <3>1 DEF Running, Fresh, Text
  <2>4. AtExec(s)'
    BY <1>2, <1>8, <1>10, <1>11, <2>1, <2>2, <2>3 DEF AtExec, Text
  <2>. QED BY <1>11, <1>12, <1>14, <2>4, ClientSideAt DEF Conversation
<1>15. cpc[s] \notin {"menu", "list_begin", "list", "close_reply"}
  BY <1>2 DEF Conversation, ClientSide, Idle, AtListBegin, AtList, Listing, AtClose
<1>16. cpc[s] \in {"menu", "exec", "list_begin", "list", "close_reply"} \cup Gone
  BY <1>2, ServedClient DEF Serving
<1>. QED BY <1>13, <1>14, <1>15, <1>16

(* What the thread writes is the report of the run.                         *)
LEMMA ReportIsFromEnd ==
  ASSUME NEW o \in Outputs, NEW code \in Codes, NEW r \in Runs,
         r.out = Lines(o[1]), r.err = Lines(o[2]), r.code = code
  PROVE  Report(o, code) = FromEnd(r)
<1>. DEFINE out == Texts(r.out)  err == Texts(r.err)  end == <<Text("ERREND")>>
            a == <<With("EXECEND", code)>>  b == <<Text("OUTBEGIN")>>
            c == <<Text("OUTEND")>>  d == <<Text("ERRBEGIN")>>
<1>1. out \in Seq(Messages) /\ err \in Seq(Messages)
  BY LinesAreTexts DEF Runs
<1>2. With("EXECEND", code) \in Messages
  BY WithType, KeywordIsHead DEF Keywords, Arguments
<1>3. /\ a \in Seq(Messages) /\ b \in Seq(Messages) /\ c \in Seq(Messages)
      /\ d \in Seq(Messages) /\ end \in Seq(Messages)
  BY <1>2, MarksAreTexts
<1>4. <<With("EXECEND", code), Text("OUTBEGIN")>> = a \o b
  BY <1>2, MarksAreTexts
<1>5. <<Text("OUTEND"), Text("ERRBEGIN")>> = c \o d
  BY MarksAreTexts
<1>. DEFINE Cat(x, y) == x \o y
<1>6. Report(o, code) = Cat(Cat(Cat(Cat(Cat(a, b), out), Cat(c, d)), err), end)
  BY <1>4, <1>5 DEF Report
<1>7. FromEnd(r) = Cat(a, Cat(b, Cat(out, Cat(c, Cat(d, Cat(err, end))))))
  BY DEF FromEnd, FromOutBegin, FromOut, FromErrBegin, FromErr
<1>8. \A x, y, z \in Seq(Messages) :
        Cat(Cat(x, y), z) = Cat(x, Cat(y, z)) /\ Cat(x, y) \in Seq(Messages)
  BY ConcatThree
<1>. HIDE DEF out, err, end, a, b, c, d, Cat
<1>. DEFINE ab == Cat(a, b)  cd == Cat(c, d)  e == Cat(err, end)
            head == Cat(Cat(ab, out), cd)  tail == Cat(c, Cat(d, e))
<1>9. /\ ab \in Seq(Messages) /\ cd \in Seq(Messages) /\ e \in Seq(Messages)
      /\ Cat(d, e) \in Seq(Messages)
  BY <1>1, <1>3, <1>8
<1>10. /\ Cat(ab, out) \in Seq(Messages) /\ head \in Seq(Messages)
       /\ tail \in Seq(Messages) /\ Cat(out, tail) \in Seq(Messages)
  BY <1>1, <1>3, <1>8, <1>9
<1>11. Cat(Cat(head, err), end) = Cat(head, e)
  BY <1>1, <1>3, <1>8, <1>10
<1>12. Cat(head, e) = Cat(Cat(ab, out), Cat(cd, e))
  BY <1>8, <1>9, <1>10
<1>13. Cat(cd, e) = tail
  BY <1>3, <1>8, <1>9
<1>14. Cat(Cat(ab, out), tail) = Cat(ab, Cat(out, tail))
  BY <1>1, <1>8, <1>9, <1>10
<1>15. Cat(ab, Cat(out, tail)) = Cat(a, Cat(b, Cat(out, tail)))
  BY <1>3, <1>8, <1>10
<1>. QED BY <1>6, <1>7, <1>11, <1>12, <1>13, <1>14, <1>15

LEMMA ServerRunConversation ==
  ASSUME TypeOK, TypeOK', NEW s \in Sessions, LoginStage(s), Conversation(s), PlainOutputs,
         NEW o \in Outputs, NEW code \in Codes, ServerRun(s, o, code)
  PROVE  Conversation(s)'
<1>. DEFINE r == [cmd |-> cmd[s], params |-> params[s], out |-> Lines(o[1]),
                  err |-> Lines(o[2]), code |-> code]
<1>1. /\ spc[s] = "run" /\ outq[s] = <<>> /\ Answer(s, Report(o, code), "postauth")
      /\ ran'[s] = r /\ UNCHANGED <<c2s, s2c, client, cmd, params>>
  BY DEF ServerRun, Set, TypeOK
<1>2. SameAtClient(s)
  BY <1>1, ServerKeepsClient
<1>3. ran[s] = None /\ Runnable(s) /\ Complete(s) /\ Len(c2s[s]) <= 1
  BY <1>1 DEF Conversation, ThreadSide
<1>4. r \in Runs
  <2>1. cmd[s] \in Commands /\ params[s] \in Seq(Heads)
    BY <1>1 DEF TypeOK, ThreadTypes
  <2>2. Lines(o[1]) \in Seq(OutputLines) /\ Lines(o[2]) \in Seq(OutputLines)
    BY OutputsAssumption DEF OutputsAssumption
  <2>. QED BY <2>1, <2>2 DEF Runs
<1>5. r # None
  BY <1>4, NoneAssumption DEF NoneAssumption
<1>6. PlainRun(r)
  BY DEF PlainOutputs, PlainRun
<1>7. Report(o, code) = FromEnd(r) /\ FromEnd(r) \in Seq(Messages)
  BY <1>4, ReportIsFromEnd, FromBeginParts
<1>8. r.cmd = cmd[s] /\ r.params = params[s]
  OBVIOUS
<1>. HIDE DEF r
<1>9. Pending(s)' = Pending(s) \o FromEnd(r) /\ spc'[s] = "postauth"
      /\ (Pending(s) = <<>> => Pending(s)' = FromEnd(r))
  BY <1>1, <1>7, PendingAnswer
<1>10. /\ query'[s] = query[s] /\ typed'[s] = typed[s] /\ cuser'[s] = cuser[s]
       /\ cpc'[s] = cpc[s] /\ ps'[s] = ps[s] /\ res'[s] = res[s] /\ c2s'[s] = <<>>
  BY <1>1, <1>2, <1>3 DEF SameAtClient, SameClient, SameLogin, Complete
<1>11. ThreadSide(s)'
  <2>1. RanAsAsked(s)'
    BY <1>1, <1>3, <1>8, <1>10 DEF RanAsAsked, Runnable, Complete, Meant
  <2>2. Len(c2s'[s]) <= 1
    BY <1>1, <1>3
  <2>. QED BY <1>9, <1>10, <2>1, <2>2 DEF ThreadSide
<1>12. CASE cpc[s] \in Gone
  BY <1>10, <1>11, <1>12, ClientSideAt DEF Conversation
<1>13. CASE cpc[s] = "exec"
  <2>1. Running(s, <<>>) /\ query[s] # None
    BY <1>1, <1>13 DEF Conversation, ClientSide, AtExec
  <2>2. Reporting(s, ran[s])'
    <3>1. CASE ps[s] = "toplevel" /\ Pending(s) = <<Text("EXECBEGIN")>> \o <<>>
      <4>1. Pending(s) = <<Text("EXECBEGIN")>>
        BY <3>1
      <4>2. Pending(s)' = FromBegin(r)
        BY <1>9, <4>1 DEF FromBegin
      <4>. QED BY <1>1, <1>10, <2>1, <3>1, <4>2 DEF Reporting, Running
    <3>2. CASE ps[s] = "inexec" /\ Pending(s) = <<>>
      BY <1>1, <1>9, <1>10, <2>1, <3>2 DEF Reporting, Running
    <3>. QED BY <2>1, <3>1, <3>2 DEF Running
  <2>3. AtExec(s)'
    BY <1>1, <1>5, <1>6, <1>9, <1>10, <2>1, <2>2 DEF AtExec
  <2>. QED BY <1>10, <1>11, <1>13, <2>3, ClientSideAt DEF Conversation
<1>14. cpc[s] \notin {"menu", "list_begin", "list", "close_reply"}
  BY <1>1 DEF Conversation, ClientSide, Idle, AtListBegin, AtList, Listing, AtClose
<1>15. cpc[s] \in {"menu", "exec", "list_begin", "list", "close_reply"} \cup Gone
  BY <1>1, ServedClient DEF Serving
<1>. QED BY <1>12, <1>13, <1>14, <1>15

LEMMA ServerRunThrowsConversation ==
  ASSUME TypeOK, NEW s \in Sessions, LoginStage(s), Conversation(s), ServerRunThrows(s)
  PROVE  Conversation(s)'
<1>1. /\ spc[s] = "run" /\ outq[s] = <<>> /\ Answer(s, <<Text("ERROR")>>, "failing")
      /\ UNCHANGED <<c2s, s2c, ran, client, cmd, params>>
  BY DEF ServerRunThrows, Throw
<1>2. SameAtClient(s)
  BY <1>1, ServerKeepsClient
<1>3. <<Text("ERROR")>> \in Seq(Messages)
  BY MarksAreTexts
<1>4. Pending(s)' = Pending(s) \o <<Text("ERROR")>> /\ spc'[s] = "failing"
      /\ (Pending(s) = <<>> => Pending(s)' = <<Text("ERROR")>>)
  BY <1>1, <1>3, PendingAnswer
<1>5. ThreadSide(s)'
  BY <1>1, <1>2, <1>4, ThreadSideKept DEF Conversation, SameAtClient, SameClient, SameLogin
<1>6. CASE cpc[s] \in Gone
  BY <1>2, <1>5, <1>6, ClientSideAt DEF Conversation, SameAtClient, SameClient
<1>7. CASE cpc[s] = "exec"
  <2>1. Running(s, <<>>) /\ query[s] # None
    BY <1>1, <1>7 DEF Conversation, ClientSide, AtExec
  <2>2. \/ ps[s] = "toplevel" /\ Pending(s)' = <<Text("EXECBEGIN")>> \o <<Text("ERROR")>>
        \/ ps[s] = "inexec" /\ Pending(s)' = <<Text("ERROR")>>
    <3>1. <<Text("EXECBEGIN")>> \o <<>> = <<Text("EXECBEGIN")>>
      OBVIOUS
    <3>. QED BY <1>4, <2>1, <3>1 DEF Running
  <2>3. Running(s, <<Text("ERROR")>>)'
    BY <1>1, <1>2, <2>1, <2>2 DEF Running, SameAtClient, Text
  <2>4. (Meant(s).answer = "RUN")'
    <3>1. Runnable(s)
      BY <1>1 DEF Conversation, ThreadSide
    <3>. QED BY <1>2, <3>1 DEF Runnable, Meant, SameAtClient, SameClient, SameLogin
  <2>5. AtExec(s)'
    BY <1>2, <1>4, <2>1, <2>3, <2>4 DEF AtExec, SameAtClient, Text
  <2>. QED BY <1>2, <1>5, <1>7, <2>5, ClientSideAt DEF Conversation, SameAtClient, SameClient
<1>8. cpc[s] \notin {"menu", "list_begin", "list", "close_reply"}
  BY <1>1 DEF Conversation, ClientSide, Idle, AtListBegin, AtList, Listing, AtClose
<1>9. cpc[s] \in {"menu", "exec", "list_begin", "list", "close_reply"} \cup Gone
  BY <1>1, ServedClient DEF Serving
<1>. QED BY <1>6, <1>7, <1>8, <1>9

LEMMA ServerCloseConversation ==
  ASSUME TypeOK, NEW s \in Sessions, LoginStage(s), Conversation(s), ServerClose(s)
  PROVE  Conversation(s)'
<1>1. /\ ServerReads(s, "postauth") /\ Received(s).head # "LIST" /\ ~IsExec(Received(s))
      /\ IF Received(s).head = "CLOSE"
         THEN Answer(s, <<Text("CLOSE")>>, "closing")
         ELSE Answer(s, <<Text("ERROR")>>, "failing")
      /\ UNCHANGED <<s2c, ran, client>>
  BY DEF ServerClose, Throw
<1>2. /\ spc[s] = "postauth" /\ outq[s] = <<>> /\ c2s[s] = <<Received(s)>>
      /\ c2s'[s] = <<>> /\ c2s[s] # <<>> /\ SameAtClient(s)
  BY <1>1, ReadsTheLast, ServerKeepsClient, SingleText DEF Conversation
<1>3. /\ <<Text("CLOSE")>> \in Seq(Messages) /\ <<Text("ERROR")>> \in Seq(Messages)
  BY MarksAreTexts
<1>4. /\ spc'[s] \in {"closing", "failing"}
      /\ Received(s).head = "CLOSE" =>
           /\ spc'[s] = "closing"
           /\ Pending(s) = <<>> => Pending(s)' = <<Text("CLOSE")>>
  BY <1>1, <1>2, <1>3, PendingAnswer
<1>5. ThreadSide(s)'
  BY <1>1, <1>2, <1>4, ThreadSideKept DEF Conversation, SameAtClient, SameClient, SameLogin
<1>6. CASE cpc[s] \in Gone
  BY <1>2, <1>5, <1>6, ClientSideAt DEF Conversation, SameAtClient, SameClient
<1>7. CASE cpc[s] = "close_reply"
  <2>1. c2s[s] = <<Text("CLOSE")>> /\ Pending(s) = <<>>
    BY <1>2, <1>7 DEF Conversation, ClientSide, AtClose
  <2>2. Received(s).head = "CLOSE"
    BY <2>1, SingleText DEF Received, Text
  <2>3. AtClose(s)'
    BY <1>2, <1>4, <2>1, <2>2 DEF AtClose
  <2>. QED BY <1>2, <1>5, <1>7, <2>3, ClientSideAt DEF Conversation, SameAtClient, SameClient
<1>8. CASE cpc[s] = "exec"
  <2>1. query[s] \in Queries /\ c2s[s] = <<With("EXEC", query[s])>>
    BY <1>2, <1>8 DEF Conversation, ClientSide, AtExec, Running, TypeOK, ClientTypes
  <2>2. Received(s) = With("EXEC", query[s])
    BY <2>1, SingleText DEF Received
  <2>. QED BY <1>1, <2>1, <2>2 DEF IsExec, With
<1>9. Received(s) # Text("LIST")
  BY <1>1 DEF Text
<1>10. cpc[s] \notin {"menu", "list_begin", "list"}
  BY <1>2, <1>9, SingleText
     DEF Conversation, ClientSide, Idle, AtListBegin, AtList, Listing
<1>11. cpc[s] \in {"menu", "exec", "list_begin", "list", "close_reply"} \cup Gone
  BY <1>2, ServedClient DEF Serving
<1>. QED BY <1>6, <1>7, <1>8, <1>10, <1>11

(* Writing moves a text from outq to s2c.                                   *)
LEMMA ServerWriteConversation ==
  ASSUME TypeOK, NEW s \in Sessions, Conversation(s), ServerWrite(s)
  PROVE  Conversation(s)'
<1>1. /\ outq[s] # <<>> /\ s2c'[s] = Append(s2c[s], Head(outq[s]))
      /\ outq'[s] = Tail(outq[s])
      /\ UNCHANGED <<c2s, ran, client, spc, suser, cmd, params>>
  BY DEF ServerWrite, Put, Set, TypeOK, ThreadTypes
<1>2. SameAtClient(s)
  BY <1>1, ServerKeepsClient
<1>3. Pending(s)' = Pending(s)
  BY <1>1, Queues, WriteKeepsOrder DEF Pending
<1>4. SameClient(s) /\ SameRequest(s) /\ SameExecution(s)
  BY <1>1, <1>2 DEF SameAtClient, SameRequest, SameExecution
<1>. QED BY <1>1, <1>3, <1>4, SamePendingConversation

(* The failures of the thread, and its end.                                 *)
LEMMA ServerThrowsConversation ==
  ASSUME TypeOK, NEW s \in Sessions, Conversation(s),
         ServerWriteThrows(s) \/ ServerReadThrows(s) \/ ServerTlsThrows(s)
  PROVE  Conversation(s)'
<1>1. /\ cpc[s] \in Gone /\ UNCHANGED <<c2s, ran, client, cmd, params>>
      /\ spc'[s] = "failing" \/ spc'[s] = spc[s]
  BY DEF ServerWriteThrows, ServerReadThrows, ServerTlsThrows, Throw, Answer, Set, TypeOK,
     ThreadTypes, thread
<1>2. SameAtClient(s)
  BY <1>1, ServerKeepsClient
<1>3. ThreadSide(s)'
  BY <1>1, <1>2, ThreadSideKept DEF Conversation, SameAtClient, SameClient, SameLogin
<1>. QED BY <1>1, <1>2, <1>3, ClientSideAt DEF Conversation, SameAtClient, SameClient

LEMMA ThreadExitConversation ==
  ASSUME TypeOK, NEW s \in Sessions, LoginStage(s), Conversation(s), ThreadExit(s)
  PROVE  Conversation(s)'
<1>1. /\ spc[s] \in {"closing", "failing"} /\ spc'[s] = "ended"
      /\ UNCHANGED <<c2s, s2c, ran, client, outq, cmd, params>>
  BY DEF ThreadExit, Set, TypeOK, ThreadTypes
<1>2. SameAtClient(s) /\ Pending(s)' = Pending(s)
  BY <1>1, ServerKeepsClient DEF Pending
<1>3. ThreadSide(s)'
  BY <1>1, <1>2, ThreadSideKept DEF Conversation, SameAtClient, SameClient, SameLogin
<1>4. CASE cpc[s] \in BeforeMenu \cup Gone
  BY <1>1, <1>2, <1>3, <1>4, ClientSideAt
     DEF Conversation, ClientSide, SameAtClient, SameClient, BeforeMenu
<1>5. CASE cpc[s] = "close_reply"
  <2>1. AtClose(s)'
    BY <1>1, <1>2, <1>5 DEF Conversation, ClientSide, AtClose
  <2>. QED BY <1>2, <1>3, <1>5, <2>1, ClientSideAt DEF Conversation, SameAtClient, SameClient
<1>6. CASE cpc[s] = "exec"
  <2>1. /\ spc[s] = "failing" /\ Running(s, <<Text("ERROR")>>) /\ query[s] # None
        /\ Meant(s).answer = "RUN"
    BY <1>1, <1>6 DEF Conversation, ClientSide, AtExec
  <2>2. Running(s, <<Text("ERROR")>>)'
    BY <1>1, <1>2, <2>1 DEF Running, SameAtClient, Text
  <2>3. AtExec(s)'
    BY <1>1, <1>2, <2>1, <2>2
       DEF AtExec, SameAtClient, SameClient, SameLogin, Meant, Text
  <2>. QED BY <1>2, <1>3, <1>6, <2>3, ClientSideAt DEF Conversation, SameAtClient, SameClient
<1>7. cpc[s] \notin {"menu", "list_begin", "list"}
  BY <1>1 DEF Conversation, ClientSide, Idle, AtListBegin, AtList, Listing
<1>8. cpc[s] \in ClientPlaces
  BY DEF TypeOK, ClientTypes
<1>. QED BY <1>4, <1>5, <1>6, <1>7, <1>8 DEF ClientPlaces, Reading, BeforeMenu, Gone
-----------------------------------------------------------------------------
(***************************************************************************)
(* The theorems.                                                           *)
(***************************************************************************)
LEMMA ConversationInit == Init => ConversationInv
<1>. SUFFICES ASSUME Init, NEW s \in Sessions PROVE Conversation(s)
  BY LoginInit DEF ConversationInv
<1>1. ThreadSide(s)
  <2>1. Len(<<>>) <= 1
    OBVIOUS
  <2>. QED BY <2>1 DEF Init, ThreadSide
<1>2. ClientSide(s)
  BY DEF Init, ClientSide
<1>. QED BY <1>1, <1>2 DEF Conversation

LEMMA ConversationNext ==
  ASSUME Plain PROVE ConversationInv /\ [Next]_vars => ConversationInv'
<1>. SUFFICES ASSUME ConversationInv, [Next]_vars, NEW t \in Sessions
              PROVE  Conversation(t)'
  BY LoginNext DEF ConversationInv
<1>1. /\ TypeOK /\ LoginInv /\ LoginInv' /\ TypeOK'
      /\ \A s \in Sessions : LoginStage(s) /\ Conversation(s)
  BY LoginNext DEF ConversationInv, LoginInv
<1>2. ASSUME NEW s \in Sessions, t # s,
             ClientStep(s) \/ UserStep(s) \/ ServerStep(s) \/ Lost(s)
      PROVE  Conversation(t)'
  BY <1>1, <1>2, OthersKept, KeptConversation
<1>3. ASSUME ClientStep(t) PROVE Conversation(t)'
  <2>1. CASE TlsHandshake(t) \/ SendHello(t) \/ RecvHello(t)
    BY <1>1, <2>1, ConnectConversation, SendHelloConversation, RecvHelloConversation
  <2>2. CASE RecvUserReply(t) \/ RecvPassReply(t)
    BY <1>1, <2>2, RecvUserReplyConversation, RecvPassReplyConversation
  <2>3. CASE RecvListBegin(t) \/ RecvListLine(t) \/ RecvClose(t)
    BY <1>1, <2>3, RecvListBeginConversation, RecvListLineConversation,
       RecvCloseConversation
  <2>4. CASE RecvMark(t) \/ RecvLine(t) \/ \E p \in Params : RecvParam(t, p)
    BY <1>1, <2>4, RecvMarkConversation, RecvLineConversation, RecvParamConversation
  <2>5. CASE RecvNotFound(t)
    BY <1>1, <2>5, RecvNotFoundConversation, ClientFailsConversation
  <2>6. CASE TlsReject(t)
    BY <1>1, <2>6, ClientFailsConversation
  <2>7. CASE RecvUnexpected(t)
    BY <1>1, <2>7, ClientFailsConversation
  <2>8. CASE ClientReadThrows(t)
    BY <1>1, <2>8, ClientFailsConversation
  <2>. QED BY <1>3, <2>1, <2>2, <2>3, <2>4, <2>5, <2>6, <2>7, <2>8 DEF ClientStep
<1>4. ASSUME UserStep(t) PROVE Conversation(t)'
  BY <1>1, <1>4, ConnectConversation, LoginConversation, ChooseConversation DEF UserStep
<1>5. ASSUME ServerStep(t) PROVE Conversation(t)'
  BY <1>1, <1>5, ServerLoginConversation, ServerListConversation,
     ServerListingConversation, ServerExecConversation, ServerParamConversation,
     ServerRunConversation, ServerRunThrowsConversation, ServerCloseConversation,
     ServerWriteConversation, ServerThrowsConversation, ThreadExitConversation
     DEF ServerStep, Plain
<1>6. ASSUME Lost(t) PROVE Conversation(t)'
  BY <1>1, <1>6, ClientFailsConversation
<1>7. CASE UNCHANGED vars
  <2>1. Kept(t)
    BY <1>7 DEF vars, client, thread, login, request, execution, Kept, Same, SameClient,
       SameLogin, SameThread, SameRequest, SameExecution
  <2>. QED BY <1>1, <2>1, KeptConversation
<1>8. ASSUME NEW s \in Sessions, ClientStep(s) \/ UserStep(s) \/ ServerStep(s) \/ Lost(s)
      PROVE  Conversation(t)'
  BY <1>2, <1>3, <1>4, <1>5, <1>6, <1>8
<1>. QED BY <1>7, <1>8 DEF Next

(* Whatever is in flight between the two ends, and at whatever places they  *)
(* are: they agree on how far the conversation has got.                     *)
THEOREM ConversationInductive == ASSUME Plain PROVE Spec => []ConversationInv
<1>1. ConversationInv /\ [Next]_vars => ConversationInv'
  BY ConversationNext
<1>. QED BY <1>1, ConversationInit, PTL DEF Spec

(* handleExecute runs a command only for a request of the session's client  *)
(* for it, and with the parameters that were typed for this request, all of *)
(* them and in order.                                                       *)
THEOREM OnlyWhatWasAsked == ASSUME Plain PROVE Spec => []RunsWhatWasAsked
<1>1. ConversationInv => RunsWhatWasAsked
  BY DEF ConversationInv, Conversation, ThreadSide, RanAsAsked, Meant, RunsWhatWasAsked
<1>. QED BY <1>1, ConversationInductive, PTL

(* When the client shows its menu, nothing of the last answer is left on    *)
(* its way, and the thread waits for a request.                             *)
THEOREM MenuIsSynchronised == ASSUME Plain PROVE Spec => []Synchronised
<1>1. ASSUME ConversationInv, NEW s \in Sessions, cpc[s] = "menu"
      PROVE  c2s[s] = <<>> /\ s2c[s] = <<>> /\ outq[s] = <<>> /\ spc[s] = "postauth"
  <2>1. Idle(s)
    BY <1>1 DEF ConversationInv, Conversation, ClientSide
  <2>2. s2c[s] \in Seq(Messages) /\ outq[s] \in Seq(Messages) /\ s2c[s] \o outq[s] = <<>>
    BY <1>1, <2>1, Queues DEF ConversationInv, LoginInv, Idle, Pending
  <2>3. s2c[s] = <<>> /\ outq[s] = <<>>
    BY <2>2, ConcatEmptySeq
  <2>. QED BY <2>1, <2>3 DEF Idle
<1>2. ConversationInv => Synchronised
  BY <1>1 DEF Synchronised
<1>. QED BY <1>2, ConversationInductive, PTL

(* What Client::execute returns is the output and the exit code of the run  *)
(* that the request led to; without a run there was no such command.        *)
THEOREM ResultOfTheRun == ASSUME Plain PROVE Spec => []ResultFaithful
<1>1. ConversationInv => ResultFaithful
  BY DEF ConversationInv, Conversation, ClientSide, Answered, Meant, ResultFaithful
<1>. QED BY <1>1, ConversationInductive, PTL

(* While both ends read, something is on its way to the client.             *)
LEMMA PendingWhileWaiting ==
  ASSUME ConversationInv, "" \notin Params, NEW s \in Sessions, ServerWaits(s),
         cpc[s] \in Reading
  PROVE  Pending(s) # <<>>
<1>1. /\ spc[s] \in {"hello", "user", "pass", "postauth", "param"}
      /\ outq[s] = <<>> /\ c2s[s] = <<>> /\ TypeOK /\ LoginStage(s) /\ ClientSide(s)
  BY DEF ServerWaits, ConversationInv, LoginInv, Conversation
<1>2. s2c[s] \in Seq(Messages) /\ Pending(s) = s2c[s]
  BY <1>1, Queues, ConcatEmptySeq DEF Pending
<1>3. CASE cpc[s] \in {"hello_reply", "user_reply", "pass_reply"}
  BY <1>1, <1>2, <1>3, SingleText
     DEF LoginStage, InHelloReply, InUserReply, InPassReply, Refused, Coming
<1>4. CASE cpc[s] \in {"list_begin", "list", "close_reply"}
  BY <1>1, <1>4, SingleText
     DEF ClientSide, AtListBegin, AtList, Listing, ListComing, AtClose
<1>5. CASE cpc[s] = "exec"
  <2>1. ASSUME ran[s] # None, Reporting(s, ran[s]) PROVE Pending(s) # <<>>
    <3>1. ran[s] \in Runs /\ res[s] \in Results
      BY <1>1, <2>1 DEF TypeOK, ClientTypes
    <3>. QED BY <2>1, <3>1, ReportIsPending
  <2>. QED BY <1>1, <1>5, <2>1, SingleText DEF ClientSide, AtExec
<1>. QED BY <1>3, <1>4, <1>5 DEF Reading

(* The two ends never wait for each other, as long as no empty parameter is *)
(* typed: the client sends nothing for it, and the thread goes on waiting.  *)
THEOREM NeverMutualWait ==
  ASSUME Plain, "" \notin Params PROVE Spec => []NoMutualWait
<1>1. ASSUME ConversationInv, NEW s \in Sessions, ServerWaits(s), cpc[s] \in Reading
      PROVE  s2c[s] # <<>>
  <2>1. Pending(s) # <<>> /\ outq[s] = <<>>
    BY <1>1, PendingWhileWaiting DEF ServerWaits
  <2>2. s2c[s] \in Seq(Messages)
    BY <1>1 DEF ConversationInv, LoginInv, TypeOK
  <2>. QED BY <2>1, <2>2, ConcatEmptySeq DEF Pending
<1>2. ConversationInv => NoMutualWait
  BY <1>1 DEF NoMutualWait
<1>. QED BY <1>2, ConversationInductive, PTL

-----------------------------------------------------------------------------
(***************************************************************************)
(* The operators of the two specifications are the same.                   *)
(***************************************************************************)
LEMMA SameResolve == \A path, u : Service!Resolve(path, u) = Resolve(path, u)
<1>1. \A c, u : Service!CanExecute(c, u) <=> CanExecute(c, u)
  BY DEF Service!CanExecute, CanExecute
<1>2. \A objects, name : Service!First(objects, name) = First(objects, name)
  BY DEF Service!First, First, Service!Named, Named
<1>3. \A path : Service!Ways(path) = Ways(path)
  BY <1>2 DEF Service!Ways, Ways
<1>4. \A path : Service!Target(path) = Target(path)
  BY <1>2, <1>3 DEF Service!Target, Target
<1> QED
  BY <1>1, <1>2, <1>4 DEF Service!Resolve, Resolve

LEMMA SameOutput == \A output : Service!Printed(output) = Lines(output)
BY DEF Service!Printed, Service!NotBlank, Lines, NotBlank

-----------------------------------------------------------------------------
(***************************************************************************)
(* The mapping, and what a step of one session does to it.                 *)
(***************************************************************************)
Who(s) == IF Known(s) THEN cuser[s] ELSE None
Result(s) == IF cpc[s] = "menu" THEN res[s] ELSE NoResult

Phases == [s \in Sessions |-> Phase(s)]
Whose == [s \in Sessions |-> Who(s)]
Answers == [s \in Sessions |-> Result(s)]

(* What the mapping takes from a session.                                   *)
SameView(s) ==
  /\ cpc'[s] = cpc[s] /\ cuser'[s] = cuser[s] /\ requests'[s] = requests[s]
  /\ query'[s] = query[s] /\ typed'[s] = typed[s] /\ ran'[s] = ran[s]
  /\ res'[s] = res[s]

SameOthers(s) == \A t \in Sessions \ {s} : SameView(t)

Step(s) == ClientStep(s) \/ UserStep(s) \/ ServerStep(s) \/ Lost(s)

LEMMA StepOfOne ==
  ASSUME TypeOK, NEW s \in Sessions, Step(s)
  PROVE  SameOthers(s)
<1>1. ASSUME NEW t \in Sessions, t # s
      PROVE  requests'[t] = requests[t]
  <2>1. CASE ClientStep(s)
    BY <2>1 DEF ClientStep, TlsHandshake, TlsReject, SendHello, RecvHello, RecvUserReply,
       RecvPassReply, RecvListBegin, RecvListLine, RecvClose, RecvMark, RecvLine,
       RecvParam, RecvNotFound, RecvUnexpected, ClientReadThrows, request
  <2>2. CASE UserStep(s)
    <3>1. UNCHANGED requests \/ requests' = [requests EXCEPT ![s] = requests[s] + 1]
      BY <2>2 DEF UserStep, Connect, Login, List, Quit, Exec, Set, request
    <3> QED
      BY <1>1, <3>1 DEF TypeOK, ClientTypes
  <2>3. CASE ServerStep(s)
    BY <2>3 DEF ServerStep, ServerHello, ServerUser, ServerPass, ServerList, ServerListLine,
       ServerListEnd, ServerExec, ServerParam, ServerClose, ServerRun, ServerRunThrows,
       ServerWrite, ServerWriteThrows, ServerReadThrows, ServerTlsThrows, ThreadExit,
       client, request
  <2>4. CASE Lost(s)
    BY <2>4 DEF Lost, request
  <2> QED
    BY <2>1, <2>2, <2>3, <2>4 DEF Step
<1>2. ASSUME NEW t \in Sessions, t # s
      PROVE  Kept(t)
  BY <1>2, OthersKept DEF Step
<1> QED
  BY <1>1, <1>2 DEF SameOthers, SameView, Kept, Same, SameClient, SameLogin, SameRequest

LEMMA MapsOfStep ==
  ASSUME TypeOK, TypeOK', NEW s \in Sessions, SameOthers(s)
  PROVE  /\ Phases' = [Phases EXCEPT ![s] = Phase(s)']
         /\ Whose' = [Whose EXCEPT ![s] = Who(s)']
         /\ Answers' = [Answers EXCEPT ![s] = Result(s)']
         /\ query' = [query EXCEPT ![s] = query'[s]]
         /\ typed' = [typed EXCEPT ![s] = typed'[s]]
         /\ ran' = [ran EXCEPT ![s] = ran'[s]]
         /\ Phases[s] = Phase(s) /\ Whose[s] = Who(s) /\ Answers[s] = Result(s)
<1>1. \A t \in Sessions \ {s} :
        Phase(t)' = Phase(t) /\ Who(t)' = Who(t) /\ Result(t)' = Result(t)
  BY DEF SameOthers, SameView, Phase, Who, Result, Known
<1>2. Phases' = [Phases EXCEPT ![s] = Phase(s)']
  BY <1>1 DEF Phases
<1>3. Whose' = [Whose EXCEPT ![s] = Who(s)']
  BY <1>1 DEF Whose
<1>4. Answers' = [Answers EXCEPT ![s] = Result(s)']
  BY <1>1 DEF Answers
<1>5. /\ query' = [query EXCEPT ![s] = query'[s]]
      /\ typed' = [typed EXCEPT ![s] = typed'[s]]
      /\ ran' = [ran EXCEPT ![s] = ran'[s]]
  BY DEF SameOthers, SameView, TypeOK, ClientTypes
<1> QED
  BY <1>2, <1>3, <1>4, <1>5 DEF Phases, Whose, Answers

(* Nothing of it is seen.                                                   *)
Unseen(s) ==
  /\ Phase(s)' = Phase(s) /\ Who(s)' = Who(s) /\ Result(s)' = Result(s)
  /\ query'[s] = query[s] /\ typed'[s] = typed[s] /\ ran'[s] = ran[s]

LEMMA UnseenStep ==
  ASSUME TypeOK, TypeOK', NEW s \in Sessions, SameOthers(s), Unseen(s)
  PROVE  UNCHANGED Service!vars
<1>1. Phases' = Phases /\ Whose' = Whose /\ Answers' = Answers
  BY MapsOfStep DEF Unseen, Phases, Whose, Answers
<1>2. query' = query /\ typed' = typed /\ ran' = ran
  <2>1. /\ query' = [query EXCEPT ![s] = query[s]]
        /\ typed' = [typed EXCEPT ![s] = typed[s]]
        /\ ran' = [ran EXCEPT ![s] = ran[s]]
    BY MapsOfStep DEF Unseen
  <2> QED
    BY <2>1 DEF TypeOK, ClientTypes
<1> QED
  BY <1>1, <1>2 DEF Service!vars, Phases, Whose, Answers, Who, Result

-----------------------------------------------------------------------------
(***************************************************************************)
(* The inductive invariant: that of the conversation, and what there is of *)
(* results and requests at each place of the client.                       *)
(***************************************************************************)
Counted(s) ==
  /\ cpc[s] \in BeforeMenu => requests[s] = 0 /\ res[s] = NoResult
  /\ cpc[s] \in {"list_begin", "list"} => res[s] = NoResult
  /\ query[s] # None => requests[s] > 0

ServiceInv == ConversationInv /\ \A s \in Sessions : Counted(s)

LEMMA CountedMoves ==
  ASSUME TypeOK, NEW s \in Sessions, Counted(s),
         \/ TlsHandshake(s) \/ TlsReject(s) \/ SendHello(s) \/ RecvHello(s)
         \/ RecvUserReply(s) \/ RecvPassReply(s) \/ RecvListBegin(s)
         \/ RecvListLine(s) \/ RecvClose(s) \/ RecvNotFound(s) \/ RecvUnexpected(s)
         \/ ClientReadThrows(s) \/ Lost(s) \/ Connect(s)
         \/ \E u \in Logins, p \in Passwords : Login(s, u, p)
  PROVE  Counted(s)'
<1>1. UNCHANGED <<query, requests, res>>
  BY DEF TlsHandshake, TlsReject, SendHello, RecvHello, RecvUserReply, RecvPassReply,
     RecvListBegin, RecvListLine, RecvClose, RecvNotFound, RecvUnexpected,
     ClientReadThrows, Lost, Connect, Login, request, execution
<1>2. /\ cpc'[s] \in BeforeMenu => cpc[s] \in BeforeMenu
      /\ cpc'[s] \in {"list_begin", "list"} => cpc[s] \in {"list_begin", "list"}
  <2>1. CASE \/ TlsHandshake(s) \/ TlsReject(s) \/ SendHello(s) \/ RecvHello(s)
             \/ Connect(s) \/ \E u \in Logins, p \in Passwords : Login(s, u, p)
    BY <2>1 DEF TypeOK, ClientTypes, Set, BeforeMenu, TlsHandshake, TlsReject, SendHello,
       RecvHello, ClientReads, Connect, Login
  <2>2. CASE RecvUserReply(s) \/ RecvPassReply(s)
    BY <2>2 DEF TypeOK, ClientTypes, Set, BeforeMenu, RecvUserReply, RecvPassReply,
       ClientReads
  <2>3. CASE RecvListBegin(s) \/ RecvListLine(s) \/ RecvClose(s)
    BY <2>3 DEF TypeOK, ClientTypes, Set, BeforeMenu, RecvListBegin, RecvListLine,
       RecvClose, ClientReads
  <2>4. CASE RecvNotFound(s) \/ RecvUnexpected(s) \/ ClientReadThrows(s) \/ Lost(s)
    BY <2>4 DEF TypeOK, ClientTypes, Set, BeforeMenu, RecvNotFound, RecvUnexpected,
       ClientReadThrows, Lost
  <2> QED
    BY <2>1, <2>2, <2>3, <2>4
<1> QED
  BY <1>1, <1>2 DEF Counted

LEMMA CountedExecution ==
  ASSUME TypeOK, NEW s \in Sessions, Counted(s),
         RecvMark(s) \/ RecvLine(s) \/ \E p \in Params : RecvParam(s, p)
  PROVE  Counted(s)'
<1>1. cpc'[s] \in {"exec", "menu"} /\ UNCHANGED <<query, requests>>
  BY DEF TypeOK, ClientTypes, RecvMark, RecvLine, RecvParam, ClientReads, Set, request
<1> QED
  BY <1>1 DEF Counted, BeforeMenu

LEMMA CountedRequest ==
  ASSUME TypeOK, NEW s \in Sessions, Counted(s),
         List(s) \/ Quit(s) \/ \E q \in Queries : Exec(s, q)
  PROVE  Counted(s)'
<1>1. /\ cpc'[s] \in {"list_begin", "exec", "close_reply"} /\ res'[s] = NoResult
      /\ query'[s] = None \/ requests'[s] = requests[s] + 1
      /\ requests[s] \in Nat
  BY SessionAssumption
     DEF SessionAssumption, TypeOK, ClientTypes, List, Quit, Exec, Choose, Set
<1> QED
  BY <1>1 DEF Counted, BeforeMenu

LEMMA CountedUnseen ==
  ASSUME NEW s \in Sessions, Counted(s), cpc'[s] = cpc[s], query'[s] = query[s],
         requests'[s] = requests[s], res'[s] = res[s]
  PROVE  Counted(s)'
BY DEF Counted

LEMMA ServerLeavesClient ==
  ASSUME NEW s \in Sessions, ServerStep(s)
  PROVE  UNCHANGED client
BY DEF ServerStep, ServerHello, ServerUser, ServerPass, ServerList, ServerListLine,
   ServerListEnd, ServerExec, ServerParam, ServerClose, ServerRun, ServerRunThrows,
   ServerWrite, ServerWriteThrows, ServerReadThrows, ServerTlsThrows, ThreadExit

LEMMA CountedNext ==
  ASSUME TypeOK, NEW s \in Sessions, Step(s), \A t \in Sessions : Counted(t)
  PROVE  \A t \in Sessions : Counted(t)'
<1>1. Counted(s)'
  <2>1. CASE ClientStep(s)
    BY <2>1, CountedMoves, CountedExecution DEF ClientStep
  <2>2. CASE UserStep(s)
    BY <2>2, CountedMoves, CountedRequest DEF UserStep
  <2>3. CASE ServerStep(s)
    BY <2>3, ServerLeavesClient, CountedUnseen DEF client, request, execution
  <2>4. CASE Lost(s)
    BY <2>4, CountedMoves
  <2> QED
    BY <2>1, <2>2, <2>3, <2>4 DEF Step
<1>2. \A t \in Sessions \ {s} : Counted(t)'
  BY StepOfOne, CountedUnseen DEF SameOthers, SameView
<1> QED
  BY <1>1, <1>2

(* Results and requests are where they belong.                              *)
THEOREM ServiceInductive == ASSUME Plain PROVE Spec => []ServiceInv
<1>1. Init => ServiceInv
  BY ConversationInit DEF ServiceInv, Counted, Init
<1>2. ServiceInv /\ [Next]_vars => ServiceInv'
  <2> SUFFICES ASSUME ServiceInv, [Next]_vars PROVE ServiceInv'
    OBVIOUS
  <2>1. ConversationInv'
    BY ConversationNext DEF ServiceInv
  <2>2. TypeOK
    BY DEF ServiceInv, ConversationInv, LoginInv
  <2>3. CASE UNCHANGED vars
    <3>1. \A t \in Sessions : Counted(t)'
      BY <2>3, CountedUnseen DEF ServiceInv, vars, client, request, execution
    <3> QED
      BY <2>1, <3>1 DEF ServiceInv
  <2>4. CASE \E s \in Sessions : Step(s)
    <3>1. \A t \in Sessions : Counted(t)'
      BY <2>2, <2>4, CountedNext DEF ServiceInv
    <3> QED
      BY <2>1, <3>1 DEF ServiceInv
  <2> QED
    BY <2>3, <2>4 DEF Next, Step
<1> QED
  BY <1>1, <1>2, PTL DEF Spec

-----------------------------------------------------------------------------
(***************************************************************************)
(* Each step of a session is one of the service's, or nothing of it is     *)
(* seen.                                                                   *)
(***************************************************************************)
LEMMA PhaseFacts ==
  ASSUME NEW s \in Sessions
  PROVE  /\ Phase(s) = "ready" <=> cpc[s] = "menu"
         /\ Phase(s) = "busy" <=> cpc[s] \in {"exec", "list_begin", "list"}
         /\ Phase(s) = "gone" <=> cpc[s] \in Gone \cup {"close_reply"}
         /\ cpc[s] \in BeforeMenu => Phase(s) = "guest"
BY DEF Phase, Gone, BeforeMenu

(* The client of s stops, for whatever reason.                              *)
SameSession(s) ==
  /\ cuser'[s] = cuser[s] /\ requests'[s] = requests[s]
  /\ query'[s] = query[s] /\ typed'[s] = typed[s] /\ ran'[s] = ran[s]

LEMMA StopLeaves ==
  ASSUME TypeOK, TypeOK', NEW s \in Sessions, SameOthers(s), cpc'[s] \in Gone,
         SameSession(s)
  PROVE  Service!Leave(s) \/ UNCHANGED Service!vars
<1>1. Phase(s)' = "gone" /\ Result(s)' = NoResult
  BY DEF Phase, Result, Gone
<1>2. CASE Phase(s) = "gone"
  <2>1. Who(s)' = Who(s)
    BY <1>1, <1>2 DEF Who, Known, SameSession
  <2>2. Result(s) = NoResult
    BY <1>2, PhaseFacts DEF Result
  <2> QED
    BY <1>1, <1>2, <2>1, <2>2, UnseenStep DEF Unseen, SameSession
<1>3. CASE Phase(s) # "gone"
  <2>1. Phases[s] # "gone" /\ Phases' = [Phases EXCEPT ![s] = "gone"]
        /\ Answers' = [Answers EXCEPT ![s] = NoResult]
    BY <1>1, <1>3, MapsOfStep
  <2>2. Who(s)' \in {Who(s), None}
    BY <1>1 DEF Who, Known, SameSession
  <2>3. Whose' \in {Whose, [Whose EXCEPT ![s] = None]}
    <3>1. Whose' = [Whose EXCEPT ![s] = Who(s)'] /\ Whose[s] = Who(s)
      BY MapsOfStep
    <3>2. [Whose EXCEPT ![s] = Whose[s]] = Whose
      BY DEF Whose
    <3> QED
      BY <2>2, <3>1, <3>2
  <2>4. UNCHANGED <<query, typed, ran>>
    BY DEF SameSession, SameOthers, SameView, TypeOK, ClientTypes
  <2> QED
    BY <2>1, <2>3, <2>4
       DEF Service!Leave, Phases, Whose, Answers, Who, Result, Service!NoResult, NoResult
<1> QED
  BY <1>2, <1>3

(* No answer but AUTHORIZED leads to the menu.                              *)
LEMMA LoginIsSeen ==
  ASSUME TypeOK, TypeOK', NEW s \in Sessions, SameOthers(s), LoginStage(s), LoginStage(s)',
         Counted(s), RecvUserReply(s) \/ RecvPassReply(s)
  PROVE  Service!Next \/ UNCHANGED Service!vars
<1>1. /\ cpc[s] \in {"user_reply", "pass_reply"} /\ SameSession(s) /\ res'[s] = res[s]
      /\ cpc'[s] \in {"pass_reply", "menu", "failed"}
  BY DEF RecvUserReply, RecvPassReply, ClientReads, Set, TypeOK, ClientTypes, SameSession,
     login, request, execution
<1>2. CASE cpc'[s] = "failed"
  BY <1>1, <1>2, StopLeaves DEF Gone, Service!Next
<1>3. requests[s] = 0 /\ res[s] = NoResult
  BY <1>1 DEF Counted, BeforeMenu
<1>4. Phase(s) = "guest" /\ Who(s) = None /\ Result(s) = NoResult
  BY <1>1, <1>3, PhaseFacts DEF BeforeMenu, Who, Known, Result
<1>5. CASE cpc'[s] = "pass_reply"
  <2>1. Phase(s)' = "guest" /\ Who(s)' = None /\ Result(s)' = NoResult
    BY <1>1, <1>3, <1>5 DEF Phase, Gone, Who, Known, Result, SameSession
  <2> QED
    BY <1>1, <1>4, <2>1, UnseenStep DEF Unseen, SameSession
<1>6. CASE cpc'[s] = "menu"
  <2>1. PICK u \in Users : cuser'[s] = u
    BY <1>6 DEF LoginStage, InSession, LoggedIn, Proved, SameUser
  <2>2. /\ Phase(s)' = "ready" /\ Result(s)' = NoResult /\ Who(s)' = u
    <3>1. Phase(s)' = "ready"
      BY <1>6 DEF Phase, Gone
    <3> QED
      BY <1>1, <1>3, <2>1, <3>1 DEF Result, Who, Known
  <2>3. /\ Phases[s] = "guest" /\ Phases' = [Phases EXCEPT ![s] = "ready"]
        /\ Whose' = [Whose EXCEPT ![s] = u]
    BY <1>4, <2>2, MapsOfStep
  <2>4. Answers' = Answers
    <3>1. Answers' = [Answers EXCEPT ![s] = Answers[s]]
      BY <1>4, <2>2, MapsOfStep
    <3> QED
      BY <3>1 DEF Answers
  <2>5. UNCHANGED <<query, typed, ran>>
    BY <1>1 DEF SameSession, SameOthers, SameView, TypeOK, ClientTypes
  <2>6. Service!LogIn(s, u)
    BY <2>3, <2>4, <2>5 DEF Service!LogIn, Phases, Whose, Answers, Who, Result
  <2> QED
    BY <2>1, <2>6 DEF Service!Next
<1> QED
  BY <1>1, <1>2, <1>5, <1>6

(* What comes before, and what the lines of a listing do.                   *)
LEMMA ConversationIsUnseen ==
  ASSUME TypeOK, TypeOK', NEW s \in Sessions, SameOthers(s), Counted(s), Counted(s)',
         \/ Connect(s) \/ TlsHandshake(s) \/ TlsReject(s) \/ SendHello(s) \/ RecvHello(s)
         \/ \E u \in Logins, p \in Passwords : Login(s, u, p)
  PROVE  Service!Next \/ UNCHANGED Service!vars
<1>1. /\ cpc[s] \in BeforeMenu
      /\ query'[s] = query[s] /\ typed'[s] = typed[s] /\ ran'[s] = ran[s]
      /\ requests'[s] = requests[s] /\ res'[s] = res[s]
      /\ cpc'[s] \in BeforeMenu \/ (cpc'[s] = "failed" /\ cuser'[s] = cuser[s])
  <2>1. CASE \E u \in Logins, p \in Passwords : Login(s, u, p)
    <3>1. PICK u \in Logins, p \in Passwords : Login(s, u, p)
      BY <2>1
    <3>2. cpc[s] = "login" /\ cpc'[s] = "user_reply"
      BY <3>1 DEF Login, Set, TypeOK, ClientTypes
    <3>3. UNCHANGED <<query, typed, requests, ran, res>>
      BY <3>1 DEF Login, request, execution
    <3> QED
      BY <3>2, <3>3 DEF BeforeMenu
  <2>2. CASE Connect(s) \/ TlsHandshake(s) \/ TlsReject(s)
    BY <2>2 DEF Connect, TlsHandshake, TlsReject, Set, TypeOK, ClientTypes, BeforeMenu,
       login, request, execution
  <2>3. CASE SendHello(s) \/ RecvHello(s)
    BY <2>3 DEF SendHello, RecvHello, ClientReads, Set, TypeOK, ClientTypes, BeforeMenu,
       login, request, execution
  <2> QED
    BY <2>1, <2>2, <2>3
<1>2. CASE cpc'[s] = "failed" /\ cuser'[s] = cuser[s]
  BY <1>1, <1>2, StopLeaves DEF Gone, SameSession, Service!Next
<1>3. CASE cpc'[s] \in BeforeMenu
  <2>1. requests[s] = 0 /\ Phase(s) = "guest" /\ Phase(s)' = "guest"
    BY <1>1, <1>3 DEF Phase, Gone, BeforeMenu, Counted
  <2>2. Unseen(s)
    BY <1>1, <1>3, <2>1 DEF Unseen, Who, Known, Result, BeforeMenu
  <2> QED
    BY <2>2, UnseenStep
<1> QED
  BY <1>1, <1>2, <1>3

(* A choice at the menu.                                                    *)
LEMMA ChoiceIsAsked ==
  ASSUME TypeOK, TypeOK', NEW s \in Sessions, SameOthers(s),
         NEW text, NEW q \in Queries \cup {None}, NEW next,
         Choose(s, text, q, next), next \in {"exec", "list_begin", "close_reply"},
         next = "close_reply" => q = None /\ requests'[s] = requests[s],
         requests'[s] \in {requests[s], requests[s] + 1}
  PROVE  Service!Next
<1>1. /\ cpc[s] = "menu" /\ cpc'[s] = next /\ cuser'[s] = cuser[s]
      /\ query'[s] = q /\ typed'[s] = <<>> /\ ran'[s] = None
  BY DEF Choose, Set, TypeOK, ClientTypes, login
<1>2. Phase(s) = "ready" /\ Who(s) = cuser[s]
  <2>1. Phase(s) = "ready"
    BY <1>1, PhaseFacts
  <2> QED
    BY <2>1 DEF Who, Known
<1>3. Phases[s] = "ready" /\ Phases' = [Phases EXCEPT ![s] = Phase(s)']
      /\ Answers' = [Answers EXCEPT ![s] = NoResult]
  <2>1. Result(s)' = NoResult
    BY <1>1 DEF Result
  <2> QED
    BY <1>2, <2>1, MapsOfStep
<1>4. /\ query' = [query EXCEPT ![s] = q] /\ typed' = [typed EXCEPT ![s] = <<>>]
      /\ ran' = [ran EXCEPT ![s] = None]
  BY <1>1, MapsOfStep
<1>5. [Whose EXCEPT ![s] = Whose[s]] = Whose
  BY DEF Whose
<1>6. CASE next \in {"exec", "list_begin"}
  <2>1. Phase(s)' = "busy" /\ Who(s)' = cuser[s]
    <3>1. Phase(s)' = "busy"
      BY <1>1, <1>6 DEF Phase, Gone
    <3> QED
      BY <1>1, <3>1 DEF Who, Known
  <2>2. Whose' = Whose
    BY <1>2, <1>5, <2>1, MapsOfStep
  <2>3. Service!Ask(s, q)
    BY <1>3, <1>4, <2>1, <2>2
       DEF Service!Ask, Service!Renew, Phases, Whose, Answers, Who, Result,
           Service!NoResult, NoResult
  <2> QED
    BY <2>3 DEF Service!Next
<1>7. CASE next = "close_reply"
  <2>1. Phase(s)' = "gone" /\ Who(s)' \in {cuser[s], None} /\ q = None
    BY <1>1, <1>7 DEF Phase, Who, Known
  <2>2. Whose' \in {Whose, [Whose EXCEPT ![s] = None]}
    BY <1>2, <1>5, <2>1, MapsOfStep
  <2>3. Service!Leave(s)
    BY <1>3, <1>4, <2>1, <2>2
       DEF Service!Leave, Service!Renew, Phases, Whose, Answers, Who, Result,
           Service!NoResult, NoResult
  <2> QED
    BY <2>3 DEF Service!Next
<1> QED
  BY <1>6, <1>7

(* What a request means is the same in both.                                *)
LEMMA SameMeaning ==
  ASSUME NEW s \in Sessions, Known(s)
  PROVE  Service!Meant(s) = Meant(s)
BY SameResolve DEF Service!Meant, Meant

(* Nothing of a session is seen as long as its client stays at requests.    *)
LEMMA BusyIsUnseen ==
  ASSUME TypeOK, TypeOK', NEW s \in Sessions, SameOthers(s), SameSession(s),
         cpc[s] \in {"exec", "list_begin", "list"},
         cpc'[s] \in {"exec", "list_begin", "list"}
  PROVE  UNCHANGED Service!vars
<1>1. Phase(s) = "busy" /\ Phase(s)' = "busy"
  BY DEF Phase, Gone
<1>2. Unseen(s)
  BY <1>1 DEF Unseen, Who, Known, Result, SameSession
<1> QED
  BY <1>2, UnseenStep

(* The menu comes back.                                                     *)
LEMMA MenuReturns ==
  ASSUME TypeOK, TypeOK', NEW s \in Sessions, SameOthers(s), SameSession(s),
         cpc[s] \in {"exec", "list"}, cpc'[s] = "menu",
         \/ query[s] = None /\ res'[s] = NoResult
         \/ /\ query[s] # None /\ ran[s] = None /\ Meant(s).answer = "NCERROR"
            /\ res'[s] = NoResult
         \/ /\ query[s] # None /\ ran[s] # None
            /\ res'[s] = [out |-> ran[s].out, err |-> ran[s].err, code |-> ran[s].code]
  PROVE  Service!Next
<1>1. Phase(s) = "busy" /\ Phase(s)' = "ready"
  BY DEF Phase, Gone
<1>2. Known(s) /\ Who(s)' = Who(s) /\ Result(s) = NoResult /\ Result(s)' = res'[s]
  BY <1>1 DEF Who, Known, Result, SameSession
<1>3. /\ Phases[s] = "busy" /\ Phases' = [Phases EXCEPT ![s] = "ready"]
      /\ Answers' = [Answers EXCEPT ![s] = res'[s]] /\ Answers[s] = NoResult
  BY <1>1, <1>2, MapsOfStep
<1>4. Whose' = Whose
  <2>1. Whose' = [Whose EXCEPT ![s] = Whose[s]]
    BY <1>2, MapsOfStep
  <2> QED
    BY <2>1 DEF Whose
<1>5. UNCHANGED <<query, typed, ran>>
  BY DEF SameSession, SameOthers, SameView, TypeOK, ClientTypes
<1>6. res'[s] = NoResult => Answers' = Answers
  <2>1. res'[s] = NoResult => Answers' = [Answers EXCEPT ![s] = Answers[s]]
    BY <1>3
  <2> QED
    BY <2>1 DEF Answers
<1>7. \/ query[s] = None /\ Answers' = Answers
      \/ /\ query[s] # None /\ ran[s] = None /\ Service!Meant(s).answer = "NCERROR"
         /\ Answers' = Answers
      \/ /\ query[s] # None /\ ran[s] # None
         /\ Answers' = [Answers EXCEPT ![s] =
              [out |-> ran[s].out, err |-> ran[s].err, code |-> ran[s].code]]
  BY <1>2, <1>3, <1>6, SameMeaning
<1>8. Service!Return(s)
  BY <1>3, <1>4, <1>5, <1>7
     DEF Service!Return, Service!Meant, Phases, Whose, Answers, Who, Result
<1> QED
  BY <1>8 DEF Service!Next

LEMMA ListingReturns ==
  ASSUME TypeOK, TypeOK', NEW s \in Sessions, SameOthers(s), Conversation(s), Counted(s),
         RecvListBegin(s) \/ RecvListLine(s) \/ RecvClose(s)
  PROVE  Service!Next \/ UNCHANGED Service!vars
<1>1. /\ SameSession(s) /\ res'[s] = res[s] /\ cpc'[s] \in {"list", "menu"} \cup Gone
      /\ cpc'[s] = "list" => cpc[s] \in {"list_begin", "list"}
      /\ cpc'[s] = "menu" => cpc[s] = "list"
  <2>1. UNCHANGED <<ran, login, request, execution>>
    BY DEF RecvListBegin, RecvListLine, RecvClose
  <2>2. SameSession(s) /\ res'[s] = res[s]
    BY <2>1 DEF SameSession, login, request, execution
  <2>3. CASE RecvListBegin(s)
    BY <2>2, <2>3 DEF RecvListBegin, ClientReads, Set, TypeOK, ClientTypes, Gone
  <2>4. CASE RecvListLine(s)
    BY <2>2, <2>4 DEF RecvListLine, ClientReads, Set, TypeOK, ClientTypes, Gone
  <2>5. CASE RecvClose(s)
    BY <2>2, <2>5 DEF RecvClose, ClientReads, Set, TypeOK, ClientTypes, Gone
  <2> QED
    BY <2>3, <2>4, <2>5
<1>2. CASE cpc'[s] \in Gone
  BY <1>1, <1>2, StopLeaves DEF Service!Next
<1>3. CASE cpc'[s] = "list"
  BY <1>1, <1>3, BusyIsUnseen
<1>4. CASE cpc'[s] = "menu"
  <2>1. cpc[s] = "list" /\ query[s] = None /\ res'[s] = NoResult
    BY <1>1, <1>4 DEF Conversation, ClientSide, Counted
  <2> QED
    BY <1>1, <1>4, <2>1, MenuReturns
<1> QED
  BY <1>1, <1>2, <1>3, <1>4

LEMMA ReportReturns ==
  ASSUME TypeOK, TypeOK', NEW s \in Sessions, SameOthers(s),
         Conversation(s), Conversation(s)', RecvMark(s) \/ RecvLine(s)
  PROVE  Service!Next \/ UNCHANGED Service!vars
<1>1. /\ cpc[s] = "exec" /\ SameSession(s) /\ cpc'[s] \in {"exec", "menu"}
      /\ cpc'[s] = "menu" => ps[s] \in {"out", "err"}
  <2>1. /\ UNCHANGED <<ran, login, request>>
        /\ cpc[s] = "exec" /\ cpc'[s] = IF Reply(s).head = "ERREND" THEN "menu" ELSE "exec"
        /\ ps[s] \in {"out", "err"} \/ Reply(s).head \in DOMAIN Section[ps[s]]
    BY DEF RecvMark, RecvLine, ClientReads, Set, TypeOK, ClientTypes, LoopEnds
  <2>2. SameSession(s)
    BY <2>1 DEF SameSession, login, request
  <2>3. ps[s] \in {"toplevel", "inexec", "out", "err"}
    BY SectionNames DEF TypeOK, ClientTypes
  <2> QED
    BY <2>1, <2>2, <2>3, SectionMarks
<1>2. CASE cpc'[s] = "exec"
  BY <1>1, <1>2, BusyIsUnseen
<1>3. CASE cpc'[s] = "menu"
  <2>1. query[s] # None /\ ran[s] # None
    BY <1>1, <1>3 DEF Conversation, ClientSide, AtExec, Fresh, Running
  <2>2. res'[s] = [out |-> ran[s].out, err |-> ran[s].err, code |-> ran[s].code]
    BY <1>1, <1>3, <2>1 DEF Conversation, ClientSide, Answered, SameSession
  <2> QED
    BY <1>1, <1>3, <2>1, <2>2, MenuReturns
<1> QED
  BY <1>1, <1>2, <1>3

LEMMA ParameterIsGiven ==
  ASSUME TypeOK, TypeOK', NEW s \in Sessions, SameOthers(s), Conversation(s),
         NEW p \in Params, RecvParam(s, p)
  PROVE  Service!Next
<1>1. /\ cpc[s] = "exec" /\ typed[s] = params[s]
      /\ Runnable(s) /\ Len(params[s]) < NumParams[cmd[s]]
  BY ParameterIsAwaited
<1>2. /\ cpc' = cpc /\ typed'[s] = Append(typed[s], p)
      /\ UNCHANGED <<query, ran, requests, cuser, res>>
  BY DEF RecvParam, Set, TypeOK, ClientTypes, login, execution
<1>3. Phase(s) = "busy" /\ Phase(s)' = "busy"
  BY <1>1, <1>2 DEF Phase, Gone
<1>4. Known(s) /\ Who(s)' = Who(s) /\ Result(s)' = Result(s)
  BY <1>1, <1>2, <1>3 DEF Who, Known, Result
<1>5. Phases' = Phases /\ Whose' = Whose /\ Answers' = Answers /\ Phases[s] = "busy"
  <2>1. /\ Phases' = [Phases EXCEPT ![s] = Phases[s]] /\ Phases[s] = "busy"
        /\ Whose' = [Whose EXCEPT ![s] = Whose[s]]
        /\ Answers' = [Answers EXCEPT ![s] = Answers[s]]
    BY <1>3, <1>4, MapsOfStep
  <2> QED
    BY <2>1 DEF Phases, Whose, Answers
<1>6. typed' = [typed EXCEPT ![s] = Append(typed[s], p)]
  BY <1>2, MapsOfStep
<1>7. /\ Service!Meant(s).answer = "RUN" /\ query[s] # None
      /\ Len(typed[s]) < NumParams[Service!Meant(s).cmd]
  BY <1>1, <1>4, SameMeaning DEF Runnable
<1>8. Service!Give(s, p)
  BY <1>2, <1>5, <1>6, <1>7
     DEF Service!Give, Service!Meant, Phases, Whose, Answers, Who, Result
<1> QED
  BY <1>8 DEF Service!Next

LEMMA RefusalReturns ==
  ASSUME TypeOK, TypeOK', NEW s \in Sessions, SameOthers(s), Conversation(s),
         \/ RecvNotFound(s) \/ RecvUnexpected(s) \/ ClientReadThrows(s) \/ Lost(s)
         \/ TlsReject(s)
  PROVE  Service!Next \/ UNCHANGED Service!vars
<1>1. SameSession(s) /\ res'[s] = res[s]
  BY DEF RecvNotFound, RecvUnexpected, ClientReadThrows, Lost, TlsReject, SameSession,
     login, request, execution
<1>2. CASE RecvNotFound(s) /\ query[s] \notin ShortQueries
  <2>1. /\ cpc[s] = "exec" /\ Fresh(s) /\ ran[s] = None /\ query[s] # None
        /\ Meant(s).answer = "NCERROR"
    BY <1>2, NothingWasFound
  <2>2. cpc'[s] = "menu"
    BY <1>2 DEF RecvNotFound, Set, TypeOK, ClientTypes
  <2> QED
    BY <1>1, <2>1, <2>2, MenuReturns DEF Fresh
<1>3. CASE ~(RecvNotFound(s) /\ query[s] \notin ShortQueries)
  <2>1. cpc'[s] \in Gone
    BY <1>3 DEF RecvNotFound, RecvUnexpected, ClientReadThrows, Lost, TlsReject, Set,
       TypeOK, ClientTypes, Gone
  <2> QED
    BY <1>1, <2>1, StopLeaves DEF Service!Next
<1> QED
  BY <1>2, <1>3

(* The command runs when the request's parameters are complete, for the     *)
(* user who made it, whether or not the client is still there.              *)
LEMMA CommandIsRun ==
  ASSUME TypeOK, TypeOK', NEW s \in Sessions, SameOthers(s), LoginStage(s),
         Conversation(s), Counted(s),
         NEW o \in Outputs, NEW code \in Codes, ServerRun(s, o, code)
  PROVE  Service!Next
<1> DEFINE r == [cmd |-> cmd[s], params |-> params[s], out |-> Lines(o[1]),
                 err |-> Lines(o[2]), code |-> code]
<1>1. spc[s] = "run" /\ ran'[s] = r /\ UNCHANGED client
  BY DEF ServerRun, Set, TypeOK
<1>2. ran[s] = None /\ Runnable(s) /\ Complete(s)
  BY <1>1 DEF Conversation, ThreadSide
<1>3. cpc[s] \in {"exec"} \cup Gone
  <2>1. cpc[s] \notin {"menu", "list_begin", "list", "close_reply"}
    BY <1>1 DEF Conversation, ClientSide, Idle, AtListBegin, AtList, Listing, AtClose
  <2>2. cpc[s] \in {"menu", "exec", "list_begin", "list", "close_reply"} \cup Gone
    BY <1>1, ServedClient DEF Serving
  <2> QED
    BY <2>1, <2>2
<1>4. Phase(s) \in {"busy", "gone"}
  BY <1>3 DEF Phase, Gone
<1>5. Known(s)
  BY <1>2 DEF Runnable, Counted, Known
<1> HIDE DEF r
<1>6. Phase(s)' = Phase(s) /\ Who(s)' = Who(s) /\ Result(s)' = Result(s)
      /\ UNCHANGED <<query, typed>>
  BY <1>1 DEF client, login, request, execution, Phase, Who, Known, Result
<1>7. Phases' = Phases /\ Whose' = Whose /\ Answers' = Answers
      /\ Phases[s] \in {"busy", "gone"}
  <2>1. /\ Phases' = [Phases EXCEPT ![s] = Phases[s]] /\ Phases[s] \in {"busy", "gone"}
        /\ Whose' = [Whose EXCEPT ![s] = Whose[s]]
        /\ Answers' = [Answers EXCEPT ![s] = Answers[s]]
    BY <1>4, <1>6, MapsOfStep
  <2> QED
    BY <2>1 DEF Phases, Whose, Answers
<1>8. ran' = [ran EXCEPT ![s] = r]
  BY <1>1, MapsOfStep
<1>9. /\ Service!Meant(s).answer = "RUN" /\ Service!Meant(s).cmd = cmd[s]
      /\ query[s] # None /\ typed[s] = params[s] /\ Len(typed[s]) = NumParams[cmd[s]]
  BY <1>2, <1>5, SameMeaning DEF Runnable, Complete
<1>10. r = [cmd |-> Service!Meant(s).cmd, params |-> typed[s],
            out |-> Service!Printed(o[1]), err |-> Service!Printed(o[2]), code |-> code]
  BY <1>9, SameOutput DEF r
<1>11. Service!Run(s, o, code)
  BY <1>2, <1>6, <1>7, <1>8, <1>9, <1>10
     DEF Service!Run, Service!Meant, Phases, Whose, Answers, Who, Result
<1> QED
  BY <1>11 DEF Service!Next

LEMMA ThreadIsUnseen ==
  ASSUME TypeOK, TypeOK', NEW s \in Sessions, SameOthers(s), UNCHANGED <<ran, client>>
  PROVE  UNCHANGED Service!vars
<1>1. Unseen(s)
  BY DEF Unseen, client, login, request, execution, Phase, Who, Known, Result
<1> QED
  BY <1>1, UnseenStep

(* The steps of the thread that run nothing.                                *)
LEMMA ServerIsUnseen ==
  ASSUME NEW s \in Sessions, ServerStep(s),
         ~ \E o \in Outputs, code \in Codes : ServerRun(s, o, code)
  PROVE  ran' = ran
BY DEF ServerStep, ServerHello, ServerUser, ServerPass, ServerList, ServerListLine,
   ServerListEnd, ServerExec, ServerParam, ServerClose, ServerRunThrows, ServerWrite,
   ServerWriteThrows, ServerReadThrows, ServerTlsThrows, ThreadExit

LEMMA RequestIsAsked ==
  ASSUME TypeOK, TypeOK', NEW s \in Sessions, SameOthers(s),
         List(s) \/ Quit(s) \/ \E q \in Queries : Exec(s, q)
  PROVE  Service!Next
<1>1. CASE List(s)
  <2>1. Choose(s, Text("LIST"), None, "list_begin") /\ requests'[s] = requests[s] + 1
    BY <1>1 DEF List, Set, TypeOK, ClientTypes
  <2> QED
    BY <2>1, ChoiceIsAsked
<1>2. CASE Quit(s)
  <2>1. Choose(s, Text("CLOSE"), None, "close_reply") /\ requests'[s] = requests[s]
    BY <1>2 DEF Quit
  <2> QED
    BY <2>1, ChoiceIsAsked
<1>3. CASE \E q \in Queries : Exec(s, q)
  <2>1. PICK q \in Queries : Exec(s, q)
    BY <1>3
  <2>2. Choose(s, With("EXEC", q), q, "exec") /\ requests'[s] = requests[s] + 1
    BY <2>1 DEF Exec, Set, TypeOK, ClientTypes
  <2> QED
    BY <2>2, ChoiceIsAsked
<1> QED
  BY <1>1, <1>2, <1>3

LEMMA StepIsServed ==
  ASSUME ServiceInv, ServiceInv', NEW s \in Sessions, Step(s)
  PROVE  Service!Next \/ UNCHANGED Service!vars
<1>1. TypeOK /\ TypeOK' /\ SameOthers(s)
  BY StepOfOne DEF ServiceInv, ConversationInv, LoginInv
<1>2. /\ LoginStage(s) /\ LoginStage(s)' /\ Conversation(s) /\ Conversation(s)'
      /\ Counted(s) /\ Counted(s)'
  BY DEF ServiceInv, ConversationInv, LoginInv
<1>3. CASE \/ TlsHandshake(s) \/ TlsReject(s) \/ SendHello(s) \/ RecvHello(s) \/ Connect(s)
           \/ \E u \in Logins, p \in Passwords : Login(s, u, p)
  BY <1>1, <1>2, <1>3, ConversationIsUnseen
<1>4. CASE RecvUserReply(s) \/ RecvPassReply(s)
  BY <1>1, <1>2, <1>4, LoginIsSeen
<1>5. CASE List(s) \/ Quit(s) \/ \E q \in Queries : Exec(s, q)
  BY <1>1, <1>5, RequestIsAsked
<1>6. CASE RecvListBegin(s) \/ RecvListLine(s) \/ RecvClose(s)
  BY <1>1, <1>2, <1>6, ListingReturns
<1>7. CASE RecvMark(s) \/ RecvLine(s)
  BY <1>1, <1>2, <1>7, ReportReturns
<1>8. CASE \E p \in Params : RecvParam(s, p)
  BY <1>1, <1>2, <1>8, ParameterIsGiven
<1>9. CASE RecvNotFound(s) \/ RecvUnexpected(s) \/ ClientReadThrows(s) \/ Lost(s)
  BY <1>1, <1>2, <1>9, RefusalReturns
<1>10. CASE ServerStep(s)
  <2>1. CASE \E o \in Outputs, code \in Codes : ServerRun(s, o, code)
    BY <1>1, <1>2, <2>1, CommandIsRun
  <2>2. CASE ~ \E o \in Outputs, code \in Codes : ServerRun(s, o, code)
    <3>1. UNCHANGED <<ran, client>>
      BY <1>10, <2>2, ServerIsUnseen, ServerLeavesClient
    <3> QED
      BY <1>1, <3>1, ThreadIsUnseen
  <2> QED
    BY <2>1, <2>2
<1> QED
  BY <1>3, <1>4, <1>5, <1>6, <1>7, <1>8, <1>9, <1>10 DEF Step, ClientStep, UserStep

LEMMA ServiceBegins == Init => Service!Init
<1> SUFFICES ASSUME Init PROVE Service!Init
  OBVIOUS
<1>1. \A s \in Sessions : cpc[s] = "start" /\ requests[s] = 0
  BY DEF Init
<1>2. \A s \in Sessions : Phase(s) = "guest"
  BY <1>1 DEF Phase, Gone
<1>3. \A s \in Sessions : ~Known(s) /\ cpc[s] # "menu"
  BY <1>1, <1>2 DEF Known
<1> QED
  BY <1>2, <1>3 DEF Init, Service!Init, Service!NoResult, NoResult

(* The sessions of any number of clients take only the steps of the         *)
(* service: a request gets the result of one run of what was asked for, or  *)
(* the session ends.  That every request ends is a matter of fairness.      *)
THEOREM ServiceIsImplemented ==
  ASSUME Plain
  PROVE  Spec => Service!Init /\ [][Service!Next]_(Service!vars)
<1>1. ServiceInv /\ ServiceInv' /\ [Next]_vars => [Service!Next]_(Service!vars)
  <2> SUFFICES ASSUME ServiceInv, ServiceInv', [Next]_vars
               PROVE  Service!Next \/ UNCHANGED Service!vars
    OBVIOUS
  <2>1. CASE UNCHANGED vars
    BY <2>1 DEF vars, client, login, request, execution, Service!vars, Phase, Known
  <2>2. CASE \E s \in Sessions : Step(s)
    BY <2>2, StepIsServed
  <2> QED
    BY <2>1, <2>2 DEF Next, Step
<1>2. Spec => []ServiceInv
  BY ServiceInductive
<1> QED
  BY <1>1, <1>2, ServiceBegins, PTL DEF Spec

-----------------------------------------------------------------------------
(***************************************************************************)
(* The answer that there is no such command.                               *)
(***************************************************************************)
(* Queries name top-level groups that there are: handleExecute answers any  *)
(* other one with ERROR, which ends the client.                             *)
KnownGroups ==
  \A q \in Queries : Len(Path[q]) > 1 => First(TopGroups, Path[q][1]) # {}

LEMMA RefusalIsNotFound ==
  ASSUME KnownGroups, NEW s \in Sessions, query[s] \in Queries, Meant(s).answer # "RUN"
  PROVE  Meant(s).answer = "NCERROR"
BY DEF KnownGroups, Meant, Resolve

LEMMA OnlyErrorsFail ==
  ASSUME TypeOK, KnownGroups, NEW s \in Sessions, Conversation(s), RecvUnexpected(s)
  PROVE  Meant(s).answer = "RUN"
<1> SUFFICES ASSUME Meant(s).answer # "RUN" PROVE FALSE
  OBVIOUS
<1>1. /\ ClientReads(s, "exec") /\ UNCHANGED <<c2s, ran, login, request, execution, thread>>
      /\ ps[s] \in {"toplevel", "inexec"} /\ Reply(s).head \notin DOMAIN Section[ps[s]]
      /\ ps[s] = "toplevel" => Reply(s).head \notin {"PARAM", "NCERROR"}
  BY DEF RecvUnexpected
<1>2. /\ cpc[s] = "exec" /\ AtExec(s) /\ Pending(s) # <<>> /\ Reply(s) = Head(Pending(s))
      /\ query[s] # None
  BY <1>1, LoopRead
<1>3. Meant(s).answer = "NCERROR"
  BY <1>2, RefusalIsNotFound DEF TypeOK, ClientTypes
<1>4. ~Runnable(s)
  BY DEF Runnable
<1>5. Fresh(s) /\ Pending(s) = <<Text(Meant(s).answer)>>
  <2>1. spc[s] \notin {"param", "run"}
    BY <1>4 DEF Conversation, ThreadSide
  <2>2. ran[s] = None
    BY DEF Conversation, ThreadSide, RanAsAsked
  <2> QED
    BY <1>2, <2>1, <2>2 DEF AtExec
<1> QED
  BY <1>1, <1>2, <1>3, <1>5, SingleText DEF Text, Fresh

(* No answer to a query that leads to no command ends the client, where the *)
(* first group of every query exists and no query has less than three       *)
(* characters.                                                              *)
THEOREM RefusalIsReported ==
  ASSUME Plain, KnownGroups, ShortQueries = {} PROVE Spec => UnresolvedIsReported
<1>1. ASSUME ConversationInv, [Next]_vars, NEW s \in Sessions,
             cpc[s] = "exec", cpc'[s] = "failed", s2c'[s] # s2c[s]
      PROVE  Meant(s).answer = "RUN"
  <2>1. TypeOK /\ Conversation(s)
    BY <1>1 DEF ConversationInv, LoginInv
  <2>2. PICK t \in Sessions : Step(t)
    BY <1>1 DEF Next, Step, vars, client
  <2>3. t = s
    BY <1>1, <2>1, <2>2, StepOfOne DEF SameOthers, SameView
  <2>4. CASE RecvUnexpected(s)
    BY <2>1, <2>4, OnlyErrorsFail
  <2>5. CASE RecvNotFound(s)
    BY <1>1, <2>1, <2>5 DEF RecvNotFound, Set, TypeOK, ClientTypes
  <2>6. CASE ClientStep(s) /\ ~RecvUnexpected(s) /\ ~RecvNotFound(s)
    BY <1>1, <2>1, <2>6
       DEF ClientStep, TlsHandshake, TlsReject, SendHello, RecvHello, RecvUserReply,
           RecvPassReply, RecvListBegin, RecvListLine, RecvClose, RecvMark, RecvLine,
           RecvParam, ClientReadThrows, ClientReads, Set, TypeOK, ClientTypes
  <2>7. CASE UserStep(s)
    BY <1>1, <2>7 DEF UserStep, Connect, Login, List, Quit, Exec, Choose
  <2>8. CASE ServerStep(s)
    BY <1>1, <2>8, ServerLeavesClient DEF client
  <2>9. CASE Lost(s)
    BY <1>1, <2>9 DEF Lost
  <2> QED
    BY <2>2, <2>3, <2>4, <2>5, <2>6, <2>7, <2>8, <2>9 DEF Step
<1>2. ConversationInv /\ [Next]_vars =>
        [\A s \in Sessions :
           cpc[s] = "exec" /\ cpc'[s] = "failed" /\ s2c'[s] # s2c[s]
             => Resolve(Path[query[s]], cuser[s]).answer = "RUN"]_vars
  BY <1>1 DEF Meant
<1>3. Spec => []ConversationInv
  BY ConversationInductive
<1> QED
  BY <1>2, <1>3, PTL DEF Spec, UnresolvedIsReported
=============================================================================
